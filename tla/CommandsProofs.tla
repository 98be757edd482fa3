--------------------------- MODULE CommandsProofs ---------------------------
(***************************************************************************)
(* What the commands promise, for any number of processes, whatever else   *)
(* runs beside them and whatever goes wrong: first those that stage the    *)
(* ISO (CommandsInv), then all of them (AllInv).                           *)
(***************************************************************************)
EXTENDS Commands, SequenceTheorems, FiniteSetTheorems, TLAPS

Reports == [ok : BOOLEAN, changed : BOOLEAN, id : VmIds \cup {NoId}]
VmKinds == DOMAIN First \ {"refresh", "isoInfo"}

\* What a step of a command about VMs leaves alone: the ISO storage, and the
\* other commands.
VmEffect(p) ==
  /\ at[p] \in ConfigPlaces
  /\ UNCHANGED <<world, tries, files, download>>
  /\ at' \in [Procs -> {"idle"} \cup IsoPlaces \cup ConfigPlaces \cup Ended]
  /\ at'[p] \in ConfigPlaces \cup {"done"}
  /\ report' \in [Procs -> Reports]
  /\ todo' \in [Procs -> Seq(Configs)]
  /\ target' \in [Procs -> VmIds \cup {NoId}]
  /\ at'[p] \in ConfigPlaces => todo'[p] # <<>>
  /\ \A q \in Procs \ {p} : at'[q] = at[q] /\ report'[q] = report[q] /\ todo'[q] = todo[q]

LEMMA KindPlaces ==
  ASSUME NEW k \in VmKinds
  PROVE  First[k] \in ConfigPlaces /\ Again[k] \in ConfigPlaces
BY DEF VmKinds, First, Again, ConfigPlaces

\* A step that moves on with its config.
LEMMA GotoEffect ==
  ASSUME TypeOK, NEW p \in Procs, NEW s \in ConfigPlaces \cup {"done"}, Goto(p, s)
  PROVE  /\ at' \in [Procs -> {"idle"} \cup IsoPlaces \cup ConfigPlaces \cup Ended]
         /\ at'[p] = s
         /\ \A q \in Procs \ {p} : at'[q] = at[q]
BY DEF TypeOK, Goto, Ended

\* All configs but the first.
LEMMA TailKeeps ==
  ASSUME NEW S, NEW s \in Seq(S), s # <<>>
  PROVE  Tail(s) \in Seq(S) /\ (Len(s) > 1 => Tail(s) # <<>>)
<1>1. Tail(s) \in Seq(S) /\ Len(Tail(s)) = Len(s) - 1 /\ Len(s) \in Nat
  BY HeadTailProperties, LenProperties
<1>2. \A n, m : m \in Nat /\ n = m - 1 /\ m > 1 => n # 0
  OBVIOUS
<1>3. Len(s) > 1 => Len(Tail(s)) # 0
  BY <1>1, <1>2, Zenon
<1> QED BY <1>1, <1>3, EmptySeq, Zenon

\* A step that is done with its config.
LEMMA DoneEffect ==
  ASSUME TypeOK, NEW p \in Procs, todo[p] # <<>>, Kind(p) \in VmKinds,
         NEW ok, ConfigDone(p, ok)
  PROVE  /\ at' \in [Procs -> {"idle"} \cup IsoPlaces \cup ConfigPlaces \cup Ended]
         /\ at'[p] \in ConfigPlaces \cup {"done"}
         /\ report' \in [Procs -> Reports]
         /\ todo' \in [Procs -> Seq(Configs)]
         /\ at'[p] \in ConfigPlaces => todo'[p] # <<>>
         /\ \A q \in Procs \ {p} : at'[q] = at[q] /\ report'[q] = report[q] /\ todo'[q] = todo[q]
<1> DEFINE place == IF Len(todo[p]) > 1 THEN Again[Kind(p)] ELSE "done"
<1>1. /\ todo' = [todo EXCEPT ![p] = Tail(@)]
      /\ report' = [report EXCEPT ![p].ok = @ /\ ok]
      /\ Goto(p, place)
  BY DEF ConfigDone
<1>2. place \in ConfigPlaces \cup {"done"} /\ (place # "done" => Len(todo[p]) > 1)
  BY KindPlaces
<1>3. /\ at' \in [Procs -> {"idle"} \cup IsoPlaces \cup ConfigPlaces \cup Ended]
      /\ at'[p] = place
      /\ \A q \in Procs \ {p} : at'[q] = at[q]
  BY <1>1, <1>2, GotoEffect
<1>4. todo[p] \in Seq(Configs)
  BY DEF TypeOK
<1>5. Tail(todo[p]) \in Seq(Configs) /\ (Len(todo[p]) > 1 => Tail(todo[p]) # <<>>)
  BY <1>4, TailKeeps
<1>6. todo' \in [Procs -> Seq(Configs)] /\ todo'[p] = Tail(todo[p])
      /\ \A q \in Procs \ {p} : todo'[q] = todo[q]
  BY <1>1, <1>5 DEF TypeOK
<1>7. report' \in [Procs -> Reports] /\ \A q \in Procs \ {p} : report'[q] = report[q]
  BY <1>1 DEF TypeOK, Reports
<1>8. "done" \notin ConfigPlaces
  BY DEF ConfigPlaces
<1> QED BY <1>2, <1>3, <1>5, <1>6, <1>7, <1>8

\* Each step of a command about VMs.
LEMMA VmSteps ==
  ASSUME CommandsInv, NEW p \in Procs,
         \/ \E check \in Checks : Check(p, check)
         \/ Allocate(p) \/ NoIdGiven(p) \/ Create(p) \/ CreateFails(p)
         \/ CleanUp(p) \/ CleanUpFails(p) \/ Start(p) \/ StartFails(p)
         \/ Exists(p) \/ ReadId(p)
         \/ Prompt(p) \/ List(p) \/ Destroy(p) \/ DestroyFails(p)
  PROVE  VmEffect(p)
<1>a. TypeOK /\ PlacesInv
  BY DEF CommandsInv
<1>b. at[p] \in ConfigPlaces => todo[p] # <<>> /\ Kind(p) \in VmKinds
  BY <1>a DEF PlacesInv, VmKinds, Kinds, First
<1>c. /\ report \in [Procs -> Reports] /\ todo \in [Procs -> Seq(Configs)]
      /\ target \in [Procs -> VmIds \cup {NoId}]
  BY <1>a DEF TypeOK, Reports
<1>d. ASSUME at[p] \in ConfigPlaces, UNCHANGED <<world, tries, files, download, target>>,
             NEW ok, ConfigDone(p, ok)
      PROVE  VmEffect(p)
  BY <1>a, <1>b, <1>c, <1>d, DoneEffect DEF VmEffect
<1>e. ASSUME at[p] \in ConfigPlaces, UNCHANGED <<world, tries, files, download, todo>>,
             NEW s \in ConfigPlaces \cup {"done"}, Goto(p, s),
             report' \in [Procs -> Reports], \A q \in Procs \ {p} : report'[q] = report[q],
             target' \in [Procs -> VmIds \cup {NoId}]
      PROVE  VmEffect(p)
  BY <1>a, <1>b, <1>c, <1>e, GotoEffect DEF VmEffect
<1>1. ASSUME NEW check \in Checks, Check(p, check)
      PROVE  VmEffect(p)
  <2>1. at[p] = check /\ at[p] \in ConfigPlaces
    BY <1>1 DEF Check, Checks, ConfigPlaces
  <2>2. PICK holds \in BOOLEAN : Checked(p, check, holds)
    BY <1>1 DEF Check, Holds
  <2>3. UNCHANGED <<world, tries, files, download, target>>
    BY <1>1 DEF Check
  <2>4. After(check, holds) \in ConfigPlaces
    BY DEF Checks, After, Following, ConfigPlaces
  <2>5. CASE ConfigDone(p, holds) \/ ConfigDone(p, FALSE)
    BY <1>d, <2>1, <2>3, <2>5
  <2>6. CASE /\ Goto(p, After(check, holds)) /\ UNCHANGED todo
             /\ report' = [report EXCEPT ![p].ok = @ /\ holds] \/ UNCHANGED report
    <3>1. report' \in [Procs -> Reports] /\ \A q \in Procs \ {p} : report'[q] = report[q]
      BY <1>c, <2>6 DEF Reports
    <3> QED BY <1>c, <1>e, <2>1, <2>3, <2>4, <2>6, <3>1
  <2> QED BY <2>2, <2>5, <2>6 DEF Checked
<1>2. ASSUME Allocate(p)
      PROVE  VmEffect(p)
  <2>1. PICK v \in VmIds :
          /\ target' = [target EXCEPT ![p] = v]
          /\ report' = IF Kind(p) = "provision" THEN [report EXCEPT ![p].id = v] ELSE report
    BY <1>2 DEF Allocate
  <2>2. report' \in [Procs -> Reports] /\ \A q \in Procs \ {p} : report'[q] = report[q]
    BY <1>c, <2>1 DEF Reports
  <2>3. target' \in [Procs -> VmIds \cup {NoId}]
    BY <1>c, <2>1
  <2>4. /\ at[p] \in ConfigPlaces /\ "create" \in ConfigPlaces /\ Goto(p, "create")
        /\ UNCHANGED <<world, tries, files, download, todo>>
    BY <1>2 DEF Allocate, ConfigPlaces
  <2> QED BY <1>e, <2>2, <2>3, <2>4
<1>3. ASSUME NoIdGiven(p) \/ CreateFails(p) \/ CleanUpFails(p) \/ StartFails(p) \/ DestroyFails(p)
      PROVE  VmEffect(p)
  BY <1>d, <1>3 DEF NoIdGiven, CreateFails, CleanUpFails, StartFails, DestroyFails, ConfigPlaces
<1>4. ASSUME Create(p) \/ CleanUp(p) \/ Start(p)
      PROVE  VmEffect(p)
  <2>1. /\ at[p] \in ConfigPlaces /\ UNCHANGED <<world, tries, files, download, target>>
        /\ \/ \E s \in {"clean", "start", "readId"} : Goto(p, s) /\ UNCHANGED <<report, todo>>
           \/ ConfigDone(p, TRUE) \/ ConfigDone(p, FALSE)
    BY <1>4 DEF Create, CleanUp, Start, Provisioned, ConfigPlaces
  <2>2. CASE \E s \in {"clean", "start", "readId"} : Goto(p, s) /\ UNCHANGED <<report, todo>>
    BY <1>c, <1>e, <2>1, <2>2 DEF ConfigPlaces
  <2>3. CASE ConfigDone(p, TRUE) \/ ConfigDone(p, FALSE)
    BY <1>d, <2>1, <2>3
  <2> QED BY <2>1, <2>2, <2>3
<1>5. ASSUME Exists(p)
      PROVE  VmEffect(p)
  <2>1. /\ at[p] \in ConfigPlaces /\ UNCHANGED <<world, tries, files, download, target, todo>>
    BY <1>5 DEF Exists, ConfigPlaces, vmVars
  <2>2. CASE \E v \in VmIds : Goto(p, "done") /\ report' = [report EXCEPT ![p].id = v]
    <3>1. report' \in [Procs -> Reports] /\ \A q \in Procs \ {p} : report'[q] = report[q]
      BY <1>c, <2>2 DEF Reports
    <3> QED BY <1>c, <1>e, <2>1, <2>2, <3>1
  <2>3. CASE (Goto(p, "cluster") \/ Goto(p, "list")) /\ UNCHANGED report
    BY <1>c, <1>e, <2>1, <2>3 DEF ConfigPlaces
  <2>4. CASE End(p, TRUE, FALSE) \/ End(p, FALSE, FALSE)
    <3>1. PICK ok \in BOOLEAN : report' = [report EXCEPT ![p].ok = ok, ![p].changed = FALSE]
      BY <2>4 DEF End
    <3>3. report' \in [Procs -> Reports] /\ \A q \in Procs \ {p} : report'[q] = report[q]
      BY <1>c, <3>1 DEF Reports
    <3>2. Goto(p, "done")
      BY <2>4 DEF End
    <3> QED BY <1>c, <1>e, <2>1, <3>2, <3>3
  <2> QED BY <1>5, <2>2, <2>3, <2>4 DEF Exists, Named
<1>6. ASSUME ReadId(p)
      PROVE  VmEffect(p)
  <2>1. /\ at[p] \in ConfigPlaces /\ UNCHANGED <<world, tries, files, download, target, todo>>
        /\ Goto(p, "done")
    BY <1>6 DEF ReadId, ConfigPlaces, vmVars
  <2>2. PICK v \in VmIds \cup {NoId} : report' = [report EXCEPT ![p].id = v, ![p].changed = TRUE]
    BY <1>6 DEF ReadId, Named
  <2>3. report' \in [Procs -> Reports] /\ \A q \in Procs \ {p} : report'[q] = report[q]
    BY <1>c, <2>2 DEF Reports
  <2> QED BY <1>c, <1>e, <2>1, <2>3
<1>7. ASSUME Prompt(p)
      PROVE  VmEffect(p)
  BY <1>c, <1>e, <1>7 DEF Prompt, vmVars, ConfigPlaces
<1>8. ASSUME List(p)
      PROVE  VmEffect(p)
  <2>1. at[p] \in ConfigPlaces /\ UNCHANGED <<world, tries, files, download>>
    BY <1>8 DEF List, ConfigPlaces
  <2>2. CASE \E v \in VmIds : /\ target' = [target EXCEPT ![p] = v] /\ Goto(p, "destroy")
                              /\ UNCHANGED <<report, todo>>
    BY <1>c, <1>e, <2>1, <2>2 DEF ConfigPlaces
  <2>3. CASE ConfigDone(p, FALSE) /\ UNCHANGED target
    BY <1>d, <2>1, <2>3
  <2> QED BY <1>8, <2>2, <2>3 DEF List, Named
<1>9. ASSUME Destroy(p)
      PROVE  VmEffect(p)
  <2>1. /\ at[p] \in ConfigPlaces /\ UNCHANGED <<world, tries, files, download, target>>
        /\ Destroyed(p) \/ ConfigDone(p, FALSE)
    BY <1>9 DEF Destroy, ConfigPlaces
  <2>2. CASE End(p, TRUE, TRUE) /\ UNCHANGED todo
    <3>1. report' \in [Procs -> Reports] /\ \A q \in Procs \ {p} : report'[q] = report[q]
      BY <1>c, <2>2 DEF End, Reports
    <3>2. Goto(p, "done")
      BY <2>2 DEF End
    <3> QED BY <1>c, <1>e, <2>1, <2>2, <3>1, <3>2
  <2>3. CASE ConfigDone(p, TRUE) \/ ConfigDone(p, FALSE)
    BY <1>d, <2>1, <2>3
  <2> QED BY <2>1, <2>2, <2>3 DEF Destroyed
<1> QED BY <1>1, <1>2, <1>3, <1>4, <1>5, <1>6, <1>7, <1>8, <1>9

\* Such a step keeps the invariant.
LEMMA VmKeeps ==
  ASSUME CommandsInv, NEW p \in Procs, VmEffect(p)
  PROVE  CommandsInv'
<1>1. TypeOK /\ PlacesInv /\ StagedInv
  BY DEF CommandsInv
<1>2. /\ at[p] \in ConfigPlaces /\ at'[p] \in ConfigPlaces \cup {"done"}
      /\ at'[p] \in ConfigPlaces => todo'[p] # <<>>
      /\ Kind(p) \notin {"none", "refresh", "isoInfo"}
  BY <1>1 DEF VmEffect, PlacesInv
<1>3. TypeOK'
  BY <1>1 DEF VmEffect, TypeOK, Reports
<1>4. at'[p] \notin IsoPlaces \cup {"idle"}
  BY <1>2 DEF ConfigPlaces, IsoPlaces
<1>5. PlacesInv'
  <2> SUFFICES ASSUME NEW q \in Procs
               PROVE  (/\ Kind(q) \in Kinds
                       /\ at[q] = "idle" /\ Kind(q) \notin {"none", "refresh", "isoInfo"}
                            => todo[q] # <<>>
                       /\ at[q] \in ConfigPlaces => todo[q] # <<>>
                       /\ at[q] = "idle" => tries[q] = 0
                       /\ at[q] \in IsoPlaces => Kind(q) \in {"refresh", "isoInfo"}
                       /\ at[q] \in ConfigPlaces => Kind(q) \notin {"none", "refresh", "isoInfo"}
                       /\ at[q] = "feed" => tries[q] < MaxTries
                       /\ download[q] # "none" => Kind(q) \in {"refresh", "isoInfo"})'
    BY DEF PlacesInv
  <2>1. Kind(q)' = Kind(q) /\ tries'[q] = tries[q] /\ download'[q] = download[q]
    BY DEF VmEffect, Kind, Command
  <2>2. CASE q = p
    BY <1>1, <1>2, <1>4, <2>1, <2>2 DEF PlacesInv, IsoPlaces
  <2>3. CASE q # p
    BY <1>1, <2>1, <2>3 DEF PlacesInv, VmEffect
  <2> QED BY <2>2, <2>3
<1>6. StagedInv'
  <2>1. UNCHANGED <<world, files, download>>
    BY DEF VmEffect
  <2>2. \A q \in Procs : Kind(q)' = Kind(q) /\ Command(q)' = Command(q)
    BY <2>1 DEF Kind, Command
  <2>3. \A q \in Procs : q # p => at'[q] = at[q] /\ report'[q] = report[q]
    BY DEF VmEffect
  <2>4. Staged' = Staged /\ \A q \in Procs, f \in world.files : Misleads(q, f)' = Misleads(q, f)
    BY <2>1, <2>2 DEF Staged, Misleads
  <2>5. at'[p] # "present" /\ Kind(p) \notin {"refresh", "isoInfo"}
    BY <1>2, <1>4 DEF IsoPlaces
  <2> QED BY <1>1, <2>1, <2>2, <2>3, <2>4, <2>5 DEF StagedInv
<1> QED BY <1>3, <1>5, <1>6 DEF CommandsInv

-----------------------------------------------------------------------------
(* The commands that stage the ISO *)

Wants(p) == Kind(p) = "refresh" \/ (Kind(p) = "isoInfo" /\ Command(p).download)
Misled(p) == \E f \in world.files : Misleads(p, f)

\* What a step of such a command does, the host's downloads aside.
IsoEffect(p) ==
  /\ at[p] \in IsoPlaces
  /\ UNCHANGED <<world, files, todo, target>>
  /\ at' \in [Procs -> {"idle"} \cup IsoPlaces \cup ConfigPlaces \cup Ended]
  /\ at'[p] \in IsoPlaces \cup {"done"}
  /\ report' \in [Procs -> Reports]
  /\ tries' \in [Procs -> 0..MaxTries]
  /\ download' \in [Procs -> {"none", "running", "ok", "error"}]
  /\ \A q \in Procs : download'[q] = download[q] \/ (q = p /\ download'[q] = "running")
  /\ \A q \in Procs \ {p} : at'[q] = at[q] /\ report'[q] = report[q] /\ tries'[q] = tries[q]
  /\ at'[p] = "feed" => tries'[p] < MaxTries
  /\ at'[p] = "present" => Kind(p) = "refresh" \/ Command(p).download
  /\ at'[p] = "done" /\ report'[p].ok /\ Wants(p) /\ ~Misled(p) => Staged # {}

LEMMA IsoKeeps ==
  ASSUME CommandsInv, NEW p \in Procs, IsoEffect(p)
  PROVE  CommandsInv'
<1>1. TypeOK /\ PlacesInv /\ StagedInv
  BY DEF CommandsInv
<1>2. Kind(p) \in {"refresh", "isoInfo"} /\ at'[p] \notin ConfigPlaces \cup {"idle"}
  BY <1>1 DEF IsoEffect, PlacesInv, IsoPlaces, ConfigPlaces
<1>3. TypeOK'
  BY <1>1 DEF IsoEffect, TypeOK, Reports
<1>4. \A q \in Procs : Kind(q)' = Kind(q) /\ Command(q)' = Command(q)
  BY DEF IsoEffect, Kind, Command
<1>5. PlacesInv'
  <2> SUFFICES ASSUME NEW q \in Procs
               PROVE  (/\ Kind(q) \in Kinds
                       /\ at[q] = "idle" /\ Kind(q) \notin {"none", "refresh", "isoInfo"}
                            => todo[q] # <<>>
                       /\ at[q] \in ConfigPlaces => todo[q] # <<>>
                       /\ at[q] = "idle" => tries[q] = 0
                       /\ at[q] \in IsoPlaces => Kind(q) \in {"refresh", "isoInfo"}
                       /\ at[q] \in ConfigPlaces => Kind(q) \notin {"none", "refresh", "isoInfo"}
                       /\ at[q] = "feed" => tries[q] < MaxTries
                       /\ download[q] # "none" => Kind(q) \in {"refresh", "isoInfo"})'
    BY DEF PlacesInv
  <2>2. CASE q = p
    BY <1>1, <1>2, <1>4, <2>2 DEF PlacesInv, IsoEffect
  <2>3. CASE q # p
    BY <1>1, <1>4, <2>3 DEF PlacesInv, IsoEffect
  <2> QED BY <2>2, <2>3
<1>6. StagedInv'
  <2>1. UNCHANGED <<world, files>>
    BY DEF IsoEffect
  <2>2. \A q \in Procs : download'[q] = "ok" => download[q] = "ok"
    BY DEF IsoEffect
  <2>3. \A q \in Procs : q # p => at'[q] = at[q] /\ report'[q] = report[q]
    BY DEF IsoEffect
  <2>4. Staged' = Staged /\ \A q \in Procs, f \in world.files : Misleads(q, f)' = Misleads(q, f)
    BY <2>1, <1>4 DEF Staged, Misleads
  <2>5. /\ at'[p] = "present" => Kind(p) = "refresh" \/ Command(p).download
        /\ at'[p] = "done" /\ report'[p].ok
           /\ (Kind(p) = "refresh" \/ (Kind(p) = "isoInfo" /\ Command(p).download))
           /\ (\A f \in world.files : ~Misleads(p, f))
           => Staged # {}
    BY DEF IsoEffect, Wants, Misled
  <2> QED BY <1>1, <1>4, <2>1, <2>2, <2>3, <2>4, <2>5 DEF StagedInv
<1> QED BY <1>3, <1>5, <1>6 DEF CommandsInv

\* A step that goes on, or ends with that report, and leaves the rest alone.
LEMMA IsoGoes ==
  ASSUME CommandsInv, NEW p \in Procs, at[p] \in IsoPlaces,
         UNCHANGED <<world, tries, files, download, vmVars>>,
         \/ \E s \in IsoPlaces \ {"feed"} :
              /\ Goto(p, s) /\ UNCHANGED report
              /\ s = "present" => Wants(p)
         \/ \E ok \in BOOLEAN, changed \in BOOLEAN :
              /\ End(p, ok, changed)
              /\ ok /\ Wants(p) /\ ~Misled(p) => Staged # {}
  PROVE  IsoEffect(p)
<1>1. TypeOK
  BY DEF CommandsInv
<1>2. CASE \E s \in IsoPlaces \ {"feed"} : Goto(p, s) /\ UNCHANGED report /\ (s = "present" => Wants(p))
  <2>1. PICK s \in IsoPlaces \ {"feed"} :
          Goto(p, s) /\ UNCHANGED report /\ (s = "present" => Wants(p))
    BY <1>2
  <2>2. /\ at' \in [Procs -> {"idle"} \cup IsoPlaces \cup ConfigPlaces \cup Ended]
        /\ at'[p] = s /\ \A q \in Procs \ {p} : at'[q] = at[q]
    BY <1>1, <2>1 DEF Goto, TypeOK
  <2>3. s # "done" /\ s # "feed"
    BY <2>1 DEF IsoPlaces
  <2> QED BY <1>1, <2>1, <2>2, <2>3 DEF IsoEffect, TypeOK, Reports, Wants, vmVars
<1>3. CASE \E ok \in BOOLEAN, changed \in BOOLEAN :
             End(p, ok, changed) /\ (ok /\ Wants(p) /\ ~Misled(p) => Staged # {})
  <2>1. PICK ok \in BOOLEAN, changed \in BOOLEAN :
          End(p, ok, changed) /\ (ok /\ Wants(p) /\ ~Misled(p) => Staged # {})
    BY <1>3
  <2>2. report' = [report EXCEPT ![p].ok = ok, ![p].changed = changed] /\ Goto(p, "done")
    BY <2>1 DEF End
  <2>3. /\ report' \in [Procs -> Reports] /\ report'[p].ok = ok
        /\ \A q \in Procs \ {p} : report'[q] = report[q]
    BY <1>1, <2>2 DEF TypeOK, Reports
  <2>4. /\ at' \in [Procs -> {"idle"} \cup IsoPlaces \cup ConfigPlaces \cup Ended]
        /\ at'[p] = "done" /\ \A q \in Procs \ {p} : at'[q] = at[q]
    BY <1>1, <2>2 DEF Goto, TypeOK, Ended
  <2> QED BY <1>1, <2>1, <2>3, <2>4 DEF IsoEffect, TypeOK, vmVars
<1> QED BY <1>2, <1>3

\* Each step of a command that stages the ISO.
LEMMA IsoSteps ==
  ASSUME CommandsInv, NEW p \in Procs, IsoStep(p), UNCHANGED vmVars
  PROVE  IsoEffect(p)
<1>1. TypeOK /\ PlacesInv /\ StagedInv
  BY DEF CommandsInv
<1>2. CASE FeedAnswers(p)
  <2>1. at[p] \in IsoPlaces /\ Kind(p) \in {"refresh", "isoInfo"}
    BY <1>1, <1>2 DEF FeedAnswers, IsoPlaces, PlacesInv
  <2>2. CASE Kind(p) = "isoInfo" /\ ~Command(p).download
    <3>1. End(p, TRUE, FALSE) /\ UNCHANGED <<world, tries, files, download>> /\ ~Wants(p)
      BY <1>2, <2>2 DEF FeedAnswers, Wants
    <3> QED BY <2>1, <3>1, IsoGoes
  <2>3. CASE ~(Kind(p) = "isoInfo" /\ ~Command(p).download)
    <3>1. /\ Goto(p, "present") /\ UNCHANGED report /\ UNCHANGED <<world, tries, files, download>>
          /\ Wants(p)
      BY <1>2, <2>1, <2>3 DEF FeedAnswers, Wants
    <3>2. "present" \in IsoPlaces \ {"feed"}
      BY DEF IsoPlaces
    <3> QED BY <2>1, <3>1, <3>2, IsoGoes
  <2> QED BY <2>2, <2>3
<1>3. CASE FeedIsUseless(p)
  <2>1. at[p] \in IsoPlaces /\ End(p, FALSE, FALSE) /\ UNCHANGED <<world, tries, files, download>>
    BY <1>3 DEF FeedIsUseless, IsoPlaces
  <2> QED BY <2>1, IsoGoes
<1>4. CASE FeedIsBusy(p)
  <2>1. /\ at[p] = "feed" /\ at[p] \in IsoPlaces
        /\ tries' = [tries EXCEPT ![p] = @ + 1] /\ UNCHANGED <<world, files, download, todo, target>>
    BY <1>4 DEF FeedIsBusy, IsoPlaces, vmVars
  <2>2. tries[p] \in 0..MaxTries /\ tries[p] < MaxTries /\ MaxTries \in Nat
    BY <1>1, <2>1, CommandsAssumption DEF TypeOK, PlacesInv
  <2>3. /\ tries' \in [Procs -> 0..MaxTries] /\ \A q \in Procs \ {p} : tries'[q] = tries[q]
        /\ tries'[p] # MaxTries => tries'[p] < MaxTries
    BY <1>1, <2>1, <2>2 DEF TypeOK
  <2>4. CASE tries'[p] = MaxTries /\ End(p, FALSE, FALSE)
    <3>1. report' = [report EXCEPT ![p].ok = FALSE, ![p].changed = FALSE] /\ Goto(p, "done")
      BY <2>4 DEF End
    <3>2. /\ report' \in [Procs -> Reports] /\ ~report'[p].ok
          /\ \A q \in Procs \ {p} : report'[q] = report[q]
      BY <1>1, <3>1 DEF TypeOK, Reports
    <3>3. /\ at' \in [Procs -> {"idle"} \cup IsoPlaces \cup ConfigPlaces \cup Ended]
          /\ at'[p] = "done" /\ \A q \in Procs \ {p} : at'[q] = at[q]
      BY <1>1, <3>1 DEF Goto, TypeOK, Ended
    <3> QED BY <1>1, <2>1, <2>3, <3>2, <3>3 DEF IsoEffect, TypeOK
  <2>5. CASE tries'[p] # MaxTries /\ UNCHANGED <<at, report>>
    <3>1. at'[p] = "feed" /\ at'[p] \in IsoPlaces
      BY <2>1, <2>5
    <3> QED BY <1>1, <2>1, <2>3, <2>5, <3>1 DEF IsoEffect, TypeOK, Reports
  <2> QED BY <1>4, <2>4, <2>5 DEF FeedIsBusy
<1>5. CASE LookForIso(p)
  <2>1. /\ at[p] = "present" /\ at[p] \in IsoPlaces /\ UNCHANGED <<world, tries, files, download>>
        /\ \/ Present(p) /\ End(p, TRUE, FALSE)
           \/ /\ Goto(p, IF Kind(p) = "refresh" THEN "sums" ELSE "request")
              /\ UNCHANGED report
    BY <1>5 DEF LookForIso, IsoPlaces
  <2>2. CASE Present(p) /\ End(p, TRUE, FALSE)
    <3>1. ASSUME Wants(p), ~Misled(p)
          PROVE  Staged # {}
      <4>1. PICK f \in files : EndsWith(f.name, Iso) /\ (Kind(p) = "refresh" => f.content = "iso")
        BY <2>2 DEF Present, ValidateIso
      <4>2. CASE f \in world.files
        <5>1. ~Misleads(p, f)
          BY <3>1, <4>2 DEF Misled
        <5>2. f.name = <<Iso>> /\ f.content = "iso"
          BY <4>1, <5>1 DEF Misleads
        <5> QED BY <5>2 DEF Staged
      <4>3. CASE f.content = "iso" /\ f.name = <<Iso>>
        BY <4>3 DEF Staged
      <4> QED BY <1>1, <4>2, <4>3 DEF StagedInv
    <3> QED BY <2>1, <2>2, <3>1, IsoGoes
  <2>3. CASE /\ Goto(p, IF Kind(p) = "refresh" THEN "sums" ELSE "request")
             /\ UNCHANGED report
    <3>1. \E s \in IsoPlaces \ {"feed"} : Goto(p, s) /\ UNCHANGED report /\ (s = "present" => Wants(p))
      BY <2>3 DEF IsoPlaces
    <3> QED BY <2>1, <3>1, IsoGoes
  <2> QED BY <2>1, <2>2, <2>3
<1>6. CASE FetchSums(p)
  <2>1. /\ at[p] \in IsoPlaces /\ UNCHANGED <<world, tries, files, download>>
        /\ (Goto(p, "request") /\ UNCHANGED report) \/ End(p, FALSE, FALSE)
    BY <1>6 DEF FetchSums, IsoPlaces
  <2>2. "request" \in IsoPlaces \ {"feed"}
    BY DEF IsoPlaces
  <2> QED BY <2>1, <2>2, IsoGoes
<1>7. CASE RequestDownload(p)
  <2>1. /\ at[p] \in IsoPlaces /\ UNCHANGED <<world, tries, files, todo, target>>
        /\ download' = [download EXCEPT ![p] = "running"] \/ UNCHANGED download
        /\ (Goto(p, "wait") /\ UNCHANGED report) \/ End(p, FALSE, FALSE)
    BY <1>7 DEF RequestDownload, IsoPlaces, vmVars
  <2>2. /\ download' \in [Procs -> {"none", "running", "ok", "error"}]
        /\ \A q \in Procs : download'[q] = download[q] \/ (q = p /\ download'[q] = "running")
    BY <1>1, <2>1 DEF TypeOK
  <2>3. PICK s \in {"wait", "done"} : Goto(p, s)
    BY <2>1 DEF End
  <2>4. /\ at' \in [Procs -> {"idle"} \cup IsoPlaces \cup ConfigPlaces \cup Ended]
        /\ at'[p] = s /\ \A q \in Procs \ {p} : at'[q] = at[q]
    BY <1>1, <2>3 DEF Goto, TypeOK, Ended, IsoPlaces
  <2>5. /\ report' \in [Procs -> Reports]
        /\ report'[p].ok => at'[p] = "wait"
        /\ \A q \in Procs \ {p} : report'[q] = report[q]
    <3>1. CASE Goto(p, "wait") /\ UNCHANGED report
      BY <1>1, <3>1 DEF TypeOK, Reports, Goto
    <3>2. CASE End(p, FALSE, FALSE)
      <4>1. report' = [report EXCEPT ![p].ok = FALSE, ![p].changed = FALSE]
        BY <3>2 DEF End
      <4> QED BY <1>1, <4>1 DEF TypeOK, Reports
    <3> QED BY <2>1, <3>1, <3>2
  <2> QED BY <1>1, <2>1, <2>2, <2>3, <2>4, <2>5 DEF IsoEffect, TypeOK, IsoPlaces
<1>8. CASE AwaitDownload(p)
  <2>1. /\ at[p] \in IsoPlaces /\ UNCHANGED <<world, tries, files, download>>
        /\ (download[p] = "ok" /\ End(p, TRUE, TRUE)) \/ End(p, FALSE, FALSE)
    BY <1>8 DEF AwaitDownload, IsoPlaces
  <2>2. download[p] = "ok" => Staged # {}
    BY <1>1 DEF StagedInv
  <2> QED BY <2>1, <2>2, IsoGoes
<1> QED BY <1>2, <1>3, <1>4, <1>5, <1>6, <1>7, <1>8 DEF IsoStep

-----------------------------------------------------------------------------
(* The other steps *)

LEMMA BeginKeeps ==
  ASSUME CommandsInv, NEW p \in Procs, Begin(p)
  PROVE  CommandsInv'
<1>1. TypeOK /\ PlacesInv /\ StagedInv
  BY DEF CommandsInv
<1>2. /\ at[p] = "idle" /\ Kind(p) # "none" /\ Goto(p, First[Kind(p)])
      /\ UNCHANGED <<world, report, tries, files, download, todo, target>>
  BY DEF Begin, vmVars
<1>3. \/ Kind(p) \in {"refresh", "isoInfo"} /\ First[Kind(p)] = "feed"
      \/ Kind(p) \notin {"none", "refresh", "isoInfo"} /\ First[Kind(p)] \in ConfigPlaces
  BY <1>1, <1>2 DEF PlacesInv, Kinds, First, ConfigPlaces
<1>4. /\ First[Kind(p)] \in IsoPlaces \cup ConfigPlaces
      /\ First[Kind(p)] \in IsoPlaces => Kind(p) \in {"refresh", "isoInfo"}
      /\ First[Kind(p)] \in ConfigPlaces => Kind(p) \notin {"none", "refresh", "isoInfo"}
      /\ First[Kind(p)] \notin {"idle", "present", "done"}
  BY <1>3 DEF IsoPlaces, ConfigPlaces
<1>5. /\ at' \in [Procs -> {"idle"} \cup IsoPlaces \cup ConfigPlaces \cup Ended]
      /\ at'[p] = First[Kind(p)] /\ \A q \in Procs : q # p => at'[q] = at[q]
  BY <1>1, <1>2, <1>4 DEF Goto, TypeOK
<1>6. \A q \in Procs : Kind(q)' = Kind(q) /\ Command(q)' = Command(q)
  BY <1>2 DEF Kind, Command
<1>7. TypeOK'
  BY <1>1, <1>2, <1>5 DEF TypeOK
<1>8. PlacesInv'
  <2>1. tries[p] < MaxTries
    BY <1>1, <1>2, CommandsAssumption DEF PlacesInv
  <2> QED BY <1>1, <1>2, <1>4, <1>5, <1>6, <2>1 DEF PlacesInv
<1>9. StagedInv'
  <2>1. Staged' = Staged /\ \A q \in Procs, f \in world.files : Misleads(q, f)' = Misleads(q, f)
    BY <1>2, <1>6 DEF Staged, Misleads
  <2> QED BY <1>1, <1>2, <1>4, <1>5, <1>6, <2>1 DEF StagedInv
<1> QED BY <1>7, <1>8, <1>9 DEF CommandsInv

LEMMA CrashKeeps ==
  ASSUME CommandsInv, NEW p \in Procs, Crash(p)
  PROVE  CommandsInv'
<1>1. TypeOK /\ PlacesInv /\ StagedInv
  BY DEF CommandsInv
<1>2. /\ Goto(p, "dead") /\ report' = [report EXCEPT ![p].ok = FALSE]
      /\ UNCHANGED <<world, tries, files, download, todo, target>>
  BY DEF Crash, vmVars
<1>3. /\ at' \in [Procs -> {"idle"} \cup IsoPlaces \cup ConfigPlaces \cup Ended]
      /\ at'[p] = "dead" /\ \A q \in Procs : q # p => at'[q] = at[q]
  BY <1>1, <1>2 DEF Goto, TypeOK, Ended
<1>4. /\ report' \in [Procs -> Reports]
      /\ \A q \in Procs : q # p => report'[q] = report[q]
  BY <1>1, <1>2 DEF TypeOK, Reports
<1>5. \A q \in Procs : Kind(q)' = Kind(q) /\ Command(q)' = Command(q)
  BY <1>2 DEF Kind, Command
<1>6. TypeOK'
  BY <1>1, <1>2, <1>3, <1>4 DEF TypeOK, Reports
<1>7. PlacesInv'
  <2>1. "dead" \notin IsoPlaces \cup ConfigPlaces \cup {"idle", "feed"}
    BY DEF IsoPlaces, ConfigPlaces
  <2> QED BY <1>1, <1>2, <1>3, <1>5, <2>1 DEF PlacesInv
<1>8. StagedInv'
  <2>1. Staged' = Staged /\ \A q \in Procs, f \in world.files : Misleads(q, f)' = Misleads(q, f)
    BY <1>2, <1>5 DEF Staged, Misleads
  <2> QED BY <1>1, <1>2, <1>3, <1>4, <1>5, <2>1 DEF StagedInv
<1> QED BY <1>6, <1>7, <1>8 DEF CommandsInv

\* The host's task: it never takes the ISO away, and what it adds is the ISO,
\* with the release's sums if a refresh asked for it.
LEMMA DownloadKeeps ==
  ASSUME CommandsInv, NEW p \in Procs, HostStep(p)
  PROVE  CommandsInv'
<1> DEFINE new(good) == [name |-> <<Iso>>, content |-> "iso", good |-> good]
<1>1. TypeOK /\ PlacesInv /\ StagedInv
  BY DEF CommandsInv
<1>2. /\ download[p] = "running" /\ UNCHANGED <<world, at, report, tries, todo, target>>
      /\ \E s \in {"ok", "error"} : download' = [download EXCEPT ![p] = s]
  BY DEF HostStep, Download, vmVars
<1>3. /\ download' \in [Procs -> {"none", "running", "ok", "error"}]
      /\ \A q \in Procs : q # p => download'[q] = download[q]
      /\ Kind(p) \in {"refresh", "isoInfo"}
  BY <1>1, <1>2 DEF TypeOK, PlacesInv
<1>4. \A q \in Procs : Kind(q)' = Kind(q) /\ Command(q)' = Command(q)
  BY <1>2 DEF Kind, Command
<1>5. \/ files' = files /\ (download'[p] = "ok" => Staged # {})
      \/ \E good \in BOOLEAN : /\ Kind(p) = "refresh" => good
                               /\ files' = (files \ Staged) \cup {new(good)}
  <2>1. \/ Staged # {} /\ files' = files
        \/ files' = files /\ download' = [download EXCEPT ![p] = "error"]
        \/ \E good \in BOOLEAN : /\ Kind(p) = "refresh" => good
                                 /\ files' = (files \ Staged) \cup {new(good)}
    BY DEF HostStep, Download, Accepted
  <2> QED BY <1>1, <2>1 DEF TypeOK
<1>6. TypeOK'
  BY <1>1, <1>2, <1>3 DEF TypeOK
<1>7. PlacesInv'
  BY <1>1, <1>2, <1>3, <1>4 DEF PlacesInv
<1>8. \/ Staged' = Staged /\ files' = files /\ (download'[p] = "ok" => Staged # {})
      \/ \E good \in BOOLEAN : /\ Kind(p) = "refresh" => good
                               /\ files' = (files \ Staged) \cup {new(good)}
                               /\ Staged' = {new(good)}
  <2>1. CASE files' = files /\ (download'[p] = "ok" => Staged # {})
    BY <2>1 DEF Staged
  <2>2. ASSUME NEW good \in BOOLEAN, files' = (files \ Staged) \cup {new(good)}
        PROVE  Staged' = {new(good)}
    <3>1. new(good).content = "iso" /\ new(good).name = <<Iso>>
      OBVIOUS
    <3>2. \A f \in files \ Staged : ~(f.content = "iso" /\ f.name = <<Iso>>)
      BY DEF Staged
    <3> HIDE DEF new
    <3> QED BY <2>2, <3>1, <3>2 DEF Staged
  <2> QED BY <1>5, <2>1, <2>2
<1>9. StagedInv'
  <2>1. \A f \in files' : f \in world.files \/ (f.content = "iso" /\ f.name = <<Iso>>)
    BY <1>1, <1>8 DEF StagedInv
  <2>2. (\A q \in Procs : Kind(q) # "isoInfo") /\ (\A f \in world.files : f.good)
           => \A f \in Staged' : f.good
    BY <1>1, <1>3, <1>8 DEF StagedInv
  <2>3. Staged # {} => Staged' # {}
    BY <1>8
  <2>4. download'[p] = "ok" => Staged' # {}
    BY <1>8
  <2>5. \A q \in Procs, f \in world.files : Misleads(q, f)' = Misleads(q, f)
    BY <1>2, <1>4 DEF Misleads
  <2> QED BY <1>1, <1>2, <1>3, <1>4, <2>1, <2>2, <2>3, <2>4, <2>5 DEF StagedInv
<1> QED BY <1>6, <1>7, <1>9 DEF CommandsInv

-----------------------------------------------------------------------------
LEMMA InitKeeps == Init => CommandsInv
<1> SUFFICES ASSUME Init
             PROVE  CommandsInv
  OBVIOUS
<1>1. /\ world \in Worlds
      /\ at = [p \in Procs |-> "idle"]
      /\ report = [p \in Procs |-> [ok |-> TRUE, changed |-> FALSE, id |-> NoId]]
      /\ tries = [p \in Procs |-> 0]
      /\ files = world.files
      /\ download = [p \in Procs |-> "none"]
      /\ todo = [p \in Procs |-> world.cmd[p].configs]
      /\ target = [p \in Procs |-> NoId]
  BY DEF Init
<1>2. \A p \in Procs :
        /\ Kind(p) \in Kinds /\ world.cmd[p].configs \in Seq(Configs)
        /\ Kind(p) \notin {"none", "refresh", "isoInfo"} => world.cmd[p].configs # <<>>
  BY <1>1, CommandsAssumption DEF Kind, Command
<1>3. TypeOK
  BY <1>1, <1>2, CommandsAssumption DEF TypeOK
<1>4. PlacesInv
  BY <1>1, <1>2 DEF PlacesInv, IsoPlaces, ConfigPlaces
<1>5. StagedInv
  BY <1>1 DEF StagedInv, Staged
<1> QED BY <1>3, <1>4, <1>5 DEF CommandsInv

LEMMA StepKeeps == CommandsInv /\ [Next]_vars => CommandsInv'
<1> SUFFICES ASSUME CommandsInv, [Next]_vars
             PROVE  CommandsInv'
  OBVIOUS
<1>1. CASE UNCHANGED vars
  <2>1. UNCHANGED <<world, at, report, tries, files, download, todo, target>>
    BY <1>1 DEF vars, isoVars, vmVars
  <2> QED BY <2>1 DEF CommandsInv, TypeOK, PlacesInv, StagedInv, Staged, Misleads, Kind, Command
<1>2. ASSUME NEW p \in Procs, Begin(p) \/ CommandStep(p) \/ HostStep(p) \/ Crash(p)
      PROVE  CommandsInv'
  <2>1. CASE Begin(p)
    BY <2>1, BeginKeeps
  <2>2. CASE IsoStep(p) /\ UNCHANGED vmVars
    BY <2>2, IsoSteps, IsoKeeps
  <2>3. CASE \/ \E check \in Checks : Check(p, check)
             \/ Allocate(p) \/ NoIdGiven(p) \/ Create(p) \/ CreateFails(p)
             \/ CleanUp(p) \/ CleanUpFails(p) \/ Start(p) \/ StartFails(p)
             \/ Exists(p) \/ ReadId(p)
             \/ Prompt(p) \/ List(p) \/ Destroy(p) \/ DestroyFails(p)
    BY <2>3, VmSteps, VmKeeps
  <2>4. CASE HostStep(p)
    BY <2>4, DownloadKeeps
  <2>5. CASE Crash(p)
    BY <2>5, CrashKeeps
  <2> QED BY <1>2, <2>1, <2>2, <2>3, <2>4, <2>5 DEF CommandStep
<1> QED BY <1>1, <1>2 DEF Next

THEOREM Inductive == Spec => []CommandsInv
<1>1. Init => CommandsInv
  BY InitKeeps
<1>2. CommandsInv /\ [Next]_vars => CommandsInv'
  BY StepKeeps
<1> QED BY <1>1, <1>2, PTL DEF Spec

(* Every command is where its kind of command goes, with tries and configs left
   while it needs them, and reports what it may. *)
THEOREM TypeCorrect == Spec => []TypeOK
<1>1. CommandsInv => TypeOK
  BY DEF CommandsInv
<1> QED BY <1>1, Inductive, PTL

(* Success of a command that stages the ISO means that it is on the storage, with
   the release's sums when every download had them: for any number of such
   commands, and whatever fails. *)
THEOREM Stages == Spec => []IsoIsStaged
<1>1. CommandsInv => IsoIsStaged
  BY DEF CommandsInv, StagedInv, IsoIsStaged
<1> QED BY <1>1, Inductive, PTL

-----------------------------------------------------------------------------
(* What the commands about VMs promise: facts about the model's operators *)

\* The sequence s is the end of b; the first n elements of b; all of them.
EndsWithAll(b, s) ==
  Len(s) <= Len(b) /\ \A i \in 1..Len(s) : s[i] = b[(Len(b) - Len(s)) + i]
FirstOf(b, n) == {b[i] : i \in 1..n}
AllOf(b) == {b[i] : i \in DOMAIN b}

\* How todo and its batch go together when the first of todo is done.
LEMMA NextOfBatch ==
  ASSUME NEW S, NEW b \in Seq(S), NEW s \in Seq(S), s # <<>>, EndsWithAll(b, s)
  PROVE  /\ Tail(s) \in Seq(S)
         /\ EndsWithAll(b, Tail(s))
         /\ Len(b) - Len(Tail(s)) = (Len(b) - Len(s)) + 1
         /\ Head(s) \in AllOf(b)
         /\ FirstOf(b, Len(b) - Len(Tail(s))) = FirstOf(b, Len(b) - Len(s)) \cup {Head(s)}
         /\ ~(Len(s) > 1) => FirstOf(b, Len(b) - Len(Tail(s))) = AllOf(b)
<1>0. Len(s) <= Len(b) /\ \A i \in 1..Len(s) : s[i] = b[(Len(b) - Len(s)) + i]
  BY DEF EndsWithAll
<1>1. /\ Tail(s) \in Seq(S) /\ Len(Tail(s)) = Len(s) - 1
      /\ Len(s) \in Nat /\ Len(b) \in Nat /\ Len(s) # 0
  BY HeadTailProperties, LenProperties, EmptySeq
<1>2. Head(s) = s[1] /\ \A i \in 1..Len(Tail(s)) : Tail(s)[i] = s[i + 1]
  BY HeadTailProperties
<1>3. DOMAIN b = 1..Len(b)
  BY LenProperties
<1> DEFINE n == Len(b)
           k == Len(s)
           t == Tail(s)
           m == Len(t)
<1>4. /\ n \in Nat /\ k \in Nat /\ k # 0 /\ k <= n /\ m = k - 1
      /\ \A i \in 1..k : s[i] = b[(n - k) + i]
      /\ \A i \in 1..m : t[i] = s[i + 1]
      /\ DOMAIN b = 1..n
      /\ t \in Seq(S) /\ Head(s) = s[1]
  BY <1>0, <1>1, <1>2, <1>3
<1> HIDE DEF n, k, t, m
<1>5. /\ m <= n /\ n - m = (n - k) + 1
      /\ 1 \in 1..k /\ (n - k) + 1 \in 1..n
      /\ \A i \in 1..m : i + 1 \in 1..k /\ (n - k) + (i + 1) = (n - m) + i
      /\ 1..(n - m) = (1..(n - k)) \cup {(n - k) + 1}
      /\ ~(k > 1) => n - m = n
  BY <1>4
<1>6. s[1] = b[(n - k) + 1]
  BY <1>4, <1>5
<1>7. \A i \in 1..m : t[i] = b[(n - m) + i]
  <2> SUFFICES ASSUME NEW i \in 1..m
               PROVE  t[i] = b[(n - m) + i]
    OBVIOUS
  <2>1. t[i] = s[i + 1]
    BY <1>4
  <2>2. s[i + 1] = b[(n - k) + (i + 1)]
    BY <1>4, <1>5
  <2> QED BY <1>5, <2>1, <2>2
<1>8. {b[i] : i \in 1..(n - m)} = {b[i] : i \in 1..(n - k)} \cup {Head(s)}
  <2>1. \A T, x : {b[i] : i \in (T \cup {x})} = {b[i] : i \in T} \cup {b[x]}
    OBVIOUS
  <2>2. {b[i] : i \in 1..(n - m)} = {b[i] : i \in 1..(n - k)} \cup {b[(n - k) + 1]}
    BY <1>5, <2>1, Zenon
  <2>3. Head(s) = b[(n - k) + 1]
    BY <1>4, <1>6
  <2> QED BY <2>2, <2>3, Zenon
<1>9. Head(s) \in {b[i] : i \in DOMAIN b}
  BY <1>4, <1>5, <1>6
<1>10. ~(k > 1) => {b[i] : i \in 1..(n - m)} = {b[i] : i \in DOMAIN b}
  BY <1>4, <1>5
<1> QED
  BY <1>4, <1>5, <1>7, <1>8, <1>9, <1>10, Zenon DEF n, k, t, m, EndsWithAll, FirstOf, AllOf

\* The check of the version is the comparison of versions.
LEMMA VersionIsReached ==
  ASSUME NEW v \in Seq(Int)
  PROVE  IsApiMinVersion(v) <=> VersionReached(v)
<1>1. Len(v) = 3 => v[1] \in Int /\ v[2] \in Int /\ v[3] \in Int
  <2>1. v \in [1..Len(v) -> Int]
    BY LenProperties
  <2> QED BY <2>1
<1>2. MinVersion[1] = 8 /\ MinVersion[2] = 4 /\ MinVersion[3] = 1
  BY DEF MinVersion
<1>3. \A i \in 1..3 : i = 1 \/ i = 2 \/ i = 3
  OBVIOUS
<1>4. 1..(1 - 1) = {} /\ 1..(2 - 1) = {1} /\ 1..(3 - 1) = {1, 2}
  OBVIOUS
<1>5. ASSUME Len(v) = 3, v[1] \in Int, v[2] \in Int, v[3] \in Int
      PROVE  (\A i \in 1..3 : (\A j \in 1..(i - 1) : v[j] = MinVersion[j]) => v[i] >= MinVersion[i])
               <=> /\ v[1] >= 8
                   /\ v[1] = 8 => v[2] >= 4
                   /\ v[1] = 8 /\ v[2] = 4 => v[3] >= 1
  BY <1>2, <1>3, <1>4, <1>5
<1>6. \A x, y, z \in Int :
        (x >= 8 /\ (x = 8 => y >= 4) /\ (x = 8 /\ y = 4 => z >= 1))
          <=> (x > 8 \/ (x = 8 /\ (y > 4 \/ (y = 4 /\ z >= 1))))
  OBVIOUS
<1> QED BY <1>1, <1>5, <1>6 DEF IsApiMinVersion, VersionReached

-----------------------------------------------------------------------------
(* What a step of one command does to the others *)

ShapeInv ==
  /\ world \in Worlds
  /\ vm = [v \in VmIds |-> vm[v]]
  /\ made = [p \in Procs |-> made[p]]
  /\ ready = [p \in Procs |-> ready[p]]
  /\ gone = [p \in Procs |-> gone[p]]

\* A VM is made at a free target, and deleted at one that is not.
MakesVm(p) ==
  LET c == Config(p)
  IN /\ at[p] = "create" /\ Makes(p) /\ vm[target[p]] = NoVm
     /\ vm' = [vm EXCEPT ![target[p]] = [name |-> c.name, host |-> c.host]]
     /\ up' = up \ {target[p]}
     /\ made' = [made EXCEPT ![p] = @ \cup {<<c.name, target[p]>>}]
     /\ gone' = gone

DeletesVm(p) ==
  /\ at[p] = "destroy" /\ Deletes(p) /\ vm[target[p]] # NoVm
  /\ vm' = [vm EXCEPT ![target[p]] = NoVm]
  /\ up' = up \ {target[p]}
  /\ gone' = [gone EXCEPT ![p] = @ \cup {<<vm[target[p]].name, target[p]>>}]
  /\ made' = made

\* A VM that is started is the target's.
StartsVm(p) == at[p] = "start" /\ Makes(p) /\ up' = up \cup {target[p]}

\* A step of a command is its own, and it does not begin while another is under
\* way that it takes turns with.
Own(p) ==
  /\ UNCHANGED world
  /\ Kind(p) # "none"
  /\ \A q \in Procs \ {p} :
       /\ at'[q] = at[q] /\ report'[q] = report[q] /\ todo'[q] = todo[q]
       /\ target'[q] = target[q] /\ download'[q] = download[q] /\ ready'[q] = ready[q]
  /\ UNCHANGED <<vm, made, gone>> \/ MakesVm(p) \/ DeletesVm(p)
  /\ up' \subseteq up \/ StartsVm(p)
  /\ \/ Active(p) \/ at' = at
     \/ world.serial => \A q \in Procs \ {p} : ~Active(q)

Step(p) == Begin(p) \/ CommandStep(p) \/ HostStep(p) \/ Crash(p)

LEMMA PlacesAreActive ==
  ASSUME NEW p, at[p] \in ConfigPlaces \cup IsoPlaces
  PROVE  Active(p)
BY DEF ConfigPlaces, IsoPlaces, Active, Ended

LEMMA KindOfPlace ==
  ASSUME CommandsInv, NEW p \in Procs, OnRoute(p)
  PROVE  /\ at[p] \in ConfigPlaces =>
              /\ Kind(p) \in {"provision", "aProvision", "validate", "deprovision", "aDeprovision"}
              /\ at[p] \in Route[Kind(p)]
         /\ at[p] \in {"allocate", "create", "clean", "start", "readId"} => Makes(p)
         /\ at[p] \in {"prompt", "list", "destroy"} => Deletes(p)
<1>1. ASSUME at[p] \in ConfigPlaces
      PROVE  /\ Kind(p) \in {"provision", "aProvision", "validate", "deprovision", "aDeprovision"}
             /\ at[p] \in Route[Kind(p)]
  <2>1. Kind(p) \in Kinds \ {"none", "refresh", "isoInfo"}
    BY <1>1 DEF CommandsInv, PlacesInv
  <2>2. Kind(p) \in {"provision", "aProvision", "validate", "deprovision", "aDeprovision"}
    BY <2>1 DEF Kinds, First
  <2>3. at[p] \notin {"dead", "idle", "done"}
    BY <1>1 DEF ConfigPlaces
  <2> QED BY <2>2, <2>3 DEF OnRoute, Route
<1>2. {"allocate", "create", "clean", "start", "readId", "prompt", "list", "destroy"} \subseteq ConfigPlaces
  BY DEF ConfigPlaces
<1> QED BY <1>1, <1>2 DEF Route, Checks, Makes, Deletes

LEMMA StepIsOwn ==
  ASSUME CommandsInv, ShapeInv, NEW p \in Procs, OnRoute(p), Step(p)
  PROVE  Own(p)
<1>1. TypeOK /\ PlacesInv
  BY DEF CommandsInv
<1>2. CASE Begin(p)
  BY <1>1, <1>2 DEF Begin, Goto, TypeOK, Own, vmVars, Active
<1>3. CASE Crash(p)
  BY <1>1, <1>3 DEF Crash, Goto, TypeOK, Own, vmVars, Active, PlacesInv
<1>4. CASE HostStep(p)
  BY <1>1, <1>4 DEF HostStep, Download, TypeOK, Own, vmVars, PlacesInv
<1>5. CASE IsoStep(p) /\ UNCHANGED vmVars
  <2>1. IsoEffect(p) /\ Active(p)
    BY <1>5, IsoSteps, PlacesAreActive DEF IsoEffect
  <2> QED BY <1>1, <1>5, <2>1 DEF IsoEffect, Own, vmVars, PlacesInv
<1>6. CASE \/ \E check \in Checks : Check(p, check)
           \/ Allocate(p) \/ NoIdGiven(p) \/ Create(p) \/ CreateFails(p)
           \/ CleanUp(p) \/ CleanUpFails(p) \/ Start(p) \/ StartFails(p)
           \/ Exists(p) \/ ReadId(p)
           \/ Prompt(p) \/ List(p) \/ Destroy(p) \/ DestroyFails(p)
  <2>1. VmEffect(p) /\ Active(p)
    BY <1>6, VmSteps, PlacesAreActive DEF VmEffect
  <2>2. Kind(p) # "none"
    BY <1>1, <2>1 DEF VmEffect, PlacesInv
  <2>3. \A q \in Procs \ {p} : target'[q] = target[q]
    <3>1. CASE Allocate(p)
      BY <1>1, <3>1 DEF Allocate, TypeOK
    <3>2. CASE List(p)
      BY <1>1, <3>2 DEF List, TypeOK
    <3> QED BY <1>6, <3>1, <3>2 DEF Check, NoIdGiven, Create, CreateFails, CleanUp, CleanUpFails,
                                    Start, StartFails, Exists, ReadId, Prompt, Destroy, DestroyFails,
                                    vmVars
  <2>4. UNCHANGED <<vm, made, gone>> \/ MakesVm(p) \/ DeletesVm(p)
    <3>1. CASE Create(p)
      BY <3>1, KindOfPlace DEF Create, MakesVm
    <3>2. CASE Destroy(p)
      BY <3>2, KindOfPlace DEF Destroy, DeletesVm
    <3> QED BY <1>6, <3>1, <3>2 DEF Check, NoIdGiven, Allocate, CreateFails, CleanUp, CleanUpFails,
                                    Start, StartFails, Exists, ReadId, Prompt, List, DestroyFails,
                                    vmVars
  <2>5. up' \subseteq up \/ StartsVm(p)
    <3>1. CASE Start(p)
      BY <3>1, KindOfPlace DEF Start, StartsVm
    <3>2. CASE Create(p) \/ Destroy(p)
      BY <3>2 DEF Create, Destroy
    <3> QED BY <1>6, <3>1, <3>2 DEF Check, NoIdGiven, Allocate, CreateFails, CleanUp, CleanUpFails,
                                    StartFails, Exists, ReadId, Prompt, List, DestroyFails, vmVars
  <2>6. \A q \in Procs \ {p} : ready'[q] = ready[q]
    <3>1. CASE ready' = ready
      BY <3>1
    <3>2. CASE Provisioned(p)
      BY <1>1, <3>2 DEF Provisioned, ShapeInv
    <3> QED BY <1>6, <3>1, <3>2 DEF Check, NoIdGiven, Allocate, Create, CreateFails, CleanUp,
                                    CleanUpFails, Start, StartFails, Exists, ReadId, Prompt, List,
                                    Destroy, DestroyFails, vmVars
  <2> QED BY <2>1, <2>2, <2>3, <2>4, <2>5, <2>6 DEF VmEffect, Own
<1> QED BY <1>2, <1>3, <1>4, <1>5, <1>6 DEF Step, CommandStep

\* What is said of the world, and of what a command has to do, stays true.
LEMMA WorldStays ==
  ASSUME UNCHANGED world
  PROVE  /\ Clustered' = Clustered /\ Site' = Site
         /\ \A f : Fault(f)' = Fault(f)
         /\ \A q : /\ Kind(q)' = Kind(q) /\ Command(q)' = Command(q) /\ Batch(q)' = Batch(q)
                   /\ ConfigsOf(q)' = ConfigsOf(q)
                   /\ Makes(q)' = Makes(q) /\ Deletes(q)' = Deletes(q)
                   /\ NothingElse(q)' = NothingElse(q) /\ Undisturbed(q)' = Undisturbed(q)
                   /\ Taken(q)' = Taken(q) /\ NothingFails(q)' = NothingFails(q)
         /\ \A c : Fits(c)' = Fits(c)
         /\ \A n, v : PinnedTo(n, v)' = PinnedTo(n, v)
         /\ \A n : Pinned(n)' = Pinned(n)
         /\ \A h1, h2 : LooksFirst(h1, h2)' = LooksFirst(h1, h2)
<1>1. Clustered' = Clustered /\ Site' = Site /\ (\A f : Fault(f)' = Fault(f))
  BY DEF Clustered, Site, Fault
<1>2. \A q : /\ Kind(q)' = Kind(q) /\ Command(q)' = Command(q) /\ Batch(q)' = Batch(q)
             /\ ConfigsOf(q)' = ConfigsOf(q)
             /\ Makes(q)' = Makes(q) /\ Deletes(q)' = Deletes(q)
  BY DEF Kind, Command, Batch, ConfigsOf, Makes, Deletes
<1>3. \A q : NothingElse(q)' = NothingElse(q) /\ Taken(q)' = Taken(q)
  BY <1>2 DEF NothingElse, Taken
<1>4. \A q : Undisturbed(q)' = Undisturbed(q)
  BY <1>2 DEF Undisturbed
<1>9. \A q : NothingFails(q)' = NothingFails(q)
  BY <1>1, <1>4 DEF NothingFails
<1>5. \A c : Fits(c)' = Fits(c)
  BY <1>1 DEF Fits
<1>6. \A n, v : PinnedTo(n, v)' = PinnedTo(n, v)
  BY <1>2 DEF PinnedTo
<1>7. \A n : Pinned(n)' = Pinned(n)
  BY <1>6 DEF Pinned
<1>8. \A h1, h2 : LooksFirst(h1, h2)' = LooksFirst(h1, h2)
  BY <1>1, <1>2 DEF LooksFirst
<1> QED BY <1>1, <1>2, <1>3, <1>4, <1>5, <1>6, <1>7, <1>8, <1>9

\* Nor does what a command has to do change but by its own steps.
LEMMA BatchStays ==
  ASSUME UNCHANGED world, NEW q, todo'[q] = todo[q]
  PROVE  /\ Config(q)' = Config(q) /\ Through(q)' = Through(q) /\ Over(q)' = Over(q)
         /\ OverNames(q)' = OverNames(q)
<1>1. Batch(q)' = Batch(q)
  BY WorldStays
<1>2. Config(q)' = Config(q) /\ Through(q)' = Through(q)
  BY <1>1 DEF Config, Through
<1>3. Over(q)' = Over(q)
  BY <1>1, <1>2 DEF Over
<1> QED BY <1>2, <1>3 DEF OverNames

\* A check whose answer depends on the world alone.
LEMMA MetStays ==
  ASSUME UNCHANGED world, NEW c, NEW check,
         check = "name" => UNCHANGED vm,
         check = "iso" => UNCHANGED files
  PROVE  Met(c, check)' = Met(c, check)
BY WorldStays DEF Met

AllInv ==
  /\ CommandsInv /\ ShapeInv /\ TurnsInv /\ ApartInv /\ ProcessesInv /\ NamesInv
  /\ OneVmPerName /\ ReportIsTrue

\* The other commands: those that take turns are not under way.
LEMMA OthersKeep ==
  ASSUME AllInv, NEW p \in Procs, Own(p), NEW q \in Procs, q # p
  PROVE  CommandInv(q)' /\ (at'[q] = "done" => Told(q)')
<1>1. CommandsInv /\ ShapeInv /\ TurnsInv /\ ApartInv /\ CommandInv(q) /\ CommandInv(p) /\ NamesInv
  BY DEF AllInv, ProcessesInv
<1>2. /\ at'[q] = at[q] /\ report'[q] = report[q] /\ todo'[q] = todo[q]
      /\ target'[q] = target[q] /\ download'[q] = download[q] /\ ready'[q] = ready[q]
      /\ UNCHANGED world
      /\ Kind(p) # "none"
  BY DEF Own
<1>3. made'[q] = made[q] /\ gone'[q] = gone[q]
  BY <1>1 DEF Own, MakesVm, DeletesVm, ShapeInv
<1>4. /\ Kind(q)' = Kind(q) /\ Batch(q)' = Batch(q) /\ ConfigsOf(q)' = ConfigsOf(q)
      /\ Makes(q)' = Makes(q) /\ Deletes(q)' = Deletes(q)
      /\ NothingElse(q)' = NothingElse(q) /\ Undisturbed(q)' = Undisturbed(q)
      /\ Taken(q)' = Taken(q) /\ NothingFails(q)' = NothingFails(q) /\ Clustered' = Clustered
      /\ \A f : Fault(f)' = Fault(f)
      /\ \A c : Fits(c)' = Fits(c)
  BY <1>2, WorldStays
<1>5. /\ Config(q)' = Config(q) /\ Through(q)' = Through(q) /\ Over(q)' = Over(q)
      /\ OverNames(q)' = OverNames(q)
  BY <1>2, BatchStays
<1>6. ~NothingElse(q)
  BY <1>2 DEF NothingElse
<1>7. ASSUME world.serial, at[q] \in ConfigPlaces
      PROVE  UNCHANGED <<vm, made, gone>>
  <2>1. Active(q)
    BY <1>7, PlacesAreActive
  <2>2. at[p] \in {"create", "destroy"} => Active(p)
    BY PlacesAreActive DEF ConfigPlaces
  <2> QED BY <1>1, <1>7, <2>1, <2>2 DEF TurnsInv, Own, MakesVm, DeletesVm
<1>8. OnRoute(q)'
  BY <1>1, <1>2, <1>4, <1>5 DEF CommandInv, OnRoute
<1>9. Preflighted(q)'
  <2>1. DOMAIN Behind \subseteq ConfigPlaces
    BY DEF Behind, ConfigPlaces
  <2>2. ASSUME Makes(q), at[q] \in DOMAIN Behind, NEW check \in Behind[at[q]] \ {"iso"},
               check # "name" \/ world.serial
        PROVE  Met(Config(q), check)'
    <3>1. check = "name" => UNCHANGED vm
      BY <1>7, <2>1, <2>2
    <3>2. Met(Config(q), check)
      BY <1>1, <2>2 DEF CommandInv, Preflighted
    <3>3. \A c : Met(c, check)' = Met(c, check)
      BY <1>2, <2>2, <3>1, MetStays
    <3> QED BY <1>5, <3>2, <3>3
  <2>3. \A m \in made'[q] : \E c \in ConfigsOf(q)' : c.name = m[1] /\ Fits(c)'
    BY <1>1, <1>3, <1>4 DEF CommandInv, Preflighted
  <2> QED BY <1>2, <1>4, <1>6, <2>2, <2>3 DEF Preflighted
<1>10. Looked(q)'
  <2>1. ASSUME LookedFor(q)'
        PROVE  Named(Config(q).name, Config(q).host)' = {}
    <3>1. LookedFor(q) /\ world.serial /\ at[q] \in ConfigPlaces
      BY <1>2, <1>4, <2>1 DEF LookedFor, Behind, ConfigPlaces
    <3>2. \A n, h : Named(n, h)' = Named(n, h)
      BY <1>7, <3>1 DEF Named
    <3> QED BY <1>1, <1>5, <3>1, <3>2 DEF CommandInv, Looked
  <2> QED BY <1>1, <1>2, <1>5, <2>1 DEF CommandInv, Looked
<1>11. Listed(q)'
  <2> SUFFICES ASSUME at[q] = "destroy"
               PROVE  /\ target[q] \in VmIds
                      /\ \/ AtTarget(q)'
                         \/ Taken(q) /\ (vm'[target[q]] = NoVm \/ \E r \in Procs : Makes(r))
    BY <1>2, <1>4, WorldStays DEF Listed
  <2>1. /\ target[q] \in VmIds
        /\ AtTarget(q) \/ (Taken(q) /\ (vm[target[q]] = NoVm \/ \E r \in Procs : Makes(r)))
    BY <1>1 DEF CommandInv, Listed
  <2>2. CASE vm'[target[q]] = vm[target[q]]
    BY <1>2, <1>5, <2>1, <2>2 DEF AtTarget
  <2>3. CASE vm'[target[q]] # vm[target[q]]
    <3>1. ~world.serial
      BY <1>7, <2>3 DEF ConfigPlaces
    <3>2. CASE MakesVm(p)
      <4>1. vm[target[q]] = NoVm /\ Makes(p)
        BY <1>1, <2>1, <2>3, <3>2 DEF MakesVm, ShapeInv
      <4> QED BY <2>1, <4>1 DEF AtTarget
    <3>3. CASE DeletesVm(p)
      <4>1. vm'[target[q]] = NoVm /\ Deletes(p)
        BY <1>1, <2>1, <2>3, <3>3 DEF DeletesVm, ShapeInv
      <4> QED BY <2>1, <3>1, <4>1 DEF Taken
    <3> QED BY <2>3, <3>2, <3>3 DEF Own
  <2> QED BY <2>2, <2>3
<1>12. ProvisionSoFar(q)' /\ DeprovisionSoFar(q)' /\ ADeprovisionSoFar(q)' /\ IsoSoFar(q)'
  BY <1>1, <1>2, <1>3, <1>4, <1>5
     DEF CommandInv, ProvisionSoFar, DeprovisionSoFar, ADeprovisionSoFar, IsoSoFar, Untouched
<1>13. AProvisionSoFar(q)'
  <2>1. ASSUME at[q] = "readId", world.serial
        PROVE  AtTarget(q)' = AtTarget(q)
    <3>1. UNCHANGED vm
      BY <1>7, <2>1 DEF ConfigPlaces
    <3> QED BY <1>2, <1>5, <3>1 DEF AtTarget
  <2> QED BY <1>1, <1>2, <1>3, <1>4, <1>5, <2>1 DEF CommandInv, AProvisionSoFar, Untouched
<1>14. at'[q] = "done" => Told(q)'
  <2>1. at[q] = "done" => Told(q)
    BY DEF AllInv, ReportIsTrue
  <2>2. /\ \A n : Pinned(n)' = Pinned(n)
        /\ \A h1, h2 : LooksFirst(h1, h2)' = LooksFirst(h1, h2)
    BY <1>2, WorldStays
  <2> QED BY <1>2, <1>3, <1>4, <2>1, <2>2 DEF Told
<1>15. MadeSoFar(q)'
  <2>1. MadeSoFar(q)
    BY <1>1 DEF CommandInv
  <2>2. Unfinished(q)' = Unfinished(q)
    BY <1>2, <1>5 DEF Unfinished
  <2>3. ASSUME Makes(q), at[q] \in {"clean", "start"}, Undisturbed(q)
        PROVE  AtTarget(q)' /\ target[q] \notin up'
    <3>1. AtTarget(q) /\ target[q] \notin up /\ target[q] \in VmIds
      BY <2>1, <2>3 DEF MadeSoFar
    <3>2. CASE world.serial
      <4>1. Active(q) /\ (at[p] = "start" => Active(p))
        BY <2>3, PlacesAreActive DEF ConfigPlaces
      <4>2. ~StartsVm(p)
        BY <1>1, <3>2, <4>1 DEF TurnsInv, StartsVm
      <4>3. UNCHANGED vm
        BY <1>7, <2>3, <3>2 DEF ConfigPlaces
      <4>4. up' \subseteq up
        BY <4>2 DEF Own
      <4> QED BY <1>2, <1>5, <3>1, <4>3, <4>4 DEF AtTarget
    <3>3. CASE ~world.serial
      <4>1. \A r \in Procs : ~Deletes(r)
        BY <2>3, <3>3 DEF Undisturbed, Makes, Deletes
      <4>2. vm'[target[q]] = vm[target[q]]
        <5>1. CASE MakesVm(p)
          BY <1>1, <3>1, <5>1 DEF MakesVm, AtTarget, ShapeInv
        <5> QED BY <4>1, <5>1 DEF Own, DeletesVm
      <4>3. target[q] \notin up'
        <5>1. CASE StartsVm(p)
          <6>1. target[p] # target[q]
            BY <1>1, <2>3, <3>3, <4>1, <5>1 DEF ApartInv, StartsVm
          <6> QED BY <3>1, <5>1, <6>1 DEF StartsVm
        <5> QED BY <3>1, <5>1 DEF Own
      <4> QED BY <1>2, <1>5, <3>1, <4>2, <4>3 DEF AtTarget
    <3> QED BY <3>2, <3>3
  <2> QED BY <1>2, <1>3, <1>4, <2>1, <2>2, <2>3 DEF MadeSoFar
<1> QED BY <1>8, <1>9, <1>10, <1>11, <1>12, <1>13, <1>14, <1>15 DEF CommandInv

LEMMA TurnsKeep ==
  ASSUME AllInv, NEW p \in Procs, Own(p), Step(p)
  PROVE  TurnsInv'
<1>1. TurnsInv
  BY DEF AllInv
<1>2. \A q \in Procs : q # p => (Active(q)' <=> Active(q))
  BY DEF Own, Active
<1>3. world' = world
  BY DEF Own
<1>4. CASE at' = at
  <2>1. \A q : Active(q)' <=> Active(q)
    BY <1>4 DEF Active
  <2> QED BY <1>1, <1>3, <2>1 DEF TurnsInv
<1>5. CASE Active(p)
  BY <1>1, <1>2, <1>3, <1>5 DEF TurnsInv
<1>6. CASE world.serial => \A q \in Procs \ {p} : ~Active(q)
  BY <1>1, <1>2, <1>3, <1>6 DEF TurnsInv
<1> QED BY <1>4, <1>5, <1>6 DEF Own

\* A VM is made under an id that no other command is about to start.
LEMMA ApartKeep ==
  ASSUME AllInv, NEW p \in Procs, Own(p),
         at'[p] \in {"clean", "start"} =>
           \/ at[p] \in {"clean", "start"} /\ target'[p] = target[p]
           \/ vm[target'[p]] = NoVm
  PROVE  ApartInv'
<1>1. UNCHANGED world /\ \A q \in Procs \ {p} : at'[q] = at[q] /\ target'[q] = target[q]
  BY DEF Own
<1>2. \A q : Deletes(q)' = Deletes(q)
  BY <1>1, WorldStays
<1>3. ASSUME NEW q \in Procs, q # p, {at'[p], at[q]} \subseteq {"clean", "start"},
             ~world.serial, \A r \in Procs : ~Deletes(r)
      PROVE  target'[p] # target[q]
  <2>1. CASE at[p] \in {"clean", "start"} /\ target'[p] = target[p]
    BY <1>3, <2>1 DEF AllInv, ApartInv
  <2>2. CASE vm[target'[p]] = NoVm
    <3>1. OnRoute(q) /\ MadeSoFar(q) /\ CommandsInv
      BY DEF AllInv, ProcessesInv, CommandInv
    <3>2. Makes(q)
      BY <1>3, <3>1, KindOfPlace
    <3>3. AtTarget(q)
      BY <1>3, <3>1, <3>2 DEF MadeSoFar, Undisturbed
    <3> QED BY <2>2, <3>3 DEF AtTarget
  <2> QED BY <1>3, <2>1, <2>2
<1>4. ApartInv
  BY DEF AllInv
<1> QED BY <1>1, <1>2, <1>3, <1>4 DEF ApartInv

\* What is between a create and its report stays, where the command makes nothing.
LEMMA MadeStays ==
  ASSUME NEW p \in Procs, MadeSoFar(p), UNCHANGED world,
         made'[p] = made[p], ready'[p] = ready[p],
         at[p] \notin {"clean", "start", "dead"}, at'[p] \notin {"clean", "start"},
         report'[p].ok => report[p].ok
  PROVE  MadeSoFar(p)'
<1>1. Makes(p)' = Makes(p) /\ NothingFails(p)' = NothingFails(p)
  BY WorldStays
<1>2. Unfinished(p) = {} /\ Unfinished(p)' = {}
  BY DEF Unfinished
<1> QED BY <1>1, <1>2 DEF MadeSoFar

\* The config a command is at is one of its batch.
LEMMA AtAConfig ==
  ASSUME CommandsInv, ShapeInv, NEW p \in Procs, OnRoute(p), at[p] \in ConfigPlaces
  PROVE  /\ Config(p) \in ConfigsOf(p)
         /\ todo[p] \in Seq(Configs) /\ todo[p] # <<>> /\ Batch(p) \in Seq(Configs)
         /\ Len(todo[p]) <= Len(Batch(p))
         /\ \A i \in 1..Len(todo[p]) : todo[p][i] = Batch(p)[(Len(Batch(p)) - Len(todo[p])) + i]
<1>1. todo[p] \in Seq(Configs) /\ todo[p] # <<>>
  BY DEF CommandsInv, TypeOK, PlacesInv
<1>2. Batch(p) \in Seq(Configs)
  BY CommandsAssumption DEF ShapeInv, Batch, Command
<1>3. at[p] # "dead" /\ Kind(p) \in DOMAIN Route
  BY KindOfPlace DEF ConfigPlaces, Route
<1>4. /\ Len(todo[p]) <= Len(Batch(p))
      /\ \A i \in 1..Len(todo[p]) : todo[p][i] = Batch(p)[(Len(Batch(p)) - Len(todo[p])) + i]
  BY <1>3 DEF OnRoute, Through
<1>5. Head(todo[p]) \in {Batch(p)[i] : i \in DOMAIN Batch(p)}
  <2> DEFINE s == todo[p]
             b == Batch(p)
  <2>1. b \in Seq(Configs) /\ s \in Seq(Configs) /\ s # <<>> /\ EndsWithAll(b, s)
    BY <1>1, <1>2, <1>4 DEF EndsWithAll
  <2> HIDE DEF s, b
  <2>2. Head(s) \in AllOf(b)
    BY <2>1, NextOfBatch
  <2> QED BY <2>2 DEF s, b, AllOf
<1> QED BY <1>1, <1>2, <1>4, <1>5 DEF Config, ConfigsOf

\* Whatever is to be made or deleted has a name.
LEMMA NamedConfig ==
  ASSUME ShapeInv, NEW p \in Procs, Makes(p) \/ Deletes(p), NEW c \in ConfigsOf(p)
  PROVE  c.name # NoName
BY CommandsAssumption DEF ShapeInv, Makes, Deletes, ConfigsOf, Batch, Kind, Command

LEMMA NamesKeep ==
  ASSUME AllInv, NEW p \in Procs, Own(p)
  PROVE  NamesInv'
<1>1. CommandsInv /\ ShapeInv /\ NamesInv /\ CommandInv(p)
  BY DEF AllInv, ProcessesInv
<1>2. \A n, v : PinnedTo(n, v)' = PinnedTo(n, v)
  BY WorldStays DEF Own
<1>3. CASE UNCHANGED <<vm, made, gone>>
  BY <1>1, <1>2, <1>3 DEF NamesInv
<1>4. CASE DeletesVm(p)
  BY <1>1, <1>2, <1>4 DEF NamesInv, DeletesVm, ShapeInv
<1>5. CASE MakesVm(p)
  <2> DEFINE c == Config(p)
             t == target[p]
             new == [name |-> c.name, host |-> c.host]
  <2>1. at[p] = "create" /\ Makes(p) /\ c \in ConfigsOf(p)
    BY <1>1, <1>5, AtAConfig DEF MakesVm, CommandInv, ConfigPlaces
  <2>2. t \in VmIds /\ (c.id # NoId => t = c.id)
    BY <1>1, <2>1 DEF CommandInv, Looked
  <2>3. c.name # NoName
    BY <1>1, <2>1, NamedConfig
  <2>4. \A u \in VmIds : PinnedTo(c.name, u) => t = u
    BY <2>1, <2>2, CommandsAssumption DEF PinnedTo
  <2>5. /\ vm' = [vm EXCEPT ![t] = new]
        /\ made' = [made EXCEPT ![p] = @ \cup {<<c.name, t>>}]
    BY <1>5 DEF MakesVm
  <2>6. new.name = c.name
    OBVIOUS
  <2> HIDE DEF c, t, new
  <2>7. \A v \in VmIds : vm'[v] = IF v = t THEN new ELSE vm[v]
    BY <1>1, <2>5 DEF ShapeInv
  <2>8. \A q \in Procs : made'[q] = IF q = p THEN made[q] \cup {<<c.name, t>>} ELSE made[q]
    BY <1>1, <2>5 DEF ShapeInv
  <2>9. \A v \in VmIds : vm'[v] # NoVm => vm'[v].name # NoName
    BY <1>1, <2>3, <2>6, <2>7 DEF NamesInv
  <2>10. ASSUME NEW u \in VmIds, NEW v \in VmIds, vm'[v] # NoVm, PinnedTo(vm'[v].name, u)
         PROVE  v = u
    BY <1>1, <2>4, <2>6, <2>7, <2>10 DEF NamesInv
  <2>11. ASSUME NEW u \in VmIds, NEW q \in Procs, NEW m \in made'[q], PinnedTo(m[1], u)
         PROVE  m[2] = u
    <3>1. CASE m \in made[q]
      BY <1>1, <2>11, <3>1 DEF NamesInv
    <3>2. CASE m = <<c.name, t>>
      <4>1. m[1] = c.name /\ m[2] = t
        BY <3>2
      <4> QED BY <2>4, <2>11, <4>1
    <3> QED BY <2>8, <3>1, <3>2
  <2> QED BY <1>2, <2>9, <2>10, <2>11 DEF NamesInv
<1> QED BY <1>3, <1>4, <1>5 DEF Own

\* A VM is made under a name that, for one who looks first, nobody has.
LEMMA OneVmKeeps ==
  ASSUME AllInv, NEW p \in Procs, Own(p), NamesInv'
  PROVE  OneVmPerName'
<1>1. CommandsInv /\ ShapeInv /\ NamesInv /\ OneVmPerName /\ CommandInv(p)
  BY DEF AllInv, ProcessesInv
<1>2. /\ \A n : Pinned(n)' = Pinned(n)
      /\ \A n, v : PinnedTo(n, v)' = PinnedTo(n, v)
      /\ \A h1, h2 : LooksFirst(h1, h2)' = LooksFirst(h1, h2)
  BY WorldStays DEF Own
<1>3. CASE UNCHANGED <<vm, made, gone>>
  BY <1>1, <1>2, <1>3 DEF OneVmPerName
<1>4. CASE DeletesVm(p)
  <2>1. \A v \in VmIds : vm'[v] = vm[v] \/ vm'[v] = NoVm
    BY <1>1, <1>4 DEF DeletesVm, ShapeInv
  <2>2. \A v \in VmIds : vm'[v] # NoVm => vm'[v].name # NoName
    BY DEF NamesInv
  <2>3. NoVm.name = NoName
    BY DEF NoVm
  <2> QED BY <1>1, <1>2, <2>1, <2>2, <2>3 DEF OneVmPerName
<1>5. CASE MakesVm(p)
  <2> DEFINE c == Config(p)
             t == target[p]
             new == [name |-> c.name, host |-> c.host]
  <2>1. at[p] = "create" /\ Makes(p) /\ c \in ConfigsOf(p)
    BY <1>1, <1>5, AtAConfig DEF MakesVm, CommandInv, ConfigPlaces
  <2>2. c.name # NoName
    BY <1>1, <2>1, NamedConfig
  <2>3. new.name = c.name /\ new.host = c.host
    OBVIOUS
  <2>4. vm' = [vm EXCEPT ![t] = new]
    BY <1>5 DEF MakesVm
  <2>5. ASSUME world.serial, Clustered
        PROVE  \A v \in VmIds : vm[v].name # c.name
    <3>1. "name" \in Behind[at[p]] \ {"iso"} /\ at[p] \in DOMAIN Behind
      BY <2>1 DEF Behind, Checks
    <3>2. Met(c, "name")
      BY <1>1, <2>1, <2>5, <3>1 DEF CommandInv, Preflighted
    <3>3. NameUnused(vm, c.name)
      BY <2>2, <2>5, <3>2 DEF Met
    <3>4. DOMAIN vm = VmIds
      BY <1>1 DEF ShapeInv
    <3> QED BY <3>3, <3>4 DEF NameUnused
  <2>6. ASSUME world.serial, ~Fault("unread"), \A q \in Procs : Kind(q) # "provision"
        PROVE  \A v \in VmIds : ~(vm[v].name = c.name /\ vm[v].host = c.host)
    <3>1. LookedFor(p)
      BY <2>1, <2>6 DEF LookedFor, Makes, Behind
    <3> QED BY <1>1, <3>1 DEF CommandInv, Looked, Named
  <2> HIDE DEF c, t, new
  <2>7. \A v \in VmIds : vm'[v] = IF v = t THEN new ELSE vm[v]
    BY <1>1, <2>4 DEF ShapeInv
  <2>8. ASSUME NEW v \in VmIds, NEW w \in VmIds, vm'[v] # NoVm, vm'[v].name = vm'[w].name,
               Pinned(vm'[v].name)
        PROVE  v = w
    <3>1. PICK u \in VmIds : PinnedTo(vm'[v].name, u)
      BY <2>8 DEF Pinned
    <3>2. vm'[w] # NoVm
      BY <2>8 DEF NamesInv, NoVm
    <3> QED BY <1>2, <2>8, <3>1, <3>2 DEF NamesInv
  <2>9. ASSUME NEW v \in VmIds, NEW w \in VmIds, vm'[v] # NoVm, vm'[v].name = vm'[w].name,
               LooksFirst(vm'[v].host, vm'[w].host)
        PROVE  v = w
    <3>1. CASE v # t /\ w # t
      BY <1>1, <2>7, <2>9, <3>1 DEF OneVmPerName
    <3>2. CASE v = t /\ w # t
      BY <2>3, <2>5, <2>6, <2>7, <2>9, <3>2 DEF LooksFirst
    <3>3. CASE v # t /\ w = t
      BY <2>3, <2>5, <2>6, <2>7, <2>9, <3>3 DEF LooksFirst
    <3> QED BY <3>1, <3>2, <3>3
  <2> QED BY <1>2, <2>8, <2>9 DEF OneVmPerName
<1> QED BY <1>3, <1>4, <1>5 DEF Own

-----------------------------------------------------------------------------
(* What a step of a command does to what is said of itself *)

\* Done with a config: it is one more of those the command has been through, and
\* the command is done or goes on to another.
LEMMA DoneOver ==
  ASSUME CommandsInv, ShapeInv, NEW p \in Procs, OnRoute(p), at[p] \in ConfigPlaces,
         UNCHANGED world, NEW ok \in BOOLEAN, ConfigDone(p, ok)
  PROVE  /\ Config(p) \in ConfigsOf(p)
         /\ Over(p)' = Over(p) \cup {Config(p)}
         /\ OverNames(p)' = OverNames(p) \cup {Config(p).name}
         /\ Through(p) \in Nat /\ Through(p)' = Through(p) + 1
         /\ OnRoute(p)'
         /\ report'[p].ok = (report[p].ok /\ ok)
         /\ report'[p].changed = report[p].changed /\ report'[p].id = report[p].id
         /\ \/ at'[p] = "done" /\ Over(p)' = ConfigsOf(p)
            \/ at'[p] = Again[Kind(p)] /\ Kind(p) \in {"provision", "validate", "deprovision"}
<1> DEFINE b == Batch(p)
           s == todo[p]
           t == Tail(s)
<1>1. /\ b \in Seq(Configs) /\ s \in Seq(Configs) /\ s # <<>> /\ Len(s) <= Len(b)
      /\ \A i \in 1..Len(s) : s[i] = b[(Len(b) - Len(s)) + i]
      /\ Config(p) \in ConfigsOf(p) /\ Config(p) = Head(s)
  BY AtAConfig DEF Config
<1>2. /\ todo' = [todo EXCEPT ![p] = Tail(@)]
      /\ report' = [report EXCEPT ![p].ok = @ /\ ok]
      /\ Goto(p, IF Len(s) > 1 THEN Again[Kind(p)] ELSE "done")
  BY DEF ConfigDone
<1>3. /\ Batch(p)' = b /\ Kind(p)' = Kind(p) /\ Clustered' = Clustered
      /\ ConfigsOf(p)' = ConfigsOf(p)
  BY WorldStays
<1>4. TypeOK
  BY DEF CommandsInv
<1>5. todo'[p] = t
  BY <1>2, <1>4 DEF TypeOK
<1>6. at'[p] = IF Len(s) > 1 THEN Again[Kind(p)] ELSE "done"
  BY <1>2, <1>4 DEF Goto, TypeOK
<1>7. /\ report'[p].ok = (report[p].ok /\ ok)
      /\ report'[p].changed = report[p].changed /\ report'[p].id = report[p].id
  BY <1>2, <1>4 DEF TypeOK
<1>8. /\ Kind(p) \in {"provision", "aProvision", "validate", "deprovision", "aDeprovision"}
      /\ Kind(p) \in {"aProvision", "aDeprovision"} => Len(b) = 1
  BY KindOfPlace, CommandsAssumption DEF ShapeInv, Kind, Batch, Command
<1>9. /\ Through(p) = Len(b) - Len(s) /\ Through(p)' = Len(b) - Len(t)
      /\ Over(p) = {b[i] : i \in 1..(Len(b) - Len(s))}
      /\ Over(p)' = {b[i] : i \in 1..(Len(b) - Len(t))}
      /\ ConfigsOf(p) = {b[i] : i \in DOMAIN b}
  BY <1>3, <1>5 DEF Through, Over, ConfigsOf
<1> HIDE DEF b, s, t
<1>10. /\ Len(t) <= Len(b)
       /\ \A i \in 1..Len(t) : t[i] = b[(Len(b) - Len(t)) + i]
       /\ Len(b) - Len(t) = (Len(b) - Len(s)) + 1
       /\ {b[i] : i \in 1..(Len(b) - Len(t))} = {b[i] : i \in 1..(Len(b) - Len(s))} \cup {Head(s)}
       /\ ~(Len(s) > 1) => {b[i] : i \in 1..(Len(b) - Len(t))} = {b[i] : i \in DOMAIN b}
  <2>1. b \in Seq(Configs) /\ s \in Seq(Configs) /\ s # <<>> /\ EndsWithAll(b, s)
    BY <1>1 DEF EndsWithAll
  <2>2. /\ EndsWithAll(b, t)
        /\ Len(b) - Len(t) = (Len(b) - Len(s)) + 1
        /\ FirstOf(b, Len(b) - Len(t)) = FirstOf(b, Len(b) - Len(s)) \cup {Head(s)}
        /\ ~(Len(s) > 1) => FirstOf(b, Len(b) - Len(t)) = AllOf(b)
    BY <2>1, NextOfBatch DEF t
  <2> QED BY <2>2 DEF EndsWithAll, FirstOf, AllOf
<1>11. Len(b) \in Nat /\ Len(s) \in Nat /\ Len(t) \in Nat
  BY <1>1, LenProperties, HeadTailProperties DEF t
<1>12. Through(p) \in Nat /\ Through(p)' = Through(p) + 1
  BY <1>1, <1>9, <1>10, <1>11
<1>13. Over(p)' = Over(p) \cup {Config(p)}
  BY <1>1, <1>9, <1>10
<1>14. OverNames(p)' = OverNames(p) \cup {Config(p).name}
  BY <1>13 DEF OverNames
<1>15. \/ at'[p] = "done" /\ Over(p)' = ConfigsOf(p)
       \/ at'[p] = Again[Kind(p)] /\ Kind(p) \in {"provision", "validate", "deprovision"}
  <2>1. CASE Len(s) > 1
    <3>1. Len(b) # 1
      BY <1>1, <1>11, <2>1
    <3> QED BY <1>6, <1>8, <2>1, <3>1
  <2>2. CASE ~(Len(s) > 1)
    BY <1>6, <1>9, <1>10, <2>2
  <2> QED BY <2>1, <2>2
<1>16. OnRoute(p)'
  <2>1. at'[p] \in {"done"} \cup Route[Kind(p)] /\ at'[p] # "name" /\ at'[p] # "idle"
    BY <1>15 DEF Again, First, Route, Checks
  <2>2. at'[p] = "done" => Over(p)' = ConfigsOf(p)
    BY <1>15, <2>1 DEF Again, First
  <2>3. Len(todo'[p]) <= Len(Batch(p)')
    BY <1>3, <1>5, <1>10 DEF b
  <2>4. \A i \in 1..Len(todo'[p]) : todo'[p][i] = Batch(p)'[Through(p)' + i]
    BY <1>3, <1>5, <1>9, <1>10
  <2> QED BY <1>3, <2>1, <2>2, <2>3, <2>4 DEF OnRoute
<1> QED BY <1>1, <1>7, <1>12, <1>13, <1>14, <1>15, <1>16

\* At the same config, and on the way its kind goes.
LEMMA GotoRoute ==
  ASSUME CommandsInv, NEW p \in Procs, OnRoute(p), at[p] \in ConfigPlaces,
         UNCHANGED world, todo'[p] = todo[p],
         at'[p] \in {"done"} \cup Route[Kind(p)], at'[p] = "name" => Clustered,
         at'[p] = "done" => Kind(p) \notin {"provision", "validate"}
  PROVE  /\ OnRoute(p)'
         /\ Config(p)' = Config(p) /\ Through(p)' = Through(p) /\ Over(p)' = Over(p)
         /\ OverNames(p)' = OverNames(p)
<1>1. /\ Config(p)' = Config(p) /\ Through(p)' = Through(p) /\ Over(p)' = Over(p)
      /\ OverNames(p)' = OverNames(p)
  BY BatchStays
<1>2. Batch(p)' = Batch(p) /\ Kind(p)' = Kind(p) /\ Clustered' = Clustered
  BY WorldStays
<1>3. /\ Kind(p) \in {"provision", "aProvision", "validate", "deprovision", "aDeprovision"}
      /\ at[p] # "dead"
  BY KindOfPlace DEF ConfigPlaces
<1>4. at'[p] # "idle"
  BY <1>3 DEF Route, Checks
<1> QED BY <1>1, <1>2, <1>3, <1>4 DEF OnRoute, Route

\* A set with at most one element more.
LEMMA OneMore ==
  ASSUME NEW S, IsFiniteSet(S), NEW x, NEW new, new = {} \/ new = {x}
  PROVE  /\ IsFiniteSet(S \cup new) /\ Cardinality(S) \in Nat /\ Cardinality(S \cup new) \in Nat
         /\ Cardinality(S \cup new) <= Cardinality(S) + 1
         /\ new = {} => Cardinality(S \cup new) = Cardinality(S)
<1>1. Cardinality(S) \in Nat
  BY FS_CardinalityType
<1>2. CASE new = {}
  <2>1. S \cup new = S
    BY <1>2
  <2> QED BY <1>1, <1>2, <2>1
<1>3. CASE new = {x}
  <2>1. IsFiniteSet(S \cup {x}) /\ Cardinality(S \cup {x}) = IF x \in S THEN Cardinality(S) ELSE Cardinality(S) + 1
    BY FS_AddElement
  <2> QED BY <1>1, <1>3, <2>1
<1> QED BY <1>2, <1>3

\* A command that makes VMs is done with a config: it has made its VM (mk) in this
\* very step or before, and it is provisioned (fin) or not.
LEMMA MakerDone ==
  ASSUME AllInv, NEW p \in Procs, Makes(p), at[p] \in DOMAIN Behind \cup {"clean", "start"},
         UNCHANGED world,
         NEW ok \in BOOLEAN, ConfigDone(p, ok), Kind(p) = "aProvision" => ~ok,
         NEW x, x[1] = Config(p).name,
         NEW mk, mk = {} \/ (mk = {x} /\ Fits(Config(p))),
         NEW fin, fin = {} \/ fin = {x},
         made'[p] = made[p] \cup mk, ready'[p] = ready[p] \cup fin, fin \subseteq made'[p],
         ok => fin # {}, ~ok /\ ~Fault("unseen") => fin = {},
         ok \/ NothingFails(p) => mk = {} /\ Unfinished(p) \subseteq fin
  PROVE  CommandInv(p)' /\ (at'[p] = "done" => Told(p)')
<1> DEFINE c == Config(p)
<1>1. CommandsInv /\ ShapeInv /\ CommandInv(p)
  BY DEF AllInv, ProcessesInv
<1>2. at[p] \in ConfigPlaces /\ at[p] # "dead"
  BY DEF Behind, ConfigPlaces
<1>3. /\ c \in ConfigsOf(p)
      /\ Over(p)' = Over(p) \cup {c} /\ OverNames(p)' = OverNames(p) \cup {c.name}
      /\ Through(p) \in Nat /\ Through(p)' = Through(p) + 1
      /\ OnRoute(p)'
      /\ report'[p].ok = (report[p].ok /\ ok)
      /\ report'[p].changed = report[p].changed /\ report'[p].id = report[p].id
      /\ \/ at'[p] = "done" /\ Over(p)' = ConfigsOf(p)
         \/ at'[p] = Again[Kind(p)] /\ Kind(p) \in {"provision", "validate", "deprovision"}
  BY <1>1, <1>2, DoneOver DEF CommandInv
<1>4. /\ Kind(p)' = Kind(p) /\ ConfigsOf(p)' = ConfigsOf(p) /\ Batch(p)' = Batch(p)
      /\ Makes(p)' = Makes(p) /\ NothingFails(p)' = NothingFails(p)
      /\ \A f : Fault(f)' = Fault(f)
      /\ \A d : Fits(d)' = Fits(d)
      /\ Kind(p) \in {"provision", "aProvision"}
  BY WorldStays DEF Makes
<1>5. at'[p] = "done" \/ (at'[p] = "cluster" /\ Kind(p) = "provision")
  BY <1>3, <1>4 DEF Again, First
<1>6. Preflighted(p)'
  <2>1. \A m \in made'[p] : \E d \in ConfigsOf(p) : d.name = m[1] /\ Fits(d)
    BY <1>1, <1>3 DEF CommandInv, Preflighted
  <2>2. at'[p] \in DOMAIN Behind => Behind[at'[p]] = {}
    BY <1>5 DEF Behind
  <2> QED BY <1>4, <2>1, <2>2 DEF Preflighted
<1>7. Looked(p)' /\ Listed(p)'
  BY <1>4, <1>5 DEF Looked, LookedFor, Listed, Behind
<1>8. /\ AProvisionSoFar(p)' /\ DeprovisionSoFar(p)' /\ ADeprovisionSoFar(p)' /\ IsoSoFar(p)'
  BY <1>4, <1>5 DEF AProvisionSoFar, DeprovisionSoFar, ADeprovisionSoFar, IsoSoFar, Behind
<1>9. NamesOf(ready'[p]) = NamesOf(ready[p]) \cup NamesOf(fin) /\ NamesOf(fin) \subseteq {c.name}
      /\ (fin # {} => NamesOf(fin) = {c.name})
  BY DEF NamesOf
<1>12. /\ ready'[p] \subseteq made'[p]
       /\ report'[p].ok \/ NothingFails(p) => made'[p] \subseteq ready'[p]
  <2>1. /\ ready[p] \subseteq made[p]
        /\ report[p].ok \/ NothingFails(p) => made[p] \subseteq ready[p] \cup Unfinished(p)
    BY <1>1, <1>2 DEF CommandInv, MadeSoFar
  <2>2. report'[p].ok => report[p].ok /\ ok
    BY <1>3
  <2> QED BY <2>1, <2>2
<1>13. MadeSoFar(p)'
  <2>1. at'[p] \notin {"clean", "start", "dead"}
    BY <1>5
  <2> QED BY <1>4, <1>12, <2>1 DEF MadeSoFar
<1>10. ProvisionSoFar(p)'
  <2> SUFFICES ASSUME Kind(p) = "provision"
               PROVE  /\ NamesOf(ready'[p]) \subseteq OverNames(p)'
                      /\ report'[p].ok => OverNames(p)' \subseteq NamesOf(ready'[p])
                      /\ IsFiniteSet(ready'[p]) /\ Cardinality(ready'[p]) <= Through(p)'
                      /\ ~report'[p].ok /\ ~Fault("unseen") => Cardinality(ready'[p]) < Through(p)'
    BY <1>4, WorldStays DEF ProvisionSoFar, NamesOf
  <2>1. /\ NamesOf(ready[p]) \subseteq OverNames(p)
        /\ report[p].ok => OverNames(p) \subseteq NamesOf(ready[p])
        /\ IsFiniteSet(ready[p]) /\ Cardinality(ready[p]) <= Through(p)
        /\ ~report[p].ok /\ ~Fault("unseen") => Cardinality(ready[p]) < Through(p)
    BY <1>1, <1>2 DEF CommandInv, ProvisionSoFar
  <2>2. NamesOf(ready'[p]) \subseteq OverNames(p)'
    BY <1>3, <1>9, <2>1
  <2>3. report'[p].ok => OverNames(p)' \subseteq NamesOf(ready'[p])
    BY <1>3, <1>9, <2>1
  <2>4. /\ IsFiniteSet(ready'[p]) /\ Cardinality(ready[p]) \in Nat /\ Cardinality(ready'[p]) \in Nat
        /\ Cardinality(ready'[p]) <= Cardinality(ready[p]) + 1
        /\ fin = {} => Cardinality(ready'[p]) = Cardinality(ready[p])
    <3> DEFINE S == ready[p]
    <3>1. IsFiniteSet(S) /\ (fin = {} \/ fin = {x}) /\ ready'[p] = S \cup fin
      BY <2>1
    <3> HIDE DEF S
    <3>2. /\ IsFiniteSet(S \cup fin) /\ Cardinality(S) \in Nat /\ Cardinality(S \cup fin) \in Nat
          /\ Cardinality(S \cup fin) <= Cardinality(S) + 1
          /\ fin = {} => Cardinality(S \cup fin) = Cardinality(S)
      BY <3>1, OneMore
    <3> QED BY <3>1, <3>2 DEF S
  <2>5. Cardinality(ready'[p]) <= Through(p)'
    BY <1>3, <2>1, <2>4
  <2>6. ~report'[p].ok /\ ~Fault("unseen") => Cardinality(ready'[p]) < Through(p)'
    <3>1. CASE ~report[p].ok
      BY <1>3, <2>1, <2>4, <3>1
    <3>2. CASE ~ok
      BY <1>3, <2>1, <2>4, <3>2
    <3> QED BY <1>3, <3>1, <3>2
  <2> QED BY <2>2, <2>3, <2>4, <2>5, <2>6
<1>11. ASSUME at'[p] = "done"
       PROVE  Told(p)'
  <2>1. CASE Kind(p) = "aProvision"
    <3>1. ready[p] = {} /\ (at[p] \in DOMAIN Behind => made[p] = {})
      BY <1>1, <1>4, <2>1 DEF CommandInv, AProvisionSoFar, MadeSoFar
    <3>2. ~report'[p].ok /\ (~Fault("unseen") => ready'[p] = {})
      BY <1>3, <2>1, <3>1
    <3>3. NothingFails(p) => made'[p] = {}
      BY <1>12, <3>2 DEF NothingFails
    <3> QED BY <1>4, <2>1, <3>2, <3>3 DEF Told
  <2>2. CASE Kind(p) = "provision"
    <3>1. Over(p)' = ConfigsOf(p) /\ OverNames(p)' = {d.name : d \in ConfigsOf(p)}
      BY <1>3, <1>11, <2>2 DEF OverNames, Again, First
    <3>2. Through(p)' <= Len(Batch(p))
      <4>1. todo'[p] \in Seq(Configs) /\ Batch(p) \in Seq(Configs)
        <5>1. todo[p] \in Seq(Configs) /\ todo[p] # <<>> /\ Batch(p) \in Seq(Configs)
          BY <1>1, <1>2, AtAConfig DEF CommandInv
        <5>2. todo'[p] = Tail(todo[p])
          BY <1>1 DEF ConfigDone, CommandsInv, TypeOK
        <5> QED BY <5>1, <5>2, TailKeeps
      <4>2. Len(todo'[p]) \in Nat /\ Len(Batch(p)) \in Nat
        BY <4>1, LenProperties
      <4>3. Through(p)' = Len(Batch(p)) - Len(todo'[p])
        BY <1>4 DEF Through
      <4> QED BY <4>2, <4>3
    <3>3. /\ NamesOf(ready'[p]) \subseteq OverNames(p)'
          /\ report'[p].ok => OverNames(p)' \subseteq NamesOf(ready'[p])
          /\ IsFiniteSet(ready'[p])
          /\ ~report'[p].ok /\ ~Fault("unseen") => Cardinality(ready'[p]) < Through(p)'
      BY <1>4, <1>10, <1>11, <2>2 DEF ProvisionSoFar, NamesOf
    <3>4. Cardinality(ready'[p]) \in Nat /\ Through(p)' \in Nat /\ Len(Batch(p)) \in Nat
      <4>1. Batch(p) \in Seq(Configs)
        BY <1>1, <1>2, AtAConfig DEF CommandInv
      <4> QED BY <1>3, <3>3, <4>1, FS_CardinalityType, LenProperties
    <3>5. ~report'[p].ok /\ ~Fault("unseen") => Cardinality(ready'[p]) < Len(Batch(p))
      <4>1. \A i, j, k \in Nat : i < j /\ j <= k => i < k
        OBVIOUS
      <4> QED BY <3>2, <3>3, <3>4, <4>1, Zenon
    <3>6. report'[p].ok => {m[1] : m \in ready'[p]} = {d.name : d \in ConfigsOf(p)}
      BY <3>1, <3>3 DEF NamesOf
    <3>7. report'[p].ok => made'[p] = ready'[p]
      BY <1>12
    <3>8. ~report'[p].ok /\ NothingFails(p) => Cardinality(made'[p]) < Len(Batch(p))
      <4>1. NothingFails(p) => made'[p] = ready'[p] /\ ~Fault("unseen")
        BY <1>12 DEF NothingFails
      <4> QED BY <3>5, <4>1
    <3> QED BY <1>4, <2>2, <3>5, <3>6, <3>7, <3>8 DEF Told
  <2> QED BY <1>4, <2>1, <2>2
<1> QED BY <1>3, <1>6, <1>7, <1>8, <1>10, <1>11, <1>13 DEF CommandInv

\* It is done with a config without having made or provisioned anything in this
\* step: after a create, only where something fails.
LEMMA MakerFails ==
  ASSUME AllInv, NEW p \in Procs, Makes(p), at[p] \in DOMAIN Behind \cup {"clean", "start"},
         at[p] \in {"clean", "start"} => ~NothingFails(p),
         UNCHANGED world, ConfigDone(p, FALSE), made'[p] = made[p], ready'[p] = ready[p]
  PROVE  CommandInv(p)' /\ (at'[p] = "done" => Told(p)')
<1> DEFINE x == <<Config(p).name, NoId>>
           none == {}
           ok == FALSE
<1>1. x[1] = Config(p).name /\ none = {} /\ ok \in BOOLEAN /\ ~ok /\ ConfigDone(p, ok)
  OBVIOUS
<1>2. made'[p] = made[p] \cup none /\ ready'[p] = ready[p] \cup none /\ none \subseteq made'[p]
  OBVIOUS
<1>3. ok \/ NothingFails(p) => none = {} /\ Unfinished(p) \subseteq none
  BY DEF Unfinished
<1> HIDE DEF x, none, ok
<1> QED BY <1>1, <1>2, <1>3, MakerDone

\* A command that deletes VMs is done with a config, having deleted one or not.
LEMMA DeleterDone ==
  ASSUME AllInv, NEW p \in Procs, Deletes(p), at[p] \in {"list", "destroy"}, UNCHANGED world,
         NEW ok \in BOOLEAN, ConfigDone(p, ok), Kind(p) = "aDeprovision" => ~ok,
         NEW x, NEW del, del = {} \/ (del = {x} /\ (Undisturbed(p) => x[1] = Config(p).name)),
         made'[p] = made[p], ready'[p] = ready[p], gone'[p] = gone[p] \cup del,
         ok => del # {}, ~ok /\ ~Fault("unseen") => del = {}
  PROVE  CommandInv(p)' /\ (at'[p] = "done" => Told(p)')
<1> DEFINE c == Config(p)
<1>1. CommandsInv /\ ShapeInv /\ CommandInv(p)
  BY DEF AllInv, ProcessesInv
<1>2. at[p] \in ConfigPlaces /\ at[p] # "dead"
  BY DEF ConfigPlaces
<1>3. /\ c \in ConfigsOf(p)
      /\ Over(p)' = Over(p) \cup {c} /\ OverNames(p)' = OverNames(p) \cup {c.name}
      /\ OnRoute(p)'
      /\ report'[p].ok = (report[p].ok /\ ok)
      /\ report'[p].changed = report[p].changed /\ report'[p].id = report[p].id
      /\ \/ at'[p] = "done" /\ Over(p)' = ConfigsOf(p)
         \/ at'[p] = Again[Kind(p)] /\ Kind(p) \in {"provision", "validate", "deprovision"}
  BY <1>1, <1>2, DoneOver DEF CommandInv
<1>4. /\ Kind(p)' = Kind(p) /\ ConfigsOf(p)' = ConfigsOf(p)
      /\ Makes(p)' = Makes(p) /\ Undisturbed(p)' = Undisturbed(p)
      /\ \A f : Fault(f)' = Fault(f)
      /\ \A d : Fits(d)' = Fits(d)
      /\ Kind(p) \in {"deprovision", "aDeprovision"} /\ ~Makes(p)
  BY WorldStays DEF Makes, Deletes
<1>5. at'[p] = "done" \/ (at'[p] = "list" /\ Kind(p) = "deprovision")
  BY <1>3, <1>4 DEF Again, First
<1>6. Preflighted(p)'
  BY <1>1, <1>4 DEF CommandInv, Preflighted
<1>7. Looked(p)' /\ Listed(p)' /\ ProvisionSoFar(p)' /\ AProvisionSoFar(p)' /\ IsoSoFar(p)'
      /\ MadeSoFar(p)'
  BY <1>4, <1>5 DEF Looked, LookedFor, Listed, ProvisionSoFar, AProvisionSoFar, IsoSoFar, MadeSoFar
<1>8. ADeprovisionSoFar(p)'
  BY <1>4, <1>5 DEF ADeprovisionSoFar
<1>9. NamesOf(gone'[p]) = NamesOf(gone[p]) \cup NamesOf(del)
  BY DEF NamesOf
<1>10. DeprovisionSoFar(p)'
  <2> SUFFICES ASSUME Kind(p) = "deprovision"
               PROVE  /\ at'[p] = "done" => gone'[p] = {} \/ Over(p)' = ConfigsOf(p)
                      /\ Undisturbed(p) => NamesOf(gone'[p]) \subseteq OverNames(p)'
                      /\ Undisturbed(p) /\ report'[p].ok => OverNames(p)' \subseteq NamesOf(gone'[p])
    BY <1>4, <1>5 DEF DeprovisionSoFar, NamesOf
  <2>1. /\ Undisturbed(p) => NamesOf(gone[p]) \subseteq OverNames(p)
        /\ Undisturbed(p) /\ report[p].ok => OverNames(p) \subseteq NamesOf(gone[p])
    BY <1>1, <1>2 DEF CommandInv, DeprovisionSoFar
  <2>2. Undisturbed(p) => NamesOf(del) \subseteq {c.name} /\ (del # {} => NamesOf(del) = {c.name})
    BY DEF NamesOf
  <2>3. at'[p] = "done" => Over(p)' = ConfigsOf(p)
    BY <1>3 DEF Again, First
  <2> QED BY <1>3, <1>9, <2>1, <2>2, <2>3
<1>11. ASSUME at'[p] = "done"
       PROVE  Told(p)'
  <2>1. CASE Kind(p) = "aDeprovision"
    <3>1. report[p].ok /\ ~report[p].changed /\ gone[p] = {}
      BY <1>1, <2>1 DEF CommandInv, ADeprovisionSoFar, Untouched
    <3>2. ~report'[p].ok /\ (~Fault("unseen") => gone'[p] = {})
      BY <1>3, <2>1, <3>1
    <3> QED BY <1>4, <2>1, <3>2 DEF Told
  <2>2. CASE Kind(p) = "deprovision"
    <3>1. Over(p)' = ConfigsOf(p) /\ OverNames(p)' = {d.name : d \in ConfigsOf(p)}
      BY <1>3, <1>11, <2>2 DEF OverNames, Again, First
    <3>2. Undisturbed(p) /\ report'[p].ok => {m[1] : m \in gone'[p]} = {d.name : d \in ConfigsOf(p)}
      BY <1>4, <1>10, <1>11, <2>2, <3>1 DEF DeprovisionSoFar, NamesOf
    <3> QED BY <1>4, <2>2, <3>2 DEF Told
  <2> QED BY <1>4, <2>1, <2>2
<1> QED BY <1>3, <1>6, <1>7, <1>8, <1>10, <1>11 DEF CommandInv

\* A check says what its answer means for the config.
LEMMA HoldsIsMet ==
  ASSUME ShapeInv, NEW p \in Procs, NEW check \in Checks
  PROVE  /\ Holds(p, check) \in BOOLEAN
         /\ Holds(p, check) => Met(Config(p), check)
         /\ Met(Config(p), check) /\ (check = "name" => Clustered) => Holds(p, check)
<1>1. IsApiMinVersion(Site.version) <=> VersionReached(Site.version)
  BY VersionIsReached, CommandsAssumption DEF ShapeInv, Site
<1> QED BY <1>1 DEF Holds, Met, Checks

\* Where a config goes after a check has one check more behind it, and the name
\* too where it is not looked for.
LEMMA AfterIsBehind ==
  ASSUME NEW check \in Checks, NEW holds \in BOOLEAN
  PROVE  /\ After(check, holds) \in DOMAIN Behind \ {"create"}
         /\ check # "network" => After(check, holds) \in Checks
         /\ After(check, holds) = "name" => Clustered
         /\ \/ Behind[After(check, holds)] = Behind[check] \cup {check}
            \/ /\ check = "cluster" /\ ~(Clustered /\ holds)
               /\ Behind[After(check, holds)] = {"cluster", "name"}
<1>1. /\ check = "cluster" /\ ~(Clustered /\ holds) => After(check, holds) = "version"
      /\ ~(check = "cluster" /\ ~(Clustered /\ holds)) => After(check, holds) = Following[check]
  BY DEF After
<1>2. /\ Following[check] \in DOMAIN Behind \ {"create"}
      /\ check # "network" => Following[check] \in Checks
      /\ Following[check] = "name" => check = "cluster"
      /\ Behind[Following[check]] = Behind[check] \cup {check}
  BY DEF Following, Behind, Checks
<1>3. "version" \in DOMAIN Behind /\ "version" \in Checks /\ Behind["version"] = {"cluster", "name"}
  BY DEF Behind, Checks
<1> QED BY <1>1, <1>2, <1>3

LEMMA CheckKeeps ==
  ASSUME AllInv, NEW p \in Procs, NEW check \in Checks, Check(p, check)
  PROVE  CommandInv(p)' /\ (at'[p] = "done" => Told(p)')
<1> DEFINE c == Config(p)
<1>1. CommandsInv /\ ShapeInv /\ CommandInv(p) /\ TypeOK
  BY DEF AllInv, ProcessesInv, CommandsInv
<1>2. /\ at[p] = check /\ UNCHANGED <<world, tries, files, download, vm, target, made, ready, gone>>
  BY DEF Check
<1>3. at[p] \in ConfigPlaces /\ at[p] \in DOMAIN Behind /\ at[p] # "dead" /\ at[p] # "create"
  BY <1>2 DEF Checks, ConfigPlaces, Behind
<1>4. /\ Kind(p)' = Kind(p) /\ ConfigsOf(p)' = ConfigsOf(p)
      /\ Makes(p)' = Makes(p) /\ NothingElse(p)' = NothingElse(p)
      /\ \A f : Fault(f)' = Fault(f)
      /\ \A d : Fits(d)' = Fits(d)
      /\ \A d : \A e \in Checks : Met(d, e)' = Met(d, e)
  BY <1>2, WorldStays, MetStays
<1>5. PICK holds \in BOOLEAN :
        /\ Checked(p, check, holds)
        /\ holds = Holds(p, check) \/ (~holds /\ Fault("unread"))
  <2>1. Holds(p, check) \in BOOLEAN
    BY <1>1, HoldsIsMet
  <2> QED BY <2>1 DEF Check
<1>6. /\ holds => Met(c, check)
      /\ NothingElse(p) => (holds <=> Met(c, check))
  <2>1. check = "name" => Clustered
    BY <1>1, <1>2, <1>3, KindOfPlace DEF CommandInv, OnRoute, Route
  <2> QED BY <1>1, <1>5, <2>1, HoldsIsMet DEF NothingElse, Fault
<1>7. /\ Kind(p) \in {"provision", "aProvision", "validate"}
  BY <1>1, <1>2, <1>3, KindOfPlace DEF CommandInv, Route, Checks
<1>8. CASE Kind(p) # "validate" /\ ConfigDone(p, FALSE)
  <2>1. Makes(p) /\ at[p] \notin {"clean", "start"}
    BY <1>2, <1>7, <1>8 DEF Makes, Checks
  <2>2. UNCHANGED world /\ made'[p] = made[p] /\ ready'[p] = ready[p]
    BY <1>2
  <2> QED BY <1>3, <1>8, <2>1, <2>2, MakerFails
<1>9. CASE Kind(p) = "validate" /\ ConfigDone(p, holds) /\ check = "network"
  <2>1. /\ c \in ConfigsOf(p)
        /\ Over(p)' = Over(p) \cup {c}
        /\ OnRoute(p)'
        /\ report'[p].ok = (report[p].ok /\ holds)
        /\ \/ at'[p] = "done"
           \/ at'[p] = Again[Kind(p)]
    BY <1>1, <1>2, <1>3, <1>9, DoneOver DEF CommandInv
  <2>2. at'[p] \in {"done", "cluster"}
    BY <1>9, <2>1 DEF Again, First
  <2>3. at'[p] \in DOMAIN Behind => Behind[at'[p]] = {}
    BY <2>2 DEF Behind
  <2>4. Preflighted(p)'
    <3>1. NothingElse(p) => (report'[p].ok <=> \A d \in Over(p)', e \in Checks : Met(d, e))
      <4> SUFFICES ASSUME NothingElse(p)
                   PROVE  report'[p].ok <=> \A d \in Over(p)', e \in Checks : Met(d, e)
        OBVIOUS
      <4>1. report[p].ok <=> /\ \A d \in Over(p), e \in Checks : Met(d, e)
                             /\ \A e \in Checks \ {"network"} : Met(c, e)
        <5>1. Behind[at[p]] = Checks \ {"network"}
          BY <1>2, <1>9 DEF Behind
        <5> QED BY <1>1, <1>3, <1>9, <5>1 DEF CommandInv, Preflighted
      <4> QED BY <1>6, <1>9, <2>1, <4>1
    <3>2. \A m \in made'[p] : \E d \in ConfigsOf(p) : d.name = m[1] /\ Fits(d)
      BY <1>1, <1>2 DEF CommandInv, Preflighted
    <3>3. NothingElse(p) => (report'[p].ok <=> \A d \in Over(p)', e \in Checks : Met(d, e)')
      BY <1>4, <3>1
    <3> QED BY <1>4, <1>9, <2>3, <3>2, <3>3 DEF Preflighted, Makes
  <2>5. Looked(p)' /\ Listed(p)' /\ ProvisionSoFar(p)' /\ AProvisionSoFar(p)' /\ IsoSoFar(p)'
        /\ DeprovisionSoFar(p)' /\ ADeprovisionSoFar(p)' /\ MadeSoFar(p)' /\ Told(p)'
    BY <1>4, <1>9, <2>2 DEF Looked, LookedFor, Listed, ProvisionSoFar, AProvisionSoFar, IsoSoFar,
                            DeprovisionSoFar, ADeprovisionSoFar, MadeSoFar, Makes, Told
  <2> QED BY <2>1, <2>4, <2>5 DEF CommandInv
<1>10. CASE /\ Goto(p, After(check, holds)) /\ UNCHANGED todo
            /\ \/ /\ Kind(p) = "validate" /\ check # "network"
                  /\ report' = [report EXCEPT ![p].ok = @ /\ holds]
               \/ Kind(p) # "validate" /\ holds /\ UNCHANGED report
  <2> DEFINE next == After(check, holds)
  <2>1. at'[p] = next
    BY <1>1, <1>10 DEF Goto, TypeOK
  <2>2. /\ next \in DOMAIN Behind \ {"create"}
        /\ check # "network" => next \in Checks
        /\ next = "name" => Clustered
        /\ \/ Behind[next] = Behind[check] \cup {check}
           \/ /\ check = "cluster" /\ ~(Clustered /\ holds)
              /\ Behind[next] = {"cluster", "name"}
    BY AfterIsBehind
  <2> HIDE DEF next
  <2>3. /\ next \in Route[Kind(p)]
        /\ next \notin {"done", "destroy", "create", "clean", "start", "idle", "dead", "readId", "exists"}
    BY <1>7, <1>10, <2>2 DEF Route, Behind, Checks
  <2>4. /\ OnRoute(p)' /\ Config(p)' = c /\ Through(p)' = Through(p) /\ Over(p)' = Over(p)
        /\ OverNames(p)' = OverNames(p)
    BY <1>1, <1>2, <1>3, <1>10, <2>1, <2>2, <2>3, GotoRoute DEF CommandInv
  <2>5. /\ report'[p].changed = report[p].changed
        /\ Kind(p) # "validate" => report'[p].ok = report[p].ok
        /\ Kind(p) = "validate" => report'[p].ok = (report[p].ok /\ holds)
    BY <1>1, <1>10 DEF TypeOK
  <2>6. ~Clustered => Met(c, "cluster") /\ Met(c, "name")
    BY DEF Met
  <2>7. ASSUME holds
        PROVE  \A e \in Behind[next] : e \in Behind[check] \/ Met(c, e)
    BY <1>6, <2>2, <2>6, <2>7
  <2>8. ASSUME NothingElse(p)
        PROVE  (\A e \in Behind[next] : Met(c, e)) <=> holds /\ \A e \in Behind[check] : Met(c, e)
    <3>1. CASE Behind[next] = Behind[check] \cup {check}
      BY <1>6, <2>8, <3>1
    <3>2. CASE /\ check = "cluster" /\ ~(Clustered /\ holds)
               /\ Behind[next] = {"cluster", "name"}
      <4>1. Behind[check] = {}
        BY <3>2 DEF Behind
      <4> QED BY <1>6, <2>6, <2>8, <3>2, <4>1
    <3> QED BY <2>2, <3>1, <3>2
  <2>9. Behind[next] \subseteq Checks /\ Behind[check] \subseteq Checks /\ check \in DOMAIN Behind
    BY <1>2, <1>3, <2>2 DEF Behind, Checks
  <2>10. Preflighted(p)'
    <3>1. \A m \in made'[p] : \E d \in ConfigsOf(p) : d.name = m[1] /\ Fits(d)
      BY <1>1, <1>2 DEF CommandInv, Preflighted
    <3>2. ASSUME Makes(p), NEW e \in Behind[next] \ {"iso"}, e # "name" \/ world.serial
          PROVE  Met(c, e)'
      <4>1. holds
        BY <1>10, <3>2 DEF Makes
      <4>2. e \in Behind[check] => Met(c, e)
        BY <1>1, <1>2, <1>3, <3>2 DEF CommandInv, Preflighted
      <4>3. Met(c, e)
        BY <2>7, <3>2, <4>1, <4>2
      <4> QED BY <1>4, <2>4, <2>9, <4>3
    <3>3. ASSUME Kind(p) = "validate", NothingElse(p)
          PROVE  report'[p].ok <=> /\ \A d \in Over(p), e \in Checks : Met(d, e)
                                   /\ \A e \in Behind[next] : Met(c, e)
      <4>1. report[p].ok <=> /\ \A d \in Over(p), e \in Checks : Met(d, e)
                             /\ \A e \in Behind[check] : Met(c, e)
        BY <1>1, <1>2, <1>3, <3>3 DEF CommandInv, Preflighted
      <4> QED BY <2>5, <2>8, <3>3, <4>1
    <3>4. ASSUME Kind(p) = "validate", NothingElse(p)
          PROVE  report'[p].ok <=> /\ \A d \in Over(p)', e \in Checks : Met(d, e)'
                                   /\ \A e \in Behind[next] : Met(Config(p), e)'
      <4>1. \A d : \A e \in Checks : Met(d, e)' = Met(d, e)
        BY <1>4
      <4>2. \A e \in Behind[next] : Met(Config(p), e)' = Met(c, e)
        BY <1>2, <2>4, <2>9, <4>1
      <4> QED BY <2>4, <3>3, <3>4, <4>1, <4>2
    <3>5. ASSUME Makes(p), NEW e \in Behind[next] \ {"iso"}, e # "name" \/ world.serial
          PROVE  Met(Config(p), e)'
      BY <1>4, <2>4, <2>9, <3>2, <3>5
    <3> QED BY <1>2, <1>4, <2>1, <2>2, <3>1, <3>4, <3>5 DEF Preflighted
  <2>11. Looked(p)'
    <3>1. LookedFor(p)' => LookedFor(p)
      BY <1>2, <1>3, <1>4 DEF LookedFor
    <3>2. \A n, h : Named(n, h)' = Named(n, h)
      BY <1>2 DEF Named
    <3> QED BY <1>1, <2>1, <2>3, <2>4, <3>1, <3>2 DEF CommandInv, Looked
  <2>12. Listed(p)' /\ IsoSoFar(p)' /\ DeprovisionSoFar(p)' /\ ADeprovisionSoFar(p)'
    BY <1>4, <1>7, <2>1, <2>3 DEF Listed, IsoSoFar, DeprovisionSoFar, ADeprovisionSoFar
  <2>13. ProvisionSoFar(p)'
    BY <1>1, <1>2, <1>3, <1>4, <2>4, <2>5 DEF CommandInv, ProvisionSoFar
  <2>14. AProvisionSoFar(p)'
    BY <1>1, <1>2, <1>3, <1>4, <2>1, <2>3, <2>4, <2>5 DEF CommandInv, AProvisionSoFar, Untouched
  <2>15. MadeSoFar(p)'
    <3>1. Kind(p) = "validate" \/ report'[p].ok = report[p].ok
      BY <2>5
    <3>2. at[p] \notin {"clean", "start", "dead"}
      BY <1>2 DEF Checks
    <3> QED BY <1>1, <1>2, <2>1, <2>3, <2>5, <3>2, MadeStays DEF CommandInv
  <2> QED BY <2>1, <2>3, <2>4, <2>10, <2>11, <2>12, <2>13, <2>14, <2>15 DEF CommandInv
<1> QED BY <1>5, <1>7, <1>8, <1>9, <1>10 DEF Checked, Makes

LEMMA AllocateKeeps ==
  ASSUME AllInv, NEW p \in Procs, Allocate(p) \/ NoIdGiven(p)
  PROVE  CommandInv(p)' /\ (at'[p] = "done" => Told(p)')
<1> DEFINE c == Config(p)
<1>1. CommandsInv /\ ShapeInv /\ CommandInv(p) /\ TypeOK
  BY DEF AllInv, ProcessesInv, CommandsInv
<1>2. /\ at[p] = "allocate" /\ UNCHANGED <<world, tries, files, download, vm, made, ready, gone>>
      /\ at[p] \in ConfigPlaces /\ at[p] \in DOMAIN Behind
  BY DEF Allocate, NoIdGiven, ConfigPlaces, Behind
<1>3. Kind(p) \in {"provision", "aProvision"} /\ Makes(p)
  BY <1>1, <1>2, KindOfPlace DEF CommandInv, Makes
<1>4. CASE NoIdGiven(p)
  <2>1. ConfigDone(p, FALSE)
    BY <1>4 DEF NoIdGiven
  <2> QED BY <1>2, <1>3, <2>1, MakerFails
<1>5. CASE Allocate(p)
  <2>1. PICK v \in VmIds :
          /\ IF Config(p).id = NoId THEN vm[v] = NoVm ELSE v = Config(p).id
          /\ target' = [target EXCEPT ![p] = v]
          /\ report' = IF Kind(p) = "provision" THEN [report EXCEPT ![p].id = v] ELSE report
    BY <1>5 DEF Allocate
  <2>2. /\ at'[p] = "create" /\ todo'[p] = todo[p] /\ target'[p] = v
        /\ report'[p].ok = report[p].ok /\ report'[p].changed = report[p].changed
    BY <1>1, <1>5, <2>1 DEF Allocate, Goto, TypeOK
  <2>3. /\ Kind(p)' = Kind(p) /\ ConfigsOf(p)' = ConfigsOf(p)
        /\ Makes(p)' = Makes(p)
        /\ \A f : Fault(f)' = Fault(f)
        /\ \A d : Fits(d)' = Fits(d)
        /\ \A d, e : Met(d, e)' = Met(d, e)
    BY <1>2, WorldStays, MetStays
  <2>4. /\ OnRoute(p)' /\ Config(p)' = c /\ Through(p)' = Through(p) /\ Over(p)' = Over(p)
        /\ OverNames(p)' = OverNames(p)
    <3>1. "create" \in Route[Kind(p)]
      BY <1>3 DEF Route
    <3> QED BY <1>1, <1>2, <2>2, <3>1, GotoRoute DEF CommandInv
  <2>5. Preflighted(p)'
    <3>1. Behind["create"] = Behind["allocate"] /\ "create" \in DOMAIN Behind
      BY DEF Behind
    <3>2. \A m \in made'[p] : \E d \in ConfigsOf(p) : d.name = m[1] /\ Fits(d)
      BY <1>1, <1>2 DEF CommandInv, Preflighted
    <3>3. ASSUME NEW e \in Behind["create"] \ {"iso"}, e # "name" \/ world.serial
          PROVE  Met(Config(p), e)'
      <4>1. Met(c, e)
        BY <1>1, <1>2, <1>3, <3>1, <3>3 DEF CommandInv, Preflighted
      <4> QED BY <2>3, <2>4, <4>1
    <3> QED BY <1>2, <1>3, <2>2, <2>3, <3>1, <3>2, <3>3 DEF Preflighted
  <2>6. Looked(p)'
    <3>1. c.id # NoId => v = c.id
      BY <2>1
    <3>2. LookedFor(p)' => LookedFor(p)
      BY <1>2, <2>3 DEF LookedFor
    <3>3. \A n, h : Named(n, h)' = Named(n, h)
      BY <1>2 DEF Named
    <3> QED BY <1>1, <2>2, <2>4, <3>1, <3>2, <3>3 DEF CommandInv, Looked
  <2>7. Listed(p)' /\ IsoSoFar(p)' /\ DeprovisionSoFar(p)' /\ ADeprovisionSoFar(p)'
    BY <1>3, <2>2, <2>3 DEF Listed, IsoSoFar, DeprovisionSoFar, ADeprovisionSoFar
  <2>8. ProvisionSoFar(p)'
    BY <1>1, <1>2, <2>2, <2>3, <2>4 DEF CommandInv, ProvisionSoFar
  <2>9. AProvisionSoFar(p)'
    BY <1>1, <1>2, <2>2, <2>3, <2>4 DEF CommandInv, AProvisionSoFar, Untouched
  <2>10. MadeSoFar(p)'
    BY <1>1, <1>2, <2>2, MadeStays DEF CommandInv
  <2> QED BY <2>2, <2>4, <2>5, <2>6, <2>7, <2>8, <2>9, <2>10 DEF CommandInv
<1> QED BY <1>4, <1>5

LEMMA CreateKeeps ==
  ASSUME AllInv, NEW p \in Procs, Create(p) \/ CreateFails(p)
  PROVE  CommandInv(p)' /\ (at'[p] = "done" => Told(p)')
<1> DEFINE c == Config(p)
           x == <<c.name, target[p]>>
<1>1. CommandsInv /\ ShapeInv /\ CommandInv(p) /\ TypeOK
  BY DEF AllInv, ProcessesInv, CommandsInv
<1>2. /\ at[p] = "create" /\ UNCHANGED <<world, tries, files, download, target, ready, gone>>
      /\ at[p] \in ConfigPlaces /\ at[p] \in DOMAIN Behind
  BY DEF Create, CreateFails, ConfigPlaces, Behind
<1>3. Kind(p) \in {"provision", "aProvision"} /\ Makes(p) /\ c \in ConfigsOf(p)
  BY <1>1, <1>2, KindOfPlace, AtAConfig DEF CommandInv, Makes
<1>4. x[1] = c.name
  OBVIOUS
<1>5. Fits(c)
  <2>1. Behind[at[p]] = Checks
    BY <1>2 DEF Behind
  <2>2. Met(c, "cluster") /\ Met(c, "version") /\ Met(c, "storage") /\ Met(c, "network")
    BY <1>1, <1>2, <1>3, <2>1 DEF CommandInv, Preflighted, Checks
  <2> QED BY <2>2 DEF Met, Fits
<1>6. CASE CreateFails(p)
  <2>1. made'[p] = made[p] /\ ConfigDone(p, FALSE)
    BY <1>6 DEF CreateFails
  <2> QED BY <1>2, <1>3, <2>1, MakerFails
<1>7. CASE Create(p)
  <2>1. /\ made'[p] = made[p] \cup {x}
        /\ vm' = [vm EXCEPT ![target[p]] = [name |-> c.name, host |-> c.host]]
        /\ up' = up \ {target[p]}
    BY <1>1, <1>7 DEF Create, ShapeInv
  <2>2. \/ Fault("unseen") /\ ConfigDone(p, FALSE)
        \/ Goto(p, "clean") /\ UNCHANGED <<report, todo>>
    BY <1>7 DEF Create
  <2>4. CASE Fault("unseen") /\ ConfigDone(p, FALSE)
    <3>1. ~NothingFails(p)
      BY <2>4 DEF NothingFails
    <3> DEFINE none == {}
               ok == FALSE
               mk == {x}
    <3>2. /\ ready'[p] = ready[p] \cup none /\ none \subseteq made'[p] /\ none = {}
          /\ made'[p] = made[p] \cup mk /\ mk = {x} /\ UNCHANGED world
          /\ ok \in BOOLEAN /\ ~ok /\ ConfigDone(p, ok)
      BY <1>2, <2>1, <2>4
    <3> HIDE DEF x, none, ok, mk
    <3> QED BY <1>2, <1>3, <1>4, <1>5, <3>1, <3>2, MakerDone
  <2>5. CASE Goto(p, "clean") /\ UNCHANGED <<report, todo>>
    <3>1. at'[p] = "clean" /\ todo'[p] = todo[p] /\ report'[p] = report[p] /\ target'[p] = target[p]
      BY <1>1, <1>2, <2>5 DEF Goto, TypeOK
    <3>2. /\ Kind(p)' = Kind(p) /\ ConfigsOf(p)' = ConfigsOf(p)
          /\ Makes(p)' = Makes(p) /\ NothingFails(p)' = NothingFails(p)
          /\ \A d : Fits(d)' = Fits(d)
          /\ \A f : Fault(f)' = Fault(f)
      BY <1>2, WorldStays
    <3>3. /\ OnRoute(p)' /\ Config(p)' = c /\ Through(p)' = Through(p) /\ OverNames(p)' = OverNames(p)
      <4>1. "clean" \in Route[Kind(p)]
        BY <1>3 DEF Route
      <4> QED BY <1>1, <1>2, <3>1, <4>1, GotoRoute DEF CommandInv
    <3>4. at'[p] \notin DOMAIN Behind
      BY <3>1 DEF Behind
    <3>5. Preflighted(p)'
      <4>1. \A m \in made'[p] : \E d \in ConfigsOf(p) : d.name = m[1] /\ Fits(d)
        BY <1>1, <1>3, <1>4, <1>5, <2>1 DEF CommandInv, Preflighted
      <4> QED BY <1>3, <3>2, <3>4, <4>1 DEF Preflighted
    <3>6. Looked(p)' /\ Listed(p)'
      BY <3>1, <3>4 DEF Looked, LookedFor, Listed
    <3>7. IsoSoFar(p)' /\ DeprovisionSoFar(p)' /\ ADeprovisionSoFar(p)'
      BY <1>3, <3>2 DEF IsoSoFar, DeprovisionSoFar, ADeprovisionSoFar
    <3>8. ProvisionSoFar(p)'
      BY <1>1, <1>2, <3>1, <3>2, <3>3 DEF CommandInv, ProvisionSoFar
    <3>9. AProvisionSoFar(p)'
      <4>1. Kind(p) = "aProvision" => Untouched(p) /\ ready[p] = {}
        BY <1>1, <1>2, <1>3 DEF CommandInv, AProvisionSoFar, MadeSoFar
      <4> QED BY <1>2, <3>1, <3>2, <3>4, <4>1 DEF AProvisionSoFar, Untouched
    <3>10. MadeSoFar(p)'
      <4>1. target[p] \in VmIds
        BY <1>1, <1>2 DEF CommandInv, Looked
      <4>2. vm'[target[p]] = [name |-> c.name, host |-> c.host]
        BY <1>1, <2>1, <4>1 DEF ShapeInv
      <4>3. [name |-> c.name, host |-> c.host] # NoVm
        <5>1. c.name # NoName
          BY <1>1, <1>3, NamedConfig
        <5> QED BY <5>1 DEF NoVm
      <4>4. AtTarget(p)' /\ target'[p] \notin up'
        BY <2>1, <3>1, <3>3, <4>2, <4>3 DEF AtTarget
      <4>5. Unfinished(p) = {} /\ Unfinished(p)' = {x}
        BY <1>2, <3>1, <3>3 DEF Unfinished
      <4>6. /\ ready[p] \subseteq made[p]
            /\ report[p].ok \/ NothingFails(p) => made[p] \subseteq ready[p] \cup {}
        BY <1>1, <1>2, <1>3, <4>5 DEF CommandInv, MadeSoFar
      <4>7. /\ ready'[p] \subseteq made'[p] /\ {x} \subseteq made'[p]
            /\ report'[p].ok \/ NothingFails(p) => made'[p] \subseteq ready'[p] \cup {x}
        BY <1>2, <2>1, <3>1, <4>6
      <4> HIDE DEF x
      <4> QED BY <3>1, <3>2, <4>1, <4>4, <4>5, <4>7 DEF MadeSoFar
    <3> QED BY <3>1, <3>3, <3>5, <3>6, <3>7, <3>8, <3>9, <3>10 DEF CommandInv
  <2> QED BY <2>2, <2>4, <2>5
<1> QED BY <1>6, <1>7

\* After the create: the images are deleted and the VM is started, or not.
LEMMA FinishKeeps ==
  ASSUME AllInv, NEW p \in Procs, CleanUp(p) \/ CleanUpFails(p) \/ Start(p) \/ StartFails(p)
  PROVE  /\ CommandInv(p)' /\ (at'[p] = "done" => Told(p)')
         /\ at[p] \in {"clean", "start"} /\ target'[p] = target[p]
<1> DEFINE c == Config(p)
           x == <<c.name, target[p]>>
<1>1. CommandsInv /\ ShapeInv /\ CommandInv(p) /\ TypeOK
  BY DEF AllInv, ProcessesInv, CommandsInv
<1>2. /\ at[p] \in {"clean", "start"} /\ at[p] \in ConfigPlaces
      /\ UNCHANGED <<world, vm, target, made, gone>>
  BY DEF CleanUp, CleanUpFails, Start, StartFails, ConfigPlaces
<1>3. Kind(p) \in {"provision", "aProvision"} /\ Makes(p)
  BY <1>1, <1>2, KindOfPlace DEF CommandInv, Makes
<1>4. x[1] = c.name /\ Unfinished(p) = {x}
  BY <1>2 DEF Unfinished
<1>5. /\ ready[p] \subseteq made[p]
      /\ report[p].ok \/ NothingFails(p) => made[p] \subseteq ready[p] \cup {x}
      /\ {x} \subseteq made[p] /\ target[p] \in VmIds
      /\ Undisturbed(p) => AtTarget(p) /\ target[p] \notin up
      /\ Kind(p) = "aProvision" => Untouched(p) /\ ready[p] = {}
  BY <1>1, <1>2, <1>3, <1>4 DEF CommandInv, MadeSoFar, AProvisionSoFar
<1>6. /\ Kind(p)' = Kind(p) /\ ConfigsOf(p)' = ConfigsOf(p)
      /\ Makes(p)' = Makes(p) /\ NothingFails(p)' = NothingFails(p) /\ Undisturbed(p)' = Undisturbed(p)
      /\ \A d : Fits(d)' = Fits(d)
      /\ \A f : Fault(f)' = Fault(f)
  BY <1>2, WorldStays
<1>7. \A m \in made'[p] : \E d \in ConfigsOf(p) : d.name = m[1] /\ Fits(d)
  BY <1>1, <1>2 DEF CommandInv, Preflighted
<1> HIDE DEF x
<1>8. \/ ConfigDone(p, FALSE) /\ ready' = ready /\ ~NothingFails(p)
      \/ Goto(p, "start") /\ UNCHANGED <<report, todo, up, ready>>
      \/ Provisioned(p)
  <2>1. CASE CleanUp(p)
    BY <2>1 DEF CleanUp, NothingFails
  <2>2. CASE CleanUpFails(p)
    BY <2>2 DEF CleanUpFails, NothingFails
  <2>3. CASE Start(p)
    BY <2>3 DEF Start
  <2>4. CASE StartFails(p)
    <3>1. ~Startable(p) => ~Undisturbed(p)
      BY <1>5 DEF Startable, AtTarget
    <3> QED BY <2>4, <3>1 DEF StartFails, NothingFails
  <2> QED BY <2>1, <2>2, <2>3, <2>4
<1>9. CASE ConfigDone(p, FALSE) /\ ready' = ready /\ ~NothingFails(p)
  BY <1>2, <1>3, <1>9, MakerFails
<1>10. CASE Goto(p, "start") /\ UNCHANGED <<report, todo, up, ready>>
  <2>1. at'[p] = "start" /\ at'[p] \notin DOMAIN Behind
    BY <1>1, <1>10 DEF Goto, TypeOK, Behind
  <2>2. OnRoute(p)' /\ Config(p)' = c /\ Through(p)' = Through(p) /\ OverNames(p)' = OverNames(p)
    <3>1. "start" \in Route[Kind(p)]
      BY <1>3 DEF Route
    <3> QED BY <1>1, <1>2, <1>10, <2>1, <3>1, GotoRoute DEF CommandInv
  <2>3. Preflighted(p)'
    BY <1>3, <1>6, <1>7, <2>1 DEF Preflighted
  <2>4. Looked(p)' /\ Listed(p)' /\ IsoSoFar(p)' /\ DeprovisionSoFar(p)' /\ ADeprovisionSoFar(p)'
    BY <1>3, <1>6, <2>1 DEF Looked, LookedFor, Listed, IsoSoFar, DeprovisionSoFar, ADeprovisionSoFar
  <2>5. ProvisionSoFar(p)'
    BY <1>1, <1>2, <1>6, <1>10, <2>1, <2>2 DEF CommandInv, ProvisionSoFar
  <2>6. AProvisionSoFar(p)'
    BY <1>5, <1>6, <1>10, <2>1 DEF AProvisionSoFar, Untouched
  <2>7. MadeSoFar(p)'
    <3>1. Unfinished(p)' = {x} /\ AtTarget(p)' = AtTarget(p)
      BY <1>2, <2>1, <2>2 DEF Unfinished, AtTarget, x
    <3> QED BY <1>2, <1>5, <1>6, <1>10, <2>1, <3>1 DEF MadeSoFar
  <2> QED BY <1>2, <2>1, <2>2, <2>3, <2>4, <2>5, <2>6, <2>7 DEF CommandInv
<1>11. CASE Provisioned(p)
  <2>1. ready'[p] = ready[p] \cup {x}
    BY <1>1, <1>11 DEF Provisioned, ShapeInv, x
  <2>2. made'[p] = made[p] \cup {} /\ {x} \subseteq made'[p]
    BY <1>2, <1>5
  <2>3. CASE Kind(p) # "aProvision" /\ ConfigDone(p, TRUE)
    BY <1>2, <1>3, <1>4, <2>1, <2>2, <2>3, MakerDone
  <2>4. CASE Fault("unseen") /\ ConfigDone(p, FALSE)
    BY <1>2, <1>3, <1>4, <2>1, <2>2, <2>4, MakerDone
  <2>5. CASE Kind(p) = "aProvision" /\ Goto(p, "readId") /\ UNCHANGED <<report, todo>>
    <3>1. at'[p] = "readId" /\ at'[p] \notin DOMAIN Behind
      BY <1>1, <2>5 DEF Goto, TypeOK, Behind
    <3>2. OnRoute(p)' /\ Config(p)' = c
      <4>1. "readId" \in Route[Kind(p)]
        BY <2>5 DEF Route
      <4> QED BY <1>1, <1>2, <2>5, <3>1, <4>1, GotoRoute DEF CommandInv
    <3>3. Preflighted(p)'
      BY <1>6, <1>7, <2>5, <3>1 DEF Preflighted
    <3>4. /\ Looked(p)' /\ Listed(p)' /\ IsoSoFar(p)' /\ DeprovisionSoFar(p)' /\ ADeprovisionSoFar(p)'
          /\ ProvisionSoFar(p)'
      BY <1>6, <2>5, <3>1
         DEF Looked, LookedFor, Listed, IsoSoFar, DeprovisionSoFar, ADeprovisionSoFar, ProvisionSoFar
    <3>5. made'[p] = {x} /\ ready'[p] = {x}
      BY <1>5, <2>1, <2>2, <2>5 DEF Untouched
    <3>6. MadeSoFar(p)'
      BY <1>6, <3>1, <3>5 DEF MadeSoFar
    <3>7. AProvisionSoFar(p)'
      <4>1. world.serial => AtTarget(p)'
        BY <1>2, <1>5, <3>2 DEF AtTarget, Undisturbed
      <4>2. {x} = {<<Config(p)'.name, target'[p]>>}
        BY <1>2, <3>2 DEF x
      <4> QED BY <1>2, <1>5, <1>6, <2>5, <3>1, <3>5, <4>1, <4>2 DEF AProvisionSoFar, Untouched
    <3> QED BY <1>2, <3>1, <3>2, <3>3, <3>4, <3>6, <3>7 DEF CommandInv
  <2> QED BY <1>2, <1>11, <2>3, <2>4, <2>5 DEF Provisioned
<1> QED BY <1>2, <1>8, <1>9, <1>10, <1>11

LEMMA ExistsKeeps ==
  ASSUME AllInv, NEW p \in Procs, Exists(p)
  PROVE  CommandInv(p)' /\ (at'[p] = "done" => Told(p)')
<1> DEFINE c == Config(p)
<1>1. CommandsInv /\ ShapeInv /\ CommandInv(p) /\ TypeOK
  BY DEF AllInv, ProcessesInv, CommandsInv
<1>2. /\ at[p] = "exists" /\ UNCHANGED <<world, tries, files, download, vmVars>>
      /\ at[p] \in ConfigPlaces
  BY DEF Exists, ConfigPlaces
<1>3. Kind(p) \in {"aProvision", "aDeprovision"}
  BY <1>1, <1>2, KindOfPlace DEF CommandInv, Route, Checks
<1>4. /\ Kind(p)' = Kind(p) /\ ConfigsOf(p)' = ConfigsOf(p)
      /\ Makes(p)' = Makes(p)
      /\ \A f : Fault(f)' = Fault(f)
      /\ \A d : Fits(d)' = Fits(d)
  BY <1>2, WorldStays
<1>5. UNCHANGED <<vm, todo, target, made, ready, gone>>
  BY <1>2 DEF vmVars
<1>6. /\ Kind(p) = "aProvision" => Untouched(p) /\ made[p] = {} /\ ready[p] = {}
      /\ Kind(p) = "aDeprovision" => Untouched(p) /\ gone[p] = {}
  BY <1>1, <1>2 DEF CommandInv, AProvisionSoFar, ADeprovisionSoFar, MadeSoFar, Makes
<1>7. \/ /\ Kind(p) = "aProvision" /\ at'[p] = "done"
         /\ report'[p].ok = report[p].ok /\ report'[p].changed = report[p].changed
      \/ /\ Kind(p) = "aProvision" /\ at'[p] = "cluster" /\ report'[p] = report[p]
         /\ Named(c.name, c.host) = {} \/ Fault("unread")
      \/ Kind(p) = "aDeprovision" /\ at'[p] = "list" /\ report'[p] = report[p]
      \/ Kind(p) = "aDeprovision" /\ at'[p] = "done" /\ ~report'[p].changed
  BY <1>1, <1>3 DEF Exists, End, Goto, TypeOK
<1>8. /\ OnRoute(p)' /\ Config(p)' = c
  <2>1. at'[p] \in {"done"} \cup Route[Kind(p)] /\ at'[p] # "name"
    BY <1>3, <1>7 DEF Route, Checks
  <2> QED BY <1>1, <1>2, <1>3, <1>5, <2>1, GotoRoute DEF CommandInv
<1>9. Preflighted(p)'
  <2>1. \A m \in made'[p] : \E d \in ConfigsOf(p) : d.name = m[1] /\ Fits(d)
    BY <1>1, <1>5 DEF CommandInv, Preflighted
  <2>2. Makes(p) /\ at'[p] \in DOMAIN Behind => Behind[at'[p]] = {}
    BY <1>7 DEF Behind, Makes
  <2> QED BY <1>3, <1>4, <2>1, <2>2 DEF Preflighted
<1>10. Looked(p)'
  <2>1. LookedFor(p)' => Named(c.name, c.host) = {}
    BY <1>2, <1>4, <1>7 DEF LookedFor, Behind
  <2>2. \A n, h : Named(n, h)' = Named(n, h)
    BY <1>5 DEF Named
  <2>3. at'[p] # "create"
    BY <1>7
  <2> QED BY <1>8, <2>1, <2>2, <2>3 DEF Looked
<1>11. Listed(p)' /\ IsoSoFar(p)' /\ ProvisionSoFar(p)' /\ DeprovisionSoFar(p)'
  BY <1>3, <1>4, <1>7 DEF Listed, IsoSoFar, ProvisionSoFar, DeprovisionSoFar
<1>12. AProvisionSoFar(p)' /\ ADeprovisionSoFar(p)'
  BY <1>3, <1>4, <1>5, <1>6, <1>7 DEF AProvisionSoFar, ADeprovisionSoFar, Untouched, Behind
<1>13. at'[p] = "done" => Told(p)'
  BY <1>3, <1>4, <1>5, <1>6, <1>7 DEF Told, Untouched
<1>14. MadeSoFar(p)'
  BY <1>3, <1>4, <1>5, <1>6, <1>7 DEF MadeSoFar, Makes
<1> QED BY <1>8, <1>9, <1>10, <1>11, <1>12, <1>13, <1>14 DEF CommandInv

\* The one config of a module.
LEMMA OnlyConfig ==
  ASSUME CommandsInv, ShapeInv, NEW p \in Procs, OnRoute(p), at[p] \in ConfigPlaces,
         Kind(p) \in {"aProvision", "aDeprovision"}
  PROVE  ConfigsOf(p) = {Config(p)}
<1>1. Config(p) \in ConfigsOf(p) /\ Batch(p) \in Seq(Configs)
  BY AtAConfig
<1>2. Len(Batch(p)) = 1
  BY CommandsAssumption DEF ShapeInv, Kind, Batch, Command
<1>3. DOMAIN Batch(p) = {1}
  BY <1>1, <1>2, LenProperties
<1> QED BY <1>1, <1>3 DEF ConfigsOf

\* What a module takes for the VM it made is that VM, as far as names are unique.
LEMMA ReadIdKeeps ==
  ASSUME AllInv, NEW p \in Procs, ReadId(p)
  PROVE  CommandInv(p)' /\ (at'[p] = "done" => Told(p)')
<1> DEFINE c == Config(p)
<1>1. CommandsInv /\ ShapeInv /\ CommandInv(p) /\ TypeOK /\ NamesInv /\ OneVmPerName
  BY DEF AllInv, ProcessesInv, CommandsInv
<1>2. /\ at[p] = "readId" /\ UNCHANGED <<world, tries, files, download, vmVars>>
      /\ at[p] \in ConfigPlaces
  BY DEF ReadId, ConfigPlaces
<1>3. Kind(p) = "aProvision" /\ Makes(p)
  <2>1. "readId" \notin Route["provision"]
    BY DEF Route, Checks
  <2> QED BY <1>1, <1>2, <2>1, KindOfPlace DEF CommandInv, Makes
<1>4. /\ Kind(p)' = Kind(p) /\ ConfigsOf(p)' = ConfigsOf(p)
      /\ Makes(p)' = Makes(p)
      /\ \A f : Fault(f)' = Fault(f)
      /\ \A d : Fits(d)' = Fits(d)
      /\ \A n : Pinned(n)' = Pinned(n)
      /\ \A h1, h2 : LooksFirst(h1, h2)' = LooksFirst(h1, h2)
  BY <1>2, WorldStays
<1>5. UNCHANGED <<vm, todo, target, made, ready, gone>>
  BY <1>2 DEF vmVars
<1>6. PICK v \in Named(c.name, c.host) \cup {NoId} :
        /\ Goto(p, "done")
        /\ report' = [report EXCEPT ![p].id = v, ![p].changed = TRUE]
  BY DEF ReadId
<1>7. at'[p] = "done" /\ report'[p].id = v /\ report'[p].changed /\ report'[p].ok = report[p].ok
  BY <1>1, <1>6 DEF Goto, TypeOK
<1>8. OnRoute(p)'
  BY <1>1, <1>2, <1>3, <1>5, <1>7, GotoRoute DEF CommandInv
<1>9. Preflighted(p)'
  <2>1. \A m \in made'[p] : \E d \in ConfigsOf(p) : d.name = m[1] /\ Fits(d)
    BY <1>1, <1>5 DEF CommandInv, Preflighted
  <2>2. at'[p] \notin DOMAIN Behind
    BY <1>7 DEF Behind
  <2> QED BY <1>3, <1>4, <2>1, <2>2 DEF Preflighted
<1>10. Looked(p)' /\ Listed(p)' /\ IsoSoFar(p)' /\ ProvisionSoFar(p)' /\ DeprovisionSoFar(p)'
       /\ AProvisionSoFar(p)' /\ ADeprovisionSoFar(p)'
  BY <1>3, <1>4, <1>7 DEF Looked, LookedFor, Listed, IsoSoFar, ProvisionSoFar, DeprovisionSoFar,
                          AProvisionSoFar, ADeprovisionSoFar, Behind
<1>11. Told(p)'
  <2>1. /\ report[p].ok /\ made[p] = {<<c.name, target[p]>>} /\ target[p] \in VmIds
        /\ ready[p] = made[p]
        /\ world.serial => AtTarget(p)
    BY <1>1, <1>2, <1>3 DEF CommandInv, AProvisionSoFar, Untouched
  <2>2. ConfigsOf(p) = {c}
    BY <1>1, <1>2, <1>3, OnlyConfig DEF CommandInv
  <2>3. ASSUME v # NoId, LooksFirst(c.host, c.host) \/ Pinned(c.name)
        PROVE  v = target[p]
    <3>1. v \in VmIds /\ vm[v].name = c.name /\ vm[v].host = c.host
      BY <1>6, <2>3 DEF Named
    <3>2. c.name # NoName
      BY <1>1, <1>3, <2>2, NamedConfig
    <3>3. vm[v] # NoVm
      BY <3>1, <3>2 DEF NoVm
    <3>4. CASE Pinned(c.name)
      <4>1. PICK u \in VmIds : PinnedTo(c.name, u)
        BY <3>4 DEF Pinned
      <4>2. v = u
        BY <1>1, <3>1, <3>3, <4>1 DEF NamesInv
      <4>3. \A m \in made[p] : m[1] = c.name => m[2] = u
        BY <1>1, <4>1 DEF NamesInv
      <4>4. <<c.name, target[p]>>[1] = c.name /\ <<c.name, target[p]>>[2] = target[p]
        OBVIOUS
      <4> QED BY <2>1, <4>2, <4>3, <4>4
    <3>5. CASE LooksFirst(c.host, c.host)
      <4>1. world.serial
        BY <3>5 DEF LooksFirst
      <4>2. vm[target[p]].name = c.name /\ vm[target[p]].host = c.host
        BY <2>1, <4>1 DEF AtTarget
      <4> QED BY <1>1, <2>1, <3>1, <3>3, <3>5, <4>2 DEF OneVmPerName
    <3> QED BY <2>3, <3>4, <3>5
  <2>4. ASSUME v # NoId, NEW m \in made[p], LooksFirst(c.host, c.host) \/ Pinned(m[1])
        PROVE  v = m[2]
    <3>1. m[1] = c.name /\ m[2] = target[p]
      BY <2>1
    <3> QED BY <2>3, <2>4, <3>1
  <2>5. made[p] # {}
    BY <2>1
  <2> QED BY <1>3, <1>4, <1>5, <1>7, <2>1, <2>2, <2>4, <2>5 DEF Told
<1>12. MadeSoFar(p)'
  BY <1>1, <1>2, <1>5, <1>7, MadeStays DEF CommandInv
<1> QED BY <1>8, <1>9, <1>10, <1>11, <1>12 DEF CommandInv

LEMMA PromptKeeps ==
  ASSUME AllInv, NEW p \in Procs, Prompt(p)
  PROVE  CommandInv(p)' /\ (at'[p] = "done" => Told(p)')
<1>1. CommandsInv /\ ShapeInv /\ CommandInv(p) /\ TypeOK
  BY DEF AllInv, ProcessesInv, CommandsInv
<1>2. /\ at[p] = "prompt" /\ UNCHANGED <<world, report, vm, todo, target, made, ready, gone>>
      /\ at[p] \in ConfigPlaces
  BY DEF Prompt, ConfigPlaces, vmVars
<1>3. Kind(p) = "deprovision"
  BY <1>1, <1>2, KindOfPlace DEF CommandInv, Deletes, Route, Checks
<1>4. /\ Kind(p)' = Kind(p) /\ ConfigsOf(p)' = ConfigsOf(p)
      /\ Makes(p)' = Makes(p) /\ Undisturbed(p)' = Undisturbed(p)
      /\ \A f : Fault(f)' = Fault(f)
      /\ \A d : Fits(d)' = Fits(d)
  BY <1>2, WorldStays
<1>5. at'[p] \in {"list", "done"}
  BY <1>1 DEF Prompt, Goto, TypeOK
<1>6. /\ OnRoute(p)' /\ Through(p)' = Through(p) /\ Over(p)' = Over(p) /\ OverNames(p)' = OverNames(p)
  <2>1. at'[p] \in {"done"} \cup Route[Kind(p)] /\ at'[p] # "name"
    BY <1>3, <1>5 DEF Route
  <2> QED BY <1>1, <1>2, <1>3, <2>1, GotoRoute DEF CommandInv
<1>7. Preflighted(p)'
  BY <1>1, <1>2, <1>3, <1>4 DEF CommandInv, Preflighted, Makes
<1>8. Looked(p)' /\ Listed(p)' /\ IsoSoFar(p)' /\ ProvisionSoFar(p)' /\ AProvisionSoFar(p)'
      /\ ADeprovisionSoFar(p)'
  BY <1>3, <1>4, <1>5 DEF Looked, LookedFor, Listed, IsoSoFar, ProvisionSoFar, AProvisionSoFar,
                          ADeprovisionSoFar
<1>9. DeprovisionSoFar(p)' /\ Told(p)'
  BY <1>1, <1>2, <1>3, <1>4, <1>5, <1>6 DEF CommandInv, DeprovisionSoFar, Told
<1>10. MadeSoFar(p)'
  BY <1>3, <1>4 DEF MadeSoFar, Makes
<1> QED BY <1>6, <1>7, <1>8, <1>9, <1>10 DEF CommandInv

LEMMA ListKeeps ==
  ASSUME AllInv, NEW p \in Procs, List(p)
  PROVE  CommandInv(p)' /\ (at'[p] = "done" => Told(p)')
<1> DEFINE c == Config(p)
<1>1. CommandsInv /\ ShapeInv /\ CommandInv(p) /\ TypeOK /\ NamesInv
  BY DEF AllInv, ProcessesInv, CommandsInv
<1>2. /\ at[p] = "list" /\ UNCHANGED <<world, tries, files, download, vm, made, ready, gone>>
      /\ at[p] \in ConfigPlaces
  BY DEF List, ConfigPlaces
<1>3. Deletes(p) /\ Kind(p) \in {"deprovision", "aDeprovision"} /\ ~Makes(p)
  BY <1>1, <1>2, KindOfPlace DEF CommandInv, Deletes, Makes
<1>4. CASE ConfigDone(p, FALSE)
  <2>1. gone'[p] = gone[p] \cup {} /\ made'[p] = made[p] /\ ready'[p] = ready[p]
    BY <1>2
  <2> QED BY <1>2, <1>3, <1>4, <2>1, DeleterDone
<1>5. CASE \E v \in Named(c.name, c.host) :
             /\ target' = [target EXCEPT ![p] = v]
             /\ Goto(p, "destroy")
             /\ UNCHANGED <<report, todo>>
  <2>1. PICK v \in Named(c.name, c.host) :
          /\ target' = [target EXCEPT ![p] = v]
          /\ Goto(p, "destroy")
          /\ UNCHANGED <<report, todo>>
    BY <1>5
  <2>2. at'[p] = "destroy" /\ target'[p] = v
    BY <1>1, <2>1 DEF Goto, TypeOK
  <2>3. v \in VmIds /\ vm[v].name = c.name /\ vm[v].host = c.host
    BY DEF Named
  <2>4. /\ Kind(p)' = Kind(p) /\ ConfigsOf(p)' = ConfigsOf(p)
        /\ Makes(p)' = Makes(p) /\ Undisturbed(p)' = Undisturbed(p) /\ Taken(p)' = Taken(p)
        /\ \A q : Makes(q)' = Makes(q)
        /\ \A f : Fault(f)' = Fault(f)
        /\ \A d : Fits(d)' = Fits(d)
    BY <1>2, WorldStays
  <2>5. /\ OnRoute(p)' /\ Config(p)' = c /\ Through(p)' = Through(p) /\ Over(p)' = Over(p)
        /\ OverNames(p)' = OverNames(p)
    <3>1. "destroy" \in Route[Kind(p)]
      BY <1>3 DEF Route
    <3> QED BY <1>1, <1>2, <2>1, <2>2, <3>1, GotoRoute DEF CommandInv
  <2>6. Preflighted(p)'
    BY <1>1, <1>2, <1>3, <2>4 DEF CommandInv, Preflighted
  <2>7. Looked(p)' /\ IsoSoFar(p)' /\ ProvisionSoFar(p)' /\ AProvisionSoFar(p)' /\ MadeSoFar(p)'
    BY <1>3, <2>2, <2>4 DEF Looked, LookedFor, IsoSoFar, ProvisionSoFar, AProvisionSoFar, MadeSoFar
  <2>8. Listed(p)'
    <3>1. c \in ConfigsOf(p)
      BY <1>1, <1>2, AtAConfig DEF CommandInv
    <3>2. vm[v] # NoVm
      BY <1>1, <1>3, <2>3, <3>1, NamedConfig DEF NoVm
    <3>3. AtTarget(p)'
      BY <1>2, <2>2, <2>3, <2>5, <3>2 DEF AtTarget
    <3> QED BY <2>2, <2>3, <3>3 DEF Listed
  <2>9. DeprovisionSoFar(p)' /\ ADeprovisionSoFar(p)'
    BY <1>1, <1>2, <1>3, <2>1, <2>2, <2>4, <2>5
       DEF CommandInv, DeprovisionSoFar, ADeprovisionSoFar, Untouched
  <2> QED BY <2>2, <2>5, <2>6, <2>7, <2>8, <2>9 DEF CommandInv
<1> QED BY <1>4, <1>5 DEF List

LEMMA DestroyKeeps ==
  ASSUME AllInv, NEW p \in Procs, Destroy(p) \/ DestroyFails(p)
  PROVE  CommandInv(p)' /\ (at'[p] = "done" => Told(p)')
<1> DEFINE c == Config(p)
           x == <<vm[target[p]].name, target[p]>>
<1>1. CommandsInv /\ ShapeInv /\ CommandInv(p) /\ TypeOK
  BY DEF AllInv, ProcessesInv, CommandsInv
<1>2. /\ at[p] = "destroy" /\ UNCHANGED <<world, tries, files, download, target, made, ready>>
      /\ at[p] \in ConfigPlaces
  BY DEF Destroy, DestroyFails, ConfigPlaces
<1>3. Deletes(p) /\ Kind(p) \in {"deprovision", "aDeprovision"} /\ ~Makes(p)
  BY <1>1, <1>2, KindOfPlace DEF CommandInv, Deletes, Makes
<1>4. CASE DestroyFails(p)
  <2>1. gone'[p] = gone[p] \cup {} /\ made'[p] = made[p] /\ ready'[p] = ready[p]
        /\ ConfigDone(p, FALSE)
    BY <1>2, <1>4 DEF DestroyFails
  <2> HIDE DEF x
  <2> QED BY <1>2, <1>3, <2>1, DeleterDone
<1>5. CASE Destroy(p)
  <2>1. /\ gone'[p] = gone[p] \cup {x} /\ made'[p] = made[p] /\ ready'[p] = ready[p]
        /\ vm[target[p]] # NoVm
    BY <1>1, <1>2, <1>5 DEF Destroy, ShapeInv
  <2>2. Undisturbed(p) => x[1] = c.name
    <3>1. AtTarget(p) \/ (Taken(p) /\ \E q \in Procs : Makes(q))
      BY <1>1, <1>2, <2>1 DEF CommandInv, Listed
    <3>2. AtTarget(p) => x[1] = c.name
      BY DEF AtTarget
    <3>3. Taken(p) /\ (\E q \in Procs : Makes(q)) => ~Undisturbed(p)
      BY DEF Taken, Undisturbed
    <3> QED BY <3>1, <3>2, <3>3
  <2>3. \/ Kind(p) = "deprovision" /\ ConfigDone(p, TRUE)
        \/ Fault("unseen") /\ ConfigDone(p, FALSE)
        \/ Kind(p) = "aDeprovision" /\ End(p, TRUE, TRUE) /\ UNCHANGED todo
    BY <1>3, <1>5 DEF Destroy, Destroyed
  <2>4. CASE Kind(p) = "deprovision" /\ ConfigDone(p, TRUE)
    <3> HIDE DEF x
    <3> QED BY <1>2, <1>3, <2>1, <2>2, <2>4, DeleterDone
  <2>5. CASE Fault("unseen") /\ ConfigDone(p, FALSE)
    <3> HIDE DEF x
    <3> QED BY <1>2, <1>3, <2>1, <2>2, <2>5, DeleterDone
  <2>6. CASE Kind(p) = "aDeprovision" /\ End(p, TRUE, TRUE) /\ UNCHANGED todo
    <3>1. at'[p] = "done" /\ report'[p].ok /\ report'[p].changed /\ todo'[p] = todo[p]
      BY <1>1, <2>6 DEF End, Goto, TypeOK
    <3>2. gone'[p] # {}
      BY <2>1
    <3>3. /\ Kind(p)' = Kind(p) /\ ConfigsOf(p)' = ConfigsOf(p)
          /\ Makes(p)' = Makes(p)
          /\ \A d : Fits(d)' = Fits(d)
      BY <1>2, WorldStays
    <3>4. OnRoute(p)'
      BY <1>1, <1>2, <2>6, <3>1, GotoRoute DEF CommandInv
    <3>5. Preflighted(p)'
      BY <1>1, <1>2, <1>3, <3>3 DEF CommandInv, Preflighted
    <3>6. /\ Looked(p)' /\ Listed(p)' /\ IsoSoFar(p)' /\ ProvisionSoFar(p)' /\ AProvisionSoFar(p)'
          /\ DeprovisionSoFar(p)' /\ ADeprovisionSoFar(p)' /\ MadeSoFar(p)' /\ Told(p)'
      BY <1>3, <2>6, <3>1, <3>2, <3>3
         DEF Looked, LookedFor, Listed, IsoSoFar, ProvisionSoFar, AProvisionSoFar,
             DeprovisionSoFar, ADeprovisionSoFar, MadeSoFar, Told
    <3> QED BY <3>4, <3>5, <3>6 DEF CommandInv
  <2> QED BY <2>3, <2>4, <2>5, <2>6
<1> QED BY <1>4, <1>5

\* A command that stages the ISO has nothing to do with VMs.
LEMMA NoVmCommand ==
  ASSUME AllInv, NEW p \in Procs, Kind(p) \in {"refresh", "isoInfo"}, UNCHANGED world,
         made'[p] = made[p], at'[p] \notin ConfigPlaces
  PROVE  /\ OnRoute(p)' /\ Preflighted(p)' /\ Looked(p)' /\ Listed(p)'
         /\ ProvisionSoFar(p)' /\ DeprovisionSoFar(p)' /\ AProvisionSoFar(p)' /\ ADeprovisionSoFar(p)'
         /\ MadeSoFar(p)'
<1>1. CommandInv(p)
  BY DEF AllInv, ProcessesInv
<1>2. /\ Kind(p)' = Kind(p) /\ ConfigsOf(p)' = ConfigsOf(p)
      /\ Makes(p)' = Makes(p) /\ ~Makes(p)
      /\ \A d : Fits(d)' = Fits(d)
  BY WorldStays DEF Makes
<1>3. Preflighted(p)'
  BY <1>1, <1>2 DEF CommandInv, Preflighted
<1>4. at'[p] \notin {"create", "destroy"}
  BY DEF ConfigPlaces
<1> QED BY <1>2, <1>3, <1>4 DEF OnRoute, Looked, LookedFor, Listed, ProvisionSoFar, DeprovisionSoFar,
                                AProvisionSoFar, ADeprovisionSoFar, MadeSoFar, Route

LEMMA IsoOwnKeeps ==
  ASSUME AllInv, NEW p \in Procs, IsoStep(p), UNCHANGED vmVars
  PROVE  CommandInv(p)' /\ (at'[p] = "done" => Told(p)')
<1>1. CommandsInv /\ ShapeInv /\ CommandInv(p) /\ TypeOK
  BY DEF AllInv, ProcessesInv, CommandsInv
<1>2. IsoEffect(p)
  BY <1>1, IsoSteps
<1>3. /\ Kind(p) \in {"refresh", "isoInfo"} /\ UNCHANGED <<world, made>>
      /\ at'[p] \in IsoPlaces \cup {"done"} /\ at'[p] \notin ConfigPlaces
  BY <1>1, <1>2 DEF IsoEffect, CommandsInv, PlacesInv, vmVars, IsoPlaces, ConfigPlaces
<1>4. Kind(p)' = Kind(p)
  BY <1>3, WorldStays
<1>5. /\ Untouched(p)
      /\ at[p] # "wait" => download[p] = "none"
      /\ at[p] = "wait" => download[p] # "none"
  BY <1>1, <1>2, <1>3 DEF CommandInv, IsoSoFar, IsoEffect
<1>6. \/ /\ at'[p] \in {"feed", "present", "sums", "request"} /\ report'[p] = report[p]
         /\ download'[p] = download[p] /\ at[p] # "wait"
      \/ at'[p] = "wait" /\ report'[p] = report[p] /\ download'[p] = "running"
      \/ /\ at'[p] = "done" /\ download'[p] = download[p] /\ report'[p].ok
         /\ report'[p].changed <=> at[p] = "wait"
      \/ at'[p] = "done" /\ ~report'[p].ok
  <2>1. CASE FeedAnswers(p)
    BY <1>1, <2>1 DEF FeedAnswers, End, Goto, TypeOK
  <2>2. CASE FeedIsUseless(p)
    BY <1>1, <2>2 DEF FeedIsUseless, End, Goto, TypeOK
  <2>3. CASE FeedIsBusy(p)
    BY <1>1, <2>3 DEF FeedIsBusy, End, Goto, TypeOK
  <2>4. CASE LookForIso(p)
    BY <1>1, <2>4 DEF LookForIso, End, Goto, TypeOK
  <2>5. CASE FetchSums(p)
    BY <1>1, <2>5 DEF FetchSums, End, Goto, TypeOK
  <2>6. CASE RequestDownload(p)
    BY <1>1, <2>6 DEF RequestDownload, End, Goto, TypeOK
  <2>7. CASE AwaitDownload(p)
    BY <1>1, <2>7 DEF AwaitDownload, End, Goto, TypeOK
  <2> QED BY <2>1, <2>2, <2>3, <2>4, <2>5, <2>6, <2>7 DEF IsoStep
<1>7. IsoSoFar(p)'
  BY <1>4, <1>5, <1>6 DEF IsoSoFar, IsoPlaces, Untouched
<1>8. at'[p] = "done" => Told(p)'
  BY <1>3, <1>4, <1>5, <1>6 DEF Told, Untouched
<1> QED BY <1>3, <1>7, <1>8, NoVmCommand DEF CommandInv

LEMMA HostOwnKeeps ==
  ASSUME AllInv, NEW p \in Procs, HostStep(p)
  PROVE  CommandInv(p)' /\ (at'[p] = "done" => Told(p)')
<1>1. CommandsInv /\ ShapeInv /\ CommandInv(p) /\ TypeOK
  BY DEF AllInv, ProcessesInv, CommandsInv
<1>2. /\ download[p] = "running" /\ UNCHANGED <<world, at, report, made, gone>>
      /\ download'[p] \in {"ok", "error"}
  BY <1>1 DEF HostStep, Download, TypeOK, vmVars
<1>3. Kind(p) \in {"refresh", "isoInfo"} /\ at[p] \notin ConfigPlaces
  BY <1>1, <1>2 DEF CommandsInv, PlacesInv
<1>4. Kind(p)' = Kind(p)
  BY <1>2, WorldStays
<1>5. IsoSoFar(p)'
  BY <1>1, <1>2, <1>3, <1>4 DEF CommandInv, IsoSoFar, Untouched
<1>6. at[p] = "done" => Told(p)'
  <2>1. at[p] = "done" => Told(p)
    BY DEF AllInv, ReportIsTrue
  <2> QED BY <1>2, <1>3, <1>4, <2>1 DEF Told
<1> QED BY <1>2, <1>3, <1>5, <1>6, NoVmCommand DEF CommandInv

LEMMA BeginOwnKeeps ==
  ASSUME AllInv, NEW p \in Procs, Begin(p)
  PROVE  CommandInv(p)' /\ at'[p] # "done"
<1>1. CommandsInv /\ ShapeInv /\ CommandInv(p) /\ TypeOK /\ PlacesInv
  BY DEF AllInv, ProcessesInv, CommandsInv
<1>2. /\ at[p] = "idle" /\ Kind(p) \in Kinds \ {"none"} /\ at'[p] = First[Kind(p)]
      /\ UNCHANGED <<world, report, download, vm, todo, target, made, ready, gone>>
  BY <1>1 DEF Begin, Goto, vmVars, TypeOK, PlacesInv
<1>3. /\ Kind(p)' = Kind(p) /\ ConfigsOf(p)' = ConfigsOf(p) /\ Batch(p)' = Batch(p)
      /\ Makes(p)' = Makes(p) /\ NothingElse(p)' = NothingElse(p) /\ Undisturbed(p)' = Undisturbed(p)
      /\ \A f : Fault(f)' = Fault(f)
      /\ \A d : Fits(d)' = Fits(d)
  BY <1>2, WorldStays
<1>4. CASE Kind(p) \in {"refresh", "isoInfo"}
  <2>1. at'[p] = "feed" /\ at'[p] \notin ConfigPlaces
    BY <1>2, <1>4 DEF First, ConfigPlaces
  <2>2. IsoSoFar(p)'
    BY <1>1, <1>2, <1>3, <1>4, <2>1 DEF CommandInv, IsoSoFar, Untouched, IsoPlaces
  <2> QED BY <1>2, <1>4, <2>1, <2>2, NoVmCommand DEF CommandInv
<1>5. CASE Kind(p) \in {"provision", "aProvision", "validate", "deprovision", "aDeprovision"}
  <2>1. /\ Config(p)' = Config(p) /\ Through(p)' = Through(p) /\ Over(p)' = Over(p)
        /\ OverNames(p)' = OverNames(p)
    BY <1>2, BatchStays
  <2>2. /\ at'[p] \in {"cluster", "exists", "prompt"} /\ at'[p] \in Route[Kind(p)]
        /\ at'[p] = "exists" <=> Kind(p) \in {"aProvision", "aDeprovision"}
    BY <1>2, <1>5 DEF First, Route, Checks
  <2>3. OnRoute(p)'
    BY <1>1, <1>2, <1>3, <1>5, <2>1, <2>2 DEF CommandInv, OnRoute, Route
  <2>4. Preflighted(p)'
    <3>1. \A m \in made'[p] : \E d \in ConfigsOf(p) : d.name = m[1] /\ Fits(d)
      BY <1>1, <1>2 DEF CommandInv, Preflighted
    <3>2. at'[p] \in DOMAIN Behind => Behind[at'[p]] = {}
      BY <2>2 DEF Behind
    <3>3. Kind(p) = "validate" /\ NothingElse(p) => (report[p].ok <=> \A c \in Over(p), e \in Checks : Met(c, e))
      BY <1>1, <1>2 DEF CommandInv, Preflighted, Behind
    <3>4. Over(p) = {}
      <4>1. Through(p) = 0
        BY <1>1, <1>2, <1>5 DEF CommandInv, OnRoute, Route
      <4> QED BY <4>1 DEF Over
    <3> QED BY <1>2, <1>3, <2>1, <3>1, <3>2, <3>3, <3>4 DEF Preflighted
  <2>5. Looked(p)' /\ Listed(p)' /\ IsoSoFar(p)'
    BY <1>3, <1>5, <2>2 DEF Looked, LookedFor, Listed, IsoSoFar, Behind
  <2>6. ProvisionSoFar(p)' /\ AProvisionSoFar(p)' /\ DeprovisionSoFar(p)' /\ ADeprovisionSoFar(p)'
    BY <1>1, <1>2, <1>3, <2>1, <2>2
       DEF CommandInv, ProvisionSoFar, AProvisionSoFar, DeprovisionSoFar, ADeprovisionSoFar, Untouched
  <2>7. MadeSoFar(p)'
    BY <1>1, <1>2, <2>2, MadeStays DEF CommandInv
  <2> QED BY <2>2, <2>3, <2>4, <2>5, <2>6, <2>7 DEF CommandInv
<1> QED BY <1>2, <1>4, <1>5 DEF Kinds, First

LEMMA CrashOwnKeeps ==
  ASSUME AllInv, NEW p \in Procs, Crash(p)
  PROVE  CommandInv(p)' /\ at'[p] # "done"
<1>1. CommandsInv /\ ShapeInv /\ CommandInv(p) /\ TypeOK /\ PlacesInv
  BY DEF AllInv, ProcessesInv, CommandsInv
<1>2. at'[p] = "dead" /\ UNCHANGED <<world, made, ready>>
  BY <1>1 DEF Crash, Goto, TypeOK, vmVars
<1>3. /\ Kind(p)' = Kind(p) /\ Makes(p)' = Makes(p) /\ ConfigsOf(p)' = ConfigsOf(p)
      /\ \A d : Fits(d)' = Fits(d)
  BY <1>2, WorldStays
<1>4. Preflighted(p)'
  BY <1>1, <1>2, <1>3 DEF CommandInv, Preflighted, Behind
<1>5. "dead" \notin IsoPlaces \cup DOMAIN Behind
  BY DEF IsoPlaces, Behind
<1>6. MadeSoFar(p)'
  BY <1>1, <1>2, <1>3 DEF CommandInv, MadeSoFar
<1> QED BY <1>2, <1>3, <1>4, <1>5, <1>6
        DEF CommandInv, OnRoute, Looked, LookedFor, Listed, IsoSoFar, ProvisionSoFar, AProvisionSoFar,
            DeprovisionSoFar, ADeprovisionSoFar

\* Only the step after a create, or the create itself, leaves a command about to
\* clean up or to start.
LEMMA ApartSteps ==
  ASSUME AllInv, NEW p \in Procs, Step(p), at'[p] \in {"clean", "start"}
  PROVE  \/ at[p] \in {"clean", "start"} /\ target'[p] = target[p]
         \/ vm[target'[p]] = NoVm
<1>1. CommandsInv /\ TypeOK /\ PlacesInv /\ ShapeInv
  BY DEF AllInv, CommandsInv
<1>2. CASE Begin(p)
  <2>1. at'[p] = First[Kind(p)] /\ Kind(p) \in Kinds \ {"none"}
    BY <1>1, <1>2 DEF Begin, Goto, TypeOK, PlacesInv
  <2> QED BY <2>1 DEF First, Kinds
<1>3. CASE Crash(p)
  BY <1>1, <1>3 DEF Crash, Goto, TypeOK
<1>4. CASE HostStep(p)
  BY <1>4 DEF HostStep, Download, vmVars
<1>5. CASE IsoStep(p) /\ UNCHANGED vmVars
  <2>1. at'[p] \in IsoPlaces \cup {"done"}
    BY <1>1, <1>5, IsoSteps DEF IsoEffect
  <2> QED BY <2>1 DEF IsoPlaces
<1>6. CASE Create(p)
  BY <1>6 DEF Create
<1>7. CASE CleanUp(p) \/ CleanUpFails(p) \/ Start(p) \/ StartFails(p)
  BY <1>7, FinishKeeps
<1>8. CASE \/ \E check \in Checks : Check(p, check)
           \/ NoIdGiven(p) \/ CreateFails(p) \/ List(p) \/ Destroy(p) \/ DestroyFails(p)
           \/ Allocate(p) \/ Exists(p) \/ ReadId(p) \/ Prompt(p)
  <2>1. ASSUME NEW ok, ConfigDone(p, ok), at[p] \in ConfigPlaces
        PROVE  FALSE
    <3>1. Kind(p) \in VmKinds
      BY <1>1, <2>1 DEF PlacesInv, VmKinds, Kinds, First
    <3>2. at'[p] \in {"done", Again[Kind(p)]}
      BY <1>1, <2>1 DEF ConfigDone, Goto, TypeOK
    <3> QED BY <3>1, <3>2 DEF VmKinds, Again, First
  <2>2. ASSUME NEW s, Goto(p, s), s \notin {"clean", "start"}
        PROVE  FALSE
    BY <1>1, <2>2 DEF Goto, TypeOK
  <2>3. ASSUME NEW check \in Checks, Check(p, check)
        PROVE  FALSE
    <3>1. PICK holds \in BOOLEAN : Checked(p, check, holds)
      BY <2>3 DEF Check, Holds
    <3>2. at[p] \in ConfigPlaces
      BY <2>3 DEF Check, Checks, ConfigPlaces
    <3>3. After(check, holds) \notin {"clean", "start"}
      BY DEF After, Following, Checks
    <3> QED BY <2>1, <2>2, <3>1, <3>2, <3>3 DEF Checked
  <2>4. CASE NoIdGiven(p) \/ CreateFails(p) \/ DestroyFails(p)
    BY <2>1, <2>4 DEF NoIdGiven, CreateFails, DestroyFails, ConfigPlaces
  <2>5. CASE List(p) \/ Destroy(p)
    BY <2>1, <2>2, <2>5 DEF List, Destroy, Destroyed, End, ConfigPlaces
  <2>6. CASE Allocate(p) \/ Exists(p) \/ ReadId(p) \/ Prompt(p)
    BY <2>2, <2>6 DEF Allocate, Exists, ReadId, Prompt, End
  <2> QED BY <1>8, <2>3, <2>4, <2>5, <2>6
<1> QED BY <1>2, <1>3, <1>4, <1>5, <1>6, <1>7, <1>8 DEF Step, CommandStep

\* What is ready is changed by the one that provisions.
LEMMA ReadyShape ==
  ASSUME ShapeInv, NEW p \in Procs, Step(p)
  PROVE  ready' = [q \in Procs |-> ready'[q]]
<1>1. CASE UNCHANGED vmVars \/ ready' = ready
  BY <1>1 DEF vmVars, ShapeInv
<1>2. CASE Provisioned(p)
  BY <1>2 DEF Provisioned, ShapeInv
<1> QED BY <1>1, <1>2
        DEF Step, CommandStep, Begin, HostStep, Crash, Check, Allocate, NoIdGiven, Create, CreateFails,
            CleanUp, CleanUpFails, Start, StartFails, Exists, ReadId, Prompt, List, Destroy, DestroyFails

-----------------------------------------------------------------------------
LEMMA AllInitially == Init => AllInv
<1> SUFFICES ASSUME Init
             PROVE  AllInv
  OBVIOUS
<1>1. CommandsInv
  BY InitKeeps
<1>2. /\ world \in Worlds
      /\ at = [p \in Procs |-> "idle"]
      /\ report = [p \in Procs |-> [ok |-> TRUE, changed |-> FALSE, id |-> NoId]]
      /\ download = [p \in Procs |-> "none"]
      /\ vm = [v \in VmIds |-> IF v \in DOMAIN world.vm THEN world.vm[v] ELSE NoVm]
      /\ todo = [p \in Procs |-> world.cmd[p].configs]
      /\ made = [p \in Procs |-> {}]
      /\ ready = [p \in Procs |-> {}]
      /\ gone = [p \in Procs |-> {}]
  BY DEF Init
<1>3. ShapeInv
  BY <1>2 DEF ShapeInv
<1>4. TurnsInv /\ ApartInv
  BY <1>2 DEF TurnsInv, ApartInv, Active
<1>5. /\ \A v \in VmIds : /\ v \in DOMAIN world.vm => vm[v] = world.vm[v]
                          /\ v \notin DOMAIN world.vm => vm[v] = NoVm
      /\ \A v \in DOMAIN world.vm : world.vm[v].name # NoName
      /\ NoVm.name = NoName
  BY <1>2, CommandsAssumption DEF NoVm
<1>6. NamesInv
  BY <1>2, <1>5 DEF NamesInv, PinnedTo
<1>7. OneVmPerName
  BY <1>5 DEF OneVmPerName, LooksFirst, Pinned, PinnedTo
<1>8. ReportIsTrue
  BY <1>2 DEF ReportIsTrue
<1>9. ASSUME NEW p \in Procs
      PROVE  CommandInv(p)
  <2>1. /\ at[p] = "idle" /\ Untouched(p) /\ download[p] = "none" /\ made[p] = {} /\ gone[p] = {}
        /\ ready[p] = {}
        /\ todo[p] = Batch(p)
    BY <1>2 DEF Untouched, Batch, Command
  <2>2. Batch(p) \in Seq(Configs)
    BY <1>2, CommandsAssumption DEF Batch, Command
  <2>3. Len(Batch(p)) \in Nat
    BY <2>2, LenProperties
  <2>4. Through(p) = 0 /\ Len(todo[p]) <= Len(Batch(p))
    BY <2>1, <2>3 DEF Through
  <2>5. Over(p) = {} /\ OverNames(p) = {}
    BY <2>4 DEF Over, OverNames
  <2>6. \A i \in 1..Len(todo[p]) : todo[p][i] = Batch(p)[Through(p) + i]
    BY <2>1, <2>4
  <2>7. OnRoute(p)
    BY <2>1, <2>4, <2>6 DEF OnRoute
  <2>8. Preflighted(p)
    BY <2>1, <2>5 DEF Preflighted, Behind, Untouched
  <2>9. ProvisionSoFar(p)
    BY <2>1, <2>4, <2>5, FS_EmptySet DEF ProvisionSoFar, NamesOf, Untouched
  <2>10. DeprovisionSoFar(p)
    BY <2>1, <2>4, <2>5 DEF DeprovisionSoFar, NamesOf
  <2>11. Looked(p) /\ Listed(p) /\ AProvisionSoFar(p) /\ ADeprovisionSoFar(p) /\ IsoSoFar(p)
        /\ MadeSoFar(p)
    BY <2>1 DEF Looked, LookedFor, Listed, AProvisionSoFar, ADeprovisionSoFar, IsoSoFar, MadeSoFar,
                     Unfinished, Behind
  <2> QED BY <2>7, <2>8, <2>9, <2>10, <2>11 DEF CommandInv
<1> QED BY <1>1, <1>3, <1>4, <1>6, <1>7, <1>8, <1>9 DEF AllInv, ProcessesInv

LEMMA AllKept == AllInv /\ [Next]_vars => AllInv'
<1> SUFFICES ASSUME AllInv, [Next]_vars
             PROVE  AllInv'
  OBVIOUS
<1>1. CommandsInv'
  BY StepKeeps DEF AllInv
<1>2. CASE UNCHANGED vars
  <2>1. UNCHANGED <<world, at, report, tries, files, download, vm, todo, target, up, made, ready,
                 gone>>
    BY <1>2 DEF vars, isoVars, vmVars
  <2>2. ShapeInv' /\ TurnsInv' /\ ApartInv' /\ NamesInv' /\ OneVmPerName'
    BY <2>1, WorldStays
       DEF AllInv, ShapeInv, TurnsInv, ApartInv, Active, NamesInv, OneVmPerName
  <2>3. ASSUME NEW p \in Procs
        PROVE  CommandInv(p)' /\ (at'[p] = "done" => Told(p)')
    <3>1. CommandInv(p) /\ (at[p] = "done" => Told(p))
      BY DEF AllInv, ProcessesInv, ReportIsTrue
    <3>2. /\ Kind(p)' = Kind(p) /\ ConfigsOf(p)' = ConfigsOf(p) /\ Batch(p)' = Batch(p)
          /\ NothingElse(p)' = NothingElse(p) /\ Undisturbed(p)' = Undisturbed(p)
          /\ Taken(p)' = Taken(p) /\ Clustered' = Clustered
          /\ NothingFails(p)' = NothingFails(p)
          /\ \A q : Makes(q)' = Makes(q)
          /\ \A f : Fault(f)' = Fault(f)
          /\ \A c : Fits(c)' = Fits(c)
          /\ \A n : Pinned(n)' = Pinned(n)
          /\ \A h1, h2 : LooksFirst(h1, h2)' = LooksFirst(h1, h2)
          /\ \A c, e : Met(c, e)' = Met(c, e)
          /\ Config(p)' = Config(p) /\ Through(p)' = Through(p) /\ Over(p)' = Over(p)
          /\ OverNames(p)' = OverNames(p)
      BY <2>1, WorldStays, BatchStays, MetStays
    <3>3. OnRoute(p)' /\ Preflighted(p)' /\ Looked(p)' /\ Listed(p)'
      BY <2>1, <3>1, <3>2
         DEF CommandInv, OnRoute, Preflighted, Looked, LookedFor, Named, Listed, AtTarget
    <3>4. /\ ProvisionSoFar(p)' /\ DeprovisionSoFar(p)' /\ AProvisionSoFar(p)'
          /\ ADeprovisionSoFar(p)' /\ IsoSoFar(p)' /\ MadeSoFar(p)'
      BY <2>1, <3>1, <3>2
         DEF CommandInv, ProvisionSoFar, DeprovisionSoFar, AProvisionSoFar, ADeprovisionSoFar, IsoSoFar,
             MadeSoFar, Unfinished, Untouched, AtTarget
    <3>5. at'[p] = "done" => Told(p)'
      BY <2>1, <3>1, <3>2 DEF Told
    <3> QED BY <3>3, <3>4, <3>5 DEF CommandInv
  <2> QED BY <1>1, <2>2, <2>3 DEF AllInv, ProcessesInv, ReportIsTrue
<1>3. ASSUME NEW p \in Procs, Step(p)
      PROVE  AllInv'
  <2>1. OnRoute(p) /\ CommandsInv /\ ShapeInv
    BY DEF AllInv, ProcessesInv, CommandInv
  <2>2. Own(p)
    BY <1>3, <2>1, StepIsOwn
  <2>3. CommandInv(p)' /\ (at'[p] = "done" => Told(p)')
    <3>1. CASE Begin(p)
      BY <3>1, BeginOwnKeeps
    <3>2. CASE Crash(p)
      BY <3>2, CrashOwnKeeps
    <3>3. CASE HostStep(p)
      BY <3>3, HostOwnKeeps
    <3>4. CASE IsoStep(p) /\ UNCHANGED vmVars
      BY <3>4, IsoOwnKeeps
    <3>5. CASE \E check \in Checks : Check(p, check)
      BY <3>5, CheckKeeps
    <3>6. CASE Allocate(p) \/ NoIdGiven(p)
      BY <3>6, AllocateKeeps
    <3>7. CASE Create(p) \/ CreateFails(p)
      BY <3>7, CreateKeeps
    <3>8. CASE Exists(p) \/ ReadId(p)
      BY <3>8, ExistsKeeps, ReadIdKeeps
    <3>9. CASE Prompt(p) \/ List(p)
      BY <3>9, PromptKeeps, ListKeeps
    <3>10. CASE Destroy(p) \/ DestroyFails(p)
      BY <3>10, DestroyKeeps
    <3>11. CASE CleanUp(p) \/ CleanUpFails(p) \/ Start(p) \/ StartFails(p)
      BY <3>11, FinishKeeps
    <3> QED BY <1>3, <3>1, <3>2, <3>3, <3>4, <3>5, <3>6, <3>7, <3>8, <3>9, <3>10, <3>11
            DEF Step, CommandStep
  <2>4. \A q \in Procs : CommandInv(q)' /\ (at'[q] = "done" => Told(q)')
    BY <2>2, <2>3, OthersKeep
  <2>5. ShapeInv'
    <3>1. ready' = [q \in Procs |-> ready'[q]]
      BY <1>3, <2>1, ReadyShape
    <3> QED BY <2>1, <2>2, <3>1 DEF Own, ShapeInv, MakesVm, DeletesVm
  <2>6. TurnsInv'
    BY <1>3, <2>2, TurnsKeep
  <2>7. NamesInv'
    BY <2>2, NamesKeep
  <2>8. OneVmPerName'
    BY <2>2, <2>7, OneVmKeeps
  <2>9. ApartInv'
    BY <1>3, <2>2, ApartSteps, ApartKeep
  <2> QED BY <1>1, <2>4, <2>5, <2>6, <2>7, <2>8, <2>9 DEF AllInv, ProcessesInv, ReportIsTrue
<1> QED BY <1>2, <1>3 DEF Next, Step

THEOREM AllInductive == Spec => []AllInv
<1>1. Init => AllInv
  BY AllInitially
<1>2. AllInv /\ [Next]_vars => AllInv'
  BY AllKept
<1> QED BY <1>1, <1>2, PTL DEF Spec

(* Nothing is made on a host that does not pass every check for the config it is
   made for, by any number of commands at once; and what validate says, with
   nothing else going on, is whether the hosts pass for all of its configs. *)
THEOREM Preflights == Spec => []PreflightIsExact
<1>1. AllInv => PreflightIsExact
  <2> SUFFICES ASSUME AllInv, NEW p \in Procs
               PROVE  /\ \A m \in made[p] : \E c \in ConfigsOf(p) : c.name = m[1] /\ Fits(c)
                      /\ Kind(p) = "validate" /\ at[p] = "done" /\ NothingElse(p)
                           => (report[p].ok <=> \A c \in ConfigsOf(p) :
                                /\ Fits(c) /\ ValidateIso(files, Iso)
                                /\ Clustered /\ c.name # NoName => NameUnused(vm, c.name))
    BY DEF PreflightIsExact
  <2>1. OnRoute(p) /\ Preflighted(p)
    BY DEF AllInv, ProcessesInv, CommandInv
  <2>2. ASSUME Kind(p) = "validate", at[p] = "done", NothingElse(p)
        PROVE  report[p].ok <=> \A c \in ConfigsOf(p) : \A check \in Checks : Met(c, check)
    <3>1. Over(p) = ConfigsOf(p)
      BY <2>1, <2>2 DEF OnRoute, Route
    <3>2. "done" \notin DOMAIN Behind
      BY DEF Behind
    <3> QED BY <2>1, <2>2, <3>1, <3>2 DEF Preflighted
  <2>3. \A c : (\A check \in Checks : Met(c, check))
                 <=> /\ Fits(c) /\ ValidateIso(files, Iso)
                     /\ Clustered /\ c.name # NoName => NameUnused(vm, c.name)
    BY DEF Checks, Met, Fits
  <2> QED BY <2>1, <2>2, <2>3 DEF Preflighted
<1> QED BY <1>1, AllInductive, PTL

(* However many commands are run one after the other, each of them looking for the
   name before it makes a VM, there are never two of a name; nor, run in whatever
   way, where its id is the config's. *)
THEOREM OneVm == Spec => []OneVmPerName
<1>1. AllInv => OneVmPerName
  BY DEF AllInv
<1> QED BY <1>1, AllInductive, PTL

(* What each kind of command tells is what it did, for batches of any length, and
   whatever other commands do meanwhile, unless they can give a listed id again. *)
THEOREM ReportsTruly == Spec => []ReportIsTrue
<1>1. AllInv => ReportIsTrue
  BY DEF AllInv
<1> QED BY <1>1, AllInductive, PTL

=============================================================================
