------------------------ MODULE HypervisorStoreProofs ------------------------
(***************************************************************************)
(* HypervisorStore, for any number of processes, hypervisors and           *)
(* references and under every fault.                                       *)
(***************************************************************************)
EXTENDS HypervisorStore, TLAPS

\* What a step of a process does to the stores: an entry is one that was
\* there, has no reference, or has one that was just made for it; a
\* reference that was made keeps its credential or loses it.
Effect(p) ==
  /\ TypeOK'
  /\ used \subseteq used'
  /\ \A u \in used : keyring'[u] \in {keyring[u], NoHyper}
  /\ file' \in {file, mem[p], {}}
  /\ \A q \in Procs \ {p} : mem'[q] = mem[q] /\ phase'[q] = phase[q] /\ adding'[q] = adding[q]
  /\ \A e \in mem'[p] :
       \/ e.cred \notin Uuids
       \/ e.cred \in used' /\ keyring'[e.cred] = e.hyper
       \/ \E f \in mem[p] \cup file : f.cred = e.cred /\ f.hyper = e.hyper
  /\ phase'[p] = "add" => adding'[p] \in Hypers

LEMMA Kept ==
  ASSUME StoreInv, NEW p \in Procs, Effect(p)
  PROVE  StoreInv'
<1>1. ASSUME NEW e \in Entries, NEW f \in Entries, RefersTo(f), f.cred = e.cred, f.hyper = e.hyper
      PROVE  RefersTo(e)'
  BY <1>1 DEF Effect, RefersTo
<1>2. \A q \in Procs : mem[q] \subseteq Entries /\ mem'[q] \subseteq Entries
  BY DEF Effect, StoreInv, TypeOK
<1>3. file \subseteq Entries /\ file' \subseteq Entries
  BY DEF Effect, StoreInv, TypeOK
<1>4. \A e \in file' : RefersTo(e)'
  BY <1>1, <1>2, <1>3 DEF Effect, StoreInv
<1>5. ASSUME NEW q \in Procs, NEW e \in mem'[q] PROVE RefersTo(e)'
  <2>1. CASE q = p
    <3>1. CASE e.cred \notin Uuids
      BY <3>1 DEF RefersTo
    <3>2. CASE e.cred \in used' /\ keyring'[e.cred] = e.hyper
      BY <3>2 DEF RefersTo
    <3>3. CASE \E f \in mem[p] \cup file : f.cred = e.cred /\ f.hyper = e.hyper
      BY <1>1, <1>2, <1>3, <1>5, <2>1, <3>3 DEF StoreInv
    <3> QED BY <1>5, <2>1, <3>1, <3>2, <3>3 DEF Effect
  <2>2. CASE q # p
    BY <1>1, <1>2, <1>5, <2>2 DEF Effect, StoreInv
  <2> QED BY <2>1, <2>2
<1> QED BY <1>4, <1>5 DEF Effect, StoreInv

LEMMA ForgetKeeps ==
  ASSUME TypeOK, NEW p \in Procs, NEW e \in mem[p], Forget(p, e)
  PROVE  /\ mem' \in [Procs -> SUBSET Entries] /\ mem'[p] \subseteq mem[p]
         /\ \A q \in Procs \ {p} : mem'[q] = mem[q]
         /\ keyring' \in [Uuids -> Hypers \cup {NoHyper}]
         /\ \A u \in Uuids : keyring'[u] \in {keyring[u], NoHyper}
BY DEF Forget, TypeOK

LEMMA ReturnKeeps ==
  ASSUME TypeOK, NEW p \in Procs, NEW answer \in BOOLEAN, Return(p, answer), answer => adding[p] \in Hypers
  PROVE  /\ phase' \in [Procs -> {"off", "ready", "add", "write"}] /\ phase'[p] = "ready"
         /\ adding' \in [Procs -> Hypers \cup {NoHyper}]
         /\ told' \in SUBSET Hypers
         /\ \A q \in Procs \ {p} : phase'[q] = phase[q] /\ adding'[q] = adding[q]
BY DEF Return, Goto, TypeOK

LEMMA ListSteps ==
  ASSUME StoreInv, NEW p \in Procs,
         \/ Start(p) \/ Exit(p) \/ Torn(p) \/ SetPage(p) \/ Write(p) \/ AlreadyThere(p)
         \/ \E h \in Hypers : Add(p, h)
  PROVE  Effect(p)
<1> USE DEF Effect
<1> TypeOK
  BY DEF StoreInv
<1>1. CASE Start(p)
  <2>1. PICK read \in {file, {}} : mem' = [mem EXCEPT ![p] = read]
    BY <1>1 DEF Start
  <2> QED BY <1>1, <2>1 DEF Start, Goto, TypeOK
<1>2. CASE Exit(p)
  BY <1>2 DEF Exit, Goto, TypeOK
<1>3. CASE Torn(p)
  BY <1>3 DEF Torn, Goto, TypeOK
<1>4. CASE SetPage(p)
  BY <1>4 DEF SetPage, Goto, TypeOK
<1>5. CASE Write(p)
  <2>1. CASE adding[p] = NoHyper
    BY <1>5, <2>1 DEF Write, Goto, TypeOK
  <2>2. CASE adding[p] # NoHyper
    <3>1. Return(p, TRUE) /\ adding[p] \in Hypers
      BY <1>5, <2>2 DEF Write, TypeOK
    <3> QED BY <1>5, <3>1, ReturnKeeps DEF Write, TypeOK
  <2> QED BY <2>1, <2>2
<1>6. CASE AlreadyThere(p)
  <2>1. Return(p, TRUE) /\ adding[p] \in Hypers
    BY <1>6 DEF AlreadyThere, StoreInv
  <2> QED BY <1>6, <2>1, ReturnKeeps DEF AlreadyThere, TypeOK
<1>7. ASSUME NEW h \in Hypers, Add(p, h) PROVE Effect(p)
  BY <1>7 DEF Add, Goto, TypeOK
<1> QED BY <1>1, <1>2, <1>3, <1>4, <1>5, <1>6, <1>7

LEMMA EntrySteps ==
  ASSUME StoreInv, NEW p \in Procs,
         \/ Stored(p) \/ NotStored(p) \/ Backfill(p)
         \/ \E e \in mem[p] : Remove(p, e) \/ \E h \in Hypers : Update(p, e, h)
  PROVE  Effect(p)
<1> USE DEF Effect
<1> TypeOK
  BY DEF StoreInv
<1>1. CASE Stored(p)
  <2>1. adding[p] \in Hypers
    BY <1>1 DEF Stored, StoreInv
  <2>2. PICK cred \in Uuids \cup {Plain} :
          /\ mem' = [mem EXCEPT ![p] = @ \cup {New(adding[p], cred)}]
          /\ IF UseKeyring
             THEN /\ keyring' = [keyring EXCEPT ![cred] = adding[p]] /\ used' = used \cup {cred}
                  /\ cred \in Uuids \ used
             ELSE UNCHANGED <<keyring, used>> /\ cred = Plain
    BY <1>1 DEF Stored, Fresh
  <2>3. New(adding[p], cred) \in Entries /\ New(adding[p], cred).cred = cred
        /\ New(adding[p], cred).hyper = adding[p]
    BY <2>1, StoreAssumption DEF New, Entries
  <2>4. mem' \in [Procs -> SUBSET Entries] /\ mem'[p] = mem[p] \cup {New(adding[p], cred)}
    BY <2>2, <2>3 DEF TypeOK
  <2>5. CASE UseKeyring
    BY <1>1, <2>1, <2>2, <2>3, <2>4, <2>5 DEF Stored, Goto, TypeOK
  <2>6. CASE ~UseKeyring
    BY <1>1, <2>1, <2>2, <2>3, <2>4, <2>6, StoreAssumption DEF Stored, Goto, TypeOK
  <2> QED BY <2>5, <2>6
<1>2. CASE NotStored(p)
  <2>1. adding[p] \in Hypers /\ Return(p, FALSE)
    BY <1>2 DEF NotStored, StoreInv
  <2>2. New(adding[p], Plain) \in Entries /\ New(adding[p], Plain).cred = Plain
    BY <2>1, StoreAssumption DEF New, Entries
  <2>3. mem' \in [Procs -> SUBSET Entries] /\ mem'[p] = mem[p] \cup {New(adding[p], Plain)}
    BY <1>2, <2>2 DEF NotStored, TypeOK
  <2> QED BY <1>2, <2>1, <2>2, <2>3, ReturnKeeps, StoreAssumption DEF NotStored, TypeOK
<1>3. CASE Backfill(p)
  <2>1. PICK answered \in SUBSET mem[p] :
          mem' = [mem EXCEPT ![p] = (@ \ answered) \cup {[e EXCEPT !.named = TRUE] : e \in answered}]
    BY <1>3 DEF Backfill
  <2>2. \A e \in Entries : /\ [e EXCEPT !.named = TRUE] \in Entries
                           /\ [e EXCEPT !.named = TRUE].cred = e.cred
                           /\ [e EXCEPT !.named = TRUE].hyper = e.hyper
    BY DEF Entries
  <2>3. mem[p] \subseteq Entries
    BY DEF TypeOK
  <2>4. mem'[p] = (mem[p] \ answered) \cup {[e EXCEPT !.named = TRUE] : e \in answered}
    BY <2>1 DEF TypeOK
  <2>5. \A e \in mem'[p] : e \in Entries /\ \E f \in mem[p] : f.cred = e.cred /\ f.hyper = e.hyper
    BY <2>2, <2>3, <2>4
  <2>6. mem' \in [Procs -> SUBSET Entries]
    BY <2>1, <2>4, <2>5 DEF TypeOK
  <2> QED BY <1>3, <2>1, <2>5, <2>6 DEF Backfill, Goto, TypeOK
<1>4. ASSUME NEW e \in mem[p], Remove(p, e) PROVE Effect(p)
  BY <1>4, ForgetKeeps DEF Remove, TypeOK
<1>5. ASSUME NEW e \in mem[p], NEW h \in Hypers, Update(p, e, h) PROVE Effect(p)
  BY <1>5, ForgetKeeps DEF Update, Goto, TypeOK
<1> QED BY <1>1, <1>2, <1>3, <1>4, <1>5

\* Every reference in a list or in the file was made for the hypervisor of its
\* entry, whichever processes crash, lose updates or tear the file.
THEOREM Inductive == Spec => []StoreInv
<1>1. Init => StoreInv
  BY DEF Init, StoreInv, TypeOK
<1>2. StoreInv /\ [Next]_vars => StoreInv'
  <2> SUFFICES ASSUME StoreInv, [Next]_vars PROVE StoreInv'
    OBVIOUS
  <2>1. CASE UNCHANGED vars
    BY <2>1 DEF vars, StoreInv, TypeOK, RefersTo
  <2>2. CASE Next
    BY <2>2, Kept, ListSteps, EntrySteps DEF Next
  <2> QED BY <2>1, <2>2
<1> QED BY <1>1, <1>2, PTL DEF Spec

\* No process ever finds another hypervisor's credential behind an entry.
THEOREM NoMixUp == Spec => []NeverAnothersSecret
<1>1. StoreInv => NeverAnothersSecret
  BY DEF StoreInv, RefersTo, NeverAnothersSecret, Credential
<1> QED BY <1>1, Inductive, PTL

\* The type invariant.
THEOREM TypeCorrect == Spec => []TypeOK
<1>1. StoreInv => TypeOK
  BY DEF StoreInv
<1> QED BY <1>1, Inductive, PTL
LEMMA StepKept ==
  ASSUME StoreInv, KeptInv, NEW p \in Procs,
         \/ Start(p) \/ Exit(p) \/ Torn(p)
         \/ AlreadyThere(p) \/ Stored(p) \/ NotStored(p) \/ Write(p)
         \/ SetPage(p) \/ Backfill(p)
         \/ \E h \in Hypers : Add(p, h)
         \/ \E e \in mem[p] : Remove(p, e) \/ \E h \in Hypers : Update(p, e, h)
  PROVE  KeptInv'
<1> SUFFICES ASSUME "keyring" \notin faults'
             PROVE  /\ \A e \in file' : WellKept(e)
                    /\ \A q \in Procs : \A e \in mem'[q] : WellKept(e)
  BY DEF KeptInv
<1> TypeOK
  BY DEF StoreInv
<1>f. faults' = faults
  BY DEF Start, Exit, Torn, AlreadyThere, Stored, NotStored, Write, SetPage, Backfill, Add, Remove, Update
<1>c. /\ \A e \in file : WellKept(e)
      /\ \A q \in Procs : \A e \in mem[q] : WellKept(e)
  BY <1>f DEF KeptInv
<1>k. ASSUME mem' \in [Procs -> SUBSET Entries], file' \in {file, mem[p], {}},
             \A q \in Procs \ {p} : mem'[q] = mem[q],
             \A e \in mem'[p] : WellKept(e)
      PROVE  /\ \A e \in file' : WellKept(e)
             /\ \A q \in Procs : \A e \in mem'[q] : WellKept(e)
  <2>1. \A e \in file' : WellKept(e)
    BY <1>k, <1>c
  <2>2. \A q \in Procs : \A e \in mem'[q] : WellKept(e)
    BY <1>k, <1>c
  <2> QED BY <2>1, <2>2
<1>1. CASE Start(p)
  <2>1. PICK read \in {file, {}} : mem' = [mem EXCEPT ![p] = read]
    BY <1>1 DEF Start
  <2> QED BY <1>1, <2>1, <1>c, <1>k DEF Start, TypeOK
<1>2. CASE Exit(p) \/ Torn(p)
  BY <1>2, <1>c, <1>k DEF Exit, Torn, TypeOK
<1>3. CASE SetPage(p) \/ Write(p) \/ AlreadyThere(p) \/ \E h \in Hypers : Add(p, h)
  BY <1>3, <1>c, <1>k DEF SetPage, Write, AlreadyThere, Add, TypeOK
<1>4. CASE Stored(p)
  <2>1. PICK cred \in IF UseKeyring THEN Uuids ELSE {Plain} :
          mem' = [mem EXCEPT ![p] = @ \cup {New(adding[p], cred)}]
    BY <1>4 DEF Stored, Fresh
  <2>2. WellKept(New(adding[p], cred)) /\ New(adding[p], cred) \in Entries
    BY <1>4, StoreAssumption DEF New, Entries, StoreInv, Stored, WellKept
  <2> QED BY <1>4, <2>1, <2>2, <1>c, <1>k DEF Stored, TypeOK
<1>5. CASE NotStored(p)
  BY <1>5, <1>f DEF NotStored
<1>6. CASE Backfill(p)
  <2>1. PICK answered \in SUBSET mem[p] :
          mem' = [mem EXCEPT ![p] = (@ \ answered) \cup {[e EXCEPT !.named = TRUE] : e \in answered}]
    BY <1>6 DEF Backfill
  <2>2. \A e \in Entries : /\ [e EXCEPT !.named = TRUE] \in Entries
                           /\ (WellKept(e) => WellKept([e EXCEPT !.named = TRUE]))
    BY DEF Entries, WellKept
  <2>3. mem[p] \subseteq Entries
    BY DEF TypeOK
  <2>4. mem'[p] = (mem[p] \ answered) \cup {[e EXCEPT !.named = TRUE] : e \in answered}
    BY <2>1 DEF TypeOK
  <2>5. ASSUME NEW e \in mem'[p] PROVE e \in Entries /\ WellKept(e)
    <3>1. CASE e \in mem[p]
      BY <3>1, <2>3, <1>c
    <3>2. CASE e \notin mem[p]
      <4>1. PICK f \in answered : e = [f EXCEPT !.named = TRUE]
        BY <2>4, <2>5, <3>2
      <4>2. f \in mem[p] /\ f \in Entries
        BY <2>3
      <4> QED BY <4>1, <4>2, <2>2, <1>c
    <3> QED BY <3>1, <3>2
  <2>6. mem' \in [Procs -> SUBSET Entries]
    BY <2>1, <2>4, <2>5 DEF TypeOK
  <2> QED BY <1>6, <2>1, <2>5, <2>6, <1>c, <1>k DEF Backfill, TypeOK
<1>7. ASSUME NEW e \in mem[p], Remove(p, e) \/ \E h \in Hypers : Update(p, e, h)
      PROVE  /\ \A f \in file' : WellKept(f)
             /\ \A q \in Procs : \A f \in mem'[q] : WellKept(f)
  BY <1>7, <1>c, <1>k, ForgetKeeps DEF Remove, Update
<1> QED BY <1>1, <1>2, <1>3, <1>4, <1>5, <1>6, <1>7

\* Unless the keyring refuses a credential, it is where use_keyring says.
THEOREM KeptInductive == Spec => []KeptInv
<1>1. Init => KeptInv
  BY DEF Init, KeptInv
<1>2. StoreInv /\ KeptInv /\ [Next]_vars => KeptInv'
  <2> SUFFICES ASSUME StoreInv, KeptInv, [Next]_vars PROVE KeptInv'
    OBVIOUS
  <2>1. CASE UNCHANGED vars
    BY <2>1 DEF vars, KeptInv, WellKept
  <2>2. CASE Next
    BY <2>2, StepKept DEF Next
  <2> QED BY <2>1, <2>2
<1> QED BY <1>1, <1>2, Inductive, PTL DEF Spec

\* While the keyring takes every credential, none is ever in the clear on disk,
\* whoever crashes and writes over whom.
THEOREM OffDisk == Spec => []TakenSecretStaysOffDisk
<1>1. KeptInv => TakenSecretStaysOffDisk
  BY DEF KeptInv, WellKept, TakenSecretStaysOffDisk
<1> QED BY <1>1, KeptInductive, PTL

LEMMA StepSolo ==
  ASSUME StoreInv, SoloInv, Next
  PROVE  SoloInv'
<1> SUFFICES ASSUME "race" \notin faults'
             PROVE  /\ \A p, q \in Procs : phase'[p] # "off" /\ phase'[q] # "off" => p = q
                    /\ \A p \in Procs : phase'[p] \in {"off", "ready"} => adding'[p] = NoHyper
  BY DEF SoloInv
<1> TypeOK
  BY DEF StoreInv
<1>1. PICK p \in Procs :
        \/ Start(p) \/ Exit(p) \/ Torn(p)
        \/ AlreadyThere(p) \/ Stored(p) \/ NotStored(p) \/ Write(p)
        \/ SetPage(p) \/ Backfill(p)
        \/ \E h \in Hypers : Add(p, h)
        \/ \E e \in mem[p] : Remove(p, e) \/ \E h \in Hypers : Update(p, e, h)
  BY DEF Next
<1>2. faults' = faults
  BY <1>1 DEF Start, Exit, Torn, AlreadyThere, Stored, NotStored, Write, SetPage, Backfill, Add, Remove, Update
<1>3. /\ \A q, r \in Procs : phase[q] # "off" /\ phase[r] # "off" => q = r
      /\ \A q \in Procs : phase[q] \in {"off", "ready"} => adding[q] = NoHyper
  BY <1>2 DEF SoloInv
<1>4. ASSUME phase[p] # "off" \/ \A q \in Procs : phase[q] = "off",
             \A q \in Procs \ {p} : phase'[q] = phase[q] /\ adding'[q] = adding[q],
             phase'[p] \in {"off", "ready"} => adding'[p] = NoHyper
      PROVE  /\ \A q, r \in Procs : phase'[q] # "off" /\ phase'[r] # "off" => q = r
             /\ \A q \in Procs : phase'[q] \in {"off", "ready"} => adding'[q] = NoHyper
  BY <1>3, <1>4
<1>5. CASE Start(p) \/ Exit(p) \/ Torn(p)
  BY <1>5, <1>2, <1>3, <1>4 DEF Start, Exit, Torn, Goto, TypeOK
<1>6. CASE AlreadyThere(p) \/ NotStored(p)
  BY <1>6, <1>3, <1>4 DEF AlreadyThere, NotStored, Return, Goto, TypeOK
<1>7. CASE Write(p)
  BY <1>7, <1>3, <1>4 DEF Write, Return, Goto, TypeOK
<1>8. CASE Stored(p) \/ SetPage(p) \/ Backfill(p) \/ \E h \in Hypers : Add(p, h)
  BY <1>8, <1>3, <1>4 DEF Stored, SetPage, Backfill, Add, Goto, TypeOK
<1>9. CASE \E e \in mem[p] : Remove(p, e) \/ \E h \in Hypers : Update(p, e, h)
  BY <1>9, <1>3, <1>4 DEF Remove, Update, Goto, TypeOK
<1> QED BY <1>1, <1>5, <1>6, <1>7, <1>8, <1>9

\* Processes that are not started while another runs take turns.
THEOREM OneAtATime == Spec => []SoloInv
<1>1. Init => SoloInv
  BY DEF Init, SoloInv
<1>2. StoreInv /\ SoloInv /\ [Next]_vars => SoloInv'
  <2> SUFFICES ASSUME StoreInv, SoloInv, [Next]_vars PROVE SoloInv'
    OBVIOUS
  <2>1. CASE UNCHANGED vars
    BY <2>1 DEF vars, SoloInv
  <2>2. CASE Next
    BY <2>2, StepSolo
  <2> QED BY <2>1, <2>2
<1> QED BY <1>1, <1>2, Inductive, PTL DEF Spec

\* What has been added stays found while its entry is kept, up to its name, and
\* its credential is left alone.
LEMMA StaysFound ==
  ASSUME NEW list, NEW list2, NEW h, Found(list, h),
         \A e \in list : e.hyper = h /\ Credential(e) = h =>
           \E f \in list2 : /\ f.hyper = h /\ f.cred = e.cred /\ f.keychain = e.keychain
                            /\ e.cred \in Uuids => keyring'[e.cred] = keyring[e.cred]
  PROVE  \E f \in list2 : f.hyper = h /\ Credential(f)' = h
<1>1. PICK e \in list : e.hyper = h /\ Credential(e) = h
  BY DEF Found
<1>2. PICK f \in list2 : /\ f.hyper = h /\ f.cred = e.cred /\ f.keychain = e.keychain
                         /\ e.cred \in Uuids => keyring'[e.cred] = keyring[e.cred]
  BY <1>1
<1>3. Credential(f)' = h
  BY <1>1, <1>2 DEF Credential
<1> QED BY <1>2, <1>3

LEMMA StepAdded ==
  ASSUME StoreInv, KeptInv, SoloInv, AddedInv, Next
  PROVE  AddedInv'
<1> SUFFICES ASSUME faults' \subseteq {"crash"}
             PROVE  /\ \A h \in told' : Found(file, h)'
                    /\ \A q \in Procs :
                         /\ phase'[q] # "off" => \A h \in told' : Found(mem[q], h)'
                         /\ phase'[q] \in {"ready", "add"} => mem'[q] \subseteq file'
                         /\ phase'[q] = "write" /\ adding'[q] # NoHyper => Found(mem[q], adding[q])'
  BY DEF AddedInv
<1> TypeOK
  BY DEF StoreInv
<1>1. PICK p \in Procs :
        \/ Start(p) \/ Exit(p) \/ Torn(p)
        \/ AlreadyThere(p) \/ Stored(p) \/ NotStored(p) \/ Write(p)
        \/ SetPage(p) \/ Backfill(p)
        \/ \E h \in Hypers : Add(p, h)
        \/ \E e \in mem[p] : Remove(p, e) \/ \E h \in Hypers : Update(p, e, h)
  BY DEF Next
<1>2. faults' = faults
  BY <1>1 DEF Start, Exit, Torn, AlreadyThere, Stored, NotStored, Write, SetPage, Backfill, Add, Remove, Update
<1>3. "race" \notin faults /\ "torn" \notin faults /\ "keyring" \notin faults
  BY <1>2
<1>4. /\ \A h \in told : Found(file, h)
      /\ \A q \in Procs :
           /\ phase[q] # "off" => \A h \in told : Found(mem[q], h)
           /\ phase[q] \in {"ready", "add"} => mem[q] \subseteq file
           /\ phase[q] = "write" /\ adding[q] # NoHyper => Found(mem[q], adding[q])
  BY <1>2 DEF AddedInv
<1>5. /\ \A q \in Procs : phase[q] # "off" => q = p \/ phase[p] = "off"
      /\ \A q \in Procs : phase[q] \in {"off", "ready"} => adding[q] = NoHyper
  BY <1>3 DEF SoloInv
<1>6. /\ \A e \in file : WellKept(e) /\ RefersTo(e) /\ e \in Entries
      /\ \A q \in Procs : \A e \in mem[q] : WellKept(e) /\ RefersTo(e) /\ e \in Entries
  BY <1>3 DEF KeptInv, StoreInv, TypeOK
<1>7. ASSUME phase[p] # "off" \/ \A q \in Procs : phase[q] = "off",
             \A q \in Procs \ {p} : phase'[q] = phase[q],
             \A h \in told' : Found(file, h)',
             phase'[p] # "off" => \A h \in told' : Found(mem[p], h)',
             phase'[p] \in {"ready", "add"} => mem'[p] \subseteq file',
             phase'[p] = "write" /\ adding'[p] # NoHyper => Found(mem[p], adding[p])'
      PROVE  /\ \A h \in told' : Found(file, h)'
             /\ \A q \in Procs :
                  /\ phase'[q] # "off" => \A h \in told' : Found(mem[q], h)'
                  /\ phase'[q] \in {"ready", "add"} => mem'[q] \subseteq file'
                  /\ phase'[q] = "write" /\ adding'[q] # NoHyper => Found(mem[q], adding[q])'
  <2>1. \A q \in Procs \ {p} : phase'[q] = "off"
    BY <1>7, <1>5
  <2> QED BY <1>7, <2>1
<1>10. CASE Start(p)
  <2>1. \A q \in Procs : phase[q] = "off"
    BY <1>10, <1>3 DEF Start
  <2>2. mem' = [mem EXCEPT ![p] = file]
    BY <1>10, <2>1 DEF Start
  <2>3. /\ mem'[p] = file /\ file' = file /\ told' = told /\ keyring' = keyring
        /\ phase'[p] = "ready" /\ \A q \in Procs \ {p} : phase'[q] = phase[q]
    BY <1>10, <2>2 DEF Start, Goto, TypeOK
  <2>4. \A h \in told' : Found(file, h)' /\ Found(mem[p], h)'
    BY <2>3, <1>4 DEF Found, Credential
  <2> QED BY <2>1, <2>3, <2>4, <1>7
<1>11. CASE Exit(p)
  <2>1. /\ file' = file /\ told' = told /\ keyring' = keyring /\ phase[p] # "off"
        /\ phase'[p] = "off" /\ \A q \in Procs \ {p} : phase'[q] = phase[q]
    BY <1>11 DEF Exit, Goto, TypeOK
  <2>2. \A h \in told' : Found(file, h)'
    BY <2>1, <1>4 DEF Found, Credential
  <2> QED BY <2>1, <2>2, <1>7
<1>12. CASE Torn(p)
  BY <1>12, <1>3 DEF Torn
<1>13. CASE AlreadyThere(p)
  <2>1. /\ phase[p] = "add" /\ adding[p] \in Hypers /\ SameEntry(p, adding[p])
        /\ file' = file /\ mem' = mem /\ keyring' = keyring /\ told' = told \cup {adding[p]}
        /\ phase'[p] = "ready" /\ \A q \in Procs \ {p} : phase'[q] = phase[q]
    BY <1>13 DEF AlreadyThere, Return, Goto, StoreInv, TypeOK
  <2>2. PICK e \in mem[p] : e.hyper = adding[p] /\ e.cred = Plain
    BY <2>1 DEF SameEntry
  <2>3. Credential(e) = adding[p] /\ e \in file
    BY <2>1, <2>2, <1>4, <1>6, StoreAssumption DEF WellKept, Credential
  <2>4. Found(file, adding[p]) /\ Found(mem[p], adding[p])
    BY <2>2, <2>3 DEF Found
  <2>5. \A h \in told' : Found(file, h) /\ Found(mem[p], h)
    BY <2>1, <2>4, <1>4
  <2>6. \A h \in told' : Found(file, h)' /\ Found(mem[p], h)'
    BY <2>1, <2>5 DEF Found, Credential
  <2> QED BY <2>1, <2>6, <1>4, <1>7
<1>14. CASE Stored(p)
  <2>1. PICK cred \in IF UseKeyring THEN Fresh ELSE {Plain} :
          /\ mem' = [mem EXCEPT ![p] = @ \cup {New(adding[p], cred)}]
          /\ IF UseKeyring
             THEN keyring' = [keyring EXCEPT ![cred] = adding[p]]
             ELSE keyring' = keyring
    BY <1>14 DEF Stored
  <2>2. /\ phase[p] = "add" /\ adding[p] \in Hypers
        /\ file' = file /\ told' = told /\ adding' = adding
        /\ phase'[p] = "write" /\ \A q \in Procs \ {p} : phase'[q] = phase[q]
    BY <1>14 DEF Stored, Goto, StoreInv, TypeOK
  <2>3. mem'[p] = mem[p] \cup {New(adding[p], cred)}
    BY <2>1 DEF TypeOK
  <2>4. \A u \in used : keyring'[u] = keyring[u]
    BY <2>1 DEF Fresh, TypeOK
  <2>5. \A e \in file \cup mem[p] : e.cred \in Uuids => keyring'[e.cred] = keyring[e.cred]
    BY <2>4, <1>6 DEF RefersTo
  <2>6. \A h \in told : Found(file, h)'
    <3> SUFFICES ASSUME NEW h \in told PROVE \E f \in file' : f.hyper = h /\ Credential(f)' = h
      BY DEF Found
    <3>1. Found(file, h)
      BY <1>4
    <3>2. \A e \in file : e \in file' /\ (e.cred \in Uuids => keyring'[e.cred] = keyring[e.cred])
      BY <2>2, <2>5
    <3> QED BY <3>1, <3>2, StaysFound
  <2>7. \A h \in told : Found(mem[p], h)'
    <3> SUFFICES ASSUME NEW h \in told PROVE \E f \in mem'[p] : f.hyper = h /\ Credential(f)' = h
      BY DEF Found
    <3>1. Found(mem[p], h)
      BY <2>2, <1>4
    <3>2. \A e \in mem[p] : e \in mem'[p] /\ (e.cred \in Uuids => keyring'[e.cred] = keyring[e.cred])
      BY <2>3, <2>5
    <3> QED BY <3>1, <3>2, StaysFound
  <2>8. New(adding[p], cred).hyper = adding[p] /\ Credential(New(adding[p], cred))' = adding[p]
    BY <2>1, <2>2, StoreAssumption DEF New, Credential, Fresh, TypeOK
  <2>9. Found(mem[p], adding[p])'
    BY <2>2, <2>3, <2>8 DEF Found
  <2> QED BY <2>2, <2>6, <2>7, <2>9, <1>7
<1>15. CASE NotStored(p)
  BY <1>15, <1>3 DEF NotStored
<1>16. CASE Write(p)
  <2>1. /\ phase[p] = "write" /\ file' = mem[p] /\ mem' = mem /\ keyring' = keyring
        /\ told' \subseteq told \cup {adding[p]}
        /\ adding[p] = NoHyper => told' = told
        /\ phase'[p] = "ready" /\ \A q \in Procs \ {p} : phase'[q] = phase[q]
    BY <1>16 DEF Write, Return, Goto, TypeOK
  <2>2. \A h \in told' : Found(mem[p], h)
    BY <2>1, <1>4
  <2>3. \A h \in told' : Found(file, h)' /\ Found(mem[p], h)'
    BY <2>1, <2>2 DEF Found, Credential
  <2> QED BY <2>1, <2>3, <1>7
<1>17. CASE SetPage(p) \/ \E h \in Hypers : Add(p, h)
  <2>1. /\ phase[p] = "ready" /\ file' = file /\ mem' = mem /\ keyring' = keyring /\ told' = told
        /\ phase'[p] \in {"write", "add"} /\ \A q \in Procs \ {p} : phase'[q] = phase[q]
        /\ phase'[p] = "write" => adding'[p] = NoHyper
    BY <1>17, <1>5 DEF SetPage, Add, Goto, TypeOK
  <2>2. \A h \in told' : Found(file, h)' /\ Found(mem[p], h)'
    BY <2>1, <1>4 DEF Found, Credential
  <2> QED BY <2>1, <2>2, <1>4, <1>7
<1>18. CASE Backfill(p)
  <2>1. PICK answered \in SUBSET mem[p] :
          mem' = [mem EXCEPT ![p] = (@ \ answered) \cup {[e EXCEPT !.named = TRUE] : e \in answered}]
    BY <1>18 DEF Backfill
  <2>2. /\ phase[p] = "ready" /\ file' = file /\ keyring' = keyring /\ told' = told
        /\ phase'[p] = "write" /\ \A q \in Procs \ {p} : phase'[q] = phase[q]
        /\ adding'[p] = NoHyper
    BY <1>18, <1>5 DEF Backfill, Goto, TypeOK
  <2>3. mem'[p] = (mem[p] \ answered) \cup {[e EXCEPT !.named = TRUE] : e \in answered}
    BY <2>1 DEF TypeOK
  <2>4. \A e \in Entries : LET f == [e EXCEPT !.named = TRUE]
                           IN f.hyper = e.hyper /\ f.cred = e.cred /\ f.keychain = e.keychain
    BY DEF Entries
  <2>5. \A e \in mem[p] : \E f \in mem'[p] : f.hyper = e.hyper /\ f.cred = e.cred /\ f.keychain = e.keychain
    <3> SUFFICES ASSUME NEW e \in mem[p]
                 PROVE  \E f \in mem'[p] : f.hyper = e.hyper /\ f.cred = e.cred /\ f.keychain = e.keychain
      OBVIOUS
    <3>1. CASE e \in answered
      <4>1. [e EXCEPT !.named = TRUE] \in mem'[p]
        BY <2>3, <3>1
      <4> QED BY <4>1, <2>4, <1>6
    <3>2. CASE e \notin answered
      BY <3>2, <2>3
    <3> QED BY <3>1, <3>2
  <2>6. \A h \in told : Found(mem[p], h)'
    <3> SUFFICES ASSUME NEW h \in told PROVE \E f \in mem'[p] : f.hyper = h /\ Credential(f)' = h
      BY DEF Found
    <3>1. Found(mem[p], h)
      BY <2>2, <1>4
    <3> QED BY <2>2, <2>5, <3>1, StaysFound
  <2>7. \A h \in told : Found(file, h)'
    BY <2>2, <1>4 DEF Found, Credential
  <2> QED BY <2>2, <2>6, <2>7, <1>7
<1>19. ASSUME NEW e \in mem[p], Remove(p, e) \/ \E h \in Hypers : Update(p, e, h)
       PROVE  AddedInv'
  <2>1. /\ phase[p] = "ready" /\ file' = file /\ told' = told \ {e.hyper}
        /\ phase'[p] \in {"ready", "add"} /\ \A q \in Procs \ {p} : phase'[q] = phase[q]
        /\ Forget(p, e)
    BY <1>19 DEF Remove, Update, Goto, TypeOK
  <2>2. mem'[p] = mem[p] \ {e}
    BY <2>1 DEF Forget, TypeOK
  <2>3. \A u \in Uuids : u # e.cred => keyring'[u] = keyring[u]
    BY <2>1 DEF Forget, TypeOK
  <2>4. ASSUME NEW f \in file \cup mem[p], f.hyper # e.hyper, Credential(f) = f.hyper
        PROVE  f # e /\ (f.cred \in Uuids => keyring'[f.cred] = keyring[f.cred])
    <3>1. f.hyper \in Hypers /\ f.hyper # NoHyper
      BY <1>6, StoreAssumption DEF Entries
    <3>2. ASSUME f.cred \in Uuids PROVE f.cred # e.cred
      <4>1. keyring[f.cred] = f.hyper
        BY <2>4, <3>2, <1>6, StoreAssumption DEF Credential, WellKept
      <4> QED BY <4>1, <3>1, <3>2, <2>4, <1>6 DEF RefersTo
    <3> QED BY <2>4, <3>2, <2>3
  <2>5. ASSUME NEW h \in told'
        PROVE  /\ \E f \in file' : f.hyper = h /\ Credential(f)' = h
               /\ \E f \in mem'[p] : f.hyper = h /\ Credential(f)' = h
    <3>1. h \in told /\ h # e.hyper
      BY <2>1, <2>5
    <3>2. Found(file, h) /\ Found(mem[p], h)
      BY <3>1, <2>1, <1>4
    <3>3. \A f \in file : f.hyper = h /\ Credential(f) = h =>
            f \in file' /\ (f.cred \in Uuids => keyring'[f.cred] = keyring[f.cred])
      BY <3>1, <2>1, <2>4
    <3>4. \A f \in mem[p] : f.hyper = h /\ Credential(f) = h =>
            f \in mem'[p] /\ (f.cred \in Uuids => keyring'[f.cred] = keyring[f.cred])
      BY <3>1, <2>2, <2>4
    <3>5. \E f \in file' : f.hyper = h /\ Credential(f)' = h
      BY <3>2, <3>3, StaysFound
    <3>6. \E f \in mem'[p] : f.hyper = h /\ Credential(f)' = h
      BY <3>2, <3>4, StaysFound
    <3> QED BY <3>5, <3>6
  <2>6. \A h \in told' : Found(file, h)' /\ Found(mem[p], h)'
    BY <2>5 DEF Found
  <2> QED BY <2>1, <2>2, <2>6, <1>4, <1>7 DEF AddedInv
<1> QED BY <1>1, <1>10, <1>11, <1>12, <1>13, <1>14, <1>15, <1>16, <1>17, <1>18, <1>19 DEF AddedInv

\* What the user was told is added, and has not edited or removed since, is in
\* the file with its credential, although processes end between any two steps.
THEOREM Added == Spec => []AddedIsStored
<1>1. Init => AddedInv
  BY DEF Init, AddedInv
<1>2. StoreInv /\ KeptInv /\ SoloInv /\ AddedInv /\ [Next]_vars => AddedInv'
  <2> SUFFICES ASSUME StoreInv, KeptInv, SoloInv, AddedInv, [Next]_vars PROVE AddedInv'
    OBVIOUS
  <2>1. CASE UNCHANGED vars
    BY <2>1 DEF vars, AddedInv, Found, Credential
  <2>2. CASE Next
    BY <2>2, StepAdded
  <2> QED BY <2>1, <2>2
<1>3. AddedInv => AddedIsStored
  BY DEF AddedInv, AddedIsStored, Found
<1> QED BY <1>1, <1>2, <1>3, Inductive, KeptInductive, OneAtATime, PTL DEF Spec

LEMMA StepRef ==
  ASSUME StoreInv, KeptInv, SoloInv, RefInv, Next
  PROVE  RefInv'
<1> SUFFICES ASSUME faults' = {}
             PROVE  \A u \in Uuids : keyring'[u] # NoHyper =>
                      /\ \A q \in Procs : phase'[q] # "off" => HasRef(mem'[q], u)
                      /\ HasRef(file', u) \/ \E q \in Procs : phase'[q] = "write"
  BY DEF RefInv, HasRef
<1> TypeOK
  BY DEF StoreInv
<1>1. PICK p \in Procs :
        \/ Start(p) \/ Exit(p) \/ Torn(p)
        \/ AlreadyThere(p) \/ Stored(p) \/ NotStored(p) \/ Write(p)
        \/ SetPage(p) \/ Backfill(p)
        \/ \E h \in Hypers : Add(p, h)
        \/ \E e \in mem[p] : Remove(p, e) \/ \E h \in Hypers : Update(p, e, h)
  BY DEF Next
<1>2. faults' = faults
  BY <1>1 DEF Start, Exit, Torn, AlreadyThere, Stored, NotStored, Write, SetPage, Backfill, Add, Remove, Update
<1>3. "race" \notin faults /\ "torn" \notin faults /\ "keyring" \notin faults /\ "crash" \notin faults
  BY <1>2
<1>4. \A u \in Uuids : keyring[u] # NoHyper =>
        /\ \A q \in Procs : phase[q] # "off" => HasRef(mem[q], u)
        /\ HasRef(file, u) \/ \E q \in Procs : phase[q] = "write"
  BY <1>2 DEF RefInv
<1>5. \A q \in Procs : phase[q] # "off" => q = p \/ phase[p] = "off"
  BY <1>3 DEF SoloInv
<1>6. \A e \in mem[p] : WellKept(e) /\ e \in Entries
  BY <1>3 DEF KeptInv, StoreInv, TypeOK
<1>7. ASSUME phase[p] # "off" \/ \A q \in Procs : phase[q] = "off",
             \A q \in Procs \ {p} : phase'[q] = phase[q],
             NEW u \in Uuids,
             phase'[p] # "off" => HasRef(mem'[p], u),
             HasRef(file', u) \/ phase'[p] = "write"
      PROVE  /\ \A q \in Procs : phase'[q] # "off" => HasRef(mem'[q], u)
             /\ HasRef(file', u) \/ \E q \in Procs : phase'[q] = "write"
  BY <1>7, <1>5
<1>8. ASSUME phase[p] # "off", phase[p] # "write", NEW u \in Uuids, keyring[u] # NoHyper
      PROVE  HasRef(mem[p], u) /\ HasRef(file, u)
  BY <1>8, <1>4, <1>5
<1>9. CASE Start(p)
  <2>1. \A q \in Procs : phase[q] = "off"
    BY <1>9, <1>3 DEF Start
  <2>2. mem' = [mem EXCEPT ![p] = file]
    BY <1>9, <2>1 DEF Start
  <2>3. /\ mem'[p] = file /\ file' = file /\ keyring' = keyring
        /\ \A q \in Procs \ {p} : phase'[q] = phase[q]
    BY <1>9, <2>2 DEF Start, Goto, TypeOK
  <2>4. \A u \in Uuids : keyring[u] # NoHyper => HasRef(file, u)
    BY <2>1, <1>4
  <2> QED BY <2>1, <2>3, <2>4, <1>7
<1>10. CASE Exit(p)
  <2>1. /\ file' = file /\ keyring' = keyring /\ phase[p] = "ready"
        /\ phase'[p] = "off" /\ \A q \in Procs \ {p} : phase'[q] = phase[q]
    BY <1>10, <1>3 DEF Exit, Goto, TypeOK
  <2> QED BY <2>1, <1>7, <1>8
<1>11. CASE Torn(p) \/ NotStored(p)
  BY <1>11, <1>3 DEF Torn, NotStored
<1>12. CASE AlreadyThere(p) \/ SetPage(p) \/ \E h \in Hypers : Add(p, h)
  <2>1. /\ phase[p] \in {"ready", "add"} /\ file' = file /\ mem' = mem /\ keyring' = keyring
        /\ \A q \in Procs \ {p} : phase'[q] = phase[q]
    BY <1>12 DEF AlreadyThere, Return, SetPage, Add, Goto, TypeOK
  <2> QED BY <2>1, <1>7, <1>8
<1>13. CASE Stored(p)
  <2>1. PICK cred \in IF UseKeyring THEN Fresh ELSE {Plain} :
          /\ mem' = [mem EXCEPT ![p] = @ \cup {New(adding[p], cred)}]
          /\ IF UseKeyring
             THEN keyring' = [keyring EXCEPT ![cred] = adding[p]]
             ELSE keyring' = keyring
    BY <1>13 DEF Stored
  <2>2. /\ phase[p] = "add" /\ phase'[p] = "write"
        /\ \A q \in Procs \ {p} : phase'[q] = phase[q]
    BY <1>13 DEF Stored, Goto, TypeOK
  <2>3. mem'[p] = mem[p] \cup {New(adding[p], cred)} /\ New(adding[p], cred).cred = cred
    BY <2>1 DEF TypeOK, New
  <2>4. ASSUME NEW u \in Uuids, keyring'[u] # NoHyper PROVE HasRef(mem'[p], u)
    <3>1. CASE u = cred
      BY <3>1, <2>3 DEF HasRef
    <3>2. CASE u # cred
      <4>1. keyring[u] # NoHyper
        BY <2>1, <2>4, <3>2 DEF TypeOK
      <4> QED BY <4>1, <2>2, <2>3, <1>4 DEF HasRef
    <3> QED BY <3>1, <3>2
  <2> QED BY <2>2, <2>4, <1>7
<1>14. CASE Write(p)
  <2>1. /\ phase[p] = "write" /\ file' = mem[p] /\ mem' = mem /\ keyring' = keyring
        /\ \A q \in Procs \ {p} : phase'[q] = phase[q]
    BY <1>14 DEF Write, Return, Goto, TypeOK
  <2> QED BY <2>1, <1>4, <1>7
<1>15. CASE Backfill(p)
  <2>1. PICK answered \in SUBSET mem[p] :
          mem' = [mem EXCEPT ![p] = (@ \ answered) \cup {[e EXCEPT !.named = TRUE] : e \in answered}]
    BY <1>15 DEF Backfill
  <2>2. /\ phase[p] = "ready" /\ phase'[p] = "write" /\ keyring' = keyring
        /\ \A q \in Procs \ {p} : phase'[q] = phase[q]
    BY <1>15 DEF Backfill, Goto, TypeOK
  <2>3. mem'[p] = (mem[p] \ answered) \cup {[e EXCEPT !.named = TRUE] : e \in answered}
    BY <2>1 DEF TypeOK
  <2>4. \A e \in Entries : [e EXCEPT !.named = TRUE].cred = e.cred
    BY DEF Entries
  <2>5. ASSUME NEW e \in mem[p] PROVE \E f \in mem'[p] : f.cred = e.cred
    <3>1. CASE e \in answered
      <4>1. [e EXCEPT !.named = TRUE] \in mem'[p]
        BY <2>3, <3>1
      <4> QED BY <4>1, <2>4, <1>6
    <3>2. CASE e \notin answered
      BY <3>2, <2>3
    <3> QED BY <3>1, <3>2
  <2>6. \A u \in Uuids : keyring'[u] # NoHyper => HasRef(mem'[p], u)
    BY <2>2, <2>5, <1>4 DEF HasRef
  <2> QED BY <2>2, <2>6, <1>7
<1>16. ASSUME NEW e \in mem[p], Remove(p, e) \/ \E h \in Hypers : Update(p, e, h),
              NEW u \in Uuids, keyring'[u] # NoHyper
       PROVE  /\ \A q \in Procs : phase'[q] # "off" => HasRef(mem'[q], u)
              /\ HasRef(file', u) \/ \E q \in Procs : phase'[q] = "write"
  <2>1. /\ phase[p] = "ready" /\ file' = file
        /\ \A q \in Procs \ {p} : phase'[q] = phase[q]
        /\ Forget(p, e)
    BY <1>16 DEF Remove, Update, Goto, TypeOK
  <2>2. mem'[p] = mem[p] \ {e}
    BY <2>1 DEF Forget, TypeOK
  <2>3. e.cred \in Uuids => e.keychain
    BY <1>6, StoreAssumption DEF WellKept
  <2>4. u # e.cred /\ keyring[u] # NoHyper
    BY <2>1, <2>3, <1>16 DEF Forget, TypeOK
  <2>5. HasRef(mem[p], u) /\ HasRef(file, u)
    BY <2>1, <2>4, <1>8
  <2>6. HasRef(mem'[p], u)
    BY <2>2, <2>4, <2>5 DEF HasRef
  <2> QED BY <2>1, <2>5, <2>6, <1>7
<1> QED BY <1>1, <1>9, <1>10, <1>11, <1>12, <1>13, <1>14, <1>15, <1>16

\* As long as nothing goes wrong, a credential in the keyring belongs to a
\* hypervisor of the file or to one that is being written.
THEOREM NoStray == Spec => []NoStraySecret
<1>1. Init => RefInv
  BY DEF Init, RefInv
<1>2. StoreInv /\ KeptInv /\ SoloInv /\ RefInv /\ [Next]_vars => RefInv'
  <2> SUFFICES ASSUME StoreInv, KeptInv, SoloInv, RefInv, [Next]_vars PROVE RefInv'
    OBVIOUS
  <2>1. CASE UNCHANGED vars
    BY <2>1 DEF vars, RefInv, HasRef
  <2>2. CASE Next
    BY <2>2, StepRef
  <2> QED BY <2>1, <2>2
<1>3. RefInv => NoStraySecret
  BY DEF RefInv, NoStraySecret, HasRef
<1> QED BY <1>1, <1>2, <1>3, Inductive, KeptInductive, OneAtATime, PTL DEF Spec

=============================================================================
