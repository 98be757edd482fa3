---------------------------- MODULE SyncAllProofs ----------------------------
(***************************************************************************)
(* What the Proxmox page promises, for any hypervisors, configurations and *)
(* number of steps.  A user who waits for the table never has a node       *)
(* provisioned on another hypervisor than the one shown, nor a row marked  *)
(* without its VM; an info screen he looks at tells how its job went; and  *)
(* if he leaves the info screens alone, the Sync All pops nothing else.    *)
(***************************************************************************)
EXTENDS SyncAll, TLAPS, FiniteSetTheorems, SequenceTheorems

\* The records the proofs look into.
Shape ==
  /\ populate \in [Hypers -> {"none", "connect", "cluster", "discover"}]
  /\ table = [of |-> table.of, cells |-> table.cells]
  /\ job = [state |-> job.state, on |-> job.on, said |-> job.said]
  /\ sync = [pc |-> sync.pc, todo |-> sync.todo, at |-> sync.at,
             delay |-> sync.delay]

\* One table is filled at a time, and not while the Sync All goes on.
OneAtATime ==
  /\ \A g, h \in Hypers : populate[g] # "none" /\ populate[h] # "none" => g = h
  /\ Populating => sync.pc \in {"idle", "dead"}

\* The page's provisioner is the one being discovered, and else the table's.
ProvisionerKnown ==
  /\ \A h \in Hypers : populate[h] \in {"cluster", "discover"} => provisioner = h
  /\ ~Populating => table.of = provisioner \/ Free = {}
  /\ sync.pc \notin {"idle", "dead"} => table.of = provisioner

\* A job runs for a Sync All that goes on, on the table's hypervisor.
JobKnown ==
  job.state = "running" => sync.pc = "run" /\ job.on = table.of

Marked ==
  \A n \in DOMAIN table.cells : table.cells[n] => <<table.of, n>> \in made

\* The user waits for the table, and what that gives.
SyncInv ==
  /\ Shape
  /\ "overlap" \notin faults =>
       OneAtATime /\ ProvisionerKnown /\ JobKnown /\ Marked

-----------------------------------------------------------------------------
(* Every action keeps the records in shape. *)
LEMMA ShapeStep == Shape /\ [Next]_vars => Shape'
<1> SUFFICES ASSUME Shape, [Next]_vars PROVE Shape'
  OBVIOUS
<1> USE DEF Shape
<1>1. ASSUME NEW h \in Hypers, Select(h) PROVE Shape'
  BY <1>1 DEF Select, PopulateTo
<1>2. ASSUME NEW h \in Hypers, Connected(h) PROVE Shape'
  BY <1>2 DEF Connected, PopulateTo
<1>3. ASSUME NEW h \in Hypers, NotConnected(h) PROVE Shape'
  BY <1>3 DEF NotConnected, PopulateTo, ClearTable, EmptyTable
<1>4. ASSUME NEW h \in Hypers, ShowCluster(h) PROVE Shape'
  BY <1>4 DEF ShowCluster, PopulateTo
<1>5. ASSUME NEW h \in Hypers, Discover(h) PROVE Shape'
  BY <1>5 DEF Discover, PopulateTo, BuildTable
<1>6. ASSUME NEW h \in Hypers, NotDiscovered(h) PROVE Shape'
  BY <1>6 DEF NotDiscovered, PopulateTo, ClearTable, EmptyTable
<1>7. CASE UserNext
  BY <1>7 DEF UserNext, Back, OpenTable, Begin, Cancel, Submit, UserOk, NoSync,
              populateVars
<1>8. CASE Start
  BY <1>8 DEF Start, populateVars
<1>9. ASSUME NEW pop, Proceed(pop), UNCHANGED <<populateVars, table>> PROVE Shape'
  <2>1. job' = NoJob
    BY <1>9 DEF Proceed, Die
  <2>2. \/ sync' = NoSync
        \/ sync' = [NoSync EXCEPT !.pc = "dead"]
        \/ sync' = [sync EXCEPT !.pc = "mount", !.at = @ + 1]
    BY <1>9 DEF Proceed, Die
  <2>3. sync' = [pc |-> sync'.pc, todo |-> sync'.todo, at |-> sync'.at,
                 delay |-> sync'.delay]
    BY <2>2 DEF NoSync
  <2> QED
    BY <1>9, <2>1, <2>3 DEF NoJob, populateVars
<1>10. CASE SyncStep
  <2>1. CASE StopOnError \/ Delay
    BY <2>1 DEF StopOnError, Delay, NoSync, NoJob, populateVars
  <2>2. CASE NoDelay \/ DelayEnds \/ DelayCancelled
    BY <1>9, <2>2 DEF NoDelay, DelayEnds, DelayCancelled, populateVars
  <2> QED
    BY <1>10, <2>1, <2>2 DEF SyncStep
<1>11. CASE JobStep
  <2>1. CASE Report
    BY <2>1 DEF Report, populateVars
  <2>2. CASE Fail
    BY <2>2 DEF Fail, populateVars
  <2>3. CASE Succeed /\ Current \in DOMAIN table.cells
    <3>1. table' = [table EXCEPT !.cells = [table.cells EXCEPT ![Current] = TRUE]]
      BY <2>3 DEF Succeed
    <3>2. table' = [of |-> table.of,
                    cells |-> [table.cells EXCEPT ![Current] = TRUE]]
      BY <3>1
    <3> QED
      BY <2>3, <3>2 DEF Succeed, populateVars
  <2>4. CASE Succeed /\ Current \notin DOMAIN table.cells
    BY <2>4 DEF Succeed, Die, NoSync, NoJob, populateVars
  <2> QED
    BY <1>11, <2>1, <2>2, <2>3, <2>4 DEF JobStep
<1>12. CASE UNCHANGED vars
  BY <1>12 DEF vars
<1> QED
  BY <1>1, <1>2, <1>3, <1>4, <1>5, <1>6, <1>7, <1>8, <1>10, <1>11, <1>12
     DEF Next, PopulateNext

\* What the invariant says of a user who waits.
Waits == OneAtATime /\ ProvisionerKnown /\ JobKnown /\ Marked

(* The populate worker keeps it: no Sync All is going on while it runs. *)
LEMMA PopulateStep ==
  ASSUME Shape, Waits, "overlap" \notin faults, PopulateNext
  PROVE  Waits'
<1> USE DEF Shape, Waits, Populating, PopulateTo
<1>1. ASSUME NEW h \in Hypers, Select(h) PROVE Waits'
  BY <1>1 DEF Select, Busy, OneAtATime, ProvisionerKnown, JobKnown, Marked, Free
<1>2. ASSUME NEW h \in Hypers, Connected(h) PROVE Waits'
  BY <1>2 DEF Connected, OneAtATime, ProvisionerKnown, JobKnown, Marked, Free
<1>3. ASSUME NEW h \in Hypers, NotConnected(h) PROVE Waits'
  <2>1. DOMAIN table.cells' = {}
    BY <1>3 DEF NotConnected, ClearTable, EmptyTable
  <2> QED
    BY <1>3, <2>1 DEF NotConnected, OneAtATime, ProvisionerKnown, JobKnown,
                      Marked, Free
<1>4. ASSUME NEW h \in Hypers, ShowCluster(h) PROVE Waits'
  BY <1>4 DEF ShowCluster, OneAtATime, ProvisionerKnown, JobKnown, Marked, Free
<1>5. ASSUME NEW h \in Hypers, Discover(h) PROVE Waits'
  <2>1. provisioner = h
    BY <1>5 DEF Discover, ProvisionerKnown
  <2>2. PICK usable : table' = [of |-> h,
                               cells |-> [n \in usable |-> <<h, n>> \in made]]
    BY <1>5 DEF Discover, BuildTable
  <2>3. Marked'
    BY <1>5, <2>2 DEF Discover, Marked
  <2> QED
    BY <1>5, <2>1, <2>2, <2>3 DEF Discover, OneAtATime, ProvisionerKnown,
                                  JobKnown
<1>6. ASSUME NEW h \in Hypers, NotDiscovered(h) PROVE Waits'
  <2>1. DOMAIN table.cells' = {}
    BY <1>6 DEF NotDiscovered, ClearTable, EmptyTable
  <2> QED
    BY <1>6, <2>1 DEF NotDiscovered, OneAtATime, ProvisionerKnown, JobKnown,
                      Marked, Free
<1> QED
  BY <1>1, <1>2, <1>3, <1>4, <1>5, <1>6 DEF PopulateNext

(* The user and the Sync All worker keep it: a Sync All begins with a table
   that is filled, and with a free row, so of the page's provisioner. *)
LEMMA WorkStep ==
  ASSUME Shape, Waits, "overlap" \notin faults,
         UserNext \/ Start \/ SyncStep \/ JobStep
  PROVE  Waits'
<1> USE DEF Shape, Waits, Populating, populateVars
<1> DEFINE Same == UNCHANGED <<populateVars, table, made>>
<1>1. CASE Begin
  BY <1>1 DEF Begin, Busy, OneAtATime, ProvisionerKnown, JobKnown, Marked, Free
<1>2. ASSUME Same, UNCHANGED job, sync'.pc \in {sync.pc, "idle"},
             job.state = "running" => sync'.pc = sync.pc
      PROVE  Waits'
  BY <1>2 DEF OneAtATime, ProvisionerKnown, JobKnown, Marked, Free
<1>3. CASE Back \/ OpenTable \/ Cancel
  BY <1>2, <1>3 DEF Back, OpenTable, Cancel, NoSync, JobKnown
<1>4. ASSUME Same, sync.pc \notin {"idle", "dead"},
             (job' = job /\ job.state # "running") \/ job' = NoJob
      PROVE  Waits'
  BY <1>4 DEF OneAtATime, ProvisionerKnown, JobKnown, Marked, Free, NoJob
<1>5. CASE UserOk
  BY <1>2, <1>4, <1>5 DEF UserOk, JobKnown
<1>6. CASE Submit
  BY <1>4, <1>6 DEF Submit, JobKnown
<1>7. CASE Start
  BY <1>7 DEF Start, OneAtATime, ProvisionerKnown, JobKnown, Marked, Free
<1>8. ASSUME NEW pop, Proceed(pop) PROVE job' = NoJob
  BY <1>8 DEF Proceed, Die
<1>9. CASE SyncStep
  BY <1>4, <1>8, <1>9 DEF SyncStep, StopOnError, Delay, NoDelay, DelayEnds,
                          DelayCancelled
<1>10. CASE Report
  BY <1>10 DEF Report, Running, OneAtATime, ProvisionerKnown, JobKnown, Marked, Free
<1>11. CASE Fail
  BY <1>11 DEF Fail, Running, OneAtATime, ProvisionerKnown, JobKnown, Marked, Free
<1>12. CASE Succeed
  <2>1. job.on = table.of /\ table.of = provisioner
    BY <1>12 DEF Succeed, Running, JobKnown, ProvisionerKnown
  <2>2. CASE Current \in DOMAIN table.cells
    <3>1. /\ table' = [of |-> table.of,
                       cells |-> [table.cells EXCEPT ![Current] = TRUE]]
          /\ job'.state = "ok"
          /\ UNCHANGED <<sync, populateVars>>
          /\ made' = made \cup {<<table.of, Current>>}
      BY <1>12, <2>1, <2>2 DEF Succeed
    <3>2. Marked'
      BY <3>1 DEF Marked
    <3> QED
      BY <2>1, <3>1, <3>2 DEF OneAtATime, ProvisionerKnown, JobKnown
  <2>3. CASE Current \notin DOMAIN table.cells
    BY <1>12, <2>1, <2>3 DEF Succeed, Die, NoSync, NoJob, OneAtATime,
                             ProvisionerKnown, JobKnown, Marked, Free
  <2> QED
    BY <2>2, <2>3
<1> QED
  BY <1>1, <1>3, <1>5, <1>6, <1>7, <1>9, <1>10, <1>11, <1>12 DEF UserNext, JobStep

-----------------------------------------------------------------------------
(* SyncInv is an invariant: where the user waits for the table, the page's
   provisioner, the table and the job are of one hypervisor. *)
THEOREM Inductive == Spec => []SyncInv
<1>1. Init => SyncInv
  BY DEF Init, SyncInv, Shape, NoSync, NoJob, EmptyTable, OneAtATime,
         ProvisionerKnown, JobKnown, Marked, Free, Populating
<1>2. SyncInv /\ [Next]_vars => SyncInv'
  <2> SUFFICES ASSUME SyncInv, [Next]_vars PROVE SyncInv'
    OBVIOUS
  <2>1. Shape'
    BY ShapeStep DEF SyncInv
  <2>2. faults' = faults
    BY DEF Next, PopulateNext, UserNext, SyncStep, JobStep, Select, Connected,
           NotConnected, ShowCluster, Discover, NotDiscovered, Back, OpenTable,
           Begin, Cancel, Submit, UserOk, Start, StopOnError, Delay, NoDelay,
           DelayEnds, DelayCancelled, Report, Fail, Succeed, vars
  <2>3. CASE "overlap" \notin faults
    <3>1. Waits
      BY <2>3 DEF SyncInv, Waits
    <3>2. ASSUME UNCHANGED vars PROVE Waits'
      <4>1. /\ populate' = populate /\ provisioner' = provisioner
            /\ table' = table /\ sync' = sync /\ job' = job /\ made' = made
        BY <3>2 DEF vars
      <4>2. Free' = Free /\ Populating' = Populating
        BY <4>1 DEF Free, Populating
      <4> QED
        BY <3>1, <4>1, <4>2 DEF Waits, OneAtATime, ProvisionerKnown, JobKnown, Marked
    <3>3. Shape
      BY DEF SyncInv
    <3>4. ASSUME PopulateNext PROVE Waits'
      BY <2>3, <3>1, <3>3, <3>4, PopulateStep
    <3>5. ASSUME UserNext \/ Start \/ SyncStep \/ JobStep PROVE Waits'
      BY <2>3, <3>1, <3>3, <3>5, WorkStep
    <3>6. Waits'
      BY <3>2, <3>4, <3>5 DEF Next
    <3> QED
      BY <2>1, <3>6 DEF SyncInv, Waits
  <2> QED
    BY <2>1, <2>2, <2>3 DEF SyncInv
<1> QED
  BY <1>1, <1>2, PTL DEF Spec

(* As long as the table is not left while it is being filled, every job runs
   on the hypervisor of the table its node was picked from. *)
THEOREM OnTheShownHypervisor == Spec => []RightHypervisor
<1>1. SyncInv => RightHypervisor
  BY DEF SyncInv, JobKnown, RightHypervisor
<1> QED
  BY <1>1, Inductive, PTL

(* With the same proviso a row marked Provisioned has its VM on the hypervisor
   shown, whatever failed before. *)
THEOREM MarksAreTrue == Spec => []MarkedIsMade
<1>1. SyncInv => MarkedIsMade
  BY DEF SyncInv, Marked, MarkedIsMade
<1> QED
  BY <1>1, Inductive, PTL

-----------------------------------------------------------------------------
(* The order of the Sync All. *)

IsMarked(n) == n \in DOMAIN table.cells /\ table.cells[n] = TRUE

\* What is over is marked: the nodes before the current one, and the current
\* one once its job is.
Ordered ==
  /\ sync.at \in Nat
  /\ sync.pc \in {"idle", "dead"} => sync.at = 0
  /\ \A i \in 1..(sync.at - 1) : IsMarked(sync.todo[i])
  /\ sync.pc \in {"delay", "cancelled"} => job.state = "ok"
  /\ job.state = "ok" => /\ sync.pc \in {"run", "delay", "cancelled"}
                         /\ IsMarked(sync.todo[sync.at])

OrderInv == "overlap" \notin faults => Ordered

LEMMA Advance ==
  ASSUME Shape, Ordered, sync.pc \notin {"idle", "dead"}, job.state = "ok", table' = table,
         NEW pop, Proceed(pop)
  PROVE  Ordered'
<1> USE DEF Shape
<1>1. job' = NoJob /\ job'.state # "ok"
  BY DEF Proceed, Die, NoJob
<1>2. CASE sync'.pc \in {"idle", "dead"} /\ sync'.at = 0
  BY <1>1, <1>2 DEF Ordered
<1>3. CASE sync' = [sync EXCEPT !.pc = "mount", !.at = @ + 1]
  <2>1. sync'.pc = "mount" /\ sync'.at = sync.at + 1 /\ sync'.todo = sync.todo
    BY <1>3
  <2>2. \A i \in 1..sync.at : IsMarked(sync.todo[i])
    BY DEF Ordered
  <2>3. \A i \in 1..sync.at : IsMarked(sync.todo[i])'
    BY <2>1, <2>2 DEF IsMarked
  <2>4. sync'.at \in Nat /\ sync'.at - 1 = sync.at
    BY <2>1 DEF Ordered
  <2> QED BY <1>1, <2>1, <2>3, <2>4 DEF Ordered
<1>4. \/ sync' = NoSync
      \/ sync' = [NoSync EXCEPT !.pc = "dead"]
      \/ sync' = [sync EXCEPT !.pc = "mount", !.at = @ + 1]
  BY DEF Proceed, Die
<1>5. CASE sync' = NoSync \/ sync' = [NoSync EXCEPT !.pc = "dead"]
  BY <1>2, <1>5 DEF NoSync
<1> QED BY <1>3, <1>4, <1>5

LEMMA OrderStep ==
  ASSUME Shape, Waits, Ordered, "overlap" \notin faults, Next
  PROVE  Ordered'
<1> USE DEF Shape
<1>1. ASSUME sync.pc \in {"idle", "dead"}, UNCHANGED <<sync, job>>
      PROVE  Ordered'
  BY <1>1 DEF Ordered
<1>2. ASSUME sync'.at = 0, sync'.pc \in {"idle", "dead"}, job'.state # "ok"
      PROVE  Ordered'
  BY <1>2 DEF Ordered
<1>3. CASE PopulateNext
  <2>1. PICK h \in Hypers : \/ Select(h) \/ Connected(h) \/ NotConnected(h)
                            \/ ShowCluster(h) \/ Discover(h) \/ NotDiscovered(h)
    BY <1>3 DEF PopulateNext
  <2>2. UNCHANGED <<sync, job>>
    BY <2>1 DEF Select, Connected, NotConnected, ShowCluster, Discover, NotDiscovered
  <2>3. CASE Select(h)
    BY <2>3 DEF Select, Ordered, IsMarked
  <2>4. CASE ~Select(h)
    <3>1. Populating
      BY <2>1, <2>4 DEF Connected, NotConnected, ShowCluster, Discover, NotDiscovered, Populating
    <3> QED BY <3>1, <2>2, <1>1 DEF Waits, OneAtATime
  <2> QED BY <2>3, <2>4
<1>4. CASE Back \/ OpenTable
  BY <1>4 DEF Back, OpenTable, Ordered, IsMarked
<1>5. CASE Begin
  BY <1>5 DEF Begin, Busy, Ordered, IsMarked
<1>6. CASE Cancel
  BY <1>6, <1>2 DEF Cancel, NoSync, Ordered
<1>7. CASE Submit
  BY <1>7 DEF Submit, Ordered, IsMarked
<1>8. CASE UserOk
  BY <1>8 DEF UserOk, Ordered, IsMarked
<1>9. CASE Start
  BY <1>9 DEF Start, Ordered, IsMarked
<1>10. CASE StopOnError
  BY <1>10, <1>2 DEF StopOnError, NoSync, NoJob
<1>11. CASE Delay
  BY <1>11 DEF Delay, Ordered, IsMarked
<1>12. CASE NoDelay \/ DelayEnds \/ DelayCancelled
  <2>1. sync.pc \notin {"idle", "dead"} /\ job.state = "ok" /\ table' = table
    BY <1>12 DEF NoDelay, DelayEnds, DelayCancelled, Ordered
  <2> QED BY <1>12, <2>1, Advance DEF NoDelay, DelayEnds, DelayCancelled
<1>13. CASE Report
  BY <1>13 DEF Report, Running, Ordered, IsMarked
<1>14. CASE Fail
  BY <1>14 DEF Fail, Running, Ordered, IsMarked
<1>15. CASE Succeed
  <2>1. CASE Current \in DOMAIN table.cells
    <3>1. /\ table'.cells = [table.cells EXCEPT ![Current] = TRUE]
          /\ job'.state = "ok" /\ sync' = sync /\ sync.pc = "run"
      BY <1>15, <2>1 DEF Succeed, Running
    <3>2. \A n : IsMarked(n) \/ n = Current => IsMarked(n)'
      BY <3>1, <2>1 DEF IsMarked
    <3> QED BY <3>1, <3>2 DEF Ordered, Current
  <2>2. CASE Current \notin DOMAIN table.cells
    BY <1>15, <2>2, <1>2 DEF Succeed, Die, NoSync, NoJob
  <2> QED BY <2>1, <2>2
<1> QED BY <1>3, <1>4, <1>5, <1>6, <1>7, <1>8, <1>9, <1>10, <1>11, <1>12, <1>13, <1>14, <1>15
     DEF Next, UserNext, SyncStep, JobStep

(* The Sync All of a user who waits for the table never goes past a node whose
   row is not marked, whatever fails. *)
THEOREM NeverPastAnUnmarked == Spec => []InOrder
<1>1. Init => OrderInv
  BY DEF Init, OrderInv, Ordered, NoSync, NoJob
<1>2. SyncInv /\ OrderInv /\ [Next]_vars => OrderInv'
  <2> SUFFICES ASSUME SyncInv, OrderInv, [Next]_vars PROVE OrderInv'
    OBVIOUS
  <2>1. faults' = faults
    BY DEF Next, PopulateNext, UserNext, SyncStep, JobStep, Select, Connected,
           NotConnected, ShowCluster, Discover, NotDiscovered, Back, OpenTable,
           Begin, Cancel, Submit, UserOk, Start, StopOnError, Delay, NoDelay,
           DelayEnds, DelayCancelled, Report, Fail, Succeed, vars
  <2>2. CASE "overlap" \notin faults
    <3>1. Shape /\ Waits /\ Ordered
      BY <2>2 DEF SyncInv, Waits, OrderInv, Ordered
    <3>2. Ordered'
      <4>1. CASE UNCHANGED vars
        BY <4>1, <3>1 DEF vars, Ordered, IsMarked
      <4>2. CASE Next
        BY <4>2, <3>1, <2>2, OrderStep
      <4> QED BY <4>1, <4>2
    <3> QED BY <3>2 DEF OrderInv, Ordered
  <2>3. CASE "overlap" \in faults
    BY <2>1, <2>3 DEF OrderInv
  <2> QED BY <2>2, <2>3
<1>3. OrderInv => InOrder
  BY DEF OrderInv, Ordered, InOrder, IsMarked
<1> QED BY <1>1, <1>2, <1>3, Inductive, PTL DEF Spec

-----------------------------------------------------------------------------
(* The types. *)

Kinds == {"default", "welcome", "table", "form"}

Screens == {Plain(k) : k \in Kinds} \cup {s \in Infos : s.completed <= s.total}

\* There is a screen under the one the app pops, whoever pops it.
StackInv ==
  /\ stack \in Seq(Screens)
  /\ Len(stack) >= 1 /\ stack[1] = Plain("default")
  /\ sync.pc = "form" => Top = Plain("form")

SyncTyped ==
  /\ sync.pc \in {"idle", "form", "mount", "run", "delay", "cancelled", "dead"}
  /\ sync.todo \in Seq(Nodes) /\ sync.at \in 0..Len(sync.todo)
  /\ sync.pc \notin {"idle", "dead"} => sync.at >= 1

\* A job has a hypervisor to run on: a row, and so a Sync All, comes from one.
JobTyped ==
  /\ job.state \in {"none", "running", "ok", "failed"}
  /\ job.on \in Hypers \cup {NoHyper} /\ job.said \in 0..(Steps + 1)
  /\ job.state = "running" => job.on \in Hypers
  /\ provisioner = NoHyper => /\ DOMAIN table.cells = {}
                              /\ sync.pc \in {"idle", "dead"}
                              /\ \A h \in Hypers : populate[h] \notin {"cluster", "discover"}

PageTyped ==
  /\ faults \in FaultSets
  /\ provisioner \in Hypers \cup {NoHyper}
  /\ clusterStep \in BOOLEAN
  /\ table.of \in Hypers \cup {NoHyper}
  /\ \E rows \in SUBSET Nodes : table.cells \in [rows -> BOOLEAN]
  /\ made \subseteq Hypers \X Nodes

TypeInv == Shape /\ PageTyped /\ StackInv /\ SyncTyped /\ JobTyped

-----------------------------------------------------------------------------
(* A user who leaves the info screens alone until the Sync All is over. *)

\* The screens are those the worker takes them for: its own info screen over
\* the table while it goes on.
Modal ==
  /\ Len(stack) \in 2..4
  /\ stack[1] = Plain("default") /\ stack[2] = Plain("welcome")
  /\ Len(stack) >= 3 => stack[3] = Plain("table")
  /\ Len(stack) = 4 /\ sync.pc # "form" => IsInfo(Top)
  /\ sync.pc \notin {"idle", "dead"} => Len(stack) = 4
  /\ sync.pc # "cancelled"

ModalInv == "dismiss" \notin faults => Modal

\* The nodes of a Sync All have their row.
Rows ==
  /\ sync.pc # "dead"
  /\ sync.pc # "idle" => Range(sync.todo) \subseteq DOMAIN table.cells

RowsInv == faults \cap {"overlap", "dismiss"} = {} => Rows

-----------------------------------------------------------------------------
(* What the info screen says. *)

Known(h) == clusterStep <=> h \in Clustered

\* The cluster's step is known when an info screen or a job needs it.
ClusterKnown ==
  /\ \A h \in Hypers : populate[h] = "discover" => Known(h)
  /\ (~Populating /\ Free # {}) \/ sync.pc \notin {"idle", "dead"} =>
       Known(provisioner)

JobOf ==
  /\ job.state = "none" <=> sync.pc \in {"idle", "form", "mount", "dead"}
  /\ job.state \in {"running", "failed"} => sync.pc = "run"

\* No screen is over an info screen.
InfoOnTop == \A i \in DOMAIN stack : IsInfo(stack[i]) => i = Len(stack)

\* It has counted what the job has said.
Counts(s) ==
  /\ sync.pc = "mount" => s.total = TotalSteps /\ s.completed = 0 /\ ~s.failed
  /\ job.state = "running" =>
       s.total = Messages /\ s.completed = job.said /\ ~s.failed
  /\ job.state = "ok" => Finished(s) /\ ~s.failed
  /\ job.state = "failed" => s.failed
  /\ sync.pc = "idle" => OkVisible(s)
  /\ sync.pc # "cancelled"

Tells == InfoOnTop /\ (IsInfo(Top) => Counts(Top))

InfoInv ==
  faults \cap {"overlap", "unreadable"} = {} =>
    ClusterKnown /\ JobOf /\ Tells

-----------------------------------------------------------------------------
(* The stack of screens. *)

LEMMA FrontIs ==
  ASSUME NEW T, NEW s \in Seq(T), Len(s) >= 1
  PROVE  /\ Front(s) \in Seq(T) /\ Len(Front(s)) = Len(s) - 1
         /\ \A i \in 1..(Len(s) - 1) : Front(s)[i] = s[i]
<1>1. /\ 1 \in 1..(Len(s) + 1) /\ Len(s) - 1 \in 0..Len(s)
      /\ Len(s) \in Nat /\ 1 - 1 = 0 /\ Len(s) - 1 \in (1 - 1)..Len(s)
      /\ (Len(s) - 1) - 1 + 1 = Len(s) - 1
      /\ \A i \in 1..(Len(s) - 1) : 1 + i - 1 = i
  OBVIOUS
<1> QED BY <1>1, SubSeqProperties DEF Front

LEMMA PushIs ==
  ASSUME NEW T, NEW s \in Seq(T), NEW x \in T
  PROVE  /\ Append(s, x) \in Seq(T) /\ Len(Append(s, x)) = Len(s) + 1
         /\ \A i \in 1..Len(s) : Append(s, x)[i] = s[i]
         /\ Append(s, x)[Len(s) + 1] = x /\ Last(Append(s, x)) = x
BY DEF Last

LEMMA ReplaceIs ==
  ASSUME NEW T, NEW s \in Seq(T), Len(s) >= 1, NEW x \in T
  PROVE  /\ Append(Front(s), x) \in Seq(T) /\ Len(Append(Front(s), x)) = Len(s)
         /\ \A i \in 1..(Len(s) - 1) : Append(Front(s), x)[i] = s[i]
         /\ Append(Front(s), x)[Len(s)] = x
<1> DEFINE f == Front(s)
<1>1. f \in Seq(T) /\ Len(f) = Len(s) - 1 /\ \A i \in 1..(Len(s) - 1) : f[i] = s[i]
  BY FrontIs
<1> HIDE DEF f
<1>2. /\ Append(f, x) \in Seq(T) /\ Len(Append(f, x)) = Len(f) + 1
      /\ \A i \in 1..Len(f) : Append(f, x)[i] = f[i]
      /\ Append(f, x)[Len(f) + 1] = x
  BY <1>1
<1>3. Len(f) + 1 = Len(s) /\ 1..Len(f) = 1..(Len(s) - 1)
  BY <1>1
<1> QED BY <1>1, <1>2, <1>3 DEF f

(* A progress message changes info screens only, and none past its total. *)
LEMMA CallbackIs ==
  ASSUME stack \in Seq(Screens), NEW ok \in BOOLEAN, Callback(ok),
         Steps \in Nat
  PROVE  /\ stack' \in Seq(Screens) /\ Len(stack') = Len(stack)
         /\ \A i \in 1..Len(stack) :
              /\ stack'[i] = UpdateCallback(stack[i], ok)
              /\ IsInfo(stack'[i]) = IsInfo(stack[i])
              /\ ~IsInfo(stack[i]) => stack'[i] = stack[i]
<1>1. ASSUME NEW s \in Screens
      PROVE  /\ UpdateCallback(s, ok) \in Screens
             /\ IsInfo(UpdateCallback(s, ok)) = IsInfo(s)
             /\ ~IsInfo(s) => UpdateCallback(s, ok) = s
  <2>1. CASE ~IsInfo(s) \/ Finished(s) \/ s.failed
    BY <1>1, <2>1 DEF UpdateCallback
  <2>2. CASE ~(~IsInfo(s) \/ Finished(s) \/ s.failed)
    <3>1. s \in Infos
      BY <2>2 DEF Screens, Plain, IsInfo, Kinds
    <3>2. /\ s.node \in Nodes /\ s.total \in Steps..(Steps + 1)
          /\ s.completed \in 0..(Steps + 1) /\ s.kind = "info"
          /\ s.completed < s.total
          /\ s = [kind |-> s.kind, node |-> s.node, total |-> s.total,
                  completed |-> s.completed, failed |-> s.failed]
      BY <3>1, <2>2 DEF Infos, Finished
    <3>3. UpdateCallback(s, ok) =
            [kind |-> "info", node |-> s.node, total |-> s.total,
             completed |-> s.completed + 1, failed |-> ~ok]
      BY <2>2, <3>2 DEF UpdateCallback
    <3>4. s.completed + 1 \in 0..(Steps + 1) /\ s.completed + 1 <= s.total
      BY <3>2
    <3> QED BY <3>2, <3>3, <3>4 DEF Screens, Infos, IsInfo
  <2> QED BY <2>1, <2>2
<1>2. DOMAIN stack = 1..Len(stack) /\ Len(stack) \in Nat
  OBVIOUS
<1>3. stack' = [i \in 1..Len(stack) |-> UpdateCallback(stack[i], ok)]
  BY <1>2 DEF Callback
<1>4. \A i \in 1..Len(stack) : stack[i] \in Screens
  OBVIOUS
<1>5. stack' \in Seq(Screens) /\ Len(stack') = Len(stack)
  BY <1>1, <1>2, <1>3, <1>4
<1> QED BY <1>1, <1>3, <1>4, <1>5

\* The stack under what Proceed pushes.
Left(pop) == IF pop THEN Front(stack) ELSE stack

LEMMA LeftIs ==
  ASSUME stack \in Seq(Screens), Len(stack) >= 1, NEW pop \in BOOLEAN
  PROVE  /\ Left(pop) \in Seq(Screens)
         /\ Len(Left(pop)) = IF pop THEN Len(stack) - 1 ELSE Len(stack)
         /\ \A i \in 1..Len(Left(pop)) : Left(pop)[i] = stack[i]
BY FrontIs DEF Left

(* Proceed dies, ends or pushes the info screen of the next node. *)
LEMMA ProceedIs ==
  ASSUME stack \in Seq(Screens), Len(stack) >= 1, NEW pop \in BOOLEAN,
         Proceed(pop)
  PROVE  /\ job' = NoJob
         /\ \/ /\ Len(Left(pop)) = 0
               /\ sync' = [NoSync EXCEPT !.pc = "dead"] /\ stack' = stack
            \/ /\ Len(Left(pop)) >= 1 /\ IsLast
               /\ sync' = NoSync /\ stack' = Left(pop)
            \/ /\ Len(Left(pop)) >= 1 /\ ~IsLast
               /\ sync' = [sync EXCEPT !.pc = "mount", !.at = @ + 1]
               /\ stack' = Append(Left(pop),
                                  InfoScreen(sync.todo[sync.at + 1], TotalSteps))
<1> DEFINE l == Left(pop)
<1>1. l \in Seq(Screens)
  BY LeftIs
<1>2. Len(l) \in Nat /\ (l = <<>> <=> Len(l) = 0)
  BY <1>1
<1>3. CASE l = <<>>
  BY <1>2, <1>3 DEF Proceed, Left, Die
<1>4. CASE l # <<>>
  <2>1. Len(l) >= 1
    BY <1>2, <1>4
  <2>2. /\ job' = NoJob
        /\ IF IsLast
           THEN sync' = NoSync /\ stack' = l
           ELSE /\ sync' = [sync EXCEPT !.pc = "mount", !.at = @ + 1]
                /\ stack' = Append(l, InfoScreen(sync.todo[sync.at + 1], TotalSteps))
    BY <1>4 DEF Proceed, Left
  <2> QED BY <2>1, <2>2
<1> QED BY <1>3, <1>4

LEMMA NodesFinite == IsFiniteSet(Nodes)
<1> DEFINE n == Len(Configs)
<1>1. n \in Nat /\ Configs \in [1..n -> Nodes]
  BY SyncAssumption
<1>2. \A t \in Nodes : \E i \in 1..n : Configs[i] = t
  BY <1>1, SyncAssumption DEF Range
<1>3. Configs \in Surjection(1..n, Nodes)
  BY <1>1, <1>2 DEF Surjection
<1>4. IsFiniteSet(1..n)
  BY <1>1, FS_Interval
<1> QED BY <1>3, <1>4, FS_Surjection

(* What a Sync All has to do is free rows, and at least one. *)
LEMMA TodoIs ==
  ASSUME DOMAIN table.cells \subseteq Nodes, Free # {},
         NEW s \in ProvisionableNodes \cup {<<n>> : n \in Free}
  PROVE  s \in Seq(Nodes) /\ Len(s) >= 1 /\ Range(s) \subseteq Free
<1>1. Free \subseteq Nodes
  BY DEF Free
<1>2. CASE s \in ProvisionableNodes
  <2>1. IsFiniteSet(Free)
    BY <1>1, NodesFinite, FS_Subset
  <2>2. Cardinality(Free) \in Nat /\ Cardinality(Free) # 0
    BY <2>1, FS_CardinalityType, FS_EmptySet
  <2>3. s \in [1..Cardinality(Free) -> Free]
    BY <1>2 DEF ProvisionableNodes, InTableOrder
  <2> HIDE DEF Free
  <2>4. s \in Seq(Free) /\ Len(s) = Cardinality(Free)
    BY <2>2, <2>3
  <2> QED BY <1>1, <2>2, <2>3, <2>4 DEF Range
<1>3. CASE s \in {<<n>> : n \in Free}
  <2>1. PICK n \in Free : s = <<n>>
    BY <1>3
  <2>2. Len(s) = 1 /\ DOMAIN s = 1..1 /\ s[1] = n /\ s \in Seq(Nodes)
    BY <2>1, <1>1
  <2> QED BY <2>1, <2>2 DEF Range
<1> QED BY <1>2, <1>3

-----------------------------------------------------------------------------
(* TypeInv is inductive. *)

LEMMA StepsTyped == Steps \in Nat /\ Steps >= 1
  BY SyncAssumption

LEMMA TotalTyped ==
  ASSUME NEW n \in Nodes
  PROVE  /\ InfoScreen(n, TotalSteps) \in Screens
         /\ IsInfo(InfoScreen(n, TotalSteps))
<1>1. TotalSteps \in Steps..(Steps + 1) /\ 0 \in 0..(Steps + 1) /\ 0 <= TotalSteps
  BY StepsTyped DEF TotalSteps
<1> QED BY <1>1 DEF InfoScreen, Screens, Infos, IsInfo

LEMMA PlainScreens ==
  /\ \A k \in Kinds : Plain(k) \in Screens /\ ~IsInfo(Plain(k))
  /\ \A k, l \in Kinds : Plain(k) = Plain(l) => k = l
BY DEF Screens, Plain, IsInfo, Kinds

LEMMA PopulateTyped ==
  ASSUME TypeInv, PopulateNext
  PROVE  PageTyped' /\ StackInv' /\ SyncTyped' /\ JobTyped'
<1>1. PICK h \in Hypers : \/ Select(h) \/ Connected(h) \/ NotConnected(h)
                          \/ ShowCluster(h) \/ Discover(h) \/ NotDiscovered(h)
  BY DEF PopulateNext
<1>2. UNCHANGED <<faults, stack, sync, job, made>>
  BY <1>1 DEF Select, Connected, NotConnected, ShowCluster, Discover, NotDiscovered
<1>3. StackInv' /\ SyncTyped'
  BY <1>2 DEF TypeInv, StackInv, SyncTyped, Top
<1>4. NoHyper \notin Hypers /\ Hosts \in [Hypers -> SUBSET Nodes]
  BY SyncAssumption
<1> USE DEF TypeInv, Shape, PageTyped, JobTyped, PopulateTo
<1>5. CASE Select(h)
  BY <1>2, <1>3, <1>5 DEF Select
<1>6. CASE Connected(h)
  BY <1>2, <1>3, <1>4, <1>6 DEF Connected
<1>7. CASE NotConnected(h) \/ NotDiscovered(h)
  <2>1. table' = EmptyTable /\ UNCHANGED <<provisioner, clusterStep>>
    BY <1>7 DEF NotConnected, NotDiscovered, ClearTable
  <2>2. /\ table'.of = NoHyper /\ DOMAIN table'.cells = {}
        /\ table'.cells \in [{} -> BOOLEAN]
    BY <2>1 DEF EmptyTable
  <2>3. \A g \in Hypers : populate'[g] \in {"cluster", "discover"} =>
                            populate[g] \in {"cluster", "discover"}
    BY <1>7 DEF NotConnected, NotDiscovered
  <2> QED BY <1>2, <1>3, <2>1, <2>2, <2>3
<1>8. CASE ShowCluster(h)
  <2>1. /\ provisioner' = provisioner /\ table' = table
        /\ populate[h] = "cluster"
    BY <1>8 DEF ShowCluster
  <2>2. (h \in Clustered) \in BOOLEAN /\ TRUE \in BOOLEAN
    OBVIOUS
  <2>3. clusterStep' = (h \in Clustered) \/ clusterStep' = TRUE
    BY <1>8 DEF ShowCluster
  <2>4. clusterStep' \in BOOLEAN
    BY <2>2, <2>3, Zenon
  <2>5. provisioner # NoHyper
    BY <2>1
  <2> QED BY <1>2, <1>3, <1>4, <2>1, <2>4, <2>5
<1>9. CASE Discover(h)
  <2>1. PICK usable \in SUBSET Hosts[h] : BuildTable(h, usable)
    BY <1>9 DEF Discover
  <2>2. /\ table'.of = h /\ usable \in SUBSET Nodes
        /\ table'.cells \in [usable -> BOOLEAN]
    BY <1>4, <2>1 DEF BuildTable
  <2>3. UNCHANGED <<provisioner, clusterStep>> /\ populate[h] = "discover"
    BY <1>9 DEF Discover
  <2> QED BY <1>2, <1>3, <2>2, <2>3
<1> QED BY <1>1, <1>5, <1>6, <1>7, <1>8, <1>9

\* What the user's and the Sync All worker's steps leave alone.
Quiet == UNCHANGED <<faults, populateVars, table, made>>

LEMMA QuietPage == PageTyped /\ Quiet => PageTyped'
  BY DEF PageTyped, Quiet, populateVars

LEMMA UserTyped ==
  ASSUME TypeInv, UserNext
  PROVE  PageTyped' /\ StackInv' /\ SyncTyped' /\ JobTyped'
<1> USE StepsTyped
<1>1. Quiet /\ job' = job
  BY DEF UserNext, Back, OpenTable, Begin, Cancel, Submit, UserOk, Quiet
<1>2. PageTyped'
  BY <1>1, QuietPage DEF TypeInv
<1>3. /\ stack \in Seq(Screens) /\ Len(stack) \in Nat /\ Len(stack) >= 1
      /\ stack[1] = Plain("default") /\ Top = stack[Len(stack)]
  BY DEF TypeInv, StackInv, Top, Last
<1>4. ASSUME sync'.pc \in {"idle", "dead"} \/ sync.pc \notin {"idle", "dead"}
             \/ provisioner # NoHyper
      PROVE  JobTyped'
  BY <1>1, <1>4 DEF TypeInv, JobTyped, Quiet, populateVars
<1>5. ASSUME Top # Plain("default"), stack' = Front(stack), sync'.pc # "form"
      PROVE  StackInv'
  <2>1. Len(stack) >= 2
    BY <1>3, <1>5
  <2>2. /\ stack' \in Seq(Screens) /\ Len(stack') = Len(stack) - 1
        /\ stack'[1] = stack[1]
    BY <1>3, <1>5, <2>1, FrontIs
  <2> QED BY <1>3, <1>5, <2>1, <2>2 DEF StackInv
<1>6. ASSUME NEW x \in Screens, stack' = Append(stack, x),
             sync'.pc = "form" => x = Plain("form")
      PROVE  StackInv'
  <2>1. /\ stack' \in Seq(Screens) /\ Len(stack') = Len(stack) + 1
        /\ stack'[1] = stack[1] /\ Last(stack') = x
    BY <1>3, <1>6, PushIs
  <2> QED BY <1>3, <1>6, <2>1 DEF StackInv, Top
<1>7. /\ Plain("table") \in Screens /\ Plain("form") \in Screens
      /\ Plain("table") # Plain("default") /\ Plain("form") # Plain("default")
      /\ Plain("form") # Plain("welcome") /\ ~IsInfo(Plain("default"))
  BY PlainScreens DEF Kinds
<1>8. CASE Back
  <2>1. UNCHANGED sync /\ Top = Plain("table") /\ sync.pc = "idle"
    BY <1>8 DEF Back, OnTable
  <2>2. StackInv'
    BY <1>5, <1>7, <1>8, <2>1 DEF Back
  <2> QED BY <1>2, <1>4, <2>1, <2>2 DEF TypeInv, SyncTyped
<1>9. CASE OpenTable
  <2>1. UNCHANGED sync /\ Top = Plain("welcome") /\ stack' = Append(stack, Plain("table"))
    BY <1>9 DEF OpenTable
  <2>2. sync.pc # "form"
    BY <1>7, <2>1 DEF TypeInv, StackInv
  <2>3. StackInv'
    BY <1>6, <1>7, <2>1, <2>2
  <2> QED BY <1>2, <1>4, <2>1, <2>3 DEF TypeInv, SyncTyped
<1>10. CASE Begin
  <2>1. PICK delay \in BOOLEAN, s \in ProvisionableNodes \cup {<<n>> : n \in Free} :
          sync' = [pc |-> "form", todo |-> s, at |-> 1, delay |-> delay]
    BY <1>10 DEF Begin
  <2>2. Free # {} /\ stack' = Append(stack, Plain("form"))
    BY <1>10 DEF Begin
  <2>3. DOMAIN table.cells \subseteq Nodes
    BY DEF TypeInv, PageTyped
  <2>4. s \in Seq(Nodes) /\ Len(s) >= 1
    BY <2>2, <2>3, TodoIs
  <2>5. SyncTyped'
    BY <2>1, <2>4 DEF SyncTyped
  <2>6. StackInv'
    BY <1>6, <1>7, <2>2
  <2>7. provisioner # NoHyper
    BY <2>2 DEF TypeInv, JobTyped, Free
  <2> QED BY <1>2, <1>4, <2>5, <2>6, <2>7
<1>11. CASE Cancel
  <2>1. sync' = NoSync /\ sync.pc = "form" /\ stack' = Front(stack)
    BY <1>11 DEF Cancel
  <2>2. Top # Plain("default") /\ sync'.pc = "idle"
    BY <1>7, <2>1 DEF TypeInv, StackInv, NoSync
  <2>3. StackInv'
    BY <1>5, <2>1, <2>2
  <2> QED BY <1>2, <1>4, <2>1, <2>2, <2>3 DEF SyncTyped, NoSync
<1>12. CASE Submit
  <2>1. /\ sync.pc = "form" /\ sync' = [sync EXCEPT !.pc = "mount"]
        /\ stack' = Append(Front(stack), InfoScreen(Current, TotalSteps))
    BY <1>12 DEF Submit
  <2>2. /\ sync'.pc = "mount" /\ sync'.todo = sync.todo /\ sync'.at = sync.at
    BY <2>1 DEF TypeInv, Shape
  <2>3. Current \in Nodes
    BY <2>1 DEF TypeInv, SyncTyped, Current
  <2>4. Len(stack) >= 2
    BY <1>3, <1>7, <2>1 DEF TypeInv, StackInv
  <2>5. /\ Front(stack) \in Seq(Screens) /\ Len(Front(stack)) = Len(stack) - 1
        /\ Front(stack)[1] = stack[1]
    BY <1>3, <2>4, FrontIs
  <2>6. InfoScreen(Current, TotalSteps) \in Screens
    BY <2>3, TotalTyped
  <2>7. /\ stack' \in Seq(Screens) /\ Len(stack') = Len(stack)
        /\ stack'[1] = stack[1]
    BY <1>3, <2>1, <2>4, <2>5, <2>6, PushIs
  <2> QED BY <1>2, <1>3, <1>4, <2>1, <2>2, <2>7 DEF TypeInv, SyncTyped, StackInv
<1>13. CASE UserOk
  <2>1. /\ (sync.pc = "delay" /\ sync'.pc = "cancelled") \/ sync'.pc = sync.pc
        /\ sync'.todo = sync.todo /\ sync'.at = sync.at
        /\ stack' = Front(stack) /\ IsInfo(Top)
    BY <1>13 DEF UserOk, TypeInv, Shape
  <2>2. sync.pc # "form"
    BY <2>1, PlainScreens DEF TypeInv, StackInv, Kinds
  <2>3. StackInv'
    BY <1>5, <1>7, <2>1, <2>2
  <2> QED BY <1>2, <1>4, <2>1, <2>3 DEF TypeInv, SyncTyped
<1> QED BY <1>8, <1>9, <1>10, <1>11, <1>12, <1>13 DEF UserNext

LEMMA ProceedTyped ==
  ASSUME TypeInv, Quiet, sync.pc \notin {"idle", "form", "dead"},
         NEW pop \in BOOLEAN, Proceed(pop)
  PROVE  PageTyped' /\ StackInv' /\ SyncTyped' /\ JobTyped'
<1>1. /\ stack \in Seq(Screens) /\ Len(stack) \in Nat /\ Len(stack) >= 1
      /\ stack[1] = Plain("default")
  BY DEF TypeInv, StackInv
<1>2. PageTyped'
  BY QuietPage DEF TypeInv
<1>3. /\ Left(pop) \in Seq(Screens) /\ Len(Left(pop)) \in Nat
      /\ \A i \in 1..Len(Left(pop)) : Left(pop)[i] = stack[i]
  BY <1>1, LeftIs
<1>4. job' = NoJob
  BY <1>1, ProceedIs
<1>5. JobTyped'
  BY <1>4, StepsTyped DEF TypeInv, JobTyped, NoJob, Quiet, populateVars
<1>6. CASE Len(Left(pop)) = 0 /\ sync' = [NoSync EXCEPT !.pc = "dead"] /\ stack' = stack
  BY <1>1, <1>2, <1>5, <1>6 DEF SyncTyped, NoSync, StackInv
<1>7. CASE Len(Left(pop)) >= 1 /\ sync' = NoSync /\ stack' = Left(pop)
  BY <1>1, <1>2, <1>3, <1>5, <1>7 DEF SyncTyped, NoSync, StackInv
<1>8. CASE /\ Len(Left(pop)) >= 1 /\ ~IsLast
           /\ sync' = [sync EXCEPT !.pc = "mount", !.at = @ + 1]
           /\ stack' = Append(Left(pop),
                              InfoScreen(sync.todo[sync.at + 1], TotalSteps))
  <2>1. sync'.pc = "mount" /\ sync'.todo = sync.todo /\ sync'.at = sync.at + 1
    BY <1>8 DEF TypeInv, Shape
  <2>2. sync.at + 1 \in 1..Len(sync.todo) /\ sync.todo[sync.at + 1] \in Nodes
    BY <1>8 DEF TypeInv, SyncTyped, IsLast
  <2>3. InfoScreen(sync.todo[sync.at + 1], TotalSteps) \in Screens
    BY <2>2, TotalTyped
  <2>4. /\ stack' \in Seq(Screens) /\ Len(stack') >= 1
        /\ stack'[1] = Left(pop)[1]
    BY <1>3, <1>8, <2>3, PushIs
  <2> QED BY <1>1, <1>2, <1>3, <1>5, <1>8, <2>1, <2>2, <2>4
             DEF TypeInv, SyncTyped, StackInv
<1> QED BY <1>1, <1>6, <1>7, <1>8, ProceedIs

LEMMA WorkTyped ==
  ASSUME TypeInv, Start \/ SyncStep \/ JobStep
  PROVE  PageTyped' /\ StackInv' /\ SyncTyped' /\ JobTyped'
<1> USE StepsTyped
<1>1. CASE Start
  <2>1. /\ sync'.pc = "run" /\ sync'.todo = sync.todo /\ sync'.at = sync.at
        /\ sync.pc = "mount" /\ stack' = stack /\ Quiet
        /\ job' = [state |-> "running", on |-> provisioner, said |-> 0]
    BY <1>1 DEF Start, TypeInv, Shape, Quiet
  <2>2. PageTyped' /\ provisioner \in Hypers
    BY <2>1, QuietPage DEF TypeInv, JobTyped, PageTyped
  <2> QED BY <2>1, <2>2 DEF TypeInv, StackInv, SyncTyped, JobTyped, Quiet, populateVars
<1>2. CASE StopOnError
  BY <1>2, QuietPage DEF StopOnError, TypeInv, StackInv, SyncTyped, JobTyped, NoSync,
                         NoJob, Quiet, populateVars
<1>3. CASE Delay
  BY <1>3, QuietPage DEF Delay, TypeInv, Shape, StackInv, SyncTyped, JobTyped,
                         Quiet, populateVars
<1>4. CASE NoDelay \/ DelayEnds \/ DelayCancelled
  <2>1. NeedsPop \in BOOLEAN /\ CancelledNeedsPop \in BOOLEAN
    BY DEF NeedsPop, CancelledNeedsPop
  <2> QED BY <1>4, <2>1, ProceedTyped DEF NoDelay, DelayEnds, DelayCancelled, Quiet
<1>5. ASSUME NEW ok \in BOOLEAN, Callback(ok), sync.pc = "run", sync' = sync
      PROVE  StackInv' /\ SyncTyped'
  <2>1. /\ stack \in Seq(Screens) /\ Len(stack) \in Nat /\ Len(stack) >= 1
        /\ stack[1] = Plain("default") /\ ~IsInfo(stack[1])
    BY PlainScreens DEF TypeInv, StackInv, Kinds
  <2>2. /\ stack' \in Seq(Screens) /\ Len(stack') = Len(stack)
        /\ stack'[1] = stack[1]
    BY <1>5, <2>1, CallbackIs
  <2> QED BY <1>5, <2>1, <2>2 DEF TypeInv, StackInv, SyncTyped
<1>6. Messages \in Nat /\ Messages <= Steps + 1
  BY DEF Messages
<1>7. CASE Report
  <2>1. Quiet /\ job' = [state |-> job.state, on |-> job.on, said |-> job.said + 1]
    BY <1>7 DEF Report, Quiet, TypeInv, Shape
  <2>2. job.said + 1 \in 0..(Steps + 1)
    BY <1>6, <1>7 DEF Report, TypeInv, JobTyped
  <2>3. JobTyped'
    BY <1>7, <2>1, <2>2 DEF Report, TypeInv, JobTyped, Quiet, populateVars
  <2> QED BY <1>5, <1>7, <2>1, <2>3, QuietPage DEF Report, Running, TypeInv
<1>8. ASSUME Running PROVE <<job.on, Current>> \in Hypers \X Nodes
  BY <1>8 DEF Running, TypeInv, JobTyped, SyncTyped, Current
<1>9. CASE Fail
  <2>1. JobTyped'
    BY <1>9 DEF Fail, Running, TypeInv, Shape, JobTyped, populateVars
  <2>2. PageTyped'
    BY <1>8, <1>9 DEF Fail, TypeInv, PageTyped, populateVars
  <2> QED BY <1>5, <1>9, <2>1, <2>2 DEF Fail, Running
<1>10. CASE Succeed
  <2>1. /\ Running /\ made' = made \cup {<<job.on, Current>>}
        /\ UNCHANGED <<faults, populateVars>>
    BY <1>10 DEF Succeed
  <2>2. CASE Current \in DOMAIN table.cells
    <3>1. /\ table' = [of |-> table.of,
                       cells |-> [table.cells EXCEPT ![Current] = TRUE]]
          /\ job'.state = "ok" /\ job'.on = job.on /\ job'.said = job.said
          /\ UNCHANGED <<stack, sync>>
      BY <1>10, <2>2 DEF Succeed, TypeInv, Shape
    <3>2. \E rows \in SUBSET Nodes : table'.cells \in [rows -> BOOLEAN]
      BY <3>1 DEF TypeInv, PageTyped
    <3>3. PageTyped'
      BY <1>8, <2>1, <3>1, <3>2 DEF TypeInv, PageTyped, populateVars
    <3>4. DOMAIN table'.cells = DOMAIN table.cells
      BY <3>1
    <3>5. JobTyped'
      BY <2>1, <3>1, <3>4 DEF TypeInv, JobTyped, populateVars
    <3> QED BY <3>1, <3>3, <3>5 DEF TypeInv, StackInv, SyncTyped, Top
  <2>3. CASE Current \notin DOMAIN table.cells
    <3>1. /\ sync' = [NoSync EXCEPT !.pc = "dead"] /\ job' = NoJob
          /\ UNCHANGED <<stack, table>>
      BY <1>10, <2>3 DEF Succeed, Die
    <3>2. PageTyped'
      BY <1>8, <2>1, <3>1 DEF TypeInv, PageTyped, populateVars
    <3> QED BY <2>1, <3>1, <3>2 DEF TypeInv, JobTyped, StackInv, SyncTyped, NoSync,
                                    NoJob, populateVars
  <2> QED BY <2>2, <2>3
<1> QED BY <1>1, <1>2, <1>3, <1>4, <1>7, <1>9, <1>10 DEF SyncStep, JobStep

LEMMA FaultsKept == [Next]_vars => faults' = faults
  BY DEF Next, PopulateNext, UserNext, SyncStep, JobStep, Select, Connected,
         NotConnected, ShowCluster, Discover, NotDiscovered, Back, OpenTable,
         Begin, Cancel, Submit, UserOk, Start, StopOnError, Delay, NoDelay,
         DelayEnds, DelayCancelled, Report, Fail, Succeed, vars

LEMMA TypeStep == TypeInv /\ [Next]_vars => TypeInv'
<1> SUFFICES ASSUME TypeInv, [Next]_vars PROVE TypeInv'
  OBVIOUS
<1>1. Shape'
  BY ShapeStep DEF TypeInv
<1>2. CASE UNCHANGED vars
  BY <1>1, <1>2 DEF vars, TypeInv, PageTyped, StackInv, SyncTyped, JobTyped, Top
<1>3. CASE Next
  BY <1>1, <1>3, PopulateTyped, UserTyped, WorkTyped DEF Next, TypeInv
<1> QED BY <1>2, <1>3

LEMMA TypeInit == Init => TypeInv
<1> SUFFICES ASSUME Init PROVE TypeInv
  OBVIOUS
<1>1. Shape
  BY DEF Init, Shape, NoSync, NoJob, EmptyTable
<1>2. /\ table = [of |-> NoHyper, cells |-> <<>>] /\ DOMAIN table.cells = {}
      /\ table.cells \in [{} -> BOOLEAN]
  BY DEF Init, EmptyTable
<1>3. PageTyped
  <2>1. \E rows \in SUBSET Nodes : table.cells \in [rows -> BOOLEAN]
    BY <1>2
  <2>2. clusterStep \in BOOLEAN
    BY Zenon DEF Init
  <2>3. /\ faults \in FaultSets /\ provisioner = NoHyper /\ made = {}
    BY DEF Init
  <2> QED BY <1>2, <2>1, <2>2, <2>3 DEF PageTyped
<1>4. /\ Plain("default") \in Screens /\ Plain("welcome") \in Screens
      /\ Plain("table") \in Screens
  BY PlainScreens DEF Kinds
<1>5. StackInv
  BY <1>4 DEF Init, StackInv, NoSync
<1>6. SyncTyped
  BY DEF Init, SyncTyped, NoSync
<1>7. JobTyped
  BY <1>2, StepsTyped DEF Init, JobTyped, NoJob, NoSync
<1> QED BY <1>1, <1>3, <1>5, <1>6, <1>7 DEF TypeInv

THEOREM Typed == Spec => []TypeInv
BY TypeInit, TypeStep, PTL DEF Spec

(* The variables keep their types, whatever the faults: an info screen never
   counts more messages than it expects, a job always has a hypervisor, and the
   stack of screens is never empty. *)
THEOREM TypesKept == Spec => []TypeOK
<1>1. TypeInv => TypeOK
  <2> SUFFICES ASSUME TypeInv PROVE TypeOK
    OBVIOUS
  <2>1. stack # <<>> /\ \A s \in Range(stack) : s \in Screens
    BY DEF TypeInv, StackInv, Range
  <2> QED BY <2>1 DEF TypeInv, Shape, PageTyped, SyncTyped, JobTyped, TypeOK,
                      Screens, Kinds
<1> QED BY <1>1, Typed, PTL

-----------------------------------------------------------------------------
(* The pages stay. *)

(* Proceed pops no page if it pops an info screen, or nothing. *)
LEMMA ProceedKeepsPages ==
  ASSUME TypeInv, NEW pop \in BOOLEAN, Proceed(pop), pop => IsInfo(Top),
         sync.pc \notin {"idle", "dead"}
  PROVE  Pages' = Pages
<1> DEFINE l == Left(pop)
           P(s) == {<<i, s[i]>> : i \in {j \in DOMAIN s : ~IsInfo(s[j])}}
<1>1. /\ stack \in Seq(Screens) /\ Len(stack) \in Nat /\ Len(stack) >= 1
      /\ Top = stack[Len(stack)]
  BY DEF TypeInv, StackInv, Top, Last
<1>2. /\ l \in Seq(Screens) /\ Len(l) \in Nat
      /\ Len(l) = IF pop THEN Len(stack) - 1 ELSE Len(stack)
      /\ \A i \in 1..Len(l) : l[i] = stack[i]
  BY <1>1, LeftIs
<1> HIDE DEF l
<1>3. DOMAIN l = 1..Len(l) /\ DOMAIN stack = 1..Len(stack)
  BY <1>1, <1>2
<1>4. \A i : /\ i \in DOMAIN l /\ ~IsInfo(l[i]) <=>
                  i \in DOMAIN stack /\ ~IsInfo(stack[i])
             /\ i \in DOMAIN l => l[i] = stack[i]
  <2>1. /\ \A i : i \in 1..Len(l) => i \in 1..Len(stack) /\ i # Len(l) + 1
        /\ \A i : i \in 1..Len(stack) =>
                     i \in 1..Len(l) \/ (pop /\ i = Len(stack))
    BY <1>1, <1>2
  <2>2. \A i \in 1..Len(l) : l[i] = stack[i] /\ IsInfo(l[i]) = IsInfo(stack[i])
    BY <1>2
  <2>3. pop => IsInfo(stack[Len(stack)])
    BY <1>1
  <2> QED BY <1>3, <2>1, <2>2, <2>3, Zenon
<1>5. P(l) = P(stack)
  BY <1>4
<1>6. CASE stack' = stack
  BY <1>6 DEF Pages
<1>7. CASE stack' = l
  BY <1>5, <1>7 DEF Pages
<1>8. CASE ~IsLast /\ stack' = Append(l, InfoScreen(sync.todo[sync.at + 1], TotalSteps))
  <2> DEFINE x == InfoScreen(sync.todo[sync.at + 1], TotalSteps)
  <2>1. sync.todo[sync.at + 1] \in Nodes
    BY <1>8 DEF TypeInv, SyncTyped, IsLast
  <2>2. x \in Screens /\ IsInfo(x)
    BY <2>1, TotalTyped
  <2> HIDE DEF x
  <2>3. /\ stack' \in Seq(Screens) /\ Len(stack') = Len(l) + 1
        /\ \A i \in 1..Len(l) : stack'[i] = l[i]
        /\ stack'[Len(l) + 1] = x
    BY <1>2, <1>8, <2>2, PushIs DEF Last, x
  <2>4. DOMAIN stack' = 1..(Len(l) + 1)
    BY <2>3
  <2>5. \A i : /\ i \in DOMAIN stack' /\ ~IsInfo(stack'[i]) <=>
                    i \in DOMAIN l /\ ~IsInfo(l[i])
               /\ i \in DOMAIN l => stack'[i] = l[i]
    <3>1. \A i : i \in 1..(Len(l) + 1) <=> i \in 1..Len(l) \/ i = Len(l) + 1
      BY <1>2
    <3> QED BY <1>3, <2>2, <2>3, <2>4, <3>1
  <2>6. Pages' = P(stack')
    BY DEF Pages, IsInfo
  <2>7. P(stack') = P(l)
    BY <2>5
  <2> QED BY <1>5, <2>6, <2>7 DEF Pages
<1> QED BY <1>1, <1>6, <1>7, <1>8, ProceedIs DEF l

(* Whoever leaves the info screens alone has them where the worker looks. *)
LEMMA ModalStep ==
  ASSUME TypeInv, Modal, "dismiss" \notin faults, Next
  PROVE  Modal'
<1>1. /\ stack \in Seq(Screens) /\ Len(stack) \in Nat /\ Len(stack) >= 1
      /\ Top = stack[Len(stack)]
  BY DEF TypeInv, StackInv, Top, Last
<1>2. /\ ~IsInfo(Plain("default")) /\ ~IsInfo(Plain("welcome"))
      /\ ~IsInfo(Plain("table")) /\ ~IsInfo(Plain("form"))
      /\ Plain("table") # Plain("default") /\ Plain("table") # Plain("welcome")
      /\ Plain("form") # Plain("table") /\ Plain("welcome") # Plain("default")
      /\ Plain("table") \in Screens /\ Plain("form") \in Screens
      /\ Plain("form") # Plain("welcome")
  BY PlainScreens DEF Kinds
<1>0. /\ Len(stack) \in {2, 3, 4}
      /\ Len(stack) = 2 => Top = Plain("welcome")
      /\ Len(stack) = 3 => Top = Plain("table")
      /\ Len(stack) = 4 => IsInfo(Top) \/ (sync.pc = "form" /\ Top = Plain("form"))
  BY <1>1 DEF Modal, TypeInv, StackInv
<1>3. ASSUME stack' = stack, sync'.pc = sync.pc PROVE Modal'
  BY <1>3 DEF Modal, Top
<1>4. CASE PopulateNext
  BY <1>3, <1>4 DEF PopulateNext, Select, Connected, NotConnected, ShowCluster,
                    Discover, NotDiscovered
\* A step that leaves the screens up to the table as they are.
<1>5. ASSUME stack' \in Seq(Screens), Len(stack') \in 2..4,
             Len(stack') >= 3 => Len(stack) >= 3 \/ stack'[3] = Plain("table"),
             \A i \in 1..3 : i <= Len(stack') /\ i <= Len(stack) => stack'[i] = stack[i],
             Len(stack') = 4 /\ sync'.pc # "form" => IsInfo(stack'[4]),
             sync'.pc \notin {"idle", "dead"} => Len(stack') = 4,
             sync'.pc # "cancelled"
      PROVE  Modal'
  <2>1. Top' = stack'[Len(stack')]
    BY DEF Top, Last
  <2>2. /\ stack'[1] = Plain("default") /\ stack'[2] = Plain("welcome")
        /\ Len(stack') >= 3 => stack'[3] = Plain("table")
    BY <1>5, <1>1 DEF Modal
  <2>3. Len(stack') = 4 /\ sync'.pc # "form" => IsInfo(Top)'
    BY <1>5, <2>1 DEF IsInfo
  <2> QED BY <1>5, <2>2, <2>3 DEF Modal
<1>6. ASSUME Len(stack) >= 3, stack' = Front(stack), sync'.pc \in {"idle", "dead"}
      PROVE  Modal'
  <2>1. /\ stack' \in Seq(Screens) /\ Len(stack') = Len(stack) - 1
        /\ \A i \in 1..(Len(stack) - 1) : stack'[i] = stack[i]
    BY <1>1, <1>6, FrontIs
  <2>2. Len(stack') \in 2..3 /\ \A i \in 1..3 : i <= Len(stack') => i \in 1..(Len(stack) - 1)
    BY <1>1, <1>6, <2>1 DEF Modal
  <2> QED BY <1>5, <1>6, <2>1, <2>2
<1>7. ASSUME NEW x \in Screens, stack' = Append(stack, x),
             \/ Len(stack) = 2 /\ x = Plain("table") /\ sync'.pc = "idle"
             \/ Len(stack) = 3 /\ x = Plain("form") /\ sync'.pc = "form"
             \/ Len(stack) = 3 /\ IsInfo(x) /\ sync'.pc = "mount"
      PROVE  Modal'
  <2>1. /\ stack' \in Seq(Screens) /\ Len(stack') = Len(stack) + 1
        /\ \A i \in 1..Len(stack) : stack'[i] = stack[i]
        /\ stack'[Len(stack) + 1] = x
    BY <1>1, <1>7, PushIs DEF Last
  <2> QED BY <1>5, <1>7, <2>1
\* Its info screen gives way to the next one.
<1>8. ASSUME NEW x \in Screens, IsInfo(x), Len(stack) = 4, sync'.pc = "mount",
             stack' = Append(Front(stack), x)
      PROVE  Modal'
  <2>1. /\ stack' \in Seq(Screens) /\ Len(stack') = 4
        /\ \A i \in 1..3 : stack'[i] = stack[i]
        /\ stack'[4] = x
    <3>1. Len(stack) >= 1 /\ 1..(Len(stack) - 1) = 1..3
      BY <1>8
    <3>2. stack \in Seq(Screens)
      BY <1>1
    <3>3. /\ Append(Front(stack), x) \in Seq(Screens)
          /\ Len(Append(Front(stack), x)) = Len(stack)
          /\ \A i \in 1..(Len(stack) - 1) : Append(Front(stack), x)[i] = stack[i]
          /\ Append(Front(stack), x)[Len(stack)] = x
      BY <3>1, <3>2, ReplaceIs
    <3> QED BY <1>8, <3>1, <3>3
  <2> QED BY <1>5, <1>8, <2>1
<1>9. CASE Back
  <2>1. Len(stack) = 3 /\ sync' = sync /\ sync.pc = "idle" /\ stack' = Front(stack)
    BY <1>2, <1>0, <1>9 DEF Back, OnTable
  <2> QED BY <1>6, <2>1
<1>10. CASE OpenTable
  <2>1. /\ Len(stack) = 2 /\ sync' = sync /\ stack' = Append(stack, Plain("table"))
        /\ sync.pc = "idle"
    <3>1. Len(stack) = 2 /\ sync.pc # "dead"
      BY <1>2, <1>0, <1>10 DEF OpenTable, Alive
    <3> QED BY <1>10, <3>1 DEF OpenTable, Modal
  <2> QED BY <1>2, <1>7, <2>1
<1>11. CASE Begin
  <2>1. Len(stack) = 3 /\ sync'.pc = "form" /\ stack' = Append(stack, Plain("form"))
    <3>1. sync'.pc = "form"
      BY <1>11 DEF Begin
    <3> QED BY <1>2, <1>0, <1>11, <3>1 DEF Begin, OnTable, Busy
  <2> QED BY <1>2, <1>7, <2>1
<1>12. CASE Cancel
  <2>1. Len(stack) = 4 /\ sync'.pc = "idle" /\ stack' = Front(stack)
    BY <1>12 DEF Cancel, Modal, NoSync
  <2> QED BY <1>6, <2>1
<1>13. CASE Submit
  <2>1. /\ sync.pc = "form" /\ sync' = [sync EXCEPT !.pc = "mount"]
        /\ stack' = Append(Front(stack), InfoScreen(Current, TotalSteps))
    BY <1>13 DEF Submit
  <2>2. Len(stack) = 4 /\ sync'.pc = "mount" /\ Current \in Nodes
    BY <2>1 DEF Modal, TypeInv, Shape, SyncTyped, Current
  <2> QED BY <1>8, <2>1, <2>2, TotalTyped
<1>14. CASE UserOk
  <2>1. sync.pc = "idle" /\ sync' = sync /\ stack' = Front(stack) /\ IsInfo(Top)
    BY <1>14 DEF UserOk
  <2>2. Len(stack) >= 3
    BY <1>1, <1>2, <2>1 DEF Modal
  <2> QED BY <1>6, <2>1, <2>2
<1>15. ASSUME stack' = stack, sync'.pc # "form", sync'.pc # "cancelled",
              sync.pc \notin {"form"}, sync'.pc \in {"idle", "dead"} \/ Len(stack) = 4
       PROVE  Modal'
  BY <1>15 DEF Modal, Top
<1>16. CASE Start \/ StopOnError \/ Delay
  BY <1>15, <1>16 DEF Start, StopOnError, Delay, Modal, NoSync, TypeInv, Shape
<1>17. ASSUME sync.pc \in {"run", "delay"}, Proceed(NeedsPop)
       PROVE  Modal'
  <2>1. /\ NeedsPop \in BOOLEAN /\ Len(stack) = 4
        /\ ~NeedsPop => IsLast
    BY <1>17 DEF NeedsPop, Modal, TypeInv, SyncTyped, IsLast
  <2>2. Left(NeedsPop) = IF NeedsPop THEN Front(stack) ELSE stack
    BY DEF Left
  <2>3. Len(Left(NeedsPop)) # 0
    <3>1. Len(Left(NeedsPop)) = IF NeedsPop THEN Len(stack) - 1 ELSE Len(stack)
      BY <1>1, <2>1, LeftIs
    <3> QED BY <2>1, <3>1
  <2>4. CASE IsLast /\ sync' = NoSync /\ stack' = Left(NeedsPop)
    BY <1>6, <1>15, <1>17, <2>1, <2>2, <2>4 DEF NoSync
  <2>5. CASE /\ ~IsLast /\ sync' = [sync EXCEPT !.pc = "mount", !.at = @ + 1]
             /\ stack' = Append(Left(NeedsPop),
                                InfoScreen(sync.todo[sync.at + 1], TotalSteps))
    <3>1. sync.todo[sync.at + 1] \in Nodes /\ sync'.pc = "mount"
      BY <2>5 DEF TypeInv, Shape, SyncTyped, IsLast
    <3>2. stack' = Append(Front(stack), InfoScreen(sync.todo[sync.at + 1], TotalSteps))
      BY <2>1, <2>2, <2>5
    <3> QED BY <1>8, <2>1, <3>1, <3>2, TotalTyped
  <2> QED BY <1>1, <1>17, <2>1, <2>3, <2>4, <2>5, ProceedIs
<1>18. CASE NoDelay \/ DelayEnds \/ DelayCancelled
  BY <1>17, <1>18 DEF NoDelay, DelayEnds, DelayCancelled, Modal
<1>19. ASSUME NEW ok \in BOOLEAN, Callback(ok), sync' = sync, sync.pc = "run"
       PROVE  Modal'
  <2>1. /\ stack' \in Seq(Screens) /\ Len(stack') = Len(stack)
        /\ \A i \in 1..Len(stack) :
             /\ IsInfo(stack'[i]) = IsInfo(stack[i])
             /\ ~IsInfo(stack[i]) => stack'[i] = stack[i]
    BY <1>1, <1>19, StepsTyped, CallbackIs
  <2>2. Len(stack) = 4 /\ IsInfo(stack[4])
    BY <1>1, <1>19 DEF Modal
  <2>3. \A i \in 1..3 : ~IsInfo(stack[i])
    BY <1>2, <2>2 DEF Modal
  <2> QED BY <1>5, <1>19, <2>1, <2>2, <2>3
<1>20. CASE JobStep
  <2>1. CASE Report \/ Fail
    BY <1>19, <2>1 DEF Report, Fail, Running
  <2>2. CASE Succeed
    BY <1>3, <1>15, <2>2 DEF Succeed, Running, Die, NoSync, Modal
  <2> QED BY <1>20, <2>1, <2>2 DEF JobStep
<1> QED BY <1>4, <1>9, <1>10, <1>11, <1>12, <1>13, <1>14, <1>16, <1>18, <1>20
        DEF Next, UserNext, SyncStep

THEOREM Modals == Spec => []ModalInv
<1>1. Init => ModalInv
  <2> SUFFICES ASSUME Init PROVE Modal
    BY DEF ModalInv
  <2> QED BY DEF Init, Modal, NoSync
<1>2. TypeInv /\ ModalInv /\ [Next]_vars => ModalInv'
  <2> SUFFICES ASSUME TypeInv, ModalInv, [Next]_vars, "dismiss" \notin faults'
               PROVE  Modal'
    BY DEF ModalInv
  <2>1. "dismiss" \notin faults
    BY FaultsKept
  <2>2. Modal
    BY <2>1 DEF ModalInv
  <2>3. CASE UNCHANGED vars
    BY <2>2, <2>3 DEF vars, Modal, Top
  <2> QED BY <2>1, <2>2, <2>3, ModalStep
<1> QED BY <1>1, <1>2, Typed, PTL DEF Spec

(* A step of the Sync All worker that pops a screen pops its own info screen
   and every page stays, if the user leaves the info screens alone, and in the
   first node's countdown if he does not. *)
THEOREM OnlyInfosPopped == Spec => PopsOwnInfo
<1>1. TypeInv /\ ModalInv /\ [Next]_vars =>
        [SyncMoves /\ ("dismiss" \notin faults
                          \/ (sync.pc = "cancelled" /\ sync.at = 1))
           => Pages' = Pages]_vars
  <2> SUFFICES ASSUME TypeInv, ModalInv, [Next]_vars, SyncMoves,
                      \/ "dismiss" \notin faults
                      \/ sync.pc = "cancelled" /\ sync.at = 1
               PROVE  Pages' = Pages
    OBVIOUS
  <2>1. CASE StopOnError \/ Delay
    BY <2>1 DEF StopOnError, Delay, Pages
  <2>2. CASE DelayCancelled /\ sync.at = 1
    <3>1. CancelledNeedsPop = FALSE
      BY <2>2 DEF CancelledNeedsPop
    <3> QED BY <2>2, <3>1, ProceedKeepsPages DEF DelayCancelled
  <2>3. CASE "dismiss" \notin faults /\ (NoDelay \/ DelayEnds \/ DelayCancelled)
    <3>1. Modal /\ sync.pc # "cancelled"
      BY <2>3 DEF ModalInv, Modal
    <3>2. /\ sync.pc \in {"run", "delay"} /\ Proceed(NeedsPop)
          /\ NeedsPop \in BOOLEAN
      BY <2>3, <3>1 DEF NoDelay, DelayEnds, DelayCancelled, NeedsPop
    <3>3. IsInfo(Top)
      BY <3>1, <3>2 DEF Modal
    <3> QED BY <3>2, <3>3, ProceedKeepsPages
  <2> QED BY <2>1, <2>2, <2>3 DEF SyncMoves, SyncStep, NoDelay, DelayEnds
<1> QED BY <1>1, Typed, Modals, PTL DEF Spec, PopsOwnInfo

-----------------------------------------------------------------------------
(* The app stays intact. *)

LEMMA RowsStep ==
  ASSUME TypeInv, Waits, Modal, Rows, "overlap" \notin faults,
         "dismiss" \notin faults, Next
  PROVE  Rows'
<1>1. ASSUME sync'.pc = "idle" PROVE Rows'
  BY <1>1 DEF Rows
<1>2. ASSUME sync' = sync, DOMAIN table'.cells = DOMAIN table.cells PROVE Rows'
  BY <1>2 DEF Rows
<1>3. ASSUME sync'.todo = sync.todo, table' = table, sync'.pc # "dead",
             sync.pc # "idle"
      PROVE  Rows'
  BY <1>3 DEF Rows
<1>4. CASE PopulateNext
  <2>1. PICK h \in Hypers : \/ Select(h) \/ Connected(h) \/ NotConnected(h)
                            \/ ShowCluster(h) \/ Discover(h) \/ NotDiscovered(h)
    BY <1>4 DEF PopulateNext
  <2>2. sync' = sync
    BY <2>1 DEF Select, Connected, NotConnected, ShowCluster, Discover, NotDiscovered
  <2>3. sync.pc = "idle"
    <3>1. CASE Select(h)
      BY <3>1 DEF Select, Busy
    <3>2. CASE ~Select(h)
      <4>1. Populating
        BY <2>1, <3>2 DEF Connected, NotConnected, ShowCluster, Discover,
                          NotDiscovered, Populating
      <4> QED BY <4>1 DEF Waits, OneAtATime, Rows
    <3> QED BY <3>1, <3>2
  <2> QED BY <1>1, <2>2, <2>3
<1>5. CASE Back \/ OpenTable
  BY <1>2, <1>5 DEF Back, OpenTable
<1>6. CASE Begin
  <2>1. PICK delay \in BOOLEAN, s \in ProvisionableNodes \cup {<<n>> : n \in Free} :
          sync' = [pc |-> "form", todo |-> s, at |-> 1, delay |-> delay]
    BY <1>6 DEF Begin
  <2>2. Free # {} /\ table' = table
    BY <1>6 DEF Begin
  <2>3. DOMAIN table.cells \subseteq Nodes
    BY DEF TypeInv, PageTyped
  <2>4. Range(s) \subseteq Free
    BY <2>2, <2>3, TodoIs
  <2> QED BY <2>1, <2>2, <2>4 DEF Rows, Free
<1>7. CASE Cancel \/ StopOnError
  BY <1>1, <1>7 DEF Cancel, StopOnError, NoSync
<1>8. CASE Submit \/ UserOk \/ Start \/ Delay
  BY <1>2, <1>3, <1>8 DEF Submit, UserOk, Start, Delay, TypeInv, Shape
<1>9. CASE NoDelay \/ DelayEnds \/ DelayCancelled
  <2>1. /\ NeedsPop \in BOOLEAN /\ Proceed(NeedsPop) /\ table' = table
        /\ sync.pc \in {"run", "delay"}
    BY <1>9 DEF NoDelay, DelayEnds, DelayCancelled, NeedsPop, Modal
  <2>2. stack \in Seq(Screens) /\ Len(stack) = 4
    BY <2>1 DEF TypeInv, StackInv, Modal
  <2>3. Len(Left(NeedsPop)) # 0
    <3>1. Len(Left(NeedsPop)) = IF NeedsPop THEN Len(stack) - 1 ELSE Len(stack)
      BY <2>1, <2>2, LeftIs
    <3> QED BY <2>2, <3>1
  <2>4. sync' = NoSync \/ sync' = [sync EXCEPT !.pc = "mount", !.at = @ + 1]
    BY <2>1, <2>2, <2>3, ProceedIs
  <2>5. CASE sync' = NoSync
    BY <1>1, <2>5 DEF NoSync
  <2>6. CASE sync' = [sync EXCEPT !.pc = "mount", !.at = @ + 1]
    <3>1. sync'.todo = sync.todo /\ sync'.pc = "mount"
      BY <2>6 DEF TypeInv, Shape
    <3> QED BY <1>3, <2>1, <3>1
  <2> QED BY <2>4, <2>5, <2>6
<1>10. CASE Report \/ Fail
  BY <1>2, <1>10 DEF Report, Fail
<1>11. CASE Succeed
  <2>1. Current \in DOMAIN table.cells
    BY <1>11 DEF Succeed, Running, Rows, TypeInv, SyncTyped, Current, Range
  <2>2. sync' = sync /\ table' = [table EXCEPT !.cells = [table.cells EXCEPT ![Current] = TRUE]]
    BY <1>11, <2>1 DEF Succeed
  <2>3. table'.cells = [table.cells EXCEPT ![Current] = TRUE]
    BY <2>2 DEF TypeInv, Shape
  <2> QED BY <1>2, <2>2, <2>3
<1> QED BY <1>4, <1>5, <1>6, <1>7, <1>8, <1>9, <1>10, <1>11
        DEF Next, UserNext, SyncStep, JobStep

LEMMA WaitsHere == SyncInv /\ "overlap" \notin faults => Waits
  BY DEF SyncInv, Waits

THEOREM RowsKept == Spec => []RowsInv
<1>1. Init => RowsInv
  BY DEF Init, RowsInv, Rows, NoSync
<1>2. TypeInv /\ SyncInv /\ ModalInv /\ RowsInv /\ [Next]_vars => RowsInv'
  <2> SUFFICES ASSUME TypeInv, SyncInv, ModalInv, RowsInv, [Next]_vars,
                      "overlap" \notin faults', "dismiss" \notin faults'
               PROVE  Rows'
    BY DEF RowsInv
  <2>1. "overlap" \notin faults /\ "dismiss" \notin faults
    BY FaultsKept
  <2>2. Waits /\ Modal /\ Rows
    BY <2>1, WaitsHere DEF ModalInv, RowsInv
  <2>3. CASE UNCHANGED vars
    BY <2>2, <2>3 DEF vars, Rows
  <2> QED BY <2>1, <2>2, <2>3, RowsStep
<1> QED BY <1>1, <1>2, Typed, Inductive, Modals, PTL DEF Spec

(* A user who waits for the table and leaves the info screens alone never sees
   the app die of an uncaught exception nor a blank screen, and a modal screen
   is only ever over the table. *)
THEOREM StaysIntact == Spec => []AppIntact
<1>1. TypeInv /\ ModalInv /\ RowsInv => AppIntact
  <2> SUFFICES ASSUME TypeInv, ModalInv, RowsInv,
                      "overlap" \notin faults, "dismiss" \notin faults
               PROVE  /\ Alive /\ Top # Plain("default")
                      /\ \A i \in DOMAIN stack :
                           IsInfo(stack[i]) \/ stack[i] = Plain("form") =>
                             stack[i - 1] = Plain("table") /\ i = Len(stack)
    BY DEF AppIntact
  <2>1. Modal /\ Rows
    BY DEF ModalInv, RowsInv
  <2>2. /\ ~IsInfo(Plain("default")) /\ ~IsInfo(Plain("welcome"))
        /\ ~IsInfo(Plain("table")) /\ ~IsInfo(Plain("form"))
        /\ Plain("table") # Plain("default") /\ Plain("welcome") # Plain("default")
        /\ Plain("form") # Plain("default") /\ Plain("form") # Plain("welcome")
        /\ Plain("form") # Plain("table")
    BY PlainScreens DEF Kinds
  <2>3. /\ stack \in Seq(Screens) /\ Top = stack[Len(stack)]
        /\ Len(stack) = 2 \/ Len(stack) = 3 \/ Len(stack) = 4
        /\ DOMAIN stack = 1..Len(stack)
    BY <2>1 DEF TypeInv, StackInv, Top, Last, Modal
  <2>4. /\ Len(stack) = 2 => Top = Plain("welcome")
        /\ Len(stack) = 3 => Top = Plain("table")
        /\ Len(stack) = 4 => IsInfo(Top) \/ Top = Plain("form")
    BY <2>1, <2>3 DEF Modal, TypeInv, StackInv
  <2>5. Alive /\ Top # Plain("default")
    BY <2>1, <2>2, <2>3, <2>4 DEF Rows, Alive
  <2>6. ASSUME NEW i \in DOMAIN stack, IsInfo(stack[i]) \/ stack[i] = Plain("form")
        PROVE  stack[i - 1] = Plain("table") /\ i = Len(stack)
    <3>1. i = 1 \/ i = 2 \/ i = 3 \/ i = 4
      BY <2>3
    <3>2. i # 1 /\ i # 2 /\ i # 3
      BY <2>1, <2>2, <2>3, <2>6 DEF Modal
    <3>3. i = 4 /\ Len(stack) = 4 /\ i - 1 = 3
      BY <2>3, <3>1, <3>2
    <3> QED BY <2>1, <3>3 DEF Modal
  <2> QED BY <2>5, <2>6
<1> QED BY <1>1, Typed, Modals, RowsKept, PTL

-----------------------------------------------------------------------------
(* The info screen tells the truth. *)

LEMMA ClusterStep ==
  ASSUME TypeInv, Waits, ClusterKnown, "overlap" \notin faults,
         "unreadable" \notin faults, Next
  PROVE  ClusterKnown'
<1> USE DEF TypeInv, Shape
<1> DEFINE Idle == sync.pc \in {"idle", "dead"}
           Asked == ~Populating /\ Free # {}
<1>1. ASSUME clusterStep' = clusterStep
      PROVE  \A h : Known(h)' <=> Known(h)
  BY <1>1 DEF Known
<1>2. CASE PopulateNext
  <2>1. PICK h \in Hypers : \/ Select(h) \/ Connected(h) \/ NotConnected(h)
                            \/ ShowCluster(h) \/ Discover(h) \/ NotDiscovered(h)
    BY <1>2 DEF PopulateNext
  <2>2. sync' = sync
    BY <2>1 DEF Select, Connected, NotConnected, ShowCluster, Discover, NotDiscovered
  <2>3. Idle
    <3>1. CASE Select(h)
      BY <3>1 DEF Select, Busy
    <3>2. CASE ~Select(h)
      <4>1. Populating
        BY <2>1, <3>2 DEF Connected, NotConnected, ShowCluster, Discover,
                          NotDiscovered, Populating
      <4> QED BY <4>1 DEF Waits, OneAtATime
    <3> QED BY <3>1, <3>2
  <2>4. \A g \in Hypers : populate[g] # "none" /\ populate[h] # "none" => g = h
    BY DEF Waits, OneAtATime
  <2>5. CASE Select(h) \/ Connected(h)
    <3>1. clusterStep' = clusterStep /\ populate'[h] \in {"connect", "cluster"}
      BY <2>5 DEF Select, Connected, PopulateTo
    <3>2. Populating'
      BY <3>1 DEF Populating
    <3>3. \A g \in Hypers : populate'[g] = "discover" => populate[g] = "discover"
      BY <2>5 DEF Select, Connected, PopulateTo
    <3>4. \A g \in Hypers : populate'[g] = "discover" => Known(g)'
      BY <1>1, <3>1, <3>3 DEF ClusterKnown
    <3> QED BY <2>2, <2>3, <3>2, <3>4 DEF ClusterKnown
  <2>6. CASE NotConnected(h) \/ NotDiscovered(h)
    <3>1. table' = EmptyTable /\ populate[h] # "none" /\ populate' = [populate EXCEPT ![h] = "none"]
      BY <2>6 DEF NotConnected, NotDiscovered, PopulateTo, ClearTable
    <3>2. Free' = {}
      BY <3>1 DEF Free, EmptyTable
    <3>3. \A g \in Hypers : populate'[g] = "none"
      BY <2>4, <3>1
    <3> QED BY <2>2, <2>3, <3>2, <3>3 DEF ClusterKnown
  <2>7. CASE ShowCluster(h)
    <3>1. /\ populate[h] # "none" /\ populate' = [populate EXCEPT ![h] = "discover"]
          /\ clusterStep' = (h \in Clustered)
      BY <2>7 DEF ShowCluster, PopulateTo
    <3>2. Known(h)'
      BY <3>1, Zenon DEF Known
    <3>3. \A g \in Hypers : populate'[g] = "discover" => g = h
      BY <2>4, <3>1
    <3>4. Populating'
      BY <3>1 DEF Populating
    <3> QED BY <2>2, <2>3, <3>2, <3>3, <3>4 DEF ClusterKnown
  <2>8. CASE Discover(h)
    <3>1. /\ populate[h] = "discover" /\ populate' = [populate EXCEPT ![h] = "none"]
          /\ UNCHANGED <<clusterStep, provisioner>>
      BY <2>8 DEF Discover, PopulateTo
    <3>2. provisioner = h /\ Known(h)
      BY <3>1 DEF Waits, ProvisionerKnown, ClusterKnown
    <3>3. Known(provisioner)'
      BY <1>1, <3>1, <3>2
    <3>4. \A g \in Hypers : populate'[g] = "none"
      BY <2>4, <3>1
    <3> QED BY <3>3, <3>4 DEF ClusterKnown
  <2> QED BY <2>1, <2>5, <2>6, <2>7, <2>8
<1>3. ASSUME UNCHANGED populateVars,
             Asked' \/ ~Idle' => Asked \/ ~Idle
      PROVE  ClusterKnown'
  <2>1. \A g : Known(g)' <=> Known(g)
    BY <1>1, <1>3 DEF populateVars
  <2>2. UNCHANGED <<populate, provisioner>>
    BY <1>3 DEF populateVars
  <2>3. Known(provisioner)' <=> Known(provisioner)
    BY <2>1, <2>2
  <2>4. \A g \in Hypers : populate'[g] = "discover" => Known(g)'
    BY <2>1, <2>2 DEF ClusterKnown
  <2>5. Asked' \/ ~Idle' => Known(provisioner)'
    BY <1>3, <2>3 DEF ClusterKnown
  <2> QED BY <2>4, <2>5 DEF ClusterKnown
<1>4. CASE UserNext \/ Start \/ SyncStep
  <2>1. UNCHANGED populateVars /\ table' = table
    BY <1>4 DEF UserNext, SyncStep, Back, OpenTable, Begin, Cancel, Submit, UserOk,
                Start, StopOnError, Delay, NoDelay, DelayEnds, DelayCancelled
  <2>2. Asked' <=> Asked
    BY <2>1 DEF Populating, Free, populateVars
  <2>3. CASE Begin
    <3>1. Asked
      BY <2>3 DEF Begin
    <3> QED BY <1>3, <2>1, <3>1
  <2>4. CASE ~Begin
    <3>1. ~Idle' => ~Idle
      BY <1>4, <2>4 DEF UserNext, SyncStep, Back, OpenTable, Cancel, Submit, UserOk,
                Start, StopOnError, Delay, NoDelay, DelayEnds, DelayCancelled
    <3> QED BY <1>3, <2>1, <2>2, <3>1
  <2> QED BY <2>3, <2>4
<1>5. CASE JobStep
  BY <1>3, <1>5 DEF JobStep, Report, Fail, Succeed, Running
<1> QED BY <1>2, <1>4, <1>5 DEF Next

LEMMA JobOfStep == TypeInv /\ JobOf /\ Next => JobOf'
<1> SUFFICES ASSUME TypeInv, JobOf, Next PROVE JobOf'
  OBVIOUS
<1> USE DEF TypeInv, Shape
<1>1. ASSUME sync'.pc \in {"idle", "mount", "dead"}, job' = NoJob PROVE JobOf'
  BY <1>1 DEF JobOf, NoJob
<1>2. ASSUME UNCHANGED <<job, sync>> PROVE JobOf'
  BY <1>2 DEF JobOf
<1>3. CASE PopulateNext
  BY <1>2, <1>3 DEF PopulateNext, Select, Connected, NotConnected, ShowCluster,
                    Discover, NotDiscovered
<1>4. CASE Back \/ OpenTable
  BY <1>2, <1>4 DEF Back, OpenTable
<1>5. CASE Begin \/ Cancel \/ Submit \/ UserOk
  BY <1>5 DEF Begin, Busy, Cancel, NoSync, Submit, UserOk, JobOf
<1>6. CASE Start \/ StopOnError \/ Delay
  BY <1>1, <1>6 DEF Start, StopOnError, NoSync, Delay, JobOf
<1>7. ASSUME NEW pop \in BOOLEAN, Proceed(pop) PROVE JobOf'
  <2>1. stack \in Seq(Screens) /\ Len(stack) >= 1
    BY DEF StackInv
  <2>2. job' = NoJob
    BY <1>7, <2>1, ProceedIs
  <2>3. \/ sync' = NoSync \/ sync' = [NoSync EXCEPT !.pc = "dead"]
        \/ sync' = [sync EXCEPT !.pc = "mount", !.at = @ + 1]
    BY <1>7, <2>1, ProceedIs
  <2>4. CASE sync' = NoSync \/ sync' = [NoSync EXCEPT !.pc = "dead"]
    BY <1>1, <2>2, <2>4 DEF NoSync
  <2>5. CASE sync' = [sync EXCEPT !.pc = "mount", !.at = @ + 1]
    <3>1. sync'.pc = "mount"
      BY <2>5
    <3> QED BY <1>1, <2>2, <3>1
  <2> QED BY <2>3, <2>4, <2>5
<1>8. CASE NoDelay \/ DelayEnds \/ DelayCancelled
  <2>1. NeedsPop \in BOOLEAN /\ CancelledNeedsPop \in BOOLEAN
    BY DEF NeedsPop, CancelledNeedsPop
  <2> QED BY <1>7, <1>8, <2>1 DEF NoDelay, DelayEnds, DelayCancelled
<1>9. CASE Report \/ Fail
  BY <1>9 DEF Report, Fail, Running, JobOf
<1>10. CASE Succeed
  BY <1>1, <1>10 DEF Succeed, Running, Die, NoSync, JobOf
<1> QED BY <1>3, <1>4, <1>5, <1>6, <1>8, <1>9, <1>10
        DEF Next, UserNext, SyncStep, JobStep

(* A message an info screen still waits for is counted. *)
LEMMA CountedIs ==
  ASSUME NEW s \in Screens, IsInfo(s), ~Finished(s), ~s.failed, NEW ok \in BOOLEAN
  PROVE  LET u == UpdateCallback(s, ok) IN
         u.total = s.total /\ u.completed = s.completed + 1 /\ u.failed = ~ok
<1>1. s \in Infos
  BY DEF Screens, Plain, IsInfo, Kinds
<1> QED BY <1>1 DEF UpdateCallback, Infos

LEMMA TellsStep ==
  ASSUME TypeInv, Waits, ClusterKnown, JobOf, Tells, "overlap" \notin faults, Next
  PROVE  Tells'
<1> DEFINE Clear(s) == \A i \in DOMAIN s : ~IsInfo(s[i])
<1>1. /\ stack \in Seq(Screens) /\ Len(stack) \in Nat /\ Len(stack) >= 1
      /\ Top = stack[Len(stack)] /\ stack[1] = Plain("default")
      /\ DOMAIN stack = 1..Len(stack)
  BY DEF TypeInv, StackInv, Top, Last
<1>2. /\ ~IsInfo(Plain("default")) /\ ~IsInfo(Plain("welcome"))
      /\ ~IsInfo(Plain("table")) /\ ~IsInfo(Plain("form"))
      /\ Plain("table") \in Screens /\ Plain("form") \in Screens
  BY PlainScreens DEF Kinds
<1>3. ~IsInfo(Top) => Clear(stack)
  BY <1>1 DEF Tells, InfoOnTop
<1>4. /\ Front(stack) \in Seq(Screens) /\ Len(Front(stack)) = Len(stack) - 1
      /\ Clear(Front(stack))
  <2>1. /\ Front(stack) \in Seq(Screens) /\ Len(Front(stack)) = Len(stack) - 1
        /\ \A i \in 1..(Len(stack) - 1) : Front(stack)[i] = stack[i]
    BY <1>1, FrontIs
  <2>2. DOMAIN Front(stack) = 1..(Len(stack) - 1)
    BY <2>1
  <2>3. \A i \in 1..(Len(stack) - 1) : ~IsInfo(stack[i])
    BY <1>1 DEF Tells, InfoOnTop
  <2> QED BY <2>1, <2>2, <2>3
<1>5. ASSUME stack' \in Seq(Screens), Len(stack') >= 1, Clear(stack')
      PROVE  Tells'
  <2>1. Top' = stack'[Len(stack')] /\ Len(stack') \in DOMAIN stack'
    BY <1>5 DEF Top, Last
  <2> QED BY <1>5, <2>1 DEF Tells, InfoOnTop, IsInfo
<1>6. ASSUME NEW s \in Seq(Screens), Clear(s), NEW x \in Screens,
             stack' = Append(s, x), IsInfo(x) => Counts(x)'
      PROVE  Tells'
  <2>1. /\ stack' \in Seq(Screens) /\ Len(stack') = Len(s) + 1
        /\ \A i \in 1..Len(s) : stack'[i] = s[i]
        /\ stack'[Len(s) + 1] = x
    BY <1>6, PushIs
  <2>2. Top' = x /\ DOMAIN stack' = 1..(Len(s) + 1) /\ DOMAIN s = 1..Len(s)
    BY <2>1 DEF Top, Last
  <2>3. \A i \in DOMAIN stack' : IsInfo(stack'[i]) => i = Len(stack')
    BY <1>6, <2>1, <2>2
  <2>4. InfoOnTop'
    BY <2>3 DEF InfoOnTop, IsInfo
  <2>5. IsInfo(Top)' => Counts(Top)'
    BY <1>6, <2>2 DEF IsInfo, Counts, Finished, OkVisible
  <2> QED BY <2>4, <2>5 DEF Tells
<1>7. ASSUME stack' = stack, IsInfo(Top) => Counts(Top)' PROVE Tells'
  BY <1>7 DEF Tells, InfoOnTop, Top
<1>8. CASE PopulateNext
  <2>1. PICK h \in Hypers : \/ Select(h) \/ Connected(h) \/ NotConnected(h)
                            \/ ShowCluster(h) \/ Discover(h) \/ NotDiscovered(h)
    BY <1>8 DEF PopulateNext
  <2>2. UNCHANGED <<sync, stack, job>>
    BY <2>1 DEF Select, Connected, NotConnected, ShowCluster, Discover, NotDiscovered
  <2>3. sync.pc # "mount"
    <3>1. CASE Select(h)
      BY <3>1 DEF Select, Busy
    <3>2. CASE ~Select(h)
      <4>1. Populating
        BY <2>1, <3>2 DEF Connected, NotConnected, ShowCluster, Discover,
                          NotDiscovered, Populating
      <4> QED BY <4>1 DEF Waits, OneAtATime
    <3> QED BY <3>1, <3>2
  <2> QED BY <1>7, <2>2, <2>3 DEF Tells, Counts, Messages, Top
<1>9. CASE Back
  <2>1. stack' = Front(stack) /\ Top = Plain("table")
    BY <1>9 DEF Back, OnTable
  <2>2. Len(stack) >= 2
    <3>1. Plain("table") # Plain("default")
      BY PlainScreens DEF Kinds
    <3>2. Len(stack) # 1
      BY <1>1, <2>1, <3>1
    <3> QED BY <1>1, <3>2
  <2> QED BY <1>4, <1>5, <2>1, <2>2
<1>10. CASE OpenTable \/ Begin
  <2>1. PICK x \in {Plain("table"), Plain("form")} : stack' = Append(stack, x)
    BY <1>10 DEF OpenTable, Begin
  <2>2. Clear(stack)
    BY <1>2, <1>3, <1>10 DEF OpenTable, Begin, OnTable
  <2> QED BY <1>1, <1>2, <1>6, <2>1, <2>2
<1>11. CASE Cancel \/ UserOk
  <2>1. stack' = Front(stack) /\ Top # Plain("default")
    <3>1. Plain("form") # Plain("default")
      BY PlainScreens DEF Kinds
    <3> QED BY <1>2, <1>11, <3>1 DEF Cancel, UserOk, TypeInv, StackInv
  <2>2. Len(stack) >= 2
    BY <1>1, <2>1
  <2> QED BY <1>4, <1>5, <2>1, <2>2
<1>12. ASSUME sync'.pc = "mount", job'.state = "none", NEW n \in Nodes,
              UNCHANGED populateVars, NEW s \in Seq(Screens), Clear(s),
              stack' = Append(s, InfoScreen(n, TotalSteps))
       PROVE  Tells'
  <2>1. TotalSteps' = TotalSteps
    BY <1>12 DEF TotalSteps, populateVars
  <2>2. PICK x \in Screens : x = InfoScreen(n, TotalSteps)
    BY TotalTyped
  <2>3. x.total = TotalSteps /\ x.completed = 0 /\ x.failed = FALSE
    BY <2>2 DEF InfoScreen
  <2>4. Counts(x)'
    BY <1>12, <2>1, <2>3 DEF Counts
  <2> QED BY <1>6, <1>12, <2>2, <2>4
<1>13. CASE Submit
  <2>1. /\ stack' = Append(Front(stack), InfoScreen(Current, TotalSteps))
        /\ sync.pc = "form" /\ sync'.pc = "mount" /\ job' = job
        /\ UNCHANGED populateVars
    BY <1>13 DEF Submit, TypeInv, Shape
  <2>2. Current \in Nodes /\ job.state = "none"
    BY <2>1 DEF TypeInv, SyncTyped, Current, JobOf
  <2> QED BY <1>4, <1>12, <2>1, <2>2
<1>14. CASE Start
  <2>1. /\ sync.pc = "mount" /\ sync'.pc = "run" /\ stack' = stack
        /\ job' = [state |-> "running", on |-> provisioner, said |-> 0]
        /\ UNCHANGED populateVars
    BY <1>14 DEF Start, TypeInv, Shape
  <2>2. Known(provisioner)
    BY <2>1 DEF ClusterKnown
  <2>3. Messages' = TotalSteps
    BY <2>1, <2>2 DEF Messages, TotalSteps, Known
  <2>4. PICK u : u = Top
    OBVIOUS
  <2>5. IsInfo(u) => u.total = TotalSteps /\ u.completed = 0 /\ ~u.failed
    BY <2>1, <2>4 DEF Tells, Counts
  <2>6. job'.state = "running" /\ job'.said = 0
    BY <2>1
  <2>7. IsInfo(u) => Counts(u)'
    BY <2>1, <2>3, <2>5, <2>6 DEF Counts
  <2>8. Top' = u
    BY <2>1, <2>4 DEF Top
  <2>9. IsInfo(Top) => Counts(Top)'
    BY <2>4, <2>7, <2>8 DEF Counts, Finished, OkVisible
  <2> QED BY <1>7, <2>1, <2>9
<1>15. ASSUME stack' = stack, job' = NoJob, sync'.pc \in {"idle", "dead"},
              sync'.pc = "idle" /\ IsInfo(Top) => OkVisible(Top)
       PROVE  Tells'
  BY <1>7, <1>15 DEF Counts, NoJob, OkVisible, Finished, Top
<1>16. CASE StopOnError
  BY <1>15, <1>16 DEF StopOnError, NoSync, Tells, Counts, OkVisible
<1>17. CASE Delay
  <2>1. /\ UNCHANGED <<stack, job>> /\ job.state = "ok" /\ sync'.pc = "delay"
    BY <1>17 DEF Delay, TypeInv, Shape
  <2> QED BY <1>7, <2>1 DEF Tells, Counts, Finished, Top
<1>18. ASSUME NEW pop \in BOOLEAN, Proceed(pop), UNCHANGED populateVars,
              pop \/ IsLast \/ ~IsInfo(Top),
              IsInfo(Top) => job.state = "ok",
              sync.pc \notin {"idle", "dead"}
       PROVE  Tells'
  <2>1. /\ Left(pop) \in Seq(Screens)
        /\ Left(pop) = IF pop THEN Front(stack) ELSE stack
    BY <1>1, LeftIs DEF Left
  <2>2. IsInfo(Top) => OkVisible(Top)
    BY <1>18 DEF Tells, Counts, OkVisible
  <2>3. job' = NoJob
    BY <1>1, <1>18, ProceedIs
  <2>4. CASE sync' = [NoSync EXCEPT !.pc = "dead"] /\ stack' = stack
    BY <1>15, <2>3, <2>4 DEF NoSync
  <2>5. CASE Len(Left(pop)) >= 1 /\ sync' = NoSync /\ stack' = Left(pop)
    <3>1. CASE pop
      BY <1>4, <1>5, <2>1, <2>5, <3>1
    <3>2. CASE ~pop
      BY <1>15, <2>1, <2>2, <2>3, <2>5, <3>2 DEF NoSync
    <3> QED BY <3>1, <3>2
  <2>6. CASE /\ ~IsLast /\ sync' = [sync EXCEPT !.pc = "mount", !.at = @ + 1]
             /\ stack' = Append(Left(pop),
                                InfoScreen(sync.todo[sync.at + 1], TotalSteps))
    <3>1. sync.todo[sync.at + 1] \in Nodes
      BY <2>6 DEF TypeInv, SyncTyped, IsLast
    <3>2. sync'.pc = "mount" /\ job'.state = "none"
      BY <2>3, <2>6 DEF TypeInv, Shape, NoJob
    <3>3. Clear(Left(pop))
      <4>1. CASE pop
        BY <1>4, <2>1, <4>1
      <4>2. CASE ~pop
        BY <1>3, <1>18, <2>1, <2>6, <4>2
      <4> QED BY <4>1, <4>2
    <3> HIDE DEF Clear
    <3> QED BY <1>12, <1>18, <2>1, <2>6, <3>1, <3>2, <3>3
  <2> QED BY <1>1, <1>18, <2>4, <2>5, <2>6, ProceedIs
<1>19. CASE NoDelay \/ DelayEnds
  <2>1. NeedsPop \in BOOLEAN /\ Proceed(NeedsPop) /\ UNCHANGED populateVars
    BY <1>19 DEF NoDelay, DelayEnds, NeedsPop
  <2>2. job.state = "ok" /\ sync.pc \in {"run", "delay"}
    BY <1>19 DEF NoDelay, DelayEnds, JobOf, TypeInv, JobTyped
  <2>3. NeedsPop \/ IsLast
    BY <2>2 DEF NeedsPop, IsLast, TypeInv, SyncTyped
  <2> QED BY <1>18, <2>1, <2>2, <2>3
<1>20. CASE DelayCancelled
  <2>1. /\ CancelledNeedsPop \in BOOLEAN /\ Proceed(CancelledNeedsPop)
        /\ UNCHANGED populateVars /\ sync.pc = "cancelled"
    BY <1>20 DEF DelayCancelled, CancelledNeedsPop
  <2>2. ~IsInfo(Top)
    BY <2>1 DEF Tells, Counts
  <2> QED BY <1>18, <2>1, <2>2
\* What a message makes of the info screen on top.
<1>21. ASSUME NEW ok \in BOOLEAN, Callback(ok), Running, job.said < Messages,
              UNCHANGED sync,
              \/ ok = TRUE /\ job' = [job EXCEPT !.said = @ + 1]
              \/ ok = FALSE /\ job' = [job EXCEPT !.state = "failed"]
       PROVE  Tells'
  <2>1. /\ stack' \in Seq(Screens) /\ Len(stack') = Len(stack)
        /\ \A i \in 1..Len(stack) :
             /\ stack'[i] = UpdateCallback(stack[i], ok)
             /\ IsInfo(stack'[i]) = IsInfo(stack[i])
             /\ ~IsInfo(stack[i]) => stack'[i] = stack[i]
    BY <1>1, <1>21, StepsTyped, CallbackIs
  <2>2. CASE ~IsInfo(Top)
    <3>1. Clear(stack)
      BY <1>3, <2>2
    <3>2. DOMAIN stack' = 1..Len(stack)
      BY <2>1
    <3>3. Clear(stack')
      BY <1>1, <2>1, <3>1, <3>2
    <3> QED BY <1>1, <1>5, <2>1, <3>3
  <2>3. CASE IsInfo(Top)
    <3>1. /\ Counts(Top) /\ sync.pc = "run" /\ job.state = "running"
          /\ Top \in Screens
      BY <1>1, <1>21, <2>3 DEF Tells, Running
    <3>2. /\ Top.total = Messages /\ Top.completed = job.said /\ Top.failed = FALSE
          /\ job.said \in Nat /\ Messages \in Nat
      <4>1. Top \in Infos
        BY <2>3, <3>1 DEF Screens, Plain, IsInfo, Kinds
      <4>2. Top.failed \in BOOLEAN
        BY <4>1 DEF Infos
      <4> QED BY <3>1, <4>2, StepsTyped DEF Counts, TypeInv, JobTyped, Messages
    <3>3. ~Finished(Top) /\ ~Top.failed
      BY <1>21, <3>2 DEF Finished
    <3>4. PICK u : u = UpdateCallback(Top, ok)
      OBVIOUS
    <3>5. u.total = Messages /\ u.completed = job.said + 1 /\ u.failed = ~ok
      BY <2>3, <3>1, <3>2, <3>3, <3>4, CountedIs
    <3>6. Top' = u
      <4>1. stack'[Len(stack)] = u
        BY <1>1, <2>1, <3>4
      <4> QED BY <2>1, <4>1 DEF Top, Last
    <3>7. Messages' = Messages
      BY <1>21 DEF Messages, TypeInv, Shape
    <3>8. Counts(u)'
      <4>1. CASE ok = TRUE /\ job' = [job EXCEPT !.said = @ + 1]
        <5>1. job'.state = "running" /\ job'.said = job.said + 1
          BY <3>1, <4>1 DEF TypeInv, Shape
        <5> QED BY <1>21, <3>1, <3>5, <3>7, <4>1, <5>1 DEF Counts
      <4>2. CASE ok = FALSE /\ job' = [job EXCEPT !.state = "failed"]
        <5>1. job'.state = "failed"
          BY <4>2 DEF TypeInv, Shape
        <5> QED BY <1>21, <3>1, <3>5, <4>2, <5>1 DEF Counts
      <4> QED BY <1>21, <4>1, <4>2
    <3>9. IsInfo(Top)' => Counts(Top)'
      BY <3>6, <3>8 DEF Counts, Finished, OkVisible
    <3>10. \A i \in DOMAIN stack' : IsInfo(stack'[i]) => i = Len(stack')
      <4>1. DOMAIN stack' = 1..Len(stack)
        BY <2>1
      <4> QED BY <1>1, <2>1, <4>1 DEF Tells, InfoOnTop
    <3>11. InfoOnTop'
      BY <3>10 DEF InfoOnTop, IsInfo
    <3> QED BY <3>9, <3>11 DEF Tells
  <2> QED BY <2>2, <2>3
<1>22. CASE Report \/ Fail
  BY <1>21, <1>22 DEF Report, Fail, Running
<1>23. CASE Succeed
  <2>1. CASE Current \in DOMAIN table.cells
    <3>1. /\ UNCHANGED <<stack, sync>> /\ job' = [job EXCEPT !.state = "ok"]
          /\ job.state = "running" /\ sync.pc = "run" /\ job.said = Messages
      BY <1>23, <2>1 DEF Succeed, Running
    <3>2. job'.state = "ok"
      BY <3>1 DEF TypeInv, Shape
    <3>3. IsInfo(Top) => Finished(Top) /\ ~Top.failed
      <4>1. Messages \in Nat
        BY StepsTyped DEF Messages
      <4> QED BY <3>1, <4>1 DEF Tells, Counts, Finished
    <3> QED BY <1>7, <3>1, <3>2, <3>3 DEF Counts, Finished, Top
  <2>2. CASE Current \notin DOMAIN table.cells
    <3>1. stack' = stack /\ job' = NoJob /\ sync'.pc = "dead"
      BY <1>23, <2>2 DEF Succeed, Die, NoSync
    <3> QED BY <1>15, <3>1
  <2> QED BY <2>1, <2>2
<1> QED BY <1>8, <1>9, <1>10, <1>11, <1>13, <1>14, <1>16, <1>17, <1>19, <1>20,
           <1>22, <1>23 DEF Next, UserNext, SyncStep, JobStep

THEOREM Told == Spec => []InfoInv
<1>1. Init => InfoInv
  <2> SUFFICES ASSUME Init PROVE ClusterKnown /\ JobOf /\ Tells
    BY DEF InfoInv
  <2>1. ClusterKnown
    BY DEF Init, ClusterKnown, Free, EmptyTable, NoSync
  <2>2. JobOf
    BY DEF Init, JobOf, NoJob, NoSync
  <2>3. \A i \in DOMAIN stack : ~IsInfo(stack[i])
    BY PlainScreens DEF Init, Kinds
  <2>4. Len(stack) \in DOMAIN stack /\ Top = stack[Len(stack)]
    BY DEF Init, Top, Last
  <2> QED BY <2>1, <2>2, <2>3, <2>4 DEF Tells, InfoOnTop
<1>2. TypeInv /\ SyncInv /\ InfoInv /\ [Next]_vars => InfoInv'
  <2> SUFFICES ASSUME TypeInv, SyncInv, InfoInv, [Next]_vars,
                      faults' \cap {"overlap", "unreadable"} = {}
               PROVE  (ClusterKnown /\ JobOf /\ Tells)'
    BY DEF InfoInv
  <2>1. "overlap" \notin faults /\ "unreadable" \notin faults
    BY FaultsKept
  <2>2. Waits /\ ClusterKnown /\ JobOf /\ Tells
    BY <2>1, WaitsHere DEF InfoInv
  <2>3. CASE UNCHANGED vars
    <3>1. ClusterKnown'
      BY <2>2, <2>3 DEF vars, ClusterKnown, Known, Populating, Free
    <3>2. JobOf'
      BY <2>2, <2>3 DEF vars, JobOf
    <3>3. Tells'
      BY <2>2, <2>3 DEF vars, Tells, InfoOnTop, Counts, Top, TotalSteps, Messages
    <3> QED BY <3>1, <3>2, <3>3
  <2> QED BY <2>1, <2>2, <2>3, ClusterStep, JobOfStep, TellsStep
<1> QED BY <1>1, <1>2, Typed, Inductive, PTL DEF Spec

(* If the cluster's status could be read and the user waits for the table, an
   info screen whose job is over says so and how it went, and offers its Ok
   button, for any number of steps and whatever the user dismisses. *)
THEOREM TellsTheTruth == Spec => []InfoTellsTruth
<1>1. TypeInv /\ InfoInv => InfoTellsTruth
  <2> SUFFICES ASSUME TypeInv, InfoInv, faults \cap {"overlap", "unreadable"} = {},
                      NEW s \in Range(stack), IsInfo(s)
               PROVE  CASE job.state = "ok" -> Finished(s) /\ ~s.failed
                        [] job.state = "failed" -> s.failed
                        [] job.state = "running" -> ~s.failed
                        [] OTHER -> (sync.pc = "idle" => OkVisible(s))
    BY DEF InfoTellsTruth
  <2>1. JobOf /\ Tells
    BY DEF InfoInv
  <2>2. s = Top
    BY <2>1 DEF Range, Top, Last, Tells, InfoOnTop
  <2>3. Counts(s)
    BY <2>1, <2>2 DEF Tells
  <2> QED BY <2>3 DEF Counts
<1> QED BY <1>1, Typed, Told, PTL

=============================================================================
