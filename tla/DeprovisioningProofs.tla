----------------------- MODULE DeprovisioningProofs -----------------------
(***************************************************************************)
(* Deprovisioning, for any number of runs, VMs and ids and every fault.    *)
(***************************************************************************)
EXTENDS Deprovisioning, TLAPS

\* Where a run's own step takes it; it leaves the host and other runs alone.
RunEffect(r) ==
  /\ UNCHANGED host
  /\ \A s \in Runs \ {r} : step'[s] = step[s] /\ verdict'[s] = verdict[s] /\ chosen'[s] = chosen[s]
  /\ \/ /\ step[r] = "list" /\ verdict'[r] = verdict[r]
        /\ chosen'[r] \in Listed(r) /\ step'[r] \in Ops \cup {"confirm"}
     \/ /\ step[r] \in {"check", "list"} /\ chosen'[r] = chosen[r]
        /\ step'[r] = "list" \/ step'[r] = "done"
        /\ verdict'[r] \in {verdict[r], "failed", "absent"}
     \/ /\ step[r] \in Ops \cup {"confirm"} /\ chosen'[r] = chosen[r]
        /\ step'[r] \in Ops \cup {"done"}
        /\ verdict'[r] \in {verdict[r], "failed", "declined"} \/ task[r]["delete"] = "ok"
  /\ step'[r] = "stop" => "unseen" \in faults \/ task[r]["shutdown"] \in {"none", "error"}
  /\ verdict'[r] = "failed" /\ step[r] = "delete" =>
       "unseen" \in faults \/ task[r]["delete"] \in {"none", "error"}
  /\ step'[r] # "done" => verdict'[r] = verdict[r] /\ step[r] \notin {"delete", "done"}
  /\ step[r] # "done"

LEMMA RunSteps ==
  ASSUME TypeOK, NEW r \in Runs, Resume(r) \/ Confirm(r)
  PROVE  TypeOK' /\ RunEffect(r)
<1> USE DEF RunEffect, Return, Goto, FirstOp, host, Steps, Ops
<1>1. CASE Check(r)
  BY <1>1 DEF Check, TypeOK
<1>2. CASE List(r)
  <2>1. CASE \E m \in Listed(r) : /\ chosen' = [chosen EXCEPT ![r] = m]
                                  /\ listed' = [listed EXCEPT ![r] = power[m]]
                                  /\ Goto(r, IF r \in Prompted THEN "confirm" ELSE FirstOp(power[m]))
    <3> PICK m \in Listed(r) : /\ chosen' = [chosen EXCEPT ![r] = m]
                               /\ listed' = [listed EXCEPT ![r] = power[m]]
                               /\ Goto(r, IF r \in Prompted THEN "confirm" ELSE FirstOp(power[m]))
      BY <2>1
    <3>1. m \in Vms /\ power[m] \in Present
      BY DEF Listed
    <3>2. TypeOK'
      BY <1>2, <3>1 DEF List, TypeOK
    <3> QED BY <1>2, <3>1, <3>2 DEF List, TypeOK
  <2>2. CASE Return(r, "failed") /\ UNCHANGED <<chosen, listed>>
    BY <1>2, <2>2 DEF List, TypeOK
  <2> QED BY <1>2, <2>1, <2>2 DEF List
<1>3. CASE Confirm(r)
  BY <1>3 DEF Confirm, TypeOK
<1>4. ASSUME NEW op \in Ops, Succeeds(r, op) PROVE TypeOK' /\ RunEffect(r)
  BY <1>4 DEF Succeeds, TypeOK
<1>5. ASSUME NEW op \in Ops, Fails(r, op) PROVE TypeOK' /\ RunEffect(r)
  <2>1. "unseen" \in faults \/ task[r][op] \in {"none", "error"}
    BY <1>5 DEF Fails, LooksFailed
  <2> QED BY <1>5, <2>1 DEF Fails, TypeOK
<1> QED BY <1>1, <1>2, <1>3, <1>4, <1>5 DEF Resume

\* What a host's step does to VMs and tasks: only a delete that ends OK makes
\* a VM go, and it is the one at the id of its run.
HostEffect(r) ==
  /\ UNCHANGED <<Client, home>>
  /\ \A m \in Vms : power'[m] # power[m] =>
       /\ power[m] \in Present
       /\ \/ power'[m] = "stopped"
          \/ power'[m] = "gone" /\ Running(r, "delete") /\ IsAt(m, IdOf(r))
  /\ \A s \in Runs, op \in Ops : task'[s][op] # task[s][op] =>
       /\ step[s] = op \/ task[s][op] = "running"
       /\ op = "delete" /\ task'[s][op] = "ok" =>
            s = r /\ \E m \in Vms : IsAt(m, IdOf(r)) /\ power'[m] = "gone"
       /\ task[s][op] # "ok"

LEMMA HostSteps ==
  ASSUME TypeOK, NEW r \in Runs, HostStep(r)
  PROVE  TypeOK' /\ HostEffect(r)
<1> USE DEF HostEffect, Client, Task, Running, Ops, Present
<1>1. ASSUME NEW op \in Ops, Accept(r, op) PROVE TypeOK' /\ HostEffect(r)
  BY <1>1 DEF Accept, TypeOK
<1>2. ASSUME NEW op \in Ops, TaskFails(r, op) PROVE TypeOK' /\ HostEffect(r)
  BY <1>2 DEF TaskFails, TypeOK
<1>3. CASE GoesDown(r)
  BY <1>3 DEF GoesDown, TypeOK, IsAt
<1>4. CASE DoesNotGoDown(r)
  BY <1>4 DEF DoesNotGoDown, TypeOK
<1>5. CASE Stopped(r)
  BY <1>5 DEF Stopped, TypeOK, IsAt
<1>6. CASE Deleted(r)
  <2> PICK m \in Vms :
        /\ IsAt(m, IdOf(r))
        /\ \/ /\ power[m] = "stopped"
              /\ power' = [power EXCEPT ![m] = "gone"]
              /\ Task(r, "delete", "ok")
           \/ /\ power[m] = "running"
              /\ Task(r, "delete", "error")
              /\ UNCHANGED power
    BY <1>6 DEF Deleted
  <2>2. UNCHANGED <<faults, step, verdict, chosen, listed, home>> /\ task[r]["delete"] = "running"
    BY <1>6 DEF Deleted
  <2>3. CASE power[m] = "stopped" /\ power' = [power EXCEPT ![m] = "gone"] /\ Task(r, "delete", "ok")
    <3>1. \A n \in Vms : power'[n] # power[n] => n = m /\ power'[m] = "gone"
      BY <2>3 DEF TypeOK
    <3>2. \A s \in Runs, op \in Ops : task'[s][op] # task[s][op] => s = r /\ op = "delete"
      BY <2>3 DEF TypeOK
    <3>3. power'[m] = "gone"
      BY <2>3 DEF TypeOK
    <3>4. power' \in [Vms -> {"none", "gone"} \cup Present]
      BY <2>3 DEF TypeOK
    <3>5. task' \in [Runs -> [Ops -> {"none", "running", "ok", "error"}]]
      BY <2>3 DEF TypeOK
    <3> QED BY <2>2, <2>3, <3>1, <3>2, <3>3, <3>4, <3>5 DEF TypeOK
  <2>4. CASE Task(r, "delete", "error") /\ UNCHANGED power
    <3>1. \A s \in Runs, op \in Ops : task'[s][op] # task[s][op] =>
            s = r /\ op = "delete" /\ task'[s][op] = "error"
      BY <2>4 DEF TypeOK
    <3>4. power' \in [Vms -> {"none", "gone"} \cup Present]
      BY <2>4 DEF TypeOK
    <3>5. task' \in [Runs -> [Ops -> {"none", "running", "ok", "error"}]]
      BY <2>4 DEF TypeOK
    <3> QED BY <2>2, <2>4, <3>1, <3>4, <3>5 DEF TypeOK
  <2> QED BY <2>3, <2>4
<1> QED BY <1>1, <1>2, <1>3, <1>4, <1>5, <1>6 DEF HostStep

\* What others do: a VM changes its power, or comes up at a free id.
OthersEffect ==
  /\ UNCHANGED <<Client, task>>
  /\ \/ /\ UNCHANGED home
        /\ \A m \in Vms : power'[m] # power[m] => power[m] \in Present /\ power'[m] \in Present
     \/ \E m \in Vms :
          /\ power[m] = "none" /\ power'[m] = "stopped"
          /\ home'[m] \in VmIds /\ Free(home'[m])
          /\ "reuse" \in faults \/ \A n \in Vms : home[n] # home'[m]
          /\ \A n \in Vms \ {m} : power'[n] = power[n] /\ home'[n] = home[n]

LEMMA OtherSteps ==
  ASSUME TypeOK, Others
  PROVE  TypeOK' /\ OthersEffect
<1> USE DEF OthersEffect, Client, Present
<1>1. ASSUME NEW m \in Vms, Toggle(m) PROVE TypeOK' /\ OthersEffect
  BY <1>1 DEF Toggle, TypeOK
<1>2. ASSUME NEW m \in Vms, NEW v \in VmIds, Create(m, v) PROVE TypeOK' /\ OthersEffect
  <2>1. TypeOK'
    BY <1>2 DEF Create, TypeOK
  <2>2. home'[m] = v
    BY <1>2 DEF Create, TypeOK
  <2> QED BY <1>2, <2>1, <2>2 DEF Create, TypeOK
<1> QED BY <1>1, <1>2 DEF Others

LEMMA FaultsStay ==
  ASSUME TypeOK, [Next]_vars
  PROVE  faults' = faults
BY RunSteps, HostSteps, OtherSteps
   DEF Next, vars, RunEffect, HostEffect, OthersEffect, Client, host

-----------------------------------------------------------------------------
(* The invariant *)

LEMMA InvStep == DeprovisioningInv /\ [Next]_vars => DeprovisioningInv'
<1> SUFFICES ASSUME DeprovisioningInv, [Next]_vars PROVE DeprovisioningInv'
  OBVIOUS
<1> USE DeprovisioningAssumption
<1> TypeOK
  BY DEF DeprovisioningInv
<1>1. ASSUME NEW r \in Runs, Resume(r) \/ Confirm(r) PROVE DeprovisioningInv'
  <2>1. TypeOK' /\ RunEffect(r)
    BY <1>1, RunSteps
  <2>2. UNCHANGED <<task, home, power>>
    BY <2>1 DEF RunEffect, host
  <2>3. ASSUME NEW s \in Runs, s # r, chosen'[s] = chosen[s], step'[s] = step[s], verdict'[s] = verdict[s]
        PROVE  /\ chosen'[s] \in Vms =>
                    power[chosen'[s]] # "none" /\ Asked[s] \in {NameOf[chosen'[s]], home[chosen'[s]]}
               /\ step'[s] \in Ops \cup {"confirm"} => chosen'[s] \in Vms
               /\ step'[s] \in {"check", "list"} => chosen'[s] = NoVm
               /\ \A op \in Ops : task[s][op] # "none" => chosen'[s] \in Vms
               /\ task[s]["delete"] = "ok" => power[chosen'[s]] = "gone"
               /\ verdict'[s] = "ok" => task[s]["delete"] = "ok"
    BY <2>3 DEF DeprovisioningInv
  <2>4. /\ chosen'[r] \in Vms =>
             power[chosen'[r]] # "none" /\ Asked[r] \in {NameOf[chosen'[r]], home[chosen'[r]]}
        /\ step'[r] \in Ops \cup {"confirm"} => chosen'[r] \in Vms
        /\ step'[r] \in {"check", "list"} => chosen'[r] = NoVm
        /\ \A op \in Ops : task[r][op] # "none" => chosen'[r] \in Vms
        /\ task[r]["delete"] = "ok" => power[chosen'[r]] = "gone"
        /\ verdict'[r] = "ok" => task[r]["delete"] = "ok"
    <3>1. CASE chosen'[r] \in Listed(r) /\ step[r] = "list" /\ verdict'[r] = verdict[r]
               /\ step'[r] \in Ops \cup {"confirm"}
      BY <3>1 DEF Listed, Present, DeprovisioningInv, Ops
    <3>2. CASE /\ step[r] \in {"check", "list"} /\ chosen'[r] = chosen[r]
               /\ step'[r] = "list" \/ step'[r] = "done"
               /\ verdict'[r] \in {verdict[r], "failed", "absent"}
      BY <3>2 DEF DeprovisioningInv, Ops
    <3>3. CASE /\ step[r] \in Ops \cup {"confirm"} /\ chosen'[r] = chosen[r]
               /\ step'[r] \in Ops \cup {"done"}
               /\ verdict'[r] \in {verdict[r], "failed", "declined"} \/ task[r]["delete"] = "ok"
      BY <3>3 DEF DeprovisioningInv, Ops
    <3> QED BY <2>1, <3>1, <3>2, <3>3 DEF RunEffect
  <2> QED BY <2>1, <2>2, <2>3, <2>4 DEF DeprovisioningInv, RunEffect
<1>2. ASSUME NEW r \in Runs, HostStep(r) PROVE DeprovisioningInv'
  <2>1. TypeOK' /\ HostEffect(r)
    BY <1>2, HostSteps
  <2>2. UNCHANGED <<step, verdict, chosen, home>>
    BY <2>1 DEF HostEffect, Client
  <2>3. ASSUME NEW m \in Vms
        PROVE  /\ power'[m] = "none" <=> power[m] = "none"
               /\ power[m] = "gone" => power'[m] = "gone"
               /\ power'[m] \in Present => power[m] \in Present
    BY <2>1 DEF HostEffect, Present
  <2>4. ASSUME NEW s \in Runs
        PROVE  /\ \A op \in Ops : task'[s][op] # "none" => chosen[s] \in Vms
               /\ task'[s]["delete"] = "ok" => power'[chosen[s]] = "gone"
    <3>1. \A op \in Ops : task'[s][op] # "none" => chosen[s] \in Vms
      BY <2>1 DEF HostEffect, DeprovisioningInv
    <3>2. ASSUME task'[s]["delete"] = "ok" PROVE power'[chosen[s]] = "gone"
      <4>1. chosen[s] \in Vms
        BY <3>1, <3>2 DEF Ops
      <4>2. CASE task[s]["delete"] = "ok"
        BY <4>1, <4>2, <2>3 DEF DeprovisioningInv
      <4>3. CASE task[s]["delete"] # "ok"
        <5>1. s = r /\ \E m \in Vms : IsAt(m, IdOf(r)) /\ power'[m] = "gone"
          BY <2>1, <3>2, <4>3 DEF HostEffect, Ops
        <5>2. PICK m \in Vms : IsAt(m, IdOf(s)) /\ power'[m] = "gone"
          BY <5>1
        <5>3. power[chosen[s]] # "none" /\ power[chosen[s]] \in {"none", "gone"} \cup Present
          BY <4>1 DEF DeprovisioningInv, TypeOK
        <5>4. CASE power[chosen[s]] \in Present
          BY <4>1, <5>2, <5>4 DEF DeprovisioningInv, IsAt, IdOf
        <5>5. CASE power[chosen[s]] = "gone"
          BY <4>1, <5>5, <2>3
        <5> QED BY <5>3, <5>4, <5>5
      <4> QED BY <4>2, <4>3
    <3> QED BY <3>1, <3>2
  <2>5. ASSUME NEW s \in Runs, verdict[s] = "ok" PROVE task'[s]["delete"] = "ok"
    <3>1. task[s]["delete"] = "ok" /\ chosen[s] \in Vms
      BY <2>5 DEF DeprovisioningInv, Ops
    <3> QED BY <3>1, <2>1 DEF HostEffect, Ops
  <2> QED BY <2>1, <2>2, <2>3, <2>4, <2>5 DEF DeprovisioningInv
<1>3. CASE Others
  <2>1. TypeOK' /\ OthersEffect
    BY <1>3, OtherSteps
  <2>2. UNCHANGED <<step, verdict, chosen, task>>
    BY <2>1 DEF OthersEffect, Client
  <2>3. CASE UNCHANGED home /\ \A m \in Vms : power'[m] # power[m] => power[m] \in Present /\ power'[m] \in Present
    <3>1. ASSUME NEW m \in Vms
          PROVE  /\ power'[m] = "none" <=> power[m] = "none"
                 /\ power'[m] \in Present <=> power[m] \in Present
                 /\ power[m] = "gone" => power'[m] = "gone"
      BY <2>3 DEF Present
    <3>2. ASSUME NEW s \in Runs, chosen[s] \in Vms, task[s]["delete"] = "ok"
          PROVE  power'[chosen[s]] = "gone"
      BY <3>1, <3>2 DEF DeprovisioningInv
    <3>3. ASSUME NEW s \in Runs, task[s]["delete"] = "ok" PROVE chosen[s] \in Vms
      BY <3>3 DEF DeprovisioningInv, Ops
    <3> QED BY <2>1, <2>2, <2>3, <3>1, <3>2, <3>3 DEF DeprovisioningInv
  <2>4. ASSUME NEW m \in Vms, power[m] = "none", power'[m] = "stopped",
               home'[m] \in VmIds, Free(home'[m]),
               \A n \in Vms \ {m} : power'[n] = power[n] /\ home'[n] = home[n]
        PROVE  DeprovisioningInv'
    <3>1. ASSUME NEW n \in Vms PROVE power'[n] = "none" <=> home'[n] = NoId
      BY <2>4 DEF DeprovisioningInv, Present
    <3>2. ASSUME NEW n \in Vms, NEW o \in Vms, power'[n] \in Present, power'[o] \in Present,
                 home'[n] = home'[o]
          PROVE  n = o
      BY <2>4, <3>2 DEF DeprovisioningInv, Free, IsAt
    <3>3. ASSUME NEW n \in Vms, power[n] # "none" PROVE power'[n] = power[n] /\ home'[n] = home[n]
      BY <2>4, <3>3
    <3>4. ASSUME NEW s \in Runs, chosen[s] \in Vms
          PROVE  power[chosen[s]] # "none" /\ Asked[s] \in {NameOf[chosen[s]], home[chosen[s]]}
      BY <3>4 DEF DeprovisioningInv
    <3>5. ASSUME NEW s \in Runs, task[s]["delete"] = "ok"
          PROVE  chosen[s] \in Vms /\ power[chosen[s]] = "gone"
      BY <3>5 DEF DeprovisioningInv, Ops
    <3> QED BY <2>1, <2>2, <3>1, <3>2, <3>3, <3>4, <3>5 DEF DeprovisioningInv
  <2> QED BY <2>1, <2>3, <2>4 DEF OthersEffect
<1>4. CASE UNCHANGED vars
  BY <1>4 DEF vars, DeprovisioningInv, TypeOK
<1> QED BY <1>1, <1>2, <1>3, <1>4 DEF Next

\* How far a run has got in its own tasks and what its VM has become, at every
\* step and under every fault.
THEOREM Inductive == Spec => []DeprovisioningInv
<1>1. Init => DeprovisioningInv
  BY DeprovisioningAssumption DEF Init, DeprovisioningInv, TypeOK, Steps, Ops, Present
<1> QED BY <1>1, InvStep, PTL DEF Spec

\* The type invariant.
THEOREM TypeCorrect == Spec => []TypeOK
<1>1. DeprovisioningInv => TypeOK
  BY DEF DeprovisioningInv
<1> QED BY <1>1, Inductive, PTL

\* A run that returns True has its VM gone, even where ids are given again.
THEOREM Truthful == Spec => []TrueMeansGone
<1>1. DeprovisioningInv => TrueMeansGone
  BY DEF DeprovisioningInv, TrueMeansGone
<1> QED BY <1>1, Inductive, PTL

-----------------------------------------------------------------------------
(* Outcomes that are seen *)

LEMMA SeenStep ==
  DeprovisioningInv /\ ("unseen" \notin faults => SeenInv) /\ [Next]_vars
    => ("unseen" \notin faults => SeenInv)'
<1> SUFFICES ASSUME DeprovisioningInv, [Next]_vars,
                    "unseen" \notin faults => SeenInv, "unseen" \notin faults'
             PROVE  SeenInv'
  OBVIOUS
<1> TypeOK
  BY DEF DeprovisioningInv
<1> SeenInv /\ "unseen" \notin faults
  BY FaultsStay
<1>1. ASSUME NEW r \in Runs, Resume(r) \/ Confirm(r) PROVE SeenInv'
  <2>1. RunEffect(r)
    BY <1>1, RunSteps
  <2> QED BY <2>1 DEF RunEffect, host, SeenInv, Ops
<1>2. ASSUME NEW r \in Runs, HostStep(r) PROVE SeenInv'
  <2>1. HostEffect(r)
    BY <1>2, HostSteps
  <2>2. ASSUME NEW s \in Runs, NEW op \in Ops, step[s] # op, task[s][op] \in {"none", "error"}
        PROVE  task'[s][op] = task[s][op]
    BY <2>1, <2>2 DEF HostEffect
  <2> QED BY <2>1, <2>2 DEF HostEffect, Client, SeenInv, Ops
<1>3. CASE Others
  BY <1>3, OtherSteps DEF OthersEffect, Client, SeenInv
<1>4. CASE UNCHANGED vars
  BY <1>4 DEF vars, SeenInv
<1> QED BY <1>1, <1>2, <1>3, <1>4 DEF Next

\* As long as the outcome of every task is seen, a VM is hard-stopped only
\* after its shutdown has failed (_stop_and_delete_vm).
THEOREM HardStopLast == Spec => []HardStopIsLast
<1>1. Init => ("unseen" \notin faults => SeenInv)
  BY DEF Init, SeenInv, Ops
<1>2. ("unseen" \notin faults => SeenInv) => HardStopIsLast
  BY DEF SeenInv, HardStopIsLast
<1> QED BY <1>1, <1>2, Inductive, SeenStep, PTL DEF Spec

\* As long as the outcome of every task is seen, a run that returns False has
\* deleted nothing (_stop_and_delete_vm's early returns).
THEOREM Kept == Spec => []FalseMeansKept
<1>1. Init => ("unseen" \notin faults => SeenInv)
  BY DEF Init, SeenInv, Ops
<1>2. ("unseen" \notin faults => SeenInv) => FalseMeansKept
  BY DEF SeenInv, FalseMeansKept
<1> QED BY <1>1, <1>2, Inductive, SeenStep, PTL DEF Spec

-----------------------------------------------------------------------------
(* Ids that are not given again *)

LEMMA NoReuseStep ==
  DeprovisioningInv /\ ("reuse" \notin faults => NoReuse) /\ [Next]_vars
    => ("reuse" \notin faults => NoReuse)'
<1> SUFFICES ASSUME DeprovisioningInv, [Next]_vars,
                    "reuse" \notin faults => NoReuse, "reuse" \notin faults'
             PROVE  NoReuse'
  OBVIOUS
<1> TypeOK
  BY DEF DeprovisioningInv
<1> NoReuse /\ "reuse" \notin faults
  BY FaultsStay
<1>1. ASSUME NEW r \in Runs, Resume(r) \/ Confirm(r) PROVE NoReuse'
  BY <1>1, RunSteps DEF RunEffect, host, NoReuse
<1>2. ASSUME NEW r \in Runs, HostStep(r) PROVE NoReuse'
  BY <1>2, HostSteps DEF HostEffect, NoReuse
<1>3. CASE Others
  BY <1>3, OtherSteps DEF OthersEffect, NoReuse
<1>4. CASE UNCHANGED vars
  BY <1>4 DEF vars, NoReuse
<1> QED BY <1>1, <1>2, <1>3, <1>4 DEF Next

\* As long as ids are not given again, only the VM a run was asked for and
\* has chosen is deleted, whatever else fails or happens to the VMs.
THEOREM OnlyAsked == Spec => KeptIdsOnlyAskedDeleted
<1>1. Init => ("reuse" \notin faults => NoReuse)
  BY DEF Init, NoReuse
<1>2. DeprovisioningInv /\ ("reuse" \notin faults => NoReuse) /\ [Next]_vars
        => [("reuse" \notin faults) => DeletesAsked]_vars
  <2> SUFFICES ASSUME DeprovisioningInv, NoReuse, "reuse" \notin faults, Next,
                      NEW m \in Vms, power[m] \in Present, power'[m] = "gone"
               PROVE  \E r \in Runs :
                        /\ Running(r, "delete")
                        /\ chosen[r] = m
                        /\ Asked[r] \in {NameOf[m], home[m]}
    BY DEF DeletesAsked
  <2> TypeOK
    BY DEF DeprovisioningInv
  <2>1. power'[m] # power[m]
    BY DEF Present
  <2>2. ~Others
    BY <2>1, OtherSteps DEF OthersEffect, Present
  <2>3. PICK r \in Runs : Resume(r) \/ Confirm(r) \/ HostStep(r)
    BY <2>2 DEF Next
  <2>4. ~(Resume(r) \/ Confirm(r))
    BY <2>1, RunSteps DEF RunEffect, host
  <2>5. Running(r, "delete") /\ IsAt(m, IdOf(r))
    BY <2>1, <2>3, <2>4, HostSteps DEF HostEffect
  <2>6. chosen[r] \in Vms
    BY <2>5 DEF DeprovisioningInv, Running, Ops
  <2>7. chosen[r] = m
    BY <2>5, <2>6 DEF NoReuse, IsAt, IdOf, DeprovisioningInv
  <2> QED BY <2>5, <2>6, <2>7 DEF DeprovisioningInv
<1> QED BY <1>1, <1>2, Inductive, NoReuseStep, PTL DEF Spec, KeptIdsOnlyAskedDeleted
=============================================================================
