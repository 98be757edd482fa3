------------------------- MODULE ProvisioningProofs -------------------------
(***************************************************************************)
(* Provisioning, for any number of runs, configs and ids and under every   *)
(* fault.                                                                  *)
(***************************************************************************)
EXTENDS Provisioning, TLAPS

LEMMA OpsSteps ==
  /\ Ops \subseteq Steps
  /\ \A op \in Ops : OnSuccess[op] \in Ops \cup {"done"} /\ OnFailure[op] \in Ops \cup {"done"}
  /\ \A op \in Ops : KindOf(op) \in Kinds
BY DEF Ops, Uploads, Deletes, Steps, Ended, OnSuccess, OnFailure, KindOf, Kinds

\* Going on to a step keeps the types of what the run assigns.
LEMMA GoToType ==
  ASSUME TypeOK, NEW r \in Runs, NEW s \in Ops \cup {"done"},
         NEW v \in {"pending", "ok", "failed"}, GoTo(r, s, v)
  PROVE  /\ step' \in [Runs -> Steps]
         /\ verdict' \in [Runs -> {"pending", "ok", "failed"}]
BY DEF TypeOK, GoTo, Return, Ops, Uploads, Deletes, Steps, Ended

LEMMA TypeStep == TypeOK /\ [Next]_vars => TypeOK'
<1> SUFFICES ASSUME TypeOK, [Next]_vars PROVE TypeOK'
  OBVIOUS
<1> USE ProvisioningAssumption, OpsSteps
<1>1. ASSUME NEW r \in Runs, Preflight(r) PROVE TypeOK'
  BY <1>1 DEF Preflight, Return, host, TypeOK, Steps, Ended
<1>2. ASSUME NEW r \in Runs, Allocate(r) PROVE TypeOK'
  <2>1. PICK v \in VmIds : /\ vmid' = [vmid EXCEPT ![r] = v]
                           /\ hvId' = [hvId EXCEPT ![NodeOf[r]] = v]
    BY <1>2 DEF Allocate, IdsFor
  <2>2. "upConfig" \in Steps
    BY DEF Steps, Ops, Uploads
  <2> QED BY <1>2, <2>1, <2>2 DEF Allocate, host, TypeOK
<1>3. ASSUME NEW r \in Runs, NoIdGiven(r) PROVE TypeOK'
  BY <1>3 DEF NoIdGiven, Return, host, TypeOK, Steps, Ended
<1>4. ASSUME NEW r \in Runs, NEW op \in Ops, Succeeds(r, op) PROVE TypeOK'
  <2>1. GoTo(r, OnSuccess[op], verdict[r]) /\ UNCHANGED <<vmid, hvId, host>>
    BY <1>4 DEF Succeeds
  <2>2. OnSuccess[op] \in Ops \cup {"done"} /\ verdict[r] \in {"pending", "ok", "failed"}
    BY DEF TypeOK
  <2>3. step' \in [Runs -> Steps] /\ verdict' \in [Runs -> {"pending", "ok", "failed"}]
    BY <2>1, <2>2, GoToType
  <2> QED BY <2>1, <2>3 DEF host, TypeOK
<1>5. ASSUME NEW r \in Runs, NEW op \in Ops, Fails(r, op) PROVE TypeOK'
  <2>1. GoTo(r, OnFailure[op], "failed") /\ UNCHANGED <<vmid, hvId, host>>
    BY <1>5 DEF Fails
  <2> QED BY <2>1, GoToType DEF host, TypeOK
<1>6. ASSUME NEW r \in Runs, Crash(r) PROVE TypeOK'
  BY <1>6 DEF Crash, host, TypeOK, Steps, Ended
<1>7. ASSUME NEW r \in Runs, NEW op \in Ops, Accept(r, op) PROVE TypeOK'
  <2>1. task' \in [Runs -> [Ops -> {"none", "running", "ok", "error"}]]
    BY <1>7 DEF Accept, Task, TypeOK
  <2>2. CASE op = "create"
    <3>1. vmState' \in [VmIds -> {"none", "creating", "stopped", "running"}]
      BY <1>7, <2>2 DEF Accept, TypeOK
    <3>2. vmOf' \in [VmIds -> Runs \cup {NoRun}]
      BY <1>7, <2>2 DEF Accept, TypeOK
    <3>3. disk' \in [VmIds -> [Kinds -> Runs \cup {NoRun}]]
      BY <1>7, <2>2 DEF Accept, TypeOK
    <3> QED BY <1>7, <2>1, <3>1, <3>2, <3>3 DEF Accept, TypeOK
  <2>3. CASE op # "create"
    BY <1>7, <2>1, <2>3 DEF Accept, TypeOK
  <2> QED BY <2>2, <2>3
<1>8. ASSUME NEW r \in Runs, NEW op \in Ops, UploadLands(r, op) PROVE TypeOK'
  BY <1>8 DEF UploadLands, Task, TypeOK
<1>9. ASSUME NEW r \in Runs, NEW op \in Ops, DeleteRuns(r, op) PROVE TypeOK'
  BY <1>9 DEF DeleteRuns, Task, TypeOK
<1>10. ASSUME NEW r \in Runs, CreateFails(r) PROVE TypeOK'
  BY <1>10 DEF CreateFails, Task, TypeOK, Ops
<1>11. ASSUME NEW r \in Runs, NEW k \in Kinds, Import(r, k) PROVE TypeOK'
  <2>1. CASE CreateFails(r)
    BY <2>1, <1>10
  <2>2. CASE disk' = [disk EXCEPT ![vmid[r]][k] = image[ImageOf(vmid[r], k)]] /\ UNCHANGED <<faults, step, verdict, vmid, hvId, task, image, vmState, vmOf>>
    <3>1. vmid[r] \in VmIds => image[ImageOf(vmid[r], k)] \in Runs \cup {NoRun}
      BY DEF TypeOK, ImageOf, Images
    <3>2. disk' \in [VmIds -> [Kinds -> Runs \cup {NoRun}]]
      BY <2>2, <3>1 DEF TypeOK
    <3> QED BY <2>2, <3>2 DEF TypeOK
  <2> QED BY <1>11, <2>1, <2>2 DEF Import
<1>12. ASSUME NEW r \in Runs, Created(r) PROVE TypeOK'
  BY <1>12 DEF Created, Task, TypeOK, Ops
<1>13. ASSUME NEW r \in Runs, Started(r) PROVE TypeOK'
  BY <1>13 DEF Started, Task, TypeOK, Ops
<1>14. ASSUME NEW r \in Runs, NEW op \in Ops, TaskFails(r, op) PROVE TypeOK'
  <2>1. CASE CreateFails(r)
    BY <2>1, <1>10
  <2>2. CASE Task(r, op, "error") /\ UNCHANGED <<faults, step, verdict, vmid, hvId, image, vmState, vmOf, disk>>
    BY <2>2 DEF Task, TypeOK
  <2> QED BY <1>14, <2>1, <2>2 DEF TaskFails
<1>15. CASE UNCHANGED vars
  BY <1>15 DEF vars, TypeOK
<1> QED
  BY <1>1, <1>2, <1>3, <1>4, <1>5, <1>6, <1>7, <1>8, <1>9, <1>11, <1>12, <1>13, <1>14, <1>15
  DEF Next, RunStep, HostStep

\* Type correctness: every reachable state gives each variable a value of its type.
THEOREM TypeCorrect == Spec => []TypeOK
<1>1. Init => TypeOK
  BY ProvisioningAssumption DEF Init, TypeOK, Steps
<1> QED BY <1>1, TypeStep, PTL DEF Spec

-----------------------------------------------------------------------------
(* What a run and its tasks have made of the host (ProvisioningInv) *)

LEMMA Tables ==
  /\ OnSuccess["upConfig"] = "upEfi" /\ OnSuccess["upEfi"] = "create"
  /\ OnSuccess["create"] = "delEfi" /\ OnSuccess["delEfi"] = "delConfig"
  /\ OnSuccess["delConfig"] = "start" /\ OnSuccess["start"] = "done"
  /\ DoneBefore["upConfig"] = {} /\ DoneBefore["upEfi"] = {"upConfig"}
  /\ DoneBefore["create"] = {"upConfig", "upEfi"}
  /\ DoneBefore["delEfi"] = {"upConfig", "upEfi", "create"}
  /\ DoneBefore["delConfig"] = {"upConfig", "upEfi", "create", "delEfi"}
  /\ DoneBefore["start"] = {"upConfig", "upEfi", "create", "delEfi", "delConfig"}
BY DEF OnSuccess, DoneBefore, Uploads, Deletes

LEMMA OpsAre ==
  /\ Ops = {"upConfig", "upEfi", "create", "delEfi", "delConfig", "start"}
  /\ Uploads = {"upConfig", "upEfi"}
  /\ Deletes = {"delEfi", "delConfig"}
BY DEF Ops, Uploads, Deletes

\* Where a run goes after an operation.
LEMMA GoToEffect ==
  ASSUME TypeOK, NEW r \in Runs, NEW s \in Ops \cup {"done"},
         NEW v \in {"pending", "ok", "failed"}, GoTo(r, s, v)
  PROVE  /\ s \in Ops \ {"start"} => step'[r] = s /\ verdict'[r] = v
         /\ s = "start" /\ v # "failed" /\ NodeOf[r] \in StartOnCreation =>
              step'[r] = s /\ verdict'[r] = v
         /\ s = "done" \/ (s = "start" /\ (v = "failed" \/ NodeOf[r] \notin StartOnCreation)) =>
              step'[r] = "done" /\ verdict'[r] = IF v = "failed" THEN "failed" ELSE "ok"
         /\ \A t \in Runs \ {r} : step'[t] = step[t] /\ verdict'[t] = verdict[t]
BY OpsAre DEF TypeOK, GoTo, Return

LEMMA TaskEffect ==
  ASSUME TypeOK, NEW r \in Runs, NEW op \in Ops,
         NEW st \in {"running", "ok", "error"}, Task(r, op, st)
  PROVE  /\ task'[r][op] = st
         /\ \A q \in Ops \ {op} : task'[r][q] = task[r][q]
         /\ \A t \in Runs \ {r} : task'[t] = task[t]
BY DEF TypeOK, Task

\* A host step other than an Accept ends one task of its run, or none.
EndsTask(r, op, st) ==
  /\ Running(r, op)
  /\ Task(r, op, st)
  /\ UNCHANGED <<faults, step, verdict, vmid, hvId>>

LEMMA HostEnds ==
  ASSUME TypeOK, NEW r \in Runs, HostStep(r), \A op \in Ops : ~Accept(r, op)
  PROVE  \/ \E op \in Ops, st \in {"ok", "error"} : EndsTask(r, op, st)
         \/ UNCHANGED <<faults, step, verdict, vmid, hvId, task>>
<1>1. ASSUME NEW op \in Ops, UploadLands(r, op) PROVE EndsTask(r, op, "ok")
  BY <1>1 DEF UploadLands, EndsTask
<1>2. ASSUME NEW op \in Ops, DeleteRuns(r, op)
      PROVE  EndsTask(r, op, "ok") \/ EndsTask(r, op, "error")
  BY <1>2 DEF DeleteRuns, EndsTask
<1>3. ASSUME NEW op \in Ops, TaskFails(r, op) PROVE EndsTask(r, op, "error")
  BY <1>3 DEF TaskFails, CreateFails, EndsTask
<1>4. ASSUME NEW k \in Kinds, Import(r, k)
      PROVE  EndsTask(r, "create", "error") \/ UNCHANGED <<faults, step, verdict, vmid, hvId, task>>
  BY <1>4 DEF Import, CreateFails, EndsTask
<1>5. ASSUME Created(r) PROVE EndsTask(r, "create", "ok")
  BY <1>5 DEF Created, EndsTask
<1>6. ASSUME Started(r) PROVE EndsTask(r, "start", "ok")
  BY <1>6 DEF Started, EndsTask
<1> QED BY <1>1, <1>2, <1>3, <1>4, <1>5, <1>6, OpsAre DEF HostStep

\* A step of one run leaves the others, and their tasks, as they are.
Same(s) ==
  /\ step'[s] = step[s] /\ verdict'[s] = verdict[s]
  /\ vmid'[s] = vmid[s] /\ task'[s] = task[s]

LEMMA OthersSame ==
  ASSUME TypeOK, NEW r \in Runs, RunStep(r) \/ HostStep(r) \/ Crash(r),
         NEW s \in Runs, s # r
  PROVE  Same(s)
<1> USE DEF Same
<1>1. CASE Preflight(r) \/ NoIdGiven(r)
  BY <1>1 DEF Preflight, NoIdGiven, Return, host, TypeOK
<1>2. CASE Allocate(r)
  BY <1>2 DEF Allocate, host, TypeOK
<1>3. ASSUME NEW op \in Ops, Succeeds(r, op) PROVE Same(s)
  <2>1. GoTo(r, OnSuccess[op], verdict[r]) /\ UNCHANGED <<vmid, host>>
    BY <1>3 DEF Succeeds
  <2>2. verdict[r] \in {"pending", "ok", "failed"}
    BY DEF TypeOK
  <2> QED BY <2>1, <2>2, GoToEffect, OpsSteps DEF host
<1>4. ASSUME NEW op \in Ops, Fails(r, op) PROVE Same(s)
  <2>1. GoTo(r, OnFailure[op], "failed") /\ UNCHANGED <<vmid, host>>
    BY <1>4 DEF Fails
  <2> QED BY <2>1, GoToEffect, OpsSteps DEF host
<1>5. CASE Crash(r)
  BY <1>5 DEF Crash, host, TypeOK
<1>6. ASSUME NEW op \in Ops, Accept(r, op) PROVE Same(s)
  BY <1>6, TaskEffect DEF Accept
<1>7. CASE HostStep(r) /\ \A op \in Ops : ~Accept(r, op)
  <2>1. ASSUME NEW op \in Ops, NEW st \in {"ok", "error"}, EndsTask(r, op, st) PROVE Same(s)
    BY <2>1, TaskEffect DEF EndsTask
  <2>2. CASE UNCHANGED <<faults, step, verdict, vmid, hvId, task>>
    BY <2>2
  <2> QED BY <1>7, <2>1, <2>2, HostEnds
<1> QED BY <1>1, <1>2, <1>3, <1>4, <1>5, <1>6, <1>7 DEF RunStep

LEMMA RunOKStep ==
  ASSUME ProvisioningInv, NEW r \in Runs, RunStep(r) \/ HostStep(r) \/ Crash(r)
  PROVE  \A s \in Runs : RunOK(s)'
<1> TypeOK /\ RunOK(r)
  BY DEF ProvisioningInv
<1>1. ASSUME NEW s \in Runs, s # r PROVE RunOK(s)'
  <2>1. Same(s) /\ RunOK(s)
    BY <1>1, OthersSame DEF ProvisioningInv
  <2> QED BY <2>1 DEF Same, RunOK
<1>2. ASSUME Preflight(r) PROVE RunOK(r)'
  BY <1>2, OpsAre DEF Preflight, Return, host, TypeOK, RunOK, Ended
<1>3. ASSUME Allocate(r) PROVE RunOK(r)'
  <2>1. vmid'[r] \in VmIds /\ step'[r] = "upConfig" /\ UNCHANGED <<verdict, task>>
    BY <1>3 DEF Allocate, IdsFor, host, TypeOK
  <2>2. verdict[r] = "pending" /\ \A op \in Ops : task[r][op] = "none"
    BY <1>3 DEF Allocate, RunOK
  <2> QED BY <2>1, <2>2, OpsAre, Tables, ProvisioningAssumption DEF RunOK
<1>4. ASSUME NoIdGiven(r) PROVE RunOK(r)'
  BY <1>4, OpsAre DEF NoIdGiven, Return, host, TypeOK, RunOK
<1>5. ASSUME NEW op \in Ops, Succeeds(r, op) PROVE RunOK(r)'
  <2>1. /\ step[r] = op /\ task[r][op] = "ok"
        /\ GoTo(r, OnSuccess[op], verdict[r])
        /\ UNCHANGED <<vmid, task>>
    BY <1>5 DEF Succeeds, host
  <2>2. verdict[r] \in {"pending", "ok", "failed"}
    BY DEF TypeOK
  <2>3. verdict[r] # "failed" => verdict[r] = "pending" /\ \A q \in DoneBefore[op] : task[r][q] = "ok"
    BY <2>1 DEF RunOK
  <2>4. vmid[r] # NoId
    BY <2>1 DEF RunOK
  <2>5. CASE op = "upConfig"
    BY <2>1, <2>2, <2>3, <2>4, <2>5, GoToEffect, Tables, OpsAre DEF RunOK
  <2>6. CASE op = "upEfi"
    BY <2>1, <2>2, <2>3, <2>4, <2>6, GoToEffect, Tables, OpsAre DEF RunOK
  <2>7. CASE op = "create"
    BY <2>1, <2>2, <2>3, <2>4, <2>7, GoToEffect, Tables, OpsAre DEF RunOK
  <2>8. CASE op = "delEfi"
    BY <2>1, <2>2, <2>3, <2>4, <2>8, GoToEffect, Tables, OpsAre DEF RunOK
  <2>9. CASE op = "delConfig"
    BY <2>1, <2>2, <2>3, <2>4, <2>9, GoToEffect, Tables, OpsAre DEF RunOK
  <2>10. CASE op = "start"
    BY <2>1, <2>2, <2>3, <2>4, <2>10, GoToEffect, Tables, OpsAre DEF RunOK
  <2> QED BY <2>5, <2>6, <2>7, <2>8, <2>9, <2>10, OpsAre
<1>6. ASSUME NEW op \in Ops, Fails(r, op) PROVE RunOK(r)'
  <2>1. /\ step[r] = op
        /\ GoTo(r, OnFailure[op], "failed")
        /\ UNCHANGED <<vmid, task>>
    BY <1>6 DEF Fails, host
  <2>2. /\ verdict'[r] = "failed"
        /\ step'[r] \in (Ops \ {"start"}) \cup {"done"}
    BY <2>1, GoToEffect, OpsSteps, OpsAre
  <2>3. vmid[r] # NoId
    BY <2>1 DEF RunOK
  <2> QED BY <2>1, <2>2, <2>3, OpsAre DEF RunOK
<1>7. ASSUME Crash(r) PROVE RunOK(r)'
  BY <1>7, OpsAre DEF Crash, host, TypeOK, RunOK
<1>8. ASSUME NEW op \in Ops, Accept(r, op) PROVE RunOK(r)'
  <2>1. /\ step[r] = op /\ task[r][op] = "none" /\ Task(r, op, "running")
        /\ UNCHANGED <<step, verdict, vmid>>
    BY <1>8 DEF Accept
  <2>2. task'[r][op] = "running" /\ \A q \in Ops \ {op} : task'[r][q] = task[r][q]
    BY <2>1, TaskEffect
  <2>3. vmid[r] # NoId /\ (verdict[r] # "failed" => verdict[r] = "pending" /\ \A q \in DoneBefore[op] : task[r][q] = "ok")
    BY <2>1 DEF RunOK
  <2>4. DoneBefore[op] \subseteq Ops \ {op}
    BY OpsAre, Tables
  <2>5. op \in Deletes => Uploads \subseteq DoneBefore[op]
    BY OpsAre, Tables
  <2>6. op = "start" => "create" \in DoneBefore[op]
    BY Tables
  <2> QED BY <2>1, <2>2, <2>3, <2>4, <2>5, <2>6, OpsAre DEF RunOK
<1>9. ASSUME HostStep(r), \A op \in Ops : ~Accept(r, op) PROVE RunOK(r)'
  <2>1. ASSUME NEW op \in Ops, NEW st \in {"ok", "error"}, EndsTask(r, op, st) PROVE RunOK(r)'
    <3>1. /\ task[r][op] = "running" /\ task'[r][op] = st
          /\ \A q \in Ops \ {op} : task'[r][q] = task[r][q]
          /\ UNCHANGED <<step, verdict, vmid>>
      BY <2>1, TaskEffect DEF EndsTask, Running
    <3>2. step[r] \in Ops => DoneBefore[step[r]] \subseteq Ops
      BY OpsAre, Tables
    <3> QED BY <3>1, <3>2, OpsAre DEF RunOK
  <2>2. CASE UNCHANGED <<faults, step, verdict, vmid, hvId, task>>
    BY <2>2 DEF RunOK
  <2> QED BY <1>9, <2>1, <2>2, HostEnds
<1> QED
  BY <1>1, <1>2, <1>3, <1>4, <1>5, <1>6, <1>7, <1>8, <1>9 DEF RunStep

\* Facts of every state that the steps on the host below rest on.
LEMMA HostFacts ==
  ASSUME ProvisioningInv, NEW s \in Runs
  PROVE  /\ TypeOK /\ RunOK(s) /\ HostOK(s)
         /\ \A op \in Ops : task[s][op] # "none" => vmid[s] \in VmIds
         /\ \A k \in Kinds : DeleteOf(k) \in Deletes
BY DEF ProvisioningInv, TypeOK, RunOK, DeleteOf, Deletes

\* A run decides that it has failed once and for all.
LEMMA FailedStays ==
  ASSUME TypeOK, NEW r \in Runs, RunStep(r) \/ Crash(r), RunOK(r), verdict[r] = "failed"
  PROVE  verdict'[r] = "failed"
<1>1. CASE Preflight(r) \/ NoIdGiven(r) \/ Allocate(r)
  BY <1>1 DEF Preflight, NoIdGiven, Allocate, Return, TypeOK
<1>2. ASSUME NEW op \in Ops, Succeeds(r, op) PROVE verdict'[r] = "failed"
  <2>1. GoTo(r, OnSuccess[op], verdict[r])
    BY <1>2 DEF Succeeds
  <2> QED BY <2>1, GoToEffect, OpsSteps
<1>3. ASSUME NEW op \in Ops, Fails(r, op) PROVE verdict'[r] = "failed"
  <2>1. GoTo(r, OnFailure[op], "failed")
    BY <1>3 DEF Fails
  <2> QED BY <2>1, GoToEffect, OpsSteps
<1>4. CASE Crash(r)
  BY <1>4 DEF Crash
<1> QED BY <1>1, <1>2, <1>3, <1>4 DEF RunStep

\* A step of a run itself changes nothing on the host, and its id only while
\* it has no tasks.
LEMMA RunStepHost ==
  ASSUME ProvisioningInv, NEW r \in Runs, RunStep(r) \/ Crash(r)
  PROVE  /\ UNCHANGED host
         /\ vmid'[r] = vmid[r] \/ \A op \in Ops : task[r][op] = "none"
<1>1. TypeOK /\ RunOK(r)
  BY DEF ProvisioningInv
<1> QED BY <1>1 DEF RunStep, Preflight, Allocate, NoIdGiven, Succeeds, Fails, Crash, host, RunOK, TypeOK

LEMMA RunStepHostOK ==
  ASSUME ProvisioningInv, NEW r \in Runs, RunStep(r) \/ Crash(r)
  PROVE  /\ \A s \in Runs : HostOK(s)'
         /\ \A v \in VmIds : VmOK(v)'
<1>1. UNCHANGED host
  BY RunStepHost
<1>2. ASSUME NEW s \in Runs, s # r PROVE HostOK(s)'
  <2>1. Same(s)
    BY <1>2, OthersSame DEF ProvisioningInv
  <2> QED BY <1>1, <2>1, HostFacts DEF HostOK, Same, host, Running, Finished
<1>3. HostOK(r)'
  <2>1. CASE vmid'[r] = vmid[r]
    BY <1>1, <2>1, HostFacts, FailedStays DEF HostOK, host, Running, Finished
  <2>2. CASE \A op \in Ops : task[r][op] = "none"
    BY <1>1, <2>2, OpsAre, HostFacts DEF HostOK, host, Running, Finished
  <2> QED BY <2>1, <2>2, RunStepHost
<1>4. ASSUME NEW v \in VmIds PROVE VmOK(v)'
  BY <1>1 DEF ProvisioningInv, VmOK, host, Finished
<1> QED BY <1>2, <1>3, <1>4

\* The create that is running owns the id it claimed; no other run's does.
LEMMA CreatingApart ==
  ASSUME ProvisioningInv, NEW r \in Runs, NEW s \in Runs, r # s,
         Running(r, "create"), vmid[s] = vmid[r]
  PROVE  /\ ~Running(s, "create")
         /\ task[s]["create"] # "ok"
         /\ task[s]["start"] # "ok"
BY HostFacts, OpsAre DEF HostOK, RunOK, Running, Finished

\* Steps that end a task and touch only the disks or the images.
LEMMA EndsHostOK ==
  ASSUME ProvisioningInv, NEW r \in Runs, NEW op \in Ops, NEW st \in {"ok", "error"},
         EndsTask(r, op, st), op \notin {"create", "start"} \/ st = "error",
         UNCHANGED <<vmState, vmOf>>,
         \A s \in Runs, k \in Kinds :
           verdict[s] # "failed" /\ task'[s][DeleteOf(k)] = "ok" =>
             image'[ImageOf(vmid[s], k)] # s
  PROVE  /\ \A s \in Runs : HostOK(s)'
         /\ \A v \in VmIds : VmOK(v)'
<1>1. /\ task[r][op] = "running" /\ task'[r][op] = st
      /\ \A q \in Ops \ {op} : task'[r][q] = task[r][q]
      /\ \A s \in Runs \ {r} : task'[s] = task[s]
      /\ UNCHANGED <<faults, step, verdict, vmid, hvId>>
  BY TaskEffect, HostFacts DEF EndsTask, Running
<1>2. ASSUME NEW s \in Runs PROVE HostOK(s)'
  BY <1>1, HostFacts, OpsAre DEF HostOK, Running, Finished
<1>3. ASSUME NEW v \in VmIds PROVE VmOK(v)'
  <2>1. VmOK(v)
    BY DEF ProvisioningInv
  <2>2. CASE vmState[v] = "running"
    <3>1. vmOf[v] \in Runs /\ task[vmOf[v]]["start"] = "ok"
      BY <2>1, <2>2 DEF VmOK, Finished
    <3> QED BY <1>1, <2>2, <3>1, OpsAre DEF VmOK, Finished
  <2>3. CASE vmState[v] # "running"
    BY <2>1, <2>3 DEF VmOK, Finished
  <2> QED BY <2>2, <2>3
<1> QED BY <1>2, <1>3

LEMMA AcceptHostOK ==
  ASSUME ProvisioningInv, NEW r \in Runs, NEW op \in Ops, Accept(r, op)
  PROVE  /\ \A s \in Runs : HostOK(s)'
         /\ \A v \in VmIds : VmOK(v)'
<1>1. /\ task[r][op] = "none" /\ task'[r][op] = "running"
      /\ \A q \in Ops \ {op} : task'[r][q] = task[r][q]
      /\ \A s \in Runs \ {r} : task'[s] = task[s]
      /\ UNCHANGED <<step, verdict, vmid, image>>
  BY TaskEffect, HostFacts DEF Accept
<1>2. vmid[r] \in VmIds /\ step[r] = op
  BY HostFacts DEF Accept, RunOK, TypeOK
<1>3. CASE op # "create"
  <2>1. UNCHANGED <<vmState, vmOf, disk>>
    BY <1>3 DEF Accept
  <2>2. ASSUME NEW s \in Runs PROVE HostOK(s)'
    BY <1>1, <1>3, <2>1, HostFacts, OpsAre DEF HostOK, Running, Finished
  <2>3. ASSUME NEW v \in VmIds PROVE VmOK(v)'
    BY <1>1, <2>1, OpsAre DEF ProvisioningInv, VmOK, Finished
  <2> QED BY <2>2, <2>3
<1>4. CASE op = "create"
  <2>1. /\ vmState[vmid[r]] = "none"
        /\ vmState'[vmid[r]] = "creating" /\ vmOf'[vmid[r]] = r
        /\ \A v \in VmIds \ {vmid[r]} : vmState'[v] = vmState[v] /\ vmOf'[v] = vmOf[v]
    BY <1>2, <1>4, HostFacts DEF Accept, TypeOK
  <2>2. ASSUME NEW s \in Runs, s # r PROVE HostOK(s)'
    BY <1>1, <2>1, <2>2, HostFacts, OpsAre DEF HostOK, Running, Finished
  <2>3. HostOK(r)'
    BY <1>1, <1>2, <1>4, <2>1, HostFacts, OpsAre DEF HostOK, RunOK, Running, Finished
  <2>4. ASSUME NEW v \in VmIds PROVE VmOK(v)'
    BY <1>1, <1>4, <2>1, OpsAre DEF ProvisioningInv, VmOK, Finished
  <2> QED BY <2>2, <2>3, <2>4
<1> QED BY <1>3, <1>4

LEMMA CreateFailsHostOK ==
  ASSUME ProvisioningInv, NEW r \in Runs, Running(r, "create"), CreateFails(r)
  PROVE  /\ \A s \in Runs : HostOK(s)'
         /\ \A v \in VmIds : VmOK(v)'
<1>1. /\ task'[r]["create"] = "error"
      /\ \A q \in Ops \ {"create"} : task'[r][q] = task[r][q]
      /\ \A s \in Runs \ {r} : task'[s] = task[s]
      /\ UNCHANGED <<step, verdict, vmid, image>>
  BY TaskEffect, HostFacts, OpsAre DEF CreateFails
<1>2. vmid[r] \in VmIds /\ vmState[vmid[r]] = "creating" /\ vmOf[vmid[r]] = r
  BY HostFacts, OpsAre DEF HostOK, Running
<1>3. /\ vmState'[vmid[r]] = "none"
      /\ \A v \in VmIds \ {vmid[r]} : vmState'[v] = vmState[v] /\ vmOf'[v] = vmOf[v]
  BY <1>2, HostFacts DEF CreateFails, TypeOK
<1>4. ASSUME NEW s \in Runs, s # r PROVE HostOK(s)'
  BY <1>1, <1>3, <1>4, CreatingApart, HostFacts, OpsAre DEF HostOK, Running, Finished
<1>5. HostOK(r)'
  BY <1>1, HostFacts, OpsAre DEF HostOK, RunOK, Running
<1>6. ASSUME NEW v \in VmIds PROVE VmOK(v)'
  <2>1. CASE vmState[v] = "running"
    <3>1. v # vmid[r] /\ vmOf[v] \in Runs /\ task[vmOf[v]]["start"] = "ok"
      BY <1>2, <2>1 DEF ProvisioningInv, VmOK, Finished
    <3> QED BY <1>1, <1>3, <2>1, <3>1, OpsAre DEF VmOK, Finished
  <2>2. CASE vmState[v] # "running"
    BY <1>3, <2>2 DEF ProvisioningInv, VmOK, Finished
  <2> QED BY <2>1, <2>2
<1> QED BY <1>4, <1>5, <1>6

LEMMA ImageNames ==
  /\ \A v \in VmIds, k \in Kinds : ImageOf(v, k) \in Images
  /\ \A v, w, k, l : ImageOf(v, k) = ImageOf(w, l) => v = w /\ k = l
  /\ \A op \in Deletes : DeleteOf(KindOf(op)) = op
  /\ \A k \in Kinds : DeleteOf(k) \in Deletes /\ KindOf(DeleteOf(k)) = k
BY DEF ImageOf, Images, DeleteOf, KindOf, Deletes, Kinds

LEMMA HostStepHostOK ==
  ASSUME ProvisioningInv, NEW r \in Runs, HostStep(r)
  PROVE  /\ \A s \in Runs : HostOK(s)'
         /\ \A v \in VmIds : VmOK(v)'
<1> DEFINE Goal == (\A s \in Runs : HostOK(s)') /\ \A v \in VmIds : VmOK(v)'
<1>1. ASSUME NEW op \in Ops, UploadLands(r, op) PROVE Goal
  <2>1. EndsTask(r, op, "ok") /\ op \in Uploads /\ op \notin {"create", "start"}
    BY <1>1, OpsAre DEF UploadLands, EndsTask
  <2>2. ASSUME NEW s \in Runs, NEW k \in Kinds,
               verdict[s] # "failed", task'[s][DeleteOf(k)] = "ok"
        PROVE  image'[ImageOf(vmid[s], k)] # s
    <3>1. task[s][DeleteOf(k)] = "ok"
      BY <2>1, <2>2, TaskEffect, HostFacts, ImageNames, OpsAre DEF EndsTask
    <3>2. s # r
      BY <2>1, <2>2, <3>1, HostFacts, ImageNames DEF EndsTask, Running, RunOK
    <3>3. image[ImageOf(vmid[s], k)] # s
      BY <2>2, <3>1, HostFacts DEF HostOK
    <3>4. vmid[r] \in VmIds /\ vmid[s] \in VmIds
      BY <1>1, <3>1, HostFacts, ImageNames, OpsAre DEF UploadLands, Running
    <3> QED BY <1>1, <3>2, <3>3, <3>4, ImageNames, OpsSteps, HostFacts DEF UploadLands, TypeOK
  <2>3. UNCHANGED <<vmState, vmOf>>
    BY <1>1 DEF UploadLands
  <2> QED BY <2>1, <2>2, <2>3, EndsHostOK
<1>2. ASSUME NEW op \in Ops, DeleteRuns(r, op) PROVE Goal
  <2>1. PICK st \in {"ok", "error"} : EndsTask(r, op, st)
    BY <1>2 DEF DeleteRuns, EndsTask
  <2>2. op \in Deletes /\ op \notin {"create", "start"} /\ UNCHANGED <<vmState, vmOf>>
    BY <1>2, OpsAre DEF DeleteRuns
  <2>3. vmid[r] \in VmIds
    BY <1>2, HostFacts DEF DeleteRuns, Running
  <2>4. /\ image'[ImageOf(vmid[r], KindOf(op))] = NoRun
        /\ \A i \in Images : image'[i] \in {image[i], NoRun}
    BY <1>2, <2>3, ImageNames, OpsSteps, HostFacts DEF DeleteRuns, TypeOK
  <2>5. ASSUME NEW s \in Runs, NEW k \in Kinds,
               verdict[s] # "failed", task'[s][DeleteOf(k)] = "ok"
        PROVE  image'[ImageOf(vmid[s], k)] # s
    <3>1. CASE task[s][DeleteOf(k)] = "ok"
      <4>1. image[ImageOf(vmid[s], k)] # s /\ ImageOf(vmid[s], k) \in Images
        BY <2>5, <3>1, HostFacts, ImageNames, OpsAre DEF HostOK
      <4> QED BY <2>4, <4>1, ProvisioningAssumption
    <3>2. CASE task[s][DeleteOf(k)] # "ok"
      <4>1. s = r /\ DeleteOf(k) = op
        BY <2>1, <2>5, <3>2, TaskEffect, HostFacts, ImageNames, OpsAre DEF EndsTask
      <4>2. KindOf(op) = k
        BY <4>1, ImageNames
      <4> QED BY <2>4, <4>1, <4>2, ProvisioningAssumption
    <3> QED BY <3>1, <3>2
  <2> QED BY <2>1, <2>2, <2>5, EndsHostOK
<1>3. ASSUME CreateFails(r), Running(r, "create") PROVE Goal
  BY <1>3, CreateFailsHostOK
<1>4. ASSUME NEW op \in Ops, TaskFails(r, op) PROVE Goal
  <2>1. CASE op = "create"
    BY <1>3, <1>4, <2>1 DEF TaskFails
  <2>2. CASE op # "create"
    <3>1. EndsTask(r, op, "error") /\ UNCHANGED <<vmState, vmOf, image>>
      BY <1>4, <2>2 DEF TaskFails, EndsTask
    <3>2. ASSUME NEW s \in Runs, NEW k \in Kinds,
                 verdict[s] # "failed", task'[s][DeleteOf(k)] = "ok"
          PROVE  image'[ImageOf(vmid[s], k)] # s
      <4>1. task[s][DeleteOf(k)] = "ok"
        BY <3>1, <3>2, TaskEffect, HostFacts, ImageNames, OpsAre DEF EndsTask
      <4> QED BY <3>1, <3>2, <4>1, HostFacts DEF HostOK
    <3> QED BY <3>1, <3>2, EndsHostOK
  <2> QED BY <2>1, <2>2
<1>5. ASSUME NEW k \in Kinds, Import(r, k) PROVE Goal
  <2>1. CASE CreateFails(r)
    BY <1>3, <1>5, <2>1 DEF Import
  <2>2. CASE UNCHANGED <<faults, step, verdict, vmid, hvId, task, image, vmState, vmOf>>
    BY <2>2, HostFacts DEF ProvisioningInv, HostOK, VmOK, Running, Finished
  <2> QED BY <1>5, <2>1, <2>2 DEF Import
<1>6. ASSUME Created(r) PROVE Goal
  <2>1. /\ Running(r, "create") /\ task'[r]["create"] = "ok"
        /\ \A q \in Ops \ {"create"} : task'[r][q] = task[r][q]
        /\ \A s \in Runs \ {r} : task'[s] = task[s]
        /\ UNCHANGED <<step, verdict, vmid, image, vmOf>>
    BY <1>6, TaskEffect, HostFacts, OpsAre DEF Created
  <2>2. vmid[r] \in VmIds /\ vmState[vmid[r]] = "creating" /\ vmOf[vmid[r]] = r
    BY <2>1, HostFacts, OpsAre DEF HostOK, Running
  <2>3. /\ vmState'[vmid[r]] = "stopped"
        /\ \A v \in VmIds \ {vmid[r]} : vmState'[v] = vmState[v]
    BY <1>6, <2>2, HostFacts DEF Created, TypeOK
  <2>4. ASSUME NEW s \in Runs, s # r PROVE HostOK(s)'
    BY <2>1, <2>3, <2>4, CreatingApart, HostFacts, OpsAre DEF HostOK, Running, Finished
  <2>5. HostOK(r)'
    BY <2>1, <2>2, <2>3, HostFacts, ImageNames, OpsAre DEF HostOK, RunOK, Running, Finished
  <2>6. ASSUME NEW v \in VmIds PROVE VmOK(v)'
    <3>1. CASE v = vmid[r]
      BY <2>1, <2>2, <2>3, <3>1 DEF VmOK, Finished
    <3>2. CASE v # vmid[r] /\ Finished(v)
      BY <2>1, <2>3, <3>2, OpsAre DEF ProvisioningInv, VmOK, Finished
    <3>3. CASE v # vmid[r] /\ ~Finished(v)
      BY <2>3, <3>3 DEF VmOK, Finished
    <3> QED BY <3>1, <3>2, <3>3
  <2> QED BY <2>4, <2>5, <2>6
<1>7. ASSUME Started(r) PROVE Goal
  <2>1. /\ Running(r, "start") /\ task'[r]["start"] = "ok"
        /\ \A q \in Ops \ {"start"} : task'[r][q] = task[r][q]
        /\ \A s \in Runs \ {r} : task'[s] = task[s]
        /\ UNCHANGED <<step, verdict, vmid, image, vmOf>>
    BY <1>7, TaskEffect, HostFacts, OpsAre DEF Started
  <2>2. vmid[r] \in VmIds /\ vmState[vmid[r]] = "stopped" /\ vmOf[vmid[r]] = r
    BY <1>7, <2>1, HostFacts, OpsAre DEF HostOK, RunOK, Running, Started
  <2>3. /\ vmState'[vmid[r]] = "running"
        /\ \A v \in VmIds \ {vmid[r]} : vmState'[v] = vmState[v]
    BY <1>7, <2>2, HostFacts DEF Started, TypeOK
  <2>4. ASSUME NEW s \in Runs, s # r PROVE HostOK(s)'
    BY <2>1, <2>2, <2>3, <2>4, HostFacts, OpsAre DEF HostOK, Running, Finished
  <2>5. HostOK(r)'
    BY <2>1, <2>2, <2>3, HostFacts, ImageNames, OpsAre DEF HostOK, RunOK, Running, Finished
  <2>6. ASSUME NEW v \in VmIds PROVE VmOK(v)'
    <3>1. CASE v = vmid[r]
      BY <2>1, <2>2, <2>3, <3>1 DEF VmOK, Finished
    <3>2. CASE v # vmid[r] /\ Finished(v)
      BY <2>1, <2>3, <3>2, OpsAre DEF ProvisioningInv, VmOK, Finished
    <3>3. CASE v # vmid[r] /\ ~Finished(v)
      BY <2>3, <3>3 DEF VmOK, Finished
    <3> QED BY <3>1, <3>2, <3>3
  <2> QED BY <2>4, <2>5, <2>6
<1>8. ASSUME NEW op \in Ops, Accept(r, op) PROVE Goal
  BY <1>8, AcceptHostOK
<1>9. Goal
  BY <1>1, <1>2, <1>4, <1>5, <1>6, <1>7, <1>8 DEF HostStep
<1> QED BY <1>9

LEMMA InitInv == Init => ProvisioningInv
<1> SUFFICES ASSUME Init PROVE ProvisioningInv
  OBVIOUS
<1>1. TypeOK
  BY ProvisioningAssumption DEF Init, TypeOK, Steps
<1>2. ASSUME NEW r \in Runs PROVE RunOK(r) /\ HostOK(r)
  BY OpsAre, ImageNames DEF Init, RunOK, HostOK, Running
<1>3. ASSUME NEW v \in VmIds PROVE VmOK(v)
  BY DEF Init, VmOK, Finished
<1> QED BY <1>1, <1>2, <1>3 DEF ProvisioningInv

LEMMA InvStep == ProvisioningInv /\ [Next]_vars => ProvisioningInv'
<1> SUFFICES ASSUME ProvisioningInv, [Next]_vars PROVE ProvisioningInv'
  OBVIOUS
<1>1. TypeOK'
  BY TypeStep DEF ProvisioningInv
<1>2. ASSUME NEW r \in Runs, RunStep(r) \/ HostStep(r) \/ Crash(r)
      PROVE  /\ \A s \in Runs : RunOK(s)' /\ HostOK(s)'
             /\ \A v \in VmIds : VmOK(v)'
  BY <1>2, RunOKStep, RunStepHostOK, HostStepHostOK
<1>3. CASE UNCHANGED vars
  BY <1>3 DEF ProvisioningInv, TypeOK, RunOK, HostOK, VmOK, Running, Finished, vars
<1> QED BY <1>1, <1>2, <1>3 DEF Next, ProvisioningInv

\* What the tasks of every run have made of the host, in every reachable state.
THEOREM Inductive == Spec => []ProvisioningInv
BY InitInv, InvStep, PTL DEF Spec

\* A run that returns True is right about its VM, under every fault and also
\* when runs share an id: the VM is its own, runs exactly if the config asks
\* for it, and no image the run uploaded is left.
THEOREM Truthful == Spec => []SuccessIsTrue
<1>1. ProvisioningInv => SuccessIsTrue
  <2> SUFFICES ASSUME ProvisioningInv, NEW r \in Runs, verdict[r] = "ok"
               PROVE  /\ vmOf[vmid[r]] = r
                      /\ vmState[vmid[r]] = IF NodeOf[r] \in StartOnCreation THEN "running" ELSE "stopped"
                      /\ \A k \in Kinds : image[ImageOf(vmid[r], k)] # r
    BY DEF SuccessIsTrue
  <2>1. /\ \A op \in Deletes \cup {"create"} : task[r][op] = "ok"
        /\ NodeOf[r] \in StartOnCreation => task[r]["start"] = "ok"
    BY HostFacts DEF RunOK
  <2>2. vmid[r] \in VmIds /\ vmOf[vmid[r]] = r /\ Finished(vmid[r])
    BY <2>1, HostFacts, OpsAre DEF HostOK
  <2>3. NodeOf[r] \in StartOnCreation => vmState[vmid[r]] = "running"
    BY <2>1, HostFacts DEF HostOK
  <2>4. vmState[vmid[r]] = "running" => NodeOf[r] \in StartOnCreation
    BY <2>2, HostFacts DEF ProvisioningInv, VmOK, RunOK
  <2>5. \A k \in Kinds : image[ImageOf(vmid[r], k)] # r
    BY <2>1, HostFacts DEF HostOK
  <2> QED BY <2>2, <2>3, <2>4, <2>5 DEF Finished
<1> QED BY <1>1, Inductive, PTL

-----------------------------------------------------------------------------
(* Configs with ids of their own: whatever bears an id belongs to its config *)

\* OwnImagesInv for one id.
OwnVm(v) ==
  /\ vmOf[v] # NoRun => IdOf(vmOf[v]) = v
  /\ \A k \in Kinds :
       /\ image[ImageOf(v, k)] # NoRun => IdOf(image[ImageOf(v, k)]) = v
       /\ disk[v][k] # NoRun => IdOf(disk[v][k]) = v
       /\ Finished(v) => disk[v][k] # NoRun

LEMMA OwnIds ==
  ASSUME DistinctPinnedIds, ProvisioningInv, OwnImagesInv, NEW r \in Runs,
         RunStep(r) \/ HostStep(r) \/ Crash(r)
  PROVE  hvId' = PinnedId /\ \A s \in Runs : vmid'[s] \in {NoId, IdOf(s)}
<1> USE ProvisioningAssumption
<1>1. TypeOK /\ NodeOf[r] \in Nodes
  BY DEF ProvisioningInv
<1>2. CASE Allocate(r)
  <2>1. hvId[NodeOf[r]] = IdOf(r) /\ IdOf(r) # NoId
    BY <1>1 DEF OwnImagesInv, DistinctPinnedIds, IdOf
  <2>2. /\ vmid' = [vmid EXCEPT ![r] = IdOf(r)]
        /\ hvId' = [hvId EXCEPT ![NodeOf[r]] = IdOf(r)]
    BY <1>2, <2>1 DEF Allocate, IdsFor
  <2> QED BY <1>1, <2>1, <2>2 DEF OwnImagesInv, TypeOK
<1>3. CASE Crash(r)
  <2>1. hvId' = [hvId EXCEPT ![NodeOf[r]] = PinnedId[NodeOf[r]]] /\ vmid' = vmid
    BY <1>3 DEF Crash, OwnImagesInv
  <2> QED BY <1>1, <2>1 DEF OwnImagesInv, TypeOK
<1>4. CASE UNCHANGED <<vmid, hvId>>
  BY <1>4 DEF OwnImagesInv
<1>5. Allocate(r) \/ Crash(r) \/ UNCHANGED <<vmid, hvId>>
  BY DEF RunStep, HostStep, Preflight, NoIdGiven, Succeeds, Fails, Accept, UploadLands,
         DeleteRuns, TaskFails, CreateFails, Import, Created, Started
<1> QED BY <1>2, <1>3, <1>4, <1>5

LEMMA OwnVmStep ==
  ASSUME ProvisioningInv, OwnImagesInv, NEW r \in Runs,
         RunStep(r) \/ HostStep(r) \/ Crash(r), NEW v \in VmIds
  PROVE  OwnVm(v)'
<1> USE ProvisioningAssumption
<1>1. TypeOK /\ OwnVm(v)
  BY DEF ProvisioningInv, OwnImagesInv, OwnVm
<1>2. \A op \in Ops : task[r][op] # "none" \/ step[r] = op => vmid[r] \in VmIds /\ IdOf(r) = vmid[r]
  BY HostFacts DEF OwnImagesInv, TypeOK, RunOK
<1>3. CASE UNCHANGED host
  BY <1>1, <1>3 DEF host, OwnVm, Finished
<1>4. ASSUME NEW op \in Ops, Accept(r, op) PROVE OwnVm(v)'
  <2>1. CASE op # "create"
    BY <1>1, <1>4, <2>1 DEF Accept, OwnVm, Finished
  <2>2. CASE op = "create" /\ v = vmid[r]
    <3>1. /\ vmState'[v] = "creating" /\ vmOf'[v] = r
          /\ disk'[v] = [k \in Kinds |-> NoRun] /\ image' = image
      BY <1>1, <1>4, <2>2 DEF Accept, TypeOK
    <3>2. IdOf(r) = v
      BY <1>2, <1>4, <2>2 DEF Accept
    <3> QED BY <1>1, <2>2, <3>1, <3>2 DEF OwnVm, Finished
  <2>3. CASE op = "create" /\ v # vmid[r]
    <3>1. vmState'[v] = vmState[v] /\ vmOf'[v] = vmOf[v] /\ disk'[v] = disk[v] /\ image' = image
      BY <1>1, <1>4, <2>3 DEF Accept, TypeOK
    <3> QED BY <1>1, <3>1 DEF OwnVm, Finished
  <2> QED BY <2>1, <2>2, <2>3
<1>5. ASSUME NEW op \in Ops, UploadLands(r, op) PROVE OwnVm(v)'
  <2>1. vmid[r] \in VmIds /\ IdOf(r) = vmid[r] /\ KindOf(op) \in Kinds
    BY <1>2, <1>5, OpsSteps DEF UploadLands, Running
  <2>2. \A k \in Kinds : \/ image'[ImageOf(v, k)] = image[ImageOf(v, k)]
                         \/ image'[ImageOf(v, k)] = r /\ v = vmid[r]
    <3> DEFINE i == ImageOf(vmid[r], KindOf(op))
    <3>1. i \in Images /\ image' = [image EXCEPT ![i] = r]
      BY <1>5, <2>1, ImageNames DEF UploadLands
    <3>2. image'[i] = r /\ \A j \in Images \ {i} : image'[j] = image[j]
      BY <1>1, <3>1 DEF TypeOK
    <3> HIDE DEF i
    <3>3. ASSUME NEW k \in Kinds
          PROVE  \/ image'[ImageOf(v, k)] = image[ImageOf(v, k)]
                 \/ image'[ImageOf(v, k)] = r /\ v = vmid[r]
      <4>1. CASE ImageOf(v, k) = i
        BY <3>2, <4>1, ImageNames DEF i
      <4>2. CASE ImageOf(v, k) # i
        BY <3>2, <4>2, ImageNames
      <4> QED BY <4>1, <4>2
    <3> QED BY <3>3
  <2>3. UNCHANGED <<vmState, vmOf, disk>>
    BY <1>5 DEF UploadLands
  <2> QED BY <1>1, <2>1, <2>2, <2>3 DEF OwnVm, Finished
<1>6. ASSUME NEW op \in Ops, DeleteRuns(r, op) PROVE OwnVm(v)'
  <2>1. vmid[r] \in VmIds /\ KindOf(op) \in Kinds
    BY <1>2, <1>6, OpsSteps DEF DeleteRuns, Running
  <2>2. \A k \in Kinds : image'[ImageOf(v, k)] \in {image[ImageOf(v, k)], NoRun}
    BY <1>1, <1>6, <2>1, ImageNames DEF DeleteRuns, TypeOK
  <2>3. UNCHANGED <<vmState, vmOf, disk>>
    BY <1>6 DEF DeleteRuns
  <2> QED BY <1>1, <2>2, <2>3 DEF OwnVm, Finished
<1>7. ASSUME CreateFails(r), Running(r, "create") PROVE OwnVm(v)'
  <2>1. vmid[r] \in VmIds /\ image' = image
    BY <1>2, <1>7, OpsAre DEF Running, CreateFails
  <2>2. \/ vmState'[v] = vmState[v] /\ vmOf'[v] = vmOf[v] /\ disk'[v] = disk[v]
        \/ vmState'[v] = "none" /\ vmOf'[v] = NoRun /\ disk'[v] = [k \in Kinds |-> NoRun]
    <3>1. CASE v = vmid[r]
      BY <1>1, <1>7, <2>1, <3>1 DEF CreateFails, TypeOK
    <3>2. CASE v # vmid[r]
      BY <1>1, <1>7, <2>1, <3>2 DEF CreateFails, TypeOK
    <3> QED BY <3>1, <3>2
  <2> QED BY <1>1, <2>1, <2>2 DEF OwnVm, Finished
<1>8. ASSUME NEW op \in Ops, TaskFails(r, op) PROVE OwnVm(v)'
  BY <1>1, <1>7, <1>8 DEF TaskFails, OwnVm, Finished
<1>9. ASSUME NEW k \in Kinds, Import(r, k) PROVE OwnVm(v)'
  <2>1. vmid[r] \in VmIds /\ Running(r, "create")
    BY <1>2, <1>9, OpsAre DEF Import, Running
  <2>2. CASE CreateFails(r)
    BY <1>7, <2>1, <2>2
  <2>3. CASE /\ image[ImageOf(vmid[r], k)] # NoRun
             /\ disk' = [disk EXCEPT ![vmid[r]][k] = image[ImageOf(vmid[r], k)]]
             /\ UNCHANGED <<image, vmState, vmOf>>
    <3>1. \A l \in Kinds : \/ disk'[v][l] = disk[v][l]
                           \/ v = vmid[r] /\ l = k /\ disk'[v][l] = image[ImageOf(v, l)]
      <4> DEFINE D == image[ImageOf(vmid[r], k)]
      <4>1. disk \in [VmIds -> [Kinds -> Runs \cup {NoRun}]] /\ disk' = [disk EXCEPT ![vmid[r]][k] = D]
        BY <1>1, <2>3 DEF TypeOK
      <4> HIDE DEF D
      <4>2. \A l \in Kinds : disk'[v][l] = disk[v][l] \/ (v = vmid[r] /\ l = k /\ disk'[v][l] = D)
        BY <2>1, <4>1
      <4> QED BY <4>2 DEF D
    <3> QED BY <1>1, <2>3, <3>1 DEF OwnVm, Finished
  <2> QED BY <1>9, <2>2, <2>3 DEF Import
<1>10. ASSUME Created(r) PROVE OwnVm(v)'
  <2>1. vmid[r] \in VmIds /\ UNCHANGED <<image, vmOf, disk>>
    BY <1>2, <1>10, OpsAre DEF Created, Running
  <2>2. vmState'[v] = vmState[v] \/ \A k \in Kinds : disk[v][k] # NoRun
    BY <1>1, <1>10, <2>1 DEF Created, TypeOK
  <2> QED BY <1>1, <2>1, <2>2 DEF OwnVm, Finished
<1>11. ASSUME Started(r) PROVE OwnVm(v)'
  <2>1. vmid[r] \in VmIds /\ UNCHANGED <<image, vmOf, disk>>
    BY <1>2, <1>11, OpsAre DEF Started, Running
  <2>2. vmState'[v] = vmState[v] \/ vmState[v] = "stopped"
    BY <1>1, <1>11, <2>1 DEF Started, TypeOK
  <2> QED BY <1>1, <2>1, <2>2 DEF OwnVm, Finished
<1>12. RunStep(r) \/ Crash(r) => UNCHANGED host
  BY RunStepHost
<1> QED BY <1>3, <1>4, <1>5, <1>6, <1>8, <1>9, <1>10, <1>11, <1>12 DEF HostStep

THEOREM OwnInductive == ASSUME DistinctPinnedIds PROVE Spec => []OwnImagesInv
<1>1. Init => OwnImagesInv
  BY ImageNames DEF Init, OwnImagesInv, Finished
<1>2. ProvisioningInv /\ OwnImagesInv /\ [Next]_vars => OwnImagesInv'
  <2> SUFFICES ASSUME ProvisioningInv, OwnImagesInv, [Next]_vars PROVE OwnImagesInv'
    OBVIOUS
  <2>1. ASSUME NEW r \in Runs, RunStep(r) \/ HostStep(r) \/ Crash(r) PROVE OwnImagesInv'
    <3>1. hvId' = PinnedId /\ \A s \in Runs : vmid'[s] \in {NoId, IdOf(s)}
      BY <2>1, OwnIds
    <3>2. \A v \in VmIds : OwnVm(v)'
      BY <2>1, OwnVmStep
    <3> QED BY <3>1, <3>2 DEF OwnImagesInv, OwnVm
  <2>2. CASE UNCHANGED vars
    BY <2>2 DEF OwnImagesInv, Finished, vars
  <2> QED BY <2>1, <2>2 DEF Next
<1> QED BY <1>1, <1>2, Inductive, PTL DEF Spec

\* Configs with ids of their own: whatever fails, crashes, is retried or
\* comes late, a finished VM has its disks from its own node's images.
THEOREM OwnConfig == ASSUME DistinctPinnedIds PROVE Spec => []OwnImages
<1>1. ProvisioningInv /\ OwnImagesInv => OwnImages
  <2> SUFFICES ASSUME ProvisioningInv, OwnImagesInv, NEW v \in VmIds, Finished(v), NEW k \in Kinds
               PROVE  disk[v][k] \in Runs /\ NodeOf[disk[v][k]] = NodeOf[vmOf[v]]
    BY DEF OwnImages
  <2>1. disk[v][k] \in Runs /\ vmOf[v] \in Runs
    BY DEF ProvisioningInv, TypeOK, VmOK, OwnImagesInv
  <2>2. IdOf(disk[v][k]) = v /\ IdOf(vmOf[v]) = v
    BY <2>1, ProvisioningAssumption DEF OwnImagesInv
  <2> QED BY <2>1, <2>2, ProvisioningAssumption DEF DistinctPinnedIds, IdOf
<1> QED BY <1>1, Inductive, OwnInductive, PTL

\* Only a delete on its own name makes a file vanish.
LEMMA OnlyDeletesLose ==
  ASSUME ProvisioningInv, NEW s \in Runs, RunStep(s) \/ HostStep(s) \/ Crash(s),
         NEW i \in Images, Lost(i)
  PROVE  \E op \in Deletes : DeleteRuns(s, op) /\ i = ImageOf(vmid[s], KindOf(op))
<1>1. CASE RunStep(s) \/ Crash(s)
  BY <1>1, RunStepHost DEF host, Lost
<1>2. ASSUME NEW op \in Ops, UploadLands(s, op) PROVE FALSE
  BY <1>2, HostFacts, ProvisioningAssumption DEF UploadLands, Lost, TypeOK
<1>3. ASSUME NEW op \in Ops, DeleteRuns(s, op)
      PROVE  op \in Deletes /\ i = ImageOf(vmid[s], KindOf(op))
  BY <1>3, HostFacts DEF DeleteRuns, Lost, TypeOK
<1>4. ASSUME UNCHANGED image PROVE FALSE
  BY <1>4 DEF Lost
<1> QED BY <1>1, <1>2, <1>3, <1>4 DEF HostStep, Accept, TaskFails, Import, CreateFails, Created, Started

\* Two runs at once on configs with ids of their own: an image a create still
\* needs is deleted by no other run, whatever fails or goes unseen.
THEOREM NoForeignDeletes == ASSUME DistinctPinnedIds, OneRunPerNode PROVE Spec => NoForeignDelete
<1> DEFINE Kept == \A r \in Runs, v \in VmIds, k \in Kinds :
              NeededBy(r, v, k) /\ Lost(ImageOf(v, k)) =>
                task'[r][DeleteOf(k)] # task[r][DeleteOf(k)]
<1>1. ProvisioningInv /\ OwnImagesInv /\ [Next]_vars => [Kept]_vars
  <2> SUFFICES ASSUME ProvisioningInv, OwnImagesInv,
                      NEW s \in Runs, RunStep(s) \/ HostStep(s) \/ Crash(s),
                      NEW r \in Runs, NEW v \in VmIds, NEW k \in Kinds,
                      NeededBy(r, v, k), Lost(ImageOf(v, k))
               PROVE  task'[r][DeleteOf(k)] # task[r][DeleteOf(k)]
    BY DEF Next
  <2>1. PICK op \in Deletes : DeleteRuns(s, op) /\ ImageOf(v, k) = ImageOf(vmid[s], KindOf(op))
    BY OnlyDeletesLose, ImageNames
  <2>2. v = vmid[s] /\ k = KindOf(op) /\ DeleteOf(k) = op /\ op \in Ops
    BY <2>1, ImageNames, OpsAre
  <2>3. vmid[r] = vmid[s] /\ vmid[s] # NoId
    BY <2>2, ProvisioningAssumption DEF NeededBy
  <2>4. IdOf(r) = IdOf(s)
    BY <2>3 DEF OwnImagesInv
  <2>5. r = s
    BY <2>4, ProvisioningAssumption DEF DistinctPinnedIds, OneRunPerNode, IdOf
  <2>6. task[r][op] = "running" /\ \E st \in {"ok", "error"} : Task(r, op, st)
    BY <2>1, <2>5 DEF DeleteRuns, Running
  <2> QED BY <2>2, <2>6, TaskEffect, HostFacts
<1>2. Spec => [][Kept]_vars
  BY <1>1, Inductive, OwnInductive, PTL DEF Spec
<1> QED BY <1>2 DEF NoForeignDelete

-----------------------------------------------------------------------------
(* The refinement of VmRegistry *)

\* A step that finishes, starts and removes no finished VM is a stutter there.
LEMMA RegistrySame ==
  ASSUME \A v \in VmIds : /\ Finished(v)' = Finished(v)
                          /\ Finished(v) => disk'[v] = disk[v]
                          /\ (vmState'[v] = "running") = (vmState[v] = "running")
  PROVE  UNCHANGED <<BootedNode, StartedIds>>
BY DEF BootedNode, StartedIds

LEMMA RegistryStep ==
  ASSUME ProvisioningInv, OwnImagesInv, NEW r \in Runs, RunStep(r) \/ HostStep(r) \/ Crash(r)
  PROVE  Registry!Next \/ UNCHANGED <<BootedNode, StartedIds>>
<1> USE ProvisioningAssumption
<1> TypeOK
  BY DEF ProvisioningInv
<1>1. ASSUME UNCHANGED <<vmState, disk>> PROVE UNCHANGED <<BootedNode, StartedIds>>
  BY <1>1, RegistrySame DEF Finished
<1>2. ASSUME NEW op \in Ops, Accept(r, op) PROVE UNCHANGED <<BootedNode, StartedIds>>
  <2>1. CASE op # "create"
    BY <1>1, <1>2, <2>1 DEF Accept
  <2>2. CASE op = "create"
    <3>1. vmid[r] \in VmIds
      BY <1>2, HostFacts DEF Accept, RunOK, TypeOK
    <3>2. /\ vmState[vmid[r]] = "none" /\ vmState'[vmid[r]] = "creating"
          /\ \A v \in VmIds \ {vmid[r]} : vmState'[v] = vmState[v] /\ disk'[v] = disk[v]
      BY <1>2, <2>2, <3>1 DEF Accept, TypeOK
    <3> QED BY <3>2, RegistrySame DEF Finished
  <2> QED BY <2>1, <2>2
<1>3. ASSUME Running(r, "create"), CreateFails(r) PROVE UNCHANGED <<BootedNode, StartedIds>>
  <2>1. vmid[r] \in VmIds /\ vmState[vmid[r]] = "creating"
    BY <1>3, HostFacts, OpsAre DEF HostOK, Running
  <2>2. /\ vmState'[vmid[r]] = "none"
        /\ \A v \in VmIds \ {vmid[r]} : vmState'[v] = vmState[v] /\ disk'[v] = disk[v]
    BY <1>3, <2>1 DEF CreateFails, TypeOK
  <2> QED BY <2>1, <2>2, RegistrySame DEF Finished
<1>4. ASSUME NEW k \in Kinds, Import(r, k) PROVE UNCHANGED <<BootedNode, StartedIds>>
  <2>1. CASE CreateFails(r)
    BY <1>3, <1>4, <2>1 DEF Import
  <2>2. CASE vmState' = vmState /\ disk' = [disk EXCEPT ![vmid[r]][k] = image[ImageOf(vmid[r], k)]]
    <3>1. vmid[r] \in VmIds /\ vmState[vmid[r]] = "creating"
      BY <1>4, HostFacts, OpsAre DEF HostOK, Running, Import
    <3>2. \A v \in VmIds \ {vmid[r]} : disk'[v] = disk[v]
      BY <2>2, <3>1 DEF TypeOK
    <3> QED BY <2>2, <3>1, <3>2, RegistrySame DEF Finished
  <2> QED BY <1>4, <2>1, <2>2 DEF Import
<1>5. ASSUME Created(r) PROVE Registry!Next
  <2> DEFINE v == vmid[r]
             n == NodeOf[disk[v]["config"]]
  <2>1. v \in VmIds /\ vmState[v] = "creating" /\ disk' = disk
    BY <1>5, HostFacts, OpsAre DEF Created, HostOK, Running
  <2>2. disk[v]["config"] \in Runs /\ IdOf(disk[v]["config"]) = v
    BY <1>5, <2>1 DEF Created, TypeOK, OwnImagesInv, Kinds
  <2>3. n \in Nodes /\ PinnedId[n] = v
    BY <2>2 DEF IdOf
  <2>4. /\ vmState'[v] = "stopped"
        /\ \A w \in VmIds \ {v} : vmState'[w] = vmState[w]
    BY <1>5, <2>1 DEF Created, TypeOK
  <2>5. BootedNode[v] = NoRun
    BY <2>1 DEF BootedNode, Finished
  <2>6. BootedNode' = [BootedNode EXCEPT ![v] = n]
    BY <2>1, <2>4 DEF BootedNode, Finished
  <2>7. StartedIds' = StartedIds
    BY <2>1, <2>4 DEF StartedIds
  <2>8. Registry!Create(n, v)
    BY <2>3, <2>5, <2>6, <2>7 DEF Registry!Create
  <2> QED BY <2>1, <2>3, <2>8 DEF Registry!Next
<1>6. ASSUME Started(r) PROVE Registry!Next
  <2> DEFINE v == vmid[r]
  <2>1. v \in VmIds /\ vmState[v] = "stopped" /\ disk' = disk
    BY <1>6, HostFacts, OpsAre DEF Started, Running
  <2>2. /\ vmState'[v] = "running"
        /\ \A w \in VmIds \ {v} : vmState'[w] = vmState[w]
    BY <1>6, <2>1 DEF Started, TypeOK
  <2>3. disk[v]["config"] \in Runs
    BY <2>1 DEF TypeOK, OwnImagesInv, Finished, Kinds
  <2>4. BootedNode[v] # NoRun
    BY <2>1, <2>3 DEF BootedNode, Finished
  <2>5. BootedNode' = BootedNode
    BY <2>1, <2>2 DEF BootedNode, Finished
  <2>6. v \notin StartedIds /\ StartedIds' = StartedIds \cup {v}
    BY <2>1, <2>2 DEF StartedIds
  <2>7. Registry!Start(v)
    BY <2>4, <2>5, <2>6 DEF Registry!Start
  <2> QED BY <2>1, <2>7 DEF Registry!Next
<1>7. ASSUME NEW op \in Ops, TaskFails(r, op) PROVE UNCHANGED <<BootedNode, StartedIds>>
  BY <1>1, <1>3, <1>7 DEF TaskFails
<1>8. RunStep(r) \/ Crash(r) => UNCHANGED <<vmState, disk>>
  BY RunStepHost DEF host
<1> QED BY <1>1, <1>2, <1>4, <1>5, <1>6, <1>7, <1>8 DEF HostStep, UploadLands, DeleteRuns

\* Under ids of their own, provisioning shows its owner nothing but whole VMs
\* that boot their own configs and are started once.
THEOREM Refinement == ASSUME DistinctPinnedIds PROVE Spec => ImplementsRegistry
<1>1. Init => Registry!Init
  BY DEF Init, Registry!Init, BootedNode, StartedIds, Finished
<1>2. ProvisioningInv /\ OwnImagesInv /\ [Next]_vars => [Registry!Next]_(Registry!vars)
  <2> SUFFICES ASSUME ProvisioningInv, OwnImagesInv, [Next]_vars
               PROVE  Registry!Next \/ UNCHANGED <<BootedNode, StartedIds>>
    BY DEF Registry!vars
  <2>1. CASE UNCHANGED vars
    BY <2>1, RegistrySame DEF vars, Finished
  <2>2. ASSUME NEW r \in Runs, RunStep(r) \/ HostStep(r) \/ Crash(r)
        PROVE  Registry!Next \/ UNCHANGED <<BootedNode, StartedIds>>
    BY <2>2, RegistryStep
  <2> QED BY <2>1, <2>2 DEF Next
<1> QED BY <1>1, <1>2, Inductive, OwnInductive, PTL DEF Spec, ImplementsRegistry, Registry!Spec

-----------------------------------------------------------------------------
(* What a run leaves behind while its outcomes are seen (SeenInv) *)

LEMMA Failures ==
  /\ OnFailure["upConfig"] = "delConfig" /\ OnFailure["upEfi"] = "delEfi"
  /\ OnFailure["create"] = "delEfi" /\ OnFailure["delEfi"] = "delConfig"
  /\ OnFailure["delConfig"] = "start" /\ OnFailure["start"] = "done"
BY DEF OnFailure

LEMMA UploadNames ==
  /\ \A k \in Kinds : UploadOf(k) \in Uploads /\ KindOf(UploadOf(k)) = k
  /\ \A op \in Uploads : KindOf(op) \in Kinds /\ UploadOf(KindOf(op)) = op
BY DEF UploadOf, KindOf, Uploads, Kinds

\* A run that goes on from one operation, having seen it end or failed at it.
Leaves(r, op) ==
  /\ step[r] = op
  /\ UNCHANGED <<vmid, host>>
  /\ step'[r] \in (Ops \ (DoneBefore[op] \cup {op})) \cup {"done"}
  /\ step'[r] \in Ops => DoneBefore[op] \cup {op} \subseteq DoneBefore[step'[r]]
  /\ step'[r] \in {"start", "done"} => op \in {"delConfig", "start"}
  /\ step'[r] = "delConfig" => op \in {"upConfig", "delEfi"}
  /\ \/ verdict'[r] = "failed"
     \/ verdict[r] # "failed" /\ verdict'[r] # "failed"

LEMMA SucceedsLeaves ==
  ASSUME TypeOK, NEW r \in Runs, NEW op \in Ops, Succeeds(r, op)
  PROVE  /\ Leaves(r, op)
         /\ task[r][op] = "ok"
         /\ verdict'[r] = "failed" => verdict[r] = "failed"
         /\ verdict[r] = "failed" /\ op \in Deletes => step'[r] \in Deletes \cup Ended
<1>1. /\ step[r] = op /\ task[r][op] = "ok"
      /\ GoTo(r, OnSuccess[op], verdict[r])
      /\ UNCHANGED <<vmid, host>>
  BY DEF Succeeds
<1>2. verdict[r] \in {"pending", "ok", "failed"}
  BY DEF TypeOK
<1>3. CASE op \in {"upConfig", "upEfi"}
  BY <1>1, <1>2, <1>3, GoToEffect, Tables, OpsAre DEF Leaves, Ended
<1>4. CASE op \in {"create", "delEfi"}
  BY <1>1, <1>2, <1>4, GoToEffect, Tables, OpsAre DEF Leaves, Ended
<1>5. CASE op \in {"delConfig", "start"}
  BY <1>1, <1>2, <1>5, GoToEffect, Tables, OpsAre DEF Leaves, Ended
<1> QED BY <1>3, <1>4, <1>5, OpsAre

LEMMA FailsLeaves ==
  ASSUME TypeOK, NEW r \in Runs, NEW op \in Ops, Fails(r, op)
  PROVE  /\ Leaves(r, op)
         /\ verdict'[r] = "failed"
         /\ step'[r] \in Deletes \cup Ended
         /\ LooksFailed(r, op)
<1>1. /\ step[r] = op
      /\ GoTo(r, OnFailure[op], "failed")
      /\ UNCHANGED <<vmid, host>> /\ LooksFailed(r, op)
  BY DEF Fails
<1>2. CASE op \in {"upConfig", "upEfi"}
  BY <1>1, <1>2, GoToEffect, Tables, Failures, OpsAre DEF Leaves, Ended
<1>3. CASE op \in {"create", "delEfi"}
  BY <1>1, <1>3, GoToEffect, Tables, Failures, OpsAre DEF Leaves, Ended
<1>4. CASE op \in {"delConfig", "start"}
  BY <1>1, <1>4, GoToEffect, Tables, Failures, OpsAre DEF Leaves, Ended
<1> QED BY <1>2, <1>3, <1>4, OpsAre

\* A delete that has been carried out, or found nothing to delete, leaves no
\* image of the run's behind.
LEMMA DeletedIsGone ==
  ASSUME ProvisioningInv, NEW r \in Runs, SeenOK(r), NEW k \in Kinds,
         faults \subseteq {"refused", "error"},
         task[r][DeleteOf(k)] \in {"ok", "error"}
  PROVE  \A v \in VmIds : image[ImageOf(v, k)] # r
BY DEF SeenOK, Cleaned

\* Leaving an operation keeps the invariant.
LEMMA LeavesSeen ==
  ASSUME ProvisioningInv, NEW r \in Runs, SeenOK(r), NEW op \in Ops, Leaves(r, op),
         \/ /\ task[r][op] = "ok"
            /\ verdict'[r] = "failed" => verdict[r] = "failed"
            /\ verdict[r] = "failed" /\ op \in Deletes => step'[r] \in Deletes \cup Ended
         \/ /\ LooksFailed(r, op)
            /\ verdict'[r] = "failed"
            /\ step'[r] \in Deletes \cup Ended
  PROVE  SeenOK(r)'
<1>1. /\ TypeOK /\ RunOK(r) /\ op \in Ops /\ step[r] = op
      /\ UNCHANGED <<faults, vmid, task, image, vmState, vmOf, disk>>
  BY HostFacts DEF Leaves, host
<1>2. step'[r] \in Ops =>
        \A q \in Ops \ (DoneBefore[step'[r]] \cup {step'[r]}) : task'[r][q] = "none"
  BY <1>1 DEF SeenOK, Leaves
<1>3. /\ \A v \in VmIds, k \in Kinds :
           image'[ImageOf(v, k)] = r => v = vmid'[r] /\ task'[r][UploadOf(k)] = "ok"
      /\ \A v \in VmIds : vmOf'[v] = r => v = vmid'[r] /\ task'[r]["create"] \in {"running", "ok"}
  BY <1>1 DEF SeenOK
<1>4. step'[r] # "crashed"
  BY OpsAre DEF Leaves
<1>5. ASSUME "unseen" \notin faults
      PROVE  /\ task[r][op] \in {"none", "ok", "error"}
             /\ LooksFailed(r, op) => task[r][op] \in {"none", "error"}
             /\ \A q \in Ops : ~Running(r, q)
  <2>1. LooksFailed(r, op) => task[r][op] \in {"none", "error"}
    BY <1>5 DEF LooksFailed
  <2>2. \A q \in Ops : Running(r, q) => q = op
    BY <1>1, <1>5, OpsAre DEF SeenOK
  <2>3. task[r][op] \in {"none", "ok", "error"}
    BY <2>1
  <2> QED BY <2>1, <2>2, <2>3 DEF Running
<1>6. ASSUME "unseen" \notin faults, verdict'[r] = "failed"
      PROVE  /\ step'[r] \in Deletes \cup Ended
             /\ \/ task[r]["create"] \in {"none", "error"}
                \/ \E q \in Deletes \cup {"start"} : GaveUp(r, q)'
  <2>1. CASE LooksFailed(r, op) /\ step'[r] \in Deletes \cup Ended
    <3>1. task[r][op] \in {"none", "error"}
      BY <1>5, <1>6, <2>1
    <3>2. CASE op \in Uploads
      <4>1. "create" \in Ops \ (DoneBefore[op] \cup {op})
        BY <3>2, OpsAre, Tables
      <4> QED BY <1>1, <2>1, <4>1 DEF SeenOK
    <3>3. CASE op = "create"
      BY <2>1, <3>1, <3>3
    <3>4. CASE op \in Deletes \cup {"start"}
      <4>1. step'[r] \in Ended \/ op \in DoneBefore[step'[r]]
        BY <2>1, OpsAre DEF Leaves
      <4>2. op = "start" => NodeOf[r] \in StartOnCreation
        BY <1>1 DEF RunOK
      <4> QED BY <1>1, <2>1, <3>1, <3>4, <4>1, <4>2 DEF GaveUp
    <3> QED BY <3>2, <3>3, <3>4, OpsAre
  <2>2. CASE /\ verdict[r] = "failed"
             /\ op \in Deletes => step'[r] \in Deletes \cup Ended
    <3>1. op \in Deletes /\ step'[r] \in Deletes \cup Ended
      BY <1>1, <1>6, <2>2, OpsAre DEF SeenOK, Ended
    <3>2. CASE task[r]["create"] \in {"none", "error"}
      BY <3>1, <3>2
    <3>3. ASSUME NEW q \in Deletes \cup {"start"}, GaveUp(r, q) PROVE GaveUp(r, q)'
      <4>1. q \in DoneBefore[op]
        BY <1>1, <3>1, <3>3, OpsAre DEF GaveUp, Ended
      <4>2. step'[r] \in Ended \/ q \in DoneBefore[step'[r]]
        BY <3>1, <4>1, OpsAre DEF Leaves
      <4> QED BY <1>1, <3>3, <4>2 DEF GaveUp
    <3> QED BY <1>6, <2>2, <3>1, <3>2, <3>3 DEF SeenOK
  <2> QED BY <1>6, <2>1, <2>2
<1>7. ASSUME faults \subseteq {"refused", "error"}
      PROVE  Cleaned(r)'
  <2>1. task[r][op] \in {"none", "ok", "error"} /\ (op \in Deletes => task[r][op] \in {"ok", "error"})
    BY <1>5, <1>7 DEF LooksFailed, Refusable, Deletes
  <2>2. Cleaned(r)
    BY <1>7 DEF SeenOK
  <2>3. "efi" \in Kinds /\ "config" \in Kinds /\ DeleteOf("efi") = "delEfi" /\ DeleteOf("config") = "delConfig"
        /\ UploadOf("efi") = "upEfi"
    BY DEF Kinds, DeleteOf, UploadOf
  <2>4. step'[r] \in {"delConfig", "start", "done"} => \A v \in VmIds : image[ImageOf(v, "efi")] # r
    <3>1. CASE op = "upConfig"
      <4>1. task[r]["upEfi"] = "none"
        BY <1>1, <3>1, OpsAre, Tables DEF SeenOK
      <4> QED BY <2>3, <4>1 DEF SeenOK
    <3>2. CASE op = "delEfi"
      BY <1>7, <2>1, <2>3, <3>2, DeletedIsGone, OpsAre
    <3>3. CASE op \in {"delConfig", "start"}
      BY <1>1, <2>2, <3>3 DEF Cleaned
    <3> QED BY <3>1, <3>2, <3>3 DEF Leaves
  <2>5. step'[r] \in {"start", "done"} => \A v \in VmIds : image[ImageOf(v, "config")] # r
    <3>1. CASE op = "delConfig"
      BY <1>7, <2>1, <2>3, <3>1, DeletedIsGone, OpsAre
    <3>2. CASE op = "start"
      BY <1>1, <2>2, <3>2 DEF Cleaned
    <3> QED BY <3>1, <3>2 DEF Leaves
  <2> QED BY <1>1, <2>2, <2>4, <2>5 DEF Cleaned
<1>8. "unseen" \notin faults => \A q \in Ops : ~(task'[r][q] = "running")
  BY <1>1, <1>5 DEF Running
<1> QED BY <1>1, <1>2, <1>3, <1>4, <1>6, <1>7, <1>8 DEF SeenOK, Running

\* The steps before the first operation, and a crash.
LEMMA EarlySeen ==
  ASSUME ProvisioningInv, NEW r \in Runs, SeenOK(r),
         Preflight(r) \/ NoIdGiven(r) \/ Allocate(r) \/ Crash(r)
  PROVE  SeenOK(r)'
<1>1. TypeOK /\ RunOK(r) /\ UNCHANGED <<faults, task, image, vmState, vmOf, disk>>
  BY HostFacts, RunStepHost DEF host, RunStep
<1>2. ASSUME \A op \in Ops : task[r][op] = "none"
      PROVE  /\ \A v \in VmIds, k \in Kinds : image[ImageOf(v, k)] # r
             /\ \A v \in VmIds : vmOf[v] # r
  BY <1>2, UploadNames, OpsAre DEF SeenOK
<1>3. CASE Preflight(r) \/ NoIdGiven(r)
  <2>1. /\ \A op \in Ops : task[r][op] = "none"
        /\ step'[r] \in {"allocate", "done"}
        /\ verdict'[r] = "failed" => step'[r] = "done"
    BY <1>1, <1>3 DEF Preflight, NoIdGiven, Return, RunOK, TypeOK
  <2> QED BY <1>1, <1>2, <2>1, OpsAre, ImageNames DEF SeenOK, Cleaned, Running, Ended, Kinds
<1>4. CASE Allocate(r)
  <2>1. /\ \A op \in Ops : task[r][op] = "none"
        /\ step'[r] = "upConfig" /\ verdict'[r] # "failed"
    BY <1>1, <1>4 DEF Allocate, RunOK, TypeOK
  <2> QED BY <1>1, <1>2, <2>1, OpsAre, ImageNames DEF SeenOK, Cleaned, Running
<1>5. CASE Crash(r)
  <2>1. step'[r] = "crashed" /\ UNCHANGED <<verdict, vmid>> /\ "crash" \in faults
    BY <1>1, <1>5 DEF Crash, TypeOK
  <2>2. ASSUME NEW q \in Deletes \cup {"start"}, GaveUp(r, q) PROVE GaveUp(r, q)'
    BY <1>1, <2>1, <2>2 DEF GaveUp, Ended
  <2> QED BY <1>1, <2>1, <2>2, OpsAre DEF SeenOK, Running, Ended
<1> QED BY <1>3, <1>4, <1>5

LEMMA AcceptSeen ==
  ASSUME ProvisioningInv, NEW r \in Runs, SeenOK(r), NEW op \in Ops, Accept(r, op)
  PROVE  SeenOK(r)'
<1>1. /\ TypeOK /\ RunOK(r) /\ HostOK(r)
      /\ step[r] = op /\ task[r][op] = "none" /\ task'[r][op] = "running"
      /\ \A q \in Ops \ {op} : task'[r][q] = task[r][q]
      /\ UNCHANGED <<faults, step, verdict, vmid, image>>
  BY TaskEffect, HostFacts DEF Accept
<1>2. \A q \in Ops \ (DoneBefore[step'[r]] \cup {step'[r]}) : task'[r][q] = "none"
  BY <1>1 DEF SeenOK
<1>3. \A v \in VmIds, k \in Kinds :
        image'[ImageOf(v, k)] = r => v = vmid'[r] /\ task'[r][UploadOf(k)] = "ok"
  BY <1>1, UploadNames, OpsAre DEF SeenOK
<1>4. \A v \in VmIds : vmOf'[v] = r => v = vmid'[r] /\ task'[r]["create"] \in {"running", "ok"}
  <2>1. CASE op = "create"
    BY <1>1, <2>1 DEF Accept, SeenOK, TypeOK
  <2>2. CASE op # "create"
    BY <1>1, <2>2, OpsAre DEF Accept, SeenOK
  <2> QED BY <2>1, <2>2
<1>5. ASSUME "unseen" \notin faults
      PROVE  /\ \A q \in Ops : task'[r][q] = "running" => step'[r] \in {q, "crashed"}
             /\ verdict'[r] = "failed" =>
                  /\ step'[r] \in Deletes \cup Ended
                  /\ \/ task'[r]["create"] \in {"none", "error"}
                     \/ \E q \in Deletes \cup {"start"} : GaveUp(r, q)'
  <2>1. \A q \in Ops : task'[r][q] = "running" => step'[r] \in {q, "crashed"}
    BY <1>1, <1>5 DEF SeenOK, Running
  <2>2. ASSUME verdict[r] = "failed"
        PROVE  /\ step'[r] \in Deletes \cup Ended
               /\ \/ task'[r]["create"] \in {"none", "error"}
                  \/ \E q \in Deletes \cup {"start"} : GaveUp(r, q)'
    <3>1. op \in Deletes /\ step'[r] \in Deletes
      BY <1>1, <1>5, <2>2, OpsAre DEF SeenOK, Ended
    <3>2. ASSUME NEW q \in Deletes \cup {"start"}, GaveUp(r, q) PROVE GaveUp(r, q)'
      <4>1. q \in DoneBefore[op] /\ op \notin DoneBefore[op]
        BY <1>1, <3>1, <3>2, OpsAre, Tables DEF GaveUp, Ended
      <4> QED BY <1>1, <3>2, <4>1, OpsAre DEF GaveUp
    <3>3. "create" \in Ops \ {op}
      BY <3>1, OpsAre
    <3> QED BY <1>1, <1>5, <2>2, <3>1, <3>2, <3>3 DEF SeenOK
  <2> QED BY <1>1, <2>1, <2>2
<1>6. Cleaned(r) => Cleaned(r)'
  <2>1. \A k \in Kinds : task'[r][DeleteOf(k)] \in {"ok", "error"} => task[r][DeleteOf(k)] \in {"ok", "error"}
    BY <1>1, ImageNames, OpsAre
  <2> QED BY <1>1, <2>1 DEF Cleaned
<1> QED BY <1>1, <1>2, <1>3, <1>4, <1>5, <1>6 DEF SeenOK, Running

\* What the host does to the images and the owners of VMs: for its run alone.
LEMMA HostFrame ==
  ASSUME ProvisioningInv, NEW r \in Runs, HostStep(r)
  PROVE  /\ \A i \in Images : image'[i] \in {image[i], r, NoRun}
         /\ \A v \in VmIds : vmOf'[v] \in {vmOf[v], r, NoRun}
         /\ UNCHANGED <<faults, step>>
<1>1. TypeOK
  BY HostFacts
<1>2. ASSUME NEW op \in Ops, Accept(r, op) PROVE UNCHANGED <<faults, step, image>> /\
        \A v \in VmIds : vmOf'[v] \in {vmOf[v], r, NoRun}
  BY <1>1, <1>2 DEF Accept, TypeOK
<1>3. ASSUME NEW op \in Ops, UploadLands(r, op) \/ DeleteRuns(r, op)
      PROVE  UNCHANGED <<faults, step, vmOf>> /\ \A i \in Images : image'[i] \in {image[i], r, NoRun}
  BY <1>1, <1>3 DEF UploadLands, DeleteRuns, TypeOK
<1>4. ASSUME CreateFails(r)
      PROVE  UNCHANGED <<faults, step, image>> /\ \A v \in VmIds : vmOf'[v] \in {vmOf[v], r, NoRun}
  BY <1>1, <1>4 DEF CreateFails, TypeOK
<1> QED BY <1>2, <1>3, <1>4 DEF HostStep, TaskFails, Import, Created, Started

LEMMA OthersSeen ==
  ASSUME ProvisioningInv, NEW r \in Runs, RunStep(r) \/ HostStep(r) \/ Crash(r),
         NEW s \in Runs, s # r, SeenOK(s)
  PROVE  SeenOK(s)'
<1>1. Same(s) /\ TypeOK
  BY OthersSame, HostFacts
<1>2. /\ \A i \in Images : image'[i] = s => image[i] = s
      /\ \A v \in VmIds : vmOf'[v] = s => vmOf[v] = s
      /\ UNCHANGED faults
  <2>1. CASE RunStep(r) \/ Crash(r)
    BY <2>1, RunStepHost DEF host
  <2>2. CASE HostStep(r)
    BY <2>2, HostFrame, ProvisioningAssumption
  <2> QED BY <2>1, <2>2
<1>3. \A op \in Deletes \cup {"start"} : GaveUp(s, op) => GaveUp(s, op)'
  BY <1>1 DEF Same, GaveUp
<1>4. vmid[s] \in VmIds \cup {NoId} /\ \A k \in Kinds : task[s][DeleteOf(k)] # "none" => vmid[s] \in VmIds
  BY <1>1, HostFacts, ImageNames, OpsAre DEF TypeOK
<1>5. Cleaned(s) => Cleaned(s)'
  BY <1>1, <1>2, <1>4, ImageNames DEF Same, Cleaned, Kinds
<1> QED BY <1>1, <1>2, <1>3, <1>5, ImageNames DEF SeenOK, Same, Running

\* A task that ends: an upload may leave an image of the run's, a delete none.
LEMMA EndsSeen ==
  ASSUME ProvisioningInv, NEW r \in Runs, SeenOK(r), NEW op \in Ops, NEW st \in {"ok", "error"},
         EndsTask(r, op, st),
         \A v \in VmIds : vmOf'[v] = r => vmOf[v] = r /\ ~(op = "create" /\ st = "error"),
         \A v \in VmIds, k \in Kinds : image'[ImageOf(v, k)] = r =>
           \/ image[ImageOf(v, k)] = r
           \/ st = "ok" /\ op = UploadOf(k) /\ v = vmid[r],
         \A k \in Kinds : faults \subseteq {"refused", "error"} /\ op = DeleteOf(k) =>
           image'[ImageOf(vmid[r], k)] # r
  PROVE  SeenOK(r)'
<1>1. /\ TypeOK /\ RunOK(r)
      /\ task[r][op] = "running" /\ task'[r][op] = st
      /\ \A q \in Ops \ {op} : task'[r][q] = task[r][q]
      /\ UNCHANGED <<faults, step, verdict, vmid>>
  BY TaskEffect, HostFacts DEF EndsTask, Running
<1>2. step[r] \in Ops =>
        \A q \in Ops \ (DoneBefore[step[r]] \cup {step[r]}) : q # op /\ task'[r][q] = "none"
  BY <1>1 DEF SeenOK
<1>3. \A v \in VmIds, k \in Kinds :
        image'[ImageOf(v, k)] = r => v = vmid'[r] /\ task'[r][UploadOf(k)] = "ok"
  BY <1>1, UploadNames, OpsAre DEF SeenOK
<1>4. \A v \in VmIds : vmOf'[v] = r => v = vmid'[r] /\ task'[r]["create"] \in {"running", "ok"}
  BY <1>1, OpsAre DEF SeenOK
<1>5. \A q \in Ops : /\ task'[r][q] = "running" => task[r][q] = "running"
                     /\ task[r][q] \in {"none", "error"} => task'[r][q] = task[r][q]
  BY <1>1
<1>6. \A q \in Deletes \cup {"start"} : GaveUp(r, q) => GaveUp(r, q)'
  BY <1>1, <1>5, OpsAre DEF GaveUp
<1>7. ASSUME faults \subseteq {"refused", "error"}, Cleaned(r)
      PROVE  Cleaned(r)'
  <2>1. CASE op \in Uploads
    <3>1. step[r] = op
      BY <1>1, <1>7, <2>1 DEF SeenOK, Running
    <3>2. \A k \in Kinds : DeleteOf(k) \in Ops \ (DoneBefore[op] \cup {op})
      BY <2>1, ImageNames, OpsAre, Tables
    <3>3. \A k \in Kinds : task'[r][DeleteOf(k)] = "none"
      BY <1>2, <3>1, <3>2
    <3> QED BY <1>1, <2>1, <3>1, <3>3, OpsAre DEF Cleaned
  <2>2. CASE op \notin Uploads
    <3>1. \A v \in VmIds, k \in Kinds : image'[ImageOf(v, k)] = r => image[ImageOf(v, k)] = r
      BY <2>2, UploadNames
    <3>2. ASSUME NEW k \in Kinds, task'[r][DeleteOf(k)] \in {"ok", "error"}
          PROVE  image'[ImageOf(vmid'[r], k)] # r
      <4>1. CASE op = DeleteOf(k)
        BY <1>1, <1>7, <4>1
      <4>2. CASE op # DeleteOf(k)
        <5>1. task[r][DeleteOf(k)] \in {"ok", "error"} /\ vmid[r] \in VmIds
          BY <1>1, <3>2, <4>2, HostFacts, ImageNames, OpsAre
        <5> QED BY <1>1, <1>7, <3>1, <5>1 DEF Cleaned
      <4> QED BY <4>1, <4>2
    <3>3. "efi" \in Kinds /\ "config" \in Kinds
      BY DEF Kinds
    <3> QED BY <1>1, <1>7, <3>1, <3>2, <3>3 DEF Cleaned
  <2> QED BY <2>1, <2>2
<1> QED BY <1>1, <1>2, <1>3, <1>4, <1>5, <1>6, <1>7, OpsAre DEF SeenOK, Running

LEMMA HostStepSeen ==
  ASSUME ProvisioningInv, NEW r \in Runs, SeenOK(r), HostStep(r)
  PROVE  SeenOK(r)'
<1>1. TypeOK
  BY HostFacts
<1>2. ASSUME NEW op \in Ops, UploadLands(r, op) PROVE SeenOK(r)'
  <2>1. /\ op \in Uploads /\ EndsTask(r, op, "ok") /\ UNCHANGED vmOf
        /\ image' = [image EXCEPT ![ImageOf(vmid[r], KindOf(op))] = r]
    BY <1>2 DEF UploadLands, EndsTask
  <2>2. op # "create" /\ \A k \in Kinds : op # DeleteOf(k)
    BY <2>1, ImageNames, OpsAre
  <2>3. \A v \in VmIds, k \in Kinds : image'[ImageOf(v, k)] = r =>
          image[ImageOf(v, k)] = r \/ (op = UploadOf(k) /\ v = vmid[r])
    <3>1. \A v \in VmIds, k \in Kinds : ImageOf(v, k) # ImageOf(vmid[r], KindOf(op)) =>
            image'[ImageOf(v, k)] = image[ImageOf(v, k)]
      BY <1>1, <2>1, ImageNames DEF TypeOK
    <3> QED BY <2>1, <3>1, ImageNames, UploadNames
  <2> QED BY <2>1, <2>2, <2>3, EndsSeen
<1>3. ASSUME NEW op \in Ops, DeleteRuns(r, op) PROVE SeenOK(r)'
  <2>1. PICK st \in {"ok", "error"} : EndsTask(r, op, st)
    BY <1>3 DEF DeleteRuns, EndsTask
  <2>2. /\ op \in Deletes /\ UNCHANGED vmOf
        /\ image' = [image EXCEPT ![ImageOf(vmid[r], KindOf(op))] = NoRun]
    BY <1>3 DEF DeleteRuns
  <2>3. op # "create" /\ vmid[r] \in VmIds /\ KindOf(op) \in Kinds
    BY <1>3, <2>2, HostFacts, OpsAre, OpsSteps DEF DeleteRuns, Running
  <2>4. \A v \in VmIds, k \in Kinds : image'[ImageOf(v, k)] = r => image[ImageOf(v, k)] = r
    BY <1>1, <2>2, ImageNames, ProvisioningAssumption DEF TypeOK
  <2>5. \A k \in Kinds : op = DeleteOf(k) => image'[ImageOf(vmid[r], k)] # r
    BY <1>1, <2>2, <2>3, ImageNames, ProvisioningAssumption DEF TypeOK
  <2> QED BY <2>1, <2>2, <2>3, <2>4, <2>5, EndsSeen
<1>4. ASSUME CreateFails(r), Running(r, "create") PROVE SeenOK(r)'
  <2>1. EndsTask(r, "create", "error") /\ UNCHANGED image /\ "create" \in Ops
    BY <1>4, OpsAre DEF CreateFails, EndsTask
  <2>2. \A v \in VmIds : vmOf'[v] # r
    BY <1>1, <1>4, ProvisioningAssumption DEF CreateFails, SeenOK, TypeOK
  <2>3. \A k \in Kinds : DeleteOf(k) # "create"
    BY ImageNames, OpsAre
  <2> QED BY <2>1, <2>2, <2>3, EndsSeen
<1>5. ASSUME NEW op \in Ops, TaskFails(r, op), op # "create" PROVE SeenOK(r)'
  <2>1. EndsTask(r, op, "error") /\ UNCHANGED <<image, vmOf>>
    BY <1>5 DEF TaskFails, EndsTask
  <2>2. \A k \in Kinds : op = DeleteOf(k) => ~(faults \subseteq {"refused", "error"})
    BY <1>5, ImageNames DEF TaskFails
  <2> QED BY <1>5, <2>1, <2>2, EndsSeen
<1>6. ASSUME Created(r) \/ Started(r) PROVE SeenOK(r)'
  <2>1. PICK op \in {"create", "start"} : EndsTask(r, op, "ok") /\ UNCHANGED <<image, vmOf>>
    BY <1>6 DEF Created, Started, EndsTask
  <2>2. op \in Ops /\ \A k \in Kinds : op # DeleteOf(k)
    BY ImageNames, OpsAre
  <2> QED BY <2>1, <2>2, EndsSeen
<1>7. ASSUME NEW k \in Kinds, Import(r, k), ~CreateFails(r) PROVE SeenOK(r)'
  <2>1. UNCHANGED <<faults, step, verdict, vmid, task, image, vmOf>>
    BY <1>7 DEF Import
  <2> QED BY <2>1 DEF SeenOK, Cleaned, GaveUp, Running
<1>8. ASSUME NEW op \in Ops, Accept(r, op) PROVE SeenOK(r)'
  BY <1>8, AcceptSeen
<1> QED BY <1>2, <1>3, <1>4, <1>5, <1>6, <1>7, <1>8 DEF HostStep, TaskFails, Import

\* A run begins while no other of its config is under way.
LEMMA SerialStep ==
  ASSUME ProvisioningInv, Serial, NEW r \in Runs, RunStep(r) \/ HostStep(r) \/ Crash(r)
  PROVE  Serial'
<1>1. TypeOK /\ \A s \in Runs \ {r} : step'[s] = step[s]
  BY OthersSame, HostFacts DEF Same
<1>2. CASE Preflight(r)
  BY <1>1, <1>2 DEF Preflight, Serial
<1>3. CASE ~Preflight(r)
  <2>1. step'[r] \in {"idle"} \cup Ended \/ step[r] \notin {"idle"} \cup Ended \/ step'[r] = step[r]
    <3>1. CASE NoIdGiven(r) \/ Allocate(r) \/ Crash(r)
      BY <1>1, <3>1, OpsAre DEF NoIdGiven, Allocate, Crash, Return, TypeOK, Ended
    <3>2. CASE HostStep(r)
      BY <3>2, HostFrame
    <3>3. ASSUME NEW op \in Ops, Succeeds(r, op) \/ Fails(r, op)
          PROVE  step[r] \notin {"idle"} \cup Ended
      BY <3>3, OpsAre DEF Succeeds, Fails, Ended
    <3> QED BY <1>3, <3>1, <3>2, <3>3 DEF RunStep
  <2> QED BY <1>1, <2>1 DEF Serial
<1> QED BY <1>2, <1>3

\* What a run has not done yet, what is its own, and that nothing of it goes on
\* behind it while its outcomes are seen.
THEOREM SeenInductive == Spec => []SeenInv
<1>1. Init => SeenInv
  <2> SUFFICES ASSUME Init, ProvisioningInv PROVE Serial /\ \A r \in Runs : SeenOK(r)
    BY InitInv DEF SeenInv
  <2> QED BY ProvisioningAssumption, ImageNames, OpsAre
          DEF Init, Serial, SeenOK, Cleaned, Running, Ended, Kinds
<1>2. SeenInv /\ [Next]_vars => SeenInv'
  <2> SUFFICES ASSUME SeenInv, [Next]_vars PROVE SeenInv'
    OBVIOUS
  <2>1. ProvisioningInv'
    BY InvStep DEF SeenInv
  <2>2. ASSUME NEW r \in Runs, RunStep(r) \/ HostStep(r) \/ Crash(r)
        PROVE  Serial' /\ \A s \in Runs : SeenOK(s)'
    <3>1. ProvisioningInv /\ Serial /\ \A s \in Runs : SeenOK(s)
      BY DEF SeenInv
    <3>2. ASSUME NEW op \in Ops, Succeeds(r, op) PROVE SeenOK(r)'
      BY <3>1, <3>2, SucceedsLeaves, LeavesSeen, HostFacts
    <3>3. ASSUME NEW op \in Ops, Fails(r, op) PROVE SeenOK(r)'
      BY <3>1, <3>3, FailsLeaves, LeavesSeen, HostFacts
    <3>4. SeenOK(r)'
      BY <2>2, <3>1, <3>2, <3>3, EarlySeen, HostStepSeen DEF RunStep
    <3> QED BY <2>2, <3>1, <3>4, OthersSeen, SerialStep
  <2>3. CASE UNCHANGED vars
    <3>1. UNCHANGED <<faults, step, verdict, vmid, task, image, vmOf>>
      BY <2>3 DEF vars
    <3> QED BY <2>1, <3>1 DEF SeenInv, Serial, SeenOK, Cleaned, GaveUp, Running
  <2> QED BY <2>1, <2>2, <2>3 DEF Next, SeenInv
<1> QED BY <1>1, <1>2, PTL DEF Spec

\* Where every outcome is seen and deletes work, a run that has ended leaves no
\* image behind, on success and on failure.
THEOREM LeavesNothing == Spec => []NothingLeftBehind
<1>1. SeenInv => NothingLeftBehind
  <2> SUFFICES ASSUME SeenInv, faults \subseteq {"refused", "error"}, NEW r \in Runs,
                      step[r] \in Ended, NEW v \in VmIds, NEW k \in Kinds
               PROVE  image[ImageOf(v, k)] # r
    BY DEF NothingLeftBehind, Settled, Images, ImageOf
  <2>1. step[r] = "done" /\ Cleaned(r)
    BY DEF SeenInv, SeenOK, Ended
  <2> QED BY <2>1 DEF Cleaned, Kinds
<1> QED BY <1>1, SeenInductive, PTL

\* Where outcomes are seen, False leaves a VM only when cleaning up or starting
\* it is what failed.
THEOREM FailureLeaves == Spec => []FailureLeavesNoVm
<1>1. SeenInv => FailureLeavesNoVm
  <2> SUFFICES ASSUME SeenInv, "unseen" \notin faults, NEW r \in Runs, NEW v \in VmIds,
                      verdict[r] = "failed", step[r] = "done", vmOf[v] = r
               PROVE  /\ task[r]["create"] = "ok"
                      /\ \/ \E op \in Deletes : task[r][op] # "ok"
                         \/ NodeOf[r] \in StartOnCreation /\ task[r]["start"] # "ok"
    BY DEF FailureLeavesNoVm
  <2>1. task[r]["create"] = "ok"
    BY OpsAre DEF SeenInv, SeenOK, Running
  <2>2. PICK op \in Deletes \cup {"start"} : GaveUp(r, op)
    BY <2>1 DEF SeenInv, SeenOK
  <2> QED BY <2>1, <2>2 DEF GaveUp
<1> QED BY <1>1, SeenInductive, PTL

\* Under configured ids of their own, and as long as outcomes are seen and runs
\* end by themselves, a create finds its images: neither its own run nor
\* another deletes them first.
THEOREM CreateFindsImages == ASSUME DistinctPinnedIds PROVE Spec => SeenCreateKeepsImages
<1>1. SeenInv /\ OwnImagesInv /\ [Next]_vars => [faults \cap {"unseen", "crash"} = {} => KeepsImages]_vars
  <2> SUFFICES ASSUME SeenInv, OwnImagesInv, faults \cap {"unseen", "crash"} = {},
                      NEW s \in Runs, RunStep(s) \/ HostStep(s) \/ Crash(s),
                      NEW r \in Runs, NEW v \in VmIds, NEW k \in Kinds,
                      NeededBy(r, v, k), Lost(ImageOf(v, k))
               PROVE  FALSE
    BY DEF Next, KeepsImages
  <2>1. ProvisioningInv /\ Serial /\ SeenOK(r) /\ SeenOK(s)
    BY DEF SeenInv
  <2>2. PICK op \in Deletes : DeleteRuns(s, op) /\ ImageOf(v, k) = ImageOf(vmid[s], KindOf(op))
    BY <2>1, OnlyDeletesLose, ImageNames
  <2>3. step[s] = op /\ step[r] = "create"
    BY <2>1, <2>2, OpsAre DEF SeenOK, DeleteRuns, NeededBy, Running
  <2>4. vmid[r] = vmid[s] /\ vmid[s] # NoId
    BY <2>2, ImageNames, ProvisioningAssumption DEF NeededBy
  <2>5. IdOf(r) = IdOf(s)
    BY <2>4 DEF OwnImagesInv
  <2>6. NodeOf[r] = NodeOf[s]
    BY <2>5, ProvisioningAssumption DEF DistinctPinnedIds, IdOf
  <2>7. r # s
    BY <2>3, OpsAre
  <2> QED BY <2>1, <2>3, <2>6, <2>7, OpsAre DEF Serial, Ended
<1>2. Spec => [][faults \cap {"unseen", "crash"} = {} => KeepsImages]_vars
  BY <1>1, SeenInductive, OwnInductive, PTL DEF Spec
<1> QED BY <1>2 DEF SeenCreateKeepsImages

\* As long as no process dies between two runs of a config, however many there
\* are, with and without a configured id, no second VM comes of it.
THEOREM OneVm == ASSUME NoCrash PROVE Spec => []OneVmPerNode
<1>1. Init => OneIdInv
  BY DEF Init, OneIdInv
<1>2. ProvisioningInv /\ OneIdInv /\ [Next]_vars => OneIdInv'
  <2> SUFFICES ASSUME ProvisioningInv, OneIdInv, [Next]_vars PROVE OneIdInv'
    OBVIOUS
  <2>1. TypeOK /\ "crash" \notin faults
    BY DEF ProvisioningInv, TypeOK, NoCrash
  <2>2. ASSUME NEW r \in Runs, Allocate(r) PROVE OneIdInv'
    <3>1. PICK v \in VmIds : /\ vmid' = [vmid EXCEPT ![r] = v]
                             /\ hvId' = [hvId EXCEPT ![NodeOf[r]] = v]
                             /\ hvId[NodeOf[r]] # NoId => v = hvId[NodeOf[r]]
      BY <2>2 DEF Allocate, IdsFor
    <3>2. NodeOf[r] \in Nodes /\ vmid'[r] = v /\ hvId'[NodeOf[r]] = v
      BY <2>1, <3>1, ProvisioningAssumption DEF TypeOK
    <3>3. ASSUME NEW s \in Runs, s # r PROVE vmid'[s] \in {NoId, hvId'[NodeOf[s]]}
      <4>1. vmid'[s] = vmid[s] /\ vmid[s] \in {NoId, hvId[NodeOf[s]]}
        BY <2>1, <3>1, <3>3 DEF TypeOK, OneIdInv
      <4>2. NodeOf[s] # NodeOf[r] => hvId'[NodeOf[s]] = hvId[NodeOf[s]]
        BY <2>1, <3>1, ProvisioningAssumption DEF TypeOK
      <4> QED BY <3>1, <3>2, <4>1, <4>2
    <3> QED BY <3>2, <3>3 DEF OneIdInv
  <2>3. CASE UNCHANGED <<vmid, hvId>>
    BY <2>3 DEF OneIdInv
  <2> QED BY <2>1, <2>2, <2>3
          DEF Next, RunStep, HostStep, Preflight, NoIdGiven, Succeeds, Fails, Accept, UploadLands,
              DeleteRuns, TaskFails, CreateFails, Import, Created, Started, Crash, vars
<1>3. SeenInv /\ OneIdInv => OneVmPerNode
  BY ProvisioningAssumption DEF SeenInv, SeenOK, ProvisioningInv, TypeOK, OneIdInv, OneVmPerNode
<1> QED BY <1>1, <1>2, <1>3, Inductive, SeenInductive, PTL DEF Spec

=============================================================================
