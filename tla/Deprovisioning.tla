--------------------------- MODULE Deprovisioning ---------------------------
(***************************************************************************)
(* Provisioner.deprovision_node and deprovision_vm, and the CLI and        *)
(* Ansible entries to them: runs that look a VM up in a list, shut it      *)
(* down, hard-stop it if it does not go down, and delete it.  The list is  *)
(* read once; VMs are started, stopped and created by others meanwhile,    *)
(* and from the look-up on a run knows its VM only by id.                  *)
(***************************************************************************)
CONSTANTS
  Runs,       \* calls of a deprovisioning operation
  Prechecks,  \* those of the Ansible module, which looks for the VM first
  Prompted,   \* those of the CLI's --vm-name or --vm-id, which ask before they go on
  Vms,        \* VMs, each under one id from its creation to its deletion
  VmIds, Names,
  NameOf,     \* the name of each VM
  Asked,      \* the name or the id a run is asked to deprovision
  FaultSets,  \* what may go wrong: one of these subsets of FaultKinds
  NoVm, NoId

\* "refused": a request never reaches the host.  "error": a task fails.
\* "hung": a guest does not go down in the time it is given.  "unseen": the
\* host took a request and its outcome is not seen.  "reuse": an id that was
\* freed is given again.
FaultKinds == {"refused", "error", "hung", "unseen", "reuse"}

ASSUME DeprovisioningAssumption ==
  /\ Prechecks \subseteq Runs /\ Prompted \subseteq Runs
  /\ NameOf \in [Vms -> Names]
  /\ Asked \in [Runs -> Names \cup VmIds]
  /\ FaultSets \subseteq SUBSET FaultKinds
  /\ NoVm \notin Vms /\ NoId \notin VmIds

VARIABLES
  faults,   \* what may go wrong in this behaviour
  step,     \* what each run does next, or waits for
  verdict,  \* "pending", or what it returns: "ok", "failed", "absent", "declined"
  chosen,   \* the VM its look-up found, of which the code keeps the id
  listed,   \* and the status, as it was listed
  task,     \* the host's task for each operation of each run
  home,     \* the id each VM has or had
  power     \* "none" before its creation, "stopped", "running", "gone"

vars == <<faults, step, verdict, chosen, listed, task, home, power>>
host == <<faults, task, home, power>>

Ops == {"shutdown", "stop", "delete"}
Steps == {"check", "list", "confirm", "done"} \cup Ops
Present == {"stopped", "running"}

TypeOK ==
  /\ faults \in FaultSets
  /\ step \in [Runs -> Steps]
  /\ verdict \in [Runs -> {"pending", "ok", "failed", "absent", "declined"}]
  /\ chosen \in [Runs -> Vms \cup {NoVm}]
  /\ listed \in [Runs -> {"none"} \cup Present]
  /\ task \in [Runs -> [Ops -> {"none", "running", "ok", "error"}]]
  /\ home \in [Vms -> VmIds \cup {NoId}]
  /\ power \in [Vms -> {"none", "gone"} \cup Present]

IsAt(m, v) == home[m] = v /\ power[m] \in Present
Free(v) == \A m \in Vms : ~IsAt(m, v)

Init ==
  /\ faults \in FaultSets
  /\ step = [r \in Runs |-> IF r \in Prechecks THEN "check" ELSE "list"]
  /\ verdict = [r \in Runs |-> "pending"]
  /\ chosen = [r \in Runs |-> NoVm]
  /\ listed = [r \in Runs |-> "none"]
  /\ task = [r \in Runs |-> [op \in Ops |-> "none"]]
  /\ home \in [Vms -> VmIds \cup {NoId}]
  /\ power \in [Vms -> {"none"} \cup Present]
  /\ \A m \in Vms : home[m] = NoId <=> power[m] = "none"
  /\ \A m, n \in Vms : home[m] = home[n] /\ home[m] # NoId => m = n

-----------------------------------------------------------------------------
(* The run *)

Return(r, result) ==
  /\ step' = [step EXCEPT ![r] = "done"]
  /\ verdict' = [verdict EXCEPT ![r] = result]

Goto(r, s) ==
  /\ step' = [step EXCEPT ![r] = s]
  /\ UNCHANGED verdict

\* Mutant: any VM of the node.
AnyListed(r) == {m \in Vms : power[m] \in Present}

Listed(r) == {m \in Vms : power[m] \in Present /\ Asked[r] \in {NameOf[m], home[m]}}

\* The Ansible module's own look-up, which does nothing but end early.
Check(r) ==
  /\ step[r] = "check"
  /\ \/ "refused" \in faults /\ Return(r, "failed")
     \/ Listed(r) = {} /\ Return(r, "absent")
     \/ Listed(r) # {} /\ Goto(r, "list")
  /\ UNCHANGED <<chosen, listed, host>>

\* A VM that was listed running is asked to shut down first, any other is
\* deleted as it is.
FirstOp(status) == IF status = "running" THEN "shutdown" ELSE "delete"

\* The first VM of the list that has the name, or the id.
List(r) ==
  /\ step[r] = "list"
  /\ \/ \E m \in Listed(r) :
          /\ chosen' = [chosen EXCEPT ![r] = m]
          /\ listed' = [listed EXCEPT ![r] = power[m]]
          /\ Goto(r, IF r \in Prompted THEN "confirm" ELSE FirstOp(power[m]))
     \/ /\ "refused" \in faults \/ Listed(r) = {}
        /\ Return(r, "failed")
        /\ UNCHANGED <<chosen, listed>>
  /\ UNCHANGED host

Confirm(r) ==
  /\ step[r] = "confirm"
  /\ Goto(r, FirstOp(listed[r])) \/ Return(r, "declined")
  /\ UNCHANGED <<chosen, listed, host>>

IdOf(r) == home[chosen[r]]

Succeeds(r, op) ==
  /\ step[r] = op
  /\ task[r][op] = "ok"
  /\ IF op = "delete" THEN Return(r, "ok") ELSE Goto(r, "delete")
  /\ UNCHANGED <<chosen, listed, host>>

\* Mutants: a wait ends before its task, as with one poll only; a task that
\* failed is polled for ever.
EndsEarly(r, op) ==
  \/ task[r][op] \in {"running", "error"}
  \/ task[r][op] = "none" /\ ("refused" \in faults \/ Free(IdOf(r)))
PollsFailedTask(r, op) == task[r][op] = "none" /\ ("refused" \in faults \/ Free(IdOf(r)))

\* The request failed, the task failed, or its outcome was not seen.
LooksFailed(r, op) ==
  \/ task[r][op] = "error"
  \/ task[r][op] = "none" /\ ("refused" \in faults \/ Free(IdOf(r)))
  \/ task[r][op] \in {"running", "ok"} /\ "unseen" \in faults

\* Mutant: the outcome of the delete is not looked at.
IgnoresDelete(r, op) ==
  /\ step[r] = op
  /\ LooksFailed(r, op)
  /\ IF op = "shutdown" THEN Goto(r, "stop")
     ELSE Return(r, IF op = "delete" THEN "ok" ELSE "failed")
  /\ UNCHANGED <<chosen, listed, host>>

\* A shutdown that failed is followed by a hard stop, anything else ends the run.
Fails(r, op) ==
  /\ step[r] = op
  /\ LooksFailed(r, op)
  /\ IF op = "shutdown" THEN Goto(r, "stop") ELSE Return(r, "failed")
  /\ UNCHANGED <<chosen, listed, host>>

-----------------------------------------------------------------------------
(* The host: it knows VMs by id *)

Running(r, op) == task[r][op] = "running"
Task(r, op, status) == task' = [task EXCEPT ![r][op] = status]
Client == <<faults, step, verdict, chosen, listed>>

Accept(r, op) ==
  /\ step[r] = op
  /\ task[r][op] = "none"
  /\ ~Free(IdOf(r))
  /\ Task(r, op, "running")
  /\ UNCHANGED <<Client, home, power>>

\* The guest goes down, or was down already.
GoesDown(r) ==
  /\ Running(r, "shutdown")
  /\ \E m \in Vms :
       /\ IsAt(m, IdOf(r))
       /\ power' = [power EXCEPT ![m] = "stopped"]
  /\ Task(r, "shutdown", "ok")
  /\ UNCHANGED <<Client, home>>

\* It does not, in the time the request gave it.
DoesNotGoDown(r) ==
  /\ Running(r, "shutdown")
  /\ "hung" \in faults
  /\ \E m \in Vms : IsAt(m, IdOf(r)) /\ power[m] = "running"
  /\ Task(r, "shutdown", "error")
  /\ UNCHANGED <<Client, home, power>>

\* A hard stop ends the shutdowns of the VM that are under way
\* (overrule-shutdown).
Stopped(r) ==
  /\ Running(r, "stop")
  /\ \E m \in Vms :
       /\ IsAt(m, IdOf(r))
       /\ power' = [power EXCEPT ![m] = "stopped"]
  /\ task' = [s \in Runs |-> [op \in Ops |->
                IF s = r /\ op = "stop" THEN "ok"
                ELSE IF op = "shutdown" /\ Running(s, op) /\ IdOf(s) = IdOf(r) THEN "error"
                ELSE task[s][op]]]
  /\ UNCHANGED <<Client, home>>

\* A VM is deleted with its disks, unless it runs.
Deleted(r) ==
  /\ Running(r, "delete")
  /\ \E m \in Vms :
       /\ IsAt(m, IdOf(r))
       /\ \/ /\ power[m] = "stopped"
             /\ power' = [power EXCEPT ![m] = "gone"]
             /\ Task(r, "delete", "ok")
          \/ /\ power[m] = "running"
             /\ Task(r, "delete", "error")
             /\ UNCHANGED power
  /\ UNCHANGED <<Client, home>>

\* A task fails by itself, or because its VM is gone.
TaskFails(r, op) ==
  /\ Running(r, op)
  /\ "error" \in faults \/ Free(IdOf(r))
  /\ Task(r, op, "error")
  /\ UNCHANGED <<Client, home, power>>

\* Others: a guest goes down by itself, someone starts a VM, a provisioning
\* run creates one.
Toggle(m) ==
  /\ power[m] \in Present
  /\ power' = [power EXCEPT ![m] = IF power[m] = "running" THEN "stopped" ELSE "running"]
  /\ UNCHANGED <<Client, task, home>>

Create(m, v) ==
  /\ power[m] = "none"
  /\ Free(v)
  /\ "reuse" \in faults \/ \A n \in Vms : home[n] # v
  /\ home' = [home EXCEPT ![m] = v]
  /\ power' = [power EXCEPT ![m] = "stopped"]
  /\ UNCHANGED <<Client, task>>

-----------------------------------------------------------------------------
Resume(r) ==
  \/ Check(r) \/ List(r)
  \/ \E op \in Ops : Succeeds(r, op) \/ Fails(r, op)

HostStep(r) ==
  \/ \E op \in Ops : Accept(r, op) \/ TaskFails(r, op)
  \/ GoesDown(r) \/ DoesNotGoDown(r) \/ Stopped(r) \/ Deleted(r)

Others == \E m \in Vms : Toggle(m) \/ \E v \in VmIds : Create(m, v)

Next == Others \/ \E r \in Runs : Resume(r) \/ Confirm(r) \/ HostStep(r)

Spec == Init /\ [][Next]_vars

\* The event loop resumes a run and the host works through its tasks; nobody
\* has to answer the prompt.
FairSpec == Spec /\ \A r \in Runs : WF_vars(Resume(r)) /\ WF_vars(HostStep(r))

-----------------------------------------------------------------------------
(* Properties *)

\* A delete takes the VM that a run was asked for and has chosen.
DeletesAsked ==
  \A m \in Vms : power[m] \in Present /\ power'[m] = "gone" =>
    \E r \in Runs :
      /\ Running(r, "delete")
      /\ chosen[r] = m
      /\ Asked[r] \in {NameOf[m], home[m]}

(* Only the VM a run was asked for, and has told the user it would stop and
   delete, is deleted (__main__.py:374): the id the run works with still names
   that VM when the delete happens, after the prompt and a shutdown of minutes,
   as long as no id that was freed is given again, whatever else fails and
   whoever else deletes, starts and creates VMs. *)
KeptIdsOnlyAskedDeleted == [][("reuse" \notin faults) => DeletesAsked]_vars

(* A run that returns True after its delete has its VM gone, whoever else
   deletes, starts and creates VMs meanwhile (_stop_and_delete_vm). *)
TrueMeansGone == \A r \in Runs : verdict[r] = "ok" => power[chosen[r]] = "gone"

(* "asks it to shut down ... and hard-stops it only if it does not go down"
   (CHANGELOG.md:43): as long as the outcome of every task is seen, a run never
   asks for a hard stop while its shutdown is under way or has succeeded. *)
HardStopIsLast ==
  "unseen" \notin faults => \A r \in Runs : step[r] = "stop" /\ task[r]["stop"] = "none" =>
    task[r]["shutdown"] \in {"none", "error"}

(* A run that returns False has not deleted a VM and is not about to: as long
   as outcomes are seen, no delete of it succeeds behind the caller's back. *)
FalseMeansKept ==
  "unseen" \notin faults => \A r \in Runs : verdict[r] = "failed" => task[r]["delete"] \in {"none", "error"}

(* Every run ends, or waits for the user. *)
RunsEnd ==
  \A r \in Runs : step[r] # "confirm" ~> step[r] \in {"confirm", "done"}

-----------------------------------------------------------------------------
(* The inductive invariant behind the theorems (DeprovisioningProofs) *)

\* One VM at an id at a time, and the VM a run chose is one it was asked for,
\* whose delete ended OK only once it was gone.
DeprovisioningInv ==
  /\ TypeOK
  /\ \A m \in Vms : power[m] = "none" <=> home[m] = NoId
  /\ \A m, n \in Vms : power[m] \in Present /\ power[n] \in Present /\ home[m] = home[n] => m = n
  /\ \A r \in Runs :
       /\ chosen[r] \in Vms =>
            power[chosen[r]] # "none" /\ Asked[r] \in {NameOf[chosen[r]], home[chosen[r]]}
       /\ step[r] \in Ops \cup {"confirm"} => chosen[r] \in Vms
       /\ step[r] \in {"check", "list"} => chosen[r] = NoVm
       /\ \A op \in Ops : task[r][op] # "none" => chosen[r] \in Vms
       /\ task[r]["delete"] = "ok" => power[chosen[r]] = "gone"
       /\ verdict[r] = "ok" => task[r]["delete"] = "ok"

\* A stop is asked for only after a shutdown that failed, and what a run has
\* given up on does not happen.
SeenInv ==
  \A r \in Runs :
    /\ step[r] = "stop" => task[r]["shutdown"] \in {"none", "error"}
    /\ step[r] \notin {"delete", "done"} => task[r]["delete"] = "none"
    /\ verdict[r] = "failed" => step[r] = "done" /\ task[r]["delete"] \in {"none", "error"}

NoReuse == \A m, n \in Vms : home[m] = home[n] /\ home[m] # NoId => m = n

=============================================================================
