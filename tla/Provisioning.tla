---------------------------- MODULE Provisioning ----------------------------
(***************************************************************************)
(* Provisioner.provision_node: runs that create VMs on one Proxmox cluster *)
(* through one import storage.  A run uploads the install images of its VM *)
(* (its config and its EFI image), has Proxmox create the VM by importing  *)
(* them, deletes the images and starts the VM.  Each of these is a task of *)
(* the host that goes on whether or not the run still waits for it; what a *)
(* run learns of a task is what AwaitedTask promises and no more.          *)
(***************************************************************************)
EXTENDS Integers

CONSTANTS
  Runs,             \* calls of provision_node
  Nodes,            \* config objects (ArcaneOsConfig), kept between the runs of one
  NodeOf,           \* the config each run provisions
  NameOf,           \* hypervisor.vm_name of each config
  PinnedId,         \* hypervisor.vm_id as configured, NoId when it is left out
  StartOnCreation,  \* the configs with hypervisor.start_on_creation
  Clustered,        \* FALSE on a standalone host or with force_standalone
  VmIds,            \* the ids Proxmox can give
  FaultSets,        \* what may go wrong: in each behaviour one of these sets
  NoId, NoRun

\* "refused": a request other than a delete never reaches the host, or a check
\* fails.  "error": a task other than a delete fails.  "undeletable": a delete
\* does.  "unseen": the host
\* took a request and its outcome is not seen: the answer is lost, a poll is
\* unreadable or the wait is over.  "crash": the process ends, or an exception
\* escapes provision_node.
FaultKinds == {"refused", "error", "undeletable", "unseen", "crash"}

Kinds == {"config", "efi"}
Uploads == {"upConfig", "upEfi"}
Deletes == {"delConfig", "delEfi"}
Ops == Uploads \cup Deletes \cup {"create", "start"}
KindOf(op) == IF op \in {"upConfig", "delConfig"} THEN "config" ELSE "efi"
DeleteOf(k) == IF k = "config" THEN "delConfig" ELSE "delEfi"

Images == VmIds \X Kinds

\* Mutant: one EFI image for all VMs, as before 4.0.0.
SharedEfi(v, k) == <<IF k = "efi" THEN CHOOSE w \in VmIds : TRUE ELSE v, k>>

\* The file name of a VM's image: one of each kind per VM id.
ImageOf(v, k) == <<v, k>>

ASSUME ProvisioningAssumption ==
  /\ NodeOf \in [Runs -> Nodes]
  /\ PinnedId \in [Nodes -> VmIds \cup {NoId}]
  /\ StartOnCreation \subseteq Nodes
  /\ Clustered \in BOOLEAN
  /\ FaultSets \subseteq SUBSET FaultKinds
  /\ NoId \notin VmIds
  /\ NoRun \notin Runs \cup Nodes

VARIABLES
  faults,    \* what may go wrong in this behaviour
  step,      \* where each run is: the operation it has requested and waits for
  verdict,   \* what the run will return: "pending" until decided, "ok" or "failed"
  vmid,      \* the vm_id the run works with
  hvId,      \* hypervisor.vm_id of each config object
  task,      \* the host's task for each operation of each run
  image,     \* the files on the import storage: the run whose upload each holds
  vmState,   \* "none", "creating", "stopped" or "running"
  vmOf,      \* the run whose create made the VM
  disk       \* the run whose image each of the VM's disks was imported from

vars == <<faults, step, verdict, vmid, hvId, task, image, vmState, vmOf, disk>>
host == <<faults, task, image, vmState, vmOf, disk>>

Ended == {"done", "crashed"}
Steps == {"idle", "allocate"} \cup Ops \cup Ended

TypeOK ==
  /\ faults \in FaultSets
  /\ step \in [Runs -> Steps]
  /\ verdict \in [Runs -> {"pending", "ok", "failed"}]
  /\ vmid \in [Runs -> VmIds \cup {NoId}]
  /\ hvId \in [Nodes -> VmIds \cup {NoId}]
  /\ task \in [Runs -> [Ops -> {"none", "running", "ok", "error"}]]
  /\ image \in [Images -> Runs \cup {NoRun}]
  /\ vmState \in [VmIds -> {"none", "creating", "stopped", "running"}]
  /\ vmOf \in [VmIds -> Runs \cup {NoRun}]
  /\ disk \in [VmIds -> [Kinds -> Runs \cup {NoRun}]]

Init ==
  /\ faults \in FaultSets
  /\ step = [r \in Runs |-> "idle"]
  /\ verdict = [r \in Runs |-> "pending"]
  /\ vmid = [r \in Runs |-> NoId]
  /\ hvId = PinnedId
  /\ task = [r \in Runs |-> [op \in Ops |-> "none"]]
  /\ image = [i \in Images |-> NoRun]
  /\ vmState = [v \in VmIds |-> "none"]
  /\ vmOf = [v \in VmIds |-> NoRun]
  /\ disk = [v \in VmIds |-> [k \in Kinds |-> NoRun]]

Finished(v) == vmState[v] \in {"stopped", "running"}

-----------------------------------------------------------------------------
(* The run *)

Return(r, v) ==
  /\ step' = [step EXCEPT ![r] = "done"]
  /\ verdict' = [verdict EXCEPT ![r] = v]

NameTaken(n) ==
  Clustered /\ \E v \in VmIds : Finished(v) /\ NameOf[NodeOf[vmOf[v]]] = NameOf[n]

\* The checks before anything is touched.  One config object is provisioned by
\* one call at a time.
Preflight(r) ==
  /\ step[r] = "idle"
  /\ \A s \in Runs : NodeOf[s] = NodeOf[r] => step[s] \in {"idle"} \cup Ended
  /\ \/ /\ ~NameTaken(NodeOf[r])
        /\ step' = [step EXCEPT ![r] = "allocate"]
        /\ UNCHANGED verdict
     \/ /\ NameTaken(NodeOf[r]) \/ "refused" \in faults
        /\ Return(r, "failed")
  /\ UNCHANGED <<vmid, hvId, host>>

\* Mutant: the config's id is not asked for.
AnyId(r) == {v \in VmIds : vmState[v] = "none"}

\* The config's own id, else one that cluster/nextid says is free; nothing
\* reserves it.
IdsFor(r) ==
  {v \in VmIds : IF hvId[NodeOf[r]] = NoId THEN vmState[v] = "none" ELSE v = hvId[NodeOf[r]]}

\* The id is written back to the config object.
Allocate(r) ==
  /\ step[r] = "allocate"
  /\ \E v \in IdsFor(r) :
       /\ vmid' = [vmid EXCEPT ![r] = v]
       /\ hvId' = [hvId EXCEPT ![NodeOf[r]] = v]
  /\ step' = [step EXCEPT ![r] = "upConfig"]
  /\ UNCHANGED <<verdict, host>>

NoIdGiven(r) ==
  /\ step[r] = "allocate"
  /\ hvId[NodeOf[r]] = NoId
  /\ "refused" \in faults \/ \A v \in VmIds : vmState[v] # "none"
  /\ Return(r, "failed")
  /\ UNCHANGED <<vmid, hvId, host>>

\* Mutants: the EFI image is not deleted, after a create and after a failed one.
OnSuccessKeepsEfi ==
  [upConfig |-> "upEfi", upEfi |-> "create", create |-> "delConfig",
   delEfi |-> "delConfig", delConfig |-> "start", start |-> "done"]
OnFailureKeepsEfi ==
  [upConfig |-> "delConfig", upEfi |-> "delEfi", create |-> "delConfig",
   delEfi |-> "delConfig", delConfig |-> "start", start |-> "done"]

OnSuccess == [upConfig |-> "upEfi", upEfi |-> "create", create |-> "delEfi",
              delEfi |-> "delConfig", delConfig |-> "start", start |-> "done"]

\* A failed config upload leaves no EFI image to delete.  Both deletes are
\* attempted, whatever becomes of the first.
OnFailure == [upConfig |-> "delConfig", upEfi |-> "delEfi", create |-> "delEfi",
              delEfi |-> "delConfig", delConfig |-> "start", start |-> "done"]

\* The run goes on to step s.  It starts the VM only if nothing has failed and
\* the config asks for it; without that it returns here.
GoTo(r, s, v) ==
  LET skip == s = "start" /\ (v = "failed" \/ NodeOf[r] \notin StartOnCreation)
      end  == s = "done" \/ skip
  IN IF end THEN Return(r, IF v = "failed" THEN "failed" ELSE "ok")
     ELSE /\ step' = [step EXCEPT ![r] = s]
          /\ verdict' = [verdict EXCEPT ![r] = v]

Succeeds(r, op) ==
  /\ step[r] = op
  /\ task[r][op] = "ok"
  /\ GoTo(r, OnSuccess[op], verdict[r])
  /\ UNCHANGED <<vmid, hvId, host>>

Refusable(op) == (IF op \in Deletes THEN "undeletable" ELSE "refused") \in faults

\* Mutants: the wait on a create ends before the create, as with the 10 s of
\* before 4.0.0; a request that was refused is polled for ever.
FailsEarly(r, op) ==
  \/ task[r][op] = "error"
  \/ task[r][op] = "none" /\ Refusable(op)
  \/ task[r][op] = "running" /\ op = "create"
PollsRefusedCreate(r, op) == task[r][op] = "error"

\* The request failed, the task failed, or its outcome was not seen.
LooksFailed(r, op) ==
  \/ task[r][op] = "error"
  \/ task[r][op] = "none" /\ Refusable(op)
  \/ task[r][op] = "none" /\ op = "create" /\ vmState[vmid[r]] # "none"
  \/ task[r][op] \in {"running", "ok"} /\ "unseen" \in faults

Fails(r, op) ==
  /\ step[r] = op
  /\ LooksFailed(r, op)
  /\ GoTo(r, OnFailure[op], "failed")
  /\ UNCHANGED <<vmid, hvId, host>>

\* The run is gone where it stands.  With the process the config object goes
\* too, and is read again as configured.
Crash(r) ==
  /\ "crash" \in faults
  /\ step[r] \in Ops
  /\ step' = [step EXCEPT ![r] = "crashed"]
  /\ \E v \in {hvId[NodeOf[r]], PinnedId[NodeOf[r]]} :
       hvId' = [hvId EXCEPT ![NodeOf[r]] = v]
  /\ UNCHANGED <<verdict, vmid, host>>

-----------------------------------------------------------------------------
(* The host *)

Task(r, op, status) == task' = [task EXCEPT ![r][op] = status]
Running(r, op) == task[r][op] = "running"

\* A request reaches the host while the run waits on it.  A create claims its
\* id, and is refused when another VM holds it.
Accept(r, op) ==
  /\ step[r] = op
  /\ task[r][op] = "none"
  /\ Task(r, op, "running")
  /\ IF op = "create"
     THEN /\ vmState[vmid[r]] = "none"
          /\ vmState' = [vmState EXCEPT ![vmid[r]] = "creating"]
          /\ vmOf' = [vmOf EXCEPT ![vmid[r]] = r]
          /\ disk' = [disk EXCEPT ![vmid[r]] = [k \in Kinds |-> NoRun]]
     ELSE UNCHANGED <<vmState, vmOf, disk>>
  /\ UNCHANGED <<faults, step, verdict, vmid, hvId, image>>

\* An uploaded file appears, over one of the same name.
UploadLands(r, op) ==
  /\ op \in Uploads
  /\ Running(r, op)
  /\ Task(r, op, "ok")
  /\ image' = [image EXCEPT ![ImageOf(vmid[r], KindOf(op))] = r]
  /\ UNCHANGED <<faults, step, verdict, vmid, hvId, vmState, vmOf, disk>>

DeleteRuns(r, op) ==
  /\ op \in Deletes
  /\ Running(r, op)
  /\ LET i == ImageOf(vmid[r], KindOf(op))
     IN /\ Task(r, op, IF image[i] = NoRun THEN "error" ELSE "ok")
        /\ image' = [image EXCEPT ![i] = NoRun]
  /\ UNCHANGED <<faults, step, verdict, vmid, hvId, vmState, vmOf, disk>>

\* A create that fails takes its VM with it.
CreateFails(r) ==
  /\ Task(r, "create", "error")
  /\ vmState' = [vmState EXCEPT ![vmid[r]] = "none"]
  /\ vmOf' = [vmOf EXCEPT ![vmid[r]] = NoRun]
  /\ disk' = [disk EXCEPT ![vmid[r]] = [k \in Kinds |-> NoRun]]
  /\ UNCHANGED <<faults, step, verdict, vmid, hvId, image>>

\* The create imports each image into a disk of the VM, if it is there.
Import(r, k) ==
  LET i == ImageOf(vmid[r], k)
  IN /\ Running(r, "create")
     /\ disk[vmid[r]][k] = NoRun
     /\ \/ image[i] = NoRun /\ CreateFails(r)
        \/ /\ image[i] # NoRun
           /\ disk' = [disk EXCEPT ![vmid[r]][k] = image[i]]
           /\ UNCHANGED <<faults, step, verdict, vmid, hvId, task, image, vmState, vmOf>>

Created(r) ==
  /\ Running(r, "create")
  /\ \A k \in Kinds : disk[vmid[r]][k] # NoRun
  /\ Task(r, "create", "ok")
  /\ vmState' = [vmState EXCEPT ![vmid[r]] = "stopped"]
  /\ UNCHANGED <<faults, step, verdict, vmid, hvId, image, vmOf, disk>>

Started(r) ==
  /\ Running(r, "start")
  /\ vmState[vmid[r]] = "stopped"
  /\ Task(r, "start", "ok")
  /\ vmState' = [vmState EXCEPT ![vmid[r]] = "running"]
  /\ UNCHANGED <<faults, step, verdict, vmid, hvId, image, vmOf, disk>>

\* A task fails by itself, having changed nothing that stays.
TaskFails(r, op) ==
  /\ Running(r, op)
  /\ (IF op \in Deletes THEN "undeletable" ELSE "error") \in faults
  /\ IF op = "create" THEN CreateFails(r)
     ELSE /\ Task(r, op, "error")
          /\ UNCHANGED <<faults, step, verdict, vmid, hvId, image, vmState, vmOf, disk>>

-----------------------------------------------------------------------------
RunStep(r) ==
  \/ Preflight(r) \/ Allocate(r) \/ NoIdGiven(r)
  \/ \E op \in Ops : Succeeds(r, op) \/ Fails(r, op)

HostStep(r) ==
  \/ \E op \in Ops : Accept(r, op) \/ UploadLands(r, op) \/ DeleteRuns(r, op) \/ TaskFails(r, op)
  \/ \E k \in Kinds : Import(r, k)
  \/ Created(r) \/ Started(r)

Next == \E r \in Runs : RunStep(r) \/ HostStep(r) \/ Crash(r)

Spec == Init /\ [][Next]_vars

\* The event loop resumes a run that can go on, and the host works through
\* its tasks; nothing has to fail or crash.
FairSpec == Spec /\ \A r \in Runs : WF_vars(RunStep(r)) /\ WF_vars(HostStep(r))

-----------------------------------------------------------------------------
(* Properties *)

Settled(r) == step[r] \in Ended /\ \A op \in Ops : ~Running(r, op)
NeededBy(r, v, k) == Running(r, "create") /\ vmid[r] = v /\ disk[v][k] = NoRun
Lost(i) == image[i] # NoRun /\ image'[i] = NoRun

(* Every disk of a finished VM was imported from an image of the node the VM
   was made for: a Fluxnode boots its own installer config, whatever uploads,
   creates and cleanups of other runs, of failed ones and of crashed ones are
   still going on (upload_arcane_config, create_vm_config's import-from). *)
OwnImages ==
  \A v \in VmIds : Finished(v) =>
    \A k \in Kinds : disk[v][k] \in Runs /\ NodeOf[disk[v][k]] = NodeOf[vmOf[v]]

(* "runs that share an import storage never delete an image another run is
   still importing" (provisioner.py:117). *)
NoForeignDelete ==
  [][\A r \in Runs, v \in VmIds, k \in Kinds :
       NeededBy(r, v, k) /\ Lost(ImageOf(v, k)) =>
         task'[r][DeleteOf(k)] # task[r][DeleteOf(k)]]_vars

KeepsImages ==
  \A r \in Runs, v \in VmIds, k \in Kinds : NeededBy(r, v, k) => ~Lost(ImageOf(v, k))

(* "provision_node deletes the install images once the create's wait ends, so
   the wait must outlast a create" (provisioner.py:25): a create never finds
   its images deleted, by its own run either, as long as the outcome of every
   task is seen and runs end by themselves.  A wait that ends at a poll it
   cannot read does not outlast the create. *)
SeenCreateKeepsImages == [][faults \cap {"unseen", "crash"} = {} => KeepsImages]_vars

(* What a run that returns True has shown: the VM of its id is its own, is
   running exactly if the config asks for it, and none of the images the run
   uploaded is left on the import storage. *)
SuccessIsTrue ==
  \A r \in Runs : verdict[r] = "ok" =>
    /\ vmOf[vmid[r]] = r
    /\ vmState[vmid[r]] = IF NodeOf[r] \in StartOnCreation THEN "running" ELSE "stopped"
    /\ \A k \in Kinds : image[ImageOf(vmid[r], k)] # r

(* Once a run has ended and its tasks with it, no image of it is left on the
   import storage, on success and on failure, as long as every outcome is
   seen and deletes work. *)
NothingLeftBehind ==
  faults \subseteq {"refused", "error"} =>
    \A r \in Runs : Settled(r) => \A i \in Images : image[i] # r

(* A run that returns False leaves a VM only if cleaning up or starting it
   is what failed: a create that failed for the run, its outcome seen, left
   no VM. *)
FailureLeavesNoVm ==
  "unseen" \notin faults =>
    \A r \in Runs, v \in VmIds :
      verdict[r] = "failed" /\ step[r] = "done" /\ vmOf[v] = r =>
        /\ task[r]["create"] = "ok"
        /\ \/ \E op \in Deletes : task[r][op] # "ok"
           \/ NodeOf[r] \in StartOnCreation /\ task[r]["start"] # "ok"

(* However often a config is provisioned, no second VM comes of it: a retry
   works with the id the first attempt wrote back (hv.vm_id), and a create
   on a taken id is refused. *)
OneVmPerNode ==
  \A v, w \in VmIds :
    vmOf[v] # NoRun /\ vmOf[w] # NoRun /\ NodeOf[vmOf[v]] = NodeOf[vmOf[w]] => v = w

(* Every run ends. *)
RunsEnd == \A r \in Runs : <>(step[r] \in Ended)

\* The registry an owner sees: the config each finished VM boots.
BootedNode == [v \in VmIds |-> IF Finished(v) THEN NodeOf[disk[v]["config"]] ELSE NoRun]
StartedIds == {v \in VmIds : vmState[v] = "running"}

Registry == INSTANCE VmRegistry WITH
  NoNode <- NoRun, vmNode <- BootedNode, running <- StartedIds

(* Provisioning implements that registry: a VM appears whole, on a free id
   that is its config's own, and is then started at most once, whatever the
   uploads, imports, cleanups and retries that happen on the way. *)
ImplementsRegistry == Registry!Spec

-----------------------------------------------------------------------------
(* The inductive invariants behind the theorems (ProvisioningProofs) *)

DoneBefore == [upConfig  |-> {},
               upEfi     |-> {"upConfig"},
               create    |-> Uploads,
               delEfi    |-> Uploads \cup {"create"},
               delConfig |-> Uploads \cup {"create", "delEfi"},
               start     |-> Uploads \cup {"create"} \cup Deletes]

\* How far a run has got, told from its own tasks: as long as nothing has
\* failed, everything before the current operation ended OK.
RunOK(r) ==
  /\ step[r] \in {"idle", "allocate"} =>
       verdict[r] = "pending" /\ \A op \in Ops : task[r][op] = "none"
  /\ vmid[r] = NoId =>
       step[r] \notin Ops /\ verdict[r] # "ok" /\ \A op \in Ops : task[r][op] = "none"
  /\ step[r] \in Ops /\ verdict[r] # "failed" =>
       verdict[r] = "pending" /\ \A op \in DoneBefore[step[r]] : task[r][op] = "ok"
  /\ step[r] = "start" => verdict[r] # "failed" /\ NodeOf[r] \in StartOnCreation
  /\ task[r]["start"] # "none" => NodeOf[r] \in StartOnCreation /\ task[r]["create"] = "ok"
  /\ verdict[r] # "failed" /\ (\E op \in Deletes : task[r][op] # "none") =>
       \A op \in Uploads : task[r][op] = "ok"
  /\ verdict[r] = "ok" =>
       /\ step[r] = "done"
       /\ \A op \in Deletes \cup {"create"} : task[r][op] = "ok"
       /\ NodeOf[r] \in StartOnCreation => task[r]["start"] = "ok"

\* What a run's tasks have made of the host.
HostOK(r) ==
  /\ Running(r, "create") => vmOf[vmid[r]] = r /\ vmState[vmid[r]] = "creating"
  /\ task[r]["create"] = "ok" => vmOf[vmid[r]] = r /\ Finished(vmid[r])
  /\ task[r]["start"] = "ok" => vmState[vmid[r]] = "running"
  /\ \A k \in Kinds :
       verdict[r] # "failed" /\ task[r][DeleteOf(k)] = "ok" => image[ImageOf(vmid[r], k)] # r

VmOK(v) ==
  /\ Finished(v) => vmOf[v] \in Runs
  /\ vmState[v] = "running" => task[vmOf[v]]["start"] = "ok"

ProvisioningInv ==
  /\ TypeOK
  /\ \A r \in Runs : RunOK(r) /\ HostOK(r)
  /\ \A v \in VmIds : VmOK(v)

DistinctPinnedIds ==
  \A n, m \in Nodes : PinnedId[n] # NoId /\ (PinnedId[n] = PinnedId[m] => n = m)

\* No config is provisioned twice.
OneRunPerNode == \A r, s \in Runs : NodeOf[r] = NodeOf[s] => r = s

\* Under ids of their own, whatever bears an id comes from the config with
\* that id.
IdOf(r) == PinnedId[NodeOf[r]]

OwnImagesInv ==
  /\ hvId = PinnedId
  /\ \A r \in Runs : vmid[r] \in {NoId, IdOf(r)}
  /\ \A v \in VmIds :
       /\ vmOf[v] # NoRun => IdOf(vmOf[v]) = v
       /\ \A k \in Kinds :
            /\ image[ImageOf(v, k)] # NoRun => IdOf(image[ImageOf(v, k)]) = v
            /\ disk[v][k] # NoRun => IdOf(disk[v][k]) = v
            /\ Finished(v) => disk[v][k] # NoRun

UploadOf(k) == IF k = "config" THEN "upConfig" ELSE "upEfi"

\* One run of a config at a time.
Serial ==
  \A r, s \in Runs :
    r # s /\ NodeOf[r] = NodeOf[s] => {step[r], step[s]} \cap ({"idle"} \cup Ended) # {}

\* An operation is behind the run and has failed.
GaveUp(r, op) ==
  /\ step[r] \in Ended \/ op \in DoneBefore[step[r]]
  /\ task[r][op] \in {"none", "error"}
  /\ op = "start" => NodeOf[r] \in StartOnCreation

\* What is left of the run's images.
Cleaned(r) ==
  /\ \A k \in Kinds :
       task[r][DeleteOf(k)] \in {"ok", "error"} => image[ImageOf(vmid[r], k)] # r
  /\ step[r] \in {"delConfig", "start", "done"} => \A v \in VmIds : image[ImageOf(v, "efi")] # r
  /\ step[r] \in {"start", "done"} => \A v \in VmIds : image[ImageOf(v, "config")] # r

\* What a run has not done yet, what is its own, and what holds while its
\* outcomes are seen: nothing of it runs on behind it, what failed stays failed,
\* and what was deleted stays deleted.
SeenOK(r) ==
  /\ step[r] \in Ops =>
       \A op \in Ops \ (DoneBefore[step[r]] \cup {step[r]}) : task[r][op] = "none"
  /\ \A v \in VmIds, k \in Kinds :
       image[ImageOf(v, k)] = r => v = vmid[r] /\ task[r][UploadOf(k)] = "ok"
  /\ \A v \in VmIds : vmOf[v] = r => v = vmid[r] /\ task[r]["create"] \in {"running", "ok"}
  /\ "crash" \notin faults => step[r] # "crashed"
  /\ "unseen" \notin faults =>
       /\ \A op \in Ops : Running(r, op) => step[r] \in {op, "crashed"}
       /\ verdict[r] = "failed" =>
            /\ step[r] \in Deletes \cup Ended
            /\ \/ task[r]["create"] \in {"none", "error"}
               \/ \E op \in Deletes \cup {"start"} : GaveUp(r, op)
  /\ faults \subseteq {"refused", "error"} => Cleaned(r)

SeenInv == ProvisioningInv /\ Serial /\ \A r \in Runs : SeenOK(r)

\* A config object is never read again while there are runs to come.
NoCrash == \A f \in FaultSets : "crash" \notin f

\* All runs of a config work with the id that is written into it.
OneIdInv == \A r \in Runs : vmid[r] \in {NoId, hvId[NodeOf[r]]}

=============================================================================
