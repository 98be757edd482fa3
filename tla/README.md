# A TLA+ model of arcane-mage

arcane-mage provisions Flux nodes as virtual machines of a Proxmox VE host or
cluster: from a terminal UI, from a command line and from Ansible modules, all
over one asynchronous library. This directory holds TLA+ modules of its
stateful parts, TLC configurations that check them on small instances, and
TLAPS proofs about eight of its modules. Paths below are relative to the
repository; `provisioner.py` and its like are in `src/arcane_mage/`.

Run a configuration with `tlc -config X.cfg M.tla`, the proofs with
`tlapm M.tla` for `ProvisioningProofs`, `DeprovisioningProofs`,
`TaskWaitProofs`, `HypervisorStoreProofs`, `TpmKeyringProofs`, `SyncAllProofs`,
`CommandsProofs` and `FatImageProofs`. `PROJECT.json` lists the runs with their
modules, the mutants each property was shown to catch, and the source lines
every definition stands for.

## The system

| Component | State | Operations | Hard part |
|---|---|---|---|
| Provisioning, `provisioner.py` | images on the import storage, VMs and tasks of the host, `hv.vm_id` of a config object | `provision_node`: preflight, id, two uploads, create, cleanup, start | runs share storage and ids; a task outlives the wait for it |
| Task waiting, `proxmox.py` | the task's status, a deadline | `_await_task`, `wait_for_task`, `get_task` | lost answers, deadline against a late stop |
| Deprovisioning, `provisioner.py`, `__main__.py` | the VM list as read, VMs | look-up, shutdown, stop, delete | id and status are stale when used |
| Hypervisor store, `models/hypervisor.py` | the list in memory, the YAML file, the keyring | add, update, remove, write | three stores changed one after the other |
| TPM keyring, `tpm_keyring.py` | sixteen NV slots | get, set, delete | slot collisions, replace in three commands |
| ISO refresh, `provisioner.py`, `helpers.py` | the ISO storage | read feed, check, download | check and download apart, retries |
| Preflight and discovery, `provisioner.py`, `models/cluster.py` | none | `validate_*`, `read_cluster`, `discover_nodes` | partial answers |
| FAT writer, `fat_writer.py` | a 4 MB image | allocate clusters, chain, directory entries | packed 12-bit entries, the end of the volume |
| TUI: the Proxmox page, `arcane_mage.py`, `screens/` | screen stack, workers, table | Sync All, populate, one row | workers interleave with the user |
| TUI: the hypervisor form, `screens/hypervisor.py` | fields, buttons, validations under way | type, validate, save | an answer arrives after the fields have changed |
| CLI and Ansible, `__main__.py`, `ansible_collections/` | an exit code, a report | wrappers of the above | idempotence, look-up of a VM, what a report rests on |
| Configuration models, `models/` | none | parse and validate YAML | covered by unit tests |

The TUI, the CLI and the Ansible modules each make a `Provisioner` over a
`ProxmoxApi` and call `provision_node` or a deprovisioning method. The
provisioner sends HTTP requests one at a time; an operation that takes long is
a task of the host, named by a UPID, which the provisioner polls. Several
provisioners, in one process or many, meet only at the host: in its VM ids,
VM names and import storage. `PROJECT.json` lists under `hazards` where this is
hard to test, and which property answers each.

## What is modelled

**What may go wrong** is a variable, `faults`, chosen at the start of a
behaviour from the sets in `FaultSets` and never changed (`faulty` in
`TpmKeyring`, the constant `Faults` in `TaskWait`). One run thus covers several
circumstances, and a property says under which it is meant to hold: for
example `"unseen" \notin faults => ...`, where "unseen" is a task whose outcome
the client does not get to see. A property without such a condition holds
under every fault.

### Task waiting: `AwaitedTask`, `TaskWait`

`AwaitedTask` is what the callers of `Provisioner._await_task` rest on: a task
that runs by itself and one report of it, where "ok" means that the task
stopped with exit status OK and "failed" says nothing about the task.

`TaskWait` is the code behind it: the POST (`_do_http`), the polls
(`get_task`), the failures of an exchange (`handle_api_response`) and the
deadline of `wait_for_task`, with a clock in seconds. `phase` is the line the
coroutine is suspended at; `sample` is the status the host read for the poll in
flight, which may be old when its answer is handled.

| Model | Code |
|---|---|
| `Posted`, `PostFails` | `_await_task` on an accepted and on a failed request |
| `Answer` | one turn of the loop of `wait_for_task` and its three ends |
| `PollFails` | an HTTP error, an unexpected body, a connection that fails, a body that breaks off |
| `Poll` | `asyncio.sleep(1)` and the next `get_task` |
| `Accept`, `ReadStatus`, `Stop`, `Tick` | the host and the clock |

`TaskWait.cfg` checks that the wait implements `AwaitedTask`, that it ends, that
it ends within a sleep and an exchange of the deadline, and that "still
running" is reported only of a task that had been running all but the last
exchange of the wait. Bounds: `MaxWait` 4 and `MaxLatency` 2, so that several
polls, an exchange over the deadline and a stop during each phase occur;
`Horizon` leaves room for the longest wait. Fairness: the event loop runs
what can run, the host answers (the session's connect timeout turns a host
that does not into a failure), and time passes. The task need never stop. The
bound includes `MaxLatency` because `max_wait_s` bounds no exchange: the
deadline is tested between polls, and the session limits the connect only.

### Provisioning: `VmRegistry`, `Provisioning`, `MCProvisioning`

`VmRegistry` is what the owner of a cluster is promised: a VM appears whole,
under a free id that is its config's own, with the config of the node it was
made for, and is started at most once.

`Provisioning` has any number of runs of `provision_node` on one cluster and one
import storage. A run is at an operation (`step`) whose task the host works
through by itself (`task`); what a run learns of the task is what `AwaitedTask`
promises, so that a failure may be reported of a task that never began, that
failed, that runs on, or that has succeeded.

| Model | Code |
|---|---|
| `Preflight` | the checks of `provision_node` up to the network, in one step; `NameTaken` is `validate_cluster`'s. One by one they are in `Commands` |
| `Allocate`, `NoIdGiven`, `IdsFor` | `create_vm_config` with `get_next_id`, and the write-back to `hv.vm_id` |
| `ImageOf` | `_get_vm_config_file_name`, `_get_vm_efi_file_name` |
| `Succeeds`, `OnSuccess`, `GoTo` | the straight path of `provision_node`, `delete_install_disks` included |
| `Fails`, `OnFailure`, `LooksFailed` | its failure paths and what counts as a failure |
| `Crash` | a killed process, or an exception that escapes `provision_node` |
| `Accept`, `UploadLands`, `DeleteRuns`, `Import`, `Created`, `Started`, `TaskFails` | the host |

`hvId` is kept per config object, since `provision_node` writes the id back and
a retry reads it. `disk` remembers whose upload each disk was imported from:
the content of an image is abstracted to the run that uploaded it.

| Run | Question | Shows |
|---|---|---|
| `pinned` | two runs at once under configured ids, one name, every fault | each finished VM boots its own config, True means a VM of one's own and no images left, neither run takes the other's images, and `VmRegistry` is implemented; while every outcome is seen, a failure leaves no image and no VM behind beyond a failed cleanup or start, and a create finds its images |
| `retry` | a config without an id, provisioned twice on a standalone host | the retry never makes a second VM, and every run ends |
| `nextid_race` | two runs at once whose id Proxmox gives | **violated**: nothing reserves the id, both runs share image names, and one deletes what the other imports |

Known behaviour that `SeenCreateKeepsImages` leaves out: a create whose outcome
is not seen, by a poll that cannot be read (proxmox.py:578) or a deadline that
passes, counts as failed, and its images are deleted while it may be importing
them (provisioner.py:835; the comment at provisioner.py:25 has the deadline in
mind).

Two runs are enough for each: a property is about a run and one other that
shares its id, its name or its storage. Two ids allow both the shared and the
distinct case. The theorems have neither bound. Fairness (`retry`)
is weak fairness of a run's steps and of the host's steps for it; failing
and crashing are never fair. Deadlock is not checked: all runs end.

### Deprovisioning: `Deprovisioning`, `MCDeprovisioning`

Runs of `deprovision_node`/`deprovision_vm`, from the CLI (with its prompt) and
from the Ansible module (with its own look-up first), against VMs that others
start, stop and create meanwhile. A run keeps of its VM the id and the status
that were listed. In the model it remembers the VM (`chosen`) and works
with its id only (`IdOf`), so that a property can compare the VM that was
meant with the one that has the id now.

| Model | Code |
|---|---|
| `Check` | the look-up of `run_deprovision`, which answers "absent" without a change |
| `List`, `Listed`, `FirstOp` | `deprovision_node`, `deprovision_vm`: list, match, branch on the listed status |
| `Confirm` | the prompt of `deprovision --vm-name` and `--vm-id` |
| `Succeeds`, `Fails`, `LooksFailed` | `_stop_and_delete_vm`: shutdown, hard stop if that failed, delete |
| `Accept`, `GoesDown`, `DoesNotGoDown`, `Stopped`, `Deleted`, `TaskFails` | the host, which knows VMs by id; a hard stop overrules a shutdown under way |
| `Toggle`, `Create` | others |

| Run | Question | Shows |
|---|---|---|
| `deprov` | a CLI run by name and an Ansible run by id, three VMs of which two share a name, two ids; either outcomes go unseen or freed ids are given again | True means the VM is gone; only VMs that were asked for are deleted where ids are not given again; where outcomes are seen, a hard stop follows only a failed shutdown, and False means nothing is deleted then or later; every run ends or waits for the user |

Fairness is as in `Provisioning`; nobody has to answer the prompt. Where a freed
id is given again, the delete takes the VM that has it then: the id was read
before the prompt. The two fault
sets are apart because each switches one condition off; the other faults
("refused", "error", "hung") occur in both or in the first.

### Hypervisor store: `HypervisorStore`, `MCHypervisorStore`

`ArcaneCreatorConfig` keeps the user's hypervisors in each process's memory
(`mem`), in the YAML file (`file`) and, for credentials, in the system keyring
(`keyring`). A TUI process adds, edits and removes; a CLI process fills in
missing names. Each reads the file when it starts and writes its whole list.
`told` is what the user was last told: added, and not edited or removed since.

| Model | Code |
|---|---|
| `Start`, `Exit` | `from_fs`; the end of a process, at any step if "crash" |
| `Add`, `AlreadyThere`, `Stored`, `NotStored`, `Return` | `hypervisor_callback` and `add_hypervisor`, with `PasswordSetError` |
| `Remove`, `Forget` | `del_hypervisor_callback` and `remove_hypervisor` |
| `Update` | `edit_hypervisor_callback` and `update_hypervisor`: a removal and an add |
| `Write`, `Torn`, `SetPage` | `write`, which truncates before it writes; `update_default_page` |
| `Backfill` | `_backfill_hypervisor_names` of the CLI |

| Run | Question | Shows |
|---|---|---|
| `store` | a TUI and a CLI process, from everything that can go wrong to nothing | no entry ever leads to another hypervisor's credential; with crashes alone what was added is stored and readable; a secret the keyring takes is never on disk; with no failure, none stays behind in the keyring |

Two hypervisors give a pair to mix up. Three references allow an add, an edit
and another add where processes take turns; where they run at once (`race`)
the constraint `FewReferences` stops at the third. Hypervisors and references
are symmetric (invariants only). Known behaviour that `AddedIsStored` leaves
out: a retry after a refused credential finds the entry that was kept and
answers True with nothing stored (hypervisor.py:122); a CLI process that writes
names drops what the TUI added since it read the file (`__main__.py:110`); a
write that is cut off leaves an empty file (hypervisor.py:114). And that the
other properties leave out: a credential the keyring refuses stays in the list
in the clear, and the next write puts it on disk (hypervisor.py:131, against
docs/keyring.md:16); a removal is never written to the file, so that the next
start lists the hypervisor again, without its credential (hypervisor.py:147).

### TPM keyring: `Keyring`, `TpmKeyring`, `MCTpmKeyring`

`Keyring` is what callers of a keyring backend can rest on. Each key has a home
(`Home`), and the keys of one home have one secret, which only a set or a delete
of one of them touches. A set that fails may have lost the old secret; one that
returns has put its own; a get answers what is there.

`TpmKeyring` runs the calls as the TPM commands `tpm_keyring.py` sends, with the
commands of other processes in between. `at` is the command a caller is about
to run, `nv` the NV indices, each undefined, defined and unwritten, or holding
a secret. Its refinement mapping reads a key's secret off its index; the home of
a key is its hash (`SlotOf`).

| Model | Code |
|---|---|
| `Call`, `Return` | `get_password`, `set_password`, `delete_password` |
| `Lookup`, `NotFound` | `tr_from_tpm_public` and its not-found codes |
| `Read`, `Define`, `Undefine`, `Redefine`, `Write` | the NV commands of the three calls |
| `Fails` | `_check_rc`, a password over `_NV_SIZE`, a killed caller |
| `IndexFor` | `_nv_index_for` |

| Run | Question | Shows |
|---|---|---|
| `tpm` | two processes, three keys, two of them on one index, with and without faults | `TpmKeyring` implements `Keyring`; without faults an unwritten index has a writer on its way |

`_nv_index_for` takes a hash modulo sixteen, so two keys can share an index, and
nobody can arrange that they do not: the user names of the keys are fresh uuids.
A set or a delete of one then takes the other's secret, and a get of one answers
the other's. The docstring says otherwise ("Each service+username pair is stored
in a separate NV index", tpm_keyring.py:13-14). The contract says what is true in
any case: the keys of one index have one secret, and no other key is touched.
Two processes are a pair for every pair of commands; one of the three secrets is
too long.

### The Proxmox page: `SyncAll`, `MCSyncAll`

The page shows the fluxnodes a hypervisor can run in a table, filled by a worker
when a hypervisor is selected. "Sync All" is a worker of the app that provisions
the free rows one after another, each under a modal info screen that counts its
progress messages, with an optional countdown in between. Everything runs on
Textual's event loop; what interleaves is the code between awaits, and what is
shared is `self.provisioner`, `self.cluster_step`, the table and the stack of
screens. Enter on one row is a Sync All of one node.

| Model | Code |
|---|---|
| `populate`, `provisioner`, `clusterStep`, `table` | the populate worker of each hypervisor, and the attributes and widget it sets at different awaits |
| `stack` | the app's screens; an info screen with its counters |
| `sync`, `job` | the locals of `provision_all_nodes` and where it waits; its `provision_node` worker |
| `Select`, `Connected`, `NotConnected`, `ShowCluster`, `Discover`, `NotDiscovered` | `on_select_changed`, `populate_hypervisor_api` |
| `Begin`, `Submit`, `Cancel`, `UserOk`, `Back`, `OpenTable` | the user's keys and buttons; `Submit` runs up to the pushed info screen |
| `Start`, `StopOnError`, `Delay`, `NoDelay`, `DelayEnds`, `DelayCancelled` | `provision_node_callback` and `provision_all_nodes` from one await to the next |
| `Report`, `Fail`, `Succeed`, `UpdateCallback` | the worker and the progress callback |

| Run | Question | Shows |
|---|---|---|
| `sync` | a standalone host and a cluster that share one of three configurations; no fault, or one of four | jobs run on the table's hypervisor, marks and info screens are true, an error stops the Sync All, only its own screens are popped, and it ends |
| `sync_dismiss` | the user clicks Ok during a countdown | **violated**: after the second node the table is popped too (arcane_mage.py:233) |

The faults are a user who does not wait for the table ("overlap"), one who
dismisses an info screen while the Sync All goes on ("dismiss"), a cluster
status that cannot be read ("unreadable") and nodes whose VMs cannot be listed
("unlisted"). Each property names those it does not survive, and these are the
code's behaviour: with "overlap" a row of one hypervisor is provisioned on
another, the wrong table is marked, or `update_cell` ends the app; with
"unreadable" a standalone host's info screen waits for a step that never comes.

Three configurations are the fewest with a countdown that is neither the first
nor after the last; one reported step, and the cluster's, suffice to count one
too few and one too many. With "overlap", `FewVms` stops at two VMs. There is
one Sync All at a time: two quick clicks would start two. Fairness is that of the
event loop for `provision_all_nodes` and its job, which ends by
`TaskWait`'s `WaitEnds`; the user need not do anything, and a table may be
filled for ever. The app may stop (`Die`), so deadlock is not checked.

### The hypervisor form: `HypervisorForm`, `MCHypervisorForm`

`AddHypervisorScreen`, in which a connection is typed, validated against its
host and saved. The watchers of `form_valid` and `hypervisor_valid` set the
buttons only when their value changes, which is why the buttons are state of
their own (`canValidate`, `canSave`) and not functions of the fields. A
validation is a worker (`worker`) that tries the connection the fields had when
it began; nothing stops the user from typing, or from starting another.
`found` is what a validation has found good: it exists for the property only.

| Model | Code |
|---|---|
| `TypeUrl`, `TypeCreds`, `Typed` | `on_input_changed` and `watch_form_valid` |
| `PickAuth` | `on_select_changed` |
| `SetValid` | `watch_hypervisor_valid` |
| `Validate`, `Ticket`, `Nodes`, `Fail` | `validate_hypervisor` from one await to the next |
| `Save`, `Cancel` | the buttons that dismiss the screen |

| Run | Question | Shows |
|---|---|---|
| `form_stale` | a token for one of two hosts, typed or edited, one validation at a time | **violated**: an answer enables Save over whatever is in the fields by then |

### The FAT image: `FatEntry`, `FatImage`, `MCFatImage`

`FAT12Writer` puts the node's config onto the small disk image the installer
reads. `FatEntry` is the packing of table entries into bytes; `FatImage` is
`write_file`: slots for the long name, free clusters, data, chain, directory. The
tables are bytes, at their offsets, because that is where entries meet. What a
reader finds (`LongName`, `Holds`) is written from the FAT format.

| Model | Code |
|---|---|
| `Offset`, `ReadEntry`, `Pack`, `WriteEntry` | `_read_fat_entry`, `_write_fat_entry` |
| `FatType`, `Clusters`, `FirstDataSector` | the properties of `BootSector` |
| `FreeRuns`, `FirstRun`, `FindFreeClusters` | the search of `write_file` for slots, `_find_free_clusters` |
| `WriteData`, `UpdateChain`, `Entries` | the loop of `write_file` over the clusters, `_update_fat_chain`, `_create_lfn_entries` and the short entry |
| `WriteFile` | `write_file`: all of the image or, where it raises, nothing |

| Run | Question | Shows |
|---|---|---|
| `image` | up to two files onto four small volumes, each fresh or with a file in any clusters and any slot, deleted slots before it | each file is read back, in every copy of the table, and the old one with it; what has room is written, except into one cluster |

Sectors of two bytes and entries of one sector keep `root_entries` sectors of
directory; the limit of FAT12 is 7 clusters instead of 4085, so that both
formats and a volume that ends before, at and after the search for clusters
occur. Entries of odd and even clusters, chains across both, and files of none,
part of one, exactly one and several clusters are among them. 

Room (`HasRoom`) is what the FAT format says it is, the clusters up to
`LastCluster` with entry 0, and the code's search (`SearchEnd`) differs from it at
both ends. On the largest volume of a type, 4084 clusters of FAT12 or 65524 of
FAT16, the last cluster is number 4085 or 65525, which `range(2, 4085)` or
`range(2, 65525)` never tries (fat_writer.py:200): a write that needs it is refused
with "Not enough free space". `Usable` leaves out that one cluster, and nothing
else. On a volume of fewer than 4083 (65523) clusters the search goes on past the
end: the shipped image has 2036, and when full is handed clusters beyond it
(`overrun`), where these properties stop and of which none of them says anything.
An empty file on a full image raises `IndexError`. The 8.3
name, its checksum and the time stamp are opaque.

### The commands: `Preflight`, `IsoRefresh`, `Commands`, `MCCommands`

One-shot processes: `provision`, `deprovision`, `validate` and `refresh-iso` of
the CLI, and the Ansible modules `provision`, `deprovision` and `iso_info`. What
the library does within one call is the modules' above; here a VM is made or
deleted in one step whose outcome may not be seen, and the subject is what
surrounds it: the checks, which of them read, the loop over the configs, the
look-up before and after, and what is told in the end (`report`). After the
create come the cleanup of the images and, if the config asks for it, the start:
each may be seen to fail, and then the config has failed although its VM is there.
So `made` are the VMs a command has created and `ready` those it has also cleaned
up after and started; `up` are the VMs that run. A world
(`world`) fixes the commands, the host, the VMs and files there are and the
faults. `Preflight` has the checks as predicates, `IsoRefresh` the commands
that stage the ISO, each download a task of the host.

| Model | Code |
|---|---|
| `ValidateStorage`, `ValidateIso`, `ValidateNetwork`, `ValidateMember`, `NameUnused`, `IsApiMinVersion` | the `validate_*` of `Provisioner` and `is_api_min_version` |
| `Check`, `Checked`, `After` | `provision_node` up to the network check, and `run_validate`, which goes through to the end |
| `Allocate`, `NoIdGiven`; `Create`, `CreateFails`; `CleanUp`, `CleanUpFails`; `Start`, `StartFails` | the rest of `provision_node`: the id, the uploads with the create, `delete_install_disks`, `start_vm` |
| `Provisioned` | `provision_node` returns True |
| `Exists`, `ReadId` | the module's look-up before and after |
| `Prompt`, `List`, `Destroy`, `DestroyFails` | `run_deprovision` and the module, over `deprovision_node` |
| `ConfigDone` | the loops over configs and the exit code |
| `FeedAnswers`, `FeedIsUseless`, `FeedIsBusy` | `do_http` on the release feed, and its tries |
| `LookForIso`, `FetchSums`, `RequestDownload`, `AwaitDownload` | `refresh_iso`; `iso_info` without the sums |
| `Download` | the host |
| `Crash` | a killed process, or an exception that escapes |

| Run | Question | Shows |
|---|---|---|
| `commands` | two commands about VMs, at once or in turn; two ISO commands, or one and a provisioning; one command on hosts of thirty kinds | nothing is made on a host that fails a check, and `validate` says exactly which hosts do; one VM per name wherever something looks for the name; reports and exit codes say what was done; success of a refresh leaves the release's ISO; every command ends |

Two processes are enough for a pair that meets on a name, an id or a file; two
configs for "all" and "the last" to differ; three ids for one VM more than there
are names; two hosts for a name on another. Both hosts answer alike. The three
tries are `do_http`'s. The 515,000 states take about two minutes.
Fairness: a process that has begun goes on, the prompt is answered, the host
works through its tasks. Commands end, so deadlock is not checked.

A provision that fails has not provisioned every config, but it may have made every
VM: `delete_install_disks` or `start_vm` was seen to fail after the create
(provisioner.py:843-845, 854-856). `ReportIsTrue` says both, and that without
faults and without another command that deletes, failure means a VM that was not made.

Known behaviours that the properties leave out: where the list of VMs cannot be
read, the provision module takes the VM for absent, and on a standalone host
makes a second one (plugins/modules/provision.py:461), of whose id it may then
report the older; a file whose name ends with the ISO's is taken for it, and by
`iso_info` whatever its content type; an ISO that `iso_info` staged unchecked
makes every later `refresh-iso` find it there (plugins/modules/iso_info.py:131).

## Proofs

### `ProvisioningProofs`

For every set of runs, configs and ids and under every fault:

* `TypeCorrect`: the type invariant.
* `Inductive`: `ProvisioningInv`, the strengthening the rest needs. `RunOK` tells
  how far a run has got from its own tasks (`DoneBefore`): what it believes to
  have ended OK has. `HostOK` ties those tasks to the VM of the run's id and to
  its images, `VmOK` a running VM to the start of the run that owns it. None of
  `SuccessIsTrue`'s conjuncts is inductive without these: that a VM is one's own
  rests on the create's task, which rests on the id having been free.
* `Truthful`: `SuccessIsTrue`, from `ProvisioningInv` alone.
* `OwnInductive`, `OwnConfig`: under distinct configured ids
  (`DistinctPinnedIds`), whatever bears an id (image, disk, VM) comes from the
  config with that id; hence `OwnImages`.
* `NoForeignDeletes`: under the same assumption and one run of each config, no
  run deletes an image another run's create still needs.
* `Refinement`: under distinct configured ids, `Provisioning` implements
  `VmRegistry`. `nextid_race` shows why the assumption is needed.
* `SeenInductive`: `SeenInv`, which adds to `ProvisioningInv` what the promises
  about seen outcomes need. A run has none of the tasks it has not come to; what
  bears its name is at its own id and from its own upload or create; the runs of a
  config follow one another (`Serial`); and while outcomes are seen nothing runs
  on behind a run, so what failed stays failed and what was deleted deleted.
* `LeavesNothing` (`NothingLeftBehind`) and `FailureLeaves`
  (`FailureLeavesNoVm`) follow, shared ids included.
* `CreateFindsImages`: `SeenCreateKeepsImages`, under distinct configured ids and
  for any number of runs of a config, which `Serial` keeps apart.
* `OneVm`: `OneVmPerNode`, where no process dies (`NoCrash`), because then every run
  of a config works with the id written into it (`OneIdInv`); after a crash the
  config is read again without it, and nothing is claimed.

Each induction has one step per action; the assumptions on the constants are
`ProvisioningAssumption`.

### `DeprovisioningProofs`

For any runs, VMs and ids. Three lemmas say what a run's, the host's and the
others' steps do (`RunEffect`, `HostEffect`, `OthersEffect`); the inductions
rest on these.

* `Inductive`: `DeprovisioningInv`. One VM at an id at a time; the VM a run chose
  is one it was asked for; a delete that ended OK made that VM go. The first
  part is what links an id, all the host knows, to a VM.
* `Truthful`: `TrueMeansGone`, even where ids are given again: an OK delete may
  take another VM, but then the one that was meant is gone already.
* `HardStopLast`, `Kept`: `HardStopIsLast` and `FalseMeansKept`, with `SeenInv`
  added: a task the run has given up on has ended.
* `TypeCorrect`: the type invariant.
* `OnlyAsked`: `KeptIdsOnlyAskedDeleted`, with `NoReuse` added: two VMs never
  have had one id, so that the VM at the run's id is the one it chose.

### `HypervisorStoreProofs`

For any number of processes, hypervisors and references, under every fault:
`Inductive` (`StoreInv`: each reference in a list or in the file was made once,
for its entry's hypervisor), `NoMixUp` (`NeverAnothersSecret`) and
`TypeCorrect`. `Effect` says what any step may do to the stores; the invariant
needs no more than that, whichever process wrote last. The others assume away
only the faults their property does:

* `KeptInductive` (`KeptInv`: a credential is where `use_keyring` says, in every
  list and in the file, unless the keyring refuses one) gives `OffDisk`
  (`TakenSecretStaysOffDisk`).
* `OneAtATime` (`SoloInv`): without a race, processes take turns.
* `Added` (`AddedIsStored`): `AddedInv` says of the running process that what the
  user was told is in its list too, and that its list is ahead of the file only
  while it writes; so a removal that is never written loses nothing else, and the
  answer "already there" is true of the file.
* `NoStray` (`NoStraySecret`): `RefInv` says that the running process refers to
  whatever is in the keyring, so that no write drops a reference.

### `TpmKeyringProofs`

For any callers, keys and indices: `Inductive` (`TpmInv`: a caller is at a
command of its own pending call), `TypeCorrect`, `Transient`
(`UnwrittenIsTransient`), and `Refinement`: whichever keys the hash gives one
index, `TpmKeyring` implements `Keyring`, with callers at once and under every
fault.
`StepEffect` is the step of one caller as the mapping sees it: nothing, a
loss, a put, a delete, an answer or a failure.

### `SyncAllProofs`

For any hypervisors, configurations, number of steps and sets of faults; the
assumption on the constants is that the configurations in the file are those there
are, once each.

* `Inductive` (`SyncInv`) is about a user who waits: one table is filled at a time
  and not during a Sync All; the page's provisioner is the one being discovered,
  and else the table's, or the table has no free row (a connection that failed
  keeps the old provisioner, so the empty table is what keeps jobs off it); and a
  job belongs to a Sync All that goes on. `OnTheShownHypervisor`
  (`RightHypervisor`) and `MarksAreTrue` (`MarkedIsMade`) follow.
  `NeverPastAnUnmarked` (`InOrder`) adds that the node whose job is over is marked
  until the worker goes on, during a countdown and its cancellation too.
* `Typed` (`TypeInv`) and `TypesKept` (`TypeOK`), whatever the faults. The stack
  is never empty because its first screen is the app's own, which nothing but
  `Proceed` could pop and `Proceed` dies rather; a job has a hypervisor because
  a table has rows only after a connection.
* `Modals` (`ModalInv`): for a user who leaves the info screens alone, the stack
  is the app's screen, the welcome page, the table and at most one modal screen,
  which is the worker's own info screen whenever the worker is past the form. So
  every pop of the worker is of that screen: `OnlyInfosPopped` (`PopsOwnInfo`).
  With `RowsInv` (the nodes of a Sync All have their rows until it is over, so that
  `update_cell` does not raise) it gives `StaysIntact` (`AppIntact`).
* `Told` (`InfoInv`) and `TellsTheTruth` (`InfoTellsTruth`), also for a user who
  dismisses what he likes. `ClusterKnown` follows `cluster_step` from
  `show_cluster` to the screen that counts on it; `Tells` says that no screen is
  over an info screen and that the one on top has counted what its job has said,
  which is why a dismissed screen is never missed and a late one never
  miscounts.

TLC checked each of these invariants on the hypervisors of the run, with pairs of
faults too. The rows to provision are stated as the one sequence in the table's
order (`InTableOrder`), and the pages with their places (`Pages`), rather than with
`SelectSeq`, of which the prover has no definition.

### `TaskWaitProofs`

For any deadline and any latency: `Inductive` (`WaitInv`), `TypeCorrect`, `Honest`
(`TimeoutIsHonest`), `OnTime` (`WaitIsBounded`) and `Refinement` (`TaskWait`
implements `AwaitedTask`, under every fault). `SeenInv` ties what the client has
been told to the task as it is now: the status of a poll in flight was the task's
when it was read, and a task never runs again. `ClockInv` bounds how long the
exchange in flight has taken and how far the clock is past the deadline in each
phase, from which both properties of time follow; neither is inductive alone,
since an answer says nothing of when its poll was sent.

### `CommandsProofs`

For any number of processes, any commands, hosts, files and faults. Two
inductive invariants, both stated at the end of `Commands` so that TLC can
evaluate them too.

* `Inductive` (`CommandsInv`), `TypeCorrect` and `Stages` (`IsoIsStaged`).
  `StagedInv` is the argument: the storage only ever gains the ISO, a download
  that ended OK has left one there, and a refresh adds none without the release's
  sums. `PlacesInv` keeps each kind of command to its places, so that only a
  refresh has a checked download. `VmEffect` and `IsoEffect` say what a step of
  either half does to the other's state.
* `AllInductive` (`AllInv`), and from it `Preflights` (`PreflightIsExact`),
  `OneVm` (`OneVmPerName`) and `ReportsTruly` (`ReportIsTrue`). No property is
  inductive alone: a report is true because of what the command has been through,
  and that because of where it was. `CommandInv(p)` says it of one command: what
  is left of its configs is the rest of its batch (`OnRoute`), the checks behind
  its place have been met and stay met (`Preflighted`), what it looked for or
  listed is still so (`Looked`, `Listed`), and what it has made or deleted is
  what it will tell (`ProvisionSoFar` and its like). `Unfinished` is the VM between its create and
  the report of it; by `MadeSoFar` a command that has failed nothing, or to which
  nothing fails, has made that one and what is `ready`, and no other. `ApartInv`
  keeps the unfinished VMs of different commands apart where nothing is deleted:
  without it the start of one could find its VM started by the other. `TurnsInv` is the playbook
  that runs one command at a time, `NamesInv` the configured ids. Each lemma is
  about the step of one command: what it does to its own `CommandInv` (`CheckKeeps`,
  `MakerDone`, `DeleterDone` ...) and that the others' survive (`OthersKeep`).
  `VersionIsReached` relates `is_api_min_version`, part by part, to the order of
  versions.

`CommandsAssumption` says what configurations are: a module has one, a command
about VMs has some, and all but `validate` name the VM (`ArcaneOsConfig` of a
file that is only validated may lack its name). The VMs there to begin with have names.

The proof corrected two properties that hold in the run and not in general. With
a third command, an id that one command has listed can be freed by another
and taken by the third, so that what the first deletes bears another name: the
clause on `deprovision` now asks for `Undisturbed`. And a batch can name one VM
twice, or a cluster have two VMs of one name to begin with: the clause on a failed
`provision` counts the VMs it made, and `LooksFirst` says what it starts from.

### `FatImageProofs`

For any FAT12 or FAT16 volume, any files and any number of writes.

* `ReadsBack`: an entry of a table that is written is read back; `OthersKept`: no
  other entry changes, not even the one it shares a byte with. Both are arithmetic
  of quotients and remainders, by the parity of the clusters, and hold of the bytes
  `_write_fat_entry` writes whatever the rest of the writer does.
* `Copies` (`CopiesAgree`), from `TablesInv`: the views of the tables are equal. A
  write to one copy is a write to its view and leaves the other views
  (`WriteInCopy`), so that `_update_fat_chain` does to each what it does to the
  first (`ChainInAll`).
* `Room` (`RoomIsUsed`): the lowest of the free clusters the search sees are within
  the volume when there are enough of them (`LowestWithin`), the search sees every
  free cluster of the volume but the last of the largest (`Volume`), and a run of
  free slots is found when there is one (`RunsSeen`).
* `Found` (`FilesReadBack`). What a driver finds says nothing of why the next write
  leaves it alone. `FilesInv` does: each file has a place in the directory and a
  chain in the first table (`SlotsOk`, `ChainsOk`), no two chains share a cluster,
  the clusters have its bytes (`BytesOk`), every slot of a long or short name is
  some file's, and no slot is used after an end mark. A write takes clusters whose
  entries are 0, which no chain has since no link is 0 (`LinkIs`), and slots that
  are free; it keeps the three parts (`ChainsKept`, `BytesKept`, `SlotsKept`) and
  adds the new file's. `NamesSeen` is why a short entry without a long name does
  not get a neighbour's: the entry before it is the first of another file's, which
  would be at the same place.

`BootAssumption` is that a boot sector describes a FAT12 or FAT16 volume that has
room for its own tables, and tables with an entry for each cluster;
`FilesAssumption` that different files have different long names and the old one
an 8.3 name only. `LimitsAssumption` bounds the limits of the formats, which the
run scales down, by those of the code.

`Assign`, `ChainCopy`, `UpdateChain` and `WriteData` are recursive functions over
the clusters of a chain or the copies of the table, and the free clusters a set
that holds the one sequence of the lowest. That such a function has its values at
all is shown first (`LinksExist`, `CopiesExist`, `PartsExist`), and what it computes
by induction over its steps, as the least step that goes wrong: `LeastOf` gets it
from the well-foundedness of the order of the naturals, since the library's own
induction theorems have an operator as a parameter.

### Only model-checked

Every invariant and every action property of a passing run is stated by a theorem.
TLC alone checks what is live: `WaitEnds`, `RunsEnd` of `retry` and `deprov`,
`SyncEnds` and `CommandsEnd` rest on fairness, which is out of TLAPS's reach. It
alone finds what a run expects to be violated. Of `HypervisorForm` nothing is proved:
its run is such a one.

## Not modelled, and why

* `status` and `ping` of the CLI and the module `status`: they only read. The
  check mode of the Ansible modules likewise.
* The choice of a connection from options, environment and stored hypervisors:
  sequential, and its outcome is one of the hosts of `Commands`.
* The configuration models: parsing and validation of YAML, sequential and
  covered by unit tests. Logging and password hashing keep no state.
* `do_http_iter`: nothing calls it.
* Wording of messages, layout and widgets, TLS and authentication.

