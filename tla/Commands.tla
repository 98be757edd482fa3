------------------------------ MODULE Commands ------------------------------
(***************************************************************************)
(* The commands of the CLI (__main__.py) and the Ansible modules: one-shot *)
(* processes on the hosts of one cluster, or on a standalone host, at once *)
(* or one after the other.  What the library does within provision_node    *)
(* and _stop_and_delete_vm is Provisioning's and Deprovisioning's; here a  *)
(* VM is made, cleaned up after, started or deleted in one step each,      *)
(* which may fail or not be seen to succeed.  A process reads its configs  *)
(* afresh: the id that a run wrote into one does not outlive it.           *)
(***************************************************************************)
EXTENDS IsoRefresh, FiniteSets

CONSTANTS VmIds, NoId, NoName

\* A world: the command of each process, whether they run one after the other
\* (serial), the VMs and files there are, the faults, and the site: what the
\* hosts say of themselves, the same for each.
\* A config: its name, host and id, the storages and network it asks for, and
\* whether its VM is to be started.
VARIABLES
  vm,       \* the VMs of all hosts, by id
  todo,     \* the configs each command has still to do
  target,   \* the id it is about to create or delete
  up,       \* the VMs that run
  made,     \* the VMs its requests made: pairs of name and id
  ready,    \* those whose images were deleted too and, if asked, that it started
  gone      \* the VMs its requests deleted

vmVars == <<vm, todo, target, up, made, ready, gone>>
vars == <<isoVars, vmVars>>

NoVm == [name |-> NoName, host |-> NoName]

Site == world.site
Batch(p) == Command(p).configs
Config(p) == Head(todo[p])
Named(name, host) == {v \in VmIds : vm[v].name = name /\ vm[v].host = host}

Init ==
  /\ world \in Worlds
  /\ at = [p \in Procs |-> "idle"]
  /\ report = [p \in Procs |-> [ok |-> TRUE, changed |-> FALSE, id |-> NoId]]
  /\ tries = [p \in Procs |-> 0]
  /\ files = world.files
  /\ download = [p \in Procs |-> "none"]
  /\ vm = [v \in VmIds |-> IF v \in DOMAIN world.vm THEN world.vm[v] ELSE NoVm]
  /\ todo = [p \in Procs |-> world.cmd[p].configs]
  /\ target = [p \in Procs |-> NoId]
  /\ up = DOMAIN world.vm
  /\ made = [p \in Procs |-> {}]
  /\ ready = [p \in Procs |-> {}]
  /\ gone = [p \in Procs |-> {}]

\* Where each kind of command begins, and goes back to for its next config.
First == [provision |-> "cluster", aProvision |-> "exists", validate |-> "cluster",
          deprovision |-> "prompt", aDeprovision |-> "exists",
          refresh |-> "feed", isoInfo |-> "feed"]
Again == [First EXCEPT !.deprovision = "list"]

Kinds == DOMAIN First \cup {"none"}
IsoPlaces == {"feed", "present", "sums", "request", "wait"}
ConfigPlaces == {"cluster", "name", "version", "storage", "iso", "network",
                 "allocate", "create", "clean", "start", "exists", "readId",
                 "prompt", "list", "destroy"}
Configs == UNION {UNION {{w.cmd[p].configs[i] : i \in DOMAIN w.cmd[p].configs} : p \in Procs} : w \in Worlds}

\* A command about VMs has configs to go through, a module's one, and whatever is
\* provisioned or deprovisioned has a name (vm_name, models/hypervisor.py:163).
ASSUME CommandsAssumption ==
  /\ MaxTries \in Nat \ {0}
  /\ NoId \notin VmIds
  /\ \A w \in Worlds :
       /\ w.site.version \in Seq(Int)
       /\ \A v \in DOMAIN w.vm : w.vm[v].name # NoName
  /\ \A w \in Worlds, p \in Procs :
       /\ w.cmd[p].kind \in Kinds
       /\ w.cmd[p].configs \in Seq(Configs)
       /\ w.cmd[p].kind \notin {"none", "refresh", "isoInfo"} => w.cmd[p].configs # <<>>
       /\ w.cmd[p].kind \in {"aProvision", "aDeprovision"} => Len(w.cmd[p].configs) = 1
       /\ w.cmd[p].kind # "validate" =>
            \A i \in DOMAIN w.cmd[p].configs : w.cmd[p].configs[i].name # NoName

TypeOK ==
  /\ at \in [Procs -> {"idle"} \cup IsoPlaces \cup ConfigPlaces \cup Ended]
  /\ report \in [Procs -> [ok : BOOLEAN, changed : BOOLEAN, id : VmIds \cup {NoId}]]
  /\ tries \in [Procs -> 0..MaxTries]
  /\ download \in [Procs -> {"none", "running", "ok", "error"}]
  /\ todo \in [Procs -> Seq(Configs)]
  /\ target \in [Procs -> VmIds \cup {NoId}]

Begin(p) ==
  /\ at[p] = "idle"
  /\ Kind(p) # "none"
  /\ world.serial => (\A q \in Procs \ {p} : at[q] \in {"idle"} \cup Ended)
  /\ Goto(p, First[Kind(p)])
  /\ UNCHANGED <<world, report, tries, files, download, vmVars>>

\* Mutant: the exit code is that of the last config.
LastDecides(p, ok) ==
  /\ todo' = [todo EXCEPT ![p] = Tail(@)]
  /\ report' = [report EXCEPT ![p].ok = ok]
  /\ Goto(p, IF Len(todo[p]) > 1 THEN Again[Kind(p)] ELSE "done")

\* Done with a config: every other one is tried, whatever became of it.
ConfigDone(p, ok) ==
  /\ todo' = [todo EXCEPT ![p] = Tail(@)]
  /\ report' = [report EXCEPT ![p].ok = @ /\ ok]
  /\ Goto(p, IF Len(todo[p]) > 1 THEN Again[Kind(p)] ELSE "done")

-----------------------------------------------------------------------------
(* The preflight of provision_node, and validate, which goes through it to
   the end *)

Clustered == Site.clustered /\ ~Site.forced

\* The name check is part of validate_cluster; validate may be given no name.
Checks == {"cluster", "name", "version", "storage", "iso", "network"}

Holds(p, check) ==
  LET c == Config(p)
  IN /\ check = "cluster" => (Clustered => ValidateMember(Site, c.host))
     /\ check = "name" => (c.name # NoName => NameUnused(vm, c.name))
     /\ check = "version" => IsApiMinVersion(Site.version)
     /\ check = "storage" => ValidateStorage(Site.storages, c.storage)
     /\ check = "iso" => ValidateIso(files, Iso)
     /\ check = "network" => ValidateNetwork(Site.bridges, c.network)

\* With force_standalone the host is not asked, and without a name no list is
\* read.
Reads(p, check) ==
  /\ check = "cluster" => ~Site.forced
  /\ check = "name" => Config(p).name # NoName

Following == [cluster |-> "name", name |-> "version", version |-> "storage",
              storage |-> "iso", iso |-> "network", network |-> "allocate"]

\* Mutant: the name is not looked for in the cluster.
AfterSkipsName(check, holds) == IF check = "cluster" THEN "version" ELSE Following[check]

\* validate_cluster ends where it fails, and on a standalone host.
After(check, holds) ==
  IF check = "cluster" /\ ~(Clustered /\ holds) THEN "version" ELSE Following[check]

\* validate notes the outcome and goes on; provision_node ends at the first
\* check that fails.
Checked(p, check, holds) ==
  IF Kind(p) = "validate"
  THEN IF check = "network"
       THEN ConfigDone(p, holds)
       ELSE /\ Goto(p, After(check, holds))
            /\ report' = [report EXCEPT ![p].ok = @ /\ holds]
            /\ UNCHANGED todo
  ELSE IF holds
       THEN Goto(p, After(check, holds)) /\ UNCHANGED <<report, todo>>
       ELSE ConfigDone(p, FALSE)

Check(p, check) ==
  /\ at[p] = check
  /\ \/ Checked(p, check, Holds(p, check))
     \/ Fault("unread") /\ Reads(p, check) /\ Checked(p, check, FALSE)
  /\ UNCHANGED <<world, tries, files, download, vm, target, up, made, ready, gone>>

-----------------------------------------------------------------------------
(* provision_node beyond its checks *)

\* The id is the config's, or one that is free; the CLI reports it whatever
\* becomes of the run.
Allocate(p) ==
  /\ at[p] = "allocate"
  /\ \E v \in VmIds :
       /\ IF Config(p).id = NoId THEN vm[v] = NoVm ELSE v = Config(p).id
       /\ target' = [target EXCEPT ![p] = v]
       /\ report' = IF Kind(p) = "provision" THEN [report EXCEPT ![p].id = v] ELSE report
  /\ Goto(p, "create")
  /\ UNCHANGED <<world, tries, files, download, vm, todo, up, made, ready, gone>>

NoIdGiven(p) ==
  /\ at[p] = "allocate"
  /\ Config(p).id = NoId
  /\ Fault("unread") \/ \A v \in VmIds : vm[v] # NoVm
  /\ ConfigDone(p, FALSE)
  /\ UNCHANGED <<world, tries, files, download, vm, target, up, made, ready, gone>>

\* A create needs a free id, and the ISO it names.
Create(p) ==
  LET c == Config(p)
      v == target[p]
  IN /\ at[p] = "create"
     /\ vm[v] = NoVm /\ Staged # {}
     /\ vm' = [vm EXCEPT ![v] = [name |-> c.name, host |-> c.host]]
     /\ up' = up \ {v}
     /\ made' = [made EXCEPT ![p] = @ \cup {<<c.name, v>>}]
     /\ \/ Goto(p, "clean") /\ UNCHANGED <<report, todo>>
        \/ Fault("unseen") /\ ConfigDone(p, FALSE)
     /\ UNCHANGED <<world, tries, files, download, target, ready, gone>>

CreateFails(p) ==
  /\ at[p] = "create"
  /\ Fault("error") \/ vm[target[p]] # NoVm \/ Staged = {}
  /\ ConfigDone(p, FALSE)
  /\ UNCHANGED <<world, tries, files, download, vm, target, up, made, ready, gone>>

\* The config is provisioned: the module goes on to read the VM's id.
Provisioned(p) ==
  /\ ready' = [ready EXCEPT ![p] = @ \cup {<<Config(p).name, target[p]>>}]
  /\ \/ Kind(p) = "aProvision" /\ Goto(p, "readId") /\ UNCHANGED <<report, todo>>
     \/ Kind(p) # "aProvision" /\ ConfigDone(p, TRUE)
     \/ Fault("unseen") /\ ConfigDone(p, FALSE)

\* The images go, and the VM is to be started or not.
CleanUp(p) ==
  /\ at[p] = "clean"
  /\ IF Config(p).start
     THEN /\ \/ Goto(p, "start") /\ UNCHANGED <<report, todo>>
             \/ Fault("unseen") /\ ConfigDone(p, FALSE)
          /\ UNCHANGED ready
     ELSE Provisioned(p)
  /\ UNCHANGED <<world, tries, files, download, vm, target, up, made, gone>>

\* What cannot be cleaned up is not started.
CleanUpFails(p) ==
  /\ at[p] = "clean"
  /\ Fault("error")
  /\ ConfigDone(p, FALSE)
  /\ UNCHANGED <<world, tries, files, download, vm, target, up, made, ready, gone>>

\* A start needs a VM of that id on the host, and one that does not run.
Startable(p) ==
  vm[target[p]] # NoVm /\ vm[target[p]].host = Config(p).host /\ target[p] \notin up

Start(p) ==
  /\ at[p] = "start"
  /\ Startable(p)
  /\ up' = up \cup {target[p]}
  /\ Provisioned(p)
  /\ UNCHANGED <<world, tries, files, download, vm, target, made, gone>>

StartFails(p) ==
  /\ at[p] = "start"
  /\ Fault("error") \/ ~Startable(p)
  /\ ConfigDone(p, FALSE)
  /\ UNCHANGED <<world, tries, files, download, vm, target, up, made, ready, gone>>

-----------------------------------------------------------------------------
(* The Ansible modules provision and deprovision look before they act *)

\* provision ends unchanged when the VM exists, deprovision when it does not.
\* To the first an unreadable list is no VM, to the second a failure.
Exists(p) ==
  LET c == Config(p)
      found == Named(c.name, c.host)
  IN /\ at[p] = "exists"
     /\ IF Kind(p) = "aProvision"
        THEN \/ \E v \in found :
                  /\ Goto(p, "done")
                  /\ report' = [report EXCEPT ![p].id = v]
             \/ (found = {} \/ Fault("unread")) /\ Goto(p, "cluster") /\ UNCHANGED report
        ELSE \/ found # {} /\ Goto(p, "list") /\ UNCHANGED report
             \/ found = {} /\ End(p, TRUE, FALSE)
             \/ Fault("unread") /\ End(p, FALSE, FALSE)
     /\ UNCHANGED <<world, tries, files, download, vmVars>>

\* A VM of that name, or none when the list cannot be read.
ReadId(p) ==
  LET found == Named(Config(p).name, Config(p).host)
  IN /\ at[p] = "readId"
     /\ \E v \in found \cup {NoId} :
          /\ v = NoId => found = {} \/ Fault("unread")
          /\ Goto(p, "done")
          /\ report' = [report EXCEPT ![p].id = v, ![p].changed = TRUE]
     /\ UNCHANGED <<world, tries, files, download, vmVars>>

-----------------------------------------------------------------------------
(* deprovision *)

\* Confirmed once, for all of the configs.
Prompt(p) ==
  /\ at[p] = "prompt"
  /\ Goto(p, "list") \/ Goto(p, "done")
  /\ UNCHANGED <<world, report, tries, files, download, vmVars>>

List(p) ==
  LET found == Named(Config(p).name, Config(p).host)
  IN /\ at[p] = "list"
     /\ \/ \E v \in found :
             /\ target' = [target EXCEPT ![p] = v]
             /\ Goto(p, "destroy")
             /\ UNCHANGED <<report, todo>>
        \/ (found = {} \/ Fault("unread")) /\ ConfigDone(p, FALSE) /\ UNCHANGED target
     /\ UNCHANGED <<world, tries, files, download, vm, up, made, ready, gone>>

\* The module says that it has changed something.
Destroyed(p) ==
  IF Kind(p) = "aDeprovision" THEN End(p, TRUE, TRUE) /\ UNCHANGED todo ELSE ConfigDone(p, TRUE)

Destroy(p) ==
  LET v == target[p]
  IN /\ at[p] = "destroy"
     /\ vm[v] # NoVm
     /\ vm' = [vm EXCEPT ![v] = NoVm]
     /\ up' = up \ {v}
     /\ gone' = [gone EXCEPT ![p] = @ \cup {<<vm[v].name, v>>}]
     /\ Destroyed(p) \/ (Fault("unseen") /\ ConfigDone(p, FALSE))
     /\ UNCHANGED <<world, tries, files, download, target, made, ready>>

DestroyFails(p) ==
  /\ at[p] = "destroy"
  /\ Fault("error") \/ vm[target[p]] = NoVm
  /\ ConfigDone(p, FALSE)
  /\ UNCHANGED <<world, tries, files, download, vm, target, up, made, ready, gone>>

-----------------------------------------------------------------------------
\* Killed, or an exception that escapes: an exit code that is not 0.
Crash(p) ==
  /\ Fault("crash")
  /\ at[p] \notin {"idle"} \cup Ended
  /\ Goto(p, "dead")
  /\ report' = [report EXCEPT ![p].ok = FALSE]
  /\ UNCHANGED <<world, tries, files, download, vmVars>>

CommandStep(p) ==
  \/ IsoStep(p) /\ UNCHANGED vmVars
  \/ \E check \in Checks : Check(p, check)
  \/ Allocate(p) \/ NoIdGiven(p) \/ Create(p) \/ CreateFails(p)
  \/ CleanUp(p) \/ CleanUpFails(p) \/ Start(p) \/ StartFails(p)
  \/ Exists(p) \/ ReadId(p)
  \/ Prompt(p) \/ List(p) \/ Destroy(p) \/ DestroyFails(p)

HostStep(p) == Download(p) /\ UNCHANGED vmVars

Next == \E p \in Procs : Begin(p) \/ CommandStep(p) \/ HostStep(p) \/ Crash(p)

Spec == Init /\ [][Next]_vars

\* A process that has begun goes on, the prompt is answered, and the host works
\* through its tasks; nobody has to begin a command, and nothing has to fail.
FairSpec == Spec /\ \A p \in Procs : WF_vars(CommandStep(p)) /\ WF_vars(HostStep(p))

-----------------------------------------------------------------------------
(* Properties *)

ConfigsOf(p) == {Batch(p)[i] : i \in DOMAIN Batch(p)}

VersionReached(v) ==
  Len(v) = 3 /\ (v[1] > 8 \/ (v[1] = 8 /\ (v[2] > 4 \/ (v[2] = 4 /\ v[3] >= 1))))

Fits(c) ==
  /\ Clustered => ValidateMember(Site, c.host)
  /\ VersionReached(Site.version)
  /\ ValidateStorage(Site.storages, c.storage)
  /\ ValidateNetwork(Site.bridges, c.network)

\* The command is all there is.
NothingElse(p) == world.faults = {} /\ \A q \in Procs \ {p} : Kind(q) = "none"

(* A VM is made only on a host that passes every check of provision_node, its
   version 8.4.1 or later in the order of versions (is_api_min_version); and
   validate, with nothing else going on, says exactly whether the hosts pass
   for every config, whichever of the checks it is that fails and in whatever
   order they are made (provisioner.py:743-782, __main__.py:547-591). *)
PreflightIsExact ==
  \A p \in Procs :
    /\ \A m \in made[p] : \E c \in ConfigsOf(p) : c.name = m[1] /\ Fits(c)
    /\ Kind(p) = "validate" /\ at[p] = "done" /\ NothingElse(p)
         => (report[p].ok <=> \A c \in ConfigsOf(p) :
                                /\ Fits(c) /\ ValidateIso(files, Iso)
                                /\ Clustered /\ c.name # NoName => NameUnused(vm, c.name))

\* Every config of the name asks for one id, and no VM has the name but with it.
PinnedTo(name, v) ==
  /\ \A p \in Procs : \A c \in ConfigsOf(p) : c.name = name => c.id = v
  /\ \A w \in DOMAIN world.vm : world.vm[w].name = name => w = v

Pinned(name) == \E v \in VmIds : PinnedTo(name, v)

\* One after the other, no name borne twice to begin with, and looking for the
\* name each time: in the cluster, or on its host with the Ansible module's list,
\* when it can be read.
LooksFirst(host1, host2) ==
  /\ world.serial
  /\ \A x, y \in DOMAIN world.vm : world.vm[x].name = world.vm[y].name => x = y
  /\ \/ Clustered
     \/ host1 = host2 /\ ~Fault("unread") /\ \A p \in Procs : Kind(p) # "provision"

(* No two VMs bear one name, however often and by whichever command it is
   provisioned, with outcomes unseen and processes that die: unless two
   commands run at once, or on a standalone host nothing looks for the name,
   which is the CLI and a module that could not list the VMs
   (provisioner.py:283, plugins/modules/provision.py:461).  Under a configured id there
   is never a second. *)
OneVmPerName ==
  \A v, w \in VmIds :
    /\ vm[v] # NoVm /\ vm[v].name = vm[w].name
    /\ LooksFirst(vm[v].host, vm[w].host) \/ Pinned(vm[v].name)
    => v = w

Makes(p) == Kind(p) \in {"provision", "aProvision"}
Deletes(p) == Kind(p) \in {"deprovision", "aDeprovision"}

\* No id that the command has listed can be given again before it deletes it:
\* one that another command deletes and a third takes.
Undisturbed(p) ==
  \/ world.serial
  \/ \A q \in Procs \ {p} : ~Deletes(q)
  \/ \A q \in Procs : ~Makes(q)

\* Every task succeeds and is seen to, as far as the host lets it.
NothingFails(p) == ~Fault("error") /\ ~Fault("unseen") /\ Undisturbed(p)

\* What a command that is done tells of what it did.
Told(p) ==
  LET r == report[p]
      all == {c.name : c \in ConfigsOf(p)}
  IN /\ Kind(p) = "provision" =>
          /\ r.ok => made[p] = ready[p] /\ {m[1] : m \in ready[p]} = all
          /\ ~r.ok /\ ~Fault("unseen") => Cardinality(ready[p]) < Len(Batch(p))
          /\ ~r.ok /\ NothingFails(p) => Cardinality(made[p]) < Len(Batch(p))
     /\ Kind(p) = "deprovision" /\ Undisturbed(p) =>
          (r.ok => gone[p] = {} \/ {m[1] : m \in gone[p]} = all)
     /\ Kind(p) = "aProvision" =>
          /\ r.ok => made[p] = ready[p] /\ (r.changed <=> made[p] # {})
          /\ ~r.ok /\ ~Fault("unseen") => ready[p] = {}
          /\ ~r.ok /\ NothingFails(p) => made[p] = {}
          /\ r.ok /\ r.changed /\ r.id # NoId =>
               \A m \in made[p] : \A c \in ConfigsOf(p) :
                 LooksFirst(c.host, c.host) \/ Pinned(m[1]) => r.id = m[2]
     /\ Kind(p) = "aDeprovision" =>
          /\ r.ok => (r.changed <=> gone[p] # {})
          /\ ~r.ok /\ ~Fault("unseen") => gone[p] = {}
     /\ Kind(p) \in {"refresh", "isoInfo"} /\ r.ok => (r.changed <=> download[p] # "none")

(* What a command tells is what it did.  Exit code 0 of the CLI means all of its
   configs, and not only the last: their VMs made, cleaned up after and, where
   asked, started, or deleted if the prompt was not declined.  Another, with
   outcomes seen, means that not all of them were provisioned; it does not mean
   that a VM was not made, unless no task fails and nobody else deletes VMs: the
   cleanup or the start may have failed after the create (provisioner.py:843-845,
   854-856).  A module's "changed" means that it made or deleted, its "ok" without
   that means that it did not; the id it gives is the id of the VM it made, as far
   as names are unique (OneVmPerName).  A provision module that fails says nothing
   of having changed anything, and may have left its VM in the same way
   (__main__.py:251-296, plugins/modules/provision.py:472-483,576). *)
ReportIsTrue == \A p \in Procs : at[p] = "done" => Told(p)

\* A file on the storage that a command takes for the ISO, and is not.
Misleads(p, f) ==
  /\ EndsWith(f.name, Iso)
  /\ f.name # <<Iso>> \/ f.content # "iso"
  /\ Kind(p) = "refresh" => f.content = "iso"

(* A refresh that reports success leaves the ISO on the storage, and one with the
   release's sums unless a download without them went on (iso_info gives none) or
   the storage had another to begin with: whatever the mirror sends, whatever cannot
   be read, and with another refresh at the same time (provisioner.py:379-401). *)
IsoIsStaged ==
  \A p \in Procs :
    /\ at[p] = "done" /\ report[p].ok
    /\ Kind(p) = "refresh" \/ (Kind(p) = "isoInfo" /\ Command(p).download)
    /\ \A f \in world.files : ~Misleads(p, f)
    => /\ Staged # {}
       /\ (\A q \in Procs : Kind(q) # "isoInfo") /\ (\A f \in world.files : f.good)
            => \A f \in Staged : f.good

(* Every command that has begun ends: each feed try is one of three, a wait ends with
   its task, and no config is gone through twice (do_http, helpers.py:162-214). *)
CommandsEnd == \A p \in Procs : at[p] # "idle" ~> at[p] \in Ended

-----------------------------------------------------------------------------
(* The inductive invariant behind the theorems (CommandsProofs) *)

\* Every command is where its kind goes, with configs and tries left.
PlacesInv ==
  \A p \in Procs :
    /\ Kind(p) \in Kinds
    /\ at[p] = "idle" /\ Kind(p) \notin {"none", "refresh", "isoInfo"} => todo[p] # <<>>
    /\ at[p] \in ConfigPlaces => todo[p] # <<>>
    /\ at[p] = "idle" => tries[p] = 0
    /\ at[p] \in IsoPlaces => Kind(p) \in {"refresh", "isoInfo"}
    /\ at[p] \in ConfigPlaces => Kind(p) \notin {"none", "refresh", "isoInfo"}
    /\ at[p] = "feed" => tries[p] < MaxTries
    /\ download[p] # "none" => Kind(p) \in {"refresh", "isoInfo"}

\* What is on the storage was there before, or is the ISO; and what a command
\* rests on when it says that the ISO is.
StagedInv ==
  /\ \A f \in files : f \in world.files \/ (f.content = "iso" /\ f.name = <<Iso>>)
  /\ (\A q \in Procs : Kind(q) # "isoInfo") /\ (\A f \in world.files : f.good)
       => \A f \in Staged : f.good
  /\ \A p \in Procs :
       /\ download[p] = "ok" => Staged # {}
       /\ at[p] = "present" => Kind(p) = "refresh" \/ Command(p).download
       /\ /\ at[p] = "done" /\ report[p].ok
          /\ Kind(p) = "refresh" \/ (Kind(p) = "isoInfo" /\ Command(p).download)
          /\ \A f \in world.files : ~Misleads(p, f)
          => Staged # {}

CommandsInv == TypeOK /\ PlacesInv /\ StagedInv

\* A command is under way; without the others, when commands take turns.
Active(p) == at[p] \notin {"idle"} \cup Ended
TurnsInv == world.serial => \A p, q \in Procs : Active(p) /\ Active(q) => p = q

\* The configs a command has been through; todo is the rest of its batch.
Through(p) == Len(Batch(p)) - Len(todo[p])
Over(p) == {Batch(p)[i] : i \in 1..Through(p)}

\* Where each kind of command about VMs goes.
Route == [provision |-> Checks \cup {"allocate", "create", "clean", "start"},
          aProvision |-> Checks \cup {"exists", "allocate", "create", "clean", "start", "readId"},
          validate |-> Checks,
          deprovision |-> {"prompt", "list", "destroy"},
          aDeprovision |-> {"exists", "list", "destroy"}]

OnRoute(p) ==
  at[p] # "dead" /\ Kind(p) \in DOMAIN Route =>
    /\ at[p] \in {"idle", "done"} \cup Route[Kind(p)]
    /\ at[p] = "name" => Clustered
    /\ Len(todo[p]) <= Len(Batch(p))
    /\ \A i \in 1..Len(todo[p]) : todo[p][i] = Batch(p)[Through(p) + i]
    /\ at[p] = "idle" => Through(p) = 0
    /\ Kind(p) \in {"provision", "validate"} /\ at[p] = "done" => Over(p) = ConfigsOf(p)

\* What a check says of a config, and the checks behind each place.
Met(c, check) ==
  /\ check = "cluster" => (Clustered => ValidateMember(Site, c.host))
  /\ check = "name" => (Clustered /\ c.name # NoName => NameUnused(vm, c.name))
  /\ check = "version" => VersionReached(Site.version)
  /\ check = "storage" => ValidateStorage(Site.storages, c.storage)
  /\ check = "iso" => ValidateIso(files, Iso)
  /\ check = "network" => ValidateNetwork(Site.bridges, c.network)

Behind == [cluster |-> {}, name |-> {"cluster"}, version |-> {"cluster", "name"},
           storage |-> {"cluster", "name", "version"},
           iso |-> {"cluster", "name", "version", "storage"},
           network |-> Checks \ {"network"}, allocate |-> Checks, create |-> Checks]

\* A config gets to a place by the checks behind it.  The ISO may go since, and
\* so may the name be taken, if not by a command that waits its turn.
Preflighted(p) ==
  /\ \A m \in made[p] : \E c \in ConfigsOf(p) : c.name = m[1] /\ Fits(c)
  /\ Makes(p) /\ at[p] \in DOMAIN Behind =>
       \A check \in Behind[at[p]] \ {"iso"} :
         check # "name" \/ world.serial => Met(Config(p), check)
  /\ Kind(p) = "validate" /\ NothingElse(p) /\ at[p] # "dead" =>
       (report[p].ok <=> /\ \A c \in Over(p), check \in Checks : Met(c, check)
                         /\ at[p] \in DOMAIN Behind => \A check \in Behind[at[p]] : Met(Config(p), check))

\* Where a module has looked for the name on its host and found none.
LookedFor(p) ==
  /\ world.serial /\ ~Fault("unread") /\ Kind(p) = "aProvision"
  /\ at[p] \in DOMAIN Behind

Looked(p) ==
  /\ at[p] = "create" => /\ target[p] \in VmIds
                         /\ Config(p).id # NoId => target[p] = Config(p).id
  /\ LookedFor(p) => Named(Config(p).name, Config(p).host) = {}

\* A VM has a name; one of a pinned name has the id that goes with it.
NamesInv ==
  /\ \A v \in VmIds : vm[v] # NoVm => vm[v].name # NoName
  /\ \A u \in VmIds :
       /\ \A v \in VmIds : vm[v] # NoVm /\ PinnedTo(vm[v].name, u) => v = u
       /\ \A p \in Procs : \A m \in made[p] : PinnedTo(m[1], u) => m[2] = u

\* The VM at the target is the one listed, unless another command has deleted it.
AtTarget(p) ==
  LET v == vm[target[p]] IN v # NoVm /\ v.name = Config(p).name /\ v.host = Config(p).host
Taken(p) == ~world.serial /\ \E q \in Procs \ {p} : Deletes(q)

Listed(p) ==
  at[p] = "destroy" =>
    /\ target[p] \in VmIds
    /\ AtTarget(p) \/ (Taken(p) /\ (vm[target[p]] = NoVm \/ \E q \in Procs : Makes(q)))

\* What each kind of command has done and will tell, at each place.
NamesOf(vms) == {m[1] : m \in vms}
OverNames(p) == {c.name : c \in Over(p)}
Untouched(p) == report[p].ok /\ ~report[p].changed

\* The VM between its create and the report of it.
Unfinished(p) ==
  IF at[p] \in {"clean", "start"} THEN {<<Config(p).name, target[p]>>} ELSE {}

MadeSoFar(p) ==
  Makes(p) =>
    /\ ready[p] \subseteq made[p]
    /\ at[p] # "dead" /\ (report[p].ok \/ NothingFails(p)) =>
         made[p] \subseteq ready[p] \cup Unfinished(p)
    /\ at[p] \in {"clean", "start"} =>
         /\ Unfinished(p) \subseteq made[p]
         /\ target[p] \in VmIds
         /\ Undisturbed(p) => AtTarget(p) /\ target[p] \notin up

ProvisionSoFar(p) ==
  Kind(p) = "provision" /\ at[p] # "dead" =>
    /\ NamesOf(ready[p]) \subseteq OverNames(p)
    /\ report[p].ok => OverNames(p) \subseteq NamesOf(ready[p])
    /\ IsFiniteSet(ready[p]) /\ Cardinality(ready[p]) <= Through(p)
    /\ ~report[p].ok /\ ~Fault("unseen") => Cardinality(ready[p]) < Through(p)

DeprovisionSoFar(p) ==
  Kind(p) = "deprovision" /\ at[p] # "dead" =>
    /\ at[p] \in {"idle", "prompt"} => gone[p] = {} /\ Through(p) = 0
    /\ at[p] = "done" => gone[p] = {} \/ Over(p) = ConfigsOf(p)
    /\ Undisturbed(p) => NamesOf(gone[p]) \subseteq OverNames(p)
    /\ Undisturbed(p) /\ report[p].ok => OverNames(p) \subseteq NamesOf(gone[p])

AProvisionSoFar(p) ==
  Kind(p) = "aProvision" =>
    /\ at[p] \in {"idle", "exists"} \cup DOMAIN Behind => Untouched(p) /\ made[p] = {}
    /\ at[p] \in {"clean", "start"} => Untouched(p) /\ ready[p] = {}
    /\ at[p] = "readId" => /\ Untouched(p) /\ made[p] = {<<Config(p).name, target[p]>>}
                           /\ ready[p] = made[p] /\ target[p] \in VmIds
                           /\ world.serial => AtTarget(p)

ADeprovisionSoFar(p) ==
  Kind(p) = "aDeprovision" =>
    (at[p] \in {"idle", "exists", "list", "destroy"} => Untouched(p) /\ gone[p] = {})

IsoSoFar(p) ==
  Kind(p) \in {"refresh", "isoInfo"} =>
    /\ at[p] \in {"idle"} \cup IsoPlaces => Untouched(p)
    /\ at[p] \in {"idle"} \cup (IsoPlaces \ {"wait"}) => download[p] = "none"
    /\ at[p] = "wait" => download[p] # "none"

\* All that holds of one command.
CommandInv(p) ==
  /\ OnRoute(p) /\ Preflighted(p) /\ Looked(p) /\ Listed(p)
  /\ MadeSoFar(p) /\ ProvisionSoFar(p) /\ DeprovisionSoFar(p)
  /\ AProvisionSoFar(p) /\ ADeprovisionSoFar(p) /\ IsoSoFar(p)

ProcessesInv == \A p \in Procs : CommandInv(p)

\* Where nothing is deleted, no two commands are about to start one VM.
ApartInv ==
  \A p, q \in Procs :
    /\ p # q /\ {at[p], at[q]} \subseteq {"clean", "start"}
    /\ ~world.serial /\ \A r \in Procs : ~Deletes(r)
    => target[p] # target[q]

=============================================================================
