------------------------------- MODULE SyncAll -------------------------------
(***************************************************************************)
(* The Proxmox page of the TUI: the table of fluxnodes of the hypervisor   *)
(* picked in the Select, the background worker that fills it, and the      *)
(* "Sync All" worker that provisions every free row, one after another,    *)
(* under a modal screen that shows the progress of the current one.        *)
(*                                                                         *)
(* Textual runs all of it on one event loop: a step below is the code      *)
(* between two awaits.  The workers are not exclusive, and they share      *)
(* self.provisioner, self.cluster_step, the DataTable and the app's stack  *)
(* of screens.  Provisioning one node is module Provisioning's; here it    *)
(* is a job that reports its steps and ends well or badly.                 *)
(*                                                                         *)
(* The row of one node selected with Enter is a Sync All of one node: the  *)
(* callbacks are the same and nothing is popped after it.                  *)
(***************************************************************************)
EXTENDS Naturals, Sequences, SequencesExt, FiniteSets

CONSTANTS
  Hypers,       \* the hypervisors of the Select
  NoHyper,      \* no hypervisor yet
  Nodes,        \* the fluxnode configurations
  Configs,      \* the configurations in the order of fluxnodes.yaml
  Hosts,        \* Hosts[h]: the configurations whose node name exists on h
  Clustered,    \* the hypervisors that belong to a cluster
  Steps,        \* the progress messages of provisioning on a standalone host
  FaultSets     \* the sets of faults a behaviour may meet

Faults == {"overlap",      \* the user works on while the table is being filled
           "dismiss",      \* the user clicks Ok while the Sync All goes on
           "unreadable",   \* the cluster status cannot be read
           "unlisted"}     \* the VMs of some nodes cannot be listed

ASSUME SyncAssumption ==
  /\ NoHyper \notin Hypers
  /\ Configs \in Seq(Nodes) /\ IsInjective(Configs) /\ Range(Configs) = Nodes
  /\ Hosts \in [Hypers -> SUBSET Nodes]
  /\ Clustered \subseteq Hypers
  /\ Steps \in Nat \ {0}
  /\ FaultSets \subseteq SUBSET Faults

VARIABLES
  faults,
  populate,     \* where the populate worker of each hypervisor is
  provisioner,  \* self.provisioner, by its hypervisor
  clusterStep,  \* self.cluster_step
  table,        \* the DataTable: whose rows, and the Provisioned cell of each
  stack,        \* the app's screens, the visible one last
  sync,         \* the Sync All worker
  job,          \* its current provision_node worker
  made          \* which VM exists on which hypervisor

vars == <<faults, populate, provisioner, clusterStep, table, stack,
          sync, job, made>>

-----------------------------------------------------------------------------
(* Screens.  ProvisioningInfoScreen counts the progress messages: it        *)
(* offers its Ok button on the last one it expects, or on a failure.        *)

Plain(kind) == [kind |-> kind]

InfoScreen(n, total) ==
  [kind |-> "info", node |-> n, total |-> total, completed |-> 0,
   failed |-> FALSE]

Infos == [kind : {"info"}, node : Nodes, total : Steps..(Steps + 1),
          completed : 0..(Steps + 1), failed : BOOLEAN]

IsInfo(s) == s.kind = "info"
Finished(s) == s.completed >= s.total
OkVisible(s) == Finished(s) \/ s.failed
Top == Last(stack)

\* update_callback: what the screen of the job makes of a message.
UpdateCallback(s, success) ==
  IF ~IsInfo(s) \/ Finished(s) \/ s.failed THEN s
  ELSE [s EXCEPT !.completed = @ + 1, !.failed = ~success]

Callback(success) ==
  stack' = [i \in DOMAIN stack |-> UpdateCallback(stack[i], success)]

-----------------------------------------------------------------------------
(* The table.                                                               *)

EmptyTable == [of |-> NoHyper, cells |-> <<>>]

\* Mutant: the VMs of the other hypervisors count too.
BuildTableFromAll(h, usable) ==
  table' = [of |-> h,
            cells |-> [n \in usable |-> \E g \in Hypers : <<g, n>> \in made]]

\* build_fluxnode_table: one row per usable configuration, marked when the
\* VM of that name is listed.
BuildTable(h, usable) ==
  table' = [of |-> h, cells |-> [n \in usable |-> <<h, n>> \in made]]

\* Mutant: the rows are left.
KeepTable == UNCHANGED table

ClearTable == table' = EmptyTable

\* The rows that are not marked.
Free == {n \in DOMAIN table.cells : ~table.cells[n]}

Before(m, n) ==
  \E i, j \in DOMAIN Configs : i < j /\ Configs[i] = m /\ Configs[j] = n

\* These configurations one after another, in the table's order: there is one
\* such sequence.
InTableOrder(rows) ==
  {s \in [1..Cardinality(rows) -> rows] :
     \A i, j \in DOMAIN s : i < j => Before(s[i], s[j])}

\* Mutant: the configurations, and not the rows of the table.
AllConfigs ==
  InTableOrder({n \in Nodes : n \in DOMAIN table.cells => n \in Free})

\* get_provisionable_nodes: the free rows, in the table's order.
ProvisionableNodes == InTableOrder(Free)

-----------------------------------------------------------------------------
NoJob == [state |-> "none", on |-> NoHyper, said |-> 0]
NoSync == [pc |-> "idle", todo |-> <<>>, at |-> 0, delay |-> FALSE]

Init ==
  /\ faults \in FaultSets
  /\ populate = [h \in Hypers |-> "none"]
  /\ provisioner = NoHyper
  /\ clusterStep = FALSE
  /\ table = EmptyTable
  /\ stack = <<Plain("default"), Plain("welcome"), Plain("table")>>
  /\ sync = NoSync
  /\ job = NoJob
  /\ made = {}

Alive == sync.pc # "dead"
Populating == \E h \in Hypers : populate[h] # "none"
Busy == sync.pc # "idle"
OnTable == Alive /\ Top = Plain("table")

-----------------------------------------------------------------------------
(* The populate worker.                                                     *)

PopulateTo(h, where) == populate' = [populate EXCEPT ![h] = where]

\* on_select_changed
Select(h) ==
  /\ OnTable
  /\ populate[h] = "none"
  /\ "overlap" \in faults \/ ~(Populating \/ Busy)
  /\ PopulateTo(h, "connect")
  /\ UNCHANGED <<faults, provisioner, clusterStep, table, stack, sync,
                 job, made>>

\* The session is open: the page's provisioner is replaced.
Connected(h) ==
  /\ Alive /\ populate[h] = "connect"
  /\ PopulateTo(h, "cluster")
  /\ provisioner' = h
  /\ UNCHANGED <<faults, clusterStep, table, stack, sync, job, made>>

\* No connection: the page keeps the old provisioner over an empty table.
NotConnected(h) ==
  /\ Alive /\ populate[h] = "connect"
  /\ PopulateTo(h, "none")
  /\ ClearTable
  /\ UNCHANGED <<faults, provisioner, clusterStep, stack, sync, job,
                 made>>

\* show_cluster: a status that cannot be read counts as a cluster.
ShowCluster(h) ==
  /\ Alive /\ populate[h] = "cluster"
  /\ PopulateTo(h, "discover")
  /\ \/ clusterStep' = (h \in Clustered)
     \/ "unreadable" \in faults /\ clusterStep' = TRUE
  /\ UNCHANGED <<faults, provisioner, table, stack, sync, job, made>>

\* discover_nodes finds the VMs and the worker builds the table from them,
\* without the configurations of a node whose VMs cannot be listed,
Discover(h) ==
  /\ Alive /\ populate[h] = "discover"
  /\ PopulateTo(h, "none")
  /\ \E usable \in SUBSET Hosts[h] :
       /\ usable = Hosts[h] \/ "unlisted" \in faults
       /\ BuildTable(h, usable)
  /\ UNCHANGED <<faults, provisioner, clusterStep, stack, sync, job, made>>

\* or empties the table when the discovery failed.
NotDiscovered(h) ==
  /\ Alive /\ populate[h] = "discover"
  /\ PopulateTo(h, "none")
  /\ ClearTable
  /\ UNCHANGED <<faults, provisioner, clusterStep, stack, sync, job,
                 made>>

populateVars == <<populate, provisioner, clusterStep>>

-----------------------------------------------------------------------------
(* The user's screens.                                                      *)

\* The Back button of the table, and the way in again.
Back ==
  /\ OnTable /\ sync.pc = "idle"
  /\ stack' = Front(stack)
  /\ UNCHANGED <<faults, populateVars, table, sync, job, made>>

OpenTable ==
  /\ Alive /\ Top = Plain("welcome")
  /\ stack' = Append(stack, Plain("table"))
  /\ UNCHANGED <<faults, populateVars, table, sync, job, made>>

\* Sync All, or Enter on a free row: the password form.
Begin ==
  /\ OnTable /\ ~Busy
  /\ "overlap" \in faults \/ ~Populating
  /\ Free # {}
  /\ \E delay \in BOOLEAN,
        todo \in ProvisionableNodes \cup {<<n>> : n \in Free} :
       sync' = [pc |-> "form", todo |-> todo, at |-> 1, delay |-> delay]
  /\ stack' = Append(stack, Plain("form"))
  /\ UNCHANGED <<faults, populateVars, table, job, made>>

Cancel ==
  /\ sync.pc = "form"
  /\ stack' = Front(stack)
  /\ sync' = NoSync
  /\ UNCHANGED <<faults, populateVars, table, job, made>>

\* Ok on the info screen: dismiss, which also cancels its countdown.
UserOk ==
  /\ Alive /\ IsInfo(Top) /\ OkVisible(Top)
  /\ "dismiss" \in faults \/ sync.pc = "idle"
  /\ stack' = Front(stack)
  /\ sync' = IF sync.pc = "delay" THEN [sync EXCEPT !.pc = "cancelled"]
             ELSE sync
  /\ UNCHANGED <<faults, populateVars, table, job, made>>

-----------------------------------------------------------------------------
(* The Sync All worker.                                                     *)

Current == sync.todo[sync.at]
IsLast == sync.at = Len(sync.todo)

\* Mutant: the cluster's step is counted twice.
ClusterTwice == Steps + (IF clusterStep THEN 2 ELSE 0)

\* Mutant: the cluster's step is not counted.
StandaloneSteps == Steps

TotalSteps == Steps + (IF clusterStep THEN 1 ELSE 0)

\* provision_node_callback pushes the info screen of the i-th node.
Submit ==
  /\ sync.pc = "form"
  /\ stack' = Append(Front(stack), InfoScreen(Current, TotalSteps))
  /\ sync' = [sync EXCEPT !.pc = "mount"]
  /\ UNCHANGED <<faults, populateVars, table, job, made>>

\* Once it is mounted, the job starts on the page's provisioner.
Start ==
  /\ sync.pc = "mount"
  /\ sync' = [sync EXCEPT !.pc = "run"]
  /\ job' = [state |-> "running", on |-> provisioner, said |-> 0]
  /\ UNCHANGED <<faults, populateVars, table, stack, made>>

Die ==
  /\ sync' = [NoSync EXCEPT !.pc = "dead"]
  /\ job' = NoJob
  /\ UNCHANGED stack

\* pop_screen, which refuses to pop the last screen, when the worker asks
\* for it; then the next node, or the end.
Proceed(pop) ==
  LET left == IF pop THEN Front(stack) ELSE stack IN
  IF left = <<>> THEN Die
  ELSE /\ job' = NoJob
       /\ IF IsLast
          THEN sync' = NoSync /\ stack' = left
          ELSE LET next == sync.todo[sync.at + 1] IN
               /\ sync' = [sync EXCEPT !.pc = "mount", !.at = @ + 1]
               /\ stack' = Append(left, InfoScreen(next, TotalSteps))

\* Mutant: the result of the job is not looked at.
GoOnAfterError ==
  /\ sync.pc = "run" /\ job.state = "failed"
  /\ Proceed(Len(sync.todo) > 1)
  /\ UNCHANGED <<faults, populateVars, table, made>>

\* A failed job ends the Sync All and leaves its info screen.
StopOnError ==
  /\ sync.pc = "run" /\ job.state = "failed"
  /\ sync' = NoSync
  /\ job' = NoJob
  /\ UNCHANGED <<faults, populateVars, table, stack, made>>

\* After a good one: the countdown, if one was asked for, on the screen on
\* top if that is an info screen.
Delay ==
  /\ sync.pc = "run" /\ job.state = "ok"
  /\ sync.delay /\ ~IsLast /\ IsInfo(Top)
  /\ sync' = [sync EXCEPT !.pc = "delay"]
  /\ UNCHANGED <<faults, populateVars, table, stack, job, made>>

\* needs_pop, when no countdown was cancelled: only the info of a single
\* node is left to the user.
NeedsPop == Len(sync.todo) > 1

NoDelay ==
  /\ sync.pc = "run" /\ job.state = "ok"
  /\ ~(sync.delay /\ ~IsLast /\ IsInfo(Top))
  /\ Proceed(NeedsPop)
  /\ UNCHANGED <<faults, populateVars, table, made>>

\* Mutant: the countdown starts again.
DelayRepeats ==
  /\ sync.pc = "delay"
  /\ sync' = [sync EXCEPT !.pc = "run"]
  /\ UNCHANGED <<faults, populateVars, table, stack, job, made>>

DelayEnds ==
  /\ sync.pc = "delay"
  /\ Proceed(NeedsPop)
  /\ UNCHANGED <<faults, populateVars, table, made>>

\* Mutant: the screen is popped however it went.
AlwaysPops == TRUE

\* needs_pop after WorkerCancelled: False for the first node, True for the
\* others.
CancelledNeedsPop == sync.at > 1

DelayCancelled ==
  /\ sync.pc = "cancelled"
  /\ Proceed(CancelledNeedsPop)
  /\ UNCHANGED <<faults, populateVars, table, made>>

-----------------------------------------------------------------------------
(* The provision_node worker.                                               *)

Messages == Steps + (IF job.on \in Clustered THEN 1 ELSE 0)

Running == sync.pc = "run" /\ job.state = "running"

\* A step succeeds and is reported.
Report ==
  /\ Running /\ job.said < Messages
  /\ job' = [job EXCEPT !.said = @ + 1]
  /\ Callback(TRUE)
  /\ UNCHANGED <<faults, populateVars, table, sync, made>>

\* A step fails: the VM may or may not be there.
Fail ==
  /\ Running /\ job.said < Messages
  /\ job' = [job EXCEPT !.state = "failed"]
  /\ Callback(FALSE)
  /\ made' \in {made, made \cup {<<job.on, Current>>}}
  /\ UNCHANGED <<faults, populateVars, table, sync>>

\* All went well: the row is marked; update_cell raises without that row and
\* the worker's exception ends the app.
Succeed ==
  /\ Running /\ job.said = Messages
  /\ made' = made \cup {<<job.on, Current>>}
  /\ IF Current \in DOMAIN table.cells
     THEN /\ table' = [table EXCEPT !.cells[Current] = TRUE]
          /\ job' = [job EXCEPT !.state = "ok"]
          /\ UNCHANGED <<stack, sync>>
     ELSE Die /\ UNCHANGED table
  /\ UNCHANGED <<faults, populateVars>>

-----------------------------------------------------------------------------
PopulateNext ==
  \E h \in Hypers : \/ Select(h) \/ Connected(h) \/ NotConnected(h)
                    \/ ShowCluster(h) \/ Discover(h) \/ NotDiscovered(h)

UserNext == Back \/ OpenTable \/ Begin \/ Cancel \/ Submit \/ UserOk

SyncStep == StopOnError \/ Delay \/ NoDelay \/ DelayEnds \/ DelayCancelled
JobStep == Report \/ Fail \/ Succeed

Next == PopulateNext \/ UserNext \/ Start \/ SyncStep \/ JobStep

\* The event loop runs what is ready; a user is under no obligation.
Spec == Init /\ [][Next]_vars /\ WF_vars(Start \/ SyncStep \/ JobStep)

-----------------------------------------------------------------------------
(* Properties.                                                              *)

\* Every variable has its type; an info screen expects Steps or Steps + 1
\* messages and never counts more than it expects.
TypeOK ==
  /\ faults \in FaultSets
  /\ populate \in [Hypers -> {"none", "connect", "cluster", "discover"}]
  /\ provisioner \in Hypers \cup {NoHyper}
  /\ clusterStep \in BOOLEAN
  /\ table.of \in Hypers \cup {NoHyper}
  /\ \E rows \in SUBSET Nodes : table.cells \in [rows -> BOOLEAN]
  /\ stack # <<>>
  /\ \A s \in Range(stack) :
       \/ s \in {Plain(k) : k \in {"default", "welcome", "table", "form"}}
       \/ s \in Infos /\ s.completed <= s.total
  /\ sync.pc \in {"idle", "form", "mount", "run", "delay", "cancelled", "dead"}
  /\ sync.todo \in Seq(Nodes) /\ sync.at \in 0..Len(sync.todo)
  /\ job.state \in {"none", "running", "ok", "failed"}
  /\ job.on \in Hypers \cup {NoHyper} /\ job.said \in 0..(Steps + 1)
  /\ made \subseteq Hypers \X Nodes

\* As long as the table is not left while it is being filled, a job runs on
\* the hypervisor whose rows it was started from: self.provisioner and the
\* table, two attributes set at different awaits, agree when it is read.
RightHypervisor ==
  "overlap" \notin faults /\ job.state = "running" => job.on = table.of

\* With the same proviso a row marked Provisioned has its VM on the
\* hypervisor of the table, whatever failed before.
MarkedIsMade ==
  "overlap" \notin faults =>
    \A n \in DOMAIN table.cells :
      table.cells[n] => <<table.of, n>> \in made

\* The Sync All never goes past a node whose VM is not there ("we leave the
\* info screen to display on error"): all the nodes before the current one
\* have been marked.
InOrder ==
  "overlap" \notin faults =>
    \A i \in 1..(sync.at - 1) : table.cells[sync.todo[i]]

\* An info screen whose job is over says so, and says how it went: it has
\* failed exactly when the job has, and else it is finished and offers its
\* Ok button.  (A cluster status that cannot be read, or a table left while
\* it is being filled, gives the screen the wrong number of steps.)
InfoTellsTruth ==
  faults \cap {"overlap", "unreadable"} = {} =>
    \A s \in Range(stack) :
      IsInfo(s) =>
        CASE job.state = "ok" -> Finished(s) /\ ~s.failed
          [] job.state = "failed" -> s.failed
          [] job.state = "running" -> ~s.failed
          [] OTHER -> (sync.pc = "idle" => OkVisible(s))

\* Without the user's interference the app neither dies of an uncaught
\* exception nor pops its way down to a blank screen, and a modal screen is
\* only ever over the table.
AppIntact ==
  faults \cap {"overlap", "dismiss"} = {} =>
    /\ Alive
    /\ Top # Plain("default")
    /\ \A i \in DOMAIN stack :
         IsInfo(stack[i]) \/ stack[i] = Plain("form") =>
           stack[i - 1] = Plain("table") /\ i = Len(stack)

\* The screens that are not an info screen, each at its place.
Pages ==
  {<<i, stack[i]>> : i \in {j \in DOMAIN stack : ~IsInfo(stack[j])}}

SyncMoves == SyncStep /\ sync'.pc # "dead"

\* A step of the Sync All worker that pops a screen pops its own info screen
\* and every page stays: when the user leaves the info screen alone until the
\* Sync All is over, and when he dismisses it in the first node's countdown.
PopsOwnInfo ==
  [][SyncMoves /\ ("dismiss" \notin faults
                      \/ (sync.pc = "cancelled" /\ sync.at = 1))
       => Pages' = Pages]_vars

\* The same for the countdown of every node: "if the user clicks okay... the
\* screen will be dismissed" (arcane_mage.py:201), so there is nothing left
\* to pop.
DismissedNotPopped ==
  [][SyncMoves /\ sync.pc = "cancelled" => Pages' = Pages]_vars

\* Once the form is submitted the worker comes to an end, whatever the jobs
\* do and whatever the user clicks.
SyncEnds == sync.pc \in {"mount", "run", "delay", "cancelled"}
              ~> sync.pc \in {"idle", "dead"}

=============================================================================
