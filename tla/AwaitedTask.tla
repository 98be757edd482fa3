---------------------------- MODULE AwaitedTask ----------------------------
(***************************************************************************)
(* What Provisioner._await_task promises its callers: a Proxmox task that  *)
(* runs by itself, and one report of it.  "ok" means that the task has     *)
(* stopped with exit status OK; "failed" says nothing about the task,      *)
(* which may never have started, may have failed, or may still be running. *)
(* provision_node and deprovision_node rest on exactly this much.          *)
(***************************************************************************)
VARIABLES
  task,       \* "none", "running", or the exit: "OK" or "error"
  outcome     \* TaskOutcome: "pending" until reported, then "ok" or "failed"

vars == <<task, outcome>>

Init ==
  /\ task = "none"
  /\ outcome = "pending"

\* The request is accepted, however long it took to reach the host.
Begin ==
  /\ task = "none"
  /\ task' = "running"
  /\ UNCHANGED outcome

Stop ==
  /\ task = "running"
  /\ task' \in {"OK", "error"}
  /\ UNCHANGED outcome

Report ==
  /\ outcome = "pending"
  /\ \/ task = "OK" /\ outcome' = "ok"
     \/ outcome' = "failed"
  /\ UNCHANGED task

Next == Begin \/ Stop \/ Report

Spec == Init /\ [][Next]_vars

=============================================================================
