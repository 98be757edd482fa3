----------------------------- MODULE VmRegistry -----------------------------
(***************************************************************************)
(* What provisioning promises the owner of a cluster: a VM appears whole,  *)
(* under a free id, with the installer config of the node it was made for, *)
(* and is started at most once after that.  Nothing of the images, tasks   *)
(* and retries that it takes to get there is visible here.                 *)
(***************************************************************************)
CONSTANTS
  Nodes,      \* the Fluxnode configs to provision
  VmIds,      \* Proxmox VM ids
  PinnedId,   \* the id a config asks for, or NoId
  NoId, NoNode

VARIABLES
  vmNode,     \* the config each VM boots, NoNode where there is no VM
  running     \* the ids of the started VMs

vars == <<vmNode, running>>

Init ==
  /\ vmNode = [v \in VmIds |-> NoNode]
  /\ running = {}

Create(n, v) ==
  /\ vmNode[v] = NoNode
  /\ PinnedId[n] \in {v, NoId}
  /\ vmNode' = [vmNode EXCEPT ![v] = n]
  /\ UNCHANGED running

Start(v) ==
  /\ vmNode[v] # NoNode
  /\ v \notin running
  /\ running' = running \cup {v}
  /\ UNCHANGED vmNode

Next == \E v \in VmIds : Start(v) \/ \E n \in Nodes : Create(n, v)

Spec == Init /\ [][Next]_vars

=============================================================================
