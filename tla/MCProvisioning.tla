--------------------------- MODULE MCProvisioning ---------------------------
(***************************************************************************)
(* Small instances of Provisioning: two configs, or one config provisioned *)
(* twice.                                                                  *)
(***************************************************************************)
EXTENDS Provisioning, TLC

CONSTANTS r1, r2, n1, n2

\* Two configs, a run of each; only the first is started.
TwoNodes == (r1 :> n1) @@ (r2 :> n2)
\* A run and its retry on one config object.
OneNode == (r1 :> n1) @@ (r2 :> n1)

NamesDiffer == (n1 :> "vm1") @@ (n2 :> "vm2")
NamesEqual == (n1 :> "vm1") @@ (n2 :> "vm1")

PinnedDistinct == (n1 :> 1) @@ (n2 :> 2)
NonePinned == [n \in Nodes |-> NoId]
=============================================================================
