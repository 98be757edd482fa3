------------------------------ MODULE MCSyncAll ------------------------------
(***************************************************************************)
(* Two hypervisors, the second one in a cluster, three configurations, one  *)
(* of them for both; a job of one reported step, and the cluster's.        *)
(***************************************************************************)
EXTENDS SyncAll, FiniteSets

CONSTANTS h1, h2, n1, n2, n3

MCHypers == {h1, h2}
MCNodes == {n1, n2, n3}
MCConfigs == <<n1, n2, n3>>
MCHosts == [h \in MCHypers |-> IF h = h1 THEN MCNodes ELSE {n3}]
MCClustered == {h2}

\* No fault, and each fault alone.
MCFaultSets == {{}} \cup {{f} : f \in Faults}

\* When the user does not wait for the table, two VMs are enough to have a
\* Sync All cross a change of hypervisor, and the states are many.
FewVms == "overlap" \in faults => Cardinality(made) <= 2

\* The user who does not wait for the countdown.
MCDismiss == {{"dismiss"}}

=============================================================================
