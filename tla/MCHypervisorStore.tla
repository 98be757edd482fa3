------------------------- MODULE MCHypervisorStore -------------------------
(***************************************************************************)
(* Small instances of HypervisorStore.  References and hypervisors are     *)
(* interchangeable.                                                        *)
(***************************************************************************)
EXTENDS HypervisorStore, TLC

CONSTANTS h1, h2, u1, u2, u3

Symmetry == Permutations(Hypers) \cup Permutations(Uuids)

\* Three adds where processes take turns, two where they run at once.
FewReferences == "race" \in faults => used # Uuids
=============================================================================
