-------------------------- MODULE MCDeprovisioning --------------------------
(***************************************************************************)
(* Small instances of Deprovisioning: a CLI run by name and an Ansible run *)
(* by id, over three VMs of which two share a name.                        *)
(***************************************************************************)
EXTENDS Deprovisioning, TLC

CONSTANTS r1, r2, m1, m2, m3, v1, v2, a, b

Named == (m1 :> a) @@ (m2 :> b) @@ (m3 :> a)
AskedNameAndId == (r1 :> a) @@ (r2 :> v1)
=============================================================================
