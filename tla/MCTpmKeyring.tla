---------------------------- MODULE MCTpmKeyring ----------------------------
(***************************************************************************)
(* A small instance of TpmKeyring: two processes, three secrets, of which  *)
(* one is too long, and three keys, of which two share an index.           *)
(***************************************************************************)
EXTENDS TpmKeyring, TLC

CONSTANTS c1, c2, k1, k2, k3, x, y, z, s1, s2

Shared == (k1 :> s1) @@ (k2 :> s1) @@ (k3 :> s2)
=============================================================================
