-------------------------- MODULE MCHypervisorForm --------------------------
(* Two hosts and a credential of each kind; one host accepts the token.    *)
EXTENDS HypervisorForm

MCParses(c, kind) == (c = "tok") = (kind = "token")
MCAccepts(conn) == conn.url = "pve1"
MCNameAt(u) == IF u = "pve1" THEN "n1" ELSE NoName
MCExisting == {[url |-> "pve1", auth |-> "token", creds |-> "tok"]}
=============================================================================
