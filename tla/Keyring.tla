------------------------------- MODULE Keyring -------------------------------
(***************************************************************************)
(* What callers of a keyring backend can rest on: every key has a home,    *)
(* keys of one home have one secret, which only a set or a delete of one   *)
(* of them touches.  A set that replaces a secret may lose the old one     *)
(* before it puts the new one, or fails; one that ends well has put its    *)
(* own, and a get answers what is there.                                   *)
(***************************************************************************)
CONSTANTS
  Callers, Keys, Secrets, NoSecret, NoCall,
  Home  \* where the secret of each key is kept

VARIABLES
  stored,  \* the secret of each key
  call     \* what each caller has asked for, and the answer

keyringVars == <<stored, call>>

Answers == Secrets \cup {NoSecret, "pending", "ok", "failed"}
Calls ==
  [op : {"set"}, key : Keys, secret : Secrets, answer : Answers]
    \cup [op : {"get", "delete"}, key : Keys, secret : {NoSecret}, answer : Answers]

Pending(c) == call[c] # NoCall /\ call[c].answer = "pending"
Asks(c, op) == Pending(c) /\ call[c].op = op
Answer(c, a) == call' = [call EXCEPT ![c].answer = a]

KeyringInit ==
  /\ stored = [k \in Keys |-> NoSecret]
  /\ call = [c \in Callers |-> NoCall]

\* Every key of k's home now has this secret.
Keep(k, secret) == stored' = [l \in Keys |-> IF Home[l] = Home[k] THEN secret ELSE stored[l]]

Begin(c) ==
  /\ ~Pending(c)
  /\ \E r \in Calls : r.answer = "pending" /\ call' = [call EXCEPT ![c] = r]
  /\ UNCHANGED stored

Get(c) ==
  /\ Asks(c, "get")
  /\ Answer(c, stored[call[c].key])
  /\ UNCHANGED stored

Lose(c) ==
  /\ Asks(c, "set")
  /\ Keep(call[c].key, NoSecret)
  /\ UNCHANGED call

Put(c) ==
  /\ Asks(c, "set")
  /\ Keep(call[c].key, call[c].secret)
  /\ Answer(c, "ok")

Delete(c) ==
  /\ Asks(c, "delete")
  /\ Keep(call[c].key, NoSecret)
  /\ Answer(c, "ok")

Fail(c) ==
  /\ Pending(c)
  /\ Answer(c, "failed")
  /\ UNCHANGED stored

KeyringNext ==
  \E c \in Callers : Begin(c) \/ Get(c) \/ Lose(c) \/ Put(c) \/ Delete(c) \/ Fail(c)

KeyringSpec == KeyringInit /\ [][KeyringNext]_keyringVars
=============================================================================
