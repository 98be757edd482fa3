----------------------------- MODULE TpmKeyring -----------------------------
(***************************************************************************)
(* TPMKeyring: secrets in the NV indices of a TPM.  Every call is a        *)
(* sequence of TPM commands, between which other processes run theirs: the *)
(* kernel's resource manager shares the device, and nothing is locked.     *)
(***************************************************************************)
CONSTANTS
  Callers,        \* processes that use the keyring
  Keys,           \* pairs of service and username
  Secrets, Long,  \* passwords, and those of more than _NV_SIZE bytes
  Slots,          \* the NV indices of the keyring, _NV_MAX_SLOTS of them
  SlotOf,         \* the hash of a key, modulo _NV_MAX_SLOTS
  NoSecret, NoCall,
  Undefined, Unwritten  \* of an NV index

ASSUME TpmAssumption ==
  /\ SlotOf \in [Keys -> Slots]
  /\ Long \subseteq Secrets
  /\ Secrets \cap {NoSecret, Undefined, Unwritten, "pending", "ok", "failed"} = {}
  /\ NoSecret \notin {"pending", "ok", "failed"}
  /\ Undefined # Unwritten
  /\ NoCall \notin [op : {"get", "set", "delete"}, key : Keys, secret : Secrets \cup {NoSecret},
                    answer : Secrets \cup {NoSecret, "pending", "ok", "failed"}]

VARIABLES
  faulty,  \* whether commands may fail and callers be killed in this behaviour
  at,    \* the TPM command each caller runs next
  call,  \* as in Keyring
  nv     \* the NV indices

vars == <<faulty, at, call, nv>>

\* Mutant: one index for all.
OneIndex(k) == CHOOSE s \in Slots : TRUE

IndexFor(k) == SlotOf[k]

\* What a caller of the keyring sees.
Stored == [k \in Keys |-> IF nv[IndexFor(k)] \in Secrets THEN nv[IndexFor(k)] ELSE NoSecret]

Contract == INSTANCE Keyring WITH stored <- Stored, Home <- SlotOf

Commands == {"lookup", "read", "define", "undefine", "redefine", "write"}

TypeOK ==
  /\ faulty \in BOOLEAN
  /\ at \in [Callers -> Commands \cup {"idle"}]
  /\ call \in [Callers -> Contract!Calls \cup {NoCall}]
  /\ nv \in [Slots -> Secrets \cup {Undefined, Unwritten}]

Init ==
  /\ faulty \in BOOLEAN
  /\ at = [c \in Callers |-> "idle"]
  /\ call = [c \in Callers |-> NoCall]
  /\ nv = [s \in Slots |-> Undefined]

-----------------------------------------------------------------------------
Slot(c) == IndexFor(call[c].key)
Asks(c, op) == call[c].op = op
Content(c, value) == nv' = [nv EXCEPT ![Slot(c)] = value]

Goto(c, command) ==
  /\ at' = [at EXCEPT ![c] = command]
  /\ UNCHANGED <<faulty, call>>

Return(c, answer) ==
  /\ at' = [at EXCEPT ![c] = "idle"]
  /\ call' = [call EXCEPT ![c].answer = answer]
  /\ UNCHANGED faulty

Call(c, request) ==
  /\ at[c] = "idle"
  /\ request.answer = "pending"
  /\ call' = [call EXCEPT ![c] = request]
  /\ at' = [at EXCEPT ![c] = IF request.op = "set" THEN "define" ELSE "lookup"]
  /\ UNCHANGED <<faulty, nv>>

\* An index that is not there: no secret to get, nothing to delete, and an
\* error where a set has just seen it.
NotFound(c) ==
  /\ nv[Slot(c)] = Undefined
  /\ Return(c, CASE Asks(c, "get") -> NoSecret
                 [] Asks(c, "delete") -> "ok"
                 [] Asks(c, "set") -> "failed")
  /\ UNCHANGED nv

Lookup(c) ==
  /\ at[c] = "lookup"
  /\ \/ NotFound(c)
     \/ /\ nv[Slot(c)] # Undefined
        /\ Goto(c, IF Asks(c, "get") THEN "read" ELSE "undefine")
        /\ UNCHANGED nv

Read(c) ==
  /\ at[c] = "read"
  /\ \/ NotFound(c)
     \/ /\ nv[Slot(c)] # Undefined
        /\ Return(c, IF nv[Slot(c)] = Unwritten THEN "failed" ELSE nv[Slot(c)])
        /\ UNCHANGED nv

Define(c) ==
  /\ at[c] = "define"
  /\ call[c].secret \notin Long
  /\ IF nv[Slot(c)] = Undefined
     THEN Content(c, Unwritten) /\ Goto(c, "write")
     ELSE UNCHANGED nv /\ Goto(c, "lookup")

Undefine(c) ==
  /\ at[c] = "undefine"
  /\ \/ NotFound(c)
     \/ /\ nv[Slot(c)] # Undefined
        /\ Content(c, Undefined)
        /\ IF Asks(c, "set") THEN Goto(c, "redefine") ELSE Return(c, "ok")

Redefine(c) ==
  /\ at[c] = "redefine"
  /\ IF nv[Slot(c)] = Undefined
     THEN Content(c, Unwritten) /\ Goto(c, "write")
     ELSE UNCHANGED nv /\ Return(c, "failed")

\* Mutant: nothing is written.
WriteSkipped(c) ==
  /\ at[c] = "write"
  /\ Return(c, "ok")
  /\ UNCHANGED nv

Write(c) ==
  /\ at[c] = "write"
  /\ \/ NotFound(c)
     \/ /\ nv[Slot(c)] # Undefined
        /\ Content(c, call[c].secret)
        /\ Return(c, "ok")

\* A password that does not fit, a command that fails, a caller that is killed.
Fails(c) ==
  /\ at[c] # "idle"
  /\ faulty \/ (at[c] = "define" /\ call[c].secret \in Long)
  /\ Return(c, "failed")
  /\ UNCHANGED nv

Next ==
  \E c \in Callers :
    \/ \E request \in Contract!Calls : Call(c, request)
    \/ Lookup(c) \/ Read(c) \/ Define(c) \/ Undefine(c) \/ Redefine(c) \/ Write(c) \/ Fails(c)

Spec == Init /\ [][Next]_vars

-----------------------------------------------------------------------------
(* The backend keeps the contract of a keyring whose keys share a home where
   the hash gives them one index (_nv_index_for), for callers at once and under
   every fault: a call touches only the keys of that index, a set that returns
   has put its own secret and a get answers the last one put there, although
   each takes several commands.  Two keys of one index do take each other's
   secrets: the contract says so, the docstring (tpm_keyring.py:14) does not. *)
ImplementsKeyring == Contract!KeyringSpec

(* An index that is defined and not written, which no get can read, is about
   to be written as long as no command fails, even where keys share indices and
   sets of one index interleave: nobody undefines under a writer and leaves its
   index empty. *)
UnwrittenIsTransient ==
  ~faulty => \A s \in Slots :
    nv[s] = Unwritten => \E c \in Callers : at[c] = "write" /\ Slot(c) = s

-----------------------------------------------------------------------------
(* The inductive invariant behind the theorems (TpmKeyringProofs) *)

\* A caller is at a command while its call is pending, at one of its call's own.
Ops(command) ==
  CASE command = "read" -> {"get"}
    [] command = "lookup" -> {"get", "set", "delete"}
    [] command = "undefine" -> {"set", "delete"}
    [] OTHER -> {"set"}

TpmInv ==
  /\ TypeOK
  /\ \A c \in Callers :
       /\ at[c] # "idle" <=> Contract!Pending(c)
       /\ at[c] # "idle" => call[c].op \in Ops(at[c])

=============================================================================
