--------------------------- MODULE HypervisorStore ---------------------------
(***************************************************************************)
(* ArcaneCreatorConfig: the hypervisors a user has added, kept in the      *)
(* memory of each running process, in ~/.fluxnode_creator.yaml and, for    *)
(* their credentials, in the system keyring.  A TUI process adds, edits    *)
(* and removes hypervisors; a CLI process fills in names it does not know  *)
(* yet (_backfill_hypervisor_names).  Each reads the file once, when it    *)
(* starts, and writes its whole list.                                      *)
(***************************************************************************)
CONSTANTS
  Tuis, Clis,  \* processes
  Hypers,      \* connections: url, kind of authentication and credential
  Uuids,       \* references to the keyring; bounds the number of adds
  UseKeyring,  \* use_keyring of the file
  FaultSets,   \* what may go wrong: one of these subsets of FaultKinds
  NoHyper, Plain

\* "keyring": the keyring refuses a credential.  "crash": a process ends
\* between two steps.  "torn": it ends within a write, which truncates the file
\* and writes the text in one go; a file found empty has UseKeyring TRUE.
\* "race": a process is started while another runs.
FaultKinds == {"keyring", "crash", "torn", "race"}

ASSUME StoreAssumption ==
  /\ Tuis \cap Clis = {}
  /\ UseKeyring \in BOOLEAN
  /\ FaultSets \subseteq SUBSET FaultKinds
  /\ \A faults \in FaultSets : "torn" \in faults => UseKeyring
  /\ NoHyper \notin Hypers
  /\ Plain \notin Uuids

Procs == Tuis \cup Clis

VARIABLES
  faults,   \* what may go wrong in this behaviour
  phase,    \* each process: "off", "ready", "add" or "write"
  adding,   \* the hypervisor an add is about, NoHyper in between
  mem,      \* its list
  file,     \* the list in the file
  keyring,  \* the credential under each reference
  used,     \* the references made so far
  told      \* the hypervisors the user was last told are added

vars == <<faults, phase, adding, mem, file, keyring, used, told>>

\* An entry holds its credential in the clear, or a reference to the keyring.
Entries == [hyper : Hypers, cred : Uuids \cup {Plain}, keychain : BOOLEAN, named : BOOLEAN]

TypeOK ==
  /\ faults \in FaultSets
  /\ phase \in [Procs -> {"off", "ready", "add", "write"}]
  /\ adding \in [Procs -> Hypers \cup {NoHyper}]
  /\ mem \in [Procs -> SUBSET Entries]
  /\ file \in SUBSET Entries
  /\ keyring \in [Uuids -> Hypers \cup {NoHyper}]
  /\ used \in SUBSET Uuids
  /\ told \in SUBSET Hypers

Init ==
  /\ faults \in FaultSets
  /\ phase = [p \in Procs |-> "off"]
  /\ adding = [p \in Procs |-> NoHyper]
  /\ mem = [p \in Procs |-> {}]
  /\ file = {}
  /\ keyring = [u \in Uuids |-> NoHyper]
  /\ used = {}
  /\ told = {}

Goto(p, s) == phase' = [phase EXCEPT ![p] = s]

\* real_credential
Credential(e) == IF ~e.keychain THEN e.hyper ELSE IF e.cred \in Uuids THEN keyring[e.cred] ELSE NoHyper

-----------------------------------------------------------------------------
\* The file, or nothing while another process writes it.
Start(p) ==
  /\ phase[p] = "off"
  /\ "race" \in faults \/ \A q \in Procs : phase[q] = "off"
  /\ \E read \in {file} \cup {{} : q \in {q \in Procs : phase[q] = "write"}} :
       mem' = [mem EXCEPT ![p] = read]
  /\ Goto(p, "ready")
  /\ UNCHANGED <<faults, adding, file, keyring, used, told>>

Exit(p) ==
  /\ phase[p] # "off"
  /\ phase[p] = "ready" \/ "crash" \in faults
  /\ Goto(p, "off")
  /\ mem' = [mem EXCEPT ![p] = {}]
  /\ adding' = [adding EXCEPT ![p] = NoHyper]
  /\ UNCHANGED <<faults, file, keyring, used, told>>

\* Mutant: the secret stays in the keyring.
ForgetKeepsSecret(p, e) ==
  /\ mem' = [mem EXCEPT ![p] = @ \ {e}]
  /\ UNCHANGED keyring

\* remove_hypervisor: the list and the keyring, not the file.
Forget(p, e) ==
  /\ mem' = [mem EXCEPT ![p] = @ \ {e}]
  /\ keyring' = IF e.keychain /\ e.cred \in Uuids
                THEN [keyring EXCEPT ![e.cred] = NoHyper] ELSE keyring

Remove(p, e) ==
  /\ p \in Tuis /\ phase[p] = "ready"
  /\ e \in mem[p]
  /\ Forget(p, e)
  /\ told' = told \ {e.hyper}
  /\ UNCHANGED <<faults, phase, adding, file, used>>

\* The form's hypervisor, its credential in the clear.
Add(p, h) ==
  /\ p \in Tuis /\ phase[p] = "ready"
  /\ adding' = [adding EXCEPT ![p] = h]
  /\ Goto(p, "add")
  /\ UNCHANGED <<faults, mem, file, keyring, used, told>>

\* update_hypervisor: out with the old, then an add.
Update(p, e, h) ==
  /\ p \in Tuis /\ phase[p] = "ready"
  /\ e \in mem[p]
  /\ Forget(p, e)
  /\ adding' = [adding EXCEPT ![p] = h]
  /\ told' = told \ {e.hyper}
  /\ Goto(p, "add")
  /\ UNCHANGED <<faults, file, used>>

\* An entry equal to the new one, whose credential is in the clear.
SameEntry(p, h) == \E e \in mem[p] : e.hyper = h /\ e.cred = Plain

\* Mutant: the credential is put in the keyring and left in the entry too.
NewKeepsSecret(h, c) == [hyper |-> h, cred |-> Plain, keychain |-> UseKeyring, named |-> FALSE]

\* The form may have learnt its name, which is left open: one that has is one
\* that no backfill gets an answer for.
New(h, c) == [hyper |-> h, cred |-> c, keychain |-> UseKeyring, named |-> FALSE]

Return(p, answer) ==
  /\ Goto(p, "ready")
  /\ adding' = [adding EXCEPT ![p] = NoHyper]
  /\ told' = IF answer THEN told \cup {adding[p]} ELSE told

AlreadyThere(p) ==
  /\ phase[p] = "add"
  /\ SameEntry(p, adding[p])
  /\ Return(p, TRUE)
  /\ UNCHANGED <<faults, mem, file, keyring, used>>

\* Mutant: references are not unique.
AnyUuid == Uuids

Fresh == Uuids \ used

Stored(p) ==
  /\ phase[p] = "add"
  /\ ~SameEntry(p, adding[p])
  /\ \E cred \in IF UseKeyring THEN Fresh ELSE {Plain} :
       /\ mem' = [mem EXCEPT ![p] = @ \cup {New(adding[p], cred)}]
       /\ IF UseKeyring
          THEN keyring' = [keyring EXCEPT ![cred] = adding[p]] /\ used' = used \cup {cred}
          ELSE UNCHANGED <<keyring, used>>
  /\ Goto(p, "write")
  /\ UNCHANGED <<faults, adding, file, told>>

\* PasswordSetError, after the hypervisor was put in the list.
NotStored(p) ==
  /\ phase[p] = "add"
  /\ ~SameEntry(p, adding[p])
  /\ UseKeyring /\ "keyring" \in faults
  /\ mem' = [mem EXCEPT ![p] = @ \cup {New(adding[p], Plain)}]
  /\ Return(p, FALSE)
  /\ UNCHANGED <<faults, file, keyring, used>>

\* Mutant: add_hypervisor does not write.
WriteForgotten(p) ==
  /\ phase[p] = "write"
  /\ file' = IF adding[p] = NoHyper THEN mem[p] ELSE file
  /\ IF adding[p] = NoHyper THEN Goto(p, "ready") /\ UNCHANGED <<adding, told>>
     ELSE Return(p, TRUE)
  /\ UNCHANGED <<faults, mem, keyring, used>>

Write(p) ==
  /\ phase[p] = "write"
  /\ file' = mem[p]
  /\ IF adding[p] = NoHyper THEN Goto(p, "ready") /\ UNCHANGED <<adding, told>>
     ELSE Return(p, TRUE)
  /\ UNCHANGED <<faults, mem, keyring, used>>

Torn(p) ==
  /\ phase[p] = "write" /\ "torn" \in faults
  /\ file' = {}
  /\ Goto(p, "off")
  /\ mem' = [mem EXCEPT ![p] = {}]
  /\ adding' = [adding EXCEPT ![p] = NoHyper]
  /\ UNCHANGED <<faults, keyring, used, told>>

\* update_default_page
SetPage(p) ==
  /\ p \in Tuis /\ phase[p] = "ready"
  /\ Goto(p, "write")
  /\ UNCHANGED <<faults, adding, mem, file, keyring, used, told>>

\* The CLI asks those hypervisors without a name whose credential it can read
\* for one; those that answer get it, and the list is written.
Backfill(p) ==
  /\ p \in Clis /\ phase[p] = "ready"
  /\ \E answered \in SUBSET {e \in mem[p] : ~e.named /\ Credential(e) # NoHyper} \ {{}} :
       mem' = [mem EXCEPT ![p] = (@ \ answered) \cup {[e EXCEPT !.named = TRUE] : e \in answered}]
  /\ Goto(p, "write")
  /\ UNCHANGED <<faults, adding, file, keyring, used, told>>

Next ==
  \E p \in Procs :
    \/ Start(p) \/ Exit(p) \/ Torn(p)
    \/ AlreadyThere(p) \/ Stored(p) \/ NotStored(p) \/ Write(p)
    \/ SetPage(p) \/ Backfill(p)
    \/ \E h \in Hypers : Add(p, h)
    \/ \E e \in mem[p] : Remove(p, e) \/ \E h \in Hypers : Update(p, e, h)

Spec == Init /\ [][Next]_vars

-----------------------------------------------------------------------------
(* "Hypervisors added via the TUI are stored in `~/.fluxnode_creator.yaml`
   with credentials in your system keyring" (README.md:164): what the user
   was told is added, and has not edited or removed since, is in the file
   with a credential that can be read, although processes end between any two
   steps.  A keyring that refuses, a torn write and a second process are left
   out: each of them loses hypervisors. *)
AddedIsStored ==
  faults \subseteq {"crash"} => \A h \in told : \E e \in file : e.hyper = h /\ Credential(e) = h

(* "the actual secret never touches disk" (docs/keyring.md:16), as long as the
   keyring takes every credential, whoever crashes and writes over whom.  One
   that it refuses is in the list in the clear by then, and the next write puts
   it on disk. *)
TakenSecretStaysOffDisk ==
  "keyring" \notin faults /\ UseKeyring => \A e \in file : e.cred # Plain

(* A credential in the keyring belongs to a hypervisor of the file, or to one
   that is being added, as long as nothing goes wrong: an edit or a removal
   takes the old one with it. *)
NoStraySecret ==
  faults = {} => \A u \in Uuids : keyring[u] # NoHyper =>
    \/ \E e \in file : e.cred = u
    \/ \E p \in Procs : phase[p] = "write" /\ \E e \in mem[p] : e.cred = u

(* A reference never leads to the credential of another hypervisor, whatever
   was edited, removed, lost or written over: arcane-mage never sends one
   host's token to another. *)
NeverAnothersSecret ==
  \A e \in file \cup UNION {mem[p] : p \in Procs} : Credential(e) \in {e.hyper, NoHyper}

-----------------------------------------------------------------------------
(* The inductive invariant behind the theorems (HypervisorStoreProofs) *)

\* A reference in a list was made once, for the hypervisor of its entry.
RefersTo(e) == e.cred \in Uuids => e.cred \in used /\ keyring[e.cred] \in {e.hyper, NoHyper}

StoreInv ==
  /\ TypeOK
  /\ \A e \in file : RefersTo(e)
  /\ \A p \in Procs : \A e \in mem[p] : RefersTo(e)
  /\ \A p \in Procs : phase[p] = "add" => adding[p] \in Hypers

\* The credential is where use_keyring says.
WellKept(e) == e.keychain = UseKeyring /\ (e.cred = Plain <=> ~UseKeyring)

KeptInv ==
  "keyring" \notin faults =>
    /\ \A e \in file : WellKept(e)
    /\ \A p \in Procs : \A e \in mem[p] : WellKept(e)

\* Without a race, one process at a time.  It adds what its form gave it.
SoloInv ==
  "race" \notin faults =>
    /\ \A p, q \in Procs : phase[p] # "off" /\ phase[q] # "off" => p = q
    /\ \A p \in Procs : phase[p] \in {"off", "ready"} => adding[p] = NoHyper

Found(list, h) == \E e \in list : e.hyper = h /\ Credential(e) = h

\* What was added is in the file and in the running process's list, which is
\* ahead of the file only while that process writes.
AddedInv ==
  faults \subseteq {"crash"} =>
    /\ \A h \in told : Found(file, h)
    /\ \A p \in Procs :
         /\ phase[p] # "off" => \A h \in told : Found(mem[p], h)
         /\ phase[p] \in {"ready", "add"} => mem[p] \subseteq file
         /\ phase[p] = "write" /\ adding[p] # NoHyper => Found(mem[p], adding[p])

HasRef(list, u) == \E e \in list : e.cred = u

\* A credential in the keyring is referred to by the running process, and by
\* the file unless that process writes.
RefInv ==
  faults = {} => \A u \in Uuids : keyring[u] # NoHyper =>
    /\ \A p \in Procs : phase[p] # "off" => HasRef(mem[p], u)
    /\ HasRef(file, u) \/ \E p \in Procs : phase[p] = "write"

=============================================================================
