--------------------------- MODULE HypervisorForm ---------------------------
(***************************************************************************)
(* AddHypervisorScreen: the form in which a user types the connection of a *)
(* hypervisor, has it validated against the host, and saves it.  Validate  *)
(* and Save are enabled and disabled by watchers of what the form believes *)
(* of its fields; a validation is a worker that awaits the host while the  *)
(* user goes on typing, and several may be under way.                      *)
(***************************************************************************)
CONSTANTS
  Urls, Creds,  \* what may be in the two inputs
  Empty,        \* an input that is empty or not well-formed
  Existing,     \* connections that may be opened for editing
  Workers,      \* bounds the validations under way at once
  NoName        \* the host names no node

AuthTypes == {"token", "userpass"}

\* What the form hands on: where, how and with which credential.
Connections == [url : Urls, auth : AuthTypes, creds : Creds]

CONSTANTS
  Parses(_, _),  \* whether a credential parses as that kind
  Accepts(_),    \* the connections their host accepts, as long as it answers
  NameAt(_)      \* the nodes the host at a url names; NoName for none

VARIABLES
  url, creds, auth,  \* the fields
  valid,             \* hypervisor_valid
  canValidate,       \* the Validate button is enabled
  canSave,           \* the Save button is enabled
  message,           \* the label: "none", "error" or "info"
  name,              \* _resolved_name
  worker,            \* each validation: what it waits for, and the connection it tries
  found,             \* the connections a validation found good
  closed,            \* the screen is dismissed
  saved              \* what it is dismissed with, once it is saved

fields == <<url, creds, auth>>
buttons == <<valid, canValidate, canSave>>
vars == <<fields, buttons, message, name, worker, found, closed, saved>>

Connection == [url |-> url, auth |-> auth, creds |-> creds]

\* A worker that waits for nothing.
Idle == [at |-> "idle", conn |-> <<>>]

\* compute_form_valid.
Filled(u, c) == u # Empty /\ c # Empty

\* __init__, compose and on_mount: empty fields, or those of the hypervisor
\* being edited.
Init ==
  /\ \/ /\ url = Empty /\ creds = Empty /\ auth = "token"
        /\ name = NoName
     \/ \E conn \in Existing :
          /\ url = conn.url /\ creds = conn.creds /\ auth = conn.auth
          /\ name = NameAt(conn.url)
  /\ valid = FALSE
  /\ canValidate = Filled(url, creds)
  /\ canSave = FALSE
  /\ message = "none"
  /\ worker = [w \in Workers |-> Idle]
  /\ found = {}
  /\ closed = FALSE
  /\ saved = <<>>

\* watch_hypervisor_valid: both buttons follow it, when it changes.
SetValid(new) ==
  /\ valid' = new
  /\ IF new = valid
       THEN UNCHANGED <<canValidate, canSave>>
       ELSE canSave' = new /\ canValidate' = ~new

\* on_input_changed, with watch_form_valid before it: a change of the fields
\* resets the validation, and the watcher of that has the last word on Validate.
Typed ==
  /\ message' = "none"
  /\ valid' = FALSE
  /\ IF valid
       THEN canSave' = FALSE /\ canValidate' = TRUE
       ELSE /\ canSave' = canSave
            /\ canValidate' = IF Filled(url', creds') # Filled(url, creds)
                              THEN Filled(url', creds') ELSE canValidate
  /\ UNCHANGED <<auth, name, worker, found, closed, saved>>

TypeUrl == ~closed /\ \E u \in (Urls \cup {Empty}) \ {url} : url' = u /\ creds' = creds /\ Typed

TypeCreds == ~closed /\ \E c \in (Creds \cup {Empty}) \ {creds} : creds' = c /\ url' = url /\ Typed

\* on_select_changed: the kind of authentication changes, the validation stays.
PickAuth ==
  /\ ~closed
  /\ auth' \in AuthTypes \ {auth}
  /\ message' = "none"
  /\ UNCHANGED <<url, creds, buttons, name, worker, found, closed, saved>>

\* A validation has failed.
Fail(w, text) ==
  /\ worker' = [worker EXCEPT ![w] = Idle]
  /\ message' = text
  /\ SetValid(FALSE)
  /\ UNCHANGED <<fields, name, found, closed, saved>>

\* Validate is pressed and the worker runs to its first await: a credential that
\* does not parse fails at once; a password is exchanged for a ticket first.
Validate(w) ==
  /\ ~closed /\ canValidate /\ worker[w] = Idle
  /\ IF Parses(creds, auth)
       THEN /\ worker' = [worker EXCEPT ![w] =
                            [at |-> IF auth = "token" THEN "nodes" ELSE "ticket", conn |-> Connection]]
            /\ UNCHANGED <<fields, buttons, message, name, found, closed, saved>>
       ELSE Fail(w, "error")

\* from_user_pass has its ticket, or ends in None: no message is set then.
Ticket(w) ==
  /\ ~closed /\ worker[w].at = "ticket"
  /\ \/ /\ Accepts(worker[w].conn)
        /\ worker' = [worker EXCEPT ![w].at = "nodes"]
        /\ UNCHANGED <<fields, buttons, message, name, found, closed, saved>>
     \/ Fail(w, message)

\* get_hypervisor_nodes has answered: the name is taken from it, if it has one, and
\* the form is valid, whatever its fields are by now.
Nodes(w) ==
  /\ ~closed /\ worker[w].at = "nodes"
  /\ \/ /\ Accepts(worker[w].conn)
        /\ worker' = [worker EXCEPT ![w] = Idle]
        /\ found' = found \cup {worker[w].conn}
        /\ LET named == NameAt(worker[w].conn.url) IN name' = IF named = NoName THEN name ELSE named
        /\ message' = "info"
        /\ SetValid(TRUE)
        /\ UNCHANGED <<fields, closed, saved>>
     \/ Fail(w, "error")

\* The screen goes, and its workers with it.
Dismiss(result) ==
  /\ closed' = TRUE
  /\ saved' = result
  /\ worker' = [w \in Workers |-> Idle]
  /\ UNCHANGED <<fields, buttons, message, name, found>>

Save == ~closed /\ canSave /\ Dismiss([conn |-> Connection, name |-> name])

Cancel == ~closed /\ Dismiss(<<>>)

Next ==
  \/ TypeUrl \/ TypeCreds \/ PickAuth
  \/ \E w \in Workers : Validate(w) \/ Ticket(w) \/ Nodes(w)
  \/ Save \/ Cancel

Spec == Init /\ [][Next]_vars

-----------------------------------------------------------------------------
\* What is saved is a connection the host was seen to accept: "Reset validation
\* when fields change" (screens/hypervisor.py:112).
SavedIsValidated == saved # <<>> => saved.conn \in found
=============================================================================
