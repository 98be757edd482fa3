----------------------------- MODULE MCCommands -----------------------------
(***************************************************************************)
(* Small instances of Commands: two commands at once or one after the      *)
(* other; the ISO commands; a validation of many kinds of host.            *)
(***************************************************************************)
EXTENDS Commands, TLC

CONSTANTS p1, p2

Wanted == [iso |-> "local", images |-> "lvm", import |-> "local"]
Cfg(name, host, id, start) ==
  [name |-> name, host |-> host, id |-> id, start |-> start, storage |-> Wanted, network |-> "vmbr0"]

A  == Cfg("a", "h1", NoId, TRUE)
A2 == Cfg("a", "h2", NoId, FALSE)
B  == Cfg("b", "h1", 2, FALSE)
B2 == Cfg("b", "h1", 2, TRUE)
Unnamed == Cfg(NoName, "h1", NoId, FALSE)

Cmd(kind, configs) == [kind |-> kind, configs |-> configs, download |-> TRUE]
None == Cmd("none", <<>>)
Refresh == Cmd("refresh", <<>>)
IsoInfo == Cmd("isoInfo", <<>>)
IsoName == [IsoInfo EXCEPT !.download = FALSE]

File(name, content, good) == [name |-> name, content |-> content, good |-> good]
TheIso == File(<<Iso>>, "iso", TRUE)
BadIso == File(<<Iso>>, "iso", FALSE)
Copy   == File(<<"old", Iso>>, "iso", TRUE)
Import == File(<<Iso>>, "import", TRUE)

Fine == [clustered |-> TRUE, forced |-> FALSE, quorate |-> TRUE, online |-> {"h1", "h2"},
         version |-> <<8, 4, 1>>, bridges |-> {"vmbr0"},
         storages |-> [local |-> [content |-> {"iso", "import"}, avail |-> 10],
                       lvm |-> [content |-> {"images"}, avail |-> 0]]]
Alone == [Fine EXCEPT !.clustered = FALSE]
Forced == [Fine EXCEPT !.forced = TRUE]

World(c1, c2, serial, site, vms, there, faults) ==
  [cmd |-> (p1 :> c1) @@ (p2 :> c2), serial |-> serial, site |-> site, vm |-> vms,
   files |-> there, faults |-> faults]

\* Two commands about VMs.
NoVms == [v \in {} |-> NoVm]
VmCommands == {Cmd("provision", <<A, B>>), Cmd("aProvision", <<A>>), Cmd("aProvision", <<A2>>),
               Cmd("aProvision", <<B2>>), Cmd("deprovision", <<A, B>>), Cmd("aDeprovision", <<A>>)}
VmWorlds ==
  {World(c1, c2, serial, site, vms, {TheIso}, faults) :
     c1 \in VmCommands, c2 \in VmCommands, serial \in BOOLEAN, site \in {Fine, Forced},
     vms \in {NoVms, 1 :> [name |-> "a", host |-> "h1"]},
     faults \in {{}, {"unread", "error"}, {"unread", "unseen", "crash"}}}

\* The ISO commands, with each other and with a provisioning.
IsoWorlds ==
  {World(c1, c2, FALSE, Fine, NoVms, there, faults) :
     c1 \in {Refresh, IsoInfo, IsoName}, c2 \in {Refresh, IsoInfo, Cmd("provision", <<A>>)},
     there \in {{}, {TheIso}, {BadIso}, {Copy}, {Import}},
     faults \in {{}, {"feed", "mirror"}, {"mirror", "unread", "error", "unseen"}, {"mirror", "unread"}}}

\* A validation, or a provisioning, on hosts of many kinds.
Versions == {<<8, 4, 1>>, <<8, 4, 0>>, <<8, 3, 9>>, <<8, 5, 0>>, <<9, 0, 0>>, <<7, 9, 9>>,
             <<9, 1>>, <<9, NotANumber, 0>>, <<8, 4, NotANumber>>, <<8, 10, 0>>}
Sites ==
  {[Fine EXCEPT !.version = v] : v \in Versions}
    \cup {[Fine EXCEPT !.clustered = c, !.forced = f, !.quorate = q, !.online = o] :
            c \in BOOLEAN, f \in BOOLEAN, q \in BOOLEAN, o \in {{"h1"}, {"h2"}}}
    \cup {Alone, [Fine EXCEPT !.bridges = {}], [Fine EXCEPT !.storages.local.avail = 9],
          [Fine EXCEPT !.storages.local.content = {"iso"}],
          [Fine EXCEPT !.storages = [local |-> Fine.storages.local]]}
SiteWorlds ==
  {World(c, None, FALSE, site, vms, there, faults) :
     c \in {Cmd("validate", <<A, B>>), Cmd("validate", <<Unnamed>>), Cmd("provision", <<A, B>>)},
     site \in Sites, vms \in {NoVms, 1 :> [name |-> "b", host |-> "h2"]},
     there \in {{TheIso}, {Import}}, faults \in {{}, {"unread"}}}

AllWorlds == VmWorlds \cup IsoWorlds \cup SiteWorlds
=============================================================================
