----------------------------- MODULE Preflight -----------------------------
(***************************************************************************)
(* The checks Provisioner makes of a host before it touches it, as         *)
(* predicates on what the host answers.  A file name is a sequence of      *)
(* parts, a config a record of what it asks for.                           *)
(***************************************************************************)
EXTENDS Integers, Sequences

MinVersion == <<8, 4, 1>>
MinImportMiB == 10

\* A part of a version that is not a number, as in 8.4.1-rc: it is refused like
\* one that is too small.
NotANumber == -1

\* Mutant: every part is compared by itself: 9.0.0 is too old.
EachPartAtLeast(parts) == Len(parts) = 3 /\ \A i \in 1..3 : parts[i] >= MinVersion[i]

\* The first part that differs decides.
IsApiMinVersion(parts) ==
  /\ Len(parts) = 3
  /\ \A i \in 1..3 :
       (\A j \in 1..i - 1 : parts[j] = MinVersion[j]) => parts[i] >= MinVersion[i]

\* Each storage is there and has the content it is wanted for, and the images
\* fit on the import storage.  "storages" has a record of each by name.
ValidateStorage(storages, want) ==
  /\ \A use \in {"iso", "images", "import"} :
       want[use] \in DOMAIN storages /\ use \in storages[want[use]].content
  /\ storages[want["import"]].avail >= MinImportMiB

EndsWith(name, iso) == name[Len(name)] = iso

ValidateIso(files, iso) == \E f \in files : f.content = "iso" /\ EndsWith(f.name, iso)

ValidateNetwork(bridges, network) == network \in bridges

\* "online" is the set of nodes the cluster sees.
ValidateMember(site, host) == site.quorate /\ host \in site.online

\* A name is unused across the cluster.
NameUnused(vm, name) == \A v \in DOMAIN vm : vm[v].name # name

=============================================================================
