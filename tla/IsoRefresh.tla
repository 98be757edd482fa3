----------------------------- MODULE IsoRefresh -----------------------------
(***************************************************************************)
(* The commands that stage the latest ArcaneOS ISO on a host: refresh-iso  *)
(* of the CLI (Provisioner.refresh_iso), which has the host check the      *)
(* download against the release's sums, and the Ansible module iso_info,   *)
(* which does not.  Each is a process of its own; the download is a task   *)
(* of the host.  Commands adds the commands that are about VMs.            *)
(***************************************************************************)
EXTENDS Preflight

CONSTANTS
  Procs,     \* processes, one command each
  Worlds,    \* what a behaviour begins with, see Commands
  Iso,       \* the file name the release feed gives
  MaxTries   \* do_http's max_tries

\* "feed": the release server answers badly or not at all.  "mirror": it sends
\* another body than the release's.  "unread": the host cannot be read, or a
\* request is refused.  "error": a task of the host fails.  "unseen": the host
\* took a request and its outcome is not seen.  "crash": the process ends.
FaultKinds == {"feed", "mirror", "unread", "error", "unseen", "crash"}

VARIABLES
  world,     \* the commands, the host and what may go wrong: fixed
  at,        \* where each command is
  report,    \* what it tells: ok (exit code 0), changed, and an id
  tries,     \* of the release feed
  files,     \* the ISO storage
  download   \* the host's download task for each command

isoVars == <<world, at, report, tries, files, download>>

Command(p) == world.cmd[p]
Kind(p) == Command(p).kind
Fault(f) == f \in world.faults
Ended == {"done", "dead"}

Goto(p, s) == at' = [at EXCEPT ![p] = s]

End(p, ok, changed) ==
  /\ Goto(p, "done")
  /\ report' = [report EXCEPT ![p].ok = ok, ![p].changed = changed]

-----------------------------------------------------------------------------
(* The release feed: do_http *)

FeedAnswers(p) ==
  /\ at[p] = "feed"
  /\ IF Kind(p) = "isoInfo" /\ ~Command(p).download
     THEN End(p, TRUE, FALSE)
     ELSE Goto(p, "present") /\ UNCHANGED report
  /\ UNCHANGED <<world, tries, files, download>>

\* Refused, not JSON, of another shape, or broken off, which raises.
FeedIsUseless(p) ==
  /\ at[p] = "feed"
  /\ Fault("feed")
  /\ End(p, FALSE, FALSE)
  /\ UNCHANGED <<world, tries, files, download>>

\* Mutant: tries are not counted.
TriesForEver(p) ==
  /\ at[p] = "feed"
  /\ Fault("feed")
  /\ tries[p] < MaxTries
  /\ tries' = [tries EXCEPT ![p] = 1 - @]
  /\ UNCHANGED <<world, at, report, files, download>>

\* Busy, or no connection: tried again, MaxTries times in all.
FeedIsBusy(p) ==
  /\ at[p] = "feed"
  /\ Fault("feed")
  /\ tries' = [tries EXCEPT ![p] = @ + 1]
  /\ IF tries'[p] = MaxTries THEN End(p, FALSE, FALSE) ELSE UNCHANGED <<at, report>>
  /\ UNCHANGED <<world, files, download>>

-----------------------------------------------------------------------------
(* The host's storage *)

\* The file itself, which a VM's config names.
Staged == {f \in files : f.content = "iso" /\ f.name = <<Iso>>}

\* iso_info looks at no content type.
Present(p) ==
  IF Kind(p) = "refresh" THEN ValidateIso(files, Iso) ELSE \E f \in files : EndsWith(f.name, Iso)

\* A list that cannot be read is one without the ISO.
LookForIso(p) ==
  /\ at[p] = "present"
  /\ \/ Present(p) /\ End(p, TRUE, FALSE)
     \/ /\ ~Present(p) \/ Fault("unread")
        /\ Goto(p, IF Kind(p) = "refresh" THEN "sums" ELSE "request")
        /\ UNCHANGED report
  /\ UNCHANGED <<world, tries, files, download>>

\* The sums are fetched once, and must list the ISO.
FetchSums(p) ==
  /\ at[p] = "sums"
  /\ \/ Goto(p, "request") /\ UNCHANGED report
     \/ Fault("feed") /\ End(p, FALSE, FALSE)
  /\ UNCHANGED <<world, tries, files, download>>

RequestDownload(p) ==
  /\ at[p] = "request"
  /\ \/ download' = [download EXCEPT ![p] = "running"] /\ Goto(p, "wait") /\ UNCHANGED report
     \/ Fault("unread") /\ End(p, FALSE, FALSE) /\ UNCHANGED download
     \/ Fault("unseen") /\ End(p, FALSE, FALSE) /\ download' = [download EXCEPT ![p] = "running"]
  /\ UNCHANGED <<world, tries, files>>

\* Mutant: the sums are not given to the host.
UncheckedBody(p, good) == TRUE

\* Only a download that is to be checked is.
Accepted(p, good) == Kind(p) = "refresh" => good

\* With sums the host keeps the file it has, if that is the one they are of;
\* without, the new one takes its place.  What is not accepted leaves no file.
Download(p) ==
  /\ download[p] = "running"
  /\ \/ /\ Kind(p) = "refresh" /\ Staged # {}
        /\ download' = [download EXCEPT ![p] = IF \A f \in Staged : f.good THEN "ok" ELSE "error"]
        /\ UNCHANGED files
     \/ /\ Kind(p) # "refresh" \/ Staged = {}
        /\ \E good \in {TRUE, ~Fault("mirror")} :
             IF Accepted(p, good)
             THEN /\ files' = (files \ Staged)
                       \cup {[name |-> <<Iso>>, content |-> "iso", good |-> good]}
                  /\ download' = [download EXCEPT ![p] = "ok"]
             ELSE /\ download' = [download EXCEPT ![p] = "error"]
                  /\ UNCHANGED files
     \/ /\ Fault("error")
        /\ download' = [download EXCEPT ![p] = "error"]
        /\ UNCHANGED files
  /\ UNCHANGED <<world, at, report, tries>>

AwaitDownload(p) ==
  /\ at[p] = "wait"
  /\ \/ download[p] = "ok" /\ End(p, TRUE, TRUE)
     \/ (download[p] = "error" \/ Fault("unseen")) /\ End(p, FALSE, FALSE)
  /\ UNCHANGED <<world, tries, files, download>>

IsoStep(p) ==
  \/ FeedAnswers(p) \/ FeedIsUseless(p) \/ FeedIsBusy(p)
  \/ LookForIso(p) \/ FetchSums(p) \/ RequestDownload(p) \/ AwaitDownload(p)

=============================================================================
