---------------------------- MODULE FeedHandoff ----------------------------
(***************************************************************************)
(* The durable hand-off of a feed body from the downloader loop to the     *)
(* processing loop of update-ipsets.                                       *)
(*                                                                         *)
(* For every feed the downloader keeps the raw source it fetched last and  *)
(* stages the canonical body it derives from it in <feed>.new; the         *)
(* processing loop claims that file by renaming it to <feed>.processing,   *)
(* commits it as <feed>.ipset (or .netset) and as the binary file latest,  *)
(* and removes the claimed file.  The queues that connect the two loops    *)
(* are in memory, so a restart rebuilds them from the files it finds.      *)
(*                                                                         *)
(* The two loops run concurrently and share only these files and the       *)
(* processing queue; every file operation is a step of its own.            *)
(***************************************************************************)
EXTENDS Integers, FiniteSets

CONSTANTS
  Feeds,       (* plain feeds: one upstream source, one canonical body     *)
  MaxVersion,  (* bound: how many versions of its content a source serves  *)
  Content,     (* versions with the same canonical body have one content   *)
  MaxFaults,   (* bound: failing operations (I/O errors, parse errors...)  *)
  MaxCrashes,  (* bound: crashes of the daemon                             *)
  MaxRaces     (* bound: how often the processing loop moves or removes a  *)
               (* body between the downloader's look at it and its touch   *)

ASSUME HandoffAssumption ==
  /\ MaxVersion \in Nat \ {0}
  /\ Content \in [1..MaxVersion -> 1..MaxVersion]
  /\ MaxFaults \in Nat
  /\ MaxCrashes \in Nat
  /\ MaxRaces \in Nat

(***************************************************************************)
(* What a body file holds: nothing (the file does not exist), the body of  *)
(* one version of the upstream content, or zero bytes that no source ever  *)
(* served.                                                                 *)
(***************************************************************************)
None     == 0
Blank    == -1
Versions == 1..MaxVersion
Body     == Versions \cup {None, Blank}
Real(b)  == b \in Versions

\* canonicalFeedBodySame compares the lines, comments left aside, of the file and
\* of the canonical body that was prepared: bodies with the same lines have one
\* content.
SameBody(a, b) == Real(a) /\ Real(b) /\ Content[a] = Content[b]

VARIABLES
  upstream,   (* the version each source serves                            *)
  raw,        (* <feed>.source, the raw file fetched last                  *)
  staged,     (* <feed>.new                                                *)
  claimed,    (* <feed>.processing                                         *)
  committed,  (* <feed>.ipset or <feed>.netset                             *)
  latest,     (* lib/<feed>/latest, the binary set                         *)
  dpc,        (* where the download worker of each feed is                 *)
  dpath,      (* the file it compares with, and then touches               *)
  admit,      (* whether its decision will name the feed for processing    *)
  handing,    (* feeds whose worker finished and has yet to enqueue them   *)
  waiting,    (* processing.waiting                                        *)
  active,     (* processing.active                                         *)
  deferred,   (* processing.deferred                                       *)
  batch,      (* where the processing loop is                              *)
  items,      (* the batch it drained from the queue                       *)
  ppc,        (* where the batch is with each of its feeds                 *)
  psrc,       (* the file the batch reads the feed's body from             *)
  parsed,     (* the body it read                                          *)
  up,         (* whether the daemon runs                                   *)
  faults, crashes, races

disk     == <<raw, staged, claimed, committed, latest>>
download == <<dpc, dpath, admit, handing>>
queue    == <<waiting, active, deferred>>
process  == <<batch, items, ppc, psrc, parsed>>
budget   == <<up, faults, crashes, races>>
vars     == <<upstream, disk, download, queue, process, budget>>

DownloadStates == {"idle", "fetch", "prepare", "compare", "clear", "write",
                   "touch", "blank", "done"}
ProcessStates  == {"idle", "queued", "claimed", "parsed", "latest", "written",
                   "removed", "done", "failed"}
BatchStates    == {"idle", "drained", "running", "published", "settled"}
Paths          == {"new", "processing", "committed"}

(***************************************************************************)
(* Files.                                                                  *)
(***************************************************************************)
File(f, path) == CASE path = "new"        -> staged[f]
                   [] path = "processing" -> claimed[f]
                   [] path = "committed"  -> committed[f]

\* existingLatestFeedBodyPath: the newest local body of the feed.
\* Faulty variant: the committed body first.
CommittedFirst(f) == IF committed[f] # None THEN "committed" ELSE "new"

LatestPath(f) == CASE staged[f] # None  -> "new"
                   [] staged[f] = None /\ claimed[f] # None -> "processing"
                   [] OTHER             -> "committed"

Newest(f)   == File(f, LatestPath(f))
HasBody(f)  == Newest(f) # None

Fault ==
  /\ faults < MaxFaults
  /\ faults' = faults + 1
  /\ UNCHANGED <<up, crashes, races>>

Init ==
  /\ upstream  = [f \in Feeds |-> 1]
  /\ raw       = [f \in Feeds |-> None]
  /\ staged    = [f \in Feeds |-> None]
  /\ claimed   = [f \in Feeds |-> None]
  /\ committed = [f \in Feeds |-> None]
  /\ latest    = [f \in Feeds |-> None]
  /\ dpc       = [f \in Feeds |-> "idle"]
  /\ dpath     = [f \in Feeds |-> "committed"]
  /\ admit     = [f \in Feeds |-> FALSE]
  /\ handing   = {}
  /\ waiting   = {}
  /\ active    = {}
  /\ deferred  = {}
  /\ batch     = "idle"
  /\ items     = {}
  /\ ppc       = [f \in Feeds |-> "idle"]
  /\ psrc      = [f \in Feeds |-> "committed"]
  /\ parsed    = [f \in Feeds |-> None]
  /\ up        = TRUE
  /\ faults    = 0
  /\ crashes   = 0
  /\ races     = 0

(***************************************************************************)
(* The environment: the source serves new content.                         *)
(***************************************************************************)
Serve(f) ==
  /\ upstream[f] < MaxVersion
  /\ upstream' = [upstream EXCEPT ![f] = @ + 1]
  /\ UNCHANGED <<disk, download, queue, process, budget>>

(***************************************************************************)
(* The download worker of feed f.  The scheduler never runs two for one    *)
(* feed (module DownloadQueue), so the steps of one worker are sequential. *)
(***************************************************************************)
At(f, pc) == up /\ dpc[f] = pc

Goto(f, pc) == dpc' = [dpc EXCEPT ![f] = pc]

\* The worker returns; its local variables are gone.
Leave(f) ==
  /\ Goto(f, "idle")
  /\ dpath' = [dpath EXCEPT ![f] = "committed"]
  /\ admit' = [admit EXCEPT ![f] = FALSE]

\* The scheduler dispatches the feed; a manual recheck forces processing.
StartDownload(f, force) ==
  /\ At(f, "idle")
  /\ Goto(f, "fetch")
  /\ admit' = [admit EXCEPT ![f] = force]
  /\ UNCHANGED <<upstream, disk, dpath, handing, queue, process, budget>>

\* StatusOK: the fetched file replaces the raw file at once.
FetchNew(f) ==
  /\ At(f, "fetch")
  /\ raw[f] # upstream[f]
  /\ raw' = [raw EXCEPT ![f] = upstream[f]]
  /\ Goto(f, "prepare")
  /\ UNCHANGED <<upstream, staged, claimed, committed, latest, dpath, admit,
                 handing, queue, process, budget>>

\* Faulty variant: "same" without a local body is not rebuilt.
TouchAnyBody(f) ==
  /\ At(f, "fetch")
  /\ raw[f] = upstream[f]
  /\ Goto(f, "touch")
  /\ dpath' = [dpath EXCEPT ![f] = LatestPath(f)]
  /\ UNCHANGED <<upstream, disk, admit, handing, queue, process, budget>>

\* StatusNotModified or StatusSame: the raw file is what upstream serves.
\* A forced download, or one with no local body, rebuilds the body from it;
\* otherwise "same" touches the newest local body and "not modified" ends.
FetchUnchanged(f) ==
  /\ At(f, "fetch")
  /\ raw[f] = upstream[f]
  /\ IF admit[f] \/ ~HasBody(f)
       THEN Goto(f, "prepare") /\ UNCHANGED dpath
       ELSE \/ /\ Goto(f, "touch")
               /\ dpath' = [dpath EXCEPT ![f] = LatestPath(f)]
            \/ Goto(f, "done") /\ UNCHANGED dpath
  /\ UNCHANGED <<upstream, disk, admit, handing, queue, process, budget>>

\* The body is ready; the file to compare it with is chosen by name.
Prepare(f) ==
  /\ At(f, "prepare")
  /\ Goto(f, "compare")
  /\ dpath' = [dpath EXCEPT ![f] = LatestPath(f)]
  /\ UNCHANGED <<upstream, disk, admit, handing, queue, process, budget>>

Compare(f) ==
  /\ At(f, "compare")
  /\ Goto(f, IF SameBody(File(f, dpath[f]), raw[f]) THEN "touch" ELSE "clear")
  /\ UNCHANGED <<upstream, disk, dpath, admit, handing, queue, process, budget>>

\* stageFeedBodyBytes removes the staged file before it writes the new one.
ClearStage(f) ==
  /\ At(f, "clear")
  /\ staged' = [staged EXCEPT ![f] = None]
  /\ Goto(f, "write")
  /\ UNCHANGED <<upstream, raw, claimed, committed, latest, dpath, admit,
                 handing, queue, process, budget>>

WriteStage(f) ==
  /\ At(f, "write")
  /\ staged' = [staged EXCEPT ![f] = raw[f]]
  /\ dpath'  = [dpath EXCEPT ![f] = "new"]
  /\ admit'  = [admit EXCEPT ![f] = TRUE]
  /\ Goto(f, "touch")
  /\ UNCHANGED <<upstream, raw, claimed, committed, latest, handing, queue,
                 process, budget>>

\* touchFileAt stamps the file if it is still there, and otherwise creates
\* an empty one: the look at the file and its creation are two steps.
Touch(f) ==
  /\ At(f, "touch")
  /\ Goto(f, IF File(f, dpath[f]) # None THEN "done" ELSE "blank")
  /\ UNCHANGED <<upstream, disk, dpath, admit, handing, queue, process, budget>>

CreateBlank(f) ==
  /\ At(f, "blank")
  /\ staged'    = IF dpath[f] = "new" THEN [staged EXCEPT ![f] = Blank] ELSE staged
  /\ claimed'   = IF dpath[f] = "processing" THEN [claimed EXCEPT ![f] = Blank] ELSE claimed
  /\ committed' = IF dpath[f] = "committed" THEN [committed EXCEPT ![f] = Blank] ELSE committed
  /\ Goto(f, "done")
  /\ UNCHANGED <<upstream, raw, latest, dpath, admit, handing, queue, process,
                 budget>>

\* Any step may fail: the fetch or the move of its result, preparing the
\* body or saving a history snapshot of it, the comparison, the write, the
\* touch.  The worker gives up and reports nothing; the files stay as they are.
DownloadFails(f) ==
  /\ \E pc \in {"fetch", "prepare", "compare", "write", "touch", "blank"} : At(f, pc)
  /\ Fault
  /\ Leave(f)
  /\ UNCHANGED <<upstream, disk, handing, queue, process>>

\* finishDownload frees the feed's download slot before the worker enqueues
\* the feed for processing.  Bound: one worker per feed between the two.
FinishDownload(f) ==
  /\ At(f, "done")
  /\ f \notin handing
  /\ Leave(f)
  /\ handing' = IF admit[f] THEN handing \cup {f} ELSE handing
  /\ UNCHANGED <<upstream, disk, queue, process, budget>>

(***************************************************************************)
(* The processing queue.                                                   *)
(***************************************************************************)
\* enqueueProcessingLocked: merge, defer or admit.
Enqueue(f) ==
  /\ deferred' = IF f \notin waiting /\ f \in active THEN deferred \cup {f} ELSE deferred
  /\ waiting'  = IF f \notin active THEN waiting \cup {f} ELSE waiting
  /\ UNCHANGED active

HandOver(f) ==
  /\ up
  /\ f \in handing
  /\ handing' = handing \ {f}
  /\ Enqueue(f)
  /\ UNCHANGED <<upstream, disk, dpc, dpath, admit, process, budget>>

\* A manual reprocess, or a wave after a provider update, of a feed that has
\* a local body.
Reprocess(f) ==
  /\ up
  /\ HasBody(f)
  /\ Enqueue(f)
  /\ UNCHANGED <<upstream, disk, download, process, budget>>

\* drainProcessingQueue and markProcessingActive take the lock separately.
Drain ==
  /\ up
  /\ batch = "idle"
  /\ waiting # {}
  /\ items' = waiting
  /\ waiting' = {}
  /\ batch' = "drained"
  /\ UNCHANGED <<upstream, disk, download, active, deferred, ppc, psrc, parsed,
                 budget>>

MarkActive ==
  /\ up
  /\ batch = "drained"
  /\ active' = active \cup items
  /\ ppc' = [f \in Feeds |-> IF f \in items THEN "queued" ELSE "idle"]
  /\ batch' = "running"
  /\ UNCHANGED <<upstream, disk, download, waiting, deferred, items, psrc, parsed,
                 budget>>

(***************************************************************************)
(* The processing batch.  Its feeds are worked on concurrently, each       *)
(* through claim, parse, write latest, write committed, remove, complete.  *)
(***************************************************************************)
In(f, pc) == up /\ batch = "running" /\ f \in items /\ ppc[f] = pc

Step(f, pc) == ppc' = [ppc EXCEPT ![f] = pc]

\* Moving a body that the downloader is about to touch is a race.
Move(f) ==
  /\ dpc[f] = "touch" => races < MaxRaces
  /\ races' = IF dpc[f] = "touch" THEN races + 1 ELSE races
  /\ UNCHANGED <<up, faults, crashes>>

\* Faulty variant: the batch reads the raw file again.
RawSource(f) == raw[f]

Source(f) == IF psrc[f] = "processing" THEN claimed[f] ELSE committed[f]

\* Faulty variant: the newest body first, an older claimed one again later.
ClaimNewest(f) ==
  /\ In(f, "queued")
  /\ staged[f] # None
  /\ Move(f)
  /\ claimed' = [claimed EXCEPT ![f] = staged[f]]
  /\ staged'  = [staged EXCEPT ![f] = claimed[f]]
  /\ psrc' = [psrc EXCEPT ![f] = "processing"]
  /\ Step(f, "claimed")
  /\ UNCHANGED <<upstream, raw, committed, latest, download, queue, batch, items,
                 parsed>>

\* Faulty variant: the staged body is read where it is.
ClaimInPlace(f) ==
  /\ In(f, "queued")
  /\ psrc' = [psrc EXCEPT ![f] = LatestPath(f)]
  /\ Step(f, "claimed")
  /\ UNCHANGED <<upstream, disk, download, queue, batch, items, parsed, budget>>

\* claimProcessingFeedBody: a body claimed before and never finished comes
\* first, then a staged one, then the committed body (a reprocess).
Claim(f) ==
  /\ In(f, "queued")
  /\ \/ /\ claimed[f] # None
        /\ psrc' = [psrc EXCEPT ![f] = "processing"]
        /\ Step(f, "claimed")
        /\ UNCHANGED <<staged, claimed, budget>>
     \/ /\ claimed[f] = None
        /\ staged[f] # None
        /\ Move(f)
        /\ claimed' = [claimed EXCEPT ![f] = staged[f]]
        /\ staged'  = [staged EXCEPT ![f] = None]
        /\ psrc' = [psrc EXCEPT ![f] = "processing"]
        /\ Step(f, "claimed")
     \/ /\ claimed[f] = None
        /\ staged[f] = None
        /\ psrc' = [psrc EXCEPT ![f] = "committed"]
        /\ Step(f, IF committed[f] # None THEN "claimed" ELSE "failed")
        /\ UNCHANGED <<staged, claimed, budget>>
  /\ UNCHANGED <<upstream, raw, committed, latest, download, queue, batch, items,
                 parsed>>

\* The claimed body is read and parsed; what it differs in from the latest set is
\* the business of Retention.  A feed that was disabled after it was queued is
\* skipped before it is claimed: feeds stay enabled here.
Parse(f) ==
  /\ In(f, "claimed")
  /\ parsed' = [parsed EXCEPT ![f] = Source(f)]
  /\ Step(f, "parsed")
  /\ UNCHANGED <<upstream, disk, download, queue, batch, items, psrc, budget>>

\* Faulty variant: the claimed file goes before its body is committed.
RemoveEarly(f) ==
  /\ In(f, "parsed")
  /\ latest'  = [latest EXCEPT ![f] = parsed[f]]
  /\ claimed' = [claimed EXCEPT ![f] = None]
  /\ Step(f, "latest")
  /\ UNCHANGED <<upstream, raw, staged, committed, download, queue,
                 batch, items, psrc, parsed, budget>>

\* finalize: the binary set first, then the text, then the claimed file goes.
WriteLatest(f) ==
  /\ In(f, "parsed")
  /\ latest' = [latest EXCEPT ![f] = parsed[f]]
  /\ Step(f, "latest")
  /\ UNCHANGED <<upstream, raw, staged, claimed, committed, download, queue,
                 batch, items, psrc, parsed, budget>>

WriteCommitted(f) ==
  /\ In(f, "latest")
  /\ committed' = [committed EXCEPT ![f] = Source(f)]
  /\ Step(f, "written")
  /\ UNCHANGED <<upstream, raw, staged, claimed, latest, download, queue, batch,
                 items, psrc, parsed, budget>>

RemoveClaimed(f) ==
  /\ In(f, "written")
  /\ Move(f)
  /\ claimed' = IF psrc[f] = "processing" THEN [claimed EXCEPT ![f] = None] ELSE claimed
  /\ Step(f, "removed")
  /\ UNCHANGED <<upstream, raw, staged, committed, latest, download, queue,
                 batch, items, psrc, parsed>>

\* A claimed file that cannot be removed is only logged.
RemoveClaimedFails(f) ==
  /\ In(f, "written")
  /\ Fault
  /\ Step(f, "removed")
  /\ UNCHANGED <<upstream, disk, download, queue, batch, items, psrc, parsed>>

\* The history and retention ledgers are updated.
Complete(f) ==
  /\ In(f, "removed")
  /\ Step(f, "done")
  /\ UNCHANGED <<upstream, disk, download, queue, batch, items, psrc, parsed, budget>>

\* Any other failure ends the feed's part of the batch where it stands.
ProcessFails(f) ==
  /\ \E pc \in {"queued", "claimed", "parsed", "latest", "removed"} : In(f, pc)
  /\ Fault
  /\ Step(f, "failed")
  /\ UNCHANGED <<upstream, disk, download, queue, batch, items, psrc, parsed>>

(***************************************************************************)
(* The end of a batch: publication, then finishProcessing for the feeds    *)
(* that succeeded and, in a second critical section, for those that failed.*)
(***************************************************************************)
SourcesDone == up /\ batch = "running" /\ \A f \in items : ppc[f] \in {"done", "failed"}

Publish ==
  /\ SourcesDone
  /\ batch' = "published"
  /\ UNCHANGED <<upstream, disk, download, queue, items, ppc, psrc, parsed, budget>>

\* Faulty variant: a request deferred meanwhile is dropped.
ReleaseOnly(done) ==
  /\ active'   = active \ done
  /\ deferred' = deferred \ done
  /\ UNCHANGED waiting

\* finishProcessing(done, requeue = FALSE)
Release(done) ==
  /\ active'   = active \ done
  /\ waiting'  = waiting \cup (done \cap deferred)
  /\ deferred' = deferred \ done

\* finishProcessing(again, requeue = TRUE): the deferred request merges into
\* the one that is queued again.
Requeue(again) ==
  /\ active'   = active \ again
  /\ waiting'  = waiting \cup again
  /\ deferred' = deferred \ again

Forget ==
  /\ batch'  = "idle"
  /\ items'  = {}
  /\ ppc'    = [f \in Feeds |-> "idle"]
  /\ psrc'   = [f \in Feeds |-> "committed"]
  /\ parsed' = [f \in Feeds |-> None]

\* RunOnce returns an error: every feed of the batch is queued again.
PublishFails ==
  /\ SourcesDone
  /\ Fault
  /\ Requeue(items)
  /\ Forget
  /\ UNCHANGED <<upstream, disk, download>>

FinishSucceeded ==
  /\ up
  /\ batch = "published"
  /\ Release({f \in items : ppc[f] = "done"})
  /\ batch' = "settled"
  /\ UNCHANGED <<upstream, disk, download, items, ppc, psrc, parsed, budget>>

FinishFailed ==
  /\ up
  /\ batch = "settled"
  /\ Requeue({f \in items : ppc[f] = "failed"})
  /\ Forget
  /\ UNCHANGED <<upstream, disk, download, budget>>

(***************************************************************************)
(* Crash and restart: the files stay, everything else is gone.  Before the *)
(* loops start, recoverStagedWork claims the staged bodies and queues each *)
(* feed that has a staged or a claimed one, once.                          *)
(***************************************************************************)
Crash ==
  /\ up
  /\ crashes < MaxCrashes
  /\ crashes' = crashes + 1
  /\ up' = FALSE
  /\ dpc' = [f \in Feeds |-> "idle"]
  /\ dpath' = [f \in Feeds |-> "committed"]
  /\ admit' = [f \in Feeds |-> FALSE]
  /\ handing' = {}
  /\ waiting' = {}
  /\ active' = {}
  /\ deferred' = {}
  /\ Forget
  /\ UNCHANGED <<upstream, disk, faults, races>>

\* Faulty variant: a body claimed before the crash is not queued.
RecoverStagedOnly ==
  /\ ~up
  /\ up' = TRUE
  /\ waiting' = {f \in Feeds : staged[f] # None}
  /\ UNCHANGED <<upstream, disk, download, active, deferred, process, faults,
                 crashes, races>>

Recover ==
  /\ ~up
  /\ up' = TRUE
  /\ waiting' = {f \in Feeds : staged[f] # None \/ claimed[f] # None}
  /\ claimed' = [f \in Feeds |-> IF claimed[f] = None THEN staged[f] ELSE claimed[f]]
  /\ staged'  = [f \in Feeds |-> IF claimed[f] = None THEN None ELSE staged[f]]
  /\ UNCHANGED <<upstream, raw, committed, latest, download, active, deferred,
                 process, faults, crashes, races>>

(***************************************************************************)
(* The specification.                                                      *)
(***************************************************************************)
DownloadStep(f) ==
  \/ FetchNew(f)
  \/ FetchUnchanged(f)
  \/ Prepare(f)
  \/ Compare(f)
  \/ ClearStage(f)
  \/ WriteStage(f)
  \/ Touch(f)
  \/ CreateBlank(f)
  \/ FinishDownload(f)

ProcessStep(f) ==
  \/ Claim(f)
  \/ Parse(f)
  \/ WriteLatest(f)
  \/ WriteCommitted(f)
  \/ RemoveClaimed(f)
  \/ Complete(f)

BatchStep == Drain \/ MarkActive \/ Publish \/ FinishSucceeded \/ FinishFailed

Next ==
  \/ \E f \in Feeds :
       \/ Serve(f)
       \/ \E force \in BOOLEAN : StartDownload(f, force)
       \/ DownloadStep(f)
       \/ DownloadFails(f)
       \/ HandOver(f)
       \/ Reprocess(f)
       \/ ProcessStep(f)
       \/ RemoveClaimedFails(f)
       \/ ProcessFails(f)
  \/ BatchStep
  \/ PublishFails
  \/ Crash
  \/ Recover

\* A feed is due again and again (its cadence), a worker that runs goes on,
\* the processing loop wakes up on its timer, and a stopped daemon restarts.
\* A batch is never blocked by the downloader; strong fairness makes up for
\* the interleavings that the bound on races leaves out.
Fairness ==
  /\ \A f \in Feeds : /\ WF_vars(StartDownload(f, FALSE))
                      /\ WF_vars(DownloadStep(f))
                      /\ WF_vars(HandOver(f))
                      /\ SF_vars(ProcessStep(f))
  /\ WF_vars(BatchStep)
  /\ WF_vars(Recover)

Spec     == Init /\ [][Next]_vars
FairSpec == Spec /\ Fairness

(***************************************************************************)
(* Properties.                                                             *)
(***************************************************************************)
\* Every variable has its type: files hold bodies, workers are at a step of
\* theirs, queues hold feeds, and the fault budgets are respected.
TypeOK ==
  /\ upstream   \in [Feeds -> Versions]
  /\ raw        \in [Feeds -> Versions \cup {None}]
  /\ staged     \in [Feeds -> Body]
  /\ claimed    \in [Feeds -> Body]
  /\ committed  \in [Feeds -> Body]
  /\ latest     \in [Feeds -> Body]
  /\ dpc        \in [Feeds -> DownloadStates]
  /\ dpath      \in [Feeds -> Paths]
  /\ admit      \in [Feeds -> BOOLEAN]
  /\ handing    \in SUBSET Feeds
  /\ waiting    \in SUBSET Feeds
  /\ active     \in SUBSET Feeds
  /\ deferred   \in SUBSET Feeds
  /\ batch      \in BatchStates
  /\ items      \in SUBSET Feeds
  /\ ppc        \in [Feeds -> ProcessStates]
  /\ psrc       \in [Feeds -> {"processing", "committed"}]
  /\ parsed     \in [Feeds -> Body]
  /\ up         \in BOOLEAN
  /\ faults     \in 0..MaxFaults
  /\ crashes    \in 0..MaxCrashes
  /\ races      \in 0..MaxRaces

\* The local bodies of a feed.
Bodies(f) == {staged[f], claimed[f], committed[f]}

\* The pipeline never runs backwards: what is committed is not newer than
\* what is claimed, what is claimed not newer than what is staged, none of
\* them newer than the raw file, nor that newer than what the source serves,
\* whatever fails, crashes or interleaves.
\* (helpers.go: the order in which a claim and a comparison look for bodies.)
Before(a, b) == Real(a) /\ Real(b) => a <= b

BodyOrder ==
  \A f \in Feeds :
    /\ Before(committed[f], claimed[f])
    /\ Before(committed[f], staged[f])
    /\ Before(claimed[f], staged[f])
    /\ \A b \in Bodies(f) : Real(b) => b <= raw[f]
    /\ raw[f] <= upstream[f]

\* A commit replaces the body of a feed by the same or a newer version of it,
\* never by an older one, although a batch can retry a body it claimed long
\* before the one that is staged now.
NoRegression ==
  [][\A f \in Feeds : Before(committed[f], committed'[f])]_vars

\* finalize.go:41 writes latest before the committed text "so FileSet-based
\* readers and the committed feed body stay aligned": whenever the two differ,
\* also after a crash or an error between the two writes, the claimed body
\* that aligns them is still on disk.
LatestBacked ==
  \A f \in Feeds : latest[f] # committed[f] => claimed[f] = latest[f]

\* No local body is anything but a version the source served.
NoInventedBody ==
  \A f \in Feeds : Blank \notin {staged[f], claimed[f], committed[f], latest[f]}

\* What makes LatestBacked and NoInventedBody hold when no body is moved under
\* the downloader: the batch commits the very body it parsed and wrote to
\* latest, and the file a worker is about to touch is there.
BatchSound(f) ==
  /\ ppc[f] \in {"claimed", "parsed", "latest", "written"} => Source(f) # None
  /\ ppc[f] \in {"parsed", "latest", "written"} => parsed[f] = Source(f)
  /\ ppc[f] \in {"latest", "written"} => latest[f] = parsed[f]
  /\ ppc[f] = "written" => committed[f] = parsed[f]
  /\ latest[f] = None => committed[f] = None

DownloadSound(f) ==
  /\ dpc[f] \in {"prepare", "compare", "clear", "write"} => raw[f] # None
  /\ dpc[f] = "touch" => File(f, dpath[f]) # None
  /\ dpc[f] # "blank"
  /\ ~up => dpc[f] = "idle" /\ ppc[f] = "idle"

Aligned ==
  /\ NoInventedBody
  /\ LatestBacked
  /\ \A f \in Feeds : BatchSound(f) /\ DownloadSound(f)

\* Who will still bring a staged or claimed body of f to a claim?
Queued(f)    == f \in waiting \cup deferred \cup handing
InBatch(f)   == f \in items /\ ppc[f] \notin {"done", "removed"}
ToClaim(f)   == f \in items /\ \/ ppc[f] = "failed"
                               \/ /\ batch = "drained" \/ ppc[f] = "queued"
                                  /\ claimed[f] = None
Reporting(f) == admit[f] /\ dpc[f] \in {"touch", "blank", "done"}

\* Nothing has failed, crashed or raced so far.
Calm == faults = 0 /\ crashes = 0 /\ races = 0

\* Every staged body and every claimed body has somebody on the way to it: a
\* queue entry, a batch that has yet to claim it or will queue its feed again,
\* or the worker that staged it.
StagedAttended(f)  == staged[f] # None => Queued(f) \/ ToClaim(f) \/ Reporting(f)
ClaimedAttended(f) == claimed[f] # None => Queued(f) \/ InBatch(f)

NoOrphan == up => \A f \in Feeds : StagedAttended(f) /\ ClaimedAttended(f)

\* A staged body is attended as long as nothing fails, crashes or races,
\* whatever is staged while a batch works on the feed (queue_admission.go:96).
StagedNotForgotten == Calm => \A f \in Feeds : StagedAttended(f)

\* A claimed one is also after a restart (download_queries.go:81).
ClaimedNotForgotten ==
  up /\ faults = 0 /\ races = 0 => \A f \in Feeds : ClaimedAttended(f)

\* A download that ends without handing work over leaves the newest local
\* body equivalent to the raw file it just checked, also when the source goes
\* back to content the feed still has committed while another body is staged.
UnchangedIsCurrent ==
  \A f \in Feeds :
    dpc[f] = "done" /\ ~admit[f] =>
      \E b \in Bodies(f) : SameBody(b, raw[f]) /\ \A c \in Bodies(f) : Before(c, b)

\* It does as long as nothing fails, crashes or races (helpers.go:153).
UnchangedInCalm == Calm => UnchangedIsCurrent

\* The newest version among the local bodies never gets older, whatever fails
\* or crashes, unless bodies race or the worker that replaces the staged body
\* removes it first (feed_body_stage.go:56).
NewestKept ==
  [][\A f \in Feeds :
       \/ races' > 0
       \/ dpc'[f] = "write"
       \/ \A b \in Bodies(f) : Real(b) => \E c \in Bodies(f)' : Real(c) /\ b <= c]_vars

\* A body the processing loop has claimed is committed in the end, also when its
\* batch fails or a feed of the batch does (processing_loop.go:92 and 110).
ClaimedIsCommitted ==
  \A f \in Feeds : \A v \in Versions :
    claimed[f] = v ~> committed[f] = v

\* If nothing fails, crashes or races, the content of the version a source
\* settles on is committed for good.
UpToDate ==
  []Calm => \A f \in Feeds : <>[]SameBody(committed[f], upstream[f])

(***************************************************************************)
(* What the hand-off promises to the readers of the published feeds: see   *)
(* FeedRegister.                                                           *)
(***************************************************************************)
Register == INSTANCE FeedRegister WITH served <- upstream, published <- committed

RegisterSpec == Register!Spec
=============================================================================
