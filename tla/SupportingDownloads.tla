-------------------------- MODULE SupportingDownloads --------------------------
(***************************************************************************)
(* Databases of countries and networks, and archives that feeds are cut    *)
(* from (pkg/engine: download_stage.go, artifact_stage.go,                 *)
(* download_queries.go, download_recovery.go, asn_provider_processing.go;  *)
(* pkg/scheduler: processing_loop.go, recovery.go).                        *)
(*                                                                         *)
(* A database is staged by a download, used staged by the batches that     *)
(* follow, and promoted by the first that succeeds for a feed of its wave. *)
(* An archive's children are staged like feeds, one after the other.       *)
(* The functions give every successor of a state; the assumptions at the   *)
(* end speak of all states reached.                                        *)
(***************************************************************************)
EXTENDS SequencesExt, FiniteSets

RECURSIVE AllStates(_, _, _)
AllStates(Successors(_), frontier, known) ==
  LET new == UNION {Successors(s) : s \in frontier} \ known
  IN IF new = {} THEN known ELSE AllStates(Successors, new, known \cup new)

NoVersion == 0

(***************************************************************************)
(* A database and the wave of feeds that are computed again with it.       *)
(* kind is "geo", read from its archive, or "asn", read from a file        *)
(* extracted from it.  A feed's request is none, plain, or one of the wave *)
(* that promotes.                                                          *)
(***************************************************************************)
WaveFeeds == {1, 2}
Nothing == [f \in WaveFeeds |-> "none"]
Asked(queue) == {f \in WaveFeeds : queue[f] # "none"}
MergeWork(a, b) == IF "wave" \in {a, b} THEN "wave" ELSE IF "plain" \in {a, b} THEN "plain" ELSE "none"

\* Everything was computed with the first version.
Running(kind, hasty, faulty) ==
  [kind |-> kind,
   hasty |-> hasty,      \* downloads may end while a batch runs
   crashes |-> faulty,   \* one crash may come
   upstream |-> 1, archive |-> 1, staged |-> NoVersion, data |-> 1,
   wave |-> {},          \* feeds the worker has yet to request
   waiting |-> Nothing, deferred |-> Nothing, active |-> Nothing,
   batch |-> "idle", using |-> NoVersion, succeeded |-> {}, failures |-> 0,
   out |-> [f \in WaveFeeds |-> 1]]

MaxArchive  == 3
MaxFailures == 1

\* A newer version is staged; the feeds to compute again are those with a body.
Stage(s) ==
  IF s.upstream < MaxArchive /\ s.wave = {} /\ (s.hasty \/ s.batch = "idle")
  THEN {[s EXCEPT !.upstream = @ + 1, !.staged = s.upstream + 1, !.wave = WaveFeeds]} ELSE {}

\* The requests of a wave, one critical section each; plain ones come any time.
Enqueued(s, f, work) ==
  IF s.active[f] # "none" THEN [s EXCEPT !.deferred[f] = MergeWork(@, work)]
  ELSE [s EXCEPT !.waiting[f] = MergeWork(@, work)]
Admit(s) == {[Enqueued(s, f, "wave") EXCEPT !.wave = @ \ {f}] : f \in s.wave}
AskPlain(s) == {Enqueued(s, 1, "plain")}

\* The batch takes all that waits, and opens the database it finds.
DrainWave(s) ==
  IF s.batch = "idle" /\ Asked(s.waiting) # {}
  THEN {[s EXCEPT !.active = s.waiting, !.waiting = Nothing, !.batch = "load"]} ELSE {}

PreferStaged(s) == IF s.staged # NoVersion THEN s.staged ELSE s.archive
Extracted(s) ==
  IF s.staged # NoVersion THEN s.staged ELSE IF s.data = NoVersion THEN s.archive ELSE s.data
LoadDatabase(s) ==
  IF s.batch # "load" THEN {}
  ELSE LET loaded == [s EXCEPT !.batch = "compute",
                        !.using = IF s.kind = "geo" THEN PreferStaged(s) ELSE Extracted(s),
                        !.data = IF s.kind = "asn" THEN Extracted(s) ELSE s.data]
       IN {[loaded EXCEPT !.succeeded = ok,
                          !.failures = @ + (IF ok = Asked(s.active) THEN 0 ELSE 1)] :
             ok \in IF s.failures < MaxFailures THEN SUBSET Asked(s.active) ELSE {Asked(s.active)}}

\* BeforePublish: what the feeds that succeeded asked for is promoted, by name.
Promote(s) ==
  IF s.batch # "compute" THEN {}
  ELSE {[s EXCEPT !.batch = "publish",
           !.archive = IF \E f \in s.succeeded : s.active[f] = "wave" THEN PreferStaged(s) ELSE @,
           !.staged  = IF \E f \in s.succeeded : s.active[f] = "wave" THEN NoVersion ELSE @]}

\* Finishing: feeds that failed wait again, deferred requests wait at last.
Finished(s, ok) ==
  [s EXCEPT !.batch = "idle", !.active = Nothing, !.deferred = Nothing, !.using = NoVersion,
            !.succeeded = {},
            !.waiting = [f \in WaveFeeds |->
               MergeWork(@[f], MergeWork(s.deferred[f], IF f \in ok THEN "none" ELSE s.active[f]))]]
Publish(s) ==
  IF s.batch # "publish" THEN {}
  ELSE {[Finished(s, s.succeeded) EXCEPT
           !.out = [f \in WaveFeeds |-> IF f \in s.succeeded THEN s.using ELSE @[f]]]}
         \cup (IF s.failures < MaxFailures
               THEN {[Finished(s, {}) EXCEPT !.failures = @ + 1]} ELSE {})

\* After a crash the wave starts again if something is staged.
RestartWave(s) ==
  IF ~s.crashes THEN {}
  ELSE LET again == IF s.staged # NoVersion THEN [f \in WaveFeeds |-> "wave"] ELSE Nothing
       IN {[Finished(s, {}) EXCEPT !.crashes = FALSE, !.wave = {}, !.waiting = again]}

WaveSteps(s) == Stage(s) \cup Admit(s) \cup AskPlain(s) \cup DrainWave(s) \cup LoadDatabase(s)
                  \cup Promote(s) \cup Publish(s) \cup RestartWave(s)
Waves(kind, hasty, faulty) ==
  LET start == Running(kind, hasty, faulty) IN AllStates(WaveSteps, {start}, {start})

WaveSettled(s) == s.batch = "idle" /\ s.wave = {} /\ Asked(s.waiting) = {}
Current(s) == s.staged = NoVersion /\ s.archive = s.upstream /\ \A f \in WaveFeeds : s.out[f] = s.archive

(***************************************************************************)
(* An archive of two children.  Version v holds for child c the body       *)
(* Cut(v, c): the second version changes both, the third the second only.  *)
(***************************************************************************)
Children == <<1, 2>>
Cut(v, c) == CASE v = 3 /\ c = 1 -> 2 [] OTHER -> v

Unpacked ==
  [upstream |-> 1, archive |-> 1, staged |-> NoVersion, faults |-> 0, crashes |-> 0,
   raw  |-> [c \in {1, 2} |-> 1], new |-> [c \in {1, 2} |-> NoVersion],
   body |-> [c \in {1, 2} |-> 1],
   asked |-> {}, promotes |-> FALSE]

\* applyRawFeedDownloadResult: a child whose file is as before is only stamped.
\* One cut anew is staged unless it is as the latest body; forced, it is named
\* in any case.
LatestCut(s, c) == IF s.new[c] # NoVersion THEN s.new[c] ELSE s.body[c]
Child(m, c, v, force) ==
  LET same  == LatestCut(m.state, c) = Cut(v, c)
      state == [m.state EXCEPT !.raw[c] = Cut(v, c), !.new[c] = IF same THEN @ ELSE Cut(v, c)]
  IN IF m.state.raw[c] = Cut(v, c) /\ ~force THEN m
     ELSE [state |-> state, names |-> m.names \cup (IF same /\ ~force THEN {} ELSE {c})]
\* What the children before the first that fails have become, all when none does.
Materialized(s, v, force, until) ==
  FoldLeft(LAMBDA m, c : Child(m, c, v, force), [state |-> s, names |-> {}],
           SubSeq(Children, 1, until))

\* Requests follow only when every child was cut; none at all promotes at once.
Cutting(s, v, force) ==
  LET all == Materialized(s, v, force, Len(Children))
      asks == IF all.names = {}
              THEN [all.state EXCEPT !.archive = v, !.staged = NoVersion]
              ELSE [all.state EXCEPT !.asked = @ \cup all.names, !.promotes = TRUE]
  IN {asks} \cup (IF s.faults = 0
                  THEN {[Materialized(s, v, force, until).state EXCEPT !.faults = 1] :
                          until \in 0 .. Len(Children) - 1}
                  ELSE {})

\* The archive is compared with the promoted one.
FetchArchive(s) ==
  UNION {IF v = s.archive THEN {}
         ELSE Cutting([s EXCEPT !.upstream = v, !.staged = v], v, FALSE)
         : v \in s.upstream .. MaxArchive}

\* A batch takes the bodies staged, and promotes the archive.
ProcessChildren(s) ==
  IF s.asked = {} THEN {}
  ELSE {[s EXCEPT !.asked = {}, !.promotes = FALSE,
           !.body = [c \in {1, 2} |-> IF c \in s.asked /\ s.new[c] # NoVersion THEN s.new[c] ELSE @[c]],
           !.new = [c \in {1, 2} |-> IF c \in s.asked THEN NoVersion ELSE @[c]],
           !.archive = IF s.promotes /\ s.staged # NoVersion THEN s.staged ELSE @,
           !.staged = IF s.promotes THEN NoVersion ELSE @]}

\* A restart queues children with a staged body, and cuts a staged archive again.
RestartChildren(s) ==
  IF s.crashes = 1 THEN {}
  ELSE LET found == [s EXCEPT !.crashes = 1, !.promotes = FALSE,
                              !.asked = {c \in {1, 2} : s.new[c] # NoVersion}]
       IN IF s.staged = NoVersion THEN {found} ELSE Cutting(found, s.staged, TRUE)

ArchiveSteps(s) == FetchArchive(s) \cup ProcessChildren(s) \cup RestartChildren(s)
Archives == AllStates(ArchiveSteps, {Unpacked}, {Unpacked})

Stranded(s) == s.asked = {} /\ \E c \in {1, 2} : s.new[c] # NoVersion

(***************************************************************************)
(* What must hold of databases.                                            *)
(***************************************************************************)

\* When a wave has settled, whatever failed on the way, every feed is computed
\* with the newest version and nothing is left staged, as long as no download
\* ends while a batch runs and nothing crashes (promoteNamesForBatch).
ASSUME WavesArrive ==
  \A kind \in {"geo", "asn"} : \A s \in Waves(kind, FALSE, FALSE) : WaveSettled(s) => Current(s)

\* For a database read from its archive a download may end at any time.
ASSUME HastyGeoArrives == \A s \in Waves("geo", TRUE, FALSE) : WaveSettled(s) => Current(s)

\* An extracted one misses a version staged while a batch runs: the batch
\* promotes it, and it is never extracted (extractDatabaseIfNeeded).
ASSUME HastyASNStays ==
  \E s \in Waves("asn", TRUE, FALSE) :
    WaveSettled(s) /\ s.archive = s.upstream /\ \A f \in WaveFeeds : s.out[f] < s.archive

\* A crash behind the promotion forgets the rest of the wave (RecoverStagedSources).
ASSUME CrashForgets ==
  \E s \in Waves("geo", FALSE, TRUE) : WaveSettled(s) /\ s.staged = NoVersion /\ ~Current(s)

(***************************************************************************)
(* What must hold of archives.                                             *)
(***************************************************************************)

\* When every child was cut, the feeds are those of the promoted archive.
ASSUME ChildrenFollow ==
  \A s \in Archives :
    s.faults = 0 /\ s.asked = {} /\ s.staged = NoVersion
      => \A c \in {1, 2} : s.body[c] = Cut(s.archive, c)

\* When one fails, what was staged for those before it stays so, even though
\* the archive is fetched again and promoted (materializeDroneBLChildren).
ASSUME ChildStranded ==
  \E s \in Archives : Stranded(s) /\ s.staged = NoVersion /\ s.archive = MaxArchive

\* A restart after that finds it.
ASSUME RestartFinds ==
  \A s \in Archives : Stranded(s) => \A t \in RestartChildren(s) : t.faults # s.faults \/ ~Stranded(t)

=============================================================================
