------------------------- MODULE FeedHandoffProofs -------------------------
(***************************************************************************)
(* Proofs about FeedHandoff, for every set of feeds and every bound.       *)
(***************************************************************************)
EXTENDS FeedHandoff, TLAPS

(***************************************************************************)
(* Type correctness.                                                       *)
(***************************************************************************)
\* Initially no file exists, every worker is idle and every queue is empty.
LEMMA InitTyped == Init => TypeOK
  BY HandoffAssumption DEF HandoffAssumption, Init, TypeOK, Body, Versions, None, Blank, DownloadStates,
     ProcessStates, BatchStates, Paths

\* A failing operation stays within the budget of faults.
LEMMA FaultTyped ==
  ASSUME TypeOK, Fault
  PROVE  /\ faults' \in 0..MaxFaults /\ crashes' \in 0..MaxCrashes
         /\ races' \in 0..MaxRaces /\ up' \in BOOLEAN
  BY HandoffAssumption DEF HandoffAssumption, TypeOK, Fault

\* So do moves under the downloader.
LEMMA MoveTyped ==
  ASSUME TypeOK, NEW f \in Feeds, Move(f)
  PROVE  races' \in 0..MaxRaces /\ UNCHANGED <<up, faults, crashes>>
  BY HandoffAssumption DEF HandoffAssumption, TypeOK, Move

\* The steps of a download worker keep the types.
LEMMA DownloadTyped ==
  ASSUME TypeOK, NEW f \in Feeds, DownloadStep(f) \/ DownloadFails(f)
  PROVE  TypeOK'
<1> USE HandoffAssumption DEF TypeOK, Body, Versions, None, Blank, DownloadStates, ProcessStates,
      BatchStates, Paths, At, Goto, Leave, disk, download, queue, process, budget
<1>1. CASE FetchNew(f)       BY <1>1 DEF FetchNew
<1>2. CASE FetchUnchanged(f) BY <1>2 DEF FetchUnchanged, LatestPath
<1>3. CASE Prepare(f)        BY <1>3 DEF Prepare, LatestPath
<1>4. CASE Compare(f)        BY <1>4 DEF Compare
<1>5. CASE ClearStage(f)     BY <1>5 DEF ClearStage
<1>6. CASE WriteStage(f)     BY <1>6 DEF WriteStage
<1>7. CASE Touch(f)          BY <1>7 DEF Touch
<1>8. CASE CreateBlank(f)    BY <1>8 DEF CreateBlank
<1>9. CASE FinishDownload(f) BY <1>9 DEF FinishDownload
<1>10. CASE DownloadFails(f) BY <1>10, FaultTyped DEF DownloadFails
<1> QED BY <1>1, <1>2, <1>3, <1>4, <1>5, <1>6, <1>7, <1>8, <1>9, <1>10 DEF DownloadStep

\* The steps of the processing batch for one feed keep the types.
LEMMA ProcessTyped ==
  ASSUME TypeOK, NEW f \in Feeds,
         ProcessStep(f) \/ RemoveClaimedFails(f) \/ ProcessFails(f)
  PROVE  TypeOK'
<1> USE HandoffAssumption DEF TypeOK, Body, Versions, None, Blank, DownloadStates, ProcessStates,
      BatchStates, Paths, In, Step, disk, download, queue, process, budget
<1>1. CASE Claim(f)
  <2>1. ppc' \in [Feeds -> ProcessStates] /\ psrc' \in [Feeds -> {"processing", "committed"}]
        BY <1>1 DEF Claim
  <2>2. staged' \in [Feeds -> Body] /\ claimed' \in [Feeds -> Body]
    <3>1. CASE UNCHANGED <<staged, claimed>>
          BY <3>1
    <3>2. CASE /\ claimed' = [claimed EXCEPT ![f] = staged[f]]
               /\ staged'  = [staged EXCEPT ![f] = None]
          BY <3>2
    <3> QED BY <1>1, <3>1, <3>2 DEF Claim
  <2>3. races' \in 0..MaxRaces /\ UNCHANGED <<up, faults, crashes>>
        BY <1>1, MoveTyped DEF Claim
  <2>4. UNCHANGED <<upstream, raw, committed, latest, dpc, dpath, admit, handing, waiting,
                    active, deferred, batch, items, parsed>>
        BY <1>1 DEF Claim
  <2> QED BY <2>1, <2>2, <2>3, <2>4
<1>2. CASE Parse(f)          BY <1>2 DEF Parse, Source, File
<1>3. CASE WriteLatest(f)    BY <1>3 DEF WriteLatest
<1>4. CASE WriteCommitted(f) BY <1>4 DEF WriteCommitted, Source, File
<1>5. CASE RemoveClaimed(f)  BY <1>5, MoveTyped DEF RemoveClaimed
<1>6. CASE Complete(f)       BY <1>6 DEF Complete
<1>7. CASE RemoveClaimedFails(f) BY <1>7, FaultTyped DEF RemoveClaimedFails
<1>8. CASE ProcessFails(f)
  <2>1. ppc' \in [Feeds -> ProcessStates]
        BY <1>8 DEF ProcessFails
  <2> QED BY <1>8, <2>1, FaultTyped DEF ProcessFails
<1> QED BY <1>1, <1>2, <1>3, <1>4, <1>5, <1>6, <1>7, <1>8 DEF ProcessStep

\* The steps on the queue and on the batch as a whole keep the types.
LEMMA QueueTyped ==
  ASSUME TypeOK,
         BatchStep \/ PublishFails \/ \E f \in Feeds : HandOver(f) \/ Reprocess(f)
  PROVE  TypeOK'
<1> USE HandoffAssumption DEF TypeOK, Body, Versions, None, Blank, DownloadStates, ProcessStates,
      BatchStates, Paths, disk, download, queue, process, budget
<1>1. CASE \E f \in Feeds : HandOver(f) \/ Reprocess(f)
      BY <1>1 DEF HandOver, Reprocess, Enqueue
<1>2. CASE Drain           BY <1>2 DEF Drain
<1>3. CASE MarkActive      BY <1>3 DEF MarkActive
<1>4. CASE Publish         BY <1>4 DEF Publish
<1>5. CASE FinishSucceeded BY <1>5 DEF FinishSucceeded, Release
<1>6. CASE FinishFailed    BY <1>6 DEF FinishFailed, Requeue, Forget
<1>7. CASE PublishFails    BY <1>7, FaultTyped DEF PublishFails, Requeue, Forget
<1> QED BY <1>1, <1>2, <1>3, <1>4, <1>5, <1>6, <1>7 DEF BatchStep

\* So do the upstream source, the scheduler, a crash and a restart.
LEMMA OutsideTyped ==
  ASSUME TypeOK,
         \/ Crash \/ Recover
         \/ \E f \in Feeds : Serve(f) \/ \E force \in BOOLEAN : StartDownload(f, force)
  PROVE  TypeOK'
<1> USE HandoffAssumption DEF TypeOK, Body, Versions, None, Blank, DownloadStates, ProcessStates,
      BatchStates, Paths, disk, download, queue, process, budget
<1>1. ASSUME NEW f \in Feeds, Serve(f) PROVE TypeOK'
  <2>1. upstream' \in [Feeds -> Versions]
    <3>1. upstream[f] \in 1..MaxVersion /\ upstream[f] + 1 \in 1..MaxVersion
          BY <1>1 DEF Serve, HandoffAssumption
    <3> QED BY <1>1, <3>1 DEF Serve
  <2> QED BY <1>1, <2>1 DEF Serve
<1>2. ASSUME NEW f \in Feeds, NEW force \in BOOLEAN, StartDownload(f, force) PROVE TypeOK'
      BY <1>2 DEF StartDownload, At, Goto
<1>3. CASE Crash
  <2>1. crashes' \in 0..MaxCrashes
        BY <1>3 DEF Crash, HandoffAssumption
  <2> QED BY <1>3, <2>1 DEF Crash, Forget
<1>4. CASE Recover
  <2>1. staged' \in [Feeds -> Body] /\ claimed' \in [Feeds -> Body]
        BY <1>4 DEF Recover
  <2> QED BY <1>4, <2>1 DEF Recover
<1> QED BY <1>1, <1>2, <1>3, <1>4

LEMMA NextTyped == TypeOK /\ [Next]_vars => TypeOK'
<1> SUFFICES ASSUME TypeOK, [Next]_vars PROVE TypeOK'
    OBVIOUS
<1>1. CASE Next
      BY <1>1, DownloadTyped, ProcessTyped, QueueTyped, OutsideTyped DEF Next
<1>2. CASE UNCHANGED vars
      BY <1>2 DEF vars, disk, download, queue, process, budget, TypeOK
<1> QED BY <1>1, <1>2

\* Every file, worker, queue and budget always has its type.
THEOREM TypeCorrect == Spec => []TypeOK
  BY InitTyped, NextTyped, PTL DEF Spec

(***************************************************************************)
(* The pipeline never runs backwards.                                      *)
(***************************************************************************)
\* The order of the bodies of one feed.
Ordered(f) ==
  /\ Before(committed[f], claimed[f])
  /\ Before(committed[f], staged[f])
  /\ Before(claimed[f], staged[f])
  /\ \A b \in Bodies(f) : Real(b) => b <= raw[f]
  /\ raw[f] <= upstream[f]

files == <<upstream, raw, staged, claimed, committed>>

\* A step of the worker of g.
LEMMA DownloadOrdered ==
  ASSUME TypeOK, BodyOrder, NEW g \in Feeds, DownloadStep(g)
  PROVE  BodyOrder'
<1> SUFFICES ASSUME NEW f \in Feeds PROVE Ordered(f)'
    BY DEF BodyOrder, Ordered
<1>1. Ordered(f) /\ raw[f] \in Int /\ upstream[f] \in Int
      BY DEF BodyOrder, Ordered, TypeOK, Versions, None
<1> USE <1>1 DEF Ordered, Bodies, Before, Real, TypeOK, Versions, None, Blank, Body
<1>2. CASE FetchNew(g)   BY <1>2 DEF FetchNew
<1>3. CASE ClearStage(g) BY <1>3 DEF ClearStage
<1>4. CASE WriteStage(g) BY <1>4 DEF WriteStage
<1>5. CASE CreateBlank(g) BY <1>5 DEF CreateBlank
<1>6. CASE UNCHANGED files BY <1>6 DEF files
<1> QED BY <1>2, <1>3, <1>4, <1>5, <1>6 DEF DownloadStep, FetchUnchanged, Prepare, Compare, Touch,
              FinishDownload, files, disk

\* A step of the batch for g.
LEMMA ProcessOrdered ==
  ASSUME TypeOK, BodyOrder, NEW g \in Feeds, ProcessStep(g)
  PROVE  BodyOrder'
<1> SUFFICES ASSUME NEW f \in Feeds PROVE Ordered(f)'
    BY DEF BodyOrder, Ordered
<1>1. Ordered(f) /\ raw[f] \in Int /\ upstream[f] \in Int
      BY DEF BodyOrder, Ordered, TypeOK, Versions, None
<1> USE <1>1 DEF Ordered, Bodies, Before, Real, TypeOK, Versions, None, Blank, Body
<1>2. CASE Claim(g)          BY <1>2 DEF Claim
<1>3. CASE WriteCommitted(g) BY <1>3 DEF WriteCommitted, Source
<1>4. CASE RemoveClaimed(g)  BY <1>4 DEF RemoveClaimed
<1>5. CASE UNCHANGED files BY <1>5 DEF files
<1> QED BY <1>2, <1>3, <1>4, <1>5 DEF ProcessStep, Parse, WriteLatest, Complete, files, disk

LEMMA NextOrdered == TypeOK /\ BodyOrder /\ [Next]_vars => BodyOrder'
<1> SUFFICES ASSUME TypeOK, BodyOrder, [Next]_vars PROVE BodyOrder'
    OBVIOUS
<1>1. ASSUME NEW g \in Feeds, Serve(g) PROVE BodyOrder'
  <2> SUFFICES ASSUME NEW f \in Feeds PROVE Ordered(f)'
      BY DEF BodyOrder, Ordered
  <2>1. Ordered(f) /\ raw[f] \in Int /\ upstream[f] \in Int
        BY DEF BodyOrder, Ordered, TypeOK, Versions, None
  <2> QED BY <1>1, <2>1 DEF Serve, disk, Ordered, Bodies, TypeOK, Real, Before
<1>2. CASE Recover
      BY <1>2 DEF Recover, BodyOrder, Bodies, Before, Real, Versions, None
<1>3. CASE UNCHANGED files
      BY <1>3 DEF files, BodyOrder, Bodies, Before, Real
<1>4. ASSUME NEW g \in Feeds,
             \/ \E force \in BOOLEAN : StartDownload(g, force)
             \/ DownloadFails(g) \/ HandOver(g) \/ Reprocess(g)
             \/ RemoveClaimedFails(g) \/ ProcessFails(g)
      PROVE  UNCHANGED files
      BY <1>4 DEF StartDownload, DownloadFails, HandOver, Reprocess, RemoveClaimedFails,
         ProcessFails, files, disk
<1>5. CASE BatchStep \/ PublishFails \/ Crash
      BY <1>3, <1>5 DEF BatchStep, Drain, MarkActive, Publish, FinishSucceeded, FinishFailed,
         PublishFails, Crash, files, disk
<1>6. CASE UNCHANGED vars
      BY <1>3, <1>6 DEF vars, disk, files
<1> QED BY <1>1, <1>2, <1>3, <1>4, <1>5, <1>6, DownloadOrdered, ProcessOrdered DEF Next

LEMMA InitOrdered == Init => BodyOrder
  BY DEF Init, BodyOrder, Bodies, Before, Real, Versions, None

\* No body of a feed is newer than one ahead of it in the pipeline.
THEOREM OrderKept == Spec => []BodyOrder
<1>1. TypeOK /\ BodyOrder /\ [Next]_vars => (TypeOK /\ BodyOrder)'
      BY NextTyped, NextOrdered
<1> QED BY InitTyped, InitOrdered, <1>1, PTL DEF Spec

\* A commit never takes a feed back to an older version.
THEOREM NeverBackwards == Spec => NoRegression
<1>1. ASSUME TypeOK, BodyOrder, Next, NEW f \in Feeds
      PROVE  Before(committed[f], committed'[f])
  <2>1. CASE committed' = committed
        BY <2>1, <1>1 DEF Before, Real, Versions, TypeOK, Body, None, Blank
  <2>2. ASSUME NEW g \in Feeds, CreateBlank(g) PROVE Before(committed[f], committed'[f])
        BY <2>2, <1>1 DEF CreateBlank, Before, Real, Versions, Blank, TypeOK, Body, None
  <2>3. ASSUME NEW g \in Feeds, WriteCommitted(g) PROVE Before(committed[f], committed'[f])
        BY <2>3, <1>1 DEF WriteCommitted, Source, BodyOrder, Bodies, Before, Real, Versions, TypeOK, Body,
           None, Blank
  <2>4. ASSUME NEW g \in Feeds, DownloadStep(g), ~CreateBlank(g) PROVE committed' = committed
        BY <2>4 DEF DownloadStep, FetchNew, FetchUnchanged, Prepare, Compare, ClearStage, WriteStage,
           Touch, FinishDownload, disk
  <2>5. ASSUME NEW g \in Feeds, ProcessStep(g), ~WriteCommitted(g) PROVE committed' = committed
        BY <2>5 DEF ProcessStep, Claim, Parse, WriteLatest, RemoveClaimed, Complete, disk
  <2>6. ASSUME NEW g \in Feeds,
             \/ \E force \in BOOLEAN : StartDownload(g, force)
             \/ Serve(g) \/ DownloadFails(g) \/ HandOver(g) \/ Reprocess(g)
             \/ RemoveClaimedFails(g) \/ ProcessFails(g)
      PROVE  committed' = committed
      BY <2>6 DEF StartDownload, Serve, DownloadFails, HandOver, Reprocess, RemoveClaimedFails,
         ProcessFails, disk
  <2>7. CASE BatchStep \/ PublishFails \/ Crash \/ Recover
      BY <2>1, <2>7 DEF BatchStep, Drain, MarkActive, Publish, FinishSucceeded, FinishFailed,
         PublishFails, Crash, Recover, disk
  <2> QED BY <1>1, <2>1, <2>2, <2>3, <2>4, <2>5, <2>6, <2>7 DEF Next
<1>2. TypeOK /\ BodyOrder /\ [Next]_vars
        => [\A f \in Feeds : Before(committed[f], committed'[f])]_vars
      BY <1>1
<1> QED BY TypeCorrect, OrderKept, <1>2, PTL DEF Spec, NoRegression

(***************************************************************************)
(* Until a body is moved under a touch: the latest file is always backed,  *)
(* and no body is invented.  Sound(f) is the part of Aligned about feed f. *)
(***************************************************************************)
Sound(f) ==
  /\ Blank \notin {staged[f], claimed[f], committed[f], latest[f]}
  /\ latest[f] # committed[f] => claimed[f] = latest[f]
  /\ BatchSound(f)
  /\ DownloadSound(f)

LEMMA AlignedIsSound == Aligned <=> \A f \in Feeds : Sound(f)
  BY DEF Aligned, Sound, NoInventedBody, LatestBacked

\* What one feed's soundness depends on.
local(f) == <<raw[f], staged[f], claimed[f], committed[f], latest[f], dpc[f], dpath[f],
              ppc[f], psrc[f], parsed[f], up>>

LEMMA SoundLocal ==
  ASSUME NEW f \in Feeds, Sound(f), UNCHANGED local(f)
  PROVE  Sound(f)'
  BY DEF Sound, local, BatchSound, DownloadSound, File, Source

\* Only a body that exists compares equal to another.
LEMMA SameBodyExists ==
  ASSUME NEW a, NEW b, SameBody(a, b)
  PROVE  a # None
  BY HandoffAssumption DEF HandoffAssumption, SameBody, Real, Versions, None

\* The steps of a worker keep its own feed sound: the file it touches is there.
LEMMA DownloadKeepsSound ==
  ASSUME TypeOK, NEW f \in Feeds, Sound(f), DownloadStep(f) \/ DownloadFails(f)
  PROVE  Sound(f)'
<1> USE DEF Sound, BatchSound, DownloadSound, File, Source, At, Goto, Leave, TypeOK
<1>1. CASE FetchNew(f)       BY <1>1 DEF FetchNew, Versions, None, process, budget
<1>2. CASE FetchUnchanged(f)
      BY <1>2 DEF FetchUnchanged, Versions, None, HasBody, Newest, LatestPath, disk, process, budget
<1>3. CASE Prepare(f)        BY <1>3 DEF Prepare, disk, process, budget
<1>4. CASE Compare(f)
  <2>1. SameBody(File(f, dpath[f]), raw[f]) => File(f, dpath[f]) # None
        BY SameBodyExists
  <2>2. CASE SameBody(File(f, dpath[f]), raw[f])
        BY <1>4, <2>1, <2>2 DEF Compare, disk, process, budget
  <2>3. CASE ~SameBody(File(f, dpath[f]), raw[f])
        BY <1>4, <2>3 DEF Compare, disk, process, budget
  <2> QED BY <2>2, <2>3
<1>5. CASE ClearStage(f)     BY <1>5 DEF ClearStage, None, Blank, process, budget
<1>6. CASE WriteStage(f)     BY <1>6 DEF WriteStage, Versions, None, Blank, process, budget
<1>7. CASE Touch(f)          BY <1>7 DEF Touch, disk, process, budget
<1>8. CASE CreateBlank(f)    BY <1>8 DEF CreateBlank
<1>9. CASE FinishDownload(f) BY <1>9 DEF FinishDownload, disk, process, budget
<1>10. CASE DownloadFails(f) BY <1>10 DEF DownloadFails, Fault, disk, process
<1> QED BY <1>1, <1>2, <1>3, <1>4, <1>5, <1>6, <1>7, <1>8, <1>9, <1>10 DEF DownloadStep

\* The steps of the batch keep the feed they work on sound: what is committed
\* is the body that was written to latest before.
LEMMA ProcessKeepsSound ==
  ASSUME TypeOK, races' = 0, NEW f \in Feeds, Sound(f),
         ProcessStep(f) \/ RemoveClaimedFails(f) \/ ProcessFails(f)
  PROVE  Sound(f)'
<1>0. Move(f) => dpc[f] # "touch" /\ UNCHANGED up
      BY DEF Move, TypeOK
<1> USE DEF Sound, BatchSound, DownloadSound, File, Source, In, Step, TypeOK
<1>1. CASE Claim(f)
      BY <1>0, <1>1 DEF Claim, None, Blank, download, budget
<1>2. CASE Parse(f)          BY <1>2 DEF Parse, disk, download, budget
<1>3. CASE WriteLatest(f)    BY <1>3 DEF WriteLatest, download, budget
<1>4. CASE WriteCommitted(f)
  <2>1. /\ Source(f) # None /\ parsed[f] = Source(f) /\ latest[f] = Source(f)
        /\ committed'[f] = Source(f) /\ ppc'[f] = "written" /\ up
        /\ UNCHANGED <<raw, staged, claimed, latest, dpc, dpath, psrc, parsed, up>>
        BY <1>4 DEF WriteCommitted, download, budget
  <2>2. Source(f)' = Source(f)
        BY <2>1
  <2>3. BatchSound(f)'
        BY <2>1, <2>2
  <2>4. DownloadSound(f)'
    <3>1. dpath[f] \in Paths
          OBVIOUS
    <3> QED BY <2>1, <3>1 DEF Paths
  <2>5. Blank \notin {staged[f], claimed[f], committed[f], latest[f]}'
        BY <2>1
  <2>6. latest'[f] = committed'[f]
        BY <2>1
  <2> HIDE DEF BatchSound, DownloadSound
  <2> QED BY <2>3, <2>4, <2>5, <2>6
<1>5. CASE RemoveClaimed(f)  BY <1>0, <1>5 DEF RemoveClaimed, None, Blank, download, budget
<1>6. CASE Complete(f)       BY <1>6 DEF Complete, disk, download, budget
<1>7. CASE RemoveClaimedFails(f)
      BY <1>7 DEF RemoveClaimedFails, Fault, disk, download
<1>8. CASE ProcessFails(f)   BY <1>8 DEF ProcessFails, Fault, disk, download
<1> QED BY <1>1, <1>2, <1>3, <1>4, <1>5, <1>6, <1>7, <1>8 DEF ProcessStep

\* A step of one feed leaves the files and workers of the others alone.
LEMMA OtherFeeds ==
  ASSUME TypeOK, NEW g \in Feeds, NEW f \in Feeds, f # g,
         \/ DownloadStep(g) \/ DownloadFails(g)
         \/ ProcessStep(g) \/ RemoveClaimedFails(g) \/ ProcessFails(g)
  PROVE  UNCHANGED local(f)
<1> USE DEF local, TypeOK, At, Goto, Leave, In, Step, Fault, Move, disk, download, queue, process, budget
<1>1. CASE DownloadStep(g)
  <2>1. CASE FetchNew(g)       BY <2>1 DEF FetchNew
  <2>2. CASE FetchUnchanged(g) BY <2>2 DEF FetchUnchanged
  <2>3. CASE Prepare(g)        BY <2>3 DEF Prepare
  <2>4. CASE Compare(g)        BY <2>4 DEF Compare
  <2>5. CASE ClearStage(g)     BY <2>5 DEF ClearStage
  <2>6. CASE WriteStage(g)     BY <2>6 DEF WriteStage
  <2>7. CASE Touch(g)          BY <2>7 DEF Touch
  <2>8. CASE CreateBlank(g)    BY <2>8 DEF CreateBlank
  <2>9. CASE FinishDownload(g) BY <2>9 DEF FinishDownload
  <2> QED BY <1>1, <2>1, <2>2, <2>3, <2>4, <2>5, <2>6, <2>7, <2>8, <2>9 DEF DownloadStep
<1>2. CASE ProcessStep(g)
  <2>1. CASE Claim(g)          BY <2>1 DEF Claim
  <2>2. CASE Parse(g)          BY <2>2 DEF Parse
  <2>3. CASE WriteLatest(g)    BY <2>3 DEF WriteLatest
  <2>4. CASE WriteCommitted(g) BY <2>4 DEF WriteCommitted
  <2>5. CASE RemoveClaimed(g)  BY <2>5 DEF RemoveClaimed
  <2>6. CASE Complete(g)       BY <2>6 DEF Complete
  <2> QED BY <1>2, <2>1, <2>2, <2>3, <2>4, <2>5, <2>6 DEF ProcessStep
<1>3. CASE DownloadFails(g)      BY <1>3 DEF DownloadFails
<1>4. CASE RemoveClaimedFails(g) BY <1>4 DEF RemoveClaimedFails
<1>5. CASE ProcessFails(g)       BY <1>5 DEF ProcessFails
<1> QED BY <1>1, <1>2, <1>3, <1>4, <1>5

\* The steps of the batch as a whole and of the daemon.
LEMMA DaemonKeepsSound ==
  ASSUME TypeOK, NEW f \in Feeds, Sound(f),
         BatchStep \/ PublishFails \/ Crash \/ Recover
  PROVE  Sound(f)'
<1> USE DEF disk, download, process, budget, local
<1>1. CASE Drain \/ Publish \/ FinishSucceeded
      BY <1>1, SoundLocal DEF Drain, Publish, FinishSucceeded
<1>2. CASE MarkActive
      BY <1>2 DEF MarkActive, Sound, BatchSound, DownloadSound, File, Source
<1>3. CASE FinishFailed
      BY <1>3 DEF FinishFailed, Forget, Sound, BatchSound, DownloadSound, File, Source
<1>4. CASE PublishFails
      BY <1>4 DEF PublishFails, Fault, Forget, Sound, BatchSound, DownloadSound, File, Source
<1>5. CASE Crash
      BY <1>5 DEF Crash, Forget, Sound, BatchSound, DownloadSound, File, Source
<1>6. CASE Recover
      BY <1>6 DEF Recover, Sound, BatchSound, DownloadSound, File, Source, None, Blank, TypeOK
<1> QED BY <1>1, <1>2, <1>3, <1>4, <1>5, <1>6 DEF BatchStep

\* Races are only ever added.
LEMMA RacesGrow == TypeOK /\ [Next]_vars /\ races' = 0 => races = 0
<1> SUFFICES ASSUME TypeOK, [Next]_vars PROVE races' = races \/ races' = races + 1
    BY DEF TypeOK
<1>1. ASSUME NEW f \in Feeds,
             \/ Serve(f)
             \/ \E force \in BOOLEAN : StartDownload(f, force)
             \/ DownloadFails(f) \/ HandOver(f) \/ Reprocess(f)
             \/ RemoveClaimedFails(f) \/ ProcessFails(f)
      PROVE  races' = races
      BY <1>1 DEF Serve, StartDownload, DownloadFails, HandOver, Reprocess, RemoveClaimedFails,
         ProcessFails, Fault, budget
<1>2. ASSUME NEW f \in Feeds, DownloadStep(f) PROVE races' = races
      BY <1>2 DEF DownloadStep, FetchNew, FetchUnchanged, Prepare, Compare, ClearStage, WriteStage,
         Touch, CreateBlank, FinishDownload, budget
<1>3. ASSUME NEW f \in Feeds, ProcessStep(f) PROVE races' = races \/ races' = races + 1
      BY <1>3 DEF ProcessStep, Claim, Parse, WriteLatest, WriteCommitted, RemoveClaimed, Complete,
         Move, budget
<1>4. CASE BatchStep \/ PublishFails \/ Crash \/ Recover
      BY <1>4 DEF BatchStep, Drain, MarkActive, Publish, FinishSucceeded, FinishFailed,
         PublishFails, Crash, Recover, Fault, budget
<1>5. CASE UNCHANGED vars
      BY <1>5 DEF vars, budget
<1> QED BY <1>1, <1>2, <1>3, <1>4, <1>5 DEF Next

LEMMA NextAligned ==
  TypeOK /\ (races = 0 => Aligned) /\ [Next]_vars => (races = 0 => Aligned)'
<1> SUFFICES ASSUME TypeOK, races = 0 => Aligned, [Next]_vars, races' = 0,
                    NEW f \in Feeds
             PROVE  Sound(f)'
    BY DEF Aligned, Sound, NoInventedBody, LatestBacked
<1>0. Aligned
      BY RacesGrow
<1> USE <1>0, AlignedIsSound
<1>1. ASSUME NEW g \in Feeds,
             \/ DownloadStep(g) \/ DownloadFails(g)
             \/ ProcessStep(g) \/ RemoveClaimedFails(g) \/ ProcessFails(g)
      PROVE  Sound(f)'
  <2>1. CASE f = g
        BY <1>1, <2>1, DownloadKeepsSound, ProcessKeepsSound
  <2>2. CASE f # g
        BY <1>1, <2>2, OtherFeeds, SoundLocal
  <2> QED BY <2>1, <2>2
<1>2. ASSUME NEW g \in Feeds, NEW force \in BOOLEAN, StartDownload(g, force)
      PROVE  Sound(f)'
      BY <1>2 DEF StartDownload, At, Goto, Sound, BatchSound, DownloadSound, File, Source, TypeOK,
         disk, process, budget
<1>3. ASSUME NEW g \in Feeds, Serve(g) \/ HandOver(g) \/ Reprocess(g)
      PROVE  Sound(f)'
      BY <1>3, SoundLocal DEF Serve, HandOver, Reprocess, local, disk, download, process, budget
<1>4. CASE BatchStep \/ PublishFails \/ Crash \/ Recover
      BY <1>4, DaemonKeepsSound
<1>5. CASE UNCHANGED vars
      BY <1>5, SoundLocal DEF vars, local, disk, download, process, budget
<1> QED BY <1>1, <1>2, <1>3, <1>4, <1>5 DEF Next

LEMMA InitAligned == Init => Aligned
  BY DEF Init, Aligned, NoInventedBody, LatestBacked, BatchSound, DownloadSound, None, Blank

\* As long as no body is moved under the downloader, latest and the committed
\* body agree or the claimed body will align them, every body is one that was
\* served, and the workers find the files they look for.
THEOREM AlwaysAligned == Spec => [](races = 0 => Aligned)
<1>1. /\ TypeOK /\ (races = 0 => Aligned)
      /\ [Next]_vars
      => (TypeOK /\ (races = 0 => Aligned))'
      BY NextTyped, NextAligned
<1> QED BY InitTyped, InitAligned, <1>1, PTL DEF Spec

\* So a crash or an error between the two writes of a commit can be repaired.
THEOREM AlwaysBacked == Spec => [](races = 0 => LatestBacked)
<1>1. (races = 0 => Aligned) => (races = 0 => LatestBacked)
      BY DEF Aligned
<1> QED BY AlwaysAligned, <1>1, PTL

\* And no local body is made up.
THEOREM NothingInvented == Spec => [](races = 0 => NoInventedBody)
<1>1. (races = 0 => Aligned) => (races = 0 => NoInventedBody)
      BY DEF Aligned
<1> QED BY AlwaysAligned, <1>1, PTL

(***************************************************************************)
(* The newest local body never gets older.                                 *)
(***************************************************************************)
bodies == <<staged, claimed, committed>>

\* What NewestKept says of one feed.
KeepsNewest(f) ==
  \A b \in Bodies(f) : Real(b) => \E c \in Bodies(f)' : Real(c) /\ b <= c

\* Every body but that of g is as new after the step as it was before.
LEMMA NothingOlder ==
  ASSUME NEW f \in Feeds,
         \A b \in Bodies(f) : Real(b) => b \in Bodies(f)'
  PROVE  KeepsNewest(f)
  BY DEF KeepsNewest, Real, Versions

\* The one step of a worker that removes a body, and the one that replaces it.
LEMMA DownloadKeepsNewest ==
  ASSUME TypeOK, BodyOrder, Aligned, NEW f \in Feeds, NEW g \in Feeds, DownloadStep(g)
  PROVE  dpc'[f] = "write" \/ KeepsNewest(f)
<1>1. ~CreateBlank(g)
      BY DEF Aligned, DownloadSound, CreateBlank, At
<1>2. CASE UNCHANGED bodies
  <2>1. Bodies(f)' = Bodies(f)
        BY <1>2 DEF bodies, Bodies
  <2> QED BY <2>1, NothingOlder
<1>3. CASE ClearStage(g)
  <2>1. CASE f = g
        BY <1>3, <2>1 DEF ClearStage, Goto, TypeOK
  <2>2. CASE f # g
    <3>1. Bodies(f)' = Bodies(f)
          BY <1>3, <2>2 DEF ClearStage, Bodies, TypeOK
    <3> QED BY <3>1, NothingOlder
  <2> QED BY <2>1, <2>2
<1>4. CASE WriteStage(g)
  <2>1. CASE f = g
    <3>1. raw[f] \in Bodies(f)' /\ raw[f] # None
          BY <1>4, <2>1 DEF WriteStage, Bodies, TypeOK, Aligned, DownloadSound, At
    <3>2. Real(raw[f])
          BY <3>1 DEF Real, TypeOK
    <3>3. \A b \in Bodies(f) : Real(b) => b <= raw[f]
          BY DEF BodyOrder
    <3> QED BY <3>1, <3>2, <3>3 DEF KeepsNewest
  <2>2. CASE f # g
    <3>1. Bodies(f)' = Bodies(f)
          BY <1>4, <2>2 DEF WriteStage, Bodies, TypeOK
    <3> QED BY <3>1, NothingOlder
  <2> QED BY <2>1, <2>2
<1> QED BY <1>1, <1>2, <1>3, <1>4 DEF DownloadStep, FetchNew, FetchUnchanged, Prepare, Compare,
           Touch, FinishDownload, bodies, disk

\* A batch moves bodies, and removes one only after it has committed it.
LEMMA ProcessKeepsNewest ==
  ASSUME TypeOK, BodyOrder, Aligned, NEW f \in Feeds, NEW g \in Feeds, ProcessStep(g)
  PROVE  KeepsNewest(f)
<1>1. CASE UNCHANGED bodies
  <2>1. Bodies(f)' = Bodies(f)
        BY <1>1 DEF bodies, Bodies
  <2> QED BY <2>1, NothingOlder
<1>2. CASE f # g
  <2>1. Bodies(f)' = Bodies(f)
        BY <1>2 DEF Bodies, TypeOK, ProcessStep, Claim, Parse, WriteLatest, WriteCommitted,
           RemoveClaimed, Complete, disk
  <2> QED BY <2>1, NothingOlder
<1>3. CASE f = g /\ Claim(g) /\ ~UNCHANGED bodies
  <2>1. claimed[f] = None /\ claimed'[f] = staged[f] /\ committed'[f] = committed[f]
        BY <1>3 DEF Claim, bodies, TypeOK
  <2>2. \A b \in Bodies(f) : Real(b) => b \in Bodies(f)'
        BY <2>1 DEF Bodies, Real, Versions, None
  <2> QED BY <2>2, NothingOlder
<1>4. CASE f = g /\ WriteCommitted(g)
  <2>1. /\ staged'[f] = staged[f] /\ claimed'[f] = claimed[f]
        /\ committed'[f] = Source(f) /\ Source(f) # None /\ Source(f) # Blank
        BY <1>4 DEF WriteCommitted, In, TypeOK, Aligned, NoInventedBody, BatchSound, Source
  <2>2. Real(Source(f))
        BY <2>1 DEF Real, Source, TypeOK, Body
  <2>3. Real(committed[f]) => committed[f] <= Source(f)
        BY <2>2 DEF BodyOrder, Before, Source, Real, Versions
  <2>4. Source(f) \in Bodies(f)'
        BY <2>1 DEF Bodies
  <2>5. \A b \in Bodies(f) : b = committed[f] \/ b \in Bodies(f)'
        BY <2>1 DEF Bodies
  <2>6. \A b \in Bodies(f) : Real(b) => b <= b
        BY DEF Real, Versions
  <2> QED BY <2>2, <2>3, <2>4, <2>5, <2>6 DEF KeepsNewest
<1>5. CASE f = g /\ RemoveClaimed(g)
  <2>1. /\ staged'[f] = staged[f] /\ committed'[f] = committed[f]
        /\ claimed'[f] # claimed[f] => committed[f] = claimed[f]
        BY <1>5 DEF RemoveClaimed, In, TypeOK, Aligned, BatchSound, Source
  <2>2. \A b \in Bodies(f) : b \in Bodies(f)'
        BY <2>1 DEF Bodies
  <2> QED BY <2>2, NothingOlder
<1> QED BY <1>1, <1>2, <1>3, <1>4, <1>5 DEF ProcessStep, Parse, WriteLatest, Complete, bodies, disk

LEMMA NextKeepsNewest ==
  ASSUME TypeOK, BodyOrder, races = 0 => Aligned, Next, NEW f \in Feeds
  PROVE  races' > 0 \/ dpc'[f] = "write" \/ KeepsNewest(f)
<1> SUFFICES ASSUME races' = 0 PROVE dpc'[f] = "write" \/ KeepsNewest(f)
    BY NextTyped DEF TypeOK
<1>0. Aligned
      BY RacesGrow
<1>1. CASE UNCHANGED bodies
  <2>1. Bodies(f)' = Bodies(f)
        BY <1>1 DEF bodies, Bodies
  <2> QED BY <2>1, NothingOlder
<1>2. CASE Recover
  <2>1. \A b \in Bodies(f) : Real(b) => b \in Bodies(f)'
        BY <1>2 DEF Recover, Bodies, Real, Versions, None, TypeOK
  <2> QED BY <2>1, NothingOlder
<1>3. ASSUME NEW g \in Feeds,
             \/ \E force \in BOOLEAN : StartDownload(g, force)
             \/ Serve(g) \/ DownloadFails(g) \/ HandOver(g) \/ Reprocess(g)
             \/ RemoveClaimedFails(g) \/ ProcessFails(g)
      PROVE  UNCHANGED bodies
      BY <1>3 DEF StartDownload, Serve, DownloadFails, HandOver, Reprocess, RemoveClaimedFails,
         ProcessFails, bodies, disk
<1>4. CASE BatchStep \/ PublishFails \/ Crash
      BY <1>1, <1>4 DEF BatchStep, Drain, MarkActive, Publish, FinishSucceeded, FinishFailed,
         PublishFails, Crash, bodies, disk
<1> QED BY <1>0, <1>1, <1>2, <1>3, <1>4, DownloadKeepsNewest, ProcessKeepsNewest DEF Next

\* The newest version among the local bodies of a feed never gets older,
\* unless bodies race or a worker is about to write a newer one.
THEOREM NewestIsKept == Spec => NewestKept
<1>1. TypeOK /\ BodyOrder /\ (races = 0 => Aligned) /\ [Next]_vars
        => [\A f \in Feeds :
              \/ races' > 0
              \/ dpc'[f] = "write"
              \/ \A b \in Bodies(f) : Real(b) => \E c \in Bodies(f)' : Real(c) /\ b <= c]_vars
      BY NextKeepsNewest DEF KeepsNewest
<1> QED BY TypeCorrect, OrderKept, AlwaysAligned, <1>1, PTL DEF Spec, NewestKept

(***************************************************************************)
(* The hand-off implements the register of published bodies: the only step *)
(* that changes a committed body advances it to a version that is served.  *)
(***************************************************************************)
published == <<upstream, committed>>

LEMMA CommitAdvances ==
  ASSUME TypeOK, BodyOrder, Aligned, NEW f \in Feeds, WriteCommitted(f)
  PROVE  Register!Advance(f) \/ UNCHANGED published
<1>1. Sound(f)
      BY AlignedIsSound
<1>2. Source(f) \in Versions
      BY <1>1 DEF Sound, BatchSound, WriteCommitted, In, Source, TypeOK, Body, None, Blank
<1>3. committed[f] \in Versions \cup {None}
      BY <1>1 DEF Sound, TypeOK, Body
<1>4. Source(f) <= upstream[f] /\ committed[f] <= Source(f)
  <2>1. raw[f] \in Int /\ upstream[f] \in Int /\ Source(f) <= raw[f] /\ raw[f] <= upstream[f]
        BY <1>2 DEF BodyOrder, Bodies, Real, Source, TypeOK, Versions, None
  <2>2. committed[f] \in Versions => committed[f] <= Source(f)
        BY <1>2 DEF BodyOrder, Before, Real, Source, Versions
  <2> QED BY <1>2, <1>3, <2>1, <2>2 DEF Versions, None
<1>5. committed' = [committed EXCEPT ![f] = Source(f)] /\ upstream' = upstream
      BY DEF WriteCommitted
<1>6. CASE committed[f] = Source(f)
      BY <1>5, <1>6 DEF published, TypeOK
<1>7. CASE committed[f] # Source(f)
  <2>1. committed[f] < Source(f)
        BY <1>2, <1>3, <1>4, <1>7 DEF Versions, None
  <2> QED BY <1>2, <1>4, <1>5, <2>1 DEF Register!Advance, Versions
<1> QED BY <1>6, <1>7

LEMMA StepRefines ==
  ASSUME TypeOK, BodyOrder, Aligned, [Next]_vars
  PROVE  [Register!Next]_published
<1> USE DEF published, disk
<1>1. ASSUME NEW f \in Feeds, Serve(f) PROVE Register!Next
      BY <1>1 DEF Serve, Register!Next, Register!Serve
<1>2. ASSUME NEW f \in Feeds, ProcessStep(f) PROVE [Register!Next]_published
  <2>1. CASE WriteCommitted(f)
        BY <2>1, CommitAdvances DEF Register!Next
  <2>2. CASE ~WriteCommitted(f)
        BY <1>2, <2>2 DEF ProcessStep, Claim, Parse, WriteLatest, RemoveClaimed, Complete
  <2> QED BY <2>1, <2>2
<1>3. ASSUME NEW f \in Feeds, DownloadStep(f) PROVE UNCHANGED published
  <2>1. ~CreateBlank(f)
        BY DEF Aligned, DownloadSound, CreateBlank, At
  <2> QED BY <1>3, <2>1 DEF DownloadStep, FetchNew, FetchUnchanged, Prepare, Compare, ClearStage,
             WriteStage, Touch, FinishDownload
<1>4. ASSUME NEW f \in Feeds,
             \/ \E force \in BOOLEAN : StartDownload(f, force)
             \/ DownloadFails(f) \/ HandOver(f) \/ Reprocess(f)
             \/ RemoveClaimedFails(f) \/ ProcessFails(f)
      PROVE  UNCHANGED published
      BY <1>4 DEF StartDownload, DownloadFails, HandOver, Reprocess, RemoveClaimedFails,
         ProcessFails
<1>5. CASE BatchStep \/ PublishFails \/ Crash \/ Recover
      BY <1>5 DEF BatchStep, Drain, MarkActive, Publish, FinishSucceeded, FinishFailed,
         PublishFails, Crash, Recover
<1>6. CASE UNCHANGED vars
      BY <1>6 DEF vars
<1> QED BY <1>1, <1>2, <1>3, <1>4, <1>5, <1>6 DEF Next

\* Whatever fails, crashes or interleaves, the readers of a feed see versions
\* its source served, one after the other and never an older one.
THEOREM Refinement ==
  ASSUME MaxRaces = 0
  PROVE  Spec => RegisterSpec
<1>1. Init => Register!Init
      BY DEF Init, Register!Init, None
<1>2. TypeOK => races = 0
      BY DEF TypeOK
<1>3. TypeOK /\ BodyOrder /\ Aligned /\ [Next]_vars => [Register!Next]_<<upstream, committed>>
      BY StepRefines DEF published
<1> QED BY TypeCorrect, OrderKept, AlwaysAligned, <1>1, <1>2, <1>3, PTL
       DEF Spec, RegisterSpec, Register!Spec

(***************************************************************************)
(* The shape of a batch: which steps its feeds can be at in which phase.   *)
(***************************************************************************)
BatchShape ==
  /\ batch \in {"idle", "drained"} => \A f \in Feeds : ppc[f] = "idle"
  /\ batch = "idle" => items = {}
  /\ batch = "running" => \A f \in items : ppc[f] # "idle"
  /\ batch \in {"published", "settled"} => \A f \in items : ppc[f] \in {"done", "failed"}
  /\ \A f \in Feeds : ppc[f] # "idle" => f \in items

\* A step of a worker, of a queue or of the sources leaves the batch alone.
LEMMA BatchAlone ==
  ASSUME \/ \E g \in Feeds :
              \/ Serve(g) \/ \E force \in BOOLEAN : StartDownload(g, force)
              \/ DownloadStep(g) \/ DownloadFails(g) \/ HandOver(g) \/ Reprocess(g)
         \/ Recover
         \/ UNCHANGED vars
  PROVE  UNCHANGED process
  BY DEF Serve, StartDownload, DownloadStep, FetchNew, FetchUnchanged, Prepare, Compare, ClearStage,
     WriteStage, Touch, CreateBlank, FinishDownload, DownloadFails, HandOver, Reprocess, Recover, vars

\* A step of the batch for g changes where g is, and nobody else.
LEMMA BatchMoves ==
  ASSUME TypeOK, NEW g \in Feeds, ProcessStep(g) \/ RemoveClaimedFails(g) \/ ProcessFails(g)
  PROVE  /\ batch = "running" /\ g \in items /\ UNCHANGED <<batch, items>>
         /\ \A f \in Feeds : f # g => ppc'[f] = ppc[f]
         /\ ppc'[g] # "idle"
<1> USE DEF In, Step, TypeOK, process
<1>1. CASE Claim(g)          BY <1>1 DEF Claim
<1>2. CASE Parse(g)          BY <1>2 DEF Parse
<1>3. CASE WriteLatest(g)    BY <1>3 DEF WriteLatest
<1>4. CASE WriteCommitted(g) BY <1>4 DEF WriteCommitted
<1>5. CASE RemoveClaimed(g)  BY <1>5 DEF RemoveClaimed
<1>6. CASE Complete(g)       BY <1>6 DEF Complete
<1>7. CASE RemoveClaimedFails(g) BY <1>7 DEF RemoveClaimedFails
<1>8. CASE ProcessFails(g)   BY <1>8 DEF ProcessFails
<1> QED BY <1>1, <1>2, <1>3, <1>4, <1>5, <1>6, <1>7, <1>8 DEF ProcessStep

LEMMA NextShaped == TypeOK /\ BatchShape /\ [Next]_vars => BatchShape'
<1> SUFFICES ASSUME TypeOK, BatchShape, [Next]_vars PROVE BatchShape'
    OBVIOUS
<1> USE DEF BatchShape
<1>1. CASE UNCHANGED process
      BY <1>1 DEF process
<1>2. ASSUME NEW g \in Feeds, ProcessStep(g) \/ RemoveClaimedFails(g) \/ ProcessFails(g)
      PROVE  BatchShape'
  <2>1. /\ batch = "running" /\ batch' = "running" /\ g \in items /\ items' = items
        /\ \A f \in Feeds : f # g => ppc'[f] = ppc[f]
        /\ ppc'[g] # "idle"
        BY <1>2, BatchMoves
  <2>2. items \subseteq Feeds
        BY DEF TypeOK
  <2>3. \A f \in Feeds : ppc'[f] # "idle" => f \in items
        BY <2>1
  <2>4. \A f \in items : ppc'[f] # "idle"
        BY <2>1, <2>2
  <2> QED BY <2>1, <2>3, <2>4
<1>3. CASE Drain           BY <1>3 DEF Drain
<1>4. CASE MarkActive      BY <1>4 DEF MarkActive, TypeOK
<1>5. CASE Publish         BY <1>5 DEF Publish, SourcesDone
<1>6. CASE FinishSucceeded BY <1>6 DEF FinishSucceeded
<1>7. CASE FinishFailed \/ PublishFails \/ Crash
      BY <1>7 DEF FinishFailed, PublishFails, Crash, Forget
<1> QED BY <1>1, <1>2, <1>3, <1>4, <1>5, <1>6, <1>7, BatchAlone DEF Next, BatchStep

\* A batch is marked, worked on, published and settled as a whole.
THEOREM AlwaysShaped == Spec => []BatchShape
<1>1. Init => BatchShape
      BY DEF Init, BatchShape
<1>2. TypeOK /\ BatchShape /\ [Next]_vars => (TypeOK /\ BatchShape)'
      BY NextTyped, NextShaped
<1> QED BY InitTyped, <1>1, <1>2, PTL DEF Spec

(***************************************************************************)
(* A claimed body always has somebody who will work on it again, unless    *)
(* something fails.                                                        *)
(***************************************************************************)
Working == {"claimed", "parsed", "latest", "written"}

\* A batch that reads the committed body found no claimed one.
ClaimFirst(f) ==
  ppc[f] \in Working /\ psrc[f] = "committed" => claimed[f] = None

ClaimsFirst == \A f \in Feeds : ClaimFirst(f)

\* The worker of a feed does not touch what is claimed.
LEMMA ClaimedAlone ==
  ASSUME Aligned, NEW f \in Feeds,
         \/ \E g \in Feeds :
              \/ Serve(g) \/ \E force \in BOOLEAN : StartDownload(g, force)
              \/ DownloadStep(g) \/ DownloadFails(g) \/ HandOver(g) \/ Reprocess(g)
         \/ UNCHANGED vars
  PROVE  claimed' = claimed
<1>1. \A g \in Feeds : ~CreateBlank(g)
      BY DEF Aligned, DownloadSound, CreateBlank, At
<1> QED BY <1>1 DEF Serve, StartDownload, DownloadStep, FetchNew, FetchUnchanged, Prepare, Compare,
        ClearStage, WriteStage, Touch, FinishDownload, DownloadFails, HandOver, Reprocess, vars, disk

LEMMA NextClaimsFirst ==
  ASSUME TypeOK, BatchShape, Aligned, ClaimsFirst, [Next]_vars
  PROVE  ClaimsFirst'
<1> SUFFICES ASSUME NEW f \in Feeds PROVE ClaimFirst(f)'
    BY DEF ClaimsFirst
<1>0. ClaimFirst(f)
      BY DEF ClaimsFirst
<1>1. CASE UNCHANGED process /\ UNCHANGED claimed
      BY <1>0, <1>1 DEF process, ClaimFirst
<1>2. ASSUME NEW g \in Feeds, ProcessStep(g) \/ RemoveClaimedFails(g) \/ ProcessFails(g)
      PROVE  ClaimFirst(f)'
  <2> USE <1>0 DEF ClaimFirst, Working, In, Step, TypeOK
  <2>1. CASE f # g
        BY <1>2, <2>1, OtherFeeds DEF local
  <2>2. CASE f = g
    <3>1. CASE Claim(f)          BY <3>1 DEF Claim
    <3>2. CASE Parse(f)          BY <3>2 DEF Parse, disk
    <3>3. CASE WriteLatest(f)    BY <3>3 DEF WriteLatest
    <3>4. CASE WriteCommitted(f) BY <3>4 DEF WriteCommitted
    <3>5. CASE RemoveClaimed(f)  BY <3>5 DEF RemoveClaimed
    <3>6. CASE Complete(f)       BY <3>6 DEF Complete, disk
    <3>7. CASE RemoveClaimedFails(f) BY <3>7 DEF RemoveClaimedFails, disk
    <3>8. CASE ProcessFails(f)   BY <3>8 DEF ProcessFails, disk
    <3> QED BY <1>2, <2>2, <3>1, <3>2, <3>3, <3>4, <3>5, <3>6, <3>7, <3>8 DEF ProcessStep
  <2> QED BY <2>1, <2>2
<1>3. CASE Drain \/ Publish \/ FinishSucceeded
      BY <1>0, <1>3 DEF Drain, Publish, FinishSucceeded, ClaimFirst, disk
<1>4. CASE MarkActive \/ FinishFailed \/ PublishFails \/ Crash
      BY <1>4 DEF MarkActive, FinishFailed, PublishFails, Crash, Forget, ClaimFirst, Working
<1>5. CASE Recover
      BY <1>0, <1>5 DEF Recover, process, ClaimFirst, Working, Aligned, DownloadSound
<1> QED BY <1>1, <1>2, <1>3, <1>4, <1>5, BatchAlone, ClaimedAlone DEF Next, BatchStep

\* A queue entry is lost only when the batch takes it or the daemon stops.
LEMMA QueuedStays ==
  ASSUME [Next]_vars, ~Drain, ~Crash, ~Recover, NEW f \in Feeds, Queued(f)
  PROVE  Queued(f)'
<1> USE DEF Queued
<1>1. CASE UNCHANGED <<waiting, deferred, handing>>
      BY <1>1
<1>2. ASSUME NEW g \in Feeds, HandOver(g) \/ Reprocess(g) PROVE Queued(f)'
      BY <1>2 DEF HandOver, Reprocess, Enqueue, download
<1>3. ASSUME NEW g \in Feeds, FinishDownload(g) PROVE Queued(f)'
      BY <1>3 DEF FinishDownload, queue
<1>4. CASE FinishSucceeded
      BY <1>4 DEF FinishSucceeded, Release, download
<1>5. CASE FinishFailed
      BY <1>5 DEF FinishFailed, Requeue, download
<1>6. CASE PublishFails
      BY <1>6 DEF PublishFails, Requeue, download
<1>7. ASSUME NEW g \in Feeds,
             \/ Serve(g) \/ \E force \in BOOLEAN : StartDownload(g, force)
             \/ DownloadStep(g) /\ ~FinishDownload(g)
             \/ DownloadFails(g) \/ ProcessStep(g) \/ RemoveClaimedFails(g) \/ ProcessFails(g)
      PROVE  UNCHANGED <<waiting, deferred, handing>>
  <2> USE DEF download, queue
  <2>1. CASE ProcessStep(g)
        BY <2>1 DEF ProcessStep, Claim, Parse, WriteLatest, WriteCommitted, RemoveClaimed, Complete
  <2>2. CASE DownloadStep(g) /\ ~FinishDownload(g)
        BY <2>2 DEF DownloadStep, FetchNew, FetchUnchanged, Prepare, Compare, ClearStage, WriteStage,
           Touch, CreateBlank
  <2> QED BY <1>7, <2>1, <2>2 DEF Serve, StartDownload, DownloadFails, RemoveClaimedFails, ProcessFails
<1>8. CASE MarkActive \/ Publish
      BY <1>8 DEF MarkActive, Publish, download, queue
<1>9. CASE UNCHANGED vars
      BY <1>9 DEF vars, download, queue
<1> QED BY <1>1, <1>2, <1>3, <1>4, <1>5, <1>6, <1>7, <1>8, <1>9 DEF Next, BatchStep

\* Faults are only ever added, and so are crashes.
LEMMA FaultsGrow ==
  ASSUME TypeOK, [Next]_vars
  PROVE  /\ faults' = 0 => faults = 0 /\ ~Fault
         /\ crashes' = 0 => crashes = 0 /\ ~Crash
<1>0. faults \in Nat /\ crashes \in Nat
      BY DEF TypeOK
<1>1. /\ faults' = faults \/ Fault
      /\ crashes' = crashes \/ Crash
  <2>1. ASSUME NEW f \in Feeds, DownloadStep(f) PROVE UNCHANGED budget
        BY <2>1 DEF DownloadStep, FetchNew, FetchUnchanged, Prepare, Compare, ClearStage, WriteStage,
           Touch, CreateBlank, FinishDownload
  <2>2. ASSUME NEW f \in Feeds, ProcessStep(f) PROVE UNCHANGED <<faults, crashes>>
        BY <2>2 DEF ProcessStep, Claim, Parse, WriteLatest, WriteCommitted, RemoveClaimed, Complete,
           Move, budget
  <2>3. ASSUME NEW f \in Feeds,
               \/ Serve(f) \/ \E force \in BOOLEAN : StartDownload(f, force)
               \/ HandOver(f) \/ Reprocess(f)
        PROVE  UNCHANGED budget
        BY <2>3 DEF Serve, StartDownload, HandOver, Reprocess
  <2>4. ASSUME NEW f \in Feeds, DownloadFails(f) \/ RemoveClaimedFails(f) \/ ProcessFails(f)
        PROVE  Fault /\ UNCHANGED crashes
        BY <2>4 DEF DownloadFails, RemoveClaimedFails, ProcessFails, Fault
  <2>5. CASE BatchStep \/ PublishFails \/ Recover \/ Crash
        BY <2>5 DEF BatchStep, Drain, MarkActive, Publish, FinishSucceeded, FinishFailed, PublishFails,
           Fault, Recover, Crash, budget
  <2>6. CASE UNCHANGED vars
        BY <2>6 DEF vars, budget
  <2> QED BY <2>1, <2>2, <2>3, <2>4, <2>5, <2>6 DEF Next, budget
<1>2. Fault => faults' = faults + 1
      BY DEF Fault
<1>3. Crash => crashes' = crashes + 1
      BY DEF Crash
<1> QED BY <1>0, <1>1, <1>2, <1>3

\* A step of the batch for f itself.
LEMMA WorkAttends ==
  ASSUME TypeOK, BatchShape, ClaimsFirst, NEW f \in Feeds, ClaimedAttended(f), ~Fault,
         ProcessStep(f) \/ RemoveClaimedFails(f) \/ ProcessFails(f)
  PROVE  ClaimedAttended(f)'
<1>0. ProcessStep(f)
      BY DEF RemoveClaimedFails, ProcessFails
<1>1. Queued(f)' = Queued(f)
      BY <1>0 DEF Queued, ProcessStep, Claim, Parse, WriteLatest, WriteCommitted, RemoveClaimed,
         Complete, download, queue
<1> USE DEF ClaimedAttended, InBatch, In, Step, TypeOK
<1>2. CASE Claim(f)          BY <1>1, <1>2 DEF Claim
<1>3. CASE Parse(f)          BY <1>1, <1>3 DEF Parse, disk
<1>4. CASE WriteLatest(f)    BY <1>1, <1>4 DEF WriteLatest
<1>5. CASE WriteCommitted(f) BY <1>1, <1>5 DEF WriteCommitted
<1>6. CASE RemoveClaimed(f)
  <2>1. psrc[f] = "processing" \/ claimed[f] = None
        BY <1>6 DEF RemoveClaimed, ClaimsFirst, ClaimFirst, Working
  <2> QED BY <1>6, <2>1 DEF RemoveClaimed
<1>7. CASE Complete(f)       BY <1>1, <1>7 DEF Complete, disk
<1> QED BY <1>0, <1>2, <1>3, <1>4, <1>5, <1>6, <1>7 DEF ProcessStep

LEMMA NextAttended ==
  ASSUME TypeOK, BatchShape, Aligned, ClaimsFirst, [Next]_vars, up', ~Fault,
         up => \A f \in Feeds : ClaimedAttended(f)
  PROVE  \A f \in Feeds : ClaimedAttended(f)'
<1> SUFFICES ASSUME NEW f \in Feeds PROVE ClaimedAttended(f)'
    OBVIOUS
<1>1. CASE Recover
      BY <1>1 DEF Recover, ClaimedAttended, Queued, TypeOK
<1>2. CASE ~Recover
  <2>0. ~Crash /\ up /\ ClaimedAttended(f)
    <3>1. ~Crash
          BY DEF Crash
    <3>2. up
      <4>1. \A g \in Feeds : DownloadFails(g) \/ RemoveClaimedFails(g) \/ ProcessFails(g) => FALSE
            BY DEF DownloadFails, RemoveClaimedFails, ProcessFails
      <4>2. \A g \in Feeds : ProcessStep(g) => up
            BY DEF ProcessStep, Claim, Parse, WriteLatest, WriteCommitted, RemoveClaimed, Complete, In
      <4>3. \A g \in Feeds : DownloadStep(g) => up
            BY DEF DownloadStep, FetchNew, FetchUnchanged, Prepare, Compare, ClearStage, WriteStage,
               Touch, CreateBlank, FinishDownload, At
      <4>4. BatchStep \/ PublishFails => up
            BY DEF BatchStep, Drain, MarkActive, Publish, FinishSucceeded, FinishFailed, PublishFails,
               SourcesDone
      <4>5. \A g \in Feeds : /\ Serve(g) => up' = up
                             /\ \A force \in BOOLEAN : StartDownload(g, force) => up
                             /\ HandOver(g) \/ Reprocess(g) => up
            BY DEF Serve, StartDownload, At, HandOver, Reprocess, budget
      <4>6. UNCHANGED vars => up' = up
            BY DEF vars, budget
      <4> QED BY <1>2, <3>1, <4>1, <4>2, <4>3, <4>4, <4>5, <4>6 DEF Next
    <3> QED BY <3>1, <3>2
  <2>1. CASE Drain
    <3>1. /\ waiting' = {} /\ items' = waiting /\ UNCHANGED <<deferred, handing, claimed, ppc>>
          /\ ppc[f] = "idle" /\ items = {}
          BY <2>1 DEF Drain, BatchShape, disk, download
    <3> QED BY <2>0, <3>1 DEF ClaimedAttended, Queued, InBatch
  <2>2. CASE Queued(f) /\ ~Drain
        BY <1>2, <2>0, <2>2, QueuedStays DEF ClaimedAttended
  <2>3. CASE ~Queued(f) /\ ~Drain
    <3>1. CASE UNCHANGED process /\ UNCHANGED claimed
          BY <2>0, <2>3, <3>1 DEF process, ClaimedAttended, InBatch
    <3>2. ASSUME NEW g \in Feeds, ProcessStep(g) \/ RemoveClaimedFails(g) \/ ProcessFails(g)
          PROVE  ClaimedAttended(f)'
      <4>1. CASE f = g
            BY <2>0, <3>2, <4>1, WorkAttends
      <4>2. CASE f # g
        <5>1. claimed'[f] = claimed[f] /\ ppc'[f] = ppc[f] /\ items' = items
              BY <3>2, <4>2, OtherFeeds, BatchMoves DEF local
        <5> QED BY <2>0, <2>3, <5>1 DEF ClaimedAttended, InBatch
      <4> QED BY <4>1, <4>2
    <3>3. CASE MarkActive
          BY <2>0, <2>3, <3>3 DEF MarkActive, ClaimedAttended, InBatch, disk
    <3>4. CASE Publish \/ FinishSucceeded
          BY <2>0, <2>3, <3>4 DEF Publish, FinishSucceeded, ClaimedAttended, InBatch, disk
    <3>5. CASE FinishFailed
      <4>1. claimed'[f] = claimed[f] /\ waiting' = waiting \cup {g \in items : ppc[g] = "failed"}
            BY <3>5 DEF FinishFailed, Requeue, disk
      <4>2. InBatch(f) => ppc[f] = "failed"
            BY <3>5 DEF FinishFailed, BatchShape, InBatch
      <4> QED BY <2>0, <2>3, <4>1, <4>2 DEF ClaimedAttended, InBatch, Queued
    <3>6. ~PublishFails
          BY DEF PublishFails
    <3> QED BY <1>2, <2>0, <2>3, <3>1, <3>2, <3>3, <3>4, <3>5, <3>6, BatchAlone, ClaimedAlone
            DEF Next, BatchStep
  <2> QED BY <2>1, <2>2, <2>3
<1> QED BY <1>1, <1>2

\* The bounds on faults, crashes and races only shut steps out: a claimed body
\* has a queue entry or a batch that works on it, also after a restart.
THEOREM ClaimedNeverForgotten == Spec => []ClaimedNotForgotten
<1> DEFINE Safe == /\ TypeOK /\ BatchShape /\ (races = 0 => Aligned)
                   /\ (races = 0 => ClaimsFirst) /\ ClaimedNotForgotten
<1>1. Init => Safe
      BY InitTyped, InitAligned DEF Init, BatchShape, ClaimsFirst, ClaimFirst, Working,
         ClaimedNotForgotten, ClaimedAttended
<1>2. Safe /\ [Next]_vars => Safe'
  <2> SUFFICES ASSUME Safe, [Next]_vars PROVE Safe'
      OBVIOUS
  <2>1. TypeOK' /\ BatchShape' /\ (races = 0 => Aligned)'
        BY NextTyped, NextShaped, NextAligned
  <2>2. (races = 0 => ClaimsFirst)'
    <3> SUFFICES ASSUME races' = 0 PROVE ClaimsFirst'
        OBVIOUS
    <3> QED BY RacesGrow, NextClaimsFirst
  <2>3. ClaimedNotForgotten'
    <3> SUFFICES ASSUME up', faults' = 0, races' = 0 PROVE \A f \in Feeds : ClaimedAttended(f)'
        BY DEF ClaimedNotForgotten
    <3>1. races = 0 /\ faults = 0 /\ ~Fault
          BY RacesGrow, FaultsGrow
    <3>2. up => \A f \in Feeds : ClaimedAttended(f)
          BY <3>1 DEF ClaimedNotForgotten
    <3> QED BY <3>1, <3>2, NextAttended
  <2> QED BY <2>1, <2>2, <2>3
<1>3. Safe => ClaimedNotForgotten
      OBVIOUS
<1> QED BY <1>1, <1>2, <1>3, PTL DEF Spec

(***************************************************************************)
(* As long as nothing fails, crashes or races: a staged body is on its way *)
(* to a claim, and a download that found nothing new was right.            *)
(***************************************************************************)
\* A local body is the newest one and equivalent to the raw file.
Current(f) ==
  \E b \in Bodies(f) : SameBody(b, raw[f]) /\ \A c \in Bodies(f) : Before(c, b)

\* A claimed body is in the hands of the batch.
ClaimWorked(f) == claimed[f] # None => ppc[f] \in Working /\ psrc[f] = "processing"

\* The file a worker compares with is the newest or gone, and outside its
\* fetch and its rewrite the newest body is that of the raw file.
WorkerCalm(f) ==
  /\ dpc[f] = "compare" => /\ dpath[f] # "new" => staged[f] = None
                           /\ dpath[f] = "committed" => claimed[f] = None
  /\ dpc[f] \in {"touch", "done"} => Current(f)
  /\ dpc[f] \in {"idle", "fetch"} /\ raw[f] # None => Current(f)

CalmFeed(f) == ClaimWorked(f) /\ StagedAttended(f) /\ WorkerCalm(f)

Serene == up /\ \A f \in Feeds : CalmFeed(f)

\* What the lemmas below assume of a step from a calm state to a calm state.
CalmStep ==
  /\ TypeOK /\ BodyOrder /\ BatchShape /\ Aligned /\ Serene
  /\ [Next]_vars /\ ~Fault /\ ~Crash /\ races' = 0

\* Then it is one of these.
LEMMA CalmSteps ==
  ASSUME CalmStep
  PROVE  \/ \E g \in Feeds :
              \/ Serve(g) \/ \E force \in BOOLEAN : StartDownload(g, force)
              \/ DownloadStep(g) \/ HandOver(g) \/ Reprocess(g) \/ ProcessStep(g)
         \/ BatchStep
         \/ UNCHANGED vars
<1>1. ~Recover
      BY DEF CalmStep, Serene, Recover
<1>2. ~PublishFails /\ \A g \in Feeds : ~DownloadFails(g) /\ ~RemoveClaimedFails(g) /\ ~ProcessFails(g)
      BY DEF CalmStep, PublishFails, DownloadFails, RemoveClaimedFails, ProcessFails
<1> QED BY <1>1, <1>2 DEF CalmStep, Next

\* The daemon stays up.
LEMMA CalmUp == CalmStep => up'
<1> SUFFICES ASSUME CalmStep PROVE up' = up
    BY DEF CalmStep, Serene
<1>1. ASSUME NEW g \in Feeds, ProcessStep(g) PROVE up' = up
      BY <1>1 DEF ProcessStep, Claim, Parse, WriteLatest, WriteCommitted, RemoveClaimed, Complete, Move,
         budget
<1>2. ASSUME NEW g \in Feeds, DownloadStep(g) PROVE up' = up
      BY <1>2 DEF DownloadStep, FetchNew, FetchUnchanged, Prepare, Compare, ClearStage, WriteStage,
         Touch, CreateBlank, FinishDownload, budget
<1>3. CASE BatchStep
      BY <1>3 DEF BatchStep, Drain, MarkActive, Publish, FinishSucceeded, FinishFailed, budget
<1> QED BY <1>1, <1>2, <1>3, CalmSteps DEF Serve, StartDownload, HandOver, Reprocess, vars, budget

LEMMA CalmClaims ==
  ASSUME CalmStep, NEW f \in Feeds
  PROVE  ClaimWorked(f)'
<1>0. ClaimWorked(f) /\ BatchShape /\ TypeOK /\ Aligned
      BY DEF CalmStep, Serene, CalmFeed
<1> USE DEF ClaimWorked
<1>1. CASE UNCHANGED process /\ UNCHANGED claimed
      BY <1>0, <1>1 DEF process
<1>2. ASSUME NEW g \in Feeds, ProcessStep(g) PROVE ClaimWorked(f)'
  <2>1. CASE f # g
        BY <1>0, <1>2, <2>1, OtherFeeds DEF local
  <2>2. CASE f = g
    <3> USE <1>0 DEF Working, In, Step, TypeOK
    <3>1. CASE Claim(f)          BY <3>1 DEF Claim
    <3>2. CASE Parse(f)          BY <3>2 DEF Parse, disk
    <3>3. CASE WriteLatest(f)    BY <3>3 DEF WriteLatest
    <3>4. CASE WriteCommitted(f) BY <3>4 DEF WriteCommitted
    <3>5. CASE RemoveClaimed(f)  BY <3>5 DEF RemoveClaimed
    <3>6. CASE Complete(f)       BY <3>6 DEF Complete, disk
    <3> QED BY <1>2, <2>2, <3>1, <3>2, <3>3, <3>4, <3>5, <3>6 DEF ProcessStep
  <2> QED BY <2>1, <2>2
<1>3. CASE Drain \/ Publish \/ FinishSucceeded
      BY <1>0, <1>3 DEF Drain, Publish, FinishSucceeded, disk
<1>4. CASE MarkActive \/ FinishFailed
  <2>1. ppc[f] \notin Working
        BY <1>0, <1>4 DEF MarkActive, FinishFailed, BatchShape, Working
  <2>2. claimed'[f] = claimed[f]
        BY <1>4 DEF MarkActive, FinishFailed, disk
  <2> QED BY <1>0, <2>1, <2>2
<1> QED BY <1>0, <1>1, <1>2, <1>3, <1>4, CalmSteps, BatchAlone, ClaimedAlone DEF BatchStep

\* What a staged body of f depends on besides the queues.
stage(f) == <<staged[f], claimed[f], admit[f], dpc[f], ppc[f], batch, items>>

LEMMA CalmStages ==
  ASSUME CalmStep, NEW f \in Feeds
  PROVE  StagedAttended(f)'
<1>0. /\ StagedAttended(f) /\ ClaimWorked(f) /\ BatchShape /\ TypeOK /\ Aligned
      /\ [Next]_vars /\ ~Recover /\ ~Crash
      BY DEF CalmStep, Serene, CalmFeed, Recover
<1> USE DEF StagedAttended, ToClaim, Reporting
<1>1. CASE Drain
  <2>1. /\ waiting' = {} /\ items' = waiting /\ batch' = "drained" /\ items = {}
        /\ UNCHANGED <<deferred, handing, staged, claimed, ppc, dpc, admit>>
        /\ ppc[f] = "idle"
        BY <1>0, <1>1 DEF Drain, BatchShape, disk, download
  <2>2. claimed[f] = None
        BY <1>0, <2>1 DEF ClaimWorked, Working
  <2> QED BY <1>0, <2>1, <2>2 DEF Queued
<1>2. CASE Queued(f) /\ ~Drain
      BY <1>0, <1>2, QueuedStays
<1>3. CASE ~Queued(f) /\ ~Drain
  <2>0. staged[f] = None \/ ToClaim(f) \/ Reporting(f)
        BY <1>0, <1>3
  <2>1. CASE UNCHANGED stage(f)
        BY <2>0, <2>1 DEF stage
  <2>2. ASSUME NEW g \in Feeds, DownloadStep(g) PROVE StagedAttended(f)'
    <3>1. CASE f # g
      <4>1. admit'[f] = admit[f]
            BY <1>0, <2>2, <3>1 DEF TypeOK, DownloadStep, FetchNew, FetchUnchanged, Prepare, Compare,
               ClearStage, WriteStage, Touch, CreateBlank, FinishDownload, Leave
      <4>2. UNCHANGED process
            BY <2>2, BatchAlone
      <4> QED BY <1>0, <2>1, <2>2, <3>1, <4>1, <4>2, OtherFeeds DEF local, stage, process
    <3>2. CASE f = g
      <4> USE <1>0, <2>0 DEF At, Goto, Leave, TypeOK, Queued
      <4>1. CASE FetchNew(f)       BY <4>1 DEF FetchNew, process
      <4>2. CASE FetchUnchanged(f) BY <4>2 DEF FetchUnchanged, disk, process
      <4>3. CASE Prepare(f)        BY <4>3 DEF Prepare, disk, process
      <4>4. CASE Compare(f)        BY <4>4 DEF Compare, disk, process
      <4>5. CASE ClearStage(f)     BY <4>5 DEF ClearStage
      <4>6. CASE WriteStage(f)     BY <4>6 DEF WriteStage
      <4>7. CASE Touch(f)          BY <4>7 DEF Touch, disk, process
      <4>8. CASE CreateBlank(f)    BY <4>8 DEF CreateBlank, Aligned, DownloadSound
      <4>9. CASE FinishDownload(f) BY <4>9 DEF FinishDownload, disk, process
      <4> QED BY <2>2, <3>2, <4>1, <4>2, <4>3, <4>4, <4>5, <4>6, <4>7, <4>8, <4>9 DEF DownloadStep
    <3> QED BY <3>1, <3>2
  <2>3. ASSUME NEW g \in Feeds, ProcessStep(g) PROVE StagedAttended(f)'
    <3>0. UNCHANGED download
          BY <2>3 DEF ProcessStep, Claim, Parse, WriteLatest, WriteCommitted, RemoveClaimed, Complete
    <3>1. CASE f # g
          BY <1>0, <2>1, <2>3, <3>0, <3>1, OtherFeeds, BatchMoves DEF local, stage, download
    <3>2. CASE f = g
      <4> USE <1>0, <2>0, <3>0 DEF In, Step, TypeOK, download
      <4>1. CASE Claim(f)          BY <4>1 DEF Claim
      <4>2. CASE Parse(f)          BY <4>2 DEF Parse, disk
      <4>3. CASE WriteLatest(f)    BY <4>3 DEF WriteLatest
      <4>4. CASE WriteCommitted(f) BY <4>4 DEF WriteCommitted
      <4>5. CASE RemoveClaimed(f)  BY <4>5 DEF RemoveClaimed
      <4>6. CASE Complete(f)       BY <4>6 DEF Complete, disk
      <4> QED BY <2>3, <3>2, <4>1, <4>2, <4>3, <4>4, <4>5, <4>6 DEF ProcessStep
    <3> QED BY <3>1, <3>2
  <2>4. ASSUME NEW g \in Feeds, NEW force \in BOOLEAN, StartDownload(g, force)
        PROVE  StagedAttended(f)'
        BY <1>0, <2>0, <2>4 DEF StartDownload, At, Goto, TypeOK, disk, process
  <2>5. CASE MarkActive
        BY <1>0, <2>0, <2>5 DEF MarkActive, BatchShape, disk, download
  <2>6. CASE Publish \/ FinishSucceeded
        BY <1>0, <2>0, <2>6 DEF Publish, SourcesDone, FinishSucceeded, BatchShape, disk, download
  <2>7. CASE FinishFailed
    <3>1. UNCHANGED <<staged, dpc, admit>> /\ waiting' = waiting \cup {g \in items : ppc[g] = "failed"}
          BY <2>7 DEF FinishFailed, Requeue, disk, download
    <3>2. ToClaim(f) => ppc[f] = "failed" /\ f \in items
          BY <1>0, <2>7 DEF FinishFailed, BatchShape
    <3> QED BY <2>0, <3>1, <3>2 DEF Queued
  <2>8. ASSUME NEW g \in Feeds, Serve(g) \/ HandOver(g) \/ Reprocess(g) PROVE UNCHANGED stage(f)
        BY <2>8 DEF Serve, HandOver, Reprocess, stage, disk, download, process
  <2>9. CASE UNCHANGED vars
        BY <2>1, <2>9 DEF vars, stage, disk, download, process
  <2> QED BY <1>3, <2>1, <2>2, <2>3, <2>4, <2>5, <2>6, <2>7, <2>8, <2>9, CalmSteps DEF BatchStep
<1> QED BY <1>1, <1>2, <1>3

\* What the worker of f and the newest body depend on.
LEMMA WorkerLocal ==
  ASSUME NEW f \in Feeds, WorkerCalm(f),
         UNCHANGED <<raw[f], staged[f], claimed[f], committed[f], dpc[f], dpath[f]>>
  PROVE  WorkerCalm(f)'
  BY DEF WorkerCalm, Current, Bodies

\* A body that is the newest and that of the raw file makes f current.
LEMMA CurrentBy ==
  ASSUME TypeOK, BodyOrder, NEW f \in Feeds, NEW b \in Bodies(f), SameBody(b, raw[f]),
         \/ b = staged[f]
         \/ b = claimed[f] /\ staged[f] = None
         \/ b = committed[f] /\ staged[f] = None /\ claimed[f] = None
         \/ b = raw[f]
  PROVE  Current(f)
<1>1. \A c \in Bodies(f) : Before(c, b)
      BY DEF BodyOrder, Bodies, Before, Real, Versions, None, SameBody, TypeOK
<1> QED BY <1>1 DEF Current

\* The worker's own steps.
LEMMA DownloadStaysCalm ==
  ASSUME CalmStep, NEW f \in Feeds, DownloadStep(f)
  PROVE  WorkerCalm(f)'
<1>0. /\ WorkerCalm(f) /\ TypeOK /\ BodyOrder /\ Aligned
      /\ TypeOK' /\ BodyOrder'
      BY NextTyped, NextOrdered DEF CalmStep, Serene, CalmFeed
<1>1. CASE FetchNew(f)
      BY <1>0, <1>1 DEF FetchNew, WorkerCalm, Goto, TypeOK
<1>2. CASE FetchUnchanged(f)
  <2>1. raw[f] # None /\ Current(f) /\ UNCHANGED <<raw, staged, claimed, committed>>
        BY <1>0, <1>2 DEF FetchUnchanged, At, WorkerCalm, TypeOK, Versions, None, disk
  <2>2. Current(f)' /\ dpc'[f] # "compare"
        BY <1>0, <1>2, <2>1 DEF FetchUnchanged, Goto, TypeOK, Current, Bodies
  <2> QED BY <2>2 DEF WorkerCalm
<1>3. CASE Prepare(f)
      BY <1>0, <1>3 DEF Prepare, Goto, WorkerCalm, LatestPath, TypeOK, disk
<1>4. CASE Compare(f)
  <2>1. /\ dpc[f] = "compare" /\ UNCHANGED <<raw, staged, claimed, committed>>
        /\ dpc'[f] = IF SameBody(File(f, dpath[f]), raw[f]) THEN "touch" ELSE "clear"
        BY <1>0, <1>4 DEF Compare, At, Goto, TypeOK, disk
  <2>2. CASE ~SameBody(File(f, dpath[f]), raw[f])
        BY <2>1, <2>2 DEF WorkerCalm
  <2>3. CASE SameBody(File(f, dpath[f]), raw[f])
    <3>1. File(f, dpath[f]) \in Bodies(f)
          BY <1>0 DEF File, Bodies, TypeOK, Paths
    <3>2. \/ File(f, dpath[f]) = staged[f]
          \/ File(f, dpath[f]) = claimed[f] /\ staged[f] = None
          \/ File(f, dpath[f]) = committed[f] /\ staged[f] = None /\ claimed[f] = None
          BY <1>0, <2>1 DEF WorkerCalm, File, TypeOK, Paths
    <3>3. Current(f)
          BY <1>0, <2>3, <3>1, <3>2, CurrentBy
    <3> QED BY <2>1, <2>3, <3>3 DEF WorkerCalm, Current, Bodies
  <2> QED BY <2>2, <2>3
<1>5. CASE ClearStage(f)
      BY <1>0, <1>5 DEF ClearStage, Goto, WorkerCalm, TypeOK
<1>6. CASE WriteStage(f)
  <2>1. /\ staged'[f] = raw[f] /\ raw'[f] = raw[f] /\ dpc'[f] = "touch" /\ raw[f] # None
        BY <1>0, <1>6 DEF WriteStage, At, Goto, TypeOK, Aligned, DownloadSound
  <2>2. SameBody(raw[f], raw[f])
        BY <1>0, <2>1 DEF SameBody, Real, TypeOK
  <2>3. /\ staged'[f] \in Bodies(f)'
        /\ \A c \in Bodies(f)' : Before(c, staged'[f])
        BY <1>0, <2>1 DEF BodyOrder, Bodies, Before
  <2>4. Current(f)'
        BY <2>1, <2>2, <2>3 DEF Current, SameBody
  <2> QED BY <2>1, <2>4 DEF WorkerCalm
<1>7. CASE Touch(f)
  <2>1. /\ dpc[f] = "touch" /\ dpc'[f] # "compare" /\ UNCHANGED <<raw, staged, claimed, committed>>
        BY <1>0, <1>7 DEF Touch, At, Goto, TypeOK, disk
  <2> QED BY <1>0, <2>1 DEF WorkerCalm, Current, Bodies
<1>8. CASE CreateBlank(f)
      BY <1>0, <1>8 DEF CreateBlank, At, Aligned, DownloadSound
<1>9. CASE FinishDownload(f)
  <2>1. /\ dpc[f] = "done" /\ dpc'[f] = "idle" /\ UNCHANGED <<raw, staged, claimed, committed>>
        BY <1>0, <1>9 DEF FinishDownload, At, Leave, Goto, TypeOK, disk
  <2> QED BY <1>0, <2>1 DEF WorkerCalm, Current, Bodies
<1> QED BY <1>1, <1>2, <1>3, <1>4, <1>5, <1>6, <1>7, <1>8, <1>9 DEF DownloadStep

\* The steps of the batch: a claim moves the newest body, a commit copies it,
\* and what is removed is committed.
LEMMA BatchStaysCalm ==
  ASSUME CalmStep, NEW f \in Feeds, ProcessStep(f)
  PROVE  WorkerCalm(f)'
<1>0. /\ WorkerCalm(f) /\ ClaimWorked(f) /\ TypeOK /\ BodyOrder /\ Aligned /\ Sound(f)
      BY AlignedIsSound DEF CalmStep, Serene, CalmFeed
<1>1. CASE UNCHANGED disk /\ UNCHANGED download
      BY <1>0, <1>1, WorkerLocal DEF disk, download
<1>2. CASE Claim(f) /\ ~UNCHANGED <<staged, claimed>>
  <2>1. /\ claimed[f] = None /\ staged[f] # None
        /\ claimed'[f] = staged[f] /\ staged'[f] = None
        /\ UNCHANGED <<raw, committed, dpc, dpath>>
        BY <1>0, <1>2 DEF Claim, TypeOK, download
  <2>2. Bodies(f)' = Bodies(f)
        BY <2>1 DEF Bodies
  <2>3. dpc[f] = "compare" => dpath[f] = "new"
        BY <1>0, <2>1 DEF WorkerCalm
  <2> QED BY <1>0, <2>1, <2>2, <2>3 DEF WorkerCalm, Current
<1>3. CASE WriteLatest(f)
      BY <1>0, <1>3, WorkerLocal DEF WriteLatest, download
<1>4. CASE WriteCommitted(f)
  <2>1. /\ committed'[f] = Source(f) /\ UNCHANGED <<raw, staged, claimed, dpc, dpath>>
        BY <1>0, <1>4 DEF WriteCommitted, TypeOK, download
  <2>2. CASE Source(f) = committed[f]
        BY <1>0, <2>1, <2>2, WorkerLocal
  <2>3. CASE Source(f) # committed[f]
    <3>1. Source(f) = claimed[f] /\ claimed[f] # None
          BY <1>0, <1>4, <2>3 DEF Source, Sound, BatchSound, WriteCommitted, In
    <3>2. claimed[f] \in Versions
          BY <1>0, <3>1 DEF Sound, TypeOK, Body
    <3>3. Current(f) => Current(f)'
      <4> SUFFICES ASSUME NEW b \in Bodies(f), SameBody(b, raw[f]), \A c \in Bodies(f) : Before(c, b)
                   PROVE  Current(f)'
          BY DEF Current
      <4>1. b # committed[f]
        <5> SUFFICES ASSUME b = committed[f] PROVE FALSE
            OBVIOUS
        <5>1. Before(claimed[f], b) /\ Before(b, claimed[f])
              BY <1>0 DEF Bodies, BodyOrder
        <5>2. Real(b) /\ Real(claimed[f])
              BY <3>2 DEF SameBody, Real
        <5>3. b = claimed[f]
              BY <5>1, <5>2 DEF Before, Real, Versions
        <5> QED BY <2>3, <3>1, <5>3
      <4>2. Bodies(f)' = {staged[f], claimed[f]}
            BY <2>1, <3>1 DEF Bodies
      <4>3. b \in Bodies(f)' /\ Bodies(f)' \subseteq Bodies(f)
            BY <4>1, <4>2 DEF Bodies
      <4> QED BY <2>1, <4>3 DEF Current
    <3> QED BY <1>0, <2>1, <3>3 DEF WorkerCalm
  <2> QED BY <2>2, <2>3
<1>5. CASE RemoveClaimed(f)
  <2>0. committed[f] = Source(f)
        BY <1>0, <1>5 DEF RemoveClaimed, In, Sound, BatchSound
  <2>1. /\ UNCHANGED <<raw, staged, committed, dpc, dpath>>
        /\ claimed'[f] = claimed[f] \/ (claimed'[f] = None /\ committed[f] = claimed[f])
        BY <1>0, <1>5, <2>0 DEF RemoveClaimed, TypeOK, Source, download
  <2>2. CASE claimed'[f] = claimed[f]
        BY <1>0, <2>1, <2>2, WorkerLocal
  <2>3. CASE claimed'[f] = None /\ committed[f] = claimed[f]
    <3>1. Bodies(f)' = Bodies(f) \cup {None}
          BY <2>1, <2>3 DEF Bodies
    <3>2. \A b : Before(None, b)
          BY DEF Before, Real, Versions, None
    <3> QED BY <1>0, <2>1, <2>3, <3>1, <3>2 DEF WorkerCalm, Current
  <2> QED BY <2>1, <2>2, <2>3
<1>6. CASE Claim(f) /\ UNCHANGED <<staged, claimed>>
      BY <1>0, <1>6, WorkerLocal DEF Claim, download
<1> QED BY <1>1, <1>2, <1>3, <1>4, <1>5, <1>6 DEF ProcessStep, Parse, Complete

LEMMA CalmWorkers ==
  ASSUME CalmStep, NEW f \in Feeds
  PROVE  WorkerCalm(f)'
<1>0. WorkerCalm(f) /\ TypeOK /\ Aligned
      BY DEF CalmStep, Serene, CalmFeed
<1>1. ASSUME NEW g \in Feeds, DownloadStep(g) \/ ProcessStep(g) PROVE WorkerCalm(f)'
      BY <1>0, <1>1, OtherFeeds, WorkerLocal, DownloadStaysCalm, BatchStaysCalm DEF local
<1>2. ASSUME NEW g \in Feeds, NEW force \in BOOLEAN, StartDownload(g, force) PROVE WorkerCalm(f)'
      BY <1>0, <1>2 DEF StartDownload, At, Goto, TypeOK, WorkerCalm, Current, Bodies, disk
<1>3. CASE UNCHANGED disk /\ UNCHANGED <<dpc, dpath>>
      BY <1>0, <1>3, WorkerLocal DEF disk
<1> QED BY <1>1, <1>2, <1>3, CalmSteps DEF BatchStep, Drain, MarkActive, Publish, FinishSucceeded,
        FinishFailed, Serve, HandOver, Reprocess, vars, download

LEMMA InitSerene == Init => Serene
  BY DEF Init, Serene, CalmFeed, ClaimWorked, StagedAttended, WorkerCalm

\* In a calm, staged and claimed bodies are attended and the workers' raw
\* files are those of the newest bodies.
THEOREM AlwaysSerene == Spec => [](Calm => Serene)
<1> DEFINE Safe == /\ TypeOK /\ BodyOrder /\ BatchShape /\ (races = 0 => Aligned)
                   /\ (Calm => Serene)
<1>1. Init => Safe
      BY InitTyped, InitOrdered, InitAligned, InitSerene DEF Init, BatchShape
<1>2. Safe /\ [Next]_vars => Safe'
  <2> SUFFICES ASSUME Safe, [Next]_vars PROVE Safe'
      OBVIOUS
  <2>1. TypeOK' /\ BodyOrder' /\ BatchShape' /\ (races = 0 => Aligned)'
        BY NextTyped, NextOrdered, NextShaped, NextAligned
  <2>2. (Calm => Serene)'
    <3> SUFFICES ASSUME Calm' PROVE Serene'
        OBVIOUS
    <3>1. CalmStep
      <4>1. races = 0 /\ faults = 0 /\ crashes = 0 /\ ~Fault /\ ~Crash
            BY RacesGrow, FaultsGrow DEF Calm
      <4> QED BY <4>1 DEF Calm, CalmStep
    <3> QED BY <3>1, CalmUp, CalmClaims, CalmStages, CalmWorkers DEF Serene, CalmFeed
  <2> QED BY <2>1, <2>2
<1>3. Safe => (Calm => Serene)
      OBVIOUS
<1> QED BY <1>1, <1>2, <1>3, PTL DEF Spec

\* A staged body is never forgotten in a calm, whatever is staged while a
\* batch works on its feed.
THEOREM StagedNeverForgotten == Spec => []StagedNotForgotten
<1>1. (Calm => Serene) => StagedNotForgotten
      BY DEF Serene, CalmFeed, StagedNotForgotten
<1> QED BY AlwaysSerene, <1>1, PTL

\* A download that hands nothing over leaves the newest body current in a calm.
THEOREM UnchangedIsRight == Spec => []UnchangedInCalm
<1>1. (Calm => Serene) => UnchangedInCalm
  <2> SUFFICES ASSUME Serene, NEW f \in Feeds, dpc[f] = "done"
               PROVE  Current(f)
      BY DEF Calm, UnchangedInCalm, UnchangedIsCurrent, Current
  <2> QED BY DEF Serene, CalmFeed, WorkerCalm
<1> QED BY AlwaysSerene, <1>1, PTL
=============================================================================
