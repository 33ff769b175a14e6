--------------------------- MODULE DownloadQueue ---------------------------
(***************************************************************************)
(* The download queue of the scheduler (pkg/scheduler): what waits, what   *)
(* is being downloaded, what has to be downloaded once more, and how the   *)
(* fetch loop, its workers, the action loop, the processing loop and the   *)
(* recovery at start share them under one mutex and one wake-up channel.   *)
(*                                                                         *)
(* Every critical section of stateMu is one step; what happens between two *)
(* of them (a finished worker that has yet to release its feed, a request  *)
(* that has yet to wake the loop) is explicit.  The order in which items   *)
(* that could start are picked is left open.                               *)
(***************************************************************************)
EXTENDS Naturals, FiniteSets

CONSTANTS
  Names,       (* feeds and artifact parents                               *)
  Parents,     (* DerivedFrom: the inputs a feed is composed from          *)
  Recoverable, (* artifacts that are found staged at start                 *)
  Workers      (* parallel_downloads                                       *)

ASSUME QueueAssumption ==
  /\ Parents \in [Names -> SUBSET Names]
  /\ \A S \in SUBSET Names :   (* DetectCycles *)
       S # {} => \E n \in S : Parents[n] \cap S = {}
  /\ Recoverable \subseteq Names
  /\ Workers \in Nat \ {0}

(***************************************************************************)
(* Queued work: how it is to be done and whether processing is forced.     *)
(***************************************************************************)
Items   == [kind : {"normal", "recovered"}, force : BOOLEAN]
NoItem  == [kind |-> "none", force |-> FALSE]
Slots   == Items \cup {NoItem}

VARIABLES
  waiting,    (* download.waiting                                          *)
  active,     (* download.active, and so the workers that fetch            *)
  pending,    (* download.refetchPending                                   *)
  tail,       (* the worker of a feed after finishDownload                 *)
  loop,       (* where the fetch loop is                                   *)
  token,      (* the wake-up channel, of capacity one, is full             *)
  wakers,     (* other loops that changed the queue and have yet to wake   *)
  owed,       (* history: forced requests no forced download has begun for *)
  unrecovered (* history: staged artifacts nobody recovered yet            *)

vars == <<waiting, active, pending, tail, loop, token, wakers, owed, unrecovered>>

Waiting == {n \in Names : waiting[n] # NoItem}
Active  == {n \in Names : active[n] # NoItem}
Pending == {n \in Names : pending[n] # NoItem}

(***************************************************************************)
(* Admission.                                                              *)
(***************************************************************************)
\* Faulty variants: a new entry has no kind; the newest request decides whether
\* processing is forced; the newest request decides the kind.
MergeKeepsKind(current, incoming) ==
  [kind |-> current.kind, force |-> current.force \/ incoming.force]
MergeLastForce(current, incoming) ==
  [kind |-> IF current.kind = "recovered" THEN "recovered" ELSE incoming.kind,
   force |-> incoming.force]
MergeLastKind(current, incoming) ==
  [kind |-> incoming.kind, force |-> current.force \/ incoming.force]

\* mergeQueuedWork: recovered work stays recovered, a forced request forces.
Merge(current, incoming) ==
  [kind  |-> IF current.kind \in {"none", "normal"} THEN incoming.kind ELSE current.kind,
   force |-> current.force \/ incoming.force]

\* enqueueDownloadLocked
Enqueue(n, item) ==
  /\ IF n \in Active \ Waiting
       THEN /\ pending' = [pending EXCEPT ![n] = Merge(@, item)]
            /\ UNCHANGED waiting
       ELSE /\ waiting' = [waiting EXCEPT ![n] = Merge(@, item)]
            /\ UNCHANGED pending
  /\ owed' = IF item.force THEN owed \cup {n} ELSE owed

\* releaseDeferredDownload
Release(n) ==
  IF n \in Pending \ (Waiting \cup Active)
    THEN /\ waiting' = [waiting EXCEPT ![n] = pending[n]]
         /\ pending' = [pending EXCEPT ![n] = NoItem]
    ELSE UNCHANGED <<waiting, pending>>

Normal(force) == [kind |-> "normal", force |-> force]

Init ==
  /\ waiting = [n \in Names |-> IF n \in Recoverable
                                THEN [kind |-> "recovered", force |-> TRUE] ELSE NoItem]
  /\ active  = [n \in Names |-> NoItem]
  /\ pending = [n \in Names |-> NoItem]
  /\ tail    = [n \in Names |-> "none"]
  /\ loop    = "evaluate"
  /\ token   = (Recoverable # {})
  /\ wakers  = {}
  /\ owed    = Recoverable
  /\ unrecovered = Recoverable

(***************************************************************************)
(* The fetch loop: evaluate what is due, dispatch while a worker is free,  *)
(* evaluate again if anything was dispatched, otherwise sleep.             *)
(***************************************************************************)
\* Which feeds are due by cadence or retry is left open; changed critical
\* providers make a feed due with force.
Due(n, force) ==
  /\ loop = "evaluate"
  /\ Enqueue(n, Normal(force))
  /\ UNCHANGED <<active, tail, loop, token, wakers, unrecovered>>

Evaluated ==
  /\ loop = "evaluate"
  /\ loop' = "dispatch"
  /\ UNCHANGED <<waiting, active, pending, tail, token, wakers, owed, unrecovered>>

\* Faulty variant: an input that is being downloaded counts as settled.
NotQueued(n) == Parents[n] \cap Waiting = {}

\* downloadInputsSettledLocked
Settled(n) == Parents[n] \cap (Waiting \cup Active) = {}

\* startNextDownload: a settled feed, or any feed if all are blocked and
\* nothing is being downloaded.
MayStart(n) ==
  /\ n \in Waiting
  /\ Settled(n) \/ (Active = {} /\ \A m \in Waiting : ~Settled(m))

FreeWorker == Cardinality(Active) < Workers

Start(n) ==
  /\ loop \in {"dispatch", "dispatched"}
  /\ FreeWorker
  /\ MayStart(n)
  /\ waiting' = [waiting EXCEPT ![n] = NoItem]
  /\ active'  = [active EXCEPT ![n] = waiting[n]]
  /\ loop'    = "dispatched"
  /\ owed'    = IF waiting[n].force THEN owed \ {n} ELSE owed
  /\ UNCHANGED <<pending, tail, token, wakers, unrecovered>>

DispatchEnds ==
  /\ loop \in {"dispatch", "dispatched"}
  /\ ~FreeWorker \/ ~\E n \in Names : MayStart(n)
  /\ loop' = IF loop = "dispatched" THEN "evaluate" ELSE "sleep"
  /\ UNCHANGED <<waiting, active, pending, tail, token, wakers, owed, unrecovered>>

WakeUp ==
  /\ loop = "sleep"
  /\ token
  /\ token' = FALSE
  /\ loop' = "evaluate"
  /\ UNCHANGED <<waiting, active, pending, tail, wakers, owed, unrecovered>>

\* nextWait: the time until something is due.
TimerFires ==
  /\ loop = "sleep"
  /\ loop' = "evaluate"
  /\ UNCHANGED <<waiting, active, pending, tail, token, wakers, owed, unrecovered>>

(***************************************************************************)
(* A download worker.  It leaves the active set, then requests what its    *)
(* result calls for, releases a refetch, and wakes the loop on return.     *)
(* Bound: one worker of a feed at a time between the two.                  *)
(***************************************************************************)
\* finishDownload, also after a panic.  An attempt to recover counts, whatever its
\* outcome: of the errors only a corrupt artifact has a consequence here, any
\* other is only logged.
Finish(n) ==
  /\ n \in Active
  /\ tail[n] = "none"
  /\ active' = [active EXCEPT ![n] = NoItem]
  /\ unrecovered' = IF active[n].kind = "recovered" THEN unrecovered \ {n} ELSE unrecovered
  /\ \/ tail' = [tail EXCEPT ![n] = "finished"]
     \/ active[n].kind = "recovered" /\ tail' = [tail EXCEPT ![n] = "corrupt"]
  /\ UNCHANGED <<waiting, pending, loop, token, wakers, owed>>

\* ErrRecoveredArtifactCorrupt: fetch the artifact after all.
RequestFetch(n) ==
  /\ tail[n] = "corrupt"
  /\ Enqueue(n, Normal(TRUE))
  /\ tail' = [tail EXCEPT ![n] = "finished"]
  /\ UNCHANGED <<active, loop, token, wakers, unrecovered>>

\* Faulty variants: an early return skips the release, or the wake-up.
SkipRelease(n) ==
  /\ tail[n] = "finished"
  /\ tail' = [tail EXCEPT ![n] = "released"]
  /\ UNCHANGED <<waiting, active, pending, loop, token, wakers, owed, unrecovered>>

SkipWake(n) ==
  /\ tail[n] = "released"
  /\ tail' = [tail EXCEPT ![n] = "none"]
  /\ UNCHANGED <<waiting, active, pending, loop, token, wakers, owed, unrecovered>>

ReleaseRefetch(n) ==
  /\ tail[n] = "finished"
  /\ Release(n)
  /\ tail' = [tail EXCEPT ![n] = "released"]
  /\ UNCHANGED <<active, loop, token, wakers, owed, unrecovered>>

Return(n) ==
  /\ tail[n] = "released"
  /\ token' = TRUE
  /\ tail' = [tail EXCEPT ![n] = "none"]
  /\ UNCHANGED <<waiting, active, pending, loop, wakers, owed, unrecovered>>

(***************************************************************************)
(* The other loops.                                                        *)
(***************************************************************************)
\* handleAction: a recheck forces processing, a run does not.
Action(n, force) ==
  /\ Enqueue(n, Normal(force))
  /\ wakers' = wakers \cup {"action"}
  /\ UNCHANGED <<active, tail, loop, token, unrecovered>>

\* requeuePendingDownloads after a processing batch.
BatchReleases(n) ==
  /\ Release(n)
  /\ wakers' = wakers \cup {"processing"}
  /\ UNCHANGED <<active, tail, loop, token, owed, unrecovered>>

\* wakeDownloadLoop
Wake(w) ==
  /\ w \in wakers
  /\ token' = TRUE
  /\ wakers' = wakers \ {w}
  /\ UNCHANGED <<waiting, active, pending, tail, loop, owed, unrecovered>>

Worker(n) == Finish(n) \/ RequestFetch(n) \/ ReleaseRefetch(n) \/ Return(n)

Next ==
  \/ Evaluated
  \/ DispatchEnds
  \/ WakeUp
  \/ TimerFires
  \/ \E n \in Names :
       \/ Start(n)
       \/ Worker(n)
       \/ \E force \in BOOLEAN : Due(n, force) \/ Action(n, force)
       \/ BatchReleases(n)
  \/ \E w \in {"action", "processing"} : Wake(w)

\* The loop and the workers go on, and whoever changed the queue wakes the
\* loop.  Starting is FIFO among the feeds that may start, so a feed that may
\* start again and again does.  The timer is not assumed to fire.
Fairness ==
  /\ WF_vars(Evaluated) /\ WF_vars(DispatchEnds) /\ WF_vars(WakeUp)
  /\ \A n \in Names : SF_vars(Start(n)) /\ WF_vars(Worker(n))
  /\ \A w \in {"action", "processing"} : WF_vars(Wake(w))

Spec     == Init /\ [][Next]_vars
FairSpec == Spec /\ Fairness

(***************************************************************************)
(* Properties.                                                             *)
(***************************************************************************)
\* Every variable has its type.
TypeOK ==
  /\ waiting \in [Names -> Slots]
  /\ active  \in [Names -> Slots]
  /\ pending \in [Names -> Slots]
  /\ tail    \in [Names -> {"none", "finished", "corrupt", "released"}]
  /\ loop    \in {"evaluate", "dispatch", "dispatched", "sleep"}
  /\ token   \in BOOLEAN
  /\ wakers  \in SUBSET {"action", "processing"}
  /\ owed    \in SUBSET Names
  /\ unrecovered \in SUBSET Names

\* A refetch that was put aside has somebody who will put it back: its feed
\* waits, or is being downloaded, or its worker has yet to release it.
NoStrandedRefetch ==
  \A n \in Pending : n \in Waiting \cup Active \/ tail[n] \in {"corrupt", "finished"}

\* A forced request (recheck, corrupt artifact, changed providers) is not
\* lost and not answered by a download that does not force processing,
\* whether it arrives while its feed waits, downloads or finishes.
ForceKept == \A n \in owed : waiting[n].force \/ pending[n].force

\* A staged artifact found at start is recovered, or that is tried, before
\* anything is fetched over it, however many requests for it arrive meanwhile.
RecoveredFirst ==
  \A n \in unrecovered : "recovered" \in {waiting[n].kind, active[n].kind}

\* The loop does not sleep through work it could start: when it sleeps and a
\* feed may start, the channel is full or somebody is about to fill it.
NoLostWakeUp ==
  loop = "sleep" /\ FreeWorker /\ (\E n \in Names : MayStart(n)) =>
    token \/ wakers # {} \/ \E n \in Names : tail[n] # "none"

\* No download of a derived feed begins while an input of it is queued or being
\* downloaded: the way out of a cycle is never taken, because the configuration
\* is rejected when DerivedFrom has one.
InputsFirst ==
  [][\A n \in Active' \ Active : Parents[n] \cap (Waiting \cup Active) = {}]_vars

\* Whatever waits is downloaded in the end, without the help of the timer, if
\* requests do not go on for ever.
NewRequest == \E n \in Names : \E force \in BOOLEAN : Due(n, force) \/ Action(n, force)

Served ==
  <>[][~NewRequest]_vars => \A n \in Names : n \in Waiting ~> n \in Active
=============================================================================
