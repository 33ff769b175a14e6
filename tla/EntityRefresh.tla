--------------------------- MODULE EntityRefresh ---------------------------
(***************************************************************************)
(* How the country and ASN artifacts of pkg/engine follow the feeds.       *)
(*                                                                         *)
(* A processing run computes a sidecar per feed from the databases it has  *)
(* open and publishes it as pending.  A refresh of the background queue    *)
(* promotes the pending sidecars of the feeds it is asked for to committed *)
(* ones; a full rebuild computes all committed sidecars from the published *)
(* outputs.  Runs, refreshes and rebuilds take turns in the engine lane,   *)
(* but a run publishes after it has left the lane.  All of them stage      *)
(* against a generation of the artifacts and publish only if it is still   *)
(* the current one.                                                        *)
(*                                                                         *)
(* A sidecar is the version of the feed it was computed from.  Every feed  *)
(* is entity-eligible: its versions all have a sidecar.                    *)
(***************************************************************************)
EXTENDS Naturals, Sequences, FiniteSets

CONSTANTS
  Feeds,
  Known,       (* feeds with outputs and a sidecar when the engine starts   *)
  MaxVersion,  (* bound: versions of a feed                                 *)
  MaxBatch,    (* bound: feeds of a batch                                   *)
  Slots        (* max_engine_lane_workers                                   *)

ASSUME EntityAssumption ==
  /\ Known \subseteq Feeds
  /\ MaxVersion \in Nat \ {0}
  /\ MaxBatch \in Nat \ {0}
  /\ Slots \in Nat \ {0}

None == 0
Versions == 1..MaxVersion

\* The coalescing keys of entityRefreshContinuationCoalescingKey, by parity.
Refresh == [p \in {0, 1} |-> IF p = 0 THEN "refresh0" ELSE "refresh1"]
Tasks   == {"refresh0", "refresh1", "rebuild"}

VARIABLES
  web,        (* the version whose outputs and cache entry are published    *)
  committed,  (* lib/entities/feeds                                         *)
  pending,    (* lib/entities/feeds-pending                                 *)
  lane,       (* the engine lane, in order of arrival                       *)
  wanted,     (* e.entityRefreshPending                                     *)
  running,    (* e.entityRefreshRunning                                     *)
  parity,     (* e.entityRefreshContinuation                                *)
  loop,       (* the processing loop: where its run is, the versions in its *)
              (* batch, the sidecars that changed                           *)
  task,       (* the refresh or rebuild that a lane item executes           *)
  stale,      (* stagings whose generation is no longer the current one     *)
  lost        (* history: feeds whose refresh was given up, an error in the *)
              (* log, or all of them if a rebuild was, until a publication  *)
              (* brings them up to date                                     *)

store == <<web, committed, pending>>
queue == <<wanted, running, parity>>
vars  == <<store, lane, queue, loop, task, stale, lost>>

noRun == [phase |-> "idle", batch |-> [f \in Feeds |-> None], targets |-> {},
          deferred |-> FALSE]

idleTask == [phase |-> "idle", names |-> {}, waves |-> 0, tries |-> 0,
             plan |-> [f \in Feeds |-> None], wrote |-> {}, drop |-> {}]

Init ==
  /\ web = [f \in Feeds |-> IF f \in Known THEN 1 ELSE None]
  /\ committed = web
  /\ pending = [f \in Feeds |-> None]
  /\ lane = <<>>
  /\ wanted = {}
  /\ running = FALSE
  /\ parity = 0
  /\ loop = noRun
  /\ task = [t \in Tasks |-> idleTask]
  /\ stale = {}
  /\ lost = {}

(***************************************************************************)
(* The engine lane: an item per coalescing key, the first Slots active.    *)
(***************************************************************************)
InLane(w) == \E j \in 1..Len(lane) : lane[j] = w

Active(w) == \E j \in 1..Len(lane) : j <= Slots /\ lane[j] = w

\* Faulty variant: nothing coalesces.
SubmittedAgain(w) == Append(lane, w)

Submitted(w) == IF InLane(w) THEN lane ELSE Append(lane, w)

Place(w) == CHOOSE j \in 1..Len(lane) : lane[j] = w

Without(w) == [j \in 1..(Len(lane) - 1) |-> lane[IF j < Place(w) THEN j ELSE j + 1]]

(***************************************************************************)
(* The generation: what x publishes makes all other stagings stale.        *)
(***************************************************************************)
Staged == {t \in Tasks : task[t].phase = "staged"} \cup
          (IF loop.phase \in {"staged", "promoting"} /\ ~loop.deferred THEN {"run"} ELSE {})

\* Faulty variant: the generation is not compared.
PublishesUnchecked(x) == stale' = Staged \ {x}

Publishes(x) == x \notin stale /\ stale' = Staged \ {x}

(***************************************************************************)
(* The refresh queue.                                                      *)
(***************************************************************************)
\* enqueueEntityArtifactRefresh, and Submit if no refresh is running.
Enqueue(names) ==
  /\ wanted' = wanted \cup names
  /\ running' = TRUE
  /\ parity' = IF running THEN parity ELSE 1 - parity
  /\ lane' = IF running THEN lane ELSE Submitted(Refresh[1 - parity])

(***************************************************************************)
(* The processing loop and its run.                                        *)
(***************************************************************************)
Batch == {f \in Feeds : loop.batch[f] # None}

\* A batch has new bodies, and committed bodies to process again.
TakeBatch(new, again) ==
  /\ loop.phase = "idle"
  /\ new \cap again = {} /\ Cardinality(new \cup again) \in 1..MaxBatch
  /\ \A f \in new : web[f] < MaxVersion
  /\ \A f \in again : web[f] # None
  /\ loop' = [phase |-> "asked",
              batch |-> [f \in Feeds |-> CASE f \in new   -> web[f] + 1
                                           [] f \in again -> web[f]
                                           [] OTHER       -> None],
              targets |-> {}, deferred |-> FALSE]
  /\ lane' = Append(lane, "run")
  /\ UNCHANGED <<store, queue, task, stale, lost>>

Changed == {f \in Batch : committed[f] # loop.batch[f]}

\* runHeavyPhases: nothing is staged while a full rebuild is queued or runs.
\* The run leaves the lane; its artifacts are staged but not published.
RunStages ==
  /\ loop.phase = "asked" /\ Active("run")
  /\ loop' = [loop EXCEPT !.phase    = "staged",
                          !.deferred = InLane("rebuild"),
                          !.targets  = IF InLane("rebuild") THEN Batch ELSE Changed]
  /\ lane' = Without("run")
  /\ UNCHANGED <<store, queue, task, stale, lost>>

RunPublishesWeb ==
  /\ loop.phase = "staged"
  /\ web' = [f \in Feeds |-> IF f \in Batch THEN loop.batch[f] ELSE web[f]]
  /\ loop' = [loop EXCEPT !.phase = IF loop.deferred THEN "published" ELSE "promoting"]
  /\ UNCHANGED <<committed, pending, lane, queue, task, stale, lost>>

RunPublishesEntities ==
  /\ loop.phase = "promoting"
  /\ Publishes("run")
  /\ pending' = [f \in Feeds |-> CASE f \in loop.targets         -> loop.batch[f]
                                   [] f \in Batch \ loop.targets -> None
                                   [] OTHER                      -> pending[f]]
  /\ loop' = [loop EXCEPT !.phase = "published"]
  /\ lost' = lost \ Batch
  /\ UNCHANGED <<web, committed, lane, queue, task>>

\* errEntityArtifactStageStale fails the run: its batch is processed again,
\* from the bodies it has committed.
RunFails ==
  /\ loop.phase = "promoting" /\ "run" \in stale
  /\ loop' = [loop EXCEPT !.phase = "asked"]
  /\ lane' = Append(lane, "run")
  /\ stale' = stale \ {"run"}
  /\ UNCHANGED <<store, queue, task, lost>>

\* The scheduler asks for the targets of the run or, if it reports none, for
\* the updated feeds.
QueueRefresh ==
  /\ loop.phase = "published"
  /\ Enqueue(IF loop.targets = {} THEN Batch ELSE loop.targets)
  /\ loop' = noRun
  /\ UNCHANGED <<store, task, stale, lost>>

(***************************************************************************)
(* Refreshes and rebuilds.                                                 *)
(***************************************************************************)
\* QueueEntityArtifactsRebuild; a rebuild that is queued or active answers for it.
QueueRebuild ==
  /\ lane' = Submitted("rebuild")
  /\ UNCHANGED <<store, queue, loop, task, stale, lost>>

IsRefresh(t) == t # "rebuild"

\* drainEntityArtifactRefreshPending
Drain(t) ==
  /\ IsRefresh(t) /\ Active(t) /\ task[t].phase = "idle"
  /\ task' = [task EXCEPT ![t].phase = IF wanted = {} THEN "done" ELSE "planning",
                          ![t].names = wanted,
                          ![t].tries = 0]
  /\ wanted' = {}
  /\ UNCHANGED <<store, lane, running, parity, loop, stale, lost>>

\* The full rebuild: every feed from its published outputs.
FullPlan == [plan |-> web, wrote |-> Feeds, drop |-> {f \in Feeds : pending[f] # None}]

\* buildFeedEntityDelta: a missing pending sidecar removes the committed one; a
\* missing committed sidecar is more than a delta can repair.
SurgicalPlan(names) ==
  IF \E f \in names : committed[f] = None
  THEN FullPlan
  ELSE [plan |-> pending, wrote |-> names, drop |-> names]

StageWith(t, p) ==
  /\ task' = [task EXCEPT ![t].phase = "staged",
                          ![t].plan = p.plan, ![t].wrote = p.wrote, ![t].drop = p.drop]
  /\ UNCHANGED <<store, lane, queue, loop, stale, lost>>

StageRefresh(t) ==
  /\ IsRefresh(t) /\ task[t].phase = "planning"
  /\ StageWith(t, SurgicalPlan(task[t].names))

StageRebuild ==
  /\ Active("rebuild") /\ task["rebuild"].phase \in {"idle", "planning"}
  /\ StageWith("rebuild", FullPlan)

\* The wave, or the rebuild, of t is over.
Over(t) == [idleTask EXCEPT !.phase = "done", !.waves = task[t].waves]

PublishTask(t) ==
  /\ task[t].phase = "staged"
  /\ Publishes(t)
  /\ committed' = [f \in Feeds |-> IF f \in task[t].wrote THEN task[t].plan[f] ELSE committed[f]]
  /\ pending' = [f \in Feeds |-> IF f \in task[t].drop THEN None ELSE pending[f]]
  /\ task' = [task EXCEPT ![t] = Over(t)]
  /\ lost' = lost \ {f \in task[t].wrote : task[t].plan[f] \in {None, web[f]}}
  /\ UNCHANGED <<web, lane, queue, loop>>

entityArtifactMutationMaxAttempts == 3

Unstaged(t) == [idleTask EXCEPT !.phase = "planning", !.names = task[t].names,
                                !.waves = task[t].waves, !.tries = task[t].tries + 1]

\* Faulty variant: a stale plan is given up.
DiscardNoRetry(t) ==
  /\ task[t].phase = "staged" /\ t \in stale
  /\ task' = [task EXCEPT ![t] = Over(t)]
  /\ stale' = stale \ {t}
  /\ UNCHANGED <<store, lane, queue, loop, lost>>

\* What giving up t loses: what it was asked for, a rebuild every feed.
Abandons(t) == IF IsRefresh(t) THEN task[t].names ELSE Feeds

\* runOptimisticEntityArtifactMutation: a stale plan is staged again, at most
\* entityArtifactMutationMaxAttempts times in all.
Discard(t) ==
  LET last == task[t].tries + 1 >= entityArtifactMutationMaxAttempts
  IN /\ task[t].phase = "staged" /\ t \in stale
     /\ task' = [task EXCEPT ![t] = IF last THEN Over(t) ELSE Unstaged(t)]
     /\ stale' = stale \ {t}
     /\ lost' = IF last THEN lost \cup Abandons(t) ELSE lost
     /\ UNCHANGED <<store, lane, queue, loop>>

entityRefreshMaxLaneWaves == 2

\* runQueuedEntityArtifactRefresh between two waves: the queue is empty, or
\* the lane is kept for one more wave.
EndWave(t) ==
  /\ IsRefresh(t) /\ task[t].phase = "done"
  /\ wanted = {} \/ task[t].waves + 1 < entityRefreshMaxLaneWaves
  /\ running' = (wanted # {})
  /\ task' = [task EXCEPT ![t].waves = @ + 1,
                          ![t].phase = IF wanted = {} THEN "leaving" ELSE "idle"]
  /\ UNCHANGED <<store, lane, wanted, parity, loop, stale, lost>>

\* After entityRefreshMaxLaneWaves waves, or entityRefreshMaxLaneHold, what was
\* asked meanwhile continues under the other key, behind what waits.
Continue(t) ==
  /\ IsRefresh(t) /\ task[t].phase = "done" /\ wanted # {}
  /\ running' = TRUE
  /\ parity' = 1 - parity
  /\ lane' = Submitted(Refresh[1 - parity])
  /\ task' = [task EXCEPT ![t].waves = @ + 1, ![t].phase = "leaving"]
  /\ UNCHANGED <<store, wanted, loop, stale, lost>>

\* The item of t leaves the lane, and with it its coalescing key.
Leave(t) ==
  /\ task[t].phase = IF IsRefresh(t) THEN "leaving" ELSE "done"
  /\ lane' = Without(t)
  /\ task' = [task EXCEPT ![t] = idleTask]
  /\ UNCHANGED <<store, queue, loop, stale, lost>>

Step(t) ==
  \/ Drain(t) \/ StageRefresh(t) \/ PublishTask(t) \/ Discard(t)
  \/ EndWave(t) \/ Continue(t) \/ Leave(t)

LoopStep ==
  \/ RunStages \/ RunPublishesWeb \/ RunPublishesEntities \/ RunFails \/ QueueRefresh

Next ==
  \/ \E new, again \in SUBSET Feeds : TakeBatch(new, again)
  \/ LoopStep
  \/ QueueRebuild
  \/ StageRebuild
  \/ \E t \in Tasks : Step(t)

Spec == Init /\ [][Next]_vars

(***************************************************************************)
(* Properties.                                                             *)
(***************************************************************************)
Task == [phase : {"idle", "planning", "staged", "done", "leaving"},
         names : SUBSET Feeds, waves : 0..entityRefreshMaxLaneWaves,
         tries : 0..entityArtifactMutationMaxAttempts,
         plan : [Feeds -> Versions \cup {None}], wrote : SUBSET Feeds, drop : SUBSET Feeds]

\* Types; and no item is twice in the lane, as its keys promise.
TypeOK ==
  /\ {web, committed, pending} \subseteq [Feeds -> Versions \cup {None}]
  /\ lane \in Seq(Tasks \cup {"run"})
  /\ \A i, j \in 1..Len(lane) : lane[i] = lane[j] => i = j
  /\ wanted \subseteq Feeds
  /\ running \in BOOLEAN
  /\ parity \in {0, 1}
  /\ loop \in [phase : {"idle", "asked", "staged", "promoting", "published"},
               batch : [Feeds -> Versions \cup {None}], targets : SUBSET Feeds,
               deferred : BOOLEAN]
  /\ task \in [Tasks -> Task]
  /\ stale \subseteq Tasks \cup {"run"}
  /\ lost \subseteq Feeds

Quiet == lane = <<>> /\ loop.phase = "idle" /\ wanted = {}

\* Once everything asked for is done, no pending sidecar is left behind and no
\* committed sidecar is of an older version than the published outputs.
NothingStale ==
  Quiet => \A f \in Feeds \ lost : pending[f] = None /\ committed[f] \in {None, web[f]}

\* No publication, however it was delayed, puts a sidecar of an older version
\* in the place of a newer one.
NeverOlder ==
  [][\A f \in Feeds : committed'[f] = None \/ committed'[f] >= committed[f]]_vars

\* Every feed with published outputs has a committed sidecar when nothing is
\* queued, running or about to be asked for.
SidecarExists ==
  Quiet => \A f \in Feeds : web[f] # None => committed[f] # None
=============================================================================
