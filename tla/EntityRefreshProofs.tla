------------------------ MODULE EntityRefreshProofs ------------------------
(***************************************************************************)
(* Proofs about EntityRefresh, for every set of feeds, every number of     *)
(* versions, every size of a batch and every number of lane slots.         *)
(***************************************************************************)
EXTENDS EntityRefresh, TLAPS

(***************************************************************************)
(* The engine lane.                                                        *)
(***************************************************************************)
Work == Tasks \cup {"run"}

\* No item is twice in the lane.
Once == \A i, j \in 1..Len(lane) : lane[i] = lane[j] => i = j

LaneOK == lane \in Seq(Work) /\ Once

\* What is appended to the lane is in it afterwards, with what was before.
LEMMA AppendKeeps ==
  ASSUME LaneOK, NEW w \in Work, ~InLane(w), lane' = Append(lane, w)
  PROVE  LaneOK' /\ \A x \in Work : InLane(x)' <=> x = w \/ InLane(x)
<1>1. /\ lane' \in Seq(Work) /\ Len(lane') = Len(lane) + 1 /\ Len(lane) \in Nat
      /\ \A j \in 1..Len(lane) : lane'[j] = lane[j]
      /\ lane'[Len(lane) + 1] = w
      BY DEF LaneOK
<1>2. \A x \in Work : InLane(x)' <=> x = w \/ InLane(x)
      BY <1>1 DEF InLane
<1>3. Once'
      BY <1>1 DEF Once, InLane, LaneOK
<1> QED BY <1>1, <1>2, <1>3 DEF LaneOK

\* What leaves the lane is gone, and everything else stays.
LEMMA WithoutKeeps ==
  ASSUME LaneOK, NEW w \in Work, InLane(w), lane' = Without(w)
  PROVE  LaneOK' /\ \A x \in Work : InLane(x)' <=> x # w /\ InLane(x)
<1> DEFINE p == Place(w)
           n == Len(lane)
<1>1. p \in 1..n /\ lane[p] = w /\ n \in Nat
      BY DEF Place, InLane, LaneOK
<1>2. \A j \in 1..n : lane[j] = w => j = p
      BY <1>1 DEF LaneOK, Once
<1>3. /\ lane' = [j \in 1..(n - 1) |-> lane[IF j < p THEN j ELSE j + 1]]
      BY DEF Without
<1> HIDE DEF p
<1>4. /\ lane' \in Seq(Work) /\ Len(lane') = n - 1
      BY <1>1, <1>3 DEF LaneOK
<1>5. \A j \in 1..(n - 1) : lane'[j] = IF j < p THEN lane[j] ELSE lane[j + 1]
      BY <1>1, <1>3
<1>6. Once'
  <2> SUFFICES ASSUME NEW i \in 1..(n - 1), NEW j \in 1..(n - 1), lane'[i] = lane'[j]
               PROVE  i = j
      BY <1>4 DEF Once
  <2> DEFINE at(k) == IF k < p THEN k ELSE k + 1
  <2>1. lane[at(i)] = lane[at(j)] /\ at(i) \in 1..n /\ at(j) \in 1..n
        BY <1>1, <1>5
  <2>2. at(i) = at(j)
        BY <2>1 DEF LaneOK, Once
  <2> QED BY <1>1, <2>2
<1>7. ASSUME NEW x \in Work PROVE InLane(x)' <=> x # w /\ InLane(x)
  <2>1. ASSUME InLane(x)' PROVE x # w /\ InLane(x)
    <3>1. PICK j \in 1..(n - 1) : lane'[j] = x
          BY <1>4, <2>1 DEF InLane
    <3>2. CASE j < p
          BY <1>1, <1>2, <1>5, <3>1, <3>2 DEF InLane
    <3>3. CASE ~(j < p)
          BY <1>1, <1>2, <1>5, <3>1, <3>3 DEF InLane
    <3> QED BY <3>2, <3>3
  <2>2. ASSUME x # w, InLane(x) PROVE InLane(x)'
    <3>1. PICK j \in 1..n : lane[j] = x
          BY <2>2 DEF InLane
    <3>2. j # p
          BY <1>1, <2>2, <3>1
    <3>3. CASE j < p
      <4>1. j \in 1..(n - 1) /\ lane'[j] = x
            BY <1>1, <1>5, <3>1, <3>3
      <4> QED BY <1>4, <4>1 DEF InLane
    <3>4. CASE j > p
      <4>1. j - 1 \in 1..(n - 1) /\ ~(j - 1 < p) /\ (j - 1) + 1 = j
            BY <1>1, <3>4
      <4>2. lane'[j - 1] = x
            BY <1>5, <3>1, <4>1
      <4> QED BY <1>4, <4>1, <4>2 DEF InLane
    <3> QED BY <1>1, <3>2, <3>3, <3>4
  <2> QED BY <2>1, <2>2
<1> QED BY <1>4, <1>6, <1>7 DEF LaneOK

\* What is submitted is in the lane, once.
LEMMA SubmittedKeeps ==
  ASSUME LaneOK, NEW w \in Work, lane' = Submitted(w)
  PROVE  LaneOK' /\ \A x \in Work : InLane(x)' <=> x = w \/ InLane(x)
<1>1. CASE InLane(w)
      BY <1>1 DEF Submitted, LaneOK, Once, InLane
<1>2. CASE ~InLane(w)
      BY <1>2, AppendKeeps DEF Submitted
<1> QED BY <1>1, <1>2

(***************************************************************************)
(* Type correctness, with what it rests on: the bounds on waves and        *)
(* attempts, and that whoever works holds a place in the lane.             *)
(***************************************************************************)
WorkerOK(t) ==
  /\ task[t].tries < entityArtifactMutationMaxAttempts
  /\ task[t].phase # "leaving" => task[t].waves < entityRefreshMaxLaneWaves
  /\ task[t].phase # "idle" => InLane(t)

Shape ==
  /\ TypeOK
  /\ \A t \in Tasks : WorkerOK(t)
  /\ InLane("run") => loop.phase = "asked"

Phases == {"idle", "planning", "staged", "done", "leaving"}

(***************************************************************************)
(* What the steps make of a worker.                                        *)
(***************************************************************************)
LEMMA IdleTask == /\ idleTask \in Task /\ idleTask.phase = "idle"
                  /\ idleTask.tries = 0 /\ idleTask.waves = 0
  BY DEF idleTask, Task, None, entityRefreshMaxLaneWaves, entityArtifactMutationMaxAttempts

Drained(x, names, phase) == [x EXCEPT !.phase = phase, !.names = names, !.tries = 0]

LEMMA DrainedTask ==
  ASSUME NEW x \in Task, NEW names \in SUBSET Feeds, NEW phase \in Phases
  PROVE  /\ Drained(x, names, phase) \in Task /\ Drained(x, names, phase).tries = 0
         /\ Drained(x, names, phase).waves = x.waves
         /\ Drained(x, names, phase).phase = phase
<1>1. 0 \in 0..entityArtifactMutationMaxAttempts
      BY DEF entityArtifactMutationMaxAttempts
<1> QED BY <1>1 DEF Drained, Task, Phases

LEMMA OverTask ==
  ASSUME NEW t \in Tasks, task[t] \in Task
  PROVE  /\ Over(t) \in Task /\ Over(t).phase = "done" /\ Over(t).tries = 0
         /\ Over(t).waves = task[t].waves
  BY IdleTask DEF Over, Task

LEMMA UnstagedTask ==
  ASSUME NEW t \in Tasks, task[t] \in Task,
         task[t].tries + 1 < entityArtifactMutationMaxAttempts
  PROVE  /\ Unstaged(t) \in Task /\ Unstaged(t).phase = "planning"
         /\ Unstaged(t).tries < entityArtifactMutationMaxAttempts
         /\ Unstaged(t).waves = task[t].waves
<1>1. task[t].tries + 1 \in 0..entityArtifactMutationMaxAttempts
      BY DEF entityArtifactMutationMaxAttempts, Task
<1> QED BY IdleTask, <1>1 DEF Unstaged, Task

Waved(x, phase) == [x EXCEPT !.waves = @ + 1, !.phase = phase]

LEMMA WavedTask ==
  ASSUME NEW x \in Task, NEW phase \in Phases, x.waves < entityRefreshMaxLaneWaves
  PROVE  /\ Waved(x, phase) \in Task /\ Waved(x, phase).tries = x.tries
         /\ Waved(x, phase).waves = x.waves + 1 /\ Waved(x, phase).phase = phase
<1>1. x.waves + 1 \in 0..entityRefreshMaxLaneWaves
      BY DEF entityRefreshMaxLaneWaves, Task
<1> QED BY <1>1 DEF Waved, Task, Phases

LEMMA InitShaped == Init => Shape
<1> SUFFICES ASSUME Init PROVE Shape
    OBVIOUS
<1>1. web \in [Feeds -> Versions \cup {None}]
      BY EntityAssumption DEF Init, EntityAssumption, Versions, None
<1>2. task \in [Tasks -> Task]
      BY DEF Init, idleTask, Task, None, entityRefreshMaxLaneWaves, entityArtifactMutationMaxAttempts
<1>3. lane \in Seq(Work) /\ Len(lane) = 0
      BY DEF Init
<1>4. \A w : ~InLane(w)
      BY <1>3 DEF InLane
<1>5. TypeOK
  <2>1. committed = web /\ pending \in [Feeds -> Versions \cup {None}]
        BY DEF Init
  <2>2. \A i, j \in 1..Len(lane) : lane[i] = lane[j] => i = j
        BY <1>3
  <2>3. loop \in [phase : {"idle", "asked", "staged", "promoting", "published"},
                 batch : [Feeds -> Versions \cup {None}], targets : SUBSET Feeds,
                 deferred : BOOLEAN]
        BY DEF Init, noRun
  <2> QED BY <1>1, <1>2, <1>3, <2>1, <2>2, <2>3 DEF Init, TypeOK, Work
<1>6. \A t \in Tasks : WorkerOK(t)
      BY DEF Init, WorkerOK, idleTask, entityRefreshMaxLaneWaves, entityArtifactMutationMaxAttempts
<1> QED BY <1>4, <1>5, <1>6 DEF Shape

\* The steps of the processing loop and its run.
LEMMA LoopShaped ==
  ASSUME Shape, LoopStep \/ \E new, again \in SUBSET Feeds : TakeBatch(new, again)
  PROVE  Shape'
<1>0. LaneOK
      BY DEF Shape, TypeOK, LaneOK, Once, Work
<1> USE DEF Shape, TypeOK, store, queue
<1>1. ASSUME NEW new \in SUBSET Feeds, NEW again \in SUBSET Feeds, TakeBatch(new, again)
      PROVE  Shape'
  <2>1. ~InLane("run") /\ lane' = Append(lane, "run")
        BY <1>1 DEF TakeBatch
  <2>2. LaneOK' /\ \A x \in Work : InLane(x) => InLane(x)'
        BY <1>0, <2>1, AppendKeeps DEF Work
  <2>3. \A f \in new : web[f] + 1 \in Versions
    <3>1. MaxVersion \in Nat /\ \A f \in new : web[f] \in 0..MaxVersion /\ web[f] < MaxVersion
          BY <1>1, EntityAssumption DEF TakeBatch, Versions, None, EntityAssumption
    <3> QED BY <3>1 DEF Versions
  <2>4. loop' \in [phase : {"asked"}, batch : [Feeds -> Versions \cup {None}],
                   targets : SUBSET Feeds, deferred : BOOLEAN]
        BY <1>1, <2>3 DEF TakeBatch
  <2>5. TypeOK'
        BY <1>1, <2>2, <2>4 DEF TakeBatch, LaneOK, Once, Work
  <2>6. \A t \in Tasks : WorkerOK(t)'
        BY <1>1, <2>2 DEF TakeBatch, WorkerOK, Work
  <2> QED BY <2>4, <2>5, <2>6
<1>2. CASE RunStages
  <2>1. InLane("run") /\ lane' = Without("run")
        BY <1>2 DEF RunStages, Active, InLane
  <2>2. LaneOK' /\ ~InLane("run")' /\ \A x \in Tasks : InLane(x) => InLane(x)'
        BY <1>0, <2>1, WithoutKeeps DEF Work, Tasks
  <2>3. loop' \in [phase : {"staged"}, batch : [Feeds -> Versions \cup {None}],
                   targets : SUBSET Feeds, deferred : BOOLEAN]
    <3>1. InLane("rebuild") \in BOOLEAN
          BY DEF InLane
    <3>2. Batch \subseteq Feeds /\ Changed \subseteq Feeds
          BY DEF Batch, Changed
    <3> QED BY <1>2, <3>1, <3>2 DEF RunStages
  <2>4. TypeOK'
        BY <1>2, <2>2, <2>3 DEF RunStages, LaneOK, Once, Work
  <2>5. \A t \in Tasks : WorkerOK(t)'
        BY <1>2, <2>2 DEF RunStages, WorkerOK
  <2> QED BY <2>2, <2>4, <2>5
<1>3. CASE RunPublishesWeb
  <2>1. UNCHANGED <<lane, task>> /\ ~InLane("run")
        BY <1>3 DEF RunPublishesWeb
  <2>2. web' \in [Feeds -> Versions \cup {None}]
        BY <1>3 DEF RunPublishesWeb
  <2>3. TypeOK'
        BY <1>3, <2>2 DEF RunPublishesWeb
  <2> QED BY <2>1, <2>3 DEF WorkerOK, InLane
<1>4. CASE RunPublishesEntities
  <2>1. UNCHANGED <<lane, task>> /\ ~InLane("run")
        BY <1>4 DEF RunPublishesEntities
  <2>2. pending' \in [Feeds -> Versions \cup {None}]
        BY <1>4 DEF RunPublishesEntities
  <2>3. stale' \subseteq Tasks \cup {"run"}
        BY <1>4 DEF RunPublishesEntities, Publishes, Staged
  <2>4. TypeOK'
        BY <1>4, <2>2, <2>3 DEF RunPublishesEntities
  <2> QED BY <2>1, <2>4 DEF WorkerOK, InLane
<1>5. CASE RunFails
  <2>1. ~InLane("run") /\ lane' = Append(lane, "run")
        BY <1>5 DEF RunFails
  <2>2. LaneOK' /\ \A x \in Work : InLane(x) => InLane(x)'
        BY <1>0, <2>1, AppendKeeps DEF Work
  <2>3. TypeOK'
        BY <1>5, <2>2 DEF RunFails, LaneOK, Once, Work
  <2>4. \A t \in Tasks : WorkerOK(t)'
        BY <1>5, <2>2 DEF RunFails, WorkerOK, Work
  <2>5. loop'.phase = "asked"
        BY <1>5 DEF RunFails
  <2> QED BY <2>3, <2>4, <2>5
<1>6. CASE QueueRefresh
  <2>1. Refresh[1 - parity] \in Tasks /\ 1 - parity \in {0, 1}
        BY DEF Refresh, Tasks
  <2>2. LaneOK' /\ \A x \in Tasks : InLane(x) => InLane(x)'
        BY <1>0, <1>6, <2>1, SubmittedKeeps DEF QueueRefresh, Enqueue, Work, LaneOK, Once, InLane
  <2>3. ~InLane("run")'
    <3>1. ~InLane("run") /\ Refresh[1 - parity] # "run"
          BY <1>6 DEF QueueRefresh, Refresh
    <3>2. CASE running
          BY <1>6, <3>1, <3>2 DEF QueueRefresh, Enqueue, InLane
    <3>3. CASE ~running
          BY <1>0, <1>6, <2>1, <3>1, <3>3, SubmittedKeeps DEF QueueRefresh, Enqueue, Work
    <3> QED BY <3>2, <3>3
  <2>4. TypeOK'
        BY <1>6, <2>1, <2>2 DEF QueueRefresh, Enqueue, Batch, noRun, LaneOK, Once, Work, None
  <2>5. \A t \in Tasks : WorkerOK(t)'
        BY <1>6, <2>2 DEF QueueRefresh, WorkerOK
  <2> QED BY <2>3, <2>4, <2>5
<1> QED BY <1>1, <1>2, <1>3, <1>4, <1>5, <1>6 DEF LoopStep

\* A step that changes the worker of t, and leaves the lane or submits to it.
LEMMA WorkerShaped ==
  ASSUME Shape, NEW t \in Tasks, NEW r \in Task,
         task' = [task EXCEPT ![t] = r],
         r.tries < entityArtifactMutationMaxAttempts,
         r.phase # "leaving" => r.waves < entityRefreshMaxLaneWaves,
         InLane(t), LaneOK', UNCHANGED loop,
         InLane("run")' => InLane("run"),
         \A x \in Tasks : InLane(x) => InLane(x)'
  PROVE  /\ task' \in [Tasks -> Task] /\ \A x \in Tasks : WorkerOK(x)'
         /\ InLane("run")' => loop'.phase = "asked"
<1>1. task \in [Tasks -> Task]
      BY DEF Shape, TypeOK
<1>2. ASSUME NEW x \in Tasks PROVE WorkerOK(x)'
      BY <1>1 DEF WorkerOK, Shape
<1> QED BY <1>1, <1>2 DEF Shape

\* Where no work is submitted and none leaves, the lane is as it was.
LEMMA SameLane ==
  ASSUME Shape, UNCHANGED lane
  PROVE  LaneOK' /\ \A x \in Work : InLane(x)' <=> InLane(x)
  BY DEF Shape, TypeOK, LaneOK, Once, InLane, Work

\* The steps of the refreshes and rebuilds.
LEMMA TaskShaped ==
  ASSUME Shape, NEW t \in Tasks, Step(t)
  PROVE  Shape'
<1>0. LaneOK /\ task \in [Tasks -> Task] /\ task[t] \in Task /\ WorkerOK(t)
      BY DEF Shape, TypeOK, LaneOK, Once, Work
<1>1. CASE Drain(t)
  <2> DEFINE r == [task[t] EXCEPT !.phase = IF wanted = {} THEN "done" ELSE "planning",
                                  !.names = wanted, !.tries = 0]
  <2>1. /\ task' = [task EXCEPT ![t] = r] /\ InLane(t)
        /\ UNCHANGED <<web, committed, pending, lane, running, parity, loop, stale, lost>>
        /\ wanted' = {} /\ task[t].phase = "idle"
        BY <1>0, <1>1 DEF Drain, Active, InLane, store
  <2>2. /\ r \in Task /\ r.tries = 0 /\ r.phase # "leaving" /\ r.waves = task[t].waves
    <3>1. wanted \in SUBSET Feeds /\ (IF wanted = {} THEN "done" ELSE "planning") \in Phases
          BY DEF Shape, TypeOK, Phases
    <3> DEFINE ph == IF wanted = {} THEN "done" ELSE "planning"
    <3>2. ph # "leaving" /\ ph \in Phases
          BY <3>1
    <3>3. r = Drained(task[t], wanted, ph)
          BY DEF Drained
    <3> HIDE DEF ph, r
    <3> QED BY <1>0, <3>1, <3>2, <3>3, DrainedTask
  <2> HIDE DEF r
  <2>3. /\ task' \in [Tasks -> Task] /\ \A x \in Tasks : WorkerOK(x)'
        /\ InLane("run")' => loop'.phase = "asked"
    <3>1. r.tries < entityArtifactMutationMaxAttempts
          BY <2>2 DEF entityArtifactMutationMaxAttempts
    <3>2. task[t].waves < entityRefreshMaxLaneWaves
          BY <1>0, <2>1 DEF WorkerOK
    <3>3. /\ LaneOK' /\ \A x \in Tasks : InLane(x) => InLane(x)'
          /\ InLane("run")' => InLane("run")
          BY <2>1, SameLane DEF Work
    <3> QED BY <2>1, <2>2, <3>1, <3>2, <3>3, WorkerShaped
  <2>4. TypeOK'
        BY <2>1, <2>3 DEF Shape, TypeOK
  <2> QED BY <2>3, <2>4 DEF Shape
<1>2. CASE StageRefresh(t)
  <2> DEFINE q == SurgicalPlan(task[t].names)
             r == [task[t] EXCEPT !.phase = "staged", !.plan = q.plan, !.wrote = q.wrote,
                                  !.drop = q.drop]
  <2>1. /\ task' = [task EXCEPT ![t] = r] /\ task[t].phase = "planning"
        /\ UNCHANGED <<web, committed, pending, lane, wanted, running, parity, loop, stale, lost>>
        BY <1>0, <1>2 DEF StageRefresh, StageWith, store, queue
  <2>2. q \in [plan : [Feeds -> Versions \cup {None}], wrote : SUBSET Feeds, drop : SUBSET Feeds]
        BY <1>0 DEF SurgicalPlan, FullPlan, Shape, TypeOK, Task
  <2> HIDE DEF q
  <2>3. /\ r \in Task /\ r.tries = task[t].tries /\ r.phase # "leaving" /\ r.waves = task[t].waves
        BY <1>0, <2>2 DEF Task, entityRefreshMaxLaneWaves, entityArtifactMutationMaxAttempts
  <2> HIDE DEF r
  <2>4. /\ task' \in [Tasks -> Task] /\ \A x \in Tasks : WorkerOK(x)'
        /\ InLane("run")' => loop'.phase = "asked"
        BY <1>0, <2>1, <2>3, WorkerShaped, SameLane DEF WorkerOK, Work
  <2>5. TypeOK'
        BY <2>1, <2>4 DEF Shape, TypeOK
  <2> QED BY <2>4, <2>5 DEF Shape
<1>3. CASE PublishTask(t)
  <2>1. /\ task' = [task EXCEPT ![t] = Over(t)] /\ task[t].phase = "staged"
        /\ UNCHANGED <<web, lane, wanted, running, parity, loop>>
        /\ stale' \subseteq Tasks \cup {"run"} /\ lost' \subseteq lost
        BY <1>3 DEF PublishTask, Publishes, Staged, queue
  <2>2. /\ Over(t) \in Task /\ Over(t).tries = 0 /\ Over(t).phase = "done"
        /\ Over(t).waves = task[t].waves
        BY <1>0, OverTask
  <2>3. /\ task' \in [Tasks -> Task] /\ \A x \in Tasks : WorkerOK(x)'
        /\ InLane("run")' => loop'.phase = "asked"
    <3>1. Over(t).tries < entityArtifactMutationMaxAttempts
          BY <2>2 DEF entityArtifactMutationMaxAttempts
    <3>2. task[t].waves < entityRefreshMaxLaneWaves /\ InLane(t)
          BY <1>0, <2>1 DEF WorkerOK
    <3>3. /\ LaneOK' /\ \A x \in Tasks : InLane(x) => InLane(x)'
          /\ InLane("run")' => InLane("run")
          BY <2>1, SameLane DEF Work
    <3> QED BY <2>1, <2>2, <3>1, <3>2, <3>3, WorkerShaped
  <2>4. /\ committed' \in [Feeds -> Versions \cup {None}]
        /\ pending' \in [Feeds -> Versions \cup {None}]
        BY <1>0, <1>3 DEF PublishTask, Shape, TypeOK, Task
  <2>5. TypeOK'
        BY <2>1, <2>3, <2>4 DEF Shape, TypeOK
  <2> QED BY <2>3, <2>5 DEF Shape
<1>4. CASE Discard(t)
  <2> DEFINE last == task[t].tries + 1 >= entityArtifactMutationMaxAttempts
             r == IF last THEN Over(t) ELSE Unstaged(t)
  <2>1. /\ task' = [task EXCEPT ![t] = r] /\ task[t].phase = "staged"
        /\ UNCHANGED <<web, committed, pending, lane, wanted, running, parity, loop>>
        /\ stale' \subseteq stale /\ lost' \subseteq Feeds
        BY <1>0, <1>4 DEF Discard, Abandons, store, queue, Shape, TypeOK, Task
  <2>2. /\ Over(t) \in Task /\ Over(t).tries = 0 /\ Over(t).phase = "done"
        /\ Over(t).waves = task[t].waves
        BY <1>0, OverTask
  <2>3. ~last => /\ Unstaged(t) \in Task /\ Unstaged(t).tries < entityArtifactMutationMaxAttempts
                 /\ Unstaged(t).phase = "planning" /\ Unstaged(t).waves = task[t].waves
        BY <1>0, UnstagedTask DEF entityArtifactMutationMaxAttempts, Task
  <2>4. /\ r \in Task /\ r.tries < entityArtifactMutationMaxAttempts /\ r.phase # "leaving"
        /\ r.waves = task[t].waves
        BY <2>2, <2>3 DEF entityArtifactMutationMaxAttempts
  <2> HIDE DEF r
  <2>5. /\ task' \in [Tasks -> Task] /\ \A x \in Tasks : WorkerOK(x)'
        /\ InLane("run")' => loop'.phase = "asked"
        BY <1>0, <2>1, <2>4, WorkerShaped, SameLane DEF WorkerOK, Work
  <2>6. TypeOK'
        BY <2>1, <2>5 DEF Shape, TypeOK
  <2> QED BY <2>5, <2>6 DEF Shape
<1>5. CASE EndWave(t)
  <2> DEFINE r == [task[t] EXCEPT !.waves = @ + 1,
                                  !.phase = IF wanted = {} THEN "leaving" ELSE "idle"]
  <2>1. /\ task' = [task EXCEPT ![t] = r] /\ task[t].phase = "done"
        /\ UNCHANGED <<web, committed, pending, lane, wanted, parity, loop, stale, lost>>
        /\ running' \in BOOLEAN
        /\ wanted = {} \/ task[t].waves + 1 < entityRefreshMaxLaneWaves
        BY <1>0, <1>5 DEF EndWave, store
  <2>2. /\ r \in Task /\ r.tries = task[t].tries
        /\ r.phase # "leaving" => r.waves < entityRefreshMaxLaneWaves
    <3> DEFINE ph == IF wanted = {} THEN "leaving" ELSE "idle"
    <3>1. ph \in Phases
          BY DEF Phases
    <3>2. task[t].waves < entityRefreshMaxLaneWaves
          BY <1>0, <2>1 DEF WorkerOK
    <3>3. /\ r \in Task /\ r.tries = task[t].tries /\ r.waves = task[t].waves + 1
          /\ r.phase = ph
      <4>1. r = Waved(task[t], ph)
            BY DEF Waved
      <4> HIDE DEF ph, r
      <4> QED BY <1>0, <3>1, <3>2, <4>1, WavedTask
    <3> QED BY <2>1, <3>3
  <2> HIDE DEF r
  <2>3. /\ task' \in [Tasks -> Task] /\ \A x \in Tasks : WorkerOK(x)'
        /\ InLane("run")' => loop'.phase = "asked"
        BY <1>0, <2>1, <2>2, WorkerShaped, SameLane DEF WorkerOK, Work
  <2>4. TypeOK'
        BY <2>1, <2>3 DEF Shape, TypeOK
  <2> QED BY <2>3, <2>4 DEF Shape
<1>6. CASE Continue(t)
  <2> DEFINE r == [task[t] EXCEPT !.waves = @ + 1, !.phase = "leaving"]
  <2>0. Refresh[1 - parity] \in Tasks /\ Refresh[1 - parity] # "run" /\ 1 - parity \in {0, 1}
        BY DEF Refresh, Tasks, Shape, TypeOK
  <2>1. /\ task' = [task EXCEPT ![t] = r] /\ task[t].phase = "done"
        /\ UNCHANGED <<web, committed, pending, wanted, loop, stale, lost>>
        /\ running' \in BOOLEAN /\ parity' \in {0, 1}
        /\ lane' = Submitted(Refresh[1 - parity])
        BY <1>0, <1>6, <2>0 DEF Continue, store
  <2>2. /\ r \in Task /\ r.tries = task[t].tries /\ r.phase = "leaving"
    <3>1. r = Waved(task[t], "leaving")
          BY DEF Waved
    <3>2. "leaving" \in Phases /\ task[t].waves < entityRefreshMaxLaneWaves
          BY <1>0, <2>1 DEF Phases, WorkerOK
    <3> HIDE DEF r
    <3> QED BY <1>0, <3>1, <3>2, WavedTask
  <2> HIDE DEF r
  <2>3. /\ LaneOK' /\ \A x \in Tasks : InLane(x) => InLane(x)'
        /\ InLane("run")' => InLane("run")
        BY <1>0, <2>0, <2>1, SubmittedKeeps DEF Work
  <2>4. /\ task' \in [Tasks -> Task] /\ \A x \in Tasks : WorkerOK(x)'
        /\ InLane("run")' => loop'.phase = "asked"
        BY <1>0, <2>1, <2>2, <2>3, WorkerShaped DEF WorkerOK
  <2>5. TypeOK'
        BY <2>1, <2>3, <2>4 DEF Shape, TypeOK, LaneOK, Once, Work
  <2> QED BY <2>4, <2>5 DEF Shape
<1>7. CASE Leave(t)
  <2>1. /\ task' = [task EXCEPT ![t] = idleTask] /\ task[t].phase \in {"leaving", "done"}
        /\ UNCHANGED <<web, committed, pending, wanted, running, parity, loop, stale, lost>>
        /\ lane' = Without(t)
        BY <1>7 DEF Leave, store, queue
  <2>2. InLane(t) /\ t \in Work /\ t # "run"
        BY <1>0, <2>1 DEF WorkerOK, Work, Tasks
  <2>3. LaneOK' /\ \A x \in Work : InLane(x)' <=> x # t /\ InLane(x)
        BY <1>0, <2>1, <2>2, WithoutKeeps
  <2>4. idleTask \in Task /\ idleTask.tries = 0 /\ idleTask.waves = 0 /\ idleTask.phase = "idle"
        BY DEF idleTask, Task, None, entityRefreshMaxLaneWaves, entityArtifactMutationMaxAttempts
  <2>5. task' \in [Tasks -> Task] /\ \A x \in Tasks : WorkerOK(x)'
        BY <1>0, <2>1, <2>3, <2>4
           DEF Shape, WorkerOK, Work, entityRefreshMaxLaneWaves, entityArtifactMutationMaxAttempts
  <2>6. TypeOK'
        BY <2>1, <2>3, <2>5 DEF Shape, TypeOK, LaneOK, Once, Work
  <2>7. InLane("run")' => loop'.phase = "asked"
        BY <2>1, <2>3 DEF Work, Shape
  <2> QED BY <2>5, <2>6, <2>7 DEF Shape
<1> QED BY <1>1, <1>2, <1>3, <1>4, <1>5, <1>6, <1>7 DEF Step

LEMMA RebuildShaped ==
  ASSUME Shape, QueueRebuild \/ StageRebuild
  PROVE  Shape'
<1>0. LaneOK /\ task \in [Tasks -> Task] /\ task["rebuild"] \in Task /\ WorkerOK("rebuild")
      BY DEF Shape, TypeOK, LaneOK, Once, Work, Tasks
<1>1. CASE QueueRebuild
  <2>1. /\ lane' = Submitted("rebuild")
        /\ UNCHANGED <<web, committed, pending, wanted, running, parity, loop, task, stale, lost>>
        BY <1>1 DEF QueueRebuild, store, queue
  <2>2. LaneOK' /\ \A x \in Work : InLane(x)' <=> x = "rebuild" \/ InLane(x)
        BY <1>0, <2>1, SubmittedKeeps DEF Work, Tasks
  <2>3. TypeOK'
        BY <2>1, <2>2 DEF Shape, TypeOK, LaneOK, Once, Work
  <2> QED BY <2>1, <2>2, <2>3 DEF Shape, WorkerOK, Work
<1>2. CASE StageRebuild
  <2> DEFINE r == [task["rebuild"] EXCEPT !.phase = "staged", !.plan = FullPlan.plan,
                                          !.wrote = FullPlan.wrote, !.drop = FullPlan.drop]
  <2>1. /\ task' = [task EXCEPT !["rebuild"] = r] /\ task["rebuild"].phase \in {"idle", "planning"}
        /\ UNCHANGED <<web, committed, pending, lane, wanted, running, parity, loop, stale, lost>>
        /\ InLane("rebuild") /\ "rebuild" \in Tasks
        BY <1>0, <1>2 DEF StageRebuild, StageWith, store, queue, Active, InLane, Tasks
  <2>2. FullPlan \in [plan : [Feeds -> Versions \cup {None}], wrote : SUBSET Feeds,
                      drop : SUBSET Feeds]
        BY DEF FullPlan, Shape, TypeOK
  <2>3. /\ r \in Task /\ r.tries = task["rebuild"].tries /\ r.phase # "leaving"
        /\ r.waves = task["rebuild"].waves
        BY <1>0, <2>2 DEF Task, entityRefreshMaxLaneWaves, entityArtifactMutationMaxAttempts
  <2> HIDE DEF r
  <2>4. /\ task' \in [Tasks -> Task] /\ \A x \in Tasks : WorkerOK(x)'
        /\ InLane("run")' => loop'.phase = "asked"
        BY <1>0, <2>1, <2>3, WorkerShaped, SameLane DEF WorkerOK, Work
  <2>5. TypeOK'
        BY <2>1, <2>4 DEF Shape, TypeOK
  <2> QED BY <2>4, <2>5 DEF Shape
<1> QED BY <1>1, <1>2

LEMMA NextShaped == Shape /\ [Next]_vars => Shape'
<1> SUFFICES ASSUME Shape, [Next]_vars PROVE Shape'
    OBVIOUS
<1>1. CASE UNCHANGED vars
      BY <1>1 DEF vars, store, queue, Shape, TypeOK, WorkerOK, InLane
<1> QED BY <1>1, LoopShaped, TaskShaped, RebuildShaped DEF Next

LEMMA AlwaysShaped == Spec => []Shape
  BY InitShaped, NextShaped, PTL DEF Spec

\* Sidecars, the lane, the queue and its workers always have their types, and
\* no item is ever twice in the lane.
THEOREM TypeCorrect == Spec => []TypeOK
<1>1. Shape => TypeOK
      BY DEF Shape
<1> QED BY AlwaysShaped, <1>1, PTL

(***************************************************************************)
(* The order of versions: on its way from the published outputs over the   *)
(* pending to the committed sidecars no version overtakes another.         *)
(***************************************************************************)
\* What x has staged may still be published.
Fresh(x) == task[x].phase = "staged" /\ x \notin stale

\* What the run of the loop stages is not older than the published outputs.
RunInOrder(f) ==
  f \in Batch => IF loop.phase \in {"asked", "staged"} THEN web[f] <= loop.batch[f]
                 ELSE loop.batch[f] = web[f]

SidecarsInOrder(f) ==
  /\ committed[f] <= web[f]
  /\ pending[f] <= web[f]
  /\ pending[f] # None => committed[f] <= pending[f]

PlanInOrder(x) ==
  /\ task[x].phase = "staged" => \A f \in Feeds : task[x].plan[f] <= web[f]
  /\ Fresh(x) =>
       \A f \in task[x].wrote : /\ task[x].plan[f] = None \/ committed[f] <= task[x].plan[f]
                                /\ pending[f] # None => f \in task[x].drop

Order ==
  /\ \A f \in Feeds : RunInOrder(f) /\ SidecarsInOrder(f)
  /\ \A x \in Tasks : PlanInOrder(x)

LEMMA VersionsAreNumbers == Versions \cup {None} \subseteq Nat
  BY EntityAssumption DEF EntityAssumption, Versions, None

LEMMA InitOrdered == Init => Order
<1> SUFFICES ASSUME Init PROVE Order
    OBVIOUS
<1>1. \A f \in Feeds : web[f] \in Nat /\ committed[f] = web[f] /\ pending[f] = None
      BY DEF Init, None
<1>2. Batch = {} /\ \A x \in Tasks : task[x].phase = "idle"
      BY DEF Init, noRun, idleTask, Batch, None
<1> QED BY <1>1, <1>2 DEF Order, RunInOrder, SidecarsInOrder, PlanInOrder, Fresh, None

\* What an ordinary step of a worker makes of it: nothing is staged any more.
Unstages(t, r) ==
  /\ task' = [task EXCEPT ![t] = r] /\ r.phase # "staged"
  /\ UNCHANGED <<web, committed, pending, loop>>
  /\ stale \ {t} \subseteq stale'

LEMMA UnstagingOrdered ==
  ASSUME Shape, Order, NEW t \in Tasks, NEW r, Unstages(t, r)
  PROVE  Order'
<1>1. \A x \in Tasks : Fresh(x)' => Fresh(x) /\ task'[x] = task[x]
      BY DEF Shape, TypeOK, Fresh, Unstages
<1>2. \A x \in Tasks : task'[x].phase = "staged" => task'[x] = task[x]
      BY DEF Shape, TypeOK, Unstages
<1>3. \A x \in Tasks : PlanInOrder(x)'
      BY <1>1, <1>2 DEF Order, PlanInOrder, Unstages
<1>4. \A f \in Feeds : RunInOrder(f)' /\ SidecarsInOrder(f)'
      BY DEF Order, RunInOrder, SidecarsInOrder, Batch, Unstages
<1> QED BY <1>3, <1>4 DEF Order

\* What a worker stages is one of the two plans.
Stages(t) ==
  \E p \in {FullPlan, [plan |-> pending, wrote |-> task[t].names, drop |-> task[t].names]} :
     StageWith(t, p)

LEMMA StagingOrdered ==
  ASSUME Shape, Order, NEW t \in Tasks, Stages(t)
  PROVE  Order'
<1>1. PICK p \in {FullPlan, [plan |-> pending, wrote |-> task[t].names, drop |-> task[t].names]} :
        StageWith(t, p)
      BY DEF Stages
<1>2. /\ task' = [task EXCEPT ![t] = [task[t] EXCEPT !.phase = "staged", !.plan = p.plan,
                                                    !.wrote = p.wrote, !.drop = p.drop]]
      /\ UNCHANGED <<web, committed, pending, loop, stale>>
      /\ task \in [Tasks -> Task] /\ task[t] \in Task
      BY <1>1 DEF StageWith, store, Shape, TypeOK
<1>3. /\ task'[t].plan = p.plan /\ task'[t].wrote = p.wrote /\ task'[t].drop = p.drop
      /\ \A x \in Tasks \ {t} : task'[x] = task[x]
      BY <1>2 DEF Task
<1>4. \A f \in Feeds : p.plan[f] = web[f] \/ p.plan[f] = pending[f]
      BY <1>1 DEF FullPlan
<1>5. /\ \A f \in Feeds : {web[f], committed[f], pending[f]} \subseteq Nat
      /\ p.wrote \subseteq Feeds
      BY <1>1, <1>2, VersionsAreNumbers DEF Shape, TypeOK, FullPlan, Task
<1>6. \A f \in p.wrote : pending[f] # None => f \in p.drop
      BY <1>1, <1>5 DEF FullPlan
<1>7. \A f \in Feeds : SidecarsInOrder(f)
      BY DEF Order
<1>8. PlanInOrder(t)'
  <2>1. \A f \in Feeds : p.plan[f] <= web[f]
        BY <1>4, <1>5, <1>7 DEF SidecarsInOrder
  <2>2. \A f \in p.wrote : p.plan[f] = None \/ committed[f] <= p.plan[f]
        BY <1>4, <1>5, <1>7 DEF SidecarsInOrder
  <2> QED BY <1>2, <1>3, <1>6, <2>1, <2>2 DEF PlanInOrder
<1>9. \A x \in Tasks \ {t} : PlanInOrder(x)'
      BY <1>2, <1>3 DEF Order, PlanInOrder, Fresh
<1>10. \A f \in Feeds : RunInOrder(f)' /\ SidecarsInOrder(f)'
      BY <1>2 DEF Order, RunInOrder, SidecarsInOrder, Batch
<1> QED BY <1>8, <1>9, <1>10 DEF Order

\* Who publishes makes every other staging stale.
LEMMA PublishingStales ==
  ASSUME Shape, NEW t \in Tasks \cup {"run"}, Publishes(t),
         \A x \in Tasks \ {t} : task'[x] = task[x],
         t \in Tasks => task'[t].phase # "staged"
  PROVE  \A x \in Tasks : ~Fresh(x)'
  BY DEF Publishes, Staged, Fresh

LEMMA TaskOrdered ==
  ASSUME Shape, Order, NEW t \in Tasks, Step(t)
  PROVE  Order'
<1>0. task \in [Tasks -> Task] /\ task[t] \in Task
      BY DEF Shape, TypeOK
<1>1. CASE Drain(t)
  <2>1. Unstages(t, [task[t] EXCEPT !.phase = IF wanted = {} THEN "done" ELSE "planning",
                                    !.names = wanted, !.tries = 0])
        BY <1>0, <1>1 DEF Drain, Unstages, store, Task
  <2> QED BY <2>1, UnstagingOrdered
<1>2. CASE StageRefresh(t)
      BY <1>2, StagingOrdered DEF StageRefresh, SurgicalPlan, Stages
<1>3. CASE PublishTask(t)
  <2>1. /\ task[t].phase = "staged" /\ Publishes(t)
        /\ committed' = [f \in Feeds |-> IF f \in task[t].wrote THEN task[t].plan[f]
                                         ELSE committed[f]]
        /\ pending' = [f \in Feeds |-> IF f \in task[t].drop THEN None ELSE pending[f]]
        /\ task' = [task EXCEPT ![t] = Over(t)] /\ UNCHANGED <<web, loop>>
        BY <1>3 DEF PublishTask
  <2>2. task'[t].phase = "done" /\ \A x \in Tasks \ {t} : task'[x] = task[x]
        BY <1>0, <2>1, OverTask
  <2>3. \A x \in Tasks : ~Fresh(x)'
        BY <2>1, <2>2, PublishingStales
  <2>4. \A x \in Tasks : PlanInOrder(x)'
        BY <2>1, <2>2, <2>3 DEF Order, PlanInOrder
  <2>5. Fresh(t) /\ PlanInOrder(t)
        BY <2>1 DEF Fresh, Publishes, Order
  <2>6. ASSUME NEW f \in Feeds PROVE SidecarsInOrder(f)'
    <3>1. {web[f], committed[f], pending[f], task[t].plan[f]} \subseteq Nat
          BY <1>0, VersionsAreNumbers DEF Shape, TypeOK, Task
    <3>2. SidecarsInOrder(f)
          BY DEF Order
    <3> QED BY <2>1, <2>5, <3>1, <3>2 DEF SidecarsInOrder, PlanInOrder, None
  <2>7. \A f \in Feeds : RunInOrder(f)'
        BY <2>1 DEF Order, RunInOrder, Batch
  <2> QED BY <2>4, <2>6, <2>7 DEF Order
<1>4. CASE Discard(t)
  <2>1. /\ Over(t).phase = "done" /\ Unstaged(t).phase = "planning"
        BY DEF Over, Unstaged, idleTask
  <2>2. PICK r \in {Over(t), Unstaged(t)} : Unstages(t, r)
        BY <1>4, <2>1 DEF Discard, Unstages, store
  <2> QED BY <2>2, UnstagingOrdered
<1>5. CASE EndWave(t)
  <2>1. Unstages(t, [task[t] EXCEPT !.waves = @ + 1,
                                    !.phase = IF wanted = {} THEN "leaving" ELSE "idle"])
        BY <1>0, <1>5 DEF EndWave, Unstages, store, Task
  <2> QED BY <2>1, UnstagingOrdered
<1>6. CASE Continue(t)
  <2>1. Unstages(t, [task[t] EXCEPT !.waves = @ + 1, !.phase = "leaving"])
        BY <1>0, <1>6 DEF Continue, Unstages, store, Task
  <2> QED BY <2>1, UnstagingOrdered
<1>7. CASE Leave(t)
  <2>1. Unstages(t, idleTask)
        BY <1>7 DEF Leave, Unstages, store, idleTask
  <2> QED BY <2>1, UnstagingOrdered
<1> QED BY <1>1, <1>2, <1>3, <1>4, <1>5, <1>6, <1>7 DEF Step

\* A step of the loop that changes no sidecar: the plans are as they were.
LEMMA PlansStay ==
  ASSUME Order, UNCHANGED <<web, committed, pending, task>>, stale \cap Tasks = stale' \cap Tasks
  PROVE  /\ \A f \in Feeds : SidecarsInOrder(f)'
         /\ \A x \in Tasks : PlanInOrder(x)'
<1>1. \A x \in Tasks : Fresh(x)' <=> Fresh(x)
      BY DEF Fresh
<1> QED BY <1>1 DEF Order, SidecarsInOrder, PlanInOrder

LEMMA LoopOrdered ==
  ASSUME Shape, Order, LoopStep \/ \E new, again \in SUBSET Feeds : TakeBatch(new, again)
  PROVE  Order'
<1>0. /\ \A f \in Feeds : {web[f], committed[f], pending[f], loop.batch[f]} \subseteq Nat
      /\ Batch = {f \in Feeds : loop.batch[f] # None}
      BY VersionsAreNumbers DEF Shape, TypeOK, Batch
<1>1. ASSUME NEW new \in SUBSET Feeds, NEW again \in SUBSET Feeds, TakeBatch(new, again)
      PROVE  Order'
  <2>1. /\ loop'.phase = "asked"
        /\ loop'.batch = [f \in Feeds |-> CASE f \in new   -> web[f] + 1
                                            [] f \in again -> web[f]
                                            [] OTHER       -> None]
        /\ UNCHANGED <<web, committed, pending, task, stale>>
        BY <1>1 DEF TakeBatch, store
  <2>2. \A f \in Feeds : RunInOrder(f)'
        BY <1>0, <2>1 DEF RunInOrder, Batch, None
  <2> QED BY <2>1, <2>2, PlansStay DEF Order
<1>2. CASE RunStages
  <2>1. /\ loop.phase = "asked" /\ loop'.phase = "staged" /\ loop'.batch = loop.batch
        /\ UNCHANGED <<web, committed, pending, task, stale>>
        BY <1>2 DEF RunStages, store, Shape, TypeOK
  <2>2. \A f \in Feeds : RunInOrder(f)'
        BY <2>1 DEF Order, RunInOrder, Batch
  <2> QED BY <2>1, <2>2, PlansStay DEF Order
<1>3. CASE RunPublishesWeb
  <2>1. /\ loop.phase = "staged" /\ loop'.phase \in {"published", "promoting"}
        /\ loop'.batch = loop.batch
        /\ web' = [f \in Feeds |-> IF f \in Batch THEN loop.batch[f] ELSE web[f]]
        /\ UNCHANGED <<committed, pending, task, stale>>
        BY <1>3 DEF RunPublishesWeb, Shape, TypeOK
  <2>2. \A f \in Feeds : web[f] <= web'[f] /\ web'[f] \in Nat
        BY <1>0, <2>1 DEF Order, RunInOrder
  <2>3. \A f \in Feeds : RunInOrder(f)'
        BY <2>1 DEF RunInOrder, Batch
  <2>4. ASSUME NEW f \in Feeds PROVE SidecarsInOrder(f)'
    <3>1. SidecarsInOrder(f)
          BY DEF Order
    <3> QED BY <1>0, <2>1, <2>2, <3>1 DEF SidecarsInOrder
  <2>5. ASSUME NEW x \in Tasks PROVE PlanInOrder(x)'
    <3>1. PlanInOrder(x) /\ (Fresh(x)' <=> Fresh(x)) /\ task'[x] = task[x]
          BY <2>1 DEF Order, Fresh
    <3>2. \A f \in Feeds : task[x].plan[f] \in Nat
          BY VersionsAreNumbers DEF Shape, TypeOK, Task
    <3>3. task'[x].phase = "staged" => \A f \in Feeds : task'[x].plan[f] <= web'[f]
          BY <1>0, <2>2, <3>1, <3>2 DEF PlanInOrder
    <3> QED BY <2>1, <3>1, <3>3 DEF PlanInOrder
  <2> QED BY <2>3, <2>4, <2>5 DEF Order
<1>4. CASE RunPublishesEntities
  <2>1. /\ loop.phase = "promoting" /\ Publishes("run")
        /\ loop'.phase = "published" /\ loop'.batch = loop.batch
        /\ pending' = [f \in Feeds |-> CASE f \in loop.targets         -> loop.batch[f]
                                         [] f \in Batch \ loop.targets -> None
                                         [] OTHER                      -> pending[f]]
        /\ UNCHANGED <<web, committed, task>>
        BY <1>4 DEF RunPublishesEntities, Shape, TypeOK
  <2>2. \A x \in Tasks : ~Fresh(x)'
    <3>1. "run" \notin Tasks
          BY DEF Tasks
    <3> QED BY <2>1, <3>1, PublishingStales
  <2>3. \A x \in Tasks : PlanInOrder(x)'
        BY <2>1, <2>2 DEF Order, PlanInOrder
  <2>4. ASSUME NEW f \in Feeds PROVE SidecarsInOrder(f)'
    <3>1. SidecarsInOrder(f) /\ RunInOrder(f)
          BY DEF Order
    <3>2. pending'[f] \in {None, pending[f]} \/ pending'[f] = loop.batch[f]
          BY <2>1
    <3>3. loop.batch[f] \in {None, web[f]}
          BY <1>0, <2>1, <3>1 DEF RunInOrder
    <3> QED BY <1>0, <2>1, <3>1, <3>2, <3>3 DEF SidecarsInOrder, None
  <2>5. \A f \in Feeds : RunInOrder(f)'
        BY <2>1 DEF Order, RunInOrder, Batch
  <2> QED BY <2>3, <2>4, <2>5 DEF Order
<1>5. CASE RunFails
  <2>1. /\ loop.phase = "promoting" /\ loop'.phase = "asked" /\ loop'.batch = loop.batch
        /\ UNCHANGED <<web, committed, pending, task>> /\ stale' = stale \ {"run"}
        BY <1>5 DEF RunFails, store, Shape, TypeOK
  <2>2. \A f \in Feeds : RunInOrder(f)'
        BY <1>0, <2>1 DEF Order, RunInOrder, Batch
  <2> QED BY <2>1, <2>2, PlansStay DEF Order, Tasks
<1>6. CASE QueueRefresh
  <2>1. loop' = noRun /\ UNCHANGED <<web, committed, pending, task, stale>>
        BY <1>6 DEF QueueRefresh, store
  <2>2. \A f \in Feeds : RunInOrder(f)'
        BY <2>1 DEF RunInOrder, Batch, noRun
  <2> QED BY <2>1, <2>2, PlansStay DEF Order
<1> QED BY <1>1, <1>2, <1>3, <1>4, <1>5, <1>6 DEF LoopStep

LEMMA NextOrdered == Shape /\ Order /\ [Next]_vars => Order'
<1> SUFFICES ASSUME Shape, Order, [Next]_vars PROVE Order'
    OBVIOUS
<1>1. CASE UNCHANGED vars
      BY <1>1 DEF vars, store, Order, RunInOrder, SidecarsInOrder, PlanInOrder, Fresh, Batch
<1>2. CASE QueueRebuild
      BY <1>2 DEF QueueRebuild, store, Order, RunInOrder, SidecarsInOrder, PlanInOrder, Fresh, Batch
<1>3. CASE StageRebuild
      BY <1>3, StagingOrdered DEF StageRebuild, Stages, Tasks
<1> QED BY <1>1, <1>2, <1>3, LoopOrdered, TaskOrdered DEF Next

LEMMA AlwaysOrdered == Spec => [](Shape /\ Order)
  BY InitShaped, InitOrdered, NextShaped, NextOrdered, PTL DEF Spec

\* Whatever is delayed, overtaken or staged again: no committed sidecar is ever
\* replaced by one of an older version.
THEOREM NeverBackwards == Spec => NeverOlder
<1> DEFINE Forward == \A f \in Feeds : committed'[f] = None \/ committed'[f] >= committed[f]
<1>1. Shape /\ Order /\ [Next]_vars => [Forward]_vars
  <2> SUFFICES ASSUME Shape, Order, Next PROVE Forward
      OBVIOUS
  <2>0. \A f \in Feeds : committed[f] \in Nat
        BY VersionsAreNumbers DEF Shape, TypeOK
  <2>1. ASSUME NEW t \in Tasks, PublishTask(t) PROVE Forward
    <3>1. Fresh(t) /\ PlanInOrder(t)
          BY <2>1 DEF PublishTask, Publishes, Fresh, Order
    <3>2. committed' = [f \in Feeds |-> IF f \in task[t].wrote THEN task[t].plan[f]
                                        ELSE committed[f]]
          BY <2>1 DEF PublishTask
    <3>3. \A f \in Feeds : task[t].plan[f] \in Nat
          BY VersionsAreNumbers DEF Shape, TypeOK, Task
    <3> QED BY <2>0, <3>1, <3>2, <3>3 DEF PlanInOrder
  <2>2. CASE UNCHANGED committed
        BY <2>0, <2>2
  <2>3. \/ UNCHANGED committed
        \/ \E t \in Tasks : PublishTask(t)
        BY DEF Next, TakeBatch, LoopStep, RunStages, RunPublishesWeb, RunPublishesEntities, RunFails,
               QueueRefresh, QueueRebuild, StageRebuild, StageWith, Step, Drain, StageRefresh,
               Discard, EndWave, Continue, Leave, store
  <2> QED BY <2>1, <2>2, <2>3
<1> QED BY AlwaysOrdered, <1>1, PTL DEF Spec, NeverOlder

(***************************************************************************)
(* Staging: who is stale has something staged, and what is staged covers   *)
(* what was asked for.                                                     *)
(***************************************************************************)
RunMarked ==
  /\ loop.deferred => loop.phase \in {"staged", "published"} /\ loop.targets = Batch
  /\ loop.phase = "idle" => Batch = {}
  /\ loop.targets \subseteq Batch

Covered(x) == Fresh(x) => /\ task[x].drop \subseteq task[x].wrote
                          /\ Abandons(x) \subseteq task[x].wrote

Marked ==
  /\ stale \subseteq Staged
  /\ RunMarked
  /\ \A x \in Tasks : Covered(x)
  /\ task["rebuild"].phase # "leaving"

LEMMA InitMarked == Init => Marked
  BY DEF Init, Marked, RunMarked, Covered, Fresh, Batch, noRun, idleTask, Tasks, None

\* A worker that unstages is not stale afterwards.
LEMMA UnstagingMarked ==
  ASSUME Shape, Marked, NEW t \in Tasks, NEW r, Unstages(t, r),
         stale' \subseteq stale, task[t].phase = "staged" => t \notin stale',
         t = "rebuild" => r.phase # "leaving"
  PROVE  Marked'
<1>1. /\ task'[t] = r /\ r.phase # "staged" /\ loop' = loop
      /\ \A x \in Tasks \ {t} : task'[x] = task[x] /\ (x \in stale' <=> x \in stale)
      BY DEF Unstages, Shape, TypeOK
<1>2. stale' \subseteq Staged'
      BY <1>1 DEF Marked, Staged
<1>3. \A x \in Tasks : Covered(x)'
      BY <1>1 DEF Marked, Covered, Fresh, Abandons
<1>4. RunMarked'
      BY <1>1 DEF Marked, RunMarked, Batch
<1>5. task'["rebuild"].phase # "leaving"
      BY <1>1 DEF Marked, Tasks
<1> QED BY <1>2, <1>3, <1>4, <1>5 DEF Marked

LEMMA StagingMarked ==
  ASSUME Shape, Marked, NEW t \in Tasks, Stages(t), IsRefresh(t) \/ StageWith(t, FullPlan)
  PROVE  Marked'
<1>1. PICK p \in {FullPlan, [plan |-> pending, wrote |-> task[t].names, drop |-> task[t].names]} :
        StageWith(t, p) /\ (IsRefresh(t) \/ p = FullPlan)
      BY DEF Stages
<1>2. /\ task' = [task EXCEPT ![t] = [task[t] EXCEPT !.phase = "staged", !.plan = p.plan,
                                                    !.wrote = p.wrote, !.drop = p.drop]]
      /\ UNCHANGED <<loop, stale>>
      /\ task \in [Tasks -> Task] /\ task[t] \in Task
      BY <1>1 DEF StageWith, Shape, TypeOK
<1>3. /\ task'[t].phase = "staged" /\ task'[t].wrote = p.wrote /\ task'[t].drop = p.drop
      /\ task'[t].names = task[t].names /\ task[t].names \subseteq Feeds
      /\ \A x \in Tasks \ {t} : task'[x] = task[x]
      BY <1>2 DEF Task
<1>4. stale' \subseteq Staged'
      BY <1>2, <1>3 DEF Marked, Staged
<1>5. Covered(t)'
      BY <1>1, <1>3 DEF Covered, Abandons, FullPlan
<1>6. \A x \in Tasks \ {t} : Covered(x)'
      BY <1>2, <1>3 DEF Marked, Covered, Fresh, Abandons
<1>7. RunMarked'
      BY <1>2 DEF Marked, RunMarked, Batch
<1>8. task'["rebuild"].phase # "leaving"
      BY <1>3 DEF Marked, Tasks
<1> QED BY <1>4, <1>5, <1>6, <1>7, <1>8 DEF Marked

LEMMA TaskMarked ==
  ASSUME Shape, Marked, NEW t \in Tasks, Step(t)
  PROVE  Marked'
<1>0. task \in [Tasks -> Task] /\ task[t] \in Task
      BY DEF Shape, TypeOK
<1>1. CASE Drain(t)
  <2> DEFINE r == [task[t] EXCEPT !.phase = IF wanted = {} THEN "done" ELSE "planning",
                                  !.names = wanted, !.tries = 0]
  <2>1. Unstages(t, r) /\ r.phase # "leaving" /\ stale' = stale /\ task[t].phase # "staged"
        BY <1>0, <1>1 DEF Drain, Unstages, store, Task
  <2> HIDE DEF r
  <2> QED BY <2>1, UnstagingMarked
<1>2. CASE StageRefresh(t)
      BY <1>2, StagingMarked DEF StageRefresh, SurgicalPlan, Stages
<1>3. CASE PublishTask(t)
  <2>1. /\ task[t].phase = "staged" /\ Publishes(t) /\ loop' = loop
        /\ task' = [task EXCEPT ![t] = Over(t)]
        BY <1>3 DEF PublishTask
  <2>2. task'[t].phase = "done" /\ \A x \in Tasks \ {t} : task'[x] = task[x]
        BY <1>0, <2>1, OverTask
  <2>3. \A x \in Tasks : ~Fresh(x)'
        BY <2>1, <2>2, PublishingStales
  <2>4. stale' \subseteq Staged'
        BY <2>1, <2>2 DEF Publishes, Staged
  <2>5. RunMarked'
        BY <2>1 DEF Marked, RunMarked, Batch
  <2>6. task'["rebuild"].phase # "leaving"
        BY <2>2 DEF Marked, Tasks
  <2> QED BY <2>3, <2>4, <2>5, <2>6 DEF Marked, Covered
<1>4. CASE Discard(t)
  <2>1. /\ Over(t).phase = "done" /\ Unstaged(t).phase = "planning"
        BY DEF Over, Unstaged, idleTask
  <2>2. PICK r \in {Over(t), Unstaged(t)} : Unstages(t, r)
        BY <1>4, <2>1 DEF Discard, Unstages, store
  <2>3. stale' = stale \ {t} /\ r.phase # "leaving"
        BY <1>4, <2>1 DEF Discard
  <2> QED BY <2>2, <2>3, UnstagingMarked
<1>5. CASE EndWave(t)
  <2> DEFINE r == [task[t] EXCEPT !.waves = @ + 1,
                                  !.phase = IF wanted = {} THEN "leaving" ELSE "idle"]
  <2>1. Unstages(t, r) /\ stale' = stale /\ task[t].phase # "staged" /\ t # "rebuild"
        BY <1>0, <1>5 DEF EndWave, Unstages, store, Task, IsRefresh
  <2> HIDE DEF r
  <2> QED BY <2>1, UnstagingMarked
<1>6. CASE Continue(t)
  <2> DEFINE r == [task[t] EXCEPT !.waves = @ + 1, !.phase = "leaving"]
  <2>1. Unstages(t, r) /\ stale' = stale /\ task[t].phase # "staged" /\ t # "rebuild"
        BY <1>0, <1>6 DEF Continue, Unstages, store, Task, IsRefresh
  <2> HIDE DEF r
  <2> QED BY <2>1, UnstagingMarked
<1>7. CASE Leave(t)
  <2>1. Unstages(t, idleTask) /\ stale' = stale /\ task[t].phase # "staged"
        BY <1>7 DEF Leave, Unstages, store, idleTask
  <2>2. idleTask.phase # "leaving"
        BY DEF idleTask
  <2> QED BY <2>1, <2>2, UnstagingMarked
<1> QED BY <1>1, <1>2, <1>3, <1>4, <1>5, <1>6, <1>7 DEF Step

\* A step of the loop that leaves all plans as they are.
LEMMA LoopMarks ==
  ASSUME Marked, UNCHANGED task, stale' \subseteq stale, stale \cap Tasks \subseteq stale',
         RunMarked', "run" \in stale' => "run" \in Staged'
  PROVE  Marked'
<1>1. stale' \subseteq Staged'
      BY DEF Marked, Staged, Tasks
<1>2. \A x \in Tasks : Covered(x)'
      BY DEF Marked, Covered, Fresh, Abandons
<1> QED BY <1>1, <1>2 DEF Marked

LEMMA LoopMarked ==
  ASSUME Shape, Marked, LoopStep \/ \E new, again \in SUBSET Feeds : TakeBatch(new, again)
  PROVE  Marked'
<1>0. /\ "run" \notin Tasks
      /\ "run" \in stale => loop.phase \in {"staged", "promoting"} /\ ~loop.deferred
      BY DEF Marked, Staged, Tasks
<1>1. ASSUME NEW new \in SUBSET Feeds, NEW again \in SUBSET Feeds, TakeBatch(new, again)
      PROVE  Marked'
  <2>1. /\ loop.phase = "idle" /\ loop'.phase = "asked" /\ loop'.targets = {} /\ ~loop'.deferred
        /\ UNCHANGED <<task, stale>>
        BY <1>1 DEF TakeBatch
  <2> QED BY <1>0, <2>1, LoopMarks DEF RunMarked
<1>2. CASE RunStages
  <2>1. /\ loop.phase = "asked" /\ loop'.phase = "staged" /\ loop'.batch = loop.batch
        /\ loop'.deferred = InLane("rebuild")
        /\ loop'.targets = IF InLane("rebuild") THEN Batch ELSE Changed
        /\ UNCHANGED <<task, stale>>
        BY <1>2 DEF RunStages, Shape, TypeOK
  <2>2. RunMarked'
        BY <2>1 DEF RunMarked, Batch, Changed
  <2> QED BY <1>0, <2>1, <2>2, LoopMarks
<1>3. CASE RunPublishesWeb
  <2>1. /\ loop.phase = "staged" /\ loop'.batch = loop.batch /\ loop'.targets = loop.targets
        /\ loop'.deferred = loop.deferred
        /\ loop'.phase = IF loop.deferred THEN "published" ELSE "promoting"
        /\ UNCHANGED <<task, stale>>
        BY <1>3 DEF RunPublishesWeb, Shape, TypeOK
  <2>2. RunMarked'
        BY <2>1 DEF Marked, RunMarked, Batch
  <2>3. "run" \in stale' => "run" \in Staged'
        BY <1>0, <2>1 DEF Staged
  <2> QED BY <2>1, <2>2, <2>3, LoopMarks
<1>4. CASE RunPublishesEntities
  <2>1. /\ loop.phase = "promoting" /\ loop'.batch = loop.batch /\ loop'.targets = loop.targets
        /\ loop'.deferred = loop.deferred /\ loop'.phase = "published"
        /\ Publishes("run") /\ UNCHANGED task
        BY <1>4 DEF RunPublishesEntities, Shape, TypeOK
  <2>2. RunMarked'
        BY <2>1 DEF Marked, RunMarked, Batch
  <2>3. \A x \in Tasks : ~Fresh(x)'
        BY <1>0, <2>1, PublishingStales
  <2>4. stale' \subseteq Staged'
        BY <2>1 DEF Publishes, Staged
  <2> QED BY <2>1, <2>2, <2>3, <2>4 DEF Marked, Covered
<1>5. CASE RunFails
  <2>1. /\ loop.phase = "promoting" /\ loop'.batch = loop.batch /\ loop'.targets = loop.targets
        /\ loop'.deferred = loop.deferred /\ loop'.phase = "asked"
        /\ UNCHANGED task /\ stale' = stale \ {"run"}
        BY <1>5 DEF RunFails, Shape, TypeOK
  <2>2. RunMarked'
        BY <2>1 DEF Marked, RunMarked, Batch
  <2> QED BY <1>0, <2>1, <2>2, LoopMarks
<1>6. CASE QueueRefresh
  <2>1. loop.phase = "published" /\ loop' = noRun /\ UNCHANGED <<task, stale>>
        BY <1>6 DEF QueueRefresh
  <2>2. RunMarked'
        BY <2>1 DEF RunMarked, Batch, noRun
  <2> QED BY <1>0, <2>1, <2>2, LoopMarks
<1> QED BY <1>1, <1>2, <1>3, <1>4, <1>5, <1>6 DEF LoopStep

LEMMA NextMarked == Shape /\ Marked /\ [Next]_vars => Marked'
<1> SUFFICES ASSUME Shape, Marked, [Next]_vars PROVE Marked'
    OBVIOUS
<1>1. ASSUME UNCHANGED <<loop, task, stale>> PROVE Marked'
      BY <1>1 DEF Marked, RunMarked, Covered, Fresh, Abandons, Staged, Batch
<1>2. UNCHANGED vars \/ QueueRebuild => UNCHANGED <<loop, task, stale>>
      BY DEF vars, QueueRebuild
<1>3. CASE StageRebuild
      BY <1>3, StagingMarked DEF StageRebuild, Stages, Tasks
<1> QED BY <1>1, <1>2, <1>3, LoopMarked, TaskMarked DEF Next

(***************************************************************************)
(* Attendance: whatever may be stale has somebody who will look at it      *)
(* again.                                                                  *)
(***************************************************************************)
\* What x has staged of f is what is published, or nothing.
UpToDate(x, f) == task[x].plan[f] \in {None, web[f]}

\* A sidecar that is stale, may become so, or has yet to be promoted.
Risk(f) ==
  \/ pending[f] # None
  \/ committed[f] \notin {None, web[f]}
  \/ \E x \in Tasks : Fresh(x) /\ f \in task[x].wrote /\ ~UpToDate(x, f)

Old(f) == pending[f] \notin {None, web[f]}

RunWorks(f) == f \in Batch /\ loop.phase \in {"asked", "staged", "promoting"}

\* The loop publishes sidecars of f, or asks for its refresh.
RunAttends(f) ==
  \/ RunWorks(f)
  \/ f \in Batch /\ loop.phase = "published" /\ (loop.targets = {} \/ f \in loop.targets)

RebuildDue  == InLane("rebuild") /\ task["rebuild"].phase \in {"idle", "planning", "staged"}
RebuildOver == InLane("rebuild") /\ task["rebuild"].phase = "done"

Responsible(x, f) ==
  IF IsRefresh(x) THEN task[x].phase \in {"planning", "staged"} /\ f \in task[x].names
  ELSE RebuildDue

\* Somebody is responsible who will not publish an old sidecar of f, or is not
\* the only one.
TaskAttends(f) ==
  \E x \in Tasks :
    /\ Responsible(x, f)
    /\ Fresh(x) => UpToDate(x, f) \/ \E y \in Tasks \ {x} : Responsible(y, f)

Attended(f) == f \in wanted \/ RunAttends(f) \/ TaskAttends(f)

Attendance == \A f \in Feeds \ lost : Risk(f) => Attended(f)

\* The run has staged against the current generation.
RunFresh == loop.phase \in {"staged", "promoting"} /\ ~loop.deferred /\ "run" \notin stale

\* Old pending sidecars are left to the run or to a rebuild, which a run does
\* not overtake.
Deferral ==
  /\ \A f \in Feeds \ lost : Old(f) => RunWorks(f) \/ RebuildDue
  /\ RebuildOver => \A f \in Feeds \ lost : pending[f] = None
  /\ RunFresh => ~RebuildOver /\ "rebuild" \notin stale
  /\ loop.phase = "staged" /\ loop.deferred =>
       \A f \in Batch \ lost : pending[f] = None \/ RebuildDue
  /\ RunFresh => \A f \in Batch \ loop.targets : committed[f] = loop.batch[f]

Served == Attendance /\ Deferral

LEMMA InitServed == Init => Served
<1> SUFFICES ASSUME Init PROVE Served
    OBVIOUS
<1>1. /\ \A f \in Feeds : pending[f] = None /\ committed[f] = web[f]
      /\ \A x \in Tasks : task[x].phase = "idle"
      /\ Batch = {} /\ loop.phase = "idle" /\ Len(lane) = 0
      BY DEF Init, noRun, idleTask, Batch, None
<1>2. ~InLane("rebuild")
      BY <1>1 DEF InLane
<1> QED BY <1>1, <1>2 DEF Served, Attendance, Deferral, Risk, Old, Fresh, RebuildOver, RunFresh

\* Where no sidecar changes and nothing new is staged, it is enough that nobody
\* stops attending to what is not lost.
Keeps ==
  /\ UNCHANGED <<web, committed, pending>> /\ lost \subseteq lost'
  /\ \A x \in Tasks : Fresh(x)' => Fresh(x) /\ task'[x] = task[x]
  /\ \A f \in Feeds \ lost' :
       /\ \A x \in Tasks : Responsible(x, f) => Responsible(x, f)'
       /\ f \in wanted \/ RunAttends(f) => Attended(f)'

LEMMA AttendanceKept ==
  ASSUME Attendance, Keeps
  PROVE  Attendance'
<1> SUFFICES ASSUME NEW f \in Feeds \ lost', Risk(f)' PROVE Attended(f)'
    BY DEF Attendance, Keeps
<1>1. Risk(f)
      BY DEF Keeps, Risk, UpToDate
<1>2. Attended(f)
      BY <1>1 DEF Attendance, Keeps
<1>3. CASE TaskAttends(f)
      BY <1>3 DEF Keeps, TaskAttends, UpToDate, Attended
<1> QED BY <1>2, <1>3 DEF Keeps, Attended

\* A refresh does not disturb what is left to runs and rebuilds.
Aside ==
  /\ UNCHANGED <<web, committed, pending, loop>> /\ lost \subseteq lost'
  /\ task'["rebuild"] = task["rebuild"] /\ InLane("rebuild")' = InLane("rebuild")
  /\ stale \cap {"run", "rebuild"} = stale' \cap {"run", "rebuild"}

LEMMA DeferralKept ==
  ASSUME Deferral, Aside
  PROVE  Deferral'
<1>1. /\ RebuildDue' = RebuildDue /\ RebuildOver' = RebuildOver /\ Batch' = Batch
      /\ RunFresh' = RunFresh
      BY DEF Aside, RebuildDue, RebuildOver, Batch, RunFresh
<1>2. \A f \in Feeds : Old(f)' = Old(f) /\ RunWorks(f)' = RunWorks(f)
      BY <1>1 DEF Aside, Old, RunWorks
<1> QED BY <1>1, <1>2 DEF Deferral, Aside

LEMMA LoopServed ==
  ASSUME Shape, Order, Marked, Served,
         LoopStep \/ \E new, again \in SUBSET Feeds : TakeBatch(new, again)
  PROVE  Served'
<1>0. /\ LaneOK /\ "run" \notin Tasks /\ "rebuild" \in Tasks
      /\ task["rebuild"].phase \in Phases \ {"leaving"}
      /\ Attendance /\ Deferral /\ RunMarked
      BY DEF Shape, TypeOK, LaneOK, Once, Work, Tasks, Marked, Task, Phases, Served
<1>1. ASSUME NEW new \in SUBSET Feeds, NEW again \in SUBSET Feeds, TakeBatch(new, again)
      PROVE  Served'
  <2>1. /\ loop.phase = "idle" /\ Batch = {} /\ loop'.phase = "asked"
        /\ UNCHANGED <<web, committed, pending, wanted, task, stale, lost>>
        /\ lane' = Append(lane, "run") /\ ~InLane("run")
        BY <1>0, <1>1 DEF TakeBatch, store, queue, RunMarked, Shape
  <2>2. InLane("rebuild")' <=> InLane("rebuild")
        BY <1>0, <2>1, AppendKeeps DEF Work, Tasks
  <2>3. RebuildDue' = RebuildDue /\ RebuildOver' = RebuildOver
        BY <2>1, <2>2 DEF RebuildDue, RebuildOver
  <2>4. Keeps
        BY <2>1, <2>3 DEF Keeps, Fresh, Responsible, RunAttends, RunWorks, Attended
  <2>5. Deferral'
        BY <1>0, <2>1, <2>3 DEF Deferral, Old, RunWorks, RunFresh
  <2> QED BY <1>0, <2>4, <2>5, AttendanceKept DEF Served
<1>2. CASE RunStages
  <2>1. /\ loop.phase = "asked" /\ loop'.phase = "staged" /\ loop'.batch = loop.batch
        /\ loop'.deferred = InLane("rebuild")
        /\ loop'.targets = IF InLane("rebuild") THEN Batch ELSE Changed
        /\ UNCHANGED <<web, committed, pending, wanted, task, stale, lost>>
        /\ lane' = Without("run") /\ InLane("run") /\ Batch' = Batch
        BY <1>2 DEF RunStages, store, queue, Active, InLane, Shape, TypeOK, Batch
  <2>2. InLane("rebuild")' <=> InLane("rebuild")
        BY <1>0, <2>1, WithoutKeeps DEF Work, Tasks
  <2>3. RebuildDue' = RebuildDue /\ RebuildOver' = RebuildOver
        BY <2>1, <2>2 DEF RebuildDue, RebuildOver
  <2>4. Keeps
        BY <2>1, <2>3 DEF Keeps, Fresh, Responsible, RunAttends, RunWorks, Attended
  <2>5. \A f \in Feeds \ lost' : Old(f)' => RunWorks(f)' \/ RebuildDue'
        BY <1>0, <2>1, <2>3 DEF Deferral, Old, RunWorks
  <2>6. RebuildOver' => \A f \in Feeds \ lost' : pending'[f] = None
        BY <1>0, <2>1, <2>3 DEF Deferral
  <2>7. RunFresh' => ~InLane("rebuild") /\ ~RebuildOver' /\ "rebuild" \notin stale'
    <3>1. "rebuild" \in stale => InLane("rebuild")
          BY <1>0 DEF Marked, Staged, Shape, WorkerOK
    <3> QED BY <2>1, <2>2, <3>1 DEF RunFresh, RebuildOver
  <2>8. loop'.deferred => \A f \in Batch' \ lost' : pending'[f] = None \/ RebuildDue'
    <3>1. InLane("rebuild") => RebuildDue \/ RebuildOver
          BY <1>0 DEF RebuildDue, RebuildOver, Phases
    <3>2. Batch \subseteq Feeds
          BY DEF Batch
    <3> QED BY <1>0, <2>1, <2>3, <3>1, <3>2 DEF Deferral
  <2>9. RunFresh' => \A f \in Batch' \ loop'.targets : committed'[f] = loop'.batch[f]
        BY <2>1, <2>7 DEF Changed
  <2>10. Deferral'
        BY <2>5, <2>6, <2>7, <2>8, <2>9 DEF Deferral
  <2> QED BY <1>0, <2>4, <2>10, AttendanceKept DEF Served
<1>3. CASE RunPublishesWeb
  <2>1. /\ loop.phase = "staged" /\ loop'.batch = loop.batch /\ loop'.targets = loop.targets
        /\ loop'.deferred = loop.deferred
        /\ loop'.phase = IF loop.deferred THEN "published" ELSE "promoting"
        /\ web' = [f \in Feeds |-> IF f \in Batch THEN loop.batch[f] ELSE web[f]]
        /\ UNCHANGED <<committed, pending, wanted, lane, task, stale, lost>> /\ Batch' = Batch
        BY <1>3 DEF RunPublishesWeb, queue, Shape, TypeOK, Batch
  <2>2. /\ RebuildDue' = RebuildDue /\ RebuildOver' = RebuildOver
        /\ \A x \in Tasks : Fresh(x)' = Fresh(x)
        /\ \A x \in Tasks, f \in Feeds : Responsible(x, f)' = Responsible(x, f)
        BY <2>1 DEF RebuildDue, RebuildOver, InLane, Fresh, Responsible
  <2>3. ASSUME NEW f \in Feeds \ lost', Risk(f)' PROVE Attended(f)'
    <3>1. CASE f \in Batch
      <4>1. RunAttends(f)'
            BY <1>0, <2>1, <3>1 DEF RunMarked, RunAttends, RunWorks
      <4> QED BY <4>1 DEF Attended
    <3>2. CASE f \notin Batch
      <4>1. web'[f] = web[f]
            BY <2>1, <3>2
      <4>2. Risk(f)
            BY <2>1, <2>2, <2>3, <4>1 DEF Risk, UpToDate
      <4>3. f \in wanted \/ TaskAttends(f)
            BY <1>0, <2>1, <3>2, <4>2 DEF Attendance, Attended, RunAttends, RunWorks
      <4> QED BY <2>1, <2>2, <4>1, <4>3 DEF Attended, TaskAttends, UpToDate
    <3> QED BY <3>1, <3>2
  <2>4. ASSUME NEW f \in Feeds \ lost', Old(f)' PROVE RunWorks(f)' \/ RebuildDue'
    <3>1. CASE f \in Batch
          BY <1>0, <2>1, <2>2, <2>4, <3>1 DEF Deferral, RunWorks, Old
    <3>2. CASE f \notin Batch
          BY <1>0, <2>1, <2>2, <2>4, <3>2 DEF Deferral, RunWorks, Old
    <3> QED BY <3>1, <3>2
  <2>5. RunFresh' => RunFresh
        BY <2>1 DEF RunFresh
  <2>6. Deferral'
        BY <1>0, <2>1, <2>2, <2>4, <2>5 DEF Deferral
  <2> QED BY <2>3, <2>6 DEF Served, Attendance
<1>4. CASE RunPublishesEntities
  <2>1. /\ loop.phase = "promoting" /\ loop'.batch = loop.batch /\ loop'.targets = loop.targets
        /\ loop'.deferred = loop.deferred /\ loop'.phase = "published"
        /\ pending' = [f \in Feeds |-> CASE f \in loop.targets         -> loop.batch[f]
                                         [] f \in Batch \ loop.targets -> None
                                         [] OTHER                      -> pending[f]]
        /\ lost' = lost \ Batch
        /\ Publishes("run") /\ UNCHANGED <<web, committed, wanted, lane, task>> /\ Batch' = Batch
        BY <1>4 DEF RunPublishesEntities, queue, Shape, TypeOK, Batch
  <2>2. /\ RebuildDue' = RebuildDue /\ RebuildOver' = RebuildOver
        /\ \A x \in Tasks, f \in Feeds : Responsible(x, f)' = Responsible(x, f)
        BY <2>1 DEF RebuildDue, RebuildOver, InLane, Responsible
  <2>3. \A x \in Tasks : ~Fresh(x)'
        BY <1>0, <2>1, PublishingStales
  <2>4. RunFresh /\ \A f \in Batch : loop.batch[f] = web[f]
    <3>1. RunFresh
          BY <1>0, <2>1 DEF RunFresh, Publishes, RunMarked
    <3> QED BY <2>1, <3>1 DEF Order, RunInOrder, Batch
  <2>5. ASSUME NEW f \in Feeds \ lost', Risk(f)' PROVE Attended(f)'
    <3>1. CASE f \in Batch /\ (f \in loop.targets \/ loop.targets = {})
          BY <2>1, <3>1 DEF Attended, RunAttends
    <3>2. CASE f \in Batch /\ f \notin loop.targets
      <4>1. committed[f] = web[f]
            BY <1>0, <2>4, <3>2 DEF Deferral
      <4> QED BY <2>1, <2>3, <2>5, <3>2, <4>1 DEF Risk
    <3>3. CASE f \notin Batch
      <4>1. f \notin lost /\ pending'[f] = pending[f]
            BY <1>0, <2>1, <3>3 DEF RunMarked
      <4>2. Risk(f)
            BY <2>1, <2>3, <2>5, <4>1 DEF Risk
      <4>3. f \in wanted \/ TaskAttends(f)
            BY <1>0, <3>3, <4>1, <4>2 DEF Attendance, Attended, RunAttends, RunWorks
      <4> QED BY <2>1, <2>2, <2>3, <4>3 DEF Attended, TaskAttends
    <3> QED BY <3>1, <3>2, <3>3
  <2>6. ASSUME NEW f \in Feeds \ lost', Old(f)' PROVE RebuildDue'
    <3>1. CASE f \in Batch
          BY <2>1, <2>4, <2>6, <3>1 DEF Old
    <3>2. CASE f \notin Batch
          BY <1>0, <2>1, <2>2, <2>6, <3>2 DEF Old, Deferral, RunWorks, RunMarked
    <3> QED BY <3>1, <3>2
  <2>7. ~RebuildOver' /\ ~RunFresh'
        BY <1>0, <2>1, <2>2, <2>4 DEF Deferral, RunFresh
  <2>8. Deferral'
        BY <2>1, <2>6, <2>7 DEF Deferral
  <2> QED BY <2>5, <2>8 DEF Served, Attendance
<1>5. CASE RunFails
  <2>1. /\ loop.phase = "promoting" /\ loop'.phase = "asked" /\ loop'.batch = loop.batch
        /\ UNCHANGED <<web, committed, pending, wanted, task, lost>> /\ stale' = stale \ {"run"}
        /\ lane' = Append(lane, "run") /\ ~InLane("run") /\ Batch' = Batch
        BY <1>5 DEF RunFails, store, queue, Shape, TypeOK, Batch
  <2>2. InLane("rebuild")' <=> InLane("rebuild")
        BY <1>0, <2>1, AppendKeeps DEF Work, Tasks
  <2>3. /\ RebuildDue' = RebuildDue /\ RebuildOver' = RebuildOver
        /\ \A x \in Tasks : Fresh(x)' = Fresh(x)
        BY <1>0, <2>1, <2>2 DEF RebuildDue, RebuildOver, Fresh
  <2>4. Keeps
        BY <2>1, <2>3 DEF Keeps, Responsible, RunAttends, RunWorks, Attended
  <2>5. Deferral'
        BY <1>0, <2>1, <2>3 DEF Deferral, Old, RunWorks, RunFresh
  <2> QED BY <1>0, <2>4, <2>5, AttendanceKept DEF Served
<1>6. CASE QueueRefresh
  <2>1. /\ loop.phase = "published" /\ loop'.phase = "idle"
        /\ wanted' = wanted \cup (IF loop.targets = {} THEN Batch ELSE loop.targets)
        /\ UNCHANGED <<web, committed, pending, task, stale, lost>>
        /\ lane' = lane \/ lane' = Submitted(Refresh[1 - parity])
        BY <1>6 DEF QueueRefresh, Enqueue, store, noRun
  <2>2. InLane("rebuild")' <=> InLane("rebuild")
    <3>1. CASE lane' = lane
          BY <3>1 DEF InLane
    <3>2. CASE lane' = Submitted(Refresh[1 - parity])
      <4>1. Refresh[1 - parity] \in Tasks \ {"rebuild"}
            BY DEF Refresh, Tasks, Shape, TypeOK
      <4> QED BY <1>0, <3>2, <4>1, SubmittedKeeps DEF Work
    <3> QED BY <2>1, <3>1, <3>2
  <2>3. /\ RebuildDue' = RebuildDue /\ RebuildOver' = RebuildOver
        /\ \A x \in Tasks : Fresh(x)' = Fresh(x)
        BY <2>1, <2>2 DEF RebuildDue, RebuildOver, Fresh
  <2>4. Keeps
        BY <2>1, <2>3 DEF Keeps, Responsible, RunAttends, RunWorks, Attended
  <2>5. Deferral'
        BY <1>0, <2>1, <2>3 DEF Deferral, Old, RunWorks, RunFresh
  <2> QED BY <1>0, <2>4, <2>5, AttendanceKept DEF Served
<1> QED BY <1>1, <1>2, <1>3, <1>4, <1>5, <1>6 DEF LoopStep

\* A step of a refresh that stages nothing.
LEMMA RefreshServed ==
  ASSUME Shape, Served, NEW t \in Tasks, IsRefresh(t), NEW r, Unstages(t, r),
         lost \subseteq lost', stale' \subseteq stale, stale \subseteq stale' \cup {t},
         InLane("rebuild")' <=> InLane("rebuild"),
         \A f \in Feeds \ lost' :
           /\ Responsible(t, f) => r.phase = "planning" /\ f \in r.names
           /\ f \in wanted => f \in wanted' \/ (r.phase = "planning" /\ f \in r.names)
  PROVE  Served'
<1>1. /\ task'[t] = r /\ r.phase # "staged" /\ t # "rebuild" /\ t # "run"
      /\ \A x \in Tasks \ {t} : task'[x] = task[x] /\ (x \in stale' <=> x \in stale)
      /\ UNCHANGED <<web, committed, pending, loop>> /\ Batch' = Batch
      /\ "rebuild" \in Tasks /\ InLane("rebuild")' = InLane("rebuild")
      BY DEF Unstages, Shape, TypeOK, Batch, IsRefresh, Tasks, InLane
<1>2. \A x \in Tasks : Fresh(x)' => Fresh(x) /\ task'[x] = task[x]
      BY <1>1 DEF Fresh
<1>3. RebuildDue' = RebuildDue
      BY <1>1 DEF RebuildDue
<1>4. ASSUME NEW f \in Feeds \ lost' PROVE \A x \in Tasks : Responsible(x, f) => Responsible(x, f)'
      BY <1>1, <1>3 DEF Responsible, IsRefresh
<1>5. ASSUME NEW f \in Feeds \ lost', f \in wanted \/ RunAttends(f) PROVE Attended(f)'
  <2>1. CASE RunAttends(f)
        BY <1>1, <2>1 DEF Attended, RunAttends, RunWorks
  <2>2. CASE f \in wanted'
        BY <2>2 DEF Attended
  <2>3. CASE r.phase = "planning" /\ f \in r.names
    <3>1. Responsible(t, f)' /\ ~Fresh(t)'
          BY <1>1, <2>3 DEF Responsible, Fresh
    <3> QED BY <3>1 DEF Attended, TaskAttends
  <2> QED BY <1>5, <2>1, <2>2, <2>3
<1>6. Keeps
      BY <1>1, <1>2, <1>4, <1>5 DEF Keeps
<1>7. Aside
      BY <1>1 DEF Aside
<1> QED BY <1>6, <1>7, AttendanceKept, DeferralKept DEF Served

\* What a refresh or a rebuild stages.
LEMMA StagingServed ==
  ASSUME Shape, Marked, Served, NEW t \in Tasks, Stages(t),
         \/ IsRefresh(t) /\ task[t].phase = "planning"
         \/ t = "rebuild" /\ RebuildDue /\ StageWith(t, FullPlan)
  PROVE  Served'
<1>1. PICK p \in {FullPlan, [plan |-> pending, wrote |-> task[t].names, drop |-> task[t].names]} :
        StageWith(t, p) /\ (IsRefresh(t) \/ p = FullPlan)
      BY DEF Stages, IsRefresh
<1>2. /\ task' = [task EXCEPT ![t] = [task[t] EXCEPT !.phase = "staged", !.plan = p.plan,
                                                    !.wrote = p.wrote, !.drop = p.drop]]
      /\ UNCHANGED <<web, committed, pending, lane, wanted, loop, stale, lost>>
      /\ task \in [Tasks -> Task] /\ task[t] \in Task
      BY <1>1 DEF StageWith, store, queue, Shape, TypeOK
<1>3. /\ task'[t].phase = "staged" /\ task'[t].plan = p.plan /\ task'[t].names = task[t].names
      /\ \A x \in Tasks \ {t} : task'[x] = task[x]
      BY <1>2 DEF Task
<1>4. \A f \in Feeds : UpToDate(t, f)' \/ (IsRefresh(t) /\ Old(f))
  <2>1. p.plan = web \/ (IsRefresh(t) /\ p.plan = pending)
        BY <1>1 DEF FullPlan
  <2> QED BY <1>2, <1>3, <2>1 DEF UpToDate, Old
<1>5. /\ RebuildDue' = RebuildDue /\ RebuildOver' = RebuildOver
      /\ Batch' = Batch /\ RunFresh' = RunFresh
      /\ \A f \in Feeds : Old(f)' = Old(f) /\ RunWorks(f)' = RunWorks(f)
                          /\ RunAttends(f)' = RunAttends(f)
  <2>1. RebuildDue' = RebuildDue /\ RebuildOver' = RebuildOver
    <3>1. CASE t = "rebuild"
          BY <1>2, <1>3, <3>1 DEF RebuildDue, RebuildOver, InLane, IsRefresh
    <3>2. CASE t # "rebuild"
          BY <1>2, <1>3, <3>2 DEF RebuildDue, RebuildOver, InLane, Tasks
    <3> QED BY <3>1, <3>2
  <2> QED BY <1>2, <2>1 DEF Batch, RunFresh, Old, RunWorks, RunAttends
<1>6. \A x \in Tasks, f \in Feeds : Responsible(x, f)' <=> Responsible(x, f)
      BY <1>2, <1>3, <1>5 DEF Responsible, IsRefresh
<1>7. \A x \in Tasks \ {t} : Fresh(x)' = Fresh(x)
      BY <1>2, <1>3 DEF Fresh
<1>8. ASSUME NEW f \in Feeds \ lost', Risk(f)' PROVE Attended(f)'
  <2>1. Old(f) => Risk(f)
        BY DEF Old, Risk
  <2>2. Risk(f)
        BY <1>2, <1>3, <1>4, <1>7, <1>8, <2>1 DEF Risk, UpToDate
  <2>3. Attended(f)
        BY <1>2, <2>2 DEF Served, Attendance
  <2>4. CASE f \in wanted \/ RunAttends(f)
        BY <1>2, <1>5, <2>4 DEF Attended
  <2>5. CASE TaskAttends(f)
    <3>1. PICK x \in Tasks : /\ Responsible(x, f)
                             /\ Fresh(x) => UpToDate(x, f) \/ \E y \in Tasks \ {x} : Responsible(y, f)
          BY <2>5 DEF TaskAttends
    <3>2. CASE x # t
          BY <1>2, <1>3, <1>6, <1>7, <3>1, <3>2 DEF Attended, TaskAttends, UpToDate
    <3>3. CASE x = t /\ UpToDate(t, f)'
          BY <1>6, <3>1, <3>3 DEF Attended, TaskAttends
    <3>4. CASE x = t /\ IsRefresh(t) /\ Old(f)
      <4>1. RunWorks(f) \/ RebuildDue
            BY <1>2, <3>4 DEF Served, Deferral
      <4>2. CASE RunWorks(f)
            BY <1>5, <4>2 DEF Attended, RunAttends
      <4>3. CASE RebuildDue
        <5>1. "rebuild" \in Tasks \ {t} /\ Responsible("rebuild", f)
              BY <3>4, <4>3 DEF IsRefresh, Responsible, Tasks
        <5> QED BY <1>6, <3>1, <3>4, <5>1 DEF Attended, TaskAttends
      <4> QED BY <4>1, <4>2, <4>3
    <3> QED BY <1>4, <3>2, <3>3, <3>4
  <2> QED BY <2>3, <2>4, <2>5 DEF Attended
<1>9. Deferral'
      BY <1>2, <1>5 DEF Served, Deferral
<1> QED BY <1>8, <1>9 DEF Served, Attendance

LEMMA PublishServed ==
  ASSUME Shape, Order, Marked, Served, NEW t \in Tasks, PublishTask(t)
  PROVE  Served'
<1>1. /\ task[t].phase = "staged" /\ Publishes(t)
      /\ committed' = [f \in Feeds |-> IF f \in task[t].wrote THEN task[t].plan[f] ELSE committed[f]]
      /\ pending' = [f \in Feeds |-> IF f \in task[t].drop THEN None ELSE pending[f]]
      /\ task' = [task EXCEPT ![t] = Over(t)]
      /\ lost' = lost \ {f \in task[t].wrote : task[t].plan[f] \in {None, web[f]}}
      /\ UNCHANGED <<web, lane, wanted, loop>> /\ Batch' = Batch
      BY DEF PublishTask, queue, Batch
<1>2. /\ task \in [Tasks -> Task] /\ task[t] \in Task /\ task[t].wrote \subseteq Feeds
      /\ "run" \notin Tasks /\ "rebuild" \in Tasks /\ Attendance /\ Deferral
      BY DEF Shape, TypeOK, Task, Tasks, Served
<1>3. task'[t].phase = "done" /\ \A x \in Tasks \ {t} : task'[x] = task[x]
      BY <1>1, <1>2, OverTask
<1>4. \A x \in Tasks : ~Fresh(x)'
      BY <1>1, <1>3, PublishingStales
<1>5. Fresh(t) /\ PlanInOrder(t) /\ Covered(t)
      BY <1>1 DEF Fresh, Publishes, Order, Marked
<1>6. /\ \A f \in task[t].wrote : pending'[f] = None
      /\ \A f \in Feeds \ task[t].wrote : pending'[f] = pending[f] /\ committed'[f] = committed[f]
      BY <1>1, <1>2, <1>5 DEF PlanInOrder, Covered
<1>7. t = "rebuild" => task[t].wrote = Feeds
      BY <1>2, <1>5 DEF Covered, Abandons, IsRefresh
<1>8. \A x \in Tasks \ {t}, f \in Feeds :
        Responsible(x, f) /\ (f \in task[t].wrote => t # "rebuild" \/ IsRefresh(x)) => Responsible(x, f)'
      BY <1>1, <1>3 DEF Responsible, RebuildDue, InLane, IsRefresh
<1>9. ~RunFresh'
      BY <1>1 DEF RunFresh, Publishes, Staged, Tasks
<1>10. ASSUME NEW f \in Feeds \ lost', Risk(f)' PROVE Attended(f)'
  <2>1. CASE f \in task[t].wrote
    <3>1. ~UpToDate(t, f)
          BY <1>1, <1>4, <1>6, <1>10, <2>1 DEF Risk, UpToDate
    <3>2. f \notin lost /\ Risk(f)
          BY <1>1, <1>5, <2>1, <3>1 DEF Risk, UpToDate
    <3>3. CASE f \in wanted \/ RunAttends(f)
          BY <1>1, <3>3 DEF Attended, RunAttends, RunWorks
    <3>4. CASE TaskAttends(f)
      <4>1. PICK y \in Tasks \ {t} : Responsible(y, f)
            BY <1>5, <3>1, <3>4 DEF TaskAttends
      <4>2. Responsible(y, f)'
            BY <1>8, <4>1 DEF IsRefresh
      <4> QED BY <1>4, <4>2 DEF Attended, TaskAttends
    <3> QED BY <1>2, <3>2, <3>3, <3>4 DEF Attendance, Attended
  <2>2. CASE f \notin task[t].wrote
    <3>1. f \notin lost /\ Risk(f)
          BY <1>1, <1>4, <1>6, <1>10, <2>2 DEF Risk
    <3>2. CASE f \in wanted \/ RunAttends(f)
          BY <1>1, <3>2 DEF Attended, RunAttends, RunWorks
    <3>3. CASE TaskAttends(f)
      <4>1. PICK x \in Tasks : Responsible(x, f)
            BY <3>3 DEF TaskAttends
      <4>2. x # t
            BY <1>5, <1>7, <2>2, <4>1 DEF Responsible, Covered, Abandons, IsRefresh
      <4>3. Responsible(x, f)'
            BY <1>8, <2>2, <4>1, <4>2
      <4> QED BY <1>4, <4>3 DEF Attended, TaskAttends
    <3> QED BY <1>2, <3>1, <3>2, <3>3 DEF Attendance, Attended
  <2> QED BY <2>1, <2>2
<1>11. \A f \in Feeds \ lost' : pending'[f] # None =>
          /\ f \notin lost /\ f \notin task[t].wrote /\ pending'[f] = pending[f] /\ t # "rebuild"
       BY <1>1, <1>6, <1>7
<1>12. t # "rebuild" => RebuildDue' = RebuildDue /\ RebuildOver' = RebuildOver
       BY <1>1, <1>2, <1>3 DEF RebuildDue, RebuildOver, InLane
<1>13. ASSUME NEW f \in Feeds \ lost', Old(f)' PROVE RunWorks(f)' \/ RebuildDue'
  <2>1. f \notin lost /\ Old(f) /\ t # "rebuild"
        BY <1>1, <1>11, <1>13 DEF Old
  <2> QED BY <1>1, <1>2, <1>12, <2>1 DEF Deferral, RunWorks
<1>14. RebuildOver' => \A f \in Feeds \ lost' : pending'[f] = None
       BY <1>2, <1>11, <1>12 DEF Deferral
<1>15. loop'.phase = "staged" /\ loop'.deferred =>
         \A f \in Batch' \ lost' : pending'[f] = None \/ RebuildDue'
  <2>1. Batch \subseteq Feeds
        BY DEF Batch
  <2> QED BY <1>1, <1>2, <1>11, <1>12, <2>1 DEF Deferral
<1>16. Deferral'
       BY <1>9, <1>13, <1>14, <1>15 DEF Deferral
<1> QED BY <1>10, <1>16 DEF Served, Attendance

\* A rebuild that starts over, is given up, or leaves the lane.
LEMMA RebuildServed ==
  ASSUME Shape, Marked, Served, Discard("rebuild") \/ Leave("rebuild")
  PROVE  Served'
<1>0. /\ task \in [Tasks -> Task] /\ "rebuild" \in Tasks /\ "run" \notin Tasks /\ LaneOK
      /\ Attendance /\ Deferral /\ "run" # "rebuild"
      /\ task["rebuild"].phase # "idle" => InLane("rebuild")
      BY DEF Shape, TypeOK, Tasks, LaneOK, Once, Work, Served, WorkerOK
<1>1. CASE Discard("rebuild")
  <2>1. /\ task["rebuild"].phase = "staged" /\ "rebuild" \in stale
        /\ stale' = stale \ {"rebuild"}
        /\ UNCHANGED <<web, committed, pending, lane, wanted, loop>> /\ Batch' = Batch
        /\ \/ task' = [task EXCEPT !["rebuild"] = Over("rebuild")] /\ lost' = lost \cup Feeds
           \/ task' = [task EXCEPT !["rebuild"] = Unstaged("rebuild")] /\ lost' = lost
        BY <1>1 DEF Discard, store, queue, Batch, Abandons, IsRefresh
  <2>2. Over("rebuild").phase = "done" /\ Unstaged("rebuild").phase = "planning"
        BY DEF Over, Unstaged, idleTask
  <2>3. /\ \A x \in Tasks \ {"rebuild"} : task'[x] = task[x] /\ (x \in stale' <=> x \in stale)
        /\ task'["rebuild"].phase \in {"done", "planning"}
        /\ task'["rebuild"].phase = "done" => lost' = lost \cup Feeds
        /\ task'["rebuild"].phase = "planning" => lost \subseteq lost'
        BY <1>0, <2>1, <2>2
  <2>4. ~RunFresh'
    <3>1. ~RunFresh
          BY <1>0, <2>1 DEF Deferral
    <3> QED BY <1>0, <2>1, <3>1 DEF RunFresh
  <2>5. CASE task'["rebuild"].phase = "done"
        BY <2>1, <2>3, <2>4, <2>5 DEF Served, Attendance, Deferral, Batch
  <2>6. CASE task'["rebuild"].phase = "planning"
    <3>1. RebuildDue /\ RebuildDue' /\ ~RebuildOver'
          BY <1>0, <2>1, <2>6 DEF RebuildDue, RebuildOver, InLane
    <3>2. \A x \in Tasks : Fresh(x)' => Fresh(x) /\ task'[x] = task[x]
          BY <2>3, <2>6 DEF Fresh
    <3>3. \A x \in Tasks, f \in Feeds : Responsible(x, f) => Responsible(x, f)'
          BY <2>3, <3>1 DEF Responsible, IsRefresh
    <3>4. Keeps
          BY <2>1, <2>3, <2>6, <3>2, <3>3 DEF Keeps, Attended, RunAttends, RunWorks
    <3>5. Deferral'
          BY <2>4, <3>1 DEF Deferral
    <3> QED BY <1>0, <3>4, <3>5, AttendanceKept DEF Served
  <2> QED BY <2>3, <2>5, <2>6
<1>2. CASE Leave("rebuild")
  <2>1. /\ task["rebuild"].phase = "done" /\ lane' = Without("rebuild")
        /\ task' = [task EXCEPT !["rebuild"] = idleTask]
        /\ UNCHANGED <<web, committed, pending, wanted, loop, stale, lost>> /\ Batch' = Batch
        BY <1>2 DEF Leave, store, queue, Batch, IsRefresh
  <2>2. /\ ~RebuildDue /\ RebuildOver /\ ~InLane("rebuild")'
        BY <1>0, <2>1, WithoutKeeps DEF RebuildDue, RebuildOver, Work
  <2>3. /\ \A x \in Tasks \ {"rebuild"} : task'[x] = task[x]
        /\ task'["rebuild"].phase = "idle"
        BY <1>0, <2>1 DEF idleTask
  <2>4. \A x \in Tasks : Fresh(x)' => Fresh(x) /\ task'[x] = task[x]
        BY <2>1, <2>3 DEF Fresh
  <2>5. \A x \in Tasks, f \in Feeds : Responsible(x, f) => Responsible(x, f)'
        BY <2>2, <2>3 DEF Responsible, IsRefresh
  <2>6. Keeps
        BY <2>1, <2>4, <2>5 DEF Keeps, Attended, RunAttends, RunWorks
  <2>7. ~RunFresh' /\ ~RebuildOver'
        BY <1>0, <2>1, <2>2 DEF Deferral, RunFresh, RebuildOver
  <2>8. Deferral'
        BY <1>0, <2>1, <2>2, <2>7 DEF Deferral, Old, RunWorks, Batch
  <2> QED BY <1>0, <2>6, <2>8, AttendanceKept DEF Served
<1> QED BY <1>1, <1>2

LEMMA TaskServed ==
  ASSUME Shape, Order, Marked, Served, NEW t \in Tasks, Step(t)
  PROVE  Served'
<1>0. /\ task \in [Tasks -> Task] /\ task[t] \in Task /\ LaneOK /\ WorkerOK(t)
      BY DEF Shape, TypeOK, LaneOK, Once, Work
<1>1. CASE Drain(t)
  <2> DEFINE r == [task[t] EXCEPT !.phase = IF wanted = {} THEN "done" ELSE "planning",
                                  !.names = wanted, !.tries = 0]
  <2>1. /\ Unstages(t, r) /\ IsRefresh(t) /\ task[t].phase = "idle"
        /\ UNCHANGED <<lane, stale, lost>> /\ r.names = wanted
        /\ wanted # {} => r.phase = "planning"
        BY <1>0, <1>1 DEF Drain, Unstages, store, Task
  <2>2. (InLane("rebuild")' <=> InLane("rebuild")) /\ \A f \in Feeds : ~Responsible(t, f)
        BY <2>1 DEF InLane, Responsible
  <2> HIDE DEF r
  <2> QED BY <2>1, <2>2, RefreshServed
<1>2. CASE StageRefresh(t)
  <2>1. IsRefresh(t) /\ task[t].phase = "planning" /\ Stages(t)
        BY <1>2 DEF StageRefresh, SurgicalPlan, Stages
  <2> QED BY <2>1, StagingServed
<1>3. CASE PublishTask(t)
      BY <1>3, PublishServed
<1>4. CASE Discard(t) /\ IsRefresh(t)
  <2>1. /\ Over(t).phase = "done" /\ Unstaged(t).phase = "planning"
        /\ Unstaged(t).names = task[t].names
        BY DEF Over, Unstaged, idleTask
  <2>2. PICK r \in {Over(t), Unstaged(t)} :
          /\ Unstages(t, r) /\ stale' = stale \ {t} /\ UNCHANGED <<lane, wanted>>
          /\ r = Unstaged(t) \/ lost' = lost \cup task[t].names
          /\ lost \subseteq lost'
        BY <1>4, <2>1 DEF Discard, Unstages, store, queue, Abandons
  <2>3. (InLane("rebuild")' <=> InLane("rebuild"))
        BY <2>2 DEF InLane
  <2>4. ASSUME NEW f \in Feeds \ lost', Responsible(t, f)
        PROVE  r.phase = "planning" /\ f \in r.names
        BY <1>4, <2>1, <2>2, <2>4 DEF Responsible
  <2>5. IsRefresh(t) /\ stale' \subseteq stale /\ stale \subseteq stale' \cup {t} /\ wanted' = wanted
        BY <1>4, <2>2
  <2> QED BY <2>2, <2>3, <2>4, <2>5, RefreshServed
<1>5. CASE EndWave(t)
  <2> DEFINE r == [task[t] EXCEPT !.waves = @ + 1,
                                  !.phase = IF wanted = {} THEN "leaving" ELSE "idle"]
  <2>1. /\ Unstages(t, r) /\ IsRefresh(t) /\ task[t].phase = "done"
        /\ UNCHANGED <<lane, stale, lost, wanted>>
        BY <1>0, <1>5 DEF EndWave, Unstages, store, Task
  <2>2. (InLane("rebuild")' <=> InLane("rebuild")) /\ \A f \in Feeds : ~Responsible(t, f)
        BY <2>1 DEF InLane, Responsible
  <2> HIDE DEF r
  <2>3. lost \subseteq lost' /\ stale' \subseteq stale /\ stale \subseteq stale' \cup {t}
        BY <2>1
  <2>4. wanted' = wanted
        BY <2>1
  <2> QED BY <2>1, <2>2, <2>3, <2>4, RefreshServed
<1>6. CASE Continue(t)
  <2> DEFINE r == [task[t] EXCEPT !.waves = @ + 1, !.phase = "leaving"]
  <2>1. /\ Unstages(t, r) /\ IsRefresh(t) /\ task[t].phase = "done"
        /\ UNCHANGED <<stale, lost, wanted>> /\ lane' = Submitted(Refresh[1 - parity])
        BY <1>0, <1>6 DEF Continue, Unstages, store, Task
  <2>2. InLane("rebuild")' <=> InLane("rebuild")
    <3>1. Refresh[1 - parity] \in Tasks \ {"rebuild"} /\ "rebuild" \in Work
          BY DEF Refresh, Tasks, Shape, TypeOK, Work
    <3> QED BY <1>0, <2>1, <3>1, SubmittedKeeps DEF Work
  <2>3. \A f \in Feeds : ~Responsible(t, f)
        BY <2>1 DEF Responsible
  <2> HIDE DEF r
  <2>4. lost \subseteq lost' /\ stale' \subseteq stale /\ stale \subseteq stale' \cup {t} /\ wanted' = wanted
        BY <2>1
  <2> QED BY <2>1, <2>2, <2>3, <2>4, RefreshServed
<1>7. CASE Leave(t) /\ IsRefresh(t)
  <2>1. /\ Unstages(t, idleTask) /\ task[t].phase = "leaving"
        /\ UNCHANGED <<stale, lost, wanted>> /\ lane' = Without(t)
        BY <1>7 DEF Leave, Unstages, store, queue, idleTask
  <2>2. InLane("rebuild")' <=> InLane("rebuild")
    <3>1. InLane(t) /\ t # "rebuild" /\ "rebuild" \in Work /\ t \in Work
          BY <1>0, <1>7, <2>1 DEF WorkerOK, IsRefresh, Work, Tasks
    <3> QED BY <1>0, <2>1, <3>1, WithoutKeeps
  <2>3. \A f \in Feeds : ~Responsible(t, f)
        BY <1>7, <2>1 DEF Responsible
  <2>4. lost \subseteq lost' /\ stale' \subseteq stale /\ stale \subseteq stale' \cup {t} /\ wanted' = wanted
        BY <2>1
  <2> QED BY <1>7, <2>1, <2>2, <2>3, <2>4, RefreshServed
<1>8. CASE (Discard(t) \/ Leave(t)) /\ ~IsRefresh(t)
      BY <1>8, RebuildServed DEF IsRefresh
<1> QED BY <1>1, <1>2, <1>3, <1>4, <1>5, <1>6, <1>7, <1>8 DEF Step

LEMMA NextServed == Shape /\ Order /\ Marked /\ Served /\ [Next]_vars => Served'
<1> SUFFICES ASSUME Shape, Order, Marked, Served, [Next]_vars PROVE Served'
    OBVIOUS
<1>0. /\ LaneOK /\ Attendance /\ Deferral /\ "rebuild" \in Tasks
      /\ ~InLane("rebuild") => task["rebuild"].phase = "idle"
      BY DEF Shape, TypeOK, LaneOK, Once, Work, Served, Tasks, WorkerOK
<1>1. ASSUME /\ UNCHANGED <<web, committed, pending, wanted, loop, task, stale, lost>>
             /\ InLane("rebuild")' <=> InLane("rebuild") \/ QueueRebuild
      PROVE  Served'
  <2>1. /\ RebuildDue => RebuildDue'
        /\ RebuildOver' <=> RebuildOver
        BY <1>0, <1>1 DEF RebuildDue, RebuildOver
  <2>2. \A x \in Tasks, f \in Feeds : Responsible(x, f) => Responsible(x, f)'
        BY <1>1, <2>1 DEF Responsible
  <2>3. Keeps
        BY <1>1, <2>2 DEF Keeps, Fresh, Attended, RunAttends, RunWorks, Batch
  <2>4. Deferral'
        BY <1>0, <1>1, <2>1 DEF Deferral, Old, RunWorks, RunFresh, Batch
  <2> QED BY <1>0, <2>3, <2>4, AttendanceKept DEF Served
<1>2. CASE UNCHANGED vars
  <2>1. /\ UNCHANGED <<web, committed, pending, wanted, loop, task, stale, lost, lane>>
        BY <1>2 DEF vars, store, queue
  <2>2. ~QueueRebuild \/ InLane("rebuild")
    <3>1. ASSUME QueueRebuild PROVE InLane("rebuild")
          BY <1>0, <2>1, <3>1, SubmittedKeeps DEF QueueRebuild, Work, InLane
    <3> QED BY <3>1
  <2> QED BY <1>1, <2>1, <2>2 DEF InLane
<1>3. CASE QueueRebuild
  <2>1. InLane("rebuild")'
        BY <1>0, <1>3, SubmittedKeeps DEF QueueRebuild, Work
  <2> QED BY <1>1, <1>3, <2>1 DEF QueueRebuild, store, queue
<1>4. CASE StageRebuild
  <2>1. RebuildDue
        BY <1>4 DEF StageRebuild, RebuildDue, Active, InLane
  <2> QED BY <1>0, <1>4, <2>1, StagingServed DEF StageRebuild, Stages
<1> QED BY <1>2, <1>3, <1>4, LoopServed, TaskServed DEF Next

LEMMA AlwaysServed == Spec => [](Shape /\ Order /\ Marked /\ Served)
  BY InitShaped, InitOrdered, InitMarked, InitServed,
     NextShaped, NextOrdered, NextMarked, NextServed, PTL DEF Spec

\* Once everything asked for is done, nothing is stale but what was given up:
\* with the lane empty nobody is responsible, so nothing is at risk.
THEOREM NothingStaleInQuiet == Spec => []NothingStale
<1>1. Shape /\ Marked /\ Served => NothingStale
  <2> SUFFICES ASSUME Shape, Marked, Served, Quiet, NEW f \in Feeds \ lost
               PROVE  pending[f] = None /\ committed[f] \in {None, web[f]}
      BY DEF NothingStale
  <2>1. \A x : ~InLane(x)
        BY DEF Quiet, InLane
  <2>2. \A x \in Tasks : task[x].phase = "idle"
        BY <2>1 DEF Shape, WorkerOK
  <2>3. ~TaskAttends(f)
        BY <2>1, <2>2 DEF TaskAttends, Responsible, RebuildDue
  <2>4. ~RunAttends(f) /\ f \notin wanted
        BY DEF Quiet, RunAttends, RunWorks
  <2>5. ~Risk(f)
        BY <2>3, <2>4 DEF Served, Attendance, Attended
  <2> QED BY <2>5 DEF Risk
<1> QED BY AlwaysServed, <1>1, PTL
=============================================================================
