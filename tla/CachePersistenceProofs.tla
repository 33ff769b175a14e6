----------------------- MODULE CachePersistenceProofs -----------------------
(***************************************************************************)
(* Proofs about CachePersistence, for every number of runs and workers.    *)
(***************************************************************************)
EXTENDS CachePersistence, TLAPS

(***************************************************************************)
(* The inductive invariant: what the worker holds is newer than the file   *)
(* and older than what comes next.                                         *)
(***************************************************************************)
\* Only the current worker lives; one that stopped holds nothing.
OneWorker ==
  /\ \A w \in Workers : w # cur => worker[w].at \in {"none", "over"}
  /\ cur # None => worker[cur].at # "none"
  /\ \A w \in Workers : worker[w].at = "over" <=> worker[w].stopped
  /\ \A w \in Workers : worker[w].at \in {"none", "over"} => worker[w].pending = None

\* Snapshots and their numbers only grow on their way to the file.
OrderedAt(k, d, c) ==
  /\ k.pending # None => /\ k.pending = k.accepted
                         /\ k.inFlight < k.pending /\ k.completed < k.pending
                         /\ d < k.version /\ k.version <= c
  /\ k.inFlight # None => k.inFlight <= k.accepted /\ k.completed < k.inFlight
  /\ k.completed <= k.accepted
  /\ k.at = "saving" => d < k.state /\ k.state <= c
  /\ k.at = "saved" => k.state = d
  /\ k.at = "saving" /\ k.pending # None => k.state < k.version

Ordered(k) == OrderedAt(k, disk, clock)

\* The snapshot a run is about to hand over is newer than all others.
Fresh ==
  run.at \in {"ensuring", "submitting"} =>
    /\ run.version = clock /\ disk < clock
    /\ \A w \in Workers : /\ worker[w].pending # None => worker[w].version < clock
                          /\ worker[w].at = "saving" => worker[w].state < clock

\* The snapshot a direct run waits for is the last one the worker accepted.
Awaited ==
  /\ run.at \in {"submitting", "waiting", "stopping"} => cur # None
  /\ run.at = "waiting" =>
       /\ run.seq = worker[cur].accepted
       /\ worker[cur].pending # None => worker[cur].version = run.version
       /\ worker[cur].inFlight = run.seq => worker[cur].state = run.version
       /\ worker[cur].completed >= run.seq => run.version <= disk

Inv ==
  /\ TypeOK /\ told <= disk /\ disk <= clock
  /\ OneWorker /\ Fresh /\ Awaited
  /\ \A w \in Workers : Ordered(worker[w])

LEMMA Fields ==
  ASSUME NEW k \in Worker
  PROVE  /\ k.at \in {"none", "loop", "saving", "saved", "over"}
         /\ k.state \in 0..MaxRuns /\ k.version \in 0..MaxRuns
         /\ k.pending \in Nat /\ k.inFlight \in Nat /\ k.accepted \in Nat
         /\ k.completed \in Nat /\ k.failed \in Nat
         /\ k.lastError \in BOOLEAN /\ k.stopping \in BOOLEAN /\ k.stopped \in BOOLEAN
  BY DEF Worker

LEMMA InitInv == Init => Inv
<1> SUFFICES ASSUME Init PROVE Inv
    OBVIOUS
<1>1. MaxRuns \in Nat \ {0} /\ MaxWorkers \in Nat \ {0}
      BY CacheAssumption
<1>2. noWorker \in Worker
      BY <1>1 DEF noWorker, Worker, None
<1>3. worker \in [Workers -> Worker] /\ \A w \in Workers : worker[w] = noWorker
      BY <1>2 DEF Init
<1>4. run = noRun /\ clock = 0 /\ disk = 0 /\ told = 0 /\ cur = None
      BY DEF Init
<1>5. run \in [at : {"idle", "ensuring", "submitting", "waiting", "stopping"},
               version : 0..MaxRuns, seq : Nat, direct : BOOLEAN]
      BY <1>1, <1>4 DEF noRun, None
<1>6. TypeOK
      BY <1>1, <1>3, <1>4, <1>5 DEF TypeOK, noWorker, None
<1>7. OneWorker
      BY <1>3, <1>4 DEF OneWorker, noWorker
<1>8. Fresh /\ Awaited
      BY <1>3, <1>4 DEF Fresh, Awaited, noRun, noWorker
<1>9. \A w \in Workers : Ordered(worker[w])
      BY <1>3, <1>4 DEF Ordered, OrderedAt, noWorker, None
<1> QED BY <1>4, <1>6, <1>7, <1>8, <1>9 DEF Inv

(***************************************************************************)
(* The steps of a run.                                                     *)
(***************************************************************************)
\* A worker whose flags alone have changed.
SameButFlags(k, l) ==
  /\ k.at = l.at /\ k.state = l.state /\ k.version = l.version
  /\ k.pending = l.pending /\ k.inFlight = l.inFlight
  /\ k.accepted = l.accepted /\ k.completed = l.completed /\ k.stopped = l.stopped

\* Steps that touch neither what the workers hold nor what a run hands over.
LEMMA QuietInv ==
  ASSUME Inv, UNCHANGED <<clock, disk, cur>>,
         worker' \in [Workers -> Worker],
         \A w \in Workers : SameButFlags(worker'[w], worker[w]),
         run' \in [at : {"idle", "ensuring", "submitting", "waiting", "stopping"},
                   version : 0..MaxRuns, seq : Nat, direct : BOOLEAN],
         \/ run' = run
         \/ run'.at = "idle"
         \/ run'.at = "stopping" /\ cur # None,
         told' \in 0..MaxRuns, told' <= disk
  PROVE  Inv'
<1>1. TypeOK'
      BY DEF Inv, TypeOK, SameButFlags
<1>2. OneWorker'
  <2>1. cur # None => cur \in Workers
        BY DEF Inv, TypeOK
  <2> QED BY <2>1 DEF Inv, OneWorker, SameButFlags
<1>3. Fresh'
      BY DEF Inv, Fresh, SameButFlags
<1>4. Awaited'
  <2>1. cur # None => cur \in Workers
        BY DEF Inv, TypeOK
  <2> QED BY <2>1 DEF Inv, Awaited, SameButFlags
<1>5. ASSUME NEW w \in Workers PROVE Ordered(worker[w])'
      BY DEF Inv, Ordered, OrderedAt, SameButFlags
<1> QED BY <1>1, <1>2, <1>3, <1>4, <1>5 DEF Inv

Running == [at : {"idle", "ensuring", "submitting", "waiting", "stopping"},
            version : 0..MaxRuns, seq : Nat, direct : BOOLEAN]

LEMMA Types ==
  ASSUME Inv
  PROVE  /\ MaxRuns \in Nat /\ clock \in 0..MaxRuns /\ disk \in 0..MaxRuns /\ told \in 0..MaxRuns
         /\ cur \in Workers \cup {None} /\ worker \in [Workers -> Worker] /\ run \in Running
         /\ told <= disk /\ disk <= clock /\ None \notin Workers
         /\ noRun \in Running
<1>1. noRun \in Running
      BY CacheAssumption DEF noRun, Running, None
<1> QED BY <1>1, CacheAssumption DEF Inv, TypeOK, Running, Workers, None

LEMMA WaitInv ==
  ASSUME Inv, WaitSaved \/ WaitFailed \/ StopReturns
  PROVE  Inv'
<1>1. /\ UNCHANGED <<clock, disk, cur, worker>>
      /\ \/ run.at = "waiting" /\ run' = [run EXCEPT !.at = "stopping"]
         \/ run' = noRun
      /\ \/ told' = told
         \/ run.at = "waiting" /\ worker[cur].completed >= run.seq /\ told' = run.version
      BY DEF WaitSaved, WaitFailed, StopReturns, Completed
<1>2. /\ run' \in Running
      /\ run'.at = "idle" \/ (run'.at = "stopping" /\ cur # None)
  <2>1. CASE run' = noRun
    <3>1. run' \in Running
          BY <2>1, Types
    <3>2. run'.at = "idle"
          BY <2>1 DEF noRun
    <3> QED BY <3>1, <3>2
  <2>2. CASE run.at = "waiting" /\ run' = [run EXCEPT !.at = "stopping"]
        BY <2>2, Types DEF Inv, Awaited, Running
  <2> QED BY <1>1, <2>1, <2>2
<1>3. told' \in 0..MaxRuns /\ told' <= disk
      BY <1>1, Types DEF Inv, Awaited, Running
<1>4. \A w \in Workers : SameButFlags(worker'[w], worker[w])
      BY <1>1 DEF SameButFlags
<1> QED BY <1>1, <1>2, <1>3, <1>4, Types, QuietInv DEF Running

\* One field or two of the current worker that are flags.
LEMMA FlagsInv ==
  ASSUME Inv, cur # None, UNCHANGED <<clock, disk, cur, told>>,
         NEW failed \in Nat, NEW error \in BOOLEAN, NEW stopping \in BOOLEAN,
         worker' = [worker EXCEPT ![cur] = [worker[cur] EXCEPT !.failed = failed,
                                                               !.lastError = error,
                                                               !.stopping = stopping]],
         \/ run' = run
         \/ run' \in Running /\ run'.at = "idle"
         \/ run' \in Running /\ run'.at = "stopping"
  PROVE  Inv'
<1>1. cur \in Workers /\ worker[cur] \in Worker
      BY Types
<1> DEFINE k == [worker[cur] EXCEPT !.failed = failed, !.lastError = error, !.stopping = stopping]
<1>2. k \in Worker /\ SameButFlags(k, worker[cur])
      BY <1>1 DEF Worker, SameButFlags
<1>3. worker' = [worker EXCEPT ![cur] = k]
      OBVIOUS
<1> HIDE DEF k
<1>4. worker' \in [Workers -> Worker]
      BY <1>1, <1>2, <1>3, Types
<1>5. \A w \in Workers : SameButFlags(worker'[w], worker[w])
      BY <1>1, <1>2, <1>3, Types DEF SameButFlags
<1>6. told' \in 0..MaxRuns /\ told' <= disk /\ run' \in Running
      BY Types
<1> QED BY <1>4, <1>5, <1>6, QuietInv DEF Running

LEMMA StopInv ==
  ASSUME Inv, SubmitRefused \/ GiveUp \/ StopAsked \/ DaemonStops
  PROVE  Inv'
<1>1. cur # None /\ UNCHANGED <<clock, disk, cur, told>>
      BY DEF Inv, Awaited, SubmitRefused, GiveUp, StopAsked, DaemonStops
<1>2. cur \in Workers /\ worker[cur] \in Worker
      BY <1>1, Types
<1> DEFINE k == worker[cur]
<1>3. /\ k.failed \in Nat /\ k.accepted \in Nat
      /\ k.lastError \in BOOLEAN /\ k.stopping \in BOOLEAN
      BY <1>2, Fields
<1>4. CASE SubmitRefused
  <2>1. worker' = [worker EXCEPT ![cur] = [k EXCEPT !.failed = k.accepted, !.lastError = TRUE,
                                                    !.stopping = k.stopping]]
        BY <1>2, <1>4, Types DEF SubmitRefused, Worker
  <2>2. run' \in Running /\ run'.at = "idle"
        BY <1>4, Types DEF SubmitRefused, noRun
  <2> QED BY <1>1, <1>3, <2>1, <2>2, FlagsInv
<1>5. CASE GiveUp
  <2>1. /\ run' \in Running
        /\ run'.at = "idle" \/ run'.at = "stopping"
        BY <1>5, Types DEF GiveUp, noRun, Running
  <2>2. PICK s \in BOOLEAN : worker' = [worker EXCEPT ![cur].stopping = s]
    <3>1. worker' = [worker EXCEPT ![cur].stopping = k.stopping \/ run.at = "stopping"]
          BY <1>2, <1>5, Types DEF GiveUp
    <3> QED BY <3>1
  <2>3. worker' = [worker EXCEPT ![cur] = [k EXCEPT !.failed = k.failed,
                                                    !.lastError = k.lastError, !.stopping = s]]
        BY <1>2, <2>2, Types DEF Worker
  <2> QED BY <1>1, <1>3, <2>1, <2>3, FlagsInv
<1>6. CASE StopAsked \/ DaemonStops
  <2>1. worker' = [worker EXCEPT ![cur] = [k EXCEPT !.failed = k.failed,
                                                    !.lastError = k.lastError, !.stopping = TRUE]]
        BY <1>2, <1>6, Types DEF StopAsked, DaemonStops, Worker
  <2>2. run' = run
        BY <1>6 DEF StopAsked, DaemonStops
  <2> QED BY <1>1, <1>3, <2>1, <2>2, FlagsInv
<1> QED BY <1>4, <1>5, <1>6

LEMMA SnapshotInv ==
  ASSUME Inv, NEW direct \in BOOLEAN, SnapshotState(direct)
  PROVE  Inv'
<1>1. /\ run.at = "idle" /\ clock < MaxRuns /\ clock' = clock + 1
      /\ run' = [at |-> "ensuring", version |-> clock + 1, seq |-> 0, direct |-> direct]
      /\ UNCHANGED <<disk, cur, worker, told>>
      BY DEF SnapshotState
<1>2. TypeOK'
  <2>1. clock' \in 0..MaxRuns /\ run' \in Running
        BY <1>1, Types DEF Running
  <2> QED BY <1>1, <2>1 DEF Inv, TypeOK, Running
<1>3. disk < clock' /\ disk <= clock' /\ clock < clock'
      BY <1>1, Types
<1>4. ASSUME NEW w \in Workers
      PROVE  /\ worker[w].version \in Nat /\ worker[w].state \in Nat
             /\ Ordered(worker[w])
      BY Types, Fields DEF Inv
<1>5. Fresh'
      BY <1>1, <1>3, <1>4, Types DEF Fresh, Ordered, OrderedAt
<1>6. \A w \in Workers : Ordered(worker[w])'
      BY <1>1, <1>3, <1>4, Types DEF Ordered, OrderedAt
<1>7. OneWorker' /\ Awaited'
      BY <1>1 DEF Inv, OneWorker, Awaited
<1> QED BY <1>1, <1>2, <1>3, <1>5, <1>6, <1>7 DEF Inv

LEMMA EnsureInv ==
  ASSUME Inv, Ensure
  PROVE  Inv'
<1>1. /\ run.at = "ensuring" /\ run' = [run EXCEPT !.at = "submitting"]
      /\ UNCHANGED <<clock, disk, told>>
      BY DEF Ensure
<1>2. run' \in Running /\ run'.at = "submitting" /\ run'.version = run.version
      BY <1>1, Types DEF Running
<1>3. CASE cur = None \/ worker[cur].stopped
  <2> DEFINE k == [noWorker EXCEPT !.at = "loop"]
             c == cur + 1
  <2>1. /\ cur < MaxWorkers /\ cur' = c
        /\ worker' = [worker EXCEPT ![c] = k]
        BY <1>3 DEF Ensure
  <2>2. c \in Workers /\ c # None /\ c # cur /\ MaxWorkers \in Nat
        BY <2>1, Types, CacheAssumption DEF Workers, None
  <2>3. /\ k \in Worker /\ k.at = "loop" /\ k.pending = None /\ k.inFlight = None
        /\ ~k.stopped /\ k.completed = 0 /\ k.accepted = 0
    <3>1. noWorker \in Worker
          BY Types DEF noWorker, Worker, None
    <3>2. k \in Worker
          BY <3>1 DEF Worker
    <3> QED BY <3>2 DEF noWorker, None
  <2> HIDE DEF k, c
  <2>4. /\ worker' \in [Workers -> Worker] /\ worker'[c] = k
        /\ \A w \in Workers : w # c => worker'[w] = worker[w]
        BY <2>1, <2>2, <2>3, Types
  <2>5. TypeOK'
    <3>1. \A w \in Workers : (worker'[w].inFlight # None) <=> (worker'[w].at \in {"saving", "saved"})
          BY <2>3, <2>4 DEF Inv, TypeOK
    <3> QED BY <1>1, <1>2, <2>1, <2>2, <2>4, <3>1 DEF Inv, TypeOK, Running
  <2>6. cur # None => cur \in Workers /\ worker[cur].at = "over"
        BY <1>3, Types DEF Inv, OneWorker
  <2>7. OneWorker'
    <3>1. ASSUME NEW w \in Workers, w # c
          PROVE  worker[w].at \in {"none", "over"}
          BY <2>6, <3>1, Types DEF Inv, OneWorker
    <3>2. ASSUME NEW w \in Workers
          PROVE  /\ worker'[w].at = "over" <=> worker'[w].stopped
                 /\ worker'[w].at \in {"none", "over"} => worker'[w].pending = None
          BY <2>3, <2>4 DEF Inv, OneWorker
    <3> QED BY <2>1, <2>2, <2>3, <2>4, <3>1, <3>2 DEF OneWorker
  <2>8. Fresh'
        BY <1>1, <1>2, <2>3, <2>4 DEF Inv, Fresh
  <2>9. Awaited'
        BY <1>2, <2>1, <2>2 DEF Awaited
  <2>10. ASSUME NEW w \in Workers PROVE Ordered(worker[w])'
         BY <1>1, <2>3, <2>4 DEF Inv, Ordered, OrderedAt, None
  <2> QED BY <1>1, <2>5, <2>7, <2>8, <2>9, <2>10 DEF Inv
<1>4. CASE ~(cur = None \/ worker[cur].stopped)
  <2>1. UNCHANGED <<cur, worker>>
        BY <1>4 DEF Ensure
  <2>2. TypeOK'
        BY <1>1, <1>2, <2>1 DEF Inv, TypeOK, Running
  <2>3. OneWorker' /\ Fresh' /\ Awaited'
        BY <1>1, <1>2, <1>4, <2>1 DEF Inv, OneWorker, Fresh, Awaited
  <2>4. ASSUME NEW w \in Workers PROVE Ordered(worker[w])'
        BY <1>1, <2>1 DEF Inv, Ordered, OrderedAt
  <2> QED BY <1>1, <2>2, <2>3, <2>4 DEF Inv
<1> QED BY <1>3, <1>4

LEMMA SubmitInv ==
  ASSUME Inv, Submit
  PROVE  Inv'
<1> DEFINE k   == worker[cur]
           seq == k.accepted + 1
           l   == [k EXCEPT !.accepted = seq, !.pending = seq, !.version = run.version]
<1>1. /\ run.at = "submitting" /\ ~k.stopping /\ ~k.stopped
      /\ worker' = [worker EXCEPT ![cur].accepted = seq, ![cur].pending = seq,
                                  ![cur].version = run.version]
      /\ run' = IF run.direct THEN [run EXCEPT !.at = "waiting", !.seq = seq] ELSE noRun
      /\ UNCHANGED <<clock, disk, cur, told>>
      BY DEF Submit
<1>2. cur \in Workers /\ k \in Worker /\ run.version = clock /\ run.version \in 0..MaxRuns
      BY <1>1, Types DEF Inv, Awaited, Fresh
<1>3. /\ k.accepted \in Nat /\ k.inFlight \in Nat /\ k.completed \in Nat /\ seq \in Nat
      /\ k.at \in {"loop", "saving", "saved"}
      BY <1>1, <1>2, Fields, Types DEF Inv, OneWorker
<1>4. /\ l \in Worker /\ l.accepted = seq /\ l.pending = seq /\ l.version = run.version
      /\ l.at = k.at /\ l.state = k.state /\ l.inFlight = k.inFlight
      /\ l.completed = k.completed /\ l.stopped = k.stopped /\ seq # None
  <2>1. seq # None
        BY <1>3 DEF None
  <2> HIDE DEF seq
  <2>2. l \in Worker
        BY <1>2, <1>3 DEF Worker
  <2> QED BY <1>2, <1>3, <2>1, <2>2 DEF Worker
<1>5. worker' = [worker EXCEPT ![cur] = l]
      BY <1>1, <1>2, Types DEF Worker
<1> HIDE DEF l
<1>6. /\ worker' \in [Workers -> Worker] /\ worker'[cur] = l
      /\ \A w \in Workers : w # cur => worker'[w] = worker[w]
      BY <1>2, <1>4, <1>5, Types
<1>7. /\ run' \in Running
      /\ \/ run' = noRun
         \/ run'.at = "waiting" /\ run'.seq = seq /\ run'.version = run.version
  <2>1. CASE run.direct
        BY <1>1, <1>3, <2>1, Types DEF Running
  <2>2. CASE ~run.direct
        BY <1>1, <2>2, Types
  <2> QED BY <2>1, <2>2
<1> HIDE DEF seq
<1>8. TypeOK'
  <2>1. \A w \in Workers : (worker'[w].inFlight # None) <=> (worker'[w].at \in {"saving", "saved"})
        BY <1>2, <1>4, <1>6 DEF Inv, TypeOK
  <2> QED BY <1>1, <1>6, <1>7, <2>1 DEF Inv, TypeOK, Running
<1>9. OneWorker'
      BY <1>1, <1>2, <1>3, <1>4, <1>6 DEF Inv, OneWorker
<1>10. Fresh'
       BY <1>7 DEF Fresh, noRun
<1>11. k.inFlight <= k.accepted /\ k.completed <= k.accepted /\ seq = k.accepted + 1
       BY <1>2, <1>3 DEF Inv, Ordered, OrderedAt, None, seq
<1>12. Awaited'
       BY <1>1, <1>2, <1>3, <1>4, <1>6, <1>7, <1>11, Types DEF Awaited, noRun
<1>13. ASSUME NEW w \in Workers PROVE Ordered(worker[w])'
  <2>1. CASE w = cur
    <3>1. disk < run.version /\ run.version <= clock
          BY <1>1, <1>2, Types DEF Inv, Fresh
    <3>2. k.at = "saving" => k.state < run.version
          BY <1>1, <1>2 DEF Inv, Fresh
    <3> QED BY <1>1, <1>2, <1>3, <1>4, <1>6, <1>11, <2>1, <3>1, <3>2 DEF Inv, Ordered, OrderedAt
  <2>2. CASE w # cur
        BY <1>1, <1>6, <2>2 DEF Inv, Ordered, OrderedAt
  <2> QED BY <2>1, <2>2
<1> QED BY <1>1, <1>8, <1>9, <1>10, <1>12, <1>13 DEF Inv

(***************************************************************************)
(* The steps of a worker.                                                  *)
(***************************************************************************)
\* Only the current worker takes steps.
LEMMA Living ==
  ASSUME Inv, NEW w \in Workers, worker[w].at \in {"loop", "saving", "saved"}
  PROVE  /\ w = cur /\ worker[w] \in Worker /\ Ordered(worker[w])
         /\ ~worker[w].stopped
  BY Types DEF Inv, OneWorker

\* The current worker becomes l, which may advance the file, and what the run
\* relies on stays in order.
Moves(w, l) ==
  /\ w = cur /\ l \in Worker /\ worker' = [worker EXCEPT ![w] = l]
  /\ UNCHANGED <<clock, cur, run, told>>
  /\ disk' \in 0..MaxRuns /\ disk <= disk' /\ disk' <= clock
  /\ (l.inFlight # None) <=> (l.at \in {"saving", "saved"})
  /\ l.at # "none"
  /\ l.at = "over" <=> l.stopped
  /\ l.at = "over" => l.pending = None
  /\ OrderedAt(l, disk', clock)
  /\ l.accepted = worker[w].accepted
  /\ run.at \in {"ensuring", "submitting"} =>
       /\ disk' < clock
       /\ l.pending # None => l.version < clock
       /\ l.at = "saving" => l.state < clock
  /\ run.at = "waiting" =>
       /\ l.pending # None => l.version = run.version
       /\ l.inFlight = run.seq => l.state = run.version
       /\ l.completed >= run.seq => run.version <= disk'

LEMMA MoveInv ==
  ASSUME Inv, NEW w \in Workers, NEW l, Moves(w, l)
  PROVE  Inv'
<1> USE DEF Moves
<1>1. /\ worker' \in [Workers -> Worker] /\ worker'[w] = l
      /\ \A x \in Workers : x # w => worker'[x] = worker[x]
      BY Types
<1>2. TypeOK'
  <2>1. \A x \in Workers : (worker'[x].inFlight # None) <=> (worker'[x].at \in {"saving", "saved"})
        BY <1>1 DEF Inv, TypeOK
  <2> QED BY <1>1, <2>1 DEF Inv, TypeOK
<1>3. OneWorker'
      BY <1>1 DEF Inv, OneWorker
<1>4. Fresh'
      BY <1>1 DEF Inv, Fresh
<1>5. Awaited'
      BY <1>1 DEF Inv, Awaited
<1>6. ASSUME NEW x \in Workers PROVE Ordered(worker[x])'
  <2>1. CASE x = w
        BY <1>1, <2>1 DEF Ordered, OrderedAt
  <2>2. CASE x # w
    <3>1. worker[x].at \in {"none", "over"} /\ worker[x].pending = None /\ Ordered(worker[x])
          BY <2>2 DEF Inv, OneWorker
    <3> QED BY <1>1, <2>2, <3>1 DEF Ordered, OrderedAt
  <2> QED BY <2>1, <2>2
<1>7. told' <= disk' /\ disk' <= clock'
      BY Types
<1> QED BY <1>2, <1>3, <1>4, <1>5, <1>6, <1>7 DEF Inv

LEMMA TakeInv ==
  ASSUME Inv, NEW w \in Workers, Take(w)
  PROVE  Inv'
<1> DEFINE k == worker[w]
           l == [k EXCEPT !.at = "saving", !.inFlight = k.pending, !.state = k.version,
                          !.pending = None, !.version = None]
<1>1. /\ k.at = "loop" /\ k.pending # None
      /\ worker' = [worker EXCEPT ![w].at = "saving", ![w].inFlight = k.pending,
                                  ![w].state = k.version,
                                  ![w].pending = None, ![w].version = None]
      /\ UNCHANGED <<clock, disk, cur, run, told>>
      BY DEF Take
<1>2. w = cur /\ k \in Worker /\ Ordered(k) /\ ~k.stopped
      BY <1>1, Living
<1>3. l \in Worker
  <2>1. k.version \in 0..MaxRuns /\ k.pending \in Nat /\ None \in 0..MaxRuns /\ None \in Nat
        BY <1>2, Fields, Types DEF None
  <2> QED BY <1>2, <2>1 DEF Worker
<1>4. /\ l.at = "saving" /\ l.inFlight = k.pending /\ l.state = k.version /\ l.pending = None
      /\ l.accepted = k.accepted /\ l.completed = k.completed /\ l.stopped = k.stopped
      BY <1>2 DEF Worker
<1>5. worker' = [worker EXCEPT ![w] = l]
      BY <1>1, <1>2, Types DEF Worker
<1> HIDE DEF l
<1>6. OrderedAt(l, disk', clock)
  <2>1. k.inFlight = None
        BY <1>1 DEF Inv, TypeOK
  <2>2. k.completed \in Nat /\ k.pending \in Nat /\ k.accepted \in Nat
        BY <1>2, Fields
  <2> QED BY <1>1, <1>2, <1>4, <2>1, <2>2 DEF Ordered, OrderedAt
<1>7. run.at \in {"ensuring", "submitting"} => k.version < clock /\ disk < clock
      BY <1>1 DEF Inv, Fresh
<1>8. run.at = "waiting" => /\ k.version = run.version
                            /\ k.completed >= run.seq => run.version <= disk
      BY <1>1, <1>2 DEF Inv, Awaited
<1>9. Moves(w, l)
  <2> HIDE DEF l
  <2>1. UNCHANGED <<clock, disk, cur, run, told>>
        BY <1>1
  <2>2. disk' \in 0..MaxRuns /\ disk <= disk' /\ disk' <= clock
        BY <2>1, Types
  <2>3. /\ w = cur /\ l \in Worker /\ worker' = [worker EXCEPT ![w] = l]
        /\ UNCHANGED <<clock, cur, run, told>>
        /\ disk' \in 0..MaxRuns /\ disk <= disk' /\ disk' <= clock
        BY <1>2, <1>3, <1>5, <2>1, <2>2
  <2>4. /\ (l.inFlight # None) <=> (l.at \in {"saving", "saved"})
        /\ l.at # "none"
        /\ l.at = "over" <=> l.stopped
        /\ l.at = "over" => l.pending = None
        /\ l.accepted = worker[w].accepted
        BY <1>1, <1>2, <1>3, <1>4, <1>5, <1>6, <1>7, <1>8
  <2>5. run.at \in {"ensuring", "submitting"} =>
          /\ disk' < clock
          /\ l.pending # None => l.version < clock
          /\ l.at = "saving" => l.state < clock
        BY <1>1, <1>2, <1>3, <1>4, <1>5, <1>6, <1>7, <1>8
  <2>6. run.at = "waiting" =>
          /\ l.pending # None => l.version = run.version
          /\ l.inFlight = run.seq => l.state = run.version
          /\ l.completed >= run.seq => run.version <= disk'
        BY <1>1, <1>2, <1>3, <1>4, <1>5, <1>6, <1>7, <1>8
  <2>7. OrderedAt(l, disk', clock)
        BY <1>1, <1>2, <1>3, <1>4, <1>5, <1>6, <1>7, <1>8
  <2> QED BY <2>3, <2>4, <2>5, <2>6, <2>7 DEF Moves
<1> HIDE DEF l
<1> QED BY <1>9, MoveInv

LEMMA SaveInv ==
  ASSUME Inv, NEW w \in Workers, SaveRenames(w)
  PROVE  Inv'
<1> DEFINE k == worker[w]
           l == [k EXCEPT !.at = "saved"]
<1>1. /\ k.at = "saving" /\ disk' = k.state
      /\ worker' = [worker EXCEPT ![w].at = "saved"]
      /\ UNCHANGED <<clock, cur, run, told>>
      BY DEF SaveRenames
<1>2. w = cur /\ k \in Worker /\ Ordered(k) /\ ~k.stopped
      BY <1>1, Living
<1>3. l \in Worker
      BY <1>2 DEF Worker
<1>4. /\ l.at = "saved" /\ l.inFlight = k.inFlight /\ l.state = k.state /\ l.pending = k.pending
      /\ l.accepted = k.accepted /\ l.completed = k.completed /\ l.stopped = k.stopped
      /\ l.version = k.version
      BY <1>2 DEF Worker
<1>5. worker' = [worker EXCEPT ![w] = l]
      BY <1>1, <1>2, Types DEF Worker
<1> HIDE DEF l
<1>6. disk < disk' /\ disk' <= clock /\ disk' \in 0..MaxRuns
      BY <1>1, <1>2, Fields DEF Ordered, OrderedAt
<1>7. OrderedAt(l, disk', clock)
      BY <1>1, <1>2, <1>4, <1>6, Fields DEF Ordered, OrderedAt
<1>8. run.at \in {"ensuring", "submitting"} => /\ k.pending # None => k.version < clock
                                               /\ disk' < clock
      BY <1>1 DEF Inv, Fresh
<1>9. run.at = "waiting" => /\ k.pending # None => k.version = run.version
                            /\ k.inFlight = run.seq => k.state = run.version
                            /\ k.completed >= run.seq => run.version <= disk'
      BY <1>2, <1>6, Types DEF Inv, Awaited, Running
<1>10. k.inFlight # None
       BY <1>1 DEF Inv, TypeOK
<1>11. Moves(w, l)
  <2> HIDE DEF l
  <2>1. UNCHANGED <<clock, cur, run, told>>
        BY <1>1
  <2>2. disk' \in 0..MaxRuns /\ disk <= disk' /\ disk' <= clock
        BY <1>6, <2>1, Types
  <2>3. /\ w = cur /\ l \in Worker /\ worker' = [worker EXCEPT ![w] = l]
        /\ UNCHANGED <<clock, cur, run, told>>
        /\ disk' \in 0..MaxRuns /\ disk <= disk' /\ disk' <= clock
        BY <1>2, <1>3, <1>5, <2>1, <2>2
  <2>4. /\ (l.inFlight # None) <=> (l.at \in {"saving", "saved"})
        /\ l.at # "none"
        /\ l.at = "over" <=> l.stopped
        /\ l.at = "over" => l.pending = None
        /\ l.accepted = worker[w].accepted
        BY <1>1, <1>2, <1>3, <1>4, <1>5, <1>6, <1>7, <1>8, <1>9, <1>10
  <2>5. run.at \in {"ensuring", "submitting"} =>
          /\ disk' < clock
          /\ l.pending # None => l.version < clock
          /\ l.at = "saving" => l.state < clock
        BY <1>1, <1>2, <1>3, <1>4, <1>5, <1>6, <1>7, <1>8, <1>9, <1>10
  <2>6. run.at = "waiting" =>
          /\ l.pending # None => l.version = run.version
          /\ l.inFlight = run.seq => l.state = run.version
          /\ l.completed >= run.seq => run.version <= disk'
        BY <1>1, <1>2, <1>3, <1>4, <1>5, <1>6, <1>7, <1>8, <1>9, <1>10
  <2>7. OrderedAt(l, disk', clock)
        BY <1>1, <1>2, <1>3, <1>4, <1>5, <1>6, <1>7, <1>8, <1>9, <1>10
  <2> QED BY <2>3, <2>4, <2>5, <2>6, <2>7 DEF Moves
<1> HIDE DEF l
<1> QED BY <1>11, MoveInv

LEMMA RecordInv ==
  ASSUME Inv, NEW w \in Workers, RecordSaved(w) \/ RecordFailed(w)
  PROVE  Inv'
<1> DEFINE k == worker[w]
<1>1. /\ k.at \in {"saving", "saved"} /\ k.inFlight # None
      /\ UNCHANGED <<clock, disk, cur, run, told>>
      BY DEF RecordSaved, RecordFailed, Inv, TypeOK
<1>2. w = cur /\ k \in Worker /\ Ordered(k) /\ ~k.stopped
      BY <1>1, Living
<1>3. PICK l \in Worker :
        /\ worker' = [worker EXCEPT ![w] = l]
        /\ l.at = "loop" /\ l.inFlight = None /\ l.pending = k.pending /\ l.version = k.version
        /\ l.accepted = k.accepted /\ l.stopped = k.stopped
        /\ \/ k.at = "saved" /\ l.completed = k.inFlight
           \/ l.completed = k.completed
  <2>1. CASE RecordSaved(w)
    <3> DEFINE l == [k EXCEPT !.at = "loop", !.completed = k.inFlight, !.inFlight = None,
                              !.state = None, !.lastError = FALSE]
    <3>1. l \in Worker
      <4>1. k.inFlight \in Nat /\ None \in 0..MaxRuns /\ None \in Nat
            BY <1>2, Fields, Types DEF None
      <4> QED BY <1>2, <4>1 DEF Worker
    <3>2. worker' = [worker EXCEPT ![w] = l] /\ k.at = "saved"
          BY <1>2, <2>1, Types DEF RecordSaved, Worker
    <3>3. /\ l.at = "loop" /\ l.inFlight = None /\ l.pending = k.pending /\ l.version = k.version
          /\ l.accepted = k.accepted /\ l.stopped = k.stopped /\ l.completed = k.inFlight
          BY <1>2 DEF Worker
    <3> HIDE DEF l
    <3> QED BY <3>1, <3>2, <3>3
  <2>2. CASE RecordFailed(w)
    <3> DEFINE l == [k EXCEPT !.at = "loop", !.failed = k.inFlight, !.inFlight = None,
                              !.state = None, !.lastError = TRUE]
    <3>1. l \in Worker
      <4>1. k.inFlight \in Nat /\ None \in 0..MaxRuns /\ None \in Nat
            BY <1>2, Fields, Types DEF None
      <4> QED BY <1>2, <4>1 DEF Worker
    <3>2. worker' = [worker EXCEPT ![w] = l]
          BY <1>2, <2>2, Types DEF RecordFailed, Worker
    <3>3. /\ l.at = "loop" /\ l.inFlight = None /\ l.pending = k.pending /\ l.version = k.version
          /\ l.accepted = k.accepted /\ l.stopped = k.stopped /\ l.completed = k.completed
          BY <1>2 DEF Worker
    <3> HIDE DEF l
    <3> QED BY <3>1, <3>2, <3>3
  <2> QED BY <2>1, <2>2
<1>4. k.inFlight \in Nat /\ k.completed \in Nat /\ k.pending \in Nat /\ k.accepted \in Nat
      BY <1>2, Fields
<1>5. OrderedAt(l, disk', clock)
      BY <1>1, <1>2, <1>3, <1>4 DEF Ordered, OrderedAt, None
<1>6. run.at \in {"ensuring", "submitting"} => /\ k.pending # None => k.version < clock
                                               /\ disk < clock
      BY <1>1 DEF Inv, Fresh
<1>7. run.at = "waiting" =>
        /\ run.seq = k.accepted /\ run.seq # None
        /\ k.pending # None => k.version = run.version
        /\ l.completed >= run.seq => run.version <= disk
  <2>1. SUFFICES ASSUME run.at = "waiting"
                 PROVE  /\ run.seq = k.accepted /\ run.seq # None
                        /\ k.pending # None => k.version = run.version
                        /\ l.completed >= run.seq => run.version <= disk
        OBVIOUS
  <2>2. /\ run.seq = k.accepted
        /\ k.pending # None => k.version = run.version
        /\ k.inFlight = run.seq => k.state = run.version
        /\ k.completed >= run.seq => run.version <= disk
        BY <1>2, <2>1 DEF Inv, Awaited
  <2>3. k.inFlight <= k.accepted /\ run.seq # None
        BY <1>1, <1>2, <1>4, <2>2 DEF Ordered, OrderedAt, None
  <2>4. k.at = "saved" => k.state = disk
        BY <1>2 DEF Ordered, OrderedAt
  <2> QED BY <1>3, <1>4, <2>2, <2>3, <2>4, Types DEF Running
<1>8. Moves(w, l)
  <2> QED BY <1>1, <1>2, <1>3, <1>5, <1>6, <1>7, Types DEF Moves
<1> QED BY <1>8, MoveInv

LEMMA EndInv ==
  ASSUME Inv, NEW w \in Workers, Stopped(w) \/ Panic(w)
  PROVE  Inv'
<1> DEFINE k == worker[w]
<1>1. k.at = "loop" /\ k.inFlight = None /\ UNCHANGED <<clock, disk, cur, run, told>>
      BY DEF Stopped, Panic, Inv, TypeOK
<1>2. w = cur /\ k \in Worker /\ Ordered(k)
      BY <1>1, Living
<1>3. PICK l \in Worker :
        /\ worker' = [worker EXCEPT ![w] = l]
        /\ l.at = "over" /\ l.inFlight = None /\ l.pending = None /\ l.stopped
        /\ l.accepted = k.accepted /\ l.completed = k.completed /\ l.state = k.state
  <2>1. CASE Stopped(w)
    <3> DEFINE l == [k EXCEPT !.at = "over", !.stopped = TRUE]
    <3>1. l \in Worker
          BY <1>2 DEF Worker
    <3>2. worker' = [worker EXCEPT ![w] = l] /\ k.pending = None
          BY <1>2, <2>1, Types DEF Stopped, Worker
    <3>3. /\ l.at = "over" /\ l.inFlight = k.inFlight /\ l.pending = k.pending /\ l.stopped
          /\ l.accepted = k.accepted /\ l.completed = k.completed /\ l.state = k.state
          BY <1>2 DEF Worker
    <3> HIDE DEF l
    <3> QED BY <1>1, <3>1, <3>2, <3>3
  <2>2. CASE Panic(w)
    <3> DEFINE lastFailed == IF k.pending # None THEN k.pending ELSE k.failed
               l == [k EXCEPT !.at = "over", !.stopping = TRUE, !.stopped = TRUE,
                              !.failed = lastFailed, !.pending = None, !.version = None,
                              !.lastError = TRUE]
    <3>1. lastFailed \in Nat /\ None \in 0..MaxRuns /\ None \in Nat
          BY <1>2, Fields, Types DEF None
    <3>2. worker' = [worker EXCEPT ![w] = l]
          BY <1>2, <2>2, Types DEF Panic, Worker
    <3> HIDE DEF lastFailed
    <3>3. l \in Worker
          BY <1>2, <3>1 DEF Worker
    <3>4. /\ l.at = "over" /\ l.inFlight = k.inFlight /\ l.pending = None /\ l.stopped
          /\ l.accepted = k.accepted /\ l.completed = k.completed /\ l.state = k.state
          BY <1>2 DEF Worker
    <3> HIDE DEF l
    <3> QED BY <1>1, <3>2, <3>3, <3>4
  <2> QED BY <2>1, <2>2
<1>4. OrderedAt(l, disk', clock)
      BY <1>1, <1>2, <1>3 DEF Ordered, OrderedAt, None
<1>5. run.at \in {"ensuring", "submitting"} => disk < clock
      BY DEF Inv, Fresh
<1>6. run.at = "waiting" => /\ l.inFlight = run.seq => l.state = run.version
                            /\ l.completed >= run.seq => run.version <= disk
  <2>1. ASSUME run.at = "waiting"
        PROVE  /\ run.seq = k.accepted
               /\ k.inFlight = run.seq => k.state = run.version
               /\ k.completed >= run.seq => run.version <= disk
        BY <1>2, <2>1 DEF Inv, Awaited
  <2> QED BY <1>1, <1>3, <2>1
<1>7. Moves(w, l)
      BY <1>1, <1>2, <1>3, <1>4, <1>5, <1>6, Types DEF Moves
<1> QED BY <1>7, MoveInv

LEMMA CrashInv ==
  ASSUME Inv, Crash
  PROVE  Inv'
<1>1. /\ clock' = disk /\ cur' = None /\ run' = noRun /\ UNCHANGED <<disk, told>>
      /\ worker' = [w \in Workers |-> noWorker]
      BY DEF Crash
<1>2. noWorker \in Worker
      BY Types DEF noWorker, Worker, None
<1>3. worker' \in [Workers -> Worker] /\ \A w \in Workers : worker'[w] = noWorker
      BY <1>1, <1>2
<1>4. TypeOK'
      BY <1>1, <1>3, Types DEF TypeOK, Running, noWorker, None
<1>5. OneWorker'
      BY <1>1, <1>3 DEF OneWorker, noWorker
<1>6. Fresh' /\ Awaited'
      BY <1>1 DEF Fresh, Awaited, noRun
<1>7. \A w \in Workers : Ordered(worker[w])'
      BY <1>3 DEF Ordered, OrderedAt, noWorker, None
<1> QED BY <1>1, <1>4, <1>5, <1>6, <1>7, Types DEF Inv

LEMMA NextInv == Inv /\ [Next]_vars => Inv'
<1> SUFFICES ASSUME Inv, [Next]_vars PROVE Inv'
    OBVIOUS
<1>1. ASSUME NEW direct \in BOOLEAN, SnapshotState(direct) PROVE Inv'
      BY <1>1, SnapshotInv
<1>2. CASE RunStep
      BY <1>2, EnsureInv, SubmitInv, StopInv, WaitInv DEF RunStep
<1>3. CASE GiveUp \/ DaemonStops
      BY <1>3, StopInv
<1>4. ASSUME NEW w \in Workers, Save(w) \/ Panic(w) PROVE Inv'
      BY <1>4, TakeInv, SaveInv, RecordInv, EndInv DEF Save
<1>5. CASE Crash
      BY <1>5, CrashInv
<1>6. CASE UNCHANGED vars
      BY <1>6 DEF vars, Inv, TypeOK, OneWorker, Fresh, Awaited, Ordered, OrderedAt
<1> QED BY <1>1, <1>2, <1>3, <1>4, <1>5, <1>6 DEF Next

\* The inductive invariant holds in every behaviour.
THEOREM Invariance == Spec => []Inv
  BY InitInv, NextInv, PTL DEF Spec

(***************************************************************************)
(* The theorems.                                                           *)
(***************************************************************************)
\* Every variable has its type, and a save is in flight exactly while one is.
THEOREM TypeCorrect == Spec => []TypeOK
<1>1. Inv => TypeOK
      BY DEF Inv
<1> QED BY <1>1, Invariance, PTL

\* Once Wait has told a direct run that its state is saved, no later save,
\* failed save, panic, new worker or crash leaves an older one in the file.
THEOREM SavedStaysSaved == Spec => []ToldIsSaved
<1>1. Inv => ToldIsSaved
      BY DEF Inv, ToldIsSaved
<1> QED BY <1>1, Invariance, PTL

(***************************************************************************)
(* The refinement: the cache file is a register that only advances.        *)
(***************************************************************************)
Held(k) ==
  IF k.pending # None THEN k.version ELSE IF k.at = "saving" THEN k.state ELSE disk

LEMMA NewestIs == Newest = IF cur = None THEN disk ELSE Held(worker[cur])
  BY DEF Newest, Held

LEMMA NewestBounds ==
  ASSUME Inv
  PROVE  /\ Newest \in Nat /\ disk \in Nat /\ disk <= Newest
         /\ run.at \in {"ensuring", "submitting"} => Newest < run.version
<1>1. disk \in Nat /\ clock \in Nat
      BY Types
<1>2. CASE cur = None
      BY <1>1, <1>2 DEF Newest, Inv, Fresh
<1>3. CASE cur # None
  <2>1. cur \in Workers /\ worker[cur] \in Worker /\ Ordered(worker[cur])
        BY <1>3, Types DEF Inv
  <2>2. worker[cur].version \in Nat /\ worker[cur].state \in Nat
        BY <2>1, Fields, Types
  <2> QED BY <1>1, <1>3, <2>1, <2>2 DEF Newest, Ordered, OrderedAt, Inv, Fresh
<1> QED BY <1>2, <1>3

LEMMA InitRegister == Init => Register!Init
  BY DEF Init, Register!Init, Newest, None

\* Steps that leave what the current worker holds, and the file.
LEMMA Stutters ==
  ASSUME Inv, UNCHANGED <<cur, disk>>,
         cur # None => SameButFlags(worker'[cur], worker[cur])
  PROVE  UNCHANGED <<Newest, disk>>
  BY DEF Newest, SameButFlags

LEMMA RunRefines ==
  ASSUME Inv, RunStep \/ GiveUp \/ DaemonStops \/ \E d \in BOOLEAN : SnapshotState(d)
  PROVE  [Register!Next]_<<Newest, disk>>
<1>1. CASE Ensure
  <2>1. CASE cur = None \/ worker[cur].stopped
    <3> DEFINE c == cur + 1
    <3>1. /\ cur < MaxWorkers /\ cur' = c /\ disk' = disk
          /\ worker' = [worker EXCEPT ![c] = [noWorker EXCEPT !.at = "loop"]]
          BY <1>1, <2>1 DEF Ensure
    <3>2. c \in Workers /\ c # None
          BY <3>1, Types, CacheAssumption DEF Workers, None
    <3>3. worker'[c] = [noWorker EXCEPT !.at = "loop"]
          BY <3>1, <3>2, Types
    <3>4. Newest' = disk'
      <4>1. worker'[c].pending = None /\ worker'[c].at = "loop"
            BY <3>3 DEF noWorker
      <4> HIDE DEF c
      <4> QED BY <3>1, <3>2, <4>1 DEF Newest
    <3>5. Newest = disk
      <4>1. cur # None => cur \in Workers /\ worker[cur].at = "over" /\ worker[cur].pending = None
            BY <2>1, Types DEF Inv, OneWorker
      <4> QED BY <4>1 DEF Newest
    <3> QED BY <3>1, <3>4, <3>5
  <2>2. CASE ~(cur = None \/ worker[cur].stopped)
        BY <1>1, <2>2 DEF Ensure, Newest
  <2> QED BY <2>1, <2>2
<1>2. CASE Submit
  <2> DEFINE k   == worker[cur]
             seq == k.accepted + 1
             l   == [k EXCEPT !.accepted = seq, !.pending = seq, !.version = run.version]
  <2>1. /\ cur # None /\ cur \in Workers /\ k \in Worker /\ k.accepted \in Nat
        BY <1>2, Types, Fields DEF Submit, Inv, Awaited
  <2>2. /\ disk' = disk /\ cur' = cur
        /\ worker' = [worker EXCEPT ![cur] = l]
        BY <1>2, <2>1, Types DEF Submit, Worker
  <2>3. worker'[cur] = l
        BY <2>1, <2>2, Types
  <2>4. l.pending = seq /\ l.version = run.version /\ seq # None
        BY <2>1 DEF Worker, None
  <2> HIDE DEF l, seq
  <2>5. Newest' = run.version
        BY <2>1, <2>2, <2>3, <2>4 DEF Newest
  <2>6. Newest < run.version /\ run.version \in Nat
        BY <1>2, NewestBounds, Types DEF Submit, Running
  <2>7. Register!HandOver
        BY <2>2, <2>5, <2>6 DEF Register!HandOver
  <2> QED BY <2>7 DEF Register!Next
<1>3. CASE SubmitRefused \/ GiveUp \/ StopAsked \/ DaemonStops
  <2>1. cur # None /\ UNCHANGED <<cur, disk>>
        BY <1>3 DEF Inv, Awaited, SubmitRefused, GiveUp, StopAsked, DaemonStops
  <2>2. cur \in Workers /\ worker[cur] \in Worker /\ worker \in [Workers -> Worker]
        BY <2>1, Types
  <2>3. SameButFlags(worker'[cur], worker[cur])
    <3>1. CASE SubmitRefused
          BY <2>2, <3>1 DEF SubmitRefused, SameButFlags, Worker
    <3>2. CASE GiveUp
          BY <2>2, <3>2 DEF GiveUp, SameButFlags, Worker
    <3>3. CASE StopAsked \/ DaemonStops
          BY <2>2, <3>3 DEF StopAsked, DaemonStops, SameButFlags, Worker
    <3> QED BY <1>3, <3>1, <3>2, <3>3
  <2> QED BY <2>1, <2>3, Stutters
<1>4. CASE WaitSaved \/ WaitFailed \/ StopReturns \/ \E d \in BOOLEAN : SnapshotState(d)
      BY <1>4 DEF WaitSaved, WaitFailed, StopReturns, SnapshotState, Newest
<1> QED BY <1>1, <1>2, <1>3, <1>4 DEF RunStep

LEMMA SaveRefines ==
  ASSUME Inv, NEW w \in Workers, Save(w) \/ Panic(w)
  PROVE  [Register!Next]_<<Newest, disk>>
<1> DEFINE k == worker[w]
<1>1. /\ w = cur /\ cur' = cur /\ k \in Worker /\ Ordered(k) /\ cur # None
      /\ worker \in [Workers -> Worker]
      BY Living, Types DEF Save, Take, SaveRenames, RecordSaved, RecordFailed, Stopped, Panic
<1>2. Newest = Held(k)
      BY <1>1, NewestIs
<1>3. disk \in Nat /\ Newest \in Nat /\ disk <= Newest /\ k.state \in Nat /\ k.version \in Nat
      BY <1>1, NewestBounds, Fields, Types
<1>4. CASE Take(w)
  <2>1. /\ worker'[w].pending = None /\ worker'[w].at = "saving"
        /\ worker'[w].state = k.version /\ disk' = disk /\ k.pending # None
        BY <1>1, <1>4 DEF Take, Worker
  <2>2. Newest' = Newest
        BY <1>1, <1>2, <2>1 DEF Newest, Held
  <2> QED BY <2>1, <2>2
<1>5. CASE SaveRenames(w)
  <2>1. /\ worker'[w].pending = k.pending /\ worker'[w].at = "saved"
        /\ worker'[w].version = k.version /\ disk' = k.state /\ k.at = "saving"
        BY <1>1, <1>5 DEF SaveRenames, Worker
  <2>2. disk < k.state /\ (k.pending # None => k.state < k.version)
        BY <1>1, <2>1 DEF Ordered, OrderedAt
  <2>3. Newest' = Newest
        BY <1>1, <1>2, <2>1 DEF Newest, Held
  <2>4. k.state <= Newest
        BY <1>2, <1>3, <2>1, <2>2 DEF Held
  <2>5. Register!Store
        BY <1>3, <2>1, <2>2, <2>3, <2>4 DEF Register!Store
  <2> QED BY <2>5 DEF Register!Next
<1>6. CASE RecordSaved(w) \/ Stopped(w)
  <2>1. /\ worker'[w].pending = k.pending /\ worker'[w].version = k.version /\ disk' = disk
        /\ k.at # "saving" /\ worker'[w].at # "saving"
        BY <1>1, <1>6 DEF RecordSaved, Stopped, Worker
  <2>2. Newest' = Newest
        BY <1>1, <1>2, <2>1 DEF Newest, Held
  <2> QED BY <2>1, <2>2
<1>7. CASE RecordFailed(w) \/ Panic(w)
  <2>1. disk' = disk /\ worker'[w].at # "saving"
        BY <1>1, <1>7 DEF RecordFailed, Panic, Worker
  <2>2. \/ worker'[w].pending = None
        \/ worker'[w].pending = k.pending /\ worker'[w].version = k.version
    <3>1. CASE RecordFailed(w)
          BY <1>1, <3>1 DEF RecordFailed, Worker
    <3>2. CASE Panic(w)
          BY <1>1, <3>2 DEF Panic, Worker
    <3> QED BY <1>7, <3>1, <3>2
  <2>3. Newest' = disk' \/ Newest' = Newest
        BY <1>1, <1>2, <2>1, <2>2 DEF Newest, Held
  <2> QED BY <2>1, <2>3 DEF Register!Next, Register!Lose
<1> QED BY <1>4, <1>5, <1>6, <1>7 DEF Save

\* The cache file implements the register: it advances to states that were
\* handed over, or stays, whatever fails, panics or crashes.
THEOREM Refinement == Spec => OnlyAdvances
<1>1. ASSUME Inv, [Next]_vars
      PROVE  [Register!Next]_<<Newest, disk>>
  <2>1. CASE Crash
    <3>1. disk' = disk /\ cur' = None
          BY <2>1 DEF Crash
    <3>2. Newest' = disk
          BY <3>1 DEF Newest
    <3> QED BY <3>1, <3>2 DEF Register!Next, Register!Lose
  <2>2. CASE UNCHANGED vars
        BY <2>2 DEF vars, Newest
  <2>3. CASE RunStep \/ GiveUp \/ DaemonStops \/ \E d \in BOOLEAN : SnapshotState(d)
        BY <1>1, <2>3, RunRefines
  <2>4. CASE \E w \in Workers : Save(w) \/ Panic(w)
        BY <1>1, <2>4, SaveRefines
  <2> QED BY <1>1, <2>1, <2>2, <2>3, <2>4 DEF Next
<1> QED BY <1>1, InitRegister, Invariance, PTL DEF Spec, OnlyAdvances, Register!Spec
=============================================================================
