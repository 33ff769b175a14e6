------------------------ MODULE DownloadQueueProofs ------------------------
(***************************************************************************)
(* Proofs about DownloadQueue, for every set of names, every acyclic       *)
(* dependency between them, and every number of workers; and about the     *)
(* choice of the item that starts (QueueChoice), for every queue.          *)
(***************************************************************************)
EXTENDS DownloadQueue, QueueChoice, TLAPS

(***************************************************************************)
(* Merging and the operations on the queue.                                *)
(***************************************************************************)
\* A merged item is an item, is forced if one of the two was, and stays
\* recovered work.
LEMMA MergeKeeps ==
  ASSUME NEW x \in Slots, NEW y \in Items
  PROVE  /\ Merge(x, y) \in Items
         /\ Merge(x, y) # NoItem
         /\ x.force \/ y.force => Merge(x, y).force
         /\ x.kind = "recovered" => Merge(x, y).kind = "recovered"
  BY DEF Slots, Items, NoItem, Merge

\* A feed that waits is not being downloaded.
Disjoint == Waiting \cap Active = {}

Inv ==
  /\ TypeOK
  /\ Disjoint
  /\ NoStrandedRefetch
  /\ ForceKept
  /\ RecoveredFirst
  /\ NoLostWakeUp

LEMMA InitInv == Init => Inv
  BY QueueAssumption DEF QueueAssumption, Init, Inv, TypeOK, Disjoint, NoStrandedRefetch, ForceKept,
     RecoveredFirst, NoLostWakeUp, Waiting, Active, Pending, Slots, Items, NoItem

\* Admission loses nothing; the types, the refetches, the forced requests and
\* the recovered work are as they should be.
LEMMA EnqueueKeeps ==
  ASSUME Inv, NEW n \in Names, NEW item \in Items, Enqueue(n, item),
         UNCHANGED <<active, unrecovered>>
  PROVE  /\ waiting' \in [Names -> Slots] /\ pending' \in [Names -> Slots] /\ owed' \in SUBSET Names
         /\ Active' = Active /\ Disjoint'
         /\ Waiting \subseteq Waiting'
         /\ \A m \in Pending' : m \in Pending \/ m \in Active
         /\ ForceKept' /\ RecoveredFirst'
<1> USE DEF Inv
<1>1. /\ waiting[n] \in Slots /\ pending[n] \in Slots
      /\ Merge(waiting[n], item) \in Items /\ Merge(pending[n], item) \in Items
      /\ Merge(waiting[n], item) # NoItem
      /\ Merge(waiting[n], item) \in Slots /\ Merge(pending[n], item) \in Slots
      BY MergeKeeps DEF TypeOK, Slots
<1>2. /\ waiting[n].force \/ item.force => Merge(waiting[n], item).force
      /\ pending[n].force \/ item.force => Merge(pending[n], item).force
      /\ waiting[n].kind = "recovered" => Merge(waiting[n], item).kind = "recovered"
      BY <1>1, MergeKeeps
<1>3. CASE n \in Active \ Waiting
  <2>1. /\ pending' = [pending EXCEPT ![n] = Merge(@, item)] /\ waiting' = waiting
        /\ owed' = IF item.force THEN owed \cup {n} ELSE owed
        BY <1>3 DEF Enqueue
  <2>2. /\ waiting' \in [Names -> Slots] /\ pending' \in [Names -> Slots]
        /\ owed' \in SUBSET Names
        BY <1>1, <2>1 DEF TypeOK
  <2>3. Active' = Active /\ Waiting' = Waiting /\ Disjoint'
        BY <2>1 DEF Active, Waiting, Disjoint
  <2>4. \A m \in Pending' : m \in Pending \/ m \in Active
        BY <1>3, <2>1 DEF Pending, TypeOK
  <2>5. ForceKept'
        BY <1>2, <2>1 DEF ForceKept, TypeOK
  <2>6. RecoveredFirst'
        BY <2>1 DEF RecoveredFirst
  <2> QED BY <2>2, <2>3, <2>4, <2>5, <2>6
<1>4. CASE n \notin Active \ Waiting
  <2>1. /\ waiting' = [waiting EXCEPT ![n] = Merge(@, item)] /\ pending' = pending
        /\ owed' = IF item.force THEN owed \cup {n} ELSE owed
        BY <1>4 DEF Enqueue
  <2>2. /\ waiting' \in [Names -> Slots] /\ pending' \in [Names -> Slots]
        /\ owed' \in SUBSET Names
        BY <1>1, <2>1 DEF TypeOK
  <2>3. Waiting' = Waiting \cup {n}
        BY <1>1, <2>1 DEF Waiting, TypeOK
  <2>4. Active' = Active /\ Disjoint'
        BY <1>4, <2>3 DEF Active, Disjoint
  <2>5. \A m \in Pending' : m \in Pending \/ m \in Active
        BY <2>1 DEF Pending
  <2>6. ForceKept'
        BY <1>2, <2>1 DEF ForceKept, TypeOK
  <2>7. RecoveredFirst'
        BY <1>2, <2>1 DEF RecoveredFirst, TypeOK
  <2> QED BY <2>2, <2>3, <2>4, <2>5, <2>6, <2>7
<1> QED BY <1>3, <1>4

\* So does a release; afterwards the feed's refetch is not left behind.
LEMMA ReleaseKeeps ==
  ASSUME Inv, NEW n \in Names, Release(n), UNCHANGED <<active, owed, unrecovered>>
  PROVE  /\ waiting' \in [Names -> Slots] /\ pending' \in [Names -> Slots]
         /\ Active' = Active /\ Disjoint'
         /\ Waiting \subseteq Waiting'
         /\ Pending' \subseteq Pending
         /\ n \in Pending' => n \in Waiting' \cup Active'
         /\ ForceKept' /\ RecoveredFirst'
<1> USE DEF Inv
<1>1. CASE n \in Pending \ (Waiting \cup Active)
  <2>1. /\ waiting' = [waiting EXCEPT ![n] = pending[n]]
        /\ pending' = [pending EXCEPT ![n] = NoItem]
        /\ waiting[n] = NoItem /\ active[n] = NoItem /\ pending[n] # NoItem
        BY <1>1 DEF Release, Waiting, Active, Pending
  <2>2. /\ waiting' \in [Names -> Slots] /\ pending' \in [Names -> Slots]
        BY <2>1 DEF TypeOK, Slots
  <2>3. Waiting' = Waiting \cup {n} /\ Pending' = Pending \ {n}
        BY <2>1 DEF Waiting, Pending, TypeOK
  <2>4. Active' = Active /\ Disjoint'
        BY <1>1, <2>3 DEF Active, Disjoint
  <2>5. ForceKept'
        BY <2>1 DEF ForceKept, TypeOK, NoItem
  <2>6. RecoveredFirst'
        BY <2>1 DEF RecoveredFirst, TypeOK, NoItem
  <2> QED BY <2>2, <2>3, <2>4, <2>5, <2>6
<1>2. CASE n \notin Pending \ (Waiting \cup Active)
  <2>1. UNCHANGED <<waiting, pending>>
        BY <1>2 DEF Release
  <2> QED BY <1>2, <2>1 DEF TypeOK, Waiting, Active, Pending, Disjoint, ForceKept, RecoveredFirst
<1> QED BY <1>1, <1>2

(***************************************************************************)
(* The steps.                                                              *)
(***************************************************************************)
\* Requests: by the fetch loop, by a worker with a corrupt artifact, by the
\* action loop.
LEMMA RequestInv ==
  ASSUME Inv, NEW n \in Names, NEW force \in BOOLEAN,
         Due(n, force) \/ RequestFetch(n) \/ Action(n, force)
  PROVE  Inv'
<1> USE DEF Inv
<1>1. Normal(force) \in Items /\ Normal(TRUE) \in Items
      BY DEF Normal, Items
<1>2. PICK item \in Items : Enqueue(n, item) /\ UNCHANGED <<active, unrecovered>>
      BY <1>1 DEF Due, RequestFetch, Action
<1>3. /\ waiting' \in [Names -> Slots] /\ pending' \in [Names -> Slots] /\ owed' \in SUBSET Names
      /\ Active' = Active /\ Disjoint' /\ Waiting \subseteq Waiting'
      /\ \A m \in Pending' : m \in Pending \/ m \in Active
      /\ ForceKept' /\ RecoveredFirst'
      BY <1>2, EnqueueKeeps
<1>4. TypeOK'
      BY <1>2, <1>3 DEF Due, RequestFetch, Action, TypeOK
<1>5. \A m \in Names : tail[m] \in {"corrupt", "finished"} => tail'[m] \in {"corrupt", "finished"}
      BY DEF Due, RequestFetch, Action, TypeOK
<1>6. NoStrandedRefetch'
  <2> SUFFICES ASSUME NEW m \in Pending'
               PROVE  m \in Waiting' \cup Active' \/ tail'[m] \in {"corrupt", "finished"}
      BY DEF NoStrandedRefetch
  <2>1. m \in Names
        BY DEF Pending
  <2> QED BY <1>3, <1>5, <2>1 DEF NoStrandedRefetch
<1>7. \/ loop' # "sleep"
      \/ wakers' # {}
      \/ tail'[n] # "none"
      BY DEF Due, RequestFetch, Action, TypeOK
<1> QED BY <1>3, <1>4, <1>6, <1>7 DEF NoLostWakeUp

\* Releases: by a worker that ends, and after a processing batch.
LEMMA ReleaseInv ==
  ASSUME Inv, NEW n \in Names, ReleaseRefetch(n) \/ BatchReleases(n)
  PROVE  Inv'
<1> USE DEF Inv
<1>1. Release(n) /\ UNCHANGED <<active, owed, unrecovered, loop, token>>
      BY DEF ReleaseRefetch, BatchReleases
<1>2. /\ waiting' \in [Names -> Slots] /\ pending' \in [Names -> Slots]
      /\ Active' = Active /\ Disjoint' /\ Waiting \subseteq Waiting'
      /\ Pending' \subseteq Pending
      /\ n \in Pending' => n \in Waiting' \cup Active'
      /\ ForceKept' /\ RecoveredFirst'
      BY <1>1, ReleaseKeeps
<1>3. TypeOK'
      BY <1>1, <1>2 DEF ReleaseRefetch, BatchReleases, TypeOK
<1>4. \A m \in Names \ {n} : tail'[m] = tail[m]
      BY DEF ReleaseRefetch, BatchReleases, TypeOK
<1>5. NoStrandedRefetch'
  <2> SUFFICES ASSUME NEW m \in Pending', m # n
               PROVE  m \in Waiting' \cup Active' \/ tail'[m] \in {"corrupt", "finished"}
      BY <1>2 DEF NoStrandedRefetch
  <2>1. m \in Names
        BY DEF Pending
  <2> QED BY <1>2, <1>4, <2>1 DEF NoStrandedRefetch
<1>6. wakers' # {} \/ tail'[n] # "none"
      BY DEF ReleaseRefetch, BatchReleases, TypeOK
<1> QED BY <1>2, <1>3, <1>5, <1>6 DEF NoLostWakeUp

\* A feed moves from waiting to active, and leaves active when it is done.
LEMMA WorkInv ==
  ASSUME Inv, NEW n \in Names, Start(n) \/ Finish(n)
  PROVE  Inv'
<1> USE DEF Inv
<1>1. CASE Start(n)
  <2>1. /\ waiting' = [waiting EXCEPT ![n] = NoItem]
        /\ active'  = [active EXCEPT ![n] = waiting[n]]
        /\ loop' = "dispatched"
        /\ owed' = IF waiting[n].force THEN owed \ {n} ELSE owed
        /\ UNCHANGED <<pending, tail, token, wakers, unrecovered>>
        /\ n \in Waiting
        BY <1>1 DEF Start, MayStart
  <2>2. waiting[n] # NoItem /\ active[n] = NoItem
        BY <2>1 DEF Disjoint, Waiting, Active
  <2>3. /\ Waiting' = Waiting \ {n} /\ Active' = Active \cup {n} /\ Pending' = Pending
        BY <2>1, <2>2 DEF Waiting, Active, Pending, TypeOK
  <2>4. TypeOK'
        BY <2>1 DEF TypeOK, Slots
  <2>5. Disjoint'
        BY <2>3 DEF Disjoint
  <2>6. NoStrandedRefetch'
        BY <2>1, <2>3 DEF NoStrandedRefetch
  <2>7. ForceKept'
        BY <2>1 DEF ForceKept, TypeOK
  <2>8. RecoveredFirst'
        BY <2>1, <2>2 DEF RecoveredFirst, TypeOK, NoItem
  <2>9. NoLostWakeUp'
        BY <2>1 DEF NoLostWakeUp
  <2> QED BY <2>4, <2>5, <2>6, <2>7, <2>8, <2>9
<1>2. CASE Finish(n)
  <2>1. /\ active' = [active EXCEPT ![n] = NoItem]
        /\ unrecovered' = IF active[n].kind = "recovered" THEN unrecovered \ {n} ELSE unrecovered
        /\ \E end \in {"finished", "corrupt"} : tail' = [tail EXCEPT ![n] = end]
        /\ UNCHANGED <<waiting, pending, loop, token, wakers, owed>>
        BY <1>2 DEF Finish
  <2>2. /\ Waiting' = Waiting /\ Active' = Active \ {n} /\ Pending' = Pending
        BY <2>1 DEF Waiting, Active, Pending, TypeOK
  <2>3. /\ tail'[n] \in {"finished", "corrupt"}
        /\ \A m \in Names \ {n} : tail'[m] = tail[m]
        BY <2>1 DEF TypeOK
  <2>4. TypeOK'
        BY <2>1 DEF TypeOK, Slots
  <2>5. Disjoint'
        BY <2>2 DEF Disjoint
  <2>6. NoStrandedRefetch'
        BY <2>2, <2>3 DEF NoStrandedRefetch, Pending
  <2>7. ForceKept' /\ RecoveredFirst'
        BY <2>1 DEF ForceKept, RecoveredFirst, TypeOK
  <2>8. NoLostWakeUp'
        BY <2>3 DEF NoLostWakeUp
  <2> QED BY <2>4, <2>5, <2>6, <2>7, <2>8
<1> QED BY <1>1, <1>2

\* The fetch loop by itself, and those who wake it.
LEMMA LoopInv ==
  ASSUME Inv,
         \/ Evaluated \/ DispatchEnds \/ WakeUp \/ TimerFires
         \/ \E n \in Names : Return(n)
         \/ \E w \in {"action", "processing"} : Wake(w)
  PROVE  Inv'
<1> USE DEF Inv
<1>1. UNCHANGED <<waiting, active, pending, owed, unrecovered>>
      BY DEF Evaluated, DispatchEnds, WakeUp, TimerFires, Return, Wake
<1>2. TypeOK'
      BY DEF Evaluated, DispatchEnds, WakeUp, TimerFires, Return, Wake, TypeOK
<1>3. Waiting' = Waiting /\ Active' = Active /\ Pending' = Pending
      BY <1>1 DEF Waiting, Active, Pending
<1>4. \A m \in Names : tail[m] \in {"corrupt", "finished"} => tail'[m] = tail[m]
      BY DEF Evaluated, DispatchEnds, WakeUp, TimerFires, Return, Wake, TypeOK
<1>5. Disjoint' /\ ForceKept' /\ RecoveredFirst'
      BY <1>1, <1>3 DEF Disjoint, ForceKept, RecoveredFirst
<1>6. NoStrandedRefetch'
      BY <1>3, <1>4 DEF NoStrandedRefetch, Pending
<1>7. /\ FreeWorker' = FreeWorker
      /\ \A n \in Names : MayStart(n)' <=> MayStart(n)
      BY <1>3 DEF FreeWorker, MayStart, Settled
<1>8. NoLostWakeUp'
  <2>1. CASE Evaluated \/ WakeUp \/ TimerFires
        BY <2>1 DEF Evaluated, WakeUp, TimerFires, NoLostWakeUp
  <2>2. CASE DispatchEnds
        BY <2>2, <1>7 DEF DispatchEnds, NoLostWakeUp
  <2>3. CASE \/ \E n \in Names : Return(n)
             \/ \E w \in {"action", "processing"} : Wake(w)
        BY <2>3 DEF Return, Wake, NoLostWakeUp
  <2> QED BY <2>1, <2>2, <2>3
<1> QED BY <1>2, <1>5, <1>6, <1>8

LEMMA NextInv == Inv /\ [Next]_vars => Inv'
<1> SUFFICES ASSUME Inv, [Next]_vars PROVE Inv'
    OBVIOUS
<1>1. CASE Next
      BY <1>1, RequestInv, ReleaseInv, WorkInv, LoopInv DEF Next, Worker
<1>2. CASE UNCHANGED vars
      BY <1>2 DEF vars, Inv, TypeOK, Disjoint, NoStrandedRefetch, ForceKept, RecoveredFirst,
         NoLostWakeUp, Waiting, Active, Pending, FreeWorker, MayStart, Settled
<1> QED BY <1>1, <1>2

LEMMA Invariant == Spec => []Inv
  BY InitInv, NextInv, PTL DEF Spec

(***************************************************************************)
(* The results.                                                            *)
(***************************************************************************)
\* The queue's variables always have their types.
THEOREM TypeCorrect == Spec => []TypeOK
  BY Invariant, PTL DEF Inv

\* A refetch that was put aside is always somebody's to put back.
THEOREM RefetchKept == Spec => []NoStrandedRefetch
  BY Invariant, PTL DEF Inv

\* A forced request stays in the queue until a forced download begins.
THEOREM ForcedKept == Spec => []ForceKept
  BY Invariant, PTL DEF Inv

\* A staged artifact is recovered before anything is fetched over it.
THEOREM RecoveryFirst == Spec => []RecoveredFirst
  BY Invariant, PTL DEF Inv

\* The loop never sleeps through a feed that could start.
THEOREM WakeUpKept == Spec => []NoLostWakeUp
  BY Invariant, PTL DEF Inv

\* Where no feed is an input of itself, among the feeds that wait there is one
\* with no input that waits, so the way out of a cycle is never taken.
LEMMA BreakerNeverTaken ==
  ASSUME NEW n \in Names, MayStart(n)
  PROVE  Settled(n)
<1>1. SUFFICES ASSUME Active = {}, \A m \in Waiting : ~Settled(m) PROVE FALSE
      BY DEF MayStart
<1>2. Waiting \in SUBSET Names /\ Waiting # {}
      BY DEF MayStart, Waiting
<1>3. PICK m \in Waiting : Parents[m] \cap Waiting = {}
      BY <1>2, QueueAssumption DEF QueueAssumption
<1> QED BY <1>1, <1>3 DEF Settled

\* No download of a composed feed begins while one of its inputs is queued or
\* being downloaded.
THEOREM InputsComeFirst == Spec => InputsFirst
<1>1. ASSUME Inv, Next
      PROVE  \A n \in Active' \ Active : Parents[n] \cap (Waiting \cup Active) = {}
  <2>1. ASSUME NEW n \in Names, Start(n)
        PROVE  Active' \ Active \subseteq {n} /\ Parents[n] \cap (Waiting \cup Active) = {}
        BY <2>1, BreakerNeverTaken DEF Start, Settled, Active, Inv, TypeOK
  <2>2. ASSUME NEW n \in Names, Finish(n)
        PROVE  Active' \subseteq Active
        BY <2>2 DEF Finish, Active, Inv, TypeOK
  <2>3. CASE active' = active
        BY <2>3 DEF Active
  <2> QED BY <1>1, <2>1, <2>2, <2>3 DEF Next, Worker, Evaluated, DispatchEnds, WakeUp, TimerFires,
             RequestFetch, ReleaseRefetch, Return, Due, Action, BatchReleases, Wake
<1>2. Inv /\ [Next]_vars
        => [\A n \in Active' \ Active : Parents[n] \cap (Waiting \cup Active) = {}]_vars
      BY <1>1
<1> QED BY Invariant, <1>2, PTL DEF Spec, InputsFirst
(***************************************************************************)
(* The choice of the item that starts.                                     *)
(***************************************************************************)
\* The order of one field, in which zero is unknown and comes last.
LEMMA SoonerFacts ==
  ASSUME NEW x \in Nat, NEW y \in Nat, NEW z \in Nat
  PROVE  /\ ~Sooner(x, x)
         /\ Sooner(x, y) => ~Sooner(y, x) /\ x # y
         /\ Sooner(x, y) /\ Sooner(y, z) => Sooner(x, z)
         /\ x # y => Sooner(x, y) \/ Sooner(y, x)
BY DEF Sooner, Unknown

\* queuedWorkBefore is a strict order, and total on items with different names:
\* what is unknown of some items cannot make it inconsistent.
THEOREM BeforeIsAnOrder ==
  ASSUME NEW a \in QueuedWork, NEW b \in QueuedWork, NEW c \in QueuedWork
  PROVE  /\ ~QueuedWorkBefore(a, a)
         /\ QueuedWorkBefore(a, b) => ~QueuedWorkBefore(b, a)
         /\ QueuedWorkBefore(a, b) /\ QueuedWorkBefore(b, c) => QueuedWorkBefore(a, c)
         /\ a.name # b.name => QueuedWorkBefore(a, b) \/ QueuedWorkBefore(b, a)
BY SoonerFacts DEF QueuedWorkBefore, QueuedWork

\* mergeQueuedWork: a feed that is asked for again while it waits never falls
\* behind the place it had.
THEOREM MergeKeepsPlace ==
  ASSUME NEW a \in QueuedWork, NEW b \in QueuedWork
  PROVE  /\ MergedPlace(a, b) \in QueuedWork
         /\ ~QueuedWorkBefore(a, MergedPlace(a, b))
         /\ ~QueuedWorkBefore([b EXCEPT !.name = a.name], MergedPlace(a, b))
BY DEF QueuedWorkBefore, MergedPlace, Earlier, Sooner, QueuedWork, Unknown

\* What is kept is the first of what was seen.
Best(kept, S) == IF S = {} THEN kept = NoWork ELSE FirstOf(kept, S)

ScanInv ==
  /\ seen \subseteq Queue
  /\ Best(blocked, seen)
  /\ Best(next, seen \cap Ready)

LEMMA KeepBest ==
  ASSUME QueueAssumed, NEW S \in SUBSET Queue, NEW kept, Best(kept, S),
         NEW item \in Queue \ S
  PROVE  Best(IF Better(item, kept) THEN item ELSE kept, S \cup {item})
<1>1. NoWork \notin QueuedWork
  BY DEF NoWork, QueuedWork
<1>2. CASE S = {}
  BY <1>2 DEF Best, FirstOf, Better
<1>3. CASE S # {}
  <2>1. kept \in S /\ kept \in QueuedWork /\ item \in QueuedWork /\ kept # NoWork
    BY <1>1, <1>3 DEF Best, FirstOf, QueueAssumed
  <2>2. \A other \in S \ {kept} : QueuedWorkBefore(kept, other) /\ other \in QueuedWork
    BY <1>3 DEF Best, FirstOf, QueueAssumed
  <2>3. item.name # kept.name
    BY <2>1 DEF QueueAssumed
  <2>4. CASE QueuedWorkBefore(item, kept)
    <3>1. \A other \in S : QueuedWorkBefore(item, other)
      BY <2>1, <2>2, <2>4, BeforeIsAnOrder
    <3> QED BY <1>3, <2>4, <3>1 DEF Best, FirstOf, Better
  <2>5. CASE ~QueuedWorkBefore(item, kept)
    <3>1. QueuedWorkBefore(kept, item)
      BY <2>1, <2>3, <2>5, BeforeIsAnOrder
    <3> QED BY <1>3, <2>1, <2>2, <2>5, <3>1 DEF Best, FirstOf, Better
  <2> QED BY <2>4, <2>5
<1> QED BY <1>2, <1>3

\* startNextDownload: the item it starts is the same in every order of the map.
THEOREM ChoiceIsUnique ==
  ASSUME QueueAssumed
  PROVE  ScanSpec => []ChoiceRight
<1>1. ScanInit => ScanInv
  BY DEF ScanInit, ScanInv, Best
<1>2. ScanInv /\ [\E item \in Queue : Look(item)]_scan => ScanInv'
  <2> SUFFICES ASSUME ScanInv, [\E item \in Queue : Look(item)]_scan
               PROVE  ScanInv'
    OBVIOUS
  <2>1. ASSUME NEW item \in Queue, Look(item)
        PROVE  ScanInv'
    <3>1. item \notin seen /\ seen' = seen \cup {item} /\ seen' \subseteq Queue
      BY <2>1 DEF Look, ScanInv
    <3>2. Best(blocked', seen')
      BY <2>1, <3>1, KeepBest DEF Look, ScanInv
    <3>3. Best(next', seen' \cap Ready)
      <4>1. CASE item \in Ready
        <5>1. seen' \cap Ready = (seen \cap Ready) \cup {item}
          BY <3>1, <4>1
        <5>2. next' = IF Better(item, next) THEN item ELSE next
          BY <2>1, <4>1 DEF Look
        <5>3. /\ seen \cap Ready \in SUBSET Queue
              /\ item \in Queue \ (seen \cap Ready)
              /\ Best(next, seen \cap Ready)
          BY <3>1 DEF ScanInv
        <5>4. Best(IF Better(item, next) THEN item ELSE next, (seen \cap Ready) \cup {item})
          BY <5>3, KeepBest
        <5> QED BY <5>1, <5>2, <5>4
      <4>2. CASE item \notin Ready
        <5>1. seen' \cap Ready = seen \cap Ready /\ next' = next
          BY <2>1, <3>1, <4>2 DEF Look
        <5> QED BY <5>1 DEF ScanInv
      <4> QED BY <4>1, <4>2
    <3> QED BY <3>1, <3>2, <3>3 DEF ScanInv
  <2>2. CASE UNCHANGED scan
    BY <2>2 DEF ScanInv, scan
  <2> QED BY <2>1, <2>2
<1>3. ScanInv => ChoiceRight
  <2> SUFFICES ASSUME ScanInv, seen = Queue
               PROVE  \/ FirstOf(Choice, Ready)
                      \/ Ready = {} /\ ~Busy /\ FirstOf(Choice, Queue)
                      \/ Ready = {} /\ (Busy \/ Queue = {}) /\ Choice = NoWork
    BY DEF ChoiceRight
  <2>1. Best(blocked, Queue) /\ Best(next, Ready)
    <3>1. seen \cap Ready = Ready
      BY DEF QueueAssumed
    <3> QED BY <3>1 DEF ScanInv
  <2>2. \A item \in Queue : item # NoWork
    BY DEF QueueAssumed, NoWork, QueuedWork
  <2>3. CASE Ready # {}
    <3>1. FirstOf(next, Ready) /\ next # NoWork
      BY <2>1, <2>2, <2>3 DEF Best, FirstOf, QueueAssumed
    <3> QED BY <3>1 DEF Choice
  <2>4. CASE Ready = {}
    <3>1. next = NoWork
      BY <2>1, <2>4 DEF Best
    <3>2. CASE Busy
      BY <2>4, <3>1, <3>2 DEF Choice
    <3>3. CASE ~Busy
      <4>1. Choice = blocked
        BY <3>1, <3>3 DEF Choice
      <4> QED BY <2>1, <2>4, <3>3, <4>1 DEF Best
    <3> QED BY <3>2, <3>3
  <2> QED BY <2>3, <2>4
<1> QED BY <1>1, <1>2, <1>3, PTL DEF ScanSpec
=============================================================================
