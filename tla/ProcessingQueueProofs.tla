----------------------- MODULE ProcessingQueueProofs -----------------------
(***************************************************************************)
(* Proofs about ProcessingQueue, for every set of feeds.                   *)
(***************************************************************************)
EXTENDS ProcessingQueue, TLAPS

(***************************************************************************)
(* Merging.                                                                *)
(***************************************************************************)
\* Merging yields a request when there is one to merge, and one that promotes
\* exactly when one of the two does.
LEMMA MergeKeeps ==
  ASSUME NEW a \in Works \cup {"none"}, NEW b \in Works \cup {"none"}
  PROVE  /\ Merge(a, b) \in Works \cup {"none"}
         /\ Merge(a, b) = "none" <=> a = "none" /\ b = "none"
         /\ Merge(a, b) = "promote" <=> a = "promote" \/ b = "promote"
<1>1. CASE "promote" \in {a, b}
      BY <1>1 DEF Merge, Works
<1>2. CASE "promote" \notin {a, b} /\ "plain" \in {a, b}
  <2>1. {a, b} \cap Works = {"plain"}
        BY <1>2 DEF Works
  <2>2. Merge(a, b) = "plain"
        BY <1>2, <2>1 DEF Merge
  <2> QED BY <1>2, <2>2 DEF Works
<1>3. CASE a = "none" /\ b = "none"
  <2>1. {a, b} \cap Works # {"plain"} /\ "promote" \notin {a, b}
        BY <1>3 DEF Works
  <2>2. Merge(a, b) = "none"
        BY <2>1 DEF Merge
  <2> QED BY <1>3, <2>2
<1> QED BY <1>1, <1>2, <1>3 DEF Works

(***************************************************************************)
(* The inductive invariant: what is active while the loop is where it is,  *)
(* and who will wake it, next to the invariants to prove.                  *)
(***************************************************************************)
Busy == {"finish", "requeue", "recover", "wake", "rewake"}

\* The batch holds what is active, and failed is a part of it.
BatchShape ==
  /\ failed \subseteq Names(items)
  /\ Names(deferred) \subseteq active
  /\ active \subseteq Names(items)
  /\ loop \in {"sleep", "drain", "mark", "run"} => failed = {}
  /\ loop = "requeue" => active \subseteq failed
  /\ loop = "recover" => failed = Names(items)
  /\ loop \notin {"run", "finish", "requeue", "recover"} => active = {}

\* Whoever queued the fresh requests has yet to wake the loop, or it looks.
WakeShape ==
  /\ released => loop \in Busy
  /\ fresh # {} => token \/ wakers # {} \/ released \/ loop = "drain"

Inv == TypeOK /\ BatchShape /\ WakeShape /\ NoDroppedRequest /\ PromoteKept

LEMMA InitInv == Init => Inv
  BY DEF Init, Inv, TypeOK, BatchShape, WakeShape, NoDroppedRequest, PromoteKept, Empty, Names,
     Works, LoopStates, Requesters, InHand, Promoting

\* A request from outside the loop.
LEMMA EnqueueInv ==
  ASSUME Inv, NEW f \in Feeds, NEW work \in Works, Enqueue(f, work),
         \/ \E r \in Requesters : /\ wakers' = wakers \cup {r}
                                  /\ fresh' \subseteq fresh \cup {f}
         \/ UNCHANGED <<wakers, fresh>>
  PROVE  Inv'
<1> USE DEF Inv
<1>1. \A g \in Feeds : /\ waiting[g] \in Works \cup {"none"}
                       /\ deferred[g] \in Works \cup {"none"}
      BY DEF TypeOK
<1>2. /\ Merge(waiting[f], work) \in Works /\ Merge(deferred[f], work) \in Works
      /\ work = "promote" \/ waiting[f] = "promote" => Merge(waiting[f], work) = "promote"
      /\ work = "promote" \/ deferred[f] = "promote" => Merge(deferred[f], work) = "promote"
      BY <1>1, MergeKeeps DEF Works
<1>3. UNCHANGED <<active, loop, items, failed, released, token>>
      BY DEF Enqueue, batch
<1>4. TypeOK'
      BY <1>2, <1>3 DEF Enqueue, TypeOK, Works
<1>5. Names(waiting)' \cup Names(deferred)' = Names(waiting) \cup Names(deferred) \cup {f}
      BY <1>1, <1>2 DEF Enqueue, Names, TypeOK, Works
<1>6. Names(deferred)' \subseteq active
      BY <1>1, <1>3 DEF Enqueue, Names, TypeOK, BatchShape
<1>7. InHand' = InHand /\ Promoting' = Promoting /\ Names(items)' = Names(items)
      BY <1>3 DEF InHand, Promoting, Names
<1>8. BatchShape'
      BY <1>3, <1>6, <1>7 DEF BatchShape
<1>9. WakeShape'
      BY <1>3 DEF WakeShape
<1>10. NoDroppedRequest'
       BY <1>5, <1>7 DEF NoDroppedRequest, Enqueue
<1>11. PromoteKept'
  <2> SUFFICES ASSUME NEW g \in wanted'
               PROVE  "promote" \in {waiting'[g], deferred'[g]} \/ g \in InHand' \cap Promoting'
      BY DEF PromoteKept
  <2>1. CASE g = f
        BY <1>1, <1>2, <1>7, <2>1 DEF Enqueue, TypeOK, PromoteKept, Works, Names
  <2>2. CASE g # f
    <3>1. g \in wanted /\ g \in Feeds
          BY <2>2 DEF Enqueue, TypeOK
    <3>2. waiting'[g] = waiting[g] /\ deferred'[g] = deferred[g]
          BY <2>2, <3>1 DEF Enqueue, TypeOK
    <3> QED BY <1>7, <3>1, <3>2 DEF PromoteKept
  <2> QED BY <2>1, <2>2
<1> QED BY <1>4, <1>8, <1>9, <1>10, <1>11

\* The loop wakes up, drains the queue and marks its batch active.
LEMMA StartInv ==
  ASSUME Inv, WakeUp \/ TimerFires \/ Drain \/ MarkActive \/ \E r \in Requesters : Wake(r)
  PROVE  Inv'
<1> USE DEF Inv, queue, batch, wakeup, history, Busy
<1>1. CASE WakeUp \/ TimerFires \/ \E r \in Requesters : Wake(r)
  <2>1. /\ UNCHANGED <<queue, items, failed, released, history>>
        /\ \/ loop' = loop
           \/ loop = "sleep" /\ loop' = "drain"
        BY <1>1 DEF WakeUp, TimerFires, Wake
  <2>2. /\ InHand' = InHand /\ Promoting' = Promoting /\ Names(items)' = Names(items)
        /\ Names(waiting)' = Names(waiting) /\ Names(deferred)' = Names(deferred)
        BY <2>1 DEF InHand, Promoting, Names
  <2>3. TypeOK'
        BY <1>1, <2>1 DEF WakeUp, TimerFires, Wake, TypeOK, LoopStates
  <2>4. WakeShape'
        BY <1>1 DEF WakeUp, TimerFires, Wake, WakeShape
  <2>5. BatchShape' /\ NoDroppedRequest' /\ PromoteKept'
        BY <2>1, <2>2 DEF BatchShape, NoDroppedRequest, PromoteKept
  <2> QED BY <2>3, <2>4, <2>5
<1>2. CASE Drain
  <2>1. Names(waiting)' = {} /\ Names(items)' = Names(waiting) /\ Names(deferred)' = Names(deferred)
        BY <1>2 DEF Drain, Names, Empty, TypeOK
  <2>2. TypeOK'
        BY <1>2 DEF Drain, TypeOK, Empty, LoopStates
  <2>3. waiting = Empty => Names(waiting) = {}
        BY DEF Empty, Names
  <2>4. BatchShape'
        BY <1>2, <2>1 DEF Drain, BatchShape
  <2>5. WakeShape'
        BY <1>2 DEF Drain, WakeShape
  <2>6. NoDroppedRequest'
        BY <1>2, <2>1, <2>3 DEF Drain, NoDroppedRequest, InHand
  <2>7. PromoteKept'
    <3> SUFFICES ASSUME NEW f \in wanted
                 PROVE  "promote" \in {waiting'[f], deferred'[f]} \/ f \in InHand' \cap Promoting'
        BY <1>2 DEF PromoteKept, Drain
    <3>1. "promote" \in {waiting[f], deferred[f]} /\ f \in Feeds
          BY <1>2 DEF Drain, PromoteKept, InHand, TypeOK
    <3>2. CASE waiting[f] = "promote"
      <4>1. f \in Names(waiting) /\ items'[f] = "promote"
            BY <1>2, <3>1, <3>2 DEF Drain, Names
      <4>2. waiting # Empty
            BY <3>1, <3>2 DEF Empty
      <4> QED BY <1>2, <2>1, <3>1, <4>1, <4>2 DEF Drain, InHand, Promoting
    <3>3. CASE deferred[f] = "promote"
          BY <1>2, <3>3 DEF Drain
    <3> QED BY <3>1, <3>2, <3>3
  <2> QED BY <2>2, <2>4, <2>5, <2>6, <2>7
<1>3. CASE MarkActive
  <2>1. TypeOK'
        BY <1>3 DEF MarkActive, TypeOK, LoopStates, Names
  <2>2. BatchShape' /\ WakeShape' /\ NoDroppedRequest' /\ PromoteKept'
        BY <1>3 DEF MarkActive, BatchShape, WakeShape, NoDroppedRequest, PromoteKept, InHand,
           Promoting, Names
  <2> QED BY <2>1, <2>2
<1> QED BY <1>1, <1>2, <1>3

\* The run ends, with a report, an error or a panic; the loop wakes itself and
\* ends the batch.
LEMMA RunInv ==
  ASSUME Inv, RunReports \/ RunFails \/ Panic \/ WakeSelf \/ EndBatch
  PROVE  Inv'
<1> USE DEF Inv, queue, batch, wakeup, history, Busy
<1>1. ASSUME loop \in {"run", "refresh"}, NEW some \in SUBSET Names(items),
             \/ loop = "run" /\ Fails(some, "finish")
             \/ Fails(Names(items), "recover")
      PROVE  Inv'
  <2>1. PICK lost \in SUBSET Names(items) :
          /\ failed' = lost /\ owed' = owed \cup lost
          /\ wanted' = wanted \cup (lost \cap Promoting)
          /\ \/ loop' = "finish" /\ loop = "run"
             \/ loop' = "recover" /\ lost = Names(items)
          /\ UNCHANGED <<queue, items, released, wakeup, fresh>>
        BY <1>1 DEF Fails
  <2>2. InHand = {} /\ InHand' = lost /\ Promoting' = Promoting
        BY <1>1, <2>1 DEF InHand, Promoting
  <2>3. Names(waiting)' = Names(waiting) /\ Names(deferred)' = Names(deferred)
        /\ Names(items)' = Names(items) /\ Names(items) \subseteq Feeds
        BY <2>1 DEF Names
  <2>4. TypeOK'
        BY <2>1, <2>3 DEF TypeOK, LoopStates
  <2>5. BatchShape'
        BY <1>1, <2>1, <2>3 DEF BatchShape
  <2>6. WakeShape'
        BY <1>1, <2>1 DEF WakeShape
  <2>7. NoDroppedRequest'
        BY <2>1, <2>2, <2>3 DEF NoDroppedRequest
  <2>8. PromoteKept'
        BY <2>1, <2>2 DEF PromoteKept
  <2> QED BY <2>4, <2>5, <2>6, <2>7, <2>8
<1>2. CASE WakeSelf
      BY <1>2 DEF WakeSelf, TypeOK, BatchShape, WakeShape, NoDroppedRequest, PromoteKept, InHand,
         Promoting, Names, LoopStates
<1>3. CASE EndBatch
      BY <1>3 DEF EndBatch, TypeOK, BatchShape, WakeShape, NoDroppedRequest, PromoteKept, InHand,
         Names, LoopStates, Empty
<1> QED BY <1>1, <1>2, <1>3 DEF RunReports, RunFails, Panic

\* What is deferred for the feeds of done is queued, and nothing is lost.
LEMMA QueueDeferredKeeps ==
  ASSUME TypeOK, NEW done \in SUBSET Feeds, QueueDeferred(done)
  PROVE  /\ waiting' \in [Feeds -> Works \cup {"none"}]
         /\ deferred' \in [Feeds -> Works \cup {"none"}]
         /\ Names(waiting)' \cup Names(deferred)' = Names(waiting) \cup Names(deferred)
         /\ Names(deferred)' = Names(deferred) \ done
         /\ fresh' \subseteq Feeds /\ released' \in BOOLEAN
         /\ fresh # fresh' => released'
         /\ released => released'
         /\ \A f \in Feeds : "promote" \in {waiting[f], deferred[f]}
                               => "promote" \in {waiting'[f], deferred'[f]}
<1>1. \A f \in Feeds : /\ waiting[f] \in Works \cup {"none"} /\ deferred[f] \in Works \cup {"none"}
                       /\ Merge(waiting[f], deferred[f]) \in Works \cup {"none"}
                       /\ Merge(waiting[f], deferred[f]) = "none"
                            <=> waiting[f] = "none" /\ deferred[f] = "none"
                       /\ Merge(waiting[f], deferred[f]) = "promote"
                            <=> waiting[f] = "promote" \/ deferred[f] = "promote"
      BY MergeKeeps DEF TypeOK
<1>2. /\ waiting' = [f \in Feeds |-> IF f \in done \cap Names(deferred)
                                     THEN Merge(waiting[f], deferred[f]) ELSE waiting[f]]
      /\ deferred' = [f \in Feeds |-> IF f \in done THEN "none" ELSE deferred[f]]
      /\ released' = (released \/ done \cap Names(deferred) # {})
      /\ fresh' = fresh \cup (done \cap Names(deferred))
      BY DEF QueueDeferred
<1>3. /\ waiting' \in [Feeds -> Works \cup {"none"}]
      /\ deferred' \in [Feeds -> Works \cup {"none"}]
      BY <1>1, <1>2
<1>4. Names(deferred)' = Names(deferred) \ done
      BY <1>2 DEF Names
<1>5. Names(waiting)' = Names(waiting) \cup (done \cap Names(deferred))
      BY <1>1, <1>2 DEF Names
<1>6. \A f \in Feeds : "promote" \in {waiting[f], deferred[f]}
                         => "promote" \in {waiting'[f], deferred'[f]}
      BY <1>1, <1>2 DEF Names
<1>7. fresh' \subseteq Feeds /\ released' \in BOOLEAN
      BY <1>2 DEF TypeOK, Names
<1>8. (fresh # fresh' => released') /\ (released => released')
      BY <1>2
<1> QED BY <1>3, <1>4, <1>5, <1>6, <1>7, <1>8

\* The feeds that succeeded are released, those that failed queued again.
LEMMA FinishInv ==
  ASSUME Inv, FinishSucceeded \/ FinishFailed
  PROVE  Inv'
<1> USE DEF Inv, Busy
<1>1. CASE FinishSucceeded
  <2> DEFINE done == Names(items) \ failed
  <2>1. done \in SUBSET Feeds
        BY DEF Names
  <2>2. /\ loop = "finish" /\ active' = active \ done /\ QueueDeferred(done)
        /\ loop' = IF failed = {} THEN "wake" ELSE "requeue"
        /\ UNCHANGED <<items, failed, token, wakers, owed, wanted>>
        BY <1>1 DEF FinishSucceeded, wakeup
  <2> HIDE DEF done
  <2>3. /\ waiting' \in [Feeds -> Works \cup {"none"}]
        /\ deferred' \in [Feeds -> Works \cup {"none"}]
        /\ Names(waiting)' \cup Names(deferred)' = Names(waiting) \cup Names(deferred)
        /\ Names(deferred)' = Names(deferred) \ done
        /\ fresh' \subseteq Feeds /\ released' \in BOOLEAN
        /\ fresh # fresh' => released'
        /\ released => released'
        /\ \A f \in Feeds : "promote" \in {waiting[f], deferred[f]}
                              => "promote" \in {waiting'[f], deferred'[f]}
        BY <2>1, <2>2, QueueDeferredKeeps
  <2>4. Names(items)' = Names(items) /\ Promoting' = Promoting /\ InHand = failed
        /\ InHand' = failed
        BY <2>2 DEF Names, Promoting, InHand
  <2>5. TypeOK'
        BY <2>2, <2>3 DEF TypeOK, LoopStates
  <2>6. BatchShape'
        BY <2>2, <2>3, <2>4 DEF BatchShape, done
  <2>7. WakeShape'
        BY <2>2, <2>3 DEF WakeShape
  <2>8. NoDroppedRequest'
        BY <2>2, <2>3, <2>4 DEF NoDroppedRequest
  <2>9. PromoteKept'
        BY <2>2, <2>3, <2>4 DEF PromoteKept, TypeOK
  <2> QED BY <2>5, <2>6, <2>7, <2>8, <2>9
<1>2. CASE FinishFailed
  <2>1. /\ loop \in {"requeue", "recover"} /\ active' = active \ failed
        /\ waiting' = [f \in Feeds |-> IF f \in failed
                                       THEN Merge(waiting[f], Merge(items[f], deferred[f]))
                                       ELSE waiting[f]]
        /\ deferred' = [f \in Feeds |-> IF f \in failed THEN "none" ELSE deferred[f]]
        /\ released' = (released \/ failed \cap Names(deferred) # {})
        /\ fresh' = fresh \cup (failed \cap Names(deferred))
        /\ loop' \in {"wake", "rewake"}
        /\ UNCHANGED <<items, failed, token, wakers, owed, wanted>>
        BY <1>2 DEF FinishFailed, wakeup
  <2>2. ASSUME NEW f \in Feeds
        PROVE  LET m == Merge(waiting[f], Merge(items[f], deferred[f]))
               IN  /\ m \in Works \cup {"none"}
                   /\ m = "none" <=> /\ waiting[f] = "none" /\ items[f] = "none"
                                     /\ deferred[f] = "none"
                   /\ m = "promote" <=> "promote" \in {waiting[f], items[f], deferred[f]}
    <3>1. /\ waiting[f] \in Works \cup {"none"} /\ deferred[f] \in Works \cup {"none"}
          /\ items[f] \in Works \cup {"none"}
          BY DEF TypeOK
    <3>2. /\ Merge(items[f], deferred[f]) \in Works \cup {"none"}
          /\ Merge(items[f], deferred[f]) = "none" <=> items[f] = "none" /\ deferred[f] = "none"
          /\ Merge(items[f], deferred[f]) = "promote"
               <=> items[f] = "promote" \/ deferred[f] = "promote"
          BY <3>1, MergeKeeps
    <3> QED BY <3>1, <3>2, MergeKeeps
  <2>3. /\ waiting' \in [Feeds -> Works \cup {"none"}]
        /\ deferred' \in [Feeds -> Works \cup {"none"}]
        BY <2>1, <2>2 DEF TypeOK
  <2>4. failed \subseteq Names(items) /\ failed \subseteq Feeds
        BY DEF BatchShape, TypeOK
  <2>5. Names(waiting)' = Names(waiting) \cup failed
        BY <2>1, <2>2, <2>4 DEF Names
  <2>6. Names(deferred)' = Names(deferred) \ failed
        BY <2>1 DEF Names
  <2>7. Names(items)' = Names(items) /\ Promoting' = Promoting /\ InHand = failed
        BY <2>1 DEF Names, Promoting, InHand
  <2>8. TypeOK'
    <3>1. fresh' \subseteq Feeds /\ released' \in BOOLEAN /\ loop' \in LoopStates
          BY <2>1, <2>4 DEF TypeOK, LoopStates
    <3> QED BY <2>1, <2>3, <3>1 DEF TypeOK
  <2>9. BatchShape'
        BY <2>1, <2>4, <2>6, <2>7 DEF BatchShape
  <2>10. WakeShape'
         BY <2>1 DEF WakeShape
  <2>11. NoDroppedRequest'
         BY <2>1, <2>5, <2>6, <2>7 DEF NoDroppedRequest
  <2>12. PromoteKept'
    <3> SUFFICES ASSUME NEW f \in wanted
                 PROVE  "promote" \in {waiting'[f], deferred'[f]}
        BY <2>1 DEF PromoteKept
    <3>1. f \in Feeds
          BY DEF TypeOK
    <3>2. \/ "promote" \in {waiting[f], deferred[f]}
          \/ f \in failed /\ items[f] = "promote"
          BY <2>7 DEF PromoteKept, Promoting
    <3>3. CASE f \in failed
          BY <2>1, <2>2, <3>1, <3>2, <3>3
    <3>4. CASE f \notin failed
          BY <2>1, <3>1, <3>2, <3>4
    <3> QED BY <3>3, <3>4
  <2> QED BY <2>8, <2>9, <2>10, <2>11, <2>12
<1> QED BY <1>1, <1>2

LEMMA NextInv == Inv /\ [Next]_vars => Inv'
<1> SUFFICES ASSUME Inv, [Next]_vars PROVE Inv'
    OBVIOUS
<1>1. ASSUME NEW f \in Feeds, NEW work \in Works, NEW r \in Requesters, Request(f, work, r)
      PROVE  Inv'
  <2>1. Enqueue(f, work) /\ wakers' = wakers \cup {r} /\ fresh' \subseteq fresh \cup {f}
        BY <1>1 DEF Request
  <2> QED BY <2>1, EnqueueInv
<1>2. ASSUME NEW f \in Feeds, RequestWave(f) PROVE Inv'
  <2>1. "plain" \in Works
        BY DEF Works
  <2> QED BY <1>2, <2>1, EnqueueInv DEF RequestWave
<1>3. CASE \/ Loop \/ TimerFires \/ Panic
           \/ \E r \in Requesters : Wake(r)
      BY <1>3, StartInv, RunInv, FinishInv DEF Loop
<1>4. CASE UNCHANGED vars
      BY <1>4 DEF vars, queue, batch, wakeup, history, Inv, TypeOK, BatchShape, WakeShape,
         NoDroppedRequest, PromoteKept, InHand, Promoting, Names
<1> QED BY <1>1, <1>2, <1>3, <1>4 DEF Next

LEMMA Invariant == Spec => []Inv
  BY InitInv, NextInv, PTL DEF Spec

\* Queues, batch and wake-up state always have their types.
THEOREM TypeCorrect == Spec => []TypeOK
  BY Invariant, PTL DEF Inv

\* No request is dropped: it is queued, deferred or in the loop's hands until
\* its feed becomes active, and again when that fails.
THEOREM NothingDropped == Spec => []NoDroppedRequest
  BY Invariant, PTL DEF Inv

\* A promotion asked for stays with its feed until a batch takes both.
THEOREM PromotionKept == Spec => []PromoteKept
  BY Invariant, PTL DEF Inv

\* What is active or deferred belongs to the batch the loop works on.
THEOREM ActiveBelongs == Spec => []ActiveIsBatch
<1>1. Inv => ActiveIsBatch
      BY DEF Inv, BatchShape, ActiveIsBatch
<1> QED BY Invariant, <1>1, PTL

\* The loop never sleeps through a request: the invariant adds who carries the
\* obligation to wake it while a batch is finished.
THEOREM WakeUpKept == Spec => []NoLostWakeUp
<1>1. Inv => NoLostWakeUp
      BY DEF Inv, WakeShape, NoLostWakeUp, Busy
<1> QED BY Invariant, <1>1, PTL
=============================================================================
