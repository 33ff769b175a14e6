--------------------------- MODULE WorkLaneProofs ---------------------------
(***************************************************************************)
(* Proofs about WorkLane, for every set of items and keys and every limit. *)
(***************************************************************************)
EXTENDS WorkLane, FiniteSetTheorems, SequenceTheorems, TLAPS

(***************************************************************************)
(* Scheduling.                                                             *)
(***************************************************************************)
Elems(q) == {q[j] : j \in DOMAIN q}

Distinct(q) == \A j, k \in DOMAIN q : q[j] = q[k] => j = k

\* The prefix of a queue without duplicates has as many elements as it is long.
LEMMA PrefixCardinality ==
  ASSUME NEW q \in Seq(Items), Distinct(q), NEW n \in 0..Len(q)
  PROVE  /\ IsFiniteSet({q[j] : j \in 1..n})
         /\ Cardinality({q[j] : j \in 1..n}) = n
<1> DEFINE P == {q[j] : j \in 1..n}
           f == [j \in 1..n |-> q[j]]
<1>1. f \in Bijection(1..n, P)
  <2>1. \A j, k \in 1..n : q[j] = q[k] => j = k
        BY DEF Distinct
  <2> QED BY <2>1 DEF Bijection, Injection, Surjection, IsInjective
<1>2. ExistsBijection(1..n, P)
      BY <1>1 DEF ExistsBijection
<1>3. IsFiniteSet(1..n) /\ Cardinality(1..n) = n
      BY FS_Interval
<1> QED BY <1>2, <1>3, FS_Bijection

Schedulable(q, act) ==
  /\ q \in Seq(Items) /\ Distinct(q)
  /\ act \in SUBSET Items /\ Elems(q) \cap act = {}
  /\ shut \in BOOLEAN /\ (shut => q = <<>>)

\* What scheduleLocked does, as sets: some of what is queued, the rest of which
\* stays queued, become active and are told; it starts as many as it may.
Scheduled(elems, act, lim, notes) ==
  /\ queue' \in Seq(Items) /\ Distinct(queue')
  /\ \E begun \in SUBSET elems :
       /\ Queued' = elems \ begun
       /\ active' = act \cup begun
       /\ note' = [i \in Items |-> IF i \in begun THEN "start" ELSE notes[i]]
  /\ queue' # <<>> => Cardinality(active') >= lim
  /\ idleOpen' = (active' # {})
  /\ shut => queue' = <<>> /\ active' = act

LEMMA ScheduleEffect ==
  ASSUME NEW q, NEW act, NEW lim \in 1..MaxLimit, NEW notes,
         Schedulable(q, act), Schedule(q, act, lim, notes)
  PROVE  Scheduled(Elems(q), act, lim, notes)
<1> USE DEF Schedulable
<1> DEFINE n     == Grants(q, act, lim)
           begun == {q[j] : j \in 1..n}
<1>1. IsFiniteSet(act) /\ Cardinality(act) \in Nat
      BY LaneAssumption, FS_Subset, FS_CardinalityType
<1>2. n \in 0..Len(q) /\ n <= Room(act, lim)
      BY <1>1, LaneAssumption DEF Grants, LeastNat, Room
<1>3. /\ queue' = SubSeq(q, n + 1, Len(q))
      /\ active' = act \cup begun
      /\ note' = [i \in Items |-> IF i \in begun THEN "start" ELSE notes[i]]
      /\ idleOpen' = (act \cup begun # {})
      BY DEF Schedule
<1> HIDE DEF n
<1>4. /\ queue' \in Seq(Items) /\ Len(queue') = Len(q) - n
      /\ \A j \in DOMAIN queue' : queue'[j] = q[j + n]
      BY <1>2, <1>3
<1>5. DOMAIN queue' = 1..(Len(q) - n) /\ DOMAIN q = 1..Len(q)
      BY <1>4
<1>6. Distinct(queue')
  <2> SUFFICES ASSUME NEW j \in DOMAIN queue', NEW k \in DOMAIN queue', queue'[j] = queue'[k]
               PROVE  j = k
      BY DEF Distinct
  <2>1. j + n \in DOMAIN q /\ k + n \in DOMAIN q /\ q[j + n] = q[k + n]
        BY <1>2, <1>4, <1>5
  <2>2. j + n = k + n
        BY <2>1 DEF Distinct
  <2> QED BY <1>2, <1>5, <2>2
<1>7. begun \subseteq Elems(q)
      BY <1>2, <1>5 DEF Elems
<1>8. Queued' = Elems(q) \ begun
  <2>1. Queued' = {q[j] : j \in (n + 1)..Len(q)}
    <3>1. ASSUME NEW j \in DOMAIN queue'
          PROVE  queue'[j] \in {q[k] : k \in (n + 1)..Len(q)}
          BY <1>2, <1>4, <1>5
    <3>2. ASSUME NEW k \in (n + 1)..Len(q)
          PROVE  q[k] \in {queue'[j] : j \in DOMAIN queue'}
      <4>1. k - n \in DOMAIN queue' /\ queue'[k - n] = q[k]
            BY <1>2, <1>4, <1>5
      <4> QED BY <4>1
    <3> QED BY <3>1, <3>2 DEF Queued
  <2>2. ASSUME NEW j \in 1..n, NEW k \in (n + 1)..Len(q)
        PROVE  q[j] # q[k]
        BY <1>2, <1>5, <2>2 DEF Distinct
  <2>3. \A k \in DOMAIN q : k \in 1..n \/ k \in (n + 1)..Len(q)
        BY <1>2, <1>5
  <2>4. \A k \in (n + 1)..Len(q) : k \in DOMAIN q
        BY <1>2, <1>5
  <2> QED BY <2>1, <2>2, <2>3, <2>4 DEF Elems
<1>9. ASSUME queue' # <<>>
      PROVE  Cardinality(active') >= lim
  <2>1. n < Len(q)
        BY <1>2, <1>4, <1>5, <1>9
  <2>2. ~shut
        BY <1>2, <2>1
  <2>3. n = Room(act, lim)
        BY <1>1, <1>2, <2>1, <2>2 DEF n, Grants, LeastNat, Room
  <2>4. IsFiniteSet(begun) /\ Cardinality(begun) = n
        BY <1>2, PrefixCardinality
  <2>5. act \cap begun = {}
        BY <1>7
  <2>6. Cardinality(act \cup begun) = Cardinality(act) + n
    <3>1. Cardinality(act \cup begun) =
            Cardinality(act) + Cardinality(begun) - Cardinality(act \cap begun)
          BY <1>1, <2>4, FS_Union
    <3>2. Cardinality(act \cap begun) = 0
          BY <2>5, FS_EmptySet
    <3> HIDE DEF begun
    <3> QED BY <1>1, <1>2, <2>4, <3>1, <3>2
  <2> QED BY <1>1, <1>3, <2>3, <2>6 DEF Room
<1>10. ASSUME shut
       PROVE  queue' = <<>> /\ active' = act
  <2>1. n = 0 /\ Len(q) = 0
        BY <1>2, <1>10
  <2> QED BY <1>3, <1>4, <2>1
<1> QED BY <1>3, <1>4, <1>6, <1>7, <1>8, <1>9, <1>10 DEF Scheduled

(***************************************************************************)
(* The inductive invariant: where each item is, who knows of it, and what  *)
(* its caller has been told, next to the invariants to prove.              *)
(***************************************************************************)
LaneShape ==
  /\ Distinct(queue)
  /\ shut => queue = <<>>
  /\ closing = "no" <=> ~shut
  /\ closing = "quiet" => active = {}
  /\ idleOpen = (active # {})

\* A queued item waits and has not been told; an active one runs, or waits and
\* has been told to start; nothing else runs or is told to start.
PlacedIn(i, elems, act, notes, ats, works) ==
  /\ i \in elems => ats[i] = "waiting" /\ notes[i] = "none" /\ i \notin act
  /\ i \in act => \/ ats[i] = "waiting" /\ notes[i] = "start"
                  \/ ats[i] = "running" /\ notes[i] = "none"
  /\ notes[i] = "start" => i \in act
  /\ notes[i] = "shutdown" => ats[i] = "waiting" /\ works[i].kind = "run" /\ i \notin act
  /\ ats[i] = "running" => i \in act
  /\ ats[i] = "waiting" => /\ i \in elems \/ notes[i] # "none"
                           /\ works[i].kind \in {"run", "submit"}

Placed(i) == PlacedIn(i, Queued, active, note, at, work)

\* A caller is told at the end, and the truth.
Told(i) ==
  /\ at[i] # "idle" => answer[i].told = "none" /\ (answer[i].ran <=> at[i] = "running")
  /\ answer[i].told # "none" => (answer[i].ran <=> answer[i].told = "result")

\* Only submitted work has a key.
Keyed(i) == IF work[i].kind = "submit" THEN work[i].key \in Keys ELSE work[i].key = NoKey

ItemShape == \A i \in Items : Placed(i) /\ Told(i) /\ Keyed(i)

Inv == TypeOK /\ LaneShape /\ ItemShape /\ WorkConserving /\ KeyOwner

LEMMA InitInv == Init => Inv
<1> SUFFICES ASSUME Init PROVE Inv
    OBVIOUS
<1>1. Queued = {} /\ active = {} /\ queue = <<>>
      BY DEF Init, Queued
<1>2. TypeOK
  <2>1. queue \in Seq(Items)
        BY <1>1
  <2> QED BY <2>1, LaneAssumption DEF Init, TypeOK
<1>3. LaneShape
  <2>1. DOMAIN queue = {}
        BY <1>1
  <2> QED BY <2>1, <1>1 DEF Init, LaneShape, Distinct
<1>4. ItemShape
      BY <1>1 DEF Init, ItemShape, Placed, PlacedIn, Told, Keyed
<1>5. WorkConserving /\ KeyOwner
      BY <1>1 DEF Init, WorkConserving, KeyOwner
<1> QED BY <1>2, <1>3, <1>4, <1>5 DEF Inv

\* What the invariant says of the queue and the slots.
LEMMA Frame ==
  ASSUME Inv
  PROVE  /\ queue \in Seq(Items) /\ active \in SUBSET Items /\ Queued \in SUBSET Items
         /\ Queued \cap active = {} /\ Elems(queue) = Queued
         /\ Distinct(queue) /\ shut \in BOOLEAN /\ limit \in 1..MaxLimit
         /\ owner \in [Keys -> Items \cup {NoItem}]
<1>1. queue \in Seq(Items) /\ active \in SUBSET Items
      BY DEF Inv, TypeOK
<1>2. Queued \in SUBSET Items
      BY <1>1 DEF Queued
<1>3. Queued \cap active = {}
      BY <1>2 DEF Inv, ItemShape, Placed, PlacedIn
<1> QED BY <1>1, <1>2, <1>3 DEF Inv, TypeOK, LaneShape, Elems, Queued

\* An item is asked for: it joins the end of the queue.
LEMMA Appended ==
  ASSUME Inv, NEW i \in Items, at[i] = "idle"
  PROVE  /\ Append(queue, i) \in Seq(Items) /\ Append(queue, i) # <<>>
         /\ Elems(Append(queue, i)) = Queued \cup {i}
         /\ Distinct(Append(queue, i))
         /\ i \notin Queued /\ i \notin active /\ note[i] = "none"
<1>1. i \notin Queued /\ i \notin active /\ note[i] = "none"
      BY DEF Inv, TypeOK, ItemShape, Placed, PlacedIn
<1>2. queue \in Seq(Items) /\ Distinct(queue)
      BY Frame
<1>3. /\ Append(queue, i) \in Seq(Items) /\ Append(queue, i) # <<>>
      /\ DOMAIN queue = 1..Len(queue) /\ Len(queue) \in Nat
      /\ DOMAIN Append(queue, i) = 1..(Len(queue) + 1)
      /\ \A j \in DOMAIN queue : Append(queue, i)[j] = queue[j]
      /\ Append(queue, i)[Len(queue) + 1] = i
      BY <1>2
<1>4. \A j \in 1..(Len(queue) + 1) : j \in DOMAIN queue \/ j = Len(queue) + 1
      BY <1>3
<1>5. Elems(Append(queue, i)) = Queued \cup {i}
      BY <1>3, <1>4 DEF Elems, Queued
<1>6. \A j \in DOMAIN queue : queue[j] # i
      BY <1>1 DEF Queued
<1>7. Distinct(Append(queue, i))
  <2> SUFFICES ASSUME NEW j \in 1..(Len(queue) + 1), NEW k \in 1..(Len(queue) + 1),
                      Append(queue, i)[j] = Append(queue, i)[k]
               PROVE  j = k
      BY <1>3 DEF Distinct
  <2> QED BY <1>2, <1>3, <1>4, <1>6 DEF Distinct
<1> QED BY <1>1, <1>3, <1>5, <1>7

(***************************************************************************)
(* Whatever is scheduled keeps its place, as long as the lane that is      *)
(* scheduled was in order.                                                 *)
(***************************************************************************)
LEMMA PlaceKept ==
  ASSUME NEW elems, NEW act, NEW lim, NEW notes, NEW ats, NEW works, NEW i \in Items,
         Scheduled(elems, act, lim, notes), PlacedIn(i, elems, act, notes, ats, works)
  PROVE  PlacedIn(i, Queued', active', note', ats, works)
<1>1. PICK begun \in SUBSET elems :
        /\ Queued' = elems \ begun
        /\ active' = act \cup begun
        /\ note' = [x \in Items |-> IF x \in begun THEN "start" ELSE notes[x]]
      BY DEF Scheduled
<1>2. note'[i] = IF i \in begun THEN "start" ELSE notes[i]
      BY <1>1
<1>3. i \in begun => i \in elems
      OBVIOUS
<1> QED BY <1>1, <1>2, <1>3 DEF PlacedIn

LEMMA LaneKept ==
  ASSUME Inv, NEW elems \in SUBSET Items, NEW act \in SUBSET active, NEW lim \in 1..MaxLimit,
         NEW notes \in [Items -> {"none", "start", "shutdown"}],
         Scheduled(elems, act, lim, notes),
         limit' = lim, UNCHANGED <<shut, closing>>
  PROVE  /\ queue' \in Seq(Items) /\ active' \in SUBSET Items /\ idleOpen' \in BOOLEAN
         /\ note' \in [Items -> {"none", "start", "shutdown"}]
         /\ LaneShape' /\ WorkConserving'
         /\ Queued' \cup active' = elems \cup act
<1>1. PICK begun \in SUBSET elems :
        /\ Queued' = elems \ begun
        /\ active' = act \cup begun
        /\ note' = [x \in Items |-> IF x \in begun THEN "start" ELSE notes[x]]
      BY DEF Scheduled
<1>2. active \in SUBSET Items
      BY Frame
<1>3. note' \in [Items -> {"none", "start", "shutdown"}]
      BY <1>1
<1>4. idleOpen' \in BOOLEAN
      BY DEF Scheduled
<1>5. LaneShape'
      BY DEF Scheduled, Inv, LaneShape
<1>6. WorkConserving'
      BY DEF Scheduled, WorkConserving
<1> QED BY <1>1, <1>2, <1>3, <1>4, <1>5, <1>6 DEF Scheduled

(***************************************************************************)
(* The steps.                                                              *)
(***************************************************************************)
\* Keys are registered for the members of the lane, each for one of them.
KeysOwned(members, owners, works) ==
  /\ \A x \in members : works[x].kind = "submit" => owners[works[x].key] = x
  /\ \A k \in Keys : owners[k] # NoItem => owners[k] \in members /\ works[owners[k]].key = k

LEMMA KeyOwnerAlt == KeyOwner <=> KeysOwned(Queued \cup active, owner, work)
  BY DEF KeyOwner, KeysOwned

LEMMA RunInv ==
  ASSUME Inv, NEW i \in Items, Run(i)
  PROVE  Inv'
<1> DEFINE q == Append(queue, i)
           elems == Queued \cup {i}
<1>1. /\ ~shut /\ at[i] = "idle"
      /\ Schedule(q, active, limit, note)
      /\ UNCHANGED <<limit, owner, shut, attached, closing>>
      /\ at' = [at EXCEPT ![i] = "waiting"] /\ gone' = gone \ {i}
      /\ work' = [work EXCEPT ![i] = [kind |-> "run", key |-> NoKey]]
      /\ answer' = [answer EXCEPT ![i] = [told |-> "none", ran |-> FALSE]]
      BY DEF Run, Ask
<1>2. /\ q \in Seq(Items) /\ Elems(q) = elems /\ Distinct(q)
      /\ i \notin Queued /\ i \notin active /\ note[i] = "none"
      BY <1>1, Appended
<1>3. /\ elems \in SUBSET Items /\ active \in SUBSET active
      /\ note \in [Items -> {"none", "start", "shutdown"}]
      /\ elems \cap active = {} /\ limit \in 1..MaxLimit
      BY <1>2, Frame DEF Inv, TypeOK
<1>4. Scheduled(elems, active, limit, note)
  <2>1. Schedulable(q, active)
        BY <1>1, <1>2, <1>3, Frame DEF Schedulable
  <2>2. Schedule(q, active, limit, note) /\ limit \in 1..MaxLimit
        BY <1>1, <1>3
  <2> HIDE DEF q, elems
  <2>3. Scheduled(Elems(q), active, limit, note)
        BY <2>1, <2>2, ScheduleEffect
  <2> QED BY <1>2, <2>3
<1> HIDE DEF q, elems
<1>5. /\ queue' \in Seq(Items) /\ active' \in SUBSET Items /\ idleOpen' \in BOOLEAN
      /\ note' \in [Items -> {"none", "start", "shutdown"}]
      /\ LaneShape' /\ WorkConserving' /\ Queued' \cup active' = elems \cup active
      BY <1>1, <1>3, <1>4, LaneKept
<1>6. TypeOK'
      BY <1>1, <1>5 DEF Inv, TypeOK
<1>7. ASSUME NEW x \in Items PROVE (Placed(x) /\ Told(x) /\ Keyed(x))'
  <2>1. Placed(x) /\ Told(x) /\ Keyed(x)
        BY DEF Inv, ItemShape
  <2>2. PlacedIn(x, elems, active, note, at', work')
        BY <1>1, <1>2, <2>1 DEF Inv, TypeOK, Placed, PlacedIn, elems
  <2>3. Placed(x)'
        BY <1>4, <2>2, PlaceKept DEF Placed
  <2>4. Told(x)' /\ Keyed(x)'
        BY <1>1, <2>1 DEF Inv, TypeOK, Told, Keyed
  <2> QED BY <2>3, <2>4
<1>8. KeyOwner'
  <2>1. \A x \in Items : x # i => work'[x] = work[x]
        BY <1>1
  <2>2. work'[i].kind = "run"
        BY <1>1 DEF Inv, TypeOK
  <2>3. KeysOwned(Queued \cup active, owner, work)
        BY KeyOwnerAlt DEF Inv
  <2>4. KeysOwned(elems \cup active, owner, work')
        BY <1>2, <2>1, <2>2, <2>3, Frame DEF KeysOwned, elems
  <2> QED BY <1>1, <1>5, <2>4, KeyOwnerAlt DEF KeyOwner, KeysOwned
<1> QED BY <1>5, <1>6, <1>7, <1>8 DEF Inv, ItemShape

LEMMA SubmitInv ==
  ASSUME Inv, NEW i \in Items, NEW k \in Keys, Submit(i, k)
  PROVE  Inv'
<1> DEFINE q == Append(queue, i)
           elems == Queued \cup {i}
<1>1. /\ ~shut /\ at[i] = "idle"
      /\ Schedule(q, active, limit, note)
      /\ UNCHANGED <<limit, shut, attached, closing>>
      /\ at' = [at EXCEPT ![i] = "waiting"] /\ gone' = gone \ {i}
      /\ work' = [work EXCEPT ![i] = [kind |-> "submit", key |-> k]]
      /\ answer' = [answer EXCEPT ![i] = [told |-> "none", ran |-> FALSE]]
      /\ owner[k] = NoItem /\ owner' = [owner EXCEPT ![k] = i]
      BY DEF Submit, Ask
<1>2. /\ q \in Seq(Items) /\ Elems(q) = elems /\ Distinct(q)
      /\ i \notin Queued /\ i \notin active /\ note[i] = "none"
      BY <1>1, Appended
<1>3. /\ elems \in SUBSET Items /\ active \in SUBSET active
      /\ note \in [Items -> {"none", "start", "shutdown"}]
      /\ elems \cap active = {} /\ limit \in 1..MaxLimit
      BY <1>2, Frame DEF Inv, TypeOK
<1>4. Scheduled(elems, active, limit, note)
  <2>1. Schedulable(q, active)
        BY <1>1, <1>2, <1>3, Frame DEF Schedulable
  <2>2. Schedule(q, active, limit, note) /\ limit \in 1..MaxLimit
        BY <1>1, <1>3
  <2> HIDE DEF q, elems
  <2>3. Scheduled(Elems(q), active, limit, note)
        BY <2>1, <2>2, ScheduleEffect
  <2> QED BY <1>2, <2>3
<1> HIDE DEF q, elems
<1>5. /\ queue' \in Seq(Items) /\ active' \in SUBSET Items /\ idleOpen' \in BOOLEAN
      /\ note' \in [Items -> {"none", "start", "shutdown"}]
      /\ LaneShape' /\ WorkConserving' /\ Queued' \cup active' = elems \cup active
      BY <1>1, <1>3, <1>4, LaneKept
<1>6. TypeOK'
      BY <1>1, <1>5 DEF Inv, TypeOK
<1>7. ASSUME NEW x \in Items PROVE (Placed(x) /\ Told(x) /\ Keyed(x))'
  <2>1. Placed(x) /\ Told(x) /\ Keyed(x)
        BY DEF Inv, ItemShape
  <2>2. PlacedIn(x, elems, active, note, at', work')
        BY <1>1, <1>2, <2>1 DEF Inv, TypeOK, Placed, PlacedIn, elems
  <2>3. Placed(x)'
        BY <1>4, <2>2, PlaceKept DEF Placed
  <2>4. Told(x)' /\ Keyed(x)'
        BY <1>1, <2>1 DEF Inv, TypeOK, Told, Keyed
  <2> QED BY <2>3, <2>4
<1>8. KeyOwner'
  <2>1. \A x \in Items : x # i => work'[x] = work[x]
        BY <1>1
  <2>2. work'[i].kind = "submit" /\ work'[i].key = k
        BY <1>1 DEF Inv, TypeOK
  <2>3. \A l \in Keys : owner'[l] = IF l = k THEN i ELSE owner[l]
        BY <1>1 DEF Inv, TypeOK
  <2>4. KeysOwned(Queued \cup active, owner, work)
        BY KeyOwnerAlt DEF Inv
  <2>5. ASSUME NEW x \in elems \cup active, work'[x].kind = "submit"
        PROVE  owner'[work'[x].key] = x
    <3>1. CASE x = i
          BY <2>2, <2>3, <3>1
    <3>2. CASE x # i
      <4>1. x \in Queued \cup active /\ x \in Items /\ work'[x] = work[x]
            BY <2>1, <3>2, Frame DEF elems
      <4>2. owner[work[x].key] = x /\ work[x].key \in Keys
            BY <2>4, <2>5, <4>1 DEF Inv, ItemShape, Keyed, KeysOwned
      <4>3. work[x].key # k
            BY <1>1, <4>1, <4>2, LaneAssumption
      <4> QED BY <2>3, <4>1, <4>2, <4>3
    <3> QED BY <3>1, <3>2
  <2>6. ASSUME NEW l \in Keys, owner'[l] # NoItem
        PROVE  owner'[l] \in elems \cup active /\ work'[owner'[l]].key = l
        BY <1>2, <2>1, <2>2, <2>3, <2>4, <2>6, Frame DEF elems, KeysOwned
  <2> QED BY <1>5, <2>5, <2>6 DEF KeyOwner
<1> QED BY <1>5, <1>6, <1>7, <1>8 DEF Inv, ItemShape

\* TryRun takes a free slot at once.
LEMMA TryRunInv ==
  ASSUME Inv, NEW i \in Items, TryRun(i)
  PROVE  Inv'
<1>1. /\ ~shut /\ at[i] = "idle" /\ queue = <<>>
      /\ UNCHANGED <<limit, queue, owner, shut, note, attached, closing>>
      /\ at' = [at EXCEPT ![i] = "running"] /\ gone' = gone \ {i}
      /\ work' = [work EXCEPT ![i] = [kind |-> "try", key |-> NoKey]]
      /\ answer' = [answer EXCEPT ![i] = [told |-> "none", ran |-> TRUE]]
      /\ active' = active \cup {i} /\ idleOpen' = TRUE
      BY DEF TryRun, Ask
<1>2. /\ i \notin Queued /\ i \notin active /\ note[i] = "none" /\ Queued' = Queued
      BY <1>1, Appended DEF Queued
<1>3. TypeOK'
      BY <1>1 DEF Inv, TypeOK
<1>4. LaneShape'
      BY <1>1 DEF Inv, LaneShape, Distinct
<1>5. ASSUME NEW x \in Items PROVE (Placed(x) /\ Told(x) /\ Keyed(x))'
      BY <1>1, <1>2 DEF Inv, TypeOK, ItemShape, Placed, PlacedIn, Told, Keyed
<1>6. WorkConserving'
      BY <1>1 DEF WorkConserving
<1>7. KeyOwner'
  <2>1. \A x \in Items : x # i => work'[x] = work[x]
        BY <1>1
  <2>2. work'[i].kind = "try"
        BY <1>1 DEF Inv, TypeOK
  <2> QED BY <1>1, <1>2, <2>1, <2>2, Frame DEF Inv, KeyOwner
<1> QED BY <1>3, <1>4, <1>5, <1>6, <1>7 DEF Inv, ItemShape

\* The sequence q without its element j, index by index.
LEMMA CutOut ==
  ASSUME NEW q \in Seq(Items), NEW n \in Nat, Len(q) = n, NEW j \in 1..n
  PROVE  LET r == SubSeq(q, 1, j - 1) \o SubSeq(q, j + 1, n)
         IN  /\ r \in Seq(Items) /\ DOMAIN r = 1..(n - 1)
             /\ \A k \in 1..(n - 1) : k < j => r[k] = q[k]
             /\ \A k \in 1..(n - 1) : k >= j => r[k] = q[k + 1]
<1> DEFINE s == SubSeq(q, 1, j - 1)
           t == SubSeq(q, j + 1, n)
           r == s \o t
<1>1. /\ s \in Seq(Items) /\ Len(s) = j - 1 /\ \A k \in 1..(j - 1) : s[k] = q[k]
  <2>1. \A k \in 1..(j - 1) : q[k] \in Items /\ 1 + k - 1 = k
        OBVIOUS
  <2>2. /\ s \in Seq(Items) /\ Len(s) = IF 1 <= j - 1 THEN j - 1 - 1 + 1 ELSE 0
        /\ \A k \in 1..(j - 1 - 1 + 1) : s[k] = q[1 + k - 1]
        BY <2>1, SubSeqProperties
  <2> HIDE DEF s
  <2> QED BY <2>1, <2>2
<1>2. /\ t \in Seq(Items) /\ Len(t) = n - j
      /\ \A k \in 1..(n - j) : t[k] = q[j + k]
  <2>1. \A k \in (j + 1)..n : q[k] \in Items
        OBVIOUS
  <2>2. /\ t \in Seq(Items) /\ Len(t) = IF j + 1 <= n THEN n - (j + 1) + 1 ELSE 0
        /\ \A k \in 1..(n - (j + 1) + 1) : t[k] = q[j + 1 + k - 1]
        BY <2>1, SubSeqProperties
  <2>3. \A k \in 1..(n - j) : j + 1 + k - 1 = j + k
        OBVIOUS
  <2> HIDE DEF t
  <2> QED BY <2>2, <2>3
<1> HIDE DEF s, t
<1>3. /\ r \in Seq(Items) /\ Len(r) = Len(s) + Len(t)
      /\ \A k \in 1..(Len(s) + Len(t)) : r[k] = IF k <= Len(s) THEN s[k] ELSE t[k - Len(s)]
      BY <1>1, <1>2, ConcatProperties
<1> HIDE DEF r
<1>4. Len(s) + Len(t) = n - 1
      BY <1>1, <1>2
<1>5. DOMAIN r = 1..(n - 1)
      BY <1>3, <1>4
<1>6. ASSUME NEW k \in 1..(n - 1), k < j
      PROVE  r[k] = q[k]
      BY <1>1, <1>3, <1>4, <1>6
<1>7. ASSUME NEW k \in 1..(n - 1), k >= j
      PROVE  r[k] = q[k + 1]
  <2> DEFINE m == k - (j - 1)
  <2>1. ~(k <= Len(s)) /\ k - Len(s) = m /\ k \in 1..(Len(s) + Len(t))
        BY <1>1, <1>4, <1>7
  <2>2. m \in 1..(n - j) /\ j + m = k + 1
        BY <1>7
  <2> HIDE DEF m
  <2>3. r[k] = t[m]
        BY <1>3, <2>1
  <2>4. t[m] = q[j + m]
        BY <1>2, <2>2
  <2> QED BY <2>2, <2>3, <2>4
<1> QED BY <1>3, <1>5, <1>6, <1>7 DEF r, s, t

\* An item is taken out of the middle of the queue.
LEMMA Removed ==
  ASSUME NEW q \in Seq(Items), Distinct(q), NEW j \in DOMAIN q,
         NEW r, r = SubSeq(q, 1, j - 1) \o SubSeq(q, j + 1, Len(q))
  PROVE  /\ r \in Seq(Items) /\ Distinct(r)
         /\ Elems(r) = Elems(q) \ {q[j]}
<1>1. PICK n \in Nat : Len(q) = n /\ DOMAIN q = 1..n
      OBVIOUS
<1>2. j \in 1..n
      BY <1>1
<1>3. /\ r \in Seq(Items) /\ DOMAIN r = 1..(n - 1)
      /\ \A k \in 1..(n - 1) : k < j => r[k] = q[k]
      /\ \A k \in 1..(n - 1) : k >= j => r[k] = q[k + 1]
      BY <1>1, <1>2, CutOut
<1>4. ASSUME NEW k \in 1..n, NEW l \in 1..n, q[k] = q[l]
      PROVE  k = l
      BY <1>1, <1>4 DEF Distinct
<1>5. Distinct(r)
  <2> SUFFICES ASSUME NEW k \in 1..(n - 1), NEW l \in 1..(n - 1), r[k] = r[l]
               PROVE  k = l
      BY <1>3 DEF Distinct
  <2>1. /\ k < j \/ k >= j
        /\ l < j \/ l >= j
        /\ k \in 1..n /\ l \in 1..n /\ k + 1 \in 1..n /\ l + 1 \in 1..n
        BY <1>2
  <2>2. CASE k < j /\ l < j
        BY <1>3, <1>4, <2>1, <2>2
  <2>3. CASE k >= j /\ l >= j
    <3>1. q[k + 1] = q[l + 1]
          BY <1>3, <2>3
    <3>2. k + 1 = l + 1
          BY <1>4, <2>1, <3>1
    <3> QED BY <3>2
  <2>4. CASE k < j /\ l >= j
    <3>1. q[k] = q[l + 1]
          BY <1>3, <2>4
    <3>2. k = l + 1
          BY <1>4, <2>1, <3>1
    <3> QED BY <1>2, <2>4, <3>2
  <2>5. CASE k >= j /\ l < j
    <3>1. q[k + 1] = q[l]
          BY <1>3, <2>5
    <3>2. k + 1 = l
          BY <1>4, <2>1, <3>1
    <3> QED BY <1>2, <2>5, <3>2
  <2> QED BY <2>1, <2>2, <2>3, <2>4, <2>5
<1>6. ASSUME NEW y \in Elems(q) \ {q[j]} PROVE y \in Elems(r)
  <2>1. PICK k \in 1..n : y = q[k]
        BY <1>1 DEF Elems
  <2>2. CASE k < j
    <3>1. k \in 1..(n - 1)
          BY <1>2, <2>2
    <3> QED BY <1>3, <2>1, <2>2, <3>1 DEF Elems
  <2>3. CASE k > j
    <3>1. k - 1 \in 1..(n - 1) /\ k - 1 >= j /\ (k - 1) + 1 = k
          BY <1>2, <2>3
    <3>2. r[k - 1] = q[k]
          BY <1>3, <3>1
    <3> QED BY <1>3, <2>1, <3>1, <3>2 DEF Elems
  <2> QED BY <1>2, <2>1, <2>2, <2>3
<1>7. ASSUME NEW y \in Elems(r) PROVE y \in Elems(q) \ {q[j]}
  <2>1. PICK k \in 1..(n - 1) : y = r[k]
        BY <1>3 DEF Elems
  <2>2. k \in 1..n /\ k + 1 \in 1..n /\ (k < j \/ k >= j)
        BY <1>2
  <2>3. CASE k < j
    <3>1. y = q[k]
          BY <1>3, <2>1, <2>3
    <3>2. k # j
          BY <1>2, <2>3
    <3>3. q[k] # q[j]
          BY <1>2, <1>4, <2>2, <3>2
    <3> QED BY <1>1, <2>2, <3>1, <3>3 DEF Elems
  <2>4. CASE k >= j
    <3>1. y = q[k + 1]
          BY <1>3, <2>1, <2>4
    <3>2. k + 1 # j
          BY <1>2, <2>4
    <3>3. q[k + 1] # q[j]
          BY <1>2, <1>4, <2>2, <3>2
    <3> QED BY <1>1, <2>2, <3>1, <3>3 DEF Elems
  <2> QED BY <2>2, <2>3, <2>4
<1> QED BY <1>3, <1>5, <1>6, <1>7

LEMMA GiveUpInv ==
  ASSUME Inv, NEW i \in Items, GiveUp(i)
  PROVE  Inv'
<1>1. /\ at[i] = "waiting" /\ at' = [at EXCEPT ![i] = "idle"]
      /\ Forget(i) /\ Tell(i, "cancelled")
      /\ UNCHANGED <<limit, active, shut, idleOpen, work, note, gone, attached, closing>>
      BY DEF GiveUp
<1>2. PICK j \in DOMAIN queue :
        /\ queue[j] = i
        /\ queue' = SubSeq(queue, 1, j - 1) \o SubSeq(queue, j + 1, Len(queue))
      BY DEF GiveUp
<1>3. /\ queue' \in Seq(Items) /\ Distinct(queue')
      /\ Queued' = Queued \ {i} /\ i \in Queued
  <2>1. queue \in Seq(Items) /\ Distinct(queue) /\ Elems(queue) = Queued
        BY Frame
  <2>2. /\ queue' \in Seq(Items) /\ Distinct(queue')
        /\ Elems(queue') = Elems(queue) \ {queue[j]}
        BY <1>2, <2>1, Removed
  <2>3. Queued' = Elems(queue')
        BY DEF Queued, Elems
  <2>4. i \in Queued
        BY <1>2 DEF Queued
  <2> QED BY <1>2, <2>1, <2>2, <2>3, <2>4
<1>4. queue # <<>>
      BY <1>3 DEF Queued
<1>5. /\ note[i] = "none" /\ i \notin active /\ answer[i].told = "none" /\ ~answer[i].ran
      BY <1>1, <1>3 DEF Inv, ItemShape, Placed, PlacedIn, Told
<1>6. /\ owner' = [k \in Keys |-> IF k = work[i].key THEN NoItem ELSE owner[k]]
      /\ answer' = [answer EXCEPT ![i].told = "cancelled"]
      BY <1>1 DEF Forget, Tell
<1>7. TypeOK'
      BY <1>1, <1>3, <1>6 DEF Inv, TypeOK
<1>8. LaneShape'
      BY <1>1, <1>3, <1>4 DEF Inv, LaneShape
<1>9. ASSUME NEW x \in Items PROVE (Placed(x) /\ Told(x) /\ Keyed(x))'
      BY <1>1, <1>3, <1>5, <1>6 DEF Inv, TypeOK, ItemShape, Placed, PlacedIn, Told, Keyed
<1>10. WorkConserving'
       BY <1>1, <1>4 DEF Inv, WorkConserving
<1>11. KeyOwner'
  <2>1. (Queued \cup active)' = (Queued \cup active) \ {i}
        BY <1>1, <1>3, <1>5
  <2>2. ASSUME NEW x \in (Queued \cup active) \ {i}, work[x].kind = "submit"
        PROVE  owner'[work[x].key] = x
    <3>1. owner[work[x].key] = x /\ work[x].key \in Keys
          BY <2>2, Frame DEF Inv, KeyOwner, ItemShape, Keyed
    <3>2. work[x].key # work[i].key
          BY <1>3, <2>2, <3>1, LaneAssumption DEF Inv, KeyOwner, ItemShape, Keyed
    <3> QED BY <1>6, <3>1, <3>2
  <2>3. ASSUME NEW k \in Keys, owner'[k] # NoItem
        PROVE  owner'[k] \in (Queued \cup active) \ {i} /\ work[owner'[k]].key = k
        BY <1>6, <2>3 DEF Inv, KeyOwner
  <2> QED BY <1>1, <2>1, <2>2, <2>3 DEF KeyOwner
<1> QED BY <1>7, <1>8, <1>9, <1>10, <1>11 DEF Inv, ItemShape

\* An active item gives its slot and its key back.
LEMMA FinishInv ==
  ASSUME Inv, NEW i \in Items, NEW told \in {"result", "cancelled"}, FinishItem(i, told),
         \/ at[i] = "waiting" /\ note[i] = "start" /\ told = "cancelled"
         \/ at[i] = "running" /\ told = "result"
  PROVE  Inv'
<1> DEFINE act == active \ {i}
           notes == [note EXCEPT ![i] = "none"]
<1>1. /\ at' = [at EXCEPT ![i] = "idle"]
      /\ answer' = [answer EXCEPT ![i].told = told]
      /\ owner' = [k \in Keys |-> IF k = work[i].key THEN NoItem ELSE owner[k]]
      /\ Schedule(queue, act, limit, notes)
      /\ UNCHANGED <<limit, shut, work, gone, attached, closing>>
      BY DEF FinishItem, Tell, Forget
<1>2. i \in active /\ i \notin Queued /\ answer[i].told = "none"
      BY DEF Inv, TypeOK, ItemShape, Placed, PlacedIn, Told
<1>3. /\ Queued \in SUBSET Items /\ act \in SUBSET active
      /\ notes \in [Items -> {"none", "start", "shutdown"}]
      /\ limit \in 1..MaxLimit
      BY Frame DEF Inv, TypeOK
<1>4. Scheduled(Queued, act, limit, notes)
  <2>1. Schedulable(queue, act)
        BY Frame DEF Schedulable, Inv, LaneShape
  <2>2. Schedule(queue, act, limit, notes)
        BY <1>1
  <2> HIDE DEF act, notes
  <2>3. Scheduled(Elems(queue), act, limit, notes)
        BY <1>3, <2>1, <2>2, ScheduleEffect
  <2> QED BY <2>3, Frame
<1> HIDE DEF act, notes
<1>5. /\ queue' \in Seq(Items) /\ active' \in SUBSET Items /\ idleOpen' \in BOOLEAN
      /\ note' \in [Items -> {"none", "start", "shutdown"}]
      /\ LaneShape' /\ WorkConserving' /\ Queued' \cup active' = Queued \cup act
      BY <1>1, <1>3, <1>4, LaneKept
<1>6. TypeOK'
      BY <1>1, <1>5 DEF Inv, TypeOK
<1>7. ASSUME NEW x \in Items PROVE (Placed(x) /\ Told(x) /\ Keyed(x))'
  <2>1. Placed(x) /\ Told(x) /\ Keyed(x)
        BY DEF Inv, ItemShape
  <2>2. PlacedIn(x, Queued, act, notes, at', work')
        BY <1>1, <1>2, <2>1 DEF Inv, TypeOK, Placed, PlacedIn, act, notes
  <2>3. Placed(x)'
        BY <1>4, <2>2, PlaceKept DEF Placed
  <2>4. Told(x)' /\ Keyed(x)'
        BY <1>1, <1>2, <2>1 DEF Inv, TypeOK, Told, Keyed
  <2> QED BY <2>3, <2>4
<1>8. KeyOwner'
  <2>1. ASSUME NEW x \in (Queued \cup active) \ {i}, work[x].kind = "submit"
        PROVE  owner'[work[x].key] = x
    <3>1. owner[work[x].key] = x /\ work[x].key \in Keys
          BY <2>1, Frame DEF Inv, KeyOwner, ItemShape, Keyed
    <3>2. work[x].key # work[i].key
          BY <1>2, <2>1, <3>1, LaneAssumption DEF Inv, KeyOwner, ItemShape, Keyed
    <3> QED BY <1>1, <3>1, <3>2
  <2>2. ASSUME NEW k \in Keys, owner'[k] # NoItem
        PROVE  owner'[k] \in (Queued \cup active) \ {i} /\ work[owner'[k]].key = k
        BY <1>1, <2>2 DEF Inv, KeyOwner
  <2>3. (Queued \cup active)' = (Queued \cup active) \ {i}
        BY <1>2, <1>5 DEF act
  <2> QED BY <1>1, <2>1, <2>2, <2>3 DEF KeyOwner
<1> QED BY <1>5, <1>6, <1>7, <1>8 DEF Inv, ItemShape

LEMMA SetLimitInv ==
  ASSUME Inv, NEW n \in 0..MaxLimit, SetLimit(n)
  PROVE  Inv'
<1> DEFINE lim == IF n < 1 THEN 1 ELSE n
<1>1. /\ limit' = lim /\ Schedule(queue, active, lim, note)
      /\ UNCHANGED <<owner, shut, work, at, gone, answer, attached, closing>>
      BY DEF SetLimit, calls
<1>2. /\ lim \in 1..MaxLimit /\ Queued \in SUBSET Items /\ active \in SUBSET active
      /\ note \in [Items -> {"none", "start", "shutdown"}]
      BY Frame, LaneAssumption DEF Inv, TypeOK
<1> HIDE DEF lim
<1>3. Scheduled(Queued, active, lim, note)
  <2>1. Schedulable(queue, active)
        BY Frame DEF Schedulable, Inv, LaneShape
  <2>2. Scheduled(Elems(queue), active, lim, note)
        BY <1>1, <1>2, <2>1, ScheduleEffect
  <2> QED BY <2>2, Frame
<1>4. /\ queue' \in Seq(Items) /\ active' \in SUBSET Items /\ idleOpen' \in BOOLEAN
      /\ note' \in [Items -> {"none", "start", "shutdown"}]
      /\ LaneShape' /\ WorkConserving' /\ Queued' \cup active' = Queued \cup active
      BY <1>1, <1>2, <1>3, LaneKept
<1>5. TypeOK'
      BY <1>1, <1>2, <1>4 DEF Inv, TypeOK
<1>6. ASSUME NEW x \in Items PROVE (Placed(x) /\ Told(x) /\ Keyed(x))'
  <2>1. Placed(x) /\ Told(x) /\ Keyed(x)
        BY DEF Inv, ItemShape
  <2>2. Placed(x)'
        BY <1>1, <1>3, <2>1, PlaceKept DEF Placed
  <2> QED BY <1>1, <2>1, <2>2 DEF Told, Keyed
<1>7. KeyOwner'
      BY <1>1, <1>4 DEF Inv, KeyOwner
<1> QED BY <1>4, <1>5, <1>6, <1>7 DEF Inv, ItemShape

\* A callback begins, or a caller learns of the shutdown.
LEMMA ReadInv ==
  ASSUME Inv, NEW i \in Items, Begin(i) \/ Refused(i)
  PROVE  Inv'
<1>1. /\ UNCHANGED <<limit, queue, active, owner, shut, idleOpen, work, gone, attached, closing>>
      /\ Queued' = Queued /\ at[i] = "waiting"
      /\ note' = [note EXCEPT ![i] = "none"]
      /\ \/ /\ note[i] = "start" /\ at' = [at EXCEPT ![i] = "running"]
            /\ answer' = [answer EXCEPT ![i].ran = TRUE]
         \/ /\ note[i] = "shutdown" /\ at' = [at EXCEPT ![i] = "idle"]
            /\ answer' = [answer EXCEPT ![i].told = "shutdown"]
      BY DEF Begin, Refused, Tell, Queued
<1>2. TypeOK'
  <2>1. /\ note' \in [Items -> {"none", "start", "shutdown"}]
        /\ at' \in [Items -> {"idle", "waiting", "running"}]
        BY <1>1 DEF Inv, TypeOK
  <2> DEFINE R == [told : {"none", "result", "cancelled", "shutdown"}, ran : BOOLEAN]
  <2>2. answer' \in [Items -> R]
    <3>1. answer \in [Items -> R] /\ answer[i] \in R
          BY DEF Inv, TypeOK
    <3>2. CASE answer' = [answer EXCEPT ![i].ran = TRUE]
      <4> DEFINE begun == [answer[i] EXCEPT !.ran = TRUE]
      <4>1. begun \in R
            BY <3>1
      <4>2. answer' = [answer EXCEPT ![i] = begun]
            BY <3>1, <3>2
      <4> HIDE DEF R, begun
      <4> QED BY <3>1, <4>1, <4>2
    <3>3. CASE answer' = [answer EXCEPT ![i].told = "shutdown"]
          BY <3>1, <3>3
    <3> QED BY <1>1, <3>2, <3>3
  <2> QED BY <1>1, <2>1, <2>2 DEF Inv, TypeOK
<1>3. ASSUME NEW x \in Items PROVE (Placed(x) /\ Told(x) /\ Keyed(x))'
  <2>1. Placed(x) /\ Told(x) /\ Keyed(x) /\ Placed(i) /\ Told(i)
        BY DEF Inv, ItemShape
  <2>2. Placed(x)'
        BY <1>1, <2>1 DEF Inv, TypeOK, Placed, PlacedIn
  <2>3. Told(x)'
        BY <1>1, <2>1 DEF Inv, TypeOK, Told
  <2> QED BY <1>1, <2>1, <2>2, <2>3 DEF Keyed
<1>4. LaneShape' /\ WorkConserving' /\ KeyOwner'
      BY <1>1 DEF Inv, LaneShape, Distinct, WorkConserving, KeyOwner
<1> QED BY <1>2, <1>3, <1>4 DEF Inv, ItemShape

LEMMA ShutdownInv ==
  ASSUME Inv, Shutdown
  PROVE  Inv'
<1>1. /\ shut' = TRUE /\ closing' = "marked" /\ queue' = <<>> /\ Queued' = {}
      /\ owner' = [k \in Keys |-> IF owner[k] \in Queued THEN NoItem ELSE owner[k]]
      /\ note' = [x \in Items |-> IF x \in Queued /\ work[x].kind = "run"
                                  THEN "shutdown" ELSE note[x]]
      /\ at' = [x \in Items |-> IF x \in Queued /\ work[x].kind = "submit"
                                THEN "idle" ELSE at[x]]
      /\ answer' = [x \in Items |-> IF x \in Queued /\ work[x].kind = "submit"
                                    THEN [answer[x] EXCEPT !.told = "shutdown"] ELSE answer[x]]
      /\ UNCHANGED <<limit, active, idleOpen, work, gone, attached>>
      BY DEF Shutdown, Queued
<1>2. TypeOK'
  <2>1. queue' \in Seq(Items)
        BY <1>1
  <2>2. answer' \in [Items -> [told : {"none", "result", "cancelled", "shutdown"}, ran : BOOLEAN]]
        BY <1>1 DEF Inv, TypeOK
  <2>3. owner' \in [Keys -> Items \cup {NoItem}]
        BY <1>1 DEF Inv, TypeOK
  <2>4. /\ note' \in [Items -> {"none", "start", "shutdown"}]
        /\ at' \in [Items -> {"idle", "waiting", "running"}]
        BY <1>1 DEF Inv, TypeOK
  <2> QED BY <1>1, <2>1, <2>2, <2>3, <2>4 DEF Inv, TypeOK
<1>3. LaneShape'
  <2>1. DOMAIN queue' = {}
        BY <1>1
  <2> QED BY <1>1, <2>1 DEF Inv, LaneShape, Distinct
<1>4. ASSUME NEW x \in Items PROVE (Placed(x) /\ Told(x) /\ Keyed(x))'
  <2>1. Placed(x) /\ Told(x) /\ Keyed(x)
        BY DEF Inv, ItemShape
  <2>2. /\ note'[x] = IF x \in Queued /\ work[x].kind = "run" THEN "shutdown" ELSE note[x]
        /\ at'[x] = IF x \in Queued /\ work[x].kind = "submit" THEN "idle" ELSE at[x]
        /\ answer'[x] = IF x \in Queued /\ work[x].kind = "submit"
                        THEN [answer[x] EXCEPT !.told = "shutdown"] ELSE answer[x]
        BY <1>1
  <2>3. Placed(x)'
        BY <1>1, <2>1, <2>2 DEF Placed, PlacedIn
  <2>4. Told(x)'
        BY <2>1, <2>2 DEF Inv, TypeOK, Told, Placed, PlacedIn
  <2> QED BY <1>1, <2>1, <2>3, <2>4 DEF Keyed
<1>5. WorkConserving'
      BY <1>1 DEF WorkConserving
<1>6. KeyOwner'
  <2>1. (Queued \cup active)' = active /\ active \in SUBSET Items
        BY <1>1, Frame
  <2>2. ASSUME NEW x \in active, work[x].kind = "submit"
        PROVE  owner'[work[x].key] = x
    <3>1. owner[work[x].key] = x /\ work[x].key \in Keys
          BY <2>1, <2>2 DEF Inv, KeyOwner, ItemShape, Keyed
    <3>2. x \notin Queued
          BY Frame
    <3> QED BY <1>1, <3>1, <3>2
  <2>3. ASSUME NEW k \in Keys, owner'[k] # NoItem
        PROVE  owner'[k] \in active /\ work[owner'[k]].key = k
        BY <1>1, <2>3 DEF Inv, KeyOwner
  <2> QED BY <1>1, <2>1, <2>2, <2>3 DEF KeyOwner
<1> QED BY <1>2, <1>3, <1>4, <1>5, <1>6 DEF Inv, ItemShape

\* What leaves the lane itself as it is, and the two steps after a shutdown.
LEMMA OutsideInv ==
  ASSUME Inv, UNCHANGED vars \/ Detach \/ CancelActive \/ ShutdownReturns
              \/ \E i \in Items : Cancel(i)
  PROVE  Inv'
<1>1. /\ UNCHANGED <<limit, queue, active, owner, shut, idleOpen, work, at, note, answer>>
      /\ Queued' = Queued
      BY DEF vars, calls, Detach, CancelActive, ShutdownReturns, Cancel, Queued
<1>2. /\ gone' \in SUBSET Items /\ attached' \in BOOLEAN
      /\ \/ closing' = closing
         \/ closing = "marked" /\ closing' = "waiting"
         \/ closing = "waiting" /\ closing' = "quiet" /\ ~idleOpen
         \/ closing = "waiting" /\ closing' = "timeout"
      BY DEF vars, calls, Detach, CancelActive, ShutdownReturns, Cancel, Inv, TypeOK
<1>3. TypeOK'
      BY <1>1, <1>2 DEF Inv, TypeOK
<1>4. LaneShape'
      BY <1>1, <1>2 DEF Inv, LaneShape, Distinct
<1>5. ItemShape'
  <2>1. ASSUME NEW x \in Items PROVE (Placed(x) /\ Told(x) /\ Keyed(x))'
        BY <1>1 DEF Inv, ItemShape, Placed, PlacedIn, Told, Keyed
  <2> QED BY <2>1 DEF ItemShape
<1>6. WorkConserving' /\ KeyOwner'
      BY <1>1 DEF Inv, WorkConserving, KeyOwner
<1> QED BY <1>3, <1>4, <1>5, <1>6 DEF Inv

LEMMA NextInv == Inv /\ [Next]_vars => Inv'
<1> SUFFICES ASSUME Inv, [Next]_vars PROVE Inv'
    OBVIOUS
<1>1. ASSUME NEW i \in Items, Run(i) PROVE Inv'
      BY <1>1, RunInv
<1>2. ASSUME NEW i \in Items, NEW k \in Keys, Submit(i, k) PROVE Inv'
      BY <1>2, SubmitInv
<1>3. ASSUME NEW i \in Items, TryRun(i) PROVE Inv'
      BY <1>3, TryRunInv
<1>4. ASSUME NEW i \in Items, Cancel(i) PROVE Inv'
      BY <1>4, OutsideInv
<1>5. ASSUME NEW i \in Items, GiveUp(i) PROVE Inv'
      BY <1>5, GiveUpInv
<1>6. ASSUME NEW i \in Items, Begin(i) \/ Refused(i) PROVE Inv'
      BY <1>6, ReadInv
<1>7. ASSUME NEW i \in Items, TooLate(i) PROVE Inv'
      BY <1>7, FinishInv DEF TooLate
<1>8. ASSUME NEW i \in Items, Finish(i) PROVE Inv'
      BY <1>8, FinishInv DEF Finish
<1>9. ASSUME NEW n \in 0..MaxLimit, SetLimit(n) PROVE Inv'
      BY <1>9, SetLimitInv
<1>10. CASE Shutdown
       BY <1>10, ShutdownInv
<1>11. CASE UNCHANGED vars \/ Detach \/ CancelActive \/ ShutdownReturns
       BY <1>11, OutsideInv
<1> QED BY <1>1, <1>2, <1>3, <1>4, <1>5, <1>6, <1>7, <1>8, <1>9, <1>10, <1>11
        DEF Next, Execute

\* The inductive invariant holds in every behaviour of the lane.
THEOREM Invariance == Spec => []Inv
  BY InitInv, NextInv, PTL DEF Spec

(***************************************************************************)
(* The theorems.                                                           *)
(***************************************************************************)
\* Every variable of the lane has its type.
THEOREM TypeCorrect == Spec => []TypeOK
<1>1. Inv => TypeOK
      BY DEF Inv
<1> QED BY <1>1, Invariance, PTL

\* scheduleLocked is called wherever a slot can become free: nothing is queued
\* while one is.
THEOREM NoIdleSlot == Spec => []WorkConserving
<1>1. Inv => WorkConserving
      BY DEF Inv
<1> QED BY <1>1, Invariance, PTL

\* A coalescing key is registered exactly while its item is in the lane.
THEOREM KeysMatch == Spec => []KeyOwner
<1>1. Inv => KeyOwner
      BY DEF Inv
<1> QED BY <1>1, Invariance, PTL

\* No caller of Run waits for an answer nobody will give, and what it is told
\* of its work is true.
THEOREM EveryCallerAnswered == Spec => []Answered
<1>1. Inv => Answered
      BY DEF Inv, ItemShape, Placed, PlacedIn, Told, Answered
<1> QED BY <1>1, Invariance, PTL

\* A shutdown that saw the lane idle leaves nothing running or queued in it.
THEOREM QuietAfterShutdown == Spec => []Quiesced
<1>1. Inv => Quiesced
      BY DEF Inv, LaneShape, Quiesced
<1> QED BY <1>1, Invariance, PTL
=============================================================================
