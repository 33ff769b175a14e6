---------------------------- MODULE RangeProofs ----------------------------
EXTENDS MaterializedRanges, RangeFilter, FiniteSetTheorems, TLAPS

LEMMA StreamType ==
  ASSUME NEW s \in Streams
  PROVE  /\ s \in Seq(Ranges)
         /\ \A i \in 1 .. Len(s) :
              /\ s[i] \in Ranges
              /\ s[i].lo \in Addresses /\ s[i].hi \in Addresses
              /\ s[i].lo <= s[i].hi
         /\ \A i, j \in 1 .. Len(s) : i < j => s[i].hi < s[j].lo
BY DEF Streams, Disjoint, Ranges

LEMMA CoveredNat ==
  ASSUME NEW s
  PROVE  Covered(s) \subseteq Nat
BY DEF Covered, Addresses

LEMMA TailFacts ==
  ASSUME MaxAddr \in Nat, NEW s \in Streams, s # <<>>
  PROVE  /\ Head(s) \in Ranges
         /\ Tail(s) \in Streams
         /\ Covered(s) = Within(Head(s)) \cup Covered(Tail(s))
         /\ \A x \in Covered(Tail(s)) : Head(s).hi < x
<1> DEFINE t == Tail(s)
<1>1. /\ s \in Seq(Ranges) /\ t \in Seq(Ranges)
      /\ Len(s) \in Nat /\ Len(s) >= 1
      /\ Len(t) = Len(s) - 1
      /\ \A i \in 1 .. Len(t) : t[i] = s[i + 1]
      /\ Head(s) = s[1] /\ s[1] \in Ranges
  BY StreamType
<1> HIDE DEF t
<1>2. \A i, j \in 1 .. Len(t) : i < j => t[i].hi < t[j].lo
  <2> SUFFICES ASSUME NEW i \in 1 .. Len(t), NEW j \in 1 .. Len(t), i < j
               PROVE  t[i].hi < t[j].lo
    OBVIOUS
  <2>1. i + 1 \in 1 .. Len(s) /\ j + 1 \in 1 .. Len(s) /\ i + 1 < j + 1
    BY <1>1
  <2> QED BY <1>1, <2>1, StreamType
<1>3. t \in Streams
  BY <1>1, <1>2 DEF Streams, Disjoint
<1>4. ASSUME NEW x \in Covered(t) PROVE s[1].hi < x /\ x \in Covered(s)
  <2>1. PICK i \in 1 .. Len(t) : x \in Within(t[i])
    BY DEF Covered
  <2>2. i + 1 \in 1 .. Len(s) /\ 1 \in 1 .. Len(s) /\ 1 < i + 1 /\ t[i] = s[i + 1]
    BY <1>1
  <2>3. s[1].hi < s[i + 1].lo /\ s[1].hi \in Addresses /\ s[i + 1].lo \in Addresses
    BY <2>2, StreamType
  <2>4. x \in Addresses /\ s[i + 1].lo <= x
    BY <2>1, <2>2 DEF Within
  <2>5. s[1].hi < x
    BY <2>3, <2>4 DEF Addresses
  <2>6. x \in Covered(s)
    BY <2>1, <2>2, <2>4 DEF Covered
  <2> QED BY <2>5, <2>6
<1>5. ASSUME NEW x \in Within(s[1]) PROVE x \in Covered(s)
  BY <1>1, <1>5 DEF Covered, Within
<1>6. ASSUME NEW x \in Covered(s), x \notin Within(s[1]) PROVE x \in Covered(t)
  <2>1. PICK i \in 1 .. Len(s) : x \in Within(s[i])
    BY DEF Covered
  <2>2. i # 1
    BY <2>1, <1>6
  <2>3. i - 1 \in 1 .. Len(t) /\ t[i - 1] = s[i]
    BY <2>1, <2>2, <1>1
  <2> QED BY <2>1, <2>3 DEF Covered, Within
<1> QED BY <1>1, <1>3, <1>4, <1>5, <1>6 DEF t

LEMMA ConsFacts ==
  ASSUME MaxAddr \in Nat, NEW t \in Streams, NEW r \in Ranges,
         \A x \in Covered(t) : r.hi < x
  PROVE  /\ <<r>> \o t \in Streams
         /\ Covered(<<r>> \o t) = Within(r) \cup Covered(t)
<1> DEFINE s == <<r>> \o t
<1>1. /\ s \in Seq(Ranges)
      /\ Len(t) \in Nat /\ Len(s) = Len(t) + 1
      /\ s[1] = r
      /\ \A i \in 1 .. Len(t) : s[i + 1] = t[i]
  BY StreamType
<1> HIDE DEF s
<1>2. \A i \in 1 .. Len(s) : i = 1 \/ (i - 1 \in 1 .. Len(t) /\ s[i] = t[i - 1])
  <2> SUFFICES ASSUME NEW i \in 1 .. Len(s), i # 1
               PROVE  i - 1 \in 1 .. Len(t) /\ s[i] = t[i - 1]
    OBVIOUS
  <2>1. i - 1 \in 1 .. Len(t) /\ (i - 1) + 1 = i
    BY <1>1
  <2> QED BY <1>1, <2>1
<1>3. \A i \in 1 .. Len(t) : r.hi < t[i].lo
  <2> SUFFICES ASSUME NEW i \in 1 .. Len(t) PROVE r.hi < t[i].lo
    OBVIOUS
  <2>1. t[i].lo \in Addresses /\ t[i].hi \in Addresses /\ t[i].lo <= t[i].hi
    BY StreamType
  <2>2. t[i].lo \in Covered(t)
    BY <2>1 DEF Covered, Within, Addresses
  <2> QED BY <2>2
<1>4. \A i, j \in 1 .. Len(s) : i < j => s[i].hi < s[j].lo
  <2> SUFFICES ASSUME NEW i \in 1 .. Len(s), NEW j \in 1 .. Len(s), i < j
               PROVE  s[i].hi < s[j].lo
    OBVIOUS
  <2>1. j # 1 /\ j - 1 \in 1 .. Len(t) /\ s[j] = t[j - 1]
    BY <1>1, <1>2
  <2>2. CASE i = 1
    BY <2>1, <2>2, <1>1, <1>3
  <2>3. CASE i # 1
    <3>1. i - 1 \in 1 .. Len(t) /\ s[i] = t[i - 1] /\ i - 1 < j - 1
      BY <2>3, <1>1, <1>2
    <3> QED BY <3>1, <2>1, StreamType
  <2> QED BY <2>2, <2>3
<1>5. s \in Streams
  BY <1>1, <1>4 DEF Streams, Disjoint
<1>6. ASSUME NEW x \in Covered(s) PROVE x \in Within(r) \cup Covered(t)
  <2>1. PICK i \in 1 .. Len(s) : x \in Within(s[i])
    BY DEF Covered
  <2>2. i = 1 \/ (i - 1 \in 1 .. Len(t) /\ s[i] = t[i - 1])
    BY <1>2
  <2> QED BY <2>1, <2>2, <1>1 DEF Covered, Within
<1>7. ASSUME NEW x \in Covered(t) PROVE x \in Covered(s)
  <2>1. PICK i \in 1 .. Len(t) : x \in Within(t[i])
    BY DEF Covered
  <2>2. i + 1 \in 1 .. Len(s) /\ s[i + 1] = t[i]
    BY <1>1
  <2> QED BY <2>1, <2>2 DEF Covered, Within
<1>8. ASSUME NEW x \in Within(r) PROVE x \in Covered(s)
  <2>1. 1 \in 1 .. Len(s)
    BY <1>1
  <2> QED BY <2>1, <1>1 DEF Covered, Within
<1> QED BY <1>5, <1>6, <1>7, <1>8 DEF s

LEMMA AppendFacts ==
  ASSUME MaxAddr \in Nat, NEW s \in Streams, NEW r \in Ranges,
         \A x \in Covered(s) : x < r.lo
  PROVE  /\ Append(s, r) \in Streams
         /\ Covered(Append(s, r)) = Covered(s) \cup Within(r)
         /\ Apart(s) /\ (\A x \in Covered(s) : x + 1 < r.lo) => Apart(Append(s, r))
<1> DEFINE t == Append(s, r)
<1>1. /\ t \in Seq(Ranges)
      /\ Len(s) \in Nat /\ Len(t) = Len(s) + 1
      /\ t[Len(s) + 1] = r
      /\ \A i \in 1 .. Len(s) : t[i] = s[i]
  BY StreamType
<1> HIDE DEF t
<1>2. \A i \in 1 .. Len(t) : i \in 1 .. Len(s) \/ i = Len(s) + 1
  BY <1>1
<1>3. \A i \in 1 .. Len(s) : s[i].hi \in Covered(s)
  <2> SUFFICES ASSUME NEW i \in 1 .. Len(s) PROVE s[i].hi \in Covered(s)
    OBVIOUS
  <2>1. s[i].lo \in Addresses /\ s[i].hi \in Addresses /\ s[i].lo <= s[i].hi
    BY StreamType
  <2> QED BY <2>1 DEF Covered, Within, Addresses
<1>4. \A i, j \in 1 .. Len(t) : i < j => t[i].hi < t[j].lo
  <2> SUFFICES ASSUME NEW i \in 1 .. Len(t), NEW j \in 1 .. Len(t), i < j
               PROVE  t[i].hi < t[j].lo
    OBVIOUS
  <2>1. i \in 1 .. Len(s) /\ t[i] = s[i]
    BY <1>1, <1>2
  <2>2. CASE j \in 1 .. Len(s)
    BY <2>1, <2>2, <1>1, StreamType
  <2>3. CASE j = Len(s) + 1
    BY <2>1, <2>3, <1>1, <1>3
  <2> QED BY <2>2, <2>3, <1>2
<1>5. t \in Streams
  BY <1>1, <1>4 DEF Streams, Disjoint
<1>6. ASSUME NEW x \in Covered(t) PROVE x \in Covered(s) \cup Within(r)
  <2>1. PICK i \in 1 .. Len(t) : x \in Within(t[i])
    BY DEF Covered
  <2>2. (i \in 1 .. Len(s) /\ t[i] = s[i]) \/ t[i] = r
    BY <1>1, <1>2
  <2> QED BY <2>1, <2>2 DEF Covered, Within
<1>7. ASSUME NEW x \in Covered(s) PROVE x \in Covered(t)
  <2>1. PICK i \in 1 .. Len(s) : x \in Within(s[i])
    BY DEF Covered
  <2>2. i \in 1 .. Len(t) /\ t[i] = s[i]
    BY <1>1
  <2> QED BY <2>1, <2>2 DEF Covered, Within
<1>8. ASSUME NEW x \in Within(r) PROVE x \in Covered(t)
  <2>1. Len(s) + 1 \in 1 .. Len(t)
    BY <1>1
  <2> QED BY <2>1, <1>1 DEF Covered, Within
<1>9. ASSUME Apart(s), \A x \in Covered(s) : x + 1 < r.lo
      PROVE  Apart(t)
  <2> SUFFICES ASSUME NEW i \in 1 .. Len(t), NEW j \in 1 .. Len(t), i < j
               PROVE  t[i].hi + 1 < t[j].lo
    BY DEF Apart
  <2>1. i \in 1 .. Len(s) /\ t[i] = s[i]
    BY <1>1, <1>2
  <2>2. CASE j \in 1 .. Len(s)
    <3>1. t[j] = s[j]
      BY <2>2, <1>1
    <3> QED BY <2>1, <2>2, <3>1, <1>9 DEF Apart
  <2>3. CASE j = Len(s) + 1
    BY <2>1, <2>3, <1>1, <1>3, <1>9
  <2> QED BY <2>2, <2>3, <1>2
<1> QED BY <1>5, <1>6, <1>7, <1>8, <1>9 DEF t

LEMMA EmptyFacts ==
  /\ <<>> \in Streams
  /\ Covered(<<>>) = {}
  /\ Apart(<<>>)
BY DEF Streams, Disjoint, Covered, Apart

LEMMA FirstInside ==
  ASSUME MaxAddr \in Nat, NEW r \in Ranges
  PROVE  /\ r.lo \in Within(r) /\ r.hi \in Within(r)
         /\ r.lo \in Nat /\ r.hi \in Nat /\ r.lo <= r.hi /\ r.hi <= MaxAddr
BY DEF Ranges, Within, Addresses

LEMMA BeyondFacts ==
  ASSUME MaxAddr \in Nat, NEW s \in Streams, s # <<>>, NEW h \in Addresses
  PROVE  /\ Beyond(s, h) \in Streams
         /\ Head(s).hi <= h => Covered(Beyond(s, h)) = Covered(Tail(s))
         /\ Head(s).hi > h /\ Head(s).lo <= h =>
              Covered(Beyond(s, h)) = {x \in Covered(s) : h < x}
<1>1. CASE Head(s).hi <= h
  BY <1>1, TailFacts, FirstInside DEF Beyond, Addresses
<1>2. CASE ~(Head(s).hi <= h)
  <2> DEFINE r == [Head(s) EXCEPT !.lo = Succ(h)]
  <2>1. /\ Head(s) \in Ranges /\ Head(s).lo \in Nat /\ Head(s).hi \in Addresses
        /\ h \in Nat /\ h < Head(s).hi /\ h < MaxAddr
    BY <1>2, TailFacts, FirstInside DEF Addresses
  <2>2. Succ(h) = h + 1
    BY <2>1 DEF Succ
  <2>3. r \in Ranges /\ r.lo = h + 1 /\ r.hi = Head(s).hi
    BY <2>1, <2>2 DEF Ranges, Addresses
  <2> HIDE DEF r
  <2>4. \A x \in Covered(Tail(s)) : r.hi < x
    BY <2>3, TailFacts
  <2>5. /\ <<r>> \o Tail(s) \in Streams
        /\ Covered(<<r>> \o Tail(s)) = Within(r) \cup Covered(Tail(s))
    BY <2>3, <2>4, TailFacts, ConsFacts
  <2>6. Beyond(s, h) = <<r>> \o Tail(s)
    BY <1>2 DEF Beyond, r
  <2>7. ASSUME Head(s).lo <= h
        PROVE  Within(r) \cup Covered(Tail(s)) = {x \in Covered(s) : h < x}
    <3>1. Covered(s) = Within(Head(s)) \cup Covered(Tail(s))
      BY TailFacts
    <3>2. \A x \in Covered(Tail(s)) : Head(s).hi < x /\ x \in Nat
      BY TailFacts DEF Covered, Addresses
    <3>3. \A x : x \in Within(r) <=> (x \in Within(Head(s)) /\ h < x)
      BY <2>1, <2>3, <2>7 DEF Within, Addresses
    <3>4. \A x \in Covered(Tail(s)) : h < x
      BY <3>2, <2>1 DEF Addresses
    <3> QED BY <3>1, <3>3, <3>4
  <2> QED BY <1>2, <2>1, <2>5, <2>6, <2>7 DEF Addresses
<1> QED BY <1>1, <1>2

(***************************************************************************)
(* The invariants.                                                         *)
(***************************************************************************)
InputsOK == given \in [Sources -> Streams] /\ rest \in [Sources -> Streams]

Rest(s) == Covered(rest[s])

\* What is yielded or held back comes before what is still to come.
Sofar == Covered(out) \cup Within(pending)

Emitted ==
  /\ out \in Streams /\ Apart(out)
  /\ pending \in Ranges \cup {NoRange}
  /\ pending # NoRange => \A x \in Covered(out) : x + 1 < pending.lo

LEMMA NothingPending ==
  /\ Within(NoRange) = {}
  /\ NoRange \notin Ranges
BY DEF Within, NoRange, Ranges, Addresses

LEMMA YieldsFrom ==
  ASSUME MaxAddr \in Nat, out \in Streams, NEW todo, NEW result, NEW done \in BOOLEAN,
         result = Covered(out) \cup todo,
         \A x \in Covered(out), y \in todo : x < y,
         todo \subseteq Nat,
         done => todo = {}
  PROVE  Yields(result, done)
<1>1. UpTo(result, out)
  <2> SUFFICES ASSUME NEW i \in 1 .. Len(out), NEW x \in result, x <= out[i].hi
               PROVE  x \in Covered(out)
    BY DEF UpTo
  <2>1. out[i].hi \in Covered(out) /\ out[i].hi \in Nat
    BY StreamType DEF Covered, Within, Addresses
  <2>2. ASSUME x \in todo PROVE FALSE
    <3>1. out[i].hi < x /\ x \in Nat
      BY <2>1, <2>2
    <3> QED BY <2>1, <3>1
  <2> QED BY <2>2
<1> QED BY <1>1 DEF Yields

LEMMA EmitFacts ==
  ASSUME MaxAddr \in Nat, NEW r \in Ranges, Emitted, Emit(r),
         pending = NoRange => out = <<>>,
         pending # NoRange => pending.lo <= r.lo
  PROVE  /\ Emitted'
         /\ pending' # NoRange /\ pending'.lo <= r.lo
         /\ pending # NoRange => pending'.lo >= pending.lo
         /\ Sofar' = Sofar \cup Within(r)
<1>1. CASE pending = NoRange /\ pending' = r /\ UNCHANGED out
  BY <1>1, NothingPending, EmptyFacts, FirstInside DEF Emitted, Sofar
<1>2. CASE /\ pending # NoRange /\ CanMerge(pending, r)
           /\ pending' = [pending EXCEPT !.hi = Higher(@, r.hi)]
           /\ UNCHANGED out
  <2>1. /\ pending \in Ranges
        /\ pending.lo \in Nat /\ pending.hi \in Nat /\ pending.lo <= pending.hi
        /\ pending.hi <= MaxAddr
        /\ r.lo \in Nat /\ r.hi \in Nat /\ r.lo <= r.hi /\ r.hi <= MaxAddr
    BY <1>2, FirstInside DEF Emitted
  <2>2. r.lo <= pending.hi + 1
    BY <1>2, <2>1 DEF CanMerge, Succ
  <2>3. /\ pending' \in Ranges
        /\ pending'.lo = pending.lo
        /\ pending'.hi = Higher(pending.hi, r.hi)
    BY <1>2, <2>1 DEF Ranges, Higher, Addresses
  <2>4. \A x : x \in Within(pending') <=> x \in Within(pending) \/ x \in Within(r)
    BY <1>2, <2>1, <2>2, <2>3 DEF Within, Addresses, Higher
  <2>5. Sofar' = Sofar \cup Within(r)
    <3>1. Within(pending') = Within(pending) \cup Within(r)
      BY <2>4
    <3> QED BY <1>2, <3>1 DEF Sofar
  <2>6. pending' # NoRange
    BY <2>3, NothingPending
  <2>7. Emitted'
    BY <1>2, <2>3 DEF Emitted
  <2> QED BY <1>2, <2>1, <2>3, <2>5, <2>6, <2>7
<1>3. CASE /\ pending # NoRange /\ ~CanMerge(pending, r)
           /\ out' = Append(out, pending)
           /\ pending' = r
  <2>1. /\ pending \in Ranges
        /\ pending.lo \in Nat /\ pending.hi \in Nat /\ pending.lo <= pending.hi
        /\ pending.hi <= MaxAddr
        /\ r.lo \in Nat /\ r.hi \in Nat /\ r.lo <= r.hi /\ r.hi <= MaxAddr
    BY <1>3, FirstInside DEF Emitted
  <2>2. pending.hi + 1 < r.lo
    BY <1>3, <2>1 DEF CanMerge, Succ
  <2>3. \A x \in Covered(out) : x \in Nat /\ x + 1 < pending.lo
    BY <1>3 DEF Emitted, Covered, Addresses
  <2>4. \A x \in Covered(out) : x < pending.lo
    BY <2>1, <2>3
  <2>5. /\ out' \in Streams /\ Apart(out')
        /\ Covered(out') = Covered(out) \cup Within(pending)
    BY <1>3, <2>1, <2>3, <2>4, AppendFacts DEF Emitted
  <2>6. \A x \in Covered(out) \cup Within(pending) : x + 1 < r.lo
    BY <1>3, <2>1, <2>2, <2>3 DEF Within, Addresses
  <2>7. Emitted'
    BY <1>3, <2>5, <2>6 DEF Emitted
  <2>8. r # NoRange
    BY NothingPending
  <2>9. Sofar' = Sofar \cup Within(r)
    BY <1>3, <2>5 DEF Sofar
  <2> QED BY <1>3, <2>1, <2>7, <2>8, <2>9
<1> QED BY <1>1, <1>2, <1>3 DEF Emit, Yield

LEMMA FlushFacts ==
  ASSUME MaxAddr \in Nat, Emitted, Flush
  PROVE  /\ Emitted'
         /\ Sofar' = Sofar
<1>1. pending \in Ranges /\ pending.lo \in Nat
  BY FirstInside DEF Emitted, Flush
<1>2. \A x \in Covered(out) : x \in Nat /\ x + 1 < pending.lo
  BY DEF Emitted, Flush, Covered, Addresses
<1>3. \A x \in Covered(out) : x < pending.lo
  BY <1>1, <1>2
<1>4. /\ Append(out, pending) \in Streams /\ Apart(Append(out, pending))
      /\ Covered(Append(out, pending)) = Covered(out) \cup Within(pending)
  BY <1>1, <1>2, <1>3, AppendFacts DEF Emitted
<1> QED BY <1>4, NothingPending DEF Flush, Yield, Emitted, Sofar

(***************************************************************************)
(* Intersection.                                                           *)
(***************************************************************************)
IntersectInv ==
  /\ InputsOK
  /\ out \in Streams
  /\ Intersection = Covered(out) \cup (Rest(A) \cap Rest(B))
  /\ \A x \in Covered(out), y \in Rest(A) \cap Rest(B) : x < y

\* Two heads that do not overlap: the first one shares nothing with the other
\* input.
LEMMA SkipFacts ==
  ASSUME MaxAddr \in Nat, InputsOK, NEW s \in Sources, NEW t \in Sources,
         Left(s), Left(t), Before(s, t)
  PROVE  \A x \in Within(First(s)) : x \notin Rest(t)
<1>1. /\ First(s) \in Ranges /\ First(t) \in Ranges
      /\ Rest(t) = Within(First(t)) \cup Covered(Tail(rest[t]))
      /\ \A x \in Covered(Tail(rest[t])) : First(t).hi < x
  BY TailFacts DEF InputsOK, Left, First, Rest
<1>2. \A x \in Rest(t) : x \in Nat /\ First(t).lo <= x
  <2>1. \A x \in Rest(t) : x \in Nat
    BY DEF Rest, Covered, Addresses
  <2>2. \A x \in Within(First(t)) : First(t).lo <= x
    BY DEF Within
  <2>3. \A x \in Covered(Tail(rest[t])) : x \in Nat => First(t).lo <= x
    BY <1>1, FirstInside
  <2> QED BY <1>1, <2>1, <2>2, <2>3
<1> QED BY <1>1, <1>2, FirstInside DEF Before, Within, Addresses

LEMMA AdvanceFacts ==
  ASSUME MaxAddr \in Nat, InputsOK, NEW s \in Sources, Left(s), Advance(s), UNCHANGED given
  PROVE  /\ InputsOK'
         /\ First(s) \in Ranges
         /\ Rest(s) = Within(First(s)) \cup Rest(s)'
         /\ \A x \in Rest(s)' : First(s).hi < x
         /\ \A t \in Sources \ {s} : rest'[t] = rest[t] /\ Rest(t)' = Rest(t)
<1>1. /\ rest'[s] = Tail(rest[s])
      /\ \A t \in Sources \ {s} : rest'[t] = rest[t]
      /\ rest' = [rest EXCEPT ![s] = Tail(rest[s])]
  BY DEF Advance, InputsOK
<1>2. /\ First(s) \in Ranges /\ Tail(rest[s]) \in Streams
      /\ Rest(s) = Within(First(s)) \cup Covered(Tail(rest[s]))
      /\ \A x \in Covered(Tail(rest[s])) : First(s).hi < x
  BY TailFacts DEF InputsOK, Left, First, Rest
<1> QED BY <1>1, <1>2 DEF InputsOK, Rest

LEMMA OverlapFacts ==
  ASSUME MaxAddr \in Nat, InputsOK, A \in Sources, B \in Sources, Overlap
  PROVE  /\ First(A) \in Ranges /\ First(B) \in Ranges
         /\ First(A).lo \in Nat /\ First(A).hi \in Nat /\ First(A).lo <= First(A).hi
         /\ First(B).lo \in Nat /\ First(B).hi \in Nat /\ First(B).lo <= First(B).hi
         /\ First(A).hi <= MaxAddr /\ First(B).hi <= MaxAddr
         /\ First(A).lo <= First(B).hi /\ First(B).lo <= First(A).hi
         /\ Tail(rest[A]) \in Streams /\ Tail(rest[B]) \in Streams
         /\ Rest(A) = Within(First(A)) \cup Covered(Tail(rest[A]))
         /\ Rest(B) = Within(First(B)) \cup Covered(Tail(rest[B]))
         /\ \A x \in Covered(Tail(rest[A])) : x \in Nat /\ First(A).hi < x
         /\ \A x \in Covered(Tail(rest[B])) : x \in Nat /\ First(B).hi < x
<1>1. /\ First(A) \in Ranges /\ First(B) \in Ranges
      /\ Tail(rest[A]) \in Streams /\ Tail(rest[B]) \in Streams
      /\ Rest(A) = Within(First(A)) \cup Covered(Tail(rest[A]))
      /\ Rest(B) = Within(First(B)) \cup Covered(Tail(rest[B]))
      /\ \A x \in Covered(Tail(rest[A])) : First(A).hi < x
      /\ \A x \in Covered(Tail(rest[B])) : First(B).hi < x
  BY TailFacts DEF InputsOK, Left, First, Rest, Overlap
<1>2. \A s : Covered(s) \subseteq Nat
  BY DEF Covered, Addresses
<1> QED BY <1>1, <1>2, FirstInside DEF Overlap, Before

LEMMA IntersectStep ==
  ASSUME MaxAddr \in Nat, A \in Sources, B \in Sources, A # B,
         IntersectInv, [IntersectNext]_vars
  PROVE  IntersectInv'
<1>1. ASSUME NEW s \in {A, B}, NEW t \in {A, B} \ {s}, IntersectSkip(s, t)
      PROVE  IntersectInv'
  <2>1. /\ InputsOK'
        /\ Rest(s) = Within(First(s)) \cup Rest(s)'
        /\ Rest(t)' = Rest(t)
    BY <1>1, AdvanceFacts DEF IntersectInv, IntersectSkip
  <2>2. \A x \in Within(First(s)) : x \notin Rest(t)
    BY <1>1, SkipFacts DEF IntersectInv, IntersectSkip
  <2>3. Rest(s)' \cap Rest(t)' = Rest(s) \cap Rest(t)
    BY <2>1, <2>2
  <2>4. (Rest(A) \cap Rest(B))' = Rest(A) \cap Rest(B)
    BY <1>1, <2>3
  <2>5. out' = out /\ Intersection' = Intersection
    BY <1>1 DEF IntersectSkip, Intersection
  <2> QED BY <2>1, <2>4, <2>5 DEF IntersectInv
<1>2. CASE IntersectMeet
  <2> DEFINE a == First(A)
             b == First(B)
             last == Lower(a.hi, b.hi)
             r == [lo |-> Higher(a.lo, b.lo), hi |-> last]
             TA == Covered(Tail(rest[A]))
             TB == Covered(Tail(rest[B]))
  <2>1. /\ a \in Ranges /\ b \in Ranges
        /\ a.lo \in Nat /\ a.hi \in Nat /\ a.lo <= a.hi /\ a.hi <= MaxAddr
        /\ b.lo \in Nat /\ b.hi \in Nat /\ b.lo <= b.hi /\ b.hi <= MaxAddr
        /\ a.lo <= b.hi /\ b.lo <= a.hi
        /\ Tail(rest[A]) \in Streams /\ Tail(rest[B]) \in Streams
        /\ Rest(A) = Within(a) \cup TA
        /\ Rest(B) = Within(b) \cup TB
        /\ \A x \in TA : x \in Nat /\ a.hi < x
        /\ \A x \in TB : x \in Nat /\ b.hi < x
    BY <1>2, OverlapFacts DEF IntersectMeet, IntersectInv
  <2>2. /\ out' = Append(out, r)
        /\ given' = given
    BY <1>2 DEF IntersectMeet, Yield
  <2>3. PICK gone \in SUBSET {s \in {A, B} : First(s).hi = last} :
          /\ gone # {}
          /\ rest' = [s \in Sources |-> IF s \in gone THEN Tail(rest[s]) ELSE rest[s]]
    BY <1>2 DEF IntersectMeet
  <2>32. /\ rest'[A] = IF A \in gone THEN Tail(rest[A]) ELSE rest[A]
         /\ rest'[B] = IF B \in gone THEN Tail(rest[B]) ELSE rest[B]
         /\ A \in gone => a.hi = last
         /\ B \in gone => b.hi = last
         /\ A \in gone \/ B \in gone
    BY <2>3
  <2>4. InputsOK'
    BY <2>1, <2>2, <2>3 DEF InputsOK, IntersectInv
  <2>5. /\ Rest(A)' = IF A \in gone THEN TA ELSE Rest(A)
        /\ Rest(B)' = IF B \in gone THEN TB ELSE Rest(B)
    BY <2>32 DEF Rest
  <2>6. r \in Ranges /\ Within(r) = Within(a) \cap Within(b)
    BY <2>1 DEF Ranges, Within, Addresses, Lower, Higher
  <2>7. last \in Nat /\ r.lo \in Nat /\ r.lo <= last /\ r.hi = last
    BY <2>1 DEF Lower, Higher
  <2> HIDE DEF r
  <2>8. r.lo \in Rest(A) \cap Rest(B)
    BY <2>1, <2>6, FirstInside
  <2>9. /\ out' \in Streams
        /\ Covered(out') = Covered(out) \cup Within(r)
    BY <2>2, <2>6, <2>8, AppendFacts DEF IntersectInv
  <2> HIDE DEF TA, TB
  <2>10. Rest(A) \cap Rest(B) = Within(r) \cup (Rest(A)' \cap Rest(B)')
    <3>1. \A x \in Within(a) : x \in Nat /\ x <= a.hi
      BY DEF Within, Addresses
    <3>2. \A x \in Within(b) : x \in Nat /\ x <= b.hi
      BY DEF Within, Addresses
    <3>3. Within(r) \subseteq Rest(A) \cap Rest(B)
      BY <2>1, <2>6
    <3>4. Rest(A)' \subseteq Rest(A) /\ Rest(B)' \subseteq Rest(B)
      BY <2>1, <2>5
    <3>5. ASSUME NEW x \in Rest(A) \cap Rest(B), x \notin Within(r)
          PROVE  x \in Rest(A)' /\ x \in Rest(B)'
      <4>1. x \notin Within(a) \/ x \notin Within(b)
        BY <2>6, <3>5
      <4>2. x \in Nat /\ last < x
        <5>1. CASE x \in TA /\ x \in TB
          BY <5>1, <2>1 DEF Lower
        <5>2. CASE x \in TA /\ x \in Within(b)
          BY <5>2, <2>1, <3>2 DEF Lower
        <5>3. CASE x \in Within(a) /\ x \in TB
          BY <5>3, <2>1, <3>1 DEF Lower
        <5> QED BY <2>1, <4>1, <5>1, <5>2, <5>3
      <4>3. ASSUME a.hi = last PROVE x \in TA
        BY <2>1, <3>1, <4>2, <4>3
      <4>4. ASSUME b.hi = last PROVE x \in TB
        BY <2>1, <3>2, <4>2, <4>4
      <4> QED BY <2>5, <2>32, <4>3, <4>4
    <3> QED BY <3>3, <3>4, <3>5
  <2>11. \A x \in Within(r), y \in Rest(A)' \cap Rest(B)' : x < y
    <3> SUFFICES ASSUME NEW x \in Within(r), NEW y \in Rest(A)' \cap Rest(B)'
                 PROVE  x < y
      OBVIOUS
    <3>1. x \in Nat /\ x <= last
      BY <2>7 DEF Within, Addresses
    <3>2. y \in Nat /\ last < y
      <4>1. CASE A \in gone
        <5>1. y \in TA /\ a.hi = last
          BY <2>5, <2>32, <4>1
        <5> QED BY <2>1, <5>1
      <4>2. CASE B \in gone
        <5>1. y \in TB /\ b.hi = last
          BY <2>5, <2>32, <4>2
        <5> QED BY <2>1, <5>1
      <4> QED BY <2>32, <4>1, <4>2
    <3> QED BY <2>7, <3>1, <3>2
  <2>12. Intersection' = Intersection
    BY <2>2 DEF Intersection
  <2>13. \A x \in Covered(out'), y \in Rest(A)' \cap Rest(B)' : x < y
    BY <2>9, <2>10, <2>11 DEF IntersectInv
  <2>14. Intersection' = Covered(out') \cup (Rest(A)' \cap Rest(B)')
    BY <2>9, <2>10, <2>12 DEF IntersectInv
  <2> QED BY <2>4, <2>9, <2>13, <2>14 DEF IntersectInv
<1>3. CASE UNCHANGED vars
  BY <1>3 DEF IntersectInv, InputsOK, Intersection, Rest, vars
<1> QED BY <1>1, <1>2, <1>3 DEF IntersectNext

(***************************************************************************)
(* Exclusion.                                                              *)
(***************************************************************************)
ExcludeInv ==
  /\ InputsOK
  /\ out \in Streams
  /\ Exclusion = Covered(out) \cup (Rest(A) \ Rest(B))
  /\ \A x \in Covered(out), y \in Rest(A) \ Rest(B) : x < y

\* The head of one input shares nothing with the other: it comes before it, or
\* nothing of the other is left.
LEMMA WholeFacts ==
  ASSUME MaxAddr \in Nat, InputsOK, NEW s \in Sources, NEW t \in Sources,
         Left(s), Left(t) => Before(s, t)
  PROVE  \A x \in Within(First(s)) : x \notin Rest(t)
<1>1. CASE Left(t)
  BY <1>1, SkipFacts
<1>2. CASE ~Left(t)
  BY <1>2, EmptyFacts DEF Left, Rest
<1> QED BY <1>1, <1>2

\* One piece is yielded, or none, and the rest comes after it.
LEMMA ExcludeYields ==
  ASSUME MaxAddr \in Nat, ExcludeInv, InputsOK', NEW r \in Ranges,
         out' = Append(out, r), given' = given,
         Rest(A) \ Rest(B) = Within(r) \cup (Rest(A)' \ Rest(B)'),
         \A y \in Rest(A)' \ Rest(B)' : r.hi < y
  PROVE  ExcludeInv'
<1>1. r.lo \in Rest(A) \ Rest(B)
  BY FirstInside
<1>2. /\ out' \in Streams
      /\ Covered(out') = Covered(out) \cup Within(r)
  BY <1>1, AppendFacts DEF ExcludeInv
<1>3. \A x \in Within(r), y \in Rest(A)' \ Rest(B)' : x < y
  <2> SUFFICES ASSUME NEW x \in Within(r), NEW y \in Rest(A)' \ Rest(B)'
               PROVE  x < y
    OBVIOUS
  <2>1. x \in Nat /\ x <= r.hi /\ r.hi \in Nat
    BY FirstInside DEF Within, Addresses
  <2>2. y \in Nat /\ r.hi < y
    BY CoveredNat DEF Rest
  <2> QED BY <2>1, <2>2
<1>4. \A x \in Covered(out'), y \in Rest(A)' \ Rest(B)' : x < y
  BY <1>2, <1>3 DEF ExcludeInv
<1>5. Exclusion' = Exclusion
  BY DEF Exclusion
<1>6. Exclusion' = Covered(out') \cup (Rest(A)' \ Rest(B)')
  BY <1>2, <1>5 DEF ExcludeInv
<1> QED BY <1>2, <1>4, <1>6 DEF ExcludeInv

LEMMA ExcludeYieldsNothing ==
  ASSUME ExcludeInv, InputsOK', out' = out, given' = given,
         Rest(A) \ Rest(B) = Rest(A)' \ Rest(B)'
  PROVE  ExcludeInv'
BY DEF ExcludeInv, Exclusion

LEMMA ExcludeStep ==
  ASSUME MaxAddr \in Nat, A \in Sources, B \in Sources, A # B,
         ExcludeInv, [ExcludeNext]_vars
  PROVE  ExcludeInv'
<1>1. CASE ExcludeKeep
  <2>1. /\ InputsOK' /\ First(A) \in Ranges
        /\ Rest(A) = Within(First(A)) \cup Rest(A)'
        /\ \A x \in Rest(A)' : First(A).hi < x
        /\ Rest(B)' = Rest(B)
    BY <1>1, AdvanceFacts DEF ExcludeInv, ExcludeKeep
  <2>2. \A x \in Within(First(A)) : x \notin Rest(B)
    BY <1>1, WholeFacts DEF ExcludeInv, ExcludeKeep
  <2>3. /\ Rest(A) \ Rest(B) = Within(First(A)) \cup (Rest(A)' \ Rest(B)')
        /\ \A y \in Rest(A)' \ Rest(B)' : First(A).hi < y
    BY <2>1, <2>2
  <2>4. out' = Append(out, First(A)) /\ given' = given
    BY <1>1 DEF ExcludeKeep, Yield
  <2> QED BY <2>1, <2>3, <2>4, ExcludeYields
<1>2. CASE ExcludeSkip
  <2>1. /\ InputsOK'
        /\ Rest(B) = Within(First(B)) \cup Rest(B)'
        /\ Rest(A)' = Rest(A)
    BY <1>2, AdvanceFacts DEF ExcludeInv, ExcludeSkip
  <2>2. \A x \in Within(First(B)) : x \notin Rest(A)
    BY <1>2, SkipFacts DEF ExcludeInv, ExcludeSkip
  <2>3. Rest(A) \ Rest(B) = Rest(A)' \ Rest(B)'
    BY <2>1, <2>2
  <2>4. out' = out /\ given' = given
    BY <1>2 DEF ExcludeSkip
  <2> QED BY <2>1, <2>3, <2>4, ExcludeYieldsNothing
<1>3. CASE ExcludeCut
  <2> DEFINE a == First(A)
             b == First(B)
             r == [lo |-> a.lo, hi |-> Pred(b.lo)]
             TA == Covered(Tail(rest[A]))
             TB == Covered(Tail(rest[B]))
  <2>1. /\ a \in Ranges /\ b \in Ranges
        /\ a.lo \in Nat /\ a.hi \in Nat /\ a.lo <= a.hi /\ a.hi <= MaxAddr
        /\ b.lo \in Nat /\ b.hi \in Nat /\ b.lo <= b.hi /\ b.hi <= MaxAddr
        /\ a.lo <= b.hi /\ b.lo <= a.hi
        /\ Tail(rest[A]) \in Streams /\ Tail(rest[B]) \in Streams
        /\ Rest(A) = Within(a) \cup TA
        /\ Rest(B) = Within(b) \cup TB
        /\ \A x \in TA : x \in Nat /\ a.hi < x
        /\ \A x \in TB : x \in Nat /\ b.hi < x
    BY <1>3, OverlapFacts DEF ExcludeCut, ExcludeInv
  <2>2. given' = given
    BY <1>3 DEF ExcludeCut
  <2>3. /\ rest[A] \in Streams /\ rest[A] # <<>> /\ b.hi \in Addresses
        /\ rest[B] \in Streams
        /\ rest \in [Sources -> Streams] /\ given \in [Sources -> Streams]
    BY <1>3, <2>1 DEF ExcludeCut, Overlap, Left, ExcludeInv, InputsOK, Addresses
  <2> DEFINE Dropped == a.hi <= b.hi /\ Rest(A)' = TA /\ Rest(B)' = Rest(B)
             Trimmed == /\ b.hi <= a.hi
                        /\ Rest(A)' = {x \in Rest(A) : b.hi < x} /\ Rest(B)' = TB
  <2>4. ASSUME a.hi <= b.hi, Advance(A)
        PROVE  InputsOK' /\ Dropped
    <3>1. /\ rest'[A] = Tail(rest[A]) /\ rest'[B] = rest[B]
          /\ rest' = [rest EXCEPT ![A] = Tail(rest[A])]
      BY <2>3, <2>4 DEF Advance
    <3> QED BY <2>1, <2>2, <2>3, <2>4, <3>1 DEF Rest, InputsOK
  <2>5. ASSUME b.hi <= a.hi,
               rest' = [rest EXCEPT ![A] = Beyond(@, b.hi), ![B] = Tail(@)]
        PROVE  InputsOK' /\ Trimmed
    <3>1. /\ rest'[A] = Beyond(rest[A], b.hi) /\ rest'[B] = Tail(rest[B])
          /\ rest' = [rest EXCEPT ![A] = Beyond(rest[A], b.hi), ![B] = Tail(rest[B])]
      BY <2>3, <2>5
    <3>2. /\ Beyond(rest[A], b.hi) \in Streams
          /\ a.hi <= b.hi => Covered(Beyond(rest[A], b.hi)) = TA
          /\ a.hi > b.hi => Covered(Beyond(rest[A], b.hi)) = {x \in Rest(A) : b.hi < x}
      BY <2>1, <2>3, BeyondFacts DEF First, Rest
    <3>3. ASSUME a.hi <= b.hi PROVE TA = {x \in Rest(A) : b.hi < x}
      <4>1. \A x \in Within(a) : ~(b.hi < x)
        BY <2>1, <3>3 DEF Within, Addresses
      <4>2. \A x \in TA : b.hi < x
        BY <2>1, <2>5
      <4> QED BY <2>1, <4>1, <4>2
    <3>4. Rest(A)' = {x \in Rest(A) : b.hi < x} /\ Rest(B)' = TB
      <4>1. Rest(A)' = Covered(Beyond(rest[A], b.hi)) /\ Rest(B)' = TB
        BY <3>1 DEF Rest
      <4> QED BY <2>1, <3>2, <3>3, <4>1
    <3>5. InputsOK'
      BY <2>1, <2>2, <2>3, <3>1, <3>2 DEF InputsOK
    <3> QED BY <2>5, <3>4, <3>5
  <2>6. InputsOK' /\ (Dropped \/ Trimmed)
    BY <1>3, <2>4, <2>5 DEF ExcludeCut
  <2> HIDE DEF TA, TB
  <2>7. \A y \in Rest(A)' \ Rest(B)' : b.lo <= y /\ y \in Nat
    <3>1. CASE Dropped
      <4>1. \A y \in TA : y \in Nat /\ b.lo <= y
        BY <2>1
      <4> QED BY <4>1, <3>1
    <3>2. CASE Trimmed
      <4>1. \A y \in Rest(A) : y \in Nat
        BY CoveredNat DEF Rest
      <4>2. \A y \in Rest(A) : b.hi < y => b.lo <= y
        BY <4>1, <2>1
      <4> QED BY <4>1, <4>2, <3>2
    <3> QED BY <2>6, <3>1, <3>2
  <2>8. Rest(A) \ Rest(B) = {x \in Within(a) : x < b.lo} \cup (Rest(A)' \ Rest(B)')
    <3>1. CASE Dropped
      <4>1. \A x \in Within(a) : x \in Nat /\ (x \in Within(b) <=> ~(x < b.lo)) /\ x <= a.hi
        BY <2>1, <3>1 DEF Within, Addresses
      <4>2. \A x \in Within(a) : x \notin TB
        BY <2>1, <3>1, <4>1
      <4>3. Rest(A)' = TA /\ Rest(B)' = Rest(B)
        BY <3>1
      <4>4. \A x \in Within(a) : x \in Rest(B) <=> ~(x < b.lo)
        BY <4>1, <4>2, <2>1
      <4> QED BY <4>3, <4>4, <2>1
    <3>2. CASE Trimmed
      <4>1. \A x \in Rest(A) : x \in Nat /\ (x <= b.hi => x \in Within(a))
        BY <2>1, <3>2 DEF Within, Addresses
      <4>2. Rest(A)' = {x \in Rest(A) : b.hi < x} /\ Rest(B)' = TB
        BY <3>2
      <4>3. \A x \in Rest(A) : x \in Within(b) <=> (x <= b.hi /\ ~(x < b.lo))
        BY <2>1, <4>1 DEF Within
      <4>4. \A x \in Rest(A) : x <= b.hi => x \notin TB
        BY <2>1, <4>1
      <4>5. \A x \in Rest(A) : x < b.lo => x <= b.hi
        BY <2>1, <4>1
      <4>6. ASSUME NEW x \in Rest(A)
            PROVE  x \in Rest(B) <=> ~(x < b.lo \/ (b.hi < x /\ x \notin TB))
        BY <4>1, <4>3, <4>4, <4>5, <2>1
      <4>7. \A x : x \in Within(a) /\ x < b.lo <=> x \in Rest(A) /\ x < b.lo
        BY <4>1, <4>5, <2>1
      <4>8. Rest(A) \ Rest(B) = {x \in Rest(A) : x < b.lo \/ (b.hi < x /\ x \notin TB)}
        BY <4>6
      <4> QED BY <4>2, <4>7, <4>8
    <3> QED BY <2>6, <3>1, <3>2
  <2>9. CASE a.lo < b.lo
    <3>1. /\ r \in Ranges /\ r.lo = a.lo /\ r.hi = b.lo - 1
      BY <2>1, <2>9 DEF Ranges, Pred, Addresses
    <3>2. out' = Append(out, r)
      BY <1>3, <2>9 DEF ExcludeCut, Yield
    <3> HIDE DEF r
    <3>3. Within(r) = {x \in Within(a) : x < b.lo}
      BY <2>1, <3>1 DEF Within, Addresses
    <3>4. \A y \in Rest(A)' \ Rest(B)' : r.hi < y
      BY <2>1, <2>7, <3>1
    <3> QED BY <2>2, <2>6, <2>8, <3>1, <3>2, <3>3, <3>4, ExcludeYields
  <2>10. CASE ~(a.lo < b.lo)
    <3>1. out' = out
      BY <1>3, <2>10 DEF ExcludeCut
    <3>2. {x \in Within(a) : x < b.lo} = {}
      BY <2>1, <2>10 DEF Within, Addresses
    <3> QED BY <2>2, <2>6, <2>8, <3>1, <3>2, ExcludeYieldsNothing
  <2> QED BY <2>9, <2>10
<1>4. CASE UNCHANGED vars
  BY <1>4 DEF ExcludeInv, InputsOK, Exclusion, Rest, vars
<1> QED BY <1>1, <1>2, <1>3, <1>4 DEF ExcludeNext

(***************************************************************************)
(* Symmetric difference.                                                   *)
(***************************************************************************)
Open == (Rest(A) \ Rest(B)) \cup (Rest(B) \ Rest(A))

DiffInv ==
  /\ InputsOK
  /\ Emitted
  /\ Difference = Sofar \cup Open
  /\ \A x \in Sofar, y \in Open : x < y
  /\ pending = NoRange /\ (Left(A) \/ Left(B)) => out = <<>>

LEMMA OpenNat == Open \subseteq Nat /\ Sofar \subseteq Nat
BY CoveredNat DEF Open, Rest, Sofar, Within, Addresses

LEMMA AheadFacts ==
  ASSUME MaxAddr \in Nat, InputsOK, NEW s \in Sources, NEW t \in Sources,
         Left(s), Left(t) => Before(s, t)
  PROVE  \A x \in Rest(t) : First(s).hi < x
<1>1. CASE Left(t)
  <2>1. /\ First(s) \in Ranges /\ First(t) \in Ranges
        /\ Rest(t) = Within(First(t)) \cup Covered(Tail(rest[t]))
        /\ \A x \in Covered(Tail(rest[t])) : First(t).hi < x
    BY <1>1, TailFacts DEF InputsOK, Left, First, Rest
  <2>2. /\ First(s).hi \in Nat /\ First(t).lo \in Nat /\ First(t).hi \in Nat
        /\ First(t).lo <= First(t).hi /\ First(s).hi < First(t).lo
    BY <1>1, <2>1, FirstInside DEF Before
  <2>3. \A x \in Within(First(t)) : First(s).hi < x
    BY <2>2 DEF Within, Addresses
  <2>4. \A x \in Covered(Tail(rest[t])) : First(s).hi < x
    BY <2>1, <2>2, CoveredNat
  <2> QED BY <2>1, <2>3, <2>4
<1>2. CASE ~Left(t)
  BY <1>2, EmptyFacts DEF Left, Rest
<1> QED BY <1>1, <1>2

LEMMA DiffEmits ==
  ASSUME MaxAddr \in Nat, DiffInv, InputsOK', NEW r \in Ranges, Emit(r),
         given' = given, Left(A) \/ Left(B),
         Open = Within(r) \cup Open', \A y \in Open' : r.hi < y
  PROVE  DiffInv'
<1>1. r.lo \in Open /\ r.lo \in Nat /\ r.hi \in Nat
  BY FirstInside
<1>2. ASSUME pending # NoRange PROVE pending.lo <= r.lo
  <2>1. pending \in Ranges
    BY <1>2 DEF DiffInv, Emitted
  <2>2. pending.lo \in Sofar /\ pending.lo \in Nat
    BY <2>1, FirstInside DEF Sofar
  <2> QED BY <1>1, <2>2 DEF DiffInv
<1>3. pending = NoRange => out = <<>>
  BY DEF DiffInv
<1>4. Emitted' /\ pending' # NoRange /\ Sofar' = Sofar \cup Within(r)
  BY <1>2, <1>3, EmitFacts DEF DiffInv
<1>5. \A x \in Within(r), y \in Open' : x < y
  <2> SUFFICES ASSUME NEW x \in Within(r), NEW y \in Open' PROVE x < y
    OBVIOUS
  <2>1. x \in Nat /\ x <= r.hi
    BY DEF Within, Addresses
  <2>2. y \in Nat /\ r.hi < y
    BY OpenNat
  <2> QED BY <1>1, <2>1, <2>2
<1>6. \A x \in Sofar', y \in Open' : x < y
  BY <1>4, <1>5 DEF DiffInv
<1>7. Difference' = Difference
  BY DEF Difference, Exclusion
<1>8. Difference' = Sofar' \cup Open'
  BY <1>4, <1>7 DEF DiffInv
<1> QED BY <1>4, <1>6, <1>8 DEF DiffInv

LEMMA DiffStep ==
  ASSUME MaxAddr \in Nat, A \in Sources, B \in Sources, A # B,
         DiffInv, [DiffNext]_vars
  PROVE  DiffInv'
<1>1. ASSUME NEW s \in {A, B}, NEW t \in {A, B} \ {s}, DiffWhole(s, t)
      PROVE  DiffInv'
  <2>1. /\ InputsOK' /\ First(s) \in Ranges
        /\ Rest(s) = Within(First(s)) \cup Rest(s)'
        /\ \A x \in Rest(s)' : First(s).hi < x
        /\ Rest(t)' = Rest(t)
    BY <1>1, AdvanceFacts DEF DiffInv, DiffWhole
  <2>2. \A x \in Within(First(s)) : x \notin Rest(t)
    BY <1>1, WholeFacts DEF DiffInv, DiffWhole
  <2>3. \A x \in Rest(t) : First(s).hi < x
    BY <1>1, AheadFacts DEF DiffInv, DiffWhole
  <2>4. \A x \in Rest(t) : x \notin Within(First(s))
    BY <2>2
  <2>5. /\ Rest(s) \ Rest(t) = Within(First(s)) \cup (Rest(s)' \ Rest(t)')
        /\ Rest(t) \ Rest(s) = Rest(t)' \ Rest(s)'
    BY <2>1, <2>2, <2>4
  <2>6. Open = (Rest(s) \ Rest(t)) \cup (Rest(t) \ Rest(s))
    BY <1>1 DEF Open
  <2>7. Open' = (Rest(s)' \ Rest(t)') \cup (Rest(t)' \ Rest(s)')
    BY <1>1 DEF Open
  <2>8. /\ Open = Within(First(s)) \cup Open'
        /\ \A y \in Open' : First(s).hi < y
    BY <2>1, <2>3, <2>5, <2>6, <2>7
  <2>9. Left(A) \/ Left(B)
    BY <1>1 DEF DiffWhole
  <2> QED BY <1>1, <2>1, <2>8, <2>9, DiffEmits DEF DiffWhole
<1>2. CASE DiffMeet
  <2> DEFINE a == First(A)
             b == First(B)
             start == Higher(a.lo, b.lo)
             last == Lower(a.hi, b.hi)
             r == [lo |-> Lower(a.lo, b.lo), hi |-> Pred(start)]
             TA == Covered(Tail(rest[A]))
             TB == Covered(Tail(rest[B]))
             Piece == {x \in Addresses : Lower(a.lo, b.lo) <= x /\ x < start}
  <2>1. /\ a \in Ranges /\ b \in Ranges
        /\ a.lo \in Nat /\ a.hi \in Nat /\ a.lo <= a.hi /\ a.hi <= MaxAddr
        /\ b.lo \in Nat /\ b.hi \in Nat /\ b.lo <= b.hi /\ b.hi <= MaxAddr
        /\ a.lo <= b.hi /\ b.lo <= a.hi
        /\ Rest(A) = Within(a) \cup TA
        /\ Rest(B) = Within(b) \cup TB
        /\ \A x \in TA : x \in Nat /\ a.hi < x
        /\ \A x \in TB : x \in Nat /\ b.hi < x
    BY <1>2, OverlapFacts DEF DiffMeet, DiffInv
  <2>2. /\ start \in Nat /\ last \in Nat /\ start <= last /\ last \in Addresses
        /\ last <= a.hi /\ last <= b.hi /\ a.lo <= last /\ b.lo <= last
        /\ last = a.hi \/ last = b.hi
    BY <2>1 DEF Higher, Lower, Addresses
  <2>3. /\ rest' = [rest EXCEPT ![A] = Beyond(@, last), ![B] = Beyond(@, last)]
        /\ given' = given
        /\ Left(A)
    BY <1>2 DEF DiffMeet, Overlap
  <2>4. /\ rest[A] \in Streams /\ rest[A] # <<>>
        /\ rest[B] \in Streams /\ rest[B] # <<>>
        /\ rest \in [Sources -> Streams] /\ given \in [Sources -> Streams]
    BY <1>2 DEF DiffMeet, Overlap, Left, DiffInv, InputsOK
  <2>5. /\ rest'[A] = Beyond(rest[A], last)
        /\ rest'[B] = Beyond(rest[B], last)
        /\ rest' = [rest EXCEPT ![A] = rest'[A], ![B] = rest'[B]]
    BY <2>3, <2>4
  <2>6. /\ rest'[A] \in Streams
        /\ a.hi = last => Rest(A)' = TA
        /\ a.hi > last => Rest(A)' = {x \in Rest(A) : last < x}
    BY <2>1, <2>2, <2>4, <2>5, BeyondFacts DEF First, Rest
  <2>7. /\ rest'[B] \in Streams
        /\ b.hi = last => Rest(B)' = TB
        /\ b.hi > last => Rest(B)' = {x \in Rest(B) : last < x}
    BY <2>1, <2>2, <2>4, <2>5, BeyondFacts DEF First, Rest
  <2>8. InputsOK'
    BY <2>3, <2>4, <2>5, <2>6, <2>7 DEF InputsOK
  <2>9. \A x \in Within(a) : x \in Nat /\ a.lo <= x /\ x <= a.hi
    BY DEF Within, Addresses
  <2>10. \A x \in Within(b) : x \in Nat /\ b.lo <= x /\ x <= b.hi
    BY DEF Within, Addresses
  <2> HIDE DEF TA, TB, start, last, Piece
  <2>11. Rest(A)' = {x \in Rest(A) : last < x}
    <3>1. CASE a.hi = last
      <4>1. \A x \in Within(a) : ~(last < x)
        BY <2>2, <2>9, <3>1
      <4>2. \A x \in TA : last < x
        BY <2>1, <3>1
      <4> QED BY <2>1, <2>6, <3>1, <4>1, <4>2
    <3>2. CASE a.hi > last
      BY <2>6, <3>2
    <3> QED BY <2>1, <2>2, <3>1, <3>2
  <2>12. Rest(B)' = {x \in Rest(B) : last < x}
    <3>1. CASE b.hi = last
      <4>1. \A x \in Within(b) : ~(last < x)
        BY <2>2, <2>10, <3>1
      <4>2. \A x \in TB : last < x
        BY <2>1, <3>1
      <4> QED BY <2>1, <2>7, <3>1, <4>1, <4>2
    <3>2. CASE b.hi > last
      BY <2>7, <3>2
    <3> QED BY <2>1, <2>2, <3>1, <3>2
  <2>13. Open' = {x \in Open : last < x}
    BY <2>11, <2>12 DEF Open
  <2>14. \A x : x \in Open /\ ~(last < x) <=> x \in Piece
    <3> SUFFICES ASSUME NEW x \in Addresses
                 PROVE  x \in Open /\ ~(last < x) <=> x \in Piece
      BY DEF Open, Rest, Covered, Piece
    <3>1. x \in Nat /\ x <= MaxAddr
      BY DEF Addresses
    <3>2. CASE last < x
      BY <2>2, <3>1, <3>2 DEF Piece
    <3>3. CASE ~(last < x)
      <4>1. x <= last
        BY <2>2, <3>1, <3>3
      <4>2. x \in Rest(A) <=> a.lo <= x
        <5>1. x \notin TA
          BY <2>1, <2>2, <3>1, <4>1
        <5>2. x \in Within(a) <=> a.lo <= x
          BY <2>1, <2>2, <3>1, <4>1 DEF Within
        <5> QED BY <2>1, <5>1, <5>2
      <4>3. x \in Rest(B) <=> b.lo <= x
        <5>1. x \notin TB
          BY <2>1, <2>2, <3>1, <4>1
        <5>2. x \in Within(b) <=> b.lo <= x
          BY <2>1, <2>2, <3>1, <4>1 DEF Within
        <5> QED BY <2>1, <5>1, <5>2
      <4>4. x \in Open <=> (a.lo <= x /\ ~(b.lo <= x)) \/ (b.lo <= x /\ ~(a.lo <= x))
        BY <4>2, <4>3 DEF Open
      <4>5. x \in Piece <=> (a.lo <= x /\ ~(b.lo <= x)) \/ (b.lo <= x /\ ~(a.lo <= x))
        BY <2>1, <3>1 DEF Piece, start, Higher, Lower
      <4> QED BY <3>3, <4>4, <4>5
    <3> QED BY <3>2, <3>3
  <2>15. Open = Piece \cup Open'
    BY <2>13, <2>14
  <2>16. CASE a.lo # b.lo
    <3>1. /\ r \in Ranges /\ r.hi = start - 1
          /\ r.lo = Lower(a.lo, b.lo) /\ r.lo \in Nat
      BY <2>1, <2>16 DEF Ranges, Pred, Addresses, start, Higher, Lower
    <3>2. Emit(r)
      BY <1>2, <2>16 DEF DiffMeet, start
    <3> HIDE DEF r
    <3>3. Within(r) = Piece
      BY <2>2, <3>1 DEF Within, Piece, Addresses
    <3>4. \A y \in Open' : r.hi < y
      <4>1. \A y \in Open' : y \in Nat /\ last < y
        BY <2>13, OpenNat
      <4> QED BY <4>1, <2>2, <3>1
    <3> QED BY <2>3, <2>8, <2>15, <3>1, <3>2, <3>3, <3>4, DiffEmits
  <2>17. CASE a.lo = b.lo
    <3>1. UNCHANGED <<pending, out>>
      BY <1>2, <2>17 DEF DiffMeet
    <3>2. Piece = {}
      BY <2>1, <2>17 DEF Piece, start, Higher, Lower, Addresses
    <3>3. Open' = Open /\ Sofar' = Sofar /\ Emitted' = Emitted /\ Difference' = Difference
      BY <2>3, <2>15, <3>1, <3>2 DEF Sofar, Emitted, Difference, Exclusion
    <3>4. pending' = NoRange => out' = <<>>
      BY <2>3, <3>1 DEF DiffInv
    <3> QED BY <2>8, <3>3, <3>4 DEF DiffInv
  <2> QED BY <2>16, <2>17
<1>3. CASE DiffFlush
  <2>1. Emitted' /\ Sofar' = Sofar
    BY <1>3, FlushFacts DEF DiffFlush, DiffInv
  <2>2. rest' = rest /\ given' = given /\ ~Left(A) /\ ~Left(B)
    BY <1>3 DEF DiffFlush, Flush
  <2> QED BY <2>1, <2>2 DEF DiffInv, InputsOK, Difference, Exclusion, Open, Rest, Left
<1>4. CASE UNCHANGED vars
  BY <1>4 DEF DiffInv, InputsOK, Emitted, Difference, Exclusion, Open, Sofar, Rest, Left, vars
<1> QED BY <1>1, <1>2, <1>3, <1>4 DEF DiffNext

(***************************************************************************)
(* Union.                                                                  *)
(***************************************************************************)
AllRest == UNION {Rest(s) : s \in Sources}

MergeInv ==
  /\ InputsOK
  /\ Emitted
  /\ Union = Sofar \cup AllRest
  /\ pending # NoRange => \A y \in AllRest : pending.lo <= y
  /\ pending = NoRange /\ ~Exhausted => out = <<>>

LEMMA MergeStep ==
  ASSUME MaxAddr \in Nat, MergeInv, [MergeNext]_vars
  PROVE  MergeInv'
<1>1. ASSUME NEW s \in Sources, UnionTake(s)
      PROVE  MergeInv'
  <2> DEFINE a == First(s)
  <2>1. /\ InputsOK' /\ a \in Ranges
        /\ Rest(s) = Within(a) \cup Rest(s)'
        /\ \A t \in Sources \ {s} : Rest(t)' = Rest(t)
    BY <1>1, AdvanceFacts DEF MergeInv, UnionTake
  <2>2. a.lo \in Nat /\ a.lo \in Within(a)
    BY <2>1, FirstInside
  <2>3. /\ given' = given /\ Emit(a)
        /\ \A t \in Sources : Left(t) => a.lo <= First(t).lo
    BY <1>1 DEF UnionTake
  <2>4. ASSUME NEW t \in Sources, NEW y \in Rest(t)
        PROVE  a.lo <= y
    <3>1. Left(t)
      BY <2>4, EmptyFacts DEF Left, Rest
    <3>2. /\ First(t) \in Ranges
          /\ Rest(t) = Within(First(t)) \cup Covered(Tail(rest[t]))
          /\ \A x \in Covered(Tail(rest[t])) : First(t).hi < x
      BY <3>1, TailFacts DEF MergeInv, InputsOK, Left, First, Rest
    <3>3. /\ First(t).lo \in Nat /\ First(t).hi \in Nat /\ First(t).lo <= First(t).hi
          /\ a.lo <= First(t).lo /\ y \in Nat
      BY <2>3, <3>1, <3>2, FirstInside, CoveredNat DEF Rest
    <3>4. CASE y \in Within(First(t))
      BY <2>2, <3>3, <3>4 DEF Within
    <3>5. CASE y \in Covered(Tail(rest[t]))
      BY <2>2, <3>2, <3>3, <3>5
    <3> QED BY <3>2, <3>4, <3>5
  <2> HIDE DEF a
  <2>5. \A y \in AllRest : a.lo <= y
    BY <2>4 DEF AllRest
  <2>6. AllRest = Within(a) \cup AllRest'
    <3>1. ASSUME NEW x \in AllRest PROVE x \in Within(a) \/ x \in AllRest'
      <4>1. PICK t \in Sources : x \in Rest(t)
        BY DEF AllRest
      <4>2. x \in Within(a) \/ x \in Rest(t)'
        BY <2>1, <4>1
      <4> QED BY <4>2 DEF AllRest
    <3>2. ASSUME NEW x \in AllRest' PROVE x \in AllRest
      <4>1. PICK t \in Sources : x \in Rest(t)'
        BY DEF AllRest
      <4>2. x \in Rest(t)
        BY <2>1, <4>1
      <4> QED BY <4>2 DEF AllRest
    <3>3. Within(a) \subseteq AllRest
      BY <2>1 DEF AllRest
    <3> QED BY <3>1, <3>2, <3>3
  <2>7. ASSUME pending # NoRange PROVE pending.lo <= a.lo
    BY <2>2, <2>6, <2>7 DEF MergeInv
  <2>8. pending = NoRange => out = <<>>
    BY <1>1 DEF MergeInv, UnionTake, Exhausted
  <2>9. Emitted' /\ pending' # NoRange /\ pending'.lo <= a.lo /\ Sofar' = Sofar \cup Within(a)
    BY <2>1, <2>3, <2>7, <2>8, EmitFacts DEF MergeInv
  <2>10. \A y \in AllRest' : pending'.lo <= y
    <3>1. pending'.lo \in Nat
      BY <2>9, FirstInside DEF Emitted
    <3>2. \A y \in AllRest' : y \in Nat /\ a.lo <= y
      <4>1. AllRest \subseteq Nat
        BY CoveredNat DEF AllRest, Rest
      <4> QED BY <4>1, <2>5, <2>6
    <3> QED BY <3>1, <3>2, <2>2, <2>9
  <2>11. Union' = Union
    BY <2>3 DEF Union
  <2>12. Union' = Sofar' \cup AllRest'
    BY <2>6, <2>9, <2>11 DEF MergeInv
  <2> QED BY <2>1, <2>9, <2>10, <2>12 DEF MergeInv
<1>2. CASE UnionFlush
  <2>1. Emitted' /\ Sofar' = Sofar
    BY <1>2, FlushFacts DEF UnionFlush, MergeInv
  <2>2. rest' = rest /\ given' = given /\ pending' = NoRange /\ Exhausted
    BY <1>2 DEF UnionFlush, Flush
  <2>3. AllRest' = AllRest /\ Exhausted' = Exhausted /\ Union' = Union
    BY <2>2 DEF AllRest, Rest, Exhausted, Left, Union
  <2> QED BY <2>1, <2>2, <2>3 DEF MergeInv, InputsOK
<1>3. CASE UNCHANGED vars
  <2>1. rest' = rest /\ given' = given /\ pending' = pending /\ out' = out
    BY <1>3 DEF vars
  <2>2. AllRest' = AllRest /\ Exhausted' = Exhausted /\ Union' = Union
    BY <2>1 DEF AllRest, Rest, Exhausted, Left, Union
  <2>3. Emitted' = Emitted /\ Sofar' = Sofar
    BY <2>1 DEF Emitted, Sofar
  <2> QED BY <2>1, <2>2, <2>3 DEF MergeInv, InputsOK
<1> QED BY <1>1, <1>2, <1>3 DEF MergeNext

\* A single input: what was passed on and what is left make up the input.
PassInv ==
  /\ InputsOK
  /\ out \in Streams /\ pending = NoRange
  /\ \A s \in Sources : given[s] = out \o rest[s]
  /\ Union = Covered(out) \cup AllRest
  /\ \A x \in Covered(out), y \in AllRest : x < y

LEMMA MoveOne ==
  ASSUME NEW s \in Streams, NEW t \in Streams, t # <<>>
  PROVE  s \o t = Append(s, Head(t)) \o Tail(t)
<1>1. s \in Seq(Ranges) /\ t \in Seq(Ranges)
  BY StreamType
<1> QED BY <1>1

LEMMA PassStep ==
  ASSUME MaxAddr \in Nat, SingleSource, PassInv, NEW s \in Sources, UnionPass(s)
  PROVE  PassInv'
<1> DEFINE a == First(s)
<1>1. /\ InputsOK' /\ a \in Ranges
      /\ Rest(s) = Within(a) \cup Rest(s)'
      /\ \A x \in Rest(s)' : a.hi < x
  BY AdvanceFacts DEF PassInv, UnionPass
<1>2. a.lo \in Nat /\ a.hi \in Nat /\ a.lo \in Within(a)
  BY <1>1, FirstInside
<1>3. /\ out' = Append(out, a) /\ given' = given /\ pending' = NoRange
      /\ rest[s] # <<>> /\ a = Head(rest[s])
      /\ rest' = [rest EXCEPT ![s] = Tail(@)]
  BY DEF UnionPass, PassInv, Yield, Left, First, Advance
<1>4. given'[s] = out' \o rest'[s]
  <2>1. out \in Streams /\ rest[s] \in Streams /\ rest'[s] = Tail(rest[s])
    BY <1>3 DEF PassInv, InputsOK
  <2>2. out \o rest[s] = Append(out, Head(rest[s])) \o Tail(rest[s])
    BY <2>1, <1>3, MoveOne
  <2> QED BY <2>1, <2>2, <1>3 DEF PassInv
<1>5. \A t \in Sources : t = s
  BY DEF SingleSource
<1>6. AllRest = Rest(s) /\ AllRest' = Rest(s)'
  BY <1>5 DEF AllRest
<1> HIDE DEF a
<1>7. \A x \in Covered(out) : x < a.lo
  BY <1>1, <1>2, <1>6 DEF PassInv
<1>8. out' \in Streams /\ Covered(out') = Covered(out) \cup Within(a)
  BY <1>1, <1>3, <1>7, AppendFacts DEF PassInv
<1>9. Union' = Covered(out') \cup AllRest'
  <2>1. Union' = Union
    BY <1>3 DEF Union
  <2>2. Union = Covered(out) \cup (Within(a) \cup AllRest')
    BY <1>1, <1>6 DEF PassInv
  <2> QED BY <2>1, <2>2, <1>8
<1>10. \A x \in Covered(out'), y \in AllRest' : x < y
  <2> SUFFICES ASSUME NEW x \in Covered(out'), NEW y \in AllRest' PROVE x < y
    OBVIOUS
  <2>1. y \in AllRest /\ a.hi < y /\ y \in Nat
    BY <1>1, <1>6, CoveredNat DEF Rest
  <2>2. CASE x \in Covered(out)
    BY <2>1, <2>2 DEF PassInv
  <2>3. CASE x \in Within(a)
    <3>1. x \in Nat /\ x <= a.hi
      BY <2>3 DEF Within, Addresses
    <3> QED BY <2>1, <3>1, <1>2
  <2> QED BY <1>8, <2>2, <2>3
<1> QED BY <1>1, <1>3, <1>4, <1>5, <1>8, <1>9, <1>10 DEF PassInv

UnionInv ==
  /\ SingleSource => PassInv
  /\ ~SingleSource => MergeInv

LEMMA UnionStep ==
  ASSUME MaxAddr \in Nat, UnionInv, [UnionNext]_vars
  PROVE  UnionInv'
<1>1. CASE UNCHANGED vars
  <2>1. rest' = rest /\ given' = given /\ pending' = pending /\ out' = out
    BY <1>1 DEF vars
  <2>2. AllRest' = AllRest /\ Union' = Union
    BY <2>1 DEF AllRest, Rest, Union
  <2>3. PassInv => PassInv'
    BY <2>1, <2>2 DEF PassInv, InputsOK
  <2>4. MergeInv => MergeInv'
    BY <1>1, MergeStep
  <2> QED BY <2>3, <2>4 DEF UnionInv
<1>2. ASSUME SingleSource, NEW s \in Sources, UnionPass(s) PROVE UnionInv'
  BY <1>2, PassStep DEF UnionInv
<1>3. ASSUME ~SingleSource, MergeNext PROVE UnionInv'
  BY <1>3, MergeStep DEF UnionInv
<1> QED BY <1>1, <1>2, <1>3 DEF UnionNext

(***************************************************************************)
(* The theorems.  They hold for every number of addresses, and so for      *)
(* IPv4 and IPv6, and for streams of any length.                           *)
(***************************************************************************)
LEMMA InitFacts ==
  ASSUME A \in Sources, B \in Sources, Init
  PROVE  /\ InputsOK /\ Emitted
         /\ out = <<>> /\ out \in Streams /\ pending = NoRange
         /\ Covered(out) = {} /\ Sofar = {}
         /\ \A s \in Sources : Rest(s) = Covered(given[s])
BY EmptyFacts, NothingPending DEF Init, InputsOK, Emitted, Sofar, Rest

\* IntersectIter yields the addresses both inputs cover, in order, each once; a
\* consumer that stops early has seen exactly the first of them.
THEOREM IntersectCorrect ==
  ASSUME MaxAddr \in Nat, A \in Sources, B \in Sources, A # B
  PROVE  IntersectSpec => []IntersectRight
<1>1. Init => IntersectInv
  BY InitFacts DEF IntersectInv, Intersection
<1>2. IntersectInv /\ [IntersectNext]_vars => IntersectInv'
  BY IntersectStep
<1>3. IntersectInv => IntersectRight
  <2> SUFFICES ASSUME IntersectInv PROVE IntersectRight
    OBVIOUS
  <2> DEFINE todo == Rest(A) \cap Rest(B)
             done == ~Left(A) \/ ~Left(B)
  <2>1. done \in BOOLEAN
    OBVIOUS
  <2>2. done => todo = {}
    BY EmptyFacts DEF Left, Rest
  <2>3. /\ Intersection = Covered(out) \cup todo
        /\ \A x \in Covered(out), y \in todo : x < y
        /\ todo \subseteq Nat
        /\ out \in Streams
    BY CoveredNat DEF IntersectInv, Rest
  <2>4. IntersectRight <=> Yields(Intersection, done)
    BY DEF IntersectRight
  <2> HIDE DEF todo, done
  <2> QED BY <2>1, <2>2, <2>3, <2>4, YieldsFrom
<1> QED BY <1>1, <1>2, <1>3, PTL DEF IntersectSpec

\* ExcludeIter yields the addresses of the first input that the second does not
\* cover, in order, each once, without wrapping below zero or past the last address.
THEOREM ExcludeCorrect ==
  ASSUME MaxAddr \in Nat, A \in Sources, B \in Sources, A # B
  PROVE  ExcludeSpec => []ExcludeRight
<1>1. Init => ExcludeInv
  BY InitFacts DEF ExcludeInv, Exclusion
<1>2. ExcludeInv /\ [ExcludeNext]_vars => ExcludeInv'
  BY ExcludeStep
<1>3. ExcludeInv => ExcludeRight
  <2> SUFFICES ASSUME ExcludeInv PROVE ExcludeRight
    OBVIOUS
  <2> DEFINE todo == Rest(A) \ Rest(B)
             done == ~Left(A)
  <2>1. done \in BOOLEAN
    OBVIOUS
  <2>2. done => todo = {}
    BY EmptyFacts DEF Left, Rest
  <2>3. /\ Exclusion = Covered(out) \cup todo
        /\ \A x \in Covered(out), y \in todo : x < y
        /\ todo \subseteq Nat
        /\ out \in Streams
    BY CoveredNat DEF ExcludeInv, Rest
  <2>4. ExcludeRight <=> Yields(Exclusion, done)
    BY DEF ExcludeRight
  <2> HIDE DEF todo, done
  <2> QED BY <2>1, <2>2, <2>3, <2>4, YieldsFrom
<1> QED BY <1>1, <1>2, <1>3, PTL DEF ExcludeSpec

\* What is held back lies between what was yielded and what is still to come.
LEMMA HeldBack ==
  ASSUME MaxAddr \in Nat, Emitted, NEW more, more \subseteq Nat,
         \A x \in Covered(out), y \in more : x < y
  PROVE  /\ out \in Streams /\ Apart(out)
         /\ Within(pending) \cup more \subseteq Nat
         /\ \A x \in Covered(out), y \in Within(pending) \cup more : x < y
<1>1. Within(pending) \subseteq Nat
  BY DEF Within, Addresses
<1>2. \A x \in Covered(out), y \in Within(pending) : x < y
  <2> SUFFICES ASSUME NEW x \in Covered(out), NEW y \in Within(pending) PROVE x < y
    OBVIOUS
  <2>1. pending # NoRange
    BY NothingPending
  <2>2. x + 1 < pending.lo /\ pending.lo \in Nat /\ pending.lo <= y
    BY <2>1, FirstInside DEF Emitted, Within
  <2>3. x \in Nat /\ y \in Nat
    BY <1>1, CoveredNat
  <2> QED BY <2>2, <2>3
<1> QED BY <1>1, <1>2 DEF Emitted

\* DiffIter yields the addresses of exactly one of both inputs, in order, in
\* ranges that do not touch.
THEOREM DiffCorrect ==
  ASSUME MaxAddr \in Nat, A \in Sources, B \in Sources, A # B
  PROVE  DiffSpec => []DiffRight
<1>1. Init => DiffInv
  BY InitFacts DEF DiffInv, Difference, Exclusion, Open
<1>2. DiffInv /\ [DiffNext]_vars => DiffInv'
  BY DiffStep
<1>3. DiffInv => DiffRight
  <2> SUFFICES ASSUME DiffInv PROVE DiffRight
    OBVIOUS
  <2> DEFINE todo == Within(pending) \cup Open
             done == ~Left(A) /\ ~Left(B) /\ pending = NoRange
  <2>1. done \in BOOLEAN
    OBVIOUS
  <2>2. done => todo = {}
    BY EmptyFacts, NothingPending DEF Left, Rest, Open
  <2>3. \A x \in Covered(out), y \in Open : x < y
    BY DEF DiffInv, Sofar
  <2>4. /\ out \in Streams /\ Apart(out) /\ todo \subseteq Nat
        /\ \A x \in Covered(out), y \in todo : x < y
    BY <2>3, HeldBack, OpenNat DEF DiffInv
  <2>5. Difference = Covered(out) \cup todo
    BY DEF DiffInv, Sofar
  <2>6. DiffRight <=> Yields(Difference, done) /\ Apart(out)
    BY DEF DiffRight
  <2> HIDE DEF todo, done
  <2> QED BY <2>1, <2>2, <2>4, <2>5, <2>6, YieldsFrom
<1> QED BY <1>1, <1>2, <1>3, PTL DEF DiffSpec

\* While inputs are merged, what was yielded is right so far, and nothing touches.
LEMMA MergeRight ==
  ASSUME MaxAddr \in Nat, MergeInv
  PROVE  OptimizeRight
<1> DEFINE todo == Within(pending) \cup AllRest
           done == Exhausted /\ pending = NoRange
<1>1. done \in BOOLEAN
  BY DEF Exhausted
<1>2. Exhausted => AllRest = {}
  BY EmptyFacts DEF Exhausted, Left, Rest, AllRest
<1>3. done => todo = {}
  BY <1>2, NothingPending
<1>4. AllRest \subseteq Nat
  BY CoveredNat DEF AllRest, Rest
<1>5. \A x \in Covered(out), y \in AllRest : x < y
  <2> SUFFICES ASSUME NEW x \in Covered(out), NEW y \in AllRest PROVE x < y
    OBVIOUS
  <2>1. pending # NoRange
    BY <1>2, EmptyFacts DEF MergeInv
  <2>2. x + 1 < pending.lo /\ pending.lo <= y /\ pending.lo \in Nat
    BY <2>1, FirstInside DEF MergeInv, Emitted
  <2>3. x \in Nat /\ y \in Nat
    BY <1>4, CoveredNat
  <2> QED BY <2>2, <2>3
<1>6. /\ out \in Streams /\ Apart(out) /\ todo \subseteq Nat
      /\ \A x \in Covered(out), y \in todo : x < y
  BY <1>4, <1>5, HeldBack DEF MergeInv
<1>7. Union = Covered(out) \cup todo
  BY DEF MergeInv, Sofar
<1>8. OptimizeRight <=> Yields(Union, done) /\ Apart(out)
  BY DEF OptimizeRight
<1> HIDE DEF todo, done
<1> QED BY <1>1, <1>3, <1>6, <1>7, <1>8, YieldsFrom

LEMMA PassRight ==
  ASSUME MaxAddr \in Nat, PassInv
  PROVE  Yields(Union, Exhausted /\ pending = NoRange)
<1> DEFINE done == Exhausted /\ pending = NoRange
<1>1. done \in BOOLEAN
  BY DEF Exhausted
<1>2. done => AllRest = {}
  BY EmptyFacts DEF Exhausted, Left, Rest, AllRest
<1>3. AllRest \subseteq Nat
  BY CoveredNat DEF AllRest, Rest
<1>4. /\ out \in Streams /\ Union = Covered(out) \cup AllRest
      /\ \A x \in Covered(out), y \in AllRest : x < y
  BY DEF PassInv
<1> HIDE DEF done
<1>5. Yields(Union, done)
  BY <1>1, <1>2, <1>3, <1>4, YieldsFrom
<1> QED BY <1>5 DEF done

\* UnionIter yields the addresses of any of its inputs, in order: of several in
\* ranges that do not touch, also when a range ends on the last address, and of a
\* single one in the very ranges it has.
THEOREM UnionCorrect ==
  ASSUME MaxAddr \in Nat, A \in Sources, B \in Sources
  PROVE  UnionSpec => []UnionRight
<1>1. Init => UnionInv
  <2> SUFFICES ASSUME Init PROVE UnionInv
    OBVIOUS
  <2>1. MergeInv
    BY InitFacts DEF MergeInv, Union, AllRest
  <2>2. PassInv
    <3>1. ASSUME NEW s \in Sources PROVE given[s] = out \o rest[s]
      <4>1. rest[s] = given[s] /\ out = <<>> /\ given[s] \in Seq(Ranges)
        BY StreamType DEF Init
      <4> QED BY <4>1
    <3>2. Union = Covered(out) \cup AllRest /\ Covered(out) = {}
      BY InitFacts DEF Union, AllRest
    <3> QED BY <3>1, <3>2, InitFacts DEF PassInv
  <2> QED BY <2>1, <2>2 DEF UnionInv
<1>2. UnionInv /\ [UnionNext]_vars => UnionInv'
  BY UnionStep
<1>3. UnionInv => UnionRight
  <2>1. ASSUME MergeInv PROVE Yields(Union, Exhausted /\ pending = NoRange) /\ Apart(out)
    BY <2>1, MergeRight DEF OptimizeRight
  <2>2. ASSUME PassInv
        PROVE  /\ Yields(Union, Exhausted /\ pending = NoRange)
               /\ \A s \in Sources : given[s] = out \o rest[s]
    BY <2>2, PassRight DEF PassInv
  <2> QED BY <2>1, <2>2 DEF UnionInv, UnionRight
<1> QED BY <1>1, <1>2, <1>3, PTL DEF UnionSpec

\* Optimize leaves a set with the same addresses, sorted, in ranges that do not
\* touch, from ranges in any order.
THEOREM OptimizeCorrect ==
  ASSUME MaxAddr \in Nat, A \in Sources, B \in Sources
  PROVE  OptimizeSpec => []OptimizeRight
<1>1. Init => MergeInv
  BY InitFacts DEF MergeInv, Union, AllRest
<1>2. MergeInv /\ [MergeNext]_vars => MergeInv'
  BY MergeStep
<1>3. MergeInv => OptimizeRight
  BY MergeRight
<1> QED BY <1>1, <1>2, <1>3, PTL DEF OptimizeSpec

(***************************************************************************)
(* Results that are counted as they are yielded.                           *)
(***************************************************************************)
Measured == unique = Cardinality(Covered(out))

Grows == out' = out \/ \E r : out' = Append(out, r)

LEMMA CoveredFinite ==
  ASSUME MaxAddr \in Nat, NEW s
  PROVE  IsFiniteSet(Covered(s))
<1>1. IsFiniteSet(0 .. MaxAddr)
  BY FS_Interval
<1>2. Covered(s) \in SUBSET (0 .. MaxAddr)
  BY DEF Covered, Addresses
<1> QED BY <1>1, <1>2, FS_Subset

LEMMA SizeFacts ==
  ASSUME MaxAddr \in Nat, NEW r \in Ranges
  PROVE  /\ IsFiniteSet(Within(r)) /\ Cardinality(Within(r)) = Size(r)
         /\ Size(r) \in Nat
<1>1. /\ r.lo \in Int /\ r.hi \in Int /\ r.lo <= r.hi
      /\ r.lo \in Nat /\ r.hi \in Nat /\ r.hi <= MaxAddr
  BY DEF Ranges, Addresses
<1>2. Within(r) = r.lo .. r.hi
  BY <1>1 DEF Within, Addresses
<1>3. /\ IsFiniteSet(r.lo .. r.hi)
      /\ Cardinality(r.lo .. r.hi) = IF r.lo > r.hi THEN 0 ELSE r.hi - r.lo + 1
  <2>1. r.lo \in Int /\ r.hi \in Int
    BY <1>1
  <2> QED BY <2>1, FS_Interval, Zenon
<1> QED BY <1>1, <1>2, <1>3 DEF Size

LEMMA CountStep ==
  ASSUME MaxAddr \in Nat, out \in Streams, out' \in Streams, Measured, Grows, Count
  PROVE  Measured'
<1>1. CASE out' = out
  BY <1>1 DEF Measured, Count
<1>2. ASSUME NEW r, out' = Append(out, r) PROVE Measured'
  <2> DEFINE t == Append(out, r)
  <2>1. /\ t \in Streams /\ Len(out) \in Nat /\ out \in Seq(Ranges)
    BY <1>2, StreamType
  <2>2. Len(t) = Len(out) + 1 /\ t[Len(t)] = r /\ \A i \in 1 .. Len(out) : t[i] = out[i]
    BY <2>1
  <2> HIDE DEF t
  <2>3. Len(t) \in 1 .. Len(t) /\ \A i \in 1 .. Len(out) : i \in 1 .. Len(t) /\ i < Len(t)
    BY <2>1, <2>2
  <2>4. r \in Ranges
    BY <2>1, <2>2, <2>3, StreamType
  <2>5. \A i \in 1 .. Len(out) : out[i].hi < r.lo /\ out[i].hi \in Addresses
    BY <2>1, <2>2, <2>3, StreamType
  <2>6. \A x \in Covered(out) : x < r.lo
    <3> SUFFICES ASSUME NEW x \in Covered(out) PROVE x < r.lo
      OBVIOUS
    <3>1. PICK i \in 1 .. Len(out) : x \in Within(out[i])
      BY DEF Covered
    <3>2. x \in Nat /\ x <= out[i].hi /\ out[i].hi \in Nat /\ r.lo \in Nat
      BY <3>1, <2>4, <2>5 DEF Within, Addresses, Ranges
    <3> QED BY <3>2, <2>5
  <2>7. Covered(t) = Covered(out) \cup Within(r)
    BY <2>4, <2>6, AppendFacts DEF t
  <2>8. Covered(out) \cap Within(r) = {}
    BY <2>6, <2>4 DEF Within, Covered, Addresses, Ranges
  <2>9. /\ IsFiniteSet(Covered(out)) /\ IsFiniteSet(Within(r))
        /\ Cardinality(Within(r)) = Size(r) /\ Size(r) \in Nat
    BY CoveredFinite, SizeFacts, <2>4
  <2>10. Cardinality(Covered(t)) = Cardinality(Covered(out)) + Size(r)
    <3>1. Cardinality(Covered(out)) \in Nat
      BY <2>9, FS_CardinalityType
    <3>2. Cardinality({}) = 0
      BY FS_EmptySet
    <3>3. Cardinality(Covered(out) \cup Within(r))
            = Cardinality(Covered(out)) + Cardinality(Within(r))
                - Cardinality(Covered(out) \cap Within(r))
      BY <2>9, FS_Union, Zenon
    <3>4. Cardinality(Covered(out) \cap Within(r)) = 0
      BY <2>8, <3>2
    <3> QED BY <2>7, <2>9, <3>1, <3>3, <3>4
  <2>11. unique' = unique + Size(r)
    <3>1. out' = t
      BY <1>2 DEF t
    <3> QED BY <3>1, <2>1, <2>2 DEF Count
  <2>12. Covered(out') = Covered(t)
    BY <1>2 DEF t
  <2> QED BY <2>10, <2>11, <2>12 DEF Measured
<1> QED BY <1>1, <1>2 DEF Grows

LEMMA StartMeasured ==
  ASSUME Start
  PROVE  Measured
BY EmptyFacts, FS_EmptySet DEF Start, Init, Measured

LEMMA EmitGrows ==
  ASSUME NEW r, Emit(r)
  PROVE  Grows
BY DEF Emit, Yield, Grows

LEMMA FlushGrows ==
  ASSUME Flush
  PROVE  Grows
BY DEF Flush, Yield, Grows

LEMMA OneByOne ==
  /\ IntersectNext => Grows
  /\ ExcludeNext => Grows
  /\ DiffNext => Grows
  /\ MergeNext => Grows
<1>1. ASSUME IntersectNext PROVE Grows
  BY <1>1 DEF IntersectNext, IntersectSkip, IntersectMeet, Yield, Grows
<1>2. ASSUME ExcludeNext PROVE Grows
  BY <1>2 DEF ExcludeNext, ExcludeKeep, ExcludeSkip, ExcludeCut, Yield, Grows
<1>3. ASSUME DiffNext PROVE Grows
  <2>1. ASSUME NEW s, NEW t, DiffWhole(s, t) PROVE Grows
    BY <2>1, EmitGrows DEF DiffWhole
  <2>2. ASSUME DiffMeet PROVE Grows
    BY <2>2, EmitGrows DEF DiffMeet, Grows
  <2>3. ASSUME DiffFlush PROVE Grows
    BY <2>3, FlushGrows DEF DiffFlush
  <2> QED BY <1>3, <2>1, <2>2, <2>3 DEF DiffNext
<1>4. ASSUME MergeNext PROVE Grows
  <2>1. ASSUME NEW s \in Sources, UnionTake(s) PROVE Grows
    BY <2>1, EmitGrows DEF UnionTake
  <2>2. ASSUME UnionFlush PROVE Grows
    BY <2>2, FlushGrows DEF UnionFlush
  <2> QED BY <1>4, <2>1, <2>2 DEF MergeNext
<1> QED BY <1>1, <1>2, <1>3, <1>4

\* What two sets share: a result that is returned has all common addresses, and the
\* count is their number, whichever reads may have failed on the way.
THEOREM IntersectCounted ==
  ASSUME MaxAddr \in Nat, A \in Sources, B \in Sources, A # B
  PROVE  IntersectSources => []IntersectReturned
<1>1. IntersectSources => IntersectSpec
  <2>1. Start => Init
    BY DEF Start
  <2>2. [Counted(IntersectNext) \/ ReadFails]_allVars => [IntersectNext]_vars
    BY DEF Counted, ReadFails, allVars
  <2> QED BY <2>1, <2>2, PTL DEF IntersectSources, IntersectSpec
<1>2. IntersectSources => []IntersectRight
  BY <1>1, IntersectCorrect, PTL
<1>3. Start => Measured
  BY StartMeasured
<1>4. /\ IntersectRight /\ IntersectRight' /\ Measured
      /\ [Counted(IntersectNext) \/ ReadFails]_allVars
      => Measured'
  <2> SUFFICES ASSUME IntersectRight, IntersectRight', Measured,
                      [Counted(IntersectNext) \/ ReadFails]_allVars
               PROVE  Measured'
    OBVIOUS
  <2>1. out \in Streams /\ out' \in Streams
    BY DEF IntersectRight, Yields
  <2>2. CASE Counted(IntersectNext)
    BY <2>1, <2>2, OneByOne, CountStep DEF Counted
  <2>3. CASE ReadFails \/ UNCHANGED allVars
    BY <2>3 DEF ReadFails, allVars, vars, Measured
  <2> QED BY <2>2, <2>3
<1>5. IntersectRight /\ Measured => IntersectReturned
  BY DEF IntersectRight, Yields, Measured, IntersectReturned, Returned
<1> QED BY <1>2, <1>3, <1>4, <1>5, PTL DEF IntersectSources

\* What one set has and the other does not: complete and counted right, as the
\* retention counts what was added and removed.
THEOREM ExcludeCounted ==
  ASSUME MaxAddr \in Nat, A \in Sources, B \in Sources, A # B
  PROVE  ExcludeSources => []ExcludeReturned
<1>1. ExcludeSources => ExcludeSpec
  <2>1. Start => Init
    BY DEF Start
  <2>2. [Counted(ExcludeNext) \/ ReadFails]_allVars => [ExcludeNext]_vars
    BY DEF Counted, ReadFails, allVars
  <2> QED BY <2>1, <2>2, PTL DEF ExcludeSources, ExcludeSpec
<1>2. ExcludeSources => []ExcludeRight
  BY <1>1, ExcludeCorrect, PTL
<1>3. Start => Measured
  BY StartMeasured
<1>4. /\ ExcludeRight /\ ExcludeRight' /\ Measured
      /\ [Counted(ExcludeNext) \/ ReadFails]_allVars
      => Measured'
  <2> SUFFICES ASSUME ExcludeRight, ExcludeRight', Measured,
                      [Counted(ExcludeNext) \/ ReadFails]_allVars
               PROVE  Measured'
    OBVIOUS
  <2>1. out \in Streams /\ out' \in Streams
    BY DEF ExcludeRight, Yields
  <2>2. CASE Counted(ExcludeNext)
    BY <2>1, <2>2, OneByOne, CountStep DEF Counted
  <2>3. CASE ReadFails \/ UNCHANGED allVars
    BY <2>3 DEF ReadFails, allVars, vars, Measured
  <2> QED BY <2>2, <2>3
<1>5. ExcludeRight /\ Measured => ExcludeReturned
  BY DEF ExcludeRight, Yields, Measured, ExcludeReturned, Returned
<1> QED BY <1>2, <1>3, <1>4, <1>5, PTL DEF ExcludeSources

\* What exactly one of two sets has: complete and counted right unless a read
\* fails; then the total, which is returned all the same, counts the addresses up
\* to some point, each once and none that does not belong.
THEOREM DiffCounted ==
  ASSUME MaxAddr \in Nat, A \in Sources, B \in Sources, A # B
  PROVE  DiffSources => []DiffReturned
<1>1. DiffSources => DiffSpec
  <2>1. Start => Init
    BY DEF Start
  <2>2. [Counted(DiffNext) \/ DiffStops]_allVars => [DiffNext]_vars
    BY DEF Counted, DiffStops, allVars
  <2> QED BY <2>1, <2>2, PTL DEF DiffSources, DiffSpec
<1>2. DiffSources => []DiffRight
  BY <1>1, DiffCorrect, PTL
<1>3. Start => Measured
  BY StartMeasured
<1>4. /\ DiffRight /\ DiffRight' /\ Measured
      /\ [Counted(DiffNext) \/ DiffStops]_allVars
      => Measured'
  <2> SUFFICES ASSUME DiffRight, DiffRight', Measured,
                      [Counted(DiffNext) \/ DiffStops]_allVars
               PROVE  Measured'
    OBVIOUS
  <2>1. out \in Streams /\ out' \in Streams
    BY DEF DiffRight, Yields
  <2>2. CASE DiffNext /\ Count
    BY <2>1, <2>2, OneByOne, CountStep
  <2>3. CASE UNCHANGED <<vars, unique>>
    BY <2>3 DEF vars, Measured
  <2> QED BY <2>2, <2>3 DEF Counted, DiffStops, allVars
<1>5. DiffRight /\ Measured => DiffReturned
  <2> SUFFICES ASSUME DiffRight, Measured PROVE DiffReturned
    OBVIOUS
  <2>1. /\ Covered(out) \subseteq Difference /\ UpTo(Difference, out)
        /\ unique = Cardinality(Covered(out))
    BY DEF DiffRight, Yields, Measured
  <2>2. unique <= Cardinality(Difference)
    <3>1. IsFiniteSet(Difference)
      <4>1. IsFiniteSet(Covered(given[A])) /\ IsFiniteSet(Covered(given[B]))
        BY CoveredFinite
      <4>2. Difference \subseteq Covered(given[A]) \cup Covered(given[B])
        BY DEF Difference, Exclusion
      <4> QED BY <4>1, <4>2, FS_Union, FS_Subset
    <3> QED BY <2>1, <3>1, FS_Subset
  <2>3. Returned(~Left(A) /\ ~Left(B) /\ pending = NoRange, Difference)
    BY DEF DiffRight, Yields, Measured, Returned
  <2> QED BY <2>1, <2>2, <2>3 DEF DiffReturned
<1> QED BY <1>2, <1>3, <1>4, <1>5, PTL DEF DiffSources

\* What any of several sets has: complete, and every address counted once although
\* several sets have it.  Of a single set, its ranges and its own count.
THEOREM UnionCounted ==
  ASSUME MaxAddr \in Nat, A \in Sources, B \in Sources
  PROVE  UnionSources => []UnionReturned
<1> DEFINE Turn == Copied \/ (~SingleSource /\ Counted(MergeNext)) \/ ReadFails
           Tallied == IF SingleSource THEN unique = Stored ELSE Measured
<1>1. UnionSources => UnionSpec
  <2>1. UnionStart => Init
    BY DEF UnionStart
  <2>2. [Turn]_allVars => [UnionNext]_vars
    BY DEF Copied, Counted, ReadFails, UnionNext, allVars
  <2> QED BY <2>1, <2>2, PTL DEF UnionSources, UnionSpec
<1>2. UnionSources => []UnionRight
  BY <1>1, UnionCorrect, PTL
<1>3. UnionStart => Tallied
  BY EmptyFacts, FS_EmptySet DEF UnionStart, Init, Measured
<1>4. UnionRight /\ UnionRight' /\ Tallied /\ [Turn]_allVars => Tallied'
  <2> SUFFICES ASSUME UnionRight, UnionRight', Tallied, [Turn]_allVars PROVE Tallied'
    OBVIOUS
  <2>1. out \in Streams /\ out' \in Streams
    BY DEF UnionRight, Yields
  <2>2. CASE ~SingleSource /\ Counted(MergeNext)
    <3>1. Measured'
      BY <2>1, <2>2, OneByOne, CountStep DEF Counted
    <3> QED BY <2>2, <3>1
  <2>3. CASE Copied
    BY <2>3 DEF Copied
  <2>4. CASE ReadFails \/ UNCHANGED allVars
    BY <2>4 DEF ReadFails, allVars, vars, Measured
  <2> QED BY <2>2, <2>3, <2>4
<1>5. UnionRight /\ Tallied => UnionReturned
  <2> SUFFICES ASSUME UnionRight, Tallied PROVE UnionReturned
    OBVIOUS
  <2>1. CASE ~SingleSource
    BY <2>1 DEF UnionRight, Yields, Measured, UnionReturned, Returned
  <2>2. CASE SingleSource
    <3>1. ASSUME Exhausted, NEW s \in Sources PROVE out = given[s]
      <4>1. rest[s] = <<>> /\ given[s] = out \o rest[s] /\ out \in Seq(Ranges)
        BY <2>2, <3>1, StreamType DEF Exhausted, Left, UnionRight, Yields
      <4> QED BY <4>1
    <3> QED BY <2>2, <3>1 DEF UnionRight, Yields, UnionReturned
  <2> QED BY <2>1, <2>2
<1> QED BY <1>2, <1>3, <1>4, <1>5, PTL DEF UnionSources

(***************************************************************************)
(* The overlap filter, for every width of the prefixes and every limit.    *)
(***************************************************************************)
FilterInv ==
  /\ seen \subseteq Addresses
  /\ hasRange \in BOOLEAN /\ overflow \in BOOLEAN
  /\ seen # {} => hasRange
  /\ hasRange => bounds \in Ranges
  /\ \A x \in seen : bounds.lo <= x /\ x <= bounds.hi
  /\ ~overflow => \A x \in seen : SparseOf[x] \in sparse
  /\ overflow => sparse = {}
  /\ coarse # {} => \A x \in seen : CoarseOf[SparseOf[x]] \in coarse

LEMMA PrefixesInside ==
  ASSUME MaxAddr \in Nat, PrefixesOrdered, NEW r \in Ranges, NEW x \in Within(r)
  PROVE  /\ SparseOf[x] \in SparsePrefixes(r)
         /\ CoarseOf[SparseOf[x]] \in CoarsePrefixes(r)
<1>1. /\ r.lo \in Addresses /\ r.hi \in Addresses /\ x \in Addresses
      /\ r.lo <= x /\ x <= r.hi
  BY DEF Ranges, Within
<1>2. /\ SparseOf[r.lo] \in Nat /\ SparseOf[r.hi] \in Nat /\ SparseOf[x] \in Nat
      /\ SparseOf[r.lo] <= SparseOf[x] /\ SparseOf[x] <= SparseOf[r.hi]
  BY <1>1 DEF PrefixesOrdered
<1>3. /\ CoarseOf[SparseOf[r.lo]] \in Nat /\ CoarseOf[SparseOf[r.hi]] \in Nat
      /\ CoarseOf[SparseOf[x]] \in Nat
      /\ CoarseOf[SparseOf[r.lo]] <= CoarseOf[SparseOf[x]]
      /\ CoarseOf[SparseOf[x]] <= CoarseOf[SparseOf[r.hi]]
  BY <1>2 DEF PrefixesOrdered
<1> QED BY <1>2, <1>3 DEF SparsePrefixes, CoarsePrefixes

LEMMA FilterStep ==
  ASSUME MaxAddr \in Nat, PrefixesOrdered, FilterInv, [FilterNext]_filterVars
  PROVE  FilterInv'
<1>1. CASE UNCHANGED filterVars
  BY <1>1 DEF FilterInv, filterVars
<1>2. ASSUME NEW r \in Ranges, Add(r) PROVE FilterInv'
  <2>1. /\ r.lo \in Addresses /\ r.hi \in Addresses /\ r.lo <= r.hi
        /\ Within(r) \subseteq Addresses
        /\ \A x \in Within(r) : r.lo <= x /\ x <= r.hi
    BY DEF Ranges, Within
  <2>2. \A x \in seen' : x \in seen \/ x \in Within(r)
    BY <1>2 DEF Add
  <2>3. seen' \subseteq Addresses /\ hasRange' = TRUE
    BY <1>2, <2>1 DEF Add, FilterInv
  <2>4. /\ bounds' \in Ranges
        /\ \A x \in seen' : bounds'.lo <= x /\ x <= bounds'.hi
    <3>1. CASE hasRange
      <4>1. /\ bounds.lo \in Addresses /\ bounds.hi \in Addresses
            /\ bounds.lo <= bounds.hi /\ bounds.hi < r.lo
        BY <1>2, <3>1 DEF Add, FilterInv, Ranges
      <4>2. bounds' = [lo |-> bounds.lo, hi |-> r.hi]
        BY <1>2, <3>1 DEF Add
      <4>3. \A x \in seen : bounds.lo <= x /\ x <= bounds.hi
        BY DEF FilterInv
      <4> QED BY <4>1, <4>2, <4>3, <2>1, <2>2, <2>3 DEF Ranges, Addresses
    <3>2. CASE ~hasRange
      <4>1. seen = {} /\ bounds' = [lo |-> r.lo, hi |-> r.hi]
        BY <1>2, <3>2 DEF Add, FilterInv
      <4> QED BY <4>1, <2>1, <2>2 DEF Ranges
    <3> QED BY <3>1, <3>2
  <2>5. /\ overflow' \in BOOLEAN
        /\ ~overflow' => \A x \in seen' : SparseOf[x] \in sparse'
        /\ overflow' => sparse' = {}
    <3>1. CASE overflow \/ WouldOverflow(r)
      BY <1>2, <3>1 DEF Add, AddSparse
    <3>2. CASE ~(overflow \/ WouldOverflow(r))
      <4>1. sparse' = sparse \cup SparsePrefixes(r) /\ overflow' = overflow
        BY <1>2, <3>2 DEF Add, AddSparse
      <4>2. \A x \in Within(r) : SparseOf[x] \in SparsePrefixes(r)
        BY PrefixesInside
      <4> QED BY <4>1, <4>2, <3>2, <2>2 DEF FilterInv
    <3> QED BY <3>1, <3>2
  <2>6. coarse' # {} => \A x \in seen' : CoarseOf[SparseOf[x]] \in coarse'
    <3> DEFINE started == IF coarse = {} /\ WouldOverflow(r)
                            THEN Coarsened(sparse) ELSE coarse
    <3>1. CASE started = {}
      <4>1. coarse' = coarse
        BY <1>2, <3>1 DEF Add, AddCoarse
      <4>2. coarse = {}
        BY <3>1
      <4> QED BY <4>1, <4>2
    <3>2. CASE started # {}
      <4>1. coarse' = started \cup CoarsePrefixes(r)
        BY <1>2, <3>2 DEF Add, AddCoarse
      <4>2. \A x \in Within(r) : CoarseOf[SparseOf[x]] \in CoarsePrefixes(r)
        BY PrefixesInside
      <4>3. \A x \in seen : CoarseOf[SparseOf[x]] \in started
        <5>1. CASE coarse # {}
          BY <5>1 DEF FilterInv
        <5>2. CASE coarse = {}
          <6>1. ~overflow /\ started = Coarsened(sparse)
            BY <5>2, <3>2 DEF WouldOverflow
          <6> QED BY <6>1 DEF FilterInv, Coarsened
        <5> QED BY <5>1, <5>2
      <4> QED BY <4>1, <4>2, <4>3, <2>2
    <3> QED BY <3>1, <3>2
  <2> QED BY <2>3, <2>4, <2>5, <2>6 DEF FilterInv
<1> QED BY <1>1, <1>2 DEF FilterNext

\* The evidence a builder holds covers every address it has read, wherever the
\* limits on the prefixes and the words fall.
THEOREM FilterCorrect ==
  ASSUME MaxAddr \in Nat, PrefixesOrdered
  PROVE  FilterSpec => []FilterRight
<1>1. FilterInit => FilterInv
  BY DEF FilterInit, FilterInv
<1>2. FilterInv /\ [FilterNext]_filterVars => FilterInv'
  BY FilterStep
<1>3. FilterInv => FilterRight
  BY DEF FilterInv, FilterRight, Describes, RangeOverlapFilter
<1> QED BY <1>1, <1>2, <1>3, PTL DEF FilterSpec

\* Disjoint: two filters that tell two sets apart are never wrong, whichever
\* kind of evidence each of them has.
THEOREM FilterDisjointSound ==
  ASSUME NEW X \in SUBSET Nat, NEW Y \in SUBSET Nat, NEW f, NEW g,
         f.bounds \in Ranges \cup {NoRange}, g.bounds \in Ranges \cup {NoRange},
         MaxAddr \in Nat,
         Describes(f, X), Describes(g, Y), FilterDisjoint(f, g)
  PROVE  X \cap Y = {}
<1> SUFFICES ASSUME NEW x \in X \cap Y PROVE FALSE
  OBVIOUS
<1>1. /\ f.hasRange /\ g.hasRange
      /\ f.bounds.lo <= x /\ x <= f.bounds.hi
      /\ g.bounds.lo <= x /\ x <= g.bounds.hi
      /\ x \in Nat
  BY DEF Describes
<1>2. /\ f.bounds.lo \in Nat /\ f.bounds.hi \in Nat
      /\ g.bounds.lo \in Nat /\ g.bounds.hi \in Nat
  BY DEF Ranges, NoRange, Addresses
<1>3. ~Absent(f, g) /\ ~BoundsDisjoint(f, g)
  BY <1>1, <1>2 DEF Absent, BoundsDisjoint
<1>4. /\ f.sparse # {} => SparseOf[x] \in f.sparse
      /\ g.sparse # {} => SparseOf[x] \in g.sparse
      /\ f.coarse # {} => CoarseOf[SparseOf[x]] \in f.coarse
      /\ g.coarse # {} => CoarseOf[SparseOf[x]] \in g.coarse
  BY DEF Describes
<1>5. ~SparsePrefixesDisjoint(f, g)
  BY <1>4 DEF SparsePrefixesDisjoint, NothingCommon
<1>6. /\ CoarseEvidence(f) # {} => CoarseOf[SparseOf[x]] \in CoarseEvidence(f)
      /\ CoarseEvidence(g) # {} => CoarseOf[SparseOf[x]] \in CoarseEvidence(g)
  BY <1>4 DEF CoarseEvidence, Coarsened
<1>7. ~PrefixesDisjoint(f, g)
  BY <1>6 DEF PrefixesDisjoint, NothingCommon
<1> QED BY <1>3, <1>5, <1>7 DEF FilterDisjoint
=============================================================================
