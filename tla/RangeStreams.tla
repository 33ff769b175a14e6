---------------------------- MODULE RangeStreams ----------------------------
(***************************************************************************)
(* The algebra of IP sets (pkg/iprange).  A set is a stream of ranges,     *)
(* sorted and disjoint; intersection, exclusion, symmetric difference and  *)
(* union read their inputs one range at a time and yield the ranges of the *)
(* result without ever holding a whole set.                                *)
(*                                                                         *)
(* Each operation exists over pulled iterators, over slices and over       *)
(* indexed files, for IPv4 and for IPv6: the same sweep, written six       *)
(* times.  One step here is one turn of its loop.  A consumer that stops   *)
(* early stops the behaviour.  Reads do not fail here: see                 *)
(* MaterializedRanges.                                                     *)
(***************************************************************************)
EXTENDS AddressRanges

CONSTANTS
  Sources,   (* the inputs of a union                                      *)
  A, B       (* the two inputs of the binary operations                    *)

VARIABLES
  rest,      (* what is left of every input; a head may have been trimmed  *)
  pending,   (* the range kept back to be merged with the next one         *)
  out,       (* the ranges yielded so far                                  *)
  given      (* history: the inputs                                        *)

vars == <<rest, pending, out, given>>

Init ==
  /\ given \in [Sources -> Streams]
  /\ rest = given
  /\ pending = NoRange
  /\ out = <<>>

(***************************************************************************)
(* Reading the inputs.                                                     *)
(***************************************************************************)
Left(s)      == rest[s] # <<>>
First(s)     == Head(rest[s])
Before(s, t) == First(s).hi < First(t).lo

\* The heads of both inputs share addresses.
Overlap ==
  /\ Left(A) /\ Left(B)
  /\ ~Before(A, B) /\ ~Before(B, A)

\* The heads up to address hi are behind: the range that ends there goes, one
\* that ends later begins after it.
Beyond(stream, hi) ==
  IF Head(stream).hi <= hi
    THEN Tail(stream)
    ELSE <<[Head(stream) EXCEPT !.lo = Succ(hi)]>> \o Tail(stream)

Advance(s) == rest' = [rest EXCEPT ![s] = Tail(@)]

Yield(r) == out' = Append(out, r)

(***************************************************************************)
(* The coalescing emitter.                                                 *)
(***************************************************************************)
\* canMerge: the sum would wrap on the last address.
CanMerge(cur, next) ==
  IF cur.hi = MaxAddr THEN next.lo <= cur.hi ELSE next.lo <= Succ(cur.hi)

Emit(r) ==
  \/ /\ pending = NoRange
     /\ pending' = r
     /\ UNCHANGED out
  \/ /\ pending # NoRange /\ CanMerge(pending, r)
     /\ pending' = [pending EXCEPT !.hi = Higher(@, r.hi)]
     /\ UNCHANGED out
  \/ /\ pending # NoRange /\ ~CanMerge(pending, r)
     /\ Yield(pending)
     /\ pending' = r

Exhausted == \A s \in Sources : ~Left(s)

Flush ==
  /\ pending # NoRange
  /\ Yield(pending)
  /\ pending' = NoRange
  /\ UNCHANGED <<rest, given>>

(***************************************************************************)
(* Intersection: what the heads share is yielded, and the one that ends    *)
(* first is dropped; a head that ends later is kept whole.  If both end    *)
(* together, the streams drop both and the in-memory sets the second only: *)
(* the choice is left open.                                                *)
(***************************************************************************)
IntersectSkip(s, t) ==
  /\ Left(s) /\ Left(t)
  /\ Before(s, t)
  /\ Advance(s)
  /\ UNCHANGED <<pending, out, given>>

IntersectMeet ==
  LET last == Lower(First(A).hi, First(B).hi) IN
  /\ Overlap
  /\ Yield([lo |-> Higher(First(A).lo, First(B).lo), hi |-> last])
  /\ \E gone \in SUBSET {s \in {A, B} : First(s).hi = last} :
       /\ gone # {}
       /\ rest' = [s \in Sources |-> IF s \in gone THEN Tail(rest[s]) ELSE rest[s]]
  /\ UNCHANGED <<pending, given>>

IntersectNext == IntersectSkip(A, B) \/ IntersectSkip(B, A) \/ IntersectMeet

IntersectSpec == Init /\ [][IntersectNext]_vars

(***************************************************************************)
(* Exclusion: the head of A is yielded up to where the head of B begins    *)
(* and goes on after it ends.  If both end together, the streams keep the  *)
(* head of B and the in-memory sets drop it: the choice is left open.      *)
(***************************************************************************)
ExcludeKeep ==
  /\ Left(A)
  /\ Left(B) => Before(A, B)
  /\ Yield(First(A))
  /\ Advance(A)
  /\ UNCHANGED <<pending, given>>

ExcludeSkip ==
  /\ Left(A) /\ Left(B)
  /\ Before(B, A)
  /\ Advance(B)
  /\ UNCHANGED <<pending, out, given>>

ExcludeCut ==
  /\ Overlap
  /\ IF First(A).lo < First(B).lo
       THEN Yield([lo |-> First(A).lo, hi |-> Pred(First(B).lo)])
       ELSE UNCHANGED out
  /\ \/ /\ First(A).hi <= First(B).hi
        /\ Advance(A)
     \/ /\ First(B).hi <= First(A).hi
        /\ rest' = [rest EXCEPT ![A] = Beyond(@, First(B).hi), ![B] = Tail(@)]
  /\ UNCHANGED <<pending, given>>

ExcludeNext == ExcludeKeep \/ ExcludeSkip \/ ExcludeCut

ExcludeSpec == Init /\ [][ExcludeNext]_vars

(***************************************************************************)
(* Symmetric difference: a head that shares nothing is emitted whole; of   *)
(* two that overlap, what comes before the overlap, and both go on after   *)
(* the first end.                                                          *)
(***************************************************************************)
DiffWhole(s, t) ==
  /\ Left(s)
  /\ Left(t) => Before(s, t)
  /\ Emit(First(s))
  /\ Advance(s)
  /\ UNCHANGED given

DiffMeet ==
  LET start == Higher(First(A).lo, First(B).lo)
      last  == Lower(First(A).hi, First(B).hi)
  IN
  /\ Overlap
  /\ IF First(A).lo # First(B).lo
       THEN Emit([lo |-> Lower(First(A).lo, First(B).lo), hi |-> Pred(start)])
       ELSE UNCHANGED <<pending, out>>
  /\ rest' = [rest EXCEPT ![A] = Beyond(@, last), ![B] = Beyond(@, last)]
  /\ UNCHANGED given

DiffFlush == ~Left(A) /\ ~Left(B) /\ Flush

DiffNext == DiffWhole(A, B) \/ DiffWhole(B, A) \/ DiffMeet \/ DiffFlush

DiffSpec == Init /\ [][DiffNext]_vars

(***************************************************************************)
(* Union: the head that begins first, of any input, is emitted.  On a tie  *)
(* two inputs go in order and the heap prefers the shorter range: the      *)
(* choice is left open.  A single input is passed on as it is: its ranges  *)
(* may touch, and they are not merged.                                     *)
(***************************************************************************)
SingleSource == \A s, t \in Sources : s = t

UnionPass(s) ==
  /\ Left(s)
  /\ Yield(First(s))
  /\ Advance(s)
  /\ UNCHANGED <<pending, given>>

UnionTake(s) ==
  /\ Left(s)
  /\ \A t \in Sources : Left(t) => First(s).lo <= First(t).lo
  /\ Emit(First(s))
  /\ Advance(s)
  /\ UNCHANGED given

UnionFlush == Exhausted /\ Flush

MergeNext == (\E s \in Sources : UnionTake(s)) \/ UnionFlush

UnionNext ==
  \/ SingleSource /\ \E s \in Sources : UnionPass(s)
  \/ ~SingleSource /\ MergeNext

UnionSpec == Init /\ [][UnionNext]_vars

\* Optimize sorts the ranges of an unordered set by where they begin and merges
\* what touches: a merge whose inputs are single ranges.
OptimizeSpec ==
  /\ Init /\ \A s \in Sources : Len(given[s]) = 1
  /\ [][MergeNext]_vars

(***************************************************************************)
(* What the operations promise.                                            *)
(***************************************************************************)
Intersection == Covered(given[A]) \cap Covered(given[B])
Exclusion    == Covered(given[A]) \ Covered(given[B])
Difference   == Exclusion \cup (Covered(given[B]) \ Covered(given[A]))
Union        == UNION {Covered(given[s]) : s \in Sources}

\* Coalesced: at least one address lies between two ranges.
Apart(s) == \A i, j \in 1 .. Len(s) : i < j => s[i].hi + 1 < s[j].lo

\* What was yielded is the result up to where it got: a consumer that stops
\* early has missed nothing and seen nothing wrong.
UpTo(result, s) == \A i \in 1 .. Len(s) : \A x \in result : x <= s[i].hi => x \in Covered(s)

Yields(result, done) ==
  /\ out \in Streams
  /\ Covered(out) \subseteq result
  /\ UpTo(result, out)
  /\ done => Covered(out) = result

\* IntersectIter: the streams that IntersectIter yields cover the addresses both
\* inputs cover, in order, each once.
IntersectRight == Yields(Intersection, ~Left(A) \/ ~Left(B))

\* ExcludeIter: the addresses of the first input that the second does not cover.
ExcludeRight == Yields(Exclusion, ~Left(A))

\* DiffIter: the addresses of exactly one of both, in ranges that do not touch.
DiffRight ==
  /\ Yields(Difference, ~Left(A) /\ ~Left(B) /\ pending = NoRange)
  /\ Apart(out)

\* Optimize: the same addresses, in ranges that do not touch, even when a range
\* ends on the last address.
OptimizeRight ==
  /\ Yields(Union, Exhausted /\ pending = NoRange)
  /\ Apart(out)

\* UnionIter: the addresses of any input, in ranges that do not touch; of a
\* single input, its own ranges.
UnionRight ==
  /\ Yields(Union, Exhausted /\ pending = NoRange)
  /\ ~SingleSource => Apart(out)
  /\ SingleSource => \A s \in Sources : given[s] = out \o rest[s]
=============================================================================
