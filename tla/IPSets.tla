------------------------------- MODULE IPSets -------------------------------
(***************************************************************************)
(* Sets of addresses in memory (pkg/iprange: parse.go, set.go,             *)
(* set_ops.go): read from the lines of a text, sorted and merged, and      *)
(* combined pairwise.  The modules of IPv6 (set6.go, set6_ops.go) are      *)
(* copies over wider numbers.                                              *)
(*                                                                         *)
(* A set is a sequence of ranges in any order until it is optimized.  The  *)
(* assumptions at the end say what reading and combining must yield.       *)
(***************************************************************************)
EXTENDS RangeAlgorithms

(***************************************************************************)
(* Reading.  A line is blank, one token, or two tokens around its first    *)
(* hyphen; a token has an address, or none that can be read, and a prefix, *)
(* or none.  Comments and spaces are gone; what cannot be read adds        *)
(* nothing, names of hosts included, which are looked up after the text.   *)
(***************************************************************************)
Unreadable == MaxAddr + 1
NoPrefix   == Bits + 1

Tokens == [addr : Addresses \cup {Unreadable}, prefix : 0 .. NoPrefix]
Lines  == {<<>>} \cup {<<t>> : t \in Tokens} \cup {<<t, u>> : t, u \in Tokens}

Network(addr, prefix) == addr - (addr % BlockSize(prefix))

\* parseRangeEndpointBytes, for tokens that can be read.
Endpoint(token, opts) ==
  LET prefix == IF token.prefix = NoPrefix THEN opts.defaultPrefix ELSE token.prefix
      lo == IF opts.useNetwork THEN Network(token.addr, prefix) ELSE token.addr
  IN [lo |-> lo, hi |-> lo + (BlockSize(prefix) - 1) - (lo % BlockSize(prefix))]

Readable(token) == token.addr # Unreadable
EmptySet == [ranges |-> <<>>, failed |-> FALSE]

\* ParseReader, of one line after those already read.
ReadLine(set, line, opts) ==
  LET read == {i \in DOMAIN line : Readable(line[i])}
      r == IF Len(line) = 2
           THEN [lo |-> Endpoint(line[1], opts).lo, hi |-> Endpoint(line[2], opts).hi]
           ELSE Endpoint(line[1], opts)
  IN IF set.failed \/ line = <<>> \/ read # DOMAIN line THEN set
     ELSE IF r.lo > r.hi THEN [set EXCEPT !.failed = TRUE]
     ELSE [set EXCEPT !.ranges = Append(@, r)]

ParseReader(lines, opts) ==
  FoldLeft(LAMBDA set, line : ReadLine(set, line, opts), EmptySet, lines)

(***************************************************************************)
(* Optimize: sorted by where they begin, the longer first; then merged     *)
(* when they overlap or touch, minding that nothing follows the last       *)
(* address.                                                                *)
(***************************************************************************)
Precedes(r, q) == r.lo < q.lo \/ (r.lo = q.lo /\ r.hi > q.hi)

Optimize(s) ==
  LET sorted == SortSeq(s, Precedes)
      Merge(done, next) ==
        LET cur == done[Len(done)]
        IN IF next.hi <= cur.hi THEN done
           ELSE IF (cur.hi # MaxAddr /\ next.lo <= cur.hi + 1)
                     \/ (cur.hi = MaxAddr /\ next.lo <= cur.hi)
             THEN [done EXCEPT ![Len(done)].hi = next.hi]
           ELSE Append(done, next)
  IN IF s = <<>> THEN <<>> ELSE FoldLeft(Merge, <<Head(sorted)>>, Tail(sorted))

(***************************************************************************)
(* The walks over two optimized sets.  What is left of the head of one is  *)
(* kept in lo and hi by the code, and is the head here.                    *)
(***************************************************************************)
After(s, hi) == <<[Head(s) EXCEPT !.lo = hi + 1]>> \o Tail(s)
PartOf(lo, hi) == <<[lo |-> lo, hi |-> hi - 1]>>

RECURSIVE ExcludeWalk(_, _)
ExcludeWalk(a, b) ==
  IF a = <<>> \/ b = <<>> THEN a
  ELSE LET r == Head(a)
           q == Head(b)
           kept == IF r.lo < q.lo THEN PartOf(r.lo, q.lo) ELSE <<>>
       IN IF r.lo > q.hi THEN ExcludeWalk(a, Tail(b))
          ELSE IF q.lo > r.hi THEN <<r>> \o ExcludeWalk(Tail(a), b)
          ELSE kept \o (IF r.hi = q.hi THEN ExcludeWalk(Tail(a), Tail(b))
                        ELSE IF r.hi < q.hi THEN ExcludeWalk(Tail(a), b)
                        ELSE ExcludeWalk(After(a, q.hi), Tail(b)))

RECURSIVE IntersectWalk(_, _)
IntersectWalk(a, b) ==
  IF a = <<>> \/ b = <<>> THEN <<>>
  ELSE LET r == Head(a)
           q == Head(b)
       IN IF r.lo > q.hi THEN IntersectWalk(a, Tail(b))
          ELSE IF q.lo > r.hi THEN IntersectWalk(Tail(a), b)
          ELSE <<Common(r, q)>> \o (IF r.hi < q.hi THEN IntersectWalk(Tail(a), b)
                                                   ELSE IntersectWalk(a, Tail(b)))

RECURSIVE DiffWalk(_, _)
DiffWalk(a, b) ==
  IF a = <<>> THEN b
  ELSE IF b = <<>> THEN a
  ELSE LET r == Head(a)
           q == Head(b)
           alone == IF r.lo > q.lo THEN PartOf(q.lo, r.lo)
                    ELSE IF q.lo > r.lo THEN PartOf(r.lo, q.lo) ELSE <<>>
       IN IF r.lo > q.hi THEN <<q>> \o DiffWalk(a, Tail(b))
          ELSE IF q.lo > r.hi THEN <<r>> \o DiffWalk(Tail(a), b)
          ELSE alone \o (IF r.hi > q.hi THEN DiffWalk(After(a, q.hi), Tail(b))
                         ELSE IF q.hi > r.hi THEN DiffWalk(Tail(a), After(b, r.hi))
                         ELSE DiffWalk(Tail(a), Tail(b)))

ExcludeSets(a, b)   == Optimize(ExcludeWalk(Optimize(a), Optimize(b)))
IntersectSets(a, b) == Optimize(IntersectWalk(Optimize(a), Optimize(b)))
DiffSets(a, b)      == Optimize(DiffWalk(Optimize(a), Optimize(b)))

(***************************************************************************)
(* What they must yield.                                                   *)
(***************************************************************************)
Separated(s) == \A i \in 1 .. Len(s) - 1 : s[i].hi + 1 < s[i + 1].lo
Holds(s, addresses) == Separated(s) /\ Covered(s) = addresses
RangesBelow(n) == {r \in Ranges : r.hi < n}
Loose == UNION {[1 .. n -> Ranges] : n \in 0 .. 2} \cup [1 .. 3 -> RangesBelow(5)]

\* Whatever the order and the overlaps, the ranges come out sorted, merged even
\* where they only touch, and cover what they covered, up to the last address.
ASSUME OptimizeRight == \A s \in Loose : Holds(Optimize(s), Covered(s))

\* The walks over two sets compute difference, intersection and symmetric
\* difference, and no end of a range is lost at the first or the last address.
ASSUME PairwiseRight ==
  \A a, b \in WholeBelow(6) \cup {StreamOf(s, {}) : s \in SUBSET (2 .. MaxAddr)} :
    /\ Holds(ExcludeSets(a, b), Covered(a) \ Covered(b))
    /\ Holds(IntersectSets(a, b), Covered(a) \cap Covered(b))
    /\ Holds(DiffSets(a, b), (Covered(a) \ Covered(b)) \cup (Covered(b) \ Covered(a)))

\* A line that is read adds the block of its token, or the addresses from the
\* first of its left block to the last of its right one; a line that cannot be
\* read takes nothing away from the others.  Only a range that ends before it
\* begins spoils the whole text, unlike every other malformed line.
Options == [defaultPrefix : {Bits, 1}, useNetwork : BOOLEAN]
Sampled == {l \in Lines : \A i \in DOMAIN l :
              /\ l[i].addr \in {0, 5, MaxAddr, Unreadable}
              /\ l[i].prefix \in {1, Bits, NoPrefix}}
AddressesOf(line, opts) ==
  LET first == Endpoint(line[1], opts)
      last  == Endpoint(line[Len(line)], opts)
  IN IF line = <<>> \/ \E i \in DOMAIN line : ~Readable(line[i]) THEN {}
     ELSE {x \in Addresses : first.lo <= x /\ x <= last.hi}
Reversed(line, opts) ==
  Len(line) = 2 /\ Readable(line[1]) /\ Readable(line[2]) /\ AddressesOf(line, opts) = {}

ASSUME ReadRight ==
  \A opts \in Options, one, two \in Sampled :
    LET set == ParseReader(<<one, two>>, opts)
    IN /\ set.failed <=> Reversed(one, opts) \/ Reversed(two, opts)
       /\ ~set.failed => Covered(set.ranges) = AddressesOf(one, opts) \cup AddressesOf(two, opts)
=============================================================================
