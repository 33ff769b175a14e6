--------------------------- MODULE RangeAlgorithms ---------------------------
(***************************************************************************)
(* The algorithms on IP sets that answer a question instead of yielding a  *)
(* set (pkg/iprange): does it hold this address, how much do two sets, or  *)
(* one and many, share, which ranges of a table does it touch, and into    *)
(* which CIDR blocks is it written.  They are functions: the assumptions   *)
(* at the end state what each must return, over all streams of a small     *)
(* address space.                                                          *)
(***************************************************************************)
EXTENDS AddressRanges, FiniteSetsExt, SequencesExt

CONSTANTS
  Bits,      (* the width of an address: 32                                *)
  Targets    (* the sources compared with one source: rows of the result   *)

ASSUME WidthFits == Bits \in Nat /\ MaxAddr = 2^Bits - 1
ASSUME RowsAreNumbers == Targets \subseteq Nat

Common(r, q)    == [lo |-> Higher(r.lo, q.lo), hi |-> Lower(r.hi, q.hi)]
Touches(r, q)   == r.lo <= q.hi /\ q.lo <= r.hi
FromAddress(s, x) == SelectSeq(s, LAMBDA r : r.hi >= x)

(***************************************************************************)
(* Lookup.                                                                 *)
(***************************************************************************)
\* sort.Search: the least index at which a condition that stays true holds.
RECURSIVE Search(_, _, _)
Search(s, x, span) ==
  IF span.lo = span.hi THEN span.lo
  ELSE LET mid == (span.lo + span.hi) \div 2 IN
       Search(s, x, IF s[mid].hi >= x THEN [span EXCEPT !.hi = mid]
                                      ELSE [span EXCEPT !.lo = mid + 1])

ContainsAddress(s, x) ==
  LET i == Search(s, x, [lo |-> 1, hi |-> Len(s) + 1])
  IN i <= Len(s) /\ s[i].lo <= x

(***************************************************************************)
(* What two sets share: overlapCountRangesContext and its variants over    *)
(* bytes and indexed files.  When both heads end together both are done.   *)
(***************************************************************************)
RECURSIVE OverlapCount(_, _)
OverlapCount(a, b) ==
  IF a = <<>> \/ b = <<>> THEN 0
  ELSE LET r == Head(a)
           q == Head(b)
       IN IF r.hi < q.lo THEN OverlapCount(Tail(a), b)
          ELSE IF q.hi < r.lo THEN OverlapCount(a, Tail(b))
          ELSE Size(Common(r, q))
                 + OverlapCount(IF r.hi <= q.hi THEN Tail(a) ELSE a,
                                IF q.hi <= r.hi THEN Tail(b) ELSE b)

(***************************************************************************)
(* What one set shares with many: overlapOneToManyIndexed.  The left set   *)
(* is read once.  The cursors whose range goes on past the left range are  *)
(* active; the others wait in a heap for a left range that reaches them.   *)
(***************************************************************************)
\* oneToManyCursorHeap.less
CursorLess(rest, t, u) ==
  LET r == Head(rest[t])
      q == Head(rest[u])
  IN \/ r.lo < q.lo
     \/ r.lo = q.lo /\ r.hi < q.hi
     \/ r = q /\ t < u

Foremost(rest, heap) == CHOOSE t \in heap : \A u \in heap \ {t} : CursorLess(rest, t, u)

\* consumeCursorForLeftRange: state.rest[t] is at a range that does not end
\* before the left range.
RECURSIVE Consume(_, _, _)
Consume(state, t, left) ==
  LET s == state.rest[t] IN
  IF s = <<>> THEN state
  ELSE IF Head(s).lo > left.hi
         THEN [state EXCEPT !.pending = @ \cup {t}]
  ELSE LET counted == [state EXCEPT !.common[t] = @ + Size(Common(left, Head(s)))] IN
       IF Head(s).hi > left.hi
         THEN [counted EXCEPT !.active = @ \cup {t}]
         ELSE Consume([counted EXCEPT !.rest[t] = FromAddress(Tail(s), left.lo)], t, left)

Reached(state, t, left) ==
  [state EXCEPT !.rest[t] = FromAddress(@, left.lo),
                !.active = @ \ {t}, !.pending = @ \ {t}]

\* processActiveOneToManyCursors: each of them once, in any order.
ProcessActive(state, left) ==
  FoldSet(LAMBDA t, acc : Consume(Reached(acc, t, left), t, left), state, state.active)

\* processPendingOneToManyCursors
RECURSIVE ProcessPending(_, _)
ProcessPending(state, left) ==
  IF state.pending = {} THEN state
  ELSE LET t      == Foremost(state.rest, state.pending)
           popped == Reached(state, t, left)
           s      == popped.rest[t]
           pushed == [popped EXCEPT !.pending = @ \cup {t}]
       IN IF s = <<>> THEN ProcessPending(popped, left)
          ELSE IF Head(s).lo <= left.hi THEN ProcessPending(Consume(popped, t, left), left)
          ELSE IF Head(pushed.rest[Foremost(pushed.rest, pushed.pending)]).lo > left.hi
                 THEN pushed
                 ELSE ProcessPending(pushed, left)

OneToMany(a, others) ==
  FoldLeft(LAMBDA state, left : ProcessPending(ProcessActive(state, left), left),
           [rest    |-> others,
            pending |-> {t \in DOMAIN others : others[t] # <<>>},
            active  |-> {},
            common  |-> [t \in DOMAIN others |-> 0]],
           a).common

(***************************************************************************)
(* Which ranges of a table a set touches: WalkRangeOverlapsContext.  A     *)
(* table range that goes on past the left range is visited again.          *)
(***************************************************************************)
\* walkOneRangeOverlaps: the overlaps of one range from an index on, and the
\* index where the next one starts.
WalkOne(left, table, start) ==
  LET reached == {i \in start .. Len(table) : table[i].hi >= left.lo}
      first   == IF reached = {} THEN Len(table) + 1 ELSE Min(reached)
      met     == {i \in first .. Len(table) :
                    /\ \A j \in first .. i : table[j].lo <= left.hi
                    /\ \A j \in first .. i - 1 : table[j].hi < left.hi}
      next    == IF met = {} THEN first
                 ELSE IF left.hi <= table[Max(met)].hi THEN Max(met) ELSE Max(met) + 1
  IN [met |-> met, next |-> next]

WalkOverlaps(a, table) ==
  FoldLeft(LAMBDA state, left :
             IF state.next > Len(table) THEN state
             ELSE LET one == WalkOne(left, table, state.next)
                  IN [met |-> Append(state.met, one.met), next |-> one.next],
           [met |-> <<>>, next |-> 1], a).met

(***************************************************************************)
(* Writing CIDR blocks: splitRange halves the block a range lies in until  *)
(* the range is a whole block of an enabled prefix.                        *)
(***************************************************************************)
BlockSize(prefix)       == 2^(Bits - prefix)
Broadcast(addr, prefix) == addr + BlockSize(prefix) - 1
Block(addr, prefix)     == [lo |-> addr, hi |-> Broadcast(addr, prefix)]

RECURSIVE SplitRange(_, _, _, _)
SplitRange(addr, prefix, r, enabled) ==
  LET upper == addr + BlockSize(prefix + 1) IN
  IF r = Block(addr, prefix) /\ prefix \in enabled THEN <<[addr |-> addr, prefix |-> prefix]>>
  ELSE IF prefix = Bits THEN <<>>
  ELSE IF r.hi < upper THEN SplitRange(addr, prefix + 1, r, enabled)
  ELSE IF r.lo >= upper THEN SplitRange(upper, prefix + 1, r, enabled)
  ELSE SplitRange(addr, prefix + 1, [r EXCEPT !.hi = upper - 1], enabled)
         \o SplitRange(upper, prefix + 1, [r EXCEPT !.lo = upper], enabled)

PrintCIDR(s, enabled) == FlattenSeq([i \in DOMAIN s |-> SplitRange(0, 0, s[i], enabled)])

(***************************************************************************)
(* Reduce: fewer prefixes, for a kernel set that has one table for each,   *)
(* at the price of more entries.                                           *)
(***************************************************************************)
PrefixLengths == 0 .. Bits

CountPrefixes(s, enabled) ==
  LET blocks == PrintCIDR(s, enabled)
  IN [p \in PrefixLengths |-> Cardinality({i \in DOMAIN blocks : blocks[i].prefix = p})]

Total(counters) == FoldFunction(LAMBDA x, y : x + y, 0, counters)

\* The next longer prefix in use, and what moving a prefix into it costs.
NextUsed(counters, p) == {q \in p + 1 .. Bits : counters[q] > 0}
Increase(counters, p) == counters[p] * (2^(Min(NextUsed(counters, p)) - p) - 1)

Movable(counters, enabled) ==
  {p \in enabled : counters[p] > 0 /\ NextUsed(counters, p) # {}}

\* The cheapest move, the shortest prefix of those that cost the same.
Cheapest(counters, movable) ==
  CHOOSE p \in movable : \A q \in movable :
    \/ Increase(counters, p) < Increase(counters, q)
    \/ Increase(counters, p) = Increase(counters, q) /\ p <= q

RECURSIVE MovePrefixes(_, _, _)
MovePrefixes(counters, enabled, acceptable) ==
  LET movable == {p \in Movable(counters, enabled) : Increase(counters, p) < acceptable * 10}
      from    == Cheapest(counters, movable)
      to      == Min(NextUsed(counters, from))
      cost    == Increase(counters, from)
  IN IF \/ Total(counters) >= acceptable
        \/ movable = {}
        \/ Total(counters) + cost > acceptable
       THEN enabled
       ELSE MovePrefixes([counters EXCEPT ![to] = @ + cost + counters[from], ![from] = 0],
                         enabled \ {from}, acceptable)

Acceptable(total, percent, least) == Higher((total * percent) \div 100, least)

Reduce(s, percent, least, enabled) ==
  LET counters == CountPrefixes(s, enabled)
  IN MovePrefixes(counters, {p \in enabled : counters[p] > 0},
                  Acceptable(Total(counters), percent, least))

(***************************************************************************)
(* All streams over the first n addresses: a set of addresses and the      *)
(* places where a run of it is cut into ranges that touch.                 *)
(***************************************************************************)
Below(n) == 0 .. n - 1

StreamOf(addresses, cuts) ==
  LET begins == {x \in addresses : x - 1 \notin addresses \/ x \in cuts}
      ends   == {x \in addresses : x + 1 \notin addresses \/ x + 1 \in cuts}
  IN [i \in 1 .. Cardinality(begins) |->
        [lo |-> SetToSortSeq(begins, <)[i], hi |-> SetToSortSeq(ends, <)[i]]]

StreamsBelow(n) ==
  {StreamOf(s, c) : s \in SUBSET Below(n), c \in SUBSET (Below(n) \ {0})}

\* The streams that sets and files hold: no two ranges touch.
WholeBelow(n) == {StreamOf(s, {}) : s \in SUBSET Below(n)}

Shared(a, b)    == Cardinality(Covered(a) \cap Covered(b))
BlocksOf(s, enabled) == ToSet(PrintCIDR(s, enabled))
Printed(s, enabled)  == UNION {Within(Block(b.addr, b.prefix)) : b \in BlocksOf(s, enabled)}

(***************************************************************************)
(* What the answers must be.                                               *)
(***************************************************************************)
\* containsWithStats and fileSetContains find an address exactly if a range covers it.
ASSUME ContainsRight ==
  \A s \in StreamsBelow(5) : \A x \in Below(6) : ContainsAddress(s, x) <=> x \in Covered(s)

\* The sweep counts every common address once, however the sets are cut.
ASSUME OverlapCountRight ==
  \A a, b \in StreamsBelow(4) : OverlapCount(a, b) = Shared(a, b)

\* Comparing one set with many at once counts for each what comparing it alone
\* would: no cursor is left behind in the heap when a left range reaches it.
ASSUME OneToManyRight ==
  \A a \in StreamsBelow(4) : \A others \in [Targets -> WholeBelow(4)] :
    OneToMany(a, others) = [t \in Targets |-> Shared(a, others[t])]

\* Every pair of ranges that overlap is reported, and no other, in order.
ASSUME WalkOverlapsRight ==
  \A a, table \in StreamsBelow(4) :
    LET met == WalkOverlaps(a, table) IN
    /\ \A i \in DOMAIN met : met[i] = {j \in DOMAIN table : Touches(a[i], table[j])}
    /\ \A i \in DOMAIN a \ DOMAIN met : \A j \in DOMAIN table : ~Touches(a[i], table[j])

\* Blocks come in order and do not overlap; together they are the enabled blocks
\* that lie inside the set, and no block could be joined into an enabled one.
ASSUME SplitRight ==
  \A s \in WholeBelow(8) : \A enabled \in SUBSET PrefixLengths :
    LET blocks == PrintCIDR(s, enabled)
        inside == {b \in [addr : Below(8), prefix : enabled] :
                     /\ b.addr % BlockSize(b.prefix) = 0
                     /\ Within(Block(b.addr, b.prefix)) \subseteq Covered(s)}
    IN /\ \A i \in 1 .. Len(blocks) - 1 :
            Broadcast(blocks[i].addr, blocks[i].prefix) < blocks[i + 1].addr
       /\ ToSet(blocks) = {b \in inside : ~ \E c \in inside :
                             /\ c.prefix < b.prefix
                             /\ b.addr \in Within(Block(c.addr, c.prefix))}

\* Reduce loses no address and keeps to the number of entries it was allowed,
\* or to the number there were.
ASSUME ReduceRight ==
  \A s \in WholeBelow(8) : \A percent \in {100, 150}, least \in {0, 3, 6} :
    \A enabled \in {PrefixLengths, PrefixLengths \ {0}, {1, 3}} :
      LET before  == Cardinality(BlocksOf(s, enabled))
          reduced == Reduce(s, percent, least, enabled)
      IN /\ reduced \subseteq enabled
         /\ Printed(s, reduced) = Printed(s, enabled)
         /\ Cardinality(BlocksOf(s, reduced))
              <= Higher(before, Acceptable(before, percent, least))
=============================================================================
