------------------------------ MODULE IPv6Sets ------------------------------
(***************************************************************************)
(* Sets with their counters, and what IPv6 does differently (pkg/iprange:  *)
(* set.go, set_ops.go, set6.go, set6_ops.go, iter6_ops.go,                 *)
(* iter6_ops_indexed.go, parse6.go).  The ranges of both families are those*)
(* of IPSets; what differs is the width of the count of addresses, which for*)
(* IPv6 is that of an address and wraps, and the reading of texts, in which*)
(* an IPv4 address stands for its mapped one.                              *)
(*                                                                         *)
(* The numbers of IPv6 (range6.go) are two machine words, with the carries,*)
(* borrows and shifts between them, and their decimal and hexadecimal text.*)
(* A word has 2 * HalfBits bits here instead of 64, so that every value can*)
(* be tried; 10, the only constant the code multiplies with, still fits half*)
(* a word, as it does in the code.                                         *)
(***************************************************************************)
EXTENDS IPSets
LOCAL INSTANCE Bitwise

Families == {"ipv4", "ipv6"}

(***************************************************************************)
(* A set: its ranges, the lines they came from, its count of addresses,    *)
(* and whether the ranges are known to be sorted and merged.               *)
(***************************************************************************)
Counted(family, n) == IF family = "ipv6" THEN n % (MaxAddr + 1) ELSE n

Tally(family, s) == FoldLeft(LAMBDA n, r : Counted(family, n + Size(r)), 0, s)

NewSet == [ranges |-> <<>>, lines |-> 0, unique |-> 0, optimized |-> FALSE]

AddRange(family, set, r) ==
  [ranges    |-> Append(set.ranges, r),
   lines     |-> set.lines + 1,
   unique    |-> Counted(family, set.unique + Size(r)),
   optimized |-> FALSE]

Optimized(family, set) ==
  IF set.optimized THEN set
  ELSE [set EXCEPT !.ranges    = Optimize(@),
                   !.unique    = Tally(family, Optimize(set.ranges)),
                   !.optimized = TRUE]

\* The other set is added as it is; the counts come with the next Optimize.
MergeIn(set, other) ==
  [ranges |-> set.ranges \o other.ranges, lines |-> set.lines + other.lines,
   unique |-> 0, optimized |-> FALSE]

\* Combine: the result claims no count until it is optimized.
Combine(a, b) == MergeIn(a, b)

\* The three walks: the lines of both sets, whatever is left of them.
Combined(family, ranges, a, b) ==
  [ranges |-> ranges, lines |-> a.lines + b.lines,
   unique |-> Tally(family, ranges), optimized |-> TRUE]

Exclude4(a, b)   == Combined("ipv4", ExcludeSets(a.ranges, b.ranges), a, b)
Intersect4(a, b) == Combined("ipv4", IntersectSets(a.ranges, b.ranges), a, b)
Diff4(a, b)      == Combined("ipv4", DiffSets(a.ranges, b.ranges), a, b)
Exclude6(a, b)   == Combined("ipv6", ExcludeSets(a.ranges, b.ranges), a, b)
Intersect6(a, b) == Combined("ipv6", IntersectSets(a.ranges, b.ranges), a, b)
Diff6(a, b)      == Combined("ipv6", DiffSets(a.ranges, b.ranges), a, b)

(***************************************************************************)
(* Comparing and counting.                                                 *)
(***************************************************************************)
CompareRow(family, a, b) ==
  LET x      == Optimized(family, a)
      y      == Optimized(family, b)
      common == Counted(family, OverlapCount(x.ranges, y.ranges))
  IN [entries  |-> <<Len(x.ranges), Len(y.ranges)>>,
      unique   |-> <<x.unique, y.unique>>,
      combined |-> Counted(family, x.unique + y.unique - common),
      common   |-> common]

CompareAll(family, sets) ==
  IF Len(sets) < 2 THEN {}
  ELSE {[pair |-> p, row |-> CompareRow(family, sets[p[1]], sets[p[2]])] :
          p \in {q \in (DOMAIN sets) \X (DOMAIN sets) : q[1] < q[2]}}

CompareNext(family, before, after) ==
  {[pair |-> p, row |-> CompareRow(family, before[p[1]], after[p[2]])] :
     p \in (DOMAIN before) \X (DOMAIN after)}

CompareFirst(family, sets) ==
  IF Len(sets) < 2 THEN {}
  ELSE {[pair |-> <<1, i>>, row |-> CompareRow(family, sets[1], sets[i])] :
          i \in (DOMAIN sets) \ {1}}

CountUniqueMerged(family, sets) ==
  Optimized(family, FoldLeft(MergeIn, Head(sets), Tail(sets)))

CountUniqueAll(family, sets) == [i \in DOMAIN sets |-> Optimized(family, sets[i])]

\* The definitions of set6_ops.go.
CompareAll6(sets)           == CompareAll("ipv6", sets)
CompareNext6(before, after) == CompareNext("ipv6", before, after)
CompareFirst6(sets)         == CompareFirst("ipv6", sets)
CountUniqueMerged6(sets)    == CountUniqueMerged("ipv6", sets)
CountUniqueAll6(sets)       == CountUniqueAll("ipv6", sets)

(***************************************************************************)
(* The walks by index, over sets and files: a read may fail, and then the  *)
(* walk ends with what it has yielded, and says nothing.  A range that     *)
(* cannot be read is NoRange.                                              *)
(***************************************************************************)
Unread(s) == s # <<>> /\ Head(s) = NoRange

RECURSIVE IntersectIndexed6(_, _)
IntersectIndexed6(a, b) ==
  IF a = <<>> \/ b = <<>> \/ Unread(a) \/ Unread(b) THEN <<>>
  ELSE LET r == Head(a)
           q == Head(b)
       IN IF r.hi < q.lo THEN IntersectIndexed6(Tail(a), b)
          ELSE IF q.hi < r.lo THEN IntersectIndexed6(a, Tail(b))
          ELSE <<Common(r, q)>> \o IntersectIndexed6(IF r.hi <= q.hi THEN Tail(a) ELSE a,
                                                     IF q.hi <= r.hi THEN Tail(b) ELSE b)

RECURSIVE ExcludeIndexed6(_, _)
ExcludeIndexed6(a, b) ==
  IF a = <<>> \/ Unread(a) \/ Unread(b) THEN <<>>
  ELSE LET r == Head(a)
           q == Head(b)
           kept == IF r.lo < q.lo THEN PartOf(r.lo, q.lo) ELSE <<>>
       IN IF b = <<>> THEN <<r>> \o ExcludeIndexed6(Tail(a), b)
          ELSE IF q.hi < r.lo THEN ExcludeIndexed6(a, Tail(b))
          ELSE IF r.hi < q.lo THEN <<r>> \o ExcludeIndexed6(Tail(a), b)
          ELSE kept \o (IF r.hi <= q.hi THEN ExcludeIndexed6(Tail(a), b)
                                        ELSE ExcludeIndexed6(After(a, q.hi), Tail(b)))

CanMerge6(cur, next) == IF cur.hi = MaxAddr THEN next.lo <= cur.hi ELSE next.lo <= cur.hi + 1

\* What is yielded of the ranges a walk emits: each waits until one follows that
\* it cannot be merged with.
Emit6(out, r) ==
  IF out.pending = <<>> THEN [out EXCEPT !.pending = <<r>>]
  ELSE IF CanMerge6(out.pending[1], r)
         THEN [out EXCEPT !.pending[1].hi = Higher(@, r.hi)]
         ELSE [done |-> out.done \o out.pending, pending |-> <<r>>]

Nothing6 == [done |-> <<>>, pending |-> <<>>]
Flushed(out) == out.done \o out.pending

\* A failed read gives up the pending range too.
RECURSIVE DiffIndexed6(_, _, _)
DiffIndexed6(a, b, out) ==
  IF Unread(a) \/ Unread(b) THEN out.done
  ELSE IF a = <<>> /\ b = <<>> THEN Flushed(out)
  ELSE IF b = <<>> THEN DiffIndexed6(Tail(a), b, Emit6(out, Head(a)))
  ELSE IF a = <<>> THEN DiffIndexed6(a, Tail(b), Emit6(out, Head(b)))
  ELSE LET r == Head(a)
           q == Head(b)
           alone == IF r.lo < q.lo THEN Emit6(out, PartOf(r.lo, q.lo)[1])
                    ELSE IF q.lo < r.lo THEN Emit6(out, PartOf(q.lo, r.lo)[1]) ELSE out
       IN IF r.hi < q.lo THEN DiffIndexed6(Tail(a), b, Emit6(out, r))
          ELSE IF q.hi < r.lo THEN DiffIndexed6(a, Tail(b), Emit6(out, q))
          ELSE IF r.hi < q.hi THEN DiffIndexed6(Tail(a), After(b, r.hi), alone)
          ELSE IF q.hi < r.hi THEN DiffIndexed6(After(a, q.hi), Tail(b), alone)
          ELSE DiffIndexed6(Tail(a), Tail(b), alone)

\* unionKWay6IndexedIter, and unionTwo6IndexedIter for two: always the source
\* whose next range begins first.
RECURSIVE UnionIndexed6(_, _)
UnionIndexed6(rest, out) ==
  LET live == {t \in DOMAIN rest : rest[t] # <<>>}
      Before6(t, u) == LET r == Head(rest[t])
                           q == Head(rest[u])
                       IN r.lo < q.lo \/ (r.lo = q.lo /\ r.hi <= q.hi)
      next == CHOOSE t \in live : \A u \in live : Before6(t, u)
  IN IF \E t \in live : Unread(rest[t]) THEN out.done
     ELSE IF live = {} THEN Flushed(out)
     ELSE UnionIndexed6([rest EXCEPT ![next] = Tail(@)], Emit6(out, Head(rest[next])))

\* overlapCount6Indexed: with a read that fails, the count is nothing at all.
RECURSIVE OverlapCount6(_, _, _)
OverlapCount6(a, b, n) ==
  IF a = <<>> \/ b = <<>> THEN n
  ELSE IF Unread(a) \/ Unread(b) THEN 0
  ELSE LET r == Head(a)
           q == Head(b)
       IN IF r.hi < q.lo THEN OverlapCount6(Tail(a), b, n)
          ELSE IF q.hi < r.lo THEN OverlapCount6(a, Tail(b), n)
          ELSE OverlapCount6(IF r.hi <= q.hi THEN Tail(a) ELSE a,
                             IF q.hi <= r.hi THEN Tail(b) ELSE b,
                             Counted("ipv6", n + Size(Common(r, q))))

(***************************************************************************)
(* Reading a text as IPv6.  A token is an IPv6 address or an IPv4 address, *)
(* which stands for its mapped one: V4Bits is 32 and MappedBase the        *)
(* address ::ffff:0:0 in the code.  The addresses of a text are a bit      *)
(* wider than those of the sets above, to have a prefix that is longer     *)
(* than those of IPv4 and shorter than that of all the mapped addresses.   *)
(***************************************************************************)
TextBits   == Bits + 1
Text       == INSTANCE IPSets WITH Bits <- TextBits, MaxAddr <- 2^TextBits - 1
V4Bits     == 1
MappedBase == 2^V4Bits
Mapped(x)  == MappedBase + x
MixedTokens == [v4 : {TRUE}, addr : 0 .. 2^V4Bits - 1, prefix : 0 .. Text!NoPrefix]
                 \cup [v4 : {FALSE}, addr : Text!Addresses \cup {Text!Unreadable},
                       prefix : 0 .. Text!NoPrefix]

Network4(x, prefix)   == x - (x % 2^(V4Bits - prefix))
Broadcast4(x, prefix) == Network4(x, prefix) + 2^(V4Bits - prefix) - 1
MappedRange(lo, hi)   == [lo |-> Mapped(lo), hi |-> Mapped(hi)]

\* parseIPv6OrMappedEndpointBytes.  The block of an IPv4 prefix always begins at
\* its network; a prefix that IPv4 does not have is taken as one of IPv6.
Endpoint6(token, opts) ==
  LET given == token.prefix # Text!NoPrefix
      lo    == IF opts.useNetwork THEN Network4(token.addr, opts.defaultPrefix) ELSE token.addr
  IN IF ~token.v4 THEN Text!Endpoint(token, opts)
     ELSE IF given /\ token.prefix <= V4Bits
       THEN MappedRange(Network4(token.addr, token.prefix), Broadcast4(token.addr, token.prefix))
     ELSE IF given THEN Text!Endpoint([token EXCEPT !.addr = Mapped(@)], opts)
     ELSE IF opts.defaultPrefix >= V4Bits THEN MappedRange(token.addr, token.addr)
     ELSE MappedRange(lo, Broadcast4(lo, opts.defaultPrefix))

\* ParseReader6, of one line; the state as in ParseReader.
ReadLine6(set, line, opts) ==
  LET r == [lo |-> Endpoint6(line[1], opts).lo, hi |-> Endpoint6(line[Len(line)], opts).hi]
  IN IF set.failed \/ line = <<>> \/ (\E i \in DOMAIN line : ~Text!Readable(line[i])) THEN set
     ELSE IF r.lo > r.hi THEN [set EXCEPT !.failed = TRUE]
     ELSE [set EXCEPT !.ranges = Append(@, r)]

\* Names are looked up when the text has been read: what they stand for in IPv4,
\* mapped, and in IPv6.
ParseReader6(lines, named, opts) ==
  LET set == FoldLeft(LAMBDA acc, line : ReadLine6(acc, line, opts), EmptySet, lines)
      One(x) == [lo |-> x, hi |-> x]
  IN IF set.failed THEN set
     ELSE [set EXCEPT !.ranges = @ \o [i \in DOMAIN named.v4 |-> One(Mapped(named.v4[i]))]
                                   \o [i \in DOMAIN named.v6 |-> One(named.v6[i])]]

(***************************************************************************)
(* What they must yield.                                                   *)
(***************************************************************************)
Added(family, s) == FoldLeft(LAMBDA set, r : AddRange(family, set, r), NewSet, s)
Few == UNION {[1 .. n -> Ranges] : n \in 0 .. 2}
Whole == StreamOf(Addresses, {})
Tight(s) == [ranges |-> s, lines |-> Len(s), unique |-> Cardinality(Covered(s)),
             optimized |-> TRUE]
Tights == {Tight(s) : s \in WholeBelow(6)}

\* However the ranges came, the count is that of the addresses, and there are
\* never fewer lines than ranges, which the reader of a binary file insists on.
\* In IPv6 the whole space counts as nothing.
ASSUME CountersRight ==
  \A family \in Families, s \in Few :
    LET set == Optimized(family, Added(family, s)) IN
    /\ set.unique = Counted(family, Cardinality(Covered(s)))
    /\ set.unique = 0 <=> s = <<>> \/ (family = "ipv6" /\ Covered(s) = Addresses)
    /\ Len(set.ranges) <= set.lines

\* The results of the pairwise operations count right too, and a result has no
\* more ranges than its operands have lines, though excluding cuts ranges apart.
ASSUME ResultsCounted ==
  \A a, b \in Tights :
    \A set \in {Exclude4(a, b), Intersect4(a, b), Diff4(a, b),
                Exclude6(a, b), Intersect6(a, b), Diff6(a, b)} :
      /\ set.unique = Cardinality(Covered(set.ranges))
      /\ Len(set.ranges) <= set.lines

\* A row of a comparison counts the union and the intersection, whether or not
\* the sets were optimized before; merging all sets counts their union.
ASSUME RowsRight ==
  \A family \in Families : \A s, t \in {u \in Few : Len(u) < 2} \cup {<<r, r>> : r \in RangesBelow(3)} \cup {Whole} :
    LET a   == Added(family, s)
        b   == Added(family, t)
        row == CompareRow(family, a, b)
        all == Cardinality(Covered(s) \cup Covered(t))
    IN /\ row.combined = Counted(family, all)
       /\ row.common = Counted(family, Shared(s, t))
       /\ CountUniqueMerged(family, <<a, b>>).unique = Counted(family, all)
       /\ CompareAll(family, <<a, b>>) = CompareFirst(family, <<a, b>>)
       /\ {c.row : c \in CompareNext(family, <<a>>, <<b>>)} = {row}

\* By index the walks yield, in order, what the operations are to yield.
ASSUME IndexedRight ==
  \A a, b \in WholeBelow(6) :
    /\ Holds(ExcludeIndexed6(a, b), Covered(a) \ Covered(b))
    /\ Holds(IntersectIndexed6(a, b), Covered(a) \cap Covered(b))
    /\ Holds(DiffIndexed6(a, b, Nothing6),
             (Covered(a) \ Covered(b)) \cup (Covered(b) \ Covered(a)))
    /\ Holds(UnionIndexed6(<<a, b, a>>, Nothing6), Covered(a) \cup Covered(b))
    /\ OverlapCount6(a, b, 0) = Shared(a, b)

\* A range that cannot be read makes the result shorter and never wrong: the
\* addresses yielded are among the right ones.  But nothing tells the result
\* from a complete one: the file has to be asked for its error.
Spoiled(s, i) == [s EXCEPT ![i] = NoRange]
ASSUME ShortenedOnly ==
  \A a, b \in WholeBelow(5) : \A i \in DOMAIN b :
    /\ Covered(ExcludeIndexed6(a, Spoiled(b, i))) \subseteq Covered(a) \ Covered(b)
    /\ Covered(ExcludeIndexed6(Spoiled(b, i), a)) \subseteq Covered(b) \ Covered(a)
    /\ Covered(IntersectIndexed6(a, Spoiled(b, i))) \subseteq Covered(a) \cap Covered(b)
    /\ Covered(DiffIndexed6(a, Spoiled(b, i), Nothing6))
         \subseteq (Covered(a) \ Covered(b)) \cup (Covered(b) \ Covered(a))
    /\ Covered(UnionIndexed6(<<a, Spoiled(b, i)>>, Nothing6)) \subseteq Covered(a) \cup Covered(b)
    /\ OverlapCount6(a, Spoiled(b, i), 0) \in {0, Shared(a, b)}
ASSUME ShortenedSilently ==
  \E a, b \in WholeBelow(5) : \E i \in DOMAIN b :
    /\ ExcludeIndexed6(a, Spoiled(b, i)) = <<>>
    /\ Covered(a) \cap Covered(b) = {}
    /\ a # <<>>

\* An IPv4 text read as IPv6 is the mapped image of the text read as IPv4, if
\* networks are used.  Two things differ: an address with a prefix but without
\* UseCIDRNetwork gets the whole block, and a prefix above 32, which IPv4 does
\* not read, takes in a block of IPv6 addresses that no IPv4 address stands for.
Options6 == [defaultPrefix : {TextBits, V4Bits, 0}, useNetwork : BOOLEAN]
AsIPv4(token, opts) ==
  LET prefix == IF token.prefix = Text!NoPrefix THEN Lower(opts.defaultPrefix, V4Bits) ELSE token.prefix
      lo == IF opts.useNetwork THEN Network4(token.addr, prefix) ELSE token.addr
  IN IF prefix > V4Bits THEN {} ELSE lo .. Broadcast4(lo, prefix)
ImageOf(addresses) == {Mapped(x) : x \in addresses}
FromIPv4 == {t \in MixedTokens : t.v4}

ASSUME MappedRight ==
  \A opts \in Options6 : \A t \in FromIPv4 :
    LET read == Text!Within(Endpoint6(t, opts)) IN
    /\ t.prefix \notin V4Bits + 1 .. TextBits => ImageOf(AsIPv4(t, opts)) \subseteq read
    /\ t.prefix \notin V4Bits + 1 .. TextBits /\ (opts.useNetwork \/ t.prefix = Text!NoPrefix)
         => read = ImageOf(AsIPv4(t, opts))
ASSUME MappedWide ==
  \E t \in FromIPv4 :
    /\ AsIPv4(t, [defaultPrefix |-> TextBits, useNetwork |-> TRUE]) = {}
    /\ ~ (Text!Within(Endpoint6(t, [defaultPrefix |-> TextBits, useNetwork |-> TRUE]))
            \subseteq ImageOf(0 .. 2^V4Bits - 1))

\* Names add their addresses, whatever the lines held, unless a line spoils the
\* text: then they are not even looked up.
Few6 == {t \in MixedTokens : t.addr \in {0, 1, 2^TextBits - 1, Text!Unreadable} /\ t.prefix \in {1, Text!NoPrefix}}
ASSUME NamesAdded ==
  \A opts \in Options6 : \A t, u \in Few6 :
    LET none  == ParseReader6(<<<<t, u>>>>, [v4 |-> <<>>, v6 |-> <<>>], opts)
        named == ParseReader6(<<<<t, u>>>>, [v4 |-> <<1>>, v6 |-> <<5>>], opts)
    IN /\ named.failed = none.failed
       /\ ~none.failed => Text!Covered(named.ranges) = Text!Covered(none.ranges) \cup {Mapped(1), 5}
       /\ none.failed => named = none

HalfBits == 4
WordBits == 2 * HalfBits
WideBits == 2 * WordBits
Half     == 2^HalfBits
Word     == 2^WordBits
Modulus    == Word * Word      (* the first number that does not fit         *)

Wide(hi, lo) == [hi |-> hi, lo |-> lo]
Value(a)     == a.hi * Word + a.lo
OfValue(n)   == Wide(n \div Word, n % Word)
Zero         == Wide(0, 0)
AllOnes      == Wide(Word - 1, Word - 1)

\* What a machine word keeps of a number.
Wrap(n)      == n % Word
Minus(x, y)  == (x + Word - y) % Word

(***************************************************************************)
(* Order, sums and differences.                                            *)
(***************************************************************************)
LessThan(a, b) == IF a.hi # b.hi THEN a.hi < b.hi ELSE a.lo < b.lo

AddWord(a, n) ==
  LET lo == Wrap(a.lo + n)
  IN Wide(Wrap(a.hi + (IF lo < a.lo THEN 1 ELSE 0)), lo)

AddWide(a, b) ==
  LET lo == Wrap(a.lo + b.lo)
  IN Wide(Wrap(a.hi + b.hi + (IF lo < a.lo THEN 1 ELSE 0)), lo)

SubWord(a, n) ==
  Wide(Minus(a.hi, IF a.lo < n THEN 1 ELSE 0), Minus(a.lo, n))

SubWide(a, b) ==
  Wide(Minus(Minus(a.hi, b.hi), IF a.lo < b.lo THEN 1 ELSE 0), Minus(a.lo, b.lo))

\* Range6.Size: the whole space has a size of zero.
Size6(lo, hi) == IF LessThan(hi, lo) THEN Zero ELSE AddWord(SubWide(hi, lo), 1)

(***************************************************************************)
(* Bits.                                                                   *)
(***************************************************************************)
AndWide(a, b) == Wide(a.hi & b.hi, a.lo & b.lo)
OrWide(a, b)  == Wide(a.hi | b.hi, a.lo | b.lo)
NotWide(a)    == Wide(Word - 1 - a.hi, Word - 1 - a.lo)

Lsh(a, n) ==
  CASE n = 0         -> a
    [] n >= WideBits -> Zero
    [] n >= WordBits /\ n < WideBits -> Wide(Wrap(a.lo * 2^(n - WordBits)), 0)
    [] n > 0 /\ n < WordBits ->
         Wide(Wrap(a.hi * 2^n) | (a.lo \div 2^(WordBits - n)), Wrap(a.lo * 2^n))

Rsh(a, n) ==
  CASE n = 0         -> a
    [] n >= WideBits -> Zero
    [] n >= WordBits /\ n < WideBits -> Wide(0, a.hi \div 2^(n - WordBits))
    [] n > 0 /\ n < WordBits ->
         Wide(a.hi \div 2^n, (a.lo \div 2^n) | Wrap(a.hi * 2^(WordBits - n)))

\* Bits count from 1, the most significant.
SetBit(a, bit, on) ==
  IF bit \notin 1 .. WideBits THEN a
  ELSE LET mask == Lsh(Wide(0, 1), WideBits - bit)
       IN IF on THEN OrWide(a, mask) ELSE AndWide(a, NotWide(mask))

Netmask6(prefix) ==
  CASE prefix <= 0        -> Zero
    [] prefix >= WideBits -> AllOnes
    [] prefix > 0 /\ prefix < WideBits -> Lsh(AllOnes, WideBits - prefix)

Broadcast6(addr, prefix) == OrWide(addr, NotWide(Netmask6(prefix)))
Network6(addr, prefix)   == AndWide(addr, Netmask6(prefix))

(***************************************************************************)
(* Decimal text.  divMod10 divides chunk by chunk, from the most           *)
(* significant; a chunk is half a word here and a byte in the code.        *)
(***************************************************************************)
Chunks(a) == <<a.hi \div Half, a.hi % Half, a.lo \div Half, a.lo % Half>>

DivMod10(a) ==
  LET Step(div, chunk) ==
        LET r == div.rest * Half + chunk
        IN [quotient |-> Append(div.quotient, r \div 10), rest |-> r % 10]
      div == FoldLeft(Step, [quotient |-> <<>>, rest |-> 0], Chunks(a))
      q   == div.quotient
  IN [quotient |-> Wide((q[1] * Half) | q[2], (q[3] * Half) | q[4]), rest |-> div.rest]

RECURSIVE Digits(_)
Digits(a) ==
  IF a = Zero THEN <<>>
  ELSE LET div == DivMod10(a) IN Append(Digits(div.quotient), div.rest)

Decimal(a) == IF a = Zero THEN <<0>> ELSE Digits(a)

\* The high word of a product: what the product of the low halves carries over
\* is left out.
MulHi64(x, y) ==
  LET xHi == x \div Half
      xLo == x % Half
      yHi == y \div Half
      yLo == y % Half
      cross == Wrap(xHi * yLo + xLo * yHi)
  IN Wrap(xHi * yHi + cross \div Half)

MulAdd10(a, digit) ==
  LET lo  == Wrap(a.lo * 10)
      sum == Wrap(lo + digit)
  IN Wide(Wrap(a.hi * 10 + MulHi64(a.lo, 10) + (IF sum < lo THEN 1 ELSE 0)), sum)

\* A result that is smaller than the one before tells an overflow.
Parsed(text) ==
  FoldLeft(LAMBDA p, digit :
             IF ~p.ok THEN p
             ELSE LET next == MulAdd10(p.result, digit)
                  IN IF LessThan(next, p.result) THEN [ok |-> FALSE, result |-> Zero]
                     ELSE [p EXCEPT !.result = next],
           [ok |-> TRUE, result |-> Zero], text)

(***************************************************************************)
(* Hexadecimal text of an address: the first of the longest runs of zero   *)
(* groups is left out, if it has two groups or more.                       *)
(***************************************************************************)
Groups == 8
Gap    == 2^16     (* stands for the two colons, is no group             *)

LongestRun(groups) ==
  LET Step(run, i) ==
        IF groups[i] # 0 THEN [run EXCEPT !.from = 0]
        ELSE LET from == IF run.from = 0 THEN i ELSE run.from
             IN IF i - from + 1 > run.len
                THEN [start |-> from, len |-> i - from + 1, from |-> from]
                ELSE [run EXCEPT !.from = from]
  IN FoldLeft(Step, [start |-> 1, len |-> 0, from |-> 0], [i \in 1 .. Groups |-> i])

Shortened(groups) ==
  LET run == LongestRun(groups)
  IN IF run.len < 2 THEN groups
     ELSE SubSeq(groups, 1, run.start - 1) \o <<Gap>>
            \o SubSeq(groups, run.start + run.len, Groups)

(***************************************************************************)
(* What the operations must compute, over values at the edges of the words *)
(* and, for decimal text, with any low word.                               *)
(***************************************************************************)
Edges  == {0, 1, Half - 1, Half, Word \div 2, Word - 2, Word - 1}
Sample == {Wide(h, l) : h \in Edges, l \in Edges}
Wides  == {Wide(h, l) : h \in Edges, l \in 0 .. Word - 1}

\* Carries and borrows cross the words as in arithmetic on the whole number,
\* which wraps at its width; so does the order that ranges are sorted by.
ASSUME ArithmeticRight ==
  \A a, b \in Sample :
    /\ LessThan(a, b) <=> Value(a) < Value(b)
    /\ Value(AddWide(a, b)) = (Value(a) + Value(b)) % Modulus
    /\ Value(SubWide(a, b)) = (Value(a) + Modulus - Value(b)) % Modulus
    /\ Value(AddWord(a, b.lo)) = (Value(a) + b.lo) % Modulus
    /\ Value(SubWord(a, b.lo)) = (Value(a) + Modulus - b.lo) % Modulus
    /\ Value(Size6(a, b)) = (IF Value(a) > Value(b) THEN 0
                             ELSE (Value(b) + 1 - Value(a)) % Modulus)

\* Shifts move bits across the words, by zero, by exactly a word, by the whole
\* width and by more.
ASSUME ShiftsRight ==
  \A a \in Sample, n \in 0 .. WideBits + 1 :
    /\ Value(Lsh(a, n)) = (IF n >= WideBits THEN 0
                           ELSE (Value(a) % 2^(WideBits - n)) * 2^n)
    /\ Value(Rsh(a, n)) = Value(a) \div 2^n

\* The block of an address under a prefix is aligned, has the size the prefix
\* says, holds the address, and its halves are told apart by one bit: what the
\* printing of CIDR blocks relies on.
ASSUME PrefixesRight ==
  \A a \in Sample, prefix \in 0 .. WideBits :
    LET size == 2^(WideBits - prefix)
        low  == Value(Network6(a, prefix))
    IN /\ low = Value(a) - (Value(a) % size)
       /\ Value(Broadcast6(a, prefix)) = low + size - 1
       /\ prefix > 0 =>
            /\ Value(SetBit(Network6(a, prefix - 1), prefix, TRUE))
                 = Value(Network6(a, prefix - 1)) + size
            /\ SetBit(SetBit(a, prefix, TRUE), prefix, FALSE) = SetBit(a, prefix, FALSE)

\* Printing a number in decimal denotes that number.
ASSUME DecimalRight ==
  \A a \in Wides : FoldLeft(LAMBDA n, digit : n * 10 + digit, 0, Decimal(a)) = Value(a)

\* Reading a number in decimal, the header of an IPv6 set file for one, gives it
\* back as long as no step carries out of the product of the low halves, which
\* MulHi64 leaves out; where one does, the number read is another one.
CarryLost(x) ==
  (((x \div Half) * 10) % Half) + (((x % Half) * 10) \div Half) >= Half

ASSUME MultiplyRight ==
  \A x \in 0 .. Word - 1 :
    MulHi64(x, 10) + (IF CarryLost(x) THEN 1 ELSE 0) = (x * 10) \div Word

Prefixed(text) == {Parsed(SubSeq(text, 1, i)).result.lo : i \in 0 .. Len(text) - 1}

ASSUME ParsedRight ==
  \A a \in Wides :
    LET text == Decimal(a)
    IN (\A x \in Prefixed(text) : ~CarryLost(x)) => Parsed(text) = [ok |-> TRUE, result |-> a]

ASSUME ParsedWrongly ==
  \E a \in Wides : Parsed(Decimal(a)).ok /\ Parsed(Decimal(a)).result # a

\* A number of one digit more than fits is not always seen to overflow: ten
\* times a number can wrap to one that is larger than it.
ASSUME OverflowUnseen ==
  \E a \in Wides, digit \in 0 .. 9 :
    Value(a) * 10 + digit >= Modulus /\ Parsed(Append(Decimal(a), digit)).ok

\* A shortened address can be read back, and no longer or earlier run of zeros was kept.
ASSUME ShortenedRight ==
  \A groups \in [1 .. Groups -> {0, 1}] :
    LET text == Shortened(groups)
        gaps == {i \in DOMAIN text : text[i] = Gap}
        ZeroRun(i, n) == i + n - 1 <= Groups /\ \A j \in i .. i + n - 1 : groups[j] = 0
    IN IF gaps = {} THEN text = groups /\ \A i \in 1 .. Groups : ~ZeroRun(i, 2)
       ELSE \E i \in gaps :
              LET left == Groups + 1 - Len(text)
              IN /\ gaps = {i} /\ left > 1
                 /\ groups = SubSeq(text, 1, i - 1) \o [j \in 1 .. left |-> 0]
                               \o SubSeq(text, i + 1, Len(text))
                 /\ \A j \in 1 .. Groups : ~ZeroRun(j, left + 1)
                 /\ \A j \in 1 .. i - 1 : ~ZeroRun(j, left)
=============================================================================
