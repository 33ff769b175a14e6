------------------------------ MODULE SetFiles ------------------------------
(***************************************************************************)
(* Sets in binary files (pkg/iprange: binary.go, fileset*.go, and their    *)
(* copies for IPv6; range_source*.go): what is written, what each of the   *)
(* three ways of reading accepts, what is found in a file that is only     *)
(* looked into, and how readers that hold a mapping meet a Close.          *)
(*                                                                         *)
(* A file is a sequence of no or one record: the lines of its header, the  *)
(* marker of the byte order, the ranges that follow, and how many bytes    *)
(* there are too many (or too few, for a file that was cut).               *)
(***************************************************************************)
EXTENDS IPv6Sets

NoBytes == <<>>
RecordSize(family) == IF family = "ipv6" THEN 32 ELSE 8

Files(family, n) ==
  [family : {family}, mode : {"optimized", "non-optimized"}, recordSize : {RecordSize(family)},
   records : 0 .. n, bytes : {RecordSize(family) * k + 4 : k \in 0 .. n}, lines : 0 .. n,
   unique : 0 .. n, marker : {"native", "foreign"},
   payload : UNION {[1 .. k -> [lo : 0 .. n, hi : 0 .. n]] : k \in 0 .. n}, spare : {-1, 0, 1}]

(***************************************************************************)
(* Writing.  The set is optimized first, so that the other mode is never   *)
(* written; an empty set leaves an empty file.                             *)
(***************************************************************************)
WriteBinary(family, given) ==
  LET set == Optimized(family, given)
      n   == Len(set.ranges)
  IN IF n = 0 THEN NoBytes
     ELSE <<[family |-> family, mode |-> "optimized", recordSize |-> RecordSize(family),
             records |-> n, bytes |-> n * RecordSize(family) + 4, lines |-> set.lines,
             unique |-> set.unique, marker |-> "native", payload |-> set.ranges, spare |-> 0]>>
WriteBinary6(set) == WriteBinary("ipv6", set)

(***************************************************************************)
(* Reading all of it.  What is refused has no set.                         *)
(***************************************************************************)
Refused  == <<>>
Accepted(x) == <<x>>

\* What the text of a header is refused for.  Only IPv4's counters are checked.
HeaderRefused(family, f) ==
  \/ f.family # family
  \/ f.recordSize # RecordSize(family)
  \/ f.bytes # f.records * RecordSize(family) + 4
  \/ family = "ipv4" /\ (f.unique < f.records \/ f.lines < f.records)

SizeWrong(f) == Len(f.payload) # f.records \/ f.spare # 0

ReadBinary(family, file) ==
  IF file = NoBytes THEN Refused
  ELSE LET f   == file[1]
           raw == [ranges |-> f.payload, lines |-> f.lines, unique |-> f.unique,
                   optimized |-> FALSE]
           set == Optimized(family, raw)
       IN IF \/ HeaderRefused(family, f)
             \/ f.marker # "native"
             \/ SizeWrong(f)
             \/ \E i \in DOMAIN f.payload : f.payload[i].lo > f.payload[i].hi
            THEN Refused
          ELSE IF f.mode = "non-optimized" THEN Accepted(raw)
          ELSE IF set.unique # f.unique THEN Refused ELSE Accepted(set)
ReadBinary6(file) == ReadBinary("ipv6", file)

(***************************************************************************)
(* Opening, to look into: the header is believed, the ranges are checked   *)
(* for their order unless the caller trusts them (IPv4 only).              *)
(***************************************************************************)
SortedPayload(s) ==
  /\ \A i \in DOMAIN s : s[i].lo <= s[i].hi
  /\ \A i \in 1 .. Len(s) - 1 : s[i].hi < s[i + 1].lo

EmptyFileSet == [backend |-> "empty", ranges |-> <<>>, unique |-> 0]

\* Refused by the header or the size, before a backend is chosen.
OpenRefused(family, f) == HeaderRefused(family, f) \/ f.mode # "optimized" \/ SizeWrong(f)

\* openFileSetPlatform: a mapping, or single reads where the mapping cannot be
\* made.  With no records neither the byte order nor the count is looked at.
OpenPlatform(f, trusted, mappable) ==
  IF f.records = 0 THEN Accepted(EmptyFileSet)
  ELSE IF f.marker # "native" \/ (~trusted /\ ~SortedPayload(f.payload)) THEN Refused
  ELSE Accepted([backend |-> IF mappable THEN "mapped" ELSE "read",
                 ranges |-> f.payload, unique |-> f.unique])

OpenFileSet(file, trusted, mappable) ==
  IF file = NoBytes THEN Accepted(EmptyFileSet)
  ELSE IF OpenRefused("ipv4", file[1]) THEN Refused
  ELSE OpenPlatform(file[1], trusted, mappable)

OpenFileSet6(file, mappable) ==
  IF file = NoBytes THEN Accepted(EmptyFileSet)
  ELSE IF OpenRefused("ipv6", file[1]) THEN Refused
  ELSE OpenPlatform(file[1], FALSE, mappable)

NoMetadata == [records |-> 0, unique |-> 0, lines |-> 0]
ReadFileSetMetadata(file) ==
  IF file = NoBytes THEN Accepted(NoMetadata)
  ELSE IF OpenRefused("ipv4", file[1]) \/ file[1].marker # "native" THEN Refused
  ELSE Accepted([records |-> file[1].records, unique |-> file[1].unique, lines |-> file[1].lines])

(***************************************************************************)
(* Looking an address up with reads that may fail: the n-th read fails if  *)
(* n is in failing.  A failed probe counts as beyond the address; the      *)
(* range it leads to is read once more.                                    *)
(***************************************************************************)
RECURSIVE SearchReads(_, _, _, _, _)
SearchReads(s, x, span, n, failing) ==
  IF span.lo = span.hi THEN [at |-> span.lo, reads |-> n]
  ELSE LET mid == (span.lo + span.hi) \div 2
           beyond == n + 1 \in failing \/ s[mid].hi >= x
       IN SearchReads(s, x, IF beyond THEN [span EXCEPT !.hi = mid]
                                      ELSE [span EXCEPT !.lo = mid + 1], n + 1, failing)

FileSetContains(s, x, failing) ==
  LET found == SearchReads(s, x, [lo |-> 1, hi |-> Len(s) + 1], 0, failing)
      last  == found.reads + 1
      asked == found.at <= Len(s)
  IN [held   |-> asked /\ last \notin failing /\ s[found.at].lo <= x,
      failed |-> failing \cap (1 .. IF asked THEN last ELSE found.reads) # {}]

FileSetContains6(s, x, failing) == FileSetContains(s, x, failing)

(***************************************************************************)
(* Sources of ranges: a set in memory, a file, or a stream.  Only a stream *)
(* does not know how many addresses it has.                                *)
(***************************************************************************)
SetSource(family, set) ==
  LET s == Optimized(family, set)
  IN [kind |-> "set", ranges |-> s.ranges, unique |-> s.unique]
FileSource(opened) == [kind |-> opened.backend, ranges |-> opened.ranges, unique |-> opened.unique]
StreamSource(s)    == [kind |-> "stream", ranges |-> s, unique |-> 0]
Knows(source)      == source.kind # "stream"

UniqueIPs(source) == IF Knows(source) THEN source.unique ELSE Tally("ipv4", source.ranges)

\* RangeSourceContains: by halves where there are indexes, else from the start to
\* the first range that does not end before the address.
SourceContains(source, x) ==
  LET rest == FromAddress(source.ranges, x)
  IN IF Knows(source) THEN ContainsAddress(source.ranges, x)
     ELSE rest # <<>> /\ Head(rest).lo <= x

Bounds(source) ==
  IF source.ranges = <<>> THEN NoRange
  ELSE [lo |-> Head(source.ranges).lo, hi |-> source.ranges[Len(source.ranges)].hi]

\* RangeSourceContentHashContext: the ranges stand for their digest, which an
\* empty source has too.  A summary of an empty source has no digest.
ContentHash(source) == Accepted(source.ranges)
SummaryHash(source) == IF source.ranges = <<>> THEN Refused ELSE Accepted(source.ranges)
HashesEqual(h, g)   == h # Refused /\ h = g

\* RangeSourcesEqualContext
SourcesEqual(a, b) == (Knows(a) /\ Knows(b) => a.unique = b.unique) /\ a.ranges = b.ranges

\* CollectIterContext
Collect(s) == Optimized("ipv4", Added("ipv4", s))


(***************************************************************************)
(* Readers and Close.  A reader takes the read locks of the mapped sets it *)
(* was given one by one: it asks whether the set is closed, waits for the  *)
(* lock, and asks again.  Close marks the set, waits for the write lock,   *)
(* and unmaps; while it waits, no new reader gets the lock.  A state is    *)
(* where each reader and each set stands.                                  *)
(***************************************************************************)
Mappings == {1, 2}

\* lockMmapRangeSources and lockMmapPair: every set once, in order of address.
InOrder(sources) == SetToSortSeq(ToSet(sources), <)

AllOpen(orders) ==
  [readers |-> [i \in DOMAIN orders |-> [todo |-> orders[i], held |-> {}, at |-> "ask"]],
   sets    |-> [m \in Mappings |-> "open"]]

Holders(w, m) == {i \in DOMAIN w.readers : m \in w.readers[i].held}
Given(w, i, r) == [w EXCEPT !.readers[i] = r]
LeftOff == [todo |-> <<>>, held |-> {}, at |-> "gone"]

\* lockFastReader, for the next set, and the read when it has them all.
ReaderSteps(w, i) ==
  LET r == w.readers[i]
      m == Head(r.todo)
  IN CASE r.at = "gone" -> {}
       [] r.at # "gone" /\ r.todo = <<>> -> {Given(w, i, LeftOff)}
       [] r.at = "ask" /\ r.todo # <<>> ->
            {Given(w, i, IF w.sets[m] = "open" THEN [r EXCEPT !.at = "lock"] ELSE LeftOff)}
       [] r.at = "lock" /\ r.todo # <<>> ->
            IF w.sets[m] = "waiting" THEN {}
            ELSE {Given(w, i, [r EXCEPT !.at = "look", !.held = @ \cup {m}])}
       [] r.at = "look" /\ r.todo # <<>> ->
            {Given(w, i, IF w.sets[m] = "open" THEN [r EXCEPT !.at = "ask", !.todo = Tail(@)]
                         ELSE LeftOff)}

\* Close
CloserSteps(w, m) ==
  CASE w.sets[m] = "open"    -> {[w EXCEPT !.sets[m] = "closed"]}
    [] w.sets[m] = "closed"  -> {[w EXCEPT !.sets[m] = "waiting"]}
    [] w.sets[m] = "waiting" -> IF Holders(w, m) # {} THEN {} ELSE {[w EXCEPT !.sets[m] = "unmapped"]}
    [] OTHER -> {}

LockSteps(w) ==
  UNION ({ReaderSteps(w, i) : i \in DOMAIN w.readers} \cup {CloserSteps(w, m) : m \in Mappings})

RECURSIVE Reachable(_, _)
Reachable(seen, fresh) ==
  IF fresh = {} THEN seen
  ELSE LET all == seen \cup fresh
       IN Reachable(all, UNION {LockSteps(w) : w \in fresh} \ all)

Reads(w, i) == w.readers[i].todo = <<>> /\ w.readers[i].at # "gone"
UnmappedRead(w) == \E i \in DOMAIN w.readers, m \in Mappings :
                      Reads(w, i) /\ m \in w.readers[i].held /\ w.sets[m] = "unmapped"
Stuck(w) == LockSteps(w) = {} /\ (\E i \in DOMAIN w.readers : w.readers[i].at # "gone")

Meeting(orders) == Reachable({}, {AllOpen(orders)})
Lists == UNION {[1 .. n -> Mappings] : n \in 1 .. 3}

\* Two readers of any lists of sets and a Close of each: nobody reads what is
\* unmapped, and nobody waits for ever.
LocksAreSafe ==
  \A a, b \in {InOrder(s) : s \in Lists} :
    \A w \in Meeting(<<a, b>>) : ~UnmappedRead(w) /\ ~Stuck(w)
ASSUME LocksSafe == LocksAreSafe

\* Without the order, two readers and two Closes can wait for one another; so can
\* a reader that takes one lock twice, as one would that asks a mapped set
\* for a range while it ranges over the same set.
ASSUME OrderMatters ==
  /\ \E w \in Meeting(<< <<1, 2>>, <<2, 1>> >>) : Stuck(w)
  /\ \E w \in Meeting(<< <<1, 1>> >>) : Stuck(w)

(***************************************************************************)
(* What the files must give back.                                          *)
(***************************************************************************)
\* The sets of few ranges in any order, the whole space among them.
Written(family) == {Added(family, s) : s \in Few}

\* What was written is read again, in full or by looking into it: the same ranges
\* and the same counts.  An empty set leaves no bytes, which only the ways that
\* look into the file take for the empty set.
ASSUME WrittenIsRead ==
  \A family \in Families : \A given \in Written(family) :
    LET file == WriteBinary(family, given)
        set  == Optimized(family, given)
    IN IF set.ranges = <<>> THEN ReadBinary(family, file) = Refused
       ELSE /\ ReadBinary(family, file) = Accepted(set)
            /\ family = "ipv4" =>
                 /\ ReadFileSetMetadata(file) =
                      Accepted([records |-> Len(set.ranges), unique |-> set.unique, lines |-> set.lines])
                 /\ \A trusted, mappable \in BOOLEAN :
                      LET opened == OpenFileSet(file, trusted, mappable)
                      IN opened # Refused /\ opened[1].ranges = set.ranges /\ opened[1].unique = set.unique
            /\ family = "ipv6" =>
                 \A mappable \in BOOLEAN :
                   LET opened == OpenFileSet6(file, mappable)
                   IN opened # Refused /\ opened[1].ranges = set.ranges /\ opened[1].unique = set.unique

\* A file of two records in which anything else may be wrong.
Corrupt(family) ==
  {[family |-> fam, mode |-> mode, recordSize |-> RecordSize(fam), records |-> 2,
    bytes |-> 2 * RecordSize(fam) + 4, lines |-> lines, unique |-> unique, marker |-> marker,
    payload |-> p, spare |-> spare] :
     fam \in Families, mode \in {"optimized", "non-optimized"}, lines \in {1, 2}, unique \in {1, 2, 3},
     marker \in {"native", "foreign"}, spare \in {0, 1},
     p \in UNION {[1 .. n -> [lo : 0 .. 2, hi : 0 .. 2]] : n \in 1 .. 2}}

Lookable(opened) == opened # Refused /\ opened[1].backend # "empty"
FoundRightly(ranges) ==
  \A x \in Addresses : ContainsAddress(ranges, x) = (x \in Covered(ranges))

\* However a file is corrupt: once it was opened without trust, every lookup finds
\* exactly the addresses of the ranges in it; and what is read in full and claims
\* to be optimized has the count its header claims.
ASSUME OpenedIsSorted ==
  \A family \in Families : \A f \in Corrupt(family) :
    /\ LET opened == IF family = "ipv4" THEN OpenFileSet(<<f>>, FALSE, TRUE) ELSE OpenFileSet6(<<f>>, TRUE)
       IN Lookable(opened) => FoundRightly(opened[1].ranges)
    /\ LET read == ReadBinary(family, <<f>>)
       IN read # Refused /\ f.mode = "optimized" =>
            read[1].unique = f.unique /\ Separated(read[1].ranges)

\* A file that is trusted may hide addresses it has; and a count that is wrong is
\* believed by those who look into the file, so that the same addresses in two
\* files may count as different.
ASSUME TrustAndCountsMislead ==
  /\ \E f \in Corrupt("ipv4") :
       LET opened == OpenFileSet(<<f>>, TRUE, TRUE)
       IN Lookable(opened) /\ ~FoundRightly(opened[1].ranges)
  /\ \E f, g \in {f \in Corrupt("ipv4") : Lookable(OpenFileSet(<<f>>, FALSE, TRUE))} :
       LET a == FileSource(OpenFileSet(<<f>>, FALSE, TRUE)[1])
           b == FileSource(OpenFileSet(<<g>>, FALSE, TRUE)[1])
       IN Covered(a.ranges) = Covered(b.ranges) /\ ~SourcesEqual(a, b)

(***************************************************************************)
(* Lookups with failing reads.                                             *)
(***************************************************************************)
LookedInto == {s \in WholeBelow(5) : s # <<>>}
Failures == SUBSET (1 .. 4)

\* An answer without an error is right; an error that is not asked for is not.
ASSUME LookupOrError ==
  \A s \in LookedInto : \A x \in 0 .. 5 : \A failing \in Failures :
    LET answer == FileSetContains(s, x, failing)
    IN ~answer.failed => answer.held = (x \in Covered(s))

\* A probe that fails before a read that does not finds an address that is not
\* there, and a last read that fails misses one that is: only the error tells.
ASSUME FailedReadsMislead ==
  \E s \in LookedInto : \E x, y \in 0 .. 5 : \E failing, last \in Failures :
    /\ FileSetContains(s, x, failing).held /\ x \notin Covered(s)
    /\ ~FileSetContains(s, y, last).held /\ y \in Covered(s)

(***************************************************************************)
(* Sources of all kinds.                                                   *)
(***************************************************************************)
SourcesOf(s) ==
  {SetSource("ipv4", Added("ipv4", s)), StreamSource(s)}
    \cup {FileSource(OpenFileSet(WriteBinary("ipv4", Added("ipv4", s)), FALSE, mappable)[1]) :
            mappable \in BOOLEAN}

Sampling == WholeBelow(5)

\* A set, its file and its stream are the same source: the same addresses,
\* counts, bounds and digests, equal to one another and to no other's.
ASSUME SourcesAgree ==
  \A s \in Sampling : \A a \in SourcesOf(s) :
    /\ UniqueIPs(a) = Cardinality(Covered(s))
    /\ \A x \in Addresses : SourceContains(a, x) = (x \in Covered(s))
    /\ IF s = <<>> THEN Bounds(a) = NoRange
       ELSE Within(Bounds(a)) = {x \in Addresses : \E y, z \in Covered(s) : y <= x /\ x <= z}
    /\ Collect(a.ranges).ranges = s
    /\ \A t \in Sampling : \A b \in SourcesOf(t) :
         /\ SourcesEqual(a, b) <=> s = t
         /\ HashesEqual(ContentHash(a), ContentHash(b)) <=> s = t
         /\ HashesEqual(SummaryHash(a), SummaryHash(b)) <=> s = t /\ s # <<>>

=============================================================================
