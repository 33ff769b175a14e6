-------------------------- MODULE ProviderEvidence --------------------------
(***************************************************************************)
(* What is said of a feed from the files of providers: the ASes and the    *)
(* countries its addresses are in, how many are bogons, and what critical  *)
(* infrastructure it lists (pkg/asnloc, pkg/geoloc; in pkg/engine asn.go,  *)
(* bogons*.go, geo_provider_cache.go, critical*.go, unique_share.go).      *)
(*                                                                         *)
(* Everything here is a function: EngineRun has the order of the phases.   *)
(* A set is a sequence of ranges; counts stand for the percentages derived *)
(* from them; names that are only compared are numbers or tokens.  The     *)
(* assumptions after each part say what its functions must return.         *)
(***************************************************************************)
EXTENDS IPSets

\* A value that may be absent.
Unset   == <<>>
Some(x) == <<x>>

Misread       == [ok |-> FALSE, rows |-> <<>>]
Read(rows)    == [ok |-> TRUE, rows |-> rows]
SumOf(f)      == FoldFunction(LAMBDA x, y : x + y, 0, f)

(***************************************************************************)
(* Tables of ASes.  Zero is no AS, and no name.                            *)
(***************************************************************************)
\* The ASes that tables name: a number that is not positive is none.
CONSTANT ASes
ASSUME ASesAreNumbers == ASes \subseteq Nat \ {0}

NotANumber == -1

\* loadIPToASNTSV: a line is blank or a comment, too short, of IPv6, or whole.
IPToASNLine(l) ==
  CASE l.form \in {"blank", "ipv6"} -> Read(<<>>)
    [] l.form = "short" -> Misread
    [] OTHER -> IF Unreadable \in {l.lo, l.hi} \/ l.hi < l.lo \/ l.asn = NotANumber THEN Misread
                ELSE IF l.asn = 0 THEN Read(<<>>)
                ELSE Read(<<[lo |-> l.lo, hi |-> l.hi, asn |-> l.asn, name |-> l.name]>>)

\* loadCAIDAPrefix2AS: of the ASes that announce a prefix, the first one.
CAIDALine(l) ==
  CASE l.form \in {"blank", "ipv6"} -> Read(<<>>)
    [] l.form = "short" -> Misread
    [] OTHER -> IF l.addr = Unreadable \/ l.prefix \notin 0 .. Bits \/ l.asns[1] = NotANumber
                  THEN Misread
                ELSE IF l.asns[1] = 0 THEN Read(<<>>)
                ELSE LET net == Network(l.addr, l.prefix)
                     IN Read(<<[lo |-> net, hi |-> Broadcast(net, l.prefix),
                                asn |-> l.asns[1], name |-> 0]>>)

\* One line that cannot be read refuses the file.
ReadTable(lines) ==
  FoldLeft(LAMBDA done, l : IF done.ok /\ l.ok THEN Read(done.rows \o l.rows) ELSE Misread,
           Read(<<>>), lines)

\* sortMergeRanges.  The sort leaves rows of the same range in any order.
SortMerge(rows) ==
  LET sorted == SortSeq(rows, LAMBDA r, q : r.lo < q.lo \/ (r.lo = q.lo /\ r.hi < q.hi))
      Place(out, cur) ==
        LET last == out[Len(out)]
        IN IF out = <<>> THEN <<cur>>
           ELSE IF cur.asn = last.asn /\ cur.lo <= Succ(last.hi)
             THEN [out EXCEPT ![Len(out)].hi = Higher(@, cur.hi),
                              ![Len(out)].name = IF @ = 0 THEN cur.name ELSE @]
           ELSE IF cur.hi <= last.hi THEN out
           ELSE Append(out, [cur EXCEPT !.lo = Higher(@, last.hi + 1)])
  IN IF Len(rows) <= 1 THEN rows ELSE FoldLeft(Place, <<>>, sorted)

Unknown(lo, hi) == [lo |-> lo, hi |-> hi, asn |-> 0, name |-> 0]

\* rangeTableBackend.lookup: the row that has the address, or the whole gap.
LookupRow(table, x) ==
  LET idx == Cardinality({i \in DOMAIN table : table[i].lo <= x})
      gap == [lo |-> IF idx = 0 THEN 0 ELSE Succ(table[idx].hi),
              hi |-> IF idx = Len(table) \/ table[idx + 1].lo = 0 THEN MaxAddr
                     ELSE table[idx + 1].lo - 1]
  IN IF table = <<>> THEN Unknown(x, MaxAddr)
     ELSE IF idx > 0 /\ x <= table[idx].hi THEN table[idx]
     ELSE IF x \in Within(gap) THEN Unknown(gap.lo, gap.hi)
     ELSE Unknown(x, x)

\* mmdbBackend.lookup: the library finds the leaf of the address, which has a
\* prefix or is not of an IPv4 network.
LookupLeaf(tree, x) ==
  LET leaf == tree[x]
      net  == Network(x, leaf.prefix)
  IN IF leaf.prefix = NoPrefix THEN [Unknown(x, x) EXCEPT !.asn = leaf.asn]
     ELSE [Unknown(net, Broadcast(net, leaf.prefix)) EXCEPT !.asn = leaf.asn]

TableDatabase(table) == [x \in Addresses |-> LookupRow(table, x)]
TreeDatabase(tree)   == [x \in Addresses |-> LookupLeaf(tree, x)]

\* countFeedRange: one step for each network the range meets.
NoneCounted == [a \in ASes \cup {0} |-> 0]
RECURSIVE CountRange(_, _, _)
CountRange(db, counts, r) ==
  LET net  == db[r.lo]
      end  == Higher(r.lo, Lower(net.hi, r.hi))
      more == [counts EXCEPT ![net.asn] = @ + (end - r.lo + 1)]
  IN IF end = MaxAddr \/ end >= r.hi THEN more
     ELSE CountRange(db, more, [r EXCEPT !.lo = end + 1])

CountFeed(db, feed) == FoldLeft(LAMBDA counts, r : CountRange(db, counts, r), NoneCounted, feed)

(***************************************************************************)
(* Bogons, and the ASes of a feed beside them.                             *)
(***************************************************************************)
\* loadBogonSources and buildBogonUnion: no union when no provider was loaded.
BogonUnion(loaded) == IF loaded = <<>> THEN Unset ELSE Some(Optimize(FlattenSeq(loaded)))

\* precomputeASNBogonSplits: with one database there is nothing to save.  The
\* filters of two sets may say that they are disjoint only if they are.
PrecomputedSplit(feed, union, databases, opens, saidDisjoint) ==
  IF union = Unset \/ databases <= 1 \/ ~opens THEN Unset
  ELSE Some(IF saidDisjoint THEN 0 ELSE OverlapCount(feed, union[1]))

\* countASNFeedWithBogonSplit, buildASNFeedJSON
ASNFeed(db, feed, union, split) ==
  LET counts == CountFeed(db, IF union = Unset THEN feed ELSE ExcludeWalk(feed, union[1]))
      bogons == IF union = Unset THEN 0
                ELSE IF split # Unset THEN split[1] ELSE OverlapCount(feed, union[1])
      known  == SumOf([a \in ASes |-> counts[a]])
  IN [attributed |-> known, bogons |-> bogons, unknown |-> counts[0],
      feed |-> known + bogons + counts[0], byASN |-> [a \in {b \in ASes : counts[b] > 0} |-> counts[a]]]

\* computeRFCByRangeBreakdown, before it is sorted.
ByRange(feed, ranges) ==
  LET count == [i \in DOMAIN ranges |-> OverlapCount(feed, <<ranges[i]>>)]
  IN [i \in {j \in DOMAIN ranges : count[j] > 0} |-> count[i]]

\* writeBogonComparisonFiles, of one feed and one provider.
BogonFeed(feed, provider, ranges, saidDisjoint) ==
  LET n == IF saidDisjoint THEN 0 ELSE OverlapCount(feed, provider.set)
  IN [feed |-> Cardinality(Covered(feed)), bogons |-> n,
      byRange |-> IF provider.reserved /\ n > 0 THEN ByRange(feed, ranges) ELSE <<>>]

\* rfcReservedBogons, in blocks of 256 addresses: no entry is smaller than one.
rfcReservedBogons ==
  << <<0, 0, 0, 8>>, <<10, 0, 0, 8>>, <<100, 64, 0, 10>>, <<127, 0, 0, 8>>,
     <<169, 254, 0, 16>>, <<172, 16, 0, 12>>, <<192, 0, 0, 24>>, <<192, 0, 2, 24>>,
     <<192, 88, 99, 24>>, <<192, 168, 0, 16>>, <<198, 18, 0, 15>>, <<198, 51, 100, 24>>,
     <<203, 0, 113, 24>>, <<224, 0, 0, 4>>, <<240, 0, 0, 4>> >>

\* parseCIDRBounds
BlocksIn(entry) ==
  LET size == 2^(24 - entry[4])
      addr == entry[1] * 65536 + entry[2] * 256 + entry[3]
      lo   == addr - (addr % size)
  IN [lo |-> lo, hi |-> lo + size - 1, exact |-> lo = addr]

(***************************************************************************)
(* What the tables must say.                                               *)
(***************************************************************************)
Corner  == {0, 2, 3, MaxAddr}
Spans   == {r \in Ranges : r.lo \in Corner /\ r.hi \in Corner}
RowsOf(n) == [1 .. n -> {[lo |-> r.lo, hi |-> r.hi, asn |-> a, name |-> 0] : r \in Spans, a \in ASes}]
Tables  == {<<>>} \cup RowsOf(1) \cup RowsOf(2)
CornerSets == {StreamOf(s, {}) : s \in SUBSET {0, 1, 2, 5, 7}}

SortsBefore(r, q) == r.lo < q.lo \/ (r.lo = q.lo /\ r.hi < q.hi)
\* The rows that have an address and that no other that has it comes before.
FirstRows(rows, x) ==
  LET having == {i \in DOMAIN rows : x \in Within(rows[i])}
  IN {rows[i].asn : i \in {j \in having : \A k \in having : ~SortsBefore(rows[k], rows[j])}}

AddressedLines ==
  [form : {"whole"}, lo : {0, 2, MaxAddr, Unreadable}, hi : {0, 5, Unreadable},
   asn : {NotANumber, 0} \cup ASes, name : {1}]
PrefixedLines ==
  [form : {"whole"}, addr : {0, 3, Unreadable}, prefix : {0, 1, Bits, Bits + 1},
   asns : {<<NotANumber>>, <<0, 1>>, <<1>>, <<2, NotANumber>>}]
OtherLines == [form : {"blank", "ipv6", "short"}]
\* An address between the ends that a line gives, or under its prefix.
Spanned(l, x) == l.lo <= x /\ x <= l.hi
Announced(l, x) == LET size == 2 ^ (Bits - l.prefix) IN x \div size = l.addr \div size
Names(rows, a, x) == \E i \in DOMAIN rows : rows[i].asn = a /\ x \in Within(rows[i])

\* A file of either format is refused for one unreadable line, wherever it stands;
\* of one that is read an AS gets exactly the addresses between the ends, or under
\* the prefix, of the lines that name it, first if they name several.
ASSUME FilesRead ==
  /\ \A lines \in [1 .. 2 -> AddressedLines \cup OtherLines] :
       LET read  == ReadTable([i \in DOMAIN lines |-> IPToASNLine(lines[i])])
           whole == {i \in DOMAIN lines : lines[i].form = "whole"}
       IN /\ read.ok <=> \A i \in DOMAIN lines :
                           /\ lines[i].form # "short"
                           /\ i \in whole => /\ Unreadable \notin {lines[i].lo, lines[i].hi}
                                             /\ lines[i].lo <= lines[i].hi
                                             /\ lines[i].asn # NotANumber
          /\ read.ok => \A a \in ASes, x \in Addresses :
               Names(read.rows, a, x) <=> \E i \in whole : lines[i].asn = a /\ Spanned(lines[i], x)
  /\ \A lines \in [1 .. 2 -> PrefixedLines \cup OtherLines] :
       LET read  == ReadTable([i \in DOMAIN lines |-> CAIDALine(lines[i])])
           whole == {i \in DOMAIN lines : lines[i].form = "whole"}
       IN /\ read.ok <=> \A i \in DOMAIN lines :
                           /\ lines[i].form # "short"
                           /\ i \in whole => /\ lines[i].addr # Unreadable
                                             /\ lines[i].prefix <= Bits
                                             /\ lines[i].asns[1] # NotANumber
          /\ read.ok => \A a \in ASes, x \in Addresses :
               Names(read.rows, a, x) <=> \E i \in whole : lines[i].asns[1] = a /\ Announced(lines[i], x)

\* Whatever the file says twice or against itself, its table is sorted, in ranges
\* that do not overlap, has the addresses the file has and no other, and gives
\* each to the AS of a range that begins no later than the others that have it.
ASSUME TableRight ==
  \A rows \in Tables \cup RowsOf(3) :
    LET table == SortMerge(rows) IN
    /\ Disjoint(table)
    /\ \A i \in DOMAIN table : table[i].lo <= table[i].hi
    /\ \A x \in Addresses :
         LET first == FirstRows(rows, x)
         IN IF first = {} THEN x \notin Covered(table)
            ELSE \E i \in DOMAIN table : x \in Within(table[i]) /\ table[i].asn \in first

\* A lookup tells of the largest stretch of addresses that it holds for: a walk
\* that goes on behind it misses none.
ASSUME LookupRight ==
  \A rows \in Tables :
    LET table == SortMerge(rows)
        db == TableDatabase(table)
    IN \A x \in Addresses :
         /\ x \in Within(db[x])
         /\ \A y \in Within(db[x]) : y >= x => db[y].asn = db[x].asn
         /\ table # <<>> => /\ db[x].lo # 0 => db[db[x].lo - 1] # db[x]
                            /\ db[x].hi # MaxAddr => db[db[x].hi + 1] # db[x]

\* Trees with a leaf for the first half and leaves for the single addresses of the
\* other one.
Leaves(prefixes) == [asn : {0, Min(ASes)}, prefix : prefixes]
Trees == {[x \in Addresses |-> IF x < BlockSize(1) THEN half ELSE single[x % 2]] :
            half \in Leaves({1}), single \in [0 .. 1 -> Leaves({Bits, NoPrefix})]}
Databases == {TableDatabase(SortMerge(rows)) : rows \in {<<>>} \cup RowsOf(1)}
               \cup {TableDatabase(SortMerge(<<r[1], r[2]>>)) : r \in
                       {rows \in RowsOf(2) : rows[1].lo = 2 /\ rows[2].hi = MaxAddr}}
               \cup {TreeDatabase(tree) : tree \in Trees}

\* The walk counts every address of the feed once, for the AS that has it, up to
\* the last address there is.
ASSUME CountsRight ==
  \A db \in Databases, feed \in CornerSets :
    \A a \in ASes \cup {0} :
      CountFeed(db, feed)[a] = Cardinality({x \in Covered(feed) : db[x].asn = a})

\* The addresses of a feed are those with an AS, the bogons and the rest, whatever
\* providers there are and whether the bogons are counted once or for each database.
ASSUME ASNFeedAddsUp ==
  \A db \in {TreeDatabase(t) : t \in {u \in Trees : u[0].asn # 0 /\ u[MaxAddr].prefix = Bits}},
     feed, bogons \in CornerSets :
    \A loaded \in {<<>>, <<bogons>>, <<bogons, <<[lo |-> 2, hi |-> 2]>>>>} :
      \A databases \in {1, 2}, opens \in BOOLEAN :
        LET union == BogonUnion(loaded)
            all   == IF union = Unset THEN {} ELSE Covered(union[1])
        IN \A said \in {FALSE, all \cap Covered(feed) = {}} :
             LET shown == ASNFeed(db, feed, union, PrecomputedSplit(feed, union, databases, opens, said))
             IN /\ shown.feed = Cardinality(Covered(feed))
                /\ shown.bogons = Cardinality(Covered(feed) \cap all)
                /\ \A a \in DOMAIN shown.byASN :
                     shown.byASN[a] = Cardinality({x \in Covered(feed) \ all : db[x].asn = a})

\* No two reserved ranges overlap, and each is written by its first address: so the
\* counts by range add up to the bogons of the feed.
ASSUME ReservedApart ==
  /\ \A i \in DOMAIN rfcReservedBogons : BlocksIn(rfcReservedBogons[i]).exact
  /\ \A i, j \in DOMAIN rfcReservedBogons :
       i < j => BlocksIn(rfcReservedBogons[i]).hi < BlocksIn(rfcReservedBogons[j]).lo
ASSUME BreakdownAddsUp ==
  \A feed, reserved \in CornerSets :
    LET shown == BogonFeed(feed, [set |-> reserved, reserved |-> TRUE], reserved, FALSE)
    IN shown.bogons = SumOf(shown.byRange) /\ shown.bogons = Shared(feed, reserved)

(***************************************************************************)
(* Countries.  A dataset has a set, in no order, for each code it names; a *)
(* cell is its code in capitals without quotes, or says of none.           *)
(***************************************************************************)
Countryless == "COUNTRYLESS"
CountryCode(cell) == IF cell \in {"", "-", "ZZ"} THEN Countryless ELSE cell

Broken     == [ok |-> FALSE, sets |-> <<>>]
Named(sets) == [ok |-> TRUE, sets |-> sets]
SetOf(sets, key)        == IF key \in DOMAIN sets THEN sets[key] ELSE <<>>
Bind(sets, key, ranges) == [k \in DOMAIN sets \cup {key} |-> IF k = key THEN ranges ELSE sets[k]]

\* addRange: a range that ends before it begins refuses the dataset.
AddSpan(done, key, r) ==
  IF ~done.ok \/ r.lo > r.hi THEN Broken
  ELSE Named(Bind(done.sets, key, Append(SetOf(done.sets, key), r)))

\* addToken: the code is named even when its token cannot be read.
AddToken(done, key, t) ==
  LET named == Named(Bind(done.sets, key, SetOf(done.sets, key)))
  IN IF ~done.ok THEN Broken ELSE
     CASE t.form = "blank"      -> done
       [] t.form = "unreadable" -> named
       [] t.form = "block"  -> LET net == Network(t.addr, t.prefix)
                               IN AddSpan(named, key, [lo |-> net, hi |-> Broadcast(net, t.prefix)])
       [] t.form = "span"   -> AddSpan(named, key, [lo |-> t.lo, hi |-> t.hi])
       [] t.form = "single" -> AddSpan(named, key, [lo |-> t.addr, hi |-> t.addr])

\* parseIPDenyReader: a member of the archive is the zone of a country, or other.
IPDeny(members, opts) ==
  FoldLeft(LAMBDA done, m :
             LET set == ParseReader(m.lines, opts)
             IN IF ~m.zone THEN done
                ELSE IF ~done.ok \/ set.failed THEN Broken
                ELSE Named(Bind(done.sets, m.code, set.ranges)),
           Named(<<>>), members)

\* parseIP2LocationZip, with four columns, and parseDBIPReader, with three: a row
\* that is short or has an address that cannot be read is left out.
SpanRows(rows, columns) ==
  FoldLeft(LAMBDA done, row :
             IF row.columns < columns \/ Unreadable \in {row.lo, row.hi} THEN done
             ELSE AddSpan(done, CountryCode(row.cell), [lo |-> row.lo, hi |-> row.hi]),
           Named(<<>>), rows)

\* parseIPIPZip
TokenRows(rows) ==
  FoldLeft(LAMBDA done, row : IF row.columns < 2 THEN done
                              ELSE AddToken(done, CountryCode(row.cell), row.token),
           Named(<<>>), rows)

\* parseGeoLite2Zip: blocks name places by number, the second file has the country
\* of each.  Both begin with a header.
GeoLite2(blocks, places) ==
  LET OfBlock(done, row) ==
        IF row.columns < 6 THEN done
        ELSE LET ids   == FoldSet(LAMBDA id, acc : AddToken(acc, id, row.network), done.ids, row.ids)
                 marks == FoldSet(LAMBDA mark, acc : AddToken(acc, mark, row.network), done.marks, row.marks)
             IN [ids |-> ids, marks |-> marks]
      read == FoldLeft(OfBlock, [ids |-> Named(<<>>), marks |-> Named(<<>>)], Tail(blocks))
      OfPlace(done, row) ==
        LET code == CountryCode(row.cell)
        IN IF row.columns < 6 \/ row.id \notin DOMAIN read.ids.sets THEN done
           ELSE Named(Bind(done.sets, code, SetOf(done.sets, code) \o read.ids.sets[row.id]))
  IN IF ~read.ids.ok \/ ~read.marks.ok THEN Broken
     ELSE FoldLeft(OfPlace, read.marks, Tail(places))

(***************************************************************************)
(* The countries of a feed: the sets of the provider are cut where one of  *)
(* them begins or ends, so that one walk counts for all of them.           *)
(***************************************************************************)
\* prepareGeoProvider, of optimized sets; nothing ends at the last address.
EventsOf(sets) ==
  UNION {  {[pos |-> sets[c][i].lo, code |-> c, delta |-> 1] : i \in DOMAIN sets[c]}
      \cup {[pos |-> sets[c][i].hi + 1, code |-> c, delta |-> -1] :
              i \in {j \in DOMAIN sets[c] : sets[c][j].hi < MaxAddr}} : c \in DOMAIN sets }

\* buildGeoPreparedSegments
CountrySegments(sets) ==
  LET events    == EventsOf(sets)
      positions == {e.pos : e \in events}
      Step(active, c, pos) ==
        LET ends   == [pos |-> pos, code |-> c, delta |-> -1] \in events /\ active > 0
            begins == [pos |-> pos, code |-> c, delta |-> 1] \in events
        IN (IF ends THEN active - 1 ELSE active) + (IF begins THEN 1 ELSE 0)
      Sweep(state, pos) ==
        LET active == [c \in DOMAIN sets |-> Step(state.active[c], c, pos)]
            codes  == {c \in DOMAIN sets : active[c] > 0}
            later  == {p \in positions : p > pos}
            segment == [lo |-> pos, hi |-> IF later = {} THEN MaxAddr ELSE Min(later) - 1, codes |-> codes]
            n      == Len(state.done)
        IN IF codes = {} THEN [state EXCEPT !.active = active]
           ELSE IF n > 0 /\ state.done[n].hi # MaxAddr /\ state.done[n].hi + 1 = pos /\ state.done[n].codes = codes
             THEN [active |-> active, done |-> [state.done EXCEPT ![n].hi = segment.hi]]
           ELSE [active |-> active, done |-> Append(state.done, segment)]
  IN FoldLeft(Sweep, [active |-> [c \in DOMAIN sets |-> 0], done |-> <<>>],
              SelectSeq([i \in 1 .. MaxAddr + 1 |-> i - 1], LAMBDA x : x \in positions)).done

\* CountSourceContext
CountCountries(segments, codes, feed) ==
  LET met   == WalkOverlaps(feed, segments)
      parts == {<<i, j>> \in (DOMAIN met) \X (DOMAIN segments) : j \in met[i]}
      span  == [p \in parts |-> Size(Common(feed[p[1]], segments[p[2]]))]
  IN [mapped |-> SumOf(span),
      values |-> [c \in codes |-> SumOf([p \in {q \in parts : c \in segments[q[2]].codes} |-> span[p]])]]

\* geoProviderCache.LoadOrParse: the file is looked at twice before it is parsed,
\* and what was parsed is kept under what it looked like the second time.
LoadOrParse(cache, seen, again, body) ==
  IF cache # Unset /\ cache[1].key = seen THEN [cache |-> cache, body |-> cache[1].body]
  ELSE [cache |-> Some([key |-> again, body |-> body]), body |-> body]

\* decodeCountryComparisonPayload: a payload has its total, an older one has rows.
CountryPayload(doc) ==
  CASE doc.form = "broken" -> Unset
    [] doc.form = "object" -> IF doc.keys \cap {"countries", "total_mapped"} = {} THEN Unset
                              ELSE Some([total |-> doc.total, rows |-> doc.rows])
    [] doc.form = "rows"   -> Some([total |-> SumOf(doc.rows), rows |-> doc.rows])

(***************************************************************************)
(* What the countries must say.                                            *)
(***************************************************************************)
Tokens1 == {[form |-> "blank"], [form |-> "unreadable"], [form |-> "block", addr |-> 5, prefix |-> 1],
            [form |-> "span", lo |-> 1, hi |-> 2], [form |-> "span", lo |-> 2, hi |-> 1],
            [form |-> "single", addr |-> MaxAddr]}
SpansRead == [columns : {3, 4}, lo : {0, 2, Unreadable}, hi : {1, 3}, cell : {"A", "", "ZZ"}]
TokensRead == [columns : {1, 3}, token : Tokens1, cell : {"A", "-"}]
AnyOrder(Parse(_), rows) ==
  LET one   == Parse(rows)
      other == Parse(Reverse(rows))
  IN /\ one.ok = other.ok
     /\ DOMAIN one.sets = DOMAIN other.sets
     /\ \A c \in DOMAIN one.sets : Covered(one.sets[c]) = Covered(other.sets[c])

\* The rows of a dataset add up: their order does not matter, and neither does it
\* whether a country is in one stretch of the file or in several; a row that can be
\* read and ends before it begins refuses all of them.
ASSUME RowsAddUp ==
  /\ \A rows \in [1 .. 2 -> SpansRead] : \A columns \in {3, 4} :
       /\ AnyOrder(LAMBDA s : SpanRows(s, columns), rows)
       /\ SpanRows(rows, columns).ok <=> \A i \in 1 .. 2 :
            rows[i].columns < columns \/ rows[i].lo = Unreadable \/ rows[i].lo <= rows[i].hi
  /\ \A rows \in [1 .. 2 -> TokensRead] : AnyOrder(TokenRows, rows)

\* Two zones of one country do not add up, unlike the rows of the other formats:
\* the country has what the last of them has.
ASSUME LastZoneCounts ==
  LET opts == [defaultPrefix |-> Bits, useNetwork |-> TRUE]
      zone(x) == [zone |-> TRUE, code |-> "A", lines |-> <<<<[addr |-> x, prefix |-> NoPrefix]>>>>]
  IN \A x, y \in Addresses :
       Covered(IPDeny(<<zone(x), zone(y)>>, opts).sets["A"]) = {y}

Networks  == {[form |-> "block", addr |-> 0, prefix |-> 1], [form |-> "single", addr |-> 6], [form |-> "unreadable"]}
BlockRows == [columns : {6}, network : Networks, ids : {{}, {1}, {1, 2}}, marks : {{}, {"ANONYMOUS"}}]
PlaceRows == [columns : {5, 6}, id : {1, 2}, cell : {"A", ""}]

\* An address is in a country exactly if a block that has it names a place of that
\* country; a place that no row locates is in none, one without a code in the
\* bucket of those.
ASSUME PlacesJoined ==
  \A b, c \in BlockRows, p, q \in PlaceRows :
    LET header == [columns |-> 6]
        read   == GeoLite2(<<header, b, c>>, <<header, p, q>>)
        at(x, row) == row.network.form # "unreadable" /\
                      x \in IF row.network.form = "block" THEN 0 .. BlockSize(1) - 1 ELSE {row.network.addr}
        placed(id, code) == \E row \in {p, q} : row.columns = 6 /\ row.id = id /\ CountryCode(row.cell) = code
    IN /\ read.ok
       /\ \A x \in {0, 4, 6} :
            /\ \A code \in {"A", Countryless} :
                 x \in Covered(SetOf(read.sets, code))
                   <=> \E row \in {b, c} : at(x, row) /\ \E id \in row.ids : placed(id, code)
            /\ x \in Covered(SetOf(read.sets, "ANONYMOUS"))
                   <=> \E row \in {b, c} : at(x, row) /\ row.marks # {}

\* The segments have every address of the provider once, with the countries it is
\* in; two that touch differ.
ASSUME SegmentsRight ==
  \A a, b \in CornerSets :
    LET sets == <<a, b>>
        cut  == CountrySegments(sets)
    IN /\ Disjoint(cut)
       /\ Covered(cut) = Covered(a) \cup Covered(b)
       /\ \A i \in DOMAIN cut : \A x \in Within(cut[i]) :
            cut[i].codes = {c \in {1, 2} : x \in Covered(sets[c])}
       /\ \A i \in 1 .. Len(cut) - 1 : cut[i].hi + 1 = cut[i + 1].lo => cut[i].codes # cut[i + 1].codes

\* The feed is mapped as far as any country has it, and every country has of it
\* what comparing them alone would count: an address in two countries counts in
\* both and once in the total.
ASSUME CountriesRight ==
  \A a, b \in CornerSets, feed \in {<<[lo |-> 0, hi |-> 2], [lo |-> 5, hi |-> MaxAddr]>>,
                                    <<[lo |-> 1, hi |-> 1]>>, <<[lo |-> 0, hi |-> MaxAddr]>>} :
    LET counted == CountCountries(CountrySegments(<<a, b>>), {1, 2}, feed)
    IN /\ counted.mapped = Cardinality(Covered(feed) \cap (Covered(a) \cup Covered(b)))
       /\ counted.values[1] = Shared(feed, a)
       /\ counted.values[2] = Shared(feed, b)

\* However the file is replaced while it is loaded, a load answers with a body that
\* was there during it, and the next one too: what was kept is used again only
\* while the file is still what was parsed.
ASSUME NeverStale ==
  \A v \in [1 .. 6 -> 1 .. 4] : (\A i \in 1 .. 5 : v[i] <= v[i + 1]) =>
    LET first  == LoadOrParse(Unset, v[1], v[2], v[3])
        second == LoadOrParse(first.cache, v[4], v[5], v[6])
    IN first.body = v[3] /\ second.body \in v[4] .. v[6]

(***************************************************************************)
(* Critical infrastructure.                                                *)
(***************************************************************************)
CriticalTiers == <<"hard", "soft", "contextual">>
TierRank(tier) == CHOOSE i \in DOMAIN CriticalTiers : CriticalTiers[i] = tier

\* loadCriticalInfrastructureSources: a source is [name, tier, set], and opens or
\* is missing.  The identity is that of the plan of the run.
LoadProviders(sources, identity) ==
  [loaded     |-> SelectSeq(sources, LAMBDA s : s.opens),
   configured |-> [i \in DOMAIN sources |-> sources[i].name],
   missing    |-> SelectSeq(sources, LAMBDA s : ~s.opens),
   identity   |-> identity]

\* criticalFeedWriter.write: a file for each provider, then the aggregate.  One
\* whose filter shares nothing with that of the feed is not read; a read that
\* fails ends the run, and what was written before it stays where it was staged.
CriticalForFeed(feed, datasets, fails, saidDisjoint, context) ==
  LET Visit(done, p) ==
        LET common == IF p.name \in saidDisjoint THEN <<>> ELSE IntersectSets(feed, p.set)
            n      == Cardinality(Covered(common))
        IN IF ~done.ok THEN done
           ELSE IF p.name \in fails THEN [done EXCEPT !.ok = FALSE]
           ELSE [done EXCEPT
                   !.files = Append(@, [name |-> p.name, ips |-> n, identity |-> datasets.identity]),
                   !.total = Optimize(@ \o common),
                   !.tiers = IF n = 0 THEN @ ELSE Bind(@, p.tier, Optimize(SetOf(@, p.tier) \o common)),
                   !.met   = IF n = 0 THEN @ ELSE Append(@, [name |-> p.name, tier |-> p.tier, ips |-> n])]
      read  == FoldLeft(Visit, [ok |-> TRUE, files |-> <<>>, total |-> <<>>, tiers |-> <<>>, met |-> <<>>],
                        datasets.loaded)
      tiers == SelectSeq(CriticalTiers, LAMBDA t : t \in DOMAIN read.tiers)
  IN [ok |-> read.ok, files |-> read.files,
      aggregate |->
        [feed |-> Cardinality(Covered(feed)), ips |-> Cardinality(Covered(read.total)),
         complete |-> datasets.missing = <<>>, identity |-> datasets.identity,
         tiers |-> [i \in DOMAIN tiers |->
                      [tier |-> tiers[i], ips |-> Cardinality(Covered(read.tiers[tiers[i]])),
                       providers |-> Cardinality({j \in DOMAIN read.met : read.met[j].tier = tiers[i]})]],
         providers |-> SortSeq(read.met, LAMBDA x, y : x.ips > y.ips \/ (x.ips = y.ips /\ x.name < y.name)),
         context |-> context]]

\* criticalOverlapTiersFromAggregate: what the entry of the feed keeps; nothing when
\* its set did not open and no file was written.
OverlapTiers(opens, aggregate) ==
  IF ~opens THEN {}
  ELSE {aggregate.tiers[i].tier : i \in {j \in DOMAIN aggregate.tiers : aggregate.tiers[j].ips > 0}}

\* readPreferredASNPayload: the default provider first.  A file is "absent",
\* "unreadable", "broken" or the payload alone; that of this run is tried before
\* the one that is published, whose error is the one that is told.
ReadFirst(staged, live) == IF staged \in {"absent", "unreadable"} THEN live ELSE staged
PreferredPayload(providers, staged, live) ==
  LET File(p)  == ReadFirst(staged[p], live[p])
      present  == SelectSeq(providers, LAMBDA p : File(p) # "absent")
  IN IF present = <<>> THEN Unset ELSE Some([provider |-> Head(present), file |-> File(Head(present))])

\* criticalASNContextForFeed, of a payload: from an AS to its tier, and the counts.
ASNContext(tierOf, byASN) ==
  LET matched == DOMAIN tierOf \cap DOMAIN byASN
      Before(a, b) == \/ TierRank(tierOf[a]) < TierRank(tierOf[b])
                      \/ /\ tierOf[a] = tierOf[b]
                         /\ byASN[a] > byASN[b] \/ (byASN[a] = byASN[b] /\ a < b)
  IN IF matched = {} THEN Unset
     ELSE Some([ips |-> SumOf([a \in matched |-> byASN[a]]), matches |-> SetToSortSeq(matched, Before)])

(***************************************************************************)
(* The identity of the set of providers, and the marker that keeps it.  A  *)
(* fingerprint is of every field of a source that shapes what it says, but *)
(* for what a merge is made of.                                            *)
(***************************************************************************)
Identity(cfg) ==
  LET critical == SelectSeq(cfg.sources, LAMBDA s : s.use = "critical")
      asn      == IF cfg.context = {} THEN <<>> ELSE SelectSeq(cfg.sources, LAMBDA s : s.use = "asn")
      items    == [i \in DOMAIN (critical \o asn) |->
                     LET s == (critical \o asn)[i]
                     IN [name |-> s.name, use |-> s.use, fingerprint |-> s.fingerprint]]
  IN IF critical = <<>> /\ cfg.context = {} THEN Unset
     ELSE Some([providers |-> SortSeq(items, LAMBDA x, y : x.name < y.name), context |-> cfg.context])

(***************************************************************************)
(* Files of targets and providers that are gone.  A name is a sequence of  *)
(* tokens; one that is longer than another by a token is longer.           *)
(***************************************************************************)
Suffix == "_critical_infrastructure"
Infix  == "_critical_"
Underscored == {Suffix, Infix, "_q"}

Begins(base, feed) == Len(base) > Len(feed) /\ SubSeq(base, 1, Len(feed)) = feed /\ base[Len(feed) + 1] \in Underscored
Rest(base, feed) == SubSeq(base, Len(feed) + 2, Len(base))
IsFileOf(base, feed) == Begins(base, feed) /\ base[Len(feed) + 1] = Infix /\ Rest(base, feed) # <<>>
Longest(names) == CHOOSE f \in names : \A g \in names : Len(g) <= Len(f)

\* criticalProviderArtifactPartsForTargets
Parts(base, targets, providers) ==
  LET exact  == {f \in targets : IsFileOf(base, f) /\ Rest(base, f) \in providers}
      begun  == {f \in targets : Begins(base, f)}
      Of(f)  == Some([feed |-> f, provider |-> Rest(base, f)])
  IN IF exact # {} THEN Of(Longest(exact))
     ELSE IF begun # {} /\ IsFileOf(base, Longest(begun)) THEN Of(Longest(begun))
     ELSE Unset

\* markStaleCriticalInfrastructureArtifactDeletes, of one file.
Deletes(base, public, targets, providers) ==
  LET parts == Parts(base, public, providers)
  IN /\ base \notin public
     /\ IF base[Len(base)] = Suffix
          THEN providers = {} \/ SubSeq(base, 1, Len(base) - 1) \notin targets
          ELSE parts # Unset /\ (parts[1].feed \notin targets \/ parts[1].provider \notin providers)

\* CleanupStaleCriticalInfrastructureArtifacts: without providers the entries are
\* cleared first and the marker follows last, unless the deletion failed.
Cleanup(state, public, targets, providers, identity, fails) ==
  LET cleared == IF providers = {} THEN [state EXCEPT !.tiers = {}] ELSE state
  IN IF fails THEN cleared
     ELSE [cleared EXCEPT !.files = {f \in @ : ~Deletes(f, public, targets, providers)},
                          !.marker = IF providers = {} THEN identity ELSE @]

(***************************************************************************)
(* How much of a feed no independent peer lists.                           *)
(***************************************************************************)
\* isIndependentPeer, and the rest of what updateUniqueShares asks of a row.
Independent(cfg, self, row) ==
  LET peer == cfg[row.name] IN
  /\ ~row.related
  /\ row.name # self
  /\ ~peer.hidden
  /\ peer.use \cap {"geoip", "asn"} = {}
  /\ peer.provenance \in {"", "primary", "secondary_upstream"}
  /\ cfg[self].leaves \cap peer.leaves = {}
  /\ peer.maintainer = "" \/ peer.maintainer # cfg[self].maintainer

UniqueShare(cfg, self, unique, rows) ==
  LET peers   == {i \in DOMAIN rows : rows[i].name \in DOMAIN cfg /\ Independent(cfg, self, rows[i])}
      closest == Max({0} \cup {rows[i].common : i \in peers})
  IN [samples |-> IF unique = 0 THEN 0 ELSE Cardinality(peers),
      alone   |-> IF unique # 0 /\ peers = {} THEN unique
                  ELSE IF closest < unique THEN unique - closest ELSE 0]

(***************************************************************************)
(* What must be said of critical infrastructure and of peers.              *)
(***************************************************************************)
FewSets  == {StreamOf(x, {}) : x \in {{}, {0, 1, 2}, {2, 3}, {7}, {1, 7}}}
ThreeOf(a, b, c, tiers, opens) ==
  <<[name |-> 2, set |-> a, tier |-> tiers[1], opens |-> TRUE],
    [name |-> 1, set |-> b, tier |-> tiers[2], opens |-> opens],
    [name |-> 3, set |-> c, tier |-> tiers[2], opens |-> TRUE]>>
AllOf(sources, Which(_)) ==
  UNION {Covered(sources[i].set) : i \in {j \in DOMAIN sources : sources[j].opens /\ Which(sources[j])}}
Listed(seq) == {seq[i].name : i \in DOMAIN seq}

\* The aggregate of a feed counts an address once, however many providers and tiers
\* have it; each tier counts what its providers have together; exactly the providers
\* that share addresses are listed, those that share more first; the files beside it
\* say the same of each, with the same identity; and it is complete only if every
\* provider was read.
ASSUME CriticalRight ==
  \A feed \in FewSets \ {<<>>}, a, b, c \in FewSets, opens \in BOOLEAN :
    \A tiers \in [1 .. 2 -> {"hard", "soft"}] : \A skips \in SUBSET {1, 3} :
      LET sources == ThreeOf(a, b, c, tiers, opens)
          mine    == Covered(feed)
          said    == {n \in skips : \A i \in DOMAIN sources :
                                      sources[i].name = n => Covered(sources[i].set) \cap mine = {}}
          done    == CriticalForFeed(feed, LoadProviders(sources, "id"), {}, said, Unset)
          agg     == done.aggregate
          Everywhere(p) == TRUE
      IN /\ agg.ips = Cardinality(mine \cap AllOf(sources, Everywhere))
         /\ OverlapTiers(TRUE, agg)
              = {t \in {"hard", "soft"} : mine \cap AllOf(sources, LAMBDA p : p.tier = t) # {}}
         /\ \A i \in DOMAIN agg.tiers :
              agg.tiers[i].ips = Cardinality(mine \cap AllOf(sources, LAMBDA p : p.tier = agg.tiers[i].tier))
         /\ \A i \in 1 .. Len(agg.providers) - 1 : agg.providers[i].ips >= agg.providers[i + 1].ips
         /\ Listed(agg.providers) = {done.files[i].name : i \in {j \in DOMAIN done.files : done.files[j].ips > 0}}
         /\ \A i \in DOMAIN sources : sources[i].opens =>
              \E j \in DOMAIN done.files :
                /\ done.files[j].name = sources[i].name
                /\ done.files[j].ips = Shared(feed, sources[i].set)
                /\ done.files[j].identity = agg.identity
         /\ agg.complete <=> opens
         /\ agg.tiers = <<>> <=> agg.ips = 0

\* A read that fails leaves the files of the providers before it, and the run knows.
ASSUME FailureStops ==
  \A bad \in 1 .. 3 :
    LET all  == <<[lo |-> 0, hi |-> MaxAddr]>>
        done == CriticalForFeed(all, LoadProviders(ThreeOf(all, all, all, <<"hard", "soft">>, TRUE), "id"),
                                {bad}, {}, Unset)
    IN ~done.ok /\ Listed(done.files) = {<<2, 1, 3>>[i] : i \in 1 .. (CHOOSE i \in 1 .. 3 : <<2, 1, 3>>[i] = bad) - 1}

\* The context counts the addresses of the feed whose AS has a tier, lists exactly
\* those ASes, and the harder tiers first.
ASSUME ContextWithin ==
  \A table \in {<<>>} \cup RowsOf(1) \cup {r \in RowsOf(2) : r[1].lo = 2 /\ r[2].hi = MaxAddr}, feed \in FewSets :
    \A tierOf \in UNION {[some -> {"soft", "contextual"}] : some \in SUBSET ASes} :
      LET db      == TableDatabase(SortMerge(table))
          shown   == ASNFeed(db, feed, Unset, Unset)
          context == ASNContext(tierOf, shown.byASN)
          inside  == {x \in Covered(feed) : db[x].asn \in DOMAIN tierOf}
      IN /\ context = Unset <=> inside = {}
         /\ context # Unset =>
              /\ context[1].ips = Cardinality(inside) /\ context[1].ips <= shown.attributed
              /\ ToSet(context[1].matches) = {db[x].asn : x \in inside}
              /\ \A i, j \in DOMAIN context[1].matches :
                   i < j => TierRank(tierOf[context[1].matches[i]]) <= TierRank(tierOf[context[1].matches[j]])

\* A payload of this run hides the published one; an error is told only of the first
\* provider that has a file at all.
ASSUME PayloadPreferred ==
  \A staged, live \in [{1, 2} -> {"absent", "unreadable", "broken", "payload"}] :
    LET found == PreferredPayload(<<1, 2>>, staged, live) IN
    /\ staged[1] = "payload" => found[1] = [provider |-> 1, file |-> "payload"]
    /\ found = Unset <=> \A p \in {1, 2} : live[p] = "absent" /\ staged[p] \in {"absent", "unreadable"}
    /\ found # Unset /\ found[1].provider = 2 => live[1] = "absent"

Sources1 == [name : {1, 2}, use : {"critical", "asn", "other"}, fingerprint : {"f", "g"}, merged : {"m", "n"}]
Catalogs1 == {cfg \in [sources : {<<>>} \cup [1 .. 1 -> Sources1] \cup [1 .. 2 -> Sources1], context : {{}, {1}}] :
                Len(cfg.sources) = 2 => cfg.sources[1].name # cfg.sources[2].name}
\* What the comparisons with critical infrastructure depend on.
Matters(cfg) ==
  LET uses == {"critical"} \cup (IF cfg.context = {} THEN {} ELSE {"asn"})
  IN [sources |-> {[name |-> s.name, use |-> s.use, fingerprint |-> s.fingerprint] :
                     s \in {x \in ToSet(cfg.sources) : x.use \in uses}},
      context |-> cfg.context]

\* Two catalogs have the same identity exactly if they have the same providers with
\* the same fingerprints and the same context: the order in which they are declared,
\* and what other sources are, does not matter, and neither does what a provider
\* that is a merge is made of.
ASSUME IdentityTells ==
  \A one, other \in {c \in Catalogs1 : \A i \in DOMAIN c.sources : c.sources[i].merged = "n" => i = 1} :
    Identity(one) = Identity(other) <=> Matters(one) = Matters(other)

\* Names of feeds, some of them made like the names of files.
X == <<"x">>
FeedNames     == {X, <<"x", "_q">>, <<"x", Infix, "y">>, <<"x", Suffix>>, <<"y">>}
ProviderNames == {<<"y">>, <<"z">>, <<"y", Infix, "z">>, <<"z", Suffix>>}
Aggregate(feed)      == feed \o <<Suffix>>
FileOf(feed, p)      == feed \o <<Infix>> \o p
Layouts == {l \in [public : SUBSET FeedNames, targets : SUBSET FeedNames, providers : SUBSET ProviderNames] :
              /\ l.targets \subseteq l.public \ l.providers
              /\ \A t \in l.targets : /\ Aggregate(t) \notin l.public
                                      /\ \A p \in l.providers : FileOf(t, p) \notin l.public}
Gone(l, base) == Deletes(base, l.public, l.targets, l.providers)

\* Neither the page of a feed nor a file that the last run wrote is deleted; except
\* for a provider whose own name ends like the name of an aggregate, or the same
\* name read as that of another public feed and provider.
ASSUME DeletesOnlyStale ==
  \A l \in Layouts :
    /\ \A f \in l.public : ~Gone(l, f)
    /\ \A t \in l.targets : l.providers # {} => ~Gone(l, Aggregate(t))
    /\ \A t \in l.targets, p \in l.providers :
         Gone(l, FileOf(t, p)) =>
           \/ p[Len(p)] = Suffix
           \/ \E f \in l.public \ l.targets : Len(f) > Len(t) /\ IsFileOf(FileOf(t, p), f)

\* What a provider that is gone left of a public feed is deleted, and so is all of a
\* feed that is not compared any more, unless a public feed has a longer name that
\* the name of the file begins with, or the name is that of a file in use.
ASSUME DeletesStale ==
  \A l \in Layouts : \A f \in l.public, p \in ProviderNames :
    LET base == FileOf(f, p)
        alone == /\ ~ \E g \in l.public : Len(g) > Len(f) /\ Begins(base, g)
                 /\ ~ \E t \in l.targets, r \in l.providers : base = FileOf(t, r)
    IN /\ alone /\ base \notin l.public /\ (p \notin l.providers \/ f \notin l.targets) => Gone(l, base)
       /\ f \notin l.targets /\ Aggregate(f) \notin l.public => Gone(l, Aggregate(f))

\* A catalog that has dropped its providers is as one that never had any once the
\* cleanup is through; before, no more is forgotten than the entries say.
ASSUME CleanupRight ==
  \A l \in {k \in Layouts : \A f \in k.public : Len(f) < 3} :
    \A providers \in {{}, l.providers}, fails \in BOOLEAN :
      LET files  == {Aggregate(f) : f \in l.public} \cup {FileOf(f, <<"y">>) : f \in l.public} \cup l.public
          before == [tiers |-> {"hard"}, files |-> files, marker |-> "old"]
          after  == Cleanup(before, l.public, l.targets, providers, "new", fails)
      IN /\ providers = {} => after.tiers = {}
         /\ providers = {} /\ ~fails => after.files = l.public /\ after.marker = "new"
         /\ providers # {} \/ fails => after.marker = "old"
         /\ fails => after.files = files

Peer == [hidden : {FALSE}, use : {{}, {"asn"}}, provenance : {"", "secondary_merge"}, leaves : {{1}, {2}},
         maintainer : {"", "m", "n"}]
Self == [hidden |-> FALSE, use |-> {}, provenance |-> "primary", leaves |-> {1}, maintainer |-> "m"]

\* The share of a feed is what the closest of its independent peers does not list:
\* all of it when there is none, and the rows may come in any order.
ASSUME ShareRight ==
  \A p, q \in Peer, maintainer \in {"", "m"} : \A mine \in SUBSET (0 .. 2), theirs, others \in SUBSET (0 .. 1) :
    LET cfg == (0 :> [Self EXCEPT !.maintainer = maintainer]) @@ (1 :> p) @@ (2 :> q)
        row(n, set) == [name |-> n, related |-> FALSE, common |-> Cardinality(mine \cap set)]
        rows  == <<row(1, theirs), row(2, others), row(0, mine)>>
        share == UniqueShare(cfg, 0, Cardinality(mine), rows)
        sets  == {<<1, theirs>>, <<2, others>>}
        free  == {n \in {1, 2} : cfg[n].use = {} /\ cfg[n].provenance = "" /\ cfg[n].leaves = {2}
                                   /\ (cfg[n].maintainer = "" \/ cfg[n].maintainer # maintainer)}
    IN /\ UniqueShare(cfg, 0, Cardinality(mine), Reverse(rows)) = share
       /\ mine # {} => share.samples = Cardinality(free)
       /\ \A s \in sets : s[1] \in free => share.alone <= Cardinality(mine \ s[2])
       /\ \/ share.alone = Cardinality(mine) /\ free = {}
          \/ \E s \in sets : s[1] \in free /\ share.alone = Cardinality(mine \ s[2])
          \/ mine = {}

(***************************************************************************)
(* What is said of a single address (ip_context.go).                       *)
(***************************************************************************)
\* lookupCountryInPreparedProvider: the first of the countries of the segment.
LookupCountry(segments, x) ==
  LET behind == {i \in DOMAIN segments : segments[i].hi >= x}
  IN IF behind = {} \/ x < segments[Min(behind)].lo THEN Unset
     ELSE Some(Min(segments[Min(behind)].codes))

\* LookupIPContext, of a provider that is loaded, or not.
IPContext(geo, databases, x) ==
  [country |-> IF geo = Unset THEN Unset ELSE LookupCountry(geo[1], x),
   asn     |-> IF databases = Unset \/ databases[1][x].asn = 0 THEN Unset ELSE Some(databases[1][x].asn)]

\* The address alone, as a feed, would be counted for that AS and that country.
ASSUME LookupAgrees ==
  \A a, b \in FewSets, db \in {TableDatabase(table) : table \in {<<>>} \cup RowsOf(1)}, x \in Addresses :
    LET segments == CountrySegments(<<a, b>>)
        told     == IPContext(Some(segments), Some(db), x)
        only     == <<[lo |-> x, hi |-> x]>>
        counted  == CountCountries(segments, {1, 2}, only)
    IN /\ told.country = Unset <=> counted.mapped = 0
       /\ told.country # Unset => counted.values[told.country[1]] = 1
       /\ DOMAIN ASNFeed(db, only, Unset, Unset).byASN = ToSet(told.asn)

(***************************************************************************)
(* The databases of ASes that are kept open for lookups, of one provider.  *)
(* The file is replaced and the configuration is published again while     *)
(* callers look addresses up.  A database is [key, of, since, refs,        *)
(* retired, closes]: key is the version of the file its caller had seen,   *)
(* of the one it opened, since the publication its opening began after.    *)
(***************************************************************************)
LookupCallers == 1 .. 2
FileVersions  == 1 .. 2

LookupsBegin ==
  [file |-> 1, published |-> 0, generation |-> 0, cached |-> 0, dbs |-> <<>>,
   callers |-> [c \in LookupCallers |-> [at |-> "idle", key |-> 0, generation |-> 0, since |-> 0,
                                  load |-> 0, db |-> 0]]]

Moves(s, c, at)  == [s EXCEPT !.callers[c].at = at]
Closes(s, d)     == [s EXCEPT !.dbs[d].closes = @ + 1]
Leased(s, c, d)  ==
  [s EXCEPT !.dbs[d].refs = @ + 1, !.callers[c].at = "holding", !.callers[c].db = d,
            !.callers[c].since = s.published]
Matches(s, key)  == s.cached # 0 /\ s.dbs[s.cached].key = key
\* The calls that open a database, by the version they have seen.
Loading(s, key)  == {c \in LookupCallers : s.callers[c].at \in {"opens", "opened"} /\ s.callers[c].key = key}

\* retireLocked: a database that nobody holds is closed at once, another one by
\* the last of its holders.
Retired(s, d) ==
  LET retired == [s EXCEPT !.dbs[d].retired = TRUE]
  IN IF s.dbs[d].refs = 0 THEN Closes(retired, d) ELSE retired

\* acquireContext, up to the call that opens, or the wait for another's.
Acquires(s, c) ==
  LET key == s.callers[c].key
  IN IF Matches(s, key) THEN Leased(s, c, s.cached)
     ELSE IF Loading(s, key) # {}
       THEN [Moves(s, c, "waits") EXCEPT !.callers[c].load = Min(Loading(s, key))]
     ELSE [Moves(s, c, "opens") EXCEPT !.callers[c].generation = s.generation,
                                       !.callers[c].since = s.published]

OpensDatabase(s, c) ==
  LET caller == s.callers[c]
  IN [Moves(s, c, "opened") EXCEPT
        !.dbs = Append(@, [key |-> caller.key, of |-> s.file, since |-> caller.since,
                           refs |-> 0, retired |-> FALSE, closes |-> 0]),
        !.callers[c].db = Len(s.dbs) + 1]

\* The load is over, however it ended: those that wait for it try again.
LoadEnds(s, c) ==
  [s EXCEPT !.callers = [o \in LookupCallers |->
     IF @[o].at = "waits" /\ @[o].load = c THEN [@[o] EXCEPT !.at = "acquires", !.load = 0] ELSE @[o]]]

\* acquireContext, after the call: a database of before a retirement is not kept,
\* nor one that another caller has opened as well.
Keeps(s, c) ==
  LET done == LoadEnds(s, c)
      db   == s.callers[c].db
  IN IF s.callers[c].generation # s.generation
       THEN [Moves(Closes(done, db), c, "acquires") EXCEPT !.callers[c].db = 0]
     ELSE IF Matches(s, s.callers[c].key) THEN Leased(Closes(done, db), c, s.cached)
     ELSE Leased([(IF s.cached = 0 THEN done ELSE Retired(done, s.cached)) EXCEPT !.cached = db], c, db)

\* release
Releases(s, c) ==
  LET db   == s.callers[c].db
      less == [Moves(s, c, "over") EXCEPT !.dbs[db].refs = @ - 1]
  IN IF less.dbs[db].refs = 0 /\ s.dbs[db].retired THEN Closes(less, db) ELSE less

\* retireAll, as a configuration is published.
RetiresAll(s) ==
  [(IF s.cached = 0 THEN s ELSE Retired(s, s.cached)) EXCEPT !.cached = 0, !.generation = @ + 1,
                                                              !.published = @ + 1]

CallerSteps(s, c) ==
  LET at == s.callers[c].at
  IN CASE at = "idle"     -> {[Moves(s, c, "acquires") EXCEPT !.callers[c].key = s.file]}
       [] at = "acquires" -> {Acquires(s, c), Moves(s, c, "over")}
       [] at = "waits"    -> {Moves(s, c, "over")}
       [] at = "opens"    -> {OpensDatabase(s, c), LoadEnds(Moves(s, c, "over"), c)}
       [] at = "opened"   -> {Keeps(s, c), LoadEnds(Moves(Closes(s, s.callers[c].db), c, "over"), c)}
       [] at = "holding"  -> {Releases(s, c)}
       [] at = "over"     -> {}

\* Bound: one publication.
LookupSteps(s) ==
  UNION {CallerSteps(s, c) : c \in LookupCallers}
    \cup (IF s.file + 1 \in FileVersions THEN {[s EXCEPT !.file = @ + 1]} ELSE {})
    \cup (IF s.published = 0 THEN {RetiresAll(s)} ELSE {})

RECURSIVE LookupsFrom(_, _)
LookupsFrom(frontier, known) ==
  LET new == UNION {LookupSteps(s) : s \in frontier} \ known
  IN IF new = {} THEN known ELSE LookupsFrom(new, known \cup new)

\* Nobody holds a database that is closed, or one that was being opened when the
\* configuration was published, or one that is older than the file it looked at; no
\* database is closed twice; one is closed or kept, and the one that is kept counts
\* its holders; who waits, waits for a call that is still opening.
ASSUME LeasesRight ==
  \A s \in LookupsFrom({LookupsBegin}, {LookupsBegin}) :
    /\ \A c \in LookupCallers : LET caller == s.callers[c] IN
         /\ caller.at = "holding" => LET db == s.dbs[caller.db] IN
              db.closes = 0 /\ db.since = caller.since /\ db.of >= caller.key
         /\ caller.at = "waits" => s.callers[caller.load].at \in {"opens", "opened"}
    /\ \A d \in DOMAIN s.dbs :
         LET holders == {c \in LookupCallers : s.callers[c].at = "holding" /\ s.callers[c].db = d}
             opener  == {c \in LookupCallers : s.callers[c].at = "opened" /\ s.callers[c].db = d}
         IN /\ s.dbs[d].closes <= 1
            /\ s.dbs[d].refs = Cardinality(holders)
            /\ s.dbs[d].closes = 0 <=> holders \cup opener # {} \/ s.cached = d
=============================================================================
