--------------------------- MODULE ComparisonRows ---------------------------
(***************************************************************************)
(* The comparison of feeds (pkg/engine, output_comparison.go and           *)
(* output_comparison_pair_ledger.go).  Every feed publishes a row for each *)
(* feed it overlaps.  A run compares the updated feeds with all others and *)
(* merges what it finds into the published rows; a ledger of the counts,   *)
(* keyed by the contents they were taken from, spares it the pairs that    *)
(* did not change.                                                         *)
(*                                                                         *)
(* A run is a function of the files and of what goes wrong in it.  What    *)
(* must hold after runs is stated as assumptions, over every sequence of   *)
(* runs as long as they name.                                              *)
(***************************************************************************)
EXTENDS Naturals, SequencesExt, FiniteSetsExt

Feeds3 == 1 .. 3
Bodies == {{1}, {2}, {1, 2}}     (* what a feed may contain                *)
Pairs  == {<<f, g>> \in Feeds3 \X Feeds3 : f < g}
Names(pair) == {pair[1], pair[2]}

NoCounts == [k \in {} |-> 0]

\* comparisonPairLedgerKeyForInfos: the content stands for its hash.
Key(files, pair) == <<pair, files.content[pair[1]], files.content[pair[2]]>>

CommonOf(body, other) == Cardinality(body \cap other)
CommonNow(files, pair) == CommonOf(files.content[pair[1]], files.content[pair[2]])

(***************************************************************************)
(* compareSetPairFast: a pair that needs no reading cannot fail.           *)
(***************************************************************************)
FastCount(body, other) == IF body = other THEN Cardinality(body) ELSE 0
IsFast(body, other) ==
  body = {} \/ other = {} \/ body = other \/ Max(body) < Min(other) \/ Max(other) < Min(body)

CountOf(files, pair) ==
  LET body == files.content[pair[1]]
      other == files.content[pair[2]]
  IN IF IsFast(body, other) THEN FastCount(body, other) ELSE CommonOf(body, other)

(***************************************************************************)
(* A run of writeComparisonFiles.  Some feeds cannot be opened, some pairs *)
(* cannot be read.  With no updated names, or no ledger, it compares all.  *)
(***************************************************************************)
Recorded(files, pair) ==
  files.known /\ Key(files, pair) \in DOMAIN files.ledger

Wanted(files, run, pair) ==
  run.updated = {} \/ ~files.known \/ Names(pair) \cap run.updated # {}

\* runComparisonPairs: what it finds, from the ledger or by comparing.
Found(files, run) ==
  LET open  == {p \in Pairs : Names(p) \cap run.absent = {}}
      hits  == {p \in open : run.updated # {} /\ Recorded(files, p)}
      fresh == {p \in open \ hits :
                  /\ Wanted(files, run, p)
                  /\ p \notin run.unread
                       \/ IsFast(files.content[p[1]], files.content[p[2]])}
  IN [p \in hits \cup fresh |->
        IF p \in hits THEN files.ledger[Key(files, p)] ELSE CountOf(files, p)]

\* mergeCompareRows, into the rows of feed f: zero removes a row.
MergedRows(rows, found, f) ==
  [g \in Feeds3 |-> LET p == IF f < g THEN <<f, g>> ELSE <<g, f>>
                    IN IF p \in DOMAIN found THEN found[p] ELSE rows[g]]

\* writeComparisonPairLedger replaces the ledger by what this run found.
LedgerOf(files, found) ==
  [k \in {Key(files, p) : p \in DOMAIN found} |-> found[k[1]]]

\* The rows go to the stage, the ledger at once to its place; the stage is then
\* published file by file, and may stop after any of them.
ComparisonRun(files, run) ==
  LET found  == Found(files, run)
      placed == {f \in Feeds3 : f <= run.published}
  IN IF run.cancelled \/ Cardinality(Feeds3 \ run.absent) < 2 THEN files
     ELSE [files EXCEPT
            !.rows = [f \in Feeds3 |-> IF f \in placed THEN MergedRows(@[f], found, f) ELSE @[f]],
            !.known  = @ \/ run.recorded,
            !.ledger = IF run.recorded THEN LedgerOf(files, found) ELSE @]

(***************************************************************************)
(* Sequences of runs.  Before each, one feed gets a body, perhaps the one  *)
(* it has, and the run is told so.                                         *)
(***************************************************************************)
Right(files, pair) ==
  /\ files.rows[pair[1]][pair[2]] = CommonNow(files, pair)
  /\ files.rows[pair[2]][pair[1]] = CommonNow(files, pair)
AllRight(files) == \A p \in Pairs : Right(files, p)

Good(updated) ==
  [updated |-> updated, absent |-> {}, unread |-> {}, cancelled |-> FALSE,
   recorded |-> TRUE, published |-> 3]

Stopped(updated)   == {[Good(updated) EXCEPT !.published = n] : n \in 0 .. 2}
Unrecorded(updated) == [Good(updated) EXCEPT !.recorded = FALSE]
Missed(updated) ==
  {[Good(updated) EXCEPT !.cancelled = TRUE]}
    \cup {[Good(updated) EXCEPT !.absent = {f}] : f \in Feeds3}
    \cup {[Good(updated) EXCEPT !.unread = {p}] : p \in Pairs}

Faulty(updated) == Stopped(updated) \cup {Unrecorded(updated)} \cup Missed(updated)

Given(files, f, body) == [files EXCEPT !.content[f] = body]
AfterRun(files, Runs(_)) ==
  UNION {UNION {{ComparisonRun(Given(files, f, body), run) : run \in Runs({f})}
                  : body \in Bodies} : f \in Feeds3}
AfterAny(set, Runs(_)) == UNION {AfterRun(files, Runs) : files \in set}

Only(updated) == {Good(updated)}
OrGood(updated) == Faulty(updated) \cup {Good(updated)}

Blank(content) ==
  [content |-> content, rows |-> [f \in Feeds3 |-> [g \in Feeds3 |-> 0]], known |-> FALSE,
   ledger |-> NoCounts]

\* A first run of all feeds.  Bound: feed 1 starts with the body {1, 2}.
Started ==
  {ComparisonRun(Blank(c), Good({})) : c \in {d \in [Feeds3 -> Bodies] : d[1] = {1, 2}}}

OneRun  == AfterAny(Started, OrGood)
TwoRuns == AfterAny(OneRun, OrGood)

(***************************************************************************)
(* What must hold.                                                         *)
(***************************************************************************)
\* The ledger never has a wrong count: an entry outlives changes of its feeds,
\* failed runs and lost rows only together with the contents it is keyed by.
ASSUME LedgerTrue ==
  \A files \in TwoRuns :
    \A k \in DOMAIN files.ledger : files.ledger[k] = CommonOf(k[2], k[3])

\* While nothing fails, every row of every feed is right, although each run
\* compares only one of them.
ASSUME FaultFreeRight ==
  \A files \in Started \cup AfterAny(Started, Only) \cup AfterAny(AfterAny(Started, Only), Only) :
    AllRight(files)

\* Runs that stopped while their files were published, even before the first,
\* are completed by the next run, whichever feed that is about: the ledger,
\* which every run hands on, gives it the counts whose rows were lost.  So is
\* one that could not write the ledger.
ASSUME ResumedRight ==
  \A files \in AfterAny(AfterAny(Started, Stopped), Stopped) : \A f \in Feeds3 :
    AllRight(ComparisonRun(files, Good({f})))

ASSUME UnrecordedRight ==
  \A files \in AfterAny(Started, LAMBDA u : {Unrecorded(u)}) : \A f \in Feeds3 :
    AllRight(ComparisonRun(files, Good({f})))

\* Whatever went wrong before, a run makes the rows of the feed it is about
\* right, on both sides, and one without a ledger makes all rows right.
ASSUME UpdatedRight ==
  \A files \in OneRun : \A f \in Feeds3 :
    \A p \in Pairs : f \in Names(p) => Right(ComparisonRun(files, Good({f})), p)

ASSUME RebuiltRight ==
  \A files \in TwoRuns : AllRight(ComparisonRun([files EXCEPT !.known = FALSE], Good({1})))

\* But a pair that a run could not compare is no pair of the next run: it is
\* not in the ledger, and neither feed of it was updated.  Its rows stay wrong
\* through any number of runs of the third feed.
ASSUME MissedStays ==
  \E files \in AfterAny(Started, Missed), f \in Feeds3 :
    LET later == ComparisonRun(ComparisonRun(files, Good({f})), Good({f}))
    IN \E p \in Pairs : ~Right(later, p) /\ f \notin Names(p)
=============================================================================
