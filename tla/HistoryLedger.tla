---------------------------- MODULE HistoryLedger ----------------------------
(***************************************************************************)
(* How often and how strongly a feed changes (pkg/engine/                  *)
(* runtime_ledger_cache.go, runtime_ledger_loaders.go and finalize.go).    *)
(* Every processed body adds a row to history.csv.  What the rows add up   *)
(* to is kept three times: in the feed's cache entry, in a ledger cache    *)
(* in memory, and, for the last rows, in the public copy of the history.   *)
(* The file is read only when the entry cannot stand in for it.            *)
(*                                                                         *)
(* The lives of one feed are explored as sets of reachable states.         *)
(***************************************************************************)
EXTENDS Naturals, Sequences, SequencesExt, FiniteSets

(***************************************************************************)
(* Bounds: three dates, bodies of one of two sizes (the count of entries   *)
(* and that of addresses are kept alike), charts of two rows.              *)
(***************************************************************************)
Dates == 1 .. 3
Sizes == 1 .. 2
Limit == 2

Point == [at : Dates, size : Sizes]

(***************************************************************************)
(* The sums over the rows.                                                 *)
(***************************************************************************)
NoRows == [first |-> 0, last |-> 0, count |-> 0, total |-> 0, least |-> 0, most |-> 0,
           low |-> 0, high |-> 0, size |-> 0]

Smaller(a, b) == IF a < b THEN a ELSE b
Larger(a, b)  == IF a > b THEN a ELSE b

\* observe: a row that is not younger than the last counts for nothing.
Observe(stats, p) ==
  LET gap == p.at - stats.last
  IN IF stats.count = 0
       THEN [NoRows EXCEPT !.first = p.at, !.last = p.at, !.count = 1,
                           !.low = p.size, !.high = p.size, !.size = p.size]
     ELSE IF p.at <= stats.last THEN stats
     ELSE [first |-> stats.first, last |-> p.at, count |-> stats.count + 1,
           total |-> stats.total + gap,
           least |-> IF stats.least = 0 THEN gap ELSE Smaller(stats.least, gap),
           most  |-> Larger(stats.most, gap),
           low   |-> Smaller(stats.low, p.size), high |-> Larger(stats.high, p.size),
           size  |-> p.size]

\* appendHistoryTail
LastOf(rows) == IF Len(rows) > Limit THEN SubSeq(rows, Len(rows) - Limit + 1, Len(rows)) ELSE rows

\* appendObservedHistoryTail
Trailed(tail, p) ==
  CASE tail # << >> /\ Last(tail).at = p.at -> [tail EXCEPT ![Len(tail)] = p]
    [] tail # << >> /\ Last(tail).at > p.at -> tail
    [] OTHER -> LastOf(Append(tail, p))

\* loadHistoryLedgerState: of rows that are not younger than the one before
\* them only the last stands, and it displaces that one.
Settling(rows) ==
  FoldLeft(LAMBDA kept, p : IF kept # << >> /\ p.at <= Last(kept).at
                              THEN [kept EXCEPT ![Len(kept)] = p]
                              ELSE Append(kept, p),
           << >>, rows)

Loaded(rows) == [known |-> TRUE,
                 stats |-> FoldLeft(Observe, NoRows, Settling(rows)),
                 tail  |-> FoldLeft(Trailed, << >>, Settling(rows))]

\* historyTailBootstrap: the public copy, and without it the rows themselves.
BootTail(feed) ==
  IF Loaded(feed.web).tail # << >> THEN Loaded(feed.web).tail ELSE Loaded(feed.rows).tail

\* historyLedgerStatsFromEntry.  An entry of more than one row that has no
\* gaps is one of an older version, whose gaps are in minutes: none is here.
Usable(entry) == entry.count > 0 /\ entry.first > 0 /\ entry.last > 0

\* ensureHistoryLedgerLoaded.  The tail does not depend on the entry.
Ensured(feed, baseline) ==
  CASE feed.memory.known -> feed.memory
    [] ~feed.memory.known /\ Usable(baseline) ->
         [known |-> TRUE, stats |-> baseline, tail |-> BootTail(feed)]
    [] OTHER -> Loaded(feed.rows)

\* historyLedgerStats.apply: all but the date of the source, which
\* ApplyFinalizedSourceSet has put in the entry.
ApplyStats(date, stats) == [stats EXCEPT !.last = date]

\* observeHistoryPoint, after the row is in the file.
Remembered(feed, p, baseline) ==
  LET memory == Ensured(feed, baseline)
      stats  == memory.stats
  IN CASE p.at > stats.last ->
            [memory EXCEPT !.stats = Observe(stats, p), !.tail = Trailed(memory.tail, p)]
       [] p.at = stats.last /\ p.size = stats.size ->
            [memory EXCEPT !.tail = Trailed(memory.tail, p)]
       [] p.at = stats.last /\ p.size # stats.size -> Loaded(feed.rows)
       [] OTHER -> memory

(***************************************************************************)
(* The life of a feed.  "saved" is the entry in the cache file, "real" the *)
(* last body that was processed.                                           *)
(***************************************************************************)
NoBody == [at |-> 0, size |-> 0]

Unread == [known |-> FALSE, stats |-> NoRows, tail |-> << >>]

NewFeed == [rows |-> << >>, web |-> << >>, entry |-> NoRows, saved |-> NoRows, memory |-> Unread,
            staged |-> NoBody, claimed |-> NoBody, newest |-> 0, real |-> NoBody]

\* applyStagedDownloadResult: the date of the body is in the entry as soon as
\* the body is staged.
Stage(feed, p) == [feed EXCEPT !.staged = p, !.newest = p.at, !.entry.last = p.at]

ClaimBody(feed) == [feed EXCEPT !.claimed = feed.staged, !.staged = NoBody]

\* finalize: the row, the entry, the sums; the entry as it was before is what
\* stands in for the file.
Finalized(feed) ==
  LET p      == feed.claimed
      longer == [feed EXCEPT !.rows = Append(@, p)]
      memory == Remembered(longer, p, feed.entry)
  IN [longer EXCEPT !.entry = ApplyStats(p.at, memory.stats), !.memory = memory,
                    !.claimed = NoBody, !.real = p]

\* writePublicHistoryCSV, which asks for the tail without an entry.
PublishHistory(feed) ==
  LET memory == Ensured(feed, NoRows)
  IN IF feed.rows = << >> THEN feed
     ELSE [feed EXCEPT !.memory = memory, !.web = memory.tail]

SaveEntry(feed) == [feed EXCEPT !.saved = feed.entry]

\* A reload drops the memory, a crash also what was not saved.
Reloaded(feed) == [feed EXCEPT !.memory = Unread]
Crashed(feed)  == [Reloaded(feed) EXCEPT !.entry = feed.saved]

(***************************************************************************)
(* What may happen.  A run is: claim, finalize, save, publish.  The ways:  *)
(* "ahead", a body is staged while one is processed; "back", a source      *)
(* gives an older date; "same", a body has the size of the one before;     *)
(* "lag", the service reloads between a run's end and its publication;     *)
(* "crash", it stops anywhere between two steps; "eager", after a reload   *)
(* or a restart the feed is published before it is processed, as when the  *)
(* startup check recovers it.                                              *)
(***************************************************************************)
Again(feed, ways) == IF "eager" \in ways THEN PublishHistory(feed) ELSE feed

Settled(feed) == feed.claimed = NoBody /\ feed.saved = feed.entry
Shown(feed)   == feed.rows = << >> \/ (feed.web # << >> /\ Last(feed.web) = Last(feed.rows))

Before(feed)  == IF feed.claimed # NoBody THEN feed.claimed ELSE feed.real

Following(feed, ways) ==
  {Stage(feed, p) : p \in {q \in Point : /\ feed.staged = NoBody
                                         /\ feed.claimed # NoBody => "ahead" \in ways
                                         /\ q.at <= feed.newest => "back" \in ways
                                         /\ q.size = Before(feed).size => "same" \in ways
                                         /\ Len(feed.rows) < Cardinality(Dates)}}
  \cup (IF feed.staged # NoBody /\ Settled(feed) THEN {ClaimBody(feed)} ELSE {})
  \cup (IF feed.claimed # NoBody THEN {Finalized(feed)} ELSE {})
  \cup (IF feed.claimed = NoBody THEN {SaveEntry(feed), PublishHistory(feed)} ELSE {})
  \cup (IF feed.claimed = NoBody /\ (Shown(feed) \/ "lag" \in ways)
          THEN {Again(Reloaded(feed), ways)} ELSE {})
  \cup (IF "crash" \in ways THEN {Again(Crashed(feed), ways)} ELSE {})

\* All states that are reached.
RECURSIVE Lived(_, _, _)
Lived(frontier, seen, ways) ==
  LET new == UNION {Following(f, ways) : f \in frontier} \ seen
  IN IF new = {} THEN seen ELSE Lived(new, seen \cup new, ways)

Lives(ways) == Lived({NewFeed}, {NewFeed}, ways)

(***************************************************************************)
(* Properties.                                                             *)
(***************************************************************************)
ExactSums(feed)  == feed.memory.known => feed.memory.stats = Loaded(feed.rows).stats
ExactTail(feed)  == feed.memory.known => feed.memory.tail = Loaded(feed.rows).tail
ExactSize(feed)  == feed.real # NoBody => feed.entry.size = feed.real.size
AtRest(feed)     == feed.staged = NoBody /\ feed.claimed = NoBody /\ Settled(feed) /\ Shown(feed)

\* The sums are those of the rows that are younger than all before them: how
\* many, between which dates, the least and the most time between two, the
\* least and the most entries; where no date goes back the last row tells the
\* present size.
ASSUME SumsAreThoseOfRows ==
  \A n \in 1 .. 4 : \A rows \in [1 .. n -> [at : 1 .. 4, size : Sizes]] :
    LET kept  == Settling(rows)
        rises == {i \in DOMAIN kept : \A j \in 1 .. i - 1 : kept[j].at < kept[i].at}
        dates == {kept[i].at : i \in rises}
        gaps  == {d \in 1 .. 3 : \E t \in dates : t + d \in dates /\ ~\E u \in dates : t < u /\ u < t + d}
        sizes == {kept[i].size : i \in rises}
        stats == Loaded(rows).stats
    IN /\ stats.count = Cardinality(rises)
       /\ stats.first \in dates /\ stats.last \in dates
       /\ \A t \in dates : stats.first <= t /\ t <= stats.last
       /\ stats.total = stats.last - stats.first
       /\ gaps # {} => /\ stats.least \in gaps /\ stats.most \in gaps
                       /\ \A d \in gaps : stats.least <= d /\ d <= stats.most
       /\ stats.low \in sizes /\ stats.high \in sizes
       /\ \A z \in sizes : stats.low <= z /\ z <= stats.high
       /\ (\A i \in 2 .. n : rows[i - 1].at <= rows[i].at) => rows[n].size = stats.size

\* An entry stands in for the file: as long as bodies come one at a time, each
\* of another size and a later date, sums, chart and entry are those of the file,
\* whenever the service reloads.
ASSUME EntryStandsIn ==
  \A f \in Lives({"lag"}) : ExactSums(f) /\ ExactTail(f) /\ ExactSize(f)

\* All that goes wrong with later dates comes from an entry that stands in:
\* where the file is read first, sums and chart are exact in every order of
\* staging and processing, reloads and crashes.
ASSUME FileFirstIsExact ==
  \A f \in Lives({"ahead", "same", "lag", "crash", "eager"}) : ExactSums(f) /\ ExactTail(f)

\* Nothing is made up: a public row is a row of the file, and the dates of a
\* chart rise, whether dates go back, bodies come ahead, or the service crashes.
ASSUME PublicIsTrue ==
  \A f \in Lives({"ahead", "same", "lag", "crash"}) \cup Lives({"back", "crash"}) :
    /\ ToSet(f.web) \subseteq ToSet(f.rows)
    /\ \A i \in 2 .. Len(f.web) : f.web[i - 1].at < f.web[i].at

\* Staging puts the body's date in the entry, so after a reload a body of the
\* size of the one before looks as if it was counted: the version, the dates
\* and the gaps miss it for good, and nothing else does.
ASSUME SameSizeForgotten ==
  /\ \A f \in Lives({"same"}) : ExactTail(f) /\ ExactSize(f)
  /\ \E f \in Lives({"same"}) : AtRest(f) /\ f.entry.count < Loaded(f.rows).stats.count

\* If such a reload comes before the row before it was published, that row stays
\* out of the public history too, from which the tail is then read.
ASSUME RowNeverShown ==
  \E f \in Lives({"same", "lag"}) :
    AtRest(f) /\ \E p \in ToSet(Loaded(f.rows).tail) : p \notin ToSet(f.web)

\* A body staged behind the one that is processed puts its own date in the entry:
\* after a reload the older body is taken for a late one, and the entry, that
\* was just given its size, gets the size of the body before it.  The newer
\* body mends the size when it is processed.
ASSUME AheadHidesSize ==
  /\ \E f \in Lives({"ahead"}) : f.claimed = NoBody /\ ~ExactSize(f)
  /\ \A f \in Lives({"ahead"}) : f.claimed = NoBody /\ f.staged = NoBody => ExactSize(f)

\* A source whose date goes back: the body is committed, but the entry keeps the
\* size of the one before, and what the file adds up to after a reload is
\* neither: there the older row has displaced the younger.
ASSUME BackwardsSplits ==
  \E f \in Lives({"back"}) : AtRest(f) /\ f.memory.known /\ ~ExactSize(f) /\ ~ExactSums(f)
                             /\ Loaded(f.rows).stats.count < Len(f.rows)

(***************************************************************************)
(* The ledger of changes.  Its first row, everything that was there when   *)
(* the feed was first seen, is no change and is left out.  Rows are        *)
(* numbered.                                                               *)
(***************************************************************************)

\* loadChangesetTail, when the whole file is read
ChangesOf(rows) ==
  CASE Len(rows) > Limit -> LastOf(rows)
    [] Len(rows) = 0     -> << >>
    [] OTHER             -> Tail(rows)

\* readFileTail, parseChangesetTailData and trimChangesetTail: a line is of two
\* characters, the header of three; what the window cuts is left out, and
\* the window doubles until it is enough.
RECURSIVE ChangesWithin(_, _)
ChangesWithin(rows, window) ==
  LET bytes  == 3 + 2 * Len(rows)
      offset == IF window < bytes THEN bytes - window ELSE 0
      whole  == SelectSeq(rows, LAMBDA r : offset = 0 \/ 3 + 2 * (r - 1) > offset)
  IN CASE Len(whole) > Limit -> LastOf(whole)
       [] Len(whole) <= Limit /\ offset = 0 -> ChangesOf(whole)
       [] OTHER -> ChangesWithin(rows, 2 * window)

\* observeChangesetPoint, after the row is in the file: a memory that is only
\* now loaded has the row already.
Noted(ledger) ==
  [ledger EXCEPT !.tail = IF ledger.known THEN LastOf(Append(@, Last(ledger.rows)))
                          ELSE ChangesOf(ledger.rows),
                 !.known = TRUE]

ReadChanges(ledger) ==
  IF ledger.known \/ ledger.rows = << >> THEN ledger
  ELSE [ledger EXCEPT !.known = TRUE, !.tail = ChangesOf(ledger.rows)]

AddRow(ledger) == [ledger EXCEPT !.rows = Append(@, Len(ledger.rows) + 1)]

\* recordRetentionDelta, with a reader before it, or between the row and the
\* note, or after a reload.
Delta(ledger, reader) ==
  CASE reader = "none"    -> Noted(AddRow(ledger))
    [] reader = "before"  -> Noted(AddRow(ReadChanges(ledger)))
    [] reader = "between" -> Noted(ReadChanges(AddRow(ledger)))
    [] reader = "reload"  -> Noted(AddRow([ledger EXCEPT !.known = FALSE]))

NoChanges == [rows |-> << >>, tail |-> << >>, known |-> FALSE]

Deltas(readers) == FoldLeft(Delta, NoChanges, readers)

\* The window a tail is read through does not show in what is read.
ASSUME AnyWindow ==
  \A n \in 0 .. 6 : LET rows == [i \in 1 .. n |-> i]
                   IN \A window \in 1 .. 16 : ChangesWithin(rows, window) = ChangesOf(rows)

\* The tail in memory is the tail of the file after any updates, reads and
\* reloads; only a reader that comes between a row and its note makes it
\* count the row twice.
ASSUME ChangesAreTheTail ==
  /\ \A readers \in UNION {[1 .. n -> {"none", "before", "reload"}] : n \in 0 .. 5} :
       LET ledger == Deltas(readers) IN ledger.tail = ChangesOf(ledger.rows)
  /\ LET ledger == Deltas(<<"none", "reload", "between">>) IN ledger.tail = ChangesOf(ledger.rows)
  /\ LET ledger == Deltas(<<"between">>) IN ledger.tail # ChangesOf(ledger.rows)

=============================================================================
