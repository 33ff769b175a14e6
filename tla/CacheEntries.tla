---------------------------- MODULE CacheEntries ----------------------------
(***************************************************************************)
(* What a start and a reload of the configuration do to cache entries      *)
(* (pkg/cache/cache.go, entry_config.go, entry_lifecycle.go and            *)
(* pkg/engine/bootstrap_entries.go, entry_timestamp_sanitize.go,           *)
(* legacy_failure_bootstrap.go): entries are made from what is on disk,    *)
(* dates that cannot be are repaired, failures are dated from an imported  *)
(* cache; all this may happen while downloads go on.                       *)
(***************************************************************************)
EXTENDS Integers, Sequences, SequencesExt, FiniteSetsExt

(***************************************************************************)
(* Bounds: dates 1 and 2 are valid, 0 is unknown, -1 and 9 cannot be.      *)
(***************************************************************************)
Horizon   == 2
SomeDates == {-1, 0, 1, 2, 9}

ValidDate(t)   == t > 0 /\ t <= Horizon
InvalidDate(t) == t < 0 \/ t > Horizon

(***************************************************************************)
(* Dates that cannot be.                                                   *)
(***************************************************************************)
DateFields == {"source", "processed", "checked", "started", "failing"}

\* The first of the candidates that is valid, otherwise unknown.
FirstValid(candidates) ==
  LET valid == SelectSeq(candidates, ValidDate) IN IF valid = << >> THEN 0 ELSE Head(valid)

\* RepairInvalidTimestamps: one field after the other, a later one from what
\* the earlier ones have become.  An absent evidence is 0.
RepairField(entry, field, candidates) ==
  IF InvalidDate(entry[field]) THEN [entry EXCEPT ![field] = FirstValid(candidates)] ELSE entry

RepairedDates(entry, latest, first) ==
  LET e1 == RepairField(entry, "source", <<latest>>)
      e2 == RepairField(e1, "processed", <<latest, e1.source>>)
      e3 == RepairField(e2, "checked", <<e2.failing, e2.processed, e2.source, latest>>)
      e4 == RepairField(e3, "started", <<first, e3.source, e3.processed>>)
  IN RepairField(e4, "failing", << >>)

\* latestObservedTimestamp and firstObservedTimestamp: rows of the history and
\* the time of the set's file, 0 without a file.
LatestObserved(rows, mtime) ==
  LET row == FirstValid(Reverse(rows)) IN IF ValidDate(mtime) /\ mtime > row THEN mtime ELSE row

FirstObserved(rows) == FirstValid(rows)

\* A repair leaves no date that cannot be, changes none that can, makes up none
\* that nothing on disk and no other field has, and a second repair does nothing.
ASSUME RepairIsSound ==
  \A entry \in [DateFields -> SomeDates] :
    \A rows \in {<< >>, <<-1>>, <<1, 2>>, <<9, 1>>}, mtime \in {0, 2, 9} :
      LET latest == LatestObserved(rows, mtime)
          after  == RepairedDates(entry, latest, FirstObserved(rows))
      IN \A f \in DateFields :
           /\ ~InvalidDate(after[f])
           /\ ~InvalidDate(entry[f]) => after[f] = entry[f]
           /\ after[f] \in {0, latest, FirstObserved(rows)} \cup {entry[g] : g \in DateFields}
           /\ RepairedDates(after, latest, FirstObserved(rows)) = after

\* A feed whose dates were all lost gets them back in order: started not after
\* the source's date, that not after the processing and the check, and none is
\* left unknown that something on disk tells.
ASSUME RepairIsOrdered ==
  \A rows \in {<< >>, <<1>>, <<1, 2>>, <<9, 1>>}, mtime \in {0, 1, 2, 9} :
    LET after == RepairedDates([f \in DateFields |-> 9], LatestObserved(rows, mtime),
                               FirstObserved(rows))
    IN after.started <= after.source /\ after.source <= after.processed
       /\ after.processed <= after.checked /\ after.failing = 0
       /\ after.checked > 0 => after.started > 0

(***************************************************************************)
(* An entry made from what is on disk.  An empty set's count is 0, which   *)
(* also stands for a minimum that is not known.                            *)
(***************************************************************************)

\* ApplyDiskSetStats
LowWith(low, size)  == IF low = 0 \/ size < low THEN size ELSE low
HighWith(high, size) == IF size > high THEN size ELSE high
LaterOf(date, mtime) == IF date = 0 \/ mtime > date THEN mtime ELSE date

\* bootstrapEntryFromDisk: the history, then the set's file, then defaults.
\* Rows have rising dates; of the history only what the rest depends on.
Bootstrapped(rows, file) ==
  LET lows == {rows[i].size : i \in DOMAIN rows}
      read == IF rows = << >> THEN [date |-> 0, started |-> 0, version |-> 0, low |-> 0, high |-> 0]
              ELSE [date |-> Last(rows).at, started |-> rows[1].at, version |-> Len(rows),
                    low |-> Min(lows), high |-> Max(lows)]
      disk == IF file.at = 0 THEN read
              ELSE [read EXCEPT !.date = LaterOf(@, file.at), !.low = LowWith(@, file.size),
                                !.high = HighWith(@, file.size)]
  IN [disk EXCEPT !.started = IF @ = 0 THEN disk.date ELSE @,
                  !.version = IF @ = 0 /\ disk.date > 0 THEN 1 ELSE @]

Histories == {rows \in UNION {[1 .. n -> [at : 1 .. 3, size : 0 .. 2]] : n \in 0 .. 3} :
                \A i \in 2 .. Len(rows) : rows[i - 1].at < rows[i].at}

\* A feed that has anything on disk gets an entry, with the youngest date there
\* is and bounds that hold the present size; its smallest size is that of the
\* history, except that an empty body is forgotten.
ASSUME BootstrapIsSound ==
  \A rows \in Histories, file \in [at : 0 .. 3, size : 0 .. 2] :
    LET entry == Bootstrapped(rows, file)
        sizes == {rows[i].size : i \in DOMAIN rows} \cup (IF file.at = 0 THEN {} ELSE {file.size})
    IN /\ entry.version > 0 <=> (rows # << >> \/ file.at > 0)
       /\ entry.version > 0 => /\ entry.started > 0 /\ entry.started <= entry.date
                               /\ entry.date >= file.at
                               /\ entry.low <= Max(sizes) /\ entry.high = Max(sizes)
                               /\ Min(sizes) > 0 => entry.low = Min(sizes)

\* That an empty body is forgotten happens.
ASSUME EmptyIsForgotten ==
  \E rows \in Histories, file \in [at : 1 .. 3, size : 0 .. 2] :
    /\ \E i \in DOMAIN rows : rows[i].size = 0
    /\ Bootstrapped(rows, file).low > 0

(***************************************************************************)
(* Failures dated from an imported cache.  At every start and reload a     *)
(* feed that failed when the cache was imported, and fails now, is taken   *)
(* to have failed all the time, unless its body has changed since.         *)
(***************************************************************************)
Import == 1

NewFailing == [failures |-> 1, since |-> 0, body |-> 0, now |-> Import, recovered |-> FALSE]

\* RecordDownloadFailure
Fails(feed) ==
  [feed EXCEPT !.now = @ + 1, !.failures = @ + 1,
               !.since = IF feed.failures = 0 \/ @ = 0 THEN feed.now + 1 ELSE @]

\* ClearDownloadFailure after a fetch that was answered with "not modified", or
\* with a new body.
Succeeds(feed, new) ==
  [feed EXCEPT !.now = @ + 1, !.failures = 0, !.since = 0, !.recovered = TRUE,
               !.body = IF new THEN feed.now + 1 ELSE @]

\* bootstrapLegacyFailureStarts
Imported(feed) ==
  IF feed.failures > 0 /\ feed.body <= Import /\ ~(feed.since > 0 /\ feed.since <= Import)
    THEN [feed EXCEPT !.since = Import] ELSE feed

LegacyStep(feed, event) ==
  CASE event = "fail"         -> Fails(feed)
    [] event = "not modified" -> Succeeds(feed, FALSE)
    [] event = "new body"     -> Succeeds(feed, TRUE)
    [] event = "reload"       -> Imported(feed)

LegacyLives == UNION {[1 .. n -> {"fail", "not modified", "new body", "reload"}] : n \in 0 .. 5}

Legacy(events) == FoldLeft(LegacyStep, NewFailing, events)

\* A feed that keeps failing is dated from the import whenever it was loaded
\* since; one whose body changed is dated from its own failures.
ASSUME ImportedStarts ==
  \A events \in LegacyLives :
    LET feed == Legacy(events)
    IN /\ feed.since > 0 => feed.failures > 0 /\ feed.since <= feed.now
       /\ ~feed.recovered /\ "reload" \in ToSet(events) => feed.since = Import
       /\ feed.body > Import /\ feed.since > 0 => feed.since > feed.body

\* But one that recovered without a new body, and fails once, is dated back to
\* the import by the next reload.
ASSUME RecoveryForgotten ==
  \E events \in LegacyLives :
    LET feed == Legacy(events) IN feed.recovered /\ feed.since = Import /\ feed.failures = 1

(***************************************************************************)
(* Entries that are replaced.  A worker keeps the pointer that Entry gave  *)
(* it; a reload that makes or repairs an entry puts another in its place,  *)
(* from a copy it took before.  An entry here is the count of the updates  *)
(* that it has, Missing if there is none.                                  *)
(***************************************************************************)
Missing == -1

\* The worker: takes its entry (which is made if there is none), then updates
\* it.  The reload: copies the entry, then, if there was none or its dates were
\* bad, replaces it.  "held" is the worker's pointer: "table" if what it points
\* to is in the table, "gone" if it was replaced.
Shared(entry) == [entry |-> entry, bad |-> entry # Missing, held |-> "none", copy |-> Missing,
                  lost |-> 0]

SharedStep(s, step) ==
  CASE step = "take"    -> [s EXCEPT !.held = "table", !.entry = IF @ = Missing THEN 0 ELSE @]
    [] step = "update"  -> IF s.held = "table" THEN [s EXCEPT !.entry = @ + 1]
                           ELSE [s EXCEPT !.lost = @ + 1]
    [] step = "copy"    -> [s EXCEPT !.copy = s.entry]
    [] step = "replace" ->
         IF s.copy # Missing /\ ~s.bad THEN s
         ELSE [s EXCEPT !.lost = @ + Max({s.entry, 0}) - Max({s.copy, 0}),
                        !.entry = Max({s.copy, 0}),
                        !.held = IF @ = "table" THEN "gone" ELSE @]

\* Both in their own order.
Meetings == {steps \in [1 .. 5 -> {"take", "update", "copy", "replace"}] :
               /\ SelectSeq(steps, LAMBDA x : x \in {"take", "update"}) = <<"take", "update", "update">>
               /\ SelectSeq(steps, LAMBDA x : x \in {"copy", "replace"}) = <<"copy", "replace">>}

Met(entry, steps) == FoldLeft(SharedStep, Shared(entry), steps)

\* A worker that took its entry after the replacement loses nothing.  One that
\* took it before loses all that it records from the copy on, also long after
\* the replacement; if there was no entry, only if it took it behind the copy.
ASSUME ReplacedUnderWorker ==
  \A steps \in Meetings, entry \in {Missing, 3} :
    LET at(x)   == CHOOSE i \in 1 .. 5 : steps[i] = x
        updates == {i \in 1 .. 5 : steps[i] = "update"}
        under   == at("take") < at("replace") /\ (entry = Missing => at("copy") < at("take"))
        missed  == {i \in updates : under /\ i > at("copy")}
        s       == Met(entry, steps)
    IN /\ s.lost = Cardinality(missed)
       /\ s.entry = Max({entry, 0}) + 2 - s.lost

=============================================================================
