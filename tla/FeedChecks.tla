----------------------------- MODULE FeedChecks -----------------------------
(***************************************************************************)
(* When a feed is checked again and what its checks make of it.            *)
(*                                                                         *)
(* The next check (pkg/scheduler, snapshot_build.go) follows the cadence   *)
(* after a good one and a delay that doubles after hard failures.  What a  *)
(* check leaves in the cache entry (pkg/cache, entry_lifecycle.go) decides *)
(* the feed's class (pkg/feedhealth), and with it what the site shows and  *)
(* when the scheduler looks again.  Times and thresholds are in minutes and 0*)
(* is no time; times outside of what a date can express count as no time and*)
(* are left out.                                                           *)
(*                                                                         *)
(* The rules are functions; what they must satisfy is stated as assumptions,*)
(* which TLC evaluates over the inputs named below and over every history of*)
(* HistoryLength checks.                                                   *)
(***************************************************************************)
EXTENDS Naturals

Month == 43200       (* the longest retry delay, in minutes                *)
Year  == 365 * 24 * 60

AtMost(x, limit)  == IF x > limit THEN limit ELSE x
AtLeast(x, limit) == IF x < limit THEN limit ELSE x

\* The loop of failureRetryDelayMinutes, after the first failure: it doubles the
\* delay for each further one and ends early at either limit.
Doubled(cadence, reachedUnmaintained) ==
  LET first == [delay |-> AtLeast((cadence + 15) \div 16, 1), ended |-> FALSE]
      step(d) ==
        IF d.ended THEN d
        ELSE IF d.delay >= Month THEN [delay |-> Month, ended |-> TRUE]
        ELSE IF ~reachedUnmaintained /\ 2 * d.delay >= cadence
               THEN [delay |-> cadence, ended |-> TRUE]
        ELSE [d EXCEPT !.delay = 2 * @]
      d[n \in Nat] == IF n <= 1 THEN first ELSE step(d[n - 1])
  IN d

FailureRetryDelay(configured, failures, reachedUnmaintained) ==
  LET cadence == AtLeast(configured, 1)
      last    == Doubled(cadence, reachedUnmaintained)[failures]
  IN IF failures < 1 THEN cadence
     ELSE IF last.ended THEN last.delay
     ELSE IF ~reachedUnmaintained /\ last.delay > cadence THEN cadence
     ELSE AtMost(last.delay, Month)

\* A cadence above half an hour is stretched by a hundredth, by ten minutes at most.
Stretch(minutes) == IF minutes <= 30 THEN 0 ELSE AtMost((minutes + 50) \div 100, 10)

\* feed: the last check, the time of its source file, its hard failures and its
\* health class.
NextDueAt(feed, configured, now) ==
  LET minutes == AtLeast(configured, 1)
      base    == IF feed.checked # 0 THEN feed.checked ELSE feed.source
      next    == base + (IF feed.failures > 0
                           THEN FailureRetryDelay(minutes, feed.failures, feed.health = "unmaintained")
                           ELSE minutes + Stretch(minutes))
  IN IF feed.health = "archived" THEN now + Year
     ELSE IF configured = 0 THEN (IF feed.checked = 0 THEN now ELSE now + Year)
     ELSE IF base = 0 \/ next <= now THEN now
     ELSE next

\* DueNames, of an enabled feed.
DueNow(feed, configured, now) == NextDueAt(feed, configured, now) <= now

(***************************************************************************)
(* The inputs the rules are evaluated on: cadences at and around each      *)
(* limit, and more failures than any of them needs to reach it.            *)
(***************************************************************************)
Cadences == (0 .. 40) \cup {1440, Month - 1, Month, Month + 1, 50000, 2 * Month, 16 * Month, 20 * Month}
Failures == 0 .. 24
Now      == 100000
Feeds    == [checked : {0, 1, Now - Month, Now - 1, Now}, source : {0, Now - 5},
             failures : Failures, health : {"maintained", "unmaintained", "archived"}]

\* admin-ui/schedule-panel.md: the retry delay grows with the failure count.  One
\* more failure never brings the next attempt forward.
ASSUME DelayGrows ==
  \A c \in Cadences, n \in Failures \ {0}, r \in BOOLEAN :
    FailureRetryDelay(c, n, r) <= FailureRetryDelay(c, n + 1, r)

\* A failing feed is asked at most once a minute; a maintained one at least as
\* often as its cadence, and any other at least once a month.
ASSUME DelayBounded ==
  \A c \in Cadences, n \in Failures \ {0} :
    /\ FailureRetryDelay(c, n, FALSE) \in 1 .. AtLeast(c, 1)
    /\ FailureRetryDelay(c, n, TRUE) \in 1 .. Month

\* Up to a cadence of a month the loop computes what it is meant to: the first
\* delay doubled for each further failure, within the limit.
ASSUME DelayDoubles ==
  \A c \in Cadences \cap (1 .. Month), n \in Failures \cap (1 .. 18), r \in BOOLEAN :
    FailureRetryDelay(c, n, r) =
      AtMost(((c + 15) \div 16) * 2 ^ (n - 1), IF r THEN Month ELSE c)

\* A feed that was checked just now is not due: the fetch loop, which evaluates
\* again after every dispatch, cannot download one feed over and over.
ASSUME CheckedIsNotDue ==
  \A f \in Feeds, c \in Cadences : f.checked = Now => ~DueNow(f, c, Now)

\* The next due time is never in the past, and a feed that may still change comes
\* due within the longer of a month and its stretched cadence.
ASSUME ComesDue ==
  \A f \in Feeds, c \in Cadences :
    /\ NextDueAt(f, c, Now) >= Now
    /\ f.health # "archived" /\ c # 0 =>
         NextDueAt(f, c, Now) <= Now + AtLeast(c + Stretch(c), Month)

Failing == {"download_failed", "missing_env", "url_resolve_failed", "unavailable"}

(***************************************************************************)
(* What a check leaves in the entry.  Time passes between a check's start, *)
(* which sets checked, and its outcome, but less than a minute.            *)
(***************************************************************************)
NeverChecked == [version |-> 0, processed |-> 0, changed |-> 0, entries |-> 0,
                 checked |-> 0, failures |-> 0, since |-> 0, status |-> ""]

RecordDownloadFailure(e, now) ==
  [e EXCEPT !.since = IF e.failures = 0 \/ e.since = 0 THEN now ELSE @,
            !.failures = @ + 1]

ClearDownloadFailure(e) == [e EXCEPT !.failures = 0, !.since = 0]

RecordDownloadSourceDate(e, date) == [e EXCEPT !.changed = date]

\* What a check may find: its outcome, and the time the body it fetched is dated.
\* A body that cannot be prepared counts as a failure of its source; one that
\* cannot be kept does not, but its date stays.
Check(e, found, now) ==
  LET started == [e EXCEPT !.checked = now, !.status = found.outcome]
      fetched == RecordDownloadSourceDate(started, IF found.dated = "now" THEN now ELSE 1)
      content == IF found.outcome = "empty" THEN 0 ELSE 1
  IN CASE found.outcome \in {"download_failed", "prepare_failed"} ->
            RecordDownloadFailure(started, now)
       [] found.outcome \in {"missing_env", "disabled"} -> started
       [] found.outcome = "failed" -> fetched
       [] found.outcome = "not_modified" -> ClearDownloadFailure(started)
       [] found.outcome = "same" -> ClearDownloadFailure(fetched)
       [] found.outcome \in {"updated", "empty"} ->   (* and processed at once *)
            [ClearDownloadFailure(fetched) EXCEPT !.version = @ + 1, !.processed = now,
                                                  !.entries = content]

(***************************************************************************)
(* The class.  policy: the thresholds of the feed's category, how long a   *)
(* feed observed once is left alone, when an unavailable feed is archived, *)
(* the feed's average cadence and whether its age counts.                  *)
(***************************************************************************)
Elapsed(since, now) == IF since = 0 \/ now <= since THEN 0 ELSE now - since
Larger(x, y) == IF x > y THEN x ELSE y

NeverPublished(e) == e.version = 0 /\ e.processed = 0
ObservedUpdates(e) == IF e.version > 0 THEN e.version
                      ELSE IF e.changed > 0 \/ e.processed > 0 THEN 1 ELSE 0
LastChangeAt(e) == IF e.changed > 0 THEN e.changed ELSE e.processed

CurrentlyUnavailable(e) == e.failures > 0 \/ e.status \in Failing
FailureStartedAt(e) == IF ~CurrentlyUnavailable(e) THEN 0
                       ELSE IF e.since > 0 THEN e.since ELSE e.checked

Unmaintained(policy) == 2 * policy.risky
UnavailableThreshold(e, policy) ==
  IF ObservedUpdates(e) <= 1 THEN Larger(policy.grace, Unmaintained(policy))
  ELSE Unmaintained(policy)

GraceActive(e, policy, now) ==
  /\ ObservedUpdates(e) <= 1
  /\ Elapsed(LastChangeAt(e), now) \in 1 .. policy.grace - 1

Beyond(gap, threshold) == IF gap > threshold THEN gap - threshold ELSE 0

ClassifyAge(gap, policy) ==
  IF gap >= Unmaintained(policy) THEN "unmaintained"
  ELSE IF gap >= policy.risky THEN "risky"
  ELSE IF gap > Larger(policy.average, policy.healthy) THEN "delayed"
  ELSE "healthy"

Classify(e, policy, now) ==
  LET failing   == Elapsed(FailureStartedAt(e), now)
      stale     == Elapsed(LastChangeAt(e), now)
      threshold == UnavailableThreshold(e, policy)
      unusable  == Larger(Beyond(failing, threshold), Beyond(stale, threshold))
  IN IF NeverPublished(e) THEN "unavailable"
     ELSE IF CurrentlyUnavailable(e) /\ (failing >= threshold \/ stale >= threshold)
            THEN IF policy.archival > 0 /\ unusable >= policy.archival
                   THEN "archived" ELSE "unavailable"
     ELSE IF e.entries = 0 THEN "empty"
     ELSE IF policy.ageless \/ GraceActive(e, policy, now) THEN "healthy"
     ELSE ClassifyAge(stale, policy)

(***************************************************************************)
(* When the class last changed (pkg/engine, entity_integrity_refs.go): a   *)
(* page that shows the class and was rendered before is found stale.  0 is *)
(* no time known.                                                          *)
(***************************************************************************)
EarliestPast(times, now) ==
  LET past == {t \in times : t <= now}
  IN IF past = {} THEN 0 ELSE CHOOSE t \in past : \A u \in past : t <= u

HealthTransition(e, policy, now) ==
  LET after(since, wait) == {t + wait : t \in since \ {0}}
      change    == {LastChangeAt(e)}
      threshold == UnavailableThreshold(e, policy)
  IN CASE NeverPublished(e) -> 0
       [] OTHER ->
            CASE Classify(e, policy, now) = "delayed" ->
                   EarliestPast(after(change, Larger(policy.average, policy.healthy)), now)
              [] Classify(e, policy, now) = "risky" -> EarliestPast(after(change, policy.risky), now)
              [] Classify(e, policy, now) = "unmaintained" ->
                   EarliestPast(after(change, Unmaintained(policy)), now)
              [] Classify(e, policy, now) = "unavailable" ->
                   EarliestPast(after(change \cup {FailureStartedAt(e)}, threshold), now)
              [] Classify(e, policy, now) = "archived" ->
                   EarliestPast(after(change \cup {FailureStartedAt(e)},
                                      threshold + policy.archival), now)
              [] OTHER -> 0

(***************************************************************************)
(* The inputs: a check in each of the first minutes that finds anything,   *)
(* thresholds a few minutes wide, and a class asked for until all of them  *)
(* have passed.                                                            *)
(***************************************************************************)
HistoryLength == 4
Answered      == {"not_modified", "same", "updated", "empty"}

\* A body is dated now or in the past: in minute 1.
Finds == [outcome : {"failed", "same", "updated"}, dated : {"past", "now"}]
  \cup [outcome : {"download_failed", "prepare_failed", "missing_env", "disabled",
                   "not_modified", "empty"}, dated : {"now"}]
Histories     == [1 .. HistoryLength -> Finds]
Until         == 15

Entry(h) ==
  LET e[n \in 0 .. HistoryLength] ==
        IF n = 0 THEN NeverChecked ELSE Check(e[n - 1], h[n], n)
  IN e[HistoryLength]

Entries == {Entry(h) : h \in Histories}

\* The grace is below and above the unmaintained threshold.
Policies ==
  [healthy : {1}, risky : {2}, grace : {3, 6}, archival : {3}, average : {0, 3},
   ageless : BOOLEAN]

Rank(class) == CASE class \in {"healthy", "empty"} -> 0 [] class = "delayed" -> 1
                 [] class = "risky" -> 2 [] class = "unmaintained" -> 3
                 [] class = "unavailable" -> 4 [] class = "archived" -> 5

-----------------------------------------------------------------------------
\* A streak of failures is dated from the first one since the source last
\* answered, whatever is skipped or goes wrong locally in between.
ASSUME StreakDated ==
  \A h \in Histories :
    LET good  == {n \in DOMAIN h : h[n].outcome \in Answered}
        bad   == {n \in DOMAIN h : /\ h[n].outcome \in {"download_failed", "prepare_failed"}
                                   /\ \A g \in good : g < n}
        first == CHOOSE n \in bad : \A m \in bad : n <= m
    IN /\ (Entry(h).failures > 0) <=> (bad # {})
       /\ Entry(h).since = (IF bad = {} THEN 0 ELSE first)

\* Time alone never improves the class of a feed, whatever the order in which its
\* thresholds pass.
ASSUME OnlyChecksImprove ==
  \A e \in Entries, p \in Policies, now \in HistoryLength .. Until :
    Rank(Classify(e, p, now)) <= Rank(Classify(e, p, now + 1))

\* A published feed whose source answered last is never hidden as unavailable nor
\* given up as archived, however old its content.
ASSUME AnsweringKept ==
  \A h \in Histories :
    LET e == Entry(h)
    IN /\ ~NeverPublished(e)
       /\ \E n \in DOMAIN h : /\ h[n].outcome \in Answered
                              /\ \A m \in n + 1 .. HistoryLength :
                                   h[m].outcome \in {"failed", "disabled"}
       => \A p \in Policies, now \in HistoryLength .. Until :
            Classify(e, p, now) \notin {"unavailable", "archived"}

\* A feed is given up only after the threshold that makes it unavailable and the
\* archival threshold have passed since its last change or its first failure.
ASSUME ArchivedLate ==
  \A e \in Entries, p \in Policies, now \in HistoryLength .. Until :
    Classify(e, p, now) = "archived" =>
      /\ CurrentlyUnavailable(e)
      /\ \E since \in {LastChangeAt(e), FailureStartedAt(e)} :
           since > 0 /\ now - since >= UnavailableThreshold(e, p) + p.archival

\* New content dated now makes a feed healthy or empty at once, whatever its
\* checks left behind.
ASSUME UpdateHeals ==
  \A e \in Entries, p \in Policies, now \in HistoryLength .. Until :
    \A class \in {"healthy", "empty"} :
      LET outcome == IF class = "empty" THEN "empty" ELSE "updated"
      IN Classify(Check(e, [outcome |-> outcome, dated |-> "now"], now), p, now) = class

\* Within its grace a feed that was published once is neither called late nor
\* unavailable, even when its source fails.
ASSUME GraceProtects ==
  \A e \in Entries, p \in Policies, now \in HistoryLength .. Until :
    /\ e.version = 1
    /\ now - e.changed \in 1 .. p.grace - 1
    /\ e.since = 0 \/ now - e.since < p.grace
    => Classify(e, p, now) \in {"healthy", "empty"}

\* A page rendered before time alone changed the class of a feed is found stale,
\* whichever check came last.  Two changes are not found: to delayed, a minute
\* after the time that is taken for it, and at the end of the grace of a feed that
\* was published once, whose age has passed the other thresholds by then.
ASSUME TransitionFound ==
  \A e \in Entries, p \in Policies, now \in HistoryLength .. Until :
    Classify(e, p, now) # Classify(e, p, now + 1) =>
      (HealthTransition(e, p, now + 1) > now
         <=> /\ Classify(e, p, now + 1) # "delayed"
             /\ ~GraceActive(e, p, now) \/ Classify(e, p, now + 1) \in {"unavailable", "archived"})

\* A page rendered since the class last changed is not found stale over and over:
\* while the class stays, so does its time, and it is never in the future.
ASSUME TransitionKept ==
  \A e \in Entries, p \in Policies, now \in HistoryLength .. Until :
    /\ HealthTransition(e, p, now) <= now
    /\ HealthTransition(e, p, now) # 0 /\ Classify(e, p, now) = Classify(e, p, now + 1) =>
         HealthTransition(e, p, now + 1) = HealthTransition(e, p, now)
=============================================================================
