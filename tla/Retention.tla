------------------------------ MODULE Retention ------------------------------
(***************************************************************************)
(* How long the addresses of a feed have been listed                       *)
(* (pkg/engine/retention_update.go, finalize.go, runtime_ledger_cache.go). *)
(*                                                                         *)
(* Processing a body compares it with the latest set, replaces that set,   *)
(* commits the body and then brings the retention ledgers up to date:      *)
(* lib/<feed>/new/<time> is the cohort of the addresses whose listing      *)
(* began with the body of that time, changesets.csv records every change,  *)
(* retention.csv what left a cohort, and retention_cohorts.csv and a copy   *)
(* in memory count the cohorts.                                            *)
(* Each file is replaced atomically, but they are replaced one by one: any *)
(* step may fail, and the daemon may stop between any two of them.  The    *)
(* body is processed again then, against the latest set it finds.          *)
(***************************************************************************)
EXTENDS Integers, FiniteSets

CONSTANTS
  Addrs,
  Times,      (* modification times of bodies                               *)
  MaxFaults,  (* bound: failed, interrupted or misled updates               *)
  MaxRepeats  (* bound: bodies with the time of an earlier one              *)

ASSUME RetentionAssumption ==
  /\ IsFiniteSet(Addrs)
  /\ Times \subseteq Nat \ {0}
  /\ MaxFaults \in Nat /\ MaxRepeats \in Nat

Bodies == [set : SUBSET Addrs, time : Times]
None   == [set |-> {}, time |-> 0]   (* no file *)

VARIABLES
  claimed,    (* <feed>.processing                                          *)
  committed,  (* <feed>.ipset                                               *)
  latest,     (* lib/<feed>/latest                                          *)
  balance,    (* changesets.csv: all lines added up                         *)
  cohorts,    (* lib/<feed>/new: an empty cohort has no file                *)
  gone,       (* retention.csv: what left each cohort, all lines added up   *)
  index,      (* retention_cohorts.csv                                      *)
  memory,     (* feedLedgerState: cohortsLoaded, cohorts                    *)
  run,        (* the update of the feed                                     *)
  since,      (* history: where the present listing of an address began     *)
  entered,    (* history: the addresses ever written to a cohort            *)
  bodies,     (* history: what the bodies of a time contained               *)
  faults, repeats

files   == <<claimed, committed, latest, balance, cohorts, gone, index>>
history == <<since, entered, bodies>>
bounds  == <<faults, repeats>>
vars    == <<files, memory, run, history, bounds>>

Phases == {"idle", "diffed", "finalizing", "committed", "recorded", "stored",
           "reconcile", "rewrite", "outputs", "replace"}

Runs == [at : Phases, body : Bodies \cup {None}, added : SUBSET Addrs, removed : Nat,
         left : SUBSET Times, result : [Times -> Nat]]

noCounts == [t \in Times |-> 0]

noRun == [at |-> "idle", body |-> None, added |-> {}, removed |-> 0, left |-> {},
          result |-> noCounts]

Init ==
  /\ claimed = None
  /\ committed = None
  /\ latest = {}
  /\ balance = 0
  /\ cohorts = [t \in Times |-> {}]
  /\ gone = noCounts
  /\ index = noCounts
  /\ memory = [loaded |-> FALSE, counts |-> noCounts]
  /\ run = noRun
  /\ since = [a \in Addrs |-> 0]
  /\ entered = [t \in Times |-> {}]
  /\ bodies = [t \in Times |-> {}]
  /\ faults = 0
  /\ repeats = 0

\* The time of a body is what its source says: it need not be later than that
\* of the body before, nor differ from it.
Claim(set, time) ==
  /\ run.at = "idle" /\ claimed = None
  /\ repeats' = repeats + (IF bodies[time] = {} THEN 0 ELSE 1)
  /\ repeats' <= MaxRepeats
  /\ claimed' = [set |-> set, time |-> time]
  /\ bodies' = [bodies EXCEPT ![time] = @ \cup set]
  /\ UNCHANGED <<committed, latest, balance, cohorts, gone, index, memory, run, since, entered, faults>>

(***************************************************************************)
(* Processing: the difference is taken before latest is replaced.          *)
(***************************************************************************)
Source == IF claimed # None THEN claimed ELSE committed

Diff(previous) ==
  [noRun EXCEPT !.at      = "diffed",
                !.body    = Source,
                !.added   = Source.set \ previous,
                !.removed = Cardinality(previous \ Source.set)]

Begin ==
  /\ run.at = "idle" /\ Source # None
  /\ run' = Diff(latest)
  /\ UNCHANGED <<files, memory, history, bounds>>

\* A latest set that cannot be read counts as none: "treating as first run".
BeginUnreadable ==
  /\ run.at = "idle" /\ Source # None
  /\ faults < MaxFaults
  /\ faults' = faults + 1
  /\ run' = Diff({})
  /\ UNCHANGED <<files, memory, history, repeats>>

Step(from, to) == run.at = from /\ run' = [run EXCEPT !.at = to]

WriteLatest ==
  /\ Step("diffed", "finalizing")
  /\ latest' = run.body.set
  /\ since' = [a \in Addrs |-> IF a \notin run.body.set THEN 0
                               ELSE IF a \in latest THEN since[a]
                               ELSE run.body.time]
  /\ UNCHANGED <<claimed, committed, balance, cohorts, gone, index, memory, entered, bodies, bounds>>

WriteCommitted ==
  /\ Step("finalizing", "committed")
  /\ committed' = run.body
  /\ claimed' = None
  /\ UNCHANGED <<latest, balance, cohorts, gone, index, memory, history, bounds>>

(***************************************************************************)
(* updateRetention                                                         *)
(***************************************************************************)
\* An update that changes nothing leaves no line.
AppendChange ==
  /\ Step("committed", "recorded")
  /\ balance' = balance + Cardinality(run.added) - run.removed
  /\ UNCHANGED <<claimed, committed, latest, cohorts, gone, index, memory, history, bounds>>

StoreCohortIn(time, addresses) ==
  /\ Step("recorded", "stored")
  /\ cohorts' = [cohorts EXCEPT ![time] = addresses]
  /\ entered' = [entered EXCEPT ![time] = @ \cup addresses]
  /\ UNCHANGED <<claimed, committed, latest, balance, gone, index, memory, since, bodies, bounds>>

\* Faulty variant: the whole set is the new cohort.
StoreWholeSet == StoreCohortIn(run.body.time, run.body.set)

\* recordRetentionDelta
StoreCohort ==
  StoreCohortIn(run.body.time,
                IF run.added = {} THEN cohorts[run.body.time] ELSE run.added)

Counts == [t \in Times |-> Cardinality(cohorts[t])]

\* loadRetentionCohorts: an index without lines counts as none.
Loaded ==
  IF memory.loaded THEN memory.counts
  ELSE IF index # noCounts THEN index
  ELSE Counts

Load == memory' = [loaded |-> TRUE, counts |-> Loaded]

\* refreshRetentionWithoutRemovals: the counts of before, and the new cohort,
\* which they include already if they had to be taken from the files.
AddToCounts ==
  /\ run.removed = 0
  /\ run.at = "stored"
  /\ Load
  /\ run' = [run EXCEPT !.at = "outputs",
                        !.result = [Loaded EXCEPT ![run.body.time] = @ + Cardinality(run.added)]]
  /\ UNCHANGED <<files, history, bounds>>

\* reconcileRetentionCohorts reads the directory and looks at every cohort.
Reconcile ==
  /\ run.removed > 0
  /\ run.at = "stored"
  /\ run' = [run EXCEPT !.at = "reconcile", !.left = {t \in Times : cohorts[t] # {}}]
  /\ UNCHANGED <<files, memory, history, bounds>>

First(t) == t \in run.left /\ \A u \in run.left : t <= u

Still(t) == cohorts[t] \cap run.body.set

KeepCohort(t) ==
  /\ run.at = "reconcile" /\ First(t)
  /\ Still(t) = cohorts[t]
  /\ run' = [run EXCEPT !.left = @ \ {t}, !.result[t] = Cardinality(cohorts[t])]
  /\ UNCHANGED <<files, memory, history, bounds>>

\* Faulty variants: the cohort is rewritten before what left it is recorded;
\* it is done with once that is recorded.
RecordRemovalLate(t) ==
  /\ run.at = "reconcile" /\ First(t)
  /\ Still(t) # cohorts[t]
  /\ cohorts' = [cohorts EXCEPT ![t] = Still(t)]
  /\ run' = [run EXCEPT !.at = "rewrite"]
  /\ UNCHANGED <<claimed, committed, latest, balance, gone, index, memory, history, bounds>>

RecordRemovalAndGoOn(t) ==
  /\ run.at = "reconcile" /\ First(t)
  /\ Still(t) # cohorts[t]
  /\ gone' = [gone EXCEPT ![t] = @ + Cardinality(cohorts[t] \ Still(t))]
  /\ run' = [run EXCEPT !.at = "rewrite", !.left = @ \ {t}]
  /\ UNCHANGED <<claimed, committed, latest, balance, cohorts, index, memory, history, bounds>>

\* recordRetentionRemoval
RecordRemoval(t) ==
  /\ run.at = "reconcile" /\ First(t)
  /\ Still(t) # cohorts[t]
  /\ gone' = [gone EXCEPT ![t] = @ + Cardinality(cohorts[t] \ Still(t))]
  /\ run' = [run EXCEPT !.at = "rewrite"]
  /\ UNCHANGED <<claimed, committed, latest, balance, cohorts, index, memory, history, bounds>>

\* Faulty variant: the count is that of the cohort as it was.
RewriteCohortOldCount(t) ==
  /\ run.at = "rewrite" /\ First(t)
  /\ cohorts' = [cohorts EXCEPT ![t] = Still(t)]
  /\ run' = [run EXCEPT !.at = "reconcile", !.left = @ \ {t},
                        !.result[t] = Cardinality(cohorts[t])]
  /\ UNCHANGED <<claimed, committed, latest, balance, gone, index, memory, history, bounds>>

\* writeBinaryPath, or removeRetentionCohortFile if nothing is left.
RewriteCohort(t) ==
  /\ run.at = "rewrite" /\ First(t)
  /\ cohorts' = [cohorts EXCEPT ![t] = Still(t)]
  /\ run' = [run EXCEPT !.at = "reconcile", !.left = @ \ {t},
                        !.result[t] = Cardinality(Still(t))]
  /\ UNCHANGED <<claimed, committed, latest, balance, gone, index, memory, history, bounds>>

Reconciled ==
  /\ Step("reconcile", "outputs")
  /\ run.left = {}
  /\ UNCHANGED <<files, memory, history, bounds>>

\* writeRetentionOutputs
WriteIndex ==
  /\ Step("outputs", "replace")
  /\ index' = run.result
  /\ UNCHANGED <<claimed, committed, latest, balance, cohorts, gone, memory, history, bounds>>

\* replaceRetentionCohorts
Replace ==
  /\ run.at = "replace"
  /\ run' = noRun
  /\ memory' = [loaded |-> TRUE, counts |-> run.result]
  /\ UNCHANGED <<files, history, bounds>>

(***************************************************************************)
(* Others.                                                                 *)
(***************************************************************************)
\* queryMatchFirstSeen loads the counts like an update does.
Query ==
  /\ Load
  /\ UNCHANGED <<files, run, history, bounds>>

\* A step fails: its file is as it was, and the body will be processed again.
Fail ==
  /\ run.at # "idle" /\ faults < MaxFaults
  /\ faults' = faults + 1
  /\ run' = noRun
  /\ UNCHANGED <<files, memory, history, repeats>>

\* The cohorts it looks into and finds the address in: it answers the first.
FoundIn(a) == {t \in Times : Loaded[t] > 0 /\ a \in cohorts[t]}

\* The daemon stops and starts again.
Restart ==
  /\ run.at = "idle" \/ faults < MaxFaults
  /\ faults' = IF run.at = "idle" THEN faults ELSE faults + 1
  /\ run' = noRun
  /\ memory' = [loaded |-> FALSE, counts |-> noCounts]
  /\ UNCHANGED <<files, history, repeats>>

Update ==
  \/ WriteLatest \/ WriteCommitted \/ AppendChange \/ StoreCohort \/ AddToCounts \/ Reconcile
  \/ \E t \in Times : KeepCohort(t) \/ RecordRemoval(t) \/ RewriteCohort(t)
  \/ Reconciled \/ WriteIndex \/ Replace

Next ==
  \/ \E set \in SUBSET Addrs, time \in Times : Claim(set, time)
  \/ Begin \/ BeginUnreadable
  \/ Update
  \/ Query
  \/ Fail
  \/ Restart

Spec == Init /\ [][Next]_vars

(***************************************************************************)
(* Properties.                                                             *)
(***************************************************************************)
\* Types; and a cohort that is being rewritten is still among those left.
TypeOK ==
  /\ claimed \in Bodies \cup {None} /\ committed \in Bodies \cup {None}
  /\ latest \in SUBSET Addrs
  /\ balance \in Int
  /\ cohorts \in [Times -> SUBSET Addrs]
  /\ gone \in [Times -> Nat]
  /\ index \in [Times -> Nat]
  /\ memory \in [loaded : BOOLEAN, counts : [Times -> Nat]]
  /\ run \in Runs
  /\ since \in [Addrs -> Times \cup {0}]
  /\ entered \in [Times -> SUBSET Addrs]
  /\ bodies \in [Times -> SUBSET Addrs]
  /\ faults \in 0..MaxFaults /\ repeats \in 0..MaxRepeats
  /\ run.at # "idle" => run.body # None
  /\ run.at = "rewrite" => run.left # {}

Calm == faults = 0 /\ repeats = 0

\* The cohorts partition the listed addresses by the time their present listing
\* began, a query finds each address there and nowhere else, and the changes add
\* up to the size of the set.
Partitioned == \A t \in Times : cohorts[t] = {a \in latest : since[a] = t}
Found       == \A a \in latest : FoundIn(a) = {since[a]}
Balanced    == balance = Cardinality(latest)

\* The ledgers agree with the set as long as no update failed and no time came
\* back: whatever enters, leaves and returns, however often the daemon is
\* restarted, whoever loaded the counts, and when.
LedgersAgree == Calm /\ run.at = "idle" => Partitioned /\ Found /\ Balanced

\* Whatever failed before, an update that removes something repairs the cohorts
\* and their index: no cohort holds what is not listed, and the counts are right.
Heals ==
  run.at = "replace" /\ run.removed > 0 =>
    \A t \in Times : cohorts[t] \subseteq latest /\ index[t] = Cardinality(cohorts[t])

\* Nothing leaves a cohort without a line in retention.csv, even if the daemon
\* stops half-way; some may be recorded twice then.
RemovalsRecorded ==
  repeats = 0 => \A t \in Times : Cardinality(entered[t] \ cohorts[t]) <= gone[t]
=============================================================================
