-------------------------- MODULE RetentionProofs ---------------------------
(***************************************************************************)
(* Proofs about Retention, for every finite set of addresses, every set of *)
(* times and every bound on faults and repeated times.                     *)
(***************************************************************************)
EXTENDS Retention, FiniteSetTheorems, TLAPS

(***************************************************************************)
(* Counting addresses.                                                     *)
(***************************************************************************)
\* Sets of addresses are finite, and only the empty one counts as zero.
LEMMA Count ==
  ASSUME NEW S \in SUBSET Addrs
  PROVE  IsFiniteSet(S) /\ Cardinality(S) \in Nat /\ (Cardinality(S) = 0 <=> S = {})
<1>1. IsFiniteSet(S)
      BY RetentionAssumption, FS_Subset
<1> QED BY <1>1, FS_CardinalityType, FS_EmptySet

\* What is taken from a set and what is left of it add up.
LEMMA CountParts ==
  ASSUME NEW S \in SUBSET Addrs, NEW T \in SUBSET S
  PROVE  Cardinality(S) = Cardinality(T) + Cardinality(S \ T)
<1>1. IsFiniteSet(S)
      BY Count
<1>2. Cardinality(S \ T) = Cardinality(S) - Cardinality(S \cap T)
      BY <1>1, FS_Difference
<1>3. S \cap T = T
      OBVIOUS
<1>4. Cardinality(S) \in Nat /\ Cardinality(T) \in Nat
      BY Count, T \in SUBSET Addrs
<1>5. Cardinality(S \cap T) = Cardinality(T)
      BY <1>3, Zenon
<1> QED BY <1>2, <1>4, <1>5

\* A set and one it is replaced by differ by what came less what went.
LEMMA CountChange ==
  ASSUME NEW S \in SUBSET Addrs, NEW T \in SUBSET Addrs
  PROVE  Cardinality(T) = Cardinality(S) + Cardinality(T \ S) - Cardinality(S \ T)
<1>1. /\ Cardinality(T) = Cardinality(S \cap T) + Cardinality(T \ (S \cap T))
      /\ Cardinality(S) = Cardinality(S \cap T) + Cardinality(S \ (S \cap T))
      BY CountParts, S \cap T \in SUBSET S, S \cap T \in SUBSET T
<1>2. T \ (S \cap T) = T \ S /\ S \ (S \cap T) = S \ T
      OBVIOUS
<1>3. /\ Cardinality(S \cap T) \in Nat /\ Cardinality(T \ S) \in Nat
      /\ Cardinality(S \ T) \in Nat
      BY Count, S \cap T \in SUBSET Addrs, T \ S \in SUBSET Addrs, S \ T \in SUBSET Addrs
<1> QED BY <1>1, <1>2, <1>3

(***************************************************************************)
(* Types.                                                                  *)
(***************************************************************************)
LEMMA InitTyped == Init => TypeOK
<1> SUFFICES ASSUME Init PROVE TypeOK
    OBVIOUS
<1>1. noRun \in Runs /\ noRun.at = "idle"
      BY DEF noRun, Runs, Phases, noCounts
<1> QED BY <1>1, RetentionAssumption DEF Init, TypeOK, noCounts, None, Bodies

LEMMA SourceTyped ==
  ASSUME TypeOK
  PROVE  /\ Source \in Bodies \cup {None} /\ Source.set \in SUBSET Addrs
         /\ run.body \in Bodies \cup {None} /\ run.body.set \in SUBSET Addrs
         /\ run.body # None => run.body.time \in Times
  BY DEF TypeOK, Source, Bodies, None, Runs

LEMMA CountsTyped ==
  ASSUME TypeOK
  PROVE  Counts \in [Times -> Nat] /\ Loaded \in [Times -> Nat]
<1>1. Counts \in [Times -> Nat]
      BY Count DEF Counts, TypeOK
<1> QED BY <1>1 DEF TypeOK, Loaded

\* A step that only moves the run on to a phase other than rewriting.
LEMMA StepTyped ==
  ASSUME TypeOK, NEW from, from # "idle", NEW to \in Phases, to # "rewrite", Step(from, to)
  PROVE  run' \in Runs /\ run'.at = to /\ run'.body # None
<1>1. run \in Runs /\ run.body # None
      BY DEF TypeOK, Step
<1>2. [run EXCEPT !.at = to] \in Runs
      BY <1>1 DEF Runs
<1> QED BY <1>1, <1>2 DEF Step, Runs

LEMMA DiffTyped ==
  ASSUME TypeOK, NEW S \in SUBSET Addrs
  PROVE  /\ Diff(S) \in Runs
         /\ Diff(S).at = "diffed" /\ Diff(S).body = Source
         /\ Diff(S).added = Source.set \ S
         /\ Diff(S).removed = Cardinality(S \ Source.set)
         /\ Diff(S).left = {} /\ Diff(S).result = noCounts
<1> DEFINE b == Source
           d == Source.set \ S
           c == Cardinality(S \ Source.set)
<1>1. c \in Nat
      BY Count, S \ Source.set \in SUBSET Addrs
<1>2. d \in SUBSET Addrs /\ b \in Bodies \cup {None}
      BY SourceTyped
<1>3. noRun \in Runs /\ noRun.left = {} /\ noRun.result = noCounts
      BY DEF noRun, Runs, Phases, noCounts
<1>4. Diff(S) = [noRun EXCEPT !.at = "diffed", !.body = b, !.added = d, !.removed = c]
      BY DEF Diff
<1> HIDE DEF b, d, c
<1>5. /\ Diff(S) \in Runs /\ Diff(S).at = "diffed" /\ Diff(S).body = b /\ Diff(S).added = d
      /\ Diff(S).removed = c /\ Diff(S).left = {} /\ Diff(S).result = noCounts
      BY <1>1, <1>2, <1>3, <1>4 DEF Runs, Phases
<1> QED BY <1>5 DEF b, d, c

\* The fields of an update.
LEMMA Fields ==
  ASSUME NEW r \in Runs
  PROVE  /\ r.at \in Phases /\ r.body \in Bodies \cup {None} /\ r.added \in SUBSET Addrs
         /\ r.removed \in Nat /\ r.left \in SUBSET Times /\ r.result \in [Times -> Nat]
  BY DEF Runs

\* An update that has looked at a cohort, or starts to.
LEMMA LeftTyped ==
  ASSUME TypeOK, NEW at \in Phases, NEW left \in SUBSET Times, NEW result \in [Times -> Nat]
  PROVE  /\ [run EXCEPT !.at = at, !.left = left, !.result = result] \in Runs
         /\ [run EXCEPT !.at = at, !.left = left] \in Runs
         /\ [run EXCEPT !.left = left, !.result = result] \in Runs
         /\ [run EXCEPT !.at = at, !.result = result] \in Runs
         /\ [run EXCEPT !.at = at] \in Runs
  BY DEF TypeOK, Runs

\* Each step of an update keeps the types.
LEMMA UpdateTyped ==
  ASSUME TypeOK, Update
  PROVE  TypeOK'
<1> USE DEF TypeOK
<1>0. run \in Runs
      OBVIOUS
<1>1. CASE WriteLatest
      <2>1. run'.at = "finalizing" /\ run' \in Runs /\ run'.body # None
            BY <1>1, StepTyped DEF WriteLatest, Phases
      <2>2. latest' \in SUBSET Addrs /\ since' \in [Addrs -> Times \cup {0}]
            <3>1. run.body # None /\ run.body.time \in Times
                  BY <1>1, SourceTyped DEF WriteLatest, Step
            <3> QED BY <1>1, <3>1, SourceTyped DEF WriteLatest
      <2> QED BY <1>1, <2>1, <2>2 DEF WriteLatest, bounds
<1>2. CASE WriteCommitted
      <2>1. run'.at = "committed" /\ run' \in Runs /\ run'.body # None
            BY <1>2, StepTyped DEF WriteCommitted, Phases
      <2> QED BY <1>2, <2>1, Fields DEF WriteCommitted, history, bounds
<1>3. CASE AppendChange
      <2>1. run'.at = "recorded" /\ run' \in Runs /\ run'.body # None
            BY <1>3, StepTyped DEF AppendChange, Phases
      <2>2. Cardinality(run.added) \in Nat /\ run.removed \in Nat
            BY Count, Fields
      <2>3. balance' \in Int
            BY <1>3, <2>2 DEF AppendChange
      <2> QED BY <1>3, <2>1, <2>3 DEF AppendChange, history, bounds
<1>4. CASE StoreCohort
      <2>1. run'.at = "stored" /\ run' \in Runs /\ run'.body # None /\ run.body.time \in Times
            BY <1>4, StepTyped, SourceTyped DEF StoreCohort, StoreCohortIn, Phases, Step
      <2>2. PICK S \in SUBSET Addrs : StoreCohortIn(run.body.time, S)
            BY <1>4, <2>1, Fields DEF StoreCohort
      <2> QED BY <2>1, <2>2 DEF StoreCohortIn, bounds
<1>5. CASE AddToCounts
      <2> DEFINE sum == [Loaded EXCEPT ![run.body.time] = @ + Cardinality(run.added)]
      <2>1. sum \in [Times -> Nat]
            <3> DEFINE c == Cardinality(run.added)
            <3>1. c \in Nat /\ Loaded \in [Times -> Nat]
                  BY CountsTyped, Count, Fields
            <3> HIDE DEF c
            <3>2. run.body.time \in Times
                  BY <1>5, SourceTyped DEF AddToCounts
            <3>3. [Loaded EXCEPT ![run.body.time] = @ + c] \in [Times -> Nat]
                  BY <3>1, <3>2
            <3> QED BY <3>3 DEF c
      <2>2. run' = [run EXCEPT !.at = "outputs", !.result = sum]
            BY <1>5 DEF AddToCounts
      <2> HIDE DEF sum
      <2>3. run' \in Runs
            BY <2>1, <2>2, LeftTyped DEF Phases
      <2>4. run'.at = "outputs" /\ run'.body = run.body
            BY <2>2 DEF Runs
      <2>5. run.body # None
            BY <1>5 DEF AddToCounts
      <2> QED BY <1>5, <2>3, <2>4, <2>5, CountsTyped DEF AddToCounts, Load, files, history, bounds
<1>6. CASE Reconcile
      <2>1. run' \in Runs /\ run'.at = "reconcile" /\ run'.body = run.body
            BY <1>6 DEF Reconcile, Runs, Phases
      <2> QED BY <1>6, <2>1 DEF Reconcile, files, history, bounds
<1>7. ASSUME NEW t \in Times, KeepCohort(t)
      PROVE  TypeOK'
      <2>1. Cardinality(cohorts[t]) \in Nat
            BY Count
      <2>2. run' \in Runs /\ run'.at = "reconcile" /\ run'.body = run.body
            BY <1>7, <2>1 DEF KeepCohort, Runs, Phases
      <2> QED BY <1>7, <2>2 DEF KeepCohort, files, history, bounds
<1>8. ASSUME NEW t \in Times, RecordRemoval(t)
      PROVE  TypeOK'
      <2>1. Cardinality(cohorts[t] \ Still(t)) \in Nat
            BY Count, cohorts[t] \ Still(t) \in SUBSET Addrs
      <2>2. gone' \in [Times -> Nat]
            BY <1>8, <2>1 DEF RecordRemoval
      <2>3. run' \in Runs /\ run'.at = "rewrite" /\ run'.body = run.body /\ run'.left = run.left
            BY <1>8 DEF RecordRemoval, Runs, Phases
      <2>4. run.left # {} /\ run.body # None
            BY <1>8 DEF RecordRemoval, First
      <2> QED BY <1>8, <2>2, <2>3, <2>4 DEF RecordRemoval, history, bounds
<1>9. ASSUME NEW t \in Times, RewriteCohort(t)
      PROVE  TypeOK'
      <2>1. Cardinality(Still(t)) \in Nat /\ Still(t) \in SUBSET Addrs
            BY Count, Still(t) \in SUBSET Addrs DEF Still
      <2>2. run' \in Runs /\ run'.at = "reconcile" /\ run'.body = run.body
            BY <1>9, <2>1 DEF RewriteCohort, Runs, Phases
      <2>3. run.body # None /\ cohorts' \in [Times -> SUBSET Addrs]
            BY <1>9, <2>1 DEF RewriteCohort
      <2> QED BY <1>9, <2>2, <2>3 DEF RewriteCohort, history, bounds
<1>10. CASE Reconciled
      <2>1. run'.at = "outputs" /\ run' \in Runs /\ run'.body # None
            BY <1>10, StepTyped DEF Reconciled, Phases
      <2> QED BY <1>10, <2>1 DEF Reconciled, files, history, bounds
<1>11. CASE WriteIndex
      <2>1. run'.at = "replace" /\ run' \in Runs /\ run'.body # None
            BY <1>11, StepTyped DEF WriteIndex, Phases
      <2> QED BY <1>11, <2>1, Fields DEF WriteIndex, history, bounds
<1>12. CASE Replace
      <2>1. noRun \in Runs /\ noRun.at = "idle"
            BY DEF noRun, Runs, Phases, noCounts
      <2> QED BY <1>12, <2>1, Fields DEF Replace, files, history, bounds
<1> QED BY <1>1, <1>2, <1>3, <1>4, <1>5, <1>6, <1>7, <1>8, <1>9, <1>10, <1>11, <1>12 DEF Update

LEMMA NextTyped == TypeOK /\ [Next]_vars => TypeOK'
<1> SUFFICES ASSUME TypeOK, [Next]_vars PROVE TypeOK'
    OBVIOUS
<1>0. noRun \in Runs /\ noRun.at = "idle" /\ noCounts \in [Times -> Nat]
      BY DEF noRun, Runs, Phases, noCounts
<1>1. ASSUME NEW set \in SUBSET Addrs, NEW time \in Times, Claim(set, time)
      PROVE  TypeOK'
      <2>1. repeats' \in 0..MaxRepeats
            BY <1>1, RetentionAssumption DEF Claim, TypeOK
      <2>2. claimed' \in Bodies
            BY <1>1 DEF Claim, Bodies
      <2> QED BY <1>1, <2>1, <2>2 DEF Claim, TypeOK
<1>2. ASSUME Begin \/ BeginUnreadable
      PROVE  TypeOK'
      <2>1. PICK S \in SUBSET Addrs : run' = Diff(S) /\ Source # None
            BY <1>2 DEF Begin, BeginUnreadable, TypeOK
      <2>2. run' \in Runs /\ run'.at = "diffed" /\ run'.body # None
            BY <2>1, DiffTyped
      <2>3. faults' \in 0..MaxFaults
            BY <1>2, RetentionAssumption DEF Begin, BeginUnreadable, TypeOK, bounds
      <2> QED BY <1>2, <2>2, <2>3 DEF Begin, BeginUnreadable, TypeOK, files, history, bounds
<1>3. CASE Update
      BY <1>3, UpdateTyped
<1>4. CASE Query
      BY <1>4, CountsTyped DEF Query, Load, TypeOK, files, history, bounds
<1>5. CASE Fail
      BY <1>5, <1>0, RetentionAssumption DEF Fail, TypeOK, files, history
<1>6. CASE Restart
      BY <1>6, <1>0, RetentionAssumption DEF Restart, TypeOK, files, history
<1>7. CASE UNCHANGED vars
      BY <1>7 DEF vars, files, history, bounds, TypeOK
<1> QED BY <1>1, <1>2, <1>3, <1>4, <1>5, <1>6, <1>7 DEF Next

\* Files, ledgers and updates keep their types, and a cohort that is being
\* rewritten is among those left.
THEOREM TypeCorrect == Spec => []TypeOK
BY InitTyped, NextTyped, PTL DEF Spec

(***************************************************************************)
(* What an update repairs.                                                 *)
(***************************************************************************)
\* The body an update works on stays the one to be processed until the update
\* ends, and the latest set is that of the committed body unless a claimed one
\* is about to follow it.
Base ==
  /\ claimed = None => latest = committed.set
  /\ run.at # "idle" => run.body = Source
  /\ run.at \notin {"idle", "diffed"} => latest = run.body.set
  /\ run.at \notin {"idle", "diffed", "finalizing"} => claimed = None
  /\ run.at \in {"diffed", "finalizing", "committed", "recorded", "stored"} =>
       run.result = noCounts
  /\ run.added \subseteq run.body.set

\* A cohort the update is done with.
Right(t) == cohorts[t] \subseteq latest /\ run.result[t] = Cardinality(cohorts[t])

Healed ==
  /\ run.at \in {"reconcile", "rewrite"} =>
       run.removed > 0 /\ \A t \in Times : t \notin run.left => Right(t)
  /\ run.at \in {"outputs", "replace"} /\ run.removed > 0 => \A t \in Times : Right(t)
  /\ run.at = "replace" => index = run.result

LEMMA InitBase == Init => Base /\ Healed
  BY DEF Init, Base, Healed, noRun, None

\* A step of an update moves on and keeps the rest of the record.
LEMMA StepFields ==
  ASSUME TypeOK, NEW from, NEW to \in Phases, Step(from, to)
  PROVE  /\ run.at = from /\ run'.at = to /\ run'.body = run.body
         /\ run'.added = run.added /\ run'.removed = run.removed
         /\ run'.left = run.left /\ run'.result = run.result
  BY DEF TypeOK, Step, Runs

\* The other steps of an update.
LEMMA RunFields ==
  ASSUME TypeOK
  PROVE  /\ AddToCounts =>
              /\ run'.at = "outputs" /\ run'.body = run.body /\ run'.added = run.added
              /\ run'.removed = run.removed /\ run'.left = run.left
              /\ run'.result
                 = [Loaded EXCEPT ![run.body.time] = @ + Cardinality(run.added)]
         /\ Reconcile =>
              /\ run'.at = "reconcile" /\ run'.body = run.body /\ run'.added = run.added
              /\ run'.removed = run.removed /\ run'.result = run.result
              /\ run'.left = {t \in Times : cohorts[t] # {}}
         /\ \A t \in Times :
              /\ KeepCohort(t) =>
                   /\ run'.at = "reconcile" /\ run'.body = run.body /\ run'.added = run.added
                   /\ run'.removed = run.removed /\ run'.left = run.left \ {t}
                   /\ run'.result = [run.result EXCEPT ![t] = Cardinality(cohorts[t])]
              /\ RecordRemoval(t) =>
                   /\ run'.at = "rewrite" /\ run'.body = run.body /\ run'.added = run.added
                   /\ run'.removed = run.removed /\ run'.left = run.left
                   /\ run'.result = run.result
              /\ RewriteCohort(t) =>
                   /\ run'.at = "reconcile" /\ run'.body = run.body /\ run'.added = run.added
                   /\ run'.removed = run.removed /\ run'.left = run.left \ {t}
                   /\ run'.result = [run.result EXCEPT ![t] = Cardinality(Still(t))]
<1> run \in Runs
    BY DEF TypeOK
<1>1. ASSUME AddToCounts
      PROVE  /\ run'.at = "outputs" /\ run'.body = run.body /\ run'.added = run.added
             /\ run'.removed = run.removed /\ run'.left = run.left
             /\ run'.result = [Loaded EXCEPT ![run.body.time] = @ + Cardinality(run.added)]
      <2> DEFINE sum == [Loaded EXCEPT ![run.body.time] = @ + Cardinality(run.added)]
      <2>1. run' = [run EXCEPT !.at = "outputs", !.result = sum]
            BY <1>1 DEF AddToCounts
      <2> HIDE DEF sum
      <2>2. /\ run'.at = "outputs" /\ run'.body = run.body /\ run'.added = run.added
            /\ run'.removed = run.removed /\ run'.left = run.left /\ run'.result = sum
            BY <2>1 DEF Runs
      <2> QED BY <2>2 DEF sum
<1>2. Reconcile => /\ run'.at = "reconcile" /\ run'.body = run.body /\ run'.added = run.added
                   /\ run'.removed = run.removed /\ run'.result = run.result
                   /\ run'.left = {t \in Times : cohorts[t] # {}}
      BY DEF Reconcile, Runs
<1>3. ASSUME NEW t \in Times
      PROVE  /\ KeepCohort(t) =>
                   /\ run'.at = "reconcile" /\ run'.body = run.body /\ run'.added = run.added
                   /\ run'.removed = run.removed /\ run'.left = run.left \ {t}
                   /\ run'.result = [run.result EXCEPT ![t] = Cardinality(cohorts[t])]
             /\ RecordRemoval(t) =>
                   /\ run'.at = "rewrite" /\ run'.body = run.body /\ run'.added = run.added
                   /\ run'.removed = run.removed /\ run'.left = run.left
                   /\ run'.result = run.result
             /\ RewriteCohort(t) =>
                   /\ run'.at = "reconcile" /\ run'.body = run.body /\ run'.added = run.added
                   /\ run'.removed = run.removed /\ run'.left = run.left \ {t}
                   /\ run'.result = [run.result EXCEPT ![t] = Cardinality(Still(t))]
      BY DEF KeepCohort, RecordRemoval, RewriteCohort, Runs
<1> QED BY <1>1, <1>2, <1>3

LEMMA UpdateHeals ==
  ASSUME TypeOK, Base, Healed, Update
  PROVE  Base' /\ Healed'
<1> USE DEF Base, Healed, Right
<1>0. /\ claimed \in Bodies \cup {None} /\ run \in Runs /\ cohorts \in [Times -> SUBSET Addrs]
      BY DEF TypeOK
<1>1. CASE WriteLatest
      <2>1. /\ run.at = "diffed" /\ run'.at = "finalizing" /\ run'.body = run.body
            /\ run'.added = run.added /\ run'.result = run.result
            BY <1>1, StepFields DEF WriteLatest, Phases
      <2> QED BY <1>1, <2>1 DEF WriteLatest, Source
<1>2. CASE WriteCommitted
      <2>1. /\ run.at = "finalizing" /\ run'.at = "committed" /\ run'.body = run.body
            /\ run'.added = run.added /\ run'.result = run.result
            BY <1>2, StepFields DEF WriteCommitted, Phases
      <2> QED BY <1>2, <2>1 DEF WriteCommitted, Source
<1>3. CASE AppendChange
      <2>1. /\ run.at = "committed" /\ run'.at = "recorded" /\ run'.body = run.body
            /\ run'.added = run.added /\ run'.result = run.result
            BY <1>3, StepFields DEF AppendChange, Phases
      <2> QED BY <1>3, <2>1 DEF AppendChange, Source
<1>4. CASE StoreCohort
      <2>1. /\ run.at = "recorded" /\ run'.at = "stored" /\ run'.body = run.body
            /\ run'.added = run.added /\ run'.result = run.result
            BY <1>4, StepFields DEF StoreCohort, StoreCohortIn, Phases
      <2> QED BY <1>4, <2>1 DEF StoreCohort, StoreCohortIn, Source
<1>5. CASE AddToCounts
      <2>1. run.at = "stored" /\ run.removed = 0 /\ UNCHANGED files
            BY <1>5 DEF AddToCounts
      <2> QED BY <1>5, <2>1, RunFields DEF files, Source
<1>6. CASE Reconcile
      <2>1. run.at = "stored" /\ run.removed > 0 /\ UNCHANGED files
            BY <1>6 DEF Reconcile
      <2>2. \A t \in Times : t \notin run'.left => cohorts[t] = {} /\ run.result[t] = 0
            BY <1>6, <2>1, RunFields DEF noCounts
      <2>3. \A t \in Times : t \notin run'.left => Right(t)
            BY <2>2, FS_EmptySet
      <2>4. \A t \in Times : t \notin run'.left => Right(t)'
            BY <1>6, <2>1, <2>3, RunFields DEF files
      <2> QED BY <1>6, <2>1, <2>4, RunFields DEF files, Source
<1>7. ASSUME NEW t \in Times, KeepCohort(t)
      PROVE  Base' /\ Healed'
      <2>1. run.at = "reconcile" /\ UNCHANGED files
            BY <1>7 DEF KeepCohort
      <2>2. cohorts[t] \subseteq latest
            BY <1>7, <2>1 DEF KeepCohort, Still
      <2>3. ASSUME NEW u \in Times, u \notin run'.left
            PROVE  Right(u)'
            <3>0. /\ run'.left = run.left \ {t} /\ run.result \in [Times -> Nat]
                  /\ run'.result = [run.result EXCEPT ![t] = Cardinality(cohorts[t])]
                  BY <1>0, <1>7, RunFields, Fields
            <3>1. run'.result[t] = Cardinality(cohorts[t])
                  BY <3>0
            <3>2. u # t => run'.result[u] = run.result[u] /\ u \notin run.left
                  BY <2>3, <3>0
            <3> QED BY <2>1, <2>2, <3>1, <3>2 DEF files
      <2> QED BY <1>7, <2>1, <2>3, RunFields DEF files, Source
<1>8. ASSUME NEW t \in Times, RecordRemoval(t)
      PROVE  Base' /\ Healed'
      <2>1. /\ run.at = "reconcile"
            /\ UNCHANGED <<claimed, committed, latest, cohorts, index>>
            BY <1>8 DEF RecordRemoval
      <2> QED BY <1>8, <2>1, RunFields DEF Source
<1>9. ASSUME NEW t \in Times, RewriteCohort(t)
      PROVE  Base' /\ Healed'
      <2>1. /\ run.at = "rewrite" /\ UNCHANGED <<claimed, committed, latest, index>>
            /\ cohorts' = [cohorts EXCEPT ![t] = Still(t)]
            BY <1>9 DEF RewriteCohort
      <2>2. Still(t) \subseteq latest
            BY <2>1 DEF Still
      <2>3. ASSUME NEW u \in Times, u \notin run'.left
            PROVE  Right(u)'
            <3>0. /\ run'.left = run.left \ {t} /\ run.result \in [Times -> Nat]
                  /\ run'.result = [run.result EXCEPT ![t] = Cardinality(Still(t))]
                  BY <1>0, <1>9, RunFields, Fields
            <3>1. run'.result[t] = Cardinality(Still(t)) /\ cohorts'[t] = Still(t)
                  BY <1>0, <2>1, <3>0
            <3>2. u # t => /\ run'.result[u] = run.result[u] /\ u \notin run.left
                           /\ cohorts'[u] = cohorts[u]
                  BY <1>0, <2>1, <2>3, <3>0
            <3> QED BY <2>1, <2>2, <3>1, <3>2
      <2> QED BY <1>9, <2>1, <2>3, RunFields DEF Source
<1>10. CASE Reconciled
      <2>1. /\ run.at = "reconcile" /\ run'.at = "outputs" /\ run'.body = run.body
            /\ run'.added = run.added /\ run'.removed = run.removed
            /\ run'.result = run.result /\ run.left = {}
            BY <1>10, StepFields DEF Reconciled, Phases
      <2> QED BY <1>10, <2>1 DEF Reconciled, files, Source
<1>11. CASE WriteIndex
      <2>1. /\ run.at = "outputs" /\ run'.at = "replace" /\ run'.body = run.body
            /\ run'.added = run.added /\ run'.removed = run.removed
            /\ run'.result = run.result
            BY <1>11, StepFields DEF WriteIndex, Phases
      <2> QED BY <1>11, <2>1 DEF WriteIndex, Source
<1>12. CASE Replace
      BY <1>12 DEF Replace, files, Source, noRun
<1> QED BY <1>1, <1>2, <1>3, <1>4, <1>5, <1>6, <1>7, <1>8, <1>9, <1>10, <1>11, <1>12 DEF Update

LEMMA NextHeals ==
  TypeOK /\ Base /\ Healed /\ [Next]_vars => Base' /\ Healed'
<1> SUFFICES ASSUME TypeOK, Base, Healed, [Next]_vars PROVE Base' /\ Healed'
    OBVIOUS
<1> USE DEF Base, Healed, Right
<1>1. ASSUME NEW set \in SUBSET Addrs, NEW time \in Times, Claim(set, time)
      PROVE  Base' /\ Healed'
      <2>1. claimed' # None
            BY <1>1, RetentionAssumption DEF Claim, None
      <2> QED BY <1>1, <2>1 DEF Claim
<1>2. ASSUME Begin \/ BeginUnreadable
      PROVE  Base' /\ Healed'
      <2>1. PICK S \in SUBSET Addrs : run' = Diff(S)
            BY <1>2 DEF Begin, BeginUnreadable, TypeOK
      <2>2. /\ run'.at = "diffed" /\ run'.body = Source /\ run'.added = Source.set \ S
            /\ run'.result = noCounts
            BY <2>1, DiffTyped
      <2>3. UNCHANGED files
            BY <1>2 DEF Begin, BeginUnreadable
      <2> QED BY <2>2, <2>3 DEF files, Source
<1>3. CASE Update
      BY <1>3, UpdateHeals
<1>4. CASE Query
      BY <1>4 DEF Query, files, Source
<1>5. CASE Fail
      BY <1>5 DEF Fail, files, Source, noRun
<1>6. CASE Restart
      BY <1>6 DEF Restart, files, Source, noRun
<1>7. CASE UNCHANGED vars
      BY <1>7 DEF vars, files, Source
<1> QED BY <1>1, <1>2, <1>3, <1>4, <1>5, <1>6, <1>7 DEF Next

LEMMA BaseAndHealed == Spec => [](TypeOK /\ Base /\ Healed)
<1>1. TypeOK /\ Base /\ Healed /\ [Next]_vars => (TypeOK /\ Base /\ Healed)'
      BY NextTyped, NextHeals
<1> QED BY InitTyped, InitBase, <1>1, PTL DEF Spec

\* Whatever failed, was interrupted or misled before, an update that removes
\* something leaves no cohort that holds what is not listed, and right counts.
THEOREM UpdatesRepair == Spec => []Heals
<1>1. Healed => Heals
      BY DEF Healed, Heals, Right
<1> QED BY BaseAndHealed, <1>1, PTL

(***************************************************************************)
(* What is recorded.                                                       *)
(***************************************************************************)
\* As long as no time comes back, a body is all there is of its time.
Whole(b) == b # None => b.set = {} \/ b.set = bodies[b.time]

\* The removals of a cohort are recorded; so are those of the one that is about
\* to be rewritten.
RecordedFor(t, set) == Cardinality(entered[t] \ set) <= gone[t]

Recorded ==
  /\ Whole(claimed) /\ Whole(committed)
  /\ claimed # None => entered[claimed.time] = {}
  /\ \A t \in Times : cohorts[t] \subseteq entered[t] /\ entered[t] \subseteq bodies[t]
  /\ run.at \in {"diffed", "finalizing", "committed", "recorded"} =>
       run.added = {} \/ entered[run.body.time] \subseteq run.added
  /\ \A t \in Times : RecordedFor(t, cohorts[t])
  /\ run.at = "rewrite" => \A t \in Times : First(t) => RecordedFor(t, Still(t))

LEMMA InitRecorded == Init => Recorded
<1> SUFFICES ASSUME Init PROVE Recorded
    OBVIOUS
<1>1. \A t \in Times : RecordedFor(t, cohorts[t])
      <2> TAKE t \in Times
      <2>1. entered[t] \ cohorts[t] = {} /\ gone[t] = 0
            BY DEF Init, noCounts
      <2> QED BY <2>1, FS_EmptySet DEF RecordedFor
<1> QED BY <1>1 DEF Init, Recorded, Whole, noRun, None

\* Two writes of a cohort: the new addresses, and those still listed.
LEMMA CohortStored ==
  ASSUME TypeOK, NEW t \in Times, NEW S \in SUBSET Addrs,
         S = cohorts[t] \/ entered[t] \subseteq S,
         RecordedFor(t, cohorts[t])
  PROVE  Cardinality((entered[t] \cup S) \ S) <= gone[t] \/ S = cohorts[t]
<1>1. CASE entered[t] \subseteq S
      <2>1. (entered[t] \cup S) \ S = {}
            BY <1>1
      <2>2. gone[t] \in Nat
            BY DEF TypeOK
      <2> QED BY <2>1, <2>2, FS_EmptySet
<1> QED BY <1>1

LEMMA CohortReduced ==
  ASSUME TypeOK, NEW t \in Times, cohorts[t] \subseteq entered[t],
         RecordedFor(t, cohorts[t])
  PROVE  Cardinality(entered[t] \ Still(t))
         <= gone[t] + Cardinality(cohorts[t] \ Still(t))
<1> DEFINE all  == entered[t] \ Still(t)
           left == cohorts[t] \ Still(t)
           rest == entered[t] \ cohorts[t]
<1>1. all \in SUBSET Addrs /\ left \in SUBSET all /\ all \ left = rest
      BY DEF TypeOK, Still
<1>2. Cardinality(all) = Cardinality(left) + Cardinality(all \ left)
      BY <1>1, CountParts
<1>3. /\ Cardinality(left) \in Nat /\ Cardinality(rest) \in Nat /\ gone[t] \in Nat
      /\ Cardinality(all \ left) = Cardinality(rest)
      BY <1>1, Count, left \in SUBSET Addrs, rest \in SUBSET Addrs DEF TypeOK
<1>4. Cardinality(rest) <= gone[t]
      BY DEF RecordedFor
<1> HIDE DEF all, left, rest
<1>5. Cardinality(all) <= gone[t] + Cardinality(left)
      BY <1>2, <1>3, <1>4
<1> QED BY <1>5 DEF all, left

\* Steps that touch none of these ledgers.
LEMMA RecordedKept ==
  ASSUME Recorded,
         UNCHANGED <<claimed, committed, cohorts, gone, entered, bodies>>,
         run'.at # "rewrite",
         run'.at \in {"diffed", "finalizing", "committed", "recorded"} =>
           run'.added = {} \/ entered[run'.body.time] \subseteq run'.added
  PROVE  Recorded'
  BY DEF Recorded, Whole, RecordedFor

LEMMA UpdateRecords ==
  ASSUME TypeOK, Base, Recorded, Update
  PROVE  Recorded'
<1>0. /\ run \in Runs /\ cohorts \in [Times -> SUBSET Addrs] /\ gone \in [Times -> Nat]
      /\ entered \in [Times -> SUBSET Addrs]
      BY DEF TypeOK
<1>1. CASE WriteLatest
      <2>1. /\ run.at = "diffed" /\ run'.at = "finalizing" /\ run'.body = run.body
            /\ run'.added = run.added
            BY <1>1, StepFields DEF WriteLatest, Phases
      <2> QED BY <1>1, <2>1, RecordedKept DEF WriteLatest, Recorded
<1>2. CASE WriteCommitted
      <2>1. /\ run.at = "finalizing" /\ run'.at = "committed" /\ run'.body = run.body
            /\ run'.added = run.added
            BY <1>2, StepFields DEF WriteCommitted, Phases
      <2>2. Whole(run.body)
            BY <2>1 DEF Base, Recorded, Source
      <2> QED BY <1>2, <2>1, <2>2 DEF WriteCommitted, Recorded, Whole, RecordedFor, history
<1>3. CASE AppendChange
      <2>1. /\ run.at = "committed" /\ run'.at = "recorded" /\ run'.body = run.body
            /\ run'.added = run.added
            BY <1>3, StepFields DEF AppendChange, Phases
      <2> QED BY <1>3, <2>1, RecordedKept DEF AppendChange, Recorded, history
<1>4. CASE StoreCohort
      <2> DEFINE u == run.body.time
                 S == IF run.added = {} THEN cohorts[u] ELSE run.added
      <2>1. /\ run.at = "recorded" /\ run'.at = "stored" /\ u \in Times
            BY <1>4, SourceTyped, StepFields
               DEF StoreCohort, StoreCohortIn, Phases, Step, TypeOK
      <2>2. /\ cohorts' = [cohorts EXCEPT ![u] = S]
            /\ entered' = [entered EXCEPT ![u] = @ \cup S]
            /\ UNCHANGED <<claimed, committed, gone, bodies>>
            BY <1>4 DEF StoreCohort, StoreCohortIn
      <2>3. claimed = None /\ run.added \subseteq run.body.set /\ Whole(run.body)
            BY <2>1 DEF Base, Source, Recorded
      <2>4. S \in SUBSET Addrs /\ S \subseteq bodies[u]
            <3>1. run.added \in SUBSET Addrs /\ run.added \subseteq bodies[u]
                  BY <1>0, <2>1, <2>3, Fields DEF Whole, TypeOK
            <3> QED BY <3>1, <1>0, <2>1 DEF Recorded
      <2>5. S = cohorts[u] \/ entered[u] \subseteq S
            BY <2>1 DEF Recorded
      <2>6. Cardinality((entered[u] \cup S) \ S) <= gone[u]
            <3>1. RecordedFor(u, cohorts[u]) /\ cohorts[u] \subseteq entered[u]
                  BY <2>1 DEF Recorded
            <3>2. S = cohorts[u] => (entered[u] \cup S) \ S = entered[u] \ cohorts[u]
                  BY <3>1
            <3> HIDE DEF S, u
            <3> QED BY <2>1, <2>4, <2>5, <3>1, <3>2, CohortStored DEF RecordedFor
      <2>7. \A t \in Times : RecordedFor(t, cohorts[t])'
            <3> TAKE t \in Times
            <3>1. CASE t = u
                  <4>1. entered'[t] \ cohorts'[t] = (entered[u] \cup S) \ S
                        BY <1>0, <2>1, <2>2, <3>1
                  <4> QED BY <2>2, <2>6, <3>1, <4>1 DEF RecordedFor
            <3>2. CASE t # u
                  <4>1. entered'[t] = entered[t] /\ cohorts'[t] = cohorts[t]
                        BY <1>0, <2>2, <3>2
                  <4> QED BY <2>2, <4>1 DEF RecordedFor, Recorded
            <3> QED BY <3>1, <3>2
      <2>8. \A t \in Times : cohorts'[t] \subseteq entered'[t] /\ entered'[t] \subseteq bodies'[t]
            <3> HIDE DEF S, u
            <3> QED BY <1>0, <2>1, <2>2, <2>4 DEF Recorded
      <2> QED BY <2>1, <2>2, <2>3, <2>7, <2>8 DEF Recorded, Whole
<1>5. CASE AddToCounts
      BY <1>5, RunFields, RecordedKept DEF AddToCounts, files, history
<1>6. CASE Reconcile
      BY <1>6, RunFields, RecordedKept DEF Reconcile, files, history
<1>7. ASSUME NEW t \in Times, KeepCohort(t)
      PROVE  Recorded'
      BY <1>7, RunFields, RecordedKept DEF KeepCohort, files, history
<1>8. ASSUME NEW t \in Times, RecordRemoval(t)
      PROVE  Recorded'
      <2>1. /\ run.at = "reconcile" /\ First(t)
            /\ gone' = [gone EXCEPT ![t] = @ + Cardinality(cohorts[t] \ Still(t))]
            /\ UNCHANGED <<claimed, committed, cohorts, entered, bodies>>
            BY <1>8 DEF RecordRemoval, history
      <2>2. run'.at = "rewrite" /\ run'.body = run.body /\ run'.left = run.left
            BY <1>8, RunFields
      <2> DEFINE c == Cardinality(cohorts[t] \ Still(t))
      <2>3. c \in Nat
            BY <1>0, Count, cohorts[t] \ Still(t) \in SUBSET Addrs
      <2>4. gone'[t] = gone[t] + c /\ \A v \in Times : gone'[v] >= gone[v]
            <3> HIDE DEF c
            <3>1. gone' = [gone EXCEPT ![t] = @ + c]
                  BY <2>1 DEF c
            <3> QED BY <1>0, <2>3, <3>1
      <2>5. \A v \in Times : RecordedFor(v, cohorts[v])'
            <3> TAKE v \in Times
            <3>1. Cardinality(entered[v] \ cohorts[v]) <= gone[v]
                  BY DEF Recorded, RecordedFor
            <3>2. /\ Cardinality(entered[v] \ cohorts[v]) \in Nat
                  /\ gone[v] \in Nat /\ gone'[v] \in Nat
                  BY <1>0, UpdateTyped, Count, entered[v] \ cohorts[v] \in SUBSET Addrs
                     DEF TypeOK
            <3>3. Cardinality(entered'[v] \ cohorts'[v]) = Cardinality(entered[v] \ cohorts[v])
                  BY <2>1, Zenon
            <3>4. Cardinality(entered'[v] \ cohorts'[v]) <= gone'[v]
                  BY <2>4, <3>1, <3>2, <3>3
            <3> QED BY <3>4 DEF RecordedFor
      <2>6. \A v \in Times : First(v)' => RecordedFor(v, Still(v))'
            <3> SUFFICES ASSUME NEW v \in Times, First(v)' PROVE RecordedFor(v, Still(v))'
                OBVIOUS
            <3>1. v = t
                  <4>1. t \in run.left /\ v \in run.left /\ t <= v /\ v <= t
                        BY <2>1, <2>2 DEF First
                  <4> QED BY <4>1, RetentionAssumption
            <3>2. Cardinality(entered[t] \ Still(t)) <= gone'[t]
                  BY <2>4, CohortReduced DEF Recorded
            <3> QED BY <2>1, <2>2, <3>1, <3>2 DEF RecordedFor, Still
      <2> QED BY <2>1, <2>2, <2>5, <2>6 DEF Recorded, Whole
<1>9. ASSUME NEW t \in Times, RewriteCohort(t)
      PROVE  Recorded'
      <2>1. /\ run.at = "rewrite" /\ First(t)
            /\ cohorts' = [cohorts EXCEPT ![t] = Still(t)]
            /\ UNCHANGED <<claimed, committed, gone, entered, bodies>>
            BY <1>9 DEF RewriteCohort, history
      <2>2. run'.at = "reconcile"
            BY <1>9, RunFields
      <2>3. \A v \in Times : /\ cohorts'[v] \subseteq cohorts[v]
                             /\ v # t => cohorts'[v] = cohorts[v]
                             /\ cohorts'[t] = Still(t)
            BY <1>0, <2>1 DEF Still
      <2>4. \A v \in Times : RecordedFor(v, cohorts[v])'
            <3> TAKE v \in Times
            <3>1. RecordedFor(v, cohorts[v]) /\ (v = t => RecordedFor(v, Still(v)))
                  BY <2>1 DEF Recorded
            <3>2. RecordedFor(v, cohorts[v])' <=>
                    Cardinality(entered'[v] \ cohorts'[v]) <= gone'[v]
                  BY DEF RecordedFor
            <3>3. CASE v = t
                  <4>1. RecordedFor(v, Still(v))
                        BY <3>1, <3>3
                  <4>2. Cardinality(entered[v] \ Still(v)) <= gone[v]
                        BY <4>1, Zenon DEF RecordedFor
                  <4>3. cohorts'[v] = Still(v)
                        BY <1>0, <2>1, <3>3
                  <4> QED BY <2>1, <3>2, <4>2, <4>3, Zenon
            <3>4. CASE v # t
                  <4>1. Cardinality(entered[v] \ cohorts[v]) <= gone[v]
                        BY <3>1, Zenon DEF RecordedFor
                  <4>2. cohorts'[v] = cohorts[v]
                        BY <1>0, <2>1, <3>4
                  <4> QED BY <2>1, <3>2, <4>1, <4>2, Zenon
            <3> QED BY <3>3, <3>4
      <2>5. \A v \in Times : cohorts'[v] \subseteq entered'[v] /\ entered'[v] \subseteq bodies'[v]
            BY <2>1, <2>3 DEF Recorded
      <2> QED BY <2>1, <2>2, <2>4, <2>5 DEF Recorded, Whole
<1>10. CASE Reconciled
      <2>1. run'.at = "outputs"
            BY <1>10, StepFields DEF Reconciled, Phases
      <2> QED BY <1>10, <2>1, RecordedKept DEF Reconciled, files, history
<1>11. CASE WriteIndex
      <2>1. run'.at = "replace"
            BY <1>11, StepFields DEF WriteIndex, Phases
      <2> QED BY <1>11, <2>1, RecordedKept DEF WriteIndex, history
<1>12. CASE Replace
      BY <1>12, RecordedKept DEF Replace, files, history, noRun
<1> QED BY <1>1, <1>2, <1>3, <1>4, <1>5, <1>6, <1>7, <1>8, <1>9, <1>10, <1>11, <1>12 DEF Update

LEMMA NextRecorded ==
  TypeOK /\ Base /\ (repeats = 0 => Recorded) /\ [Next]_vars => (repeats = 0 => Recorded)'
<1> SUFFICES ASSUME TypeOK, Base, repeats = 0 => Recorded, [Next]_vars, repeats' = 0
             PROVE  Recorded'
    OBVIOUS
<1>0. repeats = 0 /\ Recorded
      <2>1. ASSUME NEW set \in SUBSET Addrs, NEW time \in Times, Claim(set, time)
            PROVE  repeats = 0
            BY <2>1, RetentionAssumption DEF Claim, TypeOK
      <2>2. ASSUME Update
            PROVE  repeats' = repeats
            BY <2>2 DEF Update, WriteLatest, WriteCommitted, AppendChange, StoreCohort,
                        StoreCohortIn, AddToCounts, Reconcile, KeepCohort, RecordRemoval,
                        RewriteCohort, Reconciled, WriteIndex, Replace, bounds
      <2> QED BY <2>1, <2>2 DEF Next, Begin, BeginUnreadable, Query, Fail, Restart, vars, bounds
<1>1. ASSUME NEW set \in SUBSET Addrs, NEW time \in Times, Claim(set, time)
      PROVE  Recorded'
      <2>1. bodies[time] = {}
            BY <1>0, <1>1, RetentionAssumption DEF Claim, TypeOK
      <2>2. /\ claimed' = [set |-> set, time |-> time]
            /\ bodies'[time] = set /\ \A t \in Times : bodies[t] \subseteq bodies'[t]
            /\ \A t \in Times : t # time => bodies'[t] = bodies[t]
            /\ UNCHANGED <<committed, cohorts, gone, run, entered>>
            BY <1>1, <2>1 DEF Claim, TypeOK
      <2>3. Whole(committed)'
            BY <1>0, <2>1, <2>2 DEF Recorded, Whole, TypeOK, Bodies, None
      <2>4. entered[time] = {}
            BY <1>0, <2>1 DEF Recorded
      <2>5. run.at = "idle"
            BY <1>1 DEF Claim
      <2>6. Whole(claimed)' /\ entered'[claimed'.time] = {}
            BY <2>2, <2>4 DEF Whole
      <2>7. \A t \in Times : /\ cohorts'[t] \subseteq entered'[t] /\ entered'[t] \subseteq bodies'[t]
                             /\ RecordedFor(t, cohorts[t])'
            BY <1>0, <2>2 DEF Recorded, RecordedFor
      <2> QED BY <2>2, <2>3, <2>5, <2>6, <2>7 DEF Recorded
<1>2. ASSUME Begin \/ BeginUnreadable
      PROVE  Recorded'
      <2>1. /\ run.at = "idle" /\ Source # None /\ (run' = Diff(latest) \/ run' = Diff({}))
            /\ UNCHANGED <<claimed, committed, cohorts, gone, entered, bodies>>
            BY <1>2 DEF Begin, BeginUnreadable, files, history
      <2>2. /\ run'.at = "diffed" /\ run'.body = Source
            /\ \/ run'.added = Source.set \ latest
               \/ run'.added = Source.set
            <3>1. \A S \in SUBSET Addrs : /\ Diff(S).at = "diffed" /\ Diff(S).body = Source
                                         /\ Diff(S).added = Source.set \ S
                  BY DiffTyped
            <3>2. latest \in SUBSET Addrs /\ {} \in SUBSET Addrs
                  BY DEF TypeOK
            <3>3. Diff({}).added = Source.set
                  <4>1. Source.set \ {} = Source.set
                        OBVIOUS
                  <4> QED BY <3>1, <3>2, <4>1, Zenon
            <3> QED BY <2>1, <3>1, <3>2, <3>3, Zenon
      <2>3. run'.added = {} \/ entered[Source.time] \subseteq run'.added
            <3>1. CASE claimed # None
                  BY <1>0, <3>1 DEF Recorded, Source
            <3>2. CASE claimed = None
                  <4>0. Whole(Source) /\ Source \in Bodies
                        <5>1. Source = committed
                              BY <3>2 DEF Source
                        <5>2. Whole(committed)
                              BY <1>0 DEF Recorded
                        <5>3. committed \in Bodies
                              BY <2>1, <5>1 DEF TypeOK
                        <5> QED BY <5>1, <5>2, <5>3, Zenon
                  <4>1. Source.set = {} \/ Source.set = bodies[Source.time]
                        <5>1. Source # None
                              BY <2>1
                        <5> QED BY <4>0, <5>1, Zenon DEF Whole
                  <4>2. entered[Source.time] \subseteq bodies[Source.time]
                        BY <1>0, <4>0 DEF Recorded, Bodies
                  <4>3. Source.set = latest
                        BY <3>2 DEF Base, Source
                  <4> QED BY <2>2, <4>1, <4>2, <4>3
            <3> QED BY <3>1, <3>2
      <2> QED BY <1>0, <2>1, <2>2, <2>3, RecordedKept
<1>3. CASE Update
      BY <1>0, <1>3, UpdateRecords
<1>4. CASE Query
      BY <1>0, <1>4 DEF Query, files, history, Recorded, Whole, RecordedFor, First, Still
<1>5. CASE Fail
      BY <1>0, <1>5, RecordedKept DEF Fail, files, history, noRun
<1>6. CASE Restart
      BY <1>0, <1>6, RecordedKept DEF Restart, files, history, noRun
<1>7. CASE UNCHANGED vars
      BY <1>0, <1>7 DEF vars, files, history, Recorded, Whole, RecordedFor, First, Still
<1> QED BY <1>1, <1>2, <1>3, <1>4, <1>5, <1>6, <1>7 DEF Next

\* As long as no time comes back, nothing leaves a cohort without a record of
\* it, however many updates fail and wherever the daemon stops.
THEOREM NothingUnrecorded == Spec => []RemovalsRecorded
<1>1. /\ TypeOK /\ Base /\ Healed /\ (repeats = 0 => Recorded) /\ [Next]_vars
      => (repeats = 0 => Recorded)'
      BY NextRecorded
<1>2. (repeats = 0 => Recorded) => RemovalsRecorded
      BY DEF Recorded, RecordedFor, RemovalsRecorded
<1>3. Init => (repeats = 0 => Recorded)
      BY InitRecorded
<1> QED BY BaseAndHealed, <1>1, <1>2, <1>3, PTL DEF Spec

(***************************************************************************)
(* The ledgers agree with the set, while nothing fails and no time comes   *)
(* back.                                                                   *)
(***************************************************************************)
Early == {"idle", "diffed"}
Mid   == {"finalizing", "committed", "recorded"}
Late  == {"stored", "reconcile", "rewrite", "outputs", "replace"}

Since(t) == {a \in latest : since[a] = t}

\* Every listed address was in a body of the time its listing began, and the
\* body that is claimed has a time of its own.
Dated ==
  /\ \A a \in latest : since[a] \in Times /\ a \in bodies[since[a]]
  /\ run.at \in Early /\ claimed # None => \A a \in latest : since[a] # claimed.time

\* The cohorts before latest is replaced, until the new cohort is stored, and
\* after that.
EarlyCohorts ==
  run.at \in Early => \A t \in Times : cohorts[t] = Since(t)

MidCohorts ==
  run.at \in Mid =>
    /\ \A t \in Times : cohorts[t] \cap latest = Since(t) \ run.added
    /\ \A a \in run.added : since[a] = run.body.time
    /\ run.added # {} => cohorts[run.body.time] = {}

LateCohorts ==
  run.at \in Late => \A t \in Times : cohorts[t] \cap latest = Since(t)

NothingLeft ==
  run.at \in Mid \cup Late /\ run.removed = 0 => \A t \in Times : cohorts[t] \subseteq latest

\* The difference, and what the changes add up to.
Change ==
  /\ run.at = "diffed" => /\ run.added = run.body.set \ latest
                          /\ run.removed = Cardinality(latest \ run.body.set)
  /\ balance = IF run.at \in {"finalizing", "committed"}
               THEN Cardinality(latest) - Cardinality(run.added) + run.removed
               ELSE Cardinality(latest)

\* Counts that know which cohorts there are.
Knows(counts, times) == \A t \in times : counts[t] > 0 <=> cohorts[t] # {}

CountsKnow(times) ==
  /\ memory.loaded => Knows(memory.counts, times)
  /\ index # noCounts => Knows(index, times)

NewTimes == IF run.added = {} THEN {} ELSE {run.body.time}

Counted ==
  /\ run.at \in Early \cup Mid => CountsKnow(Times)
  /\ run.at = "stored" => /\ CountsKnow(Times \ NewTimes)
                          /\ \A t \in NewTimes : cohorts[t] # {}
  /\ run.at \in {"outputs", "replace"} => Knows(run.result, Times)

Agreed ==
  /\ Dated /\ EarlyCohorts /\ MidCohorts /\ LateCohorts /\ NothingLeft /\ Change /\ Counted

LEMMA InitAgreed == Init => Agreed
<1> SUFFICES ASSUME Init PROVE Agreed
    OBVIOUS
<1>1. /\ run.at = "idle" /\ latest = {} /\ \A t \in Times : cohorts[t] = {}
      /\ claimed = None /\ balance = 0 /\ ~memory.loaded /\ index = noCounts
      BY DEF Init, noRun
<1>2. Cardinality(latest) = 0
      BY <1>1, FS_EmptySet
<1>3. Dated /\ EarlyCohorts /\ MidCohorts /\ LateCohorts /\ NothingLeft
      BY <1>1 DEF Dated, EarlyCohorts, MidCohorts, LateCohorts, NothingLeft, Early, Mid, Late,
                  Since
<1>4. Change /\ Counted
      BY <1>1, <1>2 DEF Change, Counted, CountsKnow, Early, Mid
<1> QED BY <1>3, <1>4 DEF Agreed

\* Whoever loads the counts, from wherever, learns of the same cohorts.
LEMMA LoadedKnows ==
  ASSUME TypeOK, NEW times \in SUBSET Times, CountsKnow(times)
  PROVE  Knows(Loaded, times)
<1>1. Knows(Counts, times)
      <2> SUFFICES ASSUME NEW t \in times PROVE Counts[t] > 0 <=> cohorts[t] # {}
          BY DEF Knows
      <2>1. Counts[t] = Cardinality(cohorts[t]) /\ cohorts[t] \in SUBSET Addrs
            BY DEF Counts, TypeOK
      <2> QED BY <2>1, Count
<1> QED BY <1>1 DEF CountsKnow, Loaded

\* What the agreement means to a reader.
LEMMA AgreementIs ==
  ASSUME TypeOK, Agreed, run.at = "idle"
  PROVE  Partitioned /\ Found /\ Balanced
<1>1. Partitioned
      BY DEF Agreed, EarlyCohorts, Early, Since, Partitioned
<1>2. Found
      <2>1. Knows(Loaded, Times)
            BY LoadedKnows DEF Agreed, Counted, Early
      <2> SUFFICES ASSUME NEW a \in latest PROVE FoundIn(a) = {since[a]}
          BY DEF Found
      <2>2. since[a] \in Times /\ a \in cohorts[since[a]]
            BY <1>1 DEF Agreed, Dated, Partitioned
      <2>3. \A t \in Times : a \in cohorts[t] => t = since[a]
            BY <1>1 DEF Partitioned
      <2>4. \A t \in Times : a \in cohorts[t] => Loaded[t] > 0
            BY <2>1 DEF Knows
      <2> QED BY <2>2, <2>3, <2>4 DEF FoundIn
<1>3. Balanced
      BY DEF Agreed, Change, Balanced
<1> QED BY <1>1, <1>2, <1>3

LEMMA WriteLatestAgrees ==
  ASSUME TypeOK, Base, Recorded, Agreed, WriteLatest
  PROVE  Agreed'
<1> DEFINE B == run.body.set
           u == run.body.time
<1>1. /\ run.at = "diffed" /\ run'.at = "finalizing" /\ run'.body = run.body
      /\ run'.added = run.added /\ run'.removed = run.removed
      BY StepFields DEF WriteLatest, Phases
<1>2. /\ latest' = B /\ UNCHANGED <<claimed, committed, balance, cohorts, index, memory, bodies>>
      /\ since' = [a \in Addrs |-> IF a \notin B THEN 0 ELSE IF a \in latest THEN since[a] ELSE u]
      BY DEF WriteLatest
<1>3. /\ run.added = B \ latest /\ run.removed = Cardinality(latest \ B)
      /\ balance = Cardinality(latest)
      BY <1>1 DEF Agreed, Change
<1>4. /\ B \in SUBSET Addrs /\ latest \in SUBSET Addrs /\ u \in Times /\ B \subseteq bodies[u]
      <2>1. run.body = Source /\ run.body # None
            BY <1>1 DEF Base, TypeOK
      <2>2. Whole(run.body)
            BY <2>1 DEF Source, Recorded
      <2> QED BY <2>1, <2>2, SourceTyped DEF Whole, TypeOK
<1>5. /\ \A a \in B : a \in Addrs /\ (a \in latest => since'[a] = since[a])
      /\ \A a \in B \ latest : since'[a] = u
      BY <1>2, <1>4
<1>6. \A t \in Times : cohorts[t] = Since(t)
      BY <1>1 DEF Agreed, EarlyCohorts, Early
<1>7. Dated'
      BY <1>1, <1>2, <1>4, <1>5 DEF Agreed, Dated, Early
<1>8. MidCohorts'
      <2>1. \A t \in Times : cohorts'[t] \cap latest' = Since(t)' \ run'.added
            BY <1>1, <1>2, <1>3, <1>5, <1>6 DEF Since
      <2>2. run.added # {} => cohorts[u] = {}
            <3> SUFFICES ASSUME run.added # {} PROVE cohorts[u] = {}
                OBVIOUS
            <3>1. claimed # None
                  BY <1>1, <1>3 DEF Base, Source
            <3>2. u = claimed.time
                  BY <1>1, <3>1 DEF Base, Source
            <3>3. \A a \in latest : since[a] # u
                  BY <1>1, <3>1, <3>2 DEF Agreed, Dated, Early
            <3> QED BY <1>4, <1>6, <3>3 DEF Since
      <2> QED BY <1>1, <1>2, <1>3, <1>5, <2>1, <2>2 DEF MidCohorts
<1>9. NothingLeft'
      <2> SUFFICES ASSUME run.removed = 0 PROVE \A t \in Times : cohorts[t] \subseteq B
          BY <1>1, <1>2 DEF NothingLeft
      <2>1. latest \ B = {}
            BY <1>3, <1>4, Count, latest \ B \in SUBSET Addrs
      <2> QED BY <1>6, <2>1 DEF Since
<1>10. Change'
      <2>1. Cardinality(B) = Cardinality(latest) + Cardinality(B \ latest)
                             - Cardinality(latest \ B)
            BY <1>4, CountChange
      <2>2. /\ Cardinality(B) \in Nat /\ Cardinality(latest) \in Nat
            /\ Cardinality(B \ latest) \in Nat /\ Cardinality(latest \ B) \in Nat
            BY <1>4, Count, B \ latest \in SUBSET Addrs, latest \ B \in SUBSET Addrs
      <2>3. Cardinality(run.added) = Cardinality(B \ latest)
            BY <1>3
      <2>4. balance = Cardinality(B) - Cardinality(run.added) + run.removed
            BY <1>3, <2>1, <2>2, <2>3
      <2> QED BY <1>1, <1>2, <2>4 DEF Change
<1>11. Counted'
      BY <1>1, <1>2 DEF Agreed, Counted, CountsKnow, Knows, Early, Mid
<1>12. EarlyCohorts' /\ LateCohorts'
      BY <1>1 DEF EarlyCohorts, LateCohorts, Early, Late
<1> QED BY <1>7, <1>8, <1>9, <1>10, <1>11, <1>12 DEF Agreed

LEMMA StoreCohortAgrees ==
  ASSUME TypeOK, Base, Agreed, StoreCohort
  PROVE  Agreed'
<1> DEFINE u == run.body.time
<1>1. /\ run.at = "recorded" /\ run'.at = "stored" /\ run'.body = run.body
      /\ run'.added = run.added /\ run'.removed = run.removed
      BY StepFields DEF StoreCohort, StoreCohortIn, Phases
<1>2. /\ cohorts' = [cohorts EXCEPT ![u] = IF run.added = {} THEN cohorts[u] ELSE run.added]
      /\ UNCHANGED <<claimed, committed, latest, balance, index, memory, since, bodies>>
      BY DEF StoreCohort, StoreCohortIn
<1>3. u \in Times /\ cohorts \in [Times -> SUBSET Addrs]
      BY <1>1, SourceTyped DEF TypeOK
<1>4. /\ \A t \in Times : cohorts[t] \cap latest = Since(t) \ run.added
      /\ \A a \in run.added : since[a] = u
      /\ run.added # {} => cohorts[u] = {}
      /\ run.added \subseteq latest
      BY <1>1 DEF Agreed, MidCohorts, Mid, Base
<1>5. /\ \A t \in Times : t # u => cohorts'[t] = cohorts[t]
      /\ run.added = {} => cohorts'[u] = cohorts[u]
      /\ run.added # {} => cohorts'[u] = run.added
      BY <1>2, <1>3
<1>6. \A t \in Times : cohorts'[t] \cap latest = Since(t)
      BY <1>4, <1>5 DEF Since
<1>7. LateCohorts'
      BY <1>2, <1>6 DEF LateCohorts, Since
<1>8. NothingLeft'
      BY <1>1, <1>2, <1>4, <1>5 DEF Agreed, NothingLeft, Mid
<1>9. Counted'
      <2>1. \A t \in Times \ NewTimes : cohorts'[t] = cohorts[t]
            BY <1>5 DEF NewTimes
      <2>2. CountsKnow(Times)
            BY <1>1 DEF Agreed, Counted, Mid
      <2>3. CountsKnow(Times \ NewTimes)' /\ NewTimes' = NewTimes
            BY <1>1, <1>2, <2>1, <2>2 DEF CountsKnow, Knows, NewTimes
      <2>4. \A t \in NewTimes : cohorts'[t] # {}
            BY <1>5 DEF NewTimes
      <2> QED BY <1>1, <2>3, <2>4 DEF Counted, Early, Mid
<1>10. Dated' /\ EarlyCohorts' /\ MidCohorts' /\ Change'
      BY <1>1, <1>2 DEF Agreed, Dated, EarlyCohorts, MidCohorts, Change, Early, Mid
<1> QED BY <1>7, <1>8, <1>9, <1>10 DEF Agreed

LEMMA AddToCountsAgrees ==
  ASSUME TypeOK, Agreed, AddToCounts
  PROVE  Agreed'
<1>1. /\ run.at = "stored" /\ run'.at = "outputs" /\ run'.body = run.body
      /\ run'.added = run.added /\ run'.removed = run.removed
      /\ run'.result = [Loaded EXCEPT ![run.body.time] = @ + Cardinality(run.added)]
      BY RunFields DEF AddToCounts
<1>2. UNCHANGED <<files, history>>
      BY DEF AddToCounts
<1>3. Knows(Loaded, Times \ NewTimes) /\ \A t \in NewTimes : cohorts[t] # {}
      BY <1>1, LoadedKnows DEF Agreed, Counted
<1>4. Knows(run'.result, Times)
      <2> DEFINE n == Cardinality(run.added)
      <2>1. /\ n \in Nat /\ (n = 0 <=> run.added = {}) /\ Loaded \in [Times -> Nat]
            /\ run.body.time \in Times
            BY <1>1, Count, CountsTyped, SourceTyped DEF TypeOK, Runs
      <2>2. run'.result = [Loaded EXCEPT ![run.body.time] = @ + n]
            BY <1>1
      <2> HIDE DEF n
      <2>3. ASSUME NEW t \in Times
            PROVE  run'.result[t] > 0 <=> cohorts[t] # {}
            <3>1. CASE t \in NewTimes
                  BY <1>3, <2>1, <2>2, <3>1 DEF NewTimes
            <3>2. CASE t \notin NewTimes
                  <4>1. run'.result[t] = Loaded[t]
                        BY <2>1, <2>2, <3>2 DEF NewTimes
                  <4> QED BY <1>3, <3>2, <4>1 DEF Knows
            <3> QED BY <3>1, <3>2
      <2> QED BY <2>3 DEF Knows
<1>5. Counted'
      BY <1>1, <1>2, <1>4 DEF Counted, Knows, files, Early, Mid
<1> QED BY <1>1, <1>2, <1>5 DEF Agreed, Dated, EarlyCohorts, MidCohorts, LateCohorts, NothingLeft,
           Change, Since, Early, Mid, Late, files, history

\* Steps among the phases of reconciling, which rewrite cohorts at most.
LEMMA LateKept ==
  ASSUME Agreed, run.at \in Late, run'.at \in {"reconcile", "rewrite"},
         run'.removed = run.removed,
         UNCHANGED <<claimed, latest, balance, since, bodies>>,
         \A t \in Times : cohorts'[t] \cap latest = cohorts[t] \cap latest,
         \A t \in Times : cohorts'[t] \subseteq cohorts[t]
  PROVE  Agreed'
<1>1. LateCohorts' /\ NothingLeft'
      BY DEF Agreed, LateCohorts, NothingLeft, Late, Since
<1>2. Dated' /\ EarlyCohorts' /\ MidCohorts' /\ Change' /\ Counted'
      BY DEF Agreed, Dated, EarlyCohorts, MidCohorts, Change, Counted, Early, Mid, Late
<1> QED BY <1>1, <1>2 DEF Agreed

LEMMA ReplaceAgrees ==
  ASSUME TypeOK, Base, Healed, Agreed, Replace
  PROVE  Agreed'
<1>1. /\ run.at = "replace" /\ run'.at = "idle" /\ UNCHANGED <<files, history>>
      /\ memory' = [loaded |-> TRUE, counts |-> run.result]
      BY DEF Replace, noRun
<1>2. Knows(run.result, Times) /\ index = run.result /\ claimed = None
      BY <1>1 DEF Agreed, Counted, Healed, Base
<1>3. \A t \in Times : cohorts[t] \subseteq latest
      <2>1. run.removed \in Nat
            BY DEF TypeOK, Runs
      <2> QED BY <1>1, <2>1 DEF Agreed, NothingLeft, Healed, Right, Late
<1>4. EarlyCohorts'
      BY <1>1, <1>3 DEF Agreed, LateCohorts, EarlyCohorts, Since, Late, files, history
<1>5. Counted'
      BY <1>1, <1>2 DEF Counted, CountsKnow, Knows, files, Early, Mid
<1>6. Dated' /\ MidCohorts' /\ LateCohorts' /\ NothingLeft' /\ Change'
      BY <1>1, <1>2 DEF Agreed, Dated, MidCohorts, LateCohorts, NothingLeft, Change,
                        Early, Mid, Late, files, history
<1> QED BY <1>4, <1>5, <1>6 DEF Agreed

LEMMA UpdateAgrees ==
  ASSUME TypeOK, Base, Healed, Recorded, Agreed, Update
  PROVE  Agreed'
<1>0. cohorts \in [Times -> SUBSET Addrs]
      BY DEF TypeOK
<1>1. CASE WriteLatest
      BY <1>1, WriteLatestAgrees
<1>2. CASE WriteCommitted
      <2>1. /\ run.at = "finalizing" /\ run'.at = "committed" /\ run'.body = run.body
            /\ run'.added = run.added /\ run'.removed = run.removed
            BY <1>2, StepFields DEF WriteCommitted, Phases
      <2> QED BY <1>2, <2>1 DEF WriteCommitted, history, Agreed, Dated, EarlyCohorts, MidCohorts,
                 LateCohorts, NothingLeft, Change, Counted, CountsKnow, Knows, Since,
                 Early, Mid, Late
<1>3. CASE AppendChange
      <2>1. /\ run.at = "committed" /\ run'.at = "recorded" /\ run'.body = run.body
            /\ run'.added = run.added /\ run'.removed = run.removed
            BY <1>3, StepFields DEF AppendChange, Phases
      <2>2. Change'
            <3> DEFINE n == Cardinality(run.added)
                       l == Cardinality(latest)
            <3>1. n \in Nat /\ l \in Nat /\ run.removed \in Nat
                  BY Count DEF TypeOK, Runs
            <3>2. balance = l - n + run.removed /\ balance' = balance + n - run.removed
                  BY <1>3, <2>1 DEF AppendChange, Agreed, Change
            <3> HIDE DEF n, l
            <3>3. balance' = l
                  BY <3>1, <3>2
            <3> QED BY <1>3, <2>1, <3>3 DEF l, AppendChange, Change
      <2> QED BY <1>3, <2>1, <2>2 DEF AppendChange, history, Agreed, Dated, EarlyCohorts,
                 MidCohorts, LateCohorts, NothingLeft, Counted, CountsKnow, Knows, Since,
                 Early, Mid, Late
<1>4. CASE StoreCohort
      BY <1>4, StoreCohortAgrees
<1>5. CASE AddToCounts
      BY <1>5, AddToCountsAgrees
<1>6. CASE Reconcile
      <2>1. run.at = "stored" /\ UNCHANGED <<files, history>>
            BY <1>6 DEF Reconcile
      <2>2. run'.at = "reconcile" /\ run'.removed = run.removed
            BY <1>6, RunFields
      <2> QED BY <2>1, <2>2, LateKept DEF files, history, Late
<1>7. ASSUME NEW t \in Times, KeepCohort(t)
      PROVE  Agreed'
      <2>1. run.at = "reconcile" /\ UNCHANGED <<files, history>>
            BY <1>7 DEF KeepCohort
      <2>2. run'.at = "reconcile" /\ run'.removed = run.removed
            BY <1>7, RunFields
      <2> QED BY <2>1, <2>2, LateKept DEF files, history, Late
<1>8. ASSUME NEW t \in Times, RecordRemoval(t)
      PROVE  Agreed'
      <2>1. /\ run.at = "reconcile"
            /\ UNCHANGED <<claimed, latest, balance, cohorts, since, bodies>>
            BY <1>8 DEF RecordRemoval, history
      <2>2. run'.at = "rewrite" /\ run'.removed = run.removed
            BY <1>8, RunFields
      <2> QED BY <2>1, <2>2, LateKept DEF Late
<1>9. ASSUME NEW t \in Times, RewriteCohort(t)
      PROVE  Agreed'
      <2>1. /\ run.at = "rewrite" /\ cohorts' = [cohorts EXCEPT ![t] = Still(t)]
            /\ UNCHANGED <<claimed, latest, balance, since, bodies>>
            BY <1>9 DEF RewriteCohort, history
      <2>2. run'.at = "reconcile" /\ run'.removed = run.removed
            BY <1>9, RunFields
      <2>3. Still(t) = cohorts[t] \cap latest
            BY <2>1 DEF Still, Base
      <2>4. \A v \in Times : cohorts'[v] = IF v = t THEN cohorts[t] \cap latest ELSE cohorts[v]
            BY <1>0, <2>1, <2>3
      <2>5. /\ \A v \in Times : cohorts'[v] \cap latest = cohorts[v] \cap latest
            /\ \A v \in Times : cohorts'[v] \subseteq cohorts[v]
            BY <2>4
      <2> QED BY <2>1, <2>2, <2>5, LateKept DEF Late
<1>10. CASE Reconciled
      <2>1. /\ run.at = "reconcile" /\ run'.at = "outputs" /\ run'.removed = run.removed
            /\ run'.result = run.result /\ run.left = {} /\ UNCHANGED <<files, history>>
            BY <1>10, StepFields DEF Reconciled, Phases
      <2>2. \A t \in Times : run.result[t] > 0 <=> cohorts[t] # {}
            <3> TAKE t \in Times
            <3>1. run.result[t] = Cardinality(cohorts[t])
                  BY <2>1 DEF Healed, Right
            <3> QED BY <1>0, <3>1, Count
      <2>3. Counted'
            BY <2>1, <2>2 DEF Counted, Knows, files, Early, Mid
      <2> QED BY <2>1, <2>3 DEF files, history, Agreed, Dated, EarlyCohorts, MidCohorts,
                 LateCohorts, NothingLeft, Change, Since, Early, Mid, Late
<1>11. CASE WriteIndex
      <2>1. /\ run.at = "outputs" /\ run'.at = "replace" /\ run'.removed = run.removed
            /\ run'.result = run.result
            /\ UNCHANGED <<claimed, latest, balance, cohorts, history>>
            BY <1>11, StepFields DEF WriteIndex, Phases
      <2>2. Counted'
            BY <2>1 DEF Agreed, Counted, Knows, Early, Mid
      <2> QED BY <2>1, <2>2 DEF history, Agreed, Dated, EarlyCohorts, MidCohorts, LateCohorts,
                 NothingLeft, Change, Since, Early, Mid, Late
<1>12. CASE Replace
      BY <1>12, ReplaceAgrees
<1> QED BY <1>1, <1>2, <1>3, <1>4, <1>5, <1>6, <1>7, <1>8, <1>9, <1>10, <1>11, <1>12 DEF Update

LEMMA NextAgrees ==
  TypeOK /\ Base /\ Healed /\ (repeats = 0 => Recorded) /\ (Calm => Agreed) /\ [Next]_vars
  => (Calm => Agreed)'
<1> SUFFICES ASSUME TypeOK, Base, Healed, repeats = 0 => Recorded, Calm => Agreed, [Next]_vars,
                    Calm'
             PROVE  Agreed'
    OBVIOUS
<1>1. ASSUME NEW set \in SUBSET Addrs, NEW time \in Times, Claim(set, time)
      PROVE  Agreed'
      <2>1. repeats = 0 /\ faults = 0 /\ bodies[time] = {}
            BY <1>1, RetentionAssumption DEF Claim, TypeOK, Calm
      <2>2. Agreed
            BY <2>1 DEF Calm
      <2>3. /\ run.at = "idle" /\ claimed' = [set |-> set, time |-> time]
            /\ \A t \in Times : bodies[t] \subseteq bodies'[t]
            /\ UNCHANGED <<latest, balance, cohorts, index, memory, run, since>>
            BY <1>1, <2>1 DEF Claim, TypeOK
      <2>4. Dated'
            BY <2>1, <2>2, <2>3 DEF Agreed, Dated
      <2>5. Counted'
            BY <2>2, <2>3 DEF Agreed, Counted, CountsKnow, Knows, NewTimes, Early, Mid
      <2> QED BY <2>2, <2>3, <2>4, <2>5 DEF Agreed, EarlyCohorts, MidCohorts, LateCohorts,
                 NothingLeft, Change, Since, Early, Mid, Late
<1>2. CASE Begin
      <2>1. /\ run.at = "idle" /\ run' = Diff(latest) /\ Agreed
            /\ UNCHANGED <<files, memory, history>>
            BY <1>2 DEF Begin, bounds, Calm
      <2>2. /\ run'.at = "diffed" /\ run'.body = Source /\ run'.added = Source.set \ latest
            /\ run'.removed = Cardinality(latest \ Source.set)
            BY <2>1, DiffTyped DEF TypeOK
      <2>3. Change'
            BY <2>1, <2>2 DEF Agreed, Change, files
      <2>4. Counted'
            BY <2>1, <2>2 DEF Agreed, Counted, CountsKnow, Knows, Early, Mid, files
      <2> QED BY <2>1, <2>2, <2>3, <2>4 DEF files, history, Agreed, Dated, EarlyCohorts,
                 MidCohorts, LateCohorts, NothingLeft, Since, Early, Mid, Late
<1>3. CASE Update
      <2>1. UNCHANGED bounds
            BY <1>3 DEF Update, WriteLatest, WriteCommitted, AppendChange, StoreCohort,
                        StoreCohortIn, AddToCounts, Reconcile, KeepCohort, RecordRemoval,
                        RewriteCohort, Reconciled, WriteIndex, Replace, bounds
      <2> QED BY <1>3, <2>1, UpdateAgrees DEF Calm, bounds
<1>4. CASE Query
      <2>1. Agreed /\ UNCHANGED <<files, run, history>>
            BY <1>4 DEF Query, Calm, bounds
      <2>2. memory' = [loaded |-> TRUE, counts |-> Loaded]
            BY <1>4 DEF Query, Load
      <2>3. \A times \in SUBSET Times : CountsKnow(times) => CountsKnow(times)'
            <3> SUFFICES ASSUME NEW times \in SUBSET Times, CountsKnow(times)
                         PROVE  CountsKnow(times)'
                OBVIOUS
            <3>1. Knows(Loaded, times)
                  BY LoadedKnows
            <3> QED BY <2>1, <2>2, <3>1 DEF CountsKnow, Knows, files
      <2>4. NewTimes' = NewTimes /\ Times \ NewTimes \in SUBSET Times
            BY <2>1 DEF NewTimes
      <2>5. Counted'
            BY <2>1, <2>3, <2>4 DEF Agreed, Counted, Knows, files
      <2> QED BY <2>1, <2>5 DEF files, history, Agreed, Dated, EarlyCohorts, MidCohorts,
                 LateCohorts, NothingLeft, Change, Since
<1>5. CASE Restart
      <2>1. /\ Agreed /\ run.at = "idle" /\ run'.at = "idle" /\ ~memory'.loaded
            /\ UNCHANGED <<files, history>>
            BY <1>5, RetentionAssumption DEF Restart, Calm, TypeOK, noRun
      <2>2. Counted'
            BY <2>1 DEF Agreed, Counted, CountsKnow, Knows, Early, Mid, files
      <2> QED BY <2>1, <2>2 DEF files, history, Agreed, Dated, EarlyCohorts, MidCohorts,
                 LateCohorts, NothingLeft, Change, Since, Early, Mid, Late
<1>6. CASE BeginUnreadable \/ Fail
      BY <1>6, RetentionAssumption DEF BeginUnreadable, Fail, Calm, TypeOK
<1>7. CASE UNCHANGED vars
      BY <1>7 DEF vars, files, history, bounds, Calm, Agreed, Dated, EarlyCohorts, MidCohorts,
                  LateCohorts, NothingLeft, Change, Since, Counted, CountsKnow, Knows, NewTimes
<1> QED BY <1>1, <1>2, <1>3, <1>4, <1>5, <1>6, <1>7 DEF Next

\* While no update fails and no time comes back the cohorts partition the listed
\* addresses by the time their listing began, queries find them there, and the
\* changes add up: for any addresses and times, however often bodies come and go.
THEOREM LedgersStayTrue == Spec => []LedgersAgree
<1>1. /\ TypeOK /\ Base /\ Healed /\ (repeats = 0 => Recorded) /\ (Calm => Agreed)
      /\ [Next]_vars
      => (repeats = 0 => Recorded)' /\ (Calm => Agreed)'
      BY NextRecorded, NextAgrees
<1>2. TypeOK /\ (Calm => Agreed) => LedgersAgree
      BY AgreementIs DEF LedgersAgree
<1>3. Init => (repeats = 0 => Recorded) /\ (Calm => Agreed)
      BY InitRecorded, InitAgreed
<1> QED BY BaseAndHealed, <1>1, <1>2, <1>3, PTL DEF Spec

=============================================================================
