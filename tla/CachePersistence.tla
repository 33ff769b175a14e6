-------------------------- MODULE CachePersistence --------------------------
(***************************************************************************)
(* How the state of a finished run reaches the cache file                  *)
(* (pkg/engine/cache_persistence.go, cache_persistence_engine.go, run.go). *)
(*                                                                         *)
(* The run hands a snapshot to a worker goroutine, which saves the newest  *)
(* one it was handed.  A direct run waits for its snapshot and stops the   *)
(* worker; the daemon does neither, and stops the worker when it ends.     *)
(* The next run starts a new worker once the old one has stopped.  Runs    *)
(* finish one after another: the next one starts after finalization.       *)
(*                                                                         *)
(* A snapshot is the number of the run it was taken after.                 *)
(***************************************************************************)
EXTENDS Naturals

CONSTANTS
  MaxRuns,    (* bound: runs that finish and are not lost by a crash        *)
  MaxWorkers  (* bound: workers started by a process                        *)

ASSUME CacheAssumption == MaxRuns \in Nat \ {0} /\ MaxWorkers \in Nat \ {0}

None == 0
Workers == 1..MaxWorkers

VARIABLES
  clock,    (* e.state: the runs it has seen                                *)
  disk,     (* the state in the cache file                                  *)
  cur,      (* e.cachePersistence, None before the first                    *)
  worker,   (* the fields of the workers and where their goroutines are     *)
  run,      (* the finalization of a run                                    *)
  told      (* history: the newest state a direct run was told is saved     *)

vars == <<clock, disk, cur, worker, run, told>>

noWorker == [at |-> "none", state |-> None, pending |-> None, inFlight |-> None,
             accepted |-> 0, completed |-> 0, failed |-> 0, lastError |-> FALSE,
             version |-> None, stopping |-> FALSE, stopped |-> FALSE]

noRun == [at |-> "idle", version |-> None, seq |-> 0, direct |-> FALSE]

Init ==
  /\ clock = 0
  /\ disk = 0
  /\ cur = None
  /\ worker = [w \in Workers |-> noWorker]
  /\ run = noRun
  /\ told = 0

(***************************************************************************)
(* completeRunFinalization.                                                *)
(***************************************************************************)
\* The run is over and its snapshot is taken.
SnapshotState(direct) ==
  /\ run.at = "idle" /\ clock < MaxRuns
  /\ clock' = clock + 1
  /\ run' = [at |-> "ensuring", version |-> clock + 1, seq |-> 0, direct |-> direct]
  /\ UNCHANGED <<disk, cur, worker, told>>

\* Faulty variant: a worker that is only stopping is replaced.
EnsureReplacesStopping ==
  /\ run.at = "ensuring"
  /\ run' = [run EXCEPT !.at = "submitting"]
  /\ IF cur = None \/ worker[cur].stopping
     THEN /\ cur < MaxWorkers
          /\ cur' = cur + 1
          /\ worker' = [worker EXCEPT ![cur + 1] = [noWorker EXCEPT !.at = "loop"]]
     ELSE UNCHANGED <<cur, worker>>
  /\ UNCHANGED <<clock, disk, told>>

\* ensureCachePersistenceWorker
Ensure ==
  /\ run.at = "ensuring"
  /\ run' = [run EXCEPT !.at = "submitting"]
  /\ IF cur = None \/ worker[cur].stopped
     THEN /\ cur < MaxWorkers
          /\ cur' = cur + 1
          /\ worker' = [worker EXCEPT ![cur + 1] = [noWorker EXCEPT !.at = "loop"]]
     ELSE UNCHANGED <<cur, worker>>
  /\ UNCHANGED <<clock, disk, told>>

\* The worker accepts a snapshot in the place of the one that is pending.
Submit ==
  /\ run.at = "submitting"
  /\ ~worker[cur].stopping /\ ~worker[cur].stopped
  /\ LET seq == worker[cur].accepted + 1
     IN /\ worker' = [worker EXCEPT ![cur].accepted = seq, ![cur].pending = seq,
                                    ![cur].version = run.version]
        /\ run' = IF run.direct THEN [run EXCEPT !.at = "waiting", !.seq = seq] ELSE noRun
  /\ UNCHANGED <<clock, disk, cur, told>>

\* recordCachePersistenceSubmitError: a worker that stops takes no more.
SubmitRefused ==
  /\ run.at = "submitting"
  /\ worker[cur].stopping \/ worker[cur].stopped
  /\ worker' = [worker EXCEPT ![cur].lastError = TRUE,
                              ![cur].failed = worker[cur].accepted]
  /\ run' = noRun
  /\ UNCHANGED <<clock, disk, cur, told>>

(***************************************************************************)
(* waitForSynchronousCachePersistence.                                     *)
(***************************************************************************)
Completed == worker[cur].completed >= run.seq
Failed    == worker[cur].failed >= run.seq /\ worker[cur].lastError

WaitSaved ==
  /\ run.at = "waiting" /\ Completed
  /\ told' = run.version
  /\ run' = [run EXCEPT !.at = "stopping"]
  /\ UNCHANGED <<clock, disk, cur, worker>>

WaitFailed ==
  /\ run.at = "waiting" /\ ~Completed
  /\ Failed \/ worker[cur].stopped
  /\ run' = [run EXCEPT !.at = "stopping"]
  /\ UNCHANGED <<clock, disk, cur, worker, told>>

\* The context ends: its caller's, or the 30 seconds of a direct run.
GiveUp ==
  /\ run.at \in {"waiting", "stopping"}
  /\ run' = IF run.at = "waiting" THEN [run EXCEPT !.at = "stopping"] ELSE noRun
  /\ worker' = [worker EXCEPT ![cur].stopping = @ \/ run.at = "stopping"]
  /\ UNCHANGED <<clock, disk, cur, told>>

\* Stop, by a direct run, returns once the worker's goroutine is over.
StopAsked ==
  /\ run.at = "stopping" /\ ~worker[cur].stopping
  /\ worker' = [worker EXCEPT ![cur].stopping = TRUE]
  /\ UNCHANGED <<clock, disk, cur, run, told>>

StopReturns ==
  /\ run.at = "stopping" /\ worker[cur].stopping /\ worker[cur].at = "over"
  /\ run' = noRun
  /\ UNCHANGED <<clock, disk, cur, worker, told>>

\* StopCachePersistence, when the daemon ends.
DaemonStops ==
  /\ cur # None /\ ~worker[cur].stopping
  /\ worker' = [worker EXCEPT ![cur].stopping = TRUE]
  /\ UNCHANGED <<clock, disk, cur, run, told>>

(***************************************************************************)
(* The worker's goroutine.                                                 *)
(***************************************************************************)
Take(w) ==
  /\ worker[w].at = "loop" /\ worker[w].pending # None
  /\ worker' = [worker EXCEPT ![w].at = "saving", ![w].inFlight = worker[w].pending,
                              ![w].state = worker[w].version,
                              ![w].pending = None, ![w].version = None]
  /\ UNCHANGED <<clock, disk, cur, run, told>>

\* cache.Save renames a complete file over the old one.
SaveRenames(w) ==
  /\ worker[w].at = "saving"
  /\ disk' = worker[w].state
  /\ worker' = [worker EXCEPT ![w].at = "saved"]
  /\ UNCHANGED <<clock, cur, run, told>>

\* Faulty variant: everything accepted by now is recorded as completed.
RecordSavedAll(w) ==
  /\ worker[w].at = "saved"
  /\ worker' = [worker EXCEPT ![w].at = "loop", ![w].completed = worker[w].accepted,
                              ![w].inFlight = None, ![w].state = None,
                              ![w].lastError = FALSE]
  /\ UNCHANGED <<clock, disk, cur, run, told>>

RecordSaved(w) ==
  /\ worker[w].at = "saved"
  /\ worker' = [worker EXCEPT ![w].at = "loop", ![w].completed = worker[w].inFlight,
                              ![w].inFlight = None, ![w].state = None,
                              ![w].lastError = FALSE]
  /\ UNCHANGED <<clock, disk, cur, run, told>>

\* Faulty variant: inFlightSeq is not reset.
RecordFailedInFlight(w) ==
  /\ worker[w].at = "saving"
  /\ worker' = [worker EXCEPT ![w].at = "loop", ![w].failed = worker[w].inFlight,
                              ![w].lastError = TRUE]
  /\ UNCHANGED <<clock, disk, cur, run, told>>

\* An error of cache.Save, or a panic in it, leaves the file as it was.
RecordFailed(w) ==
  /\ worker[w].at = "saving"
  /\ worker' = [worker EXCEPT ![w].at = "loop", ![w].failed = worker[w].inFlight,
                              ![w].inFlight = None, ![w].state = None,
                              ![w].lastError = TRUE]
  /\ UNCHANGED <<clock, disk, cur, run, told>>

\* A worker that is stopping ends when nothing is pending.
Stopped(w) ==
  /\ worker[w].at = "loop" /\ worker[w].pending = None /\ worker[w].stopping
  /\ worker' = [worker EXCEPT ![w].at = "over", ![w].stopped = TRUE]
  /\ UNCHANGED <<clock, disk, cur, run, told>>

\* Faulty variant: the goroutine is gone and nobody is told.
PanicSilent(w) ==
  /\ worker[w].at = "loop"
  /\ worker' = [worker EXCEPT ![w].at = "over"]
  /\ UNCHANGED <<clock, disk, cur, run, told>>

\* recoverRunPanic: what is pending has failed, and the worker has stopped.
Panic(w) ==
  /\ worker[w].at = "loop"
  /\ worker' = [worker EXCEPT ![w].at = "over", ![w].stopping = TRUE, ![w].stopped = TRUE,
                              ![w].failed = IF worker[w].pending # None
                                            THEN worker[w].pending ELSE @,
                              ![w].pending = None, ![w].version = None,
                              ![w].lastError = TRUE]
  /\ UNCHANGED <<clock, disk, cur, run, told>>

\* The process ends and starts again from the cache file.
Crash ==
  /\ clock' = disk
  /\ cur' = None
  /\ worker' = [w \in Workers |-> noWorker]
  /\ run' = noRun
  /\ UNCHANGED <<disk, told>>

RunStep ==
  \/ Ensure \/ Submit \/ SubmitRefused \/ WaitSaved \/ WaitFailed \/ StopAsked
  \/ StopReturns

Save(w) == Take(w) \/ SaveRenames(w) \/ RecordSaved(w) \/ RecordFailed(w) \/ Stopped(w)

Next ==
  \/ \E direct \in BOOLEAN : SnapshotState(direct)
  \/ RunStep
  \/ GiveUp
  \/ DaemonStops
  \/ \E w \in Workers : Save(w) \/ Panic(w)
  \/ Crash

Spec == Init /\ [][Next]_vars

(***************************************************************************)
(* Goroutines go on; contexts need not end, nothing need panic or crash.   *)
(***************************************************************************)
Fairness == WF_vars(RunStep) /\ \A w \in Workers : WF_vars(Save(w))

FairSpec == Spec /\ Fairness

(***************************************************************************)
(* Properties.                                                             *)
(***************************************************************************)
Worker == [at : {"none", "loop", "saving", "saved", "over"},
           state : 0..MaxRuns, version : 0..MaxRuns,
           pending : Nat, inFlight : Nat, accepted : Nat, completed : Nat, failed : Nat,
           lastError : BOOLEAN, stopping : BOOLEAN, stopped : BOOLEAN]

\* Types; a save is in flight exactly between its start and its record.
TypeOK ==
  /\ clock \in 0..MaxRuns /\ disk \in 0..MaxRuns /\ told \in 0..MaxRuns
  /\ cur \in Workers \cup {None}
  /\ worker \in [Workers -> Worker]
  /\ run \in [at : {"idle", "ensuring", "submitting", "waiting", "stopping"},
              version : 0..MaxRuns, seq : Nat, direct : BOOLEAN]
  /\ \A w \in Workers : (worker[w].inFlight # None) <=> (worker[w].at \in {"saving", "saved"})

\* A direct run that was told its state is saved can rely on it: no later
\* save, failure, new worker or crash leaves an older state in the file.
ToldIsSaved == told <= disk

\* The newest state that may still be saved.
Newest ==
  IF cur = None THEN disk
  ELSE IF worker[cur].pending # None THEN worker[cur].version
  ELSE IF worker[cur].at = "saving" THEN worker[cur].state
  ELSE disk

Register == INSTANCE CacheRegister WITH newest <- Newest, saved <- disk

\* The cache file only advances, whichever worker writes it.
OnlyAdvances == Register!Spec

\* A direct run ends even if its context never does: its snapshot is saved, or
\* has failed, or the worker has stopped, and the worker stops.
Returns == (run.at # "idle") ~> (run.at = "idle")
=============================================================================
