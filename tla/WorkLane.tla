------------------------------ MODULE WorkLane ------------------------------
(***************************************************************************)
(* The work lane of the engine (pkg/engine/work_lane.go): the one place    *)
(* where runs, entity refreshes, repairs, scans and clean-ups are admitted *)
(* to a limited number of slots, in order of arrival.                      *)
(*                                                                         *)
(* Run waits for a slot and executes on the caller, Submit leaves work to  *)
(* a goroutine and coalesces by key, TryRun executes at once or not at     *)
(* all.  Every critical section of the lane's mutex is one step; callers   *)
(* whose context ends, a limit that changes, and the shutdown that follows *)
(* the end of the attached context interleave with them.                   *)
(***************************************************************************)
EXTENDS Naturals, Sequences, FiniteSets

CONSTANTS
  Items,     (* pieces of work; one that is over may be asked for again     *)
  Keys,      (* CoalescingKey of submitted work                             *)
  NoKey,     (* Run and TryRun: the keys two callers give to Run are        *)
             (* never submitted                                             *)
  NoItem,
  MaxLimit   (* bound: the largest max_engine_lane_workers                  *)

ASSUME LaneAssumption ==
  /\ NoKey \notin Keys
  /\ NoItem \notin Items
  /\ MaxLimit \in Nat \ {0}
  /\ IsFiniteSet(Items)

VARIABLES
  limit,     (* l.limit                                                     *)
  queue,     (* l.queue                                                     *)
  active,    (* l.active                                                    *)
  owner,     (* l.coalescing                                                *)
  shut,      (* l.shutdown                                                  *)
  idleOpen,  (* l.idleOpen: the idle channel is not closed                  *)
  work,      (* the kind and the key of an item                             *)
  at,        (* where the goroutine that executes an item is                *)
  note,      (* item.syncStart, or the goroutine spawned for the item       *)
  gone,      (* items whose caller's context is done                        *)
  answer,    (* what the last caller was told, and whether its work ran     *)
  attached,  (* the context the lane is attached to is live                 *)
  closing    (* where Shutdown is                                           *)

calls == <<work, at, gone, answer>>
vars  == <<limit, queue, active, owner, shut, idleOpen, note, calls, attached, closing>>

Queued == {queue[j] : j \in DOMAIN queue}

Init ==
  /\ limit \in 1..MaxLimit
  /\ queue = <<>>
  /\ active = {}
  /\ owner = [k \in Keys |-> NoItem]
  /\ shut = FALSE
  /\ idleOpen = FALSE
  /\ work = [i \in Items |-> [kind |-> "none", key |-> NoKey]]
  /\ at = [i \in Items |-> "idle"]
  /\ note = [i \in Items |-> "none"]
  /\ gone = {}
  /\ answer = [i \in Items |-> [told |-> "none", ran |-> FALSE]]
  /\ attached = TRUE
  /\ closing = "no"

(***************************************************************************)
(* The critical sections.                                                  *)
(***************************************************************************)
LeastNat(m, n) == IF m < n THEN m ELSE n

\* len(l.active) < l.limit
Room(act, lim) == IF lim > Cardinality(act) THEN lim - Cardinality(act) ELSE 0

\* How many queued items scheduleLocked starts: none after a shutdown.
Grants(q, act, lim) == IF shut THEN 0 ELSE LeastNat(Room(act, lim), Len(q))

\* Faulty variant: the newest items are started.
ScheduleNewest(q, act, lim, notes) ==
  LET n     == Grants(q, act, lim)
      begun == {q[j] : j \in (Len(q) - n + 1)..Len(q)}
  IN /\ queue'    = SubSeq(q, 1, Len(q) - n)
     /\ active'   = act \cup begun
     /\ note'     = [i \in Items |-> IF i \in begun THEN "start" ELSE notes[i]]
     /\ idleOpen' = (act \cup begun # {})

\* scheduleLocked: the oldest items of q become active and are told to start.
Schedule(q, act, lim, notes) ==
  LET n     == Grants(q, act, lim)
      begun == {q[j] : j \in 1..n}
  IN /\ queue'    = SubSeq(q, n + 1, Len(q))
     /\ active'   = act \cup begun
     /\ note'     = [i \in Items |-> IF i \in begun THEN "start" ELSE notes[i]]
     /\ idleOpen' = (act \cup begun # {})

\* delete(l.coalescing, item.work.CoalescingKey)
Forget(i) == owner' = [k \in Keys |-> IF k = work[i].key THEN NoItem ELSE owner[k]]

\* newItemLocked
Ask(i, kind, key, place) ==
  /\ at[i] = "idle"
  /\ work'   = [work EXCEPT ![i] = [kind |-> kind, key |-> key]]
  /\ at'     = [at EXCEPT ![i] = place]
  /\ gone'   = gone \ {i}
  /\ answer' = [answer EXCEPT ![i] = [told |-> "none", ran |-> place = "running"]]

Tell(i, told) == answer' = [answer EXCEPT ![i].told = told]

(***************************************************************************)
(* Callers.                                                                *)
(***************************************************************************)
Run(i) ==
  /\ ~shut
  /\ Ask(i, "run", NoKey, "waiting")
  /\ Schedule(Append(queue, i), active, limit, note)
  /\ UNCHANGED <<limit, owner, shut, attached, closing>>

\* Faulty variant: only queued work coalesces.
SubmitBesideActive(i, k) ==
  /\ attached /\ ~shut
  /\ owner[k] \notin Queued
  /\ Ask(i, "submit", k, "waiting")
  /\ owner' = [owner EXCEPT ![k] = i]
  /\ Schedule(Append(queue, i), active, limit, note)
  /\ UNCHANGED <<limit, shut, attached, closing>>

\* Submitted work belongs to the attached context, not to its caller's.  A key
\* that is registered answers with the ticket of its item: nothing changes.
Submit(i, k) ==
  /\ attached /\ ~shut
  /\ owner[k] = NoItem
  /\ Ask(i, "submit", k, "waiting")
  /\ owner' = [owner EXCEPT ![k] = i]
  /\ Schedule(Append(queue, i), active, limit, note)
  /\ UNCHANGED <<limit, shut, attached, closing>>

TryRun(i) ==
  /\ ~shut
  /\ queue = <<>> /\ Cardinality(active) < limit
  /\ Ask(i, "try", NoKey, "running")
  /\ active' = active \cup {i}
  /\ idleOpen' = TRUE
  /\ UNCHANGED <<limit, queue, owner, shut, note, attached, closing>>

\* The context of a caller of Run ends while it waits.
Cancel(i) ==
  /\ at[i] = "waiting" /\ work[i].kind = "run"
  /\ gone' = gone \cup {i}
  /\ UNCHANGED <<limit, queue, active, owner, shut, idleOpen, work, at, note, answer,
                 attached, closing>>

\* Run, case <-ctx.Done(): an item that is still queued is taken out again.
GiveUp(i) ==
  /\ i \in gone /\ at[i] = "waiting"
  /\ \E j \in DOMAIN queue :
       /\ queue[j] = i
       /\ queue' = SubSeq(queue, 1, j - 1) \o SubSeq(queue, j + 1, Len(queue))
  /\ Forget(i)
  /\ at' = [at EXCEPT ![i] = "idle"]
  /\ Tell(i, "cancelled")
  /\ UNCHANGED <<limit, active, shut, idleOpen, work, note, gone, attached, closing>>

\* Shutdown has cancelled what was active.
Cancelled(i) == i \in gone \/ closing \notin {"no", "marked"}

\* The wait ends with a slot and the callback begins: that of Submit in any
\* case, that of Run unless its context is done by now.
Begin(i) ==
  /\ at[i] = "waiting" /\ note[i] = "start"
  /\ work[i].kind = "submit" \/ ~Cancelled(i)
  /\ note'   = [note EXCEPT ![i] = "none"]
  /\ at'     = [at EXCEPT ![i] = "running"]
  /\ answer' = [answer EXCEPT ![i].ran = TRUE]
  /\ UNCHANGED <<limit, queue, active, owner, shut, idleOpen, work, gone, attached, closing>>

\* Faulty variants: the key stays registered; nobody is started.
FinishItemKeepsKey(i, told) ==
  /\ at' = [at EXCEPT ![i] = "idle"]
  /\ Tell(i, told)
  /\ Schedule(queue, active \ {i}, limit, [note EXCEPT ![i] = "none"])
  /\ UNCHANGED <<limit, owner, shut, work, gone, attached, closing>>

FinishItemStartsNobody(i, told) ==
  /\ at' = [at EXCEPT ![i] = "idle"]
  /\ Tell(i, told)
  /\ Forget(i)
  /\ active' = active \ {i}
  /\ note' = [note EXCEPT ![i] = "none"]
  /\ idleOpen' = (active \ {i} # {})
  /\ UNCHANGED <<limit, queue, shut, work, gone, attached, closing>>

\* finishItemSafely: the slot and the key are free, others may start.
FinishItem(i, told) ==
  /\ at' = [at EXCEPT ![i] = "idle"]
  /\ Tell(i, told)
  /\ Forget(i)
  /\ Schedule(queue, active \ {i}, limit, [note EXCEPT ![i] = "none"])
  /\ UNCHANGED <<limit, shut, work, gone, attached, closing>>

\* runStartedSyncItem: the slot came too late and is given back unused.
TooLate(i) ==
  /\ at[i] = "waiting" /\ note[i] = "start"
  /\ work[i].kind = "run" /\ Cancelled(i)
  /\ FinishItem(i, "cancelled")

\* The callback returns, fails or panics.
Finish(i) ==
  /\ at[i] = "running"
  /\ FinishItem(i, "result")

\* runStartedSyncItem: the lane was shut down while the item was queued.
Refused(i) ==
  /\ at[i] = "waiting" /\ note[i] = "shutdown"
  /\ note' = [note EXCEPT ![i] = "none"]
  /\ at' = [at EXCEPT ![i] = "idle"]
  /\ Tell(i, "shutdown")
  /\ UNCHANGED <<limit, queue, active, owner, shut, idleOpen, work, gone, attached, closing>>

(***************************************************************************)
(* The lane.                                                               *)
(***************************************************************************)
\* Faulty variant: a limit of zero is taken as it is.
SetLimitUnclamped(n) ==
  /\ limit' = n
  /\ Schedule(queue, active, n, note)
  /\ UNCHANGED <<owner, shut, calls, attached, closing>>

SetLimit(n) ==
  LET lim == IF n < 1 THEN 1 ELSE n
  IN /\ limit' = lim
     /\ Schedule(queue, active, lim, note)
     /\ UNCHANGED <<owner, shut, calls, attached, closing>>

\* The context the lane is attached to ends; AttachContext then shuts it down.
Detach ==
  /\ attached
  /\ attached' = FALSE
  /\ UNCHANGED <<limit, queue, active, owner, shut, idleOpen, note, calls, closing>>

\* Faulty variant: the callers of queued work are not told.
ShutdownTellsNobody ==
  /\ ~attached /\ closing = "no"
  /\ shut' = TRUE
  /\ closing' = "marked"
  /\ queue' = <<>>
  /\ owner' = [k \in Keys |-> IF owner[k] \in Queued THEN NoItem ELSE owner[k]]
  /\ at' = [i \in Items |-> IF i \in Queued /\ work[i].kind = "submit"
                            THEN "idle" ELSE at[i]]
  /\ answer' = [i \in Items |-> IF i \in Queued /\ work[i].kind = "submit"
                                THEN [answer[i] EXCEPT !.told = "shutdown"] ELSE answer[i]]
  /\ UNCHANGED <<limit, active, idleOpen, work, gone, attached, note>>

\* Queued work is skipped: a waiting caller is told, submitted work forgotten.
Shutdown ==
  /\ ~attached /\ closing = "no"
  /\ shut' = TRUE
  /\ closing' = "marked"
  /\ queue' = <<>>
  /\ owner' = [k \in Keys |-> IF owner[k] \in Queued THEN NoItem ELSE owner[k]]
  /\ note' = [i \in Items |-> IF i \in Queued /\ work[i].kind = "run"
                              THEN "shutdown" ELSE note[i]]
  /\ at' = [i \in Items |-> IF i \in Queued /\ work[i].kind = "submit"
                            THEN "idle" ELSE at[i]]
  /\ answer' = [i \in Items |-> IF i \in Queued /\ work[i].kind = "submit"
                                THEN [answer[i] EXCEPT !.told = "shutdown"] ELSE answer[i]]
  /\ UNCHANGED <<limit, active, idleOpen, work, gone, attached>>

CancelActive ==
  /\ closing = "marked"
  /\ closing' = "waiting"
  /\ UNCHANGED <<limit, queue, active, owner, shut, idleOpen, note, calls, attached>>

\* Faulty variant: the end of any item ends the wait.
ShutdownReturnsEarly ==
  /\ closing = "waiting"
  /\ \/ Cardinality(active) <= 1 /\ closing' = "quiet"
     \/ closing' = "timeout"
  /\ UNCHANGED <<limit, queue, active, owner, shut, idleOpen, note, calls, attached>>

\* case <-idle, case <-timer.C
ShutdownReturns ==
  /\ closing = "waiting"
  /\ \/ ~idleOpen /\ closing' = "quiet"
     \/ closing' = "timeout"
  /\ UNCHANGED <<limit, queue, active, owner, shut, idleOpen, note, calls, attached>>

Execute(i) == Begin(i) \/ TooLate(i) \/ Refused(i) \/ Finish(i)

Next ==
  \/ \E i \in Items :
       \/ Run(i)
       \/ \E k \in Keys : Submit(i, k)
       \/ TryRun(i)
       \/ Cancel(i)
       \/ GiveUp(i)
       \/ Execute(i)
  \/ \E n \in 0..MaxLimit : SetLimit(n)
  \/ Detach
  \/ Shutdown
  \/ CancelActive
  \/ ShutdownReturns

\* Callers that were told go on, and callbacks return: they end with their
\* context or earlier.
Fairness == \A i \in Items : WF_vars(Execute(i))

Spec     == Init /\ [][Next]_vars
FairSpec == Spec /\ Fairness

(***************************************************************************)
(* Properties.                                                             *)
(***************************************************************************)
\* Every variable has its type.
TypeOK ==
  /\ limit \in 1..MaxLimit
  /\ queue \in Seq(Items)
  /\ active \in SUBSET Items
  /\ owner \in [Keys -> Items \cup {NoItem}]
  /\ shut \in BOOLEAN
  /\ idleOpen \in BOOLEAN
  /\ work \in [Items -> [kind : {"none", "run", "submit", "try"}, key : Keys \cup {NoKey}]]
  /\ at \in [Items -> {"idle", "waiting", "running"}]
  /\ note \in [Items -> {"none", "start", "shutdown"}]
  /\ gone \in SUBSET Items
  /\ answer \in [Items -> [told : {"none", "result", "cancelled", "shutdown"}, ran : BOOLEAN]]
  /\ attached \in BOOLEAN
  /\ closing \in {"no", "marked", "waiting", "quiet", "timeout"}

\* Nothing waits while a slot is free, through every change of the limit, every
\* caller that gives up and every slot given back unused.
WorkConserving == queue # <<>> => Cardinality(active) >= limit

\* Of the submitted work that is queued or being done, no two items have the
\* same key, and a key is registered for exactly that item: a duplicate is
\* always absorbed, and a key never blocks new work for good.
KeyOwner ==
  /\ \A i \in Queued \cup active : work[i].kind = "submit" => owner[work[i].key] = i
  /\ \A k \in Keys : owner[k] # NoItem =>
       /\ owner[k] \in Queued \cup active
       /\ work[owner[k]].key = k

\* A caller that waits is queued, or has been told something it has yet to read:
\* no race of cancellation, start and shutdown leaves it waiting for ever.  And
\* it never hears that its work did not run when it did, or the opposite.
Answered ==
  \A i \in Items :
    /\ at[i] = "waiting" => i \in Queued \/ note[i] # "none"
    /\ answer[i].told # "none" => (answer[i].ran <=> answer[i].told = "result")

\* When Shutdown returns before its grace period is over, nothing of the lane
\* runs or will run.
Quiesced == closing = "quiet" => active = {} /\ queue = <<>>

\* Whoever waits for a slot is served or told otherwise in the end, whatever
\* keeps arriving.
Settles == \A i \in Items : at[i] = "waiting" ~> at[i] # "waiting"
=============================================================================
