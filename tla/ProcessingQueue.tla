-------------------------- MODULE ProcessingQueue --------------------------
(***************************************************************************)
(* The processing queue of the scheduler (pkg/scheduler): how requests to  *)
(* process feeds reach the processing loop, which works on one batch at a  *)
(* time, and what becomes of them when the batch fails, fails for some of  *)
(* its feeds, or panics, and when requests arrive meanwhile.               *)
(*                                                                         *)
(* What processing a feed means is the subject of FeedHandoff.  Here every *)
(* critical section of stateMu is one step.                                *)
(***************************************************************************)
EXTENDS FiniteSets

CONSTANT Feeds

VARIABLES
  waiting,   (* processing.waiting: what each feed waits for               *)
  active,    (* processing.active                                          *)
  deferred,  (* processing.deferred                                        *)
  loop,      (* where the processing loop is                               *)
  items,     (* the batch it drained                                       *)
  failed,    (* the feeds of the batch that failed                         *)
  released,  (* finishing the batch queued a deferred request              *)
  token,     (* the wake-up channel, of capacity one, is full              *)
  wakers,    (* loops that requested processing and have yet to wake       *)
  owed,      (* history: feeds requested, or failed, and not active since  *)
  fresh,     (* history: feeds that wait because of a request or deferral  *)
  wanted     (* history: feeds owed together with a promotion              *)

LoopStates == {"sleep", "drain", "mark", "run", "finish", "requeue", "wake",
               "refresh", "recover", "rewake", "end"}
Requesters == {"worker", "action"}

queue   == <<waiting, active, deferred>>
batch   == <<loop, items, failed, released>>
wakeup  == <<token, wakers>>
history == <<owed, fresh, wanted>>
vars    == <<queue, batch, wakeup, history>>

(***************************************************************************)
(* A queued item names a feed and, when the request came from a provider,  *)
(* the staged archive to promote once the feed is processed with it.       *)
(***************************************************************************)
Works   == {"plain", "promote"}
Empty   == [f \in Feeds |-> "none"]
Names(queued) == {f \in Feeds : queued[f] # "none"}

\* Faulty variants: what is merged becomes a third thing; the newer request
\* replaces the older one.
MergeMixed(current, incoming) ==
  IF current # "none" /\ current # incoming THEN "mixed" ELSE incoming

MergeLast(current, incoming) == IF incoming # "none" THEN incoming ELSE current

\* mergeQueuedWork unites the names to promote (mergePromoteNames).
Merge(current, incoming) ==
  CASE "promote" \in {current, incoming} -> "promote"
    [] {current, incoming} \cap Works = {"plain"} -> "plain"
    [] OTHER -> "none"

Init ==
  /\ waiting  = Empty
  /\ active   = {}
  /\ deferred = Empty
  /\ loop     = "sleep"
  /\ items    = Empty
  /\ failed   = {}
  /\ released = FALSE
  /\ token    = FALSE
  /\ wakers   = {}
  /\ owed     = {}
  /\ fresh    = {}
  /\ wanted   = {}

(***************************************************************************)
(* Requests.                                                               *)
(***************************************************************************)
\* enqueueProcessingLocked
Enqueue(f, work) ==
  /\ IF f \in active \ Names(waiting)
       THEN /\ deferred' = [deferred EXCEPT ![f] = Merge(@, work)]
            /\ UNCHANGED waiting
       ELSE /\ waiting' = [waiting EXCEPT ![f] = Merge(@, work)]
            /\ UNCHANGED deferred
  /\ owed' = owed \cup {f}
  /\ wanted' = IF work = "promote" THEN wanted \cup {f} ELSE wanted
  /\ UNCHANGED <<active, batch, token>>

\* A download worker hands its result over, the action loop handles a
\* reprocess, or startup recovers a body: the loop is woken afterwards.
Request(f, work, requester) ==
  /\ Enqueue(f, work)
  /\ wakers' = wakers \cup {requester}
  /\ fresh'  = IF f \in Names(waiting') THEN fresh \cup {f} ELSE fresh

\* enqueueProviderDefaultsReprocess leaves the wave to the timer.
RequestWave(f) == Enqueue(f, "plain") /\ UNCHANGED <<wakers, fresh>>

\* wakeProcessLoop
Wake(requester) ==
  /\ requester \in wakers
  /\ token' = TRUE
  /\ wakers' = wakers \ {requester}
  /\ UNCHANGED <<queue, batch, history>>

(***************************************************************************)
(* The processing loop.                                                    *)
(***************************************************************************)
WakeUp ==
  /\ loop = "sleep"
  /\ token
  /\ token' = FALSE
  /\ loop' = "drain"
  /\ UNCHANGED <<queue, items, failed, released, wakers, history>>

TimerFires ==
  /\ loop = "sleep"
  /\ loop' = "drain"
  /\ UNCHANGED <<queue, items, failed, released, wakeup, history>>

\* drainProcessingQueue: the whole queue, or back to sleep.
Drain ==
  /\ loop = "drain"
  /\ waiting' = Empty
  /\ items' = waiting
  /\ fresh' = {}
  /\ loop' = IF waiting = Empty THEN "sleep" ELSE "mark"
  /\ UNCHANGED <<active, deferred, failed, released, wakeup, owed, wanted>>

\* The feeds of the batch whose success promotes an archive
\* (promoteNamesForBatch).
Promoting == {f \in Feeds : items[f] = "promote"}

\* markProcessingActive
MarkActive ==
  /\ loop = "mark"
  /\ active' = active \cup Names(items)
  /\ owed'   = owed \ Names(items)
  /\ wanted' = wanted \ Promoting
  /\ loop' = "run"
  /\ UNCHANGED <<waiting, deferred, items, failed, released, wakeup, fresh>>

Fails(some, pc) ==
  /\ failed' = some
  /\ owed' = owed \cup some
  /\ wanted' = wanted \cup (some \cap Promoting)
  /\ loop' = pc
  /\ UNCHANGED <<queue, items, released, wakeup, fresh>>

\* RunOnce returns a report that names the feeds that failed.
RunReports == loop = "run" /\ \E some \in SUBSET Names(items) : Fails(some, "finish")

\* RunOnce returns an error: no feed of the batch is done, and the batch ends
\* once it is queued again.
RunFails == loop = "run" /\ Fails(Names(items), "recover")

\* A panic of the engine run, or of the refresh that ends a batch, is
\* recovered by queueing the whole batch again, done or not.
Panic == loop \in {"run", "refresh"} /\ Fails(Names(items), "recover")

\* Faulty variant: the deferred request goes with the feed it was for.
ForgetDeferred(done) ==
  /\ deferred' = [f \in Feeds |-> IF f \in done THEN "none" ELSE deferred[f]]
  /\ UNCHANGED <<waiting, released, fresh>>

\* A deferred request is queued when its feed is released.
QueueDeferred(done) ==
  LET again == done \cap Names(deferred)
  IN  /\ waiting'  = [f \in Feeds |-> IF f \in again THEN Merge(waiting[f], deferred[f])
                                      ELSE waiting[f]]
      /\ deferred' = [f \in Feeds |-> IF f \in done THEN "none" ELSE deferred[f]]
      /\ released' = (released \/ again # {})
      /\ fresh'    = fresh \cup again

\* finishProcessing(success, requeue = FALSE)
FinishSucceeded ==
  /\ loop = "finish"
  /\ active' = active \ (Names(items) \ failed)
  /\ QueueDeferred(Names(items) \ failed)
  /\ loop' = IF failed = {} THEN "wake" ELSE "requeue"
  /\ UNCHANGED <<items, failed, wakeup, owed, wanted>>

\* Faulty variants: the deferred request stays behind; failed feeds are dropped.
RequeueOnly ==
  /\ loop \in {"requeue", "recover"}
  /\ active'  = active \ failed
  /\ waiting' = [f \in Feeds |-> IF f \in failed THEN Merge(waiting[f], items[f])
                                 ELSE waiting[f]]
  /\ loop' = IF loop = "requeue" THEN "wake" ELSE "rewake"
  /\ UNCHANGED <<deferred, released, fresh, items, failed, wakeup, owed, wanted>>

DropFailed ==
  /\ loop \in {"requeue", "recover"}
  /\ active' = active \ failed
  /\ QueueDeferred(failed)
  /\ loop' = IF loop = "requeue" THEN "wake" ELSE "rewake"
  /\ UNCHANGED <<items, failed, wakeup, owed, wanted>>

\* finishProcessing(failed, requeue = TRUE): the deferred request merges into
\* the retry, which by itself waits for the timer.
FinishFailed ==
  /\ loop \in {"requeue", "recover"}
  /\ active'   = active \ failed
  /\ waiting'  = [f \in Feeds |-> IF f \in failed
                                  THEN Merge(waiting[f], Merge(items[f], deferred[f]))
                                  ELSE waiting[f]]
  /\ deferred' = [f \in Feeds |-> IF f \in failed THEN "none" ELSE deferred[f]]
  /\ released' = (released \/ failed \cap Names(deferred) # {})
  /\ fresh'    = fresh \cup (failed \cap Names(deferred))
  /\ loop' = IF loop = "requeue" THEN "wake" ELSE "rewake"
  /\ UNCHANGED <<items, failed, wakeup, owed, wanted>>

\* Faulty variant: released requests are left to the timer.
NoWake ==
  /\ loop \in {"wake", "rewake"}
  /\ released' = FALSE
  /\ loop' = IF loop = "wake" THEN "refresh" ELSE "end"
  /\ UNCHANGED <<queue, items, failed, wakeup, history>>

\* The loop wakes itself for what it released.
WakeSelf ==
  /\ loop \in {"wake", "rewake"}
  /\ token' = (token \/ released)
  /\ released' = FALSE
  /\ loop' = IF loop = "wake" THEN "refresh" ELSE "end"
  /\ UNCHANGED <<queue, items, failed, wakers, history>>

EndBatch ==
  /\ loop \in {"refresh", "end"}
  /\ items' = Empty
  /\ failed' = {}
  /\ loop' = "sleep"
  /\ UNCHANGED <<queue, released, wakeup, history>>

Loop ==
  \/ WakeUp
  \/ Drain
  \/ MarkActive
  \/ RunReports
  \/ RunFails
  \/ FinishSucceeded
  \/ FinishFailed
  \/ WakeSelf
  \/ EndBatch

Next ==
  \/ \E f \in Feeds :
       \/ \E work \in Works, r \in Requesters : Request(f, work, r)
       \/ RequestWave(f)
  \/ \E r \in Requesters : Wake(r)
  \/ Loop
  \/ TimerFires
  \/ Panic

\* The loop goes on; requesters wake it.
Fairness == WF_vars(Loop) /\ \A r \in Requesters : WF_vars(Wake(r))

Spec     == Init /\ [][Next]_vars
FairSpec == Spec /\ Fairness

(***************************************************************************)
(* Properties.                                                             *)
(***************************************************************************)
\* Every variable has its type.
TypeOK ==
  /\ waiting  \in [Feeds -> Works \cup {"none"}]
  /\ active   \subseteq Feeds
  /\ deferred \in [Feeds -> Works \cup {"none"}]
  /\ loop     \in LoopStates
  /\ items    \in [Feeds -> Works \cup {"none"}]
  /\ failed   \subseteq Feeds
  /\ released \in BOOLEAN
  /\ token    \in BOOLEAN
  /\ wakers   \subseteq Requesters
  /\ owed     \subseteq Feeds
  /\ fresh    \subseteq Feeds
  /\ wanted   \subseteq Feeds

\* "The engine MUST NOT silently drop a processing request once it has been
\* admitted" (.agents/sow/specs/processing-engine.md:420): whatever was
\* requested since its feed last became active, and whatever failed, is
\* queued, deferred, or in the loop's hands.
InHand == CASE loop = "mark" -> Names(items)
            [] loop \in {"finish", "requeue", "recover"} -> failed
            [] OTHER -> {}

NoDroppedRequest == owed \subseteq Names(waiting) \cup Names(deferred) \cup InHand

\* A deferred request belongs to a feed the batch still holds, and an active
\* feed to the batch: neither can be left over when the loop sleeps.
ActiveIsBatch ==
  /\ Names(deferred) \subseteq active
  /\ active \subseteq Names(items)
  /\ loop \notin {"run", "finish", "requeue", "recover"} => active = {}

\* The loop does not sleep through a request: if one waits, the channel is
\* full or whoever made the request is about to fill it.
NoLostWakeUp == loop = "sleep" /\ fresh # {} => token \/ wakers # {}

\* An archive is promoted only by a batch that processed a feed with it: the
\* promotion asked for with a feed stays with the feed through merges,
\* deferrals, failures and panics until a batch takes both.
\* (queue_admission.go:42, pipeline.md:598: "at least one full reprocess runs
\* after the latest successful provider update".)
PromoteKept ==
  \A f \in wanted : \/ "promote" \in {waiting[f], deferred[f]}
                    \/ f \in InHand \cap Promoting

\* A request is processed without waiting for the timer; and if the timer fires,
\* whatever is owed is processed, retries and waves included.
Served ==
  /\ \A f \in Feeds : f \in fresh ~> f \in active
  /\ WF_vars(TimerFires) => \A f \in Feeds : f \in owed ~> f \in active
=============================================================================
