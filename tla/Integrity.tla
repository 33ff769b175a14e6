----------------------------- MODULE Integrity ------------------------------
(***************************************************************************)
(* What the integrity check finds (pkg/engine/integrity_check.go and       *)
(* integrity.go), which recovery it plans for it (integrity_recovery.go), and*)
(* the cached outcome of the checks (integrity_cache.go).                  *)
(*                                                                         *)
(* The plan is a recheck of what lacks its input, or a reprocessing of what*)
(* only lacks its outputs; the one at startup and the one behind the admin's*)
(* request (pkg/web/integrity.go) differ.  Rounds of checking and recovering*)
(* are followed from every state of a small catalog.                       *)
(*                                                                         *)
(* The cache is cold, fresh, stale, or its refresh queued or running.  A   *)
(* refresh is submitted to the engine's lane, where equal ones coalesce, and*)
(* only then noted in the cache, so that the scan may be over before its   *)
(* caller notes it.  A run holds the lane while it processes and publishes *)
(* after it left it; the scan at startup holds no lane at all.  The reachable*)
(* states of a few such actors are computed, and the assumptions say what  *)
(* holds in all of them, and what does not.                                *)
(***************************************************************************)
EXTENDS Derivatives

(***************************************************************************)
(* The catalog: a plain feed p with its window feed h; a merge m of p      *)
(* without x, which also provides the bogons of p; a child c of the        *)
(* artifact A.                                                             *)
(***************************************************************************)
Checked == {"p", "x", "h", "m", "c"}
Outputs == [f \in Checked |-> IF f = "p" THEN {"p_bogons", "p_other"} ELSE {f \o "_other"}]

\* body: the feeds with a committed body; processed: those with a date of their
\* processing; raw: the child's extracted input is there; shots: the snapshots of
\* p within h's window; bad: outputs that are missing, stale or malformed.
Worlds ==
  [body : SUBSET Checked, processed : {Checked \ s : s \in SUBSET {"c", "m"}}, raw : BOOLEAN,
   shots : {"good", "none", "corrupt"}, bad : SUBSET {"p_bogons", "p_other", "m_other"},
   excludeEnabled : BOOLEAN, archived : SUBSET {"p"}, unavailable : SUBSET {"x"}]

MergeRow(w, f) ==
  IF f = "x" /\ ~w.excludeEnabled THEN DisabledInput
  ELSE Input(TRUE, IF f \in w.archived THEN "archived" ELSE "healthy", f \in w.body, {})
Blocking(w) ==
  {IF blocked[1] = "add" THEN "p" ELSE "x" :
     blocked \in BlockedInputs(<<MergeRow(w, "p")>>, <<MergeRow(w, "x")>>)}
MergeComposes(w) == IsComposed(ComposedMerge(<<MergeRow(w, "p")>>, <<MergeRow(w, "x")>>))
WindowComposes(w) == "p" \in w.body /\ w.shots # "corrupt"

(***************************************************************************)
(* The findings: [feed, blocked], or the feed is clean.                    *)
(***************************************************************************)
Finding(f, blocked) == [feed |-> f, blocked |-> blocked]

\* integrityBlockedBogonProviderArtifacts
BogonsBlocked(w, f) == IF "p_bogons" \in Outputs[f] \cap w.bad /\ "m" \notin w.body THEN {"m"} ELSE {}

\* findingForSource, in its order.
FindingsOf(w, f) ==
  CASE f \in w.archived                    -> {}
    [] f = "m" /\ Blocking(w) # {}         -> {Finding(f, Blocking(w))}
    [] f \notin w.processed                -> {Finding(f, {})}
    [] f \notin w.body                     -> IF f \in w.unavailable THEN {} ELSE {Finding(f, {})}
    [] f = "h" /\ ("p" \notin w.body \/ w.shots # "good") -> {Finding(f, {"p"})}
    [] Outputs[f] \cap w.bad # {}          -> {Finding(f, BogonsBlocked(w, f))}
    [] OTHER                               -> {}
Findings(w) == UNION {FindingsOf(w, f) : f \in Checked}

(***************************************************************************)
(* The recovery of a finding: what to recheck and what to reprocess.       *)
(***************************************************************************)
\* integrityRecheckTarget: none for a feed that has a body.
RecheckTargets(w, f) ==
  CASE f = "c" /\ w.raw      -> {"c"}
    [] f \in w.body          -> {}
    [] f = "c"               -> {"A"}
    [] OTHER                 -> {f}

\* integrityRecoveryForFinding
Recovery(w, finding) ==
  LET f     == finding.feed
      wants == IF f = "h" THEN finding.blocked
               ELSE UNION {RecheckTargets(w, blocked) : blocked \in finding.blocked}
      own   == RecheckTargets(w, f)
  IN IF f \in {"m", "h"} /\ wants # {} THEN [recheck |-> wants, reprocess |-> {}]
     ELSE [recheck |-> wants \cup own, reprocess |-> IF own = {} THEN {f} ELSE {}]

Plan(recoveries) ==
  LET recheck == UNION {r.recheck : r \in recoveries}
  IN [recheck |-> recheck, reprocess |-> UNION {r.reprocess : r \in recoveries} \ recheck]

\* IntegrityRecoveryPlan, at startup, and recoveryTargetsFromFindings, where a
\* finding has one action only.
StartupPlan(w) == Plan({Recovery(w, finding) : finding \in Findings(w)})
AdminPlan(w) ==
  Plan({IF r.recheck # {} THEN [r EXCEPT !.reprocess = {}] ELSE r :
          r \in {Recovery(w, finding) : finding \in Findings(w)}})

(***************************************************************************)
(* What a plan that succeeds leaves, every part of it working on what was  *)
(* there before.                                                           *)
(***************************************************************************)
\* resolveRecheckTarget: a window feed that cannot be composed is its parent.
Resolved(w, target) ==
  CASE target = "h" /\ ~WindowComposes(w)                 -> "p"
    [] target = "c" /\ ~w.raw /\ "c" \notin w.body        -> "A"
    [] OTHER                                              -> target

\* A new snapshot of the parent recomposes the window feed, a corrupt one stays.
Rechecked(w, targets) ==
  LET shots == IF "p" \in targets /\ w.shots = "none" THEN "good" ELSE w.shots
      fresh == {f \in {"p", "x"} : f \in targets}
                 \cup {f \in {"m"} : f \in targets /\ MergeComposes(w)}
                 \cup {f \in {"h"} : \/ f \in targets /\ WindowComposes(w)
                                     \/ "p" \in targets /\ w.shots = "none"}
                 \cup {f \in {"c"} : "A" \in targets \/ (f \in targets /\ w.raw)}
  IN [world |-> [w EXCEPT !.raw = w.raw \/ "A" \in targets, !.shots = shots,
                          !.unavailable = @ \ targets],
      fresh |-> fresh]

\* Processing writes the outputs, the bogons of p only against a usable merge.
AfterPlan(w, plan) ==
  LET checked == Rechecked(w, {Resolved(w, target) : target \in plan.recheck})
      done    == checked.fresh \cup (plan.reprocess \cap w.body)
      written == UNION {Outputs[f] : f \in done} \ (IF "m" \in w.body THEN {} ELSE {"p_bogons"})
  IN [checked.world EXCEPT !.body = @ \cup checked.fresh, !.processed = @ \cup done, !.bad = @ \ written]

AfterRounds(w, PlanFor(_), rounds) ==
  FoldSeq(LAMBDA n, world : AfterPlan(world, PlanFor(world)), w, [n \in 1 .. rounds |-> n])

(***************************************************************************)
(* What holds, and what does not.                                          *)
(***************************************************************************)
Mendable(w) == w.excludeEnabled /\ w.archived = {} /\ w.shots # "corrupt"

\* Where nothing is disabled, archived or corrupt, rounds of checks and recoveries
\* that succeed leave nothing to find after three rounds, whichever of the two
\* plans is followed.
ASSUME RecoveryHeals ==
  \A w \in Worlds : Mendable(w) =>
    /\ Findings(AfterRounds(w, StartupPlan, 3)) = {}
    /\ Findings(AfterRounds(w, AdminPlan, 3)) = {}

\* Only what has a body is reprocessed, which needs no download, nothing is both
\* rechecked and reprocessed, no recovery takes a body away, and a merge is not
\* touched in vain while its inputs are missing, unless outputs wait for it.
ASSUME PlansSensible ==
  \A w \in Worlds :
    /\ StartupPlan(w).reprocess \subseteq w.body
    /\ StartupPlan(w).reprocess \cap StartupPlan(w).recheck = {}
    /\ AdminPlan(w).recheck = StartupPlan(w).recheck
    /\ AdminPlan(w).reprocess \subseteq StartupPlan(w).reprocess
    /\ w.body \subseteq AfterPlan(w, StartupPlan(w)).body
    /\ (Mendable(w) /\ "p_bogons" \notin w.bad) =>
         ("m" \in StartupPlan(w).recheck \cup StartupPlan(w).reprocess => MergeComposes(w))
    /\ \A f \in w.body \ {"c"} : f \in StartupPlan(w).recheck => f = "p" /\ w.shots # "good"

\* The plans differ: where outputs wait for a provider that lacks its set, the
\* admin's request only rechecks the provider.
ASSUME AdminReprocessesLess ==
  \E w \in Worlds : Mendable(w) /\ AdminPlan(w).reprocess # StartupPlan(w).reprocess

\* A corrupt snapshot in the window is rechecked again and again through its
\* parent, whose recheck keeps it.
ASSUME CorruptStays ==
  \A w \in Worlds :
    (w.shots = "corrupt" /\ {"p", "h"} \subseteq w.body \cap w.processed) =>
       /\ Finding("h", {"p"}) \in Findings(w)
       /\ Finding("h", {"p"}) \in Findings(AfterPlan(w, StartupPlan(w)))

\* A merge whose subtractive input is disabled is reprocessed at every check, or
\* rechecked in vain, while its input stays disabled.
ASSUME DisabledExcludeStays ==
  \A w \in Worlds :
    ~w.excludeEnabled /\ w.archived = {} =>
      \E finding \in Findings(AfterRounds(w, StartupPlan, 3)) : finding.feed = "m"

(***************************************************************************)
(* The cache.  Work 0 is the scan at startup, which has no name.           *)
(***************************************************************************)
NoWork == -1
Cold == [state |-> "cold", work |-> NoWork, ended |-> FALSE, findings |-> {}, checks |-> 0]

\* setPipelineIntegrityQueuedLocked: what is known of this work already stays.
NotedQueued(cache, ticket) ==
  IF /\ cache.work = ticket.id
     /\ cache.state \in {"queued", "running", "fresh"} \/ cache.ended
  THEN cache
  ELSE [cache EXCEPT !.state = IF ticket.active THEN "running" ELSE "queued", !.work = ticket.id]

NotedRunning(cache, id) == [cache EXCEPT !.state = "running", !.work = id]

\* The scan at startup does not change the name of the work.
NotedStartup(cache) == [cache EXCEPT !.state = "running"]

SettledWell(cache, id, findings) ==
  [cache EXCEPT !.state = "fresh", !.work = id, !.ended = TRUE, !.findings = findings,
                !.checks = @ + 1]

SettledFailed(cache, id) ==
  [cache EXCEPT !.state = IF cache.findings = {} THEN "cold" ELSE "stale",
                !.work = id, !.ended = TRUE]

MarkedStale(cache) == IF cache.state = "fresh" THEN [cache EXCEPT !.state = "stale"] ELSE cache

(***************************************************************************)
(* The actors: callers that ask for one refresh each, the scans, one run   *)
(* that changes the files, and the scan at startup.                        *)
(***************************************************************************)
\* What a scan finds in a version of the files: the odd ones have a fault.
FindingsIn(version) == IF version % 2 = 1 THEN {version} ELSE {}

RunWork == 9
Work(id) == [id |-> id, at |-> "start", read |-> 0]
NoTicket == [id |-> NoWork, active |-> FALSE]

Beginning(setting) ==
  [cache |-> Cold, files |-> 0, lane |-> <<>>,
   callers |-> [c \in 1 .. setting.callers |-> [at |-> "idle", ticket |-> NoTicket]],
   run |-> IF setting.run THEN "waiting" ELSE "over",
   startup |-> [at |-> IF setting.startup THEN "waiting" ELSE "over", read |-> 0]]

ActiveIn(s, setting) == {i \in DOMAIN s.lane : i <= setting.slots}

\* Submit: a refresh that is in the lane already is the one the caller gets.
Submissions(s, setting) ==
  {LET found  == SelectInSeq(s.lane, LAMBDA w : w.id # RunWork)
       lane   == IF found = 0 THEN Append(s.lane, Work(c)) ELSE s.lane
       index  == IF found = 0 THEN Len(lane) ELSE found
   IN [s EXCEPT !.lane = lane,
                !.callers[c] = [at |-> "submitted",
                                ticket |-> [id |-> lane[index].id, active |-> index <= setting.slots]]]
   : c \in {d \in DOMAIN s.callers : s.callers[d].at = "idle"}}

\* trySetPipelineIntegrityQueued gives up when the cache is locked.
Notes(s) ==
  UNION {LET told == [s EXCEPT !.callers[c].at = "over"]
         IN {told, [told EXCEPT !.cache = NotedQueued(@, s.callers[c].ticket)]}
         : c \in {d \in DOMAIN s.callers : s.callers[d].at = "submitted"}}

\* A scan sets itself running, reads the files, settles, and leaves the lane.
ScanSteps(s, setting) ==
  UNION {LET w == s.lane[i]
             To(at) == [s EXCEPT !.lane[i].at = at]
         IN CASE w.id = RunWork -> {}
              [] w.id # RunWork /\ w.at = "start" ->
                   {[To("scan") EXCEPT !.cache = NotedRunning(@, w.id)]}
              [] w.id # RunWork /\ w.at = "scan" ->
                   {[To("settle") EXCEPT !.lane[i].read = s.files],
                    [To("leave") EXCEPT !.cache = SettledFailed(@, w.id)]}
              [] w.id # RunWork /\ w.at = "settle" ->
                   {[To("leave") EXCEPT !.cache = SettledWell(@, w.id, FindingsIn(w.read))]}
              [] w.id # RunWork /\ w.at = "leave" -> {[s EXCEPT !.lane = RemoveAt(@, i)]}
         : i \in ActiveIn(s, setting)}

\* A run: processes in the lane, then publishes outside and marks the caches.
RunSteps(s, setting) ==
  LET index == SelectInSeq(s.lane, LAMBDA w : w.id = RunWork)
  IN CASE s.run = "waiting" -> {[s EXCEPT !.run = "lane", !.lane = Append(@, Work(RunWork))]}
       [] s.run = "lane" ->
            IF index <= setting.slots
            THEN {[s EXCEPT !.run = "publishing", !.lane = RemoveAt(@, index)]} ELSE {}
       [] s.run = "publishing" -> {[s EXCEPT !.run = "published", !.files = @ + 1]}
       [] s.run = "published" -> {[s EXCEPT !.run = "over", !.cache = MarkedStale(@)]}
       [] s.run = "over" -> {}

\* queueStartupIntegrityRecovery.
StartupSteps(s) ==
  LET To(at) == [s EXCEPT !.startup.at = at]
  IN CASE s.startup.at = "waiting" -> {[To("scan") EXCEPT !.cache = NotedStartup(@)]}
       [] s.startup.at = "scan" ->
            {[To("settle") EXCEPT !.startup.read = s.files],
             [To("over") EXCEPT !.cache = SettledFailed(@, 0)]}
       [] s.startup.at = "settle" ->
            {[To("over") EXCEPT !.cache = SettledWell(@, 0, FindingsIn(s.startup.read))]}
       [] s.startup.at = "over" -> {}

Steps(s, setting) ==
  Submissions(s, setting) \cup Notes(s) \cup ScanSteps(s, setting) \cup RunSteps(s, setting)
    \cup StartupSteps(s)

Reached(setting) ==
  LET Successors(s) == Steps(s, setting)
  IN Explored(Successors, {Beginning(setting)}, {Beginning(setting)})

\* Bounds: at most two callers and one run, which makes the files faulty.
Setting(callers, run, startup, slots) ==
  [callers |-> callers, run |-> run, startup |-> startup, slots |-> slots]

(***************************************************************************)
(* What holds, and what does not.                                          *)
(***************************************************************************)
\* No one is about to change the cache or the files, no scan is under way.
Still(s) ==
  /\ s.lane = <<>> /\ s.run \in {"waiting", "over"} /\ s.startup.at # "scan" /\ s.startup.at # "settle"
  /\ \A c \in DOMAIN s.callers : s.callers[c].at # "submitted"

Waits(s) == s.cache.state \in {"queued", "running"}
SaysFalse(s) == s.cache.state = "fresh" /\ s.cache.findings # FindingsIn(s.files)

\* A refresh that is asked for alone never leaves the cache waiting, whenever
\* its caller notes it: before, during or after its scan.
ASSUME OneCallerSettles ==
  \A slots \in {1, 2}, run \in BOOLEAN :
    \A s \in Reached(Setting(1, run, FALSE, slots)) : Still(s) => ~Waits(s)

\* If nothing is published meanwhile, a cache that is called fresh tells what is
\* wrong with the files, with any number of callers and with the startup scan.
ASSUME FreshIsTrue ==
  \A startup \in BOOLEAN, slots \in {1, 2} :
    \A s \in Reached(Setting(2, FALSE, startup, slots)) : ~SaysFalse(s)

\* Only a check makes the cache fresh or stale, and a failed one does not let it
\* forget what the last good one found.
ASSUME FindingsKept ==
  \A s \in Reached(Setting(1, TRUE, TRUE, 1)) :
    /\ s.cache.checks = 0 => s.cache.findings = {}
    /\ s.cache.state = "cold" => s.cache.findings = {}
    /\ s.cache.state \in {"fresh", "stale"} => s.cache.checks > 0

\* A publication during a scan marks nothing, since the cache is not fresh, and
\* the scan then calls what it read before it fresh.  One slot is enough: a
\* refresh that waits for a run starts as the run leaves the lane to publish.
ASSUME MarkIsLost ==
  /\ \E s \in Reached(Setting(1, TRUE, FALSE, 1)) : Still(s) /\ SaysFalse(s)
  /\ \E s \in Reached(Setting(0, TRUE, TRUE, 1)) : Still(s) /\ SaysFalse(s)

\* A caller that notes its refresh after another caller's scan is over leaves
\* the cache waiting for a scan that will not come.
ASSUME LateNoteSticks ==
  \E s \in Reached(Setting(2, FALSE, FALSE, 1)) : Still(s) /\ Waits(s)
=============================================================================
