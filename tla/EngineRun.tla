----------------------------- MODULE EngineRun -----------------------------
(***************************************************************************)
(* What a run of the engine publishes (pkg/engine/run.go, run_pipeline.go, *)
(* and the writers it calls): from the feeds it updated and from what      *)
(* drifted in the configuration, the plan of the run decides the phases it *)
(* goes through and, for each family of artifacts, the feeds whose         *)
(* artifacts are written again.                                            *)
(*                                                                         *)
(* A body is not modelled: what counts is which bodies are new.  An        *)
(* artifact is a pair <<kind, feed>>.                                      *)
(***************************************************************************)
EXTENDS Naturals, SequencesExt, FiniteSetsExt

(***************************************************************************)
(* The catalog: a plain feed, another one of IPv6, databases of countries  *)
(* and of networks, a list of bogons, a reference of critical              *)
(* infrastructure, a wide provider list, and a hidden feed.                *)
(***************************************************************************)
Plain == {"plain", "plain6"}
CatalogNames == Plain \cup {"geo", "net", "bogon", "critical", "wide", "hidden"}

UsesOf == [plain |-> {}, plain6 |-> {}, geo |-> {"geoip"}, net |-> {"asn"}, bogon |-> {"bogons"},
           critical |-> {"critical"}, wide |-> {"context"}, hidden |-> {}]

RoleNames == {"geoip", "asn", "bogons", "critical"}
HasUse(name, roles) == UsesOf[name] \cap roles # {}

\* Databases are never feeds, and hidden feeds are not published.
Databases == {name \in CatalogNames : HasUse(name, {"asn", "geoip"})}
PublicNames == CatalogNames \ (Databases \cup {"hidden"})

\* Overlaps with critical infrastructure are of IPv4 feeds that are no reference themselves.
CriticalTargets(names) == {name \in names : name # "plain6" /\ ~HasUse(name, {"critical", "context"})}

Options == [recheck : BOOLEAN, reprocess : BOOLEAN, selected : {{}, {"plain"}, {"geo"}}]
Drifts == [critical : BOOLEAN, defaults : BOOLEAN]

\* A global reprocess names no feed.
Globally(opts) == opts.reprocess /\ opts.selected = {}

(***************************************************************************)
(* The plan.  No feed stands for all of them.                              *)
(***************************************************************************)
TargetFeedsForFanOut(updated, roles) ==
  IF updated = {} \/ (\E name \in updated : HasUse(name, roles))
  THEN PublicNames
  ELSE updated \cap PublicNames

OnlyCriticalProviderSetChanged(drift, updated, opts) ==
  /\ drift.critical
  /\ opts.selected \cap Databases = {}
  /\ ~opts.recheck
  /\ ~Globally(opts)
  /\ \A name \in updated : HasUse(name, {"critical"})

PlanOf(drift, updated, opts, skipComparison) ==
  LET due == updated # {} \/ opts.selected \cap Databases # {} \/ drift.critical \/ drift.defaults
      all == {}
  IN [publish |-> due \/ opts.reprocess,
      skipHeavy |-> ~due /\ skipComparison /\ ~opts.recheck /\ ~opts.reprocess,
      criticalOnly |-> ~drift.defaults /\ OnlyCriticalProviderSetChanged(drift, updated, opts),
      fanOut |-> IF Globally(opts) \/ drift.defaults THEN all ELSE updated,
      critical |-> IF Globally(opts) \/ drift.critical \/ drift.defaults THEN all ELSE updated,
      comparison |-> IF Globally(opts) THEN all ELSE updated,
      perFeed |-> IF drift.defaults \/ Globally(opts) THEN PublicNames
                  ELSE updated \cap PublicNames,
      insights |-> IF drift.critical \/ drift.defaults \/ Globally(opts) THEN all ELSE updated]

(***************************************************************************)
(* The phases, announced from the plan and as the run takes them.          *)
(***************************************************************************)
PlannedPhases(plan) ==
  <<"preflight", "sources">>
    \o IF ~plan.publish THEN <<>>
       ELSE (IF plan.skipHeavy THEN <<>>
             ELSE IF plan.criticalOnly THEN <<"critical">>
             ELSE <<"geoip", "bogons", "asn", "critical", "entities">>)
            \o <<"metadata">>
            \o (IF plan.skipHeavy THEN <<>> ELSE <<"insights">>)
            \o <<"publish">>

\* Each phase with the kinds of artifacts it stages.
HeavyPhases(plan) ==
  IF plan.skipHeavy THEN <<>>
  ELSE IF plan.criticalOnly THEN <<[phase |-> "critical", kinds |-> {"critical"}]>>
  ELSE <<[phase |-> "geoip", kinds |-> {"country"}],
         [phase |-> "bogons", kinds |-> {"bogons"}],
         [phase |-> "asn", kinds |-> {"asn"}],
         [phase |-> "critical", kinds |-> {"critical"}],
         [phase |-> "entities", kinds |-> {"sidecar"}]>>

TakenPhases(plan) ==
  <<[phase |-> "preflight", kinds |-> {}], [phase |-> "sources", kinds |-> {}]>>
    \o IF ~plan.publish THEN <<>>
       ELSE HeavyPhases(plan)
            \o <<[phase |-> "metadata",
                  kinds |-> IF plan.skipHeavy THEN {"metadata"} ELSE {"metadata", "comparison"}]>>
            \o (IF plan.skipHeavy THEN <<>> ELSE <<[phase |-> "insights", kinds |-> {"insights"}]>>)
            \o <<[phase |-> "publish", kinds |-> {}]>>

\* The feeds each writer of a run with this plan writes its artifacts for.
CountriesFor(plan) == TargetFeedsForFanOut(plan.fanOut, {"geoip"})
BogonsFor(plan) == TargetFeedsForFanOut(plan.fanOut, {"bogons"})
NetworksFor(plan) == TargetFeedsForFanOut(plan.fanOut, {"asn", "bogons"})
CriticalFor(plan) == CriticalTargets(TargetFeedsForFanOut(plan.critical, {"critical", "asn"}))
SidecarsFor(plan) == TargetFeedsForFanOut(plan.fanOut, {"geoip", "asn", "bogons"})
ComparisonsFor(plan) == TargetFeedsForFanOut(plan.comparison, {})
InsightsFor(plan) == TargetFeedsForFanOut(plan.insights, RoleNames)

WrittenFor(plan) ==
  [country |-> CountriesFor(plan), bogons |-> BogonsFor(plan), asn |-> NetworksFor(plan),
   critical |-> CriticalFor(plan), sidecar |-> SidecarsFor(plan),
   comparison |-> ComparisonsFor(plan), metadata |-> plan.perFeed, insights |-> InsightsFor(plan)]

StagedBy(plan) ==
  UNION {{<<kind, name>> : name \in WrittenFor(plan)[kind]} :
         kind \in UNION {step.kinds : step \in Range(TakenPhases(plan))}}

(***************************************************************************)
(* What is out of date when bodies are new and the configuration drifted:  *)
(* the artifacts of a feed are computed from its body, from the bodies of  *)
(* the providers of some roles, and, where the name or the metadata of a   *)
(* provider is part of them, from the configuration.                       *)
(***************************************************************************)
ReadsRoles == [country |-> {"geoip"}, bogons |-> {"bogons"}, asn |-> {"asn", "bogons"},
               critical |-> {"critical", "asn"}, sidecar |-> {"geoip", "asn", "bogons"},
               comparison |-> {}, metadata |-> {}, insights |-> RoleNames]

Kinds == DOMAIN ReadsRoles

ReadsDrift(kind, drift) ==
  \/ drift.critical /\ kind \in {"critical", "insights"}
  \/ drift.defaults /\ kind \in {"critical", "sidecar", "metadata", "insights"}

ArtifactsOf(name) ==
  {kind \in Kinds : name \in PublicNames /\ (kind = "critical" => name \in CriticalTargets({name}))}

OutOfDate(new, drift) ==
  {<<kind, name>> \in Kinds \X CatalogNames :
    /\ kind \in ArtifactsOf(name)
    /\ \/ name \in new
       \/ \E provider \in new : HasUse(provider, ReadsRoles[kind])
       \/ ReadsDrift(kind, drift)}

(***************************************************************************)
(* The batches that reach a run.  A database is not among the updated: its *)
(* new body comes with a reprocess of all feeds, or is named by itself.    *)
(***************************************************************************)
BatchesOf(opts) ==
  LET feeds == CatalogNames \ Databases
  IN [updated : SUBSET feeds, databases : {{}}]
       \cup [updated : {feeds}, databases : SUBSET Databases]
       \cup (IF "geo" \in opts.selected THEN [updated : {{}}, databases : {{"geo"}}] ELSE {})

LeftBehind(batch, drift, opts) ==
  LET plan == PlanOf(drift, batch.updated, opts, TRUE)
      stale == OutOfDate(batch.updated \cup batch.databases, drift)
  IN IF plan.publish THEN stale \ StagedBy(plan) ELSE stale

\* A run publishes again everything that its updates and drifts made out of date, but for the
\* references of critical infrastructure themselves, when a drift of their set comes along.
ASSUME EverythingFollows ==
  \A opts \in Options, drift \in Drifts :
    \A batch \in BatchesOf(opts) :
      LET shortcut == PlanOf(drift, batch.updated, opts, TRUE).criticalOnly
      IN LeftBehind(batch, drift, opts)
           = IF shortcut
             THEN {"country", "bogons", "asn", "sidecar"} \X {name \in batch.updated : HasUse(name, {"critical"})}
             ELSE {}

\* A reference added to the catalog arrives together with the drift it causes, and gets no
\* countries, networks or bogons of its own until it changes again.
ASSUME ReferenceLeftBehind ==
  <<"country", "critical">> \in
    LeftBehind([updated |-> {"critical"}, databases |-> {}],
               [critical |-> TRUE, defaults |-> FALSE],
               [recheck |-> FALSE, reprocess |-> FALSE, selected |-> {"plain"}])

\* An update of a reference alone writes nothing of other feeds but what reads references.
ASSUME RoleScoped ==
  \A opts \in {o \in Options : ~o.reprocess /\ o.selected = {}} :
    LET plan == PlanOf([critical |-> FALSE, defaults |-> FALSE], {"critical"}, opts, TRUE)
    IN \A pair \in StagedBy(plan) : pair[2] # "critical" => pair[1] \in {"critical", "insights"}

\* The phases a run announces are those it takes, in their order.
ASSUME AnnouncedIsTaken ==
  \A opts \in Options, drift \in Drifts, updated \in SUBSET (CatalogNames \ Databases), skip \in BOOLEAN :
    LET plan == PlanOf(drift, updated, opts, skip)
    IN PlannedPhases(plan) = [i \in DOMAIN TakenPhases(plan) |-> TakenPhases(plan)[i].phase]

\* A run that publishes is never one that may skip the heavy phases: the setting that allows
\* it (skip_comparison_if_no_updates) changes nothing a run does.
ASSUME SkippingIsMoot ==
  \A opts \in Options, drift \in Drifts, updated \in SUBSET (CatalogNames \ Databases) :
    LET with == PlanOf(drift, updated, opts, TRUE)
        without == PlanOf(drift, updated, opts, FALSE)
    IN /\ ~(with.publish /\ with.skipHeavy)
       /\ with.publish = without.publish
       /\ TakenPhases(with) = TakenPhases(without)

(***************************************************************************)
(* Several runs.  A run that fails leaves its batch to be retried; a run   *)
(* that crashes leaves nothing but the files.  Publication replaces the    *)
(* artifacts, then those of entities, and then notes, in markers, the      *)
(* identities of the configuration that the artifacts were written for.    *)
(* The identity of the set of references is read once, with the plan; the  *)
(* configuration may be reloaded at any time.                              *)
(***************************************************************************)
FirstIdentity == 0
IdentityBound == 1
RunBound == 3

\* The feeds whose artifacts show the identity they were stamped with.
StampedFeeds == CriticalTargets(PublicNames)

FirstWorld ==
  [config |-> FirstIdentity, marker |-> FirstIdentity,
   stamp |-> [name \in StampedFeeds |-> FirstIdentity],
   stale |-> {}, retry |-> {}, runs |-> 0,
   broken |-> FALSE, crashed |-> FALSE]

\* The identities a reload may leave.
Reloads(w) == {w} \cup {[w EXCEPT !.config = i] : i \in 0..IdentityBound}

Outcomes == {"failsBefore", "failsAfterWeb", "crashes", "succeeds"}

\* What a run stamps and notes: the identity that its plan captured.
CapturedIdentity(planned, current) == planned

Published(w, plan, planned, marked) ==
  [w EXCEPT !.stamp = [name \in StampedFeeds |->
                         IF <<"critical", name>> \in StagedBy(plan) THEN planned ELSE @[name]],
            !.stale = @ \ StagedBy(plan),
            !.marker = IF marked /\ w.marker # planned THEN CapturedIdentity(planned, w.config) ELSE @]

RunIn(w, new, outcome) ==
  LET updated == new \cup w.retry
      drift == [critical |-> w.marker # w.config, defaults |-> FALSE]
      plan == PlanOf(drift, updated, [recheck |-> FALSE, reprocess |-> FALSE, selected |-> updated], TRUE)
      begun == [w EXCEPT !.stale = @ \cup OutOfDate(new, [critical |-> FALSE, defaults |-> FALSE]),
                         !.runs = @ + 1]
  IN {LET after ==
            CASE outcome = "failsBefore" -> during
              [] outcome = "crashes" -> during
              [] outcome = "failsAfterWeb" ->
                   IF plan.publish THEN Published(during, plan, w.config, FALSE) ELSE during
              [] outcome = "succeeds" ->
                   IF plan.publish THEN Published(during, plan, w.config, TRUE) ELSE during
      IN [after EXCEPT !.retry = IF outcome \in {"crashes", "succeeds"} THEN {} ELSE updated,
                       !.broken = @ \/ outcome = "failsAfterWeb",
                       !.crashed = @ \/ outcome = "crashes"] :
      during \in Reloads(begun)}

RunsFrom(w) ==
  IF w.runs = RunBound THEN {}
  ELSE UNION {RunIn(reloaded, new, outcome) :
              reloaded \in Reloads(w), new \in {{}, {"plain"}, {"critical"}}, outcome \in Outcomes}

RECURSIVE WorldsFrom(_, _)
WorldsFrom(frontier, known) ==
  LET found == (UNION {RunsFrom(w) : w \in frontier}) \ known
  IN IF found = {} THEN known ELSE WorldsFrom(found, known \cup found)

AllWorlds == WorldsFrom({FirstWorld}, {FirstWorld})

\* Unless a publication breaks off behind its artifacts, no artifact shows another identity than
\* the marker, so that no drift of the configuration is ever missed, whenever it is reloaded.
ASSUME MarkerHonest ==
  \A w \in AllWorlds :
    ~w.broken => \A name \in StampedFeeds : w.marker = w.stamp[name]

\* After one that broke off, a reload that takes the configuration back hides what it wrote.
ASSUME BackAgainUnseen ==
  \E w \in AllWorlds :
    /\ w.retry = {} /\ w.marker = w.config
    /\ \E name \in StampedFeeds : w.stamp[name] # w.config

\* What a run could not publish is published by the retry of its batch, whatever the runs in
\* between; only the references of critical infrastructure may stay behind.
ASSUME RetriedIsPublished ==
  \A w \in AllWorlds :
    ~w.crashed /\ w.retry = {} => w.stale \subseteq (Kinds \X {"critical"})

\* After a crash nobody retries: what was committed stays unpublished.
ASSUME CrashStaysStale ==
  \E w \in AllWorlds : w.runs = RunBound /\ w.retry = {} /\ <<"metadata", "plain">> \in w.stale

(***************************************************************************)
(* The life of a run.  It holds a slot of the engine's lane while it       *)
(* processes and stages, and leaves the lane before it publishes; what     *)
(* keeps two runs apart is the mark of the engine, which is set in the     *)
(* lane and cleared behind the publication.  Any stage may panic.          *)
(***************************************************************************)
RunCallers == {1, 2}
Nobody == 0

FirstLife == [mark |-> "idle", started |-> Nobody, reported |-> Nobody,
              at |-> [c \in RunCallers |-> "queued"]]

HoldingSlot == {"admitted", "processing", "marking"}
OfOneRun == {"processing", "marking", "publishing", "clearing"}

Moved(l, c, place) == [l EXCEPT !.at[c] = place]

\* tryMarkRunStart: any mark refuses.
TryMarkRunStart(l, c) ==
  IF l.mark # "idle" THEN Moved(l, c, "refused")
  ELSE [Moved(l, c, "processing") EXCEPT !.mark = "running", !.started = c]

\* markRunFinalizing, or its panic before the mark is changed.
MarkRunFinalizing(l, c) == [Moved(l, c, "publishing") EXCEPT !.mark = "finalizing", !.reported = c]
MarkRunPanics(l, c) == Moved(l, c, "publishing")

\* markRunIdleAfterFinalization clears the mark of this very run only.
MarkRunIdle(l, c) ==
  IF \/ l.mark = "finalizing" /\ l.reported = c
     \/ l.mark = "running" /\ l.started = c
  THEN [Moved(l, c, "returned") EXCEPT !.mark = "idle"]
  ELSE Moved(l, c, "returned")

StepsOfCall(l, c, slots) ==
  CASE l.at[c] = "queued" ->
         {Moved(l, c, "cancelled")}
           \cup (IF Cardinality({d \in RunCallers : l.at[d] \in HoldingSlot}) < slots
                 THEN {Moved(l, c, "admitted")} ELSE {})
    [] l.at[c] = "admitted" -> {TryMarkRunStart(l, c), Moved(l, c, "cancelled")}
    [] l.at[c] = "processing" -> {Moved(l, c, "marking")}
    [] l.at[c] = "marking" -> {MarkRunFinalizing(l, c), MarkRunPanics(l, c)}
    [] l.at[c] = "publishing" -> {Moved(l, c, "clearing")}
    [] l.at[c] = "clearing" -> {MarkRunIdle(l, c)}
    [] OTHER -> {}

RECURSIVE RunLivesFrom(_, _, _)
RunLivesFrom(slots, frontier, known) ==
  LET found == (UNION {StepsOfCall(l, c, slots) : l \in frontier, c \in RunCallers}) \ known
  IN IF found = {} THEN known ELSE RunLivesFrom(slots, found, known \cup found)

RunLives(slots) == RunLivesFrom(slots, {FirstLife}, {FirstLife})

\* Two runs never process, stage or publish at the same time, though the lane lets the second
\* one in while the first one publishes, and whatever panics.
ASSUME OneRunAtATime ==
  \A slots \in 1..2 : \A l \in RunLives(slots) :
    Cardinality({c \in RunCallers : l.at[c] \in OfOneRun}) <= 1

\* When all calls are over, the engine takes the next one.
ASSUME MarkIsCleared ==
  \A slots \in 1..2 : \A l \in RunLives(slots) :
    (\A c \in RunCallers : l.at[c] \notin HoldingSlot \cup OfOneRun) => l.mark = "idle"

\* With a single slot, too, a call may be refused: by a run that still publishes.
ASSUME RefusedByPublication ==
  \E l \in RunLives(1) : \E c, d \in RunCallers : l.at[c] = "refused" /\ l.at[d] = "publishing"
=============================================================================
