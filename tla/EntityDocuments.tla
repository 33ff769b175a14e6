-------------------------- MODULE EntityDocuments --------------------------
(***************************************************************************)
(* The documents of countries and ASNs: how the sidecars of the feeds      *)
(* become private details, public pages, an index and the list of present  *)
(* feeds (pkg/engine/entity_surgical_*.go, entity_artifacts_write.go), how *)
(* a check finds what is damaged (entity_integrity_*.go) and a repair      *)
(* mends it (entity_artifact_*repair.go).                                  *)
(*                                                                         *)
(* Countries and ASNs are treated alike and are the actors here.  A world  *)
(* is what is on disk: for every directory and key a document, which is    *)
(* its rows and its time; no rows are no file, and one row 9 is a file     *)
(* that cannot be read.  A contribution is a number that stands for a      *)
(* whole row; a sidecar has one per actor, a detail one per feed, 0 being  *)
(* none.  The health classes on the pages are left out (FeedChecks), and   *)
(* so are the site map and the texts.                                      *)
(*                                                                         *)
(* The home page and the pages of maintainers come last: they are counted  *)
(* from the catalog and the published outputs, by category.                *)
(***************************************************************************)
EXTENDS Naturals, SequencesExt, FiniteSetsExt

SidecarFeeds == 1 .. 2
Actors       == 1 .. 2

Absent        == [rows |-> <<>>, at |-> 0]
Damaged(time) == [rows |-> <<9>>, at |-> time]
Exists(doc)   == doc.rows # <<>>
Broken(doc)   == doc.rows = <<9>>
Legible(doc)  == Exists(doc) /\ ~Broken(doc)

Contribution(doc, key) == IF Legible(doc) THEN doc.rows[key] ELSE 0
ActorsOf(sidecar)      == {a \in Actors : Contribution(sidecar, a) > 0}

(***************************************************************************)
(* What is derived from sidecars, given as a function of the feeds.        *)
(***************************************************************************)
Detail(sidecars, a, now) ==
  IF \A f \in SidecarFeeds : Contribution(sidecars[f], a) = 0 THEN Absent
  ELSE [rows |-> [f \in SidecarFeeds |-> Contribution(sidecars[f], a)], at |-> now]

\* How many feeds match an actor and with how much.
IndexRow(detail) ==
  LET row == [f \in SidecarFeeds |-> Contribution(detail, f)]
  IN <<Cardinality({f \in SidecarFeeds : row[f] > 0}), MapThenSumSet(LAMBDA f : row[f], SidecarFeeds)>>

IndexOf(sidecars, now) ==
  [rows |-> [a \in Actors |-> IndexRow(Detail(sidecars, a, now))], at |-> now]

PresenceOf(sidecars, now) ==
  [rows |-> [f \in SidecarFeeds |-> IF ActorsOf(sidecars[f]) # {} THEN 1 ELSE 0], at |-> now]

VersionMark(now) == [rows |-> <<1>>, at |-> now]

(***************************************************************************)
(* A publication is a sequence of replaced files: the entity batch, then   *)
(* the web batch, each moving files in the order of their paths, then      *)
(* deleting, then touching.  A crash leaves a prefix of it done.           *)
(***************************************************************************)
Put(dir, keys, doc(_)) ==
  LET order == SetToSortSeq(keys, <)
  IN [i \in 1 .. Len(order) |-> [dir |-> dir, key |-> order[i], doc |-> doc(order[i])]]

Delete(dir, keys) == Put(dir, keys, LAMBDA k : Absent)

\* Only files that exist are touched.
Touch(w, dir, keys, time(_)) ==
  Put(dir, {k \in keys : Exists(w[dir][k])}, LAMBDA k : [w[dir][k] EXCEPT !.at = time(k)])

Applied(w, puts) == FoldLeft(LAMBDA v, p : [v EXCEPT ![p.dir][p.key] = p.doc], w, puts)

NoPlan == [ok |-> FALSE, puts |-> <<>>, entity |-> 0]
PlanOfBatches(entity, web) == [ok |-> TRUE, puts |-> entity \o web, entity |-> Len(entity)]

\* stageRebuiltCountryDetail, writeCountryDetail: a page and its private detail.
DetailMoves(dir, sidecars, actors, now) ==
  Put(dir, {a \in actors : Exists(Detail(sidecars, a, now))}, LAMBDA a : Detail(sidecars, a, now))

DetailDeletes(dir, sidecars, actors, now) ==
  Delete(dir, {a \in actors : ~Exists(Detail(sidecars, a, now))})

SharedMoves(sidecars, now) == Put("presence", {0}, LAMBDA k : PresenceOf(sidecars, now))
VersionMoves(now)          == Put("version", {0}, LAMBDA k : VersionMark(now))

(***************************************************************************)
(* A full rebuild: outputs[f] is the sidecar that is built for a feed from *)
(* its published outputs, absent for one that gets none; its time is that  *)
(* of the newest input.  It reads no old document.                         *)
(***************************************************************************)
FullRebuild(w, outputs, now) ==
  LET built   == {f \in SidecarFeeds : Exists(outputs[f])}
      covered == UNION {ActorsOf(outputs[f]) : f \in built}
  IN PlanOfBatches(
       DetailMoves("private", outputs, covered, now) \o SharedMoves(outputs, now)
         \o Put("committed", built, LAMBDA f : outputs[f]) \o VersionMoves(now)
         \o Delete("private", {a \in Actors \ covered : Exists(w.private[a])})
         \o Delete("committed", {f \in SidecarFeeds \ built : Exists(w.committed[f])})
         \o Delete("pending", {f \in SidecarFeeds : Exists(w.pending[f])}),
       DetailMoves("public", outputs, covered, now)
         \o Put("index", {0}, LAMBDA k : IndexOf(outputs, now)))

(***************************************************************************)
(* A refresh of some feeds: what each contributed and contributes now is   *)
(* compared and only the actors for which they differ are written again.   *)
(***************************************************************************)
\* entityArtifactFeedPresence.contains: the list, else a scan of the private
\* details, which ends at the first that cannot be read or has the feed.
Presence(w, f) ==
  LET telling == {a \in Actors : Broken(w.private[a]) \/ Contribution(w.private[a], f) > 0}
  IN IF Legible(w.presence[0]) THEN IF w.presence[0].rows[f] = 1 THEN "found" ELSE "unknown"
     ELSE IF telling = {} THEN "unknown"
     ELSE IF Broken(w.private[Min(telling)]) THEN "error" ELSE "found"

\* buildFeedEntityDelta: what one feed asks for.
DeltaVerdict(w, outputs, f) ==
  CASE Broken(w.committed[f]) -> "error"
    [] ~Exists(w.committed[f]) /\ Presence(w, f) = "error" -> "error"
    [] ~Exists(w.committed[f]) /\ (Presence(w, f) = "found" \/ Exists(outputs[f])) -> "full"
    [] Broken(w.pending[f]) -> "full"
    [] OTHER -> "patch"

RefreshVerdict(w, outputs, targets) ==
  LET odd == {f \in targets : DeltaVerdict(w, outputs, f) # "patch"}
  IN IF odd = {} THEN "patch" ELSE DeltaVerdict(w, outputs, Min(odd))

\* patchCountryIndex: only the rows of the patched actors are replaced.
PatchedIndex(w, sidecars, actors, now) ==
  [rows |-> [a \in Actors |->
      IF a \in actors THEN IndexRow(Detail(sidecars, a, now))
      ELSE IF Exists(w.index[0]) THEN w.index[0].rows[a] ELSE <<0, 0>>],
   at |-> now]

SurgicalPatch(w, targets, now) ==
  LET deltas  == {f \in targets : Exists(w.committed[f]) \/ Exists(w.pending[f])}
      merged  == [f \in SidecarFeeds |-> IF f \in deltas THEN w.pending[f] ELSE w.committed[f]]
      changed == {a \in Actors : \E f \in deltas :
                    Contribution(w.committed[f], a) # Contribution(w.pending[f], a)}
  IN IF \/ \E f \in SidecarFeeds : Broken(merged[f])
        \/ changed # {} /\ Broken(w.index[0])
     THEN NoPlan
     ELSE PlanOfBatches(
            DetailMoves("private", merged, changed, now) \o SharedMoves(merged, now)
              \o Put("committed", {f \in deltas : Exists(w.pending[f])}, LAMBDA f : w.pending[f])
              \o VersionMoves(now)
              \o DetailDeletes("private", merged, changed, now)
              \o Delete("committed", {f \in deltas : ~Exists(w.pending[f])})
              \o Delete("pending", deltas),
            DetailMoves("public", merged, changed, now)
              \o (IF changed = {} THEN <<>>
                  ELSE Put("index", {0}, LAMBDA k : PatchedIndex(w, merged, changed, now)))
              \o DetailDeletes("public", merged, changed, now))

SurgicalRefresh(w, outputs, targets, now) ==
  CASE RefreshVerdict(w, outputs, targets) = "error" -> NoPlan
    [] RefreshVerdict(w, outputs, targets) = "full"  -> FullRebuild(w, outputs, now)
    [] OTHER -> SurgicalPatch(w, targets, now)

(***************************************************************************)
(* The repairs of a check.  That of feeds builds their sidecars again and  *)
(* writes every actor of a changed one, old or new, and the whole index.   *)
(***************************************************************************)
FeedRepair(w, outputs, targets, now) ==
  LET changed == {f \in targets : w.committed[f].rows # outputs[f].rows}
      built   == {f \in changed : Exists(outputs[f])}
      merged  == [f \in SidecarFeeds |-> IF f \in changed THEN outputs[f] ELSE w.committed[f]]
      actors  == UNION {ActorsOf(w.committed[f]) \cup ActorsOf(outputs[f]) : f \in changed}
  IN IF \E f \in SidecarFeeds : Broken(w.committed[f]) THEN NoPlan
     ELSE PlanOfBatches(
            DetailMoves("private", merged, actors, now) \o SharedMoves(merged, now)
              \o Put("committed", built, LAMBDA f : outputs[f]) \o VersionMoves(now)
              \o DetailDeletes("private", merged, actors, now)
              \o Delete("committed", changed \ built)
              \o Delete("pending", targets \ changed)
              \o Touch(w, "committed", targets \ changed, LAMBDA f : outputs[f].at),
            IF actors = {} THEN <<>>
            ELSE DetailMoves("public", merged, actors, now)
                   \o Put("index", {0}, LAMBDA k : IndexOf(merged, now))
                   \o DetailDeletes("public", merged, actors, now))

\* stageRewriteSelectedEntityArtifacts: an actor whose private detail is what it
\* would be written as, and which has a page of some kind, is only touched.
SelectedRepair(w, actors, reindex, now) ==
  LET same == {a \in actors : Exists(w.public[a]) /\ Legible(w.private[a])
                                /\ w.private[a].rows = Detail(w.committed, a, now).rows}
      Time(a) == now
  IN IF \E f \in SidecarFeeds : Broken(w.committed[f]) THEN NoPlan
     ELSE PlanOfBatches(
            DetailMoves("private", w.committed, actors \ same, now)
              \o DetailDeletes("private", w.committed, actors \ same, now)
              \o Touch(w, "private", same, Time),
            DetailMoves("public", w.committed, actors \ same, now)
              \o (IF reindex THEN Put("index", {0}, LAMBDA k : IndexOf(w.committed, now)) ELSE <<>>)
              \o DetailDeletes("public", w.committed, actors \ same, now)
              \o Touch(w, "public", same, Time))

\* stageHealthTransitionEntityPayloads: the pages of the actors of some feeds are
\* rendered again from the private details, with their times.
HealthRefresh(w, feeds) ==
  LET actors == UNION {ActorsOf(w.committed[f]) : f \in feeds}
  IN IF \/ \E f \in feeds : Broken(w.committed[f])
        \/ \E a \in actors : ~Legible(w.private[a])
     THEN NoPlan ELSE PlanOfBatches(<<>>, Put("public", actors, LAMBDA a : w.private[a]))

\* The check.  A feed without inputs (time 0) is not looked at.
NeedsRebuild(w) == ~Exists(w.version[0]) \/ ~Legible(w.presence[0])

FeedFindings(w, outputs) ==
  {f \in SidecarFeeds :
     /\ outputs[f].at > 0
     /\ \/ ~Exists(w.committed[f]) /\ Exists(outputs[f])
        \/ Broken(w.committed[f])
        \/ Exists(w.committed[f]) /\ w.committed[f].at < outputs[f].at}

\* Only the actors of sidecars without a finding are looked at.
ActorFindings(w, outputs) ==
  LET sound == {f \in SidecarFeeds \ FeedFindings(w, outputs) : outputs[f].at > 0}
  IN {a \in UNION {ActorsOf(w.committed[f]) : f \in sound} :
        \/ ~Legible(w.private[a]) \/ ~Legible(w.public[a])
        \/ w.public[a].at < w.private[a].at}

IndexFinding(w) == ~Exists(w.index[0])

ScanIsClean(w, outputs) ==
  ~NeedsRebuild(w) /\ FeedFindings(w, outputs) = {} /\ ActorFindings(w, outputs) = {} /\ ~IndexFinding(w)

\* repairEntityArtifactsWithPlanAdmitted: one plan, in parts; an error ends it.
Repaired(w, outputs, now) ==
  LET feeds  == FeedFindings(w, outputs)
      actors == ActorFindings(w, outputs)
      first  == FeedRepair(w, outputs, feeds, now)
      middle == IF feeds = {} THEN w ELSE Applied(w, first.puts)
      second == SelectedRepair(middle, actors, IndexFinding(w), now)
  IN IF NeedsRebuild(w) THEN Applied(w, FullRebuild(w, outputs, now).puts)
     ELSE IF feeds # {} /\ ~first.ok THEN w
     ELSE IF actors = {} /\ ~IndexFinding(w) THEN middle
     ELSE Applied(middle, second.puts)

(***************************************************************************)
(* Small worlds.                                                           *)
(***************************************************************************)
SidecarRows == {<<0, 1>>, <<1, 0>>, <<1, 2>>, <<2, 1>>}
Sidecars(time) == {Absent} \cup {[rows |-> rows, at |-> time] : rows \in SidecarRows}
OutputsAt(time) ==
  [SidecarFeeds -> {[Absent EXCEPT !.at = time]} \cup {[rows |-> rows, at |-> time] : rows \in SidecarRows}]

\* The world that a rebuild makes of nothing.
Nowhere ==
  [committed |-> [f \in SidecarFeeds |-> Absent], pending |-> [f \in SidecarFeeds |-> Absent],
   private |-> [a \in Actors |-> Absent], public |-> [a \in Actors |-> Absent],
   index |-> [k \in {0} |-> Absent], presence |-> [k \in {0} |-> Absent],
   version |-> [k \in {0} |-> Absent]]

Rebuilt(outputs, now) == Applied(Nowhere, FullRebuild(Nowhere, outputs, now).puts)

WithPending(w, pending) == [w EXCEPT !.pending = pending]

\* The documents alike but for their times, in the directories given.
Like(w, v, dirs) == \A dir \in dirs : \A k \in DOMAIN w[dir] : w[dir][k].rows = v[dir][k].rows
Dirs == DOMAIN Nowhere
Made == Dirs \ {"pending"}

\* What new sidecars leave on disk, once committed: deleted ones are absent.
NewSidecars(w, targets) ==
  [f \in SidecarFeeds |-> IF f \in targets THEN w.pending[f] ELSE w.committed[f]]

\* Whatever the feeds contributed and contribute now, a refresh that rewrites
\* only what changed leaves the documents that a rebuild from the new sidecars
\* would make, nothing more and nothing less, and nothing for a check to find.
ASSUME SurgicalIsRebuild ==
  \A old \in OutputsAt(1), targets \in SUBSET SidecarFeeds \ {{}} :
  \A pending \in [SidecarFeeds -> Sidecars(2)] :
    LET w     == WithPending(Rebuilt(old, 2), pending)
        new   == NewSidecars(w, targets)
        after == Applied(w, SurgicalPatch(w, targets, 3).puts)
    IN RefreshVerdict(w, new, targets) = "patch" =>
       /\ Like(after, Rebuilt(new, 3), Made)
       /\ \A f \in targets : ~Exists(after.pending[f])
       /\ \A f \in SidecarFeeds \ targets : after.pending[f] = w.pending[f]
       /\ \A a \in Actors : after.public[a].at = after.private[a].at
       /\ ScanIsClean(after, new)

\* The files that a fault or an older program may have left.
OddFiles(doc) == {Absent, doc, Damaged(1)}
OddWorlds ==
  LET rows == [rows |-> <<1, 2>>, at |-> 1]
  IN [committed : [SidecarFeeds -> OddFiles(rows)], pending : {[f \in SidecarFeeds |-> Damaged(1)]},
      private : [Actors -> OddFiles(rows)], public : [Actors -> OddFiles(rows)],
      index : [{0} -> {Absent, Damaged(1)}], presence : [{0} -> {Absent, Damaged(1)}],
      version : [{0} -> {Absent}]]
SomeOutputs == {o \in OutputsAt(1) : Exists(o[1]) => o[1].rows[1] = 1}

\* From whatever is on disk, readable or not, a full rebuild makes what it would
\* make of nothing, except that the pages of actors that no feed mentions any
\* more stay, whatever they say: it deletes their private details only, and no
\* check looks at an actor that no sidecar mentions.
ASSUME OrphansStay ==
  \A w \in OddWorlds, outputs \in SomeOutputs :
    LET after == Applied(w, FullRebuild(w, outputs, 2).puts)
        made  == Rebuilt(outputs, 2)
    IN /\ Like(after, made, Dirs \ {"public"}) /\ ScanIsClean(after, outputs)
       /\ \A a \in Actors : after.public[a] =
            IF Exists(made.public[a]) THEN made.public[a] ELSE w.public[a]

\* What a check finds, its repair mends: sidecars lost or older than their inputs,
\* private details lost or damaged, pages lost, a lost index.  Only what a lost
\* sidecar mentioned and its feed no longer does is not thought of.
Losses(w) ==
  {[w EXCEPT !.committed = c, !.private = p, !.public = q, !.index[0] = i] :
     c \in {[f \in SidecarFeeds |-> IF f \in lost THEN Absent ELSE w.committed[f]] : lost \in SUBSET SidecarFeeds},
     p \in {[a \in Actors |-> CASE k[a] = 0 -> Absent [] k[a] = 1 /\ Exists(w.private[a]) -> Damaged(2) [] OTHER -> w.private[a]] :
              k \in [Actors -> 0 .. 2]},
     q \in {[a \in Actors |-> IF a \in lost THEN Absent ELSE w.public[a]] : lost \in SUBSET Actors},
     i \in {Absent, w.index[0]}}

ASSUME RepairHeals ==
  \A old \in SomeOutputs, new \in SomeOutputs : \A lost \in Losses(Rebuilt(old, 2)) :
    LET inputs == [f \in SidecarFeeds |-> IF new[f] = old[f] THEN old[f] ELSE [new[f] EXCEPT !.at = 3]]
        after  == Repaired(lost, inputs, 4)
        made   == Rebuilt(inputs, 4)
        missed == UNION {ActorsOf(old[f]) \ ActorsOf(new[f]) :
                           f \in {f \in SidecarFeeds : ~Exists(lost.committed[f])}}
    IN /\ ScanIsClean(after, inputs)
       /\ Like(after, made, {"committed"})
       /\ (\A f \in SidecarFeeds : Exists(old[f]) /\ ~Exists(lost.committed[f]) => Exists(new[f]))
            => Like(after, made, {"index", "presence"})
       /\ \A a \in Actors \ missed : /\ after.private[a].rows = made.private[a].rows
                                     /\ after.public[a].rows = made.public[a].rows

\* A sidecar that cannot be read is found, but no repair gets past it: the repair
\* of feeds loads what is committed before it builds, and so does every other
\* repair and every refresh of feeds that have their sidecars.  Nothing changes
\* until somebody asks for a full rebuild.
ASSUME BadSidecarStuck ==
  \A outputs \in SomeOutputs, f \in SidecarFeeds :
    LET w     == Rebuilt(outputs, 2)
        stuck == [w EXCEPT !.committed[f] = Damaged(2), !.pending = outputs]
    IN Exists(outputs[f]) =>
       /\ FeedFindings(stuck, outputs) = {f}
       /\ Repaired(stuck, outputs, 4) = stuck
       /\ \A actors \in SUBSET Actors : ~SelectedRepair(stuck, actors, TRUE, 4).ok
       /\ \A targets \in SUBSET {g \in SidecarFeeds : Exists(outputs[g])} \ {{}} :
            ~SurgicalRefresh(stuck, outputs, targets, 4).ok
       /\ ScanIsClean(Applied(stuck, FullRebuild(stuck, outputs, 4).puts), outputs)

\* A page that cannot be read, or is older than its private detail, is found as
\* well, but its repair only touches it, because the private detail needs no
\* change: afterwards it looks current to every check.
ASSUME TouchHidesStale ==
  \A outputs \in SomeOutputs, a \in Actors :
  \A page \in {Damaged(1), [rows |-> <<2, 2>>, at |-> 1]} :
    LET w     == Rebuilt(outputs, 2)
        odd   == [w EXCEPT !.public[a] = page]
        after == Repaired(odd, outputs, 4)
    IN Exists(w.public[a]) =>
       /\ ActorFindings(odd, outputs) = {a}
       /\ after.public[a] = [page EXCEPT !.at = 4]
       /\ ActorFindings(after, outputs) = IF Broken(page) THEN {a} ELSE {}

\* A crash during a refresh, then a check and its repair.  The actors of the feeds
\* whose sidecars were not yet replaced are written again, and the index with
\* them.  Of the others, those that should have no page keep what was not yet
\* deleted, and those that have one keep the page and the index row of before,
\* which no check finds.
ASSUME CrashHidden ==
  \A old \in SomeOutputs, new \in SomeOutputs :
    LET inputs  == [f \in SidecarFeeds |-> IF new[f] = old[f] THEN old[f] ELSE [new[f] EXCEPT !.at = 3]]
        pending == [f \in SidecarFeeds |-> IF Exists(new[f]) THEN inputs[f] ELSE Absent]
        w       == WithPending(Rebuilt(old, 2), pending)
        patch   == SurgicalPatch(w, SidecarFeeds, 3)
        made    == Rebuilt(inputs, 5)
    IN RefreshVerdict(w, inputs, SidecarFeeds) = "patch" =>
       \A n \in 0 .. Len(patch.puts) :
         LET crashed == Applied(w, SubSeq(patch.puts, 1, n))
             after   == Repaired(crashed, inputs, 5)
             redone  == UNION {ActorsOf(old[f]) \cup ActorsOf(new[f]) :
                          f \in {f \in SidecarFeeds : crashed.committed[f].rows # made.committed[f].rows}}
         IN /\ ScanIsClean(after, inputs)
            /\ Like(after, made, {"committed", "presence"})
            /\ after.index[0].rows = (IF redone = {} THEN crashed ELSE made).index[0].rows
            /\ \A a \in Actors :
                 LET source == IF a \in redone THEN made ELSE crashed
                 IN /\ after.private[a].rows = source.private[a].rows
                    /\ Exists(made.private[a]) => after.private[a].rows = made.private[a].rows
                    /\ Exists(source.public[a]) => after.public[a].rows = source.public[a].rows

\* When the health of a feed changes, all pages that mention it are rendered
\* again, and a page that a repair only touched is mended by it; but one private
\* detail that is missing keeps all of them as they were, until a check finds it.
ASSUME HealthAllOrNothing ==
  \A outputs \in SomeOutputs, f \in SidecarFeeds, a \in Actors :
    LET w       == Rebuilt(outputs, 2)
        stale   == [w EXCEPT !.public = [b \in Actors |-> [w.public[b] EXCEPT !.rows = <<2, 2>>]]]
        lost    == [stale EXCEPT !.private[a] = Absent]
        after   == Applied(stale, HealthRefresh(stale, {f}).puts)
        healed  == Repaired(lost, outputs, 4)
    IN /\ \A b \in Actors : after.public[b] = IF b \in ActorsOf(outputs[f]) THEN w.public[b] ELSE stale.public[b]
       /\ a \in ActorsOf(outputs[f]) =>
            /\ ~HealthRefresh(lost, {f}).ok /\ a \in ActorFindings(lost, outputs)
            /\ HealthRefresh(healed, {f}).ok /\ healed.public[a].rows = w.public[a].rows

(***************************************************************************)
(* The home page (home_aggregates.go, home_summary.go, home_globe.go) and  *)
(* the pages of maintainers (home_detail.go).  Feeds come in the order of  *)
(* their names; of its tables of countries and of ASNs, which are alike, a *)
(* feed has rows, none, or a file that cannot be read.  Key 0 is no key, a *)
(* maintainer 0 none; its slug is all but the last digit of its number, so *)
(* that names that differ in spelling share one.                           *)
(***************************************************************************)
Kinds == {"country", "asn"}
EmptyTable == <<>>

\* homeSummaryEligible, homeGlobeHealthEligible
HomeEligible(feed) ==
  /\ ~feed.hidden /\ feed.public
  /\ feed.use \cap {"geoip", "asn"} = {}
  /\ feed.provenance \in {"primary", "secondary_upstream"}
  /\ feed.health \in {"healthy", "delayed"}

Chosen(feeds, filter) ==
  SelectSeq(feeds, LAMBDA f : HomeEligible(f) /\ (filter = {} \/ f.category \in filter))

\* What is told of a key: in how many feeds it is and with how much.
Adds(table, key, row) ==
  [k \in DOMAIN table \cup {key} |->
     IF k # key THEN table[k]
     ELSE IF k \in DOMAIN table THEN [feeds |-> table[k].feeds + row.feeds, ips |-> table[k].ips + row.ips]
     ELSE row]

\* addCountry, addASN: a feed that has a key in several rows counts once.
AddsFeed(table, rows) ==
  FoldLeft(LAMBDA t, i :
             LET again == \E j \in 1 .. i - 1 : rows[j].key = rows[i].key
             IN IF rows[i].key = 0 THEN t
                ELSE Adds(t, rows[i].key, [feeds |-> IF again THEN 0 ELSE 1, ips |-> rows[i].count]),
           table, [i \in DOMAIN rows |-> i])

\* addMaintainer, and the same for the row of another category: the first of the
\* spellings, the first of the addresses.
Joins(table, slug, row) ==
  [k \in DOMAIN table \cup {slug} |->
     IF k # slug THEN table[k]
     ELSE IF k \in DOMAIN table
       THEN [name |-> table[k].name, url |-> IF table[k].url = 0 THEN row.url ELSE table[k].url,
             feeds |-> table[k].feeds + row.feeds, ips |-> table[k].ips + row.ips,
             categories |-> table[k].categories \cup row.categories]
     ELSE row]

Slug(maintainer) == maintainer \div 10
JoinsFeed(table, f) ==
  IF f.maintainer = 0 THEN table
  ELSE Joins(table, Slug(f.maintainer),
             [name |-> f.maintainer, url |-> f.url, feeds |-> 1, ips |-> f.ips, categories |-> {f.category}])

SumOver(seq, Value(_)) == FoldLeft(LAMBDA sum, x : sum + Value(x), 0, seq)

\* buildHomeAggregates, of one category.
CategoryAggregate(feeds, c) ==
  LET mine == Chosen(feeds, {c})
  IN [eligible     |-> Len(mine),
      contributing |-> SumOver(mine, LAMBDA f : IF \E k \in Kinds : f.tables[k].rows # <<>> THEN 1 ELSE 0),
      ips          |-> SumOver(mine, LAMBDA f : f.ips),
      tables       |-> [k \in Kinds |-> FoldLeft(LAMBDA t, f : AddsFeed(t, f.tables[k].rows), EmptyTable, mine)],
      maintainers  |-> FoldLeft(JoinsFeed, EmptyTable, mine)]

\* One table that cannot be read refuses the aggregates; one that is absent does not.
HomeAggregates(feeds) ==
  LET all == Chosen(feeds, {})
  IN [ok |-> ~ \E i \in DOMAIN all : \E k \in Kinds : all[i].tables[k].form = "broken",
      categories |-> [c \in {all[i].category : i \in DOMAIN all} |-> CategoryAggregate(feeds, c)]]

\* selectedCategories, in their order.
Selected(aggregates, filter) ==
  LET chosen == {c \in DOMAIN aggregates.categories : filter = {} \/ c \in filter}
      order  == SetToSortSeq(chosen, <)
  IN [i \in 1 .. Len(order) |-> aggregates.categories[order[i]]]

AddsTable(table, other) == FoldSet(LAMBDA key, t : Adds(t, key, other[key]), table, DOMAIN other)
JoinsTable(table, other) == FoldSet(LAMBDA slug, t : Joins(t, slug, other[slug]), table, DOMAIN other)

\* composeHomeSummaryFromAggregates, before the rows are cut; the globe has the
\* countries of it, all of them.
Composed(aggregates, filter) ==
  LET parts == Selected(aggregates, filter)
  IN [eligible     |-> SumOver(parts, LAMBDA p : p.eligible),
      contributing |-> SumOver(parts, LAMBDA p : p.contributing),
      ips          |-> SumOver(parts, LAMBDA p : p.ips),
      categories   |-> Len(parts),
      tables       |-> [k \in Kinds |-> FoldLeft(LAMBDA t, p : AddsTable(t, p.tables[k]), EmptyTable, parts)],
      maintainers  |-> FoldLeft(LAMBDA t, p : JoinsTable(t, p.maintainers), EmptyTable, parts)]

\* HomeSummary's limit of rows.
RowLimit(asked) == IF asked = 0 THEN 20 ELSE Min({asked, 200})

\* sortedHomeCountries, sortedHomeASNs: in most feeds, with most addresses, first.
TopRows(table, limit) ==
  LET Before(a, b) ==
        \/ table[a].feeds > table[b].feeds
        \/ table[a].feeds = table[b].feeds
             /\ (table[a].ips > table[b].ips \/ (table[a].ips = table[b].ips /\ a < b))
      order == SetToSortSeq(DOMAIN table, Before)
  IN SubSeq(order, 1, Min({limit, Len(order)}))

\* sortedHomeMaintainers, and the index of maintainers.
TopMaintainers(table, limit) ==
  LET Before(a, b) == table[a].feeds > table[b].feeds
                        \/ (table[a].feeds = table[b].feeds /\ table[a].name < table[b].name)
      order == SetToSortSeq(DOMAIN table, Before)
  IN SubSeq(order, 1, Min({limit, Len(order)}))

\* MaintainerIndex
MaintainerIndex(feeds, filter) == FoldLeft(JoinsFeed, EmptyTable, Chosen(feeds, filter))

\* MaintainerDetail, of a slug: none if no feed that is shown has it.
MaintainerDetail(feeds, slug) ==
  LET mine == SelectSeq(Chosen(feeds, {}), LAMBDA f : f.maintainer # 0 /\ Slug(f.maintainer) = slug)
      urls == SelectSeq(mine, LAMBDA f : f.url # 0)
  IN IF mine = <<>> THEN EmptyTable
     ELSE <<[name |-> Head(mine).maintainer, url |-> IF urls = <<>> THEN 0 ELSE Head(urls).url,
             feeds |-> Len(mine), ips |-> SumOver(mine, LAMBDA f : f.ips),
             categories |-> {mine[i].category : i \in DOMAIN mine}]>>

(***************************************************************************)
(* Small catalogs: three feeds in two categories, whose numbers of         *)
(* addresses tell them apart.                                              *)
(***************************************************************************)
PlainFeed == [hidden |-> FALSE, public |-> TRUE, use |-> {}, provenance |-> "primary", health |-> "healthy",
              category |-> 1, maintainer |-> 0, url |-> 0, ips |-> 1,
              tables |-> [k \in Kinds |-> [form |-> "absent", rows |-> <<>>]]]
Row(key, count) == [key |-> key, count |-> count]
Tabled(country, asn) == [k \in Kinds |-> [form |-> "rows", rows |-> IF k = "country" THEN country ELSE asn]]
SomeTables ==
  {PlainFeed.tables, Tabled(<<Row(1, 2)>>, <<>>), Tabled(<<Row(2, 3), Row(1, 1), Row(2, 1)>>, <<Row(1, 1)>>),
   Tabled(<<Row(0, 5)>>, <<Row(2, 4)>>), [PlainFeed.tables EXCEPT !["asn"].form = "broken"]}
CountedFeeds == [1 .. 3 -> {[PlainFeed EXCEPT !.category = c, !.health = h, !.tables = t] :
                              c \in 1 .. 2, h \in {"healthy", "archived"}, t \in SomeTables}]
Weighed(feeds) == [i \in DOMAIN feeds |-> [feeds[i] EXCEPT !.ips = <<1, 2, 4>>[i]]]
KeptFeeds == {Weighed(feeds) :
                feeds \in [1 .. 3 -> {[PlainFeed EXCEPT !.category = c, !.maintainer = n, !.url = u] :
                                        c \in 1 .. 2, n \in {0, 11, 12, 21}, u \in 0 .. 1}]}
CountsOf(rows, key) == SumOver(rows, LAMBDA r : IF r.key = key THEN r.count ELSE 0)

\* Whatever categories are asked for, the home page adds up from their aggregates
\* what counting the feeds themselves gives, each once, and is refused exactly if a
\* table of one of them cannot be read; and it shows the largest rows first.
ASSUME HomeAddsUp ==
  \A feeds \in CountedFeeds :
    LET aggregates == HomeAggregates(feeds)
        read       == \A i \in 1 .. 3 : feeds[i].health = "healthy" => feeds[i].tables["asn"].form # "broken"
    IN /\ aggregates.ok = read
       /\ read => \A filter \in SUBSET (1 .. 2) :
            LET home  == Composed(aggregates, filter)
                shown == {i \in 1 .. 3 : feeds[i].health = "healthy" /\ (filter = {} \/ feeds[i].category \in filter)}
            IN /\ home.eligible = Cardinality(shown) /\ home.ips = Cardinality(shown)
               /\ home.categories = Cardinality({feeds[i].category : i \in shown})
               /\ home.contributing = Cardinality({i \in shown : \E k \in Kinds : feeds[i].tables[k].rows # <<>>})
               /\ \A k \in Kinds : LET table == home.tables[k] IN
                    /\ \A key \in 1 .. 2 :
                         LET has == {i \in shown : \E j \in DOMAIN feeds[i].tables[k].rows :
                                                      feeds[i].tables[k].rows[j].key = key}
                         IN IF has = {} THEN key \notin DOMAIN table
                            ELSE table[key] = [feeds |-> Cardinality(has),
                                               ips |-> MapThenSumSet(LAMBDA i : CountsOf(feeds[i].tables[k].rows, key), has)]
                    /\ 0 \notin DOMAIN table
                    /\ LET top == TopRows(table, 1)
                       IN DOMAIN table # {} => \A key \in DOMAIN table :
                            /\ table[top[1]].feeds >= table[key].feeds
                            /\ table[top[1]].feeds = table[key].feeds => table[top[1]].ips >= table[key].ips

\* The index of maintainers, the page of each, and the home page agree on its feeds,
\* its addresses and its categories, whatever is asked for; the index and the page on
\* its name and its address, too.  The home page may spell it and link it like the
\* first category does instead of the first feed, but never leaves a link out.
ASSUME MaintainersAgree ==
  \A feeds \in KeptFeeds :
    LET index == MaintainerIndex(feeds, {})
        Same(row, other) == /\ row.feeds = other.feeds /\ row.ips = other.ips
                            /\ row.categories = other.categories
                            /\ row.url = 0 <=> other.url = 0
    IN /\ \A slug \in 1 .. 2 : MaintainerDetail(feeds, slug) = IF slug \in DOMAIN index THEN <<index[slug]>> ELSE EmptyTable
       /\ \A filter \in SUBSET (1 .. 2) :
            LET asked == MaintainerIndex(feeds, filter)
                home  == Composed(HomeAggregates(feeds), filter).maintainers
            IN /\ DOMAIN asked = DOMAIN home
               /\ \A slug \in DOMAIN home :
                    /\ Same(home[slug], asked[slug])
                    /\ Cardinality(home[slug].categories) = 1 => home[slug] = asked[slug]
               /\ LET top == TopMaintainers(home, RowLimit(0))
                  IN \A i \in 1 .. Len(top) - 1 : home[top[i]].feeds >= home[top[i + 1]].feeds
=============================================================================
