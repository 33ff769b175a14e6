---------------------------- MODULE Derivatives -----------------------------
(***************************************************************************)
(* What is composed of other feeds (pkg/engine): feeds over a window of time*)
(* (feed_body_stage.go and download_stage.go) and merges (merge_inputs.go, *)
(* enabled_state.go).  A parent's bodies are kept by the time their source *)
(* was modified, and a window feed is the union of those younger than its  *)
(* window, counted back from the time of the parent's newest body.  A merge*)
(* is composed of the bodies of its eligible inputs.                       *)
(*                                                                         *)
(* The histories of a parent are explored as sets of reachable states.     *)
(* What was observed of the parent is recorded for the properties.         *)
(***************************************************************************)
EXTENDS Naturals, SequencesExt, FiniteSetsExt

\* All states that steps lead to.
RECURSIVE Explored(_, _, _)
Explored(Successors(_), frontier, known) ==
  LET new == (UNION {Successors(s) : s \in frontier}) \ known
  IN IF new = {} THEN known ELSE Explored(Successors, new, known \cup new)

(***************************************************************************)
(* Bounds: six seconds, two windows, bodies of one address.              *)
(***************************************************************************)
Times   == 1 .. 6
Windows == {2, 4}
ParentBodies == {{1}, {2}}

retentionMaxWindow == Max(Windows)

\* historySnapshotWithinWindow: younger than the cutoff, not as old.
Within(when, reference, window) == when + window > reference

\* pruneHistorySnapshots
Pruned(shots, reference) ==
  [t \in {u \in DOMAIN shots : Within(u, reference, retentionMaxWindow)} |-> shots[t]]

\* appendHistorySnapshot: what the slot of this second held is replaced.
Shot(shots, body, time) ==
  Pruned([t \in DOMAIN shots \cup {time} |-> IF t = time THEN body ELSE shots[t]], time)

ShotChanged(shots, body, time) ==
  LET held == time \in DOMAIN shots /\ shots[time] = body
  IN held => Pruned(shots, time) # shots

\* composeHistoryDerivativeBody
ComposedWindow(parent, window) ==
  parent.body \cup UNION {parent.shots[t] : t \in {u \in DOMAIN parent.shots :
                                                   Within(u, parent.mtime, window)}}

Recomposed(parent) == [parent EXCEPT !.derived = [w \in Windows |-> ComposedWindow(parent, w)]]

(***************************************************************************)
(* What a fetch of a plain parent leaves (applyPlainFeedDownloadResult).   *)
(***************************************************************************)
NoParent == [body |-> {}, mtime |-> 0, shots |-> [t \in {} |-> {}],
             derived |-> [w \in Windows |-> {}], observed |-> {}]

Observed(parent, body, time) == [parent EXCEPT !.observed = @ \cup {<<time, body>>}]

\* A body that is prepared, new or rebuilt: a snapshot, then the body, then the
\* windows, if the snapshots changed.
Prepared(parent, body, time) ==
  LET shot  == [parent EXCEPT !.shots = Shot(@, body, time)]
      taken == [shot EXCEPT !.body = body, !.mtime = time]
  IN Observed(IF ShotChanged(parent.shots, body, time) THEN Recomposed(taken) ELSE taken, body, time)

\* The same file under a new time only touches the body, unless it was forced.
SameAgain(parent, time) == Observed([parent EXCEPT !.mtime = time], parent.body, time)
ForcedSame(parent, time) == Prepared(parent, parent.body, time)

\* Another file, whose addresses may be those of the last one.
Fetches(parent, times) ==
  {Prepared(parent, body, time) : body \in ParentBodies, time \in times}
Sames(parent, times) ==
  IF parent.body = {} THEN {} ELSE {SameAgain(parent, time) : time \in times}

\* Source times that grow, that may stay, and in any order.
Later(parent) == {t \in Times : t > parent.mtime}

NewBodies  == LET Grow(p) == Fetches(p, Later(p)) IN Explored(Grow, {NoParent}, {NoParent})
AllFetches == LET Grow(p) == Fetches(p, Later(p)) \cup Sames(p, Later(p))
              IN Explored(Grow, {NoParent}, {NoParent})
\* Bound: three fetches in any order.
AnyOrder   == LET After(set) == UNION {Fetches(p, Times) \cup Sames(p, Times) : p \in set}
              IN After({NoParent}) \cup After(After({NoParent})) \cup After(After(After({NoParent})))

\* integrityHistoryDerivativeFinding: a snapshot in the window is usable.
LooksWhole(parent, window) == \E t \in DOMAIN parent.shots : Within(t, parent.mtime, window)

SeenWithin(parent, window) ==
  UNION {pair[2] : pair \in {q \in parent.observed : parent.mtime - q[1] < window}}
SeenEver(parent) == UNION {pair[2] : pair \in parent.observed}

(***************************************************************************)
(* What holds, and what does not.                                          *)
(***************************************************************************)
\* If every fetch brings another file under a later time, each window feed is the
\* union of what was observed in its window, whatever the longest window prunes,
\* it is what composing it again would give, and the integrity check is content.
ASSUME WindowsRight ==
  \A p \in NewBodies \ {NoParent}, w \in Windows :
    /\ p.derived[w] = SeenWithin(p, w)
    /\ p.derived[w] = ComposedWindow(p, w)
    /\ LooksWhole(p, w)

\* In any order of times, a window feed lists only what was once observed of its
\* parent, and the snapshots kept are never older than the longest window.
ASSUME NothingInvented ==
  \A p \in AnyOrder, w \in Windows :
    /\ p.derived[w] \subseteq SeenEver(p) /\ ComposedWindow(p, w) \subseteq SeenEver(p)
    /\ p.body \subseteq ComposedWindow(p, w)

\* A recheck that is forced makes a window feed whole again, whatever was fetched
\* before, if the time of the source does not go back.
ASSUME ForcedMends ==
  \A p \in AllFetches \ {NoParent}, w \in Windows :
    \A time \in Later(p) \cup {p.mtime} :
      LET q == ForcedSame(p, time)
      IN LooksWhole(q, w) /\ q.derived[w] = ComposedWindow(q, w)

\* A second file within the second of the last one replaces its snapshot, and the
\* window feeds are composed again.
ASSUME SameSecondReplaces ==
  \A p \in NewBodies \ {NoParent} : \A q \in Fetches(p, {p.mtime}), w \in Windows :
    /\ q.derived[w] = ComposedWindow(q, w)
    /\ q.derived[w] \subseteq p.derived[w] \cup q.body

\* A parent served unchanged under new times is touched and leaves no snapshots:
\* once its body changes, the window feeds lose at once what it listed until
\* then, and before it changes they look broken to the integrity check.
ASSUME StayersForgotten ==
  \A w \in Windows :
    /\ \E p \in AllFetches : \E q \in Fetches(p, Later(p)) : ~(SeenWithin(q, w) \subseteq q.derived[w])
    /\ \E p \in AllFetches \ {NoParent} : ~LooksWhole(p, w)

\* A source time that goes back, or a second body in the same second, leaves
\* window feeds that composing again would change, or loses what was observed.
ASSUME BackwardsForgets ==
  /\ \E p \in AnyOrder, w \in Windows : p.body # {} /\ p.derived[w] # ComposedWindow(p, w)
  /\ \E p \in NewBodies \ {NoParent} : \E q \in Fetches(p, {p.mtime}) :
       ~(SeenWithin(q, 2) \subseteq q.derived[2])

(***************************************************************************)
(* Enabled sources.  A source is enabled by a marker, by the override of   *)
(* its own check or by enableAll; a child needs its artifact too, and a    *)
(* window feed or a merge one of its parents or inputs.                    *)
(***************************************************************************)
\* The catalog: two plain feeds, a child of an artifact, a window feed, a merge
\* that also subtracts, and a merge of itself, which only a synthetic source or a
\* program can bring about.
Catalogued == {"plain", "other", "child", "window", "merge", "loop"}
KindOf   == [s \in Catalogued |-> IF s \in {"plain", "other"} THEN "plain"
                                  ELSE IF s = "loop" THEN "merge" ELSE s]
InputsOf == [s \in Catalogued |-> CASE s = "window" -> {"plain"}
                                    [] s = "merge" -> {"child", "window"}
                                    [] s = "loop" -> {"loop"}
                                    [] OTHER -> {}]

\* markers holds the sources and the artifact that have an enable marker.
RECURSIVE Enabled(_, _, _, _)
Enabled(s, markers, override, seen) ==
  /\ s \notin seen
  /\ override \/ s \in markers
  /\ CASE KindOf[s] = "plain" -> TRUE
       [] KindOf[s] = "child" -> "artifact" \in markers
       [] KindOf[s] \in {"window", "merge"} ->
            \E input \in InputsOf[s] : Enabled(input, markers, FALSE, seen \cup {s})

EnabledForRun(s, markers, enableAll, override) ==
  Enabled(s, IF enableAll THEN Catalogued \cup {"artifact"} ELSE markers, override, {})

Markers == SUBSET (Catalogued \cup {"artifact"})

\* One more marker never disables a source, and a merge or a window feed that is
\* enabled, even by an override, has a plain or artifact input that is enabled by
\* its own markers; a source that only merges itself never is.
ASSUME EnabledRight ==
  \A markers \in Markers, s \in Catalogued, override \in BOOLEAN :
    LET on(set) == EnabledForRun(s, set, FALSE, override)
    IN on(markers) =>
         /\ \A more \in Catalogued : on(markers \cup {more})
         /\ EnabledForRun(s, markers, TRUE, override)
         /\ s # "loop"
         /\ KindOf[s] # "plain" =>
              \/ "plain" \in markers
              \/ /\ "artifact" \in markers
                 /\ "child" \in markers \/ (override /\ s = "child")

(***************************************************************************)
(* The inputs of a merge: what is known of each, and how it counts.        *)
(***************************************************************************)
\* Bound: bodies of two addresses, two additive inputs and a subtractive one.
InputBodies == SUBSET {1, 2}
Input(enabled, class, has, body) == [enabled |-> enabled, class |-> class, has |-> has, body |-> body]
DisabledInput == Input(FALSE, "healthy", FALSE, {})
Inputs ==
  {DisabledInput}
    \cup [enabled : {TRUE}, class : {"healthy", "archived", "unmaintained"}, has : {TRUE}, body : InputBodies]
    \cup [enabled : {TRUE}, class : {"healthy", "archived", "unmaintained"}, has : {FALSE}, body : {{}}]

\* mergeCompositionRows: health only counts for the inputs that add.
Eligible(input) == input.enabled /\ input.class \notin {"archived", "unmaintained"}
Included(additive) == {i \in DOMAIN additive : Eligible(additive[i]) /\ additive[i].has}
Subtracted(subtractive) == {i \in DOMAIN subtractive : subtractive[i].enabled /\ subtractive[i].has}

EligibleCount(additive) == Cardinality({i \in DOMAIN additive : Eligible(additive[i])})
MissingBodies(additive, subtractive) ==
  {<<"add", i>> : i \in {j \in DOMAIN additive : Eligible(additive[j]) /\ ~additive[j].has}}
    \cup {<<"subtract", i>> : i \in {j \in DOMAIN subtractive : subtractive[j].enabled /\ ~subtractive[j].has}}
UnavailableSubtractive(subtractive) ==
  {<<"subtract", i>> : i \in DOMAIN subtractive \ Subtracted(subtractive)}

\* composeMergeBody
ComposedMerge(additive, subtractive) ==
  IF EligibleCount(additive) = 0 THEN [status |-> "disabled", body |-> {}]
  ELSE IF UnavailableSubtractive(subtractive) # {} \/ MissingBodies(additive, subtractive) # {}
  THEN [status |-> "failed", body |-> {}]
  ELSE [status |-> "composed",
        body |-> UNION {additive[i].body : i \in Included(additive)}
                   \ UNION {subtractive[i].body : i \in Subtracted(subtractive)}]

\* integrityBlockedFeeds
BlockedInputs(additive, subtractive) ==
  IF EligibleCount(additive) = 0 THEN {}
  ELSE MissingBodies(additive, subtractive) \cup UnavailableSubtractive(subtractive)

(***************************************************************************)
(* What holds of a merge.                                                  *)
(***************************************************************************)
\* What an input may become by losing its marker, its health or its body.
Losses(input) ==
  {DisabledInput, input, [input EXCEPT !.class = "archived"], [input EXCEPT !.has = FALSE, !.body = {}]}
    \cap Inputs
Composed1(a, b, x) == ComposedMerge(<<a, b>>, <<x>>)
IsComposed(result) == result.status = "composed"

\* However many inputs a merge loses, and whether they add or subtract, it never
\* lists an address it would not list otherwise: it fails rather than grow.
ASSUME LossNeverBroadens ==
  \A a, b, x \in Inputs :
    IsComposed(Composed1(a, b, x)) =>
      \A a1 \in Losses(a), b1 \in Losses(b), x1 \in Losses(x) :
        IsComposed(Composed1(a1, b1, x1)) => Composed1(a1, b1, x1).body \subseteq Composed1(a, b, x).body

\* A merge lists nothing of what it subtracts, however unhealthy the feed it
\* subtracts, and nothing of an input that is disabled, archived or unmaintained
\* unless another one lists it too.
ASSUME OnlyEligibleAdds ==
  \A a, b, x \in Inputs :
    LET result == Composed1(a, b, x)
    IN IsComposed(result) =>
         /\ result.body \cap x.body = {} /\ x.enabled
         /\ ~a.enabled \/ a.class # "healthy" => result.body \subseteq b.body

\* The integrity check names blocking inputs exactly when the merge would fail.
\* Each of them heals by a body alone, unless the subtractive input is disabled:
\* then no check of a feed can help.
ASSUME BlockedIsFailed ==
  \A a, b, x \in Inputs :
    LET blocked == BlockedInputs(<<a, b>>, <<x>>)
        Given(input) == [input EXCEPT !.has = TRUE]
    IN /\ blocked # {} <=> Composed1(a, b, x).status = "failed"
       /\ blocked # {} => IsComposed(Composed1(Given(a), Given(b), Given(x))) = x.enabled
       /\ Composed1(a, b, x).status = "disabled" <=> ~Eligible(a) /\ ~Eligible(b)
=============================================================================
