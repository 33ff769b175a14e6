------------------------------ MODULE Catalog ------------------------------
(***************************************************************************)
(* The catalog of feeds as it is loaded (pkg/config, expand.go and         *)
(* dependents.go): history windows and merges become sources of their own, *)
(* whose inputs are checked for cycles and pass on that they may not be    *)
(* redistributed.                                                          *)
(*                                                                         *)
(* A name is a sequence, so that the name of a window can collide with a   *)
(* declared one.  Loading is a function; what it must guarantee is stated  *)
(* as assumptions, which TLC evaluates over the catalogs named below.      *)
(***************************************************************************)
EXTENDS Naturals, SequencesExt, FiniteSetsExt

Windowed(name, window) == Append(name, window)

(***************************************************************************)
(* Expansion.  A catalog has sources and merges, functions on their names; *)
(* ok is FALSE once it has been refused.                                   *)
(***************************************************************************)
Refused(cat) == [cat EXCEPT !.ok = FALSE]
InOrder(order, names) == SelectSeq(order, LAMBDA n : n \in names)

\* A feed with no role has a set of addresses; so has one with a role that is
\* not a database of providers alone.
sourceProducesIPSet(src) ==
  src.use = {} \/ src.use \cap {"bogons", "critical_infrastructure", "provider_context"} # {}

\* What the window of a parent is: its parent, less what makes that a source of
\* its own.
Variant(src, parent) ==
  LET own == [windows |-> {}, derived |-> {parent}, use |-> {}, critical |-> "none",
              static |-> <<>>, url |-> "internal", frequency |-> 0,
              artifact |-> <<>>, provenance |-> "secondary_retention"]
  IN [f \in DOMAIN src |-> IF f \in DOMAIN own THEN own[f] ELSE src[f]]

\* expandRetentionWindows, of one parent.
ExpandWindows(cat, parent) ==
  LET src == cat.sources[parent]
      new == {Windowed(parent, w) : w \in src.windows}
  IN IF ~cat.ok \/ new = {} THEN cat
     ELSE IF ~sourceProducesIPSet(src) \/ new \cap DOMAIN cat.sources # {} THEN Refused(cat)
     ELSE [cat EXCEPT !.sources =
             [n \in DOMAIN @ \cup new |->
                IF n = parent THEN [src EXCEPT !.windows = {}]
                ELSE IF n \in new THEN Variant(src, parent)
                ELSE @[n]]]

\* mergeRefRedistributable: "yes", "no" or "cycle".  The first input that says
\* anything but "yes" ends it.
RECURSIVE RefRedistributable(_, _, _, _)
RefRedistributable(cat, order, ref, visiting) ==
  IF ref \in DOMAIN cat.sources THEN (IF cat.sources[ref].free THEN "yes" ELSE "no")
  ELSE IF ref \notin DOMAIN cat.merges THEN "yes"
  ELSE IF ref \in visiting THEN "cycle"
  ELSE IF ~cat.merges[ref].free THEN "no"
  ELSE FoldLeft(LAMBDA said, parent :
                  IF said # "yes" THEN said
                  ELSE RefRedistributable(cat, order, parent, visiting \cup {ref}),
                "yes", InOrder(order, cat.merges[ref].derived))

\* What a merge is as a source.  One without a frequency of its own takes that of
\* the processing loop.
Merged(merge, free) ==
  LET own == [free |-> free, url |-> "internal", provenance |-> "secondary_merge"]
  IN [f \in DOMAIN merge |-> IF f \in DOMAIN own THEN own[f]
                             ELSE IF f = "frequency" /\ merge[f] <= 0 THEN 5 ELSE merge[f]]

\* The merge loop of ExpandDerivatives, for one merge.
ExpandMerge(cat, order, m) ==
  LET merge == cat.merges[m]
      said  == {RefRedistributable(cat, order, r, {m}) : r \in merge.derived}
  IN IF ~cat.ok THEN cat
     ELSE IF m \in DOMAIN cat.sources \/ merge.derived = {} \/ "cycle" \in said
       THEN Refused(cat)
     ELSE [cat EXCEPT !.sources = [n \in DOMAIN @ \cup {m} |->
             IF n = m THEN Merged(merge, merge.free /\ "no" \notin said) ELSE @[n]]]

(***************************************************************************)
(* DetectCycles: a depth-first search that colors what it has begun grey   *)
(* and what it has finished black.  A derived set is visited in its order. *)
(***************************************************************************)
RECURSIVE Visit(_, _, _, _)
Visit(derived, order, search, name) ==
  CASE name \in search.grey ->
         LET i == SelectInSeq(search.stack, LAMBDA n : n = name)
         IN [search EXCEPT !.cycles = @ \cup
               {Append(SubSeq(search.stack, i, Len(search.stack)), name)}]
    [] name \in search.black -> search
    [] OTHER ->
         LET begun == [search EXCEPT !.grey = @ \cup {name}, !.stack = Append(@, name)]
             inputs == IF name \in DOMAIN derived THEN derived[name] ELSE {}
             done  == FoldLeft(LAMBDA s, parent : Visit(derived, order, s, parent),
                               begun, InOrder(order, inputs))
         IN [done EXCEPT !.grey = @ \ {name}, !.black = @ \cup {name},
                         !.stack = Front(@)]

DetectCycles(derived, order) ==
  LET start == [grey |-> {}, black |-> {}, stack |-> <<>>, cycles |-> {}]
  IN FoldLeft(LAMBDA s, n : IF n \in s.black THEN s ELSE Visit(derived, order, s, n),
              start, InOrder(order, DOMAIN derived)).cycles

Derived(cat) == [n \in DOMAIN cat.sources |-> cat.sources[n].derived]

ExpandDerivatives(cat, order) ==
  LET windows(c, names) == FoldLeft(ExpandWindows, c, InOrder(order, names))
      merged == FoldLeft(LAMBDA c, m : ExpandMerge(c, order, m),
                         windows(cat, DOMAIN cat.sources), InOrder(order, DOMAIN cat.merges))
      all    == IF merged.ok THEN windows(merged, DOMAIN merged.merges) ELSE merged
  IN IF all.ok /\ DetectCycles(Derived(all), order) = {}
       THEN [all EXCEPT !.merges = <<>>] ELSE Refused(all)

\* What is built from the databases of countries, if there is one.
BuiltInNames(cat) ==
  IF \E n \in DOMAIN cat.sources : "geoip" \in cat.sources[n].use
    THEN {<<"anonymous">>, <<"satellite">>} ELSE {}

\* validateMergeReferences: before expansion, so the windows of merges are unknown.
GeneratedNames(cat) ==
  DOMAIN cat.sources \cup DOMAIN cat.merges \cup BuiltInNames(cat)
    \cup UNION {{Windowed(n, w) : w \in cat.sources[n].windows} : n \in DOMAIN cat.sources}

Load(cat, order) ==
  IF \A m \in DOMAIN cat.merges : /\ cat.merges[m].derived # {}
                                  /\ cat.merges[m].derived \subseteq GeneratedNames(cat)
    THEN ExpandDerivatives(cat, order) ELSE Refused(cat)

\* Dependents: the inverse of derived.
Dependents(derived) ==
  LET parents == UNION {derived[n] : n \in DOMAIN derived}
  IN [p \in parents |-> {n \in DOMAIN derived : p \in derived[n]}]

\* isRedistributableForConfig, of a loaded catalog.
RECURSIVE IsRedistributable(_, _)
IsRedistributable(cat, name) ==
  name \in DOMAIN cat.sources =>
    /\ cat.sources[name].free
    /\ \A p \in cat.sources[name].derived : IsRedistributable(cat, p)

(***************************************************************************)
(* The catalogs: a source that may forbid redistribution and may have a    *)
(* window, two merges of anything, and declared sources whose names        *)
(* collide with a window or a merge.  A merge may use one that is expanded *)
(* before it or after it.                                                  *)
(***************************************************************************)
S == <<"s">>
K == <<"k">>
M == <<"m">>
NamesInOrder == <<K, Windowed(K, "7d"), M, Windowed(M, "7d"), S, Windowed(S, "7d")>>

DeclaredSource(free, windows) ==
  [derived |-> {}, free |-> free, windows |-> windows, use |-> {}]
MergesOf(refs, windows) ==
  [derived : SUBSET refs, free : BOOLEAN, windows : windows, use : {{}}]

Catalogs ==
  {[ok |-> TRUE, sources |-> [n \in {S} \cup extra |-> DeclaredSource(n # S \/ free, w)], merges |-> merges]
     : free \in BOOLEAN, w \in {{}, {"7d"}}, extra \in {{}, {M}, {Windowed(S, "7d")}},
       merges \in {K :> k @@ M :> m :
                     k \in MergesOf({S, Windowed(S, "7d"), K, M, Windowed(M, "7d")}, {{}}),
                     m \in MergesOf({S, Windowed(S, "7d"), K, M}, {{}, {"7d"}})}}

\* Derived from, directly or not.
Ancestors(derived, n) ==
  LET up[i \in 0 .. Cardinality(DOMAIN derived)] ==
        IF i = 0 THEN derived[n]
        ELSE up[i - 1] \cup UNION {derived[p] : p \in up[i - 1] \cap DOMAIN derived}
  IN up[Cardinality(DOMAIN derived)]

HasCycle(derived) == \E n \in DOMAIN derived : n \in Ancestors(derived, n)

\* What the files declare: every source, merge and window, with its inputs.
DeclaredInputs(cat) ==
  LET plain == cat.sources @@ cat.merges
      names == GeneratedNames(cat)
        \cup UNION {{Windowed(n, w) : w \in cat.merges[n].windows} : n \in DOMAIN cat.merges}
  IN [n \in names |-> IF n \in DOMAIN plain THEN plain[n].derived ELSE {Front(n)}]

-----------------------------------------------------------------------------
\* The search reports a cycle if and only if there is one, and what it reports is
\* a cycle, whatever the inputs of three sources, one of them unknown.
ASSUME CyclesFound ==
  \A derived \in [{K, M, S} -> SUBSET {K, M, S, Windowed(S, "7d")}] :
    LET cycles == DetectCycles(derived, NamesInOrder)
    IN /\ cycles = {} <=> ~HasCycle(derived)
       /\ \A c \in cycles : /\ c[1] = c[Len(c)]
                            /\ \A i \in 1 .. Len(c) - 1 : c[i + 1] \in derived[c[i]]

\* A catalog is refused exactly when a merge has no or unknown inputs, a name is
\* declared twice, or a feed is derived from itself.
ASSUME RefusedForCause ==
  \A cat \in Catalogs :
    LET declared == DeclaredInputs(cat)
    IN Load(cat, NamesInOrder).ok <=>
         /\ \A m \in DOMAIN cat.merges : /\ cat.merges[m].derived # {}
                                         /\ cat.merges[m].derived \subseteq GeneratedNames(cat)
         /\ DOMAIN cat.sources \cap DOMAIN cat.merges = {}
         /\ \A n \in DOMAIN cat.sources : \A w \in cat.sources[n].windows :
              Windowed(n, w) \notin DOMAIN cat.sources
         /\ ~HasCycle(declared)

\* A loaded catalog has every declared source, merge and window under its name,
\* with its inputs.
ASSUME NothingLost ==
  \A cat \in Catalogs :
    LET loaded == Load(cat, NamesInOrder)
    IN loaded.ok => Derived(loaded) = DeclaredInputs(cat)

\* A feed may be redistributed if and only if nothing it is derived from forbids
\* it, however long the way: the flag that loading leaves and the one the engine
\* derives agree, in whatever order the merges are expanded.
ASSUME ForbiddenInherited ==
  \A cat \in Catalogs :
    LET loaded   == Load(cat, NamesInOrder)
        declared == cat.sources @@ cat.merges
        may(n)   == n \in DOMAIN declared => declared[n].free
    IN loaded.ok =>
         \A n \in DOMAIN loaded.sources :
           LET free == may(n) /\ \A p \in Ancestors(Derived(loaded), n) : may(p)
           IN loaded.sources[n].free = free /\ IsRedistributable(loaded, n) = free

\* The queue finds every feed composed from a parent, and no other.
ASSUME DependentsInvert ==
  \A derived \in [{K, M, S} -> SUBSET {K, M, S}] :
    LET dependents == Dependents(derived)
    IN \A p \in {K, M, S}, n \in {K, M, S} :
         p \in derived[n] <=> (p \in DOMAIN dependents /\ n \in dependents[p])

=============================================================================
