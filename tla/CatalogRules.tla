--------------------------- MODULE CatalogRules ---------------------------
(***************************************************************************)
(* How the catalog is read and what it must satisfy (pkg/config: load.go,  *)
(* config.go, validate*.go and what they call): the files are merged into  *)
(* one catalog, which is expanded as Catalog says, completed with what is  *)
(* built in, and refused unless every rule of Validate holds.              *)
(*                                                                         *)
(* A field that has a list of allowed values takes a few of them and one   *)
(* that is not; an address, a text or a name is the class the rules see.   *)
(***************************************************************************)
EXTENDS Catalog

(***************************************************************************)
(* Sources.                                                                *)
(***************************************************************************)
UseRoles == {"bogons", "asn", "geoip", "critical_infrastructure", "provider_context"}
Provenances ==
  {"primary", "secondary_upstream", "secondary_merge", "secondary_retention"}

IsCritical(src) == "critical_infrastructure" \in src.use
HasUse(src, role) == role \in src.use

validateUseRoles(src) == src.use \subseteq UseRoles

\* The metadata is "none", "whole", or "broken": a tier, role, type or quality
\* outside its list, or no rationale.
reservedProviderNames == {<<"infrastructure">>, <<"providers">>}
validateCriticalMetadata(name, src) ==
  /\ IsCritical(src) <=> src.critical # "none"
  /\ IsCritical(src) => name \notin reservedProviderNames
  /\ src.critical # "broken"

validateSourceRoleCompatibility(src) ==
  IsCritical(src) =>
    /\ src.use \cap {"bogons", "provider_context", "asn", "geoip"} = {}
    /\ src.ipv \in {"", "ipv4"}
    /\ src.windows = {}

\* A line is "v4", "v6", "text", or "blank": empty, padded, or more than a line.
validateStaticSourceBody(src) ==
  src.static # <<>> =>
    /\ src.url = ""
    /\ sourceProducesIPSet(src)
    /\ \A i \in DOMAIN src.static :
         /\ src.static[i] # "blank"
         /\ IsCritical(src) => src.static[i] = "v4"

validateSourceIPSetShape(src) ==
  sourceProducesIPSet(src) => src.ipv \in {"ipv4", "ipv6"} /\ src.output \in {"ipset", "netset"}

validateSourceProviderFormat(src) ==
  src.use \cap {"asn", "geoip"} # {} => src.format # ""

\* A URL is its scheme, "built_in" that of a feed with the name of a built-in one,
\* or "misplaced" for a file on a host or at a relative path.
\* One of an artifact has the name of the artifact, which a load has read from it.
validateSourceURL(cat, src) ==
  /\ src.url \in {"", "https", "internal", "built_in", "file", "artifact"}
  /\ src.url = "artifact" => src.artifact \in DOMAIN cat.artifacts /\ src.frequency = 0

validateSource(cat, name) ==
  LET src == cat.sources[name]
  IN /\ src.frequency >= 0
     /\ src.provenance \in Provenances
     /\ validateUseRoles(src)
     /\ validateCriticalMetadata(name, src)
     /\ validateSourceRoleCompatibility(src)
     /\ validateStaticSourceBody(src)
     /\ validateSourceIPSetShape(src)
     /\ validateSourceProviderFormat(src)
     /\ validateSourceURL(cat, src)

(***************************************************************************)
(* Merges, as they are declared.                                           *)
(***************************************************************************)
validateMergeRoleCompatibility(merge) ==
  /\ IsCritical(merge) => /\ merge.use \cap {"bogons", "provider_context"} = {}
                          /\ merge.ipv \in {"", "ipv4"}
  /\ merge.use \cap {"asn", "geoip"} = {}

validateMerge(name, merge) ==
  /\ merge.ipv \in {"ipv4", "ipv6"}
  /\ merge.output \in {"ipset", "netset"}
  /\ merge.frequency >= 0
  /\ merge.derived # {}
  /\ validateUseRoles(merge)
  /\ validateCriticalMetadata(name, merge)
  /\ validateMergeRoleCompatibility(merge)
  /\ merge.provenance \in Provenances

(***************************************************************************)
(* The rest of the catalog.                                                *)
(***************************************************************************)
validateArtifact(cat, name) ==
  /\ name \notin DOMAIN cat.sources
  /\ cat.artifacts[name].frequency >= 0
  /\ cat.artifacts[name].limit >= -1
  /\ cat.artifacts[name].type = "dronebl_buildzone"

\* A catalog without categories has feeds of any.
validateCategoryRegistry(cat) ==
  cat.categories # {} =>
    /\ \A n \in DOMAIN cat.sources :
         ~cat.sources[n].hidden => cat.sources[n].category \in cat.categories \cup {""}
    /\ DOMAIN cat.runtime.thresholds \subseteq cat.categories

\* The default provider of a role, <<>> if there is none.
validateDefaultProvider(cat, role) ==
  cat.defaults[role] # <<>> => /\ cat.defaults[role] \in DOMAIN cat.sources
                             /\ HasUse(cat.sources[cat.defaults[role]], role)

isPublicFeedForCriticalArtifactNamespace(src) ==
  ~src.hidden /\ src.use \cap {"asn", "geoip"} = {} /\ sourceProducesIPSet(src)

CriticalAggregate(feed) == feed \o <<"_critical_infrastructure">>
CriticalArtifact(feed, provider) == feed \o <<"_critical_">> \o provider

validateCriticalArtifactNamespace(cat) ==
  LET sources == cat.sources
      public  == {n \in DOMAIN sources : isPublicFeedForCriticalArtifactNamespace(sources[n])}
      targets == {n \in public : /\ sources[n].use \cap {"critical_infrastructure", "provider_context"} = {}
                                 /\ sources[n].ipv \in {"", "ipv4"}}
      providers == {n \in DOMAIN sources : IsCritical(sources[n])}
  IN \A t \in targets :
       /\ CriticalAggregate(t) \notin public
       /\ \A p \in providers : CriticalArtifact(t, p) \notin public

\* An entry is of an AS, and whole or broken as metadata is.  Some ASes are of
\* customers as much as of the operator.
disallowedASNs == {13335, 16509}
validateCriticalASNContext(entries) ==
  /\ IsInjective([i \in DOMAIN entries |-> entries[i].asn])
  /\ \A i \in DOMAIN entries : /\ entries[i].asn \notin disallowedASNs \cup {0}
                               /\ entries[i].tier \in {"soft", "contextual"}
                               /\ entries[i].whole

(***************************************************************************)
(* Ages of feeds, in minutes.  A limit that is not positive is not set.    *)
(***************************************************************************)
Minutes(days) == days * 24 * 60
normalizeFeedHealthThresholds(runtime) ==
  LET set(value, usual) == IF value <= 0 THEN usual ELSE value
      given(limits) == [k \in DOMAIN limits |-> IF limits[k] > 0 THEN limits[k] ELSE 0]
  IN [runtime EXCEPT !.healthy    = set(@, Minutes(7)),
                     !.risky      = set(@, Minutes(30)),
                     !.archival   = set(@, Minutes(60)),
                     !.thresholds = [c \in DOMAIN @ |-> given(@[c])]]

Ordered(limits) == 0 < limits.healthy /\ limits.healthy < limits.risky
validateFeedHealthThresholds(runtime) ==
  /\ runtime.grace > 0 /\ runtime.archival > 0
  /\ Ordered(runtime)
  /\ \A c \in DOMAIN runtime.thresholds : Ordered(runtime.thresholds[c])

FeedHealthThresholdsForCategory(runtime, category) ==
  IF category \in DOMAIN runtime.thresholds THEN runtime.thresholds[category]
  ELSE [healthy |-> runtime.healthy, risky |-> runtime.risky]

Validate(cat) ==
  /\ validateCategoryRegistry(cat)
  /\ validateFeedHealthThresholds(cat.runtime)
  /\ validateCriticalASNContext(cat.asnContext)
  /\ \A role \in DOMAIN cat.defaults : validateDefaultProvider(cat, role)
  /\ \A n \in DOMAIN cat.artifacts : validateArtifact(cat, n)
  /\ \A n \in DOMAIN cat.sources : validateSource(cat, n)
  /\ \A n \in DOMAIN cat.merges : validateMerge(n, cat.merges[n])
  /\ validateCriticalArtifactNamespace(cat)

(***************************************************************************)
(* The files.  A fragment is a catalog that declares less, in the order    *)
(* its file lists the sources.                                             *)
(***************************************************************************)
appendOrderedNames(order, names, existing, preferred, incoming) ==
  LET listed == SelectSeq(preferred, LAMBDA n : n \in incoming)
      all    == listed \o InOrder(order, incoming \ ToSet(listed))
  IN names \o SelectSeq(all, LAMBDA n : n \notin existing \cup ToSet(names))

MergeFragment(order, cat, other) ==
  [cat EXCEPT
     !.runtime        = IF other.runtimeDefined THEN other.runtime ELSE @,
     !.runtimeDefined = @ \/ other.runtimeDefined,
     !.defaults       = [r \in DOMAIN @ |-> IF other.defaults[r] # <<>> THEN other.defaults[r] ELSE @[r]],
     !.sourceOrder    = appendOrderedNames(order, @, DOMAIN cat.sources,
                                           other.sourceOrder, DOMAIN other.sources),
     !.sources        = other.sources @@ @,
     !.artifacts      = other.artifacts @@ @,
     !.categories     = @ \cup other.categories,
     !.asnContext     = @ \o other.asnContext,
     !.merges         = other.merges @@ @]

orderedSourceNames(order, cat) ==
  LET listed == SelectSeq(cat.sourceOrder, LAMBDA n : n \in DOMAIN cat.sources)
  IN listed \o InOrder(order, DOMAIN cat.sources \ ToSet(listed))

SourcesWithUse(order, cat, role) ==
  SelectSeq(orderedSourceNames(order, cat), LAMBDA n : HasUse(cat.sources[n], role))

SourcesWithUseDefaultFirst(order, cat, role) ==
  LET all   == SourcesWithUse(order, cat, role)
      first == IF role \in DOMAIN cat.defaults THEN cat.defaults[role] ELSE <<>>
  IN IF first \notin ToSet(all) THEN all
     ELSE <<first>> \o SelectSeq(all, LAMBDA n : n # first)

(***************************************************************************)
(* What is done with the merged catalog before the rules.                  *)
(***************************************************************************)
normalizeCatalogMetadata(cat) ==
  LET known(p) == IF p = "" THEN "primary" ELSE p
      named(feeds) == [n \in DOMAIN feeds |-> [feeds[n] EXCEPT !.provenance = known(@)]]
      new == [cat EXCEPT !.sources = named(@), !.merges = named(@)]
      valid(feeds) == \A n \in DOMAIN feeds : feeds[n].provenance \in Provenances
  IN IF valid(new.sources) /\ valid(new.merges) THEN new ELSE Refused(new)

builtInSyntheticSource(cat) ==
  [derived |-> {n \in DOMAIN cat.sources : HasUse(cat.sources[n], "geoip")},
   free |-> TRUE, windows |-> {}, use |-> {}, ipv |-> "ipv4", output |-> "netset",
   hidden |-> TRUE, category |-> "", critical |-> "none", static |-> <<>>,
   url |-> "built_in", format |-> "", frequency |-> 5, artifact |-> <<>>,
   provenance |-> "primary"]

injectBuiltInSyntheticSources(order, cat) ==
  LET names == BuiltInNames(cat)
      new   == names \ DOMAIN cat.sources
  IN IF \E n \in names \ new : cat.sources[n].url # "built_in" THEN Refused(cat)
     ELSE [cat EXCEPT !.sources = [n \in new |-> builtInSyntheticSource(cat)] @@ @,
                      !.sourceOrder = @ \o InOrder(order, new)]

normalizeArtifactBackedSource(src) ==
  [src EXCEPT !.artifact = IF src.url = "artifact" THEN @ ELSE <<>>]

canonicalizeOutput(output) ==
  CASE output \in {"ip", "ips"} -> "ipset"
    [] output \in {"net", "nets", "both", "all"} -> "netset"
    [] OTHER -> output

\* From here on there are no merges.
finalizeLoadedConfig(order, cat) ==
  LET known == normalizeCatalogMetadata(cat)
      aged  == [known EXCEPT !.runtime = normalizeFeedHealthThresholds(@)]
      all   == IF aged.ok THEN Load(aged, order) ELSE aged
      whole == IF all.ok THEN injectBuiltInSyntheticSources(order, all) ELSE all
      final == [whole EXCEPT !.sources = [n \in DOMAIN @ |->
                  [normalizeArtifactBackedSource(@[n]) EXCEPT !.output = canonicalizeOutput(@)]]]
  IN IF final.ok /\ Validate(final) THEN final ELSE Refused(final)

\* A file in the order of the paths: its kind is its suffix.  One that cannot be
\* read, or has a block that was removed from the format, ends the load.
LoadDirectory(order, new, files) ==
  LET taken == SelectSeq(files, LAMBDA f : ~f.dotted /\ f.kind \in {"yaml", "conf"})
  IN IF \E i \in DOMAIN taken : ~taken[i].readable \/ taken[i].removedBlock THEN Refused(new)
     ELSE finalizeLoadedConfig(order,
            FoldLeft(LAMBDA cat, f : MergeFragment(order, cat, f.fragment), new, taken))

(***************************************************************************)
(* The catalogs the laws are evaluated over.                               *)
(***************************************************************************)
PlainSource ==
  [derived |-> {}, free |-> TRUE, windows |-> {}, use |-> {}, ipv |-> "ipv4",
   output |-> "ipset", hidden |-> FALSE, category |-> "", critical |-> "none",
   static |-> <<>>, url |-> "https", format |-> "", frequency |-> 1,
   artifact |-> <<>>, provenance |-> ""]
DefaultRuntime ==
  [healthy |-> Minutes(7), risky |-> Minutes(30), archival |-> Minutes(60),
   grace |-> Minutes(10), thresholds |-> <<>>]
NewCatalog ==
  [ok |-> TRUE, sources |-> <<>>, merges |-> <<>>, artifacts |-> <<>>, categories |-> {},
   defaults |-> [asn |-> <<>>, geoip |-> <<>>], asnContext |-> <<>>,
   runtime |-> DefaultRuntime, runtimeDefined |-> FALSE, sourceOrder |-> <<>>]

A == <<"anonymous">>
RuleNames == <<A, K, M, Windowed(M, "7d"), S, Windowed(S, "7d"), <<"satellite">>>>
WithSources(sources) == [NewCatalog EXCEPT !.sources = sources]

Typo == UseRoles \cup {"typo"}
Sources ==
  {[PlainSource EXCEPT !.use = use, !.ipv = ipv, !.output = output, !.critical = critical,
                       !.static = body[1], !.url = body[2], !.format = format] :
     use \in {u \in SUBSET Typo : Cardinality(u) <= 2}, ipv \in {"", "ipv4", "ipv6"},
     output \in {"ipset", "both", "mixed"}, critical \in {"none", "whole", "broken"},
     body \in {<<<<>>, "https">>, <<<<"v4">>, "">>, <<<<"v4", "text">>, "">>, <<<<"v4">>, "https">>},
     format \in {"", "csv"}}

-----------------------------------------------------------------------------
\* The rules of a declared merge are never applied when a catalog is loaded, as
\* there are no merges left by then.  Those of the source it has become refuse the
\* same merges, but for a negative frequency, which expansion replaces.
ASSUME MergeRulesSurvive ==
  \A use \in SUBSET Typo, ipv \in {"", "ipv4", "ipv6"}, output \in {"ipset", "mixed"},
     critical \in {"none", "whole", "broken"}, frequency \in {-1, 0, 1} :
    LET merge  == [PlainSource EXCEPT !.derived = {S}, !.use = use, !.ipv = ipv, !.url = "",
                     !.output = output, !.critical = critical, !.frequency = frequency]
        loaded == finalizeLoadedConfig(RuleNames,
                    [WithSources(S :> PlainSource) EXCEPT !.merges = M :> merge])
    IN loaded.ok <=> validateMerge(M, [merge EXCEPT !.provenance = "primary", !.frequency = 0])

\* Windows are refused of a feed without addresses, and never for another reason:
\* the window of a source that is accepted is accepted.  The rule that a critical
\* feed has none is applied to sources whose windows have been expanded, and so
\* to none.
ASSUME WindowsAccepted ==
  \A src \in Sources :
    LET loaded(windows) ==
          finalizeLoadedConfig(RuleNames, WithSources(S :> [src EXCEPT !.windows = windows])).ok
    IN loaded({"7d"}) <=> loaded({}) /\ sourceProducesIPSet(src)

\* Files that are merged on their own and then into the catalog leave it as they do
\* one after the other, whichever of them list what they declare.
ASSUME FragmentsAssociate ==
  LET fragments == {[NewCatalog EXCEPT !.sources = [n \in names |-> [PlainSource EXCEPT !.frequency = k]],
                                       !.sourceOrder = listed, !.defaults.asn = default,
                                       !.runtimeDefined = (k = 2), !.runtime.grace = k] :
                      names \in {{K, M}, {M, S}, {S}}, k \in 1 .. 2,
                      listed \in {<<>>, <<M, K>>, <<S, M>>}, default \in {<<>>, K}}
      loaded(files) == FoldLeft(LAMBDA cat, f : MergeFragment(RuleNames, cat, f), NewCatalog, files)
  IN \A x, y, z \in fragments :
       loaded(<<x, y, z>>) = MergeFragment(RuleNames, loaded(<<x>>), loaded(<<y, z>>))

\* Whatever the files list, every source has one place in the order, the first
\* file's before all others and in the order it lists them.  A hidden file adds none.
ASSUME OrderedOnce ==
  \A own, other \in SUBSET {K, M, S} : \A listed \in SetToAllKPermutations({K, M, S}) :
    LET fragment(names, l) ==
          [NewCatalog EXCEPT !.sources = [n \in names |-> PlainSource], !.sourceOrder = l]
        file(f, dotted) == [dotted |-> dotted, kind |-> "yaml", readable |-> TRUE,
                            removedBlock |-> FALSE, fragment |-> f]
        first == SelectSeq(listed, LAMBDA n : n \in own)
        cat   == LoadDirectory(RuleNames, NewCatalog,
                   <<file(fragment({A}, <<A>>), TRUE), file(fragment(own, listed), FALSE),
                     file(fragment(other, <<S, K>>), FALSE)>>)
        all   == orderedSourceNames(RuleNames, cat)
    IN /\ DOMAIN cat.sources = own \cup other
       /\ ToSet(all) = DOMAIN cat.sources /\ IsInjective(all)
       /\ IsPrefix(first, all)
       /\ \A i \in 1 .. Cardinality(own) : all[i] \in own

\* In an accepted catalog the default provider of a role is the first of that role,
\* and the others follow in the order they have without it.
ASSUME DefaultLeads ==
  \A uses \in [{K, M, S} -> {{}, {"asn"}, {"bogons", "asn"}}], default \in {<<>>, A, K, M, S} :
    LET cat == finalizeLoadedConfig(RuleNames,
                 [WithSources([n \in {K, M, S} |-> [PlainSource EXCEPT !.use = uses[n], !.format = "tsv"]])
                    EXCEPT !.defaults.asn = default, !.sourceOrder = <<S, K, M>>])
        all == SourcesWithUse(RuleNames, cat, "asn")
        led == SourcesWithUseDefaultFirst(RuleNames, cat, "asn")
    IN /\ cat.ok <=> default = <<>> \/ default \in ToSet(all)
       /\ cat.ok /\ default # <<>> => led = <<default>> \o Remove(all, default)
       /\ default = <<>> => led = all

\* The ages of an accepted catalog are ordered for every category, also of those a
\* file limits in part.
ASSUME AgesOrdered ==
  \A healthy, risky, h, r \in {-1, 0, 1, 2, Minutes(8)} :
    LET runtime == [DefaultRuntime EXCEPT !.healthy = healthy, !.risky = risky,
                      !.thresholds = [c \in {"spam"} |-> [healthy |-> h, risky |-> r]]]
        cat == finalizeLoadedConfig(RuleNames,
                 [NewCatalog EXCEPT !.runtime = runtime, !.categories = {"spam", "web"}])
        of(c) == FeedHealthThresholdsForCategory(cat.runtime, c)
    IN /\ cat.ok => \A c \in {"spam", "web"} : Ordered(of(c))
       /\ cat.ok <=> 0 < h /\ h < r /\ Ordered(of("web"))

\* Whatever an accepted catalog composes a feed from, it has: also where the input
\* is a window, another merge, or built in.  The built-in feeds have every database
\* of countries as an input, and no source of another kind has their names.
ASSUME InputsKnown ==
  \A refs \in SUBSET {A, K, S, Windowed(S, "7d"), Windowed(K, "7d")} :
  \A role \in {{}, {"geoip"}}, name \in {A, M}, windows \in {{}, {"7d"}} :
    LET databases == S :> [PlainSource EXCEPT !.windows = windows]
                     @@ K :> [PlainSource EXCEPT !.use = role, !.format = "csv"]
        cat == finalizeLoadedConfig(RuleNames,
                 [WithSources(databases) EXCEPT !.merges = name :> [PlainSource EXCEPT !.derived = refs]])
    IN cat.ok =>
         /\ \A n \in DOMAIN cat.sources : cat.sources[n].derived \subseteq DOMAIN cat.sources
         /\ ToSet(orderedSourceNames(RuleNames, cat)) = DOMAIN cat.sources
         /\ role # {} => cat.sources[A].derived = {K}
=============================================================================
