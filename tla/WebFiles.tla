------------------------------ MODULE WebFiles ------------------------------
(***************************************************************************)
(* How a run's files reach the web directory (pkg/engine/web_batch.go) and *)
(* how they are served from there (pkg/web/cache.go).                      *)
(*                                                                         *)
(* They are written to a stage inside the directory and then moved over the*)
(* live files one by one, before files are deleted and others get a new time.*)
(* A cancelled context or an error stops it between any two of them.  Paths*)
(* are numbers in the order the stage is walked; a file is its content and *)
(* its time.  Directories and owners are left out.                         *)
(*                                                                         *)
(* What a request is served is kept by path, least recently used last, and *)
(* used again as long as the file has the same time and size.  A request   *)
(* looks at the file, at the cache, reads the file and inserts what it read;*)
(* only the looks at the cache hold the lock, so that publications and other*)
(* requests come between the steps.  Both halves of the cache are explored as*)
(* sets of reachable states.                                               *)
(***************************************************************************)
EXTENDS Naturals, SequencesExt, FiniteSetsExt

NoFile == [data |-> 0, mod |-> 0]

\* A batch: the files of its stage, markDelete's and markTouch's paths.
StagedWrites(batch) == DOMAIN batch.stage
Touched(batch) == DOMAIN batch.touches \ (batch.deletes \cup StagedWrites(batch))

\* The three passes of publishContext, one step per path.
Pass(kind, paths) ==
  [i \in 1 .. Cardinality(paths) |-> [kind |-> kind, path |-> SetToSortSeq(paths, <)[i]]]

PublishSteps(batch) ==
  Pass("move", StagedWrites(batch)) \o Pass("delete", batch.deletes) \o Pass("touch", Touched(batch))

\* A staged file equal to the live one only gives it its time: the outcome is
\* the same.  A time for a file that is not there is an error.
PublishStep(batch, done, step) ==
  LET path == step.path
  IN CASE ~done.ok -> done
       [] done.ok /\ step.kind = "move" -> [done EXCEPT !.live[path] = batch.stage[path]]
       [] done.ok /\ step.kind = "delete" -> [done EXCEPT !.live[path] = NoFile]
       [] done.ok /\ step.kind = "touch" ->
            IF done.live[path] = NoFile THEN [done EXCEPT !.ok = FALSE]
            ELSE [done EXCEPT !.live[path].mod = batch.touches[path]]

\* The web directory after the first n steps.
PublishedUpTo(n, batch, live) ==
  FoldLeft(LAMBDA done, step : PublishStep(batch, done, step),
           [ok |-> TRUE, live |-> live], SubSeq(PublishSteps(batch), 1, n))

PublishedAll(batch, live) == PublishedUpTo(Len(PublishSteps(batch)), batch, live)

(***************************************************************************)
(* What a publication must do, over all batches of two paths.              *)
(***************************************************************************)
Paths    == {1, 2}
Contents == [data : {1, 2}, mod : {1, 2}]
Lives    == [Paths -> Contents \cup {NoFile}]
Batches  ==
  [stage : UNION {[s -> [data : {1, 2}, mod : {1}]] : s \in SUBSET Paths},
   deletes : SUBSET Paths, touches : UNION {[s -> {1, 2}] : s \in SUBSET Paths}]

Intended(batch, live) ==
  [p \in Paths |->
     IF p \in batch.deletes THEN NoFile
     ELSE IF p \in StagedWrites(batch) THEN batch.stage[p]
     ELSE IF p \in Touched(batch) THEN [live[p] EXCEPT !.mod = batch.touches[p]]
     ELSE live[p]]

Touchable(batch, live) == \A p \in Touched(batch) : live[p] # NoFile

Stops(batch) == 0 .. Len(PublishSteps(batch))

\* A publication that runs to its end leaves what was staged, marked and, for
\* every other path, what was there; a deletion wins over a staged file and
\* both over a new time.
ASSUME PublishedRight ==
  \A batch \in Batches, live \in Lives :
    LET done == PublishedAll(batch, live)
    IN /\ done.ok <=> Touchable(batch, live)
       /\ done.ok => done.live = Intended(batch, live)

\* One that stops anywhere leaves each file as it was or as it is to be, never
\* deletes before everything new is in place, and the same batch, staged again,
\* completes it.
ASSUME InterruptedRight ==
  \A batch \in Batches, live \in Lives :
    Touchable(batch, live) =>
      \A n \in Stops(batch) :
        LET part == PublishedUpTo(n, batch, live).live
        IN /\ \A p \in Paths : part[p] \in {live[p], Intended(batch, live)[p]}
                                 \cup {batch.stage[q] : q \in StagedWrites(batch) \cap {p} \cap batch.deletes}
           /\ (\E p \in batch.deletes \ StagedWrites(batch) : live[p] # NoFile /\ part[p] = NoFile) =>
                \A p \in StagedWrites(batch) \ batch.deletes : part[p] = batch.stage[p]
           /\ Touchable(batch, part) => PublishedAll(batch, part).live = Intended(batch, live)

\* All states that steps lead to.
RECURSIVE ReachedBy(_, _, _)
ReachedBy(Successors(_), frontier, known) ==
  LET new == (UNION {Successors(s) : s \in frontier}) \ known
  IN IF new = {} THEN known ELSE ReachedBy(Successors, new, known \cup new)

(***************************************************************************)
(* The cache.  An entry has the stamp (time and size) it is looked up by   *)
(* and the data; the order lists the paths, the most recently used first.  *)
(***************************************************************************)
NoEntries == [files |-> [p \in {} |-> 0], order |-> <<>>, bytes |-> 0]

\* removeLocked
Removed(cache, path) ==
  [files |-> [p \in DOMAIN cache.files \ {path} |-> cache.files[p]],
   order |-> SelectSeq(cache.order, LAMBDA p : p # path),
   bytes |-> cache.bytes - cache.files[path].size]

RemoveStale(cache, path) == IF path \in DOMAIN cache.files THEN Removed(cache, path) ELSE cache

IsFresh(cache, path, info) ==
  /\ path \in DOMAIN cache.files
  /\ cache.files[path].mod = info.mod /\ cache.files[path].size = info.size

MovedToFront(cache, path) ==
  [cache EXCEPT !.order = <<path>> \o SelectSeq(@, LAMBDA p : p # path)]

RECURSIVE Evicted(_, _)
Evicted(cache, limits) ==
  IF (Cardinality(DOMAIN cache.files) > limits.entries \/ cache.bytes > limits.bytes)
       /\ cache.order # <<>>
  THEN Evicted(Removed(cache, Last(cache.order)), limits) ELSE cache

\* insertLoadedLocked: what another request inserted meanwhile is kept, if fresh.
InsertLoaded(cache, path, info, entry, limits) ==
  LET kept == RemoveStale(cache, path)
  IN IF IsFresh(cache, path, info) THEN MovedToFront(cache, path)
     ELSE Evicted([files |-> [p \in DOMAIN kept.files \cup {path} |->
                                IF p = path THEN entry ELSE kept.files[p]],
                   order |-> <<path>> \o kept.order,
                   bytes |-> kept.bytes + entry.size], limits)

\* The look before a file is read: a hit, or what is stale goes.
LookUp(cache, path, info) ==
  IF IsFresh(cache, path, info) THEN MovedToFront(cache, path) ELSE RemoveStale(cache, path)

(***************************************************************************)
(* The limits, under any sequence of the steps that hold the lock.         *)
(***************************************************************************)
SomePaths == {"p", "q", "r"}
SomeSizes == {1, 2, 3}
Limits    == [entries |-> 2, bytes |-> 4, file |-> 3]
Infos     == [mod : {1}, size : SomeSizes]
Loaded(size) == [mod |-> 1, size |-> size, data |-> size]

LockedSteps(cache) ==
  UNION {{LookUp(cache, p, info), RemoveStale(cache, p)}
           \cup {InsertLoaded(cache, p, info, Loaded(n), Limits) : n \in 1 .. Limits.file}
         : p \in SomePaths, info \in Infos}

Caches == ReachedBy(LockedSteps, {NoEntries}, {NoEntries})

\* The cache keeps to its limits, counts its bytes right and never forgets to
\* list a path that it keeps, nor lists one twice: eviction always ends.
ASSUME CacheBounded ==
  \A cache \in Caches :
    /\ IsInjective(cache.order) /\ ToSet(cache.order) = DOMAIN cache.files
    /\ cache.bytes = MapThenSumSet(LAMBDA p : cache.files[p].size, DOMAIN cache.files)
    /\ cache.bytes <= Limits.bytes /\ Len(cache.order) <= Limits.entries

\* What was just inserted is not what is evicted for it, and what was looked up
\* last is evicted last.
ASSUME JustUsedKept ==
  \A cache \in Caches, p \in SomePaths, info \in Infos : \A n \in 1 .. Limits.file :
    LET after == InsertLoaded(cache, p, info, Loaded(n), Limits)
    IN /\ Head(after.order) = p
       /\ \A q \in DOMAIN after.files \ {p} : \A r \in DOMAIN cache.files \ DOMAIN after.files :
            SelectInSeq(cache.order, LAMBDA x : x = q) < SelectInSeq(cache.order, LAMBDA x : x = r)

(***************************************************************************)
(* Freshness.  One file has three versions, replaced at any time; requests *)
(* are served concurrently.  now and seen are for the property: the        *)
(* current version, and those current since a request began.               *)
(***************************************************************************)
Requests == {1, 2}
Versions3 == 1 .. 3
Path == "p"

Waiting == [at |-> "stat", info |-> [mod |-> 0, size |-> 0], data |-> 0, seen |-> {}]
Opening == [now |-> 1, cache |-> NoEntries, req |-> [r \in Requests |-> Waiting]]

Answered(s, r, data) ==
  [s EXCEPT !.req[r] = [@ EXCEPT !.at = "served", !.data = data]]

\* load, step by step, of request r; stamps[v] is what version v is looked up by.
RequestSteps(s, r, stamps) ==
  LET q == s.req[r]
      looked == [s EXCEPT !.cache = LookUp(@, Path, q.info)]
      entry  == [mod |-> q.info.mod, size |-> stamps[q.data].size, data |-> q.data]
      stored == [s EXCEPT !.cache = InsertLoaded(@, Path, q.info, entry, Limits)]
  IN CASE q.at = "stat" ->
            {[s EXCEPT !.req[r] = [@ EXCEPT !.at = "look", !.info = stamps[s.now], !.seen = {s.now}]]}
       [] q.at = "look" ->
            {IF IsFresh(s.cache, Path, q.info) THEN Answered(looked, r, s.cache.files[Path].data)
             ELSE [looked EXCEPT !.req[r].at = "read"]}
       [] q.at = "read" -> {[s EXCEPT !.req[r] = [@ EXCEPT !.at = "insert", !.data = s.now]]}
       [] q.at = "insert" -> {Answered(stored, r, stored.cache.files[Path].data)}
       [] q.at = "served" -> {}

\* A publication renames the next version into place.
Replaced(s) ==
  IF s.now = 3 THEN {}
  ELSE {[s EXCEPT !.now = @ + 1,
                  !.req = [r \in Requests |-> [@[r] EXCEPT !.seen =
                             IF @ = {} THEN @ ELSE @ \cup {s.now + 1}]]]}

Served(stamps) ==
  LET Steps(s) == Replaced(s) \cup UNION {RequestSteps(s, r, stamps) : r \in Requests}
  IN ReachedBy(Steps, {Opening}, {Opening})

Stale(s, r) == s.req[r].at = "served" /\ s.req[r].data \notin s.req[r].seen

Stampings == [Versions3 -> [mod : {1, 2}, size : {1, 2}]]
Ordered(stamps) == \A v, w \in Versions3 : v < w => stamps[v].mod <= stamps[w].mod

\* If times do not go back and no two versions share their time and their size,
\* a request is served a version that was current after it began, although the
\* time it keeps may be older than the data it reads.
ASSUME FreshServed ==
  \A stamps \in Stampings :
    Ordered(stamps) /\ IsInjective(stamps) => \A s \in Served(stamps), r \in Requests : ~Stale(s, r)

\* A file that is replaced by one of the same time and size is served in its
\* place from then on.  The comparison of a feed is such a file: it keeps the
\* time of the feed while the counts of its counterparts change.
ASSUME SameStampStale ==
  \A stamps \in Stampings :
    stamps[1] = stamps[2] => \E s \in Served(stamps), r \in Requests : Stale(s, r)

\* So can one whose time goes back.
ASSUME TurnedBackStale ==
  \E stamps \in Stampings :
    IsInjective(stamps) /\ \E s \in Served(stamps), r \in Requests : Stale(s, r)
=============================================================================
