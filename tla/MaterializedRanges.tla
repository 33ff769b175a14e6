-------------------------- MODULE MaterializedRanges --------------------------
(***************************************************************************)
(* The operations of RangeStreams over sources that are read by index      *)
(* (pkg/iprange, materialize.go, overlap_fast.go, iter_ops_indexed.go):    *)
(* the ranges of the result are collected into a set, or only counted, and *)
(* a read from a file may fail half way.  What callers need is the number  *)
(* of addresses, which is added up range by range and never counted again: *)
(* it is what the pages, the retention and the comparison of two feeds     *)
(* show.                                                                   *)
(***************************************************************************)
EXTENDS RangeStreams, FiniteSets

CONSTANTS
  Stored     (* the count that a single source of a union has of its own   *)

VARIABLES
  unique,    (* UniqueIPs of the set, or the count that is returned        *)
  failed     (* a read failed: intersection, exclusion and union return an *)
             (* error, the difference ends as if it were complete          *)

allVars == <<vars, unique, failed>>

Start == Init /\ unique = 0 /\ failed = FALSE

\* appendMaterializedRange: the range just yielded is counted.
Count ==
  unique' = IF Len(out') > Len(out) THEN unique + Size(out'[Len(out')]) ELSE unique

\* One turn of a loop, unless a read has failed.
Counted(turn) == ~failed /\ turn /\ Count /\ UNCHANGED failed

ReadFails == ~failed /\ failed' = TRUE /\ UNCHANGED <<vars, unique>>

\* A set that is the result, and its count: for overlapCount and ExcludeCount
\* the count is all that is kept.
IntersectSources == Start /\ [][Counted(IntersectNext) \/ ReadFails]_allVars
ExcludeSources   == Start /\ [][Counted(ExcludeNext) \/ ReadFails]_allVars

\* diffIndexedIter has nobody to return an error to: when the sources cannot be
\* opened or the next range of one cannot be read it stops, and what it held back
\* is not yielded.
ReadsOn(s) == Len(rest'[s]) < Len(rest[s]) /\ rest'[s] # <<>>

DiffStops ==
  /\ ~failed /\ failed' = TRUE
  /\ \/ rest = given /\ UNCHANGED <<vars, unique>>
     \/ DiffNext /\ Count /\ (ReadsOn(A) \/ ReadsOn(B))

DiffSources == Start /\ [][Counted(DiffNext) \/ DiffStops]_allVars

\* Several sources are merged and counted.  The ranges of a single one are copied
\* (materializeSingleIndexed) and its own count is taken with them.
UnionStart == Init /\ failed = FALSE /\ unique = IF SingleSource THEN Stored ELSE 0

Copied ==
  /\ SingleSource /\ ~failed
  /\ \E s \in Sources : UnionPass(s)
  /\ UNCHANGED <<unique, failed>>

UnionSources ==
  UnionStart /\ [][Copied \/ (~SingleSource /\ Counted(MergeNext)) \/ ReadFails]_allVars

\* A result that is returned is complete, and its count is the number of its
\* addresses, as many of them as there are.
Returned(done, result) ==
  done /\ ~failed => Covered(out) = result /\ unique = Cardinality(result)

\* IntersectSourcesContext, overlapCountIndexedSources
IntersectReturned == Returned(~Left(A) \/ ~Left(B), Intersection)

\* ExcludeSourcesContext, ExcludeCountContext
ExcludeReturned == Returned(~Left(A), Exclusion)

\* diffIndexedIter, CountIterContext: the total is returned without an error also
\* after a failed read.  It is then the number of addresses up to some point:
\* none of them wrong and none before that point missing, but not all.
DiffReturned ==
  /\ Returned(~Left(A) /\ ~Left(B) /\ pending = NoRange, Difference)
  /\ failed =>
       /\ Covered(out) \subseteq Difference
       /\ UpTo(Difference, out)
       /\ unique = Cardinality(Covered(out))
       /\ unique <= Cardinality(Difference)

\* UnionSourcesContext: the count is right for several sources, and for a single
\* one if the count it has of its own is.
UnionReturned ==
  LET complete == Exhausted /\ pending = NoRange IN
  /\ ~SingleSource => Returned(complete, Union)
  /\ SingleSource /\ complete /\ ~failed =>
       /\ \A s \in Sources : out = given[s]
       /\ Covered(out) = Union
       /\ unique = Stored
=============================================================================
