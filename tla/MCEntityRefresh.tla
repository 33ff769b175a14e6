-------------------------- MODULE MCEntityRefresh --------------------------
(***************************************************************************)
(* EntityRefresh for TLC: feeds that all start alike are interchangeable.  *)
(* The files a run publishes and serves are computed by the pure modules   *)
(* EngineRun, ComparisonRows and WebFiles, whose assumptions TLC evaluates *)
(* here.                                                                   *)
(***************************************************************************)
EXTENDS EntityRefresh, ComparisonRows, WebFiles, EngineRun, TLC

FeedSymmetry == Permutations(Feeds)
=============================================================================
