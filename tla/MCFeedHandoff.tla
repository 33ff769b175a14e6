--------------------------- MODULE MCFeedHandoff ---------------------------
(***************************************************************************)
(* Instances of FeedHandoff for TLC.                                       *)
(***************************************************************************)
EXTENDS FeedHandoff

\* Version 3 of a source brings the content of version 1 back.
Reverts == [v \in 1..MaxVersion |-> IF v = 3 THEN 1 ELSE v]
=============================================================================
