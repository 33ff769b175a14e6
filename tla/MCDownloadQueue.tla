-------------------------- MODULE MCDownloadQueue --------------------------
(***************************************************************************)
(* Instances of DownloadQueue for TLC.  What a download of a due feed      *)
(* leaves and what finds it missing are functions, in FeedChecks, Catalog, *)
(* CatalogRules, Derivatives, Integrity and Fetching, whose assumptions    *)
(* TLC evaluates here.                                                     *)
(***************************************************************************)
EXTENDS DownloadQueue, FeedChecks, CatalogRules, Integrity, Fetching

CONSTANTS a, b, c

\* c is composed from a and b.
Composed == [n \in Names |-> IF n = c THEN Names \ {c} ELSE {}]

=============================================================================
