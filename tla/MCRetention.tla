----------------------------- MODULE MCRetention -----------------------------
(***************************************************************************)
(* A small instance of Retention: the properties treat all addresses alike.*)
(* With it TLC evaluates what RangeAlgorithms, IPSets, IPv6Sets and        *)
(* SetFiles assume of the operations on sets that the update of the        *)
(* retention is made of, Processors of the texts the sets are read from,   *)
(* SupportingDownloads of the archives those texts are cut from, and       *)
(* ProviderEvidence of what is said of the sets from tables of providers.  *)
(***************************************************************************)
EXTENDS Retention, SetFiles, Processors, SupportingDownloads,
        ProviderEvidence

CONSTANTS a1, a2

const_Addrs == {a1, a2}
const_Times == {1, 2, 3}

Symmetry == Permutations(const_Addrs)
=============================================================================
