------------------------- MODULE MCCachePersistence -------------------------
(***************************************************************************)
(* CachePersistence for TLC.  The documents of countries and ASNs, which   *)
(* are kept in files of their own, are computed by the pure module         *)
(* EntityDocuments; what is in the cache, and how it is made again at a    *)
(* start or a reload, by CacheEntries and HistoryLedger.  TLC evaluates    *)
(* the assumptions of the three here.                                      *)
(***************************************************************************)
EXTENDS CachePersistence, EntityDocuments, CacheEntries, HistoryLedger
=============================================================================
