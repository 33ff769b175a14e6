----------------------------- MODULE RangeFilter -----------------------------
(***************************************************************************)
(* The overlap filter of a set (pkg/iprange, range_overlap_filter.go):     *)
(* built in one pass over its ranges and kept with it, so that two sets    *)
(* that share nothing are told apart without reading them again.  It may   *)
(* say "unknown"; it must never say "disjoint" of sets that share an       *)
(* address.                                                                *)
(*                                                                         *)
(* The evidence is the set of prefixes that are occupied: fine prefixes    *)
(* (/24) while they are few, and from the range that would make them too   *)
(* many on, coarse prefixes (/20), stored as a few words of a bitmap and   *)
(* as the whole bitmap when the words become too many.  The same loop is   *)
(* written four times, with and without the content hash, over iterators   *)
(* and over indexed files.                                                 *)
(***************************************************************************)
EXTENDS AddressRanges, FiniteSets

CONSTANTS
  SparseOf,     (* the fine prefix of each address: x >> 8                 *)
  CoarseOf,     (* the coarse prefix that holds a fine one: p >> 4         *)
  WordOf,       (* the word of the bitmap a coarse prefix is in: p >> 6    *)
  SparseLimit,  (* rangeSummarySparsePrefixLimit                           *)
  WordLimit     (* rangeSummaryCompactWordLimit                            *)

VARIABLES
  seen,       (* history: the addresses of the ranges read so far          *)
  hasRange,   (* a range was read                                          *)
  bounds,     (* from the first address read to the last                   *)
  sparse,     (* rangeSparsePrefixBuilder.inline                           *)
  overflow,   (* rangeSparsePrefixBuilder.overflow                         *)
  coarse,     (* the prefixes of the compact words, or of the bitmap       *)
  mapped      (* bitmap # nil: the words are no longer kept                *)

filterVars == <<seen, hasRange, bounds, sparse, overflow, coarse, mapped>>

SparsePrefixes(r) == SparseOf[r.lo] .. SparseOf[r.hi]
CoarsePrefixes(r) == CoarseOf[SparseOf[r.lo]] .. CoarseOf[SparseOf[r.hi]]
Coarsened(fine)   == {CoarseOf[p] : p \in fine}

FilterInit ==
  /\ seen = {}
  /\ hasRange = FALSE /\ bounds = NoRange
  /\ sparse = {} /\ overflow = FALSE
  /\ coarse = {} /\ mapped = FALSE

\* Only the prefix the previous range ended in can be there already.
WouldOverflow(r) ==
  ~overflow /\ Cardinality(sparse \cup SparsePrefixes(r)) > SparseLimit

TooManyWords(prefixes) == Cardinality({WordOf[p] : p \in prefixes}) > WordLimit

\* The coarse prefixes start from the fine ones, the first time these would
\* overflow.  If there were none yet, nothing starts, then or later.
AddCoarse(r) ==
  LET started == IF coarse = {} /\ WouldOverflow(r) THEN Coarsened(sparse) ELSE coarse
      all     == started \cup CoarsePrefixes(r)
  IN IF started = {}
       THEN UNCHANGED <<coarse, mapped>>
       ELSE /\ coarse' = all
            /\ mapped' = (mapped \/ TooManyWords(all))

AddSparse(r) ==
  IF overflow \/ WouldOverflow(r)
    THEN sparse' = {} /\ overflow' = TRUE
    ELSE sparse' = sparse \cup SparsePrefixes(r) /\ UNCHANGED overflow

\* One turn of the loop of buildRangeSourceSummary and buildRangeOverlapFilter.
Add(r) ==
  /\ hasRange => bounds.hi < r.lo
  /\ seen' = seen \cup Within(r)
  /\ hasRange' = TRUE
  /\ bounds' = [lo |-> IF hasRange THEN bounds.lo ELSE r.lo, hi |-> r.hi]
  /\ AddCoarse(r)
  /\ AddSparse(r)

FilterNext == \E r \in Ranges : Add(r)

FilterSpec == FilterInit /\ [][FilterNext]_filterVars

(***************************************************************************)
(* The filter, and what two of them tell.  No prefixes means no evidence:  *)
(* set() returns nil for a builder that is empty or gave up.               *)
(***************************************************************************)
RangeOverlapFilter ==
  [valid |-> TRUE, hasRange |-> hasRange, bounds |-> bounds,
   sparse |-> sparse, coarse |-> coarse]

Known(f, g)  == f.valid /\ g.valid
Absent(f, g) == ~f.hasRange \/ ~g.hasRange

BoundsDisjoint(f, g) ==
  f.bounds.hi < g.bounds.lo \/ g.bounds.hi < f.bounds.lo

\* Evidence tells two sets apart only if both have it.
NothingCommon(s, t) == s # {} /\ t # {} /\ s \cap t = {}

SparsePrefixesDisjoint(f, g) == NothingCommon(f.sparse, g.sparse)

\* The bitmap, else the words, else the fine prefixes, coarsened.
CoarseEvidence(f) == IF f.coarse # {} THEN f.coarse ELSE Coarsened(f.sparse)

PrefixesDisjoint(f, g) == NothingCommon(CoarseEvidence(f), CoarseEvidence(g))

FilterDisjoint(f, g) ==
  /\ Known(f, g)
  /\ \/ Absent(f, g)
     \/ BoundsDisjoint(f, g)
     \/ SparsePrefixesDisjoint(f, g)
     \/ PrefixesDisjoint(f, g)

(***************************************************************************)
(* What a filter says of a set of addresses.                               *)
(***************************************************************************)
Describes(f, addresses) ==
  /\ addresses # {} => f.hasRange
  /\ \A x \in addresses :
       /\ f.bounds.lo <= x /\ x <= f.bounds.hi
       /\ f.sparse # {} => SparseOf[x] \in f.sparse
       /\ f.coarse # {} => CoarseOf[SparseOf[x]] \in f.coarse

\* Whatever the ranges and wherever the limits fall, the evidence that a builder
\* holds covers every address it has read.
FilterRight == Describes(RangeOverlapFilter, seen)

\* Prefixes follow the order of the addresses.
PrefixesOrdered ==
  /\ SparseOf \in [Addresses -> Nat]
  /\ CoarseOf \in [Nat -> Nat]
  /\ WordOf \in [Nat -> Nat]
  /\ \A x, y \in Addresses : x <= y => SparseOf[x] <= SparseOf[y]
  /\ \A p, q \in Nat : p <= q => CoarseOf[p] <= CoarseOf[q]
=============================================================================
