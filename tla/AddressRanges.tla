---------------------------- MODULE AddressRanges ----------------------------
(***************************************************************************)
(* Addresses and ranges of addresses (pkg/iprange), shared by the modules  *)
(* of the IP set algebra.  An address is a number; the last one, on which  *)
(* adding one wraps to zero, is a parameter, so that IPv4 and IPv6 are two *)
(* instances of one model.                                                 *)
(***************************************************************************)
EXTENDS Integers, Sequences

CONSTANTS
  MaxAddr    (* ^uint32(0), or the IPv6 address of all ones                *)

Addresses == 0 .. MaxAddr
Ranges    == {r \in [lo : Addresses, hi : Addresses] : r.lo <= r.hi}

\* An empty range.
NoRange == [lo |-> 1, hi |-> 0]

\* How many addresses a range has: in 64 bits, so that all of IPv4 fits.
Size(r) == IF r.lo <= r.hi THEN r.hi - r.lo + 1 ELSE 0

\* Unsigned arithmetic of the width of an address.
Succ(x) == IF x = MaxAddr THEN 0 ELSE x + 1
Pred(x) == IF x = 0 THEN MaxAddr ELSE x - 1

Lower(x, y)  == IF x < y THEN x ELSE y
Higher(x, y) == IF x < y THEN y ELSE x

Disjoint(s) == \A i, j \in 1 .. Len(s) : i < j => s[i].hi < s[j].lo

\* What every RangeSource promises: valid ranges, sorted and disjoint.
Streams == {s \in Seq(Ranges) : Disjoint(s)}

Within(r)  == {x \in Addresses : r.lo <= x /\ x <= r.hi}
Covered(s) == {x \in Addresses : \E i \in 1 .. Len(s) : x \in Within(s[i])}
=============================================================================
