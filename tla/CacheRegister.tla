--------------------------- MODULE CacheRegister ---------------------------
(***************************************************************************)
(* What the engine promises of the cache file: it only ever advances, to a *)
(* state that was handed over to be saved.  A state may be passed over for *)
(* a newer one, or lost to a failure, but an older one never comes back.   *)
(***************************************************************************)
EXTENDS Naturals

VARIABLES
  newest,  (* the newest state handed over that may still be saved          *)
  saved    (* the state in the file                                         *)

Init == newest = saved /\ saved \in Nat

HandOver == newest' \in Nat /\ newest' > newest /\ saved' = saved

Store == saved < newest /\ saved' \in (saved + 1)..newest /\ newest' = newest

Lose == newest' = saved /\ saved' = saved

Next == HandOver \/ Store \/ Lose

Spec == Init /\ [][Next]_<<newest, saved>>
=============================================================================
