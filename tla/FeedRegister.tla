---------------------------- MODULE FeedRegister ---------------------------
(***************************************************************************)
(* What update-ipsets promises about the published body of a feed: it is   *)
(* at all times a version that the source of the feed really served, and   *)
(* it only ever moves forward.  How bodies are fetched, staged, claimed    *)
(* and committed, and what happens in a crash, is not visible here.        *)
(***************************************************************************)
EXTENDS Integers

CONSTANTS Feeds, MaxVersion

VARIABLES
  served,     (* the version each source serves         *)
  published   (* the version each feed publishes, or 0  *)

Init ==
  /\ served    = [f \in Feeds |-> 1]
  /\ published = [f \in Feeds |-> 0]

Serve(f) ==
  /\ served[f] < MaxVersion
  /\ served' = [served EXCEPT ![f] = @ + 1]
  /\ UNCHANGED published

Advance(f) ==
  /\ \E v \in 1..MaxVersion :
       /\ published[f] < v /\ v <= served[f]
       /\ published' = [published EXCEPT ![f] = v]
  /\ UNCHANGED served

Next == \E f \in Feeds : Serve(f) \/ Advance(f)

Spec == Init /\ [][Next]_<<served, published>>
=============================================================================
