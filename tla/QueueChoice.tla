---------------------------- MODULE QueueChoice ----------------------------
(***************************************************************************)
(* Which waiting download starts next (pkg/scheduler, queue_admission.go). *)
(* startNextDownload scans a map, whose order changes from one scan to the *)
(* next, and keeps the best item it has seen by queuedWorkBefore, an order *)
(* by time, then sequence number, then name, in which a zero time or       *)
(* number means unknown and comes last.  DownloadQueue leaves the choice   *)
(* open; here it is shown to be the same in every order of the scan.       *)
(***************************************************************************)
EXTENDS Integers

CONSTANTS
  Queue,    (* download.waiting: one item for each name                    *)
  Ready,    (* those whose inputs neither wait nor are being downloaded    *)
  Busy      (* something is being downloaded                               *)

\* Names are ordered: a number stands for a name.
QueuedWork == [queuedAt : Nat, seq : Nat, name : Nat]

Unknown == 0

\* No item has been seen yet: first and blockedFirst.
NoWork == [queuedAt |-> Unknown, seq |-> Unknown, name |-> -1]

\* The order of one field: a known value first, then the smaller one.
Sooner(x, y) == x # Unknown /\ (y = Unknown \/ x < y)

\* queuedWorkBefore
QueuedWorkBefore(a, b) ==
  \/ Sooner(a.queuedAt, b.queuedAt)
  \/ a.queuedAt = b.queuedAt /\ Sooner(a.seq, b.seq)
  \/ a.queuedAt = b.queuedAt /\ a.seq = b.seq /\ a.name < b.name

\* mergeQueuedWork: the earlier of two known values.
Earlier(current, incoming) ==
  IF current = Unknown \/ (incoming # Unknown /\ incoming < current)
    THEN incoming ELSE current

\* mergeQueuedWork, the place in the queue.
MergedPlace(current, incoming) ==
  [queuedAt |-> Earlier(current.queuedAt, incoming.queuedAt),
   seq      |-> Earlier(current.seq, incoming.seq),
   name     |-> current.name]

QueueAssumed ==
  /\ Queue \subseteq QueuedWork /\ Ready \subseteq Queue /\ Busy \in BOOLEAN
  /\ \A a, b \in Queue : a.name = b.name => a = b

VARIABLES
  seen,     (* the items the scan has visited                              *)
  next,     (* the best settled item so far                                *)
  blocked   (* the best item so far, settled or not                        *)

scan == <<seen, next, blocked>>

ScanInit == seen = {} /\ next = NoWork /\ blocked = NoWork

Better(item, best) == best = NoWork \/ QueuedWorkBefore(item, best)

\* One turn of the scan, over any item not visited yet.
Look(item) ==
  /\ item \in Queue \ seen
  /\ seen' = seen \cup {item}
  /\ blocked' = IF Better(item, blocked) THEN item ELSE blocked
  /\ next' = IF item \in Ready /\ Better(item, next) THEN item ELSE next

ScanSpec == ScanInit /\ [][\E item \in Queue : Look(item)]_scan

\* What the scan returns: the best settled item; the best item of all if none is
\* settled and nothing is being downloaded; otherwise nothing.
Choice ==
  IF next # NoWork THEN next
  ELSE IF Busy THEN NoWork ELSE blocked

FirstOf(item, S) == item \in S /\ \A other \in S \ {item} : QueuedWorkBefore(item, other)

\* The item that starts does not depend on the order of the map: it is the first
\* settled item, or the first of all when nothing is settled and nothing runs.
ChoiceRight ==
  seen = Queue =>
    \/ FirstOf(Choice, Ready)
    \/ Ready = {} /\ ~Busy /\ FirstOf(Choice, Queue)
    \/ Ready = {} /\ (Busy \/ Queue = {}) /\ Choice = NoWork
=============================================================================
