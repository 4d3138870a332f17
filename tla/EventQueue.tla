----------------------------- MODULE EventQueue -----------------------------
(***************************************************************************)
(* What an event router promises, with no ring, no lock and no pump loop:  *)
(* a bounded first-in first-out queue that may lose events but never       *)
(* without counting the loss.  Every event ever published is, at every     *)
(* moment, waiting, being handed out, handed out, or counted as lost.      *)
(* EventRouter is shown to implement this specification.                   *)
(***************************************************************************)
EXTENDS Integers, Sequences

CONSTANTS
  Event,              \* the events that can be published
  Bound               \* the bounds the host may choose, numbers above 0

VARIABLES
  pending,            \* the events waiting, oldest first
  bound,              \* how many may wait
  published,          \* publish() calls accepted
  lost,               \* events counted as dropped
  inflight,           \* events taken and not yet settled
  handed              \* events whose subscribers have all been served

qvars == <<pending, bound, published, lost, inflight, handed>>

Init ==
  /\ pending = <<>>
  /\ bound \in Bound
  /\ published = 0
  /\ lost = 0
  /\ inflight = 0
  /\ handed = 0

\* An event is accepted at the back of the queue, if there is room.
Accept(e) ==
  /\ Len(pending) < bound
  /\ pending' = Append(pending, e)
  /\ published' = published + 1
  /\ UNCHANGED <<bound, lost, inflight, handed>>

\* Best effort: an event may be refused at any time, but the loss is counted.
Refuse ==
  /\ published' = published + 1
  /\ lost' = lost + 1
  /\ UNCHANGED <<pending, bound, inflight, handed>>

\* Only the oldest event is ever taken.
Take ==
  /\ pending # <<>>
  /\ pending' = Tail(pending)
  /\ inflight' = inflight + 1
  /\ UNCHANGED <<bound, published, lost, handed>>

\* A taken event is either handed to its subscribers or counted as lost.
Settle ==
  /\ inflight > 0
  /\ inflight' = inflight - 1
  /\ \/ handed' = handed + 1 /\ lost' = lost
     \/ lost' = lost + 1 /\ handed' = handed
  /\ UNCHANGED <<pending, bound, published>>

\* The newest events survive a smaller bound; the others are counted as lost.
Resize(b) ==
  LET excess == IF Len(pending) > b THEN Len(pending) - b ELSE 0
  IN  /\ bound' = b
      /\ pending' = SubSeq(pending, excess + 1, Len(pending))
      /\ lost' = lost + excess
      /\ UNCHANGED <<published, inflight, handed>>

Next ==
  \/ \E e \in Event : Accept(e)
  \/ Refuse
  \/ Take
  \/ Settle
  \/ \E b \in Bound : Resize(b)

Spec == Init /\ [][Next]_qvars

=============================================================================
