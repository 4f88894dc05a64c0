---------------------------- MODULE TicketQueue ----------------------------
(***************************************************************************)
(* What MPMCQueue (src/MPMCQueue/MPMCQueue.h) promises: a bounded FIFO     *)
(* queue ordered by tickets.  A push takes the next push ticket, a pop the *)
(* next pop ticket; the pop with ticket k gets exactly what the push with  *)
(* ticket k brought, once it is published; and a ticket is published only  *)
(* when the element Capacity places before it has left.                    *)
(***************************************************************************)
EXTENDS Integers, Sequences

CONSTANTS Values, Capacity

VARIABLES offered,      \* what each push ticket brought, from ticket 0 on
          published,    \* push tickets whose element is in the queue or was
          requested,    \* pop tickets handed out
          delivered     \* pairs <<ticket, value>> given to poppers

vars == <<offered, published, requested, delivered>>

Init ==
  /\ offered = <<>>
  /\ published = {}
  /\ requested = 0
  /\ delivered = {}

Offered(k) == offered[k + 1]
Taken == {d[1] : d \in delivered}

Offer(v) ==
  /\ offered' = Append(offered, v)
  /\ UNCHANGED <<published, requested, delivered>>

Publish(k) ==
  /\ k < Len(offered)
  /\ k \notin published
  /\ k >= Capacity => k - Capacity \in Taken
  /\ published' = published \cup {k}
  /\ UNCHANGED <<offered, requested, delivered>>

Request ==
  /\ requested' = requested + 1
  /\ UNCHANGED <<offered, published, delivered>>

Take(k) ==
  /\ k < requested
  /\ k \in published
  /\ k \notin Taken
  /\ delivered' = delivered \cup {<<k, Offered(k)>>}
  /\ UNCHANGED <<offered, published, requested>>

Next ==
  \/ \E v \in Values : Offer(v)
  \/ \E k \in 0..(Len(offered) - 1) : Publish(k)
  \/ Request
  \/ \E k \in published : Take(k)

Spec == Init /\ [][Next]_vars
=============================================================================
