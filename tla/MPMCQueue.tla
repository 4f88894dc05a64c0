----------------------------- MODULE MPMCQueue -----------------------------
(***************************************************************************)
(* The fixed-size queue of src/MPMCQueue/MPMCQueue.h: two ticket counters  *)
(* over a ring of SingleElementQueue slots.  Push ticket k owns turn       *)
(* 2*(k/capacity) of slot k%capacity and pop ticket k the turn after it.   *)
(* A slot's sequencer is taken as what TurnSequncer is shown to implement, *)
(* TurnOrder: a thread gets in when its turn has come.                     *)
(***************************************************************************)
EXTENDS Integers, Sequences

CONSTANTS Threads, Values, Capacity,
          MaxTicket     \* bound: no new call once a counter is this high

ASSUME MPMCQueueAssumption ==
  /\ Capacity \in Nat \ {0}     \* the constructor throws on 0
  /\ MaxTicket \in Nat

VARIABLES pushTicket, popTicket,
          slotTurn,     \* slotTurn[i]: the turn slot i's sequencer is at
          contents,     \* contents[i]: the elements constructed in slot i
          pc,           \* where each thread is
          op,           \* the call it is in, or was in last
          ticket,       \* that call's ticket
          elem,         \* that call's argument, or the element it read
          offered,      \* history: the value each push ticket was taken for
          delivered     \* history: pairs <<pop ticket, value read>>

control == <<pc, op, ticket>>
vars == <<pushTicket, popTicket, slotTurn, contents, control, elem, offered, delivered>>

Slots == 0..(Capacity - 1)
Pushes == {"blockingWrite", "write"}
Pops == {"blockingRead", "read"}

-----------------------------------------------------------------------------
\* Mutant of Turn: the slots' turns advance too late.
TurnLate(k) == k \div (Capacity + 1)

Idx(k) == k % Capacity
Turn(k) == k \div Capacity

\* The turn a call waits for on its slot: enqueue and mayEnqueue use turn*2,
\* dequeue and mayDequeue turn*2+1.
Target(o, k) == 2 * Turn(k) + (IF o \in Pushes THEN 0 ELSE 1)
AtTurn(o, k) == slotTurn[Idx(k)] = Target(o, k)

Init ==
  /\ pushTicket = 0 /\ popTicket = 0
  /\ slotTurn = [i \in Slots |-> 0]
  /\ contents = [i \in Slots |-> {}]
  /\ pc = [t \in Threads |-> "idle"]
  /\ op = [t \in Threads |-> "read"]
  /\ ticket = [t \in Threads |-> 0]
  /\ elem \in [Threads -> Values]
  /\ offered = <<>>
  /\ delivered = {}

Call(t, o, k, where) ==
  /\ pc[t] = "idle"
  /\ op' = [op EXCEPT ![t] = o]
  /\ ticket' = [ticket EXCEPT ![t] = k]
  /\ pc' = [pc EXCEPT ![t] = where]

\* pushTicket_++ or popTicket_++, then wait on the ticket's slot.
BlockingWrite(t, v) ==
  /\ pushTicket < MaxTicket
  /\ Call(t, "blockingWrite", pushTicket, "wait")
  /\ elem' = [elem EXCEPT ![t] = v]
  /\ pushTicket' = pushTicket + 1
  /\ offered' = Append(offered, v)
  /\ UNCHANGED <<popTicket, slotTurn, contents, delivered>>

\* Mutant of BlockingRead: the ticket is read and not taken.
BlockingReadPeek(t) ==
  /\ Call(t, "blockingRead", popTicket, "wait")
  /\ UNCHANGED <<pushTicket, popTicket, slotTurn, contents, elem, offered, delivered>>

BlockingRead(t) ==
  /\ popTicket < MaxTicket
  /\ Call(t, "blockingRead", popTicket, "wait")
  /\ popTicket' = popTicket + 1
  /\ UNCHANGED <<pushTicket, slotTurn, contents, elem, offered, delivered>>

\* The first load of tryObtainReadyPushTicket.
Write(t, v) ==
  /\ pushTicket < MaxTicket
  /\ Call(t, "write", pushTicket, "check")
  /\ elem' = [elem EXCEPT ![t] = v]
  /\ UNCHANGED <<pushTicket, popTicket, slotTurn, contents, offered, delivered>>

\* The first load of tryObtainReadyPopTicket, of the push counter (line 363).
Read(t) ==
  /\ Call(t, "read", pushTicket, "check")
  /\ UNCHANGED <<pushTicket, popTicket, slotTurn, contents, elem, offered, delivered>>

\* Mutants of Check: no look at the slot; or at the other kind of turn.
CheckNothing(t) ==
  /\ pc[t] = "check"
  /\ pc' = [pc EXCEPT ![t] = "cas"]
  /\ UNCHANGED <<pushTicket, popTicket, slotTurn, contents, op, ticket, elem,
                 offered, delivered>>

CheckOther(t) ==
  /\ pc[t] = "check"
  /\ pc' = [pc EXCEPT ![t] = IF AtTurn("read", ticket[t]) THEN "cas" ELSE "reload"]
  /\ UNCHANGED <<pushTicket, popTicket, slotTurn, contents, op, ticket, elem,
                 offered, delivered>>

\* mayEnqueue or mayDequeue on the slot of the ticket in hand.
Check(t) ==
  /\ pc[t] = "check"
  /\ pc' = [pc EXCEPT ![t] = IF AtTurn(op[t], ticket[t]) THEN "cas" ELSE "reload"]
  /\ UNCHANGED <<pushTicket, popTicket, slotTurn, contents, op, ticket, elem,
                 offered, delivered>>

\* Not ready: give up if the counter has not moved, try its new value if it has.
Reload(t) ==
  /\ pc[t] = "reload"
  /\ ticket' = [ticket EXCEPT ![t] = pushTicket]
  /\ pc' = [pc EXCEPT ![t] = IF pushTicket = ticket[t] THEN "idle" ELSE "check"]
  /\ UNCHANGED <<pushTicket, popTicket, slotTurn, contents, op, elem, offered, delivered>>

\* Mutant of TakeTicket: fetch_add instead of the exchange.
TakeTicketBlind(t) ==
  /\ pc[t] = "cas"
  /\ pushTicket' = pushTicket + 1
  /\ offered' = Append(offered, elem[t])
  /\ pc' = [pc EXCEPT ![t] = "wait"]
  /\ UNCHANGED <<popTicket, slotTurn, contents, op, ticket, elem, delivered>>

\* Ready: take the ticket, unless the counter moved on.  read() exchanges the
\* push counter as well (line 377).
TakeTicket(t) ==
  /\ pc[t] = "cas"
  /\ IF pushTicket = ticket[t]
       THEN /\ pushTicket' = pushTicket + 1
            /\ offered' = Append(offered, elem[t])
            /\ pc' = [pc EXCEPT ![t] = "wait"]
            /\ UNCHANGED ticket
       ELSE /\ ticket' = [ticket EXCEPT ![t] = pushTicket]
            /\ pc' = [pc EXCEPT ![t] = "check"]
            /\ UNCHANGED <<pushTicket, offered>>
  /\ UNCHANGED <<popTicket, slotTurn, contents, op, elem, delivered>>

\* waitForTurn returns.
WaitForTurn(t) ==
  /\ pc[t] = "wait"
  /\ AtTurn(op[t], ticket[t])
  /\ pc' = [pc EXCEPT ![t] = "in"]
  /\ UNCHANGED <<pushTicket, popTicket, slotTurn, contents, op, ticket, elem,
                 offered, delivered>>

\* Construct the element in the slot.
Construct(t) ==
  /\ pc[t] = "in" /\ op[t] \in Pushes
  /\ contents' = [contents EXCEPT ![Idx(ticket[t])] = @ \cup {elem[t]}]
  /\ pc' = [pc EXCEPT ![t] = "complete"]
  /\ UNCHANGED <<pushTicket, popTicket, slotTurn, op, ticket, elem, offered, delivered>>

\* Move the element out of the slot and destroy what is left.
MoveOut(t) ==
  /\ pc[t] = "in" /\ op[t] \in Pops
  /\ \E v \in contents[Idx(ticket[t])] :
       /\ elem' = [elem EXCEPT ![t] = v]
       /\ contents' = [contents EXCEPT ![Idx(ticket[t])] = @ \ {v}]
  /\ pc' = [pc EXCEPT ![t] = "complete"]
  /\ UNCHANGED <<pushTicket, popTicket, slotTurn, op, ticket, offered, delivered>>

\* Mutant of CompleteTurn: a pop leaves the slot at its own turn.
CompletePushOnly(t) ==
  /\ pc[t] = "complete"
  /\ slotTurn' = [slotTurn EXCEPT ![Idx(ticket[t])] = @ + (IF op[t] \in Pushes THEN 1 ELSE 0)]
  /\ delivered' = IF op[t] \in Pops THEN delivered \cup {<<ticket[t], elem[t]>>}
                                    ELSE delivered
  /\ pc' = [pc EXCEPT ![t] = "idle"]
  /\ UNCHANGED <<pushTicket, popTicket, contents, op, ticket, elem, offered>>

\* completeTurn, and the call returns.
CompleteTurn(t) ==
  /\ pc[t] = "complete"
  /\ slotTurn' = [slotTurn EXCEPT ![Idx(ticket[t])] = Target(op[t], ticket[t]) + 1]
  /\ delivered' = IF op[t] \in Pops THEN delivered \cup {<<ticket[t], elem[t]>>}
                                    ELSE delivered
  /\ pc' = [pc EXCEPT ![t] = "idle"]
  /\ UNCHANGED <<pushTicket, popTicket, contents, op, ticket, elem, offered>>

Start(t) == \/ \E v \in Values : BlockingWrite(t, v) \/ Write(t, v)
            \/ BlockingRead(t) \/ Read(t)

Progress(t) == \/ Check(t) \/ Reload(t) \/ TakeTicket(t)
               \/ WaitForTurn(t) \/ Construct(t) \/ MoveOut(t) \/ CompleteTurn(t)

Next == \E t \in Threads : Start(t) \/ Progress(t)

Spec == Init /\ [][Next]_vars

\* A call that has begun keeps running; nobody is obliged to begin one.
Fairness == \A t \in Threads : WF_vars(Progress(t))
FairSpec == Spec /\ Fairness

-----------------------------------------------------------------------------
Inside == {"in", "complete"}
Owns == {"wait"} \cup Inside

TypeOK ==
  /\ pushTicket \in Nat /\ popTicket \in Nat
  /\ slotTurn \in [Slots -> Nat]
  /\ contents \in [Slots -> SUBSET Values]
  /\ pc \in [Threads -> {"idle", "check", "reload", "cas"} \cup Owns]
  /\ op \in [Threads -> Pushes \cup Pops]
  /\ ticket \in [Threads -> Nat]
  /\ elem \in [Threads -> Values]
  /\ offered \in Seq(Values)
  /\ delivered \in SUBSET (Nat \X Values)

\* Two calls are never in the same slot: the element is not constructed over
\* a live one, nor moved out while it is being constructed (lines 44-69).
SlotExclusive ==
  \A t, u \in Threads :
    pc[t] \in Inside /\ pc[u] \in Inside /\ Idx(ticket[t]) = Idx(ticket[u]) => t = u

\* A push finds its slot empty and a pop finds exactly one element in it.
SlotReady ==
  \A t \in Threads : pc[t] = "in" =>
    IF op[t] \in Pushes THEN contents[Idx(ticket[t])] = {}
                        ELSE \E v \in Values : contents[Idx(ticket[t])] = {v}

\* "won't bolck" (line 308): once write() has its ticket, its turn has come,
\* however long ago it looked and whatever the other threads did since.
WriteDoesNotBlock ==
  \A t \in Threads :
    pc[t] = "wait" /\ op[t] = "write" => AtTurn(op[t], ticket[t])

\* write() gives up only if, when it looked at the slot, the element Capacity
\* places back was still in the queue or being taken out: never spuriously.
WriteFailsOnlyWhenFull ==
  [][\A t \in Threads :
       pc[t] = "check" /\ pc'[t] = "reload" /\ op[t] = "write" /\ ticket[t] = pushTicket
         => /\ ticket[t] >= Capacity
            /\ \A v \in Values : <<ticket[t] - Capacity, v>> \notin delivered]_vars

\* read() tries the push counter's ticket, which nobody has pushed: it never
\* takes a ticket and never delivers an element, full queue or not (line 363).
ReadNeverSucceeds == \A t \in Threads : op[t] = "read" => pc[t] \notin Owns

\* TicketQueue, with a ticket published or taken when its slot moves on.
published == {k \in 0..(pushTicket - 1) : slotTurn[Idx(k)] > 2 * Turn(k)}
Tickets == INSTANCE TicketQueue WITH requested <- popTicket
\* First in, first out by ticket, at most Capacity elements, nothing lost,
\* duplicated or made up.
ImplementsTicketQueue == Tickets!Spec

\* A blocked push is served once the pop that frees its slot has been asked
\* for, and a blocked pop once its element has been.
BlockedCallServed ==
  \A t \in Threads :
    /\ (pc[t] = "wait" /\ op[t] \in Pushes /\ ticket[t] < popTicket + Capacity)
         ~> pc[t] = "in"
    /\ (pc[t] = "wait" /\ op[t] \in Pops /\ ticket[t] < pushTicket)
         ~> pc[t] = "in"
=============================================================================
