-------------------------- MODULE DynamicMPMCQueue --------------------------
(***************************************************************************)
(* The dynamic queue of src/MPMCQueue/MPMCQueue.h, with blockingWrite and  *)
(* blockingRead.  It starts with a small array of slots and replaces it by *)
(* a larger one when a push would block.  A seqlock, dstate_, tells which  *)
(* array is current and from which ticket on; the arrays it replaced are   *)
(* closed and keep serving the tickets taken before.                       *)
(***************************************************************************)
EXTENDS Integers, Sequences

CONSTANTS Threads, Values,
          MinCapacity,  \* kDefaultMinDynamicCapacity, 10 in the code
          Multiplier,   \* kDefaultExpansionMultiplier, 10 in the code
          Capacity,     \* capacity_, the constructor's queueCapacity
          Capacities,   \* those of the arrays, in order, up to the full one
          MaxTicket     \* bound: how many pushes and how many pops

Smaller(m, n) == IF m < n THEN m ELSE n
Larger(m, n) == IF m > n THEN m ELSE n
NotYet == -1

\* initQueue: how many expansions lead to the full capacity.
MaxClosed == Len(Capacities) - 1

ASSUME DynamicMPMCQueueAssumption ==
  /\ {MinCapacity, Capacity} \subseteq Nat \ {0}
  /\ Multiplier \in Nat \ {0, 1}
  /\ MaxTicket \in Nat
  /\ Capacities \in Seq(Nat \ {0}) /\ Capacities # <<>>
  /\ Capacities[1] = Smaller(MinCapacity, Capacity)
  /\ \A i \in 1..MaxClosed :
       /\ Capacities[i] < Capacity
       /\ Capacities[i + 1] = Smaller(Capacity, Capacities[i] * Multiplier)
  /\ Capacities[Len(Capacities)] = Capacity

VARIABLES pushTicket, popTicket,
          dstate,       \* dstate_: [offset, numClosed, locked]
          dslots,       \* dslots_: the number of the current array
          dcapacity,    \* dcapacity_
          closed,       \* closed_: the arrays replaced, from the first on
          slotTurn,     \* slotTurn[p]: the turn the slot at place p is at
          contents,     \* contents[p]: the elements constructed there
          pc, op, ticket, elem,
          snap,         \* a call's seqlock reads: [state, slots, cap]
          use,          \* the array it settled on: [slots, cap, offset]
          loaded,       \* tryExpand's loads of the two counters, or NotYet
          offered, published, delivered     \* history, as in TicketQueue

queue == <<pushTicket, popTicket>>
arrays == <<dstate, dslots, dcapacity, closed>>
slots == <<slotTurn, contents>>
call == <<op, ticket>>
history == <<offered, published, delivered>>
vars == <<queue, arrays, slots, pc, call, elem, snap, use, loaded, history>>

Places == (0..MaxClosed) \X (0..(Capacity - 1))

Word(offset, numClosed) == [offset |-> offset, numClosed |-> numClosed, locked |-> FALSE]
Array(a, cap, offset) == [slots |-> a, cap |-> cap, offset |-> offset]

Init ==
  /\ pushTicket = 0 /\ popTicket = 0
  /\ dstate = Word(0, 0) /\ dslots = 0 /\ closed = <<>>
  /\ dcapacity = Smaller(MinCapacity, Capacity)
  /\ slotTurn = [p \in Places |-> 0]
  /\ contents = [p \in Places |-> {}]
  /\ pc = [t \in Threads |-> "idle"]
  /\ op = [t \in Threads |-> "pop"]
  /\ ticket = [t \in Threads |-> 0]
  /\ elem \in [Threads -> Values]
  /\ snap = [t \in Threads |-> [state |-> dstate, slots |-> 0, cap |-> dcapacity]]
  /\ use = [t \in Threads |-> Array(0, dcapacity, 0)]
  /\ loaded = [t \in Threads |-> [pushes |-> NotYet, pops |-> NotYet]]
  /\ offered = <<>> /\ published = {} /\ delivered = {}

-----------------------------------------------------------------------------
Go(t, from, to) ==
  /\ pc[t] = from
  /\ pc' = [pc EXCEPT ![t] = to]

\* blockingWrite: pushTicket_++.
BlockingWrite(t, v) ==
  /\ pushTicket < MaxTicket
  /\ Go(t, "idle", "load state")
  /\ op' = [op EXCEPT ![t] = "push"]
  /\ ticket' = [ticket EXCEPT ![t] = pushTicket]
  /\ elem' = [elem EXCEPT ![t] = v]
  /\ pushTicket' = pushTicket + 1
  /\ offered' = Append(offered, v)
  /\ UNCHANGED <<popTicket, arrays, slots, snap, use, loaded, published, delivered>>

\* blockingReadWithTicket: popTicket_++.
BlockingRead(t) ==
  /\ popTicket < MaxTicket
  /\ Go(t, "idle", "load state")
  /\ op' = [op EXCEPT ![t] = "pop"]
  /\ ticket' = [ticket EXCEPT ![t] = popTicket]
  /\ popTicket' = popTicket + 1
  /\ UNCHANGED <<pushTicket, arrays, slots, elem, snap, use, loaded, history>>

\* trySeqlockReadSection, one load at a time.  A call that finds the lock taken
\* loads the word again: a stuttering step.
LoadState(t) ==
  /\ Go(t, "load state", "load slots")
  /\ ~dstate.locked
  /\ snap' = [snap EXCEPT ![t].state = dstate]
  /\ UNCHANGED <<queue, arrays, slots, call, elem, use, loaded, history>>

LoadSlots(t) ==
  /\ Go(t, "load slots", "load capacity")
  /\ snap' = [snap EXCEPT ![t].slots = dslots]
  /\ UNCHANGED <<queue, arrays, slots, call, elem, use, loaded, history>>

LoadCapacity(t) ==
  /\ Go(t, "load capacity", "recheck")
  /\ snap' = [snap EXCEPT ![t].cap = dcapacity]
  /\ UNCHANGED <<queue, arrays, slots, call, elem, use, loaded, history>>

\* mayUpdateFromClosed: the last array whose offset does not exceed the ticket.
FromClosed(k, s) == k < s.state.offset

\* Mutant of Lookup: every ticket is looked for in the current array.
LookupCurrent(k, s) == Array(s.slots, s.cap, s.state.offset)

Lookup(k, s) ==
  IF FromClosed(k, s)
    THEN LET starts == {i \in 1..s.state.numClosed : closed[i].offset <= k}
         IN  closed[CHOOSE i \in starts : \A j \in starts : j <= i]
    ELSE Array(s.slots, s.cap, s.state.offset)

\* Mutant of Recheck: the word is not compared again.
RecheckNothing(t) ==
  /\ Go(t, "recheck", IF op[t] = "push" /\ ~FromClosed(ticket[t], snap[t]) THEN "look" ELSE "wait")
  /\ use' = [use EXCEPT ![t] = Lookup(ticket[t], snap[t])]
  /\ UNCHANGED <<queue, arrays, slots, call, elem, snap, loaded, history>>

\* The last load of trySeqlockReadSection: no array was replaced in between.
SectionHeld(t) == dstate = snap[t].state

\* The word must not have changed; then the array for the ticket is known.  A
\* push that is not in a closed array looks before it blocks.
Recheck(t) ==
  /\ pc[t] = "recheck"
  /\ IF SectionHeld(t)
       THEN /\ use' = [use EXCEPT ![t] = Lookup(ticket[t], snap[t])]
            /\ pc' = [pc EXCEPT ![t] =
                        IF op[t] = "push" /\ ~FromClosed(ticket[t], snap[t])
                          THEN "look" ELSE "wait"]
       ELSE /\ pc' = [pc EXCEPT ![t] = "load state"]
            /\ UNCHANGED use
  /\ UNCHANGED <<queue, arrays, slots, call, elem, snap, loaded, history>>

\* The slot and the turn of a call, in the array it settled on.
Place(t) == <<use[t].slots, (ticket[t] - use[t].offset) % use[t].cap>>
Lap(t) == (ticket[t] - use[t].offset) \div use[t].cap

Target(t) == 2 * Lap(t) + (IF op[t] = "push" THEN 0 ELSE 1)
AtTurn(t) == slotTurn[Place(t)] = Target(t)

\* mayEnqueue
Look(t) ==
  /\ Go(t, "look", IF AtTurn(t) THEN "wait" ELSE "load pops")
  /\ UNCHANGED <<queue, arrays, slots, call, elem, snap, use, loaded, history>>

\* Mutant of LoadPops: the queue is never expanded.
LoadPopsNever(t) ==
  /\ Go(t, "load pops", IF popTicket + snap[t].cap > ticket[t] THEN "load state" ELSE "wait")
  /\ UNCHANGED <<queue, arrays, slots, call, elem, snap, use, loaded, history>>

\* Not ready.  If the pop that frees the slot is under way try again, else expand
\* the queue, unless it has its full capacity (the first line of tryExpand).
LoadPops(t) ==
  /\ Go(t, "load pops", IF popTicket + snap[t].cap > ticket[t] THEN "load state"
                        ELSE IF snap[t].cap = Capacity THEN "wait" ELSE "lock")
  /\ UNCHANGED <<queue, arrays, slots, call, elem, snap, use, loaded, history>>

\* tryExpand: the exchange, which fails if another thread has expanded.
Lock(t) ==
  /\ pc[t] = "lock"
  /\ IF dstate = snap[t].state
       THEN /\ dstate' = [dstate EXCEPT !.locked = TRUE]
            /\ pc' = [pc EXCEPT ![t] = "load counters"]
       ELSE /\ pc' = [pc EXCEPT ![t] = "load state"]
            /\ UNCHANGED dstate
  /\ UNCHANGED <<queue, dslots, dcapacity, closed, slots, call, elem, snap, use, loaded, history>>

\* The arguments of std::max, in the order the compiler likes.
LoadCounter(t) ==
  /\ pc[t] = "load counters"
  /\ \/ loaded[t].pushes = NotYet /\ loaded' = [loaded EXCEPT ![t].pushes = pushTicket]
     \/ loaded[t].pops = NotYet /\ loaded' = [loaded EXCEPT ![t].pops = popTicket]
  /\ UNCHANGED <<queue, arrays, slots, pc, call, elem, snap, use, history>>

\* Mutant of NewOffset: the pushes are not looked at.
NewOffsetOfPops(t) == 1 + loaded[t].pops

\* ticket = 1 + std::max(pushes, pops): what comes later goes to the new array.
NewOffset(t) == 1 + Larger(loaded[t].pushes, loaded[t].pops)

\* The old array goes to closed_, where nobody looks before the word says so;
\* then dslots_ is stored.
StoreSlots(t) ==
  /\ Go(t, "load counters", "store capacity")
  /\ loaded[t].pushes # NotYet /\ loaded[t].pops # NotYet
  /\ closed' = Append(closed, Array(dslots, snap[t].cap, snap[t].state.offset))
  /\ dslots' = dslots + 1
  /\ UNCHANGED <<queue, dstate, dcapacity, slots, call, elem, snap, use, loaded, history>>

StoreCapacity(t) ==
  /\ Go(t, "store capacity", "unlock")
  /\ dcapacity' = Smaller(Capacity, snap[t].cap * Multiplier)
  /\ UNCHANGED <<queue, dstate, dslots, closed, slots, call, elem, snap, use, loaded, history>>

Unlock(t) ==
  /\ Go(t, "unlock", "load state")
  /\ dstate' = Word(NewOffset(t), snap[t].state.numClosed + 1)
  /\ loaded' = [loaded EXCEPT ![t] = [pushes |-> NotYet, pops |-> NotYet]]
  /\ UNCHANGED <<queue, dslots, dcapacity, closed, slots, call, elem, snap, use, history>>

-----------------------------------------------------------------------------
\* Mutant of WaitForTurn: full or empty, whatever the lap.
WaitForParity(t) ==
  /\ Go(t, "wait", "in")
  /\ slotTurn[Place(t)] % 2 = Target(t) % 2
  /\ UNCHANGED <<queue, arrays, slots, call, elem, snap, use, loaded, history>>

\* enqueue and dequeue on the slot, as in MPMCQueue.
WaitForTurn(t) ==
  /\ Go(t, "wait", "in")
  /\ AtTurn(t)
  /\ UNCHANGED <<queue, arrays, slots, call, elem, snap, use, loaded, history>>

Construct(t) ==
  /\ Go(t, "in", "complete")
  /\ op[t] = "push"
  /\ contents' = [contents EXCEPT ![Place(t)] = @ \cup {elem[t]}]
  /\ UNCHANGED <<queue, arrays, slotTurn, call, elem, snap, use, loaded, history>>

MoveOut(t) ==
  /\ Go(t, "in", "complete")
  /\ op[t] = "pop"
  /\ \E v \in contents[Place(t)] :
       /\ elem' = [elem EXCEPT ![t] = v]
       /\ contents' = [contents EXCEPT ![Place(t)] = @ \ {v}]
  /\ UNCHANGED <<queue, arrays, slotTurn, call, snap, use, loaded, history>>

CompleteTurn(t) ==
  /\ Go(t, "complete", "idle")
  /\ slotTurn' = [slotTurn EXCEPT ![Place(t)] = Target(t) + 1]
  /\ IF op[t] = "push"
       THEN published' = published \cup {ticket[t]} /\ UNCHANGED delivered
       ELSE delivered' = delivered \cup {<<ticket[t], elem[t]>>} /\ UNCHANGED published
  /\ UNCHANGED <<queue, arrays, contents, call, elem, snap, use, loaded, offered>>

Start(t) == BlockingRead(t) \/ \E v \in Values : BlockingWrite(t, v)

Progress(t) ==
  \/ LoadState(t) \/ LoadSlots(t) \/ LoadCapacity(t) \/ Recheck(t) \/ Look(t) \/ LoadPops(t)
  \/ Lock(t) \/ LoadCounter(t) \/ StoreSlots(t) \/ StoreCapacity(t) \/ Unlock(t)
  \/ WaitForTurn(t) \/ Construct(t) \/ MoveOut(t) \/ CompleteTurn(t)

Next == \E t \in Threads : Start(t) \/ Progress(t)

Spec == Init /\ [][Next]_vars

\* A call that has begun keeps running; nobody is obliged to begin one.
FairSpec == Spec /\ \A t \in Threads : WF_vars(Progress(t))

-----------------------------------------------------------------------------
Inside == {"in", "complete"}
Settled == {"wait"} \cup Inside

\* The arrays there have been, each with its capacity and its offset.  Between the
\* store to dslots_ and the one to dstate_ the new one is not among them.
Replacing == \E t \in Threads : pc[t] \in {"store capacity", "unlock"}
ArraysKnown ==
  {closed[i] : i \in 1..Len(closed)}
    \cup (IF Replacing THEN {} ELSE {Array(dslots, dcapacity, dstate.offset)})

\* What a call goes on with belongs together: it is one of the arrays, with its own
\* capacity and its own offset, whatever was replaced between the loads.  And an
\* expanding thread replaces the array it saw (the assertion of line 656).
SnapshotIsWhole ==
  \A t \in Threads :
    /\ pc[t] \in Settled \cup {"look"} => use[t] \in ArraysKnown
    /\ pc[t] = "load counters" => snap[t].cap = dcapacity /\ snap[t].slots = dslots

\* The push and the pop with the same ticket meet in the same array; calls with
\* different tickets never claim the same turn of the same slot, also when they
\* saw the queue before and after an expansion.
TicketsMeet ==
  \A t, u \in Threads : pc[t] \in Settled /\ pc[u] \in Settled =>
    (ticket[t] = ticket[u] <=> Place(t) = Place(u) /\ Lap(t) = Lap(u))

Stuck(t) == pc[t] = "wait" /\ ~AtTurn(t)

\* The queue grows when it must, and no further than closed_'s allocation: a push
\* blocks, without asking for a larger array, only if it has the largest or its
\* ticket is older than the latest expansion.
BlocksOnlyWhenFull ==
  /\ Len(closed) <= MaxClosed
  /\ \A t \in Threads :
       Stuck(t) /\ op[t] = "push" => use[t].cap = Capacity \/ ticket[t] < dstate.offset

\* TicketQueue, without its bound: what a ticket waits for differs by array.
Tickets == INSTANCE TicketQueue WITH requested <- popTicket, Capacity <- MaxTicket + 1
\* First in, first out by ticket across every expansion.
ImplementsTicketQueue == Tickets!Spec

\* A pop whose element's push has been called gets it, and a push returns once
\* everything before it has been asked for, expansions or not.
CallReturns ==
  \A t \in Threads :
    /\ (pc[t] # "idle" /\ op[t] = "pop" /\ ticket[t] < pushTicket) ~> pc[t] = "idle"
    /\ (pc[t] # "idle" /\ op[t] = "push" /\ ticket[t] <= popTicket) ~> pc[t] = "idle"
=============================================================================
