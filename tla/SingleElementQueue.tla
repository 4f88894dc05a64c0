------------------------- MODULE SingleElementQueue -------------------------
(***************************************************************************)
(* One slot of src/MPMCQueue/MPMCQueue.h: raw storage for one element,     *)
(* guarded by a TurnSequncer.  Even turns construct the element, odd turns *)
(* move it out and destroy it.  An element is named by the turn that       *)
(* constructed it.  The slot is destroyed, as every C++ object, when no    *)
(* thread uses it any more.                                                *)
(***************************************************************************)
EXTENDS TurnSequncer

\* A slot is created empty, at turn 0; the turn field keeps a turn's parity, and
\* the width of the delta, kTurnShift, is not 0.
ASSUME SlotAssumption ==
  FirstTurn % 2 = 0 /\ TurnModulus % 2 = 0 /\ WaitersMask % 2 = 1

VARIABLES contents,     \* the live elements in contents_
          destroyed     \* ~SingleElementQueue has run

slotVars == <<vars, contents, destroyed>>

-----------------------------------------------------------------------------
EnqueueTurn(n) == n % 2 = 0

SlotInit == Init /\ contents = {} /\ destroyed = FALSE

\* The thread is inside waitForTurn or completeTurn.
InSequencer(t) ==
  /\ \/ \E n \in Turns : Arrive(t, n)
     \/ Look(t) \/ RecordWaiter(t) \/ FutexWait(t)
     \/ CompleteTurn(t) \/ FutexWake(t)
  /\ UNCHANGED <<contents, destroyed>>

\* enqueue between waitForTurn and completeTurn: construct in place.
Enqueue(t) ==
  /\ EnqueueTurn(turnOf[t])
  /\ CompleteLoad(t)
  /\ contents' = contents \cup {turnOf[t]}
  /\ UNCHANGED destroyed

\* Mutant of Dequeue: the element is left in place.
DequeueKeeps(t) ==
  /\ ~EnqueueTurn(turnOf[t])
  /\ CompleteLoad(t)
  /\ UNCHANGED <<contents, destroyed>>

\* dequeue between waitForTurn and completeTurn: move out, destroyContents.
Dequeue(t) ==
  /\ ~EnqueueTurn(turnOf[t])
  /\ CompleteLoad(t)
  /\ contents' = {}
  /\ UNCHANGED destroyed

\* uint8_t(state_ << kTurnShift), with kTurnShift the width of the delta.
UncompleteTurnLSB ==
  (((state.turn * (WaitersMask + 1) + state.delta) * (WaitersMask + 1)) % 256) % 2

\* The destructor destroys the element if the LSB of the turn says there is one.
Destroy ==
  /\ \A t \in Threads : pc[t] = "idle"
  /\ destroyed' = TRUE
  /\ contents' = IF UncompleteTurnLSB = 1 THEN {} ELSE contents
  /\ UNCHANGED vars

SlotStep(t) == ~destroyed /\ (InSequencer(t) \/ Enqueue(t) \/ Dequeue(t))

Signal(t) == ~destroyed /\ Interrupt(t) /\ UNCHANGED <<contents, destroyed>>

\* Nothing happens to a destroyed slot; the system stops there.
SlotNext == \/ \E t \in Threads : SlotStep(t) \/ Signal(t)
            \/ ~destroyed /\ Destroy
            \/ destroyed /\ UNCHANGED slotVars

SlotSpec == SlotInit /\ [][SlotNext]_slotVars

\* As in TurnSequncer: every thread keeps running.  Nobody has to destroy the slot.
SlotFairSpec == SlotSpec /\ \A t \in Threads : WF_slotVars(SlotStep(t))

-----------------------------------------------------------------------------
\* An enqueue finds the storage empty, a dequeue finds in it exactly the
\* element of the turn before its own: nothing is overwritten, read twice or
\* taken by the wrong reader, also when the turn field wraps.
HandOff ==
  \A t \in Threads : pc[t] = "hold" =>
    contents = IF EnqueueTurn(turnOf[t]) THEN {} ELSE {turnOf[t] - 1}

\* The slot's destructor destroys the element that is in contents_, as its comment
\* "ele in content_" says (MPMCQueue.h:24).  The code does not: uncompleteTurnLSB
\* shifts the word left where it means to shift it right, and the low bit of the
\* byte it returns is 0 whatever the turn (TurnSequncer.h:118).
ElementDestroyed == destroyed => contents = {}
=============================================================================
