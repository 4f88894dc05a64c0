---------------------------- MODULE TurnSequncer ----------------------------
(***************************************************************************)
(* src/MPMCQueue/TurnSequncer.h over the futex of src/MPMCQueue/Futex.cc.  *)
(* A 32-bit word holds the current turn (26 bits, it wraps) and the        *)
(* distance to the farthest recorded waiter (6 bits, it saturates).        *)
(* Threads that wait sleep on the word, on one of 32 futex channels.       *)
(*                                                                         *)
(* The callers' contract, kept by the queue, is part of the model: every   *)
(* turn has one owner, a thread takes its own turns in order, and nobody   *)
(* waits Window turns ahead or more.                                       *)
(***************************************************************************)
EXTENDS Integers

CONSTANTS Threads,
          TurnModulus,  \* 2^26 in the code: the turn field has 32 - kTurnShift bits
          WaitersMask,  \* kWaitersMask, 63 in the code
          Channels,     \* futex channels, 32 in the code
          Window,       \* bound: how far ahead of the current turn a caller waits
          FirstTurn,    \* the constructor's firstTurn
          LastTurn      \* bound: the last turn anybody claims

ASSUME TurnSequncerAssumption ==
  /\ {TurnModulus, WaitersMask, Channels, Window, FirstTurn, LastTurn} \subseteq Nat
  /\ Window > 0
  /\ 2 * Window <= TurnModulus      \* half of the turn field, the PAST test
  /\ Channels > 0
  /\ Channels <= WaitersMask        \* one pass over the channels fits the delta

VARIABLES state,        \* state_: [turn, delta]
          pc,           \* where each thread is
          turnOf,       \* the turn each thread claimed last
          seen,         \* the local copy of state_ each thread works with
          owner,        \* the callers' contract: who takes which turn
          current       \* history: turns completed, without the wrap

vars == <<state, pc, turnOf, seen, owner, current>>

Turns == FirstTurn..LastTurn
Words == [turn : 0..(TurnModulus - 1), delta : 0..WaitersMask]
Waiting == {"wait", "cas", "futex", "asleep"}
Holding == {"hold", "complete"}

-----------------------------------------------------------------------------
Encode(n, d) == [turn |-> n % TurnModulus,
                 delta |-> IF d < WaitersMask THEN d ELSE WaitersMask]

FutexChannel(n) == n % Channels

\* Mutant of Ahead: the operands of the subtraction swapped.
AheadSwapped(n, word) == (word.turn - n) % TurnModulus

\* (sturn - current_sturn) >> kTurnShift, in uint32_t arithmetic.
Ahead(n, word) == (n - word.turn) % TurnModulus

\* Mutant of Recorded: a nearer waiter overwrites a farther one.
RecordedOwn(n, word) == Encode(word.turn, Ahead(n, word))

\* The word that tells the thread completing a turn that n is waited for.
Recorded(n, word) ==
  IF Ahead(n, word) <= word.delta THEN word
                                  ELSE Encode(word.turn, Ahead(n, word))

Init ==
  /\ state = Encode(FirstTurn, 0)
  /\ pc = [t \in Threads |-> "idle"]
  /\ turnOf = [t \in Threads |-> FirstTurn - 1]
  /\ seen = [t \in Threads |-> Encode(FirstTurn, 0)]
  /\ owner \in [Turns -> Threads]
  /\ current = FirstTurn

\* A caller enters waitForTurn(n) with the next turn it owns.
Arrive(t, n) ==
  /\ pc[t] = "idle"
  /\ owner[n] = t
  /\ n > turnOf[t]
  /\ \A m \in Turns : owner[m] = t /\ m < n => m <= turnOf[t]
  /\ n < current + Window
  /\ turnOf' = [turnOf EXCEPT ![t] = n]
  /\ pc' = [pc EXCEPT ![t] = "wait"]
  /\ UNCHANGED <<state, seen, owner, current>>

\* Mutant of Look: the channel is taken for the turn.
LookAtChannel(t) ==
  /\ pc[t] = "wait"
  /\ seen' = [seen EXCEPT ![t] = state]
  /\ pc' = [pc EXCEPT ![t] =
              IF FutexChannel(turnOf[t]) = FutexChannel(state.turn) THEN "hold" ELSE "cas"]
  /\ UNCHANGED <<state, turnOf, owner, current>>

\* One pass of the waiting loop up to the compare-and-swap.  A pass that only
\* spins reads the word again and changes nothing, so it is a stuttering step.
Look(t) ==
  /\ pc[t] = "wait"
  /\ seen' = [seen EXCEPT ![t] = state]
  /\ pc' = [pc EXCEPT ![t] =
              CASE Ahead(turnOf[t], state) = 0                    -> "hold"
                [] Ahead(turnOf[t], state) # 0
                     /\ Ahead(turnOf[t], state) >= TurnModulus \div 2 -> "past"
                [] OTHER -> IF Recorded(turnOf[t], state) = state THEN "futex" ELSE "cas"]
  /\ UNCHANGED <<state, turnOf, owner, current>>

RecordWaiter(t) ==
  /\ pc[t] = "cas"
  /\ IF state = seen[t]
       THEN /\ state' = Recorded(turnOf[t], seen[t])
            /\ seen' = [seen EXCEPT ![t] = Recorded(turnOf[t], seen[t])]
            /\ pc' = [pc EXCEPT ![t] = "futex"]
       ELSE /\ pc' = [pc EXCEPT ![t] = "wait"]
            /\ UNCHANGED <<state, seen>>
  /\ UNCHANGED <<turnOf, owner, current>>

\* Mutant of FutexWait: a changed word is taken for the thread's turn.
FutexWaitTrusting(t) ==
  /\ pc[t] = "futex"
  /\ pc' = [pc EXCEPT ![t] = IF state = seen[t] THEN "asleep" ELSE "hold"]
  /\ UNCHANGED <<state, turnOf, seen, owner, current>>

\* FUTEX_WAIT_BITSET: the kernel compares the word and sleeps in one step.
FutexWait(t) ==
  /\ pc[t] = "futex"
  /\ pc' = [pc EXCEPT ![t] = IF state = seen[t] THEN "asleep" ELSE "wait"]
  /\ UNCHANGED <<state, turnOf, seen, owner, current>>

\* EINTR: FutexResult::INTERRUPTED, which the loop ignores.
Interrupt(t) ==
  /\ pc[t] = "asleep"
  /\ pc' = [pc EXCEPT ![t] = "wait"]
  /\ UNCHANGED <<state, turnOf, seen, owner, current>>

\* The holder is done and enters completeTurn(turnOf[t]).
CompleteLoad(t) ==
  /\ pc[t] = "hold"
  /\ seen' = [seen EXCEPT ![t] = state]
  /\ pc' = [pc EXCEPT ![t] = "complete"]
  /\ UNCHANGED <<state, turnOf, owner, current>>

\* One pass of completeTurn's loop: not the caller's turn, so return without
\* a word; or install the next turn; or take the word the failed exchange saw.
CompleteTurn(t) ==
  /\ pc[t] = "complete"
  /\ CASE seen[t] # Encode(turnOf[t], seen[t].delta) ->
            /\ pc' = [pc EXCEPT ![t] = "idle"]
            /\ UNCHANGED <<state, seen, current>>
       [] seen[t] = Encode(turnOf[t], seen[t].delta) /\ seen[t] = state ->
            /\ state' = Encode(turnOf[t] + 1,
                               IF seen[t].delta = 0 THEN 0 ELSE seen[t].delta - 1)
            /\ current' = current + 1
            /\ pc' = [pc EXCEPT ![t] = IF seen[t].delta = 0 THEN "idle" ELSE "wake"]
            /\ UNCHANGED seen
       [] OTHER ->
            /\ seen' = [seen EXCEPT ![t] = state]
            /\ UNCHANGED <<state, pc, current>>
  /\ UNCHANGED <<turnOf, owner>>

\* Mutant of FutexWake: the channel of the turn completed, not of the next.
FutexWakeOwn(t) ==
  /\ pc[t] = "wake"
  /\ pc' = [u \in Threads |->
              CASE u = t -> "idle"
                [] pc[u] = "asleep"
                   /\ FutexChannel(turnOf[u]) = FutexChannel(turnOf[t]) -> "wait"
                [] OTHER -> pc[u]]
  /\ UNCHANGED <<state, turnOf, seen, owner, current>>

\* futexWake(INT_MAX, channel): everybody asleep on the next turn's channel.
FutexWake(t) ==
  /\ pc[t] = "wake"
  /\ pc' = [u \in Threads |->
              CASE u = t -> "idle"
                [] pc[u] = "asleep"
                   /\ FutexChannel(turnOf[u]) = FutexChannel(turnOf[t] + 1) -> "wait"
                [] OTHER -> pc[u]]
  /\ UNCHANGED <<state, turnOf, seen, owner, current>>

\* Every claimed turn is over: the only way the system stops.
Done ==
  /\ current = LastTurn + 1
  /\ \A t \in Threads : pc[t] = "idle"
  /\ UNCHANGED vars

Step(t) == \/ \E n \in Turns : Arrive(t, n)
           \/ Look(t) \/ RecordWaiter(t) \/ FutexWait(t)
           \/ CompleteLoad(t) \/ CompleteTurn(t) \/ FutexWake(t)

Next == \/ \E t \in Threads : Step(t) \/ Interrupt(t)
        \/ Done

Spec == Init /\ [][Next]_vars

\* Every thread keeps running: it claims its turns, it is scheduled while it
\* waits and its critical section ends.  No signal is promised (Interrupt).
Fairness == \A t \in Threads : WF_vars(Step(t))
FairSpec == Spec /\ Fairness

-----------------------------------------------------------------------------
TypeOK ==
  /\ state \in Words
  /\ pc \in [Threads -> {"idle", "wake", "past"} \cup Waiting \cup Holding]
  /\ turnOf \in [Threads -> Int]
  /\ seen \in [Threads -> Words]
  /\ owner \in [Turns -> Threads]
  /\ current \in Nat

\* The assertion of waitForTurn (TurnSequncer.h:28): the wrapped comparison
\* never takes a turn that is still to come for one that is past.
NeverPast == \A t \in Threads : pc[t] # "past"

\* Between waitForTurn(n) and completeTurn(n) the word shows turn n: nobody
\* else is inside, and completeTurn never takes its silent return (line 101).
HolderHasTurn ==
  \A t \in Threads : pc[t] \in Holding =>
    /\ state.turn = turnOf[t] % TurnModulus
    /\ \A u \in Threads : pc[u] \in Holding => u = t

\* No sleeper is forgotten: a completion to come, or one that has changed the
\* word and not yet called futexWake, wakes its channel; and the count is not
\* given away when the waiters' distance saturates or the turn field wraps.
NoLostWakeup ==
  \A t \in Threads : pc[t] = "asleep" =>
    \/ \E j \in 1..state.delta : FutexChannel(current + j) = FutexChannel(turnOf[t])
    \/ \E u \in Threads : pc[u] = "wake" /\ FutexChannel(turnOf[u] + 1) = FutexChannel(turnOf[t])

\* TurnOrder, with the waiting loop collapsed into "waiting".
phase == [t \in Threads |-> CASE pc[t] \in Waiting -> "waiting"
                              [] pc[t] \in Holding -> "holding"
                              [] OTHER             -> "idle"]
Order == INSTANCE TurnOrder
\* Served in order and one at a time, whatever the interleaving of loads,
\* exchanges, sleeps, interrupts and wake-ups (TurnSequncer.h:5).
ImplementsTurnOrder == Order!Spec

\* Whoever waits for its turn gets it (TurnSequncer.h:94).
WaiterServed == \A t \in Threads : pc[t] \in Waiting ~> pc[t] \in Holding
=============================================================================
