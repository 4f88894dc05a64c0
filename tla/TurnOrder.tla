----------------------------- MODULE TurnOrder -----------------------------
(***************************************************************************)
(* What TurnSequncer (src/MPMCQueue/TurnSequncer.h) promises its callers:  *)
(* threads that each claim a turn are served one at a time, in the order   *)
(* of their turns.  Nothing is said about how a thread waits.              *)
(***************************************************************************)
EXTENDS Integers

CONSTANTS Threads,      \* the threads that take turns
          FirstTurn,    \* the constructor's firstTurn
          LastTurn      \* bound: the last turn anybody claims

VARIABLES current,      \* the turn being served, never wrapped
          phase,        \* phase[t]: "idle", "waiting" or "holding"
          turnOf        \* turnOf[t]: the turn t claimed last

vars == <<current, phase, turnOf>>

Turns == FirstTurn..LastTurn

Init ==
  /\ current = FirstTurn
  /\ phase = [t \in Threads |-> "idle"]
  /\ turnOf = [t \in Threads |-> FirstTurn - 1]

\* A thread claims a turn that is not over yet and that nobody else claimed.
Arrive(t, n) ==
  /\ phase[t] = "idle"
  /\ n >= current
  /\ \A u \in Threads : turnOf[u] # n
  /\ phase' = [phase EXCEPT ![t] = "waiting"]
  /\ turnOf' = [turnOf EXCEPT ![t] = n]
  /\ UNCHANGED current

\* waitForTurn(turn) returns: the turn has come and nobody holds another one.
Grant(t) ==
  /\ phase[t] = "waiting"
  /\ turnOf[t] = current
  /\ \A u \in Threads : phase[u] # "holding"
  /\ phase' = [phase EXCEPT ![t] = "holding"]
  /\ UNCHANGED <<current, turnOf>>

\* completeTurn(turn) by the holder serves the next turn, and no other.
Finish(t) ==
  /\ phase[t] = "holding"
  /\ current' = current + 1
  /\ phase' = [phase EXCEPT ![t] = "idle"]
  /\ UNCHANGED turnOf

Next ==
  \E t \in Threads :
    \/ \E n \in Turns : Arrive(t, n)
    \/ Grant(t)
    \/ Finish(t)

Spec == Init /\ [][Next]_vars
=============================================================================
