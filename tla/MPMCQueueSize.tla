--------------------------- MODULE MPMCQueueSize ---------------------------
(***************************************************************************)
(* size(), isempty() and isFull() of src/MPMCQueue/MPMCQueue.h: a snapshot *)
(* of two counters that other threads move, taken by reading each in turn  *)
(* until one of them has not changed.                                      *)
(***************************************************************************)
EXTENDS Integers

CONSTANTS Threads,      \* the threads that call size()
          MaxTicket     \* bound: how far the counters go

ASSUME MPMCQueueSizeAssumption == MaxTicket \in Nat

VARIABLES pushTicket, popTicket,
          pc,           \* the load of size() each thread is at
          pushes, pops, \* its local copies
          result,       \* what its last call returned
          spanned       \* history: the differences that held during the call

vars == <<pushTicket, popTicket, pc, pushes, pops, result, spanned>>

-----------------------------------------------------------------------------
Init ==
  /\ pushTicket = 0 /\ popTicket = 0
  /\ pc = [t \in Threads |-> "idle"]
  /\ pushes = [t \in Threads |-> 0]
  /\ pops = [t \in Threads |-> 0]
  /\ result = [t \in Threads |-> 0]
  /\ spanned = [t \in Threads |-> {0}]

\* Another difference holds while the calls of size() that run are under way.
Spans(difference) ==
  spanned' = [t \in Threads |-> IF pc[t] = "idle" THEN spanned[t]
                                                  ELSE spanned[t] \cup {difference}]

\* A push takes a ticket: pushTicket_++ or a successful exchange.
TakePushTicket ==
  /\ pushTicket < MaxTicket
  /\ pushTicket' = pushTicket + 1
  /\ Spans(pushTicket + 1 - popTicket)
  /\ UNCHANGED <<popTicket, pc, pushes, pops, result>>

\* A pop takes a ticket, also ahead of the pushes.
TakePopTicket ==
  /\ popTicket < MaxTicket
  /\ popTicket' = popTicket + 1
  /\ Spans(pushTicket - (popTicket + 1))
  /\ UNCHANGED <<pushTicket, pc, pushes, pops, result>>

Return(t, size) ==
  /\ result' = [result EXCEPT ![t] = size]
  /\ pc' = [pc EXCEPT ![t] = "idle"]

\* The four loads, A to D in the source; A begins the call.
LoadA(t) ==
  /\ pc[t] = "idle"
  /\ pushes' = [pushes EXCEPT ![t] = pushTicket]
  /\ pc' = [pc EXCEPT ![t] = "B"]
  /\ spanned' = [spanned EXCEPT ![t] = {pushTicket - popTicket}]
  /\ UNCHANGED <<pushTicket, popTicket, pops, result>>

LoadB(t) ==
  /\ pc[t] = "B"
  /\ pops' = [pops EXCEPT ![t] = popTicket]
  /\ pc' = [pc EXCEPT ![t] = "C"]
  /\ UNCHANGED <<pushTicket, popTicket, pushes, result, spanned>>

\* Mutant of LoadC: return whatever was read.
LoadCNone(t) ==
  /\ pc[t] = "C"
  /\ Return(t, pushes[t] - pops[t])
  /\ UNCHANGED <<pushTicket, popTicket, pushes, pops, spanned>>

LoadC(t) ==
  /\ pc[t] = "C"
  /\ IF pushTicket = pushes[t]
       THEN Return(t, pushes[t] - pops[t]) /\ UNCHANGED pushes
       ELSE /\ pushes' = [pushes EXCEPT ![t] = pushTicket]
            /\ pc' = [pc EXCEPT ![t] = "D"]
            /\ UNCHANGED result
  /\ UNCHANGED <<pushTicket, popTicket, pops, spanned>>

LoadD(t) ==
  /\ pc[t] = "D"
  /\ IF popTicket = pops[t]
       THEN Return(t, pushes[t] - pops[t]) /\ UNCHANGED pops
       ELSE /\ pops' = [pops EXCEPT ![t] = popTicket]
            /\ pc' = [pc EXCEPT ![t] = "C"]
            /\ UNCHANGED result
  /\ UNCHANGED <<pushTicket, popTicket, pushes, spanned>>

Load(t) == LoadA(t) \/ LoadB(t) \/ LoadC(t) \/ LoadD(t)

Next == \/ TakePushTicket
        \/ TakePopTicket
        \/ \E t \in Threads : Load(t)

Spec == Init /\ [][Next]_vars

-----------------------------------------------------------------------------
TypeOK ==
  /\ pushTicket \in 0..MaxTicket /\ popTicket \in 0..MaxTicket
  /\ pc \in [Threads -> {"idle", "B", "C", "D"}]
  /\ pushes \in [Threads -> 0..MaxTicket]
  /\ pops \in [Threads -> 0..MaxTicket]
  /\ result \in [Threads -> Int]
  /\ spanned \in [Threads -> SUBSET Int]

\* size() returns a difference of the two counters that was true at one moment
\* of the call, although it never reads both at once: "elememt in queue +
\* pending(calls to enqueue) - pending(calls to dequeue)" (line 159).
SizeWasTrue == \A t \in Threads : pc[t] = "idle" => result[t] \in spanned[t]
=============================================================================
