---------------------------- MODULE MPMCQueueBase ----------------------------
(***************************************************************************)
(* What the calls of a queue share besides its slots                       *)
(* (src/MPMCQueue/MPMCQueue.h): the two counters that give out tickets and *)
(* that size() reads, and the cutoff of the pushes, which a ticket now and *)
(* then tunes.  The pops do the same with a cutoff of their own.           *)
(***************************************************************************)
EXTENDS MPMCQueueSize, AdaptiveSpin

CONSTANTS kAdaptationFreq,      \* 128 in the code
          None                  \* model value: no ticket in hand

ASSUME MPMCQueueBaseAssumption == kAdaptationFreq \in Nat \ {0} /\ None \notin Nat

VARIABLE inHand     \* the ticket a pushing thread has taken, until it waits for its turn

baseVars == <<vars, spinVars, inHand>>

-----------------------------------------------------------------------------
BaseInit == Init /\ SpinInit /\ inHand = [t \in Callers |-> None]

\* blockingWrite: pushTicket_++ ...
BlockingWrite(t) ==
  /\ inHand[t] = None /\ wait[t] = "idle"
  /\ inHand' = [inHand EXCEPT ![t] = pushTicket]
  /\ TakePushTicket
  /\ UNCHANGED spinVars

\* ... then enqueue, which loads the cutoff; every kAdaptationFreq-th ticket updates it.
EnqueueWithTicket(t) ==
  /\ inHand[t] # None
  /\ Begin(t, inHand[t] % kAdaptationFreq = 0)
  /\ inHand' = [inHand EXCEPT ![t] = None]
  /\ UNCHANGED vars

\* The turn comes after count rounds of the wait.
TurnComes(t) ==
  /\ \E count \in 0..MaxCount : Succeed(t, count)
  /\ UNCHANGED <<vars, inHand>>

\* A pop takes a ticket, or a call of size() makes its next load.
PopOrSize ==
  /\ TakePopTicket \/ \E t \in Threads : Load(t)
  /\ UNCHANGED <<spinVars, inHand>>

BaseNext ==
  \/ \E t \in Callers : BlockingWrite(t) \/ EnqueueWithTicket(t) \/ TurnComes(t)
  \/ PopOrSize

BaseSpec == BaseInit /\ [][BaseNext]_baseVars
=============================================================================
