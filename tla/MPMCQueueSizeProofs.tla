------------------------ MODULE MPMCQueueSizeProofs ------------------------
(***************************************************************************)
(* size() is linearizable, for every number of callers and of tickets,     *)
(* and the calls that share the counters and the cutoff do to each what    *)
(* MPMCQueueSize and AdaptiveSpin say.                                     *)
(***************************************************************************)
EXTENDS MPMCQueueBase, TLAPS

\* The difference that holds now is among those the running call has spanned.
NowSpanned ==
  \A t \in Threads : pc[t] # "idle" => pushTicket - popTicket \in spanned[t]

\* At load C the popped count is current for some push count not yet passed.
AtC ==
  \A t \in Threads : pc[t] = "C" =>
    \E p \in pushes[t]..pushTicket : p - pops[t] \in spanned[t]

\* At load D the pushed count is current for some pop count not yet passed.
AtD ==
  \A t \in Threads : pc[t] = "D" =>
    \E q \in pops[t]..popTicket : pushes[t] - q \in spanned[t]

\* A local copy is never ahead of its counter.
Behind == \A t \in Threads : pushes[t] <= pushTicket /\ pops[t] <= popTicket

IInv == TypeOK /\ NowSpanned /\ AtC /\ AtD /\ Behind /\ SizeWasTrue

\* The invariant holds when the queue has just been built.
LEMMA InitIInv == Init => IInv
  BY MPMCQueueSizeAssumption
     DEF Init, IInv, TypeOK, NowSpanned, AtC, AtD, Behind, SizeWasTrue

\* Every load of size() and every ticket taken meanwhile preserves it.
LEMMA NextIInv == IInv /\ [Next]_vars => IInv'
<1> SUFFICES ASSUME IInv, [Next]_vars PROVE IInv'
  OBVIOUS
<1> USE MPMCQueueSizeAssumption
<1>1. CASE TakePushTicket
  <2>1. TypeOK'
    BY <1>1 DEF TakePushTicket, Spans, IInv, TypeOK
  <2>2. NowSpanned'
    BY <1>1 DEF TakePushTicket, Spans, IInv, TypeOK, NowSpanned
  <2>3. AtC'
    BY <1>1 DEF TakePushTicket, Spans, IInv, TypeOK, AtC, Behind
  <2>4. AtD'
    BY <1>1 DEF TakePushTicket, Spans, IInv, TypeOK, AtD, Behind
  <2>5. Behind'
    BY <1>1 DEF TakePushTicket, Spans, IInv, TypeOK, Behind
  <2>6. SizeWasTrue'
    BY <1>1 DEF TakePushTicket, Spans, IInv, TypeOK, SizeWasTrue
  <2>7. QED
    BY <2>1, <2>2, <2>3, <2>4, <2>5, <2>6 DEF IInv
<1>2. CASE TakePopTicket
  <2>1. TypeOK'
    BY <1>2 DEF TakePopTicket, Spans, IInv, TypeOK
  <2>2. NowSpanned'
    BY <1>2 DEF TakePopTicket, Spans, IInv, TypeOK, NowSpanned
  <2>3. AtC'
    BY <1>2 DEF TakePopTicket, Spans, IInv, TypeOK, AtC, Behind
  <2>4. AtD'
    BY <1>2 DEF TakePopTicket, Spans, IInv, TypeOK, AtD, Behind
  <2>5. Behind'
    BY <1>2 DEF TakePopTicket, Spans, IInv, TypeOK, Behind
  <2>6. SizeWasTrue'
    BY <1>2 DEF TakePopTicket, Spans, IInv, TypeOK, SizeWasTrue
  <2>7. QED
    BY <2>1, <2>2, <2>3, <2>4, <2>5, <2>6 DEF IInv
<1>3. ASSUME NEW t \in Threads, LoadA(t) PROVE IInv'
  <2>1. TypeOK'
    BY <1>3 DEF LoadA, IInv, TypeOK
  <2>2. NowSpanned'
    BY <1>3 DEF LoadA, IInv, TypeOK, NowSpanned
  <2>3. AtC'
    BY <1>3 DEF LoadA, IInv, TypeOK, AtC, Behind
  <2>4. AtD'
    BY <1>3 DEF LoadA, IInv, TypeOK, AtD, Behind
  <2>5. Behind'
    BY <1>3 DEF LoadA, IInv, TypeOK, Behind
  <2>6. SizeWasTrue'
    BY <1>3 DEF LoadA, IInv, TypeOK, SizeWasTrue
  <2>7. QED
    BY <2>1, <2>2, <2>3, <2>4, <2>5, <2>6 DEF IInv
<1>4. ASSUME NEW t \in Threads, LoadB(t) PROVE IInv'
  <2>1. TypeOK'
    BY <1>4 DEF LoadB, IInv, TypeOK
  <2>2. NowSpanned'
    BY <1>4 DEF LoadB, IInv, TypeOK, NowSpanned
  <2>3. AtC'
    BY <1>4 DEF LoadB, IInv, TypeOK, NowSpanned, AtC, Behind
  <2>4. AtD'
    BY <1>4 DEF LoadB, IInv, TypeOK, AtD
  <2>5. Behind'
    BY <1>4 DEF LoadB, IInv, TypeOK, Behind
  <2>6. SizeWasTrue'
    BY <1>4 DEF LoadB, IInv, TypeOK, SizeWasTrue
  <2>7. QED
    BY <2>1, <2>2, <2>3, <2>4, <2>5, <2>6 DEF IInv
<1>5. ASSUME NEW t \in Threads, LoadC(t) PROVE IInv'
  <2>1. TypeOK'
    BY <1>5 DEF LoadC, Return, IInv, TypeOK
  <2>2. NowSpanned'
    BY <1>5 DEF LoadC, Return, IInv, TypeOK, NowSpanned
  <2>3. AtC'
    BY <1>5 DEF LoadC, Return, IInv, TypeOK, AtC
  <2>4. AtD'
    BY <1>5 DEF LoadC, Return, IInv, TypeOK, NowSpanned, AtD, Behind
  <2>5. Behind'
    BY <1>5 DEF LoadC, Return, IInv, TypeOK, Behind
  <2>6. SizeWasTrue'
    <3>1. pushTicket = pushes[t] => pushes[t] - pops[t] \in spanned[t]
      BY <1>5 DEF LoadC, IInv, TypeOK, AtC
    <3>2. QED
      BY <1>5, <3>1 DEF LoadC, Return, IInv, TypeOK, SizeWasTrue
  <2>7. QED
    BY <2>1, <2>2, <2>3, <2>4, <2>5, <2>6 DEF IInv
<1>6. ASSUME NEW t \in Threads, LoadD(t) PROVE IInv'
  <2>1. TypeOK'
    BY <1>6 DEF LoadD, Return, IInv, TypeOK
  <2>2. NowSpanned'
    BY <1>6 DEF LoadD, Return, IInv, TypeOK, NowSpanned
  <2>3. AtC'
    BY <1>6 DEF LoadD, Return, IInv, TypeOK, NowSpanned, AtC, Behind
  <2>4. AtD'
    BY <1>6 DEF LoadD, Return, IInv, TypeOK, AtD
  <2>5. Behind'
    BY <1>6 DEF LoadD, Return, IInv, TypeOK, Behind
  <2>6. SizeWasTrue'
    <3>1. popTicket = pops[t] => pushes[t] - pops[t] \in spanned[t]
      BY <1>6 DEF LoadD, IInv, TypeOK, AtD
    <3>2. QED
      BY <1>6, <3>1 DEF LoadD, Return, IInv, TypeOK, SizeWasTrue
  <2>7. QED
    BY <2>1, <2>2, <2>3, <2>4, <2>5, <2>6 DEF IInv
<1>7. CASE UNCHANGED vars
  BY <1>7 DEF vars, IInv, TypeOK, NowSpanned, AtC, AtD, Behind, SizeWasTrue
<1>8. QED
  BY <1>1, <1>2, <1>3, <1>4, <1>5, <1>6, <1>7 DEF Next, Load

\* The counters and copies stay in range, and size() returns a difference that
\* was true at one moment of the call, whatever the pushers and poppers do.
THEOREM SizeLinearizable == Spec => [](TypeOK /\ SizeWasTrue)
<1>1. IInv => TypeOK /\ SizeWasTrue
  BY DEF IInv
<1>2. QED
  BY InitIInv, NextIInv, <1>1, PTL DEF Spec

\* What is shown of size() and of the cutoff each by itself holds of the queue that
\* has both: every step of a call is a step of the one, of the other, or of neither.
THEOREM BaseComposes == BaseSpec => Spec /\ SpinSpec /\ []SizeWasTrue
<1>1. BaseInit => Init /\ SpinInit
  BY DEF BaseInit
<1>2. [BaseNext]_baseVars => [Next]_vars /\ [SpinNext]_spinVars
  <2>1. ASSUME NEW t \in Callers, BlockingWrite(t) \/ EnqueueWithTicket(t) \/ TurnComes(t)
        PROVE  [Next]_vars /\ [SpinNext]_spinVars
    <3>1. BlockingWrite(t) => Next /\ UNCHANGED spinVars
      BY DEF BlockingWrite, Next
    <3>2. EnqueueWithTicket(t) => SpinNext /\ UNCHANGED vars
      BY DEF EnqueueWithTicket, SpinNext
    <3>3. TurnComes(t) => SpinNext /\ UNCHANGED vars
      BY DEF TurnComes, SpinNext
    <3>4. QED
      BY <2>1, <3>1, <3>2, <3>3
  <2>2. PopOrSize => Next /\ UNCHANGED spinVars
    BY DEF PopOrSize, Next
  <2>3. UNCHANGED baseVars => UNCHANGED vars /\ UNCHANGED spinVars
    BY DEF baseVars
  <2>4. QED
    BY <2>1, <2>2, <2>3 DEF BaseNext
<1>3. QED
  BY <1>1, <1>2, SizeLinearizable, PTL DEF BaseSpec, Spec, SpinSpec
=============================================================================
