------------------------- MODULE TurnSequncerProofs -------------------------
(***************************************************************************)
(* The sequencer serves its turns in order, one at a time, and forgets no  *)
(* sleeper, for every number of threads, turns and channels; the slot that *)
(* is built on it hands each element from its enqueue to the next dequeue; *)
(* and the cutoff its waits tune stays within its limits, for every pair   *)
(* of limits and every number of waits that update it at once.             *)
(***************************************************************************)
EXTENDS SingleElementQueue, AdaptiveSpin, TLAPS

-----------------------------------------------------------------------------
\* Facts about remainders: a modulus that is a constant but not a number is
\* beyond the provers without them.

\* A remainder is determined by the interval it lies in.
LEMMA ModUnique ==
  ASSUME NEW m \in Nat \ {0}, NEW x \in Int, NEW q \in Int, NEW r \in 0..(m - 1),
         x = m * q + r
  PROVE  x % m = r
<1> DEFINE d == q - (x \div m)
<1>1. /\ x \div m \in Int
      /\ x % m \in 0..(m - 1)
      /\ x = m * (x \div m) + (x % m)
  BY SMT
<1>2. m * d = (x % m) - r
  BY <1>1
<1>3. d >= 1 => m * d >= m
  BY <1>1
<1>4. d <= -1 => m * d <= -m
  BY <1>1
<1>5. d = 0
  BY <1>1, <1>2, <1>3, <1>4
<1>6. QED
  BY <1>1, <1>2, <1>5

\* A number below the modulus is its own remainder.
LEMMA ModSmall ==
  ASSUME NEW m \in Nat \ {0}, NEW x \in 0..(m - 1)
  PROVE  x % m = x
<1>1. x = m * 0 + x /\ x \in Int /\ 0 \in Int
  OBVIOUS
<1>2. QED
  BY <1>1, ModUnique

\* A small negative number wraps once.
LEMMA ModNegative ==
  ASSUME NEW m \in Nat \ {0}, NEW x \in (-m)..(-1)
  PROVE  x % m = x + m
<1>1. x = m * (-1) + (x + m) /\ x \in Int /\ -1 \in Int /\ x + m \in 0..(m - 1)
  OBVIOUS
<1>2. QED
  BY <1>1, ModUnique

\* The wrapped difference of the turn field is the real distance, as long as
\* that is less than the field's range.
LEMMA WrappedDistance ==
  ASSUME NEW m \in Nat \ {0}, NEW c \in Nat, NEW n \in Nat, c <= n, n < c + m
  PROVE  (n - (c % m)) % m = n - c
<1>1. /\ c \div m \in Int
      /\ c % m \in 0..(m - 1)
      /\ c = m * (c \div m) + (c % m)
  BY SMT
<1>2. n - (c % m) = m * (c \div m) + (n - c)
  BY <1>1
<1>3. QED
  BY <1>1, <1>2, ModUnique

\* Any m successive numbers meet every channel.
LEMMA EveryChannel ==
  ASSUME NEW m \in Nat \ {0}, NEW c \in Nat, NEW n \in Nat, c < n
  PROVE  \E j \in 1..m : (c + j) % m = n % m
<1> DEFINE a == n - c - 1
           j == (a % m) + 1
<1>1. /\ a \div m \in Int
      /\ a % m \in 0..(m - 1)
      /\ a = m * (a \div m) + (a % m)
  BY SMT
<1>2. /\ n \div m \in Int
      /\ n % m \in 0..(m - 1)
      /\ n = m * (n \div m) + (n % m)
  BY SMT
<1> HIDE DEF a, j
<1>3. c + j = n - m * (a \div m)
  BY <1>1 DEF a, j
<1>4. (c + j) % m = n % m
  <2> DEFINE A == a \div m
             B == n \div m
  <2>1. A \in Int /\ B \in Int /\ c + j \in Int /\ n = m * B + (n % m) /\ c + j = n - m * A
    BY <1>1, <1>2, <1>3 DEF j
  <2> HIDE DEF A, B
  <2>2. m * (B - A) = m * B - m * A
    BY <2>1
  <2>3. c + j = m * (B - A) + (n % m)
    BY <1>2, <2>1, <2>2
  <2>4. QED
    BY <1>2, <2>1, <2>3, ModUnique
<1>5. j \in 1..m
  BY <1>1 DEF j
<1>6. QED
  BY <1>4, <1>5

-----------------------------------------------------------------------------
\* The word shows the current turn, wrapped.
WordShowsTurn == state.turn = current % TurnModulus

\* A thread works on a turn of its own.
Owned == \A t \in Threads : turnOf[t] \in Turns => owner[turnOf[t]] = t

\* A turn somebody waits for or holds is not over and within the window.
InWindow ==
  \A t \in Threads : pc[t] \in Waiting \cup Holding =>
    turnOf[t] \in Turns /\ current <= turnOf[t] /\ turnOf[t] < current + Window

\* A turn that is over was claimed by its owner, who never takes it again.
Over == \A n \in Turns : n < current => n <= turnOf[owner[n]]

\* A holder's turn is the current one, and the word still shows it when
\* completeTurn has taken its copy.
Served ==
  \A t \in Threads :
    /\ pc[t] \in Holding => turnOf[t] = current
    /\ pc[t] = "complete" => seen[t].turn = state.turn

IInv == /\ TypeOK /\ WordShowsTurn /\ Owned /\ InWindow /\ Over /\ Served
        /\ NeverPast

\* For a thread that waits or holds, the wrapped distance is the real one.
LEMMA AheadIsDistance ==
  ASSUME IInv, NEW t \in Threads, pc[t] \in Waiting \cup Holding
  PROVE  /\ Ahead(turnOf[t], state) = turnOf[t] - current
         /\ Ahead(turnOf[t], state) \in 0..(Window - 1)
<1>1. /\ turnOf[t] \in Nat /\ current \in Nat
      /\ current <= turnOf[t] /\ turnOf[t] < current + Window
      /\ state.turn = current % TurnModulus
  BY TurnSequncerAssumption DEF IInv, TypeOK, InWindow, WordShowsTurn, Turns
<1>2. TurnModulus \in Nat \ {0} /\ Window <= TurnModulus /\ Window \in Nat
  BY TurnSequncerAssumption
<1>. turnOf[t] < current + TurnModulus
  BY <1>1, <1>2
<1>3. (turnOf[t] - (current % TurnModulus)) % TurnModulus = turnOf[t] - current
  BY <1>1, <1>2, WrappedDistance
<1>4. QED
  BY <1>1, <1>2, <1>3 DEF Ahead

\* The word with a waiter recorded is a word, of the same turn.
LEMMA RecordedWord ==
  ASSUME NEW w \in Words, NEW n \in Int
  PROVE  /\ Recorded(n, w) \in Words
         /\ Recorded(n, w).turn = w.turn
         /\ Recorded(n, w).delta >= w.delta
<1>1. /\ TurnModulus \in Nat \ {0} /\ WaitersMask \in Nat
      /\ w.turn \in 0..(TurnModulus - 1) /\ w.delta \in 0..WaitersMask
  BY TurnSequncerAssumption DEF Words
<1>2. Ahead(n, w) \in 0..(TurnModulus - 1)
  BY <1>1 DEF Ahead
<1>3. w.turn % TurnModulus = w.turn
  <2>1. w.turn = TurnModulus * 0 + w.turn
    BY <1>1
  <2>2. QED
    BY <1>1, <2>1, ModUnique
<1>4. CASE Ahead(n, w) <= w.delta
  BY <1>1, <1>4 DEF Recorded
<1>5. CASE ~(Ahead(n, w) <= w.delta)
  BY <1>1, <1>2, <1>3, <1>5 DEF Recorded, Encode, Words
<1>6. QED
  BY <1>4, <1>5

\* Encode yields a word.
LEMMA EncodeWord ==
  ASSUME NEW n \in Int, NEW d \in Nat
  PROVE  Encode(n, d) \in Words /\ Encode(n, d).turn = n % TurnModulus
BY TurnSequncerAssumption DEF Encode, Words

\* A new sequencer satisfies the invariant.
LEMMA InitIInv == Init => IInv
<1> SUFFICES ASSUME Init PROVE IInv
  OBVIOUS
<1>1. Encode(FirstTurn, 0) \in Words /\ Encode(FirstTurn, 0).turn = FirstTurn % TurnModulus
  <2>1. FirstTurn \in Int /\ 0 \in Nat
    BY TurnSequncerAssumption
  <2>2. QED
    BY <2>1, EncodeWord
<1>2. TypeOK
  BY <1>1, TurnSequncerAssumption DEF Init, TypeOK, Turns, Waiting, Holding
<1>3. WordShowsTurn
  BY <1>1 DEF Init, WordShowsTurn
<1>4. Owned /\ Over
  BY TurnSequncerAssumption DEF Init, Owned, Over, Turns
<1>5. InWindow /\ Served /\ NeverPast
  BY DEF Init, InWindow, Served, NeverPast, Waiting, Holding
<1>6. QED
  BY <1>2, <1>3, <1>4, <1>5 DEF IInv

\* Nobody else holds or waits for the turn of a holder.
LEMMA Alone ==
  ASSUME IInv, NEW t \in Threads, NEW u \in Threads,
         pc[t] \in Waiting \cup Holding, pc[u] \in Waiting \cup Holding,
         turnOf[t] = turnOf[u]
  PROVE  t = u
BY DEF IInv, InWindow, Owned

\* Claiming a turn: only turns that are not over are left to claim.
LEMMA ArriveIInv ==
  ASSUME IInv, NEW t \in Threads, NEW n \in Turns, Arrive(t, n)
  PROVE  IInv'
<1> USE DEF Waiting, Holding
<1>1. n \in Nat
  BY TurnSequncerAssumption DEF Turns
<1>2. current <= n
  BY <1>1 DEF Arrive, IInv, TypeOK, Over
<1>3. TypeOK'
  BY <1>1 DEF Arrive, IInv, TypeOK
<1>4. (WordShowsTurn /\ NeverPast)'
  BY DEF Arrive, IInv, TypeOK, WordShowsTurn, NeverPast
<1>5. Owned'
  BY DEF Arrive, IInv, TypeOK, Owned
<1>6. InWindow'
  BY <1>2 DEF Arrive, IInv, TypeOK, InWindow
<1>7. Over'
  BY <1>1, <1>2 DEF Arrive, IInv, TypeOK, Over, Turns
<1>8. Served'
  BY DEF Arrive, IInv, TypeOK, Served
<1>9. QED
  BY <1>3, <1>4, <1>5, <1>6, <1>7, <1>8 DEF IInv

\* Looking at the word: within the window the turn is served or still to come.
LEMMA LookIInv ==
  ASSUME IInv, NEW t \in Threads, Look(t)
  PROVE  IInv'
<1> USE DEF Waiting, Holding
<1>1. /\ Ahead(turnOf[t], state) = turnOf[t] - current
      /\ Ahead(turnOf[t], state) \in 0..(Window - 1)
  BY AheadIsDistance DEF Look
<1>2. ~(Ahead(turnOf[t], state) >= TurnModulus \div 2)
  BY <1>1, TurnSequncerAssumption
<1>3. pc' \in {[pc EXCEPT ![t] = "hold"], [pc EXCEPT ![t] = "futex"], [pc EXCEPT ![t] = "cas"]}
  BY <1>2 DEF Look
<1>4. pc'[t] = "hold" => turnOf[t] = current
  <2>1. CASE Ahead(turnOf[t], state) = 0
    BY <1>1, <2>1 DEF IInv, TypeOK
  <2>2. CASE Ahead(turnOf[t], state) # 0
    BY <1>2, <2>2 DEF Look, IInv, TypeOK
  <2>3. QED
    BY <2>1, <2>2
<1>5. TypeOK'
  BY <1>3 DEF Look, IInv, TypeOK
<1>6. (WordShowsTurn /\ Owned /\ Over)'
  BY DEF Look, IInv, WordShowsTurn, Owned, Over
<1>7. (InWindow /\ NeverPast)'
  BY <1>3 DEF Look, IInv, TypeOK, InWindow, NeverPast
<1>8. Served'
  BY <1>3, <1>4 DEF Look, IInv, TypeOK, Served
<1>9. QED
  BY <1>5, <1>6, <1>7, <1>8 DEF IInv

\* Recording a waiter changes the delta and leaves the turn alone.
LEMMA RecordWaiterIInv ==
  ASSUME IInv, NEW t \in Threads, RecordWaiter(t)
  PROVE  IInv'
<1> USE DEF Waiting, Holding
<1>1. seen[t] \in Words /\ turnOf[t] \in Int
  BY DEF IInv, TypeOK
<1>2. Recorded(turnOf[t], seen[t]) \in Words /\ Recorded(turnOf[t], seen[t]).turn = seen[t].turn
  BY <1>1, RecordedWord
<1>3. state'.turn = state.turn
  BY <1>2 DEF RecordWaiter
<1>4. TypeOK'
  BY <1>2 DEF RecordWaiter, IInv, TypeOK
<1>5. (WordShowsTurn /\ Owned /\ Over)'
  BY <1>3 DEF RecordWaiter, IInv, WordShowsTurn, Owned, Over
<1>6. (InWindow /\ NeverPast)'
  BY DEF RecordWaiter, IInv, TypeOK, InWindow, NeverPast
<1>7. Served'
  BY <1>3 DEF RecordWaiter, IInv, TypeOK, Served
<1>8. QED
  BY <1>4, <1>5, <1>6, <1>7 DEF IInv

\* Sleeping, being interrupted and taking completeTurn's copy move one thread.
LEMMA WaitLoadIInv ==
  ASSUME IInv, NEW t \in Threads, FutexWait(t) \/ Interrupt(t) \/ CompleteLoad(t)
  PROVE  IInv'
<1> USE DEF Waiting, Holding, FutexWait, Interrupt, CompleteLoad
<1>1. TypeOK'
  BY DEF IInv, TypeOK
<1>2. (WordShowsTurn /\ Owned /\ Over)'
  BY DEF IInv, WordShowsTurn, Owned, Over
<1>3. (InWindow /\ NeverPast)'
  BY DEF IInv, TypeOK, InWindow, NeverPast
<1>4. Served'
  BY DEF IInv, TypeOK, Served
<1>5. QED
  BY <1>1, <1>2, <1>3, <1>4 DEF IInv

\* What a step of completeTurn does: it never returns silently; it serves the
\* next turn, or it only takes a new copy of the word.
LEMMA CompleteTurnCases ==
  ASSUME IInv, NEW t \in Threads, CompleteTurn(t)
  PROVE  /\ turnOf[t] = current
         /\ UNCHANGED <<turnOf, owner>>
         /\ \/ /\ state' = Encode(current + 1, IF state.delta = 0 THEN 0 ELSE state.delta - 1)
               /\ current' = current + 1
               /\ pc' = [pc EXCEPT ![t] = IF state.delta = 0 THEN "idle" ELSE "wake"]
               /\ UNCHANGED seen
            \/ /\ seen' = [seen EXCEPT ![t] = state]
               /\ UNCHANGED <<state, pc, current>>
<1>1. /\ turnOf[t] = current
      /\ seen[t].turn = current % TurnModulus
      /\ seen[t] \in Words
  BY DEF CompleteTurn, IInv, TypeOK, Served, WordShowsTurn, Holding
<1>2. seen[t] = Encode(turnOf[t], seen[t].delta)
  BY <1>1, TurnSequncerAssumption DEF Encode, Words
<1>3. QED
  BY <1>1, <1>2 DEF CompleteTurn

\* Completing a turn: the next one is served and the old one is over.
LEMMA CompleteTurnIInv ==
  ASSUME IInv, NEW t \in Threads, CompleteTurn(t)
  PROVE  IInv'
<1> USE DEF Waiting, Holding
<1>1. turnOf[t] = current /\ UNCHANGED <<turnOf, owner>> /\ current \in Nat /\ state \in Words
  BY CompleteTurnCases DEF IInv, TypeOK
<1>2. CASE /\ state' = Encode(current + 1, IF state.delta = 0 THEN 0 ELSE state.delta - 1)
           /\ current' = current + 1
           /\ pc' = [pc EXCEPT ![t] = IF state.delta = 0 THEN "idle" ELSE "wake"]
           /\ UNCHANGED seen
  <2>1. (IF state.delta = 0 THEN 0 ELSE state.delta - 1) \in Nat
    BY <1>1, TurnSequncerAssumption DEF Words
  <2>2. state' \in Words /\ state'.turn = (current + 1) % TurnModulus
    BY <1>1, <1>2, <2>1, EncodeWord
  <2>3. (TypeOK /\ WordShowsTurn)'
    BY <1>1, <1>2, <2>2 DEF IInv, TypeOK, WordShowsTurn
  <2>4. \A u \in Threads : pc[u] \in Waiting \cup Holding /\ u # t => turnOf[u] > current
    BY <1>1, Alone, TurnSequncerAssumption DEF CompleteTurn, IInv, TypeOK, InWindow, Turns
  <2>5. InWindow'
    BY <1>1, <1>2, <2>4, TurnSequncerAssumption DEF CompleteTurn, IInv, TypeOK, InWindow, Turns
  <2>6. (Owned /\ NeverPast)'
    BY <1>1, <1>2 DEF IInv, TypeOK, Owned, NeverPast
  <2>7. owner[current] = t
    BY <1>1 DEF CompleteTurn, IInv, InWindow, Owned
  <2>8. Over'
    BY <1>1, <1>2, <2>7, TurnSequncerAssumption DEF IInv, TypeOK, Over, Turns
  <2>9. Served'
    BY <1>1, <1>2, <2>4 DEF IInv, TypeOK, Served
  <2>10. QED
    BY <2>3, <2>5, <2>6, <2>8, <2>9 DEF IInv
<1>3. CASE seen' = [seen EXCEPT ![t] = state] /\ UNCHANGED <<state, pc, current>>
  <2>1. TypeOK'
    BY <1>1, <1>3 DEF IInv, TypeOK
  <2>2. (WordShowsTurn /\ Owned /\ InWindow /\ Over /\ NeverPast)'
    BY <1>1, <1>3 DEF IInv, WordShowsTurn, Owned, InWindow, Over, NeverPast
  <2>3. Served'
    BY <1>1, <1>3 DEF IInv, TypeOK, Served
  <2>4. QED
    BY <2>1, <2>2, <2>3 DEF IInv
<1>4. QED
  BY <1>2, <1>3, CompleteTurnCases

\* Waking sleepers sends them back to the loop.
LEMMA FutexWakeIInv ==
  ASSUME IInv, NEW t \in Threads, FutexWake(t)
  PROVE  IInv'
<1> USE DEF Waiting, Holding
<1>1. \A u \in Threads : \/ pc'[u] = pc[u]
                         \/ pc[u] = "asleep" /\ pc'[u] = "wait"
                         \/ pc[u] = "wake" /\ pc'[u] = "idle"
  BY DEF FutexWake
<1>2. TypeOK'
  BY <1>1 DEF FutexWake, IInv, TypeOK
<1>3. (WordShowsTurn /\ Owned /\ Over)'
  BY DEF FutexWake, IInv, WordShowsTurn, Owned, Over
<1>4. (InWindow /\ NeverPast)'
  BY <1>1 DEF FutexWake, IInv, InWindow, NeverPast
<1>5. Served'
  BY <1>1 DEF FutexWake, IInv, Served
<1>6. QED
  BY <1>2, <1>3, <1>4, <1>5 DEF IInv

\* Every step of the sequencer preserves the invariant.
LEMMA NextIInv == IInv /\ [Next]_vars => IInv'
<1> SUFFICES ASSUME IInv, [Next]_vars PROVE IInv'
  OBVIOUS
<1>1. CASE UNCHANGED vars
  BY <1>1 DEF vars, IInv, TypeOK, WordShowsTurn, Owned, InWindow, Over, Served, NeverPast
<1>2. CASE Done
  BY <1>1, <1>2 DEF Done
<1>3. ASSUME NEW t \in Threads, Step(t) \/ Interrupt(t) PROVE IInv'
  BY <1>3, ArriveIInv, LookIInv, RecordWaiterIInv, WaitLoadIInv, CompleteTurnIInv,
     FutexWakeIInv DEF Step
<1>4. QED
  BY <1>1, <1>2, <1>3 DEF Next

\* The invariant says that a holder has its turn, alone.
LEMMA IInvHolder == IInv => HolderHasTurn
<1> SUFFICES ASSUME IInv, NEW t \in Threads, pc[t] \in Holding
             PROVE  /\ state.turn = turnOf[t] % TurnModulus
                    /\ \A u \in Threads : pc[u] \in Holding => u = t
  BY DEF HolderHasTurn
<1>1. turnOf[t] = current /\ \A u \in Threads : pc[u] \in Holding => turnOf[u] = current
  BY DEF IInv, Served
<1>2. QED
  BY <1>1, Alone DEF IInv, WordShowsTurn

\* The waiting loop never takes a turn for past (the assertion of line 28), and
\* a thread between waitForTurn(n) and completeTurn(n) is alone there and finds
\* turn n in the word, whatever wraps, for any number of threads.
THEOREM SequencerSafe == Spec => [](TypeOK /\ NeverPast /\ HolderHasTurn)
<1>1. IInv => TypeOK /\ NeverPast /\ HolderHasTurn
  BY IInvHolder DEF IInv
<1>2. QED
  BY InitIInv, NextIInv, <1>1, PTL DEF Spec

\* No thread's turn is taken for one that is past: waitForTurn's assertion holds.
THEOREM TurnNeverPast == Spec => []NeverPast
BY SequencerSafe, PTL

-----------------------------------------------------------------------------
\* One of the next d completions wakes the channel of t's turn.
CoveredBy(t, d) ==
  \E j \in 1..d : FutexChannel(current + j) = FutexChannel(turnOf[t])

WakePending(t) ==
  \E u \in Threads : pc[u] = "wake" /\ FutexChannel(turnOf[u] + 1) = FutexChannel(turnOf[t])

\* The copy a thread goes to sleep by was taken at a turn c so recent that the
\* turn field cannot have come round to it again.
SeenThisLap ==
  \A t \in Threads : pc[t] \in {"cas", "futex"} =>
    \E c \in Nat : /\ c <= current /\ c < turnOf[t] /\ turnOf[t] < c + Window
                   /\ seen[t].turn = c % TurnModulus

\* About to sleep on the current turn's word: already recorded in its delta.
RecordedBeforeSleep ==
  \A t \in Threads : pc[t] = "futex" /\ seen[t].turn = state.turn => CoveredBy(t, state.delta)

WInv == IInv /\ SeenThisLap /\ RecordedBeforeSleep /\ NoLostWakeup

\* Recording a turn to come covers its channel, also when the delta saturates.
LEMMA RecordedCovers ==
  ASSUME IInv, NEW t \in Threads, pc[t] \in Waiting, current < turnOf[t]
  PROVE  CoveredBy(t, Recorded(turnOf[t], state).delta)
<1> DEFINE w == Recorded(turnOf[t], state)
<1>1. /\ Ahead(turnOf[t], state) = turnOf[t] - current
      /\ Ahead(turnOf[t], state) \in Nat
      /\ turnOf[t] \in Nat /\ current \in Nat
  BY AheadIsDistance, TurnSequncerAssumption DEF IInv, TypeOK, InWindow, Turns, Holding
<1>2. w \in Words
  BY RecordedWord DEF IInv, TypeOK
<1>3. Ahead(turnOf[t], state) <= w.delta \/ w.delta = WaitersMask
  BY <1>1 DEF Recorded, Encode
<1>4. CASE Ahead(turnOf[t], state) <= w.delta
  <2>1. turnOf[t] - current \in 1..w.delta /\ current + (turnOf[t] - current) = turnOf[t]
    BY <1>1, <1>2, <1>4, TurnSequncerAssumption DEF Words
  <2>2. QED
    BY <2>1 DEF CoveredBy
<1>5. CASE w.delta = WaitersMask
  <2>1. Channels \in Nat \ {0} /\ Channels <= WaitersMask /\ WaitersMask \in Nat
    BY TurnSequncerAssumption
  <2>2. PICK j \in 1..Channels : (current + j) % Channels = turnOf[t] % Channels
    BY <1>1, <2>1, EveryChannel
  <2>3. j \in 1..w.delta
    BY <1>5, <2>1
  <2>4. QED
    BY <2>2, <2>3 DEF CoveredBy, FutexChannel
<1>6. QED
  BY <1>3, <1>4, <1>5

\* The turn field shows a thread's copy again only while the turn is the same.
LEMMA SameLap ==
  ASSUME NEW c \in Nat, NEW d \in Nat, NEW n \in Nat, c <= d, d <= n, n < c + Window,
         c % TurnModulus = d % TurnModulus
  PROVE  c = d
<1>1. TurnModulus \in Nat \ {0} /\ d < c + TurnModulus /\ d <= d /\ d < d + TurnModulus
  BY TurnSequncerAssumption
<1>2. (d - (c % TurnModulus)) % TurnModulus = d - c
  BY <1>1, WrappedDistance
<1>3. (d - (d % TurnModulus)) % TurnModulus = d - d
  BY <1>1, WrappedDistance
<1>4. QED
  BY <1>2, <1>3

\* What a change of one thread's place keeps: coverage depends on the turns.
LEMMA CoverageKept ==
  ASSUME NEW t \in Threads, NEW d \in Int, NEW e \in Int, d <= e, CoveredBy(t, d),
         turnOf'[t] = turnOf[t], current' = current
  PROVE  CoveredBy(t, e)'
BY DEF CoveredBy

\* Steps that leave the word and the sleepers' turns alone.
LEMMA ArriveWInv ==
  ASSUME WInv, NEW t \in Threads, NEW n \in Turns, Arrive(t, n)
  PROVE  (SeenThisLap /\ RecordedBeforeSleep /\ NoLostWakeup)'
<1> USE DEF Arrive, WInv, IInv, TypeOK
<1>1. \A u \in Threads : pc'[u] # "wait" => u # t /\ pc'[u] = pc[u] /\ turnOf'[u] = turnOf[u]
  OBVIOUS
<1>2. SeenThisLap'
  BY <1>1 DEF SeenThisLap
<1>3. RecordedBeforeSleep'
  BY <1>1 DEF RecordedBeforeSleep, CoveredBy
<1>4. NoLostWakeup'
  BY <1>1 DEF NoLostWakeup
<1>5. QED
  BY <1>2, <1>3, <1>4

\* Looking: who goes to sleep by this word is recorded in it.
LEMMA LookWInv ==
  ASSUME WInv, NEW t \in Threads, Look(t)
  PROVE  (SeenThisLap /\ RecordedBeforeSleep /\ NoLostWakeup)'
<1> USE DEF WInv
<1>1. /\ pc[t] = "wait" /\ pc[t] \in Waiting
      /\ state \in Words /\ turnOf[t] \in Int /\ current \in Nat
      /\ pc \in [Threads -> {"idle", "wake", "past"} \cup Waiting \cup Holding]
      /\ seen \in [Threads -> Words]
  BY DEF Look, IInv, TypeOK, Waiting
<1>2. /\ Ahead(turnOf[t], state) = turnOf[t] - current
      /\ turnOf[t] - current \in 0..(Window - 1)
      /\ Window \in Nat
  BY <1>1, AheadIsDistance, TurnSequncerAssumption
<1>3. pc'[t] \in {"cas", "futex"} => current < turnOf[t] /\ turnOf[t] < current + Window
  BY <1>1, <1>2 DEF Look
<1>4. pc'[t] = "futex" => Recorded(turnOf[t], state) = state
  BY <1>1 DEF Look
<1>5. \A u \in Threads : u # t => pc'[u] = pc[u] /\ seen'[u] = seen[u]
  BY <1>1 DEF Look
<1>6. seen'[t] = state /\ pc'[t] # "asleep" /\ UNCHANGED <<state, turnOf, owner, current>>
  BY <1>1 DEF Look
<1>7. SeenThisLap'
  BY <1>1, <1>3, <1>5, <1>6 DEF SeenThisLap, IInv, WordShowsTurn
<1>8. RecordedBeforeSleep'
  <2>1. pc'[t] = "futex" => CoveredBy(t, state.delta)
    BY <1>1, <1>3, <1>4, RecordedCovers
  <2>2. QED
    BY <1>5, <1>6, <2>1 DEF RecordedBeforeSleep, CoveredBy
<1>9. NoLostWakeup'
  <2>1. \A u \in Threads : pc[u] = "wake" => pc'[u] = "wake"
    BY <1>1, <1>5
  <2>2. \A u \in Threads : pc'[u] = "asleep" => pc[u] = "asleep"
    BY <1>5, <1>6
  <2>3. QED
    BY <1>6, <2>1, <2>2 DEF NoLostWakeup
<1>10. QED
  BY <1>7, <1>8, <1>9

\* Recording a waiter: the delta grows, so everybody covered stays covered.
LEMMA RecordWaiterWInv ==
  ASSUME WInv, NEW t \in Threads, RecordWaiter(t)
  PROVE  (SeenThisLap /\ RecordedBeforeSleep /\ NoLostWakeup)'
<1> USE DEF WInv
<1>1. /\ pc[t] = "cas" /\ pc[t] \in Waiting
      /\ state \in Words /\ seen[t] \in Words /\ turnOf[t] \in Int /\ current \in Nat
      /\ pc \in [Threads -> {"idle", "wake", "past"} \cup Waiting \cup Holding]
      /\ seen \in [Threads -> Words]
  BY DEF RecordWaiter, IInv, TypeOK, Waiting
<1>2. \A u \in Threads : u # t => pc'[u] = pc[u] /\ seen'[u] = seen[u]
  BY <1>1 DEF RecordWaiter
<1>3. UNCHANGED <<turnOf, owner, current>> /\ pc'[t] \in {"futex", "wait"}
  BY <1>1 DEF RecordWaiter
<1>4. CASE state # seen[t]
  <2>1. UNCHANGED <<state, seen>> /\ pc'[t] = "wait"
    BY <1>1, <1>4 DEF RecordWaiter
  <2>2. QED
    BY <1>1, <1>2, <1>3, <2>1
    DEF SeenThisLap, RecordedBeforeSleep, NoLostWakeup, CoveredBy
<1>5. CASE state = seen[t]
  <2>1. state' = Recorded(turnOf[t], state) /\ seen'[t] = state' /\ pc'[t] = "futex"
    BY <1>1, <1>5 DEF RecordWaiter
  <2>2. state' \in Words /\ state'.turn = state.turn /\ state'.delta >= state.delta
    BY <1>1, <2>1, RecordedWord
  <2>3. state.delta \in Int /\ state'.delta \in Int
    BY <1>1, <2>2, TurnSequncerAssumption DEF Words
  <2>4. PICK c \in Nat : /\ c <= current /\ c < turnOf[t] /\ turnOf[t] < c + Window
                        /\ seen[t].turn = c % TurnModulus
    BY <1>1 DEF SeenThisLap
  <2>5. SeenThisLap'
    BY <1>1, <1>2, <1>3, <1>5, <2>1, <2>2, <2>4 DEF SeenThisLap
  <2>6. current < turnOf[t]
    <3>1. current <= turnOf[t] /\ turnOf[t] \in Nat /\ c % TurnModulus = current % TurnModulus
      BY <1>1, <1>5, <2>4, TurnSequncerAssumption DEF IInv, InWindow, Turns, WordShowsTurn
    <3>2. c = current
      BY <1>1, <2>4, <3>1, SameLap
    <3>3. QED
      BY <2>4, <3>2
  <2>7. CoveredBy(t, state'.delta)
    BY <1>1, <2>1, <2>6, RecordedCovers
  <2>8. \A u \in Threads : CoveredBy(u, state.delta) => CoveredBy(u, state'.delta)
    BY <2>2, <2>3 DEF CoveredBy
  <2>9. RecordedBeforeSleep'
    BY <1>2, <1>3, <2>2, <2>7, <2>8 DEF RecordedBeforeSleep, CoveredBy
  <2>10. NoLostWakeup'
    <3>1. \A u \in Threads : pc'[u] = "asleep" => pc[u] = "asleep"
      BY <1>2, <2>1
    <3>2. \A u \in Threads : pc[u] = "wake" => pc'[u] = "wake"
      BY <1>1, <1>2
    <3>3. QED
      BY <1>3, <2>8, <3>1, <3>2 DEF NoLostWakeup, CoveredBy
  <2>11. QED
    BY <2>5, <2>9, <2>10
<1>6. QED
  BY <1>4, <1>5

\* Falling asleep: the kernel's comparison makes the recorded delta the word's.
LEMMA WaitLoadWInv ==
  ASSUME WInv, NEW t \in Threads, FutexWait(t) \/ Interrupt(t) \/ CompleteLoad(t)
  PROVE  (SeenThisLap /\ RecordedBeforeSleep /\ NoLostWakeup)'
<1> USE DEF WInv, FutexWait, Interrupt, CompleteLoad
<1>1. /\ pc \in [Threads -> {"idle", "wake", "past"} \cup Waiting \cup Holding]
      /\ seen \in [Threads -> Words]
      /\ UNCHANGED <<state, turnOf, owner, current>>
  BY DEF IInv, TypeOK
<1>2. \A u \in Threads : u # t => pc'[u] = pc[u] /\ seen'[u] = seen[u]
  BY <1>1
<1>3. /\ pc[t] # "wake" /\ pc'[t] \notin {"cas", "futex"}
      /\ pc'[t] = "asleep" => pc[t] = "futex" /\ seen[t] = state
  BY <1>1
<1>4. SeenThisLap'
  BY <1>1, <1>2, <1>3 DEF SeenThisLap
<1>5. RecordedBeforeSleep'
  BY <1>1, <1>2, <1>3 DEF RecordedBeforeSleep, CoveredBy
<1>6. NoLostWakeup'
  BY <1>1, <1>2, <1>3 DEF NoLostWakeup, RecordedBeforeSleep, CoveredBy
<1>7. QED
  BY <1>4, <1>5, <1>6

\* Serving the next turn: its channel is about to be woken, the others stay
\* within the smaller delta, and nobody sleeps by the old word any more.
LEMMA CompleteTurnWInv ==
  ASSUME WInv, NEW t \in Threads, CompleteTurn(t)
  PROVE  (SeenThisLap /\ RecordedBeforeSleep /\ NoLostWakeup)'
<1> USE DEF WInv
<1>1. /\ pc[t] = "complete" /\ turnOf[t] = current /\ current \in Nat
      /\ state \in Words /\ UNCHANGED <<turnOf, owner>>
      /\ pc \in [Threads -> {"idle", "wake", "past"} \cup Waiting \cup Holding]
      /\ seen \in [Threads -> Words]
  BY CompleteTurnCases DEF CompleteTurn, IInv, TypeOK
<1>2. CASE /\ state' = Encode(current + 1, IF state.delta = 0 THEN 0 ELSE state.delta - 1)
           /\ current' = current + 1
           /\ pc' = [pc EXCEPT ![t] = IF state.delta = 0 THEN "idle" ELSE "wake"]
           /\ UNCHANGED seen
  <2>1. /\ \A u \in Threads : u # t => pc'[u] = pc[u]
        /\ pc'[t] = IF state.delta = 0 THEN "idle" ELSE "wake"
    BY <1>1, <1>2
  <2>2. /\ state.delta \in 0..WaitersMask
        /\ state'.delta = IF state.delta = 0 THEN 0 ELSE state.delta - 1
        /\ state'.turn = (current + 1) % TurnModulus
    BY <1>1, <1>2, TurnSequncerAssumption DEF Words, Encode
  <2>3. \A u \in Threads : pc[u] \in Waiting /\ u # t => turnOf[u] > current /\ turnOf[u] \in Nat
    BY <1>1, Alone, TurnSequncerAssumption DEF IInv, InWindow, Turns, Holding
  <2>4. SeenThisLap'
    BY <1>1, <1>2, <2>1 DEF SeenThisLap
  <2>5. RecordedBeforeSleep'
    <3> SUFFICES ASSUME NEW u \in Threads, pc'[u] = "futex", seen'[u].turn = state'.turn
                 PROVE  FALSE
      BY DEF RecordedBeforeSleep
    <3>1. u # t /\ pc[u] = "futex" /\ seen[u].turn = (current + 1) % TurnModulus
      BY <1>2, <2>1, <2>2
    <3>2. turnOf[u] > current /\ turnOf[u] \in Nat
      BY <2>3, <3>1 DEF Waiting
    <3>3. PICK c \in Nat : /\ c <= current /\ turnOf[u] < c + Window
                          /\ seen[u].turn = c % TurnModulus
      BY <3>1 DEF SeenThisLap
    <3>4. c <= current + 1 /\ current + 1 <= turnOf[u] /\ current + 1 \in Nat
      BY <1>1, <3>2, <3>3
    <3>5. c = current + 1
      BY <3>1, <3>2, <3>3, <3>4, SameLap
    <3>6. QED
      BY <1>1, <3>3, <3>5
  <2>6. NoLostWakeup'
    <3> SUFFICES ASSUME NEW u \in Threads, pc'[u] = "asleep"
                 PROVE  WakePending(u)' \/ CoveredBy(u, state.delta)'
      BY <2>2 DEF NoLostWakeup, CoveredBy, WakePending
    <3>1. u # t /\ pc[u] = "asleep"
      BY <2>1
    <3>2. CASE WakePending(u)
      BY <1>1, <2>1, <3>2 DEF WakePending
    <3>3. ASSUME NEW j \in 1..state.delta, FutexChannel(current + j) = FutexChannel(turnOf[u])
          PROVE  WakePending(u)' \/ CoveredBy(u, state.delta)'
      <4>1. CASE j = 1
        BY <1>1, <2>1, <2>2, <3>3, <4>1 DEF WakePending
      <4>2. CASE j # 1
        <5>1. j - 1 \in 1..state'.delta /\ current' + (j - 1) = current + j
          BY <1>1, <1>2, <2>2, <4>2
        <5>2. QED
          BY <1>1, <3>3, <5>1 DEF CoveredBy
      <4>3. QED
        BY <4>1, <4>2
    <3>4. QED
      BY <3>1, <3>2, <3>3 DEF NoLostWakeup, WakePending
  <2>7. QED
    BY <2>4, <2>5, <2>6
<1>3. CASE seen' = [seen EXCEPT ![t] = state] /\ UNCHANGED <<state, pc, current>>
  BY <1>1, <1>3 DEF SeenThisLap, RecordedBeforeSleep, NoLostWakeup, CoveredBy
<1>4. QED
  BY <1>2, <1>3, CompleteTurnCases

\* Waking a channel: who sleeps on was not waiting for this wake-up.
LEMMA FutexWakeWInv ==
  ASSUME WInv, NEW t \in Threads, FutexWake(t)
  PROVE  (SeenThisLap /\ RecordedBeforeSleep /\ NoLostWakeup)'
<1> USE DEF WInv
<1>1. UNCHANGED <<state, turnOf, seen, owner, current>>
  BY DEF FutexWake
<1>2. \A u \in Threads : pc'[u] \in {"cas", "futex", "asleep"} => pc'[u] = pc[u]
  BY DEF FutexWake
<1>3. \A u \in Threads : u # t /\ pc[u] = "wake" => pc'[u] = "wake"
  BY DEF FutexWake
<1>4. \A u \in Threads : pc'[u] = "asleep" =>
        FutexChannel(turnOf[u]) # FutexChannel(turnOf[t] + 1)
  BY DEF FutexWake
<1>5. SeenThisLap'
  BY <1>1, <1>2 DEF SeenThisLap
<1>6. RecordedBeforeSleep'
  BY <1>1, <1>2 DEF RecordedBeforeSleep, CoveredBy
<1>7. NoLostWakeup'
  BY <1>1, <1>2, <1>3, <1>4 DEF NoLostWakeup
<1>8. QED
  BY <1>5, <1>6, <1>7

\* No sleeper is ever forgotten, for any number of threads and any Window up to
\* half the turn field: the delta saturates and the field wraps without harm.
THEOREM NoSleeperForgotten == Spec => []NoLostWakeup
<1>1. Init => WInv
  BY InitIInv DEF Init, WInv, SeenThisLap, RecordedBeforeSleep, NoLostWakeup
<1>2. WInv /\ [Next]_vars => WInv'
  <2> SUFFICES ASSUME WInv, [Next]_vars PROVE WInv'
    OBVIOUS
  <2>1. IInv'
    BY NextIInv DEF WInv
  <2>2. CASE UNCHANGED vars
    BY <2>1, <2>2 DEF vars, WInv, SeenThisLap, RecordedBeforeSleep, NoLostWakeup, CoveredBy
  <2>3. ASSUME NEW t \in Threads, Step(t) \/ Interrupt(t)
        PROVE  (SeenThisLap /\ RecordedBeforeSleep /\ NoLostWakeup)'
    BY <2>3, ArriveWInv, LookWInv, RecordWaiterWInv, WaitLoadWInv, CompleteTurnWInv,
       FutexWakeWInv DEF Step
  <2>4. QED
    BY <2>1, <2>2, <2>3 DEF Next, Done, WInv
<1>3. WInv => NoLostWakeup
  BY DEF WInv
<1>4. QED
  BY <1>1, <1>2, <1>3, PTL DEF Spec

-----------------------------------------------------------------------------
\* Every step of the sequencer is a step of TurnOrder, or none.
LEMMA StepRefines ==
  ASSUME IInv, IInv', [Next]_vars
  PROVE  [Order!Next]_(Order!vars)
<1> USE DEF Waiting, Holding, Order!vars
<1>0. pc \in [Threads -> {"idle", "wake", "past"} \cup Waiting \cup Holding]
  BY DEF IInv, TypeOK
<1>1. CASE UNCHANGED vars \/ Done
  BY <1>1 DEF vars, Done, phase
<1>2. ASSUME NEW t \in Threads, NEW n \in Turns, Arrive(t, n)
      PROVE  Order!Arrive(t, n)
  <2>1. phase[t] = "idle" /\ phase' = [phase EXCEPT ![t] = "waiting"]
    BY <1>0, <1>2 DEF Arrive, phase
  <2>2. current <= n
    BY <1>2, TurnSequncerAssumption DEF Arrive, IInv, TypeOK, Over, Turns
  <2>3. \A u \in Threads : turnOf[u] # n
    BY <1>2, TurnSequncerAssumption DEF Arrive, IInv, TypeOK, Owned, Turns
  <2>4. n >= current
    BY <2>2, TurnSequncerAssumption DEF IInv, TypeOK, Turns
  <2>5. QED
    BY <1>2, <2>1, <2>3, <2>4 DEF Arrive, Order!Arrive
<1>3. ASSUME NEW t \in Threads, Look(t)
      PROVE  Order!Grant(t) \/ UNCHANGED Order!vars
  <2>1. pc[t] = "wait" /\ pc'[t] \in {"hold", "futex", "cas"}
    BY <1>0, <1>3 DEF Look, IInv, NeverPast
  <2>2. \A u \in Threads : u # t => pc'[u] = pc[u]
    BY <1>0, <1>3 DEF Look
  <2>3. UNCHANGED <<turnOf, current>>
    BY <1>3 DEF Look
  <2>4. CASE pc'[t] = "hold"
    <3>1. turnOf[t] = current
      BY <2>3, <2>4 DEF IInv, Served
    <3>2. \A u \in Threads : phase[u] # "holding"
      <4>1. \A u \in Threads : pc[u] \in Holding => u = t
        BY <2>1, <3>1, Alone DEF IInv, Served
      <4>2. QED
        BY <2>1, <4>1 DEF phase
    <3>3. phase[t] = "waiting" /\ phase' = [phase EXCEPT ![t] = "holding"]
      BY <2>1, <2>2, <2>4 DEF phase
    <3>4. QED
      BY <2>3, <3>1, <3>2, <3>3 DEF Order!Grant
  <2>5. CASE pc'[t] \in {"futex", "cas"}
    BY <2>1, <2>2, <2>3, <2>5 DEF phase
  <2>6. QED
    BY <2>1, <2>4, <2>5
<1>4. ASSUME NEW t \in Threads,
             RecordWaiter(t) \/ FutexWait(t) \/ Interrupt(t) \/ CompleteLoad(t) \/ FutexWake(t)
      PROVE  UNCHANGED Order!vars
  <2>1. UNCHANGED <<turnOf, current>>
    BY <1>4 DEF RecordWaiter, FutexWait, Interrupt, CompleteLoad, FutexWake
  <2>2. \A u \in Threads : \/ pc'[u] = pc[u]
                           \/ pc[u] \in Waiting /\ pc'[u] \in Waiting
                           \/ pc[u] \in Holding /\ pc'[u] \in Holding
                           \/ pc[u] = "wake" /\ pc'[u] = "idle"
    BY <1>0, <1>4 DEF RecordWaiter, FutexWait, Interrupt, CompleteLoad, FutexWake
  <2>3. phase' = phase
    BY <2>2 DEF phase
  <2>4. QED
    BY <2>1, <2>3
<1>5. ASSUME NEW t \in Threads, CompleteTurn(t)
      PROVE  Order!Finish(t) \/ UNCHANGED Order!vars
  <2>1. pc[t] = "complete"
    BY <1>5 DEF CompleteTurn
  <2>2. CASE /\ current' = current + 1
             /\ pc' = [pc EXCEPT ![t] = IF state.delta = 0 THEN "idle" ELSE "wake"]
    <3>1. phase[t] = "holding" /\ phase' = [phase EXCEPT ![t] = "idle"]
      BY <1>0, <2>1, <2>2 DEF phase
    <3>2. QED
      BY <1>5, <2>2, <3>1, CompleteTurnCases DEF Order!Finish
  <2>3. CASE UNCHANGED <<pc, current>>
    BY <1>5, <2>3, CompleteTurnCases DEF phase
  <2>4. QED
    BY <1>5, <2>2, <2>3, CompleteTurnCases
<1>6. ASSUME NEW t \in Threads, Step(t) \/ Interrupt(t)
      PROVE  [Order!Next]_(Order!vars)
  <2>1. CASE \E n \in Turns : Arrive(t, n)
    BY <1>2, <2>1 DEF Order!Next, Order!Turns, Turns
  <2>2. CASE Look(t)
    BY <1>3, <2>2 DEF Order!Next
  <2>3. CASE CompleteTurn(t)
    BY <1>5, <2>3 DEF Order!Next
  <2>4. CASE RecordWaiter(t) \/ FutexWait(t) \/ Interrupt(t) \/ CompleteLoad(t) \/ FutexWake(t)
    BY <1>4, <2>4
  <2>5. QED
    BY <1>6, <2>1, <2>2, <2>3, <2>4 DEF Step
<1>7. QED
  BY <1>1, <1>6 DEF Next

\* The sequencer implements the abstract order of turns, with the loop, the
\* word, the wrap and the futex hidden.
THEOREM RefinesTurnOrder == Spec => ImplementsTurnOrder
<1>1. Init => Order!Init
  BY DEF Init, Order!Init, phase, Waiting, Holding
<1>2. IInv /\ IInv' /\ [Next]_vars => [Order!Next]_(Order!vars)
  BY StepRefines
<1>3. QED
  BY InitIInv, NextIInv, <1>1, <1>2, PTL DEF Spec, ImplementsTurnOrder, Order!Spec

-----------------------------------------------------------------------------
\* The slot: SingleElementQueue.

\* Somebody is between its work on the element and the end of its turn.
Worked == \E t \in Threads : pc[t] = "complete"

\* The storage follows the turns: an element is in it from the moment the even
\* turn has constructed it to the moment the odd turn after it has taken it.
Stored ==
  contents = IF EnqueueTurn(current) THEN (IF Worked THEN {current} ELSE {})
                                     ELSE (IF Worked THEN {} ELSE {current - 1})

SlotInv == IInv /\ Stored

\* uncompleteTurnLSB: shifted left, the bit it looks at is always 0.
LEMMA LSBIsZero == IInv => UncompleteTurnLSB = 0
<1> SUFFICES ASSUME IInv PROVE UncompleteTurnLSB = 0
  OBVIOUS
<1> DEFINE a == state.turn * (WaitersMask + 1) + state.delta
           k == (WaitersMask + 1) \div 2
<1>1. /\ state.turn \in Nat /\ state.delta \in Nat /\ WaitersMask \in Nat
  BY TurnSequncerAssumption DEF IInv, TypeOK, Words
<1>2. a \in Nat /\ k \in Nat /\ WaitersMask + 1 = 2 * k
  BY <1>1, SlotAssumption
<1> HIDE DEF a, k
<1>3. a * k \in Nat /\ a * (2 * k) = 2 * (a * k)
  BY <1>2
<1> DEFINE y == a * k
<1>4. UncompleteTurnLSB = ((2 * y) % 256) % 2
  BY <1>2, <1>3 DEF UncompleteTurnLSB, a
<1>5. y \in Nat
  BY <1>3
<1> HIDE DEF y
<1>6. QED
  BY <1>4, <1>5

\* A new slot is empty.
LEMMA InitSlotInv == SlotInit => SlotInv
<1> SUFFICES ASSUME SlotInit PROVE SlotInv
  OBVIOUS
<1>1. IInv
  BY InitIInv DEF SlotInit
<1>2. ~Worked /\ EnqueueTurn(current) /\ contents = {}
  BY SlotAssumption DEF SlotInit, Init, Worked, EnqueueTurn
<1>3. QED
  BY <1>1, <1>2 DEF SlotInv, Stored

\* The slot's steps are the sequencer's.
LEMMA SlotStepIsStep == [SlotNext]_slotVars => [Next]_vars
BY DEF SlotNext, slotVars, SlotStep, Signal, InSequencer, Enqueue, Dequeue, Destroy, Next, Step

\* The holder's turn is the current one, and nobody else is at work.
LEMMA HolderIsAlone ==
  ASSUME IInv, NEW t \in Threads, pc[t] \in Holding
  PROVE  /\ turnOf[t] = current /\ current \in Nat
         /\ \A u \in Threads : pc[u] \in Holding => u = t
BY IInvHolder DEF IInv, TypeOK, Served, HolderHasTurn

\* Waiting, sleeping, waking: neither the turn nor the work changes.
LEMMA WaitingKeepsStored ==
  ASSUME SlotInv, NEW t \in Threads, UNCHANGED contents,
         \/ \E n \in Turns : Arrive(t, n)
         \/ Look(t) \/ RecordWaiter(t) \/ FutexWait(t) \/ FutexWake(t) \/ Interrupt(t)
  PROVE  Stored'
<1> pc \in [Threads -> {"idle", "wake", "past"} \cup Waiting \cup Holding]
  BY DEF SlotInv, IInv, TypeOK
<1>1. UNCHANGED current
  BY DEF Arrive, Look, RecordWaiter, FutexWait, FutexWake, Interrupt
<1>2. \A u \in Threads : pc'[u] = "complete" <=> pc[u] = "complete"
  <2>1. CASE FutexWake(t)
    BY <2>1 DEF FutexWake
  <2>2. CASE \E n \in Turns : Arrive(t, n)
    BY <2>2 DEF Arrive
  <2>3. CASE Look(t) \/ RecordWaiter(t) \/ FutexWait(t) \/ Interrupt(t)
    BY <2>3 DEF Look, RecordWaiter, FutexWait, Interrupt
  <2>4. QED
    BY <2>1, <2>2, <2>3
<1>3. Worked' <=> Worked
  BY <1>2 DEF Worked
<1>4. QED
  BY <1>1, <1>3 DEF SlotInv, Stored, EnqueueTurn

\* The work on the element: it is constructed where there is none, or it is the
\* one taken.
LEMMA WorkKeepsStored ==
  ASSUME SlotInv, NEW t \in Threads, Enqueue(t) \/ Dequeue(t)
  PROVE  Stored'
<1>1. pc[t] = "hold" /\ pc' = [pc EXCEPT ![t] = "complete"] /\ UNCHANGED current
  BY DEF Enqueue, Dequeue, CompleteLoad
<1>2. turnOf[t] = current /\ \A u \in Threads : pc[u] \in Holding => u = t
  BY <1>1, HolderIsAlone DEF SlotInv, Holding
<1>3. ~Worked
  BY <1>1, <1>2 DEF Worked, Holding
<1>4. Worked'
  BY <1>1 DEF SlotInv, IInv, TypeOK, Worked
<1>5. CASE Enqueue(t)
  BY <1>1, <1>2, <1>3, <1>4, <1>5 DEF Enqueue, SlotInv, Stored, EnqueueTurn
<1>6. CASE Dequeue(t)
  BY <1>1, <1>2, <1>3, <1>4, <1>6 DEF Dequeue, SlotInv, Stored, EnqueueTurn
<1>7. QED
  BY <1>5, <1>6

\* The end of a turn: what has been constructed is the element of the turn before.
LEMMA CompleteTurnKeepsStored ==
  ASSUME SlotInv, NEW t \in Threads, CompleteTurn(t), UNCHANGED contents
  PROVE  Stored'
<1>1. pc[t] = "complete"
  BY DEF CompleteTurn
<1>2. current \in Nat /\ \A u \in Threads : pc[u] \in Holding => u = t
  BY <1>1, HolderIsAlone DEF SlotInv, Holding
<1>3. Worked
  BY <1>1 DEF Worked
<1>4. CASE current' = current + 1
           /\ pc' = [pc EXCEPT ![t] = IF state.delta = 0 THEN "idle" ELSE "wake"]
  <2>1. ~Worked'
    BY <1>2, <1>4 DEF Worked, Holding, SlotInv, IInv, TypeOK
  <2>2. EnqueueTurn(current + 1) <=> ~EnqueueTurn(current)
    BY <1>2 DEF EnqueueTurn
  <2>3. QED
    BY <1>2, <1>3, <1>4, <2>1, <2>2 DEF SlotInv, Stored, EnqueueTurn
<1>5. CASE UNCHANGED <<pc, current>>
  BY <1>5 DEF SlotInv, Stored, Worked, EnqueueTurn
<1>6. QED
  BY <1>4, <1>5, CompleteTurnCases DEF SlotInv

\* Every step of the slot preserves the invariant, its destruction included.
LEMMA NextSlotInv == SlotInv /\ [SlotNext]_slotVars => SlotInv'
<1> SUFFICES ASSUME SlotInv, [SlotNext]_slotVars PROVE SlotInv'
  OBVIOUS
<1>1. IInv'
  BY SlotStepIsStep, NextIInv DEF SlotInv
<1>2. ASSUME UNCHANGED slotVars PROVE Stored'
  BY <1>2 DEF slotVars, vars, SlotInv, Stored, Worked, EnqueueTurn
<1>3. ASSUME Destroy PROVE Stored'
  <2>1. UNCHANGED <<contents, vars>>
    BY <1>3, LSBIsZero DEF Destroy, SlotInv
  <2>2. QED
    BY <2>1 DEF vars, SlotInv, Stored, Worked, EnqueueTurn
<1>4. ASSUME NEW t \in Threads, SlotStep(t) \/ Signal(t) PROVE Stored'
  BY <1>4, WaitingKeepsStored, WorkKeepsStored, CompleteTurnKeepsStored
     DEF SlotStep, Signal, InSequencer
<1>5. Stored'
  BY <1>2, <1>3, <1>4 DEF SlotNext, SlotInv
<1>6. QED
  BY <1>1, <1>5 DEF SlotInv

\* A dequeue takes the element of the turn before its own, and an enqueue never
\* constructs over an element, with any number of producers and consumers.
THEOREM SlotHandsOff == SlotSpec => []HandOff
<1>1. SlotInv => HandOff
  <2> SUFFICES ASSUME SlotInv, NEW t \in Threads, pc[t] = "hold"
               PROVE  contents = IF EnqueueTurn(turnOf[t]) THEN {} ELSE {turnOf[t] - 1}
    BY DEF HandOff
  <2>1. turnOf[t] = current /\ \A u \in Threads : pc[u] \in Holding => u = t
    BY HolderIsAlone DEF SlotInv, Holding
  <2>2. ~Worked
    BY <2>1 DEF Worked, Holding
  <2>3. QED
    BY <2>1, <2>2 DEF SlotInv, Stored
<1>2. QED
  BY InitSlotInv, NextSlotInv, <1>1, PTL DEF SlotSpec

\* What the destructor means to decide by: with nobody inside, there is an element
\* in contents_ exactly when the turn is odd.
OddTurnMeansElement ==
  (\A t \in Threads : pc[t] = "idle") => (state.turn % 2 = 1 <=> contents # {})

\* The parity of the turn in the word says whether there is an element to destroy,
\* however often the turn field has wrapped.  It says so after the destructor too,
\* which as it is written destroys none (TurnSequncer.h:118).
THEOREM ParityTells == SlotSpec => []OddTurnMeansElement
<1>1. SlotInv => OddTurnMeansElement
  <2> SUFFICES ASSUME SlotInv, \A t \in Threads : pc[t] = "idle"
               PROVE  state.turn % 2 = 1 <=> contents # {}
    BY DEF OddTurnMeansElement
  <2>1. current \in Nat /\ state.turn = current % TurnModulus
    BY DEF SlotInv, IInv, TypeOK, WordShowsTurn
  <2>2. TurnModulus \in Nat \ {0} /\ TurnModulus % 2 = 0
    BY TurnSequncerAssumption, SlotAssumption
  <2> DEFINE h == TurnModulus \div 2
             q == current \div TurnModulus
  <2>3. h \in Nat /\ TurnModulus = 2 * h
    BY <2>2
  <2>4. q \in Int /\ current = TurnModulus * q + state.turn /\ state.turn \in Nat
    BY <2>1, <2>2
  <2> HIDE DEF h, q
  <2>5. h * q \in Int /\ current = 2 * (h * q) + state.turn
    BY <2>3, <2>4
  <2> DEFINE p == h * q
  <2>6. p \in Int /\ current = 2 * p + state.turn
    BY <2>5
  <2> HIDE DEF p
  <2>7. state.turn % 2 = current % 2
    BY <2>1, <2>4, <2>6
  <2>8. ~Worked
    BY DEF Worked
  <2>9. QED
    BY <2>1, <2>7, <2>8 DEF SlotInv, Stored, EnqueueTurn
<1>2. QED
  BY InitSlotInv, NextSlotInv, <1>1, PTL DEF SlotSpec

-----------------------------------------------------------------------------
\* The spin cutoff.

Limits == kMinSpins..kMaxSpins

\* The cutoff, and what any wait remembers of it, is unset or within limits.
CutoffInv ==
  /\ SpinTypeOK
  /\ spinCutoff \in {0} \cup Limits
  /\ \A t \in Callers : prevThresh[t] \in {0} \cup Limits

\* A wait asks for a cutoff within the limits.
LEMMA TargetInLimits ==
  ASSUME NEW count \in Nat
  PROVE  Target(count) \in Limits
BY AdaptiveSpinAssumption DEF Target, Limits

\* An eighth of a distance, rounded towards zero, does not overshoot.
LEMMA EighthBounds ==
  ASSUME NEW n \in Int
  PROVE  /\ EighthOf(n) \in Int
         /\ n >= 0 => 0 <= EighthOf(n) /\ EighthOf(n) <= n
         /\ n < 0 => n <= EighthOf(n) /\ EighthOf(n) <= 0
BY DEF EighthOf

\* A move between two cutoffs within the limits stays between them: the wrapped
\* difference read as signed is the difference.
LEMMA MovedInLimits ==
  ASSUME NEW prev \in Limits, NEW target \in Limits
  PROVE  Moved(prev, target) \in Limits
<1> DEFINE n == target - prev
           r == prev + EighthOf(n)
<1>1. /\ Word \in Nat \ {0} /\ kMinSpins \in Nat /\ kMaxSpins \in Nat
      /\ 0 < kMinSpins /\ 2 * kMaxSpins < Word
      /\ prev \in Nat /\ target \in Nat /\ n \in Int
      /\ kMinSpins <= prev /\ prev <= kMaxSpins
      /\ kMinSpins <= target /\ target <= kMaxSpins
  BY AdaptiveSpinAssumption DEF Limits
<1>2. Signed(n % Word) = n
  <2>1. CASE n >= 0
    <3>1. n \in 0..(Word - 1) /\ 2 * n < Word
      BY <1>1, <2>1
    <3>2. n % Word = n
      BY <1>1, <3>1, ModSmall
    <3>3. QED
      BY <3>1, <3>2 DEF Signed
  <2>2. CASE n < 0
    <3>1. n \in (-Word)..(-1) /\ ~(2 * (n + Word) < Word)
      BY <1>1, <2>2
    <3>2. n % Word = n + Word
      BY <1>1, <3>1, ModNegative
    <3>3. QED
      BY <1>1, <3>1, <3>2 DEF Signed
  <2>3. QED
    BY <1>1, <2>1, <2>2
<1>3. r \in Limits
  <2>1. /\ EighthOf(n) \in Int
        /\ n >= 0 => 0 <= EighthOf(n) /\ EighthOf(n) <= n
        /\ n < 0 => n <= EighthOf(n) /\ EighthOf(n) <= 0
    BY <1>1, EighthBounds
  <2>2. QED
    BY <1>1, <2>1 DEF Limits
<1>4. r % Word = r
  <2>1. r \in 0..(Word - 1)
    BY <1>1, <1>3 DEF Limits
  <2>2. QED
    BY <1>1, <2>1, ModSmall
<1>5. QED
  BY <1>2, <1>3, <1>4 DEF Moved

\* The cutoff starts unset.
LEMMA InitCutoff == SpinInit => CutoffInv
  BY AdaptiveSpinAssumption DEF SpinInit, CutoffInv, SpinTypeOK, Limits

\* A step keeps the invariant, and a changed cutoff is within the limits.
LEMMA NextCutoff ==
  CutoffInv /\ [SpinNext]_spinVars =>
    CutoffInv' /\ (spinCutoff' # spinCutoff => spinCutoff' \in kMinSpins..kMaxSpins)
<1> SUFFICES ASSUME CutoffInv, [SpinNext]_spinVars
             PROVE  CutoffInv' /\ (spinCutoff' # spinCutoff => spinCutoff' \in Limits)
  BY DEF Limits
<1>0. Limits \subseteq 0..(Word - 1) /\ 0 \in 0..(Word - 1)
  BY AdaptiveSpinAssumption DEF Limits
<1>1. CASE UNCHANGED spinVars
  BY <1>1 DEF spinVars, CutoffInv, SpinTypeOK
<1>2. ASSUME NEW t \in Callers, NEW u \in BOOLEAN, Begin(t, u)
      PROVE  CutoffInv' /\ spinCutoff' = spinCutoff
  BY <1>2 DEF Begin, CutoffInv, SpinTypeOK
<1>3. ASSUME NEW t \in Callers, NEW count \in 0..MaxCount, Succeed(t, count)
      PROVE  CutoffInv' /\ (spinCutoff' # spinCutoff => spinCutoff' \in Limits)
  <2>1. count \in Nat /\ prevThresh[t] \in {0} \cup Limits
    BY AdaptiveSpinAssumption DEF CutoffInv
  <2>2. Target(count) \in Limits
    BY <2>1, TargetInLimits
  <2>3. prevThresh[t] # 0 => Moved(prevThresh[t], Target(count)) \in Limits
    BY <2>1, <2>2, MovedInLimits
  <2>4. spinCutoff' = spinCutoff \/ spinCutoff' \in Limits
    BY <1>3, <2>2, <2>3 DEF Succeed
  <2>5. QED
    BY <1>0, <1>3, <2>4 DEF Succeed, CutoffInv, SpinTypeOK
<1>4. QED
  BY <1>1, <1>2, <1>3 DEF SpinNext

\* Whatever the waits see and whenever they update, the shared cutoff keeps its
\* type, and once set it only changes to values within its limits.
THEOREM CutoffSafe == SpinSpec => []SpinTypeOK /\ CutoffStaysInRange
<1>1. CutoffInv => SpinTypeOK
  BY DEF CutoffInv
<1>2. CutoffInv /\ [SpinNext]_spinVars =>
        [spinCutoff' # spinCutoff => spinCutoff' \in kMinSpins..kMaxSpins]_spinVars
  BY NextCutoff
<1>3. CutoffInv /\ [SpinNext]_spinVars => CutoffInv'
  BY NextCutoff
<1>4. QED
  BY InitCutoff, <1>1, <1>2, <1>3, PTL DEF SpinSpec, CutoffStaysInRange
=============================================================================
