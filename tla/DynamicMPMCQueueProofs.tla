----------------------- MODULE DynamicMPMCQueueProofs -----------------------
(***************************************************************************)
(* The seqlock of the dynamic queue, where its tickets go, when it grows   *)
(* and what it delivers, for every number of threads, capacity and         *)
(* multiplier, and however often the queue is expanded.                    *)
(***************************************************************************)
EXTENDS DynamicMPMCQueue, TLAPS

Words == [offset : Nat, numClosed : Nat, locked : BOOLEAN]
ArrayRecords == [slots : Nat, cap : Nat \ {0}, offset : Nat]
Loaded == Nat \cup {NotYet}

Expanding == {"load counters", "store capacity", "unlock"}
Searching == {"look", "load pops"}
Comparing == {"load slots", "load capacity", "recheck", "lock"} \cup Searching
Located == Searching \cup Settled
Steps == {"idle", "load state"} \cup Comparing \cup Expanding \cup Settled

Typed ==
  /\ pushTicket \in Nat /\ popTicket \in Nat
  /\ dstate \in Words /\ dslots \in Nat /\ dcapacity \in Nat \ {0}
  /\ closed \in Seq(ArrayRecords)
  /\ pc \in [Threads -> Steps]
  /\ op \in [Threads -> {"push", "pop"}]
  /\ ticket \in [Threads -> Nat]
  /\ snap \in [Threads -> [state : Words, slots : Nat, cap : Nat \ {0}]]
  /\ use \in [Threads -> ArrayRecords]
  /\ loaded \in [Threads -> [pushes : Loaded, pops : Loaded]]

\* The seqlock's lock: one thread expands, and replaces what it saw.
Expander ==
  /\ \A t, u \in Threads : pc[t] \in Expanding /\ pc[u] \in Expanding => t = u
  /\ \A t \in Threads : pc[t] \in Expanding =>
       /\ dstate.locked
       /\ snap[t].state.offset = dstate.offset
       /\ snap[t].state.numClosed = dstate.numClosed
       /\ pc[t] = "load counters" => snap[t].cap = dcapacity /\ snap[t].slots = dslots

\* The seqlock's readers: if the word is still the one that was read, nothing was
\* replaced since.  The word never comes back, because numClosed grows.
Snapshots ==
  \A t \in Threads : pc[t] \in Comparing =>
    /\ ~snap[t].state.locked
    /\ snap[t].state.numClosed <= dstate.numClosed
    /\ snap[t].state = dstate /\ pc[t] # "load slots" => snap[t].slots = dslots
    /\ snap[t].state = dstate /\ pc[t] \notin {"load slots", "load capacity"} =>
         snap[t].cap = dcapacity

\* Who may expand: a push whose ticket is not in a closed array.
Pushing ==
  \A t \in Threads : pc[t] \in Searching \cup {"lock"} \cup Expanding =>
    op[t] = "push" /\ ticket[t] >= snap[t].state.offset

\* Tickets in use have been handed out.
Taken ==
  \A t \in Threads : pc[t] # "idle" =>
    ticket[t] < IF op[t] = "push" THEN pushTicket ELSE popTicket

\* What an expanding thread has loaded exceeds the ticket of every call that knows
\* its array: those calls rechecked the word before it was locked.
Counted ==
  \A t \in Threads :
    IF pc[t] \in Expanding
    THEN /\ loaded[t].pushes # NotYet =>
              /\ ticket[t] < loaded[t].pushes
              /\ \A u \in Threads : pc[u] \in Located /\ op[u] = "push" =>
                   ticket[u] < loaded[t].pushes
         /\ loaded[t].pops # NotYet =>
              \A u \in Threads : pc[u] \in Located /\ op[u] = "pop" =>
                ticket[u] < loaded[t].pops
         /\ pc[t] # "load counters" =>
              loaded[t].pushes # NotYet /\ loaded[t].pops # NotYet
    ELSE loaded[t].pushes = NotYet /\ loaded[t].pops = NotYet

\* The arrays are numbered and their offsets grow.
Numbered ==
  /\ dslots = Len(closed)
  /\ Len(closed) = dstate.numClosed + (IF Replacing THEN 1 ELSE 0)
  /\ \A i \in 1..Len(closed) :
       /\ closed[i].slots = i - 1
       /\ closed[i].offset <= dstate.offset
       /\ ~Replacing => closed[i].offset < dstate.offset
  /\ \A i, j \in 1..Len(closed) : i < j => closed[i].offset < closed[j].offset

\* The array a ticket belongs to: the last one that begins before it.
Serves(a, k) ==
  a.offset <= k /\ \A b \in ArraysKnown : b.offset <= k => b.offset <= a.offset

\* Every ticket has one, and a call that has looked it up goes on having it.
Served ==
  /\ \A k \in Nat : \E a \in ArraysKnown : Serves(a, k)
  /\ \A t \in Threads : pc[t] \in Located =>
       use[t] \in ArraysKnown /\ Serves(use[t], ticket[t])

IInv == /\ Typed /\ Expander /\ Snapshots /\ Pushing /\ Taken /\ Counted
        /\ Numbered /\ Served

-----------------------------------------------------------------------------
\* It holds at first.
LEMMA InitIInv == Init => IInv
<1> SUFFICES ASSUME Init PROVE IInv
  OBVIOUS
<1>1. Smaller(MinCapacity, Capacity) \in Nat \ {0}
  BY DynamicMPMCQueueAssumption DEF Smaller
<1>2. Typed
  <2>1. dstate \in Words /\ NotYet \in Loaded
    BY DEF Init, Word, Words, Loaded
  <2>2. closed \in Seq(ArrayRecords)
    BY DEF Init
  <2>3. snap \in [Threads -> [state : Words, slots : Nat, cap : Nat \ {0}]]
    BY <1>1, <2>1 DEF Init
  <2>4. use \in [Threads -> ArrayRecords]
    BY <1>1 DEF Init, Array, ArrayRecords
  <2>5. QED
    BY <1>1, <2>1, <2>2, <2>3, <2>4 DEF Init, Typed, Steps
<1>3. Expander /\ Snapshots /\ Pushing /\ Taken /\ Counted
  BY DEF Init, Expander, Snapshots, Pushing, Taken, Counted, Expanding, Comparing,
         Searching
<1>4. ~Replacing /\ Len(closed) = 0
  BY DEF Init, Replacing
<1>5. Numbered
  BY <1>4 DEF Init, Numbered, Word
<1>6. Served
  <2>1. ArraysKnown = {Array(0, dcapacity, 0)}
    BY <1>4 DEF Init, ArraysKnown, Word
  <2>2. Array(0, dcapacity, 0).offset = 0
    BY DEF Array
  <2>3. \A k \in Nat : Serves(Array(0, dcapacity, 0), k)
    BY <2>1, <2>2 DEF Serves
  <2>4. \A t \in Threads : pc[t] \notin Located
    BY DEF Init, Located, Searching, Settled, Inside
  <2>5. QED
    BY <2>1, <2>3, <2>4 DEF Served
<1>7. QED
  BY <1>2, <1>3, <1>5, <1>6 DEF IInv

-----------------------------------------------------------------------------
\* What the list of closed arrays holds.
LEMMA ClosedTyped ==
  ASSUME Typed
  PROVE  /\ Len(closed) \in Nat
         /\ \A i \in 1..Len(closed) : closed[i] \in ArrayRecords /\ closed[i].offset \in Nat
<1>1. Len(closed) \in Nat /\ \A i \in 1..Len(closed) : closed[i] \in ArrayRecords
  BY DEF Typed
<1>2. QED
  BY <1>1 DEF ArrayRecords

\* Nothing is said of the arrays that a step outside tryExpand could change.
LEMMA KnownSame ==
  ASSUME UNCHANGED <<dslots, dcapacity, closed>>, dstate'.offset = dstate.offset,
         Replacing' <=> Replacing
  PROVE  /\ ArraysKnown' = ArraysKnown
         /\ \A a, k : Serves(a, k)' <=> Serves(a, k)
<1>1. ArraysKnown' = ArraysKnown
  BY DEF ArraysKnown
<1>2. QED
  BY <1>1 DEF Serves

\* Who is not replacing the array goes on not replacing it.
LEMMA ReplacingSame ==
  ASSUME NEW t \in Threads, NEW q, pc \in [Threads -> Steps],
         pc' = [pc EXCEPT ![t] = q],
         pc[t] \notin {"store capacity", "unlock"}, q \notin {"store capacity", "unlock"}
  PROVE  Replacing' <=> Replacing
BY DEF Replacing

\* An array is known by its number and by its offset.
LEMMA SameArray ==
  ASSUME Typed, Numbered, NEW a \in ArraysKnown, NEW b \in ArraysKnown,
         a.slots = b.slots \/ a.offset = b.offset
  PROVE  a = b
<1> DEFINE Current == Array(dslots, dcapacity, dstate.offset)
<1>1. Current.slots = Len(closed) /\ Current.offset = dstate.offset
  BY DEF Array, Numbered
<1>2. Len(closed) \in Nat /\ \A i \in 1..Len(closed) : closed[i] \in ArrayRecords
  BY DEF Typed
<1> HIDE DEF Current
<1>3. ASSUME NEW i \in 1..Len(closed), NEW j \in 1..Len(closed),
             closed[i].slots = closed[j].slots \/ closed[i].offset = closed[j].offset
      PROVE  closed[i] = closed[j]
  <2>1. closed[i].offset \in Nat /\ closed[j].offset \in Nat
    BY <1>2 DEF ArrayRecords
  <2>2. i = j
    BY <1>2, <1>3, <2>1 DEF Numbered
  <2>3. QED
    BY <2>2
<1>4. ASSUME NEW i \in 1..Len(closed), ~Replacing
      PROVE  closed[i].slots # Current.slots /\ closed[i].offset # Current.offset
  <2>1. closed[i].offset \in Nat /\ dstate.offset \in Nat
    BY <1>2 DEF ArrayRecords, Typed, Words
  <2>2. QED
    BY <1>1, <1>2, <1>4, <2>1 DEF Numbered
<1>5. \A c \in ArraysKnown :
        \/ \E i \in 1..Len(closed) : c = closed[i]
        \/ c = Current /\ ~Replacing
  BY DEF ArraysKnown, Current
<1>6. QED
  BY <1>3, <1>4, <1>5

\* The greatest element is the one that is chosen.
LEMMA TheLast ==
  ASSUME NEW S \in SUBSET Nat, NEW i \in S, \A j \in S : j <= i
  PROVE  (CHOOSE j \in S : \A l \in S : l <= j) = i
<1> DEFINE c == CHOOSE j \in S : \A l \in S : l <= j
<1>1. c \in S /\ \A l \in S : l <= c
  OBVIOUS
<1>2. i <= c /\ c <= i /\ i \in Nat /\ c \in Nat
  BY <1>1
<1>3. QED
  BY <1>2

\* What the lookup finds under a word that has not changed.
LEMMA LookupFinds ==
  ASSUME Typed, Numbered, Served, ~Replacing, NEW k \in Nat,
         NEW s, s.state = dstate, s.slots = dslots, s.cap = dcapacity
  PROVE  Lookup(k, s) \in ArraysKnown /\ Serves(Lookup(k, s), k)
<1> DEFINE Current == Array(dslots, dcapacity, dstate.offset)
<1>1. Current \in ArraysKnown /\ Current.offset = dstate.offset
  BY DEF ArraysKnown, Array
<1>2. \A i \in 1..Len(closed) :
        closed[i] \in ArraysKnown /\ closed[i].offset \in Nat /\ closed[i].offset < dstate.offset
  <2>1. \A i \in 1..Len(closed) : closed[i] \in ArraysKnown
    BY DEF ArraysKnown
  <2>2. \A i \in 1..Len(closed) : closed[i] \in ArrayRecords
    BY DEF Typed
  <2>3. QED
    BY <2>1, <2>2 DEF ArrayRecords, Numbered
<1>3. dstate.offset \in Nat /\ s.state.numClosed = Len(closed) /\ Len(closed) \in Nat
  BY DEF Typed, Words, Numbered
<1>4. \A c \in ArraysKnown : c = Current \/ \E i \in 1..Len(closed) : c = closed[i]
  BY DEF ArraysKnown
<1> HIDE DEF Current
<1>5. CASE ~FromClosed(k, s)
  <2>1. Lookup(k, s) = Current
    BY <1>5 DEF Lookup, Current
  <2>2. Serves(Current, k)
    BY <1>1, <1>2, <1>3, <1>4, <1>5 DEF Serves, FromClosed
  <2>3. QED
    BY <1>1, <2>1, <2>2
<1>6. CASE FromClosed(k, s)
  <2> DEFINE starts == {i \in 1..s.state.numClosed : closed[i].offset <= k}
  <2>1. PICK a \in ArraysKnown : Serves(a, k)
    BY DEF Served
  <2>2. PICK i \in 1..Len(closed) : a = closed[i]
    BY <1>1, <1>3, <1>4, <1>6, <2>1 DEF Serves, FromClosed
  <2>3. i \in starts
    BY <1>3, <2>1, <2>2 DEF Serves
  <2>4. ASSUME NEW j \in starts PROVE j <= i
    <3>1. j \in 1..Len(closed) /\ closed[j].offset <= k
      BY <1>3
    <3>2. closed[j].offset <= closed[i].offset
      BY <1>2, <2>1, <2>2, <3>1 DEF Serves
    <3>3. QED
      BY <1>2, <1>3, <3>1, <3>2 DEF Numbered
  <2>5. (CHOOSE j \in starts : \A l \in starts : l <= j) = i
    <3>1. starts \in SUBSET Nat
      BY <1>3
    <3> HIDE DEF starts
    <3>2. QED
      BY <2>3, <2>4, <3>1, TheLast
  <2>6. Lookup(k, s) = closed[CHOOSE j \in starts : \A l \in starts : l <= j]
    BY <1>6 DEF Lookup
  <2>7. Lookup(k, s) = a
    BY <2>2, <2>5, <2>6
  <2>8. QED
    BY <2>1, <2>7
<1>7. QED
  BY <1>5, <1>6

-----------------------------------------------------------------------------
\* A step of a call that leaves the arrays, the counters and what it read alone,
\* and that brings it no nearer to expanding the queue.
LEMMA QuietStep ==
  ASSUME IInv, NEW t \in Threads, NEW q \in Steps \ Expanding,
         pc' = [pc EXCEPT ![t] = q], pc[t] \notin Expanding,
         UNCHANGED <<queue, arrays, call, snap, use, loaded>>,
         pc[t] # "idle",
         q \in Located => pc[t] \in Located,
         q \in Comparing => pc[t] \in Searching
  PROVE  IInv'
<1>1. Typed'
  BY DEF IInv, Typed, queue, arrays, call
<1>2. Expander'
  BY DEF IInv, Typed, Expander, arrays
<1>3. Snapshots'
  BY DEF IInv, Typed, Snapshots, Comparing, Searching, arrays
<1>4. Pushing'
  BY DEF IInv, Typed, Pushing, Comparing, Searching, call
<1>5. Taken'
  BY DEF IInv, Typed, Taken, queue, call
<1>6. Counted'
  BY DEF IInv, Typed, Counted, call
<1>7. Replacing' <=> Replacing
  BY ReplacingSame DEF IInv, Typed, Expanding
<1>8. Numbered'
  BY <1>7 DEF IInv, Numbered, arrays
<1>9. Served'
  <2>1. ArraysKnown' = ArraysKnown /\ \A a, k : Serves(a, k)' <=> Serves(a, k)
    BY <1>7, KnownSame DEF arrays
  <2>2. QED
    BY <2>1 DEF IInv, Typed, Served, call
<1>10. QED
  BY <1>1, <1>2, <1>3, <1>4, <1>5, <1>6, <1>8, <1>9 DEF IInv

\* The steps that move an element.
LEMMA MovesStep ==
  ASSUME IInv, NEW t \in Threads,
         Look(t) \/ LoadPops(t) \/ WaitForTurn(t) \/ Construct(t) \/ MoveOut(t) \/ CompleteTurn(t)
  PROVE  IInv'
<1> USE DEF Go, Steps, Expanding, Comparing, Searching, Located, Settled, Inside
<1>1. CASE Look(t)
  BY <1>1, QuietStep DEF Look
<1>2. CASE LoadPops(t)
  BY <1>2, QuietStep DEF LoadPops
<1>3. CASE WaitForTurn(t)
  BY <1>3, QuietStep DEF WaitForTurn
<1>4. CASE Construct(t)
  BY <1>4, QuietStep DEF Construct, arrays
<1>5. CASE MoveOut(t)
  BY <1>5, QuietStep DEF MoveOut
<1>6. CASE CompleteTurn(t)
  BY <1>6, QuietStep DEF CompleteTurn
<1>7. QED
  BY <1>1, <1>2, <1>3, <1>4, <1>5, <1>6

\* The three loads of the seqlock's section, between two looks at the word.
LEMMA ReadsStep ==
  ASSUME IInv, NEW t \in Threads, LoadState(t) \/ LoadSlots(t) \/ LoadCapacity(t)
  PROVE  IInv'
<1>1. Typed /\ Snapshots
  BY DEF IInv
<1>2. /\ UNCHANGED <<queue, arrays, call, use, loaded>>
      /\ \A u \in Threads : u # t => pc'[u] = pc[u] /\ snap'[u] = snap[u]
      /\ pc[t] \in {"load state", "load slots", "load capacity"}
      /\ pc'[t] \in {"load slots", "load capacity", "recheck"}
      /\ pc' \in [Threads -> Steps]
  BY <1>1 DEF LoadState, LoadSlots, LoadCapacity, Go, Typed, Steps, Comparing
<1>3. /\ dstate \in Words /\ dslots \in Nat /\ dcapacity \in Nat \ {0}
      /\ snap[t] \in [state : Words, slots : Nat, cap : Nat \ {0}]
  BY <1>1 DEF Typed
<1>4. snap'[t] \in [state : Words, slots : Nat, cap : Nat \ {0}]
  <2>1. CASE LoadState(t)
    BY <1>1, <1>3, <2>1 DEF LoadState, Typed
  <2>2. CASE LoadSlots(t)
    BY <1>1, <1>3, <2>2 DEF LoadSlots, Typed
  <2>3. CASE LoadCapacity(t)
    BY <1>1, <1>3, <2>3 DEF LoadCapacity, Typed
  <2>4. QED
    BY <2>1, <2>2, <2>3
<1>5. DOMAIN snap' = Threads /\ snap' = [u \in Threads |-> snap'[u]]
  BY <1>1 DEF LoadState, LoadSlots, LoadCapacity, Typed
<1>6. Typed'
  BY <1>1, <1>2, <1>4, <1>5 DEF Typed, queue, arrays, call
<1>7. Expander'
  BY <1>2 DEF IInv, Expander, Expanding, arrays
<1>8. Snapshots'
  <2>1. CASE LoadState(t)
    <3>1. snap'[t].state = dstate /\ ~dstate.locked /\ pc'[t] = "load slots"
      BY <1>1, <2>1 DEF LoadState, Go, Typed
    <3>2. dstate.numClosed \in Nat
      BY <1>3 DEF Words
    <3>3. dstate' = dstate /\ dslots' = dslots /\ dcapacity' = dcapacity
      BY <1>2 DEF arrays
    <3>4. \A u \in Threads : u # t /\ pc'[u] \in Comparing =>
            /\ ~snap'[u].state.locked /\ snap'[u].state.numClosed <= dstate.numClosed
            /\ snap'[u].state = dstate /\ pc'[u] # "load slots" => snap'[u].slots = dslots
            /\ snap'[u].state = dstate /\ pc'[u] \notin {"load slots", "load capacity"} =>
                 snap'[u].cap = dcapacity
      BY <1>1, <1>2 DEF Snapshots
    <3>5. ~snap'[t].state.locked /\ snap'[t].state.numClosed <= dstate.numClosed
      <4>1. ~snap'[t].state.locked /\ snap'[t].state.numClosed = dstate.numClosed
        BY <3>1, Zenon
      <4>2. QED
        BY <3>2, <4>1
    <3>6. QED
      BY <3>1, <3>3, <3>4, <3>5 DEF Snapshots
  <2>2. CASE LoadSlots(t)
    <3>1. /\ snap'[t].state = snap[t].state /\ snap'[t].slots = dslots
          /\ pc'[t] = "load capacity" /\ pc[t] \in Comparing
      BY <1>1, <2>2 DEF LoadSlots, Go, Typed, Comparing
    <3>2. QED
      BY <1>1, <1>2, <3>1 DEF Snapshots, arrays
  <2>3. CASE LoadCapacity(t)
    <3>1. /\ snap'[t].state = snap[t].state /\ snap'[t].slots = snap[t].slots
          /\ snap'[t].cap = dcapacity
          /\ pc[t] = "load capacity" /\ pc[t] \in Comparing
      BY <1>1, <2>3 DEF LoadCapacity, Go, Typed, Comparing
    <3>2. QED
      BY <1>1, <1>2, <3>1 DEF Snapshots, arrays
  <2>4. QED
    BY <2>1, <2>2, <2>3
<1>9. Pushing'
  BY <1>2 DEF IInv, Pushing, Searching, Expanding, call
<1>10. Taken'
  BY <1>2 DEF IInv, Taken, queue, call
<1>11. Counted'
  BY <1>2 DEF IInv, Counted, Located, Searching, Settled, Inside, Expanding, call
<1>12. Replacing' <=> Replacing
  BY <1>2 DEF Replacing
<1>13. Numbered'
  BY <1>2, <1>12 DEF IInv, Numbered, arrays
<1>14. Served'
  <2>1. ArraysKnown' = ArraysKnown /\ \A a, k : Serves(a, k)' <=> Serves(a, k)
    BY <1>2, <1>12, KnownSame DEF arrays
  <2>2. QED
    BY <1>2, <2>1 DEF IInv, Served, Located, Searching, Settled, Inside, call
<1>15. QED
  BY <1>6, <1>7, <1>8, <1>9, <1>10, <1>11, <1>13, <1>14 DEF IInv

\* Only a call whose section held settles on an array.
LEMMA RecheckStep ==
  ASSUME IInv, NEW t \in Threads, Recheck(t)
  PROVE  IInv'
<1>1. Typed /\ Numbered /\ Served /\ Snapshots /\ Taken /\ pc[t] = "recheck"
  BY DEF IInv, Recheck
<1>2. CASE ~SectionHeld(t)
  BY <1>2, QuietStep DEF Recheck, Steps, Expanding, Comparing, Searching, Located, Settled, Inside
<1>3. CASE SectionHeld(t)
  <2> DEFINE a == Lookup(ticket[t], snap[t])
             q == IF op[t] = "push" /\ ~FromClosed(ticket[t], snap[t]) THEN "look" ELSE "wait"
  <2>1. /\ pc' = [pc EXCEPT ![t] = q] /\ use' = [use EXCEPT ![t] = a]
        /\ UNCHANGED <<queue, arrays, call, snap, loaded>>
    BY <1>3 DEF Recheck
  <2>2. /\ snap[t].state = dstate /\ snap[t].slots = dslots /\ snap[t].cap = dcapacity
        /\ ~dstate.locked
    BY <1>1, <1>3 DEF SectionHeld, Snapshots, Comparing
  <2>3. \A u \in Threads : pc[u] \notin Expanding
    BY <2>2 DEF IInv, Expander
  <2>4. ~Replacing
    BY <2>3 DEF Replacing, Expanding
  <2>5. ticket[t] \in Nat
    BY <1>1 DEF Typed
  <2>6. a \in ArraysKnown /\ Serves(a, ticket[t])
    BY <1>1, <2>2, <2>4, <2>5, LookupFinds
  <2>7. a \in ArrayRecords
    <3>1. \A i \in 1..Len(closed) : closed[i] \in ArrayRecords
      BY <1>1 DEF Typed
    <3>2. Array(dslots, dcapacity, dstate.offset) \in ArrayRecords
      BY <1>1 DEF Typed, Array, ArrayRecords, Words
    <3>3. QED
      BY <2>6, <3>1, <3>2 DEF ArraysKnown
  <2> HIDE DEF a
  <2>8. q \in {"look", "wait"} /\ (q = "look" => op[t] = "push" /\ ticket[t] >= snap[t].state.offset)
    BY <1>1 DEF FromClosed, Typed, Words
  <2> HIDE DEF q
  <2>9. Typed'
    BY <1>1, <2>1, <2>7, <2>8 DEF Typed, Steps, Comparing, Searching, Settled, queue, arrays, call
  <2>10. Expander'
    BY <1>1, <2>1, <2>8 DEF IInv, Typed, Expander, Expanding, arrays
  <2>11. Snapshots'
    BY <1>1, <2>1, <2>8 DEF Typed, Snapshots, Comparing, Searching, arrays
  <2>12. Pushing'
    BY <1>1, <2>1, <2>8 DEF IInv, Typed, Pushing, Searching, Expanding, call
  <2>13. Taken'
    BY <1>1, <2>1 DEF Typed, Taken, queue, call
  <2>14. Counted'
    BY <1>1, <2>1, <2>3, <2>8 DEF IInv, Typed, Counted, Expanding
  <2>15. Replacing' <=> Replacing
    BY <1>1, <2>1, <2>8, ReplacingSame DEF Typed
  <2>16. Numbered'
    BY <1>1, <2>1, <2>15 DEF Numbered, arrays
  <2>17. Served'
    <3>1. ArraysKnown' = ArraysKnown /\ \A b, k : Serves(b, k)' <=> Serves(b, k)
      BY <2>1, <2>15, KnownSame DEF arrays
    <3>2. QED
      BY <1>1, <2>1, <2>6, <3>1 DEF Typed, Served, Located, call
  <2>18. QED
    BY <2>9, <2>10, <2>11, <2>12, <2>13, <2>14, <2>16, <2>17 DEF IInv
<1>4. QED
  BY <1>2, <1>3

\* A call takes a ticket: its counter goes up, and what was loaded stays below.
LEMMA StartStep ==
  ASSUME IInv, NEW t \in Threads, Start(t)
  PROVE  IInv'
<1>1. Typed
  BY DEF IInv
<1> DEFINE Called(kind) ==
      /\ pc[t] = "idle"
      /\ pc' = [pc EXCEPT ![t] = "load state"]
      /\ op' = [op EXCEPT ![t] = kind]
      /\ ticket' = [ticket EXCEPT ![t] = IF kind = "push" THEN pushTicket ELSE popTicket]
      /\ pushTicket' = IF kind = "push" THEN pushTicket + 1 ELSE pushTicket
      /\ popTicket' = IF kind = "pop" THEN popTicket + 1 ELSE popTicket
      /\ UNCHANGED <<arrays, snap, use, loaded>>
<1>2. PICK kind \in {"push", "pop"} : Called(kind)
  <2>1. BlockingRead(t) => Called("pop")
    BY DEF BlockingRead, Go
  <2>2. ASSUME NEW v \in Values, BlockingWrite(t, v)
        PROVE  Called("push")
    BY <2>2 DEF BlockingWrite, Go
  <2>3. QED
    BY <2>1, <2>2 DEF Start
<1>3. /\ pushTicket' \in Nat /\ popTicket' \in Nat
      /\ pushTicket <= pushTicket' /\ popTicket <= popTicket'
      /\ IF kind = "push" THEN pushTicket < pushTicket' ELSE popTicket < popTicket'
  <2>1. pushTicket \in Nat /\ popTicket \in Nat
    BY <1>1 DEF Typed
  <2>2. /\ pushTicket' = IF kind = "push" THEN pushTicket + 1 ELSE pushTicket
        /\ popTicket' = IF kind = "pop" THEN popTicket + 1 ELSE popTicket
    BY <1>2
  <2>3. QED
    BY <2>1, <2>2
<1>13. Typed'
  <2>1. /\ pc' \in [Threads -> Steps] /\ op' \in [Threads -> {"push", "pop"}]
        /\ ticket' \in [Threads -> Nat]
    BY <1>1, <1>2 DEF Typed, Steps
  <2>2. QED
    BY <1>1, <1>2, <1>3, <2>1 DEF Typed, arrays
<1>4. Expander'
  BY <1>1, <1>2 DEF IInv, Typed, Expander, Expanding, arrays
<1>5. Snapshots'
  BY <1>1, <1>2 DEF IInv, Typed, Snapshots, Comparing, Searching, arrays
<1>6. Pushing'
  BY <1>1, <1>2 DEF IInv, Typed, Pushing, Searching, Expanding
<1>7. Taken'
  <2>1. op'[t] = kind /\ ticket'[t] = IF kind = "push" THEN pushTicket ELSE popTicket
    BY <1>1, <1>2 DEF Typed
  <2>2. ticket'[t] < IF op'[t] = "push" THEN pushTicket' ELSE popTicket'
    BY <1>2, <1>3, <2>1
  <2>3. pushTicket \in Nat /\ popTicket \in Nat
    BY <1>1 DEF Typed
  <2>4. ASSUME NEW u \in Threads, u # t, pc'[u] # "idle"
        PROVE  ticket'[u] < IF op'[u] = "push" THEN pushTicket' ELSE popTicket'
    <3>1. pc[u] # "idle" /\ op'[u] = op[u] /\ ticket'[u] = ticket[u]
      BY <1>1, <1>2, <2>4 DEF Typed
    <3>2. ticket[u] < IF op[u] = "push" THEN pushTicket ELSE popTicket
      BY <3>1 DEF IInv, Taken
    <3>3. QED
      BY <1>1, <1>3, <2>3, <3>1, <3>2 DEF Typed
  <2>5. QED
    BY <2>2, <2>4 DEF Taken
<1>8. Counted'
  BY <1>1, <1>2 DEF IInv, Typed, Counted, Located, Searching, Settled, Inside, Expanding
<1>9. Replacing' <=> Replacing
  BY <1>1, <1>2 DEF Typed, Replacing
<1>10. Numbered'
  BY <1>2, <1>9 DEF IInv, Numbered, arrays
<1>11. Served'
  <2>1. ArraysKnown' = ArraysKnown /\ \A a, k : Serves(a, k)' <=> Serves(a, k)
    BY <1>2, <1>9, KnownSame DEF arrays
  <2>2. QED
    BY <1>1, <1>2, <2>1 DEF IInv, Typed, Served, Located, Searching, Settled, Inside
<1>12. QED
  BY <1>13, <1>4, <1>5, <1>6, <1>7, <1>8, <1>10, <1>11 DEF IInv

\* The lock is taken when the word is what the thread has seen.
LEMMA LockStep ==
  ASSUME IInv, NEW t \in Threads, Lock(t)
  PROVE  IInv'
<1>1. Typed /\ Snapshots /\ pc[t] = "lock"
  BY DEF IInv, Lock
<1>2. CASE dstate # snap[t].state
  BY <1>1, <1>2, QuietStep DEF Lock, Steps, Expanding, Comparing, Searching, Located, Settled,
     Inside, arrays
<1>3. CASE dstate = snap[t].state
  <2>1. /\ dstate' = [dstate EXCEPT !.locked = TRUE]
        /\ pc' = [pc EXCEPT ![t] = "load counters"]
        /\ UNCHANGED <<queue, dslots, dcapacity, closed, call, snap, use, loaded>>
    BY <1>3 DEF Lock
  <2>2. /\ dstate'.locked /\ dstate'.offset = dstate.offset
        /\ dstate'.numClosed = dstate.numClosed /\ dstate' \in Words
    BY <1>1, <2>1 DEF Typed, Words
  <2>3. /\ ~dstate.locked /\ snap[t].slots = dslots /\ snap[t].cap = dcapacity
        /\ snap[t].state.offset = dstate.offset /\ snap[t].state.numClosed = dstate.numClosed
    BY <1>1, <1>3 DEF Snapshots, Comparing
  <2>4. \A u \in Threads : pc[u] \notin Expanding
    BY <2>3 DEF IInv, Expander
  <2>5. Typed'
    BY <1>1, <2>1, <2>2 DEF Typed, Steps, Expanding, queue, call
  <2>6. Expander'
    BY <1>1, <2>1, <2>2, <2>3, <2>4 DEF Typed, Expander, Expanding
  <2>7. Snapshots'
    <3>1. \A u \in Threads : pc'[u] \in Comparing => pc[u] \in Comparing /\ pc'[u] = pc[u]
      BY <1>1, <2>1 DEF Typed, Comparing, Searching
    <3>2. \A u \in Threads : ~snap[u].state.locked => snap[u].state # dstate'
      BY <2>2
    <3>3. QED
      BY <1>1, <2>1, <2>2, <3>1, <3>2 DEF Snapshots
  <2>8. Pushing'
    BY <1>1, <2>1 DEF IInv, Typed, Pushing, Searching, Expanding, call
  <2>9. Taken'
    BY <1>1, <2>1 DEF IInv, Typed, Taken, queue, call
  <2>10. Counted'
    BY <1>1, <2>1, <2>4 DEF IInv, Typed, Counted, Expanding
  <2>11. Replacing' <=> Replacing
    BY <1>1, <2>1 DEF Typed, Replacing
  <2>12. Numbered'
    BY <2>1, <2>2, <2>11 DEF IInv, Numbered
  <2>13. Served'
    <3>1. ArraysKnown' = ArraysKnown /\ \A a, k : Serves(a, k)' <=> Serves(a, k)
      BY <2>1, <2>2, <2>11, KnownSame
    <3>2. QED
      BY <1>1, <2>1, <3>1 DEF IInv, Typed, Served, Located, Searching, Settled, Inside, call
  <2>14. QED
    BY <2>5, <2>6, <2>7, <2>8, <2>9, <2>10, <2>12, <2>13 DEF IInv
<1>4. QED
  BY <1>2, <1>3

\* Under the lock the expanding thread loads the two counters.
LEMMA LoadCounterStep ==
  ASSUME IInv, NEW t \in Threads, LoadCounter(t)
  PROVE  IInv'
<1>1. /\ Typed /\ Counted /\ pc[t] = "load counters"
      /\ UNCHANGED <<queue, arrays, pc, call, snap, use>>
  BY DEF IInv, LoadCounter
<1>2. /\ ticket[t] < pushTicket
      /\ \A u \in Threads : pc[u] \in Located =>
           /\ op[u] = "push" => ticket[u] < pushTicket
           /\ op[u] = "pop" => ticket[u] < popTicket
  BY <1>1 DEF IInv, Typed, Taken, Pushing, Expanding, Located, Searching, Settled, Inside
<1>3. \/ loaded' = [loaded EXCEPT ![t].pushes = pushTicket]
      \/ loaded' = [loaded EXCEPT ![t].pops = popTicket]
  BY DEF LoadCounter
<1>4. loaded' \in [Threads -> [pushes : Loaded, pops : Loaded]]
  <2>1. pushTicket \in Loaded /\ popTicket \in Loaded
    BY <1>1 DEF Typed, Loaded
  <2>2. CASE loaded' = [loaded EXCEPT ![t].pushes = pushTicket]
    BY <1>1, <2>1, <2>2 DEF Typed
  <2>3. CASE loaded' = [loaded EXCEPT ![t].pops = popTicket]
    BY <1>1, <2>1, <2>3 DEF Typed
  <2>4. QED
    BY <1>3, <2>2, <2>3
<1>5. Typed'
  BY <1>1, <1>4 DEF Typed, queue, arrays, call
<1>6. Expander' /\ Snapshots' /\ Pushing' /\ Taken'
  BY <1>1 DEF IInv, Expander, Snapshots, Pushing, Taken, queue, arrays, call
<1>7. Counted'
  <2>1. CASE loaded' = [loaded EXCEPT ![t].pushes = pushTicket]
    BY <1>1, <1>2, <2>1 DEF Typed, Counted, Expanding, call
  <2>2. CASE loaded' = [loaded EXCEPT ![t].pops = popTicket]
    BY <1>1, <1>2, <2>2 DEF Typed, Counted, Expanding, call
  <2>3. QED
    BY <1>3, <2>1, <2>2
<1>8. Replacing' <=> Replacing
  BY <1>1 DEF Replacing
<1>9. Numbered'
  BY <1>1, <1>8 DEF IInv, Numbered, arrays
<1>10. Served'
  <2>1. ArraysKnown' = ArraysKnown /\ \A a, k : Serves(a, k)' <=> Serves(a, k)
    BY <1>1, <1>8, KnownSame DEF arrays
  <2>2. QED
    BY <1>1, <2>1 DEF IInv, Served, call
<1>11. QED
  BY <1>5, <1>6, <1>7, <1>9, <1>10 DEF IInv

\* The current array becomes the last closed one: the same arrays are known.
LEMMA StoreSlotsStep ==
  ASSUME IInv, NEW t \in Threads, StoreSlots(t)
  PROVE  IInv'
<1> DEFINE old == Array(dslots, dcapacity, dstate.offset)
<1>1. /\ Typed /\ Counted /\ Numbered /\ Expander /\ pc[t] = "load counters"
      /\ pc' = [pc EXCEPT ![t] = "store capacity"]
      /\ loaded[t].pushes # NotYet /\ loaded[t].pops # NotYet
      /\ closed' = Append(closed, Array(dslots, snap[t].cap, snap[t].state.offset))
      /\ dslots' = dslots + 1
      /\ UNCHANGED <<queue, dstate, dcapacity, call, snap, use, loaded>>
  BY DEF IInv, StoreSlots, Go
<1>2. snap[t].cap = dcapacity /\ snap[t].state.offset = dstate.offset /\ dstate.locked
  BY <1>1 DEF Expander, Expanding
<1>3. closed' = Append(closed, old)
  BY <1>1, <1>2
<1>4. old \in ArrayRecords /\ old.slots = dslots /\ old.offset = dstate.offset
  BY <1>1 DEF Typed, Array, ArrayRecords, Words
<1>5. Replacing' /\ ~Replacing
  <2>1. \A u \in Threads : u # t => pc[u] \notin Expanding
    BY <1>1 DEF Expander, Expanding
  <2>2. QED
    BY <1>1, <2>1 DEF Typed, Replacing, Expanding
<1> HIDE DEF old
<1>6. /\ Len(closed') = Len(closed) + 1 /\ Len(closed) \in Nat
      /\ \A i \in 1..Len(closed) : closed'[i] = closed[i]
      /\ closed'[Len(closed) + 1] = old
      /\ closed' \in Seq(ArrayRecords)
  <2>1. closed \in Seq(ArrayRecords)
    BY <1>1 DEF Typed
  <2>2. QED
    BY <1>3, <1>4, <2>1
<1>7. Typed'
  <2>1. dslots' \in Nat
    <3>1. dslots \in Nat
      BY <1>1 DEF Typed
    <3>2. dslots' = dslots + 1
      BY <1>1
    <3>3. QED
      BY <3>1, <3>2
  <2>2. pc' \in [Threads -> Steps]
    BY <1>1 DEF Typed, Steps, Expanding
  <2>3. closed' \in Seq(ArrayRecords)
    BY <1>6
  <2>4. QED
    BY <1>1, <2>1, <2>2, <2>3 DEF Typed, queue, call
<1>8. Expander'
  BY <1>1 DEF Typed, Expander, Expanding
<1>9. Snapshots'
  BY <1>1, <1>2 DEF IInv, Typed, Snapshots, Comparing, Searching
<1>10. Pushing'
  BY <1>1 DEF IInv, Typed, Pushing, Searching, Expanding, call
<1>11. Taken'
  BY <1>1 DEF IInv, Typed, Taken, queue, call
<1>12. Counted'
  BY <1>1 DEF Typed, Counted, Located, Searching, Settled, Inside, Expanding, call
<1>13. Numbered'
  <2>1. dstate.offset \in Nat /\ \A i \in 1..Len(closed) : closed[i].offset \in Nat
    BY <1>1, ClosedTyped DEF Typed, Words
  <2>2. \A i \in 1..Len(closed') : i \in 1..Len(closed) \/ i = Len(closed) + 1
    BY <1>6
  <2>3. dslots' = Len(closed') /\ Len(closed') = dstate'.numClosed + 1
    <3>1. dslots = Len(closed) /\ Len(closed) = dstate.numClosed + 0
      BY <1>1, <1>5 DEF Numbered
    <3>2. dslots' = dslots + 1 /\ dstate' = dstate
      BY <1>1
    <3>3. dstate.numClosed \in Nat /\ Len(closed') = Len(closed) + 1
      BY <1>1, <1>6 DEF Typed, Words
    <3>4. QED
      BY <3>1, <3>2, <3>3
  <2>4. \A i \in 1..Len(closed') : closed'[i].slots = i - 1 /\ closed'[i].offset <= dstate.offset
    <3>1. old.slots = Len(closed) /\ old.offset = dstate.offset
      BY <1>1, <1>4 DEF Numbered
    <3>2. \A i \in 1..Len(closed) : closed[i].slots = i - 1 /\ closed[i].offset <= dstate.offset
      BY <1>1 DEF Numbered
    <3>3. ASSUME NEW i \in 1..Len(closed')
          PROVE  closed'[i].slots = i - 1 /\ closed'[i].offset <= dstate.offset
      <4>1. CASE i \in 1..Len(closed)
        BY <1>6, <3>2, <4>1
      <4>2. CASE i = Len(closed) + 1
        BY <1>6, <2>1, <3>1, <4>2
      <4>3. QED
        BY <2>2, <4>1, <4>2
    <3>4. QED
      BY <3>3
  <2>5. \A i, j \in 1..Len(closed') : i < j => closed'[i].offset < closed'[j].offset
    <3>1. \A i \in 1..Len(closed) : closed[i].offset < old.offset
      BY <1>1, <1>4, <1>5 DEF Numbered
    <3>2. \A i, j \in 1..Len(closed) : i < j => closed[i].offset < closed[j].offset
      BY <1>1 DEF Numbered
    <3>3. ASSUME NEW i \in 1..Len(closed'), NEW j \in 1..Len(closed'), i < j
          PROVE  closed'[i].offset < closed'[j].offset
      <4>1. i \in 1..Len(closed)
        BY <1>6, <3>3
      <4>2. CASE j \in 1..Len(closed)
        BY <1>6, <3>2, <3>3, <4>1, <4>2
      <4>3. CASE j = Len(closed) + 1
        BY <1>6, <3>1, <4>1, <4>3
      <4>4. QED
        BY <2>2, <4>2, <4>3
    <3>4. QED
      BY <3>3
  <2>6. QED
    BY <1>1, <1>5, <2>3, <2>4, <2>5 DEF Numbered
<1>14. Served'
  <2>1. ArraysKnown = {closed[i] : i \in 1..Len(closed)} \cup {old}
    BY <1>5 DEF ArraysKnown, old
  <2>2. ArraysKnown' = {closed'[i] : i \in 1..Len(closed')}
    BY <1>5 DEF ArraysKnown
  <2>3. ArraysKnown' = ArraysKnown
    BY <1>6, <2>1, <2>2
  <2>4. \A a, k : Serves(a, k)' <=> Serves(a, k)
    BY <2>3 DEF Serves
  <2>5. QED
    BY <1>1, <2>3, <2>4 DEF IInv, Typed, Served, Located, Searching, Settled, Inside, call
<1>15. QED
  BY <1>7, <1>8, <1>9, <1>10, <1>11, <1>12, <1>13, <1>14 DEF IInv

\* Nobody who has compared the word has seen the capacity that is stored now.
LEMMA StoreCapacityStep ==
  ASSUME IInv, NEW t \in Threads, StoreCapacity(t)
  PROVE  IInv'
<1>1. /\ Typed /\ Expander /\ pc[t] = "store capacity"
      /\ pc' = [pc EXCEPT ![t] = "unlock"]
      /\ dcapacity' = Smaller(Capacity, snap[t].cap * Multiplier)
      /\ UNCHANGED <<queue, dstate, dslots, closed, call, snap, use, loaded>>
  BY DEF IInv, StoreCapacity, Go
<1>2. dcapacity' \in Nat \ {0}
  <2>1. snap[t].cap \in Nat \ {0}
    BY <1>1 DEF Typed
  <2>2. snap[t].cap * Multiplier \in Nat \ {0}
    BY <2>1, DynamicMPMCQueueAssumption
  <2>3. QED
    BY <1>1, <2>2, DynamicMPMCQueueAssumption DEF Smaller
<1>3. dstate.locked
  BY <1>1 DEF Expander, Expanding
<1>4. Replacing /\ Replacing'
  BY <1>1 DEF Typed, Replacing
<1>5. Typed'
  BY <1>1, <1>2 DEF Typed, Steps, Expanding, queue, call
<1>6. Expander'
  BY <1>1 DEF Typed, Expander, Expanding
<1>7. Snapshots'
  BY <1>1, <1>3 DEF IInv, Typed, Snapshots, Comparing, Searching
<1>8. Pushing'
  BY <1>1 DEF IInv, Typed, Pushing, Searching, Expanding, call
<1>9. Taken'
  BY <1>1 DEF IInv, Typed, Taken, queue, call
<1>10. Counted'
  BY <1>1 DEF IInv, Typed, Counted, Located, Searching, Settled, Inside, Expanding, call
<1>11. Numbered'
  BY <1>1, <1>4 DEF IInv, Numbered
<1>12. Served'
  <2>1. ArraysKnown' = ArraysKnown
    BY <1>1, <1>4 DEF ArraysKnown
  <2>2. \A a, k : Serves(a, k)' <=> Serves(a, k)
    BY <2>1 DEF Serves
  <2>3. QED
    BY <1>1, <2>1, <2>2 DEF IInv, Typed, Served, Located, Searching, Settled, Inside, call
<1>13. QED
  BY <1>5, <1>6, <1>7, <1>8, <1>9, <1>10, <1>11, <1>12 DEF IInv

\* The new array becomes known.  It serves no ticket that any call has an array
\* for, and every ticket from its offset on.
LEMMA UnlockStep ==
  ASSUME IInv, NEW t \in Threads, Unlock(t)
  PROVE  IInv'
<1> DEFINE new == Array(dslots, dcapacity, NewOffset(t))
<1>1. /\ Typed /\ Expander /\ Counted /\ Numbered /\ pc[t] = "unlock"
      /\ pc' = [pc EXCEPT ![t] = "load state"]
      /\ dstate' = Word(NewOffset(t), snap[t].state.numClosed + 1)
      /\ loaded' = [loaded EXCEPT ![t] = [pushes |-> NotYet, pops |-> NotYet]]
      /\ UNCHANGED <<queue, dslots, dcapacity, closed, call, snap, use>>
  BY DEF IInv, Unlock, Go
<1>2. snap[t].state.numClosed = dstate.numClosed /\ snap[t].state.offset = dstate.offset
  BY <1>1 DEF Expander, Expanding
<1>3. /\ loaded[t].pushes \in Nat /\ loaded[t].pops \in Nat
      /\ ticket[t] < loaded[t].pushes
      /\ \A u \in Threads : pc[u] \in Located =>
           ticket[u] < (IF op[u] = "push" THEN loaded[t].pushes ELSE loaded[t].pops)
  BY <1>1 DEF Typed, Counted, Loaded, Expanding
<1>4. /\ NewOffset(t) \in Nat
      /\ loaded[t].pushes < NewOffset(t) /\ loaded[t].pops < NewOffset(t)
  BY <1>3 DEF NewOffset, Larger
<1>5. dstate.offset \in Nat /\ dstate.numClosed \in Nat /\ dstate.offset < NewOffset(t)
  <2>1. ticket[t] >= dstate.offset /\ ticket[t] \in Nat
    BY <1>1, <1>2 DEF IInv, Typed, Pushing, Expanding
  <2>2. dstate.offset \in Nat /\ dstate.numClosed \in Nat
    BY <1>1 DEF Typed, Words
  <2>3. QED
    BY <1>3, <1>4, <2>1, <2>2
<1>6. /\ dstate'.offset = NewOffset(t) /\ dstate'.numClosed = dstate.numClosed + 1
      /\ ~dstate'.locked /\ dstate' \in Words
  <2>1. dstate' = [offset |-> NewOffset(t), numClosed |-> dstate.numClosed + 1, locked |-> FALSE]
    BY <1>1, <1>2 DEF Word
  <2>2. QED
    BY <1>4, <1>5, <2>1 DEF Words
<1>7. \A u \in Threads : u # t => pc[u] \notin Expanding /\ pc'[u] = pc[u] /\ loaded'[u] = loaded[u]
  BY <1>1 DEF Typed, Expander, Expanding
<1>8. pc'[t] = "load state" /\ loaded'[t].pushes = NotYet /\ loaded'[t].pops = NotYet
  BY <1>1 DEF Typed
<1>9. Replacing /\ ~Replacing'
  BY <1>1, <1>7, <1>8 DEF Replacing, Expanding
<1>10. Typed'
  <2>1. loaded' \in [Threads -> [pushes : Loaded, pops : Loaded]]
    BY <1>1 DEF Typed, Loaded
  <2>2. QED
    BY <1>1, <1>6, <2>1 DEF Typed, Steps, queue, call
<1>11. Expander'
  BY <1>7, <1>8 DEF Expander, Expanding
<1>12. Snapshots'
  <2>1. \A u \in Threads : pc'[u] \in Comparing => u # t /\ pc[u] \in Comparing
    BY <1>7, <1>8 DEF Comparing, Searching
  <2>2. \A u \in Threads : snap[u].state.numClosed \in Nat
    BY <1>1 DEF Typed, Words
  <2>3. \A u \in Threads : snap[u].state.numClosed <= dstate.numClosed => snap[u].state # dstate'
    BY <1>5, <1>6, <2>2
  <2>4. snap' = snap
    BY <1>1
  <2>5. \A u \in Threads : pc[u] \in Comparing =>
          ~snap[u].state.locked /\ snap[u].state.numClosed <= dstate.numClosed
    BY DEF IInv, Snapshots
  <2>6. \A u \in Threads : snap[u].state.numClosed <= dstate.numClosed =>
          snap[u].state.numClosed <= dstate'.numClosed
    BY <1>5, <1>6, <2>2
  <2>7. QED
    BY <2>1, <2>3, <2>4, <2>5, <2>6 DEF Snapshots
<1>13. Pushing'
  BY <1>1, <1>7, <1>8 DEF IInv, Pushing, Searching, Expanding, call
<1>14. Taken'
  BY <1>1, <1>7 DEF IInv, Taken, queue, call
<1>15. Counted'
  BY <1>7, <1>8, <1>1 DEF Counted, Expanding
<1>16. \A i \in 1..Len(closed) : closed[i].offset \in Nat /\ closed[i].offset < NewOffset(t)
  <2>1. \A i \in 1..Len(closed) : closed[i].offset \in Nat /\ closed[i].offset <= dstate.offset
    BY <1>1, ClosedTyped DEF Numbered
  <2>2. QED
    BY <1>4, <1>5, <2>1
<1>17. Numbered'
  <2>1. Len(closed) = dstate'.numClosed
    BY <1>1, <1>5, <1>6, <1>9 DEF Numbered
  <2>2. closed' = closed /\ dslots' = dslots /\ dslots = Len(closed) /\ Len(closed) \in Nat
    BY <1>1, ClosedTyped DEF Numbered
  <2>3. \A i \in 1..Len(closed) : closed[i].slots = i - 1
    BY <1>1 DEF Numbered
  <2>4. \A i \in 1..Len(closed) :
          closed[i].offset <= dstate'.offset /\ closed[i].offset < dstate'.offset
    BY <1>4, <1>6, <1>16
  <2>5. \A i, j \in 1..Len(closed) : i < j => closed[i].offset < closed[j].offset
    BY <1>1 DEF Numbered
  <2>6. QED
    BY <1>9, <2>1, <2>2, <2>3, <2>4, <2>5 DEF Numbered
<1>18. Served'
  <2>1. ArraysKnown = {closed[i] : i \in 1..Len(closed)}
    BY <1>9 DEF ArraysKnown
  <2>2. ArraysKnown' = ArraysKnown \cup {new}
    BY <1>1, <1>6, <1>9, <2>1 DEF ArraysKnown
  <2>3. new.offset = NewOffset(t)
    BY DEF Array
  <2>4. \A a \in ArraysKnown : a.offset \in Nat /\ a.offset < NewOffset(t)
    BY <1>16, <2>1
  <2> HIDE DEF new
  <2>5. ASSUME NEW a \in ArraysKnown, NEW k \in Nat, k < NewOffset(t), Serves(a, k)
        PROVE  Serves(a, k)'
    BY <1>4, <2>2, <2>3, <2>5 DEF Serves
  <2>6. ASSUME NEW k \in Nat
        PROVE  \E a \in ArraysKnown' : Serves(a, k)'
    <3>1. CASE k < NewOffset(t)
      BY <2>2, <2>5, <3>1 DEF IInv, Served
    <3>2. CASE k >= NewOffset(t)
      BY <1>4, <2>2, <2>3, <2>4, <3>2 DEF Serves
    <3>3. QED
      BY <1>4, <3>1, <3>2
  <2>7. ASSUME NEW u \in Threads, pc'[u] \in Located
        PROVE  use'[u] \in ArraysKnown' /\ Serves(use[u], ticket[u])'
    <3>1. u # t /\ pc[u] \in Located
      BY <1>7, <1>8, <2>7 DEF Located, Searching, Settled, Inside
    <3>2. ticket[u] \in Nat /\ op[u] \in {"push", "pop"}
      BY <1>1 DEF Typed
    <3>3. ticket[u] < NewOffset(t)
      BY <1>3, <1>4, <3>1, <3>2
    <3>4. use[u] \in ArraysKnown /\ Serves(use[u], ticket[u])
      BY <3>1 DEF IInv, Served
    <3>5. use' = use /\ ticket' = ticket
      BY <1>1 DEF call
    <3>6. QED
      BY <2>2, <2>5, <3>2, <3>3, <3>4, <3>5
  <2>8. QED
    BY <1>1, <2>6, <2>7 DEF Served, call
<1>19. QED
  BY <1>10, <1>11, <1>12, <1>13, <1>14, <1>15, <1>17, <1>18 DEF IInv

-----------------------------------------------------------------------------
\* Every step keeps it.
LEMMA NextIInv == IInv /\ [Next]_vars => IInv'
<1> SUFFICES ASSUME IInv, [Next]_vars PROVE IInv'
  OBVIOUS
<1>1. ASSUME NEW t \in Threads, Start(t) \/ Progress(t)
      PROVE  IInv'
  BY <1>1, StartStep, ReadsStep, RecheckStep, MovesStep, LockStep, LoadCounterStep,
     StoreSlotsStep, StoreCapacityStep, UnlockStep DEF Progress
<1>2. CASE UNCHANGED vars
  <2>1. Replacing' <=> Replacing
    BY <1>2 DEF vars, Replacing
  <2>2. ArraysKnown' = ArraysKnown /\ \A a, k : Serves(a, k)' <=> Serves(a, k)
    BY <1>2, <2>1, KnownSame DEF vars, arrays
  <2>3. Typed' /\ Expander' /\ Snapshots' /\ Pushing' /\ Taken' /\ Counted'
    BY <1>2 DEF IInv, vars, queue, arrays, call, Typed, Expander, Snapshots, Pushing, Taken, Counted
  <2>4. Numbered' /\ Served'
    BY <1>2, <2>1, <2>2 DEF IInv, vars, arrays, call, Numbered, Served
  <2>5. QED
    BY <2>3, <2>4 DEF IInv
<1>3. QED
  BY <1>1, <1>2 DEF Next

\* It holds in every state.
LEMMA Invariant == Spec => []IInv
BY InitIInv, NextIInv, PTL DEF Spec

\* No call goes on with a torn snapshot (trySeqlockReadSection), and who expands
\* replaces the array it saw (tryExpand), for any capacities and any expansions.
THEOREM SeqlockHolds == Spec => []SnapshotIsWhole
<1>1. IInv => SnapshotIsWhole
  BY DEF IInv, Served, Expander, SnapshotIsWhole, Located, Searching, Expanding
<1>2. QED
  BY <1>1, Invariant, PTL

\* Quotient and remainder tell a number.
LEMMA SameRemainder ==
  ASSUME NEW c \in Nat \ {0}, NEW x \in Nat, NEW y \in Nat,
         x % c = y % c, x \div c = y \div c
  PROVE  x = y
<1>1. x = c * (x \div c) + (x % c) /\ y = c * (y \div c) + (y % c)
  BY SMT
<1>2. QED
  BY <1>1

\* The push and the pop with one ticket meet, and no others do, although they may
\* have looked for their slot before and after any number of expansions
\* (mayUpdateFromClosed).
THEOREM SlotsAreTickets == Spec => []TicketsMeet
<1>1. ASSUME IInv
      PROVE  TicketsMeet
  <2> SUFFICES ASSUME NEW t \in Threads, NEW u \in Threads,
                      pc[t] \in Settled, pc[u] \in Settled
               PROVE  ticket[t] = ticket[u] <=> Place(t) = Place(u) /\ Lap(t) = Lap(u)
    BY DEF TicketsMeet
  <2>1. /\ use[t] \in ArraysKnown /\ Serves(use[t], ticket[t])
        /\ use[u] \in ArraysKnown /\ Serves(use[u], ticket[u])
    BY <1>1 DEF IInv, Served, Located
  <2>2. /\ use[t] \in ArrayRecords /\ use[u] \in ArrayRecords
        /\ ticket[t] \in Nat /\ ticket[u] \in Nat
    BY <1>1 DEF IInv, Typed
  <2>3. /\ use[t].offset \in Nat /\ use[u].offset \in Nat
        /\ use[t].cap \in Nat \ {0}
        /\ use[t].offset <= ticket[t] /\ use[u].offset <= ticket[u]
    BY <2>1, <2>2 DEF ArrayRecords, Serves
  <2>4. ASSUME ticket[t] = ticket[u]
        PROVE  Place(t) = Place(u) /\ Lap(t) = Lap(u)
    <3>1. use[t].offset = use[u].offset
      BY <2>1, <2>3, <2>4 DEF Serves
    <3>2. use[t] = use[u]
      BY <1>1, <2>1, <3>1, SameArray DEF IInv
    <3>3. QED
      BY <2>4, <3>2 DEF Place, Lap
  <2>5. ASSUME Place(t) = Place(u), Lap(t) = Lap(u)
        PROVE  ticket[t] = ticket[u]
    <3> DEFINE x == ticket[t] - use[t].offset
               y == ticket[u] - use[t].offset
    <3>1. use[t].slots = use[u].slots
      BY <2>5 DEF Place
    <3>2. use[u] = use[t]
      BY <1>1, <2>1, <3>1, SameArray DEF IInv
    <3>3. x % use[t].cap = y % use[t].cap /\ x \div use[t].cap = y \div use[t].cap
      BY <2>5, <3>2 DEF Place, Lap
    <3>4. x \in Nat /\ y \in Nat
      BY <2>2, <2>3, <3>2
    <3> HIDE DEF x, y
    <3>5. x = y
      BY <2>3, <3>3, <3>4, SameRemainder
    <3>6. QED
      BY <2>2, <2>3, <3>5 DEF x, y
  <2>6. QED
    BY <2>4, <2>5
<1>2. QED
  BY <1>1, Invariant, PTL

-----------------------------------------------------------------------------
\* The second part of the invariant: the slots and the elements.

\* The arrays have the planned capacities, and there is room for them.
Fits ==
  /\ dslots <= MaxClosed
  /\ \A t \in Threads : pc[t] = "store capacity" => dslots > 0 /\ snap[t].cap = Capacities[dslots]
  /\ (\A t \in Threads : pc[t] # "store capacity") => dcapacity = Capacities[dslots + 1]
  /\ \A t \in Threads : pc[t] \in {"lock"} \cup Expanding => snap[t].cap # Capacity
  /\ \A a \in ArraysKnown : a.slots <= MaxClosed /\ a.cap <= Capacity

\* Place and Lap, of any ticket in any array.
PlaceOf(a, k) == <<a.slots, (k - a.offset) % a.cap>>
LapOf(a, k) == (k - a.offset) \div a.cap

SlotsTyped ==
  /\ slotTurn \in [Places -> Nat]
  /\ contents \in [Places -> SUBSET Values]
  /\ elem \in [Threads -> Values]
  /\ offered \in Seq(Values) /\ Len(offered) = pushTicket /\ pushTicket <= MaxTicket
  /\ published \in SUBSET Nat /\ delivered \in SUBSET (Nat \X Values)

TakenTickets == {d[1] : d \in delivered}

\* A ticket is one call's, which brings what was offered for it and has yet to
\* finish.
Claims ==
  /\ \A t \in Threads : pc[t] # "idle" =>
       IF op[t] = "push" THEN elem[t] = offered[ticket[t] + 1] /\ ticket[t] \notin published
                         ELSE ticket[t] \notin TakenTickets
  /\ \A t, u \in Threads :
       pc[t] # "idle" /\ pc[u] # "idle" /\ op[t] = op[u] /\ ticket[t] = ticket[u] => t = u

\* What was finished lies below the counters, and below those an expanding thread
\* has loaded.
Past ==
  /\ \A k \in published : k < pushTicket
  /\ \A k \in TakenTickets : k < popTicket
  /\ \A t \in Threads :
       /\ loaded[t].pushes # NotYet => \A k \in published : k < loaded[t].pushes
       /\ loaded[t].pops # NotYet => \A k \in TakenTickets : k < loaded[t].pops

InTurn == \A t \in Threads : pc[t] \in Inside => AtTurn(t)

\* The slots' turns tell which tickets are finished.
TurnsTell ==
  \A a \in ArraysKnown, k \in Nat : Serves(a, k) =>
    /\ k \in published <=> slotTurn[PlaceOf(a, k)] > 2 * LapOf(a, k)
    /\ k \in TakenTickets <=> slotTurn[PlaceOf(a, k)] > 2 * LapOf(a, k) + 1

Completing(t, k, kind) == pc[t] = "complete" /\ op[t] = kind /\ ticket[t] = k

\* The storage of a slot, from the turn of a push to that of the next.
Stored ==
  /\ \A a \in ArraysKnown, k \in Nat : Serves(a, k) =>
       /\ slotTurn[PlaceOf(a, k)] = 2 * LapOf(a, k)
            /\ (\A t \in Threads : ~Completing(t, k, "push")) => contents[PlaceOf(a, k)] = {}
       /\ slotTurn[PlaceOf(a, k)] = 2 * LapOf(a, k) + 1
            /\ (\A t \in Threads : ~Completing(t, k, "pop"))
              => contents[PlaceOf(a, k)] = {offered[k + 1]}
  /\ \A t \in Threads : pc[t] = "complete" =>
       IF op[t] = "push" THEN contents[Place(t)] = {elem[t]}
                         ELSE contents[Place(t)] = {} /\ elem[t] = offered[ticket[t] + 1]

\* The slots of arrays to come are as they were constructed.
Fresh ==
  \A p \in Places : p[1] > dstate.numClosed => slotTurn[p] = 0 /\ contents[p] = {}

\* Why a push waits.
Waits ==
  \A t \in Threads :
    /\ pc[t] \in Searching => use[t].cap = snap[t].cap
    /\ pc[t] = "wait" /\ op[t] = "push" =>
         use[t].cap = Capacity \/ ticket[t] < dstate.offset \/ AtTurn(t)

SInv == /\ Fits /\ SlotsTyped /\ Claims /\ Past /\ InTurn /\ TurnsTell /\ Stored
        /\ Fresh /\ Waits

-----------------------------------------------------------------------------
\* Where a ticket goes in an array.
LEMMA PlaceTyped ==
  ASSUME NEW a \in ArrayRecords, a.slots <= MaxClosed, a.cap <= Capacity,
         NEW k \in Nat, a.offset <= k
  PROVE  /\ PlaceOf(a, k) \in Places /\ PlaceOf(a, k)[1] = a.slots
         /\ LapOf(a, k) \in Nat
<1>1. a.slots \in Nat /\ a.cap \in Nat \ {0} /\ a.offset \in Nat
  BY DEF ArrayRecords
<1>2. k - a.offset \in Nat
  BY <1>1
<1>3. (k - a.offset) % a.cap \in 0..(a.cap - 1) /\ (k - a.offset) \div a.cap \in Nat
  BY <1>1, <1>2, SMT
<1>4. MaxClosed \in Int /\ Capacity \in Nat
  BY DynamicMPMCQueueAssumption DEF MaxClosed
<1>5. QED
  BY <1>1, <1>3, <1>4 DEF Places, PlaceOf, LapOf

\* Where a ticket goes is a slot of its array.
LEMMA Homes ==
  ASSUME Typed, Fits, NEW a \in ArraysKnown, NEW k \in Nat, Serves(a, k)
  PROVE  /\ PlaceOf(a, k) \in Places /\ PlaceOf(a, k)[1] = a.slots
         /\ LapOf(a, k) \in Nat
         /\ a \in ArrayRecords /\ a.offset <= k
<1>1. a \in ArrayRecords
  <2>1. \A i \in 1..Len(closed) : closed[i] \in ArrayRecords
    BY DEF Typed
  <2>2. Array(dslots, dcapacity, dstate.offset) \in ArrayRecords
    BY DEF Typed, Array, ArrayRecords, Words
  <2>3. QED
    BY <2>1, <2>2 DEF ArraysKnown
<1>2. a.offset <= k /\ a.slots <= MaxClosed /\ a.cap <= Capacity
  BY DEF Serves, Fits
<1>3. QED
  BY <1>1, <1>2, PlaceTyped

\* One array serves a ticket, and a place and a lap are one ticket's.
LEMMA SameHome ==
  ASSUME Typed, Numbered, Fits,
         NEW a \in ArraysKnown, NEW k \in Nat, Serves(a, k),
         NEW b \in ArraysKnown, NEW j \in Nat, Serves(b, j)
  PROVE  /\ k = j => a = b
         /\ PlaceOf(a, k) = PlaceOf(b, j) => a = b
         /\ PlaceOf(a, k) = PlaceOf(b, j) /\ LapOf(a, k) = LapOf(b, j) => k = j
<1>1. /\ a \in ArrayRecords /\ b \in ArrayRecords
      /\ a.offset <= k /\ b.offset <= j
      /\ PlaceOf(a, k)[1] = a.slots /\ PlaceOf(b, j)[1] = b.slots
  BY Homes
<1>2. a.offset \in Nat /\ b.offset \in Nat /\ a.cap \in Nat \ {0}
  BY <1>1 DEF ArrayRecords
<1>3. k = j => a.offset = b.offset
  BY <1>2 DEF Serves
<1>4. a.slots = b.slots \/ a.offset = b.offset => a = b
  BY SameArray
<1>5. ASSUME PlaceOf(a, k) = PlaceOf(b, j), LapOf(a, k) = LapOf(b, j)
      PROVE  k = j
  <2> DEFINE x == k - a.offset
             y == j - a.offset
  <2>1. a = b
    BY <1>1, <1>4, <1>5
  <2>2. x % a.cap = y % a.cap /\ x \div a.cap = y \div a.cap
    BY <1>5, <2>1 DEF PlaceOf, LapOf
  <2>3. x \in Nat /\ y \in Nat
    BY <1>1, <1>2, <2>1
  <2> HIDE DEF x, y
  <2>4. x = y
    BY <1>2, <2>2, <2>3, SameRemainder
  <2>5. QED
    BY <1>2, <2>4 DEF x, y
<1>6. QED
  BY <1>1, <1>3, <1>4, <1>5

\* A call that has settled on an array is at its ticket's place.
LEMMA AtHome ==
  ASSUME Typed, Served, Fits, NEW t \in Threads, pc[t] \in Located
  PROVE  /\ use[t] \in ArraysKnown /\ ticket[t] \in Nat /\ Serves(use[t], ticket[t])
         /\ Place(t) = PlaceOf(use[t], ticket[t]) /\ Lap(t) = LapOf(use[t], ticket[t])
         /\ Place(t) \in Places /\ Lap(t) \in Nat
         /\ op[t] = "push" => Target(t) = 2 * Lap(t)
         /\ op[t] = "pop" => Target(t) = 2 * Lap(t) + 1
         /\ op[t] \in {"push", "pop"} /\ Target(t) \in Nat
<1>1. use[t] \in ArraysKnown /\ ticket[t] \in Nat /\ Serves(use[t], ticket[t])
  BY DEF Typed, Served
<1>2. Place(t) = PlaceOf(use[t], ticket[t]) /\ Lap(t) = LapOf(use[t], ticket[t])
  BY DEF Place, Lap, PlaceOf, LapOf
<1>3. Place(t) \in Places /\ Lap(t) \in Nat
  BY <1>1, <1>2, Homes
<1>4. op[t] = "push" => Target(t) = 2 * Lap(t)
  BY <1>3 DEF Target
<1>5. op[t] = "pop" => Target(t) = 2 * Lap(t) + 1
  BY DEF Target
<1>6. op[t] \in {"push", "pop"}
  BY DEF Typed
<1>7. QED
  BY <1>1, <1>2, <1>3, <1>4, <1>5, <1>6

\* Even and odd turns differ.
LEMMA Parity ==
  \A m, n \in Nat : /\ 2 * m # 2 * n + 1
                    /\ 2 * m = 2 * n => m = n
                    /\ 2 * m + 1 = 2 * n + 1 => m = n
OBVIOUS

\* The word counts the arrays.
LEMMA KnownCounted ==
  ASSUME Typed, Numbered, NEW a \in ArraysKnown
  PROVE  ~(a.slots > dstate.numClosed)
<1>1. /\ Len(closed) \in Nat /\ dstate.numClosed \in Nat
      /\ \A i \in 1..Len(closed) : closed[i].slots = i - 1
      /\ dslots = Len(closed)
  BY ClosedTyped DEF Typed, Words, Numbered
<1>2. CASE Replacing
  <2>1. Len(closed) = dstate.numClosed + 1
    BY <1>2 DEF Numbered
  <2>2. PICK i \in 1..Len(closed) : a = closed[i]
    BY <1>2 DEF ArraysKnown
  <2>3. QED
    BY <1>1, <2>1, <2>2
<1>3. CASE ~Replacing
  <2>1. Len(closed) = dstate.numClosed
    BY <1>1, <1>3 DEF Numbered
  <2>2. \/ \E i \in 1..Len(closed) : a = closed[i]
        \/ a = Array(dslots, dcapacity, dstate.offset)
    BY <1>3 DEF ArraysKnown
  <2>3. QED
    BY <1>1, <2>1, <2>2 DEF Array
<1>4. QED
  BY <1>2, <1>3

\* Two calls that are at their turn in one place are one call.
LEMMA OneAtTurn ==
  ASSUME Typed, Numbered, Served, Fits, Claims,
         NEW t \in Threads, NEW u \in Threads, pc[t] \in Settled, pc[u] \in Settled,
         AtTurn(t), AtTurn(u), Place(t) = Place(u)
  PROVE  t = u
<1>1. Lap(t) \in Nat /\ Lap(u) \in Nat /\ Target(t) = Target(u)
  BY AtHome DEF AtTurn, Located
<1>2. /\ op[t] = "push" => Target(t) = 2 * Lap(t)
      /\ op[t] = "pop" => Target(t) = 2 * Lap(t) + 1
      /\ op[u] = "push" => Target(u) = 2 * Lap(u)
      /\ op[u] = "pop" => Target(u) = 2 * Lap(u) + 1
      /\ op[t] \in {"push", "pop"} /\ op[u] \in {"push", "pop"}
  BY AtHome DEF Located
<1>3. op[t] = op[u] /\ Lap(t) = Lap(u)
  BY <1>1, <1>2
<1>4. ticket[t] = ticket[u]
  <2>1. /\ use[t] \in ArraysKnown /\ ticket[t] \in Nat /\ Serves(use[t], ticket[t])
        /\ use[u] \in ArraysKnown /\ ticket[u] \in Nat /\ Serves(use[u], ticket[u])
        /\ PlaceOf(use[t], ticket[t]) = PlaceOf(use[u], ticket[u])
        /\ LapOf(use[t], ticket[t]) = LapOf(use[u], ticket[u])
    BY <1>3, AtHome DEF Located
  <2>2. QED
    BY <2>1, SameHome
<1>5. QED
  BY <1>3, <1>4 DEF Claims, Settled, Inside

-----------------------------------------------------------------------------
\* Only the end of an expansion makes an array known.
LEMMA KnownKept ==
  ASSUME IInv, NEW t \in Threads, Start(t) \/ Progress(t), ~Unlock(t)
  PROVE  ArraysKnown' = ArraysKnown /\ \A a, k : Serves(a, k)' <=> Serves(a, k)
<1>1. Typed
  BY DEF IInv
<1>2. ASSUME NEW q, pc' = [pc EXCEPT ![t] = q],
             pc[t] \notin {"store capacity", "unlock"}, q \notin {"store capacity", "unlock"},
             UNCHANGED <<dslots, dcapacity, closed>>, dstate'.offset = dstate.offset
      PROVE  ArraysKnown' = ArraysKnown /\ \A a, k : Serves(a, k)' <=> Serves(a, k)
  BY <1>1, <1>2, ReplacingSame, KnownSame DEF Typed
<1>3. CASE Start(t)
  BY <1>2, <1>3 DEF Start, BlockingRead, BlockingWrite, Go, arrays
<1>4. CASE LoadState(t) \/ LoadSlots(t) \/ LoadCapacity(t)
  BY <1>2, <1>4 DEF LoadState, LoadSlots, LoadCapacity, Go, arrays
<1>5. CASE Recheck(t)
  BY <1>2, <1>5 DEF Recheck, arrays
<1>6. CASE Look(t) \/ LoadPops(t)
  BY <1>2, <1>6 DEF Look, LoadPops, Go, arrays
<1>7. CASE Lock(t)
  <2>1. dstate'.offset = dstate.offset
    BY <1>1, <1>7 DEF Lock, Typed, Words
  <2>2. QED
    BY <1>2, <1>7, <2>1 DEF Lock
<1>8. CASE LoadCounter(t)
  <2>1. Replacing' <=> Replacing
    BY <1>8 DEF LoadCounter, Replacing
  <2>2. QED
    BY <1>8, <2>1, KnownSame DEF LoadCounter, arrays
<1>9. CASE StoreSlots(t)
  <2>1. closed' = Append(closed, Array(dslots, dcapacity, dstate.offset))
    BY <1>9 DEF StoreSlots, Go, IInv, Expander, Expanding
  <2>2. Replacing' /\ ~Replacing
    <3>1. \A u \in Threads : u # t => pc[u] \notin Expanding
      BY <1>9 DEF StoreSlots, Go, IInv, Expander, Expanding
    <3>2. QED
      BY <1>1, <1>9, <3>1 DEF StoreSlots, Go, Typed, Replacing, Expanding
  <2>3. /\ Len(closed') = Len(closed) + 1 /\ Len(closed) \in Nat
        /\ \A i \in 1..Len(closed) : closed'[i] = closed[i]
        /\ closed'[Len(closed) + 1] = Array(dslots, dcapacity, dstate.offset)
    <3>1. closed \in Seq(ArrayRecords)
      BY <1>1 DEF Typed
    <3>2. Array(dslots, dcapacity, dstate.offset) \in ArrayRecords
      BY <1>1 DEF Typed, Array, ArrayRecords, Words
    <3>3. QED
      BY <2>1, <3>1, <3>2
  <2>4. /\ ArraysKnown = {closed[i] : i \in 1..Len(closed)}
                          \cup {Array(dslots, dcapacity, dstate.offset)}
        /\ ArraysKnown' = {closed'[i] : i \in 1..Len(closed')}
    BY <2>2 DEF ArraysKnown
  <2>5. ArraysKnown' = ArraysKnown
    BY <2>3, <2>4
  <2>6. QED
    BY <2>5 DEF Serves
<1>10. CASE StoreCapacity(t)
  <2>1. Replacing /\ Replacing'
    BY <1>1, <1>10 DEF StoreCapacity, Go, Typed, Replacing
  <2>2. ArraysKnown' = ArraysKnown
    BY <1>10, <2>1 DEF StoreCapacity, ArraysKnown
  <2>3. QED
    BY <2>2 DEF Serves
<1>11. CASE WaitForTurn(t) \/ Construct(t) \/ MoveOut(t) \/ CompleteTurn(t)
  BY <1>2, <1>11 DEF WaitForTurn, Construct, MoveOut, CompleteTurn, Go, arrays
<1>12. QED
  BY <1>3, <1>4, <1>5, <1>6, <1>7, <1>8, <1>9, <1>10, <1>11 DEF Progress

\* It makes one, for the tickets from its offset on, which no call that has
\* settled has, and which were not handed out when the counters were loaded.
LEMMA UnlockKnown ==
  ASSUME IInv, NEW t \in Threads, Unlock(t),
         NEW new, new = Array(dslots, dcapacity, NewOffset(t))
  PROVE  /\ ArraysKnown' = ArraysKnown \cup {new}
         /\ new.offset = NewOffset(t) /\ new.offset \in Nat
         /\ loaded[t].pushes \in Nat /\ loaded[t].pushes < new.offset
         /\ loaded[t].pops \in Nat /\ loaded[t].pops < new.offset
         /\ dstate.offset \in Nat /\ dstate.offset < new.offset
         /\ \A a \in ArraysKnown, k \in Nat : Serves(a, k)' <=> k < new.offset /\ Serves(a, k)
         /\ \A k \in Nat : Serves(new, k)' <=> new.offset <= k
         /\ Replacing /\ ~Replacing'
<1>1. /\ Typed /\ Expander /\ Counted /\ Numbered /\ pc[t] = "unlock"
      /\ pc' = [pc EXCEPT ![t] = "load state"]
      /\ dstate' = Word(NewOffset(t), snap[t].state.numClosed + 1)
      /\ UNCHANGED <<dslots, dcapacity, closed>>
  BY DEF IInv, Unlock, Go
<1>2. loaded[t].pushes \in Nat /\ loaded[t].pops \in Nat /\ ticket[t] < loaded[t].pushes
  BY <1>1 DEF Typed, Counted, Loaded, Expanding
<1>3. /\ new.offset = NewOffset(t) /\ new.offset \in Nat
      /\ loaded[t].pushes < new.offset /\ loaded[t].pops < new.offset
  BY <1>2 DEF NewOffset, Larger, Array
<1>4. dstate.offset \in Nat /\ dstate.offset < new.offset
  <2>1. snap[t].state.offset = dstate.offset
    BY <1>1 DEF Expander, Expanding
  <2>2. ticket[t] >= dstate.offset /\ ticket[t] \in Nat
    BY <1>1, <2>1 DEF IInv, Typed, Pushing, Expanding
  <2>3. dstate.offset \in Nat
    BY <1>1 DEF Typed, Words
  <2>4. QED
    BY <1>2, <1>3, <2>2, <2>3
<1>5. Replacing /\ ~Replacing'
  <2>1. \A u \in Threads : u # t => pc[u] \notin Expanding
    BY <1>1 DEF Expander, Expanding
  <2>2. QED
    BY <1>1, <2>1 DEF Typed, Replacing, Expanding
<1>6. ArraysKnown = {closed[i] : i \in 1..Len(closed)}
  BY <1>5 DEF ArraysKnown
<1>7. ArraysKnown' = ArraysKnown \cup {new}
  BY <1>1, <1>5, <1>6 DEF ArraysKnown, Word
<1>8. \A a \in ArraysKnown : a.offset \in Nat /\ a.offset < new.offset
  <2>1. \A i \in 1..Len(closed) : closed[i].offset \in Nat /\ closed[i].offset <= dstate.offset
    BY <1>1, ClosedTyped DEF Numbered
  <2>2. QED
    BY <1>3, <1>4, <1>6, <2>1
<1>9. ASSUME NEW a \in ArraysKnown, NEW k \in Nat
      PROVE  Serves(a, k)' <=> k < new.offset /\ Serves(a, k)
  <2>1. a.offset \in Nat /\ a.offset < new.offset
    BY <1>8
  <2>2. QED
    BY <1>3, <1>7, <2>1 DEF Serves
<1>10. ASSUME NEW k \in Nat
       PROVE  Serves(new, k)' <=> new.offset <= k
  BY <1>3, <1>7, <1>8 DEF Serves
<1>11. QED
  BY <1>2, <1>3, <1>4, <1>5, <1>7, <1>9, <1>10

-----------------------------------------------------------------------------
\* The capacities an array will have are natural and grow.
LEMMA PlannedCapacities ==
  /\ MaxClosed \in Nat /\ Len(Capacities) = MaxClosed + 1
  /\ \A i \in 1..(MaxClosed + 1) :
       /\ Capacities[i] \in Nat \ {0} /\ Capacities[i] <= Capacity
       /\ Capacities[i] # Capacity => i <= MaxClosed
  /\ \A i \in 1..MaxClosed :
       Capacities[i + 1] = Smaller(Capacity, Capacities[i] * Multiplier)
<1>1. Len(Capacities) \in Nat \ {0} /\ Capacity \in Nat
  BY DynamicMPMCQueueAssumption
<1>2. MaxClosed \in Nat /\ Len(Capacities) = MaxClosed + 1
  BY <1>1 DEF MaxClosed
<1>3. ASSUME NEW i \in 1..(MaxClosed + 1)
      PROVE  /\ Capacities[i] \in Nat \ {0} /\ Capacities[i] <= Capacity
             /\ Capacities[i] # Capacity => i <= MaxClosed
  <2>1. Capacities[i] \in Nat \ {0}
    BY <1>2, DynamicMPMCQueueAssumption
  <2>2. i = MaxClosed + 1 => Capacities[i] = Capacity
    BY <1>2, DynamicMPMCQueueAssumption
  <2>3. i \in 1..MaxClosed => Capacities[i] < Capacity
    BY DynamicMPMCQueueAssumption
  <2>4. i = MaxClosed + 1 \/ i \in 1..MaxClosed
    BY <1>2
  <2>5. QED
    BY <1>1, <1>2, <2>1, <2>2, <2>3, <2>4
<1>4. QED
  BY <1>2, <1>3, DynamicMPMCQueueAssumption

\* The arrays grow as planned, and closed_ has room for those that are replaced.
LEMMA FitsStep ==
  ASSUME IInv, Fits, NEW t \in Threads, Start(t) \/ Progress(t)
  PROVE  Fits'
<1>1. Typed /\ Expander /\ dslots \in Nat
  BY DEF IInv, Typed
<1>2. ASSUME UNCHANGED <<dslots, dcapacity>>, ~Unlock(t),
             \A u \in Threads : pc'[u] = "store capacity" <=> pc[u] = "store capacity",
             \A u \in Threads : pc'[u] \in {"lock"} \cup Expanding =>
               snap'[u].cap = snap[u].cap /\ snap[u].cap # Capacity
      PROVE  Fits'
  <2>1. ArraysKnown' = ArraysKnown
    BY <1>2, KnownKept
  <2>2. \A u \in Threads : pc[u] = "store capacity" => snap'[u].cap = snap[u].cap
    BY <1>2 DEF Expanding
  <2>3. QED
    BY <1>2, <2>1, <2>2 DEF Fits
<1>3. CASE Start(t)
  <2>1. /\ UNCHANGED <<arrays, snap>> /\ pc' = [pc EXCEPT ![t] = "load state"]
        /\ pc[t] = "idle"
    BY <1>3 DEF Start, BlockingRead, BlockingWrite, Go
  <2>2. ~Unlock(t)
    BY <2>1 DEF Unlock, Go
  <2>3. QED
    BY <1>1, <1>2, <2>1, <2>2 DEF Typed, Fits, Expanding, arrays
<1>4. CASE LoadState(t) \/ LoadSlots(t) \/ LoadCapacity(t)
  <2>1. /\ UNCHANGED <<arrays>>
        /\ pc[t] \in {"load state", "load slots", "load capacity"}
        /\ pc'[t] \in {"load slots", "load capacity", "recheck"}
        /\ \A u \in Threads : u # t => pc'[u] = pc[u] /\ snap'[u] = snap[u]
    BY <1>1, <1>4 DEF LoadState, LoadSlots, LoadCapacity, Go, Typed
  <2>2. ~Unlock(t)
    BY <2>1 DEF Unlock, Go
  <2>3. QED
    BY <1>2, <2>1, <2>2 DEF Fits, Expanding, arrays
<1>5. CASE \/ Recheck(t) \/ Look(t) \/ WaitForTurn(t)
           \/ Construct(t) \/ MoveOut(t) \/ CompleteTurn(t)
  <2>1. /\ UNCHANGED <<arrays, snap>>
        /\ pc[t] \notin {"lock", "unlock"} \cup Expanding /\ pc'[t] \notin {"lock"} \cup Expanding
        /\ \A u \in Threads : u # t => pc'[u] = pc[u]
    BY <1>1, <1>5 DEF Recheck, Look, WaitForTurn, Construct, MoveOut, CompleteTurn, Go, Typed,
       Expanding, arrays
  <2>2. ~Unlock(t)
    BY <2>1 DEF Unlock, Go
  <2>3. QED
    BY <1>2, <2>1, <2>2 DEF Fits, Expanding, arrays
<1>6. CASE LoadPops(t)
  <2>1. /\ UNCHANGED <<arrays, snap>> /\ pc[t] = "load pops"
        /\ pc'[t] \in {"load state", "wait", "lock"}
        /\ pc'[t] = "lock" => snap[t].cap # Capacity
        /\ \A u \in Threads : u # t => pc'[u] = pc[u]
    BY <1>1, <1>6 DEF LoadPops, Go, Typed
  <2>2. ~Unlock(t)
    BY <2>1 DEF Unlock, Go
  <2>3. QED
    BY <1>2, <2>1, <2>2 DEF Fits, Expanding, arrays
<1>7. CASE Lock(t) \/ LoadCounter(t)
  <2>1. /\ UNCHANGED <<dslots, dcapacity, snap>> /\ pc[t] \in {"lock", "load counters"}
        /\ pc'[t] \in {"load state", "load counters"}
        /\ \A u \in Threads : u # t => pc'[u] = pc[u]
    BY <1>1, <1>7 DEF Lock, LoadCounter, Typed, arrays
  <2>2. ~Unlock(t)
    BY <2>1 DEF Unlock, Go
  <2>3. QED
    BY <1>2, <2>1, <2>2 DEF Fits, Expanding
<1>8. CASE StoreSlots(t)
  <2>1. /\ pc[t] = "load counters" /\ pc' = [pc EXCEPT ![t] = "store capacity"]
        /\ dslots' = dslots + 1 /\ UNCHANGED <<dcapacity, snap>>
    BY <1>8 DEF StoreSlots, Go
  <2>2. \A u \in Threads : u # t => pc[u] \notin Expanding /\ pc'[u] = pc[u]
    BY <1>1, <2>1 DEF Expander, Expanding, Typed
  <2>3. snap[t].cap = Capacities[dslots + 1] /\ snap[t].cap # Capacity /\ dslots <= MaxClosed
    BY <1>1, <2>1, <2>2 DEF Fits, Expander, Expanding
  <2>4. dslots + 1 <= MaxClosed
    <3>1. dslots + 1 \in 1..(MaxClosed + 1)
      BY <1>1, <2>3, PlannedCapacities
    <3>2. QED
      BY <2>3, <3>1, PlannedCapacities
  <2>5. ArraysKnown' = ArraysKnown
    <3>1. ~Unlock(t)
      BY <2>1 DEF Unlock, Go
    <3>2. QED
      BY <1>8, <3>1, KnownKept DEF Progress
  <2>6. pc'[t] = "store capacity"
    BY <1>1, <2>1 DEF Typed
  <2>7. \A u \in Threads : pc'[u] = "store capacity" =>
          dslots' > 0 /\ snap'[u].cap = Capacities[dslots']
    <3>1. dslots + 1 > 0
      BY <1>1
    <3>2. dslots' = dslots + 1 /\ snap' = snap
      BY <2>1
    <3>3. \A u \in Threads : pc'[u] = "store capacity" => u = t
      BY <2>2 DEF Expanding
    <3>4. QED
      BY <2>3, <3>1, <3>2, <3>3
  <2>8. \A u \in Threads : pc'[u] \in {"lock"} \cup Expanding => snap'[u].cap # Capacity
    BY <2>1, <2>2, <2>3 DEF Fits
  <2>9. QED
    BY <2>1, <2>4, <2>5, <2>6, <2>7, <2>8 DEF Fits
<1>9. CASE StoreCapacity(t)
  <2>1. /\ pc[t] = "store capacity" /\ pc' = [pc EXCEPT ![t] = "unlock"]
        /\ dcapacity' = Smaller(Capacity, snap[t].cap * Multiplier) /\ UNCHANGED <<dslots, snap>>
    BY <1>9 DEF StoreCapacity, Go
  <2>2. \A u \in Threads : u # t => pc[u] \notin Expanding /\ pc'[u] = pc[u]
    BY <1>1, <2>1 DEF Expander, Expanding, Typed
  <2>3. dcapacity' = Capacities[dslots + 1]
    <3>1. snap[t].cap = Capacities[dslots] /\ dslots > 0 /\ dslots <= MaxClosed
      BY <2>1 DEF Fits
    <3>2. dslots \in 1..MaxClosed
      BY <1>1, <3>1, PlannedCapacities
    <3>3. QED
      BY <2>1, <3>1, <3>2, PlannedCapacities
  <2>4. ArraysKnown' = ArraysKnown
    <3>1. ~Unlock(t)
      BY <2>1 DEF Unlock, Go
    <3>2. QED
      BY <1>9, <3>1, KnownKept DEF Progress
  <2>5. \A u \in Threads : pc'[u] # "store capacity"
    BY <1>1, <2>1, <2>2 DEF Typed, Expanding
  <2>6. \A u \in Threads : pc'[u] \in {"lock"} \cup Expanding => snap[u].cap # Capacity
    BY <2>1, <2>2 DEF Fits, Expanding
  <2>7. QED
    BY <2>1, <2>3, <2>4, <2>5, <2>6 DEF Fits
<1>10. CASE Unlock(t)
  <2> DEFINE new == Array(dslots, dcapacity, NewOffset(t))
  <2>1. /\ pc[t] = "unlock" /\ pc' = [pc EXCEPT ![t] = "load state"]
        /\ UNCHANGED <<dslots, dcapacity, snap>>
    BY <1>10 DEF Unlock, Go
  <2>2. \A u \in Threads : u # t => pc[u] \notin Expanding /\ pc'[u] = pc[u]
    BY <1>1, <2>1 DEF Expander, Expanding, Typed
  <2>3. ArraysKnown' = ArraysKnown \cup {new}
    BY <1>10, UnlockKnown
  <2>4. \A u \in Threads : pc[u] # "store capacity" /\ pc'[u] # "store capacity"
    BY <1>1, <2>1, <2>2 DEF Typed, Expanding
  <2>5. dcapacity = Capacities[dslots + 1] /\ dslots <= MaxClosed
    BY <2>4 DEF Fits
  <2>6. new.slots = dslots /\ new.cap = dcapacity /\ dcapacity <= Capacity
    <3>1. dslots + 1 \in 1..(MaxClosed + 1)
      BY <1>1, <2>5, PlannedCapacities
    <3>2. QED
      BY <2>5, <3>1, PlannedCapacities DEF Array
  <2> HIDE DEF new
  <2>7. \A u \in Threads : pc'[u] \in {"lock"} \cup Expanding => snap[u].cap # Capacity
    BY <1>1, <2>1, <2>2 DEF Fits, Expanding, Typed
  <2>8. QED
    BY <2>1, <2>3, <2>4, <2>5, <2>6, <2>7 DEF Fits
<1>11. QED
  BY <1>3, <1>4, <1>5, <1>6, <1>7, <1>8, <1>9, <1>10 DEF Progress

-----------------------------------------------------------------------------
\* A step of a call that leaves the slots, the elements and the tickets alone.
LEMMA SlotsQuiet ==
  ASSUME IInv, SInv, NEW t \in Threads,
         UNCHANGED <<queue, slots, call, elem, history>>,
         \A u \in Threads : u # t => pc'[u] = pc[u] /\ use'[u] = use[u],
         pc[t] \notin Inside \cup {"idle"}, pc'[t] # "complete",
         pc'[t] = "in" => AtTurn(t) /\ use'[t] = use[t],
         ArraysKnown' = ArraysKnown, \A a, k : Serves(a, k)' <=> Serves(a, k),
         dstate'.numClosed = dstate.numClosed
  PROVE  SlotsTyped' /\ Claims' /\ InTurn' /\ TurnsTell' /\ Stored' /\ Fresh'
<1>1. /\ UNCHANGED <<pushTicket, popTicket, slotTurn, contents, op, ticket, elem>>
      /\ UNCHANGED <<offered, published, delivered>>
  BY DEF queue, slots, call, history
<1>2. \A u \in Threads : pc'[u] # "idle" => pc[u] # "idle"
  OBVIOUS
<1>3. \A u \in Threads : \A k, kind : Completing(u, k, kind)' <=> Completing(u, k, kind)
  BY <1>1 DEF Completing, Inside
<1>4. \A a, k : PlaceOf(a, k)' = PlaceOf(a, k) /\ LapOf(a, k)' = LapOf(a, k)
  BY DEF PlaceOf, LapOf
<1>5. SlotsTyped'
  BY <1>1 DEF SInv, SlotsTyped
<1>6. Claims'
  BY <1>1, <1>2 DEF SInv, Claims, TakenTickets
<1>7. InTurn'
  <2>1. ASSUME NEW u \in Threads, pc'[u] \in Inside
        PROVE  AtTurn(u) /\ use'[u] = use[u]
    <3>1. u # t => pc[u] \in Inside /\ use'[u] = use[u]
      BY <2>1
    <3>2. u = t => pc'[t] = "in"
      BY <2>1 DEF Inside
    <3>3. QED
      BY <3>1, <3>2 DEF SInv, InTurn
  <2>2. \A u \in Threads : use'[u] = use[u] => (AtTurn(u)' <=> AtTurn(u))
    BY <1>1 DEF AtTurn, Place, Target, Lap
  <2>3. QED
    BY <2>1, <2>2 DEF InTurn
<1>8. TurnsTell'
  BY <1>1, <1>4 DEF SInv, TurnsTell, TakenTickets
<1>9. Stored'
  <2>1. ASSUME NEW u \in Threads, pc'[u] = "complete"
        PROVE  pc[u] = "complete" /\ Place(u)' = Place(u)
    BY <1>1, <2>1 DEF Place
  <2>2. \A u \in Threads : pc'[u] = "complete" =>
          IF op'[u] = "push" THEN contents'[Place(u)'] = {elem'[u]}
          ELSE contents'[Place(u)'] = {} /\ elem'[u] = offered'[ticket'[u] + 1]
    BY <1>1, <2>1 DEF SInv, Stored
  <2>3. \A a \in ArraysKnown', k \in Nat : Serves(a, k)' =>
         /\ slotTurn'[PlaceOf(a, k)] = 2 * LapOf(a, k)
              /\ (\A u \in Threads : ~Completing(u, k, "push")') => contents'[PlaceOf(a, k)] = {}
         /\ slotTurn'[PlaceOf(a, k)] = 2 * LapOf(a, k) + 1
              /\ (\A u \in Threads : ~Completing(u, k, "pop")')
                => contents'[PlaceOf(a, k)] = {offered'[k + 1]}
    BY <1>1, <1>3 DEF SInv, Stored
  <2>4. QED
    BY <1>4, <2>2, <2>3 DEF Stored
<1>10. Fresh'
  BY <1>1 DEF SInv, Fresh
<1>11. QED
  BY <1>5, <1>6, <1>7, <1>8, <1>9, <1>10

\* What a push that waits has seen stays as good as it was for every other call.
LEMMA WaitsOthers ==
  ASSUME IInv, Waits, NEW t \in Threads,
         UNCHANGED <<slotTurn, call>>, dstate'.offset = dstate.offset,
         \A u \in Threads : u # t => pc'[u] = pc[u] /\ use'[u] = use[u] /\ snap'[u] = snap[u],
         pc'[t] \in Searching => use'[t].cap = snap'[t].cap,
         pc'[t] = "wait" /\ op[t] = "push" =>
           use'[t].cap = Capacity \/ ticket[t] < dstate.offset \/ AtTurn(t)'
  PROVE  Waits'
<1>1. op' = op /\ ticket' = ticket
  BY DEF call
<1>2. ASSUME NEW u \in Threads, u # t
      PROVE  AtTurn(u)' <=> AtTurn(u)
  BY <1>1, <1>2 DEF AtTurn, Place, Target, Lap
<1>3. ASSUME NEW u \in Threads
      PROVE  /\ pc'[u] \in Searching => use'[u].cap = snap'[u].cap
             /\ pc'[u] = "wait" /\ op'[u] = "push" =>
                  use'[u].cap = Capacity \/ ticket'[u] < dstate'.offset \/ AtTurn(u)'
  <2>1. CASE u = t
    BY <1>1, <2>1
  <2>2. CASE u # t
    BY <1>1, <1>2, <2>2 DEF Waits
  <2>3. QED
    BY <2>1, <2>2
<1>4. QED
  BY <1>3 DEF Waits

\* The steps before a call is inside its slot, but for the end of an expansion.
LEMMA SearchStep ==
  ASSUME IInv, SInv, NEW t \in Threads,
         \/ LoadState(t) \/ LoadSlots(t) \/ LoadCapacity(t) \/ Recheck(t) \/ Look(t)
         \/ LoadPops(t) \/ Lock(t) \/ LoadCounter(t) \/ StoreSlots(t) \/ StoreCapacity(t)
         \/ WaitForTurn(t)
  PROVE  SInv'
<1>1. Typed
  BY DEF IInv
<1>2. /\ UNCHANGED <<queue, slots, call, elem, history>>
      /\ \A u \in Threads : u # t => pc'[u] = pc[u] /\ use'[u] = use[u] /\ snap'[u] = snap[u]
      /\ pc[t] \notin Inside \cup {"idle", "unlock"} /\ pc'[t] # "complete"
      /\ pc'[t] = "in" => WaitForTurn(t)
      /\ dstate'.numClosed = dstate.numClosed /\ dstate'.offset = dstate.offset
  <2>1. CASE LoadState(t) \/ LoadSlots(t) \/ LoadCapacity(t)
    BY <1>1, <2>1 DEF LoadState, LoadSlots, LoadCapacity, Go, Typed, Inside, arrays
  <2>2. CASE Recheck(t)
    BY <1>1, <2>2 DEF Recheck, Typed, Inside, arrays
  <2>3. CASE Look(t) \/ LoadPops(t) \/ WaitForTurn(t)
    BY <1>1, <2>3 DEF Look, LoadPops, WaitForTurn, Go, Typed, Inside, arrays
  <2>4. CASE Lock(t)
    <3>1. dstate'.numClosed = dstate.numClosed /\ dstate'.offset = dstate.offset
      BY <1>1, <2>4 DEF Lock, Typed, Words
    <3>2. QED
      BY <1>1, <2>4, <3>1 DEF Lock, Typed, Inside
  <2>5. CASE LoadCounter(t)
    BY <1>1, <2>5 DEF LoadCounter, Typed, Inside, arrays
  <2>6. CASE StoreSlots(t) \/ StoreCapacity(t)
    BY <1>1, <2>6 DEF StoreSlots, StoreCapacity, Go, Typed, Inside
  <2>7. QED
    BY <2>1, <2>2, <2>3, <2>4, <2>5, <2>6
<1>3. ~Unlock(t)
  BY <1>2 DEF Unlock, Go
<1>4. ArraysKnown' = ArraysKnown /\ \A a, k : Serves(a, k)' <=> Serves(a, k)
  BY <1>3, KnownKept DEF Progress
<1>5. pc'[t] = "in" => AtTurn(t) /\ use'[t] = use[t]
  BY <1>2 DEF WaitForTurn
<1>6. SlotsTyped' /\ Claims' /\ InTurn' /\ TurnsTell' /\ Stored' /\ Fresh'
  BY <1>2, <1>4, <1>5, SlotsQuiet
<1>7. Fits'
  BY FitsStep DEF SInv, Progress
<1>8. Past'
  <2>1. UNCHANGED <<pushTicket, popTicket, published, delivered>>
    BY <1>2 DEF queue, history
  <2>2. CASE LoadCounter(t)
    <3>1. \/ loaded' = [loaded EXCEPT ![t].pushes = pushTicket]
          \/ loaded' = [loaded EXCEPT ![t].pops = popTicket]
      BY <2>2 DEF LoadCounter
    <3>2. CASE loaded' = [loaded EXCEPT ![t].pushes = pushTicket]
      BY <1>1, <2>1, <3>2 DEF SInv, Past, TakenTickets, Typed
    <3>3. CASE loaded' = [loaded EXCEPT ![t].pops = popTicket]
      BY <1>1, <2>1, <3>3 DEF SInv, Past, TakenTickets, Typed
    <3>4. QED
      BY <3>1, <3>2, <3>3
  <2>3. CASE ~LoadCounter(t)
    <3>1. loaded' = loaded
      BY <2>3 DEF LoadState, LoadSlots, LoadCapacity, Recheck, Look, LoadPops, Lock, StoreSlots,
         StoreCapacity, WaitForTurn
    <3>2. QED
      BY <2>1, <3>1 DEF SInv, Past, TakenTickets
  <2>4. QED
    BY <2>2, <2>3
<1>9. Waits'
  <2>1. /\ pc'[t] \in Searching => use'[t].cap = snap'[t].cap
        /\ pc'[t] = "wait" /\ op[t] = "push" =>
             use'[t].cap = Capacity \/ ticket[t] < dstate.offset \/ AtTurn(t)'
    <3>1. CASE Recheck(t)
      <4>1. CASE ~SectionHeld(t)
        BY <1>1, <3>1, <4>1 DEF Recheck, Typed, Searching
      <4>2. CASE SectionHeld(t)
        <5>1. /\ use' = [use EXCEPT ![t] = Lookup(ticket[t], snap[t])] /\ snap' = snap
              /\ pc' = [pc EXCEPT ![t] = IF op[t] = "push" /\ ~FromClosed(ticket[t], snap[t])
                                          THEN "look" ELSE "wait"]
          BY <3>1, <4>2 DEF Recheck
        <5>2. CASE op[t] = "push" /\ ~FromClosed(ticket[t], snap[t])
          BY <1>1, <5>1, <5>2 DEF Typed, Lookup, Array, Searching
        <5>3. CASE op[t] # "push"
          BY <1>1, <5>1, <5>3 DEF Typed, Searching
        <5>4. CASE FromClosed(ticket[t], snap[t])
          BY <1>1, <4>2, <5>1, <5>4 DEF Typed, Searching, FromClosed, SectionHeld
        <5>5. QED
          BY <5>2, <5>3, <5>4
      <4>3. QED
        BY <4>1, <4>2
    <3>2. CASE Look(t)
      <4>1. /\ pc[t] \in Searching /\ use' = use /\ snap' = snap
            /\ pc'[t] = "wait" => AtTurn(t)
        BY <1>1, <3>2 DEF Look, Go, Typed, Searching
      <4>2. AtTurn(t)' <=> AtTurn(t)
        BY <1>2, <4>1 DEF AtTurn, Place, Target, Lap, call, slots
      <4>3. QED
        BY <4>1, <4>2 DEF SInv, Waits
    <3>3. CASE LoadPops(t)
      <4>1. /\ pc[t] \in Searching /\ use' = use /\ snap' = snap
            /\ pc'[t] = "wait" => snap[t].cap = Capacity
            /\ pc'[t] \notin Searching
        BY <1>1, <3>3 DEF LoadPops, Go, Typed, Searching
      <4>2. QED
        BY <4>1 DEF SInv, Waits
    <3>4. CASE LoadState(t) \/ LoadSlots(t) \/ LoadCapacity(t)
      BY <1>1, <3>4 DEF LoadState, LoadSlots, LoadCapacity, Go, Typed, Searching
    <3>5. CASE Lock(t) \/ LoadCounter(t) \/ StoreSlots(t) \/ StoreCapacity(t) \/ WaitForTurn(t)
      BY <1>1, <3>5 DEF Lock, LoadCounter, StoreSlots, StoreCapacity, WaitForTurn, Go, Typed,
         Searching
    <3>6. QED
      BY <3>1, <3>2, <3>3, <3>4, <3>5
  <2>2. QED
    BY <1>2, <2>1, WaitsOthers DEF SInv, slots
<1>10. QED
  BY <1>6, <1>7, <1>8, <1>9 DEF SInv

\* A call takes a ticket that no other has, nor had.
LEMMA CallStep ==
  ASSUME IInv, SInv, NEW t \in Threads, Start(t)
  PROVE  SInv'
<1>1. Typed /\ pushTicket \in Nat /\ popTicket \in Nat /\ t \in DOMAIN elem
  BY DEF IInv, SInv, Typed, SlotsTyped
<1>2. /\ UNCHANGED <<arrays, slots, snap, use, loaded, published, delivered>>
      /\ pc[t] = "idle" /\ pc' = [pc EXCEPT ![t] = "load state"]
      /\ \A u \in Threads : u # t => /\ op'[u] = op[u] /\ ticket'[u] = ticket[u]
                                     /\ elem'[u] = elem[u] /\ pc'[u] = pc[u]
  <2>1. CASE BlockingRead(t)
    BY <1>1, <2>1 DEF BlockingRead, Go, Typed, history
  <2>2. ASSUME NEW v \in Values, BlockingWrite(t, v)
        PROVE  /\ UNCHANGED <<arrays, slots, snap, use, loaded, published, delivered>>
               /\ pc[t] = "idle" /\ pc' = [pc EXCEPT ![t] = "load state"]
               /\ \A u \in Threads : u # t => /\ op'[u] = op[u] /\ ticket'[u] = ticket[u]
                                              /\ elem'[u] = elem[u] /\ pc'[u] = pc[u]
    BY <1>1, <2>2 DEF BlockingWrite, Go, Typed, SInv, SlotsTyped
  <2>3. QED
    BY <2>1, <2>2 DEF Start
<1>3. pc'[t] = "load state"
  BY <1>1, <1>2 DEF Typed
<1>4. \/ /\ op'[t] = "pop" /\ ticket'[t] = popTicket /\ popTicket' = popTicket + 1
         /\ UNCHANGED <<pushTicket, offered, elem>>
      \/ \E v \in Values :
           /\ op'[t] = "push" /\ ticket'[t] = pushTicket /\ pushTicket' = pushTicket + 1
           /\ elem' = [elem EXCEPT ![t] = v] /\ offered' = Append(offered, v)
           /\ popTicket' = popTicket /\ pushTicket < MaxTicket
  BY <1>1 DEF Start, BlockingRead, BlockingWrite, Typed, history
<1>5. /\ offered \in Seq(Values) /\ Len(offered) = pushTicket /\ pushTicket <= MaxTicket
      /\ elem \in [Threads -> Values] /\ MaxTicket \in Nat
  BY DynamicMPMCQueueAssumption DEF SInv, SlotsTyped
<1>6. /\ offered' \in Seq(Values) /\ Len(offered') = pushTicket' /\ pushTicket' <= MaxTicket
      /\ elem' \in [Threads -> Values]
      /\ \A k \in Nat : k < pushTicket => offered'[k + 1] = offered[k + 1]
      /\ op'[t] = "push" => elem'[t] = offered'[ticket'[t] + 1]
  <2>1. CASE op'[t] = "pop" /\ UNCHANGED <<pushTicket, offered, elem>>
    BY <1>5, <2>1
  <2>2. ASSUME NEW v \in Values, elem' = [elem EXCEPT ![t] = v], offered' = Append(offered, v),
               ticket'[t] = pushTicket, pushTicket' = pushTicket + 1, pushTicket < MaxTicket
        PROVE  /\ offered' \in Seq(Values) /\ Len(offered') = pushTicket' /\ pushTicket' <= MaxTicket
               /\ elem' \in [Threads -> Values]
               /\ \A k \in Nat : k < pushTicket => offered'[k + 1] = offered[k + 1]
               /\ elem'[t] = offered'[ticket'[t] + 1]
    BY <1>1, <1>5, <2>2
  <2>3. QED
    BY <1>4, <2>1, <2>2
<1>7. SlotsTyped'
  BY <1>2, <1>6 DEF SInv, SlotsTyped, slots
<1>8. \A u \in Threads : pc'[u] \notin {"idle", "load state"} => u # t /\ pc'[u] = pc[u]
  BY <1>2, <1>3
<1>9. Claims'
  <2>1. \A u \in Threads : pc[u] # "idle" =>
          ticket[u] < (IF op[u] = "push" THEN pushTicket ELSE popTicket) /\ ticket[u] \in Nat
    BY <1>1 DEF IInv, Taken, Typed
  <2>2. /\ op'[t] = "push" => ticket'[t] = pushTicket
        /\ op'[t] # "push" => op'[t] = "pop" /\ ticket'[t] = popTicket
    BY <1>4
  <2>3. IF op'[t] = "push" THEN elem'[t] = offered'[ticket'[t] + 1] /\ ticket'[t] \notin published
                           ELSE ticket'[t] \notin TakenTickets
    BY <1>1, <1>6, <2>2 DEF SInv, Past
  <2>4. ASSUME NEW u \in Threads, u # t, pc[u] # "idle"
        PROVE  IF op[u] = "push" THEN elem[u] = offered'[ticket[u] + 1] /\ ticket[u] \notin published
                                 ELSE ticket[u] \notin TakenTickets
    BY <1>6, <2>1, <2>4 DEF SInv, Claims
  <2>5. ASSUME NEW u \in Threads, u # t, pc[u] # "idle", op[u] = op'[t]
        PROVE  ticket[u] # ticket'[t]
    BY <1>1, <2>1, <2>2, <2>5
  <2>6. TakenTickets' = TakenTickets /\ published' = published
    BY <1>2 DEF TakenTickets
  <2>7. \A u \in Threads : pc'[u] # "idle" =>
          IF op'[u] = "push" THEN elem'[u] = offered'[ticket'[u] + 1] /\ ticket'[u] \notin published
                             ELSE ticket'[u] \notin TakenTickets
    BY <1>2, <2>3, <2>4
  <2>8. \A u, w \in Threads :
          pc'[u] # "idle" /\ pc'[w] # "idle" /\ op'[u] = op'[w] /\ ticket'[u] = ticket'[w] => u = w
    <3>1. ASSUME NEW u \in Threads, NEW w \in Threads, u # t, w # t,
                 pc'[u] # "idle", pc'[w] # "idle", op'[u] = op'[w], ticket'[u] = ticket'[w]
          PROVE  u = w
      BY <1>2, <3>1 DEF SInv, Claims
    <3>2. ASSUME NEW u \in Threads, u # t, pc'[u] # "idle", op'[u] = op'[t]
          PROVE  ticket'[u] # ticket'[t]
      BY <1>2, <2>5, <3>2
    <3>3. QED
      BY <3>1, <3>2
  <2>9. QED
    BY <2>6, <2>7, <2>8 DEF Claims
<1>10. Past'
  <2>1. pushTicket <= pushTicket' /\ popTicket <= popTicket' /\ pushTicket' \in Nat /\ popTicket' \in Nat
    BY <1>1, <1>4
  <2>2. \A k \in TakenTickets : k \in Nat
    BY DEF SInv, SlotsTyped, TakenTickets
  <2>3. \A k \in published : k \in Nat
    BY DEF SInv, SlotsTyped
  <2>4. \A k \in published' : k < pushTicket'
    <3>1. \A k \in published : k < pushTicket
      BY DEF SInv, Past
    <3>2. published' = published
      BY <1>2
    <3>3. QED
      BY <1>1, <2>1, <2>3, <3>1, <3>2
  <2>5. \A k \in TakenTickets' : k < popTicket'
    <3>1. \A k \in TakenTickets : k < popTicket
      BY DEF SInv, Past
    <3>2. TakenTickets' = TakenTickets
      BY <1>2 DEF TakenTickets
    <3>3. QED
      BY <1>1, <2>1, <2>2, <3>1, <3>2
  <2>6. QED
    BY <1>2, <2>4, <2>5 DEF SInv, Past, TakenTickets
<1>11. ASSUME NEW u \in Threads, pc'[u] \notin {"idle", "load state"}
       PROVE  /\ u # t /\ pc[u] = pc'[u] /\ Place(u)' = Place(u) /\ (AtTurn(u)' <=> AtTurn(u))
              /\ elem'[u] = elem[u] /\ op'[u] = op[u] /\ ticket'[u] = ticket[u]
  BY <1>2, <1>8, <1>11 DEF AtTurn, Place, Target, Lap, slots
<1>12. InTurn'
  BY <1>11 DEF SInv, InTurn, Inside
<1>13. ~Unlock(t)
  BY <1>2 DEF Unlock, Go
<1>14. ArraysKnown' = ArraysKnown /\ \A a, k : Serves(a, k)' <=> Serves(a, k)
  BY <1>13, KnownKept
<1>15. \A a, k : PlaceOf(a, k)' = PlaceOf(a, k) /\ LapOf(a, k)' = LapOf(a, k)
  BY DEF PlaceOf, LapOf
<1>16. TurnsTell'
  BY <1>2, <1>14, <1>15 DEF SInv, TurnsTell, TakenTickets, slots
<1>17. Stored'
  <2>1. \A u \in Threads : \A k, kind : Completing(u, k, kind)' <=> Completing(u, k, kind)
    BY <1>2, <1>3, <1>11 DEF Completing
  <2>2. ASSUME NEW a \in ArraysKnown, NEW k \in Nat, Serves(a, k),
               slotTurn[PlaceOf(a, k)] = 2 * LapOf(a, k) + 1
        PROVE  offered'[k + 1] = offered[k + 1]
    <3>1. PlaceOf(a, k) \in Places /\ LapOf(a, k) \in Nat
      BY <1>1, <2>2, Homes DEF SInv
    <3>2. k \in published
      BY <2>2, <3>1 DEF SInv, TurnsTell
    <3>3. QED
      BY <1>6, <3>2 DEF SInv, Past
  <2>3. \A a \in ArraysKnown', k \in Nat : Serves(a, k)' =>
         /\ slotTurn'[PlaceOf(a, k)] = 2 * LapOf(a, k)
              /\ (\A u \in Threads : ~Completing(u, k, "push")') => contents'[PlaceOf(a, k)] = {}
         /\ slotTurn'[PlaceOf(a, k)] = 2 * LapOf(a, k) + 1
              /\ (\A u \in Threads : ~Completing(u, k, "pop")')
                => contents'[PlaceOf(a, k)] = {offered'[k + 1]}
    BY <1>2, <1>14, <2>1, <2>2 DEF SInv, Stored, slots
  <2>4. ASSUME NEW u \in Threads, pc[u] = "complete", op[u] = "pop"
        PROVE  offered'[ticket[u] + 1] = offered[ticket[u] + 1]
    <3>1. /\ use[u] \in ArraysKnown /\ ticket[u] \in Nat /\ Serves(use[u], ticket[u])
          /\ Place(u) = PlaceOf(use[u], ticket[u]) /\ Lap(u) = LapOf(use[u], ticket[u])
          /\ Target(u) = 2 * Lap(u) + 1
      BY <2>4, AtHome DEF IInv, SInv, Located, Settled, Inside
    <3>2. AtTurn(u)
      BY <2>4 DEF SInv, InTurn, Inside
    <3>3. QED
      BY <2>2, <3>1, <3>2 DEF AtTurn
  <2>5. \A u \in Threads : pc'[u] = "complete" =>
          IF op'[u] = "push" THEN contents'[Place(u)'] = {elem'[u]}
          ELSE contents'[Place(u)'] = {} /\ elem'[u] = offered'[ticket'[u] + 1]
    <3>1. \A u \in Threads : op[u] \in {"push", "pop"}
      BY <1>1 DEF Typed
    <3>2. contents' = contents
      BY <1>2 DEF slots
    <3>3. ASSUME NEW u \in Threads, pc'[u] = "complete"
          PROVE  IF op'[u] = "push" THEN contents'[Place(u)'] = {elem'[u]}
                 ELSE contents'[Place(u)'] = {} /\ elem'[u] = offered'[ticket'[u] + 1]
      <4>1. /\ pc[u] = "complete" /\ Place(u)' = Place(u)
            /\ elem'[u] = elem[u] /\ op'[u] = op[u] /\ ticket'[u] = ticket[u]
        BY <1>11, <3>3
      <4>2. IF op[u] = "push" THEN contents[Place(u)] = {elem[u]}
            ELSE contents[Place(u)] = {} /\ elem[u] = offered[ticket[u] + 1]
        BY <4>1 DEF SInv, Stored
      <4>3. QED
        BY <2>4, <3>1, <3>2, <4>1, <4>2
    <3>4. QED
      BY <3>3
  <2>6. QED
    BY <1>15, <2>3, <2>5 DEF Stored
<1>18. Fresh'
  BY <1>2 DEF SInv, Fresh, arrays, slots
<1>19. Waits'
  <2>1. \A u \in Threads : pc'[u] \in Searching \cup {"wait"} => pc'[u] \notin {"idle", "load state"}
    BY DEF Searching
  <2>2. UNCHANGED <<use, snap, dstate>>
    BY <1>2 DEF arrays
  <2>3. QED
    BY <1>11, <2>1, <2>2 DEF SInv, Waits
<1>20. Fits'
  BY FitsStep DEF SInv
<1>21. QED
  BY <1>7, <1>9, <1>10, <1>12, <1>16, <1>17, <1>18, <1>19, <1>20 DEF SInv

\* A call inside its slot finds there what its turn promises, and leaves what the
\* next turn promises.
LEMMA InsideStep ==
  ASSUME IInv, SInv, NEW t \in Threads, Construct(t) \/ MoveOut(t)
  PROVE  SInv'
<1> DEFINE p == Place(t)
           k == ticket[t]
<1>1. /\ Typed /\ Numbered /\ Served /\ Fits /\ Claims
      /\ contents \in [Places -> SUBSET Values] /\ elem \in [Threads -> Values]
  BY DEF IInv, SInv, SlotsTyped
<1>2. /\ pc[t] = "in" /\ pc' = [pc EXCEPT ![t] = "complete"]
      /\ UNCHANGED <<queue, arrays, slotTurn, call, snap, use, loaded, history>>
  BY DEF Construct, MoveOut, Go
<1>3. /\ use[t] \in ArraysKnown /\ k \in Nat /\ Serves(use[t], k)
      /\ p = PlaceOf(use[t], k) /\ Lap(t) = LapOf(use[t], k) /\ p \in Places /\ Lap(t) \in Nat
      /\ op[t] = "push" => Target(t) = 2 * Lap(t)
      /\ op[t] = "pop" => Target(t) = 2 * Lap(t) + 1
      /\ op[t] \in {"push", "pop"}
  BY <1>1, <1>2, AtHome DEF Located, Settled, Inside
<1>4. slotTurn[p] = Target(t)
  BY <1>2 DEF SInv, InTurn, Inside, AtTurn
<1>5. \A u \in Threads : ~Completing(u, k, op[t])
  <2>1. \A u \in Threads : pc[u] # "idle" /\ op[u] = op[t] /\ ticket[u] = k => u = t
    BY <1>1, <1>2 DEF Claims
  <2>2. QED
    BY <1>2, <2>1 DEF Completing
<1>6. ASSUME op[t] = "push"
      PROVE  contents' = [contents EXCEPT ![p] = {elem[t]}] /\ elem' = elem
  <2>1. slotTurn[PlaceOf(use[t], k)] = 2 * LapOf(use[t], k)
    BY <1>3, <1>4, <1>6
  <2>2. contents[p] = {}
    BY <1>3, <1>5, <1>6, <2>1 DEF SInv, Stored
  <2>3. Construct(t)
    BY <1>6 DEF MoveOut
  <2>4. QED
    BY <2>2, <2>3 DEF Construct
<1>7. ASSUME op[t] = "pop"
      PROVE  /\ contents' = [contents EXCEPT ![p] = {}]
             /\ elem' = [elem EXCEPT ![t] = offered[k + 1]] /\ offered[k + 1] \in Values
  <2>1. slotTurn[PlaceOf(use[t], k)] = 2 * LapOf(use[t], k) + 1
    BY <1>3, <1>4, <1>7
  <2>2. contents[p] = {offered[k + 1]}
    BY <1>3, <1>5, <1>7, <2>1 DEF SInv, Stored
  <2>3. MoveOut(t)
    BY <1>7 DEF Construct
  <2>4. PICK v \in contents[p] : /\ elem' = [elem EXCEPT ![t] = v]
                                 /\ contents' = [contents EXCEPT ![p] = @ \ {v}]
    BY <2>3 DEF MoveOut
  <2>5. v = offered[k + 1] /\ contents[p] \ {v} = {}
    BY <2>2, <2>4
  <2>6. QED
    BY <1>1, <1>3, <2>2, <2>4, <2>5
<1> DEFINE c == IF op[t] = "push" THEN {elem[t]} ELSE {}
<1>8. /\ contents' = [contents EXCEPT ![p] = c] /\ c \in SUBSET Values
      /\ elem' \in [Threads -> Values] /\ \A u \in Threads : u # t => elem'[u] = elem[u]
      /\ op[t] = "push" => elem'[t] = elem[t]
      /\ op[t] = "pop" => elem'[t] = offered[k + 1]
  BY <1>1, <1>3, <1>6, <1>7
<1> HIDE DEF c
<1>9. /\ contents' \in [Places -> SUBSET Values] /\ contents'[p] = c
      /\ \A q \in Places : q # p => contents'[q] = contents[q]
  BY <1>1, <1>3, <1>8
<1> HIDE DEF p
<1>10. /\ pc'[t] = "complete" /\ \A u \in Threads : u # t => pc'[u] = pc[u]
       /\ \A u \in Threads : pc'[u] # "idle" <=> pc[u] # "idle"
       /\ \A u \in Threads : pc'[u] \in Inside <=> pc[u] \in Inside
  BY <1>1, <1>2 DEF Typed, Inside
<1>11. UNCHANGED <<pushTicket, popTicket, op, ticket, offered, published, delivered, dstate>>
  BY <1>2 DEF queue, call, history, arrays
<1>12. ~Unlock(t)
  BY <1>2 DEF Unlock, Go
<1>13. ArraysKnown' = ArraysKnown /\ \A a, j : Serves(a, j)' <=> Serves(a, j)
  BY <1>12, KnownKept DEF Progress
<1>14. \A a, j : PlaceOf(a, j)' = PlaceOf(a, j) /\ LapOf(a, j)' = LapOf(a, j)
  BY DEF PlaceOf, LapOf
<1>15. \A u \in Threads : Place(u)' = Place(u) /\ (AtTurn(u)' <=> AtTurn(u))
  BY <1>2, <1>11 DEF AtTurn, Place, Target, Lap
<1>16. SlotsTyped'
  BY <1>2, <1>8, <1>9, <1>11 DEF SInv, SlotsTyped
<1>17. Claims'
  <2>1. TakenTickets' = TakenTickets
    BY <1>11 DEF TakenTickets
  <2>2. \A u \in Threads : op[u] = "push" => elem'[u] = elem[u]
    BY <1>8
  <2>3. QED
    BY <1>1, <1>10, <1>11, <2>1, <2>2 DEF Claims
<1>18. Past'
  BY <1>2, <1>11 DEF SInv, Past, TakenTickets
<1>19. InTurn'
  BY <1>10, <1>15 DEF SInv, InTurn
<1>20. TurnsTell'
  BY <1>2, <1>11, <1>13, <1>14 DEF SInv, TurnsTell, TakenTickets
<1>21. Stored'
  <2>1. \A u \in Threads : \A j, kind : Completing(u, j, kind) => Completing(u, j, kind)'
    BY <1>2, <1>10, <1>11 DEF Completing
  <2>2. pc'[t] = "complete" /\ op'[t] = op[t] /\ ticket'[t] = k
    BY <1>10, <1>11
  <2>3. ASSUME NEW a \in ArraysKnown, NEW j \in Nat, Serves(a, j)
        PROVE  /\ PlaceOf(a, j) \in Places /\ LapOf(a, j) \in Nat
               /\ PlaceOf(a, j) = p /\ LapOf(a, j) = Lap(t) => j = k
    BY <1>1, <1>3, <2>3, Homes, SameHome
  <2>4. ASSUME NEW a \in ArraysKnown, NEW j \in Nat, Serves(a, j),
               slotTurn[PlaceOf(a, j)] = 2 * LapOf(a, j),
               \A u \in Threads : ~Completing(u, j, "push")'
        PROVE  contents'[PlaceOf(a, j)] = {}
    <3>1. CASE PlaceOf(a, j) # p
      BY <1>9, <2>1, <2>3, <2>4, <3>1 DEF SInv, Stored
    <3>2. CASE PlaceOf(a, j) = p
      <4>1. op[t] = "push" /\ LapOf(a, j) = Lap(t)
        BY <1>3, <1>4, <2>3, <2>4, <3>2, Parity
      <4>2. QED
        BY <2>2, <2>3, <2>4, <3>2, <4>1 DEF Completing
    <3>3. QED
      BY <3>1, <3>2
  <2>5. ASSUME NEW a \in ArraysKnown, NEW j \in Nat, Serves(a, j),
               slotTurn[PlaceOf(a, j)] = 2 * LapOf(a, j) + 1,
               \A u \in Threads : ~Completing(u, j, "pop")'
        PROVE  contents'[PlaceOf(a, j)] = {offered[j + 1]}
    <3>1. CASE PlaceOf(a, j) # p
      BY <1>9, <2>1, <2>3, <2>5, <3>1 DEF SInv, Stored
    <3>2. CASE PlaceOf(a, j) = p
      <4>1. op[t] = "pop" /\ LapOf(a, j) = Lap(t)
        BY <1>3, <1>4, <2>3, <2>5, <3>2, Parity
      <4>2. QED
        BY <2>2, <2>3, <2>5, <3>2, <4>1 DEF Completing
    <3>3. QED
      BY <3>1, <3>2
  <2>6. ASSUME NEW u \in Threads, pc'[u] = "complete"
        PROVE  IF op[u] = "push" THEN contents'[Place(u)] = {elem'[u]}
               ELSE contents'[Place(u)] = {} /\ elem'[u] = offered[ticket[u] + 1]
    <3>1. CASE u = t
      BY <1>3, <1>8, <1>9, <3>1 DEF c, p
    <3>2. CASE u # t
      <4>1. pc[u] = "complete" /\ elem'[u] = elem[u]
        BY <1>8, <1>10, <2>6, <3>2
      <4>2. Place(u) # p /\ Place(u) \in Places
        <5>1. AtTurn(u) /\ AtTurn(t)
          BY <1>2, <4>1 DEF SInv, InTurn, Inside
        <5>2. Place(u) # Place(t)
          BY <1>1, <1>2, <3>2, <4>1, <5>1, OneAtTurn DEF Settled, Inside
        <5>3. QED
          BY <1>1, <4>1, <5>2, AtHome DEF Located, Settled, Inside, p
      <4>3. QED
        BY <1>9, <4>1, <4>2 DEF SInv, Stored
    <3>3. QED
      BY <3>1, <3>2
  <2>7. QED
    BY <1>2, <1>11, <1>13, <1>14, <1>15, <2>4, <2>5, <2>6 DEF Stored
<1>22. Fresh'
  <2>1. ~(p[1] > dstate.numClosed)
    BY <1>1, <1>3, KnownCounted, Homes
  <2>2. QED
    BY <1>2, <1>9, <1>11, <2>1 DEF SInv, Fresh
<1>23. Waits'
  BY <1>2, <1>10, <1>11, <1>15 DEF SInv, Waits, Searching
<1>24. Fits'
  BY FitsStep DEF SInv, Progress
<1>25. QED
  BY <1>16, <1>17, <1>18, <1>19, <1>20, <1>21, <1>22, <1>23, <1>24 DEF SInv

\* The turn that ends finishes its ticket and no other.
LEMMA CompleteStep ==
  ASSUME IInv, SInv, NEW t \in Threads, CompleteTurn(t)
  PROVE  SInv'
<1> DEFINE p == Place(t)
           k == ticket[t]
           L == Lap(t)
<1>1. /\ Typed /\ Numbered /\ Served /\ Fits /\ Claims
      /\ slotTurn \in [Places -> Nat] /\ elem \in [Threads -> Values]
      /\ published \in SUBSET Nat /\ delivered \in SUBSET (Nat \X Values)
  BY DEF IInv, SInv, SlotsTyped
<1>2. /\ pc[t] = "complete" /\ pc' = [pc EXCEPT ![t] = "idle"]
      /\ slotTurn' = [slotTurn EXCEPT ![p] = Target(t) + 1]
      /\ UNCHANGED <<queue, arrays, contents, call, elem, snap, use, loaded, offered>>
  BY DEF CompleteTurn, Go
<1>3. /\ use[t] \in ArraysKnown /\ k \in Nat /\ Serves(use[t], k)
      /\ p = PlaceOf(use[t], k) /\ L = LapOf(use[t], k) /\ p \in Places /\ L \in Nat
      /\ op[t] = "push" => Target(t) = 2 * L
      /\ op[t] = "pop" => Target(t) = 2 * L + 1
      /\ op[t] \in {"push", "pop"} /\ Target(t) \in Nat
  BY <1>1, <1>2, AtHome DEF Located, Settled, Inside
<1>4. slotTurn[p] = Target(t)
  BY <1>2 DEF SInv, InTurn, Inside, AtTurn
<1>5. IF op[t] = "push"
      THEN published' = published \cup {k} /\ TakenTickets' = TakenTickets /\ delivered' = delivered
      ELSE /\ TakenTickets' = TakenTickets \cup {k} /\ published' = published
           /\ delivered' = delivered \cup {<<k, elem[t]>>}
  <2>1. CASE op[t] = "push"
    BY <2>1 DEF CompleteTurn, TakenTickets
  <2>2. CASE op[t] # "push"
    <3>1. delivered' = delivered \cup {<<k, elem[t]>>} /\ published' = published
      BY <2>2 DEF CompleteTurn
    <3>2. <<k, elem[t]>>[1] = k
      OBVIOUS
    <3>3. QED
      BY <2>2, <3>1, <3>2 DEF TakenTickets
  <2>3. QED
    BY <2>1, <2>2
<1>6. IF op[t] = "push"
      THEN contents[p] = {elem[t]} /\ elem[t] = offered[k + 1]
      ELSE contents[p] = {} /\ elem[t] = offered[k + 1]
  BY <1>1, <1>2 DEF SInv, Stored, Claims
<1>7. /\ slotTurn' \in [Places -> Nat]
      /\ op[t] = "push" => slotTurn[p] = 2 * L /\ slotTurn'[p] = 2 * L + 1
      /\ op[t] = "pop" => slotTurn[p] = 2 * L + 1 /\ slotTurn'[p] = 2 * L + 2
      /\ \A q \in Places : q # p => slotTurn'[q] = slotTurn[q]
  BY <1>1, <1>2, <1>3, <1>4
<1>8. ASSUME NEW a \in ArraysKnown, NEW j \in Nat, Serves(a, j)
      PROVE  /\ PlaceOf(a, j) \in Places /\ LapOf(a, j) \in Nat
             /\ PlaceOf(a, j) = p /\ LapOf(a, j) = L => j = k
             /\ j = k => PlaceOf(a, j) = p /\ LapOf(a, j) = L
  BY <1>1, <1>3, <1>8, Homes, SameHome
<1>9. \A u \in Threads : pc[u] \in Inside /\ u # t => Place(u) # p /\ Place(u) \in Places
  <2>1. SUFFICES ASSUME NEW u \in Threads, pc[u] \in Inside, u # t
                 PROVE  Place(u) # Place(t) /\ Place(u) \in Places
    OBVIOUS
  <2>2. AtTurn(u) /\ AtTurn(t)
    BY <1>2, <2>1 DEF SInv, InTurn, Inside
  <2>3. Place(u) # Place(t)
    BY <1>1, <1>2, <2>1, <2>2, OneAtTurn DEF Settled, Inside
  <2>4. QED
    BY <1>1, <2>1, <2>3, AtHome DEF Located, Settled
<1> HIDE DEF p, L
<1>10. /\ pc'[t] = "idle" /\ \A u \in Threads : pc'[u] # "idle" => u # t /\ pc'[u] = pc[u]
       /\ UNCHANGED <<pushTicket, popTicket, op, ticket, dstate>>
  BY <1>1, <1>2 DEF Typed, queue, call, arrays
<1>11. ~Unlock(t)
  BY <1>2 DEF Unlock, Go
<1>12. ArraysKnown' = ArraysKnown /\ \A a, j : Serves(a, j)' <=> Serves(a, j)
  BY <1>11, KnownKept DEF Progress
<1>13. \A a, j : PlaceOf(a, j)' = PlaceOf(a, j) /\ LapOf(a, j)' = LapOf(a, j)
  BY DEF PlaceOf, LapOf
<1>14. \A u \in Threads : Place(u)' = Place(u) /\ Target(u)' = Target(u)
  BY <1>2, <1>10 DEF Place, Target, Lap
<1>15. SlotsTyped'
  <2>1. published' \in SUBSET Nat
    BY <1>1, <1>3, <1>5
  <2>2. delivered' \in SUBSET (Nat \X Values)
    BY <1>1, <1>3, <1>5
  <2>3. QED
    BY <1>2, <1>7, <1>10, <2>1, <2>2 DEF SInv, SlotsTyped
<1>16. Claims'
  <2>1. ASSUME NEW u \in Threads, pc'[u] # "idle"
        PROVE  IF op[u] = "push" THEN elem[u] = offered[ticket[u] + 1] /\ ticket[u] \notin published'
                                 ELSE ticket[u] \notin TakenTickets'
    <3>1. u # t /\ pc[u] # "idle"
      BY <1>10, <2>1
    <3>2. op[u] = op[t] => ticket[u] # k
      BY <1>1, <1>2, <3>1 DEF Claims
    <3>3. op[u] \in {"push", "pop"}
      BY <1>1 DEF Typed
    <3>4. QED
      BY <1>1, <1>3, <1>5, <3>1, <3>2, <3>3 DEF Claims
  <2>2. \A u, w \in Threads : pc'[u] # "idle" /\ pc'[w] # "idle" /\ op[u] = op[w]
                                /\ ticket[u] = ticket[w] => u = w
    BY <1>1, <1>10 DEF Claims
  <2>3. QED
    BY <1>2, <1>10, <2>1, <2>2 DEF Claims
<1>17. Past'
  <2>1. k < (IF op[t] = "push" THEN pushTicket ELSE popTicket)
    BY <1>2 DEF IInv, Taken
  <2>2. ASSUME NEW u \in Threads
        PROVE  /\ loaded[u].pushes # NotYet /\ op[t] = "push" => k < loaded[u].pushes
               /\ loaded[u].pops # NotYet /\ op[t] = "pop" => k < loaded[u].pops
    BY <1>2 DEF IInv, Counted, Located, Settled, Inside
  <2>3. \A j \in published' : j < pushTicket
    BY <1>5, <2>1 DEF SInv, Past
  <2>4. \A j \in TakenTickets' : j < popTicket
    BY <1>5, <2>1 DEF SInv, Past
  <2>5. ASSUME NEW u \in Threads
        PROVE  /\ loaded[u].pushes # NotYet => \A j \in published' : j < loaded[u].pushes
               /\ loaded[u].pops # NotYet => \A j \in TakenTickets' : j < loaded[u].pops
    BY <1>3, <1>5, <2>2 DEF SInv, Past
  <2>6. QED
    BY <1>2, <1>10, <2>3, <2>4, <2>5 DEF Past
<1>18. InTurn'
  <2>1. ASSUME NEW u \in Threads, pc'[u] \in Inside
        PROVE  slotTurn'[Place(u)] = Target(u)
    <3>1. u # t /\ pc[u] \in Inside
      BY <1>10, <2>1 DEF Inside
    <3>2. slotTurn[Place(u)] = Target(u)
      BY <3>1 DEF SInv, InTurn, AtTurn
    <3>3. QED
      BY <1>7, <1>9, <3>1, <3>2
  <2>2. QED
    BY <1>14, <2>1 DEF InTurn, AtTurn
<1>19. TurnsTell'
  <2>1. ASSUME NEW a \in ArraysKnown, NEW j \in Nat, Serves(a, j)
        PROVE  /\ j \in published' <=> slotTurn'[PlaceOf(a, j)] > 2 * LapOf(a, j)
               /\ j \in TakenTickets' <=> slotTurn'[PlaceOf(a, j)] > 2 * LapOf(a, j) + 1
    <3> DEFINE q == PlaceOf(a, j)
               M == LapOf(a, j)
    <3>1. /\ j \in published <=> slotTurn[q] > 2 * M
          /\ j \in TakenTickets <=> slotTurn[q] > 2 * M + 1
      BY <2>1 DEF SInv, TurnsTell
    <3>2. q \in Places /\ M \in Nat /\ (q = p /\ M = L => j = k) /\ (j = k => q = p /\ M = L)
      BY <1>8, <2>1
    <3> HIDE DEF q, M
    <3>3. CASE q # p
      <4>1. slotTurn'[q] = slotTurn[q] /\ j # k
        BY <1>7, <3>2, <3>3
      <4>2. QED
        BY <1>5, <3>1, <4>1 DEF q, M
    <3>4. CASE q = p /\ op[t] = "push"
      <4>1. slotTurn'[q] > 2 * M <=> slotTurn[q] > 2 * M \/ M = L
        BY <1>3, <1>7, <3>2, <3>4
      <4>2. slotTurn'[q] > 2 * M + 1 <=> slotTurn[q] > 2 * M + 1
        BY <1>3, <1>7, <3>2, <3>4
      <4>3. QED
        BY <1>5, <3>1, <3>2, <3>4, <4>1, <4>2 DEF q, M
    <3>5. CASE q = p /\ op[t] = "pop"
      <4>1. slotTurn'[q] > 2 * M <=> slotTurn[q] > 2 * M
        BY <1>3, <1>7, <3>2, <3>5
      <4>2. slotTurn'[q] > 2 * M + 1 <=> slotTurn[q] > 2 * M + 1 \/ M = L
        BY <1>3, <1>7, <3>2, <3>5
      <4>3. QED
        BY <1>5, <3>1, <3>2, <3>5, <4>1, <4>2 DEF q, M
    <3>6. QED
      BY <1>3, <3>3, <3>4, <3>5 DEF q, M
  <2>2. QED
    BY <1>12, <1>13, <2>1 DEF TurnsTell
<1>20. Stored'
  <2>1. ASSUME NEW j \in Nat, j # k, NEW kind, \A u \in Threads : ~Completing(u, j, kind)'
        PROVE  \A u \in Threads : ~Completing(u, j, kind)
    BY <1>1, <1>2, <1>10, <2>1 DEF Completing, Typed
  <2>2. ASSUME NEW a \in ArraysKnown, NEW j \in Nat, Serves(a, j),
               slotTurn'[PlaceOf(a, j)] = 2 * LapOf(a, j),
               \A u \in Threads : ~Completing(u, j, "push")'
        PROVE  contents[PlaceOf(a, j)] = {}
    <3>1. CASE PlaceOf(a, j) # p
      BY <1>7, <1>8, <2>1, <2>2, <3>1 DEF SInv, Stored
    <3>2. CASE PlaceOf(a, j) = p
      <4>1. op[t] # "push"
        BY <1>3, <1>7, <1>8, <2>2, <3>2, Parity
      <4>2. QED
        BY <1>6, <3>2, <4>1
    <3>3. QED
      BY <3>1, <3>2
  <2>3. ASSUME NEW a \in ArraysKnown, NEW j \in Nat, Serves(a, j),
               slotTurn'[PlaceOf(a, j)] = 2 * LapOf(a, j) + 1,
               \A u \in Threads : ~Completing(u, j, "pop")'
        PROVE  contents[PlaceOf(a, j)] = {offered[j + 1]}
    <3>1. CASE PlaceOf(a, j) # p
      BY <1>7, <1>8, <2>1, <2>3, <3>1 DEF SInv, Stored
    <3>2. CASE PlaceOf(a, j) = p
      <4>1. op[t] = "push" /\ LapOf(a, j) = L
        <5>1. LapOf(a, j) \in Nat
          BY <1>8, <2>3
        <5>2. op[t] # "pop"
          <6>1. 2 * L + 2 # 2 * LapOf(a, j) + 1
            BY <1>3, <5>1
          <6>2. QED
            BY <1>7, <2>3, <3>2, <6>1
        <5>3. QED
          BY <1>3, <1>7, <2>3, <3>2, <5>1, <5>2, Parity
      <4>2. j = k
        BY <1>8, <2>3, <3>2, <4>1
      <4>3. QED
        BY <1>6, <3>2, <4>1, <4>2
    <3>3. QED
      BY <3>1, <3>2
  <2>4. \A u \in Threads : pc'[u] = "complete" =>
          IF op[u] = "push" THEN contents[Place(u)] = {elem[u]}
          ELSE contents[Place(u)] = {} /\ elem[u] = offered[ticket[u] + 1]
    BY <1>10 DEF SInv, Stored
  <2>5. QED
    BY <1>2, <1>10, <1>12, <1>13, <1>14, <2>2, <2>3, <2>4 DEF Stored
<1>21. Fresh'
  <2>1. ~(p[1] > dstate.numClosed)
    BY <1>1, <1>3, KnownCounted, Homes
  <2>2. QED
    BY <1>2, <1>7, <1>10, <2>1 DEF SInv, Fresh
<1>22. Waits'
  <2>1. ASSUME NEW u \in Threads, pc[u] = "wait", AtTurn(u), u # t
        PROVE  slotTurn'[Place(u)] = Target(u)
    <3>1. AtTurn(t)
      BY <1>2 DEF SInv, InTurn, Inside
    <3>2. Place(u) # p
      BY <1>1, <1>2, <2>1, <3>1, OneAtTurn DEF Settled, Inside, p
    <3>3. Place(u) \in Places
      BY <1>1, <2>1, AtHome DEF Located, Settled
    <3>4. QED
      BY <1>7, <2>1, <3>2, <3>3 DEF AtTurn
  <2>2. QED
    BY <1>2, <1>10, <1>14, <2>1 DEF SInv, Waits, Searching, AtTurn
<1>23. Fits'
  BY FitsStep DEF SInv, Progress
<1>24. QED
  BY <1>15, <1>16, <1>17, <1>18, <1>19, <1>20, <1>21, <1>22, <1>23 DEF SInv

\* The new array serves tickets nobody has finished, and its slots are as they
\* were constructed.
LEMMA UnlockSlotsStep ==
  ASSUME IInv, SInv, NEW t \in Threads, Unlock(t)
  PROVE  SInv'
<1>0. PICK new : new = Array(dslots, dcapacity, NewOffset(t))
  OBVIOUS
<1>1. /\ Typed /\ Expander /\ Numbered /\ Fits /\ pc[t] = "unlock"
      /\ pc' = [pc EXCEPT ![t] = "load state"]
      /\ loaded' = [loaded EXCEPT ![t] = [pushes |-> NotYet, pops |-> NotYet]]
      /\ UNCHANGED <<queue, dslots, dcapacity, closed, slots, call, elem, snap, use, history>>
      /\ dstate' = Word(NewOffset(t), snap[t].state.numClosed + 1)
  BY DEF IInv, SInv, Unlock, Go
<1>2. /\ ArraysKnown' = ArraysKnown \cup {new}
      /\ new.offset = NewOffset(t) /\ new.offset \in Nat
      /\ loaded[t].pushes \in Nat /\ loaded[t].pushes < new.offset
      /\ loaded[t].pops \in Nat /\ loaded[t].pops < new.offset
      /\ dstate.offset \in Nat /\ dstate.offset < new.offset
      /\ \A a \in ArraysKnown, k \in Nat : Serves(a, k)' <=> k < new.offset /\ Serves(a, k)
      /\ \A k \in Nat : Serves(new, k)' <=> new.offset <= k
      /\ Replacing /\ ~Replacing'
  BY <1>0, UnlockKnown
<1>3. dstate'.offset = new.offset /\ dstate'.numClosed = dstate.numClosed + 1
  BY <1>0, <1>1, <1>2 DEF Expander, Expanding, Word
<1>4. new.slots = dslots /\ dslots = dstate.numClosed + 1 /\ dstate.numClosed \in Nat
  BY <1>0, <1>1, <1>2 DEF Array, Numbered, Typed, Words
<1>5. /\ pc'[t] = "load state" /\ \A u \in Threads : u # t => pc'[u] = pc[u]
      /\ UNCHANGED <<pushTicket, popTicket, slotTurn, contents, op, ticket>>
      /\ UNCHANGED <<offered, published, delivered>>
  BY <1>1 DEF Typed, queue, slots, call, history
<1>6. /\ \A u \in Threads : Place(u)' = Place(u) /\ (AtTurn(u)' <=> AtTurn(u))
      /\ \A u \in Threads : \A k, kind : Completing(u, k, kind)' <=> Completing(u, k, kind)
  BY <1>1, <1>5 DEF AtTurn, Place, Target, Lap, Completing
<1>7. \A a, k : PlaceOf(a, k)' = PlaceOf(a, k) /\ LapOf(a, k)' = LapOf(a, k)
  BY DEF PlaceOf, LapOf
<1>8. Fits'
  BY FitsStep DEF SInv, Progress
<1>9. new \in ArrayRecords /\ new.slots <= MaxClosed /\ new.cap <= Capacity
  <2>1. new \in ArrayRecords
    BY <1>0, <1>1, <1>2 DEF Typed, Array, ArrayRecords
  <2>2. QED
    BY <1>2, <1>8, <2>1 DEF Fits
<1>10. ASSUME NEW k \in Nat, new.offset <= k
       PROVE  /\ k \notin published /\ k \notin TakenTickets
              /\ slotTurn[PlaceOf(new, k)] = 0 /\ contents[PlaceOf(new, k)] = {}
              /\ LapOf(new, k) \in Nat
  <2>1. Serves(new, k)' /\ new \in ArraysKnown'
    BY <1>2, <1>10
  <2>2. /\ PlaceOf(new, k) \in Places /\ PlaceOf(new, k)[1] = new.slots /\ LapOf(new, k) \in Nat
    BY <1>9, <1>10, PlaceTyped
  <2>3. PlaceOf(new, k)[1] > dstate.numClosed
    BY <1>4, <2>2
  <2>4. slotTurn[PlaceOf(new, k)] = 0 /\ contents[PlaceOf(new, k)] = {}
    BY <2>2, <2>3 DEF SInv, Fresh
  <2>5. loaded[t].pushes # NotYet /\ loaded[t].pops # NotYet
    BY <1>2 DEF NotYet
  <2>6. k \notin published /\ k \notin TakenTickets
    <3>1. ~(k < loaded[t].pushes) /\ ~(k < loaded[t].pops)
      BY <1>2, <1>10
    <3>2. QED
      BY <2>5, <3>1 DEF SInv, Past
  <2>7. QED
    BY <2>2, <2>4, <2>6
<1>11. SlotsTyped'
  BY <1>1, <1>5 DEF SInv, SlotsTyped
<1>12. Claims'
  <2>1. \A u \in Threads : pc'[u] # "idle" => pc[u] # "idle"
    BY <1>1, <1>5
  <2>2. QED
    BY <1>1, <1>5, <2>1 DEF SInv, Claims, TakenTickets
<1>13. Past'
  BY <1>1, <1>5 DEF SInv, Past, TakenTickets, Typed
<1>14. InTurn'
  BY <1>5, <1>6 DEF SInv, InTurn, Inside
<1>15. TurnsTell'
  <2>1. ASSUME NEW a \in ArraysKnown', NEW k \in Nat, Serves(a, k)'
        PROVE  /\ k \in published <=> slotTurn[PlaceOf(a, k)] > 2 * LapOf(a, k)
               /\ k \in TakenTickets <=> slotTurn[PlaceOf(a, k)] > 2 * LapOf(a, k) + 1
    <3>1. CASE a \in ArraysKnown
      BY <1>2, <2>1, <3>1 DEF SInv, TurnsTell
    <3>2. CASE a = new
      BY <1>2, <1>10, <2>1, <3>2
    <3>3. QED
      BY <1>2, <3>1, <3>2
  <2>2. QED
    BY <1>5, <1>7, <2>1 DEF TurnsTell, TakenTickets
<1>16. Stored'
  <2>1. ASSUME NEW a \in ArraysKnown', NEW k \in Nat, Serves(a, k)'
        PROVE  /\ slotTurn[PlaceOf(a, k)] = 2 * LapOf(a, k)
                    /\ (\A u \in Threads : ~Completing(u, k, "push"))
                      => contents[PlaceOf(a, k)] = {}
               /\ slotTurn[PlaceOf(a, k)] = 2 * LapOf(a, k) + 1
                    /\ (\A u \in Threads : ~Completing(u, k, "pop"))
                      => contents[PlaceOf(a, k)] = {offered[k + 1]}
    <3>1. CASE a \in ArraysKnown
      BY <1>2, <2>1, <3>1 DEF SInv, Stored
    <3>2. CASE a = new
      BY <1>2, <1>10, <2>1, <3>2
    <3>3. QED
      BY <1>2, <3>1, <3>2
  <2>2. \A u \in Threads : pc'[u] = "complete" => pc[u] = "complete"
    BY <1>5
  <2>3. QED
    BY <1>1, <1>5, <1>6, <1>7, <2>1, <2>2 DEF SInv, Stored
<1>17. Fresh'
  <2> SUFFICES ASSUME NEW p \in Places, p[1] > dstate'.numClosed
               PROVE  slotTurn'[p] = 0 /\ contents'[p] = {}
    BY DEF Fresh, Places
  <2>1. p[1] \in Int
    BY DEF Places
  <2>2. p[1] > dstate.numClosed + 1
    BY <1>3
  <2>3. p[1] > dstate.numClosed
    BY <1>4, <2>1, <2>2
  <2>4. QED
    BY <1>5, <2>3 DEF SInv, Fresh
<1>18. Waits'
  <2>1. \A u \in Threads : ticket[u] < dstate.offset => ticket[u] < dstate'.offset
    <3>1. \A u \in Threads : ticket[u] \in Nat
      BY <1>1 DEF Typed
    <3>2. QED
      BY <1>2, <1>3, <3>1
  <2>2. QED
    BY <1>1, <1>5, <1>6, <2>1 DEF SInv, Waits, Searching
<1>19. QED
  BY <1>8, <1>11, <1>12, <1>13, <1>14, <1>15, <1>16, <1>17, <1>18 DEF SInv


-----------------------------------------------------------------------------
\* It holds at first.
LEMMA InitSInv == Init => SInv
<1> SUFFICES ASSUME Init PROVE SInv
  OBVIOUS
<1>1. /\ pushTicket = 0 /\ dslots = 0 /\ dstate = Word(0, 0) /\ closed = <<>>
      /\ slotTurn = [p \in Places |-> 0] /\ contents = [p \in Places |-> {}]
      /\ elem \in [Threads -> Values]
      /\ offered = <<>> /\ published = {} /\ delivered = {}
      /\ \A t \in Threads : pc[t] = "idle"
      /\ \A t \in Threads : loaded[t].pushes = NotYet /\ loaded[t].pops = NotYet
  BY DEF Init
<1>2. dcapacity = Capacities[1] /\ Capacities[1] \in Nat \ {0} /\ Capacities[1] <= Capacity
  <2>1. 1 \in 1..(MaxClosed + 1)
    BY PlannedCapacities
  <2>2. QED
    BY <2>1, PlannedCapacities, DynamicMPMCQueueAssumption DEF Init
<1>3. ArraysKnown = {Array(0, dcapacity, 0)}
  <2>1. ~Replacing /\ Len(closed) = 0
    BY <1>1 DEF Replacing
  <2>2. QED
    BY <1>1, <2>1 DEF ArraysKnown, Word
<1>4. Fits
  <2>1. MaxClosed \in Nat
    BY PlannedCapacities
  <2>2. \A a \in ArraysKnown : a.slots = 0 /\ a.cap = dcapacity
    BY <1>3 DEF Array
  <2>3. dslots <= MaxClosed /\ dslots + 1 = 1
    BY <1>1, <2>1
  <2>4. \A a \in ArraysKnown : a.slots <= MaxClosed /\ a.cap <= Capacity
    BY <1>2, <2>1, <2>2
  <2>5. dcapacity = Capacities[dslots + 1]
    BY <1>2, <2>3
  <2>6. QED
    BY <1>1, <2>3, <2>4, <2>5 DEF Fits, Expanding
<1>5. SlotsTyped
  <2>1. offered \in Seq(Values) /\ Len(offered) = 0
    BY <1>1
  <2>2. MaxTicket \in Nat
    BY DynamicMPMCQueueAssumption
  <2>3. pushTicket <= MaxTicket
    BY <1>1, <2>2
  <2>4. QED
    BY <1>1, <2>1, <2>3 DEF SlotsTyped
<1>6. Claims /\ Past /\ InTurn /\ Waits
  BY <1>1 DEF Claims, Past, InTurn, Waits, TakenTickets, Inside, Searching
<1>7. ASSUME NEW a \in ArraysKnown, NEW k \in Nat, Serves(a, k)
      PROVE  /\ PlaceOf(a, k) \in Places /\ LapOf(a, k) \in Nat
             /\ slotTurn[PlaceOf(a, k)] = 0 /\ contents[PlaceOf(a, k)] = {}
  <2>1. a \in ArrayRecords /\ a.offset = 0
    BY <1>2, <1>3 DEF Array, ArrayRecords
  <2>2. a.slots <= MaxClosed /\ a.cap <= Capacity /\ a.offset <= k
    <3>1. a.offset <= k
      BY <2>1
    <3>2. QED
      BY <1>4, <3>1 DEF Fits
  <2>3. PlaceOf(a, k) \in Places /\ LapOf(a, k) \in Nat
    BY <2>1, <2>2, PlaceTyped
  <2>4. QED
    BY <1>1, <2>3
<1>8. TurnsTell
  <2>1. \A k : k \notin published /\ k \notin TakenTickets
    BY <1>1 DEF TakenTickets
  <2>2. QED
    BY <1>7, <2>1 DEF TurnsTell
<1>9. Stored
  <2>1. \A t \in Threads : pc[t] # "complete"
    BY <1>1
  <2>2. \A a \in ArraysKnown, k \in Nat : Serves(a, k) =>
          /\ slotTurn[PlaceOf(a, k)] # 2 * LapOf(a, k) + 1
          /\ contents[PlaceOf(a, k)] = {}
    BY <1>7
  <2>3. QED
    BY <2>1, <2>2 DEF Stored
<1>10. Fresh
  BY <1>1 DEF Fresh
<1>11. QED
  BY <1>4, <1>5, <1>6, <1>8, <1>9, <1>10 DEF SInv

\* Every step keeps it.
LEMMA NextSInv == IInv /\ SInv /\ [Next]_vars => SInv'
<1> SUFFICES ASSUME IInv, SInv, [Next]_vars PROVE SInv'
  OBVIOUS
<1>1. ASSUME NEW t \in Threads, Start(t) \/ Progress(t)
      PROVE  SInv'
  BY <1>1, CallStep, SearchStep, InsideStep, CompleteStep, UnlockSlotsStep DEF Progress
<1>2. CASE UNCHANGED vars
  <2>1. /\ UNCHANGED <<pushTicket, popTicket, dstate, dslots, dcapacity, closed>>
        /\ UNCHANGED <<slotTurn, contents, pc, op, ticket, elem, snap, use, loaded>>
        /\ UNCHANGED <<offered, published, delivered>>
    BY <1>2 DEF vars, queue, arrays, slots, call, history
  <2>2. ArraysKnown' = ArraysKnown /\ TakenTickets' = TakenTickets
    BY <2>1 DEF ArraysKnown, Replacing, TakenTickets
  <2>3. \A a, k : (Serves(a, k)' <=> Serves(a, k)) /\ PlaceOf(a, k)' = PlaceOf(a, k)
                    /\ LapOf(a, k)' = LapOf(a, k)
    BY <2>2 DEF Serves, PlaceOf, LapOf
  <2>4. \A t \in Threads : Place(t)' = Place(t) /\ (AtTurn(t)' <=> AtTurn(t))
    BY <2>1 DEF AtTurn, Place, Target, Lap
  <2>5. Fits' /\ SlotsTyped' /\ Claims' /\ Past' /\ Fresh'
    BY <2>1, <2>2 DEF SInv, Fits, SlotsTyped, Claims, Past, Fresh
  <2>6. InTurn' /\ Waits'
    BY <2>1, <2>4 DEF SInv, InTurn, Waits
  <2>7. TurnsTell'
    BY <2>1, <2>2, <2>3 DEF SInv, TurnsTell
  <2>8. Stored'
    BY <2>1, <2>2, <2>3, <2>4 DEF SInv, Stored, Completing
  <2>9. QED
    BY <2>5, <2>6, <2>7, <2>8 DEF SInv
<1>3. QED
  BY <1>1, <1>2 DEF Next

\* Both hold in every state.
LEMMA SlotsInvariant == Spec => [](IInv /\ SInv)
<1>1. Init => IInv /\ SInv
  BY InitIInv, InitSInv
<1>2. (IInv /\ SInv) /\ [Next]_vars => (IInv /\ SInv)'
  BY NextIInv, NextSInv
<1>3. QED
  BY <1>1, <1>2, PTL DEF Spec

-----------------------------------------------------------------------------
\* A blockingWrite waits in its slot only in the largest array or with a ticket
\* from before the latest expansion; otherwise it has tryExpand make room.  And
\* closed_, which initQueue allocates once, has room for every array replaced.
THEOREM GrowsWhenItMust == Spec => []BlocksOnlyWhenFull
<1>1. ASSUME IInv, SInv
      PROVE  BlocksOnlyWhenFull
  <2>1. Len(closed) <= MaxClosed
    BY <1>1 DEF IInv, SInv, Numbered, Fits
  <2>2. \A t \in Threads :
          Stuck(t) /\ op[t] = "push" => use[t].cap = Capacity \/ ticket[t] < dstate.offset
    BY <1>1 DEF SInv, Waits, Stuck
  <2>3. QED
    BY <2>1, <2>2 DEF BlocksOnlyWhenFull
<1>2. QED
  BY <1>1, SlotsInvariant, PTL

-----------------------------------------------------------------------------
\* The end of a call is what TicketQueue calls Publish and Take.
LEMMA CompleteRefines ==
  ASSUME IInv, SInv, NEW t \in Threads, CompleteTurn(t)
  PROVE  Tickets!Next
<1> DEFINE k == ticket[t]
           a == use[t]
<1>1. /\ pc[t] = "complete" /\ UNCHANGED <<pushTicket, popTicket, offered>>
      /\ op[t] = "push" => published' = published \cup {k} /\ delivered' = delivered
      /\ op[t] # "push" => delivered' = delivered \cup {<<k, elem[t]>>} /\ published' = published
  BY DEF CompleteTurn, Go, queue
<1>2. /\ a \in ArraysKnown /\ k \in Nat /\ Serves(a, k)
      /\ Place(t) = PlaceOf(a, k) /\ Lap(t) = LapOf(a, k) /\ Lap(t) \in Nat
      /\ op[t] = "pop" => Target(t) = 2 * Lap(t) + 1
      /\ op[t] \in {"push", "pop"}
  BY <1>1, AtHome DEF IInv, SInv, Located, Settled, Inside
<1>3. slotTurn[PlaceOf(a, k)] = Target(t)
  BY <1>1, <1>2 DEF SInv, InTurn, Inside, AtTurn
<1>4. k < IF op[t] = "push" THEN pushTicket ELSE popTicket
  BY <1>1 DEF IInv, Taken
<1>5. /\ Len(offered) = pushTicket /\ pushTicket <= MaxTicket
      /\ pushTicket \in Nat /\ MaxTicket \in Nat
  BY DynamicMPMCQueueAssumption DEF IInv, Typed, SInv, SlotsTyped
<1>6. CASE op[t] = "push"
  <2>1. k < Len(offered) /\ k \notin published
    BY <1>1, <1>4, <1>5, <1>6 DEF SInv, Claims
  <2>2. ~(k >= MaxTicket + 1) /\ k \in 0..(Len(offered) - 1)
    BY <1>2, <1>5, <2>1
  <2>3. Tickets!Publish(k)
    BY <1>1, <1>6, <2>1, <2>2 DEF Tickets!Publish
  <2>4. QED
    BY <2>2, <2>3 DEF Tickets!Next
<1>7. CASE op[t] = "pop"
  <2>1. k < popTicket /\ k \notin TakenTickets
    BY <1>1, <1>4, <1>7 DEF SInv, Claims
  <2>2. k \in published
    <3>1. slotTurn[PlaceOf(a, k)] > 2 * LapOf(a, k)
      BY <1>2, <1>3, <1>7
    <3>2. QED
      BY <1>2, <3>1 DEF SInv, TurnsTell
  <2>3. elem[t] = offered[k + 1]
    BY <1>1, <1>7 DEF SInv, Stored
  <2>4. Tickets!Take(k)
    BY <1>1, <1>7, <2>1, <2>2, <2>3
       DEF Tickets!Take, Tickets!Taken, Tickets!Offered, TakenTickets
  <2>5. QED
    BY <2>2, <2>4 DEF Tickets!Next
<1>8. QED
  BY <1>2, <1>6, <1>7

\* Every step of the queue is a step of TicketQueue, or none.
LEMMA StepRefines ==
  ASSUME IInv, SInv, [Next]_vars
  PROVE  [Tickets!Next]_(Tickets!vars)
<1>1. ASSUME UNCHANGED <<popTicket, offered, published, delivered>>
      PROVE  UNCHANGED Tickets!vars
  BY <1>1 DEF Tickets!vars
<1>2. ASSUME NEW t \in Threads, Start(t)
      PROVE  Tickets!Next
  <2>1. ASSUME NEW v \in Values, BlockingWrite(t, v)
        PROVE  Tickets!Offer(v)
    BY <2>1 DEF BlockingWrite, Tickets!Offer
  <2>2. CASE BlockingRead(t)
    BY <2>2 DEF BlockingRead, history, Tickets!Request, Tickets!Next
  <2>3. QED
    BY <1>2, <2>1, <2>2 DEF Start, Tickets!Next
<1>3. ASSUME NEW t \in Threads,
             \/ LoadState(t) \/ LoadSlots(t) \/ LoadCapacity(t) \/ Recheck(t) \/ Look(t)
             \/ LoadPops(t) \/ Lock(t) \/ LoadCounter(t) \/ StoreSlots(t)
             \/ StoreCapacity(t) \/ Unlock(t) \/ WaitForTurn(t) \/ Construct(t) \/ MoveOut(t)
      PROVE  UNCHANGED Tickets!vars
  <2>1. UNCHANGED <<queue, history>>
    BY <1>3 DEF LoadState, LoadSlots, LoadCapacity, Recheck, Look, LoadPops, Lock,
                LoadCounter, StoreSlots, StoreCapacity, Unlock, WaitForTurn, Construct, MoveOut
  <2>2. QED
    BY <1>1, <2>1 DEF queue, history
<1>4. ASSUME NEW t \in Threads, Start(t) \/ Progress(t)
      PROVE  [Tickets!Next]_(Tickets!vars)
  BY <1>2, <1>3, <1>4, CompleteRefines DEF Progress
<1>5. CASE UNCHANGED vars
  BY <1>1, <1>5 DEF vars, queue, history
<1>6. QED
  BY <1>4, <1>5 DEF Next

\* First in, first out by ticket, nothing lost and nothing repeated, whatever
\* array each call of blockingWrite and blockingRead settled on.
THEOREM RefinesTicketQueue == Spec => ImplementsTicketQueue
<1>1. Init => Tickets!Init
  BY DEF Init, Tickets!Init
<1>2. (IInv /\ SInv) /\ [Next]_vars => [Tickets!Next]_(Tickets!vars)
  BY StepRefines
<1>3. QED
  BY SlotsInvariant, <1>1, <1>2, PTL DEF Spec, ImplementsTicketQueue, Tickets!Spec
=============================================================================
