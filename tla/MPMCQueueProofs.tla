-------------------------- MODULE MPMCQueueProofs --------------------------
(***************************************************************************)
(* The fixed-size queue is a bounded FIFO queue by ticket, for every       *)
(* capacity and every number of threads, values and tickets.               *)
(***************************************************************************)
EXTENDS MPMCQueue, TLAPS

-----------------------------------------------------------------------------
\* A ticket has a slot and a lap, and no other ticket has both.
LEMMA SlotOfTicket ==
  ASSUME NEW k \in Nat
  PROVE  /\ Idx(k) \in Slots
         /\ Turn(k) \in Nat
         /\ k = Capacity * Turn(k) + Idx(k)
<1>1. Capacity \in Nat \ {0}
  BY MPMCQueueAssumption
<1>2. /\ k \div Capacity \in Int
      /\ k % Capacity \in 0..(Capacity - 1)
      /\ k = Capacity * (k \div Capacity) + (k % Capacity)
  BY <1>1, SMT
<1>3. k \div Capacity >= 0
  <2>1. k \div Capacity <= -1 => Capacity * (k \div Capacity) <= -Capacity
    BY <1>1, <1>2
  <2>2. QED
    BY <1>1, <1>2, <2>1
<1>4. QED
  BY <1>2, <1>3 DEF Idx, Turn, Slots

\* A slot and a turn tell the ticket.
LEMMA SameSlotAndTurn ==
  ASSUME NEW j \in Nat, NEW k \in Nat, Idx(j) = Idx(k), Turn(j) = Turn(k)
  PROVE  j = k
BY SlotOfTicket

\* The ticket Capacity places back used the same slot on the lap before.
LEMMA LapBefore ==
  ASSUME NEW k \in Nat
  PROVE  /\ k >= Capacity => /\ k - Capacity \in Nat
                             /\ Idx(k - Capacity) = Idx(k)
                             /\ Turn(k - Capacity) = Turn(k) - 1
         /\ k < Capacity => Turn(k) = 0
<1>1. Capacity \in Nat \ {0}
  BY MPMCQueueAssumption
<1>2. /\ Turn(k) \in Nat /\ Idx(k) \in 0..(Capacity - 1)
      /\ k = Capacity * Turn(k) + Idx(k)
  BY SlotOfTicket DEF Slots
<1>3. CASE k >= Capacity
  <2>1. k - Capacity \in Nat
    BY <1>1, <1>3
  <2>2. /\ Turn(k - Capacity) \in Nat /\ Idx(k - Capacity) \in 0..(Capacity - 1)
        /\ k - Capacity = Capacity * Turn(k - Capacity) + Idx(k - Capacity)
    BY <2>1, SlotOfTicket DEF Slots
  <2> DEFINE d == Turn(k) - 1 - Turn(k - Capacity)
  <2>3. Capacity * d = Idx(k - Capacity) - Idx(k)
    <3>1. \A c, a, b \in Int : c * (a - 1 - b) = c * a - c - c * b
      OBVIOUS
    <3>2. Capacity * d = Capacity * Turn(k) - Capacity - Capacity * Turn(k - Capacity)
      BY <1>1, <1>2, <2>2, <3>1
    <3>3. QED
      BY <1>1, <1>2, <2>1, <2>2, <3>2
  <2>4. d \in Int
    BY <1>2, <2>2
  <2>5. (d >= 1 => Capacity * d >= Capacity) /\ (d <= -1 => Capacity * d <= -Capacity)
    BY <1>1, <2>4
  <2>6. d = 0
    BY <1>1, <1>2, <2>2, <2>3, <2>4, <2>5
  <2>7. QED
    BY <1>1, <1>2, <1>3, <2>1, <2>2, <2>3, <2>6
<1>4. CASE k < Capacity
  <2>1. Turn(k) >= 1 => Capacity * Turn(k) >= Capacity
    BY <1>1, <1>2
  <2>2. QED
    BY <1>1, <1>2, <1>4, <2>1
<1>5. QED
  BY <1>1, <1>3, <1>4

-----------------------------------------------------------------------------
\* The inductive invariant, in parts.

\* A call that owns a ticket: a push carries the value it was offered for, and
\* read() is never among them.
Claims ==
  \A t \in Threads : pc[t] \in Owns =>
    IF op[t] \in Pushes THEN ticket[t] < pushTicket /\ elem[t] = offered[ticket[t] + 1]
                        ELSE op[t] = "blockingRead" /\ ticket[t] < popTicket

\* A ticket is owned once.
Distinct ==
  \A t, u \in Threads :
    /\ pc[t] \in Owns /\ pc[u] \in Owns
    /\ (op[t] \in Pushes <=> op[u] \in Pushes)
    /\ ticket[t] = ticket[u]
    => t = u

\* A call that has looked at its slot: the turn may have passed since then.
Looked ==
  \A t \in Threads :
    /\ pc[t] \in {"check", "reload", "cas"} => op[t] \in {"write", "read"}
    /\ pc[t] = "cas" => slotTurn[Idx(ticket[t])] >= Target(op[t], ticket[t])

\* A call inside a slot has its turn.
Served == \A t \in Threads : pc[t] \in Inside => AtTurn(op[t], ticket[t])

\* A slot moves past the turn of a push only when its ticket was taken.
Passed == \A k \in Nat : slotTurn[Idx(k)] > 2 * Turn(k) => k < pushTicket

\* What was delivered, told by the slots' turns.
TakenExactly ==
  \A k \in Nat : (\E d \in delivered : d[1] = k) <=> slotTurn[Idx(k)] > 2 * Turn(k) + 1

Completing(t, k, kind) == pc[t] = "complete" /\ op[t] \in kind /\ ticket[t] = k

\* The storage of a slot, from the turn of a push to that of the next.
Stored ==
  /\ \A k \in Nat :
       slotTurn[Idx(k)] = 2 * Turn(k) /\ (\A t \in Threads : ~Completing(t, k, Pushes))
         => contents[Idx(k)] = {}
  /\ \A k \in Nat :
       slotTurn[Idx(k)] = 2 * Turn(k) + 1 /\ (\A t \in Threads : ~Completing(t, k, Pops))
         => contents[Idx(k)] = {offered[k + 1]}
  /\ \A t \in Threads : pc[t] = "complete" =>
       IF op[t] \in Pushes THEN contents[Idx(ticket[t])] = {elem[t]}
                           ELSE /\ contents[Idx(ticket[t])] = {}
                                /\ elem[t] = offered[ticket[t] + 1]

Typed == TypeOK /\ Len(offered) = pushTicket

IInv == /\ Typed /\ Claims /\ Distinct /\ Looked /\ WriteDoesNotBlock /\ Served
        /\ Passed /\ TakenExactly /\ Stored

\* The invariant holds at first.
LEMMA InitIInv == Init => IInv
<1> SUFFICES ASSUME Init PROVE IInv
  OBVIOUS
<1>1. Typed
  BY MPMCQueueAssumption DEF Init, Typed, TypeOK, Pops, Pushes
<1>2. Claims /\ Distinct /\ Looked /\ WriteDoesNotBlock /\ Served
  BY DEF Init, Claims, Distinct, Looked, WriteDoesNotBlock, Served, Owns, Inside
<1>3. Passed /\ TakenExactly /\ Stored
  BY SlotOfTicket DEF Init, Passed, TakenExactly, Stored
<1>4. QED
  BY <1>1, <1>2, <1>3 DEF IInv

\* Two calls inside the same slot have the same turn, so the same ticket.
LEMMA OneInside ==
  ASSUME IInv, NEW t \in Threads, NEW u \in Threads,
         pc[t] \in Inside, Idx(ticket[t]) = Idx(ticket[u]),
         pc[u] \in Owns, AtTurn(op[u], ticket[u])
  PROVE  t = u
<1>1. AtTurn(op[t], ticket[t]) /\ ticket[t] \in Nat /\ ticket[u] \in Nat
  BY DEF IInv, Typed, TypeOK, Served
<1>2. Target(op[t], ticket[t]) = Target(op[u], ticket[u])
  BY <1>1 DEF AtTurn
<1>3. Turn(ticket[t]) \in Nat /\ Turn(ticket[u]) \in Nat
  BY <1>1, SlotOfTicket
<1>4. Turn(ticket[t]) = Turn(ticket[u]) /\ (op[t] \in Pushes <=> op[u] \in Pushes)
  BY <1>2, <1>3 DEF Target
<1>5. ticket[t] = ticket[u]
  BY <1>1, <1>4, SameSlotAndTurn
<1>6. QED
  BY <1>4, <1>5 DEF IInv, Distinct, Owns

-----------------------------------------------------------------------------
\* The steps of a call that does not have its ticket yet, and the end of its
\* wait, change nothing but the call itself.
LEMMA CallIInv ==
  ASSUME IInv, NEW t \in Threads, NEW v \in Values,
         Write(t, v) \/ Read(t) \/ Check(t) \/ Reload(t) \/ WaitForTurn(t)
  PROVE  IInv'
<1> USE DEF Owns, Inside
<1>1. /\ UNCHANGED <<pushTicket, popTicket, slotTurn, contents, offered, delivered>>
      /\ pc[t] \in {"idle", "check", "reload", "wait"}
      /\ pc'[t] # "complete"
      /\ pc'[t] \in Owns => pc[t] = "wait" /\ pc'[t] = "in" /\ UNCHANGED <<op, ticket, elem>>
      /\ \A u \in Threads \ {t} : /\ pc'[u] = pc[u] /\ op'[u] = op[u]
                                  /\ ticket'[u] = ticket[u] /\ elem'[u] = elem[u]
  BY DEF Write, Read, Check, Reload, WaitForTurn, Call, IInv, Typed, TypeOK
<1>2. Typed'
  BY DEF Write, Read, Check, Reload, WaitForTurn, Call, IInv, Typed, TypeOK, Pushes, Pops
<1>3. Claims'
  BY <1>1 DEF IInv, Claims
<1>4. Distinct'
  BY <1>1 DEF IInv, Distinct
<1>5. Looked'
  <2>1. /\ pc'[t] \in {"check", "reload", "cas"} => op'[t] \in {"write", "read"}
        /\ pc'[t] = "cas" => AtTurn(op'[t], ticket'[t]) /\ ticket'[t] \in Nat
    BY DEF Write, Read, Check, Reload, WaitForTurn, Call, IInv, Typed, TypeOK, Looked
  <2>2. pc'[t] = "cas" => slotTurn'[Idx(ticket'[t])] >= Target(op'[t], ticket'[t])
    BY <1>1, <2>1, SlotOfTicket DEF AtTurn, Target
  <2>3. QED
    BY <1>1, <2>1, <2>2 DEF IInv, Looked
<1>6. WriteDoesNotBlock'
  BY <1>1 DEF IInv, WriteDoesNotBlock, AtTurn
<1>7. Served'
  <2>1. pc'[t] \in Inside => AtTurn(op[t], ticket[t])
    BY <1>1 DEF Write, Read, Check, Reload, WaitForTurn, Call
  <2>2. QED
    BY <1>1, <2>1 DEF IInv, Served, AtTurn
<1>8. Passed' /\ TakenExactly'
  BY <1>1 DEF IInv, Passed, TakenExactly
<1>9. Stored'
  BY <1>1 DEF IInv, Stored, Completing
<1>10. QED
  BY <1>2, <1>3, <1>4, <1>5, <1>6, <1>7, <1>8, <1>9 DEF IInv

\* A push takes its ticket.
LEMMA OfferIInv ==
  ASSUME IInv, NEW t \in Threads, NEW v \in Values,
         BlockingWrite(t, v) \/ TakeTicket(t)
  PROVE  IInv'
<1> USE DEF Owns, Inside
<1>1. /\ UNCHANGED <<popTicket, slotTurn, contents, delivered>>
      /\ pc[t] \in {"idle", "cas"}
      /\ \A u \in Threads \ {t} : /\ pc'[u] = pc[u] /\ op'[u] = op[u]
                                  /\ ticket'[u] = ticket[u] /\ elem'[u] = elem[u]
  BY DEF BlockingWrite, TakeTicket, Call, IInv, Typed, TypeOK
<1>2. CASE pc'[t] = "check" /\ UNCHANGED <<pushTicket, offered>>
  <2>1. Typed' /\ op' = op
    BY <1>2 DEF BlockingWrite, TakeTicket, Call, IInv, Typed, TypeOK
  <2>2. op[t] \in {"write", "read"}
    BY <1>1, <1>2 DEF BlockingWrite, TakeTicket, Call, IInv, Typed, TypeOK, Looked
  <2>3. Claims' /\ Distinct' /\ Looked'
    BY <1>1, <1>2, <2>1, <2>2 DEF IInv, Claims, Distinct, Looked
  <2>4. WriteDoesNotBlock' /\ Served'
    BY <1>1, <1>2 DEF IInv, WriteDoesNotBlock, Served, AtTurn
  <2>5. Passed' /\ TakenExactly' /\ Stored'
    BY <1>1, <1>2 DEF IInv, Passed, TakenExactly, Stored, Completing
  <2>6. QED
    BY <2>1, <2>3, <2>4, <2>5 DEF IInv
<1>3. CASE /\ pushTicket' = pushTicket + 1 /\ offered' = Append(offered, elem'[t])
           /\ pc'[t] = "wait" /\ ticket'[t] = pushTicket
  <2>1. Typed'
    <3>1. elem' \in [Threads -> Values] /\ pc' \in [Threads -> {"idle", "check", "reload", "cas"} \cup Owns]
          /\ op' \in [Threads -> Pushes \cup Pops] /\ ticket' \in [Threads -> Nat]
      BY <1>1 DEF BlockingWrite, TakeTicket, Call, IInv, Typed, TypeOK, Pushes
    <3>2. offered' \in Seq(Values) /\ Len(offered') = Len(offered) + 1
      BY <1>3, <3>1 DEF IInv, Typed, TypeOK
    <3>3. QED
      BY <1>1, <1>3, <3>1, <3>2 DEF IInv, Typed, TypeOK
  <2>2. \A k \in Nat : k < pushTicket => offered'[k + 1] = offered[k + 1]
    BY <1>3 DEF IInv, Typed, TypeOK
  <2>3. offered'[pushTicket + 1] = elem'[t]
    BY <1>3, <2>1 DEF IInv, Typed, TypeOK
  <2>4. /\ op'[t] \in Pushes
        /\ op'[t] = "write" => AtTurn(op'[t], ticket'[t])
    <3>1. CASE BlockingWrite(t, v)
      BY <3>1 DEF BlockingWrite, Call, IInv, Typed, TypeOK, Pushes
    <3>2. CASE TakeTicket(t)
      <4>1. /\ UNCHANGED <<op, ticket>> /\ ticket[t] = pushTicket /\ pushTicket \in Nat
            /\ op[t] \in {"write", "read"}
            /\ slotTurn[Idx(ticket[t])] >= Target(op[t], ticket[t])
        BY <1>3, <3>2 DEF TakeTicket, IInv, Typed, TypeOK, Looked
      <4>2. /\ slotTurn[Idx(pushTicket)] \in Nat /\ Turn(pushTicket) \in Nat
            /\ slotTurn[Idx(pushTicket)] <= 2 * Turn(pushTicket)
        BY <4>1, SlotOfTicket DEF IInv, Typed, TypeOK, Passed
      <4>3. QED
        BY <4>1, <4>2 DEF Target, Pushes, AtTurn
    <3>3. QED
      BY <3>1, <3>2
  <2>5. \A u \in Threads : pc[u] \in Owns /\ op[u] \in Pushes => ticket[u] < pushTicket
    BY DEF IInv, Claims
  <2>6. Claims'
    <3>1. \A u \in Threads : ticket[u] \in Nat /\ pushTicket \in Nat
      BY DEF IInv, Typed, TypeOK
    <3>2. \A u \in Threads \ {t} : pc[u] \in Owns =>
            IF op[u] \in Pushes
              THEN ticket[u] < pushTicket' /\ elem[u] = offered'[ticket[u] + 1]
              ELSE op[u] = "blockingRead" /\ ticket[u] < popTicket'
      <4>1. \A u \in Threads : pc[u] \in Owns /\ op[u] \in Pushes =>
              offered'[ticket[u] + 1] = offered[ticket[u] + 1]
        BY <2>2, <2>5, <3>1
      <4>2. \A u \in Threads : ticket[u] < pushTicket => ticket[u] < pushTicket'
        BY <1>3, <3>1
      <4>3. popTicket' = popTicket
        BY <1>1
      <4>4. QED
        BY <4>1, <4>2, <4>3 DEF IInv, Claims
    <3>3. ticket'[t] < pushTicket' /\ elem'[t] = offered'[ticket'[t] + 1]
      BY <1>3, <2>3, <3>1
    <3>4. QED
      BY <1>1, <2>4, <3>2, <3>3 DEF Claims
  <2>7. Distinct'
    BY <1>1, <1>3, <2>4, <2>5 DEF IInv, Distinct, Typed, TypeOK
  <2>8. Looked'
    BY <1>1, <1>3 DEF IInv, Looked
  <2>9. WriteDoesNotBlock' /\ Served'
    BY <1>1, <1>3, <2>4 DEF IInv, WriteDoesNotBlock, Served, AtTurn
  <2>10. Passed' /\ TakenExactly'
    BY <1>1, <1>3 DEF IInv, Passed, TakenExactly, Typed, TypeOK
  <2>11. Stored'
    <3>1. \A k \in Nat : slotTurn[Idx(k)] = 2 * Turn(k) + 1 => k < pushTicket
      BY SlotOfTicket DEF IInv, Passed
    <3>2. \A u \in Threads : pc[u] = "complete" /\ op[u] \notin Pushes =>
            ticket[u] \in Nat /\ slotTurn[Idx(ticket[u])] = 2 * Turn(ticket[u]) + 1
      BY DEF IInv, Served, AtTurn, Target, Typed, TypeOK
    <3>3. \A u \in Threads \ {t} : \A k : Completing(u, k, Pushes)' = Completing(u, k, Pushes)
                                       /\ Completing(u, k, Pops)' = Completing(u, k, Pops)
      BY <1>1 DEF Completing
    <3>4. \A k : /\ ~Completing(t, k, Pushes) /\ ~Completing(t, k, Pops)
                 /\ ~Completing(t, k, Pushes)' /\ ~Completing(t, k, Pops)'
      BY <1>1, <1>3 DEF Completing
    <3>5. \A k \in Nat :
            slotTurn'[Idx(k)] = 2 * Turn(k) /\ (\A u \in Threads : ~Completing(u, k, Pushes)')
              => contents'[Idx(k)] = {}
      BY <1>1, <3>3, <3>4 DEF IInv, Stored
    <3>6. \A k \in Nat :
            slotTurn'[Idx(k)] = 2 * Turn(k) + 1 /\ (\A u \in Threads : ~Completing(u, k, Pops)')
              => contents'[Idx(k)] = {offered'[k + 1]}
      BY <1>1, <2>2, <3>1, <3>3, <3>4 DEF IInv, Stored
    <3>7. \A u \in Threads : pc'[u] = "complete" =>
            IF op'[u] \in Pushes THEN contents'[Idx(ticket'[u])] = {elem'[u]}
                                 ELSE /\ contents'[Idx(ticket'[u])] = {}
                                      /\ elem'[u] = offered'[ticket'[u] + 1]
      <4>1. pc'[t] # "complete"
        BY <1>3
      <4>2. \A u \in Threads \ {t} : pc[u] = "complete" /\ op[u] \notin Pushes =>
              offered'[ticket[u] + 1] = offered[ticket[u] + 1]
        BY <2>2, <3>1, <3>2
      <4>3. QED
        BY <1>1, <4>1, <4>2 DEF IInv, Stored
    <3>8. QED
      BY <3>5, <3>6, <3>7 DEF Stored
  <2>12. QED
    BY <2>1, <2>6, <2>7, <2>8, <2>9, <2>10, <2>11 DEF IInv
<1>4. QED
  BY <1>2, <1>3 DEF BlockingWrite, TakeTicket, Call, IInv, Typed, TypeOK

\* A blocking pop takes its ticket.
LEMMA RequestIInv ==
  ASSUME IInv, NEW t \in Threads, BlockingRead(t)
  PROVE  IInv'
<1> USE DEF Owns, Inside
<1>1. /\ UNCHANGED <<pushTicket, slotTurn, contents, elem, offered, delivered>>
      /\ popTicket' = popTicket + 1
      /\ pc[t] = "idle" /\ pc'[t] = "wait" /\ op'[t] = "blockingRead"
      /\ ticket'[t] = popTicket
      /\ \A u \in Threads \ {t} : pc'[u] = pc[u] /\ op'[u] = op[u] /\ ticket'[u] = ticket[u]
  BY DEF BlockingRead, Call, IInv, Typed, TypeOK
<1>2. Typed'
  BY DEF BlockingRead, Call, IInv, Typed, TypeOK, Pushes, Pops
<1>3. \A u \in Threads : pc[u] \in Owns /\ op[u] \notin Pushes => ticket[u] < popTicket
  BY DEF IInv, Claims
<1>4. Claims'
  BY <1>1, <1>2 DEF IInv, Claims, Typed, TypeOK, Pushes
<1>5. Distinct'
  BY <1>1, <1>3 DEF IInv, Distinct, Pushes, Typed, TypeOK
<1>6. Looked'
  BY <1>1 DEF IInv, Looked
<1>7. WriteDoesNotBlock' /\ Served'
  BY <1>1 DEF IInv, WriteDoesNotBlock, Served, AtTurn
<1>8. Passed' /\ TakenExactly' /\ Stored'
  BY <1>1 DEF IInv, Passed, TakenExactly, Stored, Completing
<1>9. QED
  BY <1>2, <1>4, <1>5, <1>6, <1>7, <1>8 DEF IInv

\* A push constructs its element, or a pop moves it out: nobody else is there.
LEMMA InsideIInv ==
  ASSUME IInv, NEW t \in Threads, Construct(t) \/ MoveOut(t)
  PROVE  IInv'
<1> USE DEF Owns, Inside
<1> DEFINE k == ticket[t]
<1>1. /\ UNCHANGED <<pushTicket, popTicket, slotTurn, op, ticket, offered, delivered>>
      /\ pc[t] = "in" /\ pc' = [pc EXCEPT ![t] = "complete"]
      /\ k \in Nat /\ Idx(k) \in Slots
      /\ pc \in [Threads -> {"idle", "check", "reload", "cas"} \cup Owns]
  BY SlotOfTicket DEF Construct, MoveOut, IInv, Typed, TypeOK
<1>2. \A j \in Nat : Idx(j) = Idx(k) /\ Turn(j) = Turn(k) => j = k
  BY <1>1, SameSlotAndTurn
<1>3. \A u \in Threads \ {t} : pc[u] = "complete" => Idx(ticket[u]) # Idx(k)
  BY <1>1, OneInside DEF IInv, Served
<1>4. \A u \in Threads \ {t} : pc'[u] = pc[u] /\ elem'[u] = elem[u]
  BY <1>1 DEF Construct, MoveOut, IInv, Typed, TypeOK
<1>5. AtTurn(op[t], k) /\ \A j \in Nat : Turn(j) \in Nat /\ Idx(j) \in Slots
  BY <1>1, SlotOfTicket DEF IInv, Served
<1>6. /\ op[t] \in Pushes => elem' = elem /\ contents'[Idx(k)] = {elem[t]}
      /\ op[t] \notin Pushes => /\ contents'[Idx(k)] = {} /\ elem'[t] = offered[k + 1]
                                /\ elem' \in [Threads -> Values]
      /\ contents' \in [Slots -> SUBSET Values]
      /\ \A i \in Slots : i # Idx(k) => contents'[i] = contents[i]
  <2>1. CASE Construct(t)
    <3>1. slotTurn[Idx(k)] = 2 * Turn(k)
      BY <1>1, <1>5, <2>1 DEF Construct, AtTurn, Target
    <3>2. \A u \in Threads : ~Completing(u, k, Pushes)
      BY <1>1, <1>3 DEF Completing
    <3>3. contents[Idx(k)] = {}
      BY <1>1, <3>1, <3>2 DEF IInv, Stored
    <3>4. QED
      BY <1>1, <2>1, <3>3 DEF Construct, IInv, Typed, TypeOK
  <2>2. CASE MoveOut(t)
    <3>1. op[t] \notin Pushes
      BY <2>2 DEF MoveOut, Pushes, Pops
    <3>2. slotTurn[Idx(k)] = 2 * Turn(k) + 1
      BY <1>1, <1>5, <3>1 DEF AtTurn, Target
    <3>3. \A u \in Threads : ~Completing(u, k, Pops)
      BY <1>1, <1>3 DEF Completing
    <3>4. contents[Idx(k)] = {offered[k + 1]}
      BY <1>1, <3>2, <3>3 DEF IInv, Stored
    <3>5. /\ elem' = [elem EXCEPT ![t] = offered[k + 1]]
          /\ contents' = [contents EXCEPT ![Idx(k)] = @ \ {offered[k + 1]}]
          /\ offered[k + 1] \in contents[Idx(k)]
      BY <2>2, <3>4 DEF MoveOut
    <3>6. QED
      BY <1>1, <3>1, <3>4, <3>5 DEF IInv, Typed, TypeOK
  <2>3. QED
    BY <2>1, <2>2
<1> HIDE DEF k
<1>7. Typed'
  BY <1>1, <1>6 DEF IInv, Typed, TypeOK
<1>8. Claims'
  BY <1>1, <1>4, <1>6 DEF IInv, Claims
<1>9. Distinct'
  BY <1>1 DEF IInv, Distinct
<1>10. Looked' /\ WriteDoesNotBlock' /\ Served'
  BY <1>1, <1>5 DEF IInv, Looked, WriteDoesNotBlock, Served, AtTurn, k
<1>11. Passed' /\ TakenExactly'
  BY <1>1 DEF IInv, Passed, TakenExactly
<1>12. Stored'
  <2>1. \A j \in Nat :
          slotTurn'[Idx(j)] = 2 * Turn(j) /\ (\A u \in Threads : ~Completing(u, j, Pushes)')
            => contents'[Idx(j)] = {}
    <3>1. SUFFICES ASSUME NEW j \in Nat, slotTurn[Idx(j)] = 2 * Turn(j),
                          \A u \in Threads : ~Completing(u, j, Pushes)'
                   PROVE  contents'[Idx(j)] = {}
      BY <1>1
    <3>2. \A u \in Threads : ~Completing(u, j, Pushes)
      BY <1>1, <3>1 DEF Completing
    <3>3. CASE Idx(j) = Idx(k)
      <4>1. op[t] \in Pushes => j = k
        BY <1>1, <1>2, <1>5, <3>1, <3>3 DEF AtTurn, Target
      <4>2. op[t] \notin Pushes
        BY <1>1, <3>1, <4>1 DEF Completing, k
      <4>3. QED
        BY <1>6, <3>3, <4>2
    <3>4. CASE Idx(j) # Idx(k)
      BY <1>5, <1>6, <3>1, <3>2, <3>4 DEF IInv, Stored
    <3>5. QED
      BY <3>3, <3>4
  <2>2. \A j \in Nat :
          slotTurn'[Idx(j)] = 2 * Turn(j) + 1 /\ (\A u \in Threads : ~Completing(u, j, Pops)')
            => contents'[Idx(j)] = {offered'[j + 1]}
    <3>1. SUFFICES ASSUME NEW j \in Nat, slotTurn[Idx(j)] = 2 * Turn(j) + 1,
                          \A u \in Threads : ~Completing(u, j, Pops)'
                   PROVE  contents'[Idx(j)] = {offered[j + 1]}
      BY <1>1
    <3>2. \A u \in Threads : ~Completing(u, j, Pops)
      BY <1>1, <3>1 DEF Completing
    <3>3. Idx(j) # Idx(k)
      <4>1. ASSUME Idx(j) = Idx(k) PROVE FALSE
        <5>1. op[t] \notin Pushes
          BY <1>1, <1>5, <3>1, <4>1 DEF AtTurn, Target
        <5>2. j = k
          BY <1>1, <1>2, <1>5, <3>1, <4>1, <5>1 DEF AtTurn, Target
        <5>3. op[t] \in Pops
          BY <5>1 DEF IInv, Typed, TypeOK
        <5>4. QED
          BY <1>1, <3>1, <5>2, <5>3 DEF Completing, k
      <4>2. QED
        BY <4>1
    <3>4. QED
      BY <1>5, <1>6, <3>1, <3>2, <3>3 DEF IInv, Stored
  <2>3. \A u \in Threads : pc'[u] = "complete" =>
          IF op'[u] \in Pushes THEN contents'[Idx(ticket'[u])] = {elem'[u]}
                               ELSE /\ contents'[Idx(ticket'[u])] = {}
                                    /\ elem'[u] = offered'[ticket'[u] + 1]
    <3>1. SUFFICES ASSUME NEW u \in Threads, pc'[u] = "complete"
                   PROVE  IF op[u] \in Pushes
                            THEN contents'[Idx(ticket[u])] = {elem'[u]}
                            ELSE /\ contents'[Idx(ticket[u])] = {}
                                 /\ elem'[u] = offered[ticket[u] + 1]
      BY <1>1
    <3>2. CASE u = t
      BY <1>6, <3>2 DEF k
    <3>3. CASE u # t
      <4>1. Idx(ticket[u]) # Idx(k) /\ Idx(ticket[u]) \in Slots /\ pc[u] = "complete"
        BY <1>3, <1>4, <3>1, <3>3, SlotOfTicket DEF IInv, Typed, TypeOK
      <4>2. QED
        BY <1>4, <1>6, <3>3, <4>1 DEF IInv, Stored
    <3>4. QED
      BY <3>2, <3>3
  <2>4. QED
    BY <2>1, <2>2, <2>3 DEF Stored
<1>13. QED
  BY <1>7, <1>8, <1>9, <1>10, <1>11, <1>12 DEF IInv

\* A call completes its turn and leaves: the slot is the next call's.
LEMMA CompleteIInv ==
  ASSUME IInv, NEW t \in Threads, CompleteTurn(t)
  PROVE  IInv'
<1> USE DEF Owns, Inside
<1> DEFINE k == ticket[t]
<1>1. /\ UNCHANGED <<pushTicket, popTicket, contents, op, ticket, elem, offered>>
      /\ pc[t] = "complete" /\ pc' = [pc EXCEPT ![t] = "idle"]
      /\ k \in Nat /\ Idx(k) \in Slots
      /\ slotTurn' = [slotTurn EXCEPT ![Idx(k)] = Target(op[t], k) + 1]
      /\ pc \in [Threads -> {"idle", "check", "reload", "cas"} \cup Owns]
      /\ slotTurn \in [Slots -> Nat]
  BY SlotOfTicket DEF CompleteTurn, IInv, Typed, TypeOK
<1>2. \A j \in Nat : Idx(j) = Idx(k) /\ Turn(j) = Turn(k) => j = k
  BY <1>1, SameSlotAndTurn
<1>3. \A j \in Nat : Turn(j) \in Nat /\ Idx(j) \in Slots
  BY SlotOfTicket
<1>4. /\ slotTurn[Idx(k)] = Target(op[t], k)
      /\ slotTurn'[Idx(k)] = slotTurn[Idx(k)] + 1
      /\ \A i \in Slots : i # Idx(k) => slotTurn'[i] = slotTurn[i]
  BY <1>1 DEF IInv, Served, AtTurn
<1>5. \A u \in Threads \ {t} :
        /\ pc'[u] = pc[u]
        /\ pc[u] \in Owns /\ AtTurn(op[u], ticket[u]) => Idx(ticket[u]) # Idx(k)
  BY <1>1, OneInside
<1>6. pc'[t] = "idle"
  BY <1>1
<1>7. /\ op[t] \in Pushes => /\ delivered' = delivered
                             /\ slotTurn[Idx(k)] = 2 * Turn(k)
                             /\ k < pushTicket /\ elem[t] = offered[k + 1]
                             /\ contents[Idx(k)] = {elem[t]}
      /\ op[t] \notin Pushes => /\ delivered' = delivered \cup {<<k, elem[t]>>}
                                /\ slotTurn[Idx(k)] = 2 * Turn(k) + 1
                                /\ k < popTicket /\ elem[t] = offered[k + 1]
                                /\ contents[Idx(k)] = {}
  <2>1. op[t] \in Pushes => op[t] \notin Pops
    BY DEF Pushes, Pops
  <2>2. op[t] \notin Pushes => op[t] \in Pops
    BY DEF IInv, Typed, TypeOK
  <2>3. Turn(k) \in Nat
    BY <1>1, <1>3
  <2>4. /\ op[t] \in Pushes => slotTurn[Idx(k)] = 2 * Turn(k)
        /\ op[t] \notin Pushes => slotTurn[Idx(k)] = 2 * Turn(k) + 1
    BY <1>4, <2>3 DEF Target
  <2>5. IF op[t] \in Pops THEN delivered' = delivered \cup {<<k, elem[t]>>}
                          ELSE delivered' = delivered
    BY DEF CompleteTurn
  <2>6. IF op[t] \in Pushes THEN k < pushTicket /\ elem[t] = offered[k + 1]
                            ELSE k < popTicket
    BY <1>1 DEF IInv, Claims
  <2>7. IF op[t] \in Pushes THEN contents[Idx(k)] = {elem[t]}
                            ELSE contents[Idx(k)] = {} /\ elem[t] = offered[k + 1]
    BY <1>1 DEF IInv, Stored
  <2>8. QED
    BY <2>1, <2>2, <2>4, <2>5, <2>6, <2>7
<1>8. \A u \in Threads : ticket[u] \in Nat /\ elem[u] \in Values
  BY DEF IInv, Typed, TypeOK
<1> HIDE DEF k
<1>9. Typed'
  <2>1. slotTurn' \in [Slots -> Nat]
    BY <1>1, <1>3, <1>4
  <2>2. delivered' \in SUBSET (Nat \X Values)
    BY <1>1, <1>7, <1>8 DEF IInv, Typed, TypeOK
  <2>3. QED
    BY <1>1, <2>1, <2>2 DEF IInv, Typed, TypeOK
<1>10. Claims' /\ Distinct'
  BY <1>1, <1>5, <1>6 DEF IInv, Claims, Distinct
<1>11. Looked'
  <2>1. \A u \in Threads : slotTurn'[Idx(ticket[u])] >= slotTurn[Idx(ticket[u])]
    BY <1>1, <1>3, <1>4, <1>8
  <2>2. \A u \in Threads : Target(op[u], ticket[u]) \in Nat /\ Idx(ticket[u]) \in Slots
    <3>1. SUFFICES ASSUME NEW u \in Threads
                   PROVE  Target(op[u], ticket[u]) \in Nat /\ Idx(ticket[u]) \in Slots
      OBVIOUS
    <3>2. Turn(ticket[u]) \in Nat /\ Idx(ticket[u]) \in Slots
      BY <1>3, <1>8
    <3>3. QED
      BY <3>2 DEF Target
  <2>3. \A u \in Threads : pc'[u] = "cas" =>
          slotTurn'[Idx(ticket[u])] >= Target(op[u], ticket[u])
    BY <1>1, <1>5, <1>6, <2>1, <2>2, <1>9 DEF IInv, Looked, Typed, TypeOK
  <2>4. QED
    BY <1>1, <1>5, <1>6, <2>3 DEF IInv, Looked
<1>12. WriteDoesNotBlock' /\ Served'
  BY <1>1, <1>3, <1>4, <1>5, <1>6, <1>8 DEF IInv, WriteDoesNotBlock, Served, AtTurn
<1>13. Passed'
  <2>1. SUFFICES ASSUME NEW j \in Nat, slotTurn'[Idx(j)] > 2 * Turn(j)
                 PROVE  j < pushTicket
    BY <1>1 DEF Passed
  <2>2. CASE Idx(j) # Idx(k)
    BY <1>3, <1>4, <2>1, <2>2 DEF IInv, Passed
  <2>3. CASE Idx(j) = Idx(k) /\ slotTurn[Idx(j)] > 2 * Turn(j)
    BY <2>1, <2>3 DEF IInv, Passed
  <2>4. CASE Idx(j) = Idx(k) /\ ~(slotTurn[Idx(j)] > 2 * Turn(j))
    <3>1. slotTurn[Idx(k)] = 2 * Turn(j)
      BY <1>1, <1>3, <1>4, <2>1, <2>4
    <3>2. op[t] \in Pushes /\ Turn(j) = Turn(k)
      BY <1>1, <1>3, <1>7, <3>1
    <3>3. QED
      BY <1>2, <1>7, <2>4, <3>2
  <2>5. QED
    BY <2>2, <2>3, <2>4
<1>14. TakenExactly'
  <2>1. SUFFICES ASSUME NEW j \in Nat
                 PROVE  (\E d \in delivered' : d[1] = j) <=> slotTurn'[Idx(j)] > 2 * Turn(j) + 1
    BY DEF TakenExactly
  <2>2. (\E d \in delivered : d[1] = j) <=> slotTurn[Idx(j)] > 2 * Turn(j) + 1
    BY DEF IInv, TakenExactly
  <2>3. CASE Idx(j) # Idx(k)
    BY <1>3, <1>4, <1>7, <2>2, <2>3
  <2>4. CASE Idx(j) = Idx(k) /\ op[t] \in Pushes
    BY <1>1, <1>3, <1>4, <1>7, <2>2, <2>4
  <2>5. CASE Idx(j) = Idx(k) /\ op[t] \notin Pushes
    <3>1. slotTurn'[Idx(j)] > 2 * Turn(j) + 1 <=>
            slotTurn[Idx(j)] > 2 * Turn(j) + 1 \/ Turn(j) = Turn(k)
      BY <1>1, <1>3, <1>4, <1>7, <2>5
    <3>2. Turn(j) = Turn(k) <=> j = k
      BY <1>2, <2>5
    <3>3. (\E d \in delivered' : d[1] = j) <=> (\E d \in delivered : d[1] = j) \/ j = k
      <4>1. <<k, elem[t]>>[1] = k /\ delivered' = delivered \cup {<<k, elem[t]>>}
        BY <1>7, <2>5
      <4>2. QED
        BY <4>1
    <3>4. QED
      BY <2>2, <3>1, <3>2, <3>3
  <2>6. QED
    BY <2>3, <2>4, <2>5
<1>15. Stored'
  <2>1. ASSUME NEW j \in Nat, Idx(j) # Idx(k), NEW kind
        PROVE  (\A u \in Threads : ~Completing(u, j, kind)') =>
                 (\A u \in Threads : ~Completing(u, j, kind))
    BY <1>1, <1>5, <2>1 DEF Completing, k
  <2>2. ASSUME NEW j \in Nat, slotTurn'[Idx(j)] = 2 * Turn(j),
               \A u \in Threads : ~Completing(u, j, Pushes)'
        PROVE  contents[Idx(j)] = {}
    <3>1. CASE Idx(j) = Idx(k)
      <4>1. op[t] \notin Pushes
        BY <1>1, <1>3, <1>4, <1>7, <2>2, <3>1
      <4>2. QED
        BY <1>7, <3>1, <4>1
    <3>2. CASE Idx(j) # Idx(k)
      BY <1>3, <1>4, <2>1, <2>2, <3>2 DEF IInv, Stored
    <3>3. QED
      BY <3>1, <3>2
  <2>3. ASSUME NEW j \in Nat, slotTurn'[Idx(j)] = 2 * Turn(j) + 1,
               \A u \in Threads : ~Completing(u, j, Pops)'
        PROVE  contents[Idx(j)] = {offered[j + 1]}
    <3>1. CASE Idx(j) = Idx(k)
      <4>1. op[t] \in Pushes /\ Turn(j) = Turn(k)
        BY <1>1, <1>3, <1>4, <1>7, <2>3, <3>1
      <4>2. QED
        BY <1>2, <1>7, <3>1, <4>1
    <3>2. CASE Idx(j) # Idx(k)
      BY <1>3, <1>4, <2>1, <2>3, <3>2 DEF IInv, Stored
    <3>3. QED
      BY <3>1, <3>2
  <2>4. QED
    BY <1>1, <1>5, <1>6, <2>2, <2>3 DEF IInv, Stored
<1>16. QED
  BY <1>9, <1>10, <1>11, <1>12, <1>13, <1>14, <1>15 DEF IInv

\* Every step keeps it.
LEMMA NextIInv == IInv /\ [Next]_vars => IInv'
<1> SUFFICES ASSUME IInv, [Next]_vars PROVE IInv'
  OBVIOUS
<1>1. ASSUME NEW t \in Threads, Start(t) PROVE IInv'
  <2>1. ASSUME NEW v \in Values, BlockingWrite(t, v) PROVE IInv'
    BY <2>1, OfferIInv
  <2>2. ASSUME NEW v \in Values, Write(t, v) PROVE IInv'
    BY <2>2, CallIInv
  <2>3. elem[t] \in Values
    BY DEF IInv, Typed, TypeOK
  <2>4. CASE BlockingRead(t)
    BY <2>4, RequestIInv
  <2>5. CASE Read(t)
    BY <2>3, <2>5, CallIInv
  <2>6. QED
    BY <1>1, <2>1, <2>2, <2>4, <2>5 DEF Start
<1>2. ASSUME NEW t \in Threads, Progress(t) PROVE IInv'
  <2>1. elem[t] \in Values
    BY DEF IInv, Typed, TypeOK
  <2>2. CASE Check(t) \/ Reload(t) \/ WaitForTurn(t)
    BY <2>1, <2>2, CallIInv
  <2>3. CASE TakeTicket(t)
    BY <2>1, <2>3, OfferIInv
  <2>4. CASE Construct(t) \/ MoveOut(t)
    BY <2>4, InsideIInv
  <2>5. CASE CompleteTurn(t)
    BY <2>5, CompleteIInv
  <2>6. QED
    BY <1>2, <2>2, <2>3, <2>4, <2>5 DEF Progress
<1>3. CASE UNCHANGED vars
  BY <1>3 DEF vars, control, IInv, Typed, TypeOK, Claims, Distinct, Looked, Served, Passed,
     TakenExactly, Stored, Completing, WriteDoesNotBlock, AtTurn
<1>4. QED
  BY <1>1, <1>2, <1>3 DEF Next

\* The invariant's consequences for the calls inside a slot.
LEMMA IInvSlots == IInv => SlotExclusive /\ SlotReady /\ ReadNeverSucceeds
<1> SUFFICES ASSUME IInv PROVE SlotExclusive /\ SlotReady /\ ReadNeverSucceeds
  OBVIOUS
<1>1. SlotExclusive
  BY OneInside DEF IInv, Served, SlotExclusive, Owns
<1>2. SlotReady
  <2>1. SUFFICES ASSUME NEW t \in Threads, pc[t] = "in"
                 PROVE  IF op[t] \in Pushes THEN contents[Idx(ticket[t])] = {}
                        ELSE \E v \in Values : contents[Idx(ticket[t])] = {v}
    BY DEF SlotReady
  <2>2. ticket[t] \in Nat /\ AtTurn(op[t], ticket[t]) /\ Turn(ticket[t]) \in Nat
    BY <2>1, SlotOfTicket DEF IInv, Typed, TypeOK, Served, Inside
  <2>3. \A u \in Threads : pc[u] = "complete" => Idx(ticket[u]) # Idx(ticket[t])
    BY <1>1, <2>1 DEF SlotExclusive, Inside
  <2>4. CASE op[t] \in Pushes
    BY <2>2, <2>3, <2>4 DEF IInv, Stored, Completing, AtTurn, Target
  <2>5. CASE op[t] \notin Pushes
    <3>1. slotTurn[Idx(ticket[t])] = 2 * Turn(ticket[t]) + 1
      BY <2>2, <2>5 DEF AtTurn, Target
    <3>2. contents[Idx(ticket[t])] = {offered[ticket[t] + 1]}
      BY <2>2, <2>3, <3>1 DEF IInv, Stored, Completing
    <3>3. ticket[t] < pushTicket
      BY <2>2, <3>1 DEF IInv, Passed
    <3>4. offered[ticket[t] + 1] \in Values
      BY <2>2, <3>3 DEF IInv, Typed, TypeOK
    <3>5. QED
      BY <2>5, <3>2, <3>4
  <2>6. QED
    BY <2>4, <2>5
<1>3. ReadNeverSucceeds
  BY DEF IInv, Claims, ReadNeverSucceeds, Pushes
<1>4. QED
  BY <1>1, <1>2, <1>3

\* At most one call is inside a slot and finds there what its turn promises;
\* write() does not block once it has a ticket; read() never gets one.
THEOREM QueueSafe ==
  Spec => [](TypeOK /\ SlotExclusive /\ SlotReady /\ WriteDoesNotBlock /\ ReadNeverSucceeds)
<1>1. IInv => TypeOK /\ SlotExclusive /\ SlotReady /\ WriteDoesNotBlock /\ ReadNeverSucceeds
  BY IInvSlots DEF IInv, Typed
<1>2. QED
  BY InitIInv, NextIInv, <1>1, PTL DEF Spec

\* What line 308 claims of write(), for every capacity and number of threads.
THEOREM WriteNeverWaits == Spec => []WriteDoesNotBlock
BY QueueSafe, PTL

\* read() delivers nothing in any queue, full or not (line 363).
THEOREM ReadIsHopeless == Spec => []ReadNeverSucceeds
BY QueueSafe, PTL

-----------------------------------------------------------------------------
\* write() gives up only on a look that found the queue full.
THEOREM WriteHonest == Spec => WriteFailsOnlyWhenFull
<1>1. ASSUME IInv, [Next]_vars, NEW t \in Threads, pc[t] = "check", pc'[t] = "reload",
             op[t] = "write", ticket[t] = pushTicket
      PROVE  /\ ticket[t] >= Capacity
             /\ \A v \in Values : <<ticket[t] - Capacity, v>> \notin delivered
  <2> DEFINE k == ticket[t]
  <2>1. /\ k \in Nat /\ Turn(k) \in Nat /\ Idx(k) \in Slots
        /\ slotTurn \in [Slots -> Nat]
        /\ pc \in [Threads -> {"idle", "check", "reload", "cas"} \cup Owns]
    BY <1>1, SlotOfTicket DEF IInv, Typed, TypeOK
  <2>2. Check(t)
    <3>1. ASSUME NEW u \in Threads, u # t, Start(u) \/ Progress(u) PROVE pc'[t] = pc[t]
      BY <2>1, <3>1 DEF Start, Progress, BlockingWrite, BlockingRead, Write, Read, Call, Check,
         Reload, TakeTicket, WaitForTurn, Construct, MoveOut, CompleteTurn
    <3>2. ~Start(t)
      BY <1>1 DEF Start, BlockingWrite, BlockingRead, Write, Read, Call
    <3>3. Progress(t) => Check(t)
      BY <1>1 DEF Progress, Reload, TakeTicket, WaitForTurn, Construct, MoveOut, CompleteTurn
    <3>4. QED
      BY <1>1, <3>1, <3>2, <3>3 DEF Next, vars, control
  <2>3. slotTurn[Idx(k)] # 2 * Turn(k)
    BY <1>1, <2>1, <2>2 DEF Check, AtTurn, Target, Pushes
  <2>4. slotTurn[Idx(k)] < 2 * Turn(k)
    BY <1>1, <2>1, <2>3 DEF IInv, Passed
  <2>5. k >= Capacity
    BY <2>1, <2>4, LapBefore, MPMCQueueAssumption
  <2>6. ~(\E d \in delivered : d[1] = k - Capacity)
    <3>1. /\ k - Capacity \in Nat /\ Idx(k - Capacity) = Idx(k)
          /\ Turn(k - Capacity) = Turn(k) - 1
      BY <2>1, <2>5, LapBefore
    <3>2. ~(slotTurn[Idx(k - Capacity)] > 2 * Turn(k - Capacity) + 1)
      BY <2>1, <2>4, <3>1
    <3>3. QED
      BY <1>1, <3>1, <3>2 DEF IInv, TakenExactly
  <2>7. \A v \in Values : <<k - Capacity, v>>[1] = k - Capacity
    OBVIOUS
  <2>8. QED
    BY <2>5, <2>6, <2>7
<1>2. IInv /\ [Next]_vars =>
        [\A t \in Threads :
           pc[t] = "check" /\ pc'[t] = "reload" /\ op[t] = "write" /\ ticket[t] = pushTicket
             => /\ ticket[t] >= Capacity
                /\ \A v \in Values : <<ticket[t] - Capacity, v>> \notin delivered]_vars
  BY <1>1
<1>3. QED
  BY InitIInv, NextIInv, <1>2, PTL DEF Spec, WriteFailsOnlyWhenFull

-----------------------------------------------------------------------------
\* Every step of the queue is a step of TicketQueue, or none.
LEMMA StepRefines ==
  ASSUME IInv, [Next]_vars
  PROVE  [Tickets!Next]_(Tickets!vars)
<1>1. ASSUME UNCHANGED <<pushTicket, popTicket, slotTurn, offered, delivered>>
      PROVE  UNCHANGED Tickets!vars
  BY <1>1 DEF Tickets!vars, published
<1>2. ASSUME NEW t \in Threads, NEW v \in Values,
             /\ pushTicket' = pushTicket + 1 /\ offered' = Append(offered, v)
             /\ UNCHANGED <<popTicket, slotTurn, delivered>>
      PROVE  Tickets!Offer(v)
  <2>1. pushTicket \in Nat /\ \A k \in Nat : slotTurn[Idx(k)] > 2 * Turn(k) => k < pushTicket
    BY DEF IInv, Typed, TypeOK, Passed
  <2>2. published' = published
    BY <1>2, <2>1 DEF published
  <2>3. QED
    BY <1>2, <2>2 DEF Tickets!Offer
<1>3. ASSUME NEW t \in Threads, BlockingRead(t)
      PROVE  Tickets!Request
  BY <1>3 DEF BlockingRead, Tickets!Request, published
<1>4. ASSUME NEW t \in Threads, CompleteTurn(t)
      PROVE  Tickets!Next
  <2> DEFINE k == ticket[t]
  <2>1. /\ UNCHANGED <<pushTicket, popTicket, offered>>
        /\ pc[t] = "complete"
        /\ k \in Nat /\ Idx(k) \in Slots /\ pushTicket \in Nat
        /\ slotTurn' = [slotTurn EXCEPT ![Idx(k)] = Target(op[t], k) + 1]
        /\ slotTurn \in [Slots -> Nat]
    BY <1>4, SlotOfTicket DEF CompleteTurn, IInv, Typed, TypeOK
  <2>2. \A j \in Nat : /\ Turn(j) \in Nat /\ Idx(j) \in Slots
                       /\ Idx(j) = Idx(k) /\ Turn(j) = Turn(k) => j = k
    BY <2>1, SlotOfTicket, SameSlotAndTurn
  <2>3. slotTurn[Idx(k)] = Target(op[t], k)
    BY <2>1 DEF IInv, Served, AtTurn, Inside
  <2>4. op[t] \in Pushes \/ (op[t] \in Pops /\ op[t] \notin Pushes)
    BY DEF IInv, Typed, TypeOK
  <2>5. CASE op[t] \in Pushes
    <3>1. slotTurn[Idx(k)] = 2 * Turn(k) /\ slotTurn'[Idx(k)] = 2 * Turn(k) + 1
      BY <2>1, <2>2, <2>3, <2>5 DEF Target
    <3>2. k < pushTicket /\ delivered' = delivered
      BY <1>4, <2>1, <2>5 DEF CompleteTurn, IInv, Claims, Owns, Inside, Pushes, Pops
    <3>3. k \in 0..(Len(offered) - 1) /\ k < Len(offered)
      BY <2>1, <3>2 DEF IInv, Typed
    <3>4. k \notin published
      BY <2>1, <2>2, <3>1 DEF published
    <3>5. k >= Capacity => k - Capacity \in Tickets!Taken
      <4>1. SUFFICES ASSUME k >= Capacity PROVE k - Capacity \in Tickets!Taken
        OBVIOUS
      <4>2. /\ k - Capacity \in Nat /\ Idx(k - Capacity) = Idx(k)
            /\ Turn(k - Capacity) = Turn(k) - 1
        BY <2>1, <4>1, LapBefore
      <4>3. slotTurn[Idx(k - Capacity)] > 2 * Turn(k - Capacity) + 1
        BY <2>1, <2>2, <3>1, <4>2
      <4>4. QED
        BY <4>2, <4>3 DEF IInv, TakenExactly, Tickets!Taken
    <3>6. published' = published \cup {k}
      <4>1. ASSUME NEW j \in 0..(pushTicket - 1)
            PROVE  slotTurn'[Idx(j)] > 2 * Turn(j) <=> slotTurn[Idx(j)] > 2 * Turn(j) \/ j = k
        <5>1. j \in Nat /\ Idx(j) \in Slots /\ Turn(j) \in Nat /\ Turn(k) \in Nat
          BY <2>1, <2>2
        <5>2. CASE Idx(j) = Idx(k)
          <6>1. Turn(j) = Turn(k) <=> j = k
            BY <2>2, <5>1, <5>2
          <6>2. QED
            BY <3>1, <5>1, <5>2, <6>1
        <5>3. CASE Idx(j) # Idx(k)
          BY <2>1, <5>1, <5>3
        <5>4. QED
          BY <5>2, <5>3
      <4>2. k \in 0..(pushTicket - 1) /\ pushTicket' = pushTicket
        BY <2>1, <3>2
      <4>3. QED
        BY <4>1, <4>2 DEF published
    <3>7. Tickets!Publish(k)
      BY <2>1, <3>2, <3>3, <3>4, <3>5, <3>6 DEF Tickets!Publish
    <3>8. QED
      BY <3>3, <3>7 DEF Tickets!Next
  <2>6. CASE op[t] \in Pops /\ op[t] \notin Pushes
    <3>1. slotTurn[Idx(k)] = 2 * Turn(k) + 1 /\ slotTurn'[Idx(k)] = 2 * Turn(k) + 2
      BY <2>1, <2>2, <2>3, <2>6 DEF Target
    <3>2. k < popTicket /\ elem[t] = offered[k + 1] /\ delivered' = delivered \cup {<<k, elem[t]>>}
      BY <1>4, <2>1, <2>6 DEF CompleteTurn, IInv, Claims, Stored, Owns, Inside
    <3>3. k \in published
      <4>1. k < pushTicket
        BY <2>1, <2>2, <3>1 DEF IInv, Passed
      <4>2. QED
        BY <2>1, <2>2, <3>1, <4>1 DEF published
    <3>4. k \notin Tickets!Taken
      BY <2>1, <2>2, <3>1 DEF IInv, TakenExactly, Tickets!Taken
    <3>5. published' = published
      <4>1. ASSUME NEW j \in 0..(pushTicket - 1)
            PROVE  slotTurn'[Idx(j)] > 2 * Turn(j) <=> slotTurn[Idx(j)] > 2 * Turn(j)
        <5>1. j \in Nat /\ Idx(j) \in Slots /\ Turn(j) \in Nat /\ Turn(k) \in Nat
          BY <2>1, <2>2
        <5>2. CASE Idx(j) = Idx(k)
          BY <3>1, <5>1, <5>2
        <5>3. CASE Idx(j) # Idx(k)
          BY <2>1, <5>1, <5>3
        <5>4. QED
          BY <5>2, <5>3
      <4>2. QED
        BY <2>1, <4>1 DEF published
    <3>6. Tickets!Take(k)
      BY <2>1, <3>2, <3>3, <3>4, <3>5 DEF Tickets!Take, Tickets!Offered
    <3>7. QED
      BY <3>3, <3>6 DEF Tickets!Next
  <2>7. QED
    BY <2>4, <2>5, <2>6
<1>5. ASSUME NEW t \in Threads, Start(t) \/ Progress(t)
      PROVE  [Tickets!Next]_(Tickets!vars)
  <2>1. elem[t] \in Values
    BY DEF IInv, Typed, TypeOK
  <2>2. ASSUME NEW v \in Values, BlockingWrite(t, v) PROVE Tickets!Next
    BY <1>2, <2>2 DEF BlockingWrite, Tickets!Next
  <2>3. CASE TakeTicket(t)
    <3>1. CASE pushTicket = ticket[t]
      BY <1>2, <2>1, <2>3, <3>1 DEF TakeTicket, Tickets!Next
    <3>2. CASE pushTicket # ticket[t]
      BY <1>1, <2>3, <3>2 DEF TakeTicket
    <3>3. QED
      BY <3>1, <3>2
  <2>4. CASE BlockingRead(t)
    BY <1>3, <2>4 DEF Tickets!Next
  <2>5. CASE CompleteTurn(t)
    BY <1>4, <2>5
  <2>6. ASSUME NEW v \in Values,
               \/ Write(t, v) \/ Read(t) \/ Check(t) \/ Reload(t) \/ WaitForTurn(t)
               \/ Construct(t) \/ MoveOut(t)
        PROVE  UNCHANGED Tickets!vars
    BY <1>1, <2>6 DEF Write, Read, Check, Reload, WaitForTurn, Construct, MoveOut
  <2>7. QED
    BY <1>5, <2>1, <2>2, <2>3, <2>4, <2>5, <2>6 DEF Start, Progress
<1>6. CASE UNCHANGED vars
  BY <1>1, <1>6 DEF vars
<1>7. QED
  BY <1>5, <1>6 DEF Next

\* The queue delivers what was offered, first in, first out by ticket, holds
\* at most Capacity elements and neither loses nor repeats one.
THEOREM RefinesTicketQueue == Spec => ImplementsTicketQueue
<1>1. Init => Tickets!Init
  BY DEF Init, Tickets!Init, published
<1>2. IInv /\ [Next]_vars => [Tickets!Next]_(Tickets!vars)
  BY StepRefines
<1>3. QED
  BY InitIInv, NextIInv, <1>1, <1>2, PTL DEF Spec, ImplementsTicketQueue, Tickets!Spec
=============================================================================
