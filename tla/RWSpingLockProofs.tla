-------------------------- MODULE RWSpingLockProofs --------------------------
(***************************************************************************)
(* The reader-writer spin lock excludes as RWLock says, for every number   *)
(* of threads whose readers fit the count.                                 *)
(***************************************************************************)
EXTENDS RWSpingLock, FiniteSetTheorems, TLAPS

\* The readers the word counts: also one whose failed attempt is not yet taken
\* back, and a writer that is changing into a reader.
Counted == {t \in Threads : pc[t] \in {"shared", "back_off", "unlock_and_lock_shared"}}

Count == bits \div READER = Cardinality(Counted)

\* WRITER is set exactly while there is a writer.  UPGRADE may be stray, but
\* only beside a writer, who clears it or takes it over.
Flags ==
  /\ HasWriter(bits) <=> \E t \in Threads : pc[t] \in Exclusive
  /\ \A t \in Threads :
       pc[t] \in Upgrading \cup {"unlock_and_lock_upgrade"} => HasUpgrade(bits)
  /\ HasUpgrade(bits) => \E t \in Threads : pc[t] \in Exclusive \cup Upgrading

OneOwner ==
  \A t, u \in Threads :
    pc[t] \in Exclusive \cup Upgrading /\ pc[u] \in Exclusive \cup Upgrading => t = u

NoReaderBesideWriter ==
  \A t, u \in Threads : pc[t] \in Exclusive => pc[u] # "shared"

IInv == TypeOK /\ Count /\ Flags /\ OneOwner /\ NoReaderBesideWriter

-----------------------------------------------------------------------------
\* What each operation does to the three fields of the word.
LEMMA Fields ==
  ASSUME NEW b \in Nat
  PROVE  /\ /\ b + READER \in Nat /\ (b + READER) \div READER = (b \div READER) + 1
            /\ HasWriter(b + READER) <=> HasWriter(b)
            /\ HasUpgrade(b + READER) <=> HasUpgrade(b)
         /\ b \div READER >= 1 =>
              /\ b - READER \in Nat /\ (b - READER) \div READER = (b \div READER) - 1
              /\ HasWriter(b - READER) <=> HasWriter(b)
              /\ HasUpgrade(b - READER) <=> HasUpgrade(b)
         /\ HasWriter(b) =>
              /\ b - WRITER \in Nat /\ (b - WRITER) \div READER = b \div READER
              /\ ~HasWriter(b - WRITER)
              /\ HasUpgrade(b - WRITER) <=> HasUpgrade(b)
         /\ HasUpgrade(b) =>
              /\ b - UPGRADE \in Nat /\ (b - UPGRADE) \div READER = b \div READER
              /\ HasWriter(b - UPGRADE) <=> HasWriter(b)
              /\ ~HasUpgrade(b - UPGRADE)
         /\ ~HasUpgrade(b) =>
              /\ b + UPGRADE \in Nat /\ (b + UPGRADE) \div READER = b \div READER
              /\ HasWriter(b + UPGRADE) <=> HasWriter(b)
              /\ HasUpgrade(b + UPGRADE)
         /\ /\ b - (b % READER) \in Nat /\ (b - (b % READER)) \div READER = b \div READER
            /\ ~HasWriter(b - (b % READER)) /\ ~HasUpgrade(b - (b % READER))
BY DEF HasWriter, HasUpgrade, READER, WRITER, UPGRADE

\* The words that lock() and unlock_upgrade_and_lock() wait for.
LEMMA Idle ==
  /\ 0 \div READER = 0 /\ ~HasWriter(0) /\ ~HasUpgrade(0)
  /\ UPGRADE \div READER = 0 /\ ~HasWriter(UPGRADE) /\ HasUpgrade(UPGRADE)
  /\ WRITER \in Nat /\ WRITER \div READER = 0 /\ HasWriter(WRITER) /\ ~HasUpgrade(WRITER)
BY DEF HasWriter, HasUpgrade, READER, WRITER, UPGRADE

\* The counted readers are finitely many.
LEMMA CountedFinite ==
  /\ IsFiniteSet(Counted) /\ Cardinality(Counted) \in Nat
  /\ Cardinality(Counted) = 0 => Counted = {}
<1>1. IsFiniteSet(Counted)
  BY RWSpingLockAssumption, FS_Subset DEF Counted
<1>2. QED
  BY <1>1, FS_CardinalityType, FS_EmptySet

\* One thread moves: the count follows.
LEMMA CountMoves ==
  ASSUME IInv, NEW t \in Threads, NEW from, NEW to, Go(t, from, to),
         to \in {"none", "back_off"} \cup Held \cup Spinning \cup Exclusive
  PROVE  LET Before == from \in {"shared", "back_off", "unlock_and_lock_shared"}
             After  == to \in {"shared", "back_off", "unlock_and_lock_shared"}
         IN  /\ (Before <=> After) => Cardinality(Counted') = Cardinality(Counted)
             /\ After /\ ~Before => Cardinality(Counted') = Cardinality(Counted) + 1
             /\ Before /\ ~After => /\ Cardinality(Counted') = Cardinality(Counted) - 1
                                    /\ Cardinality(Counted) >= 1
<1> DEFINE kinds == {"shared", "back_off", "unlock_and_lock_shared"}
<1>1. /\ pc[t] = from /\ pc'[t] = to
      /\ \A u \in Threads \ {t} : pc'[u] = pc[u]
  BY DEF Go, IInv, TypeOK
<1>2. IsFiniteSet(Counted) /\ Cardinality(Counted) \in Nat
  BY CountedFinite
<1>3. CASE from \in kinds <=> to \in kinds
  BY <1>1, <1>3 DEF Counted
<1>4. CASE to \in kinds /\ from \notin kinds
  <2>1. Counted' = Counted \cup {t} /\ t \notin Counted
    BY <1>1, <1>4 DEF Counted
  <2>2. QED
    BY <1>2, <1>4, <2>1, FS_AddElement
<1>5. CASE from \in kinds /\ to \notin kinds
  <2>1. Counted' = Counted \ {t} /\ t \in Counted
    BY <1>1, <1>5 DEF Counted
  <2>2. Cardinality(Counted) # 0
    BY <2>1, CountedFinite
  <2>3. QED
    BY <1>2, <1>5, <2>1, <2>2, FS_RemoveElement
<1>6. QED
  BY <1>3, <1>4, <1>5

\* The invariant holds at first.
LEMMA InitIInv == Init => IInv
<1> SUFFICES ASSUME Init PROVE IInv
  OBVIOUS
<1>1. Counted = {}
  BY DEF Init, Counted
<1>2. Count
  BY <1>1, Idle, FS_EmptySet DEF Init, Count
<1>3. TypeOK /\ Flags /\ OneOwner /\ NoReaderBesideWriter
  BY Idle DEF Init, TypeOK, Flags, OneOwner, NoReaderBesideWriter, Exclusive, Upgrading
<1>4. QED
  BY <1>2, <1>3 DEF IInv

-----------------------------------------------------------------------------
\* A step keeps the invariant if it keeps the flags and lets nobody in whom
\* the modes keep out.
LEMMA MoveIInv ==
  ASSUME IInv, NEW t \in Threads, NEW from, NEW to, Go(t, from, to),
         to \in {"none", "back_off"} \cup Held \cup Spinning \cup Exclusive,
         bits' \in Nat, Count',
         HasWriter(bits') <=>
           to \in Exclusive \/ (from \notin Exclusive /\ HasWriter(bits)),
         to \in Upgrading \cup {"unlock_and_lock_upgrade"} => HasUpgrade(bits'),
         from \notin Exclusive \cup Upgrading => (HasUpgrade(bits) => HasUpgrade(bits')),
         HasUpgrade(bits') =>
           to \in Exclusive \cup Upgrading
             \/ (from \notin Exclusive \cup Upgrading /\ (HasUpgrade(bits) \/ HasWriter(bits))),
         to \in Exclusive \cup Upgrading /\ from \notin Exclusive \cup Upgrading =>
           ~HasWriter(bits) /\ ~HasUpgrade(bits),
         to \in Exclusive /\ from \notin Exclusive => \A u \in Threads : pc[u] # "shared",
         to = "shared" /\ from \notin Exclusive => ~HasWriter(bits)
  PROVE  IInv'
<1> USE DEF Exclusive, Upgrading
<1>1. /\ pc[t] = from /\ pc'[t] = to
      /\ \A u \in Threads \ {t} : pc'[u] = pc[u]
      /\ pc' \in [Threads -> {"none", "back_off"} \cup Held \cup Spinning \cup Exclusive]
  BY DEF Go, IInv, TypeOK
<1>2. TypeOK'
  BY <1>1 DEF TypeOK
<1>3. \A u \in Threads \ {t} : pc[u] \in Exclusive \cup Upgrading =>
        from \notin Exclusive \cup Upgrading
  BY <1>1 DEF IInv, OneOwner
<1>4. \A u \in Threads : /\ pc[u] \in Exclusive => HasWriter(bits)
                         /\ pc[u] \in Upgrading => HasUpgrade(bits)
  BY DEF IInv, Flags
<1>5. Flags'
  <2>1. HasWriter(bits') <=> \E u \in Threads : pc'[u] \in Exclusive
    <3>1. from \notin Exclusive => (HasWriter(bits) <=> \E u \in Threads \ {t} : pc[u] \in Exclusive)
      BY <1>1 DEF IInv, Flags
    <3>2. from \in Exclusive => ~\E u \in Threads \ {t} : pc[u] \in Exclusive
      BY <1>3
    <3>3. QED
      BY <1>1, <3>1, <3>2
  <2>2. \A u \in Threads :
          pc'[u] \in Upgrading \cup {"unlock_and_lock_upgrade"} => HasUpgrade(bits')
    BY <1>1, <1>3 DEF IInv, Flags
  <2>3. HasUpgrade(bits') => \E u \in Threads : pc'[u] \in Exclusive \cup Upgrading
    <3>1. from \notin Exclusive \cup Upgrading /\ (HasUpgrade(bits) \/ HasWriter(bits)) =>
            \E u \in Threads \ {t} : pc[u] \in Exclusive \cup Upgrading
      BY <1>1 DEF IInv, Flags
    <3>2. QED
      BY <1>1, <3>1
  <2>4. QED
    BY <2>1, <2>2, <2>3 DEF Flags
<1>6. OneOwner'
  BY <1>1, <1>3, <1>4 DEF IInv, OneOwner
<1>7. NoReaderBesideWriter'
  BY <1>1, <1>3, <1>4 DEF IInv, NoReaderBesideWriter
<1>8. QED
  BY <1>2, <1>5, <1>6, <1>7 DEF IInv

\* Every step keeps it.
LEMMA NextIInv == IInv /\ [Next]_vars => IInv'
<1> SUFFICES ASSUME IInv, [Next]_vars PROVE IInv'
  OBVIOUS
<1> USE DEF Exclusive, Upgrading, Held, Spinning
<1>1. bits \in Nat /\ Cardinality(Counted) \in Nat /\ bits \div READER = Cardinality(Counted)
  BY CountedFinite DEF IInv, TypeOK, Count
<1>2. /\ \A u \in Threads : pc[u] \in Exclusive => HasWriter(bits)
      /\ \A u \in Threads :
           pc[u] \in Upgrading \cup {"unlock_and_lock_upgrade"} => HasUpgrade(bits)
      /\ \A u \in Threads : pc[u] \in Upgrading => ~HasWriter(bits)
  BY DEF IInv, Flags, OneOwner
<1>3. Cardinality(Counted) = 0 => \A u \in Threads : pc[u] # "shared"
  BY CountedFinite DEF Counted
<1>4. CASE UNCHANGED vars
  BY <1>4 DEF vars, IInv, TypeOK, Count, Counted, Flags, OneOwner, NoReaderBesideWriter
<1>5. ASSUME NEW t \in Threads, Begin(t) PROVE IInv'
  <2>1. PICK from, to : /\ Go(t, from, to) /\ pc[t] = from
                        /\ \/ /\ from = "none"
                              /\ to \in {"lock", "lock_shared", "lock_upgrade"}
                           \/ from = "upgrade" /\ to = "unlock_upgrade_and_lock"
    BY <1>5 DEF Begin, Go
  <2>2. bits' = bits /\ Count'
    BY <1>1, <1>5, <2>1, CountMoves DEF Begin, Count
  <2>3. QED
    BY <1>1, <1>2, <2>1, <2>2, MoveIInv
<1>6. ASSUME NEW t \in Threads, TryLock(t) PROVE IInv'
  <2>1. Go(t, "lock", "exclusive") /\ pc[t] = "lock"
    BY <1>6 DEF TryLock, Go
  <2>2. bits' \in Nat /\ Count'
    BY <1>1, <1>2, <1>6, <2>1, CountMoves, Idle DEF TryLock, Count
  <2>3. QED
    BY <1>1, <1>2, <1>3, <1>6, <2>1, <2>2, MoveIInv, Idle DEF TryLock
<1>7. ASSUME NEW t \in Threads, TryLockShared(t) PROVE IInv'
  <2>1. PICK to \in {"back_off", "shared"} :
          Go(t, "lock_shared", to) /\ (to = "shared" => ~HasWriter(bits))
    BY <1>7 DEF TryLockShared
  <2>2. bits' \in Nat /\ Count'
    BY <1>1, <1>7, <2>1, CountMoves, Fields DEF TryLockShared, Count
  <2>3. QED
    BY <1>1, <1>7, <2>1, <2>2, MoveIInv, Fields DEF TryLockShared
<1>8. ASSUME NEW t \in Threads, BackOff(t) PROVE IInv'
  <2>1. Go(t, "back_off", "lock_shared") /\ pc[t] = "back_off"
    BY <1>8 DEF BackOff, Go
  <2>2. bits \div READER >= 1
    BY <1>1, <2>1, CountMoves
  <2>3. bits' \in Nat /\ Count'
    BY <1>1, <1>8, <2>1, <2>2, CountMoves, Fields DEF BackOff, Count
  <2>4. QED
    BY <1>1, <1>2, <1>8, <2>1, <2>2, <2>3, MoveIInv, Fields DEF BackOff
<1>9. ASSUME NEW t \in Threads, TryLockUpgrade(t) PROVE IInv'
  <2>1. PICK to \in {"lock_upgrade", "upgrade"} :
          /\ Go(t, "lock_upgrade", to)
          /\ to = "lock_upgrade" <=> HasUpgrade(bits) \/ HasWriter(bits)
    BY <1>9 DEF TryLockUpgrade
  <2>2. bits' \in Nat /\ Count'
    BY <1>1, <1>9, <2>1, CountMoves, Fields DEF TryLockUpgrade, Count
  <2>3. QED
    BY <1>1, <1>9, <2>1, <2>2, MoveIInv, Fields DEF TryLockUpgrade
<1>10. ASSUME NEW t \in Threads, TryUnlockUpgradeAndLock(t) PROVE IInv'
  <2>1. Go(t, "unlock_upgrade_and_lock", "exclusive") /\ pc[t] = "unlock_upgrade_and_lock"
    BY <1>10 DEF TryUnlockUpgradeAndLock, Go
  <2>2. bits' \in Nat /\ Count'
    BY <1>1, <1>2, <1>10, <2>1, CountMoves, Idle DEF TryUnlockUpgradeAndLock, Count
  <2>3. QED
    BY <1>1, <1>2, <1>3, <1>10, <2>1, <2>2, MoveIInv, Idle DEF TryUnlockUpgradeAndLock
<1>11. ASSUME NEW t \in Threads, Unlock(t) PROVE IInv'
  <2>1. Go(t, "exclusive", "none") /\ pc[t] = "exclusive"
    BY <1>11 DEF Unlock, Go
  <2>2. bits' \in Nat /\ Count'
    BY <1>1, <1>2, <1>11, <2>1, CountMoves, Fields DEF Unlock, ClearWriterAndUpgrade, Count
  <2>3. QED
    BY <1>1, <1>2, <1>3, <1>11, <2>1, <2>2, MoveIInv, Fields DEF Unlock, ClearWriterAndUpgrade
<1>12. ASSUME NEW t \in Threads, UnlockShared(t) PROVE IInv'
  <2>1. Go(t, "shared", "none") /\ pc[t] = "shared"
    BY <1>12 DEF UnlockShared, Go
  <2>2. bits \div READER >= 1
    BY <1>1, <2>1, CountMoves
  <2>3. bits' \in Nat /\ Count'
    BY <1>1, <1>12, <2>1, <2>2, CountMoves, Fields DEF UnlockShared, Count
  <2>4. QED
    BY <1>1, <1>2, <1>12, <2>1, <2>2, <2>3, MoveIInv, Fields DEF UnlockShared
<1>13. ASSUME NEW t \in Threads, UnlockUpgrade(t) PROVE IInv'
  <2>1. Go(t, "upgrade", "none") /\ pc[t] = "upgrade"
    BY <1>13 DEF UnlockUpgrade, Go
  <2>2. bits' \in Nat /\ Count'
    BY <1>1, <1>2, <1>13, <2>1, CountMoves, Fields DEF UnlockUpgrade, Count
  <2>3. QED
    BY <1>1, <1>2, <1>3, <1>13, <2>1, <2>2, MoveIInv, Fields DEF UnlockUpgrade
<1>14. ASSUME NEW t \in Threads, UnlockUpgradeAndLockShared(t) PROVE IInv'
  <2>1. Go(t, "upgrade", "shared") /\ pc[t] = "upgrade"
    BY <1>14 DEF UnlockUpgradeAndLockShared, Go
  <2>2. HasUpgrade(bits) /\ ~HasWriter(bits)
    BY <1>2, <2>1
  <2>3. /\ bits' \in Nat /\ bits' \div READER = (bits \div READER) + 1
        /\ ~HasWriter(bits') /\ ~HasUpgrade(bits')
    <3>1. bits' = (bits - UPGRADE) + READER
      BY <1>1, <1>14 DEF UnlockUpgradeAndLockShared, READER, UPGRADE
    <3>2. QED
      BY <1>1, <2>2, <3>1, Fields
  <2>4. Count'
    BY <1>1, <2>1, <2>3, CountMoves DEF Count
  <2>5. QED
    BY <1>2, <2>1, <2>2, <2>3, <2>4, MoveIInv
<1>15. ASSUME NEW t \in Threads, CountInAsReader(t) PROVE IInv'
  <2>1. Go(t, "exclusive", "unlock_and_lock_shared") /\ pc[t] = "exclusive"
    BY <1>15 DEF CountInAsReader, Go
  <2>2. bits' \in Nat /\ Count'
    BY <1>1, <1>2, <1>15, <2>1, CountMoves, Fields DEF CountInAsReader, Count
  <2>3. QED
    BY <1>1, <1>2, <1>3, <1>15, <2>1, <2>2, MoveIInv, Fields DEF CountInAsReader
<1>16. ASSUME NEW t \in Threads, KeepReaderOnly(t) PROVE IInv'
  <2>1. Go(t, "unlock_and_lock_shared", "shared") /\ pc[t] = "unlock_and_lock_shared"
    BY <1>16 DEF KeepReaderOnly, Go
  <2>2. bits' \in Nat /\ Count'
    BY <1>1, <1>2, <1>16, <2>1, CountMoves, Fields DEF KeepReaderOnly, ClearWriterAndUpgrade, Count
  <2>3. QED
    BY <1>1, <1>2, <1>3, <1>16, <2>1, <2>2, MoveIInv, Fields DEF KeepReaderOnly, ClearWriterAndUpgrade
<1>17. ASSUME NEW t \in Threads, SetUpgrade(t) PROVE IInv'
  <2>1. Go(t, "exclusive", "unlock_and_lock_upgrade") /\ pc[t] = "exclusive"
    BY <1>17 DEF SetUpgrade, Go
  <2>2. bits' \in Nat /\ Count'
    BY <1>1, <1>2, <1>17, <2>1, CountMoves, Fields DEF SetUpgrade, Count
  <2>3. QED
    BY <1>1, <1>2, <1>3, <1>17, <2>1, <2>2, MoveIInv, Fields DEF SetUpgrade
<1>18. ASSUME NEW t \in Threads, DropWriter(t) PROVE IInv'
  <2>1. Go(t, "unlock_and_lock_upgrade", "upgrade") /\ pc[t] = "unlock_and_lock_upgrade"
    BY <1>18 DEF DropWriter, Go
  <2>2. bits' \in Nat /\ Count'
    BY <1>1, <1>2, <1>18, <2>1, CountMoves, Fields DEF DropWriter, Count
  <2>3. QED
    BY <1>1, <1>2, <1>3, <1>18, <2>1, <2>2, MoveIInv, Fields DEF DropWriter
<1>19. QED
  BY <1>4, <1>5, <1>6, <1>7, <1>8, <1>9, <1>10, <1>11, <1>12, <1>13, <1>14, <1>15, <1>16, <1>17, <1>18
     DEF Next, Progress, Release

-----------------------------------------------------------------------------
\* Types, exclusion, one upgrade holder, and a word that is 0 once everybody
\* has left: no order of failed attempts and retractions leaves a trace.
THEOREM LockSafe ==
  Spec => [](TypeOK /\ WriterExcludes /\ UpgradeUnique /\ QuiescentClean)
<1>1. IInv => TypeOK /\ WriterExcludes /\ UpgradeUnique
  BY DEF IInv, OneOwner, NoReaderBesideWriter, WriterExcludes, UpgradeUnique
<1>2. IInv => QuiescentClean
  <2>1. SUFFICES ASSUME IInv, \A t \in Threads : pc[t] = "none" PROVE bits = 0
    BY DEF QuiescentClean
  <2>2. Counted = {}
    BY <2>1 DEF Counted
  <2>3. bits \in Nat /\ bits \div READER = 0
    BY <2>1, <2>2, FS_EmptySet DEF IInv, TypeOK, Count
  <2>4. ~HasWriter(bits) /\ ~HasUpgrade(bits)
    BY <2>1 DEF IInv, Flags, Exclusive, Upgrading
  <2>5. QED
    BY <2>3, <2>4 DEF HasWriter, HasUpgrade, READER, UPGRADE
<1>3. QED
  BY InitIInv, NextIInv, <1>1, <1>2, PTL DEF Spec

\* A lock nobody holds or asks for is as new, whatever attempts failed before.
THEOREM IdleLockIsClear == Spec => []QuiescentClean
BY LockSafe, PTL

\* Every step of the lock is a step of RWLock, or none.
LEMMA StepRefines ==
  ASSUME IInv, [Next]_vars
  PROVE  [Abstract!Next]_mode
<1> USE DEF Exclusive, Upgrading, Held, Spinning
<1>1. pc \in [Threads -> {"none", "back_off"} \cup Held \cup Spinning \cup Exclusive]
  BY DEF IInv, TypeOK
<1>2. ASSUME NEW t \in Threads, NEW from, NEW to, Go(t, from, to)
      PROVE  /\ pc[t] = from /\ pc'[t] = to
             /\ \A u \in Threads \ {t} : pc'[u] = pc[u]
  BY <1>1, <1>2 DEF Go
<1>3. ASSUME NEW t \in Threads, NEW from, NEW to, Go(t, from, to),
             NEW m, NEW n,
             mode[t] = m, mode'[t] = n
      PROVE  Abstract!Become(t, m, n)
  <2>1. \A u \in Threads \ {t} : mode'[u] = mode[u]
    BY <1>2, <1>3 DEF mode
  <2>2. mode' = [mode EXCEPT ![t] = n]
    BY <1>3, <2>1 DEF mode
  <2>3. QED
    BY <1>3, <2>2 DEF Abstract!Become
<1>4. CASE UNCHANGED vars
  BY <1>4 DEF vars, mode
<1>5. \A u \in Threads : /\ mode[u] = "shared" <=> pc[u] = "shared"
                         /\ mode[u] = "upgrade" <=> pc[u] \in Upgrading
                         /\ mode[u] = "exclusive" <=> pc[u] \in Exclusive
                         /\ mode[u] = "none" <=> pc[u] \notin Exclusive \cup Upgrading \cup {"shared"}
  BY DEF mode
<1>6. \A u \in Threads : /\ mode'[u] = "shared" <=> pc'[u] = "shared"
                         /\ mode'[u] = "upgrade" <=> pc'[u] \in Upgrading
                         /\ mode'[u] = "exclusive" <=> pc'[u] \in Exclusive
                         /\ mode'[u] = "none" <=> pc'[u] \notin Exclusive \cup Upgrading \cup {"shared"}
  BY DEF mode
<1>7. ASSUME NEW t \in Threads,
             Begin(t) \/ BackOff(t) \/ CountInAsReader(t) \/ SetUpgrade(t)
               \/ (TryLockShared(t) /\ pc'[t] # "shared")
               \/ (TryLockUpgrade(t) /\ pc'[t] # "upgrade")
      PROVE  UNCHANGED mode
  BY <1>1, <1>7 DEF Begin, BackOff, CountInAsReader, SetUpgrade, TryLockShared, TryLockUpgrade,
     Go, mode
<1>8. /\ HasWriter(bits) <=> \E u \in Threads : pc[u] \in Exclusive
      /\ \A u \in Threads : pc[u] \in Upgrading => HasUpgrade(bits)
      /\ bits \div READER = 0 => \A u \in Threads : pc[u] # "shared"
  BY CountedFinite DEF IInv, Flags, Count, Counted
<1>9. ASSUME NEW t \in Threads, TryLock(t) PROVE Abstract!Lock(t)
  <2>1. Go(t, "lock", "exclusive") /\ bits = 0
    BY <1>9 DEF TryLock
  <2>2. mode[t] = "none" /\ mode'[t] = "exclusive"
    BY <1>2, <1>5, <1>6, <2>1
  <2>3. \A u \in Threads : mode[u] \notin {"shared", "upgrade", "exclusive"}
    BY <1>5, <1>8, <2>1, Idle
  <2>4. QED
    BY <1>3, <2>1, <2>2, <2>3 DEF Abstract!Lock, Abstract!Nobody
<1>10. ASSUME NEW t \in Threads, TryLockShared(t), pc'[t] = "shared"
       PROVE  Abstract!LockShared(t)
  <2>1. Go(t, "lock_shared", "shared") /\ ~HasWriter(bits)
    BY <1>1, <1>10 DEF TryLockShared, Go
  <2>2. mode[t] = "none" /\ mode'[t] = "shared"
    BY <1>2, <1>5, <1>6, <2>1
  <2>3. \A u \in Threads : mode[u] \notin {"exclusive"}
    BY <1>5, <1>8, <2>1
  <2>4. QED
    BY <1>3, <2>1, <2>2, <2>3 DEF Abstract!LockShared, Abstract!Nobody
<1>11. ASSUME NEW t \in Threads, TryLockUpgrade(t), pc'[t] = "upgrade"
       PROVE  Abstract!LockUpgrade(t)
  <2>1. Go(t, "lock_upgrade", "upgrade") /\ ~HasWriter(bits) /\ ~HasUpgrade(bits)
    BY <1>1, <1>11 DEF TryLockUpgrade, Go
  <2>2. mode[t] = "none" /\ mode'[t] = "upgrade"
    BY <1>2, <1>5, <1>6, <2>1
  <2>3. \A u \in Threads : mode[u] \notin {"upgrade", "exclusive"}
    BY <1>5, <1>8, <2>1
  <2>4. QED
    BY <1>3, <2>1, <2>2, <2>3 DEF Abstract!LockUpgrade, Abstract!Nobody
<1>12. ASSUME NEW t \in Threads, TryUnlockUpgradeAndLock(t)
       PROVE  Abstract!UpgradeToExclusive(t)
  <2>1. Go(t, "unlock_upgrade_and_lock", "exclusive") /\ bits = UPGRADE
    BY <1>12 DEF TryUnlockUpgradeAndLock
  <2>2. mode[t] = "upgrade" /\ mode'[t] = "exclusive"
    BY <1>2, <1>5, <1>6, <2>1
  <2>3. \A u \in Threads : mode[u] \notin {"shared"}
    BY <1>5, <1>8, <2>1, Idle
  <2>4. QED
    BY <1>3, <2>1, <2>2, <2>3 DEF Abstract!UpgradeToExclusive, Abstract!Nobody
<1>13. ASSUME NEW t \in Threads,
              KeepReaderOnly(t) \/ DropWriter(t) \/ UnlockUpgradeAndLockShared(t)
       PROVE  Abstract!Downgrade(t)
  <2>1. CASE KeepReaderOnly(t)
    <3>1. Go(t, "unlock_and_lock_shared", "shared")
      BY <2>1 DEF KeepReaderOnly
    <3>2. mode[t] = "exclusive" /\ mode'[t] = "shared"
      BY <1>2, <1>5, <1>6, <3>1
    <3>3. QED
      BY <1>3, <3>1, <3>2 DEF Abstract!Downgrade
  <2>2. CASE DropWriter(t)
    <3>1. Go(t, "unlock_and_lock_upgrade", "upgrade")
      BY <2>2 DEF DropWriter
    <3>2. mode[t] = "exclusive" /\ mode'[t] = "upgrade"
      BY <1>2, <1>5, <1>6, <3>1
    <3>3. QED
      BY <1>3, <3>1, <3>2 DEF Abstract!Downgrade
  <2>3. CASE UnlockUpgradeAndLockShared(t)
    <3>1. Go(t, "upgrade", "shared")
      BY <2>3 DEF UnlockUpgradeAndLockShared
    <3>2. mode[t] = "upgrade" /\ mode'[t] = "shared"
      BY <1>2, <1>5, <1>6, <3>1
    <3>3. QED
      BY <1>3, <3>1, <3>2 DEF Abstract!Downgrade
  <2>4. QED
    BY <1>13, <2>1, <2>2, <2>3
<1>14. ASSUME NEW t \in Threads, Unlock(t) \/ UnlockShared(t) \/ UnlockUpgrade(t)
       PROVE  Abstract!Unlock(t)
  <2>1. PICK from \in {"exclusive", "shared", "upgrade"} : Go(t, from, "none")
    BY <1>14 DEF Unlock, UnlockShared, UnlockUpgrade
  <2>2. mode[t] # "none" /\ mode'[t] = "none"
    BY <1>2, <1>5, <1>6, <2>1
  <2>3. QED
    BY <1>3, <2>1, <2>2 DEF Abstract!Unlock, Abstract!Become
<1>15. ASSUME NEW t \in Threads, Begin(t) \/ Progress(t) \/ Release(t)
       PROVE  [Abstract!Next]_mode
  <2>1. \/ UNCHANGED mode \/ Abstract!Lock(t) \/ Abstract!LockShared(t)
        \/ Abstract!LockUpgrade(t) \/ Abstract!UpgradeToExclusive(t)
        \/ Abstract!Downgrade(t) \/ Abstract!Unlock(t)
    BY <1>7, <1>9, <1>10, <1>11, <1>12, <1>13, <1>14, <1>15 DEF Progress, Release
  <2>2. QED
    BY <2>1 DEF Abstract!Next
<1>16. QED
  BY <1>4, <1>15 DEF Next

\* Each call takes effect at one step, at which the others' modes allow it.
THEOREM RefinesRWLock == Spec => ImplementsRWLock
<1>1. Init => Abstract!Init
  BY DEF Init, Abstract!Init, mode, Exclusive, Upgrading
<1>2. IInv /\ [Next]_vars => [Abstract!Next]_mode
  BY StepRefines
<1>3. QED
  BY InitIInv, NextIInv, <1>1, <1>2, PTL DEF Spec, ImplementsRWLock, Abstract!Spec
=============================================================================
