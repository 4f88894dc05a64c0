---------------------------- MODULE RWSpingLock ----------------------------
(***************************************************************************)
(* src/Lock/RWSpingLock.h: a reader-writer spin lock in one 32-bit word.   *)
(* Bit 0 is WRITER, bit 1 UPGRADE, and the rest counts READERs.  Each      *)
(* atomic operation on the word is one action; a thread that spins repeats *)
(* its attempt.  The holder classes call exactly these operations, each    *)
(* in the mode it needs, so a thread here does too.                        *)
(***************************************************************************)
EXTENDS Integers, FiniteSets

CONSTANT Threads

ASSUME RWSpingLockAssumption ==
  IsFiniteSet(Threads) /\ Cardinality(Threads) < 2^29    \* the reader count fits

VARIABLES bits,     \* bits_
          pc        \* what each thread holds, or the call it is in

vars == <<bits, pc>>

WRITER == 1
UPGRADE == 2
READER == 4

HasWriter(v) == v % 2 = 1
HasUpgrade(v) == (v \div UPGRADE) % 2 = 1
HasReader(v) == (v \div READER) % 2 = 1     \* the lowest bit of the count

Held == {"shared", "upgrade", "exclusive"}
Spinning == {"lock", "lock_shared", "lock_upgrade", "unlock_upgrade_and_lock"}

Init ==
  /\ bits = 0
  /\ pc = [t \in Threads |-> "none"]

Go(t, from, to) ==
  /\ pc[t] = from
  /\ pc' = [pc EXCEPT ![t] = to]

\* A thread that holds nothing calls lock, lock_shared or lock_upgrade; the
\* upgrade holder calls unlock_upgrade_and_lock.
Begin(t) ==
  /\ \/ \E call \in {"lock", "lock_shared", "lock_upgrade"} : Go(t, "none", call)
     \/ Go(t, "upgrade", "unlock_upgrade_and_lock")
  /\ UNCHANGED bits

\* Mutant of TryLock: only a writer keeps a writer out.
TryLockOverReaders(t) ==
  /\ ~HasWriter(bits)
  /\ bits' = bits + WRITER
  /\ Go(t, "lock", "exclusive")

\* try_lock: a failed exchange changes nothing and lock() tries again.
TryLock(t) ==
  /\ bits = 0
  /\ bits' = WRITER
  /\ Go(t, "lock", "exclusive")

\* try_lock_shared adds itself first and looks at what was there.  It looks at
\* WRITER and at the lowest bit of the reader count, not at UPGRADE.
TryLockShared(t) ==
  /\ bits' = bits + READER
  /\ Go(t, "lock_shared", IF HasReader(bits) \/ HasWriter(bits) THEN "back_off"
                                                                ELSE "shared")

\* Mutant of BackOff: the failed attempt stays counted.
BackOffCounted(t) ==
  /\ UNCHANGED bits
  /\ Go(t, "back_off", "lock_shared")

BackOff(t) ==
  /\ bits' = bits - READER
  /\ Go(t, "back_off", "lock_shared")

\* try_lock_upgrade sets the bit whatever it finds: beside a writer it is stray
\* until the writer's unlock() clears it.
TryLockUpgrade(t) ==
  /\ bits' = IF HasUpgrade(bits) THEN bits ELSE bits + UPGRADE
  /\ Go(t, "lock_upgrade", IF HasUpgrade(bits) \/ HasWriter(bits) THEN "lock_upgrade"
                                                                  ELSE "upgrade")

\* try_unlock_upgarde_and_lock
TryUnlockUpgradeAndLock(t) ==
  /\ bits = UPGRADE
  /\ bits' = WRITER
  /\ Go(t, "unlock_upgrade_and_lock", "exclusive")

\* Mutant of ClearWriterAndUpgrade: UPGRADE is not reset.
ClearWriter == bits' = bits - WRITER

\* fetch_and(~(WRITER|UPGRADE)); also the second half of unlock_and_lock_shared.
ClearWriterAndUpgrade == bits' = bits - (bits % READER)

Unlock(t) ==
  /\ ClearWriterAndUpgrade
  /\ Go(t, "exclusive", "none")

UnlockShared(t) ==
  /\ bits' = bits - READER
  /\ Go(t, "shared", "none")

UnlockUpgrade(t) ==
  /\ bits' = bits - UPGRADE
  /\ Go(t, "upgrade", "none")

UnlockUpgradeAndLockShared(t) ==
  /\ bits' = bits + (READER - UPGRADE)
  /\ Go(t, "upgrade", "shared")

\* Mutant of CountInAsReader: the writer's bit goes before the reader is in.
LetGoFirst(t) ==
  /\ bits' = bits - (bits % READER)
  /\ Go(t, "exclusive", "unlock_and_lock_shared")

\* unlock_and_lock_shared in two atomic operations: count in, then let go.
CountInAsReader(t) ==
  /\ bits' = bits + READER
  /\ Go(t, "exclusive", "unlock_and_lock_shared")

KeepReaderOnly(t) ==
  /\ ClearWriterAndUpgrade
  /\ Go(t, "unlock_and_lock_shared", "shared")

\* unlock_and_lock_upgrade in two atomic operations: UPGRADE may be there
\* already, a stray one, and is then taken over.
SetUpgrade(t) ==
  /\ bits' = IF HasUpgrade(bits) THEN bits ELSE bits + UPGRADE
  /\ Go(t, "exclusive", "unlock_and_lock_upgrade")

DropWriter(t) ==
  /\ bits' = bits - WRITER
  /\ Go(t, "unlock_and_lock_upgrade", "upgrade")

\* What a call in progress does next, its retries included.
Progress(t) ==
  \/ TryLock(t) \/ TryLockShared(t) \/ BackOff(t) \/ TryLockUpgrade(t)
  \/ TryUnlockUpgradeAndLock(t) \/ KeepReaderOnly(t) \/ DropWriter(t)

\* What a holder may call, when it likes.
Release(t) ==
  \/ Unlock(t) \/ UnlockShared(t) \/ UnlockUpgrade(t) \/ UnlockUpgradeAndLockShared(t)
  \/ CountInAsReader(t) \/ SetUpgrade(t)

Next == \E t \in Threads : Begin(t) \/ Progress(t) \/ Release(t)

Spec == Init /\ [][Next]_vars

\* A spinning thread is scheduled again and again; a holder may keep the lock.
FairSpec == Spec /\ \A t \in Threads : WF_vars(Progress(t))

-----------------------------------------------------------------------------
Exclusive == {"exclusive", "unlock_and_lock_shared", "unlock_and_lock_upgrade"}
Upgrading == {"upgrade", "unlock_upgrade_and_lock"}

TypeOK ==
  /\ bits \in Nat
  /\ pc \in [Threads -> {"none", "back_off"} \cup Held \cup Spinning \cup Exclusive]

\* A writer is alone, also while it changes into a reader or an upgrade holder.
WriterExcludes ==
  \A t, u \in Threads :
    pc[t] \in Exclusive /\ t # u => pc[u] \notin Exclusive \cup Upgrading \cup {"shared"}

\* One upgrade holder: the stray bits of failed attempts never admit a second.
UpgradeUnique ==
  \A t, u \in Threads : pc[t] \in Upgrading /\ pc[u] \in Upgrading => t = u

\* With every call returned and every mode released the word is 0: no path
\* leaves a reader count or a stray UPGRADE behind, which would shut lock() out.
QuiescentClean == (\A t \in Threads : pc[t] = "none") => bits = 0

mode == [t \in Threads |->
           CASE pc[t] = "shared"                         -> "shared"
             [] pc[t] \in Upgrading                      -> "upgrade"
             [] pc[t] \in Exclusive                      -> "exclusive"
             [] OTHER                                    -> "none"]
Abstract == INSTANCE RWLock
\* Every call takes effect at one step: no mode is lost or let in between.
ImplementsRWLock == Abstract!Spec

\* A spinning thread gets in if from some point on nobody else is in a call or
\* holds the lock: what the others did left nothing in its way.
AloneGetsIn ==
  \A t \in Threads :
    (pc[t] \in Spinning \cup {"back_off"} /\ [](\A u \in Threads \ {t} : pc[u] = "none"))
      ~> pc[t] \in Held

\* The comment of lines 12-13: UPGRADE is set "to prevent starving the writer",
\* "the data will be write int the future".  A reader that comes after the
\* upgrade holder has announced itself stays out.
UpgradeKeepsReadersOut ==
  [][\A t, u \in Threads :
       pc[u] \in Upgrading /\ pc[t] = "lock_shared" => pc'[t] # "shared"]_vars
=============================================================================
