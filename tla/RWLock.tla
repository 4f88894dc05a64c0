------------------------------- MODULE RWLock -------------------------------
(***************************************************************************)
(* What RWSpingLock (src/Lock/RWSpingLock.h) promises: many readers or one *)
(* writer, one upgrade holder beside any number of readers, and changes of *)
(* mode that let nobody in between.                                        *)
(***************************************************************************)
CONSTANT Threads

VARIABLE mode   \* mode[t]: "none", "shared", "upgrade" or "exclusive"

Init == mode = [t \in Threads |-> "none"]

Nobody(others, modes) == \A u \in others : mode[u] \notin modes

Become(t, from, to) ==
  /\ mode[t] = from
  /\ mode' = [mode EXCEPT ![t] = to]

Lock(t) ==
  /\ Become(t, "none", "exclusive")
  /\ Nobody(Threads, {"shared", "upgrade", "exclusive"})

LockShared(t) ==
  /\ Become(t, "none", "shared")
  /\ Nobody(Threads, {"exclusive"})

LockUpgrade(t) ==
  /\ Become(t, "none", "upgrade")
  /\ Nobody(Threads, {"upgrade", "exclusive"})

UpgradeToExclusive(t) ==
  /\ Become(t, "upgrade", "exclusive")
  /\ Nobody(Threads, {"shared"})

Downgrade(t) ==
  \/ Become(t, "exclusive", "shared")
  \/ Become(t, "exclusive", "upgrade")
  \/ Become(t, "upgrade", "shared")

Unlock(t) == mode[t] # "none" /\ mode' = [mode EXCEPT ![t] = "none"]

Next == \E t \in Threads :
          \/ Lock(t) \/ LockShared(t) \/ LockUpgrade(t)
          \/ UpgradeToExclusive(t) \/ Downgrade(t) \/ Unlock(t)

Spec == Init /\ [][Next]_mode
=============================================================================
