SPECIFICATION FairSpec
CONSTANTS
  Threads = {t1, t2}
  Values = {v1}
  MinCapacity = 1
  Multiplier = 2
  Capacity = 4
  Capacities <- AllCapacities
  MaxTicket = 6
\* Blocked readers of an empty queue wait for ever once the tickets run out.
CHECK_DEADLOCK FALSE
INVARIANTS
  SnapshotIsWhole
  TicketsMeet
  BlocksOnlyWhenFull
PROPERTIES
  ImplementsTicketQueue
  CallReturns
