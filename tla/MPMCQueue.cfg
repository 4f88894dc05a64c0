SPECIFICATION FairSpec
CONSTANTS
  Threads = {t1, t2, t3}
  Values = {v1}
  Capacity = 2
  MaxTicket = 3
\* Blocked readers of an empty queue wait for ever once the tickets run out.
CHECK_DEADLOCK FALSE
INVARIANTS
  SlotExclusive
  WriteDoesNotBlock
  ReadNeverSucceeds
PROPERTIES
  WriteFailsOnlyWhenFull
  ImplementsTicketQueue
  BlockedCallServed
