SPECIFICATION Spec
CONSTANTS
  Threads = {t1, t2, t3}
  Vars = {x}
  Head = Head
  Null = Null
  NoThread = NoThread
  Spare = 5
  MaxObjects = 2
SYMMETRY Symmetry
\* All threads may have exited.
CHECK_DEADLOCK FALSE
INVARIANTS
  BadAddressExplained
  ListWhole
  AccessorVisitsLive
  AccessorVisitsAll
  DeletedOnce
  ExitLeavesNothing
  DestroyLeavesOne
