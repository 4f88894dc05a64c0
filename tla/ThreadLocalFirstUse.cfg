SPECIFICATION Spec
CONSTANTS
  Threads = {t1, t2}
  Vars = {x}
  Head = Head
  Null = Null
  NoThread = NoThread
  Spare = 5
  MaxObjects = 1
CHECK_DEADLOCK FALSE
INVARIANTS
  AllocatedOnce
