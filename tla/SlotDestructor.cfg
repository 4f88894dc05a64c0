SPECIFICATION SlotSpec
CONSTANTS
  Threads = {t1, t2}
  TurnModulus = 16
  WaitersMask = 3
  Channels = 2
  Window = 8
  FirstTurn = 14
  LastTurn = 16
INVARIANTS
  ElementDestroyed
