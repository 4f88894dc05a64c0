SPECIFICATION SlotFairSpec
CONSTANTS
  Threads = {t1, t2, t3}
  TurnModulus = 16
  WaitersMask = 3
  Channels = 2
  Window = 8
  FirstTurn = 14
  LastTurn = 18
INVARIANTS
  NeverPast
  HolderHasTurn
  NoLostWakeup
  HandOff
PROPERTIES
  ImplementsTurnOrder
  WaiterServed
