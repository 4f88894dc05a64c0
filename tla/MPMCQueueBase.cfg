SPECIFICATION BaseSpec
CONSTANTS
  Threads = {t1}
  Callers = {u1, u2}
  MaxTicket = 4
  kMinSpins = 8
  kMaxSpins = 16
  Word = 64
  MaxCount = 8
  kAdaptationFreq = 2
  None = None
SYMMETRY Symmetry
INVARIANTS
  SizeWasTrue
PROPERTIES
  CutoffStaysInRange
