SPECIFICATION FairSpec
CONSTANTS
  Threads = {t1, t2, t3, t4}
INVARIANTS
  WriterExcludes
  QuiescentClean
PROPERTIES
  ImplementsRWLock
  AloneGetsIn
