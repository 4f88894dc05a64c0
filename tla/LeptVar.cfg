SPECIFICATION Spec
CONSTANTS
  Threads = {t1, t2}
  Readers = {r1}
  NoThread = NoThread
  Amounts = {1}
  Initial = 63
  Word = 64
  CacheSizes = {1, 2}
  MaxCalls = 2
INVARIANTS
  NothingLost
  ReadWithin
  CacheBounded
  ExitedIsFlushed
