SPECIFICATION SetNullSpec
CONSTANTS
  Symbols = {"[", "]", "1"}
  End = End
  MaxAny = 2
  Later = {}
  MaxLen = 2
  MaxParses = 1
  ValueSize = 3
  StackSize = 4
  Garbage = {2}
INVARIANT FreedOnce
