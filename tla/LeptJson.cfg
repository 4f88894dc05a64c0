SPECIFICATION Spec
CONSTANTS
  Symbols = {" ", "[", "]", ",", "true", "tru", "quote", "backslash", "c", "^", "-", "0", "1", ".", "e"}
  End = End
  MaxAny = 4
  Later = {"[", "]", ",", "1"}
  MaxLen = 7
  MaxParses = 1
  ValueSize = 3
  StackSize = 4
  Garbage = {2}
INVARIANTS
  StackExact
  OwnedOnce
  AllAccounted
  AcceptsJson
  BuildsTree
