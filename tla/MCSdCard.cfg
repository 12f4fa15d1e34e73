SPECIFICATION SdSpec
CONSTANTS
  Char = {a, b}
  NUL = NUL
  Buffer0Size = 3
  Buffer1Size = 3
  LogBlocks = 2
  DWORD = 12
  StoredPointer = {3, 9, 11}
  Blank = Blank
  Torn = Torn
  AcceptBound = 7
  FlushBound = 2
  PointerBound = 16
INVARIANTS
  SdTypeOK
  LogInOrder
VIEW
  Seen
