SPECIFICATION PreemptedSpec
CONSTANTS
  Base = 2
  ByteCount = 3
  Weight <- Powers
  ReadOrders <- Orders
  MaxTime = 4
  Pin = {14, 15}
  CallbackPin = {15}
  Level = {0, 1}
  PrefixLength = 1
  TextLength = 1
INVARIANTS
  PreemptedTypeOK
  TornReadBounds
  OnlyCrossedWritesLost
  MainTextWhole
  TickTextWhole
  FlagTellsTimer
