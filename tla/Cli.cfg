SPECIFICATION CliSpec
CONSTANTS
  Letter = {a, b}
  TERMINATOR = TERMINATOR
  NUL = NUL
  RX0_BUFFER_SIZE = 3
  UINT8 = 5
  CallCapacity = 2
  CommandCall = CommandCall
  TaskCall = TaskCall
INVARIANTS
  CliTypeOK
  DeafWhileCommandWaits
  CommandIsLine
  StaysInBuffer
PROPERTIES
  ListensAgain
