SPECIFICATION CommandsSpec
CONSTANTS
  CMD_COMMAND_AMOUNT = 9
  BuiltIn <- CodeBuiltIn
  Application <- SomeApplication
  LongKeyword <- SomeLong
  Overlong <- SomeOverlong
  Number <- SomeNumber
  Line <- SomeLine
INVARIANT
  RebootReboots
CHECK_DEADLOCK FALSE
