SPECIFICATION SectionSpec
CONSTANTS
  Flag = {INIT, TIMER_SET, TIMER_EN}
  MaxNesting = 3
INVARIANTS
  SectionsExclude
  HandlersDoNotNest
  EnabledOutside
  NoWriteUndone
