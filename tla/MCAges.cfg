CONSTANTS
  Type <- MCTypes
  Text <- MCTexts
  IntSize = 256
  DaySeconds = 2
  Date <- MCDates
  BirthDate <- MCBirths
SPECIFICATION AgesSpec
INVARIANTS
  NoOverflow
  Converted
  LimitsRight
PROPERTIES
  Ends
