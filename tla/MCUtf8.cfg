CONSTANTS
  Text <- MCTexts
  Size = 16
SPECIFICATION Spec
INVARIANTS
  LengthRight
PROPERTIES
  Measured
