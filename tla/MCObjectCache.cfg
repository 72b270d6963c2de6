CONSTANTS
  h1 = h1
  h2 = h2
  g1 = g1
  worker = worker
  none = none
  Updater <- TwoUpdaters
  Getter <- OneGetter
  Worker <- worker
  FieldCount = 2
  Value <- TwoValues
  None <- none
  MaxOutstanding = 3
SPECIFICATION Spec
SYMMETRY Symmetry
INVARIANTS
  FreshWhenSettled
  UncontendedUpdateExact
  AnswerIntact
