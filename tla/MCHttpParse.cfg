CONSTANT
  Reads <- SomeReads
SPECIFICATION Spec
INVARIANTS
  WholeRead
  BeginningHonest
  NothingLeftOver
