CONSTANTS
  File <- MCFile
  DataSet <- MCDataSet
  Leftover <- MCLeftover
  MaxAddress = 2
SPECIFICATION Spec
INVARIANTS
  LoadedExactly
PROPERTIES
  StartsServing
CHECK_DEADLOCK FALSE
