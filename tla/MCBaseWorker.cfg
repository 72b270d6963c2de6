CONSTANTS
  h1 = h1
  h2 = h2
  t1 = t1
  t2 = t2
  t3 = t3
  worker = worker
  none = none
  Handler <- TwoHandlers
  Task <- ThreeTasks
  Worker <- worker
  None <- none
SPECIFICATION FairSpec
INVARIANTS
  FlagCoversQueue
  NoLostWakeup
PROPERTIES
  ImplementsTaskQueue
  VisitTasksServed
  StrandedTasksRescued
  DestructorReturns
