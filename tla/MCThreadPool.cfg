SPECIFICATION FairSpec
CONSTANTS
  t1 = t1
  t2 = t2
  t3 = t3
  t4 = t4
  NoTask = NoTask
  Task = {t1, t2, t3, t4}
  Subtasks <- Nested
  Threads = 2
  MaxThreadNum = 3
  MayDestroy = TRUE
INVARIANTS
  TypeOK
  CountersExact
  QueueCovered
  NoLostWakeup
  RetiredAreJoined
PROPERTIES
  ImplementsExecutor
  AcceptedTasksComplete
  DestructorReturns
