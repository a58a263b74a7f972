SPECIFICATION Spec
CONSTANTS
  Clients = {c1, c2}
  Owner = owner
  Tasks = {t1, t2}
  Throwing = {t1}
  NoTask = NoTask
  Nobody = Nobody
  WorkerCount = 2
  QueueCapacity = 1
  CallerRuns <- MCCallerRuns
  EnableRealtime = TRUE
  MaxStarts = 2
  MaxSpurious = 1
INVARIANTS TypeOK ExactlyOnce StopDrains CountersConserved
PROPERTIES AcceptedRuns StopReturns
CHECK_DEADLOCK FALSE
