SPECIFICATION Spec
CONSTANTS
  t1 = t1
  t2 = t2
  Threads = {t1, t2}
  Traces = {x, y}
  LogInterval = 2
  RefreshInterval = 1
  TraceMax = 1
  SnapshotLimit = 2
  MaxJobs = 3
  MaxTime = 2
  MaxTasks = 1
SYMMETRY Symmetry
INVARIANTS BookkeepingBounded SnapshotsKept
PROPERTY ExportFresh
CHECK_DEADLOCK FALSE
