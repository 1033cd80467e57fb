SPECIFICATION ClosingSpec
CONSTANTS
  Tasks = {"a", "b"}
  Replaces <- TwoTasks
  GcThreads = {g1}
  Readers = {r1}
  QueuedAtClose = TRUE
INVARIANT WaitsForAll
CHECK_DEADLOCK FALSE
