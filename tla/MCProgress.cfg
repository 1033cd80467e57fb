SPECIFICATION Spec
CONSTANTS
  Tasks = {"a"}
  Replaces <- TwoVersions
  GcThreads = {"g1", "g2"}
  Readers = {"r1"}
  QueuedAtClose = FALSE
INVARIANT CloseSafe
PROPERTIES CallsReturn JobsSettle
CHECK_DEADLOCK FALSE
