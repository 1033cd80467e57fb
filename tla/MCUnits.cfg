SPECIFICATION Spec
CONSTANTS
  Threads = {d1, d2}
  BuildPages = 2
  MaxPages = 4
  DefaultCapacity = 1
  MaxFailures = 1
  MaxRestarts = 1
INVARIANTS ResultExact ArraysSound RoundExact TraversalExact PartitionSound BuildReadable IndexTree PageExact GiantReadExact DeltaExact DiskSound
CHECK_DEADLOCK FALSE
