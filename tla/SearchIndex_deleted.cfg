\* A request acquires the notebook while a DELETE of it is under way.
SPECIFICATION Spec
CONSTANTS
  Deleter = {d1}
  Query = {q1}
  MaxStores = 2
  MaxLines = 2
  SnapshotEvery = 2
  MaxAsks = 1
INVARIANT ServedIsOnDisk
\* Stores and lines are bounded.
CHECK_DEADLOCK FALSE
