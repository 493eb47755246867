\* One process; a write may be cut short by a crash or a full disk.
SPECIFICATION Spec
CONSTANTS
  Handle = {h1}
  MaxEvents = 4
  SnapshotEvery = 2
  Cuts = {"partial", "noNewline"}
INVARIANTS AckedIsReadable
