\* Two processes on one notebook directory; every write may be cut short.
SPECIFICATION Spec
CONSTANTS
  Handle = {h1, h2}
  MaxEvents = 4
  SnapshotEvery = 2
  Cuts = {"partial", "noNewline"}
INVARIANTS LoadIsFoldOfLog StampIsLastFolded
PROPERTY ReadableStaysReadable
