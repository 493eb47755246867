\* Everything the code allows: an unknown event, a queue shorter than the events.
SPECIFICATION FairSpec
CONSTANTS
  MaxEvents = 4
  Depth = 3
  Unknown = {2}
INVARIANTS AppliedInOrder InStep
PROPERTY EveryEventArrives
