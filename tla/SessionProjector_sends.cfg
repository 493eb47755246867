\* Two sends of two cells; the CLI echoes them, swallows them, or is typed into.
SPECIFICATION Spec
CONSTANTS
  Cell = {c1, c2}
  Typed = {c1, c2}
  NoCell = NoCell
  Source <- SourceOf
  MaxRuns = 2
  MaxLines = 2
  MaxUnread = 1
  MaxUnsaid = 1
SYMMETRY Exchange
INVARIANTS WorkUnderItsPrompt OpenTurnRuns RunningIsAttended
PROPERTIES EchoIsAdopted EndsOnce
CHECK_DEADLOCK FALSE
