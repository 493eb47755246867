\* Every kind of cell; the log may refuse an append, and be closed under its runs.
SPECIFICATION FairSpec
CONSTANTS
  Cell = {c1, c2}
  Run = {r1, r2}
  Source = {s1}
  NoCell = NoCell
  NoRun = NoRun
  Unset = Unset
  MaxOutputs = 1
  MayClose = TRUE
  MayFail = TRUE
INVARIANTS OneRunPerCell LiveRunIsCurrent RunningIsLive ClaimsAreActive
PROPERTIES RunsEndThemselves 
\* Runs are bounded: when all are over nothing is left to do.
CHECK_DEADLOCK FALSE
