\* Three cells change places; one of them is edited and run twice.
SPECIFICATION Spec
CONSTANTS
  c1 = c1  c2 = c2  c3 = c3
  Cell = {c1, c2, c3}
  Busy = {c1}
  Run = {r1, r2}
  Source = {s1, s2}
  NoCell = NoCell
  NoRun = NoRun
  Unset = Unset
  Kinds = {"shell", "prompt"}
  MaxOutputs = 1
SYMMETRY Symmetry
INVARIANTS CellsAreDistinct OneRunsOutputs ClientFollows
