\* One store; a session's life, dashboards, terminal and transcripts; GitHub; search.
SPECIFICATION ServicesSpec
CONSTANTS
  Handle = {n1}  MaxEvents = 4  SnapshotEvery = 2  Cuts = {}
  Hook = {h1, h2}
  Budget = 1  MaxCost = 1  MaxCalls = 4
  Reported = {"touch", "pr", "idle"}
  MaySpawn = {TRUE, FALSE}
  Writer = {w1, w2}  MaxChanges = 2  DashDepth = 3
  MaxBytes = 5  MaxChunk = 2  RingSize = 3
  Newline = {2, 4}  MenuEnd = {3, 5}  FreshTail = 1
  TabDepth = 2
  MaxLine = 2  Link = 2  LineCap = 1  MaxHeld = 1
  Syncer = {s1, s2}  Viewer = {v1, v2}
  Items <- SomeItems  Diffed = 2  PerPage = 1  Behind = FALSE  MaxPushes = 1  MaxSyncs = 2
  Deleter = {d1}  Query = {q1, q2}
  MaxStores = 2  MaxLines = 2  MaxAsks = 2
INVARIANTS ServicesTypeOK OverBudgetIsFrozen FrozenCanBeResumed SettledDashboardIsCurrent
INVARIANTS NoGap MenuIsOnScreen LinesCountOnce ChildWorkIsPlaced
INVARIANTS ListsAreComplete DiffIsOfItsPR AnswersAreFresh
PROPERTIES RemovedProcessEnds ImplementsEventLog
\* Output, changes, calls, lines, syncs and queries are bounded.
CHECK_DEADLOCK FALSE
