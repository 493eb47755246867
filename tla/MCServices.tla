------------------------------ MODULE MCServices ------------------------------
(* Seven parts of the server that share no variable, each explored by itself: *)
(* "part" says which one moves, and the others stay where they begin.  A run  *)
(* of them asks of each what a run of its own would.                          *)
EXTENDS NotebookStoreRefinement

CONSTANTS
  Hook,
  Budget, MaxCost, MaxCalls, Reported, MaySpawn,           \* SessionLife
  Writer, MaxChanges, DashDepth,                           \* Dashboard
  MaxLine, Link, LineCap, MaxHeld,                         \* TranscriptFollowers
  Syncer, Viewer, Items, Diffed, PerPage, Behind, MaxPushes, MaxSyncs,  \* GhCache
  MaxBytes, MaxChunk, RingSize, Newline, MenuEnd, FreshTail, TabDepth,
    \* TerminalStream
  Deleter, Query, MaxStores, MaxLines, MaxAsks             \* SearchIndex

VARIABLES
  part,
  registered, spawner, published, process, status, prURL, cap, cost, hook, resumer, reviewer,
  poller, deleter, waiter, killTimer, calls, over, unseen, repainted, crossed,
  version, announced, remover, writer, pending, timer, batches, conn, opening, dashQueue, shown,
  newest, windows,
  file, child, heard, path, watching, offset, counted, projector, linked, held, placed, caller,
  watcher, follower, shed, refused, unclaimed,
  written, serial, reader, listed, tab, ring, queue, got, since, gap, detector, seen, menu,
  top, pushes, syncing, syncs, sync, tmp, cached, index, covers, diff, diffTmp, view, early,
  blurred, overlap,
  files, named, snapshot, store, registry, acquiring, deleting, lines, cache, saved, query, asks

lives == <<registered, spawner, published, process, status, prURL, cap, cost, hook, resumer,
           reviewer, poller, deleter, waiter, killTimer, calls, over, unseen, repainted, crossed>>
boards == <<version, announced, remover, writer, pending, timer, batches, conn, opening, dashQueue,
            shown, newest, windows>>
transcripts == <<file, child, heard, path, watching, offset, counted, projector, linked, held,
                 placed, caller, watcher, follower, shed, refused, unclaimed>>
terminals == <<written, serial, reader, listed, tab, ring, queue, got, since, gap, detector, seen,
               menu>>
mirrors == <<top, pushes, syncing, syncs, sync, tmp, cached, index, covers, diff, diffTmp, view,
             early, blurred, overlap>>
indexes == <<files, named, snapshot, store, registry, acquiring, deleting, lines, cache, saved,
             query, asks>>
all == <<part, vars, lives, boards, transcripts, terminals, mirrors, indexes>>

\* What the session may spend, the hooks may report and a spawn may come to.
ASSUME LifeAssumption ==
  /\ Budget \in Nat /\ MaxCost \in Nat /\ MaxCalls \in Nat /\ MaySpawn \subseteq BOOLEAN
  /\ Reported \subseteq {"touch", "pr", "running", "idle", "waiting_input", "error", "stopped"}

ASSUME TerminalAssumption ==
  /\ MaxBytes \in Nat /\ MaxChunk \in Nat /\ TabDepth \in Nat
  /\ RingSize \in Nat \ {0} /\ Newline \subseteq Nat

ASSUME DashAssumption == MaxChanges \in Nat /\ DashDepth \in Nat

ASSUME GhAssumption ==
  /\ Items \in Seq({"issue", "pr"}) /\ Items # <<>> /\ Diffed \in DOMAIN Items
  /\ PerPage \in Nat \ {0} /\ Behind \in BOOLEAN /\ MaxPushes \in Nat /\ MaxSyncs \in Nat

ASSUME FollowersAssumption == MaxLine \in Nat /\ LineCap \in Nat /\ MaxHeld \in Nat

ASSUME IndexAssumption == MaxStores \in Nat /\ MaxLines \in Nat /\ MaxAsks \in Nat

Part == {"store", "life", "dashboard", "terminal", "followers", "github", "search"}

\* Items: the second is a pull request.
SomeItems == <<"issue", "pr">>

Life == INSTANCE SessionLife WITH Event <- Reported
Dash == INSTANCE Dashboard WITH Depth <- DashDepth, queue <- dashQueue, view <- shown
Followers == INSTANCE TranscriptFollowers WITH status <- heard, hook <- caller
Terminal == INSTANCE TerminalStream WITH Depth <- TabDepth
Gh == INSTANCE GhCache WITH KindOf <- Items
Search == INSTANCE SearchIndex
            WITH snap <- snapshot, linked <- named, opening <- acquiring, file <- saved

ServicesInit ==
  /\ part \in Part
  /\ Init /\ Life!Init /\ Dash!Init /\ Followers!Init /\ Terminal!Init /\ Gh!Init /\ Search!Init

LifeStep(A) ==
  part = "life" /\ A /\ UNCHANGED <<part, vars, boards, transcripts, terminals, mirrors, indexes>>

ServicesNext ==
  \/ /\ part = "store" /\ Next
     /\ UNCHANGED <<part, lives, boards, transcripts, terminals, mirrors, indexes>>
  \/ LifeStep(Life!Next)
  \/ /\ part = "dashboard" /\ Dash!Next
     /\ UNCHANGED <<part, vars, lives, transcripts, terminals, mirrors, indexes>>
  \/ /\ part = "followers" /\ Followers!Next
     /\ UNCHANGED <<part, vars, lives, boards, terminals, mirrors, indexes>>
  \/ /\ part = "terminal" /\ Terminal!Next
     /\ UNCHANGED <<part, vars, lives, boards, transcripts, mirrors, indexes>>
  \/ /\ part = "github" /\ Gh!Next
     /\ UNCHANGED <<part, vars, lives, boards, transcripts, terminals, indexes>>
  \/ /\ part = "search" /\ Search!Next
     /\ UNCHANGED <<part, vars, lives, boards, transcripts, terminals, mirrors>>

\* SessionLife's fairness; nothing else has any.
ServicesSpec == ServicesInit /\ [][ServicesNext]_all /\ WF_all(LifeStep(Life!Server))

------------------------------------------------------------------------------
\* The properties of the instantiated modules, where they are stated.

\* Every variable of the part that moves has its type.
ServicesTypeOK ==
  /\ part \in Part
  /\ part = "store" => TypeOK
  /\ part = "life" => Life!TypeOK
  /\ part = "dashboard" => Dash!TypeOK
  /\ part = "followers" => Followers!TypeOK
  /\ part = "terminal" => Terminal!TypeOK
  /\ part = "github" => Gh!TypeOK
  /\ part = "search" => Search!TypeOK

\* A session that a hook found over its budget does not run on until it is resumed.
OverBudgetIsFrozen == Life!OverBudgetIsFrozen

\* A frozen session reads as paused, so that it can be resumed.
FrozenCanBeResumed == Life!FrozenCanBeResumed

\* The process of a session that was removed ends.
RemovedProcessEnds == Life!RemovedProcessEnds

\* A dashboard that was told everything shows the session as it is.
SettledDashboardIsCurrent == Dash!SettledDashboardIsCurrent

\* The usage of each line of a transcript is added up exactly once.
LinesCountOnce == Followers!LinesCountOnce

\* Work of the child agent that was read is in its turn or on its way there.
ChildWorkIsPlaced == Followers!ChildWorkIsPlaced

\* A connected tab has or will get all its terminal wrote from its scrollback on.
NoGap == Terminal!NoGap

\* A detector that has seen the latest output offers the menu the screen shows.
MenuIsOnScreen == Terminal!MenuIsOnScreen

\* A list of issues or pull requests shows everything there was when its sync began.
ListsAreComplete == Gh!ListsAreComplete

\* The diff that is served is whole and of the commits its pull request names.
DiffIsOfItsPR == Gh!DiffIsOfItsPR

\* A search misses nothing that was in the notebook when it was asked.
AnswersAreFresh == Search!AnswersAreFresh

==============================================================================
