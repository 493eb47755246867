---------------------------- MODULE ServicesProofs ----------------------------
(***************************************************************************)
(* Proofs about the parts MCServices puts together: SessionLife,           *)
(* TerminalStream, TranscriptFollowers, Dashboard, GhCache and             *)
(* SearchIndex, for every set of hooks, browsers, syncs, views, deletes    *)
(* and queries, every budget and every bound.  Each part has an inductive  *)
(* invariant that its own steps keep; the steps of the others leave its    *)
(* variables alone.  The store's is NotebookStoreProofs'.                  *)
(***************************************************************************)
EXTENDS MCServices, NotebookStoreProofs, FiniteSetTheorems, WellFoundedInduction, TLAPS

------------------------------------------------------------------------------
\* SessionLife.

Where == {"idle", "event", "mark", "marked", "enforce", "weigh", "freeze", "pause"}

Seen == {"none", "starting", "running", "idle", "waiting_input", "error", "stopped",
         "review_ready", Life!Paused}

HookState ==
  {at \in [pc : Where, event : Reported \cup {"none"}, saw : Seen] :
     at.pc = "event" => at.event \in Reported}

\* The process was stopped, and whoever has it run again clears the cap.
Stopped == process \in {"frozen", "ended"} \/ resumer # "idle" \/ cap = 0

\* A hook that will pause the session, unless it reads that it is.
Due(h) ==
  \/ hook[h].pc \in {"event", "mark", "marked", "enforce", "freeze", "pause"}
  \/ hook[h].pc = "weigh" /\ hook[h].saw # Life!Paused

\* What was spent was spent by a process that is published.
Spending ==
  /\ process = "none" <=> spawner \in {"idle", "starting", "failed"}
  /\ published => process # "none"
  /\ spawner \in {"idle", "starting", "started"} => ~published
  /\ cost > 0 \/ killTimer => published
  /\ resumer = "resumed" => cap = 0

\* Where a session reads as paused, or a hook saw it so, it was stopped.
PausedIsStopped ==
  /\ status = Life!Paused => Stopped
  /\ \A h \in Hook :
       /\ hook[h].pc = "pause" => Stopped
       /\ hook[h].pc = "weigh" /\ hook[h].saw = Life!Paused => Stopped
       /\ hook[h].pc \in {"weigh", "freeze", "pause"} => Budget > 0
       /\ hook[h].pc \in {"freeze", "pause"} => cost >= Budget

OverIsStopped == over => Stopped \/ \E h \in Hook : hook[h].pc = "freeze"

\* A frozen session is one that may be resumed, or will read as paused.
FrozenIsPaused ==
  process = "frozen" =>
    /\ published /\ cost >= Budget
    /\ resumer \in {"clear", "resumed"} \/ cap = 0 => crossed
    /\ \/ crossed \/ repainted \/ deleter # "idle" \/ status = Life!Paused
       \/ \E h \in Hook : Due(h)

Capped == Spending /\ PausedIsStopped /\ OverIsStopped /\ FrozenIsPaused

LifeInv == Life!TypeOK /\ hook \in [Hook -> HookState] /\ Capped

\* The requests of people, the poller, and a process that is waited for: none signals the
\* process or serves a hook, and what they write over a paused session's status is told.
Bystander ==
  \/ Life!AskReviewed \/ Life!Reviewed \/ Life!Poll \/ Life!PollMarks \/ Life!PollPaintsReview
  \/ Life!AskDelete \/ Life!Terminate \/ Life!TellKilled \/ Life!Remove \/ Life!ReportExit

LEMMA BystanderTyped == ASSUME LifeInv, Bystander PROVE Life!TypeOK'
<1> USE DEF Bystander, Life!AskReviewed, Life!Reviewed, Life!Poll, Life!PollMarks,
      Life!PollPaintsReview, Life!AskDelete, Life!Terminate, Life!TellKilled, Life!Remove,
      Life!ReportExit, Life!Call, Life!Repaints, Life!setStatus, Life!session, Life!windows
<1>1. Life!Flags' BY DEF LifeInv, Life!TypeOK, Life!Flags
<1>2. Life!Places' BY DEF LifeInv, Life!TypeOK, Life!Places
<1>3. Life!Amounts' BY LifeAssumption DEF LifeInv, Life!TypeOK, Life!Amounts
<1>4. (/\ process \in {"none", "running", "frozen", "ended"}
  /\ status \in {"starting", "running", "idle", "waiting_input", "error", "stopped",
                 "review_ready", Life!Paused})'  BY LifeAssumption DEF LifeInv, Life!TypeOK
<1>5. (published <=> waiter # "idle")' BY DEF LifeInv, Life!TypeOK
<1> QED BY <1>1, <1>2, <1>3, <1>4, <1>5 DEF Life!TypeOK

LEMMA BystanderStep == ASSUME LifeInv, Bystander PROVE LifeInv'
<1>1. /\ UNCHANGED <<hook, process, published, spawner, cost, cap, resumer, over, crossed>>
      /\ repainted => repainted'
      /\ deleter # "idle" => deleter' # "idle"
      /\ killTimer' = killTimer \/ killTimer' = published
      /\ \/ UNCHANGED status
         \/ /\ status' # Life!Paused
            /\ repainted' \/ deleter' # "idle" \/ status # Life!Paused \/ process = "ended"
  BY DEF Bystander, Life!AskReviewed, Life!Reviewed, Life!Poll, Life!PollMarks,
      Life!PollPaintsReview, Life!AskDelete, Life!Terminate, Life!TellKilled, Life!Remove,
      Life!ReportExit, Life!Call, Life!Repaints, Life!setStatus, Life!session, Life!windows,
      Life!Paused, Life!TypeOK, LifeInv, Life!Flags
<1>2. Capped'
  BY <1>1
  DEF LifeInv, Capped, Spending, PausedIsStopped, OverIsStopped, FrozenIsPaused, Stopped, Due
<1>3. (hook \in [Hook -> HookState])' BY <1>1 DEF LifeInv, HookState
<1> QED BY <1>2, <1>3, BystanderTyped DEF LifeInv

\* Spawning, spending and ending.
Spawning ==
  \/ Life!Register \/ Life!Publish \/ Life!Spend \/ Life!Exit \/ Life!Kill
  \/ \E works \in MaySpawn : Life!StartProcess(works)

LEMMA SpawningStep == ASSUME LifeInv, Spawning PROVE LifeInv'
<1> USE DEF Spawning, Life!Register, Life!Publish, Life!Spend, Life!Exit, Life!Kill,
      Life!StartProcess, Life!session, Life!windows, Life!threads
<1>1. Life!Flags'
  <2> USE DEF LifeInv, Life!TypeOK, Life!Flags
  <2>1. CASE Life!Register BY <2>1, Zenon
  <2>2. CASE Life!Publish BY <2>2, Zenon
  <2>3. CASE Life!Spend BY <2>3, Zenon
  <2>4. CASE Life!Exit BY <2>4, Zenon
  <2>5. CASE Life!Kill BY <2>5, Zenon
  <2>6. CASE \E works \in MaySpawn : Life!StartProcess(works) BY <2>6, Zenon
  <2> QED BY <2>1, <2>2, <2>3, <2>4, <2>5, <2>6 DEF Spawning
<1>2. Life!Places' BY DEF LifeInv, Life!TypeOK, Life!Places
<1>3. Life!Amounts' BY LifeAssumption DEF LifeInv, Life!TypeOK, Life!Amounts
<1>4. (process \in {"none", "running", "frozen", "ended"})' BY DEF LifeInv, Life!TypeOK
<1>5. (published <=> waiter # "idle")' BY DEF LifeInv, Life!TypeOK
<1>6. (/\ status \in {"starting", "running", "idle", "waiting_input", "error", "stopped",
                 "review_ready", Life!Paused})'  BY DEF LifeInv, Life!TypeOK
<1>7. Life!TypeOK' BY <1>1, <1>2, <1>3, <1>4, <1>5, <1>6 DEF Life!TypeOK
<1>8. UNCHANGED <<hook, status, cap, resumer, over, crossed, repainted, deleter>> OBVIOUS
<1>9. Spending'
  <2> USE DEF LifeInv, Life!TypeOK, Life!Places, Capped, Spending
  <2>1. (process = "none" <=> spawner \in {"idle", "starting", "failed"})' OBVIOUS
  <2>2. (published => process # "none")' OBVIOUS
  <2>3. (spawner \in {"idle", "starting", "started"} => ~published)' OBVIOUS
  <2>4. (cost > 0 \/ killTimer => published)' BY LifeAssumption DEF Life!Amounts, Life!Flags
  <2>5. (resumer = "resumed" => cap = 0)' OBVIOUS
  <2> QED BY <2>1, <2>2, <2>3, <2>4, <2>5
<1>10. /\ process = "frozen" => process' \in {"frozen", "ended"}
       /\ process = "ended" => process' = "ended"
       /\ process' = "frozen" => process = "frozen"
  BY DEF LifeInv, Life!TypeOK, Capped, Spending
<1>11. published => published' BY DEF LifeInv, Life!TypeOK
<1>12. cost' \in Int /\ cost \in Int /\ cost' >= cost /\ Budget \in Int
  BY LifeAssumption DEF LifeInv, Life!TypeOK, Life!Amounts
<1>13. PausedIsStopped' BY <1>8, <1>10, <1>12 DEF PausedIsStopped, LifeInv, Capped, Stopped
<1>14. OverIsStopped' BY <1>8, <1>10, <1>12 DEF OverIsStopped, LifeInv, Capped, Stopped
<1>15. FrozenIsPaused' BY <1>8, <1>10, <1>11, <1>12 DEF FrozenIsPaused, LifeInv, Capped, Due
<1>16. (hook \in [Hook -> HookState])' BY <1>8 DEF LifeInv, HookState
<1> QED BY <1>7, <1>9, <1>13, <1>14, <1>15, <1>16 DEF LifeInv, Capped

\* A person resumes the session.
Resuming == Life!AskResume \/ Life!Continue \/ Life!ClearCap \/ Life!Resumed

LEMMA ResumingStep == ASSUME LifeInv, Resuming PROVE LifeInv'
<1> USE DEF Resuming, Life!AskResume, Life!Continue, Life!ClearCap, Life!Resumed, Life!Call,
      Life!setStatus, Life!session, Life!windows
<1>1. Life!Flags' BY DEF LifeInv, Life!TypeOK, Life!Flags
<1>2. Life!Places' BY DEF LifeInv, Life!TypeOK, Life!Places
<1>3. calls' \in 0..MaxCalls BY LifeAssumption DEF LifeInv, Life!TypeOK, Life!Amounts
<1>17. (cap \in {0, Budget} /\ cost \in 0..MaxCost)'
  BY LifeAssumption DEF LifeInv, Life!TypeOK, Life!Amounts
<1>4. (process \in {"none", "running", "frozen", "ended"})' BY DEF LifeInv, Life!TypeOK
<1>5. (published <=> waiter # "idle")' BY DEF LifeInv, Life!TypeOK
<1>6. (/\ status \in {"starting", "running", "idle", "waiting_input", "error", "stopped",
                 "review_ready", Life!Paused})'  BY DEF LifeInv, Life!TypeOK
<1>7. Life!TypeOK' BY <1>1, <1>2, <1>3, <1>4, <1>5, <1>6, <1>17 DEF Life!TypeOK, Life!Amounts
<1>9. Spending' BY DEF LifeInv, Life!TypeOK, Capped, Spending, Life!Flags
<1>13. PausedIsStopped' BY DEF PausedIsStopped, LifeInv, Capped, Stopped, Spending, Life!Paused
<1>14. OverIsStopped' BY DEF OverIsStopped, LifeInv, Capped, Stopped, Spending
<1>15. FrozenIsPaused' BY DEF FrozenIsPaused, LifeInv, Capped, Due, Spending
<1>16. (hook \in [Hook -> HookState])' BY  DEF LifeInv, HookState
<1> QED BY <1>7, <1>9, <1>13, <1>14, <1>15, <1>16 DEF LifeInv, Capped

\* A hook's handler that goes on leaves the others where they are.
GoesOn(h, to) ==
  /\ hook' \in [Hook -> HookState]
  /\ \A g \in Hook : hook'[g] = IF g = h THEN to ELSE hook[g]
  /\ \A g \in Hook : hook'[g].pc \in Where

LEMMA HookGoesOn ==
  ASSUME hook \in [Hook -> HookState], NEW h \in Hook, NEW to \in HookState,
         hook' = [hook EXCEPT ![h] = to]
  PROVE  GoesOn(h, to)
<1>1. hook' \in [Hook -> HookState] /\ \A g \in Hook : hook'[g] = IF g = h THEN to ELSE hook[g]
  OBVIOUS
<1>2. \A g \in Hook : hook'[g].pc \in Where BY <1>1 DEF HookState, Where
<1> QED BY <1>1, <1>2 DEF GoesOn

\* What comes of a hook before the cap is looked at.
Telling(h) ==
  \/ \E event \in Reported : Life!HookArrives(h, event)
  \/ Life!HandleEvent(h) \/ Life!HookMarks(h) \/ Life!HookPaintsReview(h)

LEMMA TellingStep == ASSUME LifeInv, NEW h \in Hook, Telling(h) PROVE LifeInv'
<1> USE DEF Life!Call, Life!setStatus, Life!session, Life!windows
<1>1. PICK to \in HookState :
        /\ hook' = [hook EXCEPT ![h] = to]
        /\ to.pc \in {"event", "mark", "marked", "enforce"}
        /\ hook[h].pc \notin {"weigh", "freeze", "pause"}
  <2>1. CASE \E event \in Reported : Life!HookArrives(h, event)
     BY <2>1 DEF Life!HookArrives, HookState, Where, Seen, LifeInv
  <2>2. CASE Life!HandleEvent(h) \/ Life!HookMarks(h) \/ Life!HookPaintsReview(h)
     BY <2>2, Zenon
     DEF Life!HandleEvent, Life!HookMarks, Life!HookPaintsReview, HookState, Where, Seen, LifeInv,
         Life!HookIs, Life!Idle
  <2> QED BY <2>1, <2>2 DEF Telling
<1>2. GoesOn(h, to)
  <2>1. hook \in [Hook -> HookState] BY DEF LifeInv
  <2> QED BY <1>1, <2>1, HookGoesOn
<1>3. /\ UNCHANGED <<process, published, spawner, cost, cap, resumer, over, crossed, repainted,
                     deleter, registered, waiter, killTimer, unseen, reviewer, poller>>
      /\ process = "running" \/ hook[h].pc \in {"event", "mark", "marked"}
      /\ status' # Life!Paused \/ status' = status
      /\ calls' \in 0..MaxCalls
      /\ prURL' \in BOOLEAN
      /\ status' \in {"starting", "running", "idle", "waiting_input", "error", "stopped",
                 "review_ready", Life!Paused}
  <2>1. CASE \E event \in Reported : Life!HookArrives(h, event)
    BY <2>1, LifeAssumption DEF Life!HookArrives, LifeInv, Life!TypeOK, Life!Amounts, Life!Flags
  <2>2. CASE Life!HandleEvent(h)
    BY <2>2, LifeAssumption
    DEF Life!HandleEvent, LifeInv, Life!TypeOK, Life!Amounts, Life!Flags, Life!Paused, HookState
  <2>3. CASE Life!HookMarks(h) \/ Life!HookPaintsReview(h)
    BY <2>3, LifeAssumption
    DEF Life!HookMarks, Life!HookPaintsReview, LifeInv, Life!TypeOK, Life!Amounts, Life!Flags,
        Life!Paused
  <2> QED BY <2>1, <2>2, <2>3 DEF Telling
<1>4. Life!TypeOK'
  <2>1. Life!Flags' BY <1>3 DEF LifeInv, Life!TypeOK, Life!Flags
  <2>2. Life!Places' BY <1>2, <1>3 DEF LifeInv, Life!TypeOK, Life!Places, GoesOn, Where
  <2>3. Life!Amounts' BY <1>3 DEF LifeInv, Life!TypeOK, Life!Amounts
  <2> QED BY <1>3, <2>1, <2>2, <2>3 DEF LifeInv, Life!TypeOK
<1>5. Capped'
  BY <1>1, <1>2, <1>3
  DEF LifeInv, Capped, Spending, PausedIsStopped, OverIsStopped, FrozenIsPaused, Stopped, Due,
      GoesOn
<1> QED BY <1>2, <1>4, <1>5 DEF LifeInv, GoesOn

\* The cap is enforced.
Enforcing(h) == Life!ReadCap(h) \/ Life!Weigh(h) \/ Life!Freeze(h) \/ Life!Pause(h)

LEMMA EnforcingStep == ASSUME LifeInv, NEW h \in Hook, Enforcing(h) PROVE LifeInv'
<1> USE DEF Life!setStatus, Life!session, Life!windows
<1>1. PICK to \in HookState : hook' = [hook EXCEPT ![h] = to]
  BY DEF Enforcing, Life!ReadCap, Life!Weigh, Life!Freeze, Life!Pause, HookState, Where, Seen,
         LifeInv, Life!HookIs, Life!HookEnds, Life!Idle, Life!TypeOK
<1>2. GoesOn(h, to)
  <2>1. hook \in [Hook -> HookState] BY DEF LifeInv
  <2> QED BY <1>1, <2>1, HookGoesOn
<1>3. ASSUME UNCHANGED <<published, spawner, cost, cap, resumer, deleter, registered, waiter,
                         killTimer, unseen, reviewer, poller, repainted, prURL, calls>>,
             over' \in BOOLEAN, crossed' \in BOOLEAN,
             process' \in {"none", "running", "frozen", "ended"}, status' \in {Life!Paused, status}
      PROVE  Life!TypeOK'
  <2>1. Life!Flags' BY <1>3 DEF LifeInv, Life!TypeOK, Life!Flags
  <2>2. Life!Places' BY <1>2, <1>3 DEF LifeInv, Life!TypeOK, Life!Places, GoesOn, Where
  <2>3. Life!Amounts' BY <1>3 DEF LifeInv, Life!TypeOK, Life!Amounts
  <2> QED BY <1>3, <2>1, <2>2, <2>3 DEF LifeInv, Life!TypeOK
<1>4. CASE Life!ReadCap(h)
  <2>1. Life!TypeOK' BY <1>3, <1>4 DEF LifeInv, Life!TypeOK, Life!ReadCap, Life!Flags
  <2>2. UNCHANGED <<process, published, spawner, cost, cap, resumer, over, crossed, repainted,
                    deleter, status, killTimer>> /\ hook[h].pc = "enforce"
    BY <1>4 DEF Life!ReadCap
  <2>3. IF cap = 0 THEN to.pc = "idle" ELSE to.pc = "weigh" /\ to.saw = status
     BY <1>1, <1>2, <1>4 DEF Life!ReadCap, LifeInv, HookState, Where, Seen, Life!Idle, GoesOn
  <2>4. cap > 0 => Budget > 0 BY DEF LifeInv, Life!TypeOK, Life!Amounts
  <2>5. cap # 0 => Budget > 0 BY LifeAssumption DEF LifeInv, Life!TypeOK, Life!Amounts
  <2>6. PausedIsStopped'
    BY <1>2, <2>2, <2>3, <2>5 DEF LifeInv, Capped, PausedIsStopped, Stopped, GoesOn
  <2>7. FrozenIsPaused' BY <1>2, <2>2, <2>3, <2>5 DEF LifeInv, Capped, FrozenIsPaused, Due, GoesOn
  <2>8. Spending' /\ OverIsStopped'
    BY <1>2, <2>2 DEF LifeInv, Capped, OverIsStopped, Spending, Stopped, GoesOn
  <2> QED BY <1>2, <2>1, <2>6, <2>7, <2>8 DEF LifeInv, Capped, GoesOn
<1>5. CASE Life!Weigh(h)
  <2>1. UNCHANGED <<process, published, spawner, cost, cap, resumer, crossed, repainted, deleter,
                    status, killTimer>> /\ hook[h].pc = "weigh"
    BY <1>5 DEF Life!Weigh
  <2>2. /\ over' = (over \/ cost >= Budget)
        /\ to.pc = IF Life!Exceeds(hook[h].saw) THEN "freeze" ELSE "idle"
     BY <1>1, <1>2, <1>5
     DEF Life!Weigh, LifeInv, HookState, Where, Seen, Life!Idle, Life!HookIs, Life!HookEnds, GoesOn
  <2>3. over' \in BOOLEAN BY <2>2, Zenon
  <2>4. Life!TypeOK' BY <1>3, <1>5, <2>3 DEF LifeInv, Life!TypeOK, Life!Weigh, Life!Flags
  <2>6. PausedIsStopped'
    BY <1>2, <2>1, <2>2 DEF LifeInv, Capped, PausedIsStopped, Stopped, Life!Exceeds, GoesOn
  <2>7. FrozenIsPaused'
    BY <1>2, <2>1, <2>2 DEF LifeInv, Capped, FrozenIsPaused, Due, Life!Exceeds, GoesOn
  <2>8. OverIsStopped'
     <3>1. CASE over BY <1>2, <2>1, <2>2, <3>1 DEF LifeInv, Capped, OverIsStopped, Stopped, GoesOn
     <3>2. CASE cost >= Budget
       BY <1>2, <2>1, <2>2, <3>2
       DEF LifeInv, Capped, OverIsStopped, PausedIsStopped, Stopped, Life!Exceeds, GoesOn
     <3>3. CASE ~over' BY <3>3 DEF OverIsStopped
     <3> QED BY <2>2, <3>1, <3>2, <3>3
  <2>9. Spending' BY <2>1 DEF LifeInv, Capped, Spending
  <2> QED BY <1>2, <2>4, <2>6, <2>7, <2>8, <2>9 DEF LifeInv, Capped, GoesOn
<1>6. CASE Life!Freeze(h)
  <2>1. UNCHANGED <<published, spawner, cost, cap, resumer, repainted, deleter, status, over,
                    killTimer>> /\ hook[h].pc = "freeze"
    BY <1>6 DEF Life!Freeze
  <2>2. /\ crossed' = (crossed \/ resumer # "idle" \/ cap = 0)
        /\ to.pc = "pause"
        /\ process' = IF published /\ process = "running" THEN "frozen" ELSE process
     BY <1>1, <1>2, <1>6
     DEF Life!Freeze, LifeInv, HookState, Where, Seen, Life!Idle, Life!HookIs, GoesOn
  <2>3. crossed' \in BOOLEAN BY <2>2, Zenon
  <2>4. Life!TypeOK' BY <1>3, <1>6, <2>3 DEF LifeInv, Life!TypeOK, Life!Freeze, Life!Flags
  <2>5. published /\ cost >= Budget /\ process # "none"
    BY <2>1, LifeAssumption
    DEF LifeInv, Capped, PausedIsStopped, Spending, Life!TypeOK, Life!Amounts
  <2>10. process' \in {"frozen", "ended"} BY <2>2, <2>5 DEF LifeInv, Life!TypeOK
  <2>6. PausedIsStopped'
    BY <1>2, <2>1, <2>2, <2>10 DEF LifeInv, Capped, PausedIsStopped, Stopped, GoesOn
  <2>7. FrozenIsPaused'
    <3>1. crossed => crossed' BY <2>2
    <3>2. resumer # "idle" \/ cap = 0 => crossed' BY <2>2
    <3> QED BY <1>2, <2>1, <2>2, <2>5, <3>1, <3>2 DEF LifeInv, Capped, FrozenIsPaused, Due, GoesOn
  <2>8. OverIsStopped' BY <2>10 DEF OverIsStopped, Stopped
  <2>9. Spending' BY <2>1, <2>2, <2>5 DEF LifeInv, Capped, Spending
  <2> QED BY <1>2, <2>4, <2>6, <2>7, <2>8, <2>9 DEF LifeInv, Capped, GoesOn
<1>7. CASE Life!Pause(h)
  <2>1. UNCHANGED <<published, process, spawner, cost, cap, resumer, repainted, deleter, over,
                    killTimer>> /\ hook[h].pc = "pause"
    BY <1>7 DEF Life!Pause
  <2>2. /\ crossed' = (crossed \/ resumer # "idle")
        /\ to.pc = "idle"
        /\ status' = Life!Paused
     BY <1>1, <1>2, <1>7
     DEF Life!Pause, LifeInv, HookState, Where, Seen, Life!Idle, Life!HookEnds, GoesOn
  <2>3. crossed' \in BOOLEAN BY <2>2, Zenon
  <2>4. Life!TypeOK' BY <1>3, <1>7, <2>3 DEF LifeInv, Life!TypeOK, Life!Pause, Life!Flags
  <2>6. PausedIsStopped' BY <1>2, <2>1, <2>2 DEF LifeInv, Capped, PausedIsStopped, Stopped, GoesOn
  <2>7. FrozenIsPaused'
    <3>1. crossed => crossed' BY <2>2
    <3> QED BY <1>2, <2>1, <2>2, <3>1 DEF LifeInv, Capped, FrozenIsPaused, GoesOn
  <2>8. OverIsStopped' BY <1>2, <2>1, <2>2 DEF LifeInv, Capped, OverIsStopped, Stopped, GoesOn
  <2>9. Spending' BY <2>1, <2>2 DEF LifeInv, Capped, Spending
  <2> QED BY <1>2, <2>4, <2>6, <2>7, <2>8, <2>9 DEF LifeInv, Capped, GoesOn
<1> QED BY <1>4, <1>5, <1>6, <1>7 DEF Enforcing

LEMMA LifeInit == Life!Init => LifeInv
<1> SUFFICES ASSUME Life!Init PROVE LifeInv OBVIOUS
<1> USE LifeAssumption DEF Life!Init, Life!Idle
<1>1. Life!Flags /\ Life!Places BY DEF Life!Flags, Life!Places
<1>2. Life!Amounts BY DEF Life!Amounts, GoesOn
<1>3. hook \in [Hook -> HookState] BY DEF HookState, Where, Seen
<1>4. Capped BY DEF Capped, Spending, PausedIsStopped, OverIsStopped, FrozenIsPaused, Life!Paused
<1> QED BY <1>1, <1>2, <1>3, <1>4 DEF LifeInv, Life!TypeOK, GoesOn

LEMMA LifeNext ==
  ASSUME LifeInv, Life!Next \/ UNCHANGED lives
  PROVE  LifeInv'
<1>1. CASE UNCHANGED lives
  <2>1. UNCHANGED <<registered, spawner, published, process, status, prURL, cap, cost, hook,
                    resumer, reviewer, poller, deleter, waiter, killTimer, calls, over, unseen,
                    repainted, crossed>>
    BY <1>1 DEF lives
  <2>2. (Life!TypeOK)' BY <2>1 DEF LifeInv, Life!TypeOK, Life!Flags, Life!Places, Life!Amounts
  <2>3. Spending' /\ PausedIsStopped'
    BY <2>1 DEF LifeInv, Capped, Spending, PausedIsStopped, Stopped
  <2>4. OverIsStopped' /\ FrozenIsPaused'
    BY <2>1 DEF LifeInv, Capped, OverIsStopped, FrozenIsPaused, Stopped, Due
  <2>5. hook' \in [Hook -> HookState] BY <2>1 DEF LifeInv
  <2> QED BY <2>2, <2>3, <2>4, <2>5 DEF LifeInv, Capped
<1>2. CASE Life!Next
  BY <1>2, BystanderStep, SpawningStep, ResumingStep, TellingStep, EnforcingStep
  DEF Life!Next, Life!Server, Life!Hooking, Bystander, Spawning, Resuming, Telling, Enforcing
<1> QED BY <1>1, <1>2

LEMMA LifeParts ==
  ASSUME LifeInv
  PROVE  OverBudgetIsFrozen /\ FrozenCanBeResumed
<1>1. OverBudgetIsFrozen
  BY DEF LifeInv, Capped, OverIsStopped, Stopped, OverBudgetIsFrozen, Life!OverBudgetIsFrozen,
         Life!Settled
<1>2. FrozenCanBeResumed
  BY DEF LifeInv, Capped, FrozenIsPaused, Due, FrozenCanBeResumed, Life!FrozenCanBeResumed,
         Life!Settled
<1> QED BY <1>1, <1>2

\* A hook that finds the session over its budget has its process stopped, and until a
\* person resumes it no hook, poll or request runs it on (enforceCostCaps,
\* handleAgentResume).
THEOREM CapHolds == ServicesSpec => []OverBudgetIsFrozen
<1>1. ServicesInit => LifeInv BY LifeInit DEF ServicesInit
<1>2. LifeInv /\ [ServicesNext]_all => LifeInv'
  BY LifeNext DEF ServicesNext, LifeStep, all
<1>3. LifeInv => OverBudgetIsFrozen BY LifeParts
<1> QED BY <1>1, <1>2, <1>3, PTL DEF ServicesSpec

\* A session that was frozen reads as paused once its hooks are served, which is the one
\* status handleAgentResume accepts, but where a request wrote over it.
THEOREM ResumeIsPossible == ServicesSpec => []FrozenCanBeResumed
<1>1. ServicesInit => LifeInv BY LifeInit DEF ServicesInit
<1>2. LifeInv /\ [ServicesNext]_all => LifeInv'
  BY LifeNext DEF ServicesNext, LifeStep, all
<1>3. LifeInv => FrozenCanBeResumed BY LifeParts
<1> QED BY <1>1, <1>2, <1>3, PTL DEF ServicesSpec

------------------------------------------------------------------------------
\* TerminalStream.

Span == [from : Nat, to : Nat]

\* What snapshotRing returns when so much has been written.
Screen(n) ==
  LET ends == Newline \cap (n - RingSize + 1..n)
  IN  IF n < RingSize THEN [from |-> 1, to |-> n]
      ELSE IF ends = {} THEN Terminal!None
      ELSE [from |-> 1 + CHOOSE i \in ends : \A j \in ends : i <= j, to |-> n]

LEMMA ScreenIsRing ==
  Terminal!snapshotRing = Screen(written) /\ (Terminal!snapshotRing)' = Screen(written')
BY DEF Terminal!snapshotRing, Screen

\* There is a first among positions.
LEMMA FirstByte ==
  ASSUME NEW I \in SUBSET Nat, I # {}
  PROVE  /\ (CHOOSE i \in I : \A j \in I : i <= j) \in I
<1> DEFINE Less == {p \in Nat \X Nat : p[1] < p[2]}
<1>1. IsWellFoundedOn(Less, Nat) BY NatLessThanWellFounded, Zenon DEF OpToRel
<1>2. \A j, k \in Nat : j < k => <<j, k>> \in Less OBVIOUS
<1> HIDE DEF Less
<1>3. PICK least \in I : \A j \in I : ~(<<j, least>> \in Less)
  BY <1>1, WFMin, Zenon
<1>4. ASSUME NEW j \in I PROVE least <= j
  <2>1. j \in Nat /\ least \in Nat OBVIOUS
  <2>2. ~(j < least) BY <1>2, <1>3, <2>1
  <2> QED BY <2>1, <2>2
<1> QED BY <1>4

LEMMA ScreenTyped ==
  ASSUME NEW n \in Nat
  PROVE  /\ Screen(n) \in Span /\ Terminal!Bytes(Screen(n)) \subseteq 1..n
         /\ Screen(n) = Terminal!None \/ (Screen(n).to = n /\ Screen(n).from \in 1..(n + 1))
<1> DEFINE ends == Newline \cap (n - RingSize + 1..n)
           least == CHOOSE i \in ends : \A j \in ends : i <= j
<1>1. CASE n < RingSize BY <1>1 DEF Screen, Span, Terminal!Bytes
<1>2. CASE ~(n < RingSize) /\ ends = {}
  BY <1>2 DEF Screen, Span, Terminal!Bytes, Terminal!None
<1>3. CASE ~(n < RingSize) /\ ends # {}
  <2>1. ends \in SUBSET Nat BY TerminalAssumption
  <2>2. least \in ends
    <3> HIDE DEF ends
    <3> QED BY <1>3, <2>1, FirstByte
  <2>3. least \in 1..n BY <1>3, <2>2, TerminalAssumption
  <2>4. Screen(n) = [from |-> 1 + least, to |-> n] BY <1>3 DEF Screen
  <2> HIDE DEF least
  <2> QED BY <2>3, <2>4 DEF Span, Terminal!Bytes
<1> QED BY <1>1, <1>2, <1>3

\* What is queued for the tab.
Queued == UNION {Terminal!Bytes(queue[i]) : i \in DOMAIN queue}

\* What is sent is queued, or dropped.
LEMMA SendQueues ==
  ASSUME queue \in Seq(Span), Len(queue) <= TabDepth, NEW range \in Span, Terminal!Send(range),
     gap \in BOOLEAN
  PROVE  /\ queue' \in Seq(Span) /\ Len(queue') <= TabDepth /\ gap' \in BOOLEAN
         /\ ~gap' => ~gap /\ Queued' = Queued \cup Terminal!Bytes(range)
         /\ Queued' \subseteq Queued \cup Terminal!Bytes(range)
<1>1. CASE Len(queue) >= TabDepth
  BY <1>1 DEF Terminal!Send, Queued
<1>2. CASE ~(Len(queue) >= TabDepth)
  <2>1. queue' = Append(queue, range) /\ gap' = gap BY <1>2 DEF Terminal!Send
  <2>2. /\ queue' \in Seq(Span) /\ Len(queue') = Len(queue) + 1
        /\ DOMAIN queue' = 1..(Len(queue) + 1)
        /\ \A i \in 1..Len(queue) : queue'[i] = queue[i]
        /\ queue'[Len(queue) + 1] = range
        /\ DOMAIN queue = 1..Len(queue) /\ Len(queue) \in Nat
     BY <2>1
  <2>3. Queued' = Queued \cup Terminal!Bytes(range)
    <3>1. Queued' = UNION {Terminal!Bytes(queue'[i]) : i \in DOMAIN queue'}
      BY DEF Queued, Terminal!Bytes
    <3>2. DOMAIN queue' = DOMAIN queue \cup {Len(queue) + 1} BY <2>2
    <3> QED BY <2>2, <3>1, <3>2 DEF Queued
  <2> QED BY <1>2, <2>1, <2>2, <2>3, TerminalAssumption
<1> QED BY <1>1, <1>2

LEMMA ReceiveQueues ==
  ASSUME queue \in Seq(Span), queue # <<>>, queue' = Tail(queue)
  PROVE  /\ queue' \in Seq(Span) /\ Len(queue') = Len(queue) - 1
         /\ Queued = Queued' \cup Terminal!Bytes(Head(queue))
<1>1. /\ queue' \in Seq(Span) /\ Len(queue') = Len(queue) - 1 /\ Len(queue) \in Nat \ {0}
      /\ DOMAIN queue = 1..Len(queue) /\ DOMAIN queue' = 1..(Len(queue) - 1)
      /\ \A i \in 1..(Len(queue) - 1) : queue'[i] = queue[i + 1]
      /\ Head(queue) = queue[1]
  OBVIOUS
<1>2. Queued' = UNION {Terminal!Bytes(queue'[i]) : i \in DOMAIN queue'}
  BY DEF Queued, Terminal!Bytes
<1>3. ASSUME NEW b \in Queued PROVE b \in Queued' \cup Terminal!Bytes(Head(queue))
  <2>1. PICK i \in 1..Len(queue) : b \in Terminal!Bytes(queue[i]) BY <1>1 DEF Queued
  <2>2. CASE i = 1 BY <1>1, <2>1, <2>2
  <2>3. CASE i # 1
    <3>1. i - 1 \in 1..(Len(queue) - 1) /\ queue'[i - 1] = queue[i] BY <1>1, <2>3
    <3> QED BY <1>1, <1>2, <2>1, <3>1
  <2> QED BY <2>2, <2>3
<1>4. ASSUME NEW b \in Queued' PROVE b \in Queued
  <2>1. PICK i \in 1..(Len(queue) - 1) : b \in Terminal!Bytes(queue'[i]) BY <1>1, <1>2, <1>4
  <2>2. i + 1 \in DOMAIN queue /\ queue'[i] = queue[i + 1] BY <1>1
  <2> QED BY <2>1, <2>2 DEF Queued
<1>5. Terminal!Bytes(Head(queue)) \subseteq Queued BY <1>1 DEF Queued
<1> QED BY <1>1, <1>3, <1>4, <1>5

\* The reader's chunk and what is on its way were written.
StreamTyped ==
  /\ Terminal!TypeOK
  /\ reader \in [pc : {"read", "wrote", "listed"}, chunk : Span] /\ ring \in Span
  /\ queue \in Seq(Span) /\ Queued \subseteq 1..written
  /\ listed => reader.pc = "listed"

\* The tab has, or will get, or is about to be sent, all that was written since its ring.
Covered ==
  tab \in {"read", "live"} /\ ~gap =>
    since..written \subseteq
      got \cup Terminal!OnItsWay \cup (IF tab = "read" THEN Terminal!Bytes(ring) ELSE {})

\* What the detector has found is what the screen shows, if that is the latest output.
Detected ==
  seen = serial =>
    /\ detector.pc = "idle" => (menu <=> Terminal!detectMenu(Screen(written)))
    /\ detector.pc = "found" => (detector.found <=> Terminal!detectMenu(Screen(written)))

TerminalInv == StreamTyped /\ Covered /\ Detected

InHand == IF reader.pc = "wrote" \/ listed THEN Terminal!Bytes(reader.chunk) ELSE {}

LEMMA QueuedOrInHand ==
  Terminal!OnItsWay = Queued \cup InHand /\ (Terminal!OnItsWay)' = Queued' \cup InHand'
<1>1. Terminal!OnItsWay = Queued \cup InHand BY Zenon DEF Terminal!OnItsWay, Queued, InHand
<1>2. (Terminal!OnItsWay)' = Queued' \cup InHand'
  BY Zenon DEF Terminal!OnItsWay, Queued, InHand
<1> QED BY <1>1, <1>2

LEMMA TerminalInit == Terminal!Init => TerminalInv
<1> SUFFICES ASSUME Terminal!Init PROVE TerminalInv OBVIOUS
<1> USE TerminalAssumption DEF Terminal!Init, Terminal!None
<1>1. Queued = {} BY DEF Queued
<1>2. Terminal!TypeOK
  <2>1. written \in 0..MaxBytes /\ serial \in 0..written /\ seen \in 0..serial OBVIOUS
  <2>2. reader.pc = "read" /\ Terminal!Bytes(reader.chunk) = {} /\ Terminal!Bytes(ring) = {}
    BY DEF Terminal!Bytes
  <2>3. Len(queue) <= TabDepth /\ got = {} /\ since \in 0..written + 1 OBVIOUS
  <2>4. detector \in [pc : {"idle", "scan", "found"}, found : BOOLEAN] OBVIOUS
  <2> QED BY <2>1, <2>2, <2>3, <2>4 DEF Terminal!TypeOK
<1>3. StreamTyped BY <1>1, <1>2 DEF StreamTyped, Span
<1>4. Covered BY DEF Covered
<1>5. Terminal!Bytes(Screen(0)) = {}
  BY ScreenTyped
<1>6. Detected BY <1>5 DEF Detected, Terminal!detectMenu
<1> QED BY <1>3, <1>4, <1>6 DEF TerminalInv

LEMMA WriteStep ==
  ASSUME TerminalInv, NEW n \in 1..MaxChunk, Terminal!writeRing(n)
  PROVE  TerminalInv'
<1> USE TerminalAssumption
<1>1. /\ reader.pc = "read" /\ written' = written + n /\ written + n <= MaxBytes
      /\ serial' = serial + 1
      /\ reader' = [pc |-> "wrote", chunk |-> [from |-> written + 1, to |-> written + n]]
      /\ UNCHANGED <<listed, tab, ring, queue, got, since, gap, detector, seen, menu>>
  BY DEF Terminal!writeRing, Terminal!client, Terminal!watch
<1>2. /\ written \in 0..MaxBytes /\ serial \in 0..written /\ seen \in 0..serial
      /\ n \in 1..MaxChunk /\ Queued \subseteq 1..written
  BY DEF TerminalInv, StreamTyped, Terminal!TypeOK
<1>3. Queued' = Queued BY <1>1 DEF Queued, Terminal!Bytes
<1>4. Terminal!TypeOK'
  BY <1>1, <1>2 DEF TerminalInv, StreamTyped, Terminal!TypeOK, Terminal!Bytes
<1>5. StreamTyped'
  BY <1>1, <1>2, <1>3, <1>4 DEF TerminalInv, StreamTyped, Span
<1>6. Covered'
  <2>1. Terminal!OnItsWay = Queued BY <1>1, QueuedOrInHand DEF InHand, TerminalInv, StreamTyped
  <2>2. Terminal!OnItsWay' = Queued \cup (written + 1 .. written + n)
     BY <1>1, <1>3, QueuedOrInHand DEF InHand, Terminal!Bytes
  <2>3. since \in 0..(written + 1) BY DEF TerminalInv, StreamTyped, Terminal!TypeOK
  <2>4. since .. written' \subseteq (since .. written) \cup (written + 1 .. written + n)
    BY <1>1, <1>2, <2>3
  <2> QED BY <1>1, <2>1, <2>2, <2>4 DEF TerminalInv, Covered, Terminal!Bytes
<1>7. Detected' BY <1>1, <1>2 DEF Detected
<1> QED BY <1>5, <1>6, <1>7 DEF TerminalInv

LEMMA BroadcastStep ==
  ASSUME TerminalInv, Terminal!ListSubs \/ Terminal!Broadcast
  PROVE  TerminalInv'
<1> USE TerminalAssumption DEF Terminal!client, Terminal!watch
<1>1. UNCHANGED <<written, serial, tab, ring, got, since, detector, seen, menu>>
  BY DEF Terminal!ListSubs, Terminal!Broadcast
<1>2. Detected' BY <1>1, ScreenIsRing DEF TerminalInv, Detected, Terminal!detectMenu, Terminal!Bytes
<1>3. CASE Terminal!ListSubs
  <2>1. /\ reader.pc = "wrote" /\ reader' = [reader EXCEPT !.pc = "listed"]
        /\ listed' = (tab # "closed")
        /\ UNCHANGED <<queue, gap>>
     BY <1>3 DEF Terminal!ListSubs, Terminal!Subscribed
  <2>2. /\ reader' \in [pc : {"read", "wrote", "listed"}, chunk : Span]
        /\ reader'.pc = "listed" /\ reader'.chunk = reader.chunk
     BY <2>1 DEF TerminalInv, StreamTyped
  <2>3. Queued' = Queued BY <2>1 DEF Queued, Terminal!Bytes
  <2>4. listed' \in BOOLEAN BY <2>1
  <2>5. Terminal!TypeOK'
     BY <1>1, <2>1, <2>2, <2>4 DEF TerminalInv, StreamTyped, Terminal!TypeOK, Terminal!Bytes
  <2>6. StreamTyped' BY <1>1, <2>1, <2>2, <2>3, <2>5 DEF TerminalInv, StreamTyped
  <2>7. tab # "closed" => Terminal!OnItsWay' = Terminal!OnItsWay
     BY <2>1, <2>2, <2>3, QueuedOrInHand DEF InHand, Terminal!Bytes
  <2>8. Covered' BY <1>1, <2>1, <2>7 DEF TerminalInv, Covered, Terminal!Bytes
  <2> QED BY <1>2, <2>6, <2>8 DEF TerminalInv
<1>4. CASE Terminal!Broadcast
  <2>1. /\ reader.pc = "listed" /\ reader' = [pc |-> "read", chunk |-> Terminal!None]
        /\ listed' = FALSE
        /\ IF listed THEN Terminal!Send(reader.chunk) ELSE UNCHANGED <<queue, gap>>
    BY <1>4 DEF Terminal!Broadcast
  <2>2. reader' \in [pc : {"read", "wrote", "listed"}, chunk : Span]
     BY <2>1 DEF Span, Terminal!None
  <2>3. /\ queue \in Seq(Span) /\ Len(queue) <= TabDepth /\ reader.chunk \in Span /\ gap \in BOOLEAN
        /\ Terminal!Bytes(reader.chunk) \subseteq 1..written /\ Queued \subseteq 1..written
     BY DEF TerminalInv, StreamTyped, Terminal!TypeOK
  <2>4. PICK sent : sent = IF listed THEN Terminal!Bytes(reader.chunk) ELSE {} OBVIOUS
  <2>5. /\ queue' \in Seq(Span) /\ Len(queue') <= TabDepth /\ gap' \in BOOLEAN
        /\ ~gap' => ~gap /\ Queued' = Queued \cup sent
        /\ Queued' \subseteq Queued \cup sent /\ sent \subseteq 1..written
    <3>1. CASE listed
      <4>1. Terminal!Send(reader.chunk) /\ sent = Terminal!Bytes(reader.chunk)
        BY <2>1, <2>4, <3>1
      <4> QED BY <2>3, <3>1, <4>1, SendQueues
    <3>2. CASE ~listed
      <4>1. UNCHANGED <<queue, gap>> /\ sent = {} BY <2>1, <2>4, <3>2
      <4>2. Queued' = Queued BY <4>1, Zenon DEF Queued
      <4> QED BY <2>3, <4>1, <4>2
    <3> QED BY <3>1, <3>2
  <2>6. reader'.pc = "read" /\ reader'.chunk = Terminal!None /\ listed' \in BOOLEAN /\ ~listed'
    BY <2>1
  <2>7. (Terminal!Bytes(reader.chunk))' = {}
    <3>1. (Terminal!Bytes(reader.chunk))' = Terminal!Bytes(Terminal!None)
      BY <2>6, Zenon DEF Terminal!Bytes
    <3> QED BY <3>1 DEF Terminal!Bytes, Terminal!None
  <2>8. StreamTyped'
    <3>1. Queued' \subseteq 1..written' BY <1>1, <2>3, <2>5
    <3>2. ring' \in Span BY <1>1 DEF TerminalInv, StreamTyped
    <3>3. (Terminal!TypeOK)'
      BY <1>1, <2>5, <2>6, <2>7 DEF TerminalInv, StreamTyped, Terminal!TypeOK
    <3> QED BY <2>2, <2>5, <2>6, <3>1, <3>2, <3>3 DEF StreamTyped
  <2>9. Covered'
    <3>1. InHand = sent BY <2>1, <2>4 DEF InHand
    <3>2. InHand' = {} BY <2>6 DEF InHand
    <3>3. ~gap' => (Terminal!OnItsWay)' = Terminal!OnItsWay /\ ~gap
      BY <2>5, <3>1, <3>2, QueuedOrInHand
    <3>4. UNCHANGED Terminal!Bytes(ring) BY <1>1, Zenon DEF Terminal!Bytes
    <3> QED BY <1>1, <3>3, <3>4 DEF TerminalInv, Covered
  <2> QED BY <1>2, <2>8, <2>9 DEF TerminalInv
<1> QED BY <1>3, <1>4

\* What a step that leaves the reader and the queue alone does not change.
LEMMA NothingMoves ==
  ASSUME UNCHANGED <<reader, listed, queue>>
  PROVE  /\ Queued' = Queued /\ InHand' = InHand /\ (Terminal!OnItsWay)' = Terminal!OnItsWay
         /\ (Terminal!Bytes(reader.chunk))' = Terminal!Bytes(reader.chunk)
<1>1. Queued' = Queued BY Zenon DEF Queued, Terminal!Bytes
<1>2. InHand' = InHand BY Zenon DEF InHand, Terminal!Bytes
<1>3. (Terminal!Bytes(reader.chunk))' = Terminal!Bytes(reader.chunk)
  BY Zenon DEF Terminal!Bytes
<1> QED BY <1>1, <1>2, <1>3, QueuedOrInHand

LEMMA SubStep ==
  ASSUME TerminalInv, Terminal!addSub
  PROVE  TerminalInv'
<1> USE DEF Terminal!stream, Terminal!watch
<1>1. /\ UNCHANGED <<written, serial, reader, listed, ring, queue, detector, seen, menu>>
      /\ tab' = "joined" /\ got' = {} /\ since' = 0 /\ gap' = FALSE
  BY DEF Terminal!addSub
<1>2. /\ Queued' = Queued /\ (Terminal!Bytes(reader.chunk))' = Terminal!Bytes(reader.chunk)
      /\ (Terminal!Bytes(ring))' = Terminal!Bytes(ring)
  BY <1>1, NothingMoves DEF Terminal!Bytes
<1>3. StreamTyped'
  <2>1. (Terminal!TypeOK)'
    <3>1. written \in Nat BY TerminalAssumption DEF TerminalInv, StreamTyped, Terminal!TypeOK
    <3>2. got' \subseteq 1..written /\ since' \in 0..written + 1 /\ gap' \in BOOLEAN
      <4>1. got' \subseteq 1..written BY <1>1
      <4>2. since' \in 0..written + 1 BY <1>1, <3>1
      <4>3. gap' \in BOOLEAN BY <1>1
      <4> QED BY <4>1, <4>2, <4>3
    <3>3. /\ tab' \in {"closed", "joined", "read", "live"}
          /\ (Terminal!Bytes(ring))' \subseteq 1..written
      BY <1>1, <1>2 DEF TerminalInv, StreamTyped, Terminal!TypeOK
    <3>4. UNCHANGED <<written, serial, seen, reader, listed, menu, queue, detector>> BY <1>1
    <3> QED BY <1>2, <3>2, <3>3, <3>4 DEF TerminalInv, StreamTyped, Terminal!TypeOK
  <2> QED BY <1>1, <1>2, <2>1 DEF TerminalInv, StreamTyped
<1>4. Covered' BY <1>1 DEF Covered
<1>5. Detected' BY <1>1 DEF TerminalInv, Detected, Terminal!detectMenu, Terminal!Bytes
<1> QED BY <1>3, <1>4, <1>5 DEF TerminalInv

LEMMA ReadRingStep ==
  ASSUME TerminalInv, Terminal!ReadRing
  PROVE  TerminalInv'
<1> USE DEF Terminal!stream, Terminal!watch
<1>1. /\ UNCHANGED <<written, serial, reader, listed, queue, got, gap, detector, seen, menu>>
      /\ tab' = "read" /\ ring' = Screen(written)
      /\ since' = IF ring' = Terminal!None THEN written + 1 ELSE ring'.from
  BY ScreenIsRing DEF Terminal!ReadRing
<1>2. Queued' = Queued /\ (Terminal!Bytes(reader.chunk))' = Terminal!Bytes(reader.chunk)
  BY <1>1, NothingMoves
<1>3. written \in Nat BY TerminalAssumption DEF TerminalInv, StreamTyped, Terminal!TypeOK
<1>4. /\ ring' \in Span /\ (Terminal!Bytes(ring))' = Terminal!Bytes(Screen(written))
      /\ (Terminal!Bytes(ring))' \subseteq 1..written
      /\ ring' = Terminal!None \/ (ring'.to = written /\ ring'.from \in 1..(written + 1))
  BY <1>1, <1>3, ScreenTyped DEF Terminal!Bytes
<1>5. since' \in 1..(written + 1) /\ since'..written \subseteq (Terminal!Bytes(ring))'
  <2>1. CASE ring' = Terminal!None
    <3>1. since' = written + 1 BY <1>1, <2>1
    <3> QED BY <1>3, <3>1
  <2>2. CASE ring' # Terminal!None
    <3>1. since' = ring'.from BY <1>1, <2>2
    <3> QED BY <1>3, <1>4, <2>2, <3>1 DEF Terminal!Bytes
  <2> QED BY <2>1, <2>2
<1>6. StreamTyped'
  <2>1. (Terminal!TypeOK)'
    BY <1>1, <1>2, <1>3, <1>4, <1>5 DEF TerminalInv, StreamTyped, Terminal!TypeOK
  <2> QED BY <1>1, <1>2, <1>4, <2>1 DEF TerminalInv, StreamTyped
<1>7. Covered' BY <1>1, <1>5 DEF Covered
<1>8. Detected' BY <1>1 DEF TerminalInv, Detected, Terminal!detectMenu, Terminal!Bytes
<1> QED BY <1>6, <1>7, <1>8 DEF TerminalInv

LEMMA SendRingStep ==
  ASSUME TerminalInv, Terminal!SendRing
  PROVE  TerminalInv'
<1> USE DEF Terminal!stream, Terminal!watch
<1>1. /\ UNCHANGED <<written, serial, reader, listed, got, since, detector, seen, menu>>
      /\ tab = "read" /\ tab' = "live" /\ ring' = Terminal!None
      /\ IF Terminal!Bytes(ring) = {} THEN UNCHANGED <<queue, gap>> ELSE Terminal!Send(ring)
  BY DEF Terminal!SendRing
<1>2. (Terminal!Bytes(reader.chunk))' = Terminal!Bytes(reader.chunk) /\ InHand' = InHand
  BY <1>1, Zenon DEF Terminal!Bytes, InHand
<1>3. /\ queue \in Seq(Span) /\ Len(queue) <= TabDepth /\ ring \in Span /\ gap \in BOOLEAN
      /\ Terminal!Bytes(ring) \subseteq 1..written /\ Queued \subseteq 1..written
  BY DEF TerminalInv, StreamTyped, Terminal!TypeOK
<1>4. /\ queue' \in Seq(Span) /\ Len(queue') <= TabDepth /\ gap' \in BOOLEAN
      /\ ~gap' => ~gap /\ Queued' = Queued \cup Terminal!Bytes(ring)
      /\ Queued' \subseteq Queued \cup Terminal!Bytes(ring)
  <2>1. CASE Terminal!Bytes(ring) = {}
    <3>1. UNCHANGED <<queue, gap>> BY <1>1, <2>1
    <3>2. Queued' = Queued BY <3>1, Zenon DEF Queued, Terminal!Bytes
    <3> QED BY <1>3, <2>1, <3>1, <3>2
  <2>2. CASE Terminal!Bytes(ring) # {}
    <3>1. Terminal!Send(ring) BY <1>1, <2>2
    <3> QED BY <1>3, <3>1, SendQueues
  <2> QED BY <2>1, <2>2
<1>5. ring' \in Span /\ (Terminal!Bytes(ring))' = {}
  BY <1>1 DEF Terminal!Bytes, Terminal!None, Span
<1>6. StreamTyped'
  <2>1. (Terminal!TypeOK)'
    BY <1>1, <1>2, <1>4, <1>5 DEF TerminalInv, StreamTyped, Terminal!TypeOK
  <2>2. Queued' \subseteq 1..written' BY <1>1, <1>3, <1>4
  <2> QED BY <1>1, <1>4, <1>5, <2>1, <2>2 DEF TerminalInv, StreamTyped
<1>7. Covered'
  <2>1. ~gap' => (Terminal!OnItsWay)' = Terminal!OnItsWay \cup Terminal!Bytes(ring)
    BY <1>2, <1>4, QueuedOrInHand
  <2> QED BY <1>1, <1>4, <2>1 DEF TerminalInv, Covered
<1>8. Detected' BY <1>1 DEF TerminalInv, Detected, Terminal!detectMenu, Terminal!Bytes
<1> QED BY <1>6, <1>7, <1>8 DEF TerminalInv

LEMMA ReceiveStep ==
  ASSUME TerminalInv, Terminal!Receive
  PROVE  TerminalInv'
<1> USE DEF Terminal!stream, Terminal!watch
<1>1. /\ UNCHANGED <<written, serial, reader, listed, tab, ring, since, gap, detector, seen, menu>>
      /\ queue # <<>> /\ queue' = Tail(queue) /\ got' = got \cup Terminal!Bytes(Head(queue))
  BY DEF Terminal!Receive
<1>2. /\ (Terminal!Bytes(reader.chunk))' = Terminal!Bytes(reader.chunk) /\ InHand' = InHand
      /\ (Terminal!Bytes(ring))' = Terminal!Bytes(ring)
  BY <1>1, Zenon DEF Terminal!Bytes, InHand
<1>3. /\ queue \in Seq(Span) /\ Len(queue) <= TabDepth /\ Queued \subseteq 1..written
      /\ got \subseteq 1..written
  BY DEF TerminalInv, StreamTyped, Terminal!TypeOK
<1>4. /\ queue' \in Seq(Span) /\ Len(queue') = Len(queue) - 1
      /\ Queued = Queued' \cup Terminal!Bytes(Head(queue))
  BY <1>1, <1>3, ReceiveQueues
<1>5. Len(queue') <= TabDepth
  <2>1. Len(queue) \in Nat BY <1>3
  <2> QED BY <1>3, <1>4, <2>1, TerminalAssumption
<1>6. StreamTyped'
  <2>1. got' \subseteq 1..written BY <1>1, <1>3, <1>4
  <2>2. (Terminal!TypeOK)'
    BY <1>1, <1>2, <1>5, <2>1 DEF TerminalInv, StreamTyped, Terminal!TypeOK
  <2> QED BY <1>1, <1>3, <1>4, <2>2 DEF TerminalInv, StreamTyped
<1>7. Covered'
  <2>1. got' \cup (Terminal!OnItsWay)' = got \cup Terminal!OnItsWay
    BY <1>1, <1>2, <1>4, QueuedOrInHand
  <2> QED BY <1>1, <1>2, <2>1 DEF TerminalInv, Covered
<1>8. Detected' BY <1>1 DEF TerminalInv, Detected, Terminal!detectMenu, Terminal!Bytes
<1> QED BY <1>6, <1>7, <1>8 DEF TerminalInv

LEMMA LeaveStep ==
  ASSUME TerminalInv, Terminal!Leave
  PROVE  TerminalInv'
<1> USE DEF Terminal!watch
<1>1. /\ UNCHANGED <<written, serial, reader, got, since, gap, detector, seen, menu>>
      /\ tab' = "closed" /\ ring' = Terminal!None /\ queue' = <<>> /\ listed' = FALSE
  BY DEF Terminal!Leave
<1>2. /\ (Terminal!Bytes(reader.chunk))' = Terminal!Bytes(reader.chunk) /\ Queued' = {}
      /\ (Terminal!Bytes(ring))' = {} /\ ring' \in Span
  BY <1>1 DEF Terminal!Bytes, Queued, Terminal!None, Span
<1>3. StreamTyped'
  <2>1. (Terminal!TypeOK)'
    <3>1. (Terminal!Bytes(ring))' \subseteq 1..written /\ listed' \in BOOLEAN BY <1>1, <1>2
    <3>2. Len(queue') <= TabDepth BY <1>1, TerminalAssumption
    <3> QED BY <1>1, <1>2, <3>1, <3>2 DEF TerminalInv, StreamTyped, Terminal!TypeOK
  <2>2. queue' \in Seq(Span) BY <1>1
  <2> QED BY <1>1, <1>2, <2>1, <2>2 DEF TerminalInv, StreamTyped
<1>4. Covered' BY <1>1 DEF Covered
<1>5. Detected' BY <1>1 DEF TerminalInv, Detected, Terminal!detectMenu, Terminal!Bytes
<1> QED BY <1>3, <1>4, <1>5 DEF TerminalInv

\* The detector's steps.  It takes the serial before it looks.
LEMMA DetectorStep ==
  ASSUME TerminalInv, Terminal!ReadSerial \/ Terminal!Scan \/ Terminal!Publish
  PROVE  TerminalInv'
<1> USE DEF Terminal!stream, Terminal!client
<1>1. UNCHANGED <<written, serial, reader, listed, tab, ring, queue, got, since, gap>>
  BY DEF Terminal!ReadSerial, Terminal!Scan, Terminal!Publish
<1>2. /\ Queued' = Queued /\ (Terminal!OnItsWay)' = Terminal!OnItsWay
      /\ (Terminal!Bytes(reader.chunk))' = Terminal!Bytes(reader.chunk)
      /\ (Terminal!Bytes(ring))' = Terminal!Bytes(ring)
  BY <1>1, NothingMoves DEF Terminal!Bytes
<1>3. Covered' BY <1>1, <1>2 DEF TerminalInv, Covered
<1>4. /\ detector \in [pc : {"idle", "scan", "found"}, found : BOOLEAN] /\ menu \in BOOLEAN
      /\ serial \in Nat /\ seen \in 0..serial
  BY TerminalAssumption DEF TerminalInv, StreamTyped, Terminal!TypeOK
<1>5. ASSUME detector' \in [pc : {"idle", "scan", "found"}, found : BOOLEAN],
             seen' \in 0..serial, menu' \in BOOLEAN
      PROVE  StreamTyped'
  <2>1. (Terminal!TypeOK)' BY <1>1, <1>2, <1>5 DEF TerminalInv, StreamTyped, Terminal!TypeOK
  <2> QED BY <1>1, <1>2, <2>1 DEF TerminalInv, StreamTyped
<1>6. CASE Terminal!ReadSerial
  <2>1. detector' = [detector EXCEPT !.pc = "scan"] /\ seen' = serial /\ menu' = menu
    BY <1>6 DEF Terminal!ReadSerial
  <2>2. Detected' BY <1>4, <2>1 DEF Detected
  <2> QED BY <1>3, <1>4, <1>5, <2>1, <2>2 DEF TerminalInv
<1>7. CASE Terminal!Scan
  <2>1. /\ detector' = [pc |-> "found", found |-> Terminal!detectMenu(Screen(written))]
        /\ seen' = seen /\ menu' = menu
    BY <1>7, ScreenIsRing DEF Terminal!Scan
  <2>2. Terminal!detectMenu(Screen(written)) \in BOOLEAN BY DEF Terminal!detectMenu
  <2>3. detector'.pc = "found" /\ detector'.found = Terminal!detectMenu(Screen(written))
    BY <2>1
  <2>4. (Terminal!detectMenu(Screen(written)))' = Terminal!detectMenu(Screen(written))
    BY <1>1, Zenon DEF Terminal!detectMenu, Screen, Terminal!Bytes, Terminal!None
  <2>5. Detected' BY <2>3, <2>4 DEF Detected
  <2>6. detector' \in [pc : {"idle", "scan", "found"}, found : BOOLEAN]
    BY <2>1, <2>2
  <2> QED BY <1>3, <1>4, <1>5, <2>1, <2>5, <2>6 DEF TerminalInv
<1>8. CASE Terminal!Publish
  <2>1. /\ detector.pc = "found" /\ detector' = [pc |-> "idle", found |-> FALSE]
        /\ seen' = seen /\ menu' = detector.found
    BY <1>8 DEF Terminal!Publish
  <2>2. (Terminal!detectMenu(Screen(written)))' = Terminal!detectMenu(Screen(written))
    BY <1>1, Zenon DEF Terminal!detectMenu, Screen, Terminal!Bytes, Terminal!None
  <2>3. Detected' BY <1>1, <2>1, <2>2 DEF TerminalInv, Detected
  <2>4. detector' \in [pc : {"idle", "scan", "found"}, found : BOOLEAN] /\ menu' \in BOOLEAN
    BY <1>4, <2>1
  <2> QED BY <1>3, <1>4, <1>5, <2>1, <2>3, <2>4 DEF TerminalInv
<1> QED BY <1>6, <1>7, <1>8

LEMMA TerminalNext ==
  ASSUME TerminalInv, Terminal!Next \/ UNCHANGED terminals
  PROVE  TerminalInv'
<1>1. CASE UNCHANGED terminals
  <2>1. UNCHANGED <<written, serial, reader, listed, tab, ring, queue, got, since, gap, detector,
                   seen, menu>>
    BY <1>1 DEF terminals
  <2>2. /\ Queued' = Queued /\ (Terminal!OnItsWay)' = Terminal!OnItsWay
        /\ (Terminal!Bytes(reader.chunk))' = Terminal!Bytes(reader.chunk)
        /\ (Terminal!Bytes(ring))' = Terminal!Bytes(ring)
    BY <2>1, NothingMoves DEF Terminal!Bytes
  <2>3. (Terminal!TypeOK)' BY <2>1, <2>2 DEF TerminalInv, StreamTyped, Terminal!TypeOK
  <2>4. StreamTyped' BY <2>1, <2>2, <2>3 DEF TerminalInv, StreamTyped
  <2>5. Covered' BY <2>1, <2>2 DEF TerminalInv, Covered
  <2>6. (Terminal!detectMenu(Screen(written)))' = Terminal!detectMenu(Screen(written))
    BY <2>1, Zenon DEF Terminal!detectMenu, Screen, Terminal!Bytes, Terminal!None
  <2>7. Detected' BY <2>1, <2>6 DEF TerminalInv, Detected
  <2> QED BY <2>4, <2>5, <2>7 DEF TerminalInv
<1> QED
  BY <1>1, WriteStep, BroadcastStep, SubStep, ReadRingStep, SendRingStep, ReceiveStep, LeaveStep,
     DetectorStep
  DEF Terminal!Next

LEMMA TerminalParts ==
  ASSUME TerminalInv
  PROVE  NoGap /\ MenuIsOnScreen
<1>1. NoGap BY DEF TerminalInv, Covered, NoGap, Terminal!NoGap
<1>2. MenuIsOnScreen
  BY ScreenIsRing DEF TerminalInv, Detected, MenuIsOnScreen, Terminal!MenuIsOnScreen
<1> QED BY <1>1, <1>2
\* However the terminal's output, a tab's connecting and its receiving interleave, no byte
\* from the first of its scrollback on falls between the ring and the broadcasts, unless
\* its queue was full (handleSessionWS, broadcastBytes).
THEOREM NothingIsMissed == ServicesSpec => []NoGap
<1>1. ServicesInit => TerminalInv BY TerminalInit DEF ServicesInit
<1>2. TerminalInv /\ [ServicesNext]_all => TerminalInv'
  BY TerminalNext DEF ServicesNext, LifeStep, all
<1>3. TerminalInv => NoGap BY TerminalParts
<1> QED BY <1>1, <1>2, <1>3, PTL DEF ServicesSpec

\* Once the detector has seen the latest output, the menu it offers is the one on the
\* screen (startMenuDetector, detectMenu).
THEOREM MenuIsTheScreens == ServicesSpec => []MenuIsOnScreen
<1>1. ServicesInit => TerminalInv BY TerminalInit DEF ServicesInit
<1>2. TerminalInv /\ [ServicesNext]_all => TerminalInv'
  BY TerminalNext DEF ServicesNext, LifeStep, all
<1>3. TerminalInv => MenuIsOnScreen BY TerminalParts
<1> QED BY <1>1, <1>2, <1>3, PTL DEF ServicesSpec

------------------------------------------------------------------------------
\* TranscriptFollowers.

Lines == Followers!Line

WatcherState ==
  [pc : {"none", "open", "tick", "read", "release", "place", "stop", "close", "gone"},
   from : Nat, at : Nat, hand : Seq(Lines)]

FollowerState ==
  [pc : {"off", "tick", "ingest", "place"}, stop : BOOLEAN, offset : Nat, hand : Seq(Lines)]

\* The two files, and the document their lines go to.
FilesTyped ==
  /\ file \in 0..2 * MaxLine /\ child \in 0..2 * MaxLine /\ heard \in {"live", "over"}
  /\ path \in BOOLEAN /\ watching \in BOOLEAN

DocumentTyped ==
  /\ projector \in {"none", "open", "closed"} /\ linked \in BOOLEAN
  /\ placed \subseteq Lines /\ shed \subseteq Lines /\ refused \subseteq Lines
  /\ unclaimed \in BOOLEAN
  /\ held \in Seq(Lines) /\ Len(held) <= MaxHeld

ActorsTyped ==
  /\ caller \in [Hook -> {"idle", "named", "starts", "done"}]
  /\ watcher \in [Hook -> WatcherState] /\ follower \in [Hook -> FollowerState]

\* A watcher has what it has in hand only while it places it; a follower too.
HandsAreFree ==
  \A w \in Hook :
    /\ watcher[w].pc # "place" => watcher[w].hand = <<>>
    /\ follower[w].pc \in {"off", "tick"} => follower[w].hand = <<>>

\* One watcher at most, and the session knows of it; a hook starts one only once.
OnDuty(w) == watcher[w].pc \notin {"none", "gone"}

OneWatcher ==
  /\ \A w \in Hook : OnDuty(w) => watching
  /\ \A v, w \in Hook : OnDuty(v) /\ OnDuty(w) => v = w
  /\ \A w \in Hook : caller[w] # "done" => watcher[w].pc = "none"

\* The offset stands after a whole line, and each line before it was counted once.
Reading == {"read", "release", "place"}

Counting ==
  /\ offset \in 0..file /\ offset % 2 = 0 /\ counted \in [Lines -> Nat]
  /\ \A i \in Lines : counted[i] = IF 2 * i <= offset THEN 1 ELSE 0
  /\ \A w \in Hook : watcher[w].pc \in Reading =>
       watcher[w].from = offset /\ watcher[w].at \in offset..file /\ watcher[w].at % 2 = 0

\* What a follower has read is somewhere; it has read nothing before a projector opens.
Reached ==
  /\ \A w \in Hook :
       watcher[w].pc \in {"none", "open"} => follower[w].pc = "off" /\ follower[w].offset = 0
  /\ projector = "none" =>
       \A w \in Hook : follower[w].offset = 0 /\ follower[w].pc = "off"

FollowersInv ==
  /\ FilesTyped /\ DocumentTyped /\ ActorsTyped /\ HandsAreFree /\ OneWatcher /\ Counting
  /\ Reached /\ ChildWorkIsPlaced

------------------------------------------------------------------------------
\* What a sequence holds, when one more is taken from it, or it is cut.

LEMMA TakenElements ==
  ASSUME NEW T, NEW s \in Seq(T), s # <<>>
  PROVE  /\ Tail(s) \in Seq(T) /\ Head(s) \in T
         /\ Followers!Elements(s) = {Head(s)} \cup Followers!Elements(Tail(s))
<1>1. /\ Len(s) \in Nat \ {0} /\ DOMAIN s = 1..Len(s) /\ Head(s) = s[1] /\ s[1] \in T
      /\ Tail(s) \in Seq(T) /\ DOMAIN Tail(s) = 1..(Len(s) - 1)
      /\ \A i \in 1..(Len(s) - 1) : Tail(s)[i] = s[i + 1]
  OBVIOUS
<1>2. ASSUME NEW e \in Followers!Elements(s)
      PROVE  e \in {Head(s)} \cup Followers!Elements(Tail(s))
  <2>1. PICK k \in 1..Len(s) : e = s[k] BY <1>1 DEF Followers!Elements
  <2>2. CASE k = 1 BY <1>1, <2>1, <2>2
  <2>3. CASE k # 1
    <3>1. k - 1 \in 1..(Len(s) - 1) /\ Tail(s)[k - 1] = e BY <1>1, <2>1, <2>3
    <3> QED BY <1>1, <3>1 DEF Followers!Elements
  <2> QED BY <2>2, <2>3
<1>3. ASSUME NEW e \in Followers!Elements(Tail(s)) PROVE e \in Followers!Elements(s)
  <2>1. PICK k \in 1..(Len(s) - 1) : e = Tail(s)[k] BY <1>1 DEF Followers!Elements
  <2>2. k + 1 \in 1..Len(s) /\ s[k + 1] = e BY <1>1, <2>1
  <2> QED BY <1>1, <2>2 DEF Followers!Elements
<1>4. Head(s) \in Followers!Elements(s) BY <1>1 DEF Followers!Elements
<1> QED BY <1>1, <1>2, <1>3, <1>4

LEMMA JoinedElements ==
  ASSUME NEW T, NEW s \in Seq(T), NEW t \in Seq(T)
  PROVE  /\ s \o t \in Seq(T)
         /\ Followers!Elements(s) \cup Followers!Elements(t) \subseteq Followers!Elements(s \o t)
<1>1. /\ s \o t \in Seq(T) /\ DOMAIN (s \o t) = 1..(Len(s) + Len(t))
      /\ DOMAIN s = 1..Len(s) /\ DOMAIN t = 1..Len(t) /\ Len(s) \in Nat /\ Len(t) \in Nat
      /\ \A i \in 1..Len(s) : (s \o t)[i] = s[i]
      /\ \A i \in 1..Len(t) : (s \o t)[Len(s) + i] = t[i]
  OBVIOUS
<1>2. ASSUME NEW k \in 1..Len(s) PROVE s[k] \in Followers!Elements(s \o t)
  BY <1>1 DEF Followers!Elements
<1>3. ASSUME NEW k \in 1..Len(t) PROVE t[k] \in Followers!Elements(s \o t)
  <2>1. Len(s) + k \in 1..(Len(s) + Len(t)) /\ (s \o t)[Len(s) + k] = t[k] BY <1>1
  <2> QED BY <1>1, <2>1 DEF Followers!Elements
<1> QED BY <1>1, <1>2, <1>3 DEF Followers!Elements

LEMMA CutElements ==
  ASSUME NEW T, NEW s \in Seq(T), NEW n \in 0..Len(s)
  PROVE  LET rest == SubSeq(s, n + 1, Len(s))
         IN  /\ rest \in Seq(T) /\ Len(rest) = Len(s) - n
             /\ {s[k] : k \in 1..n} \subseteq T
             /\ Followers!Elements(s) \subseteq {s[k] : k \in 1..n} \cup Followers!Elements(rest)
<1> DEFINE rest == SubSeq(s, n + 1, Len(s))
<1>1. Len(s) \in Nat /\ DOMAIN s = 1..Len(s) /\ \A k \in 1..Len(s) : s[k] \in T OBVIOUS
<1>2. /\ rest \in Seq(T) /\ Len(rest) = Len(s) - n
      /\ DOMAIN rest = 1..(Len(s) - n) /\ \A k \in 1..(Len(s) - n) : rest[k] = s[n + k]
  BY <1>1
<1> HIDE DEF rest
<1>3. ASSUME NEW k \in 1..Len(s), k > n PROVE s[k] \in Followers!Elements(rest)
  <2>1. PICK i \in 1..(Len(s) - n) : k = n + i
    <3>1. k - n \in 1..(Len(s) - n) /\ k = n + (k - n) BY <1>1, <1>3
    <3> QED BY <3>1
  <2>2. rest[i] = s[k] BY <1>2, <2>1
  <2> QED BY <1>2, <2>2 DEF Followers!Elements
<1>4. Followers!Elements(s) \subseteq {s[k] : k \in 1..n} \cup Followers!Elements(rest)
  BY <1>1, <1>3 DEF Followers!Elements
<1>5. {s[k] : k \in 1..n} \subseteq T BY <1>1
<1> QED BY <1>2, <1>4, <1>5 DEF rest

LEMMA LinesBetween ==
  ASSUME NEW from \in Nat, NEW to \in Nat, from <= to, to <= MaxLine
  PROVE  /\ Followers!LinesIn(from, to) \in Seq(Lines)
         /\ Followers!Elements(Followers!LinesIn(from, to)) = from + 1..to
<1> DEFINE read == Followers!LinesIn(from, to)
<1>1. read = [k \in 1..to - from |-> from + k] BY DEF Followers!LinesIn
<1>2. /\ to - from \in Nat /\ DOMAIN read = 1..to - from
      /\ \A k \in 1..to - from : read[k] = from + k
  BY <1>1
<1>3. read \in Seq(Lines)
  <2>1. \A k \in 1..to - from : from + k \in Lines
    BY FollowersAssumption DEF Lines, Followers!Line
  <2>2. read \in [1..to - from -> Lines] BY <1>1, <2>1
  <2> HIDE DEF read
  <2> QED BY <1>2, <2>2, SeqDef
<1> HIDE DEF read
<1>4. ASSUME NEW i \in from + 1..to PROVE i \in Followers!Elements(read)
  <2>1. i - from \in 1..to - from /\ read[i - from] = i BY <1>2
  <2> QED BY <1>2, <2>1 DEF Followers!Elements
<1>5. Followers!Elements(read) = from + 1..to BY <1>2, <1>4 DEF Followers!Elements
<1> QED BY <1>3, <1>5 DEF read

\* What is in the watchers' hands, and what is held that has not been given to one.
Hands == UNION {Followers!Elements(watcher[w].hand) : w \in Hook}
Kept ==
  IF linked /\ ~unclaimed /\ \A w \in Hook : watcher[w].pc # "release"
    THEN {} ELSE Followers!Elements(held)

Stranded == IF unclaimed THEN Followers!Elements(held) ELSE {}

LEMMA WaitingIs ==
  /\ Followers!Waiting \cup Stranded = Hands \cup Kept
  /\ (Followers!Waiting)' \cup Stranded' = Hands' \cup Kept'
<1>1. Followers!Waiting \cup Stranded = Hands \cup Kept
  BY DEF Followers!Waiting, Hands, Kept, Stranded
<1>2. (Followers!Waiting)' \cup Stranded' = Hands' \cup Kept'
  BY DEF Followers!Waiting, Hands, Kept, Stranded, Followers!Elements
<1> QED BY <1>1, <1>2

\* Where the work of the child may be, but for a follower's hand.
Somewhere == placed \cup shed \cup refused \cup Hands \cup Kept

\* What is asked of the child's work, in these terms.
Placed(w) ==
  1..follower[w].offset \subseteq Somewhere \cup Followers!Elements(follower[w].hand)

LEMMA PlacedIs ==
  /\ ChildWorkIsPlaced <=> (projector = "open" => \A w \in Hook : Placed(w))
  /\ ChildWorkIsPlaced' <=> (projector' = "open" => \A w \in Hook : Placed(w)')
<1>1. ChildWorkIsPlaced <=> (projector = "open" => \A w \in Hook : Placed(w))
  BY WaitingIs
  DEF ChildWorkIsPlaced, Followers!ChildWorkIsPlaced, Placed, Somewhere, Stranded
<1>2. ChildWorkIsPlaced' <=> (projector' = "open" => \A w \in Hook : Placed(w)')
  BY WaitingIs
  DEF ChildWorkIsPlaced, Followers!ChildWorkIsPlaced, Placed, Somewhere, Stranded,
      Followers!Elements
<1> QED BY <1>1, <1>2

\* Work that was read stays placed when a step only moves it on.
LEMMA WorkStays ==
  ASSUME ChildWorkIsPlaced,
         projector' = "open" => projector = "open",
         projector' = "open" =>
           \A w \in Hook :
             /\ follower'[w].offset = follower[w].offset
             /\ Somewhere \cup Followers!Elements(follower[w].hand) \subseteq
                  Somewhere' \cup Followers!Elements(follower'[w].hand)
  PROVE  ChildWorkIsPlaced'
<1> SUFFICES ASSUME projector' = "open", NEW w \in Hook
             PROVE  1..follower'[w].offset \subseteq
                      Somewhere' \cup Followers!Elements(follower'[w].hand)
  BY PlacedIs DEF Placed, Followers!Elements
<1>1. 1..follower[w].offset \subseteq Somewhere \cup Followers!Elements(follower[w].hand)
  BY PlacedIs DEF Placed
<1> QED BY <1>1

LEMMA SameWork ==
  ASSUME UNCHANGED <<placed, shed, refused, unclaimed, watcher, linked, held>>
  PROVE  Somewhere' = Somewhere /\ Hands' = Hands /\ Kept' = Kept
<1>1. /\ placed' = placed /\ shed' = shed /\ refused' = refused /\ unclaimed' = unclaimed
      /\ watcher' = watcher /\ linked' = linked /\ held' = held
  OBVIOUS
<1>2. Hands' = Hands
  <2>1. Hands' = UNION {Followers!Elements(watcher'[w].hand) : w \in Hook}
    BY Zenon DEF Hands, Followers!Elements
  <2> QED BY <1>1, <2>1, Zenon DEF Hands
<1>3. Kept' = Kept
  <2>1. Kept' = IF linked' /\ ~unclaimed' /\ \A w \in Hook : watcher'[w].pc # "release"
                  THEN {} ELSE Followers!Elements(held')
    BY DEF Kept, Followers!Elements
  <2> QED BY <1>1, <2>1 DEF Kept
<1> QED BY <1>1, <1>2, <1>3 DEF Somewhere

LEMMA FollowersInit == Followers!Init => FollowersInv
<1> SUFFICES ASSUME Followers!Init PROVE FollowersInv OBVIOUS
<1> USE FollowersAssumption DEF Followers!Init
<1>1. FilesTyped
  <2>1. file \in 0..2 * MaxLine /\ child \in 0..2 * MaxLine OBVIOUS
  <2>2. path \in BOOLEAN /\ watching \in BOOLEAN /\ heard \in {"live", "over"} BY Zenon
  <2> QED BY <2>1, <2>2 DEF FilesTyped
<1>2. DocumentTyped
  <2>1. held \in Seq(Lines) /\ Len(held) <= MaxHeld OBVIOUS
  <2>2. linked \in BOOLEAN /\ projector \in {"none", "open", "closed"} BY Zenon
  <2>3. placed = {} /\ shed = {} /\ refused = {} OBVIOUS
  <2>4. unclaimed \in BOOLEAN BY Zenon
  <2> QED BY <2>1, <2>2, <2>3, <2>4 DEF DocumentTyped
<1>3. ActorsTyped /\ HandsAreFree
  <2>1. <<>> \in Seq(Lines) OBVIOUS
  <2>2. [pc |-> "none", from |-> 0, at |-> 0, hand |-> <<>>] \in WatcherState
    BY <2>1 DEF WatcherState
  <2>3. [pc |-> "off", stop |-> FALSE, offset |-> 0, hand |-> <<>>] \in FollowerState
    BY <2>1 DEF FollowerState
  <2>4. watcher \in [Hook -> WatcherState] BY <2>2
  <2>5. follower \in [Hook -> FollowerState] BY <2>3
  <2>6. caller \in [Hook -> {"idle", "named", "starts", "done"}] OBVIOUS
  <2> QED BY <2>4, <2>5, <2>6 DEF ActorsTyped, HandsAreFree
<1>4. OneWatcher
  <2>1. \A w \in Hook : watcher[w].pc = "none" OBVIOUS
  <2> QED BY <2>1 DEF OneWatcher, OnDuty
<1>5. Counting
  <2>1. \A i \in Lines : counted[i] = 0 /\ ~(2 * i <= offset) BY DEF Lines, Followers!Line
  <2>2. counted \in [Lines -> Nat] BY DEF Lines
  <2>3. \A w \in Hook : watcher[w].pc = "none" OBVIOUS
  <2> QED BY <2>1, <2>2, <2>3 DEF Counting, Reading
<1>6. Reached BY DEF Reached
<1>7. ChildWorkIsPlaced BY DEF ChildWorkIsPlaced, Followers!ChildWorkIsPlaced
<1> QED BY <1>1, <1>2, <1>3, <1>4, <1>5, <1>6, <1>7 DEF FollowersInv

\* What the three who work on the document leave to each other does not change.
LEMMA CliStep ==
  ASSUME FollowersInv,
         \/ Followers!WritesLine \/ Followers!ChildWritesLine
         \/ \E new \in {"live", "over"} : Followers!setStatus(new)
  PROVE  FollowersInv'
<1> USE DEF Followers!session, Followers!document
<1>1. /\ UNCHANGED <<path, watching, offset, counted, projector, linked, held, placed,
                     shed, refused, unclaimed, caller, watcher, follower>>
      /\ FilesTyped'
      /\ file \in Nat /\ file' \in Nat /\ file <= file'
  BY FollowersAssumption
  DEF FollowersInv, FilesTyped, Followers!WritesLine, Followers!ChildWritesLine,
      Followers!setStatus
<1>2. DocumentTyped' /\ ActorsTyped' /\ HandsAreFree'
  BY <1>1 DEF FollowersInv, DocumentTyped, ActorsTyped, HandsAreFree
<1>3. OneWatcher' BY <1>1 DEF FollowersInv, OneWatcher, OnDuty
<1>4. Counting'
  <2>1. offset' \in 0..file' /\ \A n \in offset..file : n \in offset'..file'
    BY <1>1 DEF FollowersInv, Counting
  <2> QED BY <1>1, <2>1 DEF FollowersInv, Counting
<1>5. Reached' BY <1>1 DEF FollowersInv, Reached
<1>6. ChildWorkIsPlaced'
  <2>1. Somewhere' = Somewhere BY <1>1, SameWork
  <2> QED BY <1>1, <2>1, WorkStays DEF FollowersInv
<1> QED BY <1>1, <1>2, <1>3, <1>4, <1>5, <1>6 DEF FollowersInv

LEMMA HookStep ==
  ASSUME FollowersInv, NEW h \in Hook,
         Followers!HookLooks(h) \/ Followers!SetPath(h)
  PROVE  FollowersInv'
<1> USE DEF Followers!session, Followers!document, Followers!files
<1>1. /\ UNCHANGED <<file, child, heard, watching, offset, counted, projector, linked,
                     held, placed, shed, refused, unclaimed, watcher, follower>>
      /\ path' \in {path, TRUE} /\ caller[h] # "done"
      /\ \E pc \in {"done", "named", "starts"} : caller' = [caller EXCEPT ![h] = pc]
  BY DEF Followers!HookLooks, Followers!SetPath
<1>2. FilesTyped' BY <1>1 DEF FollowersInv, FilesTyped
<1>3. DocumentTyped' /\ HandsAreFree' BY <1>1 DEF FollowersInv, DocumentTyped, HandsAreFree
<1>4. ActorsTyped' BY <1>1 DEF FollowersInv, ActorsTyped
<1>5. OneWatcher'
  <2>1. \A w \in Hook : caller'[w] # "done" => caller[w] # "done"
    BY <1>1 DEF FollowersInv, ActorsTyped
  <2> QED BY <1>1, <2>1 DEF FollowersInv, OneWatcher, OnDuty
<1>6. Counting' /\ Reached' BY <1>1 DEF FollowersInv, Counting, Reached
<1>7. ChildWorkIsPlaced'
  <2>1. Somewhere' = Somewhere BY <1>1, SameWork
  <2> QED BY <1>1, <2>1, WorkStays DEF FollowersInv
<1> QED BY <1>2, <1>3, <1>4, <1>5, <1>6, <1>7 DEF FollowersInv

\* A watcher that only goes on to another place.
LEMMA WatcherGoes ==
  ASSUME FollowersInv, NEW w \in Hook, NEW pc, watcher[w].pc \notin {"place", "release"},
         watcher' = [watcher EXCEPT ![w].pc = pc],
         pc \in {"none", "open", "tick", "stop", "close", "gone"}, linked' = linked, held' = held,
         unclaimed' = unclaimed
  PROVE  /\ watcher' \in [Hook -> WatcherState]
         /\ \A v \in Hook :
              watcher'[v].hand = watcher[v].hand /\ (v # w => watcher'[v] = watcher[v])
         /\ watcher'[w].pc = pc /\ Hands' = Hands /\ Kept' = Kept /\ watcher[w].hand = <<>>
<1>1. watcher \in [Hook -> WatcherState] BY DEF FollowersInv, ActorsTyped
<1>2. watcher' \in [Hook -> WatcherState] /\ watcher'[w].pc = pc BY <1>1 DEF WatcherState
<1>3. \A v \in Hook :
        watcher'[v].hand = watcher[v].hand /\ (v # w => watcher'[v] = watcher[v])
  BY <1>1 DEF WatcherState
<1>4. Hands' = Hands BY <1>3 DEF Hands, Followers!Elements
<1>5. (\A v \in Hook : watcher'[v].pc # "release") <=> (\A v \in Hook : watcher[v].pc # "release")
  BY <1>2, <1>3
<1>6. Kept' = Kept BY <1>5 DEF Kept, Followers!Elements
<1>7. watcher[w].hand = <<>> BY DEF FollowersInv, HandsAreFree
<1> QED BY <1>2, <1>3, <1>4, <1>6, <1>7

\* A hook starts the watcher, the watcher finds no file, or looks at the status.
LEMMA StartStep ==
  ASSUME FollowersInv, NEW h \in Hook, Followers!StartWatcher(h)
  PROVE  FollowersInv'
<1> USE DEF Followers!document, Followers!files
<1>1. /\ UNCHANGED <<file, child, heard, path, offset, counted, projector, linked, held,
                     placed, shed, refused, unclaimed, follower>>
      /\ caller[h] = "starts" /\ caller' = [caller EXCEPT ![h] = "done"]
      /\ watcher[h].pc = "none"
      /\ \/ ~watching /\ watching' = TRUE /\ watcher' = [watcher EXCEPT ![h].pc = "open"]
         \/ UNCHANGED <<watching, watcher>>
  BY DEF FollowersInv, OneWatcher, Followers!StartWatcher, Followers!Goto, Followers!Startable
<1>2. caller' \in [Hook -> {"idle", "named", "starts", "done"}]
      /\ \A w \in Hook : caller'[w] # "done" => caller[w] # "done" /\ w # h
  BY <1>1 DEF FollowersInv, ActorsTyped
<1>3. DocumentTyped' BY <1>1 DEF FollowersInv, DocumentTyped
<1>4. CASE UNCHANGED <<watching, watcher>>
  <2>1. FilesTyped' BY <1>1, <1>4 DEF FollowersInv, FilesTyped
  <2>2. ActorsTyped' /\ HandsAreFree'
    BY <1>1, <1>2, <1>4 DEF FollowersInv, ActorsTyped, HandsAreFree
  <2>3. OneWatcher' BY <1>1, <1>2, <1>4 DEF FollowersInv, OneWatcher, OnDuty
  <2>4. Counting' /\ Reached' BY <1>1, <1>4 DEF FollowersInv, Counting, Reached
  <2>5. Somewhere' = Somewhere BY <1>1, <1>4, SameWork
  <2>6. ChildWorkIsPlaced' BY <1>1, <2>5, WorkStays DEF FollowersInv
  <2> QED BY <1>3, <2>1, <2>2, <2>3, <2>4, <2>6 DEF FollowersInv
<1>5. CASE ~watching /\ watching' = TRUE /\ watcher' = [watcher EXCEPT ![h].pc = "open"]
  <2>1. /\ watcher' \in [Hook -> WatcherState] /\ watcher'[h].pc = "open"
        /\ \A v \in Hook : watcher'[v].hand = watcher[v].hand /\ (v # h => watcher'[v] = watcher[v])
        /\ Hands' = Hands /\ Kept' = Kept /\ watcher[h].hand = <<>>
    BY <1>1, <1>5, WatcherGoes
  <2>2. watching' \in BOOLEAN BY <1>5
  <2>3. FilesTyped' BY <1>1, <2>2 DEF FollowersInv, FilesTyped
  <2>4. ActorsTyped' BY <1>1, <1>2, <2>1 DEF FollowersInv, ActorsTyped
  <2>5. HandsAreFree' BY <1>1, <2>1 DEF FollowersInv, HandsAreFree
  <2>6. \A v \in Hook : ~OnDuty(v) BY <1>5 DEF FollowersInv, OneWatcher
  <2>7. OneWatcher' BY <1>1, <1>2, <1>5, <2>1, <2>6 DEF FollowersInv, OneWatcher, OnDuty
  <2>8. Counting' BY <1>1, <2>1 DEF FollowersInv, Counting, Reading
  <2>9. Reached' BY <1>1, <2>1 DEF FollowersInv, Reached
  <2>10. ChildWorkIsPlaced' BY <1>1, <2>1, WorkStays DEF FollowersInv, Somewhere
  <2> QED BY <1>3, <2>3, <2>4, <2>5, <2>7, <2>8, <2>9, <2>10 DEF FollowersInv
<1> QED BY <1>1, <1>4, <1>5

\* What the session and the hooks know when one watcher on duty goes on.
LEMMA DutyGoesOn ==
  ASSUME FollowersInv, NEW w \in Hook, OnDuty(w), caller' = caller,
         \A v \in Hook : v # w => watcher'[v] = watcher[v],
         \/ watching' = watching
         \/ watcher'[w].pc = "gone"
  PROVE  OneWatcher' /\ \A v \in Hook : v # w => ~OnDuty(v)
<1>1. \A v \in Hook : v # w => ~OnDuty(v) BY DEF FollowersInv, OneWatcher
<1>2. \A v \in Hook : v # w => ~OnDuty(v)' BY <1>1 DEF OnDuty
<1>3. caller[w] = "done" /\ watching BY DEF FollowersInv, OneWatcher, OnDuty
<1>4. OnDuty(w)' => watching' BY <1>3 DEF OnDuty
<1>5. \A v \in Hook : caller'[v] # "done" => watcher'[v].pc = "none"
  BY <1>3 DEF FollowersInv, OneWatcher
<1> QED BY <1>1, <1>2, <1>4, <1>5 DEF OneWatcher

\* The watcher opens, gives up, stops its follower, or leaves.
LEMMA EndsStep ==
  ASSUME FollowersInv, NEW w \in Hook,
         \/ Followers!Open(w) \/ Followers!NeverOpens(w) \/ Followers!StopFollower(w)
         \/ Followers!Leave(w)
  PROVE  FollowersInv'
<1> USE DEF Followers!session, Followers!document, Followers!files, Followers!Goto
<1>1. /\ UNCHANGED <<file, child, heard, path, offset, counted, linked, held, placed,
                     shed, refused, unclaimed, caller>>
      /\ watcher[w].pc \in {"open", "stop", "close"}
  BY DEF Followers!Open, Followers!NeverOpens, Followers!StopFollower, Followers!Leave
<1>2. PICK pc \in {"tick", "gone", "close"} : watcher' = [watcher EXCEPT ![w].pc = pc]
  BY DEF Followers!Open, Followers!NeverOpens, Followers!StopFollower, Followers!Leave
<1>3. /\ watcher' \in [Hook -> WatcherState] /\ watcher'[w].pc = pc
      /\ \A v \in Hook : watcher'[v].hand = watcher[v].hand /\ (v # w => watcher'[v] = watcher[v])
      /\ Hands' = Hands /\ Kept' = Kept /\ watcher[w].hand = <<>>
  BY <1>1, <1>2, WatcherGoes
<1>4. watching' = watching \/ (watching' = FALSE /\ pc = "gone")
  <2>1. CASE Followers!Open(w) \/ Followers!StopFollower(w)
    <3>1. watching' = watching BY <2>1 DEF Followers!Open, Followers!StopFollower
    <3> QED BY <3>1, Zenon
  <2>2. CASE Followers!NeverOpens(w)
    <3>1. watcher' = [watcher EXCEPT ![w].pc = "gone"] /\ watching' = FALSE
      BY <2>2 DEF Followers!NeverOpens
    <3>2. watcher'[w].pc = "gone" BY <3>1 DEF FollowersInv, ActorsTyped, WatcherState
    <3> QED BY <1>3, <3>1, <3>2
  <2>3. CASE Followers!Leave(w)
    <3>1. watcher' = [watcher EXCEPT ![w].pc = "gone"] /\ watching' = FALSE
      BY <2>3 DEF Followers!Leave
    <3>2. watcher'[w].pc = "gone" BY <3>1 DEF FollowersInv, ActorsTyped, WatcherState
    <3> QED BY <1>3, <3>1, <3>2
  <2> QED BY <2>1, <2>2, <2>3
<1>5. /\ follower' \in [Hook -> FollowerState]
      /\ \A v \in Hook :
           /\ follower'[v].hand = follower[v].hand /\ follower'[v].offset = follower[v].offset
           /\ v # w => follower'[v] = follower[v]
           /\ follower'[v].pc \in {"off", "tick"} => follower[v].pc \in {"off", "tick"}
  <2> USE DEF FollowersInv, ActorsTyped, FollowerState
  <2>1. CASE Followers!Open(w)
    <3>1. follower' = [follower EXCEPT ![w].pc = "tick"] /\ watcher[w].pc = "open"
      BY <2>1 DEF Followers!Open
    <3>2. follower[w].pc = "off" BY <3>1 DEF Reached
    <3> QED BY <3>1, <3>2
  <2>2. CASE Followers!StopFollower(w)
    <3>1. follower' = [follower EXCEPT ![w].stop = TRUE] BY <2>2 DEF Followers!StopFollower
    <3> QED BY <3>1
  <2>3. CASE Followers!NeverOpens(w) \/ Followers!Leave(w)
    <3>1. follower' = follower BY <2>3 DEF Followers!NeverOpens, Followers!Leave
    <3> QED BY <3>1
  <2> QED BY <2>1, <2>2, <2>3
<1>6. /\ projector' \in {"none", "open", "closed"}
      /\ projector' = "none" =>
           projector = "none" /\ \A v \in Hook : follower'[v].pc = follower[v].pc
      /\ projector' = "open" => projector \in {"none", "open"}
  <2>1. projector \in {"none", "open", "closed"} BY DEF FollowersInv, DocumentTyped
  <2>2. CASE Followers!Open(w) BY <2>1, <2>2 DEF Followers!Open
  <2>3. CASE Followers!StopFollower(w)
    <3>1. projector' = projector /\ follower' = [follower EXCEPT ![w].stop = TRUE]
      BY <2>3 DEF Followers!StopFollower
    <3>2. \A v \in Hook : follower'[v].pc = follower[v].pc
      BY <3>1 DEF FollowersInv, ActorsTyped, FollowerState
    <3> QED BY <2>1, <3>1, <3>2
  <2>4. CASE Followers!NeverOpens(w) BY <2>1, <2>4 DEF Followers!NeverOpens
  <2>5. CASE Followers!Leave(w) BY <2>5 DEF Followers!Leave
  <2> QED BY <2>2, <2>3, <2>4, <2>5
<1>7. FilesTyped'
  <2>1. watching' \in BOOLEAN BY <1>4 DEF FollowersInv, FilesTyped
  <2> QED BY <1>1, <2>1 DEF FollowersInv, FilesTyped
<1>8. DocumentTyped' BY <1>1, <1>6 DEF FollowersInv, DocumentTyped
<1>9. ActorsTyped' BY <1>1, <1>3, <1>5 DEF FollowersInv, ActorsTyped
<1>10. HandsAreFree' BY <1>3, <1>5 DEF FollowersInv, HandsAreFree
<1>11. OneWatcher'
  <2>1. OnDuty(w) BY <1>1 DEF OnDuty
  <2> QED BY <1>1, <1>3, <1>4, <2>1, DutyGoesOn
<1>12. Counting' BY <1>1, <1>3 DEF FollowersInv, Counting, Reading
<1>13. Reached'
  <2>1. \A v \in Hook : watcher'[v].pc \in {"none", "open"} => v # w BY <1>3
  <2> QED BY <1>3, <1>5, <1>6, <2>1 DEF FollowersInv, Reached
<1>14. ChildWorkIsPlaced'
  <2>1. Somewhere' = Somewhere BY <1>1, <1>3 DEF Somewhere
  <2>2. CASE projector = "none"
    <3>1. \A v \in Hook : follower'[v].offset = 0 BY <1>5, <2>2 DEF FollowersInv, Reached
    <3> QED BY <3>1 DEF ChildWorkIsPlaced, Followers!ChildWorkIsPlaced
  <2>3. CASE projector # "none" BY <1>5, <1>6, <2>1, <2>3, WorkStays DEF FollowersInv
  <2> QED BY <2>2, <2>3
<1> QED BY <1>7, <1>8, <1>9, <1>10, <1>11, <1>12, <1>13, <1>14 DEF FollowersInv

\* A watcher on duty goes on; the document and the others stay as they are.
LEMMA WatcherSteps ==
  ASSUME FollowersInv, NEW w \in Hook, OnDuty(w),
         UNCHANGED <<file, child, heard, path, watching, projector, caller, follower, shed>>,
         watcher' \in [Hook -> WatcherState],
         \A v \in Hook : v # w => watcher'[v] = watcher[v],
         watcher'[w].pc \notin {"none", "open"},
         watcher'[w].pc # "place" => watcher'[w].hand = <<>>,
         DocumentTyped', Counting', Somewhere \subseteq Somewhere'
  PROVE  FollowersInv'
<1>1. FilesTyped' BY DEF FollowersInv, FilesTyped
<1>2. ActorsTyped' BY DEF FollowersInv, ActorsTyped
<1>3. HandsAreFree' BY DEF FollowersInv, HandsAreFree
<1>4. OneWatcher' BY DutyGoesOn
<1>5. Reached'
  <2>1. \A v \in Hook : watcher'[v].pc \in {"none", "open"} => v # w OBVIOUS
  <2> QED BY <2>1 DEF FollowersInv, Reached
<1>6. ChildWorkIsPlaced' BY WorkStays DEF FollowersInv
<1> QED BY <1>1, <1>2, <1>3, <1>4, <1>5, <1>6 DEF FollowersInv

\* What was in another hand is there still.
LEMMA HandsKept ==
  ASSUME NEW w \in Hook, \A v \in Hook : v # w => watcher'[v] = watcher[v]
  PROVE  /\ Hands \subseteq Hands' \cup Followers!Elements(watcher[w].hand)
         /\ Followers!Elements(watcher'[w].hand) \subseteq Hands'
<1>1. Hands' = UNION {Followers!Elements(watcher'[v].hand) : v \in Hook}
  BY DEF Hands, Followers!Elements
<1>2. Followers!Elements(watcher'[w].hand) \subseteq Hands' BY <1>1
<1>3. \A v \in Hook \ {w} : Followers!Elements(watcher[v].hand) \subseteq Hands' BY <1>1
<1> QED BY <1>2, <1>3 DEF Hands

LEMMA TickStep ==
  ASSUME FollowersInv, NEW w \in Hook, Followers!Tick(w)
  PROVE  FollowersInv'
<1> USE DEF Followers!session, Followers!document, Followers!files
<1>1. /\ UNCHANGED <<file, child, heard, path, watching, offset, counted, projector, linked, held,
                     placed, shed, refused, unclaimed, caller, follower>>
      /\ watcher[w].pc = "tick" /\ OnDuty(w)
      /\ watcher' = [watcher EXCEPT ![w].pc = "stop"]
           \/ watcher' = [watcher EXCEPT ![w].pc = "read", ![w].from = offset, ![w].at = offset]
  BY DEF Followers!Tick, Followers!Goto, OnDuty
<1>2. watcher[w].hand = <<>> BY <1>1 DEF FollowersInv, HandsAreFree
<1>3. /\ watcher' \in [Hook -> WatcherState]
      /\ \A v \in Hook : v # w => watcher'[v] = watcher[v]
      /\ \A v \in Hook : watcher'[v].hand = watcher[v].hand
      /\ \/ watcher'[w].pc = "stop"
         \/ watcher'[w].pc = "read" /\ watcher'[w].from = offset /\ watcher'[w].at = offset
  <2>1. offset \in Nat BY DEF FollowersInv, Counting
  <2>2. CASE watcher' = [watcher EXCEPT ![w].pc = "stop"]
    BY <2>2 DEF FollowersInv, ActorsTyped, WatcherState
  <2>3. CASE watcher' = [watcher EXCEPT ![w].pc = "read", ![w].from = offset, ![w].at = offset]
    BY <2>1, <2>3 DEF FollowersInv, ActorsTyped, WatcherState
  <2> QED BY <1>1, <2>2, <2>3
<1>4. Hands' = Hands
  <2>1. Hands' = UNION {Followers!Elements(watcher'[v].hand) : v \in Hook}
    BY DEF Hands, Followers!Elements
  <2> QED BY <1>3, <2>1 DEF Hands
<1>5. Somewhere \subseteq Somewhere'
  <2>1. (\A v \in Hook : watcher[v].pc # "release") => \A v \in Hook : watcher'[v].pc # "release"
    BY <1>3
  <2>2. (\A v \in Hook : watcher'[v].pc # "release") => \A v \in Hook : watcher[v].pc # "release"
    BY <1>1, <1>3
  <2>3. Kept' = Kept BY <1>1, <2>1, <2>2 DEF Kept, Followers!Elements
  <2> QED BY <1>1, <1>4, <2>3 DEF Somewhere
<1>6. DocumentTyped' BY <1>1 DEF FollowersInv, DocumentTyped
<1>7. Counting'
  <2>1. \A v \in Hook : watcher'[v].pc \in Reading =>
          watcher'[v].from = offset /\ watcher'[v].at \in offset..file /\ watcher'[v].at % 2 = 0
    BY <1>3 DEF FollowersInv, Counting, Reading
  <2> QED BY <1>1, <2>1 DEF FollowersInv, Counting
<1> QED BY <1>1, <1>2, <1>3, <1>5, <1>6, <1>7, WatcherSteps

LEMMA ReadLineStep ==
  ASSUME FollowersInv, NEW w \in Hook, Followers!ReadLine(w)
  PROVE  FollowersInv'
<1> USE DEF Followers!session, Followers!files
<1> DEFINE at == watcher[w].at
           i == at \div 2 + 1
           names == at % 2 = 0 /\ i = Link /\ projector = "open" /\ ~linked
<1>1. /\ UNCHANGED <<file, child, heard, path, watching, offset, counted, projector, held, placed,
                     shed, refused, caller, follower>>
      /\ watcher[w].pc = "read" /\ OnDuty(w) /\ 2 * i <= file
      /\ \E open \in BOOLEAN :
           /\ watcher' = [watcher EXCEPT ![w].at = 2 * i,
                                         ![w].pc = IF names /\ open THEN "release" ELSE "read"]
           /\ linked' = (linked \/ (names /\ open))
           /\ unclaimed' = (unclaimed \/ (names /\ ~open))
  BY DEF Followers!ReadLine, Followers!AfterLinking, OnDuty
<1>2. /\ watcher[w].hand = <<>> /\ at \in offset..file /\ at % 2 = 0 /\ offset \in Nat
      /\ file \in 0..2 * MaxLine /\ watcher[w].from = offset
  BY <1>1 DEF FollowersInv, HandsAreFree, Counting, Reading, FilesTyped
<1>3. 2 * i \in offset..file /\ (2 * i) % 2 = 0 /\ 2 * i \in Nat /\ i \in Lines
  <2>1. at \in Nat /\ at % 2 = 0 /\ at >= offset /\ i = at \div 2 + 1 BY <1>2
  <2> HIDE DEF at, i
  <2>2. i \in Nat /\ i > 0 /\ 2 * i = at + 2 BY <2>1
  <2>3. (2 * i) % 2 = 0 BY <2>2
  <2>4. 2 * i <= file /\ MaxLine \in Nat /\ file \in Nat /\ file <= 2 * MaxLine /\ offset \in Nat
    BY <1>1, <1>2, FollowersAssumption
  <2>5. i <= MaxLine BY <2>2, <2>4
  <2> QED BY <2>1, <2>2, <2>3, <2>4, <2>5 DEF Lines, Followers!Line
<1>4. PICK open \in BOOLEAN :
        /\ watcher' = [watcher EXCEPT ![w].at = 2 * i,
                                      ![w].pc = IF names /\ open THEN "release" ELSE "read"]
        /\ linked' = (linked \/ (names /\ open))
        /\ unclaimed' = (unclaimed \/ (names /\ ~open))
  BY <1>1
<1>5. PICK to : to = 2 * i OBVIOUS
<1>6. PICK pc : pc = IF names /\ open THEN "release" ELSE "read" OBVIOUS
<1>7. /\ linked' \in BOOLEAN /\ unclaimed' \in BOOLEAN /\ linked' = (linked \/ pc = "release")
      /\ (pc = "release" => ~linked) /\ pc \in {"release", "read"}
      /\ unclaimed' # unclaimed => ~linked /\ ~linked'
  BY <1>4, <1>6 DEF FollowersInv, DocumentTyped
<1>8. watcher' = [watcher EXCEPT ![w].at = to, ![w].pc = pc] /\ to \in offset..file /\ to % 2 = 0
      /\ to \in Nat
  BY <1>1, <1>3, <1>4, <1>5, <1>6
<1> HIDE DEF at, i, names
<1>9. /\ watcher' \in [Hook -> WatcherState]
      /\ \A v \in Hook : v # w => watcher'[v] = watcher[v]
      /\ \A v \in Hook : watcher'[v].hand = watcher[v].hand
      /\ watcher'[w].pc = pc /\ watcher'[w].from = offset /\ watcher'[w].at = to
  BY <1>2, <1>7, <1>8 DEF FollowersInv, ActorsTyped, WatcherState
<1>10. Hands' = Hands
  <2>1. Hands' = UNION {Followers!Elements(watcher'[v].hand) : v \in Hook}
    BY DEF Hands, Followers!Elements
  <2> QED BY <1>9, <2>1 DEF Hands
<1>11. Kept' = Kept
  <2>1. CASE pc = "release"
    <3>1. Kept = Followers!Elements(held) BY <1>7, <2>1 DEF Kept
    <3>2. Kept' = Followers!Elements(held) BY <1>1, <1>9, <2>1 DEF Kept, Followers!Elements
    <3> QED BY <3>1, <3>2
  <2>2. CASE pc = "read"
    <3>1. linked' <=> linked BY <1>7, <2>2
    <3>2. (\A v \in Hook : watcher'[v].pc # "release")
            <=> (\A v \in Hook : watcher[v].pc # "release")
      BY <1>1, <1>9, <2>2
    <3>3. unclaimed' # unclaimed => ~linked /\ ~linked' BY <1>7
    <3>4. CASE unclaimed' = unclaimed
      BY <1>1, <3>1, <3>2, <3>4 DEF Kept, Followers!Elements
    <3>5. CASE unclaimed' # unclaimed
      BY <1>1, <3>3, <3>5 DEF Kept, Followers!Elements
    <3> QED BY <3>4, <3>5
  <2> QED BY <1>7, <2>1, <2>2
<1>12. Somewhere \subseteq Somewhere' BY <1>1, <1>10, <1>11 DEF Somewhere
<1>13. DocumentTyped' BY <1>1, <1>7 DEF FollowersInv, DocumentTyped
<1>14. Counting'
  <2>1. \A v \in Hook : watcher'[v].pc \in Reading =>
          watcher'[v].from = offset /\ watcher'[v].at \in offset..file /\ watcher'[v].at % 2 = 0
    BY <1>8, <1>9 DEF FollowersInv, Counting, Reading
  <2> QED BY <1>1, <2>1 DEF FollowersInv, Counting
<1> QED BY <1>1, <1>2, <1>7, <1>9, <1>12, <1>13, <1>14, WatcherSteps

LEMMA ReleaseStep ==
  ASSUME FollowersInv, NEW w \in Hook, Followers!Release(w)
  PROVE  FollowersInv'
<1> USE DEF Followers!session, Followers!files
<1>1. /\ UNCHANGED <<file, child, heard, path, watching, offset, counted, projector, linked, placed,
                     shed, refused, unclaimed, caller, follower>>
      /\ watcher[w].pc = "release" /\ OnDuty(w) /\ held' = <<>>
      /\ watcher' = [watcher EXCEPT ![w].pc = "place", ![w].hand = held]
  BY DEF Followers!Release, OnDuty
<1>2. held \in Seq(Lines) /\ watcher[w].hand = <<>>
  BY <1>1 DEF FollowersInv, DocumentTyped, HandsAreFree
<1>3. /\ watcher' \in [Hook -> WatcherState]
      /\ \A v \in Hook : v # w => watcher'[v] = watcher[v]
      /\ watcher'[w].pc = "place" /\ watcher'[w].hand = held
      /\ watcher'[w].from = watcher[w].from /\ watcher'[w].at = watcher[w].at
  BY <1>1, <1>2 DEF FollowersInv, ActorsTyped, WatcherState
<1>4. Somewhere \subseteq Somewhere'
  <2>1. Followers!Elements(watcher[w].hand) = {} BY <1>2 DEF Followers!Elements
  <2>2. Hands \subseteq Hands' /\ Followers!Elements(held) \subseteq Hands'
    BY <1>3, <2>1, HandsKept
  <2>3. Kept \subseteq Followers!Elements(held) BY DEF Kept
  <2> QED BY <1>1, <2>2, <2>3 DEF Somewhere
<1>5. DocumentTyped'
  <2>1. held' \in Seq(Lines) /\ Len(held') <= MaxHeld BY <1>1, FollowersAssumption
  <2> QED BY <1>1, <2>1 DEF FollowersInv, DocumentTyped
<1>6. Counting'
  <2>1. \A v \in Hook : watcher'[v].pc \in Reading =>
          watcher'[v].from = offset /\ watcher'[v].at \in offset..file /\ watcher'[v].at % 2 = 0
    BY <1>1, <1>3 DEF FollowersInv, Counting, Reading
  <2> QED BY <1>1, <2>1 DEF FollowersInv, Counting
<1> QED BY <1>1, <1>3, <1>4, <1>5, <1>6, WatcherSteps

LEMMA PlaceHeldStep ==
  ASSUME FollowersInv, NEW w \in Hook, Followers!PlaceHeld(w)
  PROVE  FollowersInv'
<1> USE DEF Followers!session, Followers!files
<1> DEFINE hand == watcher[w].hand
<1>1. /\ UNCHANGED <<file, child, heard, path, watching, offset, counted, projector, linked, held,
                     shed, unclaimed, caller, follower>>
      /\ watcher[w].pc = "place" /\ OnDuty(w)
      /\ \/ /\ hand = <<>> /\ watcher' = [watcher EXCEPT ![w].pc = "read"]
            /\ placed' = placed /\ refused' = refused
         \/ /\ hand # <<>> /\ Followers!Place(Head(hand))
            /\ watcher' = [watcher EXCEPT ![w].hand = Tail(@)]
  BY DEF Followers!PlaceHeld, Followers!Goto, OnDuty
<1>2. hand \in Seq(Lines) BY DEF FollowersInv, ActorsTyped, WatcherState
<1>3. PICK rest \in Seq(Lines) :
        /\ watcher' \in [Hook -> WatcherState]
        /\ \A v \in Hook : v # w => watcher'[v] = watcher[v]
        /\ watcher'[w].pc \in {"place", "read"} /\ watcher'[w].hand = rest
        /\ watcher'[w].pc = "read" => rest = <<>>
        /\ watcher'[w].from = watcher[w].from /\ watcher'[w].at = watcher[w].at
        /\ placed' \subseteq Lines /\ refused' \subseteq Lines
        /\ placed \cup refused \cup Followers!Elements(hand)
             \subseteq placed' \cup refused' \cup Followers!Elements(rest)
  <2>1. placed \subseteq Lines /\ refused \subseteq Lines BY DEF FollowersInv, DocumentTyped
  <2>2. CASE hand = <<>>
    <3>1. /\ watcher' = [watcher EXCEPT ![w].pc = "read"]
          /\ placed' = placed /\ refused' = refused
      BY <1>1, <2>2
    <3>2. watcher' \in [Hook -> WatcherState] /\ watcher'[w].hand = hand
      BY <3>1 DEF FollowersInv, ActorsTyped, WatcherState
    <3> QED BY <1>2, <2>1, <2>2, <3>1, <3>2 DEF FollowersInv, ActorsTyped, WatcherState
  <2>3. CASE hand # <<>>
    <3>1. /\ watcher' = [watcher EXCEPT ![w].hand = Tail(hand)]
          /\ placed' \cup refused' = placed \cup refused \cup {Head(hand)}
      BY <1>1, <2>3 DEF Followers!Place
    <3>2. /\ Tail(hand) \in Seq(Lines) /\ Head(hand) \in Lines
          /\ Followers!Elements(hand) = {Head(hand)} \cup Followers!Elements(Tail(hand))
      BY <1>2, <2>3, TakenElements
    <3>3. PICK rest \in Seq(Lines) : rest = Tail(hand) BY <3>2
    <3>4. watcher' = [watcher EXCEPT ![w].hand = rest] BY <3>1, <3>3
    <3>5. /\ watcher' \in [Hook -> WatcherState] /\ watcher'[w].hand = rest
          /\ watcher'[w].pc = "place"
          /\ watcher'[w].from = watcher[w].from /\ watcher'[w].at = watcher[w].at
          /\ \A v \in Hook : v # w => watcher'[v] = watcher[v]
      BY <1>1, <3>4 DEF FollowersInv, ActorsTyped, WatcherState
    <3> QED BY <2>1, <3>1, <3>2, <3>3, <3>5
  <2> QED BY <2>2, <2>3
<1>4. Somewhere \subseteq Somewhere'
  <2>1. /\ Hands \subseteq Hands' \cup Followers!Elements(hand)
        /\ Followers!Elements(rest) \subseteq Hands'
    BY <1>3, HandsKept
  <2>2. (\A v \in Hook : watcher[v].pc # "release") => \A v \in Hook : watcher'[v].pc # "release"
    BY <1>3
  <2>3. (\A v \in Hook : watcher'[v].pc # "release") => \A v \in Hook : watcher[v].pc # "release"
    BY <1>1, <1>3
  <2>4. Kept' = Kept BY <1>1, <2>2, <2>3 DEF Kept, Followers!Elements
  <2> QED BY <1>1, <1>3, <2>1, <2>4 DEF Somewhere
<1>5. DocumentTyped' BY <1>1, <1>3 DEF FollowersInv, DocumentTyped
<1>6. Counting'
  <2>1. \A v \in Hook : watcher'[v].pc \in Reading =>
          watcher'[v].from = offset /\ watcher'[v].at \in offset..file /\ watcher'[v].at % 2 = 0
    BY <1>1, <1>3 DEF FollowersInv, Counting, Reading
  <2> QED BY <1>1, <2>1 DEF FollowersInv, Counting
<1> QED BY <1>1, <1>3, <1>4, <1>5, <1>6, WatcherSteps

\* The lines between the offset and where the watcher stands are counted, and no other.
LEMMA CommitStep ==
  ASSUME FollowersInv, NEW w \in Hook, Followers!Commit(w)
  PROVE  FollowersInv'
<1> USE DEF Followers!document, Followers!files
<1> DEFINE from == watcher[w].from
           at == watcher[w].at
           read == {i \in Lines : from % 2 = 0 /\ 2 * i - 2 >= from /\ 2 * i <= at}
<1>1. /\ UNCHANGED <<file, child, heard, path, watching, projector, linked, held, placed,
                     shed, refused, unclaimed, caller, follower>>
      /\ watcher[w].pc = "read" /\ OnDuty(w)
      /\ watcher' = [watcher EXCEPT ![w].pc = "tick"]
      /\ offset' = offset + (at - from)
      /\ counted' = [i \in Lines |-> counted[i] + (IF i \in read THEN 1 ELSE 0)]
  BY DEF Followers!Commit, Followers!Goto, Followers!ReadTo, OnDuty, Lines
<1>2. /\ watcher[w].hand = <<>> /\ at \in offset..file /\ at % 2 = 0 /\ offset \in Nat
      /\ offset % 2 = 0 /\ from = offset /\ file \in Nat
      /\ \A i \in Lines : counted[i] = IF 2 * i <= offset THEN 1 ELSE 0
  BY <1>1 DEF FollowersInv, HandsAreFree, Counting, Reading, FilesTyped
<1>3. offset' = at /\ at \in Nat BY <1>1, <1>2
<1>4. ASSUME NEW i \in Lines
      PROVE  counted'[i] \in Nat /\ counted'[i] = IF 2 * i <= offset' THEN 1 ELSE 0
  <2>1. i \in Nat /\ counted'[i] = counted[i] + (IF i \in read THEN 1 ELSE 0)
    BY <1>1 DEF Lines, Followers!Line
  <2>2. i \in read <=> (2 * i > offset /\ 2 * i <= at)
    <3>1. from % 2 = 0 /\ from = offset /\ at \in Nat BY <1>2, <1>3
    <3>2. offset % 2 = 0 => (2 * i - 2 >= offset <=> 2 * i > offset) BY <1>2, <2>1
    <3>3. i \in read <=> (from % 2 = 0 /\ 2 * i - 2 >= from /\ 2 * i <= at) OBVIOUS
    <3> HIDE DEF read, from, at
    <3> QED BY <1>2, <3>1, <3>2, <3>3
  <2> HIDE DEF read, at
  <2>3. CASE 2 * i <= offset BY <1>2, <1>3, <2>1, <2>2, <2>3
  <2>4. CASE ~(2 * i <= offset) BY <1>2, <1>3, <2>1, <2>2, <2>4
  <2> QED BY <2>3, <2>4
<1>5. counted' \in [Lines -> Nat]
  <2> HIDE DEF read
  <2> QED BY <1>1, <1>4
<1>6. /\ watcher' \in [Hook -> WatcherState] /\ watcher'[w].pc = "tick"
      /\ \A v \in Hook : v # w => watcher'[v] = watcher[v]
      /\ \A v \in Hook : watcher'[v].hand = watcher[v].hand
  BY <1>1 DEF FollowersInv, ActorsTyped, WatcherState
<1>7. Somewhere \subseteq Somewhere'
  <2>1. Hands' = UNION {Followers!Elements(watcher'[v].hand) : v \in Hook}
    BY DEF Hands, Followers!Elements
  <2>2. Hands' = Hands BY <1>6, <2>1 DEF Hands
  <2>3. (\A v \in Hook : watcher[v].pc # "release") => \A v \in Hook : watcher'[v].pc # "release"
    BY <1>6
  <2>4. (\A v \in Hook : watcher'[v].pc # "release") => \A v \in Hook : watcher[v].pc # "release"
    BY <1>1, <1>6
  <2>5. Kept' = Kept BY <1>1, <2>3, <2>4 DEF Kept, Followers!Elements
  <2> QED BY <1>1, <2>2, <2>5 DEF Somewhere
<1>8. DocumentTyped' BY <1>1 DEF FollowersInv, DocumentTyped
<1>9. Counting'
  <2>1. offset' \in 0..file' /\ offset' % 2 = 0
    <3>1. file' = file /\ offset' = at /\ at % 2 = 0 BY <1>1, <1>2, <1>3
    <3>2. at \in 0..file BY <1>2
    <3> HIDE DEF at
    <3> QED BY <3>1, <3>2
  <2>2. \A v \in Hook : watcher'[v].pc \notin Reading
    <3>1. \A v \in Hook : v # w => ~OnDuty(v) BY <1>1, <1>6, DutyGoesOn
    <3> QED BY <1>6, <3>1 DEF OnDuty, Reading
  <2> QED BY <1>4, <1>5, <2>1, <2>2 DEF Counting
<1> QED BY <1>1, <1>2, <1>6, <1>7, <1>8, <1>9, WatcherSteps

\* A follower goes on; the files, the hooks and the watchers stay as they are.
LEMMA FollowerSteps ==
  ASSUME FollowersInv, NEW w \in Hook, follower[w].pc # "off",
         UNCHANGED <<file, child, heard, path, watching, offset, counted, projector, linked, caller,
                     watcher>>,
         follower' \in [Hook -> FollowerState],
         \A v \in Hook : v # w => follower'[v] = follower[v],
         follower'[w].pc \in {"off", "tick"} => follower'[w].hand = <<>>,
         DocumentTyped', ChildWorkIsPlaced'
  PROVE  FollowersInv'
<1>1. FilesTyped' BY DEF FollowersInv, FilesTyped
<1>2. ActorsTyped' BY DEF FollowersInv, ActorsTyped
<1>3. HandsAreFree' BY DEF FollowersInv, HandsAreFree
<1>4. OneWatcher' BY DEF FollowersInv, OneWatcher, OnDuty
<1>5. Counting' BY DEF FollowersInv, Counting
<1>6. Reached'
  <2>1. watcher[w].pc \notin {"none", "open"} /\ projector # "none" BY DEF FollowersInv, Reached
  <2> QED BY <2>1 DEF FollowersInv, Reached
<1> QED BY <1>1, <1>2, <1>3, <1>4, <1>5, <1>6 DEF FollowersInv

LEMMA SweepStep ==
  ASSUME FollowersInv, NEW w \in Hook, Followers!Sweep(w)
  PROVE  FollowersInv'
<1> USE DEF Followers!session, Followers!files, Followers!document
<1> DEFINE from == follower[w].offset
           to == Followers!SweptTo(w)
<1>1. /\ UNCHANGED <<file, child, heard, path, watching, offset, counted, projector, linked, held,
                     placed, shed, refused, unclaimed, caller, watcher>>
      /\ follower[w].pc = "tick" /\ child \div 2 > from
      /\ follower' = [follower EXCEPT ![w].pc = "ingest", ![w].offset = to,
                                      ![w].hand = Followers!LinesIn(from, to)]
  BY DEF Followers!Sweep, Followers!SweptTo
<1>2. from \in Nat /\ child \in 0..2 * MaxLine /\ follower[w].hand = <<>>
  BY <1>1 DEF FollowersInv, ActorsTyped, FollowerState, FilesTyped, HandsAreFree
<1>3. to \in Nat /\ from <= to /\ to <= MaxLine
  BY <1>1, <1>2, FollowersAssumption DEF Followers!SweptTo, Followers!Lower
<1> HIDE DEF from, to
<1>4. PICK hand \in Seq(Lines) :
        hand = Followers!LinesIn(from, to) /\ Followers!Elements(hand) = from + 1..to
  BY <1>2, <1>3, LinesBetween
<1>5. follower' = [follower EXCEPT ![w].pc = "ingest", ![w].offset = to, ![w].hand = hand]
  BY <1>1, <1>4
<1>6. /\ follower' \in [Hook -> FollowerState]
      /\ \A v \in Hook : v # w => follower'[v] = follower[v]
      /\ follower'[w].pc = "ingest" /\ follower'[w].offset = to /\ follower'[w].hand = hand
  BY <1>3, <1>5 DEF FollowersInv, ActorsTyped, FollowerState
<1>7. DocumentTyped' BY <1>1 DEF FollowersInv, DocumentTyped
<1>8. ChildWorkIsPlaced'
  <2> SUFFICES ASSUME projector' = "open", NEW v \in Hook
               PROVE  1..follower'[v].offset \subseteq
                        Somewhere' \cup Followers!Elements(follower'[v].hand)
    BY PlacedIs DEF Placed, Followers!Elements
  <2>1. 1..follower[v].offset \subseteq Somewhere \cup Followers!Elements(follower[v].hand)
    BY <1>1, PlacedIs DEF FollowersInv, Placed
  <2>2. Somewhere' = Somewhere BY <1>1, SameWork
  <2>3. CASE v # w
    <3>1. follower'[v] = follower[v] BY <1>6, <2>3
    <3> QED BY <1>1, <2>1, <2>2, <3>1
  <2>4. CASE v = w
    <3>1. 1..from \subseteq Somewhere
      BY <1>2, <2>1, <2>4 DEF Followers!Elements, from
    <3>2. 1..to \subseteq (1..from) \cup (from + 1..to) BY <1>2, <1>3
    <3>3. Followers!Elements(follower'[v].hand) = from + 1..to /\ follower'[v].offset = to
      BY <1>4, <1>6, <2>4
    <3> QED BY <1>1, <2>2, <3>1, <3>2, <3>3
  <2> QED BY <2>3, <2>4
<1> QED BY <1>1, <1>6, <1>7, <1>8, FollowerSteps

LEMMA IngestStep ==
  ASSUME FollowersInv, NEW w \in Hook, Followers!IngestSubagent(w)
  PROVE  FollowersInv'
<1> USE DEF Followers!session, Followers!files
<1> DEFINE hand == follower[w].hand
           kept == held \o hand
           excess == IF Len(kept) > MaxHeld THEN Len(kept) - MaxHeld ELSE 0
           holds == projector = "open" /\ ~linked
<1>1. /\ UNCHANGED <<file, child, heard, path, watching, offset, counted, projector, linked, placed,
                     refused, unclaimed, caller, watcher>>
      /\ follower[w].pc = "ingest"
      /\ follower' = IF projector = "open" /\ linked
                       THEN [follower EXCEPT ![w].pc = "place"]
                       ELSE [follower EXCEPT ![w].pc = "tick", ![w].hand = <<>>]
      /\ held' = IF holds THEN SubSeq(kept, excess + 1, Len(kept)) ELSE held
      /\ shed' = IF holds THEN shed \cup {kept[k] : k \in 1..excess} ELSE shed
  BY DEF Followers!IngestSubagent
<1>2. hand \in Seq(Lines) /\ held \in Seq(Lines) /\ Len(held) <= MaxHeld /\ linked \in BOOLEAN
  BY DEF FollowersInv, ActorsTyped, FollowerState, DocumentTyped
<1>3. Hands' = Hands
  <2>1. Hands' = UNION {Followers!Elements(watcher'[v].hand) : v \in Hook}
    BY DEF Hands, Followers!Elements
  <2>2. watcher' = watcher BY <1>1
  <2> QED BY <2>1, <2>2 DEF Hands
<1>4. CASE projector = "open" /\ linked
  <2>1. /\ UNCHANGED <<held, shed, refused, unclaimed>>
        /\ follower' = [follower EXCEPT ![w].pc = "place"]
    BY <1>1, <1>4
  <2>2. /\ follower' \in [Hook -> FollowerState]
        /\ \A v \in Hook : v # w => follower'[v] = follower[v]
        /\ \A v \in Hook :
             follower'[v].hand = follower[v].hand /\ follower'[v].offset = follower[v].offset
        /\ follower'[w].pc = "place"
    BY <2>1 DEF FollowersInv, ActorsTyped, FollowerState
  <2>3. DocumentTyped' BY <1>1, <2>1 DEF FollowersInv, DocumentTyped
  <2>4. Somewhere' = Somewhere BY <1>1, <2>1, SameWork
  <2>5. ChildWorkIsPlaced' BY <1>1, <2>2, <2>4, WorkStays DEF FollowersInv
  <2> QED BY <1>1, <2>2, <2>3, <2>5, FollowerSteps
<1>5. CASE ~(projector = "open" /\ linked)
  <2>1. follower' = [follower EXCEPT ![w].pc = "tick", ![w].hand = <<>>] BY <1>1, <1>5
  <2>2. /\ follower' \in [Hook -> FollowerState]
        /\ \A v \in Hook : v # w => follower'[v] = follower[v]
        /\ \A v \in Hook : follower'[v].offset = follower[v].offset
        /\ follower'[w].pc = "tick" /\ follower'[w].hand = <<>>
    <3>1. <<>> \in Seq(Lines) OBVIOUS
    <3> QED BY <2>1, <3>1 DEF FollowersInv, ActorsTyped, FollowerState
  <2>3. CASE projector # "open"
    <3>1. UNCHANGED <<held, shed, refused, unclaimed>> BY <1>1, <2>3
    <3>2. DocumentTyped' BY <1>1, <3>1 DEF FollowersInv, DocumentTyped
    <3>3. ChildWorkIsPlaced' BY <1>1, <2>3 DEF ChildWorkIsPlaced, Followers!ChildWorkIsPlaced
    <3> QED BY <1>1, <2>2, <3>2, <3>3, FollowerSteps
  <2>4. CASE projector = "open"
    <3>1. ~linked BY <1>5, <2>4
    <3>2. /\ held' = SubSeq(kept, excess + 1, Len(kept))
          /\ shed' = shed \cup {kept[k] : k \in 1..excess}
      BY <1>1, <2>4, <3>1
    <3>3. /\ kept \in Seq(Lines)
          /\ Followers!Elements(held) \cup Followers!Elements(hand) \subseteq
               Followers!Elements(kept)
      BY <1>2, JoinedElements
    <3>4. excess \in 0..Len(kept) /\ Len(kept) - excess <= MaxHeld
      BY <3>3, FollowersAssumption
    <3> HIDE DEF kept, excess
    <3>5. /\ held' \in Seq(Lines) /\ Len(held') = Len(kept) - excess
          /\ {kept[k] : k \in 1..excess} \subseteq Lines
          /\ Followers!Elements(kept) \subseteq
               {kept[k] : k \in 1..excess} \cup Followers!Elements(held')
      BY <3>2, <3>3, <3>4, CutElements
    <3>6. DocumentTyped' BY <1>1, <3>2, <3>4, <3>5 DEF FollowersInv, DocumentTyped
    <3>7. Kept = Followers!Elements(held) /\ Kept' = Followers!Elements(held')
      BY <1>1, <3>1 DEF Kept, Followers!Elements
    <3>8. Somewhere \cup Followers!Elements(hand) \subseteq Somewhere'
      BY <1>1, <1>3, <3>2, <3>3, <3>5, <3>7 DEF Somewhere
    <3>9. ChildWorkIsPlaced'
      <4>1. \A v \in Hook : Somewhere \cup Followers!Elements(follower[v].hand) \subseteq
                              Somewhere' \cup Followers!Elements(follower'[v].hand)
        BY <2>2, <3>8
      <4> QED BY <1>1, <2>2, <4>1, WorkStays DEF FollowersInv
    <3> QED BY <1>1, <2>2, <3>6, <3>9, FollowerSteps
  <2> QED BY <2>3, <2>4
<1> QED BY <1>4, <1>5

LEMMA PlaceChildStep ==
  ASSUME FollowersInv, NEW w \in Hook, Followers!PlaceChild(w) \/ Followers!StopChild(w)
  PROVE  FollowersInv'
<1> USE DEF Followers!session, Followers!files, Followers!document
<1> DEFINE hand == follower[w].hand
<1>1. /\ UNCHANGED <<file, child, heard, path, watching, offset, counted, projector, linked, held,
                     shed, unclaimed, caller, watcher>>
      /\ follower[w].pc # "off"
  BY DEF Followers!PlaceChild, Followers!StopChild
<1>2. hand \in Seq(Lines) /\ placed \subseteq Lines /\ refused \subseteq Lines
  BY DEF FollowersInv, ActorsTyped, FollowerState, DocumentTyped
<1>3. PICK rest \in Seq(Lines) :
        /\ follower' \in [Hook -> FollowerState]
        /\ \A v \in Hook : v # w => follower'[v] = follower[v]
        /\ follower'[w].offset = follower[w].offset /\ follower'[w].hand = rest
        /\ follower'[w].pc \in {"off", "tick"} => rest = <<>>
        /\ placed' \subseteq Lines /\ refused' \subseteq Lines
        /\ placed \cup refused \cup Followers!Elements(hand)
             \subseteq placed' \cup refused' \cup Followers!Elements(rest)
        /\ placed \cup refused \subseteq placed' \cup refused'
  <2>1. CASE Followers!StopChild(w)
    <3>1. /\ follower' = [follower EXCEPT ![w].pc = "off"] /\ hand = <<>>
          /\ placed' = placed /\ refused' = refused
      BY <2>1 DEF Followers!StopChild, FollowersInv, HandsAreFree
    <3> QED BY <1>2, <3>1 DEF FollowersInv, ActorsTyped, FollowerState
  <2>2. CASE Followers!PlaceChild(w) /\ hand = <<>>
    <3>1. follower' = [follower EXCEPT ![w].pc = "tick"] /\ placed' = placed /\ refused' = refused
      BY <2>2 DEF Followers!PlaceChild
    <3>2. /\ follower' \in [Hook -> FollowerState]
          /\ \A v \in Hook : v # w => follower'[v] = follower[v]
          /\ follower'[w].offset = follower[w].offset /\ follower'[w].hand = hand
      BY <3>1 DEF FollowersInv, ActorsTyped, FollowerState
    <3> QED BY <1>2, <2>2, <3>1, <3>2
  <2>3. CASE Followers!PlaceChild(w) /\ hand # <<>>
    <3>1. /\ follower[w].pc = "place"
          /\ follower' = [follower EXCEPT ![w].hand = Tail(hand)]
          /\ placed' \cup refused' = placed \cup refused \cup {Head(hand)}
      BY <2>3 DEF Followers!PlaceChild, Followers!Place
    <3>2. /\ Tail(hand) \in Seq(Lines) /\ Head(hand) \in Lines
          /\ Followers!Elements(hand) = {Head(hand)} \cup Followers!Elements(Tail(hand))
      BY <1>2, <2>3, TakenElements
    <3>3. PICK rest \in Seq(Lines) : rest = Tail(hand) BY <3>2
    <3>4. follower' = [follower EXCEPT ![w].hand = rest] BY <3>1, <3>3
    <3>5. /\ follower' \in [Hook -> FollowerState]
          /\ \A v \in Hook : v # w => follower'[v] = follower[v]
          /\ follower'[w].offset = follower[w].offset /\ follower'[w].hand = rest
          /\ follower'[w].pc = "place"
      <4>1. follower \in [Hook -> FollowerState] BY DEF FollowersInv, ActorsTyped
      <4>2. [follower[w] EXCEPT !.hand = rest] \in FollowerState BY <4>1 DEF FollowerState
      <4>3. follower' = [follower EXCEPT ![w] = [follower[w] EXCEPT !.hand = rest]]
        BY <3>4
      <4>4. follower' \in [Hook -> FollowerState] BY <4>1, <4>2, <4>3
      <4>5. /\ follower'[w] = [follower[w] EXCEPT !.hand = rest]
            /\ \A v \in Hook : v # w => follower'[v] = follower[v]
        BY <4>1, <4>3
      <4> QED BY <3>1, <4>1, <4>4, <4>5 DEF FollowerState
    <3>6. /\ placed' \subseteq Lines /\ refused' \subseteq Lines
          /\ placed \cup refused \cup Followers!Elements(hand)
               \subseteq placed' \cup refused' \cup Followers!Elements(rest)
          /\ placed \cup refused \subseteq placed' \cup refused'
      BY <1>2, <3>1, <3>2, <3>3
    <3> QED BY <3>5, <3>6
  <2> QED BY <2>1, <2>2, <2>3
<1>4. DocumentTyped' BY <1>1, <1>3 DEF FollowersInv, DocumentTyped
<1>5. Hands' = Hands /\ Kept' = Kept
  <2>1. Hands' = UNION {Followers!Elements(watcher'[v].hand) : v \in Hook}
    BY DEF Hands, Followers!Elements
  <2>2. /\ watcher' = watcher /\ linked' = linked /\ held' = held
        /\ unclaimed' = unclaimed
    BY <1>1
  <2> QED BY <2>1, <2>2 DEF Hands, Kept, Followers!Elements
<1>6. ChildWorkIsPlaced'
  <2>1. \A v \in Hook : Somewhere \cup Followers!Elements(follower[v].hand) \subseteq
                          Somewhere' \cup Followers!Elements(follower'[v].hand)
    BY <1>1, <1>3, <1>5 DEF Somewhere
  <2> QED BY <1>1, <1>3, <2>1, WorkStays DEF FollowersInv
<1> QED BY <1>1, <1>3, <1>4, <1>6, FollowerSteps

LEMMA FollowersNext ==
  ASSUME FollowersInv, Followers!Next \/ UNCHANGED transcripts
  PROVE  FollowersInv'
<1>1. CASE UNCHANGED transcripts
  <2>1. UNCHANGED <<file, child, heard, path, watching, offset, counted, projector, linked, held,
                    placed, caller, watcher, follower, shed, refused, unclaimed>>
    BY <1>1 DEF transcripts
  <2>2. FilesTyped' /\ DocumentTyped' BY <2>1 DEF FollowersInv, FilesTyped, DocumentTyped
  <2>3. ActorsTyped' /\ HandsAreFree' BY <2>1 DEF FollowersInv, ActorsTyped, HandsAreFree
  <2>4. OneWatcher' BY <2>1 DEF FollowersInv, OneWatcher, OnDuty
  <2>5. Counting' /\ Reached' BY <2>1 DEF FollowersInv, Counting, Reached
  <2>6. Somewhere' = Somewhere BY <2>1, SameWork
  <2>7. ChildWorkIsPlaced' BY <2>1, <2>6, WorkStays DEF FollowersInv
  <2> QED BY <2>2, <2>3, <2>4, <2>5, <2>7 DEF FollowersInv
<1>2. CASE Followers!Next
  <2>1. ASSUME NEW h \in Hook, Followers!Watch(h) \/ Followers!Follow(h) PROVE FollowersInv'
    BY <2>1, EndsStep, TickStep, ReadLineStep, ReleaseStep, PlaceHeldStep, CommitStep, SweepStep,
       IngestStep, PlaceChildStep
    DEF Followers!Watch, Followers!Follow
  <2>2. ASSUME NEW h \in Hook,
               Followers!HookLooks(h) \/ Followers!SetPath(h) \/ Followers!StartWatcher(h)
        PROVE  FollowersInv'
    BY <2>2, HookStep, StartStep
  <2> QED BY <1>2, <2>1, <2>2, CliStep DEF Followers!Next
<1> QED BY <1>1, <1>2

LEMMA FollowersParts ==
  ASSUME FollowersInv
  PROVE  LinesCountOnce /\ ChildWorkIsPlaced /\ Followers!TypeOK
<1>1. LinesCountOnce
  BY DEF FollowersInv, Counting, LinesCountOnce, Followers!LinesCountOnce, Lines
<1>2. Followers!TypeOK
  <2>1. offset \in 0..file /\ counted \in [Followers!Line -> Nat]
    BY DEF FollowersInv, Counting, Lines
  <2>2. \A v, w \in Hook :
          v # w => watcher[v].pc \in {"none", "gone"} \/ watcher[w].pc \in {"none", "gone"}
    BY DEF FollowersInv, OneWatcher, OnDuty
  <2> QED BY <2>1, <2>2 DEF FollowersInv, FilesTyped, DocumentTyped, Followers!TypeOK, Lines
<1> QED BY <1>1, <1>2 DEF FollowersInv
\* However often a line is looked at, by whichever watcher, and however it is written, its
\* usage is added to the session's totals once (ingestTranscript, startTranscriptWatcher).
THEOREM UsageCountsOnce == ServicesSpec => []LinesCountOnce
<1>1. ServicesInit => FollowersInv BY FollowersInit DEF ServicesInit
<1>2. FollowersInv /\ [ServicesNext]_all => FollowersInv'
  BY FollowersNext DEF ServicesNext, LifeStep, all
<1>3. FollowersInv => LinesCountOnce BY FollowersParts
<1> QED BY <1>1, <1>2, <1>3, PTL DEF ServicesSpec

\* Every line of the child that a follower read is in the notebook, in somebody's hands,
\* held until the child is linked, was shed at the cap or refused by the log, or stays held
\* as the result that names the child found no turn open (Ingest, IngestSubagent).
THEOREM ChildWorkIsKept == ServicesSpec => []ChildWorkIsPlaced
<1>1. ServicesInit => FollowersInv BY FollowersInit DEF ServicesInit
<1>2. FollowersInv /\ [ServicesNext]_all => FollowersInv'
  BY FollowersNext DEF ServicesNext, LifeStep, all
<1>3. FollowersInv => ChildWorkIsPlaced BY FollowersParts
<1> QED BY <1>1, <1>2, <1>3, PTL DEF ServicesSpec

------------------------------------------------------------------------------
\* Dashboard.

Versions == Dash!Version \cup {Dash!Nothing}

Message == [kind : {"upsert", "remove", "snapshot"}, shows : Versions]

\* What is said of the session is a version it has or had.
BoardTyped ==
  /\ Dash!TypeOK
  /\ dashQueue \in Seq(Message) /\ newest \in Versions
  /\ timer => pending # Dash!Nothing

NothingIsAhead ==
  /\ \A w \in Writer :
       writer[w].read <= version /\ (writer[w].pc = "read" => writer[w].read \in Dash!Version)
  /\ announced <= version /\ pending <= version /\ newest <= version /\ opening <= version
  /\ \A i \in DOMAIN batches : batches[i] <= version

\* Somebody will say what the session was at its last announced change, or since.
UnderWay ==
  \/ \E w \in Writer :
       writer[w].pc = "changed" \/ (writer[w].pc = "read" /\ writer[w].read >= announced)
  \/ pending >= announced \/ \E i \in DOMAIN batches : batches[i] >= announced

SaidOrUnderWay == windows = {} => UnderWay \/ newest >= announced \/ announced = 0

\* What the dashboard shows when it has received what is queued for it.
Eventually == IF dashQueue = <<>> THEN shown ELSE dashQueue[Len(dashQueue)].shows

\* It is not behind what was said to all, nor is the snapshot that was read for it.
NotBehind(v) ==
  /\ remover = "registered" => v \in Dash!Version /\ newest <= v /\ v <= version
  /\ remover = "removed" => v = Dash!Nothing

ToldInOrder ==
  windows = {} => /\ conn = "read" => NotBehind(opening)
                  /\ conn = "live" => NotBehind(Eventually)

BoardInv == BoardTyped /\ NothingIsAhead /\ SaidOrUnderWay /\ ToldInOrder

\* What a sequence is when one of its elements is taken out.
Without(s, i) == SubSeq(s, 1, i - 1) \o SubSeq(s, i + 1, Len(s))

LEMMA TakenOut ==
  ASSUME NEW T, NEW s \in Seq(T), NEW i \in 1..Len(s)
  PROVE  /\ Without(s, i) \in Seq(T)
         /\ \A j \in DOMAIN s :
              j # i => \E k \in DOMAIN Without(s, i) : Without(s, i)[k] = s[j]
         /\ \A k \in DOMAIN Without(s, i) : \E j \in DOMAIN s : Without(s, i)[k] = s[j]
<1> DEFINE n == Len(s)
           t == Without(s, i)
           before == SubSeq(s, 1, i - 1)
           after == SubSeq(s, i + 1, n)
<1>1. n \in Nat /\ DOMAIN s = 1..n /\ (\A j \in 1..n : s[j] \in T) /\ i \in 1..n OBVIOUS
<1> HIDE DEF n
<1>2. before \in Seq(T) /\ Len(before) = i - 1 /\ \A j \in 1..(i - 1) : before[j] = s[j]
  <2>1. \A j \in 1..(i - 1) : s[j] \in T BY <1>1
  <2>2. /\ before \in Seq(T)
        /\ Len(before) = IF 1 <= i - 1 THEN (i - 1) - 1 + 1 ELSE 0
        /\ \A j \in 1..(i - 1) - 1 + 1 : before[j] = s[1 + j - 1]
    BY <1>1, <2>1, SubSeqProperties
  <2> HIDE DEF before
  <2>3. \A j \in 1..(i - 1) : j \in 1..(i - 1) - 1 + 1 /\ 1 + j - 1 = j BY <1>1
  <2> QED BY <1>1, <2>2, <2>3
<1>3. after \in Seq(T) /\ Len(after) = n - i /\ \A j \in 1..(n - i) : after[j] = s[i + j]
  <2>1. \A j \in (i + 1)..n : s[j] \in T BY <1>1
  <2>2. /\ after \in Seq(T)
        /\ Len(after) = IF i + 1 <= n THEN n - (i + 1) + 1 ELSE 0
        /\ \A j \in 1..n - (i + 1) + 1 : after[j] = s[(i + 1) + j - 1]
    BY <1>1, <2>1, SubSeqProperties
  <2> HIDE DEF after
  <2>3. \A j \in 1..(n - i) : j \in 1..n - (i + 1) + 1 /\ (i + 1) + j - 1 = i + j BY <1>1
  <2> QED BY <1>1, <2>2, <2>3
<1>4. t = before \o after BY DEF n, Without
<1> HIDE DEF before, after, t
<1>5. /\ t \in Seq(T) /\ Len(t) = n - 1
      /\ \A k \in 1..(n - 1) :
           t[k] = IF k <= i - 1 THEN before[k] ELSE after[k - (i - 1)]
  <2>1. /\ t \in Seq(T) /\ Len(t) = Len(before) + Len(after)
        /\ \A k \in 1..Len(before) + Len(after) :
             t[k] = IF k <= Len(before) THEN before[k] ELSE after[k - Len(before)]
    <3>1. /\ before \o after \in Seq(T) /\ Len(before \o after) = Len(before) + Len(after)
          /\ \A k \in 1..Len(before) + Len(after) :
               (before \o after)[k] = IF k <= Len(before) THEN before[k]
                                                        ELSE after[k - Len(before)]
      BY <1>2, <1>3, ConcatProperties
    <3> QED BY <1>4, <3>1, Zenon
  <2>2. Len(before) + Len(after) = n - 1 BY <1>1, <1>2, <1>3
  <2> QED BY <1>2, <2>1, <2>2
<1>6. DOMAIN t = 1..(n - 1)
      /\ \A k \in 1..(n - 1) : t[k] = s[IF k < i THEN k ELSE k + 1]
  <2>1. DOMAIN t = 1..(n - 1) BY <1>5
  <2>2. ASSUME NEW k \in 1..(n - 1), k < i PROVE t[k] = s[k]
    <3>1. k <= i - 1 /\ k \in 1..(i - 1) BY <1>1, <2>2
    <3> QED BY <1>2, <1>5, <3>1
  <2>3. ASSUME NEW k \in 1..(n - 1), ~(k < i) PROVE t[k] = s[k + 1]
    <3>1. ~(k <= i - 1) /\ k - (i - 1) \in 1..(n - i) /\ i + (k - (i - 1)) = k + 1
      BY <1>1, <2>3
    <3>2. after[k - (i - 1)] = s[i + (k - (i - 1))] BY <1>3, <3>1
    <3> QED BY <1>5, <3>1, <3>2
  <2> QED BY <2>1, <2>2, <2>3
<1>7. ASSUME NEW j \in 1..n, j # i PROVE \E k \in DOMAIN t : t[k] = s[j]
  <2>1. CASE j < i
    <3>1. j \in 1..(n - 1) BY <1>1, <2>1
    <3> QED BY <1>6, <2>1, <3>1
  <2>2. CASE ~(j < i)
    <3>1. j - 1 \in 1..(n - 1) /\ ~(j - 1 < i) /\ (j - 1) + 1 = j BY <1>1, <1>7, <2>2
    <3> QED BY <1>6, <3>1
  <2> QED BY <2>1, <2>2
<1>8. ASSUME NEW k \in DOMAIN t PROVE \E j \in DOMAIN s : t[k] = s[j]
  <2>1. k \in 1..(n - 1) BY <1>6, <1>8
  <2>2. k \in 1..n /\ k + 1 \in 1..n BY <1>1, <2>1
  <2> QED BY <1>1, <1>6, <2>1, <2>2
<1>9. t \in Seq(T) BY <1>5
<1> QED BY <1>1, <1>7, <1>8, <1>9 DEF t

LEMMA VersionsAre ==
  /\ Dash!Nothing \in Int /\ Dash!Nothing < 0
  /\ Dash!Version \subseteq Int /\ Versions \subseteq Int
  /\ Versions = Dash!Version \cup {Dash!Nothing}
  /\ \A v \in Dash!Version : v >= 0 /\ v # Dash!Nothing
  /\ \A v \in Versions : v \in Dash!Version <=> v # Dash!Nothing
BY DashAssumption DEF Dash!Nothing, Dash!Version, Versions

LEMMA BoardInit == Dash!Init => BoardInv
<1> SUFFICES ASSUME Dash!Init PROVE BoardInv OBVIOUS
<1> USE DashAssumption DEF Dash!Init
<1>1. 0 \in Dash!Version /\ ~(Dash!Nothing \in Dash!Version) /\ Dash!Nothing \in Int
  BY DEF Dash!Version, Dash!Nothing
<1>2. Dash!TypeOK
  <2>1. Dash!Idle \in [pc : {"idle", "changed", "read"}, read : Dash!Version \cup {Dash!Nothing}]
    BY DEF Dash!Idle
  <2>2. writer \in [Writer -> [pc : {"idle", "changed", "read"},
                               read : Dash!Version \cup {Dash!Nothing}]]
    BY <2>1
  <2>3. batches \in Seq(Dash!Version) BY SMT
  <2>4. Len(dashQueue) <= DashDepth BY SMT
  <2>5. timer \in BOOLEAN BY Zenon
  <2>6. /\ version \in Dash!Version /\ remover \in {"registered", "unlisted", "removed"}
        /\ announced \in Dash!Version
        /\ pending = Dash!Nothing /\ opening = Dash!Nothing /\ shown = Dash!Nothing
        /\ conn \in {"closed", "joined", "read", "live"} /\ windows = {}
    BY <1>1
  <2> QED BY <2>2, <2>3, <2>4, <2>5, <2>6, Zenon DEF Dash!TypeOK
<1>3. BoardTyped
  <2>1. dashQueue \in Seq(Message) /\ newest \in Versions BY DEF Versions
  <2>2. ~timer OBVIOUS
  <2> QED BY <1>2, <2>1, <2>2 DEF BoardTyped
<1>4. NothingIsAhead BY DEF NothingIsAhead, Dash!Idle, Dash!Nothing
<1>5. SaidOrUnderWay BY DEF SaidOrUnderWay
<1>6. ToldInOrder BY DEF ToldInOrder
<1> QED BY <1>3, <1>4, <1>5, <1>6 DEF BoardInv

LEMMA WriterStep ==
  ASSUME BoardInv, NEW w \in Writer, Dash!Change(w) \/ Dash!toJSON(w)
  PROVE  BoardInv'
<1> USE DashAssumption, VersionsAre DEF Dash!tab
<1>1. /\ UNCHANGED <<remover, pending, timer, batches, conn, opening, dashQueue, shown, newest,
                     windows>>
      /\ version \in Dash!Version /\ version' \in Dash!Version /\ version <= version'
      /\ announced' \in Dash!Version
  BY DEF Dash!Change, Dash!toJSON, BoardInv, BoardTyped, Dash!TypeOK, Dash!Version
<1>a. announced' <= version'
  BY <1>1 DEF Dash!Change, Dash!toJSON, BoardInv, NothingIsAhead
<1>2. PICK to \in [pc : {"changed", "read"}, read : Versions] :
        /\ writer' = [writer EXCEPT ![w] = to] /\ to.read <= version'
        /\ to.pc = "read" => to.read = version'
        /\ to.pc = "read" => version' = version
        /\ writer[w].pc \in {"idle", "changed"}
  <2>1. writer[w] \in [pc : {"idle", "changed", "read"}, read : Versions]
    BY DEF BoardInv, BoardTyped, Dash!TypeOK
  <2>2. CASE Dash!Change(w)
    <3>1. writer' = [writer EXCEPT ![w] = [writer[w] EXCEPT !.pc = "changed"]]
          /\ writer[w].pc = "idle"
      BY <2>2 DEF Dash!Change
    <3>2. [writer[w] EXCEPT !.pc = "changed"] \in [pc : {"changed", "read"}, read : Versions]
      BY <2>1
    <3>3. writer[w].read <= version'
      <4>1. writer[w].read \in Int /\ writer[w].read <= version
        BY <2>1 DEF BoardInv, NothingIsAhead
      <4> QED BY <1>1, <4>1
    <3> QED BY <2>1, <3>1, <3>2, <3>3
  <2>3. CASE Dash!toJSON(w)
    <3>1. writer' = [writer EXCEPT ![w] = [pc |-> "read", read |-> version]]
          /\ writer[w].pc = "changed" /\ version' = version
      BY <2>3 DEF Dash!toJSON
    <3> DEFINE to == [pc |-> "read", read |-> version]
    <3>2. to \in [pc : {"changed", "read"}, read : Versions] BY <1>1
    <3> QED BY <1>1, <3>1, <3>2
  <2> QED BY <2>2, <2>3 DEF Dash!Change, Dash!toJSON
<1>3. /\ writer' \in [Writer -> [pc : {"idle", "changed", "read"}, read : Versions]]
      /\ writer'[w] = to /\ \A v \in Writer : v # w => writer'[v] = writer[v]
  BY <1>2 DEF BoardInv, BoardTyped, Dash!TypeOK
<1>4. BoardTyped'
  <2>1. (Dash!TypeOK)' BY <1>1, <1>3 DEF BoardInv, BoardTyped, Dash!TypeOK
  <2> QED BY <1>1, <2>1 DEF BoardInv, BoardTyped
<1>5. NothingIsAhead'
  <2>1. \A v \in Writer : writer'[v].read <= version'
          /\ (writer'[v].pc = "read" => writer'[v].read \in Dash!Version)
    <3>1. ASSUME NEW v \in Writer, v # w
          PROVE  writer'[v].read <= version'
                   /\ (writer'[v].pc = "read" => writer'[v].read \in Dash!Version)
      <4>1. writer[v].read \in Int BY DEF BoardInv, BoardTyped, Dash!TypeOK
      <4> QED BY <1>1, <1>3, <3>1, <4>1 DEF BoardInv, NothingIsAhead
    <3>2. writer'[w].read <= version'
            /\ (writer'[w].pc = "read" => writer'[w].read \in Dash!Version)
      BY <1>1, <1>2, <1>3
    <3> QED BY <3>1, <3>2
  <2>2. /\ pending \in Int /\ newest \in Int /\ opening \in Int
        /\ \A i \in DOMAIN batches : batches[i] \in Int
    <3>1. /\ pending \in Versions /\ newest \in Versions /\ opening \in Versions
          /\ batches \in Seq(Dash!Version)
      BY DEF BoardInv, BoardTyped, Dash!TypeOK
    <3>2. \A i \in DOMAIN batches : batches[i] \in Dash!Version BY <3>1
    <3> QED BY <3>1, <3>2
  <2> QED BY <1>1, <1>a, <2>1, <2>2 DEF BoardInv, NothingIsAhead
<1>6. SaidOrUnderWay'
  <2>1. writer'[w].pc = "changed" \/ (writer'[w].pc = "read" /\ writer'[w].read >= announced')
    BY <1>1, <1>a, <1>2, <1>3
  <2> QED BY <2>1 DEF SaidOrUnderWay, UnderWay
<1>7. ToldInOrder'
  <2>1. Eventually' = Eventually BY <1>1 DEF Eventually
  <2>2. \A v \in Int : NotBehind(v) => NotBehind(v)' BY <1>1 DEF NotBehind
  <2>3. opening \in Int /\ Eventually \in Int
    <3>1. opening \in Versions /\ shown \in Versions /\ dashQueue \in Seq(Message)
      BY DEF BoardInv, BoardTyped, Dash!TypeOK
    <3>2. dashQueue # <<>> => dashQueue[Len(dashQueue)] \in Message BY <3>1
    <3> QED BY <3>1, <3>2 DEF Eventually, Message
  <2>4. NotBehind(opening) => (NotBehind(opening))' BY <1>1, <2>3 DEF NotBehind
  <2>5. NotBehind(Eventually) => (NotBehind(Eventually))' BY <1>1, <2>1, <2>3 DEF NotBehind
  <2> QED BY <1>1, <2>4, <2>5 DEF BoardInv, ToldInOrder
<1> QED BY <1>4, <1>5, <1>6, <1>7 DEF BoardInv

\* What nobody is told of leaves what is said as it was.
LEMMA UnannouncedStep == BoardInv /\ Dash!ChangeUnannounced => BoardInv'
<1> SUFFICES ASSUME BoardInv, Dash!ChangeUnannounced PROVE BoardInv' OBVIOUS
<1> USE DashAssumption, VersionsAre DEF Dash!tab
<1>1. /\ UNCHANGED <<announced, remover, writer, pending, timer, batches, conn, opening, dashQueue,
                     shown, newest, windows>>
      /\ version \in Dash!Version /\ version' \in Dash!Version /\ version <= version'
  BY DEF Dash!ChangeUnannounced, BoardInv, BoardTyped, Dash!TypeOK, Dash!Version
<1>2. BoardTyped' BY <1>1 DEF BoardInv, BoardTyped, Dash!TypeOK
<1>3. NothingIsAhead'
  <2>1. /\ announced \in Int /\ pending \in Int /\ newest \in Int /\ opening \in Int
        /\ \A w \in Writer : writer[w].read \in Int
        /\ \A i \in DOMAIN batches : batches[i] \in Int
    <3>1. /\ announced \in Versions /\ pending \in Versions /\ newest \in Versions
          /\ opening \in Versions /\ batches \in Seq(Dash!Version)
          /\ \A w \in Writer : writer[w].read \in Versions
      BY DEF BoardInv, BoardTyped, Dash!TypeOK
    <3>2. \A i \in DOMAIN batches : batches[i] \in Dash!Version BY <3>1
    <3> QED BY <3>1, <3>2
  <2> QED BY <1>1, <2>1 DEF BoardInv, NothingIsAhead
<1>4. SaidOrUnderWay' BY <1>1 DEF BoardInv, SaidOrUnderWay, UnderWay
<1>5. ToldInOrder'
  <2>1. Eventually' = Eventually BY <1>1 DEF Eventually
  <2>2. opening \in Int /\ Eventually \in Int
    <3>1. opening \in Versions /\ shown \in Versions /\ dashQueue \in Seq(Message)
      BY DEF BoardInv, BoardTyped, Dash!TypeOK
    <3>2. dashQueue # <<>> => dashQueue[Len(dashQueue)] \in Message BY <3>1
    <3> QED BY <3>1, <3>2 DEF Eventually, Message
  <2>3. NotBehind(opening) => (NotBehind(opening))' BY <1>1, <2>2 DEF NotBehind
  <2>4. NotBehind(Eventually) => (NotBehind(Eventually))' BY <1>1, <2>1, <2>2 DEF NotBehind
  <2> QED BY <1>1, <2>3, <2>4 DEF BoardInv, ToldInOrder
<1> QED BY <1>2, <1>3, <1>4, <1>5 DEF BoardInv

LEMMA CoalesceStep ==
  ASSUME BoardInv, NEW w \in Writer, Dash!coalesceUpsert(w)
  PROVE  BoardInv'
<1> USE DashAssumption, VersionsAre DEF Dash!tab
<1> DEFINE r == writer[w].read
<1>1. /\ UNCHANGED <<version, announced, remover, batches, conn, opening, dashQueue, shown, newest>>
      /\ writer[w].pc = "read" /\ pending' = r
      /\ writer' = [writer EXCEPT ![w] = Dash!Idle] /\ timer' = TRUE
      /\ windows' = windows \cup (IF pending > r THEN {"overtaken"} ELSE {})
  BY DEF Dash!coalesceUpsert, Dash!Coalesced
<1>2. /\ r \in Dash!Version /\ r <= version /\ pending \in Versions /\ pending <= version
      /\ writer[w] \in [pc : {"idle", "changed", "read"}, read : Versions]
  BY <1>1 DEF BoardInv, BoardTyped, Dash!TypeOK, NothingIsAhead
<1>3. /\ writer' \in [Writer -> [pc : {"idle", "changed", "read"}, read : Versions]]
      /\ writer'[w] = Dash!Idle /\ \A v \in Writer : v # w => writer'[v] = writer[v]
  <2>1. Dash!Idle \in [pc : {"idle", "changed", "read"}, read : Versions] BY DEF Dash!Idle
  <2> QED BY <1>1, <2>1 DEF BoardInv, BoardTyped, Dash!TypeOK
<1> HIDE DEF r
<1>4. BoardTyped'
  <2>1. windows' \subseteq {"overtaken", "ghost", "connect", "overflow"}
    BY <1>1 DEF BoardInv, BoardTyped, Dash!TypeOK
  <2>2. (Dash!TypeOK)' BY <1>1, <1>2, <1>3, <2>1 DEF BoardInv, BoardTyped, Dash!TypeOK
  <2> QED BY <1>1, <1>2, <2>2 DEF BoardInv, BoardTyped
<1>5. NothingIsAhead'
  <2>1. \A v \in Writer : writer'[v].read <= version
          /\ (writer'[v].pc = "read" => writer'[v].read \in Dash!Version)
    <3>1. writer'[w].read <= version /\ writer'[w].pc # "read"
      <4>1. version \in Int /\ version >= 0
        BY DEF BoardInv, BoardTyped, Dash!TypeOK
      <4> QED BY <1>3, <4>1 DEF Dash!Idle
    <3> QED BY <1>3, <3>1 DEF BoardInv, NothingIsAhead
  <2> QED BY <1>1, <1>2, <2>1 DEF BoardInv, NothingIsAhead
<1>6. SaidOrUnderWay'
  <2> SUFFICES ASSUME windows' = {}, ~(newest >= announced), announced # 0 PROVE UnderWay'
    BY <1>1 DEF SaidOrUnderWay
  <2>1. windows = {} /\ ~(pending > r) BY <1>1
  <2>2. UnderWay BY <1>1, <2>1 DEF BoardInv, SaidOrUnderWay
  <2>3. CASE pending >= announced
    <3>1. announced \in Int BY DEF BoardInv, BoardTyped, Dash!TypeOK
    <3>2. pending' >= announced' BY <1>1, <1>2, <2>1, <2>3, <3>1
    <3> QED BY <3>2 DEF UnderWay
  <2>4. CASE \E i \in DOMAIN batches : batches[i] >= announced
    BY <1>1, <2>4 DEF UnderWay
  <2>5. CASE \E v \in Writer :
               writer[v].pc = "changed" \/ (writer[v].pc = "read" /\ writer[v].read >= announced)
    <3>1. PICK v \in Writer :
                 writer[v].pc = "changed" \/ (writer[v].pc = "read" /\ writer[v].read >= announced)
      BY <2>5
    <3>2. CASE v # w BY <1>1, <1>3, <3>1, <3>2 DEF UnderWay
    <3>3. CASE v = w
      <4>1. pending' >= announced' BY <1>1, <3>1, <3>3 DEF r
      <4> QED BY <4>1 DEF UnderWay
    <3> QED BY <3>2, <3>3
  <2> QED BY <2>2, <2>3, <2>4, <2>5 DEF UnderWay
<1>7. ToldInOrder'
  <2>1. windows' = {} => windows = {} BY <1>1
  <2> QED BY <1>1, <2>1 DEF BoardInv, ToldInOrder, NotBehind, Eventually
<1> QED BY <1>4, <1>5, <1>6, <1>7 DEF BoardInv

LEMMA TakeStep == BoardInv /\ Dash!TakeBatch => BoardInv'
<1> SUFFICES ASSUME BoardInv, Dash!TakeBatch PROVE BoardInv' OBVIOUS
<1> USE DashAssumption, VersionsAre DEF Dash!tab
<1>1. /\ UNCHANGED <<version, announced, remover, writer, conn, opening, dashQueue, shown, newest,
                     windows>>
      /\ timer' = FALSE /\ pending' = Dash!Nothing /\ batches' = Append(batches, pending)
  BY DEF Dash!TakeBatch
<1>2. pending \in Dash!Version /\ pending <= version /\ batches \in Seq(Dash!Version)
  BY DEF Dash!TakeBatch, BoardInv, BoardTyped, Dash!TypeOK, NothingIsAhead
<1>3. /\ batches' \in Seq(Dash!Version) /\ DOMAIN batches' = 1..(Len(batches) + 1)
      /\ DOMAIN batches = 1..Len(batches) /\ Len(batches) \in Nat
      /\ batches'[Len(batches) + 1] = pending
      /\ \A i \in DOMAIN batches : batches'[i] = batches[i]
  BY <1>1, <1>2
<1>4. BoardTyped'
  <2>1. (Dash!TypeOK)' BY <1>1, <1>3 DEF BoardInv, BoardTyped, Dash!TypeOK
  <2> QED BY <1>1, <2>1 DEF BoardInv, BoardTyped
<1>5. NothingIsAhead'
  <2>1. pending' <= version' BY <1>1 DEF BoardInv, BoardTyped, Dash!TypeOK
  <2>2. \A i \in DOMAIN batches' : batches'[i] <= version'
    BY <1>1, <1>2, <1>3 DEF BoardInv, NothingIsAhead
  <2> QED BY <1>1, <2>1, <2>2 DEF BoardInv, NothingIsAhead
<1>6. SaidOrUnderWay'
  <2>1. UnderWay => UnderWay'
    <3>1. CASE pending >= announced
      <4>1. Len(batches) + 1 \in DOMAIN batches' BY <1>3
      <4> QED BY <1>1, <1>3, <3>1, <4>1 DEF UnderWay
    <3>2. CASE \E i \in DOMAIN batches : batches[i] >= announced
      <4>1. DOMAIN batches \subseteq DOMAIN batches' BY <1>3
      <4> QED BY <1>1, <1>3, <3>2, <4>1 DEF UnderWay
    <3>3. CASE \E w \in Writer :
                 writer[w].pc = "changed" \/ (writer[w].pc = "read" /\ writer[w].read >= announced)
      BY <1>1, <3>3 DEF UnderWay
    <3> QED BY <3>1, <3>2, <3>3 DEF UnderWay
  <2> QED BY <1>1, <2>1 DEF BoardInv, SaidOrUnderWay
<1>7. ToldInOrder' BY <1>1 DEF BoardInv, ToldInOrder, NotBehind, Eventually
<1> QED BY <1>4, <1>5, <1>6, <1>7 DEF BoardInv

\* What is said to a dashboard is the last it hears, or one of the windows names it.
LEMMA Enqueued ==
  ASSUME BoardInv, NEW msg \in Message, NEW also \in SUBSET {"overtaken", "ghost"},
         Dash!Enqueue(msg, also), UNCHANGED conn
  PROVE  /\ dashQueue' \in Seq(Message) /\ Len(dashQueue') <= DashDepth
         /\ windows' \subseteq {"overtaken", "ghost", "connect", "overflow"}
         /\ windows \subseteq windows' /\ also \subseteq windows'
         /\ windows' = {} /\ conn = "live" => Eventually' = msg.shows
         /\ windows' = {} /\ conn = "read" => msg.shows = opening
<1> USE DashAssumption
<1>1. /\ dashQueue \in Seq(Message) /\ Len(dashQueue) \in Nat /\ Len(dashQueue) <= DashDepth
      /\ windows \subseteq {"overtaken", "ghost", "connect", "overflow"}
  BY DEF BoardInv, BoardTyped, Dash!TypeOK
<1> DEFINE full == Len(dashQueue) >= DashDepth
           between == conn = "read" /\ msg.shows # opening
<1>2. /\ dashQueue' = IF conn = "closed" \/ full THEN dashQueue ELSE Append(dashQueue, msg)
      /\ windows' = windows \cup also
                     \cup (IF conn # "closed" /\ full THEN {"overflow"} ELSE {})
                     \cup (IF between THEN {"connect"} ELSE {})
  BY DEF Dash!Enqueue
<1>3. dashQueue' \in Seq(Message) /\ Len(dashQueue') <= DashDepth
  <2>1. Append(dashQueue, msg) \in Seq(Message)
        /\ Len(Append(dashQueue, msg)) = Len(dashQueue) + 1
    BY <1>1
  <2> QED BY <1>1, <1>2, <2>1
<1>4. ASSUME windows' = {}, conn = "live" PROVE Eventually' = msg.shows
  <2>1. dashQueue' = Append(dashQueue, msg) BY <1>2, <1>4
  <2>2. dashQueue' # <<>> /\ dashQueue'[Len(dashQueue')] = msg BY <1>1, <2>1
  <2> QED BY <2>2 DEF Eventually
<1>5. windows' = {} /\ conn = "read" => msg.shows = opening BY <1>2
<1> QED BY <1>1, <1>2, <1>3, <1>4, <1>5

LEMMA SendStep ==
  ASSUME BoardInv, NEW i \in DOMAIN batches, Dash!SendBatch(i)
  PROVE  BoardInv'
<1> USE DashAssumption, VersionsAre DEF Dash!tab
<1> DEFINE v == batches[i]
           msg == [kind |-> "upsert", shows |-> v]
           also == (IF newest > v THEN {"overtaken"} ELSE {})
                     \cup (IF remover = "removed" THEN {"ghost"} ELSE {})
<1>1. /\ UNCHANGED <<version, announced, remover, writer, pending, timer, conn, opening, shown>>
      /\ batches' = SubSeq(batches, 1, i - 1) \o SubSeq(batches, i + 1, Len(batches))
      /\ newest' = IF v > newest THEN v ELSE newest
      /\ Dash!Enqueue(msg, also)
  BY DEF Dash!SendBatch
<1>2. /\ batches \in Seq(Dash!Version) /\ i \in 1..Len(batches) /\ v \in Dash!Version
      /\ v <= version /\ newest \in Versions /\ newest <= version
  BY DEF BoardInv, BoardTyped, Dash!TypeOK, NothingIsAhead
<1>3. /\ batches' \in Seq(Dash!Version)
      /\ \A j \in DOMAIN batches : j # i => \E k \in DOMAIN batches' : batches'[k] = batches[j]
      /\ \A k \in DOMAIN batches' : \E j \in DOMAIN batches : batches'[k] = batches[j]
  <2>1. batches' = Without(batches, i) BY <1>1 DEF Without
  <2>2. batches \in Seq(Dash!Version) BY <1>2
  <2>3. i \in 1..Len(batches) BY <1>2
  <2>4. /\ Without(batches, i) \in Seq(Dash!Version)
        /\ \A j \in DOMAIN batches :
             j # i => \E k \in DOMAIN Without(batches, i) : Without(batches, i)[k] = batches[j]
        /\ \A k \in DOMAIN Without(batches, i) :
             \E j \in DOMAIN batches : Without(batches, i)[k] = batches[j]
    BY <2>2, <2>3, TakenOut
  <2> QED BY <2>1, <2>4
<1> HIDE DEF v
<1>4. /\ dashQueue' \in Seq(Message) /\ Len(dashQueue') <= DashDepth
      /\ windows' \subseteq {"overtaken", "ghost", "connect", "overflow"}
      /\ windows \subseteq windows' /\ also \subseteq windows'
      /\ windows' = {} /\ conn = "live" => Eventually' = v
      /\ windows' = {} /\ conn = "read" => v = opening
  <2>1. msg \in Message /\ also \in SUBSET {"overtaken", "ghost"} BY <1>2 DEF Message
  <2> HIDE DEF also
  <2> QED BY <1>1, <2>1, Enqueued
<1>5. windows' = {} => windows = {} /\ newest' = v /\ newest <= v /\ remover # "removed"
  BY <1>1, <1>2, <1>4
<1>6. newest' \in Versions /\ newest' <= version BY <1>1, <1>2
<1>7. BoardTyped'
  <2>1. (Dash!TypeOK)' BY <1>1, <1>3, <1>4 DEF BoardInv, BoardTyped, Dash!TypeOK
  <2> QED BY <1>1, <1>4, <1>6, <2>1 DEF BoardInv, BoardTyped
<1>8. NothingIsAhead' BY <1>1, <1>3, <1>6 DEF BoardInv, NothingIsAhead
<1>9. SaidOrUnderWay'
  <2> SUFFICES ASSUME windows' = {}, ~(newest' >= announced), announced # 0 PROVE UnderWay'
    BY <1>1 DEF SaidOrUnderWay
  <2>a. announced \in Int BY DEF BoardInv, BoardTyped, Dash!TypeOK
  <2>1. windows = {} /\ ~(v >= announced) /\ ~(newest >= announced)
    BY <1>1, <1>2, <1>5, <2>a
  <2>2. UnderWay BY <2>1 DEF BoardInv, SaidOrUnderWay
  <2>3. CASE \E j \in DOMAIN batches : batches[j] >= announced
    <3>1. PICK j \in DOMAIN batches : batches[j] >= announced BY <2>3
    <3>2. j # i BY <2>1, <3>1 DEF v
    <3> QED BY <1>1, <1>3, <3>1, <3>2 DEF UnderWay
  <2> QED BY <1>1, <2>2, <2>3 DEF UnderWay
<1>10. ToldInOrder'
  <2> SUFFICES ASSUME windows' = {}
               PROVE  /\ (conn = "read" => NotBehind(opening)')
                      /\ (conn = "live" => NotBehind(Eventually)')
    BY <1>1 DEF ToldInOrder
  <2>1. v \in Dash!Version /\ newest' <= v /\ v <= version' /\ remover' # "removed"
    BY <1>1, <1>2, <1>5
  <2>2. conn = "read" => opening' = v BY <1>1, <1>4
  <2>3. conn = "live" => Eventually' = v BY <1>4
  <2> QED BY <2>1, <2>2, <2>3 DEF NotBehind
<1> QED BY <1>7, <1>8, <1>9, <1>10 DEF BoardInv

LEMMA RemovalStep == BoardInv /\ (Dash!Unlist \/ Dash!TellRemoved) => BoardInv'
<1> SUFFICES ASSUME BoardInv, Dash!Unlist \/ Dash!TellRemoved PROVE BoardInv' OBVIOUS
<1> USE DashAssumption, VersionsAre DEF Dash!tab
<1>1. CASE Dash!Unlist
  <2>1. /\ UNCHANGED <<version, announced, writer, pending, timer, batches, conn, opening,
                       dashQueue, shown,
                       newest, windows>>
        /\ remover' = "unlisted"
    BY <1>1 DEF Dash!Unlist
  <2>2. BoardTyped' BY <2>1 DEF BoardInv, BoardTyped, Dash!TypeOK
  <2>3. NothingIsAhead' BY <2>1 DEF BoardInv, NothingIsAhead
  <2>4. SaidOrUnderWay' BY <2>1 DEF BoardInv, SaidOrUnderWay, UnderWay
  <2>5. ToldInOrder' BY <2>1 DEF BoardInv, ToldInOrder, NotBehind, Eventually
  <2> QED BY <2>2, <2>3, <2>4, <2>5 DEF BoardInv
<1>2. CASE Dash!TellRemoved
  <2> DEFINE msg == [kind |-> "remove", shows |-> Dash!Nothing]
  <2>1. /\ UNCHANGED <<version, announced, writer, pending, timer, batches, conn, opening, shown,
                       newest>>
        /\ remover' = "removed" /\ Dash!Enqueue(msg, {})
    BY <1>2 DEF Dash!TellRemoved
  <2>2. /\ dashQueue' \in Seq(Message) /\ Len(dashQueue') <= DashDepth
        /\ windows' \subseteq {"overtaken", "ghost", "connect", "overflow"}
        /\ windows \subseteq windows'
        /\ windows' = {} /\ conn = "live" => Eventually' = Dash!Nothing
        /\ windows' = {} /\ conn = "read" => Dash!Nothing = opening
    <3>1. msg \in Message /\ {} \in SUBSET {"overtaken", "ghost"} BY DEF Message
    <3> QED BY <2>1, <3>1, Enqueued
  <2>3. BoardTyped' BY <2>1, <2>2 DEF BoardInv, BoardTyped, Dash!TypeOK
  <2>4. NothingIsAhead' BY <2>1 DEF BoardInv, NothingIsAhead
  <2>5. SaidOrUnderWay' BY <2>1, <2>2 DEF BoardInv, SaidOrUnderWay, UnderWay
  <2>6. ToldInOrder' BY <2>1, <2>2 DEF ToldInOrder, NotBehind
  <2> QED BY <2>3, <2>4, <2>5, <2>6 DEF BoardInv
<1> QED BY <1>1, <1>2

LEMMA OpeningStep ==
  BoardInv /\ (Dash!Join \/ Dash!ReadRegistry \/ Dash!SendSnapshot) => BoardInv'
<1> SUFFICES ASSUME BoardInv, Dash!Join \/ Dash!ReadRegistry \/ Dash!SendSnapshot
             PROVE  BoardInv'
  OBVIOUS
<1> USE DashAssumption, VersionsAre
<1>1. UNCHANGED <<version, announced, remover, writer, pending, timer, batches, shown, newest>>
  BY DEF Dash!Join, Dash!ReadRegistry, Dash!SendSnapshot
<1>2. UnderWay' = UnderWay BY <1>1 DEF UnderWay
<1>3. CASE Dash!Join
  <2>1. conn' = "joined" /\ UNCHANGED <<opening, dashQueue, windows>> BY <1>3 DEF Dash!Join
  <2>2. BoardTyped' BY <1>1, <2>1 DEF BoardInv, BoardTyped, Dash!TypeOK
  <2>3. NothingIsAhead' BY <1>1, <2>1 DEF BoardInv, NothingIsAhead
  <2>4. SaidOrUnderWay' BY <1>1, <1>2, <2>1 DEF BoardInv, SaidOrUnderWay
  <2>5. ToldInOrder' BY <2>1 DEF ToldInOrder
  <2> QED BY <2>2, <2>3, <2>4, <2>5 DEF BoardInv
<1>4. CASE Dash!ReadRegistry
  <2>1. /\ conn' = "read" /\ UNCHANGED <<dashQueue, windows>>
        /\ opening' = IF remover = "registered" THEN version ELSE Dash!Nothing
    BY <1>4 DEF Dash!ReadRegistry, Dash!Listed
  <2>2. version \in Dash!Version /\ opening' \in Versions /\ opening' <= version
    BY <2>1 DEF BoardInv, BoardTyped, Dash!TypeOK
  <2>3. BoardTyped' BY <1>1, <2>1, <2>2 DEF BoardInv, BoardTyped, Dash!TypeOK
  <2>4. NothingIsAhead' BY <1>1, <2>1, <2>2 DEF BoardInv, NothingIsAhead
  <2>5. SaidOrUnderWay' BY <1>1, <1>2, <2>1 DEF BoardInv, SaidOrUnderWay
  <2>6. (NotBehind(opening))'
    BY <1>1, <2>1, <2>2 DEF BoardInv, NothingIsAhead, NotBehind
  <2>7. ToldInOrder' BY <2>1, <2>6 DEF ToldInOrder
  <2> QED BY <2>3, <2>4, <2>5, <2>7 DEF BoardInv
<1>5. CASE Dash!SendSnapshot
  <2> DEFINE msg == [kind |-> "snapshot", shows |-> opening]
  <2>1. /\ conn = "read" /\ conn' = "live" /\ opening' = Dash!Nothing
        /\ IF Len(dashQueue) >= DashDepth
             THEN windows' = windows \cup {"overflow"} /\ UNCHANGED dashQueue
             ELSE dashQueue' = Append(dashQueue, msg) /\ UNCHANGED windows
    BY <1>5 DEF Dash!SendSnapshot
  <2>2. /\ msg \in Message /\ dashQueue \in Seq(Message) /\ Len(dashQueue) \in Nat
        /\ Len(dashQueue) <= DashDepth /\ version \in Int /\ version >= 0
    BY DEF BoardInv, BoardTyped, Dash!TypeOK, Message
  <2>3. /\ Append(dashQueue, msg) \in Seq(Message)
        /\ Len(Append(dashQueue, msg)) = Len(dashQueue) + 1
        /\ Append(dashQueue, msg)[Len(dashQueue) + 1] = msg /\ Append(dashQueue, msg) # <<>>
    BY <2>2
  <2> HIDE DEF msg
  <2>4. /\ dashQueue' \in Seq(Message) /\ Len(dashQueue') <= DashDepth
        /\ windows' \subseteq windows \cup {"overflow"}
        /\ windows' = {} => windows = {} /\ dashQueue' = Append(dashQueue, msg)
    <3>1. CASE Len(dashQueue) >= DashDepth
      <4>1. dashQueue' = dashQueue /\ windows' = windows \cup {"overflow"} BY <2>1, <3>1
      <4> QED BY <2>2, <4>1
    <3>2. CASE ~(Len(dashQueue) >= DashDepth)
      <4>1. dashQueue' = Append(dashQueue, msg) /\ windows' = windows BY <2>1, <3>2
      <4>2. Len(dashQueue) + 1 <= DashDepth BY <2>2, <3>2
      <4> QED BY <2>3, <4>1, <4>2
    <3> QED BY <3>1, <3>2
  <2>5. BoardTyped'
    <3>1. windows' \subseteq {"overtaken", "ghost", "connect", "overflow"}
      BY <2>4 DEF BoardInv, BoardTyped, Dash!TypeOK
    <3> QED BY <1>1, <2>1, <2>4, <3>1 DEF BoardInv, BoardTyped, Dash!TypeOK
  <2>6. NothingIsAhead' BY <1>1, <2>1, <2>2 DEF BoardInv, NothingIsAhead
  <2>7. SaidOrUnderWay' BY <1>1, <1>2, <2>4 DEF BoardInv, SaidOrUnderWay
  <2>8. ToldInOrder'
    <3> SUFFICES ASSUME windows' = {} PROVE NotBehind(Eventually)' BY <2>1 DEF ToldInOrder
    <3>1. Eventually' = opening
      <4>1. dashQueue' = Append(dashQueue, msg) /\ Len(dashQueue') = Len(dashQueue) + 1
        BY <2>3, <2>4
      <4>2. dashQueue'[Len(dashQueue')] = msg /\ dashQueue' # <<>> BY <2>3, <4>1
      <4> QED BY <4>2 DEF Eventually, msg
    <3>2. NotBehind(opening) BY <2>1, <2>4 DEF BoardInv, ToldInOrder
    <3> QED BY <1>1, <3>1, <3>2 DEF NotBehind
  <2> QED BY <2>5, <2>6, <2>7, <2>8 DEF BoardInv
<1> QED BY <1>3, <1>4, <1>5

LEMMA TabStep == BoardInv /\ (Dash!Receive \/ Dash!Disconnect) => BoardInv'
<1> SUFFICES ASSUME BoardInv, Dash!Receive \/ Dash!Disconnect PROVE BoardInv' OBVIOUS
<1> USE DashAssumption, VersionsAre
<1>1. UNCHANGED <<version, announced, remover, writer, pending, timer, batches, newest, windows>>
  BY DEF Dash!Receive, Dash!Disconnect
<1>2. SaidOrUnderWay' BY <1>1 DEF BoardInv, SaidOrUnderWay, UnderWay
<1>3. CASE Dash!Receive
  <2>1. /\ dashQueue # <<>> /\ shown' = Head(dashQueue).shows /\ dashQueue' = Tail(dashQueue)
        /\ UNCHANGED <<conn, opening>>
    BY <1>3 DEF Dash!Receive
  <2>2. dashQueue \in Seq(Message) /\ Len(dashQueue) <= DashDepth
    BY DEF BoardInv, BoardTyped, Dash!TypeOK
  <2>3. /\ Head(dashQueue) \in Message /\ Head(dashQueue) = dashQueue[1]
        /\ dashQueue' \in Seq(Message) /\ Len(dashQueue') = Len(dashQueue) - 1
        /\ Len(dashQueue) \in Nat \ {0}
        /\ \A i \in 1..Len(dashQueue') : dashQueue'[i] = dashQueue[i + 1]
    <3>1. Tail(dashQueue) \in Seq(Message) /\ Head(dashQueue) \in Message
          /\ Len(Tail(dashQueue)) = Len(dashQueue) - 1
          /\ \A i \in 1..Len(Tail(dashQueue)) : Tail(dashQueue)[i] = dashQueue[i + 1]
      BY <2>1, <2>2, HeadTailProperties
    <3>2. Head(dashQueue) = dashQueue[1] /\ Len(dashQueue) \in Nat \ {0} BY <2>1, <2>2
    <3> QED BY <2>1, <3>1, <3>2
  <2>4. Eventually' = Eventually
    <3>1. CASE Len(dashQueue) = 1
      <4>1. dashQueue' = <<>> BY <2>3, <3>1
      <4>2. Eventually' = shown' BY <4>1 DEF Eventually
      <4>3. Eventually = dashQueue[1].shows BY <2>1, <3>1 DEF Eventually
      <4> QED BY <2>1, <2>3, <4>2, <4>3
    <3>2. CASE Len(dashQueue) # 1
      <4>1. dashQueue' # <<>> /\ Len(dashQueue') \in 1..Len(dashQueue')
            /\ Len(dashQueue') + 1 = Len(dashQueue)
        BY <2>3, <3>2
      <4>2. dashQueue'[Len(dashQueue')] = dashQueue[Len(dashQueue)] BY <2>3, <4>1
      <4> QED BY <2>1, <4>1, <4>2 DEF Eventually
    <3> QED BY <3>1, <3>2
  <2>5. BoardTyped'
    <3>1. shown' \in Versions /\ Len(dashQueue') <= DashDepth BY <2>1, <2>2, <2>3 DEF Message
    <3> QED BY <1>1, <2>1, <2>3, <3>1 DEF BoardInv, BoardTyped, Dash!TypeOK
  <2>6. NothingIsAhead' BY <1>1, <2>1 DEF BoardInv, NothingIsAhead
  <2>7. ToldInOrder' BY <1>1, <2>1, <2>4 DEF BoardInv, ToldInOrder, NotBehind
  <2> QED BY <1>2, <2>5, <2>6, <2>7 DEF BoardInv
<1>4. CASE Dash!Disconnect
  <2>1. conn' = "closed" /\ opening' = Dash!Nothing /\ dashQueue' = <<>> /\ UNCHANGED shown
    BY <1>4 DEF Dash!Disconnect
  <2>2. dashQueue' \in Seq(Message) /\ Len(dashQueue') <= DashDepth BY <2>1
  <2>3. BoardTyped' BY <1>1, <2>1, <2>2 DEF BoardInv, BoardTyped, Dash!TypeOK
  <2>4. NothingIsAhead'
    <3>1. version \in Int /\ version >= 0 BY DEF BoardInv, BoardTyped, Dash!TypeOK
    <3> QED BY <1>1, <2>1, <3>1 DEF BoardInv, NothingIsAhead
  <2>5. ToldInOrder' BY <2>1 DEF ToldInOrder
  <2> QED BY <1>2, <2>3, <2>4, <2>5 DEF BoardInv
<1> QED BY <1>3, <1>4

LEMMA BoardNext ==
  ASSUME BoardInv, Dash!Next \/ UNCHANGED boards
  PROVE  BoardInv'
<1>1. CASE UNCHANGED boards
  <2>1. UNCHANGED <<version, announced, remover, writer, pending, timer, batches, conn, opening,
                    dashQueue,
                    shown, newest, windows>>
    BY <1>1 DEF boards
  <2>2. BoardTyped' BY <2>1 DEF BoardInv, BoardTyped, Dash!TypeOK
  <2>3. NothingIsAhead' BY <2>1 DEF BoardInv, NothingIsAhead
  <2>4. SaidOrUnderWay' BY <2>1 DEF BoardInv, SaidOrUnderWay, UnderWay
  <2>5. ToldInOrder' BY <2>1 DEF BoardInv, ToldInOrder, NotBehind, Eventually
  <2> QED BY <2>2, <2>3, <2>4, <2>5 DEF BoardInv
<1> QED
  BY <1>1, WriterStep, UnannouncedStep, CoalesceStep, TakeStep, SendStep, RemovalStep, OpeningStep,
     TabStep
  DEF Dash!Next

LEMMA BoardParts == BoardInv => SettledDashboardIsCurrent
<1> SUFFICES ASSUME BoardInv, Dash!AllIsSaid, conn = "live", dashQueue = <<>>, windows = {}
             PROVE  Dash!Current(shown)
  BY DEF SettledDashboardIsCurrent, Dash!SettledDashboardIsCurrent
<1> USE VersionsAre
<1>1. /\ shown \in Versions /\ newest \in Versions /\ version \in Dash!Version
      /\ announced \in Dash!Version /\ remover \in {"registered", "unlisted", "removed"}
  BY DEF BoardInv, BoardTyped, Dash!TypeOK, NothingIsAhead
<1>2. NotBehind(shown) BY DEF BoardInv, ToldInOrder, Eventually
<1>3. newest >= announced \/ announced = 0
  <2>1. ~UnderWay BY <1>1 DEF Dash!AllIsSaid, UnderWay
  <2> QED BY <2>1 DEF BoardInv, SaidOrUnderWay
<1>4. remover # "unlisted" BY DEF Dash!AllIsSaid
<1> QED BY <1>1, <1>2, <1>3, <1>4 DEF NotBehind, Dash!Current

\* However goroutines change a session and broadcast it, its removal and a dashboard's
\* connecting interleave: a dashboard that has been told everything shows the session as
\* it was at its last announced change, or since, unless one of the four windows was hit
\* (coalesceUpsert, handleDashboardWS).
THEOREM DashboardsCatchUp == ServicesSpec => []SettledDashboardIsCurrent
<1>1. ServicesInit => BoardInv BY BoardInit DEF ServicesInit
<1>2. BoardInv /\ [ServicesNext]_all => BoardInv'
  BY BoardNext DEF ServicesNext, LifeStep, all
<1>3. BoardInv => SettledDashboardIsCurrent BY BoardParts
<1> QED BY <1>1, <1>2, <1>3, PTL DEF ServicesSpec

------------------------------------------------------------------------------
\* GhCache.

Known == -1..pushes

ItemFile == [version : Known, whole : BOOLEAN]

DiffFile == [of : Known, upto : Known, whole : BOOLEAN]

DiffText == [of : Known, whole : BOOLEAN]

ListedItem == [item : Gh!Item, version : 0..pushes]

ListedItems == Seq(ListedItem)

SyncState ==
  [pc : {"idle", "list", "item", "fill", "rename", "meta"}, kind : Gh!Kind, page : Nat \ {0},
   listed : ListedItems, next : Nat \ {0}, began : Nat]

ViewState ==
  [pc : {"idle", "read", "computed", "fill", "rename", "served"}, version : Known, got : DiffText]

MirrorTyped ==
  /\ top \in Gh!Item /\ pushes \in 0..MaxPushes /\ syncs \in 0..MaxSyncs
  /\ sync \in [Syncer -> SyncState]
  /\ tmp \in [Gh!Item -> ItemFile] /\ cached \in [Gh!Item -> ItemFile]
  /\ index \in [Gh!Kind -> SUBSET Gh!Item] /\ covers \in [Gh!Kind -> Nat]

\* One sync runs, and the flag says so; before and between lists nothing was written.
OneSync ==
  /\ syncing <=> \E s \in Syncer : ~Gh!At(s, "idle")
  /\ \A s, t \in Syncer : ~Gh!At(s, "idle") /\ ~Gh!At(t, "idle") => s = t
  /\ \A s \in Syncer : /\ Gh!At(s, "idle") => sync[s] = Gh!Idle
                       /\ Gh!At(s, "list") => sync[s].next = 1

ItemsOf(x) == {x.listed[k].item : k \in DOMAIN x.listed}

OfKind(k) == {n \in Gh!Item : Items[n] = k}

Wanted(k, newestItem) == OfKind(k) \cap 1..newestItem

Before(k, n) == Gh!Newer(Gh!OnEndpoint(k), n)

\* Of a sync: what was there when it began and is not on a page to come has been listed,
\* as pages only shift away from the newest item.
PageOK(x) ==
  /\ x.began <= top /\ ItemsOf(x) \subseteq OfKind(x.kind)
  /\ x.pc = "list" =>
       \A n \in Wanted(x.kind, x.began) :
         Before(x.kind, n) < (x.page - 1) * PerPage => n \in ItemsOf(x)
  /\ x.pc \in {"item", "fill", "rename"} =>
       x.page = 1 /\ Wanted(x.kind, x.began) \subseteq ItemsOf(x)

\* The files of the items that come before the next one are there, and what is about to
\* become a file is whole.
FileOK(x) ==
  /\ x.pc \in {"fill", "rename"} => x.next <= Len(x.listed)
  /\ x.pc = "rename" =>
       tmp[x.listed[x.next].item] = [version |-> x.listed[x.next].version, whole |-> TRUE]
  /\ \A k \in DOMAIN x.listed : k < x.next => cached[x.listed[k].item] # Gh!NoFile

SyncsFit ==
  /\ \A s \in Syncer : PageOK(sync[s]) /\ FileOK(sync[s])
  /\ \A n \in Gh!Item : cached[n].whole

IndexesHold ==
  \A k \in Gh!Kind :
    /\ covers[k] <= top
    /\ index[k] \subseteq OfKind(k) /\ Wanted(k, covers[k]) \subseteq index[k]
    /\ \A n \in index[k] : cached[n] # Gh!NoFile

MirrorInv == MirrorTyped /\ OneSync /\ SyncsFit /\ IndexesHold

DiffsTyped ==
  /\ diff \in DiffFile /\ diffTmp \in DiffFile /\ view \in [Viewer -> ViewState]
  /\ early \in BOOLEAN /\ blurred \in BOOLEAN /\ overlap \in BOOLEAN

\* A diff may be of older commits than it seems.
Excused == early \/ blurred

\* A diff is later than no push but those of the commits it is of, where none is excused;
\* it is renamed when it is whole, as long as there is one writer.
DiffsFit ==
  /\ \A d \in {diff, diffTmp} : d # Gh!NoDiff => d.of >= d.upto \/ Excused
  /\ overlap \/ (diff.whole /\ \A v, w \in Gh!Writers : v = w)
  /\ \A v \in Viewer : view[v].pc = "rename" => diffTmp.whole \/ overlap

DiffInv == DiffsTyped /\ DiffsFit /\ DiffIsOfItsPR

\* GhCache counts with its own copy of the library's operator.
LEMMA SameCardinality == \A S : Gh!Cardinality(S) = Cardinality(S)
BY DEF Gh!Cardinality, Cardinality

\* How many of a finite set of numbers are newer is a numbering of it, from 0 on.
LEMMA Ranks ==
  ASSUME NEW S, S \subseteq Int, IsFiniteSet(S)
  PROVE  /\ Cardinality(S) \in Nat
         /\ \A n \in S : Gh!Newer(S, n) \in 0..Cardinality(S) - 1
         /\ \A m, n \in S : Gh!Newer(S, m) = Gh!Newer(S, n) => m = n
         /\ \A r \in 0..Cardinality(S) - 1 : \E n \in S : Gh!Newer(S, n) = r
<1> DEFINE above(n) == {m \in S : m > n}
           c == Cardinality(S)
           f == [n \in S |-> Gh!Newer(S, n)]
<1>1. c \in Nat BY FS_CardinalityType
<1>2. \A n \in S : /\ above(n) \in SUBSET S /\ IsFiniteSet(above(n))
                   /\ Gh!Newer(S, n) = Cardinality(above(n)) /\ Gh!Newer(S, n) \in Nat
  <2> SUFFICES ASSUME NEW n \in S
               PROVE  /\ above(n) \in SUBSET S /\ IsFiniteSet(above(n))
                      /\ Gh!Newer(S, n) = Cardinality(above(n)) /\ Gh!Newer(S, n) \in Nat
    OBVIOUS
  <2>1. Gh!Newer(S, n) = Cardinality(above(n)) /\ above(n) \in SUBSET S
    BY SameCardinality DEF Gh!Newer
  <2> HIDE DEF above
  <2>2. IsFiniteSet(above(n)) BY <2>1, FS_Subset
  <2>3. Cardinality(above(n)) \in Nat BY <2>2, FS_CardinalityType
  <2> QED BY <2>1, <2>2, <2>3
<1>3. ASSUME NEW m \in S, NEW n \in S, m < n PROVE Gh!Newer(S, n) < Gh!Newer(S, m)
  <2>1. m \in Int /\ n \in Int /\ \A x \in S : x \in Int BY <1>3
  <2>2. above(n) \in SUBSET above(m) /\ n \in above(m) /\ n \notin above(n)
    <3>1. \A x \in S : x > n => x > m BY <1>3, <2>1
    <3>2. n > m /\ ~(n > n) BY <1>3, <2>1
    <3> QED BY <3>1, <3>2
  <2> HIDE DEF above
  <2>3. /\ Cardinality(above(n)) <= Cardinality(above(m))
        /\ Cardinality(above(m)) # Cardinality(above(n))
    BY <1>2, <2>2, FS_Subset
  <2> QED BY <1>2, <2>3
<1>4. ASSUME NEW n \in S PROVE Gh!Newer(S, n) \in 0..c - 1
  <2>1. n \in Int BY <1>4
  <2>3. n \notin above(n) BY <2>1
  <2> HIDE DEF above
  <2>2. Cardinality(above(n)) <= c /\ c # Cardinality(above(n))
    BY <1>2, <1>4, <2>3, FS_Subset
  <2> HIDE DEF c
  <2> QED BY <1>1, <1>2, <1>4, <2>2
<1>5. ASSUME NEW m \in S, NEW n \in S, Gh!Newer(S, m) = Gh!Newer(S, n) PROVE m = n
  <2>1. m < n \/ n < m \/ m = n BY <1>5
  <2>2. Gh!Newer(S, m) \in Nat BY <1>2
  <2> QED BY <1>3, <1>5, <2>1, <2>2
<1>6. f \in Injection(S, 0..c - 1)
  <2>1. f \in [S -> 0..c - 1] BY <1>4
  <2> QED BY <1>5, <2>1 DEF Injection, IsInjective
<1>7. IsFiniteSet(0..c - 1) /\ Cardinality(0..c - 1) = c
  <2> HIDE DEF c
  <2> QED BY <1>1, FS_Interval
<1>8. f \in Surjection(S, 0..c - 1)
  <2> HIDE DEF f
  <2> QED BY <1>6, <1>7, FS_Injection
<1>9. \A r \in 0..c - 1 : \E n \in S : Gh!Newer(S, n) = r BY <1>8 DEF Surjection
<1> QED BY <1>1, <1>4, <1>5, <1>9

\* A page short of "b" items is the last: where there are items after it, it is full.
LEMMA PageIsFull ==
  ASSUME NEW S, S \subseteq Int, IsFiniteSet(S), NEW a \in Nat, NEW b \in Nat,
         NEW n \in S, Gh!Newer(S, n) >= a + b
  PROVE  Cardinality({m \in S : Gh!Newer(S, m) \in a..a + b - 1}) >= b
<1> DEFINE P == {m \in S : Gh!Newer(S, m) \in a..a + b - 1}
           f == [m \in P |-> Gh!Newer(S, m)]
           c == Cardinality(S)
<1>1. /\ c \in Nat /\ Gh!Newer(S, n) \in 0..c - 1
      /\ \A r \in 0..c - 1 : \E m \in S : Gh!Newer(S, m) = r
  BY Ranks
<1>2. IsFiniteSet(P) /\ P \in SUBSET S BY FS_Subset
<1> HIDE DEF c
<1>3. f \in Surjection(P, a..a + b - 1)
  <2>1. f \in [P -> a..a + b - 1] OBVIOUS
  <2>2. ASSUME NEW r \in a..a + b - 1 PROVE \E m \in P : f[m] = r
    <3>1. r \in 0..c - 1 BY <1>1
    <3>2. PICK m \in S : Gh!Newer(S, m) = r BY <1>1, <3>1
    <3> QED BY <3>2
  <2> QED BY <2>1, <2>2 DEF Surjection
<1> HIDE DEF f, P
<1>4. Cardinality(a..a + b - 1) <= Cardinality(P) BY <1>2, <1>3, FS_Surjection
<1>5. Cardinality(a..a + b - 1) = b BY FS_Interval
<1>6. Cardinality(P) \in Nat BY <1>2, FS_CardinalityType
<1> QED BY <1>4, <1>5, <1>6 DEF P

\* Every item is listed once, and nothing else.
LEMMA ListedAll ==
  ASSUME MirrorTyped, NEW S, S \subseteq Gh!Item, IsFiniteSet(S)
  PROVE  Gh!Listed(S) \in Seq(ListedItem) /\ {Gh!Listed(S)[k].item : k \in DOMAIN Gh!Listed(S)} = S
<1> USE GhAssumption
<1>1. /\ Gh!Item \subseteq Nat /\ pushes \in Nat
      /\ \A n \in Gh!Item : Gh!Version(n) \in 0..pushes
  BY DEF MirrorTyped, Gh!Item, Gh!Version
<1> DEFINE c == Cardinality(S)
           nth(k) == CHOOSE n \in S : Gh!Newer(S, n) = k - 1
<1>2. /\ c \in Nat
      /\ \A n \in S : Gh!Newer(S, n) \in 0..c - 1
      /\ \A m, n \in S : Gh!Newer(S, m) = Gh!Newer(S, n) => m = n
      /\ \A r \in 0..c - 1 : \E n \in S : Gh!Newer(S, n) = r
  <2>1. S \subseteq Int BY <1>1
  <2> QED BY <2>1, Ranks
<1> HIDE DEF c
<1>3. \A k \in 1..c : nth(k) \in S
  <2> SUFFICES ASSUME NEW k \in 1..c PROVE nth(k) \in S OBVIOUS
  <2>1. k - 1 \in 0..c - 1 BY <1>2
  <2> QED BY <1>2, <2>1
<1>4. \A n \in S : \E k \in 1..c : nth(k) = n
  <2> SUFFICES ASSUME NEW n \in S PROVE \E k \in 1..c : nth(k) = n OBVIOUS
  <2> DEFINE k == Gh!Newer(S, n) + 1
  <2>1. k \in 1..c /\ k - 1 = Gh!Newer(S, n) BY <1>2
  <2>2. nth(k) \in S /\ Gh!Newer(S, nth(k)) = k - 1 BY <2>1
  <2>3. nth(k) = n BY <1>2, <2>1, <2>2
  <2> QED BY <2>1, <2>3
<1>5. Gh!Listed(S) = [k \in 1..c |-> [item |-> nth(k), version |-> Gh!Version(nth(k))]]
  BY SameCardinality DEF Gh!Listed, c
<1> HIDE DEF nth
<1>6. \A k \in 1..c : [item |-> nth(k), version |-> Gh!Version(nth(k))] \in ListedItem
  BY <1>1, <1>3 DEF ListedItem
<1>7. Gh!Listed(S) \in Seq(ListedItem) /\ DOMAIN Gh!Listed(S) = 1..c
  BY <1>2, <1>5, <1>6
<1>8. \A k \in 1..c : Gh!Listed(S)[k].item = nth(k) BY <1>5
<1> QED BY <1>3, <1>4, <1>7, <1>8

LEMMA EndpointIs ==
  ASSUME MirrorTyped, NEW k \in Gh!Kind
  PROVE  /\ Gh!OnEndpoint(k) \subseteq Gh!Item /\ IsFiniteSet(Gh!OnEndpoint(k))
         /\ Gh!Item \subseteq Nat \ {0} /\ Gh!OnEndpoint(k) \subseteq Int
         /\ \A n \in Wanted(k, top) : n \in Gh!OnEndpoint(k)
         /\ \A n \in Gh!Item : Before(k, n) \in Nat
<1> USE GhAssumption
<1>1. Gh!Item = 1..Len(Items) /\ Len(Items) \in Nat /\ top \in 1..Len(Items)
  BY DEF MirrorTyped, Gh!Item
<1>2. Gh!OnEndpoint(k) \subseteq 1..top BY DEF Gh!OnEndpoint
<1>3. IsFiniteSet(Gh!OnEndpoint(k))
  <2>1. IsFiniteSet(1..top) BY <1>1, FS_Interval
  <2> QED BY <1>2, <2>1, FS_Subset
<1>4. \A n \in Wanted(k, top) : n \in Gh!OnEndpoint(k)
  BY DEF Wanted, OfKind, Gh!OnEndpoint, Gh!Kind
<1>5. ASSUME NEW n \in Gh!Item PROVE Before(k, n) \in Nat
  <2> DEFINE above == {m \in Gh!OnEndpoint(k) : m > n}
  <2>1. above \in SUBSET Gh!OnEndpoint(k) /\ Before(k, n) = Cardinality(above)
    BY SameCardinality DEF Before, Gh!Newer
  <2> HIDE DEF above
  <2>2. IsFiniteSet(above) BY <1>3, <2>1, FS_Subset
  <2> QED BY <2>1, <2>2, FS_CardinalityType
<1> QED BY <1>1, <1>2, <1>3, <1>4, <1>5

LEMMA PagesAre ==
  \A p \in Nat \ {0} :
    /\ (p - 1) * PerPage \in Nat /\ (1 - 1) * PerPage = 0
    /\ p * PerPage = (p - 1) * PerPage + PerPage
    /\ ((p + 1) - 1) * PerPage = (p - 1) * PerPage + PerPage
BY GhAssumption

\* A list and one that goes on after it show what either shows.
LEMMA Joined ==
  ASSUME NEW s \in Seq(ListedItem), NEW t \in Seq(ListedItem)
  PROVE  {(s \o t)[k].item : k \in DOMAIN (s \o t)} =
           {s[k].item : k \in DOMAIN s} \cup {t[k].item : k \in DOMAIN t}
<1> DEFINE u == s \o t
<1>1. /\ Len(s) \in Nat /\ DOMAIN s = 1..Len(s) /\ Len(t) \in Nat /\ DOMAIN t = 1..Len(t)
      /\ u \in Seq(ListedItem) /\ DOMAIN u = 1..Len(s) + Len(t)
      /\ \A k \in 1..Len(s) + Len(t) :
           u[k] = IF k <= Len(s) THEN s[k] ELSE t[k - Len(s)]
  BY ConcatProperties
<1> HIDE DEF u
<1>2. ASSUME NEW k \in DOMAIN s PROVE k \in DOMAIN u /\ u[k] = s[k] BY <1>1, <1>2
<1>3. ASSUME NEW k \in DOMAIN t PROVE \E j \in DOMAIN u : u[j] = t[k]
  <2>1. Len(s) + k \in DOMAIN u /\ ~(Len(s) + k <= Len(s)) /\ (Len(s) + k) - Len(s) = k
    BY <1>1, <1>3
  <2> QED BY <1>1, <2>1
<1>4. ASSUME NEW k \in DOMAIN u
      PROVE  (\E j \in DOMAIN s : u[k] = s[j]) \/ (\E j \in DOMAIN t : u[k] = t[j])
  <2>1. CASE k <= Len(s)
    <3>1. k \in DOMAIN s BY <1>1, <1>4, <2>1
    <3> QED BY <1>2, <3>1
  <2>2. CASE ~(k <= Len(s))
    <3>1. k - Len(s) \in DOMAIN t BY <1>1, <1>4, <2>2
    <3> QED BY <1>1, <1>4, <2>2, <3>1
  <2> QED BY <2>1, <2>2
<1>5. {u[k].item : k \in DOMAIN u} =
        {s[k].item : k \in DOMAIN s} \cup {t[k].item : k \in DOMAIN t}
  BY <1>2, <1>3, <1>4
<1> QED BY <1>5 DEF u

LEMMA MirrorInit == Gh!Init => MirrorInv
<1> SUFFICES ASSUME Gh!Init PROVE MirrorInv OBVIOUS
<1> USE GhAssumption DEF Gh!Init
<1>1. /\ 1 \in Gh!Item /\ Known = -1..0 /\ Gh!NoFile \in ItemFile
      /\ Gh!Idle \in SyncState /\ Gh!Item \subseteq Nat
  <2>1. 1 \in Gh!Item /\ Gh!Item \subseteq Nat BY DEF Gh!Item
  <2>2. Known = -1..0 BY DEF Known
  <2>3. Gh!NoFile \in ItemFile BY <2>2 DEF Gh!NoFile, ItemFile, Gh!Nobody
  <2>4. Gh!Idle \in SyncState
    <3>1. <<>> \in ListedItems BY DEF ListedItems
    <3> QED BY <3>1 DEF Gh!Idle, SyncState, Gh!Kind
  <2> QED BY <2>1, <2>2, <2>3, <2>4
<1>2. MirrorTyped
  <2>1. sync \in [Syncer -> SyncState] BY <1>1
  <2>2. tmp \in [Gh!Item -> ItemFile] /\ cached \in [Gh!Item -> ItemFile] BY <1>1
  <2>3. index \in [Gh!Kind -> SUBSET Gh!Item] /\ covers \in [Gh!Kind -> Nat] OBVIOUS
  <2>4. top \in Gh!Item /\ pushes \in 0..MaxPushes /\ syncs \in 0..MaxSyncs BY <1>1
  <2> QED BY <2>1, <2>2, <2>3, <2>4 DEF MirrorTyped
<1>3. OneSync
  <2>1. \A s \in Syncer : sync[s] = Gh!Idle /\ Gh!At(s, "idle") /\ ~Gh!At(s, "list")
    BY DEF Gh!At, Gh!Idle
  <2>2. ~syncing OBVIOUS
  <2> QED BY <2>1, <2>2 DEF OneSync
<1>4. PageOK(Gh!Idle) /\ FileOK(Gh!Idle)
  BY DEF PageOK, FileOK, ItemsOf, Gh!Idle
<1>5. SyncsFit
  <2>1. \A n \in Gh!Item : cached[n].whole BY DEF Gh!NoFile
  <2> QED BY <1>4, <2>1 DEF SyncsFit
<1>6. IndexesHold
  <2> SUFFICES ASSUME NEW k \in Gh!Kind
               PROVE  covers[k] <= top /\ index[k] = {} /\ Wanted(k, covers[k]) = {}
    BY DEF IndexesHold
  <2>1. covers[k] = 0 /\ index[k] = {} OBVIOUS
  <2>2. Wanted(k, covers[k]) = {} BY <2>1 DEF Wanted
  <2>3. covers[k] <= top BY <2>1
  <2> QED BY <2>1, <2>2, <2>3
<1> QED BY <1>2, <1>3, <1>5, <1>6 DEF MirrorInv

\* A sync moves alone: what holds of it where it goes holds of all.
LEMMA SyncMoves ==
  ASSUME MirrorInv, NEW s \in Syncer, NEW to \in SyncState,
         ~Gh!At(s, "idle") \/ ~syncing,
         sync' = [sync EXCEPT ![s] = to], UNCHANGED <<top, pushes>>,
         syncing' <=> to.pc # "idle", to.pc = "idle" => to = Gh!Idle,
         to.pc = "list" => to.next = 1,
         PageOK(to)', FileOK(to)', \A n \in Gh!Item : cached'[n].whole
  PROVE  (sync \in [Syncer -> SyncState])' /\ OneSync' /\ SyncsFit'
<1>1. \A t \in Syncer : t # s => sync[t] = Gh!Idle BY DEF MirrorInv, OneSync
<1>2. SyncState' = SyncState BY DEF SyncState, ListedItems, ListedItem, Known
<1>3. /\ sync' \in [Syncer -> SyncState] /\ sync'[s] = to
      /\ \A t \in Syncer : t # s => sync'[t] = Gh!Idle
  BY <1>1 DEF MirrorInv, MirrorTyped
<1>4. OneSync'
  <2>1. \A t \in Syncer : t # s => Gh!At(t, "idle")' /\ ~Gh!At(t, "list")'
    BY <1>3 DEF Gh!At, Gh!Idle
  <2>2. Gh!At(s, "idle")' <=> to.pc = "idle" BY <1>3 DEF Gh!At
  <2>3. Gh!At(s, "list")' <=> to.pc = "list" BY <1>3 DEF Gh!At
  <2>4. (syncing <=> \E t \in Syncer : ~Gh!At(t, "idle"))' BY <2>1, <2>2
  <2> QED BY <1>3, <2>1, <2>2, <2>3, <2>4 DEF OneSync
<1>5. (PageOK(Gh!Idle) /\ FileOK(Gh!Idle))'
  <2>1. top \in Nat BY EndpointIs DEF MirrorInv, MirrorTyped, Gh!Kind
  <2> QED BY <2>1 DEF PageOK, FileOK, ItemsOf, Gh!Idle
<1>6. SyncsFit'
  <2>1. ASSUME NEW t \in Syncer PROVE (PageOK(sync[t]))' /\ (FileOK(sync[t]))'
    <3>1. CASE t = s BY <1>3, <3>1 DEF PageOK, FileOK
    <3>2. CASE t # s
      <4>1. sync'[t] = Gh!Idle BY <1>3, <3>2
      <4> QED BY <1>5, <4>1 DEF PageOK, FileOK
    <3> QED BY <3>1, <3>2
  <2> QED BY <2>1 DEF SyncsFit
<1> QED BY <1>2, <1>3, <1>4, <1>6

\* What a file tells stays true while files stay.
LEMMA IndexesKept ==
  ASSUME MirrorInv, UNCHANGED <<index, covers>>, top' \in Nat, top <= top',
         \A n \in Gh!Item : cached[n] # Gh!NoFile => cached'[n] # Gh!NoFile
  PROVE  IndexesHold'
<1> SUFFICES ASSUME NEW k \in Gh!Kind
             PROVE  /\ covers[k] <= top'
                    /\ index[k] \subseteq OfKind(k) /\ Wanted(k, covers[k]) \subseteq index[k]
                    /\ \A n \in index[k] : cached'[n] # Gh!NoFile
  BY DEF IndexesHold, OfKind, Wanted
<1>1. /\ covers[k] <= top
      /\ index[k] \subseteq OfKind(k) /\ Wanted(k, covers[k]) \subseteq index[k]
      /\ \A n \in index[k] : cached[n] # Gh!NoFile
  BY DEF MirrorInv, IndexesHold
<1>2. top \in Nat /\ covers[k] \in Nat
  BY EndpointIs DEF MirrorInv, MirrorTyped, Gh!Kind
<1>3. covers[k] <= top' BY <1>1, <1>2
<1> QED BY <1>1, <1>3 DEF OfKind

LEMMA GithubStep == MirrorInv /\ (Gh!Create \/ Gh!Push) => MirrorInv'
<1> SUFFICES ASSUME MirrorInv, Gh!Create \/ Gh!Push PROVE MirrorInv' OBVIOUS
<1> USE GhAssumption
<1>1. /\ UNCHANGED <<syncing, syncs, sync, tmp, cached, index, covers>>
      /\ top' \in Gh!Item /\ top <= top' /\ pushes' \in 0..MaxPushes /\ pushes <= pushes'
      /\ top \in Nat /\ Gh!Item \subseteq Nat
  <2>1. /\ top \in Gh!Item /\ pushes \in 0..MaxPushes /\ Gh!Item \subseteq Nat
        /\ MaxPushes \in Nat
    BY DEF MirrorInv, MirrorTyped, Gh!Item
  <2>2. CASE Gh!Create
    <3>1. /\ UNCHANGED <<syncing, syncs, sync, tmp, cached, index, covers>>
          /\ top + 1 \in Gh!Item /\ top' = top + 1 /\ pushes' = pushes
      BY <2>2 DEF Gh!Create, Gh!mirror
    <3> QED BY <2>1, <3>1
  <2>3. CASE Gh!Push
    <3>1. /\ UNCHANGED <<syncing, syncs, sync, tmp, cached, index, covers>>
          /\ top' = top /\ pushes' = pushes + 1 /\ pushes < MaxPushes
      BY <2>3 DEF Gh!Push, Gh!mirror
    <3> QED BY <2>1, <3>1
  <2> QED BY <2>2, <2>3
<1>2. /\ Known \subseteq Known' /\ ItemFile \subseteq ItemFile'
      /\ ListedItem \subseteq ListedItem' /\ SyncState \subseteq SyncState'
  <2>1. Known \subseteq Known' /\ 0..pushes \subseteq 0..pushes'
    BY <1>1 DEF Known, MirrorInv, MirrorTyped
  <2>2. ItemFile \subseteq ItemFile' BY <2>1 DEF ItemFile
  <2>3. ListedItem \subseteq ListedItem' BY <2>1 DEF ListedItem
  <2>4. Seq(ListedItem) \subseteq Seq(ListedItem')
    <3> SUFFICES ASSUME NEW s \in Seq(ListedItem) PROVE s \in Seq(ListedItem') OBVIOUS
    <3>1. /\ Len(s) \in Nat /\ s = [k \in 1..Len(s) |-> s[k]]
          /\ \A k \in 1..Len(s) : s[k] \in ListedItem
      OBVIOUS
    <3>2. \A k \in 1..Len(s) : s[k] \in ListedItem' BY <2>3, <3>1
    <3> QED BY <3>1, <3>2
  <2>5. SyncState \subseteq SyncState'
    <3>1. ListedItems \subseteq ListedItems' BY <2>4 DEF ListedItems
    <3> QED BY <3>1 DEF SyncState
  <2> QED BY <2>1, <2>2, <2>3, <2>5
<1>3. MirrorTyped' BY <1>1, <1>2 DEF MirrorInv, MirrorTyped
<1>4. OneSync' BY <1>1 DEF MirrorInv, OneSync, Gh!At
<1>5. ASSUME NEW k \in Gh!Kind, NEW n \in Gh!Item
      PROVE  Before(k, n) \in Nat /\ Before(k, n)' \in Nat /\ Before(k, n) <= Before(k, n)'
  <2> DEFINE now == {m \in Gh!OnEndpoint(k) : m > n}
             then == {m \in Gh!OnEndpoint(k)' : m > n}
  <2>1. now \in SUBSET then BY <1>1 DEF Gh!OnEndpoint
  <2>2. IsFiniteSet(then)
    <3>1. then \in SUBSET (1..top') BY DEF Gh!OnEndpoint
    <3>2. IsFiniteSet(1..top') BY <1>1, FS_Interval
    <3> QED BY <3>1, <3>2, FS_Subset
  <2>3. Before(k, n) = Cardinality(now) /\ Before(k, n)' = Cardinality(then)
    BY SameCardinality DEF Before, Gh!Newer
  <2> HIDE DEF now, then
  <2>4. IsFiniteSet(now) /\ Cardinality(now) <= Cardinality(then) BY <2>1, <2>2, FS_Subset
  <2> QED BY <2>2, <2>3, <2>4, FS_CardinalityType
<1>6. SyncsFit'
  <2>1. ASSUME NEW s \in Syncer PROVE (PageOK(sync[s]) /\ FileOK(sync[s]))'
    <3>1. PICK x \in SyncState : x = sync[s] /\ PageOK(x) /\ FileOK(x)
      BY DEF MirrorInv, MirrorTyped, SyncsFit
    <3>2. /\ x.kind \in Gh!Kind /\ x.page \in Nat \ {0} /\ x.began \in Nat
          /\ (x.page - 1) * PerPage \in Nat
      BY <3>1, PagesAre DEF SyncState
    <3>3. ASSUME x.pc = "list", NEW n \in Wanted(x.kind, x.began),
                 Before(x.kind, n)' < (x.page - 1) * PerPage
          PROVE  n \in ItemsOf(x)
      <4>1. n \in Gh!Item BY DEF Wanted, OfKind
      <4>2. Before(x.kind, n) < (x.page - 1) * PerPage BY <1>5, <3>2, <3>3, <4>1
      <4> QED BY <3>1, <3>3, <4>2 DEF PageOK
    <3>4. x.began <= top' BY <1>1, <3>1, <3>2 DEF PageOK
    <3>5. (PageOK(x))' BY <3>1, <3>3, <3>4 DEF PageOK, ItemsOf, Wanted, OfKind
    <3>6. (FileOK(x))' BY <1>1, <3>1 DEF FileOK
    <3> QED BY <1>1, <3>1, <3>5, <3>6 DEF PageOK, FileOK
  <2>2. \A n \in Gh!Item : cached'[n].whole BY <1>1 DEF MirrorInv, SyncsFit
  <2> QED BY <2>1, <2>2 DEF SyncsFit
<1>7. IndexesHold'
  <2>1. top \in Nat /\ top <= top
    BY EndpointIs DEF MirrorInv, MirrorTyped, Gh!Kind
  <2> QED BY <1>1, <2>1, IndexesKept
<1> QED BY <1>3, <1>4, <1>6, <1>7 DEF MirrorInv

LEMMA SyncStartStep ==
  ASSUME MirrorInv, NEW s \in Syncer, Gh!StartSync(s)
  PROVE  MirrorInv'
<1> USE GhAssumption
<1>1. /\ UNCHANGED <<top, pushes, tmp, cached, index, covers>> /\ syncing' /\ ~syncing
      /\ syncs' \in 0..MaxSyncs /\ top \in Nat /\ sync[s] = Gh!Idle
      /\ sync' = [sync EXCEPT ![s] = [Gh!Idle EXCEPT !.pc = "list", !.began = top]]
  <2>1. top \in Nat BY EndpointIs DEF MirrorInv, MirrorTyped, Gh!Kind
  <2>2. sync[s] = Gh!Idle BY DEF Gh!StartSync, MirrorInv, OneSync
  <2>3. syncing' = TRUE /\ ~syncing BY DEF Gh!StartSync, Gh!tryStart
  <2>4. syncs' = syncs + 1 /\ syncs < MaxSyncs /\ syncs \in 0..MaxSyncs
    BY DEF Gh!StartSync, MirrorInv, MirrorTyped
  <2>5. UNCHANGED <<top, pushes, tmp, cached, index, covers>>
    BY DEF Gh!StartSync, Gh!github
  <2>6. sync' = [sync EXCEPT ![s] = [Gh!Idle EXCEPT !.pc = "list", !.began = top]]
    BY <2>2 DEF Gh!StartSync
  <2> QED BY <2>1, <2>2, <2>3, <2>4, <2>5, <2>6
<1>2. PICK to : to = [Gh!Idle EXCEPT !.pc = "list", !.began = top]
  OBVIOUS
<1>3. /\ to \in SyncState /\ sync' = [sync EXCEPT ![s] = to]
      /\ to.pc = "list" /\ to.next = 1 /\ to.page = 1 /\ to.listed = <<>>
      /\ to.began = top /\ to.kind \in Gh!Kind
  <2>1. /\ Gh!Idle \in SyncState
        /\ Gh!Idle.next = 1 /\ Gh!Idle.page = 1 /\ Gh!Idle.listed = <<>> /\ Gh!Idle.kind = "issue"
    <3>1. Gh!Idle \in SyncState BY <1>1 DEF MirrorInv, MirrorTyped
    <3> QED BY <3>1 DEF Gh!Idle
  <2>2. to \in SyncState BY <1>1, <1>2, <2>1 DEF SyncState
  <2>3. /\ to.pc = "list" /\ to.next = 1 /\ to.page = 1 /\ to.listed = <<>>
        /\ to.began = top /\ to.kind \in Gh!Kind
    BY <1>2, <2>1 DEF SyncState, Gh!Kind
  <2> QED BY <1>1, <1>2, <2>2, <2>3
<1>4. (PageOK(to))'
  <2>1. ItemsOf(to) = {} BY <1>3 DEF ItemsOf
  <2>2. \A n \in Gh!Item : ~((Before(to.kind, n))' < 0)
    <3>1. \A n \in Gh!Item : Before(to.kind, n) \in Nat BY <1>3, EndpointIs DEF MirrorInv
    <3>2. \A n \in Gh!Item : (Before(to.kind, n))' = Before(to.kind, n)
      BY <1>1 DEF Before, Gh!OnEndpoint
    <3> QED BY <3>1, <3>2
  <2>3. (to.page - 1) * PerPage = 0 BY <1>3, PagesAre
  <2>4. to.began <= top' BY <1>1, <1>3
  <2> QED BY <1>3, <2>1, <2>2, <2>3, <2>4 DEF PageOK, Wanted, OfKind
<1>5. (FileOK(to))' BY <1>3 DEF FileOK
<1>6. \A n \in Gh!Item : cached'[n].whole BY <1>1 DEF MirrorInv, SyncsFit
<1>7. (sync \in [Syncer -> SyncState])' /\ OneSync' /\ SyncsFit'
  BY <1>1, <1>3, <1>4, <1>5, <1>6, SyncMoves
<1>8. MirrorTyped'
  BY <1>1, <1>7 DEF MirrorInv, MirrorTyped, ItemFile, Known
<1>9. IndexesHold'
  <2>1. top \in Nat /\ top <= top
    BY EndpointIs DEF MirrorInv, MirrorTyped, Gh!Kind
  <2> QED BY <1>1, <2>1, IndexesKept
<1> QED BY <1>7, <1>8, <1>9 DEF MirrorInv

LEMMA ListStep ==
  ASSUME MirrorInv, NEW s \in Syncer, Gh!ListPage(s)
  PROVE  MirrorInv'
<1> USE GhAssumption
<1>1. PICK x \in SyncState : x = sync[s] /\ PageOK(x) /\ FileOK(x)
  BY DEF MirrorInv, MirrorTyped, SyncsFit
<1> DEFINE k == x.kind
           p == x.page
           last == Gh!LastPage(k, p)
           more == Gh!Listed(Gh!Kept(k, p))
<1>2. /\ UNCHANGED <<top, pushes, syncing, syncs, tmp, cached, index, covers>>
      /\ x.pc = "list" /\ x.next = 1 /\ syncing /\ k \in Gh!Kind /\ p \in Nat \ {0}
      /\ x.listed \in Seq(ListedItem)
      /\ sync' = [sync EXCEPT ![s] = [x EXCEPT !.listed = x.listed \o more,
                                               !.page = IF last THEN 1 ELSE p + 1,
                                               !.pc = IF last THEN "item" ELSE "list"]]
  <2>1. Gh!At(s, "list") /\ ~Gh!At(s, "idle") /\ x.pc = "list" /\ x.next = 1
    BY <1>1 DEF Gh!ListPage, Gh!At, MirrorInv, OneSync
  <2>2. syncing BY <2>1 DEF MirrorInv, OneSync
  <2>3. k \in Gh!Kind /\ p \in Nat \ {0} /\ x.listed \in Seq(ListedItem)
    <3>1. x.kind \in Gh!Kind BY DEF SyncState
    <3>2. x.page \in Nat \ {0} BY DEF SyncState
    <3>3. x.listed \in ListedItems BY DEF SyncState
    <3>4. x.listed \in Seq(ListedItem) BY <3>3 DEF ListedItems
    <3> QED BY <3>1, <3>2, <3>4
  <2>4. UNCHANGED <<top, pushes, syncing, syncs, tmp, cached, index, covers>>
    BY DEF Gh!ListPage, Gh!github
  <2>5. sync' = [sync EXCEPT ![s] = [x EXCEPT !.listed = x.listed \o more,
                                              !.page = IF last THEN 1 ELSE p + 1,
                                              !.pc = IF last THEN "item" ELSE "list"]]
    <3>1. sync' = [sync EXCEPT ![s] =
                     [sync[s] EXCEPT
                        !.listed = sync[s].listed
                                     \o Gh!Listed(Gh!Kept(sync[s].kind, sync[s].page)),
                        !.page = IF Gh!LastPage(sync[s].kind, sync[s].page)
                                   THEN 1 ELSE sync[s].page + 1,
                        !.pc = IF Gh!LastPage(sync[s].kind, sync[s].page)
                                 THEN "item" ELSE "list"]]
      BY DEF Gh!ListPage
    <3> QED BY <1>1, <3>1
  <2> QED BY <2>1, <2>2, <2>3, <2>4, <2>5
<1>3. /\ Gh!Kept(k, p) \subseteq OfKind(k) /\ Gh!Kept(k, p) \subseteq Gh!Page(k, p)
      /\ more \in Seq(ListedItem)
      /\ {more[j].item : j \in DOMAIN more} = Gh!Kept(k, p)
  <2>1. /\ Gh!OnEndpoint(k) \subseteq Gh!Item /\ IsFiniteSet(Gh!OnEndpoint(k))
    BY <1>2, EndpointIs DEF MirrorInv
  <2>2. /\ Gh!Kept(k, p) \subseteq OfKind(k) /\ Gh!Kept(k, p) \subseteq Gh!Page(k, p)
        /\ Gh!Kept(k, p) \in SUBSET Gh!OnEndpoint(k)
    BY <2>1 DEF Gh!Kept, Gh!Page, OfKind
  <2>3. IsFiniteSet(Gh!Kept(k, p)) BY <2>1, <2>2, FS_Subset
  <2> QED BY <2>1, <2>2, <2>3, ListedAll DEF MirrorInv
<1>4. PICK to : to = [x EXCEPT !.listed = x.listed \o more, !.page = IF last THEN 1 ELSE p + 1,
                              !.pc = IF last THEN "item" ELSE "list"]
  OBVIOUS
<1>5. to \in SyncState /\ sync' = [sync EXCEPT ![s] = to]
  <2>1. x.listed \o more \in ListedItems BY <1>2, <1>3, ConcatProperties DEF ListedItems
  <2> HIDE DEF more, last
  <2>2. (IF last THEN 1 ELSE p + 1) \in Nat \ {0} BY <1>2
  <2>3. (IF last THEN "item" ELSE "list") \in {"item", "list"} OBVIOUS
  <2>4. to \in SyncState BY <1>4, <2>1, <2>2, <2>3 DEF SyncState
  <2> QED BY <1>2, <1>4, <2>4
<1>6. /\ to.kind = k /\ to.began = x.began /\ to.next = 1 /\ to.pc \in {"item", "list"}
      /\ last => to.pc = "item" /\ to.page = 1
      /\ ~last => to.pc = "list" /\ to.page = p + 1
      /\ to.listed = x.listed \o more
  <2> HIDE DEF more, last
  <2> QED BY <1>2, <1>4 DEF SyncState
<1> HIDE DEF more, last, k, p
<1>7. ItemsOf(to) = ItemsOf(x) \cup Gh!Kept(k, p)
  <2>1. ItemsOf(to) = {(x.listed \o more)[j].item : j \in DOMAIN (x.listed \o more)}
    BY <1>6 DEF ItemsOf
  <2>2. @ = {x.listed[j].item : j \in DOMAIN x.listed} \cup {more[j].item : j \in DOMAIN more}
    BY <1>2, <1>3, Joined
  <2> QED BY <1>3, <2>1, <2>2 DEF ItemsOf
<1>8. /\ Gh!OnEndpoint(k) \subseteq Int /\ IsFiniteSet(Gh!OnEndpoint(k))
      /\ \A n \in Wanted(k, top) : n \in Gh!OnEndpoint(k) /\ Before(k, n) \in Nat
      /\ (p - 1) * PerPage \in Nat /\ p * PerPage = (p - 1) * PerPage + PerPage
      /\ ((p + 1) - 1) * PerPage = (p - 1) * PerPage + PerPage
      /\ x.began <= top /\ top \in Nat /\ x.began \in Nat
  <2>1. top \in Nat BY EndpointIs DEF MirrorInv, MirrorTyped, Gh!Kind
  <2> QED
    BY <1>1, <1>2, <2>1, EndpointIs, PagesAre
    DEF MirrorInv, Wanted, OfKind, PageOK, SyncState
<1>9. ASSUME NEW n \in Wanted(k, x.began), Before(k, n) < (p - 1) * PerPage + PerPage
      PROVE  n \in ItemsOf(to)
  <2>1. n \in Wanted(k, top) /\ n \in OfKind(k) BY <1>8 DEF Wanted, OfKind
  <2>2. CASE Before(k, n) < (p - 1) * PerPage
    BY <1>1, <1>2, <1>7, <2>2 DEF PageOK, k, p
  <2>3. CASE ~(Before(k, n) < (p - 1) * PerPage)
    <3>1. Before(k, n) \in (p - 1) * PerPage..p * PerPage - 1 BY <1>8, <1>9, <2>1, <2>3
    <3>2. n \in Gh!Kept(k, p)
      BY <1>8, <2>1, <3>1 DEF Gh!Kept, Gh!Page, Before, OfKind
    <3> QED BY <1>7, <3>2
  <2> QED BY <2>2, <2>3
<1>10. ASSUME last, NEW n \in Wanted(k, x.began)
       PROVE  Before(k, n) < (p - 1) * PerPage + PerPage
  <2>1. n \in Wanted(k, top) /\ n \in Gh!OnEndpoint(k) /\ Before(k, n) \in Nat
    <3>1. n \in Wanted(k, top) BY <1>8 DEF Wanted, OfKind
    <3> QED BY <1>8, <3>1
  <2> SUFFICES ASSUME ~(Before(k, n) < (p - 1) * PerPage + PerPage) PROVE FALSE OBVIOUS
  <2>2. Gh!Newer(Gh!OnEndpoint(k), n) >= (p - 1) * PerPage + PerPage
    <3>1. Before(k, n) >= (p - 1) * PerPage + PerPage
      <4>1. (p - 1) * PerPage \in Nat /\ PerPage \in Nat BY <1>8
      <4> QED BY <2>1, <4>1
    <3> QED BY <3>1, Zenon DEF Before
  <2>3. Cardinality({m \in Gh!OnEndpoint(k) :
                       Gh!Newer(Gh!OnEndpoint(k), m)
                         \in (p - 1) * PerPage..(p - 1) * PerPage + PerPage - 1}) >= PerPage
    BY <1>8, <2>1, <2>2, PageIsFull
  <2>4. Cardinality(Gh!Page(k, p)) >= PerPage
    <3>1. (p - 1) * PerPage + PerPage - 1 = p * PerPage - 1 BY <1>8
    <3> QED BY <2>3, <3>1, Zenon DEF Gh!Page
  <2>5. IsFiniteSet(Gh!Page(k, p)) BY <1>8, FS_Subset DEF Gh!Page
  <2>6. Cardinality(Gh!Page(k, p)) \in Nat BY <2>5, FS_CardinalityType
  <2> QED BY <1>10, <2>4, <2>6, SameCardinality DEF last, Gh!LastPage
<1>11. (PageOK(to))'
  <2>1. \A n \in Gh!Item : (Before(k, n))' = Before(k, n) BY <1>2 DEF Before, Gh!OnEndpoint, k
  <2>2. ItemsOf(to) \subseteq OfKind(k) BY <1>1, <1>3, <1>7 DEF PageOK, k
  <2>3. to.began <= top' BY <1>2, <1>6, <1>8
  <2>4. to.pc = "list" =>
          \A n \in Wanted(k, x.began) :
            (Before(k, n))' < (to.page - 1) * PerPage => n \in ItemsOf(to)
    <3>1. to.pc = "list" => (to.page - 1) * PerPage = (p - 1) * PerPage + PerPage
      BY <1>6, <1>8
    <3> QED BY <1>9, <2>1, <3>1 DEF Wanted, OfKind
  <2>5. to.pc = "item" => to.page = 1 /\ Wanted(k, x.began) \subseteq ItemsOf(to)
    BY <1>6, <1>9, <1>10
  <2> QED BY <1>6, <2>2, <2>3, <2>4, <2>5 DEF PageOK, ItemsOf, OfKind, Wanted
<1>12. (FileOK(to))'
  <2>1. DOMAIN to.listed \subseteq Nat \ {0}
    <3>1. to.listed \in Seq(ListedItem) BY <1>5 DEF SyncState, ListedItems
    <3> QED BY <3>1
  <2> QED BY <1>6, <2>1 DEF FileOK
<1>13. \A n \in Gh!Item : cached'[n].whole BY <1>2 DEF MirrorInv, SyncsFit
<1>14. (sync \in [Syncer -> SyncState])' /\ OneSync' /\ SyncsFit'
  <2>1. ~Gh!At(s, "idle") BY <1>1, <1>2 DEF Gh!At
  <2> QED BY <1>2, <1>5, <1>6, <1>11, <1>12, <1>13, <2>1, SyncMoves
<1>15. MirrorTyped'
  BY <1>2, <1>14 DEF MirrorInv, MirrorTyped, ItemFile, Known
<1>16. IndexesHold'
  <2>1. top \in Nat /\ top <= top
    BY EndpointIs DEF MirrorInv, MirrorTyped, Gh!Kind
  <2> QED BY <1>2, <2>1, IndexesKept
<1> QED BY <1>14, <1>15, <1>16 DEF MirrorInv

\* The next item has a place in the list and a file.
LEMMA WritingIs ==
  ASSUME MirrorInv, NEW x \in SyncState, x.next <= Len(x.listed)
  PROVE  /\ x.next \in DOMAIN x.listed /\ x.listed[x.next] \in ListedItem
         /\ x.listed[x.next].item \in Gh!Item /\ x.listed[x.next].version \in Known
         /\ x.listed[x.next].version # -1
<1>1. x.listed \in Seq(ListedItem) /\ x.next \in Nat \ {0}
  <2>1. x.listed \in ListedItems BY DEF SyncState
  <2> QED BY <2>1 DEF SyncState, ListedItems
<1>2. x.next \in DOMAIN x.listed BY <1>1
<1>3. x.listed[x.next] \in ListedItem BY <1>1, <1>2
<1> QED BY <1>2, <1>3 DEF ListedItem, Known, MirrorInv, MirrorTyped

LEMMA TmpStep ==
  ASSUME MirrorInv, NEW s \in Syncer, Gh!EmptyTmp(s) \/ Gh!FillTmp(s)
  PROVE  MirrorInv'
<1>1. PICK x \in SyncState : x = sync[s] /\ PageOK(x) /\ FileOK(x)
  BY DEF MirrorInv, MirrorTyped, SyncsFit
<1> DEFINE e == x.listed[x.next]
<1>2. /\ UNCHANGED <<top, pushes, syncing, syncs, cached, index, covers>>
      /\ x.pc \in {"item", "fill"} /\ x.next <= Len(x.listed)
  <2>1. x.pc \in {"item", "fill"} BY <1>1 DEF Gh!EmptyTmp, Gh!FillTmp, Gh!At
  <2>2. x.next <= Len(x.listed)
    BY <1>1 DEF Gh!EmptyTmp, Gh!FillTmp, Gh!At, FileOK
  <2> QED BY <2>1, <2>2 DEF Gh!EmptyTmp, Gh!FillTmp, Gh!github
<1>3. PICK to, whole :
        /\ whole \in BOOLEAN
        /\ to = [x EXCEPT !.pc = IF whole THEN "rename" ELSE "fill"]
                       /\ sync' = [sync EXCEPT ![s] = to]
                       /\ tmp' = [tmp EXCEPT ![e.item] = [version |-> e.version, whole |-> whole]]
  <2>1. CASE Gh!EmptyTmp(s)
    <3> DEFINE to == [x EXCEPT !.pc = IF FALSE THEN "rename" ELSE "fill"]
    <3>1. sync' = [sync EXCEPT ![s] = to] BY <1>1, <2>1 DEF Gh!EmptyTmp, Gh!Goto
    <3>2. tmp' = [tmp EXCEPT ![e.item] = [version |-> e.version, whole |-> FALSE]]
      BY <1>1, <2>1 DEF Gh!EmptyTmp, Gh!Writing
    <3> QED BY <3>1, <3>2
  <2>2. CASE Gh!FillTmp(s)
    <3> DEFINE to == [x EXCEPT !.pc = IF TRUE THEN "rename" ELSE "fill"]
    <3>1. sync' = [sync EXCEPT ![s] = to] BY <1>1, <2>2 DEF Gh!FillTmp, Gh!Goto
    <3>2. tmp' = [tmp EXCEPT ![e.item] = [version |-> e.version, whole |-> TRUE]]
      BY <1>1, <2>2 DEF Gh!FillTmp, Gh!Writing
    <3> QED BY <3>1, <3>2
  <2> QED BY <2>1, <2>2
<1>4. e.item \in Gh!Item /\ e.version \in Known BY <1>2, WritingIs
<1> HIDE DEF e
<1>5. /\ to \in SyncState /\ to.pc = (IF whole THEN "rename" ELSE "fill")
      /\ to.kind = x.kind /\ to.page = x.page /\ to.listed = x.listed
      /\ to.next = x.next /\ to.began = x.began
  <2>1. (IF whole THEN "rename" ELSE "fill") \in {"fill", "rename"} OBVIOUS
  <2>2. to \in SyncState BY <1>3, <2>1 DEF SyncState
  <2> QED BY <1>3, <2>2 DEF SyncState
<1>6. /\ tmp' \in [Gh!Item -> ItemFile]
      /\ tmp'[e.item] = [version |-> e.version, whole |-> whole]
  <2>1. [version |-> e.version, whole |-> whole] \in ItemFile BY <1>3, <1>4 DEF ItemFile
  <2> QED BY <1>3, <1>4, <2>1 DEF MirrorInv, MirrorTyped
<1>7. (PageOK(to))'
  <2>1. \A n \in Gh!Item : (Before(x.kind, n))' = Before(x.kind, n)
    BY <1>2 DEF Before, Gh!OnEndpoint
  <2>2. to.pc # "list" /\ to.pc \in {"fill", "rename"} BY <1>3, <1>5
  <2> QED BY <1>1, <1>2, <1>5, <2>2 DEF PageOK, ItemsOf, Wanted, OfKind
<1>8. (FileOK(to))'
  <2>1. to.pc = "rename" =>
          tmp'[to.listed[to.next].item] = [version |-> to.listed[to.next].version, whole |-> TRUE]
    <3>1. CASE whole = TRUE BY <1>5, <1>6, <3>1 DEF e
    <3>2. CASE whole = FALSE BY <1>5, <3>2
    <3> QED BY <1>3, <3>1, <3>2
  <2>2. \A k \in DOMAIN to.listed : k < to.next => cached'[to.listed[k].item] # Gh!NoFile
    BY <1>1, <1>2, <1>5 DEF FileOK
  <2> QED BY <1>2, <1>5, <2>1, <2>2 DEF FileOK
<1>9. \A n \in Gh!Item : cached'[n].whole BY <1>2 DEF MirrorInv, SyncsFit
<1>10. (sync \in [Syncer -> SyncState])' /\ OneSync' /\ SyncsFit'
  <2>1. ~Gh!At(s, "idle") BY <1>1, <1>2 DEF Gh!At
  <2>2. syncing' BY <1>2, <2>1 DEF MirrorInv, OneSync
  <2>3. to.pc # "idle" /\ to.pc # "list" BY <1>5
  <2> QED BY <1>2, <1>3, <1>5, <1>7, <1>8, <1>9, <2>1, <2>2, <2>3, SyncMoves
<1>11. MirrorTyped'
  <2>1. ItemFile' = ItemFile BY <1>2 DEF ItemFile, Known
  <2> QED BY <1>2, <1>6, <1>10, <2>1 DEF MirrorInv, MirrorTyped
<1>12. IndexesHold'
  <2>1. top \in Nat /\ top <= top
    BY EndpointIs DEF MirrorInv, MirrorTyped, Gh!Kind
  <2> QED BY <1>2, <2>1, IndexesKept
<1> QED BY <1>10, <1>11, <1>12 DEF MirrorInv

LEMMA RenameStep ==
  ASSUME MirrorInv, NEW s \in Syncer, Gh!Rename(s)
  PROVE  MirrorInv'
<1>1. PICK x \in SyncState : x = sync[s] /\ PageOK(x) /\ FileOK(x)
  BY DEF MirrorInv, MirrorTyped, SyncsFit
<1> DEFINE n == x.listed[x.next].item
           file1 == [version |-> x.listed[x.next].version, whole |-> TRUE]
<1>2. /\ UNCHANGED <<top, pushes, syncing, syncs, index, covers>>
      /\ x.pc = "rename" /\ x.next <= Len(x.listed) /\ tmp[n] = file1
      /\ sync' = [sync EXCEPT ![s] = [x EXCEPT !.pc = "item", !.next = x.next + 1]]
      /\ tmp' = [tmp EXCEPT ![n] = Gh!NoFile]
  <2>1. x.pc = "rename" BY <1>1 DEF Gh!Rename, Gh!At
  <2>2. x.next <= Len(x.listed) /\ tmp[n] = file1 BY <1>1, <2>1 DEF FileOK
  <2>3. sync' = [sync EXCEPT ![s] = [x EXCEPT !.pc = "item", !.next = x.next + 1]]
    BY <1>1 DEF Gh!Rename
  <2>4. tmp' = [tmp EXCEPT ![n] = Gh!NoFile] BY <1>1 DEF Gh!Rename, Gh!Writing
  <2>5. UNCHANGED <<top, pushes, syncing, syncs, index, covers>>
    BY DEF Gh!Rename, Gh!github
  <2> QED BY <2>1, <2>2, <2>3, <2>4, <2>5
<1>3. /\ n \in Gh!Item /\ file1 \in ItemFile /\ file1 # Gh!NoFile /\ file1.whole
      /\ x.next \in Nat \ {0}
  <2>1. /\ n \in Gh!Item /\ x.listed[x.next].version \in Known
        /\ x.listed[x.next].version # -1
    BY <1>2, WritingIs
  <2>2. file1 \in ItemFile BY <2>1 DEF ItemFile
  <2>3. file1 # Gh!NoFile
    <3>1. file1.version # Gh!NoFile.version BY <2>1 DEF Gh!NoFile, Gh!Nobody
    <3> QED BY <3>1
  <2> QED BY <2>1, <2>2, <2>3 DEF SyncState
<1>4. cached' = [cached EXCEPT ![n] = file1]
  <2>1. cached' = IF tmp[n] = Gh!NoFile THEN cached ELSE [cached EXCEPT ![n] = tmp[n]]
    BY <1>1 DEF Gh!Rename, Gh!Writing
  <2> HIDE DEF n, file1
  <2> QED BY <1>2, <1>3, <2>1
<1> HIDE DEF file1
<1>5. /\ cached' \in [Gh!Item -> ItemFile] /\ tmp' \in [Gh!Item -> ItemFile]
      /\ cached'[n] = file1 /\ \A m \in Gh!Item : m # n => cached'[m] = cached[m]
  <2>1. Gh!NoFile \in ItemFile
    <3>1. -1 \in Known BY DEF Known, MirrorInv, MirrorTyped
    <3> QED BY <3>1 DEF Gh!NoFile, Gh!Nobody, ItemFile
  <2> HIDE DEF n
  <2> QED BY <1>2, <1>3, <1>4, <2>1 DEF MirrorInv, MirrorTyped
<1>6. \A m \in Gh!Item : cached[m] # Gh!NoFile => cached'[m] # Gh!NoFile
  BY <1>3, <1>5
<1>7. PICK to : to = [x EXCEPT !.pc = "item", !.next = x.next + 1] OBVIOUS
<1>8. /\ to \in SyncState /\ to.pc = "item" /\ to.kind = x.kind /\ to.page = x.page
      /\ to.listed = x.listed /\ to.next = x.next + 1 /\ to.began = x.began
      /\ sync' = [sync EXCEPT ![s] = to]
  <2>1. x.next + 1 \in Nat \ {0} BY <1>3
  <2>2. to \in SyncState BY <1>7, <2>1 DEF SyncState
  <2>3. sync' = [sync EXCEPT ![s] = to] BY <1>2, <1>7
  <2>4. /\ to.pc = "item" /\ to.kind = x.kind /\ to.page = x.page
        /\ to.listed = x.listed /\ to.next = x.next + 1 /\ to.began = x.began
    BY <1>7 DEF SyncState
  <2> QED BY <2>2, <2>3, <2>4
<1>9. (PageOK(to))' BY <1>1, <1>2, <1>8 DEF PageOK, ItemsOf, Wanted, OfKind
<1>10. (FileOK(to))'
  <2>1. ASSUME NEW k \in DOMAIN x.listed, k < x.next + 1
        PROVE  cached'[x.listed[k].item] # Gh!NoFile
    <3>1. x.listed \in Seq(ListedItem)
      <4>1. x.listed \in ListedItems BY DEF SyncState
      <4> QED BY <4>1 DEF ListedItems
    <3>2. k \in Int /\ x.listed[k].item \in Gh!Item
      <4>1. x.listed[k] \in ListedItem BY <2>1, <3>1
      <4> QED BY <2>1, <3>1, <4>1 DEF ListedItem
    <3>3. CASE k = x.next BY <1>3, <1>5, <3>3
    <3>4. CASE k # x.next
      <4>1. k < x.next BY <1>3, <2>1, <3>2, <3>4
      <4> QED BY <1>1, <1>6, <2>1, <3>2, <4>1 DEF FileOK
    <3> QED BY <3>3, <3>4
  <2> QED BY <1>8, <2>1 DEF FileOK
<1>11. \A m \in Gh!Item : cached'[m].whole BY <1>3, <1>5 DEF MirrorInv, SyncsFit
<1>12. (sync \in [Syncer -> SyncState])' /\ OneSync' /\ SyncsFit'
  <2>1. ~Gh!At(s, "idle") BY <1>1, <1>2 DEF Gh!At
  <2>2. syncing' BY <1>2, <2>1 DEF MirrorInv, OneSync
  <2> QED BY <1>2, <1>8, <1>9, <1>10, <1>11, <2>1, <2>2, SyncMoves
<1>13. MirrorTyped'
  <2>1. ItemFile' = ItemFile BY <1>2 DEF ItemFile, Known
  <2> QED BY <1>2, <1>5, <1>12, <2>1 DEF MirrorInv, MirrorTyped
<1>14. IndexesHold'
  <2>1. top \in Nat /\ top <= top
    BY EndpointIs DEF MirrorInv, MirrorTyped, Gh!Kind
  <2> QED BY <1>2, <1>6, <2>1, IndexesKept
<1> QED BY <1>12, <1>13, <1>14 DEF MirrorInv

LEMMA IndexStep ==
  ASSUME MirrorInv, NEW s \in Syncer, Gh!WriteIndex(s)
  PROVE  MirrorInv'
<1>1. PICK x \in SyncState : x = sync[s] /\ PageOK(x) /\ FileOK(x)
  BY DEF MirrorInv, MirrorTyped, SyncsFit
<1>2. /\ UNCHANGED <<top, pushes, syncing, syncs, tmp, cached>>
      /\ x.pc = "item" /\ x.next > Len(x.listed)
      /\ index' = [index EXCEPT ![x.kind] = ItemsOf(x)]
      /\ covers' = [covers EXCEPT ![x.kind] = x.began]
      /\ sync' = [sync EXCEPT ![s] =
                    [x EXCEPT !.kind = "pr", !.listed = <<>>, !.next = 1,
                              !.pc = IF x.kind = "issue" THEN "list" ELSE "meta"]]
  <2>1. x.pc = "item" /\ x.next > Len(x.listed) BY <1>1 DEF Gh!WriteIndex, Gh!At
  <2>2. index' = [index EXCEPT ![x.kind] = ItemsOf(x)] BY <1>1 DEF Gh!WriteIndex, ItemsOf
  <2>3. covers' = [covers EXCEPT ![x.kind] = x.began] BY <1>1 DEF Gh!WriteIndex
  <2>4. sync' = [sync EXCEPT ![s] =
                    [x EXCEPT !.kind = "pr", !.listed = <<>>, !.next = 1,
                              !.pc = IF x.kind = "issue" THEN "list" ELSE "meta"]]
    BY <1>1 DEF Gh!WriteIndex
  <2>5. UNCHANGED <<top, pushes, syncing, syncs, tmp, cached>>
    BY DEF Gh!WriteIndex, Gh!github
  <2> QED BY <2>1, <2>2, <2>3, <2>4, <2>5
<1>3. /\ x.kind \in Gh!Kind /\ x.began \in Nat /\ x.next \in Nat \ {0} /\ x.page = 1
      /\ ItemsOf(x) \subseteq OfKind(x.kind) /\ Wanted(x.kind, x.began) \subseteq ItemsOf(x)
      /\ x.began <= top
  BY <1>1, <1>2 DEF SyncState, PageOK
<1>4. \A n \in ItemsOf(x) : cached[n] # Gh!NoFile
  <2>1. x.listed \in Seq(ListedItem)
    <3>1. x.listed \in ListedItems BY DEF SyncState
    <3> QED BY <3>1 DEF ListedItems
  <2>2. \A k \in DOMAIN x.listed : k < x.next BY <1>2, <1>3, <2>1
  <2> QED BY <1>1, <2>2 DEF FileOK, ItemsOf
<1>5. /\ index' \in [Gh!Kind -> SUBSET Gh!Item] /\ covers' \in [Gh!Kind -> Nat]
  BY <1>2, <1>3 DEF MirrorInv, MirrorTyped, OfKind
<1>6. IndexesHold'
  <2> SUFFICES ASSUME NEW k \in Gh!Kind
               PROVE  /\ covers'[k] <= top'
                      /\ index'[k] \subseteq OfKind(k) /\ Wanted(k, covers'[k]) \subseteq index'[k]
                      /\ \A n \in index'[k] : cached'[n] # Gh!NoFile
    BY DEF IndexesHold, OfKind, Wanted
  <2>1. CASE k = x.kind
    <3>1. index'[k] = ItemsOf(x) /\ covers'[k] = x.began
      BY <1>2, <2>1 DEF MirrorInv, MirrorTyped
    <3> QED BY <1>2, <1>3, <1>4, <2>1, <3>1
  <2>2. CASE k # x.kind
    <3>1. index'[k] = index[k] /\ covers'[k] = covers[k]
      BY <1>2, <2>2 DEF MirrorInv, MirrorTyped
    <3> QED BY <1>2, <3>1 DEF MirrorInv, IndexesHold
  <2> QED BY <2>1, <2>2
<1>7. PICK to : to = [x EXCEPT !.kind = "pr", !.listed = <<>>, !.next = 1,
                               !.pc = IF x.kind = "issue" THEN "list" ELSE "meta"]
  OBVIOUS
<1>8. /\ to \in SyncState /\ to.pc \in {"list", "meta"} /\ to.kind = "pr" /\ to.page = 1
      /\ to.listed = <<>> /\ to.next = 1 /\ to.began = x.began
      /\ sync' = [sync EXCEPT ![s] = to]
  <2>1. <<>> \in ListedItems BY DEF ListedItems
  <2>2. "pr" \in Gh!Kind BY DEF Gh!Kind
  <2>3. to \in SyncState BY <1>3, <1>7, <2>1, <2>2 DEF SyncState
  <2> QED BY <1>2, <1>3, <1>7, <2>3 DEF SyncState
<1>9. (PageOK(to))'
  <2>1. ItemsOf(to) = {} BY <1>8 DEF ItemsOf
  <2>2. \A n \in Gh!Item : ~((Before("pr", n))' < 0)
    <3>1. \A n \in Gh!Item : Before("pr", n) \in Nat
      BY EndpointIs DEF MirrorInv, Gh!Kind
    <3>2. \A n \in Gh!Item : (Before("pr", n))' = Before("pr", n)
      BY <1>2 DEF Before, Gh!OnEndpoint
    <3> QED BY <3>1, <3>2
  <2>3. (to.page - 1) * PerPage = 0 BY <1>8, PagesAre
  <2>4. to.began <= top' BY <1>2, <1>3, <1>8
  <2> QED BY <1>8, <2>1, <2>2, <2>3, <2>4 DEF PageOK, Wanted, OfKind
<1>10. (FileOK(to))' BY <1>8 DEF FileOK
<1>11. \A m \in Gh!Item : cached'[m].whole BY <1>2 DEF MirrorInv, SyncsFit
<1>12. (sync \in [Syncer -> SyncState])' /\ OneSync' /\ SyncsFit'
  <2>1. ~Gh!At(s, "idle") BY <1>1, <1>2 DEF Gh!At
  <2>2. syncing' BY <1>2, <2>1 DEF MirrorInv, OneSync
  <2> QED BY <1>2, <1>8, <1>9, <1>10, <1>11, <2>1, <2>2, SyncMoves
<1>13. MirrorTyped'
  <2>1. ItemFile' = ItemFile BY <1>2 DEF ItemFile, Known
  <2> QED BY <1>2, <1>5, <1>12, <2>1 DEF MirrorInv, MirrorTyped
<1> QED BY <1>6, <1>12, <1>13 DEF MirrorInv

LEMMA FinishStep ==
  ASSUME MirrorInv, NEW s \in Syncer, Gh!Finish(s)
  PROVE  MirrorInv'
<1>1. /\ UNCHANGED <<top, pushes, syncs, tmp, cached, index, covers>>
      /\ sync[s].pc # "idle" /\ ~syncing'
      /\ sync' = [sync EXCEPT ![s] = Gh!Idle]
  BY DEF Gh!Finish, Gh!github
<1>2. PICK to : to = Gh!Idle OBVIOUS
<1>3. to \in SyncState /\ to.pc = "idle" /\ to.listed = <<>> /\ to.began = 0
  <2>1. <<>> \in ListedItems BY DEF ListedItems
  <2>2. to \in SyncState BY <1>2, <2>1 DEF Gh!Idle, SyncState, Gh!Kind
  <2> QED BY <1>2, <2>2 DEF Gh!Idle
<1>4. (PageOK(to))' /\ (FileOK(to))'
  <2>1. top \in Nat BY EndpointIs DEF MirrorInv, MirrorTyped, Gh!Kind
  <2> QED BY <1>1, <1>3, <2>1 DEF PageOK, FileOK, ItemsOf
<1>5. \A m \in Gh!Item : cached'[m].whole BY <1>1 DEF MirrorInv, SyncsFit
<1>6. (sync \in [Syncer -> SyncState])' /\ OneSync' /\ SyncsFit'
  <2>1. ~Gh!At(s, "idle") BY <1>1 DEF Gh!At
  <2> QED BY <1>1, <1>2, <1>3, <1>4, <1>5, <2>1, SyncMoves
<1>7. MirrorTyped'
  <2>1. ItemFile' = ItemFile BY <1>1 DEF ItemFile, Known
  <2> QED BY <1>1, <1>6, <2>1 DEF MirrorInv, MirrorTyped
<1>8. IndexesHold'
  <2>1. top \in Nat /\ top <= top
    BY EndpointIs DEF MirrorInv, MirrorTyped, Gh!Kind
  <2> QED BY <1>1, <2>1, IndexesKept
<1> QED BY <1>6, <1>7, <1>8 DEF MirrorInv

LEMMA MirrorKept ==
  ASSUME MirrorInv, UNCHANGED <<Gh!github, Gh!mirror>>
  PROVE  MirrorInv'
<1>1. UNCHANGED <<top, pushes, syncing, syncs, sync, tmp, cached, index, covers>>
  BY DEF Gh!github, Gh!mirror
<1>2. SyncState' = SyncState /\ ItemFile' = ItemFile
  BY <1>1 DEF SyncState, ListedItems, ListedItem, ItemFile, Known
<1>3. MirrorTyped' BY <1>1, <1>2 DEF MirrorInv, MirrorTyped
<1>4. OneSync' BY <1>1 DEF MirrorInv, OneSync, Gh!At
<1>5. SyncsFit'
  <2>1. ASSUME NEW s \in Syncer PROVE (PageOK(sync[s]) /\ FileOK(sync[s]))'
    <3>1. PageOK(sync[s]) /\ FileOK(sync[s]) BY DEF MirrorInv, SyncsFit
    <3>2. \A k, n : (Before(k, n))' = Before(k, n) BY <1>1 DEF Before, Gh!OnEndpoint
    <3> QED BY <1>1, <3>1, <3>2 DEF PageOK, FileOK, Before, Gh!OnEndpoint
  <2> QED BY <1>1, <2>1 DEF MirrorInv, SyncsFit
<1>6. IndexesHold'
  <2>1. top \in Nat /\ top <= top
    BY EndpointIs DEF MirrorInv, MirrorTyped, Gh!Kind
  <2> QED BY <1>1, <2>1, IndexesKept
<1> QED BY <1>3, <1>4, <1>5, <1>6 DEF MirrorInv

LEMMA MirrorNext ==
  ASSUME MirrorInv, Gh!Next \/ UNCHANGED mirrors
  PROVE  MirrorInv'
<1>1. CASE UNCHANGED mirrors
  <2>1. UNCHANGED <<Gh!github, Gh!mirror>> BY <1>1 DEF mirrors, Gh!github, Gh!mirror
  <2> QED BY <2>1, MirrorKept
<1>2. ASSUME NEW v \in Viewer,
             \/ Gh!ReadPR(v) \/ Gh!ServeCached(v) \/ Gh!ServeUndated(v)
             \/ Gh!computePRDiff(v) \/ Gh!EmptyDiff(v)
             \/ Gh!FillDiff(v) \/ Gh!RenameDiff(v) \/ Gh!Done(v)
      PROVE  MirrorInv'
  <2>1. UNCHANGED <<Gh!github, Gh!mirror>>
    BY <1>2
    DEF Gh!ReadPR, Gh!ServeCached, Gh!ServeUndated, Gh!computePRDiff, Gh!EmptyDiff, Gh!FillDiff,
        Gh!RenameDiff,
        Gh!Done
  <2> QED BY <2>1, MirrorKept
<1> QED
  BY <1>1, <1>2, GithubStep, SyncStartStep, ListStep, TmpStep, RenameStep, IndexStep, FinishStep
  DEF Gh!Next

LEMMA MirrorParts == MirrorInv => ListsAreComplete
<1> SUFFICES ASSUME MirrorInv, NEW k \in Gh!Kind
             PROVE  /\ {n \in 1..covers[k] : Items[n] = k} \subseteq index[k]
                    /\ \A n \in index[k] : cached[n] # Gh!NoFile /\ cached[n].whole
  BY DEF ListsAreComplete, Gh!ListsAreComplete
<1>1. /\ covers[k] <= top /\ covers[k] \in Nat /\ top \in Gh!Item
      /\ index[k] \subseteq OfKind(k) /\ Wanted(k, covers[k]) \subseteq index[k]
      /\ \A n \in index[k] : cached[n] # Gh!NoFile
      /\ \A n \in Gh!Item : cached[n].whole
  BY DEF MirrorInv, MirrorTyped, IndexesHold, SyncsFit
<1>2. 1..covers[k] \subseteq Gh!Item
  <2>1. Gh!Item = 1..Len(Items) /\ Len(Items) \in Nat BY GhAssumption DEF Gh!Item
  <2> QED BY <1>1, <2>1
<1> QED BY <1>1, <1>2 DEF Wanted, OfKind

LEMMA DiffInit == Gh!Init => DiffInv
<1> SUFFICES ASSUME Gh!Init PROVE DiffInv OBVIOUS
<1>1. pushes = 0 /\ diff = Gh!NoDiff /\ diffTmp = Gh!NoDiff BY DEF Gh!Init
<1>2. early \in BOOLEAN /\ blurred \in BOOLEAN /\ overlap \in BOOLEAN BY Zenon DEF Gh!Init
<1>3. Gh!NoDiff \in DiffFile /\ Gh!NoDiff.whole /\ -1 \in Known
  BY <1>1 DEF Gh!NoDiff, Gh!Nobody, DiffFile, Known
<1>4. \A v \in Viewer : view[v].pc = "idle" BY DEF Gh!Init, Gh!Asked
<1>5. view \in [Viewer -> ViewState]
  <2>1. Gh!Asked \in ViewState
    BY <1>3 DEF ViewState, Gh!Asked, Gh!Text, Gh!NoDiff, Gh!Nobody, DiffText
  <2> QED BY <2>1 DEF Gh!Init
<1>6. Gh!Writers = {} BY <1>4 DEF Gh!Writers
<1>7. DiffsFit BY <1>1, <1>3, <1>4, <1>6 DEF DiffsFit
<1>8. DiffIsOfItsPR BY <1>4 DEF DiffIsOfItsPR, Gh!DiffIsOfItsPR
<1> QED BY <1>1, <1>2, <1>3, <1>5, <1>7, <1>8 DEF DiffInv, DiffsTyped

\* A request moves alone.  It writes the .tmp as the only writer or another is named.
LEMMA ViewMoves ==
  ASSUME DiffInv, NEW v \in Viewer, NEW to \in ViewState, pushes' = pushes,
         view' = [view EXCEPT ![v] = to],
         early' \in BOOLEAN, blurred' \in BOOLEAN, Excused => Excused',
         overlap' \in BOOLEAN, overlap => overlap',
         diff' \in DiffFile, diffTmp' \in DiffFile,
         \A d \in {diff', diffTmp'} : d # Gh!NoDiff => d.of >= d.upto \/ Excused',
         diff'.whole \/ overlap',
         to.pc \in {"fill", "rename"} => v \in Gh!Writers \/ Gh!Writers = {} \/ overlap',
         diffTmp' = diffTmp \/ v \in Gh!Writers \/ Gh!Writers = {} \/ overlap',
         to.pc = "rename" => diffTmp'.whole \/ overlap',
         to.pc = "served" => /\ to.got.of >= to.version \/ Excused'
                             /\ to.got.whole \/ overlap'
  PROVE  DiffInv'
<1>1. Known' = Known /\ DiffFile' = DiffFile /\ ViewState' = ViewState
  BY DEF Known, DiffFile, DiffText, ViewState
<1>2. /\ view' \in [Viewer -> ViewState] /\ view'[v] = to
      /\ \A w \in Viewer : w # v => view'[w] = view[w]
  BY DEF DiffInv, DiffsTyped
<1>3. DiffsTyped' BY <1>1, <1>2 DEF DiffsTyped
<1>4. DiffsFit'
  <2>1. \A w \in Viewer : w # v => (w \in Gh!Writers' <=> w \in Gh!Writers)
    BY <1>2 DEF Gh!Writers
  <2>2. ASSUME ~overlap', NEW u \in Gh!Writers', NEW w \in Gh!Writers' PROVE u = w
    <3>1. \A a, b \in Gh!Writers : a = b BY <2>2 DEF DiffInv, DiffsFit
    <3>2. v \in Gh!Writers' => v \in Gh!Writers \/ Gh!Writers = {}
      BY <1>2, <2>2 DEF Gh!Writers
    <3>3. u \in Viewer /\ w \in Viewer BY <2>2 DEF Gh!Writers
    <3> QED BY <2>1, <2>2, <3>1, <3>2, <3>3
  <2>3. ASSUME NEW w \in Viewer, view'[w].pc = "rename" PROVE diffTmp'.whole \/ overlap'
    <3>1. CASE w = v BY <1>2, <2>3, <3>1
    <3>2. CASE w # v
      <4>1. w \in Gh!Writers /\ view[w].pc = "rename" BY <1>2, <2>3, <3>2 DEF Gh!Writers
      <4>2. diffTmp.whole \/ overlap BY <4>1 DEF DiffInv, DiffsFit
      <4>3. v \in Gh!Writers => overlap BY <3>2, <4>1 DEF DiffInv, DiffsFit
      <4> QED BY <4>1, <4>2, <4>3
    <3> QED BY <3>1, <3>2
  <2>4. overlap' \/ (diff'.whole /\ \A u, w \in Gh!Writers' : u = w) BY <2>2
  <2> QED BY <2>3, <2>4 DEF DiffsFit
<1>5. DiffIsOfItsPR'
  <2>1. ASSUME NEW w \in Viewer, view'[w].pc = "served"
        PROVE  /\ view'[w].got.of >= view'[w].version \/ Excused'
               /\ view'[w].got.whole \/ overlap'
    <3>1. CASE w = v BY <1>2, <2>1, <3>1
    <3>2. CASE w # v
      <4>1. view[w].pc = "served" /\ view'[w] = view[w] BY <1>2, <2>1, <3>2
      <4>2. /\ view[w].got.of >= view[w].version \/ Excused
            /\ view[w].got.whole \/ overlap
        BY <4>1 DEF DiffInv, DiffIsOfItsPR, Gh!DiffIsOfItsPR, Excused
      <4> QED BY <4>1, <4>2
    <3> QED BY <3>1, <3>2
  <2> QED BY <2>1 DEF DiffIsOfItsPR, Gh!DiffIsOfItsPR, Excused
<1> QED BY <1>3, <1>4, <1>5 DEF DiffInv

\* What is known of the diffs, of a request and of the versions.
LEMMA DiffsAre ==
  ASSUME DiffInv, MirrorTyped, NEW v \in Viewer
  PROVE  /\ view[v] \in ViewState /\ view[v].version \in Known /\ view[v].got \in DiffText
         /\ Known \subseteq Int /\ pushes \in Nat /\ pushes \in Known /\ Gh!Nobody \in Known
         /\ diff \in DiffFile /\ diffTmp \in DiffFile /\ Gh!NoDiff \in DiffFile
         /\ Gh!NoDiff.whole
         /\ early \in BOOLEAN /\ blurred \in BOOLEAN /\ overlap \in BOOLEAN
         /\ diff # Gh!NoDiff => diff.of >= diff.upto \/ Excused
         /\ diffTmp # Gh!NoDiff => diffTmp.of >= diffTmp.upto \/ Excused
         /\ diff.whole \/ overlap
<1>1. view[v] \in ViewState BY DEF DiffInv, DiffsTyped
<1>2. view[v].version \in Known /\ view[v].got \in DiffText BY <1>1 DEF ViewState
<1>3. pushes \in Nat /\ Known \subseteq Int /\ pushes \in Known /\ Gh!Nobody \in Known
  BY DEF MirrorTyped, Known, Gh!Nobody
<1>4. Gh!NoDiff \in DiffFile /\ Gh!NoDiff.whole BY <1>3 DEF Gh!NoDiff, Gh!Nobody, DiffFile
<1> QED BY <1>1, <1>2, <1>3, <1>4 DEF DiffInv, DiffsTyped, DiffsFit

LEMMA TextIs ==
  ASSUME NEW d \in DiffFile
  PROVE  Gh!Text(d) \in DiffText /\ Gh!Text(d).of = d.of /\ Gh!Text(d).whole = d.whole
<1>1. PICK o \in Known, u \in Known, w \in BOOLEAN : d = [of |-> o, upto |-> u, whole |-> w]
  BY DEF DiffFile
<1>2. d.of = o /\ d.whole = w BY <1>1
<1>3. Gh!Text(d) = [of |-> o, whole |-> w] BY <1>2 DEF Gh!Text
<1> QED BY <1>2, <1>3 DEF DiffText

LEMMA DiffKept ==
  ASSUME DiffInv, MirrorTyped, pushes' \in Nat, pushes <= pushes', UNCHANGED Gh!diffs
  PROVE  DiffInv'
<1>1. UNCHANGED <<diff, diffTmp, view, early, blurred, overlap>> BY DEF Gh!diffs
<1>2. pushes \in Nat BY DEF MirrorTyped
<1>3. Known \subseteq Known' BY <1>2 DEF Known
<1>4. DiffFile \subseteq DiffFile' /\ DiffText \subseteq DiffText' BY <1>3 DEF DiffFile, DiffText
<1>5. ViewState \subseteq ViewState' BY <1>3, <1>4 DEF ViewState
<1>6. DiffsTyped' BY <1>1, <1>4, <1>5 DEF DiffInv, DiffsTyped
<1>7. DiffsFit' BY <1>1 DEF DiffInv, DiffsFit, Excused, Gh!Writers
<1>8. DiffIsOfItsPR' BY <1>1 DEF DiffInv, DiffIsOfItsPR, Gh!DiffIsOfItsPR
<1> QED BY <1>6, <1>7, <1>8 DEF DiffInv

\* A push may come in the second a diff was written in, and then says so.
LEMMA PushStep ==
  ASSUME DiffInv, MirrorTyped, Gh!Push
  PROVE  DiffInv'
<1>1. PICK fileBlurs \in BOOLEAN, tmpBlurs \in BOOLEAN :
        /\ diff' = Gh!Passing(diff, fileBlurs) /\ diffTmp' = Gh!Passing(diffTmp, tmpBlurs)
        /\ blurred' = (blurred \/ fileBlurs \/ tmpBlurs)
        /\ fileBlurs => diff.upto = pushes
        /\ tmpBlurs => diffTmp.upto = pushes
  <2>1. PICK fileBlurs \in {FALSE, diff.upto = pushes},
             tmpBlurs \in {FALSE, diffTmp.upto = pushes} :
          /\ diff' = Gh!Passing(diff, fileBlurs) /\ diffTmp' = Gh!Passing(diffTmp, tmpBlurs)
          /\ blurred' = (blurred \/ fileBlurs \/ tmpBlurs)
    BY Zenon DEF Gh!Push
  <2>2. fileBlurs \in BOOLEAN /\ tmpBlurs \in BOOLEAN BY Zenon
  <2>3. (fileBlurs => diff.upto = pushes) /\ (tmpBlurs => diffTmp.upto = pushes) BY Zenon
  <2> QED BY <2>1, <2>2, <2>3, Zenon
<1>2. pushes \in Nat /\ pushes' = pushes + 1 BY DEF MirrorTyped, Gh!Push
<1>3. UNCHANGED view /\ UNCHANGED early /\ UNCHANGED overlap BY Zenon DEF Gh!Push
<1>4. blurred' \in BOOLEAN /\ (Excused => Excused') /\ (fileBlurs \/ tmpBlurs => Excused')
  <2>1. blurred \in BOOLEAN BY DEF DiffInv, DiffsTyped
  <2>2. blurred' \in BOOLEAN BY <1>1, <2>1, Zenon
  <2>3. early' = early BY <1>3, Zenon
  <2> QED BY <1>1, <2>2, <2>3, Zenon DEF Excused
<1>5. Known \subseteq Known' /\ pushes + 1 \in Known' BY <1>2 DEF Known
<1>6. DiffFile \subseteq DiffFile' /\ ViewState \subseteq ViewState'
  BY <1>5 DEF DiffFile, DiffText, ViewState
<1>7. diff \in DiffFile /\ diffTmp \in DiffFile BY DEF DiffInv, DiffsTyped
<1>8. ASSUME NEW d \in DiffFile, NEW blurs \in BOOLEAN,
             d # Gh!NoDiff => d.of >= d.upto \/ Excused, blurs => Excused'
      PROVE  LET e == Gh!Passing(d, blurs)
             IN  /\ e \in DiffFile' /\ e.whole = d.whole
                 /\ e # Gh!NoDiff => e.of >= e.upto \/ Excused'
  <2>1. CASE blurs = FALSE
    <3>1. Gh!Passing(d, blurs) = d BY <2>1 DEF Gh!Passing
    <3> QED BY <1>4, <1>6, <1>8, <3>1
  <2>2. CASE blurs = TRUE
    <3>1. Gh!Passing(d, blurs) = [d EXCEPT !.upto = pushes + 1] BY <2>2 DEF Gh!Passing
    <3>2. /\ [d EXCEPT !.upto = pushes + 1] \in DiffFile'
          /\ [d EXCEPT !.upto = pushes + 1].whole = d.whole
      BY <1>5 DEF DiffFile
    <3> QED BY <1>8, <2>2, <3>1, <3>2
  <2> QED BY <2>1, <2>2
<1>9. /\ diff' \in DiffFile' /\ diff'.whole = diff.whole
      /\ diff' # Gh!NoDiff => diff'.of >= diff'.upto \/ Excused'
  <2>1. diff # Gh!NoDiff => diff.of >= diff.upto \/ Excused BY DEF DiffInv, DiffsFit
  <2>2. LET e == Gh!Passing(diff, fileBlurs)
        IN  /\ e \in DiffFile' /\ e.whole = diff.whole
            /\ e # Gh!NoDiff => e.of >= e.upto \/ Excused'
    BY <1>4, <1>7, <1>8, <2>1
  <2> QED BY <1>1, <2>2, Zenon
<1>10. /\ diffTmp' \in DiffFile' /\ diffTmp'.whole = diffTmp.whole
       /\ diffTmp' # Gh!NoDiff => diffTmp'.of >= diffTmp'.upto \/ Excused'
  <2>1. diffTmp # Gh!NoDiff => diffTmp.of >= diffTmp.upto \/ Excused BY DEF DiffInv, DiffsFit
  <2>2. LET e == Gh!Passing(diffTmp, tmpBlurs)
        IN  /\ e \in DiffFile' /\ e.whole = diffTmp.whole
            /\ e # Gh!NoDiff => e.of >= e.upto \/ Excused'
    BY <1>4, <1>7, <1>8, <2>1
  <2> QED BY <1>1, <2>2, Zenon
<1>11. DiffsTyped'
  <2>1. view' \in [Viewer -> ViewState']
    <3>1. view \in [Viewer -> ViewState] /\ view' = view BY <1>3 DEF DiffInv, DiffsTyped
    <3> QED BY <1>6, <3>1
  <2>2. early' \in BOOLEAN /\ overlap' \in BOOLEAN
    <3>1. early \in BOOLEAN /\ overlap \in BOOLEAN BY DEF DiffInv, DiffsTyped
    <3> QED BY <1>3, <3>1, Zenon
  <2> QED BY <1>4, <1>9, <1>10, <2>1, <2>2 DEF DiffsTyped
<1>12. DiffsFit'
  <2>1. \A d \in {diff', diffTmp'} : d # Gh!NoDiff => d.of >= d.upto \/ Excused' BY <1>9, <1>10
  <2>2. Gh!Writers' = Gh!Writers BY <1>3 DEF Gh!Writers
  <2>3. overlap' = overlap /\ view' = view BY <1>3, Zenon
  <2>4. overlap \/ (diff.whole /\ \A v, w \in Gh!Writers : v = w) BY DEF DiffInv, DiffsFit
  <2>5. \A v \in Viewer : view[v].pc = "rename" => diffTmp.whole \/ overlap
    BY DEF DiffInv, DiffsFit
  <2>6. overlap' \/ (diff'.whole /\ \A v, w \in Gh!Writers' : v = w)
    BY <1>9, <2>2, <2>3, <2>4, Zenon
  <2>7. \A v \in Viewer : view'[v].pc = "rename" => diffTmp'.whole \/ overlap'
    BY <1>10, <2>3, <2>5, Zenon
  <2> QED BY <2>1, <2>6, <2>7 DEF DiffsFit
<1>13. DiffIsOfItsPR'
  <2>1. overlap' = overlap /\ view' = view BY <1>3, Zenon
  <2>2. \A v \in Viewer :
          view[v].pc = "served" => /\ view[v].got.of >= view[v].version \/ Excused
                                   /\ view[v].got.whole \/ overlap
    BY DEF DiffInv, DiffIsOfItsPR, Gh!DiffIsOfItsPR, Excused
  <2>3. \A v \in Viewer :
          view'[v].pc = "served" => /\ view'[v].got.of >= view'[v].version \/ Excused'
                                    /\ view'[v].got.whole \/ overlap'
    BY <1>4, <2>1, <2>2, Zenon
  <2> QED BY <2>3 DEF DiffIsOfItsPR, Gh!DiffIsOfItsPR, Excused
<1> QED BY <1>11, <1>12, <1>13 DEF DiffInv

LEMMA ReadStep ==
  ASSUME DiffInv, MirrorTyped, NEW v \in Viewer,
         \/ Gh!ReadPR(v) \/ Gh!ServeCached(v) \/ Gh!ServeUndated(v)
         \/ Gh!computePRDiff(v) \/ Gh!Done(v)
  PROVE  DiffInv'
<1> USE DiffsAre
<1>1. /\ UNCHANGED <<pushes, diff, diffTmp>>
      /\ UNCHANGED early /\ UNCHANGED blurred /\ UNCHANGED overlap
  <2>1. UNCHANGED <<pushes, diff, diffTmp>>
    BY DEF Gh!ReadPR, Gh!ServeCached, Gh!ServeUndated, Gh!computePRDiff, Gh!Done, Gh!github
  <2>2. UNCHANGED early /\ UNCHANGED blurred /\ UNCHANGED overlap
    BY Zenon DEF Gh!ReadPR, Gh!ServeCached, Gh!ServeUndated, Gh!computePRDiff, Gh!Done
  <2> QED BY <2>1, <2>2
<1>2. PICK to \in ViewState :
        /\ view' = [view EXCEPT ![v] = to] /\ to.pc \notin {"fill", "rename"}
        /\ to.pc = "served" => /\ to.got.of >= to.version \/ Excused
                               /\ to.got.whole \/ overlap
  <2>1. CASE Gh!ReadPR(v)
    <3> DEFINE to == [view[v] EXCEPT !.pc = "read", !.version = cached[Diffed].version]
    <3>1. cached[Diffed].version \in Known
      <4>1. cached[Diffed] \in ItemFile BY GhAssumption DEF MirrorTyped, Gh!Item
      <4> QED BY <4>1 DEF ItemFile
    <3>2. to \in ViewState /\ to.pc = "read" BY <3>1 DEF ViewState
    <3>3. view' = [view EXCEPT ![v] = to] BY <2>1 DEF Gh!ReadPR
    <3> QED BY <3>2, <3>3
  <2>2. CASE Gh!ServeCached(v)
    <3>0. PICK text \in DiffText :
            text = Gh!Text(diff) /\ text.of = diff.of /\ text.whole = diff.whole
      BY TextIs
    <3> DEFINE to == [view[v] EXCEPT !.pc = "served", !.got = text]
    <3>1. /\ to \in ViewState /\ to.pc = "served" /\ to.got = text
          /\ to.version = view[v].version
      BY DEF ViewState
    <3>2. view' = [view EXCEPT ![v] = to] BY <2>2, <3>0 DEF Gh!ServeCached
    <3>3. diff.of >= to.version \/ Excused
      <4>1. diff # Gh!NoDiff /\ view[v].version <= diff.upto
        BY <2>2 DEF Gh!ServeCached, Gh!diffFileFresh
      <4>2. diff.of \in Int /\ diff.upto \in Int /\ view[v].version \in Int
        BY DEF DiffFile
      <4> QED BY <3>1, <4>1, <4>2
    <3> HIDE DEF to
    <3> QED BY <3>0, <3>1, <3>2, <3>3
  <2>5. CASE Gh!ServeUndated(v)
    <3>1. PICK text \in DiffText :
            text = Gh!Text(diff) /\ text.of = diff.of /\ text.whole = diff.whole
      BY TextIs
    <3> DEFINE to == [pc |-> "served", version |-> Gh!Nobody, got |-> text]
    <3>2. /\ to \in ViewState /\ to.pc = "served" /\ to.got = text
          /\ to.version = Gh!Nobody
      BY DEF ViewState
    <3>3. view' = [view EXCEPT ![v] = to] BY <2>5, <3>1 DEF Gh!ServeUndated
    <3>4. text.of >= Gh!Nobody BY DEF DiffText, Known, Gh!Nobody
    <3> HIDE DEF to
    <3> QED BY <3>1, <3>2, <3>3, <3>4
  <2>3. CASE Gh!computePRDiff(v)
    <3>1. PICK pc \in {"computed", "idle"} : Gh!See(v, pc) BY <2>3 DEF Gh!computePRDiff
    <3> DEFINE to == [view[v] EXCEPT !.pc = pc]
    <3>2. to \in ViewState /\ to.pc = pc BY <3>1 DEF ViewState
    <3>3. view' = [view EXCEPT ![v] = to] BY <3>1 DEF Gh!See
    <3> QED BY <3>1, <3>2, <3>3
  <2>4. CASE Gh!Done(v)
    <3> DEFINE to == Gh!Asked
    <3>1. to \in ViewState /\ to.pc = "idle"
      BY DEF ViewState, DiffText, Gh!Asked, Gh!Text, Gh!NoDiff
    <3>2. view' = [view EXCEPT ![v] = to] BY <2>4 DEF Gh!Done
    <3> QED BY <3>1, <3>2
  <2> QED BY <2>1, <2>2, <2>3, <2>4, <2>5
<1>3. (Excused => Excused') /\ early' \in BOOLEAN /\ blurred' \in BOOLEAN
  BY <1>1, Zenon DEF Excused, DiffInv, DiffsTyped
<1> QED BY <1>1, <1>2, <1>3, ViewMoves

LEMMA WriteDiffStep ==
  ASSUME DiffInv, MirrorTyped, NEW v \in Viewer, Gh!EmptyDiff(v) \/ Gh!FillDiff(v)
  PROVE  DiffInv'
<1> USE DiffsAre
<1>1. pushes' = pushes /\ diff' = diff BY DEF Gh!EmptyDiff, Gh!FillDiff, Gh!github
<1>2. PICK whole \in BOOLEAN :
        /\ diffTmp' = [of |-> view[v].version, upto |-> pushes, whole |-> whole]
        /\ view' = [view EXCEPT ![v] = [view[v] EXCEPT !.pc = IF whole THEN "rename" ELSE "fill"]]
        /\ v \in Gh!Writers \/ Gh!Writers = {} \/ overlap'
  <2>1. CASE Gh!EmptyDiff(v)
    <3>1. diffTmp' = [of |-> view[v].version, upto |-> pushes, whole |-> FALSE]
      BY <2>1 DEF Gh!EmptyDiff, Gh!Written
    <3>2. view' = [view EXCEPT ![v] = [view[v] EXCEPT !.pc = "fill"]]
      BY <2>1 DEF Gh!EmptyDiff, Gh!See
    <3>3. Gh!Writers = {} \/ overlap' BY <2>1 DEF Gh!EmptyDiff
    <3> QED BY <3>1, <3>2, <3>3
  <2>2. CASE Gh!FillDiff(v)
    <3>1. diffTmp' = [of |-> view[v].version, upto |-> pushes, whole |-> TRUE]
      BY <2>2 DEF Gh!FillDiff, Gh!Written
    <3>2. view' = [view EXCEPT ![v] = [view[v] EXCEPT !.pc = "rename"]]
      BY <2>2 DEF Gh!FillDiff, Gh!See
    <3>3. v \in Gh!Writers BY <2>2 DEF Gh!FillDiff, Gh!Writers
    <3> QED BY <3>1, <3>2, <3>3
  <2> QED BY <2>1, <2>2
<1>3. /\ early' \in BOOLEAN /\ blurred' \in BOOLEAN /\ (Excused => Excused')
      /\ overlap' \in BOOLEAN /\ (overlap => overlap')
      /\ view[v].version < pushes => Excused'
  <2>1. early' = (early \/ view[v].version < pushes)
    BY Zenon DEF Gh!EmptyDiff, Gh!FillDiff
  <2>2. overlap' = (overlap \/ Gh!Writers # {}) \/ overlap' = overlap
    BY Zenon DEF Gh!EmptyDiff, Gh!FillDiff
  <2>6. blurred' = blurred BY Zenon DEF Gh!EmptyDiff, Gh!FillDiff
  <2>3. early' \in BOOLEAN /\ overlap' \in BOOLEAN /\ blurred' \in BOOLEAN
    BY <2>1, <2>2, <2>6, Zenon
  <2>4. (Excused => Excused') /\ (view[v].version < pushes => Excused')
    BY <2>1, <2>6, Zenon DEF Excused
  <2>5. overlap => overlap' BY <2>2, Zenon
  <2> QED BY <2>3, <2>4, <2>5
<1>4. PICK to : to = [view[v] EXCEPT !.pc = IF whole THEN "rename" ELSE "fill"] OBVIOUS
<1>5. /\ to \in ViewState /\ view' = [view EXCEPT ![v] = to]
      /\ to.pc = (IF whole THEN "rename" ELSE "fill")
  <2>1. (IF whole THEN "rename" ELSE "fill") \in {"fill", "rename"} OBVIOUS
  <2> QED BY <1>2, <1>4, <2>1 DEF ViewState
<1>6. /\ diffTmp' \in DiffFile /\ diffTmp'.of = view[v].version /\ diffTmp'.upto = pushes
      /\ diffTmp'.whole = whole
  BY <1>2 DEF DiffFile
<1>7. diffTmp'.of >= diffTmp'.upto \/ Excused' BY <1>3, <1>6
<1>8. to.pc \in {"fill", "rename"} /\ (to.pc = "rename" => diffTmp'.whole)
  <2>1. CASE whole = TRUE BY <1>5, <1>6, <2>1
  <2>2. CASE whole = FALSE BY <1>5, <2>2
  <2> QED BY <1>2, <2>1, <2>2
<1>9. \A d \in {diff', diffTmp'} : d # Gh!NoDiff => d.of >= d.upto \/ Excused'
  <2>1. diff # Gh!NoDiff => diff.of >= diff.upto \/ Excused BY DiffsAre
  <2>2. diff' # Gh!NoDiff => diff'.of >= diff'.upto \/ Excused' BY <1>1, <1>3, <2>1, Zenon
  <2> QED BY <1>7, <2>2, Zenon
<1>10. /\ (diff'.whole \/ overlap') /\ (to.pc = "rename" => (diffTmp'.whole \/ overlap'))
       /\ to.pc # "served" /\ diff' \in DiffFile
  <2>1. diff.whole \/ overlap BY DiffsAre
  <2>2. diff'.whole \/ overlap' BY <1>1, <1>3, <2>1, Zenon
  <2>3. to.pc # "served" BY <1>8
  <2>4. diff' \in DiffFile BY <1>1
  <2> QED BY <1>8, <2>2, <2>3, <2>4, Zenon
<1> QED BY <1>2, <1>3, <1>5, <1>6, <1>8, <1>9, <1>10, <1>1, ViewMoves, Zenon

LEMMA RenameDiffStep ==
  ASSUME DiffInv, MirrorTyped, NEW v \in Viewer, Gh!RenameDiff(v)
  PROVE  DiffInv'
<1> USE DiffsAre
<1> DEFINE mine == [of |-> view[v].version, whole |-> TRUE]
<1>1. /\ UNCHANGED pushes /\ UNCHANGED early /\ UNCHANGED blurred /\ UNCHANGED overlap
      /\ diffTmp' = Gh!NoDiff /\ diff' = (IF diffTmp = Gh!NoDiff THEN diff ELSE diffTmp)
      /\ view[v].pc = "rename"
      /\ view' = [view EXCEPT ![v] = [view[v] EXCEPT !.pc = "served", !.got = mine]]
  <2>1. UNCHANGED early /\ UNCHANGED blurred /\ UNCHANGED overlap BY Zenon DEF Gh!RenameDiff
  <2> QED BY <2>1 DEF Gh!RenameDiff, Gh!github
<1>2. v \in Gh!Writers /\ (diffTmp.whole \/ overlap) BY <1>1 DEF Gh!Writers, DiffInv, DiffsFit
<1>3. mine \in DiffText /\ mine.of = view[v].version /\ mine.whole BY DEF DiffText
<1> HIDE DEF mine
<1>4. PICK to : to = [view[v] EXCEPT !.pc = "served", !.got = mine] OBVIOUS
<1>5. /\ to \in ViewState /\ view' = [view EXCEPT ![v] = to]
      /\ to.pc = "served" /\ to.got = mine /\ to.version = view[v].version
  BY <1>1, <1>3, <1>4 DEF ViewState
<1>6. diff' \in DiffFile /\ (diff' = diff \/ diff' = diffTmp) BY <1>1
<1>7. /\ \A d \in {diff', diffTmp'} : d # Gh!NoDiff => d.of >= d.upto \/ Excused
      /\ diff'.whole \/ overlap
  BY <1>1, <1>2, <1>6
<1>8. to.got.of >= to.version /\ to.got.whole BY <1>3, <1>5
<1>9. (Excused => Excused') /\ early' \in BOOLEAN /\ blurred' \in BOOLEAN
  BY <1>1, Zenon DEF Excused, DiffInv, DiffsTyped
<1> QED BY <1>1, <1>2, <1>5, <1>6, <1>7, <1>8, <1>9, ViewMoves

LEMMA DiffNext ==
  ASSUME DiffInv, MirrorInv, Gh!Next \/ UNCHANGED mirrors
  PROVE  DiffInv'
<1>1. MirrorTyped BY DEF MirrorInv
<1>2. CASE Gh!Create \/ UNCHANGED mirrors
  <2>1. pushes' \in Nat /\ pushes <= pushes' /\ UNCHANGED Gh!diffs
    BY <1>1, <1>2 DEF Gh!Create, mirrors, Gh!diffs, MirrorTyped
  <2> QED BY <1>1, <2>1, DiffKept
<1>3. ASSUME NEW s \in Syncer,
             \/ Gh!StartSync(s) \/ Gh!ListPage(s) \/ Gh!EmptyTmp(s) \/ Gh!FillTmp(s)
             \/ Gh!Rename(s) \/ Gh!WriteIndex(s) \/ Gh!Finish(s)
      PROVE  DiffInv'
  <2>1. pushes' = pushes /\ UNCHANGED Gh!diffs
    BY <1>3
    DEF Gh!StartSync, Gh!ListPage, Gh!EmptyTmp, Gh!FillTmp, Gh!Rename, Gh!WriteIndex, Gh!Finish,
        Gh!github
  <2>2. pushes' \in Nat /\ pushes <= pushes' BY <1>1, <2>1 DEF MirrorTyped
  <2> QED BY <1>1, <2>1, <2>2, DiffKept
<1> QED BY <1>1, <1>2, <1>3, PushStep, ReadStep, WriteDiffStep, RenameDiffStep DEF Gh!Next

\* However items are created while they are listed, and syncs are asked for, fail and end:
\* a list shows all there was when its sync began, and only items with whole files
\* (handleGHSync, runSync).
THEOREM ListsShowAll == ServicesSpec => []ListsAreComplete
<1>1. ServicesInit => MirrorInv BY MirrorInit DEF ServicesInit
<1>2. MirrorInv /\ [ServicesNext]_all => MirrorInv'
  BY MirrorNext DEF ServicesNext, LifeStep, all
<1>3. MirrorInv => ListsAreComplete BY MirrorParts
<1> QED BY <1>1, <1>2, <1>3, PTL DEF ServicesSpec

\* A diff that is served is of no older commits than its pull request named, where that has
\* an updated_at, and whole; but for those written late, by two requests at once, or in the
\* second of the next push (handleGHPRDiff, diffFileFresh).
THEOREM DiffsAreCurrent == ServicesSpec => []DiffIsOfItsPR
<1>1. ServicesInit => MirrorInv /\ DiffInv BY MirrorInit, DiffInit DEF ServicesInit
<1>2. MirrorInv /\ DiffInv /\ [ServicesNext]_all => (MirrorInv /\ DiffInv)'
  BY MirrorNext, DiffNext DEF ServicesNext, LifeStep, all
<1>3. MirrorInv /\ DiffInv => DiffIsOfItsPR BY DEF DiffInv
<1> QED BY <1>1, <1>2, <1>3, PTL DEF ServicesSpec

------------------------------------------------------------------------------
\* SearchIndex and the registry it is composed with.

Docs == Seq(1..MaxLines)

OpenStore ==
  [file : Nat \ {0}, doc : Docs, last : 0..MaxLines, since : Nat, closed : BOOLEAN]

IndexState == [doc : Docs, size : 0..MaxLines, last : 0..MaxLines]

QueryState ==
  [pc : {"idle", "stamped", "uncached", "build", "restamped", "built", "saved", "answered"},
   cur : [size : 0..MaxLines, last : 0..MaxLines], ix : IndexState, asked : Docs,
   crossed : BOOLEAN]

DeletingState ==
  [pc : {"idle", "acquired", "closing", "closed", "unlinked", "bare", "forget"}, store : Nat]

RegistryTyped ==
  /\ lines \in 0..MaxLines
  /\ files \in Seq(Docs) /\ named \in 0..Len(files)
  /\ snapshot \in [is : BOOLEAN, doc : Docs]
  /\ store \in Seq(OpenStore) /\ registry \in 0..Len(store)
  /\ \A i \in DOMAIN store : store[i].file \in DOMAIN files
  /\ acquiring \in [pc : {"idle", "read", "loaded"}, read : Docs, doc : Docs, created : BOOLEAN]
  /\ deleting \in [Deleter -> DeletingState]
  /\ \A d \in Deleter : deleting[d].pc = "closing" => deleting[d].store \in DOMAIN store

SearchTyped ==
  /\ cache \in IndexState /\ saved \in IndexState
  /\ query \in [Query -> QueryState] /\ asks \in Nat

\* The log is there, and no DELETE that was begun has yet to remove it.
Stands ==
  named # Search!None /\ \A d \in Deleter : deleting[d].pc \notin {"acquired", "closing", "closed"}

AtMost(doc, n) == \A j \in DOMAIN doc : doc[j] <= n

\* Event ids are given out in order, and everything read is of events that were written.
DocsAreIssued ==
  /\ \A f \in DOMAIN files : Len(files[f]) <= lines /\ AtMost(files[f], lines)
  /\ AtMost(snapshot.doc, lines) /\ AtMost(acquiring.read, lines) /\ AtMost(acquiring.doc, lines)
  /\ \A i \in DOMAIN store : AtMost(store[i].doc, lines) /\ store[i].last <= lines

StampsAreIssued ==
  /\ cache.last <= lines /\ saved.last <= lines
  /\ \A q \in Query : query[q].ix.last <= lines /\ query[q].cur.last <= lines

\* The log that stands was made by the store that is registered, which alone writes to it.
OneWriter ==
  /\ acquiring.pc # "idle" => registry = Search!None
  /\ \A i \in DOMAIN store :
       store[i].closed \/ i = registry
         \/ \E d \in Deleter : deleting[d].pc = "closing" /\ deleting[d].store = i

Within(s, doc) == \A j \in DOMAIN s : \E k \in DOMAIN doc : doc[k] = s[j]

\* What is in the log that stands is in the document of its store.
Mirrored(events, s) ==
  /\ s.file = named
  /\ Within(events, s.doc)

LogIsServed == Stands => registry # Search!None /\ Mirrored(files[named], store[registry])

\* An index with the stamp the log once had has what the log had then.
Honest(ix, events) ==
  ix.size \in DOMAIN events /\ events[ix.size] = ix.last =>
    \A j \in 1..ix.size : \E k \in DOMAIN ix.doc : ix.doc[k] = events[j]

IndexesAreHonest ==
  Stands => /\ Honest(cache, files[named]) /\ Honest(saved, files[named])
            /\ \A q \in Query : Honest(query[q].ix, files[named])

\* A query no DELETE crosses still finds the log it found, with more behind it; what it
\* stamped it by and what it built are of that.
Pending(x) == x.pc \notin {"idle", "answered"} /\ ~x.crossed

StillThere(x) ==
  /\ ~Search!Deleting /\ named # Search!None
  /\ Len(x.asked) <= Len(files[named])
  /\ \A j \in DOMAIN x.asked : files[named][j] = x.asked[j]

Faithful(x) ==
  /\ Pending(x) /\ x.pc \in {"stamped", "uncached"} =>
       x.cur.size = Len(x.asked) /\ x.cur.last = Search!Final(x.asked)
  /\ x.pc \in {"built", "saved", "answered"} /\ ~x.crossed => Within(x.asked, x.ix.doc)

UncrossedQueries ==
  \A q \in Query : Faithful(query[q]) /\ (Pending(query[q]) => StillThere(query[q]))

SearchInv ==
  /\ RegistryTyped /\ SearchTyped /\ DocsAreIssued /\ StampsAreIssued /\ OneWriter
  /\ LogIsServed /\ IndexesAreHonest /\ UncrossedQueries
LEMMA DocFacts ==
  /\ <<>> \in Docs /\ Len(<<>>) = 0 /\ DOMAIN <<>> = {}
  /\ \A s \in Docs :
       /\ Len(s) \in Nat /\ DOMAIN s = 1..Len(s)
       /\ s # <<>> <=> Len(s) > 0
       /\ \A j \in 1..Len(s) : s[j] \in 1..MaxLines
       /\ Search!Final(s) \in 0..MaxLines /\ (Search!Final(s) = 0 <=> s = <<>>)
       /\ s # <<>> => Search!Final(s) = s[Len(s)]
<1> USE IndexAssumption
<1>1. <<>> \in Docs /\ Len(<<>>) = 0 /\ DOMAIN <<>> = {} BY DEF Docs
<1>2. ASSUME NEW s \in Docs
      PROVE  /\ Len(s) \in Nat /\ DOMAIN s = 1..Len(s)
             /\ s # <<>> <=> Len(s) > 0
             /\ \A j \in 1..Len(s) : s[j] \in 1..MaxLines
             /\ Search!Final(s) \in 0..MaxLines /\ (Search!Final(s) = 0 <=> s = <<>>)
             /\ s # <<>> => Search!Final(s) = s[Len(s)]
  <2>1. /\ Len(s) \in Nat /\ DOMAIN s = 1..Len(s)
        /\ \A j \in 1..Len(s) : s[j] \in 1..MaxLines
    BY DEF Docs
  <2>2. s # <<>> <=> Len(s) > 0
    <3>1. s = <<>> => Len(s) = 0 BY <1>1
    <3>2. Len(s) = 0 => s = <<>> BY EmptySeq DEF Docs
    <3> QED BY <2>1, <3>1, <3>2
  <2>3. CASE s = <<>> BY <2>1, <2>2, <2>3 DEF Search!Final, Search!None
  <2>4. CASE s # <<>>
    <3>1. Search!Final(s) = s[Len(s)] BY <2>4 DEF Search!Final
    <3>2. Len(s) \in 1..Len(s) BY <2>1, <2>2, <2>4
    <3>3. s[Len(s)] \in 1..MaxLines BY <2>1, <3>2
    <3> QED BY <2>1, <2>2, <2>4, <3>1, <3>3
  <2> QED BY <2>1, <2>2, <2>3, <2>4
<1> QED BY <1>1, <1>2

LEMMA DocGrows ==
  ASSUME NEW s \in Docs, NEW e \in 1..MaxLines
  PROVE  /\ Append(s, e) \in Docs /\ Len(Append(s, e)) = Len(s) + 1 /\ Append(s, e) # <<>>
         /\ \A j \in 1..Len(s) : Append(s, e)[j] = s[j]
         /\ Append(s, e)[Len(s) + 1] = e
         /\ s \o <<>> = s /\ s \o <<e>> = Append(s, e)
         /\ Search!Final(Append(s, e)) = e
<1>1. s \in Seq(1..MaxLines) BY DEF Docs
<1>2. /\ Append(s, e) \in Seq(1..MaxLines) /\ Len(Append(s, e)) = Len(s) + 1
      /\ Append(s, e) # <<>>
      /\ \A j \in 1..Len(s) : Append(s, e)[j] = s[j]
      /\ Append(s, e)[Len(s) + 1] = e
  BY <1>1, AppendProperties
<1>3. s \o <<>> = s BY <1>1, ConcatEmptySeq
<1>4. s \o <<e>> = Append(s, e) BY <1>1, AppendIsConcat
<1> QED BY <1>2, <1>3, <1>4 DEF Docs, Search!Final

LEMMA DocsJoin ==
  ASSUME NEW s \in Docs, NEW t \in Docs, NEW n \in Nat, AtMost(s, n), AtMost(t, n)
  PROVE  s \o t \in Docs /\ AtMost(s \o t, n)
<1>1. /\ s \in Seq(1..MaxLines) /\ t \in Seq(1..MaxLines)
      /\ Len(s) \in Nat /\ Len(t) \in Nat /\ DOMAIN s = 1..Len(s) /\ DOMAIN t = 1..Len(t)
  BY DocFacts DEF Docs
<1>2. /\ s \o t \in Seq(1..MaxLines) /\ Len(s \o t) = Len(s) + Len(t)
      /\ \A i \in 1..Len(s) + Len(t) :
           (s \o t)[i] = IF i <= Len(s) THEN s[i] ELSE t[i - Len(s)]
  BY <1>1, ConcatProperties
<1>3. s \o t \in Docs /\ DOMAIN (s \o t) = 1..Len(s) + Len(t) BY <1>2, DocFacts DEF Docs
<1>4. ASSUME NEW i \in 1..Len(s) + Len(t) PROVE (s \o t)[i] <= n
  <2>1. CASE i <= Len(s) BY <1>1, <1>2, <2>1 DEF AtMost
  <2>2. CASE ~(i <= Len(s))
    <3>1. i - Len(s) \in 1..Len(t) BY <1>1, <2>2
    <3> QED BY <1>1, <1>2, <2>2, <3>1 DEF AtMost
  <2> QED BY <2>1, <2>2
<1> QED BY <1>3, <1>4 DEF AtMost

LEMMA LoadedIsADoc ==
  ASSUME RegistryTyped, NEW events \in Docs,
         NEW doc, doc = IF Search!snapshotMatchesLog(snapshot, events)
                          THEN snapshot.doc \o SubSeq(events, Len(snapshot.doc) + 1, Len(events))
                          ELSE events,
         NEW n \in Nat, AtMost(events, n), AtMost(snapshot.doc, n)
  PROVE  doc \in Docs /\ AtMost(doc, n)
<1>1. CASE ~Search!snapshotMatchesLog(snapshot, events) BY <1>1
<1>2. CASE Search!snapshotMatchesLog(snapshot, events)
  <2>1. /\ snapshot.doc \in Docs /\ Len(snapshot.doc) \in Nat /\ Len(events) \in Nat
        /\ Len(snapshot.doc) <= Len(events)
    BY <1>2, DocFacts DEF RegistryTyped, Search!snapshotMatchesLog
  <2> DEFINE m == Len(snapshot.doc) + 1
             last == Len(events)
             rest == SubSeq(events, m, last)
  <2>2. rest \in Docs /\ AtMost(rest, n)
    <3>1. m \in Int /\ last \in Int /\ m >= 1 BY <2>1
    <3>2. \A i \in m..last : events[i] \in 1..MaxLines /\ events[i] <= n
      BY <3>1, DocFacts DEF AtMost
    <3> HIDE DEF m, last
    <3>3. /\ rest \in Seq(1..MaxLines)
          /\ \A i \in 1..last - m + 1 : rest[i] = events[m + i - 1]
          /\ Len(rest) = IF m <= last THEN last - m + 1 ELSE 0
      BY <3>1, <3>2, SubSeqProperties
    <3>4. rest \in Docs BY <3>3 DEF Docs
    <3> HIDE DEF rest
    <3>5. ASSUME NEW i \in DOMAIN rest PROVE rest[i] <= n
      <4>1. i \in 1..last - m + 1 BY <3>1, <3>3, <3>4, DocFacts
      <4>2. m + i - 1 \in m..last BY <3>1, <4>1
      <4> QED BY <3>2, <3>3, <4>1, <4>2
    <3> QED BY <3>4, <3>5 DEF AtMost
  <2> HIDE DEF rest
  <2>3. snapshot.doc \o rest \in Docs /\ AtMost(snapshot.doc \o rest, n)
    BY <2>1, <2>2, DocsJoin
  <2> QED BY <1>2, <2>3 DEF rest, m, last
<1> QED BY <1>1, <1>2

LEMMA SearchInit == Search!Init => SearchInv
<1> SUFFICES ASSUME Search!Init PROVE SearchInv OBVIOUS
<1> USE IndexAssumption DEF Search!Init, Search!InitRegistry, Search!None
<1>1. RegistryTyped
  <2>1. files \in Seq(Docs) /\ store \in Seq(OpenStore) /\ Len(files) = 0 /\ DOMAIN store = {}
        /\ Len(store) = 0
    OBVIOUS
  <2>2. acquiring \in [pc : {"idle", "read", "loaded"}, read : Docs, doc : Docs,
                       created : BOOLEAN]
    BY DocFacts DEF Search!Idle
  <2>3. /\ deleting \in [Deleter -> DeletingState]
        /\ \A d \in Deleter : deleting[d].pc # "closing"
    BY DEF DeletingState
  <2>4. snapshot \in [is : BOOLEAN, doc : Docs] BY DocFacts DEF Search!NoSnap
  <2> QED BY <2>1, <2>2, <2>3, <2>4 DEF RegistryTyped
<1>2. /\ Search!NoIndex \in IndexState /\ Search!NoIndex.last = 0
      /\ Search!NoQuery \in QueryState /\ Search!NoQuery.pc = "idle"
      /\ Search!NoQuery.ix.last = 0 /\ Search!NoQuery.cur.last = 0
  BY DocFacts DEF Search!NoIndex, Search!NoQuery, Search!NoStamp, IndexState, QueryState
<1>3. SearchTyped BY <1>2 DEF SearchTyped
<1>4. DocsAreIssued /\ StampsAreIssued
  BY <1>2, DocFacts DEF DocsAreIssued, StampsAreIssued, AtMost, Search!Idle, Search!NoSnap
<1>5. OneWriter BY DEF OneWriter, Search!Idle
<1>6. ~Stands BY DEF Stands
<1>7. UncrossedQueries BY <1>2 DEF UncrossedQueries, Faithful, Pending
<1> QED BY <1>1, <1>3, <1>4, <1>5, <1>6, <1>7 DEF SearchInv, LogIsServed, IndexesAreHonest
\* Steps of the registry: a DELETE that is under way crosses the queries that are.
LEMMA CrossedEffect ==
  ASSUME SearchTyped, query' = Search!Crossed
  PROVE  /\ query' \in [Query -> QueryState]
         /\ \A q \in Query :
              /\ query'[q].pc = query[q].pc /\ query'[q].cur = query[q].cur
              /\ query'[q].ix = query[q].ix /\ query'[q].asked = query[q].asked
              /\ query[q].crossed => query'[q].crossed
              /\ Pending(query'[q]) => Pending(query[q]) /\ ~Search!Deleting'
              /\ ~query'[q].crossed => ~query[q].crossed
<1>1. query \in [Query -> QueryState] BY DEF SearchTyped
<1>2. ASSUME NEW q \in Query
      PROVE  /\ query'[q] \in QueryState
             /\ query'[q].pc = query[q].pc /\ query'[q].cur = query[q].cur
             /\ query'[q].ix = query[q].ix /\ query'[q].asked = query[q].asked
             /\ query[q].crossed => query'[q].crossed
             /\ Pending(query'[q]) => Pending(query[q]) /\ ~Search!Deleting'
             /\ ~query'[q].crossed => ~query[q].crossed
  <2>1. query[q] \in QueryState BY <1>1
  <2>2. CASE query[q].pc \in {"idle", "answered"}
    <3>1. query'[q] = query[q] BY <2>2 DEF Search!Crossed
    <3> QED BY <2>1, <2>2, <3>1 DEF Pending
  <2>3. CASE query[q].pc \notin {"idle", "answered"}
    <3>1. query'[q] = [query[q] EXCEPT !.crossed = query[q].crossed \/ Search!Deleting']
      BY <2>3 DEF Search!Crossed
    <3>2. PICK c \in BOOLEAN : c = (query[q].crossed \/ Search!Deleting')
      <4>1. (query[q].crossed \/ Search!Deleting') \in BOOLEAN OBVIOUS
      <4> QED BY <4>1, Zenon
    <3>3. query'[q] = [query[q] EXCEPT !.crossed = c] BY <3>1, <3>2, Zenon
    <3>4. query[q].crossed \in BOOLEAN BY <2>1 DEF QueryState
    <3>5. (query[q].crossed => c) /\ (Search!Deleting' => c) BY <3>2, Zenon
    <3>6. /\ query'[q] \in QueryState /\ query'[q].crossed = c
          /\ query'[q].pc = query[q].pc /\ query'[q].cur = query[q].cur
          /\ query'[q].ix = query[q].ix /\ query'[q].asked = query[q].asked
      BY <2>1, <3>3 DEF QueryState
    <3> QED BY <2>3, <3>4, <3>5, <3>6 DEF Pending
  <2> QED BY <2>2, <2>3
<1>3. query' = [q \in Query |-> query'[q]] BY DEF Search!Crossed
<1> QED BY <1>2, <1>3

\* A step that leaves the log that stands, and its store, as they are.
LEMMA LogStays ==
  ASSUME SearchInv, RegistryTyped', OneWriter', UNCHANGED <<files, lines, cache, saved, asks>>,
         query' = Search!Crossed, DocsAreIssued',
         Stands' => Stands /\ UNCHANGED <<named, registry, store>>,
         ~Search!Deleting' => UNCHANGED named
  PROVE  SearchInv'
<1>1. /\ query' \in [Query -> QueryState]
      /\ \A q \in Query :
           /\ query'[q].pc = query[q].pc /\ query'[q].cur = query[q].cur
           /\ query'[q].ix = query[q].ix /\ query'[q].asked = query[q].asked
           /\ query[q].crossed => query'[q].crossed
           /\ Pending(query'[q]) => Pending(query[q]) /\ ~Search!Deleting'
           /\ ~query'[q].crossed => ~query[q].crossed
  BY CrossedEffect DEF SearchInv
<1>2. SearchTyped' BY <1>1 DEF SearchInv, SearchTyped
<1>3. StampsAreIssued' BY <1>1 DEF SearchInv, StampsAreIssued
<1>4. LogIsServed'
  BY DEF SearchInv, LogIsServed, Mirrored
<1>5. IndexesAreHonest' BY <1>1 DEF SearchInv, IndexesAreHonest
<1>6. UncrossedQueries'
  <2>1. ASSUME NEW q \in Query PROVE Faithful(query'[q])
    <3>1. Faithful(query[q]) BY DEF SearchInv, UncrossedQueries
    <3> QED BY <1>1, <3>1 DEF Faithful
  <2>2. ASSUME NEW q \in Query, Pending(query'[q]) PROVE StillThere(query[q])'
    <3>1. Pending(query[q]) /\ ~Search!Deleting' /\ query'[q].asked = query[q].asked
      BY <1>1, <2>2
    <3>2. StillThere(query[q]) BY <3>1 DEF SearchInv, UncrossedQueries
    <3>3. named' = named /\ files' = files BY <3>1
    <3> QED BY <3>1, <3>2, <3>3 DEF StillThere
  <2>3. \A q \in Query : Pending(query[q])' <=> Pending(query'[q]) BY DEF Pending
  <2>4. \A q \in Query : Faithful(query[q])' <=> Faithful(query'[q]) BY DEF Faithful, Pending
  <2> QED BY <2>1, <2>2, <2>3, <2>4 DEF UncrossedQueries
<1> QED BY <1>2, <1>3, <1>4, <1>5, <1>6 DEF SearchInv
LEMMA AcquireStep ==
  ASSUME SearchInv, Search!Acquire \/ Search!Create \/ Search!Load,
         UNCHANGED <<cache, saved, asks>>, query' = Search!Crossed
  PROVE  SearchInv'
<1>1. UNCHANGED <<files, named, snapshot, store, registry, deleting, lines>>
  BY DEF Search!Acquire, Search!Create, Search!Load
<1>2. /\ RegistryTyped /\ DocsAreIssued /\ Search!Idle.pc = "idle"
      /\ Search!Idle.read = <<>> /\ Search!Idle.doc = <<>> /\ lines \in Nat
      /\ acquiring \in [pc : {"idle", "read", "loaded"}, read : Docs, doc : Docs,
                        created : BOOLEAN]
      /\ Search!Idle \in [pc : {"idle", "read", "loaded"}, read : Docs, doc : Docs,
                          created : BOOLEAN]
  BY DocFacts DEF SearchInv, RegistryTyped, Search!Idle
<1>3. acquiring' \in [pc : {"idle", "read", "loaded"}, read : Docs, doc : Docs,
                      created : BOOLEAN]
      /\ registry = Search!None
      /\ AtMost(acquiring'.read, lines) /\ AtMost(acquiring'.doc, lines)
  <2>4. AtMost(<<>>, lines) BY DocFacts DEF AtMost
  <2>1. CASE Search!Acquire
    <3>1. named \in DOMAIN files /\ registry = Search!None
      BY <1>2, <2>1 DEF Search!Acquire, Search!None, RegistryTyped
    <3>2. files[named] \in Docs /\ AtMost(files[named], lines)
      BY <1>2, <3>1 DEF RegistryTyped, DocsAreIssued
    <3>3. acquiring' = [Search!Idle EXCEPT !.pc = "read", !.read = files[named]]
      BY <2>1 DEF Search!Acquire
    <3> QED BY <1>2, <2>4, <3>1, <3>2, <3>3
  <2>2. CASE Search!Create
    <3>1. /\ acquiring' = [Search!Idle EXCEPT !.pc = "loaded", !.created = TRUE]
          /\ registry = Search!None
      BY <2>2 DEF Search!Create
    <3> QED BY <1>2, <2>4, <3>1
  <2>3. CASE Search!Load
    <3> DEFINE loaded == IF Search!snapshotMatchesLog(snapshot, acquiring.read)
                           THEN snapshot.doc
                                  \o SubSeq(acquiring.read, Len(snapshot.doc) + 1,
                                            Len(acquiring.read))
                           ELSE acquiring.read
    <3>1. acquiring.pc = "read" /\ acquiring' = [acquiring EXCEPT !.pc = "loaded", !.doc = loaded]
      BY <2>3 DEF Search!Load
    <3>2. registry = Search!None BY <3>1 DEF SearchInv, OneWriter
    <3>3. loaded \in Docs /\ AtMost(loaded, lines)
      <4>1. /\ acquiring.read \in Docs /\ AtMost(acquiring.read, lines)
            /\ AtMost(snapshot.doc, lines)
        BY <1>2 DEF DocsAreIssued
      <4> QED BY <1>2, <4>1, LoadedIsADoc
    <3> HIDE DEF loaded
    <3>4. acquiring'.read = acquiring.read /\ acquiring'.doc = loaded BY <1>2, <3>1
    <3> QED BY <1>2, <3>1, <3>2, <3>3, <3>4 DEF DocsAreIssued
  <2> QED BY <2>1, <2>2, <2>3
<1>4. RegistryTyped' BY <1>1, <1>2, <1>3 DEF RegistryTyped
<1>5. OneWriter' BY <1>1, <1>3 DEF SearchInv, OneWriter
<1>6. Stands' => Stands BY <1>1 DEF Stands
<1>7. DocsAreIssued' BY <1>1, <1>2, <1>3 DEF DocsAreIssued
<1> QED BY <1>1, <1>4, <1>5, <1>6, <1>7, LogStays

\* How far a DELETE has come.
LEMMA DeleterMoves ==
  ASSUME deleting \in [Deleter -> DeletingState], NEW d \in Deleter, NEW to \in DeletingState,
         deleting' = [deleting EXCEPT ![d] = to]
  PROVE  /\ deleting' \in [Deleter -> DeletingState]
         /\ deleting'[d] = to /\ \A e \in Deleter : e # d => deleting'[e] = deleting[e]
OBVIOUS

LEMMA DeletingStep ==
  ASSUME SearchInv, NEW d \in Deleter,
         Search!Begin(d) \/ Search!Release(d) \/ Search!RemoveLog(d) \/ Search!RemoveSnapshot(d),
         UNCHANGED <<cache, saved, asks>>, query' = Search!Crossed
  PROVE  SearchInv'
<1>1. /\ RegistryTyped /\ OneWriter /\ deleting \in [Deleter -> DeletingState]
      /\ deleting[d] \in DeletingState
  BY DEF SearchInv, RegistryTyped
<1>2. UNCHANGED <<files, store, acquiring, lines>>
  BY DEF Search!Begin, Search!Release, Search!RemoveLog, Search!RemoveSnapshot
<1>3. PICK to \in DeletingState :
        /\ deleting' = [deleting EXCEPT ![d] = to]
        /\ to.pc # "idle" /\ deleting[d].pc # "closing"
        /\ \/ /\ to.pc = "acquired" /\ UNCHANGED <<named, registry, snapshot>>
           \/ /\ to.pc = "closed" /\ UNCHANGED <<named, registry, snapshot>>
              /\ registry = Search!None
           \/ /\ to.pc = "closing" /\ to.store = registry /\ registry # Search!None
              /\ acquiring.pc = "idle"
              /\ registry' = Search!None /\ UNCHANGED <<named, snapshot>>
           \/ /\ to.pc = "unlinked" /\ named' = Search!None /\ UNCHANGED <<registry, snapshot>>
           \/ /\ to.pc = "bare" /\ deleting[d].pc = "unlinked" /\ UNCHANGED <<named, registry>>
              /\ snapshot' = Search!NoSnap
  <2>1. CASE Search!Begin(d)
    <3>1. PICK to : to = [deleting[d] EXCEPT !.pc = "acquired"] OBVIOUS
    <3>2. deleting' = [deleting EXCEPT ![d] = to] BY <2>1, <3>1 DEF Search!Begin
    <3>3. to \in DeletingState /\ to.pc = "acquired" BY <1>1, <3>1 DEF DeletingState
    <3> QED BY <2>1, <3>2, <3>3 DEF Search!Begin
  <2>2. CASE Search!Release(d)
    <3> DEFINE to == [pc |-> IF registry = Search!None THEN "closed" ELSE "closing",
                      store |-> registry]
    <3>1. /\ deleting' = [deleting EXCEPT ![d] = to] /\ deleting[d].pc = "acquired"
          /\ registry' = Search!None /\ acquiring.pc = "idle"
          /\ UNCHANGED <<named, snapshot>>
      BY <2>2 DEF Search!Release, Search!LockFree
    <3>2. registry \in Nat BY <1>1 DEF RegistryTyped
    <3>3. /\ to \in DeletingState /\ to.store = registry
          /\ \/ to.pc = "closed" /\ registry = Search!None
             \/ to.pc = "closing" /\ registry # Search!None
      BY <3>2 DEF DeletingState
    <3> HIDE DEF to
    <3> QED BY <3>1, <3>3
  <2>3. CASE Search!RemoveLog(d)
    <3>1. PICK to : to = [deleting[d] EXCEPT !.pc = "unlinked"] OBVIOUS
    <3>2. deleting' = [deleting EXCEPT ![d] = to] BY <2>3, <3>1 DEF Search!RemoveLog
    <3>3. to \in DeletingState /\ to.pc = "unlinked" BY <1>1, <3>1 DEF DeletingState
    <3> QED BY <2>3, <3>2, <3>3 DEF Search!RemoveLog
  <2>4. CASE Search!RemoveSnapshot(d)
    <3>1. PICK to : to = [deleting[d] EXCEPT !.pc = "bare"] OBVIOUS
    <3>2. deleting' = [deleting EXCEPT ![d] = to] BY <2>4, <3>1 DEF Search!RemoveSnapshot
    <3>3. to \in DeletingState /\ to.pc = "bare" BY <1>1, <3>1 DEF DeletingState
    <3> QED BY <2>4, <3>2, <3>3 DEF Search!RemoveSnapshot
  <2> QED BY <2>1, <2>2, <2>3, <2>4
<1>4. /\ deleting' \in [Deleter -> DeletingState] /\ deleting'[d] = to
      /\ \A e \in Deleter : e # d => deleting'[e] = deleting[e]
  BY <1>1, <1>3, DeleterMoves
<1>5. Search!Deleting' BY <1>3, <1>4 DEF Search!Deleting
<1>6. RegistryTyped'
  <2>1. snapshot' \in [is : BOOLEAN, doc : Docs]
    <3>1. Search!NoSnap \in [is : BOOLEAN, doc : Docs] BY DocFacts DEF Search!NoSnap
    <3>2. snapshot \in [is : BOOLEAN, doc : Docs] BY <1>1 DEF RegistryTyped
    <3>3. snapshot' = snapshot \/ snapshot' = Search!NoSnap BY <1>3
    <3> QED BY <3>1, <3>2, <3>3
  <2>2. named' \in 0..Len(files) /\ registry' \in 0..Len(store)
    <3>1. Len(files) \in Nat /\ Len(store) \in Nat BY <1>1 DEF RegistryTyped
    <3> QED BY <1>1, <1>3, <3>1 DEF RegistryTyped, Search!None
  <2>3. ASSUME NEW e \in Deleter, deleting'[e].pc = "closing"
        PROVE  deleting'[e].store \in DOMAIN store
    <3>1. CASE e # d BY <1>1, <1>4, <2>3, <3>1 DEF RegistryTyped
    <3>2. CASE e = d
      <4>1. to.store = registry /\ to.pc = "closing" BY <1>3, <1>4, <2>3, <3>2
      <4>2. registry \in 1..Len(store)
        <5>1. registry # Search!None /\ registry \in 0..Len(store) /\ Len(store) \in Nat
          BY <1>1, <1>3, <4>1 DEF RegistryTyped
        <5> QED BY <5>1 DEF Search!None
      <4> QED BY <1>1, <1>4, <3>2, <4>1, <4>2 DEF RegistryTyped
    <3> QED BY <3>1, <3>2
  <2> QED BY <1>1, <1>2, <1>4, <2>1, <2>2, <2>3 DEF RegistryTyped
<1>7. OneWriter'
  <2>1. acquiring'.pc # "idle" => registry' = Search!None BY <1>1, <1>2, <1>3 DEF OneWriter
  <2>2. ASSUME NEW i \in DOMAIN store
        PROVE  \/ store[i].closed \/ i = registry'
               \/ \E e \in Deleter : deleting'[e].pc = "closing" /\ deleting'[e].store = i
    <3>1. CASE store[i].closed BY <3>1
    <3>2. CASE i = registry BY <1>3, <1>4, <3>2
    <3>3. CASE \E e \in Deleter : deleting[e].pc = "closing" /\ deleting[e].store = i
      BY <1>3, <1>4, <3>3
    <3> QED BY <1>1, <3>1, <3>2, <3>3 DEF OneWriter
  <2> QED BY <1>2, <2>1, <2>2 DEF OneWriter
<1>8. Stands' => Stands /\ UNCHANGED <<named, registry, store>>
  <2>1. ASSUME Stands' PROVE to.pc = "bare" /\ named # Search!None
    BY <1>3, <1>4, <2>1 DEF Stands
  <2>2. ASSUME Stands', NEW e \in Deleter
        PROVE  deleting[e].pc \notin {"acquired", "closing", "closed"}
    BY <1>3, <1>4, <2>1, <2>2 DEF Stands
  <2> QED BY <1>2, <1>3, <2>1, <2>2 DEF Stands
<1>9. DocsAreIssued'
  <2>1. AtMost(snapshot'.doc, lines)
    <3>1. Search!NoSnap.doc = <<>> BY DEF Search!NoSnap
    <3>2. AtMost(<<>>, lines) BY DocFacts DEF AtMost
    <3> QED BY <1>3, <3>1, <3>2 DEF SearchInv, DocsAreIssued
  <2> QED BY <1>2, <2>1 DEF SearchInv, DocsAreIssued
<1> QED BY <1>2, <1>5, <1>6, <1>7, <1>8, <1>9, LogStays

LEMMA CloseStep ==
  ASSUME SearchInv, NEW d \in Deleter, Search!Close(d),
         UNCHANGED <<cache, saved, asks>>, query' = Search!Crossed
  PROVE  SearchInv'
<1>1. /\ RegistryTyped /\ OneWriter /\ deleting \in [Deleter -> DeletingState]
      /\ store \in Seq(OpenStore) /\ DOMAIN store = 1..Len(store)
      /\ \A i \in DOMAIN store : store[i] \in OpenStore
  BY DEF SearchInv, RegistryTyped
<1> DEFINE n == deleting[d].store
<1>2. /\ deleting[d].pc = "closing" /\ UNCHANGED <<files, named, registry, acquiring, lines>>
      /\ store' = [store EXCEPT ![n].closed = TRUE]
      /\ snapshot' = [is |-> TRUE, doc |-> store[n].doc]
      /\ deleting' = [deleting EXCEPT ![d] = [pc |-> "closed", store |-> Search!None]]
  BY DEF Search!Close
<1>3. PICK to : to = [pc |-> "closed", store |-> Search!None] OBVIOUS
<1>4. to \in DeletingState /\ to.pc = "closed" BY <1>3 DEF DeletingState, Search!None
<1>5. /\ deleting' \in [Deleter -> DeletingState] /\ deleting'[d] = to
      /\ \A e \in Deleter : e # d => deleting'[e] = deleting[e]
  BY <1>1, <1>2, <1>3, <1>4, DeleterMoves
<1>6. Search!Deleting' /\ ~Stands' BY <1>4, <1>5 DEF Search!Deleting, Stands
<1>7. /\ DOMAIN store' = DOMAIN store /\ store' \in Seq(OpenStore) /\ Len(store') = Len(store)
      /\ \A i \in DOMAIN store :
           /\ store'[i].last = store[i].last /\ store'[i].file = store[i].file
           /\ store'[i].doc = store[i].doc
           /\ i = n \/ store[i].closed => store'[i].closed
  <2>1. n \in DOMAIN store BY <1>1, <1>2 DEF RegistryTyped
  <2>2. store[n] \in OpenStore BY <1>1, <2>1
  <2> HIDE DEF n
  <2>3. PICK x : x = [store[n] EXCEPT !.closed = TRUE] OBVIOUS
  <2>4. x \in OpenStore /\ x.closed /\ x.last = store[n].last /\ x.file = store[n].file
        /\ x.doc = store[n].doc
    BY <2>2, <2>3 DEF OpenStore
  <2>5. store' = [store EXCEPT ![n] = x] BY <1>2, <2>3
  <2> QED BY <1>1, <2>1, <2>4, <2>5, ExceptSeq
<1>8. snapshot' \in [is : BOOLEAN, doc : Docs] /\ AtMost(snapshot'.doc, lines)
  <2>1. n \in DOMAIN store BY <1>1, <1>2 DEF RegistryTyped
  <2>2. store[n] \in OpenStore BY <1>1, <2>1
  <2>3. store[n].doc \in Docs /\ AtMost(store[n].doc, lines)
    BY <2>1, <2>2 DEF OpenStore, SearchInv, DocsAreIssued
  <2> QED BY <1>2, <2>3
<1>9. RegistryTyped'
  <2>1. \A e \in Deleter : deleting'[e].pc = "closing" => deleting'[e].store \in DOMAIN store
    BY <1>1, <1>4, <1>5 DEF RegistryTyped
  <2> QED BY <1>1, <1>2, <1>5, <1>7, <1>8, <2>1 DEF RegistryTyped
<1>10. OneWriter'
  <2>1. ASSUME NEW i \in DOMAIN store
        PROVE  \/ store'[i].closed \/ i = registry
               \/ \E e \in Deleter : deleting'[e].pc = "closing" /\ deleting'[e].store = i
    <3>1. CASE store[i].closed \/ i = n BY <1>7, <3>1
    <3>2. CASE i = registry BY <3>2
    <3>3. CASE i # n /\ \E e \in Deleter : deleting[e].pc = "closing" /\ deleting[e].store = i
      BY <1>5, <3>3
    <3> QED BY <1>1, <3>1, <3>2, <3>3 DEF OneWriter
  <2> QED BY <1>1, <1>2, <1>7, <2>1 DEF OneWriter
<1>11. DocsAreIssued' BY <1>2, <1>7, <1>8 DEF SearchInv, DocsAreIssued
<1> QED BY <1>2, <1>6, <1>7, <1>9, <1>10, <1>11, LogStays
\* A log that has one more event, one nobody has seen.
LEMMA WithinGrows ==
  ASSUME NEW s \in Docs, NEW doc \in Docs, NEW e \in 1..MaxLines, Within(s, doc)
  PROVE  Within(Append(s, e), Append(doc, e))
<1> DEFINE t == Append(s, e)
           d == Append(doc, e)
<1>1. /\ Len(s) \in Nat /\ DOMAIN s = 1..Len(s) /\ DOMAIN t = 1..Len(s) + 1
      /\ \A j \in 1..Len(s) : t[j] = s[j]
      /\ t[Len(s) + 1] = e
  BY DocFacts, DocGrows
<1>2. /\ Len(doc) \in Nat /\ DOMAIN doc = 1..Len(doc) /\ DOMAIN d = 1..Len(doc) + 1
      /\ \A j \in 1..Len(doc) : d[j] = doc[j]
      /\ d[Len(doc) + 1] = e
  BY DocFacts, DocGrows
<1> HIDE DEF t, d
<1>3. ASSUME NEW j \in DOMAIN t PROVE \E k \in DOMAIN d : d[k] = t[j]
  <2>1. CASE j \in DOMAIN s
    <3>1. PICK k \in DOMAIN doc : doc[k] = s[j] BY <2>1 DEF Within
    <3> QED BY <1>1, <1>2, <2>1, <3>1
  <2>2. CASE j = Len(s) + 1
    <3>1. Len(doc) + 1 \in DOMAIN d BY <1>2
    <3> QED BY <1>1, <1>2, <2>2, <3>1
  <2> QED BY <1>1, <2>1, <2>2
<1> QED BY <1>3 DEF Within, t, d

LEMMA HonestGrows ==
  ASSUME NEW s \in Docs, NEW e \in 1..MaxLines, NEW ix \in IndexState, ix.last < e, Honest(ix, s)
  PROVE  Honest(ix, Append(s, e))
<1> DEFINE t == Append(s, e)
<1>1. /\ Len(s) \in Nat /\ DOMAIN s = 1..Len(s) /\ DOMAIN t = 1..Len(s) + 1
      /\ \A j \in 1..Len(s) : t[j] = s[j]
      /\ t[Len(s) + 1] = e
  BY DocFacts, DocGrows
<1>2. ix.last \in Nat /\ ix.size \in Nat BY IndexAssumption DEF IndexState
<1> HIDE DEF t
<1>3. ASSUME ix.size \in DOMAIN t, t[ix.size] = ix.last
      PROVE  \A j \in 1..ix.size : \E k \in DOMAIN ix.doc : ix.doc[k] = t[j]
  <2>1. ix.size # Len(s) + 1 BY <1>1, <1>2, <1>3
  <2>2. ix.size \in DOMAIN s /\ s[ix.size] = ix.last BY <1>1, <1>3, <2>1
  <2>3. \A j \in 1..ix.size : t[j] = s[j] BY <1>1, <2>2
  <2> QED BY <2>2, <2>3 DEF Honest
<1> QED BY <1>3 DEF Honest, t

LEMMA MirroredGrows ==
  ASSUME NEW s \in Docs, NEW e \in 1..MaxLines,
         NEW x \in OpenStore, NEW y \in OpenStore, Mirrored(s, x),
         y.file = x.file, y.doc = Append(x.doc, e)
  PROVE  Mirrored(Append(s, e), y)
<1>1. x.doc \in Docs BY DEF OpenStore
<1> QED BY <1>1, WithinGrows DEF Mirrored

LEMMA LineStep ==
  ASSUME SearchInv, NEW i, Search!Write(i),
         UNCHANGED <<cache, saved, asks>>, query' = Search!Crossed
  PROVE  SearchInv'
<1> USE IndexAssumption
<1> DEFINE f == store[i].file
           e == lines + 1
<1>1. /\ i \in DOMAIN store /\ lines < MaxLines /\ ~store[i].closed
      /\ files' = [files EXCEPT ![f] = Append(files[f], e)]
      /\ store' = [store EXCEPT ![i].doc = Append(store[i].doc, e), ![i].last = e,
                                ![i].since = IF store[i].since + 1 >= SnapshotEvery THEN 0
                                             ELSE store[i].since + 1]
      /\ \/ snapshot' = snapshot
         \/ snapshot' = [is |-> TRUE, doc |-> Append(store[i].doc, e)]
      /\ lines' = e /\ UNCHANGED <<named, registry, acquiring, deleting>>
  BY DEF Search!Write, Search!MayWrite, Search!Fresh
<1>2. /\ RegistryTyped /\ SearchTyped /\ DocsAreIssued /\ OneWriter
      /\ store \in Seq(OpenStore) /\ i \in 1..Len(store) /\ DOMAIN store = 1..Len(store)
      /\ Len(store) \in Nat
      /\ files \in Seq(Docs) /\ f \in 1..Len(files) /\ DOMAIN files = 1..Len(files)
      /\ store[i] \in OpenStore /\ store[i].doc \in Docs /\ files[f] \in Docs
      /\ lines \in Nat /\ e \in 1..MaxLines
  <2>1. RegistryTyped /\ SearchTyped /\ DocsAreIssued /\ OneWriter BY DEF SearchInv
  <2>2. /\ store \in Seq(OpenStore) /\ files \in Seq(Docs) /\ lines \in 0..MaxLines
        /\ f \in DOMAIN files
    BY <1>1, <2>1 DEF RegistryTyped
  <2>3. store[i] \in OpenStore /\ files[f] \in Docs BY <1>1, <2>2
  <2>4. store[i].doc \in Docs BY <2>3 DEF OpenStore
  <2>5. DOMAIN store = 1..Len(store) /\ Len(store) \in Nat /\ DOMAIN files = 1..Len(files)
    BY <2>2
  <2>6. lines \in Nat /\ e \in 1..MaxLines BY <1>1, <2>2
  <2> HIDE DEF f, e
  <2> QED BY <1>1, <2>1, <2>2, <2>3, <2>4, <2>5, <2>6
<1> HIDE DEF f, e
<1>3. PICK next \in OpenStore :
        /\ store' = [store EXCEPT ![i] = next] /\ next.file = f /\ next.last = e
        /\ next.doc = Append(store[i].doc, e) /\ ~next.closed
  <2>1. PICK n \in Nat : n = IF store[i].since + 1 >= SnapshotEvery THEN 0
                         ELSE store[i].since + 1
    <3>1. store[i].since \in Nat BY <1>2 DEF OpenStore
    <3> QED BY <3>1
  <2>2. Append(store[i].doc, e) \in Docs BY <1>2, DocGrows
  <2>3. PICK next : next = [store[i] EXCEPT !.doc = Append(store[i].doc, e), !.last = e,
                                            !.since = n]
    OBVIOUS
  <2>4. /\ next \in OpenStore /\ next.file = f /\ next.last = e
        /\ next.doc = Append(store[i].doc, e) /\ ~next.closed
    <3> DEFINE x == store[i]
               doc == Append(store[i].doc, e)
    <3>1. x.closed = FALSE /\ x.file = f /\ x \in OpenStore /\ doc \in Docs
      BY <1>1, <1>2, <2>2 DEF OpenStore, f
    <3>2. e \in 0..MaxLines BY <1>2
    <3>3. next = [x EXCEPT !.doc = doc, !.last = e, !.since = n] BY <2>3
    <3> HIDE DEF x, doc
    <3>4. /\ next \in OpenStore /\ next.file = x.file /\ next.last = e /\ next.doc = doc
          /\ next.closed = x.closed
      BY <2>1, <3>1, <3>2, <3>3 DEF OpenStore
    <3> QED BY <3>1, <3>4 DEF doc
  <2>5. store' = [store EXCEPT ![i] = next] BY <1>1, <2>1, <2>3
  <2> QED BY <2>4, <2>5
<1>4. /\ store' \in Seq(OpenStore) /\ Len(store') = Len(store) /\ DOMAIN store' = DOMAIN store
      /\ store'[i] = next /\ \A n \in DOMAIN store : n # i => store'[n] = store[n]
  BY <1>2, <1>3, ExceptSeq
<1>5. /\ Append(files[f], e) \in Docs /\ files' \in Seq(Docs) /\ Len(files') = Len(files)
      /\ DOMAIN files' = DOMAIN files
      /\ files'[f] = Append(files[f], e)
      /\ \A g \in DOMAIN files : g # f => files'[g] = files[g]
  <2>1. Append(files[f], e) \in Docs BY <1>2, DocGrows
  <2> QED BY <1>1, <1>2, <2>1, ExceptSeq
<1>6. RegistryTyped'
  <2>1. snapshot' \in [is : BOOLEAN, doc : Docs]
    <3>1. Append(store[i].doc, e) \in Docs BY <1>2, DocGrows
    <3>2. snapshot \in [is : BOOLEAN, doc : Docs] BY <1>2 DEF RegistryTyped
    <3>3. PICK grown : grown = Append(store[i].doc, e) OBVIOUS
    <3>4. [is |-> TRUE, doc |-> grown] \in [is : BOOLEAN, doc : Docs] BY <3>1, <3>3
    <3>5. snapshot' = snapshot \/ snapshot' = [is |-> TRUE, doc |-> grown] BY <1>1, <3>3
    <3> QED BY <3>2, <3>4, <3>5
  <2>2. \A n \in DOMAIN store' : store'[n].file \in DOMAIN files'
    BY <1>2, <1>3, <1>4, <1>5 DEF RegistryTyped
  <2>3. lines' \in 0..MaxLines BY <1>1, <1>2
  <2> QED BY <1>1, <1>2, <1>4, <1>5, <2>1, <2>2, <2>3 DEF RegistryTyped
<1>7. \A doc \in Docs : AtMost(doc, lines) => AtMost(doc, e) /\ AtMost(Append(doc, e), e)
  <2> SUFFICES ASSUME NEW doc \in Docs, AtMost(doc, lines)
               PROVE  AtMost(doc, e) /\ AtMost(Append(doc, e), e)
    OBVIOUS
  <2>1. /\ Len(doc) \in Nat /\ DOMAIN doc = 1..Len(doc)
        /\ \A j \in 1..Len(doc) : doc[j] \in 1..MaxLines /\ doc[j] <= lines
    BY DocFacts DEF AtMost
  <2>2. \A j \in 1..Len(doc) : doc[j] <= e BY <1>2, <2>1 DEF e
  <2>3. /\ DOMAIN Append(doc, e) = 1..Len(doc) + 1 /\ Append(doc, e)[Len(doc) + 1] = e
        /\ \A j \in 1..Len(doc) : Append(doc, e)[j] = doc[j]
    BY <1>2, DocFacts, DocGrows
  <2>4. ASSUME NEW j \in 1..Len(doc) + 1 PROVE Append(doc, e)[j] <= e
    BY <1>2, <2>1, <2>2, <2>3
  <2> QED BY <2>1, <2>2, <2>3, <2>4 DEF AtMost
<1>8. DocsAreIssued'
  <2>1. ASSUME NEW g \in DOMAIN files PROVE Len(files'[g]) <= e /\ AtMost(files'[g], e)
    <3>1. files[g] \in Docs /\ Len(files[g]) <= lines /\ AtMost(files[g], lines)
      BY <1>2 DEF DocsAreIssued
    <3>2. Len(files[g]) \in Nat /\ e = lines + 1 BY <3>1, DocFacts DEF e
    <3>5. Len(files[g]) <= e /\ Len(files[g]) + 1 <= e BY <1>2, <3>1, <3>2
    <3>6. Len(Append(files[g], e)) <= e BY <1>2, <3>1, <3>5, DocGrows
    <3>7. AtMost(files[g], e) /\ AtMost(Append(files[g], e), e) BY <1>7, <3>1
    <3>3. CASE g = f BY <1>5, <3>3, <3>6, <3>7
    <3>4. CASE g # f BY <1>5, <3>4, <3>5, <3>7
    <3> QED BY <3>3, <3>4
  <2>2. ASSUME NEW n \in DOMAIN store PROVE AtMost(store'[n].doc, e) /\ store'[n].last <= e
    <3>0. store[n] \in OpenStore BY <1>2
    <3>1. /\ store[n].doc \in Docs /\ AtMost(store[n].doc, lines)
          /\ store[n].last <= lines /\ store[n].last \in Nat
      BY <1>2, <3>0 DEF DocsAreIssued, OpenStore
    <3>2. store[n].last <= e /\ e <= e
      <4>1. e = lines + 1 BY DEF e
      <4> QED BY <1>2, <3>1, <4>1
    <3>3. CASE n = i
      <4>1. store'[n] = next /\ store[i].doc \in Docs /\ AtMost(store[i].doc, lines)
        BY <1>4, <3>1, <3>3
      <4>2. AtMost(next.doc, e) BY <1>3, <1>7, <4>1
      <4> QED BY <1>3, <3>2, <4>1, <4>2
    <3>4. CASE n # i BY <1>4, <1>7, <3>1, <3>2, <3>4
    <3> QED BY <3>3, <3>4
  <2>3. /\ AtMost(acquiring.read, e) /\ AtMost(acquiring.doc, e) /\ AtMost(snapshot.doc, e)
    BY <1>2, <1>7 DEF RegistryTyped, DocsAreIssued
  <2>4. AtMost(snapshot'.doc, e)
    <3>1. AtMost(Append(store[i].doc, e), e)
      <4>1. AtMost(store[i].doc, lines) BY <1>1, <1>2 DEF DocsAreIssued
      <4> QED BY <1>2, <1>7, <4>1
    <3>2. PICK grown : grown = Append(store[i].doc, e) OBVIOUS
    <3>3. snapshot' = snapshot \/ snapshot' = [is |-> TRUE, doc |-> grown] BY <1>1, <3>2
    <3>4. snapshot' = snapshot \/ snapshot'.doc = grown BY <3>3
    <3> QED BY <2>3, <3>1, <3>2, <3>4
  <2> QED BY <1>1, <1>4, <1>5, <2>1, <2>2, <2>3, <2>4 DEF DocsAreIssued
<1>9. OneWriter'
  <2>1. \A n \in DOMAIN store : store[n].closed => store'[n].closed BY <1>1, <1>4
  <2> QED BY <1>1, <1>2, <1>4, <2>1 DEF OneWriter
<1>10. /\ query' \in [Query -> QueryState]
       /\ \A q \in Query :
            /\ query'[q].pc = query[q].pc /\ query'[q].cur = query[q].cur
            /\ query'[q].ix = query[q].ix /\ query'[q].asked = query[q].asked
            /\ query[q].crossed => query'[q].crossed
            /\ Pending(query'[q]) => Pending(query[q]) /\ ~Search!Deleting'
            /\ ~query'[q].crossed => ~query[q].crossed
  BY <1>2, CrossedEffect
<1>11. SearchTyped' BY <1>2, <1>10 DEF SearchTyped
<1>12. /\ cache.last < e /\ saved.last < e /\ cache \in IndexState /\ saved \in IndexState
       /\ \A q \in Query : /\ query[q].ix.last < e /\ query[q].cur.last < e
                           /\ query[q].ix \in IndexState
  <2>1. /\ cache.last \in Nat /\ saved.last \in Nat /\ cache \in IndexState /\ saved \in IndexState
        /\ \A q \in Query : /\ query[q].ix.last \in Nat /\ query[q].cur.last \in Nat
                            /\ query[q].ix \in IndexState
    BY <1>2 DEF SearchTyped, IndexState, QueryState
  <2>2. /\ cache.last <= lines /\ saved.last <= lines
        /\ \A q \in Query : query[q].ix.last <= lines /\ query[q].cur.last <= lines
    BY DEF SearchInv, StampsAreIssued
  <2> QED BY <1>2, <2>1, <2>2 DEF e
<1>13. StampsAreIssued'
  <2>1. /\ cache.last <= e /\ saved.last <= e
        /\ \A q \in Query : query[q].ix.last <= e /\ query[q].cur.last <= e
    <3>1. /\ cache.last \in Nat /\ saved.last \in Nat
          /\ \A q \in Query : query[q].ix.last \in Nat /\ query[q].cur.last \in Nat
      BY <1>2 DEF SearchTyped, IndexState, QueryState
    <3> QED BY <1>2, <1>12, <3>1
  <2> QED BY <1>1, <1>10, <2>1 DEF StampsAreIssued
<1>14. Stands => /\ f = named /\ i = registry /\ registry # Search!None
                 /\ Mirrored(files[named], store[registry])
  <2> SUFFICES ASSUME Stands
               PROVE  /\ f = named /\ i = registry /\ registry # Search!None
                      /\ Mirrored(files[named], store[registry])
    OBVIOUS
  <2>1. registry # Search!None /\ Mirrored(files[named], store[registry])
    BY DEF SearchInv, LogIsServed
  <2>2. i = registry BY <1>1, <1>2 DEF OneWriter, Stands
  <2> QED BY <2>1, <2>2 DEF Mirrored, f
<1>15. Stands' <=> Stands BY <1>1 DEF Stands
<1>16. LogIsServed'
  <2>1. ASSUME Stands PROVE Mirrored(Append(files[f], e), next)
    <3>1. Mirrored(files[f], store[i]) /\ store[i].file = f BY <1>14, <2>1 DEF f
    <3> QED BY <1>2, <1>3, <3>1, MirroredGrows
  <2>2. ASSUME Stands PROVE (Mirrored(files[named], store[registry]))'
    <3>1. files'[named'] = Append(files[f], e) /\ store'[registry'] = next
      BY <1>1, <1>4, <1>5, <1>14, <2>2
    <3>2. Mirrored(Append(files[f], e), next) BY <2>1, <2>2
    <3> QED BY <1>1, <3>1, <3>2 DEF Mirrored
  <2> QED BY <1>1, <1>14, <1>15, <2>2 DEF LogIsServed
<1>17. IndexesAreHonest'
  <2>1. ASSUME Stands, NEW ix \in IndexState, ix.last < e, Honest(ix, files[named])
        PROVE  Honest(ix, files'[named])
    BY <1>2, <1>5, <1>14, <2>1, HonestGrows
  <2> QED BY <1>1, <1>10, <1>12, <1>15, <2>1 DEF SearchInv, IndexesAreHonest
<1>18. UncrossedQueries'
  <2>1. ASSUME NEW q \in Query PROVE Faithful(query'[q])
    <3>1. Faithful(query[q]) BY DEF SearchInv, UncrossedQueries
    <3> QED BY <1>10, <3>1 DEF Faithful
  <2>2. ASSUME NEW q \in Query, Pending(query'[q]) PROVE StillThere(query[q])'
    <3>1. Pending(query[q]) /\ ~Search!Deleting' /\ query'[q].asked = query[q].asked
      BY <1>10, <2>2
    <3>2. StillThere(query[q]) BY <3>1 DEF SearchInv, UncrossedQueries
    <3>3. Stands
      <4>1. \A d \in Deleter : deleting[d].pc = "idle" BY <3>2 DEF StillThere, Search!Deleting
      <4> QED BY <3>2, <4>1 DEF StillThere, Stands
    <3>4. /\ Len(files[f]) \in Nat /\ Len(files'[named]) = Len(files[f]) + 1
          /\ \A j \in 1..Len(files[f]) : files'[named][j] = files[f][j]
      <4>1. files'[named] = Append(files[f], e) BY <1>5, <1>14, <3>3
      <4>2. files[f] \in Docs /\ e \in 1..MaxLines /\ Len(files[f]) \in Nat BY <1>2, DocFacts
      <4> QED BY <4>1, <4>2, DocGrows
    <3>5. query[q].asked \in Docs BY <1>2 DEF SearchTyped, QueryState
    <3>6. /\ Len(query[q].asked) \in Nat /\ Len(query[q].asked) <= Len(files[f])
          /\ DOMAIN query[q].asked = 1..Len(query[q].asked)
          /\ \A j \in DOMAIN query[q].asked : files[f][j] = query[q].asked[j]
      BY <1>14, <3>2, <3>3, <3>5, DocFacts DEF StillThere
    <3>7. /\ Len(query[q].asked) <= Len(files'[named])
          /\ \A j \in DOMAIN query[q].asked : files'[named][j] = query[q].asked[j]
      BY <3>4, <3>6
    <3> QED BY <1>1, <3>1, <3>2, <3>7 DEF StillThere
  <2>3. \A q \in Query : Pending(query[q])' <=> Pending(query'[q]) BY DEF Pending
  <2>4. \A q \in Query : Faithful(query[q])' <=> Faithful(query'[q]) BY DEF Faithful, Pending
  <2> QED BY <2>1, <2>2, <2>3, <2>4 DEF UncrossedQueries
<1> QED BY <1>6, <1>8, <1>9, <1>11, <1>13, <1>16, <1>17, <1>18 DEF SearchInv
\* What a store that opens the log writes first: the first event of a new notebook, or
\* nothing.
LEMMA FirstLine ==
  ASSUME NEW e \in 1..MaxLines, NEW first, first = <<e>>
  PROVE  /\ first \in Docs /\ Len(first) = 1 /\ DOMAIN first = 1..Len(first)
         /\ \A j \in DOMAIN first : first[j] = e /\ j = 1
         /\ \A s \in Docs : Within(first, s \o first)
<1>1. first \in Docs /\ Len(first) = 1 /\ first[1] = e /\ DOMAIN first = 1..1 BY DEF Docs
<1>2. ASSUME NEW s \in Docs PROVE Within(first, s \o first)
  <2>1. s \o first = Append(s, e) BY DocGrows
  <2>2. Len(s) + 1 \in DOMAIN Append(s, e) /\ Append(s, e)[Len(s) + 1] = e
    BY DocFacts, DocGrows
  <2> QED BY <1>1, <2>1, <2>2 DEF Within
<1> QED BY <1>1, <1>2

LEMMA OpenStep ==
  ASSUME SearchInv, Search!Open, UNCHANGED <<cache, saved, asks>>, query' = Search!Crossed
  PROVE  SearchInv'
<1> USE IndexAssumption DEF Search!None
<1>1. /\ RegistryTyped /\ SearchTyped /\ DocsAreIssued /\ OneWriter
      /\ store \in Seq(OpenStore) /\ DOMAIN store = 1..Len(store) /\ Len(store) \in Nat
      /\ files \in Seq(Docs) /\ DOMAIN files = 1..Len(files) /\ Len(files) \in Nat
      /\ named \in 0..Len(files) /\ lines \in 0..MaxLines
      /\ acquiring.doc \in Docs /\ AtMost(acquiring.doc, lines)
  BY DEF SearchInv, RegistryTyped, DocsAreIssued
<1>2. acquiring.pc = "loaded" /\ registry = 0 /\ ~Stands
  BY DEF Search!Open, SearchInv, OneWriter, LogIsServed
<1> DEFINE f == IF named = 0 THEN Len(files) + 1 ELSE named
           e == lines + 1
<1>3. PICK first :
        /\ first = <<>> \/ (first = <<e>> /\ lines < MaxLines)
        /\ files' = IF named = 0 THEN Append(files, first)
                    ELSE [files EXCEPT ![f] = files[f] \o first]
        /\ store' = Append(store, [file |-> f, doc |-> acquiring.doc \o first,
                                   last |-> Search!Final(acquiring.doc \o first),
                                   since |-> Len(first), closed |-> FALSE])
        /\ lines' = lines + Len(first)
  BY DEF Search!Open, Search!MayWrite, Search!Fresh
<1>4. /\ named' = f /\ registry' = Len(store') /\ acquiring' = Search!Idle
      /\ UNCHANGED <<snapshot, deleting>>
  BY DEF Search!Open
<1>5. /\ first \in Docs /\ Len(first) \in 0..1 /\ lines' \in 0..MaxLines /\ lines <= lines'
      /\ DOMAIN first = 1..Len(first)
      /\ first # <<>> => e \in 1..MaxLines /\ lines' = e
      /\ \A j \in DOMAIN first : first[j] = e /\ j = 1 /\ first[j] <= lines'
      /\ \A s \in Docs : Within(first, s \o first)
      /\ \A s \in Docs :
           /\ s \o first \in Docs /\ Len(s \o first) = Len(s) + Len(first)
           /\ AtMost(s, lines) => AtMost(s, lines') /\ AtMost(s \o first, lines')
  <2>1. CASE first = <<>>
    <3>1. /\ first \in Docs /\ Len(first) = 0 /\ DOMAIN first = {} BY <2>1, DocFacts
    <3>2. ASSUME NEW s \in Docs PROVE s \o first = s
      <4>1. s \in Seq(1..MaxLines) BY DEF Docs
      <4> QED BY <2>1, <4>1, ConcatEmptySeq
    <3>3. lines' = lines BY <1>1, <1>3, <3>1
    <3>4. \A s \in Docs : Len(s) \in Nat BY DocFacts
    <3> QED BY <1>1, <2>1, <3>1, <3>2, <3>3, <3>4 DEF Within
  <2>2. CASE first # <<>>
    <3>1. first = <<e>> /\ e \in 1..MaxLines BY <1>1, <1>3, <2>2
    <3> HIDE DEF e
    <3>2. /\ first \in Docs /\ DOMAIN first = 1..Len(first)
          /\ \A j \in DOMAIN first : first[j] = e /\ j = 1
          /\ \A s \in Docs : Within(first, s \o first)
          /\ Len(first) = 1
      BY <3>1, FirstLine
    <3>3. Len(first) = 1 BY <3>2
    <3>4. lines' = e /\ e = lines + 1 BY <1>1, <1>3, <3>3 DEF e
    <3>5. ASSUME NEW s \in Docs
          PROVE  /\ s \o first \in Docs /\ Len(s \o first) = Len(s) + Len(first)
                 /\ AtMost(s, lines) => AtMost(s, lines') /\ AtMost(s \o first, lines')
      <4>1. s \o first = Append(s, e) BY <3>1, DocGrows
      <4>2. s \o first \in Docs /\ Len(s \o first) = Len(s) + Len(first)
        BY <3>1, <3>3, <4>1, DocGrows
      <4>3. ASSUME AtMost(s, lines) PROVE AtMost(s, e)
        <5>1. \A j \in DOMAIN s : s[j] \in Nat /\ s[j] <= lines BY <4>3, DocFacts DEF AtMost
        <5> QED BY <1>1, <3>4, <5>1 DEF AtMost
      <4>4. ASSUME AtMost(s, lines) PROVE AtMost(s \o first, e)
        <5>1. AtMost(first, e) BY <3>1, <3>2 DEF AtMost
        <5> QED BY <3>1, <3>2, <4>3, <4>4, <5>1, DocsJoin
      <4> QED BY <3>4, <4>2, <4>3, <4>4
    <3> QED BY <1>1, <2>2, <3>1, <3>2, <3>3, <3>4, <3>5
  <2> QED BY <2>1, <2>2
<1>6. f \in 1..Len(files) + 1 /\ (named # 0 => f = named /\ f \in 1..Len(files)) BY <1>1
<1> HIDE DEF f, e
<1> DEFINE doc == acquiring.doc \o first
<1>7. doc \in Docs /\ AtMost(doc, lines') /\ Within(first, doc) BY <1>1, <1>5
<1>8. PICK x \in OpenStore :
        /\ store' = Append(store, x) /\ x.file = f /\ x.doc = doc /\ x.last = Search!Final(doc)
  <2> HIDE DEF doc
  <2>1. Search!Final(doc) \in 0..MaxLines BY <1>7, DocFacts
  <2>2. PICK x : x = [file |-> f, doc |-> doc, last |-> Search!Final(doc), since |-> Len(first),
                      closed |-> FALSE]
    OBVIOUS
  <2>3. /\ x \in OpenStore /\ x.file = f /\ x.doc = doc /\ x.last = Search!Final(doc)
    <3>1. f \in Nat \ {0} /\ Len(first) \in Nat BY <1>5, <1>6
    <3> QED BY <1>7, <2>1, <2>2, <3>1 DEF OpenStore
  <2>4. store' = Append(store, x) BY <1>3, <2>2 DEF doc
  <2> QED BY <2>3, <2>4
<1> HIDE DEF doc
<1>9. /\ store' \in Seq(OpenStore) /\ Len(store') = Len(store) + 1
      /\ DOMAIN store' = 1..Len(store) + 1
      /\ store'[Len(store) + 1] = x /\ \A i \in 1..Len(store) : store'[i] = store[i]
      /\ registry' = Len(store) + 1
  BY <1>1, <1>4, <1>8, AppendProperties
<1>10. /\ files' \in Seq(Docs) /\ DOMAIN files' = 1..Len(files') /\ Len(files') \in Nat
       /\ f \in 1..Len(files') /\ Len(files) <= Len(files')
       /\ \A g \in 1..Len(files') : g # f => g \in 1..Len(files) /\ files'[g] = files[g]
       /\ named = 0 => files'[f] = first
       /\ named # 0 => files'[f] = files[f] \o first
  <2>1. CASE named = 0
    <3>1. files' = Append(files, first) /\ f = Len(files) + 1 BY <1>3, <2>1 DEF f
    <3> QED BY <1>1, <1>5, <2>1, <3>1, AppendProperties
  <2>2. CASE named # 0
    <3>1. f \in 1..Len(files) /\ files' = [files EXCEPT ![f] = files[f] \o first]
      BY <1>3, <1>6, <2>2
    <3>2. files[f] \o first \in Docs BY <1>1, <1>5, <3>1
    <3> QED BY <1>1, <2>2, <3>1, <3>2, ExceptSeq
  <2> QED BY <2>1, <2>2
<1>11. acquiring' \in [pc : {"idle", "read", "loaded"}, read : Docs, doc : Docs,
                       created : BOOLEAN]
       /\ acquiring'.pc = "idle" /\ acquiring'.read = <<>> /\ acquiring'.doc = <<>>
  BY <1>4, DocFacts DEF Search!Idle
<1>12. RegistryTyped'
  <2>1. named' \in 0..Len(files') /\ registry' \in 0..Len(store') BY <1>1, <1>4, <1>9, <1>10
  <2>2. ASSUME NEW i \in DOMAIN store' PROVE store'[i].file \in DOMAIN files'
    <3>1. CASE i = Len(store) + 1 BY <1>8, <1>9, <1>10, <3>1
    <3>2. CASE i # Len(store) + 1
      <4>1. i \in 1..Len(store) /\ store'[i] = store[i] BY <1>1, <1>9, <2>2, <3>2
      <4>2. store[i].file \in 1..Len(files) BY <1>1, <4>1 DEF RegistryTyped
      <4> QED BY <1>1, <1>10, <4>1, <4>2
    <3> QED BY <3>1, <3>2
  <2>3. \A d \in Deleter : deleting'[d].pc = "closing" => deleting'[d].store \in DOMAIN store'
    BY <1>1, <1>4, <1>9 DEF RegistryTyped
  <2>4. deleting' \in [Deleter -> DeletingState] /\ snapshot' \in [is : BOOLEAN, doc : Docs]
    BY <1>1, <1>4 DEF RegistryTyped
  <2> QED BY <1>5, <1>9, <1>10, <1>11, <2>1, <2>2, <2>3, <2>4 DEF RegistryTyped
<1>13. DocsAreIssued'
  <2>1. ASSUME NEW g \in DOMAIN files' PROVE Len(files'[g]) <= lines' /\ AtMost(files'[g], lines')
    <3>1. CASE g # f
      <4>1. /\ g \in 1..Len(files) /\ files'[g] = files[g] /\ files[g] \in Docs
            /\ Len(files[g]) <= lines /\ AtMost(files[g], lines)
        BY <1>1, <1>10, <2>1, <3>1 DEF DocsAreIssued
      <4>2. Len(files[g]) \in Nat BY <4>1, DocFacts
      <4> QED BY <1>1, <1>5, <4>1, <4>2
    <3>2. CASE g = f /\ named = 0
      <4>1. files'[g] = first BY <1>10, <3>2
      <4>2. Len(first) <= lines' BY <1>1, <1>3, <1>5
      <4> QED BY <1>5, <4>1, <4>2 DEF AtMost
    <3>3. CASE g = f /\ named # 0
      <4>1. /\ files'[g] = files[f] \o first /\ files[f] \in Docs
            /\ Len(files[f]) <= lines /\ AtMost(files[f], lines)
        BY <1>1, <1>6, <1>10, <3>3 DEF DocsAreIssued
      <4>2. Len(files[f]) \in Nat /\ lines' = lines + Len(first) BY <1>3, <4>1, DocFacts
      <4>3. Len(files[f] \o first) = Len(files[f]) + Len(first) BY <1>5, <4>1
      <4>4. Len(files[f]) + Len(first) <= lines' BY <1>1, <1>5, <4>1, <4>2
      <4> QED BY <1>5, <4>1, <4>3, <4>4
    <3> QED BY <3>1, <3>2, <3>3
  <2>2. ASSUME NEW i \in DOMAIN store'
        PROVE  AtMost(store'[i].doc, lines') /\ store'[i].last <= lines'
    <3>1. CASE i = Len(store) + 1
      <4>1. store'[i].doc = doc /\ store'[i].last = Search!Final(doc) BY <1>8, <1>9, <3>1
      <4>2. Search!Final(doc) <= lines'
        <5>1. CASE doc = <<>> BY <1>5, <5>1 DEF Search!Final
        <5>2. CASE doc # <<>>
          <6>1. Search!Final(doc) = doc[Len(doc)] /\ Len(doc) \in DOMAIN doc
            BY <1>7, <5>2, DocFacts
          <6> QED BY <1>7, <6>1 DEF AtMost
        <5> QED BY <5>1, <5>2
      <4> QED BY <1>7, <4>1, <4>2
    <3>2. CASE i # Len(store) + 1
      <4>1. i \in 1..Len(store) /\ store'[i] = store[i] BY <1>1, <1>9, <2>2, <3>2
      <4>2. store[i] \in OpenStore BY <1>1, <4>1
      <4>3. /\ store[i].doc \in Docs /\ AtMost(store[i].doc, lines)
            /\ store[i].last \in Nat /\ store[i].last <= lines
        BY <1>1, <4>1, <4>2 DEF OpenStore, DocsAreIssued
      <4> QED BY <1>1, <1>5, <4>1, <4>3
    <3> QED BY <3>1, <3>2
  <2>3. AtMost(snapshot'.doc, lines')
    <3>1. snapshot.doc \in Docs /\ AtMost(snapshot.doc, lines)
      BY <1>1 DEF RegistryTyped, DocsAreIssued
    <3> QED BY <1>4, <1>5, <3>1
  <2>4. AtMost(acquiring'.read, lines') /\ AtMost(acquiring'.doc, lines')
    BY <1>11, DocFacts DEF AtMost
  <2> QED BY <2>1, <2>2, <2>3, <2>4 DEF DocsAreIssued
<1>14. OneWriter'
  <2>1. ASSUME NEW i \in DOMAIN store'
        PROVE  \/ store'[i].closed \/ i = registry'
               \/ \E d \in Deleter : deleting'[d].pc = "closing" /\ deleting'[d].store = i
    <3>1. CASE i = Len(store) + 1 BY <1>9, <3>1
    <3>2. CASE i # Len(store) + 1
      <4>1. i \in DOMAIN store /\ store'[i] = store[i] /\ i # registry
        BY <1>1, <1>2, <1>9, <2>1, <3>2
      <4> QED BY <1>1, <1>4, <4>1 DEF OneWriter
    <3> QED BY <3>1, <3>2
  <2> QED BY <1>11, <2>1 DEF OneWriter
<1>15. /\ query' \in [Query -> QueryState]
       /\ \A q \in Query :
            /\ query'[q].pc = query[q].pc /\ query'[q].cur = query[q].cur
            /\ query'[q].ix = query[q].ix /\ query'[q].asked = query[q].asked
            /\ query[q].crossed => query'[q].crossed
            /\ Pending(query'[q]) => Pending(query[q]) /\ ~Search!Deleting'
            /\ ~query'[q].crossed => ~query[q].crossed
  BY <1>1, CrossedEffect
<1>16. SearchTyped' BY <1>1, <1>15 DEF SearchTyped
<1>17. /\ cache.last \in Nat /\ saved.last \in Nat /\ cache.last <= lines /\ saved.last <= lines
       /\ \A q \in Query : /\ query[q].ix.last \in Nat /\ query[q].cur.last \in Nat
                           /\ query[q].ix.last <= lines /\ query[q].cur.last <= lines
  BY <1>1 DEF SearchTyped, IndexState, QueryState, SearchInv, StampsAreIssued
<1>18. StampsAreIssued'
  <2>1. \A n \in Nat : n <= lines => n <= lines' BY <1>1, <1>5
  <2> QED BY <1>15, <1>17, <2>1 DEF StampsAreIssued
<1>19. Stands' => named = 0 /\ files'[named'] = first
  BY <1>2, <1>4, <1>10 DEF Stands
<1>20. LogIsServed'
  <2>1. registry' # 0 /\ store'[registry'] = x BY <1>1, <1>9
  <2>2. Mirrored(first, x)' BY <1>4, <1>5, <1>7, <1>8 DEF Mirrored
  <2> QED BY <1>19, <2>1, <2>2 DEF LogIsServed, Mirrored
<1>21. \A ix : ix.last \in Nat /\ ix.last <= lines => Honest(ix, first)
  <2>1. \A n \in Nat : n <= lines => n # e BY <1>1 DEF e
  <2> QED BY <1>5, <2>1 DEF Honest
<1>22. IndexesAreHonest' BY <1>15, <1>17, <1>19, <1>21 DEF IndexesAreHonest
<1>23. UncrossedQueries'
  <2>1. ASSUME NEW q \in Query PROVE Faithful(query'[q])
    <3>1. Faithful(query[q]) BY DEF SearchInv, UncrossedQueries
    <3> QED BY <1>15, <3>1 DEF Faithful
  <2>2. ASSUME NEW q \in Query PROVE ~Pending(query'[q])
    <3>1. SUFFICES ASSUME Pending(query[q]) PROVE FALSE BY <1>15
    <3>2. StillThere(query[q]) BY <3>1 DEF SearchInv, UncrossedQueries
    <3>3. \A d \in Deleter : deleting[d].pc = "idle" BY <3>2 DEF StillThere, Search!Deleting
    <3> QED BY <1>2, <3>2, <3>3 DEF StillThere, Stands
  <2>3. \A q \in Query : Pending(query[q])' <=> Pending(query'[q]) BY DEF Pending
  <2>4. \A q \in Query : Faithful(query[q])' <=> Faithful(query'[q]) BY DEF Faithful, Pending
  <2> QED BY <2>1, <2>2, <2>3, <2>4 DEF UncrossedQueries
<1> QED BY <1>12, <1>13, <1>14, <1>16, <1>18, <1>20, <1>22, <1>23 DEF SearchInv
\* A query moves on, and leaves an index it has in memory or in the file.
LEMMA QueryMoves ==
  ASSUME SearchInv, NEW q \in Query, NEW to \in QueryState, query' = [query EXCEPT ![q] = to],
         UNCHANGED Search!reg, asks' \in Nat,
         cache' \in {cache, saved, query[q].ix}, saved' \in {saved, query[q].ix},
         to.ix.last <= lines, to.cur.last <= lines,
         Stands => Honest(to.ix, files[named]),
         Faithful(to), Pending(to) => StillThere(to)
  PROVE  SearchInv'
<1>1. UNCHANGED <<files, named, snapshot, store, registry, acquiring, deleting, lines>>
  BY DEF Search!reg
<1>2. RegistryTyped' /\ DocsAreIssued' /\ OneWriter' /\ LogIsServed' /\ (Stands' <=> Stands)
  BY <1>1
  DEF SearchInv, RegistryTyped, DocsAreIssued, OneWriter, LogIsServed, Stands, Mirrored
<1>3. /\ query' \in [Query -> QueryState] /\ query'[q] = to
      /\ \A p \in Query : p # q => query'[p] = query[p]
      /\ to.ix \in IndexState /\ query[q].ix \in IndexState
  BY DEF SearchInv, SearchTyped, QueryState
<1>4. SearchTyped' BY <1>3 DEF SearchInv, SearchTyped
<1>5. StampsAreIssued' BY <1>1, <1>3 DEF SearchInv, StampsAreIssued
<1>6. IndexesAreHonest' BY <1>1, <1>2, <1>3 DEF SearchInv, IndexesAreHonest
<1>7. UncrossedQueries'
  <2>1. ASSUME NEW p \in Query
        PROVE  Faithful(query'[p]) /\ (Pending(query'[p]) => StillThere(query'[p]))
    <3>1. CASE p = q BY <1>3, <3>1
    <3>2. CASE p # q BY <1>3, <3>2 DEF SearchInv, UncrossedQueries
    <3> QED BY <3>1, <3>2
  <2>2. \A p \in Query : Pending(query[p])' <=> Pending(query'[p]) BY DEF Pending
  <2>3. \A p \in Query : Faithful(query[p])' <=> Faithful(query'[p]) BY DEF Faithful, Pending
  <2>4. Search!Deleting' <=> Search!Deleting BY <1>1 DEF Search!Deleting
  <2>5. \A p \in Query : StillThere(query[p])' <=> StillThere(query'[p])
    BY <1>1, <2>4 DEF StillThere
  <2> QED BY <2>1, <2>2, <2>3, <2>5 DEF UncrossedQueries
<1> QED BY <1>2, <1>4, <1>5, <1>6, <1>7 DEF SearchInv

\* What is known of a query.
LEMMA QueryIs ==
  ASSUME SearchInv, NEW q \in Query
  PROVE  /\ query[q] \in QueryState /\ query \in [Query -> QueryState]
         /\ query[q].ix \in IndexState /\ query[q].asked \in Docs
         /\ query[q].ix.last <= lines /\ query[q].cur.last <= lines
         /\ query[q].cur.last \in 0..MaxLines /\ query[q].cur.size \in 0..MaxLines
         /\ Stands => Honest(query[q].ix, files[named])
         /\ Faithful(query[q]) /\ (Pending(query[q]) => StillThere(query[q]))
         /\ asks \in Nat /\ lines \in 0..MaxLines
<1>1. query[q] \in QueryState /\ query \in [Query -> QueryState] /\ asks \in Nat
  BY DEF SearchInv, SearchTyped
<1>2. /\ query[q].ix \in IndexState /\ query[q].asked \in Docs
      /\ query[q].cur.last \in 0..MaxLines /\ query[q].cur.size \in 0..MaxLines
  BY <1>1 DEF QueryState
<1>3. query[q].ix.last <= lines /\ query[q].cur.last <= lines
  BY DEF SearchInv, StampsAreIssued
<1>4. Stands => Honest(query[q].ix, files[named]) BY DEF SearchInv, IndexesAreHonest
<1> QED BY <1>1, <1>2, <1>3, <1>4 DEF SearchInv, UncrossedQueries, RegistryTyped

\* The stamp of the log that is there.
LEMMA StampIs ==
  ASSUME SearchInv, named # Search!None
  PROVE  /\ files[named] \in Docs /\ Search!Stamp.size = Len(files[named])
         /\ Search!Stamp.last = Search!Final(files[named])
         /\ Search!Stamp \in [size : 0..MaxLines, last : 0..MaxLines]
         /\ Search!Stamp.last <= lines
<1> USE IndexAssumption
<1>1. named \in DOMAIN files /\ lines \in 0..MaxLines /\ files \in Seq(Docs)
  BY DEF SearchInv, RegistryTyped, Search!None
<1>2. /\ files[named] \in Docs /\ Len(files[named]) <= lines /\ AtMost(files[named], lines)
  BY <1>1 DEF SearchInv, DocsAreIssued
<1>3. Len(files[named]) \in 0..MaxLines BY <1>1, <1>2, DocFacts
<1>4. Search!Final(files[named]) <= lines /\ Search!Final(files[named]) \in 0..MaxLines
  <2>1. CASE files[named] = <<>> BY <1>1, <2>1 DEF Search!Final, Search!None
  <2>2. CASE files[named] # <<>>
    <3>1. /\ Search!Final(files[named]) = files[named][Len(files[named])]
          /\ Len(files[named]) \in DOMAIN files[named]
          /\ Search!Final(files[named]) \in 0..MaxLines
      BY <1>2, <2>2, DocFacts
    <3> QED BY <1>2, <3>1 DEF AtMost
  <2> QED BY <2>1, <2>2
<1> QED BY <1>2, <1>3, <1>4 DEF Search!Stamp

\* A stamp matches only an index that has what was in the log when it was stamped.
LEMMA MatchIsFresh ==
  ASSUME SearchInv, NEW q \in Query, Pending(query[q]), query[q].pc \in {"stamped", "uncached"},
         NEW ix \in IndexState, Search!matchesLog(ix, query[q].cur),
         Stands => Honest(ix, files[named])
  PROVE  Within(query[q].asked, ix.doc)
<1> DEFINE asked == query[q].asked
           events == files[named]
<1>1. /\ asked \in Docs /\ StillThere(query[q])
      /\ query[q].cur.size = Len(asked) /\ query[q].cur.last = Search!Final(asked)
  BY QueryIs DEF Faithful
<1>2. Stands BY <1>1 DEF StillThere, Stands, Search!Deleting
<1>3. /\ events \in Docs /\ Len(asked) <= Len(events) /\ DOMAIN asked = 1..Len(asked)
      /\ Len(asked) \in Nat /\ Len(events) \in Nat /\ DOMAIN events = 1..Len(events)
      /\ \A j \in 1..Len(asked) : events[j] = asked[j]
  <2>1. events \in Docs BY <1>1, StampIs DEF StillThere
  <2> QED BY <1>1, <2>1, DocFacts DEF StillThere
<1>4. /\ ix.size = Len(asked) /\ ix.last = Search!Final(asked) /\ ix.last # 0
  BY <1>1 DEF Search!matchesLog, Search!None
<1>5. asked # <<>> /\ ix.last = asked[Len(asked)] /\ Len(asked) > 0 BY <1>1, <1>4, DocFacts
<1> HIDE DEF asked, events
<1>6. ix.size \in DOMAIN events /\ events[ix.size] = ix.last BY <1>3, <1>4, <1>5
<1>7. Honest(ix, events) BY <1>2 DEF events
<1>8. \A j \in 1..Len(asked) : \E k \in DOMAIN ix.doc : ix.doc[k] = asked[j]
  BY <1>3, <1>4, <1>6, <1>7 DEF Honest
<1> QED BY <1>3, <1>8 DEF Within, asked

LEMMA AskStep ==
  ASSUME SearchInv, NEW q \in Query, Search!Ask(q)
  PROVE  SearchInv'
<1>1. /\ named # Search!None /\ asks' = asks + 1 /\ UNCHANGED <<Search!reg, cache, saved>>
      /\ query' = [query EXCEPT ![q] = [Search!NoQuery EXCEPT
                     !.pc = "stamped", !.cur = Search!Stamp, !.asked = files[named],
                     !.crossed = Search!Deleting]]
  BY DEF Search!Ask
<1>2. /\ files[named] \in Docs /\ Search!Stamp.size = Len(files[named])
      /\ Search!Stamp.last = Search!Final(files[named])
      /\ Search!Stamp \in [size : 0..MaxLines, last : 0..MaxLines]
      /\ Search!Stamp.last <= lines
  BY <1>1, StampIs
<1>3. PICK c \in BOOLEAN : c = Search!Deleting
  <2>1. Search!Deleting \in BOOLEAN BY DEF Search!Deleting
  <2> QED BY <2>1, Zenon
<1>4. PICK to : to = [Search!NoQuery EXCEPT !.pc = "stamped", !.cur = Search!Stamp,
                                            !.asked = files[named], !.crossed = c]
  OBVIOUS
<1>5. query' = [query EXCEPT ![q] = to] BY <1>1, <1>3, <1>4, Zenon
<1>6. /\ to \in QueryState /\ to.pc = "stamped" /\ to.cur = Search!Stamp
      /\ to.asked = files[named] /\ to.crossed = c /\ to.ix = Search!NoIndex
  <2>1. Search!NoIndex \in IndexState /\ Search!NoQuery.ix = Search!NoIndex
    BY IndexAssumption, DocFacts DEF Search!NoIndex, Search!NoQuery, IndexState, Search!None
  <2>2. Search!NoQuery \in QueryState
    BY <2>1, IndexAssumption, DocFacts
    DEF Search!NoQuery, QueryState, Search!NoStamp, Search!None
  <2> QED BY <1>2, <1>4, <2>1, <2>2 DEF QueryState
<1>7. to.ix.last = 0 /\ (Stands => Honest(to.ix, files[named])) /\ lines \in Nat
  <2>1. to.ix.last = 0 /\ to.ix.size = 0 BY <1>6 DEF Search!NoIndex, Search!None
  <2>2. DOMAIN files[named] = 1..Len(files[named]) BY <1>2, DocFacts
  <2> QED BY <2>1, <2>2 DEF Honest, SearchInv, RegistryTyped
<1>8. Faithful(to) BY <1>2, <1>6 DEF Faithful
<1>9. Pending(to) => StillThere(to)
  <2>1. Pending(to) => ~Search!Deleting
    <3>1. Pending(to) => ~c BY <1>6 DEF Pending
    <3> QED BY <1>3, <3>1, Zenon
  <2>2. Len(files[named]) <= Len(files[named]) BY <1>2, DocFacts
  <2> QED BY <1>1, <1>6, <2>1, <2>2 DEF StillThere
<1>10. asks' \in Nat BY <1>1 DEF SearchInv, SearchTyped
<1>11. to.ix.last <= lines /\ to.cur.last <= lines BY <1>2, <1>6, <1>7
<1> QED BY <1>1, <1>5, <1>6, <1>7, <1>8, <1>9, <1>10, <1>11, QueryMoves
\* A query that is answered with an index that has what it asked for.
LEMMA AnsweredStep ==
  ASSUME SearchInv, NEW q \in Query, NEW ix \in IndexState,
         query' = Search!Answered(q, ix), UNCHANGED <<Search!reg, asks>>,
         cache' \in {cache, saved, query[q].ix}, saved' \in {saved, query[q].ix},
         ix.last <= lines, Stands => Honest(ix, files[named]),
         ~query[q].crossed => Within(query[q].asked, ix.doc)
  PROVE  SearchInv'
<1>1. /\ query[q] \in QueryState /\ query \in [Query -> QueryState] /\ asks \in Nat
      /\ lines \in 0..MaxLines
  BY QueryIs
<1>2. Search!NoStamp \in [size : 0..MaxLines, last : 0..MaxLines] /\ Search!NoStamp.last = 0
  BY IndexAssumption DEF Search!NoStamp, Search!None
<1>3. PICK to : to = [query[q] EXCEPT !.pc = "answered", !.cur = Search!NoStamp, !.ix = ix]
  OBVIOUS
<1>4. query' = [query EXCEPT ![q] = to] BY <1>1, <1>3 DEF Search!Answered
<1>5. /\ to \in QueryState /\ to.pc = "answered" /\ to.cur = Search!NoStamp /\ to.ix = ix
      /\ to.asked = query[q].asked /\ to.crossed = query[q].crossed
  BY <1>1, <1>2, <1>3 DEF QueryState
<1>6. Faithful(to) /\ ~Pending(to) BY <1>5 DEF Faithful, Pending
<1>7. to.ix.last <= lines /\ to.cur.last <= lines BY <1>1, <1>2, <1>5
<1>8. Stands => Honest(to.ix, files[named]) BY <1>5
<1> QED BY <1>1, <1>4, <1>5, <1>6, <1>7, <1>8, QueryMoves

\* A query that only goes on to its next step.
LEMMA NextStage ==
  ASSUME SearchInv, NEW q \in Query,
         NEW p, \/ query[q].pc = "stamped" /\ p = "uncached"
                \/ query[q].pc = "uncached" /\ p = "build"
                \/ query[q].pc = "built" /\ p = "saved",
         query' = [query EXCEPT ![q].pc = p], UNCHANGED <<Search!reg, cache, asks>>,
         saved' \in {saved, query[q].ix}
  PROVE  SearchInv'
<1>1. /\ query[q] \in QueryState /\ query \in [Query -> QueryState] /\ asks \in Nat
      /\ query[q].ix.last <= lines /\ query[q].cur.last <= lines
      /\ Stands => Honest(query[q].ix, files[named])
      /\ Faithful(query[q]) /\ (Pending(query[q]) => StillThere(query[q]))
  BY QueryIs
<1>2. PICK to : to = [query[q] EXCEPT !.pc = p] OBVIOUS
<1>3. query' = [query EXCEPT ![q] = to] BY <1>1, <1>2
<1>4. p \in {"uncached", "build", "saved"} OBVIOUS
<1>5. /\ to \in QueryState /\ to.pc = p /\ to.cur = query[q].cur /\ to.ix = query[q].ix
      /\ to.asked = query[q].asked /\ to.crossed = query[q].crossed
  BY <1>1, <1>2, <1>4 DEF QueryState
<1>6. Pending(to) => Pending(query[q]) BY <1>5 DEF Pending
<1>7. Faithful(to)
  <2>1. CASE query[q].pc = "stamped" /\ p = "uncached"
    BY <1>1, <1>5, <1>6, <2>1 DEF Faithful
  <2>2. CASE query[q].pc = "uncached" /\ p = "build" BY <1>5, <2>2 DEF Faithful
  <2>3. CASE query[q].pc = "built" /\ p = "saved" BY <1>1, <1>5, <2>3 DEF Faithful
  <2> QED BY <2>1, <2>2, <2>3
<1>8. Pending(to) => StillThere(to) BY <1>1, <1>5, <1>6 DEF StillThere
<1>9. /\ to.ix.last <= lines /\ to.cur.last <= lines
      /\ Stands => Honest(to.ix, files[named])
  BY <1>1, <1>5
<1> QED BY <1>1, <1>3, <1>5, <1>7, <1>8, <1>9, QueryMoves

LEMMA CachesAre ==
  ASSUME SearchInv
  PROVE  /\ cache \in IndexState /\ saved \in IndexState
         /\ cache.last <= lines /\ saved.last <= lines
         /\ Stands => Honest(cache, files[named]) /\ Honest(saved, files[named])
BY DEF SearchInv, SearchTyped, StampsAreIssued, IndexesAreHonest

LEMMA FromCacheStep == ASSUME SearchInv, NEW q \in Query, Search!FromCache(q) PROVE SearchInv'
<1>1. /\ query[q].pc = "stamped" /\ UNCHANGED <<Search!reg, cache, saved, asks>>
      /\ \/ Search!matchesLog(cache, query[q].cur) /\ query' = Search!Answered(q, cache)
         \/ query' = [query EXCEPT ![q].pc = "uncached"]
  BY DEF Search!FromCache
<1>2. CASE query' = [query EXCEPT ![q].pc = "uncached"] BY <1>1, <1>2, NextStage
<1>3. CASE Search!matchesLog(cache, query[q].cur) /\ query' = Search!Answered(q, cache)
  <2>1. ~query[q].crossed => Pending(query[q]) BY <1>1 DEF Pending
  <2>2. ~query[q].crossed => Within(query[q].asked, cache.doc)
    BY <1>1, <1>3, <2>1, CachesAre, MatchIsFresh
  <2>3. UNCHANGED <<Search!reg, asks>> /\ cache' = cache /\ saved' = saved BY <1>1
  <2> QED BY <1>3, <2>2, <2>3, CachesAre, AnsweredStep
<1> QED BY <1>1, <1>2, <1>3

LEMMA FromFileStep == ASSUME SearchInv, NEW q \in Query, Search!FromFile(q) PROVE SearchInv'
<1>1. /\ query[q].pc = "uncached" /\ UNCHANGED <<Search!reg, saved, asks>>
      /\ \/ /\ Search!matchesLog(saved, query[q].cur) /\ query' = Search!Answered(q, saved)
            /\ cache' = saved
         \/ query' = [query EXCEPT ![q].pc = "build"] /\ UNCHANGED cache
  BY DEF Search!FromFile
<1>2. CASE query' = [query EXCEPT ![q].pc = "build"] /\ UNCHANGED cache
  BY <1>1, <1>2, NextStage
<1>3. CASE /\ Search!matchesLog(saved, query[q].cur) /\ query' = Search!Answered(q, saved)
           /\ cache' = saved
  <2>1. ~query[q].crossed => Pending(query[q]) BY <1>1 DEF Pending
  <2>2. ~query[q].crossed => Within(query[q].asked, saved.doc)
    BY <1>1, <1>3, <2>1, CachesAre, MatchIsFresh
  <2>3. UNCHANGED <<Search!reg, asks>> /\ saved' = saved BY <1>1
  <2> QED BY <1>3, <2>2, <2>3, CachesAre, AnsweredStep
<1> QED BY <1>1, <1>2, <1>3

LEMMA SaveStep == ASSUME SearchInv, NEW q \in Query, Search!Save(q) PROVE SearchInv'
<1>1. /\ query[q].pc = "built" /\ query' = [query EXCEPT ![q].pc = "saved"]
      /\ saved' = query[q].ix /\ UNCHANGED <<Search!reg, cache, asks>>
  BY DEF Search!Save
<1> QED BY <1>1, NextStage

LEMMA PutStep == ASSUME SearchInv, NEW q \in Query, Search!Put(q) PROVE SearchInv'
<1>1. /\ query[q].pc = "saved" /\ query' = Search!Answered(q, query[q].ix)
      /\ cache' = query[q].ix /\ UNCHANGED <<Search!reg, saved, asks>>
  BY DEF Search!Put
<1>2. /\ query[q].ix \in IndexState /\ query[q].ix.last <= lines
      /\ Stands => Honest(query[q].ix, files[named])
      /\ ~query[q].crossed => Within(query[q].asked, query[q].ix.doc)
  BY <1>1, QueryIs DEF Faithful
<1>3. UNCHANGED <<Search!reg, asks>> /\ saved' = saved BY <1>1
<1> QED BY <1>1, <1>2, <1>3, AnsweredStep

\* A query that ends, or finds no log.
LEMMA QueryEnds ==
  ASSUME SearchInv, NEW q \in Query, query' = [query EXCEPT ![q] = Search!NoQuery],
         UNCHANGED <<Search!reg, cache, saved, asks>>
  PROVE  SearchInv'
<1>1. /\ Search!NoIndex \in IndexState /\ Search!NoIndex.last = 0 /\ Search!NoIndex.size = 0
      /\ Search!NoQuery.ix = Search!NoIndex /\ Search!NoQuery.cur = Search!NoStamp
      /\ Search!NoStamp.last = 0 /\ Search!NoQuery.pc = "idle"
  BY IndexAssumption, DocFacts
  DEF Search!NoIndex, Search!NoQuery, Search!NoStamp, IndexState, Search!None
<1>2. Search!NoQuery \in QueryState
  BY <1>1, IndexAssumption, DocFacts
  DEF Search!NoQuery, QueryState, Search!NoStamp, Search!None
<1>3. Faithful(Search!NoQuery) /\ ~Pending(Search!NoQuery) BY <1>1 DEF Faithful, Pending
<1>4. Stands => Honest(Search!NoIndex, files[named])
  <2>1. Stands => DOMAIN files[named] = 1..Len(files[named]) BY StampIs, DocFacts DEF Stands
  <2>2. \A n : 0 \notin 1..n OBVIOUS
  <2> QED BY <1>1, <2>1, <2>2 DEF Honest
<1>5. asks \in Nat /\ lines \in 0..MaxLines BY QueryIs
<1>6. /\ Search!NoQuery.ix.last <= lines /\ Search!NoQuery.cur.last <= lines
      /\ Stands => Honest(Search!NoQuery.ix, files[named])
  BY <1>1, <1>4, <1>5
<1> HIDE DEF Search!NoQuery
<1> QED BY <1>2, <1>3, <1>5, <1>6, QueryMoves

LEMMA StampFirstStep == ASSUME SearchInv, NEW q \in Query, Search!StampFirst(q) PROVE SearchInv'
<1>1. /\ query[q].pc = "build" /\ UNCHANGED <<Search!reg, cache, saved, asks>>
      /\ \/ query' = [query EXCEPT ![q] = Search!NoQuery]
         \/ /\ named # Search!None
            /\ query' = [query EXCEPT ![q].pc = "restamped", ![q].cur = Search!Stamp]
  BY DEF Search!StampFirst
<1>2. CASE query' = [query EXCEPT ![q] = Search!NoQuery] BY <1>1, <1>2, QueryEnds
<1>3. CASE /\ named # Search!None
           /\ query' = [query EXCEPT ![q].pc = "restamped", ![q].cur = Search!Stamp]
  <2>1. /\ query[q] \in QueryState /\ query \in [Query -> QueryState] /\ asks \in Nat
        /\ query[q].ix.last <= lines
        /\ Stands => Honest(query[q].ix, files[named])
        /\ Pending(query[q]) => StillThere(query[q])
    BY QueryIs
  <2>2. /\ Search!Stamp \in [size : 0..MaxLines, last : 0..MaxLines]
        /\ Search!Stamp.last <= lines
    BY <1>3, StampIs
  <2>3. PICK to : to = [query[q] EXCEPT !.pc = "restamped", !.cur = Search!Stamp] OBVIOUS
  <2>4. query' = [query EXCEPT ![q] = to] BY <1>3, <2>1, <2>3
  <2>5. /\ to \in QueryState /\ to.pc = "restamped" /\ to.cur = Search!Stamp
        /\ to.ix = query[q].ix /\ to.asked = query[q].asked /\ to.crossed = query[q].crossed
    BY <2>1, <2>2, <2>3 DEF QueryState
  <2>6. Faithful(to) BY <2>5 DEF Faithful
  <2>7. Pending(to) => StillThere(to) BY <1>1, <2>1, <2>5 DEF Pending, StillThere
  <2>8. /\ to.ix.last <= lines /\ to.cur.last <= lines
        /\ Stands => Honest(to.ix, files[named])
    BY <2>1, <2>2, <2>5
  <2> QED BY <1>1, <2>1, <2>4, <2>5, <2>6, <2>7, <2>8, QueryMoves
<1> QED BY <1>1, <1>2, <1>3

\* An index that is built of what was read.
LEMMA BuiltStep ==
  ASSUME SearchInv, NEW q \in Query, query[q].pc = "restamped",
         NEW doc \in Docs, NEW last \in 0..MaxLines, last <= lines, Search!Built(q, doc, last),
         UNCHANGED <<Search!reg, cache, saved, asks>>,
         Stands => Within(files[named], doc)
  PROVE  SearchInv'
<1>1. /\ query[q] \in QueryState /\ query \in [Query -> QueryState] /\ asks \in Nat
      /\ query[q].cur.last \in 0..MaxLines /\ query[q].cur.size \in 0..MaxLines
      /\ query[q].cur.last <= lines
      /\ Pending(query[q]) => StillThere(query[q])
      /\ query[q].asked \in Docs /\ lines \in 0..MaxLines
  BY QueryIs
<1>2. /\ Search!NoStamp \in [size : 0..MaxLines, last : 0..MaxLines] /\ Search!NoStamp.last = 0
  BY IndexAssumption DEF Search!NoStamp, Search!None
<1>3. PICK ix : ix = [doc |-> doc, size |-> query[q].cur.size,
                      last |-> IF last = 0 THEN query[q].cur.last ELSE last]
  OBVIOUS
<1>4. /\ ix \in IndexState /\ ix.doc = doc /\ ix.last <= lines
      /\ last # 0 => ix.last = last
  BY <1>1, <1>3 DEF IndexState
<1>5. PICK to : to = [query[q] EXCEPT !.pc = "built", !.cur = Search!NoStamp, !.ix = ix] OBVIOUS
<1>6. query' = [query EXCEPT ![q] = to]
  <2>1. Search!StampOf(query[q].cur, last).size = ix.size
        /\ Search!StampOf(query[q].cur, last).last = ix.last
    BY <1>3 DEF Search!StampOf, Search!None
  <2>2. ix = [doc |-> doc, size |-> ix.size, last |-> ix.last] BY <1>3
  <2> QED BY <1>1, <1>5, <2>1, <2>2 DEF Search!Built
<1>7. /\ to \in QueryState /\ to.pc = "built" /\ to.cur = Search!NoStamp /\ to.ix = ix
      /\ to.asked = query[q].asked /\ to.crossed = query[q].crossed
  BY <1>1, <1>2, <1>4, <1>5 DEF QueryState
<1> DEFINE events == files[named]
<1>8. Stands => events \in Docs /\ DOMAIN events = 1..Len(events) /\ Len(events) \in Nat
  BY StampIs, DocFacts DEF Stands
<1>9. Stands => Honest(ix, events)
  <2> SUFFICES ASSUME Stands, ix.size \in DOMAIN events
               PROVE  \A j \in 1..ix.size : \E k \in DOMAIN ix.doc : ix.doc[k] = events[j]
    BY DEF Honest
  <2>1. Within(events, doc) /\ DOMAIN events = 1..Len(events) /\ Len(events) \in Nat BY <1>8
  <2> HIDE DEF events
  <2>2. ix.size \in Nat BY <1>1, <1>3
  <2>3. \A j \in 1..ix.size : j \in DOMAIN events BY <2>1, <2>2
  <2> QED BY <1>4, <2>1, <2>3 DEF Within
<1>10. Pending(to) => StillThere(to)
  BY <1>1, <1>7 DEF Pending, StillThere
<1>11. Faithful(to)
  <2> SUFFICES ASSUME ~to.crossed PROVE Within(to.asked, to.ix.doc)
    BY <1>7 DEF Faithful
  <2>1. StillThere(to) BY <1>7, <1>10 DEF Pending
  <2>2. Stands BY <2>1 DEF StillThere, Stands, Search!Deleting
  <2>3. /\ Len(to.asked) <= Len(events) /\ \A j \in DOMAIN to.asked : events[j] = to.asked[j]
    BY <2>1 DEF StillThere
  <2>4. DOMAIN to.asked = 1..Len(to.asked) /\ Len(to.asked) \in Nat BY <1>1, <1>7, DocFacts
  <2>5. Within(events, doc) BY <2>2
  <2> HIDE DEF events
  <2>6. \A j \in DOMAIN to.asked : j \in DOMAIN events BY <1>8, <2>2, <2>3, <2>4
  <2> QED BY <1>4, <1>7, <2>3, <2>5, <2>6 DEF Within
<1>12. to.ix.last <= lines /\ to.cur.last <= lines /\ (Stands => Honest(to.ix, files[named]))
  BY <1>1, <1>2, <1>4, <1>7, <1>9
<1> QED BY <1>1, <1>6, <1>7, <1>10, <1>11, <1>12, QueryMoves
LEMMA ReadStoreStep == ASSUME SearchInv, NEW q \in Query, Search!ReadStore(q) PROVE SearchInv'
<1> DEFINE s == store[registry]
<1>1. /\ query[q].pc = "restamped" /\ registry # Search!None
      /\ Search!Built(q, s.doc, s.last) /\ UNCHANGED <<Search!reg, cache, saved, asks>>
  BY DEF Search!ReadStore
<1>2. registry \in DOMAIN store /\ s \in OpenStore
  <2>1. store \in Seq(OpenStore) /\ registry \in 0..Len(store) BY DEF SearchInv, RegistryTyped
  <2> QED BY <1>1, <2>1 DEF Search!None
<1>3. s.doc \in Docs /\ s.last \in 0..MaxLines /\ s.last <= lines
  <2>1. s.last <= lines BY <1>2 DEF SearchInv, DocsAreIssued
  <2> HIDE DEF s
  <2> QED BY <1>2, <2>1 DEF OpenStore
<1>4. Stands => Within(files[named], s.doc) BY DEF SearchInv, LogIsServed, Mirrored
<1> HIDE DEF s
<1> QED BY <1>1, <1>3, <1>4, BuiltStep

LEMMA ReadLogStep == ASSUME SearchInv, NEW q \in Query, Search!ReadLog(q) PROVE SearchInv'
<1> DEFINE events == IF named = Search!None THEN <<>> ELSE files[named]
           last == Search!Final(events)
<1>1. /\ query[q].pc = "restamped" /\ registry = Search!None
      /\ Search!Built(q, events, last) /\ UNCHANGED <<Search!reg, cache, saved, asks>>
  BY DEF Search!ReadLog
<1>2. events \in Docs /\ last \in 0..MaxLines /\ last <= lines
  <2>1. <<>> \in Docs /\ Search!Final(<<>>) = 0 BY DocFacts
  <2>2. lines \in 0..MaxLines BY QueryIs
  <2>3. CASE named = Search!None BY IndexAssumption, <2>1, <2>2, <2>3
  <2>4. CASE named # Search!None
    <3>1. events = files[named] BY <2>4
    <3>2. files[named] \in Docs /\ Search!Final(files[named]) <= lines
      BY <2>4, StampIs
    <3> QED BY <3>1, <3>2, DocFacts
  <2> QED BY <2>3, <2>4
<1>3. ~Stands BY <1>1 DEF SearchInv, LogIsServed
<1> HIDE DEF events, last
<1> QED BY <1>1, <1>2, <1>3, BuiltStep

\* The end of a DELETE; the registry may have another notebook of that name by now.
LEMMA ForgettingStep ==
  ASSUME SearchInv, NEW d \in Deleter, Search!RemoveIndex(d) \/ Search!Forget(d)
  PROVE  SearchInv'
<1>1. PICK p \in {"forget", "idle"} :
        /\ deleting[d].pc \in {"bare", "forget"}
        /\ deleting' = [deleting EXCEPT ![d].pc = p]
        /\ UNCHANGED <<files, named, snapshot, store, registry, acquiring, lines, query, asks>>
        /\ cache' \in {cache, Search!NoIndex} /\ saved' \in {saved, Search!NoIndex}
  <2>1. CASE Search!RemoveIndex(d) BY <2>1 DEF Search!RemoveIndex
  <2>2. CASE Search!Forget(d) BY <2>2 DEF Search!Forget
  <2> QED BY <2>1, <2>2
<1>2. RegistryTyped /\ deleting \in [Deleter -> DeletingState]
      /\ deleting[d] \in DeletingState
  BY DEF SearchInv, RegistryTyped
<1>3. PICK to : to = [deleting[d] EXCEPT !.pc = p] OBVIOUS
<1>4. to \in DeletingState /\ to.pc = p BY <1>2, <1>3 DEF DeletingState
<1>5. /\ deleting' \in [Deleter -> DeletingState] /\ deleting'[d] = to
      /\ \A e \in Deleter : e # d => deleting'[e] = deleting[e]
  <2>1. deleting' = [deleting EXCEPT ![d] = to] BY <1>1, <1>2, <1>3
  <2> QED BY <1>2, <1>4, <2>1, DeleterMoves
<1>6. Stands' <=> Stands BY <1>1, <1>4, <1>5 DEF Stands
<1>7. RegistryTyped'
  <2>1. \A e \in Deleter : deleting'[e].pc = "closing" => deleting'[e].store \in DOMAIN store
    BY <1>2, <1>4, <1>5 DEF RegistryTyped
  <2> QED BY <1>1, <1>2, <1>5, <2>1 DEF RegistryTyped
<1>8. DocsAreIssued' BY <1>1 DEF SearchInv, DocsAreIssued
<1>9. OneWriter'
  <2>1. \A e \in Deleter : deleting[e].pc = "closing" => deleting'[e] = deleting[e]
    BY <1>1, <1>5
  <2> QED BY <1>1, <2>1 DEF SearchInv, OneWriter
<1>10. LogIsServed' BY <1>1, <1>6 DEF SearchInv, LogIsServed, Mirrored
<1>11. /\ Search!NoIndex \in IndexState /\ Search!NoIndex.last = 0 /\ Search!NoIndex.size = 0
       /\ lines \in 0..MaxLines
  BY IndexAssumption, DocFacts, <1>2 DEF Search!NoIndex, IndexState, Search!None, RegistryTyped
<1>12. SearchTyped' BY <1>1, <1>11 DEF SearchInv, SearchTyped
<1>13. StampsAreIssued'
  <2>1. Search!NoIndex.last <= lines BY <1>11
  <2> QED BY <1>1, <2>1 DEF SearchInv, StampsAreIssued
<1>14. Stands => Honest(Search!NoIndex, files[named])
  <2>1. Stands => DOMAIN files[named] = 1..Len(files[named]) BY StampIs, DocFacts DEF Stands
  <2>2. \A n : 0 \notin 1..n OBVIOUS
  <2> QED BY <1>11, <2>1, <2>2 DEF Honest
<1>15. IndexesAreHonest' BY <1>1, <1>6, <1>14 DEF SearchInv, IndexesAreHonest
<1>16. UncrossedQueries'
  <2>1. Search!Deleting BY <1>1 DEF Search!Deleting
  <2>2. \A x \in Query : Faithful(query[x]) /\ ~Pending(query[x])
    BY <2>1 DEF SearchInv, UncrossedQueries, StillThere
  <2>3. \A x \in Query : Pending(query[x])' <=> Pending(query[x]) BY <1>1 DEF Pending
  <2>4. \A x \in Query : Faithful(query[x])' <=> Faithful(query[x])
    BY <1>1 DEF Faithful, Pending
  <2> QED BY <2>2, <2>3, <2>4 DEF UncrossedQueries
<1> QED BY <1>7, <1>8, <1>9, <1>10, <1>12, <1>13, <1>15, <1>16 DEF SearchInv

LEMMA SearchNext ==
  ASSUME SearchInv, Search!Next \/ UNCHANGED indexes
  PROVE  SearchInv'
<1>1. CASE UNCHANGED indexes
  <2>1. UNCHANGED <<files, named, snapshot, store, registry, acquiring, deleting, lines, cache,
                    saved, query, asks>>
    BY <1>1 DEF indexes
  <2>2. Stands' <=> Stands BY <2>1 DEF Stands
  <2>3. RegistryTyped' /\ SearchTyped' /\ DocsAreIssued' /\ StampsAreIssued' /\ OneWriter'
    BY <2>1 DEF SearchInv, RegistryTyped, SearchTyped, DocsAreIssued, StampsAreIssued, OneWriter
  <2>4. LogIsServed' /\ IndexesAreHonest'
    BY <2>1, <2>2 DEF SearchInv, LogIsServed, Mirrored, IndexesAreHonest
  <2>5. UncrossedQueries'
    BY <2>1
    DEF SearchInv, UncrossedQueries, Faithful, Pending, StillThere, Search!Deleting
  <2> QED BY <2>3, <2>4, <2>5 DEF SearchInv
<1>2. CASE Search!RegistryStep /\ UNCHANGED <<cache, saved, asks>> /\ query' = Search!Crossed
  <2>1. CASE Search!Acquire \/ Search!Create \/ Search!Load BY <1>2, <2>1, AcquireStep
  <2>2. CASE Search!Open BY <1>2, <2>2, OpenStep
  <2>3. ASSUME NEW i \in Search!Store, Search!Write(i) PROVE SearchInv' BY <1>2, <2>3, LineStep
  <2>4. ASSUME NEW d \in Deleter,
               \/ Search!Begin(d) \/ Search!Release(d)
               \/ Search!RemoveLog(d) \/ Search!RemoveSnapshot(d)
        PROVE  SearchInv'
    BY <1>2, <2>4, DeletingStep
  <2>5. ASSUME NEW d \in Deleter, Search!Close(d) PROVE SearchInv' BY <1>2, <2>5, CloseStep
  <2> QED BY <1>2, <2>1, <2>2, <2>3, <2>4, <2>5 DEF Search!RegistryStep
<1>3. ASSUME NEW q \in Query,
             \/ Search!Ask(q) \/ Search!FromCache(q) \/ Search!FromFile(q)
             \/ Search!StampFirst(q) \/ Search!ReadStore(q) \/ Search!ReadLog(q)
             \/ Search!Save(q) \/ Search!Put(q)
      PROVE  SearchInv'
  BY <1>3, AskStep, FromCacheStep, FromFileStep, StampFirstStep, ReadStoreStep, ReadLogStep,
     SaveStep, PutStep
<1>4. ASSUME NEW q \in Query, Search!Done(q) PROVE SearchInv'
  BY <1>4, QueryEnds DEF Search!Done
<1>5. ASSUME NEW d \in Deleter, Search!RemoveIndex(d) \/ Search!Forget(d) PROVE SearchInv'
  BY <1>5, ForgettingStep
<1> QED BY <1>1, <1>2, <1>3, <1>4, <1>5 DEF Search!Next

LEMMA SearchesFind == ASSUME SearchInv PROVE AnswersAreFresh
<1> SUFFICES ASSUME NEW q \in Query, query[q].pc = "answered", ~query[q].crossed,
                    NEW j \in 1..Len(query[q].asked)
             PROVE  \E k \in 1..Len(query[q].ix.doc) : query[q].ix.doc[k] = query[q].asked[j]
  BY DEF AnswersAreFresh, Search!AnswersAreFresh
<1>1. query[q].asked \in Docs /\ query[q].ix.doc \in Docs /\ Faithful(query[q])
  BY QueryIs DEF IndexState
<1>2. Within(query[q].asked, query[q].ix.doc) BY <1>1 DEF Faithful
<1> QED BY <1>1, <1>2, DocFacts DEF Within

\* However a log is written, removed and made anew, and other searches leave their indexes
\* in memory and on disk: a search no DELETE crosses finds all that was there when it was
\* asked (searchIndexFor, matchesLog, notebookForIndex).
THEOREM SearchesMissNothing == ServicesSpec => []AnswersAreFresh
<1>1. ServicesInit => SearchInv BY SearchInit DEF ServicesInit
<1>2. SearchInv /\ [ServicesNext]_all => SearchInv'
  BY SearchNext DEF ServicesNext, LifeStep, all
<1>3. SearchInv => AnswersAreFresh BY SearchesFind
<1> QED BY <1>1, <1>2, <1>3, PTL DEF ServicesSpec

------------------------------------------------------------------------------
\* Every part of its type.

LEMMA MirrorTypes == ASSUME MirrorInv, DiffInv PROVE Gh!TypeOK
<1>1. /\ top \in Gh!Item /\ pushes \in 0..MaxPushes /\ syncs \in 0..MaxSyncs
      /\ (syncing <=> \E s \in Syncer : ~Gh!At(s, "idle"))
  BY DEF MirrorInv, MirrorTyped, OneSync
<1>2. pushes \in Nat BY <1>1, GhAssumption
<1>3. Known \subseteq {Gh!Nobody} \cup 0..pushes BY <1>2 DEF Known, Gh!Nobody
<1>4. \A s \in Syncer : sync[s].pc \in {"idle", "list", "item", "fill", "rename", "meta"}
  BY DEF MirrorInv, MirrorTyped, SyncState
<1>5. \A n \in Gh!Item : cached[n].version \in {Gh!Nobody} \cup 0..pushes
  <2>1. \A n \in Gh!Item : cached[n].version \in Known BY DEF MirrorInv, MirrorTyped, ItemFile
  <2> QED BY <1>3, <2>1
<1>6. \A k \in Gh!Kind : index[k] \subseteq {n \in Gh!Item : Items[n] = k}
  BY DEF MirrorInv, IndexesHold, OfKind
<1>7. diff.of \in Gh!Nobody..pushes /\ diff.upto \in Gh!Nobody..pushes
  <2>1. diff.of \in Known /\ diff.upto \in Known BY DEF DiffInv, DiffsTyped, DiffFile
  <2> QED BY <2>1 DEF Known, Gh!Nobody
<1>8. early \in BOOLEAN /\ blurred \in BOOLEAN /\ overlap \in BOOLEAN
  BY DEF DiffInv, DiffsTyped
<1> QED BY <1>1, <1>4, <1>5, <1>6, <1>7, <1>8 DEF Gh!TypeOK

LEMMA IndexTypes == ASSUME SearchInv PROVE Search!TypeOK
<1>1. /\ named \in 0..Len(files) /\ registry \in 0..Len(store)
      /\ files \in Seq(Docs) /\ store \in Seq(OpenStore)
      /\ \A i \in DOMAIN store : store[i].file \in DOMAIN files
      /\ snapshot \in [is : BOOLEAN, doc : Docs]
      /\ acquiring \in [pc : {"idle", "read", "loaded"}, read : Docs, doc : Docs,
                        created : BOOLEAN]
  BY DEF SearchInv, RegistryTyped
<1>2. \A doc \in Docs : Search!Document(doc) BY DocFacts DEF Search!Document
<1>3. /\ DOMAIN files = 1..Len(files) /\ \A f \in 1..Len(files) : files[f] \in Docs
      /\ DOMAIN store = 1..Len(store) /\ \A i \in 1..Len(store) : store[i] \in OpenStore
  BY <1>1
<1>4. \A i \in 1..Len(store) : store[i].doc \in Docs BY <1>3 DEF OpenStore
<1>5. snapshot.doc \in Docs /\ acquiring.doc \in Docs /\ acquiring.read \in Docs BY <1>1
<1>6. /\ cache \in Search!Indexes /\ saved \in Search!Indexes
      /\ \A q \in Query : query[q].ix \in Search!Indexes
  BY QueryIs DEF SearchInv, SearchTyped, IndexState, Search!Indexes, Docs
<1> QED BY <1>1, <1>2, <1>3, <1>4, <1>5, <1>6 DEF Search!TypeOK

\* Every variable of every part keeps its type.
THEOREM EveryPartTyped == ServicesSpec => []ServicesTypeOK
<1> DEFINE Typed == /\ part \in Part /\ TypeOK /\ LifeInv /\ BoardInv /\ FollowersInv
                    /\ TerminalInv /\ MirrorInv /\ DiffInv /\ SearchInv
<1>1. ServicesInit => Typed
  BY InitTypeOK, LifeInit, BoardInit, FollowersInit, TerminalInit, MirrorInit, DiffInit,
     SearchInit
  DEF ServicesInit
<1>2. Typed /\ [ServicesNext]_all => Typed'
  <2> SUFFICES ASSUME Typed, [ServicesNext]_all PROVE Typed' OBVIOUS
  <2>1. UNCHANGED part BY DEF ServicesNext, LifeStep, all
  <2>2. TypeOK' BY TypeStep DEF ServicesNext, LifeStep, all
  <2>3. LifeInv' BY LifeNext DEF ServicesNext, LifeStep, all
  <2>4. BoardInv' BY BoardNext DEF ServicesNext, LifeStep, all
  <2>5. FollowersInv' BY FollowersNext DEF ServicesNext, LifeStep, all
  <2>6. TerminalInv' BY TerminalNext DEF ServicesNext, LifeStep, all
  <2>7. MirrorInv' /\ DiffInv' BY MirrorNext, DiffNext DEF ServicesNext, LifeStep, all
  <2>8. SearchInv' BY SearchNext DEF ServicesNext, LifeStep, all
  <2> QED BY <2>1, <2>2, <2>3, <2>4, <2>5, <2>6, <2>7, <2>8
<1>3. Typed => ServicesTypeOK
  BY MirrorTypes, IndexTypes, FollowersParts
  DEF LifeInv, BoardInv, BoardTyped, TerminalInv, StreamTyped, ServicesTypeOK
<1> QED BY <1>1, <1>2, <1>3, PTL DEF ServicesSpec

\* Whatever else the server does, its one store of a notebook behaves as the log that
\* EventLog promises (openNotebookStore, Append, Close).
THEOREM ServicesKeepTheLog ==
  ASSUME Cuts = {}, NEW h, Handle = {h}
  PROVE  ServicesSpec => ImplementsEventLog
<1>1. ServicesInit => Init BY DEF ServicesInit
<1>2. [ServicesNext]_all => [Next]_vars BY DEF ServicesNext, LifeStep, all
<1> QED BY <1>1, <1>2, StoreImplementsEventLog, PTL DEF ServicesSpec, Spec

==============================================================================

