---------------------------- MODULE CellRunsProofs ----------------------------
(***************************************************************************)
(* Proofs about CellRuns.  First its claims, in which the document plays   *)
(* no part: a cell is run by one run at a time, and unless it was sent to  *)
(* a CLI session its claim is given back when the run is over.  Then what  *)
(* the document shows of the runs: a live run is its cell's, and a cell    *)
(* that reads as running is being run.                                     *)
(***************************************************************************)
EXTENDS CellRuns, NotebookDocProofs, FiniteSetTheorems

\* The part of the state the claims depend on, with its types.
RunsTyped ==
  /\ claim \in [Cell -> Run \cup {NoRun}]
  /\ run \in [Run -> RunRecord]
  /\ \A r \in Run : run[r].pc # "idle" => run[r].cell \in Cell

\* A run that is not over holds its cell's claim.
HoldersClaim == \A r \in Run : Active(r) => claim[run[r].cell] = r

\* A claim is held by a run on its cell, which is not over unless it was a CLI's.
ClaimsHeld ==
  \A c \in Cell :
    claim[c] # NoRun =>
      /\ run[claim[c]].cell = c /\ run[claim[c]].pc # "idle"
      /\ run[claim[c]].pc = "done" => run[claim[c]].runner = "session"

Inv == RunsTyped /\ HoldersClaim /\ ClaimsHeld

USE RunsAssumption, DocAssumption

\* Nobody runs anything at first.
LEMMA InitInv == Init => Inv
  BY DEF Init, Inv, RunsTyped, HoldersClaim, ClaimsHeld, NotAsked, RunRecord, Stage, Active

\* A step that moves one run on, and changes no claim but perhaps its own.
LEMMA Moves ==
  ASSUME Inv, NEW r \in Run, NEW rec \in RunRecord,
         run' = [run EXCEPT ![r] = rec],
         Active(r), rec.cell = run[r].cell, rec.pc # "idle",
         \/ claim' = claim /\ (rec.pc = "done" => rec.runner = "session")
         \/ claim' = Released(r) /\ rec.pc = "done"
  PROVE  Inv'
<1> USE DEF Inv, RunsTyped, Active
<1>1. run' \in [Run -> RunRecord] OBVIOUS
<1>2. claim' \in [Cell -> Run \cup {NoRun}] BY DEF Released
<1>3. run[r].cell \in Cell /\ claim[run[r].cell] = r BY DEF HoldersClaim
<1>4. run'[r] = rec /\ \A s \in Run : s # r => run'[s] = run[s] OBVIOUS
<1>5. \A s \in Run : run'[s].pc # "idle" => run'[s].cell \in Cell BY <1>3, <1>4
<1>6. ASSUME NEW s \in Run, Active(s)' PROVE claim'[run'[s].cell] = s
  <2>1. CASE s = r
    <3>1. rec.pc # "done" BY <1>4, <1>6, <2>1
    <3>2. claim' = claim BY <3>1
    <3> QED BY <2>1, <3>2, <1>3, <1>4
  <2>2. CASE s # r
    <3>1. run'[s] = run[s] BY <2>2, <1>4
    <3>2. Active(s) /\ run[s].cell \in Cell /\ claim[run[s].cell] = s
      BY <1>6, <3>1 DEF HoldersClaim
    <3>3. run[s].cell # run[r].cell BY <3>2, <1>3, <2>2
    <3>4. claim'[run[s].cell] = claim[run[s].cell] BY <3>2, <3>3, <1>3 DEF Released
    <3> QED BY <3>1, <3>2, <3>4
  <2> QED BY <2>1, <2>2
<1>7. ASSUME NEW c \in Cell, claim'[c] # NoRun
      PROVE  /\ run'[claim'[c]].cell = c /\ run'[claim'[c]].pc # "idle"
             /\ run'[claim'[c]].pc = "done" => run'[claim'[c]].runner = "session"
  <2>1. claim'[c] = claim[c] BY <1>7 DEF Released
  <2>2. /\ claim[c] \in Run /\ run[claim[c]].cell = c /\ run[claim[c]].pc # "idle"
        /\ run[claim[c]].pc = "done" => run[claim[c]].runner = "session"
    BY <1>7, <2>1 DEF ClaimsHeld
  <2>3. CASE claim[c] = r
    <3>1. rec.pc = "done" => rec.runner = "session"
      BY <1>2, <1>7, <2>1, <2>2, <2>3 DEF Released
    <3> QED BY <2>1, <2>2, <2>3, <3>1, <1>4
  <2>4. CASE claim[c] # r
    <3>1. run'[claim[c]] = run[claim[c]] BY <2>2, <2>4, <1>4
    <3> QED BY <2>1, <2>2, <3>1
  <2> QED BY <2>3, <2>4
<1> QED BY <1>1, <1>2, <1>5, <1>6, <1>7 DEF HoldersClaim, ClaimsHeld

\* A run at another stage is still a well-formed run on the same cell.
LEMMA AtStage ==
  ASSUME Inv, NEW r \in Run, NEW pc \in Stage
  PROVE  /\ [run[r] EXCEPT !.pc = pc] \in RunRecord
         /\ [run[r] EXCEPT !.pc = pc].cell = run[r].cell
         /\ [run[r] EXCEPT !.pc = pc].runner = run[r].runner
         /\ [run[r] EXCEPT !.pc = pc].pc = pc
  BY DEF Inv, RunsTyped, RunRecord

\* A run that goes on to a later stage keeps its cell and its claim.
LEMMA GotoMoves ==
  ASSUME Inv, NEW r \in Run, NEW pc \in Stage, Goto(r, pc),
         Active(r), pc # "idle",
         \/ claim' = claim /\ pc # "done"
         \/ claim' = Released(r) /\ pc = "done"
  PROVE  Inv'
<1> DEFINE rec == [run[r] EXCEPT !.pc = pc]
<1>1. rec \in RunRecord /\ rec.cell = run[r].cell /\ rec.pc = pc BY AtStage
<1>2. run' = [run EXCEPT ![r] = rec] BY DEF Goto, Inv, RunsTyped
<1> HIDE DEF rec
<1> QED BY <1>1, <1>2, Moves

\* handleCellRun picks one of the three runners.
LEMMA RunnerType ==
  ASSUME NEW c PROVE RunnerOf(c) \in {"shell", "prompt", "session"}
  BY DEF RunnerOf

\* beginRun: only a cell nobody holds is claimed.
LEMMA ClaimInv == ASSUME Inv, NEW r \in Run, NEW c \in Cell, Claim(r, c) PROVE Inv'
<1> USE DEF Inv, RunsTyped, Claim
<1> DEFINE rec == [run[r] EXCEPT !.pc = "claimed", !.cell = c, !.runner = RunnerOf(c)]
<1>1. run[r] \in RunRecord /\ run[r].pc = "idle" BY DEF NotAsked
<1>2. rec \in RunRecord /\ rec.pc = "claimed" /\ rec.cell = c
  BY <1>1, RunnerType DEF RunRecord, Stage
<1>3. run' = [run EXCEPT ![r] = rec] OBVIOUS
<1>4. run' \in [Run -> RunRecord] BY <1>2, <1>3
<1>5. claim' \in [Cell -> Run \cup {NoRun}] OBVIOUS
<1>6. run'[r] = rec /\ \A s \in Run : s # r => run'[s] = run[s] BY <1>3
<1>7. \A s \in Run : run'[s].pc # "idle" => run'[s].cell \in Cell BY <1>2, <1>6
<1>8. ASSUME NEW s \in Run, Active(s)' PROVE claim'[run'[s].cell] = s
  <2>1. CASE s = r BY <2>1, <1>2, <1>6
  <2>2. CASE s # r
    <3>1. Active(s) /\ run'[s] = run[s] BY <2>2, <1>6, <1>8 DEF Active
    <3>2. run[s].cell \in Cell /\ claim[run[s].cell] = s
      BY <3>1 DEF HoldersClaim, Active
    <3>3. run[s].cell # c BY <3>2
    <3> QED BY <3>1, <3>2, <3>3
  <2> QED BY <2>1, <2>2
<1>9. ASSUME NEW d \in Cell, claim'[d] # NoRun
      PROVE  /\ run'[claim'[d]].cell = d /\ run'[claim'[d]].pc # "idle"
             /\ run'[claim'[d]].pc = "done" => run'[claim'[d]].runner = "session"
  <2>1. CASE d = c BY <2>1, <1>2, <1>6 DEF Active
  <2>2. CASE d # c
    <3>1. claim'[d] = claim[d] BY <2>2
    <3>2. /\ claim[d] \in Run /\ run[claim[d]].cell = d /\ run[claim[d]].pc # "idle"
          /\ run[claim[d]].pc = "done" => run[claim[d]].runner = "session"
      BY <1>9, <3>1 DEF ClaimsHeld
    <3>3. claim[d] # r BY <3>2, <1>1
    <3> QED BY <3>1, <3>2, <3>3, <1>6 DEF Active
  <2> QED BY <2>1, <2>2
<1>10. HoldersClaim' BY <1>8 DEF HoldersClaim
<1>11. ClaimsHeld' BY <1>9 DEF ClaimsHeld
<1> QED BY <1>4, <1>5, <1>7, <1>10, <1>11

\* run_started: a refused one gives the claim back.
LEMMA StartInv == ASSUME Inv, NEW r \in Run, Start(r) PROVE Inv'
<1>1. Active(r) BY DEF Start, Active
<1>2. CASE Goto(r, "started") /\ UNCHANGED claim BY <1>1, <1>2, GotoMoves DEF Stage
<1>3. CASE Goto(r, "done") /\ claim' = Released(r) BY <1>1, <1>3, GotoMoves DEF Stage
<1> QED BY <1>2, <1>3 DEF Start

\* invalidateBelow, its read.
LEMMA ReadBelowInv == ASSUME Inv, NEW r \in Run, ReadBelow(r) PROVE Inv'
<1> DEFINE below == FinishedBelow(run[r].cell)
           pc == IF below = {} THEN "running" ELSE "invalidating"
           rec == [run[r] EXCEPT !.below = below, !.pc = pc]
<1>1. run[r] \in RunRecord /\ Active(r) BY DEF Inv, RunsTyped, ReadBelow, Active
<1>2. below \subseteq Cell BY DEF FinishedBelow
<1>3. run' = [run EXCEPT ![r] = rec] /\ claim' = claim
  BY DEF ReadBelow, Inv, RunsTyped
<1> HIDE DEF below
<1>4. rec \in RunRecord /\ rec.cell = run[r].cell /\ rec.pc \notin {"idle", "done"}
  BY <1>1, <1>2 DEF RunRecord, Stage
<1> HIDE DEF rec
<1> QED BY <1>1, <1>3, <1>4, Moves

\* invalidateBelow, its append.
LEMMA InvalidateBelowInv == ASSUME Inv, NEW r \in Run, InvalidateBelow(r) PROVE Inv'
<1> DEFINE rec == [run[r] EXCEPT !.pc = "running", !.below = {}]
<1>1. run[r] \in RunRecord /\ Active(r) BY DEF Inv, RunsTyped, InvalidateBelow, Active
<1>2. rec \in RunRecord /\ rec.cell = run[r].cell /\ rec.pc \notin {"idle", "done"}
  BY <1>1 DEF RunRecord, Stage
<1>3. run' = [run EXCEPT ![r] = rec] /\ claim' = claim
  BY DEF InvalidateBelow, Inv, RunsTyped
<1> HIDE DEF rec
<1> QED BY <1>1, <1>2, <1>3, Moves

\* A run whose work is over goes on to write its end.
LEMMA EndsInv ==
  ASSUME Inv, NEW r \in Run, NEW status \in {"ok", "error", "interrupted"},
         NEW text \in BOOLEAN, Active(r), Ends(r, status, text), UNCHANGED claim
  PROVE  Inv'
<1> DEFINE rec == [run[r] EXCEPT !.pc = "writing", !.status = status, !.text = text]
<1>1. run[r] \in RunRecord BY DEF Inv, RunsTyped
<1>2. rec \in RunRecord /\ rec.cell = run[r].cell /\ rec.pc \notin {"idle", "done"}
  BY <1>1 DEF RunRecord, Stage
<1>3. run' = [run EXCEPT ![r] = rec] BY DEF Ends, Inv, RunsTyped
<1> HIDE DEF rec
<1> QED BY <1>2, <1>3, Moves

\* Marking runs as interrupted moves none of them.
LEMMA StopInv ==
  ASSUME Inv, UNCHANGED claim, run' \in [Run -> RunRecord],
         \A s \in Run : /\ run'[s].pc = run[s].pc /\ run'[s].cell = run[s].cell
                        /\ run'[s].runner = run[s].runner
  PROVE  Inv'
<1>1. ASSUME NEW c \in Cell, claim[c] # NoRun PROVE claim[c] \in Run
  BY <1>1 DEF Inv, RunsTyped
<1>2. HoldersClaim' BY DEF Inv, HoldersClaim, Active
<1>3. ClaimsHeld' BY <1>1 DEF Inv, ClaimsHeld
<1> QED BY <1>2, <1>3 DEF Inv, RunsTyped

\* handleCellInterrupt only marks the run.
LEMMA InterruptInv == ASSUME Inv, NEW c \in Cell, Interrupt(c) PROVE Inv'
<1>1. claim[c] \in Run /\ run \in [Run -> RunRecord] BY DEF Interrupt, Inv, RunsTyped
<1>2. [run[claim[c]] EXCEPT !.stopped = TRUE] \in RunRecord
  <2>1. run[claim[c]] \in RunRecord BY <1>1
  <2> QED BY <2>1 DEF RunRecord
<1>3. run' = [run EXCEPT ![claim[c]] = [run[claim[c]] EXCEPT !.stopped = TRUE]]
  BY <1>1 DEF Interrupt
<1>4. run' \in [Run -> RunRecord] BY <1>1, <1>2, <1>3
<1>5. \A s \in Run : /\ run'[s].pc = run[s].pc /\ run'[s].cell = run[s].cell
                     /\ run'[s].runner = run[s].runner
  BY <1>1, <1>3 DEF RunRecord
<1> QED BY <1>4, <1>5, StopInv DEF Interrupt

\* interruptAllRuns only marks the runs.
LEMMA InterruptAllInv == ASSUME Inv, InterruptAll PROVE Inv'
<1>1. run \in [Run -> RunRecord] BY DEF Inv, RunsTyped
<1>2. \A s \in Run : [run[s] EXCEPT !.stopped = TRUE] \in RunRecord
  BY <1>1 DEF RunRecord
<1>3. run' \in [Run -> RunRecord] BY <1>1, <1>2 DEF InterruptAll
<1>4. \A s \in Run : /\ run'[s].pc = run[s].pc /\ run'[s].cell = run[s].cell
                     /\ run'[s].runner = run[s].runner
  BY <1>1 DEF InterruptAll, RunRecord
<1> QED BY <1>3, <1>4, StopInv DEF InterruptAll

\* The final output.
LEMMA WriteOutputInv == ASSUME Inv, NEW r \in Run, WriteOutput(r) PROVE Inv'
<1> DEFINE rec == [run[r] EXCEPT !.pc = "finishing", !.text = FALSE]
<1>1. run[r] \in RunRecord /\ Active(r) BY DEF Inv, RunsTyped, WriteOutput, Active
<1>2. rec \in RunRecord /\ rec.cell = run[r].cell /\ rec.pc \notin {"idle", "done"}
  BY <1>1 DEF RunRecord, Stage
<1>3. run' = [run EXCEPT ![r] = rec] /\ claim' = claim
  BY DEF WriteOutput, Inv, RunsTyped
<1> HIDE DEF rec
<1> QED BY <1>1, <1>2, <1>3, Moves

\* Only a run that was sent to a CLI is over without giving its cell back.
LEMMA WriteFinishInv == ASSUME Inv, NEW r \in Run, WriteFinish(r) PROVE Inv'
<1> DEFINE rec == [run[r] EXCEPT !.pc = AfterFinish(r), !.status = "ok"]
<1>1. run[r] \in RunRecord /\ Active(r) BY DEF Inv, RunsTyped, WriteFinish, Active
<1>2. /\ AfterFinish(r) \in {"done", "ending"}
      /\ AfterFinish(r) = "done" => run[r].runner = "session"
  BY DEF AfterFinish
<1>3. /\ rec \in RunRecord /\ rec.cell = run[r].cell /\ rec.pc # "idle"
      /\ rec.pc = "done" => rec.runner = "session"
  BY <1>1, <1>2 DEF RunRecord, Stage
<1>4. run' = [run EXCEPT ![r] = rec] /\ claim' = claim
  BY DEF WriteFinish, Inv, RunsTyped
<1> HIDE DEF rec
<1> QED BY <1>1, <1>3, <1>4, Moves

\* Whatever a run's goroutine does by itself.
LEMMA ProgressInv == ASSUME Inv, NEW r \in Run, Progress(r) PROVE Inv'
<1>1. CASE PromptGone(r) BY <1>1, GotoMoves DEF PromptGone, Active, Stage
<1>2. CASE SessionDelivers(r) BY <1>2, GotoMoves DEF SessionDelivers, Active, Stage
<1>3. CASE EndRun(r) BY <1>3, GotoMoves DEF EndRun, Active, Stage
<1> QED
  BY <1>1, <1>2, <1>3, StartInv, ReadBelowInv, InvalidateBelowInv, WriteOutputInv,
     WriteFinishInv
  DEF Progress, OwnStep

\* Whatever way a command or a model call ends.
LEMMA ExitInv == ASSUME Inv, NEW r \in Run, Exit(r) PROVE Inv'
  BY EndsInv DEF Exit, CommandExits, PromptEnds, Active

\* A step that touches neither claims nor runs.
LEMMA Untouched == ASSUME Inv, UNCHANGED <<claim, run>> PROVE Inv'
  BY DEF Inv, RunsTyped, HoldersClaim, ClaimsHeld, Active

\* One case per action.
LEMMA StepInv == ASSUME Inv, [Next]_vars PROVE Inv'
<1>1. ASSUME NEW r \in Run, PromptOutput(r) PROVE Inv'
  BY <1>1, Untouched DEF PromptOutput
<1>2. ASSUME NEW r \in Run, NEW status \in {"ok", "error"}, SessionAnswersItself(r, status)
      PROVE Inv'
  BY <1>2, EndsInv DEF SessionAnswersItself, Active
<1>3. ASSUME NEW c \in Cell, DeleteCell(c) PROVE Inv' BY <1>3, Untouched DEF DeleteCell
<1>4. ASSUME NEW c \in Cell, NEW status \in {"ok", "error", "interrupted"},
             SessionSettles(c, status)
      PROVE Inv'
  BY <1>4, Untouched DEF SessionSettles
<1>5. CASE Close BY <1>5, Untouched DEF Close
<1>6. CASE UNCHANGED vars BY <1>6, Untouched DEF vars
<1> QED
  BY <1>1, <1>2, <1>3, <1>4, <1>5, <1>6, ClaimInv, ProgressInv, ExitInv, InterruptInv,
     InterruptAllInv
  DEF Next

\* Inv is inductive.
LEMMA Invariance == Spec => []Inv
  BY InitInv, StepInv, PTL DEF Spec

\* However requests, runs, interrupts and shutdown interleave, two runs never
\* hold one cell (beginRun, endRun).
THEOREM OneRunHoldsACell == Spec => []OneRunPerCell
<1>1. Inv => OneRunPerCell BY DEF Inv, HoldersClaim, OneRunPerCell
<1> QED BY <1>1, Invariance, PTL

\* A cell that was not sent to a CLI reads as claimed only while a run has it: every
\* way such a run ends gives the cell back (the deferred endRun).
THEOREM ClaimsAreGivenBack == Spec => []ClaimsAreActive
<1>1. Inv => ClaimsAreActive BY DEF Inv, RunsTyped, ClaimsHeld, ClaimsAreActive, Active
<1> QED BY <1>1, Invariance, PTL

------------------------------------------------------------------------------

\* The document, in which no cell is twice.
DocTyped ==
  /\ doc \in Seq(CellRecord) /\ Distinct(doc)
  /\ delivered \subseteq Cell /\ mirrored \in BOOLEAN
  /\ unsaid \subseteq Run

\* A run is a CLI's when the notebook is mirrored and its cell, which no event here
\* retypes, is a prompt.
RunnersFit ==
  \A r \in Run :
    run[r].pc # "idle" =>
      /\ run[r].runner = "session" => mirrored
      /\ Has(doc, run[r].cell) =>
           (run[r].runner = "session" <=> mirrored /\ CellOf(doc, run[r].cell).kind # "shell")

\* What was sent to a CLI was a prompt of a mirrored notebook, and was run.
DeliveredFit ==
  \A c \in delivered :
    /\ mirrored
    /\ Has(doc, c) => CellOf(doc, c).kind # "shell" /\ CellOf(doc, c).run \in Run

\* A live run's cell reads as running, unless a CLI's report may have settled it.
LiveRunShows ==
  \A r \in Run :
    Live(r) /\ run[r].runner # "session" /\ Has(doc, run[r].cell)
      => CellOf(doc, run[r].cell).state = "running"

\* RunningIsLive, of the cells by their ids.
SpinnersAreLive ==
  \A c : Has(doc, c) /\ CellOf(doc, c).state = "running" =>
    \/ c \in delivered \/ CellOf(doc, c).run \in unsaid
    \/ \E r \in Run : Live(r) /\ run[r].cell = c /\ CellOf(doc, c).run = r

DocInv ==
  /\ DocTyped /\ RunnersFit /\ DeliveredFit
  /\ LiveRunIsCurrent /\ LiveRunShows /\ SpinnersAreLive

\* What most events leave alone of the cells that stay.
Keeps(d, d2) ==
  /\ d2 \in Seq(CellRecord) /\ Distinct(d2)
  /\ \A x : Has(d2, x) =>
       /\ Has(d, x)
       /\ CellOf(d2, x).run = CellOf(d, x).run
       /\ CellOf(d2, x).kind = CellOf(d, x).kind
       /\ CellOf(d2, x).state = "running" <=> CellOf(d, x).state = "running"

LEMMA LogKeeps ==
  ASSUME DocTyped,
         \/ UNCHANGED doc
         \/ \E id \in Cell, r \in Run : Logged(Output(id, r))
         \/ \E ids : Logged(Invalidated(ids))
         \/ \E id \in Cell : doc' = Apply(doc, Deleted(id))
  PROVE  Keeps(doc, doc')
<1> USE DEF DocTyped
<1>1. CASE UNCHANGED doc BY <1>1 DEF Keeps
<1>2. ASSUME NEW id \in Cell, NEW r \in Run, doc' = Apply(doc, Output(id, r))
      PROVE  Keeps(doc, doc')
  <2> DEFINE c == CellOf(doc, id)
             c2 == IF Superseded(c, r) THEN c ELSE [c EXCEPT !.outs = Append(@, r)]
  <2>1. doc' = Update(doc, id, c2) BY <1>2 DEF Apply, Output
  <2>2. ASSUME Has(doc, id)
        PROVE  /\ c2 \in CellRecord /\ c2.id = id
               /\ c2.run = c.run /\ c2.kind = c.kind /\ c2.state = c.state
    <3>1. c \in CellRecord /\ c.id = id BY <2>2, FoundCell
    <3> HIDE DEF c
    <3>2. Append(c.outs, r) \in Seq(Run \cup {NoRun}) BY <3>1 DEF CellRecord
    <3> QED BY <3>1, <3>2 DEF CellRecord
  <2> HIDE DEF c2
  <2>3. /\ doc' \in Seq(CellRecord) /\ Distinct(doc')
        /\ \A x : /\ Has(doc', x) <=> Has(doc, x)
                  /\ Has(doc, x) => CellOf(doc', x) = IF x = id THEN c2 ELSE CellOf(doc, x)
    BY <2>1, <2>2, UpdateEffect
  <2> QED BY <2>2, <2>3 DEF Keeps
<1>3. ASSUME NEW ids, doc' = Apply(doc, Invalidated(ids)) PROVE Keeps(doc, doc')
  <2>1. doc' = Stale(doc, ids) BY <1>3 DEF Apply, Invalidated
  <2> QED BY <2>1, StaleEffect DEF Keeps
<1>4. ASSUME NEW id \in Cell, doc' = Apply(doc, Deleted(id)) PROVE Keeps(doc, doc')
  <2>1. doc' = Without(doc, id) BY <1>4 DEF Apply, Deleted
  <2> QED BY <2>1, DeleteEffect DEF Keeps
<1> QED BY <1>1, <1>2, <1>3, <1>4 DEF Logged, Accepted, Refused

\* A step after which no run is live that was not, and a run that no longer is has
\* handed its cell over, lost it, or could not say that it ended.
LEMMA KeepsDocInv ==
  ASSUME DocInv, Keeps(doc, doc'), UNCHANGED mirrored,
         delivered \subseteq delivered', delivered' \subseteq Cell,
         unsaid \subseteq unsaid', unsaid' \subseteq Run,
         \A s \in Run : /\ run'[s].cell = run[s].cell /\ run'[s].runner = run[s].runner
                        /\ run'[s].pc # "idle" => run[s].pc # "idle"
                        /\ Live(s)' => Live(s)
                        /\ Live(s) /\ ~Live(s)' =>
                             \/ run[s].cell \in delivered' \/ s \in unsaid'
                             \/ ~Has(doc', run[s].cell),
         \A c \in delivered' \ delivered :
           /\ mirrored
           /\ Has(doc, c) => CellOf(doc, c).kind # "shell" /\ CellOf(doc, c).run \in Run
  PROVE  DocInv'
<1> DEFINE had(x) == Has(doc, x) /\ CellOf(doc', x).run = CellOf(doc, x).run
                     /\ CellOf(doc', x).kind = CellOf(doc, x).kind
                     /\ (CellOf(doc', x).state = "running" <=> CellOf(doc, x).state = "running")
<1>1. \A x : Has(doc', x) => had(x) BY DEF Keeps
<1>2. DocTyped' BY DEF DocInv, DocTyped, Keeps
<1>3. RunnersFit' BY <1>1 DEF DocInv, RunnersFit
<1>4. DeliveredFit' BY <1>1 DEF DocInv, DeliveredFit
<1>5. LiveRunIsCurrent' BY <1>1 DEF DocInv, LiveRunIsCurrent
<1>6. LiveRunShows' BY <1>1 DEF DocInv, LiveRunShows
<1>7. SpinnersAreLive'
  <2>1. ASSUME NEW c, Has(doc', c), CellOf(doc', c).state = "running"
        PROVE  \/ c \in delivered' \/ CellOf(doc', c).run \in unsaid'
               \/ \E r \in Run : Live(r)' /\ run'[r].cell = c /\ CellOf(doc', c).run = r
    <3>1. had(c) BY <1>1, <2>1
    <3> QED BY <2>1, <3>1 DEF DocInv, SpinnersAreLive
  <2> QED BY <2>1 DEF SpinnersAreLive
<1> QED BY <1>2, <1>3, <1>4, <1>5, <1>6, <1>7 DEF DocInv

\* A step of one run, whose record becomes rec.
LEMMA OneRunKeeps ==
  ASSUME Inv, DocInv, Keeps(doc, doc'), UNCHANGED <<mirrored, delivered>>,
         unsaid \subseteq unsaid', unsaid' \subseteq Run,
         NEW r \in Run, run[r].pc # "idle",
         NEW rec, run' = [run EXCEPT ![r] = rec],
         rec.cell = run[r].cell, rec.runner = run[r].runner,
         rec.pc \in {"running", "invalidating", "writing", "finishing"} => Live(r),
         rec.pc \in Stage \ {"started", "idle", "claimed"},
         Live(r) /\ rec.pc \in {"ending", "done"} =>
           r \in unsaid' \/ ~Has(doc', run[r].cell)
  PROVE  DocInv'
<1>1. run'[r] = rec /\ \A s \in Run : s # r => run'[s] = run[s]
  BY DEF Inv, RunsTyped
<1>2. \A s \in Run : /\ run'[s].cell = run[s].cell /\ run'[s].runner = run[s].runner
                     /\ run'[s].pc # "idle" => run[s].pc # "idle"
                     /\ Live(s)' => Live(s)
                     /\ Live(s) /\ ~Live(s)' =>
                          \/ run[s].cell \in delivered' \/ s \in unsaid'
                          \/ ~Has(doc', run[s].cell)
  BY <1>1 DEF Live, Stage
<1> QED BY <1>2, KeepsDocInv DEF DocInv, DocTyped

\* An end that the log takes.
LEMMA FinishEffect ==
  ASSUME DocTyped, NEW id \in Cell, NEW r \in Run \cup {NoRun},
         NEW status \in {"ok", "error", "interrupted"},
         doc' = Apply(doc, Finished(id, r, status))
  PROVE  /\ doc' \in Seq(CellRecord) /\ Distinct(doc')
         /\ \A x : /\ Has(doc', x) <=> Has(doc, x)
                   /\ Has(doc, x) /\ x # id => CellOf(doc', x) = CellOf(doc, x)
         /\ Has(doc, id) =>
              /\ CellOf(doc', id).run = CellOf(doc, id).run
              /\ CellOf(doc', id).kind = CellOf(doc, id).kind
              /\ ~Superseded(CellOf(doc, id), r) => CellOf(doc', id).state # "running"
              /\ Superseded(CellOf(doc, id), r) =>
                   CellOf(doc', id).state = CellOf(doc, id).state
<1> DEFINE c == CellOf(doc, id)
           c2 == IF Superseded(c, r) THEN c ELSE [c EXCEPT !.state = status]
<1>1. doc' = Update(doc, id, c2) BY DEF Apply, Finished
<1>2. ASSUME Has(doc, id)
      PROVE  /\ c2 \in CellRecord /\ c2.id = id
             /\ c2.run = c.run /\ c2.kind = c.kind
             /\ ~Superseded(c, r) => c2.state # "running"
             /\ Superseded(c, r) => c2.state = c.state
  <2>1. c \in CellRecord /\ c.id = id BY <1>2, FoundCell DEF DocTyped
  <2> HIDE DEF c
  <2> QED BY <2>1 DEF CellRecord, State
<1> HIDE DEF c2
<1>3. /\ doc' \in Seq(CellRecord) /\ Distinct(doc')
      /\ \A x : /\ Has(doc', x) <=> Has(doc, x)
                /\ Has(doc, x) => CellOf(doc', x) = IF x = id THEN c2 ELSE CellOf(doc, x)
  BY <1>1, <1>2, UpdateEffect DEF DocTyped
<1> QED BY <1>2, <1>3

\* handleCellRun: a claimed cell shows nothing of it yet.
LEMMA ClaimDocInv == ASSUME Inv, DocInv, NEW r \in Run, NEW c \in Cell, Claim(r, c) PROVE DocInv'
<1> DEFINE rec == [run[r] EXCEPT !.pc = "claimed", !.cell = c, !.runner = RunnerOf(c)]
<1>1. run[r] \in RunRecord /\ run[r].pc = "idle" BY DEF Inv, RunsTyped, Claim, NotAsked
<1>2. rec.pc = "claimed" /\ rec.cell = c /\ rec.runner = RunnerOf(c) BY <1>1 DEF RunRecord
<1>3. run'[r] = rec /\ \A s \in Run : s # r => run'[s] = run[s] BY DEF Inv, RunsTyped, Claim
<1> HIDE DEF rec
<1>4. \A s \in Run : /\ Live(s)' <=> Live(s)
                     /\ Live(s) => run'[s] = run[s]
  BY <1>1, <1>2, <1>3 DEF Live
<1>5. UNCHANGED <<doc, delivered, mirrored, unsaid>> BY DEF Claim
<1>6. RunnersFit'
  <2>1. RunnerOf(c) = "session" <=> mirrored /\ CellOf(doc, c).kind # "shell"
    BY DEF RunnerOf
  <2>2. ASSUME NEW s \in Run, run'[s].pc # "idle"
        PROVE  /\ run'[s].runner = "session" => mirrored
               /\ Has(doc, run'[s].cell) =>
                    (run'[s].runner = "session" <=>
                       mirrored /\ CellOf(doc, run'[s].cell).kind # "shell")
    <3>1. CASE s = r BY <1>2, <1>3, <2>1, <3>1
    <3>2. CASE s # r BY <1>3, <2>2, <3>2 DEF DocInv, RunnersFit
    <3> QED BY <3>1, <3>2
  <2> QED BY <1>5, <2>2 DEF RunnersFit
<1>7. DocTyped' /\ DeliveredFit' BY <1>5 DEF DocInv, DocTyped, DeliveredFit
<1>8. LiveRunIsCurrent' /\ LiveRunShows'
  BY <1>4, <1>5 DEF DocInv, LiveRunIsCurrent, LiveRunShows
<1>9. SpinnersAreLive' BY <1>4, <1>5 DEF DocInv, SpinnersAreLive
<1> QED BY <1>6, <1>7, <1>8, <1>9 DEF DocInv

\* run_started: the cell shows the run, which no other live run's does.
LEMMA StartDocInv == ASSUME Inv, DocInv, NEW r \in Run, Start(r) PROVE DocInv'
<1>1. CASE Refused /\ Goto(r, "done")
  <2> DEFINE rec == [run[r] EXCEPT !.pc = "done"]
  <2>1. rec.cell = run[r].cell /\ rec.runner = run[r].runner /\ rec.pc = "done"
    BY AtStage DEF Stage
  <2>2. run' = [run EXCEPT ![r] = rec] BY <1>1 DEF Goto, Inv, RunsTyped
  <2> HIDE DEF rec
  <2>3. /\ UNCHANGED <<doc, mirrored, delivered, unsaid>> /\ run[r].pc = "claimed"
    BY <1>1 DEF Start, Refused
  <2>4. Keeps(doc, doc') BY <2>3, LogKeeps DEF DocInv
  <2>5. ~Live(r) BY <2>3 DEF Live
  <2> QED BY <2>1, <2>2, <2>3, <2>4, <2>5, OneRunKeeps DEF Stage, DocInv, DocTyped
<1>2. CASE Accepted(Started(run[r].cell, r)) /\ Goto(r, "started")
  <2> DEFINE id == run[r].cell
             c == CellOf(doc, id)
             c2 == [c EXCEPT !.outs = <<>>, !.run = r, !.state = "running"]
             rec == [run[r] EXCEPT !.pc = "started"]
  <2>1. doc' = Update(doc, id, c2) BY <1>2 DEF Accepted, Apply, Started
  <2>2. ASSUME Has(doc, id)
        PROVE  /\ c2 \in CellRecord /\ c2.id = id
               /\ c2.run = r /\ c2.kind = c.kind /\ c2.state = "running"
    <3>1. c \in CellRecord /\ c.id = id BY <2>2, FoundCell DEF DocInv, DocTyped
    <3>2. <<>> \in Seq(Run \cup {NoRun}) /\ r \in Run \cup {NoRun} OBVIOUS
    <3> HIDE DEF c
    <3> QED BY <3>1, <3>2 DEF CellRecord, State
  <2>3. rec.cell = id /\ rec.runner = run[r].runner /\ rec.pc = "started"
    BY AtStage DEF Stage
  <2>4. run'[r] = rec /\ \A s \in Run : s # r => run'[s] = run[s]
    BY <1>2 DEF Goto, Inv, RunsTyped
  <2> HIDE DEF c2, rec
  <2>5. /\ doc' \in Seq(CellRecord) /\ Distinct(doc')
        /\ \A x : /\ Has(doc', x) <=> Has(doc, x)
                  /\ Has(doc, x) => CellOf(doc', x) = IF x = id THEN c2 ELSE CellOf(doc, x)
    BY <2>1, <2>2, UpdateEffect DEF DocInv, DocTyped
  <2>6. /\ UNCHANGED <<mirrored, delivered, unsaid>> /\ run[r].pc = "claimed" /\ id \in Cell
        /\ \A s \in Run : Live(s) /\ s # r => run[s].cell # id
    BY DEF Start, Inv, RunsTyped, HoldersClaim, Active, Live
  <2>7. \A s \in Run : /\ run'[s].cell = run[s].cell /\ run'[s].runner = run[s].runner
                       /\ run'[s].pc # "idle" => run[s].pc # "idle"
                       /\ Live(s)' <=> (Live(s) \/ s = r)
    BY <2>3, <2>4, <2>6 DEF Live
  <2>8. DocTyped' BY <2>5, <2>6 DEF DocInv, DocTyped
  <2>9. \A x : Has(doc, x) =>
          /\ CellOf(doc', x).kind = CellOf(doc, x).kind
          /\ CellOf(doc', x).run \in {CellOf(doc, x).run, r}
    BY <2>2, <2>5
  <2>10. RunnersFit' BY <2>5, <2>6, <2>7, <2>9 DEF DocInv, RunnersFit
  <2>11. DeliveredFit' BY <2>5, <2>6, <2>9 DEF DocInv, DeliveredFit
  <2>12. ASSUME NEW s \in Run, Live(s)', Has(doc', run'[s].cell)
         PROVE  /\ CellOf(doc', run'[s].cell).run = s
                /\ run'[s].runner # "session" => CellOf(doc', run'[s].cell).state = "running"
    <3>1. CASE s = r BY <2>2, <2>5, <2>7, <2>12, <3>1
    <3>2. CASE s # r
      <4>1. Live(s) /\ Has(doc, run[s].cell) /\ run[s].cell # id
        BY <2>5, <2>6, <2>7, <2>12, <3>2
      <4>2. CellOf(doc', run[s].cell) = CellOf(doc, run[s].cell) BY <2>5, <4>1
      <4> QED BY <2>7, <4>1, <4>2 DEF DocInv, LiveRunIsCurrent, LiveRunShows
    <3> QED BY <3>1, <3>2
  <2>13. LiveRunIsCurrent' /\ LiveRunShows' BY <2>12 DEF LiveRunIsCurrent, LiveRunShows
  <2>14. ASSUME NEW x, Has(doc', x), CellOf(doc', x).state = "running"
         PROVE  \/ x \in delivered' \/ CellOf(doc', x).run \in unsaid'
                \/ \E s \in Run : Live(s)' /\ run'[s].cell = x /\ CellOf(doc', x).run = s
    <3>1. CASE x = id BY <2>2, <2>5, <2>7, <2>14, <3>1
    <3>2. CASE x # id
      BY <2>5, <2>6, <2>7, <2>14, <3>2 DEF DocInv, SpinnersAreLive
    <3> QED BY <3>1, <3>2
  <2>15. SpinnersAreLive' BY <2>14 DEF SpinnersAreLive
  <2> QED BY <2>8, <2>10, <2>11, <2>13, <2>15 DEF DocInv
<1> QED BY <1>1, <1>2 DEF Start

\* The log takes or refuses the end of a run.
LEMMA WriteFinishDocInv == ASSUME Inv, DocInv, NEW r \in Run, WriteFinish(r) PROVE DocInv'
<1> DEFINE id == run[r].cell
           rec == [run[r] EXCEPT !.pc = AfterFinish(r), !.status = "ok"]
<1>1. /\ run[r] \in RunRecord /\ run[r].pc = "finishing" /\ id \in Cell
      /\ UNCHANGED <<mirrored, delivered>>
  BY DEF Inv, RunsTyped, WriteFinish
<1>2. rec.cell = id /\ rec.runner = run[r].runner /\ rec.pc \in {"ending", "done"}
  BY <1>1 DEF RunRecord, AfterFinish
<1>3. run' = [run EXCEPT ![r] = rec] BY DEF WriteFinish
<1>4. run'[r] = rec /\ \A s \in Run : s # r => run'[s] = run[s] BY <1>3 DEF Inv, RunsTyped
<1> HIDE DEF rec
<1>5. CASE Refused /\ unsaid' = unsaid \cup {r}
  <2>1. Keeps(doc, doc') BY <1>5, LogKeeps DEF DocInv, Refused
  <2>2. unsaid \subseteq unsaid' /\ unsaid' \subseteq Run /\ r \in unsaid'
    BY <1>5 DEF DocInv, DocTyped
  <2> QED BY <1>1, <1>2, <1>3, <2>1, <2>2, OneRunKeeps DEF Stage
<1>6. CASE Accepted(Finished(id, r, run[r].status)) /\ UNCHANGED unsaid
  <2>1. /\ doc' = Apply(doc, Finished(id, r, run[r].status))
        /\ run[r].status \in {"ok", "error", "interrupted"} /\ r \in Run \cup {NoRun}
    BY <1>1, <1>6 DEF Accepted, RunRecord
  <2>2. /\ doc' \in Seq(CellRecord) /\ Distinct(doc')
        /\ \A x : /\ Has(doc', x) <=> Has(doc, x)
                  /\ Has(doc, x) /\ x # id => CellOf(doc', x) = CellOf(doc, x)
        /\ Has(doc, id) =>
             /\ CellOf(doc', id).run = CellOf(doc, id).run
             /\ CellOf(doc', id).kind = CellOf(doc, id).kind
             /\ ~Superseded(CellOf(doc, id), r) => CellOf(doc', id).state # "running"
    BY <1>1, <2>1, FinishEffect DEF DocInv
  <2>3. Live(r) BY <1>1 DEF Live
  <2>4. Has(doc, id) => CellOf(doc', id).state # "running"
    <3>1. Has(doc, id) => CellOf(doc, id).run = r BY <2>3 DEF DocInv, LiveRunIsCurrent
    <3> QED BY <2>2, <3>1 DEF Superseded
  <2>5. \A s \in Run : /\ run'[s].cell = run[s].cell /\ run'[s].runner = run[s].runner
                       /\ run'[s].pc # "idle" => run[s].pc # "idle"
                       /\ Live(s)' <=> Live(s) /\ s # r
    BY <1>1, <1>2, <1>4 DEF Live
  <2>6. \A s \in Run : Live(s) /\ s # r => run[s].cell # id
    BY <2>3 DEF Inv, HoldersClaim, Active, Live
  <2>7. \A x : Has(doc, x) => /\ CellOf(doc', x).kind = CellOf(doc, x).kind
                              /\ CellOf(doc', x).run = CellOf(doc, x).run
    BY <2>2
  <2>8. DocTyped' BY <1>1, <1>6, <2>2 DEF DocInv, DocTyped
  <2>9. RunnersFit' BY <1>1, <2>2, <2>5, <2>7 DEF DocInv, RunnersFit
  <2>10. DeliveredFit' BY <1>1, <2>2, <2>7 DEF DocInv, DeliveredFit
  <2>11. LiveRunIsCurrent' BY <2>2, <2>5, <2>7 DEF DocInv, LiveRunIsCurrent
  <2>12. LiveRunShows' BY <2>2, <2>5, <2>6 DEF DocInv, LiveRunShows
  <2>13. ASSUME NEW x, Has(doc', x), CellOf(doc', x).state = "running"
         PROVE  \/ x \in delivered' \/ CellOf(doc', x).run \in unsaid'
                \/ \E s \in Run : Live(s)' /\ run'[s].cell = x /\ CellOf(doc', x).run = s
    <3>1. x # id /\ Has(doc, x) /\ CellOf(doc', x) = CellOf(doc, x) BY <2>2, <2>4, <2>13
    <3>2. \/ x \in delivered \/ CellOf(doc, x).run \in unsaid
          \/ \E s \in Run : Live(s) /\ run[s].cell = x /\ CellOf(doc, x).run = s
      BY <2>13, <3>1 DEF DocInv, SpinnersAreLive
    <3> QED BY <1>1, <1>6, <2>5, <3>1, <3>2
  <2>14. SpinnersAreLive' BY <2>13 DEF SpinnersAreLive
  <2> QED BY <2>8, <2>9, <2>10, <2>11, <2>12, <2>14 DEF DocInv
<1> QED BY <1>5, <1>6 DEF WriteFinish, LoggedEnd

\* The projector settles a cell that was sent, which no runner of ours has.
LEMMA SettlesDocInv ==
  ASSUME Inv, DocInv, NEW c \in Cell, NEW status \in {"ok", "error", "interrupted"},
         SessionSettles(c, status)
  PROVE  DocInv'
<1> DEFINE shown == {d.run : d \in {d \in ToSet(doc) : d.id = c}}
<1>1. /\ c \in delivered /\ delivered' = delivered \ {c}
      /\ UNCHANGED <<mirrored, run>>
  BY DEF SessionSettles
<1>2. Has(doc, c) => CellOf(doc, c).run \in shown
  <2>1. ASSUME Has(doc, c) PROVE CellOf(doc, c) \in ToSet(doc) /\ CellOf(doc, c).id = c
    <3>1. IndexOfCell(doc, c) \in 1..Len(doc) /\ CellOf(doc, c) = doc[IndexOfCell(doc, c)]
          /\ CellOf(doc, c).id = c
      BY <2>1, FoundCell DEF DocInv, DocTyped
    <3>2. DOMAIN doc = 1..Len(doc) BY DEF DocInv, DocTyped
    <3> QED BY <3>1, <3>2 DEF ToSet
  <2> QED BY <2>1
<1> HIDE DEF shown
<1>3. \A s \in Run : Live(s)' <=> Live(s) BY <1>1 DEF Live
<1>4. CASE Refused /\ unsaid' = unsaid \cup shown
  <2>1. UNCHANGED doc BY <1>4 DEF Refused
  <2>2. unsaid' \subseteq Run
    <3>1. ASSUME NEW d \in ToSet(doc), d.id = c PROVE d.run \in Run
      <4>1. PICK i \in 1..Len(doc) : d = doc[i]
        <5>1. DOMAIN doc = 1..Len(doc) BY DEF DocInv, DocTyped
        <5> QED BY <5>1 DEF ToSet
      <4>2. Has(doc, c) /\ CellOf(doc, c) = d
        BY <3>1, <4>1, FoundById DEF DocInv, DocTyped
      <4> QED BY <1>1, <4>2 DEF DocInv, DeliveredFit
    <3>2. shown \subseteq Run BY <3>1 DEF shown
    <3> QED BY <1>4, <3>2 DEF DocInv, DocTyped
  <2>3. DocTyped' BY <1>1, <2>1, <2>2 DEF DocInv, DocTyped
  <2>4. RunnersFit' /\ DeliveredFit' /\ LiveRunIsCurrent' /\ LiveRunShows'
    BY <1>1, <1>3, <2>1 DEF DocInv, RunnersFit, DeliveredFit, LiveRunIsCurrent, LiveRunShows
  <2>5. SpinnersAreLive' BY <1>1, <1>2, <1>3, <1>4, <2>1 DEF DocInv, SpinnersAreLive
  <2> QED BY <2>3, <2>4, <2>5 DEF DocInv
<1>5. CASE Accepted(Finished(c, NoRun, status)) /\ UNCHANGED unsaid
  <2>1. doc' = Apply(doc, Finished(c, NoRun, status)) BY <1>5 DEF Accepted
  <2>2. /\ doc' \in Seq(CellRecord) /\ Distinct(doc')
        /\ \A x : /\ Has(doc', x) <=> Has(doc, x)
                  /\ Has(doc, x) /\ x # c => CellOf(doc', x) = CellOf(doc, x)
        /\ Has(doc, c) =>
             /\ CellOf(doc', c).run = CellOf(doc, c).run
             /\ CellOf(doc', c).kind = CellOf(doc, c).kind
             /\ ~Superseded(CellOf(doc, c), NoRun) => CellOf(doc', c).state # "running"
    BY <2>1, FinishEffect DEF DocInv
  <2>3. Has(doc, c) => CellOf(doc', c).state # "running" BY <2>2 DEF Superseded
  <2>4. \A x : Has(doc, x) => /\ CellOf(doc', x).kind = CellOf(doc, x).kind
                              /\ CellOf(doc', x).run = CellOf(doc, x).run
    BY <2>2
  <2>5. DocTyped' BY <1>1, <1>5, <2>2 DEF DocInv, DocTyped
  <2>6. RunnersFit' /\ DeliveredFit' /\ LiveRunIsCurrent'
    BY <1>1, <1>3, <2>2, <2>4 DEF DocInv, RunnersFit, DeliveredFit, LiveRunIsCurrent
  <2>7. ASSUME NEW s \in Run, Live(s), run[s].runner # "session", Has(doc, run[s].cell)
        PROVE  run[s].cell # c
    BY <1>1, <2>7 DEF DocInv, RunnersFit, DeliveredFit, Live
  <2>8. LiveRunShows' BY <1>1, <1>3, <2>2, <2>7 DEF DocInv, LiveRunShows
  <2>9. ASSUME NEW x, Has(doc', x), CellOf(doc', x).state = "running"
        PROVE  \/ x \in delivered' \/ CellOf(doc', x).run \in unsaid'
               \/ \E s \in Run : Live(s)' /\ run'[s].cell = x /\ CellOf(doc', x).run = s
    <3>1. x # c /\ Has(doc, x) /\ CellOf(doc', x) = CellOf(doc, x) BY <2>2, <2>3, <2>9
    <3>2. \/ x \in delivered \/ CellOf(doc, x).run \in unsaid
          \/ \E s \in Run : Live(s) /\ run[s].cell = x /\ CellOf(doc, x).run = s
      BY <2>9, <3>1 DEF DocInv, SpinnersAreLive
    <3> QED BY <1>1, <1>3, <1>5, <3>1, <3>2
  <2>10. SpinnersAreLive' BY <2>9 DEF SpinnersAreLive
  <2> QED BY <2>5, <2>6, <2>8, <2>10 DEF DocInv
<1> QED BY <1>4, <1>5 DEF SessionSettles, LoggedEnd, shown

\* sendPromptCell hands the cell over to the CLI.
LEMMA DeliversDocInv == ASSUME Inv, DocInv, NEW r \in Run, SessionDelivers(r) PROVE DocInv'
<1> DEFINE rec == [run[r] EXCEPT !.pc = "ending"]
<1>1. rec.cell = run[r].cell /\ rec.runner = run[r].runner /\ rec.pc = "ending"
  BY AtStage DEF Stage
<1>2. run'[r] = rec /\ \A s \in Run : s # r => run'[s] = run[s]
  BY DEF Inv, RunsTyped, SessionDelivers, Goto
<1> HIDE DEF rec
<1>3. /\ UNCHANGED <<doc, mirrored, unsaid>> /\ delivered' = delivered \cup {run[r].cell}
      /\ run[r].pc = "running" /\ run[r].runner = "session" /\ run[r].cell \in Cell
  BY DEF SessionDelivers, Inv, RunsTyped
<1>4. Keeps(doc, doc') BY <1>3, LogKeeps DEF DocInv
<1>5. /\ mirrored
      /\ Has(doc, run[r].cell) =>
           CellOf(doc, run[r].cell).kind # "shell" /\ CellOf(doc, run[r].cell).run \in Run
  BY <1>3 DEF DocInv, RunnersFit, LiveRunIsCurrent, Live
<1>6. \A s \in Run : /\ run'[s].cell = run[s].cell /\ run'[s].runner = run[s].runner
                     /\ run'[s].pc # "idle" => run[s].pc # "idle"
                     /\ Live(s)' => Live(s)
                     /\ Live(s) /\ ~Live(s)' => run[s].cell \in delivered'
  BY <1>1, <1>2, <1>3 DEF Live
<1> QED BY <1>3, <1>4, <1>5, <1>6, KeepsDocInv DEF DocInv, DocTyped

\* What else a run's goroutine does changes its stage and what it will write.
LEMMA OneRunDocInv ==
  ASSUME Inv, DocInv, NEW r \in Run,
         \/ ReadBelow(r) \/ InvalidateBelow(r) \/ Exit(r)
         \/ \E status \in {"ok", "error"} : SessionAnswersItself(r, status)
         \/ PromptGone(r) \/ WriteOutput(r) \/ EndRun(r)
  PROVE  DocInv'
<1>1. /\ UNCHANGED <<mirrored, delivered, unsaid>> /\ run[r].pc # "idle"
      /\ unsaid \subseteq unsaid' /\ unsaid' \subseteq Run
      /\ run[r] \in RunRecord /\ run[r].cell \in Cell
  BY DEF ReadBelow, InvalidateBelow, Exit, CommandExits, PromptEnds, SessionAnswersItself,
         PromptGone, WriteOutput, EndRun, Inv, RunsTyped, DocInv, DocTyped
<1>2. Keeps(doc, doc')
  BY <1>1, LogKeeps
  DEF ReadBelow, InvalidateBelow, Exit, CommandExits, PromptEnds, SessionAnswersItself,
      PromptGone, WriteOutput, EndRun, DocInv
<1>3. PICK rec :
        /\ run' = [run EXCEPT ![r] = rec]
        /\ rec.cell = run[r].cell /\ rec.runner = run[r].runner
        /\ rec.pc \in {"running", "invalidating", "writing", "finishing"} => Live(r)
        /\ rec.pc \in Stage \ {"started", "idle", "claimed"}
        /\ Live(r) /\ rec.pc \in {"ending", "done"} => ~Has(doc', run[r].cell)
  <2> DEFINE Fits(rec) ==
        /\ run' = [run EXCEPT ![r] = rec]
        /\ rec.cell = run[r].cell /\ rec.runner = run[r].runner
        /\ rec.pc \in {"running", "invalidating", "writing", "finishing"} => Live(r)
        /\ rec.pc \in Stage \ {"started", "idle", "claimed"}
        /\ Live(r) /\ rec.pc \in {"ending", "done"} => ~Has(doc', run[r].cell)
  <2>1. CASE ReadBelow(r)
    <3> DEFINE below == FinishedBelow(run[r].cell)
               rec == [run[r] EXCEPT !.below = below,
                                     !.pc = IF below = {} THEN "running" ELSE "invalidating"]
    <3>1. run' = [run EXCEPT ![r] = rec] /\ Live(r)
      BY <2>1 DEF ReadBelow, Inv, RunsTyped, Live
    <3> HIDE DEF below
    <3>2. /\ rec.cell = run[r].cell /\ rec.runner = run[r].runner
          /\ rec.pc \in {"running", "invalidating"}
      BY <1>1 DEF RunRecord
    <3> HIDE DEF rec
    <3>3. Fits(rec) BY <3>1, <3>2 DEF Stage
    <3> QED BY <3>3
  <2>2. CASE InvalidateBelow(r)
    <3> DEFINE rec == [run[r] EXCEPT !.pc = "running", !.below = {}]
    <3>1. run' = [run EXCEPT ![r] = rec] /\ Live(r)
      BY <2>2 DEF InvalidateBelow, Inv, RunsTyped, Live
    <3>2. rec.cell = run[r].cell /\ rec.runner = run[r].runner /\ rec.pc = "running"
      BY <1>1 DEF RunRecord
    <3> HIDE DEF rec
    <3>3. Fits(rec) BY <3>1, <3>2 DEF Stage
    <3> QED BY <3>3
  <2>3. ASSUME NEW status, NEW text, Ends(r, status, text), Live(r)
        PROVE  \E rec : Fits(rec)
    <3> DEFINE rec == [run[r] EXCEPT !.pc = "writing", !.status = status, !.text = text]
    <3>1. run' = [run EXCEPT ![r] = rec] BY <2>3 DEF Ends, Inv, RunsTyped
    <3>2. rec.cell = run[r].cell /\ rec.runner = run[r].runner /\ rec.pc = "writing"
      BY <1>1 DEF RunRecord
    <3> HIDE DEF rec
    <3>3. Fits(rec) BY <2>3, <3>1, <3>2 DEF Stage
    <3> QED BY <3>3
  <2>4. CASE WriteOutput(r)
    <3> DEFINE rec == [run[r] EXCEPT !.pc = "finishing", !.text = FALSE]
    <3>1. run' = [run EXCEPT ![r] = rec] /\ Live(r)
      BY <2>4 DEF WriteOutput, Inv, RunsTyped, Live
    <3>2. rec.cell = run[r].cell /\ rec.runner = run[r].runner /\ rec.pc = "finishing"
      BY <1>1 DEF RunRecord
    <3> HIDE DEF rec
    <3>3. Fits(rec) BY <3>1, <3>2 DEF Stage
    <3> QED BY <3>3
  <2>5. ASSUME NEW pc \in {"ending", "done"}, Goto(r, pc),
               Live(r) => ~Has(doc', run[r].cell)
        PROVE  \E rec : Fits(rec)
    <3> DEFINE rec == [run[r] EXCEPT !.pc = pc]
    <3>1. run' = [run EXCEPT ![r] = rec] BY <2>5 DEF Goto, Inv, RunsTyped
    <3>2. rec.cell = run[r].cell /\ rec.runner = run[r].runner /\ rec.pc = pc
      BY <1>1 DEF RunRecord
    <3> HIDE DEF rec
    <3>3. Fits(rec) BY <2>5, <3>1, <3>2 DEF Stage
    <3> QED BY <3>3
  <2>6. CASE PromptGone(r) BY <2>5, <2>6 DEF PromptGone
  <2>7. CASE EndRun(r) BY <2>5, <2>7 DEF EndRun, Live
  <2>8. CASE Exit(r) BY <2>3, <2>8 DEF Exit, CommandExits, PromptEnds, Live
  <2>9. ASSUME NEW status \in {"ok", "error"}, SessionAnswersItself(r, status)
        PROVE  \E rec : Fits(rec)
    BY <2>3, <2>9 DEF SessionAnswersItself, Live
  <2>10. \E rec : Fits(rec)
    <3> DEFINE Goal == \E rec : Fits(rec)
    <3>1. /\ ReadBelow(r) => Goal
          /\ InvalidateBelow(r) => Goal
          /\ WriteOutput(r) => Goal
          /\ PromptGone(r) => Goal
      BY <2>1, <2>2, <2>4, <2>6
    <3>2. EndRun(r) => Goal BY <2>7
    <3>3. Exit(r) => Goal BY <2>8
    <3>4. \A status \in {"ok", "error"} : SessionAnswersItself(r, status) => Goal BY <2>9
    <3> HIDE DEF Goal
    <3>5. Goal BY <3>1, <3>2, <3>3, <3>4, Zenon
    <3> QED BY <3>5 DEF Goal
  <2> QED BY <2>10
<1> QED BY <1>1, <1>2, <1>3, OneRunKeeps

\* A step after which every run is where it was.
LEMMA NoRunMoves ==
  ASSUME Inv, DocInv, Keeps(doc, doc'), UNCHANGED <<mirrored, delivered, unsaid>>,
         \A s \in Run : /\ run'[s].pc = run[s].pc /\ run'[s].cell = run[s].cell
                        /\ run'[s].runner = run[s].runner
  PROVE  DocInv'
<1>1. \A s \in Run : Live(s)' <=> Live(s) BY DEF Live
<1> QED BY <1>1, KeepsDocInv DEF DocInv, DocTyped

LEMMA InterruptDocInv ==
  ASSUME Inv, DocInv, InterruptAll \/ \E c \in Cell : Interrupt(c) PROVE DocInv'
<1>1. \A s \in Run : /\ run'[s].pc = run[s].pc /\ run'[s].cell = run[s].cell
                     /\ run'[s].runner = run[s].runner
  <2>1. CASE InterruptAll BY <2>1 DEF InterruptAll, Inv, RunsTyped, RunRecord
  <2>2. ASSUME NEW c \in Cell, Interrupt(c)
        PROVE  \A s \in Run : /\ run'[s].pc = run[s].pc /\ run'[s].cell = run[s].cell
                              /\ run'[s].runner = run[s].runner
    <3>1. run' = [run EXCEPT ![claim[c]] = [run[claim[c]] EXCEPT !.stopped = TRUE]]
      BY <2>2 DEF Interrupt, Inv, RunsTyped
    <3> QED BY <3>1 DEF Inv, RunsTyped, RunRecord
  <2> QED BY <2>1, <2>2
<1>2. UNCHANGED <<doc, mirrored, delivered, unsaid>> BY DEF InterruptAll, Interrupt
<1> QED BY <1>1, <1>2, LogKeeps, NoRunMoves DEF DocInv

\* The cells in some order, one time each, and none of them running.
LEMMA InitDocInv == ASSUME Init PROVE DocInv
<1>1. SetToSeqs(Cell) # {}
  <2>1. PICK f \in Bijection(1..Cardinality(Cell), Cell) : TRUE
    BY FS_CardinalityType DEF ExistsBijection
  <2>2. f \in SetToSeqs(Cell) BY <2>1 DEF Bijection, Injection, IsInjective, SetToSeqs
  <2> QED BY <2>2
<1>2. Order \in SetToSeqs(Cell) BY <1>1 DEF Order
<1>3. Cardinality(Cell) \in Nat BY FS_CardinalityType
<1>4. /\ Order \in Seq(Cell)
      /\ \A i, j \in DOMAIN Order : Order[i] = Order[j] => i = j
  BY <1>2, <1>3 DEF SetToSeqs
<1>5. PICK kind \in [Cell -> {"shell", "prompt"}], state \in {"idle", "ok"} :
        doc = [i \in DOMAIN Order |->
                NewCell(Order[i], kind[Order[i]], CHOOSE s \in Source : TRUE, state)]
  BY DEF Init
<1>6. \A c \in Cell :
        /\ NewCell(c, kind[c], CHOOSE s \in Source : TRUE, state) \in CellRecord
        /\ NewCell(c, kind[c], CHOOSE s \in Source : TRUE, state).id = c
        /\ NewCell(c, kind[c], CHOOSE s \in Source : TRUE, state).state # "running"
  <2>1. (CHOOSE s \in Source : TRUE) \in Source OBVIOUS
  <2>2. <<>> \in Seq(Run \cup {NoRun}) OBVIOUS
  <2> QED BY <2>1, <2>2 DEF NewCell, CellRecord, Kind, State
<1>7. /\ doc \in Seq(CellRecord) /\ Len(doc) = Len(Order)
      /\ \A i \in 1..Len(doc) : doc[i].id = Order[i] /\ doc[i].state # "running"
  <2>1. Len(Order) \in Nat /\ DOMAIN Order = 1..Len(Order) /\ \A i \in 1..Len(Order) : Order[i] \in Cell
    BY <1>4
  <2> DEFINE new(c) == NewCell(c, kind[c], CHOOSE s \in Source : TRUE, state)
  <2>2. doc = [i \in 1..Len(Order) |-> new(Order[i])] BY <1>5, <2>1
  <2>3. \A c \in Cell : new(c) \in CellRecord /\ new(c).id = c /\ new(c).state # "running"
    BY <1>6
  <2> HIDE DEF new
  <2> QED BY <2>1, <2>2, <2>3
<1>8. Distinct(doc)
  <2>1. DOMAIN Order = 1..Len(doc) BY <1>4, <1>7
  <2> QED BY <1>4, <1>7, <2>1 DEF Distinct
<1>9. \A c : Has(doc, c) => CellOf(doc, c).state # "running" BY <1>7, FoundCell
<1>10. \A r \in Run : run[r].pc = "idle" /\ ~Live(r) BY DEF Init, NotAsked, Live
<1>11. delivered = {} /\ unsaid = {} /\ mirrored \in BOOLEAN BY DEF Init
<1> QED
  BY <1>7, <1>8, <1>9, <1>10, <1>11
  DEF DocInv, DocTyped, RunnersFit, DeliveredFit, LiveRunIsCurrent, LiveRunShows,
      SpinnersAreLive

\* One case per action.
LEMMA StepDocInv == ASSUME Inv, DocInv, [Next]_vars PROVE DocInv'
<1>1. ASSUME NEW r \in Run, PromptOutput(r) PROVE DocInv'
  <2>1. /\ Keeps(doc, doc') /\ UNCHANGED <<run, mirrored, delivered, unsaid>>
    BY <1>1, LogKeeps DEF PromptOutput, DocInv, Inv, RunsTyped
  <2> QED BY <2>1, NoRunMoves
<1>2. ASSUME NEW c \in Cell, DeleteCell(c) PROVE DocInv'
  BY <1>2, LogKeeps, NoRunMoves DEF DeleteCell, DocInv
<1>3. CASE Close \/ UNCHANGED vars BY <1>3, LogKeeps, NoRunMoves DEF Close, vars, DocInv
<1>4. ASSUME NEW r \in Run, Progress(r) \/ Exit(r) PROVE DocInv'
  BY <1>4, StartDocInv, OneRunDocInv, DeliversDocInv, WriteFinishDocInv DEF Progress, OwnStep
<1> QED
  BY <1>1, <1>2, <1>3, <1>4, ClaimDocInv, OneRunDocInv, InterruptDocInv, SettlesDocInv
  DEF Next

LEMMA DocInvariance == Spec => [](Inv /\ DocInv)
<1>1. Init => Inv /\ DocInv BY InitInv, InitDocInv
<1>2. Inv /\ DocInv /\ [Next]_vars => (Inv /\ DocInv)' BY StepInv, StepDocInv
<1> QED BY <1>1, <1>2, PTL DEF Spec

\* A run keeps its cell and its runner until it is over.
LEMMA KeepsItsCell ==
  ASSUME Inv, [Next]_vars, NEW r \in Run, Active(r)
  PROVE  run'[r].cell = run[r].cell /\ run'[r].runner = run[r].runner
<1> USE DEF Inv, RunsTyped, RunRecord
<1>1. ASSUME NEW s \in Run, NEW c \in Cell, Claim(s, c)
      PROVE  run'[r].cell = run[r].cell /\ run'[r].runner = run[r].runner
  BY <1>1 DEF Claim, NotAsked, Active
<1>2. ASSUME NEW s \in Run, Progress(s)
      PROVE  run'[r].cell = run[r].cell /\ run'[r].runner = run[r].runner
  BY <1>2
  DEF Progress, OwnStep, Start, ReadBelow, InvalidateBelow, PromptGone, SessionDelivers,
      WriteOutput, WriteFinish, EndRun, Goto
<1>3. ASSUME NEW s \in Run,
             \/ Exit(s) \/ PromptOutput(s)
             \/ \E status \in {"ok", "error"} : SessionAnswersItself(s, status)
      PROVE  run'[r].cell = run[r].cell /\ run'[r].runner = run[r].runner
  BY <1>3 DEF Exit, CommandExits, PromptEnds, PromptOutput, SessionAnswersItself, Ends
<1>4. ASSUME NEW c \in Cell,
             \/ Interrupt(c) \/ DeleteCell(c)
             \/ \E status \in {"ok", "error", "interrupted"} : SessionSettles(c, status)
      PROVE  run'[r].cell = run[r].cell /\ run'[r].runner = run[r].runner
  BY <1>4 DEF Interrupt, DeleteCell, SessionSettles
<1>5. CASE InterruptAll \/ Close \/ UNCHANGED vars
  BY <1>5 DEF InterruptAll, Close, vars
<1> QED BY <1>1, <1>2, <1>3, <1>4, <1>5 DEF Next

------------------------------------------------------------------------------

\* The document stays a document, and a run that was asked for has a cell (nbDoc, nbRun).
THEOREM TypeCorrect == Spec => []TypeOK
<1>1. Init => store \in {"open", "closing", "closed"} BY DEF Init
<1>2. store \in {"open", "closing", "closed"} /\ [Next]_vars
        => (store \in {"open", "closing", "closed"})'
  <2> SUFFICES ASSUME store \in {"open", "closing", "closed"}, [Next]_vars
               PROVE  store' \in {store, "closing", "closed"}
    OBVIOUS
  <2>1. ASSUME NEW r \in Run, Progress(r) PROVE UNCHANGED store
    <3>1. CASE Start(r) BY <3>1 DEF Start
    <3>2. CASE ReadBelow(r) BY <3>2 DEF ReadBelow
    <3>3. CASE InvalidateBelow(r) BY <3>3 DEF InvalidateBelow
    <3>4. CASE PromptGone(r) \/ SessionDelivers(r) BY <3>4 DEF PromptGone, SessionDelivers
    <3>5. CASE WriteOutput(r) BY <3>5 DEF WriteOutput
    <3>6. CASE WriteFinish(r) \/ EndRun(r) BY <3>6 DEF WriteFinish, EndRun
    <3> QED BY <2>1, <3>1, <3>2, <3>3, <3>4, <3>5, <3>6 DEF Progress, OwnStep
  <2>2. ASSUME NEW r \in Run, Exit(r) PROVE UNCHANGED store
    BY <2>2 DEF Exit, CommandExits, PromptEnds
  <2>3. ASSUME NEW r \in Run, PromptOutput(r) PROVE UNCHANGED store
    BY <2>3 DEF PromptOutput
  <2>4. ASSUME NEW r \in Run, NEW c \in Cell, Claim(r, c) PROVE UNCHANGED store
    BY <2>4 DEF Claim
  <2>5. ASSUME NEW r \in Run, NEW status \in {"ok", "error"}, SessionAnswersItself(r, status)
        PROVE  UNCHANGED store
    BY <2>5 DEF SessionAnswersItself
  <2>6. ASSUME NEW c \in Cell, Interrupt(c) \/ DeleteCell(c) PROVE UNCHANGED store
    BY <2>6 DEF Interrupt, DeleteCell
  <2>7. ASSUME NEW c \in Cell, NEW status \in {"ok", "error", "interrupted"},
               SessionSettles(c, status)
        PROVE  UNCHANGED store
    BY <2>7 DEF SessionSettles
  <2>8. CASE InterruptAll \/ Close BY <2>8 DEF InterruptAll, Close
  <2>9. CASE UNCHANGED vars BY <2>9 DEF vars
  <2> QED BY <2>1, <2>2, <2>3, <2>4, <2>5, <2>6, <2>7, <2>8, <2>9 DEF Next
<1>3. Inv /\ DocInv /\ store \in {"open", "closing", "closed"} => TypeOK
  BY DEF Inv, RunsTyped, DocInv, DocTyped, TypeOK
<1> QED BY <1>1, <1>2, <1>3, DocInvariance, PTL DEF Spec

\* Nothing a run has still to write will be thrown away as a superseded run's
\* (applyEvent's check of the run id, beginRun).
THEOREM LiveRunsAreCurrent == Spec => []LiveRunIsCurrent
<1>1. DocInv => LiveRunIsCurrent BY DEF DocInv
<1> QED BY <1>1, DocInvariance, PTL

\* However runs, interrupts, deletions and a closing log interleave, a cell reads as
\* running only while it is run, or sent to a CLI, unless its end could not be logged
\* (handleCellRun, finishRun).
THEOREM NoSpinnerOutlivesItsRun == Spec => []RunningIsLive
<1>1. DocInv => RunningIsLive
  <2>1. ASSUME DocInv, NEW i \in DOMAIN doc
        PROVE  Has(doc, doc[i].id) /\ CellOf(doc, doc[i].id) = doc[i]
    <3>1. DOMAIN doc = 1..Len(doc) BY <2>1 DEF DocInv, DocTyped
    <3> QED BY <2>1, <3>1, FoundById DEF DocInv, DocTyped
  <2> QED BY <2>1 DEF DocInv, SpinnersAreLive, RunningIsLive
<1> QED BY <1>1, DocInvariance, PTL

\* No invalidation, late end or settled turn ends a run that is still going
\* (cells_invalidated and run_finished of applyEvent).
THEOREM OnlyRunsEndThemselves == Spec => RunsEndThemselves
<1>1. ASSUME Inv, DocInv, DocInv', [Next]_vars, NEW r \in Run,
             Live(r), Live(r)', run[r].runner # "session",
             Has(doc, run[r].cell), Has(doc', run[r].cell)
      PROVE  /\ CellOf(doc', run[r].cell).run = r
             /\ CellOf(doc', run[r].cell).state = "running"
  <2>1. run'[r].cell = run[r].cell /\ run'[r].runner = run[r].runner
    BY <1>1, KeepsItsCell DEF Live, Active
  <2> QED BY <1>1, <2>1 DEF DocInv, LiveRunIsCurrent, LiveRunShows
<1>2. Inv /\ DocInv /\ (Inv /\ DocInv)' /\ [Next]_vars =>
        [\A r \in Run :
           LET c == run[r].cell IN
           Live(r) /\ Live(r)' /\ run[r].runner # "session" /\ Has(doc, c) /\ Has(doc', c)
             => /\ CellOf(doc', c).run = r
                /\ CellOf(doc', c).state = "running"]_vars
  BY <1>1
<1> QED BY <1>2, DocInvariance, PTL DEF Spec, RunsEndThemselves

==============================================================================
