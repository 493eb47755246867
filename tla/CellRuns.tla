------------------------------- MODULE CellRuns -------------------------------
(***************************************************************************)
(* nb_run.go and the run loop of nb_agent.go: how a cell is claimed, run,  *)
(* interrupted and finished, against the document its events fold into.    *)
(*                                                                         *)
(* A run is one POST to /run: the handler claims the cell (beginRun), logs *)
(* run_started, invalidates the cells below, and starts a goroutine that   *)
(* logs what the run produced, its end, and releases the claim (endRun).   *)
(* Every log append is a step of its own, so requests, runs, edits and the *)
(* store's closing interleave between them.                                *)
(*                                                                         *)
(* A run's runner is a shell command, collectif's own agent loop           *)
(* ("prompt"), or, for the prompt cells of a notebook that mirrors a CLI   *)
(* session, that CLI ("session").  Only the length of the log's life is    *)
(* modelled, not the log: NotebookStore does that.                         *)
(***************************************************************************)
EXTENDS NotebookDoc, FiniteSets

CONSTANTS
  MaxOutputs,   \* bound: outputs of one cell
  MayClose,     \* the notebook may be released or the server shut down
  MayFail       \* the log may refuse an append (a full disk)

ASSUME RunsAssumption ==
  /\ IsFiniteSet(Cell) /\ Source # {}
  /\ MaxOutputs \in Nat
  /\ MayClose \in BOOLEAN /\ MayFail \in BOOLEAN

VARIABLES
  doc,         \* the document
  store,       \* "open", "closing" (runs interrupted), "closed"
  claim,       \* st.runs: the run that holds each cell, NoRun for none
  run,         \* each run: where it is, on which cell, how it ends
  delivered,   \* cells whose turn is the CLI's now
  mirrored,    \* Meta.SessionID: the notebook mirrors a CLI session
  unsaid       \* history: runs whose end the log refused to record

vars == <<doc, store, claim, run, delivered, mirrored, unsaid>>

------------------------------------------------------------------------------

NotAsked ==
  [pc |-> "idle", cell |-> NoCell, runner |-> "shell", stopped |-> FALSE, below |-> {},
   status |-> "ok", text |-> FALSE]

Stage == {"idle", "claimed", "started", "invalidating", "running",
          "writing", "finishing", "ending", "done"}

\* The run holds its cell: from beginRun to endRun.
Active(r) == run[r].pc \notin {"idle", "done"}

\* Between run_started and run_finished.
Live(r) ==
  run[r].pc \in {"started", "invalidating", "running", "writing", "finishing"}

\* The runner handleCellRun picks.
RunnerOf(c) ==
  CASE CellOf(doc, c).kind = "shell" -> "shell"
    [] CellOf(doc, c).kind # "shell" /\ mirrored -> "session"
    [] OTHER -> "prompt"

Goto(r, pc) == run' = [run EXCEPT ![r].pc = pc]

\* One Append: it is folded in, or the store is closed or its disk refuses and
\* the caller gets an error (which runs only report in the server's log).
Accepted(e) == store # "closed" /\ doc' = Apply(doc, e)
Refused == (store = "closed" \/ MayFail) /\ UNCHANGED doc
Logged(e) == Accepted(e) \/ Refused

\* ... of the event that ends the run or runs in ended.
LoggedEnd(e, ended) ==
  \/ Accepted(e) /\ UNCHANGED unsaid
  \/ Refused /\ unsaid' = unsaid \cup ended

Released(r) ==
  [claim EXCEPT ![run[r].cell] = IF @ = r THEN NoRun ELSE @]

\* Cells differ in nothing but their kind: one order stands for all.
Order == CHOOSE order \in SetToSeqs(Cell) : TRUE

\* A notebook nobody runs anything in, its cells never run or all run before (by a
\* run whose id no event will name again).
Init ==
  /\ \E kind \in [Cell -> {"shell", "prompt"}], state \in {"idle", "ok"} :
       doc = [i \in DOMAIN Order |->
                NewCell(Order[i], kind[Order[i]], CHOOSE s \in Source : TRUE, state)]
  /\ store = "open"
  /\ claim = [c \in Cell |-> NoRun]
  /\ run = [r \in Run |-> NotAsked]
  /\ delivered = {}
  /\ mirrored \in BOOLEAN
  /\ unsaid = {}

\* Mutant: a claimed cell is claimed again.
Claim_Unchecked(r, c) ==
  /\ run[r] = NotAsked
  /\ Has(doc, c)
  /\ claim' = [claim EXCEPT ![c] = r]
  /\ run' = [run EXCEPT ![r].pc = "claimed", ![r].cell = c, ![r].runner = RunnerOf(c)]
  /\ UNCHANGED <<doc, store, delivered, mirrored, unsaid>>

\* handleCellRun, up to beginRun; a cell that is claimed is a 409.
Claim(r, c) ==
  /\ run[r] = NotAsked
  /\ Has(doc, c)
  /\ claim[c] = NoRun
  /\ claim' = [claim EXCEPT ![c] = r]
  /\ run' = [run EXCEPT ![r].pc = "claimed", ![r].cell = c, ![r].runner = RunnerOf(c)]
  /\ UNCHANGED <<doc, store, delivered, mirrored, unsaid>>

\* ... run_started; if the log refuses it the claim is given back.
Start(r) ==
  /\ run[r].pc = "claimed"
  /\ \/ /\ Accepted(Started(run[r].cell, r))
        /\ Goto(r, "started")
        /\ UNCHANGED claim
     \/ /\ Refused
        /\ Goto(r, "done")
        /\ claim' = Released(r)
  /\ UNCHANGED <<store, delivered, mirrored, unsaid>>

\* ... invalidateBelow reads the document,
FinishedBelow(c) ==
  {below \in Cell : \E j \in DOMAIN doc :
     /\ doc[j].id = below
     /\ Has(doc, c) /\ j > IndexOfCell(doc, c)
     /\ doc[j].state \in {"ok", "error", "interrupted"}}

ReadBelow(r) ==
  /\ run[r].pc = "started"
  /\ LET below == FinishedBelow(run[r].cell) IN
       run' = [run EXCEPT ![r].below = below,
                          ![r].pc = IF below = {} THEN "running" ELSE "invalidating"]
  /\ UNCHANGED <<doc, store, claim, delivered, mirrored, unsaid>>

\* ... and logs what it read, some time later.
InvalidateBelow(r) ==
  /\ run[r].pc = "invalidating"
  /\ Logged(Invalidated(run[r].below))
  /\ run' = [run EXCEPT ![r].pc = "running", ![r].below = {}]
  /\ UNCHANGED <<store, claim, delivered, mirrored, unsaid>>

Ends(r, status, text) ==
  run' = [run EXCEPT ![r].pc = "writing", ![r].status = status, ![r].text = text]

\* runShellCell: the command exits by itself or is killed, and whether it was
\* interrupted is asked after it exited; or it could not be started at all.
CommandExits(r, status, text) ==
  /\ run[r].pc = "running" /\ run[r].runner = "shell"
  /\ \/ IF run[r].stopped THEN status = "interrupted" ELSE status \in {"ok", "error"}
     \/ status = "error" /\ text
  /\ Ends(r, status, text)
  /\ UNCHANGED <<doc, store, claim, delivered, mirrored, unsaid>>

\* Mutant: the loop returns early without finishing the run.
PromptGone_Unfinished(r) ==
  /\ run[r].pc = "running" /\ run[r].runner = "prompt"
  /\ Goto(r, "ending")
  /\ UNCHANGED <<doc, store, claim, delivered, mirrored, unsaid>>

\* runPromptCell on a cell deleted meanwhile: nothing to do, not even finish.
PromptGone(r) ==
  /\ run[r].pc = "running" /\ run[r].runner = "prompt"
  /\ ~Has(doc, run[r].cell)
  /\ Goto(r, "ending")
  /\ UNCHANGED <<doc, store, claim, delivered, mirrored, unsaid>>

\* A block of a turn, a tool's result, or an error (emitOutput).
PromptOutput(r) ==
  /\ run[r].pc = "running" /\ run[r].runner = "prompt"
  /\ Has(doc, run[r].cell) => Len(CellOf(doc, run[r].cell).outs) < MaxOutputs
  /\ Logged(Output(run[r].cell, r))
  /\ UNCHANGED <<store, claim, run, delivered, mirrored, unsaid>>

\* The loop ends, or could not begin (its context or its budget is refused).  An
\* interrupt is looked for once more after the loop and wins over any other end;
\* an interrupted run still records the text it had streamed.
PromptEnds(r, status, text) ==
  /\ run[r].pc = "running" /\ run[r].runner = "prompt"
  /\ \/ IF run[r].stopped THEN status = "interrupted" ELSE status \in {"ok", "error"} /\ ~text
     \/ status = "error" /\ text
  /\ Ends(r, status, text)
  /\ UNCHANGED <<doc, store, claim, delivered, mirrored, unsaid>>

\* sendPromptCell: the text was typed into the CLI and seen there; the turn is
\* its own from now on, and the claim is given back.
SessionDelivers(r) ==
  /\ run[r].pc = "running" /\ run[r].runner = "session"
  /\ delivered' = delivered \cup {run[r].cell}
  /\ Goto(r, "ending")
  /\ UNCHANGED <<doc, store, claim, mirrored, unsaid>>

\* ... or the send failed, never appeared on the screen ("error"), or went to a
\* CLI whose turns cannot be read back ("ok").
SessionAnswersItself(r, status) ==
  /\ run[r].pc = "running" /\ run[r].runner = "session"
  /\ status \in {"ok", "error"}
  /\ Ends(r, status, TRUE)
  /\ UNCHANGED <<doc, store, claim, delivered, mirrored, unsaid>>

\* The final output, if there is one.  (What a run no longer needs is forgotten.)
WriteOutput(r) ==
  /\ run[r].pc = "writing"
  /\ IF run[r].text THEN Logged(Output(run[r].cell, r)) ELSE UNCHANGED doc
  /\ run' = [run EXCEPT ![r].pc = "finishing", ![r].text = FALSE]
  /\ UNCHANGED <<store, claim, delivered, mirrored, unsaid>>

\* run_finished.  sendPromptCell returns after it, the others defer endRun.
AfterFinish(r) == IF run[r].runner = "session" THEN "done" ELSE "ending"


WriteFinish(r) ==
  /\ run[r].pc = "finishing"
  /\ LoggedEnd(Finished(run[r].cell, r, run[r].status), {r})
  /\ run' = [run EXCEPT ![r].pc = AfterFinish(r), ![r].status = "ok"]
  /\ UNCHANGED <<store, claim, delivered, mirrored>>

\* Mutant: the claim is not given back.
EndRun_Keeps(r) ==
  /\ run[r].pc = "ending"
  /\ Goto(r, "done")
  /\ UNCHANGED <<doc, store, claim, delivered, mirrored, unsaid>>

EndRun(r) ==
  /\ run[r].pc = "ending"
  /\ claim' = Released(r)
  /\ Goto(r, "done")
  /\ UNCHANGED <<doc, store, delivered, mirrored, unsaid>>

\* The session projector settles a delivered cell: its turn ended, another
\* prompt came back instead, or nothing did within adoptionTimeout.
SessionSettles(c, status) ==
  /\ c \in delivered
  /\ delivered' = delivered \ {c}
  /\ status \in {"ok", "error", "interrupted"}
  /\ LoggedEnd(Finished(c, NoRun, status), {d.run : d \in {d \in ToSet(doc) : d.id = c}})
  /\ UNCHANGED <<store, claim, run, mirrored>>

\* handleCellInterrupt.  A mirrored turn is only sent Escape: nothing changes here.
Interrupt(c) ==
  /\ ~(mirrored /\ Has(doc, c) /\ CellOf(doc, c).kind = "prompt")
  /\ claim[c] # NoRun
  /\ run' = [run EXCEPT ![claim[c]].stopped = TRUE]
  /\ UNCHANGED <<doc, store, claim, delivered, mirrored, unsaid>>

DeleteCell(c) ==
  /\ Has(doc, c) /\ store # "closed"
  /\ doc' = Apply(doc, Deleted(c))
  /\ UNCHANGED <<store, claim, run, delivered, mirrored, unsaid>>

\* releaseNotebook and closeAllNotebooks: interrupt every run, then close the
\* store without waiting for any of them.
InterruptAll ==
  /\ MayClose /\ store = "open"
  /\ store' = "closing"
  /\ run' = [r \in Run |-> IF \E c \in Cell : claim[c] = r
                             THEN [run[r] EXCEPT !.stopped = TRUE] ELSE run[r]]
  /\ UNCHANGED <<doc, claim, delivered, mirrored, unsaid>>

Close ==
  /\ store = "closing"
  /\ store' = "closed"
  /\ UNCHANGED <<doc, claim, run, delivered, mirrored, unsaid>>

\* What the handler and the goroutine of run r do before its runner and after it.
OwnStep(r) ==
  \/ Start(r) \/ ReadBelow(r) \/ InvalidateBelow(r)
  \/ WriteOutput(r) \/ WriteFinish(r) \/ EndRun(r)

Progress(r) == OwnStep(r) \/ PromptGone(r) \/ SessionDelivers(r)

\* How long a command or a turn takes is up to it.
Exit(r) ==
  \E status \in {"ok", "error", "interrupted"}, text \in BOOLEAN :
    CommandExits(r, status, text) \/ PromptEnds(r, status, text)

Next ==
  \/ \E r \in Run :
       \/ Progress(r) \/ Exit(r) \/ PromptOutput(r)
       \/ \E c \in Cell : Claim(r, c)
       \/ \E status \in {"ok", "error"} : SessionAnswersItself(r, status)
  \/ \E c \in Cell :
       \/ Interrupt(c) \/ DeleteCell(c)
       \/ \E status \in {"ok", "error", "interrupted"} : SessionSettles(c, status)
  \/ InterruptAll \/ Close

Spec == Init /\ [][Next]_vars

\* Goroutines run.  Nothing makes a runner return: a command that was killed may have
\* left a child that holds its output open (cmd.Wait), a CLI may never read what it is
\* sent, and an interrupted prompt may be blocked on a question for good (giveUp).
Fairness == \A r \in Run : WF_vars(OwnStep(r))

FairSpec == Spec /\ Fairness

------------------------------------------------------------------------------

RunRecord ==
  [pc : Stage, cell : Cell \cup {NoCell}, runner : {"shell", "prompt", "session"},
   stopped : BOOLEAN, below : SUBSET Cell, status : {"ok", "error", "interrupted"}, text : BOOLEAN]

\* Every variable has its type, and a run that was asked for has its cell
\* (nbRun, notebookStore.runs).
TypeOK ==
  /\ doc \in Seq(CellRecord)
  /\ store \in {"open", "closing", "closed"}
  /\ claim \in [Cell -> Run \cup {NoRun}]
  /\ run \in [Run -> RunRecord]
  /\ \A r \in Run : run[r].pc # "idle" => run[r].cell \in Cell
  /\ delivered \subseteq Cell /\ mirrored \in BOOLEAN
  /\ unsaid \subseteq Run

\* "A second run while the first is live would race two writers onto one cell's
\* outputs" (beginRun): no two runs ever hold the same cell.
OneRunPerCell ==
  \A r, s \in Run : Active(r) /\ Active(s) /\ run[r].cell = run[s].cell => r = s

\* Until a run has logged its end its cell shows that run, so nothing it still
\* has to write will be discarded as a superseded run's.
LiveRunIsCurrent ==
  \A r \in Run : Live(r) /\ Has(doc, run[r].cell) => CellOf(doc, run[r].cell).run = r

\* A cell that reads as running is being run: no spinner outlives its run, unless
\* the log refused to record the run's end.
RunningIsLive ==
  \A i \in DOMAIN doc :
    doc[i].state = "running" =>
      \/ doc[i].id \in delivered \/ doc[i].run \in unsaid
      \/ \E r \in Run : Live(r) /\ run[r].cell = doc[i].id /\ doc[i].run = r

\* Whatever other cells' runs invalidate from documents they read earlier, a cell
\* that is run here stays running until its own run says it finished.
RunsEndThemselves ==
  [][\A r \in Run :
       LET c == run[r].cell IN
       Live(r) /\ Live(r)' /\ run[r].runner # "session" /\ Has(doc, c) /\ Has(doc', c)
         => /\ CellOf(doc', c).run = r
            /\ CellOf(doc', c).state = "running"]_vars


\* A claim "lives only while the command runs" (nb_run.go:37): once a run is over
\* its cell can be run again, whichever way it ended, unless it was sent to a CLI.
ClaimsAreActive ==
  \A c \in Cell :
    claim[c] # NoRun /\ run[claim[c]].runner # "session" => Active(claim[c])

==============================================================================
