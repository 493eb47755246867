--------------------------- MODULE SessionProjector ---------------------------
(***************************************************************************)
(* nb_session.go and sendPromptCell of nb_run.go: how the transcript a CLI *)
(* writes becomes the cells of its session's notebook, and how a prompt    *)
(* sent from the notebook is recognised when it comes back through it.     *)
(*                                                                         *)
(* The CLI is external: it writes lines to its transcript, among them the  *)
(* prompts it was sent and those typed into its terminal.  One watcher     *)
(* reads the lines in order.  Senders, the watcher, its end and the        *)
(* timers of awaited prompts interleave at every unlock of p.mu and every  *)
(* log append made without it.                                             *)
(*                                                                         *)
(* Abstractions.                                                           *)
(*  - A line has one part, and is its position.  The cell a line opens has *)
(*    that position for an id.                                             *)
(*  - Assistant text, thinking, tool calls, results and injections all     *)
(*    land on the open cell: "work".  Delegated work, approvals and the    *)
(*    invalidation of the cells below a run are left out.                  *)
(*  - Whether a new prompt abandons the turn before it (a shared parent    *)
(*    line) only decides between "ok" and "interrupted", and is a choice.  *)
(*  - Ingest holds p.mu and is one step: its appends all succeed or, when  *)
(*    the log refuses them, all fail.  The watcher has moved on by then:   *)
(*    a line is not read again.                                            *)
(*                                                                         *)
(* There is one place for a prompt that waits for its echo, and ends are   *)
(* written by whoever believes the cell is theirs.  Three history          *)
(* variables say where that goes wrong:                                    *)
(*   "lost"     cells whose place another prompt took, or whose projector  *)
(*              closed before their echo came                              *)
(*   "blurred"  cells whose send was found to fail, which may be echoed    *)
(*              all the same, and cells sent again during their own turn   *)
(*   "unsaid"   cells whose end the log refused                            *)
(***************************************************************************)
EXTENDS Integers, Sequences, FiniteSets

CONSTANTS
  Cell,       \* prompt cells a person wrote in the notebook
  Source,     \* the text of each cell, without the space around it
  Typed,      \* what people type into the terminal instead
  MaxLines,   \* bound: lines of the transcript
  MaxUnread,  \* bound: lines the CLI writes ahead of the watcher
  MaxRuns,    \* bound: sends, numbered in the order they begin
  MaxUnsaid,  \* bound: cells whose end the log refuses, if it refuses any
  NoCell

ASSUME ProjectorAssumption ==
  /\ MaxLines \in Nat /\ MaxUnread \in Nat \ {0} /\ MaxRuns \in Nat /\ MaxUnsaid \in Nat
  /\ NoCell \notin Cell \cup (1..MaxLines) /\ Cell \cap (1..MaxLines) = {}
  /\ DOMAIN Source = Cell

Line == 1..MaxLines
Run == 1..MaxRuns
NoRun == 0
Place == Cell \cup Line     \* the notebook's cells: written, or opened by a line

VARIABLES
  transcript,  \* the CLI's file
  typed,       \* sends typed into the CLI that it has not written down
  read,        \* lines ingested
  cell,        \* the notebook: state, source line and work of every cell
  current,     \* the cell work lands on
  slot,        \* adoptCell, the cell that waits for its echo
  timers,      \* pending give-up timers; stale once adoptGen has moved on
  givingUp,    \* cells whose timer has claimed the slot and not written yet
  closed,      \* the projector is closed
  claim,       \* cells held by a run
  run,         \* each send: where it is, its cell, the lines read when it began
  lost, blurred, unsaid    \* history; unsaid: cells whose end the log refused

projector == <<read, current, slot, timers, givingUp, closed>>
history == <<lost, blurred, unsaid>>
vars == <<transcript, typed, cell, projector, claim, run, history>>

------------------------------------------------------------------------------
\* The notebook, as far as the projector's events change it.

Ended == {"ok", "error", "interrupted"}

Absent == [state |-> "absent", line |-> 0, work |-> {}]

\* run_finished of cell c, if there is one.
Finish(cells, c, status) == IF c = NoCell THEN cells ELSE [cells EXCEPT ![c].state = status]

Some(c) == {c} \ {NoCell}

Init ==
  /\ transcript = <<>> /\ typed = {} /\ read = 0
  /\ cell = [c \in Place |-> IF c \in Cell THEN [Absent EXCEPT !.state = "idle"] ELSE Absent]
  /\ current = NoCell /\ slot = NoCell /\ timers = {} /\ givingUp = {}
  /\ closed = FALSE
  /\ claim = {}
  /\ run = [r \in Run |-> [pc |-> "idle", cell |-> NoCell, from |-> 0]]
  /\ lost = {} /\ blurred = {} /\ unsaid = {}

Goto(r, pc) == run' = [run EXCEPT ![r].pc = pc]

\* An append may find the log refusing it.
Refusals == {FALSE, Cardinality(unsaid) < MaxUnsaid}

\* run_finished of c is logged, or refused.
LogEnd(c, status) ==
  \E refusing \in Refusals :
    IF refusing
      THEN unsaid' = unsaid \cup Some(c) /\ UNCHANGED cell
      ELSE cell' = Finish(cell, c, status) /\ UNCHANGED unsaid

\* adoptGen++: the timers there are have nothing left to give up.
Stale == {[t EXCEPT !.stale = TRUE] : t \in timers}

------------------------------------------------------------------------------
\* The CLI.

Write(line) ==
  /\ Len(transcript) < MaxLines /\ Len(transcript) < read + MaxUnread
  /\ transcript' = Append(transcript, line)
  /\ UNCHANGED <<cell, projector, claim, run, history>>

Prompt(text, r) == [kind |-> "prompt", text |-> text, run |-> r]
Other(kind) == [kind |-> kind, text |-> "", run |-> NoRun]

Echo(r) ==
  /\ r \in typed
  /\ typed' = typed \ {r}
  /\ Write(Prompt(Source[run[r].cell], r))

TypedIn(text) == Write(Prompt(text, NoRun)) /\ UNCHANGED typed

Works(kind) == Write(Other(kind)) /\ UNCHANGED typed

------------------------------------------------------------------------------
\* sendPromptCell.

\* handleCellRun: the cell is claimed and run_started logged.
Start(r, c) ==
  /\ run[r].pc = "idle" /\ c \notin claim
  /\ \A q \in 1..r - 1 : run[q].pc # "idle"
  /\ run' = [run EXCEPT ![r] = [pc |-> "started", cell |-> c, from |-> 0]]
  /\ claim' = claim \cup {c}
  /\ cell' = [cell EXCEPT ![c].state = "running", ![c].work = {}]
  /\ lost' = lost \ {c} /\ unsaid' = unsaid \ {c}
  /\ blurred' = IF c \in {current, slot} \cup givingUp
                  THEN blurred \cup {c} ELSE blurred
  /\ UNCHANGED <<transcript, typed, projector>>

\* Cells nobody will settle once c takes the slot.
Overwritten(c) == (Some(slot) \ {c}) \cup (IF closed THEN {c} ELSE {})

\* Mutant: no timer is started.
AwaitAdoption_NoTimer(r) ==
  /\ run[r].pc = "started"
  /\ slot' = run[r].cell /\ timers' = Stale
  /\ lost' = lost \cup Overwritten(run[r].cell)
  /\ run' = [run EXCEPT ![r].pc = "awaiting", ![r].from = read]
  /\ UNCHANGED <<transcript, typed, cell, read, current, givingUp, closed,
                 claim, blurred, unsaid>>

\* The cell takes the only place there is, whoever has it.
AwaitAdoption(r) ==
  /\ run[r].pc = "started"
  /\ slot' = run[r].cell
  /\ timers' = Stale \cup {[cell |-> run[r].cell, stale |-> FALSE]}
  /\ lost' = lost \cup Overwritten(run[r].cell)
  /\ run' = [run EXCEPT ![r].pc = "awaiting", ![r].from = read]
  /\ UNCHANGED <<transcript, typed, cell, read, current, givingUp, closed,
                 claim, blurred, unsaid>>

\* Mutant: the text goes out whether or not its cell waits for it.
SendToSession_Unregistered(r) ==
  /\ run[r].pc \in {"started", "awaiting"}
  /\ Goto(r, "sent") /\ typed' = typed \cup {r}
  /\ UNCHANGED <<transcript, cell, projector, claim, history>>

\* sendToSession
SendToSession(r) ==
  /\ run[r].pc = "awaiting"
  /\ \/ Goto(r, "sent") /\ typed' = typed \cup {r} /\ UNCHANGED blurred
     \/ Goto(r, "failing") /\ blurred' = blurred \cup {run[r].cell} /\ UNCHANGED typed
  /\ UNCHANGED <<transcript, cell, projector, claim, lost, unsaid>>

\* verifyPromptEcho finds the text on the screen, or cannot tell: endRun.
Delivered(r) ==
  /\ run[r].pc = "sent"
  /\ Goto(r, "done")
  /\ claim' = claim \ {run[r].cell}
  /\ UNCHANGED <<transcript, typed, cell, projector, history>>

\* ... or does not: CancelAdoption.
CancelAdoption(r) ==
  /\ run[r].pc = "sent"
  /\ Goto(r, "failing")
  /\ blurred' = blurred \cup {run[r].cell}
  /\ IF slot = run[r].cell
       THEN slot' = NoCell /\ timers' = Stale
       ELSE UNCHANGED <<slot, timers>>
  /\ UNCHANGED <<transcript, typed, cell, read, current, givingUp, closed,
                 claim, lost, unsaid>>

\* The failure is reported and the run finished; its claim is not given back.
Report(r) ==
  /\ run[r].pc = "failing"
  /\ Goto(r, "done")
  /\ LogEnd(run[r].cell, "error")
  /\ UNCHANGED <<transcript, typed, projector, claim, lost, blurred>>

------------------------------------------------------------------------------
\* The projector.

Here == read + 1     \* the line to be ingested

Matches(text) == slot # NoCell /\ text = Source[slot]

\* Mutant: the cell stays the current one.
AfterSettling_Keeps == current

AfterSettling == NoCell

\* A prompt ends the turn before it and opens one: on the cell that waits for it
\* (adopt), or on a new one; a cell that waits for another is told it will not be
\* answered.
IngestPrompt(text, end, refusing) ==
  LET settled == Finish(cell, current, end)
      opened(cells) == [cells EXCEPT ![Here] = [state |-> "running", line |-> Here, work |-> {}]]
  IN
  /\ slot' = NoCell
  /\ timers' = IF slot = NoCell THEN timers ELSE Stale
  /\ \/ /\ ~refusing /\ Matches(text)
        /\ cell' = [settled EXCEPT ![slot].line = Here]
        /\ current' = slot
        /\ UNCHANGED unsaid
     \/ /\ ~refusing /\ ~Matches(text)
        /\ cell' = opened(Finish(settled, slot, "interrupted"))
        /\ current' = Here
        /\ UNCHANGED unsaid
     \/ /\ refusing
        /\ current' = AfterSettling
        /\ unsaid' = unsaid \cup Some(current) \cup Some(slot)
        /\ UNCHANGED cell

\* settleCurrent
Settle(end) ==
  /\ current' = AfterSettling
  /\ LogEnd(current, end)

\* Mutant: what follows a summary hangs under it.
IngestCompact_Current ==
  /\ current' = Here
  /\ cell' = [Finish(cell, current, "ok") EXCEPT
                ![Here] = [state |-> "ok", line |-> Here, work |-> {}]]
  /\ UNCHANGED <<slot, timers, unsaid>>

\* A compaction's summary is a cell of its own, and nothing hangs under it.
IngestCompact ==
  /\ current' = NoCell
  /\ \/ /\ cell' = [Finish(cell, current, "ok") EXCEPT
                      ![Here] = [state |-> "ok", line |-> Here, work |-> {}]]
        /\ UNCHANGED unsaid
     \/ /\ TRUE \in Refusals /\ unsaid' = unsaid \cup Some(current)
        /\ UNCHANGED cell
  /\ UNCHANGED <<slot, timers>>

\* appendOutput: work without a turn opens a placeholder.
IngestWork ==
  \/ /\ current' = IF current = NoCell THEN Here ELSE current
     /\ cell' = IF current = NoCell
          THEN [cell EXCEPT ![Here] = [state |-> "running", line |-> 0, work |-> {Here}]]
          ELSE [cell EXCEPT ![current].work = @ \cup {Here}]
     /\ UNCHANGED <<slot, timers, unsaid>>
  \/ TRUE \in Refusals /\ UNCHANGED <<cell, current, slot, timers, unsaid>>

\* Ingest and apply of the next line.
Ingest ==
  /\ ~closed /\ read < Len(transcript)
  /\ read' = Here
  /\ LET line == transcript[Here] IN
       \/ /\ line.kind = "prompt"
          /\ \E end \in {"ok", "interrupted"}, refusing \in Refusals :
               IngestPrompt(line.text, end, refusing)
       \/ line.kind = "interrupted" /\ Settle("interrupted") /\ UNCHANGED <<slot, timers>>
       \/ line.kind = "compact" /\ IngestCompact
       \/ line.kind = "work" /\ IngestWork
  /\ UNCHANGED <<transcript, typed, givingUp, closed, claim, run, lost, blurred>>

\* Mutant: a timer does not look at what it is for.
StillAwaited_Any(t) == ~closed /\ t.cell \in Cell

StillAwaited(t) == ~closed /\ ~t.stale /\ t.cell = slot

\* giveUpOnAdoption: the place is claimed under the lock,
GiveUp(t) ==
  /\ t \in timers
  /\ timers' = timers \ {t}
  /\ IF StillAwaited(t)
       THEN slot' = NoCell /\ givingUp' = givingUp \cup {t.cell}
       ELSE UNCHANGED <<slot, givingUp>>
  /\ UNCHANGED <<transcript, typed, cell, read, current, closed, claim, run, history>>

\* ... and the cell told of it after it.
WriteGivenUp(c) ==
  /\ c \in givingUp
  /\ givingUp' = givingUp \ {c}
  /\ LogEnd(c, "error")
  /\ UNCHANGED <<transcript, typed, read, current, slot, timers, closed, claim, run,
                 lost, blurred>>

\* The watcher leaves: the session is gone, or its status was "stopped" or "error"
\* at a tick.  The turn in flight is settled, a prompt that waits is not.
Close ==
  /\ ~closed /\ closed' = TRUE
  /\ Settle("ok")
  /\ lost' = lost \cup Some(slot)
  /\ UNCHANGED <<transcript, typed, read, slot, timers, givingUp, claim, run, blurred>>

------------------------------------------------------------------------------

Sending(r) ==
  AwaitAdoption(r) \/ SendToSession(r) \/ Delivered(r) \/ CancelAdoption(r) \/ Report(r)

Next ==
  \/ \E r \in Run : Echo(r) \/ Sending(r) \/ \E c \in Cell : Start(r, c)
  \/ \E text \in Typed : TypedIn(text)
  \/ \E kind \in {"work", "interrupted", "compact"} : Works(kind)
  \/ Ingest \/ Close
  \/ \E t \in timers : GiveUp(t)
  \/ \E c \in Cell : WriteGivenUp(c)

Spec == Init /\ [][Next]_vars

------------------------------------------------------------------------------

\* Every variable has its type; a closed projector has no open turn.
TypeOK ==
  /\ transcript \in Seq([kind : {"prompt", "work", "interrupted", "compact"},
                         text : Typed \cup {Source[c] : c \in Cell} \cup {""},
                         run : Run \cup {NoRun}])
  /\ typed \subseteq Run /\ read \in 0..Len(transcript)
  /\ cell \in [Place -> [state : {"absent", "idle", "running"} \cup Ended,
                         line : 0..MaxLines, work : SUBSET Line]]
  /\ closed \in BOOLEAN
  /\ current \in Place \cup {NoCell} /\ slot \in Cell \cup {NoCell}
  /\ timers \subseteq [cell : Cell, stale : BOOLEAN]
  /\ givingUp \subseteq Cell /\ claim \subseteq Cell
  /\ run \in [Run -> [pc : {"idle", "started", "awaiting", "sent", "failing", "done"},
                      cell : Cell \cup {NoCell}, from : 0..MaxLines]]
  /\ lost \subseteq Place /\ blurred \subseteq Place /\ unsaid \subseteq Place
  /\ closed => current = NoCell

\* The prompt a line of work answers: the line that began the turn, 0 if none did.
PromptOf(l) ==
  LET turns == {k \in 1..l - 1 : transcript[k].kind # "work"}
      last == CHOOSE k \in turns : \A j \in turns : j <= k
  IN  IF turns = {} \/ transcript[last].kind # "prompt" THEN 0 ELSE last

\* Work hangs under the prompt it answers or under a placeholder, never under
\* another prompt or a summary ("A summary is not a turn, so nothing hangs under it",
\* apply).
WorkUnderItsPrompt ==
  \A c \in Place \ blurred : \A l \in cell[c].work : cell[c].line \in {0, PromptOf(l)}

\* The cell work lands on reads as running.
OpenTurnRuns == current # NoCell /\ current \notin blurred => cell[current].state = "running"

\* A cell that reads as running has somebody who will end it: the open turn, a timer
\* that watches the place it waits in, or its sender ("a prompt that lands in a dialog
\* leaves its cell running forever", AwaitAdoptionFor; "every finished turn keeps its
\* spinner", settleCurrent).
RunningIsAttended ==
  \A c \in Place \ (lost \cup unsaid) : cell[c].state = "running" =>
    \/ c \in Some(current) \cup givingUp
    \/ c = slot /\ [cell |-> c, stale |-> FALSE] \in timers
    \/ \E r \in Run : run[r].cell = c /\ run[r].pc \notin {"idle", "done"}

\* A prompt sent from the notebook is shown on its own cell when it comes back, not
\* a second time below it ("registering afterwards would lose the race and duplicate
\* the prompt", sendPromptCell), if no other prompt came since it was sent, nobody
\* gave up on it, and every other send of the same cell has come back before.
EchoIsAdopted ==
  [][\A l \in {read'} \ {read} :
       LET r == transcript[l].run
           c == run[r].cell
       IN  /\ transcript[l].kind = "prompt" /\ r # NoRun
           /\ \A k \in run[r].from + 1..read : transcript[k].kind # "prompt"
           /\ \A q \in Run \ {r} : run[q].cell = c => \E k \in 1..read : transcript[k].run = q
           /\ cell[c].state # "error" /\ c \notin givingUp \cup lost \cup blurred \cup unsaid'
           => cell'[c].line = l]_vars

\* An end is final: "a turn that finished twice is worse than one that finished
\* late" (Close).  Only being sent again changes an ended cell.
EndsOnce ==
  [][\A c \in Place \ blurred' :
       cell[c].state \in Ended /\ cell'[c].state # cell[c].state => cell'[c].state = "running"]_vars

==============================================================================
