------------------------ MODULE SessionProjectorProofs ------------------------
(***************************************************************************)
(* SessionProjector's theorems: types, what the open turn and every end    *)
(* may be, that no cell runs unattended, that work hangs under its prompt  *)
(* and that an echo finds its cell, for any number of cells, sends and     *)
(* lines.                                                                  *)
(***************************************************************************)
EXTENDS SessionProjector, TLAPS

Pc == {"idle", "started", "awaiting", "sent", "failing", "done"}
Text == Typed \cup {Source[c] : c \in Cell} \cup {""}
LineRecord == [kind : {"prompt", "work", "interrupted", "compact"}, text : Text,
               run : Run \cup {NoRun}]
CellState == [state : {"absent", "idle", "running"} \cup Ended, line : 0..MaxLines,
              work : SUBSET Line]

Active(r) == run[r].pc \notin {"idle", "done"}

------------------------------------------------------------------------------
\* The parts of the inductive invariant.

\* Active sends hold the claims of different cells.
SendsHoldTheirCells ==
  /\ \A r \in Run : run[r].pc # "idle" => run[r].cell \in Cell
  /\ \A r \in typed : run[r].pc # "idle"
  /\ \A r \in Run : Active(r) => run[r].cell \in claim
  /\ \A r, q \in Run : Active(r) /\ Active(q) /\ run[r].cell = run[q].cell => r = q

FailingIsBlurred == \A r \in Run : run[r].pc = "failing" => run[r].cell \in blurred

\* A cell that is yet to take the slot is nobody else's to end.
StartedIsFree ==
  \A r \in Run : run[r].pc = "started" /\ run[r].cell \notin blurred =>
    /\ cell[run[r].cell].state = "running" /\ cell[run[r].cell].work = {}
    /\ run[r].cell \notin givingUp \cup {current, slot}

\* So is one that waits in it, and one whose timer claimed it.
SlotIsFree ==
  slot \notin blurred \cup {NoCell} =>
    /\ cell[slot].state = "running" /\ cell[slot].work = {}
    /\ slot \notin givingUp \cup {current}

GivenUpRuns == \A c \in givingUp \ blurred : cell[c].state = "running" /\ c # current

\* What the transcript has not come to is not there.
AheadIsAbsent ==
  /\ Len(transcript) <= MaxLines
  /\ \A l \in Line : l > read => cell[l].state = "absent" /\ l # current

\* The slot of a closed projector is lost, or about to be taken again.
ClosedLosesItsSlot ==
  closed /\ slot # NoCell =>
    slot \in lost \/ \E r \in Run : run[r].pc = "started" /\ run[r].cell = slot

\* A cell that was registered is attended without its sender.
Awaited(c) ==
  \/ c \in Some(current) \cup givingUp
  \/ c = slot /\ [cell |-> c, stale |-> FALSE] \in timers

SentIsAwaited ==
  \A r \in Run :
    /\ run[r].pc \in {"awaiting", "sent"}
    /\ run[r].cell \notin lost \cup unsaid /\ cell[run[r].cell].state = "running"
    => Awaited(run[r].cell)

\* The lines before l that begin or end a turn, and the last of them.
Turned(l) == {k \in 1..l - 1 : transcript[k].kind # "work"}
LastTurned(l) == CHOOSE k \in Turned(l) : \A j \in Turned(l) : j <= k

\* There is a last one; the open turn is the one the last line belongs to.
WorkIsPast ==
  /\ \A l \in 1..Len(transcript) + 1 : Turned(l) # {} => LastTurned(l) \in Turned(l)
  /\ \A c \in Place \ blurred : \A l \in cell[c].work : l <= read /\ cell[c].line \in {0, PromptOf(l)}
  /\ current \notin blurred \cup {NoCell} => cell[current].line \in {0, PromptOf(Here)}

\* What was sent comes back at most once, as the text of its cell.
Sent(r) == run[r].pc \in {"sent", "failing", "done"}
Echoed(r) == \E k \in 1..read : transcript[k].run = r

EchoesAreSent ==
  /\ \A r \in Run : run[r].from <= read /\ (run[r].pc = "idle" => run[r].cell = NoCell)
  /\ \A r \in typed : Sent(r)
  /\ \A k \in 1..Len(transcript) : transcript[k].run # NoRun =>
       /\ transcript[k].kind = "prompt" /\ transcript[k].run \notin typed
       /\ Sent(transcript[k].run)
       /\ transcript[k].text = Source[run[transcript[k].run].cell]
  /\ \A j, k \in 1..Len(transcript) :
       transcript[j].run = transcript[k].run /\ transcript[k].run # NoRun => j = k

\* A send whose echo is to be shown on its cell, and the place it waits in.
Expected(r) ==
  /\ run[r].pc \notin {"idle", "started"} /\ ~Echoed(r)
  /\ \A k \in run[r].from + 1..read : transcript[k].kind # "prompt"
  /\ \A q \in Run \ {r} : run[q].cell = run[r].cell => Echoed(q)
  /\ cell[run[r].cell].state # "error"
  /\ run[r].cell \notin givingUp \cup lost \cup blurred \cup unsaid

ExpectedHasTheSlot == \A r \in Run : Expected(r) => slot = run[r].cell

\* TypeOK, with its sets named.
Types ==
  /\ transcript \in Seq(LineRecord)
  /\ typed \subseteq Run /\ read \in 0..Len(transcript)
  /\ cell \in [Place -> CellState]
  /\ closed \in BOOLEAN
  /\ current \in Place \cup {NoCell} /\ slot \in Cell \cup {NoCell}
  /\ timers \subseteq [cell : Cell, stale : BOOLEAN]
  /\ givingUp \subseteq Cell /\ claim \subseteq Cell
  /\ run \in [Run -> [pc : Pc, cell : Cell \cup {NoCell}, from : 0..MaxLines]]
  /\ lost \subseteq Place /\ blurred \subseteq Place /\ unsaid \subseteq Place
  /\ closed => current = NoCell

IInv ==
  /\ Types
  /\ SendsHoldTheirCells /\ FailingIsBlurred
  /\ StartedIsFree /\ SlotIsFree /\ OpenTurnRuns /\ GivenUpRuns
  /\ AheadIsAbsent
  /\ ClosedLosesItsSlot /\ SentIsAwaited /\ RunningIsAttended
  /\ WorkIsPast
  /\ EchoesAreSent /\ ExpectedHasTheSlot

------------------------------------------------------------------------------
\* The steps, by what they touch.

USE ProjectorAssumption DEF NoRun

LEMMA Places ==
  /\ Cell \subseteq Place /\ Line \subseteq Place /\ Cell \cap Line = {} /\ NoCell \notin Place
  /\ \A l : l \in Line <=> l \in Nat /\ 1 <= l /\ l <= MaxLines
  BY DEF Place, Line

\* The CLI adds a line to its transcript.
LEMMA CliWrites ==
  ASSUME Types, SendsHoldTheirCells,
         \/ \E r \in Run : Echo(r)
         \/ \E text \in Typed : TypedIn(text)
         \/ \E kind \in {"work", "interrupted", "compact"} : Works(kind)
  PROVE  /\ \E line \in LineRecord : transcript' = Append(transcript, line)
         /\ Len(transcript) < MaxLines
         /\ typed' \subseteq typed
         /\ UNCHANGED <<cell, projector, claim, run, history>>
<1>1. CASE \E r \in Run : Echo(r)
  <2>1. PICK r \in Run : Echo(r) BY <1>1
  <2>2. run[r].cell \in Cell BY <2>1 DEF Echo, SendsHoldTheirCells
  <2>3. Prompt(Source[run[r].cell], r) \in LineRecord BY <2>2 DEF Prompt, LineRecord, Text
  <2> QED BY <2>1, <2>3 DEF Echo, Write
<1>2. CASE \E text \in Typed : TypedIn(text)
  BY <1>2 DEF TypedIn, Write, Prompt, LineRecord, Text
<1>3. CASE \E kind \in {"work", "interrupted", "compact"} : Works(kind)
  BY <1>3 DEF Works, Write, Other, LineRecord, Text
<1> QED BY <1>1, <1>2, <1>3

LEMMA TypesAreNamed == TypeOK <=> Types
  BY DEF TypeOK, Types, CellState, Pc, LineRecord, Text

LEMMA InitType == Init => Types
<1> SUFFICES ASSUME Init PROVE Types OBVIOUS
<1>1. /\ transcript = <<>> /\ typed = {} /\ read = 0 /\ current = NoCell /\ slot = NoCell
      /\ timers = {} /\ givingUp = {} /\ closed = FALSE /\ claim = {}
      /\ lost = {} /\ blurred = {} /\ unsaid = {}
  BY DEF Init
<1>2. cell \in [Place -> CellState] BY Places DEF Init, Absent, CellState
<1>3. run \in [Run -> [pc : Pc, cell : Cell \cup {NoCell}, from : 0..MaxLines]]
  BY DEF Init, Pc
<1>4. transcript \in Seq(LineRecord) /\ read \in 0..Len(transcript) BY <1>1
<1> QED BY <1>1, <1>2, <1>3, <1>4 DEF Types

\* What ends a cell changes its state only.
LEMMA FinishEnds ==
  ASSUME NEW cells \in [Place -> CellState], NEW c \in Place \cup {NoCell}, NEW status \in Ended
  PROVE  /\ Finish(cells, c, status) \in [Place -> CellState]
         /\ \A d \in Place :
              /\ Finish(cells, c, status)[d].line = cells[d].line
              /\ Finish(cells, c, status)[d].work = cells[d].work
              /\ Finish(cells, c, status)[d].state = IF d = c THEN status ELSE cells[d].state
<1>1. CASE c = NoCell BY <1>1, Places DEF Finish
<1>2. CASE c \in Place
  <2>1. [cells[c] EXCEPT !.state = status] \in CellState BY <1>2 DEF CellState
  <2>2. Finish(cells, c, status) = [cells EXCEPT ![c] = [cells[c] EXCEPT !.state = status]]
    BY <1>2, Places DEF Finish
  <2>3. \A d \in Place : cells[d] \in CellState OBVIOUS
  <2>4. /\ [cells[c] EXCEPT !.state = status].line = cells[c].line
        /\ [cells[c] EXCEPT !.state = status].work = cells[c].work
        /\ [cells[c] EXCEPT !.state = status].state = status
    BY <1>2, <2>3 DEF CellState
  <2> QED BY <1>2, <2>1, <2>2, <2>4
<1> QED BY <1>1, <1>2

\* A cell's line, or the work under it, is changed.
LEMMA CellChanges ==
  ASSUME NEW cells \in [Place -> CellState], NEW c \in Place, NEW l \in Line
  PROVE  /\ [cells EXCEPT ![c].line = l] \in [Place -> CellState]
         /\ [cells EXCEPT ![c].work = @ \cup {l}] \in [Place -> CellState]
         /\ [cells EXCEPT ![c].line = l][c] = [cells[c] EXCEPT !.line = l]
         /\ [cells EXCEPT ![c].work = @ \cup {l}][c] = [cells[c] EXCEPT !.work = @ \cup {l}]
         /\ cells[c] \in CellState
         /\ \A d \in Place \ {c} : /\ [cells EXCEPT ![c].line = l][d] = cells[d]
                                   /\ [cells EXCEPT ![c].work = @ \cup {l}][d] = cells[d]
<1>1. cells[c] \in CellState OBVIOUS
<1>2. [cells[c] EXCEPT !.line = l] \in CellState BY <1>1, Places DEF CellState
<1>3. [cells[c] EXCEPT !.work = @ \cup {l}] \in CellState BY <1>1 DEF CellState
<1>4. [cells EXCEPT ![c].line = l] = [cells EXCEPT ![c] = [cells[c] EXCEPT !.line = l]] OBVIOUS
<1>5. [cells EXCEPT ![c].work = @ \cup {l}]
        = [cells EXCEPT ![c] = [cells[c] EXCEPT !.work = @ \cup {l}]] OBVIOUS
<1> QED BY <1>1, <1>2, <1>3, <1>4, <1>5

LEMMA StaleTimers ==
  ASSUME timers \subseteq [cell : Cell, stale : BOOLEAN]
  PROVE  Stale \subseteq [cell : Cell, stale : BOOLEAN] /\ \A t \in Stale : t.stale
<1>1. ASSUME NEW t \in timers
      PROVE  /\ [t EXCEPT !.stale = TRUE] \in [cell : Cell, stale : BOOLEAN]
             /\ [t EXCEPT !.stale = TRUE].stale
  <2>1. t \in [cell : Cell, stale : BOOLEAN] OBVIOUS
  <2> QED BY <2>1
<1> QED BY <1>1 DEF Stale

\* A cell that is as it was but for its state.
Restated(d, state) ==
  /\ cell'[d].line = cell[d].line /\ cell'[d].work = cell[d].work
  /\ cell'[d].state = state

\* An end of c was logged, or refused.
EndLogged(c, status) ==
  /\ cell' \in [Place -> CellState] /\ unsaid' \subseteq Place
  /\ \/ cell' = cell /\ unsaid' = unsaid \cup Some(c)
     \/ /\ unsaid' = unsaid
        /\ \A d \in Place : Restated(d, IF d = c THEN status ELSE cell[d].state)

LEMMA EndsAreLogged ==
  ASSUME Types, NEW c \in Place \cup {NoCell}, NEW status \in Ended, LogEnd(c, status)
  PROVE  EndLogged(c, status)
<1>1. cell \in [Place -> CellState] BY DEF Types
<1>2. CASE unsaid' = unsaid \cup Some(c) /\ UNCHANGED cell
  BY <1>1, <1>2 DEF EndLogged, Some, Types
<1>3. CASE cell' = Finish(cell, c, status) /\ UNCHANGED unsaid
  <2> DEFINE ended == Finish(cell, c, status)
  <2>1. /\ ended \in [Place -> CellState]
        /\ \A d \in Place : /\ ended[d].line = cell[d].line /\ ended[d].work = cell[d].work
                            /\ ended[d].state = IF d = c THEN status ELSE cell[d].state
    BY <1>1, c \in Place \cup {NoCell}, status \in Ended, FinishEnds DEF Ended
  <2>2. cell' = ended /\ unsaid' = unsaid /\ unsaid' \subseteq Place BY <1>3 DEF Types
  <2> HIDE DEF ended
  <2>3. \A d \in Place : Restated(d, IF d = c THEN status ELSE cell[d].state)
    BY <2>1, <2>2 DEF Restated
  <2> QED BY <2>1, <2>2, <2>3 DEF EndLogged
<1> QED BY <1>2, <1>3 DEF LogEnd

------------------------------------------------------------------------------
\* What a line does, cell by cell.

Adopts ==
  /\ slot # NoCell /\ current' = slot /\ slot' = NoCell /\ unsaid' = unsaid
  /\ \E end \in Ended : \A d \in Place :
       /\ cell'[d].line = IF d = slot THEN Here ELSE cell[d].line
       /\ cell'[d].work = cell[d].work
       /\ cell'[d].state = IF d = current THEN end ELSE cell[d].state

Opens ==
  /\ current' = Here /\ slot' = NoCell /\ unsaid' = unsaid
  /\ cell'[Here] = [state |-> "running", line |-> Here, work |-> {}]
  /\ \E end \in Ended : \A d \in Place \ {Here} :
       Restated(d, IF d = slot THEN "interrupted" ELSE IF d = current THEN end ELSE cell[d].state)

Refuses ==
  /\ current' = NoCell /\ slot' = NoCell /\ cell' = cell
  /\ unsaid' = unsaid \cup Some(current) \cup Some(slot)

Settles ==
  /\ current' = NoCell /\ UNCHANGED <<slot, timers>>
  /\ \E end \in Ended : EndLogged(current, end)

Compacts ==
  /\ current' = NoCell /\ UNCHANGED <<slot, timers, unsaid>>
  /\ cell'[Here] = [state |-> "ok", line |-> Here, work |-> {}]
  /\ \A d \in Place \ {Here} : Restated(d, IF d = current THEN "ok" ELSE cell[d].state)

OpensUnprompted ==
  /\ current = NoCell /\ current' = Here /\ UNCHANGED <<slot, timers, unsaid>>
  /\ cell'[Here] = [state |-> "running", line |-> 0, work |-> {Here}]
  /\ \A d \in Place \ {Here} : cell'[d] = cell[d]

Continues ==
  /\ current # NoCell /\ current' = current /\ UNCHANGED <<slot, timers, unsaid>>
  /\ cell'[current].state = cell[current].state /\ cell'[current].line = cell[current].line
  /\ cell'[current].work = cell[current].work \cup {Here}
  /\ \A d \in Place \ {current} : cell'[d] = cell[d]

LineTaken ==
  \/ /\ transcript[Here].kind = "prompt"
     /\ Adopts \/ (Opens /\ ~Matches(transcript[Here].text)) \/ Refuses
  \/ transcript[Here].kind \in {"interrupted", "compact"} /\ Settles
  \/ transcript[Here].kind = "compact" /\ Compacts
  \/ /\ transcript[Here].kind = "work"
     /\ OpensUnprompted \/ Continues \/ UNCHANGED <<cell, current, slot, timers, unsaid>>

LEMMA LinesAreTaken ==
  ASSUME Types, AheadIsAbsent, Ingest
  PROVE  /\ Here \in Line /\ Here \in 1..Len(transcript) /\ read' = Here
         /\ ~closed
         /\ UNCHANGED <<transcript, typed, givingUp, closed, claim, run, lost, blurred>>
         /\ cell' \in [Place -> CellState] /\ unsaid' \subseteq Place
         /\ timers' \subseteq [cell : Cell, stale : BOOLEAN]
         /\ LineTaken
<1> DEFINE line == transcript[Here]
<1> DEFINE Goal == /\ cell' \in [Place -> CellState] /\ unsaid' \subseteq Place
                   /\ timers' \subseteq [cell : Cell, stale : BOOLEAN] /\ LineTaken
<1>1. Here \in Line /\ Here \in 1..Len(transcript) /\ line \in LineRecord /\ ~closed
  <2>1. Here \in 1..Len(transcript) BY DEF Types, Ingest, Here
  <2>2. line \in LineRecord BY <2>1 DEF Types
  <2>3. Here \in Line BY <2>1, Places DEF AheadIsAbsent, Types
  <2> QED BY <2>1, <2>2, <2>3 DEF Ingest
<1>2. cell \in [Place -> CellState] /\ Here \in Place BY <1>1, Places DEF Types
<1>3. ASSUME NEW end \in {"ok", "interrupted"}, NEW refusing \in BOOLEAN,
             line.kind = "prompt", IngestPrompt(line.text, end, refusing)
      PROVE  Goal
  <2> DEFINE settled == Finish(cell, current, end)
  <2>1. /\ settled \in [Place -> CellState]
        /\ \A d \in Place : /\ settled[d].line = cell[d].line /\ settled[d].work = cell[d].work
                            /\ settled[d].state = IF d = current THEN end ELSE cell[d].state
    BY <1>2, FinishEnds DEF Types, Ended
  <2>2. timers' \subseteq [cell : Cell, stale : BOOLEAN]
    BY <1>3, StaleTimers DEF IngestPrompt, Types
  <2>3. CASE ~refusing /\ Matches(line.text)
    <3>1. slot \in Place BY <2>3, Places DEF Matches, Types
    <3>2. /\ cell' = [settled EXCEPT ![slot].line = Here]
          /\ current' = slot /\ slot' = NoCell /\ unsaid' = unsaid
      BY <1>3, <2>3 DEF IngestPrompt
    <3>3. cell' \in [Place -> CellState] /\ settled[slot] \in CellState
          /\ cell'[slot] = [settled[slot] EXCEPT !.line = Here]
          /\ \A d \in Place \ {slot} : cell'[d] = settled[d]
      BY <1>1, <2>1, <3>1, <3>2, CellChanges
    <3>4. /\ cell'[slot].line = Here /\ cell'[slot].work = settled[slot].work
          /\ cell'[slot].state = settled[slot].state
      BY <3>3 DEF CellState
    <3>5. Adopts BY <2>1, <2>3, <3>1, <3>2, <3>3, <3>4 DEF Adopts, Matches, Ended
    <3> QED BY <1>3, <2>2, <3>2, <3>3, <3>5 DEF LineTaken, Types
  <2>4. CASE ~refusing /\ ~Matches(line.text)
    <3> DEFINE both == Finish(settled, slot, "interrupted")
               new == [state |-> "running", line |-> Here, work |-> {}]
    <3>1. /\ both \in [Place -> CellState]
          /\ \A d \in Place : /\ both[d].line = settled[d].line /\ both[d].work = settled[d].work
                              /\ both[d].state = IF d = slot THEN "interrupted" ELSE settled[d].state
      <4> HIDE DEF settled
      <4> QED BY <2>1, Places, FinishEnds DEF Types, Ended
    <3>2. /\ cell' = [both EXCEPT ![Here] = new]
          /\ current' = Here /\ slot' = NoCell /\ unsaid' = unsaid
      BY <1>3, <2>4 DEF IngestPrompt
    <3>3. new \in CellState BY <1>1, Places DEF CellState
    <3> HIDE DEF both, settled, new
    <3>4. /\ cell' \in [Place -> CellState] /\ cell'[Here] = new
          /\ \A d \in Place \ {Here} : cell'[d] = both[d]
      BY <1>2, <3>1, <3>2, <3>3
    <3>5. Opens BY <2>1, <3>1, <3>2, <3>4 DEF Opens, Restated, Ended, new
    <3> QED BY <1>3, <2>2, <2>4, <3>2, <3>4, <3>5 DEF LineTaken, Types
  <2>5. CASE refusing
    <3>1. /\ current' = NoCell /\ slot' = NoCell /\ cell' = cell
          /\ unsaid' = unsaid \cup Some(current) \cup Some(slot)
      BY <1>3, <2>5 DEF IngestPrompt, AfterSettling
    <3>2. unsaid' \subseteq Place BY <3>1, Places DEF Types, Some
    <3> QED BY <1>2, <1>3, <2>2, <3>1, <3>2 DEF LineTaken, Refuses
  <2> QED BY <2>3, <2>4, <2>5
<1>4. ASSUME line.kind = "interrupted", Settle("interrupted"), UNCHANGED <<slot, timers>>
      PROVE  Goal
  <2>1. EndLogged(current, "interrupted") BY <1>4, EndsAreLogged DEF Settle, Types, Ended
  <2>2. Settles BY <1>4, <2>1 DEF Settle, Settles, AfterSettling, Ended
  <2> QED BY <1>4, <2>1, <2>2 DEF LineTaken, EndLogged, Types
<1>5. ASSUME line.kind = "compact", IngestCompact PROVE Goal
  <2> DEFINE settled == Finish(cell, current, "ok")
             new == [state |-> "ok", line |-> Here, work |-> {}]
  <2>1. /\ settled \in [Place -> CellState]
        /\ \A d \in Place : /\ settled[d].line = cell[d].line /\ settled[d].work = cell[d].work
                            /\ settled[d].state = IF d = current THEN "ok" ELSE cell[d].state
    BY <1>2, FinishEnds DEF Types, Ended
  <2>2. new \in CellState BY <1>1, Places DEF CellState, Ended
  <2>3. CASE cell' = [settled EXCEPT ![Here] = new] /\ UNCHANGED unsaid
    <3> HIDE DEF settled, new
    <3>1. /\ cell' \in [Place -> CellState] /\ cell'[Here] = new
          /\ \A d \in Place \ {Here} : cell'[d] = settled[d]
      BY <1>2, <2>1, <2>2, <2>3
    <3>2. Compacts BY <1>5, <2>1, <2>3, <3>1 DEF Compacts, IngestCompact, Restated, new
    <3> QED BY <1>5, <2>3, <3>1, <3>2 DEF LineTaken, Types, IngestCompact
  <2>4. CASE unsaid' = unsaid \cup Some(current) /\ UNCHANGED cell
    <3>1. EndLogged(current, "ok") BY <1>2, <2>4 DEF EndLogged, Types, Some
    <3>2. Settles BY <1>5, <3>1 DEF Settles, IngestCompact, Ended
    <3> QED BY <1>5, <3>1, <3>2 DEF LineTaken, Types, IngestCompact, EndLogged
  <2> QED BY <1>5, <2>3, <2>4 DEF IngestCompact
<1>6. ASSUME line.kind = "work", IngestWork PROVE Goal
  <2> DEFINE new == [state |-> "running", line |-> 0, work |-> {Here}]
  <2>1. new \in CellState BY <1>1, Places DEF CellState
  <2>2. CASE current = NoCell /\ cell' = [cell EXCEPT ![Here] = new] /\ current' = Here
             /\ UNCHANGED <<slot, timers, unsaid>>
    <3> HIDE DEF new
    <3>1. /\ cell' \in [Place -> CellState] /\ cell'[Here] = new
          /\ \A d \in Place \ {Here} : cell'[d] = cell[d]
      BY <1>2, <2>1, <2>2
    <3> QED BY <1>6, <2>2, <3>1 DEF LineTaken, OpensUnprompted, Types, new
  <2>3. CASE current # NoCell /\ cell' = [cell EXCEPT ![current].work = @ \cup {Here}]
             /\ current' = current /\ UNCHANGED <<slot, timers, unsaid>>
    <3>1. current \in Place BY <2>3 DEF Types
    <3>2. /\ cell' \in [Place -> CellState] /\ cell[current] \in CellState
          /\ cell'[current] = [cell[current] EXCEPT !.work = @ \cup {Here}]
          /\ \A d \in Place \ {current} : cell'[d] = cell[d]
      BY <1>1, <1>2, <2>3, <3>1, CellChanges
    <3>3. /\ cell'[current].state = cell[current].state
          /\ cell'[current].line = cell[current].line
          /\ cell'[current].work = cell[current].work \cup {Here}
      BY <3>2 DEF CellState
    <3> QED BY <1>6, <2>3, <3>2, <3>3 DEF LineTaken, Continues, Types
  <2>4. CASE UNCHANGED <<cell, current, slot, timers, unsaid>>
    BY <1>2, <1>6, <2>4 DEF LineTaken, Types
  <2> QED BY <1>6, <2>2, <2>3, <2>4 DEF IngestWork
<1>7. Goal
  <2>1. Refusals \subseteq BOOLEAN BY DEF Refusals
  <2> HIDE DEF Goal
  <2> QED BY <1>3, <1>4, <1>5, <1>6, <2>1 DEF Ingest
<1> QED BY <1>1, <1>7 DEF Ingest

\* Sending a cell makes it run.
LEMMA CellIsStarted ==
  ASSUME Types, NEW r \in Run, NEW c \in Cell, Start(r, c)
  PROVE  /\ cell' \in [Place -> CellState]
         /\ cell'[c].state = "running" /\ cell'[c].work = {}
         /\ \A d \in Place \ {c} : cell'[d] = cell[d]
<1>1. c \in Place /\ cell \in [Place -> CellState] BY Places DEF Types
<1>2. cell[c] \in CellState BY <1>1
<1> DEFINE new == [cell[c] EXCEPT !.state = "running", !.work = {}]
<1>3. new \in CellState /\ new.state = "running" /\ new.work = {} BY <1>2 DEF CellState
<1>4. cell' = [cell EXCEPT ![c] = new] BY <1>1 DEF Start
<1> HIDE DEF new
<1> QED BY <1>1, <1>3, <1>4

\* A send that moves on is where it went, on the same cell.
LEMMA SendMoves ==
  ASSUME Types, NEW r \in Run, NEW pc \in Pc, Goto(r, pc)
  PROVE  /\ run' \in [Run -> [pc : Pc, cell : Cell \cup {NoCell}, from : 0..MaxLines]]
         /\ run'[r].pc = pc /\ run'[r].cell = run[r].cell /\ run'[r].from = run[r].from
         /\ \A q \in Run \ {r} : run'[q] = run[q]
<1> DEFINE Record == [pc : Pc, cell : Cell \cup {NoCell}, from : 0..MaxLines]
           moved == [run[r] EXCEPT !.pc = pc]
<1>1. run \in [Run -> Record] /\ run[r] \in Record BY DEF Types
<1>2. /\ moved \in Record /\ moved.pc = pc
      /\ moved.cell = run[r].cell /\ moved.from = run[r].from
  BY <1>1
<1>3. run' = [run EXCEPT ![r] = moved] BY DEF Goto
<1> HIDE DEF moved, Record
<1>4. run' \in [Run -> Record] /\ run'[r] = moved /\ \A q \in Run \ {r} : run'[q] = run[q]
  BY <1>1, <1>2, <1>3
<1> QED BY <1>2, <1>4 DEF Record

LEMMA SendIsRegistered ==
  ASSUME Types, AheadIsAbsent, NEW r \in Run, AwaitAdoption(r)
  PROVE  /\ run' \in [Run -> [pc : Pc, cell : Cell \cup {NoCell}, from : 0..MaxLines]]
         /\ run'[r].pc = "awaiting" /\ run'[r].cell = run[r].cell /\ run'[r].from = read
         /\ \A q \in Run \ {r} : run'[q] = run[q]
<1> DEFINE Record == [pc : Pc, cell : Cell \cup {NoCell}, from : 0..MaxLines]
           moved == [run[r] EXCEPT !.pc = "awaiting", !.from = read]
<1>1. run \in [Run -> Record] /\ run[r] \in Record BY DEF Types
<1>2. read \in 0..MaxLines BY DEF Types, AheadIsAbsent
<1>3. /\ moved \in Record /\ moved.pc = "awaiting"
      /\ moved.cell = run[r].cell /\ moved.from = read
  BY <1>1, <1>2 DEF Pc
<1>4. run' = [run EXCEPT ![r] = moved] BY DEF AwaitAdoption
<1> HIDE DEF moved, Record
<1>5. run' \in [Run -> Record] /\ run'[r] = moved /\ \A q \in Run \ {r} : run'[q] = run[q]
  BY <1>1, <1>3, <1>4
<1> QED BY <1>3, <1>5 DEF Record

------------------------------------------------------------------------------
\* Types, and who holds which cell.

LEMMA TypesStep ==
  ASSUME Types, SendsHoldTheirCells, AheadIsAbsent, [Next]_vars PROVE Types'
<1>1. CASE \/ \E r \in Run : Echo(r)
           \/ \E text \in Typed : TypedIn(text)
           \/ \E kind \in {"work", "interrupted", "compact"} : Works(kind)
  <2>1. PICK line \in LineRecord : transcript' = Append(transcript, line) BY <1>1, CliWrites
  <2>2. transcript' \in Seq(LineRecord) /\ read \in 0..Len(transcript') BY <2>1 DEF Types
  <2> QED BY <1>1, <2>2, CliWrites DEF Types, projector, history
<1>2. ASSUME NEW r \in Run, NEW c \in Cell, Start(r, c) PROVE Types'
  <2>1. cell' \in [Place -> CellState] BY <1>2, CellIsStarted
  <2>2. run' \in [Run -> [pc : Pc, cell : Cell \cup {NoCell}, from : 0..MaxLines]]
    BY <1>2 DEF Start, Types, Pc
  <2> QED BY <1>2, <2>1, <2>2, Places DEF Start, Types, projector
<1>3. ASSUME NEW r \in Run, AwaitAdoption(r) PROVE Types'
  <2>1. run[r].cell \in Cell BY <1>3 DEF AwaitAdoption, SendsHoldTheirCells
  <2>2. timers' \subseteq [cell : Cell, stale : BOOLEAN]
    <3>1. [cell |-> run[r].cell, stale |-> FALSE] \in [cell : Cell, stale : BOOLEAN] BY <2>1
    <3> QED BY <1>3, <3>1, StaleTimers DEF AwaitAdoption, Types
  <2>3. slot' \in Cell /\ lost' \subseteq Place
    BY <1>3, <2>1, Places DEF AwaitAdoption, Types, Overwritten, Some
  <2> QED BY <1>3, <2>2, <2>3, SendIsRegistered DEF AwaitAdoption, Types
<1>4. ASSUME NEW r \in Run, SendToSession(r) PROVE Types'
  <2>1. run[r].cell \in Cell BY <1>4 DEF SendToSession, SendsHoldTheirCells
  <2>2. \E pc \in {"sent", "failing"} : Goto(r, pc) BY <1>4 DEF SendToSession
  <2> QED BY <1>4, <2>1, <2>2, SendMoves, Places DEF SendToSession, Types, projector, Pc
<1>5. ASSUME NEW r \in Run, Delivered(r) PROVE Types'
  BY <1>5, SendMoves DEF Delivered, Types, projector, history, Pc
<1>6. ASSUME NEW r \in Run, CancelAdoption(r) PROVE Types'
  <2>1. run[r].cell \in Cell BY <1>6 DEF CancelAdoption, SendsHoldTheirCells
  <2> QED BY <1>6, <2>1, SendMoves, StaleTimers, Places DEF CancelAdoption, Types, Pc
<1>7. ASSUME NEW r \in Run, Report(r) PROVE Types'
  <2>1. run[r].cell \in Cell BY <1>7 DEF Report, SendsHoldTheirCells
  <2>2. EndLogged(run[r].cell, "error")
    BY <1>7, <2>1, EndsAreLogged, Places DEF Report, Ended
  <2> QED BY <1>7, <2>2, SendMoves DEF Report, EndLogged, Types, projector, Pc
<1>8. CASE Ingest
  <2>1. current' \in Place \cup {NoCell} /\ slot' \in Cell \cup {NoCell}
    BY <1>8, LinesAreTaken, Places
       DEF LineTaken, Adopts, Opens, Refuses, Settles, Compacts, OpensUnprompted, Continues, Types
  <2>2. read' \in 0..Len(transcript') /\ transcript' \in Seq(LineRecord)
    BY <1>8, LinesAreTaken DEF Types
  <2>3. /\ UNCHANGED <<typed, givingUp, closed, claim, run, lost, blurred>>
        /\ cell' \in [Place -> CellState] /\ unsaid' \subseteq Place
        /\ timers' \subseteq [cell : Cell, stale : BOOLEAN]
    BY <1>8, LinesAreTaken
  <2> QED BY <1>8, <2>1, <2>2, <2>3, LinesAreTaken DEF Types
<1>9. ASSUME NEW t \in timers, GiveUp(t) PROVE Types'
  <2>1. t.cell \in Cell BY DEF Types
  <2>2. /\ timers' \subseteq timers /\ slot' \in {slot, NoCell} /\ givingUp' \subseteq Cell
        /\ UNCHANGED <<transcript, typed, cell, read, current, closed, claim, run, history>>
    BY <1>9, <2>1 DEF GiveUp, Types
  <2>3. timers' \subseteq [cell : Cell, stale : BOOLEAN] BY <2>2 DEF Types
  <2> QED BY <2>2, <2>3 DEF Types, history
<1>10. ASSUME NEW c \in Cell, WriteGivenUp(c) PROVE Types'
  <2>1. EndLogged(c, "error") BY <1>10, EndsAreLogged, Places DEF WriteGivenUp, Ended
  <2> QED BY <1>10, <2>1 DEF WriteGivenUp, EndLogged, Types
<1>11. CASE Close
  <2>1. EndLogged(current, "ok") BY <1>11, EndsAreLogged DEF Close, Settle, Types, Ended
  <2> QED BY <1>11, <2>1, Places DEF Close, Settle, AfterSettling, EndLogged, Types, Some
<1>12. CASE UNCHANGED vars
  BY <1>12 DEF vars, projector, history, Types
<1> QED
  BY <1>1, <1>2, <1>3, <1>4, <1>5, <1>6, <1>7, <1>8, <1>9, <1>10, <1>11, <1>12 DEF Next, Sending

\* A send that moves on keeps its cell, and its claim until it is over.
LEMMA SendsMoveOn ==
  ASSUME Types, SendsHoldTheirCells, FailingIsBlurred,
         NEW r \in Run, Active(r),
         run'[r].cell = run[r].cell, run'[r].pc # "idle",
         \A q \in Run \ {r} : run'[q] = run[q],
         typed' \subseteq typed \cup {r},
         \/ claim' = claim
         \/ claim' = claim \ {run[r].cell} /\ run'[r].pc = "done",
         blurred \subseteq blurred',
         run'[r].pc = "failing" => run[r].cell \in blurred'
  PROVE  SendsHoldTheirCells' /\ FailingIsBlurred'
<1>1. \A q \in Run : run'[q].cell = run[q].cell OBVIOUS
<1>2. \A q \in Run : Active(q)' => Active(q) BY DEF Active
<1>3. \A q \in Run : run[q].pc # "idle" => run[q].cell \in Cell BY DEF SendsHoldTheirCells
<1>4. \A q \in Run : run'[q].pc # "idle" => run[q].pc # "idle" BY DEF Active
<1>5. \A q \in typed' : run'[q].pc # "idle" BY DEF SendsHoldTheirCells, Types
<1>6. ASSUME NEW q \in Run, Active(q)' PROVE run'[q].cell \in claim'
  <2>1. run[q].cell \in claim BY <1>2, <1>6 DEF SendsHoldTheirCells
  <2>2. q # r => run[q].cell # run[r].cell BY <1>2, <1>6 DEF SendsHoldTheirCells
  <2>3. q = r => run'[r].pc # "done" BY <1>6 DEF Active
  <2> QED BY <1>1, <2>1, <2>2, <2>3
<1>7. \A p, q \in Run : Active(p)' /\ Active(q)' /\ run'[p].cell = run'[q].cell => p = q
  BY <1>1, <1>2 DEF SendsHoldTheirCells
<1>8. FailingIsBlurred' BY <1>1 DEF FailingIsBlurred
<1> QED BY <1>1, <1>3, <1>4, <1>5, <1>6, <1>7, <1>8 DEF SendsHoldTheirCells

LEMMA SendsStep ==
  ASSUME Types, SendsHoldTheirCells, FailingIsBlurred, AheadIsAbsent, [Next]_vars
  PROVE  SendsHoldTheirCells' /\ FailingIsBlurred'
<1> DEFINE Goal == SendsHoldTheirCells' /\ FailingIsBlurred'
<1>1. CASE \/ \E r \in Run : Echo(r)
           \/ \E text \in Typed : TypedIn(text)
           \/ \E kind \in {"work", "interrupted", "compact"} : Works(kind)
  <2>1. typed' \subseteq typed /\ UNCHANGED <<claim, run, blurred>>
    BY <1>1, CliWrites DEF history
  <2> QED BY <2>1 DEF SendsHoldTheirCells, FailingIsBlurred, Active
<1>2. ASSUME NEW r \in Run, NEW c \in Cell, Start(r, c) PROVE Goal
  <2>1. run'[r].pc = "started" /\ run'[r].cell = c /\ \A q \in Run \ {r} : run'[q] = run[q]
    BY <1>2 DEF Start, Types
  <2>2. typed' = typed /\ claim' = claim \cup {c} /\ c \notin claim /\ blurred \subseteq blurred'
    BY <1>2 DEF Start
  <2>3. \A q \in Run : Active(q) => run[q].cell # c BY <2>2 DEF SendsHoldTheirCells
  <2>4. \A q \in Run : run'[q].pc # "idle" => run'[q].cell \in Cell
    BY <2>1 DEF SendsHoldTheirCells
  <2>5. \A q \in typed' : run'[q].pc # "idle" BY <2>1, <2>2 DEF SendsHoldTheirCells, Types
  <2>6. \A q \in Run : Active(q)' => run'[q].cell \in claim'
    BY <2>1, <2>2 DEF SendsHoldTheirCells, Active
  <2>7. \A p, q \in Run : Active(p)' /\ Active(q)' /\ run'[p].cell = run'[q].cell => p = q
    BY <2>1, <2>3 DEF SendsHoldTheirCells, Active
  <2>8. FailingIsBlurred' BY <2>1, <2>2 DEF FailingIsBlurred
  <2> QED BY <2>4, <2>5, <2>6, <2>7, <2>8 DEF SendsHoldTheirCells
<1>3. ASSUME NEW r \in Run, AwaitAdoption(r) PROVE Goal
  BY <1>3, SendIsRegistered, SendsMoveOn DEF AwaitAdoption, Active
<1>4. ASSUME NEW r \in Run, SendToSession(r) PROVE Goal
  <2>1. PICK pc \in {"sent", "failing"} : Goto(r, pc) /\ (pc = "failing" => run[r].cell \in blurred')
    BY <1>4 DEF SendToSession
  <2>2. /\ run'[r].pc = pc /\ run'[r].cell = run[r].cell
        /\ \A q \in Run \ {r} : run'[q] = run[q]
    BY <2>1, SendMoves DEF Pc
  <2> QED BY <1>4, <2>1, <2>2, SendsMoveOn DEF SendToSession, Active
<1>5. ASSUME NEW r \in Run, Delivered(r) PROVE Goal
  BY <1>5, SendMoves, SendsMoveOn DEF Delivered, Active, history, Pc
<1>6. ASSUME NEW r \in Run, CancelAdoption(r) PROVE Goal
  BY <1>6, SendMoves, SendsMoveOn DEF CancelAdoption, Active, Pc
<1>7. ASSUME NEW r \in Run, Report(r) PROVE Goal
  BY <1>7, SendMoves, SendsMoveOn DEF Report, Active, Pc
<1>8. CASE UNCHANGED <<typed, claim, run, blurred>>
  BY <1>8 DEF SendsHoldTheirCells, FailingIsBlurred, Active
<1> QED
  BY <1>1, <1>2, <1>3, <1>4, <1>5, <1>6, <1>7, <1>8
     DEF Next, Sending, Ingest, GiveUp, WriteGivenUp, Close, vars, history

------------------------------------------------------------------------------
\* The cells that are open: taken by a send, waiting, current, or given up on.

Turns == StartedIsFree /\ SlotIsFree /\ OpenTurnRuns /\ GivenUpRuns /\ AheadIsAbsent

LEMMA TurnsStep ==
  ASSUME Types, SendsHoldTheirCells, FailingIsBlurred, Turns, [Next]_vars
  PROVE  Turns'
<1> USE Places DEF Turns
<1>1. CASE \/ \E r \in Run : Echo(r)
           \/ \E text \in Typed : TypedIn(text)
           \/ \E kind \in {"work", "interrupted", "compact"} : Works(kind)
  <2>1. PICK line \in LineRecord : transcript' = Append(transcript, line) BY <1>1, CliWrites
  <2>2. Len(transcript') <= MaxLines BY <1>1, <2>1, CliWrites DEF Types
  <2>3. UNCHANGED <<cell, read, current, slot, givingUp, run, blurred>>
    BY <1>1, CliWrites DEF projector, history
  <2> QED
    BY <2>2, <2>3 DEF StartedIsFree, SlotIsFree, OpenTurnRuns, GivenUpRuns, AheadIsAbsent
<1>2. ASSUME NEW r \in Run, NEW c \in Cell, Start(r, c) PROVE Turns'
  <2>1. /\ run'[r].pc = "started" /\ run'[r].cell = c /\ \A q \in Run \ {r} : run'[q] = run[q]
        /\ UNCHANGED <<transcript, read, current, slot, givingUp>>
        /\ blurred' = IF c \in {current, slot} \cup givingUp THEN blurred \cup {c} ELSE blurred
    BY <1>2 DEF Start, Types, projector
  <2>2. /\ cell'[c].state = "running" /\ cell'[c].work = {}
        /\ \A d \in Place \ {c} : cell'[d] = cell[d]
    BY <1>2, CellIsStarted
  <2>3. StartedIsFree'
    <3> SUFFICES ASSUME NEW q \in Run, run'[q].pc = "started", run'[q].cell \notin blurred'
                 PROVE  /\ cell'[run'[q].cell].state = "running" /\ cell'[run'[q].cell].work = {}
                        /\ run'[q].cell \notin givingUp' \cup {current', slot'}
      BY DEF StartedIsFree
    <3>1. CASE q = r BY <2>1, <2>2, <3>1
    <3>2. CASE q # r
      <4>1. run[q].cell \in Cell /\ run[q].cell \in claim
        BY <2>1, <3>2 DEF SendsHoldTheirCells, Active
      <4>2. run[q].cell # c BY <1>2, <4>1 DEF Start
      <4> QED BY <2>1, <2>2, <3>2, <4>1, <4>2 DEF StartedIsFree
    <3> QED BY <3>1, <3>2
  <2>4. SlotIsFree' BY <2>1, <2>2 DEF SlotIsFree, Types
  <2>5. OpenTurnRuns' BY <2>1, <2>2 DEF OpenTurnRuns, Types
  <2>6. GivenUpRuns' BY <2>1, <2>2 DEF GivenUpRuns, Types
  <2>7. AheadIsAbsent' BY <2>1, <2>2 DEF AheadIsAbsent
  <2> QED BY <2>3, <2>4, <2>5, <2>6, <2>7
<1>3. ASSUME NEW r \in Run, AwaitAdoption(r) PROVE Turns'
  <2>1. /\ run'[r].pc = "awaiting" /\ \A q \in Run \ {r} : run'[q] = run[q]
        /\ run[r].pc = "started" /\ run[r].cell \in Cell /\ slot' = run[r].cell
        /\ UNCHANGED <<transcript, cell, read, current, givingUp, blurred>>
    BY <1>3, SendIsRegistered DEF AwaitAdoption, SendsHoldTheirCells
  <2>2. \A q \in Run : run'[q].pc = "started" =>
          run'[q] = run[q] /\ run[q].cell # run[r].cell
    BY <2>1 DEF SendsHoldTheirCells, Active
  <2>3. StartedIsFree' BY <2>1, <2>2 DEF StartedIsFree
  <2>4. SlotIsFree' BY <2>1, <2>2 DEF SlotIsFree, StartedIsFree
  <2>5. OpenTurnRuns' BY <2>1, <2>2 DEF OpenTurnRuns
  <2>6. GivenUpRuns' BY <2>1, <2>2 DEF GivenUpRuns
  <2>7. AheadIsAbsent' BY <2>1, <2>2 DEF AheadIsAbsent
  <2> QED BY <2>3, <2>4, <2>5, <2>6, <2>7
<1>4. ASSUME NEW r \in Run,
             \/ SendToSession(r) \/ Delivered(r)
             \/ CancelAdoption(r)
      PROVE  Turns'
  <2>1. \E pc \in {"sent", "failing", "done"} : Goto(r, pc)
    BY <1>4 DEF SendToSession, Delivered, CancelAdoption
  <2>2. \A q \in Run : run'[q].pc = "started" => run'[q] = run[q]
    BY <2>1, SendMoves DEF Pc
  <2>3. /\ UNCHANGED <<transcript, cell, read, current, givingUp>>
        /\ slot' \in {slot, NoCell} /\ blurred \subseteq blurred'
    BY <1>4 DEF SendToSession, Delivered, CancelAdoption, projector, history
  <2>4. \A q \in Run : run[q].pc = "started" => run[q].cell \in Cell
    BY DEF SendsHoldTheirCells
  <2> QED
    BY <2>2, <2>3, <2>4 DEF StartedIsFree, SlotIsFree, OpenTurnRuns, GivenUpRuns, AheadIsAbsent
<1>5. ASSUME NEW r \in Run, Report(r) PROVE Turns'
  <2>1. run[r].cell \in Cell /\ run[r].cell \in blurred
    BY <1>5 DEF Report, SendsHoldTheirCells, FailingIsBlurred
  <2>2. EndLogged(run[r].cell, "error") BY <1>5, <2>1, EndsAreLogged DEF Report, Ended
  <2>3. \A q \in Run : run'[q].pc = "started" => run'[q] = run[q]
    BY <1>5, SendMoves DEF Report, Pc
  <2>4. UNCHANGED <<transcript, read, current, slot, givingUp, blurred>>
    BY <1>5 DEF Report, projector
  <2>5. \A d \in Place \ blurred : cell'[d].state = cell[d].state /\ cell'[d].work = cell[d].work
    BY <2>1, <2>2 DEF EndLogged, Restated
  <2>6. AheadIsAbsent' BY <2>1, <2>2, <2>4 DEF AheadIsAbsent, EndLogged, Restated
  <2>7. \A q \in Run : run[q].pc = "started" => run[q].cell \in Cell
    BY DEF SendsHoldTheirCells
  <2> QED
    BY <2>3, <2>4, <2>5, <2>6, <2>7 DEF StartedIsFree, SlotIsFree, OpenTurnRuns, GivenUpRuns, Types
<1>6. CASE Ingest
  <2>1. /\ Here \in Line /\ Here > read /\ read' = Here
        /\ UNCHANGED <<transcript, givingUp, run, blurred>>
        /\ LineTaken
    BY <1>6, LinesAreTaken DEF Types, Here
  <2>2. \A q \in Run : run[q].pc = "started" => run[q].cell \in Cell
    BY DEF SendsHoldTheirCells
  <2>3. givingUp \subseteq Cell /\ slot \in Cell \cup {NoCell} /\ current \in Place \cup {NoCell}
    BY DEF Types
  <2>4. \A l \in Line : l > Here => l > read BY <2>1 DEF Types
  <2> USE <2>1, <2>2, <2>3, <2>4
  <2>5. CASE Adopts
    <3>1. StartedIsFree' BY <2>5 DEF StartedIsFree, Adopts
    <3>2. SlotIsFree' BY <2>5 DEF SlotIsFree, Adopts
    <3>3. OpenTurnRuns' BY <2>5 DEF OpenTurnRuns, SlotIsFree, Adopts
    <3>4. GivenUpRuns' BY <2>5 DEF GivenUpRuns, SlotIsFree, Adopts
    <3>5. AheadIsAbsent' BY <2>5 DEF AheadIsAbsent, Adopts
    <3> QED BY <3>1, <3>2, <3>3, <3>4, <3>5
  <2>6. CASE Opens
    <3>1. StartedIsFree' BY <2>6 DEF StartedIsFree, Opens, Restated
    <3>2. SlotIsFree' BY <2>6 DEF SlotIsFree, Opens, Restated
    <3>3. OpenTurnRuns' BY <2>6 DEF OpenTurnRuns, Opens, Restated
    <3>4. GivenUpRuns' BY <2>6 DEF GivenUpRuns, SlotIsFree, Opens, Restated
    <3>5. AheadIsAbsent' BY <2>6 DEF AheadIsAbsent, Opens, Restated
    <3> QED BY <3>1, <3>2, <3>3, <3>4, <3>5
  <2>7. CASE Refuses
    <3>1. StartedIsFree' BY <2>7 DEF StartedIsFree, Refuses
    <3>2. SlotIsFree' BY <2>7 DEF SlotIsFree, Refuses
    <3>3. OpenTurnRuns' BY <2>7 DEF OpenTurnRuns, Refuses
    <3>4. GivenUpRuns' BY <2>7 DEF GivenUpRuns, Refuses
    <3>5. AheadIsAbsent' BY <2>7 DEF AheadIsAbsent, Refuses
    <3> QED BY <3>1, <3>2, <3>3, <3>4, <3>5
  <2>8. CASE Settles
    <3>1. \A d \in Place \ {current} :
            cell'[d].state = cell[d].state /\ cell'[d].work = cell[d].work
      BY <2>8 DEF Settles, EndLogged, Restated
    <3>2. current' = NoCell /\ slot' = slot BY <2>8 DEF Settles
    <3>3. StartedIsFree'
      <4> SUFFICES ASSUME NEW q \in Run, run[q].pc = "started", run[q].cell \notin blurred
                   PROVE  /\ cell'[run[q].cell].state = "running" /\ cell'[run[q].cell].work = {}
                          /\ run[q].cell \notin givingUp \cup {NoCell, slot}
        BY <3>2 DEF StartedIsFree
      <4>1. run[q].cell \in Place \ {current} BY DEF StartedIsFree
      <4> QED BY <3>1, <4>1 DEF StartedIsFree
    <3>4. SlotIsFree' BY <3>1, <3>2 DEF SlotIsFree
    <3>5. OpenTurnRuns' BY <3>1, <3>2 DEF OpenTurnRuns
    <3>6. GivenUpRuns' BY <3>1, <3>2 DEF GivenUpRuns
    <3>7. AheadIsAbsent' BY <3>1, <3>2 DEF AheadIsAbsent
    <3> QED BY <3>3, <3>4, <3>5, <3>6, <3>7
  <2>9. CASE Compacts
    <3>1. StartedIsFree' BY <2>9 DEF StartedIsFree, Compacts, Restated
    <3>2. SlotIsFree' BY <2>9 DEF SlotIsFree, Compacts, Restated
    <3>3. OpenTurnRuns' BY <2>9 DEF OpenTurnRuns, Compacts, Restated
    <3>4. GivenUpRuns' BY <2>9 DEF GivenUpRuns, Compacts, Restated
    <3>5. AheadIsAbsent' BY <2>9 DEF AheadIsAbsent, Compacts, Restated
    <3> QED BY <3>1, <3>2, <3>3, <3>4, <3>5
  <2>10. CASE OpensUnprompted
    <3>1. cell'[Here].state = "running" /\ \A d \in Place \ {Here} : cell'[d] = cell[d]
      BY <2>10 DEF OpensUnprompted
    <3>2. current' = Here /\ slot' = slot BY <2>10 DEF OpensUnprompted
    <3>3. StartedIsFree' BY <3>1, <3>2 DEF StartedIsFree
    <3>4. SlotIsFree' BY <3>1, <3>2 DEF SlotIsFree
    <3>5. OpenTurnRuns' BY <3>1, <3>2 DEF OpenTurnRuns
    <3>6. GivenUpRuns' BY <3>1, <3>2 DEF GivenUpRuns
    <3>7. AheadIsAbsent' BY <3>1, <3>2 DEF AheadIsAbsent
    <3> QED BY <3>3, <3>4, <3>5, <3>6, <3>7
  <2>11. CASE Continues
    <3>1. StartedIsFree' BY <2>11 DEF StartedIsFree, Continues
    <3>2. SlotIsFree' BY <2>11 DEF SlotIsFree, Continues
    <3>3. OpenTurnRuns' BY <2>11 DEF OpenTurnRuns, Continues
    <3>4. GivenUpRuns' BY <2>11 DEF GivenUpRuns, Continues
    <3>5. AheadIsAbsent' BY <2>11 DEF AheadIsAbsent, Continues
    <3> QED BY <3>1, <3>2, <3>3, <3>4, <3>5
  <2>12. CASE UNCHANGED <<cell, current, slot, timers, unsaid>>
    <3>1. StartedIsFree' BY <2>12 DEF StartedIsFree
    <3>2. SlotIsFree' BY <2>12 DEF SlotIsFree
    <3>3. OpenTurnRuns' BY <2>12 DEF OpenTurnRuns
    <3>4. GivenUpRuns' BY <2>12 DEF GivenUpRuns
    <3>5. AheadIsAbsent' BY <2>12 DEF AheadIsAbsent
    <3> QED BY <3>1, <3>2, <3>3, <3>4, <3>5
  <2> QED
    BY <2>5, <2>6, <2>7, <2>8, <2>9, <2>10, <2>11, <2>12 DEF LineTaken
<1>7. ASSUME NEW t \in timers, GiveUp(t) PROVE Turns'
  <2>1. /\ UNCHANGED <<transcript, cell, read, current, run, blurred>>
        /\ \/ slot' = NoCell /\ givingUp' = givingUp \cup {slot} /\ slot \in Cell
           \/ slot' = slot /\ givingUp' = givingUp
    BY <1>7 DEF GiveUp, StillAwaited, Types, history
  <2>2. \A q \in Run : run[q].pc = "started" => run[q].cell \in Cell
    BY DEF SendsHoldTheirCells
  <2> QED
    BY <2>1, <2>2 DEF StartedIsFree, SlotIsFree, OpenTurnRuns, GivenUpRuns, AheadIsAbsent
<1>8. ASSUME NEW c \in Cell, WriteGivenUp(c) PROVE Turns'
  <2>1. EndLogged(c, "error") BY <1>8, EndsAreLogged DEF WriteGivenUp, Ended
  <2>2. /\ UNCHANGED <<transcript, read, current, slot, run, blurred>>
        /\ c \in givingUp /\ givingUp' = givingUp \ {c}
    BY <1>8 DEF WriteGivenUp
  <2>3. \A d \in Place \ {c} : cell'[d].state = cell[d].state /\ cell'[d].work = cell[d].work
    BY <2>1 DEF EndLogged, Restated
  <2>4. \A q \in Run : run[q].pc = "started" => run[q].cell \in Cell
    BY DEF SendsHoldTheirCells
  <2>5. StartedIsFree' BY <2>2, <2>3, <2>4 DEF StartedIsFree, Types
  <2>6. SlotIsFree' BY <2>2, <2>3, <2>4 DEF SlotIsFree, Types
  <2>7. OpenTurnRuns' BY <2>2, <2>3, <2>4 DEF OpenTurnRuns, GivenUpRuns, Types
  <2>8. GivenUpRuns' BY <2>2, <2>3, <2>4 DEF GivenUpRuns, Types
  <2>9. AheadIsAbsent' BY <2>2, <2>3, <2>4 DEF AheadIsAbsent, Types
  <2> QED BY <2>5, <2>6, <2>7, <2>8, <2>9
<1>9. CASE Close
  <2>1. EndLogged(current, "ok") BY <1>9, EndsAreLogged DEF Close, Settle, Types, Ended
  <2>2. /\ UNCHANGED <<transcript, read, slot, givingUp, run, blurred>> /\ current' = NoCell
    BY <1>9 DEF Close, Settle, AfterSettling
  <2>3. \A d \in Place \ {current} : cell'[d].state = cell[d].state /\ cell'[d].work = cell[d].work
    BY <2>1 DEF EndLogged, Restated
  <2>4. \A q \in Run : run[q].pc = "started" => run[q].cell \in Cell
    BY DEF SendsHoldTheirCells
  <2>5. StartedIsFree' BY <2>2, <2>3, <2>4 DEF StartedIsFree, Types
  <2>6. SlotIsFree' BY <2>2, <2>3, <2>4 DEF SlotIsFree, Types
  <2>7. OpenTurnRuns' BY <2>2, <2>3, <2>4 DEF OpenTurnRuns, Types
  <2>8. GivenUpRuns' BY <2>2, <2>3, <2>4 DEF GivenUpRuns, Types
  <2>9. AheadIsAbsent' BY <2>2, <2>3, <2>4 DEF AheadIsAbsent, Types
  <2> QED BY <2>5, <2>6, <2>7, <2>8, <2>9
<1>10. CASE UNCHANGED vars
  BY <1>10 DEF vars, projector, history, StartedIsFree, SlotIsFree, OpenTurnRuns, GivenUpRuns,
               AheadIsAbsent
<1> QED
  BY <1>1, <1>2, <1>3, <1>4, <1>5, <1>6, <1>7, <1>8, <1>9, <1>10 DEF Next, Sending

\* What has ended changes only by being sent again, or is blurred.
LEMMA EndsStep ==
  ASSUME Types, SendsHoldTheirCells, FailingIsBlurred, Turns, [Next]_vars,
         NEW c \in Place \ blurred', cell[c].state \in Ended, cell'[c].state # cell[c].state
  PROVE  cell'[c].state = "running"
<1> USE Places DEF Ended
<1>1. ASSUME NEW r \in Run, NEW d \in Cell, Start(r, d) PROVE cell'[c].state = "running"
  BY <1>1, CellIsStarted
<1>2. ASSUME NEW r \in Run, Report(r) PROVE FALSE
  <2>1. run[r].cell \in Cell /\ run[r].cell \in blurred /\ blurred' = blurred
    BY <1>2 DEF Report, SendsHoldTheirCells, FailingIsBlurred
  <2>2. EndLogged(run[r].cell, "error") BY <1>2, <2>1, EndsAreLogged DEF Report
  <2> QED BY <2>1, <2>2 DEF EndLogged, Restated
<1>3. ASSUME Ingest PROVE cell'[c].state = "running"
  <2>1. Here \in Line /\ Here > read /\ blurred' = blurred /\ LineTaken
    BY <1>3, LinesAreTaken DEF Turns, Types, Here
  <2>2. c \notin {Here, current, slot}
    BY <2>1 DEF Turns, AheadIsAbsent, OpenTurnRuns, SlotIsFree
  <2>3. CASE Adopts BY <2>2, <2>3 DEF Adopts
  <2>4. CASE Opens BY <2>2, <2>4 DEF Opens, Restated
  <2>5. CASE Refuses BY <2>5 DEF Refuses
  <2>6. CASE Settles BY <2>2, <2>6 DEF Settles, EndLogged, Restated
  <2>7. CASE Compacts BY <2>2, <2>7 DEF Compacts, Restated
  <2>8. CASE OpensUnprompted BY <2>2, <2>8 DEF OpensUnprompted
  <2>9. CASE Continues BY <2>2, <2>9 DEF Continues
  <2> QED BY <2>1, <2>3, <2>4, <2>5, <2>6, <2>7, <2>8, <2>9 DEF LineTaken
<1>4. ASSUME NEW d \in Cell, WriteGivenUp(d) PROVE FALSE
  <2>1. EndLogged(d, "error") /\ d \in givingUp /\ blurred' = blurred
    BY <1>4, EndsAreLogged DEF WriteGivenUp
  <2>2. c # d BY <2>1 DEF Turns, GivenUpRuns
  <2> QED BY <2>1, <2>2 DEF EndLogged, Restated
<1>5. ASSUME Close PROVE FALSE
  <2>1. EndLogged(current, "ok") /\ blurred' = blurred
    BY <1>5, EndsAreLogged DEF Close, Settle, Types
  <2>2. c # current BY <2>1 DEF Turns, OpenTurnRuns
  <2> QED BY <2>1, <2>2 DEF EndLogged, Restated
<1>6. ~ UNCHANGED cell OBVIOUS
<1> QED
  BY <1>1, <1>2, <1>3, <1>4, <1>5, <1>6
     DEF Next, Sending, Echo, TypedIn, Works, Write, AwaitAdoption, SendToSession, Delivered,
         CancelAdoption, GiveUp, vars

------------------------------------------------------------------------------
\* Who will end a cell that runs.

Attendance == ClosedLosesItsSlot /\ SentIsAwaited /\ RunningIsAttended

LEMMA AttendanceStep ==
  ASSUME Types, SendsHoldTheirCells, AheadIsAbsent, Attendance, [Next]_vars
  PROVE  Attendance'
<1> USE Places DEF Attendance
<1>1. CASE \/ \E r \in Run : Echo(r)
           \/ \E text \in Typed : TypedIn(text)
           \/ \E kind \in {"work", "interrupted", "compact"} : Works(kind)
  <2>1. UNCHANGED <<cell, slot, closed, lost, run, current, givingUp, timers, unsaid>>
    BY <1>1, CliWrites DEF projector, history
  <2> QED BY <2>1 DEF ClosedLosesItsSlot, SentIsAwaited, RunningIsAttended, Awaited
<1>2. ASSUME NEW r \in Run, NEW c \in Cell, Start(r, c) PROVE Attendance'
  <2>1. /\ run'[r].pc = "started" /\ run'[r].cell = c /\ run[r].pc = "idle"
        /\ \A q \in Run \ {r} : run'[q] = run[q]
        /\ UNCHANGED <<slot, closed, current, givingUp, timers>>
        /\ lost' = lost \ {c} /\ unsaid' = unsaid \ {c} /\ c \notin claim
    BY <1>2 DEF Start, Types, projector
  <2>2. \A d \in Place \ {c} : cell'[d] = cell[d] BY <1>2, CellIsStarted
  <2>3. ClosedLosesItsSlot' BY <2>1 DEF ClosedLosesItsSlot
  <2>4. SentIsAwaited'
    <3> SUFFICES ASSUME NEW q \in Run, run'[q].pc \in {"awaiting", "sent"},
                        run'[q].cell \notin lost' \cup unsaid',
                        cell'[run'[q].cell].state = "running"
                 PROVE  Awaited(run[q].cell)'
      BY DEF SentIsAwaited
    <3>1. q # r /\ run'[q] = run[q] BY <2>1
    <3>2. run[q].cell # c /\ run[q].cell \in Place
      BY <2>1, <3>1 DEF SendsHoldTheirCells, Active
    <3> QED BY <2>1, <2>2, <3>1, <3>2 DEF SentIsAwaited, Awaited
  <2>5. RunningIsAttended' BY <2>1, <2>2 DEF RunningIsAttended
  <2> QED BY <2>3, <2>4, <2>5
<1>3. ASSUME NEW r \in Run, AwaitAdoption(r) PROVE Attendance'
  <2> DEFINE c == run[r].cell
  <2>1. /\ run'[r].pc = "awaiting" /\ run'[r].cell = c
        /\ \A q \in Run \ {r} : run'[q] = run[q]
        /\ run[r].pc = "started" /\ c \in Cell /\ slot' = c
        /\ [cell |-> c, stale |-> FALSE] \in timers'
        /\ lost' = lost \cup Overwritten(c)
        /\ UNCHANGED <<cell, current, givingUp, closed, unsaid>>
    BY <1>3, SendIsRegistered DEF AwaitAdoption, SendsHoldTheirCells
  <2>2. \A q \in Run \ {r} : Active(q) => run[q].cell # c
    BY <2>1 DEF SendsHoldTheirCells, Active
  <2>3. (slot # NoCell /\ slot # c => slot \in lost') /\ (closed => c \in lost')
    BY <2>1 DEF Overwritten, Some
  <2>4. ClosedLosesItsSlot' BY <2>1, <2>3 DEF ClosedLosesItsSlot
  <2>5. SentIsAwaited'
    <3> SUFFICES ASSUME NEW q \in Run, run'[q].pc \in {"awaiting", "sent"},
                        run'[q].cell \notin lost' \cup unsaid',
                        cell'[run'[q].cell].state = "running"
                 PROVE  Awaited(run[q].cell)'
      BY DEF SentIsAwaited
    <3>1. CASE q = r BY <2>1, <3>1 DEF Awaited
    <3>2. CASE q # r
      <4>1. run'[q] = run[q] BY <2>1, <3>2
      <4>2. run[q].cell # c BY <2>2, <3>2, <4>1 DEF Active
      <4>3. Awaited(run[q].cell) BY <2>1, <4>1 DEF SentIsAwaited
      <4>4. run[q].cell # slot
        BY <2>1, <2>3, <4>1, <4>2 DEF SendsHoldTheirCells, Active
      <4> QED BY <2>1, <4>1, <4>3, <4>4 DEF Awaited
    <3> QED BY <3>1, <3>2
  <2>6. RunningIsAttended' BY <2>1, <2>3 DEF RunningIsAttended, Active
  <2> QED BY <2>4, <2>5, <2>6
<1>4. ASSUME NEW r \in Run, SendToSession(r) PROVE Attendance'
  <2>1. PICK pc \in {"sent", "failing"} : Goto(r, pc) BY <1>4 DEF SendToSession
  <2>2. /\ run'[r].pc = pc /\ run'[r].cell = run[r].cell /\ run[r].pc = "awaiting"
        /\ \A q \in Run \ {r} : run'[q] = run[q]
        /\ UNCHANGED <<cell, slot, closed, lost, current, givingUp, timers, unsaid>>
    BY <1>4, <2>1, SendMoves DEF SendToSession, Pc, projector
  <2>3. ClosedLosesItsSlot' BY <2>2 DEF ClosedLosesItsSlot
  <2>4. SentIsAwaited' BY <2>2 DEF SentIsAwaited, Awaited
  <2>5. RunningIsAttended' BY <2>2 DEF RunningIsAttended
  <2> QED BY <2>3, <2>4, <2>5
<1>5. ASSUME NEW r \in Run, Delivered(r) PROVE Attendance'
  <2>1. /\ run'[r].pc = "done" /\ run'[r].cell = run[r].cell /\ run[r].pc = "sent"
        /\ \A q \in Run \ {r} : run'[q] = run[q]
        /\ UNCHANGED <<cell, slot, closed, lost, current, givingUp, timers, unsaid>>
    BY <1>5, SendMoves DEF Delivered, Pc, projector, history
  <2>2. ClosedLosesItsSlot' BY <2>1 DEF ClosedLosesItsSlot
  <2>3. SentIsAwaited' BY <2>1 DEF SentIsAwaited, Awaited
  <2>4. RunningIsAttended' BY <2>1 DEF RunningIsAttended, SentIsAwaited, Awaited
  <2> QED BY <2>2, <2>3, <2>4
<1>6. ASSUME NEW r \in Run, CancelAdoption(r) PROVE Attendance'
  <2> DEFINE c == run[r].cell
  <2>1. /\ run'[r].pc = "failing" /\ run'[r].cell = c /\ run[r].pc = "sent"
        /\ \A q \in Run \ {r} : run'[q] = run[q]
        /\ UNCHANGED <<cell, closed, lost, current, givingUp, unsaid>>
        /\ \/ slot = c /\ slot' = NoCell
           \/ slot # c /\ UNCHANGED <<slot, timers>>
    BY <1>6, SendMoves DEF CancelAdoption, Pc
  <2>2. \A q \in Run \ {r} : Active(q) => run[q].cell # c
    BY <2>1 DEF SendsHoldTheirCells, Active
  <2>3. ClosedLosesItsSlot' BY <2>1 DEF ClosedLosesItsSlot
  <2>4. SentIsAwaited' BY <2>1, <2>2 DEF SentIsAwaited, Awaited, Active
  <2>5. RunningIsAttended' BY <2>1 DEF RunningIsAttended
  <2> QED BY <2>3, <2>4, <2>5
<1>7. ASSUME NEW r \in Run, Report(r) PROVE Attendance'
  <2> DEFINE c == run[r].cell
  <2>1. /\ run'[r].pc = "done" /\ run'[r].cell = c /\ run[r].pc = "failing"
        /\ \A q \in Run \ {r} : run'[q] = run[q]
        /\ UNCHANGED <<slot, closed, lost, current, givingUp, timers>>
    BY <1>7, SendMoves DEF Report, Pc, projector
  <2>2. c \in Cell /\ EndLogged(c, "error")
    BY <1>7, EndsAreLogged DEF Report, SendsHoldTheirCells, Ended
  <2>3. /\ unsaid \subseteq unsaid'
        /\ c \in unsaid' \/ cell'[c].state = "error"
        /\ \A d \in Place \ {c} : cell'[d].state = cell[d].state
    BY <2>2 DEF EndLogged, Restated, Some
  <2>4. ClosedLosesItsSlot' BY <2>1 DEF ClosedLosesItsSlot
  <2>5. SentIsAwaited' BY <2>1, <2>2, <2>3 DEF SentIsAwaited, Awaited, SendsHoldTheirCells
  <2>6. RunningIsAttended' BY <2>1, <2>2, <2>3 DEF RunningIsAttended
  <2> QED BY <2>4, <2>5, <2>6
<1>8. CASE Ingest
  <2>1. /\ Here \in Place /\ Here \notin Cell
        /\ UNCHANGED <<givingUp, closed, run, lost>> /\ ~closed
        /\ LineTaken
    BY <1>8, LinesAreTaken
  <2>2. ClosedLosesItsSlot' BY <2>1 DEF ClosedLosesItsSlot
  <2>3. \A q \in Run : run[q].pc # "idle" => run[q].cell \in Cell BY DEF SendsHoldTheirCells
  <2>4. current \in Place \cup {NoCell} /\ slot \in Cell \cup {NoCell} BY DEF Types
  <2>5. \A d \in Place : cell'[d].state = "running" /\ d \notin unsaid' =>
          \/ d = current'
          \/ /\ cell[d].state = "running" /\ d \notin unsaid
             /\ d # current /\ (d # slot \/ UNCHANGED <<slot, timers>>)
    <3>1. CASE Adopts BY <2>1, <2>4, <3>1 DEF Adopts, Ended
    <3>2. CASE Opens BY <2>1, <2>4, <3>2 DEF Opens, Restated, Ended
    <3>3. CASE Refuses BY <2>4, <3>3 DEF Refuses, Some
    <3>4. CASE Settles BY <2>4, <3>4 DEF Settles, EndLogged, Restated, Some, Ended
    <3>5. CASE Compacts BY <2>1, <2>4, <3>5 DEF Compacts, Restated
    <3>6. CASE OpensUnprompted BY <2>1, <2>4, <3>6 DEF OpensUnprompted
    <3>7. CASE Continues BY <2>1, <2>4, <3>7 DEF Continues
    <3>8. CASE UNCHANGED <<cell, current, slot, timers, unsaid>> BY <3>8
    <3> QED BY <2>1, <3>1, <3>2, <3>3, <3>4, <3>5, <3>6, <3>7, <3>8 DEF LineTaken
  <2>6. SentIsAwaited'
    BY <2>1, <2>3, <2>4, <2>5 DEF SentIsAwaited, Awaited, Some
  <2>7. RunningIsAttended'
    BY <2>1, <2>4, <2>5 DEF RunningIsAttended, Some
  <2> QED BY <2>2, <2>6, <2>7
<1>9. ASSUME NEW t \in timers, GiveUp(t) PROVE Attendance'
  <2>1. /\ UNCHANGED <<cell, closed, current, run, lost, unsaid>>
        /\ \/ slot' = NoCell /\ givingUp' = givingUp \cup {slot} /\ slot \in Cell
           \/ /\ slot' = slot /\ givingUp' = givingUp /\ timers' = timers \ {t}
              /\ closed \/ t # [cell |-> slot, stale |-> FALSE]
    BY <1>9 DEF GiveUp, StillAwaited, Types, history
  <2>2. \A q \in Run : run[q].pc # "idle" => run[q].cell \in Cell BY DEF SendsHoldTheirCells
  <2>3. ClosedLosesItsSlot' BY <2>1 DEF ClosedLosesItsSlot
  <2>4. closed /\ slot # NoCell =>
          slot \in lost \/ \E q \in Run : run[q].pc = "started" /\ run[q].cell = slot
    BY DEF ClosedLosesItsSlot
  <2>5. SentIsAwaited'
    BY <2>1, <2>2, <2>4 DEF SentIsAwaited, Awaited, SendsHoldTheirCells, Active
  <2>6. RunningIsAttended' BY <2>1, <2>2, <2>4 DEF RunningIsAttended
  <2> QED BY <2>3, <2>5, <2>6
<1>10. ASSUME NEW c \in Cell, WriteGivenUp(c) PROVE Attendance'
  <2>1. EndLogged(c, "error") BY <1>10, EndsAreLogged DEF WriteGivenUp, Ended
  <2>2. /\ UNCHANGED <<slot, closed, current, timers, run, lost>>
        /\ givingUp' = givingUp \ {c}
    BY <1>10 DEF WriteGivenUp
  <2>3. /\ unsaid \subseteq unsaid'
        /\ c \in unsaid' \/ cell'[c].state = "error"
        /\ \A d \in Place \ {c} : cell'[d].state = cell[d].state
    BY <2>1 DEF EndLogged, Restated, Some
  <2>4. ClosedLosesItsSlot' BY <2>2 DEF ClosedLosesItsSlot
  <2>5. SentIsAwaited' BY <2>2, <2>3 DEF SentIsAwaited, Awaited, SendsHoldTheirCells
  <2>6. RunningIsAttended' BY <2>2, <2>3 DEF RunningIsAttended
  <2> QED BY <2>4, <2>5, <2>6
<1>11. CASE Close
  <2>1. EndLogged(current, "ok") BY <1>11, EndsAreLogged DEF Close, Settle, Types, Ended
  <2>2. /\ UNCHANGED <<slot, givingUp, timers, run>> /\ current' = NoCell
        /\ lost' = lost \cup Some(slot)
    BY <1>11 DEF Close, Settle, AfterSettling
  <2>3. /\ unsaid \subseteq unsaid'
        /\ current # NoCell => current \in unsaid' \/ cell'[current].state = "ok"
        /\ \A d \in Place \ {current} : cell'[d].state = cell[d].state
    BY <2>1 DEF EndLogged, Restated, Some, Types
  <2>4. ClosedLosesItsSlot' BY <2>2 DEF ClosedLosesItsSlot, Some
  <2>5. SentIsAwaited' BY <2>2, <2>3 DEF SentIsAwaited, Awaited, SendsHoldTheirCells, Some
  <2>6. RunningIsAttended' BY <2>2, <2>3 DEF RunningIsAttended, Some
  <2> QED BY <2>4, <2>5, <2>6
<1>12. CASE UNCHANGED vars
  BY <1>12 DEF vars, projector, history, ClosedLosesItsSlot, SentIsAwaited, RunningIsAttended,
               Awaited
<1> QED
  BY <1>1, <1>2, <1>3, <1>4, <1>5, <1>6, <1>7, <1>8, <1>9, <1>10, <1>11, <1>12 DEF Next, Sending

------------------------------------------------------------------------------
\* The prompt a line answers.

LEMMA PromptIsLastTurned ==
  ASSUME NEW l
  PROVE  /\ PromptOf(l) = IF Turned(l) = {} \/ transcript[LastTurned(l)].kind # "prompt"
                            THEN 0 ELSE LastTurned(l)
         /\ PromptOf(l)' = IF Turned(l)' = {} \/ transcript'[LastTurned(l)'].kind # "prompt"
                             THEN 0 ELSE LastTurned(l)'
  BY DEF PromptOf, Turned, LastTurned

\* What is in the transcript stays what it was.
LEMMA PromptStays ==
  ASSUME Types, WorkIsPast, NEW line \in LineRecord, transcript' = Append(transcript, line),
         NEW l \in 1..Len(transcript) + 1
  PROVE  /\ PromptOf(l)' = PromptOf(l)
         /\ Turned(l)' # {} => LastTurned(l)' \in Turned(l)'
<1>1. \A k \in 1..l - 1 : transcript'[k] = transcript[k] BY DEF Types
<1>2. Turned(l)' = Turned(l) BY <1>1 DEF Turned
<1>3. CASE Turned(l) = {} BY <1>2, <1>3 DEF PromptOf, Turned
<1>4. CASE Turned(l) # {}
  <2>1. LastTurned(l) \in Turned(l) BY <1>4 DEF WorkIsPast
  <2>2. LastTurned(l)' = LastTurned(l) BY <1>2 DEF LastTurned
  <2>3. transcript'[LastTurned(l)] = transcript[LastTurned(l)] BY <1>1, <2>1 DEF Turned
  <2> QED BY <1>2, <2>1, <2>2, <2>3, PromptIsLastTurned
<1> QED BY <1>3, <1>4

\* The line after work answers what the work answers, the line after another that line.
LEMMA NextPrompt ==
  ASSUME Types, WorkIsPast, NEW l \in 1..Len(transcript)
  PROVE  /\ transcript[l].kind = "work" => PromptOf(l + 1) = PromptOf(l)
         /\ transcript[l].kind = "prompt" => PromptOf(l + 1) = l
<1>1. l \in Nat /\ l \in 1..(l + 1) - 1 OBVIOUS
<1>2. CASE transcript[l].kind = "work"
  <2>1. Turned(l + 1) = Turned(l) BY <1>2 DEF Turned
  <2>2. LastTurned(l + 1) = LastTurned(l) BY <2>1 DEF LastTurned
  <2> QED BY <1>2, <2>1, <2>2, PromptIsLastTurned
<1>3. CASE transcript[l].kind = "prompt"
  <2>1. l \in Turned(l + 1) /\ \A j \in Turned(l + 1) : j <= l BY <1>3 DEF Turned
  <2>2. LastTurned(l + 1) \in Turned(l + 1) /\ l <= LastTurned(l + 1)
    BY <2>1 DEF LastTurned
  <2>3. LastTurned(l + 1) = l BY <2>1, <2>2 DEF Turned
  <2> QED BY <1>3, <2>1, <2>3, PromptIsLastTurned
<1> QED BY <1>2, <1>3

\* A line that is written has a last turn before it, as those before it have.
LEMMA LastTurnStays ==
  ASSUME Types, WorkIsPast, NEW line \in LineRecord, transcript' = Append(transcript, line),
         NEW l \in 1..Len(transcript') + 1, Turned(l)' # {}
  PROVE  LastTurned(l)' \in Turned(l)'
<1>0. PICK n \in Nat : n = Len(transcript) + 1 BY DEF Types
<1>1. Len(transcript') = n /\ transcript'[n] = line BY <1>0 DEF Types
<1>2. CASE l <= n BY <1>0, <1>1, <1>2, PromptStays
<1>3. CASE l = n + 1 /\ line.kind = "work"
  <2>1. Turned(l)' = Turned(n)' BY <1>1, <1>3 DEF Turned
  <2>2. LastTurned(l)' = LastTurned(n)' BY <2>1 DEF LastTurned
  <2>3. n \in 1..Len(transcript) + 1 BY <1>0
  <2>4. Turned(n)' # {} => LastTurned(n)' \in Turned(n)' BY <2>3, PromptStays
  <2> QED BY <2>1, <2>2, <2>4
<1>4. CASE l = n + 1 /\ line.kind # "work"
  <2>1. n \in Turned(l)' /\ \A j \in Turned(l)' : j <= n BY <1>1, <1>4 DEF Turned
  <2> QED BY <2>1 DEF LastTurned
<1> QED BY <1>1, <1>2, <1>3, <1>4

LEMMA WorkStep ==
  ASSUME Types, SendsHoldTheirCells, Turns, WorkIsPast, [Next]_vars
  PROVE  WorkIsPast'
<1> USE Places
<1> DEFINE Kept(d) == /\ cell'[d].work # {} => cell'[d].line = cell[d].line
                      /\ cell'[d].work \subseteq cell[d].work
\* Steps of everything but the CLI and the watcher add no work.
<1>1. ASSUME UNCHANGED <<transcript, read>>, blurred \subseteq blurred',
             \A d \in Place \ blurred' : Kept(d),
             \/ current' = NoCell
             \/ current' = current /\ (current \in Place \ blurred' => cell'[current].line = cell[current].line)
      PROVE  WorkIsPast'
  <2>1. \A l : PromptOf(l)' = PromptOf(l) /\ Turned(l)' = Turned(l) /\ LastTurned(l)' = LastTurned(l)
    BY <1>1 DEF PromptOf, Turned, LastTurned
  <2>2. Here' = Here BY <1>1 DEF Here
  <2>3. current \in Place \cup {NoCell} BY DEF Types
  <2> QED BY <1>1, <2>1, <2>2, <2>3 DEF WorkIsPast
<1>2. CASE \/ \E r \in Run : Echo(r)
           \/ \E text \in Typed : TypedIn(text)
           \/ \E kind \in {"work", "interrupted", "compact"} : Works(kind)
  <2>1. PICK line \in LineRecord : transcript' = Append(transcript, line) BY <1>2, CliWrites
  <2>2. UNCHANGED <<cell, read, current, blurred>> BY <1>2, CliWrites DEF projector, history
  <2>3. Here' = Here /\ Here \in 1..Len(transcript) + 1 BY <2>2 DEF Here, Types
  <2>4. \A l \in 1..Len(transcript) + 1 : PromptOf(l)' = PromptOf(l) BY <2>1, PromptStays
  <2>5. \A l \in 1..Len(transcript') + 1 : Turned(l)' # {} => LastTurned(l)' \in Turned(l)'
    BY <2>1, LastTurnStays
  <2>6. \A c \in Place \ blurred' : \A l \in cell'[c].work :
          l <= read' /\ cell'[c].line \in {0, PromptOf(l)'}
    <3> SUFFICES ASSUME NEW c \in Place \ blurred, NEW l \in cell[c].work
                 PROVE  l <= read /\ cell[c].line \in {0, PromptOf(l)'}
      BY <2>2
    <3>1. l <= read /\ cell[c].line \in {0, PromptOf(l)} BY DEF WorkIsPast
    <3>2. l \in Line BY DEF Types, CellState
    <3>3. l \in 1..Len(transcript) + 1 BY <3>1, <3>2 DEF Types
    <3> QED BY <2>4, <3>1, <3>3
  <2>7. current' \notin blurred' \cup {NoCell} => cell'[current'].line \in {0, PromptOf(Here)'}
    BY <2>2, <2>3, <2>4 DEF WorkIsPast
  <2> QED BY <2>5, <2>6, <2>7 DEF WorkIsPast
<1>3. ASSUME NEW r \in Run, NEW c \in Cell, Start(r, c) PROVE WorkIsPast'
  <2>1. /\ UNCHANGED <<transcript, read, current>> /\ blurred \subseteq blurred'
        /\ c = current => c \in blurred'
    BY <1>3 DEF Start, projector
  <2>2. cell'[c].work = {} /\ \A d \in Place \ {c} : cell'[d] = cell[d]
    BY <1>3, CellIsStarted
  <2> QED BY <1>1, <2>1, <2>2
<1>4. ASSUME NEW r \in Run, Report(r) PROVE WorkIsPast'
  <2>1. run[r].cell \in Cell BY <1>4 DEF Report, SendsHoldTheirCells
  <2>2. EndLogged(run[r].cell, "error") BY <1>4, <2>1, EndsAreLogged DEF Report, Ended
  <2>3. \A d \in Place : cell'[d].line = cell[d].line /\ cell'[d].work = cell[d].work
    BY <2>2 DEF EndLogged, Restated
  <2> QED BY <1>1, <1>4, <2>3 DEF Report, projector
<1>5. ASSUME NEW c \in Cell, WriteGivenUp(c) PROVE WorkIsPast'
  <2>1. EndLogged(c, "error") BY <1>5, EndsAreLogged DEF WriteGivenUp, Ended
  <2>2. \A d \in Place : cell'[d].line = cell[d].line /\ cell'[d].work = cell[d].work
    BY <2>1 DEF EndLogged, Restated
  <2> QED BY <1>1, <1>5, <2>2 DEF WriteGivenUp
<1>6. CASE Close
  <2>1. EndLogged(current, "ok") BY <1>6, EndsAreLogged DEF Close, Settle, Types, Ended
  <2>2. \A d \in Place : cell'[d].line = cell[d].line /\ cell'[d].work = cell[d].work
    BY <2>1 DEF EndLogged, Restated
  <2> QED BY <1>1, <1>6, <2>2 DEF Close, Settle, AfterSettling
<1>7. CASE Ingest
  <2>1. /\ Here \in Line /\ Here \in 1..Len(transcript) /\ Here > read /\ read' = Here
        /\ UNCHANGED <<transcript, blurred>>
        /\ LineTaken
    BY <1>7, LinesAreTaken DEF Turns, Types, Here
  <2>2. /\ Here' = Here + 1
        /\ \A l : PromptOf(l)' = PromptOf(l) /\ Turned(l)' = Turned(l) /\ LastTurned(l)' = LastTurned(l)
    BY <2>1 DEF Here, PromptOf, Turned, LastTurned
  <2>3. /\ transcript[Here].kind = "work" => PromptOf(Here + 1) = PromptOf(Here)
        /\ transcript[Here].kind = "prompt" => PromptOf(Here + 1) = Here
    BY <2>1, NextPrompt
  <2>4. current \in Place \cup {NoCell} /\ slot \in Cell \cup {NoCell} /\ read \in Nat BY DEF Types
  <2>5. \A c \in Place \ blurred : \A l \in cell[c].work :
          l <= read' /\ cell[c].line \in {0, PromptOf(l)}
    <3> SUFFICES ASSUME NEW c \in Place \ blurred, NEW l \in cell[c].work
                 PROVE  l <= read' /\ cell[c].line \in {0, PromptOf(l)}
      OBVIOUS
    <3>1. l <= read /\ cell[c].line \in {0, PromptOf(l)} BY DEF WorkIsPast
    <3>2. l \in Line BY DEF Types, CellState
    <3> QED BY <2>1, <2>4, <3>1, <3>2
  <2>6. \A c \in Place \ blurred : \A l \in cell'[c].work :
          l <= read' /\ cell'[c].line \in {0, PromptOf(l)}
    <3>1. CASE Adopts BY <2>1, <2>5, <3>1 DEF Adopts, Turns, SlotIsFree
    <3>2. CASE Opens BY <2>1, <2>5, <3>2 DEF Opens, Restated
    <3>3. CASE Refuses BY <2>5, <3>3 DEF Refuses
    <3>4. CASE Settles BY <2>5, <3>4 DEF Settles, EndLogged, Restated
    <3>5. CASE Compacts BY <2>1, <2>5, <3>5 DEF Compacts, Restated
    <3>6. CASE OpensUnprompted BY <2>1, <2>5, <3>6 DEF OpensUnprompted
    <3>7. CASE Continues
      <4>1. current \notin blurred => cell[current].line \in {0, PromptOf(Here)}
        BY <3>7 DEF Continues, WorkIsPast
      <4> QED BY <2>1, <2>5, <3>7, <4>1 DEF Continues
    <3>8. CASE UNCHANGED <<cell, current, slot, timers, unsaid>> BY <2>5, <3>8
    <3> QED BY <2>1, <3>1, <3>2, <3>3, <3>4, <3>5, <3>6, <3>7, <3>8 DEF LineTaken
  <2>7. current' \notin blurred \cup {NoCell} => cell'[current'].line \in {0, PromptOf(Here + 1)}
    BY <2>1, <2>3, <2>4
       DEF LineTaken, Adopts, Opens, Refuses, Settles, Compacts, OpensUnprompted, Continues,
           WorkIsPast
  <2> QED BY <2>1, <2>2, <2>6, <2>7 DEF WorkIsPast
<1>8. ASSUME UNCHANGED <<transcript, read, cell, current>>, blurred \subseteq blurred'
      PROVE  WorkIsPast'
  BY <1>1, <1>8
<1> QED
  BY <1>2, <1>3, <1>4, <1>5, <1>6, <1>7, <1>8
     DEF Next, Sending, AwaitAdoption, SendToSession, Delivered, CancelAdoption, GiveUp, vars,
         projector, history

------------------------------------------------------------------------------
\* What comes back, and where its place is.

LEMMA EchoesStep ==
  ASSUME Types, SendsHoldTheirCells, AheadIsAbsent, EchoesAreSent, [Next]_vars
  PROVE  EchoesAreSent'
<1>1. ASSUME NEW line \in LineRecord, transcript' = Append(transcript, line),
             UNCHANGED <<read, run>>,
             \/ typed' = typed /\ line.run = NoRun
             \/ \E r \in typed : typed' = typed \ {r} /\ line = Prompt(Source[run[r].cell], r)
      PROVE  EchoesAreSent'
  <2>0. PICK n \in Nat : n = Len(transcript) BY DEF Types
  <2>1. /\ Len(transcript') = n + 1 /\ transcript'[n + 1] = line
        /\ \A k \in 1..n : transcript'[k] = transcript[k]
    BY <1>1, <2>0 DEF Types
  <2>2. CASE typed' = typed /\ line.run = NoRun
    <3>1. \A k \in 1..n + 1 : transcript'[k].run # NoRun => k \in 1..n BY <2>1, <2>2
    <3> QED BY <1>1, <2>0, <2>1, <2>2, <3>1 DEF EchoesAreSent, Sent
  <2>3. CASE \E r \in typed : typed' = typed \ {r} /\ line = Prompt(Source[run[r].cell], r)
    <3>1. PICK r \in typed : typed' = typed \ {r} /\ line = Prompt(Source[run[r].cell], r)
      BY <2>3
    <3>2. /\ line.kind = "prompt" /\ line.run = r /\ line.text = Source[run[r].cell]
          /\ Sent(r) /\ \A k \in 1..n : transcript[k].run # NoRun => transcript[k].run # r
      BY <2>0, <3>1 DEF Prompt, EchoesAreSent
    <3>3. r # NoRun BY DEF Types, Run
    <3>4. \A k \in 1..n + 1 : transcript'[k].run # NoRun =>
              /\ transcript'[k].kind = "prompt" /\ transcript'[k].run \notin typed'
              /\ Sent(transcript'[k].run)
              /\ transcript'[k].text = Source[run[transcript'[k].run].cell]
      <4> TAKE k \in 1..n + 1
      <4>1. CASE k = n + 1 BY <2>1, <3>1, <3>2, <4>1
      <4>2. CASE k \in 1..n BY <2>0, <2>1, <3>1, <4>2 DEF EchoesAreSent
      <4> QED BY <4>1, <4>2
    <3>5. \A j, k \in 1..n + 1 :
            transcript'[j].run = transcript'[k].run /\ transcript'[k].run # NoRun => j = k
      <4> TAKE j, k \in 1..n + 1
      <4>1. CASE j \in 1..n /\ k \in 1..n BY <2>0, <2>1, <4>1 DEF EchoesAreSent
      <4>2. CASE j = n + 1 \/ k = n + 1 BY <2>1, <3>2, <3>3, <4>2
      <4> QED BY <4>1, <4>2
    <3>6. \A q \in Run : Sent(q)' = Sent(q) BY <1>1 DEF Sent
    <3>7. typed' \subseteq typed BY <3>1
    <3>8. \A q \in typed' : Sent(q)' BY <3>6, <3>7 DEF EchoesAreSent, Types
    <3>9. \A q \in Run : run'[q].from <= read' /\ (run'[q].pc = "idle" => run'[q].cell = NoCell)
      BY <1>1 DEF EchoesAreSent
    <3>10. \A k \in 1..n + 1 : transcript'[k].run # NoRun => Sent(transcript[k].run)'
      BY <1>1, <3>4 DEF Sent
    <3>11. /\ Len(transcript') = n + 1 /\ run' = run
      BY <1>1, <2>1
    <3> QED BY <3>4, <3>5, <3>8, <3>9, <3>10, <3>11 DEF EchoesAreSent
  <2> QED BY <1>1, <2>2, <2>3
<1>2. CASE \/ \E r \in Run : Echo(r)
           \/ \E text \in Typed : TypedIn(text)
           \/ \E kind \in {"work", "interrupted", "compact"} : Works(kind)
  <2>1. PICK line \in LineRecord : transcript' = Append(transcript, line) BY <1>2, CliWrites
  <2>2. UNCHANGED <<read, run>> BY <1>2, CliWrites DEF projector
  <2>3. CASE \E r \in Run : Echo(r)
    <3>1. PICK r \in Run : Echo(r) BY <2>3
    <3>2. run[r].cell \in Cell BY <3>1 DEF Echo, SendsHoldTheirCells
    <3>3. Prompt(Source[run[r].cell], r) \in LineRecord BY <3>2 DEF Prompt, LineRecord, Text
    <3> QED BY <1>1, <2>2, <3>1, <3>3 DEF Echo, Write
  <2>4. CASE \E text \in Typed : TypedIn(text)
    <3>1. PICK text \in Typed : TypedIn(text) BY <2>4
    <3>2. /\ Prompt(text, NoRun) \in LineRecord /\ Prompt(text, NoRun).run = NoRun
      BY DEF Prompt, LineRecord, Text
    <3> QED BY <1>1, <2>2, <3>1, <3>2 DEF TypedIn, Write
  <2>5. CASE \E kind \in {"work", "interrupted", "compact"} : Works(kind)
    <3>1. PICK kind \in {"work", "interrupted", "compact"} : Works(kind) BY <2>5
    <3>2. Other(kind) \in LineRecord /\ Other(kind).run = NoRun
      BY DEF Other, LineRecord, Text
    <3> QED BY <1>1, <2>2, <3>1, <3>2 DEF Works, Write
  <2> QED BY <1>2, <2>3, <2>4, <2>5
\* A send that moves on; what was sent stays sent, on the same cell.
<1>3. ASSUME NEW r \in Run, UNCHANGED <<transcript, read>>,
             \A q \in Run \ {r} : run'[q] = run[q],
             run'[r].from <= read, run'[r].pc = "idle" => run'[r].cell = NoCell,
             ~Sent(r) \/ (Sent(r)' /\ run'[r].cell = run[r].cell),
             typed' = typed \/ (typed' = typed \cup {r} /\ ~Sent(r) /\ Sent(r)')
      PROVE  EchoesAreSent'
  <2>1. \A q \in Run : Sent(q) => Sent(q)' /\ run'[q].cell = run[q].cell BY <1>3 DEF Sent
  <2>2. \A k \in 1..Len(transcript) : transcript[k].run \in Run \cup {NoRun}
    <3> TAKE k \in 1..Len(transcript)
    <3>1. transcript[k] \in LineRecord BY DEF Types
    <3> QED BY <3>1 DEF LineRecord
  <2>3. \A q \in typed' : Sent(q)' BY <1>3, <2>1 DEF EchoesAreSent, Types
  <2>4. \A k \in 1..Len(transcript) : transcript[k].run # NoRun => transcript[k].run \notin typed'
    BY <1>3 DEF EchoesAreSent
  <2> QED BY <1>3, <2>1, <2>2, <2>3, <2>4 DEF EchoesAreSent
<1>4. ASSUME NEW r \in Run, NEW c \in Cell, Start(r, c) PROVE EchoesAreSent'
  <2>1. /\ run'[r].pc = "started" /\ run'[r].from = 0 /\ \A q \in Run \ {r} : run'[q] = run[q]
        /\ ~Sent(r) /\ UNCHANGED <<transcript, typed, read>>
    BY <1>4 DEF Start, Types, Sent, projector
  <2>2. read \in Nat BY DEF Types
  <2> QED BY <1>3, <2>1, <2>2
<1>5. ASSUME NEW r \in Run, AwaitAdoption(r) PROVE EchoesAreSent'
  <2>1. /\ run'[r].pc = "awaiting" /\ run'[r].from = read
        /\ \A q \in Run \ {r} : run'[q] = run[q]
        /\ ~Sent(r) /\ UNCHANGED <<transcript, typed, read>>
    BY <1>5, SendIsRegistered DEF AwaitAdoption, Sent
  <2>2. read \in Nat BY DEF Types
  <2> QED BY <1>3, <2>1, <2>2
<1>6. ASSUME NEW r \in Run,
             SendToSession(r) \/ Delivered(r) \/ CancelAdoption(r) \/ Report(r)
      PROVE  EchoesAreSent'
  <2>1. PICK pc \in {"sent", "failing", "done"} : Goto(r, pc)
    BY <1>6 DEF SendToSession, Delivered, CancelAdoption, Report
  <2>2. /\ run'[r].pc = pc /\ run'[r].cell = run[r].cell /\ run'[r].from = run[r].from
        /\ \A q \in Run \ {r} : run'[q] = run[q]
    BY <2>1, SendMoves DEF Pc
  <2>3. run[r].from <= read BY DEF EchoesAreSent
  <2>4. Sent(r)' BY <2>2 DEF Sent
  <2>5. UNCHANGED <<transcript, read>> /\ (typed' = typed \/ (typed' = typed \cup {r} /\ ~Sent(r)))
    BY <1>6 DEF SendToSession, Delivered, CancelAdoption, Report, projector, Sent
  <2> QED BY <1>3, <2>2, <2>3, <2>4, <2>5
<1>7. CASE Ingest
  <2>1. read' = read + 1 /\ UNCHANGED <<transcript, typed, run>>
    BY <1>7, LinesAreTaken DEF Here
  <2>2. \A q \in Run : run[q].from <= read' BY <2>1 DEF EchoesAreSent, Types
  <2> QED BY <2>1, <2>2 DEF EchoesAreSent, Sent
<1>8. CASE UNCHANGED <<transcript, typed, read, run>>
  BY <1>8 DEF EchoesAreSent, Sent
<1> QED
  BY <1>2, <1>4, <1>5, <1>6, <1>7, <1>8
     DEF Next, Sending, GiveUp, WriteGivenUp, Close, vars, projector

\* Whoever is expected has been expected, or has just taken the place.
LEMMA ExpectedStep ==
  ASSUME Types, SendsHoldTheirCells, FailingIsBlurred, Turns, EchoesAreSent, ExpectedHasTheSlot,
         [Next]_vars
  PROVE  ExpectedHasTheSlot'
<1> USE Places
<1>0. SUFFICES ASSUME NEW r \in Run, Expected(r)' PROVE slot' = run'[r].cell
  BY DEF ExpectedHasTheSlot
<1>1. Expected(r) => slot = run[r].cell BY DEF ExpectedHasTheSlot
<1>2. \A q \in Run : run[q].cell \in Cell \cup {NoCell} BY DEF Types
<1>3. \A q \in Run : run[q].pc # "idle" => run[q].cell \in Cell BY DEF SendsHoldTheirCells
\* What does not touch a send's cell leaves it as expected as it was.
<1>4. ASSUME UNCHANGED <<transcript, read>>,
             run'[r].cell = run[r].cell, run'[r].from = run[r].from,
             run[r].pc \notin {"idle", "started"},
             \A q \in Run \ {r} : run[q].cell = run[r].cell => run'[q].cell = run[r].cell,
             cell[run[r].cell].state = "error" => cell'[run[r].cell].state = "error",
             run[r].cell \in givingUp \cup lost \cup blurred \cup unsaid
               => run[r].cell \in givingUp' \cup lost' \cup blurred' \cup unsaid'
      PROVE  Expected(r)
  <2>1. \A q : Echoed(q)' = Echoed(q) BY <1>4 DEF Echoed
  <2> QED BY <1>0, <1>4, <2>1 DEF Expected
<1>5. CASE \/ \E q \in Run : Echo(q)
           \/ \E text \in Typed : TypedIn(text)
           \/ \E kind \in {"work", "interrupted", "compact"} : Works(kind)
  <2>1. PICK line \in LineRecord : transcript' = Append(transcript, line) BY <1>5, CliWrites
  <2>2. UNCHANGED <<cell, read, slot, givingUp, run, lost, blurred, unsaid>>
    BY <1>5, CliWrites DEF projector, history
  <2>3. \A k \in 1..read : transcript'[k] = transcript[k] BY <2>1 DEF Types
  <2>4. \A q : Echoed(q)' = Echoed(q) BY <2>2, <2>3 DEF Echoed
  <2>5. \A k \in run[r].from + 1..read : k \in 1..read BY DEF Types
  <2>6. Expected(r) BY <1>0, <2>2, <2>3, <2>4, <2>5 DEF Expected
  <2> QED BY <1>1, <2>2, <2>6
<1>6. ASSUME NEW q \in Run, NEW c \in Cell, Start(q, c) PROVE slot' = run'[r].cell
  <2>1. /\ run'[q].pc = "started" /\ run'[q].cell = c /\ run[q].pc = "idle"
        /\ \A p \in Run \ {q} : run'[p] = run[p]
        /\ UNCHANGED <<transcript, read, slot, givingUp>>
        /\ lost' = lost \ {c} /\ unsaid' = unsaid \ {c} /\ blurred \subseteq blurred'
    BY <1>6 DEF Start, Types, projector
  <2>2. \A d \in Place \ {c} : cell'[d] = cell[d] BY <1>6, CellIsStarted
  <2>3. q # r BY <1>0, <2>1 DEF Expected
  <2>4. run'[r] = run[r] /\ run[r].pc \notin {"idle", "started"} /\ run[r].cell \in Cell
    BY <1>0, <1>3, <2>1, <2>3 DEF Expected
  <2>5. ~Echoed(q)'
    <3>1. ~Sent(q) BY <2>1 DEF Sent
    <3>2. q # NoRun BY DEF Run
    <3>3. \A k \in 1..read : k \in 1..Len(transcript) BY DEF Types
    <3> QED BY <2>1, <3>1, <3>2, <3>3 DEF EchoesAreSent, Echoed
  <2>6. run[r].cell # c BY <1>0, <2>1, <2>3, <2>4, <2>5 DEF Expected
  <2>7. run[q].cell = NoCell BY <2>1 DEF EchoesAreSent
  <2>8. Expected(r) BY <1>4, <2>1, <2>2, <2>4, <2>6, <2>7
  <2> QED BY <1>1, <2>1, <2>4, <2>8
<1>7. ASSUME NEW q \in Run, AwaitAdoption(q) PROVE slot' = run'[r].cell
  <2>1. /\ run'[q].pc = "awaiting" /\ run'[q].cell = run[q].cell /\ run[q].pc = "started"
        /\ \A p \in Run \ {q} : run'[p] = run[p]
        /\ UNCHANGED <<transcript, read, cell, givingUp, blurred, unsaid>>
        /\ slot' = run[q].cell /\ lost' = lost \cup Overwritten(run[q].cell)
    BY <1>7, SendIsRegistered DEF AwaitAdoption, Turns
  <2>2. CASE q = r BY <2>1, <2>2
  <2>3. CASE q # r
    <3>1. run'[r] = run[r] /\ run[r].pc \notin {"idle", "started"} /\ run[r].cell \in Cell
      BY <1>0, <1>3, <2>1, <2>3 DEF Expected
    <3>2. ~Echoed(q)'
      <4>1. ~Sent(q) BY <2>1 DEF Sent
      <4>2. q # NoRun BY DEF Run
      <4>3. \A k \in 1..read : k \in 1..Len(transcript) BY DEF Types
      <4> QED BY <2>1, <4>1, <4>2, <4>3 DEF EchoesAreSent, Echoed
    <3>3. run[r].cell # run[q].cell BY <1>0, <2>1, <2>3, <3>1, <3>2 DEF Expected
    <3>4. Expected(r) BY <1>4, <2>1, <3>1
    <3>5. slot = run[r].cell BY <1>1, <3>4
    <3>6. slot \in lost' BY <2>1, <3>1, <3>3, <3>5 DEF Overwritten, Some
    <3> QED BY <1>0, <3>1, <3>5, <3>6 DEF Expected
  <2> QED BY <2>2, <2>3
<1>8. ASSUME NEW q \in Run,
             SendToSession(q) \/ Delivered(q) \/ CancelAdoption(q) \/ Report(q)
      PROVE  slot' = run'[r].cell
  <2>1. PICK pc \in {"sent", "failing", "done"} : Goto(q, pc)
    BY <1>8 DEF SendToSession, Delivered, CancelAdoption, Report
  <2>2. /\ run'[q].cell = run[q].cell /\ run'[q].from = run[q].from
        /\ \A p \in Run \ {q} : run'[p] = run[p]
    BY <2>1, SendMoves DEF Pc
  <2>3. run[q].pc \in {"awaiting", "sent", "failing"} /\ run[q].cell \in Cell
    BY <1>3, <1>8 DEF SendToSession, Delivered, CancelAdoption, Report
  <2>4. run[r].pc \notin {"idle", "started"} /\ run[r].cell \in Cell
    BY <1>0, <1>3, <2>2, <2>3 DEF Expected
  <2>5. /\ UNCHANGED <<transcript, read, givingUp, lost>>
        /\ blurred \subseteq blurred'
    BY <1>8 DEF SendToSession, Delivered, CancelAdoption, Report, projector, history
  <2>6. (cell' = cell /\ unsaid' = unsaid) \/ Report(q)
    BY <1>8 DEF SendToSession, Delivered, CancelAdoption, history
  <2>7. ASSUME Report(q)
        PROVE  /\ unsaid \subseteq unsaid' /\ run[q].cell \in blurred
               /\ \A d \in Place \ {run[q].cell} : cell'[d].state = cell[d].state
    <3>1. EndLogged(run[q].cell, "error") BY <2>3, <2>7, EndsAreLogged DEF Report, Ended
    <3> QED BY <2>7, <3>1 DEF EndLogged, Restated, Report, FailingIsBlurred
  <2>8. run[r].cell \notin blurred' BY <1>0, <2>2 DEF Expected
  <2>9. /\ cell[run[r].cell].state = "error" => cell'[run[r].cell].state = "error"
        /\ unsaid \subseteq unsaid'
    BY <2>4, <2>5, <2>6, <2>7, <2>8
  <2>10. Expected(r) BY <1>4, <2>2, <2>4, <2>5, <2>9
  <2>11. slot' = slot \/ (CancelAdoption(q) /\ slot = run[q].cell)
    BY <1>8 DEF SendToSession, Delivered, CancelAdoption, Report, projector
  <2>12. CancelAdoption(q) => run[q].cell \in blurred' BY DEF CancelAdoption
  <2> QED BY <1>1, <2>2, <2>8, <2>10, <2>11, <2>12
<1>9. CASE Ingest
  <2>1. /\ Here \in Line /\ Here \in 1..Len(transcript) /\ read' = Here /\ Here = read + 1
        /\ UNCHANGED <<transcript, givingUp, run, lost, blurred>>
        /\ LineTaken
    BY <1>9, LinesAreTaken DEF Turns, Here
  <2>2. run[r].pc \notin {"idle", "started"} /\ run[r].cell \in Cell
    BY <1>0, <1>3, <2>1 DEF Expected
  <2>3. Here \in run[r].from + 1..Here /\ read \in Nat /\ run[r].from \in Nat
    BY <2>1 DEF EchoesAreSent, Types
  <2>4. transcript[Here].kind # "prompt" BY <1>0, <2>1, <2>3 DEF Expected
  <2>5. \A q \in Run : transcript[Here].run # q BY <2>1, <2>4 DEF EchoesAreSent, Run
  <2>6. \A q \in Run : Echoed(q)' => Echoed(q)
    <3> SUFFICES ASSUME NEW q \in Run, NEW k \in 1..Here, transcript[k].run = q PROVE Echoed(q)
      BY <2>1 DEF Echoed
    <3>1. k \in 1..read BY <2>1, <2>3, <2>5
    <3> QED BY <3>1 DEF Echoed
  <2>7. \A q \in Run : Echoed(q) => Echoed(q)' BY <2>1, <2>3 DEF Echoed
  <2>8. \A k \in run[r].from + 1..read : k \in run[r].from + 1..Here BY <2>1, <2>3
  <2>9. run[r].cell \notin blurred /\ run[r].cell \notin {Here, NoCell}
    BY <1>0, <2>1, <2>2 DEF Expected
  <2>10. /\ slot' = slot /\ unsaid \subseteq unsaid'
         /\ cell[run[r].cell].state = "error" => cell'[run[r].cell].state = "error"
    <3>1. run[r].cell = current => cell[run[r].cell].state = "running"
      BY <2>9 DEF Turns, OpenTurnRuns
    <3>2. CASE Settles BY <2>2, <3>1, <3>2 DEF Settles, EndLogged, Restated
    <3>3. CASE Compacts BY <2>2, <2>9, <3>1, <3>3 DEF Compacts, Restated
    <3>4. CASE OpensUnprompted BY <2>2, <2>9, <3>4 DEF OpensUnprompted
    <3>5. CASE Continues BY <2>2, <3>5 DEF Continues
    <3>6. CASE UNCHANGED <<cell, current, slot, timers, unsaid>> BY <3>6
    <3> QED BY <2>1, <2>4, <3>2, <3>3, <3>4, <3>5, <3>6 DEF LineTaken
  <2>11. Expected(r) BY <1>0, <2>1, <2>2, <2>6, <2>7, <2>8, <2>10 DEF Expected
  <2> QED BY <1>1, <2>1, <2>10, <2>11
<1>10. ASSUME NEW t \in timers, GiveUp(t) PROVE slot' = run'[r].cell
  <2>1. /\ UNCHANGED <<transcript, read, cell, run, history>>
        /\ \/ slot' = NoCell /\ givingUp' = givingUp \cup {slot}
           \/ slot' = slot /\ givingUp' = givingUp
    BY <1>10 DEF GiveUp, StillAwaited
  <2>2. Expected(r) BY <1>0, <1>4, <2>1 DEF Expected, history
  <2> QED BY <1>0, <1>1, <2>1, <2>2 DEF Expected
<1>11. ASSUME NEW c \in Cell, WriteGivenUp(c) PROVE slot' = run'[r].cell
  <2>1. EndLogged(c, "error") BY <1>11, EndsAreLogged DEF WriteGivenUp, Ended
  <2>2. /\ UNCHANGED <<transcript, read, slot, run, lost, blurred>>
        /\ givingUp' = givingUp \ {c}
    BY <1>11 DEF WriteGivenUp
  <2>3. run[r].pc \notin {"idle", "started"} /\ run[r].cell \in Cell
    BY <1>0, <1>3, <2>2 DEF Expected
  <2>4. /\ unsaid \subseteq unsaid'
        /\ c \in unsaid' \/ cell'[c].state = "error"
        /\ \A d \in Place \ {c} : cell'[d].state = cell[d].state
    BY <2>1 DEF EndLogged, Restated, Some
  <2>5. run[r].cell # c BY <1>0, <2>2, <2>4 DEF Expected
  <2>6. Expected(r) BY <1>4, <2>2, <2>3, <2>4, <2>5
  <2> QED BY <1>1, <2>2, <2>6
<1>12. CASE Close
  <2>1. EndLogged(current, "ok") BY <1>12, EndsAreLogged DEF Close, Settle, Types, Ended
  <2>2. /\ UNCHANGED <<transcript, read, slot, givingUp, run, blurred>>
        /\ lost \subseteq lost'
    BY <1>12 DEF Close, Settle
  <2>3. run[r].pc \notin {"idle", "started"} /\ run[r].cell \in Cell /\ run[r].cell \notin blurred
    BY <1>0, <1>3, <2>2 DEF Expected
  <2>4. run[r].cell = current => cell[run[r].cell].state = "running"
    BY <2>3 DEF Turns, OpenTurnRuns
  <2>5. /\ unsaid \subseteq unsaid'
        /\ cell[run[r].cell].state = "error" => cell'[run[r].cell].state = "error"
    BY <2>1, <2>3, <2>4 DEF EndLogged, Restated
  <2>6. Expected(r) BY <1>4, <2>2, <2>3, <2>5
  <2> QED BY <1>1, <2>2, <2>6
<1>13. CASE UNCHANGED vars
  <2>1. UNCHANGED <<transcript, read, cell, slot, givingUp, run, lost, blurred, unsaid>>
    BY <1>13 DEF vars, projector, history
  <2>2. Expected(r) BY <1>0, <1>4, <2>1 DEF Expected
  <2> QED BY <1>1, <2>1, <2>2
<1> QED
  BY <1>5, <1>6, <1>7, <1>8, <1>9, <1>10, <1>11, <1>12, <1>13 DEF Next, Sending

------------------------------------------------------------------------------
\* The theorems.

LEMMA InitInv == Init => IInv
<1> SUFFICES ASSUME Init PROVE IInv OBVIOUS
<1>1. Types BY InitType
<1>2. /\ transcript = <<>> /\ typed = {} /\ read = 0 /\ current = NoCell /\ slot = NoCell
      /\ givingUp = {} /\ closed = FALSE
      /\ \A r \in Run : run[r].pc = "idle" /\ run[r].cell = NoCell /\ run[r].from = 0
      /\ \A c \in Place : cell[c].state \in {"absent", "idle"} /\ cell[c].work = {}
      /\ \A l \in Line : cell[l].state = "absent"
  BY Places DEF Init, Absent
<1>3. Turned(1) = {} BY DEF Turned
<1> QED
  BY <1>1, <1>2, <1>3, Places
     DEF IInv, SendsHoldTheirCells, FailingIsBlurred, StartedIsFree, SlotIsFree, OpenTurnRuns,
         GivenUpRuns, AheadIsAbsent, ClosedLosesItsSlot, SentIsAwaited, RunningIsAttended,
         WorkIsPast, Active, EchoesAreSent, ExpectedHasTheSlot, Expected

LEMMA StepInv == ASSUME IInv, [Next]_vars PROVE IInv'
  BY TypesStep, SendsStep, TurnsStep, AttendanceStep, WorkStep, EchoesStep, ExpectedStep
     DEF IInv, Turns, Attendance

LEMMA Invariance == Spec => []IInv
  BY InitInv, StepInv, PTL DEF Spec

\* Every variable has its type, whatever lines the CLI writes and whoever sends.
THEOREM TypeCorrect == Spec => []TypeOK
<1>1. IInv => TypeOK BY TypesAreNamed DEF IInv
<1> QED BY <1>1, Invariance, PTL

\* The cell work lands on reads as running (nb_session.go, apply): no timer, failed
\* send or second send ends a turn under way, but for the cells named in blurred.
THEOREM TheOpenTurnRuns == Spec => []OpenTurnRuns
<1>1. IInv => OpenTurnRuns BY DEF IInv
<1> QED BY <1>1, Invariance, PTL

\* A cell that reads as running has somebody who will end it (AwaitAdoptionFor,
\* settleCurrent), but for those named in lost and unsaid.
THEOREM NobodyRunsUnattended == Spec => []RunningIsAttended
<1>1. IInv => RunningIsAttended BY DEF IInv
<1> QED BY <1>1, Invariance, PTL

\* Work hangs under the prompt it answers (apply), whatever is sent, typed, compacted,
\* interrupted, refused or given up meanwhile.
THEOREM WorkHangsUnderItsPrompt == Spec => []WorkUnderItsPrompt
<1>1. IInv => WorkUnderItsPrompt BY DEF IInv, WorkIsPast, WorkUnderItsPrompt
<1> QED BY <1>1, Invariance, PTL

\* An end is final: only being sent again changes an ended cell (Close).
THEOREM EndsAreFinal == Spec => EndsOnce
<1>1. ASSUME IInv, [Next]_vars
      PROVE  [\A c \in Place \ blurred' :
                cell[c].state \in Ended /\ cell'[c].state # cell[c].state
                  => cell'[c].state = "running"]_vars
  BY <1>1, EndsStep DEF IInv, Turns
<1> QED BY <1>1, Invariance, PTL DEF Spec, EndsOnce

\* A prompt sent from the notebook is shown on its own cell when it comes back
\* (sendPromptCell), if no prompt came in between, nobody gave up on it and the
\* cell's other sends have come back.
THEOREM EchoesFindTheirCell == Spec => EchoIsAdopted
<1> DEFINE Adopted ==
      \A l \in {read'} \ {read} :
        LET r == transcript[l].run
            c == run[r].cell
        IN  /\ transcript[l].kind = "prompt" /\ r # NoRun
            /\ \A k \in run[r].from + 1..read : transcript[k].kind # "prompt"
            /\ \A q \in Run \ {r} : run[q].cell = c => \E k \in 1..read : transcript[k].run = q
            /\ cell[c].state # "error" /\ c \notin givingUp \cup lost \cup blurred \cup unsaid'
            => cell'[c].line = l
<1>1. ASSUME IInv, Ingest PROVE Adopted
  <2>1. /\ Here \in 1..Len(transcript) /\ read' = Here /\ Here = read + 1 /\ LineTaken
        /\ read \in Nat
    BY <1>1, LinesAreTaken DEF IInv, Types, Here
  <2> DEFINE r == transcript[Here].run
             c == run[r].cell
  <2> SUFFICES ASSUME transcript[Here].kind = "prompt", r # NoRun,
                      \A k \in run[r].from + 1..read : transcript[k].kind # "prompt",
                      \A q \in Run \ {r} :
                        run[q].cell = c => \E k \in 1..read : transcript[k].run = q,
                      cell[c].state # "error",
                      c \notin givingUp \cup lost \cup blurred \cup unsaid'
               PROVE  cell'[c].line = Here
    BY <2>1
  <2>2. transcript[Here] \in LineRecord BY <1>1, <2>1 DEF IInv, Types
  <2>3. r \in Run BY <2>2 DEF LineRecord
  <2>4. Sent(r) /\ transcript[Here].text = Source[c] BY <1>1, <2>1 DEF IInv, EchoesAreSent
  <2>5. c \in Cell /\ run[r].pc \notin {"idle", "started"}
    BY <1>1, <2>3, <2>4 DEF Sent, IInv, SendsHoldTheirCells
  <2>6. ~Echoed(r)
    <3> SUFFICES ASSUME NEW k \in 1..read, transcript[k].run = r PROVE FALSE BY DEF Echoed
    <3>1. k \in 1..Len(transcript) /\ k # Here BY <2>1
    <3> QED BY <1>1, <2>1, <3>1 DEF IInv, EchoesAreSent
  <2>7. unsaid \subseteq unsaid'
    BY <2>1 DEF LineTaken, Adopts, Opens, Refuses
  <2>8. Expected(r) BY <2>5, <2>6, <2>7 DEF Expected, Echoed
  <2>9. slot = c BY <1>1, <2>3, <2>8 DEF IInv, ExpectedHasTheSlot
  <2>10. Matches(transcript[Here].text) BY <2>4, <2>5, <2>9, Places DEF Matches
  <2>11. ~Refuses BY <2>5, <2>9, Places DEF Refuses, Some
  <2>12. Adopts BY <2>1, <2>10, <2>11 DEF LineTaken
  <2> QED BY <2>5, <2>9, <2>12, Places DEF Adopts
<1>2. ASSUME IInv, [Next]_vars PROVE [Adopted]_vars
  <2>1. CASE Ingest BY <1>1, <1>2, <2>1
  <2>2. CASE read' = read BY <2>2
  <2>3. ASSUME \/ \E r \in Run : Echo(r)
               \/ \E text \in Typed : TypedIn(text)
               \/ \E kind \in {"work", "interrupted", "compact"} : Works(kind)
        PROVE  read' = read
    BY <1>2, <2>3, CliWrites DEF IInv, projector
  <2> QED
    BY <1>2, <2>1, <2>2, <2>3
       DEF Next, Sending, Start, AwaitAdoption, SendToSession, Delivered, CancelAdoption, Report,
           GiveUp, WriteGivenUp, Close, vars, projector
<1> QED BY <1>2, Invariance, PTL DEF Spec, EchoIsAdopted

==============================================================================
