----------------------------- MODULE NotebookDoc -----------------------------
(***************************************************************************)
(* The document and its two folds: applyEvent of nb_doc.go, which the      *)
(* server runs over the log, and applyEvent of static/nb.js, which a tab   *)
(* runs over the events it is sent.                                        *)
(*                                                                         *)
(* A cell's source is a value of Source; of an output only the run that    *)
(* wrote it is kept, NoRun for the session projector, which writes outside *)
(* any run.  Title, meta, times and usage are left out: the fold copies    *)
(* them, and nothing here depends on them.                                 *)
(***************************************************************************)
EXTENDS Integers, Sequences, SequencesExt

CONSTANTS
  Cell, Run, Source,
  NoCell,     \* the empty beforeCellId or afterCellId
  NoRun,      \* the empty runId
  Unset       \* a field a cell_edited leaves alone

ASSUME DocAssumption ==
  NoCell \notin Cell /\ NoRun \notin Run /\ Unset \notin Source

Kind == {"markdown", "prompt", "shell", "file"}
State == {"idle", "running", "ok", "error", "interrupted", "stale"}

CellRecord ==
  [id : Cell, kind : Kind, src : Source, state : State,
   run : Run \cup {NoRun}, outs : Seq(Run \cup {NoRun})]

------------------------------------------------------------------------------
\* The log's events.

Inserted(cell, before, after) ==
  [type |-> "cell_inserted", cell |-> cell, before |-> before, after |-> after]
Edited(id, src, kind) ==
  [type |-> "cell_edited", id |-> id, src |-> src, kind |-> kind]
Moved(id, before) == [type |-> "cell_moved", id |-> id, before |-> before]
Deleted(id) == [type |-> "cell_deleted", id |-> id]
Started(id, run) == [type |-> "run_started", id |-> id, run |-> run]
Output(id, run) == [type |-> "output_appended", id |-> id, run |-> run]
Finished(id, run, status) ==
  [type |-> "run_finished", id |-> id, run |-> run, status |-> status]
Invalidated(ids) == [type |-> "cells_invalidated", ids |-> ids]

NewCell(id, kind, src, state) ==
  [id |-> id, kind |-> kind, src |-> src, state |-> state, run |-> NoRun, outs |-> <<>>]

------------------------------------------------------------------------------
\* nb_doc.go

\* indexOfCell, 0 when there is none.
IndexOfCell(doc, id) == SelectInSeq(doc, LAMBDA c : c.id = id)

Has(doc, id) == IndexOfCell(doc, id) # 0

CellOf(doc, id) == doc[IndexOfCell(doc, id)]

\* An event about a cell that is gone changes nothing.
Update(doc, id, c) ==
  IF Has(doc, id) THEN ReplaceAt(doc, IndexOfCell(doc, id), c) ELSE doc

Before(doc, id) == IF Has(doc, id) THEN IndexOfCell(doc, id) ELSE Len(doc) + 1

\* beforeCellId wins, then afterCellId, then append; as does a place that is gone.
Place(doc, before, after) ==
  CASE before # NoCell -> Before(doc, before)
    [] before = NoCell /\ Has(doc, after) -> IndexOfCell(doc, after) + 1
    [] OTHER -> Len(doc) + 1

Without(doc, id) ==
  IF Has(doc, id) THEN RemoveAt(doc, IndexOfCell(doc, id)) ELSE doc

\* Mutant: the cell stays where it was, too.
MovedTo_Copies(doc, id, before) ==
  IF Has(doc, id) THEN InsertAt(doc, Before(doc, before), CellOf(doc, id)) ELSE doc

MovedTo(doc, id, before) ==
  IF Has(doc, id)
    THEN LET rest == Without(doc, id)
         IN InsertAt(rest, Before(rest, before), CellOf(doc, id))
    ELSE doc

\* Mutant: any run may write to the cell.
Superseded_Never(c, run) == FALSE

\* "A slow write racing a re-run must not land in the new run's output."
Superseded(c, run) == run # NoRun /\ c.run # NoRun /\ run # c.run

\* Mutant: a running cell is told it is out of date.
Stale_Running(doc, ids) ==
  [i \in DOMAIN doc |->
    IF doc[i].id \in ids THEN [doc[i] EXCEPT !.state = "stale"] ELSE doc[i]]

Stale(doc, ids) ==
  [i \in DOMAIN doc |->
    IF doc[i].id \in ids /\ doc[i].state \in {"ok", "error"}
      THEN [doc[i] EXCEPT !.state = "stale"] ELSE doc[i]]

Field(new, old) == IF new = Unset THEN old ELSE new

Apply(doc, e) ==
  CASE e.type = "cell_inserted" ->
         InsertAt(doc, Place(doc, e.before, e.after), e.cell)
    [] e.type = "cell_edited" ->
         LET c == CellOf(doc, e.id) IN
         Update(doc, e.id,
                [c EXCEPT !.src = Field(e.src, @), !.kind = Field(e.kind, @)])
    [] e.type = "cell_moved" -> MovedTo(doc, e.id, e.before)
    [] e.type = "cell_deleted" -> Without(doc, e.id)
    [] e.type = "run_started" ->
         LET c == CellOf(doc, e.id) IN
         Update(doc, e.id, [c EXCEPT !.outs = <<>>, !.run = e.run, !.state = "running"])
    [] e.type = "output_appended" ->
         LET c == CellOf(doc, e.id) IN
         Update(doc, e.id,
                IF Superseded(c, e.run) THEN c ELSE [c EXCEPT !.outs = Append(@, e.run)])
    [] e.type = "run_finished" ->
         LET c == CellOf(doc, e.id) IN
         Update(doc, e.id,
                IF Superseded(c, e.run) THEN c ELSE [c EXCEPT !.state = e.status])
    [] e.type = "cells_invalidated" -> Stale(doc, e.ids)

------------------------------------------------------------------------------
\* static/nb.js, which the fold above says it mirrors.

\* Mutant: a cell lands before the one it should follow.
ClientPlace_OffByOne(nb, before, after) ==
  CASE before # NoCell /\ Has(nb, before) -> IndexOfCell(nb, before)
    [] before = NoCell /\ after # NoCell /\ Has(nb, after) -> IndexOfCell(nb, after)
    [] OTHER -> Len(nb) + 1

ClientPlace(nb, before, after) ==
  CASE before # NoCell /\ Has(nb, before) -> IndexOfCell(nb, before)
    [] before = NoCell /\ after # NoCell /\ Has(nb, after) -> IndexOfCell(nb, after) + 1
    [] OTHER -> Len(nb) + 1

ClientMovedTo(nb, id, before) ==
  IF Has(nb, id)
    THEN LET rest == Without(nb, id)
         IN InsertAt(rest, ClientPlace(rest, before, NoCell), CellOf(nb, id))
    ELSE nb

ClientApply(nb, e) ==
  CASE e.type = "cell_inserted" ->
         InsertAt(nb, ClientPlace(nb, e.before, e.after), e.cell)
    [] e.type = "cell_edited" ->   \* the payload's type is not read
         Update(nb, e.id, [CellOf(nb, e.id) EXCEPT !.src = Field(e.src, @)])
    [] e.type = "cell_moved" -> ClientMovedTo(nb, e.id, e.before)
    [] e.type = "cell_deleted" -> Without(nb, e.id)
    [] e.type = "run_started" ->
         Update(nb, e.id, [CellOf(nb, e.id) EXCEPT
                             !.outs = <<>>, !.run = e.run, !.state = "running"])
    [] e.type = "output_appended" ->   \* whichever run it is from
         Update(nb, e.id, [CellOf(nb, e.id) EXCEPT !.outs = Append(@, e.run)])
    [] e.type = "run_finished" ->      \* whichever run it is of
         Update(nb, e.id, [CellOf(nb, e.id) EXCEPT !.state = e.status])
    [] e.type = "cells_invalidated" -> Stale(nb, e.ids)

==============================================================================
