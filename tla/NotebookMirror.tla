---------------------------- MODULE NotebookMirror ----------------------------
(***************************************************************************)
(* A server's document and the copy a tab keeps in step with it: every     *)
(* event the handlers can log is folded by both, in order (NotebookStream  *)
(* says when the order holds).  The two folds are not the same function;   *)
(* what they may come to disagree about is what this module is about.      *)
(*                                                                         *)
(* A handler checks that its cell exists and appends later, so an event    *)
(* may name a cell that has gone meanwhile; a run's writer may outlive it. *)
(***************************************************************************)
EXTENDS NotebookDoc

CONSTANTS
  Kinds,       \* the cell types in play
  Busy,        \* bound: the cells that are run, edited and invalidated
  MaxOutputs   \* bound: outputs of one cell

ASSUME MirrorAssumption ==
  Kinds \subseteq Kind /\ Busy \subseteq Cell /\ MaxOutputs \in Nat

VARIABLES
  doc,       \* the server's document
  client,    \* the tab's copy
  used,      \* ids of the cells ever inserted
  cellOf,    \* the cell each run was started on, NoCell while it was not
  retyped,   \* cells whose type changed since the tab last had the document
  late       \* cells written to by a superseded run since then and since
             \* their last run_started

vars == <<doc, client, used, cellOf, retyped, late>>

------------------------------------------------------------------------------

Init ==
  /\ doc = <<>> /\ client = <<>>
  /\ used = {} /\ cellOf = [r \in Run |-> NoCell]
  /\ retyped = {} /\ late = {}

\* Append, and the broadcast that reaches the tab.
Log(e) == doc' = Apply(doc, e) /\ client' = ClientApply(client, e)

\* handleCellInsert; the projector inserts cells that already run (openCell).
InsertCell(id, kind, src, state, before, after) ==
  /\ id \notin used
  /\ used' = used \cup {id}
  /\ Log(Inserted(NewCell(id, kind, src, state), before, after))
  /\ UNCHANGED <<cellOf, retyped, late>>

\* handleCellEditOrDelete, PATCH.
EditCell(id, src, kind) ==
  /\ src # Unset \/ kind # Unset
  /\ Log(Edited(id, src, kind))
  /\ retyped' = IF Has(doc, id) /\ kind \notin {Unset, CellOf(doc, id).kind}
                  THEN retyped \cup {id} ELSE retyped
  /\ UNCHANGED <<used, cellOf, late>>

\* handleCellMove
MoveCell(id, before) ==
  /\ Log(Moved(id, before))
  /\ UNCHANGED <<used, cellOf, retyped, late>>

\* handleCellEditOrDelete, DELETE.
DeleteCell(id) ==
  /\ Log(Deleted(id))
  /\ UNCHANGED <<used, cellOf, retyped, late>>

\* handleCellRun
StartRun(id, run) ==
  /\ cellOf[run] = NoCell
  /\ cellOf' = [cellOf EXCEPT ![run] = id]
  /\ Log(Started(id, run))
  /\ late' = late \ {id}
  /\ UNCHANGED <<used, retyped>>

RunsOf(id) == {run \in Run : cellOf[run] = id}

NotesLate(id, run) ==
  late' = IF Has(doc, id) /\ Superseded(CellOf(doc, id), run) THEN late \cup {id} ELSE late

\* emitOutput, finishRun, and the projector's appendOutput with no run.
AppendOutput(id, run) ==
  /\ Has(client, id) => Len(CellOf(client, id).outs) < MaxOutputs
  /\ Log(Output(id, run))
  /\ NotesLate(id, run)
  /\ UNCHANGED <<used, cellOf, retyped>>

FinishRun(id, run, status) ==
  /\ Log(Finished(id, run, status))
  /\ NotesLate(id, run)
  /\ UNCHANGED <<used, cellOf, retyped>>

\* invalidateBelow, with the ids it read some time ago.
Invalidate(ids) ==
  /\ Log(Invalidated(ids))
  /\ UNCHANGED <<used, cellOf, retyped, late>>

\* A reconnecting or refetching tab gets the document again.
Refold ==
  /\ client' = doc
  /\ retyped' = {} /\ late' = {}
  /\ UNCHANGED <<doc, used, cellOf>>

Next ==
  \/ \E id \in Cell, kind \in Kinds, src \in Source, state \in {"idle", "running"},
        before, after \in used \cup {NoCell} :
       InsertCell(id, kind, src, state, before, after)
  \/ \E id \in used :
       \/ \E before \in used \cup {NoCell} : MoveCell(id, before)
       \/ DeleteCell(id)
  \/ \E id \in used \cap Busy :
       \/ \E src \in Source \cup {Unset}, kind \in Kinds \cup {Unset} : EditCell(id, src, kind)
       \/ \E run \in Run : StartRun(id, run)
       \/ \E run \in RunsOf(id) \cup {NoRun} :
            \/ AppendOutput(id, run)
            \/ \E status \in {"ok", "interrupted"} : FinishRun(id, run, status)
  \/ \E ids \in SUBSET (used \cap Busy) : Invalidate(ids)
  \/ Refold

Spec == Init /\ [][Next]_vars

------------------------------------------------------------------------------

\* Both copies are documents, over the cells and runs there are (nbCell).
TypeOK ==
  /\ doc \in Seq(CellRecord) /\ client \in Seq(CellRecord)
  /\ used \subseteq Cell /\ cellOf \in [Run -> Cell \cup {NoCell}]
  /\ retyped \subseteq Cell /\ late \subseteq Cell

\* However cells are inserted, moved, restored and deleted by requests that race
\* each other, no cell is in the document twice (applyEvent's splices).
CellsAreDistinct ==
  \A i, j \in DOMAIN doc : doc[i].id = doc[j].id => i = j

\* A cell shows the outputs of one run, or of none: what an earlier run writes
\* late never lands among a later one's (nb_doc.go:440-444).
OneRunsOutputs ==
  \A i \in DOMAIN doc : \A k \in DOMAIN doc[i].outs : doc[i].outs[k] \in {NoRun, doc[i].run}

\* The tab's copy has the server's cells in the server's order with the server's
\* sources, whatever the events named; it can differ in nothing but the type of
\* a retyped cell and the state and outputs of one a superseded run wrote to.
ClientFollows ==
  /\ DOMAIN client = DOMAIN doc
  /\ \A i \in DOMAIN doc :
       /\ client[i].id = doc[i].id /\ client[i].src = doc[i].src
       /\ client[i].run = doc[i].run
       /\ client[i].kind = doc[i].kind \/ doc[i].id \in retyped
       /\ \/ client[i].state = doc[i].state /\ client[i].outs = doc[i].outs
          \/ doc[i].id \in late

==============================================================================
