----------------------- MODULE NotebookStoreRefinement -----------------------
(***************************************************************************)
(* A notebook with one store and undisturbed writes implements EventLog:   *)
(* snapshots, their cadence, their loss and their staleness cannot be seen *)
(* from outside.                                                           *)
(***************************************************************************)
EXTENDS NotebookStore

TheStore == CHOOSE h \in Handle : TRUE

EL == INSTANCE EventLog WITH
        Entry   <- Event,
        entries <- log,
        serving <- handle[TheStore].open,
        view    <- handle[TheStore].doc

\* Every behaviour of the store is one of the abstract log (notebookStore as
\* its callers see it: openNotebookStore, Append, Close).
ImplementsEventLog == EL!Spec

==============================================================================
