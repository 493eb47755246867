--------------------------- MODULE NotebookRegistry ---------------------------
(***************************************************************************)
(* nb_store.go's registry of open notebooks, for one slug: the store that  *)
(* requests share, how it is opened, created and released, and the DELETE  *)
(* that releases it and removes its files (nb_api.go).                     *)
(*                                                                         *)
(* A log file is the sequence of its events' ids, which are never reused;  *)
(* one that was removed is still written to by a store that has it open.   *)
(* NotebookStore models what this leaves out: crashes, torn and failed     *)
(* writes, a second process.  Here every step is a system call or a        *)
(* critical section of the one process, nbRegistryMu being held while      *)
(* "opening" is not idle.                                                  *)
(***************************************************************************)
EXTENDS Integers, Sequences

CONSTANTS
  Deleter,        \* DELETE requests that may be served at a time
  MaxStores,      \* bound: stores opened
  MaxLines,       \* bound: events written
  SnapshotEvery   \* nbSnapshotEvery

Store == 1..MaxStores
None == 0   \* no store, no file, no event

VARIABLES
  files,      \* every log file there has been, a sequence of events each
  linked,     \* the one slug.jsonl names
  snap,       \* the document slug.snap.json holds, or nothing
  store,      \* the stores: what file, what they have folded
  registry,   \* nbRegistry[slug]
  opening,    \* openNotebookStore under nbRegistryMu
  deleting,   \* handleNotebookRoot of each DELETE
  lines       \* events written so far

reg == <<files, linked, snap, store, registry, opening, deleting, lines>>

------------------------------------------------------------------------------

Final(s) == IF s = <<>> THEN None ELSE s[Len(s)]

Idle == [pc |-> "idle", read |-> <<>>, doc |-> <<>>, created |-> FALSE]
NoSnap == [is |-> FALSE, doc |-> <<>>]

InitRegistry ==
  /\ files = <<>> /\ linked = None /\ snap = NoSnap
  /\ store = <<>> /\ registry = None
  /\ opening = Idle
  /\ deleting = [d \in Deleter |-> [pc |-> "idle", store |-> None]]
  /\ lines = 0

snapshotMatchesLog(s, events) ==
  /\ s.is
  /\ Len(s.doc) <= Len(events)
  /\ s.doc # <<>> => events[Len(s.doc)] = Final(s.doc)

LockFree == opening.pc = "idle"
Bounded == Len(store) < MaxStores
Fresh == lines + 1
MayWrite == lines < MaxLines

\* acquireNotebook and openNamedNotebook of a slug nobody has open: the log is
\* there and is read.
Acquire ==
  /\ LockFree /\ Bounded
  /\ registry = None
  /\ linked # None
  /\ opening' = [Idle EXCEPT !.pc = "read", !.read = files[linked]]
  /\ UNCHANGED <<files, linked, snap, store, registry, deleting, lines>>

\* createNotebook, and openNamedNotebook of a session: the slug is neither
\* registered nor on disk.  Any other slug uniqueNotebookSlug takes is another
\* notebook.
Create ==
  /\ LockFree /\ Bounded /\ MayWrite
  /\ registry = None
  /\ linked = None
  /\ opening' = [Idle EXCEPT !.pc = "loaded", !.created = TRUE]
  /\ UNCHANGED <<files, linked, snap, store, registry, deleting, lines>>

\* load: the snapshot, if it is one of this log, and the events after it.
Load ==
  /\ opening.pc = "read"
  /\ LET events == opening.read
         doc == IF snapshotMatchesLog(snap, events)
                  THEN snap.doc \o SubSeq(events, Len(snap.doc) + 1, Len(events))
                  ELSE events
     IN opening' = [opening EXCEPT !.pc = "loaded", !.doc = doc]
  /\ UNCHANGED <<files, linked, snap, store, registry, deleting, lines>>

\* The log is opened for appending, and created when it is not there (any
\* more); a new notebook writes its first event; the registry has the store.
Open ==
  /\ opening.pc = "loaded"
  /\ opening.created => MayWrite
  /\ LET first == IF opening.created THEN <<Fresh>> ELSE <<>>
         f == IF linked = None THEN Len(files) + 1 ELSE linked
     IN /\ files' = IF linked = None
                      THEN Append(files, first)
                      ELSE [files EXCEPT ![f] = @ \o first]
        /\ linked' = f
        /\ store' = Append(store, [file |-> f, doc |-> opening.doc \o first,
                                   last |-> Final(opening.doc \o first),
                                   since |-> Len(first), closed |-> FALSE])
        /\ lines' = lines + Len(first)
  /\ registry' = Len(store')
  /\ opening' = Idle
  /\ UNCHANGED <<snap, deleting>>

\* Append, by whoever holds the store: the line, the fold, the snapshot.
Write(i) ==
  /\ i \in DOMAIN store /\ MayWrite
  /\ ~store[i].closed
  /\ LET doc == Append(store[i].doc, Fresh)
         due == store[i].since + 1 >= SnapshotEvery
     IN /\ files' = [files EXCEPT ![store[i].file] = Append(@, Fresh)]
        /\ store' = [store EXCEPT ![i].doc = doc, ![i].last = Fresh,
                                  ![i].since = IF due THEN 0 ELSE @ + 1]
        /\ snap' = IF due THEN [is |-> TRUE, doc |-> doc] ELSE snap
  /\ lines' = Fresh
  /\ UNCHANGED <<linked, registry, opening, deleting>>

\* The request of a DELETE has acquired the store, as every request does.
Begin(d) ==
  /\ deleting[d].pc = "idle"
  /\ LockFree
  /\ registry # None
  /\ deleting' = [deleting EXCEPT ![d].pc = "acquired"]
  /\ UNCHANGED <<files, linked, snap, store, registry, opening, lines>>

\* releaseNotebook: nobody finds the store any more; its runs are interrupted,
\* and what they append on the way out still reaches the log.  Another DELETE
\* may have released it, and another store be registered by now, or none.
Release(d) ==
  /\ deleting[d].pc = "acquired"
  /\ LockFree
  /\ registry' = None
  /\ deleting' = [deleting EXCEPT ![d] =
       [pc |-> IF registry = None THEN "closed" ELSE "closing", store |-> registry]]
  /\ UNCHANGED <<files, linked, snap, store, opening, lines>>

Close(d) ==
  /\ deleting[d].pc = "closing"
  /\ LET i == deleting[d].store
     IN /\ store' = [store EXCEPT ![i].closed = TRUE]
        /\ snap' = [is |-> TRUE, doc |-> store[i].doc]
  /\ deleting' = [deleting EXCEPT ![d] = [pc |-> "closed", store |-> None]]
  /\ UNCHANGED <<files, linked, registry, opening, lines>>

RemoveLog(d) ==
  /\ deleting[d].pc = "closed"
  /\ linked' = None
  /\ deleting' = [deleting EXCEPT ![d].pc = "unlinked"]
  /\ UNCHANGED <<files, snap, store, registry, opening, lines>>

RemoveSnapshot(d) ==
  /\ deleting[d].pc = "unlinked"
  /\ snap' = NoSnap
  /\ deleting' = [deleting EXCEPT ![d].pc = "bare"]
  /\ UNCHANGED <<files, linked, store, registry, opening, lines>>

RegistryStep ==
  \/ Acquire \/ Create \/ Load \/ Open
  \/ \E i \in Store : Write(i)
  \/ \E d \in Deleter :
       \/ Begin(d) \/ Release(d) \/ Close(d)
       \/ RemoveLog(d) \/ RemoveSnapshot(d)

------------------------------------------------------------------------------

Document(s) == \A j \in 1..Len(s) : s[j] \in 1..MaxLines

\* "There is no path that mutates the notebook without a log line"
\* (nb_store.go:266): when no DELETE is under way, the store requests are
\* given has the slug's own log open, with all the events it serves.
ServedIsOnDisk ==
  registry # None /\ (\A d \in Deleter : deleting[d].pc = "idle") =>
    /\ store[registry].file = linked
    /\ files[linked] = store[registry].doc
===============================================================================
