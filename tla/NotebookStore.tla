---------------------------- MODULE NotebookStore ----------------------------
(***************************************************************************)
(* nb_store.go: one notebook's append-only log, the snapshot that caches   *)
(* its fold, and the stores (handles) that have the log open.              *)
(*                                                                         *)
(* Abstractions.                                                           *)
(*  - A document is the sequence of events it was folded from.  applyEvent *)
(*    is a function of (document, event), so two documents with the same   *)
(*    history are the same document, and Notebook.Version is the length of *)
(*    the history (NotebookDoc models the fold itself).                    *)
(*  - An event is its id.  Ids are UUIDs: fresh, never reused.             *)
(*  - readLog stops at the first line it cannot parse, so everything after *)
(*    that line is as good as absent.  The log file is therefore the       *)
(*    sequence of events readLog returns and what follows them: nothing    *)
(*    ("clean"), nothing but the last event's newline is missing           *)
(*    ("unterminated"), or an unparsable line ("garbage").                 *)
(*  - st.mu is held over a whole Append and Close, so each is one step;    *)
(*    the step a crash or a failed write cuts short is an action of its    *)
(*    own.  Processes crash, disks do not: a completed write(2) survives.  *)
(*  - Handles are independent: the registry gives a process one per slug,  *)
(*    but two processes may share the directory (nb_store.go:51).          *)
(***************************************************************************)
EXTENDS Integers, Sequences

CONSTANTS
  Handle,         \* the stores that may have the log open
  MaxEvents,      \* bound: events generated in a behaviour
  SnapshotEvery,  \* nbSnapshotEvery
  Cuts            \* ways a write may be cut short

ASSUME StoreAssumption ==
  /\ MaxEvents \in Nat
  /\ SnapshotEvery \in Nat \ {0}
  /\ Cuts \subseteq {"partial", "noNewline"}

Event == 1..MaxEvents
NoID == 0          \* the empty LastEventID

VARIABLES
  exists,   \* the log file is on disk
  log,      \* the events readLog returns
  tail,     \* what the file holds after them
  snap,     \* the snapshot file
  handle,   \* the open stores: in-memory fold, lastEventID, sinceSnapshot
  issued,   \* how many event ids have been generated
  acked     \* events whose Append returned without an error

vars == <<exists, log, tail, snap, handle, issued, acked>>

------------------------------------------------------------------------------

Closed == [open |-> FALSE, doc |-> <<>>, lastID |-> NoID, since |-> 0]

NoSnapshot == [present |-> FALSE, version |-> 0, lastID |-> NoID, doc |-> <<>>]

\* Mutant: the event a document was folded to is not kept.
Opened_Unstamped(doc, lastID, since) ==
  [open |-> TRUE, doc |-> doc, lastID |-> NoID, since |-> since]

Opened(doc, lastID, since) ==
  [open |-> TRUE, doc |-> doc, lastID |-> lastID, since |-> since]

SnapshotOf(doc, lastID) ==
  [present |-> TRUE, version |-> Len(doc), lastID |-> lastID, doc |-> doc]

LastEventID(s) == IF s = <<>> THEN NoID ELSE s[Len(s)]

\* Mutant: a snapshot no longer than the log is trusted.
MatchesLog_LengthOnly(s) == s.version <= Len(log)

\* snapshotMatchesLog: a snapshot is trusted when the log has, at the position
\* it was folded to, the very event it was folded to.
MatchesLog(s) ==
  /\ s.version <= Len(log)
  /\ \/ s.version = 0
     \/ s.lastID # NoID /\ log[s.version] = s.lastID

\* load: the trusted snapshot and the log's tail, or the whole log again.
Loaded ==
  IF snap.present /\ MatchesLog(snap)
    THEN snap.doc \o SubSeq(log, snap.version + 1, Len(log))
    ELSE log

\* One write(2) of event e's line to an O_APPEND file.  A line written after
\* an unterminated one is glued to it and both become unparsable.
Write(e, cut) ==
  \/ /\ cut = "none" \/ tail = "garbage"
     /\ UNCHANGED <<log, tail>>
  \/ /\ cut # "none" /\ tail = "unterminated"
     /\ log' = SubSeq(log, 1, Len(log) - 1)
     /\ tail' = "garbage"
  \/ /\ cut = "partial" /\ tail = "clean"
     /\ tail' = "garbage"
     /\ UNCHANGED log
  \/ /\ cut \in {"noNewline", "whole"} /\ tail = "clean"
     /\ log' = Append(log, e)
     /\ tail' = IF cut = "whole" THEN "clean" ELSE "unterminated"

Fresh(e) == issued < MaxEvents /\ e = issued + 1 /\ issued' = e

------------------------------------------------------------------------------

Init ==
  /\ exists = FALSE
  /\ log = <<>> /\ tail = "clean"
  /\ snap = NoSnapshot
  /\ handle = [h \in Handle |-> Closed]
  /\ issued = 0 /\ acked = {}

\* Mutant: opening truncates the file.
Open_Truncates(h) ==
  /\ exists /\ ~handle[h].open
  /\ log' = <<>> /\ tail' = "clean"
  /\ handle' = [handle EXCEPT ![h] = Opened(<<>>, NoID, 0)]
  /\ UNCHANGED <<exists, snap, issued, acked>>

\* openNotebookStore of an existing log.  A torn tail is left where it is.
Open(h) ==
  /\ exists /\ ~handle[h].open
  /\ handle' = [handle EXCEPT ![h] = Opened(Loaded, LastEventID(log), 0)]
  /\ UNCHANGED <<exists, log, tail, snap, issued, acked>>

\* Append's success path, and the snapshot it rewrites every SnapshotEvery
\* events.  A failed snapshot is retried by the next Append.
Publish(h, doc, since, e) ==
  /\ acked' = acked \cup {e}
  /\ \/ /\ handle' = [handle EXCEPT ![h] = Opened(Append(doc, e), e, since + 1)]
        /\ UNCHANGED snap
     \/ /\ since + 1 >= SnapshotEvery
        /\ handle' = [handle EXCEPT ![h] = Opened(Append(doc, e), e, 0)]
        /\ snap' = SnapshotOf(Append(doc, e), e)

\* openNotebookStore of a new notebook: the log starts with notebook_created.
Create(h) ==
  /\ ~exists /\ ~handle[h].open
  /\ exists' = TRUE
  /\ \E e \in Event :
       /\ Fresh(e)
       /\ Write(e, "whole")
       /\ Publish(h, <<>>, 0, e)

\* ... whose first write fails: the (empty or torn) file stays behind.
CreateFails(h, cut) ==
  /\ ~exists /\ ~handle[h].open
  /\ exists' = TRUE
  /\ \E e \in Event : Fresh(e) /\ Write(e, cut)
  /\ UNCHANGED <<snap, handle, acked>>

AppendEvent(h) ==
  /\ handle[h].open
  /\ \E e \in Event :
       /\ Fresh(e)
       /\ Write(e, "whole")
       /\ Publish(h, handle[h].doc, handle[h].since, e)
  /\ UNCHANGED exists

\* Mutant: the document is published whether or not the log took the event.
AppendFails_Publishes(h, cut) ==
  /\ handle[h].open
  /\ \E e \in Event :
       /\ Fresh(e) /\ Write(e, cut)
       /\ handle' = [handle EXCEPT ![h] = Opened(Append(@.doc, e), e, @.since + 1)]
  /\ UNCHANGED <<exists, snap, acked>>

\* The log rejects the write (a short write leaves its bytes behind): the
\* document is not published and the caller gets the error.
AppendFails(h, cut) ==
  /\ handle[h].open
  /\ \E e \in Event : Fresh(e) /\ Write(e, cut)
  /\ UNCHANGED <<exists, snap, handle, acked>>

\* The process dies, possibly inside an Append: before, within or after the
\* write, but before anyone is told.
Crash(h, cut) ==
  /\ handle[h].open
  /\ handle' = [handle EXCEPT ![h] = Closed]
  /\ \/ cut = "none" /\ UNCHANGED <<log, tail, issued>>
     \/ cut # "none" /\ \E e \in Event : Fresh(e) /\ Write(e, cut)
  /\ UNCHANGED <<exists, snap, acked>>

\* Close flushes a final snapshot; a failure to write it is ignored.
Close(h) ==
  /\ handle[h].open
  /\ handle' = [handle EXCEPT ![h] = Closed]
  /\ snap' \in {snap, SnapshotOf(handle[h].doc, handle[h].lastID)}
  /\ UNCHANGED <<exists, log, tail, issued, acked>>

\* Outside the program: an older copy of the log is put back while nobody has
\* it open.  The snapshot beside it stays.
RestoreBackup(n) ==
  /\ exists /\ \A h \in Handle : ~handle[h].open
  /\ log' = SubSeq(log, 1, n)
  /\ tail' = "clean"
  /\ acked' = {e \in acked : \E i \in 1..n : log[i] = e}
  /\ UNCHANGED <<exists, snap, handle, issued>>

\* Outside the program: the snapshot is "safe to delete at any time".
DeleteSnapshot ==
  /\ snap.present
  /\ snap' = NoSnapshot
  /\ UNCHANGED <<exists, log, tail, handle, issued, acked>>

Next ==
  \/ \E h \in Handle :
       \/ Open(h) \/ Create(h) \/ AppendEvent(h) \/ Close(h)
       \/ \E cut \in {"none"} \cup Cuts : CreateFails(h, cut) \/ AppendFails(h, cut)
       \/ \E cut \in {"none", "whole"} \cup Cuts : Crash(h, cut)
  \/ \E n \in 0..Len(log) : RestoreBackup(n)
  \/ DeleteSnapshot

Spec == Init /\ [][Next]_vars

------------------------------------------------------------------------------

StoreState ==
  [open : BOOLEAN, doc : Seq(Event), lastID : Event \cup {NoID}, since : Nat]

Snapshot ==
  [present : BOOLEAN, version : Nat, lastID : Event \cup {NoID}, doc : Seq(Event)]

\* Every variable has its type; a handle is a notebookStore, open or not.
TypeOK ==
  /\ exists \in BOOLEAN
  /\ log \in Seq(Event)
  /\ tail \in {"clean", "unterminated", "garbage"}
  /\ snap \in Snapshot
  /\ handle \in [Handle -> StoreState]
  /\ issued \in 0..MaxEvents
  /\ acked \subseteq Event

\* "Every disagreement is resolved in the log's favour" (nb_store.go:12): what
\* the next open serves is the fold of the log, whatever snapshot lies beside
\* it - of a restored backup's lost future, of another process's view, or none.
LoadIsFoldOfLog == Loaded = log

\* The event the newest snapshot would be stamped with is the last one its
\* document folded (docAndLastEvent pairs the two for the search index too).
StampIsLastFolded ==
  \A h \in Handle : handle[h].open => handle[h].lastID = LastEventID(handle[h].doc)

\* A notebook change that was acknowledged is on disk, and readable there
\* ("anything that changes a notebook is on disk by construction", nb_api.go:11).
AckedIsReadable == \A e \in acked : \E i \in DOMAIN log : log[i] = e

\* While the log has one store, what it serves is the fold of the log.
ServesTheLog == \A h \in Handle : handle[h].open => handle[h].doc = log

\* No step of the program makes an acknowledged, readable event unreadable: a
\* torn write may swallow what follows it, never what came before it.
ReadableStaysReadable ==
  [][\A e \in acked \cap acked' :
       (\E i \in DOMAIN log : log[i] = e) => \E i \in DOMAIN log' : log'[i] = e]_vars

==============================================================================
