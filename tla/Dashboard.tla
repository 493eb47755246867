------------------------------ MODULE Dashboard ------------------------------
(***************************************************************************)
(* How a dashboard follows one session (session.go, ws.go, app.js):        *)
(* goroutines change the session and broadcast what it is then; the        *)
(* broadcasts of fifty milliseconds become one; a dashboard that connects  *)
(* is sent everything there is, through the queue its patches go through.  *)
(*                                                                         *)
(* The session is a version, the number of changes made to it.  What a     *)
(* dashboard is told is the version that was read for it.  Most changes    *)
(* end in setStatus or touch, which announce the session; some, as the     *)
(* opening of its notebook, do not, and show with the next that does.      *)
(*                                                                         *)
(* A dashboard shows what it was told last.  The code does not order what  *)
(* it tells; the history variable "windows" names where that shows:        *)
(*   "overtaken"  an older version was broadcast after a newer one         *)
(*   "ghost"      a version was broadcast after the session's removal was  *)
(*   "connect"    a message was queued ahead of the opening snapshot that  *)
(*                lacks it                                                 *)
(*   "overflow"   a message was dropped at a full queue                    *)
(***************************************************************************)
EXTENDS Integers, Sequences

CONSTANTS
  Writer,      \* goroutines that change the session
  MaxChanges,  \* bound: changes of the session
  Depth        \* dashQueueDepth

Nothing == -1   \* no version: not there, not read
Version == 0..MaxChanges

VARIABLES
  version,   \* the session
  announced, \* history: the version of the last change that is announced
  remover,   \* removeSession: "registered", then "unlisted", then "removed"
  writer,    \* each goroutine: where it is and the version it read
  pending,   \* coalescePend
  timer,     \* coalesceTimer is set
  batches,   \* flushes under way, each with the version it took
  conn,      \* "closed", "joined" dashSubs, "read" the registry, "live"
  opening,   \* the snapshot that was read
  queue,     \* the connection's queue, with what is on its way
  view,      \* what the dashboard shows
  newest,    \* history: the newest version broadcast
  windows

tab == <<conn, opening, queue, view>>
vars == <<version, announced, remover, writer, pending, timer, batches, tab, newest, windows>>

Idle == [pc |-> "idle", read |-> Nothing]

Init ==
  /\ version = 0 /\ announced = 0 /\ remover = "registered"
  /\ writer = [w \in Writer |-> Idle]
  /\ pending = Nothing /\ timer = FALSE /\ batches = <<>>
  /\ conn = "closed" /\ opening = Nothing /\ queue = <<>> /\ view = Nothing
  /\ newest = Nothing /\ windows = {}

Listed == IF remover = "registered" THEN version ELSE Nothing

------------------------------------------------------------------------------
\* wsSub.send: queued, or dropped where there is no room.  A patch for a connection
\* whose snapshot was read before it is what "connect" names.

Enqueue(msg, also) ==
  LET full == Len(queue) >= Depth
      early == conn = "read" /\ msg.shows # opening
  IN
  /\ queue' = IF conn = "closed" \/ full THEN queue ELSE Append(queue, msg)
  /\ windows' = windows \cup also
                 \cup (IF conn # "closed" /\ full THEN {"overflow"} ELSE {})
                 \cup (IF early THEN {"connect"} ELSE {})

\* setStatus and touch: the change, what the session is then, and who is told.
Change(w) ==
  /\ writer[w].pc = "idle" /\ version < MaxChanges
  /\ version' = version + 1 /\ announced' = version'
  /\ writer' = [writer EXCEPT ![w].pc = "changed"]
  /\ UNCHANGED <<remover, pending, timer, batches, tab, newest, windows>>

\* openSessionProjector: s.nb is set by the transcript watcher, and nobody is told.
ChangeUnannounced ==
  /\ version < MaxChanges
  /\ version' = version + 1
  /\ UNCHANGED <<announced, remover, writer, pending, timer, batches, tab, newest, windows>>

toJSON(w) ==
  /\ writer[w].pc = "changed"
  /\ writer' = [writer EXCEPT ![w] = [pc |-> "read", read |-> version]]
  /\ UNCHANGED <<version, announced, remover, pending, timer, batches, tab, newest, windows>>

\* Mutant: the first of a window stays.
Coalesced_First(v) == IF pending = Nothing THEN v ELSE pending

Coalesced(v) == v

coalesceUpsert(w) ==
  /\ writer[w].pc = "read"
  /\ pending' = Coalesced(writer[w].read)
  /\ timer' = TRUE
  /\ writer' = [writer EXCEPT ![w] = Idle]
  /\ windows' = windows \cup (IF pending > writer[w].read THEN {"overtaken"} ELSE {})
  /\ UNCHANGED <<version, announced, remover, batches, tab, newest>>

\* flushCoalescedUpserts: the batch is taken,
TakeBatch ==
  /\ timer /\ timer' = FALSE
  /\ pending' = Nothing
  /\ batches' = Append(batches, pending)
  /\ UNCHANGED <<version, announced, remover, writer, tab, newest, windows>>

\* ... and broadcast, which two flushes can do in any order.
SendBatch(i) ==
  LET v == batches[i] IN
  /\ batches' = SubSeq(batches, 1, i - 1) \o SubSeq(batches, i + 1, Len(batches))
  /\ Enqueue([kind |-> "upsert", shows |-> v],
             (IF newest > v THEN {"overtaken"} ELSE {})
               \cup (IF remover = "removed" THEN {"ghost"} ELSE {}))
  /\ newest' = IF v > newest THEN v ELSE newest
  /\ UNCHANGED <<version, announced, remover, writer, pending, timer, conn, opening, view>>

\* removeSession: out of the registry, then the dashboards are told, at once.
Unlist ==
  /\ remover = "registered" /\ remover' = "unlisted"
  /\ UNCHANGED <<version, announced, writer, pending, timer, batches, tab, newest, windows>>

TellRemoved ==
  /\ remover = "unlisted" /\ remover' = "removed"
  /\ Enqueue([kind |-> "remove", shows |-> Nothing], {})
  /\ UNCHANGED <<version, announced, writer, pending, timer, batches, conn, opening, view, newest>>

------------------------------------------------------------------------------
\* handleDashboardWS and the tab's end of it.

Join ==
  /\ conn = "closed" /\ conn' = "joined"
  /\ UNCHANGED <<version, announced, remover, writer, pending, timer, batches, opening, queue, view,
                 newest, windows>>

ReadRegistry ==
  /\ conn = "joined" /\ conn' = "read"
  /\ opening' = Listed
  /\ UNCHANGED <<version, announced, remover, writer, pending, timer, batches, queue, view, newest,
                 windows>>

SendSnapshot ==
  /\ conn = "read" /\ conn' = "live"
  /\ opening' = Nothing
  /\ IF Len(queue) >= Depth
       THEN windows' = windows \cup {"overflow"} /\ UNCHANGED queue
       ELSE queue' = Append(queue, [kind |-> "snapshot", shows |-> opening])
            /\ UNCHANGED windows
  /\ UNCHANGED <<version, announced, remover, writer, pending, timer, batches, view, newest>>

\* Every message says what to show: a snapshot clears first, a removal deletes.
Receive ==
  /\ queue # <<>>
  /\ view' = Head(queue).shows
  /\ queue' = Tail(queue)
  /\ UNCHANGED <<version, announced, remover, writer, pending, timer, batches, conn, opening,
                 newest, windows>>

\* The connection breaks, or the write times out: the tab connects again later.
Disconnect ==
  /\ conn # "closed" /\ conn' = "closed"
  /\ opening' = Nothing /\ queue' = <<>>
  /\ UNCHANGED <<version, announced, remover, writer, pending, timer, batches, view, newest,
                 windows>>

------------------------------------------------------------------------------

Next ==
  \/ \E w \in Writer : Change(w) \/ toJSON(w) \/ coalesceUpsert(w)
  \/ ChangeUnannounced \/ TakeBatch \/ \E i \in DOMAIN batches : SendBatch(i)
  \/ Unlist \/ TellRemoved
  \/ Join \/ ReadRegistry \/ SendSnapshot \/ Receive \/ Disconnect

Spec == Init /\ [][Next]_vars

------------------------------------------------------------------------------

\* Every variable has its type.
TypeOK ==
  /\ version \in Version /\ announced \in Version
  /\ remover \in {"registered", "unlisted", "removed"}
  /\ writer \in [Writer -> [pc : {"idle", "changed", "read"}, read : Version \cup {Nothing}]]
  /\ pending \in Version \cup {Nothing} /\ timer \in BOOLEAN
  /\ pending # Nothing => timer
  /\ batches \in Seq(Version)
  /\ conn \in {"closed", "joined", "read", "live"} /\ opening \in Version \cup {Nothing}
  /\ Len(queue) <= Depth /\ view \in Version \cup {Nothing}
  /\ windows \subseteq {"overtaken", "ghost", "connect", "overflow"}

AllIsSaid ==
  /\ \A w \in Writer : writer[w].pc = "idle"
  /\ pending = Nothing /\ batches = <<>> /\ remover # "unlisted"

\* The session, with its last announced change if perhaps not what changed since.
Current(v) == IF remover = "registered" THEN v \in announced..version ELSE v = Nothing

\* A connected dashboard that has been told everything there is to say shows the
\* session as it was at its last announced change, or since, and does not show one
\* that was removed, but for the four windows ("state is fully re-broadcast on the
\* next event", wsSub.send; "keep only the freshest agent snapshot per id",
\* coalesceUpsert).
SettledDashboardIsCurrent ==
  AllIsSaid /\ conn = "live" /\ queue = <<>> /\ windows = {} => Current(view)

==============================================================================
