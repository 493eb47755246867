---------------------------- MODULE NotebookStream ----------------------------
(***************************************************************************)
(* How one browser tab follows a notebook: nb_ws.go's handshake,           *)
(* nb_store.go's fan-out, session.go's bounded queue (wsSub) and nb.js's   *)
(* client-side fold and refetch.                                           *)
(*                                                                         *)
(* Abstractions.                                                           *)
(*  - Event s is the one applied at log position s; the server's document  *)
(*    at version v is the fold of 1..v, the client's is the sequence of    *)
(*    positions it is folded from.                                         *)
(*  - Append commits under st.mu and broadcasts after unlocking: between   *)
(*    the two its event is in "pending".                                   *)
(*  - Subscribers do not affect each other, so there is one.  sendAll      *)
(*    copies the subscriber set and then sends; a subscriber that leaves   *)
(*    between the two misses the message, as if the send came before.      *)
(*  - The subscriber's channel and the bytes in flight are one FIFO queue  *)
(*    of Depth messages; it is lost with the connection.                   *)
(*                                                                         *)
(* The code leaves five windows open; "windows" is a history variable with *)
(* those hit since the connection was opened:                              *)
(*   "connect"   an event appended after the handshake folded the document *)
(*               is queued before that fold                                *)
(*   "writers"   an Append broadcasts before an earlier one has            *)
(*   "overflow"  a message finds the queue full and is dropped             *)
(*   "refetch"   the client goes on while a refetch is outstanding, or its *)
(*               reply overtakes the opening fold                          *)
(*   "unanswered"  a refetch fails: resync catches nothing and is not      *)
(*               called again                                              *)
(***************************************************************************)
EXTENDS Integers, Sequences, FiniteSets

CONSTANTS
  MaxEvents,   \* bound: events appended in a behaviour
  Depth,       \* nbQueueDepth
  Unknown      \* positions of events a newer build wrote: this client can't fold them

ASSUME StreamAssumption ==
  /\ MaxEvents \in Nat
  /\ Depth \in Nat \ {0}
  /\ Unknown \subseteq 1..MaxEvents

Position == 1..MaxEvents

VARIABLES
  version,    \* length of the log
  pending,    \* positions appended and not yet broadcast
  conn,       \* the handshake: "closed", "subscribed", "folded", "live"
  folded,     \* the version Doc() returned to the handshake
  queue,      \* messages on their way to the client
  view,       \* the positions the client's document is folded from, in order
  seen,       \* the client's state.version
  asked,      \* unknown events whose refetch the server has not served yet
  replies,    \* versions of the refetched documents on their way back
  windows     \* which of the five windows the connection has hit

server == <<version, pending, conn, folded>>
client == <<view, seen, asked, replies>>
vars == <<server, queue, client, windows>>

------------------------------------------------------------------------------

UpToV(v) == [i \in 1..v |-> i]

FoldMsg(v) == [type |-> "fold", at |-> v]
EventMsg(s) == [type |-> "event", at |-> s]

Enqueued(m) == IF Len(queue) < Depth THEN Append(queue, m) ELSE queue

\* wsSub.send: drop rather than block.
Send(m) == queue' = Enqueued(m)

HitIf(window, condition) == IF condition THEN {window} ELSE {}

Overflowing == HitIf("overflow", Len(queue) >= Depth)

\* The page has fetched the notebook and is about to connect (openNotebook).
Init ==
  /\ version = 0
  /\ pending = {}
  /\ conn = "closed" /\ folded = 0 /\ queue = <<>>
  /\ view = <<>> /\ seen = 0
  /\ asked = {} /\ replies = {}
  /\ windows = {}

\* Append, up to its unlock.
AppendEvent ==
  /\ version < MaxEvents
  /\ version' = version + 1
  /\ pending' = pending \cup {version + 1}
  /\ UNCHANGED <<conn, folded, queue, client, windows>>

\* broadcastEvent, in the goroutine of the Append that committed s.
Broadcast(s) ==
  /\ s \in pending
  /\ pending' = pending \ {s}
  /\ IF conn = "closed"
       THEN UNCHANGED <<queue, windows>>
       ELSE /\ Send(EventMsg(s))
            /\ windows' = windows \cup Overflowing
                 \cup HitIf("connect", conn = "folded" /\ s > folded)
                 \cup HitIf("writers", \E t \in pending : t < s)
  /\ UNCHANGED <<version, conn, folded, client>>

FoldUnderWay == conn = "folded" \/ \E i \in DOMAIN queue : queue[i].type = "fold"

Refetching == asked # {} \/ replies # {}

\* The handshake: subscribe, then fold, then send the fold.
Subscribe ==
  /\ conn = "closed"
  /\ conn' = "subscribed" /\ queue' = <<>>
  /\ windows' = IF Refetching THEN windows \cap {"refetch"} ELSE {}
  /\ UNCHANGED <<version, pending, folded, client>>

TakeFold ==
  /\ conn = "subscribed"
  /\ conn' = "folded" /\ folded' = version
  /\ UNCHANGED <<version, pending, queue, client, windows>>

SendFold ==
  /\ conn = "folded"
  /\ conn' = "live"
  /\ Send(FoldMsg(folded))
  /\ windows' = windows \cup Overflowing
  /\ UNCHANGED <<version, pending, folded, client>>

\* A socket dies: what it carried is gone, and the client connects again.
Disconnect ==
  /\ conn # "closed"
  /\ conn' = "closed" /\ queue' = <<>>
  /\ UNCHANGED <<version, pending, folded, client, windows>>

GoesOn == windows' = windows \cup HitIf("refetch", Refetching)

\* The fold and a refetched document both replace what the client has.
Replace(v) == view' = UpToV(v) /\ seen' = v

\* ws.onmessage with the opening fold.
ReceiveFold ==
  /\ queue # <<>> /\ Head(queue).type = "fold"
  /\ GoesOn
  /\ queue' = Tail(queue)
  /\ Replace(Head(queue).at)
  /\ UNCHANGED <<server, asked, replies>>

\* Mutants: every event is applied; the next one is taken for a duplicate.
AlreadyFolded_Never(s) == FALSE
AlreadyFolded_OffByOne(s) == s <= seen + 1

\* ... with an event: already folded in, not understood, or applied.
AlreadyFolded(s) == s <= seen

ReceiveEvent ==
  /\ queue # <<>> /\ Head(queue).type = "event"
  /\ GoesOn
  /\ queue' = Tail(queue)
  /\ LET s == Head(queue).at IN
       \/ /\ AlreadyFolded(s)
          /\ UNCHANGED <<view, seen, asked>>
       \/ /\ ~AlreadyFolded(s) /\ s \in Unknown
          /\ asked' = asked \cup {s}
          /\ UNCHANGED <<view, seen>>
       \/ /\ ~AlreadyFolded(s) /\ s \notin Unknown
          /\ view' = Append(view, s) /\ seen' = s
          /\ UNCHANGED asked
  /\ UNCHANGED <<server, replies>>

\* resync's GET throws, refused or not reaching the server (api() in nb.js) ...
AskFails(s) ==
  /\ s \in asked
  /\ asked' = asked \ {s}
  /\ windows' = windows \cup {"unanswered"}
  /\ UNCHANGED <<server, queue, view, seen, replies>>

\* ... or the server answers with the document it has by then ...
ServeRefetch(s) ==
  /\ s \in asked
  /\ asked' = asked \ {s}
  /\ replies' = replies \cup {version}
  /\ UNCHANGED <<server, queue, view, seen, windows>>

\* ... an answer that may get lost, and with it the GET that awaits it ...
ReplyFails(v) ==
  /\ v \in replies
  /\ replies' = replies \ {v}
  /\ windows' = windows \cup {"unanswered"}
  /\ UNCHANGED <<server, queue, view, seen, asked>>

\* ... or replaces the client's document, whenever it arrives.
ReceiveReply(v) ==
  /\ v \in replies
  /\ replies' = replies \ {v}
  /\ Replace(v)
  /\ windows' = windows \cup HitIf("refetch", FoldUnderWay)
  /\ UNCHANGED <<server, queue, asked>>

Next ==
  \/ AppendEvent \/ \E s \in Position : Broadcast(s)
  \/ Subscribe \/ TakeFold \/ SendFold \/ Disconnect
  \/ ReceiveFold \/ ReceiveEvent
  \/ \E s \in Position : ServeRefetch(s) \/ AskFails(s)
  \/ \E v \in 0..MaxEvents : ReceiveReply(v) \/ ReplyFails(v)

Spec == Init /\ [][Next]_vars

\* Appends that have committed finish, connections' goroutines and the browser's
\* event loop run, and a request ends, answered or failed; nothing makes it succeed,
\* and nothing makes anyone append, connect or disconnect.
Fairness ==
  /\ \A s \in Position : /\ WF_vars(Broadcast(s))
                          /\ WF_vars(ServeRefetch(s) \/ AskFails(s))
  /\ \A v \in 0..MaxEvents : WF_vars(ReceiveReply(v) \/ ReplyFails(v))
  /\ WF_vars(TakeFold) /\ WF_vars(SendFold)
  /\ WF_vars(ReceiveFold) /\ WF_vars(ReceiveEvent)

FairSpec == Spec /\ Fairness

------------------------------------------------------------------------------

Message == [type : {"fold", "event"}, at : 0..MaxEvents]

\* Every variable has its type, nothing is pending that was not appended, and a
\* subscriber never holds more than its queue (nbQueueDepth).
TypeOK ==
  /\ version \in 0..MaxEvents
  /\ pending \subseteq 1..version
  /\ conn \in {"closed", "subscribed", "folded", "live"}
  /\ folded \in 0..MaxEvents
  /\ queue \in Seq(Message) /\ Len(queue) <= Depth
  /\ view \in Seq(Position) /\ seen \in 0..MaxEvents
  /\ asked \subseteq Position
  /\ replies \subseteq 0..MaxEvents
  /\ windows \subseteq {"connect", "writers", "overflow", "refetch", "unanswered"}

\* Whatever arrives in whatever order, the client applies no event twice and
\* none out of order (nb.js's test against state.version; nb_store.go:423-427).
AppliedInOrder ==
  /\ \A i, j \in DOMAIN view : i < j => view[i] < view[j]
  /\ \A i \in DOMAIN view : view[i] <= seen

\* The client awaits neither its connection's opening fold nor a refetch: what
\* it shows now is what it goes on from.
Settled ==
  /\ conn = "live" /\ \A i \in DOMAIN queue : queue[i].type # "fold"
  /\ asked = {} /\ replies = {}

\* What a settled client shows is the fold of the log up to the version it
\* shows, with nothing missing below it, unless its connection hit a window: the
\* five are all there is between a tab and the log (handleNotebookWS, Append's
\* broadcast, wsSub.send, resync).  A reconnect heals all but a refetch under way.
InStep == Settled /\ windows = {} => view = UpToV(seen)

\* An event appended under a live connection reaches its client, unless the
\* connection goes or hits a window (broadcastEvent, wsSub.pump, ws.onmessage).
EveryEventArrives ==
  \A s \in Position :
    (conn = "live" /\ version >= s) ~> (seen >= s \/ conn = "closed" \/ windows # {})

\* "The client drops any event whose sequence it has already folded in, so events
\* in that window are neither lost nor double-applied.  Ordering stops mattering"
\* (nb_ws.go:59-62): the handshake loses nothing.
HandshakeLosesNothing == Settled /\ queue = <<>> /\ pending = {} => seen = version

==============================================================================
