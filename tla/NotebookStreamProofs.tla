------------------------- MODULE NotebookStreamProofs -------------------------
(***************************************************************************)
(* Proofs about NotebookStream for every queue depth and every set of      *)
(* unknown events: what holds with every window open (events apply in      *)
(* order), and that the windows are all there is, so that a connection     *)
(* which hit none of them leaves its tab in step.                          *)
(***************************************************************************)
EXTENDS NotebookStream, SequenceTheorems, TLAPS

\* The fold of 1..v is a document in order.
LEMMA UpToVType ==
  ASSUME NEW v \in 0..MaxEvents
  PROVE  /\ UpToV(v) \in Seq(Position)
         /\ Len(UpToV(v)) = v
         /\ \A i \in 1..v : UpToV(v)[i] = i
<1>1. v \in Nat /\ \A i \in 1..v : i \in Position
  BY StreamAssumption DEF Position
<1>2. UpToV(v) \in [1..v -> Position]
  BY <1>1 DEF UpToV
<1>3. QED
  BY <1>1, <1>2 DEF UpToV

\* wsSub.send keeps the queue a queue, of at most Depth messages.
LEMMA SendType ==
  ASSUME queue \in Seq(Message), Len(queue) <= Depth, NEW m \in Message, Send(m)
  PROVE  queue' \in Seq(Message) /\ Len(queue') <= Depth
<1>1. CASE queue' = queue
  BY <1>1
<1>2. CASE Len(queue) < Depth /\ queue' = Append(queue, m)
  BY <1>2, StreamAssumption
<1>3. QED
  BY <1>1, <1>2 DEF Send, Enqueued

\* A received message leaves a shorter queue.
LEMMA TailType ==
  ASSUME queue \in Seq(Message), Len(queue) <= Depth, queue # <<>>
  PROVE  /\ Tail(queue) \in Seq(Message) /\ Len(Tail(queue)) <= Depth
         /\ Head(queue) \in Message
  BY StreamAssumption, HeadTailProperties

\* The types at first.
LEMMA InitTypeOK == Init => TypeOK
  BY StreamAssumption, EmptySeq DEF Init, TypeOK

\* Every action keeps the types.
LEMMA TypeStep == TypeOK /\ [Next]_vars => TypeOK'
<1> SUFFICES ASSUME TypeOK, [Next]_vars PROVE TypeOK'
  OBVIOUS
<1> USE StreamAssumption DEF HitIf, Overflowing, GoesOn
<1>1. CASE AppendEvent
  BY <1>1 DEF AppendEvent, TypeOK, client
<1>2. ASSUME NEW s \in Position, Broadcast(s) PROVE TypeOK'
  <2>1. EventMsg(s) \in Message
    BY DEF EventMsg, Message, Position
  <2>2. queue' \in Seq(Message) /\ Len(queue') <= Depth
    BY <1>2, <2>1, SendType DEF Broadcast, TypeOK
  <2>3. QED
    BY <1>2, <2>2 DEF Broadcast, TypeOK, client
<1>3. CASE Subscribe
  BY <1>3, EmptySeq DEF Subscribe, TypeOK, client
<1>4. CASE TakeFold
  BY <1>4 DEF TakeFold, TypeOK, client
<1>5. CASE SendFold
  <2>1. FoldMsg(folded) \in Message
    BY DEF FoldMsg, Message, TypeOK
  <2>2. queue' \in Seq(Message) /\ Len(queue') <= Depth
    BY <1>5, <2>1, SendType DEF SendFold, TypeOK
  <2>3. QED
    BY <1>5, <2>2 DEF SendFold, TypeOK, client
<1>6. CASE Disconnect
  BY <1>6, EmptySeq DEF Disconnect, TypeOK, client
<1>7. CASE ReceiveFold
  <2>1. /\ Head(queue).at \in 0..MaxEvents
        /\ queue' \in Seq(Message) /\ Len(queue') <= Depth
    BY <1>7, TailType DEF ReceiveFold, TypeOK, Message
  <2>2. view' \in Seq(Position) /\ seen' \in 0..MaxEvents
    BY <1>7, <2>1, UpToVType DEF ReceiveFold, Replace
  <2>3. QED
    BY <1>7, <2>1, <2>2 DEF ReceiveFold, TypeOK, server
<1>8. CASE ReceiveEvent
  <2> DEFINE s == Head(queue).at
  <2>1. /\ s \in 0..MaxEvents
        /\ queue' \in Seq(Message) /\ Len(queue') <= Depth
    BY <1>8, TailType DEF ReceiveEvent, TypeOK, Message
  <2>2. ~AlreadyFolded(s) => s \in Position
    BY <2>1 DEF AlreadyFolded, TypeOK, Position
  <2> HIDE DEF s
  <2>3. view' \in Seq(Position) /\ seen' \in 0..MaxEvents /\ asked' \subseteq Position
    <3>1. CASE AlreadyFolded(s) /\ UNCHANGED <<view, seen, asked>>
      BY <3>1 DEF TypeOK
    <3>2. CASE ~AlreadyFolded(s) /\ asked' = asked \cup {s} /\ UNCHANGED <<view, seen>>
      BY <2>2, <3>2 DEF TypeOK
    <3>3. CASE ~AlreadyFolded(s) /\ view' = Append(view, s) /\ seen' = s /\ UNCHANGED asked
      BY <2>1, <2>2, <3>3 DEF TypeOK
    <3>4. QED
      BY <1>8, <3>1, <3>2, <3>3 DEF ReceiveEvent, s
  <2>4. QED
    BY <1>8, <2>1, <2>3 DEF ReceiveEvent, TypeOK, server
<1>9. ASSUME NEW s \in Position, ServeRefetch(s) PROVE TypeOK'
  BY <1>9 DEF ServeRefetch, TypeOK, server
<1>10. ASSUME NEW v \in 0..MaxEvents, ReceiveReply(v) PROVE TypeOK'
  BY <1>10, UpToVType DEF ReceiveReply, Replace, TypeOK, server
<1>11. ASSUME NEW s \in Position, AskFails(s) PROVE TypeOK'
  BY <1>11 DEF AskFails, TypeOK, server
<1>12. ASSUME NEW v \in 0..MaxEvents, ReplyFails(v) PROVE TypeOK'
  BY <1>12 DEF ReplyFails, TypeOK, server
<1>13. CASE UNCHANGED vars
  BY <1>13 DEF vars, server, client, TypeOK
<1>14. QED
  BY <1>1, <1>2, <1>3, <1>4, <1>5, <1>6, <1>7, <1>8, <1>9, <1>10, <1>11, <1>12, <1>13
  DEF Next

\* Every variable of the stream keeps its type.
THEOREM TypeCorrect == Spec => []TypeOK
<1>1. QED
  BY InitTypeOK, TypeStep, PTL DEF Spec

\* A document that is the fold of a prefix is in order.
LEMMA ReplacedInOrder ==
  ASSUME NEW v \in 0..MaxEvents, Replace(v)
  PROVE  AppliedInOrder'
<1>1. view' = UpToV(v) /\ seen' = v /\ DOMAIN view' = 1..v /\ v \in Nat
  BY DEF Replace, UpToV
<1>2. QED
  BY <1>1, UpToVType DEF AppliedInOrder

\* No step puts an event before one already applied.
LEMMA OrderStep == TypeOK /\ AppliedInOrder /\ [Next]_vars => AppliedInOrder'
<1> SUFFICES ASSUME TypeOK, AppliedInOrder, [Next]_vars PROVE AppliedInOrder'
  OBVIOUS
<1>1. CASE UNCHANGED <<view, seen>>
  BY <1>1 DEF AppliedInOrder
<1>2. CASE ReceiveFold
  <2>1. Head(queue).at \in 0..MaxEvents
    BY <1>2, TailType DEF ReceiveFold, TypeOK, Message
  <2>2. QED
    BY <1>2, <2>1, ReplacedInOrder DEF ReceiveFold
<1>3. ASSUME NEW v \in 0..MaxEvents, ReceiveReply(v) PROVE AppliedInOrder'
  BY <1>3, ReplacedInOrder DEF ReceiveReply
<1>4. ASSUME NEW s \in Position, ~AlreadyFolded(s), view' = Append(view, s), seen' = s
      PROVE  AppliedInOrder'
  <2>1. /\ view \in Seq(Position) /\ s \in Int /\ seen \in Int /\ seen < s
        /\ \A i \in 1..Len(view) : view[i] \in Int /\ view[i] <= seen
    BY <1>4, StreamAssumption DEF AlreadyFolded, TypeOK, Position, AppliedInOrder
  <2>2. /\ DOMAIN view' = 1..(Len(view) + 1)
        /\ view'[Len(view) + 1] = s
        /\ \A i \in 1..Len(view) : view'[i] = view[i]
    BY <1>4, <2>1
  <2>3. \A i \in DOMAIN view' : view'[i] <= s
    BY <2>1, <2>2
  <2>4. ASSUME NEW i \in DOMAIN view', NEW j \in DOMAIN view', i < j
        PROVE  view'[i] < view'[j]
    <3>1. CASE j = Len(view) + 1
      BY <2>1, <2>2, <2>4, <3>1
    <3>2. CASE j # Len(view) + 1
      BY <2>1, <2>2, <2>4, <3>2 DEF AppliedInOrder
    <3>3. QED
      BY <3>1, <3>2
  <2>5. QED
    BY <1>4, <2>3, <2>4 DEF AppliedInOrder
<1>5. CASE ReceiveEvent
  <2>1. Head(queue).at \in 0..MaxEvents
    BY <1>5, TailType DEF ReceiveEvent, TypeOK, Message
  <2>2. ~AlreadyFolded(Head(queue).at) => Head(queue).at \in Position
    BY <2>1, StreamAssumption DEF AlreadyFolded, TypeOK, Position
  <2>3. QED
    BY <1>1, <1>4, <1>5, <2>2 DEF ReceiveEvent
<1>6. QED
  BY <1>1, <1>2, <1>3, <1>5
  DEF Next, vars, client, AppendEvent, Broadcast, Subscribe, TakeFold, SendFold,
      Disconnect, ServeRefetch, AskFails, ReplyFails

\* Whatever is dropped, delayed or reordered, a client never applies an event
\* twice and never one behind another (nb.js's test of seq against its version).
THEOREM EventsApplyInOrder == Spec => []AppliedInOrder
<1>1. Init => AppliedInOrder
  BY DEF Init, AppliedInOrder
<1>2. QED
  BY <1>1, InitTypeOK, TypeStep, OrderStep, PTL DEF Spec

------------------------------------------------------------------------------

\* An event that no window took from its client is yet to be broadcast, or queued.
OnItsWay(s) == s \in pending \/ \E i \in DOMAIN queue : queue[i] = EventMsg(s)

NoFold == \A i \in DOMAIN queue : queue[i].type # "fold"

\* Events are queued in their order, before those that are still to be broadcast.
QueueInOrder ==
  \A i \in DOMAIN queue :
    queue[i].type = "event" =>
      /\ queue[i].at <= version
      /\ \A s \in pending : queue[i].at < s
      /\ \A j \in DOMAIN queue : i < j /\ queue[j].type = "event" => queue[i].at < queue[j].at

\* What the opening fold lacks comes behind it.
FoldIsComing ==
  /\ conn # "live" => NoFold
  /\ conn = "folded" =>
       /\ folded <= version
       /\ \A s \in (folded + 1)..version : s \in pending
       /\ \A i \in DOMAIN queue : queue[i].at <= folded
  /\ \A i \in DOMAIN queue :
       queue[i].type = "fold" =>
         /\ queue[i].at <= version
         /\ \A s \in (queue[i].at + 1)..version : OnItsWay(s)
         /\ \A j \in DOMAIN queue : j # i => queue[j].type # "fold"
         /\ \A j \in DOMAIN queue : j < i => queue[j].at <= queue[i].at

\* A client that has its fold shows a prefix of the log, and what it lacks is on its
\* way, as an event or in the document it asked for.
FollowsTheLog ==
  conn = "live" /\ NoFold =>
    /\ view = UpToV(seen) /\ seen <= version
    /\ \A s \in (seen + 1)..version :
         OnItsWay(s) \/ s \in asked \/ \E v \in replies : s <= v
    /\ \A s \in asked : s <= version /\ seen < s /\ replies = {}
    /\ \A s, t \in asked : s = t
    /\ \A v \in replies : seen <= v /\ v <= version /\ asked = {}
    /\ \A v, w \in replies : v = w

Unharmed == windows = {} => QueueInOrder /\ FoldIsComing /\ FollowsTheLog

\* A message put at the end.
LEMMA Appended ==
  ASSUME queue \in Seq(Message), NEW m \in Message, queue' = Append(queue, m)
  PROVE  /\ Len(queue) \in Nat /\ DOMAIN queue = 1..Len(queue)
         /\ DOMAIN queue' = 1..(Len(queue) + 1)
         /\ queue'[Len(queue) + 1] = m
         /\ \A i \in 1..Len(queue) : queue'[i] = queue[i]
  OBVIOUS

\* The first message taken.
LEMMA Taken ==
  ASSUME queue \in Seq(Message), queue # <<>>, queue' = Tail(queue)
  PROVE  /\ Len(queue) \in Nat /\ Len(queue) >= 1 /\ DOMAIN queue = 1..Len(queue)
         /\ DOMAIN queue' = 1..(Len(queue) - 1)
         /\ \A i \in 1..(Len(queue) - 1) : queue'[i] = queue[i + 1]
         /\ Head(queue) = queue[1]
<1>1. Len(queue) \in Nat /\ Len(queue) >= 1 BY EmptySeq
<1> QED BY <1>1

\* What is queued are messages.
LEMMA QueueType ==
  ASSUME TypeOK, NEW i \in DOMAIN queue
  PROVE  /\ queue[i].at \in 0..MaxEvents /\ queue[i].type \in {"fold", "event"}
         /\ queue[i].type = "event" <=> queue[i] = EventMsg(queue[i].at)
<1>1. queue[i] \in Message BY DEF TypeOK
<1> QED BY <1>1 DEF Message, EventMsg

\* Append, up to its unlock: the new event is behind everything.
LEMMA AppendUnharmed == ASSUME TypeOK, Unharmed, AppendEvent PROVE Unharmed'
<1> SUFFICES ASSUME windows' = {} PROVE (QueueInOrder /\ FoldIsComing /\ FollowsTheLog)'
  BY DEF Unharmed
<1>1. /\ windows = {} /\ version' = version + 1 /\ pending' = pending \cup {version + 1}
      /\ version \in Nat /\ pending \subseteq 1..version
      /\ UNCHANGED <<conn, folded, queue, view, seen, asked, replies>>
  BY StreamAssumption DEF AppendEvent, client, TypeOK
<1>2. QueueInOrder /\ FoldIsComing /\ FollowsTheLog BY <1>1 DEF Unharmed
<1>3. \A i \in DOMAIN queue : queue[i].at \in Int BY QueueType, StreamAssumption
<1>4. \A s : OnItsWay(s) => OnItsWay(s)' BY <1>1 DEF OnItsWay
<1>5. \A s : s = version + 1 => OnItsWay(s)' BY <1>1 DEF OnItsWay
<1>6. QueueInOrder'
  <2>1. ASSUME NEW i \in DOMAIN queue, queue[i].type = "event", NEW s \in pending'
        PROVE  queue[i].at <= version /\ queue[i].at < s
    <3>1. /\ queue[i].at <= version /\ queue[i].at \in Int
          /\ s \in pending \/ s = version + 1
          /\ \A t \in pending : queue[i].at < t
      BY <1>1, <1>2, <1>3, <2>1 DEF QueueInOrder
    <3>2. CASE s \in pending BY <3>1, <3>2
    <3>3. CASE s = version + 1
      <4> DEFINE at == queue[i].at
      <4>1. at \in Int /\ at <= version /\ version \in Int BY <1>1, <3>1
      <4> HIDE DEF at
      <4>2. at < version + 1 BY <4>1
      <4> QED BY <3>3, <4>1, <4>2 DEF at
    <3> QED BY <3>1, <3>2, <3>3
  <2>2. ASSUME NEW i \in DOMAIN queue, queue[i].type = "event" PROVE queue[i].at <= version + 1
    BY <1>1, <1>2, <1>3, <2>2 DEF QueueInOrder
  <2> QED BY <1>1, <1>2, <2>1, <2>2 DEF QueueInOrder
<1>7. FoldIsComing'
  <2>1. folded \in Int BY StreamAssumption DEF TypeOK
  <2>2. ASSUME NEW i \in DOMAIN queue, queue[i].type = "fold"
        PROVE  \A s \in (queue[i].at + 1)..(version + 1) : OnItsWay(s)'
    <3>1. \A s \in (queue[i].at + 1)..version : OnItsWay(s) BY <1>2, <2>2 DEF FoldIsComing
    <3>2. ASSUME NEW s \in (queue[i].at + 1)..(version + 1) PROVE OnItsWay(s)'
      <4>1. s = version + 1 \/ s \in (queue[i].at + 1)..version BY <1>1, <1>3, <2>2
      <4> QED BY <1>4, <1>5, <3>1, <4>1
    <3> QED BY <3>2
  <2>3. \A i \in DOMAIN queue : queue[i].type = "fold" => queue[i].at <= version + 1
    BY <1>1, <1>2, <1>3 DEF FoldIsComing
  <2>4. NoFold' <=> NoFold BY <1>1 DEF NoFold
  <2> QED BY <1>1, <1>2, <2>1, <2>2, <2>3, <2>4 DEF FoldIsComing
<1>8. FollowsTheLog'
  <2> SUFFICES ASSUME conn = "live", NoFold
               PROVE  /\ view = UpToV(seen) /\ seen <= version + 1
                      /\ \A s \in (seen + 1)..(version + 1) :
                           OnItsWay(s)' \/ s \in asked \/ \E v \in replies : s <= v
                      /\ \A s \in asked : s <= version + 1 /\ seen < s /\ replies = {}
                      /\ \A s, t \in asked : s = t
                      /\ \A v \in replies : seen <= v /\ v <= version + 1 /\ asked = {}
                      /\ \A v, w \in replies : v = w
    BY <1>1 DEF FollowsTheLog, NoFold
  <2>1. seen \in Int /\ asked \subseteq Int /\ replies \subseteq Int
    BY StreamAssumption DEF TypeOK, Position
  <2>2. /\ view = UpToV(seen) /\ seen <= version
        /\ \A s \in (seen + 1)..version :
             OnItsWay(s) \/ s \in asked \/ \E v \in replies : s <= v
        /\ \A s \in asked : s <= version /\ seen < s /\ replies = {}
        /\ \A s, t \in asked : s = t
        /\ \A v \in replies : seen <= v /\ v <= version /\ asked = {}
        /\ \A v, w \in replies : v = w
    BY <1>2 DEF FollowsTheLog
  <2>3. ASSUME NEW s \in (seen + 1)..(version + 1)
        PROVE  OnItsWay(s)' \/ s \in asked \/ \E v \in replies : s <= v
    <3>1. s = version + 1 \/ s \in (seen + 1)..version BY <1>1, <2>1
    <3> QED BY <1>4, <1>5, <2>2, <3>1
  <2> QED BY <1>1, <2>1, <2>2, <2>3
<1> QED BY <1>6, <1>7, <1>8

\* broadcastEvent of the first pending event, into a queue with room, is what opens no
\* window.
LEMMA BroadcastUnharmed ==
  ASSUME TypeOK, Unharmed, NEW s \in Position, Broadcast(s) PROVE Unharmed'
<1> SUFFICES ASSUME windows' = {} PROVE (QueueInOrder /\ FoldIsComing /\ FollowsTheLog)'
  BY DEF Unharmed
<1>1. /\ windows = {} /\ s \in pending /\ pending' = pending \ {s}
      /\ s \in Int /\ version \in Int /\ s <= version /\ pending \subseteq Int
      /\ UNCHANGED <<version, conn, folded, view, seen, asked, replies>>
  <2>1. windows = {}
    <3>1. windows \subseteq windows' BY DEF Broadcast
    <3> QED BY <3>1
  <2>2. version \in Int /\ pending \subseteq 1..version BY StreamAssumption DEF TypeOK
  <2>3. /\ s \in pending /\ pending' = pending \ {s}
        /\ UNCHANGED <<version, conn, folded, view, seen, asked, replies>>
    BY DEF Broadcast, client
  <2> QED BY <2>1, <2>2, <2>3
<1>2. QueueInOrder /\ FoldIsComing /\ FollowsTheLog BY <1>1 DEF Unharmed
<1>3. \A i \in DOMAIN queue : queue[i].at \in Int BY QueueType, StreamAssumption
<1>4. CASE conn = "closed"
  <2>1. UNCHANGED queue BY <1>4 DEF Broadcast
  <2>2. QueueInOrder' BY <1>1, <1>2, <2>1 DEF QueueInOrder
  <2>3. NoFold' BY <1>2, <1>4, <2>1 DEF FoldIsComing, NoFold
  <2> QED BY <1>1, <1>4, <2>2, <2>3 DEF FoldIsComing, FollowsTheLog, NoFold
<1>5. CASE conn # "closed"
  <2> DEFINE m == EventMsg(s)
  <2>1. /\ queue' = Append(queue, m)
        /\ conn = "folded" => s <= folded
        /\ \A t \in pending : s <= t
    <3>1. Len(queue) < Depth
      BY <1>5, StreamAssumption DEF Broadcast, Overflowing, HitIf, TypeOK
    <3>2. ~(conn = "folded" /\ s > folded) /\ ~(\E t \in pending : t < s)
      BY <1>5 DEF Broadcast, HitIf
    <3>3. folded \in Int BY StreamAssumption DEF TypeOK
    <3> QED BY <1>1, <1>5, <3>1, <3>2, <3>3 DEF Broadcast, Send, Enqueued
  <2>2. m \in Message /\ m.type = "event" /\ m.at = s
    BY DEF EventMsg, Message, Position
  <2>3. /\ Len(queue) \in Nat /\ DOMAIN queue = 1..Len(queue)
        /\ DOMAIN queue' = 1..(Len(queue) + 1)
        /\ queue'[Len(queue) + 1] = m
        /\ \A i \in 1..Len(queue) : queue'[i] = queue[i]
    BY <2>1, <2>2, Appended DEF TypeOK
  <2>4. \A t : OnItsWay(t) => OnItsWay(t)'
    <3>1. ASSUME NEW t, OnItsWay(t) PROVE OnItsWay(t)'
      <4>1. CASE t = s BY <2>3, <4>1 DEF OnItsWay
      <4>2. CASE t # s BY <1>1, <2>3, <3>1, <4>2 DEF OnItsWay
      <4> QED BY <4>1, <4>2
    <3> QED BY <3>1
  <2> HIDE DEF m
  <2>5. QueueInOrder'
    <3>1. ASSUME NEW i \in 1..(Len(queue) + 1), queue'[i].type = "event"
          PROVE  /\ queue'[i].at <= version
                 /\ \A t \in pending' : queue'[i].at < t
                 /\ \A j \in 1..(Len(queue) + 1) :
                      i < j /\ queue'[j].type = "event" => queue'[i].at < queue'[j].at
      <4>1. CASE i = Len(queue) + 1 BY <1>1, <2>1, <2>2, <2>3, <4>1
      <4>2. CASE i # Len(queue) + 1
        <5>1. i \in 1..Len(queue) /\ queue'[i] = queue[i] BY <2>3, <4>2
        <5>2. queue[i].at < s BY <1>1, <1>2, <2>3, <3>1, <5>1 DEF QueueInOrder
        <5>3. /\ queue[i].at <= version
              /\ \A t \in pending : queue[i].at < t
              /\ \A j \in 1..Len(queue) :
                   i < j /\ queue[j].type = "event" => queue[i].at < queue[j].at
          BY <1>2, <2>3, <3>1, <5>1 DEF QueueInOrder
        <5> QED BY <1>1, <2>2, <2>3, <5>1, <5>2, <5>3
      <4> QED BY <4>1, <4>2
    <3> QED BY <1>1, <2>3, <3>1 DEF QueueInOrder
  <2>6. NoFold' <=> NoFold
    <3>1. NoFold <=> \A i \in 1..Len(queue) : queue[i].type # "fold" BY <2>3 DEF NoFold
    <3>2. NoFold' <=> \A i \in 1..(Len(queue) + 1) : queue'[i].type # "fold" BY <2>3 DEF NoFold
    <3> QED BY <2>2, <2>3, <3>1, <3>2
  <2>7. FoldIsComing'
    <3>1. conn' = "folded" =>
            /\ folded' <= version'
            /\ \A t \in (folded' + 1)..version' : t \in pending'
            /\ \A i \in DOMAIN queue' : queue'[i].at <= folded'
      <4> SUFFICES ASSUME conn = "folded"
                   PROVE  /\ folded <= version
                          /\ \A t \in (folded + 1)..version : t \in pending'
                          /\ \A i \in DOMAIN queue' : queue'[i].at <= folded
        BY <1>1
      <4>1. folded \in Int BY StreamAssumption DEF TypeOK
      <4>2. /\ folded <= version
            /\ \A t \in (folded + 1)..version : t \in pending
            /\ \A i \in DOMAIN queue : queue[i].at <= folded
        BY <1>2 DEF FoldIsComing
      <4> QED BY <1>1, <2>1, <2>2, <2>3, <4>1, <4>2
    <3>2. ASSUME NEW i \in DOMAIN queue', queue'[i].type = "fold"
          PROVE  /\ queue'[i].at <= version'
                 /\ \A t \in (queue'[i].at + 1)..version' : OnItsWay(t)'
                 /\ \A j \in DOMAIN queue' : j # i => queue'[j].type # "fold"
                 /\ \A j \in DOMAIN queue' : j < i => queue'[j].at <= queue'[i].at
      <4>1. i \in 1..Len(queue) /\ queue'[i] = queue[i] BY <2>2, <2>3, <3>2
      <4>2. /\ queue[i].at <= version
            /\ \A t \in (queue[i].at + 1)..version : OnItsWay(t)
            /\ \A j \in 1..Len(queue) : j # i => queue[j].type # "fold"
            /\ \A j \in 1..Len(queue) : j < i => queue[j].at <= queue[i].at
        BY <1>2, <2>3, <3>2, <4>1 DEF FoldIsComing
      <4> QED BY <1>1, <2>2, <2>3, <2>4, <4>1, <4>2
    <3>3. conn' # "live" => NoFold' BY <1>1, <1>2, <2>6 DEF FoldIsComing
    <3> QED BY <3>1, <3>2, <3>3 DEF FoldIsComing
  <2>8. FollowsTheLog' BY <1>1, <1>2, <2>4, <2>6 DEF FollowsTheLog
  <2> QED BY <2>5, <2>7, <2>8
<1> QED BY <1>4, <1>5

\* A connection that is gone or only just there carries nothing.
LEMMA EmptyUnharmed ==
  ASSUME queue' = <<>>, conn' \in {"closed", "subscribed"} PROVE Unharmed'
<1>1. DOMAIN queue' = {} OBVIOUS
<1> QED BY <1>1 DEF Unharmed, QueueInOrder, FoldIsComing, FollowsTheLog, NoFold

\* The handshake folds the document: what is queued by then is folded in.
LEMMA TakeFoldUnharmed == ASSUME TypeOK, Unharmed, TakeFold PROVE Unharmed'
<1> SUFFICES ASSUME windows' = {} PROVE (QueueInOrder /\ FoldIsComing /\ FollowsTheLog)'
  BY DEF Unharmed
<1>1. /\ windows = {} /\ conn = "subscribed" /\ conn' = "folded" /\ folded' = version
      /\ version \in Int /\ UNCHANGED <<version, pending, queue>>
  BY StreamAssumption DEF TakeFold, TypeOK
<1>2. QueueInOrder /\ FoldIsComing BY <1>1 DEF Unharmed
<1>3. NoFold BY <1>1, <1>2 DEF FoldIsComing
<1>4. \A i \in DOMAIN queue : queue[i].type = "event"
  BY <1>3, QueueType DEF NoFold
<1>5. \A i \in DOMAIN queue : queue[i].at <= version
  BY <1>2, <1>4 DEF QueueInOrder
<1>6. QueueInOrder' BY <1>1, <1>2 DEF QueueInOrder
<1>7. FoldIsComing' BY <1>1, <1>3, <1>5 DEF FoldIsComing, NoFold
<1> QED BY <1>1, <1>6, <1>7 DEF FollowsTheLog

\* ... and sends it, behind those.
LEMMA SendFoldUnharmed == ASSUME TypeOK, Unharmed, SendFold PROVE Unharmed'
<1> SUFFICES ASSUME windows' = {} PROVE (QueueInOrder /\ FoldIsComing /\ FollowsTheLog)'
  BY DEF Unharmed
<1> DEFINE m == FoldMsg(folded)
<1>1. /\ windows = {} /\ conn = "folded" /\ conn' = "live"
      /\ folded \in Int /\ version \in Int /\ UNCHANGED <<version, pending>>
  BY StreamAssumption DEF SendFold, TypeOK
<1>2. QueueInOrder /\ FoldIsComing BY <1>1 DEF Unharmed
<1>3. queue' = Append(queue, m)
  <2>1. Len(queue) < Depth BY StreamAssumption DEF SendFold, Overflowing, HitIf, TypeOK
  <2> QED BY <2>1 DEF SendFold, Send, Enqueued
<1>4. m \in Message /\ m.type = "fold" /\ m.at = folded
  BY DEF FoldMsg, Message, TypeOK
<1> HIDE DEF m
<1>5. /\ Len(queue) \in Nat /\ DOMAIN queue = 1..Len(queue)
      /\ DOMAIN queue' = 1..(Len(queue) + 1)
      /\ queue'[Len(queue) + 1] = m
      /\ \A i \in 1..Len(queue) : queue'[i] = queue[i]
  BY <1>3, <1>4, Appended DEF TypeOK
<1>6. \A i \in 1..Len(queue) : queue[i].type # "fold"
  BY <1>1, <1>2, <1>5 DEF FoldIsComing, NoFold
<1>7. QueueInOrder'
  <2>1. ASSUME NEW i \in 1..(Len(queue) + 1), queue'[i].type = "event"
        PROVE  /\ queue'[i].at <= version
               /\ \A t \in pending : queue'[i].at < t
               /\ \A j \in 1..(Len(queue) + 1) :
                    i < j /\ queue'[j].type = "event" => queue'[i].at < queue'[j].at
    <3>1. i \in 1..Len(queue) /\ queue'[i] = queue[i] BY <1>4, <1>5, <2>1
    <3>2. /\ queue[i].at <= version
          /\ \A t \in pending : queue[i].at < t
          /\ \A j \in 1..Len(queue) :
               i < j /\ queue[j].type = "event" => queue[i].at < queue[j].at
      BY <1>2, <1>5, <2>1, <3>1 DEF QueueInOrder
    <3> QED BY <1>4, <1>5, <3>1, <3>2
  <2> QED BY <1>1, <1>5, <2>1 DEF QueueInOrder
<1>8. FoldIsComing'
  <2>1. /\ folded <= version
        /\ \A s \in (folded + 1)..version : s \in pending
        /\ \A i \in 1..Len(queue) : queue[i].at <= folded
    BY <1>1, <1>2, <1>5 DEF FoldIsComing
  <2>2. \A s \in (folded + 1)..version : OnItsWay(s)' BY <1>1, <2>1 DEF OnItsWay
  <2>3. ASSUME NEW i \in DOMAIN queue', queue'[i].type = "fold"
        PROVE  /\ queue'[i].at <= version'
               /\ \A s \in (queue'[i].at + 1)..version' : OnItsWay(s)'
               /\ \A j \in DOMAIN queue' : j # i => queue'[j].type # "fold"
               /\ \A j \in DOMAIN queue' : j < i => queue'[j].at <= queue'[i].at
    <3>1. i = Len(queue) + 1 /\ queue'[i] = m BY <1>5, <1>6, <2>3
    <3>2. /\ queue'[i].at <= version'
          /\ \A s \in (queue'[i].at + 1)..version' : OnItsWay(s)'
      BY <1>1, <1>4, <2>1, <2>2, <3>1
    <3>3. \A j \in DOMAIN queue' : j # i => j \in 1..Len(queue) /\ queue'[j] = queue[j]
      BY <1>5, <3>1
    <3> QED BY <1>4, <1>5, <1>6, <2>1, <3>1, <3>2, <3>3
  <2> QED BY <1>1, <2>3 DEF FoldIsComing
<1>9. ~NoFold' BY <1>4, <1>5 DEF NoFold
<1> QED BY <1>7, <1>8, <1>9 DEF FollowsTheLog

\* A message taken from the queue leaves the rest of it in order.
LEMMA TakenInOrder ==
  ASSUME TypeOK, QueueInOrder, queue # <<>>, queue' = Tail(queue),
         UNCHANGED <<version, pending>>
  PROVE  QueueInOrder'
<1>1. /\ Len(queue) \in Nat /\ Len(queue) >= 1 /\ DOMAIN queue = 1..Len(queue)
      /\ DOMAIN queue' = 1..(Len(queue) - 1)
      /\ \A i \in 1..(Len(queue) - 1) : queue'[i] = queue[i + 1]
  BY Taken DEF TypeOK
<1>2. ASSUME NEW i \in 1..(Len(queue) - 1), queue'[i].type = "event"
      PROVE  /\ queue'[i].at <= version
             /\ \A t \in pending : queue'[i].at < t
             /\ \A j \in 1..(Len(queue) - 1) :
                  i < j /\ queue'[j].type = "event" => queue'[i].at < queue'[j].at
  <2>1. i + 1 \in DOMAIN queue /\ queue'[i] = queue[i + 1] BY <1>1
  <2>2. \A j \in 1..(Len(queue) - 1) :
          i < j => j + 1 \in DOMAIN queue /\ queue'[j] = queue[j + 1] /\ i + 1 < j + 1
    BY <1>1
  <2> QED BY <1>2, <2>1, <2>2 DEF QueueInOrder
<1> QED BY <1>1, <1>2 DEF QueueInOrder

\* The opening fold arrives: it is the only one, and what it lacks is behind it.
LEMMA ReceiveFoldUnharmed == ASSUME TypeOK, Unharmed, ReceiveFold PROVE Unharmed'
<1> SUFFICES ASSUME windows' = {} PROVE (QueueInOrder /\ FoldIsComing /\ FollowsTheLog)'
  BY DEF Unharmed
<1>1. /\ windows = {} /\ asked = {} /\ replies = {}
      /\ queue # <<>> /\ Head(queue).type = "fold" /\ queue' = Tail(queue)
      /\ view' = UpToV(Head(queue).at) /\ seen' = Head(queue).at
      /\ UNCHANGED <<version, pending, conn, folded, asked, replies>>
  BY DEF ReceiveFold, Replace, GoesOn, HitIf, Refetching, server
<1>2. QueueInOrder /\ FoldIsComing BY <1>1 DEF Unharmed
<1>3. /\ Len(queue) \in Nat /\ Len(queue) >= 1 /\ DOMAIN queue = 1..Len(queue)
      /\ DOMAIN queue' = 1..(Len(queue) - 1)
      /\ \A i \in 1..(Len(queue) - 1) : queue'[i] = queue[i + 1]
      /\ Head(queue) = queue[1] /\ 1 \in DOMAIN queue
  BY <1>1, Taken DEF TypeOK
<1>4. /\ queue[1].at <= version
      /\ \A s \in (queue[1].at + 1)..version : OnItsWay(s)
      /\ \A j \in DOMAIN queue : j # 1 => queue[j].type # "fold"
  BY <1>1, <1>2, <1>3 DEF FoldIsComing
<1>5. conn = "live" BY <1>1, <1>2, <1>3 DEF FoldIsComing, NoFold
<1>6. \A i \in 1..(Len(queue) - 1) : i + 1 \in DOMAIN queue /\ i + 1 # 1 BY <1>3
<1>7. NoFold' BY <1>3, <1>4, <1>6 DEF NoFold
<1>8. FoldIsComing' BY <1>1, <1>5, <1>7 DEF FoldIsComing, NoFold
<1>9. ASSUME NEW s, OnItsWay(s) PROVE OnItsWay(s)'
  <2>1. CASE s \in pending BY <1>1, <2>1 DEF OnItsWay
  <2>2. CASE \E i \in DOMAIN queue : queue[i] = EventMsg(s)
    <3>1. PICK i \in DOMAIN queue : queue[i] = EventMsg(s) BY <2>2
    <3>2. i # 1 BY <1>1, <1>3, <3>1 DEF EventMsg
    <3>3. i - 1 \in 1..(Len(queue) - 1) /\ (i - 1) + 1 = i BY <1>3, <3>2
    <3>4. queue'[i - 1] = EventMsg(s) BY <1>3, <3>1, <3>3
    <3> QED BY <1>3, <3>3, <3>4 DEF OnItsWay
  <2> QED BY <1>9, <2>1, <2>2 DEF OnItsWay
<1>10. FollowsTheLog' BY <1>1, <1>3, <1>4, <1>9 DEF FollowsTheLog
<1> QED BY <1>1, <1>2, <1>8, <1>10, TakenInOrder

\* An event taken from the queue: every other one is still on its way.
LEMMA TakenEvent ==
  ASSUME TypeOK, queue # <<>>, Head(queue).type = "event", queue' = Tail(queue),
         UNCHANGED <<version, pending, conn, folded>>
  PROVE  /\ \A s : OnItsWay(s) /\ s # Head(queue).at => OnItsWay(s)'
         /\ NoFold' <=> NoFold
         /\ QueueInOrder /\ FoldIsComing => FoldIsComing'
<1>1. /\ Len(queue) \in Nat /\ Len(queue) >= 1 /\ DOMAIN queue = 1..Len(queue)
      /\ DOMAIN queue' = 1..(Len(queue) - 1)
      /\ \A i \in 1..(Len(queue) - 1) : queue'[i] = queue[i + 1]
      /\ Head(queue) = queue[1] /\ 1 \in DOMAIN queue
  BY Taken DEF TypeOK
<1>2. \A i \in 1..(Len(queue) - 1) : i + 1 \in DOMAIN queue /\ i + 1 # 1 BY <1>1
<1>3. \A i \in DOMAIN queue : i # 1 => i - 1 \in 1..(Len(queue) - 1) /\ (i - 1) + 1 = i
  BY <1>1
<1>4. ASSUME NEW s, OnItsWay(s), s # Head(queue).at PROVE OnItsWay(s)'
  <2>1. CASE s \in pending BY <2>1 DEF OnItsWay
  <2>2. CASE \E i \in DOMAIN queue : queue[i] = EventMsg(s)
    <3>1. PICK i \in DOMAIN queue : queue[i] = EventMsg(s) BY <2>2
    <3>2. i # 1 BY <1>1, <1>4, <3>1 DEF EventMsg
    <3>3. queue'[i - 1] = EventMsg(s) BY <1>1, <1>3, <3>1, <3>2
    <3> QED BY <1>1, <1>3, <3>2, <3>3 DEF OnItsWay
  <2> QED BY <1>4, <2>1, <2>2 DEF OnItsWay
<1>5. NoFold' <=> NoFold
  <2>1. ASSUME NoFold PROVE NoFold' BY <1>1, <1>2, <2>1 DEF NoFold
  <2>2. ASSUME NoFold', NEW i \in DOMAIN queue PROVE queue[i].type # "fold"
    <3>1. CASE i = 1 BY <1>1, <3>1
    <3>2. CASE i # 1
      <4>1. queue'[i - 1].type # "fold" BY <1>1, <1>3, <2>2, <3>2 DEF NoFold
      <4> QED BY <1>1, <1>3, <3>2, <4>1
    <3> QED BY <3>1, <3>2
  <2> QED BY <2>1, <2>2 DEF NoFold
<1>6. ASSUME QueueInOrder, FoldIsComing PROVE FoldIsComing'
  <2>1. ASSUME NEW i \in DOMAIN queue', queue'[i].type = "fold"
        PROVE  /\ queue'[i].at <= version
               /\ \A s \in (queue'[i].at + 1)..version : OnItsWay(s)'
               /\ \A j \in DOMAIN queue' : j # i => queue'[j].type # "fold"
               /\ \A j \in DOMAIN queue' : j < i => queue'[j].at <= queue'[i].at
    <3>1. i \in 1..(Len(queue) - 1) /\ i + 1 \in DOMAIN queue /\ queue'[i] = queue[i + 1]
      BY <1>1, <1>2
    <3>2. /\ queue[i + 1].at <= version
          /\ \A s \in (queue[i + 1].at + 1)..version : OnItsWay(s)
          /\ \A j \in DOMAIN queue : j # i + 1 => queue[j].type # "fold"
          /\ \A j \in DOMAIN queue : j < i + 1 => queue[j].at <= queue[i + 1].at
      BY <1>6, <2>1, <3>1 DEF FoldIsComing
    <3>3. /\ Head(queue).at <= queue[i + 1].at
          /\ Head(queue).at \in Int /\ queue[i + 1].at \in Int /\ version \in Int
      BY <1>1, <3>1, <3>2, QueueType, StreamAssumption DEF TypeOK
    <3>4. \A s \in (queue[i + 1].at + 1)..version : s # Head(queue).at BY <3>3
    <3>5. \A j \in DOMAIN queue' : /\ j + 1 \in DOMAIN queue /\ queue'[j] = queue[j + 1]
                                   /\ j # i => j + 1 # i + 1
                                   /\ j < i => j + 1 < i + 1
      BY <1>1, <1>2, <3>1
    <3> QED BY <1>4, <3>1, <3>2, <3>4, <3>5
  <2>2. conn' = "folded" =>
          /\ folded' <= version'
          /\ \A s \in (folded' + 1)..version' : s \in pending'
          /\ \A i \in DOMAIN queue' : queue'[i].at <= folded'
    BY <1>1, <1>2, <1>6 DEF FoldIsComing
  <2>3. conn' # "live" => NoFold' BY <1>5, <1>6 DEF FoldIsComing
  <2> QED BY <2>1, <2>2, <2>3 DEF FoldIsComing
<1> QED BY <1>4, <1>5, <1>6

\* An event arrives: it is the next one of the log, or the client asks again.
LEMMA ReceiveEventUnharmed == ASSUME TypeOK, Unharmed, ReceiveEvent PROVE Unharmed'
<1> SUFFICES ASSUME windows' = {} PROVE (QueueInOrder /\ FoldIsComing /\ FollowsTheLog)'
  BY DEF Unharmed
<1> DEFINE h == Head(queue).at
<1>1. /\ windows = {} /\ asked = {} /\ replies = {}
      /\ queue # <<>> /\ Head(queue).type = "event" /\ queue' = Tail(queue)
      /\ UNCHANGED <<version, pending, conn, folded, replies>>
  BY DEF ReceiveEvent, GoesOn, HitIf, Refetching, server
<1>2. QueueInOrder /\ FoldIsComing /\ FollowsTheLog BY <1>1 DEF Unharmed
<1>3. /\ \A s : OnItsWay(s) /\ s # h => OnItsWay(s)'
      /\ NoFold' <=> NoFold
      /\ FoldIsComing'
  BY <1>1, <1>2, TakenEvent
<1>4. 1 \in DOMAIN queue /\ Head(queue) = queue[1] /\ DOMAIN queue = 1..Len(queue)
      /\ Len(queue) \in Nat
  BY <1>1, Taken DEF TypeOK
<1>5. /\ h \in Int /\ seen \in 0..MaxEvents /\ version \in Int /\ MaxEvents \in Int
      /\ h <= version
      /\ \A t \in pending : h < t
      /\ \A j \in DOMAIN queue : 1 < j /\ queue[j].type = "event" => h < queue[j].at
  BY <1>1, <1>2, <1>4, QueueType, StreamAssumption DEF QueueInOrder, TypeOK
<1>6. ASSUME conn = "live", NoFold PROVE FollowsTheLog'
  <2>1. /\ view = UpToV(seen) /\ seen <= version
        /\ \A s \in (seen + 1)..version : OnItsWay(s)
    BY <1>1, <1>2, <1>6 DEF FollowsTheLog
  <2>2. CASE h <= seen /\ UNCHANGED <<view, seen, asked>>
    <3>1. \A s \in (seen + 1)..version : OnItsWay(s)' BY <1>3, <1>5, <2>1, <2>2
    <3> QED BY <1>1, <2>1, <2>2, <3>1 DEF FollowsTheLog
  <2>3. CASE ~(h <= seen) /\ asked' = asked \cup {h} /\ UNCHANGED <<view, seen>>
    <3>1. asked' = {h} BY <1>1, <2>3
    <3>2. \A s \in (seen + 1)..version : OnItsWay(s)' \/ s \in asked' BY <1>3, <2>1, <3>1
    <3>3. seen < h BY <1>5, <2>3
    <3> QED BY <1>1, <1>5, <2>1, <2>3, <3>1, <3>2, <3>3 DEF FollowsTheLog
  <2>4. CASE ~(h <= seen) /\ view' = Append(view, h) /\ seen' = h /\ UNCHANGED asked
    <3>1. seen < h /\ seen + 1 \in (seen + 1)..version BY <1>5, <2>4
    <3>2. h = seen + 1
      <4>1. OnItsWay(seen + 1) BY <2>1, <3>1
      <4>2. CASE seen + 1 \in pending BY <1>5, <3>1, <4>2
      <4>3. CASE \E i \in DOMAIN queue : queue[i] = EventMsg(seen + 1)
        <5>1. PICK i \in DOMAIN queue : queue[i] = EventMsg(seen + 1) BY <4>3
        <5>2. queue[i].at = seen + 1 /\ queue[i].type = "event" BY <5>1 DEF EventMsg
        <5>3. CASE i = 1 BY <1>4, <5>2, <5>3
        <5>4. CASE i # 1
          <6>1. 1 < i BY <1>4, <5>4
          <6> QED BY <1>5, <3>1, <5>2, <6>1
        <5> QED BY <5>3, <5>4
      <4> QED BY <4>1, <4>2, <4>3 DEF OnItsWay
    <3>3. view' = UpToV(h)
      <4>1. UpToV(seen) \in Seq(Position) /\ Len(UpToV(seen)) = seen
        BY <1>5, UpToVType
      <4>2. \A i \in 1..seen : UpToV(seen)[i] = i BY DEF UpToV
      <4>3. view' = [i \in 1..(seen + 1) |-> IF i = seen + 1 THEN h ELSE UpToV(seen)[i]]
        BY <1>5, <2>1, <2>4, <4>1
      <4>4. \A i \in 1..(seen + 1) : i = seen + 1 \/ i \in 1..seen BY <1>5
      <4> QED BY <3>2, <4>2, <4>3, <4>4 DEF UpToV
    <3>4. \A s \in (h + 1)..version : s \in (seen + 1)..version /\ s # h BY <1>5, <3>1
    <3>5. \A s \in (h + 1)..version : OnItsWay(s)' BY <1>3, <2>1, <3>4
    <3> QED BY <1>1, <1>5, <2>4, <3>3, <3>5 DEF FollowsTheLog
  <2> QED BY <2>2, <2>3, <2>4 DEF ReceiveEvent, AlreadyFolded
<1>7. FollowsTheLog' BY <1>1, <1>3, <1>6 DEF FollowsTheLog
<1> QED BY <1>1, <1>2, <1>3, <1>7, TakenInOrder

\* The server answers with all it has.
LEMMA ServeUnharmed ==
  ASSUME TypeOK, Unharmed, NEW s \in Position, ServeRefetch(s) PROVE Unharmed'
<1> SUFFICES ASSUME windows = {} PROVE (QueueInOrder /\ FoldIsComing /\ FollowsTheLog)'
  BY DEF Unharmed, ServeRefetch
<1>1. /\ s \in asked /\ asked' = asked \ {s} /\ replies' = replies \cup {version}
      /\ UNCHANGED <<version, pending, conn, folded, queue, view, seen>>
  BY DEF ServeRefetch, server
<1>2. QueueInOrder /\ FoldIsComing /\ FollowsTheLog BY DEF Unharmed
<1>3. QueueInOrder' /\ (FoldIsComing' <=> FoldIsComing) /\ (NoFold' <=> NoFold)
      /\ \A t : OnItsWay(t)' <=> OnItsWay(t)
  BY <1>1, <1>2 DEF QueueInOrder, FoldIsComing, NoFold, OnItsWay
<1>4. ASSUME conn = "live", NoFold PROVE FollowsTheLog'
  <2>1. /\ view = UpToV(seen) /\ seen <= version /\ replies = {} /\ version \in Int
        /\ \A t, u \in asked : t = u
    BY <1>1, <1>2, <1>4, StreamAssumption DEF FollowsTheLog, TypeOK
  <2>2. asked' = {} /\ replies' = {version} BY <1>1, <2>1
  <2>3. \A t \in (seen + 1)..version : \E v \in replies' : t <= v BY <2>2
  <2> QED BY <1>1, <2>1, <2>2, <2>3 DEF FollowsTheLog
<1> QED BY <1>1, <1>2, <1>3, <1>4 DEF FollowsTheLog

\* The answer arrives at a client that awaits no fold.
LEMMA ReplyUnharmed ==
  ASSUME TypeOK, Unharmed, NEW v \in 0..MaxEvents, ReceiveReply(v) PROVE Unharmed'
<1> SUFFICES ASSUME windows' = {} PROVE (QueueInOrder /\ FoldIsComing /\ FollowsTheLog)'
  BY DEF Unharmed
<1>1. /\ windows = {} /\ v \in replies /\ replies' = replies \ {v}
      /\ view' = UpToV(v) /\ seen' = v
      /\ UNCHANGED <<version, pending, conn, folded, queue, asked>>
  BY DEF ReceiveReply, Replace, HitIf, server
<1>2. QueueInOrder /\ FoldIsComing /\ FollowsTheLog BY <1>1 DEF Unharmed
<1>3. QueueInOrder' /\ (FoldIsComing' <=> FoldIsComing) /\ (NoFold' <=> NoFold)
      /\ \A t : OnItsWay(t)' <=> OnItsWay(t)
  BY <1>1, <1>2 DEF QueueInOrder, FoldIsComing, NoFold, OnItsWay
<1>4. ASSUME conn = "live", NoFold PROVE FollowsTheLog'
  <2>1. /\ seen <= v /\ v <= version /\ asked = {} /\ \A w \in replies : w = v
        /\ \A t \in (seen + 1)..version : OnItsWay(t) \/ \E w \in replies : t <= w
        /\ seen \in Int /\ v \in Int /\ version \in Int
    BY <1>1, <1>2, <1>4, StreamAssumption DEF FollowsTheLog, TypeOK
  <2>2. replies' = {} BY <1>1, <2>1
  <2>3. ASSUME NEW t \in (v + 1)..version PROVE OnItsWay(t)'
    <3>1. t \in (seen + 1)..version /\ ~(t <= v) BY <2>1
    <3> QED BY <1>3, <2>1, <3>1
  <2> QED BY <1>1, <2>1, <2>2, <2>3 DEF FollowsTheLog
<1> QED BY <1>1, <1>2, <1>3, <1>4 DEF FollowsTheLog

\* No step harms a client whose connection has hit no window.
LEMMA StepUnharmed == TypeOK /\ Unharmed /\ [Next]_vars => Unharmed'
<1> SUFFICES ASSUME TypeOK, Unharmed, [Next]_vars PROVE Unharmed'
  OBVIOUS
<1>1. CASE AppendEvent BY <1>1, AppendUnharmed
<1>2. CASE \E s \in Position : Broadcast(s) BY <1>2, BroadcastUnharmed
<1>3. CASE Subscribe BY <1>3, EmptyUnharmed DEF Subscribe
<1>4. CASE TakeFold BY <1>4, TakeFoldUnharmed
<1>5. CASE SendFold BY <1>5, SendFoldUnharmed
<1>6. CASE Disconnect BY <1>6, EmptyUnharmed DEF Disconnect
<1>7. CASE ReceiveFold BY <1>7, ReceiveFoldUnharmed
<1>8. CASE ReceiveEvent BY <1>8, ReceiveEventUnharmed
<1>9. CASE \E s \in Position : ServeRefetch(s) BY <1>9, ServeUnharmed
<1>10. CASE \E v \in 0..MaxEvents : ReceiveReply(v) BY <1>10, ReplyUnharmed
<1>11. CASE \/ \E s \in Position : AskFails(s)
           \/ \E v \in 0..MaxEvents : ReplyFails(v)
  BY <1>11 DEF AskFails, ReplyFails, Unharmed
<1>12. CASE UNCHANGED vars
  BY <1>12 DEF vars, server, client, Unharmed, QueueInOrder, FoldIsComing, FollowsTheLog,
               NoFold, OnItsWay
<1> QED
  BY <1>1, <1>2, <1>3, <1>4, <1>5, <1>6, <1>7, <1>8, <1>9, <1>10, <1>11, <1>12 DEF Next

\* The five windows are all there is: a settled client whose connection has hit none
\* of them shows the fold of the log with nothing missing (handleNotebookWS, Append's
\* broadcast, wsSub.send, resync), for every queue depth and set of unknown events.
THEOREM WindowsAreAll == Spec => []InStep
<1>1. Init => Unharmed
  BY DEF Init, Unharmed, QueueInOrder, FoldIsComing, FollowsTheLog, NoFold
<1>2. Unharmed => InStep
  BY DEF Unharmed, FollowsTheLog, InStep, Settled, NoFold
<1> QED
  BY <1>1, <1>2, InitTypeOK, TypeStep, StepUnharmed, PTL DEF Spec

==============================================================================
