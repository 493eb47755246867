---------------------------- MODULE TerminalStream ----------------------------
(***************************************************************************)
(* A session's terminal (pty.go, session.go, ws.go, menu.go): one goroutine *)
(* reads the terminal, keeps the last of it in a ring and broadcasts it; a *)
(* tab that connects is sent the ring, then follows; the menu detector     *)
(* looks at the ring whenever it has changed.                              *)
(*                                                                         *)
(* A byte is its position in all the output there was.  The ring is the    *)
(* last RingSize of them, and its indices are left out.  A tab's queue     *)
(* holds ranges of bytes.                                                  *)
(*                                                                         *)
(* "gap" is a history variable: a range was dropped at the tab's full      *)
(* queue, which the code accepts ("a gap in scrollback", wsSub.send).      *)
(***************************************************************************)
EXTENDS Integers, Sequences

CONSTANTS
  MaxBytes,  \* bound: output of the CLI
  MaxChunk,  \* the reader's buffer
  RingSize,
  Newline,   \* the bytes that are newlines
  MenuEnd,   \* the bytes that end a numbered menu
  FreshTail, \* menuFreshTailBytes
  Depth      \* sessionQueueDepth

VARIABLES
  written,   \* bytes written to the ring so far
  serial,    \* ringSerial
  reader,    \* spawnSession's goroutine and the chunk in its hands
  listed,    \* it has found the tab among the subscribers
  tab,       \* "closed", "joined" the subscribers, "read" the ring, "live" once it was sent
  ring,      \* the scrollback that was read for it
  queue,     \* what is on its way to the tab
  got,       \* the bytes the tab has received
  since,     \* history: the first byte the tab was promised
  gap,
  detector,  \* startMenuDetector's goroutine and what it has found
  seen,      \* lastSerial
  menu       \* MenuOptions: a menu is offered

stream == <<written, serial, reader, listed>>
client == <<tab, ring, queue, got, since, gap>>
watch == <<detector, seen, menu>>
vars == <<stream, client, watch>>

None == [from |-> 1, to |-> 0]
Bytes(range) == range.from..range.to

Init ==
  /\ written = 0 /\ serial = 0 /\ listed = FALSE
  /\ reader = [pc |-> "read", chunk |-> None]
  /\ tab = "closed" /\ ring = None /\ queue = <<>> /\ got = {} /\ since = 0 /\ gap = FALSE
  /\ detector = [pc |-> "idle", found |-> FALSE]
  /\ seen = 0 /\ menu = FALSE

------------------------------------------------------------------------------

\* snapshotRing: all there is, or once the ring is full what follows its first newline.
snapshotRing ==
  LET lines == Newline \cap (written - RingSize + 1..written)
  IN  IF written < RingSize THEN [from |-> 1, to |-> written]
      ELSE IF lines = {} THEN None
      ELSE [from |-> 1 + CHOOSE i \in lines : \A j \in lines : i <= j, to |-> written]

\* detectMenu: a menu at the end of what is on the screen.
detectMenu(screen) == \E m \in MenuEnd : m \in Bytes(screen) /\ screen.to - m <= FreshTail

\* wsSub.send
Send(range) ==
  IF Len(queue) >= Depth
    THEN gap' = TRUE /\ UNCHANGED queue
    ELSE queue' = Append(queue, range) /\ UNCHANGED gap

------------------------------------------------------------------------------
\* The reader of the terminal.

\* Read and writeRing.
writeRing(n) ==
  /\ reader.pc = "read" /\ written + n <= MaxBytes
  /\ reader' = [pc |-> "wrote", chunk |-> [from |-> written + 1, to |-> written + n]]
  /\ written' = written + n /\ serial' = serial + 1
  /\ UNCHANGED <<listed, client, watch>>

\* Mutant: a tab subscribes after it was sent the ring.
Subscribed_Late == tab = "live"

Subscribed == tab # "closed"

\* broadcastBytes: who subscribes now,
ListSubs ==
  /\ reader.pc = "wrote"
  /\ reader' = [reader EXCEPT !.pc = "listed"]
  /\ listed' = Subscribed
  /\ UNCHANGED <<written, serial, client, watch>>

\* ... is sent the chunk.
Broadcast ==
  /\ reader.pc = "listed"
  /\ reader' = [pc |-> "read", chunk |-> None] /\ listed' = FALSE
  /\ IF listed THEN Send(reader.chunk) ELSE UNCHANGED <<queue, gap>>
  /\ UNCHANGED <<written, serial, tab, ring, got, since, watch>>

------------------------------------------------------------------------------
\* handleSessionWS.

addSub ==
  /\ tab = "closed" /\ tab' = "joined"
  /\ got' = {} /\ since' = 0 /\ gap' = FALSE
  /\ UNCHANGED <<stream, ring, queue, watch>>

\* The ring is copied under its lock,
ReadRing ==
  /\ tab = "joined" /\ tab' = "read"
  /\ ring' = snapshotRing
  /\ since' = IF ring' = None THEN written + 1 ELSE ring'.from
  /\ UNCHANGED <<stream, queue, got, gap, watch>>

\* ... and sent through the queue the chunks go through.
SendRing ==
  /\ tab = "read" /\ tab' = "live"
  /\ ring' = None
  /\ IF Bytes(ring) = {} THEN UNCHANGED <<queue, gap>> ELSE Send(ring)
  /\ UNCHANGED <<stream, got, since, watch>>

\* The pump writes, the tab receives.
Receive ==
  /\ queue # <<>>
  /\ got' = got \cup Bytes(Head(queue))
  /\ queue' = Tail(queue)
  /\ UNCHANGED <<stream, tab, ring, since, gap, watch>>

\* The tab leaves, a write times out, or closeSubs: what is sent to it is dropped.
Leave ==
  /\ tab # "closed" /\ tab' = "closed"
  /\ ring' = None /\ queue' = <<>> /\ listed' = FALSE
  /\ UNCHANGED <<written, serial, reader, got, since, gap, watch>>

------------------------------------------------------------------------------
\* startMenuDetector, at a tick.

ReadSerial ==
  /\ detector.pc = "idle" /\ serial # seen
  /\ detector' = [detector EXCEPT !.pc = "scan"]
  /\ seen' = serial
  /\ UNCHANGED <<stream, client, menu>>

Scan ==
  /\ detector.pc = "scan"
  /\ detector' = [pc |-> "found", found |-> detectMenu(snapshotRing)]
  /\ UNCHANGED <<stream, client, seen, menu>>

\* Mutant: what has changed is read when the menu has been published.
Publish_ReadsSerial ==
  /\ detector.pc = "found"
  /\ detector' = [pc |-> "idle", found |-> FALSE]
  /\ menu' = detector.found /\ seen' = serial
  /\ UNCHANGED <<stream, client>>

Publish ==
  /\ detector.pc = "found"
  /\ detector' = [pc |-> "idle", found |-> FALSE]
  /\ menu' = detector.found
  /\ UNCHANGED <<stream, client, seen>>

------------------------------------------------------------------------------

Next ==
  \/ \E n \in 1..MaxChunk : writeRing(n)
  \/ ListSubs \/ Broadcast
  \/ addSub \/ ReadRing \/ SendRing \/ Receive \/ Leave
  \/ ReadSerial \/ Scan \/ Publish

Spec == Init /\ [][Next]_vars

------------------------------------------------------------------------------

\* Every variable has its type; the serial advances with every chunk.
TypeOK ==
  /\ written \in 0..MaxBytes /\ serial \in 0..written /\ seen \in 0..serial
  /\ reader.pc \in {"read", "wrote", "listed"} /\ Bytes(reader.chunk) \subseteq 1..written
  /\ listed \in BOOLEAN /\ gap \in BOOLEAN /\ menu \in BOOLEAN
  /\ tab \in {"closed", "joined", "read", "live"} /\ Bytes(ring) \subseteq 1..written /\ Len(queue) <= Depth
  /\ got \subseteq 1..written /\ since \in 0..written + 1
  /\ detector \in [pc : {"idle", "scan", "found"}, found : BOOLEAN]

\* Queued, or in the hands of the reader, who will find the tab or has.
OnItsWay ==
  (UNION {Bytes(queue[i]) : i \in DOMAIN queue})
    \cup (IF reader.pc = "wrote" \/ listed THEN Bytes(reader.chunk) ELSE {})

\* A connected tab has or will get every byte from the first of its scrollback on:
\* what is written while it connects is in the ring it is sent, or is broadcast to it,
\* and never falls between ("so it's serialized with future broadcasts",
\* handleSessionWS).
NoGap == tab = "live" /\ ~gap => since..written \subseteq got \cup OnItsWay

\* A detector that has seen the latest output offers what the screen shows: output that
\* arrives while it scans is not taken for seen ("blocks a healthy session
\* permanently", detectMenu).
MenuIsOnScreen ==
  detector.pc = "idle" /\ seen = serial => (menu <=> detectMenu(snapshotRing))

==============================================================================
