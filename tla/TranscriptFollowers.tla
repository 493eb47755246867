-------------------------- MODULE TranscriptFollowers --------------------------
(***************************************************************************)
(* transcript.go, nb_subagent.go and the delegated half of nb_session.go:  *)
(* the first hook that names a session's transcript starts a watcher, the  *)
(* watcher counts each line's usage and hands it to the projector, and a   *)
(* follower beside it reads the transcript of the child agent the session  *)
(* delegates to.                                                           *)
(*                                                                         *)
(* A file is its length in half lines: an odd length is a line whose       *)
(* newline is not written yet.  The CLI is external: it writes both files, *)
(* half a line at a time, and its hooks set the session's status, "over"   *)
(* for "stopped" and "error".                                              *)
(*                                                                         *)
(* Abstractions.  The session delegates once, and line Link of its         *)
(* transcript is the result that names the child.  A child's line has one  *)
(* part.  What the session's own parts turn into, and when a turn is open, *)
(* is SessionProjector's; here a result may find either.  Removing the     *)
(* session and stopping the server end a watcher as "over" does.           *)
(***************************************************************************)
EXTENDS Integers, Sequences

CONSTANTS
  Hook,        \* requests that name the transcript, each served once
  MaxLine,     \* bound: lines of either transcript
  Link,
  LineCap,     \* subagentLineCap
  MaxHeld      \* maxHeldSubagentParts

Line == 1..MaxLine

VARIABLES
  file, child,      \* the two transcripts
  status,           \* "live" or "over"
  path, watching,   \* TranscriptPath is set; a watcher is started
  offset, counted,  \* transcriptOffset; how often each line's usage was added
  projector,        \* "none", "open" or "closed"; the session keeps the one it has
  linked, held,     \* subagentCell and heldSubagent of the child
  placed,           \* lines of the child in the notebook
  hook,             \* each hook's handler
  watcher,          \* the goroutine each hook may have started
  follower,         \* the subagentWatcher of each of these
  shed, refused,    \* history: lines dropped because too many were held, by the log
  unclaimed         \* history: the result was read while no turn was open

files == <<file, child, status>>
session == <<path, watching, offset, counted>>
document == <<projector, linked, held, placed, shed, refused, unclaimed>>
vars == <<files, session, document, hook, watcher, follower>>

Init ==
  /\ file = 0 /\ child = 0 /\ status = "live"
  /\ path = FALSE /\ watching = FALSE
  /\ offset = 0 /\ counted = [i \in Line |-> 0]
  /\ projector = "none" /\ linked = FALSE /\ held = <<>> /\ placed = {}
  /\ hook = [h \in Hook |-> "idle"]
  /\ watcher = [w \in Hook |-> [pc |-> "none", from |-> 0, at |-> 0, hand |-> <<>>]]
  /\ follower = [w \in Hook |-> [pc |-> "off", stop |-> FALSE, offset |-> 0, hand |-> <<>>]]
  /\ shed = {} /\ refused = {} /\ unclaimed = FALSE

Goto(w, pc) == watcher' = [watcher EXCEPT ![w].pc = pc]
LinesIn(from, to) == [k \in 1..to - from |-> from + k]
Elements(seq) == {seq[k] : k \in DOMAIN seq}

------------------------------------------------------------------------------
\* The CLI.

WritesLine ==
  /\ file < 2 * MaxLine /\ file' = file + 1
  /\ UNCHANGED <<child, status, session, document, hook, watcher, follower>>

ChildWritesLine ==
  /\ child < 2 * MaxLine /\ child' = child + 1
  /\ UNCHANGED <<file, status, session, document, hook, watcher, follower>>

\* A tool fails, the turn goes on, the session ends.
setStatus(new) ==
  /\ status # new /\ status' = new
  /\ UNCHANGED <<file, child, session, document, hook, watcher, follower>>

------------------------------------------------------------------------------
\* handleHook and startTranscriptWatcher.

HookLooks(h) ==
  /\ hook[h] = "idle"
  /\ hook' = [hook EXCEPT ![h] = IF path THEN "done" ELSE "named"]
  /\ UNCHANGED <<files, session, document, watcher, follower>>

SetPath(h) ==
  /\ hook[h] = "named"
  /\ hook' = [hook EXCEPT ![h] = "starts"] /\ path' = TRUE
  /\ UNCHANGED <<files, watching, offset, counted, document, watcher, follower>>

\* Mutant: whether there is a watcher is not asked.
Startable_Always == path

Startable == path /\ ~watching

StartWatcher(h) ==
  /\ hook[h] = "starts"
  /\ hook' = [hook EXCEPT ![h] = "done"]
  /\ IF Startable
       THEN watching' = TRUE /\ Goto(h, "open")
       ELSE UNCHANGED <<watching, watcher>>
  /\ UNCHANGED <<files, path, offset, counted, document, follower>>

------------------------------------------------------------------------------
\* The watcher.

\* The file is there: the projector and the follower are opened on it.
Open(w) ==
  /\ watcher[w].pc = "open" /\ file > 0
  /\ Goto(w, "tick")
  /\ projector' = IF projector = "none" THEN "open" ELSE projector
  /\ follower' = [follower EXCEPT ![w].pc = "tick"]
  /\ UNCHANGED <<files, session, linked, held, placed, shed, refused, unclaimed, hook>>

\* It never appeared.
NeverOpens(w) ==
  /\ watcher[w].pc = "open" /\ file = 0 /\ status = "over"
  /\ Goto(w, "gone") /\ watching' = FALSE
  /\ UNCHANGED <<files, path, offset, counted, document, hook, follower>>

Tick(w) ==
  /\ watcher[w].pc = "tick"
  /\ IF status = "over" THEN Goto(w, "stop")
     ELSE watcher' = [watcher EXCEPT ![w].pc = "read", ![w].from = offset, ![w].at = offset]
  /\ UNCHANGED <<files, session, document, hook, follower>>

\* Mutant: what was held for the child is left where it is.
AfterLinking_Forgets == "read"

AfterLinking == "release"

\* The next line whose newline is there; what is left of a line is no JSON.  Ingest links
\* the child its result names to the turn that is open; with none it never does.
ReadLine(w) ==
  LET at == watcher[w].at
      i == at \div 2 + 1
      names == at % 2 = 0 /\ i = Link /\ projector = "open" /\ ~linked
  IN  /\ watcher[w].pc = "read" /\ 2 * i <= file
      /\ \E open \in BOOLEAN :
           /\ watcher' = [watcher EXCEPT ![w].at = 2 * i,
                                         ![w].pc = IF names /\ open THEN AfterLinking ELSE "read"]
           /\ linked' = (linked \/ (names /\ open))
           /\ unclaimed' = (unclaimed \/ (names /\ ~open))
      /\ UNCHANGED <<files, session, projector, held, placed, shed, refused, hook, follower>>

\* What was held for the child is taken,
Release(w) ==
  /\ watcher[w].pc = "release"
  /\ watcher' = [watcher EXCEPT ![w].pc = "place", ![w].hand = held]
  /\ held' = <<>>
  /\ UNCHANGED <<files, session, projector, linked, placed, shed, refused, unclaimed, hook,
                 follower>>

\* A line of the child is appended to its turn, or the log refuses it: nobody asks again.
Place(i) ==
  \/ placed' = placed \cup {i} /\ UNCHANGED refused
  \/ refused' = refused \cup {i} /\ UNCHANGED placed

\* ... and placed, one part after the other.
PlaceHeld(w) ==
  /\ watcher[w].pc = "place"
  /\ IF watcher[w].hand = <<>>
       THEN Goto(w, "read") /\ UNCHANGED <<placed, refused>>
       ELSE /\ Place(Head(watcher[w].hand))
            /\ watcher' = [watcher EXCEPT ![w].hand = Tail(@)]
  /\ UNCHANGED <<files, session, projector, linked, held, shed, unclaimed, hook, follower>>

\* Mutant: the line that is not finished is passed over with the others.
ReadTo_Torn(w) == file

ReadTo(w) == watcher[w].at

\* No complete line is left: the usage read is added, and the offset moves on by it.
Commit(w) ==
  LET from == watcher[w].from
      read == {i \in Line : from % 2 = 0 /\ 2 * i - 2 >= from /\ 2 * i <= watcher[w].at}
  IN  /\ watcher[w].pc = "read" /\ 2 * (watcher[w].at \div 2 + 1) > file
      /\ Goto(w, "tick")
      /\ offset' = offset + (ReadTo(w) - from)
      /\ counted' = [i \in Line |-> counted[i] + (IF i \in read THEN 1 ELSE 0)]
      /\ UNCHANGED <<files, path, watching, document, hook, follower>>

\* The deferred calls: the follower is told to stop,
StopFollower(w) ==
  /\ watcher[w].pc = "stop"
  /\ Goto(w, "close")
  /\ follower' = [follower EXCEPT ![w].stop = TRUE]
  /\ UNCHANGED <<files, session, document, hook>>

\* ... the projector closed, and the session may have another watcher.
Leave(w) ==
  /\ watcher[w].pc = "close"
  /\ Goto(w, "gone")
  /\ projector' = "closed" /\ watching' = FALSE
  /\ UNCHANGED <<files, path, offset, counted, linked, held, placed, shed, refused, unclaimed,
                 hook, follower>>

------------------------------------------------------------------------------
\* The follower of the child.

Lower(a, b) == IF a < b THEN a ELSE b

\* Mutant: the cap bounds what is read, and not how far the offset moves.
SweptTo_All(w) == child \div 2

\* readForward: the complete lines, LineCap of them at most.
SweptTo(w) == Lower(child \div 2, follower[w].offset + LineCap)

\* The select may take its tick when it could stop.
Sweep(w) ==
  LET from == follower[w].offset
  IN  /\ follower[w].pc = "tick" /\ child \div 2 > from
      /\ follower' = [follower EXCEPT
           ![w].pc = "ingest", ![w].offset = SweptTo(w),
           ![w].hand = LinesIn(from, Lower(child \div 2, from + LineCap))]
      /\ UNCHANGED <<files, session, document, hook, watcher>>

\* IngestSubagent, under the projector's lock: work nobody claims yet is held.
IngestSubagent(w) ==
  LET kept == held \o follower[w].hand
      over == IF Len(kept) > MaxHeld THEN Len(kept) - MaxHeld ELSE 0
      holds == projector = "open" /\ ~linked
  IN  /\ follower[w].pc = "ingest"
      /\ follower' = IF projector = "open" /\ linked
                       THEN [follower EXCEPT ![w].pc = "place"]
                       ELSE [follower EXCEPT ![w].pc = "tick", ![w].hand = <<>>]
      /\ held' = IF holds THEN SubSeq(kept, over + 1, Len(kept)) ELSE held
      /\ shed' = IF holds THEN shed \cup {kept[k] : k \in 1..over} ELSE shed
      /\ UNCHANGED <<files, session, projector, linked, placed, refused, unclaimed, hook, watcher>>

\* ... and without it: one output appended after the other.
PlaceChild(w) ==
  /\ follower[w].pc = "place"
  /\ IF follower[w].hand = <<>>
       THEN follower' = [follower EXCEPT ![w].pc = "tick"] /\ UNCHANGED <<placed, refused>>
       ELSE /\ Place(Head(follower[w].hand))
            /\ follower' = [follower EXCEPT ![w].hand = Tail(@)]
  /\ UNCHANGED <<files, session, projector, linked, held, shed, unclaimed, hook, watcher>>

StopChild(w) ==
  /\ follower[w].pc = "tick" /\ follower[w].stop
  /\ follower' = [follower EXCEPT ![w].pc = "off"]
  /\ UNCHANGED <<files, session, document, hook, watcher>>

------------------------------------------------------------------------------

Watch(w) ==
  \/ Open(w) \/ NeverOpens(w) \/ Tick(w) \/ ReadLine(w) \/ Release(w) \/ PlaceHeld(w)
  \/ Commit(w) \/ StopFollower(w) \/ Leave(w)

Follow(w) == Sweep(w) \/ IngestSubagent(w) \/ PlaceChild(w) \/ StopChild(w)

Next ==
  \/ WritesLine \/ ChildWritesLine \/ \E new \in {"live", "over"} : setStatus(new)
  \/ \E h \in Hook : HookLooks(h) \/ SetPath(h) \/ StartWatcher(h) \/ Watch(h) \/ Follow(h)

Spec == Init /\ [][Next]_vars

------------------------------------------------------------------------------

\* Every variable has its type; at most one watcher is on duty.
TypeOK ==
  /\ file \in 0..2 * MaxLine /\ child \in 0..2 * MaxLine /\ status \in {"live", "over"}
  /\ offset \in 0..file /\ counted \in [Line -> Nat]
  /\ projector \in {"none", "open", "closed"}
  /\ placed \subseteq Line /\ shed \subseteq Line /\ refused \subseteq Line
  /\ Len(held) <= MaxHeld
  /\ \A v, w \in Hook :
       v # w => watcher[v].pc \in {"none", "gone"} \/ watcher[w].pc \in {"none", "gone"}

\* The usage of each line is added to the session's totals exactly once, torn writes,
\* hooks that race to start the watcher and watchers that come after one another
\* notwithstanding.
LinesCountOnce == \A i \in Line : counted[i] = IF 2 * i <= offset THEN 1 ELSE 0

\* What is held until the result names the child, or in the hands of the watcher that
\* releases it.
Waiting ==
  UNION ({Elements(watcher[w].hand) : w \in Hook}
           \cup (IF (linked \/ unclaimed) /\ \A w \in Hook : watcher[w].pc # "release"
                   THEN {} ELSE {Elements(held)}))

\* Work of the child that was read is in its turn, or on its way there, however its
\* arrival and its link are ordered; but for what was shed, what the log refused, and
\* what stays held because the result was read while no turn was open.
ChildWorkIsPlaced ==
  projector = "open" =>
    \A w \in Hook :
      1..follower[w].offset \subseteq
        placed \cup Elements(follower[w].hand) \cup Waiting \cup shed \cup refused
               \cup (IF unclaimed THEN Elements(held) ELSE {})

==============================================================================
