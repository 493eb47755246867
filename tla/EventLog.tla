------------------------------- MODULE EventLog -------------------------------
(***************************************************************************)
(* What a notebook's store promises to the rest of the server, with no     *)
(* files, snapshots or write failures in sight: a durable log, and a view  *)
(* that is always the whole of it while the notebook is being served.      *)
(***************************************************************************)
EXTENDS Sequences, Integers

CONSTANT Entry

VARIABLES
  entries,   \* the durable log
  serving,   \* the notebook is open
  view,      \* what an open notebook is folded from
  acked      \* entries whose writer was told they are recorded

vars == <<entries, serving, view, acked>>

IsNew(e) == e \notin acked /\ \A i \in DOMAIN entries : entries[i] # e

Init == entries = <<>> /\ serving = FALSE /\ view = <<>> /\ acked = {}

\* Opening serves the whole log.
Start ==
  /\ ~serving
  /\ serving' = TRUE /\ view' = entries
  /\ UNCHANGED <<entries, acked>>

\* Recording extends the log and the view together, opening a new log if need be.
Record(e) ==
  /\ IsNew(e)
  /\ serving \/ entries = <<>>
  /\ entries' = Append(entries, e) /\ view' = entries'
  /\ serving' = TRUE /\ acked' = acked \cup {e}

\* The server stops, in the middle of recording an entry perhaps.
Stop ==
  /\ serving
  /\ serving' = FALSE /\ view' = <<>>
  /\ \/ entries' = entries
     \/ \E e \in Entry : IsNew(e) /\ entries' = Append(entries, e)
  /\ UNCHANGED acked

\* An older copy of the log is restored.
Rewind(n) ==
  /\ ~serving
  /\ entries' = SubSeq(entries, 1, n)
  /\ acked' = {e \in acked : \E i \in 1..n : entries[i] = e}
  /\ UNCHANGED <<serving, view>>

Next ==
  \/ Start \/ Stop
  \/ \E e \in Entry : Record(e)
  \/ \E n \in 0..Len(entries) : Rewind(n)

Spec == Init /\ [][Next]_vars

==============================================================================
