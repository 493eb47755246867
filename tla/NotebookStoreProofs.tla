------------------------- MODULE NotebookStoreProofs -------------------------
(***************************************************************************)
(* Proofs about NotebookStore, for every set of handles, every bound and   *)
(* every choice of Cuts.                                                   *)
(***************************************************************************)
EXTENDS NotebookStoreRefinement, SequenceTheorems, TLAPS

------------------------------------------------------------------------------
\* The inductive invariant, in named parts.

\* Where history d agrees with log l at one position, it agrees with it at
\* every earlier one.
Agrees(d, l) ==
  \A k \in 1..Len(d) :
    (k <= Len(l) /\ l[k] = d[k]) => \A j \in 1..k : l[j] = d[j]

UpTo(s, n) == \A i \in 1..Len(s) : s[i] <= n

\* Ids in use have been issued, so a fresh one is new to every history.
Issued ==
  /\ UpTo(log, issued) /\ UpTo(snap.doc, issued)
  /\ \A h \in Handle : UpTo(handle[h].doc, issued)
  /\ \A e \in acked : e <= issued

SnapshotStamped ==
  /\ snap.version = Len(snap.doc)
  /\ snap.lastID = LastEventID(snap.doc)

HistoriesAgree ==
  Agrees(snap.doc, log) /\ \A h \in Handle : Agrees(handle[h].doc, log)

\* On a clean log no store is ahead of it, and one as long as it is equal to it.
NoneAhead ==
  tail = "clean" =>
    \A h \in Handle : handle[h].open =>
      /\ Len(handle[h].doc) <= Len(log)
      /\ Len(handle[h].doc) = Len(log) => handle[h].doc = log

\* An event whose newline is missing was never acknowledged.
UnterminatedIsUnacked ==
  tail = "unterminated" => Len(log) > 0 /\ log[Len(log)] \notin acked

ClosedIsEmpty == \A h \in Handle : ~handle[h].open => handle[h].doc = <<>>

IInv ==
  /\ TypeOK /\ Issued /\ SnapshotStamped /\ StampIsLastFolded
  /\ HistoriesAgree /\ NoneAhead /\ UnterminatedIsUnacked /\ ClosedIsEmpty

------------------------------------------------------------------------------
\* Lemmas about agreement: the four ways a history and a log move.

\* Cutting the log back keeps agreement.
LEMMA AgreesPrefix ==
  ASSUME NEW d \in Seq(Event), NEW l \in Seq(Event), NEW n \in 0..Len(l),
         Agrees(d, l)
  PROVE  Agrees(d, SubSeq(l, 1, n))
  BY DEF Agrees

\* A log that grows by an event the history has not seen keeps agreement.
LEMMA AgreesLogGrows ==
  ASSUME NEW d \in Seq(Event), NEW l \in Seq(Event), NEW e \in Event,
         Agrees(d, l), \A i \in 1..Len(d) : d[i] # e
  PROVE  Agrees(d, Append(l, e))
  BY DEF Agrees

\* A history that grows by an event that never reached the log keeps agreement.
LEMMA AgreesDocGrows ==
  ASSUME NEW d \in Seq(Event), NEW l \in Seq(Event), NEW e \in Event,
         Agrees(d, l), \A i \in 1..Len(l) : l[i] # e
  PROVE  Agrees(Append(d, e), l)
  BY DEF Agrees

\* Both grow by the same fresh event: the positions meet only if the two were
\* equal before.
LEMMA AgreesBothGrow ==
  ASSUME NEW d \in Seq(Event), NEW l \in Seq(Event), NEW e \in Event,
         Agrees(d, l),
         Len(d) <= Len(l), Len(d) = Len(l) => d = l,
         \A i \in 1..Len(d) : d[i] # e, \A i \in 1..Len(l) : l[i] # e
  PROVE  Agrees(Append(d, e), Append(l, e))
  BY DEF Agrees

\* The empty history agrees with every log, and every log with itself.
LEMMA AgreesTrivially ==
  ASSUME NEW l \in Seq(Event)
  PROVE  Agrees(<<>>, l) /\ Agrees(l, l)
  BY DEF Agrees

\* A prefix of a sequence and the rest of it make the sequence.
LEMMA PrefixAndRest ==
  ASSUME NEW d \in Seq(Event), NEW l \in Seq(Event),
         Len(d) <= Len(l), \A j \in 1..Len(d) : d[j] = l[j]
  PROVE  d \o SubSeq(l, Len(d) + 1, Len(l)) = l
<1> DEFINE r == SubSeq(l, Len(d) + 1, Len(l))
<1>1. /\ r \in Seq(Event)
      /\ Len(r) = Len(l) - Len(d)
      /\ \A i \in 1..Len(r) : r[i] = l[Len(d) + i]
  OBVIOUS
<1> HIDE DEF r
<1>2. d \o r \in Seq(Event) /\ Len(d \o r) = Len(l)
  BY <1>1
<1>3. ASSUME NEW i \in 1..Len(l)
      PROVE  (d \o r)[i] = l[i]
  <2>1. CASE i <= Len(d)
    BY <1>1, <2>1
  <2>2. CASE i > Len(d)
    <3>1. (d \o r)[i] = r[i - Len(d)]
      BY <1>1, <2>2
    <3>2. i - Len(d) \in 1..Len(r) /\ Len(d) + (i - Len(d)) = i
      BY <1>1, <2>2
    <3>3. QED
      BY <1>1, <3>1, <3>2
  <2>3. i <= Len(d) \/ i > Len(d)
    OBVIOUS
  <2>4. QED
    BY <2>1, <2>2, <2>3
<1>4. d \o r = l
  BY <1>2, <1>3, SeqEqual
<1>5. QED
  BY <1>4 DEF r

\* A snapshot that passes the check is a prefix of the log, so what load
\* builds from it is the log: the heart of LoadIsFoldOfLog.
LEMMA LoadedIsLog ==
  ASSUME TypeOK, SnapshotStamped, Agrees(snap.doc, log)
  PROVE  Loaded = log
<1>1. CASE ~(snap.present /\ MatchesLog(snap))
  BY <1>1 DEF Loaded
<1>2. CASE snap.present /\ MatchesLog(snap)
  <2> DEFINE d == snap.doc
             v == Len(d)
  <2>1. d \in Seq(Event) /\ log \in Seq(Event) /\ v \in Nat /\ v <= Len(log)
    BY <1>2 DEF TypeOK, Snapshot, MatchesLog, SnapshotStamped
  <2>2. \A j \in 1..v : d[j] = log[j]
    <3>1. CASE v = 0
      BY <3>1
    <3>2. CASE v # 0
      <4>1. d # <<>> /\ log[v] = d[v]
        BY <1>2, <3>2, <2>1 DEF MatchesLog, SnapshotStamped, LastEventID
      <4>2. QED
        BY <4>1, <2>1, <3>2 DEF Agrees
    <3>3. QED
      BY <3>1, <3>2
  <2>3. d \o SubSeq(log, v + 1, Len(log)) = log
    BY <2>1, <2>2, PrefixAndRest
  <2>4. QED
    BY <2>3, <1>2 DEF Loaded, SnapshotStamped
<1>3. QED
  BY <1>1, <1>2

------------------------------------------------------------------------------
\* Type correctness.

\* What one write does to the file, whatever its outcome.
LEMMA WriteEffect ==
  ASSUME TypeOK, NEW e \in Event, NEW cut, Write(e, cut)
  PROVE  /\ log' \in Seq(Event)
         /\ tail' \in {"clean", "unterminated", "garbage"}
         /\ tail' = "clean" => tail = "clean"
         /\ \/ log' = log /\ (tail' = tail \/ tail' = "garbage")
            \/ tail = "unterminated" /\ tail' = "garbage"
               /\ log' = SubSeq(log, 1, Len(log) - 1)
            \/ tail = "clean" /\ log' = Append(log, e)
<1>1. SubSeq(log, 1, Len(log) - 1) \in Seq(Event)
  <2>1. CASE Len(log) = 0
    BY <2>1, SubSeqEmpty, EmptySeq DEF TypeOK
  <2>2. CASE Len(log) # 0
    BY <2>2 DEF TypeOK
  <2>3. QED
    BY <2>1, <2>2
<1>2. CASE UNCHANGED <<log, tail>>
  BY <1>2 DEF TypeOK
<1>3. CASE tail = "unterminated" /\ log' = SubSeq(log, 1, Len(log) - 1) /\ tail' = "garbage"
  BY <1>1, <1>3
<1>4. CASE tail' = "garbage" /\ UNCHANGED log
  BY <1>4 DEF TypeOK
<1>5. CASE /\ tail = "clean" /\ log' = Append(log, e)
           /\ tail' = IF cut = "whole" THEN "clean" ELSE "unterminated"
  BY <1>5 DEF TypeOK
<1>6. QED
  BY <1>2, <1>3, <1>4, <1>5 DEF Write

\* Records of the shapes the actions build.
LEMMA RecordTypes ==
  ASSUME NEW doc \in Seq(Event), NEW id \in Event \cup {NoID}, NEW n \in Nat
  PROVE  /\ Closed \in StoreState
         /\ Opened(doc, id, n) \in StoreState
         /\ SnapshotOf(doc, id) \in Snapshot
         /\ NoSnapshot \in Snapshot
<1>1. <<>> \in Seq(Event) /\ NoID \in Event \cup {NoID} /\ 0 \in Nat /\ Len(doc) \in Nat
  OBVIOUS
<1>2. QED
  BY <1>1 DEF Closed, Opened, SnapshotOf, NoSnapshot, StoreState, Snapshot

\* The state an Append publishes.
LEMMA PublishTypes ==
  ASSUME TypeOK, NEW h \in Handle, NEW doc \in Seq(Event), NEW n \in Nat,
         NEW e \in Event, Publish(h, doc, n, e)
  PROVE  /\ handle' \in [Handle -> StoreState]
         /\ snap' \in Snapshot
         /\ acked' \subseteq Event
<1>1. Append(doc, e) \in Seq(Event) /\ e \in Event \cup {NoID} /\ n + 1 \in Nat
  OBVIOUS
<1>2. \A k \in Nat : Opened(Append(doc, e), e, k) \in StoreState
  BY <1>1, RecordTypes
<1>3. SnapshotOf(Append(doc, e), e) \in Snapshot
  BY <1>1, RecordTypes
<1>4. QED
  BY <1>1, <1>2, <1>3 DEF Publish, TypeOK

\* A store's fields.
LEMMA StoreFields ==
  ASSUME TypeOK, NEW h \in Handle
  PROVE  /\ handle[h].doc \in Seq(Event)
         /\ handle[h].lastID \in Event \cup {NoID}
         /\ handle[h].since \in Nat
  BY DEF TypeOK, StoreState

\* Every action keeps the types.
LEMMA TypeStep == TypeOK /\ [Next]_vars => TypeOK'
<1> SUFFICES ASSUME TypeOK, [Next]_vars PROVE TypeOK'
  OBVIOUS
<1>1. ASSUME NEW h \in Handle, Open(h) PROVE TypeOK'
  <2>1. Loaded \in Seq(Event)
    BY DEF Loaded, TypeOK, Snapshot, MatchesLog
  <2>2. LastEventID(log) \in Event \cup {NoID}
    BY DEF LastEventID, TypeOK
  <2>3. Opened(Loaded, LastEventID(log), 0) \in StoreState
    BY <2>1, <2>2, RecordTypes
  <2>4. QED
    BY <1>1, <2>3 DEF Open, TypeOK
<1>2. ASSUME NEW h \in Handle, Create(h) PROVE TypeOK'
  <2>1. PICK e \in Event : Fresh(e) /\ Write(e, "whole") /\ Publish(h, <<>>, 0, e)
    BY <1>2 DEF Create
  <2>2. <<>> \in Seq(Event) /\ 0 \in Nat
    BY EmptySeq
  <2>3. issued' \in 0..MaxEvents /\ exists' \in BOOLEAN
    BY <1>2, <2>1, StoreAssumption DEF Create, Fresh, TypeOK, Event
  <2>4. QED
    BY <2>1, <2>2, <2>3, WriteEffect, PublishTypes DEF TypeOK
<1>3. ASSUME NEW h \in Handle, AppendEvent(h) PROVE TypeOK'
  BY <1>3, WriteEffect, PublishTypes, StoreFields, StoreAssumption
  DEF AppendEvent, Fresh, TypeOK, Event
<1>4. ASSUME NEW h \in Handle, NEW cut \in {"none"} \cup Cuts, CreateFails(h, cut)
      PROVE  TypeOK'
  BY <1>4, WriteEffect, StoreAssumption DEF CreateFails, Fresh, TypeOK, Event
<1>5. ASSUME NEW h \in Handle, NEW cut \in {"none"} \cup Cuts, AppendFails(h, cut)
      PROVE  TypeOK'
  BY <1>5, WriteEffect, StoreAssumption DEF AppendFails, Fresh, TypeOK, Event
<1>6. ASSUME NEW h \in Handle, NEW cut \in {"none", "whole"} \cup Cuts, Crash(h, cut)
      PROVE  TypeOK'
  <2>1. Closed \in StoreState
    BY RecordTypes, EmptySeq
  <2>2. QED
    BY <1>6, <2>1, WriteEffect, StoreAssumption DEF Crash, Fresh, TypeOK, Event
<1>7. ASSUME NEW h \in Handle, Close(h) PROVE TypeOK'
  <2>1. Closed \in StoreState /\ SnapshotOf(handle[h].doc, handle[h].lastID) \in Snapshot
    BY StoreFields, RecordTypes
  <2>2. QED
    BY <1>7, <2>1 DEF Close, TypeOK
<1>8. ASSUME NEW n \in 0..Len(log), RestoreBackup(n) PROVE TypeOK'
  BY <1>8 DEF RestoreBackup, TypeOK
<1>9. CASE DeleteSnapshot
  BY <1>9, RecordTypes, EmptySeq DEF DeleteSnapshot, TypeOK
<1>10. CASE UNCHANGED vars
  BY <1>10 DEF vars, TypeOK
<1>11. QED
  BY <1>1, <1>2, <1>3, <1>4, <1>5, <1>6, <1>7, <1>8, <1>9, <1>10 DEF Next

\* The types at first.
LEMMA InitTypeOK == Init => TypeOK
<1>1. Closed \in StoreState /\ NoSnapshot \in Snapshot
  BY RecordTypes, EmptySeq
<1>2. 0 \in 0..MaxEvents
  BY StoreAssumption
<1>3. <<>> \in Seq(Event)
  BY EmptySeq
<1>4. QED
  BY <1>1, <1>2, <1>3 DEF Init, TypeOK

\* Every variable keeps its type (nb_store.go's store, snapshot and log).
THEOREM TypeCorrect == Spec => []TypeOK
<1>1. QED
  BY InitTypeOK, TypeStep, PTL DEF Spec

------------------------------------------------------------------------------
\* The inductive invariant: one lemma per way a step touches the log.

\* A fresh id is above those already bounded.
LEMMA UpToGrows ==
  ASSUME NEW s \in Seq(Event), NEW m \in Nat, NEW e \in Event, UpTo(s, m), m < e
  PROVE  UpTo(s, e) /\ UpTo(Append(s, e), e)
<1>1. \A i \in 1..Len(s) : s[i] \in Nat /\ s[i] <= m
  BY StoreAssumption DEF UpTo, Event
<1>2. e \in Nat
  BY StoreAssumption DEF Event
<1>3. UpTo(s, e)
  BY <1>1, <1>2 DEF UpTo
<1>4. QED
  BY <1>1, <1>2, <1>3 DEF UpTo

\* A fresh event is in no log, document or snapshot.
LEMMA FreshIsNew ==
  ASSUME TypeOK, Issued, NEW e \in Event, Fresh(e)
  PROVE  /\ \A i \in 1..Len(log) : log[i] # e
         /\ \A i \in 1..Len(snap.doc) : snap.doc[i] # e
         /\ \A h \in Handle : \A i \in 1..Len(handle[h].doc) : handle[h].doc[i] # e
         /\ e \notin acked
         /\ issued \in Nat /\ issued < e /\ issued' = e
<1>1. issued \in Nat /\ e \in Nat /\ issued < e /\ issued' = e
  BY StoreAssumption DEF TypeOK, Fresh, Event
<1>2. ASSUME NEW s \in Seq(Event), UpTo(s, issued)
      PROVE  \A i \in 1..Len(s) : s[i] # e
  BY <1>1, <1>2 DEF UpTo
<1>3. log \in Seq(Event) /\ snap.doc \in Seq(Event)
  BY DEF TypeOK, Snapshot
<1>4. e \notin acked
  BY <1>1 DEF Issued
<1>5. QED
  BY <1>1, <1>2, <1>3, <1>4, StoreFields DEF Issued

\* The log's ids are issued ones, whatever a write did.
LEMMA WriteKeepsIssued ==
  ASSUME TypeOK, Issued, NEW e \in Event, Fresh(e), NEW cut, Write(e, cut)
  PROVE  UpTo(log', e)
<1>1. UpTo(log, e) /\ UpTo(Append(log, e), e)
  BY FreshIsNew, UpToGrows DEF Issued, TypeOK
<1>2. CASE log' = SubSeq(log, 1, Len(log) - 1)
  BY <1>1, <1>2 DEF UpTo, TypeOK
<1>3. QED
  BY <1>1, <1>2, WriteEffect

\* A history the writer does not extend still agrees with the log.
LEMMA WriteKeepsAgreement ==
  ASSUME TypeOK, NEW d \in Seq(Event), NEW e \in Event, NEW cut, Write(e, cut),
         Agrees(d, log), \A i \in 1..Len(d) : d[i] # e
  PROVE  Agrees(d, log')
<1>1. CASE log' = log
  BY <1>1
<1>2. CASE log' = SubSeq(log, 1, Len(log) - 1)
  <2>1. CASE Len(log) = 0
    BY <1>2, <2>1 DEF Agrees, TypeOK
  <2>2. CASE Len(log) # 0
    <3>1. Len(log) - 1 \in 0..Len(log)
      BY <2>2 DEF TypeOK
    <3>2. QED
      BY <1>2, <3>1, AgreesPrefix DEF TypeOK
  <2>3. QED
    BY <2>1, <2>2
<1>3. CASE log' = Append(log, e)
  BY <1>3, AgreesLogGrows DEF TypeOK
<1>4. QED
  BY <1>1, <1>2, <1>3, WriteEffect

\* The writer's own history: on a clean log both grow, otherwise the event is
\* swallowed and only the history grows.
LEMMA WriteExtendsAgreement ==
  ASSUME TypeOK, NEW d \in Seq(Event), NEW e \in Event, Write(e, "whole"),
         Agrees(d, log),
         tail = "clean" => Len(d) <= Len(log) /\ (Len(d) = Len(log) => d = log),
         \A i \in 1..Len(d) : d[i] # e, \A i \in 1..Len(log) : log[i] # e
  PROVE  Agrees(Append(d, e), log')
<1>1. CASE log' = log
  BY <1>1, AgreesDocGrows DEF TypeOK
<1>2. CASE log' = SubSeq(log, 1, Len(log) - 1)
  <2>1. Agrees(d, log')
    BY WriteKeepsAgreement
  <2>2. \A i \in 1..Len(log') : log'[i] # e
    BY <1>2 DEF TypeOK
  <2>3. QED
    BY <2>1, <2>2, AgreesDocGrows, WriteEffect
<1>3. CASE tail = "clean" /\ log' = Append(log, e)
  BY <1>3, AgreesBothGrow DEF TypeOK
<1>4. QED
  BY <1>1, <1>2, <1>3, WriteEffect

\* A write nobody learns of (it failed, or its process died): every history
\* stays, except that the dead store's is gone.
LEMMA SilentWriteStep ==
  ASSUME IInv, TypeOK', NEW e \in Event, Fresh(e),
         NEW cut \in {"none", "partial", "noNewline", "whole"}, Write(e, cut),
         UNCHANGED <<snap, acked>>,
         \A h \in Handle : handle'[h] = handle[h] \/ handle'[h] = Closed
  PROVE  IInv'
<1> USE DEF IInv
<1>1. Issued'
  <2>1. UpTo(log', e) /\ issued' = e /\ issued \in Nat /\ issued < e
    BY FreshIsNew, WriteKeepsIssued
  <2>2. ASSUME NEW h \in Handle PROVE UpTo(handle'[h].doc, e)
    <3>1. UpTo(handle[h].doc, e)
      BY <2>1, StoreFields, UpToGrows DEF Issued
    <3>2. UpTo(Closed.doc, e)
      BY DEF Closed, UpTo
    <3>3. QED
      BY <3>1, <3>2
  <2>3. UpTo(snap.doc, e)
    BY <2>1, UpToGrows DEF Issued, TypeOK, Snapshot
  <2>4. \A x \in acked : x <= e
    BY <2>1, StoreAssumption DEF Issued, TypeOK, Event
  <2>5. QED
    BY <2>1, <2>2, <2>3, <2>4 DEF Issued
<1>2. SnapshotStamped'
  BY DEF SnapshotStamped, LastEventID
<1>3. StampIsLastFolded' /\ ClosedIsEmpty'
  BY DEF StampIsLastFolded, ClosedIsEmpty, Closed, LastEventID
<1>4. HistoriesAgree'
  <2>1. Agrees(snap.doc, log')
    BY FreshIsNew, WriteKeepsAgreement DEF HistoriesAgree, TypeOK, Snapshot
  <2>2. ASSUME NEW h \in Handle PROVE Agrees(handle'[h].doc, log')
    <3>1. CASE handle'[h] = handle[h]
      BY <3>1, StoreFields, FreshIsNew, WriteKeepsAgreement DEF HistoriesAgree
    <3>2. CASE handle'[h] = Closed
      BY <3>2, AgreesTrivially DEF Closed, TypeOK
    <3>3. QED
      BY <3>1, <3>2
  <2>3. QED
    BY <2>1, <2>2 DEF HistoriesAgree
<1>5. NoneAhead'
  <2> SUFFICES ASSUME tail' = "clean", NEW h \in Handle, handle'[h].open
               PROVE  /\ Len(handle'[h].doc) <= Len(log')
                      /\ Len(handle'[h].doc) = Len(log') => handle'[h].doc = log'
    BY DEF NoneAhead
  <2>1. handle'[h] = handle[h] /\ tail = "clean"
    BY WriteEffect DEF Closed
  <2>2. /\ handle[h].doc \in Seq(Event) /\ Len(handle[h].doc) <= Len(log)
        /\ Len(handle[h].doc) = Len(log) => handle[h].doc = log
    BY <2>1, StoreFields DEF NoneAhead
  <2>3. log' = log \/ log' = Append(log, e)
    BY <2>1, WriteEffect
  <2>4. QED
    BY <2>1, <2>2, <2>3 DEF TypeOK
<1>6. UnterminatedIsUnacked'
  BY FreshIsNew, WriteEffect DEF Write, UnterminatedIsUnacked, TypeOK
<1>7. QED
  BY <1>1, <1>2, <1>3, <1>4, <1>5, <1>6

\* An Append that succeeds (or the notebook_created of a new log).
LEMMA PublishStep ==
  ASSUME IInv, TypeOK', NEW e \in Event, Fresh(e), Write(e, "whole"),
         NEW h \in Handle, NEW doc \in Seq(Event), NEW n \in Nat,
         Publish(h, doc, n, e),
         Agrees(doc, log), UpTo(doc, issued),
         tail = "clean" => Len(doc) <= Len(log) /\ (Len(doc) = Len(log) => doc = log)
  PROVE  IInv'
<1> USE DEF IInv
<1> DEFINE new == Append(doc, e)
<1>0. /\ issued' = e /\ issued \in Nat /\ e \in Nat /\ issued < e
      /\ \A i \in 1..Len(doc) : doc[i] # e
  <2>1. issued' = e /\ issued \in Nat /\ e \in Nat /\ issued < e
    BY FreshIsNew, StoreAssumption DEF Event
  <2>2. QED
    BY <2>1 DEF UpTo
<1>1. /\ new \in Seq(Event) /\ Len(new) = Len(doc) + 1 /\ new[Len(new)] = e
      /\ new # <<>> /\ LastEventID(new) = e
  <2>1. new \in Seq(Event) /\ Len(new) = Len(doc) + 1 /\ new[Len(new)] = e
    OBVIOUS
  <2>2. new # <<>>
    BY <2>1
  <2>3. QED
    BY <2>1, <2>2 DEF LastEventID
<1>2. /\ handle'[h].doc = new /\ handle'[h].open /\ handle'[h].lastID = e
      /\ \A g \in Handle : g # h => handle'[g] = handle[g]
      /\ \/ snap' = snap
         \/ snap'.doc = new /\ snap'.version = Len(new) /\ snap'.lastID = e
  BY DEF Publish, Opened, SnapshotOf, TypeOK
<1>3. Agrees(new, log')
  BY FreshIsNew, <1>0, WriteExtendsAgreement
<1>4. Issued'
  <2>1. UpTo(log', e)
    BY WriteKeepsIssued
  <2>2. UpTo(new, e)
    BY <1>0, UpToGrows
  <2>3. ASSUME NEW g \in Handle, g # h
        PROVE  UpTo(handle'[g].doc, e)
    <3>1. UpTo(handle[g].doc, e)
      BY <1>0, StoreFields, UpToGrows DEF Issued
    <3>2. QED
      BY <1>2, <2>3, <3>1
  <2>4. UpTo(snap'.doc, e)
    <3>1. UpTo(snap.doc, e)
      BY <1>0, UpToGrows DEF Issued, TypeOK, Snapshot
    <3>2. QED
      BY <1>2, <2>2, <3>1
  <2>5. \A x \in acked' : x <= e
    BY <1>0, StoreAssumption DEF Issued, Publish, TypeOK, Event
  <2>6. QED
    BY <1>0, <2>1, <2>2, <2>3, <2>4, <2>5, <1>2 DEF Issued
<1>5. SnapshotStamped' /\ StampIsLastFolded' /\ ClosedIsEmpty'
  BY <1>1, <1>2 DEF SnapshotStamped, StampIsLastFolded, ClosedIsEmpty, LastEventID
<1>6. HistoriesAgree'
  <2>1. Agrees(snap.doc, log')
    BY FreshIsNew, WriteKeepsAgreement DEF HistoriesAgree, TypeOK, Snapshot
  <2>2. \A g \in Handle : Agrees(handle[g].doc, log')
    BY FreshIsNew, WriteKeepsAgreement, StoreFields DEF HistoriesAgree
  <2>3. QED
    BY <2>1, <2>2, <1>2, <1>3 DEF HistoriesAgree
<1>7. NoneAhead'
  <2> SUFFICES ASSUME tail' = "clean", NEW g \in Handle, handle'[g].open
               PROVE  /\ Len(handle'[g].doc) <= Len(log')
                      /\ Len(handle'[g].doc) = Len(log') => handle'[g].doc = log'
    BY DEF NoneAhead
  <2>1. tail = "clean" /\ log' = Append(log, e)
    BY DEF Write
  <2>2. CASE g = h
    BY <2>1, <2>2, <1>1, <1>2 DEF TypeOK
  <2>3. CASE g # h
    <3>1. handle'[g] = handle[g] /\ Len(handle[g].doc) <= Len(log)
      BY <2>1, <2>3, <1>2 DEF NoneAhead
    <3>2. QED
      BY <2>1, <3>1, StoreFields DEF TypeOK
  <2>4. QED
    BY <2>2, <2>3
<1>8. UnterminatedIsUnacked'
  BY WriteEffect DEF Write, UnterminatedIsUnacked, TypeOK
<1>9. QED
  BY <1>4, <1>5, <1>6, <1>7, <1>8

\* Steps that leave the log alone and open or close one store.
LEMMA QuietStep ==
  ASSUME IInv, TypeOK', UNCHANGED <<log, tail, issued, acked>>,
         SnapshotStamped', UpTo(snap'.doc, issued), Agrees(snap'.doc, log),
         \A h \in Handle :
           \/ handle'[h] = handle[h]
           \/ handle'[h] = Closed
           \/ handle'[h] = Opened(log, LastEventID(log), 0)
  PROVE  IInv'
<1> USE DEF IInv
<1>0. log \in Seq(Event)
  BY DEF TypeOK
<1>1. \A h \in Handle : UpTo(handle'[h].doc, issued)
  BY DEF Issued, Closed, Opened, UpTo
<1>2. Issued'
  BY <1>1 DEF Issued
<1>3. StampIsLastFolded' /\ ClosedIsEmpty'
  BY DEF StampIsLastFolded, ClosedIsEmpty, Closed, Opened, LastEventID
<1>4. ASSUME NEW h \in Handle PROVE Agrees(handle'[h].doc, log)
  <2>1. Agrees(handle[h].doc, log)
    BY DEF HistoriesAgree
  <2>2. Agrees(<<>>, log) /\ Agrees(log, log)
    BY <1>0, AgreesTrivially
  <2>3. QED
    BY <2>1, <2>2 DEF Closed, Opened
<1>5. HistoriesAgree'
  BY <1>4 DEF HistoriesAgree
<1>6. NoneAhead'
  BY <1>0 DEF NoneAhead, Closed, Opened
<1>7. UnterminatedIsUnacked'
  BY DEF UnterminatedIsUnacked
<1>8. QED
  BY <1>2, <1>3, <1>5, <1>6, <1>7

\* The strengthened invariant at first.
LEMMA InitIInv == Init => IInv
<1> SUFFICES ASSUME Init PROVE IInv
  OBVIOUS
<1>1. TypeOK
  BY InitTypeOK
<1>2. log = <<>> /\ Len(log) = 0 /\ snap.doc = <<>> /\ \A h \in Handle : handle[h] = Closed
  BY DEF Init, NoSnapshot
<1>3. Agrees(<<>>, log)
  BY <1>2, AgreesTrivially, EmptySeq
<1>4. Issued
  BY <1>2 DEF Issued, UpTo, Init, Closed
<1>5. QED
  BY <1>1, <1>2, <1>3, <1>4
  DEF IInv, Init, SnapshotStamped, StampIsLastFolded, HistoriesAgree, NoneAhead,
      UnterminatedIsUnacked, ClosedIsEmpty, Closed, NoSnapshot, LastEventID

\* ... and in every step: one case per action.
LEMMA IInvStep == IInv /\ [Next]_vars => IInv'
<1> SUFFICES ASSUME IInv, [Next]_vars PROVE IInv'
  OBVIOUS
<1>t. TypeOK /\ TypeOK'
  BY TypeStep DEF IInv
<1>a. log \in Seq(Event) /\ Agrees(snap.doc, log) /\ SnapshotStamped /\ UpTo(snap.doc, issued)
  BY DEF IInv, TypeOK, HistoriesAgree, Issued
<1>c. Cuts \subseteq {"partial", "noNewline"}
  BY StoreAssumption
<1>1. ASSUME NEW h \in Handle, Open(h) PROVE IInv'
  <2>1. \A g \in Handle :
          handle'[g] = handle[g] \/ handle'[g] = Opened(log, LastEventID(log), 0)
    BY <1>1, <1>t, <1>a, LoadedIsLog DEF Open, TypeOK
  <2>2. UNCHANGED <<log, tail, snap, issued, acked>>
    BY <1>1 DEF Open
  <2>3. SnapshotStamped' /\ UpTo(snap'.doc, issued) /\ Agrees(snap'.doc, log)
    BY <1>a, <2>2 DEF SnapshotStamped
  <2>4. QED
    BY <1>t, <2>1, <2>2, <2>3, QuietStep
<1>2. ASSUME NEW h \in Handle, Create(h) PROVE IInv'
  <2>1. PICK e \in Event : Fresh(e) /\ Write(e, "whole") /\ Publish(h, <<>>, 0, e)
    BY <1>2 DEF Create
  <2>2. /\ <<>> \in Seq(Event) /\ 0 \in Nat /\ Agrees(<<>>, log) /\ UpTo(<<>>, issued)
        /\ handle[h].doc = <<>>
    BY <1>a, <1>2, AgreesTrivially, EmptySeq DEF UpTo, Create, IInv, ClosedIsEmpty
  <2>3. Len(<<>>) <= Len(log) /\ (Len(<<>>) = Len(log) => <<>> = log)
    BY <1>a, EmptySeq
  <2>4. QED
    BY <1>t, <2>1, <2>2, <2>3, PublishStep
<1>3. ASSUME NEW h \in Handle, AppendEvent(h) PROVE IInv'
  <2> DEFINE d == handle[h].doc
             n == handle[h].since
  <2>1. PICK e \in Event : Fresh(e) /\ Write(e, "whole") /\ Publish(h, d, n, e)
    BY <1>3 DEF AppendEvent
  <2>2. d \in Seq(Event) /\ n \in Nat
    BY <1>t, StoreFields
  <2>3. Agrees(d, log) /\ UpTo(d, issued)
    BY DEF IInv, HistoriesAgree, Issued
  <2>4. tail = "clean" => Len(d) <= Len(log) /\ (Len(d) = Len(log) => d = log)
    BY <1>3 DEF AppendEvent, IInv, NoneAhead
  <2> HIDE DEF d, n
  <2>5. QED
    BY <1>t, <2>1, <2>2, <2>3, <2>4, PublishStep
<1>4. ASSUME NEW h \in Handle, NEW cut \in {"none"} \cup Cuts, CreateFails(h, cut)
      PROVE  IInv'
  <2>1. PICK e \in Event : Fresh(e) /\ Write(e, cut)
    BY <1>4 DEF CreateFails
  <2>2. QED
    BY <1>t, <1>c, <1>4, <2>1, SilentWriteStep DEF CreateFails
<1>5. ASSUME NEW h \in Handle, NEW cut \in {"none"} \cup Cuts, AppendFails(h, cut)
      PROVE  IInv'
  <2>1. PICK e \in Event : Fresh(e) /\ Write(e, cut)
    BY <1>5 DEF AppendFails
  <2>2. QED
    BY <1>t, <1>c, <1>5, <2>1, SilentWriteStep DEF AppendFails
<1>6. ASSUME NEW h \in Handle, NEW cut \in {"none", "whole"} \cup Cuts, Crash(h, cut)
      PROVE  IInv'
  <2>1. /\ UNCHANGED <<snap, acked>>
        /\ \A g \in Handle : handle'[g] = handle[g] \/ handle'[g] = Closed
    BY <1>6, <1>t DEF Crash, TypeOK
  <2>2. CASE UNCHANGED <<log, tail, issued>>
    <3>1. SnapshotStamped' /\ UpTo(snap'.doc, issued) /\ Agrees(snap'.doc, log)
      BY <1>a, <2>1 DEF SnapshotStamped
    <3>2. QED
      BY <1>t, <2>1, <2>2, <3>1, QuietStep
  <2>3. CASE \E e \in Event : Fresh(e) /\ Write(e, cut)
    BY <1>t, <1>c, <2>1, <2>3, SilentWriteStep
  <2>4. QED
    BY <1>6, <2>2, <2>3 DEF Crash
<1>7. ASSUME NEW h \in Handle, Close(h) PROVE IInv'
  <2>1. /\ UNCHANGED <<log, tail, issued, acked>>
        /\ \A g \in Handle : handle'[g] = handle[g] \/ handle'[g] = Closed
    BY <1>7, <1>t DEF Close, TypeOK
  <2>2. handle[h].open /\ handle[h].lastID = LastEventID(handle[h].doc)
    BY <1>7 DEF Close, IInv, StampIsLastFolded
  <2>3. Agrees(handle[h].doc, log) /\ UpTo(handle[h].doc, issued)
    BY DEF IInv, HistoriesAgree, Issued
  <2>4. SnapshotStamped' /\ UpTo(snap'.doc, issued) /\ Agrees(snap'.doc, log)
    BY <1>7, <1>a, <2>2, <2>3 DEF Close, SnapshotOf, SnapshotStamped
  <2>5. QED
    BY <1>t, <2>1, <2>4, QuietStep
<1>8. ASSUME NEW n \in 0..Len(log), RestoreBackup(n) PROVE IInv'
  <2>1. /\ log' = SubSeq(log, 1, n) /\ tail' = "clean" /\ UNCHANGED <<snap, handle, issued>>
        /\ \A h \in Handle : ~handle[h].open /\ handle[h].doc = <<>>
        /\ acked' \subseteq acked
    BY <1>8 DEF RestoreBackup, IInv, ClosedIsEmpty
  <2>2. UpTo(log', issued) /\ log' \in Seq(Event)
    BY <1>a, <1>t, <2>1 DEF IInv, Issued, UpTo, TypeOK
  <2>3. Agrees(snap.doc, log')
    BY <1>a, <1>t, <2>1, AgreesPrefix DEF TypeOK, Snapshot
  <2>4. Agrees(<<>>, log')
    BY <2>2, AgreesTrivially
  <2>5. Issued' /\ HistoriesAgree'
    BY <2>1, <2>2, <2>3, <2>4 DEF IInv, Issued, HistoriesAgree
  <2>6. QED
    BY <1>t, <2>1, <2>5
    DEF IInv, SnapshotStamped, StampIsLastFolded, NoneAhead, UnterminatedIsUnacked,
        ClosedIsEmpty
<1>9. CASE DeleteSnapshot
  <2>1. UNCHANGED <<log, tail, handle, issued, acked>> /\ snap' = NoSnapshot
    BY <1>9 DEF DeleteSnapshot
  <2>2. SnapshotStamped' /\ UpTo(snap'.doc, issued) /\ Agrees(snap'.doc, log)
    BY <1>a, <2>1, AgreesTrivially DEF NoSnapshot, SnapshotStamped, LastEventID, UpTo
  <2>3. QED
    BY <1>t, <2>1, <2>2, QuietStep
<1>10. CASE UNCHANGED vars
  BY <1>10, <1>a, <1>t, QuietStep DEF vars, SnapshotStamped
<1>11. QED
  BY <1>1, <1>2, <1>3, <1>4, <1>5, <1>6, <1>7, <1>8, <1>9, <1>10 DEF Next

\* ... and so always.
LEMMA IInvAlways == Spec => []IInv
<1>1. QED
  BY InitIInv, IInvStep, PTL DEF Spec

------------------------------------------------------------------------------
\* The properties.

\* Whatever snapshot lies beside the log, opening the notebook serves the fold
\* of the log (openNotebookStore, load and snapshotMatchesLog).
THEOREM OpenServesTheLog == Spec => []LoadIsFoldOfLog
<1>1. IInv => LoadIsFoldOfLog
  BY LoadedIsLog DEF IInv, HistoriesAgree, LoadIsFoldOfLog
<1>2. QED
  BY <1>1, IInvAlways, PTL

\* The id docAndLastEvent pairs with a document is the last one it folded.
THEOREM StampsAreExact == Spec => []StampIsLastFolded
<1>1. IInv => StampIsLastFolded
  BY DEF IInv
<1>2. QED
  BY <1>1, IInvAlways, PTL

\* No step of the program makes an acknowledged event it could read unreadable
\* (Append, openNotebookStore, Close, and a crash in any of them).
THEOREM NothingReadableIsLost == Spec => ReadableStaysReadable
<1> DEFINE A == \A e \in acked \cap acked' :
       (\E i \in DOMAIN log : log[i] = e) => \E i \in DOMAIN log' : log'[i] = e
<1>1. IInv /\ [Next]_vars => [A]_vars
  <2> SUFFICES ASSUME IInv, Next, NEW x \in acked \cap acked',
                      NEW i \in DOMAIN log, log[i] = x
               PROVE  \E j \in DOMAIN log' : log'[j] = x
    OBVIOUS
  <2>0. log \in Seq(Event) /\ i \in 1..Len(log)
    BY DEF IInv, TypeOK
  <2>1. CASE log' = log
    BY <2>1
  <2>2. CASE \E n \in 0..Len(log) : RestoreBackup(n)
    <3>1. PICK n \in 0..Len(log) : RestoreBackup(n)
      BY <2>2
    <3>2. PICK j \in 1..n : log[j] = x
      BY <3>1 DEF RestoreBackup
    <3>3. j \in DOMAIN log' /\ log'[j] = x
      BY <2>0, <3>1, <3>2 DEF RestoreBackup
    <3>4. QED
      BY <3>3
  <2>3. CASE \E e \in Event : \E cut : Write(e, cut)
    <3>0. PICK e \in Event : \E cut : Write(e, cut)
      BY <2>3
    <3>1. PICK cut : Write(e, cut)
      BY <3>0
    <3>2. CASE tail = "unterminated" /\ log' = SubSeq(log, 1, Len(log) - 1)
      <4>1. i # Len(log)
        BY <3>2 DEF IInv, UnterminatedIsUnacked
      <4>2. i \in DOMAIN log' /\ log'[i] = x
        BY <2>0, <3>2, <4>1
      <4>3. QED
        BY <4>2
    <3>3. CASE log' = Append(log, e)
      <4>1. i \in DOMAIN log' /\ log'[i] = x
        BY <2>0, <3>3
      <4>2. QED
        BY <4>1
    <3>4. QED
      BY <2>1, <3>1, <3>2, <3>3, WriteEffect DEF IInv
  <2>4. log' = log \/ (\E n \in 0..Len(log) : RestoreBackup(n))
          \/ (\E e \in Event : \E cut : Write(e, cut))
    BY DEF Next, Open, Create, AppendEvent, Close, CreateFails, AppendFails, Crash,
           DeleteSnapshot
  <2>5. QED
    BY <2>1, <2>2, <2>3, <2>4
<1>2. QED
  BY <1>1, IInvAlways, PTL DEF Spec, ReadableStaysReadable

------------------------------------------------------------------------------
\* Undisturbed writes: a write happens whole or not at all (Cuts = {}).

WritesAreWhole == tail = "clean" /\ AckedIsReadable

\* With nothing torn, a write appends its event or leaves no trace.
LEMMA WholeWrite ==
  ASSUME tail = "clean", NEW e, NEW cut \in {"none", "whole"}, Write(e, cut)
  PROVE  /\ tail' = "clean"
         /\ cut = "none" => log' = log
         /\ cut = "whole" => log' = Append(log, e)
  BY DEF Write

\* An entry of the log stays readable when the log grows.
LEMMA StillReadable ==
  ASSUME NEW l \in Seq(Event), NEW e \in Event, NEW x, \E i \in DOMAIN l : l[i] = x
  PROVE  \E i \in DOMAIN Append(l, e) : Append(l, e)[i] = x
<1>1. PICK i \in 1..Len(l) : l[i] = x
  OBVIOUS
<1>2. i \in DOMAIN Append(l, e) /\ Append(l, e)[i] = x
  BY <1>1
<1>3. QED
  BY <1>2

\* What Append has just written is in the log.
LEMMA NewestReadable ==
  ASSUME NEW l \in Seq(Event), NEW e \in Event
  PROVE  \E i \in DOMAIN Append(l, e) : Append(l, e)[i] = e
<1>1. Len(l) + 1 \in DOMAIN Append(l, e) /\ Append(l, e)[Len(l) + 1] = e
  OBVIOUS
<1>2. QED
  BY <1>1

\* With undisturbed writes the tail is clean and what is acknowledged is in the log.
LEMMA WholeStep ==
  ASSUME Cuts = {}, IInv, WritesAreWhole, [Next]_vars
  PROVE  WritesAreWhole'
<1>0. log \in Seq(Event) /\ tail = "clean"
  BY DEF IInv, TypeOK, WritesAreWhole
<1>1. ASSUME NEW e \in Event, NEW cut \in {"none", "whole"}, Write(e, cut), acked' = acked
      PROVE  WritesAreWhole'
  <2>1. tail' = "clean" /\ (log' = log \/ log' = Append(log, e))
    BY <1>0, <1>1, WholeWrite
  <2>2. QED
    BY <1>0, <1>1, <2>1, StillReadable DEF WritesAreWhole, AckedIsReadable
<1>2. ASSUME NEW e \in Event, Write(e, "whole"), acked' = acked \cup {e}
      PROVE  WritesAreWhole'
  <2>1. tail' = "clean" /\ log' = Append(log, e)
    BY <1>0, <1>2, WholeWrite
  <2>2. \A x \in acked : \E i \in DOMAIN log' : log'[i] = x
    BY <1>0, <2>1, StillReadable DEF WritesAreWhole, AckedIsReadable
  <2>3. \E i \in DOMAIN log' : log'[i] = e
    BY <1>0, <2>1, NewestReadable
  <2>4. QED
    BY <1>2, <2>1, <2>2, <2>3 DEF WritesAreWhole, AckedIsReadable
<1>3. CASE UNCHANGED <<log, tail, acked>>
  BY <1>3 DEF WritesAreWhole, AckedIsReadable
<1>4. ASSUME NEW n \in 0..Len(log), RestoreBackup(n)
      PROVE  WritesAreWhole'
  <2>1. log' = SubSeq(log, 1, n) /\ tail' = "clean" /\ n \in Nat /\ n <= Len(log)
    BY <1>0, <1>4 DEF RestoreBackup
  <2>2. ASSUME NEW x \in acked' PROVE \E i \in DOMAIN log' : log'[i] = x
    <3>1. PICK i \in 1..n : log[i] = x
      BY <1>4, <2>2 DEF RestoreBackup
    <3>2. i \in DOMAIN log' /\ log'[i] = x
      BY <1>0, <2>1, <3>1
    <3>3. QED
      BY <3>2
  <2>3. QED
    BY <2>1, <2>2 DEF WritesAreWhole, AckedIsReadable
<1>5. \/ UNCHANGED <<log, tail, acked>>
      \/ \E n \in 0..Len(log) : RestoreBackup(n)
      \/ \E e \in Event : Write(e, "whole") /\ acked' = acked \cup {e}
      \/ \E e \in Event, cut \in {"none", "whole"} : Write(e, cut) /\ acked' = acked
  BY DEF Next, vars, Open, Create, AppendEvent, Close, CreateFails, AppendFails, Crash,
         DeleteSnapshot, Publish
<1>6. QED
  BY <1>1, <1>2, <1>3, <1>4, <1>5

\* If no write is ever cut short, an acknowledged event is readable for good, in
\* any number of processes (Append writes before it publishes).
THEOREM AckedIsDurable ==
  ASSUME Cuts = {}
  PROVE  Spec => []AckedIsReadable
<1>1. Init => WritesAreWhole
  BY DEF Init, WritesAreWhole, AckedIsReadable
<1>2. IInv /\ WritesAreWhole /\ [Next]_vars => WritesAreWhole'
  BY WholeStep
<1>3. WritesAreWhole => AckedIsReadable
  BY DEF WritesAreWhole
<1>4. QED
  BY <1>1, <1>2, <1>3, IInvAlways, PTL DEF Spec

------------------------------------------------------------------------------
\* One store: the abstract log is implemented.

Solo ==
  /\ WritesAreWhole /\ ServesTheLog
  /\ ~exists => log = <<>> /\ \A h \in Handle : ~handle[h].open

\* Every step of the only store keeps Solo, and is a step of the abstract log.
LEMMA SoloStep ==
  ASSUME Cuts = {}, NEW h, Handle = {h}, IInv, Solo, [Next]_vars
  PROVE  Solo' /\ [EL!Next]_(EL!vars)
<1> DEFINE S == handle[h]
           S1 == handle'[h]
<1>h. TheStore = h
  BY DEF TheStore
<1>0. /\ log \in Seq(Event) /\ tail = "clean" /\ WritesAreWhole'
      /\ S.open => S.doc = log
      /\ ~S.open => S.doc = <<>>
  BY WholeStep DEF IInv, TypeOK, Solo, WritesAreWhole, ServesTheLog, ClosedIsEmpty
<1>f. ASSUME NEW e \in Event, Fresh(e) PROVE EL!IsNew(e)
  <2>1. \A i \in 1..Len(log) : log[i] # e
    BY <1>f, FreshIsNew DEF IInv
  <2>2. e \notin acked
    BY <1>f, FreshIsNew DEF IInv
  <2>3. QED
    BY <1>0, <2>1, <2>2 DEF EL!IsNew
<1>r. \A d \in Seq(Event) : \A id, n :
        /\ Opened(d, id, n).open = TRUE /\ Opened(d, id, n).doc = d
        /\ Closed.open = FALSE /\ Closed.doc = <<>>
  BY DEF Opened, Closed
<1>1. CASE Open(h)
  <2>1. /\ S1.open = TRUE /\ S1.doc = log /\ ~S.open /\ exists
        /\ UNCHANGED <<exists, log, acked>>
    BY <1>0, <1>1, <1>r, LoadedIsLog DEF Open, IInv, TypeOK, HistoriesAgree
  <2>2. S.open = FALSE
    BY <2>1 DEF IInv, TypeOK, StoreState
  <2>3. Solo'
    BY <1>0, <2>1 DEF Solo, ServesTheLog
  <2>4. EL!Start
    BY <1>h, <2>1, <2>2 DEF EL!Start
  <2>5. QED
    BY <2>3, <2>4 DEF EL!Next
<1>2. CASE Create(h) \/ AppendEvent(h)
  <2>1. PICK e \in Event :
          /\ Fresh(e) /\ Write(e, "whole") /\ acked' = acked \cup {e}
          /\ S1.open = TRUE /\ S1.doc = Append(log, e) /\ exists'
          /\ S.open \/ log = <<>>
    <3>1. PICK n \in Nat, e \in Event :
            /\ Fresh(e) /\ Write(e, "whole") /\ Publish(h, S.doc, n, e)
            /\ exists' /\ (S.open \/ log = <<>>) /\ S.doc = log
      <4>1. CASE Create(h)
        <5>1. S.doc = <<>> /\ log = <<>>
          BY <4>1, <1>0 DEF Create, Solo
        <5>2. QED
          BY <4>1, <5>1 DEF Create
      <4>2. CASE AppendEvent(h)
        <5>1. S.open /\ S.doc = log /\ exists' /\ S.since \in Nat
          BY <4>2, <1>0, StoreFields DEF AppendEvent, Solo, IInv
        <5>2. QED
          BY <4>2, <5>1 DEF AppendEvent
      <4>3. QED
        BY <1>2, <4>1, <4>2
    <3>2. S1.open = TRUE /\ S1.doc = Append(log, e) /\ acked' = acked \cup {e}
      <4>1. PICK k : S1 = Opened(Append(log, e), e, k)
        BY <3>1 DEF Publish, IInv, TypeOK
      <4>2. S1.open = TRUE /\ S1.doc = Append(log, e)
        BY <4>1 DEF Opened
      <4>3. acked' = acked \cup {e}
        BY <3>1 DEF Publish
      <4>4. QED
        BY <4>2, <4>3
    <3>3. QED
      BY <3>1, <3>2
  <2>2. log' = Append(log, e)
    BY <1>0, <2>1, WholeWrite
  <2>3. Solo'
    BY <1>0, <2>1, <2>2 DEF Solo, ServesTheLog
  <2>4. EL!Record(e)
    BY <1>h, <1>f, <2>1, <2>2 DEF EL!Record
  <2>5. QED
    BY <2>3, <2>4 DEF EL!Next
<1>3. ASSUME NEW cut \in {"none"}, CreateFails(h, cut) \/ AppendFails(h, cut)
      PROVE  Solo' /\ UNCHANGED EL!vars
  <2>1. PICK e \in Event : Write(e, "none")
    BY <1>3 DEF CreateFails, AppendFails
  <2>2. log' = log /\ UNCHANGED <<handle, acked>> /\ (exists' = exists \/ exists' = TRUE)
    BY <1>0, <1>3, <2>1, WholeWrite DEF CreateFails, AppendFails
  <2>3. QED
    BY <1>0, <2>2 DEF Solo, ServesTheLog, EL!vars
<1>4. ASSUME NEW cut \in {"none", "whole"}, Crash(h, cut)
      PROVE  Solo' /\ EL!Stop
  <2>1. /\ S.open = TRUE /\ exists /\ UNCHANGED <<exists, acked>>
        /\ S1.open = FALSE /\ S1.doc = <<>>
    BY <1>4, <1>r DEF Crash, IInv, TypeOK, StoreState, Solo
  <2>2. \/ log' = log
        \/ \E e \in Event : EL!IsNew(e) /\ log' = Append(log, e)
    BY <1>0, <1>4, <1>f, WholeWrite DEF Crash
  <2>3. Solo'
    BY <1>0, <2>1 DEF Solo, ServesTheLog
  <2>4. EL!Stop
    BY <1>h, <2>1, <2>2 DEF EL!Stop
  <2>5. QED
    BY <2>3, <2>4
<1>5. CASE Close(h)
  <2>1. /\ S.open = TRUE /\ exists /\ UNCHANGED <<exists, log, acked>>
        /\ S1.open = FALSE /\ S1.doc = <<>>
    BY <1>5, <1>r DEF Close, IInv, TypeOK, StoreState, Solo
  <2>2. Solo'
    BY <1>0, <2>1 DEF Solo, ServesTheLog
  <2>3. EL!Stop
    BY <1>h, <2>1 DEF EL!Stop
  <2>4. QED
    BY <2>2, <2>3 DEF EL!Next
<1>6. ASSUME NEW n \in 0..Len(log), RestoreBackup(n)
      PROVE  Solo' /\ EL!Rewind(n)
  <2>1. S.open = FALSE /\ handle' = handle /\ exists /\ exists' = exists
    BY <1>6 DEF RestoreBackup, IInv, TypeOK, StoreState
  <2>2. Solo'
    BY <1>0, <2>1 DEF Solo, ServesTheLog
  <2>3. EL!Rewind(n)
    BY <1>h, <1>6, <2>1 DEF EL!Rewind, RestoreBackup
  <2>4. QED
    BY <2>2, <2>3
<1>7. CASE DeleteSnapshot \/ UNCHANGED vars
  BY <1>0, <1>7 DEF DeleteSnapshot, vars, Solo, ServesTheLog, EL!vars
<1>8. QED
  BY <1>1, <1>2, <1>3, <1>4, <1>5, <1>6, <1>7 DEF Next, EL!Next

\* With one store and undisturbed writes, an open notebook always serves the
\* fold of its log (load, Append and Close together).
THEOREM TheStoreServesTheLog ==
  ASSUME Cuts = {}, NEW h, Handle = {h}
  PROVE  Spec => []ServesTheLog
<1>1. Init => Solo
  BY DEF Init, Solo, WritesAreWhole, AckedIsReadable, ServesTheLog, Closed
<1>2. IInv /\ Solo /\ [Next]_vars => Solo'
  BY SoloStep
<1>3. Solo => ServesTheLog
  BY DEF Solo
<1>4. QED
  BY <1>1, <1>2, <1>3, IInvAlways, PTL DEF Spec

\* ... and the store, its snapshots and its restarts are, from outside, the
\* abstract log: snapshots are a cache that cannot be observed.
THEOREM StoreImplementsEventLog ==
  ASSUME Cuts = {}, NEW h, Handle = {h}
  PROVE  Spec => ImplementsEventLog
<1>1. Init => Solo /\ EL!Init
  <2>1. ASSUME Init PROVE EL!Init
    <3>1. TheStore \in Handle
      BY DEF TheStore
    <3>2. QED
      BY <2>1, <3>1 DEF Init, EL!Init, Closed
  <2>2. ASSUME Init PROVE Solo
    BY <2>2 DEF Init, Solo, WritesAreWhole, AckedIsReadable, ServesTheLog, Closed
  <2>3. QED
    BY <2>1, <2>2
<1>2. IInv /\ Solo /\ [Next]_vars => Solo' /\ [EL!Next]_(EL!vars)
  BY SoloStep
<1>3. QED
  BY <1>1, <1>2, IInvAlways, PTL DEF Spec, ImplementsEventLog, EL!Spec

==============================================================================
