------------------------------ MODULE SearchIndex ------------------------------
(***************************************************************************)
(* nb_search.go: the search index of a notebook, kept in memory and beside *)
(* the log, which a query believes only when it carries the size of the    *)
(* log and the id of its last event; composed with the registry, whose     *)
(* stores write that log and whose DELETE removes it.                      *)
(*                                                                         *)
(* An index is the document it was built from and its stamp.  A line is    *)
(* one byte long.  Which rows an index gives for a query is SearchQuery's. *)
(***************************************************************************)
EXTENDS NotebookRegistry

CONSTANTS
  Query,    \* queries that may be served at a time
  MaxAsks   \* bound: queries

VARIABLES
  cache,   \* searchCache
  file,    \* slug.index.json
  query,   \* searchIndexFor of each query: where it is, what it has read
  asks     \* queries so far

vars == <<reg, cache, file, query, asks>>

NoIndex == [doc |-> <<>>, size |-> 0, last |-> None]
NoStamp == [size |-> 0, last |-> None]
NoQuery == [pc |-> "idle", cur |-> NoStamp, ix |-> NoIndex, asked |-> <<>>, crossed |-> FALSE]

Init ==
  /\ InitRegistry
  /\ cache = NoIndex /\ file = NoIndex
  /\ query = [q \in Query |-> NoQuery]
  /\ asks = 0

\* readLogStamp
Stamp == [size |-> Len(files[linked]), last |-> Final(files[linked])]

\* Mutant: the size is proof enough.
matchesLog_SizeOnly(ix, cur) == ix.last # None /\ cur.last # None /\ ix.size = cur.size

matchesLog(ix, cur) ==
  /\ ix.last # None /\ cur.last # None
  /\ ix.last = cur.last /\ ix.size = cur.size

\* The stamp of an index: the size before the document was read, and the last
\* event the document has.
StampOf(stamp, last) == [size |-> stamp.size, last |-> IF last = None THEN stamp.last ELSE last]

Deleting == \E d \in Deleter : deleting[d].pc # "idle"

\* searchNotebooks finds the log, searchIndexFor stamps it.
Ask(q) ==
  /\ query[q].pc = "idle" /\ asks < MaxAsks
  /\ linked # None
  /\ query' = [query EXCEPT ![q] = [NoQuery EXCEPT !.pc = "stamped", !.cur = Stamp,
                                      !.asked = files[linked], !.crossed = Deleting]]
  /\ asks' = asks + 1
  /\ UNCHANGED <<reg, cache, file>>

Answered(q, ix) ==
  [query EXCEPT ![q].pc = "answered", ![q].cur = NoStamp, ![q].ix = ix]

FromCache(q) ==
  /\ query[q].pc = "stamped"
  /\ IF matchesLog(cache, query[q].cur)
       THEN query' = Answered(q, cache)
       ELSE query' = [query EXCEPT ![q].pc = "uncached"]
  /\ UNCHANGED <<reg, cache, file, asks>>

FromFile(q) ==
  /\ query[q].pc = "uncached"
  /\ IF matchesLog(file, query[q].cur)
       THEN query' = Answered(q, file) /\ cache' = file
       ELSE query' = [query EXCEPT ![q].pc = "build"] /\ UNCHANGED cache
  /\ UNCHANGED <<reg, file, asks>>

\* notebookForIndex stamps the log again; without a log there is no answer.
StampFirst(q) ==
  /\ query[q].pc = "build"
  /\ IF linked = None
       THEN query' = [query EXCEPT ![q] = NoQuery]
       ELSE query' = [query EXCEPT ![q].pc = "restamped", ![q].cur = Stamp]
  /\ UNCHANGED <<reg, cache, file, asks>>

Built(q, doc, last) ==
  LET s == StampOf(query[q].cur, last)
  IN query' = [query EXCEPT ![q].pc = "built", ![q].cur = NoStamp,
                            ![q].ix = [doc |-> doc, size |-> s.size, last |-> s.last]]

\* docAndLastEvent of the open store.
ReadStore(q) ==
  /\ query[q].pc = "restamped"
  /\ LockFree
  /\ registry # None
  /\ Built(q, store[registry].doc, store[registry].last)
  /\ UNCHANGED <<reg, cache, file, asks>>

\* A probe folds the log, which may be gone by now.  That it takes a snapshot
\* for the fold of a prefix only when it is one is Load's.
ReadLog(q) ==
  /\ query[q].pc = "restamped"
  /\ LockFree
  /\ registry = None
  /\ LET events == IF linked = None THEN <<>> ELSE files[linked]
     IN Built(q, events, Final(events))
  /\ UNCHANGED <<reg, cache, file, asks>>

Save(q) ==
  /\ query[q].pc = "built"
  /\ file' = query[q].ix
  /\ query' = [query EXCEPT ![q].pc = "saved"]
  /\ UNCHANGED <<reg, cache, asks>>

Put(q) ==
  /\ query[q].pc = "saved"
  /\ cache' = query[q].ix
  /\ query' = Answered(q, query[q].ix)
  /\ UNCHANGED <<reg, file, asks>>

Done(q) ==
  /\ query[q].pc = "answered"
  /\ query' = [query EXCEPT ![q] = NoQuery]
  /\ UNCHANGED <<reg, cache, file, asks>>

\* The end of a DELETE: the index file, and forgetSearchIndex.
RemoveIndex(d) ==
  /\ deleting[d].pc = "bare"
  /\ file' = NoIndex
  /\ deleting' = [deleting EXCEPT ![d].pc = "forget"]
  /\ UNCHANGED <<files, linked, snap, store, registry, opening, lines, cache, query, asks>>

Forget(d) ==
  /\ deleting[d].pc = "forget"
  /\ cache' = NoIndex
  /\ deleting' = [deleting EXCEPT ![d].pc = "idle"]
  /\ UNCHANGED <<files, linked, snap, store, registry, opening, lines, file, query, asks>>

Crossed == [q \in Query |-> IF query[q].pc \in {"idle", "answered"} THEN query[q]
                            ELSE [query[q] EXCEPT !.crossed = @ \/ Deleting']]

Next ==
  \/ RegistryStep /\ UNCHANGED <<cache, file, asks>> /\ query' = Crossed
  \/ \E q \in Query :
       \/ Ask(q) \/ FromCache(q) \/ FromFile(q) \/ StampFirst(q)
       \/ ReadStore(q) \/ ReadLog(q) \/ Save(q) \/ Put(q) \/ Done(q)
  \/ \E d \in Deleter : RemoveIndex(d) \/ Forget(d)

Spec == Init /\ [][Next]_vars

------------------------------------------------------------------------------

Indexes == [doc : Seq(1..MaxLines), size : 0..MaxLines, last : 0..MaxLines]

TypeOK ==
  /\ linked \in 0..Len(files)
  /\ registry \in 0..Len(store)
  /\ \A f \in 1..Len(files) : Document(files[f])
  /\ \A i \in 1..Len(store) : Document(store[i].doc) /\ store[i].file \in 1..Len(files)
  /\ Document(snap.doc) /\ Document(opening.doc) /\ Document(opening.read)
  /\ cache \in Indexes /\ file \in Indexes
  /\ \A q \in Query : query[q].ix \in Indexes

\* A search misses nothing that was in the notebook when it was asked, however
\* the writers of the log, other queries and the caches they leave behind
\* interleave, and whatever notebook the slug named before; unless a DELETE of
\* the notebook crosses it (nb_search.go:28-58, :193-203, :278-317).
AnswersAreFresh ==
  \A q \in Query :
    query[q].pc = "answered" /\ ~query[q].crossed =>
      \A j \in 1..Len(query[q].asked) :
        \E k \in 1..Len(query[q].ix.doc) : query[q].ix.doc[k] = query[q].asked[j]
===============================================================================
