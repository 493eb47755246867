------------------------- MODULE NotebookMirrorProofs -------------------------
(***************************************************************************)
(* NotebookMirror, for documents of any length and any number of runs: no  *)
(* cell is in the document twice, a cell shows the outputs of one run, and *)
(* the tab's fold follows the server's.                                    *)
(***************************************************************************)
EXTENDS NotebookMirror, NotebookDocProofs

\* The cells a document can have: of the ids that were inserted, with outputs of
\* one run; a cell some run was started on has had a run.
Recorded(ids, started) ==
  {c \in CellRecord :
     /\ c.id \in ids
     /\ \A k \in DOMAIN c.outs : c.outs[k] \in {NoRun, c.run}
     /\ \A r \in Run : started[r] = c.id => c.run # NoRun}

\* The tab's cell n shows the server's cell d, but for what rt and lt excuse.
Matches(n, d, rt, lt) ==
  /\ n.id = d.id /\ n.src = d.src /\ n.run = d.run
  /\ n.kind = d.kind \/ d.id \in rt
  /\ (n.state = d.state /\ n.outs = d.outs) \/ d.id \in lt

\* The two copies, a server's d and a tab's n.
Good(d, n, ids, started, rt, lt) ==
  /\ d \in Seq(Recorded(ids, started)) /\ n \in Seq(CellRecord)
  /\ Distinct(d)
  /\ Len(n) = Len(d)
  /\ \A i \in 1..Len(d) : Matches(n[i], d[i], rt, lt)

IInv ==
  /\ used \subseteq Cell /\ cellOf \in [Run -> used \cup {NoCell}]
  /\ retyped \subseteq Cell /\ late \subseteq Cell
  /\ Good(doc, client, used, cellOf, retyped, late)

------------------------------------------------------------------------------

\* A cell found in both copies is the same one.
LEMMA Found ==
  ASSUME NEW d, NEW n, NEW ids, NEW started, NEW rt, NEW lt,
         Good(d, n, ids, started, rt, lt), NEW id
  PROVE  /\ IndexOfCell(n, id) = IndexOfCell(d, id)
         /\ Has(n, id) <=> Has(d, id)
         /\ Has(d, id) => /\ CellOf(d, id) \in Recorded(ids, started)
                          /\ CellOf(n, id) \in CellRecord
                          /\ CellOf(d, id).id = id
                          /\ Matches(CellOf(n, id), CellOf(d, id), rt, lt)
<1>1. /\ d \in Seq(Recorded(ids, started)) /\ n \in Seq(CellRecord)
      /\ Len(n) = Len(d) /\ \A i \in 1..Len(d) : n[i].id = d[i].id
  BY DEF Good, Matches
<1>2. IndexOfCell(n, id) = IndexOfCell(d, id) BY <1>1, SamePlaces
<1>3. /\ IndexOfCell(d, id) # 0 => /\ IndexOfCell(d, id) \in 1..Len(d)
                                   /\ d[IndexOfCell(d, id)].id = id
  BY <1>1, IndexFound
<1>4. Has(d, id) => /\ CellOf(d, id) \in Recorded(ids, started)
                    /\ CellOf(n, id) \in CellRecord
                    /\ CellOf(d, id).id = id
                    /\ Matches(CellOf(n, id), CellOf(d, id), rt, lt)
  BY <1>1, <1>2, <1>3 DEF Has, CellOf, Good
<1> QED BY <1>2, <1>4 DEF Has

\* One cell replaced in both copies; whatever changes elsewhere is about it only.
LEMMA UpdateGood ==
  ASSUME NEW d, NEW n, NEW ids, NEW started, NEW rt, NEW lt,
         Good(d, n, ids, started, rt, lt),
         NEW started2, NEW rt2, NEW lt2, NEW id, NEW c, NEW m,
         Has(d, id) => /\ c \in Recorded(ids, started2) /\ m \in CellRecord
                       /\ c.id = id /\ Matches(m, c, rt2, lt2),
         \A x \in Recorded(ids, started) : x.id # id => x \in Recorded(ids, started2),
         \A x \in ids : x # id => (x \in rt => x \in rt2) /\ (x \in lt => x \in lt2)
  PROVE  Good(Update(d, id, c), Update(n, id, m), ids, started2, rt2, lt2)
<1> DEFINE at == IndexOfCell(d, id)
           d2 == Update(d, id, c)
           n2 == Update(n, id, m)
<1>1. /\ d \in Seq(CellRecord) /\ n \in Seq(CellRecord) /\ Len(n) = Len(d)
      /\ \A i \in 1..Len(d) : d[i] \in Recorded(ids, started)
      /\ Len(d) \in Nat
  <2>1. d \in Seq(Recorded(ids, started)) BY DEF Good
  <2>2. Recorded(ids, started) \subseteq CellRecord BY DEF Recorded
  <2> QED BY <2>1, <2>2, SeqMonotonic, ElementOfSeq DEF Good
<1>2. /\ at \in 0..Len(d)
      /\ at # 0 => Has(d, id) /\ d[at].id = id
      /\ \A i \in 1..Len(d) : d[i].id = id => at # 0
  BY <1>1, IndexFound DEF Has
<1>3. IndexOfCell(n, id) = at /\ (Has(n, id) <=> Has(d, id)) BY Found
<1>4. /\ d2 \in Seq(CellRecord) /\ Len(d2) = Len(d)
      /\ \A k \in 1..Len(d) : d2[k] = IF k = at THEN c ELSE d[k]
  <2>1. Has(d, id) => c \in CellRecord BY DEF Recorded
  <2> QED BY <1>1, <2>1, Updated
<1>5. /\ n2 \in Seq(CellRecord) /\ Len(n2) = Len(n)
      /\ \A k \in 1..Len(d) : n2[k] = IF k = at THEN m ELSE n[k]
  <2>1. Has(n, id) => m \in CellRecord BY <1>3
  <2> QED BY <1>1, <1>3, <2>1, Updated
<1> HIDE DEF at, d2, n2
<1>6. ASSUME NEW k \in 1..Len(d), d[k].id = id PROVE k = at
  <2>1. at \in 1..Len(d) /\ d[at].id = id BY <1>1, <1>2, <1>6
  <2> QED BY <1>6, <2>1 DEF Good, Distinct
<1>7. \A k \in 1..Len(d) : d2[k] \in Recorded(ids, started2) /\ d2[k].id = d[k].id
  BY <1>1, <1>2, <1>4, <1>6
<1>8. d2 \in Seq(Recorded(ids, started2)) BY <1>4, <1>7, SeqOfElements
<1>9. ASSUME NEW k \in 1..Len(d) PROVE Matches(n2[k], d2[k], rt2, lt2)
  <2>1. CASE k = at BY <1>2, <1>4, <1>5, <2>1
  <2>2. CASE k # at
    <3>1. Matches(n[k], d[k], rt, lt) BY DEF Good
    <3>2. d[k].id \in ids /\ d[k].id # id BY <1>1, <1>6, <2>2 DEF Recorded
    <3> QED BY <1>4, <1>5, <2>2, <3>1, <3>2 DEF Matches
  <2> QED BY <2>1, <2>2
<1>10. Distinct(d2) BY <1>4, <1>7 DEF Good, Distinct
<1> QED BY <1>1, <1>4, <1>5, <1>8, <1>9, <1>10 DEF Good, d2, n2

\* A cell put in at one place of both copies, of an id they do not have.
LEMMA InsertGood ==
  ASSUME NEW d, NEW n, NEW ids, NEW started, NEW rt, NEW lt,
         Good(d, n, ids, started, rt, lt), NEW i \in 1..(Len(d) + 1),
         NEW ids2, ids \subseteq ids2,
         NEW c \in Recorded(ids2, started), NEW m \in CellRecord, Matches(m, c, rt, lt),
         ~Has(d, c.id)
  PROVE  Good(InsertAt(d, i, c), InsertAt(n, i, m), ids2, started, rt, lt)
<1> DEFINE d2 == InsertAt(d, i, c)
           n2 == InsertAt(n, i, m)
<1>1. /\ d \in Seq(Recorded(ids2, started)) /\ n \in Seq(CellRecord) /\ Len(n) = Len(d)
      /\ Len(d) \in Nat /\ DOMAIN d = 1..Len(d)
  <2>1. d \in Seq(Recorded(ids, started)) BY DEF Good
  <2>2. Recorded(ids, started) \subseteq Recorded(ids2, started) BY DEF Recorded
  <2> QED BY <2>1, <2>2, SeqMonotonic DEF Good
<1>2. \A k \in 1..Len(d) : d[k].id # c.id BY <1>1, IndexFound DEF Has
<1>3. /\ d2 \in Seq(Recorded(ids2, started)) /\ Len(d2) = Len(d) + 1
      /\ \A k \in 1..(Len(d) + 1) :
           d2[k] = IF k < i THEN d[k] ELSE IF k = i THEN c ELSE d[k - 1]
  <2> DEFINE S == Recorded(ids2, started)
  <2>1. d \in Seq(S) /\ i \in 1..(Len(d) + 1) /\ c \in S BY <1>1
  <2> HIDE DEF S
  <2>2. d2 \in Seq(S) /\ WithOne(d2, d, i, c) BY <2>1, InsertedAt
  <2> QED BY <2>2 DEF S, WithOne
<1>4. /\ n2 \in Seq(CellRecord) /\ Len(n2) = Len(d) + 1
      /\ \A k \in 1..(Len(d) + 1) :
           n2[k] = IF k < i THEN n[k] ELSE IF k = i THEN m ELSE n[k - 1]
  <2>1. n \in Seq(CellRecord) /\ i \in 1..(Len(n) + 1) /\ m \in CellRecord BY <1>1
  <2>2. n2 \in Seq(CellRecord) /\ WithOne(n2, n, i, m) BY <2>1, InsertedAt
  <2> QED BY <1>1, <2>2 DEF WithOne
<1> HIDE DEF d2, n2
<1>5. ASSUME NEW k \in 1..(Len(d) + 1) PROVE Matches(n2[k], d2[k], rt, lt)
  <2>0. \A j \in 1..Len(d) : Matches(n[j], d[j], rt, lt) BY DEF Good
  <2>1. CASE k < i
    <3>1. k \in 1..Len(d) BY <1>1, <2>1
    <3>2. d2[k] = d[k] /\ n2[k] = n[k] BY <1>3, <1>4, <2>1
    <3> QED BY <2>0, <3>1, <3>2
  <2>2. CASE k = i
    <3>1. d2[k] = c /\ n2[k] = m BY <1>3, <1>4, <2>2
    <3> QED BY <3>1
  <2>3. CASE k > i
    <3>1. k - 1 \in 1..Len(d) /\ ~(k < i) /\ k # i BY <1>1, <2>3
    <3>2. d2[k] = d[k - 1] /\ n2[k] = n[k - 1] BY <1>3, <1>4, <3>1
    <3> QED BY <2>0, <3>1, <3>2
  <2> QED BY <2>1, <2>2, <2>3
<1>6. ASSUME NEW j \in 1..(Len(d) + 1), NEW k \in 1..(Len(d) + 1), d2[j].id = d2[k].id
      PROVE  j = k
  <2>1. \A a, b \in 1..Len(d) : d[a].id = d[b].id => a = b BY DEF Good, Distinct
  <2> DEFINE old(x) == IF x < i THEN x ELSE x - 1
  <2>2. ASSUME NEW x \in 1..(Len(d) + 1), x # i
        PROVE  old(x) \in 1..Len(d) /\ d2[x] = d[old(x)]
    <3>1. CASE x < i
      <4>1. x \in 1..Len(d) BY <1>1, <3>1
      <4> QED BY <1>3, <3>1, <4>1
    <3>2. CASE ~(x < i)
      <4>1. x - 1 \in 1..Len(d) BY <1>1, <2>2, <3>2
      <4> QED BY <1>3, <2>2, <3>2, <4>1
    <3> QED BY <3>1, <3>2
  <2>3. CASE j = i \/ k = i
    <3>1. d2[i] = c BY <1>3
    <3>2. \A x \in 1..(Len(d) + 1) : x # i => d2[x].id # c.id BY <1>2, <2>2
    <3> QED BY <1>6, <2>3, <3>1, <3>2
  <2>4. CASE j # i /\ k # i
    <3>1. d[old(j)].id = d[old(k)].id /\ old(j) \in 1..Len(d) /\ old(k) \in 1..Len(d)
      BY <1>6, <2>2, <2>4
    <3>2. old(j) = old(k) BY <2>1, <3>1
    <3> QED BY <1>1, <2>4, <3>2
  <2> QED BY <2>3, <2>4
<1> QED BY <1>1, <1>3, <1>4, <1>5, <1>6 DEF Good, Distinct, d2, n2

\* A cell taken out of both copies; it is in neither any more.
LEMMA WithoutGood ==
  ASSUME NEW d, NEW n, NEW ids, NEW started, NEW rt, NEW lt,
         Good(d, n, ids, started, rt, lt), NEW id
  PROVE  /\ Good(Without(d, id), Without(n, id), ids, started, rt, lt)
         /\ ~Has(Without(d, id), id)
<1> DEFINE at == IndexOfCell(d, id)
<1>1. /\ d \in Seq(Recorded(ids, started)) /\ n \in Seq(CellRecord) /\ Len(n) = Len(d)
      /\ Len(d) \in Nat /\ DOMAIN d = 1..Len(d)
  BY DEF Good
<1>2. /\ at \in 0..Len(d)
      /\ at # 0 => d[at].id = id
      /\ Has(d, id) <=> at # 0
  BY <1>1, IndexFound DEF Has
<1>3. IndexOfCell(n, id) = at BY Found
<1>4. CASE at = 0 BY <1>2, <1>3, <1>4 DEF Without, Has
<1>5. CASE at # 0
  <2> DEFINE d2 == RemoveAt(d, at)
             n2 == RemoveAt(n, at)
  <2> HIDE DEF at
  <2>1. at \in 1..Len(d) BY <1>1, <1>2, <1>5
  <2>2. /\ d2 \in Seq(Recorded(ids, started)) /\ Len(d2) = Len(d) - 1
        /\ \A k \in 1..(Len(d) - 1) : d2[k] = IF k < at THEN d[k] ELSE d[k + 1]
    BY <1>1, <2>1, RemovedAt
  <2>3. /\ n2 \in Seq(CellRecord) /\ Len(n2) = Len(d) - 1
        /\ \A k \in 1..(Len(d) - 1) : n2[k] = IF k < at THEN n[k] ELSE n[k + 1]
    BY <1>1, <2>1, RemovedAt
  <2> HIDE DEF d2, n2
  <2> DEFINE old(x) == IF x < at THEN x ELSE x + 1
  <2>4. \A k \in 1..(Len(d) - 1) :
          /\ old(k) \in 1..Len(d) /\ old(k) # at
          /\ d2[k] = d[old(k)] /\ n2[k] = n[old(k)]
    BY <1>1, <2>1, <2>2, <2>3
  <2>5. \A a, b \in 1..Len(d) : d[a].id = d[b].id => a = b BY DEF Good, Distinct
  <2>6. \A k \in 1..(Len(d) - 1) : Matches(n2[k], d2[k], rt, lt) BY <2>4 DEF Good
  <2>7. ASSUME NEW j \in 1..(Len(d) - 1), NEW k \in 1..(Len(d) - 1), d2[j].id = d2[k].id
        PROVE  j = k
    <3>1. old(j) = old(k) BY <2>4, <2>5, <2>7
    <3> QED BY <1>1, <2>1, <3>1
  <2>8. Good(d2, n2, ids, started, rt, lt) BY <1>1, <2>2, <2>3, <2>6, <2>7 DEF Good, Distinct
  <2>9. \A k \in 1..(Len(d) - 1) : d2[k].id # id BY <1>2, <1>5, <2>1, <2>4, <2>5
  <2>10. ~Has(d2, id)
    <3>1. DOMAIN d2 = 1..(Len(d) - 1) BY <1>1, <2>2
    <3> QED BY <2>2, <2>9, <3>1, IndexFound DEF Has
  <2>11. Without(d, id) = d2 /\ Without(n, id) = n2
    BY <1>2, <1>3, <1>5 DEF Without, Has, d2, n2, at
  <2> QED BY <2>8, <2>10, <2>11
<1> QED BY <1>2, <1>4, <1>5

\* The two folds put a cell at the same place.
LEMMA SamePlace ==
  ASSUME NEW d, NEW n, NEW ids, NEW started, NEW rt, NEW lt,
         Good(d, n, ids, started, rt, lt), NEW before, NEW after
  PROVE  /\ ClientPlace(n, before, after) = Place(d, before, after)
         /\ ClientPlace(n, before, NoCell) = Before(d, before)
         /\ Place(d, before, after) \in 1..(Len(d) + 1)
         /\ Before(d, before) \in 1..(Len(d) + 1)
<1>1. /\ d \in Seq(CellRecord) /\ Len(n) = Len(d) /\ Len(d) \in Nat /\ DOMAIN d = 1..Len(d)
  <2>1. Recorded(ids, started) \subseteq CellRecord BY DEF Recorded
  <2> QED BY <2>1, SeqMonotonic DEF Good
<1>2. \A id : /\ IndexOfCell(n, id) = IndexOfCell(d, id)
              /\ IndexOfCell(d, id) \in 0..Len(d)
  BY <1>1, Found, IndexFound
<1>3. ~Has(d, NoCell)
  <2>1. ASSUME NEW i \in 1..Len(d) PROVE d[i].id # NoCell
    <3>1. d[i] \in CellRecord BY <1>1, ElementOfSeq
    <3> QED BY <3>1, DocAssumption DEF CellRecord
  <2> QED BY <1>1, <2>1, IndexFound DEF Has
<1>4. Before(d, before) \in 1..(Len(d) + 1) BY <1>1, <1>2 DEF Before, Has
<1> QED BY <1>1, <1>2, <1>3, <1>4 DEF ClientPlace, Place, Before, Has

\* A cell moved in both copies.
LEMMA MovedGood ==
  ASSUME NEW d, NEW n, NEW ids, NEW started, NEW rt, NEW lt,
         Good(d, n, ids, started, rt, lt), NEW id, NEW before
  PROVE  Good(MovedTo(d, id, before), ClientMovedTo(n, id, before), ids, started, rt, lt)
<1>1. CASE ~Has(d, id) BY <1>1, Found DEF MovedTo, ClientMovedTo
<1>2. CASE Has(d, id)
  <2> DEFINE c == CellOf(d, id)
             m == CellOf(n, id)
             d2 == Without(d, id)
             n2 == Without(n, id)
  <2>1. /\ c \in Recorded(ids, started) /\ m \in CellRecord /\ c.id = id
        /\ Matches(m, c, rt, lt) /\ Has(n, id)
    BY <1>2, Found
  <2>2. Good(d2, n2, ids, started, rt, lt) /\ ~Has(d2, id) BY WithoutGood
  <2> HIDE DEF c, m, d2, n2
  <2>3. /\ ClientPlace(n2, before, NoCell) = Before(d2, before)
        /\ Before(d2, before) \in 1..(Len(d2) + 1)
    BY <2>2, SamePlace
  <2>4. Good(InsertAt(d2, Before(d2, before), c), InsertAt(n2, Before(d2, before), m),
             ids, started, rt, lt)
    BY <2>1, <2>2, <2>3, InsertGood
  <2> QED BY <1>2, <2>1, <2>3, <2>4 DEF MovedTo, ClientMovedTo, c, m, d2, n2
<1> QED BY <1>1, <1>2

\* Cells told they are out of date, in both copies.
LEMMA StaleGood ==
  ASSUME NEW d, NEW n, NEW ids, NEW started, NEW rt, NEW lt,
         Good(d, n, ids, started, rt, lt), NEW stale
  PROVE  Good(Stale(d, stale), Stale(n, stale), ids, started, rt, lt)
<1> DEFINE told(c) == IF c.id \in stale /\ c.state \in {"ok", "error"}
                        THEN [c EXCEPT !.state = "stale"] ELSE c
           d2 == Stale(d, stale)
           n2 == Stale(n, stale)
<1>1. /\ d \in Seq(Recorded(ids, started)) /\ n \in Seq(CellRecord) /\ Len(n) = Len(d)
      /\ Len(d) \in Nat /\ DOMAIN d = 1..Len(d) /\ DOMAIN n = 1..Len(d)
  BY DEF Good
<1>2. \A c \in Recorded(ids, started) : told(c) \in Recorded(ids, started)
  BY DEF Recorded, CellRecord, State
<1>3. \A c \in CellRecord : told(c) \in CellRecord BY DEF CellRecord, State
<1>4. d2 \in Seq(Recorded(ids, started)) /\ Len(d2) = Len(d)
      /\ \A k \in 1..Len(d) : d2[k] = told(d[k])
  <2>1. d2 = [k \in 1..Len(d) |-> told(d[k])] BY <1>1 DEF Stale
  <2>2. \A k \in 1..Len(d) : told(d[k]) \in Recorded(ids, started) BY <1>1, <1>2, ElementOfSeq
  <2> HIDE DEF told, d2
  <2> QED BY <1>1, <2>1, <2>2
<1>5. n2 \in Seq(CellRecord) /\ Len(n2) = Len(d)
      /\ \A k \in 1..Len(d) : n2[k] = told(n[k])
  <2>1. n2 = [k \in 1..Len(d) |-> told(n[k])] BY <1>1 DEF Stale
  <2>2. \A k \in 1..Len(d) : told(n[k]) \in CellRecord BY <1>1, <1>3, ElementOfSeq
  <2> HIDE DEF told, n2
  <2> QED BY <1>1, <2>1, <2>2
<1>6. ASSUME NEW k \in 1..Len(d) PROVE Matches(n2[k], d2[k], rt, lt) /\ d2[k].id = d[k].id
  <2>1. Matches(n[k], d[k], rt, lt) /\ d[k] \in CellRecord /\ n[k] \in CellRecord
    BY <1>1, ElementOfSeq DEF Good, Recorded
  <2>2. d2[k] = told(d[k]) /\ n2[k] = told(n[k]) BY <1>4, <1>5
  <2> HIDE DEF d2, n2
  <2> QED BY <2>1, <2>2 DEF Matches, CellRecord
<1> HIDE DEF d2, n2
<1> QED BY <1>1, <1>4, <1>5, <1>6 DEF Good, Distinct, d2, n2

------------------------------------------------------------------------------

LEMMA InitIInv == ASSUME Init PROVE IInv
<1>1. Good(<<>>, <<>>, used, cellOf, retyped, late)
  <2>1. Len(<<>>) = 0 /\ \A S : <<>> \in Seq(S) OBVIOUS
  <2> QED BY <2>1 DEF Good, Distinct
<1> QED BY <1>1 DEF Init, IInv

\* handleCellInsert
LEMMA InsertInv ==
  ASSUME IInv, NEW id \in Cell, NEW kind \in Kinds, NEW src \in Source,
         NEW state \in {"idle", "running"}, NEW before, NEW after,
         InsertCell(id, kind, src, state, before, after)
  PROVE  IInv'
<1> DEFINE c == NewCell(id, kind, src, state)
<1>1. c \in CellRecord /\ c.id = id /\ c.outs = <<>>
  BY MirrorAssumption DEF NewCell, CellRecord, State
<1>2. \A r \in Run : cellOf[r] # id
  BY DocAssumption DEF IInv, InsertCell
<1>3. c \in Recorded(used \cup {id}, cellOf) BY <1>1, <1>2 DEF Recorded
<1>4. Matches(c, c, retyped, late) BY DEF Matches
<1>5. ~Has(doc, id)
  <2>1. doc \in Seq(Recorded(used, cellOf)) /\ DOMAIN doc = 1..Len(doc) BY DEF IInv, Good
  <2>2. \A i \in 1..Len(doc) : doc[i].id # id
    BY <2>1, ElementOfSeq DEF Recorded, InsertCell
  <2> QED BY <2>1, <2>2, IndexFound DEF Has
<1> HIDE DEF c
<1>6. Good(InsertAt(doc, Place(doc, before, after), c),
           InsertAt(client, ClientPlace(client, before, after), c),
           used \cup {id}, cellOf, retyped, late)
  <2>1. /\ ClientPlace(client, before, after) = Place(doc, before, after)
        /\ Place(doc, before, after) \in 1..(Len(doc) + 1)
    BY SamePlace DEF IInv
  <2> QED BY <1>1, <1>3, <1>4, <1>5, <2>1, InsertGood DEF IInv
<1>7. /\ doc' = InsertAt(doc, Place(doc, before, after), c)
      /\ client' = InsertAt(client, ClientPlace(client, before, after), c)
  BY DEF InsertCell, Log, Apply, ClientApply, Inserted, c
<1>8. used' = used \cup {id} /\ UNCHANGED <<cellOf, retyped, late>> BY DEF InsertCell
<1> QED BY <1>6, <1>7, <1>8 DEF IInv

\* handleCellEditOrDelete, PATCH.
LEMMA EditInv ==
  ASSUME IInv, NEW id \in used, NEW src \in Source \cup {Unset}, NEW kind \in Kinds \cup {Unset},
         EditCell(id, src, kind)
  PROVE  IInv'
<1> DEFINE d == CellOf(doc, id)
           n == CellOf(client, id)
           c == [d EXCEPT !.src = Field(src, @), !.kind = Field(kind, @)]
           m == [n EXCEPT !.src = Field(src, @)]
<1>1. Good(doc, client, used, cellOf, retyped, late) /\ used \subseteq Cell BY DEF IInv
<1>2. /\ doc' = Update(doc, id, c) /\ client' = Update(client, id, m)
      /\ retyped' = IF Has(doc, id) /\ kind \notin {Unset, d.kind}
                      THEN retyped \cup {id} ELSE retyped
      /\ UNCHANGED <<used, cellOf, late>>
  BY DEF EditCell, Log, Apply, ClientApply, Edited
<1>3. ASSUME Has(doc, id)
      PROVE  /\ c \in Recorded(used, cellOf) /\ m \in CellRecord
             /\ c.id = id /\ Matches(m, c, retyped', late)
  <2>1. /\ d \in Recorded(used, cellOf) /\ n \in CellRecord /\ d.id = id
        /\ Matches(n, d, retyped, late)
    BY <1>1, <1>3, Found
  <2>2. retyped' = IF kind \notin {Unset, d.kind} THEN retyped \cup {id} ELSE retyped
    BY <1>2, <1>3
  <2> HIDE DEF d, n
  <2>3. c \in Recorded(used, cellOf) /\ m \in CellRecord /\ c.id = id
    BY <2>1, MirrorAssumption DEF Recorded, CellRecord, Field
  <2>4. /\ m.id = n.id /\ m.src = Field(src, n.src) /\ m.run = n.run /\ m.kind = n.kind
        /\ m.state = n.state /\ m.outs = n.outs
        /\ c.src = Field(src, d.src) /\ c.run = d.run /\ c.kind = Field(kind, d.kind)
        /\ c.state = d.state /\ c.outs = d.outs
    BY <2>1 DEF Recorded, CellRecord
  <2> HIDE DEF c, m
  <2> QED BY <2>1, <2>2, <2>3, <2>4 DEF Matches, Field
<1> HIDE DEF c, m, d, n
<1>4. Good(Update(doc, id, c), Update(client, id, m), used, cellOf, retyped', late)
  <2>1. \A x \in used : x # id => (x \in retyped => x \in retyped') BY <1>2
  <2> QED BY <1>1, <1>3, <2>1, UpdateGood
<1>5. retyped' \subseteq Cell BY <1>1, <1>2 DEF IInv
<1> QED BY <1>2, <1>4, <1>5 DEF IInv

\* handleCellMove
LEMMA MoveInv ==
  ASSUME IInv, NEW id, NEW before, MoveCell(id, before) PROVE IInv'
<1>1. Good(MovedTo(doc, id, before), ClientMovedTo(client, id, before),
           used, cellOf, retyped, late)
  BY MovedGood DEF IInv
<1> QED BY <1>1 DEF IInv, MoveCell, Log, Apply, ClientApply, Moved

\* handleCellEditOrDelete, DELETE.
LEMMA DeleteInv == ASSUME IInv, NEW id, DeleteCell(id) PROVE IInv'
<1>1. Good(Without(doc, id), Without(client, id), used, cellOf, retyped, late)
  BY WithoutGood DEF IInv
<1> QED BY <1>1 DEF IInv, DeleteCell, Log, Apply, ClientApply, Deleted

\* handleCellRun
LEMMA StartInv ==
  ASSUME IInv, NEW id \in used, NEW run \in Run, StartRun(id, run) PROVE IInv'
<1> DEFINE d == CellOf(doc, id)
           n == CellOf(client, id)
           c == [d EXCEPT !.outs = <<>>, !.run = run, !.state = "running"]
           m == [n EXCEPT !.outs = <<>>, !.run = run, !.state = "running"]
<1>1. Good(doc, client, used, cellOf, retyped, late) /\ used \subseteq Cell BY DEF IInv
<1>2. /\ doc' = Update(doc, id, c) /\ client' = Update(client, id, m)
      /\ cellOf' = [cellOf EXCEPT ![run] = id] /\ late' = late \ {id}
      /\ UNCHANGED <<used, retyped>>
  BY DEF StartRun, Log, Apply, ClientApply, Started
<1>3. ASSUME Has(doc, id)
      PROVE  /\ c \in Recorded(used, cellOf') /\ m \in CellRecord
             /\ c.id = id /\ Matches(m, c, retyped, late')
  <2>1. /\ d \in Recorded(used, cellOf) /\ n \in CellRecord /\ d.id = id
        /\ Matches(n, d, retyped, late)
    BY <1>1, <1>3, Found
  <2> HIDE DEF d, n
  <2>2. c \in CellRecord /\ m \in CellRecord
    <3>1. <<>> \in Seq(Run \cup {NoRun}) /\ run \in Run \cup {NoRun} OBVIOUS
    <3>2. d \in CellRecord BY <2>1 DEF Recorded
    <3> QED BY <2>1, <3>1, <3>2 DEF CellRecord, State
  <2>3. /\ m.id = n.id /\ m.src = n.src /\ m.kind = n.kind
        /\ c.id = d.id /\ c.src = d.src /\ c.kind = d.kind
        /\ m.outs = <<>> /\ m.run = run /\ m.state = "running"
        /\ c.outs = <<>> /\ c.run = run /\ c.state = "running"
    BY <2>1 DEF Recorded, CellRecord
  <2> HIDE DEF c, m
  <2>4. c \in Recorded(used, cellOf') BY <2>1, <2>2, <2>3, DocAssumption DEF Recorded
  <2> QED BY <2>1, <2>2, <2>3, <2>4 DEF Matches
<1> HIDE DEF c, m, d, n
<1>4. ASSUME NEW x \in Recorded(used, cellOf), x.id # id PROVE x \in Recorded(used, cellOf')
  BY <1>2, <1>4 DEF Recorded, IInv
<1>5. Good(Update(doc, id, c), Update(client, id, m), used, cellOf', retyped, late')
  <2>1. \A x \in used : x # id => (x \in late => x \in late') BY <1>2
  <2> QED BY <1>1, <1>3, <1>4, <2>1, UpdateGood
<1>6. late' \subseteq Cell /\ cellOf' \in [Run -> used \cup {NoCell}] BY <1>2 DEF IInv
<1> QED BY <1>2, <1>5, <1>6 DEF IInv

\* What NotesLate notes.
LEMMA LateNoted ==
  ASSUME IInv, NEW id \in used, NEW run, NotesLate(id, run)
  PROVE  /\ late' \subseteq Cell /\ late \subseteq late'
         /\ Has(doc, id) /\ Superseded(CellOf(doc, id), run) => id \in late'
  BY DEF IInv, NotesLate

\* emitOutput: what a superseded run writes is dropped by one fold and kept by the other.
LEMMA OutputInv ==
  ASSUME IInv, NEW id \in used, NEW run \in RunsOf(id) \cup {NoRun}, AppendOutput(id, run)
  PROVE  IInv'
<1> DEFINE d == CellOf(doc, id)
           n == CellOf(client, id)
           c == IF Superseded(d, run) THEN d ELSE [d EXCEPT !.outs = Append(@, run)]
           m == [n EXCEPT !.outs = Append(@, run)]
<1>1. Good(doc, client, used, cellOf, retyped, late) /\ used \subseteq Cell BY DEF IInv
<1>2. /\ doc' = Update(doc, id, c) /\ client' = Update(client, id, m)
      /\ UNCHANGED <<used, cellOf, retyped>>
  BY DEF AppendOutput, Log, Apply, ClientApply, Output
<1>3. /\ late' \subseteq Cell /\ late \subseteq late'
      /\ Has(doc, id) /\ Superseded(d, run) => id \in late'
  BY LateNoted DEF AppendOutput
<1>4. run \in Run \cup {NoRun} /\ (run # NoRun => cellOf[run] = id) BY DEF RunsOf
<1>5. ASSUME Has(doc, id)
      PROVE  /\ c \in Recorded(used, cellOf) /\ m \in CellRecord
             /\ c.id = id /\ Matches(m, c, retyped, late')
  <2>1. /\ d \in Recorded(used, cellOf) /\ n \in CellRecord /\ d.id = id
        /\ Matches(n, d, retyped, late)
    BY <1>1, <1>5, Found
  <2> HIDE DEF d, n
  <2>2. /\ d \in CellRecord /\ d.outs \in Seq(Run \cup {NoRun}) /\ n.outs \in Seq(Run \cup {NoRun})
        /\ \A k \in DOMAIN d.outs : d.outs[k] \in {NoRun, d.run}
    BY <2>1 DEF Recorded, CellRecord
  <2>3. /\ Append(n.outs, run) \in Seq(Run \cup {NoRun})
        /\ Append(d.outs, run) \in Seq(Run \cup {NoRun})
    BY <1>4, <2>2
  <2>4. /\ m \in CellRecord /\ m.outs = Append(n.outs, run)
        /\ m.id = n.id /\ m.src = n.src /\ m.kind = n.kind /\ m.run = n.run /\ m.state = n.state
    BY <2>1, <2>3 DEF CellRecord
  <2>5. CASE Superseded(d, run)
    <3>1. c = d BY <2>5
    <3> HIDE DEF c, m
    <3> QED BY <1>3, <1>5, <2>1, <2>4, <2>5, <3>1 DEF Matches
  <2>6. CASE ~Superseded(d, run)
    <3>1. /\ c \in CellRecord /\ c.outs = Append(d.outs, run)
          /\ c.id = d.id /\ c.src = d.src /\ c.kind = d.kind /\ c.run = d.run
          /\ c.state = d.state
      BY <2>2, <2>6, <2>3 DEF CellRecord
    <3>2. run \in {NoRun, d.run}
      BY <1>4, <2>1, <2>6 DEF Superseded, Recorded
    <3>3. \A k \in DOMAIN c.outs : c.outs[k] \in {NoRun, c.run}
      <4>1. c.run = d.run BY <3>1
      <4>2. \A k \in DOMAIN c.outs :
              (k \in DOMAIN d.outs /\ c.outs[k] = d.outs[k]) \/ c.outs[k] = run
        BY <1>4, <2>2, <3>1, AppendProperties
      <4> QED BY <2>2, <3>2, <4>1, <4>2
    <3> HIDE DEF c, m
    <3>4. c \in Recorded(used, cellOf) BY <2>1, <3>1, <3>3 DEF Recorded
    <3> QED BY <1>3, <2>1, <2>4, <3>1, <3>4 DEF Matches
  <2> QED BY <2>5, <2>6
<1> HIDE DEF c, m, d, n
<1>6. Good(Update(doc, id, c), Update(client, id, m), used, cellOf, retyped, late')
  BY <1>1, <1>3, <1>5, UpdateGood
<1> QED BY <1>2, <1>3, <1>6 DEF IInv

\* finishRun, likewise.
LEMMA FinishInv ==
  ASSUME IInv, NEW id \in used, NEW run, NEW status \in {"ok", "interrupted"},
         FinishRun(id, run, status)
  PROVE  IInv'
<1> DEFINE d == CellOf(doc, id)
           n == CellOf(client, id)
           c == IF Superseded(d, run) THEN d ELSE [d EXCEPT !.state = status]
           m == [n EXCEPT !.state = status]
<1>1. Good(doc, client, used, cellOf, retyped, late) /\ used \subseteq Cell BY DEF IInv
<1>2. /\ doc' = Update(doc, id, c) /\ client' = Update(client, id, m)
      /\ UNCHANGED <<used, cellOf, retyped>>
  BY DEF FinishRun, Log, Apply, ClientApply, Finished
<1>3. /\ late' \subseteq Cell /\ late \subseteq late'
      /\ Has(doc, id) /\ Superseded(d, run) => id \in late'
  BY LateNoted DEF FinishRun
<1>4. ASSUME Has(doc, id)
      PROVE  /\ c \in Recorded(used, cellOf) /\ m \in CellRecord
             /\ c.id = id /\ Matches(m, c, retyped, late')
  <2>1. /\ d \in Recorded(used, cellOf) /\ n \in CellRecord /\ d.id = id
        /\ Matches(n, d, retyped, late)
    BY <1>1, <1>4, Found
  <2> HIDE DEF d, n
  <2>2. /\ m \in CellRecord /\ m.outs = n.outs /\ m.state = status
        /\ m.id = n.id /\ m.src = n.src /\ m.kind = n.kind /\ m.run = n.run
    BY <2>1 DEF CellRecord, State
  <2>3. /\ c \in Recorded(used, cellOf) /\ c.outs = d.outs
        /\ c.id = d.id /\ c.src = d.src /\ c.kind = d.kind /\ c.run = d.run
        /\ c.state = status \/ Superseded(d, run)
    BY <2>1 DEF Recorded, CellRecord, State
  <2> HIDE DEF c, m
  <2> QED BY <1>3, <1>4, <2>1, <2>2, <2>3 DEF Matches
<1> HIDE DEF c, m, d, n
<1>5. Good(Update(doc, id, c), Update(client, id, m), used, cellOf, retyped, late')
  BY <1>1, <1>3, <1>4, UpdateGood
<1> QED BY <1>2, <1>3, <1>5 DEF IInv

\* invalidateBelow
LEMMA InvalidateInv == ASSUME IInv, NEW ids, Invalidate(ids) PROVE IInv'
<1>1. Good(Stale(doc, ids), Stale(client, ids), used, cellOf, retyped, late)
  BY StaleGood DEF IInv
<1> QED BY <1>1 DEF IInv, Invalidate, Log, Apply, ClientApply, Invalidated

\* A tab that has the document again excuses nothing.
LEMMA RefoldInv == ASSUME IInv, Refold PROVE IInv'
<1>1. doc \in Seq(CellRecord)
  <2>1. Recorded(used, cellOf) \subseteq CellRecord BY DEF Recorded
  <2> QED BY <2>1, SeqMonotonic DEF IInv, Good
<1>2. \A c : Matches(c, c, {}, {}) BY DEF Matches
<1>3. Good(doc, doc, used, cellOf, {}, {}) BY <1>1, <1>2 DEF IInv, Good
<1> QED BY <1>3 DEF IInv, Refold

\* One case per action.
LEMMA StepInv == ASSUME IInv, [Next]_vars PROVE IInv'
<1>1. CASE UNCHANGED vars BY <1>1 DEF vars, IInv
<1>2. ASSUME NEW id \in used \cap Busy, NEW run \in RunsOf(id) \cup {NoRun},
             \/ AppendOutput(id, run)
             \/ \E status \in {"ok", "interrupted"} : FinishRun(id, run, status)
      PROVE  IInv'
  BY <1>2, OutputInv, FinishInv
<1> QED
  BY <1>1, <1>2, InsertInv, EditInv, MoveInv, DeleteInv, StartInv, InvalidateInv, RefoldInv
  DEF Next

LEMMA Invariance == Spec => []IInv
  BY InitIInv, StepInv, PTL DEF Spec

------------------------------------------------------------------------------

\* Both copies are documents over the cells and runs there are, however they are
\* edited (applyEvent of nb_doc.go and of nb.js).
THEOREM TypeCorrect == Spec => []TypeOK
<1>1. IInv => TypeOK
  <2>1. Recorded(used, cellOf) \subseteq CellRecord BY DEF Recorded
  <2> QED BY <2>1, SeqMonotonic DEF IInv, Good, TypeOK
<1> QED BY <1>1, Invariance, PTL

\* Requests that race each other to insert, move, restore and delete cells never put
\* a cell into the document twice.
THEOREM NoCellTwice == Spec => []CellsAreDistinct
<1>1. IInv => CellsAreDistinct
  BY LenProperties DEF IInv, Good, Distinct, CellsAreDistinct
<1> QED BY <1>1, Invariance, PTL

\* What a superseded run writes late never lands among the outputs of a later one
\* (nb_doc.go:440-444).
THEOREM OutputsAreOfOneRun == Spec => []OneRunsOutputs
<1>1. IInv => OneRunsOutputs
  <2>1. ASSUME IInv, NEW i \in DOMAIN doc PROVE doc[i] \in Recorded(used, cellOf)
    BY <2>1, LenProperties, ElementOfSeq DEF IInv, Good
  <2> QED BY <2>1 DEF Recorded, OneRunsOutputs
<1> QED BY <1>1, Invariance, PTL

\* The fold of nb.js follows the fold of nb_doc.go, but for the types of retyped cells
\* and the cells superseded runs wrote to.
THEOREM TheTabFollows == Spec => []ClientFollows
<1>1. IInv => ClientFollows
  <2>1. ASSUME IInv PROVE DOMAIN doc = 1..Len(doc) /\ DOMAIN client = DOMAIN doc
    BY <2>1, LenProperties DEF IInv, Good
  <2> QED BY <2>1 DEF IInv, Good, Matches, ClientFollows
<1> QED BY <1>1, Invariance, PTL

==============================================================================
