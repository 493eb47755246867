-------------------------- MODULE NotebookDocProofs --------------------------
(***************************************************************************)
(* What the operators of NotebookDoc do to a document of any length: the   *)
(* lemmas the proofs about folded documents rest on.                       *)
(***************************************************************************)
EXTENDS NotebookDoc, SequenceTheorems, WellFoundedInduction, TLAPS

\* A set of positions has a first one.
LEMMA FirstPosition ==
  ASSUME NEW n \in Nat, NEW I \in SUBSET (1..n), I # {}
  PROVE  Min(I) \in I /\ \A j \in I : Min(I) <= j
<1> DEFINE Less == {p \in Nat \X Nat : p[1] < p[2]}
<1>1. I \subseteq Nat OBVIOUS
<1>2. IsWellFoundedOn(Less, Nat) BY NatLessThanWellFounded, Zenon DEF OpToRel
<1>3. \A j, k \in Nat : j < k => <<j, k>> \in Less OBVIOUS
<1> HIDE DEF Less
<1>4. PICK least \in I : \A j \in I : ~(<<j, least>> \in Less)
  BY <1>1, <1>2, WFMin, Zenon
<1>5. ASSUME NEW j \in I PROVE least <= j
  <2>1. j \in Nat /\ least \in Nat BY <1>1
  <2>2. ~(<<j, least>> \in Less) BY <1>4
  <2>3. ~(j < least) BY <1>3, <2>1, <2>2
  <2> QED BY <2>1, <2>3
<1> QED BY <1>5 DEF Min

\* indexOfCell finds the first cell with the id, and only such a cell.
LEMMA IndexFound ==
  ASSUME NEW S, NEW doc \in Seq(S), NEW id, NEW at, at = IndexOfCell(doc, id)
  PROVE  /\ at \in 0..Len(doc)
         /\ at # 0 => at \in DOMAIN doc /\ doc[at].id = id
         /\ at = 0 <=> \A i \in DOMAIN doc : doc[i].id # id
         /\ \A i \in DOMAIN doc : doc[i].id = id => at <= i
<1> DEFINE I == {i \in 1..Len(doc) : doc[i].id = id}
<1>1. Len(doc) \in Nat /\ DOMAIN doc = 1..Len(doc) OBVIOUS
<1>2. at = IF I # {} THEN Min(I) ELSE 0 BY DEF IndexOfCell, SelectInSeq
<1>3. I # {} => Min(I) \in I /\ \A j \in I : Min(I) <= j
  BY <1>1, FirstPosition
<1> QED BY <1>1, <1>2, <1>3

\* t has the elements of s in their order, and e put in at i.
WithOne(t, s, i, e) ==
  /\ Len(t) = Len(s) + 1
  /\ \A k \in 1..(Len(s) + 1) : t[k] = IF k < i THEN s[k] ELSE IF k = i THEN e ELSE s[k - 1]

\* One more cell, the others in their order.
LEMMA InsertedAt ==
  ASSUME NEW S, NEW s \in Seq(S), NEW i \in 1..(Len(s) + 1), NEW e \in S
  PROVE  InsertAt(s, i, e) \in Seq(S) /\ WithOne(InsertAt(s, i, e), s, i, e)
<1> DEFINE left == SubSeq(s, 1, i - 1)
           right == SubSeq(s, i, Len(s))
<1>1. Len(s) \in Nat /\ \A j \in 1..Len(s) : s[j] \in S OBVIOUS
<1>2. /\ left \in Seq(S) /\ Len(left) = i - 1
      /\ \A k \in 1..(i - 1) : left[k] = s[k]
  <2>1. \A k \in 1..(i - 1) : s[k] \in S BY <1>1
  <2> QED BY <1>1, <2>1, SubSeqProperties
<1>3. /\ right \in Seq(S) /\ Len(right) = Len(s) - i + 1
      /\ \A k \in 1..(Len(s) - i + 1) : right[k] = s[i + k - 1]
  <2>1. \A k \in i..Len(s) : s[k] \in S BY <1>1
  <2> QED BY <1>1, <2>1, SubSeqProperties
<1>4. /\ <<e>> \in Seq(S) /\ Len(<<e>>) = 1 /\ <<e>>[1] = e OBVIOUS
<1> HIDE DEF left, right
<1>5. /\ left \o <<e>> \in Seq(S) /\ Len(left \o <<e>>) = i
      /\ \A k \in 1..i : (left \o <<e>>)[k] = IF k < i THEN s[k] ELSE e
  BY <1>2, <1>4, ConcatProperties
<1>6. /\ (left \o <<e>>) \o right \in Seq(S)
      /\ Len((left \o <<e>>) \o right) = Len(s) + 1
      /\ \A k \in 1..(Len(s) + 1) :
           ((left \o <<e>>) \o right)[k] =
              IF k < i THEN s[k] ELSE IF k = i THEN e ELSE s[k - 1]
  <2> DEFINE l == left \o <<e>>
  <2> HIDE DEF l
  <2>1. l \in Seq(S) /\ Len(l) = i /\ \A k \in 1..i : l[k] = IF k < i THEN s[k] ELSE e
    BY <1>5 DEF l
  <2>2. /\ l \o right \in Seq(S)
        /\ Len(l \o right) = Len(s) + 1
        /\ \A k \in 1..(Len(s) + 1) :
             (l \o right)[k] = IF k <= i THEN l[k] ELSE right[k - i]
    <3>1. Len(l) + Len(right) = Len(s) + 1 BY <1>1, <1>3, <2>1
    <3> QED BY <1>3, <2>1, <3>1, ConcatProperties
  <2>3. \A k \in 1..(Len(s) + 1) : k > i => right[k - i] = s[k - 1]
    BY <1>1, <1>3
  <2> QED BY <1>1, <2>1, <2>2, <2>3 DEF l
<1> QED BY <1>6 DEF InsertAt, WithOne, left, right

\* One cell less, the others in their order.
LEMMA RemovedAt ==
  ASSUME NEW S, NEW s \in Seq(S), NEW i \in 1..Len(s)
  PROVE  /\ RemoveAt(s, i) \in Seq(S)
         /\ Len(RemoveAt(s, i)) = Len(s) - 1
         /\ \A k \in 1..(Len(s) - 1) :
              RemoveAt(s, i)[k] = IF k < i THEN s[k] ELSE s[k + 1]
<1> DEFINE left == SubSeq(s, 1, i - 1)
           right == SubSeq(s, i + 1, Len(s))
<1>1. Len(s) \in Nat /\ \A j \in 1..Len(s) : s[j] \in S OBVIOUS
<1>2. /\ left \in Seq(S) /\ Len(left) = i - 1
      /\ \A k \in 1..(i - 1) : left[k] = s[k]
  <2>1. \A k \in 1..(i - 1) : s[k] \in S BY <1>1
  <2> QED BY <1>1, <2>1, SubSeqProperties
<1>3. /\ right \in Seq(S) /\ Len(right) = Len(s) - i
      /\ \A k \in 1..(Len(s) - i) : right[k] = s[i + k]
  <2>1. \A k \in (i + 1)..Len(s) : s[k] \in S BY <1>1
  <2> QED BY <1>1, <2>1, SubSeqProperties
<1> HIDE DEF left, right
<1>4. /\ left \o right \in Seq(S)
      /\ Len(left \o right) = Len(s) - 1
      /\ \A k \in 1..(Len(s) - 1) :
           (left \o right)[k] = IF k <= i - 1 THEN left[k] ELSE right[k - (i - 1)]
  <2>1. Len(left) + Len(right) = Len(s) - 1 BY <1>1, <1>2, <1>3
  <2>2. /\ left \o right \in Seq(S)
        /\ Len(left \o right) = Len(left) + Len(right)
        /\ \A k \in 1..(Len(left) + Len(right)) :
             (left \o right)[k] = IF k <= Len(left) THEN left[k] ELSE right[k - Len(left)]
    BY <1>2, <1>3, ConcatProperties
  <2> QED BY <1>2, <2>1, <2>2
<1>5. \A k \in 1..(Len(s) - 1) : k >= i => right[k - (i - 1)] = s[k + 1]
  BY <1>1, <1>3
<1>6. \A k \in 1..(Len(s) - 1) :
        (left \o right)[k] = IF k < i THEN s[k] ELSE s[k + 1]
  BY <1>1, <1>2, <1>4, <1>5
<1> QED BY <1>4, <1>6 DEF RemoveAt, left, right

\* A sequence of the elements it has.
LEMMA SeqOfElements ==
  ASSUME NEW S, NEW s \in Seq(S), NEW T, \A i \in 1..Len(s) : s[i] \in T
  PROVE  s \in Seq(T)
  BY SeqDef

\* An update replaces the first cell with the id, when there is one.
LEMMA Updated ==
  ASSUME NEW S, NEW doc \in Seq(S), NEW id, NEW c, Has(doc, id) => c \in S
  PROVE  /\ Update(doc, id, c) \in Seq(S)
         /\ Len(Update(doc, id, c)) = Len(doc)
         /\ \A k \in 1..Len(doc) :
              Update(doc, id, c)[k] = IF k = IndexOfCell(doc, id) THEN c ELSE doc[k]
<1> DEFINE at == IndexOfCell(doc, id)
<1>1. at \in 0..Len(doc) /\ Len(doc) \in Nat BY IndexFound
<1>2. CASE at = 0
  <2>1. Update(doc, id, c) = doc BY <1>2 DEF Update, Has
  <2> QED BY <1>1, <1>2, <2>1
<1>3. CASE at # 0
  <2>1. Update(doc, id, c) = [doc EXCEPT ![at] = c] BY <1>3 DEF Update, Has, ReplaceAt
  <2>2. at \in 1..Len(doc) /\ c \in S BY <1>1, <1>3 DEF Has
  <2> HIDE DEF at
  <2>3. /\ [doc EXCEPT ![at] = c] \in Seq(S)
        /\ Len([doc EXCEPT ![at] = c]) = Len(doc)
        /\ \A k \in 1..Len(doc) :
             [doc EXCEPT ![at] = c][k] = IF k = at THEN c ELSE doc[k]
    BY <2>2, ExceptSeq
  <2> QED BY <2>1, <2>3 DEF at
<1> QED BY <1>2, <1>3

\* Two documents with the same ids in the same order have them at the same places.
LEMMA SamePlaces ==
  ASSUME NEW S, NEW doc \in Seq(S), NEW T, NEW nb \in Seq(T), Len(nb) = Len(doc),
         \A i \in 1..Len(doc) : nb[i].id = doc[i].id, NEW id
  PROVE  IndexOfCell(nb, id) = IndexOfCell(doc, id)
<1> DEFINE d == IndexOfCell(doc, id)
           n == IndexOfCell(nb, id)
<1>1. DOMAIN doc = 1..Len(doc) /\ DOMAIN nb = 1..Len(doc) /\ Len(doc) \in Nat OBVIOUS
<1>2. /\ d \in 0..Len(doc)
      /\ d # 0 => d \in 1..Len(doc) /\ doc[d].id = id
      /\ d = 0 <=> \A i \in 1..Len(doc) : doc[i].id # id
      /\ \A i \in 1..Len(doc) : doc[i].id = id => d <= i
  BY <1>1, IndexFound
<1>3. /\ n \in 0..Len(doc)
      /\ n # 0 => n \in 1..Len(doc) /\ nb[n].id = id
      /\ n = 0 <=> \A i \in 1..Len(doc) : nb[i].id # id
      /\ \A i \in 1..Len(doc) : nb[i].id = id => n <= i
  BY <1>1, IndexFound
<1> HIDE DEF d, n
<1>4. n = d BY <1>1, <1>2, <1>3
<1> QED BY <1>4 DEF d, n

------------------------------------------------------------------------------

\* No cell is there twice.
Distinct(d) == \A i, j \in 1..Len(d) : d[i].id = d[j].id => i = j

\* A cell of such a document is the one its id finds.
LEMMA FoundById ==
  ASSUME NEW S, NEW doc \in Seq(S), Distinct(doc), NEW i \in 1..Len(doc)
  PROVE  /\ Has(doc, doc[i].id) /\ IndexOfCell(doc, doc[i].id) = i
         /\ CellOf(doc, doc[i].id) = doc[i]
<1>1. DOMAIN doc = 1..Len(doc) OBVIOUS
<1>2. IndexOfCell(doc, doc[i].id) # 0 BY <1>1, IndexFound
<1>3. IndexOfCell(doc, doc[i].id) \in 1..Len(doc) /\ doc[IndexOfCell(doc, doc[i].id)].id = doc[i].id
  BY <1>1, <1>2, IndexFound
<1>4. IndexOfCell(doc, doc[i].id) = i BY <1>3 DEF Distinct
<1> QED BY <1>2, <1>4 DEF Has, CellOf

\* What an id finds is a cell of the document with that id.
LEMMA FoundCell ==
  ASSUME NEW S, NEW doc \in Seq(S), NEW id, Has(doc, id)
  PROVE  /\ IndexOfCell(doc, id) \in 1..Len(doc) /\ CellOf(doc, id) = doc[IndexOfCell(doc, id)]
         /\ CellOf(doc, id) \in S /\ CellOf(doc, id).id = id
<1>1. DOMAIN doc = 1..Len(doc) OBVIOUS
<1>2. IndexOfCell(doc, id) \in 1..Len(doc) /\ doc[IndexOfCell(doc, id)].id = id
  BY <1>1, IndexFound DEF Has
<1> QED BY <1>2, ElementOfSeq DEF CellOf

\* An update is seen through its id, and through no other.
LEMMA UpdateEffect ==
  ASSUME NEW S, NEW doc \in Seq(S), Distinct(doc), NEW id, NEW c,
         Has(doc, id) => c \in S /\ c.id = id,
         NEW doc2, doc2 = Update(doc, id, c)
  PROVE  /\ doc2 \in Seq(S) /\ Distinct(doc2)
         /\ \A x : /\ Has(doc2, x) <=> Has(doc, x)
                   /\ Has(doc, x) => CellOf(doc2, x) = IF x = id THEN c ELSE CellOf(doc, x)
<1>1. /\ doc2 \in Seq(S) /\ Len(doc2) = Len(doc)
      /\ \A k \in 1..Len(doc) : doc2[k] = IF k = IndexOfCell(doc, id) THEN c ELSE doc[k]
  BY Updated
<1>2. \A k \in 1..Len(doc) : k = IndexOfCell(doc, id) => Has(doc, id) /\ doc[k].id = id
  <2>1. DOMAIN doc = 1..Len(doc) OBVIOUS
  <2> QED BY <2>1, IndexFound DEF Has
<1>3. \A k \in 1..Len(doc) : doc2[k].id = doc[k].id BY <1>1, <1>2
<1>4. \A x : IndexOfCell(doc2, x) = IndexOfCell(doc, x) BY <1>1, <1>3, SamePlaces
<1>5. ASSUME NEW x, Has(doc, x)
      PROVE  CellOf(doc2, x) = IF x = id THEN c ELSE CellOf(doc, x)
  <2>1. IndexOfCell(doc, x) \in 1..Len(doc) /\ doc[IndexOfCell(doc, x)].id = x
    <3>1. DOMAIN doc = 1..Len(doc) OBVIOUS
    <3> QED BY <1>5, <3>1, IndexFound DEF Has
  <2>2. IndexOfCell(doc, x) = IndexOfCell(doc, id) <=> x = id BY <1>2, <2>1
  <2> QED BY <1>1, <1>4, <2>1, <2>2 DEF CellOf
<1>6. Distinct(doc2) BY <1>1, <1>3 DEF Distinct
<1> QED BY <1>1, <1>4, <1>5, <1>6 DEF Has

\* A deletion: the cell is gone and the others are found as before.
LEMMA DeleteEffect ==
  ASSUME NEW S, NEW doc \in Seq(S), Distinct(doc), NEW id, NEW doc2, doc2 = Without(doc, id)
  PROVE  /\ doc2 \in Seq(S) /\ Distinct(doc2)
         /\ \A x : Has(doc2, x) => Has(doc, x) /\ CellOf(doc2, x) = CellOf(doc, x)
<1> DEFINE at == IndexOfCell(doc, id)
<1>1. Len(doc) \in Nat /\ DOMAIN doc = 1..Len(doc) OBVIOUS
<1>2. CASE at = 0 BY <1>2 DEF Without, Has
<1>3. CASE at # 0
  <2>1. at \in 1..Len(doc) BY <1>1, <1>3, IndexFound
  <2>2. doc2 = RemoveAt(doc, at) BY <1>3 DEF Without, Has
  <2> HIDE DEF at
  <2>3. /\ doc2 \in Seq(S) /\ Len(doc2) = Len(doc) - 1
        /\ \A k \in 1..(Len(doc) - 1) : doc2[k] = IF k < at THEN doc[k] ELSE doc[k + 1]
    BY <2>1, <2>2, RemovedAt
  <2> DEFINE old(k) == IF k < at THEN k ELSE k + 1
  <2>4. \A k \in 1..(Len(doc) - 1) : old(k) \in 1..Len(doc) /\ doc2[k] = doc[old(k)]
    BY <1>1, <2>1, <2>3
  <2>5. ASSUME NEW j \in 1..(Len(doc) - 1), NEW k \in 1..(Len(doc) - 1), doc2[j].id = doc2[k].id
        PROVE  j = k
    <3>1. old(j) = old(k) BY <2>4, <2>5 DEF Distinct
    <3> QED BY <1>1, <2>1, <3>1
  <2>6. Distinct(doc2) BY <2>3, <2>5 DEF Distinct
  <2>7. ASSUME NEW x, Has(doc2, x) PROVE Has(doc, x) /\ CellOf(doc2, x) = CellOf(doc, x)
    <3> DEFINE k == IndexOfCell(doc2, x)
    <3>1. k \in 1..(Len(doc) - 1) /\ CellOf(doc2, x) = doc2[k] /\ CellOf(doc2, x).id = x
      BY <2>3, <2>7, FoundCell
    <3>2. old(k) \in 1..Len(doc) /\ CellOf(doc2, x) = doc[old(k)] /\ doc[old(k)].id = x
      BY <2>4, <3>1
    <3> HIDE DEF k, old
    <3> QED BY <3>2, FoundById
  <2> QED BY <2>3, <2>6, <2>7
<1> QED BY <1>2, <1>3

\* An invalidation changes the states of finished cells, and nothing else.
LEMMA StaleEffect ==
  ASSUME NEW doc \in Seq(CellRecord), Distinct(doc), NEW ids, NEW doc2, doc2 = Stale(doc, ids)
  PROVE  /\ doc2 \in Seq(CellRecord) /\ Distinct(doc2)
         /\ \A x : /\ Has(doc2, x) <=> Has(doc, x)
                   /\ Has(doc, x) =>
                        /\ CellOf(doc2, x).run = CellOf(doc, x).run
                        /\ CellOf(doc2, x).kind = CellOf(doc, x).kind
                        /\ \/ CellOf(doc2, x).state = CellOf(doc, x).state
                           \/ CellOf(doc, x).state # "running" /\ CellOf(doc2, x).state = "stale"
<1> DEFINE told(c) == IF c.id \in ids /\ c.state \in {"ok", "error"}
                        THEN [c EXCEPT !.state = "stale"] ELSE c
<1>1. Len(doc) \in Nat /\ DOMAIN doc = 1..Len(doc) OBVIOUS
<1>2. doc2 = [k \in 1..Len(doc) |-> told(doc[k])] BY <1>1 DEF Stale
<1>3. \A k \in 1..Len(doc) :
        /\ told(doc[k]) \in CellRecord /\ told(doc[k]).id = doc[k].id
        /\ told(doc[k]).run = doc[k].run /\ told(doc[k]).kind = doc[k].kind
        /\ \/ told(doc[k]).state = doc[k].state
           \/ doc[k].state # "running" /\ told(doc[k]).state = "stale"
  <2>1. ASSUME NEW c \in CellRecord
        PROVE  /\ told(c) \in CellRecord /\ told(c).id = c.id
               /\ told(c).run = c.run /\ told(c).kind = c.kind
               /\ \/ told(c).state = c.state
                  \/ c.state # "running" /\ told(c).state = "stale"
    BY DEF CellRecord, State
  <2> HIDE DEF told
  <2> QED BY <2>1, ElementOfSeq
<1> HIDE DEF told
<1>4. /\ doc2 \in Seq(CellRecord) /\ Len(doc2) = Len(doc)
      /\ \A k \in 1..Len(doc) : doc2[k] = told(doc[k])
  BY <1>1, <1>2, <1>3
<1>5. \A x : IndexOfCell(doc2, x) = IndexOfCell(doc, x) BY <1>3, <1>4, SamePlaces
<1>6. ASSUME NEW x, Has(doc, x)
      PROVE  /\ IndexOfCell(doc, x) \in 1..Len(doc)
             /\ CellOf(doc2, x) = told(doc[IndexOfCell(doc, x)])
             /\ CellOf(doc, x) = doc[IndexOfCell(doc, x)]
  BY <1>4, <1>5, <1>6, FoundCell DEF CellOf
<1>7. Distinct(doc2) BY <1>3, <1>4 DEF Distinct
<1> QED BY <1>3, <1>4, <1>5, <1>6, <1>7 DEF Has

==============================================================================
