--------------------------- MODULE LiteRowsProofs ---------------------------
(***************************************************************************)
(* Proofs about LiteRows, for any sheet: the rows that are kept are the    *)
(* first occurrences of the pairs, each number is queried once, and the    *)
(* summary counts every row.                                               *)
(*                                                                         *)
(* prepare_content and the list of queries are recursive functions over    *)
(* the rows: Recursion shows that there are such functions, Induction that *)
(* what holds after each row holds after all.                              *)
(***************************************************************************)
EXTENDS LiteRows, FiniteSetTheorems, WellFoundedInduction, TLAPS

-----------------------------------------------------------------------------
(* Recursion and induction over the first n numbers *)

\* What holds of 0, and of a number if of the one before, holds up to n: the numbers are
\* well-founded.
LEMMA Induction ==
    ASSUME NEW n \in Nat, NEW S, 0 \in S, \A k \in 1 .. n : k - 1 \in S => k \in S
    PROVE  \A k \in 0 .. n : k \in S
<1> DEFINE Less == {ss \in Nat \X Nat : ss[1] < ss[2]}
           T == (0 .. n) \ S
<1>0. IsWellFoundedOn(Less, Nat)
  BY NatLessThanWellFounded DEF OpToRel
<1>1. SUFFICES ASSUME T # {} PROVE FALSE
  OBVIOUS
<1>2. PICK m \in T : \A y \in T : <<y, m>> \notin Less
  <2>1. T \subseteq Nat
    OBVIOUS
  <2> HIDE DEF T, Less
  <2> QED BY <1>0, <1>1, <2>1, WFMin, Zenon
<1>3. m \in 1 .. n /\ m - 1 \in Nat /\ m - 1 < m /\ m - 1 \in 0 .. n
  OBVIOUS
<1>4. m - 1 \notin T
  <2>1. <<m - 1, m>> \in Less
    BY <1>3
  <2> HIDE DEF T, Less
  <2> QED BY <1>2, <2>1
<1> QED BY <1>3, <1>4

\* A function that starts at v and takes a step for each number.
Stepwise(n, V, v, step) ==
    \E f \in [0 .. n -> V] : f[0] = v /\ \A k \in 1 .. n : f[k] = step[k][f[k - 1]]

\* There is one.
LEMMA Recursion ==
    ASSUME NEW n \in Nat, NEW V, NEW v \in V, NEW step \in [1 .. n -> [V -> V]]
    PROVE  Stepwise(n, V, v, step)
<1> DEFINE Good(f, m) == f \in [0 .. n -> V] /\ f[0] = v /\ \A k \in 1 .. m : f[k] = step[k][f[k - 1]]
           S == {m \in 0 .. n : \E f : Good(f, m)}
<1>1. 0 \in S
  <2>1. Good([k \in 0 .. n |-> v], 0)
    OBVIOUS
  <2> HIDE DEF Good
  <2> QED BY <2>1
<1>2. ASSUME NEW m \in 1 .. n, m - 1 \in S PROVE m \in S
  <2>1. PICK f : Good(f, m - 1)
    <3> HIDE DEF Good
    <3> QED BY <1>2
  <2> DEFINE g == [f EXCEPT ![m] = step[m][f[m - 1]]]
  <2>2. step[m][f[m - 1]] \in V
    BY <2>1
  <2>3. g \in [0 .. n -> V] /\ g[m] = step[m][f[m - 1]] /\ \A k \in 0 .. n : k # m => g[k] = f[k]
    BY <2>1, <2>2
  <2>4. Good(g, m)
    <3> HIDE DEF g
    <3>1. g[0] = v
      BY <2>1, <2>3
    <3>2. ASSUME NEW k \in 1 .. m PROVE g[k] = step[k][g[k - 1]]
      <4>1. g[k - 1] = f[k - 1]
        BY <2>3
      <4>2. CASE k = m
        BY <2>3, <4>1, <4>2
      <4>3. CASE k # m
        BY <2>1, <2>3, <4>1, <4>3
      <4> QED BY <4>2, <4>3
    <3> QED BY <2>3, <3>1, <3>2
  <2> HIDE DEF Good, g
  <2> QED BY <2>4
<1>3. n \in S
  <2>1. \A m \in 1 .. n : m - 1 \in S => m \in S
    BY <1>2
  <2> HIDE DEF S
  <2>2. \A m \in 0 .. n : m \in S
    BY <1>1, <2>1, Induction
  <2> QED BY <2>2
<1> QED BY <1>3 DEF Stepwise

-----------------------------------------------------------------------------
(* prepare_content *)

PairRow == [order : Orders, tracking : Numbers \cup {None}]

Prepared == [rows : Seq(PairRow), missing : Nat, duplicates : Nat]

\* A row that is added leaves what prepare_content keeps.
LEMMA AddRowIs ==
    ASSUME NEW p \in Prepared, NEW r \in Row
    PROVE  AddRow(p, r) \in Prepared
<1>1. Pair(r) \in [order : Orders \cup {None}, tracking : Numbers \cup {None}] /\ Pair(r).order = r.order
  BY DEF Pair, Row, NormalizeTrackingNumber, Numbers
<1>2. r.order # None => Pair(r) \in PairRow
  BY <1>1 DEF PairRow
<1>3. p.rows \in Seq(PairRow) /\ p.missing + 1 \in Nat /\ p.duplicates + 1 \in Nat
  BY DEF Prepared
<1>4. r.order # None => Append(p.rows, Pair(r)) \in Seq(PairRow)
  BY <1>2, <1>3
<1> QED BY <1>3, <1>4 DEF AddRow, Prepared

\* DedupedRows row by row.
LEMMA Deduped ==
    ASSUME NEW upload \in Seq(Row)
    PROVE  \E f \in [0 .. Len(upload) -> Prepared] :
              /\ f[0] = NoRows /\ \A k \in 1 .. Len(upload) : f[k] = AddRow(f[k - 1], upload[k])
              /\ DedupedRows(upload) = f[Len(upload)]
<1> DEFINE n == Len(upload)
           step == [k \in 1 .. n |-> [p \in Prepared |-> AddRow(p, upload[k])]]
           Is(f) == f = [k \in 0 .. n |-> IF k = 0 THEN NoRows ELSE AddRow(f[k - 1], upload[k])]
           g == CHOOSE f : Is(f)
<1>0. n \in Nat
  OBVIOUS
<1>1. NoRows \in Prepared
  BY DEF NoRows, Prepared
<1>2. step \in [1 .. n -> [Prepared -> Prepared]]
  BY AddRowIs
<1>3. PICK f \in [0 .. n -> Prepared] : f[0] = NoRows /\ \A k \in 1 .. n : f[k] = step[k][f[k - 1]]
  <2>1. Stepwise(n, Prepared, NoRows, step)
    <3> HIDE DEF n, step
    <3> QED BY <1>0, <1>1, <1>2, Recursion
  <2> QED BY <2>1 DEF Stepwise
<1>4. ASSUME NEW k \in 1 .. n PROVE f[k - 1] \in Prepared /\ f[k] = AddRow(f[k - 1], upload[k])
  <2>1. k - 1 \in 0 .. n
    OBVIOUS
  <2>2. f[k - 1] \in Prepared /\ f[k] = step[k][f[k - 1]]
    BY <1>3, <2>1
  <2> QED BY <2>2
<1>5. Is(f)
  BY <1>3, <1>4
<1>6. Is(g)
  <2> HIDE DEF Is
  <2> QED BY <1>5
<1>7. g = f
  <2>1. \A k \in 0 .. n : k \in {i \in 0 .. n : g[i] = f[i]}
    <3> DEFINE S == {i \in 0 .. n : g[i] = f[i]}
    <3> HIDE DEF g
    <3>1. 0 \in S
      BY <1>3, <1>6
    <3>2. \A k \in 1 .. n : k - 1 \in S => k \in S
      BY <1>4, <1>6
    <3> HIDE DEF n, S
    <3>3. \A k \in 0 .. n : k \in S
      BY <1>0, <3>1, <3>2, Induction
    <3> QED BY <3>3 DEF S
  <2> HIDE DEF g
  <2> QED BY <1>6, <2>1, <1>3
<1>8. DedupedRows(upload) = g[n]
  BY DEF DedupedRows
<1> QED BY <1>3, <1>4, <1>7, <1>8

\* No two elements of a sequence are the same.
NoRepeats(seq) == \A i, j \in DOMAIN seq : seq[i] = seq[j] => i = j

\* One more element that was not there.
LEMMA NoRepeatsMore ==
    ASSUME NEW S, NEW seq \in Seq(S), NEW e \in S, NoRepeats(seq), ~Contains(seq, e)
    PROVE  /\ NoRepeats(Append(seq, e))
           /\ \A x : Contains(Append(seq, e), x) <=> Contains(seq, x) \/ x = e
<1> DEFINE more == Append(seq, e)
<1>1. /\ more \in Seq(S) /\ Len(more) = Len(seq) + 1 /\ more[Len(seq) + 1] = e
      /\ Len(seq) \in Nat /\ \A i \in 1 .. Len(seq) : more[i] = seq[i]
  OBVIOUS
<1> HIDE DEF more
<1>2. DOMAIN more = 1 .. Len(seq) + 1 /\ DOMAIN seq = 1 .. Len(seq)
  BY <1>1
<1>3. \A i \in 1 .. Len(seq) : seq[i] # e
  BY DEF Contains
<1>4. NoRepeats(more)
  BY <1>1, <1>2, <1>3 DEF NoRepeats
<1>5. \A x : Contains(more, x) <=> Contains(seq, x) \/ x = e
  BY <1>1 DEF Contains
<1> QED BY <1>4, <1>5 DEF more

\* The first k rows of an upload as they are kept: their pairs with an order number, each once.
KeptOf(upload, k, rows) ==
    /\ NoRepeats(rows)
    /\ \A p : Contains(rows, p) <=>
                 \E i \in 1 .. k : upload[i].order # None /\ p = Pair(upload[i])

\* The rows that are kept, row by row.
LEMMA DedupedIs ==
    ASSUME NEW upload \in Seq(Row)
    PROVE  \E f \in [0 .. Len(upload) -> Prepared] :
              /\ f[0] = NoRows /\ \A k \in 1 .. Len(upload) : f[k] = AddRow(f[k - 1], upload[k])
              /\ DedupedRows(upload) = f[Len(upload)]
              /\ \A k \in 0 .. Len(upload) : KeptOf(upload, k, f[k].rows)
<1> DEFINE n == Len(upload)
           Kept(rows, k) == KeptOf(upload, k, rows)
<1>1. PICK f \in [0 .. n -> Prepared] :
          /\ f[0] = NoRows /\ \A k \in 1 .. n : f[k] = AddRow(f[k - 1], upload[k])
          /\ DedupedRows(upload) = f[n]
  BY Deduped
<1> DEFINE S == {k \in 0 .. n : Kept(f[k].rows, k)}
<1>2. 0 \in S
  BY <1>1 DEF NoRows, Contains, NoRepeats, KeptOf
<1>3. ASSUME NEW k \in 1 .. n, k - 1 \in S PROVE k \in S
  <2> DEFINE p == f[k - 1]
             r == upload[k]
  <2>1. /\ p \in Prepared /\ Kept(p.rows, k - 1) /\ f[k] = AddRow(p, r) /\ r \in Row
        /\ p.rows \in Seq(PairRow)
    BY <1>1, <1>3 DEF Prepared
  <2>2. \A i \in 1 .. k : i \in 1 .. k - 1 \/ i = k
    OBVIOUS
  <2>3. CASE r.order = None
    <3>1. f[k].rows = p.rows
      BY <2>1, <2>3 DEF AddRow, Prepared
    <3> QED BY <2>1, <2>2, <2>3, <3>1 DEF KeptOf
  <2>4. CASE r.order # None /\ Contains(p.rows, Pair(r))
    <3>1. f[k].rows = p.rows
      BY <2>1, <2>4 DEF AddRow, Prepared
    <3> QED BY <2>1, <2>2, <2>4, <3>1 DEF KeptOf
  <2>5. CASE r.order # None /\ ~Contains(p.rows, Pair(r))
    <3>1. f[k].rows = Append(p.rows, Pair(r))
      BY <2>1, <2>5 DEF AddRow, Prepared
    <3>2. Pair(r) \in PairRow
      BY <2>1, <2>5 DEF Pair, PairRow, Row, NormalizeTrackingNumber, Numbers
    <3>3. /\ NoRepeats(f[k].rows)
          /\ \A x : Contains(f[k].rows, x) <=> Contains(p.rows, x) \/ x = Pair(r)
      BY <2>1, <2>5, <3>1, <3>2, NoRepeatsMore DEF KeptOf
    <3> QED BY <2>1, <2>2, <2>5, <3>3 DEF KeptOf
  <2> QED BY <2>3, <2>4, <2>5
<1>4. \A k \in 0 .. n : k \in S
  <2>1. n \in Nat /\ \A k \in 1 .. n : k - 1 \in S => k \in S
    BY <1>3
  <2> HIDE DEF n, S
  <2> QED BY <1>2, <2>1, Induction
<1> QED BY <1>1, <1>4

Queries == Seq(Numbers)

\* A number that is added leaves what the list of queries is.
LEMMA AddNumberIs ==
    ASSUME NEW numbers \in Queries, NEW row \in PairRow
    PROVE  AddNumber(numbers, row) \in Queries
<1>1. row.tracking \in Numbers \cup {None}
  BY DEF PairRow
<1> QED BY <1>1 DEF AddNumber, Queries

\* QueryNumbers row by row.
LEMMA Queried ==
    ASSUME NEW rows \in Seq(PairRow)
    PROVE  \E f \in [0 .. Len(rows) -> Queries] :
              /\ f[0] = <<>> /\ \A k \in 1 .. Len(rows) : f[k] = AddNumber(f[k - 1], rows[k])
              /\ QueryNumbers(rows) = f[Len(rows)]
<1> DEFINE n == Len(rows)
           first == <<>>
           step == [k \in 1 .. n |-> [p \in Queries |-> AddNumber(p, rows[k])]]
           Is(f) == f = [k \in 0 .. n |-> IF k = 0 THEN <<>> ELSE AddNumber(f[k - 1], rows[k])]
           g == CHOOSE f : Is(f)
<1>0. n \in Nat
  OBVIOUS
<1>1. first \in Queries
  BY DEF Queries
<1>2. step \in [1 .. n -> [Queries -> Queries]]
  BY AddNumberIs
<1>3. PICK f \in [0 .. n -> Queries] :
          f[0] = first /\ \A k \in 1 .. n : f[k] = step[k][f[k - 1]]
  <2>1. Stepwise(n, Queries, first, step)
    <3> HIDE DEF n, step, first
    <3> QED BY <1>0, <1>1, <1>2, Recursion
  <2> HIDE DEF n, step, first
  <2> QED BY <2>1 DEF Stepwise
<1>4. ASSUME NEW k \in 1 .. n
      PROVE  f[k - 1] \in Queries /\ f[k] = AddNumber(f[k - 1], rows[k])
  <2>1. k - 1 \in 0 .. n
    OBVIOUS
  <2>2. f[k - 1] \in Queries /\ f[k] = step[k][f[k - 1]]
    BY <1>3, <2>1
  <2> QED BY <2>2
<1>5. Is(f)
  BY <1>3, <1>4
<1>6. Is(g)
  <2> HIDE DEF Is
  <2> QED BY <1>5
<1>7. g = f
  <2>1. \A k \in 0 .. n : k \in {i \in 0 .. n : g[i] = f[i]}
    <3> DEFINE S == {i \in 0 .. n : g[i] = f[i]}
    <3> HIDE DEF g
    <3>1. 0 \in S
      BY <1>3, <1>6
    <3>2. ASSUME NEW k \in 1 .. n, k - 1 \in S PROVE k \in S
      <4>1. g[k] = AddNumber(g[k - 1], rows[k]) /\ g[k - 1] = f[k - 1]
        BY <1>6, <3>2
      <4> QED BY <1>4, <4>1
    <3> HIDE DEF n, S
    <3>3. \A k \in 0 .. n : k \in S
      BY <1>0, <3>1, <3>2, Induction
    <3> QED BY <3>3 DEF S
  <2> HIDE DEF g
  <2> QED BY <1>6, <2>1, <1>3
<1>8. QueryNumbers(rows) = g[n]
  BY DEF QueryNumbers
<1> QED BY <1>3, <1>4, <1>7, <1>8

\* The numbers to query of the first k rows: theirs, each once.
QueriesOf(rows, k, numbers) ==
    /\ NoRepeats(numbers)
    /\ \A x : Contains(numbers, x) <=> x # None /\ \E i \in 1 .. k : x = rows[i].tracking

\* The numbers to query, row by row.
LEMMA QueriedIs ==
    ASSUME NEW rows \in Seq(PairRow)
    PROVE  \E f \in [0 .. Len(rows) -> Queries] :
              /\ f[0] = <<>> /\ \A k \in 1 .. Len(rows) : f[k] = AddNumber(f[k - 1], rows[k])
              /\ QueryNumbers(rows) = f[Len(rows)]
              /\ \A k \in 0 .. Len(rows) : QueriesOf(rows, k, f[k])
<1> DEFINE n == Len(rows)
           Kept(numbers, k) == QueriesOf(rows, k, numbers)
<1>1. PICK f \in [0 .. n -> Queries] :
          /\ f[0] = <<>> /\ \A k \in 1 .. n : f[k] = AddNumber(f[k - 1], rows[k])
          /\ QueryNumbers(rows) = f[n]
  BY Queried
<1> DEFINE S == {k \in 0 .. n : Kept(f[k], k)}
<1>2. 0 \in S
  BY <1>1 DEF Contains, NoRepeats, QueriesOf
<1>3. ASSUME NEW k \in 1 .. n, k - 1 \in S PROVE k \in S
  <2> DEFINE p == f[k - 1]
             r == rows[k]
  <2>1. /\ p \in Seq(Numbers) /\ Kept(p, k - 1) /\ f[k] = AddNumber(p, r)
        /\ r.tracking \in Numbers \cup {None}
    <3>1. p \in Queries /\ Kept(p, k - 1) /\ f[k] = AddNumber(p, r)
      BY <1>1, <1>3
    <3>2. r \in PairRow
      OBVIOUS
    <3> QED BY <3>1, <3>2 DEF PairRow, Queries
  <2>2. \A i \in 1 .. k : i \in 1 .. k - 1 \/ i = k
    OBVIOUS
  <2>3. CASE r.tracking = None \/ Contains(p, r.tracking)
    <3>1. f[k] = p
      BY <2>1, <2>3 DEF AddNumber
    <3> QED BY <2>1, <2>2, <2>3, <3>1 DEF QueriesOf
  <2>4. CASE ~(r.tracking = None \/ Contains(p, r.tracking))
    <3>1. f[k] = Append(p, r.tracking) /\ r.tracking \in Numbers
      BY <2>1, <2>4 DEF AddNumber
    <3>2. /\ NoRepeats(f[k])
          /\ \A x : Contains(f[k], x) <=> Contains(p, x) \/ x = r.tracking
      BY <2>1, <2>4, <3>1, NoRepeatsMore DEF QueriesOf
    <3> QED BY <2>1, <2>2, <2>4, <3>2 DEF QueriesOf
  <2> QED BY <2>3, <2>4
<1>4. \A k \in 0 .. n : k \in S
  <2>1. n \in Nat /\ \A k \in 1 .. n : k - 1 \in S => k \in S
    BY <1>3
  <2> HIDE DEF n, S
  <2> QED BY <1>2, <2>1, Induction
<1> QED BY <1>1, <1>4

\* What the rest relies on of prepare_content.
LEMMA PreparedIs ==
    ASSUME NEW upload \in Seq(Row)
    PROVE  LET p == PrepareContent(upload) IN
           /\ p.rows \in Seq(PairRow) /\ NoRepeats(p.rows)
           /\ ToSet(p.rows) = {Pair(r) : r \in {s \in ToSet(upload) : s.order # None}}
           /\ p.numbers \in Seq(Numbers) /\ NoRepeats(p.numbers)
           /\ \A x : x \in ToSet(p.numbers) <=> x # None /\ \E r \in ToSet(p.rows) : x = r.tracking
<1> DEFINE p == PrepareContent(upload)
<1>1. p.rows = DedupedRows(upload).rows /\ p.numbers = QueryNumbers(p.rows)
  BY DEF PrepareContent
<1> HIDE DEF p
<1>2. /\ p.rows \in Seq(PairRow) /\ NoRepeats(p.rows)
      /\ \A x : Contains(p.rows, x) <=>
                   \E i \in 1 .. Len(upload) : upload[i].order # None /\ x = Pair(upload[i])
  <2>1. PICK f \in [0 .. Len(upload) -> Prepared] :
            DedupedRows(upload) = f[Len(upload)] /\ \A k \in 0 .. Len(upload) : KeptOf(upload, k, f[k].rows)
    BY DedupedIs
  <2>2. Len(upload) \in 0 .. Len(upload)
    OBVIOUS
  <2> QED BY <1>1, <2>1, <2>2 DEF KeptOf, Prepared
<1>3. /\ p.numbers \in Seq(Numbers) /\ NoRepeats(p.numbers)
      /\ \A x : Contains(p.numbers, x) <=>
                   x # None /\ \E i \in 1 .. Len(p.rows) : x = p.rows[i].tracking
  <2>1. PICK f \in [0 .. Len(p.rows) -> Queries] :
            QueryNumbers(p.rows) = f[Len(p.rows)] /\ \A k \in 0 .. Len(p.rows) : QueriesOf(p.rows, k, f[k])
    BY <1>2, QueriedIs
  <2>2. Len(p.rows) \in 0 .. Len(p.rows)
    BY <1>2
  <2> QED BY <1>1, <2>1, <2>2 DEF QueriesOf, Queries
<1>4. /\ \A x : x \in ToSet(p.rows) <=> Contains(p.rows, x)
      /\ \A x : x \in ToSet(p.numbers) <=> Contains(p.numbers, x)
  BY <1>2, <1>3 DEF ToSet, Contains
<1>5. \A x : x \in ToSet(p.rows) <=> x \in {Pair(r) : r \in {s \in ToSet(upload) : s.order # None}}
  <2>1. \A x : (\E i \in 1 .. Len(upload) : upload[i].order # None /\ x = Pair(upload[i]))
               <=> \E r \in ToSet(upload) : r.order # None /\ x = Pair(r)
    BY DEF ToSet
  <2> QED BY <1>2, <1>4, <2>1
<1>6. \A x : x \in ToSet(p.numbers) <=> x # None /\ \E r \in ToSet(p.rows) : x = r.tracking
  <2>1. \A x : (\E i \in 1 .. Len(p.rows) : x = p.rows[i].tracking)
               <=> \E r \in ToSet(p.rows) : x = r.tracking
    BY <1>2 DEF ToSet
  <2> QED BY <1>3, <1>4, <2>1
<1> QED BY <1>2, <1>3, <1>5, <1>6 DEF p
-----------------------------------------------------------------------------
(* What the rows of a run promise, of every upload *)

\* The first occurrences among the first k rows.
FirstsTo(upload, k) == {i \in 1 .. k : FirstOccurrence(upload, i)}

\* One row more is one first occurrence more, or none.
LEMMA FirstsGrow ==
    ASSUME NEW upload, NEW k \in Nat \ {0}, IsFiniteSet(FirstsTo(upload, k - 1))
    PROVE  /\ IsFiniteSet(FirstsTo(upload, k))
           /\ FirstOccurrence(upload, k) =>
                 /\ FirstsTo(upload, k) = FirstsTo(upload, k - 1) \cup {k}
                 /\ Cardinality(FirstsTo(upload, k)) = Cardinality(FirstsTo(upload, k - 1)) + 1
           /\ ~FirstOccurrence(upload, k) => FirstsTo(upload, k) = FirstsTo(upload, k - 1)
<1>1. ASSUME FirstOccurrence(upload, k)
      PROVE  /\ FirstsTo(upload, k) = FirstsTo(upload, k - 1) \cup {k}
             /\ k \notin FirstsTo(upload, k - 1)
  BY <1>1 DEF FirstsTo
<1>2. ASSUME ~FirstOccurrence(upload, k) PROVE FirstsTo(upload, k) = FirstsTo(upload, k - 1)
  BY <1>2 DEF FirstsTo
<1>3. CASE FirstOccurrence(upload, k)
  BY <1>1, <1>3, FS_AddElement
<1>4. CASE ~FirstOccurrence(upload, k)
  BY <1>2, <1>4
<1> QED BY <1>3, <1>4

\* There are as many up to some row as up to k only if there are none between.
LEMMA FirstsRank ==
    ASSUME NEW upload, NEW k \in Nat, NEW i \in FirstsTo(upload, k), IsFiniteSet(FirstsTo(upload, k))
    PROVE  Cardinality(FirstsTo(upload, i)) \in 1 .. Cardinality(FirstsTo(upload, k))
<1>1. /\ FirstsTo(upload, i) \subseteq FirstsTo(upload, k) /\ FirstsTo(upload, i) # {}
  BY DEF FirstsTo
<1>2. /\ IsFiniteSet(FirstsTo(upload, i))
      /\ Cardinality(FirstsTo(upload, i)) <= Cardinality(FirstsTo(upload, k))
  BY <1>1, FS_Subset
<1>3. Cardinality(FirstsTo(upload, i)) \in Nat /\ Cardinality(FirstsTo(upload, k)) \in Nat
  BY <1>2, FS_CardinalityType
<1>4. Cardinality(FirstsTo(upload, i)) # 0
  BY <1>1, <1>2, FS_EmptySet
<1> QED BY <1>2, <1>3, <1>4

\* The rows that the summary counts.
RowsSeen(p) == p.missing + p.duplicates + Len(p.rows)

\* A row that is added is counted once: missing its order, a repetition, or kept.
LEMMA OneRowSeen ==
    ASSUME NEW p \in Prepared, NEW r \in Row
    PROVE  RowsSeen(p) \in Nat /\ RowsSeen(AddRow(p, r)) = RowsSeen(p) + 1
<1> DEFINE q == AddRow(p, r)
<1>1. p.missing \in Nat /\ p.duplicates \in Nat /\ p.rows \in Seq(PairRow) /\ Len(p.rows) \in Nat
  BY DEF Prepared
<1>2. \/ q.missing = p.missing + 1 /\ q.duplicates = p.duplicates /\ q.rows = p.rows
      \/ q.missing = p.missing /\ q.duplicates = p.duplicates + 1 /\ q.rows = p.rows
      \/ /\ q.missing = p.missing /\ q.duplicates = p.duplicates
         /\ q.rows = Append(p.rows, Pair(r))
  BY DEF AddRow, Prepared
<1> HIDE DEF q
<1>3. Len(Append(p.rows, Pair(r))) = Len(p.rows) + 1
  BY <1>1
<1>4. \/ q.missing = p.missing + 1 /\ q.duplicates = p.duplicates /\ Len(q.rows) = Len(p.rows)
      \/ q.missing = p.missing /\ q.duplicates = p.duplicates + 1 /\ Len(q.rows) = Len(p.rows)
      \/ q.missing = p.missing /\ q.duplicates = p.duplicates /\ Len(q.rows) = Len(p.rows) + 1
  BY <1>2, <1>3
<1>5. RowsSeen(q) = RowsSeen(p) + 1
  <2>1. p.missing \in Nat /\ p.duplicates \in Nat /\ Len(p.rows) \in Nat
    BY <1>1
  <2> QED BY <2>1, <1>4 DEF RowsSeen
<1> QED BY <1>1, <1>5 DEF RowsSeen, q

\* The first k rows are counted, and kept in order.
CountedTo(upload, k, p) ==
    /\ RowsSeen(p) = k
    /\ IsFiniteSet(FirstsTo(upload, k)) /\ Len(p.rows) = Cardinality(FirstsTo(upload, k))
    /\ \A i \in FirstsTo(upload, k) :
          p.rows[Cardinality(FirstsTo(upload, i))] = Pair(upload[i])

\* Row by row, every row is counted once: missing its order, a repetition, or kept.
LEMMA RowsCounted ==
    ASSUME NEW upload \in Seq(Row)
    PROVE  CountedTo(upload, Len(upload), DedupedRows(upload))
<1> DEFINE n == Len(upload)
<1>0. n \in Nat
  OBVIOUS
<1>1. PICK f \in [0 .. n -> Prepared] :
          /\ f[0] = NoRows /\ \A k \in 1 .. n : f[k] = AddRow(f[k - 1], upload[k])
          /\ DedupedRows(upload) = f[n]
          /\ \A k \in 0 .. n : KeptOf(upload, k, f[k].rows)
  BY DedupedIs
<1> DEFINE S == {k \in 0 .. n : CountedTo(upload, k, f[k])}
<1>2. 0 \in S
  <2>1. FirstsTo(upload, 0) = {}
    BY DEF FirstsTo
  <2>2. IsFiniteSet({}) /\ Cardinality({}) = 0
    BY FS_EmptySet
  <2>3. f[0] = NoRows /\ Len(<<>>) = 0
    BY <1>1
  <2>4. CountedTo(upload, 0, NoRows)
    <3>1. NoRows.missing = 0 /\ NoRows.duplicates = 0 /\ Len(NoRows.rows) = 0
      BY <2>3 DEF NoRows
    <3> QED BY <2>1, <2>2, <3>1 DEF CountedTo, RowsSeen
  <2> QED BY <1>0, <2>3, <2>4
<1>3. ASSUME NEW k \in 1 .. n, k - 1 \in S PROVE k \in S
  <2> DEFINE p == f[k - 1]
             q == f[k]
             r == upload[k]
  <2>1. /\ CountedTo(upload, k - 1, p) /\ KeptOf(upload, k - 1, p.rows) /\ q = AddRow(p, r)
        /\ p \in Prepared /\ p.rows \in Seq(PairRow) /\ r \in Row /\ r = upload[k] /\ k - 1 \in 0 .. n
    <3>1. k - 1 \in 0 .. n
      OBVIOUS
    <3>2. p \in Prepared /\ q = AddRow(p, r) /\ KeptOf(upload, k - 1, p.rows)
      BY <1>1, <3>1
    <3>3. CountedTo(upload, k - 1, p) /\ r \in Row
      BY <1>3
    <3> HIDE DEF p, q
    <3> QED BY <3>1, <3>2, <3>3 DEF Prepared
  <2>2. /\ RowsSeen(q) = k
        /\ IsFiniteSet(FirstsTo(upload, k - 1))
        /\ Len(p.rows) = Cardinality(FirstsTo(upload, k - 1))
        /\ \A i \in FirstsTo(upload, k - 1) :
              p.rows[Cardinality(FirstsTo(upload, i))] = Pair(upload[i])
    <3>1. RowsSeen(q) = RowsSeen(p) + 1 /\ RowsSeen(p) = k - 1
      BY <2>1, OneRowSeen DEF CountedTo
    <3> HIDE DEF p, q
    <3> QED BY <2>1, <3>1 DEF CountedTo
  <2> HIDE DEF p, q, r, n
  <2>3. FirstOccurrence(upload, k) <=> r.order # None /\ ~Contains(p.rows, Pair(r))
    <3>1. \A i : Pair(upload[i]) = Pair(r) => upload[i].order = r.order
      BY DEF Pair
    <3>2. Contains(p.rows, Pair(r)) <=>
              \E i \in 1 .. k - 1 : upload[i].order # None /\ Pair(r) = Pair(upload[i])
      BY <2>1 DEF KeptOf
    <3> QED BY <2>1, <3>1, <3>2 DEF FirstOccurrence
  <2>4. /\ IsFiniteSet(FirstsTo(upload, k))
        /\ FirstOccurrence(upload, k) =>
              /\ FirstsTo(upload, k) = FirstsTo(upload, k - 1) \cup {k}
              /\ Cardinality(FirstsTo(upload, k)) = Cardinality(FirstsTo(upload, k - 1)) + 1
        /\ ~FirstOccurrence(upload, k) => FirstsTo(upload, k) = FirstsTo(upload, k - 1)
    BY <2>2, FirstsGrow
  <2>5. ASSUME r.order = None PROVE CountedTo(upload, k, q)
    <3>1. q.rows = p.rows
      BY <2>1, <2>5 DEF AddRow, Prepared
    <3>2. FirstsTo(upload, k) = FirstsTo(upload, k - 1) /\ k - 1 \in Int /\ k \in Int
      BY <2>1, <2>3, <2>4, <2>5, <1>0
    <3> QED BY <2>2, <3>1, <3>2 DEF CountedTo
  <2>6. ASSUME r.order # None, Contains(p.rows, Pair(r)) PROVE CountedTo(upload, k, q)
    <3>1. q.rows = p.rows
      BY <2>1, <2>6 DEF AddRow, Prepared
    <3>2. FirstsTo(upload, k) = FirstsTo(upload, k - 1) /\ k - 1 \in Int /\ k \in Int
      BY <2>1, <2>3, <2>4, <2>6, <1>0
    <3> QED BY <2>2, <3>1, <3>2 DEF CountedTo
  <2>7. ASSUME r.order # None, ~Contains(p.rows, Pair(r)) PROVE CountedTo(upload, k, q)
    <3>1. q.rows = Append(p.rows, Pair(r))
      BY <2>1, <2>7 DEF AddRow, Prepared
    <3>2. /\ FirstsTo(upload, k) = FirstsTo(upload, k - 1) \cup {k}
          /\ Cardinality(FirstsTo(upload, k)) = Len(p.rows) + 1
      BY <2>2, <2>3, <2>4, <2>7
    <3>3. /\ Len(q.rows) = Len(p.rows) + 1 /\ q.rows[Len(p.rows) + 1] = Pair(r)
          /\ \A i \in 1 .. Len(p.rows) : q.rows[i] = p.rows[i]
      BY <2>1, <3>1
    <3>4. ASSUME NEW i \in FirstsTo(upload, k)
          PROVE  q.rows[Cardinality(FirstsTo(upload, i))] = Pair(upload[i])
      <4>1. CASE i = k
        BY <2>1, <3>2, <3>3, <4>1
      <4>2. CASE i # k
        <5>1. i \in FirstsTo(upload, k - 1) /\ k - 1 \in Nat
          BY <2>1, <3>2, <4>2, <1>0
        <5>2. Cardinality(FirstsTo(upload, i)) \in 1 .. Len(p.rows)
          BY <2>2, <5>1, FirstsRank
        <5> QED BY <2>2, <3>3, <5>1, <5>2
      <4> QED BY <4>1, <4>2
    <3> QED BY <2>2, <2>4, <3>2, <3>3, <3>4 DEF CountedTo
  <2>8. CountedTo(upload, k, q)
    BY <2>5, <2>6, <2>7
  <2>9. k \in 0 .. n
    BY <1>0
  <2> QED BY <2>8, <2>9 DEF q
<1>4. n \in S
  <2>1. \A k \in 1 .. n : k - 1 \in S => k \in S
    BY <1>3
  <2> HIDE DEF n, S
  <2>2. \A k \in 0 .. n : k \in S
    BY <1>0, <1>2, <2>1, Induction
  <2> QED BY <1>0, <2>2
<1> QED BY <1>1, <1>4

\* A number occurs in row m, and in none before.
FirstAt(rows, m, x) == rows[m].tracking = x /\ \A i \in 1 .. m - 1 : rows[i].tracking # x

\* The numbers of the first k rows have first occurrences there, in their own order.
OrderedTo(rows, k, numbers) ==
    /\ \A i \in DOMAIN numbers : \E m \in 1 .. k : FirstAt(rows, m, numbers[i])
    /\ \A i, j \in DOMAIN numbers : i < j =>
          \A m, l \in 1 .. k : FirstAt(rows, m, numbers[i]) /\ FirstAt(rows, l, numbers[j]) => m < l

\* The first occurrence is one row.
LEMMA FirstIsOne ==
    ASSUME NEW rows, NEW m \in Nat \ {0}, NEW l \in Nat \ {0}, NEW x,
           FirstAt(rows, m, x), FirstAt(rows, l, x)
    PROVE  m = l
BY DEF FirstAt

\* Row by row, the numbers to query are listed in the order of their first occurrences.
LEMMA NumbersOrdered ==
    ASSUME NEW rows \in Seq(PairRow)
    PROVE  OrderedTo(rows, Len(rows), QueryNumbers(rows))
<1> DEFINE n == Len(rows)
<1>0. n \in Nat
  OBVIOUS
<1>1. PICK f \in [0 .. n -> Queries] :
          /\ f[0] = <<>> /\ \A k \in 1 .. n : f[k] = AddNumber(f[k - 1], rows[k])
          /\ QueryNumbers(rows) = f[n]
          /\ \A k \in 0 .. n : QueriesOf(rows, k, f[k])
  BY QueriedIs
<1> DEFINE S == {k \in 0 .. n : OrderedTo(rows, k, f[k])}
<1>2. 0 \in S
  BY <1>1 DEF OrderedTo
<1>3. ASSUME NEW k \in 1 .. n, k - 1 \in S PROVE k \in S
  <2> DEFINE p == f[k - 1]
             q == f[k]
             x == rows[k].tracking
  <2>1. /\ OrderedTo(rows, k - 1, p) /\ QueriesOf(rows, k - 1, p) /\ q = AddNumber(p, rows[k])
        /\ p \in Seq(Numbers) /\ k \in Nat \ {0} /\ x = rows[k].tracking
    BY <1>1, <1>3 DEF Queries
  <2> HIDE DEF p, q, x, n
  <2>2. CASE x = None \/ Contains(p, x)
    <3>1. q = p
      BY <2>1, <2>2 DEF AddNumber
    <3>2. ASSUME NEW i \in DOMAIN p
          PROVE  /\ \E m \in 1 .. k - 1 : FirstAt(rows, m, p[i])
                 /\ ~FirstAt(rows, k, p[i])
      <4>1. PICK m \in 1 .. k - 1 : FirstAt(rows, m, p[i])
        BY <2>1, <3>2 DEF OrderedTo
      <4> QED BY <2>1, <4>1 DEF FirstAt
    <3>3. \A m \in 1 .. k : m \in 1 .. k - 1 \/ m = k
      BY <2>1
    <3>4. \A m \in 1 .. k - 1 : m \in 1 .. k
      BY <2>1
    <3>5. OrderedTo(rows, k, p)
      BY <2>1, <3>2, <3>3, <3>4 DEF OrderedTo
    <3> QED BY <3>1, <3>5 DEF q
  <2>3. CASE x # None /\ ~Contains(p, x)
    <3>1. q = Append(p, x)
      BY <2>1, <2>3 DEF AddNumber
    <3>2. FirstAt(rows, k, x)
      BY <2>1, <2>3 DEF QueriesOf, FirstAt
    <3>3. /\ DOMAIN q = 1 .. Len(p) + 1 /\ q[Len(p) + 1] = x
          /\ \A i \in 1 .. Len(p) : q[i] = p[i]
          /\ DOMAIN p = 1 .. Len(p) /\ Len(p) \in Nat
      BY <2>1, <3>1
    <3>4. ASSUME NEW i \in 1 .. Len(p)
          PROVE  /\ \E m \in 1 .. k - 1 : FirstAt(rows, m, q[i])
                 /\ \A m \in 1 .. k : FirstAt(rows, m, q[i]) => m \in 1 .. k - 1
      <4>1. PICK m \in 1 .. k - 1 : FirstAt(rows, m, p[i])
        BY <2>1, <3>3 DEF OrderedTo
      <4>2. \A l \in 1 .. k : FirstAt(rows, l, p[i]) => l = m
        BY <2>1, <4>1, FirstIsOne
      <4> QED BY <3>3, <4>1, <4>2
    <3>5. \A m \in 1 .. k : FirstAt(rows, m, x) => m = k
      BY <2>1, <3>2, FirstIsOne
    <3>6. ASSUME NEW i \in DOMAIN q PROVE \E m \in 1 .. k : FirstAt(rows, m, q[i])
      <4>1. CASE i = Len(p) + 1
        BY <2>1, <3>2, <3>3, <4>1
      <4>2. CASE i # Len(p) + 1
        <5>1. i \in 1 .. Len(p)
          BY <3>3, <4>2
        <5> QED BY <2>1, <3>4, <5>1
      <4> QED BY <4>1, <4>2
    <3>7. ASSUME NEW i \in DOMAIN q, NEW j \in DOMAIN q, i < j, NEW m \in 1 .. k, NEW l \in 1 .. k,
                 FirstAt(rows, m, q[i]), FirstAt(rows, l, q[j])
          PROVE  m < l
      <4>1. i \in 1 .. Len(p)
        BY <3>3, <3>7
      <4>2. m \in 1 .. k - 1
        BY <3>4, <3>7, <4>1
      <4>3. CASE j = Len(p) + 1
        <5>1. l = k
          BY <3>3, <3>5, <3>7, <4>3
        <5> QED BY <2>1, <4>2, <5>1
      <4>4. CASE j # Len(p) + 1
        <5>1. j \in 1 .. Len(p)
          BY <3>3, <4>4
        <5>2. l \in 1 .. k - 1
          BY <3>4, <3>7, <5>1
        <5>3. FirstAt(rows, m, p[i]) /\ FirstAt(rows, l, p[j])
          BY <3>3, <3>7, <4>1, <5>1
        <5> QED BY <2>1, <3>3, <3>7, <4>1, <4>2, <5>1, <5>2, <5>3 DEF OrderedTo
      <4> QED BY <4>3, <4>4
    <3> QED BY <3>6, <3>7 DEF OrderedTo, q
  <2> QED BY <2>2, <2>3
<1>4. n \in S
  <2>1. \A k \in 1 .. n : k - 1 \in S => k \in S
    BY <1>3
  <2> HIDE DEF n, S
  <2>2. \A k \in 0 .. n : k \in S
    BY <1>0, <1>2, <2>1, Induction
  <2> QED BY <1>0, <2>2
<1> QED BY <1>1, <1>4

\* Of any upload, the rows kept are the first occurrences of the pairs in the order of the
\* sheet, each number is queried once, in the order of the rows, and the summary counts every
\* row once, whatever SF answers.
THEOREM RowsAreCountedHolds ==
    ASSUME NEW upload \in Seq(Row), NEW map, \A x \in DOMAIN map : map[x] # NoTracking
    PROVE  /\ KeepsFirstOccurrences(upload)
           /\ QueriesEachNumberOnce(upload)
           /\ SummaryAddsUp(upload, map)
<1> DEFINE p == PrepareContent(upload)
           rows == p.rows
           numbers == p.numbers
<1>1. /\ rows = DedupedRows(upload).rows /\ numbers = QueryNumbers(rows)
      /\ p.missing = DedupedRows(upload).missing /\ p.duplicates = DedupedRows(upload).duplicates
      /\ p.total_rows = Len(upload)
      /\ p.no_tracking = Cardinality({i \in DOMAIN rows : rows[i].tracking = None})
  BY DEF PrepareContent
<1>2. /\ rows \in Seq(PairRow) /\ numbers \in Seq(Numbers)
      /\ \A x : x \in ToSet(numbers) <=> x # None /\ \E r \in ToSet(rows) : x = r.tracking
  BY PreparedIs
<1>3. CountedTo(upload, Len(upload), DedupedRows(upload))
  BY RowsCounted
<1>4. KeepsFirstOccurrences(upload)
  <2>1. Firsts(upload) = FirstsTo(upload, Len(upload))
    BY DEF Firsts, FirstsTo
  <2>2. \A i \in Firsts(upload) : {k \in Firsts(upload) : k <= i} = FirstsTo(upload, i)
    BY DEF Firsts, FirstsTo
  <2> HIDE DEF p
  <2> QED BY <1>1, <1>3, <2>1, <2>2 DEF KeepsFirstOccurrences, CountedTo, p
<1>5. QueriesEachNumberOnce(upload)
  <2> DEFINE First(n) == CHOOSE i \in DOMAIN rows :
                             rows[i].tracking = n /\ \A k \in 1 .. i - 1 : rows[k].tracking # n
  <2>1. ToSet(numbers) = {rows[i].tracking : i \in DOMAIN rows} \ {None}
    <3>1. ToSet(rows) = {rows[i] : i \in DOMAIN rows}
      BY DEF ToSet
    <3> HIDE DEF p
    <3> QED BY <1>2, <3>1
  <2>2. OrderedTo(rows, Len(rows), numbers) /\ DOMAIN rows = 1 .. Len(rows)
    BY <1>1, <1>2, NumbersOrdered
  <2>3. ASSUME NEW n, \E m \in 1 .. Len(rows) : FirstAt(rows, m, n)
        PROVE  First(n) \in 1 .. Len(rows) /\ FirstAt(rows, First(n), n)
    <3> HIDE DEF p
    <3> QED BY <2>2, <2>3 DEF FirstAt
  <2>4. \A i, k \in DOMAIN numbers : i < k => First(numbers[i]) < First(numbers[k])
    <3> HIDE DEF p, First
    <3> QED BY <2>2, <2>3 DEF OrderedTo
  <2> QED BY <2>1, <2>4 DEF QueriesEachNumberOnce
<1>6. SummaryAddsUp(upload, map)
  <2> DEFINE response == BuildRunResponse(p, map)
  <2>1. /\ DOMAIN response = DOMAIN rows /\ Len(response) = Len(rows)
        /\ \A i \in DOMAIN rows : response[i].status = RowStatus(rows[i], map)
    <3>1. /\ DOMAIN response = DOMAIN rows
          /\ \A i \in DOMAIN rows : response[i].status = RowStatus(rows[i], map)
      BY DEF BuildRunResponse
    <3>2. DOMAIN rows = 1 .. Len(rows) /\ Len(rows) \in Nat
      BY <1>2
    <3>3. Len(response) = Len(rows)
      <4> HIDE DEF response, p
      <4> QED BY <3>1, <3>2
    <3> QED BY <3>1, <3>3
  <2>2. \A r : RowStatus(r, map) = NoTracking <=> r.tracking = None
    BY DEF RowStatus, NoTracking, NoResponse
  <2>3. {i \in DOMAIN response : response[i].status = NoTracking}
          = {i \in DOMAIN rows : rows[i].tracking = None}
    <3> HIDE DEF response, p
    <3> QED BY <2>1, <2>2
  <2>4. StatusCount(response, NoTracking) = p.no_tracking
    BY <1>1, <2>3 DEF StatusCount
  <2>5. p.missing + p.duplicates + Len(response) = p.total_rows
    BY <1>1, <1>3, <2>1 DEF CountedTo, RowsSeen
  <2> QED BY <2>4, <2>5 DEF SummaryAddsUp
<1> QED BY <1>4, <1>5, <1>6
=============================================================================
