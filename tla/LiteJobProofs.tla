---------------------------- MODULE LiteJobProofs ----------------------------
(***************************************************************************)
(* Proofs about a Lite job from both ends.                                 *)
(*                                                                         *)
(* LiteFetch, for any sheet, any settings and any order in which the       *)
(* batches are answered and collected: the progress of a job never goes    *)
(* back and adds up, and a completed job has the answer of SF in every     *)
(* row.                                                                    *)
(*                                                                         *)
(* LitePage, for any number of files, jobs, reloads and restarts: its      *)
(* types, that a completed job is announced once, that a running job stays *)
(* in sight, and that a result leaves the page for a reason.               *)
(*                                                                         *)
(* MCLite, which is a behaviour of one or of the other.                    *)
(***************************************************************************)
EXTENDS MCLite, LiteRowsProofs

-----------------------------------------------------------------------------
(* Arithmetic *)

\* Multiplication keeps the order.
LEMMA Times ==
    ASSUME NEW a \in Int, NEW b \in Int, NEW k \in Nat, a <= b
    PROVE  a * k <= b * k
OBVIOUS

\* What an integer quotient is.
LEMMA Divided ==
    ASSUME NEW a \in Nat, NEW k \in Nat \ {0}
    PROVE  /\ a \div k \in Nat
           /\ (a \div k) * k <= a /\ a < ((a \div k) + 1) * k
OBVIOUS

\* So does division.
LEMMA Quotients ==
    ASSUME NEW a \in Nat, NEW b \in Nat, NEW k \in Nat \ {0}, a <= b
    PROVE  a \div k <= b \div k
<1> DEFINE p == a \div k
           q == b \div k
<1>1. p \in Nat /\ q \in Nat /\ p * k <= a /\ b < (q + 1) * k
  BY Divided
<1> HIDE DEF p, q
<1>2. p * k < (q + 1) * k
  BY <1>1
<1>3. ~(q + 1 <= p)
  BY <1>1, <1>2, Times
<1> QED BY <1>1, <1>3 DEF p, q

\* range(0, total, size) cuts the places 1 .. total into batches: each place is in one of
\* them, none is empty, none reaches beyond the end, and no two overlap.
LEMMA Batching ==
    ASSUME NEW total \in Nat, NEW size \in Nat \ {0}
    PROVE  LET batches == (total + size - 1) \div size
               Low(b) == (b - 1) * size + 1
               High(b) == AtMost(b * size, total)
           IN /\ batches \in Nat /\ (batches = 0 <=> total = 0)
              /\ \A i \in 1 .. total : \E b \in 1 .. batches : i \in Low(b) .. High(b)
              /\ \A b \in 1 .. batches :
                    Low(b) \in Nat \ {0} /\ High(b) \in Nat /\ Low(b) <= High(b) /\ High(b) <= total
              /\ \A b, c \in 1 .. batches : b < c => High(b) < Low(c)
<1> DEFINE batches == (total + size - 1) \div size
           Low(b) == (b - 1) * size + 1
           High(b) == AtMost(b * size, total)
<1>1. /\ batches \in Nat
      /\ batches * size <= total + size - 1 /\ total + size - 1 < (batches + 1) * size
  BY Divided
<1>2. (batches + 1) * size = batches * size + size
  BY <1>1
<1> HIDE DEF batches
<1>3. total <= batches * size
  BY <1>1, <1>2
<1>4. ASSUME NEW b \in 1 .. batches
      PROVE  /\ b * size = (b - 1) * size + size /\ (b - 1) * size \in Nat
             /\ (b - 1) * size < total
  <2>1. b * size = (b - 1) * size + size /\ (b - 1) * size \in Int /\ batches * size \in Int
    BY <1>1
  <2>2. b * size <= batches * size
    BY <1>1, Times
  <2>3. 0 * size <= (b - 1) * size
    BY Times
  <2> QED BY <1>1, <2>1, <2>2, <2>3
<1>5. ASSUME NEW b \in 1 .. batches
      PROVE  Low(b) \in Nat \ {0} /\ High(b) \in Nat /\ Low(b) <= High(b) /\ High(b) <= total
  BY <1>4 DEF AtMost
<1>6. ASSUME NEW i \in 1 .. total PROVE \E b \in 1 .. batches : i \in Low(b) .. High(b)
  <2> DEFINE q == (i - 1) \div size + 1
  <2>1. /\ (i - 1) \div size \in Nat
        /\ ((i - 1) \div size) * size <= i - 1 /\ i - 1 < ((i - 1) \div size + 1) * size
    BY Divided
  <2>2. q \in Nat \ {0} /\ (q - 1) * size <= i - 1 /\ i - 1 < q * size /\ q * size \in Int
        /\ (q - 1) * size \in Int
    BY <2>1
  <2> HIDE DEF q
  <2>3. q <= batches
    <3>1. SUFFICES ASSUME batches <= q - 1 PROVE FALSE
      BY <1>1, <2>2
    <3>2. batches * size <= (q - 1) * size
      BY <1>1, <2>2, <3>1, Times
    <3> QED BY <1>3, <1>1, <2>2, <3>2
  <2>4. i \in Low(q) .. High(q)
    BY <2>2 DEF AtMost
  <2>5. q \in 1 .. batches
    BY <1>1, <2>2, <2>3
  <2> HIDE DEF Low, High
  <2> QED BY <2>4, <2>5
<1>7. ASSUME NEW b \in 1 .. batches, NEW c \in 1 .. batches, b < c PROVE High(b) < Low(c)
  <2>1. b * size <= (c - 1) * size
    <3>1. b \in Int /\ c - 1 \in Int /\ b <= c - 1 /\ size \in Nat
      BY <1>1, <1>7
    <3> QED BY <3>1, Times
  <2>2. b * size \in Int /\ (c - 1) * size \in Int
    BY <1>1
  <2> QED BY <2>1, <2>2 DEF AtMost
<1>8. batches = 0 <=> total = 0
  <2>1. CASE batches = 0
    BY <1>3, <2>1
  <2>2. CASE batches # 0
    BY <1>1, <1>4, <2>2
  <2> QED BY <2>1, <2>2
<1> QED BY <1>1, <1>5, <1>6, <1>7, <1>8 DEF batches

-----------------------------------------------------------------------------
(* The inductive invariant *)

States == {"waiting", "queued", "running", "done", "collected"}

Maps == UNION {[S -> Outcomes] : S \in SUBSET Numbers}

Total == Len(prepared.numbers)

\* The places in prepared.numbers of the numbers of a batch.
Indices(b) == (b - 1) * batch_size + 1 .. AtMost(b * batch_size, Total)

\* The places of the numbers that are collected.
Counted == {i \in 1 .. Total : \E b \in Batches : batch[b] = "collected" /\ i \in Indices(b)}

\* The worker, the record's status and what prepare_content made of the upload.
JobInv ==
    /\ settings \in AllSettings /\ sheet \in Sheets
    /\ pc \in {"prepare", "fetch", "submit", "collect", "respond", "save", "completed",
               "failed"}
    /\ status = CASE pc = "prepare" -> "queued"
                  [] pc \in {"completed", "failed"} -> pc
                  [] OTHER -> "running"
    /\ prepared \in {PrepareContent(<<>>), PrepareContent(sheet)}
    /\ pc = "prepare" => prepared = PrepareContent(<<>>)
    /\ pc \notin {"prepare", "failed"} => prepared = PrepareContent(sheet)

\* The batches are handed over in order and none is forgotten.
PoolInv ==
    /\ submitted \in 0 .. BatchCount(prepared)
    /\ batch \in [Batches -> States]
    /\ attempt \in [Batches -> 1 .. max_attempts]
    /\ \A b \in Batches : batch[b] = "waiting" <=> b > submitted
    /\ pc \in {"prepare", "fetch"} => submitted = 0
    /\ pc = "submit" => submitted < BatchCount(prepared)
    /\ pc \in {"respond", "save", "completed"} => \A b \in Batches : batch[b] = "collected"

\* The record counts the numbers of the batches that are collected, and no others.
RecordInv ==
    /\ query_target_count = Total
    /\ completed_targets = Cardinality(Counted)
    /\ remaining_targets = Total - completed_targets
    /\ Total > 0 => progress_percent = (completed_targets * 100) \div Total
    /\ Total = 0 => progress_percent \in {0, 100}
    /\ Total = 0 /\ pc \notin {"prepare", "failed"} => progress_percent = 100

\* A thread answers each number of its batch, and only theirs, as SF answered.
AnswersInv ==
    /\ unmappable \subseteq Batches
    /\ answers \in [Batches -> Maps]
    /\ \A b \in Batches :
          IF batch[b] \in {"done", "collected"}
          THEN /\ DOMAIN answers[b] = NumbersOf(b)
               /\ \A n \in NumbersOf(b) :
                     answers[b][n] = Mapped <=> n \in routed /\ b \notin unmappable
          ELSE /\ answers[b] = EmptyMap
               /\ b \notin unmappable /\ \A n \in NumbersOf(b) : n \notin routed
    /\ pc = "prepare" => routed = {} /\ unmappable = {}

\* What the worker has collected is what the threads answered.
CollectedInv ==
    /\ route_map \in Maps
    /\ \A n \in DOMAIN route_map :
          \E b \in Batches : batch[b] = "collected" /\ n \in NumbersOf(b)
    /\ \A b \in Batches : batch[b] = "collected" =>
          \A n \in NumbersOf(b) : n \in DOMAIN route_map /\ route_map[n] = answers[b][n]
    /\ pc \in {"save", "completed"} => result = BuildRunResponse(prepared, route_map)

IInv == JobInv /\ PoolInv /\ RecordInv /\ AnswersInv /\ CollectedInv

-----------------------------------------------------------------------------
(* What a job was prepared for *)

\* What the settings are clamped to.
LEMMA Clamped ==
    ASSUME JobInv
    PROVE  batch_size \in 1 .. 10 /\ max_attempts \in Nat \ {0}
<1>1. settings.batch_size \in Int /\ settings.attempts \in Int
  BY FetchAssumption DEF JobInv
<1> QED BY <1>1 DEF batch_size, max_attempts, AtLeastOne, AtMost

\* The uploads that can be prepared: before a job is, an empty one.
LEMMA Uploads ==
    ASSUME JobInv
    PROVE  <<>> \in Seq(Row) /\ sheet \in Seq(Row)
BY FetchAssumption DEF JobInv

\* An upload has some number of batches, none of them if there is nothing to query.
LEMMA CountIs ==
    ASSUME JobInv, NEW upload \in Seq(Row)
    PROVE  LET p == PrepareContent(upload) IN
           BatchCount(p) \in Nat /\ (BatchCount(p) = 0 <=> Len(p.numbers) = 0)
<1> DEFINE p == PrepareContent(upload)
<1>1. p.numbers \in Seq(Numbers)
  BY PreparedIs
<1> HIDE DEF p
<1>2. batch_size \in Nat \ {0} /\ Len(p.numbers) \in Nat
  BY <1>1, Clamped
<1> QED BY <1>2, Batching DEF BatchCount, p

\* Nothing is queried before the upload is read.
LEMMA NothingQueried == PrepareContent(<<>>).numbers = <<>>
<1> DEFINE p == PrepareContent(<<>>)
<1>1. <<>> \in Seq(Row) /\ ToSet(<<>>) = {}
  BY DEF ToSet
<1>2. /\ p.numbers \in Seq(Numbers)
      /\ ToSet(p.rows) = {Pair(r) : r \in {s \in ToSet(<<>>) : s.order # None}}
      /\ \A x : x \in ToSet(p.numbers) <=> x # None /\ \E r \in ToSet(p.rows) : x = r.tracking
  BY <1>1, PreparedIs
<1> HIDE DEF p
<1>3. ToSet(p.numbers) = {}
  BY <1>1, <1>2
<1>4. Len(p.numbers) = 0
  <2>1. Len(p.numbers) \in Nat /\ \A i \in 1 .. Len(p.numbers) : p.numbers[i] \in ToSet(p.numbers)
    BY <1>2 DEF ToSet
  <2>2. Len(p.numbers) > 0 => 1 \in 1 .. Len(p.numbers)
    BY <2>1
  <2> QED BY <1>3, <2>1, <2>2
<1> QED BY <1>2, <1>4 DEF p

\* The rows and the numbers of the job, each once, and all the numbers of the rows.
LEMMA JobIs ==
    ASSUME JobInv
    PROVE  /\ prepared.rows \in Seq(PairRow) /\ NoRepeats(prepared.rows)
           /\ prepared.numbers \in Seq(Numbers) /\ NoRepeats(prepared.numbers)
           /\ \A x : x \in ToSet(prepared.numbers)
                       <=> x # None /\ \E r \in ToSet(prepared.rows) : x = r.tracking
           /\ Total \in Nat
           /\ BatchCount(prepared) \in Nat /\ (BatchCount(prepared) = 0 <=> Total = 0)
<1>1. PICK upload \in Seq(Row) : prepared = PrepareContent(upload)
  BY Uploads DEF JobInv
<1>2. /\ prepared.rows \in Seq(PairRow) /\ NoRepeats(prepared.rows)
      /\ prepared.numbers \in Seq(Numbers) /\ NoRepeats(prepared.numbers)
      /\ \A x : x \in ToSet(prepared.numbers)
                  <=> x # None /\ \E r \in ToSet(prepared.rows) : x = r.tracking
  BY <1>1, PreparedIs
<1>3. BatchCount(prepared) \in Nat /\ (BatchCount(prepared) = 0 <=> Len(prepared.numbers) = 0)
  BY <1>1, CountIs
<1> QED BY <1>2, <1>3 DEF Total

\* The batches share out the places of the numbers.
LEMMA PlacesAre ==
    ASSUME JobInv
    PROVE  /\ \A i \in 1 .. Total : \E b \in Batches : i \in Indices(b)
           /\ \A b \in Batches :
                 /\ Indices(b) # {} /\ Indices(b) \subseteq 1 .. Total
                 /\ IsFiniteSet(Indices(b)) /\ Cardinality(Indices(b)) = NewlyCompleted(b)
                 /\ NewlyCompleted(b) \in Nat
                 /\ NumbersOf(b) = {prepared.numbers[i] : i \in Indices(b)}
           /\ \A b, c \in Batches : b # c => Indices(b) \cap Indices(c) = {}
<1> DEFINE Low(b) == (b - 1) * batch_size + 1
           High(b) == AtMost(b * batch_size, Total)
<1>1. /\ batch_size \in Nat \ {0} /\ Total \in Nat /\ prepared.numbers \in Seq(Numbers)
      /\ Total = Len(prepared.numbers)
  BY JobIs, Clamped DEF Total
<1>2. BatchCount(prepared) = (Total + batch_size - 1) \div batch_size
  BY DEF BatchCount, Total
<1>3. /\ BatchCount(prepared) \in Nat
      /\ \A i \in 1 .. Total : \E b \in Batches : i \in Low(b) .. High(b)
      /\ \A b \in Batches :
            Low(b) \in Nat \ {0} /\ High(b) \in Nat /\ Low(b) <= High(b) /\ High(b) <= Total
      /\ \A b, c \in Batches : b < c => High(b) < Low(c)
  <2> DEFINE size == batch_size
  <2> HIDE DEF Total, size
  <2>1. size \in Nat \ {0} /\ Total \in Nat
    BY <1>1 DEF size
  <2> DEFINE batches == (Total + size - 1) \div size
             F(b) == (b - 1) * size + 1
             L(b) == AtMost(b * size, Total)
  <2>2. /\ batches \in Nat
        /\ \A i \in 1 .. Total : \E b \in 1 .. batches : i \in F(b) .. L(b)
        /\ \A b \in 1 .. batches : F(b) \in Nat \ {0} /\ L(b) \in Nat /\ F(b) <= L(b) /\ L(b) <= Total
        /\ \A b, c \in 1 .. batches : b < c => L(b) < F(c)
    BY <2>1, Batching
  <2> QED BY <1>2, <2>2 DEF Batches, size
<1>4. \A b : Indices(b) = Low(b) .. High(b)
  BY DEF Indices
<1>5. \A b : BatchNumbers(b) = SubSeq(prepared.numbers, Low(b), High(b))
  BY DEF BatchNumbers, Total
<1> HIDE DEF Low, High
<1>6. ASSUME NEW b \in Batches
      PROVE  /\ Indices(b) # {} /\ Indices(b) \subseteq 1 .. Total
             /\ IsFiniteSet(Indices(b)) /\ Cardinality(Indices(b)) = NewlyCompleted(b)
             /\ NewlyCompleted(b) \in Nat
             /\ NumbersOf(b) = {prepared.numbers[i] : i \in Indices(b)}
  <2> DEFINE m == Low(b)
             n == High(b)
             part == BatchNumbers(b)
  <2>1. m \in Nat \ {0} /\ n \in Nat /\ m <= n /\ n <= Total
    BY <1>3
  <2>2. Indices(b) = m .. n /\ part = SubSeq(prepared.numbers, m, n)
    BY <1>4, <1>5
  <2> HIDE DEF m, n, part
  <2>3. part \in Seq(Numbers) /\ Len(part) = n - m + 1 /\ \A i \in 1 .. n - m + 1 : part[i] = prepared.numbers[m + i - 1]
    BY <1>1, <2>1, <2>2
  <2>4. IsFiniteSet(m .. n) /\ Cardinality(m .. n) = n - m + 1
    BY <2>1, FS_Interval
  <2>5. ToSet(part) = {prepared.numbers[i] : i \in m .. n}
    <3>1. ToSet(part) = {part[i] : i \in 1 .. n - m + 1}
      BY <2>3 DEF ToSet
    <3>2. \A i \in 1 .. n - m + 1 : m + i - 1 \in m .. n
      BY <2>1
    <3>3. \A i \in m .. n : i - m + 1 \in 1 .. n - m + 1 /\ part[i - m + 1] = prepared.numbers[i]
      BY <2>1, <2>3
    <3>4. \A i \in 1 .. n - m + 1 : part[i] \in {prepared.numbers[j] : j \in m .. n}
      BY <2>3, <3>2
    <3>5. \A j \in m .. n : prepared.numbers[j] \in {part[i] : i \in 1 .. n - m + 1}
      BY <3>3
    <3> QED BY <3>1, <3>4, <3>5
  <2>6. m .. n # {} /\ m .. n \subseteq 1 .. Total
    <3>1. m \in m .. n
      BY <2>1
    <3>2. Total \in Nat /\ \A i \in m .. n : i \in 1 .. Total
      BY <1>1, <2>1
    <3> QED BY <3>1, <3>2
  <2>7. NewlyCompleted(b) = n - m + 1 /\ n - m + 1 \in Nat
    BY <2>1, <2>3 DEF NewlyCompleted, part
  <2>8. NumbersOf(b) = {prepared.numbers[i] : i \in m .. n}
    BY <2>5 DEF NumbersOf, part
  <2> QED BY <2>2, <2>4, <2>6, <2>7, <2>8
<1>7. ASSUME NEW b \in Batches, NEW c \in Batches, b # c PROVE Indices(b) \cap Indices(c) = {}
  <2>1. b \in Int /\ c \in Int /\ (b < c \/ c < b)
    BY <1>3, <1>7 DEF Batches
  <2>2. High(b) < Low(c) \/ High(c) < Low(b)
    BY <1>3, <2>1
  <2>3. Low(b) \in Nat /\ High(b) \in Nat /\ Low(c) \in Nat /\ High(c) \in Nat
    BY <1>3
  <2> QED BY <1>4, <2>2, <2>3
<1> QED BY <1>3, <1>4, <1>6, <1>7

\* No number is in two batches.
LEMMA SharesAreDisjoint ==
    ASSUME JobInv, NEW b \in Batches, NEW c \in Batches, b # c
    PROVE  NumbersOf(b) \cap NumbersOf(c) = {}
<1>1. /\ Indices(b) \subseteq 1 .. Total /\ Indices(c) \subseteq 1 .. Total
      /\ NumbersOf(b) = {prepared.numbers[i] : i \in Indices(b)}
      /\ NumbersOf(c) = {prepared.numbers[i] : i \in Indices(c)}
      /\ Indices(b) \cap Indices(c) = {}
  BY PlacesAre
<1>2. NoRepeats(prepared.numbers) /\ DOMAIN prepared.numbers = 1 .. Total
  BY JobIs DEF Total
<1>3. ASSUME NEW i \in Indices(b), NEW j \in Indices(c), prepared.numbers[i] = prepared.numbers[j]
      PROVE  FALSE
  BY <1>1, <1>2, <1>3 DEF NoRepeats
<1> QED BY <1>1, <1>3

\* Every number is in a batch, and the numbers of a batch are the job's.
LEMMA SharesAreAll ==
    ASSUME JobInv
    PROVE  /\ \A b \in Batches : NumbersOf(b) \subseteq Numbers
           /\ \A n : n \in ToSet(prepared.numbers) <=> \E b \in Batches : n \in NumbersOf(b)
<1>1. /\ prepared.numbers \in Seq(Numbers) /\ DOMAIN prepared.numbers = 1 .. Total
      /\ \A i \in 1 .. Total : prepared.numbers[i] \in Numbers
  BY JobIs DEF Total
<1>2. ToSet(prepared.numbers) = {prepared.numbers[i] : i \in 1 .. Total}
  BY <1>1 DEF ToSet
<1>3. /\ \A i \in 1 .. Total : \E b \in Batches : i \in Indices(b)
      /\ \A b \in Batches : /\ Indices(b) \subseteq 1 .. Total
                            /\ NumbersOf(b) = {prepared.numbers[i] : i \in Indices(b)}
  BY PlacesAre
<1> QED BY <1>1, <1>2, <1>3

\* What is counted is a part of the total: nothing if no batch is collected, all if all are.
LEMMA CountedIs ==
    ASSUME JobInv
    PROVE  /\ IsFiniteSet(Counted) /\ Counted \subseteq 1 .. Total
           /\ Cardinality(Counted) \in 0 .. Total
           /\ (\A b \in Batches : batch[b] # "collected") => Cardinality(Counted) = 0
           /\ (\A b \in Batches : batch[b] = "collected") => Cardinality(Counted) = Total
<1>1. Total \in Nat /\ \A i \in 1 .. Total : \E b \in Batches : i \in Indices(b)
  BY JobIs, PlacesAre
<1>2. IsFiniteSet(1 .. Total) /\ Cardinality(1 .. Total) = Total
  BY <1>1, FS_Interval
<1>3. Counted \subseteq 1 .. Total
  BY DEF Counted
<1>4. IsFiniteSet(Counted) /\ Cardinality(Counted) <= Cardinality(1 .. Total)
  BY <1>2, <1>3, FS_Subset
<1>5. Cardinality(Counted) \in Nat
  BY <1>4, FS_CardinalityType
<1>6. ASSUME \A b \in Batches : batch[b] # "collected" PROVE Cardinality(Counted) = 0
  <2>1. Counted = {}
    BY <1>6 DEF Counted
  <2> QED BY <2>1, FS_EmptySet
<1>7. ASSUME \A b \in Batches : batch[b] = "collected" PROVE Cardinality(Counted) = Total
  <2>1. Counted = 1 .. Total
    BY <1>1, <1>7 DEF Counted
  <2> QED BY <1>2, <2>1
<1> QED BY <1>1, <1>2, <1>3, <1>4, <1>5, <1>6, <1>7

\* A batch that is collected adds its share.
LEMMA CountedMore ==
    ASSUME JobInv, PoolInv, NEW b \in Batches, batch[b] # "collected",
           UNCHANGED <<prepared, settings>>, batch' = [batch EXCEPT ![b] = "collected"]
    PROVE  /\ Cardinality(Counted') = Cardinality(Counted) + NewlyCompleted(b)
           /\ Cardinality(Counted') <= Total
<1>1. Batches' = Batches /\ Total' = Total /\ \A c : Indices(c)' = Indices(c)
  BY DEF Batches, BatchCount, Total, Indices, batch_size
<1>2. \A c \in Batches : batch'[c] = "collected" <=> batch[c] = "collected" \/ c = b
  BY DEF PoolInv
<1>3. /\ Indices(b) \subseteq 1 .. Total
      /\ IsFiniteSet(Indices(b)) /\ Cardinality(Indices(b)) = NewlyCompleted(b)
      /\ \A c \in Batches : c # b => Indices(c) \cap Indices(b) = {}
  BY PlacesAre
<1>4. Counted' = {i \in 1 .. Total : \E c \in Batches : batch'[c] = "collected" /\ i \in Indices(c)}
  BY <1>1 DEF Counted
<1>5. Counted' = Counted \cup Indices(b)
  BY <1>2, <1>3, <1>4 DEF Counted
<1>6. Counted \cap Indices(b) = {}
  BY <1>3 DEF Counted
<1>7. IsFiniteSet(Counted)
  BY CountedIs
<1>8. Cardinality(Counted') = Cardinality(Counted) + Cardinality(Indices(b))
                              - Cardinality(Counted \cap Indices(b))
  BY <1>3, <1>5, <1>7, FS_Union
<1>9. Cardinality(Counted \cap Indices(b)) = 0
  BY <1>6, FS_EmptySet
<1>10. Cardinality(Counted) \in Nat /\ NewlyCompleted(b) \in Nat /\ Total \in Nat
  BY <1>3, <1>7, FS_CardinalityType, JobIs
<1>11. Cardinality(Counted') <= Total
  <2>1. Counted' \subseteq 1 .. Total
    BY <1>4
  <2>2. IsFiniteSet(1 .. Total) /\ Cardinality(1 .. Total) = Total
    <3>1. Total \in Nat
      BY <1>10
    <3> QED BY <3>1, FS_Interval
  <2> HIDE DEF Counted, Total
  <2> QED BY <2>1, <2>2, FS_Subset
<1> QED BY <1>3, <1>8, <1>9, <1>10, <1>11

-----------------------------------------------------------------------------
(* It holds at first and every step keeps it *)

\* Only Prepare changes what the job is for.
LEMMA PlanStays ==
    ASSUME UNCHANGED <<settings, prepared>>
    PROVE  /\ Batches' = Batches /\ BatchCount(prepared)' = BatchCount(prepared)
           /\ Total' = Total /\ max_attempts' = max_attempts
           /\ \A b : NumbersOf(b)' = NumbersOf(b) /\ Indices(b)' = Indices(b)
BY DEF Batches, BatchCount, Total, max_attempts, NumbersOf, BatchNumbers, Indices, batch_size

\* What one thread's answer changes: its batch is done, with a status for each of its
\* numbers, which is "MAPPED" for those that SF answered unless the batch is given up.
LEMMA AnswerIs ==
    ASSUME NEW b \in Batches, Answer(b)
    PROVE  /\ batch[b] = "running" /\ batch' = [batch EXCEPT ![b] = "done"]
           /\ UNCHANGED <<given, pc, prepared, record, submitted, attempt, route_map, result>>
           /\ \E map \in [NumbersOf(b) -> Outcomes], answered \in SUBSET NumbersOf(b) :
                 /\ answers' = [answers EXCEPT ![b] = map]
                 /\ routed' = routed \cup answered
                 /\ \/ unmappable' = unmappable
                       /\ \A n \in NumbersOf(b) : map[n] = Mapped <=> n \in answered
                    \/ unmappable' = unmappable \cup {b}
                       /\ \A n \in NumbersOf(b) : map[n] # Mapped
<1>1. /\ ClientError \in Outcomes /\ Unexpected \in Outcomes /\ Mapped \in Outcomes
      /\ Partial \in Outcomes
      /\ ClientError # Mapped /\ Unexpected # Mapped /\ Partial # Mapped
  BY DEF ClientError, Unexpected, Mapped, Partial, Outcomes
<1>2. ASSUME NEW outcome \in Outcomes
      PROVE  /\ Same(b, outcome) \in [NumbersOf(b) -> Outcomes]
             /\ \A n \in NumbersOf(b) : Same(b, outcome)[n] = outcome
  BY DEF Same
<1>3. ASSUME NEW outcome \in {ClientError, Unexpected}, Return(b, Same(b, outcome)), UNCHANGED history
      PROVE  \E map \in [NumbersOf(b) -> Outcomes], answered \in SUBSET NumbersOf(b) :
                /\ answers' = [answers EXCEPT ![b] = map]
                /\ routed' = routed \cup answered
                /\ unmappable' = unmappable
                /\ \A n \in NumbersOf(b) : map[n] = Mapped <=> n \in answered
  <2> DEFINE map == Same(b, outcome)
  <2>1. map \in [NumbersOf(b) -> Outcomes] /\ \A n \in NumbersOf(b) : map[n] # Mapped
    BY <1>1, <1>2
  <2>2. answers' = [answers EXCEPT ![b] = map] /\ routed' = routed \cup {} /\ unmappable' = unmappable
    BY <1>3 DEF Return, history
  <2> HIDE DEF map
  <2>3. {} \in SUBSET NumbersOf(b) /\ \A n \in NumbersOf(b) : map[n] = Mapped <=> n \in {}
    BY <2>1
  <2> QED BY <2>1, <2>2, <2>3
<1>4. CASE Exhausted(b)
  BY <1>1, <1>3, <1>4 DEF Exhausted, Return
<1>5. CASE Refused(b)
  BY <1>1, <1>3, <1>5 DEF Refused, Return
<1>6. CASE Broken(b)
  BY <1>1, <1>3, <1>6 DEF Broken, Return
<1>7. ASSUME NEW answered \in SUBSET NumbersOf(b), Routed(b, answered)
      PROVE  /\ RoutesOf(b, answered) \in [NumbersOf(b) -> Outcomes]
             /\ answers' = [answers EXCEPT ![b] = RoutesOf(b, answered)]
             /\ routed' = routed \cup answered /\ unmappable' = unmappable
             /\ \A n \in NumbersOf(b) : RoutesOf(b, answered)[n] = Mapped <=> n \in answered
  BY <1>1, <1>7 DEF Routed, Return, RoutesOf
<1>8. ASSUME NEW answered \in SUBSET NumbersOf(b), Unmappable(b, answered)
      PROVE  /\ Same(b, Unexpected) \in [NumbersOf(b) -> Outcomes]
             /\ answers' = [answers EXCEPT ![b] = Same(b, Unexpected)]
             /\ routed' = routed \cup answered /\ unmappable' = unmappable \cup {b}
             /\ \A n \in NumbersOf(b) : Same(b, Unexpected)[n] # Mapped
  BY <1>1, <1>2, <1>8 DEF Unmappable, Return
<1>9. CASE \E answered \in SUBSET NumbersOf(b) : Routed(b, answered) \/ Unmappable(b, answered)
  <2>1. PICK answered \in SUBSET NumbersOf(b) : Routed(b, answered) \/ Unmappable(b, answered)
    BY <1>9
  <2>2. CASE Routed(b, answered)
    BY <1>7, <2>2 DEF Routed, Return
  <2>3. CASE Unmappable(b, answered)
    BY <1>8, <2>3 DEF Unmappable, Return
  <2> QED BY <2>1, <2>2, <2>3
<1> QED BY <1>4, <1>5, <1>6, <1>9 DEF Answer

\* The first of the five holds at first, and each step keeps it.
LEMMA JobInvKept ==
    /\ Init => JobInv
    /\ JobInv /\ [Next]_vars => JobInv'
<1>1. Init => JobInv
  BY DEF Init, JobInv
<1>2. ASSUME JobInv, Next PROVE JobInv'
  <2>1. CASE Prepare
    BY <1>2, <2>1 DEF JobInv, Prepare, MarkRunning, given
  <2>2. CASE Fail
    BY <1>2, <2>2 DEF JobInv, Fail, MarkFailed, given
  <2>3. CASE Fetch
    BY <1>2, <2>3 DEF JobInv, Fetch, UpdateProgress, given
  <2>4. CASE Submit
    BY <1>2, <2>4 DEF JobInv, Submit, record, given
  <2>5. CASE \E b \in Batches : Collect(b)
    BY <1>2, <2>5 DEF JobInv, Collect, UpdateProgress, given
  <2>6. CASE Respond
    BY <1>2, <2>6 DEF JobInv, Respond, record, given
  <2>7. CASE Complete
    BY <1>2, <2>7 DEF JobInv, Complete, MarkCompleted, given
  <2>8. CASE \E b \in Batches : Take(b) \/ Retry(b)
    BY <1>2, <2>8 DEF JobInv, Take, Retry, record, given
  <2>9. CASE \E b \in Batches : Answer(b)
    <3>1. UNCHANGED <<given, pc, prepared, record>>
      BY <2>9, AnswerIs
    <3> QED BY <1>2, <3>1 DEF JobInv, record, given
  <2> QED BY <1>2, <2>1, <2>2, <2>3, <2>4, <2>5, <2>6, <2>7, <2>8, <2>9 DEF Next, Worker, Thread
<1>3. ASSUME JobInv, UNCHANGED vars PROVE JobInv'
  BY <1>3 DEF JobInv, vars, given, record
<1> QED BY <1>1, <1>2, <1>3

\* The second: the batches are handed over in order.
LEMMA PoolInvKept ==
    /\ Init => PoolInv
    /\ JobInv /\ PoolInv /\ [Next]_vars => PoolInv'
<1>1. ASSUME Init PROVE PoolInv
  <2>1. JobInv
    BY <1>1, JobInvKept
  <2>2. BatchCount(prepared) = 0
    BY <1>1, <2>1, Uploads, CountIs, NothingQueried DEF Init
  <2> QED BY <1>1, <2>2 DEF Init, PoolInv, Batches, States
<1>2. ASSUME JobInv, PoolInv, Next PROVE PoolInv'
  <2>0. BatchCount(prepared) \in Nat
    BY <1>2, JobIs
  <2>1. CASE Prepare
    <3>1. BatchCount(PrepareContent(sheet)) \in Nat
      BY <1>2, Uploads, CountIs
    <3>2. /\ prepared' = PrepareContent(sheet) /\ UNCHANGED <<settings, submitted>>
          /\ submitted = 0 /\ pc' = "fetch"
          /\ batch' = [b \in 1 .. BatchCount(prepared') |-> "waiting"]
          /\ attempt' = [b \in 1 .. BatchCount(prepared') |-> 1]
      BY <1>2, <2>1 DEF Prepare, PoolInv, given
    <3>3. BatchCount(prepared)' = BatchCount(PrepareContent(sheet)) /\ max_attempts' = max_attempts
          /\ BatchCount(prepared') = BatchCount(PrepareContent(sheet))
      BY <3>2 DEF BatchCount, batch_size, max_attempts
    <3>4. Batches' = 1 .. BatchCount(PrepareContent(sheet))
      BY <3>3 DEF Batches
    <3>5. 1 \in 1 .. max_attempts
      BY <1>2, Clamped
    <3> QED BY <3>1, <3>2, <3>3, <3>4, <3>5 DEF PoolInv, States
  <2> DEFINE Stays == UNCHANGED <<settings, prepared>>
  <2>2. CASE Stays
    <3>1. Batches' = Batches /\ BatchCount(prepared)' = BatchCount(prepared) /\ max_attempts' = max_attempts
      BY <2>2, PlanStays
    <3>2. CASE Fail \/ Respond \/ Complete \/ Fetch
      <4>1. UNCHANGED <<submitted, batch, attempt>>
        BY <3>2 DEF Fail, Respond, Complete, Fetch, pool
      <4>2. CASE Fetch
        <5>1. prepared.numbers = <<>> => BatchCount(prepared) = 0
          BY <1>2, JobIs DEF Total
        <5>2. prepared.numbers # <<>> => BatchCount(prepared) # 0
          BY <1>2, JobIs DEF Total
        <5> QED BY <1>2, <2>0, <3>1, <4>1, <4>2, <5>1, <5>2 DEF PoolInv, Fetch, Batches
      <4>3. CASE Fail \/ Respond \/ Complete
        BY <1>2, <3>1, <4>1, <4>3 DEF PoolInv, Fail, Respond, Complete
      <4> QED BY <3>2, <4>2, <4>3
    <3>3. CASE Submit
      <4>1. /\ submitted < BatchCount(prepared) /\ submitted' = submitted + 1
            /\ batch' = [batch EXCEPT ![submitted + 1] = "queued"] /\ attempt' = attempt
            /\ pc' = IF submitted + 1 = BatchCount(prepared) THEN "collect" ELSE "submit"
        BY <1>2, <3>3 DEF PoolInv, Submit
      <4> QED BY <1>2, <2>0, <3>1, <4>1 DEF PoolInv, Batches, States
    <3>4. CASE \E b \in Batches : Collect(b)
      <4>1. PICK b \in Batches : Collect(b)
        BY <3>4
      <4>2. /\ pc = "collect" /\ batch[b] = "done" /\ batch' = [batch EXCEPT ![b] = "collected"]
            /\ UNCHANGED <<submitted, attempt>>
            /\ pc' = IF \A c \in Batches : batch'[c] = "collected" THEN "respond" ELSE "collect"
        BY <4>1 DEF Collect
      <4> QED BY <1>2, <3>1, <4>2 DEF PoolInv, States
    <3>5. CASE \E b \in Batches : Take(b)
      <4>1. PICK b \in Batches : Take(b)
        BY <3>5
      <4>2. /\ batch[b] = "queued" /\ batch' = [batch EXCEPT ![b] = "running"]
            /\ UNCHANGED <<submitted, attempt, pc>>
        BY <4>1 DEF Take
      <4> QED BY <1>2, <3>1, <4>2 DEF PoolInv, States
    <3>6. CASE \E b \in Batches : Retry(b)
      <4>1. PICK b \in Batches : Retry(b)
        BY <3>6
      <4>2. /\ attempt[b] < max_attempts /\ attempt' = [attempt EXCEPT ![b] = @ + 1]
            /\ UNCHANGED <<submitted, batch, pc>>
        BY <4>1 DEF Retry
      <4>3. max_attempts \in Nat \ {0}
        BY <1>2, Clamped
      <4>4. attempt[b] + 1 \in 1 .. max_attempts
        BY <1>2, <4>2, <4>3 DEF PoolInv
      <4> QED BY <1>2, <3>1, <4>2, <4>4 DEF PoolInv
    <3>7. CASE \E b \in Batches : Answer(b)
      <4>1. PICK b \in Batches : Answer(b)
        BY <3>7
      <4>2. /\ batch[b] = "running" /\ batch' = [batch EXCEPT ![b] = "done"]
            /\ UNCHANGED <<submitted, attempt, pc>>
        BY <4>1, AnswerIs
      <4> QED BY <1>2, <3>1, <4>2 DEF PoolInv, States
    <3>8. CASE Prepare
      BY <2>1, <3>8
    <3> QED BY <1>2, <3>2, <3>3, <3>4, <3>5, <3>6, <3>7, <3>8 DEF Next, Worker, Thread
  <2>3. Prepare \/ Stays
    <3>1. ASSUME NEW b \in Batches, Answer(b) PROVE Stays
      BY <3>1, AnswerIs DEF given
    <3> QED BY <1>2, <3>1 DEF Next, Worker, Thread, Fail, Fetch, Submit, Collect, Respond,
                              Complete, Take, Retry, given
  <2> QED BY <2>1, <2>2, <2>3
<1>3. ASSUME PoolInv, UNCHANGED vars PROVE PoolInv'
  <2>1. Batches' = Batches /\ BatchCount(prepared)' = BatchCount(prepared) /\ max_attempts' = max_attempts
    BY <1>3, PlanStays DEF vars, given
  <2> QED BY <1>3, <2>1 DEF PoolInv, vars, pool
<1> QED BY <1>1, <1>2, <1>3

\* The percentages at the ends and between.
LEMMA Percentages ==
    ASSUME NEW n \in Nat \ {0}
    PROVE  /\ (0 * 100) \div n = 0 /\ (n * 100) \div n = 100
           /\ \A c, d \in Nat : c <= d => (c * 100) \div n <= (d * 100) \div n
           /\ \A c \in 0 .. n : (c * 100) \div n \in 0 .. 100
<1>1. (0 * 100) \div n = 0
  OBVIOUS
<1>2. (n * 100) \div n = 100
  OBVIOUS
<1>3. ASSUME NEW c \in Nat, NEW d \in Nat, c <= d PROVE (c * 100) \div n <= (d * 100) \div n
  <2>1. c * 100 \in Nat /\ d * 100 \in Nat /\ c * 100 <= d * 100
    BY <1>3
  <2> QED BY <2>1, Quotients
<1>4. ASSUME NEW c \in 0 .. n PROVE (c * 100) \div n \in 0 .. 100
  <2>1. c * 100 \in Nat /\ (c * 100) \div n <= (n * 100) \div n
    BY <1>3
  <2>2. (c * 100) \div n \in Nat
    BY <2>1, Divided
  <2> QED BY <1>2, <2>1, <2>2
<1> QED BY <1>1, <1>2, <1>3, <1>4

\* What is counted changes with the batches that are collected.
LEMMA CountedStays ==
    ASSUME UNCHANGED <<settings, prepared>>,
           \A b \in Batches : batch'[b] = "collected" <=> batch[b] = "collected"
    PROVE  Counted' = Counted
<1>1. Batches' = Batches /\ Total' = Total /\ \A b : Indices(b)' = Indices(b)
  BY PlanStays
<1> QED BY <1>1 DEF Counted

\* The third: the record adds up.
LEMMA RecordInvKept ==
    /\ Init => RecordInv
    /\ JobInv /\ PoolInv /\ RecordInv /\ [Next]_vars => RecordInv'
<1>1. ASSUME Init PROVE RecordInv
  <2>1. Total = 0
    BY <1>1, NothingQueried DEF Init, Total
  <2>2. Counted = {}
    BY <2>1 DEF Counted
  <2> QED BY <1>1, <2>1, <2>2, FS_EmptySet DEF Init, RecordInv
<1>2. ASSUME JobInv, PoolInv, RecordInv, Next PROVE RecordInv'
  <2>0. Total \in Nat /\ Cardinality(Counted) \in 0 .. Total
    BY <1>2, JobIs, CountedIs
  <2>1. CASE Prepare
    <3>1. /\ Total' \in Nat /\ Total' = Len(prepared'.numbers)
      <4>1. prepared' = PrepareContent(sheet) /\ sheet \in Seq(Row)
        BY <1>2, <2>1, Uploads DEF Prepare
      <4> QED BY <4>1, PreparedIs DEF Total
    <3>2. Counted' = {}
      <4>1. Batches' = 1 .. BatchCount(prepared') /\ batch' = [b \in 1 .. BatchCount(prepared') |-> "waiting"]
        BY <2>1 DEF Prepare, Batches, BatchCount, batch_size, given
      <4> QED BY <4>1 DEF Counted
    <3>3. Cardinality(Counted') = 0
      BY <3>2, FS_EmptySet
    <3>4. /\ query_target_count' = Total' /\ completed_targets' = 0 /\ remaining_targets' = Total'
          /\ progress_percent' = IF Total' = 0 THEN 100 ELSE 0
      BY <2>1, <3>1 DEF Prepare, MarkRunning
    <3>5. Total' > 0 => (completed_targets' * 100) \div Total' = 0
      <4> DEFINE total == Total'
      <4>1. total \in Nat /\ completed_targets' = 0
        BY <3>1, <3>4
      <4> HIDE DEF total
      <4>2. total > 0 => (0 * 100) \div total = 0
        BY <4>1, Percentages
      <4> QED BY <4>1, <4>2 DEF total
    <3>6. Total' > 0 => progress_percent' = (completed_targets' * 100) \div Total'
      <4>1. Total' > 0 => progress_percent' = 0
        BY <3>1, <3>4
      <4> QED BY <3>5, <4>1, Zenon
    <3>7. Total' = 0 => progress_percent' = 100
      BY <3>4
    <3>8. remaining_targets' = Total' - completed_targets'
      BY <3>1, <3>4
    <3> QED BY <3>3, <3>4, <3>6, <3>7, <3>8 DEF RecordInv
  <2>2. CASE Fail
    <3>1. UNCHANGED <<settings, prepared>> /\ batch' = batch
      BY <2>2 DEF Fail, given, pool
    <3>2. Counted' = Counted /\ Total' = Total
      BY <3>1, CountedStays, PlanStays
    <3> QED BY <1>2, <2>0, <2>2, <3>2 DEF RecordInv, Fail, MarkFailed
  <2>3. CASE Fetch
    <3>1. UNCHANGED <<settings, prepared>> /\ batch' = batch
      BY <2>3 DEF Fetch, given, pool
    <3>2. Counted' = Counted /\ Total' = Total
      BY <3>1, CountedStays, PlanStays
    <3>3. Cardinality(Counted) = 0
      <4>1. \A b \in Batches : batch[b] # "collected"
        BY <1>2, <2>3 DEF PoolInv, Fetch, Batches
      <4> QED BY <1>2, <4>1, CountedIs
    <3>4. /\ query_target_count' = Total /\ completed_targets' = 0
          /\ remaining_targets' = IF Total > 0 THEN Total - 0 ELSE 0
          /\ progress_percent' = IF Total = 0 THEN 100 ELSE (0 * 100) \div Total
      BY <1>2, <2>3 DEF RecordInv, Fetch, UpdateProgress, Total
    <3> QED BY <2>0, <3>2, <3>3, <3>4 DEF RecordInv
  <2>4. CASE Submit \/ Respond \/ \E b \in Batches : Thread(b)
    <3>1. /\ UNCHANGED <<settings, prepared>> /\ UNCHANGED record
          /\ pc' \in {"prepare", "failed"} => pc \in {"prepare", "failed"}
          /\ pc \in {"prepare", "failed"} => pc' \in {"prepare", "failed"}
          /\ \A b \in Batches : batch'[b] = "collected" <=> batch[b] = "collected"
      <4>1. CASE Submit
        BY <1>2, <4>1 DEF Submit, PoolInv, given, Batches
      <4>2. CASE Respond
        BY <4>2 DEF Respond, given, pool
      <4>3. ASSUME NEW b \in Batches, Take(b)
            PROVE  /\ UNCHANGED <<settings, prepared, pc>> /\ UNCHANGED record
                   /\ \A c \in Batches : batch'[c] = "collected" <=> batch[c] = "collected"
        BY <1>2, <4>3 DEF Take, PoolInv, given
      <4>4. ASSUME NEW b \in Batches, Retry(b)
            PROVE  UNCHANGED <<settings, prepared, pc, batch>> /\ UNCHANGED record
        BY <4>4 DEF Retry, given
      <4>5. ASSUME NEW b \in Batches, Answer(b)
            PROVE  /\ UNCHANGED <<settings, prepared, pc>> /\ UNCHANGED record
                   /\ \A c \in Batches : batch'[c] = "collected" <=> batch[c] = "collected"
        <5>1. /\ batch[b] = "running" /\ batch' = [batch EXCEPT ![b] = "done"]
              /\ UNCHANGED <<given, pc, prepared, record>>
          BY <4>5, AnswerIs
        <5> QED BY <1>2, <5>1 DEF PoolInv, given
      <4> QED BY <2>4, <4>1, <4>2, <4>3, <4>4, <4>5 DEF Thread
    <3>2. Counted' = Counted /\ Total' = Total
      BY <3>1, CountedStays, PlanStays
    <3> QED BY <1>2, <3>1, <3>2 DEF RecordInv, record
  <2>5. CASE \E b \in Batches : Collect(b)
    <3>1. PICK b \in Batches : Collect(b)
      BY <2>5
    <3>2. /\ UNCHANGED <<settings, prepared>> /\ batch[b] # "collected"
          /\ batch' = [batch EXCEPT ![b] = "collected"] /\ query_target_count' = query_target_count
          /\ completed_targets' = completed_targets + NewlyCompleted(b)
          /\ remaining_targets' = IF Total > completed_targets' THEN Total - completed_targets' ELSE 0
          /\ progress_percent' = IF Total = 0 THEN 100 ELSE (completed_targets' * 100) \div Total
      BY <3>1 DEF Collect, given, UpdateProgress, Total
    <3>3. /\ Cardinality(Counted') = Cardinality(Counted) + NewlyCompleted(b)
          /\ Cardinality(Counted') <= Total
      BY <1>2, <3>2, CountedMore
    <3>4. completed_targets' = Cardinality(Counted') /\ Total' = Total /\ NewlyCompleted(b) \in Nat
      BY <1>2, <3>2, <3>3, PlanStays, PlacesAre DEF RecordInv
    <3> QED BY <1>2, <2>0, <3>2, <3>3, <3>4 DEF RecordInv
  <2>6. CASE Complete
    <3>1. /\ UNCHANGED <<settings, prepared, batch>> /\ \A b \in Batches : batch[b] = "collected"
          /\ query_target_count' = Total /\ completed_targets' = Total
          /\ remaining_targets' = 0 /\ progress_percent' = 100
      BY <1>2, <2>6 DEF Complete, PoolInv, MarkCompleted, Total, given, pool
    <3>2. Counted' = Counted /\ Total' = Total /\ Cardinality(Counted) = Total
      BY <1>2, <3>1, CountedStays, PlanStays, CountedIs
    <3>3. Total > 0 => (Total * 100) \div Total = 100
      BY <2>0, Percentages
    <3> QED BY <2>0, <3>1, <3>2, <3>3 DEF RecordInv
  <2> QED BY <1>2, <2>1, <2>2, <2>3, <2>4, <2>5, <2>6 DEF Next, Worker
<1>3. ASSUME RecordInv, UNCHANGED vars PROVE RecordInv'
  <2>1. Counted' = Counted /\ Total' = Total
    BY <1>3, CountedStays, PlanStays DEF vars, given, pool
  <2> QED BY <1>3, <2>1 DEF RecordInv, vars, record
<1> QED BY <1>1, <1>2, <1>3

\* The fourth: the answers are SF's.
LEMMA AnswersInvKept ==
    /\ Init => AnswersInv
    /\ JobInv /\ PoolInv /\ AnswersInv /\ [Next]_vars => AnswersInv'
<1>0. /\ EmptyMap \in Maps
      /\ \A S \in SUBSET Numbers : [S -> Outcomes] \subseteq Maps
  <2>1. EmptyMap \in [{} -> Outcomes]
    BY DEF EmptyMap
  <2> QED BY <2>1 DEF Maps
<1>1. ASSUME Init PROVE AnswersInv
  <2>1. JobInv
    BY <1>1, JobInvKept
  <2>2. BatchCount(prepared) = 0
    BY <1>1, <2>1, Uploads, CountIs, NothingQueried DEF Init
  <2> QED BY <1>1, <2>2 DEF Init, AnswersInv, Batches
<1>2. ASSUME JobInv, PoolInv, AnswersInv, Next PROVE AnswersInv'
  <2>1. CASE Prepare
    <3>1. /\ Batches' = 1 .. BatchCount(prepared') /\ routed = {} /\ unmappable = {}
          /\ batch' = [b \in 1 .. BatchCount(prepared') |-> "waiting"]
          /\ answers' = [b \in 1 .. BatchCount(prepared') |-> EmptyMap]
          /\ UNCHANGED history
      BY <1>2, <2>1 DEF AnswersInv, Prepare, Batches, BatchCount, batch_size, given
    <3> QED BY <1>0, <3>1 DEF AnswersInv, history
  <2>2. ASSUME UNCHANGED <<settings, prepared, answers, history>>, pc' = "prepare" => pc = "prepare",
               \A b \in Batches : batch'[b] \in {"done", "collected"} <=> batch[b] \in {"done", "collected"}
        PROVE  AnswersInv'
    <3>1. Batches' = Batches /\ \A b : NumbersOf(b)' = NumbersOf(b)
      BY <2>2, PlanStays
    <3>2. UNCHANGED <<routed, unmappable, answers>>
      BY <2>2 DEF history
    <3> QED BY <1>2, <2>2, <3>1, <3>2 DEF AnswersInv
  <2>3. CASE Fail \/ Fetch \/ Respond \/ Complete
    <3>1. UNCHANGED <<settings, prepared, answers, batch, history>> /\ pc' # "prepare"
      BY <2>3 DEF Fail, Fetch, Respond, Complete, given, pool
    <3> QED BY <2>2, <3>1
  <2>4. CASE Submit
    <3>1. /\ UNCHANGED <<settings, prepared, answers, history>> /\ pc' # "prepare"
          /\ batch' = [batch EXCEPT ![submitted + 1] = "queued"] /\ batch[submitted + 1] = "waiting"
      <4>1. BatchCount(prepared) \in Nat
        BY <1>2, JobIs
      <4> QED BY <1>2, <2>4, <4>1 DEF Submit, PoolInv, given, Batches
    <3>2. \A b \in Batches : batch'[b] \in {"done", "collected"} <=> batch[b] \in {"done", "collected"}
      BY <1>2, <3>1 DEF PoolInv
    <3> QED BY <2>2, <3>1, <3>2
  <2>5. CASE \E b \in Batches : Collect(b)
    <3>1. PICK b \in Batches : Collect(b)
      BY <2>5
    <3>2. /\ UNCHANGED <<settings, prepared, answers, history>> /\ pc' # "prepare"
          /\ batch' = [batch EXCEPT ![b] = "collected"] /\ batch[b] = "done"
      BY <3>1 DEF Collect, given
    <3>3. \A c \in Batches : batch'[c] \in {"done", "collected"} <=> batch[c] \in {"done", "collected"}
      BY <1>2, <3>2 DEF PoolInv
    <3> QED BY <2>2, <3>2, <3>3
  <2>6. CASE \E b \in Batches : Take(b) \/ Retry(b)
    <3>1. PICK b \in Batches : Take(b) \/ Retry(b)
      BY <2>6
    <3>2. UNCHANGED <<settings, prepared, pc, answers, history>>
      BY <3>1 DEF Take, Retry, given
    <3>3. \A c \in Batches : batch'[c] \in {"done", "collected"} <=> batch[c] \in {"done", "collected"}
      BY <1>2, <3>1 DEF PoolInv, Take, Retry
    <3> QED BY <2>2, <3>2, <3>3
  <2>7. CASE \E b \in Batches : Answer(b)
    <3>1. PICK b \in Batches : Answer(b)
      BY <2>7
    <3>2. /\ batch[b] = "running" /\ batch' = [batch EXCEPT ![b] = "done"]
          /\ UNCHANGED <<settings, prepared, pc>>
      BY <3>1, AnswerIs DEF given
    <3>3. PICK map \in [NumbersOf(b) -> Outcomes], answered \in SUBSET NumbersOf(b) :
             /\ answers' = [answers EXCEPT ![b] = map]
             /\ routed' = routed \cup answered
             /\ \/ unmappable' = unmappable
                   /\ \A n \in NumbersOf(b) : map[n] = Mapped <=> n \in answered
                \/ unmappable' = unmappable \cup {b}
                   /\ \A n \in NumbersOf(b) : map[n] # Mapped
      BY <3>1, AnswerIs
    <3>4. Batches' = Batches /\ \A c : NumbersOf(c)' = NumbersOf(c)
      BY <3>2, PlanStays
    <3>5. map \in Maps
      <4>1. NumbersOf(b) \in SUBSET Numbers
        BY <1>2, SharesAreAll
      <4> QED BY <1>0, <4>1
    <3>6. unmappable' \subseteq Batches /\ answers' \in [Batches -> Maps]
      BY <1>2, <3>3, <3>5 DEF AnswersInv
    <3>7. answers'[b] = map /\ batch'[b] = "done" /\ DOMAIN map = NumbersOf(b)
      BY <1>2, <3>2, <3>3 DEF AnswersInv, PoolInv
    <3>8. \A n \in NumbersOf(b) : map[n] = Mapped <=> n \in routed' /\ b \notin unmappable'
      <4>1. b \notin unmappable /\ \A n \in NumbersOf(b) : n \notin routed
        BY <1>2, <3>2 DEF AnswersInv
      <4> QED BY <3>3, <4>1
    <3>9. ASSUME NEW c \in Batches, c # b
          PROVE  /\ answers'[c] = answers[c] /\ batch'[c] = batch[c]
                 /\ c \in unmappable' <=> c \in unmappable
                 /\ \A n \in NumbersOf(c) : n \in routed' <=> n \in routed
      <4>1. NumbersOf(b) \cap NumbersOf(c) = {}
        BY <1>2, <3>9, SharesAreDisjoint
      <4> QED BY <1>2, <3>2, <3>3, <3>9, <4>1 DEF AnswersInv, PoolInv
    <3>10. pc' # "prepare"
      <4>1. ASSUME pc = "prepare" PROVE FALSE
        <5>1. BatchCount(prepared) = 0
          BY <1>2, <4>1, Uploads, CountIs, NothingQueried DEF JobInv
        <5> QED BY <5>1 DEF Batches
      <4> QED BY <3>2, <4>1
    <3>11. ASSUME NEW c \in Batches
           PROVE  IF batch'[c] \in {"done", "collected"}
                  THEN /\ DOMAIN answers'[c] = NumbersOf(c)
                       /\ \A n \in NumbersOf(c) :
                             answers'[c][n] = Mapped <=> n \in routed' /\ c \notin unmappable'
                  ELSE /\ answers'[c] = EmptyMap
                       /\ c \notin unmappable' /\ \A n \in NumbersOf(c) : n \notin routed'
      <4>1. CASE c = b
        BY <3>7, <3>8, <4>1
      <4>2. CASE c # b
        BY <1>2, <3>9, <4>2 DEF AnswersInv
      <4> QED BY <4>1, <4>2
    <3> QED BY <3>4, <3>6, <3>10, <3>11 DEF AnswersInv
  <2> QED BY <1>2, <2>1, <2>3, <2>4, <2>5, <2>6, <2>7 DEF Next, Worker, Thread
<1>3. ASSUME AnswersInv, UNCHANGED vars PROVE AnswersInv'
  <2>1. Batches' = Batches /\ \A b : NumbersOf(b)' = NumbersOf(b)
    BY <1>3, PlanStays DEF vars, given
  <2> QED BY <1>3, <2>1 DEF AnswersInv, vars, pool, history
<1> QED BY <1>1, <1>2, <1>3

\* The fifth: what the worker collects is what the threads answered.
LEMMA CollectedInvKept ==
    /\ Init => CollectedInv
    /\ JobInv /\ PoolInv /\ AnswersInv /\ CollectedInv /\ [Next]_vars => CollectedInv'
<1>1. ASSUME Init PROVE CollectedInv
  <2>1. EmptyMap \in [{} -> Outcomes] /\ DOMAIN EmptyMap = {}
    BY DEF EmptyMap
  <2>2. EmptyMap \in Maps
    BY <2>1 DEF Maps
  <2>3. JobInv
    BY <1>1, JobInvKept
  <2>4. BatchCount(prepared) = 0
    BY <1>1, <2>3, Uploads, CountIs, NothingQueried DEF Init
  <2> QED BY <1>1, <2>1, <2>2, <2>4 DEF Init, CollectedInv, Batches
<1>2. ASSUME JobInv, PoolInv, AnswersInv, CollectedInv, Next PROVE CollectedInv'
  <2>1. CASE Prepare
    <3>1. /\ Batches' = 1 .. BatchCount(prepared') /\ pc' = "fetch" /\ route_map' = route_map
          /\ batch' = [b \in 1 .. BatchCount(prepared') |-> "waiting"]
      BY <2>1 DEF Prepare, Batches, BatchCount, batch_size, given
    <3>2. DOMAIN route_map = {}
      <4>1. BatchCount(prepared) = 0
        BY <1>2, <2>1, Uploads, CountIs, NothingQueried DEF JobInv, Prepare
      <4> QED BY <1>2, <4>1 DEF CollectedInv, Batches
    <3> QED BY <1>2, <3>1, <3>2 DEF CollectedInv
  <2>2. ASSUME UNCHANGED <<settings, prepared, route_map, result>>,
               pc' \in {"save", "completed"} => pc \in {"save", "completed"},
               \A b \in Batches : /\ batch'[b] = "collected" <=> batch[b] = "collected"
                                  /\ batch[b] = "collected" => answers'[b] = answers[b]
        PROVE  CollectedInv'
    <3>1. Batches' = Batches /\ \A b : NumbersOf(b)' = NumbersOf(b)
      BY <2>2, PlanStays
    <3> QED BY <1>2, <2>2, <3>1 DEF CollectedInv
  <2>3. CASE Fail \/ Fetch \/ Complete
    <3>1. UNCHANGED <<settings, prepared, answers, batch, route_map, result>>
      BY <2>3 DEF Fail, Fetch, Complete, given, pool
    <3>2. pc' \in {"save", "completed"} => pc \in {"save", "completed"}
      BY <2>3 DEF Fail, Fetch, Complete
    <3> QED BY <2>2, <3>1, <3>2
  <2>4. CASE Submit
    <3>1. /\ UNCHANGED <<settings, prepared, answers, route_map, result>> /\ pc' \in {"submit", "collect"}
          /\ batch' = [batch EXCEPT ![submitted + 1] = "queued"] /\ batch[submitted + 1] = "waiting"
      <4>1. BatchCount(prepared) \in Nat
        BY <1>2, JobIs
      <4> QED BY <1>2, <2>4, <4>1 DEF Submit, PoolInv, given, Batches
    <3>2. \A b \in Batches : batch'[b] = "collected" <=> batch[b] = "collected"
      BY <1>2, <3>1 DEF PoolInv
    <3> QED BY <2>2, <3>1, <3>2
  <2>5. CASE \E b \in Batches : Collect(b)
    <3>1. PICK b \in Batches : Collect(b)
      BY <2>5
    <3>2. /\ UNCHANGED <<settings, prepared, answers, result>> /\ pc' \in {"collect", "respond"}
          /\ batch' = [batch EXCEPT ![b] = "collected"] /\ batch[b] = "done"
          /\ route_map' = Merged(b)
      BY <3>1 DEF Collect, given
    <3>3. Batches' = Batches /\ \A c : NumbersOf(c)' = NumbersOf(c)
      BY <3>2, PlanStays
    <3>4. /\ DOMAIN answers[b] = NumbersOf(b) /\ answers[b] \in Maps /\ route_map \in Maps
      BY <1>2, <3>2 DEF AnswersInv, CollectedInv
    <3>5. /\ DOMAIN route_map' = DOMAIN route_map \cup NumbersOf(b)
          /\ \A n \in NumbersOf(b) : route_map'[n] = answers[b][n]
          /\ \A n \in DOMAIN route_map \ NumbersOf(b) : route_map'[n] = route_map[n]
      BY <3>2, <3>4 DEF Merged
    <3>6. route_map' \in Maps
      <4>1. PICK S \in SUBSET Numbers : answers[b] \in [S -> Outcomes]
        BY <3>4 DEF Maps
      <4>2. PICK T \in SUBSET Numbers : route_map \in [T -> Outcomes]
        BY <3>4 DEF Maps
      <4>3. route_map' \in [T \cup S -> Outcomes]
        BY <3>2, <4>1, <4>2 DEF Merged
      <4> QED BY <4>3 DEF Maps
    <3>7. \A c \in Batches : batch'[c] = "collected" <=> batch[c] = "collected" \/ c = b
      BY <1>2, <3>2 DEF PoolInv
    <3>8. \A n \in DOMAIN route_map' : \E c \in Batches : batch'[c] = "collected" /\ n \in NumbersOf(c)
      BY <1>2, <3>5, <3>7 DEF CollectedInv
    <3>9. ASSUME NEW c \in Batches, batch'[c] = "collected", NEW n \in NumbersOf(c)
          PROVE  n \in DOMAIN route_map' /\ route_map'[n] = answers[c][n]
      <4>1. CASE c = b
        BY <3>5, <4>1
      <4>2. CASE c # b
        <5>1. n \notin NumbersOf(b)
          BY <1>2, <4>2, SharesAreDisjoint
        <5>2. n \in DOMAIN route_map /\ route_map[n] = answers[c][n]
          BY <1>2, <3>7, <3>9, <4>2 DEF CollectedInv
        <5> QED BY <3>5, <5>1, <5>2
      <4> QED BY <4>1, <4>2
    <3> QED BY <3>2, <3>3, <3>6, <3>8, <3>9 DEF CollectedInv
  <2>6. CASE Respond
    <3>1. /\ UNCHANGED <<settings, prepared, answers, batch, route_map>>
          /\ result' = BuildRunResponse(prepared, route_map)
      BY <2>6 DEF Respond, given, pool
    <3>2. Batches' = Batches /\ \A b : NumbersOf(b)' = NumbersOf(b)
      BY <3>1, PlanStays
    <3> QED BY <1>2, <3>1, <3>2 DEF CollectedInv
  <2>7. CASE \E b \in Batches : Take(b) \/ Retry(b)
    <3>1. PICK b \in Batches : Take(b) \/ Retry(b)
      BY <2>7
    <3>2. UNCHANGED <<settings, prepared, pc, answers, route_map, result>>
      BY <3>1 DEF Take, Retry, given
    <3>3. \A c \in Batches : batch'[c] = "collected" <=> batch[c] = "collected"
      BY <1>2, <3>1 DEF PoolInv, Take, Retry
    <3> QED BY <2>2, <3>2, <3>3
  <2>8. CASE \E b \in Batches : Answer(b)
    <3>1. PICK b \in Batches : Answer(b)
      BY <2>8
    <3>2. /\ batch[b] = "running" /\ batch' = [batch EXCEPT ![b] = "done"]
          /\ UNCHANGED <<settings, prepared, pc, route_map, result>>
          /\ \E map : answers' = [answers EXCEPT ![b] = map]
      BY <3>1, AnswerIs DEF given
    <3>3. \A c \in Batches : /\ batch'[c] = "collected" <=> batch[c] = "collected"
                             /\ batch[c] = "collected" => answers'[c] = answers[c]
      BY <1>2, <3>2 DEF PoolInv, AnswersInv
    <3> QED BY <2>2, <3>2, <3>3
  <2> QED BY <1>2, <2>1, <2>3, <2>4, <2>5, <2>6, <2>7, <2>8 DEF Next, Worker, Thread
<1>3. ASSUME CollectedInv, UNCHANGED vars PROVE CollectedInv'
  <2>1. Batches' = Batches /\ \A b : NumbersOf(b)' = NumbersOf(b)
    BY <1>3, PlanStays DEF vars, given
  <2> QED BY <1>3, <2>1 DEF CollectedInv, vars, pool
<1> QED BY <1>1, <1>2, <1>3

\* The invariant of every job: its five parts.
THEOREM IInvHolds == Spec => []IInv
<1>1. Init => IInv
  BY JobInvKept, PoolInvKept, RecordInvKept, AnswersInvKept, CollectedInvKept DEF IInv
<1>2. IInv /\ [Next]_vars => IInv'
  BY JobInvKept, PoolInvKept, RecordInvKept, AnswersInvKept, CollectedInvKept DEF IInv
<1> QED BY <1>1, <1>2, PTL DEF Spec

-----------------------------------------------------------------------------
(* What follows *)

\* The record's counts are in range.
InRange ==
    /\ Total \in Nat /\ completed_targets \in 0 .. Total /\ remaining_targets \in Nat
    /\ progress_percent \in 0 .. 100

\* They follow from the number of places that are counted.
LEMMA RecordIs ==
    ASSUME IInv
    PROVE  InRange
<1>1. Total \in Nat /\ completed_targets \in 0 .. Total
  BY JobIs, CountedIs DEF IInv, RecordInv
<1>2. remaining_targets \in Nat
  BY <1>1 DEF IInv, RecordInv
<1>3. CASE Total = 0
  BY <1>1, <1>2, <1>3 DEF IInv, RecordInv, InRange
<1>4. CASE Total > 0
  <2>1. (completed_targets * 100) \div Total \in 0 .. 100
    BY <1>1, <1>4, Percentages
  <2>2. progress_percent = (completed_targets * 100) \div Total
    BY <1>4 DEF IInv, RecordInv
  <2> QED BY <1>1, <1>2, <2>1, <2>2 DEF InRange
<1> QED BY <1>1, <1>3, <1>4 DEF InRange

\* The types follow from the invariant.
LEMMA TypeFollows == ASSUME IInv PROVE TypeOK
<1>1. query_target_count = Total /\ Total \in Nat /\ completed_targets \in Nat
      /\ remaining_targets \in Nat /\ progress_percent \in 0 .. 100
  BY RecordIs DEF IInv, RecordInv, InRange
<1>2. \A m \in Maps : \A n \in DOMAIN m : n \in Numbers /\ m[n] \in Outcomes
  BY DEF Maps
<1>3. /\ DOMAIN answers = Batches
      /\ \A b \in Batches : \A n \in DOMAIN answers[b] : answers[b][n] \in Outcomes
      /\ \A n \in DOMAIN route_map : n \in Numbers /\ route_map[n] \in Outcomes
  BY <1>2 DEF IInv, AnswersInv, CollectedInv
<1>4. status \in {"queued", "running", "completed", "failed"}
  BY DEF IInv, JobInv
<1> QED BY <1>1, <1>3, <1>4 DEF IInv, JobInv, PoolInv, TypeOK, States

\* The types of the job, its record and its pool.
THEOREM TypeCorrect == Spec => []TypeOK
<1>1. IInv => TypeOK
  BY TypeFollows
<1> QED BY <1>1, IInvHolds, PTL

\* A completed job: the rows of its result are those of the upload, each with its answer.
THEOREM EveryRowHasItsAnswerHolds == Spec => []EveryRowHasItsAnswer
<1>1. IInv => EveryRowHasItsAnswer
  <2> SUFFICES ASSUME IInv, status = "completed" PROVE
           /\ {result[i].row : i \in DOMAIN result}
                = {Pair(r) : r \in {s \in ToSet(sheet) : s.order # None}}
           /\ IsInjective(result)
           /\ \A i \in DOMAIN result :
                 LET n == result[i].row.tracking IN
                 /\ result[i].status # NoResponse
                 /\ n # None =>
                       (result[i].status = Mapped)
                           <=> (/\ n \in routed
                                /\ \A b \in unmappable : n \notin NumbersOf(b))
    BY DEF EveryRowHasItsAnswer
  <2>1. JobInv /\ PoolInv /\ AnswersInv /\ CollectedInv /\ pc = "completed"
    BY DEF IInv, JobInv
  <2> DEFINE rows == prepared.rows
  <2>2. rows \in Seq(PairRow) /\ NoRepeats(rows)
        /\ \A x : x \in ToSet(prepared.numbers) <=> x # None /\ \E r \in ToSet(rows) : x = r.tracking
    BY <2>1, JobIs
  <2>3. ToSet(rows) = {Pair(r) : r \in {s \in ToSet(sheet) : s.order # None}}
    BY <2>1, Uploads, PreparedIs DEF JobInv
  <2>4. /\ DOMAIN result = DOMAIN rows
        /\ \A i \in DOMAIN rows :
              result[i].row = rows[i] /\ result[i].status = RowStatus(rows[i], route_map)
    BY <2>1 DEF CollectedInv, BuildRunResponse
  <2>5. {result[i].row : i \in DOMAIN result} = ToSet(rows)
    BY <2>4 DEF ToSet
  <2>6. IsInjective(result)
    BY <2>2, <2>4 DEF IsInjective, NoRepeats
  <2>7. ASSUME NEW i \in DOMAIN result
        PROVE  LET n == result[i].row.tracking IN
               /\ result[i].status # NoResponse
               /\ n # None =>
                     (result[i].status = Mapped)
                         <=> (/\ n \in routed
                              /\ \A b \in unmappable : n \notin NumbersOf(b))
    <3> DEFINE n == result[i].row.tracking
    <3>1. n = rows[i].tracking /\ result[i].status = RowStatus(rows[i], route_map)
          /\ rows[i] \in ToSet(rows)
      BY <2>4 DEF ToSet
    <3> HIDE DEF n, rows
    <3>2. CASE n = None
      <4>1. result[i].status # NoResponse
        BY <3>1, <3>2 DEF RowStatus, NoTracking, NoResponse
      <4> QED BY <3>2, <4>1 DEF n
    <3>3. CASE n # None
      <4>1. n \in ToSet(prepared.numbers)
        BY <2>2, <3>1, <3>3
      <4>2. PICK b \in Batches : n \in NumbersOf(b)
        BY <2>1, <4>1, SharesAreAll
      <4>3. batch[b] = "collected"
        BY <2>1 DEF PoolInv
      <4>4. n \in DOMAIN route_map /\ route_map[n] = answers[b][n] /\ route_map \in Maps
        BY <2>1, <4>2, <4>3 DEF CollectedInv
      <4>5. answers[b][n] = Mapped <=> n \in routed /\ b \notin unmappable
        BY <2>1, <4>2, <4>3 DEF AnswersInv
      <4>6. b \notin unmappable <=> \A c \in unmappable : n \notin NumbersOf(c)
        <5>1. unmappable \subseteq Batches
          BY <2>1 DEF AnswersInv
        <5>2. \A c \in Batches : c # b => n \notin NumbersOf(c)
          BY <2>1, <4>2, SharesAreDisjoint
        <5> QED BY <4>2, <5>1, <5>2
      <4>7. result[i].status = route_map[n]
        BY <3>1, <3>3, <4>4 DEF RowStatus
      <4>8. route_map[n] # NoResponse
        <5>1. route_map[n] \in Outcomes
          BY <4>4 DEF Maps
        <5> QED BY <5>1 DEF Outcomes, Mapped, Partial, ClientError, Unexpected, NoResponse
      <4> QED BY <4>4, <4>5, <4>6, <4>7, <4>8 DEF n
    <3> QED BY <3>2, <3>3 DEF n
  <2> QED BY <2>3, <2>5, <2>6, <2>7
<1> QED BY <1>1, IInvHolds, PTL

\* Progress never goes back, and what is done and what is left are all the numbers.
THEOREM ProgressNeverFallsHolds == Spec => ProgressNeverFalls
<1> DEFINE Forward == completed_targets' >= completed_targets /\ progress_percent' >= progress_percent
           AddsUp == completed_targets' + remaining_targets' = query_target_count'
<1>1. ASSUME IInv, InRange, InRange', status # "queued", [Next]_vars PROVE Forward
  <2>1. /\ JobInv /\ PoolInv /\ pc # "prepare"
        /\ completed_targets \in 0 .. Total /\ progress_percent \in 0 .. 100 /\ Total \in Nat
        /\ completed_targets = Cardinality(Counted)
        /\ Total > 0 => progress_percent = (completed_targets * 100) \div Total
    BY <1>1 DEF IInv, JobInv, RecordInv, InRange
  <2>2. CASE UNCHANGED record
    BY <2>1, <2>2 DEF record
  <2>3. CASE Fail
    BY <2>1, <2>3 DEF Fail, MarkFailed
  <2>4. ASSUME NEW c \in Nat, completed_targets <= c, UpdateProgress(c, Total) PROVE Forward
    <3>1. completed_targets' = c /\ progress_percent' = IF Total = 0 THEN 100 ELSE (c * 100) \div Total
      BY <2>4 DEF UpdateProgress
    <3>2. CASE Total = 0
      BY <2>1, <2>4, <3>1, <3>2
    <3>3. CASE Total > 0
      <4>1. (completed_targets * 100) \div Total <= (c * 100) \div Total
        <5>1. Total \in Nat \ {0} /\ completed_targets \in Nat
          BY <2>1, <3>3
        <5>2. \A x, y \in Nat : x <= y => (x * 100) \div Total <= (y * 100) \div Total
          BY <5>1, Percentages
        <5> QED BY <2>4, <5>1, <5>2
      <4>2. progress_percent' = (c * 100) \div Total /\ progress_percent = (completed_targets * 100) \div Total
        BY <2>1, <3>1, <3>3
      <4>3. progress_percent' >= progress_percent
        <5>1. progress_percent' \in Int
          BY <1>1 DEF InRange
        <5> QED BY <2>1, <4>1, <4>2, <5>1
      <4> QED BY <2>1, <2>4, <3>1, <4>3
    <3> QED BY <2>1, <3>2, <3>3
  <2>5. CASE Fetch
    <3>1. \A b \in Batches : batch[b] # "collected"
      BY <2>1, <2>5 DEF PoolInv, Fetch, Batches
    <3>2. completed_targets = 0
      BY <2>1, <3>1, CountedIs
    <3> QED BY <2>4, <2>5, <3>2 DEF Fetch, Total
  <2>6. CASE \E b \in Batches : Collect(b)
    <3>1. PICK b \in Batches : Collect(b)
      BY <2>6
    <3>2. NewlyCompleted(b) \in Nat
      BY <2>1, PlacesAre
    <3>3. UpdateProgress(completed_targets + NewlyCompleted(b), Total)
      BY <3>1 DEF Collect, Total
    <3>4. completed_targets + NewlyCompleted(b) \in Nat
          /\ completed_targets <= completed_targets + NewlyCompleted(b)
      BY <2>1, <3>2
    <3> HIDE DEF Forward
    <3> QED BY <2>4, <3>3, <3>4
  <2>7. CASE Complete
    BY <2>1, <2>7 DEF Complete, MarkCompleted, Total
  <2>8. CASE Submit \/ Respond \/ \E b \in Batches : Thread(b)
    <3>1. ASSUME NEW b \in Batches, Answer(b) PROVE UNCHANGED record
      BY <3>1, AnswerIs
    <3>2. UNCHANGED record
      BY <2>8, <3>1 DEF Submit, Respond, Thread, Take, Retry
    <3> QED BY <2>2, <3>2
  <2>9. CASE UNCHANGED vars
    BY <2>2, <2>9 DEF vars
  <2>10. ~Prepare
    BY <2>1 DEF Prepare
  <2> QED BY <1>1, <2>3, <2>5, <2>6, <2>7, <2>8, <2>9, <2>10 DEF Next, Worker
<1>2. ASSUME IInv', InRange' PROVE AddsUp
  BY <1>2 DEF IInv, RecordInv, InRange
<1>3. IInv /\ InRange /\ (IInv /\ InRange)' /\ [Next]_vars =>
          (status # "queued" => Forward) /\ (status' # "queued" /\ query_target_count' > 0 => AddsUp)
  BY <1>1, <1>2
<1>4. IInv => InRange
  BY RecordIs
<1> QED BY <1>3, <1>4, IInvHolds, PTL DEF Spec, ProgressNeverFalls

-----------------------------------------------------------------------------
(* The page *)

Settled == {"completed", "failed"}
Count == [files : 0 .. FILES, jobs : 0 .. JOBS, breaks : Nat]

\* Files and jobs are numbered as they come; a job has its number before its record,
\* and everything else knows of older jobs only.
Numbered ==
    /\ count \in Count
    /\ notices \in [Job -> Nat]
    /\ \A f \in analyses : f \in File /\ f <= count.files
    /\ page.file <= count.files /\ page.file \notin analyses
    /\ page.active <= count.jobs /\ poll.job <= count.jobs /\ download.job <= count.jobs
    /\ create.state = "none" => create = NoRequest
    /\ poll.state = "none" => poll = NoRequest
    /\ create.state # "none" =>
          /\ create.job = count.jobs /\ create.job \in Job
          /\ page.active < create.job /\ poll.job < create.job /\ download.job < create.job
          /\ notices[create.job] = 0
    /\ create.state = "asked" => jobs[create.job] = NoJob
    /\ \A j \in Job : count.jobs < j => jobs[j] = NoJob /\ notices[j] = 0

\* What the page and its requests have been told of a job is so.
Informed ==
    /\ page.data \in Settled => jobs[page.active].status \notin Unsettled
    /\ poll.state # "none" => poll.job \in Job
    /\ poll.state = "answered" =>
          /\ poll.answer \in Unsettled \cup Settled \cup {"expired", "gone", "lost"}
          /\ poll.answer \notin Unsettled \cup {"lost"} => jobs[poll.job].status \notin Unsettled
          /\ poll.answer = "expired" => jobs[poll.job].past
    /\ download.state # "none" => download.job \in Job
    /\ download.job # Nothing => jobs[download.job].status \notin Unsettled
    /\ download.answer = "410" => download.job \in Job /\ jobs[download.job].past

\* An announced job that is on the page has its notice in the session storage.
Announced ==
    \A j \in Job :
        /\ notices[j] <= 1
        /\ notices[j] = 1 /\ page.active = j => page.noticed = j

\* A job about to be created follows no running one, and is of the file on the page.
InSight ==
    /\ forgot = {} =>
          /\ \A j \in Job : jobs[j].status \in Unsettled => j \in {page.active, create.job}
          /\ create.state # "none" /\ page.active # Nothing
                => jobs[page.active].status \notin Unsettled
    /\ "analysed while creating" \notin forgot /\ page.file # Nothing =>
          /\ page.active # Nothing /\ jobs[page.active].status # "none"
                => jobs[page.active].file = page.file
          /\ create.state # "none" => create.file = page.file
          /\ create.state = "answered" /\ jobs[create.job].status # "none"
                => jobs[create.job].file = page.file

\* The inductive invariant.
PageInv == PageTypeOK /\ Numbered /\ Informed /\ Announced /\ InSight

USE DEF Nothing, Job, File, requests, page_vars

-----------------------------------------------------------------------------
(* The records, field by field *)

Page ==
    [file : File \cup {Nothing}, active : Job \cup {Nothing},
     data : {"none", "queued", "running", "completed", "failed"}, result : Job \cup {Nothing},
     told : Job \cup {Nothing, Expired}, noticed : Job \cup {Nothing},
     modal : {"none", "completed", "expired"}]

Record ==
    [status : {"none", "queued", "running", "completed", "failed"},
     file : File \cup {Nothing}, saved : BOOLEAN, past : BOOLEAN]

\* q is p with no job on it.
Emptied(q, p) ==
    /\ q.file = p.file
    /\ q.active = Nothing /\ q.data = "none" /\ q.result = Nothing /\ q.noticed = Nothing

\* PageTypeOK with its records named, so that their fields can be cited.
LEMMA TypeFields ==
    PageTypeOK <=> /\ page \in Page /\ jobs \in [Job -> Record]
                   /\ page.active = Nothing => page.data = "none"
                   /\ page.result # Nothing => page.result = page.active
                   /\ analyses \subseteq File
                   /\ create \in Request /\ poll \in Request /\ download \in Request
BY DEF PageTypeOK, Page, Record

\* The fields of a page.
LEMMA PageFields ==
    ASSUME NEW p \in Page
    PROVE  /\ p.file \in File \cup {Nothing} /\ p.active \in Job \cup {Nothing}
           /\ p.data \in {"none", "queued", "running", "completed", "failed"}
           /\ p.result \in Job \cup {Nothing} /\ p.noticed \in Job \cup {Nothing}
           /\ p.modal \in {"none", "completed", "expired"}
BY DEF Page

\* The fields of a request.
LEMMA RequestFields ==
    ASSUME NEW r \in Request
    PROVE  /\ r.state \in {"none", "asked", "answered"} /\ r.job \in Job \cup {Nothing}
           /\ r.file \in File \cup {Nothing} /\ r.answer \in Answers
BY DEF Request

\* The fields of a job's record on the server.
LEMMA RecordFields ==
    ASSUME NEW r \in Record
    PROVE  /\ r.status \in {"none", "queued", "running", "completed", "failed"}
           /\ r.file \in File \cup {Nothing} /\ r.saved \in BOOLEAN /\ r.past \in BOOLEAN
BY DEF Record

\* A request not made and a job not there know of nothing.
LEMMA NothingAsked ==
    /\ NoRequest \in Request /\ NoRequest.state = "none" /\ NoRequest.job = Nothing
    /\ NoRequest.file = Nothing /\ NoRequest.answer = "none"
    /\ NoJob \in Record /\ NoJob.status = "none" /\ NoJob.file = Nothing /\ ~NoJob.saved /\ ~NoJob.past
BY DEF NoRequest, Request, Answers, NoJob, Record

\* resetJobState leaves no job on the page.
LEMMA ResetPage ==
    ASSUME NEW p \in Page
    PROVE  Reset(p) \in Page /\ Emptied(Reset(p), p) /\ Reset(p).modal = p.modal
BY DEF Reset, Page, Emptied

\* showExpiredModal leaves none either, unless the user has been told.
LEMMA ShowExpiredPage ==
    ASSUME NEW p \in Page
    PROVE  ShowExpired(p) \in Page /\ (ShowExpired(p) = p \/ Emptied(ShowExpired(p), p))
<1> DEFINE id == IF p.active = Nothing THEN Expired ELSE p.active
           q == [Reset(p) EXCEPT !.told = id, !.modal = "expired"]
<1>1. id \in Job \cup {Nothing, Expired}
  BY PageFields
<1>2. q \in Page /\ Emptied(q, p)
  <2> HIDE DEF id
  <2> QED BY <1>1, ResetPage DEF Page, Emptied
<1> QED BY <1>2 DEF ShowExpired

\* The answer to a creation puts the new job, and only it, on the page.
LEMMA CreatedPage ==
    ASSUME NEW p \in Page, NEW j \in Job
    PROVE  /\ Created(p, j) \in Page
           /\ Created(p, j).file = p.file /\ Created(p, j).active = j
           /\ Created(p, j).data = "none" /\ Created(p, j).result = Nothing
           /\ Created(p, j).noticed = Nothing
BY ResetPage DEF Created, Page, Emptied

\* A reload keeps what the session storage holds, the job and its notice.
LEMMA ReloadedPage ==
    ASSUME NEW p \in Page
    PROVE  /\ Reloaded(p) \in Page
           /\ Reloaded(p).file = Nothing /\ Reloaded(p).active = p.active
           /\ Reloaded(p).data = "none" /\ Reloaded(p).result = Nothing
           /\ Reloaded(p).noticed = p.noticed
BY DEF Reloaded, Page

\* The effects of a poll's answer.
LEMMA PolledPage ==
    ASSUME NEW p \in Page, NEW a \in Unsettled \cup Settled \cup {"expired", "gone", "lost"},
           p.active \in Job
    PROVE  /\ Polled(p, a) \in Page /\ Polled(p, a).file = p.file
           /\ a = "gone" => Emptied(Polled(p, a), p)
           /\ a = "expired" => Polled(p, a) = p \/ Emptied(Polled(p, a), p)
           /\ a = "lost" => Polled(p, a) = p
           /\ a = "completed" => Polled(p, a).result = p.active /\ Polled(p, a).noticed = p.active
           /\ a \in Unsettled \cup {"failed"} =>
                 Polled(p, a).result = p.result /\ Polled(p, a).noticed = p.noticed
           /\ a \in Unsettled \cup Settled => Polled(p, a).active = p.active /\ Polled(p, a).data = a
<1> USE DEF Settled, Unsettled
<1>1. CASE a = "gone"
  BY <1>1, ResetPage DEF Polled, Emptied
<1>2. CASE a = "expired"
  BY <1>2, ShowExpiredPage DEF Polled, Emptied
<1>3. CASE a = "lost"
  BY <1>3 DEF Polled
<1>4. CASE a = "completed"
  BY <1>4 DEF Polled, Page
<1>5. CASE a \in Unsettled \cup {"failed"}
  BY <1>5 DEF Polled, Page
<1> QED BY <1>1, <1>2, <1>3, <1>4, <1>5

\* The counters are numbers; a break changes neither the files nor the jobs.
LEMMA CountFields ==
    ASSUME NEW c \in Count
    PROVE  /\ c.files \in 0 .. FILES /\ c.jobs \in 0 .. JOBS /\ c.breaks \in Nat
           /\ [c EXCEPT !.breaks = @ + 1] \in Count
           /\ [c EXCEPT !.breaks = @ + 1].files = c.files
           /\ [c EXCEPT !.breaks = @ + 1].jobs = c.jobs
BY PageAssumption DEF Count

\* One more file, or one more job, stays within the bound.
LEMMA CountMore ==
    ASSUME NEW c \in Count
    PROVE  /\ c.files < FILES => /\ [c EXCEPT !.files = @ + 1] \in Count
                                /\ [c EXCEPT !.files = @ + 1].files = c.files + 1
                                /\ [c EXCEPT !.files = @ + 1].jobs = c.jobs
           /\ c.jobs < JOBS => /\ [c EXCEPT !.jobs = @ + 1] \in Count
                              /\ [c EXCEPT !.jobs = @ + 1].files = c.files
                              /\ [c EXCEPT !.jobs = @ + 1].jobs = c.jobs + 1
BY PageAssumption DEF Count

\* A request that has just been made.
LEMMA Asked ==
    ASSUME NEW j \in Job, NEW f \in File \cup {Nothing}
    PROVE  LET r == [NoRequest EXCEPT !.state = "asked", !.job = j, !.file = f] IN
           /\ r \in Request /\ r.state = "asked" /\ r.job = j /\ r.file = f /\ r.answer = "none"
           /\ r # NoRequest
BY DEF NoRequest, Request, Answers

\* What is known of every variable, and what the next types need.
LEMMA Known ==
    ASSUME PageInv
    PROVE  /\ page \in Page /\ jobs \in [Job -> Record] /\ count \in Count
           /\ create \in Request /\ poll \in Request /\ download \in Request
           /\ page.active = Nothing => page.data = "none"
           /\ page.result # Nothing => page.result = page.active
           /\ analyses \subseteq File
           /\ Numbered /\ Informed /\ Announced /\ InSight
BY TypeFields DEF PageInv, Numbered

\* Files and jobs are numbers, so that they can be compared.
LEMMA JobNumbers ==
    ASSUME PageInv
    PROVE  /\ count.files \in 0 .. FILES /\ count.jobs \in 0 .. JOBS
           /\ count.files \in Nat /\ count.jobs \in Nat
           /\ page.file \in Nat /\ page.active \in Nat
           /\ create.job \in Nat /\ poll.job \in Nat /\ download.job \in Nat
<1>1. count.files \in 0 .. FILES /\ count.jobs \in 0 .. JOBS
  BY Known, CountFields
<1>2. page.file \in Nat /\ page.active \in Nat
  BY Known, PageFields, PageAssumption
<1>3. create.job \in Nat /\ poll.job \in Nat /\ download.job \in Nat
  BY Known, RequestFields, PageAssumption
<1> QED BY <1>1, <1>2, <1>3, PageAssumption

\* Typed fields after a step make PageTypeOK after it.
LEMMA TypesNext ==
    ASSUME page' \in Page, jobs' \in [Job -> Record],
           create' \in Request, poll' \in Request, download' \in Request,
           page'.active = Nothing => page'.data = "none",
           page'.result # Nothing => page'.result = page'.active,
           analyses' \subseteq File
    PROVE  PageTypeOK'
BY DEF PageTypeOK, Page, Record

-----------------------------------------------------------------------------
(* The steps *)

\* A dropped file has a number no analysis and no page has.
LEMMA DropStep == ASSUME PageInv, Drop PROVE PageInv'
<1> USE PageAssumption
<1>1. /\ count \in Count /\ count' = [count EXCEPT !.files = @ + 1] /\ count.files < FILES
      /\ analyses' = analyses \cup {count.files + 1}
      /\ UNCHANGED <<page, create, poll, download, jobs, notices, forgot>>
  BY Known DEF Drop
<1>2. count' \in Count
  BY <1>1, CountMore
<1>3. count'.files = count.files + 1 /\ count'.jobs = count.jobs
  BY <1>1, CountMore
<1>4. count.files + 1 \in File
  BY <1>1, JobNumbers
<1>5. PageTypeOK'
  <2>1. analyses' \subseteq File
    BY <1>1, <1>4, Known
  <2> QED BY <1>1, <2>1, Known, TypesNext
<1>6. Numbered'
  <2>1. page.file # count.files + 1
    BY Known, JobNumbers DEF Numbered
  <2>2. \A f \in analyses' : f \in File /\ f <= count'.files
    BY <1>1, <1>3, <1>4, Known, JobNumbers DEF Numbered
  <2>3. page.file <= count'.files /\ page.file \notin analyses'
    BY <1>1, <1>3, <2>1, Known, JobNumbers DEF Numbered
  <2> QED BY <1>1, <1>2, <1>3, <2>2, <2>3, Known DEF Numbered
<1>7. Informed' /\ Announced'
  BY <1>1, Known DEF Informed, Announced
<1>8. InSight'
  BY <1>1, Known DEF InSight
<1> QED BY <1>5, <1>6, <1>7, <1>8 DEF PageInv

\* A new file on the page while a job is created, or over one, is on record in forgot.
LEMMA AnalysedStep ==
    ASSUME PageInv, NEW f \in File, NEW ok \in BOOLEAN, Analysed(f, ok)
    PROVE  PageInv'
<1> USE PageAssumption
<1>1. /\ f \in analyses /\ analyses' = analyses \ {f}
      /\ UNCHANGED <<create, poll, download, jobs, count, notices>>
      /\ forgot \subseteq forgot'
  BY DEF Analysed
<1>2. CASE ~ok
  <2>1. UNCHANGED <<page, forgot>>
    BY <1>2 DEF Analysed
  <2>2. PageTypeOK'
    BY <1>1, <2>1 DEF PageInv, PageTypeOK
  <2>3. Numbered'
    BY <1>1, <2>1, Known DEF Numbered
  <2>4. Informed' /\ Announced'
    BY <1>1, <2>1, Known DEF Informed, Announced
  <2>5. InSight'
    BY <1>1, <2>1, Known DEF InSight
  <2> QED BY <2>2, <2>3, <2>4, <2>5 DEF PageInv
<1>3. CASE ok
  <2>1. /\ page' \in Page /\ page'.file = f /\ page'.active = Nothing /\ page'.data = "none"
        /\ page'.result = Nothing /\ page'.noticed = Nothing
    <3>1. page' = [Reset(page) EXCEPT !.file = f]
      BY <1>3 DEF Analysed
    <3> QED BY <3>1, Known, ResetPage DEF Page, Emptied
  <2>2. /\ create.state # "none" => "analysed while creating" \in forgot'
        /\ page.active # Nothing => "analysed over a job" \in forgot'
    BY <1>3 DEF Analysed
  <2>3. PageTypeOK'
    BY <1>1, <2>1, Known, TypesNext DEF PageInv, PageTypeOK
  <2>4. Numbered'
    <3>1. f <= count.files
      BY <1>1, Known DEF Numbered
    <3>2. create.state # "none" => 0 < create.job
      BY Known DEF Numbered
    <3> QED BY <1>1, <2>1, <3>1, <3>2, Known, JobNumbers DEF Numbered
  <2>5. Informed' /\ Announced'
    BY <1>1, <2>1, Known DEF Informed, Announced, Settled
  <2>6. InSight'
    BY <1>1, <2>1, <2>2, Known DEF InSight
  <2> QED BY <2>3, <2>4, <2>5, <2>6 DEF PageInv
<1> QED BY <1>2, <1>3

\* The next job has a number nobody knows yet, and the page knows of none that runs.
LEMMA RunStep == ASSUME PageInv, Run PROVE PageInv'
<1> USE PageAssumption
<1> DEFINE j == count.jobs + 1
<1>0. /\ count \in Count /\ count.jobs < JOBS /\ count' = [count EXCEPT !.jobs = @ + 1]
      /\ create' = [NoRequest EXCEPT !.state = "asked", !.job = j, !.file = page.file]
  BY Known DEF Run
<1>1. count' \in Count /\ count'.files = count.files /\ count'.jobs = j /\ j \in Job
  <2>1. count' \in Count
    BY <1>0, CountMore
  <2>2. count'.files = count.files /\ count'.jobs = j
    BY <1>0, CountMore
  <2> QED BY <1>0, <2>1, <2>2, JobNumbers
<1>2. /\ create' \in Request /\ create'.state = "asked" /\ create'.job = j
      /\ create'.file = page.file
  <2>1. page.file \in File \cup {Nothing}
    BY Known, PageFields
  <2> HIDE DEF j
  <2> QED BY <1>0, <1>1, <2>1, Asked
<1>3. /\ UNCHANGED <<page, analyses, poll, download, jobs, notices>>
      /\ create.state = "none" /\ create.job = Nothing /\ page.file # Nothing
      /\ page.data \notin Unsettled
      /\ forgot \subseteq forgot'
      /\ page.active # Nothing /\ page.data = "none" => forgot' # {}
  BY NothingAsked DEF Run, Free, InProgress
<1>4. PageTypeOK'
  BY <1>2, <1>3, Known, TypesNext DEF PageInv, PageTypeOK
<1>5. Numbered'
  <2>1. page.active < j /\ poll.job < j /\ download.job < j
    BY Known, JobNumbers DEF Numbered
  <2>2. jobs[j] = NoJob /\ notices[j] = 0
    BY <1>1, Known, JobNumbers DEF Numbered
  <2>3. \A k \in Job : count'.jobs < k => jobs[k] = NoJob /\ notices[k] = 0
    BY <1>1, Known, JobNumbers DEF Numbered
  <2>4. page.active <= j /\ poll.job <= j /\ download.job <= j
    BY <2>1, JobNumbers
  <2>5. page.file <= count'.files /\ page.file \notin analyses
        /\ \A f \in analyses : f \in File /\ f <= count'.files
    BY <1>1, Known DEF Numbered
  <2>6. notices \in [Job -> Nat] /\ (poll.state = "none" => poll = NoRequest)
    BY Known DEF Numbered
  <2> HIDE DEF j
  <2> QED BY <1>1, <1>2, <1>3, <2>1, <2>2, <2>3, <2>4, <2>5, <2>6 DEF Numbered
<1>6. Informed' /\ Announced'
  BY <1>3, Known DEF Informed, Announced
<1>7. InSight'
  <2>1. jobs[j] = NoJob
    BY <1>1, Known, JobNumbers DEF Numbered
  <2>2. page.active # Nothing /\ forgot' = {} => jobs[page.active].status \notin Unsettled
    BY <1>3, Known, PageFields DEF Informed, Settled, Unsettled
  <2>3. ASSUME forgot' = {}, NEW k \in Job PROVE jobs[k].status \notin Unsettled
    <3>1. forgot = {} /\ k # create.job
      BY <1>3, <2>3
    <3> QED BY <2>2, <2>3, <3>1, Known DEF InSight
  <2> QED BY <1>2, <1>3, <2>1, <2>2, <2>3, Known, NothingAsked DEF InSight
<1> QED BY <1>4, <1>5, <1>6, <1>7 DEF PageInv

\* What the server does with a request to create, seen or not by the page.
LEMMA QueuedJob ==
    ASSUME PageInv, create.state = "asked",
           jobs' = [jobs EXCEPT ![create.job] = [NoJob EXCEPT !.status = "queued", !.file = create.file]]
    PROVE  /\ jobs' \in [Job -> Record] /\ create.job \in Job
           /\ jobs'[create.job].status = "queued" /\ jobs'[create.job].file = create.file
           /\ \A j \in Job \ {create.job} : jobs'[j] = jobs[j]
<1>1. create.job \in Job
  BY Known DEF Numbered
<1>2. /\ [NoJob EXCEPT !.status = "queued", !.file = create.file] \in Record
      /\ [NoJob EXCEPT !.status = "queued", !.file = create.file].status = "queued"
      /\ [NoJob EXCEPT !.status = "queued", !.file = create.file].file = create.file
  BY Known, RequestFields DEF NoJob, Record
<1>3. jobs \in [Job -> Record]
  BY Known
<1> DEFINE r == [NoJob EXCEPT !.status = "queued", !.file = create.file]
<1> HIDE DEF r
<1> QED BY <1>1, <1>2, <1>3 DEF r

\* create_lite_run_job: the record appears, no poll or download is of it.
LEMMA CreateHandledStep == ASSUME PageInv, CreateHandled PROVE PageInv'
<1> USE PageAssumption
<1>1. /\ create.state = "asked"
      /\ UNCHANGED <<page, analyses, poll, download, count, notices, forgot>>
  BY DEF CreateHandled
<1>2. /\ create' \in Request /\ create'.state = "answered" /\ create'.job = create.job
      /\ create'.file = create.file
  BY Known DEF CreateHandled, Request
<1>3. /\ jobs' \in [Job -> Record] /\ create.job \in Job
      /\ jobs'[create.job].status = "queued" /\ jobs'[create.job].file = create.file
      /\ \A j \in Job \ {create.job} : jobs'[j] = jobs[j]
  BY QueuedJob DEF CreateHandled
<1>4. page.active # create.job /\ poll.job # create.job /\ download.job # create.job
  BY <1>1, Known, CountFields, PageFields, RequestFields DEF Numbered
<1>5. PageTypeOK'
  BY <1>1, <1>2, <1>3, Known, TypesNext DEF PageInv, PageTypeOK
<1>6. Numbered'
  BY <1>1, <1>2, <1>3, Known, CountFields DEF Numbered
<1>7. Informed'
  BY <1>1, <1>3, <1>4, Known, PageFields, RequestFields DEF Informed, Settled, Unsettled
<1>8. Announced'
  BY <1>1, Known DEF Announced
<1>9. InSight'
  BY <1>1, <1>2, <1>3, <1>4, Known, PageFields DEF InSight, Unsettled
<1> QED BY <1>5, <1>6, <1>7, <1>8, <1>9 DEF PageInv

\* The page takes the new job over from the request.
LEMMA CreateAnsweredStep == ASSUME PageInv, CreateAnswered PROVE PageInv'
<1> USE PageAssumption
<1> DEFINE j == create.job
<1>1. /\ create.state = "answered" /\ create' = NoRequest
      /\ UNCHANGED <<analyses, poll, download, jobs, count, notices, forgot>>
      /\ j \in Job /\ j = count.jobs
  BY Known DEF CreateAnswered, Numbered
<1>2. /\ page' \in Page /\ page'.file = page.file /\ page'.active = j /\ page'.data = "none"
      /\ page'.result = Nothing /\ page'.noticed = Nothing
  <2>1. page' = Created(page, j)
    BY DEF CreateAnswered
  <2> HIDE DEF j
  <2> QED BY <1>1, <2>1, Known, CreatedPage
<1>3. PageTypeOK'
  BY <1>1, <1>2, Known, NothingAsked, TypesNext
<1>4. Numbered'
  BY <1>1, <1>2, Known, JobNumbers, NothingAsked DEF Numbered
<1>5. Informed'
  BY <1>1, <1>2, Known DEF Informed, Settled
<1>6. Announced'
  BY <1>1, <1>2, Known DEF Announced, Numbered
<1>7. InSight'
  <2>1. ASSUME forgot = {}, NEW k \in Job, jobs[k].status \in Unsettled PROVE k = j
    BY <1>1, <2>1, Known, JobNumbers DEF InSight
  <2>2. "analysed while creating" \notin forgot /\ page.file # Nothing /\ jobs[j].status # "none"
           => jobs[j].file = page.file
    BY <1>1, Known DEF InSight
  <2> QED BY <1>1, <1>2, <2>1, <2>2, NothingAsked DEF InSight
<1> QED BY <1>3, <1>4, <1>5, <1>6, <1>7 DEF PageInv

\* A poll is of the job on the page.
LEMMA PollStep == ASSUME PageInv, Poll PROVE PageInv'
<1> USE PageAssumption
<1>1. UNCHANGED <<page, analyses, create, download, jobs, count, notices, forgot>>
  BY DEF Poll
<1>2. poll' \in Request /\ poll'.state = "asked" /\ poll'.job = page.active /\ page.active \in Job
  <2>1. page.active \in Job
    BY Known, PageFields DEF Poll
  <2>2. poll' = [NoRequest EXCEPT !.state = "asked", !.job = page.active]
    BY DEF Poll
  <2> QED BY <2>1, <2>2 DEF NoRequest, Request, Answers
<1>3. PageTypeOK'
  BY <1>1, <1>2, Known, TypesNext
<1>4. Numbered'
  BY <1>1, <1>2, Known DEF Numbered
<1>5. Informed'
  BY <1>1, <1>2, Known DEF Informed
<1>6. Announced'
  BY <1>1, Known DEF Announced
<1>7. InSight'
  BY <1>1, Known DEF InSight
<1> QED BY <1>3, <1>4, <1>5, <1>6, <1>7 DEF PageInv

\* get_lite_run_job: the answer says what the record says at that moment.
LEMMA PollHandledStep == ASSUME PageInv, PollHandled PROVE PageInv'
<1> USE PageAssumption
<1> DEFINE r == jobs[poll.job]
           a == CASE r.status = "none"                -> "gone"
                  [] r.status = "completed" /\ r.past -> "expired"
                  [] OTHER                            -> r.status
<1>1. /\ UNCHANGED <<page, analyses, create, download, jobs, count, notices, forgot>>
      /\ poll.state = "asked" /\ poll.job \in Job
      /\ poll' = [poll EXCEPT !.state = "answered", !.answer = a]
  BY Known DEF PollHandled, Informed
<1>2. r.status \in {"none", "queued", "running", "completed", "failed"} /\ r.past \in BOOLEAN
  BY <1>1, Known, RecordFields
<1>3. /\ a \in Unsettled \cup Settled \cup {"expired", "gone"}
      /\ a \notin Unsettled => r.status \notin Unsettled
      /\ a = "expired" => r.past
  BY <1>2 DEF Settled, Unsettled
<1>4. /\ poll' \in Request /\ poll'.state = "answered" /\ poll'.job = poll.job /\ poll'.answer = a
  <2>1. a \in Answers
    BY <1>3 DEF Answers, Settled, Unsettled
  <2> HIDE DEF a
  <2> QED BY <1>1, <2>1, Known DEF Request
<1> HIDE DEF a
<1>5. PageTypeOK'
  BY <1>1, <1>4, Known, TypesNext
<1>6. Numbered'
  BY <1>1, <1>4, Known DEF Numbered
<1>7. Informed'
  BY <1>1, <1>3, <1>4, Known DEF Informed
<1>8. Announced'
  BY <1>1, Known DEF Announced
<1>9. InSight'
  BY <1>1, Known DEF InSight
<1> QED BY <1>5, <1>6, <1>7, <1>8, <1>9 DEF PageInv

\* The page empties itself of a job that has ended: what is so of the page afterwards.
LEMMA Emptying ==
    ASSUME PageInv, page' \in Page, Emptied(page', page),
           UNCHANGED <<analyses, create, jobs, count, notices>>,
           poll' = poll \/ poll' = NoRequest, download' = download \/ download' = NoRequest,
           forgot \subseteq forgot',
           forgot' = {} /\ page.active # Nothing => jobs[page.active].status \notin Unsettled
    PROVE  PageInv'
<1> USE PageAssumption DEF Emptied
<1>1. PageTypeOK'
  BY Known, NothingAsked, TypesNext
<1>2. poll'.job <= count.jobs /\ download'.job <= count.jobs /\ page'.active <= count.jobs
  BY Known, JobNumbers, NothingAsked DEF Numbered
<1>3. create.state # "none" =>
         page'.active < create.job /\ poll'.job < create.job /\ download'.job < create.job
  BY Known, JobNumbers, NothingAsked DEF Numbered
<1>4. Numbered'
  BY <1>2, <1>3, Known DEF Numbered
<1>5. Informed'
  BY Known, NothingAsked DEF Informed, Settled, Unsettled
<1>6. Announced'
  BY Known DEF Announced
<1>7. InSight'
  <2>1. ASSUME forgot' = {}, NEW k \in Job, jobs[k].status \in Unsettled PROVE k = create.job
    <3>1. forgot = {} /\ k # Nothing
      BY <2>1
    <3> QED BY <2>1, <3>1, Known DEF InSight
  <2>2. "analysed while creating" \notin forgot' => "analysed while creating" \notin forgot
    OBVIOUS
  <2>3. "analysed while creating" \notin forgot' /\ page'.file # Nothing =>
          /\ create.state # "none" => create.file = page'.file
          /\ create.state = "answered" /\ jobs[create.job].status # "none"
                => jobs[create.job].file = page'.file
    BY <2>2, Known DEF InSight
  <2> QED BY <2>1, <2>3 DEF InSight
<1> QED BY <1>1, <1>4, <1>5, <1>6, <1>7 DEF PageInv

\* An answer that changes nothing on the page.
LEMMA AnswerUnseen ==
    ASSUME PageInv, UNCHANGED <<page, analyses, create, jobs, count, notices>>,
           poll' = poll \/ poll' = NoRequest, download' = download \/ download' = NoRequest,
           forgot \subseteq forgot'
    PROVE  PageInv'
<1> USE PageAssumption
<1>1. PageTypeOK'
  BY Known, NothingAsked, TypesNext
<1>2. poll'.job <= count.jobs /\ download'.job <= count.jobs
  BY Known, JobNumbers, NothingAsked DEF Numbered
<1>3. create.state # "none" => poll'.job < create.job /\ download'.job < create.job
  BY Known, JobNumbers, NothingAsked DEF Numbered
<1>4. Numbered'
  BY <1>2, <1>3, Known DEF Numbered
<1>5. Informed'
  BY Known, NothingAsked DEF Informed, Settled, Unsettled
<1>6. Announced'
  BY Known DEF Announced
<1>7. InSight'
  BY Known DEF InSight
<1> QED BY <1>1, <1>4, <1>5, <1>6, <1>7 DEF PageInv

\* An answer about the job on the page is true of it, any other goes unseen.
LEMMA PollAnsweredStep == ASSUME PageInv, PollAnswered PROVE PageInv'
<1> USE PageAssumption
<1>1. /\ poll.state = "answered" /\ poll' = NoRequest
      /\ UNCHANGED <<analyses, create, download, jobs, count, forgot>>
  BY DEF PollAnswered
<1>2. CASE poll.job # page.active
  BY <1>1, <1>2, AnswerUnseen DEF PollAnswered
<1>3. CASE poll.job = page.active
  <2> DEFINE a == poll.answer
             j == page.active
  <2>1. /\ a \in Unsettled \cup Settled \cup {"expired", "gone", "lost"}
        /\ a \notin Unsettled \cup {"lost"} => jobs[j].status \notin Unsettled
        /\ j \in Job
    BY <1>1, <1>3, Known DEF Informed
  <2>2. /\ page' = Polled(page, a)
        /\ a # "completed" => UNCHANGED notices
        /\ a = "completed" => notices' = IF page.noticed # j THEN [notices EXCEPT ![j] = @ + 1] ELSE notices
    BY <1>3 DEF PollAnswered
  <2>3. /\ page' \in Page /\ page'.file = page.file
        /\ a = "gone" => Emptied(page', page)
        /\ a = "expired" => page' = page \/ Emptied(page', page)
        /\ a = "lost" => page' = page
        /\ a = "completed" => page'.result = j /\ page'.noticed = j
        /\ a \in Unsettled \cup {"failed"} => page'.result = page.result /\ page'.noticed = page.noticed
        /\ a \in Unsettled \cup Settled => page'.active = j /\ page'.data = a
    BY <2>1, <2>2, Known, PolledPage
  <2>4. CASE a \in {"gone", "expired"} /\ Emptied(page', page)
    BY <1>1, <2>1, <2>2, <2>3, <2>4, Emptying DEF Unsettled
  <2>5. CASE page' = page /\ a # "completed"
    BY <1>1, <2>2, <2>5, AnswerUnseen
  <2>6. CASE a \in Unsettled \cup Settled
    <3> HIDE DEF a, j
    <3>1. page.result # Nothing => page.result = j
      BY Known DEF j
    <3>2. PageTypeOK'
      BY <1>1, <2>1, <2>3, <2>6, <3>1, Known, NothingAsked, TypesNext DEF Settled, Unsettled
    <3>3. notices' \in [Job -> Nat] /\ \A k \in Job \ {j} : notices'[k] = notices[k]
      <4>1. notices \in [Job -> Nat] /\ j \in Job
        BY <2>1, Known DEF Numbered
      <4>2. UNCHANGED notices \/ notices' = [notices EXCEPT ![j] = @ + 1]
        BY <2>2
      <4> QED BY <4>1, <4>2
    <3>4. poll'.job <= count.jobs /\ page'.active = page.active
      BY <1>1, <2>3, <2>6, JobNumbers, NothingAsked DEF j
    <3>5. create.state # "none" => poll'.job < create.job /\ create.job # j
      BY <1>1, Known, JobNumbers, NothingAsked DEF Numbered, j
    <3>6. \A k \in Job : count.jobs < k => k # j
      BY Known, JobNumbers DEF Numbered, j
    <3>7. Numbered'
      BY <1>1, <2>3, <3>3, <3>4, <3>5, <3>6, Known DEF Numbered
    <3>8. Informed'
      BY <1>1, <2>1, <2>3, <2>6, <3>4, Known, NothingAsked DEF Informed, Settled, Unsettled, j
    <3>9. Announced'
      <4>1. ASSUME NEW k \in Job PROVE notices'[k] <= 1 /\ (notices'[k] = 1 /\ page'.active = k => page'.noticed = k)
        <5>1. CASE k # j
          BY <3>3, <3>4, <5>1, Known DEF Announced, j
        <5>2. CASE k = j /\ a = "completed"
          <6>1. notices[j] \in Nat /\ notices[j] <= 1 /\ (page.noticed # j => notices[j] # 1)
            BY <2>1, Known DEF Announced, Numbered, j
          <6> QED BY <2>1, <2>2, <2>3, <5>2, <6>1, Known DEF Numbered
        <5>3. CASE k = j /\ a # "completed"
          BY <2>2, <2>3, <2>6, <3>4, <5>3, Known DEF Announced, Settled, Unsettled, j
        <5> QED BY <5>1, <5>2, <5>3
      <4> QED BY <4>1 DEF Announced
    <3>10. InSight'
      BY <1>1, <2>3, <3>4, Known DEF InSight
    <3> QED BY <3>2, <3>7, <3>8, <3>9, <3>10 DEF PageInv
  <2> QED BY <2>1, <2>3, <2>4, <2>5, <2>6 DEF Settled, Unsettled
<1> QED BY <1>2, <1>3

\* The timer takes only a completed job off the page.
LEMMA TimerStep == ASSUME PageInv, Timer PROVE PageInv'
<1>1. /\ page' = ShowExpired(page) /\ UNCHANGED <<requests, jobs, count, notices, forgot>>
      /\ page.data = "completed"
  BY DEF Timer
<1>2. page.active # Nothing => jobs[page.active].status \notin Unsettled
  BY <1>1, Known DEF Informed, Settled
<1>3. page' \in Page /\ (page' = page \/ Emptied(page', page))
  BY <1>1, Known, ShowExpiredPage
<1> QED BY <1>1, <1>2, <1>3, Emptying, AnswerUnseen

\* A download is of the completed job on the page.
LEMMA DownloadStep == ASSUME PageInv, Download PROVE PageInv'
<1> USE PageAssumption
<1>1. UNCHANGED <<page, analyses, create, poll, jobs, count, notices, forgot>>
  BY DEF Download
<1>2. page.active \in Job /\ page.data = "completed"
  BY Known, PageFields DEF Download
<1>3. /\ download' \in Request /\ download'.state = "asked" /\ download'.job = page.active
      /\ download'.answer = "none"
  <2>1. download' = [NoRequest EXCEPT !.state = "asked", !.job = page.active]
    BY DEF Download
  <2> QED BY <1>2, <2>1 DEF NoRequest, Request, Answers
<1>4. PageTypeOK'
  BY <1>1, <1>3, Known, TypesNext
<1>5. Numbered'
  BY <1>1, <1>3, Known DEF Numbered
<1>6. Informed'
  BY <1>1, <1>2, <1>3, Known DEF Informed, Settled
<1>7. Announced'
  BY <1>1, Known DEF Announced
<1>8. InSight'
  BY <1>1, Known DEF InSight
<1> QED BY <1>4, <1>5, <1>6, <1>7, <1>8 DEF PageInv

\* download_lite_result: 410 only of a result that is past.
LEMMA DownloadHandledStep ==
    ASSUME PageInv, NEW a \in {"200", "404", "410"}, DownloadHandled(a)
    PROVE  PageInv'
<1> USE PageAssumption
<1>1. /\ UNCHANGED <<page, analyses, create, poll, jobs, count, notices, forgot>>
      /\ download.state = "asked" /\ download.job \in Job
      /\ a = "410" => jobs[download.job].past
  BY Known DEF DownloadHandled, Informed
<1>2. /\ download' \in Request /\ download'.state = "answered" /\ download'.job = download.job
      /\ download'.answer = a
  BY Known DEF DownloadHandled, Request, Answers
<1>3. PageTypeOK'
  BY <1>1, <1>2, Known, TypesNext
<1>4. Numbered'
  BY <1>1, <1>2, Known DEF Numbered
<1>5. Informed'
  BY <1>1, <1>2, Known DEF Informed
<1>6. Announced'
  BY <1>1, Known DEF Announced
<1>7. InSight'
  BY <1>1, Known DEF InSight
<1> QED BY <1>3, <1>4, <1>5, <1>6, <1>7 DEF PageInv

\* A late 410 that takes another job off the page is on record in forgot.
LEMMA DownloadAnsweredStep == ASSUME PageInv, DownloadAnswered PROVE PageInv'
<1>1. /\ download' = NoRequest /\ UNCHANGED <<analyses, create, poll, jobs, count, notices>>
      /\ forgot \subseteq forgot'
      /\ page' = page \/ (download.answer = "410" /\ page' = ShowExpired(page))
  BY DEF DownloadAnswered
<1>2. page' \in Page /\ (page' = page \/ (download.answer = "410" /\ Emptied(page', page)))
  BY <1>1, Known, ShowExpiredPage
<1>3. CASE page' = page
  BY <1>1, <1>3, AnswerUnseen
<1>4. CASE download.answer = "410" /\ Emptied(page', page)
  <2>1. forgot' = {} => page.active \in {Nothing, download.job}
    BY <1>4 DEF DownloadAnswered
  <2>2. download.job # Nothing => jobs[download.job].status \notin Unsettled
    BY Known DEF Informed
  <2>3. forgot' = {} /\ page.active # Nothing => jobs[page.active].status \notin Unsettled
    BY <2>1, <2>2
  <2> QED BY <1>1, <1>2, <1>4, <2>3, Emptying
<1> QED BY <1>2, <1>3, <1>4

\* The page starts anew: only its job, its notice and the session storage are left.
LEMMA ReloadStep ==
    ASSUME PageInv, Reload, count' \in Count, count'.files = count.files, count'.jobs = count.jobs
    PROVE  PageInv'
<1> USE PageAssumption
<1>1. /\ page' \in Page /\ page'.file = Nothing /\ page'.active = page.active
      /\ page'.data = "none" /\ page'.result = Nothing /\ page'.noticed = page.noticed
  BY Known, ReloadedPage DEF Reload
<1>2. /\ analyses' = {} /\ create' = NoRequest /\ poll' = NoRequest /\ download' = NoRequest
      /\ UNCHANGED notices /\ forgot \subseteq forgot'
      /\ create.state # "none" => forgot' # {}
  BY DEF Reload
<1>3. /\ jobs' \in [Job -> Record]
      /\ \A j \in Job : jobs'[j] # jobs[j] => create.state # "none" /\ j = create.job
  BY Known, QueuedJob DEF Reload
<1>4. PageTypeOK'
  BY <1>1, <1>2, <1>3, NothingAsked, TypesNext
<1>5. Numbered'
  <2>1. \A j \in Job : count.jobs < j => jobs'[j] = NoJob /\ notices[j] = 0
    BY <1>3, Known, JobNumbers DEF Numbered
  <2> QED BY <1>1, <1>2, <2>1, Known, JobNumbers, NothingAsked DEF Numbered
<1>6. Informed'
  BY <1>1, <1>2, NothingAsked DEF Informed, Settled
<1>7. Announced'
  BY <1>1, <1>2, Known DEF Announced
<1>8. InSight'
  <2>1. ASSUME forgot' = {}, NEW j \in Job, jobs'[j].status \in Unsettled PROVE j = page.active
    <3>1. forgot = {} /\ create.state = "none" /\ jobs'[j] = jobs[j]
      BY <1>2, <1>3, <2>1
    <3>2. create.job = Nothing /\ j # Nothing
      BY <3>1, Known, NothingAsked DEF Numbered
    <3> QED BY <2>1, <3>1, <3>2, Known DEF InSight
  <2> QED BY <1>1, <1>2, <2>1, NothingAsked DEF InSight
<1> QED BY <1>4, <1>5, <1>6, <1>7, <1>8 DEF PageInv

\* A reload by the user is one more break.
LEMMA ReloadByUserStep == ASSUME PageInv, ReloadByUser PROVE PageInv'
<1>1. count' = [count EXCEPT !.breaks = @ + 1] /\ Reload
  BY DEF ReloadByUser
<1>2. count' \in Count /\ count'.files = count.files /\ count'.jobs = count.jobs
  BY <1>1, Known, CountFields
<1> QED BY <1>1, <1>2, ReloadStep

\* Confirming a notice reloads the page or only closes the notice.
LEMMA ConfirmStep == ASSUME PageInv, Confirm PROVE PageInv'
<1> USE PageAssumption
<1>1. CASE Reload
  BY <1>1, Known, ReloadStep DEF Confirm
<1>2. CASE ~Reload
  <2>1. /\ page' = [page EXCEPT !.modal = "none"]
        /\ UNCHANGED <<requests, jobs, notices, forgot, count>>
    BY <1>2 DEF Confirm
  <2>2. /\ page' \in Page /\ page'.file = page.file /\ page'.active = page.active
        /\ page'.data = page.data /\ page'.result = page.result /\ page'.noticed = page.noticed
    BY <2>1, Known DEF Page
  <2>3. PageTypeOK'
    BY <2>1, <2>2, Known, TypesNext
  <2>4. Numbered'
    BY <2>1, <2>2, Known DEF Numbered
  <2>5. Informed' /\ Announced'
    BY <2>1, <2>2, Known DEF Informed, Announced
  <2>6. InSight'
    BY <2>1, <2>2, Known DEF InSight
  <2> QED BY <2>3, <2>4, <2>5, <2>6 DEF PageInv
<1> QED BY <1>1, <1>2

\* _run_lite_job: a settled job never runs again, a past one stays past.
LEMMA JobStepsStep == ASSUME PageInv, NEW j \in Job, JobSteps(j) PROVE PageInv'
<1> USE PageAssumption
<1>1. /\ UNCHANGED <<page, requests, count, notices, forgot>>
      /\ jobs \in [Job -> Record] /\ jobs[j] \in Record
  BY Known DEF JobSteps
<1>2. /\ jobs' \in [Job -> Record] /\ jobs[j] # NoJob
      /\ jobs'[j].file = jobs[j].file
      /\ jobs'[j].status \in Unsettled => jobs[j].status \in Unsettled
      /\ jobs[j].status = "none" => jobs'[j].status = "none"
      /\ jobs[j].past => jobs'[j].past
      /\ \A k \in Job \ {j} : jobs'[k] = jobs[k]
  <2>1. CASE jobs[j].status = "queued" /\ jobs' = [jobs EXCEPT ![j].status = "running"]
    BY <1>1, <2>1, NothingAsked DEF Record, Unsettled
  <2>2. CASE jobs[j].status \in Unsettled /\ jobs' = [jobs EXCEPT ![j].status = "failed"]
    BY <1>1, <2>2, NothingAsked DEF Record, Unsettled
  <2>3. CASE jobs[j].status = "running" /\ jobs' = [jobs EXCEPT ![j].status = "completed", ![j].saved = TRUE]
    BY <1>1, <2>3, NothingAsked DEF Record, Unsettled
  <2>4. CASE jobs[j].saved /\ ~jobs[j].past /\ jobs' = [jobs EXCEPT ![j].past = TRUE]
    BY <1>1, <2>4, NothingAsked DEF Record, Unsettled
  <2> QED BY <2>1, <2>2, <2>3, <2>4 DEF JobSteps
<1>3. \A k \in Job : /\ jobs'[k].file = jobs[k].file
                     /\ jobs'[k].status \in Unsettled => jobs[k].status \in Unsettled
                     /\ jobs[k].status = "none" => jobs'[k].status = "none"
                     /\ jobs[k].past => jobs'[k].past
  BY <1>2
<1>4. PageTypeOK'
  BY <1>1, <1>2, Known, TypesNext
<1>5. Numbered'
  BY <1>1, <1>2, Known DEF Numbered
<1>6. Informed'
  BY <1>1, <1>3, Known, PageFields, RequestFields DEF Informed, Settled
<1>7. Announced'
  BY <1>1, Known DEF Announced
<1>8. InSight'
  BY <1>1, <1>3, Known, PageFields DEF InSight, Numbered
<1> QED BY <1>4, <1>5, <1>6, <1>7, <1>8 DEF PageInv

\* A restart leaves no record, and a poll under way is lost.
LEMMA RestartStep == ASSUME PageInv, Restart PROVE PageInv'
<1> USE PageAssumption
<1>1. /\ UNCHANGED <<page, notices, forgot>>
      /\ analyses' = {} /\ create' = NoRequest /\ download' = NoRequest
  BY DEF Restart
<1>2. count' \in Count /\ count'.files = count.files /\ count'.jobs = count.jobs
  BY Known, CountFields DEF Restart
<1>3. /\ jobs' \in [Job -> Record]
      /\ \A j \in Job : /\ jobs'[j].status = "none" /\ jobs'[j].past = jobs[j].past
                        /\ jobs'[j].file = jobs[j].file
                        /\ jobs[j] = NoJob => jobs'[j] = NoJob
  <2>1. jobs' = [j \in Job |-> [jobs[j] EXCEPT !.status = "none"]]
    BY DEF Restart
  <2>2. ASSUME NEW r \in Record
        PROVE  /\ [r EXCEPT !.status = "none"] \in Record
               /\ [r EXCEPT !.status = "none"].status = "none"
               /\ [r EXCEPT !.status = "none"].past = r.past
               /\ [r EXCEPT !.status = "none"].file = r.file
    BY DEF Record
  <2>3. [NoJob EXCEPT !.status = "none"] = NoJob
    BY DEF NoJob
  <2> QED BY <2>1, <2>2, <2>3, Known
<1>4. /\ poll' \in Request /\ poll'.job = poll.job
      /\ poll'.state = "none" => poll' = NoRequest
      /\ poll'.state # "none" => poll'.state = "answered" /\ poll'.answer = "lost"
      /\ poll'.state # "none" => poll.state # "none"
  <2>1. CASE Free(poll)
    BY <2>1, Known, NothingAsked DEF Restart, Free
  <2>2. CASE ~Free(poll)
    <3>1. poll' = [poll EXCEPT !.state = "answered", !.answer = "lost"]
      BY <2>2 DEF Restart
    <3>2. poll.state # "none"
      BY <2>2, Known DEF Numbered, Free
    <3> QED BY <3>1, <3>2, Known DEF Request, Answers
  <2> QED BY <2>1, <2>2
<1>5. PageTypeOK'
  BY <1>1, <1>3, <1>4, Known, NothingAsked, TypesNext
<1>6. Numbered'
  BY <1>1, <1>2, <1>3, <1>4, Known, JobNumbers, NothingAsked DEF Numbered
<1>7. Informed'
  BY <1>1, <1>3, <1>4, Known, PageFields, NothingAsked DEF Informed, Settled, Unsettled
<1>8. Announced'
  BY <1>1, Known DEF Announced
<1>9. InSight'
  BY <1>1, <1>3, Known, PageFields, NothingAsked DEF InSight, Unsettled
<1> QED BY <1>5, <1>6, <1>7, <1>8, <1>9 DEF PageInv

\* Every step keeps the invariant.
LEMMA PageInvStep == ASSUME PageInv, [PageNext]_page_vars PROVE PageInv'
<1>1. CASE UNCHANGED page_vars
  <2>1. PageTypeOK'
    BY <1>1, Known, TypesNext
  <2>2. Numbered'
    BY <1>1, Known DEF Numbered
  <2>3. Informed' /\ Announced'
    BY <1>1, Known DEF Informed, Announced
  <2>4. InSight'
    BY <1>1, Known DEF InSight
  <2> QED BY <2>1, <2>2, <2>3, <2>4 DEF PageInv
<1> QED
  BY <1>1, DropStep, AnalysedStep, RunStep, CreateHandledStep, CreateAnsweredStep, PollStep,
     PollHandledStep, PollAnsweredStep, TimerStep, DownloadStep, DownloadHandledStep,
     DownloadAnsweredStep, ReloadByUserStep, ConfirmStep, JobStepsStep, RestartStep
  DEF PageNext

\* It holds of an empty page.
LEMMA PageInvInit == ASSUME PageInit PROVE PageInv
<1> USE PageAssumption
<1>1. /\ page \in Page /\ page.file = Nothing /\ page.active = Nothing /\ page.data = "none"
      /\ page.result = Nothing
  BY DEF PageInit, Page
<1>2. count \in Count /\ count.files = 0 /\ count.jobs = 0
  BY DEF PageInit, Count
<1>3. PageTypeOK
  BY <1>1, NothingAsked, TypeFields DEF PageInit
<1>4. Numbered
  BY <1>1, <1>2, NothingAsked DEF PageInit, Numbered
<1>5. Informed /\ Announced
  BY <1>1, NothingAsked DEF PageInit, Informed, Announced, Settled
<1>6. InSight
  BY <1>1, NothingAsked DEF PageInit, InSight, Unsettled
<1> QED BY <1>3, <1>4, <1>5, <1>6 DEF PageInv

-----------------------------------------------------------------------------
(* The properties *)

\* Everything above holds in every reachable state.
THEOREM PageInvHolds == PageSpec => []PageInv
<1>1. PageInit => PageInv
  BY PageInvInit
<1>2. PageInv /\ [PageNext]_page_vars => PageInv'
  BY PageInvStep
<1> QED BY <1>1, <1>2, PTL DEF PageSpec

\* Every variable keeps its type, and the page has data and a result only of its job.
THEOREM PageTypeCorrect == PageSpec => []PageTypeOK
<1>1. PageInv => PageTypeOK
  BY DEF PageInv
<1> QED BY <1>1, PageInvHolds, PTL

\* Over polls, focuses and reloads the page announces once that a job is complete.
THEOREM NoticedOnceCorrect == PageSpec => []NoticedOnce
<1>1. PageInv => NoticedOnce
  BY DEF PageInv, Announced, NoticedOnce
<1> QED BY <1>1, PageInvHolds, PTL

\* A running job is on the page, beside its file, but for the ways named in forgot.
THEOREM JobsAreInSightCorrect == PageSpec => []JobsAreInSight
<1>1. PageInv => JobsAreInSight
  BY DEF PageInv, InSight, JobsAreInSight
<1> QED BY <1>1, PageInvHolds, PTL

\* A result leaves the page for its own expiry, its job's 404, a new analysis or job or a
\* reload, or for an older result's expiry.
THEOREM ResultLeavesForAReasonCorrect == PageSpec => ResultLeavesForAReason
<1> USE PageAssumption
<1> DEFINE Reason(j) ==
              \/ jobs[j].past \/ (poll.job = j /\ poll.answer = "gone") \/ page'.active \notin {Nothing, j}
              \/ page'.file # page.file
              \/ "an older result expired" \in forgot'
              \/ page' = Reloaded(page)
<1>1. ASSUME PageInv, [PageNext]_page_vars, NEW j \in Job, page.result = j, page'.result # j
      PROVE  Reason(j)
  <2>1. page \in Page /\ j # Nothing /\ page.active = j
    BY <1>1, Known
  <2>2. CASE \E f \in File, ok \in BOOLEAN : Analysed(f, ok)
    <3>1. PICK f \in File, ok \in BOOLEAN : Analysed(f, ok)
      BY <2>2
    <3>2. f \in analyses /\ page' = [Reset(page) EXCEPT !.file = f]
      BY <1>1, <3>1 DEF Analysed
    <3>3. page'.file = f /\ f # page.file
      BY <1>1, <2>1, <3>2, ResetPage, Known DEF Numbered, Page
    <3> QED BY <3>3
  <2>3. CASE CreateAnswered
    <3>1. create.job \in Job /\ page'.active = create.job /\ page.active < create.job
      BY <1>1, <2>1, <2>3, CreatedPage, Known DEF CreateAnswered, Numbered
    <3>2. create.job # Nothing /\ create.job # j
      BY <2>1, <3>1
    <3>3. page'.active \notin {Nothing, j}
      BY <3>1, <3>2
    <3> QED BY <3>3
  <2>4. CASE PollAnswered
    <3>1. /\ poll.state = "answered" /\ poll.job = j /\ page' = Polled(page, poll.answer)
          /\ poll.answer \in Unsettled \cup Settled \cup {"expired", "gone", "lost"}
          /\ poll.answer = "expired" => jobs[j].past
      BY <1>1, <2>1, <2>4, Known DEF PollAnswered, Informed
    <3>2. poll.answer \in {"gone", "expired"}
      BY <1>1, <2>1, <3>1, PolledPage DEF Settled, Unsettled
    <3> QED BY <3>1, <3>2
  <2>5. CASE Timer
    BY <2>1, <2>5 DEF Timer
  <2>6. CASE DownloadAnswered
    <3>1. download.answer = "410"
      BY <1>1, <2>6 DEF DownloadAnswered
    <3>2. jobs[download.job].past /\ download.job \in Job
      BY <1>1, <3>1, Known DEF Informed
    <3>3. page.active = download.job \/ "an older result expired" \in forgot'
      BY <2>1, <2>6, <3>1 DEF DownloadAnswered
    <3> QED BY <2>1, <3>2, <3>3
  <2>7. CASE Confirm
    <3>1. page' = Reloaded(page) \/ page' = [page EXCEPT !.modal = "none"]
      BY <2>7 DEF Confirm, Reload
    <3>2. [page EXCEPT !.modal = "none"].result = j
      BY <1>1, <2>1 DEF Page
    <3> QED BY <1>1, <3>1, <3>2
  <2>8. CASE ReloadByUser
    BY <2>8 DEF ReloadByUser, Reload
  <2>9. CASE UNCHANGED page
    BY <1>1, <2>9
  <2> QED
    BY <1>1, <2>2, <2>3, <2>4, <2>5, <2>6, <2>7, <2>8, <2>9
    DEF PageNext, Drop, Run, CreateHandled, Poll, PollHandled, Download, DownloadHandled, JobSteps, Restart
<1>2. PageInv /\ [PageNext]_page_vars =>
        [\A j \in Job : page.result = j /\ page'.result # j => Reason(j)]_page_vars
  BY <1>1
<1> QED BY <1>2, PageInvHolds, PTL DEF PageSpec, ResultLeavesForAReason

-----------------------------------------------------------------------------
(* Both ends *)

BothInv == IInv /\ PageInv

\* Each end leaves the other's variables: both invariants hold together.
THEOREM BothInvHolds == BothSpec => []BothInv
<1>1. BothInit => BothInv
  <2>1. Init => IInv
    BY JobInvKept, PoolInvKept, RecordInvKept, AnswersInvKept, CollectedInvKept DEF IInv
  <2> QED BY <2>1, PageInvInit DEF BothInit, BothInv
<1>2. BothInv /\ [BothNext]_<<end, vars, page_vars>> => BothInv'
  <2> SUFFICES ASSUME BothInv, [BothNext]_<<end, vars, page_vars>> PROVE BothInv'
    OBVIOUS
  <2>1. [Next]_vars /\ [PageNext]_page_vars
    BY Zenon DEF BothNext
  <2>2. IInv'
    BY <2>1, JobInvKept, PoolInvKept, RecordInvKept, AnswersInvKept, CollectedInvKept
    DEF IInv, BothInv
  <2>3. PageInv'
    BY <2>1, PageInvStep DEF BothInv
  <2> QED BY <2>2, <2>3 DEF BothInv
<1> QED BY <1>1, <1>2, PTL DEF BothSpec

\* Every variable of the worker and of the page keeps its type, whichever end acts.
THEOREM BothTypeCorrect == BothSpec => []BothTypeOK
<1>1. BothInv => BothTypeOK
  BY TypeFollows DEF BothInv, PageInv, BothTypeOK
<1> QED BY <1>1, BothInvHolds, PTL
=============================================================================
