-------------------------- MODULE AlgorithmsProofs --------------------------
(***************************************************************************)
(* Proofs about the pure algorithms, for inputs of any length, and the     *)
(* invariants of MCAlgorithms from them.                                   *)
(***************************************************************************)
EXTENDS MCAlgorithms, LiteRowsProofs

-----------------------------------------------------------------------------
(* The first and the last place of a sequence *)

\* A set of places that is not empty has a first one and a last one.
LEMMA Places ==
    ASSUME NEW n \in Nat, NEW I \in SUBSET (1 .. n), I # {}
    PROVE  /\ Min(I) \in I /\ \A i \in I : Min(I) <= i
           /\ Max(I) \in I /\ \A i \in I : Max(I) >= i
<1> DEFINE Ends(J) == \E x, y \in J : \A i \in J : x <= i /\ i <= y
           S == {m \in 0 .. n : \A J \in SUBSET (1 .. m) : J # {} => Ends(J)}
<1>1. 0 \in S
  <2>1. (1 .. 0) = {} /\ 0 \in 0 .. n
    OBVIOUS
  <2> HIDE DEF Ends
  <2> QED BY <2>1
<1>2. ASSUME NEW m \in 1 .. n, m - 1 \in S PROVE m \in S
  <2>1. SUFFICES ASSUME NEW J \in SUBSET (1 .. m), J # {} PROVE Ends(J)
    BY DEF S
  <2>2. J \ {m} \in SUBSET (1 .. m - 1)
    OBVIOUS
  <2>3. CASE J \ {m} = {}
    <3>1. J = {m}
      BY <2>1, <2>3
    <3> QED BY <3>1
  <2>4. CASE J \ {m} # {}
    <3>1. Ends(J \ {m})
      <4> HIDE DEF Ends
      <4> QED BY <1>2, <2>2, <2>4
    <3>2. PICK x, y \in J \ {m} : \A i \in J \ {m} : x <= i /\ i <= y
      BY <3>1
    <3>3. CASE m \in J
      <4>1. \A i \in J : x <= i /\ i <= m
        BY <3>2
      <4> QED BY <3>3, <4>1
    <3>4. CASE m \notin J
      BY <3>2, <3>4
    <3> QED BY <3>3, <3>4
  <2> QED BY <2>3, <2>4
<1>3. n \in S
  <2>1. \A k \in 1 .. n : k - 1 \in S => k \in S
    BY <1>2
  <2> HIDE DEF S
  <2>2. \A k \in 0 .. n : k \in S
    BY <1>1, <2>1, Induction
  <2> QED BY <2>2
<1>4. PICK x, y \in I : \A i \in I : x <= i /\ i <= y
  BY <1>3
<1> QED BY <1>4 DEF Min, Max

-----------------------------------------------------------------------------
(* SheetColumns: the columns *)

\* A column is found if some heading is normalized to the name, and it is one of those.
LEMMA ColumnOfIs ==
    ASSUME NEW S, NEW columns \in Seq(S), NEW name
    PROVE  \/ /\ \A i \in DOMAIN columns : columns[i].name # name
              /\ ColumnOf(columns, name) = NoColumn
           \/ \E i \in DOMAIN columns :
                 columns[i].name = name /\ ColumnOf(columns, name) = columns[i].text
<1> DEFINE I == {i \in 1 .. Len(columns) : columns[i].name = name}
           last == SelectLastInSeq(columns, LAMBDA c : c.name = name)
<1>1. last = IF I # {} THEN Max(I) ELSE 0
  BY DEF SelectLastInSeq
<1>2. ColumnOf(columns, name) = IF last = 0 THEN NoColumn ELSE columns[last].text
  BY DEF ColumnOf
<1>3. CASE I = {}
  <2>1. \A i \in DOMAIN columns : columns[i].name # name
    BY <1>3
  <2>2. last = 0
    BY <1>1, <1>3
  <2> HIDE DEF last
  <2> QED BY <1>2, <2>1, <2>2
<1>4. CASE I # {}
  <2>1. Max(I) \in I
    <3>1. Len(columns) \in Nat /\ I \in SUBSET (1 .. Len(columns))
      OBVIOUS
    <3> HIDE DEF I
    <3> QED BY <1>4, <3>1, Places
  <2> HIDE DEF last
  <2>2. last \in I /\ last # 0
    BY <1>1, <1>4, <2>1
  <2> QED BY <1>2, <2>2
<1> QED BY <1>3, <1>4

\* A sequence, of whatever.
IsList(s) == Len(s) \in Nat /\ DOMAIN s = 1 .. Len(s)

\* The alias at place i is the first that has a column.
FirstAlias(columns, aliases, i) ==
    /\ i \in DOMAIN aliases /\ ColumnOf(columns, aliases[i]) # NoColumn
    /\ \A k \in DOMAIN aliases : k < i => ColumnOf(columns, aliases[k]) = NoColumn

\* A field is read from the column of the first alias that has one, and is not read if
\* none has.
LEMMA DetectIs ==
    ASSUME NEW columns, NEW aliases, IsList(aliases)
    PROVE  \/ /\ \A i \in DOMAIN aliases : ColumnOf(columns, aliases[i]) = NoColumn
              /\ Detect(columns, aliases) = NoColumn
           \/ \E i \in DOMAIN aliases : /\ FirstAlias(columns, aliases, i)
                                        /\ Detect(columns, aliases) = ColumnOf(columns, aliases[i])
<1> DEFINE I == {i \in 1 .. Len(aliases) : ColumnOf(columns, aliases[i]) # NoColumn}
           first == SelectInSeq(aliases, LAMBDA alias : ColumnOf(columns, alias) # NoColumn)
<1>1. first = IF I # {} THEN Min(I) ELSE 0
  BY DEF SelectInSeq
<1>2. Detect(columns, aliases) = IF first = 0 THEN NoColumn ELSE ColumnOf(columns, aliases[first])
  BY DEF Detect
<1>3. CASE I = {}
  <2>1. \A i \in DOMAIN aliases : ColumnOf(columns, aliases[i]) = NoColumn
    BY <1>3 DEF IsList
  <2>2. first = 0
    BY <1>1, <1>3
  <2> HIDE DEF first
  <2> QED BY <1>2, <2>1, <2>2
<1>4. CASE I # {}
  <2>1. Min(I) \in I /\ \A i \in I : Min(I) <= i
    <3>1. Len(aliases) \in Nat /\ I \in SUBSET (1 .. Len(aliases))
      BY DEF IsList
    <3> HIDE DEF I
    <3> QED BY <1>4, <3>1, Places
  <2> HIDE DEF first
  <2>2. first \in I /\ first # 0 /\ \A i \in I : first <= i
    BY <1>1, <1>4, <2>1
  <2>3. FirstAlias(columns, aliases, first)
    BY <2>2 DEF FirstAlias, IsList
  <2> QED BY <1>2, <2>2, <2>3 DEF IsList
<1> QED BY <1>3, <1>4

\* Aliases that keep their order and are joined by others make no difference to a file
\* with no column of the others.
LEMMA MoreAliases ==
    ASSUME NEW columns, NEW few, IsList(few), NEW more, IsList(more),
           NEW at \in [DOMAIN few -> DOMAIN more],
           \A i \in DOMAIN few : more[at[i]] = few[i],
           \A i, k \in DOMAIN few : i < k => at[i] < at[k],
           \A k \in DOMAIN more : \/ \E i \in DOMAIN few : at[i] = k
                                  \/ ColumnOf(columns, more[k]) = NoColumn
    PROVE  Detect(columns, few) = Detect(columns, more)
<1>1. CASE \A i \in DOMAIN few : ColumnOf(columns, few[i]) = NoColumn
  <2>1. Detect(columns, few) = NoColumn
    BY <1>1, DetectIs DEF FirstAlias
  <2>2. \A k \in DOMAIN more : ColumnOf(columns, more[k]) = NoColumn
    BY <1>1
  <2>3. Detect(columns, more) = NoColumn
    BY <2>2, DetectIs DEF FirstAlias
  <2> QED BY <2>1, <2>3
<1>2. CASE ~ \A i \in DOMAIN few : ColumnOf(columns, few[i]) = NoColumn
  <2>1. PICK i \in DOMAIN few : /\ FirstAlias(columns, few, i)
                                /\ Detect(columns, few) = ColumnOf(columns, few[i])
    BY <1>2, DetectIs
  <2>2. at[i] \in DOMAIN more /\ ColumnOf(columns, more[at[i]]) # NoColumn
    BY <2>1 DEF FirstAlias
  <2>3. PICK k \in DOMAIN more : /\ FirstAlias(columns, more, k)
                                 /\ Detect(columns, more) = ColumnOf(columns, more[k])
    BY <2>2, DetectIs
  <2>4. PICK j \in DOMAIN few : at[j] = k
    BY <2>3 DEF FirstAlias
  <2>5. ColumnOf(columns, few[j]) # NoColumn
    BY <2>3, <2>4 DEF FirstAlias
  <2>6. i \in Nat /\ j \in Nat /\ k \in Nat /\ at[i] \in Nat
    <3>1. DOMAIN few = 1 .. Len(few) /\ DOMAIN more = 1 .. Len(more)
      BY DEF IsList
    <3> QED BY <3>1
  <2>7. ~ (j < i)
    BY <2>1, <2>5 DEF FirstAlias
  <2>8. ~ (at[i] < k)
    BY <2>2, <2>3 DEF FirstAlias
  <2>9. ~ (i < j)
    BY <2>4, <2>8
  <2>10. i = j
    BY <2>6, <2>7, <2>9
  <2> QED BY <2>1, <2>3, <2>4, <2>10
<1> QED BY <1>1, <1>2

\* No column has one of the aliases that are only known to the one that knows more.
NoOthers(columns, few, more) ==
    \A a \in ToSet(more) \ ToSet(few) : ColumnOf(columns, a) = NoColumn

\* The headings of other languages are all that FileParser knows more than LiteService: in its
\* aliases of an order number
LEMMA OrderAliases ==
    ASSUME NEW columns, NEW few,
           few = <<"ordernumber", "orderno">>,
           NEW more,
           more = <<"ordernumber", "orderno", "orderno_ko", "orderno_zh">>,
           NoOthers(columns, few, more)
    PROVE  Detect(columns, few) = Detect(columns, more)
<1> DEFINE at == [i \in 1 .. 2 |-> i]
<1>1. Len(few) = 2 /\ DOMAIN few = 1 .. 2 /\ Len(more) = 4 /\ DOMAIN more = 1 .. 4
  OBVIOUS
<1>2. ToSet(few) = {"ordernumber", "orderno"}
  BY DEF ToSet
<1>3. more[3] \in ToSet(more) /\ more[4] \in ToSet(more)
  BY <1>1 DEF ToSet
<1>4. more[3] \notin ToSet(few) /\ more[4] \notin ToSet(few)
  BY <1>2
<1>5. \A i \in 1 .. 2 : more[i] = few[i]
  OBVIOUS
<1>6. \A k \in 3 .. 4 : ColumnOf(columns, more[k]) = NoColumn
  <2>1. \A k \in 3 .. 4 : k = 3 \/ k = 4
    OBVIOUS
  <2>2. /\ ColumnOf(columns, more[3]) = NoColumn
        /\ ColumnOf(columns, more[4]) = NoColumn
    BY <1>3, <1>4 DEF NoOthers
  <2> QED BY <2>1, <2>2
<1>7. \A k \in 1 .. 4 : (\E i \in 1 .. 2 : at[i] = k) \/ ColumnOf(columns, more[k]) = NoColumn
  <2>1. \A k \in 1 .. 4 : k \in 1 .. 2 \/ k \in 3 .. 4
    OBVIOUS
  <2> QED BY <1>6, <2>1
<1>8. IsList(few) /\ IsList(more)
  BY <1>1 DEF IsList
<1>9. /\ at \in [DOMAIN few -> DOMAIN more] /\ \A i \in DOMAIN few : more[at[i]] = few[i]
      /\ \A i, k \in DOMAIN few : i < k => at[i] < at[k]
  BY <1>1, <1>5
<1>10. Detect(columns, few) = Detect(columns, more)
  <2> HIDE DEF at
  <2> QED BY <1>1, <1>7, <1>8, <1>9, MoreAliases
<1> QED BY <1>10

\* and in those of a tracking number.
LEMMA TrackingAliases ==
    ASSUME NEW columns, NEW few,
           few = <<"trackingnumber", "trackingno", "waybill", "waybillno", "tracking", "mailno">>,
           NEW more,
           more = <<"trackingnumber", "trackingno", "waybill", "waybillno",
                           "waybillno_ko", "invoiceno_ko",
                           "tracking", "mailno">>,
           NoOthers(columns, few, more)
    PROVE  Detect(columns, few) = Detect(columns, more)
<1> DEFINE at == [i \in 1 .. 6 |-> IF i <= 4 THEN i ELSE i + 2]
<1>1. Len(few) = 6 /\ DOMAIN few = 1 .. 6 /\ Len(more) = 8 /\ DOMAIN more = 1 .. 8
  OBVIOUS
<1>2. ToSet(few) = {"trackingnumber", "trackingno", "waybill", "waybillno", "tracking", "mailno"}
  BY DEF ToSet
<1>3. more[5] \in ToSet(more) /\ more[6] \in ToSet(more)
  BY <1>1 DEF ToSet
<1>4. more[5] \notin ToSet(few) /\ more[6] \notin ToSet(few)
  BY <1>2
<1>5. \A i \in 1 .. 6 : more[at[i]] = few[i]
  <2>1. \A i \in 1 .. 6 : i = 1 \/ i = 2 \/ i = 3 \/ i = 4 \/ i = 5 \/ i = 6
    OBVIOUS
  <2>2. at[1] = 1 /\ at[2] = 2 /\ at[3] = 3 /\ at[4] = 4 /\ at[5] = 7 /\ at[6] = 8
    OBVIOUS
  <2> HIDE DEF at
  <2> QED BY <2>1, <2>2
<1>6. \A k \in 5 .. 6 : ColumnOf(columns, more[k]) = NoColumn
  <2>1. \A k \in 5 .. 6 : k = 5 \/ k = 6
    OBVIOUS
  <2>2. /\ ColumnOf(columns, more[5]) = NoColumn
        /\ ColumnOf(columns, more[6]) = NoColumn
    BY <1>3, <1>4 DEF NoOthers
  <2> QED BY <2>1, <2>2
<1>7. \A k \in 1 .. 8 : (\E i \in 1 .. 6 : at[i] = k) \/ ColumnOf(columns, more[k]) = NoColumn
  <2>1. \A k \in 1 .. 8 : k \in 5 .. 6 \/ \E i \in 1 .. 6 : at[i] = k
    <3>1. \A k \in 1 .. 4 : k \in 1 .. 6 /\ at[k] = k
      OBVIOUS
    <3>2. \A k \in 7 .. 8 : k - 2 \in 1 .. 6 /\ at[k - 2] = k
      OBVIOUS
    <3>3. \A k \in 1 .. 8 : k \in 1 .. 4 \/ k \in 5 .. 6 \/ k \in 7 .. 8
      OBVIOUS
    <3> HIDE DEF at
    <3> QED BY <3>1, <3>2, <3>3
  <2> QED BY <1>6, <2>1
<1>8. IsList(few) /\ IsList(more)
  BY <1>1 DEF IsList
<1>9. /\ at \in [DOMAIN few -> DOMAIN more] /\ \A i \in DOMAIN few : more[at[i]] = few[i]
      /\ \A i, k \in DOMAIN few : i < k => at[i] < at[k]
  BY <1>1, <1>5
<1>10. Detect(columns, few) = Detect(columns, more)
  <2> HIDE DEF at
  <2> QED BY <1>1, <1>7, <1>8, <1>9, MoreAliases
<1> QED BY <1>10

\* A heading that is an alias is not empty.
Headed(columns) == \A i \in DOMAIN columns : columns[i].name # "" => columns[i].text # NoColumn

\* No alias is empty.
LEMMA AliasesAreNamed ==
    ASSUME NEW f \in Fields, NEW aliases, aliases = LiteAliases[f]
    PROVE  IsList(aliases) /\ "" \notin ToSet(aliases)
<1>1. CASE f = "order_number"
  <2>1. aliases = <<"ordernumber", "orderno">>
    BY <1>1 DEF LiteAliases
  <2>2. Len(aliases) = 2 /\ DOMAIN aliases = 1 .. 2
    BY <2>1
  <2>3. ToSet(aliases) = {"ordernumber", "orderno"}
    BY <2>1 DEF ToSet
  <2> QED BY <2>2, <2>3 DEF IsList
<1>2. CASE f = "tracking_number"
  <2>1. aliases = <<"trackingnumber", "trackingno", "waybill", "waybillno", "tracking", "mailno">>
    BY <1>2 DEF LiteAliases
  <2>2. Len(aliases) = 6 /\ DOMAIN aliases = 1 .. 6
    BY <2>1
  <2>3. ToSet(aliases)
          = {"trackingnumber", "trackingno", "waybill", "waybillno", "tracking", "mailno"}
    BY <2>1 DEF ToSet
  <2> QED BY <2>2, <2>3 DEF IsList
<1> QED BY <1>1, <1>2 DEF Fields

\* A field is found exactly if some heading names it.
LEMMA FoundIs ==
    ASSUME NEW S, NEW columns \in Seq(S), Headed(columns), NEW f \in Fields
    PROVE  DetectMapping(columns)[f] # NoColumn <=> Readable(columns, f)
<1> DEFINE aliases == LiteAliases[f]
<1>1. IsList(aliases) /\ "" \notin ToSet(aliases)
  BY AliasesAreNamed
<1>2. DetectMapping(columns)[f] = Detect(columns, aliases)
  BY DEF DetectMapping
<1>3. Readable(columns, f) <=> \E i \in DOMAIN columns, k \in DOMAIN aliases : columns[i].name = aliases[k]
  BY DEF Readable, ToSet
<1> HIDE DEF aliases
<1>4. ASSUME NEW k \in DOMAIN aliases
      PROVE  ColumnOf(columns, aliases[k]) # NoColumn
                <=> \E i \in DOMAIN columns : columns[i].name = aliases[k]
  <2>1. aliases[k] # ""
    BY <1>1 DEF ToSet
  <2>2. \/ /\ \A i \in DOMAIN columns : columns[i].name # aliases[k]
           /\ ColumnOf(columns, aliases[k]) = NoColumn
        \/ \E i \in DOMAIN columns :
              columns[i].name = aliases[k] /\ ColumnOf(columns, aliases[k]) = columns[i].text
    BY ColumnOfIs
  <2>3. CASE \A i \in DOMAIN columns : columns[i].name # aliases[k]
    BY <2>2, <2>3
  <2>4. CASE \E i \in DOMAIN columns :
                 columns[i].name = aliases[k] /\ ColumnOf(columns, aliases[k]) = columns[i].text
    BY <2>1, <2>4 DEF Headed
  <2> QED BY <2>2, <2>3, <2>4
<1>5. Detect(columns, aliases) # NoColumn <=> \E k \in DOMAIN aliases : ColumnOf(columns, aliases[k]) # NoColumn
  BY <1>1, DetectIs DEF FirstAlias
<1> QED BY <1>2, <1>3, <1>4, <1>5

\* A file of headings both parsers know is read the same way by both, of any headings.
THEOREM ParsersAgreeHolds ==
    ASSUME NEW S, NEW columns \in Seq(S), Headed(columns)
    PROVE  ParsersAgree(columns)
<1>1. SUFFICES ASSUME \A i \in DOMAIN columns, f \in Fields :
                   columns[i].name \in ToSet(ParserAliases[f])
                       => columns[i].name \in ToSet(LiteAliases[f])
               PROVE  /\ DetectMapping(columns) = ParserDetectMapping(columns)
                      /\ \A f \in Fields : DetectMapping(columns)[f] # NoColumn <=> Readable(columns, f)
  BY DEF ParsersAgree
<1>2. \A f \in Fields : \A a \in ToSet(ParserAliases[f]) \ ToSet(LiteAliases[f]) :
          ColumnOf(columns, a) = NoColumn
  BY <1>1, ColumnOfIs
<1>3. \A f \in Fields : Detect(columns, LiteAliases[f]) = Detect(columns, ParserAliases[f])
  <2>1. Detect(columns, LiteAliases.order_number) = Detect(columns, ParserAliases.order_number)
    BY <1>2, OrderAliases DEF Fields, LiteAliases, ParserAliases, NoOthers
  <2>2. Detect(columns, LiteAliases.tracking_number) = Detect(columns, ParserAliases.tracking_number)
    BY <1>2, TrackingAliases DEF Fields, LiteAliases, ParserAliases, NoOthers
  <2> QED BY <2>1, <2>2 DEF Fields
<1>4. DetectMapping(columns) = ParserDetectMapping(columns)
  BY <1>3 DEF DetectMapping, ParserDetectMapping
<1> QED BY <1>4, FoundIs

-----------------------------------------------------------------------------
(* SheetColumns: the sheet *)

\* The sheets of a workbook, with headings of H that are not empty where they are aliases.
WorkbookOf(workbook, H) ==
    /\ workbook \in Seq([columns : Seq(H), rows : Nat])
    /\ \A i \in DOMAIN workbook : Headed(workbook[i].columns)

\* Each sheet of a workbook has headings and rows.
LEMMA SheetIs ==
    ASSUME NEW H, NEW workbook, WorkbookOf(workbook, H), NEW i \in DOMAIN workbook
    PROVE  /\ workbook[i].columns \in Seq(H) /\ workbook[i].rows \in Nat
           /\ Headed(workbook[i].columns)
<1> DEFINE R == [columns : Seq(H), rows : Nat]
<1>1. workbook \in Seq(R) /\ Headed(workbook[i].columns)
  BY DEF WorkbookOf
<1>2. workbook[i] \in R
  <2> HIDE DEF R
  <2> QED BY <1>1
<1> QED BY <1>1, <1>2

\* Order numbers are worth 1000 rows, and a tracking number at most 100.
LEMMA ScoreIs ==
    ASSUME NEW H, NEW workbook, WorkbookOf(workbook, H), NEW i \in DOMAIN workbook
    PROVE  /\ SheetScore(workbook[i]) \in Nat
           /\ HasOrders(workbook[i]) => SheetScore(workbook[i]) >= workbook[i].rows + 1000
           /\ ~ HasOrders(workbook[i]) => SheetScore(workbook[i]) <= workbook[i].rows + 100
<1> DEFINE sheet == workbook[i]
           mapping == DetectMapping(sheet.columns)
           tracking == IF mapping.tracking_number # NoColumn THEN 100 ELSE 0
           order == IF mapping.order_number # NoColumn THEN 1000 ELSE 0
<1>1. sheet.columns \in Seq(H) /\ sheet.rows \in Nat /\ Headed(sheet.columns)
  BY SheetIs
<1>2. mapping["order_number"] # NoColumn <=> HasOrders(sheet)
  <2>1. "order_number" \in Fields
    BY DEF Fields
  <2> HIDE DEF sheet
  <2> QED BY <1>1, <2>1, FoundIs DEF HasOrders
<1>3. SheetScore(sheet) = sheet.rows + tracking + order
  BY DEF SheetScore
<1>4. tracking \in {0, 100} /\ order = IF HasOrders(sheet) THEN 1000 ELSE 0
  BY <1>2
<1> HIDE DEF sheet, tracking, order
<1>5. SheetScore(sheet) \in Nat
  BY <1>1, <1>3, <1>4
<1>6. HasOrders(sheet) => SheetScore(sheet) >= sheet.rows + 1000
  BY <1>1, <1>3, <1>4
<1>7. ~ HasOrders(sheet) => SheetScore(sheet) <= sheet.rows + 100
  BY <1>1, <1>3, <1>4
<1> QED BY <1>5, <1>6, <1>7 DEF sheet

\* What _select_sheet has found among the first k sheets: the best one, and of those with
\* its score the first.
BestTo(workbook, k, best) ==
    IF k = 0 THEN best = [sheet |-> 1, score |-> -1]
    ELSE /\ best.sheet \in 1 .. k /\ best.score = SheetScore(workbook[best.sheet])
         /\ \A i \in 1 .. k : SheetScore(workbook[i]) <= best.score
         /\ \A i \in 1 .. best.sheet - 1 : SheetScore(workbook[i]) < best.score

\* One sheet more.
LEMMA BestMore ==
    ASSUME NEW n \in Nat, NEW k \in 1 .. n, NEW workbook,
           \A i \in 1 .. n : SheetScore(workbook[i]) \in Nat,
           NEW best \in [sheet : Nat, score : Int], BestTo(workbook, k - 1, best)
    PROVE  BestTo(workbook, k, TrySheet(best, workbook, k))
<1> DEFINE score == SheetScore(workbook[k])
           next == TrySheet(best, workbook, k)
<1>1. score \in Nat /\ best.score \in Int /\ best.sheet \in Nat
  OBVIOUS
<1>2. k # 0 /\ k \in Nat
  OBVIOUS
<1>3. next = IF score > best.score THEN [sheet |-> k, score |-> score] ELSE best
  BY DEF TrySheet, Better
<1>4. CASE k = 1
  <2>1. best.score = -1 /\ score > best.score
    BY <1>1, <1>4 DEF BestTo
  <2>2. next.sheet = 1 /\ next.score = score
    BY <1>3, <1>4, <2>1
  <2> HIDE DEF next, score
  <2>3. \A i \in 1 .. 1 : i = 1
    OBVIOUS
  <2>4. (1 .. 1 - 1) = {} /\ 1 \in 1 .. 1
    OBVIOUS
  <2> QED BY <1>1, <1>4, <2>2, <2>3, <2>4 DEF BestTo, next, score
<1>5. CASE k # 1
  <2>1. k - 1 # 0
    BY <1>2, <1>5
  <2>2. /\ best.sheet \in 1 .. k - 1 /\ best.score = SheetScore(workbook[best.sheet])
        /\ \A i \in 1 .. k - 1 : SheetScore(workbook[i]) <= best.score
        /\ \A i \in 1 .. best.sheet - 1 : SheetScore(workbook[i]) < best.score
    BY <2>1 DEF BestTo
  <2>3. \A i \in 1 .. k : i \in 1 .. k - 1 \/ i = k
    BY <1>2
  <2>4. \A i \in 1 .. k - 1 : SheetScore(workbook[i]) \in Nat
    OBVIOUS
  <2>5. CASE score > best.score
    <3>1. next.sheet = k /\ next.score = score /\ k \in 1 .. k
      BY <1>2, <1>3, <2>5
    <3>2. \A i \in 1 .. k - 1 : SheetScore(workbook[i]) < score
      <4> HIDE DEF score
      <4> QED BY <1>1, <2>2, <2>4, <2>5
    <3>3. \A i \in 1 .. k : SheetScore(workbook[i]) <= score
      <4>1. score <= score
        BY <1>1
      <4>2. \A i \in 1 .. k - 1 : SheetScore(workbook[i]) <= score
        <5> HIDE DEF score
        <5> QED BY <1>1, <2>4, <3>2
      <4> QED BY <2>3, <4>1, <4>2
    <3> HIDE DEF next
    <3> QED BY <1>2, <3>1, <3>2, <3>3 DEF BestTo, next
  <2>6. CASE ~ (score > best.score)
    <3>1. next = best
      BY <1>3, <2>6
    <3>2. best.sheet \in 1 .. k
      BY <1>2, <2>2
    <3>3. score <= best.score
      <4> HIDE DEF score
      <4> QED BY <1>1, <2>6
    <3>4. \A i \in 1 .. k : SheetScore(workbook[i]) <= best.score
      BY <2>2, <2>3, <3>3
    <3> HIDE DEF next
    <3> QED BY <1>2, <2>2, <3>1, <3>2, <3>4 DEF BestTo, next
  <2> QED BY <2>5, <2>6
<1> QED BY <1>4, <1>5

\* SelectSheet sheet by sheet.
LEMMA Selected ==
    ASSUME NEW H, NEW workbook, WorkbookOf(workbook, H)
    PROVE  \E best : /\ BestTo(workbook, Len(workbook), best)
                     /\ SelectSheet(workbook) = best.sheet
<1> DEFINE n == Len(workbook)
           V == [sheet : Nat, score : Int]
           first == [sheet |-> 1, score |-> -1]
           step == [k \in 1 .. n |-> [best \in V |-> TrySheet(best, workbook, k)]]
           Is(f) == f = [k \in 0 .. n |-> IF k = 0 THEN first ELSE TrySheet(f[k - 1], workbook, k)]
           g == CHOOSE f : Is(f)
<1>0. n \in Nat /\ DOMAIN workbook = 1 .. n
  BY DEF WorkbookOf
<1>1. \A i \in 1 .. n : SheetScore(workbook[i]) \in Nat
  BY <1>0, ScoreIs
<1>2. first \in V
  OBVIOUS
<1>3. ASSUME NEW best \in V, NEW k \in 1 .. n PROVE TrySheet(best, workbook, k) \in V
  <2>1. SheetScore(workbook[k]) \in Int /\ k \in Nat
    BY <1>1
  <2> QED BY <2>1 DEF TrySheet
<1>4. step \in [1 .. n -> [V -> V]]
  <2> HIDE DEF V
  <2> QED BY <1>3
<1>5. PICK f \in [0 .. n -> V] : f[0] = first /\ \A k \in 1 .. n : f[k] = step[k][f[k - 1]]
  <2>1. Stepwise(n, V, first, step)
    <3> HIDE DEF n, V, first, step
    <3> QED BY <1>0, <1>2, <1>4, Recursion
  <2> QED BY <2>1 DEF Stepwise
<1>6. Is(f)
  <2>1. \A k \in 1 .. n : f[k - 1] \in V
    OBVIOUS
  <2>2. \A k \in 1 .. n : f[k] = TrySheet(f[k - 1], workbook, k)
    <3> HIDE DEF V
    <3> QED BY <1>5, <2>1
  <2> HIDE DEF V, first
  <2> QED BY <1>5, <2>2
<1>7. Is(g)
  <2> HIDE DEF Is
  <2> QED BY <1>6
<1>8. SelectSheet(workbook) = g[n].sheet
  BY DEF SelectSheet
<1> HIDE DEF g
<1>9. \A k \in 0 .. n : k \in {i \in 0 .. n : g[i] \in V /\ BestTo(workbook, i, g[i])}
  <2> DEFINE S == {i \in 0 .. n : g[i] \in V /\ BestTo(workbook, i, g[i])}
  <2>1. 0 \in S
    <3>1. g[0] = first
      BY <1>0, <1>7
    <3> QED BY <1>0, <1>2, <3>1 DEF BestTo
  <2>2. ASSUME NEW k \in 1 .. n, k - 1 \in S PROVE k \in S
    <3>1. g[k - 1] \in V /\ BestTo(workbook, k - 1, g[k - 1])
      BY <2>2
    <3>2. k \in 0 .. n /\ g[k] = TrySheet(g[k - 1], workbook, k)
      BY <1>7
    <3>3. BestTo(workbook, k, TrySheet(g[k - 1], workbook, k))
      <4> HIDE DEF n
      <4> QED BY <1>0, <1>1, <3>1, BestMore
    <3>4. TrySheet(g[k - 1], workbook, k) \in V
      <4> HIDE DEF V
      <4> QED BY <1>3, <3>1
    <3> HIDE DEF V
    <3> QED BY <3>2, <3>3, <3>4
  <2> HIDE DEF n, S
  <2>3. \A k \in 0 .. n : k \in S
    BY <1>0, <2>1, <2>2, Induction
  <2> QED BY <2>3 DEF S
<1>10. BestTo(workbook, n, g[n])
  <2>1. n \in 0 .. n
    BY <1>0
  <2> QED BY <1>9, <2>1
<1> QED BY <1>8, <1>10

\* A run that could succeed is not turned away for its sheet, of any workbook.
THEOREM OrdersAreReadHolds ==
    ASSUME NEW H, NEW workbook, WorkbookOf(workbook, H), workbook # <<>>
    PROVE  OrdersAreRead(workbook)
<1> DEFINE n == Len(workbook)
           read == SelectSheet(workbook)
<1>0. n \in Nat /\ DOMAIN workbook = 1 .. n /\ n # 0
  BY DEF WorkbookOf
<1>1. PICK best : BestTo(workbook, n, best) /\ read = best.sheet
  BY Selected
<1>2. /\ read \in 1 .. n
      /\ \A i \in 1 .. n : SheetScore(workbook[i]) <= SheetScore(workbook[read])
      /\ \A i \in 1 .. read - 1 : SheetScore(workbook[i]) < SheetScore(workbook[read])
  <2> HIDE DEF read
  <2> QED BY <1>0, <1>1 DEF BestTo
<1> HIDE DEF read
<1>3. ASSUME NEW i \in 1 .. n, i # read
      PROVE  /\ HasOrders(workbook[i]) /\ ~ HasOrders(workbook[read])
                   => workbook[read].rows >= workbook[i].rows + 900
             /\ workbook[i] = workbook[read] => read < i
  <2>1. /\ workbook[i].rows \in Nat /\ workbook[read].rows \in Nat
    BY <1>0, <1>2, SheetIs
  <2>2. /\ SheetScore(workbook[i]) \in Nat
        /\ HasOrders(workbook[i]) => SheetScore(workbook[i]) >= workbook[i].rows + 1000
    BY <1>0, ScoreIs
  <2>3. /\ SheetScore(workbook[read]) \in Nat
        /\ ~ HasOrders(workbook[read]) => SheetScore(workbook[read]) <= workbook[read].rows + 100
    BY <1>0, <1>2, ScoreIs
  <2>4. SheetScore(workbook[i]) <= SheetScore(workbook[read])
    BY <1>2
  <2>5. ASSUME workbook[i] = workbook[read] PROVE read < i
    <3>1. CASE i < read
      <4>1. i \in 1 .. read - 1
        BY <1>2, <3>1
      <4>2. SheetScore(workbook[i]) < SheetScore(workbook[read])
        BY <1>2, <4>1
      <4>3. SheetScore(workbook[i]) = SheetScore(workbook[read])
        BY <2>5
      <4> QED BY <2>3, <4>2, <4>3
    <3> QED BY <1>2, <1>3, <3>1
  <2>6. ASSUME HasOrders(workbook[i]), ~ HasOrders(workbook[read])
        PROVE  workbook[read].rows >= workbook[i].rows + 900
    BY <2>1, <2>2, <2>3, <2>4, <2>6
  <2> QED BY <2>5, <2>6
<1> QED BY <1>0, <1>3 DEF OrdersAreRead, read

-----------------------------------------------------------------------------
(* RouteStatus: the mapping that is used *)

\* The mapping i is listed before the mapping k.
Sooner(table, i, k) ==
    table[i].priority < table[k].priority \/ (table[i].priority = table[k].priority /\ i < k)

\* Prioritised mappings.
IsTable(table) ==
    /\ IsList(table)
    /\ \A i \in DOMAIN table : table[i].priority \in Int

\* The table is sorted by as many places as it has.
SortedBy(table, at) ==
    /\ at \in [1 .. Len(table) -> 1 .. Len(table)]
    /\ \A p \in 1 .. Len(table) : ListMappings(table)[p] = table[at[p]]
    /\ \A p, q \in 1 .. Len(table) : p < q => Sooner(table, at[p], at[q])
    /\ \A i \in 1 .. Len(table) : \E p \in 1 .. Len(table) : at[p] = i

\* The places of the mappings are all different, and in their order.
LEMMA PlaceIs ==
    ASSUME NEW table, IsTable(table),
           NEW place, place = [i \in DOMAIN table |->
                                  1 + Cardinality({k \in DOMAIN table : Sooner(table, k, i)})]
    PROVE  /\ place \in [1 .. Len(table) -> 1 .. Len(table)]
           /\ \A i, k \in 1 .. Len(table) : Sooner(table, i, k) => place[i] < place[k]
<1> DEFINE n == Len(table)
           Ahead(i) == {k \in 1 .. n : Sooner(table, k, i)}
<1>0. n \in Nat /\ DOMAIN table = 1 .. n /\ \A i \in 1 .. n : table[i].priority \in Int
  BY DEF IsTable, IsList
<1>1. IsFiniteSet(1 .. n) /\ Cardinality(1 .. n) = n
  <2>1. IsFiniteSet(1 .. n) /\ Cardinality(1 .. n) = IF 1 > n THEN 0 ELSE n - 1 + 1
    BY <1>0, FS_Interval
  <2> QED BY <1>0, <2>1
<1>2. \A i \in 1 .. n : place[i] = 1 + Cardinality(Ahead(i))
  BY <1>0
<1>3. \A i, k, l \in 1 .. n : Sooner(table, i, k) /\ Sooner(table, k, l) => Sooner(table, i, l)
  BY <1>0 DEF Sooner
<1>4. \A i \in 1 .. n : ~ Sooner(table, i, i)
  BY <1>0 DEF Sooner
<1>5. ASSUME NEW i \in 1 .. n
      PROVE  /\ IsFiniteSet(Ahead(i)) /\ Cardinality(Ahead(i)) \in Nat /\ Cardinality(Ahead(i)) < n
             /\ Cardinality(Ahead(i) \cup {i}) = Cardinality(Ahead(i)) + 1
  <2>1. Ahead(i) \subseteq 1 .. n /\ i \notin Ahead(i) /\ Ahead(i) \cup {i} \subseteq 1 .. n
    BY <1>4
  <2> HIDE DEF Ahead, n
  <2>2. IsFiniteSet(Ahead(i)) /\ Cardinality(Ahead(i)) \in Nat
    BY <1>1, <2>1, FS_Subset, FS_CardinalityType
  <2>3. Cardinality(Ahead(i) \cup {i}) = Cardinality(Ahead(i)) + 1
    BY <2>1, <2>2, FS_AddElement
  <2>4. Cardinality(Ahead(i) \cup {i}) <= n
    BY <1>1, <2>1, FS_Subset
  <2> QED BY <1>0, <2>2, <2>3, <2>4
<1>6. ASSUME NEW i \in 1 .. n, NEW k \in 1 .. n, Sooner(table, i, k) PROVE place[i] < place[k]
  <2>1. Ahead(i) \cup {i} \subseteq Ahead(k)
    BY <1>3, <1>6
  <2> HIDE DEF Ahead, n
  <2>2. Cardinality(Ahead(i) \cup {i}) <= Cardinality(Ahead(k))
    BY <1>5, <2>1, FS_Subset
  <2>3. Cardinality(Ahead(i)) \in Nat /\ Cardinality(Ahead(k)) \in Nat
        /\ Cardinality(Ahead(i) \cup {i}) = Cardinality(Ahead(i)) + 1
    BY <1>5
  <2>4. place[i] = 1 + Cardinality(Ahead(i)) /\ place[k] = 1 + Cardinality(Ahead(k))
    BY <1>2
  <2> QED BY <2>2, <2>3, <2>4
<1>7. \A i \in 1 .. n : place[i] \in 1 .. n
  <2> HIDE DEF Ahead, n
  <2>1. \A c \in Nat : c < n => 1 + c \in 1 .. n
    BY <1>0
  <2>2. \A i \in 1 .. n : Cardinality(Ahead(i)) \in Nat /\ Cardinality(Ahead(i)) < n
    BY <1>5
  <2> QED BY <1>2, <2>1, <2>2
<1>8. place \in [1 .. n -> 1 .. n]
  <2> HIDE DEF n
  <2> QED BY <1>0, <1>7
<1> QED BY <1>6, <1>8

\* Every mapping is listed, in the order of the priorities and then of the ids.
LEMMA ListedIs ==
    ASSUME NEW table, IsTable(table)
    PROVE  /\ DOMAIN ListMappings(table) = 1 .. Len(table) /\ Len(ListMappings(table)) = Len(table)
           /\ \E at : SortedBy(table, at)
<1> DEFINE n == Len(table)
           Place(i) == 1 + Cardinality({k \in DOMAIN table : Sooner(table, k, i)})
           place == [i \in DOMAIN table |-> Place(i)]
           at == [p \in DOMAIN table |-> CHOOSE i \in DOMAIN table : Place(i) = p]
<1>0. n \in Nat /\ DOMAIN table = 1 .. n /\ \A i \in 1 .. n : table[i].priority \in Int
  BY DEF IsTable, IsList
<1>1. /\ place \in [1 .. n -> 1 .. n]
      /\ \A i, k \in 1 .. n : Sooner(table, i, k) => place[i] < place[k]
  <2> HIDE DEF n
  <2> QED BY PlaceIs DEF n
<1>2. ListMappings(table) = [p \in DOMAIN table |-> table[at[p]]]
  BY DEF ListMappings, Sooner
<1> HIDE DEF Place
<1> HIDE DEF place
<1>3. \A i, k \in 1 .. n : i # k => Sooner(table, i, k) \/ Sooner(table, k, i)
  BY <1>0 DEF Sooner
<1>4. \A i, k \in 1 .. n : i # k => place[i] # place[k]
  <2>1. \A i \in 1 .. n : place[i] \in Int
    BY <1>0, <1>1
  <2> HIDE DEF n
  <2> QED BY <1>1, <1>3, <2>1
<1>5. \A p \in 1 .. n : \E i \in 1 .. n : place[i] = p
  <2>1. IsFiniteSet(1 .. n)
    BY <1>0, FS_Interval
  <2>2. place \in Injection(1 .. n, 1 .. n)
    BY <1>1, <1>4 DEF Injection, IsInjective
  <2> HIDE DEF n
  <2>3. place \in Surjection(1 .. n, 1 .. n)
    BY <2>1, <2>2, FS_Injection
  <2> QED BY <2>3 DEF Surjection
<1>6. \A p \in 1 .. n : at[p] \in 1 .. n /\ place[at[p]] = p
  BY <1>0, <1>5 DEF place
<1>7. at \in [1 .. n -> 1 .. n]
  BY <1>0, <1>6
<1>8. \A i \in 1 .. n : place[i] \in 1 .. n /\ at[place[i]] = i
  <2>1. \A i \in 1 .. n : place[i] \in 1 .. n
    BY <1>1
  <2> HIDE DEF at
  <2> QED BY <1>4, <1>6, <2>1
<1> HIDE DEF at
<1>9. ASSUME NEW p \in 1 .. n, NEW q \in 1 .. n, p < q PROVE Sooner(table, at[p], at[q])
  <2>1. at[p] \in 1 .. n /\ at[q] \in 1 .. n /\ place[at[p]] = p /\ place[at[q]] = q
    BY <1>6
  <2>2. at[p] # at[q]
    BY <1>9, <2>1
  <2>3. ~ Sooner(table, at[q], at[p])
    <3>1. Sooner(table, at[q], at[p]) => q < p
      BY <1>1, <2>1
    <3> QED BY <1>0, <1>9, <3>1
  <2> QED BY <1>3, <2>1, <2>2, <2>3
<1>10. SortedBy(table, at)
  <2>1. \A p \in 1 .. n : ListMappings(table)[p] = table[at[p]]
    BY <1>0, <1>2
  <2> QED BY <1>7, <1>8, <1>9, <2>1 DEF SortedBy
<1>11. DOMAIN ListMappings(table) = 1 .. n /\ Len(ListMappings(table)) = n
  <2> HIDE DEF n
  <2> QED BY <1>0, <1>2
<1> QED BY <1>10, <1>11

\* A score is how many of the codes are given.
LEMMA ScoreIsNat == \A m : Score(m) \in Nat
<1> SUFFICES ASSUME NEW m PROVE Score(m) \in Nat
  OBVIOUS
<1>1. IsFiniteSet({"op", "first", "second"})
  <2>1. IsFiniteSet({}) /\ IsFiniteSet({} \cup {"op"}) /\ IsFiniteSet(({} \cup {"op"}) \cup {"first"})
        /\ IsFiniteSet((({} \cup {"op"}) \cup {"first"}) \cup {"second"})
    BY FS_EmptySet, FS_AddElement
  <2>2. ((({} \cup {"op"}) \cup {"first"}) \cup {"second"}) = {"op", "first", "second"}
    OBVIOUS
  <2> QED BY <2>1, <2>2
<1>2. Codes(m) \subseteq {"op", "first", "second"}
  BY DEF Codes
<1> QED BY <1>1, <1>2, FS_Subset, FS_CardinalityType DEF Score

\* What map_status has found among the first k mappings: no one that matches, or the most
\* specific one, and of those the first.
MatchTo(mappings, route, k, best) ==
    \/ best = NoMatch /\ \A i \in 1 .. k : ~ Matches(mappings[i], route)
    \/ \E j \in 1 .. k :
          /\ Matches(mappings[j], route) /\ best = Match(mappings[j])
          /\ \A i \in 1 .. k : Matches(mappings[i], route) => Score(mappings[i]) <= Score(mappings[j])
          /\ \A i \in 1 .. j - 1 :
                Matches(mappings[i], route) => Score(mappings[i]) < Score(mappings[j])

\* One mapping more.
LEMMA MatchMore ==
    ASSUME NEW mappings, NEW route, NEW k \in Nat, k # 0, NEW best,
           MatchTo(mappings, route, k - 1, best)
    PROVE  MatchTo(mappings, route, k, Try(best, mappings[k], route))
<1> DEFINE m == mappings[k]
           next == Try(best, m, route)
           Fits(i) == Matches(mappings[i], route)
<1>0. \A i : Score(mappings[i]) \in Nat
  BY ScoreIsNat
<1>1. \A i \in 1 .. k : i \in 1 .. k - 1 \/ i = k
  OBVIOUS
<1>2. k \in 1 .. k
  OBVIOUS
<1>3. CASE ~ Fits(k)
  <2>1. next = best
    BY <1>3 DEF Try
  <2>2. CASE best = NoMatch /\ \A i \in 1 .. k - 1 : ~ Fits(i)
    <3>1. \A i \in 1 .. k : ~ Fits(i)
      BY <1>1, <1>3, <2>2
    <3> HIDE DEF next
    <3> QED BY <2>1, <2>2, <3>1 DEF MatchTo, next
  <2>3. CASE ~ (best = NoMatch /\ \A i \in 1 .. k - 1 : ~ Fits(i))
    <3>1. PICK j \in 1 .. k - 1 :
             /\ Fits(j) /\ best = Match(mappings[j])
             /\ \A i \in 1 .. k - 1 : Fits(i) => Score(mappings[i]) <= Score(mappings[j])
             /\ \A i \in 1 .. j - 1 : Fits(i) => Score(mappings[i]) < Score(mappings[j])
      BY <2>3 DEF MatchTo
    <3>2. j \in 1 .. k
      OBVIOUS
    <3>3. \A i \in 1 .. k : Fits(i) => Score(mappings[i]) <= Score(mappings[j])
      BY <1>1, <1>3, <3>1
    <3> HIDE DEF next
    <3> QED BY <2>1, <3>1, <3>2, <3>3 DEF MatchTo, next
  <2> QED BY <2>2, <2>3
<1>4. CASE Fits(k) /\ ~ Beats(m, best)
  <2>1. next = best
    BY <1>4 DEF Try
  <2>2. best # NoMatch
    <3>1. NoMatch.score = -1 /\ Score(m) > -1
      BY <1>0 DEF NoMatch
    <3> QED BY <1>4, <3>1 DEF Beats
  <2>3. PICK j \in 1 .. k - 1 :
             /\ Fits(j) /\ best = Match(mappings[j])
             /\ \A i \in 1 .. k - 1 : Fits(i) => Score(mappings[i]) <= Score(mappings[j])
             /\ \A i \in 1 .. j - 1 : Fits(i) => Score(mappings[i]) < Score(mappings[j])
    BY <2>2 DEF MatchTo
  <2>4. j \in 1 .. k
    OBVIOUS
  <2>5. Score(m) <= Score(mappings[j])
    <3>1. best.score = Score(mappings[j])
      BY <2>3 DEF Match
    <3>2. ~ (Score(m) > Score(mappings[j]))
      BY <1>4, <3>1 DEF Beats
    <3>3. Score(m) \in Nat /\ Score(mappings[j]) \in Nat
      BY <1>0
    <3> QED BY <3>2, <3>3
  <2>6. \A i \in 1 .. k : Fits(i) => Score(mappings[i]) <= Score(mappings[j])
    BY <1>1, <2>3, <2>5
  <2> HIDE DEF next
  <2> QED BY <2>1, <2>3, <2>4, <2>6 DEF MatchTo, next
<1>5. CASE Fits(k) /\ Beats(m, best)
  <2>1. next = Match(m)
    BY <1>5 DEF Try
  <2>2. \A i \in 1 .. k - 1 : Fits(i) => Score(mappings[i]) < Score(m)
    <3>1. CASE best = NoMatch /\ \A i \in 1 .. k - 1 : ~ Fits(i)
      BY <3>1
    <3>2. CASE ~ (best = NoMatch /\ \A i \in 1 .. k - 1 : ~ Fits(i))
      <4>1. PICK j \in 1 .. k - 1 :
                /\ best = Match(mappings[j])
                /\ \A i \in 1 .. k - 1 : Fits(i) => Score(mappings[i]) <= Score(mappings[j])
        BY <3>2 DEF MatchTo
      <4>2. Score(m) > Score(mappings[j])
        <5>1. best.score = Score(mappings[j])
          BY <4>1 DEF Match
        <5> QED BY <1>5, <5>1 DEF Beats
      <4>3. \A x, y, z \in Nat : x <= y /\ z > y => x < z
        OBVIOUS
      <4> HIDE DEF Fits, m
      <4> QED BY <1>0, <4>1, <4>2, <4>3 DEF m
    <3> QED BY <3>1, <3>2
  <2>3. \A i \in 1 .. k : Fits(i) => Score(mappings[i]) <= Score(m)
    <3>1. \A x, y \in Nat : x < y => x <= y
      OBVIOUS
    <3>2. \A x \in Nat : x <= x
      OBVIOUS
    <3> HIDE DEF Fits
    <3> QED BY <1>0, <1>1, <2>2, <3>1, <3>2
  <2> HIDE DEF next
  <2> QED BY <1>2, <1>5, <2>1, <2>2, <2>3 DEF MatchTo, next
<1> QED BY <1>3, <1>4, <1>5

\* MapStatus mapping by mapping.
LEMMA Mapped ==
    ASSUME NEW table, NEW route, IsList(ListMappings(table))
    PROVE  \E best : /\ MatchTo(ListMappings(table), route, Len(ListMappings(table)), best)
                     /\ MapStatus(table, route) = best.result
<1> DEFINE mappings == ListMappings(table)
           n == Len(mappings)
           V == {NoMatch} \cup {Match(mappings[i]) : i \in 1 .. n}
           step == [k \in 1 .. n |-> [best \in V |-> Try(best, mappings[k], route)]]
           Is(f) == f = [k \in 0 .. n |-> IF k = 0 THEN NoMatch ELSE Try(f[k - 1], mappings[k], route)]
           g == CHOOSE f : Is(f)
<1>0. n \in Nat
  BY DEF IsList
<1>1. MapStatus(table, route) = g[n].result
  BY DEF MapStatus
<1> HIDE DEF mappings
<1>2. NoMatch \in V
  OBVIOUS
<1>3. ASSUME NEW best \in V, NEW k \in 1 .. n PROVE Try(best, mappings[k], route) \in V
  BY DEF Try
<1>4. step \in [1 .. n -> [V -> V]]
  <2> HIDE DEF V
  <2> QED BY <1>3
<1>5. PICK f \in [0 .. n -> V] : f[0] = NoMatch /\ \A k \in 1 .. n : f[k] = step[k][f[k - 1]]
  <2>1. Stepwise(n, V, NoMatch, step)
    <3> HIDE DEF n, V, step
    <3> QED BY <1>0, <1>2, <1>4, Recursion
  <2> QED BY <2>1 DEF Stepwise
<1>6. Is(f)
  <2>1. \A k \in 1 .. n : f[k - 1] \in V
    <3> HIDE DEF V
    <3> QED OBVIOUS
  <2>2. \A k \in 1 .. n : f[k] = Try(f[k - 1], mappings[k], route)
    <3> HIDE DEF V
    <3> QED BY <1>5, <2>1
  <2> HIDE DEF V
  <2> QED BY <1>5, <2>2
<1>7. Is(g)
  <2> HIDE DEF Is
  <2> QED BY <1>6
<1> HIDE DEF g
<1>8. \A k \in 0 .. n : k \in {i \in 0 .. n : MatchTo(mappings, route, i, g[i])}
  <2> DEFINE S == {i \in 0 .. n : MatchTo(mappings, route, i, g[i])}
  <2>1. 0 \in S
    <3>1. g[0] = NoMatch /\ 0 \in 0 .. n /\ (1 .. 0) = {}
      BY <1>0, <1>7
    <3> QED BY <3>1 DEF MatchTo
  <2>2. ASSUME NEW k \in 1 .. n, k - 1 \in S PROVE k \in S
    <3>1. k \in 0 .. n /\ k \in Nat /\ k # 0 /\ g[k] = Try(g[k - 1], mappings[k], route)
      <4>1. k \in 0 .. n /\ k \in Nat /\ k # 0
        BY <1>0
      <4> HIDE DEF n, V, step
      <4> QED BY <1>7, <4>1
    <3>2. MatchTo(mappings, route, k - 1, g[k - 1])
      BY <2>2
    <3>3. MatchTo(mappings, route, k, Try(g[k - 1], mappings[k], route))
      <4> HIDE DEF n
      <4> QED BY <3>1, <3>2, MatchMore
    <3> QED BY <3>1, <3>3
  <2> HIDE DEF n, S
  <2>3. \A k \in 0 .. n : k \in S
    BY <1>0, <2>1, <2>2, Induction
  <2> QED BY <2>3 DEF S
<1>9. MatchTo(mappings, route, n, g[n])
  <2>1. n \in 0 .. n
    BY <1>0
  <2> QED BY <1>8, <2>1
<1> QED BY <1>1, <1>9 DEF mappings

\* map_status uses the most specific mapping, of any table and for any codes.
THEOREM MostSpecificIsUsedHolds ==
    ASSUME NEW table, IsTable(table), NEW route
    PROVE  MostSpecificIsUsed(table, route)
<1> DEFINE n == Len(table)
           mappings == ListMappings(table)
           Fits(m) == Matches(m, route)
           matching == {i \in DOMAIN table : Fits(table[i])}
           used == MapStatus(table, route)
           Preferred(i, k) ==
               \/ Score(table[i]) > Score(table[k])
               \/ Score(table[i]) = Score(table[k]) /\ table[i].priority < table[k].priority
               \/ Score(table[i]) = Score(table[k]) /\ table[i].priority = table[k].priority /\ i < k
<1>0. n \in Nat /\ DOMAIN table = 1 .. n
  BY DEF IsTable, IsList
<1>1. DOMAIN mappings = 1 .. n /\ Len(mappings) = n /\ \E at : SortedBy(table, at)
  <2> HIDE DEF n
  <2> QED BY ListedIs DEF n
<1>2. PICK at : SortedBy(table, at)
  BY <1>1
<1>3. /\ \A p \in 1 .. n : at[p] \in 1 .. n /\ mappings[p] = table[at[p]]
      /\ \A p, q \in 1 .. n : p < q => Sooner(table, at[p], at[q])
      /\ \A i \in 1 .. n : \E p \in 1 .. n : at[p] = i
  <2> HIDE DEF n, mappings
  <2> QED BY <1>2 DEF SortedBy, n, mappings
<1>4. PICK best : MatchTo(mappings, route, n, best) /\ used = best.result
  <2>1. IsList(mappings)
    BY <1>0, <1>1 DEF IsList
  <2>2. \E best : MatchTo(mappings, route, Len(mappings), best) /\ used = best.result
    BY <2>1, Mapped
  <2> QED BY <1>1, <2>2
<1> HIDE DEF n, mappings, used
<1>5. ASSUME matching = {} PROVE used = NoMatch.result
  <2>1. \A p \in 1 .. n : ~ Fits(mappings[p])
    BY <1>0, <1>3, <1>5
  <2>2. best = NoMatch
    BY <2>1, <1>4 DEF MatchTo
  <2> QED BY <1>4, <2>2
<1>6. ASSUME matching # {}
      PROVE  \E i \in matching : /\ \A k \in matching \ {i} : Preferred(i, k)
                                 /\ used = Match(table[i]).result
  <2>1. PICK l \in matching : TRUE
    BY <1>6
  <2>2. \E p \in 1 .. n : Fits(mappings[p])
    BY <1>0, <1>3, <2>1
  <2>3. PICK j \in 1 .. n :
           /\ Fits(mappings[j]) /\ best = Match(mappings[j])
           /\ \A i \in 1 .. n : Fits(mappings[i]) => Score(mappings[i]) <= Score(mappings[j])
           /\ \A i \in 1 .. j - 1 : Fits(mappings[i]) => Score(mappings[i]) < Score(mappings[j])
    BY <1>4, <2>2 DEF MatchTo
  <2>4. at[j] \in matching /\ used = Match(table[at[j]]).result /\ mappings[j] = table[at[j]]
    BY <1>0, <1>3, <1>4, <2>3
  <2>5. ASSUME NEW k \in matching, k # at[j] PROVE Preferred(at[j], k)
    <3>1. PICK q \in 1 .. n : at[q] = k
      BY <1>0, <1>3
    <3>2. mappings[q] = table[k] /\ Fits(mappings[q]) /\ q # j
      BY <1>3, <2>5, <3>1
    <3>3. Score(mappings[q]) <= Score(mappings[j])
      BY <2>3, <3>2
    <3>4. Score(table[k]) \in Nat /\ Score(table[at[j]]) \in Nat
      BY ScoreIsNat
    <3>5. CASE Score(table[k]) = Score(table[at[j]])
      <4>1. q \notin 1 .. j - 1
        BY <2>3, <2>4, <3>2, <3>4, <3>5
      <4>2. j < q
        BY <1>0, <3>2, <4>1
      <4>3. Sooner(table, at[j], k)
        BY <1>3, <3>1, <4>2
      <4> QED BY <3>5, <4>3 DEF Sooner
    <3>6. CASE Score(table[k]) # Score(table[at[j]])
      <4>1. Score(table[k]) <= Score(table[at[j]])
        BY <2>4, <3>2, <3>3
      <4>2. Score(table[at[j]]) > Score(table[k])
        <5>1. \A x, y \in Nat : x <= y /\ x # y => y > x
          OBVIOUS
        <5> QED BY <3>4, <3>6, <4>1, <5>1
      <4> QED BY <4>2
    <3> QED BY <3>5, <3>6
  <2> HIDE DEF matching, Preferred
  <2> QED BY <2>4, <2>5
<1> QED BY <1>5, <1>6 DEF MostSpecificIsUsed, used

-----------------------------------------------------------------------------
(* RouteStatus: the latest route *)

\* The route i happened after the route k, or was listed after it at the same time.
Newer(routes, i, k) ==
    routes[i].time > routes[k].time \/ (routes[i].time = routes[k].time /\ i > k)

\* Routes with a time, which is Undated for some.
AreTimed(routes) == IsList(routes) /\ \A i \in DOMAIN routes : routes[i].time \in Nat

\* The latest route is one of those that are listed, and all others are older.
LEMMA LatestIs ==
    ASSUME NEW routes, AreTimed(routes), Len(routes) # 0
    PROVE  \E i \in DOMAIN routes : /\ LatestRoute(routes) = routes[i]
                                    /\ \A k \in DOMAIN routes \ {i} : Newer(routes, i, k)
<1> DEFINE n == Len(routes)
           Latest(i, m) == i \in 1 .. m /\ \A k \in 1 .. m : k # i => Newer(routes, i, k)
           S == {m \in 0 .. n : m = 0 \/ \E i : Latest(i, m)}
<1>0. n \in Nat /\ n # 0 /\ DOMAIN routes = 1 .. n /\ \A i \in 1 .. n : routes[i].time \in Nat
  BY DEF AreTimed, IsList
<1>1. 0 \in S
  BY <1>0
<1>2. ASSUME NEW m \in 1 .. n, m - 1 \in S PROVE m \in S
  <2>0. /\ m \in 0 .. n /\ m \in 1 .. m /\ routes[m].time \in Nat
        /\ \A k \in 1 .. m : k = m \/ k \in 1 .. m - 1
    BY <1>0
  <2>1. SUFFICES \E i : Latest(i, m)
    BY <2>0
  <2>2. CASE m - 1 = 0
    <3>1. \A k \in 1 .. m : k = m
      BY <2>0, <2>2
    <3>2. Latest(m, m)
      BY <2>0, <3>1
    <3> HIDE DEF Latest
    <3> QED BY <3>2
  <2>3. CASE m - 1 # 0
    <3>1. PICK i : Latest(i, m - 1)
      <4> HIDE DEF Latest
      <4> QED BY <1>2, <2>3
    <3>2. i \in 1 .. m - 1 /\ i \in 1 .. n /\ i < m
      BY <1>0, <3>1
    <3>3. CASE routes[i].time > routes[m].time
      <4>1. Latest(i, m)
        BY <2>0, <3>1, <3>2, <3>3 DEF Newer
      <4> HIDE DEF Latest
      <4> QED BY <4>1
    <3>4. CASE ~ (routes[i].time > routes[m].time)
      <4>1. ASSUME NEW k \in 1 .. m, k # m PROVE Newer(routes, m, k)
        <5>1. k \in 1 .. m - 1 /\ k \in 1 .. n /\ k < m
          BY <1>0, <2>0, <4>1
        <5>2. routes[k].time \in Nat /\ routes[i].time \in Nat
          BY <1>0, <3>2, <5>1
        <5>3. routes[k].time <= routes[i].time
          <6>1. k = i \/ Newer(routes, i, k)
            BY <3>1, <5>1
          <6> QED BY <5>2, <6>1 DEF Newer
        <5>4. routes[k].time <= routes[m].time
          BY <2>0, <3>4, <5>2, <5>3
        <5> QED BY <2>0, <5>1, <5>2, <5>4 DEF Newer
      <4>2. Latest(m, m)
        BY <2>0, <4>1
      <4> HIDE DEF Latest
      <4> QED BY <4>2
    <3> QED BY <3>3, <3>4
  <2> QED BY <2>2, <2>3
<1>3. n \in S
  <2> HIDE DEF n, S
  <2>1. \A k \in 0 .. n : k \in S
    BY <1>0, <1>1, <1>2, Induction
  <2> QED BY <1>0, <2>1
<1>4. PICK i : Latest(i, n)
  <2> HIDE DEF Latest
  <2> QED BY <1>0, <1>3
<1>5. \E j \in DOMAIN routes : \A k \in DOMAIN routes \ {j} : Newer(routes, j, k)
  BY <1>0, <1>4
<1> QED BY <1>5 DEF LatestRoute, Newer

\* The latest route does not depend on the order, if no two have the same time.
THEOREM OrderDoesNotMatterHolds ==
    ASSUME NEW R, NEW routes \in Seq(R), AreTimed(routes)
    PROVE  OrderDoesNotMatter(routes)
<1> DEFINE n == Len(routes)
           times == {routes[i].time : i \in DOMAIN routes}
           Reordered(f) == [i \in DOMAIN routes |-> routes[f[i]]]
<1>1. n \in Nat /\ DOMAIN routes = 1 .. n /\ IsFiniteSet(1 .. n) /\ Cardinality(1 .. n) = n
  <2>1. n \in Nat /\ DOMAIN routes = 1 .. n
    OBVIOUS
  <2>2. IsFiniteSet(1 .. n) /\ Cardinality(1 .. n) = IF 1 > n THEN 0 ELSE n - 1 + 1
    BY <2>1, FS_Interval
  <2> QED BY <2>1, <2>2
<1>2. SUFFICES ASSUME Cardinality(times) = n,
                      NEW f \in [DOMAIN routes -> DOMAIN routes], IsInjective(f)
               PROVE  MapRouteResponse(Reordered(f), FALSE) = MapRouteResponse(routes, FALSE)
  BY DEF OrderDoesNotMatter
<1>3. CASE n = 0
  <2>1. routes = <<>>
    BY <1>3
  <2>2. Reordered(f) = <<>>
    BY <2>1
  <2> QED BY <2>1, <2>2
<1>4. CASE n # 0
  <2> DEFINE again == Reordered(f)
             time == [i \in 1 .. n |-> routes[i].time]
  <2>1. \A i, k \in 1 .. n : routes[i].time = routes[k].time => i = k
    <3>1. time \in Surjection(1 .. n, times)
      BY <1>1 DEF Surjection
    <3> HIDE DEF n, times, time
    <3>2. time \in Injection(1 .. n, times)
      BY <1>1, <1>2, <3>1, FS_Surjection
    <3> QED BY <3>2 DEF Injection, IsInjective, time
  <2>2. f \in [1 .. n -> 1 .. n] /\ \A i \in 1 .. n : \E k \in 1 .. n : f[k] = i
    <3>1. f \in Injection(1 .. n, 1 .. n)
      BY <1>1, <1>2 DEF Injection
    <3> HIDE DEF n
    <3>2. f \in Surjection(1 .. n, 1 .. n)
      BY <1>1, <3>1, FS_Injection
    <3> QED BY <3>1, <3>2 DEF Injection, Surjection
  <2>3. DOMAIN again = 1 .. n /\ Len(again) = n /\ \A i \in 1 .. n : again[i] = routes[f[i]]
    <3>1. DOMAIN again = 1 .. n /\ \A i \in 1 .. n : again[i] = routes[f[i]]
      BY <1>1
    <3> HIDE DEF again, n
    <3> QED BY <1>1, <3>1
  <2>4. AreTimed(again)
    <3>1. \A i \in 1 .. n : routes[i].time \in Nat
      BY <1>1 DEF AreTimed
    <3> HIDE DEF again, n
    <3> QED BY <1>1, <2>2, <2>3, <3>1 DEF AreTimed, IsList
  <2> HIDE DEF again
  <2>5. PICK i \in 1 .. n : /\ LatestRoute(routes) = routes[i]
                            /\ \A k \in 1 .. n : k # i => Newer(routes, i, k)
    BY <1>1, <1>4, LatestIs
  <2>6. PICK j \in 1 .. n : /\ LatestRoute(again) = again[j]
                            /\ \A k \in 1 .. n : k # j => Newer(again, j, k)
    BY <1>4, <2>3, <2>4, LatestIs
  <2>7. PICK k \in 1 .. n : f[k] = i
    BY <2>2
  <2>8. f[j] = i
    <3>1. f[j] \in 1 .. n /\ again[j] = routes[f[j]] /\ again[k] = routes[i]
      BY <2>2, <2>3, <2>7
    <3>2. routes[i].time \in Nat /\ routes[f[j]].time \in Nat
      BY <1>1, <3>1 DEF AreTimed
    <3>3. CASE f[j] # i
      <4>1. Newer(routes, i, f[j]) /\ routes[i].time # routes[f[j]].time
        BY <2>1, <2>5, <3>1, <3>3
      <4>2. Newer(again, j, k)
        BY <2>6, <2>7, <3>3
      <4>3. routes[i].time > routes[f[j]].time
        BY <4>1 DEF Newer
      <4>4. ~ (routes[i].time > routes[f[j]].time)
        <5>1. routes[f[j]].time >= routes[i].time
          BY <3>1, <3>2, <4>2 DEF Newer
        <5> QED BY <3>2, <5>1
      <4> QED BY <4>3, <4>4
    <3> QED BY <3>3
  <2>9. LatestRoute(again) = LatestRoute(routes)
    BY <2>3, <2>5, <2>6, <2>8
  <2>10. again # <<>> /\ routes # <<>>
    BY <1>1, <1>4, <2>3
  <2>11. MapRouteResponse(again, FALSE) = MapRouteResponse(routes, FALSE)
    BY <2>9, <2>10 DEF MapRouteResponse
  <2> QED BY <2>11 DEF again
<1> QED BY <1>1, <1>3, <1>4

-----------------------------------------------------------------------------
(* RouteStatus: the events that are stored *)

\* The events are those of the first of the routes, perhaps with codes they had before.
EventsOf(events_, listed) ==
    /\ Len(events_) <= Len(listed)
    /\ \A i \in 1 .. Len(events_) : EventKey(events_[i]) = EventKey(listed[i])

\* The events once the first k routes are stored.
StoredTo(events_, listed, k) ==
    [i \in 1 .. (IF k <= Len(events_) THEN Len(events_) ELSE k) |->
        IF i <= k THEN listed[i] ELSE events_[i]]

\* One route more: it updates its event, or is a new one.
LEMMA StoreMore ==
    ASSUME NEW R, NEW stored \in Seq(R), NEW listed \in Seq(R), EventsOf(stored, listed),
           Distinct(listed), NEW k \in 1 .. Len(listed)
    PROVE  /\ StoredTo(stored, listed, k) \in Seq(R)
           /\ Store(StoredTo(stored, listed, k - 1), listed[k]) = StoredTo(stored, listed, k)
<1> DEFINE m == Len(stored)
           n == Len(listed)
           before == StoredTo(stored, listed, k - 1)
           after == StoredTo(stored, listed, k)
           route == listed[k]
<1>1. /\ m \in Nat /\ n \in Nat /\ m <= n /\ k \in Nat /\ k # 0 /\ k <= n
      /\ DOMAIN stored = 1 .. m /\ DOMAIN listed = 1 .. n
  BY DEF EventsOf
<1>2. \A i \in 1 .. n : EventKey(listed[i]) = EventKey(route) <=> i = k
  BY <1>1 DEF Distinct
<1>3. \A i \in 1 .. m : EventKey(stored[i]) = EventKey(listed[i])
  BY DEF EventsOf
<1>4. ASSUME NEW i \in 1 .. n PROVE listed[i] \in R
  OBVIOUS
<1>5. ASSUME NEW i \in 1 .. m PROVE stored[i] \in R
  OBVIOUS
<1>6. CASE k <= m
  <2>1. /\ before = [i \in 1 .. m |-> IF i <= k - 1 THEN listed[i] ELSE stored[i]]
        /\ after = [i \in 1 .. m |-> IF i <= k THEN listed[i] ELSE stored[i]]
    <3> HIDE DEF m
    <3> QED BY <1>1, <1>6 DEF StoredTo, m
  <2> HIDE DEF m, n, before, after, route
  <2>2. \A i \in 1 .. m : before[i] = (IF i <= k - 1 THEN listed[i] ELSE stored[i]) /\ i \in 1 .. n
    BY <1>1, <2>1
  <2>3. \A i \in 1 .. m : EventKey(before[i]) = EventKey(listed[i])
    BY <1>3, <2>2
  <2>4. DOMAIN before = 1 .. m /\ k \in 1 .. m /\ before[k] \in ToSet(before)
    BY <1>1, <1>6, <2>1 DEF ToSet
  <2>5. \E e \in ToSet(before) : EventKey(e) = EventKey(route)
    <3>1. EventKey(before[k]) = EventKey(route)
      BY <1>2, <2>2, <2>3, <2>4
    <3> QED BY <2>4, <3>1
  <2>6. Store(before, route)
          = [i \in 1 .. m |-> IF EventKey(before[i]) = EventKey(route) THEN route ELSE before[i]]
    BY <2>4, <2>5 DEF Store
  <2>7. \A i \in 1 .. m : EventKey(before[i]) = EventKey(route) <=> i = k
    BY <1>2, <2>2, <2>3
  <2>8. \A i \in 1 .. m : (i <= k - 1 \/ i = k) <=> i <= k
    BY <1>1
  <2>9. \A i \in 1 .. m : (IF EventKey(before[i]) = EventKey(route) THEN route ELSE before[i])
                             = (IF i <= k THEN listed[i] ELSE stored[i])
    <3>1. route = listed[k]
      BY DEF route
    <3> QED BY <2>2, <2>7, <2>8, <3>1
  <2>10. Store(before, route) = after
    BY <2>1, <2>6, <2>9
  <2>11. after \in Seq(R)
    <3>1. \A i \in 1 .. m : (IF i <= k THEN listed[i] ELSE stored[i]) \in R
      BY <1>4, <1>5, <2>2
    <3> QED BY <1>1, <2>1, <3>1
  <2> QED BY <2>10, <2>11 DEF before, after, route
<1>7. CASE ~ (k <= m)
  <2>0. (k - 1 <= m => k - 1 = m) /\ k - 1 \in Nat
    BY <1>1, <1>7
  <2>1. /\ before = [i \in 1 .. k - 1 |-> IF i <= k - 1 THEN listed[i] ELSE stored[i]]
        /\ after = [i \in 1 .. k |-> IF i <= k THEN listed[i] ELSE stored[i]]
    <3>1. (IF k - 1 <= m THEN m ELSE k - 1) = k - 1
      BY <2>0
    <3>2. (IF k <= m THEN m ELSE k) = k
      BY <1>7
    <3> QED BY <3>1, <3>2 DEF StoredTo
  <2> HIDE DEF m, n, before, after, route
  <2>2. \A i \in 1 .. k - 1 : i \in 1 .. n /\ i # k /\ i <= k - 1
    BY <1>1
  <2>3. \A i \in 1 .. k - 1 : before[i] = listed[i]
    BY <2>1, <2>2
  <2>4. \A i \in 1 .. k : i \in 1 .. n /\ i <= k
    BY <1>1
  <2>5. after = [i \in 1 .. k |-> listed[i]]
    BY <2>1, <2>4
  <2>6. DOMAIN before = 1 .. k - 1 /\ before \in Seq(R) /\ Len(before) = k - 1 /\ route \in R
    <3>1. before = [i \in 1 .. k - 1 |-> listed[i]]
      BY <2>1, <2>2
    <3>2. \A i \in 1 .. k - 1 : listed[i] \in R
      BY <1>4, <2>2
    <3>3. route \in R
      BY DEF route
    <3> QED BY <2>0, <3>1, <3>2, <3>3
  <2>7. ~ \E e \in ToSet(before) : EventKey(e) = EventKey(route)
    <3>1. \A e \in ToSet(before) : \E i \in 1 .. k - 1 : e = before[i]
      BY <2>6 DEF ToSet
    <3> QED BY <1>2, <2>2, <2>3, <3>1
  <2>8. Store(before, route) = Append(before, route)
    BY <2>7 DEF Store
  <2>9. Append(before, route) = after
    <3>1. \A i \in 1 .. k : i \in 1 .. k - 1 \/ i = k
      BY <1>1
    <3>2. /\ Append(before, route) \in Seq(R) /\ Len(Append(before, route)) = k
          /\ \A i \in 1 .. k - 1 : Append(before, route)[i] = listed[i]
          /\ Append(before, route)[k] = listed[k]
      BY <1>1, <2>3, <2>6 DEF route
    <3>3. DOMAIN Append(before, route) = 1 .. k
      BY <3>2
    <3> DEFINE more == Append(before, route)
    <3>4. more \in Seq(R) /\ DOMAIN more = 1 .. k
      BY <3>2, <3>3
    <3> HIDE DEF more
    <3>5. \A i \in 1 .. k : more[i] = listed[i]
      BY <3>1, <3>2 DEF more
    <3>6. more = after
      <4>1. more = [i \in 1 .. k |-> more[i]]
        BY <3>4
      <4> QED BY <2>5, <3>5, <4>1
    <3> QED BY <3>6 DEF more
  <2>10. after \in Seq(R)
    BY <2>6, <2>9
  <2> QED BY <2>8, <2>9, <2>10 DEF before, after, route
<1> QED BY <1>6, <1>7

\* Routes that are listed once each and of which the first are stored become the events.
LEMMA StoredIs ==
    ASSUME NEW R, NEW stored \in Seq(R), NEW routes, IsList(routes), NEW now, NEW listed \in Seq(R),
           listed = [i \in DOMAIN routes |-> NormalizeRoute(routes[i], now)],
           EventsOf(stored, listed), Distinct(listed)
    PROVE  StoreRoutes(stored, routes, now) = listed
<1> DEFINE n == Len(routes)
           to == [k \in 0 .. n |-> StoredTo(stored, listed, k)]
           Is(f) == f = [k \in 0 .. n |->
                            IF k = 0 THEN stored
                            ELSE Store(f[k - 1], NormalizeRoute(routes[k], now))]
           g == CHOOSE f : Is(f)
<1>0. n \in Nat /\ DOMAIN routes = 1 .. n
  BY DEF IsList
<1>1. Len(listed) = n /\ \A k \in 1 .. n : listed[k] = NormalizeRoute(routes[k], now)
  <2> HIDE DEF n
  <2> QED BY <1>0
<1>2. StoreRoutes(stored, routes, now) = g[n]
  BY DEF StoreRoutes
<1>3. to[0] = stored
  <2>1. Len(stored) \in Nat /\ DOMAIN stored = 1 .. Len(stored)
        /\ stored = [i \in 1 .. Len(stored) |-> stored[i]]
    OBVIOUS
  <2>2. \A i \in 1 .. Len(stored) : ~ (i <= 0)
    OBVIOUS
  <2>3. StoredTo(stored, listed, 0) = [i \in 1 .. Len(stored) |-> stored[i]]
    BY <2>1, <2>2 DEF StoredTo
  <2> QED BY <1>0, <2>1, <2>3
<1>4. ASSUME NEW k \in 1 .. n PROVE to[k] = Store(to[k - 1], NormalizeRoute(routes[k], now))
  <2>1. k \in 1 .. Len(listed) /\ k \in 0 .. n /\ k - 1 \in 0 .. n
    BY <1>0, <1>1
  <2>2. Store(StoredTo(stored, listed, k - 1), listed[k]) = StoredTo(stored, listed, k)
    BY <2>1, StoreMore
  <2> QED BY <1>1, <2>1, <2>2
<1> HIDE DEF to
<1>5. Is(to)
  <2>1. to = [k \in 0 .. n |-> to[k]]
    BY DEF to
  <2>2. \A k \in 0 .. n : k = 0 \/ k \in 1 .. n
    BY <1>0
  <2>3. \A k \in 0 .. n : to[k] = IF k = 0 THEN stored
                                  ELSE Store(to[k - 1], NormalizeRoute(routes[k], now))
    BY <1>3, <1>4, <2>2
  <2> HIDE DEF n
  <2> QED BY <2>1, <2>3
<1>6. Is(g)
  <2> HIDE DEF Is
  <2> QED BY <1>5
<1> HIDE DEF g
<1>7. g[n] = to[n]
  <2> DEFINE S == {k \in 0 .. n : g[k] = to[k]}
  <2>1. 0 \in S
    BY <1>0, <1>3, <1>6
  <2>2. \A k \in 1 .. n : k - 1 \in S => k \in S
    BY <1>4, <1>6
  <2>3. n \in 0 .. n
    BY <1>0
  <2> HIDE DEF S, n
  <2>4. \A k \in 0 .. n : k \in S
    BY <1>0, <2>1, <2>2, Induction
  <2> QED BY <2>3, <2>4 DEF S
<1>8. to[n] = listed
  <2>1. to[n] = StoredTo(stored, listed, n)
    BY <1>0 DEF to
  <2>2. Len(stored) \in Nat /\ Len(stored) <= n
    BY <1>1 DEF EventsOf
  <2>3. (IF n <= Len(stored) THEN Len(stored) ELSE n) = n
    BY <1>0, <2>2
  <2>4. StoredTo(stored, listed, n) = [i \in 1 .. n |-> IF i <= n THEN listed[i] ELSE stored[i]]
    BY <2>3 DEF StoredTo
  <2> HIDE DEF n
  <2>5. \A i \in 1 .. n : i <= n
    BY <1>0
  <2>6. StoredTo(stored, listed, n) = [i \in 1 .. n |-> listed[i]]
    BY <2>4, <2>5
  <2>7. listed = [i \in 1 .. n |-> listed[i]]
    BY <1>0, <1>1
  <2> QED BY <2>1, <2>6, <2>7
<1> QED BY <1>2, <1>7, <1>8

\* The routes with any codes of a set and any remarks of a set.
AreRoutes(R) ==
    \E C, M : R = [time : Nat, op : C, first : C, second : C, remark : M]

\* The routes of a query at the given time, which is later than any of them.
QueriedAt(routes, now, R) ==
    /\ now \in Nat /\ routes \in Seq(R)
    /\ \A i \in DOMAIN routes : routes[i].time < now

\* An undated route gets the time of the query, and no other is changed.
LEMMA NormalizedIs ==
    ASSUME NEW R, AreRoutes(R), NEW route \in R, NEW now \in Nat
    PROVE  /\ NormalizeRoute(route, now) \in R
           /\ NormalizeRoute(route, now).op = route.op
           /\ NormalizeRoute(route, now).remark = route.remark
           /\ NormalizeRoute(route, now).time = IF route.time = 0 THEN now ELSE route.time
           /\ route.time # 0 => NormalizeRoute(route, now) = route
<1>1. PICK C, M : R = [time : Nat, op : C, first : C, second : C, remark : M]
  BY DEF AreRoutes
<1> QED BY <1>1 DEF NormalizeRoute, Undated

\* What SF lists, as it is stored.
LEMMA NormalizedAre ==
    ASSUME NEW R, AreRoutes(R), NEW routes, NEW now, QueriedAt(routes, now, R),
           NEW listed, listed = [i \in DOMAIN routes |-> NormalizeRoute(routes[i], now)]
    PROVE  /\ listed \in Seq(R) /\ Len(listed) = Len(routes)
           /\ \A i \in DOMAIN routes : /\ routes[i] \in R /\ routes[i].time \in Nat
                                       /\ routes[i].time < now
<1> DEFINE n == Len(routes)
<1>1. n \in Nat /\ DOMAIN routes = 1 .. n /\ \A i \in 1 .. n : routes[i] \in R
  BY DEF QueriedAt
<1>2. \A i \in 1 .. n : NormalizeRoute(routes[i], now) \in R
  BY <1>1, NormalizedIs DEF QueriedAt
<1>3. listed \in Seq(R) /\ Len(listed) = n
  <2> HIDE DEF n
  <2> QED BY <1>1, <1>2
<1>4. \A r \in R : r.time \in Nat
  BY DEF AreRoutes
<1> QED BY <1>1, <1>3, <1>4 DEF QueriedAt

\* A route that is listed once is an event once, whether it is dated or gets the time of the
\* query.
LEMMA ListedOnce ==
    ASSUME NEW R, AreRoutes(R), NEW routes, NEW now, QueriedAt(routes, now, R), Distinct(routes),
           NEW listed, listed = [i \in DOMAIN routes |-> NormalizeRoute(routes[i], now)]
    PROVE  Distinct(listed)
<1>1. SUFFICES ASSUME NEW i \in DOMAIN routes, NEW k \in DOMAIN routes,
                      EventKey(listed[i]) = EventKey(listed[k])
               PROVE  i = k
  BY DEF Distinct
<1>2. /\ routes[i] \in R /\ routes[i].time \in Nat /\ routes[i].time < now
      /\ routes[k] \in R /\ routes[k].time \in Nat /\ routes[k].time < now
      /\ now \in Nat
  BY NormalizedAre DEF QueriedAt
<1>3. /\ listed[i] = NormalizeRoute(routes[i], now)
      /\ listed[k] = NormalizeRoute(routes[k], now)
  OBVIOUS
<1>4. /\ listed[i].op = routes[i].op /\ listed[i].remark = routes[i].remark
      /\ listed[i].time = IF routes[i].time = 0 THEN now ELSE routes[i].time
  BY <1>2, <1>3, NormalizedIs
<1>5. /\ listed[k].op = routes[k].op /\ listed[k].remark = routes[k].remark
      /\ listed[k].time = IF routes[k].time = 0 THEN now ELSE routes[k].time
  BY <1>2, <1>3, NormalizedIs
<1>6. /\ listed[i].time = listed[k].time /\ listed[i].op = listed[k].op
      /\ listed[i].remark = listed[k].remark
  BY <1>1 DEF EventKey
<1>7. routes[i].time = routes[k].time
  BY <1>2, <1>4, <1>5, <1>6
<1>8. EventKey(routes[i]) = EventKey(routes[k])
  BY <1>4, <1>5, <1>6, <1>7 DEF EventKey
<1> QED BY <1>8 DEF Distinct

\* The events of earlier answers: those of the first of the routes SF lists now.
StoredOf(stored, routes, now, R) ==
    /\ stored \in Seq(R) /\ Len(stored) <= Len(routes)
    /\ \A i \in 1 .. Len(stored) : EventKey(stored[i]) = EventKey(NormalizeRoute(routes[i], now))

\* A refresh makes the events what SF lists.
LEMMA RefreshedIs ==
    ASSUME NEW R, AreRoutes(R), NEW routes, NEW now, QueriedAt(routes, now, R), Distinct(routes),
           NEW stored, StoredOf(stored, routes, now, R),
           NEW listed, listed = [i \in DOMAIN routes |-> NormalizeRoute(routes[i], now)]
    PROVE  /\ StoreRoutes(stored, routes, now) = listed
           /\ StoredOf(listed, routes, now, R)
<1>1. /\ listed \in Seq(R) /\ Len(listed) = Len(routes) /\ Distinct(listed)
  BY NormalizedAre, ListedOnce
<1>2. IsList(routes) /\ DOMAIN routes = 1 .. Len(routes) /\ Len(routes) \in Nat
  <2>1. routes \in Seq(R)
    BY DEF QueriedAt
  <2> QED BY <2>1 DEF IsList
<1>3. \A i \in 1 .. Len(routes) : listed[i] = NormalizeRoute(routes[i], now)
  BY <1>2
<1>4. EventsOf(stored, listed)
  <2>1. \A i \in 1 .. Len(stored) : i \in 1 .. Len(routes)
    BY <1>2 DEF StoredOf
  <2> QED BY <1>1, <1>3, <2>1 DEF StoredOf, EventsOf
<1>5. StoreRoutes(stored, routes, now) = listed
  <2>1. stored \in Seq(R)
    BY DEF StoredOf
  <2> QED BY <1>1, <1>2, <1>4, <2>1, StoredIs
<1>6. StoredOf(listed, routes, now, R)
  BY <1>1, <1>2, <1>3 DEF StoredOf
<1> QED BY <1>5, <1>6

\* The latest event is the latest route of the last answer, with the codes it has there, if
\* that is stored: of any routes, and whatever was stored before.
THEOREM AgreeOnLatestHolds ==
    ASSUME NEW R, AreRoutes(R), NEW routes, NEW now, QueriedAt(routes, now, R), NEW stored, StoredOf(stored, routes, now, R)
    PROVE  AgreeOnLatest(StoreRoutes(stored, routes, now), routes)
<1>1. SUFFICES ASSUME routes # <<>>, Dated(routes), Distinct(routes)
               PROVE  LatestEvent(StoreRoutes(stored, routes, now)) = LatestRoute(routes)
  BY DEF AgreeOnLatest
<1> DEFINE listed == [i \in DOMAIN routes |-> NormalizeRoute(routes[i], now)]
<1>2. StoreRoutes(stored, routes, now) = listed
  <2>1. listed = [i \in DOMAIN routes |-> NormalizeRoute(routes[i], now)]
    OBVIOUS
  <2> HIDE DEF listed
  <2> QED BY <1>1, <2>1, RefreshedIs
<1>3. \A i \in DOMAIN routes : NormalizeRoute(routes[i], now) = routes[i]
  <2>1. \A i \in DOMAIN routes : routes[i].time # Undated /\ routes[i] \in ToSet(routes)
    BY <1>1 DEF Dated, ToSet
  <2>2. \A i \in DOMAIN routes : routes[i] \in R
    BY NormalizedAre
  <2> QED BY <2>1, <2>2, NormalizedIs DEF Undated, QueriedAt
<1>4. listed = routes
  <2>1. routes = [i \in DOMAIN routes |-> routes[i]]
    BY DEF QueriedAt
  <2> QED BY <1>3, <2>1
<1> HIDE DEF listed
<1> QED BY <1>2, <1>4 DEF LatestEvent, LatestRoute

-----------------------------------------------------------------------------
(* The inputs of MCAlgorithms *)

\* The scans that are listed, the codes and the remarks they have or get.
Combos == {DELIVERY_COMBO, <<"99", "", "">>, <<"30", "2", "201">>}
Remarks == {{}, {"locker"}}
ScanCodes == {"5", "501"} \cup {c[k] : c \in Combos, k \in 1 .. 3}

Route == [time : Nat, op : ScanCodes, first : ScanCodes, second : ScanCodes, remark : Remarks]
Scan == {r \in Route : r.time < 9}

RowsInv == kind = "rows" => input \in Seq(Row)
ScansInv == kind = "scans" => input \in Seq(Scan) /\ StoredOf(events, input, 9, Route)
MappingsInv == kind = "mappings" => input \in Seq(Mappings)
ColumnsInv == kind = "columns" => input \in Seq(Headings)
SheetsInv == kind = "sheets" => input \in Seq(Sheets)

IInv == RowsInv /\ ScansInv /\ MappingsInv /\ ColumnsInv /\ SheetsInv

\* Such routes are routes with any codes of a set and any remarks of a set.
LEMMA RoutesAre == AreRoutes(Route)
BY DEF AreRoutes, Route

\* The scans of the model are routes.
LEMMA ScansAre == Scans \subseteq Scan
<1>1. Scans = {[time |-> t, op |-> c[1], first |-> c[2], second |-> c[3], remark |-> r] :
                  t \in 0 .. 3, c \in Combos, r \in Remarks}
  BY DEF Scans, Combos, Remarks
<1>2. \A c \in Combos : c[1] \in ScanCodes /\ c[2] \in ScanCodes /\ c[3] \in ScanCodes
  BY DEF ScanCodes
<1> SUFFICES ASSUME NEW s \in Scans PROVE s \in Scan
  OBVIOUS
<1>3. PICK t \in 0 .. 3, c \in Combos, r \in Remarks :
         s = [time |-> t, op |-> c[1], first |-> c[2], second |-> c[3], remark |-> r]
  BY <1>1
<1>4. t \in Nat /\ t < 9
  OBVIOUS
<1>5. s \in Route /\ s.time = t
  BY <1>2, <1>3, <1>4 DEF Route
<1> QED BY <1>4, <1>5 DEF Scan

\* A sequence of routes is that of a query at 9.
LEMMA ScansAreQueried ==
    ASSUME NEW routes \in Seq(Scan)
    PROVE  QueriedAt(routes, 9, Route)
<1>1. \A i \in DOMAIN routes : routes[i] \in Scan
  OBVIOUS
<1>2. routes \in Seq(Route)
  <2>1. DOMAIN routes = 1 .. Len(routes) /\ Len(routes) \in Nat
    OBVIOUS
  <2>2. \A i \in 1 .. Len(routes) : routes[i] \in Route
    BY <1>1, <2>1 DEF Scan
  <2>3. routes = [i \in 1 .. Len(routes) |-> routes[i]]
    BY <2>1
  <2> QED BY <2>1, <2>2, <2>3
<1> QED BY <1>1, <1>2 DEF QueriedAt, Scan

\* One scan more, or one whose codes are corrected, leaves the events those of the first.
LEMMA StillStored ==
    ASSUME NEW routes \in Seq(Scan), NEW more \in Seq(Scan), Len(routes) <= Len(more),
           \A i \in DOMAIN routes : EventKey(more[i]) = EventKey(routes[i]),
           NEW stored, StoredOf(stored, routes, 9, Route)
    PROVE  StoredOf(stored, more, 9, Route)
<1>1. /\ Len(stored) \in Nat /\ Len(routes) \in Nat /\ Len(more) \in Nat
      /\ Len(stored) <= Len(routes) /\ DOMAIN routes = 1 .. Len(routes)
  BY DEF StoredOf
<1>2. \A r, q \in Scan : EventKey(r) = EventKey(q)
                            => EventKey(NormalizeRoute(r, 9)) = EventKey(NormalizeRoute(q, 9))
  <2> SUFFICES ASSUME NEW r \in Scan, NEW q \in Scan, EventKey(r) = EventKey(q)
               PROVE  EventKey(NormalizeRoute(r, 9)) = EventKey(NormalizeRoute(q, 9))
    OBVIOUS
  <2>1. r \in Route /\ q \in Route /\ 9 \in Nat
    BY DEF Scan
  <2>2. r.time = q.time /\ r.op = q.op /\ r.remark = q.remark
    BY DEF EventKey
  <2>3. /\ NormalizeRoute(r, 9).op = r.op /\ NormalizeRoute(r, 9).remark = r.remark
        /\ NormalizeRoute(r, 9).time = IF r.time = 0 THEN 9 ELSE r.time
    BY <2>1, RoutesAre, NormalizedIs
  <2>4. /\ NormalizeRoute(q, 9).op = q.op /\ NormalizeRoute(q, 9).remark = q.remark
        /\ NormalizeRoute(q, 9).time = IF q.time = 0 THEN 9 ELSE q.time
    BY <2>1, RoutesAre, NormalizedIs
  <2> QED BY <2>2, <2>3, <2>4 DEF EventKey
<1>3. ASSUME NEW i \in 1 .. Len(stored)
      PROVE  EventKey(stored[i]) = EventKey(NormalizeRoute(more[i], 9))
  <2>1. i \in DOMAIN routes /\ i \in DOMAIN more
    BY <1>1
  <2>2. routes[i] \in Scan /\ more[i] \in Scan
    BY <2>1
  <2> QED BY <1>2, <2>1, <2>2 DEF StoredOf
<1> QED BY <1>1, <1>3 DEF StoredOf

\* What grows by one of a set stays a sequence of it.
LEMMA Grown ==
    ASSUME NEW k, NEW bound, NEW S, Grow(k, bound, S), input \in Seq(S)
    PROVE  input' \in Seq(S)
BY DEF Grow

\* Every step leaves the input of its kind, and the events those of the first routes.
LEMMA IInvKept == IInv /\ [Next]_vars => IInv'
<1> SUFFICES ASSUME IInv, [Next]_vars PROVE IInv'
  OBVIOUS
<1> USE DEF IInv
<1>1. CASE AddSheetRow
  <2>1. kind = "rows" /\ kind' = kind
    BY <1>1 DEF AddSheetRow, Grow
  <2>2. input' \in Seq(Row)
    BY <1>1, <2>1, Grown DEF AddSheetRow, RowsInv
  <2> QED BY <2>1, <2>2 DEF RowsInv, ScansInv, MappingsInv, ColumnsInv, SheetsInv
<1>2. CASE AddScan
  <2>1. kind = "scans" /\ kind' = kind /\ events' = events
    BY <1>2 DEF AddScan, Grow
  <2>2. input \in Seq(Scan) /\ StoredOf(events, input, 9, Route)
    BY <2>1 DEF ScansInv
  <2>3. PICK s \in Scans : input' = Append(input, s)
    BY <1>2 DEF AddScan, Grow
  <2>4. s \in Scan
    BY ScansAre
  <2>5. /\ input' \in Seq(Scan) /\ Len(input) <= Len(input')
        /\ \A i \in DOMAIN input : input'[i] = input[i]
    BY <2>2, <2>3, <2>4
  <2>6. StoredOf(events, input', 9, Route)
    BY <2>2, <2>5, StillStored
  <2> QED BY <2>1, <2>5, <2>6 DEF RowsInv, ScansInv, MappingsInv, ColumnsInv, SheetsInv
<1>3. CASE Correct
  <2>1. kind = "scans" /\ kind' = kind /\ events' = events
    BY <1>3 DEF Correct
  <2>2. input \in Seq(Scan) /\ StoredOf(events, input, 9, Route)
    BY <2>1 DEF ScansInv
  <2>3. PICK i \in DOMAIN input : input' = [input EXCEPT ![i].first = "5", ![i].second = "501"]
    BY <1>3 DEF Correct
  <2> DEFINE s == [[input[i] EXCEPT !.first = "5"] EXCEPT !.second = "501"]
  <2>4. s \in Scan /\ EventKey(s) = EventKey(input[i])
    <3>1. input[i] \in Route /\ input[i].time < 9
      BY <2>2 DEF Scan
    <3>2. /\ s \in Route /\ s.time = input[i].time /\ s.op = input[i].op
          /\ s.remark = input[i].remark
      <4> DEFINE s1 == [input[i] EXCEPT !.first = "5"]
      <4>1. "5" \in ScanCodes /\ "501" \in ScanCodes
        BY DEF ScanCodes
      <4>2. /\ s1 \in Route /\ s1.time = input[i].time /\ s1.op = input[i].op
            /\ s1.remark = input[i].remark
        BY <3>1, <4>1 DEF Route
      <4>3. s = [s1 EXCEPT !.second = "501"]
        OBVIOUS
      <4> HIDE DEF s, s1
      <4>4. /\ s \in Route /\ s.time = s1.time /\ s.op = s1.op /\ s.remark = s1.remark
        BY <4>1, <4>2, <4>3 DEF Route
      <4> QED BY <4>2, <4>4
    <3> QED BY <3>1, <3>2 DEF Scan, EventKey
  <2>5. input' = [input EXCEPT ![i] = s]
    BY <2>2, <2>3
  <2> HIDE DEF s
  <2>6. /\ input' \in Seq(Scan) /\ Len(input) <= Len(input')
        /\ \A k \in DOMAIN input : EventKey(input'[k]) = EventKey(input[k])
    BY <2>2, <2>4, <2>5
  <2>7. StoredOf(events, input', 9, Route)
    BY <2>2, <2>6, StillStored
  <2> QED BY <2>1, <2>6, <2>7 DEF RowsInv, ScansInv, MappingsInv, ColumnsInv, SheetsInv
<1>4. CASE Refresh
  <2>1. kind = "scans" /\ kind' = kind /\ input' = input /\ Distinct(input)
        /\ events' = StoreRoutes(events, input, 9)
    BY <1>4 DEF Refresh
  <2>2. input \in Seq(Scan) /\ StoredOf(events, input, 9, Route)
    BY <2>1 DEF ScansInv
  <2>3. StoredOf(events', input, 9, Route)
    <3> DEFINE listed == [i \in DOMAIN input |-> NormalizeRoute(input[i], 9)]
    <3>1. QueriedAt(input, 9, Route)
      BY <2>2, ScansAreQueried
    <3>2. StoreRoutes(events, input, 9) = listed /\ StoredOf(listed, input, 9, Route)
      <4>1. listed = [i \in DOMAIN input |-> NormalizeRoute(input[i], 9)]
        OBVIOUS
      <4> HIDE DEF listed
      <4> QED BY <2>1, <2>2, <3>1, <4>1, RoutesAre, RefreshedIs
    <3> QED BY <2>1, <3>2
  <2> QED BY <2>1, <2>2, <2>3 DEF RowsInv, ScansInv, MappingsInv, ColumnsInv, SheetsInv
<1>5. CASE AddMapping
  <2>1. kind = "mappings" /\ kind' = kind
    BY <1>5 DEF AddMapping, Grow
  <2>2. input' \in Seq(Mappings)
    BY <1>5, <2>1, Grown DEF AddMapping, MappingsInv
  <2> QED BY <2>1, <2>2 DEF RowsInv, ScansInv, MappingsInv, ColumnsInv, SheetsInv
<1>6. CASE AddHeading
  <2>1. kind = "columns" /\ kind' = kind
    BY <1>6 DEF AddHeading, Grow
  <2>2. input' \in Seq(Headings)
    BY <1>6, <2>1, Grown DEF AddHeading, ColumnsInv
  <2> QED BY <2>1, <2>2 DEF RowsInv, ScansInv, MappingsInv, ColumnsInv, SheetsInv
<1>7. CASE AddSheet
  <2>1. kind = "sheets" /\ kind' = kind
    BY <1>7 DEF AddSheet, Grow
  <2>2. input' \in Seq(Sheets)
    BY <1>7, <2>1, Grown DEF AddSheet, SheetsInv
  <2> QED BY <2>1, <2>2 DEF RowsInv, ScansInv, MappingsInv, ColumnsInv, SheetsInv
<1>8. CASE UNCHANGED vars
  BY <1>8 DEF vars, RowsInv, ScansInv, MappingsInv, ColumnsInv, SheetsInv
<1> QED BY <1>1, <1>2, <1>3, <1>4, <1>5, <1>6, <1>7, <1>8 DEF Next

\* Every input is of its kind.
THEOREM IInvHolds == Spec => []IInv
<1>1. Init => IInv
  <2> SUFFICES ASSUME Init PROVE IInv
    OBVIOUS
  <2>1. input = <<>> /\ events = <<>>
    BY DEF Init
  <2>2. StoredOf(<<>>, <<>>, 9, Route)
    BY DEF StoredOf
  <2> QED BY <2>1, <2>2 DEF IInv, RowsInv, ScansInv, MappingsInv, ColumnsInv, SheetsInv
<1> QED BY <1>1, IInvKept, PTL DEF Spec

-----------------------------------------------------------------------------
(* The invariants of MCAlgorithms *)

\* Each order and number of a sheet makes one row, each number is queried once, and the summary
\* adds up: of sheets of any length, whichever orders and spellings there are.
THEOREM RowsAreCountedOnceHolds == Spec => []RowsAreCountedOnce
<1>1. IInv => RowsAreCountedOnce
  <2> SUFFICES ASSUME IInv, kind = "rows"
               PROVE  /\ KeepsFirstOccurrences(input)
                      /\ QueriesEachNumberOnce(input)
                      /\ SummaryAddsUp(input, [n \in answered |-> "MAPPED"])
    BY DEF RowsAreCountedOnce
  <2> DEFINE map == [n \in answered |-> "MAPPED"]
  <2>1. input \in Seq(Row)
    BY DEF IInv, RowsInv
  <2>2. \A x \in DOMAIN map : map[x] # NoTracking
    BY DEF NoTracking
  <2> HIDE DEF map
  <2>3. /\ KeepsFirstOccurrences(input) /\ QueriesEachNumberOnce(input)
        /\ SummaryAddsUp(input, map)
    BY <2>1, <2>2, RowsAreCountedHolds
  <2> QED BY <2>3 DEF map
<1> QED BY <1>1, IInvHolds, PTL

\* The dashboard and the Lite run agree on the latest route, and the order in which SF lists the
\* routes does not matter: of any number of routes and after any refreshes.
THEOREM LatestRouteIsCertainHolds == Spec => []LatestRouteIsCertain
<1>1. IInv => LatestRouteIsCertain
  <2> SUFFICES ASSUME IInv, kind = "scans"
               PROVE  /\ Current => AgreeOnLatest(events, input)
                      /\ OrderDoesNotMatter(input)
    BY DEF LatestRouteIsCertain, Current
  <2>1. input \in Seq(Scan) /\ StoredOf(events, input, 9, Route)
    BY DEF IInv, ScansInv
  <2>2. QueriedAt(input, 9, Route)
    BY <2>1, ScansAreQueried
  <2>3. AgreeOnLatest(StoreRoutes(events, input, 9), input)
    BY <2>1, <2>2, RoutesAre, AgreeOnLatestHolds
  <2>4. AreTimed(input)
    <3>1. \A i \in DOMAIN input : input[i].time \in Nat
      BY <2>1 DEF Scan, Route
    <3> QED BY <2>1, <3>1 DEF AreTimed, IsList
  <2>5. OrderDoesNotMatter(input)
    BY <2>1, <2>4, OrderDoesNotMatterHolds
  <2> QED BY <2>3, <2>5 DEF Current
<1> QED BY <1>1, IInvHolds, PTL

\* map_status uses the most specific mapping, of tables of any length.
THEOREM MostSpecificMappingWinsHolds == Spec => []MostSpecificMappingWins
<1>1. IInv => MostSpecificMappingWins
  <2> SUFFICES ASSUME IInv, kind = "mappings" PROVE \A r : MostSpecificIsUsed(input, r)
    <3> DEFINE R == {[op |-> o, first |-> f, second |-> s] :
                         o \in {"80", "99"}, f \in {"", "4"}, s \in {"", "401"}}
    <3>1. MostSpecificMappingWins =
              (kind = "mappings" => \A r \in R : MostSpecificIsUsed(input, r))
      BY DEF MostSpecificMappingWins
    <3> HIDE DEF R
    <3> QED BY <3>1
  <2>1. input \in Seq(Mappings)
    BY DEF IInv, MappingsInv
  <2>2. \A m \in Mappings : m.priority \in Int
    <3> DEFINE O == {"", "80"}
               F == {"", "4"}
               S == {"", "401"}
               T == {"IN_TRANSIT", "DELIVERED"}
    <3>1. Mappings = {[priority |-> p, op |-> o, first |-> f, second |-> s, status |-> st,
                       terminal |-> FALSE] :
                          p \in {10, 20}, o \in O, f \in F, s \in S, st \in T}
      BY DEF Mappings
    <3> HIDE DEF O, F, S, T
    <3> QED BY <3>1
  <2>3. \A i \in DOMAIN input : input[i] \in Mappings
    BY <2>1
  <2>4. IsTable(input)
    BY <2>1, <2>2, <2>3 DEF IsTable, IsList
  <2> QED BY <2>4, MostSpecificIsUsedHolds
<1> QED BY <1>1, IInvHolds, PTL

\* A sequence of one or two.
LEMMA FewAre ==
    ASSUME NEW H, NEW a \in H, NEW b \in H
    PROVE  /\ <<>> \in Seq(H) /\ <<a>> \in Seq(H) /\ <<a, b>> \in Seq(H)
           /\ \A i \in DOMAIN <<a>> : <<a>>[i] = a
           /\ \A i \in DOMAIN <<a, b>> : <<a, b>>[i] \in {a, b}
OBVIOUS

\* Both parsers read the same columns, and a workbook is read at a sheet with order numbers, but
\* for long ones without: of any number of headings and of sheets.
THEOREM OrdersAreFoundHolds == Spec => []OrdersAreFound
<1>1. IInv => OrdersAreFound
  <2> SUFFICES ASSUME IInv
               PROVE  /\ kind = "columns" => ParsersAgree(input)
                      /\ kind = "sheets" /\ input # <<>> => OrdersAreRead(input)
    BY DEF OrdersAreFound
  <2>1. ASSUME kind = "columns" PROVE ParsersAgree(input)
    <3>1. input \in Seq(Headings)
      BY <2>1 DEF IInv, ColumnsInv
    <3>2. \A h \in Headings : h.text # NoColumn
      <4> DEFINE names == {"ordernumber", "trackingnumber", "tracking", "mailno", "name",
                           "invoiceno_ko"}
      <4>1. Headings = {[name |-> n, text |-> n] : n \in names}
                \cup {[name |-> "ordernumber", text |-> "Order_Number"],
                      [name |-> "orderno", text |-> "orderno"]}
        BY DEF Headings
      <4>2. \A n \in names : n # ""
        OBVIOUS
      <4> HIDE DEF names
      <4>3. SUFFICES ASSUME NEW h \in Headings PROVE h.text # ""
        BY DEF NoColumn
      <4>4. ASSUME NEW n \in names, h = [name |-> n, text |-> n] PROVE h.text # ""
        BY <4>2, <4>4
      <4>5. CASE h = [name |-> "ordernumber", text |-> "Order_Number"]
        BY <4>5
      <4>6. CASE h = [name |-> "orderno", text |-> "orderno"]
        BY <4>6
      <4> QED BY <4>1, <4>4, <4>5, <4>6
    <3>3. Headed(input)
      <4>1. \A i \in DOMAIN input : input[i] \in Headings
        BY <3>1
      <4> QED BY <3>2, <4>1 DEF Headed
    <3> QED BY <3>1, <3>3, ParsersAgreeHolds
  <2>2. ASSUME kind = "sheets", input # <<>> PROVE OrdersAreRead(input)
    <3> DEFINE order == [name |-> "orderno", text |-> "orderno"]
               waybill == [name |-> "waybill", text |-> "waybill"]
               no == [name |-> "orderno", text |-> "Order_No"]
               H == {order, waybill, no}
               C == {<<>>, <<order>>, <<waybill>>, <<waybill, no>>}
               N == {0, 1, 100, 900, 1000, 1001}
               W == [columns : Seq(H), rows : Nat]
    <3>1. input \in Seq(Sheets)
      BY <2>2 DEF IInv, SheetsInv
    <3>2. Sheets = {[columns |-> c, rows |-> r] : c \in C, r \in N}
      BY DEF Sheets
    <3>3. order.text # "" /\ waybill.text # "" /\ no.text # ""
      OBVIOUS
    <3>4. N \subseteq Nat
      OBVIOUS
    <3> HIDE DEF order, waybill, no, N
    <3>5. \A c \in C : c \in Seq(H) /\ Headed(c)
      <4>1. order \in H /\ waybill \in H /\ no \in H
        OBVIOUS
      <4>2. ASSUME NEW c \in C PROVE c \in Seq(H) /\ \A i \in DOMAIN c : c[i].text # ""
        <5> HIDE DEF H
        <5>1. CASE c = <<>>
          BY <5>1
        <5>2. CASE c = <<order>>
          <6>1. \A i \in DOMAIN c : c[i] = order
            BY <4>1, <5>2, FewAre
          <6> QED BY <3>3, <4>1, <5>2, <6>1, FewAre
        <5>3. CASE c = <<waybill>>
          <6>1. \A i \in DOMAIN c : c[i] = waybill
            BY <4>1, <5>3, FewAre
          <6> QED BY <3>3, <4>1, <5>3, <6>1, FewAre
        <5>4. CASE c = <<waybill, no>>
          <6>1. \A i \in DOMAIN c : c[i] \in {waybill, no}
            BY <4>1, <5>4, FewAre
          <6> QED BY <3>3, <4>1, <5>4, <6>1, FewAre
        <5> QED BY <5>1, <5>2, <5>3, <5>4
      <4> QED BY <4>2 DEF Headed, NoColumn
    <3> HIDE DEF C, H
    <3>6. \A s \in Sheets : s \in W /\ Headed(s.columns)
      BY <3>2, <3>4, <3>5
    <3> HIDE DEF W
    <3>7. input \in Seq(W) /\ \A i \in DOMAIN input : input[i] \in Sheets
      <4>1. /\ Len(input) \in Nat /\ DOMAIN input = 1 .. Len(input)
            /\ \A i \in 1 .. Len(input) : input[i] \in Sheets
        BY <3>1
      <4>2. input = [i \in 1 .. Len(input) |-> input[i]]
        BY <3>1
      <4> QED BY <3>6, <4>1, <4>2
    <3>8. WorkbookOf(input, H)
      BY <3>6, <3>7 DEF WorkbookOf, W
    <3> QED BY <2>2, <3>8, OrdersAreReadHolds
  <2> QED BY <2>1, <2>2
<1> QED BY <1>1, IInvHolds, PTL
=============================================================================
