----------------------------- MODULE SheetColumns -----------------------------
(***************************************************************************)
(* Which sheet of a workbook is read and which of its columns are the      *)
(* order number and the tracking number: LiteService for a Lite run,       *)
(* FileParser for an upload to the dashboard.                              *)
(*                                                                         *)
(* A heading is its text and what _normalize makes of it: letters and      *)
(* digits, in lower case. Aliases that are normalized to the same are one. *)
(***************************************************************************)
EXTENDS Integers, FiniteSets, SequencesExt

NoColumn == ""

Fields == {"order_number", "tracking_number"}

\* FIELD_ALIASES of lite_service
LiteAliases ==
    [order_number    |-> <<"ordernumber", "orderno">>,
     tracking_number |-> <<"trackingnumber", "trackingno", "waybill", "waybillno", "tracking",
                           "mailno">>]

\* FIELD_ALIASES of file_parser, which knows Korean and Chinese headings too: those that end
\* in ko and zh stand for them.
ParserAliases ==
    [order_number    |-> <<"ordernumber", "orderno", "orderno_ko", "orderno_zh">>,
     tracking_number |-> <<"trackingnumber", "trackingno", "waybill", "waybillno",
                           "waybillno_ko", "invoiceno_ko", "tracking", "mailno">>]

-----------------------------------------------------------------------------
\* {normalize(column): column}: the last of the headings that are normalized to the same.
ColumnOf(columns, name) ==
    LET last == SelectLastInSeq(columns, LAMBDA c : c.name = name)
    IN  IF last = 0 THEN NoColumn ELSE columns[last].text

\* The column of the first alias that has one.
Detect(columns, aliases) ==
    LET first == SelectInSeq(aliases, LAMBDA alias : ColumnOf(columns, alias) # NoColumn)
    IN  IF first = 0 THEN NoColumn ELSE ColumnOf(columns, aliases[first])

\* LiteService._detect_mapping
DetectMapping(columns) == [f \in Fields |-> Detect(columns, LiteAliases[f])]

\* FileParser.detect_mapping
ParserDetectMapping(columns) == [f \in Fields |-> Detect(columns, ParserAliases[f])]

-----------------------------------------------------------------------------
(* LiteService._select_sheet: a sheet is its headings and how many rows it has *)

\* Mutant: of two sheets with the same score, the later one.
Better_OrEqual(score, best) == score >= best

Better(score, best) == score > best

SheetScore(sheet) ==
    LET mapping == DetectMapping(sheet.columns) IN
    sheet.rows
      + (IF mapping.tracking_number # NoColumn THEN 100 ELSE 0)
      + (IF mapping.order_number # NoColumn THEN 1000 ELSE 0)

TrySheet(best, workbook, i) ==
    LET score == SheetScore(workbook[i]) IN
    IF Better(score, best.score) THEN [sheet |-> i, score |-> score] ELSE best

SelectSheet(workbook) ==
    LET best[k \in 0 .. Len(workbook)] ==
            IF k = 0 THEN [sheet |-> 1, score |-> -1] ELSE TrySheet(best[k - 1], workbook, k)
    IN  best[Len(workbook)].sheet

-----------------------------------------------------------------------------
(* What they promise *)

Readable(columns, f) == \E i \in DOMAIN columns : columns[i].name \in ToSet(LiteAliases[f])

\* A file of headings both parsers know is read the same way by both, whatever else
\* it holds in whatever order; and a field is found whenever some heading names it.
ParsersAgree(columns) ==
    (\A i \in DOMAIN columns, f \in Fields :
         columns[i].name \in ToSet(ParserAliases[f]) => columns[i].name \in ToSet(LiteAliases[f]))
    => /\ DetectMapping(columns) = ParserDetectMapping(columns)
       /\ \A f \in Fields : DetectMapping(columns)[f] # NoColumn <=> Readable(columns, f)

HasOrders(sheet) == Readable(sheet.columns, "order_number")

\* A run that could succeed is not turned away for its sheet: a sheet without order
\* numbers is only read before one that has them when it is at least 900 rows longer;
\* and of two sheets that are alike the first is read.
OrdersAreRead(workbook) ==
    LET read == SelectSheet(workbook) IN
    \A i \in DOMAIN workbook \ {read} :
        /\ HasOrders(workbook[i]) /\ ~HasOrders(workbook[read])
              => workbook[read].rows >= workbook[i].rows + 900
        /\ workbook[i] = workbook[read] => read < i
=============================================================================
