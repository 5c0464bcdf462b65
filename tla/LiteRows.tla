------------------------------ MODULE LiteRows ------------------------------
(***************************************************************************)
(* The rows of a Lite run: LiteService.prepare_content, which removes the  *)
(* rows without an order number and the repeated ones and lists the        *)
(* tracking numbers to query, and _build_run_response, which joins the     *)
(* answers to the rows. A row is what _extract_field reads of it: an order *)
(* number and the tracking number as it was typed, either one possibly     *)
(* missing.                                                                *)
(***************************************************************************)
EXTENDS Integers, FiniteSets, SequencesExt

CONSTANTS
    Orders,               \* order numbers
    Spellings,            \* tracking numbers as typed
    Normal,               \* what _normalize_tracking_number makes of a spelling
    None                  \* a missing value

Numbers == {Normal[s] : s \in Spellings} \ {None}

ASSUME RowAssumption == None \notin Orders \cup Spellings

Row == [order : Orders \cup {None}, tracking : Spellings \cup {None}]

NormalizeTrackingNumber(value) == IF value = None THEN None ELSE Normal[value]

Pair(row) ==
    [order |-> row.order, tracking |-> NormalizeTrackingNumber(row.tracking)]

-----------------------------------------------------------------------------
(* prepare_content: one pass over the rows of the sheet *)

NoRows == [rows |-> <<>>, missing |-> 0, duplicates |-> 0]

AddRow(prepared, row) ==
    IF row.order = None THEN [prepared EXCEPT !.missing = @ + 1]
    ELSE IF Contains(prepared.rows, Pair(row))
         THEN [prepared EXCEPT !.duplicates = @ + 1]
         ELSE [prepared EXCEPT !.rows = Append(@, Pair(row))]

DedupedRows(sheet) ==
    LET seen[k \in 0 .. Len(sheet)] == IF k = 0 THEN NoRows ELSE AddRow(seen[k - 1], sheet[k])
    IN  seen[Len(sheet)]

AddNumber(numbers, row) ==
    IF row.tracking = None \/ Contains(numbers, row.tracking)
    THEN numbers ELSE Append(numbers, row.tracking)

\* list(dict.fromkeys(...)): the tracking numbers in the order they first occur.
QueryNumbers(rows) ==
    LET keys[k \in 0 .. Len(rows)] == IF k = 0 THEN <<>> ELSE AddNumber(keys[k - 1], rows[k])
    IN  keys[Len(rows)]

PrepareContent(sheet) ==
    LET prepared == DedupedRows(sheet) IN
    [total_rows |-> Len(sheet),
     rows |-> prepared.rows,
     missing |-> prepared.missing,
     duplicates |-> prepared.duplicates,
     numbers |-> QueryNumbers(prepared.rows),
     no_tracking |-> Cardinality({i \in DOMAIN prepared.rows : prepared.rows[i].tracking = None})]

-----------------------------------------------------------------------------
(* _build_run_response: route_map gives a status for a tracking number *)

NoTracking == "NO_TRACKING"
NoResponse == "QUERY_FAILED: no route response"

\* Mutant: the tracking number is looked up without asking whether there is one.
RowStatus_NoCheck(row, route_map) ==
    IF row.tracking \in DOMAIN route_map THEN route_map[row.tracking] ELSE NoResponse

RowStatus(row, route_map) ==
    IF row.tracking = None THEN NoTracking
    ELSE IF row.tracking \in DOMAIN route_map THEN route_map[row.tracking]
    ELSE NoResponse

BuildRunResponse(prepared, route_map) ==
    [i \in DOMAIN prepared.rows |->
        [row |-> prepared.rows[i], status |-> RowStatus(prepared.rows[i], route_map)]]

StatusCount(response, status) ==
    Cardinality({i \in DOMAIN response : response[i].status = status})

-----------------------------------------------------------------------------
(* What they promise, of every sheet *)

FirstOccurrence(sheet, i) ==
    sheet[i].order # None /\ \A k \in 1 .. i - 1 : Pair(sheet[k]) # Pair(sheet[i])

Firsts(sheet) == {i \in DOMAIN sheet : FirstOccurrence(sheet, i)}

\* The rows kept are the first occurrences of the pairs, in the order of the sheet.
KeepsFirstOccurrences(sheet) ==
    LET rows == PrepareContent(sheet).rows IN
    /\ Len(rows) = Cardinality(Firsts(sheet))
    /\ \A i \in Firsts(sheet) :
           rows[Cardinality({k \in Firsts(sheet) : k <= i})] = Pair(sheet[i])

\* The numbers to query are those of the rows, each once, in the order in which
\* they first occur.
QueriesEachNumberOnce(sheet) ==
    LET rows == PrepareContent(sheet).rows
        numbers == PrepareContent(sheet).numbers
        First(n) == CHOOSE i \in DOMAIN rows :
                        /\ rows[i].tracking = n
                        /\ \A k \in 1 .. i - 1 : rows[k].tracking # n
    IN /\ ToSet(numbers) = {rows[i].tracking : i \in DOMAIN rows} \ {None}
       /\ \A i, k \in DOMAIN numbers : i < k => First(numbers[i]) < First(numbers[k])

\* The summary adds up: every row of the sheet is counted once, and the rows without
\* a tracking number are those the response calls NO_TRACKING, whatever SF answers.
SummaryAddsUp(sheet, route_map) ==
    LET prepared == PrepareContent(sheet)
        response == BuildRunResponse(prepared, route_map)
    IN /\ prepared.missing + prepared.duplicates + Len(response) = prepared.total_rows
       /\ StatusCount(response, NoTracking) = prepared.no_tracking
=============================================================================
