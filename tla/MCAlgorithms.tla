---------------------------- MODULE MCAlgorithms ----------------------------
(* The pure algorithms over every small input, as TLC states: an input of one kind   *)
(* grows by one row, scan, mapping, heading or sheet at a time.                      *)
EXTENDS LiteRows, RouteStatus, SheetColumns, TLC

CONSTANTS o1, o2, sf1, sf2, typed1, typed2, typed2b, blank,
          MAXROWS,        \* bound: the rows of a sheet
          MAXSCANS,       \* bound: the routes SF lists of a number
          MAXMAPPINGS,    \* bound: the status mappings
          MAXCOLUMNS,     \* bound: the headings of a sheet
          MAXSHEETS       \* bound: the sheets of a workbook

VARIABLES kind, input,
          answered,       \* rows: the tracking numbers SF answers for
          events          \* scans: the events the dashboard has stored, once current
vars == <<kind, input, answered, events>>

MCNormal == typed1 :> sf1 @@ typed2 :> sf2 @@ typed2b :> sf2 @@ blank :> None

Init ==
    /\ kind \in {"rows", "scans", "mappings", "columns", "sheets"}
    /\ input = <<>> /\ events = <<>>
    /\ answered \in IF kind = "rows" THEN SUBSET Numbers ELSE {{}}

Grow(k, bound, S) ==
    /\ kind = k /\ Len(input) < bound
    /\ \E x \in S : input' = Append(input, x)
    /\ UNCHANGED <<kind, answered, events>>

AddSheetRow == Grow("rows", MAXROWS, Row)

-----------------------------------------------------------------------------
\* Delivered, returned, on the way, of unknown codes.
Scans ==
    {[time |-> t, op |-> c[1], first |-> c[2], second |-> c[3], remark |-> r] :
        t \in 0 .. 3,
        c \in {DELIVERY_COMBO, <<"99", "", "">>, <<"30", "2", "201">>},
        r \in {{}, {"locker"}}}

\* SF lists one scan more,
AddScan == Grow("scans", MAXSCANS, Scans)

\* or other codes for a scan it has listed.
Correct ==
    /\ kind = "scans"
    /\ \E i \in DOMAIN input : input' = [input EXCEPT ![i].first = "5", ![i].second = "501"]
    /\ UNCHANGED <<kind, answered, events>>

\* The dashboard asks; a scan listed twice at once ends the request.
Refresh ==
    /\ kind = "scans" /\ Distinct(input)
    /\ events' = StoreRoutes(events, input, 9)
    /\ UNCHANGED <<kind, input, answered>>

Current == kind = "scans" /\ events = StoreRoutes(events, input, 9)

-----------------------------------------------------------------------------
Mappings ==
    {[priority |-> p, op |-> o, first |-> f, second |-> s, status |-> st, terminal |-> FALSE] :
        p \in {10, 20}, o \in {"", "80"}, f \in {"", "4"}, s \in {"", "401"},
        st \in {"IN_TRANSIT", "DELIVERED"}}

AddMapping == Grow("mappings", MAXMAPPINGS, Mappings)

Headings ==
    {[name |-> n, text |-> n] :
        n \in {"ordernumber", "trackingnumber", "tracking", "mailno", "name", "invoiceno_ko"}}
    \cup {[name |-> "ordernumber", text |-> "Order_Number"], [name |-> "orderno", text |-> "orderno"]}

AddHeading == Grow("columns", MAXCOLUMNS, Headings)

Sheets ==
    {[columns |-> c, rows |-> r] :
        c \in {<<>>, <<[name |-> "orderno", text |-> "orderno"]>>,
               <<[name |-> "waybill", text |-> "waybill"]>>,
               <<[name |-> "waybill", text |-> "waybill"], [name |-> "orderno", text |-> "Order_No"]>>},
        r \in {0, 1, 100, 900, 1000, 1001}}

AddSheet == Grow("sheets", MAXSHEETS, Sheets)

Next == AddSheetRow \/ AddScan \/ Correct \/ Refresh \/ AddMapping \/ AddHeading \/ AddSheet

Spec == Init /\ [][Next]_vars

-----------------------------------------------------------------------------
\* Each order and number of a sheet makes one row, however it is typed and repeated: the rows
\* are the first occurrences, each number is queried once, and the summary adds up, whichever
\* numbers SF answers for.
RowsAreCountedOnce ==
    kind = "rows" =>
        /\ KeepsFirstOccurrences(input)
        /\ QueriesEachNumberOnce(input)
        /\ SummaryAddsUp(input, [n \in answered |-> "MAPPED"])

\* What happened last to a number is one thing: the dashboard, once it has stored what SF lists,
\* corrections included, and the Lite run agree on it, in whatever order SF lists the routes.
LatestRouteIsCertain ==
    /\ Current => AgreeOnLatest(events, input)
    /\ kind = "scans" => OrderDoesNotMatter(input)

\* map_status uses the most specific mapping of the table.
MostSpecificMappingWins ==
    kind = "mappings" =>
        \A r \in {[op |-> o, first |-> f, second |-> s] :
                     o \in {"80", "99"}, f \in {"", "4"}, s \in {"", "401"}} :
            MostSpecificIsUsed(input, r)

\* The orders of a file are found: the Lite run and the upload read the same columns, and a
\* workbook is read at a sheet with order numbers, but for long ones without.
OrdersAreFound ==
    /\ kind = "columns" => ParsersAgree(input)
    /\ kind = "sheets" /\ input # <<>> => OrdersAreRead(input)
=============================================================================
