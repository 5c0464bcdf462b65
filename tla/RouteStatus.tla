------------------------------ MODULE RouteStatus ------------------------------
(***************************************************************************)
(* What the routes of a tracking number make of its status, in the two     *)
(* ways the program has:                                                   *)
(*  - lite_status_mapper takes the latest route of one answer and looks    *)
(*    its codes and its remark up in fixed tables;                         *)
(*  - the dashboard stores the routes of every answer as events            *)
(*    (TrackingService), takes the latest event, and looks its codes up in *)
(*    a table the user may edit (StatusMappingService).                    *)
(*                                                                         *)
(* A missing code is "". A remark is the set of the phrases it contains,   *)
(* of those the mapper looks for.                                          *)
(***************************************************************************)
EXTENDS Integers, FiniteSets, SequencesExt

\* No accept time. (One that cannot be read is none to the Lite run; to the dashboard it
\* is a failure of the batch, as in TrackingRefresh.)
Undated == 0

-----------------------------------------------------------------------------
(* lite_status_mapper *)

ARRIVED_REMARK_TERMS == {"locker"}
COLLECTED_REMARK_TERMS == {"to the addressee", "delivered", "to an outside carrier",
                           "reshipped and delivered"}
RETURN_REMARK_TERMS == {"returned", "voided"}
TRANSFER_REQUEST_REMARK_TERMS == {"reshipping requested", "reshipped"}

DELIVERY_COMBO == <<"80", "4", "401">>
ARRIVED_COMBOS == {<<"125", "11", "1101">>, <<"218", "11", "1101">>, <<"642", "11", "1101">>}
CANCELED_COMBOS == {<<"33", "5", "501">>}
EXCEPTION_COMBOS == {<<"126", "11", "1101">>}
SHIPPED_COMBOS ==
    {<<op, "2", "201">> : op \in {"30", "31", "36", "44", "648"}}
    \cup {<<op, "1", "101">> : op \in {"50", "54"}}
    \cup {<<op, "3", "301">> : op \in {"204", "634"}}
    \cup {<<op, "13", "1301">> : op \in {"33", "70"}}
    \cup {<<"603", "", "">>, <<"628", "", "">>, <<"70", "11", "1101">>}

Mentions(route, terms) == route.remark \cap terms # {}
EventCombo(route) == <<route.op, route.first, route.second>>

\* The tables have no combination in common: the order of the ifs does not matter.
StatusOf(route) ==
    LET combo == EventCombo(route) IN
    CASE combo = DELIVERY_COMBO ->
             IF Mentions(route, ARRIVED_REMARK_TERMS) THEN "ARRIVED"
             ELSE IF Mentions(route, COLLECTED_REMARK_TERMS) THEN "COLLECTED"
             ELSE "UNKNOWN"
      [] combo \in ARRIVED_COMBOS   -> "ARRIVED"
      [] combo \in CANCELED_COMBOS  -> "CANCELED"
      [] combo \in EXCEPTION_COMBOS -> "EXCEPTION"
      [] combo \in SHIPPED_COMBOS   -> "SHIPPED"
      [] route.op = "99" ->
             IF Mentions(route, RETURN_REMARK_TERMS) THEN "EXCEPTION" ELSE "SHIPPED"
      [] route.op = "517" ->
             IF Mentions(route, TRANSFER_REQUEST_REMARK_TERMS) THEN "SHIPPED" ELSE "UNKNOWN"
      [] OTHER -> "UNKNOWN"

\* The greatest accept time, and of those the last listed; undated is 1970.
LatestRoute(routes) ==
    LET Newer(i, k) ==
            routes[i].time > routes[k].time \/ (routes[i].time = routes[k].time /\ i > k)
    IN routes[CHOOSE i \in DOMAIN routes : \A k \in DOMAIN routes \ {i} : Newer(i, k)]

\* map_route_response; reason says whether SF gave a reason for listing no routes.
MapRouteResponse(routes, reason) ==
    IF routes = <<>>
    THEN [status |-> IF reason THEN "QUERY_UNAVAILABLE" ELSE "NO_ROUTE", latest |-> <<>>]
    ELSE [status |-> StatusOf(LatestRoute(routes)), latest |-> <<LatestRoute(routes)>>]

-----------------------------------------------------------------------------
(* The dashboard: a tracking's events, in the order of their ids *)

\* _normalize_route: an undated route gets the time of the query.
NormalizeRoute(route, now) == IF route.time = Undated THEN [route EXCEPT !.time = now] ELSE route

\* What makes a route the event that is stored: time, opcode and description.
EventKey(event) == <<event.time, event.op, event.remark>>

\* Mutant: an event that is there is left as it is.
Store_NoUpdate(events, route) ==
    IF \E e \in ToSet(events) : EventKey(e) = EventKey(route)
    THEN events ELSE Append(events, route)

\* A route updates the event that is stored, or becomes one. (One that is listed twice at
\* once would become two events, which the table refuses: only Distinct routes are stored.)
Store(events, route) ==
    IF \E e \in ToSet(events) : EventKey(e) = EventKey(route)
    THEN [i \in DOMAIN events |->
             IF EventKey(events[i]) = EventKey(route) THEN route ELSE events[i]]
    ELSE Append(events, route)

StoreRoutes(events, routes, now) ==
    LET stored[k \in 0 .. Len(routes)] ==
            IF k = 0 THEN events ELSE Store(stored[k - 1], NormalizeRoute(routes[k], now))
    IN  stored[Len(routes)]

\* ORDER BY event_time DESC, id DESC: the first
LatestEvent(events) ==
    LET Before(i, k) ==
            events[i].time > events[k].time \/ (events[i].time = events[k].time /\ i > k)
    IN events[CHOOSE i \in DOMAIN events : \A k \in DOMAIN events \ {i} : Before(i, k)]

-----------------------------------------------------------------------------
(* StatusMappingService.map_status: the table is a sequence in the order of *)
(* the ids.                                                                 *)

Codes(mapping) == {c \in {"op", "first", "second"} : mapping[c] # ""}
Matches(mapping, route) == \A c \in Codes(mapping) : mapping[c] = route[c]
Score(mapping) == Cardinality(Codes(mapping))

\* ORDER BY priority, id: the mapping at a place has as many before it.
ListMappings(table) ==
    LET Before(i, k) == table[i].priority < table[k].priority
                            \/ (table[i].priority = table[k].priority /\ i < k)
        Place(i) == 1 + Cardinality({k \in DOMAIN table : Before(k, i)})
    IN [p \in DOMAIN table |-> table[CHOOSE i \in DOMAIN table : Place(i) = p]]

NoMatch == [score |-> -1, result |-> [status |-> "UNKNOWN_OPCODE", terminal |-> FALSE]]
Match(mapping) ==
    [score |-> Score(mapping),
     result |-> [status |-> mapping.status, terminal |-> mapping.terminal]]

\* Mutant: a mapping as specific as the best one replaces it.
Beats_OrEqual(mapping, best) == Score(mapping) >= best.score

Beats(mapping, best) == Score(mapping) > best.score

Try(best, mapping, route) ==
    IF Matches(mapping, route) /\ Beats(mapping, best) THEN Match(mapping) ELSE best

MapStatus(table, route) ==
    LET mappings == ListMappings(table)
        best[k \in 0 .. Len(mappings)] ==
            IF k = 0 THEN NoMatch ELSE Try(best[k - 1], mappings[k], route)
    IN  best[Len(mappings)].result

-----------------------------------------------------------------------------
(* What they promise *)

Dated(routes) == \A r \in ToSet(routes) : r.time # Undated
Distinct(routes) ==
    \A i, k \in DOMAIN routes : i # k => EventKey(routes[i]) # EventKey(routes[k])

\* The dashboard and the Lite run agree on what happened last: the latest of the
\* events stored over several refreshes is the latest route of the last answer, with
\* the codes it has there.
AgreeOnLatest(events, routes) ==
    routes # <<>> /\ Dated(routes) /\ Distinct(routes) =>
        LatestEvent(events) = LatestRoute(routes)

\* The status does not depend on the order in which SF lists the routes, unless two
\* of them have the latest time.
OrderDoesNotMatter(routes) ==
    LET Reordered(f) == [i \in DOMAIN routes |-> routes[f[i]]]
        times == {routes[i].time : i \in DOMAIN routes}
    IN Cardinality(times) = Len(routes) =>
        \A f \in {g \in [DOMAIN routes -> DOMAIN routes] : IsInjective(g)} :
            MapRouteResponse(Reordered(f), FALSE) = MapRouteResponse(routes, FALSE)

\* The mapping that is used matches, and no other one that does is more specific, or
\* as specific and of a smaller priority, or that and older.
MostSpecificIsUsed(table, route) ==
    LET matching == {i \in DOMAIN table : Matches(table[i], route)}
        Preferred(i, k) ==
            \/ Score(table[i]) > Score(table[k])
            \/ Score(table[i]) = Score(table[k]) /\ table[i].priority < table[k].priority
            \/ Score(table[i]) = Score(table[k]) /\ table[i].priority = table[k].priority /\ i < k
    IN IF matching = {} THEN MapStatus(table, route) = NoMatch.result
       ELSE \E i \in matching :
               /\ \A k \in matching \ {i} : Preferred(i, k)
               /\ MapStatus(table, route) = Match(table[i]).result
=============================================================================
