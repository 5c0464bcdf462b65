---------------------------- MODULE TrackingRefresh ----------------------------
(***************************************************************************)
(* The tracking database and the sessions that change it: confirming an    *)
(* upload (UploadService), refreshing tracking numbers (TrackingService)   *)
(* and scheduled polling (PollingService).                                 *)
(*                                                                         *)
(* A thread does one request after another, each in an SQLAlchemy session  *)
(* of its own. A session keeps the rows it has loaded, with the values     *)
(* they had, and at a flush writes only the columns it changed since.      *)
(* Nothing is flushed on its own account (autoflush=False).                *)
(*                                                                         *)
(* SQLite: readers see what is committed; one session at a time writes,    *)
(* from its first flush with something to write to its commit or rollback, *)
(* and another that wants to write waits (the five seconds after which it  *)
(* would give up are left out: no session waits for SF while it writes).   *)
(***************************************************************************)
EXTENDS Integers, Sequences, FiniteSets, SequencesExt, FiniteSetsExt

CONSTANTS
    Threads,              \* request threads and the scheduler's
    Numbers,              \* tracking numbers
    Events,               \* events of a tracking, numbered in order of event_time
    MapStatus,            \* what status_mappings make of an event: [status, terminal]
    Uploads,              \* upload batches
    Rows,                 \* their rows: [order, tracking]
    Selections,           \* what POST /trackings/refresh is asked for: its unique_numbers
    Earlier,              \* databases that earlier sessions have left
    Orders,
    None, NoRow, Unloaded,
    Reason, Failure,      \* last_error_*: SF's reason for no route; a failed query
    BATCH,                \* polling batch_size
    REQUESTS,             \* bound: how many requests and polls there are
    CRASHES               \* bound: how often the process is killed and restarted

POLLABLE_STATUSES ==
    {"REGISTERED", "IN_TRANSIT", "OUT_FOR_DELIVERY", "EXCEPTION", "QUERY_FAILED",
     "UNKNOWN_OPCODE"}

\* What current_status can be: what the app writes, and what status_mappings say.
Statuses ==
    POLLABLE_STATUSES \cup {"QUERY_UNAVAILABLE"} \cup {MapStatus[e].status : e \in Events}

\* The row of a tracking. event stands for last_event_* and last_opcode; retry_count
\* is left out (only the due check reads it, and only to lengthen the interval).
Row == [status : Statuses, code : Events \cup {None, Reason}, event : Events \cup {None},
        error : {None, Reason, Failure}, terminal : BOOLEAN, queried : BOOLEAN]

Registered == [status |-> "REGISTERED", code |-> None, event |-> None, error |-> None,
               terminal |-> FALSE, queried |-> FALSE]

\* The tables: trackings, tracking_events, orders, order_trackings, and the uploads confirmed.
Database == [row : [Numbers -> Row \cup {NoRow}], stored : [Numbers -> SUBSET Events],
             orders : SUBSET Orders, links : SUBSET [order : Orders, tracking : Numbers],
             confirmed : SUBSET Uploads]

\* A row in memory: as loaded or last flushed, and as it is now.
Loaded(row) == [base |-> row, work |-> row]
Created(row) == [base |-> NoRow, work |-> row]
Cell == [base : Row \cup {NoRow}, work : Row]

ASSUME RefreshAssumption ==
    /\ BATCH \in Nat \ {0} /\ REQUESTS \in Nat /\ CRASHES \in Nat
    /\ IsFiniteSet(Numbers)
    /\ Selections \subseteq {numbers \in Seq(Numbers) : IsInjective(numbers)}
    /\ IsFiniteSet(Events) /\ Events = 1 .. Cardinality(Events)
    /\ MapStatus \in [Events -> [status : STRING, terminal : BOOLEAN]]
    /\ Rows \in [Uploads -> Seq([order : Orders \cup {None}, tracking : Numbers \cup {None}])]
    /\ None \notin Threads \cup Database /\ NoRow \notin Row /\ Unloaded \notin Cell

VARIABLES
    db,                   \* what is committed
    lock,                 \* the thread whose session writes
    tx,                   \* what the database will be when it commits
    session,              \* the threads' sessions
    run,                  \* polling_runs: the status of each thread's last run
    requests, crashes,
    overlapped            \* history: numbers two sessions have had in memory at once

vars == <<db, lock, tx, session, run, requests, crashes, overlapped>>

\* The events SF lists for a number that it has routes of.
Routes == {1 .. e : e \in Events}

Idle == [pc |-> "idle", polls |-> FALSE, upload |-> None, todo |-> <<>>, batch |-> <<>>,
         left |-> <<>>, memory |-> [n \in Numbers |-> Unloaded],
         adds |-> {}, clash |-> FALSE, told |-> {}]

Init ==
    /\ db \in Earlier
    /\ lock = None /\ tx = None
    /\ session = [t \in Threads |-> Idle]
    /\ run = [t \in Threads |-> "none"]
    /\ requests = 0 /\ crashes = 0
    /\ overlapped = {}

-----------------------------------------------------------------------------
(* Sessions *)

\* The thread's session is s from now on.
Becomes(t, s) ==
    /\ session' = [session EXCEPT ![t] = s]
    /\ overlapped' = overlapped \cup
          {n \in Numbers : /\ s.memory[n] # Unloaded
                           /\ \E u \in Threads \ {t} : session[u].memory[n] # Unloaded}

MayWrite(t) == lock \in {None, t}
View(t) == IF lock = t THEN tx ELSE db

\* An UPDATE sets the columns that changed.
Column(now, was, is) == IF is # was THEN is ELSE now
Merged(row, m) ==
    [status |-> Column(row.status, m.base.status, m.work.status),
     code |-> Column(row.code, m.base.code, m.work.code),
     event |-> Column(row.event, m.base.event, m.work.event),
     error |-> Column(row.error, m.base.error, m.work.error),
     terminal |-> Column(row.terminal, m.base.terminal, m.work.terminal),
     queried |-> Column(row.queried, m.base.queried, m.work.queried)]

Pending(s, n) == s.memory[n] # Unloaded /\ s.memory[n].work # s.memory[n].base
Dirty(s) == s.adds # {} \/ \E n \in Numbers : Pending(s, n)

\* The database with all that a session has pending.
Written(view, s) ==
    [view EXCEPT
        !.row = [n \in Numbers |->
                    IF ~Pending(s, n) THEN view.row[n]
                    ELSE IF s.memory[n].base = NoRow THEN s.memory[n].work
                    ELSE Merged(view.row[n], s.memory[n])],
        !.stored = [n \in Numbers |-> view.stored[n] \cup {e \in Events : <<n, e>> \in s.adds}]]

Flushed(s) ==
    [s EXCEPT !.adds = {},
              !.memory = [n \in Numbers |->
                             IF s.memory[n] = Unloaded THEN Unloaded
                             ELSE Loaded(s.memory[n].work)]]

\* IntegrityError: a tracking or an event is inserted that is already there.
Conflict(view, s) ==
    \/ s.clash
    \/ \E n \in Numbers : Pending(s, n) /\ s.memory[n].base = NoRow /\ view.row[n] # NoRow
    \/ \E a \in s.adds : a[2] \in view.stored[a[1]]

\* Mutant: the session of a request that raised is not rolled back.
Raise_NoRollback(t) ==
    /\ Becomes(t, Idle)
    /\ UNCHANGED <<db, lock, tx, run>>

\* The request raises: its session is rolled back. When a flush failed, the except
\* clauses of refresh_tracking_numbers and of PollingService.run use the session once
\* more, which raises again: the polling run stays "running".
Raise(t) ==
    /\ Becomes(t, Idle)
    /\ lock' = IF lock = t THEN None ELSE lock
    /\ tx' = IF lock = t THEN None ELSE tx
    /\ UNCHANGED <<db, run>>

\* Flush what is pending, then go on as s; or raise.
FlushThen(t, s) ==
    IF Dirty(session[t]) THEN
        /\ MayWrite(t)
        /\ IF Conflict(View(t), session[t]) THEN Raise(t) ELSE
              /\ lock' = t
              /\ tx' = Written(View(t), session[t])
              /\ Becomes(t, s)
              /\ UNCHANGED <<db, run>>
    ELSE Becomes(t, s) /\ UNCHANGED <<db, lock, tx, run>>

\* The next batch of todo, or the end.
NextBatch(s, todo) ==
    LET size == Min({BATCH, Len(todo)}) IN
    [s EXCEPT !.pc = IF todo = <<>> THEN "finish" ELSE "ask",
              !.batch = SubSeq(todo, 1, size),
              !.left = SubSeq(todo, 1, size),
              !.todo = SubSeq(todo, size + 1, Len(todo))]

\* refresh_tracking_numbers: without an active API key nothing is asked.
Refreshes(s, numbers) == {NextBatch(s, numbers), NextBatch(s, <<>>)}

-----------------------------------------------------------------------------
(* Requests *)

Request(t, s) ==
    /\ session[t].pc = "idle" /\ requests < REQUESTS
    /\ requests' = requests + 1
    /\ Becomes(t, s)

\* POST /uploads/{batch_id}/confirm reads the batch;
ConfirmBatch(t, u) ==
    /\ u \notin db.confirmed          \* otherwise "already confirmed"
    /\ Request(t, [Idle EXCEPT !.pc = "confirm", !.upload = u])
    /\ UNCHANGED <<db, lock, tx, run, crashes>>

GoodRows(u) == {r \in ToSet(Rows[u]) : r.order # None}
Tracked(u) == {r \in GoodRows(u) : r.tracking # None}

\* affected_tracking_numbers; in which order they are asked for is left open.
Affected(u) == {r.tracking : r \in Tracked(u)}

\* Mutant: the relation is only stored with a tracking that is new.
Links_OfNew(u) == {r \in Tracked(u) : db.row[r.tracking] = NoRow}

Links(u) == Tracked(u)

\* its first statement deletes the batch's errors, and from there on it alone writes:
\* orders, trackings and relations that are not there yet, and the batch's status.
StoreRows(t) ==
    LET u == session[t].upload IN
    /\ session[t].pc = "confirm" /\ lock = None
    /\ db' = [db EXCEPT
                 !.orders = db.orders \cup {r.order : r \in GoodRows(u)},
                 !.row = [n \in Numbers |->
                             IF db.row[n] = NoRow /\ n \in Affected(u) THEN Registered
                             ELSE db.row[n]],
                 !.links = db.links \cup Links(u),
                 !.confirmed = db.confirmed \cup {u}]
    /\ \E numbers \in SetToSeqs(Affected(u)) :
          \E s \in Refreshes([session[t] EXCEPT !.upload = None], numbers) : Becomes(t, s)
    /\ UNCHANGED <<lock, tx, run, requests, crashes>>

\* POST /trackings/refresh
RefreshSelected(t, numbers) ==
    /\ \E s \in Refreshes(Idle, numbers) : Request(t, s)
    /\ UNCHANGED <<db, lock, tx, run, crashes>>

Pollable == {n \in Numbers : db.row[n] # NoRow /\ db.row[n].status \in POLLABLE_STATUSES}

\* refresh_pollable_trackings keeps the rows it selects in memory.
RefreshPollable(s) ==
    LET r == [s EXCEPT !.memory = [n \in Numbers |->
                                      IF n \in Pollable THEN Loaded(db.row[n]) ELSE Unloaded]] IN
    UNION {Refreshes(r, numbers) : numbers \in SetToSeqs(Pollable)}

\* POST /trackings/refresh-all
RefreshAll(t) ==
    /\ \E s \in RefreshPollable(Idle) : Request(t, s)
    /\ UNCHANGED <<db, lock, tx, run, crashes>>

\* polling_job: the run's row is committed first.
Poll(t) ==
    /\ lock = None
    /\ Request(t, [Idle EXCEPT !.pc = "poll", !.polls = TRUE])
    /\ run' = [run EXCEPT ![t] = "running"]
    /\ UNCHANGED <<db, lock, tx, crashes>>

\* _is_due_for_polling compares last_queried_at as SQLite gives it back, without a time
\* zone, with a cutoff in UTC: a TypeError, unless the tracking was never queried.
DueCheckRaises == \E n \in Pollable : db.row[n].queried

SelectDue(t) ==
    /\ session[t].pc = "poll"
    /\ IF DueCheckRaises
       THEN /\ lock = None
            /\ run' = [run EXCEPT ![t] = "failed"]
            /\ Becomes(t, Idle)
       ELSE /\ \E s \in RefreshPollable(session[t]) : Becomes(t, s)
            /\ UNCHANGED run
    /\ UNCHANGED <<db, lock, tx, requests, crashes>>

-----------------------------------------------------------------------------
(* A batch *)

InBatch(t, label) == session[t].pc = label
Number(t) == Head(session[t].left)
Done(s) == [s EXCEPT !.pc = "each", !.left = Tail(s.left)]

\* search_routes and extract_route_payload: an answer, or an error. What the answer
\* says of a number is chosen below, when the code comes to it.
Ask(t) ==
    /\ InBatch(t, "ask")
    /\ \E label \in {"each", "failed"} : Becomes(t, [session[t] EXCEPT !.pc = label])
    /\ UNCHANGED <<db, lock, tx, run, requests, crashes>>

\* SELECT a tracking: one in memory is left as it is, one that is not there is None.
Select(s, view, n) ==
    IF s.memory[n] # Unloaded /\ s.memory[n].base # NoRow THEN s.memory[n]
    ELSE IF view.row[n] # NoRow THEN Loaded(view.row[n])
    ELSE Unloaded

\* The session once it has the row in memory, or a new one. A new one that was not
\* flushed is not found again, and clashes when it is.
Holding(s, view, n) ==
    [s EXCEPT !.memory[n] = IF Select(s, view, n) = Unloaded THEN Created(Registered)
                            ELSE Select(s, view, n),
              !.clash = s.clash \/ (s.memory[n] # Unloaded /\ s.memory[n].base = NoRow)]

\* The session with a new row, whatever has become of the table since it looked.
Inserting(s, n) ==
    [s EXCEPT !.memory[n] = Created(Registered),
              !.clash = s.clash \/ s.memory[n] # Unloaded]

Set(s, n, row) == [s EXCEPT !.memory[n] = [base |-> s.memory[n].base, work |-> row]]

Emptied(row, reason) ==
    [row EXCEPT !.status = IF reason = None THEN "REGISTERED" ELSE "QUERY_UNAVAILABLE",
                !.code = reason, !.error = reason, !.queried = TRUE, !.terminal = FALSE]

\* _record_empty_route: SF lists no route of the number, and may say why.
RecordEmptyRoute(t) ==
    /\ InBatch(t, "each") /\ session[t].left # <<>>
    /\ \E reason \in {None, Reason} :
          LET n == Number(t)
              s == Holding(session[t], View(t), n)
          IN  Becomes(t, Done(Set(s, n, Emptied(s.memory[n].work, reason))))
    /\ UNCHANGED <<db, lock, tx, run, requests, crashes>>

\* _apply_route_response selects the tracking;
SelectTracking(t) ==
    LET s == session[t]
        n == Number(t) IN
    /\ InBatch(t, "each") /\ s.left # <<>>
    /\ Becomes(t, IF Select(s, View(t), n) # Unloaded
                  THEN [Holding(s, View(t), n) EXCEPT !.pc = "events"]
                  ELSE [s EXCEPT !.pc = "insert"])
    /\ UNCHANGED <<db, lock, tx, run, requests, crashes>>

\* one that it did not find it inserts with a flush, though another session may have by now;
InsertTracking(t) ==
    LET s == Inserting(session[t], Number(t)) IN
    /\ InBatch(t, "insert") /\ MayWrite(t)
    /\ IF Conflict(View(t), s) THEN Raise(t) ELSE
          /\ lock' = t
          /\ tx' = Written(View(t), s)
          /\ Becomes(t, [Flushed(s) EXCEPT !.pc = "events"])
          /\ UNCHANGED <<db, run>>
    /\ UNCHANGED <<requests, crashes>>

\* selects each listed event, and adds those that are not stored, twice what is listed
\* twice; or comes to a route that it cannot read;
SelectEvents(t) ==
    /\ InBatch(t, "events")
    /\ \E events \in Routes, twice \in BOOLEAN :
          LET s == session[t]
              listed == {<<Number(t), e>> : e \in events}
              new == {a \in listed : a[2] \notin View(t).stored[Number(t)]}
          IN
          \/ Becomes(t, [s EXCEPT !.pc = "apply", !.adds = s.adds \cup new,
                                  !.clash = s.clash \/ (twice /\ new # {}),
                                  !.told = s.told \cup listed])
          \/ \E some \in SUBSET new :
                Becomes(t, [s EXCEPT !.pc = "failed", !.adds = s.adds \cup some])
    /\ UNCHANGED <<db, lock, tx, run, requests, crashes>>

Applied(e) ==
    [status |-> MapStatus[e].status, code |-> e, event |-> e, error |-> None,
     terminal |-> MapStatus[e].terminal, queried |-> TRUE]

\* Mutant: the latest event of the answer, not of all that is stored.
LatestEvent_OfReply(view, t) == Max({a[2] : a \in {b \in session[t].told : b[1] = Number(t)}})

LatestEvent(view, t) == Max(view.stored[Number(t)])

\* flushes, selects the latest event, and takes the tracking's columns from it.
ApplyLatestEvent(t) ==
    LET n == Number(t)
        s == Flushed(session[t])
        latest == LatestEvent(Written(View(t), session[t]), t)
    IN
    /\ InBatch(t, "apply")
    /\ FlushThen(t, Done(Set(s, n, Applied(latest))))
    /\ UNCHANGED <<requests, crashes>>

FailedRow(row) == [row EXCEPT !.status = "QUERY_FAILED", !.error = Failure,
                              !.queried = TRUE, !.terminal = FALSE]

Failed(s, view, n) ==
    LET r == Holding(s, view, n) IN Set(r, n, FailedRow(r.memory[n].work))

\* Every number of the batch has failed.
AllFailed(s, view) ==
    [s EXCEPT !.pc = "each", !.left = <<>>,
              !.memory = [n \in Numbers |-> IF n \in ToSet(s.batch) THEN Failed(s, view, n).memory[n]
                                            ELSE s.memory[n]],
              !.clash = s.clash \/ \E n \in ToSet(s.batch) : Failed(s, view, n).clash]

\* Mutant: the handler begins with a rollback.
RecordFailures_Rollback(t) ==
    LET s == [session[t] EXCEPT !.adds = {}, !.clash = FALSE, !.memory = Idle.memory] IN
    /\ InBatch(t, "failed")
    /\ Becomes(t, AllFailed(s, db))
    /\ lock' = IF lock = t THEN None ELSE lock
    /\ tx' = IF lock = t THEN None ELSE tx
    /\ UNCHANGED <<db, run, requests, crashes>>

\* The except clauses: every number of the batch has failed, whatever became of it.
RecordFailures(t) ==
    /\ InBatch(t, "failed")
    /\ Becomes(t, AllFailed(session[t], View(t)))
    /\ UNCHANGED <<db, lock, tx, run, requests, crashes>>

\* The batch is committed; the rows in memory expire.
CommitBatch(t) ==
    LET s == session[t] IN
    /\ InBatch(t, "each") /\ s.left = <<>> /\ MayWrite(t)
    /\ IF Conflict(View(t), s) THEN Raise(t) ELSE
          /\ db' = Written(View(t), s)
          /\ lock' = None /\ tx' = None
          /\ Becomes(t, NextBatch([s EXCEPT !.adds = {}, !.memory = Idle.memory], s.todo))
          /\ UNCHANGED <<run>>
    /\ UNCHANGED <<requests, crashes>>

\* The request answers, and a polling run commits its counts.
Finish(t) ==
    /\ session[t].pc = "finish"
    /\ IF session[t].polls
       THEN lock = None /\ run' = [run EXCEPT ![t] = "completed"]
       ELSE UNCHANGED run
    /\ Becomes(t, Idle)
    /\ UNCHANGED <<db, lock, tx, requests, crashes>>

-----------------------------------------------------------------------------
\* The process is killed at work, and started again.
Crash ==
    /\ crashes < CRASHES
    /\ \E t \in Threads : session[t].pc # "idle"
    /\ crashes' = crashes + 1
    /\ session' = [t \in Threads |-> Idle]
    /\ lock' = None /\ tx' = None
    /\ UNCHANGED <<db, run, requests, overlapped>>

Step(t) ==
    \/ StoreRows(t) \/ SelectDue(t) \/ Ask(t)
    \/ RecordEmptyRoute(t) \/ SelectTracking(t) \/ InsertTracking(t)
    \/ SelectEvents(t) \/ ApplyLatestEvent(t)
    \/ RecordFailures(t) \/ CommitBatch(t) \/ Finish(t)

Start(t) ==
    \/ \E u \in Uploads : ConfirmBatch(t, u)
    \/ \E numbers \in Selections : RefreshSelected(t, numbers)
    \/ RefreshAll(t) \/ Poll(t)

Next == Crash \/ \E t \in Threads : Step(t) \/ Start(t)

Spec == Init /\ [][Next]_vars

\* Some thread that can go on does: SF answers or times out, and SQLite grants the lock
\* once it is free.
FairSpec == Spec /\ WF_vars(\E t \in Threads : Step(t))

-----------------------------------------------------------------------------
(* Properties *)

\* The types of all variables.
TypeOK ==
    /\ lock \in Threads \cup {None}
    /\ lock = None <=> tx = None
    /\ \A d \in {db, tx} \ {None} :
          /\ d.row \in [Numbers -> Row \cup {NoRow}]
          /\ d.stored \in [Numbers -> SUBSET Events]
          /\ d.confirmed \subseteq Uploads
    /\ run \in [Threads -> {"none", "running", "completed", "failed"}]
    /\ overlapped \subseteq Numbers
    /\ \A t \in Threads :
          lock = t => session[t].pc \in {"each", "insert", "events", "apply", "failed"}

\* An upload is stored whole or not at all, crashes and other sessions notwithstanding:
\* the orders and relations in the database are those of the confirmed uploads, none
\* missing, and the other end of every relation exists.
StoredWhole(d) ==
    /\ d.orders = UNION {{r.order : r \in GoodRows(u)} : u \in d.confirmed}
    /\ d.links = UNION {Tracked(u) : u \in d.confirmed}
    /\ \A r \in d.links : d.row[r.tracking] # NoRow

UploadsAreStoredWhole == StoredWhole(db)

Coherent(row, stored) ==
    \/ row = NoRow /\ stored = {}
    \/ row = Registered
    \/ stored # {} /\ row = Applied(Max(stored))
    \/ row = Emptied(row, None)
    \/ row = Emptied(row, Reason)
    \/ row = FailedRow(row)

\* A tracking that only ever one session at a time has had in memory is what one
\* answer of SF makes of it: all its columns from the latest stored event, or all from
\* an empty answer, or from a failure. (Sessions that overlap mix their columns.)
QuietRowsAreCoherent == \A n \in Numbers \ overlapped : Coherent(db.row[n], db.stored[n])

\* What a refresh is about to report as refreshed is stored: no later failure in the
\* batch, in this session or in another, takes the events back.
RefreshedMeansStored ==
    \A t \in Threads : session[t].pc = "finish" =>
        \A a \in session[t].told : a[2] \in db.stored[a[1]]

\* A scheduled poll never gives up before it asks SF for anything.
PollsAskSF == \A t \in Threads : run[t] # "failed"

\* Every request ends, with its session: none keeps the database from the others.
EverySessionEnds == <>[](lock = None /\ \A t \in Threads : session[t].pc = "idle")

-----------------------------------------------------------------------------
\* What is there at first was stored by sessions that did not overlap.
ASSUME EarlierAssumption ==
    \A d \in Earlier : /\ d \in Database /\ StoredWhole(d)
                       /\ \A n \in Numbers : Coherent(d.row[n], d.stored[n])
=============================================================================
