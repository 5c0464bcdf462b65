--------------------------- MODULE RuntimeShutdown ---------------------------
(***************************************************************************)
(* The browser-session runtime of the desktop app: RuntimeSessionStore,    *)
(* ShutdownCoordinator, the job activity it consults, and the threads that *)
(* drive them.                                                             *)
(*                                                                         *)
(*  - a HANDLER thread runs one `def` request handler of routers/runtime;  *)
(*  - LOOP is the event-loop thread: it runs the monitor, creates jobs and *)
(*    marks them failed, one at a time;                                    *)
(*  - the worker thread of a job (named by the job) marks it running and   *)
(*    completed, and runs the job-state callback.                          *)
(*                                                                         *)
(* A critical section of the coordinator touches one other shared object   *)
(* at most, under a leaf lock, so it is one atomic step; what the code     *)
(* does before taking the lock (reading the clock, reading the session     *)
(* count) is a step of its own.                                            *)
(***************************************************************************)
EXTENDS Integers, FiniteSets

CONSTANTS
    Sessions,             \* session ids uuid4 may hand out
    NoSession,            \* a thread that handles no session
    Jobs,                 \* Lite jobs; each names its worker thread too
    Handlers,             \* threads of the request-handler pool
    Loop,                 \* the event-loop thread
    GRACE,                \* runtime_shutdown_grace_seconds
    STALE,                \* runtime_session_stale_seconds
    MONITOR,              \* the monitor's interval
    STALL,                \* bound: how long one handler or evaluation lasts
    QUIET,                \* users send nothing from this time on
    HORIZON,              \* bound: the clock stops here
    AutoShutdownEnabled   \* runtime_auto_shutdown_enabled

Threads == Handlers \cup Jobs \cup {Loop}

NoTime == -1              \* Python's None, and "not in the store"
OptTime == Nat \cup {NoTime}

ASSUME ConfigAssumption ==
    /\ GRACE \in Nat /\ STALE \in Nat /\ MONITOR \in Nat
    /\ STALL \in Nat /\ QUIET \in Nat /\ HORIZON \in Nat
    /\ AutoShutdownEnabled \in BOOLEAN

ASSUME ThreadAssumption ==
    /\ Loop \notin Handlers \cup Jobs /\ Handlers \cap Jobs = {}
    /\ NoSession \notin Sessions

\* The only relation between the settings the safety argument needs: a grace
\* period outlasts two evaluations (30 s against handlers that take milliseconds).
ASSUME GraceAssumption == GRACE > 2 * STALL

VARIABLES
    clock,
    last_seen,            \* RuntimeSessionStore._sessions
    issued,               \* ids handed out so far
    shutting_down, shutdown_pending, shutdown_requested, shutdown_deadline,
    job_status,           \* LiteJobStore._jobs, as far as has_active_jobs sees it
    should_exit,          \* uvicorn's server.should_exit, set by request_shutdown
    stopped,              \* the server no longer answers
    last_maintenance,     \* when the monitor last woke
    pc, sess, at, has, began,   \* locals of the thread: where it is, its session
                                \* id, the clock it read, the has_sessions it
                                \* read, when it began
    confirmed,            \* history: when a start or heartbeat of the session,
                          \* still in the store, last went through in time
    alive_at,             \* history: last snapshot that said "not shutting down"
    left_at               \* history: when the last session left the store

flags == <<shutting_down, shutdown_pending, shutdown_requested, shutdown_deadline>>
server == <<should_exit, stopped>>
locals == <<pc, sess, at, has, began>>
history == <<confirmed, alive_at, left_at>>
vars == <<clock, last_seen, issued, flags, job_status, server,
          last_maintenance, locals, history>>

InStore(s) == last_seen[s] # NoTime
HasSessions == \E s \in Sessions : InStore(s)
Active(j) == job_status[j] \in {"queued", "running"}
HasActiveJobs == \E j \in Jobs : Active(j)
Idle(t) == pc[t] = "idle"

\* A request reaches the pool, or the loop turns to a new callback.
CanBegin(t) == Idle(t) /\ ~stopped

Init ==
    /\ clock = 0
    /\ last_seen = [s \in Sessions |-> NoTime]
    /\ issued = {}
    /\ shutting_down = FALSE /\ shutdown_pending = FALSE
    /\ shutdown_requested = FALSE /\ shutdown_deadline = NoTime
    /\ job_status = [j \in Jobs |-> "absent"]
    /\ should_exit = FALSE /\ stopped = FALSE
    /\ last_maintenance = NoTime
    /\ pc = [t \in Threads |-> "idle"]
    /\ sess = [t \in Threads |-> NoSession]
    /\ at = [t \in Threads |-> 0]
    /\ has = [t \in Threads |-> FALSE]
    /\ began = [t \in Threads |-> 0]
    /\ confirmed = [s \in Sessions |-> NoTime]
    /\ alive_at = NoTime
    /\ left_at = NoTime

-----------------------------------------------------------------------------
(* Control of a thread *)

\* The thread enters a call: it may read the clock as the call's first act.
Enter(t, label, s) ==
    /\ pc' = [pc EXCEPT ![t] = label]
    /\ sess' = [sess EXCEPT ![t] = s]
    /\ at' = [at EXCEPT ![t] = clock]
    /\ began' = [began EXCEPT ![t] = clock]
    /\ UNCHANGED has

Goto(t, label) ==
    /\ pc' = [pc EXCEPT ![t] = label]
    /\ UNCHANGED <<sess, at, has, began>>

\* The call returns; its locals are gone.
Return(t) ==
    /\ pc' = [pc EXCEPT ![t] = "idle"]
    /\ sess' = [sess EXCEPT ![t] = NoSession]
    /\ at' = [at EXCEPT ![t] = 0]
    /\ has' = [has EXCEPT ![t] = FALSE]
    /\ began' = [began EXCEPT ![t] = 0]

Then(t, continue, label) == IF continue THEN Goto(t, label) ELSE Return(t)

-----------------------------------------------------------------------------
(* POST /runtime/session/start *)

\* RuntimeSessionStore.start draws a new id and reads the clock...
StartBegin(h, s) ==
    /\ CanBegin(h) /\ clock < QUIET
    /\ s \notin issued
    /\ issued' = issued \cup {s}
    /\ Enter(h, "start_put", s)
    /\ UNCHANGED <<clock, last_seen, flags, job_status, server,
                   last_maintenance, history>>

\* ... and stores the record under the lock.
StartPut(h) ==
    /\ pc[h] = "start_put"
    /\ last_seen' = [last_seen EXCEPT ![sess[h]] = at[h]]
    /\ Then(h, AutoShutdownEnabled, "start_cancel")
    /\ UNCHANGED <<clock, issued, flags, job_status, server,
                   last_maintenance, history>>

\* A slip: the schedule's deadline is cleared, the schedule is not.
CancelShutdown_KeepsSchedule ==
    IF (shutting_down \/ shutdown_pending) /\ ~shutdown_requested
    THEN /\ shutdown_pending' = FALSE
         /\ shutdown_deadline' = NoTime
         /\ UNCHANGED <<shutting_down, shutdown_requested>>
    ELSE UNCHANGED flags

CancelShutdown ==
    IF (shutting_down \/ shutdown_pending) /\ ~shutdown_requested
    THEN /\ shutting_down' = FALSE
         /\ shutdown_pending' = FALSE
         /\ shutdown_deadline' = NoTime
         /\ UNCHANGED shutdown_requested
    ELSE UNCHANGED flags

\* History only: the call went through before any request of a shutdown, and
\* its session is still stored.
Confirm(s) ==
    /\ confirmed' = IF ~shutdown_requested /\ InStore(s)
                    THEN [confirmed EXCEPT ![s] = clock] ELSE confirmed
    /\ UNCHANGED <<alive_at, left_at>>

StartCancel(h) ==
    /\ pc[h] = "start_cancel"
    /\ CancelShutdown
    /\ Confirm(sess[h])
    /\ Return(h)
    /\ UNCHANGED <<clock, last_seen, issued, job_status, server,
                   last_maintenance>>

-----------------------------------------------------------------------------
(* POST /runtime/session/heartbeat *)

\* A tab knows the id its start was answered with, also after it was dropped.
Known(s) == s \in issued /\ \A h \in Handlers :
                ~(pc[h] \in {"start_put", "start_cancel"} /\ sess[h] = s)

HeartbeatBegin(h, s) ==
    /\ CanBegin(h) /\ clock < QUIET
    /\ Known(s)
    /\ Enter(h, "beat_put", s)
    /\ UNCHANGED <<clock, last_seen, issued, flags, job_status, server,
                   last_maintenance, history>>

\* A slip: the heartbeat is answered but last_seen_at is not updated.
HeartbeatPut_NotStored(h) ==
    /\ pc[h] = "beat_put"
    /\ IF InStore(sess[h])
       THEN Goto(h, IF AutoShutdownEnabled THEN "beat_cancel" ELSE "snapshot")
       ELSE Return(h)
    /\ UNCHANGED <<clock, last_seen, issued, flags, job_status, server,
                   last_maintenance, history>>

\* An unknown session is answered 404.
HeartbeatPut(h) ==
    /\ pc[h] = "beat_put"
    /\ IF InStore(sess[h])
       THEN /\ last_seen' = [last_seen EXCEPT ![sess[h]] = at[h]]
            /\ Goto(h, IF AutoShutdownEnabled THEN "beat_cancel" ELSE "snapshot")
       ELSE /\ UNCHANGED last_seen
            /\ Return(h)
    /\ UNCHANGED <<clock, issued, flags, job_status, server,
                   last_maintenance, history>>

HeartbeatCancel(h) ==
    /\ pc[h] = "beat_cancel"
    /\ CancelShutdown
    /\ Confirm(sess[h])
    /\ Goto(h, "snapshot")
    /\ UNCHANGED <<clock, last_seen, issued, job_status, server,
                   last_maintenance>>

\* A slip: the answer only tells of a shutdown already requested.
Snapshot_OnlyRequested(h) ==
    /\ pc[h] = "snapshot"
    /\ alive_at' = IF shutdown_requested THEN alive_at ELSE clock
    /\ Return(h)
    /\ UNCHANGED <<clock, last_seen, issued, flags, job_status, server,
                   last_maintenance, confirmed, left_at>>

\* The answer: shutting_down is the disjunction of the three flags.
Snapshot(h) ==
    /\ pc[h] = "snapshot"
    /\ alive_at' = IF shutting_down \/ shutdown_pending \/ shutdown_requested
                   THEN alive_at ELSE clock
    /\ Return(h)
    /\ UNCHANGED <<clock, last_seen, issued, flags, job_status, server,
                   last_maintenance, confirmed, left_at>>

-----------------------------------------------------------------------------
(* Sessions leave the store *)

Drop(S) ==
    /\ last_seen' = [s \in Sessions |-> IF s \in S THEN NoTime ELSE last_seen[s]]
    /\ confirmed' = [s \in Sessions |-> IF s \in S THEN NoTime ELSE confirmed[s]]
    /\ left_at' = IF HasSessions /\ ~HasSessions' THEN clock ELSE left_at
    /\ UNCHANGED alive_at

(* POST /runtime/session/end *)

EndSession(h, s) ==
    /\ CanBegin(h) /\ clock < QUIET
    /\ Known(s)
    /\ Drop({s})
    /\ IF InStore(s) /\ AutoShutdownEnabled
       THEN Enter(h, "has_sessions", NoSession)
       ELSE UNCHANGED locals
    /\ UNCHANGED <<clock, issued, flags, job_status, server,
                   last_maintenance>>

-----------------------------------------------------------------------------
(* ShutdownCoordinator._evaluate *)

\* monitor: run_maintenance, which computes stale_before first.
\* It wakes first at startup, then MONITOR after the last time it was done.
MaintenanceBegin ==
    /\ CanBegin(Loop)
    /\ last_maintenance = NoTime \/ clock - last_maintenance >= MONITOR
    /\ last_maintenance' = clock
    /\ IF AutoShutdownEnabled
       THEN Enter(Loop, "cleanup_stale", NoSession)
       ELSE UNCHANGED locals
    /\ UNCHANGED <<clock, last_seen, issued, flags, job_status, server,
                   history>>

\* A slip: the comparison turned round.
StaleFor_Reversed(t) == {s \in Sessions : InStore(s) /\ at[t] <= last_seen[s] - STALE}

\* Sessions not seen since at - STALE, read when the maintenance began.
StaleFor(t) == {s \in Sessions : InStore(s) /\ last_seen[s] <= at[t] - STALE}

CleanupStale(t) ==
    /\ pc[t] = "cleanup_stale"
    /\ Drop(StaleFor(t))
    /\ Goto(t, "has_sessions")
    /\ UNCHANGED <<clock, issued, flags, job_status, server,
                   last_maintenance>>

ReadHasSessions(t) ==
    /\ pc[t] = "has_sessions"
    /\ has' = [has EXCEPT ![t] = HasSessions]
    /\ pc' = [pc EXCEPT ![t] = "read_now"]
    /\ UNCHANGED <<clock, last_seen, issued, flags, job_status, server,
                   last_maintenance, sess, at, began, history>>

ReadNow(t) ==
    /\ pc[t] = "read_now"
    /\ at' = [at EXCEPT ![t] = clock]
    /\ pc' = [pc EXCEPT ![t] = "decide"]
    /\ UNCHANGED <<clock, last_seen, issued, flags, job_status, server,
                   last_maintenance, sess, has, began, history>>

\* The critical section decides from what the thread read before the lock.
Scheduled == shutting_down \/ shutdown_pending
\* A slip: a schedule alone is enough.
GraceOver_Ignored(t) == TRUE

GraceOver(t) == shutdown_deadline = NoTime \/ at[t] >= shutdown_deadline

Decide(t) == pc[t] = "decide" /\
    UNCHANGED <<clock, last_seen, issued, job_status, server,
                last_maintenance, history>>

AlreadyRequested(t) ==
    /\ Decide(t)
    /\ shutdown_requested
    /\ Return(t) /\ UNCHANGED flags

\* A slip: sessions are seen, the schedule is left standing.
SessionRestored_NoCancel(t) ==
    /\ Decide(t)
    /\ ~shutdown_requested /\ has[t]
    /\ Return(t) /\ UNCHANGED flags

SessionRestored(t) ==
    /\ Decide(t)
    /\ ~shutdown_requested /\ has[t]
    /\ CancelShutdown
    /\ Return(t)

\* A slip: the grace period subtracted.
Schedule_WrongSign(t) ==
    /\ Decide(t)
    /\ ~shutdown_requested /\ ~has[t] /\ ~Scheduled
    /\ shutting_down' = TRUE
    /\ shutdown_deadline' = at[t] - GRACE
    /\ UNCHANGED <<shutdown_pending, shutdown_requested>>
    /\ Return(t)

Schedule(t) ==
    /\ Decide(t)
    /\ ~shutdown_requested /\ ~has[t] /\ ~Scheduled
    /\ shutting_down' = TRUE
    /\ shutdown_deadline' = at[t] + GRACE
    /\ UNCHANGED <<shutdown_pending, shutdown_requested>>
    /\ Return(t)

StillInGrace(t) ==
    /\ Decide(t)
    /\ ~shutdown_requested /\ ~has[t] /\ Scheduled
    /\ ~GraceOver(t)
    /\ Return(t) /\ UNCHANGED flags

DeferForJobs(t) ==
    /\ Decide(t)
    /\ ~shutdown_requested /\ ~has[t] /\ Scheduled
    /\ GraceOver(t) /\ HasActiveJobs
    /\ shutdown_pending' = TRUE
    /\ UNCHANGED <<shutting_down, shutdown_requested, shutdown_deadline>>
    /\ Return(t)

\* A slip: no look at shutdown_requested under the lock.
RequestShutdown_Again(t) ==
    /\ Decide(t)
    /\ ~has[t] /\ Scheduled
    /\ GraceOver(t) /\ ~HasActiveJobs
    /\ shutdown_requested' = TRUE
    /\ shutting_down' = TRUE
    /\ shutdown_pending' = FALSE
    /\ shutdown_deadline' = NoTime
    /\ Goto(t, "request")

RequestShutdown(t) ==
    /\ Decide(t)
    /\ ~shutdown_requested /\ ~has[t] /\ Scheduled
    /\ GraceOver(t) /\ ~HasActiveJobs
    /\ shutdown_requested' = TRUE
    /\ shutting_down' = TRUE
    /\ shutdown_pending' = FALSE
    /\ shutdown_deadline' = NoTime
    /\ Goto(t, "request")

\* Outside the lock: the launcher's callback sets server.should_exit.
CallRequestShutdown(t) ==
    /\ pc[t] = "request"
    /\ should_exit' = TRUE
    /\ Return(t)
    /\ UNCHANGED <<clock, last_seen, issued, flags, job_status, stopped,
                   last_maintenance, history>>

Evaluate(t) ==
    \/ CleanupStale(t)
    \/ ReadHasSessions(t)
    \/ ReadNow(t)
    \/ AlreadyRequested(t)
    \/ SessionRestored(t)
    \/ Schedule(t)
    \/ StillInGrace(t)
    \/ DeferForJobs(t)
    \/ RequestShutdown(t)
    \/ CallRequestShutdown(t)

-----------------------------------------------------------------------------
(* Jobs, as far as the coordinator is concerned: each change of state is   *)
(* followed, in the same thread, by on_job_state_changed.                  *)

SetJob(t, j, status) ==
    /\ job_status' = [job_status EXCEPT ![j] = status]
    /\ IF AutoShutdownEnabled
       THEN Enter(t, "has_sessions", NoSession)
       ELSE UNCHANGED locals
    /\ UNCHANGED <<clock, last_seen, issued, flags, server,
                   last_maintenance, history>>

CreateJob(j) ==
    /\ CanBegin(Loop) /\ clock < QUIET
    /\ job_status[j] = "absent"
    /\ SetJob(Loop, j, "queued")

MarkRunning(j) ==
    /\ Idle(j) /\ job_status[j] = "queued"
    /\ SetJob(j, j, "running")

\* A slip: the completion notifies nobody.
MarkCompleted_Silent(j) ==
    /\ Idle(j) /\ job_status[j] = "running"
    /\ job_status' = [job_status EXCEPT ![j] = "completed"]
    /\ UNCHANGED <<clock, last_seen, issued, flags, server,
                   last_maintenance, locals, history>>

MarkCompleted(j) ==
    /\ Idle(j) /\ job_status[j] = "running"
    /\ SetJob(j, j, "completed")

\* The worker raised; the awaiting task marks the job failed on the loop.
MarkFailed(j) ==
    /\ CanBegin(Loop) /\ Idle(j) /\ Active(j)
    /\ SetJob(Loop, j, "failed")

-----------------------------------------------------------------------------
(* uvicorn and the clock *)

\* uvicorn notices should_exit on the loop, lets the requests in flight finish
\* and stops the monitor.
StopServing ==
    /\ should_exit /\ ~stopped
    /\ Idle(Loop) /\ \A h \in Handlers : Idle(h)
    /\ stopped' = TRUE
    /\ UNCHANGED <<clock, last_seen, issued, flags, job_status, should_exit,
                   last_maintenance, locals, history>>

\* Time passes, but no call outlasts STALL and the monitor wakes in time.
Tick ==
    /\ clock < HORIZON /\ ~stopped
    /\ \A t \in Threads : ~Idle(t) => clock - began[t] < STALL
    /\ last_maintenance # NoTime
    /\ clock - last_maintenance < MONITOR + STALL
    /\ clock' = clock + 1
    /\ UNCHANGED <<last_seen, issued, flags, job_status, server,
                   last_maintenance, locals, history>>

HandlerStep(h) ==
    \/ StartPut(h) \/ StartCancel(h)
    \/ HeartbeatPut(h) \/ HeartbeatCancel(h) \/ Snapshot(h)

JobStep(j) == MarkRunning(j) \/ MarkCompleted(j) \/ MarkFailed(j)

User ==
    \/ \E h \in Handlers, s \in Sessions :
          StartBegin(h, s) \/ HeartbeatBegin(h, s) \/ EndSession(h, s)
    \/ \E j \in Jobs : CreateJob(j)

Next ==
    \/ User
    \/ \E h \in Handlers : HandlerStep(h)
    \/ \E t \in Threads : Evaluate(t)
    \/ \E j \in Jobs : JobStep(j)
    \/ MaintenanceBegin
    \/ StopServing
    \/ Tick

Spec == Init /\ [][Next]_vars

\* Threads are scheduled, jobs end (every call has a timeout and the retries
\* are counted), the monitor wakes; users owe nothing.
Fairness ==
    /\ \A h \in Handlers : WF_vars(HandlerStep(h))
    /\ \A t \in Threads : WF_vars(Evaluate(t))
    /\ \A j \in Jobs : WF_vars(JobStep(j))
    /\ WF_vars(MaintenanceBegin)
    /\ WF_vars(StopServing)
    /\ WF_vars(Tick)

FairSpec == Spec /\ Fairness

-----------------------------------------------------------------------------
(* Properties *)

Labels == {"idle", "start_put", "start_cancel", "beat_put", "beat_cancel",
           "snapshot", "cleanup_stale", "has_sessions", "read_now", "decide",
           "request"}

\* The types of all variables, and which thread can be where.
TypeOK ==
    /\ clock \in Nat /\ last_maintenance \in OptTime
    /\ last_seen \in [Sessions -> OptTime]
    /\ issued \subseteq Sessions
    /\ shutting_down \in BOOLEAN /\ shutdown_pending \in BOOLEAN
    /\ shutdown_requested \in BOOLEAN /\ shutdown_deadline \in OptTime
    /\ job_status \in [Jobs -> {"absent", "queued", "running", "completed", "failed"}]
    /\ should_exit \in BOOLEAN /\ stopped \in BOOLEAN
    /\ pc \in [Threads -> Labels]
    /\ sess \in [Threads -> Sessions \cup {NoSession}]
    /\ at \in [Threads -> Nat] /\ began \in [Threads -> Nat]
    /\ has \in [Threads -> BOOLEAN]
    /\ confirmed \in [Sessions -> OptTime]
    /\ alive_at \in OptTime /\ left_at \in OptTime

Requesting == ~shutdown_requested /\ shutdown_requested'

\* The app is never told to stop under a tab the server has accepted: whatever
\* an evaluation read before it took the lock, when it requests the shutdown no
\* stored session has had a start or a heartbeat go through.
NoShutdownUnderSession ==
    [][Requesting => \A s \in Sessions : confirmed[s] = NoTime]_vars

\* request_shutdown is called by one thread at most, and only once.
RequestedOnce ==
    /\ \A t, u \in Threads : pc[t] = "request" /\ pc[u] = "request" => t = u
    /\ \A t \in Threads : pc[t] = "request" => shutdown_requested /\ ~should_exit

\* A heartbeat answered shutting_down = false promises nearly a whole grace
\* period: the shutdown is not requested earlier than that after the answer.
AliveAnswerBuysGrace ==
    [][Requesting /\ alive_at # NoTime => clock >= alive_at + GRACE - STALL]_vars

\* Sessions are reaped only when silent: no start or heartbeat of a reaped
\* session went through in the last STALE seconds, give or take two calls.
ReapedOnlyWhenSilent ==
    [][\A s \in Sessions :
          /\ InStore(s) /\ ~InStore(s)' /\ pc[Loop] = "cleanup_stale"
          /\ pc'[Loop] # "cleanup_stale"
          => clock >= confirmed[s] + STALE - 2 * STALL]_vars

\* The last tab gets its grace period: a shutdown follows the departure of the
\* last session by a grace period, less the time a schedule that a late
\* evaluation made under that session can survive the monitor.
GraceAfterLastSession ==
    [][Requesting /\ left_at # NoTime
          => clock >= left_at + GRACE - MONITOR - 3 * STALL]_vars

\* A deferred shutdown is not forgotten: once no job is active, some thread is
\* on its way to evaluate, without waiting for the monitor.
DeferredShutdownHasADriver ==
    shutdown_pending /\ ~HasActiveJobs =>
        \E t \in Threads : pc[t] \in {"has_sessions", "read_now", "decide"}

\* What the log line "grace elapsed, active jobs=0" and the tests say of the
\* shutdown: when the server stops, no job is queued or running.
StopsWithoutActiveJobs == stopped => ~HasActiveJobs

\* When the users have gone silent the app ends: stale sessions are reaped, jobs
\* waited for, the grace period served, the server stopped.
EventuallyStops == <>stopped

-----------------------------------------------------------------------------
(* The coordinator implements the policy *)

Phase ==
    CASE stopped            -> "stopped"
      [] ~stopped /\ should_exit -> "exiting"
      [] ~should_exit /\ shutdown_requested -> "requested"
      [] ~shutdown_requested /\ shutdown_pending -> "deferred"
      [] ~shutdown_requested /\ ~shutdown_pending /\ shutting_down -> "grace"
      [] OTHER -> "running"

Policy == INSTANCE ShutdownPolicy WITH
              SLACK <- STALL, phase <- Phase, due <- shutdown_deadline

\* Every step of the threads is a step of the policy or changes none of it: a
\* request follows a schedule by a grace period, less the age of the clock the
\* scheduling evaluation had read, and is never revoked or repeated.
ImplementsPolicy == Policy!Spec

-----------------------------------------------------------------------------
(* Why it holds: the parts of an inductive invariant *)

Evaluating(t) == pc[t] \in {"read_now", "decide"}

\* Until the request, there is a deadline exactly while a shutdown is scheduled.
DeadlineIffScheduled ==
    ~shutdown_requested => (Scheduled <=> shutdown_deadline # NoTime)

\* What a busy thread read is no older than the call, the call than STALL.
FreshLocals ==
    \A t \in Threads : ~Idle(t) =>
        /\ began[t] <= at[t] /\ at[t] <= clock
        /\ clock <= began[t] + STALL

\* Confirmed sessions are stored.
ConfirmedStored ==
    \A s \in Sessions : confirmed[s] # NoTime => InStore(s) /\ confirmed[s] <= clock

\* An evaluation that saw no session began before any that is now confirmed.
BlindBeganBefore ==
    \A t \in Threads, s \in Sessions :
        Evaluating(t) /\ ~has[t] /\ confirmed[s] # NoTime => began[t] <= confirmed[s]

\* A schedule standing under a confirmed session was made by such an evaluation.
DeadlineAfterConfirmed ==
    \A s \in Sessions :
        ~shutdown_requested /\ shutdown_deadline # NoTime /\ confirmed[s] # NoTime
            => shutdown_deadline + STALL >= confirmed[s] + GRACE

\* A schedule is made after the last "not shutting down" answer.
DeadlineAfterAlive ==
    /\ alive_at <= clock
    /\ ~shutdown_requested /\ shutdown_deadline # NoTime /\ alive_at # NoTime
           => shutdown_deadline + STALL >= alive_at + GRACE

\* The end is reached in order.
ExitInOrder ==
    /\ stopped => should_exit
    /\ should_exit => shutdown_requested
    /\ shutdown_requested => shutdown_deadline = NoTime

\* The inductive invariant: each part is preserved with the help of the others.
CoordinatorInv ==
    /\ TypeOK
    /\ DeadlineIffScheduled
    /\ FreshLocals
    /\ ConfirmedStored
    /\ BlindBeganBefore
    /\ DeadlineAfterConfirmed
    /\ DeadlineAfterAlive
    /\ RequestedOnce
    /\ ExitInOrder

\* An evaluation under way that will not find the grace period unserved.
Driving(t) ==
    \/ pc[t] \in {"has_sessions", "read_now"}
    \/ pc[t] = "decide" /\ (has[t] \/ at[t] >= shutdown_deadline)

\* Why a deferred shutdown has a driver: it is deferred by a clock past the deadline,
\* and the last job ends later, in a thread whose clock is past it too.
DriverInv ==
    /\ \A t \in Threads :
          pc[t] \in {"cleanup_stale", "has_sessions", "read_now", "decide"}
              => AutoShutdownEnabled
    /\ shutdown_pending =>
          AutoShutdownEnabled /\ ~shutdown_requested /\ shutdown_deadline <= clock
    /\ shutdown_pending /\ ~HasActiveJobs => \E t \in Threads : Driving(t)
=============================================================================
