------------------------ MODULE RuntimeShutdownProofs ------------------------
(* Proofs about RuntimeShutdown, for every number of tabs, handler threads and *)
(* jobs, every setting with GRACE > 2 * STALL, and clocks of any length. One   *)
(* theorem, GraceAfterLastSessionCorrect, asks for STALE > 2 * STALL as well.  *)
EXTENDS RuntimeShutdown, TLAPS

USE DEF NoTime, OptTime

-----------------------------------------------------------------------------
(* The steps of Next, named, to split a proof on *)

\* The groups every step of Next belongs to; what creates or ends a job sets
\* its status and notifies.
JobChange == \E t \in Threads, j \in Jobs, x \in {"queued", "running", "completed", "failed"} :
                Idle(t) /\ SetJob(t, j, x)

\* Next, grouped by what a step touches, so that a proof has one case per group.
LEMMA NextCases ==
    Next => \/ \E h \in Handlers, s \in Sessions :
                  StartBegin(h, s) \/ HeartbeatBegin(h, s) \/ EndSession(h, s)
            \/ \E h \in Handlers : HandlerStep(h)
            \/ \E t \in Threads : Evaluate(t)
            \/ JobChange
            \/ MaintenanceBegin \/ StopServing \/ Tick
<1>1. User => \/ \E h \in Handlers, s \in Sessions :
                    StartBegin(h, s) \/ HeartbeatBegin(h, s) \/ EndSession(h, s)
              \/ JobChange
  BY DEF User, CreateJob, CanBegin, Threads, JobChange
<1>2. (\E j \in Jobs : JobStep(j)) => JobChange
  BY DEF JobStep, MarkRunning, MarkCompleted, MarkFailed, CanBegin, Threads, JobChange
<1>3. QED
  BY <1>1, <1>2 DEF Next

-----------------------------------------------------------------------------
(* Types *)

\* Every step keeps every variable in its type.
LEMMA TypeNext == TypeOK /\ Next => TypeOK'
<1> SUFFICES ASSUME TypeOK, Next PROVE TypeOK'
  OBVIOUS
<1> USE ConfigAssumption DEF TypeOK, Labels
<1>1. Loop \in Threads /\ Handlers \subseteq Threads /\ Jobs \subseteq Threads
  BY DEF Threads
<1>2. ASSUME NEW h \in Handlers, NEW s \in Sessions, StartBegin(h, s) PROVE TypeOK'
  BY <1>1, <1>2 DEF StartBegin, Enter, flags, server, history
<1>3. ASSUME NEW h \in Handlers, StartPut(h) PROVE TypeOK'
  <2>1. last_seen' \in [Sessions -> OptTime]
    <3>1. at[h] \in OptTime
      BY <1>1
    <3>2. QED
      BY <3>1, <1>3 DEF StartPut
  <2>2. (\E l \in Labels : Goto(h, l)) \/ Return(h)
    BY <1>3 DEF StartPut, Then
  <2>3. /\ pc' \in [Threads -> Labels]
        /\ sess' \in [Threads -> Sessions \cup {NoSession}]
        /\ at' \in [Threads -> Nat] /\ began' \in [Threads -> Nat]
        /\ has' \in [Threads -> BOOLEAN]
    <3>1. CASE Return(h)
      BY <3>1, <1>1 DEF Return
    <3>2. ASSUME NEW l \in Labels, Goto(h, l)
          PROVE  /\ pc' \in [Threads -> Labels]
                 /\ UNCHANGED <<sess, at, began, has>>
      BY <3>2, <1>1 DEF Goto
    <3>3. QED
      BY <2>2, <3>1, <3>2
  <2>4. QED
    BY <2>1, <2>3, <1>3 DEF StartPut, flags, server, history
<1>4. ASSUME NEW h \in Handlers, StartCancel(h) PROVE TypeOK'
  BY <1>1, <1>4 DEF StartCancel, CancelShutdown, Confirm, Return, flags, server
<1>5. ASSUME NEW h \in Handlers, NEW s \in Sessions, HeartbeatBegin(h, s) PROVE TypeOK'
  BY <1>1, <1>5 DEF HeartbeatBegin, Enter, flags, server, history
<1>6. ASSUME NEW h \in Handlers, HeartbeatPut(h) PROVE TypeOK'
  <2>1. last_seen' \in [Sessions -> OptTime]
    <3>1. at[h] \in OptTime
      BY <1>1
    <3>2. QED
      BY <3>1, <1>6 DEF HeartbeatPut
  <2>2. (\E l \in Labels : Goto(h, l)) \/ Return(h)
    BY <1>6 DEF HeartbeatPut, Then
  <2>3. /\ pc' \in [Threads -> Labels]
        /\ sess' \in [Threads -> Sessions \cup {NoSession}]
        /\ at' \in [Threads -> Nat] /\ began' \in [Threads -> Nat]
        /\ has' \in [Threads -> BOOLEAN]
    <3>1. CASE Return(h)
      BY <3>1, <1>1 DEF Return
    <3>2. ASSUME NEW l \in Labels, Goto(h, l)
          PROVE  /\ pc' \in [Threads -> Labels]
                 /\ UNCHANGED <<sess, at, began, has>>
      BY <3>2, <1>1 DEF Goto
    <3>3. QED
      BY <2>2, <3>1, <3>2
  <2>4. QED
    BY <2>1, <2>3, <1>6 DEF HeartbeatPut, flags, server, history
<1>7. ASSUME NEW h \in Handlers, HeartbeatCancel(h) PROVE TypeOK'
  BY <1>1, <1>7 DEF HeartbeatCancel, CancelShutdown, Confirm, Goto, flags, server
<1>8. ASSUME NEW h \in Handlers, Snapshot(h) PROVE TypeOK'
  BY <1>1, <1>8 DEF Snapshot, Return, flags, server
<1>9. ASSUME NEW h \in Handlers, NEW s \in Sessions, EndSession(h, s) PROVE TypeOK'
  BY <1>1, <1>9 DEF EndSession, Drop, Enter, flags, server, locals
<1>10. ASSUME MaintenanceBegin PROVE TypeOK'
  BY <1>1, <1>10 DEF MaintenanceBegin, Enter, flags, server, history, locals
<1>11. ASSUME NEW t \in Threads, CleanupStale(t) PROVE TypeOK'
  BY <1>11 DEF CleanupStale, Drop, Goto, flags, server
<1>12. ASSUME NEW t \in Threads, ReadHasSessions(t) PROVE TypeOK'
  BY <1>12 DEF ReadHasSessions, HasSessions, flags, server, history
<1>13. ASSUME NEW t \in Threads, ReadNow(t) PROVE TypeOK'
  BY <1>13 DEF ReadNow, flags, server, history
<1>14. ASSUME NEW t \in Threads, AlreadyRequested(t) PROVE TypeOK'
  BY <1>14 DEF AlreadyRequested, Decide, Return, flags, server, history
<1>15. ASSUME NEW t \in Threads, SessionRestored(t) PROVE TypeOK'
  BY <1>15 DEF SessionRestored, CancelShutdown, Decide, Return, flags, server, history
<1>16. ASSUME NEW t \in Threads, Schedule(t) PROVE TypeOK'
  BY <1>16 DEF Schedule, Decide, Return, server, history
<1>17. ASSUME NEW t \in Threads, StillInGrace(t) PROVE TypeOK'
  BY <1>17 DEF StillInGrace, Decide, Return, flags, server, history
<1>18. ASSUME NEW t \in Threads, DeferForJobs(t) PROVE TypeOK'
  BY <1>18 DEF DeferForJobs, Decide, Return, server, history
<1>19. ASSUME NEW t \in Threads, RequestShutdown(t) PROVE TypeOK'
  BY <1>19 DEF RequestShutdown, Decide, Goto, server, history
<1>20. ASSUME NEW t \in Threads, CallRequestShutdown(t) PROVE TypeOK'
  BY <1>20 DEF CallRequestShutdown, Return, flags, history
<1>21. ASSUME NEW t \in Threads, NEW j \in Jobs,
              NEW x \in {"queued", "running", "completed", "failed"}, SetJob(t, j, x)
       PROVE  TypeOK'
  BY <1>21 DEF SetJob, Enter, flags, server, history, locals
<1>22. ASSUME StopServing PROVE TypeOK'
  BY <1>22 DEF StopServing, flags, history, locals
<1>23. ASSUME Tick PROVE TypeOK'
  BY <1>23 DEF Tick, flags, server, history, locals
<1>24. QED
  <2> HIDE DEF TypeOK, Labels
  <2>1. ASSUME NEW h \in Handlers, HandlerStep(h) PROVE TypeOK'
    BY <2>1, <1>3, <1>4, <1>6, <1>7, <1>8 DEF HandlerStep
  <2>2. ASSUME NEW t \in Threads, Evaluate(t) PROVE TypeOK'
    BY <2>2, <1>11, <1>12, <1>13, <1>14, <1>15, <1>16, <1>17, <1>18, <1>19, <1>20
       DEF Evaluate
  <2>3. QED
    BY NextCases, <2>1, <2>2, <1>2, <1>5, <1>9, <1>10, <1>21, <1>22, <1>23 DEF JobChange

\* The variables have their types initially.
LEMMA InitTypeOK == Init => TypeOK
<1> SUFFICES ASSUME Init PROVE TypeOK
  OBVIOUS
<1>1. last_seen \in [Sessions -> OptTime] /\ confirmed \in [Sessions -> OptTime]
  BY DEF Init
<1>2. pc \in [Threads -> Labels]
  BY DEF Init, Labels
<1>3. QED
  BY <1>1, <1>2 DEF Init, TypeOK

\* Type correctness of the runtime: every variable keeps its type.
THEOREM TypeCorrect == Spec => []TypeOK
<1>1. TypeOK /\ UNCHANGED vars => TypeOK'
  BY DEF TypeOK, vars, flags, server, locals, history
<1>2. QED
  BY InitTypeOK, TypeNext, <1>1, PTL DEF Spec

-----------------------------------------------------------------------------
(* What a step does to one part of the state *)

Quiet == Labels \ {"read_now", "decide", "request"}

\* The locals of one thread change while the clock stands, or the clock ticks.
LocalsChange ==
    \/ UNCHANGED clock /\ UNCHANGED locals
    \/ UNCHANGED clock /\ \E t \in Threads :
          \/ \E l \in Quiet, s \in Sessions \cup {NoSession} : Enter(t, l, s)
          \/ \E l \in Quiet : ~Idle(t) /\ Goto(t, l)
          \/ Return(t) /\ (pc[t] = "request" => should_exit')
          \/ ReadHasSessions(t)
          \/ ReadNow(t)
          \/ RequestShutdown(t)
    \/ Tick

\* A step moves the locals of one thread at most, in one of the listed ways.
LEMMA LocalsNext == Next => LocalsChange
<1> SUFFICES ASSUME Next PROVE LocalsChange
  OBVIOUS
<1> USE DEF LocalsChange, Quiet, Labels
<1>1. Loop \in Threads /\ Handlers \subseteq Threads
  BY DEF Threads
<1>2. ASSUME NEW h \in Handlers, NEW s \in Sessions,
             StartBegin(h, s) \/ HeartbeatBegin(h, s) \/ EndSession(h, s)
      PROVE  LocalsChange
  BY <1>1, <1>2 DEF StartBegin, HeartbeatBegin, EndSession
<1>3. ASSUME NEW h \in Handlers, HandlerStep(h) PROVE LocalsChange
  <2>1. CASE StartPut(h)
    BY <1>1, <2>1 DEF StartPut, Then, Idle
  <2>2. CASE StartCancel(h)
    BY <1>1, <2>2 DEF StartCancel
  <2>3. CASE HeartbeatPut(h)
    BY <1>1, <2>3 DEF HeartbeatPut, Idle
  <2>4. CASE HeartbeatCancel(h)
    BY <1>1, <2>4 DEF HeartbeatCancel, Idle
  <2>5. CASE Snapshot(h)
    BY <1>1, <2>5 DEF Snapshot
  <2>6. QED
    BY <1>3, <2>1, <2>2, <2>3, <2>4, <2>5 DEF HandlerStep
<1>4. ASSUME NEW t \in Threads, Evaluate(t) PROVE LocalsChange
  <2>1. CASE CleanupStale(t)
    BY <2>1 DEF CleanupStale, Idle
  <2>2. CASE CallRequestShutdown(t)
    BY <2>2 DEF CallRequestShutdown
  <2>3. CASE \/ AlreadyRequested(t) \/ SessionRestored(t) \/ Schedule(t)
             \/ StillInGrace(t) \/ DeferForJobs(t)
    BY <2>3 DEF AlreadyRequested, SessionRestored, Schedule, StillInGrace, DeferForJobs,
                Decide
  <2>4. QED
    BY <1>4, <2>1, <2>2, <2>3 DEF Evaluate, ReadHasSessions, ReadNow, RequestShutdown, Decide
<1>5. ASSUME JobChange PROVE LocalsChange
  BY <1>5 DEF JobChange, SetJob
<1>6. ASSUME MaintenanceBegin \/ StopServing PROVE LocalsChange
  BY <1>1, <1>6 DEF MaintenanceBegin, StopServing
<1>7. QED
  BY NextCases, <1>2, <1>3, <1>4, <1>5, <1>6

\* The flags change under the coordinator's lock only.
FlagsChange ==
    \/ UNCHANGED flags
    \/ CancelShutdown
    \/ \E t \in Threads : Schedule(t) \/ DeferForJobs(t) \/ RequestShutdown(t)

\* The coordinator's flags change by a cancellation or by one of three decisions.
LEMMA FlagsNext == Next => FlagsChange
<1> USE DEF FlagsChange
<1>1. ASSUME NEW h \in Handlers, NEW s \in Sessions,
             StartBegin(h, s) \/ HeartbeatBegin(h, s) \/ EndSession(h, s)
      PROVE  FlagsChange
  BY <1>1 DEF StartBegin, HeartbeatBegin, EndSession
<1>2. ASSUME NEW h \in Handlers, HandlerStep(h) PROVE FlagsChange
  BY <1>2 DEF HandlerStep, StartPut, StartCancel, HeartbeatPut, HeartbeatCancel, Snapshot
<1>3. ASSUME NEW t \in Threads, Evaluate(t) PROVE FlagsChange
  BY <1>3 DEF Evaluate, CleanupStale, ReadHasSessions, ReadNow, AlreadyRequested,
              SessionRestored, StillInGrace, CallRequestShutdown
<1>4. JobChange \/ MaintenanceBegin \/ StopServing \/ Tick => FlagsChange
  BY DEF JobChange, SetJob, MaintenanceBegin, StopServing, Tick
<1>5. QED
  BY NextCases, <1>1, <1>2, <1>3, <1>4

\* A session is confirmed by a call that has just cancelled the shutdown, and is
\* dropped from the history as it is dropped from the store.
StoreChange ==
    \/ UNCHANGED <<last_seen, confirmed>>
    \/ \E s \in Sessions \cup {NoSession} : 
          Confirm(s) /\ CancelShutdown /\ UNCHANGED <<clock, last_seen>>
    \/ \E S \in SUBSET Sessions : Drop(S)
    \/ \E t \in Threads, s \in Sessions \cup {NoSession} :
          last_seen' = [last_seen EXCEPT ![s] = at[t]] /\ UNCHANGED confirmed

\* The store changes by a put, a confirmation or a drop, never otherwise.
LEMMA StoreNext == TypeOK /\ Next => StoreChange
<1> SUFFICES ASSUME TypeOK, Next PROVE StoreChange
  OBVIOUS
<1> USE DEF StoreChange
<1>0. /\ Loop \in Threads /\ Handlers \subseteq Threads
      /\ \A t \in Threads : sess[t] \in Sessions \cup {NoSession}
  BY DEF Threads, TypeOK
<1>1. ASSUME NEW h \in Handlers, NEW s \in Sessions,
             StartBegin(h, s) \/ HeartbeatBegin(h, s) \/ EndSession(h, s)
      PROVE  StoreChange
  <2>1. CASE EndSession(h, s)
    BY <2>1 DEF EndSession
  <2>2. QED
    BY <1>1, <2>1 DEF StartBegin, HeartbeatBegin, history
<1>2. ASSUME NEW h \in Handlers, HandlerStep(h) PROVE StoreChange
  <2>1. CASE StartPut(h) \/ HeartbeatPut(h)
    BY <1>0, <2>1 DEF StartPut, HeartbeatPut, history
  <2>2. CASE StartCancel(h) \/ HeartbeatCancel(h)
    BY <1>0, <2>2 DEF StartCancel, HeartbeatCancel
  <2>3. CASE Snapshot(h)
    BY <2>3 DEF Snapshot
  <2>4. QED
    BY <1>2, <2>1, <2>2, <2>3 DEF HandlerStep
<1>3. ASSUME NEW t \in Threads, Evaluate(t) PROVE StoreChange
  <2>1. CASE CleanupStale(t)
    <3>1. StaleFor(t) \in SUBSET Sessions
      BY DEF StaleFor
    <3>2. QED
      BY <2>1, <3>1 DEF CleanupStale
  <2>2. CASE ~CleanupStale(t)
    BY <1>3, <2>2 DEF Evaluate, ReadHasSessions, ReadNow, AlreadyRequested, SessionRestored,
                Schedule, StillInGrace, DeferForJobs, RequestShutdown,
                CallRequestShutdown, Decide, history
  <2>3. QED
    BY <2>1, <2>2
<1>4. JobChange \/ MaintenanceBegin \/ StopServing \/ Tick => StoreChange
  BY DEF JobChange, SetJob, MaintenanceBegin, StopServing, Tick, history
<1>5. QED
  BY NextCases, <1>1, <1>2, <1>3, <1>4

-----------------------------------------------------------------------------
(* Each part of the inductive invariant is preserved *)

\* There is a deadline exactly while a shutdown is scheduled.
LEMMA DeadlineIffScheduledNext ==
    TypeOK /\ DeadlineIffScheduled /\ Next => DeadlineIffScheduled'
<1> SUFFICES ASSUME TypeOK, DeadlineIffScheduled, FlagsChange PROVE DeadlineIffScheduled'
  BY FlagsNext
<1> USE DEF DeadlineIffScheduled, Scheduled
<1>1. CASE UNCHANGED flags \/ CancelShutdown
  BY <1>1 DEF CancelShutdown, flags
<1>2. ASSUME NEW t \in Threads, Schedule(t) PROVE DeadlineIffScheduled'
  BY <1>2, ConfigAssumption DEF Schedule, TypeOK
<1>3. ASSUME NEW t \in Threads, DeferForJobs(t) \/ RequestShutdown(t)
      PROVE  DeadlineIffScheduled'
  BY <1>3 DEF DeferForJobs, RequestShutdown
<1>4. QED
  BY <1>1, <1>2, <1>3 DEF FlagsChange

\* What busy threads read is fresh.
LEMMA FreshLocalsNext == TypeOK /\ FreshLocals /\ Next => FreshLocals'
<1> SUFFICES ASSUME TypeOK, FreshLocals, LocalsChange, NEW u \in Threads, ~Idle(u)'
             PROVE  /\ began'[u] <= at'[u] /\ at'[u] <= clock'
                    /\ clock' <= began'[u] + STALL
  BY LocalsNext DEF FreshLocals
<1> USE ConfigAssumption DEF FreshLocals, Idle
<1>0. /\ clock \in Nat /\ at[u] \in Nat /\ began[u] \in Nat
      /\ u \in DOMAIN pc /\ u \in DOMAIN at /\ u \in DOMAIN began
  BY DEF TypeOK
<1>1. CASE UNCHANGED <<clock, locals>>
  BY <1>0, <1>1 DEF locals
<1>2. ASSUME NEW t \in Threads, NEW l \in Quiet, NEW s \in Sessions \cup {NoSession},
             Enter(t, l, s), UNCHANGED clock
      PROVE  began'[u] <= at'[u] /\ at'[u] <= clock' /\ clock' <= began'[u] + STALL
  BY <1>0, <1>2 DEF Enter
<1>3. ASSUME NEW t \in Threads, NEW l \in Quiet, ~Idle(t), Goto(t, l), UNCHANGED clock
      PROVE  began'[u] <= at'[u] /\ at'[u] <= clock' /\ clock' <= began'[u] + STALL
  BY <1>0, <1>3 DEF Goto
<1>4. ASSUME NEW t \in Threads, Return(t), UNCHANGED clock
      PROVE  began'[u] <= at'[u] /\ at'[u] <= clock' /\ clock' <= began'[u] + STALL
  BY <1>0, <1>4 DEF Return
<1>5. ASSUME NEW t \in Threads, ReadHasSessions(t) \/ ReadNow(t) \/ RequestShutdown(t)
      PROVE  began'[u] <= at'[u] /\ at'[u] <= clock' /\ clock' <= began'[u] + STALL
  BY <1>0, <1>5 DEF ReadHasSessions, ReadNow, RequestShutdown, Decide, Goto
<1>6. CASE Tick
  BY <1>0, <1>6 DEF Tick, locals
<1>7. QED
  BY <1>1, <1>2, <1>3, <1>4, <1>5, <1>6 DEF LocalsChange

\* Confirmed sessions are stored.
LEMMA ConfirmedStoredNext == TypeOK /\ ConfirmedStored /\ Next => ConfirmedStored'
<1> SUFFICES ASSUME TypeOK, TypeOK', ConfirmedStored, StoreChange, clock' >= clock
             PROVE  ConfirmedStored'
  BY StoreNext, LocalsNext, TypeNext DEF LocalsChange, Tick, TypeOK
<1> USE DEF ConfirmedStored, InStore
<1>1. CASE UNCHANGED <<last_seen, confirmed>>
  BY <1>1 DEF TypeOK
<1>2. ASSUME NEW s \in Sessions \cup {NoSession}, Confirm(s), UNCHANGED last_seen
      PROVE  ConfirmedStored'
  BY <1>2 DEF Confirm, TypeOK
<1>3. ASSUME NEW S \in SUBSET Sessions, Drop(S) PROVE ConfirmedStored'
  BY <1>3 DEF Drop, TypeOK
<1>4. ASSUME NEW t \in Threads, NEW s \in Sessions \cup {NoSession},
             last_seen' = [last_seen EXCEPT ![s] = at[t]], UNCHANGED confirmed
      PROVE  ConfirmedStored'
  BY <1>4 DEF TypeOK
<1>5. QED
  BY <1>1, <1>2, <1>3, <1>4 DEF StoreChange

\* A blind evaluation began before any session that is confirmed now.
LEMMA BlindBeganBeforeNext ==
    /\ TypeOK /\ FreshLocals /\ ConfirmedStored /\ BlindBeganBefore
    /\ Next
    => BlindBeganBefore'
<1> SUFFICES ASSUME TypeOK, TypeOK', FreshLocals', ConfirmedStored, BlindBeganBefore,
                    LocalsChange, StoreChange,
                    NEW u \in Threads, NEW s \in Sessions,
                    Evaluating(u)', ~has'[u], confirmed'[s] # NoTime
             PROVE  began'[u] <= confirmed'[s]
  BY LocalsNext, StoreNext, TypeNext, FreshLocalsNext DEF BlindBeganBefore
<1>0. began'[u] <= clock' /\ began'[u] \in Nat /\ clock' \in Nat /\ at'[u] \in Nat
  BY DEF FreshLocals, Evaluating, Idle, TypeOK
<1>1. confirmed'[s] = confirmed[s] \/ confirmed'[s] = clock'
  BY DEF StoreChange, Confirm, Drop, TypeOK
<1>2. CASE confirmed'[s] = clock'
  BY <1>0, <1>2
<1>3. CASE confirmed'[s] = confirmed[s]
  <2>1. CASE UNCHANGED locals \/ Tick
    BY <1>3, <2>1 DEF locals, Tick, BlindBeganBefore, Evaluating
  <2>2. ASSUME NEW t \in Threads,
               \/ \E l \in Quiet, x \in Sessions \cup {NoSession} : Enter(t, l, x)
               \/ \E l \in Quiet : Goto(t, l)
               \/ Return(t)
               \/ RequestShutdown(t)
        PROVE  began'[u] <= confirmed'[s]
    BY <1>3, <2>2 DEF Enter, Goto, Return, RequestShutdown, Quiet, Labels, TypeOK,
                      BlindBeganBefore, Evaluating
  <2>3. ASSUME NEW t \in Threads, ReadHasSessions(t) PROVE began'[u] <= confirmed'[s]
    <3>1. HasSessions
      BY <1>3 DEF HasSessions, ConfirmedStored
    <3>2. QED
      BY <1>3, <2>3, <3>1 DEF ReadHasSessions, TypeOK, BlindBeganBefore, Evaluating
  <2>4. ASSUME NEW t \in Threads, ReadNow(t) PROVE began'[u] <= confirmed'[s]
    BY <1>3, <2>4 DEF ReadNow, TypeOK, BlindBeganBefore, Evaluating
  <2>5. QED
    BY <2>1, <2>2, <2>3, <2>4 DEF LocalsChange
<1>4. QED
  BY <1>1, <1>2, <1>3

\* The clock a deciding thread read is at most STALL old.
LEMMA DecideFresh ==
    ASSUME TypeOK, FreshLocals, NEW t \in Threads, Decide(t)
    PROVE  /\ at[t] \in Nat /\ clock \in Nat
           /\ at[t] <= clock /\ clock <= at[t] + STALL
           /\ clock <= began[t] + STALL
BY ConfigAssumption DEF FreshLocals, Decide, Idle, TypeOK

\* A schedule that stands under a confirmed session gives it nearly a grace period.
LEMMA DeadlineAfterConfirmedNext ==
    /\ TypeOK /\ DeadlineIffScheduled /\ FreshLocals /\ ConfirmedStored
    /\ DeadlineAfterConfirmed
    /\ Next
    => DeadlineAfterConfirmed'
<1> SUFFICES ASSUME TypeOK, DeadlineIffScheduled, FreshLocals, ConfirmedStored,
                    DeadlineAfterConfirmed, FlagsChange, StoreChange,
                    NEW s \in Sessions, ~shutdown_requested',
                    shutdown_deadline' # NoTime, confirmed'[s] # NoTime
             PROVE  shutdown_deadline' + STALL >= confirmed'[s] + GRACE
  BY FlagsNext, StoreNext DEF DeadlineAfterConfirmed
<1>1. ASSUME NEW t \in Threads, Schedule(t)
      PROVE  shutdown_deadline' + STALL >= confirmed'[s] + GRACE
  <2>1. confirmed' = confirmed /\ shutdown_deadline' = at[t] + GRACE /\ Decide(t)
    BY <1>1 DEF Schedule, Decide, history
  <2>2. confirmed[s] <= clock /\ confirmed[s] \in Nat
    BY <2>1 DEF ConfirmedStored, TypeOK
  <2>3. QED
    BY <2>1, <2>2, DecideFresh, ConfigAssumption
<1>2. CASE shutdown_deadline' = shutdown_deadline /\ confirmed'[s] = confirmed[s]
  <2>1. ~shutdown_requested
    BY DEF FlagsChange, CancelShutdown, Schedule, DeferForJobs, RequestShutdown, flags
  <2>2. QED
    BY <1>2, <2>1 DEF DeadlineAfterConfirmed
<1>3. confirmed'[s] = confirmed[s] \/ CancelShutdown
  BY DEF StoreChange, Drop, TypeOK
<1>4. CASE CancelShutdown
  <2>1. ~shutdown_requested
    BY <1>4 DEF CancelShutdown, flags
  <2>2. shutdown_deadline' = NoTime
    BY <1>4, <2>1 DEF CancelShutdown, flags, DeadlineIffScheduled, Scheduled
  <2>3. QED
    BY <2>2
<1>5. QED
  BY <1>1, <1>2, <1>3, <1>4 DEF FlagsChange, flags, DeferForJobs, RequestShutdown

\* The last answer changes with a snapshot only.
LEMMA AliveNext == Next => alive_at' = alive_at \/ \E h \in Handlers : Snapshot(h)
<1> SUFFICES ASSUME Next, ~\E h \in Handlers : Snapshot(h) PROVE alive_at' = alive_at
  OBVIOUS
<1>1. ASSUME NEW h \in Handlers, NEW s \in Sessions,
             StartBegin(h, s) \/ HeartbeatBegin(h, s) \/ EndSession(h, s)
      PROVE  alive_at' = alive_at
  BY <1>1 DEF StartBegin, HeartbeatBegin, EndSession, Drop, history
<1>2. ASSUME NEW h \in Handlers, HandlerStep(h) PROVE alive_at' = alive_at
  BY <1>2 DEF HandlerStep, StartPut, StartCancel, HeartbeatPut, HeartbeatCancel, Confirm,
              history
<1>3. ASSUME NEW t \in Threads, Evaluate(t) PROVE alive_at' = alive_at
  BY <1>3 DEF Evaluate, CleanupStale, Drop, ReadHasSessions, ReadNow, AlreadyRequested,
              SessionRestored, Schedule, StillInGrace, DeferForJobs, RequestShutdown,
              CallRequestShutdown, Decide, history
<1>4. JobChange \/ MaintenanceBegin \/ StopServing \/ Tick => alive_at' = alive_at
  BY DEF JobChange, SetJob, MaintenanceBegin, StopServing, Tick, history
<1>5. QED
  BY NextCases, <1>1, <1>2, <1>3, <1>4

\* A schedule is younger than the last "not shutting down" answer.
LEMMA DeadlineAfterAliveNext ==
    /\ TypeOK /\ DeadlineIffScheduled /\ FreshLocals /\ DeadlineAfterAlive
    /\ Next
    => DeadlineAfterAlive'
<1> SUFFICES ASSUME TypeOK, TypeOK', DeadlineIffScheduled, FreshLocals, DeadlineAfterAlive,
                    Next, FlagsChange
             PROVE  DeadlineAfterAlive'
  BY FlagsNext, TypeNext
<1>0. clock' >= clock
  BY LocalsNext DEF LocalsChange, Tick, TypeOK
<1>1. ASSUME NEW h \in Handlers, Snapshot(h) PROVE DeadlineAfterAlive'
  BY <1>1 DEF Snapshot, DeadlineAfterAlive, DeadlineIffScheduled, Scheduled, flags, TypeOK
<1>2. CASE alive_at' = alive_at
  <2>1. alive_at' <= clock'
    BY <1>0, <1>2 DEF DeadlineAfterAlive, TypeOK
  <2>2. ASSUME NEW t \in Threads, Schedule(t), alive_at # NoTime
        PROVE  shutdown_deadline' + STALL >= alive_at + GRACE
    <3>1. shutdown_deadline' = at[t] + GRACE /\ Decide(t)
      BY <2>2 DEF Schedule
    <3>2. QED
      BY <3>1, DecideFresh, ConfigAssumption DEF DeadlineAfterAlive, TypeOK
  <2>3. QED
    BY <1>2, <2>1, <2>2 DEF FlagsChange, CancelShutdown, DeferForJobs, RequestShutdown,
                            flags, DeadlineAfterAlive
<1>3. QED
  BY AliveNext, <1>1, <1>2

\* The server's end: should_exit by the one call, stopped after it.
ServerChange ==
    \/ UNCHANGED server
    \/ StopServing
    \/ \E t \in Threads : CallRequestShutdown(t)

\* The server's flags change by CallRequestShutdown and StopServing alone.
LEMMA ServerNext == Next => ServerChange
<1> USE DEF ServerChange
<1>1. ASSUME NEW h \in Handlers, NEW s \in Sessions,
             StartBegin(h, s) \/ HeartbeatBegin(h, s) \/ EndSession(h, s)
      PROVE  ServerChange
  BY <1>1 DEF StartBegin, HeartbeatBegin, EndSession
<1>2. ASSUME NEW h \in Handlers, HandlerStep(h) PROVE ServerChange
  BY <1>2 DEF HandlerStep, StartPut, StartCancel, HeartbeatPut, HeartbeatCancel, Snapshot
<1>3. ASSUME NEW t \in Threads, Evaluate(t) PROVE ServerChange
  BY <1>3 DEF Evaluate, CleanupStale, ReadHasSessions, ReadNow, AlreadyRequested,
              SessionRestored, Schedule, StillInGrace, DeferForJobs, RequestShutdown, Decide
<1>4. JobChange \/ MaintenanceBegin \/ StopServing \/ Tick => ServerChange
  BY DEF JobChange, SetJob, MaintenanceBegin, Tick
<1>5. QED
  BY NextCases, <1>1, <1>2, <1>3, <1>4

\* One thread at most is about to call request_shutdown, and it is the first.
LEMMA RequestedOnceNext ==
    TypeOK /\ RequestedOnce /\ ExitInOrder /\ Next => RequestedOnce'
<1> SUFFICES ASSUME TypeOK, RequestedOnce, ExitInOrder, LocalsChange, FlagsChange,
                    ServerChange
             PROVE  RequestedOnce'
  BY LocalsNext, FlagsNext, ServerNext
<1>1. ASSUME NEW t \in Threads, RequestShutdown(t) PROVE RequestedOnce'
  <2>1. ~shutdown_requested /\ ~should_exit /\ \A u \in Threads : pc[u] # "request"
    BY <1>1 DEF RequestShutdown, RequestedOnce, ExitInOrder
  <2>2. QED
    BY <1>1, <2>1 DEF RequestShutdown, Decide, Goto, server, RequestedOnce, TypeOK
<1>2. ASSUME NEW t \in Threads, CallRequestShutdown(t) PROVE RequestedOnce'
  BY <1>2 DEF CallRequestShutdown, Return, RequestedOnce, TypeOK
<1>3. ASSUME \A t \in Threads : ~RequestShutdown(t) /\ ~CallRequestShutdown(t)
      PROVE  RequestedOnce'
  <2>1. \A u \in Threads : pc'[u] = "request" => pc[u] = "request"
    <3>1. CASE UNCHANGED locals \/ Tick
      BY <3>1 DEF locals, Tick
    <3>2. ASSUME NEW t \in Threads,
                 \/ \E l \in Quiet, x \in Sessions \cup {NoSession} : Enter(t, l, x)
                 \/ \E l \in Quiet : Goto(t, l)
                 \/ Return(t) \/ ReadHasSessions(t) \/ ReadNow(t)
          PROVE  \A u \in Threads : pc'[u] = "request" => pc[u] = "request"
      BY <3>2 DEF Enter, Goto, Return, ReadHasSessions, ReadNow, Quiet, Labels, TypeOK
    <3>3. QED
      BY <1>3, <3>1, <3>2 DEF LocalsChange
  <2>2. shutdown_requested' = shutdown_requested
    BY <1>3 DEF FlagsChange, flags, CancelShutdown, Schedule, DeferForJobs
  <2>3. should_exit' = should_exit
    BY <1>3 DEF ServerChange, server, StopServing
  <2>4. QED
    BY <2>1, <2>2, <2>3 DEF RequestedOnce
<1>4. QED
  BY <1>1, <1>2, <1>3

\* The end is reached in order.
LEMMA ExitInOrderNext == TypeOK /\ RequestedOnce /\ ExitInOrder /\ Next => ExitInOrder'
<1> SUFFICES ASSUME TypeOK, RequestedOnce, ExitInOrder, FlagsChange, ServerChange
             PROVE  ExitInOrder'
  BY FlagsNext, ServerNext
<1>1. /\ shutdown_requested => shutdown_requested'
      /\ shutdown_requested' => shutdown_deadline' = NoTime
  BY DEF FlagsChange, flags, CancelShutdown, Schedule, DeferForJobs, RequestShutdown,
         ExitInOrder
<1>2. /\ stopped' => should_exit'
      /\ should_exit' => should_exit \/ shutdown_requested
  BY DEF ServerChange, server, StopServing, CallRequestShutdown, ExitInOrder, RequestedOnce
<1>3. QED
  BY <1>1, <1>2 DEF ExitInOrder

-----------------------------------------------------------------------------
(* The invariant and what follows from it *)

\* The inductive invariant holds initially.
LEMMA InvInit == Init => CoordinatorInv
<1> SUFFICES ASSUME Init PROVE CoordinatorInv
  OBVIOUS
<1>1. TypeOK
  BY InitTypeOK
<1>2. DeadlineIffScheduled /\ FreshLocals /\ RequestedOnce /\ ExitInOrder
  BY DEF Init, DeadlineIffScheduled, Scheduled, FreshLocals, Idle, RequestedOnce, ExitInOrder
<1>3. ConfirmedStored /\ BlindBeganBefore /\ DeadlineAfterConfirmed /\ DeadlineAfterAlive
  BY DEF Init, ConfirmedStored, BlindBeganBefore, DeadlineAfterConfirmed, DeadlineAfterAlive
<1>4. QED
  BY <1>1, <1>2, <1>3 DEF CoordinatorInv

\* The inductive invariant is a property of the variables.
LEMMA InvStutter == CoordinatorInv /\ UNCHANGED vars => CoordinatorInv'
<1> SUFFICES ASSUME CoordinatorInv, UNCHANGED vars PROVE CoordinatorInv'
  OBVIOUS
<1> USE DEF vars, flags, server, locals, history, CoordinatorInv
<1>1. TypeOK'
  BY DEF TypeOK
<1>2. DeadlineIffScheduled' /\ FreshLocals' /\ RequestedOnce' /\ ExitInOrder'
  BY DEF DeadlineIffScheduled, Scheduled, FreshLocals, Idle, RequestedOnce, ExitInOrder
<1>3. ConfirmedStored' /\ BlindBeganBefore' /\ DeadlineAfterConfirmed' /\ DeadlineAfterAlive'
  BY DEF ConfirmedStored, InStore, BlindBeganBefore, Evaluating, DeadlineAfterConfirmed,
         DeadlineAfterAlive
<1>4. QED
  BY <1>1, <1>2, <1>3

\* The inductive invariant is preserved by every step, part by part.
LEMMA InvNext == CoordinatorInv /\ Next => CoordinatorInv'
BY TypeNext, DeadlineIffScheduledNext, FreshLocalsNext, ConfirmedStoredNext,
   BlindBeganBeforeNext, DeadlineAfterConfirmedNext, DeadlineAfterAliveNext,
   RequestedOnceNext, ExitInOrderNext
   DEF CoordinatorInv

\* The inductive invariant holds of every reachable state.
THEOREM InvCorrect == Spec => []CoordinatorInv
BY InvInit, InvStutter, InvNext, PTL DEF Spec

\* request_shutdown is called by one thread at most, and once.
THEOREM RequestedOnceCorrect == Spec => []RequestedOnce
<1>1. CoordinatorInv => RequestedOnce
  BY DEF CoordinatorInv
<1>2. QED
  BY InvCorrect, <1>1, PTL

\* A request comes from a thread whose clock is past the standing deadline.
LEMMA RequestingStep ==
    ASSUME CoordinatorInv, Next, Requesting
    PROVE  \E t \in Threads : /\ Decide(t) /\ ~has[t] /\ at[t] >= shutdown_deadline
                             /\ shutdown_deadline # NoTime /\ ~shutdown_requested
<1>1. PICK t \in Threads : RequestShutdown(t)
  BY FlagsNext DEF FlagsChange, flags, CancelShutdown, Schedule, DeferForJobs, Requesting
<1>2. QED
  BY <1>1 DEF RequestShutdown, GraceOver, CoordinatorInv, DeadlineIffScheduled

\* The app is never told to stop under a tab it has accepted. The evaluation
\* that requests is blind, so it began before the session was confirmed and reads
\* a clock at most STALL later; the deadline it serves is GRACE - STALL later.
THEOREM NoShutdownUnderSessionCorrect == Spec => NoShutdownUnderSession
<1>1. CoordinatorInv /\ [Next]_vars
         => [Requesting => \A s \in Sessions : confirmed[s] = NoTime]_vars
  <2> SUFFICES ASSUME CoordinatorInv, Next, Requesting, NEW s \in Sessions,
                      confirmed[s] # NoTime
               PROVE  FALSE
    OBVIOUS
  <2>1. PICK t \in Threads : /\ Decide(t) /\ ~has[t] /\ at[t] >= shutdown_deadline
                            /\ shutdown_deadline # NoTime /\ ~shutdown_requested
    BY RequestingStep
  <2>2. at[t] \in Nat /\ at[t] <= clock /\ clock <= began[t] + STALL
    BY <2>1, DecideFresh DEF CoordinatorInv
  <2>3. began[t] <= confirmed[s] /\ shutdown_deadline + STALL >= confirmed[s] + GRACE
    BY <2>1 DEF CoordinatorInv, BlindBeganBefore, Evaluating, Decide, DeadlineAfterConfirmed
  <2>4. /\ clock \in Nat /\ began[t] \in Nat /\ confirmed[s] \in Int
        /\ shutdown_deadline \in Int
    BY DEF CoordinatorInv, TypeOK
  <2>5. QED
    BY <2>1, <2>2, <2>3, <2>4, ConfigAssumption, GraceAssumption
<1>2. QED
  BY InvCorrect, <1>1, PTL DEF Spec, NoShutdownUnderSession

\* A heartbeat answered shutting_down = false is followed by no request for
\* nearly a whole grace period.
THEOREM AliveAnswerBuysGraceCorrect == Spec => AliveAnswerBuysGrace
<1>1. CoordinatorInv /\ [Next]_vars
         => [Requesting /\ alive_at # NoTime => clock >= alive_at + GRACE - STALL]_vars
  <2> SUFFICES ASSUME CoordinatorInv, Next, Requesting, alive_at # NoTime
               PROVE  clock >= alive_at + GRACE - STALL
    OBVIOUS
  <2>1. PICK t \in Threads : /\ Decide(t) /\ ~has[t] /\ at[t] >= shutdown_deadline
                            /\ shutdown_deadline # NoTime /\ ~shutdown_requested
    BY RequestingStep
  <2>2. at[t] \in Nat /\ at[t] <= clock /\ clock \in Nat
    BY <2>1, DecideFresh DEF CoordinatorInv
  <2>3. /\ shutdown_deadline + STALL >= alive_at + GRACE
        /\ shutdown_deadline \in Int /\ alive_at \in Int
    BY <2>1 DEF CoordinatorInv, DeadlineAfterAlive, TypeOK
  <2>4. QED
    BY <2>1, <2>2, <2>3, ConfigAssumption
<1>2. QED
  BY InvCorrect, <1>1, PTL DEF Spec, AliveAnswerBuysGrace

-----------------------------------------------------------------------------
(* The coordinator implements ShutdownPolicy *)

\* A step that changes neither the flags nor the server is a tick or nothing.
LEMMA PolicyQuietStep ==
    Next /\ UNCHANGED flags /\ UNCHANGED server =>
        Policy!Tick \/ UNCHANGED <<clock, Phase, shutdown_deadline>>
BY LocalsNext DEF LocalsChange, Tick, Policy!Tick, Phase, flags, server

\* Every step of the runtime is a step of the policy or leaves it alone.
LEMMA PolicyNext ==
    CoordinatorInv /\ Next => Policy!Next \/ UNCHANGED <<clock, Phase, shutdown_deadline>>
<1> SUFFICES ASSUME CoordinatorInv, Next
             PROVE  Policy!Next \/ UNCHANGED <<clock, Phase, shutdown_deadline>>
  OBVIOUS
<1> USE DEF Policy!Next
<1>0. TypeOK /\ ExitInOrder /\ RequestedOnce /\ FreshLocals /\ DeadlineIffScheduled
  BY DEF CoordinatorInv
<1>1. CASE UNCHANGED flags /\ UNCHANGED server
  BY <1>1, PolicyQuietStep
<1>2. ASSUME NEW t \in Threads, Schedule(t) PROVE Policy!Schedule
  <2>1. /\ shutdown_deadline' = at[t] + GRACE /\ Decide(t)
        /\ UNCHANGED <<clock, should_exit, stopped>>
    BY <1>2 DEF Schedule, Decide, server
  <2>2. shutdown_deadline' \in clock + GRACE - STALL .. clock + GRACE
    BY <1>0, <2>1, DecideFresh, ConfigAssumption
  <2>3. Phase = "running" /\ Phase' = "grace"
    BY <1>0, <1>2, <2>1 DEF Phase, Schedule, Scheduled, ExitInOrder, TypeOK
  <2>4. QED
    BY <2>1, <2>2, <2>3 DEF Policy!Schedule
<1>3. ASSUME NEW t \in Threads, DeferForJobs(t)
      PROVE  Policy!Defer \/ UNCHANGED <<clock, Phase, shutdown_deadline>>
  <2>1. /\ Decide(t) /\ at[t] >= shutdown_deadline /\ shutdown_deadline' = shutdown_deadline
        /\ UNCHANGED <<clock, should_exit, stopped, shutdown_requested>>
    BY <1>0, <1>3 DEF DeferForJobs, Decide, server, GraceOver, DeadlineIffScheduled
  <2>2. clock >= shutdown_deadline
    BY <1>0, <2>1, DecideFresh DEF TypeOK
  <2>3. Phase \in {"grace", "deferred"} /\ Phase' = "deferred"
    BY <1>0, <1>3, <2>1 DEF Phase, DeferForJobs, Scheduled, ExitInOrder, TypeOK
  <2>4. QED
    BY <2>1, <2>2, <2>3 DEF Policy!Defer
<1>4. ASSUME NEW t \in Threads, RequestShutdown(t) PROVE Policy!Request
  <2>1. /\ Decide(t) /\ at[t] >= shutdown_deadline
        /\ shutdown_deadline' = NoTime /\ shutdown_requested'
        /\ UNCHANGED <<clock, should_exit, stopped>>
    BY <1>0, <1>4 DEF RequestShutdown, Decide, server, GraceOver, DeadlineIffScheduled
  <2>2. clock >= shutdown_deadline
    BY <1>0, <2>1, DecideFresh DEF TypeOK
  <2>3. Phase \in {"grace", "deferred"} /\ Phase' = "requested"
    BY <1>0, <1>4, <2>1 DEF Phase, RequestShutdown, Scheduled, ExitInOrder, TypeOK
  <2>4. QED
    BY <2>1, <2>2, <2>3 DEF Policy!Request, Policy!Waiting, Policy!NoTime
<1>5. ASSUME CancelShutdown, ~UNCHANGED flags, UNCHANGED <<clock, server>> PROVE Policy!Cancel
  <2>1. /\ Scheduled /\ ~shutdown_requested /\ shutdown_deadline' = NoTime
        /\ ~shutting_down' /\ ~shutdown_pending' /\ ~shutdown_requested'
    BY <1>5 DEF CancelShutdown, Scheduled, flags
  <2>2. Phase \in {"grace", "deferred"} /\ Phase' = "running"
    BY <1>0, <1>5, <2>1 DEF Phase, Scheduled, ExitInOrder, TypeOK, server
  <2>3. QED
    BY <1>5, <2>1, <2>2 DEF Policy!Cancel, Policy!Waiting, Policy!NoTime
<1>6. ASSUME NEW t \in Threads, CallRequestShutdown(t) PROVE Policy!Deliver
  <2>1. /\ shutdown_requested /\ ~should_exit /\ ~stopped /\ should_exit'
        /\ UNCHANGED <<clock, stopped, flags>>
    BY <1>0, <1>6 DEF CallRequestShutdown, RequestedOnce, ExitInOrder, TypeOK
  <2>2. QED
    BY <2>1 DEF Policy!Deliver, Phase, flags
<1>7. ASSUME StopServing PROVE Policy!Stop
  BY <1>0, <1>7 DEF StopServing, Policy!Stop, Phase, flags, ExitInOrder, TypeOK
<1>8. \/ UNCHANGED flags \/ UNCHANGED <<clock, server>>
  <2>1. Tick => UNCHANGED flags
    BY DEF Tick
  <2>2. StopServing => UNCHANGED flags
    BY DEF StopServing
  <2>3. (\E t \in Threads : CallRequestShutdown(t)) => UNCHANGED flags
    BY DEF CallRequestShutdown
  <2>4. QED
    BY LocalsNext, ServerNext, <2>1, <2>2, <2>3 DEF LocalsChange, ServerChange,
       ReadHasSessions, ReadNow, RequestShutdown, Decide
<1>9. QED
  BY FlagsNext, ServerNext, <1>1, <1>2, <1>3, <1>4, <1>5, <1>6, <1>7, <1>8
     DEF FlagsChange, ServerChange

\* The threads, whatever their interleaving, implement the policy.
THEOREM ImplementsPolicyCorrect == Spec => ImplementsPolicy
<1>1. Init => Policy!Init
  BY DEF Init, Policy!Init, Phase, Policy!NoTime
<1>2. CoordinatorInv /\ [Next]_vars => [Policy!Next]_<<clock, Phase, shutdown_deadline>>
  <2>1. UNCHANGED vars => UNCHANGED <<clock, Phase, shutdown_deadline>>
    BY DEF vars, flags, server, Phase
  <2>2. QED
    BY PolicyNext, <2>1
<1>3. QED
  BY InvCorrect, <1>1, <1>2, PTL DEF Spec, ImplementsPolicy, Policy!Spec, Policy!vars

-----------------------------------------------------------------------------
(* A deferred shutdown has a driver *)

\* While what it depends on stands, a shutdown keeps its drivers.
LEMMA DriverKept ==
    ASSUME DriverInv, TypeOK, TypeOK',
           UNCHANGED job_status, clock' >= clock,
           shutdown_pending' => UNCHANGED flags,
           \A t \in Threads :
              pc'[t] \in {"cleanup_stale", "has_sessions", "read_now", "decide"}
                  => AutoShutdownEnabled,
           shutdown_pending' => \A t \in Threads : Driving(t) => Driving(t)'
    PROVE  DriverInv'
<1>1. ASSUME shutdown_pending'
      PROVE  AutoShutdownEnabled /\ ~shutdown_requested' /\ shutdown_deadline' <= clock'
  <2>1. /\ UNCHANGED <<shutdown_requested, shutdown_deadline>>
        /\ AutoShutdownEnabled /\ ~shutdown_requested /\ shutdown_deadline <= clock
    BY <1>1 DEF DriverInv, flags
  <2>2. shutdown_deadline \in Int /\ clock \in Int /\ clock' \in Int
    BY DEF TypeOK
  <2>3. QED
    BY <2>1, <2>2
<1>2. shutdown_pending' /\ ~HasActiveJobs' => \E t \in Threads : Driving(t)'
  BY DEF DriverInv, flags, HasActiveJobs, Active
<1>3. QED
  BY <1>1, <1>2 DEF DriverInv

\* No step leaves a deferred shutdown without a driver when the jobs are over.
LEMMA DriverNext == CoordinatorInv /\ DriverInv /\ Next => DriverInv'
<1> SUFFICES ASSUME CoordinatorInv, DriverInv, Next PROVE DriverInv'
  OBVIOUS
<1>0. /\ TypeOK /\ TypeOK' /\ DeadlineIffScheduled /\ FreshLocals
      /\ Loop \in Threads /\ Handlers \subseteq Threads
  BY TypeNext DEF CoordinatorInv, Threads
<1>1. ASSUME NEW h \in Handlers, NEW s \in Sessions,
             StartBegin(h, s) \/ HeartbeatBegin(h, s) \/ EndSession(h, s)
      PROVE  DriverInv'
  <2>1. UNCHANGED <<job_status, clock, flags>>
    BY <1>1 DEF StartBegin, HeartbeatBegin, EndSession
  <2>2. /\ Idle(h)
        /\ \/ UNCHANGED locals
           \/ Enter(h, "start_put", s) \/ Enter(h, "beat_put", s)
           \/ AutoShutdownEnabled /\ Enter(h, "has_sessions", NoSession)
    BY <1>1 DEF StartBegin, HeartbeatBegin, EndSession, CanBegin
  <2>3. QED
    BY <1>0, <2>1, <2>2, DriverKept
       DEF Enter, locals, Idle, Driving, DriverInv, flags, TypeOK
<1>2. ASSUME NEW h \in Handlers, HandlerStep(h) PROVE DriverInv'
  <2>1. UNCHANGED <<job_status, clock>>
    BY <1>2 DEF HandlerStep, StartPut, StartCancel, HeartbeatPut, HeartbeatCancel, Snapshot
  <2>2. /\ pc[h] \in {"start_put", "start_cancel", "beat_put", "beat_cancel", "snapshot"}
        /\ Return(h) \/ \E l \in {"start_cancel", "beat_cancel", "snapshot"} : Goto(h, l)
    BY <1>2 DEF HandlerStep, StartPut, StartCancel, HeartbeatPut, HeartbeatCancel, Snapshot,
                Then
  <2>3. UNCHANGED flags \/ CancelShutdown
    BY <1>2 DEF HandlerStep, StartPut, StartCancel, HeartbeatPut, HeartbeatCancel, Snapshot
  <2>4. shutdown_pending' => UNCHANGED flags
    BY <2>3 DEF CancelShutdown, DriverInv, flags
  <2>5. \A t \in Threads :
           /\ Driving(t) => t # h
           /\ t # h => pc'[t] = pc[t] /\ has'[t] = has[t] /\ at'[t] = at[t]
    BY <1>0, <2>2 DEF Return, Goto, Driving, TypeOK
  <2>6. pc'[h] \notin {"cleanup_stale", "has_sessions", "read_now", "decide"}
    BY <1>0, <2>2 DEF Return, Goto, TypeOK
  <2>7. \A t \in Threads :
           pc'[t] \in {"cleanup_stale", "has_sessions", "read_now", "decide"}
               => AutoShutdownEnabled
    BY <2>5, <2>6 DEF DriverInv
  <2>8. shutdown_pending' => \A t \in Threads : Driving(t) => Driving(t)'
    BY <2>4, <2>5 DEF Driving, flags
  <2>9. QED
    BY <1>0, <2>1, <2>4, <2>7, <2>8, DriverKept DEF TypeOK
<1>3. ASSUME NEW t \in Threads, Evaluate(t) PROVE DriverInv'
  <2>1. CASE CallRequestShutdown(t)
    <3>1. \A u \in Threads : Driving(u) => Driving(u)'
      BY <1>0, <2>1 DEF CallRequestShutdown, Return, Driving, TypeOK, flags
    <3>2. QED
      BY <1>0, <2>1, <3>1, DriverKept DEF CallRequestShutdown, Return, DriverInv, TypeOK
  <2>2. CASE CleanupStale(t)
    <3>1. \A u \in Threads : Driving(u) => Driving(u)'
      BY <1>0, <2>2 DEF CleanupStale, Goto, Driving, TypeOK, flags
    <3>2. QED
      BY <1>0, <2>2, <3>1, DriverKept DEF CleanupStale, Goto, DriverInv, TypeOK
  <2>3. CASE ReadHasSessions(t)
    <3>1. \A u \in Threads : Driving(u) => Driving(u)'
      BY <1>0, <2>3 DEF ReadHasSessions, Driving, TypeOK, flags
    <3>2. QED
      BY <1>0, <2>3, <3>1, DriverKept DEF ReadHasSessions, DriverInv, TypeOK
  <2>4. CASE ReadNow(t)
    <3>1. shutdown_pending => \A u \in Threads : Driving(u) => Driving(u)'
      BY <1>0, <2>4 DEF ReadNow, Driving, DriverInv, TypeOK, flags
    <3>2. shutdown_pending' = shutdown_pending
      BY <2>4 DEF ReadNow, flags
    <3>3. QED
      BY <1>0, <2>4, <3>1, <3>2, DriverKept DEF ReadNow, DriverInv, TypeOK
  <2>5. CASE AlreadyRequested(t) \/ SessionRestored(t) \/ Schedule(t) \/ RequestShutdown(t)
    <3>1. ~shutdown_pending'
      BY <2>5 DEF AlreadyRequested, SessionRestored, CancelShutdown, Schedule, Scheduled,
                  RequestShutdown, DriverInv, flags
    <3>2. \/ Return(t)
          \/ Goto(t, "request")
      BY <2>5 DEF AlreadyRequested, SessionRestored, Schedule, RequestShutdown
    <3>3. QED
      BY <1>0, <3>1, <3>2 DEF Return, Goto, DriverInv, TypeOK
  <2>6. CASE StillInGrace(t)
    <3>1. ~Driving(t) /\ Return(t)
      BY <1>0, <2>6 DEF StillInGrace, Decide, GraceOver, Driving, TypeOK, OptTime, NoTime
    <3>2. \A u \in Threads : Driving(u) => Driving(u)'
      BY <1>0, <2>6, <3>1 DEF Return, StillInGrace, Decide, Driving, TypeOK, flags
    <3>3. QED
      BY <1>0, <2>6, <3>1, <3>2, DriverKept
         DEF StillInGrace, Decide, Return, DriverInv, TypeOK
  <2>7. CASE DeferForJobs(t)
    <3>1. /\ HasActiveJobs' /\ Decide(t) /\ ~shutdown_requested /\ Return(t)
          /\ UNCHANGED <<shutdown_requested, shutdown_deadline, clock>>
          /\ at[t] >= shutdown_deadline
      BY <1>0, <2>7 DEF DeferForJobs, Decide, HasActiveJobs, Active, GraceOver, Scheduled,
                        DeadlineIffScheduled
    <3>2. shutdown_deadline <= clock
      BY <1>0, <3>1 DEF Decide, FreshLocals, Idle, TypeOK
    <3>3. AutoShutdownEnabled
      BY <3>1 DEF Decide, DriverInv
    <3>4. QED
      BY <1>0, <3>1, <3>2, <3>3 DEF Return, DriverInv, TypeOK
  <2>8. QED
    BY <1>3, <2>1, <2>2, <2>3, <2>4, <2>5, <2>6, <2>7 DEF Evaluate
<1>4. ASSUME JobChange PROVE DriverInv'
  <2>1. PICK t \in Threads, j \in Jobs, x \in {"queued", "running", "completed", "failed"} :
           Idle(t) /\ SetJob(t, j, x)
    BY <1>4 DEF JobChange
  <2>2. UNCHANGED <<flags, clock>>
    BY <2>1 DEF SetJob
  <2>3. shutdown_pending' => Driving(t)'
    BY <1>0, <2>1, <2>2 DEF SetJob, Enter, Driving, DriverInv, TypeOK, flags
  <2>4. \A u \in Threads :
           pc'[u] \in {"cleanup_stale", "has_sessions", "read_now", "decide"}
               => AutoShutdownEnabled
    BY <1>0, <2>1 DEF SetJob, Enter, DriverInv, TypeOK, locals
  <2>5. QED
    BY <2>2, <2>3, <2>4 DEF DriverInv, flags
<1>5. ASSUME MaintenanceBegin \/ StopServing PROVE DriverInv'
  <2>1. UNCHANGED <<job_status, clock, flags>>
    BY <1>5 DEF MaintenanceBegin, StopServing
  <2>2. \/ UNCHANGED locals
        \/ Idle(Loop) /\ AutoShutdownEnabled /\ Enter(Loop, "cleanup_stale", NoSession)
    BY <1>5 DEF MaintenanceBegin, StopServing, CanBegin
  <2>3. QED
    BY <1>0, <2>1, <2>2, DriverKept
       DEF Enter, locals, Idle, Driving, DriverInv, flags, TypeOK
<1>6. ASSUME Tick PROVE DriverInv'
  <2>1. clock' >= clock
    BY <1>0, <1>6 DEF Tick, TypeOK
  <2>2. QED
    BY <1>0, <1>6, <2>1, DriverKept DEF Tick, locals, Driving, DriverInv, flags
<1>7. QED
  BY NextCases, <1>1, <1>2, <1>3, <1>4, <1>5, <1>6

\* The invariant behind it holds at all times.
LEMMA DriverCorrect == Spec => []DriverInv
<1>1. Init => DriverInv
  BY DEF Init, DriverInv
<1>2. DriverInv /\ UNCHANGED vars => DriverInv'
  BY DEF vars, flags, server, locals, history, DriverInv, Driving, HasActiveJobs, Active
<1>3. QED
  BY InvCorrect, DriverNext, <1>1, <1>2, PTL DEF Spec

\* A deferred shutdown is never forgotten: it is deferred by a clock past its
\* deadline, and the thread that ends the last job evaluates with a later one.
THEOREM DeferredShutdownHasADriverCorrect == Spec => []DeferredShutdownHasADriver
<1>1. DriverInv => DeferredShutdownHasADriver
  BY DEF DriverInv, Driving, DeferredShutdownHasADriver
<1>2. QED
  BY DriverCorrect, <1>1, PTL

-----------------------------------------------------------------------------
(* Sessions are reaped only when silent *)

\* Where a handler has put its session in the store and not yet confirmed it.
Confirming(h) == pc[h] \in {"start_cancel", "beat_cancel"}

\* What the store says of a session is little older than the clock of a call about to confirm it...
SeenLately ==
    \A h \in Handlers, s \in Sessions :
        Confirming(h) /\ sess[h] = s /\ InStore(s) => last_seen[s] + STALL >= at[h]

\* ... and than its confirmation.
ConfirmedSeen ==
    \A s \in Sessions : confirmed[s] # NoTime => last_seen[s] + 2 * STALL >= confirmed[s]

\* The store is as fresh as the confirmations.
SilenceInv == SeenLately /\ ConfirmedSeen

\* What a step does to the calls that are about to confirm a session, and to the store.
ConfirmingChange ==
    \/ \E h \in Handlers : StartPut(h) \/ HeartbeatPut(h)
    \/ \E h \in Handlers : StartCancel(h) \/ HeartbeatCancel(h)
    \/ /\ \A h \in Handlers :
             Confirming(h) \/ Confirming(h)'
                 => pc'[h] = pc[h] /\ sess'[h] = sess[h] /\ at'[h] = at[h]
       /\ \A s \in Sessions :
             \/ last_seen'[s] = last_seen[s] /\ confirmed'[s] = confirmed[s]
             \/ last_seen'[s] = NoTime /\ confirmed'[s] = NoTime

\* A step that is no put and no confirmation leaves the calls about to confirm alone, and changes
\* the store by dropping sessions only.
LEMMA ConfirmingNext == TypeOK /\ Next => ConfirmingChange
<1> SUFFICES ASSUME TypeOK, Next PROVE ConfirmingChange
  OBVIOUS
<1> USE DEF ConfirmingChange, Confirming
<1>0. Loop \notin Handlers /\ Handlers \subseteq Threads
  BY ThreadAssumption DEF Threads
<1>1. ASSUME NEW h \in Handlers, NEW s \in Sessions,
             StartBegin(h, s) \/ HeartbeatBegin(h, s) \/ EndSession(h, s)
      PROVE  ConfirmingChange
  <2>1. CASE StartBegin(h, s) \/ HeartbeatBegin(h, s)
    BY <1>0, <2>1 DEF StartBegin, HeartbeatBegin, CanBegin, Idle, Enter, TypeOK, history
  <2>2. CASE EndSession(h, s)
    <3>1. \A u \in Handlers :
             Confirming(u) \/ Confirming(u)'
                 => pc'[u] = pc[u] /\ sess'[u] = sess[u] /\ at'[u] = at[u]
      BY <1>0, <2>2 DEF EndSession, CanBegin, Idle, Enter, TypeOK, locals
    <3>2. QED
      BY <2>2, <3>1 DEF EndSession, Drop, TypeOK
  <2>3. QED
    BY <1>1, <2>1, <2>2
<1>2. ASSUME NEW h \in Handlers, HandlerStep(h) PROVE ConfirmingChange
  <2>1. CASE Snapshot(h)
    BY <1>0, <2>1 DEF Snapshot, Return, TypeOK
  <2>2. QED
    BY <1>2, <2>1 DEF HandlerStep
<1>3. ASSUME NEW t \in Threads, Evaluate(t) PROVE ConfirmingChange
  <2>1. \A u \in Handlers :
           Confirming(u) \/ Confirming(u)'
               => pc'[u] = pc[u] /\ sess'[u] = sess[u] /\ at'[u] = at[u]
    <3>1. /\ pc[t] \notin {"start_cancel", "beat_cancel"}
          /\ pc'[t] \notin {"start_cancel", "beat_cancel"}
          /\ \A u \in Threads : u # t => pc'[u] = pc[u] /\ sess'[u] = sess[u] /\ at'[u] = at[u]
      BY <1>3 DEF Evaluate, CleanupStale, ReadHasSessions, ReadNow, AlreadyRequested,
                  SessionRestored, Schedule, StillInGrace, DeferForJobs, RequestShutdown,
                  CallRequestShutdown, Decide, Goto, Return, TypeOK
    <3>2. QED
      BY <1>0, <3>1
  <2>2. CASE CleanupStale(t)
    BY <2>1, <2>2 DEF CleanupStale, Drop, TypeOK
  <2>3. CASE ~CleanupStale(t)
    <3>1. last_seen' = last_seen /\ confirmed' = confirmed
      BY <1>3, <2>3 DEF Evaluate, ReadHasSessions, ReadNow, AlreadyRequested, SessionRestored,
                  Schedule, StillInGrace, DeferForJobs, RequestShutdown,
                  CallRequestShutdown, Decide, history
    <3>2. QED
      BY <2>1, <3>1
  <2>4. QED
    BY <2>2, <2>3
<1>4. ASSUME JobChange PROVE ConfirmingChange
  BY <1>0, <1>4 DEF JobChange, SetJob, Idle, Enter, TypeOK, locals, history
<1>5. ASSUME MaintenanceBegin PROVE ConfirmingChange
  BY <1>0, <1>5 DEF MaintenanceBegin, CanBegin, Idle, Enter, TypeOK, locals, history
<1>6. ASSUME StopServing \/ Tick PROVE ConfirmingChange
  BY <1>6 DEF StopServing, Tick, locals, history
<1>7. QED
  BY NextCases, <1>1, <1>2, <1>3, <1>4, <1>5, <1>6

\* What a busy handler read is at most STALL old.
LEMMA HandlerFresh ==
    ASSUME TypeOK, FreshLocals, NEW h \in Handlers, ~Idle(h)
    PROVE  /\ at[h] \in Nat /\ clock \in Nat
           /\ at[h] <= clock /\ clock <= at[h] + STALL
BY ConfigAssumption DEF FreshLocals, TypeOK, Threads

\* Every step keeps what the store says of a session close to its confirmation.
LEMMA SilenceNext == CoordinatorInv /\ SilenceInv /\ Next => SilenceInv'
<1> SUFFICES ASSUME CoordinatorInv, SilenceInv, Next PROVE SilenceInv'
  OBVIOUS
<1>0. /\ TypeOK /\ TypeOK' /\ FreshLocals /\ ConfirmedStored /\ SeenLately /\ ConfirmedSeen
      /\ STALL \in Nat /\ clock \in Nat /\ Handlers \subseteq Threads
  BY TypeNext, ConfigAssumption DEF CoordinatorInv, SilenceInv, TypeOK, Threads
<1>1. ASSUME NEW h \in Handlers, StartPut(h) \/ HeartbeatPut(h) PROVE SilenceInv'
  <2>1. /\ at[h] \in Nat /\ clock <= at[h] + STALL
        /\ last_seen' = last_seen \/ last_seen' = [last_seen EXCEPT ![sess[h]] = at[h]]
        /\ confirmed' = confirmed
    BY <1>0, <1>1, HandlerFresh DEF StartPut, HeartbeatPut, Idle, history
  <2>2. \A s \in Sessions : \/ last_seen'[s] = last_seen[s]
                            \/ last_seen'[s] = at[h]
    BY <1>0, <2>1 DEF TypeOK
  <2>3. ConfirmedSeen'
    BY <1>0, <2>1, <2>2 DEF ConfirmedSeen, ConfirmedStored, TypeOK
  <2>4. ASSUME NEW u \in Handlers, NEW s \in Sessions, Confirming(u)', sess'[u] = s, InStore(s)'
        PROVE  last_seen'[s] + STALL >= at'[u]
    <3>1. /\ u # h => pc'[u] = pc[u] /\ sess'[u] = sess[u] /\ at'[u] = at[u]
          /\ sess'[h] # NoSession => sess'[h] = sess[h] /\ at'[h] = at[h]
      BY <1>0, <1>1 DEF StartPut, HeartbeatPut, Then, Goto, Return, TypeOK
    <3>2. CASE last_seen'[s] = at[h]
      <4>1. at'[u] <= clock
        BY <1>0, <2>4, <3>1, HandlerFresh, ThreadAssumption, <1>1 
           DEF Confirming, Idle, StartPut, HeartbeatPut
      <4>2. at'[u] \in Nat
        BY <1>0 DEF TypeOK
      <4>3. QED
        BY <1>0, <2>1, <3>2, <4>1, <4>2
    <3>3. CASE last_seen'[s] # at[h]
      <4>1. last_seen'[s] = last_seen[s]
        BY <2>2, <3>3
      <4>2. CASE u # h
        BY <1>0, <2>4, <3>1, <4>1, <4>2 DEF SeenLately, Confirming, InStore
      <4>3. CASE u = h
        BY <1>0, <1>1, <2>4, <3>1, <3>3, <4>3, ThreadAssumption
           DEF StartPut, HeartbeatPut, Then, Goto, Return, Confirming, InStore, TypeOK
      <4>4. QED
        BY <4>2, <4>3
    <3>4. QED
      BY <3>2, <3>3
  <2>5. QED
    BY <2>3, <2>4 DEF SilenceInv, SeenLately
<1>2. ASSUME NEW h \in Handlers, StartCancel(h) \/ HeartbeatCancel(h) PROVE SilenceInv'
  <2>1. /\ last_seen' = last_seen /\ Confirm(sess[h]) /\ Confirming(h) /\ clock' = clock
        /\ clock <= at[h] + STALL /\ at[h] \in Nat
    BY <1>0, <1>2, HandlerFresh DEF StartCancel, HeartbeatCancel, Confirming, Idle
  <2>2. SeenLately'
    <3>1. \A u \in Handlers : Confirming(u)' => /\ Confirming(u)
                                               /\ sess'[u] = sess[u] /\ at'[u] = at[u]
      BY <1>0, <1>2 DEF StartCancel, HeartbeatCancel, Goto, Return, Confirming, TypeOK
    <3>2. QED
      BY <1>0, <2>1, <3>1 DEF SeenLately, InStore
  <2>3. ASSUME NEW s \in Sessions, confirmed'[s] # NoTime
        PROVE  last_seen'[s] + 2 * STALL >= confirmed'[s]
    <3>1. CASE confirmed'[s] = confirmed[s]
      BY <1>0, <2>1, <2>3, <3>1 DEF ConfirmedSeen
    <3>2. CASE confirmed'[s] # confirmed[s]
      <4>1. s = sess[h] /\ InStore(s) /\ confirmed'[s] = clock
        BY <1>0, <2>1, <3>2 DEF Confirm, TypeOK
      <4>2. last_seen[s] + STALL >= at[h] /\ last_seen[s] \in Nat
        BY <1>0, <2>1, <4>1 DEF SeenLately, InStore, TypeOK
      <4>3. QED
        BY <1>0, <2>1, <4>1, <4>2
    <3>3. QED
      BY <3>1, <3>2
  <2>4. QED
    BY <2>2, <2>3 DEF SilenceInv, ConfirmedSeen
<1>3. CASE /\ \A h \in Handlers :
                 Confirming(h) \/ Confirming(h)'
                     => pc'[h] = pc[h] /\ sess'[h] = sess[h] /\ at'[h] = at[h]
           /\ \A s \in Sessions :
                 \/ last_seen'[s] = last_seen[s] /\ confirmed'[s] = confirmed[s]
                 \/ last_seen'[s] = NoTime /\ confirmed'[s] = NoTime
  <2>1. SeenLately'
    BY <1>0, <1>3 DEF SeenLately, Confirming, InStore
  <2>2. ConfirmedSeen'
    BY <1>0, <1>3 DEF ConfirmedSeen
  <2>3. QED
    BY <2>1, <2>2 DEF SilenceInv
<1>4. QED
  BY <1>0, <1>1, <1>2, <1>3, ConfirmingNext DEF ConfirmingChange

\* The store and the confirmations agree at all times.
LEMMA SilenceCorrect == Spec => []SilenceInv
<1>1. Init => SilenceInv
  BY DEF Init, SilenceInv, SeenLately, ConfirmedSeen, Confirming, Threads
<1>2. SilenceInv /\ UNCHANGED vars => SilenceInv'
  BY DEF vars, locals, history, SilenceInv, SeenLately, ConfirmedSeen, Confirming, InStore
<1>3. QED
  BY InvCorrect, SilenceNext, <1>1, <1>2, PTL DEF Spec

\* The loop leaves the clean-up by doing it.
LEMMA LeavesCleanup ==
    ASSUME TypeOK, Next, pc[Loop] = "cleanup_stale", pc'[Loop] # "cleanup_stale"
    PROVE  CleanupStale(Loop)
<1>0. Loop \in Threads /\ Loop \notin Handlers /\ Handlers \subseteq Threads
  BY ThreadAssumption DEF Threads
<1>1. ASSUME NEW h \in Handlers, NEW s \in Sessions,
             StartBegin(h, s) \/ HeartbeatBegin(h, s) \/ EndSession(h, s)
      PROVE  pc'[Loop] = pc[Loop]
  BY <1>0, <1>1 DEF StartBegin, HeartbeatBegin, EndSession, Enter, locals, TypeOK
<1>2. ASSUME NEW h \in Handlers, HandlerStep(h) PROVE pc'[Loop] = pc[Loop]
  BY <1>0, <1>2 DEF HandlerStep, StartPut, StartCancel, HeartbeatPut, HeartbeatCancel,
                    Snapshot, Then, Goto, Return, TypeOK
<1>3. ASSUME NEW t \in Threads, Evaluate(t), ~CleanupStale(Loop) PROVE pc'[Loop] = pc[Loop]
  BY <1>0, <1>3 DEF Evaluate, CleanupStale, ReadHasSessions, ReadNow, AlreadyRequested,
                    SessionRestored, Schedule, StillInGrace, DeferForJobs, RequestShutdown,
                    CallRequestShutdown, Decide, Goto, Return, TypeOK
<1>4. JobChange \/ MaintenanceBegin \/ StopServing \/ Tick => pc'[Loop] = pc[Loop]
  BY <1>0 DEF JobChange, SetJob, MaintenanceBegin, CanBegin, StopServing, Tick, Idle, Enter,
              locals, TypeOK
<1>5. QED
  BY NextCases, <1>1, <1>2, <1>3, <1>4

\* The monitor reaps no session that was heard of in the last STALE seconds, less two calls: what
\* the store says of a session is little older than its last confirmation.
THEOREM ReapedOnlyWhenSilentCorrect == Spec => ReapedOnlyWhenSilent
<1>1. CoordinatorInv /\ SilenceInv /\ [Next]_vars
         => [\A s \in Sessions :
                /\ InStore(s) /\ ~InStore(s)' /\ pc[Loop] = "cleanup_stale"
                /\ pc'[Loop] # "cleanup_stale"
                => clock >= confirmed[s] + STALE - 2 * STALL]_vars
  <2> SUFFICES ASSUME CoordinatorInv, SilenceInv, Next, NEW s \in Sessions,
                      InStore(s), ~InStore(s)',
                      pc[Loop] = "cleanup_stale", pc'[Loop] # "cleanup_stale"
               PROVE  clock >= confirmed[s] + STALE - 2 * STALL
    OBVIOUS
  <2>1. CleanupStale(Loop)
    BY LeavesCleanup DEF CoordinatorInv
  <2>2. last_seen[s] <= at[Loop] - STALE
    BY <2>1 DEF CleanupStale, Drop, StaleFor, InStore
  <2>3. at[Loop] <= clock
    BY <2>1 DEF CleanupStale, CoordinatorInv, FreshLocals, Idle, Threads
  <2>4. /\ clock \in Nat /\ at[Loop] \in Nat /\ last_seen[s] \in Nat /\ confirmed[s] \in OptTime
        /\ STALE \in Nat /\ STALL \in Nat
    BY ConfigAssumption DEF CoordinatorInv, TypeOK, InStore, Threads
  <2>5. confirmed[s] # NoTime => last_seen[s] + 2 * STALL >= confirmed[s]
    BY DEF SilenceInv, ConfirmedSeen
  <2>6. QED
    BY <2>2, <2>3, <2>4, <2>5
<1>2. QED
  BY InvCorrect, SilenceCorrect, <1>1, PTL DEF Spec, ReapedOnlyWhenSilent

-----------------------------------------------------------------------------
(* The last tab gets its grace period *)

\* The monitor wakes in time.
Punctual ==
    /\ last_maintenance = NoTime => clock = 0
    /\ last_maintenance # NoTime
           => last_maintenance <= clock /\ clock <= last_maintenance + MONITOR + STALL

\* A stored session whose start is over.
Settled(s) ==
    InStore(s) /\ \A h \in Handlers : ~(pc[h] = "start_cancel" /\ sess[h] = s)

\* The last maintenance is under way, and has not overlooked the sessions.
Watching ==
    /\ began[Loop] = last_maintenance
    /\ \/ pc[Loop] \in {"cleanup_stale", "has_sessions"}
       \/ Evaluating(Loop) /\ has[Loop]

\* A schedule that stands under a settled session was made after the last maintenance but one, and
\* before the last only while that is on its way to take it back.
YoungSchedule ==
    (\E s \in Sessions : Settled(s)) /\ ~shutdown_requested /\ shutdown_deadline # NoTime =>
        \/ shutdown_deadline + STALL >= last_maintenance + GRACE
        \/ Watching /\ shutdown_deadline + MONITOR + 2 * STALL >= last_maintenance + GRACE

\* A schedule that stands after the last session has left gives it its grace period.
LeftBefore ==
    ~shutdown_requested /\ shutdown_deadline # NoTime /\ left_at # NoTime
        => shutdown_deadline + MONITOR + 3 * STALL >= left_at + GRACE

\* The schedules, the monitor and the last departure, in time.
TimelyInv ==
    /\ Punctual /\ YoungSchedule /\ LeftBefore
    /\ left_at <= clock
    /\ shutdown_deadline # NoTime => AutoShutdownEnabled /\ shutdown_deadline >= GRACE

\* Only the monitor's waking moves last_maintenance, and only the clock's tick moves the clock.
LEMMA MaintenanceNext ==
    Next => \/ MaintenanceBegin
            \/ last_maintenance' = last_maintenance /\ (clock' = clock \/ Tick)
<1> SUFFICES ASSUME Next
             PROVE  \/ MaintenanceBegin
                    \/ last_maintenance' = last_maintenance /\ (clock' = clock \/ Tick)
  OBVIOUS
<1>1. ASSUME NEW h \in Handlers, NEW s \in Sessions,
             StartBegin(h, s) \/ HeartbeatBegin(h, s) \/ EndSession(h, s)
      PROVE  last_maintenance' = last_maintenance /\ clock' = clock
  BY <1>1 DEF StartBegin, HeartbeatBegin, EndSession
<1>2. ASSUME NEW h \in Handlers, HandlerStep(h)
      PROVE  last_maintenance' = last_maintenance /\ clock' = clock
  BY <1>2 DEF HandlerStep, StartPut, StartCancel, HeartbeatPut, HeartbeatCancel, Snapshot
<1>3. ASSUME NEW t \in Threads, Evaluate(t)
      PROVE  last_maintenance' = last_maintenance /\ clock' = clock
  BY <1>3 DEF Evaluate, CleanupStale, ReadHasSessions, ReadNow, AlreadyRequested,
              SessionRestored, Schedule, StillInGrace, DeferForJobs, RequestShutdown,
              CallRequestShutdown, Decide
<1>4. JobChange \/ StopServing => last_maintenance' = last_maintenance /\ clock' = clock
  BY DEF JobChange, SetJob, StopServing
<1>5. Tick => last_maintenance' = last_maintenance
  BY DEF Tick
<1>6. QED
  BY NextCases, <1>1, <1>2, <1>3, <1>4, <1>5

\* The monitor stays punctual.
LEMMA PunctualNext == TypeOK /\ Punctual /\ Next => Punctual'
<1> SUFFICES ASSUME TypeOK, Punctual, Next PROVE Punctual'
  OBVIOUS
<1>0. clock \in Nat /\ last_maintenance \in OptTime /\ MONITOR \in Nat /\ STALL \in Nat
  BY ConfigAssumption DEF TypeOK
<1>1. CASE MaintenanceBegin
  BY <1>0, <1>1 DEF MaintenanceBegin, Punctual
<1>2. CASE Tick
  BY <1>0, <1>2 DEF Tick, Punctual
<1>3. CASE last_maintenance' = last_maintenance /\ clock' = clock
  BY <1>3 DEF Punctual
<1>4. QED
  BY <1>1, <1>2, <1>3, MaintenanceNext

\* A session becomes settled by the confirmation of its start only, or where no shutdown is
\* scheduled.
LEMMA SettledNext ==
    ASSUME TypeOK, TypeOK', Next, NEW s \in Sessions, Settled(s)'
    PROVE  \/ Settled(s)
           \/ CancelShutdown
           \/ ~AutoShutdownEnabled /\ UNCHANGED flags
<1>0. Handlers \subseteq Threads
  BY DEF Threads
<1>1. ASSUME NEW h \in Handlers, StartPut(h) \/ HeartbeatPut(h), AutoShutdownEnabled
      PROVE  Settled(s)
  <2>1. \A u \in Handlers : u # h => pc'[u] = pc[u] /\ sess'[u] = sess[u]
    BY <1>0, <1>1 DEF StartPut, HeartbeatPut, Then, Goto, Return, TypeOK
  <2>2. pc[h] \in {"start_put", "beat_put"}
    BY <1>1 DEF StartPut, HeartbeatPut
  <2>3. InStore(s)
    BY <1>0, <1>1 DEF StartPut, HeartbeatPut, Then, Goto, Return, Settled, InStore, TypeOK
  <2>4. QED
    BY <2>1, <2>2, <2>3 DEF Settled
<1>2. ASSUME NEW h \in Handlers, StartPut(h) \/ HeartbeatPut(h) PROVE UNCHANGED flags
  BY <1>2 DEF StartPut, HeartbeatPut
<1>3. ASSUME NEW h \in Handlers, StartCancel(h) \/ HeartbeatCancel(h) PROVE CancelShutdown
  BY <1>3 DEF StartCancel, HeartbeatCancel
<1>4. ASSUME \A h \in Handlers :
                Confirming(h) \/ Confirming(h)'
                    => pc'[h] = pc[h] /\ sess'[h] = sess[h] /\ at'[h] = at[h],
             \/ last_seen'[s] = last_seen[s] /\ confirmed'[s] = confirmed[s]
             \/ last_seen'[s] = NoTime /\ confirmed'[s] = NoTime
      PROVE  Settled(s)
  BY <1>4 DEF Settled, Confirming, InStore
<1>5. QED
  BY <1>1, <1>2, <1>3, <1>4, ConfirmingNext DEF ConfirmingChange

\* A maintenance under way with a session in the store goes on watching until it takes a schedule
\* back, or finds the shutdown requested.
LEMMA WatchingNext ==
    ASSUME TypeOK, Next, Watching, HasSessions, last_maintenance' = last_maintenance
    PROVE  Watching' \/ SessionRestored(Loop) \/ AlreadyRequested(Loop)
<1>0. Loop \in Threads /\ Loop \notin Handlers /\ Handlers \subseteq Threads /\ ~Idle(Loop)
  BY ThreadAssumption DEF Threads, Watching, Evaluating, Idle
<1> DEFINE Same == pc'[Loop] = pc[Loop] /\ has'[Loop] = has[Loop] /\ began'[Loop] = began[Loop]
<1>1. Same => Watching'
  BY DEF Watching, Evaluating
<1>2. ASSUME NEW h \in Handlers, NEW s \in Sessions,
             StartBegin(h, s) \/ HeartbeatBegin(h, s) \/ EndSession(h, s)
      PROVE  Same
  BY <1>0, <1>2 DEF StartBegin, HeartbeatBegin, EndSession, Enter, locals, TypeOK
<1>3. ASSUME NEW h \in Handlers, HandlerStep(h) PROVE Same
  BY <1>0, <1>3 DEF HandlerStep, StartPut, StartCancel, HeartbeatPut, HeartbeatCancel,
                    Snapshot, Then, Goto, Return, TypeOK
<1>4. ASSUME NEW t \in Threads, t # Loop, Evaluate(t) PROVE Same
  BY <1>0, <1>4 DEF Evaluate, CleanupStale, ReadHasSessions, ReadNow, AlreadyRequested,
                    SessionRestored, Schedule, StillInGrace, DeferForJobs, RequestShutdown,
                    CallRequestShutdown, Decide, Goto, Return, TypeOK
<1>5. ASSUME Evaluate(Loop) PROVE Watching' \/ SessionRestored(Loop) \/ AlreadyRequested(Loop)
  <2>1. CASE CleanupStale(Loop) \/ ReadHasSessions(Loop) \/ ReadNow(Loop)
    BY <1>0, <2>1 DEF CleanupStale, ReadHasSessions, ReadNow, Goto, Watching, Evaluating, TypeOK
  <2>2. pc[Loop] = "decide" => has[Loop]
    BY DEF Watching, Evaluating
  <2>3. pc[Loop] # "request"
    BY DEF Watching, Evaluating
  <2>4. QED
    BY <1>5, <2>1, <2>2, <2>3 DEF Evaluate, Decide, Schedule, StillInGrace, DeferForJobs,
                                  RequestShutdown, CallRequestShutdown
<1>6. JobChange \/ MaintenanceBegin \/ StopServing \/ Tick => Same
  BY <1>0 DEF JobChange, SetJob, MaintenanceBegin, CanBegin, StopServing, Tick, Enter,
              locals, TypeOK
<1>7. QED
  BY NextCases, <1>1, <1>2, <1>3, <1>4, <1>5, <1>6

\* What becomes of a standing schedule.
LEMMA DeadlineNext ==
    ASSUME TypeOK, FreshLocals, DeadlineIffScheduled, Next,
           ~shutdown_requested', shutdown_deadline' # NoTime
    PROVE  /\ ~shutdown_requested
           /\ \/ shutdown_deadline' = shutdown_deadline
              \/ /\ shutdown_deadline' \in Nat /\ shutdown_deadline' >= GRACE
                 /\ shutdown_deadline' + STALL >= clock + GRACE
                 /\ UNCHANGED <<clock, last_maintenance, left_at>>
                 /\ \E t \in Threads : Schedule(t)
           /\ CancelShutdown => ~Scheduled
<1>1. ~shutdown_requested
  BY FlagsNext DEF FlagsChange, CancelShutdown, Schedule, DeferForJobs, RequestShutdown, flags
<1>2. CancelShutdown => ~Scheduled
  BY <1>1 DEF CancelShutdown, Scheduled
<1>3. ASSUME NEW t \in Threads, Schedule(t)
      PROVE  /\ shutdown_deadline' \in Nat /\ shutdown_deadline' >= GRACE
             /\ shutdown_deadline' + STALL >= clock + GRACE
             /\ UNCHANGED <<clock, last_maintenance, left_at>>
  BY <1>3, DecideFresh, ConfigAssumption DEF Schedule, Decide, history
<1>4. shutdown_deadline' = shutdown_deadline \/ \E t \in Threads : Schedule(t)
  BY <1>1, FlagsNext DEF FlagsChange, CancelShutdown, DeferForJobs, RequestShutdown, flags
<1>5. QED
  BY <1>1, <1>2, <1>3, <1>4

\* A schedule is made where the app shuts down by itself.
LEMMA ScheduledAutoNext ==
    ASSUME TypeOK, FreshLocals, DeadlineIffScheduled, DriverInv, Next,
           shutdown_deadline # NoTime => AutoShutdownEnabled /\ shutdown_deadline >= GRACE,
           shutdown_deadline' # NoTime
    PROVE  AutoShutdownEnabled /\ shutdown_deadline' >= GRACE
<1>1. ASSUME NEW t \in Threads, Schedule(t)
      PROVE  AutoShutdownEnabled /\ shutdown_deadline' >= GRACE
  <2>1. AutoShutdownEnabled
    BY <1>1 DEF Schedule, Decide, DriverInv
  <2>2. QED
    BY <1>1, <2>1, DecideFresh, ConfigAssumption DEF Schedule
<1>2. shutdown_deadline' = shutdown_deadline \/ \E t \in Threads : Schedule(t)
  BY FlagsNext DEF FlagsChange, CancelShutdown, DeferForJobs, RequestShutdown, flags
<1>3. QED
  BY <1>1, <1>2

\* A schedule that stands under a settled session stays young: the next maintenance sees the
\* session and takes it back.
LEMMA YoungNext ==
    ASSUME CoordinatorInv, CoordinatorInv', TimelyInv, Next
    PROVE  YoungSchedule'
<1> SUFFICES ASSUME NEW s \in Sessions, Settled(s)',
                    ~shutdown_requested', shutdown_deadline' # NoTime
             PROVE  \/ shutdown_deadline' + STALL >= last_maintenance' + GRACE
                    \/ /\ Watching'
                       /\ shutdown_deadline' + MONITOR + 2 * STALL >= last_maintenance' + GRACE
  BY DEF YoungSchedule
<1>0. /\ TypeOK /\ TypeOK' /\ FreshLocals /\ DeadlineIffScheduled /\ DeadlineIffScheduled'
      /\ Punctual /\ YoungSchedule
      /\ clock \in Nat /\ last_maintenance \in OptTime /\ shutdown_deadline \in OptTime
      /\ GRACE \in Nat /\ MONITOR \in Nat /\ STALL \in Nat
  BY ConfigAssumption DEF CoordinatorInv, TimelyInv, TypeOK
<1>1. /\ ~shutdown_requested
      /\ \/ shutdown_deadline' = shutdown_deadline
         \/ /\ shutdown_deadline' \in Nat /\ shutdown_deadline' >= GRACE
            /\ shutdown_deadline' + STALL >= clock + GRACE
            /\ UNCHANGED <<clock, last_maintenance, left_at>>
            /\ \E t \in Threads : Schedule(t)
      /\ CancelShutdown => ~Scheduled
  BY <1>0, DeadlineNext
<1>2. CASE shutdown_deadline' # shutdown_deadline
  <2>1. last_maintenance <= clock
    BY <1>0 DEF Punctual
  <2>2. QED
    BY <1>0, <1>1, <1>2, <2>1
<1>3. CASE shutdown_deadline' = shutdown_deadline
  <2>1. Scheduled /\ ~CancelShutdown /\ AutoShutdownEnabled /\ shutdown_deadline >= GRACE
    BY <1>0, <1>1, <1>3 DEF DeadlineIffScheduled, TimelyInv
  <2>2. Settled(s) /\ HasSessions
    BY <1>0, <2>1, SettledNext DEF Settled, HasSessions
  <2>3. \/ shutdown_deadline + STALL >= last_maintenance + GRACE
        \/ Watching /\ shutdown_deadline + MONITOR + 2 * STALL >= last_maintenance + GRACE
    BY <1>0, <1>1, <1>3, <2>2 DEF YoungSchedule
  <2>4. CASE MaintenanceBegin
    <3>1. Idle(Loop) /\ last_maintenance' = clock
      BY <2>4 DEF MaintenanceBegin, CanBegin
    <3>2. ~Watching
      BY <3>1 DEF Watching, Evaluating, Idle
    <3>3. Watching'
      BY <1>0, <2>1, <2>4 DEF MaintenanceBegin, Enter, Watching, TypeOK, Threads
    <3>4. shutdown_deadline + MONITOR + 2 * STALL >= clock + GRACE
      <4>1. CASE last_maintenance = NoTime
        BY <1>0, <2>1, <4>1 DEF Punctual
      <4>2. CASE last_maintenance # NoTime
        BY <1>0, <2>3, <3>2, <4>2 DEF Punctual
      <4>3. QED
        BY <4>1, <4>2
    <3>5. QED
      BY <1>3, <3>1, <3>3, <3>4
  <2>5. CASE last_maintenance' = last_maintenance
    <3>1. Watching => Watching' \/ SessionRestored(Loop) \/ AlreadyRequested(Loop)
      BY <1>0, <2>2, <2>5, WatchingNext
    <3>2. ~SessionRestored(Loop) /\ ~AlreadyRequested(Loop)
      BY <1>1, <2>1 DEF SessionRestored, AlreadyRequested
    <3>3. QED
      BY <1>3, <2>3, <2>5, <3>1, <3>2
  <2>6. QED
    BY <2>4, <2>5, MaintenanceNext
<1>4. QED
  BY <1>2, <1>3

\* The last session leaves a while after it was heard of, and is settled by then.
LEMMA LastSettled ==
    ASSUME CoordinatorInv, SilenceInv, STALE > 2 * STALL, Next, left_at' # left_at
    PROVE  left_at' = clock /\ clock' = clock /\ UNCHANGED flags /\ \E s \in Sessions : Settled(s)
<1>0. /\ TypeOK /\ FreshLocals /\ clock \in Nat /\ STALE \in Nat /\ STALL \in Nat
      /\ Handlers \subseteq Threads
  BY ConfigAssumption DEF CoordinatorInv, TypeOK, Threads
<1>1. ASSUME NEW h \in Handlers, NEW s \in Sessions, EndSession(h, s)
      PROVE  left_at' = clock /\ clock' = clock /\ UNCHANGED flags /\ \E r \in Sessions : Settled(r)
  <2>1. HasSessions /\ ~HasSessions' /\ left_at' = clock /\ UNCHANGED <<clock, flags>>
    BY <1>1 DEF EndSession, Drop
  <2>2. InStore(s)
    BY <1>1, <2>1 DEF EndSession, Drop, HasSessions, InStore
  <2>3. Settled(s)
    BY <1>1, <2>2 DEF EndSession, Known, Settled
  <2>4. QED
    BY <2>1, <2>3
<1>2. ASSUME NEW t \in Threads, CleanupStale(t)
      PROVE  left_at' = clock /\ clock' = clock /\ UNCHANGED flags /\ \E r \in Sessions : Settled(r)
  <2>1. HasSessions /\ ~HasSessions' /\ left_at' = clock /\ UNCHANGED <<clock, flags>>
    BY <1>2 DEF CleanupStale, Drop
  <2>2. PICK s \in Sessions : InStore(s)
    BY <2>1 DEF HasSessions
  <2>3. last_seen[s] <= at[t] - STALE /\ last_seen[s] \in Nat
    BY <1>0, <1>2, <2>1, <2>2 DEF CleanupStale, Drop, StaleFor, HasSessions, InStore, TypeOK
  <2>4. at[t] <= clock /\ at[t] \in Nat
    BY <1>0, <1>2 DEF CleanupStale, FreshLocals, Idle, TypeOK
  <2>5. ASSUME NEW h \in Handlers, pc[h] = "start_cancel", sess[h] = s PROVE FALSE
    <3>1. last_seen[s] + STALL >= at[h]
      BY <2>2, <2>5 DEF SilenceInv, SeenLately, Confirming
    <3>2. at[h] \in Nat /\ clock <= at[h] + STALL
      BY <1>0, <2>5, HandlerFresh DEF Idle
    <3>3. QED
      BY <1>0, <2>3, <2>4, <3>1, <3>2
  <2>6. QED
    BY <2>1, <2>2, <2>5 DEF Settled
<1>3. ASSUME NEW h \in Handlers, NEW s \in Sessions, StartBegin(h, s) \/ HeartbeatBegin(h, s)
      PROVE  left_at' = left_at
  BY <1>3 DEF StartBegin, HeartbeatBegin, history
<1>4. ASSUME NEW h \in Handlers, HandlerStep(h) PROVE left_at' = left_at
  BY <1>4 DEF HandlerStep, StartPut, StartCancel, HeartbeatPut, HeartbeatCancel, Snapshot,
              Confirm, history
<1>5. ASSUME NEW t \in Threads, Evaluate(t), ~CleanupStale(t) PROVE left_at' = left_at
  BY <1>5 DEF Evaluate, ReadHasSessions, ReadNow, AlreadyRequested, SessionRestored,
              Schedule, StillInGrace, DeferForJobs, RequestShutdown, CallRequestShutdown,
              Decide, history
<1>6. JobChange \/ MaintenanceBegin \/ StopServing \/ Tick => left_at' = left_at
  BY DEF JobChange, SetJob, MaintenanceBegin, StopServing, Tick, history
<1>7. QED
  BY NextCases, <1>1, <1>2, <1>3, <1>4, <1>5, <1>6

\* A schedule under the last session to leave is young, and gives it nearly a grace period.
LEMMA LeftBeforeNext ==
    ASSUME CoordinatorInv, SilenceInv, TimelyInv, STALE > 2 * STALL, Next
    PROVE  LeftBefore' /\ left_at' <= clock'
<1>0. /\ TypeOK /\ FreshLocals /\ DeadlineIffScheduled /\ Punctual /\ YoungSchedule /\ LeftBefore
      /\ left_at <= clock /\ left_at \in OptTime
      /\ clock \in Nat /\ last_maintenance \in OptTime /\ shutdown_deadline \in OptTime
      /\ GRACE \in Nat /\ MONITOR \in Nat /\ STALL \in Nat
  BY ConfigAssumption DEF CoordinatorInv, TimelyInv, TypeOK
<1>1. left_at' <= clock'
  BY <1>0, LastSettled, MaintenanceNext DEF MaintenanceBegin, Tick
<1>2. ASSUME ~shutdown_requested', shutdown_deadline' # NoTime, left_at' # NoTime
      PROVE  shutdown_deadline' + MONITOR + 3 * STALL >= left_at' + GRACE
  <2>1. /\ ~shutdown_requested
        /\ \/ shutdown_deadline' = shutdown_deadline
           \/ /\ shutdown_deadline' \in Nat /\ shutdown_deadline' >= GRACE
              /\ shutdown_deadline' + STALL >= clock + GRACE
              /\ UNCHANGED <<clock, last_maintenance, left_at>>
              /\ \E t \in Threads : Schedule(t)
    BY <1>0, <1>2, DeadlineNext
  <2>2. CASE shutdown_deadline' # shutdown_deadline
    BY <1>0, <2>1, <2>2
  <2>3. CASE shutdown_deadline' = shutdown_deadline /\ left_at' = left_at
    BY <1>2, <2>1, <2>3, <1>0 DEF LeftBefore
  <2>4. CASE shutdown_deadline' = shutdown_deadline /\ left_at' # left_at
    <3>1. left_at' = clock /\ \E s \in Sessions : Settled(s)
      BY <2>4, LastSettled
    <3>2. \/ shutdown_deadline + STALL >= last_maintenance + GRACE
          \/ Watching /\ shutdown_deadline + MONITOR + 2 * STALL >= last_maintenance + GRACE
      BY <1>0, <1>2, <2>1, <2>4, <3>1 DEF YoungSchedule
    <3>3. shutdown_deadline >= GRACE
      BY <1>2, <2>4 DEF TimelyInv
    <3>4. CASE last_maintenance = NoTime
      BY <1>0, <2>4, <3>1, <3>3, <3>4 DEF Punctual
    <3>5. CASE last_maintenance # NoTime /\ ~Watching
      BY <1>0, <2>4, <3>1, <3>2, <3>5 DEF Punctual
    <3>6. CASE last_maintenance # NoTime /\ Watching
      <4>1. clock <= last_maintenance + STALL
        BY <3>6 DEF Watching, Evaluating, CoordinatorInv, FreshLocals, Idle, Threads
      <4>2. QED
        BY <1>0, <2>4, <3>1, <3>2, <4>1
    <3>7. QED
      BY <3>4, <3>5, <3>6
  <2>5. QED
    BY <2>2, <2>3, <2>4
<1>3. QED
  BY <1>1, <1>2 DEF LeftBefore

\* Every step keeps the schedules timely.
LEMMA TimelyNext ==
    ASSUME CoordinatorInv, DriverInv, SilenceInv, TimelyInv, STALE > 2 * STALL, Next
    PROVE  TimelyInv'
<1>1. CoordinatorInv'
  BY InvNext
<1>2. Punctual' /\ YoungSchedule' /\ LeftBefore' /\ left_at' <= clock'
  BY <1>1, PunctualNext, YoungNext, LeftBeforeNext DEF CoordinatorInv, TimelyInv
<1>3. shutdown_deadline' # NoTime => AutoShutdownEnabled /\ shutdown_deadline' >= GRACE
  BY ScheduledAutoNext DEF CoordinatorInv, TimelyInv
<1>4. QED
  BY <1>2, <1>3 DEF TimelyInv

\* The last tab gets its grace period, less what a schedule made under it can survive the monitor,
\* wherever a session outlives two calls.
THEOREM GraceAfterLastSessionCorrect ==
    ASSUME STALE > 2 * STALL
    PROVE  Spec => GraceAfterLastSession
<1>1. Init => TimelyInv
  BY DEF Init, TimelyInv, Punctual, YoungSchedule, LeftBefore
<1>2. TimelyInv /\ UNCHANGED vars => TimelyInv'
  BY DEF vars, flags, locals, history, TimelyInv, Punctual, YoungSchedule, LeftBefore, Settled,
         InStore, Watching, Evaluating
<1>3. CoordinatorInv /\ DriverInv /\ SilenceInv /\ TimelyInv /\ Next => TimelyInv'
  BY TimelyNext
<1>4. CoordinatorInv /\ TimelyInv /\ [Next]_vars
         => [Requesting /\ left_at # NoTime
                => clock >= left_at + GRACE - MONITOR - 3 * STALL]_vars
  <2> SUFFICES ASSUME CoordinatorInv, TimelyInv, Next, Requesting, left_at # NoTime
               PROVE  clock >= left_at + GRACE - MONITOR - 3 * STALL
    OBVIOUS
  <2>1. PICK t \in Threads : /\ Decide(t) /\ ~has[t] /\ at[t] >= shutdown_deadline
                            /\ shutdown_deadline # NoTime /\ ~shutdown_requested
    BY RequestingStep
  <2>2. at[t] \in Nat /\ at[t] <= clock /\ clock \in Nat
    BY <2>1, DecideFresh DEF CoordinatorInv
  <2>3. /\ shutdown_deadline + MONITOR + 3 * STALL >= left_at + GRACE
        /\ shutdown_deadline \in Int /\ left_at \in Int
    BY <2>1 DEF TimelyInv, LeftBefore, CoordinatorInv, TypeOK
  <2>4. QED
    BY <2>1, <2>2, <2>3, ConfigAssumption
<1>5. QED
  BY InvCorrect, DriverCorrect, SilenceCorrect, <1>1, <1>2, <1>3, <1>4, PTL
     DEF Spec, GraceAfterLastSession
=============================================================================
