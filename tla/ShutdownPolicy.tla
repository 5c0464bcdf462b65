--------------------------- MODULE ShutdownPolicy ---------------------------
(***************************************************************************)
(* What ShutdownCoordinator promises about the end of the app, without     *)
(* sessions, jobs or threads: a shutdown is scheduled, served a grace      *)
(* period that may be cancelled, perhaps deferred, requested once, and     *)
(* never revoked after that.                                               *)
(***************************************************************************)
EXTENDS Integers

CONSTANTS GRACE,    \* the grace period
          SLACK     \* how old the clock an evaluation decides with may be

VARIABLES clock, phase, due
vars == <<clock, phase, due>>

NoTime == -1
Waiting == phase \in {"grace", "deferred"}

Init == clock = 0 /\ phase = "running" /\ due = NoTime

Tick == clock' = clock + 1 /\ UNCHANGED <<phase, due>>

Schedule ==
    /\ phase = "running"
    /\ phase' = "grace"
    /\ due' \in clock + GRACE - SLACK .. clock + GRACE
    /\ UNCHANGED clock

Cancel ==
    /\ Waiting
    /\ phase' = "running" /\ due' = NoTime
    /\ UNCHANGED clock

Defer ==
    /\ phase = "grace" /\ clock >= due
    /\ phase' = "deferred"
    /\ UNCHANGED <<clock, due>>

Request ==
    /\ Waiting /\ clock >= due
    /\ phase' = "requested" /\ due' = NoTime
    /\ UNCHANGED clock

Deliver ==
    /\ phase = "requested" /\ phase' = "exiting"
    /\ UNCHANGED <<clock, due>>

Stop ==
    /\ phase = "exiting" /\ phase' = "stopped"
    /\ UNCHANGED <<clock, due>>

Next == Tick \/ Schedule \/ Cancel \/ Defer \/ Request \/ Deliver \/ Stop

Spec == Init /\ [][Next]_vars
=============================================================================
