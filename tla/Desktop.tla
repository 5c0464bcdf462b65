------------------------------ MODULE Desktop -------------------------------
(***************************************************************************)
(* The desktop app: copies of the launcher (launcher.py) that share one    *)
(* port, the server one of them becomes, and the browser tabs they open    *)
(* (LayoutShell.tsx), each of which keeps a runtime session alive.         *)
(*                                                                         *)
(* The server decides on its end as ShutdownPolicy says (RuntimeShutdown   *)
(* has its threads and its clock); here its phase is "running", "pending"  *)
(* (grace period, or deferred by a job), "requested" or "down". There is   *)
(* no clock: a page is DUE if the server will hear of it within the grace  *)
(* period, because it was awake when the period began (30 s, against a     *)
(* heartbeat every 15 s). A session can be stale unless its tab is awake.  *)
(* Requests are lost only with the server, and answered in any order.      *)
(***************************************************************************)
EXTENDS Integers, FiniteSets

CONSTANTS
    Launchers,      \* copies of the app
    BEATS,          \* bound: heartbeats a tab has under way
    SESSIONS,       \* bound: the sessions anyone knows of at a time
    MISHAPS,        \* bound: how often a thing goes wrong that a day admits
    Days            \* the days considered: which launchers are started, how many heartbeats
                    \* overlap, how often a thing goes wrong, and what may

Mishap == {"kill", "sleep", "open", "loading"}
Day == [launchers : SUBSET Launchers, beats : 1 .. BEATS, mishaps : 0 .. MISHAPS, what : SUBSET Mishap]

Nobody == "nobody"

ASSUME DesktopAssumption ==
    /\ BEATS \in Nat \ {0} /\ SESSIONS \in Nat /\ MISHAPS \in Nat
    /\ Days \subseteq Day /\ Nobody \notin Launchers

VARIABLES
    day,
    server,         \* [phase, owner: the launcher that holds the port, sessions]
    launcher,       \* what main() of each launcher is doing
    opener,         \* what its browser thread is doing
    tab,            \* the pages that launchers have opened
    beacons,        \* sessions whose end is on its way to the server
    adrift,         \* start requests under way of pages that are gone
    mishaps,
    shown,          \* history: the launchers that have shown an error
    silent,         \* history: why a launcher ended without: it "lost" the port, or "waited"
    happened        \* history: what has happened that is out of the ordinary

net == <<beacons, adrift>>
history == <<mishaps, shown, silent, happened>>
vars == <<day, server, launcher, opener, tab, net, history>>

\* A launcher may open a page when it attaches to a server, and one of its own server.
Tabs == Launchers \X {"attach", "own"}
Slots == 1 .. BEATS
SessionIds == 1 .. SESSIONS
NoSession == 0

NoTab == [state |-> "unused", due |-> FALSE, ref |-> NoSession, start |-> "none", answer |-> NoSession,
          beat |-> [i \in Slots |-> "none"], sent |-> [i \in Slots |-> NoSession]]
Page(due) == [NoTab EXCEPT !.state = "loading", !.due = due]

Down == server.phase = "down"
Awake(t) == tab[t].state \in {"loading", "open"}
Live(t) == tab[t].state \in {"open", "asleep"}

Init ==
    /\ day \in Days
    /\ server = [phase |-> "down", owner |-> Nobody, sessions |-> {}]
    /\ launcher = [l \in Launchers |-> "off"]
    /\ opener = [l \in Launchers |-> "off"]
    /\ tab = [t \in Tabs |-> NoTab]
    /\ beacons = {} /\ adrift = 0
    /\ mishaps = 0 /\ shown = {} /\ happened = {}
    /\ silent = [l \in Launchers |-> "no"]

GoesWrong(what) == mishaps < day.mishaps /\ what \in day.what /\ mishaps' = mishaps + 1

Goes(l, pc) == launcher' = [launcher EXCEPT ![l] = pc]

\* Mutant: what the server knew outlives it.
Gone_KeepsSessions(l) ==
    /\ server' = [server EXCEPT !.phase = "down"]
    /\ Goes(l, "ended")
    /\ opener' = [opener EXCEPT ![l] = "off"]

\* The server is gone, and with it the process of its launcher.
Gone(l) ==
    /\ server' = [phase |-> "down", owner |-> Nobody, sessions |-> {}]
    /\ Goes(l, "ended")
    /\ opener' = [opener EXCEPT ![l] = "off"]

\* A request that starts or sustains a session takes a shutdown back, unless it is decided.
Cancelled(phase) == IF phase = "pending" THEN "running" ELSE phase
\* The end of a session begins the grace period if there is no other.
Ended(s) ==
    [server EXCEPT !.sessions = @ \ s,
                   !.phase = IF s \cap server.sessions # {} /\ server.sessions \subseteq s /\ @ = "running"
                             THEN "pending" ELSE @]
\* When a period begins, whoever is awake will be heard of within it.
Due(was, now, tabs) ==
    IF was # "pending" /\ now = "pending"
    THEN [t \in Tabs |-> IF tabs[t].state \in {"loading", "open"} THEN [tabs[t] EXCEPT !.due = TRUE] ELSE tabs[t]]
    ELSE tabs

-----------------------------------------------------------------------------
(* launcher.py *)

\* get_health_state, for what asks it: a slow server counts as none.
Health(answer) ==
    IF ~Down /\ answer
    THEN IF server.phase = "running" THEN "running" ELSE "shutting_down"
    ELSE "none"
Slow(answer) == happened' = IF Down \/ answer THEN happened ELSE happened \cup {"slow"}

Launch(l) ==
    /\ launcher[l] = "off" /\ l \in day.launchers
    /\ Goes(l, "probe")
    /\ UNCHANGED <<server, opener, tab, net, history>>

\* Mutant: a server that is shutting down is waited for, but no page is opened on it.
Probe_NoPage(l, answer) ==
    /\ launcher[l] = "probe"
    /\ CASE Health(answer) = "none"          -> Goes(l, "check") /\ tab' = tab
         [] Health(answer) = "running"       -> Goes(l, "ended") /\ tab' = [tab EXCEPT ![<<l, "attach">>] = Page(FALSE)]
         [] Health(answer) = "shutting_down" -> Goes(l, "await") /\ tab' = tab
    /\ Slow(answer)
    /\ UNCHANGED <<server, opener, net, mishaps, shown, silent>>

\* try_attach_to_existing_server: a page is opened on any server that answers,
Probe(l, answer) ==
    /\ launcher[l] = "probe"
    /\ CASE Health(answer) = "none"          -> Goes(l, "check") /\ tab' = tab
         [] Health(answer) = "running"       -> Goes(l, "ended") /\ tab' = [tab EXCEPT ![<<l, "attach">>] = Page(FALSE)]
         [] Health(answer) = "shutting_down" -> Goes(l, "await") /\ tab' = [tab EXCEPT ![<<l, "attach">>] = Page(FALSE)]
    /\ Slow(answer)
    /\ UNCHANGED <<server, opener, net, mishaps, shown, silent>>

\* Mutant: a server that has stopped answering counts as reused.
Await_NoneIsReused(l, answer) ==
    /\ launcher[l] = "await"
    /\ Goes(l, IF Health(answer) = "shutting_down" THEN "await" ELSE "ended")
    /\ Slow(answer)
    /\ UNCHANGED <<server, opener, tab, net, mishaps, shown, silent>>

\* and one that is shutting down is watched, until it runs on,
Await(l, answer) ==
    /\ launcher[l] = "await"
    /\ CASE Health(answer) = "none"          -> Goes(l, "await_port")
         [] Health(answer) = "running"       -> Goes(l, "ended")
         [] Health(answer) = "shutting_down" -> Goes(l, "await")
    /\ Slow(answer)
    /\ UNCHANGED <<server, opener, tab, net, mishaps, shown, silent>>

\* it has left the port,
AwaitPort(l) ==
    /\ launcher[l] = "await_port"
    /\ Goes(l, IF Down THEN "check" ELSE "await")
    /\ UNCHANGED <<server, opener, tab, net, history>>

\* or RECONNECT_TIMEOUT_SECONDS have passed.
AwaitEnds(l) ==
    /\ launcher[l] = "await"
    /\ Goes(l, "ended")
    /\ silent' = [silent EXCEPT ![l] = "waited"]
    /\ UNCHANGED <<server, opener, tab, net, mishaps, shown, happened>>

\* main: a port in use is taken for another program's.
Check(l) ==
    /\ launcher[l] = "check"
    /\ IF Down
       THEN Goes(l, "starting") /\ opener' = [opener EXCEPT ![l] = "waiting"] /\ shown' = shown
       ELSE Goes(l, "ended") /\ shown' = shown \cup {l} /\ opener' = opener
    /\ UNCHANGED <<server, tab, net, mishaps, silent, happened>>

\* server.run binds the port when the app has come up, with no session yet; uvicorn exits
\* the process when the port has been taken meanwhile.
Bind(l) ==
    /\ launcher[l] = "starting"
    /\ IF Down
       THEN /\ server' = [phase |-> "running", owner |-> l, sessions |-> {}]
            /\ Goes(l, "serving")
            /\ happened' = happened
                 \cup (IF \E k \in Launchers : launcher[k] = "check" THEN {"raced"} ELSE {})
                 \cup (IF \E k \in Launchers : launcher[k] \in {"await", "await_port"} THEN {"relayed"} ELSE {})
            /\ UNCHANGED <<opener, silent>>
       ELSE /\ Goes(l, "ended")
            /\ opener' = [opener EXCEPT ![l] = "off"]
            /\ silent' = [silent EXCEPT ![l] = "lost"]
            /\ UNCHANGED <<server, happened>>
    /\ UNCHANGED <<tab, net, mishaps, shown>>

\* wait_and_open_browser: any server's answer will do; a thread no one answers says so.
OpenBrowser(l, answer) ==
    /\ opener[l] = "waiting"
    /\ IF Health(answer) # "none"
       THEN /\ tab' = [tab EXCEPT ![<<l, "own">>] = Page(server.owner = l)]
            /\ shown' = shown
            /\ happened' = IF server.owner = l THEN happened ELSE happened \cup {"crossed"}
       ELSE /\ ~answer
            /\ shown' = shown \cup {l} /\ happened' = happened \cup {"slow"} /\ tab' = tab
    /\ opener' = [opener EXCEPT ![l] = "off"]
    /\ UNCHANGED <<server, launcher, net, mishaps, silent>>

-----------------------------------------------------------------------------
(* The server's own steps *)

\* Sessions whose tab does not send heartbeats.
Heard == {tab[t].ref : t \in {u \in Tabs : tab[u].state = "open"}}
            \cup {tab[t].answer : t \in {u \in Tabs : tab[u].state = "open" /\ tab[u].start = "answered"}}
Silent == server.sessions \ Heard

\* Mutant: stale sessions are not looked for.
Maintain_KeepsStale(stale) ==
    LET over == (\A t \in Tabs : ~(Awake(t) /\ tab[t].due)) /\ opener[server.owner] = "off"
        phase == IF server.sessions # {} THEN Cancelled(server.phase)
                 ELSE IF server.phase = "running" THEN "pending"
                 ELSE IF over THEN "requested" ELSE "pending" IN
    /\ server.phase \in {"running", "pending"}
    /\ server' = [server EXCEPT !.phase = phase]
    /\ tab' = Due(server.phase, phase, tab)
    /\ UNCHANGED <<launcher, opener, net, history>>

\* run_maintenance. The grace period has not passed while a page is due, or the launcher's own.
Maintain(stale) ==
    LET left == server.sessions \ stale
        over == (\A t \in Tabs : ~(Awake(t) /\ tab[t].due)) /\ opener[server.owner] = "off"
        phase == IF left # {} THEN Cancelled(server.phase)
                 ELSE IF server.phase = "running" THEN "pending"
                 ELSE IF over THEN "requested" ELSE "pending" IN
    /\ server.phase \in {"running", "pending"}
    /\ server' = [server EXCEPT !.sessions = left, !.phase = phase]
    /\ tab' = Due(server.phase, phase, tab)
    /\ UNCHANGED <<launcher, opener, net, history>>

\* uvicorn sees should_exit, and closes the port.
Exit ==
    /\ server.phase = "requested"
    /\ Gone(server.owner)
    /\ UNCHANGED <<tab, net, history>>

-----------------------------------------------------------------------------
(* LayoutShell.tsx *)

\* A session's id is one that nobody knows.
Fresh == SessionIds \ (server.sessions \cup beacons \cup
            UNION {{tab[t].ref, tab[t].answer} \cup {tab[t].sent[i] : i \in Slots} : t \in Tabs})
NewSession == CHOOSE s \in Fresh : TRUE
Started(s) == [server EXCEPT !.sessions = @ \cup {s}, !.phase = Cancelled(@)]

\* ensureSession
Ensured(p) == IF p.start = "none" /\ p.ref = NoSession THEN [p EXCEPT !.start = "asked"] ELSE p

Load(t) ==
    /\ tab[t].state = "loading"
    /\ tab' = [tab EXCEPT ![t] = IF Down THEN [NoTab EXCEPT !.state = "failed"]
                                 ELSE Ensured([@ EXCEPT !.state = "open"])]
    /\ UNCHANGED <<server, launcher, opener, net, history>>

\* The server has started the session, or there is no server.
StartHandled(t) ==
    /\ Live(t) /\ tab[t].start = "asked"
    /\ IF Down
       THEN /\ tab' = [tab EXCEPT ![t] = [@ EXCEPT !.start = "none", !.ref = NoSession]]
            /\ server' = server
       ELSE /\ Fresh # {}
            /\ tab' = [tab EXCEPT ![t] = [@ EXCEPT !.start = "answered", !.answer = NewSession, !.due = FALSE]]
            /\ server' = Started(NewSession)
    /\ UNCHANGED <<launcher, opener, net, history>>

StartAnswered(t) ==
    /\ tab[t].state = "open" /\ tab[t].start = "answered"
    /\ tab' = [tab EXCEPT ![t] = [@ EXCEPT !.start = "none", !.ref = tab[t].answer, !.answer = NoSession]]
    /\ UNCHANGED <<server, launcher, opener, net, history>>

\* sendHeartbeat, of the timer or as the page comes into view: neither waits for the last one.
Beat(t) ==
    /\ tab[t].state = "open"
    /\ IF tab[t].ref = NoSession
       THEN tab' = [tab EXCEPT ![t] = Ensured(@)] /\ happened' = happened
       ELSE /\ Cardinality({i \in Slots : tab[t].beat[i] # "none"}) < day.beats
            /\ LET i == CHOOSE j \in Slots : tab[t].beat[j] = "none" IN
               tab' = [tab EXCEPT ![t] = [@ EXCEPT !.beat[i] = "asked", !.sent[i] = tab[t].ref]]
            /\ happened' = IF \E i \in Slots : tab[t].beat[i] # "none"
                           THEN happened \cup {"overlap"} ELSE happened
    /\ UNCHANGED <<server, launcher, opener, net, mishaps, shown, silent>>

\* heartbeat_runtime_session: 404 for a session the server does not know.
BeatHandled(t, i) ==
    LET known == ~Down /\ tab[t].sent[i] \in server.sessions IN
    /\ Live(t) /\ tab[t].beat[i] = "asked"
    /\ tab' = [tab EXCEPT ![t] = [@ EXCEPT !.beat[i] = IF Down \/ known THEN "none" ELSE "gone",
                                         !.sent[i] = NoSession, !.due = tab[t].due /\ ~known]]
    /\ server' = IF known THEN [server EXCEPT !.phase = Cancelled(@)] ELSE server
    /\ UNCHANGED <<launcher, opener, net, history>>

\* Mutant: a 404 is taken for a network error.
BeatGone_Ignored(t, i) ==
    /\ tab[t].state = "open" /\ tab[t].beat[i] = "gone"
    /\ tab' = [tab EXCEPT ![t] = [@ EXCEPT !.beat[i] = "none"]]
    /\ UNCHANGED <<server, launcher, opener, net, history>>

\* Whichever session the page has by now is forgotten.
BeatGone(t, i) ==
    /\ tab[t].state = "open" /\ tab[t].beat[i] = "gone"
    /\ tab' = [tab EXCEPT ![t] = Ensured([@ EXCEPT !.beat[i] = "none", !.ref = NoSession])]
    /\ UNCHANGED <<server, launcher, opener, net, history>>

\* Mutant: no beacon is sent.
Leave_NoBeacon(t, next) ==
    /\ tab[t].state = "open" /\ next = "closed"
    /\ tab' = [tab EXCEPT ![t] = [NoTab EXCEPT !.state = next, !.due = tab[t].due]]
    /\ adrift' = IF tab[t].start = "asked" THEN adrift + 1 ELSE adrift
    /\ happened' = IF tab[t].start # "none" THEN happened \cup {"left"} ELSE happened
    /\ UNCHANGED <<server, launcher, opener, beacons, mishaps, shown, silent>>

\* sendEndBeacon, as the page is left: it closes, reloads, or stays after all. A start under
\* way goes on without it.
Leave(t, next) ==
    /\ tab[t].state = "open"
    /\ beacons' = IF tab[t].ref = NoSession THEN beacons ELSE beacons \cup {tab[t].ref}
    /\ IF next = "open"
       THEN /\ tab' = [tab EXCEPT ![t] = [@ EXCEPT !.ref = NoSession]]
            /\ adrift' = adrift
            /\ happened' = IF \E i \in Slots : tab[t].beat[i] # "none" THEN happened \cup {"overlap"} ELSE happened
       ELSE /\ tab' = [tab EXCEPT ![t] = [NoTab EXCEPT !.state = next, !.due = tab[t].due]]
            /\ adrift' = IF tab[t].start = "asked" THEN adrift + 1 ELSE adrift
            /\ happened' = IF tab[t].start # "none" THEN happened \cup {"left"} ELSE happened
    /\ IF next = "closed" THEN mishaps' = mishaps ELSE GoesWrong(next)
    /\ UNCHANGED <<server, launcher, opener, shown, silent>>

EndHandled(s) ==
    /\ s \in beacons
    /\ beacons' = beacons \ {s}
    /\ server' = IF Down THEN server ELSE Ended({s})
    /\ tab' = Due(server.phase, server'.phase, tab)
    /\ UNCHANGED <<launcher, opener, adrift, history>>

AdriftHandled ==
    /\ adrift > 0
    /\ adrift' = adrift - 1
    /\ IF Down THEN server' = server ELSE Fresh # {} /\ server' = Started(NewSession)
    /\ UNCHANGED <<launcher, opener, tab, beacons, history>>

-----------------------------------------------------------------------------
(* The machine: a tab may be frozen, a server killed *)

Sleep(t) ==
    /\ tab[t].state = "open" /\ GoesWrong("sleep")
    /\ tab' = [tab EXCEPT ![t] = [@ EXCEPT !.state = "asleep", !.due = FALSE]]
    /\ happened' = happened \cup {"slept"}
    /\ UNCHANGED <<server, launcher, opener, net, shown, silent>>

Wake(t) ==
    /\ tab[t].state = "asleep"
    /\ tab' = [tab EXCEPT ![t] = [@ EXCEPT !.state = "open"]]
    /\ UNCHANGED <<server, launcher, opener, net, history>>

Kill ==
    /\ ~Down /\ GoesWrong("kill")
    /\ Gone(server.owner)
    /\ happened' = happened \cup {"killed"}
    /\ UNCHANGED <<tab, net, shown, silent>>

LauncherStep(l) ==
    \/ AwaitPort(l) \/ AwaitEnds(l) \/ Check(l) \/ Bind(l)
    \/ \E answer \in BOOLEAN : Probe(l, answer) \/ Await(l, answer)
TabStep(t) ==
    \/ Load(t) \/ StartHandled(t) \/ StartAnswered(t) \/ Beat(t)
    \/ \E i \in Slots : BeatHandled(t, i) \/ BeatGone(t, i)

SameDay == day' = day

Next ==
    /\ \/ \E l \in Launchers : Launch(l) \/ LauncherStep(l) \/ \E answer \in BOOLEAN : OpenBrowser(l, answer)
       \/ \E stale \in SUBSET Silent : Maintain(stale)
       \/ Exit \/ Kill \/ AdriftHandled \/ \E s \in beacons : EndHandled(s)
       \/ \E t \in Tabs : \/ TabStep(t) \/ Sleep(t) \/ Wake(t)
                          \/ \E next \in {"open", "loading", "closed"} : Leave(t, next)
    /\ SameDay

Spec == Init /\ [][Next]_vars

\* Threads and requests go on, timers fire, and a session no one speaks for gets stale. The
\* user and the machine need not do anything.
Fairness ==
    /\ \A l \in Launchers : /\ WF_vars(SameDay /\ LauncherStep(l))
                           /\ WF_vars(SameDay /\ \E answer \in BOOLEAN : OpenBrowser(l, answer))
    /\ WF_vars(SameDay /\ Maintain(Silent)) /\ WF_vars(SameDay /\ Exit)
    /\ WF_vars(SameDay /\ AdriftHandled) /\ WF_vars(SameDay /\ \E s \in beacons : EndHandled(s))
    /\ \A t \in Tabs :
          /\ WF_vars(SameDay /\ (Load(t) \/ StartHandled(t))) /\ WF_vars(SameDay /\ StartAnswered(t))
          /\ WF_vars(SameDay /\ Beat(t))
          /\ \A i \in Slots : WF_vars(SameDay /\ (BeatHandled(t, i) \/ BeatGone(t, i)))

FairSpec == Spec /\ Fairness

-----------------------------------------------------------------------------
(* Properties *)

\* Every variable has its type; there is an owner and there are sessions only while a server is up.
TypeOK ==
    /\ server \in [phase : {"running", "pending", "requested", "down"}, owner : Launchers \cup {Nobody},
                   sessions : SUBSET SessionIds]
    /\ Down => server.owner = Nobody /\ server.sessions = {}
    /\ \A l \in Launchers : launcher[l] = "serving" <=> server.owner = l
    /\ launcher \in [Launchers -> {"off", "probe", "await", "await_port", "check", "starting", "serving", "ended"}]
    /\ opener \in [Launchers -> {"off", "waiting"}]
    /\ tab \in [Tabs -> [state : {"unused", "loading", "failed", "open", "asleep", "closed"}, due : BOOLEAN,
                         ref : SessionIds \cup {NoSession}, start : {"none", "asked", "answered"},
                         answer : SessionIds \cup {NoSession}, beat : [Slots -> {"none", "asked", "gone"}],
                         sent : [Slots -> SessionIds \cup {NoSession}]]]
    /\ beacons \subseteq SessionIds /\ adrift \in Nat /\ mishaps \in 0 .. MISHAPS
    /\ shown \subseteq Launchers /\ silent \in [Launchers -> {"no", "lost", "waited"}]
    /\ happened \subseteq {"slow", "raced", "relayed", "left", "overlap", "slept", "killed", "crossed"}

\* A user who starts the app sees a page or an error. The exceptions: another copy took the port
\* while this one came up, the server it met took longer than the reconnect window to stop, or
\* another copy's server answered its browser thread, and then stopped, or took the place of the
\* server it waited for between two looks; and a server that was killed or stopped while the
\* page slept may not be there for a reload. "Another program uses the port" is shown beside the
\* app's own server only when that was slow to answer, or another copy took the port between
\* the two looks at it.
EveryLaunchIsAnswered ==
    /\ \A l \in Launchers :
        launcher[l] = "ended" =>
            \/ l \in shown \/ silent[l] # "no" \/ happened \cap {"killed", "crossed", "relayed", "slept"} # {}
            \/ \E t \in {<<l, "attach">>, <<l, "own">>} : tab[t].state \notin {"unused", "failed"}
    /\ shown # {} => happened \cap {"slow", "raced"} # {}

\* Every session the server keeps is held by a page that is there, or on its way to or from it,
\* unless a page was left while its start was under way, or a second heartbeat or the end of a
\* session was sent while a heartbeat was under way.
OrphansHaveACause ==
    happened \cap {"left", "overlap"} = {} =>
        server.sessions \subseteq beacons \cup UNION {{tab[t].ref, tab[t].answer} : t \in {u \in Tabs : Live(u)}}

\* An open page is left without a server, and without a launcher about to start one, only if
\* it slept, the server was killed, or a launcher that had opened a page on another's server just
\* before its end stopped waiting for that, or lost the port.
NoPageIsStranded ==
    /\ Down
    /\ \E t \in Tabs : tab[t].state \in {"loading", "open"}
    /\ \A l \in Launchers : launcher[l] \in {"off", "ended"}
    => \/ happened \cap {"slept", "killed"} # {}
       \/ \E l \in Launchers : silent[l] # "no"

\* A server that no page uses any more stops: what pages left behind does not keep it.
AbandonedServerStops ==
    (<>[](\A t \in Tabs : tab[t].state \notin {"loading", "open"})) => <>[]Down

\* A page that stays open, with a server that stays up, has a session there time and again,
\* whatever became of the server or the session it had before.
PagesReconnect ==
    \A t \in Tabs :
        (<>[](tab[t].state = "open" /\ ~Down)) => []<>(tab[t].ref \in server.sessions)
=============================================================================
