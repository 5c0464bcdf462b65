--------------------------- MODULE DesktopProofs ----------------------------
(***************************************************************************)
(* Proofs about Desktop, for any number of launchers, heartbeats under way *)
(* and mishaps.                                                            *)
(*                                                                         *)
(* The invariant says of each launcher what it owes whoever started it     *)
(* (Answered), of each page why no server minds it (Minded, Excused), and  *)
(* of each session which page or call holds it (Kept, Held). There is one  *)
(* lemma per action, and in it one step per conjunct of the invariant.     *)
(***************************************************************************)
EXTENDS Desktop, FiniteSetTheorems, TLAPS

-----------------------------------------------------------------------------
(* The inductive invariant *)

Phases == {"running", "pending", "requested", "down"}
ServerRecord == [phase : Phases, owner : Launchers \cup {Nobody}, sessions : SUBSET SessionIds]
Handle == SessionIds \cup {NoSession}
Beats == {"none", "asked", "gone"}
PageRecord == [state : {"unused", "loading", "failed", "open", "asleep", "closed"}, due : BOOLEAN,
               ref : Handle, start : {"none", "asked", "answered"},
               answer : Handle, beat : [Slots -> Beats],
               sent : [Slots -> Handle]]

\* The pages a launcher opens: on another copy's server, and on its own.
Attach(l) == <<l, "attach">>
Own(l) == <<l, "own">>

\* The types of the variables, in parts; a server has an owner, and the owner serves.
ServerTypes ==
    /\ server \in ServerRecord
    /\ Down => server.owner = Nobody /\ server.sessions = {}
    /\ ~Down => server.owner \in Launchers
LauncherTypes ==
    /\ launcher \in [Launchers -> {"off", "probe", "await", "await_port", "check", "starting",
                                   "serving", "ended"}]
    /\ opener \in [Launchers -> {"off", "waiting"}]
    /\ shown \subseteq Launchers /\ silent \in [Launchers -> {"no", "lost", "waited"}]
    /\ \A l \in Launchers : launcher[l] = "serving" <=> server.owner = l
PageTypes == tab \in [Tabs -> PageRecord]
OtherTypes ==
    /\ day \in Days
    /\ beacons \subseteq SessionIds /\ adrift \in Nat /\ mishaps \in 0 .. MISHAPS
    /\ happened \subseteq {"slow", "raced", "relayed", "left", "overlap", "slept", "killed", "crossed"}

\* A thread that is to open a page belongs to a launcher that starts a server, and holds the
\* server back from stopping.
Browsing ==
    /\ \A l \in Launchers : opener[l] = "waiting" => launcher[l] \in {"starting", "serving"}
    /\ server.phase = "requested" => opener[server.owner] = "off"

\* A page that its launcher has not opened yet is unused.
Unopened ==
    \A l \in Launchers :
        /\ launcher[l] \in {"off", "probe"} => tab[Attach(l)].state = "unused"
        /\ launcher[l] \in {"off", "probe", "await", "await_port", "check"} \/ opener[l] = "waiting"
            => tab[Own(l)].state = "unused"

\* Why no server minds a page that a browser runs: it slept, its server was killed or never
\* came, or its launcher still waits for the port or has just taken it.
Excused(t) ==
    \/ "slept" \in happened \/ "killed" \in happened \/ silent[t[1]] # "no"
    \/ t[2] = "attach" /\ launcher[t[1]] \in {"await", "await_port"}
    \/ t[2] = "attach" /\ Down /\ launcher[t[1]] \in {"check", "starting"}
    \/ t[2] = "own" /\ launcher[t[1]] = "starting"

\* In the grace period a page is due to be heard of, or excused; without a server it is excused.
Minded ==
    \A t \in Tabs :
        /\ tab[t].state = "asleep" => "slept" \in happened
        /\ Awake(t) /\ server.phase = "pending" => tab[t].due \/ Excused(t)
        /\ Awake(t) /\ server.phase \in {"requested", "down"} => Excused(t)

\* What EveryLaunchIsAnswered asks for, and its exceptions.
Seen(t) == tab[t].state \notin {"unused", "failed"}
Excepted(l) == l \in shown \/ silent[l] # "no" \/ "killed" \in happened \/ "crossed" \in happened
                \/ "relayed" \in happened \/ "slept" \in happened

\* What each launcher has to show for itself, at each point of its life.
Answered ==
    \A l \in Launchers :
        /\ launcher[l] = "ended" => Excepted(l) \/ Seen(Attach(l)) \/ Seen(Own(l))
        /\ launcher[l] = "starting" /\ opener[l] = "off" => Excepted(l)
        /\ launcher[l] = "serving" /\ opener[l] = "off" => Excepted(l) \/ Seen(Own(l))
        /\ launcher[l] \in {"await", "await_port"} => Excepted(l) \/ Down \/ Seen(Attach(l))

\* "Another program uses the port" has a cause as soon as a launcher is about to say so.
Explained == "slow" \in happened \/ "raced" \in happened

Shown ==
    /\ shown # {} => Explained
    /\ ~Down => \A l \in Launchers : launcher[l] = "check" => Explained

\* A page that starts a session has none, and an answer only while it has not read it.
Handles ==
    \A t \in Tabs : /\ tab[t].start # "none" => tab[t].ref = NoSession
                    /\ tab[t].start # "answered" => tab[t].answer = NoSession

\* Unless a page was left as it started a session, or two requests crossed, every session is held
\* by a page or by a call that ends it, and a page has one heartbeat under way, for its session.
Plain == "left" \notin happened /\ "overlap" \notin happened

Held(s) == s \in beacons \/ \E t \in Tabs : Live(t) /\ (s = tab[t].ref \/ s = tab[t].answer)

OneBeat(t) ==
    \A i \in Slots :
        tab[t].beat[i] # "none" =>
            /\ tab[t].ref # NoSession
            /\ \A j \in Slots : tab[t].beat[j] # "none" => j = i
            /\ tab[t].beat[i] = "asked" => tab[t].sent[i] = tab[t].ref
            /\ tab[t].beat[i] = "gone" => tab[t].ref \notin server.sessions

Kept ==
    Plain => /\ \A s \in server.sessions : Held(s)
             /\ adrift = 0
             /\ \A t \in Tabs : OneBeat(t)

\* The inductive invariant.
IInv ==
    /\ ServerTypes /\ LauncherTypes /\ PageTypes /\ OtherTypes
    /\ Browsing /\ Unopened /\ Minded /\ Answered /\ Shown /\ Handles /\ Kept

-----------------------------------------------------------------------------
(* Lemmas about the operators *)

\* The pages of the launchers.
LEMMA Pairs ==
    \A l \in Launchers :
        /\ Attach(l) \in Tabs /\ Attach(l)[1] = l /\ Attach(l)[2] = "attach"
        /\ Attach(l) = <<l, "attach">>
        /\ Own(l) \in Tabs /\ Own(l)[1] = l /\ Own(l)[2] = "own" /\ Own(l) = <<l, "own">>
BY DEF Attach, Own, Tabs

\* No two launchers share a page.
LEMMA PairsDiffer ==
    \A l, k \in Launchers : /\ Attach(l) # Own(k)
                            /\ Attach(l) = Attach(k) => l = k
                            /\ Own(l) = Own(k) => l = k
BY DEF Attach, Own

\* Every page was opened by a launcher, and is one of its two.
LEMMA Opens ==
    \A t \in Tabs : /\ t[1] \in Launchers
                    /\ (t = Attach(t[1]) /\ t[2] = "attach") \/ (t = Own(t[1]) /\ t[2] = "own")
<1> TAKE t \in Tabs
<1>1. PICK l \in Launchers, end \in {"attach", "own"} : t = <<l, end>>
  BY DEF Tabs
<1>2. t[1] = l /\ t[2] = end
  BY <1>1
<1> QED BY <1>1, <1>2 DEF Attach, Own

\* What a launcher that asks a server for its health learns.
LEMMA HealthSays ==
    ASSUME ServerTypes, NEW answer \in BOOLEAN
    PROVE  /\ Health(answer) \in {"none", "running", "shutting_down"}
           /\ Health(answer) = "none" <=> Down \/ ~answer
           /\ Health(answer) = "running" => server.phase = "running" /\ ~Down
           /\ Health(answer) = "shutting_down" => server.phase \in {"pending", "requested"} /\ ~Down
BY DEF Health, ServerTypes, ServerRecord, Phases, Down

\* A server that does not answer in time is noted.
LEMMA SlowSays ==
    ASSUME NEW answer \in BOOLEAN, Slow(answer), OtherTypes
    PROVE  /\ \A what : what \in happened' <=> what \in happened \/ (what = "slow" /\ ~Down /\ ~answer)
           /\ happened \subseteq happened' /\ happened' \subseteq happened \cup {"slow"}
BY DEF Slow

\* What the bounds are, and where the ids of sessions lie.
LEMMA Bounds ==
    /\ BEATS \in Nat \ {0}
    /\ NoSession \in Handle /\ NoSession \notin SessionIds /\ SessionIds \subseteq Handle
BY DesktopAssumption DEF NoSession, Handle, SessionIds

\* A page as it is opened, and one that is gone.
LEMMA NoTabIs ==
    /\ NoTab \in PageRecord /\ NoTab.state = "unused" /\ NoTab.due = FALSE /\ NoTab.start = "none"
    /\ NoTab.ref = NoSession /\ NoTab.answer = NoSession
    /\ \A i \in Slots : NoTab.beat[i] = "none" /\ NoTab.sent[i] = NoSession
BY Bounds DEF NoTab, PageRecord, Beats

\* Two pages agree in all that is said of their sessions.
Fields(p, q) ==
    /\ p.start = q.start /\ p.ref = q.ref /\ p.answer = q.answer
    /\ p.beat = q.beat /\ p.sent = q.sent

\* A page that is loaded for the first time.
Opened(p) == p \in PageRecord /\ p.state = "loading" /\ Fields(p, NoTab)

\* One page changes.
Only(t, p) ==
    tab' \in [Tabs -> PageRecord] /\ tab'[t] = p /\ \A u \in Tabs : u # t => tab'[u] = tab[u]

\* A page opens.
LEMMA PageOpens ==
    ASSUME NEW t \in Tabs, NEW p, Opened(p), Only(t, p)
    PROVE  /\ PageTypes' /\ tab'[t] = p /\ tab'[t].state = "loading" /\ tab'[t].start = "none"
           /\ tab'[t].ref = NoSession /\ tab'[t].answer = NoSession
           /\ \A i \in Slots : tab'[t].beat[i] = "none"
           /\ \A u \in Tabs : u # t => tab'[u] = tab[u]
BY NoTabIs DEF Opened, Fields, Only, PageTypes

\* The grace period begins, or does not: pages change in nothing but whether they are due.
LEMMA PagesDue ==
    ASSUME PageTypes, NEW was, NEW now, tab' = Due(was, now, tab)
    PROVE  /\ PageTypes'
           /\ \A t \in Tabs :
                /\ tab'[t].state = tab[t].state /\ Fields(tab'[t], tab[t])
                /\ tab[t].due => tab'[t].due
                /\ was # "pending" /\ now = "pending" /\ Awake(t) => tab'[t].due
<1>1. ASSUME NEW t \in Tabs
      PROVE  /\ tab'[t] \in PageRecord
             /\ tab'[t].state = tab[t].state /\ Fields(tab'[t], tab[t])
             /\ tab[t].due => tab'[t].due
             /\ was # "pending" /\ now = "pending" /\ Awake(t) => tab'[t].due
  <2>1. tab[t] \in PageRecord BY DEF PageTypes
  <2>2. LET q == [tab[t] EXCEPT !.due = TRUE]
        IN q \in PageRecord /\ q.state = tab[t].state /\ Fields(q, tab[t]) /\ q.due = TRUE
    BY <2>1 DEF PageRecord, Fields
  <2>3. tab'[t] = tab[t] \/ tab'[t] = [tab[t] EXCEPT !.due = TRUE]
    BY DEF Due
  <2>4. was # "pending" /\ now = "pending" /\ Awake(t) => tab'[t] = [tab[t] EXCEPT !.due = TRUE]
    BY DEF Due, Awake
  <2> QED BY <2>1, <2>2, <2>3, <2>4 DEF Fields
<1>2. PageTypes'
  <2>1. DOMAIN tab' = Tabs /\ tab' = [t \in Tabs |-> tab'[t]] BY DEF Due, PageTypes
  <2> QED BY <1>1, <2>1 DEF PageTypes
<1> QED BY <1>1, <1>2

\* The id of a new session is one that nobody knows.
LEMMA FreshIs ==
    ASSUME Fresh # {}
    PROVE  /\ NewSession \in SessionIds /\ NewSession \notin server.sessions
           /\ NewSession \notin beacons
           /\ \A u \in Tabs : NewSession # tab[u].ref
<1>1. NewSession \in Fresh BY DEF NewSession
<1> QED BY <1>1 DEF Fresh

\* A shutdown is taken back unless it is decided.
LEMMA CancelledIs ==
    ASSUME ServerTypes
    PROVE  /\ Cancelled(server.phase) \in Phases
           /\ Cancelled(server.phase) = "down" <=> Down
           /\ Cancelled(server.phase) # "pending"
           /\ server.phase # "pending" => Cancelled(server.phase) = server.phase
           /\ server.phase = "pending" => Cancelled(server.phase) = "running"
BY DEF Cancelled, ServerTypes, ServerRecord, Phases, Down

\* A session starts.
LEMMA SessionStarts ==
    ASSUME ServerTypes, NEW s \in SessionIds, server' = Started(s)
    PROVE  /\ server' \in ServerRecord /\ server'.owner = server.owner
           /\ server'.sessions = server.sessions \cup {s}
           /\ server'.phase = Cancelled(server.phase)
<1>1. server \in ServerRecord BY DEF ServerTypes
<1>2. server' = [server EXCEPT !.sessions = server.sessions \cup {s}, !.phase = Cancelled(server.phase)]
  BY DEF Started
<1> QED BY <1>1, <1>2, CancelledIs DEF ServerRecord

\* The bounds of a day are bounds of the model.
LEMMA DayIs ==
    ASSUME day \in Days
    PROVE  day.mishaps \in 0 .. MISHAPS /\ day.beats \in 1 .. BEATS
BY DesktopAssumption DEF Day

\* Fewer heartbeats under way than a tab has slots leave one free.
LEMMA FreeSlot ==
    ASSUME day \in Days, NEW t \in Tabs,
           Cardinality({i \in Slots : tab[t].beat[i] # "none"}) < day.beats
    PROVE  \E j \in Slots : tab[t].beat[j] = "none"
<1> SUFFICES ASSUME \A j \in Slots : tab[t].beat[j] # "none" PROVE FALSE
  OBVIOUS
<1>1. {i \in Slots : tab[t].beat[i] # "none"} = 1 .. BEATS
  BY DEF Slots
<1>2. Cardinality(1 .. BEATS) = BEATS
  BY FS_Interval, DesktopAssumption
<1>3. BEATS < day.beats BY <1>1, <1>2
<1> QED BY <1>3, DayIs, DesktopAssumption

-----------------------------------------------------------------------------
(* Each action keeps the invariant *)

\* A copy of the app is started.
LEMMA LaunchStep ==
    ASSUME NEW l \in Launchers, IInv, Launch(l), SameDay
    PROVE  IInv'
<1> USE DEF SameDay, net, history
<1>1. ServerTypes' BY DEF IInv, Launch, ServerTypes, Down
<1>2. LauncherTypes' BY DEF IInv, Launch, Goes, LauncherTypes
<1>3. PageTypes' BY DEF IInv, Launch, PageTypes
<1>4. OtherTypes' BY DEF IInv, Launch, OtherTypes
<1>5. Browsing' BY DEF IInv, Launch, Goes, Browsing
<1>6. Unopened' BY DEF IInv, Launch, Goes, Unopened
<1>7. Minded' BY DEF IInv, Launch, Goes, Minded, Excused, Awake, Down
<1>8. Answered' BY DEF IInv, Launch, Goes, Answered, Seen, Excepted, Down
<1>9. Shown' BY DEF IInv, Launch, Goes, Shown, Explained, Down
<1>10. Handles' BY DEF IInv, Launch, Handles
<1>11. Kept' BY DEF IInv, Launch, Kept, Plain, Held, Live, OneBeat
<1> QED BY <1>1, <1>2, <1>3, <1>4, <1>5, <1>6, <1>7, <1>8, <1>9, <1>10, <1>11 DEF IInv

\* A launcher looks for a running copy, and opens a page on the one it finds.
LEMMA ProbeStep ==
    ASSUME NEW l \in Launchers, NEW answer \in BOOLEAN, IInv, Probe(l, answer), SameDay
    PROVE  IInv'
<1> USE DEF SameDay, net, history
<1>1. /\ Health(answer) \in {"none", "running", "shutting_down"}
      /\ Health(answer) = "none" <=> Down \/ ~answer
      /\ Health(answer) = "running" => server.phase = "running" /\ ~Down
      /\ Health(answer) = "shutting_down" => server.phase \in {"pending", "requested"} /\ ~Down
  BY HealthSays DEF IInv
<1>2. Slow(answer) /\ OtherTypes
  BY DEF Probe, IInv
<1>3. /\ \A what : what \in happened' <=> what \in happened \/ (what = "slow" /\ ~Down /\ ~answer)
      /\ happened' \subseteq happened \cup {"slow"}
  BY <1>2, SlowSays
<1>4. /\ launcher[l] = "probe" /\ PageTypes
      /\ UNCHANGED <<server, opener, beacons, adrift, mishaps, shown, silent>>
  BY DEF Probe, IInv
<1> DEFINE new == Page(FALSE)
<1>5. Opened(new) /\ new.due = FALSE
  BY Bounds DEF Opened, Page, NoTab, PageRecord, Beats, Fields
<1>6. \/ Health(answer) = "none" /\ Goes(l, "check") /\ tab' = tab
      \/ Health(answer) = "running" /\ Goes(l, "ended") /\ tab' = [tab EXCEPT ![Attach(l)] = new]
      \/ Health(answer) = "shutting_down" /\ Goes(l, "await") /\ tab' = [tab EXCEPT ![Attach(l)] = new]
  BY <1>1 DEF Probe, Attach
<1> HIDE DEF new
<1>7. ASSUME tab' = [tab EXCEPT ![Attach(l)] = new] PROVE Only(Attach(l), new)
  BY <1>4, <1>5, <1>7, Pairs DEF PageTypes, Only, Opened
<1>8. ASSUME tab' = [tab EXCEPT ![Attach(l)] = new]
      PROVE  /\ PageTypes' /\ tab'[Attach(l)] = new /\ tab'[Attach(l)].state = "loading"
             /\ tab'[Attach(l)].start = "none"
             /\ tab'[Attach(l)].ref = NoSession /\ tab'[Attach(l)].answer = NoSession
             /\ \A i \in Slots : tab'[Attach(l)].beat[i] = "none"
             /\ \A u \in Tabs : u # Attach(l) => tab'[u] = tab[u]
  BY <1>5, <1>7, <1>8, Pairs, PageOpens
<1>9. ServerTypes' BY <1>4 DEF IInv, ServerTypes, Down
<1>10. LauncherTypes' BY <1>4, <1>6 DEF IInv, LauncherTypes, Goes
<1>11. PageTypes' BY <1>6, <1>8 DEF IInv, PageTypes
<1>12. OtherTypes' BY <1>3, <1>4 DEF IInv, OtherTypes
<1>13. Browsing' BY <1>4, <1>6 DEF IInv, Browsing, LauncherTypes, Goes
<1>14. Unopened' BY <1>4, <1>6, <1>8, Pairs DEF IInv, Unopened, LauncherTypes, Goes
<1>15. Minded'
  BY <1>1, <1>3, <1>4, <1>6, <1>8, Pairs, Opens
  DEF IInv, Minded, Excused, Awake, Down, LauncherTypes, Goes
<1>16. Answered'
  BY <1>3, <1>4, <1>6, <1>8, Pairs DEF IInv, Answered, Seen, Excepted, Down, LauncherTypes, Goes
<1>17. Shown' BY <1>1, <1>3, <1>4, <1>6 DEF IInv, Shown, Explained, Down, LauncherTypes, Goes
<1>18. Handles' BY <1>6, <1>8 DEF IInv, Handles
<1>19. Kept' BY <1>3, <1>4, <1>6, <1>8 DEF IInv, Kept, Plain, Held, Live, OneBeat, Unopened
<1> QED BY <1>9, <1>10, <1>11, <1>12, <1>13, <1>14, <1>15, <1>16, <1>17, <1>18, <1>19 DEF IInv

\* A launcher waits for a server that is shutting down.
LEMMA AwaitStep ==
    ASSUME NEW l \in Launchers, NEW answer \in BOOLEAN, IInv, Await(l, answer), SameDay
    PROVE  IInv'
<1> USE DEF SameDay, net, history
<1>1. /\ Health(answer) \in {"none", "running", "shutting_down"}
      /\ Health(answer) = "none" <=> Down \/ ~answer
      /\ Health(answer) = "running" => server.phase = "running" /\ ~Down
      /\ Health(answer) = "shutting_down" => server.phase \in {"pending", "requested"} /\ ~Down
  BY HealthSays DEF IInv
<1>2. Slow(answer)
  BY DEF Await
<1>3. /\ \A what : what \in happened' <=> what \in happened \/ (what = "slow" /\ ~Down /\ ~answer)
      /\ happened' \subseteq happened \cup {"slow"}
  BY <1>2, SlowSays DEF IInv
<1>4. \/ Health(answer) = "none" /\ Goes(l, "await_port")
      \/ Health(answer) = "running" /\ Goes(l, "ended")
      \/ Health(answer) = "shutting_down" /\ Goes(l, "await")
  BY <1>1 DEF Await
<1>5. /\ launcher[l] = "await"
      /\ UNCHANGED <<server, opener, tab, beacons, adrift, mishaps, shown, silent>>
  BY DEF Await
<1>6. ServerTypes' BY <1>5 DEF IInv, ServerTypes, Down
<1>7. LauncherTypes' BY <1>4, <1>5 DEF IInv, LauncherTypes, Goes
<1>8. PageTypes' BY <1>5 DEF IInv, PageTypes
<1>9. OtherTypes' BY <1>3, <1>5 DEF IInv, OtherTypes
<1>10. Browsing' BY <1>4, <1>5 DEF IInv, Browsing, LauncherTypes, Goes
<1>11. Unopened' BY <1>4, <1>5 DEF IInv, Unopened, LauncherTypes, Goes
<1>12. Minded'
  BY <1>1, <1>3, <1>4, <1>5, Opens DEF IInv, Minded, Excused, Awake, Down, LauncherTypes, Goes
<1>13. Answered'
  BY <1>1, <1>3, <1>4, <1>5 DEF IInv, Answered, Seen, Excepted, Down, LauncherTypes, Goes
<1>14. Shown' BY <1>3, <1>4, <1>5 DEF IInv, Shown, Explained, Down, LauncherTypes, Goes
<1>15. Handles' BY <1>5 DEF IInv, Handles
<1>16. Kept' BY <1>3, <1>5 DEF IInv, Kept, Plain, Held, Live, OneBeat
<1> QED BY <1>6, <1>7, <1>8, <1>9, <1>10, <1>11, <1>12, <1>13, <1>14, <1>15, <1>16 DEF IInv

\* The server it waits for is gone, and the launcher waits for the port.
LEMMA AwaitPortStep ==
    ASSUME NEW l \in Launchers, IInv, AwaitPort(l), SameDay
    PROVE  IInv'
<1> USE DEF SameDay, net, history
<1>1. ServerTypes' BY DEF IInv, AwaitPort, ServerTypes, Down
<1>2. LauncherTypes' BY DEF IInv, AwaitPort, Goes, LauncherTypes
<1>3. PageTypes' BY DEF IInv, AwaitPort, PageTypes
<1>4. OtherTypes' BY DEF IInv, AwaitPort, OtherTypes
<1>5. Browsing' BY DEF IInv, AwaitPort, Goes, Browsing
<1>6. Unopened' BY DEF IInv, AwaitPort, Goes, Unopened
<1>7. Minded' BY DEF IInv, AwaitPort, Goes, Minded, Excused, Awake, Down
<1>8. Answered' BY DEF IInv, AwaitPort, Goes, Answered, Seen, Excepted, Down
<1>9. Shown' BY DEF IInv, AwaitPort, Goes, Shown, Explained, Down
<1>10. Handles' BY DEF IInv, AwaitPort, Handles
<1>11. Kept' BY DEF IInv, AwaitPort, Kept, Plain, Held, Live, OneBeat
<1> QED BY <1>1, <1>2, <1>3, <1>4, <1>5, <1>6, <1>7, <1>8, <1>9, <1>10, <1>11 DEF IInv

\* A launcher has waited long enough.
LEMMA AwaitEndsStep ==
    ASSUME NEW l \in Launchers, IInv, AwaitEnds(l), SameDay
    PROVE  IInv'
<1> USE DEF SameDay, net, history
<1>1. ServerTypes' BY DEF IInv, AwaitEnds, ServerTypes, Down
<1>2. LauncherTypes' BY DEF IInv, AwaitEnds, Goes, LauncherTypes
<1>3. PageTypes' BY DEF IInv, AwaitEnds, PageTypes
<1>4. OtherTypes' BY DEF IInv, AwaitEnds, OtherTypes
<1>5. Browsing' BY DEF IInv, AwaitEnds, Goes, Browsing
<1>6. Unopened' BY DEF IInv, AwaitEnds, Goes, Unopened
<1>7. Minded' BY DEF IInv, AwaitEnds, Goes, Minded, Excused, Awake, Down, LauncherTypes
<1>8. Answered' BY DEF IInv, AwaitEnds, Goes, Answered, Seen, Excepted, Down, LauncherTypes
<1>9. Shown' BY DEF IInv, AwaitEnds, Goes, Shown, Explained, Down
<1>10. Handles' BY DEF IInv, AwaitEnds, Handles
<1>11. Kept' BY DEF IInv, AwaitEnds, Kept, Plain, Held, Live, OneBeat
<1> QED BY <1>1, <1>2, <1>3, <1>4, <1>5, <1>6, <1>7, <1>8, <1>9, <1>10, <1>11 DEF IInv

\* A launcher looks whether its port is free.
LEMMA CheckStep ==
    ASSUME NEW l \in Launchers, IInv, Check(l), SameDay
    PROVE  IInv'
<1> USE DEF SameDay, net, history
<1>1. ServerTypes' BY DEF IInv, Check, ServerTypes, Down
<1>2. LauncherTypes' BY DEF IInv, Check, Goes, LauncherTypes
<1>3. PageTypes' BY DEF IInv, Check, PageTypes
<1>4. OtherTypes' BY DEF IInv, Check, OtherTypes
<1>5. Browsing' BY DEF IInv, Check, Goes, Browsing, LauncherTypes, Down
<1>6. Unopened' BY DEF IInv, Check, Goes, Unopened, LauncherTypes
<1>7. Minded' BY Opens DEF IInv, Check, Goes, Minded, Excused, Awake, Down, LauncherTypes
<1>8. Answered' BY DEF IInv, Check, Goes, Answered, Seen, Excepted, Down, LauncherTypes
<1>9. Shown' BY DEF IInv, Check, Shown, Explained, Down
<1>10. Handles' BY DEF IInv, Check, Handles
<1>11. Kept' BY DEF IInv, Check, Kept, Plain, Held, Live, OneBeat
<1> QED BY <1>1, <1>2, <1>3, <1>4, <1>5, <1>6, <1>7, <1>8, <1>9, <1>10, <1>11 DEF IInv

\* A server binds the port, or finds that another copy has.
LEMMA BindStep ==
    ASSUME NEW l \in Launchers, IInv, Bind(l), SameDay
    PROVE  IInv'
<1> USE DEF SameDay, net, history
<1>1. \/ /\ Down /\ launcher' = [launcher EXCEPT ![l] = "serving"] /\ opener' = opener
         /\ silent' = silent
         /\ server'.phase = "running" /\ server'.owner = l /\ server'.sessions = {}
         /\ server' \in ServerRecord
         /\ happened \subseteq happened' /\ happened' \subseteq happened \cup {"raced", "relayed"}
         /\ (\E k \in Launchers : launcher[k] = "check") => "raced" \in happened'
         /\ (\E k \in Launchers : launcher[k] \in {"await", "await_port"}) => "relayed" \in happened'
      \/ /\ ~Down /\ launcher' = [launcher EXCEPT ![l] = "ended"]
         /\ opener' = [opener EXCEPT ![l] = "off"]
         /\ silent' = [silent EXCEPT ![l] = "lost"] /\ server' = server /\ happened' = happened
  BY DEF Bind, Goes, ServerRecord, Phases
<1>2. launcher[l] = "starting" /\ UNCHANGED <<tab, beacons, adrift, mishaps, shown>>
  BY DEF Bind
<1>3. l # Nobody
  BY DesktopAssumption
<1>4. ServerTypes' BY <1>1 DEF IInv, ServerTypes, Down
<1>5. LauncherTypes' BY <1>1, <1>2, DesktopAssumption DEF IInv, LauncherTypes, ServerTypes
<1>6. PageTypes' BY <1>2 DEF IInv, PageTypes
<1>7. OtherTypes' BY <1>1, <1>2 DEF IInv, OtherTypes
<1>8. Browsing' BY <1>1 DEF IInv, Browsing, LauncherTypes, ServerTypes
<1>9. Unopened' BY <1>1, <1>2 DEF IInv, Unopened, LauncherTypes
<1>10. Minded' BY <1>1, <1>2, Opens DEF IInv, Minded, Excused, Awake, LauncherTypes
<1>11. Answered' BY <1>1, <1>2 DEF IInv, Answered, Seen, Excepted, LauncherTypes
<1>12. Shown' BY <1>1, <1>2 DEF IInv, Shown, Explained, LauncherTypes
<1>13. Handles' BY <1>2 DEF IInv, Handles
<1>14. Kept' BY <1>1, <1>2 DEF IInv, Kept, Plain, Held, Live, OneBeat
<1> QED BY <1>4, <1>5, <1>6, <1>7, <1>8, <1>9, <1>10, <1>11, <1>12, <1>13, <1>14 DEF IInv

\* The launcher's thread opens a page, or shows that another program uses the port.
LEMMA OpenBrowserStep ==
    ASSUME NEW l \in Launchers, NEW answer \in BOOLEAN, IInv, OpenBrowser(l, answer), SameDay
    PROVE  IInv'
<1> USE DEF SameDay, net, history
<1>1. /\ Health(answer) \in {"none", "running", "shutting_down"}
      /\ Health(answer) = "none" <=> Down \/ ~answer
      /\ Health(answer) = "running" => server.phase = "running" /\ ~Down
      /\ Health(answer) = "shutting_down" => server.phase \in {"pending", "requested"} /\ ~Down
  BY HealthSays DEF IInv
<1>2. /\ opener[l] = "waiting" /\ PageTypes /\ opener' = [opener EXCEPT ![l] = "off"]
      /\ UNCHANGED <<server, launcher, beacons, adrift, mishaps, silent>>
  BY DEF OpenBrowser, IInv
<1> DEFINE new == Page(server.owner = l)
<1>3. Opened(new) /\ (server.owner = l => new.due = TRUE)
  BY Bounds DEF Opened, Page, NoTab, PageRecord, Beats, Fields
<1>4. \/ /\ ~Down /\ tab' = [tab EXCEPT ![Own(l)] = new] /\ shown' = shown
         /\ happened' = IF server.owner = l THEN happened ELSE happened \cup {"crossed"}
      \/ /\ tab' = tab /\ shown' = shown \cup {l} /\ happened' = happened \cup {"slow"}
  BY <1>1 DEF OpenBrowser, Own
<1> HIDE DEF new
<1>5. ASSUME tab' = [tab EXCEPT ![Own(l)] = new] PROVE Only(Own(l), new)
  BY <1>2, <1>3, <1>5, Pairs DEF PageTypes, Only, Opened
<1>6. ASSUME tab' = [tab EXCEPT ![Own(l)] = new]
      PROVE  /\ PageTypes' /\ tab'[Own(l)] = new /\ tab'[Own(l)].state = "loading"
             /\ tab'[Own(l)].start = "none"
             /\ tab'[Own(l)].ref = NoSession /\ tab'[Own(l)].answer = NoSession
             /\ \A i \in Slots : tab'[Own(l)].beat[i] = "none"
             /\ \A u \in Tabs : u # Own(l) => tab'[u] = tab[u]
  BY <1>3, <1>5, <1>6, Pairs, PageOpens
<1>7. ServerTypes' BY <1>2 DEF IInv, ServerTypes, Down
<1>8. LauncherTypes' BY <1>2, <1>4 DEF IInv, LauncherTypes
<1>9. PageTypes' BY <1>4, <1>6 DEF IInv, PageTypes
<1>10. OtherTypes' BY <1>2, <1>4 DEF IInv, OtherTypes
<1>11. Browsing' BY <1>2 DEF IInv, Browsing
<1>12. Unopened' BY <1>2, <1>4, <1>6, Pairs DEF IInv, Unopened, LauncherTypes, Browsing
<1>13. Minded'
  BY <1>2, <1>3, <1>4, <1>6, Pairs, Opens
  DEF IInv, Minded, Excused, Awake, Down, LauncherTypes, Browsing
<1>14. Answered'
  BY <1>2, <1>4, <1>6, Pairs DEF IInv, Answered, Seen, Excepted, Down, LauncherTypes
<1>15. Shown' BY <1>2, <1>4 DEF IInv, Shown, Explained
<1>16. Handles' BY <1>4, <1>6 DEF IInv, Handles
<1>17. Kept' BY <1>2, <1>4, <1>6 DEF IInv, Kept, Plain, Held, Live, OneBeat, Unopened
<1> QED BY <1>7, <1>8, <1>9, <1>10, <1>11, <1>12, <1>13, <1>14, <1>15, <1>16, <1>17 DEF IInv

\* The monitor drops stale sessions, and looks at the grace period.
LEMMA MaintainStep ==
    ASSUME NEW stale \in SUBSET Silent, IInv, Maintain(stale), SameDay
    PROVE  IInv'
<1> USE DEF SameDay, net, history
<1>1. /\ server.phase \in {"running", "pending"} /\ ~Down /\ server.owner \in Launchers /\ PageTypes
      /\ UNCHANGED <<launcher, opener, beacons, adrift, mishaps, shown, silent, happened>>
  BY DEF Maintain, IInv, ServerTypes, Down
<1> DEFINE over == (\A t \in Tabs : ~(Awake(t) /\ tab[t].due)) /\ opener[server.owner] = "off"
<1> DEFINE now == IF server.sessions \ stale # {} THEN Cancelled(server.phase)
                  ELSE IF server.phase = "running" THEN "pending"
                  ELSE IF over THEN "requested" ELSE "pending"
<1>2. /\ server' = [server EXCEPT !.sessions = server.sessions \ stale, !.phase = now]
      /\ tab' = Due(server.phase, now, tab)
  BY DEF Maintain
<1>3. /\ now \in {"running", "pending", "requested"}
      /\ now = "running" => server.phase = "running" \/ server.sessions # {}
      /\ now = "requested" => /\ server.phase = "pending" /\ opener[server.owner] = "off"
                              /\ \A t \in Tabs : ~(Awake(t) /\ tab[t].due)
  BY <1>1 DEF Cancelled
<1> HIDE DEF now
<1>4. /\ server'.phase = now /\ server'.owner = server.owner
      /\ server'.sessions = server.sessions \ stale /\ server' \in ServerRecord
  BY <1>2, <1>3 DEF IInv, ServerTypes, ServerRecord, Phases
<1>5. /\ PageTypes'
      /\ \A t \in Tabs :
           /\ tab'[t].state = tab[t].state /\ Fields(tab'[t], tab[t])
           /\ tab[t].due => tab'[t].due
           /\ server.phase # "pending" /\ now = "pending" /\ Awake(t) => tab'[t].due
  BY <1>1, <1>2, PagesDue
<1>6. ServerTypes' BY <1>1, <1>3, <1>4 DEF ServerTypes, Down
<1>7. LauncherTypes' BY <1>1, <1>4 DEF IInv, LauncherTypes
<1>8. PageTypes' BY <1>5
<1>9. OtherTypes' BY <1>1 DEF IInv, OtherTypes
<1>10. Browsing' BY <1>1, <1>3, <1>4 DEF IInv, Browsing
<1>11. Unopened' BY <1>1, <1>5, Pairs DEF IInv, Unopened
<1>12. Minded' BY <1>1, <1>3, <1>4, <1>5 DEF IInv, Minded, Excused, Awake
<1>13. Answered' BY <1>1, <1>4, <1>5, Pairs DEF IInv, Answered, Seen, Excepted
<1>14. Shown' BY <1>1 DEF IInv, Shown, Explained
<1>15. Handles' BY <1>5 DEF IInv, Handles, Fields
<1>16. Kept' BY <1>1, <1>4, <1>5 DEF IInv, Kept, Plain, Held, Live, OneBeat, Fields
<1> QED BY <1>6, <1>7, <1>8, <1>9, <1>10, <1>11, <1>12, <1>13, <1>14, <1>15, <1>16 DEF IInv

\* A server that was asked to stop ends.
LEMMA ExitStep ==
    ASSUME IInv, Exit, SameDay
    PROVE  IInv'
<1> USE DEF SameDay, net, history
<1>1. /\ ~Down /\ server.owner \in Launchers /\ launcher[server.owner] = "serving"
      /\ server.owner # Nobody
  BY DesktopAssumption DEF IInv, ServerTypes, LauncherTypes, Down, Exit
<1>2. /\ server'.phase = "down" /\ server'.owner = Nobody /\ server'.sessions = {}
      /\ server' \in ServerRecord
  BY DEF Exit, Gone, ServerRecord, Phases
<1>3. /\ launcher' = [launcher EXCEPT ![server.owner] = "ended"]
      /\ opener' = [opener EXCEPT ![server.owner] = "off"]
  BY DEF Exit, Gone, Goes
<1>4. /\ server.phase = "requested"
      /\ UNCHANGED <<tab, beacons, adrift, mishaps, shown, silent, happened>>
  BY DEF Exit
<1>5. ServerTypes' BY <1>2 DEF ServerTypes, Down
<1>6. LauncherTypes' BY <1>2, <1>3, <1>4, DesktopAssumption DEF IInv, LauncherTypes
<1>7. PageTypes' BY <1>4 DEF IInv, PageTypes
<1>8. OtherTypes' BY <1>4 DEF IInv, OtherTypes
<1>9. Browsing' BY <1>2, <1>3 DEF IInv, Browsing, LauncherTypes
<1>10. Unopened' BY <1>3, <1>4 DEF IInv, Unopened
<1>11. Minded' BY <1>3, <1>4 DEF IInv, Minded, Excused, Awake, Down, LauncherTypes
<1>12. Answered' BY <1>3, <1>4 DEF IInv, Answered, Seen, Excepted, Down, LauncherTypes, Browsing
<1>13. Shown' BY <1>3, <1>4 DEF IInv, Shown, Explained, Down
<1>14. Handles' BY <1>4 DEF IInv, Handles
<1>15. Kept' BY <1>2, <1>4 DEF IInv, Kept, Plain, OneBeat
<1> QED BY <1>5, <1>6, <1>7, <1>8, <1>9, <1>10, <1>11, <1>12, <1>13, <1>14, <1>15 DEF IInv

\* A server is killed.
LEMMA KillStep ==
    ASSUME IInv, Kill, SameDay
    PROVE  IInv'
<1> USE DEF SameDay, net, history
<1>1. /\ ~Down /\ server.owner \in Launchers /\ launcher[server.owner] = "serving"
      /\ server.owner # Nobody
  BY DesktopAssumption DEF IInv, ServerTypes, LauncherTypes, Kill
<1>2. /\ server'.phase = "down" /\ server'.owner = Nobody /\ server'.sessions = {}
      /\ server' \in ServerRecord
  BY DEF Kill, Gone, ServerRecord, Phases
<1>3. /\ launcher' = [launcher EXCEPT ![server.owner] = "ended"]
      /\ opener' = [opener EXCEPT ![server.owner] = "off"]
  BY DEF Kill, Gone, Goes
<1>4. /\ mishaps < day.mishaps /\ mishaps' = mishaps + 1 /\ happened' = happened \cup {"killed"}
      /\ UNCHANGED <<tab, beacons, adrift, shown, silent>>
  BY DEF Kill, GoesWrong
<1>5. ServerTypes' BY <1>2 DEF ServerTypes, Down
<1>6. LauncherTypes' BY <1>2, <1>3, <1>4, DesktopAssumption DEF IInv, LauncherTypes
<1>7. PageTypes' BY <1>4 DEF IInv, PageTypes
<1>8. OtherTypes' BY <1>4, DayIs, DesktopAssumption DEF IInv, OtherTypes
<1>9. Browsing' BY <1>2, <1>3 DEF IInv, Browsing, LauncherTypes
<1>10. Unopened' BY <1>3, <1>4 DEF IInv, Unopened
<1>11. Minded' BY <1>4 DEF IInv, Minded, Excused
<1>12. Answered' BY <1>4 DEF Answered, Excepted
<1>13. Shown' BY <1>2, <1>4 DEF IInv, Shown, Explained, Down
<1>14. Handles' BY <1>4 DEF IInv, Handles
<1>15. Kept' BY <1>2, <1>4 DEF IInv, Kept, Plain, OneBeat
<1> QED BY <1>5, <1>6, <1>7, <1>8, <1>9, <1>10, <1>11, <1>12, <1>13, <1>14, <1>15 DEF IInv

\* A page is loaded, or finds no server.
LEMMA LoadStep ==
    ASSUME NEW t \in Tabs, IInv, Load(t), SameDay
    PROVE  IInv'
<1> USE DEF SameDay, net, history
<1>1. /\ tab[t].state = "loading"
      /\ UNCHANGED <<server, launcher, opener, beacons, adrift, mishaps, shown, silent, happened>>
      /\ PageTypes /\ tab[t] \in PageRecord
  BY DEF Load, IInv, PageTypes
<1> DEFINE new == IF Down THEN [NoTab EXCEPT !.state = "failed"]
                  ELSE Ensured([tab[t] EXCEPT !.state = "open"])
<1>2. /\ new \in PageRecord
      /\ new.state = (IF Down THEN "failed" ELSE "open")
      /\ ~Down => /\ new.due = tab[t].due /\ new.ref = tab[t].ref /\ new.answer = tab[t].answer
                  /\ new.beat = tab[t].beat /\ new.sent = tab[t].sent
      /\ ~Down /\ (tab[t].start # "none" \/ tab[t].ref # NoSession) => new.start = tab[t].start
      /\ ~Down /\ tab[t].start = "none" /\ tab[t].ref = NoSession => new.start = "asked"
      /\ Down => /\ new.start = "none" /\ new.ref = NoSession /\ new.answer = NoSession
                 /\ \A i \in Slots : new.beat[i] = "none"
  BY <1>1, Bounds DEF Ensured, NoTab, PageRecord, Beats
<1>3. tab' = [tab EXCEPT ![t] = new]
  BY DEF Load
<1> HIDE DEF new
<1>4. /\ PageTypes' /\ tab'[t] = new /\ \A u \in Tabs : u # t => tab'[u] = tab[u]
  BY <1>1, <1>2, <1>3 DEF PageTypes
<1>5. ServerTypes' BY <1>1 DEF IInv, ServerTypes, Down
<1>6. LauncherTypes' BY <1>1 DEF IInv, LauncherTypes
<1>7. PageTypes' BY <1>4
<1>8. OtherTypes' BY <1>1 DEF IInv, OtherTypes
<1>9. Browsing' BY <1>1 DEF IInv, Browsing
<1>10. Unopened' BY <1>1, <1>4, Pairs DEF IInv, Unopened
<1>11. Minded' BY <1>1, <1>2, <1>4 DEF IInv, Minded, Excused, Awake, Down
<1>12. Answered'
  BY <1>1, <1>2, <1>4, Pairs DEF IInv, Answered, Seen, Excepted, Down, Minded, Excused, Awake
<1>13. Shown' BY <1>1 DEF IInv, Shown, Explained, Down
<1>14. Handles' BY <1>2, <1>4 DEF IInv, Handles
<1>15. Kept' BY <1>1, <1>2, <1>4 DEF IInv, Kept, Plain, Held, Live, OneBeat
<1> QED BY <1>5, <1>6, <1>7, <1>8, <1>9, <1>10, <1>11, <1>12, <1>13, <1>14, <1>15 DEF IInv

\* A page's start of a session is handled.
LEMMA StartHandledStep ==
    ASSUME NEW t \in Tabs, IInv, StartHandled(t), SameDay
    PROVE  IInv'
<1> USE DEF SameDay, net, history
<1>1. /\ Live(t) /\ tab[t].start = "asked"
      /\ UNCHANGED <<launcher, opener, beacons, adrift, mishaps, shown, silent, happened>>
      /\ PageTypes /\ tab[t] \in PageRecord /\ ServerTypes
  BY DEF StartHandled, IInv, PageTypes
<1>2. Down => server' = server
  BY DEF StartHandled
<1>3. ~Down => Fresh # {} /\ server' = Started(NewSession)
  BY DEF StartHandled
<1>4. ~Down => /\ NewSession \in SessionIds /\ NewSession \notin server.sessions /\ NewSession \notin beacons
               /\ \A u \in Tabs : NewSession # tab[u].ref
  BY <1>3, FreshIs
<1>5. ASSUME ~Down PROVE
        /\ server'.owner = server.owner /\ server'.sessions = server.sessions \cup {NewSession}
        /\ server'.phase = Cancelled(server.phase)
        /\ server' \in ServerRecord
  BY <1>1, <1>3, <1>4, <1>5, SessionStarts
<1>6. /\ Cancelled(server.phase) \in Phases
      /\ Cancelled(server.phase) = "down" <=> Down
      /\ Cancelled(server.phase) # "pending"
      /\ server.phase # "pending" => Cancelled(server.phase) = server.phase
      /\ server.phase = "pending" => Cancelled(server.phase) = "running"
  BY CancelledIs DEF IInv
<1> DEFINE new == IF Down THEN [tab[t] EXCEPT !.start = "none", !.ref = NoSession]
                   ELSE [tab[t] EXCEPT !.start = "answered", !.answer = NewSession, !.due = FALSE]
<1>7. /\ new \in PageRecord /\ new.state = tab[t].state /\ new.beat = tab[t].beat
      /\ new.sent = tab[t].sent
      /\ Down => /\ new.start = "none" /\ new.ref = NoSession
                 /\ new.answer = tab[t].answer /\ new.due = tab[t].due
      /\ ~Down => /\ new.start = "answered" /\ new.ref = tab[t].ref
                  /\ new.answer = NewSession /\ new.due = FALSE
  BY <1>1, <1>4, Bounds DEF PageRecord
<1>8. tab' = [tab EXCEPT ![t] = new]
  BY DEF StartHandled
<1> HIDE DEF new
<1>9. /\ PageTypes' /\ tab'[t] = new /\ \A u \in Tabs : u # t => tab'[u] = tab[u]
  BY <1>1, <1>7, <1>8 DEF PageTypes
<1>10. ServerTypes' BY <1>2, <1>5, <1>6 DEF IInv, ServerTypes, Down
<1>11. LauncherTypes' BY <1>1, <1>2, <1>5 DEF IInv, LauncherTypes
<1>12. PageTypes' BY <1>9
<1>13. OtherTypes' BY <1>1 DEF IInv, OtherTypes
<1>14. Browsing' BY <1>1, <1>2, <1>5, <1>6 DEF IInv, Browsing
<1>15. Unopened' BY <1>1, <1>7, <1>9, Pairs DEF IInv, Unopened
<1>16. Minded' BY <1>1, <1>2, <1>5, <1>6, <1>7, <1>9 DEF IInv, Minded, Excused, Awake, Down
<1>17. Answered' BY <1>1, <1>2, <1>7, <1>9, Pairs DEF IInv, Answered, Seen, Excepted, Down
<1>18. Shown' BY <1>1, <1>2 DEF IInv, Shown, Explained, Down
<1>19. Handles' BY <1>1, <1>7, <1>9 DEF IInv, Handles
<1>20. Kept'
  BY <1>1, <1>2, <1>4, <1>5, <1>7, <1>9 DEF IInv, Kept, Plain, Held, Live, OneBeat, Handles
<1> QED BY <1>10, <1>11, <1>12, <1>13, <1>14, <1>15, <1>16, <1>17, <1>18, <1>19, <1>20 DEF IInv

\* A page learns the id of the session it started.
LEMMA StartAnsweredStep ==
    ASSUME NEW t \in Tabs, IInv, StartAnswered(t), SameDay
    PROVE  IInv'
<1> USE DEF SameDay, net, history
<1>1. /\ tab[t].state = "open" /\ tab[t].start = "answered"
      /\ UNCHANGED <<server, launcher, opener, beacons, adrift, mishaps, shown, silent, happened>>
      /\ PageTypes /\ tab[t] \in PageRecord
  BY DEF StartAnswered, IInv, PageTypes
<1> DEFINE new == [tab[t] EXCEPT !.start = "none", !.ref = tab[t].answer, !.answer = NoSession]
<1>2. /\ new \in PageRecord /\ new.start = "none" /\ new.ref = tab[t].answer
      /\ new.answer = NoSession
      /\ new.state = tab[t].state /\ new.due = tab[t].due /\ new.beat = tab[t].beat
      /\ new.sent = tab[t].sent
  BY <1>1, Bounds DEF PageRecord
<1>3. tab' = [tab EXCEPT ![t] = new]
  BY DEF StartAnswered
<1> HIDE DEF new
<1>4. /\ PageTypes' /\ tab'[t] = new /\ \A u \in Tabs : u # t => tab'[u] = tab[u]
  BY <1>1, <1>2, <1>3 DEF PageTypes
<1>5. ServerTypes' BY <1>1 DEF IInv, ServerTypes, Down
<1>6. LauncherTypes' BY <1>1 DEF IInv, LauncherTypes
<1>7. PageTypes' BY <1>4
<1>8. OtherTypes' BY <1>1 DEF IInv, OtherTypes
<1>9. Browsing' BY <1>1 DEF IInv, Browsing
<1>10. Unopened' BY <1>1, <1>4, Pairs DEF IInv, Unopened
<1>11. Minded' BY <1>1, <1>2, <1>4 DEF IInv, Minded, Excused, Awake, Down
<1>12. Answered' BY <1>1, <1>2, <1>4, Pairs DEF IInv, Answered, Seen, Excepted, Down
<1>13. Shown' BY <1>1 DEF IInv, Shown, Explained, Down
<1>14. Handles' BY <1>2, <1>4 DEF IInv, Handles
<1>15. Kept' BY <1>1, <1>2, <1>4 DEF IInv, Kept, Plain, Held, Live, OneBeat, Handles
<1> QED BY <1>5, <1>6, <1>7, <1>8, <1>9, <1>10, <1>11, <1>12, <1>13, <1>14, <1>15 DEF IInv

\* A heartbeat is due: it is sent, or a session is started first.
LEMMA BeatStep ==
    ASSUME NEW t \in Tabs, IInv, Beat(t), SameDay
    PROVE  IInv'
<1> USE DEF SameDay, net, history
<1>1. /\ tab[t].state = "open"
      /\ UNCHANGED <<server, launcher, opener, beacons, adrift, mishaps, shown, silent>>
      /\ PageTypes /\ tab[t] \in PageRecord /\ day \in Days
  BY DEF Beat, IInv, PageTypes, OtherTypes
<1> DEFINE i == CHOOSE j \in Slots : tab[t].beat[j] = "none"
<1>2. tab[t].ref # NoSession =>
        /\ Cardinality({j \in Slots : tab[t].beat[j] # "none"}) < day.beats
        /\ tab' = [tab EXCEPT ![t] = [@ EXCEPT !.beat[i] = "asked", !.sent[i] = tab[t].ref]]
        /\ happened' = IF \E j \in Slots : tab[t].beat[j] # "none"
                       THEN happened \cup {"overlap"} ELSE happened
  BY DEF Beat
<1>3. tab[t].ref # NoSession => i \in Slots /\ tab[t].beat[i] = "none"
  BY <1>1, <1>2, FreeSlot
<1> HIDE DEF i
<1> DEFINE new == IF tab[t].ref = NoSession THEN Ensured(tab[t])
                  ELSE [tab[t] EXCEPT !.beat[i] = "asked", !.sent[i] = tab[t].ref]
<1>4. /\ new \in PageRecord /\ new.state = tab[t].state /\ new.due = tab[t].due
      /\ new.ref = tab[t].ref /\ new.answer = tab[t].answer
      /\ new.start = (IF tab[t].start = "none" /\ tab[t].ref = NoSession THEN "asked" ELSE tab[t].start)
  BY <1>1 DEF Ensured, PageRecord, Beats
<1>5. \A j \in Slots : /\ new.beat[j] = IF j = i /\ tab[t].ref # NoSession THEN "asked" ELSE tab[t].beat[j]
                      /\ new.sent[j] = IF j = i /\ tab[t].ref # NoSession THEN tab[t].ref ELSE tab[t].sent[j]
  BY <1>1 DEF Ensured, PageRecord
<1>6. /\ tab' = [tab EXCEPT ![t] = new]
      /\ tab[t].ref = NoSession => happened' = happened
  BY <1>2 DEF Beat
<1> HIDE DEF new
<1>7. /\ PageTypes' /\ tab'[t] = new /\ \A u \in Tabs : u # t => tab'[u] = tab[u]
  BY <1>1, <1>4, <1>6 DEF PageTypes
<1>8. /\ happened \subseteq happened' /\ happened' \subseteq happened \cup {"overlap"}
      /\ tab[t].ref # NoSession /\ "overlap" \notin happened' => \A j \in Slots : tab[t].beat[j] = "none"
  BY <1>2, <1>6
<1>9. ServerTypes' BY <1>1 DEF IInv, ServerTypes, Down
<1>10. LauncherTypes' BY <1>1 DEF IInv, LauncherTypes
<1>11. PageTypes' BY <1>7
<1>12. OtherTypes' BY <1>1, <1>8 DEF IInv, OtherTypes
<1>13. Browsing' BY <1>1 DEF IInv, Browsing
<1>14. Unopened' BY <1>1, <1>7, Pairs DEF IInv, Unopened
<1>15. Minded' BY <1>1, <1>4, <1>7, <1>8 DEF IInv, Minded, Excused, Awake, Down
<1>16. Answered' BY <1>1, <1>4, <1>7, <1>8, Pairs DEF IInv, Answered, Seen, Excepted, Down
<1>17. Shown' BY <1>1, <1>8 DEF IInv, Shown, Explained, Down
<1>18. Handles' BY <1>4, <1>7 DEF IInv, Handles
<1>19. Kept' BY <1>1, <1>4, <1>5, <1>7, <1>8 DEF IInv, Kept, Plain, Held, Live, OneBeat
<1> QED BY <1>9, <1>10, <1>11, <1>12, <1>13, <1>14, <1>15, <1>16, <1>17, <1>18, <1>19 DEF IInv

\* A heartbeat is handled.
LEMMA BeatHandledStep ==
    ASSUME NEW t \in Tabs, NEW i \in Slots, IInv, BeatHandled(t, i), SameDay
    PROVE  IInv'
<1> USE DEF SameDay, net, history
<1>1. /\ Live(t) /\ tab[t].beat[i] = "asked"
      /\ UNCHANGED <<launcher, opener, beacons, adrift, mishaps, shown, silent, happened>>
      /\ PageTypes /\ tab[t] \in PageRecord /\ ServerTypes
  BY DEF BeatHandled, IInv, PageTypes
<1> DEFINE known == ~Down /\ tab[t].sent[i] \in server.sessions
<1> DEFINE new == [tab[t] EXCEPT !.beat[i] = IF Down \/ known THEN "none" ELSE "gone",
                                 !.sent[i] = NoSession, !.due = tab[t].due /\ ~known]
<1>2. server' = IF known THEN [server EXCEPT !.phase = Cancelled(@)] ELSE server
  BY DEF BeatHandled
<1>3. /\ Cancelled(server.phase) \in Phases
      /\ Cancelled(server.phase) = "down" <=> Down
      /\ Cancelled(server.phase) # "pending"
      /\ server.phase # "pending" => Cancelled(server.phase) = server.phase
      /\ server.phase = "pending" => Cancelled(server.phase) = "running"
  BY CancelledIs DEF IInv
<1>4. /\ server' \in ServerRecord /\ server'.owner = server.owner
      /\ server'.sessions = server.sessions
      /\ known => ~Down /\ server'.phase = Cancelled(server.phase)
      /\ ~known => server'.phase = server.phase
  BY <1>1, <1>2, <1>3 DEF ServerTypes, ServerRecord
<1>5. /\ new \in PageRecord /\ new.state = tab[t].state /\ new.ref = tab[t].ref
      /\ new.answer = tab[t].answer /\ new.start = tab[t].start
      /\ known => new.due = FALSE
      /\ ~known => new.due = tab[t].due
  BY <1>1, Bounds DEF PageRecord, Beats
<1>6. \A j \in Slots :
         /\ new.beat[j] = (IF j = i THEN IF Down \/ known THEN "none" ELSE "gone" ELSE tab[t].beat[j])
         /\ new.sent[j] = (IF j = i THEN NoSession ELSE tab[t].sent[j])
  BY <1>1 DEF PageRecord
<1>7. tab' = [tab EXCEPT ![t] = new]
  BY DEF BeatHandled
<1> HIDE DEF new
<1>8. /\ PageTypes' /\ tab'[t] = new /\ \A u \in Tabs : u # t => tab'[u] = tab[u]
  BY <1>1, <1>5, <1>7 DEF PageTypes
<1>9. ServerTypes' BY <1>3, <1>4 DEF IInv, ServerTypes, Down
<1>10. LauncherTypes' BY <1>1, <1>4 DEF IInv, LauncherTypes
<1>11. PageTypes' BY <1>8
<1>12. OtherTypes' BY <1>1 DEF IInv, OtherTypes
<1>13. Browsing' BY <1>1, <1>3, <1>4 DEF IInv, Browsing
<1>14. Unopened' BY <1>1, <1>5, <1>8, Pairs DEF IInv, Unopened
<1>15. Minded' BY <1>1, <1>3, <1>4, <1>5, <1>8 DEF IInv, Minded, Excused, Awake, Down
<1>16. Answered' BY <1>1, <1>4, <1>5, <1>8, Pairs DEF IInv, Answered, Seen, Excepted, Down
<1>17. Shown' BY <1>1, <1>4 DEF IInv, Shown, Explained, Down
<1>18. Handles' BY <1>5, <1>8 DEF IInv, Handles
<1>19. Kept' BY <1>1, <1>4, <1>5, <1>6, <1>8 DEF IInv, Kept, Plain, Held, Live, OneBeat
<1> QED BY <1>9, <1>10, <1>11, <1>12, <1>13, <1>14, <1>15, <1>16, <1>17, <1>18, <1>19 DEF IInv

\* A page learns that the server does not know its session.
LEMMA BeatGoneStep ==
    ASSUME NEW t \in Tabs, NEW i \in Slots, IInv, BeatGone(t, i), SameDay
    PROVE  IInv'
<1> USE DEF SameDay, net, history
<1>1. /\ tab[t].state = "open" /\ tab[t].beat[i] = "gone"
      /\ UNCHANGED <<server, launcher, opener, beacons, adrift, mishaps, shown, silent, happened>>
      /\ PageTypes /\ tab[t] \in PageRecord
  BY DEF BeatGone, IInv, PageTypes
<1> DEFINE new == Ensured([tab[t] EXCEPT !.beat[i] = "none", !.ref = NoSession])
<1>2. /\ new \in PageRecord /\ new.state = tab[t].state /\ new.due = tab[t].due
      /\ new.ref = NoSession /\ new.answer = tab[t].answer
      /\ new.sent = tab[t].sent /\ new.start = (IF tab[t].start = "none" THEN "asked" ELSE tab[t].start)
      /\ \A j \in Slots : new.beat[j] = IF j = i THEN "none" ELSE tab[t].beat[j]
  BY <1>1, Bounds DEF Ensured, PageRecord, Beats
<1>3. tab' = [tab EXCEPT ![t] = new]
  BY DEF BeatGone
<1> HIDE DEF new
<1>4. /\ PageTypes' /\ tab'[t] = new /\ \A u \in Tabs : u # t => tab'[u] = tab[u]
  BY <1>1, <1>2, <1>3 DEF PageTypes
<1>5. ServerTypes' BY <1>1 DEF IInv, ServerTypes, Down
<1>6. LauncherTypes' BY <1>1 DEF IInv, LauncherTypes
<1>7. PageTypes' BY <1>4
<1>8. OtherTypes' BY <1>1 DEF IInv, OtherTypes
<1>9. Browsing' BY <1>1 DEF IInv, Browsing
<1>10. Unopened' BY <1>1, <1>4, Pairs DEF IInv, Unopened
<1>11. Minded' BY <1>1, <1>2, <1>4 DEF IInv, Minded, Excused, Awake, Down
<1>12. Answered' BY <1>1, <1>2, <1>4, Pairs DEF IInv, Answered, Seen, Excepted, Down
<1>13. Shown' BY <1>1 DEF IInv, Shown, Explained, Down
<1>14. Handles' BY <1>2, <1>4 DEF IInv, Handles
<1>15. Kept' BY <1>1, <1>2, <1>4 DEF IInv, Kept, Plain, Held, Live, OneBeat
<1> QED BY <1>5, <1>6, <1>7, <1>8, <1>9, <1>10, <1>11, <1>12, <1>13, <1>14, <1>15 DEF IInv

\* A page is left: it closes, reloads, or stays after all.
LEMMA LeaveStep ==
    ASSUME NEW t \in Tabs, NEW next \in {"open", "loading", "closed"}, IInv, Leave(t, next), SameDay
    PROVE  IInv'
<1> USE DEF SameDay, net, history
<1>1. /\ tab[t].state = "open" /\ UNCHANGED <<server, launcher, opener, shown, silent>>
      /\ PageTypes /\ tab[t] \in PageRecord /\ OtherTypes
  BY DEF Leave, IInv, PageTypes
<1>2. beacons' = IF tab[t].ref = NoSession THEN beacons ELSE beacons \cup {tab[t].ref}
  BY DEF Leave
<1>3. \/ mishaps' = mishaps
      \/ mishaps < day.mishaps /\ mishaps' = mishaps + 1
  BY DEF Leave, GoesWrong
<1>4. \/ /\ next = "open" /\ adrift' = adrift
         /\ happened' = IF \E i \in Slots : tab[t].beat[i] # "none"
                        THEN happened \cup {"overlap"} ELSE happened
      \/ /\ next # "open" /\ adrift' = (IF tab[t].start = "asked" THEN adrift + 1 ELSE adrift)
         /\ happened' = IF tab[t].start # "none" THEN happened \cup {"left"} ELSE happened
  BY DEF Leave
<1> DEFINE new == IF next = "open" THEN [tab[t] EXCEPT !.ref = NoSession]
                  ELSE [NoTab EXCEPT !.state = next, !.due = tab[t].due]
<1>5. /\ new \in PageRecord /\ new.state = next /\ new.due = tab[t].due /\ new.ref = NoSession
      /\ next = "open" => new.start = tab[t].start /\ new.answer = tab[t].answer /\ new.beat = tab[t].beat
      /\ next # "open" => /\ new.start = "none" /\ new.answer = NoSession
                          /\ \A i \in Slots : new.beat[i] = "none"
  BY <1>1, Bounds DEF NoTab, PageRecord, Beats
<1>6. tab' = [tab EXCEPT ![t] = new]
  BY DEF Leave
<1> HIDE DEF new
<1>7. /\ PageTypes' /\ tab'[t] = new /\ \A u \in Tabs : u # t => tab'[u] = tab[u]
  BY <1>1, <1>5, <1>6 DEF PageTypes
<1>8. tab[t].ref \in SessionIds \cup {NoSession}
  BY <1>1 DEF PageRecord, Handle
<1>9. server.sessions \subseteq SessionIds /\ NoSession \notin SessionIds
  BY Bounds DEF IInv, ServerTypes, ServerRecord
<1>10. tab[t].state = "open" => Live(t)
  BY DEF Live
<1>11. ServerTypes' BY <1>1 DEF IInv, ServerTypes, Down
<1>12. LauncherTypes' BY <1>1 DEF IInv, LauncherTypes
<1>13. PageTypes' BY <1>7
<1>14. OtherTypes'
  <2>1. beacons' \subseteq SessionIds /\ adrift' \in Nat /\ happened' \subseteq happened \cup {"overlap", "left"}
    BY <1>2, <1>4, <1>8 DEF IInv, OtherTypes
  <2>2. mishaps' \in 0 .. MISHAPS
    BY <1>3, DayIs, DesktopAssumption DEF IInv, OtherTypes
  <2> QED BY <2>1, <2>2 DEF IInv, OtherTypes
<1>15. Browsing' BY <1>1 DEF IInv, Browsing
<1>16. Unopened'
  BY <1>1, <1>7, Pairs DEF IInv, Unopened
<1>17. Minded' BY <1>1, <1>4, <1>5, <1>7 DEF IInv, Minded, Excused, Awake, Down
<1>18. Answered' BY <1>1, <1>4, <1>5, <1>7, Pairs DEF IInv, Answered, Seen, Excepted, Down
<1>19. Shown' BY <1>1, <1>4 DEF IInv, Shown, Explained, Down
<1>20. Handles' BY <1>5, <1>7 DEF IInv, Handles
<1>21. Kept'
  <2> SUFFICES ASSUME Plain' PROVE /\ \A s \in server'.sessions : Held(s)'
                                   /\ adrift' = 0
                                   /\ \A u \in Tabs : OneBeat(u)'
    BY DEF Kept
  <2>1. Plain /\ (next # "open" => tab[t].start = "none" /\ tab[t].answer = NoSession) /\ adrift' = adrift
        /\ (next = "open" => \A i \in Slots : tab[t].beat[i] = "none")
    BY <1>4 DEF Plain, IInv, Handles
  <2>2. ASSUME NEW s \in server'.sessions PROVE Held(s)'
    <3>1. Held(s) /\ s \in SessionIds
      BY <1>1, <1>9, <2>1 DEF IInv, Kept
    <3>2. CASE s \in beacons \/ s = tab[t].ref
      BY <3>1, <3>2, <1>2, <1>9 DEF Held
    <3>3. CASE s = tab[t].answer
      BY <3>3, <1>1, <1>5, <1>7, <1>9, <2>1 DEF Held, Live
    <3>4. CASE \E u \in Tabs : u # t /\ Live(u) /\ (s = tab[u].ref \/ s = tab[u].answer)
      BY <3>4, <1>7 DEF Held, Live
    <3> QED BY <3>1, <3>2, <3>3, <3>4 DEF Held
  <2>3. \A u \in Tabs : OneBeat(u)'
    BY <1>1, <1>5, <1>7, <2>1 DEF OneBeat, IInv, Kept
  <2> QED BY <2>1, <2>2, <2>3 DEF IInv, Kept
<1> QED BY <1>11, <1>12, <1>13, <1>14, <1>15, <1>16, <1>17, <1>18, <1>19, <1>20, <1>21 DEF IInv

\* A page's last call, the end of its session, is handled.
LEMMA EndHandledStep ==
    ASSUME NEW s \in beacons, IInv, EndHandled(s), SameDay
    PROVE  IInv'
<1> USE DEF SameDay, net, history
<1>1. /\ PageTypes /\ beacons' = beacons \ {s}
      /\ UNCHANGED <<launcher, opener, adrift, mishaps, shown, silent, happened>>
  BY DEF EndHandled, IInv
<1>2. tab' = Due(server.phase, server'.phase, tab)
  BY DEF EndHandled
<1>3. \/ Down /\ server' = server
      \/ /\ ~Down /\ server'.owner = server.owner /\ server'.sessions = server.sessions \ {s}
         /\ server'.phase = server.phase \/ (server.phase = "running" /\ server'.phase = "pending")
         /\ server' \in ServerRecord
  BY DEF EndHandled, Ended, IInv, ServerTypes, ServerRecord, Phases
<1>4. /\ PageTypes'
      /\ \A t \in Tabs :
           /\ tab'[t].state = tab[t].state /\ Fields(tab'[t], tab[t])
           /\ tab[t].due => tab'[t].due
           /\ server.phase # "pending" /\ server'.phase = "pending" /\ Awake(t) => tab'[t].due
  BY <1>1, <1>2, PagesDue
<1>5. ServerTypes' BY <1>3 DEF IInv, ServerTypes, Down
<1>6. LauncherTypes' BY <1>1, <1>3 DEF IInv, LauncherTypes
<1>7. PageTypes' BY <1>4
<1>8. OtherTypes' BY <1>1 DEF IInv, OtherTypes
<1>9. Browsing' BY <1>1, <1>3 DEF IInv, Browsing
<1>10. Unopened' BY <1>1, <1>4, Pairs DEF IInv, Unopened
<1>11. Minded' BY <1>1, <1>3, <1>4 DEF IInv, Minded, Excused, Awake, Down
<1>12. Answered' BY <1>1, <1>3, <1>4, Pairs DEF IInv, Answered, Seen, Excepted, Down
<1>13. Shown' BY <1>1, <1>3 DEF IInv, Shown, Explained, Down
<1>14. Handles' BY <1>4 DEF IInv, Handles, Fields
<1>15. Kept' BY <1>1, <1>3, <1>4 DEF IInv, Kept, Plain, Held, Live, OneBeat, ServerTypes, Fields
<1> QED BY <1>5, <1>6, <1>7, <1>8, <1>9, <1>10, <1>11, <1>12, <1>13, <1>14, <1>15 DEF IInv

\* A start whose page is gone is handled.
LEMMA AdriftHandledStep ==
    ASSUME IInv, AdriftHandled, SameDay
    PROVE  IInv'
<1> USE DEF SameDay, net, history
<1>1. /\ adrift > 0 /\ adrift' = adrift - 1
      /\ UNCHANGED <<launcher, opener, tab, beacons, mishaps, shown, silent, happened>>
  BY DEF AdriftHandled
<1>2. ~Down => Fresh # {} /\ server' = Started(NewSession)
  BY DEF AdriftHandled
<1>3. Down => server' = server
  BY DEF AdriftHandled
<1>4. ~Down => NewSession \in SessionIds
  BY <1>2, FreshIs
<1>5. ASSUME ~Down PROVE
        /\ server'.owner = server.owner /\ server'.sessions = server.sessions \cup {NewSession}
        /\ server'.phase = Cancelled(server.phase)
        /\ server' \in ServerRecord
  BY <1>2, <1>4, <1>5, SessionStarts DEF IInv
<1>6. /\ Cancelled(server.phase) \in Phases
      /\ Cancelled(server.phase) = "down" <=> Down
      /\ Cancelled(server.phase) # "pending"
      /\ server.phase # "pending" => Cancelled(server.phase) = server.phase
      /\ server.phase = "pending" => Cancelled(server.phase) = "running"
  BY CancelledIs DEF IInv
<1>7. ServerTypes' BY <1>3, <1>5, <1>6 DEF IInv, ServerTypes, Down
<1>8. LauncherTypes' BY <1>1, <1>3, <1>5 DEF IInv, LauncherTypes
<1>9. PageTypes' BY <1>1 DEF IInv, PageTypes
<1>10. OtherTypes' BY <1>1 DEF IInv, OtherTypes
<1>11. Browsing' BY <1>1, <1>3, <1>5, <1>6 DEF IInv, Browsing
<1>12. Unopened' BY <1>1 DEF IInv, Unopened
<1>13. Minded' BY <1>1, <1>3, <1>5, <1>6 DEF IInv, Minded, Excused, Awake, Down
<1>14. Answered' BY <1>1, <1>3 DEF IInv, Answered, Seen, Excepted, Down
<1>15. Shown' BY <1>1, <1>3 DEF IInv, Shown, Explained, Down
<1>16. Handles' BY <1>1 DEF IInv, Handles
<1>17. Kept' BY <1>1 DEF IInv, Kept, Plain
<1> QED BY <1>7, <1>8, <1>9, <1>10, <1>11, <1>12, <1>13, <1>14, <1>15, <1>16, <1>17 DEF IInv

\* The browser stops running a page.
LEMMA SleepStep ==
    ASSUME NEW t \in Tabs, IInv, Sleep(t), SameDay
    PROVE  IInv'
<1> USE DEF SameDay, net, history
<1>1. /\ tab[t].state = "open" /\ happened' = happened \cup {"slept"} /\ mishaps < day.mishaps
      /\ mishaps' = mishaps + 1
      /\ UNCHANGED <<server, launcher, opener, beacons, adrift, shown, silent>>
      /\ PageTypes /\ tab[t] \in PageRecord
  BY DEF Sleep, GoesWrong, IInv, PageTypes
<1> DEFINE new == [tab[t] EXCEPT !.state = "asleep", !.due = FALSE]
<1>2. /\ new \in PageRecord /\ new.state = "asleep" /\ new.due = FALSE /\ Fields(new, tab[t])
  BY <1>1 DEF Fields, PageRecord
<1>3. tab' = [tab EXCEPT ![t] = new]
  BY DEF Sleep
<1> HIDE DEF new
<1>4. /\ PageTypes' /\ tab'[t] = new /\ \A u \in Tabs : u # t => tab'[u] = tab[u]
  BY <1>1, <1>2, <1>3 DEF PageTypes
<1>5. ServerTypes' BY <1>1 DEF IInv, ServerTypes, Down
<1>6. LauncherTypes' BY <1>1 DEF IInv, LauncherTypes
<1>7. PageTypes' BY <1>4
<1>8. OtherTypes' BY <1>1, DayIs, DesktopAssumption DEF IInv, OtherTypes
<1>9. Browsing' BY <1>1 DEF IInv, Browsing
<1>10. Unopened' BY <1>1, <1>4, Pairs DEF IInv, Unopened
<1>11. Minded' BY <1>1 DEF Minded, Excused
<1>12. Answered' BY <1>1 DEF Answered, Excepted
<1>13. Shown' BY <1>1 DEF IInv, Shown, Explained, Down
<1>14. Handles' BY <1>2, <1>4 DEF IInv, Handles, Fields
<1>15. Kept' BY <1>1, <1>2, <1>4 DEF IInv, Kept, Plain, Held, Live, OneBeat, Fields
<1> QED BY <1>5, <1>6, <1>7, <1>8, <1>9, <1>10, <1>11, <1>12, <1>13, <1>14, <1>15 DEF IInv

\* The browser runs a page again.
LEMMA WakeStep ==
    ASSUME NEW t \in Tabs, IInv, Wake(t), SameDay
    PROVE  IInv'
<1> USE DEF SameDay, net, history
<1>1. /\ tab[t].state = "asleep"
      /\ UNCHANGED <<server, launcher, opener, beacons, adrift, mishaps, shown, silent, happened>>
      /\ PageTypes /\ tab[t] \in PageRecord
  BY DEF Wake, IInv, PageTypes
<1> DEFINE new == [tab[t] EXCEPT !.state = "open"]
<1>2. /\ new \in PageRecord /\ new.state = "open" /\ new.due = tab[t].due /\ Fields(new, tab[t])
  BY <1>1 DEF Fields, PageRecord
<1>3. tab' = [tab EXCEPT ![t] = new]
  BY DEF Wake
<1> HIDE DEF new
<1>4. /\ PageTypes' /\ tab'[t] = new /\ \A u \in Tabs : u # t => tab'[u] = tab[u]
  BY <1>1, <1>2, <1>3 DEF PageTypes
<1>5. ServerTypes' BY <1>1 DEF IInv, ServerTypes, Down
<1>6. LauncherTypes' BY <1>1 DEF IInv, LauncherTypes
<1>7. PageTypes' BY <1>4
<1>8. OtherTypes' BY <1>1 DEF IInv, OtherTypes
<1>9. Browsing' BY <1>1 DEF IInv, Browsing
<1>10. Unopened' BY <1>1, <1>4, Pairs DEF IInv, Unopened
<1>11. Minded' BY <1>1 DEF IInv, Minded, Excused
<1>12. Answered' BY <1>1, <1>2, <1>4, Pairs DEF IInv, Answered, Seen, Excepted, Down
<1>13. Shown' BY <1>1 DEF IInv, Shown, Explained, Down
<1>14. Handles' BY <1>2, <1>4 DEF IInv, Handles, Fields
<1>15. Kept' BY <1>1, <1>2, <1>4 DEF IInv, Kept, Plain, Held, Live, OneBeat, Fields
<1> QED BY <1>5, <1>6, <1>7, <1>8, <1>9, <1>10, <1>11, <1>12, <1>13, <1>14, <1>15 DEF IInv

\* No copy runs at first.
LEMMA IInvInit ==
    ASSUME Init
    PROVE  IInv
<1> USE DesktopAssumption DEF Init
<1>1. ServerTypes BY DEF ServerTypes, ServerRecord, Phases, Down
<1>2. LauncherTypes BY DEF LauncherTypes
<1>3. PageTypes BY NoTabIs DEF PageTypes
<1>4. OtherTypes BY DEF OtherTypes
<1>5. Browsing BY DEF Browsing
<1>6. Unopened BY NoTabIs, Pairs DEF Unopened
<1>7. Minded BY NoTabIs DEF Minded, Awake
<1>8. Answered BY DEF Answered
<1>9. Shown BY DEF Shown
<1>10. Handles BY NoTabIs DEF Handles
<1>11. Kept BY NoTabIs DEF Kept, OneBeat
<1> QED BY <1>1, <1>2, <1>3, <1>4, <1>5, <1>6, <1>7, <1>8, <1>9, <1>10, <1>11 DEF IInv

\* Every step keeps the invariant: one lemma per action.
LEMMA IInvStep ==
    ASSUME IInv, [Next]_vars
    PROVE  IInv'
<1>1. CASE UNCHANGED vars
    BY <1>1
    DEF vars, net, history, IInv, ServerTypes, LauncherTypes, PageTypes, OtherTypes, Browsing,
        Unopened,
        Minded, Excused, Awake, Down, Answered, Seen, Excepted, Shown, Explained, Handles,
        Kept, Plain, Held, Live, OneBeat
<1>2. ASSUME Next PROVE IInv'
  <2>1. SameDay BY <1>2 DEF Next
  <2>2. CASE \E l \in Launchers : \/ Launch(l) \/ LauncherStep(l)
                                  \/ \E answer \in BOOLEAN : OpenBrowser(l, answer)
    <3> PICK l \in Launchers : \/ Launch(l) \/ LauncherStep(l)
                               \/ \E answer \in BOOLEAN : OpenBrowser(l, answer)
      BY <2>2
    <3>1. CASE Launch(l) BY <3>1, <2>1, LaunchStep
    <3>2. CASE \E answer \in BOOLEAN : OpenBrowser(l, answer) BY <3>2, <2>1, OpenBrowserStep
    <3>3. CASE AwaitPort(l) BY <3>3, <2>1, AwaitPortStep
    <3>4. CASE AwaitEnds(l) BY <3>4, <2>1, AwaitEndsStep
    <3>5. CASE Check(l) BY <3>5, <2>1, CheckStep
    <3>6. CASE Bind(l) BY <3>6, <2>1, BindStep
    <3>7. CASE \E answer \in BOOLEAN : Probe(l, answer) BY <3>7, <2>1, ProbeStep
    <3>8. CASE \E answer \in BOOLEAN : Await(l, answer) BY <3>8, <2>1, AwaitStep
    <3> QED BY <3>1, <3>2, <3>3, <3>4, <3>5, <3>6, <3>7, <3>8 DEF LauncherStep
  <2>3. CASE \E stale \in SUBSET Silent : Maintain(stale) BY <2>3, <2>1, MaintainStep
  <2>4. CASE Exit BY <2>4, <2>1, ExitStep
  <2>5. CASE Kill BY <2>5, <2>1, KillStep
  <2>6. CASE AdriftHandled BY <2>6, <2>1, AdriftHandledStep
  <2>7. CASE \E s \in beacons : EndHandled(s) BY <2>7, <2>1, EndHandledStep
  <2>8. CASE \E t \in Tabs : TabStep(t) \/ Sleep(t) \/ Wake(t)
                             \/ \E next \in {"open", "loading", "closed"} : Leave(t, next)
    <3> PICK t \in Tabs : TabStep(t) \/ Sleep(t) \/ Wake(t)
                             \/ \E next \in {"open", "loading", "closed"} : Leave(t, next)
      BY <2>8
    <3>1. CASE Load(t) BY <3>1, <2>1, LoadStep
    <3>2. CASE StartHandled(t) BY <3>2, <2>1, StartHandledStep
    <3>3. CASE StartAnswered(t) BY <3>3, <2>1, StartAnsweredStep
    <3>4. CASE Beat(t) BY <3>4, <2>1, BeatStep
    <3>5. CASE \E i \in Slots : BeatHandled(t, i) BY <3>5, <2>1, BeatHandledStep
    <3>6. CASE \E i \in Slots : BeatGone(t, i) BY <3>6, <2>1, BeatGoneStep
    <3>7. CASE Sleep(t) BY <3>7, <2>1, SleepStep
    <3>8. CASE Wake(t) BY <3>8, <2>1, WakeStep
    <3>9. CASE \E next \in {"open", "loading", "closed"} : Leave(t, next) BY <3>9, <2>1, LeaveStep
    <3> QED BY <3>1, <3>2, <3>3, <3>4, <3>5, <3>6, <3>7, <3>8, <3>9 DEF TabStep
  <2> QED BY <1>2, <2>2, <2>3, <2>4, <2>5, <2>6, <2>7, <2>8 DEF Next
<1> QED BY <1>1, <1>2

-----------------------------------------------------------------------------
(* Theorems *)

\* The inductive invariant holds, however many copies of the app are started.
THEOREM IInvHolds == Spec => []IInv
<1>1. Init => IInv BY IInvInit
<1>2. IInv /\ [Next]_vars => IInv' BY IInvStep
<1> QED BY <1>1, <1>2, PTL DEF Spec

\* Every variable has its type, a server has its owner, and what it knew ends with it.
THEOREM TypeCorrect == Spec => []TypeOK
<1>1. IInv => TypeOK
    BY
    DEF IInv, TypeOK, ServerTypes, LauncherTypes, PageTypes, OtherTypes, ServerRecord, Phases,
        PageRecord, Handle, Beats
<1> QED BY <1>1, IInvHolds, PTL

\* Whoever starts the app sees a page or an error, with the exceptions the property names.
THEOREM EveryLaunchIsAnsweredHolds == Spec => []EveryLaunchIsAnswered
<1>1. ASSUME IInv PROVE EveryLaunchIsAnswered
  <2>1. ASSUME NEW l \in Launchers, launcher[l] = "ended"
        PROVE  \/ l \in shown \/ silent[l] # "no"
               \/ happened \cap {"killed", "crossed", "relayed", "slept"} # {}
               \/ \E t \in {<<l, "attach">>, <<l, "own">>} : tab[t].state \notin {"unused", "failed"}
    <3>1. Excepted(l) \/ Seen(Attach(l)) \/ Seen(Own(l))
      BY <1>1, <2>1 DEF IInv, Answered
    <3> QED BY <3>1 DEF Excepted, Seen, Attach, Own
  <2>2. shown # {} => happened \cap {"slow", "raced"} # {}
    BY <1>1 DEF IInv, Shown, Explained
  <2> QED BY <2>1, <2>2 DEF EveryLaunchIsAnswered
<1> QED BY <1>1, IInvHolds, PTL

\* A session that no page holds was left by a page whose start was under way, or has lost its
\* page to one of two requests that crossed.
THEOREM OrphansHaveACauseHolds == Spec => []OrphansHaveACause
<1>1. ASSUME IInv PROVE OrphansHaveACause
  <2> SUFFICES ASSUME happened \cap {"left", "overlap"} = {}, NEW s \in server.sessions
               PROVE  s \in beacons \cup UNION {{tab[t].ref, tab[t].answer} : t \in {u \in Tabs : Live(u)}}
    BY DEF OrphansHaveACause
  <2>1. Held(s) BY <1>1 DEF IInv, Kept, Plain
  <2> QED BY <2>1 DEF Held
<1> QED BY <1>1, IInvHolds, PTL

\* No page stays behind without a server and without a launcher that is about to start one,
\* with the exceptions the property names.
THEOREM NoPageIsStrandedHolds == Spec => []NoPageIsStranded
<1>1. ASSUME IInv PROVE NoPageIsStranded
  <2> SUFFICES ASSUME Down, NEW t \in Tabs, tab[t].state \in {"loading", "open"},
                      \A l \in Launchers : launcher[l] \in {"off", "ended"}
               PROVE  \/ happened \cap {"slept", "killed"} # {}
                      \/ \E l \in Launchers : silent[l] # "no"
    BY DEF NoPageIsStranded
  <2>1. Excused(t) BY <1>1 DEF IInv, Minded, Awake, Down
  <2> QED BY <2>1, Opens DEF Excused
<1> QED BY <1>1, IInvHolds, PTL
=============================================================================
