------------------------- MODULE TrackingRefreshProofs -------------------------
(***************************************************************************)
(* Proofs about TrackingRefresh, for any number of threads, tracking       *)
(* numbers, events, uploads, requests and crashes.                         *)
(*                                                                         *)
(* The invariant says of each session what it may believe of the database  *)
(* it sees (View), and of a row that no other session has in memory        *)
(* (Quiet) that the database still has it as it was loaded. SessionStep    *)
(* does the work for the other sessions once; each action is left with     *)
(* what it does to its own.                                                *)
(***************************************************************************)
EXTENDS TrackingRefresh, FiniteSetTheorems, WellFoundedInduction, TLAPS

-----------------------------------------------------------------------------
(* The inductive invariant *)

Labels == {"idle", "confirm", "poll", "ask", "each", "insert", "events", "apply", "failed",
           "finish"}

\* Where a session may have something pending, and may write.
Working == {"each", "insert", "events", "apply", "failed"}

Session ==
    [pc : Labels, polls : BOOLEAN, upload : Uploads \cup {None},
     todo : Seq(Numbers), batch : Seq(Numbers), left : Seq(Numbers),
     memory : [Numbers -> Cell \cup {Unloaded}],
     adds : SUBSET (Numbers \X Events), clash : BOOLEAN, told : SUBSET (Numbers \X Events)]

Holds(s, n) == s.memory[n] # Unloaded
Added(s, n) == {e \in Events : <<n, e>> \in s.adds}

\* The types of the variables; run is only in Ran, which stands by itself.
Types ==
    /\ db \in Database
    /\ lock \in Threads \cup {None} /\ tx \in Database \cup {None}
    /\ lock = None <=> tx = None
    /\ session \in [Threads -> Session]
    /\ overlapped \subseteq Numbers

Ran == run \in [Threads -> {"none", "running", "completed", "failed"}]

\* A session by itself.
Shape(s) ==
    /\ s.pc = "idle" => s = Idle
    /\ s.pc = "confirm" => s.upload \in Uploads
    /\ s.pc \notin Working => s.adds = {}
    /\ \A i \in DOMAIN s.left : s.left[i] \in ToSet(s.batch)
    /\ \A n \in Numbers : ~Holds(s, n) => Added(s, n) = {}
    /\ s.pc \in {"insert", "events", "apply"} => s.left # <<>>
    /\ s.pc \in {"events", "apply"} => Holds(s, Head(s.left))

Shapes == \A t \in Threads : Shape(session[t])

\* A session and what it sees of the database: the rows that it knows are there, and
\* what it tells is stored or about to be.
Known(view, s) == \A n \in Numbers : Holds(s, n) /\ s.memory[n].base # NoRow => view.row[n] # NoRow
Sound(view, s) ==
    /\ Known(view, s)
    /\ \A a \in s.told : a[2] \in view.stored[a[1]] \cup Added(s, a[1])
    /\ s.pc = "apply" => view.stored[Head(s.left)] \cup Added(s, Head(s.left)) # {}

Sounds == \A t \in Threads : Sound(View(t), session[t])

\* What the writer has done so far takes nothing from the database, and is about rows
\* that it has in memory.
Kept(d, e) ==
    /\ e.orders = d.orders /\ e.links = d.links /\ e.confirmed = d.confirmed
    /\ \A n \in Numbers : /\ d.row[n] # NoRow => e.row[n] # NoRow
                          /\ d.stored[n] \subseteq e.stored[n]
Touched(d, e, s) ==
    \A n \in Numbers : ~Holds(s, n) => e.row[n] = d.row[n] /\ e.stored[n] = d.stored[n]
Writes ==
    \A t \in Threads : lock = t =>
        session[t].pc \in Working /\ Kept(db, tx) /\ Touched(db, tx, session[t])

\* Where a row in memory is as an answer leaves it.
Settled(s, n) ==
    /\ ~(s.pc \in {"events", "apply"} /\ n = Head(s.left))
    /\ ~(s.pc = "failed" /\ n \in ToSet(s.batch))

\* A row in memory that no other session has: nothing has changed it in the database.
Quiet(view, s, n) ==
    Holds(s, n) =>
        /\ s.memory[n].base # NoRow => s.memory[n].base = view.row[n]
        /\ Settled(s, n) => Coherent(s.memory[n].work, view.stored[n] \cup Added(s, n))

Alone ==
    \A t, u \in Threads : \A n \in Numbers \ overlapped :
        Holds(session[t], n) /\ Holds(session[u], n) => t = u
Quiets ==
    \A t \in Threads : \A n \in Numbers \ overlapped : Quiet(View(t), session[t], n)

IInv == /\ Types /\ Shapes /\ Sounds /\ Writes /\ Alone /\ Quiets
        /\ UploadsAreStoredWhole /\ QuietRowsAreCoherent

-----------------------------------------------------------------------------
(* Rows *)

\* An UPDATE leaves a row.
LEMMA MergedIsRow ==
    ASSUME NEW row \in Row, NEW m \in Cell, m.base # NoRow
    PROVE  Merged(row, m) \in Row
<1>1. m.base \in Row /\ m.work \in Row BY DEF Cell
<1> QED BY <1>1 DEF Merged, Column, Row

\* An UPDATE of the row that was loaded makes it the one in memory.
LEMMA MergedIsWork ==
    ASSUME NEW m \in Cell, m.base # NoRow
    PROVE  Merged(m.base, m) = m.work
<1>1. m.base \in Row /\ m.work \in Row BY DEF Cell
<1>2. ASSUME NEW a, NEW b PROVE Column(a, a, b) = b BY DEF Column
<1>3. Merged(m.base, m) =
         [status |-> m.work.status, code |-> m.work.code, event |-> m.work.event,
          error |-> m.work.error, terminal |-> m.work.terminal, queried |-> m.work.queried]
      BY <1>2 DEF Merged
<1> QED BY <1>1, <1>3 DEF Row

\* Rows in memory.
LEMMA Cells ==
    /\ \A row \in Row : /\ Loaded(row) \in Cell /\ Created(row) \in Cell
                        /\ Loaded(row).base = row /\ Loaded(row).work = row
                        /\ Created(row).base = NoRow /\ Created(row).work = row
    /\ \A m \in Cell : m # Unloaded /\ m.work # NoRow /\ m.work \in Row
    /\ Registered \in Row
<1>1. Unloaded \notin Cell /\ NoRow \notin Row BY RefreshAssumption
<1>2. Registered \in Row BY DEF Registered, Row, Statuses, POLLABLE_STATUSES
<1> QED BY <1>1, <1>2 DEF Loaded, Created, Cell

\* What _record_empty_route makes of a row is coherent.
LEMMA Empties ==
    ASSUME NEW row \in Row, NEW reason \in {None, Reason}, NEW stored
    PROVE  Emptied(row, reason) \in Row /\ Coherent(Emptied(row, reason), stored)
<1> DEFINE new == Emptied(row, reason)
<1>1. new \in Row BY DEF Emptied, Row, Statuses, POLLABLE_STATUSES
<1>2. Emptied(new, reason) = new BY DEF Emptied, Row
<1> QED BY <1>1, <1>2 DEF Coherent

\* What _record_failures makes of a row is coherent.
LEMMA Fails ==
    ASSUME NEW row \in Row, NEW stored
    PROVE  FailedRow(row) \in Row /\ Coherent(FailedRow(row), stored)
<1> DEFINE new == FailedRow(row)
<1>1. new \in Row BY DEF FailedRow, Row, Statuses, POLLABLE_STATUSES
<1>2. FailedRow(new) = new BY DEF FailedRow, Row
<1> QED BY <1>1, <1>2 DEF Coherent

\* The largest of some numbers up to n, among them: NatLessThanWellFounded, turned around.
LEMMA MaxIn ==
    ASSUME NEW n \in Nat, NEW S \in SUBSET (0 .. n), S # {}
    PROVE  Max(S) \in S /\ \A x \in S : x <= Max(S)
<1> DEFINE Less == {ss \in Nat \X Nat : ss[1] < ss[2]}
           T == {m \in Nat : n - m \in S}
<1>0. IsWellFoundedOn(Less, Nat)
  BY NatLessThanWellFounded DEF OpToRel
<1>1. \A x \in S : x \in Nat /\ x <= n
  OBVIOUS
<1>2. T # {}
  <2>1. PICK x \in S : TRUE
    OBVIOUS
  <2>2. n - x \in Nat /\ n - (n - x) = x
    BY <1>1
  <2>3. QED
    BY <2>1, <2>2
<1>3. PICK m \in T : \A y \in T : <<y, m>> \notin Less
  <2>1. T \subseteq Nat
    OBVIOUS
  <2> HIDE DEF T, Less
  <2>2. QED
    BY <1>0, <1>2, <2>1, WFMin, Zenon
<1>4. n - m \in S /\ m \in Nat
  BY <1>3
<1>5. ASSUME NEW y \in S PROVE y <= n - m
  <2>1. n - y \in T
    BY <1>1
  <2>2. <<n - y, m>> \notin Less
    BY <1>3, <2>1
  <2>3. ~(n - y < m)
    BY <1>4, <2>1, <2>2
  <2>4. QED
    BY <1>1, <1>4, <2>3
<1>6. QED
  BY <1>4, <1>5 DEF Max

\* The latest of some events is one of them.
LEMMA Latest ==
    ASSUME NEW stored \in SUBSET Events, stored # {}
    PROVE  Max(stored) \in stored
<1> DEFINE N == Cardinality(Events)
<1>1. N \in Nat /\ Events = 1 .. N BY RefreshAssumption, FS_CardinalityType
<1>2. stored \in SUBSET (0 .. N) BY <1>1
<1> QED BY <1>1, <1>2, MaxIn

\* What _apply_route_response makes of a row is coherent.
LEMMA Applies ==
    ASSUME NEW stored \in SUBSET Events, stored # {}
    PROVE  Applied(Max(stored)) \in Row /\ Coherent(Applied(Max(stored)), stored)
<1>1. Max(stored) \in Events BY Latest
<1>2. MapStatus[Max(stored)] \in [status : STRING, terminal : BOOLEAN]
      BY <1>1, RefreshAssumption
<1>3. Applied(Max(stored)) \in Row BY <1>1, <1>2 DEF Applied, Row, Statuses
<1> QED BY <1>3 DEF Coherent
-----------------------------------------------------------------------------
(* What a flush writes *)

\* A flush takes nothing from the database, writes only rows that the session has in
\* memory, and a row that nothing has changed since becomes what is in memory.
LEMMA WrittenFacts ==
    ASSUME NEW view \in Database, NEW s \in Session, Known(view, s),
           \A n \in Numbers : ~Holds(s, n) => Added(s, n) = {}
    PROVE  LET w == Written(view, s) IN
           /\ w \in Database
           /\ Kept(view, w) /\ Touched(view, w, s)
           /\ \A n \in Numbers : w.stored[n] = view.stored[n] \cup Added(s, n)
           /\ \A n \in Numbers : Holds(s, n) => w.row[n] # NoRow
           /\ \A n \in Numbers :
                  Holds(s, n) /\ (s.memory[n].base # NoRow => s.memory[n].base = view.row[n])
                      => w.row[n] = s.memory[n].work
<1> DEFINE w == Written(view, s)
           row(n) == IF ~Pending(s, n) THEN view.row[n]
                     ELSE IF s.memory[n].base = NoRow THEN s.memory[n].work
                     ELSE Merged(view.row[n], s.memory[n])
<1>1. /\ w.orders = view.orders /\ w.links = view.links /\ w.confirmed = view.confirmed
      /\ w.row = [n \in Numbers |-> row(n)]
      /\ w.stored = [n \in Numbers |-> view.stored[n] \cup Added(s, n)]
      /\ w = [row |-> w.row, stored |-> w.stored, orders |-> w.orders, links |-> w.links,
              confirmed |-> w.confirmed]
  <2> DEFINE rows == [n \in Numbers |-> row(n)]
             stored == [n \in Numbers |-> view.stored[n] \cup Added(s, n)]
  <2>1. w = [view EXCEPT !.row = rows, !.stored = stored]
    BY DEF Written, Added
  <2> HIDE DEF rows, stored, w
  <2>2. w.row = rows /\ w.stored = stored
    BY <2>1 DEF Database
  <2>3. w.orders = view.orders /\ w.links = view.links /\ w.confirmed = view.confirmed
    BY <2>1 DEF Database
  <2>4. w = [row |-> w.row, stored |-> w.stored, orders |-> w.orders, links |-> w.links,
             confirmed |-> w.confirmed]
    BY <2>1 DEF Database
  <2> QED BY <2>2, <2>3, <2>4 DEF rows, stored
<1> HIDE DEF w
<1>2. ASSUME NEW n \in Numbers PROVE w.stored[n] = view.stored[n] \cup Added(s, n)
  BY <1>1
<1>3. ASSUME NEW n \in Numbers
      PROVE  /\ w.row[n] = row(n) /\ view.row[n] \in Row \cup {NoRow}
             /\ Holds(s, n) => s.memory[n] \in Cell
  BY <1>1 DEF Database, Session, Holds
<1>4. ASSUME NEW n \in Numbers, ~Holds(s, n) PROVE w.row[n] = view.row[n]
  BY <1>3, <1>4 DEF Pending, Holds
<1>5. ASSUME NEW n \in Numbers, Holds(s, n) PROVE w.row[n] \in Row
  <2>1. s.memory[n] \in Cell /\ s.memory[n].work \in Row /\ NoRow \notin Row
    BY <1>3, <1>5, Cells, RefreshAssumption
  <2>2. s.memory[n].base # NoRow => view.row[n] \in Row
    BY <1>3, <1>5 DEF Known
  <2>3. s.memory[n].base # NoRow => Merged(view.row[n], s.memory[n]) \in Row
    BY <2>1, <2>2, MergedIsRow
  <2>4. CASE ~Pending(s, n)
    BY <1>3, <1>5, <2>1, <2>2, <2>4 DEF Pending, Holds
  <2>5. CASE Pending(s, n)
    BY <1>3, <2>1, <2>3, <2>5
  <2> QED BY <2>4, <2>5
<1>6. ASSUME NEW n \in Numbers, Holds(s, n),
             s.memory[n].base # NoRow => s.memory[n].base = view.row[n]
      PROVE  w.row[n] = s.memory[n].work
  <2>1. s.memory[n] \in Cell /\ s.memory[n].work \in Row /\ NoRow \notin Row
    BY <1>3, <1>6, Cells, RefreshAssumption
  <2>2. s.memory[n].base # NoRow => Merged(view.row[n], s.memory[n]) = s.memory[n].work
    BY <2>1, <1>6, MergedIsWork
  <2>3. CASE ~Pending(s, n)
    BY <1>3, <1>6, <2>1, <2>3 DEF Pending, Holds
  <2>4. CASE Pending(s, n)
    BY <1>3, <2>2, <2>4
  <2> QED BY <2>3, <2>4
<1>7. w.row \in [Numbers -> Row \cup {NoRow}]
  BY <1>1, <1>3, <1>4, <1>5
<1>8. w.stored \in [Numbers -> SUBSET Events]
  BY <1>1 DEF Database, Added
<1>9. w \in Database
  BY <1>1, <1>7, <1>8 DEF Database
<1>10. NoRow \notin Row BY RefreshAssumption
<1>11. Kept(view, w)
  BY <1>1, <1>2, <1>3, <1>4, <1>5, <1>10 DEF Kept
<1>12. Touched(view, w, s)
  BY <1>2, <1>4 DEF Touched
<1> QED BY <1>2, <1>5, <1>6, <1>9, <1>10, <1>11, <1>12 DEF w

-----------------------------------------------------------------------------
(* Sessions *)

\* A session that is not there.
LEMMA Idles ==
    /\ Idle \in Session /\ Shape(Idle)
    /\ Idle.pc = "idle" /\ Idle.memory = [n \in Numbers |-> Unloaded]
    /\ Idle.adds = {} /\ Idle.told = {}
    /\ \A n \in Numbers : ~Holds(Idle, n) /\ Added(Idle, n) = {}
    /\ \A view : Sound(view, Idle)
<1>1. /\ Idle \in Session /\ Idle.pc = "idle"
      /\ Idle.adds = {} /\ Idle.told = {} /\ Idle.left = <<>>
      /\ Idle.memory = [n \in Numbers |-> Unloaded]
  BY DEF Idle, Session, Labels
<1>2. \A n \in Numbers : ~Holds(Idle, n) /\ Added(Idle, n) = {}
  BY <1>1 DEF Holds, Added
<1> QED BY <1>1, <1>2 DEF Shape, Sound, Known, Working

\* A step of one thread keeps the invariant, if the thread's own session s is as it says, and
\* if for the others the database only grows, apart from rows that the thread has in memory:
\* those they have not, or they overlap.
LEMMA SessionStep ==
    ASSUME IInv, NEW t \in Threads, NEW s \in Session, Becomes(t, s),
           db' \in Database, lock' \in Threads \cup {None}, tx' \in Database \cup {None},
           lock' = None <=> tx' = None,
           StoredWhole(db'),
           \A n \in Numbers \ overlapped' : Coherent(db'.row[n], db'.stored[n]),
           lock' = t => s.pc \in Working /\ Kept(db', tx') /\ Touched(db', tx', s),
           lock' \in Threads \ {t} => lock' = lock /\ tx' = tx /\ db' = db,
           lock \in Threads \ {t} => lock' = lock,
           \A n \in Numbers : /\ db.row[n] # NoRow => db'.row[n] # NoRow
                              /\ db.stored[n] \subseteq db'.stored[n],
           \A n \in Numbers : ~Holds(session[t], n) =>
               /\ db.row[n] # NoRow => db'.row[n] = db.row[n]
               /\ db'.stored[n] = db.stored[n],
           Shape(s), Sound(View(t)', s),
           \A n \in Numbers \ overlapped' : Quiet(View(t)', s, n)
    PROVE  IInv'
<1>1. /\ session' \in [Threads -> Session] /\ session'[t] = s
      /\ \A u \in Threads \ {t} : session'[u] = session[u]
      /\ overlapped \subseteq overlapped' /\ overlapped' \subseteq Numbers
  BY DEF IInv, Types, Becomes
<1>2. \A u \in Threads \ {t}, n \in Numbers \ overlapped' :
         ~(Holds(s, n) /\ Holds(session[u], n))
  BY DEF Becomes, Holds
<1>3. Types'
  BY <1>1 DEF Types
<1>4. Shapes'
  <2> SUFFICES ASSUME NEW u \in Threads PROVE Shape(session'[u])
    BY DEF Shapes
  <2> QED BY <1>1 DEF IInv, Shapes
<1>5. ASSUME NEW u \in Threads \ {t}
      PROVE  /\ \A n \in Numbers : /\ View(u).row[n] # NoRow => View(u)'.row[n] # NoRow
                                   /\ View(u).stored[n] \subseteq View(u)'.stored[n]
             /\ \A n \in Numbers : ~Holds(session[t], n) =>
                   /\ View(u).row[n] # NoRow => View(u)'.row[n] = View(u).row[n]
                   /\ View(u)'.stored[n] = View(u).stored[n]
  <2>1. CASE lock = u
    BY <2>1 DEF View
  <2>2. CASE lock # u
    BY <2>2 DEF View
  <2> QED BY <2>1, <2>2
<1>6. Sounds'
  <2> SUFFICES ASSUME NEW u \in Threads PROVE Sound(View(u)', session'[u])
    BY DEF Sounds
  <2>1. CASE u = t
    BY <1>1, <2>1
  <2>2. CASE u # t
    <3>1. Sound(View(u), session[u]) /\ session'[u] = session[u]
      BY <1>1, <2>2 DEF IInv, Sounds
    <3>2. session[u] \in Session /\ Shape(session[u])
      BY DEF IInv, Types, Shapes
    <3>3. session[u].told \subseteq Numbers \X Events
      BY <3>2 DEF Session
    <3>4. session[u].pc = "apply" => Head(session[u].left) \in Numbers
      BY <3>2 DEF Session, Shape
    <3> HIDE DEF View
    <3>5. \A n \in Numbers : View(u).stored[n] \subseteq View(u)'.stored[n]
      BY <1>5, <2>2
    <3>6. Known(View(u)', session[u])
      BY <3>1, <1>5, <2>2 DEF Sound, Known
    <3>7. \A a \in session[u].told : a[2] \in View(u)'.stored[a[1]] \cup Added(session[u], a[1])
      <4> TAKE a \in session[u].told
      <4>1. a[1] \in Numbers /\ a[2] \in View(u).stored[a[1]] \cup Added(session[u], a[1])
        BY <3>1, <3>3 DEF Sound
      <4>2. View(u).stored[a[1]] \subseteq View(u)'.stored[a[1]]
        BY <4>1, <3>5
      <4> QED BY <4>1, <4>2
    <3> DEFINE n == Head(session[u].left)
    <3>8. session[u].pc = "apply" => View(u)'.stored[n] \cup Added(session[u], n) # {}
      <4> HAVE session[u].pc = "apply"
      <4>1. n \in Numbers /\ View(u).stored[n] \cup Added(session[u], n) # {}
        BY <3>1, <3>4 DEF Sound
      <4>2. View(u).stored[n] \subseteq View(u)'.stored[n]
        BY <4>1, <3>5
      <4> QED BY <4>1, <4>2
    <3> QED BY <3>1, <3>6, <3>7, <3>8 DEF Sound
  <2> QED BY <2>1, <2>2
<1>7. Writes'
  <2> SUFFICES ASSUME NEW u \in Threads, lock' = u
               PROVE  session'[u].pc \in Working /\ Kept(db', tx') /\ Touched(db', tx', session'[u])
    BY DEF Writes
  <2>1. CASE u = t
    BY <1>1, <2>1
  <2>2. CASE u # t
    BY <1>1, <2>2 DEF IInv, Writes
  <2> QED BY <2>1, <2>2
<1>8. Alone'
  <2> SUFFICES ASSUME NEW u \in Threads, NEW v \in Threads, NEW n \in Numbers \ overlapped',
                      Holds(session'[u], n), Holds(session'[v], n)
               PROVE  u = v
    BY DEF Alone
  <2> QED BY <1>1, <1>2 DEF IInv, Alone
<1>9. Quiets'
  <2> SUFFICES ASSUME NEW u \in Threads, NEW n \in Numbers \ overlapped'
               PROVE  Quiet(View(u)', session'[u], n)
    BY DEF Quiets
  <2>1. CASE u = t
    BY <1>1, <2>1
  <2>2. CASE u # t
    <3>1. Quiet(View(u), session[u], n) /\ session'[u] = session[u]
      BY <1>1, <2>2 DEF IInv, Quiets
    <3>2. Holds(session[u], n) => ~Holds(session[t], n)
      BY <1>1, <2>2 DEF IInv, Alone
    <3>3. Known(View(u), session[u])
      BY DEF IInv, Sounds, Sound
    <3> HIDE DEF View
    <3>4. Holds(session[u], n) =>
             /\ View(u).row[n] # NoRow => View(u)'.row[n] = View(u).row[n]
             /\ View(u)'.stored[n] = View(u).stored[n]
      BY <1>5, <2>2, <3>2
    <3> QED BY <3>1, <3>3, <3>4 DEF Quiet, Known
  <2> QED BY <2>1, <2>2
<1>10. UploadsAreStoredWhole' /\ QuietRowsAreCoherent'
  BY DEF UploadsAreStoredWhole, QuietRowsAreCoherent
<1> QED BY <1>3, <1>4, <1>6, <1>7, <1>8, <1>9, <1>10 DEF IInv
\* Nothing is written.
LEMMA LocalStep ==
    ASSUME IInv, NEW t \in Threads, NEW s \in Session, Becomes(t, s), UNCHANGED <<db, lock, tx>>,
           lock = t => s.pc \in Working /\ \A n \in Numbers : Holds(session[t], n) => Holds(s, n),
           Shape(s), Sound(View(t), s), \A n \in Numbers \ overlapped' : Quiet(View(t), s, n)
    PROVE  IInv'
<1>1. View(t)' = View(t) /\ overlapped \subseteq overlapped'
  BY DEF View, Becomes
<1>2. /\ db \in Database /\ lock \in Threads \cup {None} /\ tx \in Database \cup {None}
      /\ lock = None <=> tx = None
      /\ StoredWhole(db) /\ \A n \in Numbers \ overlapped : Coherent(db.row[n], db.stored[n])
  BY DEF IInv, Types, UploadsAreStoredWhole, QuietRowsAreCoherent
<1>3. lock = t => Kept(db, tx) /\ Touched(db, tx, s)
  BY DEF IInv, Writes, Touched
<1> HIDE DEF View
<1> QED BY <1>1, <1>2, <1>3, SessionStep

\* The session is rolled back.
LEMMA RaiseStep ==
    ASSUME IInv, NEW t \in Threads, Raise(t) PROVE IInv'
<1>1. Becomes(t, Idle) /\ db' = db /\ overlapped \subseteq overlapped'
  BY DEF Raise, Becomes
<1>2. /\ db \in Database /\ lock' \in Threads \cup {None} /\ tx' \in Database \cup {None}
      /\ lock' = None <=> tx' = None
      /\ lock' # t
      /\ lock' \in Threads \ {t} => lock' = lock /\ tx' = tx
      /\ lock \in Threads \ {t} => lock' = lock
  BY RefreshAssumption DEF IInv, Types, Raise
<1>3. StoredWhole(db) /\ \A n \in Numbers \ overlapped : Coherent(db.row[n], db.stored[n])
  BY DEF IInv, UploadsAreStoredWhole, QuietRowsAreCoherent
<1>4. \A n \in Numbers : Quiet(View(t)', Idle, n)
  BY Idles DEF Quiet
<1> QED BY <1>1, <1>2, <1>3, <1>4, Idles, SessionStep

\* A flush writes what a session s has pending.
LEMMA FlushStep ==
    ASSUME IInv, NEW t \in Threads, MayWrite(t), NEW s \in Session, NEW u \in Session,
           Becomes(t, u), db' = db, lock' = t, tx' = Written(View(t), s),
           Known(View(t), s), \A n \in Numbers : ~Holds(s, n) => Added(s, n) = {},
           \A n \in Numbers : /\ Holds(session[t], n) => Holds(s, n)
                              /\ Holds(s, n) => Holds(u, n),
           u.pc \in Working, Shape(u), Sound(Written(View(t), s), u),
           \A n \in Numbers \ overlapped' : Quiet(Written(View(t), s), u, n)
    PROVE  IInv'
<1>1. View(t)' = tx' /\ overlapped \subseteq overlapped'
  BY DEF View, Becomes
<1>2. db \in Database /\ View(t) \in Database
  BY RefreshAssumption DEF IInv, Types, View
<1>3. StoredWhole(db) /\ \A n \in Numbers \ overlapped : Coherent(db.row[n], db.stored[n])
  BY DEF IInv, UploadsAreStoredWhole, QuietRowsAreCoherent
<1>4. lock = t \/ View(t) = db
  BY DEF View
<1>5. Kept(db, View(t)) /\ Touched(db, View(t), session[t])
  <2>1. CASE lock = t
    BY <2>1 DEF IInv, Writes, View
  <2>2. CASE lock # t
    BY <2>2 DEF View, Kept, Touched
  <2> QED BY <2>1, <2>2
<1>6. tx' \in Database /\ Kept(View(t), tx') /\ Touched(View(t), tx', s)
  BY <1>2, WrittenFacts
<1> HIDE DEF View
<1>7. Kept(db, tx') /\ Touched(db, tx', u)
  BY <1>5, <1>6 DEF Kept, Touched
<1>8. tx' # None /\ t # None /\ lock \notin Threads \ {t}
  BY <1>6, RefreshAssumption DEF MayWrite
<1> QED BY <1>1, <1>2, <1>3, <1>6, <1>7, <1>8, SessionStep

\* A commit writes what the session has pending, and keeps nothing in memory.
LEMMA CommitStep ==
    ASSUME IInv, NEW t \in Threads, MayWrite(t), session[t].pc = "each", NEW u \in Session,
           db' = Written(View(t), session[t]), lock' = None, tx' = None, Becomes(t, u),
           \A n \in Numbers : ~Holds(u, n), Shape(u), u.pc # "apply", u.told = session[t].told
    PROVE  IInv'
<1> DEFINE s == session[t]
<1>1. View(t)' = db' /\ overlapped \subseteq overlapped'
  BY RefreshAssumption DEF View, Becomes
<1>2. db \in Database /\ View(t) \in Database /\ s \in Session
  BY RefreshAssumption DEF IInv, Types, View
<1>3. Shape(s) /\ Sound(View(t), s) /\ \A n \in Numbers \ overlapped : Quiet(View(t), s, n)
  BY DEF IInv, Shapes, Sounds, Quiets
<1>4. /\ StoredWhole(db)
      /\ \A n \in Numbers \ overlapped : Coherent(db.row[n], db.stored[n])
  BY DEF IInv, UploadsAreStoredWhole, QuietRowsAreCoherent
<1>5. Kept(db, View(t)) /\ Touched(db, View(t), s)
  <2>1. CASE lock = t
    BY <2>1 DEF IInv, Writes, View
  <2>2. CASE lock # t
    BY <2>2 DEF View, Kept, Touched
  <2> QED BY <2>1, <2>2
<1>6. \A n \in Numbers : ~Holds(s, n) => Added(s, n) = {}
  BY <1>3 DEF Shape
<1> HIDE DEF View
<1>7. /\ db' \in Database /\ Kept(View(t), db') /\ Touched(View(t), db', s)
      /\ \A n \in Numbers : db'.stored[n] = View(t).stored[n] \cup Added(s, n)
      /\ \A n \in Numbers :
            Holds(s, n) /\ (s.memory[n].base # NoRow => s.memory[n].base = View(t).row[n])
                => db'.row[n] = s.memory[n].work
  BY <1>2, <1>3, <1>6, WrittenFacts DEF Sound
<1>8. Kept(db, db') /\ Touched(db, db', s)
  BY <1>5, <1>7 DEF Kept, Touched
<1>9. StoredWhole(db')
  <2>1. db.links \subseteq [order : Orders, tracking : Numbers]
    BY <1>2 DEF Database
  <2> QED BY <1>4, <1>8, <2>1 DEF StoredWhole, Kept
<1>10. ASSUME NEW n \in Numbers \ overlapped' PROVE Coherent(db'.row[n], db'.stored[n])
  <2>1. CASE ~Holds(s, n)
    BY <1>1, <1>4, <1>8, <2>1 DEF Touched
  <2>2. CASE Holds(s, n)
    <3>1. Settled(s, n)
      BY DEF Settled
    <3>2. Coherent(s.memory[n].work, View(t).stored[n] \cup Added(s, n))
      BY <1>1, <1>3, <2>2, <3>1 DEF Quiet
    <3>3. db'.row[n] = s.memory[n].work
      BY <1>1, <1>3, <1>7, <2>2 DEF Quiet
    <3> QED BY <1>7, <3>2, <3>3
  <2> QED BY <2>1, <2>2
<1>11. Sound(db', u)
  <2>1. ASSUME NEW a \in u.told PROVE a[2] \in db'.stored[a[1]]
    <3>1. a[1] \in Numbers /\ a[2] \in View(t).stored[a[1]] \cup Added(s, a[1])
      BY <1>2, <1>3 DEF Session, Sound
    <3> QED BY <1>7, <3>1
  <2> QED BY <2>1 DEF Sound, Known
<1>12. \A n \in Numbers : Quiet(db', u, n)
  BY DEF Quiet
<1>13. None \notin Threads
  BY RefreshAssumption
<1>14. lock \notin Threads \ {t}
  BY <1>13 DEF MayWrite
<1>15. \A n \in Numbers : /\ db.row[n] # NoRow => db'.row[n] # NoRow
                          /\ db.stored[n] \subseteq db'.stored[n]
  BY <1>8 DEF Kept
<1>16. \A n \in Numbers : ~Holds(s, n) =>
               /\ db.row[n] # NoRow => db'.row[n] = db.row[n]
               /\ db'.stored[n] = db.stored[n]
  BY <1>8 DEF Touched
<1> QED
  BY <1>1, <1>7, <1>9, <1>10, <1>11, <1>12, <1>13, <1>14, <1>15, <1>16, SessionStep

-----------------------------------------------------------------------------
(* The operators on sessions *)

\* NextBatch changes where the session goes on, and nothing that it has in memory.
LEMMA NextBatchFacts ==
    ASSUME NEW s \in Session, NEW todo \in Seq(Numbers)
    PROVE  LET r == NextBatch(s, todo) IN
           /\ r \in Session /\ r.pc \in {"ask", "finish"}
           /\ r.memory = s.memory /\ r.adds = s.adds /\ r.told = s.told
           /\ \A i \in DOMAIN r.left : r.left[i] \in ToSet(r.batch)
<1> DEFINE size == Min({BATCH, Len(todo)})
           first == SubSeq(todo, 1, size)
           rest == SubSeq(todo, size + 1, Len(todo))
           r == NextBatch(s, todo)
<1>1. BATCH \in Nat /\ Len(todo) \in Nat
  BY RefreshAssumption
<1>2. size \in Nat /\ size <= Len(todo)
  <2>1. \E x \in {BATCH, Len(todo)} : \A y \in {BATCH, Len(todo)} : x =< y
    BY <1>1
  <2> QED BY <1>1, <2>1 DEF Min
<1> HIDE DEF size
<1>3. first \in Seq(Numbers) /\ rest \in Seq(Numbers)
  BY <1>2
<1> HIDE DEF first, rest
<1>4. r = [s EXCEPT !.pc = IF todo = <<>> THEN "finish" ELSE "ask",
                    !.batch = first, !.left = first, !.todo = rest]
  BY DEF NextBatch, size, first, rest
<1> HIDE DEF r
<1>5. r \in Session
  BY <1>3, <1>4 DEF Session, Labels
<1>6. /\ r.pc \in {"ask", "finish"} /\ r.left = first /\ r.batch = first
      /\ r.memory = s.memory /\ r.adds = s.adds /\ r.told = s.told
  BY <1>4 DEF Session
<1>7. \A i \in DOMAIN first : first[i] \in ToSet(first)
  BY DEF ToSet
<1> QED BY <1>5, <1>6, <1>7 DEF r

\* A session with nothing pending is as good as before when it goes on to a batch.
LEMMA NextBatchFits ==
    ASSUME NEW s \in Session, NEW todo \in Seq(Numbers), NEW view, s.adds = {}, Known(view, s),
           \A a \in s.told : a[2] \in view.stored[a[1]]
    PROVE  LET r == NextBatch(s, todo) IN
           /\ r \in Session /\ r.pc \in {"ask", "finish"}
           /\ \A n \in Numbers : Holds(r, n) <=> Holds(s, n)
           /\ Shape(r) /\ Sound(view, r)
           /\ \A n \in Numbers : Settled(r, n)
           /\ \A n \in Numbers : Added(r, n) = {}
           /\ r.memory = s.memory /\ r.told = s.told
<1> DEFINE r == NextBatch(s, todo)
<1>1. /\ r \in Session /\ r.pc \in {"ask", "finish"}
      /\ r.memory = s.memory /\ r.adds = {} /\ r.told = s.told
      /\ \A i \in DOMAIN r.left : r.left[i] \in ToSet(r.batch)
  BY NextBatchFacts
<1> HIDE DEF r
<1>2. \A n \in Numbers : (Holds(r, n) <=> Holds(s, n)) /\ Added(r, n) = {}
  BY <1>1 DEF Holds, Added
<1>3. Shape(r)
  BY <1>1, <1>2 DEF Shape
<1>4. Sound(view, r)
  BY <1>1 DEF Sound, Known, Holds
<1>5. \A n \in Numbers : Settled(r, n)
  BY <1>1 DEF Settled
<1> QED BY <1>1, <1>2, <1>3, <1>4, <1>5 DEF r

\* Done goes on to the next number.
LEMMA DoneFacts ==
    ASSUME NEW s \in Session, s.left # <<>>,
           \A i \in DOMAIN s.left : s.left[i] \in ToSet(s.batch)
    PROVE  LET r == Done(s) IN
           /\ r \in Session /\ r.pc = "each"
           /\ r.memory = s.memory /\ r.adds = s.adds /\ r.told = s.told
           /\ \A i \in DOMAIN r.left : r.left[i] \in ToSet(r.batch)
<1> DEFINE r == Done(s)
<1>1. s.left \in Seq(Numbers) /\ Tail(s.left) \in Seq(Numbers)
  BY DEF Session
<1>2. r \in Session /\ r.pc = "each" /\ r.left = Tail(s.left) /\ r.batch = s.batch
      /\ r.memory = s.memory /\ r.adds = s.adds /\ r.told = s.told
  BY <1>1 DEF Done, Session, Labels
<1>3. \A i \in DOMAIN Tail(s.left) : i + 1 \in DOMAIN s.left /\ Tail(s.left)[i] = s.left[i + 1]
  BY <1>1
<1> HIDE DEF r
<1> QED BY <1>2, <1>3 DEF r

\* Holding has the row in memory: as it was there, as the database has it, or a new one.
LEMMA HoldingFacts ==
    ASSUME NEW s \in Session, NEW view \in Database, NEW n \in Numbers, Known(view, s)
    PROVE  LET r == Holding(s, view, n) IN
           /\ r \in Session
           /\ r.pc = s.pc /\ r.left = s.left /\ r.batch = s.batch
           /\ r.adds = s.adds /\ r.told = s.told
           /\ \A m \in Numbers \ {n} : r.memory[m] = s.memory[m]
           /\ r.memory[n] \in Cell
           /\ r.memory[n].base # NoRow => view.row[n] # NoRow
           /\ (Holds(s, n) /\ s.memory[n].base # NoRow => s.memory[n].base = view.row[n])
                 => (r.memory[n].base # NoRow => r.memory[n].base = view.row[n])
           /\ Select(s, view, n) = Unloaded => r.memory[n] = Created(Registered)
<1> DEFINE found == Select(s, view, n)
           cell == IF found = Unloaded THEN Created(Registered) ELSE found
           memory == [s.memory EXCEPT ![n] = cell]
           clash == s.clash \/ (s.memory[n] # Unloaded /\ s.memory[n].base = NoRow)
           r == Holding(s, view, n)
<1>1. s.memory \in [Numbers -> Cell \cup {Unloaded}] /\ s.memory[n] \in Cell \cup {Unloaded}
  BY DEF Session
<1>2. /\ view.row[n] \in Row \cup {NoRow} /\ NoRow \notin Row /\ Unloaded \notin Cell
  BY RefreshAssumption DEF Database
<1>3. cell \in Cell
  BY <1>1, <1>2, Cells DEF Select
<1>4. cell.base # NoRow => view.row[n] # NoRow
  BY <1>1, <1>2, Cells DEF Select, Known, Holds
<1>5. (Holds(s, n) /\ s.memory[n].base # NoRow => s.memory[n].base = view.row[n])
         => (cell.base # NoRow => cell.base = view.row[n])
  BY <1>1, <1>2, Cells DEF Select, Holds
<1>6. Select(s, view, n) = Unloaded => cell = Created(Registered)
  OBVIOUS
<1>7. r = [s EXCEPT !.memory = memory, !.clash = clash]
  BY DEF Holding, Session
<1>8. clash \in BOOLEAN
  OBVIOUS
<1> HIDE DEF cell, found, clash
<1>9. memory \in [Numbers -> Cell \cup {Unloaded}]
  BY <1>1, <1>3
<1>10. memory[n] = cell /\ \A m \in Numbers \ {n} : memory[m] = s.memory[m]
  BY <1>1
<1> HIDE DEF memory, r
<1>11. r \in Session
  BY <1>7, <1>8, <1>9 DEF Session
<1>12. /\ r.pc = s.pc /\ r.left = s.left /\ r.batch = s.batch /\ r.adds = s.adds /\ r.told = s.told
       /\ r.memory = memory
  BY <1>7 DEF Session
<1> QED BY <1>3, <1>4, <1>5, <1>6, <1>10, <1>11, <1>12 DEF r

\* Inserting has a new row in memory.
LEMMA InsertingFacts ==
    ASSUME NEW s \in Session, NEW n \in Numbers
    PROVE  LET r == Inserting(s, n) IN
           /\ r \in Session
           /\ r.pc = s.pc /\ r.left = s.left /\ r.batch = s.batch
           /\ r.adds = s.adds /\ r.told = s.told
           /\ \A m \in Numbers \ {n} : r.memory[m] = s.memory[m]
           /\ r.memory[n] = Created(Registered)
<1> DEFINE memory == [s.memory EXCEPT ![n] = Created(Registered)]
           clash == s.clash \/ s.memory[n] # Unloaded
           r == Inserting(s, n)
<1>1. r = [s EXCEPT !.memory = memory, !.clash = clash]
  BY DEF Inserting, Session
<1>2. clash \in BOOLEAN
  OBVIOUS
<1>3. memory \in [Numbers -> Cell \cup {Unloaded}] /\ memory[n] = Created(Registered)
      /\ \A m \in Numbers \ {n} : memory[m] = s.memory[m]
  BY Cells DEF Session
<1> HIDE DEF memory, clash, r
<1>4. r \in Session
  BY <1>1, <1>2, <1>3 DEF Session
<1>5. /\ r.pc = s.pc /\ r.left = s.left /\ r.batch = s.batch /\ r.adds = s.adds /\ r.told = s.told
      /\ r.memory = memory
  BY <1>1 DEF Session
<1> QED BY <1>3, <1>4, <1>5 DEF r

\* Set changes one row in memory.
LEMMA SetFacts ==
    ASSUME NEW s \in Session, NEW n \in Numbers, NEW row \in Row, s.memory[n] \in Cell
    PROVE  LET r == Set(s, n, row) IN
           /\ r \in Session
           /\ r.pc = s.pc /\ r.left = s.left /\ r.batch = s.batch
           /\ r.adds = s.adds /\ r.told = s.told
           /\ \A m \in Numbers \ {n} : r.memory[m] = s.memory[m]
           /\ r.memory[n] \in Cell /\ r.memory[n].base = s.memory[n].base /\ r.memory[n].work = row
<1> DEFINE cell == [base |-> s.memory[n].base, work |-> row]
           memory == [s.memory EXCEPT ![n] = cell]
           r == Set(s, n, row)
<1>1. cell \in Cell /\ cell.base = s.memory[n].base /\ cell.work = row
  BY DEF Cell
<1> HIDE DEF cell
<1>2. s.memory \in [Numbers -> Cell \cup {Unloaded}]
  BY DEF Session
<1>3. memory \in [Numbers -> Cell \cup {Unloaded}]
  BY <1>1, <1>2
<1>4. memory[n] = cell /\ \A m \in Numbers \ {n} : memory[m] = s.memory[m]
  BY <1>2
<1>5. r = [s EXCEPT !.memory = memory]
  BY DEF Set, Session, cell
<1> HIDE DEF memory, r
<1>6. r \in Session
  BY <1>3, <1>5 DEF Session
<1>7. /\ r.pc = s.pc /\ r.left = s.left /\ r.batch = s.batch /\ r.adds = s.adds /\ r.told = s.told
      /\ r.memory = memory
  BY <1>5 DEF Session
<1> QED BY <1>1, <1>4, <1>6, <1>7 DEF r

\* After a flush the session has in memory what the database then has.
LEMMA FlushedFacts ==
    ASSUME NEW s \in Session, NEW view \in Database, Known(view, s),
           \A n \in Numbers : ~Holds(s, n) => Added(s, n) = {}
    PROVE  LET r == Flushed(s)
               w == Written(view, s)
           IN
           /\ r \in Session
           /\ r.pc = s.pc /\ r.left = s.left /\ r.batch = s.batch /\ r.adds = {} /\ r.told = s.told
           /\ \A n \in Numbers : /\ Holds(r, n) <=> Holds(s, n)
                                 /\ Holds(s, n) => /\ r.memory[n] \in Cell
                                                   /\ r.memory[n].work = s.memory[n].work
           /\ Known(w, r)
           /\ \A n \in Numbers : Quiet(view, s, n) => Quiet(w, r, n)
<1> DEFINE memory == [n \in Numbers |-> IF s.memory[n] = Unloaded THEN Unloaded
                                        ELSE Loaded(s.memory[n].work)]
           r == Flushed(s)
           w == Written(view, s)
<1>1. ASSUME NEW n \in Numbers, Holds(s, n)
      PROVE  /\ s.memory[n].work \in Row
             /\ memory[n] \in Cell /\ memory[n] # Unloaded
             /\ memory[n].base = s.memory[n].work /\ memory[n].work = s.memory[n].work
  <2>1. s.memory[n] \in Cell
    BY <1>1 DEF Session, Holds
  <2>2. s.memory[n].work \in Row
    BY <2>1, Cells
  <2>3. memory[n] = Loaded(s.memory[n].work)
    BY <1>1 DEF Holds
  <2> QED BY <2>2, <2>3, Cells
<1>2. ASSUME NEW n \in Numbers, ~Holds(s, n) PROVE memory[n] = Unloaded
  BY <1>2 DEF Holds
<1>3. r = [s EXCEPT !.adds = {}, !.memory = memory]
  BY DEF Flushed
<1>4. memory \in [Numbers -> Cell \cup {Unloaded}]
  BY <1>1, <1>2
<1> HIDE DEF memory, r
<1>5. r \in Session
  BY <1>3, <1>4 DEF Session
<1>6. /\ r.pc = s.pc /\ r.left = s.left /\ r.batch = s.batch /\ r.adds = {} /\ r.told = s.told
      /\ r.memory = memory
  BY <1>3 DEF Session
<1>7. ASSUME NEW n \in Numbers
      PROVE  /\ Holds(r, n) <=> Holds(s, n)
             /\ Holds(s, n) => /\ r.memory[n] \in Cell
                               /\ r.memory[n].work = s.memory[n].work
                               /\ r.memory[n].base = s.memory[n].work
  BY <1>1, <1>2, <1>6 DEF Holds
<1>8. /\ \A n \in Numbers : Holds(s, n) => w.row[n] # NoRow
      /\ \A n \in Numbers : w.stored[n] = view.stored[n] \cup Added(s, n)
      /\ \A n \in Numbers :
            Holds(s, n) /\ (s.memory[n].base # NoRow => s.memory[n].base = view.row[n])
                => w.row[n] = s.memory[n].work
  BY WrittenFacts
<1> HIDE DEF w
<1>9. Known(w, r)
  BY <1>7, <1>8 DEF Known
<1>10. ASSUME NEW n \in Numbers, Quiet(view, s, n) PROVE Quiet(w, r, n)
  <2> SUFFICES ASSUME Holds(r, n)
               PROVE  /\ r.memory[n].base = w.row[n]
                      /\ Settled(r, n) => Coherent(r.memory[n].work, w.stored[n] \cup Added(r, n))
    BY DEF Quiet
  <2>1. Holds(s, n)
    BY <1>7
  <2>2. r.memory[n].base = w.row[n]
    BY <1>7, <1>8, <1>10, <2>1 DEF Quiet
  <2>3. Settled(r, n) => Settled(s, n)
    BY <1>6 DEF Settled
  <2>4. w.stored[n] \cup Added(r, n) = view.stored[n] \cup Added(s, n)
    BY <1>6, <1>8 DEF Added
  <2> QED BY <1>7, <1>10, <2>1, <2>2, <2>3, <2>4 DEF Quiet
<1> QED BY <1>5, <1>6, <1>7, <1>9, <1>10 DEF r, w

\* The numbers of a batch have failed in memory; nothing else has changed there.
LEMMA AllFailedFacts ==
    ASSUME NEW s \in Session, NEW view \in Database, Known(view, s)
    PROVE  LET r == AllFailed(s, view) IN
           /\ r \in Session
           /\ r.pc = "each" /\ r.left = <<>> /\ r.adds = s.adds /\ r.told = s.told
           /\ \A n \in Numbers \ ToSet(s.batch) : r.memory[n] = s.memory[n]
           /\ \A n \in ToSet(s.batch) :
                 /\ r.memory[n] \in Cell
                 /\ r.memory[n].base # NoRow => view.row[n] # NoRow
                 /\ (Holds(s, n) /\ s.memory[n].base # NoRow => s.memory[n].base = view.row[n])
                       => (r.memory[n].base # NoRow => r.memory[n].base = view.row[n])
                 /\ \A stored : Coherent(r.memory[n].work, stored)
<1> DEFINE memory == [n \in Numbers |-> IF n \in ToSet(s.batch) THEN Failed(s, view, n).memory[n]
                                        ELSE s.memory[n]]
           clash == s.clash \/ \E n \in ToSet(s.batch) : Failed(s, view, n).clash
           r == AllFailed(s, view)
<1>1. ToSet(s.batch) \subseteq Numbers
  BY DEF Session, ToSet
<1>2. ASSUME NEW n \in ToSet(s.batch)
      PROVE  LET cell == Failed(s, view, n).memory[n] IN
             /\ cell \in Cell
             /\ cell.base # NoRow => view.row[n] # NoRow
             /\ (Holds(s, n) /\ s.memory[n].base # NoRow => s.memory[n].base = view.row[n])
                   => (cell.base # NoRow => cell.base = view.row[n])
             /\ \A stored : Coherent(cell.work, stored)
  <2> DEFINE h == Holding(s, view, n)
             row == FailedRow(h.memory[n].work)
             f == Set(h, n, row)
  <2>1. /\ h \in Session /\ h.memory[n] \in Cell
        /\ h.memory[n].base # NoRow => view.row[n] # NoRow
        /\ (Holds(s, n) /\ s.memory[n].base # NoRow => s.memory[n].base = view.row[n])
              => (h.memory[n].base # NoRow => h.memory[n].base = view.row[n])
    BY <1>1, HoldingFacts
  <2> HIDE DEF h
  <2>2. row \in Row /\ \A stored : Coherent(row, stored)
    BY <2>1, Cells, Fails
  <2> HIDE DEF row
  <2>3. f.memory[n] \in Cell /\ f.memory[n].base = h.memory[n].base /\ f.memory[n].work = row
    BY <1>1, <2>1, <2>2, SetFacts
  <2>4. Failed(s, view, n) = f
    BY DEF Failed, h, row
  <2> HIDE DEF f
  <2> QED BY <2>1, <2>2, <2>3, <2>4
<1>3. memory \in [Numbers -> Cell \cup {Unloaded}]
  BY <1>2 DEF Session
<1>4. r = [s EXCEPT !.pc = "each", !.left = <<>>, !.memory = memory, !.clash = clash]
  BY DEF AllFailed
<1>5. clash \in BOOLEAN
  OBVIOUS
<1>6. /\ \A n \in Numbers \ ToSet(s.batch) : memory[n] = s.memory[n]
      /\ \A n \in ToSet(s.batch) : memory[n] = Failed(s, view, n).memory[n]
  BY <1>1
<1> HIDE DEF memory, clash, r
<1>7. r \in Session
  <2>1. <<>> \in Seq(Numbers) /\ "each" \in Labels
    BY DEF Labels
  <2> QED BY <1>3, <1>4, <1>5, <2>1 DEF Session
<1>8. /\ r.pc = "each" /\ r.left = <<>> /\ r.adds = s.adds /\ r.told = s.told
      /\ r.memory = memory
  BY <1>4 DEF Session
<1>9. ASSUME NEW n \in ToSet(s.batch)
      PROVE  /\ r.memory[n] \in Cell
             /\ r.memory[n].base # NoRow => view.row[n] # NoRow
             /\ (Holds(s, n) /\ s.memory[n].base # NoRow => s.memory[n].base = view.row[n])
                   => (r.memory[n].base # NoRow => r.memory[n].base = view.row[n])
             /\ \A stored : Coherent(r.memory[n].work, stored)
  <2>1. r.memory[n] = Failed(s, view, n).memory[n]
    BY <1>6, <1>8
  <2> QED BY <1>2, <2>1
<1> QED BY <1>6, <1>7, <1>8, <1>9 DEF r

-----------------------------------------------------------------------------
(* The actions *)

\* What the invariant says of one thread's session.
LEMMA Own ==
    ASSUME IInv, NEW t \in Threads
    PROVE  /\ session[t] \in Session /\ Shape(session[t])
           /\ Sound(View(t), session[t]) /\ Known(View(t), session[t])
           /\ \A n \in Numbers \ overlapped : Quiet(View(t), session[t], n)
           /\ \A n \in Numbers : ~Holds(session[t], n) => Added(session[t], n) = {}
           /\ db \in Database /\ View(t) \in Database
           /\ session[t].pc \notin Working => lock # t /\ View(t) = db /\ session[t].adds = {}
           /\ lock = t => session[t].pc \in Working
<1>1. lock = t => session[t].pc \in Working
  BY DEF IInv, Writes
<1>2. db \in Database /\ View(t) \in Database /\ session[t] \in Session
  BY RefreshAssumption DEF IInv, Types, View
<1>3. session[t].pc \notin Working => lock # t /\ View(t) = db
  BY <1>1 DEF View
<1>4. Shape(session[t]) /\ Sound(View(t), session[t])
  BY DEF IInv, Shapes, Sounds
<1>5. \A n \in Numbers : ~Holds(session[t], n) => Added(session[t], n) = {}
  BY <1>4 DEF Shape
<1>6. session[t].pc \notin Working => session[t].adds = {}
  BY <1>4 DEF Shape
<1>7. Known(View(t), session[t])
  BY <1>4 DEF Sound
<1>8. \A n \in Numbers \ overlapped : Quiet(View(t), session[t], n)
  BY DEF IInv, Quiets
<1> QED BY <1>1, <1>2, <1>3, <1>4, <1>5, <1>6, <1>7, <1>8

\* What a step leaves in memory, and has not settled, is as quiet as before.
LEMMA StillQuiet ==
    ASSUME NEW view, NEW s, NEW r, NEW n, r.memory[n] = s.memory[n],
           Settled(r, n) => Settled(s, n), Added(r, n) = Added(s, n), Quiet(view, s, n)
    PROVE  Quiet(view, r, n)
BY DEF Quiet, Holds

\* A session that has nothing pending ends.
LEMMA IdleStep ==
    ASSUME IInv, NEW t \in Threads, session[t].pc \notin Working,
           Becomes(t, Idle), UNCHANGED <<db, lock, tx>>
    PROVE  IInv'
<1>1. \A n \in Numbers : Quiet(View(t), Idle, n)
  BY Idles DEF Quiet
<1> QED BY <1>1, Idles, Own, LocalStep

\* The actions that give a session its work write nothing.
LEMMA ConfirmBatchStep ==
    ASSUME IInv, NEW t \in Threads, NEW u \in Uploads, ConfirmBatch(t, u) PROVE IInv'
<1> DEFINE s == [Idle EXCEPT !.pc = "confirm", !.upload = u]
<1>1. /\ Becomes(t, s) /\ UNCHANGED <<db, lock, tx>> /\ session[t].pc = "idle"
  BY DEF ConfirmBatch, Request
<1>2. /\ s \in Session /\ s.pc = "confirm" /\ s.upload = u
      /\ s.memory = Idle.memory /\ s.adds = {} /\ s.told = {} /\ s.left = Idle.left
      /\ Idle.left = <<>>
  BY Idles DEF Session, Labels, Idle
<1> HIDE DEF s
<1>3. \A n \in Numbers : ~Holds(s, n) /\ Added(s, n) = {}
  BY <1>2, Idles DEF Holds, Added
<1>4. Shape(s) /\ Sound(View(t), s) /\ \A n \in Numbers : Quiet(View(t), s, n)
  BY <1>2, <1>3 DEF Shape, Sound, Known, Quiet, Working
<1>5. lock # t
  BY <1>1, Own DEF Working
<1> QED BY <1>1, <1>2, <1>4, <1>5, LocalStep

\* A polling run begins with an empty session.
LEMMA PollStep ==
    ASSUME IInv, NEW t \in Threads, Poll(t) PROVE IInv'
<1> DEFINE s == [Idle EXCEPT !.pc = "poll", !.polls = TRUE]
<1>1. /\ Becomes(t, s) /\ UNCHANGED <<db, lock, tx>> /\ session[t].pc = "idle"
  BY DEF Poll, Request
<1>2. /\ s \in Session /\ s.pc = "poll"
      /\ s.memory = Idle.memory /\ s.adds = {} /\ s.told = {} /\ s.left = Idle.left
      /\ Idle.left = <<>>
  BY Idles DEF Session, Labels, Idle
<1> HIDE DEF s
<1>3. \A n \in Numbers : ~Holds(s, n) /\ Added(s, n) = {}
  BY <1>2, Idles DEF Holds, Added
<1>4. Shape(s) /\ Sound(View(t), s) /\ \A n \in Numbers : Quiet(View(t), s, n)
  BY <1>2, <1>3 DEF Shape, Sound, Known, Quiet, Working
<1>5. lock # t
  BY <1>1, Own DEF Working
<1> QED BY <1>1, <1>2, <1>4, <1>5, LocalStep

\* A set of numbers, in any order.
LEMMA Orderings ==
    ASSUME NEW S \in SUBSET Numbers, NEW q \in SetToSeqs(S)
    PROVE  q \in Seq(Numbers)
<1>1. Cardinality(S) \in Nat
  BY RefreshAssumption, FS_Subset, FS_CardinalityType
<1> QED BY <1>1 DEF SetToSeqs

\* A session goes on to ask for numbers, with what it has in memory.
LEMMA RefreshesStep ==
    ASSUME IInv, NEW t \in Threads, session[t].pc \notin Working,
           NEW s \in Session, NEW numbers \in Seq(Numbers), NEW r \in Refreshes(s, numbers),
           Becomes(t, r), UNCHANGED <<db, lock, tx>>,
           s.adds = {}, Known(db, s), \A a \in s.told : a[2] \in db.stored[a[1]],
           \A n \in Numbers \ overlapped : Holds(s, n) =>
               /\ s.memory[n].base # NoRow => s.memory[n].base = db.row[n]
               /\ Coherent(s.memory[n].work, db.stored[n])
    PROVE  IInv'
<1>1. View(t) = db /\ lock # t
  BY Own
<1>2. /\ r \in Session /\ Shape(r) /\ Sound(db, r) /\ r.memory = s.memory
      /\ \A n \in Numbers : Added(r, n) = {} /\ (Holds(r, n) <=> Holds(s, n))
  <2>1. <<>> \in Seq(Numbers) /\ (r = NextBatch(s, numbers) \/ r = NextBatch(s, <<>>))
    BY DEF Refreshes
  <2>2. CASE r = NextBatch(s, numbers)
    BY <2>2, NextBatchFits
  <2>3. CASE r = NextBatch(s, <<>>)
    BY <2>1, <2>3, NextBatchFits
  <2> QED BY <2>1, <2>2, <2>3
<1>3. overlapped \subseteq overlapped'
  BY DEF Becomes
<1>4. ASSUME NEW n \in Numbers \ overlapped' PROVE Quiet(db, r, n)
  <2>1. (Holds(r, n) => Holds(s, n)) /\ r.memory[n] = s.memory[n] /\ n \in Numbers \ overlapped
    BY <1>2, <1>3
  <2>2. db.stored[n] \cup Added(r, n) = db.stored[n]
    BY <1>2
  <2> QED BY <2>1, <2>2 DEF Quiet
<1> QED BY <1>1, <1>2, <1>4, LocalStep

\* POST /trackings/refresh has nothing in memory yet.
LEMMA RefreshSelectedStep ==
    ASSUME IInv, NEW t \in Threads, NEW numbers \in Selections, RefreshSelected(t, numbers)
    PROVE  IInv'
<1>1. PICK r \in Refreshes(Idle, numbers) : Becomes(t, r)
  BY DEF RefreshSelected, Request
<1>2. session[t].pc \notin Working /\ UNCHANGED <<db, lock, tx>> /\ numbers \in Seq(Numbers)
  BY RefreshAssumption DEF RefreshSelected, Request, Working
<1> QED BY <1>1, <1>2, Idles, RefreshesStep DEF Known

\* The rows that a poll selects are in memory as they are in the database.
LEMMA RefreshPollableStep ==
    ASSUME IInv, NEW t \in Threads, session[t].pc \notin Working, NEW s \in Session,
           NEW r \in RefreshPollable(s), Becomes(t, r), UNCHANGED <<db, lock, tx>>,
           s.adds = {}, \A a \in s.told : a[2] \in db.stored[a[1]]
    PROVE  IInv'
<1> DEFINE memory == [n \in Numbers |-> IF n \in Pollable THEN Loaded(db.row[n]) ELSE Unloaded]
           q == [s EXCEPT !.memory = memory]
<1>1. PICK numbers \in SetToSeqs(Pollable) : r \in Refreshes(q, numbers)
  BY DEF RefreshPollable
<1>2. db \in Database
  BY Own
<1>3. Pollable \subseteq Numbers /\ \A n \in Pollable : db.row[n] \in Row /\ db.row[n] # NoRow
  BY <1>2, RefreshAssumption DEF Pollable, Database
<1>4. numbers \in Seq(Numbers)
  BY <1>3, Orderings
<1>5. /\ memory \in [Numbers -> Cell \cup {Unloaded}]
      /\ \A n \in Numbers : memory[n] # Unloaded =>
            /\ memory[n].base = db.row[n] /\ memory[n].work = db.row[n] /\ db.row[n] # NoRow
  BY <1>3, Cells
<1> HIDE DEF memory
<1>6. q \in Session /\ q.memory = memory /\ q.adds = s.adds /\ q.told = s.told
  BY <1>5 DEF Session
<1> HIDE DEF q
<1>7. Known(db, q)
  BY <1>5, <1>6 DEF Known, Holds
<1>8. \A n \in Numbers \ overlapped : Holds(q, n) =>
         /\ q.memory[n].base # NoRow => q.memory[n].base = db.row[n]
         /\ Coherent(q.memory[n].work, db.stored[n])
  BY <1>5, <1>6 DEF Holds, IInv, QuietRowsAreCoherent
<1> QED BY <1>1, <1>4, <1>6, <1>7, <1>8, RefreshesStep

\* POST /trackings/refresh-all and a polling run select alike.
LEMMA RefreshAllStep ==
    ASSUME IInv, NEW t \in Threads, RefreshAll(t) PROVE IInv'
<1>1. PICK r \in RefreshPollable(Idle) : Becomes(t, r)
  BY DEF RefreshAll, Request
<1>2. session[t].pc \notin Working /\ UNCHANGED <<db, lock, tx>>
  BY DEF RefreshAll, Request, Working
<1> QED BY <1>1, <1>2, Idles, RefreshPollableStep

\* A polling run that gives up only ends its session.
LEMMA SelectDueStep ==
    ASSUME IInv, NEW t \in Threads, SelectDue(t) PROVE IInv'
<1>1. session[t].pc \notin Working /\ UNCHANGED <<db, lock, tx>>
  BY DEF SelectDue, Working
<1>2. CASE DueCheckRaises
  BY <1>1, <1>2, IdleStep DEF SelectDue
<1>3. CASE ~DueCheckRaises
  <2>1. PICK r \in RefreshPollable(session[t]) : Becomes(t, r)
    BY <1>3 DEF SelectDue
  <2>2. /\ session[t] \in Session /\ session[t].adds = {}
        /\ \A a \in session[t].told : a[2] \in db.stored[a[1]]
    BY <1>1, Own DEF Sound, Added
  <2> QED BY <1>1, <2>1, <2>2, RefreshPollableStep
<1> QED BY <1>2, <1>3

\* A request that answers only ends its session.
LEMMA FinishStep ==
    ASSUME IInv, NEW t \in Threads, Finish(t) PROVE IInv'
BY IdleStep DEF Finish, Working

\* Asking changes nothing but where the session goes on.
LEMMA AskStep ==
    ASSUME IInv, NEW t \in Threads, Ask(t) PROVE IInv'
<1> DEFINE s == session[t]
<1>1. PICK label \in {"each", "failed"} : Becomes(t, [s EXCEPT !.pc = label])
  BY DEF Ask
<1> DEFINE r == [s EXCEPT !.pc = label]
<1>2. UNCHANGED <<db, lock, tx>> /\ s.pc = "ask"
  BY DEF Ask, InBatch
<1>3. /\ s \in Session /\ Shape(s) /\ Sound(View(t), s) /\ View(t) = db /\ lock # t
      /\ s.adds = {} /\ \A n \in Numbers \ overlapped : Quiet(View(t), s, n)
  BY <1>2, Own DEF Working
<1>4. /\ r \in Session /\ r.pc = label /\ r.left = s.left /\ r.batch = s.batch /\ r.adds = s.adds
      /\ r.told = s.told /\ r.memory = s.memory
  BY <1>3 DEF Session, Labels
<1>5. Becomes(t, r)
  BY <1>1
<1> HIDE DEF r, s
<1>6. \A n \in Numbers : /\ Holds(r, n) <=> Holds(s, n)
                         /\ Added(r, n) = Added(s, n) /\ Added(s, n) = {}
  BY <1>3, <1>4 DEF Holds, Added
<1>7. Shape(r)
  BY <1>3, <1>4, <1>6 DEF Shape, Working
<1>8. Sound(View(t), r)
  <2>1. s.told \subseteq Numbers \X Events
    BY <1>3 DEF Session
  <2> HIDE DEF View
  <2>2. Known(View(t), r)
    BY <1>3, <1>4, <1>6 DEF Sound, Known
  <2>3. ASSUME NEW a \in r.told PROVE a[2] \in View(t).stored[a[1]] \cup Added(r, a[1])
    BY <1>3, <1>4, <1>6, <2>1 DEF Sound
  <2> QED BY <1>4, <2>2, <2>3 DEF Sound
<1>9. overlapped \subseteq overlapped'
  BY <1>5 DEF Becomes
<1>10. ASSUME NEW n \in Numbers \ overlapped' PROVE Quiet(View(t), r, n)
  <2>1. Settled(s, n)
    BY <1>2 DEF Settled, s
  <2>2. Quiet(View(t), s, n)
    BY <1>3, <1>9
  <2> HIDE DEF View
  <2> QED BY <1>4, <1>6, <2>1, <2>2, StillQuiet
<1> QED BY <1>2, <1>3, <1>4, <1>5, <1>7, <1>8, <1>10, LocalStep

\* The number in hand is one of the batch.
LEMMA NumberOf ==
    ASSUME NEW s \in Session, Shape(s), s.left # <<>>
    PROVE  Head(s.left) \in Numbers /\ Head(s.left) \in ToSet(s.batch)
<1>1. s.left \in Seq(Numbers)
  BY DEF Session
<1>2. 1 \in DOMAIN s.left /\ Head(s.left) = s.left[1] /\ s.left[1] \in Numbers
  BY <1>1
<1> QED BY <1>2 DEF Shape

\* The row in hand is settled, as an empty answer leaves it.
LEMMA RecordEmptyRouteStep ==
    ASSUME IInv, NEW t \in Threads, RecordEmptyRoute(t) PROVE IInv'
<1> DEFINE s == session[t]
           n == Head(s.left)
           h == Holding(s, View(t), n)
<1>1. PICK reason \in {None, Reason} :
         Becomes(t, Done(Set(h, n, Emptied(h.memory[n].work, reason))))
  BY DEF RecordEmptyRoute, Number
<1> DEFINE row == Emptied(h.memory[n].work, reason)
           q == Set(h, n, row)
           r == Done(q)
<1>2. UNCHANGED <<db, lock, tx>> /\ s.pc = "each" /\ s.left # <<>>
  BY DEF RecordEmptyRoute, InBatch
<1>3. /\ s \in Session /\ Shape(s) /\ Sound(View(t), s) /\ View(t) \in Database
      /\ Known(View(t), s)
      /\ \A m \in Numbers \ overlapped : Quiet(View(t), s, m)
  BY Own
<1>4. n \in Numbers
  BY <1>2, <1>3, NumberOf
<1>5. Becomes(t, r)
  BY <1>1
<1>6. overlapped \subseteq overlapped'
  BY <1>5 DEF Becomes
<1> DEFINE v == View(t)
<1> HIDE DEF View, s, n, h, row, q, r, v
<1>7. /\ h \in Session
      /\ h.pc = s.pc /\ h.left = s.left /\ h.batch = s.batch /\ h.adds = s.adds /\ h.told = s.told
      /\ \A m \in Numbers \ {n} : h.memory[m] = s.memory[m]
      /\ h.memory[n] \in Cell
      /\ h.memory[n].base # NoRow => v.row[n] # NoRow
      /\ (Holds(s, n) /\ s.memory[n].base # NoRow => s.memory[n].base = v.row[n])
            => (h.memory[n].base # NoRow => h.memory[n].base = v.row[n])
  BY <1>3, <1>4, HoldingFacts DEF h, v
<1>8. row \in Row /\ \A stored : Coherent(row, stored)
  BY <1>7, Cells, Empties DEF row
<1>9. /\ q \in Session
      /\ q.pc = h.pc /\ q.left = h.left /\ q.batch = h.batch /\ q.adds = h.adds /\ q.told = h.told
      /\ \A m \in Numbers \ {n} : q.memory[m] = h.memory[m]
      /\ q.memory[n] \in Cell /\ q.memory[n].base = h.memory[n].base /\ q.memory[n].work = row
  BY <1>4, <1>7, <1>8, SetFacts DEF q
<1>10. q.left # <<>> /\ \A i \in DOMAIN q.left : q.left[i] \in ToSet(q.batch)
  BY <1>2, <1>3, <1>7, <1>9 DEF Shape
<1>11. /\ r \in Session /\ r.pc = "each"
       /\ r.memory = q.memory /\ r.adds = q.adds /\ r.told = q.told
       /\ \A i \in DOMAIN r.left : r.left[i] \in ToSet(r.batch)
  BY <1>9, <1>10, DoneFacts DEF r
<1>12. /\ \A m \in Numbers \ {n} : r.memory[m] = s.memory[m]
       /\ r.memory[n] \in Cell /\ r.memory[n].work = row /\ Holds(r, n)
       /\ r.memory[n].base # NoRow => v.row[n] # NoRow
       /\ (Holds(s, n) /\ s.memory[n].base # NoRow => s.memory[n].base = v.row[n])
            => (r.memory[n].base # NoRow => r.memory[n].base = v.row[n])
       /\ r.adds = s.adds /\ r.told = s.told
       /\ \A m : Added(r, m) = Added(s, m)
  BY <1>7, <1>9, <1>11, Cells DEF Holds, Added
<1>13. \A m \in Numbers : Holds(s, m) => Holds(r, m)
  BY <1>12 DEF Holds
<1>14. Shape(r)
  BY <1>3, <1>11, <1>12, <1>13 DEF Shape, Working
<1>15. Known(v, r)
  BY <1>3, <1>12 DEF Known, Holds, v
<1>16. Sound(v, r)
  BY <1>3, <1>11, <1>12, <1>15 DEF Sound, v
<1>17. ASSUME NEW m \in Numbers \ overlapped' PROVE Quiet(v, r, m)
  <2>1. Quiet(v, s, m)
    BY <1>3, <1>6 DEF v
  <2>2. CASE m = n
    BY <1>8, <1>12, <2>1, <2>2 DEF Quiet
  <2>3. CASE m # n
    <3>1. Settled(s, m)
      BY <1>2 DEF Settled
    <3> QED BY <1>12, <2>1, <2>3, <3>1, StillQuiet
  <2> QED BY <2>2, <2>3
<1> QED BY <1>2, <1>5, <1>11, <1>13, <1>14, <1>16, <1>17, LocalStep DEF v, s, Working

\* The row in hand is in memory, or to be inserted.
LEMMA SelectTrackingStep ==
    ASSUME IInv, NEW t \in Threads, SelectTracking(t) PROVE IInv'
<1> DEFINE s == session[t]
           n == Head(s.left)
           v == View(t)
           h == Holding(s, v, n)
<1>1. /\ s.pc = "each" /\ s.left # <<>>
      /\ \/ Becomes(t, [h EXCEPT !.pc = "events"])
         \/ Becomes(t, [s EXCEPT !.pc = "insert"])
      /\ UNCHANGED <<db, lock, tx>>
  BY DEF SelectTracking, InBatch, Number
<1>2. /\ s \in Session /\ Shape(s) /\ Sound(v, s) /\ v \in Database /\ Known(v, s)
      /\ \A m \in Numbers \ overlapped : Quiet(v, s, m)
      /\ \A m \in Numbers : ~Holds(s, m) => Added(s, m) = {}
  BY Own
<1>3. n \in Numbers
  BY <1>1, <1>2, NumberOf
<1> HIDE DEF s, n, h, v
<1>4. /\ h \in Session
      /\ h.pc = s.pc /\ h.left = s.left /\ h.batch = s.batch /\ h.adds = s.adds /\ h.told = s.told
      /\ \A m \in Numbers \ {n} : h.memory[m] = s.memory[m]
      /\ h.memory[n] \in Cell
      /\ h.memory[n].base # NoRow => v.row[n] # NoRow
      /\ (Holds(s, n) /\ s.memory[n].base # NoRow => s.memory[n].base = v.row[n])
            => (h.memory[n].base # NoRow => h.memory[n].base = v.row[n])
  BY <1>2, <1>3, HoldingFacts DEF h
<1>5. /\ Holds(h, n)
      /\ \A m \in Numbers : Holds(s, m) => Holds(h, m)
      /\ \A m : Added(h, m) = Added(s, m)
      /\ \A m \in Numbers : ~Holds(h, m) => Added(h, m) = {}
      /\ Known(v, h)
  <2>1. Holds(h, n)
    BY <1>4, Cells DEF Holds
  <2>2. \A m : Added(h, m) = Added(s, m)
    BY <1>4 DEF Added
  <2>3. \A m \in Numbers : Holds(s, m) => Holds(h, m)
    BY <1>4, <2>1 DEF Holds
  <2>4. Known(v, h)
    BY <1>2, <1>4 DEF Known, Holds
  <2> QED BY <1>2, <2>1, <2>2, <2>3, <2>4
<1>6. Sound(v, h)
  BY <1>1, <1>2, <1>4, <1>5 DEF Sound
<1>7. CASE Becomes(t, [h EXCEPT !.pc = "events"])
  <2> DEFINE r == [h EXCEPT !.pc = "events"]
  <2>1. /\ r \in Session /\ r.pc = "events" /\ r.left = h.left /\ r.batch = h.batch
        /\ r.adds = h.adds /\ r.told = h.told /\ r.memory = h.memory
    BY <1>4 DEF Session, Labels
  <2>2. Becomes(t, r) /\ overlapped \subseteq overlapped'
    BY <1>7 DEF Becomes
  <2> HIDE DEF r
  <2>3. \A m \in Numbers : (Holds(r, m) <=> Holds(h, m)) /\ Added(r, m) = Added(h, m)
    BY <2>1 DEF Holds, Added
  <2>4. Shape(r)
    BY <1>1, <1>2, <1>3, <1>4, <1>5, <2>1, <2>3 DEF Shape, Working, n
  <2>5. Sound(v, r)
    <3>1. Known(v, r)
      BY <1>5, <2>1, <2>3 DEF Known
    <3>2. \A a : Added(r, a) = Added(h, a)
      BY <2>1 DEF Added
    <3> QED BY <1>6, <2>1, <3>1, <3>2 DEF Sound
  <2>6. ASSUME NEW m \in Numbers \ overlapped' PROVE Quiet(v, r, m)
    <3>1. Quiet(v, s, m)
      BY <1>2, <2>2
    <3>2. CASE m = n
      <4>1. ~Settled(r, m)
        BY <1>4, <2>1, <3>2 DEF Settled, n
      <4> QED BY <1>4, <2>1, <3>1, <3>2, <4>1 DEF Quiet
    <3>3. CASE m # n
      <4>1. Settled(s, m)
        BY <1>1 DEF Settled
      <4>2. Added(r, m) = Added(s, m) /\ r.memory[m] = s.memory[m]
        BY <1>4, <1>5, <2>1, <2>3, <3>3
      <4> QED BY <3>1, <4>1, <4>2, StillQuiet
    <3> QED BY <3>2, <3>3
  <2>7. \A m \in Numbers : Holds(s, m) => Holds(r, m)
    BY <1>5, <2>3
  <2> QED BY <1>1, <1>7, <2>1, <2>2, <2>4, <2>5, <2>6, <2>7, LocalStep DEF v, s, Working
<1>8. CASE Becomes(t, [s EXCEPT !.pc = "insert"])
  <2> DEFINE r == [s EXCEPT !.pc = "insert"]
  <2>1. /\ r \in Session /\ r.pc = "insert" /\ r.left = s.left /\ r.batch = s.batch
        /\ r.adds = s.adds /\ r.told = s.told /\ r.memory = s.memory
    BY <1>2 DEF Session, Labels
  <2>2. Becomes(t, r) /\ overlapped \subseteq overlapped'
    BY <1>8 DEF Becomes
  <2> HIDE DEF r
  <2>3. /\ \A m : Added(r, m) = Added(s, m)
        /\ \A m \in Numbers : Holds(r, m) <=> Holds(s, m)
    BY <2>1 DEF Holds, Added
  <2>4. Shape(r)
    BY <1>1, <1>2, <2>1, <2>3 DEF Shape, Working
  <2>5. Sound(v, r)
    <3>1. Known(v, r)
      BY <1>2, <2>1, <2>3 DEF Known
    <3> QED BY <1>2, <2>1, <2>3, <3>1 DEF Sound
  <2>6. ASSUME NEW m \in Numbers \ overlapped' PROVE Quiet(v, r, m)
    <3>1. Quiet(v, s, m)
      BY <1>2, <2>2
    <3>2. Settled(s, m)
      BY <1>1 DEF Settled
    <3> QED BY <2>1, <2>3, <3>1, <3>2, StillQuiet
  <2> QED BY <1>1, <2>1, <2>2, <2>3, <2>4, <2>5, <2>6, LocalStep DEF v, s, Working
<1> QED BY <1>1, <1>7, <1>8

\* The row in hand is inserted with a flush, unless another session was first.
LEMMA InsertTrackingStep ==
    ASSUME IInv, NEW t \in Threads, InsertTracking(t) PROVE IInv'
<1> DEFINE s == session[t]
           n == Head(s.left)
           v == View(t)
           h == Inserting(s, n)
           f == Flushed(h)
           w == Written(v, h)
<1>1. /\ s.pc = "insert"
      /\ \/ Raise(t)
         \/ /\ MayWrite(t) /\ lock' = t /\ tx' = w /\ db' = db
            /\ Becomes(t, [f EXCEPT !.pc = "events"])
  BY DEF InsertTracking, InBatch, Number
<1>2. /\ s \in Session /\ Shape(s) /\ Sound(v, s) /\ v \in Database /\ Known(v, s)
      /\ \A m \in Numbers \ overlapped : Quiet(v, s, m)
      /\ \A m \in Numbers : ~Holds(s, m) => Added(s, m) = {}
  BY Own
<1>3. s.left # <<>> /\ n \in Numbers
  BY <1>1, <1>2, NumberOf DEF Shape
<1> HIDE DEF s, n, h, v, f, w
<1>4. /\ h \in Session
      /\ h.pc = s.pc /\ h.left = s.left /\ h.batch = s.batch /\ h.adds = s.adds /\ h.told = s.told
      /\ \A m \in Numbers \ {n} : h.memory[m] = s.memory[m]
      /\ h.memory[n] \in Cell /\ h.memory[n].base = NoRow /\ h.memory[n].work = Registered
  BY <1>2, <1>3, InsertingFacts, Cells DEF h
<1>5. /\ Holds(h, n)
      /\ \A m \in Numbers : Holds(s, m) => Holds(h, m)
      /\ \A m : Added(h, m) = Added(s, m)
      /\ \A m \in Numbers : ~Holds(h, m) => Added(h, m) = {}
      /\ Known(v, h)
  <2>1. Holds(h, n)
    BY <1>4, Cells DEF Holds
  <2>2. \A m : Added(h, m) = Added(s, m)
    BY <1>4 DEF Added
  <2>3. \A m \in Numbers : Holds(s, m) => Holds(h, m)
    BY <1>4, <2>1 DEF Holds
  <2>4. Known(v, h)
    BY <1>2, <1>4 DEF Known, Holds
  <2> QED BY <1>2, <2>1, <2>2, <2>3, <2>4
<1>6. Sound(v, h)
  BY <1>1, <1>2, <1>4, <1>5 DEF Sound
<1>7. CASE MayWrite(t) /\ lock' = t /\ tx' = w /\ db' = db
           /\ Becomes(t, [f EXCEPT !.pc = "events"])
  <2> DEFINE r == [f EXCEPT !.pc = "events"]
  <2>1. /\ f \in Session
        /\ f.pc = h.pc /\ f.left = h.left /\ f.batch = h.batch /\ f.adds = {} /\ f.told = h.told
        /\ \A m \in Numbers : Holds(f, m) <=> Holds(h, m)
        /\ Known(w, f)
        /\ \A m \in Numbers : Quiet(v, h, m) => Quiet(w, f, m)
    BY <1>2, <1>4, <1>5, FlushedFacts DEF f, w
  <2>2. /\ r \in Session /\ r.pc = "events" /\ r.left = f.left /\ r.batch = f.batch
        /\ r.adds = {} /\ r.told = f.told /\ r.memory = f.memory
    BY <2>1 DEF Session, Labels
  <2>3. Becomes(t, r) /\ overlapped \subseteq overlapped'
    BY <1>7 DEF Becomes
  <2> HIDE DEF r
  <2>4. /\ \A m \in Numbers : Holds(r, m) <=> Holds(h, m)
        /\ \A m : Added(r, m) = {} /\ Added(f, m) = {}
    BY <2>1, <2>2 DEF Holds, Added
  <2>5. Shape(r)
    BY <1>1, <1>2, <1>3, <1>4, <1>5, <2>1, <2>2, <2>4 DEF Shape, Working, n
  <2>6. Sound(w, r)
    <3>1. Known(w, r)
      BY <2>1, <2>2, <2>4 DEF Known
    <3>2. ASSUME NEW a \in r.told PROVE a[2] \in w.stored[a[1]]
      <4>1. h.told \subseteq Numbers \X Events /\ r.told = h.told
        BY <1>4, <2>1, <2>2 DEF Session
      <4>2. w.stored[a[1]] = v.stored[a[1]] \cup Added(h, a[1])
        BY <1>2, <1>4, <1>5, <4>1, WrittenFacts DEF w
      <4> QED BY <1>6, <4>1, <4>2 DEF Sound
    <3> QED BY <2>2, <2>4, <3>1, <3>2 DEF Sound
  <2>7. ASSUME NEW m \in Numbers \ overlapped' PROVE Quiet(w, r, m)
    <3>1. Quiet(v, s, m)
      BY <1>2, <2>3
    <3>2. Quiet(v, h, m)
      <4>1. CASE m = n
        BY <1>4, <4>1 DEF Quiet, Coherent
      <4>2. CASE m # n
        <5>1. Settled(s, m)
          BY <1>1 DEF Settled
        <5> QED BY <1>4, <1>5, <3>1, <4>2, <5>1, StillQuiet
      <4> QED BY <4>1, <4>2
    <3>3. Settled(f, m)
      BY <1>1, <1>4, <2>1 DEF Settled
    <3> QED BY <2>1, <2>2, <2>4, <3>2, <3>3, StillQuiet
  <2>8. \A m \in Numbers : /\ Holds(session[t], m) => Holds(h, m)
                           /\ Holds(h, m) => Holds(r, m)
    BY <1>5, <2>4 DEF s
  <2> QED
    BY <1>4, <1>5, <1>7, <2>2, <2>3, <2>5, <2>6, <2>7, <2>8, FlushStep DEF v, w, Working
<1> QED BY <1>1, <1>7, RaiseStep

\* All rows of the batch are settled, as a failure leaves them.
LEMMA RecordFailuresStep ==
    ASSUME IInv, NEW t \in Threads, RecordFailures(t) PROVE IInv'
<1> DEFINE s == session[t]
           v == View(t)
           r == AllFailed(s, v)
<1>1. /\ s.pc = "failed" /\ Becomes(t, r) /\ UNCHANGED <<db, lock, tx>>
      /\ overlapped \subseteq overlapped'
  BY DEF RecordFailures, InBatch, Becomes
<1>2. /\ s \in Session /\ Shape(s) /\ Sound(v, s) /\ v \in Database /\ Known(v, s)
      /\ \A m \in Numbers \ overlapped : Quiet(v, s, m)
  BY Own
<1> HIDE DEF s, v, r
<1>3. /\ r \in Session
      /\ r.pc = "each" /\ r.left = <<>> /\ r.adds = s.adds /\ r.told = s.told
      /\ \A n \in Numbers \ ToSet(s.batch) : r.memory[n] = s.memory[n]
      /\ \A n \in ToSet(s.batch) :
            /\ r.memory[n] \in Cell
            /\ r.memory[n].base # NoRow => v.row[n] # NoRow
            /\ (Holds(s, n) /\ s.memory[n].base # NoRow => s.memory[n].base = v.row[n])
                  => (r.memory[n].base # NoRow => r.memory[n].base = v.row[n])
            /\ \A stored : Coherent(r.memory[n].work, stored)
  BY <1>2, AllFailedFacts DEF r
<1>4. /\ \A n \in ToSet(s.batch) : Holds(r, n)
      /\ \A n \in Numbers : Holds(s, n) => Holds(r, n)
      /\ \A n : Added(r, n) = Added(s, n)
  <2>1. \A n \in ToSet(s.batch) : Holds(r, n)
    BY <1>3, Cells DEF Holds
  <2> QED BY <1>3, <2>1 DEF Holds, Added
<1>5. Shape(r)
  BY <1>2, <1>3, <1>4 DEF Shape, Working
<1>6. Sound(v, r)
  <2>1. Known(v, r)
    BY <1>2, <1>3 DEF Known, Holds
  <2> QED BY <1>2, <1>3, <1>4, <2>1 DEF Sound
<1>7. ASSUME NEW n \in Numbers \ overlapped' PROVE Quiet(v, r, n)
  <2>1. Quiet(v, s, n)
    BY <1>1, <1>2
  <2>2. CASE n \in ToSet(s.batch)
    BY <1>3, <2>1, <2>2 DEF Quiet
  <2>3. CASE n \notin ToSet(s.batch)
    <3>1. Settled(s, n)
      BY <1>1, <2>3 DEF Settled
    <3> QED BY <1>3, <1>4, <2>1, <2>3, <3>1, StillQuiet
  <2> QED BY <2>2, <2>3
<1> QED BY <1>1, <1>3, <1>4, <1>5, <1>6, <1>7, LocalStep DEF v, s, Working

\* All rows are settled when they are written; nothing stays in memory.
LEMMA CommitBatchStep ==
    ASSUME IInv, NEW t \in Threads, CommitBatch(t) PROVE IInv'
<1> DEFINE s == session[t]
           e == [s EXCEPT !.adds = {}, !.memory = Idle.memory]
           r == NextBatch(e, s.todo)
<1>1. /\ s.pc = "each" /\ MayWrite(t)
      /\ \/ Raise(t)
         \/ db' = Written(View(t), s) /\ lock' = None /\ tx' = None /\ Becomes(t, r)
  BY DEF CommitBatch, InBatch
<1>2. s \in Session
  BY Own
<1>3. /\ e \in Session /\ e.memory = Idle.memory /\ e.adds = {} /\ e.told = s.told
      /\ s.todo \in Seq(Numbers)
  BY <1>2, Idles DEF Session
<1> HIDE DEF e
<1>4. /\ r \in Session /\ r.pc \in {"ask", "finish"}
      /\ r.memory = e.memory /\ r.adds = e.adds /\ r.told = e.told
      /\ \A i \in DOMAIN r.left : r.left[i] \in ToSet(r.batch)
  BY <1>3, NextBatchFacts
<1> HIDE DEF r
<1>5. \A n \in Numbers : ~Holds(r, n) /\ Added(r, n) = {}
  BY <1>3, <1>4, Idles DEF Holds, Added
<1>6. Shape(r)
  BY <1>3, <1>4, <1>5 DEF Shape
<1>7. CASE db' = Written(View(t), s) /\ lock' = None /\ tx' = None /\ Becomes(t, r)
  BY <1>1, <1>3, <1>4, <1>5, <1>6, <1>7, CommitStep
<1> QED BY <1>1, <1>7, RaiseStep

\* What the session tells is stored, or among what it adds.
LEMMA SelectEventsStep ==
    ASSUME IInv, NEW t \in Threads, SelectEvents(t) PROVE IInv'
<1> DEFINE s == session[t]
           n == Head(s.left)
           v == View(t)
<1>1. PICK events \in Routes, twice \in BOOLEAN :
         LET listed == {<<n, e>> : e \in events}
             new == {a \in listed : a[2] \notin v.stored[n]}
         IN
         \/ Becomes(t, [s EXCEPT !.pc = "apply", !.adds = s.adds \cup new,
                                 !.clash = s.clash \/ (twice /\ new # {}),
                                 !.told = s.told \cup listed])
         \/ \E some \in SUBSET new :
               Becomes(t, [s EXCEPT !.pc = "failed", !.adds = s.adds \cup some])
  BY DEF SelectEvents, Number
<1> DEFINE listed == {<<n, e>> : e \in events}
           new == {a \in listed : a[2] \notin v.stored[n]}
<1>2. UNCHANGED <<db, lock, tx>> /\ s.pc = "events"
  BY DEF SelectEvents, InBatch
<1>3. /\ s \in Session /\ Shape(s) /\ Sound(v, s) /\ v \in Database /\ Known(v, s)
      /\ \A m \in Numbers \ overlapped : Quiet(v, s, m)
      /\ \A m \in Numbers : ~Holds(s, m) => Added(s, m) = {}
  BY Own
<1>4. n \in Numbers /\ n \in ToSet(s.batch) /\ s.left # <<>> /\ Holds(s, n)
  BY <1>2, <1>3, NumberOf DEF Shape
<1>5. events \subseteq Events /\ events # {}
  <2>1. PICK e \in Events : events = 1 .. e
    BY DEF Routes
  <2>2. Cardinality(Events) \in Nat /\ Events = 1 .. Cardinality(Events)
    BY RefreshAssumption, FS_CardinalityType
  <2>3. e \in Nat /\ 1 <= e /\ e <= Cardinality(Events)
    BY <2>2
  <2>4. 1 \in events
    BY <2>1, <2>3
  <2>5. events \subseteq 1 .. Cardinality(Events)
    BY <2>1, <2>2, <2>3
  <2> QED BY <2>2, <2>4, <2>5
<1>6. /\ listed \subseteq Numbers \X Events /\ listed # {}
      /\ \A a \in listed : a[1] = n /\ a[2] \in Events /\ a = <<n, a[2]>>
  <2>1. PICK e \in events : TRUE
    BY <1>5
  <2>2. <<n, e>> \in listed
    BY <2>1
  <2>3. \A a \in listed : a[1] = n /\ a[2] \in Events /\ a = <<n, a[2]>>
    BY <1>5
  <2> HIDE DEF n, listed
  <2>4. listed \subseteq Numbers \X Events
    BY <1>4, <2>3
  <2> QED BY <2>2, <2>3, <2>4
<1> HIDE DEF s, n, v, listed
<1>7. ASSUME NEW r \in Session, NEW some \in SUBSET new, Becomes(t, r),
             r.pc \in {"apply", "failed"}, r.left = s.left, r.batch = s.batch, r.memory = s.memory,
             r.adds = s.adds \cup some,
             r.pc = "apply" => some = new,
             r.told = IF r.pc = "apply" THEN s.told \cup listed ELSE s.told
      PROVE  IInv'
  <2>1. overlapped \subseteq overlapped'
    BY <1>7 DEF Becomes
  <2>2. \A m \in Numbers : Holds(r, m) <=> Holds(s, m)
    BY <1>7 DEF Holds
  <2>3. /\ \A m : Added(s, m) \subseteq Added(r, m)
        /\ \A m : m # n => Added(r, m) = Added(s, m)
    BY <1>6, <1>7 DEF Added
  <2>4. Shape(r)
    <3>1. \A m \in Numbers : ~Holds(r, m) => Added(r, m) = {}
      BY <1>3, <1>4, <2>2, <2>3
    <3> QED BY <1>3, <1>4, <1>7, <2>2, <3>1 DEF Shape, Working, n
  <2>5. Sound(v, r)
    <3>1. Known(v, r)
      BY <1>3, <1>7, <2>2 DEF Known
    <3>2. ASSUME NEW a \in s.told PROVE a[2] \in v.stored[a[1]] \cup Added(r, a[1])
      BY <1>3, <2>3 DEF Sound
    <3>3. ASSUME r.pc = "apply", NEW a \in listed
          PROVE  a[2] \in v.stored[a[1]] \cup Added(r, a[1])
      BY <1>6, <1>7, <3>3 DEF Added
    <3>4. r.pc = "apply" => v.stored[n] \cup Added(r, n) # {}
      BY <1>6, <3>3
    <3>5. \A a \in r.told : a[2] \in v.stored[a[1]] \cup Added(r, a[1])
      BY <1>7, <3>2, <3>3
    <3> QED BY <1>7, <3>1, <3>4, <3>5 DEF Sound, n
  <2>6. ASSUME NEW m \in Numbers \ overlapped' PROVE Quiet(v, r, m)
    <3>1. Quiet(v, s, m)
      BY <1>3, <2>1
    <3>2. CASE m = n
      <4>1. ~Settled(r, m)
        BY <1>4, <1>7, <3>2 DEF Settled, n
      <4> QED BY <1>7, <2>2, <3>1, <3>2, <4>1 DEF Quiet
    <3>3. CASE m # n
      <4>1. Settled(s, m)
        BY <1>2, <3>3 DEF Settled, n
      <4> QED BY <1>7, <2>3, <3>1, <3>3, <4>1, StillQuiet
    <3> QED BY <3>2, <3>3
  <2> QED BY <1>2, <1>7, <2>2, <2>4, <2>5, <2>6, LocalStep DEF v, s, Working
<1>8. new \subseteq Numbers \X Events
  BY <1>6
<1> HIDE DEF new
<1>9. CASE Becomes(t, [s EXCEPT !.pc = "apply", !.adds = s.adds \cup new,
                                !.clash = s.clash \/ (twice /\ new # {}),
                                !.told = s.told \cup listed])
  <2> DEFINE clash == s.clash \/ (twice /\ new # {})
             r == [s EXCEPT !.pc = "apply", !.adds = s.adds \cup new, !.clash = clash,
                            !.told = s.told \cup listed]
  <2>1. clash \in BOOLEAN
    OBVIOUS
  <2>2. Becomes(t, r)
    BY <1>9
  <2> HIDE DEF clash
  <2>3. r \in Session
    BY <1>3, <1>6, <1>8, <2>1 DEF Session, Labels
  <2>4. /\ r.pc = "apply" /\ r.left = s.left /\ r.batch = s.batch /\ r.memory = s.memory
        /\ r.adds = s.adds \cup new /\ r.told = s.told \cup listed
    BY <1>3 DEF Session
  <2> HIDE DEF r
  <2> QED BY <1>7, <2>2, <2>3, <2>4
<1>10. ASSUME NEW some \in SUBSET new,
              Becomes(t, [s EXCEPT !.pc = "failed", !.adds = s.adds \cup some])
       PROVE  IInv'
  <2> DEFINE r == [s EXCEPT !.pc = "failed", !.adds = s.adds \cup some]
  <2>1. r \in Session
    BY <1>3, <1>8 DEF Session, Labels
  <2>2. /\ r.pc = "failed" /\ r.left = s.left /\ r.batch = s.batch /\ r.memory = s.memory
        /\ r.adds = s.adds \cup some /\ r.told = s.told
    BY <1>3 DEF Session
  <2>3. Becomes(t, r)
    BY <1>10
  <2> HIDE DEF r
  <2> QED BY <1>7, <2>1, <2>2, <2>3
<1> QED BY <1>1, <1>9, <1>10 DEF new, listed

\* The row in hand is settled: what it says is of the latest event stored by then.
LEMMA ApplyLatestEventStep ==
    ASSUME IInv, NEW t \in Threads, ApplyLatestEvent(t) PROVE IInv'
<1> DEFINE s == session[t]
           n == Head(s.left)
           v == View(t)
           w == Written(v, s)
           f == Flushed(s)
           row == Applied(Max(w.stored[n]))
           q == Set(f, n, row)
           r == Done(q)
<1>1. /\ s.pc = "apply"
      /\ \/ ~Dirty(s) /\ Becomes(t, r) /\ UNCHANGED <<db, lock, tx>>
         \/ Raise(t)
         \/ MayWrite(t) /\ lock' = t /\ tx' = w /\ db' = db /\ Becomes(t, r)
  BY DEF ApplyLatestEvent, InBatch, Number, FlushThen, LatestEvent
<1>2. /\ s \in Session /\ Shape(s) /\ Sound(v, s) /\ v \in Database /\ Known(v, s)
      /\ \A m \in Numbers \ overlapped : Quiet(v, s, m)
      /\ \A m \in Numbers : ~Holds(s, m) => Added(s, m) = {}
  BY Own
<1>3. n \in Numbers /\ s.left # <<>> /\ Holds(s, n)
  BY <1>1, <1>2, NumberOf DEF Shape
<1> HIDE DEF s, n, v, w, f, row, q, r
<1>4. /\ w \in Database
      /\ \A m \in Numbers : w.stored[m] = v.stored[m] \cup Added(s, m)
      /\ \A m \in Numbers : Holds(s, m) => w.row[m] # NoRow
  BY <1>2, WrittenFacts DEF w
<1>5. /\ f \in Session
      /\ f.pc = s.pc /\ f.left = s.left /\ f.batch = s.batch /\ f.adds = {} /\ f.told = s.told
      /\ \A m \in Numbers : /\ Holds(f, m) <=> Holds(s, m)
                            /\ Holds(s, m) => f.memory[m] \in Cell
      /\ Known(w, f)
      /\ \A m \in Numbers : Quiet(v, s, m) => Quiet(w, f, m)
  BY <1>2, FlushedFacts DEF f, w
<1>6. w.stored[n] \in SUBSET Events /\ w.stored[n] # {}
  BY <1>1, <1>2, <1>3, <1>4 DEF Sound, n, Database
<1>7. row \in Row /\ Coherent(row, w.stored[n])
  BY <1>6, Applies DEF row
<1>8. /\ q \in Session
      /\ q.pc = f.pc /\ q.left = f.left /\ q.batch = f.batch /\ q.adds = f.adds /\ q.told = f.told
      /\ \A m \in Numbers \ {n} : q.memory[m] = f.memory[m]
      /\ q.memory[n] \in Cell /\ q.memory[n].base = f.memory[n].base /\ q.memory[n].work = row
  BY <1>3, <1>5, <1>7, SetFacts DEF q
<1>9. q.left # <<>> /\ \A i \in DOMAIN q.left : q.left[i] \in ToSet(q.batch)
  BY <1>2, <1>3, <1>5, <1>8 DEF Shape
<1>10. /\ r \in Session /\ r.pc = "each"
       /\ r.memory = q.memory /\ r.adds = q.adds /\ r.told = q.told
       /\ \A i \in DOMAIN r.left : r.left[i] \in ToSet(r.batch)
  BY <1>8, <1>9, DoneFacts DEF r
<1>11. /\ \A m \in Numbers : Holds(r, m) <=> Holds(s, m)
       /\ \A m : Added(r, m) = {} /\ Added(f, m) = {}
  <2>1. Holds(r, n)
    BY <1>8, <1>10, Cells DEF Holds
  <2>2. \A m : Added(r, m) = {} /\ Added(f, m) = {}
    BY <1>5, <1>8, <1>10 DEF Added
  <2>3. \A m \in Numbers \ {n} : r.memory[m] = f.memory[m]
    BY <1>8, <1>10
  <2>4. \A m \in Numbers \ {n} : Holds(r, m) <=> Holds(f, m)
    BY <2>3 DEF Holds
  <2> QED BY <1>3, <1>5, <2>1, <2>2, <2>4
<1>12. Shape(r)
  BY <1>10, <1>11 DEF Shape, Working
<1>13. Sound(w, r)
  <2>1. Known(w, r)
    BY <1>4, <1>11 DEF Known
  <2>2. ASSUME NEW a \in r.told PROVE a[2] \in w.stored[a[1]]
    <3>1. a \in s.told /\ a[1] \in Numbers
      BY <1>2, <1>5, <1>8, <1>10 DEF Session
    <3> QED BY <1>2, <1>4, <3>1 DEF Sound
  <2> QED BY <1>10, <1>11, <2>1, <2>2 DEF Sound
<1>14. overlapped \subseteq overlapped' \/ Raise(t)
  BY <1>1 DEF Becomes
<1>15. ASSUME NEW m \in Numbers \ overlapped', ~Raise(t) PROVE Quiet(w, r, m)
  <2>1. Quiet(w, f, m)
    BY <1>2, <1>5, <1>14, <1>15
  <2>2. CASE m = n
    BY <1>3, <1>5, <1>7, <1>8, <1>10, <1>11, <2>1, <2>2 DEF Quiet
  <2>3. CASE m # n
    <3>1. Settled(f, m)
      BY <1>1, <1>5, <2>3 DEF Settled, n
    <3> QED BY <1>8, <1>10, <1>11, <2>1, <2>3, <3>1, StillQuiet
  <2> QED BY <2>2, <2>3
<1>16. CASE ~Raise(t) /\ ~Dirty(s) /\ Becomes(t, r) /\ UNCHANGED <<db, lock, tx>>
  <2>1. s.adds = {} /\ \A m \in Numbers : ~Pending(s, m)
    BY <1>16 DEF Dirty
  <2>2. w.row = v.row /\ w.stored = v.stored
    BY <1>2, <2>1 DEF w, Written, Database
  <2>3. w.orders = v.orders /\ w.links = v.links /\ w.confirmed = v.confirmed
    BY <1>2 DEF w, Written, Database
  <2>4. w = v
    BY <1>2, <1>4, <2>2, <2>3 DEF Database
  <2> QED BY <1>10, <1>11, <1>12, <1>13, <1>15, <1>16, <2>4, LocalStep DEF v, s, Working
<1>17. CASE ~Raise(t) /\ MayWrite(t) /\ lock' = t /\ tx' = w /\ db' = db /\ Becomes(t, r)
  <2>1. \A m \in Numbers : /\ Holds(session[t], m) => Holds(s, m)
                           /\ Holds(s, m) => Holds(r, m)
    BY <1>11 DEF s
  <2> QED
    BY <1>2, <1>10, <1>12, <1>13, <1>15, <1>17, <2>1, FlushStep DEF v, w, Working
<1> QED BY <1>1, <1>16, <1>17, RaiseStep

\* An upload is stored whole, and changes no row that a session can have from the database.
LEMMA StoreRowsStep ==
    ASSUME IInv, NEW t \in Threads, StoreRows(t) PROVE IInv'
<1> DEFINE s == session[t]
           u == s.upload
           e == [s EXCEPT !.upload = None]
           rows == [n \in Numbers |-> IF db.row[n] = NoRow /\ n \in Affected(u) THEN Registered
                                      ELSE db.row[n]]
<1>1. /\ s.pc = "confirm" /\ lock = None /\ UNCHANGED <<lock, tx>>
      /\ db' = [db EXCEPT !.orders = db.orders \cup {r.order : r \in GoodRows(u)},
                          !.row = rows,
                          !.links = db.links \cup Links(u),
                          !.confirmed = db.confirmed \cup {u}]
  BY DEF StoreRows
<1>2. PICK numbers \in SetToSeqs(Affected(u)) : \E r \in Refreshes(e, numbers) : Becomes(t, r)
  BY DEF StoreRows
<1>3. PICK r \in Refreshes(e, numbers) : Becomes(t, r)
  BY <1>2
<1>4. /\ s \in Session /\ Shape(s) /\ Sound(db, s) /\ Known(db, s) /\ db \in Database
      /\ View(t) = db /\ lock # t /\ s.adds = {}
      /\ \A n \in Numbers \ overlapped : Quiet(db, s, n)
  BY <1>1, Own DEF Working
<1>5. u \in Uploads
  BY <1>1, <1>4 DEF Shape
<1>6. /\ GoodRows(u) \subseteq [order : Orders, tracking : Numbers \cup {None}]
      /\ Tracked(u) \subseteq [order : Orders, tracking : Numbers]
      /\ Affected(u) \in SUBSET Numbers
  <2>1. ToSet(Rows[u]) \subseteq [order : Orders \cup {None}, tracking : Numbers \cup {None}]
    <3> DEFINE R == [order : Orders \cup {None}, tracking : Numbers \cup {None}]
    <3>1. Rows[u] \in Seq(R)
      BY <1>5, RefreshAssumption
    <3> HIDE DEF R, u
    <3>2. \A i \in DOMAIN Rows[u] : Rows[u][i] \in R
      BY <3>1
    <3> QED BY <3>2 DEF ToSet, R
  <2>2. GoodRows(u) \subseteq [order : Orders, tracking : Numbers \cup {None}]
    BY <2>1 DEF GoodRows
  <2>3. Tracked(u) \subseteq [order : Orders, tracking : Numbers]
    BY <2>2 DEF Tracked
  <2> QED BY <2>2, <2>3 DEF Affected
<1>7. numbers \in Seq(Numbers)
  BY <1>2, <1>6, Orderings
<1>8. /\ e \in Session /\ e.adds = {} /\ e.told = s.told /\ e.memory = s.memory
  BY <1>4 DEF Session
<1> HIDE DEF s, u, e, rows
<1>9. /\ db'.row = rows /\ db'.stored = db.stored
      /\ db'.orders = db.orders \cup {o.order : o \in GoodRows(u)}
      /\ db'.links = db.links \cup Tracked(u) /\ db'.confirmed = db.confirmed \cup {u}
      /\ db' = [row |-> db'.row, stored |-> db'.stored, orders |-> db'.orders,
                links |-> db'.links, confirmed |-> db'.confirmed]
  BY <1>1, <1>4 DEF Database, Links
<1>10. ASSUME NEW n \in Numbers
       PROVE  /\ rows[n] = IF db.row[n] = NoRow /\ n \in Affected(u) THEN Registered ELSE db.row[n]
              /\ db.row[n] # NoRow => rows[n] = db.row[n]
              /\ n \in Affected(u) => rows[n] # NoRow
              /\ rows[n] \in Row \cup {NoRow}
  BY <1>4, Cells, RefreshAssumption DEF rows, Database
<1>11. rows \in [Numbers -> Row \cup {NoRow}]
  BY <1>10 DEF rows
<1>12. db' \in Database
  <2>1. {o.order : o \in GoodRows(u)} \subseteq Orders
    BY <1>6
  <2> QED BY <1>4, <1>5, <1>6, <1>9, <1>11, <2>1 DEF Database
<1>13. StoredWhole(db')
  <2>1. StoredWhole(db)
    BY DEF IInv, UploadsAreStoredWhole
  <2>2. ASSUME NEW l \in db'.links PROVE db'.row[l.tracking] # NoRow
    <3>1. CASE l \in db.links
      BY <1>4, <1>9, <1>10, <2>1, <3>1 DEF StoredWhole, Database
    <3>2. CASE l \in Tracked(u)
      BY <1>6, <1>9, <1>10, <3>2 DEF Affected
    <3> QED BY <1>9, <3>1, <3>2
  <2>3. db'.orders = UNION {{o.order : o \in GoodRows(x)} : x \in db'.confirmed}
    BY <1>9, <2>1 DEF StoredWhole
  <2>4. db'.links = UNION {Tracked(x) : x \in db'.confirmed}
    BY <1>9, <2>1 DEF StoredWhole
  <2> QED BY <2>2, <2>3, <2>4 DEF StoredWhole
<1>14. overlapped \subseteq overlapped'
  BY <1>3 DEF Becomes
<1>15. ASSUME NEW n \in Numbers \ overlapped' PROVE Coherent(db'.row[n], db'.stored[n])
  <2>1. Coherent(db.row[n], db.stored[n])
    BY <1>14 DEF IInv, QuietRowsAreCoherent
  <2>2. db'.row[n] = Registered \/ db'.row[n] = db.row[n]
    BY <1>9, <1>10
  <2> QED BY <1>9, <2>1, <2>2 DEF Coherent
<1>16. /\ Known(db', e)
       /\ \A a \in e.told : a[2] \in db'.stored[a[1]]
  <2>1. Known(db', e)
    BY <1>4, <1>8, <1>9, <1>10 DEF Known, Holds
  <2>2. \A a \in e.told : a[2] \in db'.stored[a[1]]
    BY <1>4, <1>8, <1>9 DEF Sound, Added
  <2> QED BY <2>1, <2>2
<1>17. /\ r \in Session /\ r.pc \in {"ask", "finish"} /\ Shape(r) /\ Sound(db', r)
       /\ r.memory = e.memory
       /\ \A n \in Numbers : Added(r, n) = {}
  <2>1. <<>> \in Seq(Numbers) /\ (r = NextBatch(e, numbers) \/ r = NextBatch(e, <<>>))
    BY <1>3 DEF Refreshes
  <2>2. CASE r = NextBatch(e, numbers)
    BY <1>7, <1>8, <1>16, <2>2, NextBatchFits
  <2>3. CASE r = NextBatch(e, <<>>)
    BY <1>8, <1>16, <2>1, <2>3, NextBatchFits
  <2> QED BY <2>1, <2>2, <2>3
<1>18. ASSUME NEW n \in Numbers \ overlapped' PROVE Quiet(db', r, n)
  <2>1. Quiet(db, s, n)
    BY <1>4, <1>14
  <2>2. Settled(s, n) /\ Added(s, n) = {}
    BY <1>1, <1>4 DEF Settled, Added, s
  <2>3. Holds(r, n) => Holds(s, n)
    BY <1>8, <1>17 DEF Holds
  <2>4. db.row[n] # NoRow => db'.row[n] = db.row[n]
    BY <1>9, <1>10
  <2>5. Holds(s, n) /\ s.memory[n].base # NoRow => db.row[n] # NoRow
    BY <1>4 DEF Known
  <2> QED BY <1>8, <1>9, <1>17, <2>1, <2>2, <2>3, <2>4, <2>5 DEF Quiet
<1>19. View(t)' = db' /\ None \notin Threads
  BY <1>1, <1>4, RefreshAssumption DEF View
<1>20. /\ \A n \in Numbers : /\ db.row[n] # NoRow => db'.row[n] # NoRow
                             /\ db.stored[n] \subseteq db'.stored[n]
       /\ \A n \in Numbers : /\ db.row[n] # NoRow => db'.row[n] = db.row[n]
                             /\ db'.stored[n] = db.stored[n]
  BY <1>9, <1>10
<1>21. tx \in Database \cup {None} /\ (lock = None <=> tx = None)
  BY DEF IInv, Types
<1> QED
  BY <1>1, <1>3, <1>12, <1>13, <1>15, <1>17, <1>18, <1>19, <1>20, <1>21, SessionStep

\* After a crash there are no sessions, and the database is what was committed.
LEMMA CrashStep ==
    ASSUME IInv, Crash PROVE IInv'
<1>1. /\ session' = [t \in Threads |-> Idle] /\ lock' = None /\ tx' = None
      /\ db' = db /\ overlapped' = overlapped
  BY DEF Crash
<1>2. \A t \in Threads : session'[t] = Idle /\ lock' # t
  BY <1>1, RefreshAssumption
<1>3. Types' /\ Shapes'
  BY <1>1, <1>2, Idles DEF IInv, Types, Shapes
<1>4. Sounds' /\ Writes' /\ Alone'
  BY <1>2, Idles DEF Sounds, Writes, Alone
<1>5. Quiets'
  BY <1>2, Idles DEF Quiets, Quiet
<1>6. UploadsAreStoredWhole' /\ QuietRowsAreCoherent'
  BY <1>1 DEF IInv, UploadsAreStoredWhole, QuietRowsAreCoherent
<1> QED BY <1>3, <1>4, <1>5, <1>6 DEF IInv

-----------------------------------------------------------------------------
(* The theorems *)

\* The sessions are idle, and the database is as an earlier session left it.
LEMMA IInvInit == Init => IInv /\ Ran
<1> SUFFICES ASSUME Init PROVE IInv /\ Ran
  OBVIOUS
<1>1. /\ db \in Earlier /\ lock = None /\ tx = None /\ session = [t \in Threads |-> Idle]
      /\ overlapped = {} /\ Ran
  BY DEF Init, Ran
<1>2. \A t \in Threads : session[t] = Idle /\ lock # t
  BY <1>1, RefreshAssumption
<1>3. Types /\ Shapes
  BY <1>1, <1>2, Idles, EarlierAssumption DEF Types, Shapes
<1>4. Sounds /\ Writes /\ Alone /\ Quiets
  BY <1>2, Idles DEF Sounds, Writes, Alone, Quiets, Quiet
<1>5. UploadsAreStoredWhole /\ QuietRowsAreCoherent
  BY <1>1, EarlierAssumption DEF UploadsAreStoredWhole, QuietRowsAreCoherent
<1> QED BY <1>1, <1>3, <1>4, <1>5 DEF IInv

\* One lemma for each action.
LEMMA IInvStep == IInv /\ [Next]_vars => IInv'
<1> SUFFICES ASSUME IInv, [Next]_vars PROVE IInv'
  OBVIOUS
<1>1. CASE Crash
  BY <1>1, CrashStep
<1>2. ASSUME NEW t \in Threads, Step(t) PROVE IInv'
  BY <1>2, StoreRowsStep, SelectDueStep, AskStep, RecordEmptyRouteStep, SelectTrackingStep,
     InsertTrackingStep, SelectEventsStep, ApplyLatestEventStep, RecordFailuresStep, CommitBatchStep, FinishStep
  DEF Step
<1>3. ASSUME NEW t \in Threads, Start(t) PROVE IInv'
  BY <1>3, ConfirmBatchStep, RefreshSelectedStep, RefreshAllStep, PollStep DEF Start
<1>4. CASE UNCHANGED vars
  BY <1>4 DEF vars, IInv, Types, Shapes, Sounds, Writes, Alone, Quiets, View,
              UploadsAreStoredWhole, QuietRowsAreCoherent
<1> QED BY <1>1, <1>2, <1>3, <1>4 DEF Next

\* run is the threads' last polling runs, whatever the invariant says.
LEMMA RanStep == Ran /\ [Next]_vars => Ran'
BY DEF Ran, Next, vars, Crash, Step, Start, StoreRows, SelectDue, Ask, RecordEmptyRoute,
       SelectTracking, InsertTracking, SelectEvents, ApplyLatestEvent, RecordFailures,
       CommitBatch, Finish, ConfirmBatch, RefreshSelected, RefreshAll, Poll, FlushThen, Raise

\* The inductive invariant: SQLAlchemy sessions (refresh_tracking_numbers, confirm_batch,
\* PollingService.run) and what they have in memory, between any two of their steps.
THEOREM IInvHolds == Spec => [](IInv /\ Ran)
BY IInvInit, IInvStep, RanStep, PTL DEF Spec

\* The types of all variables, and that only a session at work on a batch holds the lock.
THEOREM TypeCorrect == Spec => []TypeOK
<1>1. IInv /\ Ran => TypeOK
  BY DEF IInv, Ran, Types, Writes, TypeOK, Working, Database
<1> QED BY <1>1, IInvHolds, PTL

\* confirm_batch stores an upload whole or not at all, and no refresh takes any of it back.
THEOREM UploadsAreStoredWholeHolds == Spec => []UploadsAreStoredWhole
<1>1. IInv => UploadsAreStoredWhole
  BY DEF IInv
<1> QED BY <1>1, IInvHolds, PTL

\* A tracking that sessions have only had in memory one at a time has the columns of one
\* answer of SF (_apply_route_response, _record_empty_route, _record_failures).
THEOREM QuietRowsAreCoherentHolds == Spec => []QuietRowsAreCoherent
<1>1. IInv => QuietRowsAreCoherent
  BY DEF IInv
<1> QED BY <1>1, IInvHolds, PTL

\* The events behind what refresh_tracking_numbers reports are committed when it reports.
THEOREM RefreshedMeansStoredHolds == Spec => []RefreshedMeansStored
<1>1. IInv => RefreshedMeansStored
  <2> SUFFICES ASSUME IInv, NEW t \in Threads, session[t].pc = "finish", NEW a \in session[t].told
               PROVE  a[2] \in db.stored[a[1]]
    BY DEF RefreshedMeansStored
  <2>1. Sound(View(t), session[t]) /\ View(t) = db /\ session[t].adds = {}
    BY Own DEF Working
  <2> QED BY <2>1 DEF Sound, Added
<1> QED BY <1>1, IInvHolds, PTL
=============================================================================
