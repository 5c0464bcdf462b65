--------------------------- MODULE SettingsProofs ---------------------------
(***************************************************************************)
(* Proofs about Settings, for any number of threads, copies of the app,    *)
(* requests, starts and crashes: the files and the rows of the settings,   *)
(* and then the API keys, of which the active one is the one the user      *)
(* chose, and each has its own secret and test result.                     *)
(***************************************************************************)
EXTENDS Settings, WellFoundedInduction, TLAPS

\* The largest of some numbers up to n, among them: NatLessThanWellFounded, turned around.
LEMMA MaxIn ==
    ASSUME NEW n \in Nat, NEW S \in SUBSET (0 .. n), S # {}
    PROVE  Max(S) \in S /\ \A x \in S : x <= Max(S)
<1> DEFINE Less == {ss \in Nat \X Nat : ss[1] < ss[2]}
           T == {m \in Nat : n - m \in S}
<1>0. IsWellFoundedOn(Less, Nat)
  BY NatLessThanWellFounded DEF OpToRel
<1>1. \A x \in S : x \in Nat /\ x <= n
  OBVIOUS
<1>2. T # {}
  <2>1. PICK x \in S : TRUE
    OBVIOUS
  <2>2. n - x \in Nat /\ n - (n - x) = x
    BY <1>1
  <2>3. QED
    BY <2>1, <2>2
<1>3. PICK m \in T : \A y \in T : <<y, m>> \notin Less
  <2>1. T \subseteq Nat
    OBVIOUS
  <2> HIDE DEF T, Less
  <2>2. QED
    BY <1>0, <1>2, <2>1, WFMin, Zenon
<1>4. n - m \in S /\ m \in Nat
  BY <1>3
<1>5. ASSUME NEW y \in S PROVE y <= n - m
  <2>1. n - y \in T
    BY <1>1
  <2>2. <<n - y, m>> \notin Less
    BY <1>3, <2>1
  <2>3. ~(n - y < m)
    BY <1>4, <2>1, <2>2
  <2>4. QED
    BY <1>1, <1>4, <2>3
<1>6. QED
  BY <1>4, <1>5 DEF Max

-----------------------------------------------------------------------------
(* Types, and the shape of a thread's task at each step of it *)

Bound == 0 .. REQUESTS
Halves == {"partner_id", "checkword"}
Row == [key : Bound, active : BOOLEAN, partner_id : Bound, checkword : Bound, cipher : Bound, test : Bound]
Task == [op : {"none", "create", "update", "test", "delete", "preset", "list_presets", "polling", "startup"},
         pc : Pcs, request : Bound, id : Bound, read : Row, active : {"keep", "on", "off"},
         fields : SUBSET Halves, others : SUBSET Ids, use : {"encrypt", "decrypt"}, cipher : Bound,
         file : File, data : SUBSET Bound, mixed : BOOLEAN]

KeyTask(k) ==
    /\ k.op \in {"create", "update", "test"} /\ k.file = "cipher"
    /\ k.pc \in {"key_exists", "key_read", "open", "write", "others", "commit", "mark"}
    /\ k.op # "create" => k.id \in Ids /\ k.read.key \in Request /\ k.read.cipher \in Request
    /\ k.op = "test" => k.pc # "others" /\ (k.pc = "mark" \/ k.use = "decrypt")
    /\ k.pc = "mark" => k.op = "test"
    /\ k.pc = "commit" => k.op # "test" /\ k.cipher \in Request
    /\ k.pc \in {"open", "write"} => k.data = {k.request}

PresetTask(k) ==
    /\ UsesPresets(k)
    /\ k.pc \in {"presets_exists", "presets_read", "open", "write"}
    /\ k.pc \in {"open", "write"} =>
          k.file = "presets" /\ (k.data = {DEFAULTS} \/ (k.op = "preset" /\ k.request \in k.data))

PollingTask(k) ==
    /\ k.op = "polling" /\ k.file = "polling"
    /\ k.pc \in {"open", "write"} /\ k.data = {k.request}

DeleteTask(k) == k.op = "delete" /\ k.pc = "delete" /\ k.id \in Ids

StartupTask(k) == k.op = "startup" /\ k.pc \in {"seed", "serve"}

HandlerTask(k) ==
    /\ k \in Task /\ k.request \in Request
    /\ KeyTask(k) \/ PresetTask(k) \/ PollingTask(k) \/ DeleteTask(k)

\* Handlers serve requests, and starters start.
TasksOK ==
    /\ task \in [Threads -> Task]
    /\ \A t \in Handlers : Idle(t) \/ HandlerTask(task[t])
    /\ \A s \in Starters : Idle(s) \/ StartupTask(task[s])

\* A whole cipher file holds one key.
CipherOK ==
    /\ files["cipher"].state \in {"absent", "empty", "whole"}
    /\ files["cipher"].state = "whole" => \E r \in Request : files["cipher"].data = {r}

Types == TypeOK /\ TasksOK /\ CipherOK

\* A thread that does nothing has a task all the same.
LEMMA NoTaskType == NoTask \in Task
  BY SettingsAssumption DEF NoTask, NoRow, Task, Row, Bound, Pcs, File, Ids, Halves

\* Its fields that the cases below turn on.
LEMMA NoTaskIdle == NoTask.pc = "idle" /\ NoTask.op = "none"
  BY DEF NoTask

\* What a thread takes up is its task, and the others keep theirs, but for "mixed".
LEMMA BeginTypes ==
    ASSUME NEW t \in Threads, NEW k \in Task, task \in [Threads -> Task], Begin(t, k)
    PROVE  /\ task' \in [Threads -> Task]
           /\ Idle(t)
           /\ \E b \in BOOLEAN : task'[t] = [k EXCEPT !.mixed = b]
           /\ \A u \in Threads \ {t} :
                 \/ task'[u] = task[u]
                 \/ UsesPresets(task[u]) /\ task'[u] = [task[u] EXCEPT !.mixed = TRUE]
<1> DEFINE Mixed == UsesPresets(k) /\ \E v \in Threads : UsesPresets(task[v])
<1>1. task' = [u \in Threads |->
                 IF u = t THEN [k EXCEPT !.mixed = Mixed]
                 ELSE IF UsesPresets(k) /\ UsesPresets(task[u]) THEN [task[u] EXCEPT !.mixed = TRUE]
                 ELSE task[u]]
  BY DEF Begin
<1>2. Mixed \in BOOLEAN
  BY DEF UsesPresets
<1>3. \A b \in BOOLEAN, j \in Task : [j EXCEPT !.mixed = b] \in Task
  BY DEF Task
<1> HIDE DEF Mixed
<1>4. \A u \in Threads : task'[u] \in Task
  BY <1>1, <1>2, <1>3
<1>5. QED
  BY <1>1, <1>2, <1>4 DEF Begin

\* What is done with a cipher key that is some request's leaves a task, or none.
LEMMA WithKeyType ==
    ASSUME NEW k, HandlerTask(k), KeyTask(k), k.pc \in {"key_read", "write"}, NEW key \in Request
    PROVE  WithKey(k, key) = NoTask \/ (HandlerTask(WithKey(k, key)) /\ KeyTask(WithKey(k, key)))
<1>1. CASE k.use = "encrypt"
  <2>1. WithKey(k, key) = [k EXCEPT !.pc = "commit", !.cipher = key]
    BY <1>1 DEF WithKey
  <2>2. key \in Bound
    BY SettingsAssumption DEF Bound, Request
  <2>3. [k EXCEPT !.pc = "commit", !.cipher = key] \in Task
    BY <2>2 DEF HandlerTask, Task, Pcs
  <2>4. QED
    BY <1>1, <2>1, <2>3 DEF HandlerTask, KeyTask, Task
<1>2. CASE k.use # "encrypt" /\ key # k.read.cipher
  BY <1>2 DEF WithKey, HandlerTask, KeyTask, Task
<1>3. CASE k.use # "encrypt" /\ key = k.read.cipher
  BY <1>3 DEF WithKey, HandlerTask, KeyTask, Task, Pcs
<1>4. QED
  BY <1>1, <1>2, <1>3

\* A step of a handler's task.
LEMMA ContinueTypes ==
    ASSUME TasksOK, NEW t \in Handlers, NEW k, k = NoTask \/ HandlerTask(k), Continue(t, k)
    PROVE  TasksOK' /\ \A u \in Threads : task'[u].pc \in Pcs /\ task'[u].request \in Bound
<1>1. k \in Task
  BY NoTaskType DEF HandlerTask
<1>2. task' \in [Threads -> Task]
  BY <1>1 DEF Continue, TasksOK
<1>3. \A u \in Threads : task'[u] = IF u = t THEN k ELSE task[u]
  BY DEF Continue, TasksOK, Threads
<1>4. \A u \in Handlers : task'[u] = NoTask \/ HandlerTask(task'[u])
  BY <1>3 DEF TasksOK, Idle, Threads
<1>5. \A s \in Starters : task'[s] = NoTask \/ StartupTask(task'[s])
  BY <1>3, SettingsAssumption DEF TasksOK, Idle, Threads
<1>6. TasksOK'
  BY <1>2, <1>4, <1>5 DEF TasksOK, Idle
<1>7. QED
  BY <1>2, <1>6 DEF Task

\* A handler that is idle takes up a request.
LEMMA AskedTypes ==
    ASSUME Types, NEW t \in Handlers, NEW k \in Task, Asked(t, k),
           HandlerTask([k EXCEPT !.request = requests + 1])
    PROVE  /\ TasksOK' /\ \A u \in Threads : task'[u].pc \in Pcs /\ task'[u].request \in Bound
           /\ requests' \in Bound
           /\ tangled' \subseteq {"active", "secrets", "mappings"}
<1> DEFINE j == [k EXCEPT !.request = requests + 1]
<1>1. j \in Task /\ Begin(t, j) /\ task \in [Threads -> Task] /\ t \in Threads
  BY DEF HandlerTask, Asked, Types, TasksOK, Threads
<1>2. PICK b \in BOOLEAN : task'[t] = [j EXCEPT !.mixed = b]
  BY <1>1, BeginTypes
<1>3. /\ task' \in [Threads -> Task]
      /\ \A u \in Threads \ {t} :
            \/ task'[u] = task[u]
            \/ UsesPresets(task[u]) /\ task'[u] = [task[u] EXCEPT !.mixed = TRUE]
  BY <1>1, BeginTypes
<1>4. \A i \in Task, b1 \in BOOLEAN : HandlerTask(i) => HandlerTask([i EXCEPT !.mixed = b1])
  BY DEF HandlerTask, KeyTask, PresetTask, UsesPresets, PollingTask, DeleteTask, Task
<1>5. HandlerTask(task'[t])
  BY <1>1, <1>2, <1>4
<1>6. ASSUME NEW u \in Handlers PROVE task'[u] = NoTask \/ HandlerTask(task'[u])
  <2>1. task[u] \in Task /\ (task[u] = NoTask \/ HandlerTask(task[u]))
    BY DEF Types, TasksOK, Idle, Threads
  <2>2. CASE u # t /\ UsesPresets(task[u]) /\ task'[u] = [task[u] EXCEPT !.mixed = TRUE]
    <3>1. task[u] # NoTask
      BY <2>2 DEF UsesPresets, NoTask
    <3>2. QED
      BY <2>1, <2>2, <3>1, <1>4
  <2>3. QED
    BY <1>3, <1>5, <2>1, <2>2 DEF Threads
<1>7. ASSUME NEW s \in Starters PROVE task'[s] = NoTask \/ StartupTask(task'[s])
  <2>1. s \in Threads \ {t} /\ (task[s] = NoTask \/ StartupTask(task[s]))
    BY SettingsAssumption DEF Types, TasksOK, Idle, Threads
  <2>2. ~UsesPresets(task[s])
    BY <2>1 DEF UsesPresets, StartupTask, NoTask
  <2>3. QED
    BY <1>3, <2>1, <2>2
<1>8. TasksOK'
  BY <1>3, <1>6, <1>7 DEF TasksOK, Idle
<1>9. requests' \in Bound
  BY SettingsAssumption DEF Asked, Types, TypeOK, Bound
<1>10. tangled' \subseteq {"active", "secrets", "mappings"}
  BY <1>1 DEF Begin, Tangles, Types, TypeOK
<1>11. QED
  BY <1>3, <1>8, <1>9, <1>10 DEF Task

\* A step that changes the task alone.
LEMMA TaskOnlyTypes ==
    ASSUME Types, NEW t \in Handlers, NEW k, k = NoTask \/ HandlerTask(k), Continue(t, k),
           UNCHANGED <<keys, mappings, files, up, bounds, history>>
    PROVE  Types'
<1>1. TasksOK' /\ \A u \in Threads : task'[u].pc \in Pcs /\ task'[u].request \in Bound
  BY ContinueTypes DEF Types
<1>2. TypeOK'
  BY <1>1 DEF Types, TypeOK, Rows, Exists, bounds, history, key_history, Bound
<1>3. CipherOK'
  BY DEF Types, CipherOK
<1>4. QED
  BY <1>1, <1>2, <1>3 DEF Types

\* A handler's task in one of its steps is a key's, a preset's, the polling's or a deletion.
LEMMA HandlerAt ==
    ASSUME Types, NEW t \in Handlers, task[t].pc # "idle"
    PROVE  HandlerTask(task[t])
  BY DEF Types, TasksOK, Idle, NoTask

\* Looking for the cipher key keeps the types.
LEMMA KeyExistsTypes ==
    ASSUME Types, NEW t \in Handlers, KeyExists(t) PROVE Types'
<1>1. HandlerTask(task[t]) /\ KeyTask(task[t]) /\ task[t].pc = "key_exists"
  BY HandlerAt DEF KeyExists, HandlerTask, PresetTask, PollingTask, DeleteTask
<1> DEFINE k == IF files["cipher"] = Absent
                THEN [task[t] EXCEPT !.pc = "open", !.file = "cipher", !.data = {task[t].request}]
                ELSE [task[t] EXCEPT !.pc = "key_read"]
<1>2. HandlerTask(k)
  <2>1. k \in Task
    BY <1>1, SettingsAssumption DEF HandlerTask, Task, Pcs, File, Bound, Request
  <2>2. KeyTask(k) /\ k.request = task[t].request
    BY <1>1 DEF HandlerTask, KeyTask, Task
  <2>3. QED
    BY <1>1, <2>1, <2>2 DEF HandlerTask
<1>3. Continue(t, k) /\ UNCHANGED <<keys, mappings, files, up, bounds, history>>
  BY DEF KeyExists
<1>4. QED
  BY <1>2, <1>3, TaskOnlyTypes

\* So does reading it: a secret is encrypted or decrypted with the key of a whole file.
LEMMA KeyReadTypes ==
    ASSUME Types, NEW t \in Handlers, KeyRead(t) PROVE Types'
<1>1. HandlerTask(task[t]) /\ KeyTask(task[t]) /\ task[t].pc = "key_read"
  BY HandlerAt DEF KeyRead, HandlerTask, PresetTask, PollingTask, DeleteTask
<1> DEFINE key == CHOOSE c \in files["cipher"].data : TRUE
           k == IF files["cipher"].state = "whole" THEN WithKey(task[t], key) ELSE NoTask
<1>2. k = NoTask \/ HandlerTask(k)
  <2>1. CASE files["cipher"].state = "whole"
    <3>1. key \in Request
      BY <2>1 DEF Types, CipherOK
    <3>2. QED
      BY <1>1, <2>1, <3>1, WithKeyType
  <2>2. QED
    BY <2>1
<1>3. Continue(t, k) /\ UNCHANGED <<keys, mappings, files, up, bounds, history>>
  BY DEF KeyRead
<1>4. QED
  BY <1>2, <1>3, TaskOnlyTypes

\* Looking for the presets keeps the types.
LEMMA PresetsExistTypes ==
    ASSUME Types, NEW t \in Handlers, PresetsExist(t) PROVE Types'
<1>1. HandlerTask(task[t]) /\ PresetTask(task[t]) /\ task[t].pc = "presets_exists"
  BY HandlerAt DEF PresetsExist, HandlerTask, KeyTask, PollingTask, DeleteTask
<1> DEFINE k == IF files["presets"] = Absent
                THEN [task[t] EXCEPT !.pc = "open", !.file = "presets", !.data = {DEFAULTS}]
                ELSE [task[t] EXCEPT !.pc = "presets_read"]
<1>2. HandlerTask(k)
  <2>1. k \in Task
    <3>1. {DEFAULTS} \subseteq Bound
      BY SettingsAssumption DEF Bound, DEFAULTS
    <3>2. QED
      BY <1>1, <3>1 DEF HandlerTask, Task, Pcs, File
  <2>2. PresetTask(k) /\ k.request = task[t].request
    BY <1>1 DEF HandlerTask, PresetTask, UsesPresets, Task
  <2>3. QED
    BY <1>1, <2>1, <2>2 DEF HandlerTask
<1>3. Continue(t, k) /\ UNCHANGED <<keys, mappings, files, up, bounds, history>>
  BY DEF PresetsExist
<1>4. QED
  BY <1>2, <1>3, TaskOnlyTypes

\* So does reading them: a preset is added to those of a whole file.
LEMMA PresetsReadTypes ==
    ASSUME Types, NEW t \in Handlers, PresetsRead(t) PROVE Types'
<1>1. HandlerTask(task[t]) /\ PresetTask(task[t]) /\ task[t].pc = "presets_read"
  BY HandlerAt DEF PresetsRead, HandlerTask, KeyTask, PollingTask, DeleteTask
<1> DEFINE d == files["presets"].data \cup {task[t].request}
           k == IF files["presets"].state = "whole" /\ task[t].op = "preset"
                THEN [task[t] EXCEPT !.pc = "open", !.file = "presets", !.data = d]
                ELSE NoTask
<1>2. k = NoTask \/ HandlerTask(k)
  <2>1. CASE files["presets"].state = "whole" /\ task[t].op = "preset"
    <3>1. d \subseteq Bound
      BY <1>1, SettingsAssumption DEF Types, TypeOK, File, HandlerTask, Task, Bound
    <3>2. k \in Task
      BY <1>1, <2>1, <3>1 DEF HandlerTask, Task, Pcs, File
    <3>3. PresetTask(k) /\ k.request = task[t].request
      BY <1>1, <2>1 DEF HandlerTask, PresetTask, UsesPresets, Task
    <3>4. QED
      BY <1>1, <3>2, <3>3 DEF HandlerTask
  <2>2. QED
    BY <2>1
<1>3. Continue(t, k) /\ UNCHANGED <<keys, mappings, files, up, bounds, history>>
  BY DEF PresetsRead
<1>4. QED
  BY <1>2, <1>3, TaskOnlyTypes

\* Loading the other active keys keeps the types.
LEMMA LoadOthersTypes ==
    ASSUME Types, NEW t \in Handlers, LoadOthers(t) PROVE Types'
<1>1. HandlerTask(task[t]) /\ KeyTask(task[t]) /\ task[t].pc = "others"
  BY HandlerAt DEF LoadOthers, HandlerTask, PresetTask, PollingTask, DeleteTask
<1> DEFINE others == {id \in Rows \ {task[t].id} : keys[id].active}
           k == [task[t] EXCEPT !.pc = "key_exists", !.others = others]
<1>2. HandlerTask(k)
  <2>1. k \in Task
    BY <1>1 DEF HandlerTask, Task, Pcs, Rows
  <2>2. KeyTask(k) /\ k.request = task[t].request
    BY <1>1 DEF HandlerTask, KeyTask, Task
  <2>3. QED
    BY <1>1, <2>1, <2>2 DEF HandlerTask
<1>3. Continue(t, k) /\ UNCHANGED <<keys, mappings, files, up, bounds, history>>
  BY DEF LoadOthers
<1>4. QED
  BY <1>2, <1>3, TaskOnlyTypes

\* Opening a file to write keeps the types: the file is empty.
LEMMA OpenTypes ==
    ASSUME Types, NEW t \in Handlers, Open(t) PROVE Types'
<1> DEFINE k == [task[t] EXCEPT !.pc = "write"]
<1>1. HandlerTask(task[t]) /\ task[t].pc = "open"
  BY HandlerAt DEF Open
<1>2. HandlerTask(k)
  BY <1>1 DEF HandlerTask, KeyTask, PresetTask, PollingTask, DeleteTask, UsesPresets, Task, Pcs
<1>3. TasksOK' /\ \A u \in Threads : task'[u].pc \in Pcs /\ task'[u].request \in Bound
  BY <1>2, ContinueTypes DEF Types, Open
<1>4. task[t].file \in File /\ files' = [files EXCEPT ![task[t].file] = [state |-> "empty", data |-> {}]]
  BY <1>1 DEF HandlerTask, Task, Open
<1>5. /\ files' \in [File -> [state : {"absent", "empty", "whole", "garbled"}, data : SUBSET (0 .. REQUESTS)]]
      /\ CipherOK'
  BY <1>4 DEF Types, TypeOK, CipherOK, File
<1>6. broken' \subseteq File
  BY <1>4 DEF Open, Types, TypeOK
<1>7. TypeOK'
  BY <1>3, <1>5, <1>6 DEF Open, Types, TypeOK, Rows, Exists, bounds, key_history, Bound
<1>8. QED
  BY <1>3, <1>5, <1>7 DEF Types

\* Writing keeps the types: a whole cipher file has one key.
LEMMA WriteTypes ==
    ASSUME Types, NEW t \in Handlers, Write(t) PROVE Types'
<1> DEFINE f == task[t].file
           k == CASE f = "cipher"              -> WithKey(task[t], task[t].request)
                  [] task[t].data = {DEFAULTS} -> [task[t] EXCEPT !.pc = "presets_read"]
                  [] OTHER                     -> NoTask
           Written == /\ k = NoTask \/ HandlerTask(k)
                      /\ CipherOK'
                      /\ files' \in [File -> [state : {"absent", "empty", "whole", "garbled"},
                                              data : SUBSET (0 .. REQUESTS)]]
<1>1. HandlerTask(task[t]) /\ task[t].pc = "write"
  BY HandlerAt DEF Write
<1>2. f \in File /\ task[t].data \subseteq Bound /\ task[t].request \in Request
  BY <1>1 DEF HandlerTask, Task
<1>3. ASSUME f = "cipher" PROVE Written
  <2>1. KeyTask(task[t]) /\ task[t].data = {task[t].request}
    BY <1>1, <1>3 DEF HandlerTask, KeyTask, PresetTask, PollingTask, DeleteTask
  <2>2. k = NoTask \/ HandlerTask(k)
    <3>1. task[t].data # {DEFAULTS}
      BY <1>2, <2>1, SettingsAssumption DEF DEFAULTS, Request
    <3>2. k = WithKey(task[t], task[t].request)
      BY <1>3, <3>1
    <3>3. QED
      BY <1>1, <1>2, <2>1, <3>2, WithKeyType
  <2>3. files' = [files EXCEPT !["cipher"] = Whole(task[t].data)]
    BY <1>3 DEF Write
  <2>4. CipherOK' /\ files' \in [File -> [state : {"absent", "empty", "whole", "garbled"},
                                          data : SUBSET (0 .. REQUESTS)]]
    BY <1>2, <2>1, <2>3 DEF Whole, CipherOK, Types, TypeOK, File, Bound
  <2>5. QED
    BY <2>2, <2>4
<1>4. ASSUME f # "cipher" PROVE Written
  <2>1. k = NoTask \/ HandlerTask(k)
    <3>1. CASE task[t].data = {DEFAULTS}
      <4>1. PresetTask(task[t])
        BY <1>1, <1>2, <1>4, <3>1, SettingsAssumption
           DEF HandlerTask, KeyTask, PollingTask, DeleteTask, DEFAULTS, Request
      <4>2. QED
        BY <1>1, <1>4, <3>1, <4>1 DEF HandlerTask, PresetTask, UsesPresets, Task, Pcs
    <3>2. QED
      BY <1>4, <3>1
  <2>2. files' = [files EXCEPT ![f] = Whole(task[t].data)]
          \/ files' = [files EXCEPT ![f] = [state |-> "garbled", data |-> {}]]
    BY DEF Write
  <2>3. CipherOK' /\ files' \in [File -> [state : {"absent", "empty", "whole", "garbled"},
                                          data : SUBSET (0 .. REQUESTS)]]
    BY <1>2, <1>4, <2>2 DEF Whole, CipherOK, Types, TypeOK, File, Bound
  <2>4. QED
    BY <2>1, <2>3
<1>5. Continue(t, k)
  BY DEF Write
<1>6. TasksOK' /\ \A u \in Threads : task'[u].pc \in Pcs /\ task'[u].request \in Bound
  BY <1>3, <1>4, <1>5, ContinueTypes DEF Types
<1>7. alone' \subseteq Request
  BY <1>2 DEF Write, Types, TypeOK
<1>8. TypeOK'
  BY <1>3, <1>4, <1>6, <1>7 DEF Write, Types, TypeOK, Rows, Exists, bounds, key_history, Bound
<1>9. QED
  BY <1>3, <1>4, <1>6, <1>8 DEF Types

\* The id of a new row, and the ids freed by a deletion.
LEMMA MaxRows ==
    ASSUME NEW S \in SUBSET Ids
    PROVE  /\ Max(S \cup {0}) \in Bound
           /\ \A id \in S : id <= Max(S \cup {0})
           /\ S # {} => Max(S) \in S /\ Max(S) = Max(S \cup {0})
<1>1. REQUESTS \in Nat /\ S \cup {0} \in SUBSET (0 .. REQUESTS) /\ S \in SUBSET (0 .. REQUESTS)
  BY SettingsAssumption DEF Ids
<1>2. Max(S \cup {0}) \in S \cup {0} /\ \A x \in S \cup {0} : x <= Max(S \cup {0})
  <2>1. S \cup {0} # {}
    OBVIOUS
  <2>2. QED
    BY <1>1, <2>1, MaxIn
<1>3. S # {} => Max(S) \in S /\ \A x \in S : x <= Max(S)
  BY <1>1, MaxIn
<1>4. ASSUME S # {} PROVE Max(S) = Max(S \cup {0})
  <2> DEFINE m == Max(S)  n == Max(S \cup {0})
  <2>1. m \in S /\ \A x \in S : x <= m
    BY <1>3, <1>4
  <2>2. n \in S \cup {0} /\ \A x \in S \cup {0} : x <= n
    BY <1>2
  <2> HIDE DEF m, n
  <2>3. m \in Nat /\ n \in Nat
    BY <1>1, <2>1, <2>2
  <2>4. m = n
    BY <2>1, <2>2, <2>3
  <2>5. QED
    BY <2>4 DEF m, n
<1>5. Max(S \cup {0}) \in Bound
  BY <1>1, <1>2 DEF Bound
<1>6. QED
  BY <1>2, <1>3, <1>4, <1>5

\* A new row has its type, and so has the id that it gets.
LEMMA CommitCreateTypes ==
    ASSUME Types, NEW t \in Handlers, CommitCreate(t) PROVE Types'
<1> DEFINE k == task[t]
           id == Max(Rows \cup {0}) + 1
           row == [key |-> k.request, active |-> k.active = "on", partner_id |-> k.request,
                   checkword |-> k.request, cipher |-> k.cipher, test |-> 0]
           KeysOK == /\ keys' \in [Ids -> Row]
                     /\ \A i \in Rows' : keys'[i].key \in Request /\ keys'[i].cipher \in Request
                     /\ chosen' \subseteq Request
                     /\ given' \in [Request -> [partner_id : 0 .. REQUESTS, checkword : 0 .. REQUESTS]]
<1>1. HandlerTask(k) /\ KeyTask(k) /\ k.pc = "commit" /\ k.op = "create"
  BY HandlerAt DEF CommitCreate, HandlerTask, PresetTask, PollingTask, DeleteTask, UsesPresets
<1>2. k.request \in Request /\ k.cipher \in Request /\ k.active \in {"keep", "on", "off"}
  BY <1>1 DEF HandlerTask, KeyTask, Task
<1>3. row \in Row /\ row.key \in Request /\ row.cipher \in Request
  BY <1>2, SettingsAssumption DEF Row, Bound, Request
<1>4. keys \in [Ids -> Row] /\ \A i \in Rows : keys[i].key \in Request /\ keys[i].cipher \in Request
  BY DEF Types, TypeOK, Row, Bound
<1>5. Deactivated(k.others) \in [Ids -> Row]
  BY <1>4 DEF Deactivated, Row
<1>6. \A i \in Ids : Deactivated(k.others)[i].key = keys[i].key /\ Deactivated(k.others)[i].cipher = keys[i].cipher
  BY <1>4 DEF Deactivated, Row
<1>7. ASSUME k.others \subseteq Rows PROVE KeysOK
  <2>1. keys' = [Deactivated(k.others) EXCEPT ![id] = row]
    BY <1>7 DEF CommitCreate
  <2>2. keys' \in [Ids -> Row]
    BY <1>3, <1>5, <2>1
  <2>3. ASSUME NEW i \in Rows' PROVE keys'[i].key \in Request /\ keys'[i].cipher \in Request
    <3>1. CASE i = id
      BY <1>3, <1>5, <2>1, <3>1 DEF Rows
    <3>2. CASE i # id
      <4>1. i \in Ids /\ keys'[i] = Deactivated(k.others)[i]
        BY <1>5, <2>1, <3>2 DEF Rows
      <4>2. i \in Rows
        BY <1>7, <2>3, <4>1 DEF Deactivated, Rows, Exists
      <4>3. QED
        BY <1>4, <1>6, <4>1, <4>2
    <3>3. QED
      BY <3>1, <3>2
  <2>4. chosen' \subseteq Request
    BY <1>2, <1>7 DEF CommitCreate, Types, TypeOK
  <2>5. given' \in [Request -> [partner_id : 0 .. REQUESTS, checkword : 0 .. REQUESTS]]
    <3>1. k.request \in 0 .. REQUESTS
      BY <1>2, SettingsAssumption DEF Request
    <3>2. QED
      BY <1>7, <3>1 DEF CommitCreate, Types, TypeOK
  <2>6. QED
    BY <2>2, <2>3, <2>4, <2>5
<1>8. ASSUME ~(k.others \subseteq Rows) PROVE KeysOK
  BY <1>4, <1>8 DEF CommitCreate, Types, TypeOK, Rows, Exists
<1>9. TasksOK' /\ \A u \in Threads : task'[u].pc \in Pcs /\ task'[u].request \in Bound
  BY ContinueTypes DEF Types, CommitCreate
<1>10. TypeOK'
  BY <1>7, <1>8, <1>9 DEF CommitCreate, Types, TypeOK, bounds, Row, Bound
<1>11. CipherOK'
  BY DEF CommitCreate, Types, CipherOK
<1>12. QED
  BY <1>9, <1>10, <1>11 DEF Types

\* An updated row keeps its type and its key.
LEMMA CommitUpdateTypes ==
    ASSUME Types, NEW t \in Handlers, CommitUpdate(t) PROVE Types'
<1> DEFINE k == task[t]
           KeysOK == /\ keys' \in [Ids -> Row]
                     /\ \A i \in Rows' : keys'[i].key \in Request /\ keys'[i].cipher \in Request
                     /\ chosen' \subseteq Request
                     /\ given' \in [Request -> [partner_id : 0 .. REQUESTS, checkword : 0 .. REQUESTS]]
<1>1. HandlerTask(k) /\ KeyTask(k) /\ k.pc = "commit" /\ k.op = "update"
  BY HandlerAt DEF CommitUpdate, HandlerTask, PresetTask, PollingTask, DeleteTask, UsesPresets
<1>2. /\ k.request \in Request /\ k.request \in Bound /\ k.cipher \in Request /\ k.cipher \in Bound
      /\ k.id \in Ids /\ k.read \in Row /\ k.read.key \in Request /\ k.active \in {"keep", "on", "off"}
  BY <1>1, SettingsAssumption DEF HandlerTask, KeyTask, Task, Bound, Request
<1>3. keys \in [Ids -> Row] /\ \A i \in Rows : keys[i].key \in Request /\ keys[i].cipher \in Request
  BY DEF Types, TypeOK, Row, Bound
<1>4. Deactivated(k.others) \in [Ids -> Row]
  BY <1>3 DEF Deactivated, Row
<1>5. \A i \in Ids : Deactivated(k.others)[i].key = keys[i].key /\ Deactivated(k.others)[i].cipher = keys[i].cipher
  BY <1>3 DEF Deactivated, Row
<1>6. ASSUME k.others \cup {k.id} \subseteq Rows PROVE KeysOK
  <2> DEFINE row == Updated(k, Deactivated(k.others)[k.id])
  <2>1. keys' = [Deactivated(k.others) EXCEPT ![k.id] = row]
    BY <1>6 DEF CommitUpdate
  <2>2. row \in Row /\ row.key = keys[k.id].key /\ row.cipher = k.cipher
    <3>1. Deactivated(k.others)[k.id] \in Row
      BY <1>2, <1>4
    <3>2. QED
      BY <1>2, <1>5, <3>1 DEF Updated, Row
  <2> HIDE DEF row
  <2>3. keys' \in [Ids -> Row]
    BY <1>4, <2>1, <2>2
  <2>4. ASSUME NEW i \in Rows' PROVE keys'[i].key \in Request /\ keys'[i].cipher \in Request
    <3>1. CASE i = k.id
      BY <1>2, <1>3, <1>4, <1>6, <2>1, <2>2, <3>1
    <3>2. CASE i # k.id
      <4>1. i \in Ids /\ keys'[i] = Deactivated(k.others)[i]
        BY <1>4, <2>1, <3>2 DEF Rows
      <4>2. i \in Rows
        BY <1>6, <2>4, <4>1 DEF Deactivated, Rows, Exists
      <4>3. QED
        BY <1>3, <1>5, <4>1, <4>2
    <3>3. QED
      BY <3>1, <3>2
  <2>5. chosen' \subseteq Request
    BY <1>2, <1>6 DEF CommitUpdate, Types, TypeOK
  <2>6. given' \in [Request -> [partner_id : 0 .. REQUESTS, checkword : 0 .. REQUESTS]]
    <3>1. given' = [given EXCEPT ![k.read.key] =
                       [half \in DOMAIN @ |-> IF half \in k.fields THEN k.request ELSE @[half]]]
      BY <1>6 DEF CommitUpdate
    <3>2. given[k.read.key] \in [partner_id : 0 .. REQUESTS, checkword : 0 .. REQUESTS]
      BY <1>2 DEF Types, TypeOK
    <3>3. [half \in DOMAIN given[k.read.key] |->
              IF half \in k.fields THEN k.request ELSE given[k.read.key][half]]
            \in [partner_id : 0 .. REQUESTS, checkword : 0 .. REQUESTS]
      BY <1>2, <3>2 DEF Bound
    <3>4. QED
      BY <3>1, <3>3 DEF Types, TypeOK
  <2>7. QED
    BY <2>3, <2>4, <2>5, <2>6
<1>7. ASSUME ~(k.others \cup {k.id} \subseteq Rows) PROVE KeysOK
  BY <1>3, <1>7 DEF CommitUpdate, Types, TypeOK, Rows, Exists
<1>8. TasksOK' /\ \A u \in Threads : task'[u].pc \in Pcs /\ task'[u].request \in Bound
  BY ContinueTypes DEF Types, CommitUpdate
<1>9. TypeOK'
  BY <1>6, <1>7, <1>8 DEF CommitUpdate, Types, TypeOK, bounds, Row, Bound
<1>10. CipherOK'
  BY DEF CommitUpdate, Types, CipherOK
<1>11. QED
  BY <1>8, <1>9, <1>10 DEF Types

\* A test result is noted on a row that stays what it is.
LEMMA MarkTestTypes ==
    ASSUME Types, NEW t \in Handlers, MarkTest(t) PROVE Types'
<1> DEFINE k == task[t]
<1>1. HandlerTask(k) /\ KeyTask(k) /\ k.read.key \in Bound
  BY HandlerAt DEF MarkTest, HandlerTask, KeyTask, PresetTask, PollingTask, DeleteTask, UsesPresets, Task, Row
<1>2. keys \in [Ids -> Row] /\ \A i \in Rows : keys[i].key \in Request /\ keys[i].cipher \in Request
  BY DEF Types, TypeOK, Row, Bound
<1>3. keys' \in [Ids -> Row] /\ \A i \in Ids : /\ keys'[i].key = keys[i].key
                                               /\ keys'[i].cipher = keys[i].cipher
                                               /\ i \notin Rows => keys'[i] = keys[i]
  BY <1>1, <1>2 DEF MarkTest, Row, Rows
<1>4. \A i \in Rows' : keys'[i].key \in Request /\ keys'[i].cipher \in Request
  BY <1>2, <1>3 DEF Rows, Exists
<1>5. TasksOK' /\ \A u \in Threads : task'[u].pc \in Pcs /\ task'[u].request \in Bound
  BY ContinueTypes DEF Types, MarkTest
<1>6. TypeOK'
  BY <1>3, <1>4, <1>5 DEF MarkTest, Types, TypeOK, bounds, history, key_history, Row, Bound
<1>7. CipherOK'
  BY DEF MarkTest, Types, CipherOK
<1>8. QED
  BY <1>5, <1>6, <1>7 DEF Types

\* A request has a number of its own, and what it leaves alone keeps its type.
LEMMA AskedRequest ==
    ASSUME Types, NEW t \in Handlers, NEW k, Asked(t, k)
    PROVE  requests + 1 \in Request /\ requests + 1 \in Bound
  BY SettingsAssumption DEF Asked, Types, TypeOK, Request, Bound

\* A handler takes up a request, and nothing else is touched.
Taken(t, k) ==
    /\ Begin(t, k) /\ HandlerTask(k) /\ k.request = requests + 1
    /\ k.pc \in {"key_exists", "others", "presets_exists", "delete"} \/ (k.pc = "open" /\ k.file = "polling")
    /\ UNCHANGED <<keys, mappings, files, key_history, alone, broken>>

\* A request that is taken up keeps the types if its task is one of the four kinds.
LEMMA AskedAllTypes ==
    ASSUME Types, NEW t \in Handlers, NEW k \in Task, Asked(t, k), UNCHANGED <<keys, key_history>>,
           HandlerTask([k EXCEPT !.request = requests + 1]),
           k.pc \in {"key_exists", "others", "presets_exists", "delete"} \/ (k.pc = "open" /\ k.file = "polling")
    PROVE  Types' /\ \E j \in Task : Taken(t, j)
<1>1. /\ TasksOK' /\ \A u \in Threads : task'[u].pc \in Pcs /\ task'[u].request \in Bound
      /\ requests' \in Bound
      /\ tangled' \subseteq {"active", "secrets", "mappings"}
  BY AskedTypes
<1>2. TypeOK' /\ CipherOK'
  BY <1>1 DEF Asked, Types, TypeOK, CipherOK, Rows, Exists, key_history, Bound
<1>3. Taken(t, [k EXCEPT !.request = requests + 1])
  <2>1. /\ [k EXCEPT !.request = requests + 1].pc = k.pc
        /\ [k EXCEPT !.request = requests + 1].file = k.file
        /\ [k EXCEPT !.request = requests + 1].request = requests + 1
    BY DEF Task
  <2>2. QED
    BY <2>1 DEF Asked, Taken
<1>4. [k EXCEPT !.request = requests + 1] \in Task
  BY DEF HandlerTask
<1>5. QED
  BY <1>1, <1>2, <1>3, <1>4 DEF Types

\* A request that creates a key keeps the types.
LEMMA CreateBeginTypes ==
    ASSUME Types, NEW t \in Handlers, NEW active \in {"on", "off"}, CreateBegin(t, active)
    PROVE  Types' /\ \E j \in Task : Taken(t, j)
<1> DEFINE k == [NoTask EXCEPT !.op = "create", !.active = active,
                               !.pc = IF active = "on" THEN "others" ELSE "key_exists"]
<1>1. Asked(t, k) /\ UNCHANGED <<keys, key_history>>
  BY DEF CreateBegin
<1>2. k \in Task
  BY NoTaskType DEF Task, Pcs
<1>3. HandlerTask([k EXCEPT !.request = requests + 1])
  <2>1. /\ k.op = "create" /\ k.pc \in {"others", "key_exists"} /\ k.file = "cipher"
        /\ requests + 1 \in Request /\ requests + 1 \in Bound
    BY <1>1, AskedRequest DEF NoTask
  <2> HIDE DEF k
  <2>2. QED
    BY <1>2, <2>1 DEF HandlerTask, KeyTask, Task
<1>4. k.pc \in {"key_exists", "others", "presets_exists", "delete"} \/ (k.pc = "open" /\ k.file = "polling")
  BY DEF NoTask
<1>5. QED
  BY <1>1, <1>2, <1>3, <1>4, AskedAllTypes

\* A request that updates a key keeps the types.
LEMMA UpdateBeginTypes ==
    ASSUME Types, NEW t \in Handlers, NEW id \in Ids, NEW active \in {"keep", "on", "off"},
           NEW fields \in {{}, {"partner_id"}, {"checkword"}}, UpdateBegin(t, id, active, fields)
    PROVE  Types' /\ \E j \in Task : Taken(t, j)
<1> DEFINE k == [NoTask EXCEPT !.op = "update", !.id = id, !.read = keys[id], !.active = active,
                               !.fields = fields, !.use = "decrypt", !.pc = "key_exists"]
<1>1. Asked(t, k) /\ UNCHANGED <<keys, key_history>>
  BY DEF UpdateBegin
<1>2. keys[id] \in Row /\ keys[id].key \in Request /\ keys[id].cipher \in Request
  BY DEF UpdateBegin, Types, TypeOK, Rows, Row, Bound
<1>3. k \in Task
  <2>1. id \in Bound
    BY SettingsAssumption DEF Bound, Ids
  <2>2. QED
    BY <1>2, <2>1, NoTaskType DEF Task, Pcs, Halves
<1>4. HandlerTask([k EXCEPT !.request = requests + 1])
  <2>1. /\ k.op = "update" /\ k.pc = "key_exists" /\ k.file = "cipher" /\ k.use = "decrypt"
        /\ k.id \in Ids /\ k.read.key \in Request /\ k.read.cipher \in Request
        /\ requests + 1 \in Request /\ requests + 1 \in Bound
    BY <1>1, <1>2, AskedRequest DEF NoTask
  <2> HIDE DEF k
  <2>2. QED
    BY <1>3, <2>1 DEF HandlerTask, KeyTask, Task
<1>5. k.pc \in {"key_exists", "others", "presets_exists", "delete"} \/ (k.pc = "open" /\ k.file = "polling")
  BY DEF NoTask
<1>6. QED
  BY <1>1, <1>3, <1>4, <1>5, AskedAllTypes

\* A request that tests a key keeps the types.
LEMMA TestBeginTypes ==
    ASSUME Types, NEW t \in Handlers, NEW id \in Ids, TestBegin(t, id)
    PROVE  Types' /\ \E j \in Task : Taken(t, j)
<1> DEFINE k == [NoTask EXCEPT !.op = "test", !.id = id, !.read = keys[id],
                               !.use = "decrypt", !.pc = "key_exists"]
<1>1. Asked(t, k) /\ UNCHANGED <<keys, key_history>>
  BY DEF TestBegin
<1>2. keys[id] \in Row /\ keys[id].key \in Request /\ keys[id].cipher \in Request
  BY DEF TestBegin, Types, TypeOK, Rows, Row, Bound
<1>3. k \in Task
  <2>1. id \in Bound
    BY SettingsAssumption DEF Bound, Ids
  <2>2. QED
    BY <1>2, <2>1, NoTaskType DEF Task, Pcs
<1>4. HandlerTask([k EXCEPT !.request = requests + 1])
  <2>1. /\ k.op = "test" /\ k.pc = "key_exists" /\ k.file = "cipher" /\ k.use = "decrypt"
        /\ k.id \in Ids /\ k.read.key \in Request /\ k.read.cipher \in Request
        /\ requests + 1 \in Request /\ requests + 1 \in Bound
    BY <1>1, <1>2, AskedRequest DEF NoTask
  <2> HIDE DEF k
  <2>2. QED
    BY <1>3, <2>1 DEF HandlerTask, KeyTask, Task
<1>5. k.pc \in {"key_exists", "others", "presets_exists", "delete"} \/ (k.pc = "open" /\ k.file = "polling")
  BY DEF NoTask
<1>6. QED
  BY <1>1, <1>3, <1>4, <1>5, AskedAllTypes

\* A request about the presets keeps the types.
LEMMA PresetBeginTypes ==
    ASSUME Types, NEW t \in Handlers, NEW op \in {"preset", "list_presets"}, PresetBegin(t, op)
    PROVE  Types' /\ \E j \in Task : Taken(t, j)
<1> DEFINE k == [NoTask EXCEPT !.op = op, !.pc = "presets_exists"]
<1>1. Asked(t, k) /\ UNCHANGED <<keys, key_history>>
  BY DEF PresetBegin
<1>2. k \in Task
  BY NoTaskType DEF Task, Pcs
<1>3. HandlerTask([k EXCEPT !.request = requests + 1])
  BY <1>1, <1>2, AskedRequest DEF HandlerTask, PresetTask, UsesPresets, NoTask, Task
<1>4. k.pc \in {"key_exists", "others", "presets_exists", "delete"} \/ (k.pc = "open" /\ k.file = "polling")
  BY DEF NoTask
<1>5. QED
  BY <1>1, <1>2, <1>3, <1>4, AskedAllTypes

\* A request about the polling settings keeps the types.
LEMMA PollingBeginTypes ==
    ASSUME Types, NEW t \in Handlers, PollingBegin(t)
    PROVE  Types' /\ \E j \in Task : Taken(t, j)
<1> DEFINE k == [NoTask EXCEPT !.op = "polling", !.pc = "open", !.file = "polling",
                               !.data = {requests + 1}]
<1>1. Asked(t, k) /\ UNCHANGED <<keys, key_history>>
  BY DEF PollingBegin
<1>2. requests + 1 \in Request /\ requests + 1 \in Bound
  BY <1>1, AskedRequest
<1>3. k \in Task
  BY <1>2, NoTaskType DEF Task, Pcs, File
<1>4. HandlerTask([k EXCEPT !.request = requests + 1])
  BY <1>2, <1>3 DEF HandlerTask, PollingTask, DeleteTask, NoTask, Task
<1>5. k.pc \in {"key_exists", "others", "presets_exists", "delete"} \/ (k.pc = "open" /\ k.file = "polling")
  BY DEF NoTask
<1>6. QED
  BY <1>1, <1>3, <1>4, <1>5, AskedAllTypes

\* A request that deletes a key keeps the types,
LEMMA DeleteBeginTypes ==
    ASSUME Types, NEW t \in Handlers, NEW id \in Ids, DeleteBegin(t, id)
    PROVE  Types' /\ \E j \in Task : Taken(t, j)
<1> DEFINE k == [NoTask EXCEPT !.op = "delete", !.id = id, !.pc = "delete"]
<1>1. Asked(t, k) /\ UNCHANGED <<keys, key_history>>
  BY DEF DeleteBegin
<1>2. k \in Task
  <2>1. id \in Bound
    BY SettingsAssumption DEF Bound, Ids
  <2>2. QED
    BY <2>1, NoTaskType DEF Task, Pcs
<1>3. HandlerTask([k EXCEPT !.request = requests + 1])
  BY <1>1, <1>2, AskedRequest DEF HandlerTask, DeleteTask, NoTask, Task
<1>4. k.pc \in {"key_exists", "others", "presets_exists", "delete"} \/ (k.pc = "open" /\ k.file = "polling")
  BY DEF NoTask
<1>5. QED
  BY <1>1, <1>2, <1>3, <1>4, AskedAllTypes

\* and so does the deletion: the ids it frees are ids.
LEMMA CommitDeleteTypes ==
    ASSUME Types, NEW t \in Handlers, CommitDelete(t) PROVE Types'
<1> DEFINE id == task[t].id
<1>0. id \in Ids
  BY HandlerAt DEF CommitDelete, HandlerTask, KeyTask, PresetTask, PollingTask, DeleteTask
<1>1. keys \in [Ids -> Row] /\ \A i \in Rows : keys[i].key \in Request /\ keys[i].cipher \in Request
  BY DEF Types, TypeOK, Row, Bound
<1>2. keys' \in [Ids -> Row] /\ \A i \in Ids : keys'[i] = IF i = id THEN NoRow ELSE keys[i]
  <2>1. NoRow \in Row
    BY SettingsAssumption DEF NoRow, Row, Bound
  <2>2. QED
    BY <1>1, <2>1 DEF CommitDelete
<1>3. \A i \in Rows' : keys'[i].key \in Request /\ keys'[i].cipher \in Request
  BY <1>1, <1>2 DEF Rows, Exists
<1>4. freed' \subseteq Ids
  <2>1. Max((Rows \ {id}) \cup {0}) \in Bound /\ Max(Rows \cup {0}) \in Bound
    BY MaxRows DEF Rows
  <2>2. (Max((Rows \ {id}) \cup {0}) + 1) .. Max(Rows \cup {0}) \subseteq Ids
    BY <2>1, SettingsAssumption DEF Ids, Bound
  <2>3. QED
    BY <2>2 DEF CommitDelete, Types, TypeOK
<1>5. chosen' \subseteq Request
  BY DEF CommitDelete, Types, TypeOK
<1>6. TasksOK' /\ \A u \in Threads : task'[u].pc \in Pcs /\ task'[u].request \in Bound
  BY ContinueTypes DEF Types, CommitDelete
<1>7. TypeOK'
  BY <1>2, <1>3, <1>4, <1>5, <1>6 DEF CommitDelete, Types, TypeOK, bounds, Row, Bound
<1>8. CipherOK'
  BY DEF CommitDelete, Types, CipherOK
<1>9. QED
  BY <1>6, <1>7, <1>8 DEF Types

\* Replacing the mappings keeps the types.
LEMMA ReplaceTypes ==
    ASSUME Types, NEW custom \in BOOLEAN, ReplaceMappings(custom) PROVE Types'
<1>1. requests' \in Bound /\ mappings' \in [defaults : Nat, custom : BOOLEAN]
  BY SettingsAssumption DEF ReplaceMappings, Types, TypeOK, Bound
<1>2. TasksOK' /\ CipherOK'
  BY DEF ReplaceMappings, Types, TasksOK, CipherOK, Idle
<1>3. TypeOK'
  BY <1>1 DEF ReplaceMappings, Types, TypeOK, Rows, Exists, key_history, Bound
<1>4. QED
  BY <1>2, <1>3 DEF Types

\* A starter's task changes.
LEMMA StarterTypes ==
    ASSUME Types, NEW s \in Starters, NEW k \in Task, k = NoTask \/ StartupTask(k),
           task' \in [Threads -> Task], task'[s] = k,
           \A u \in Threads \ {s} :
              \/ task'[u] = task[u]
              \/ UsesPresets(task[u]) /\ task'[u] = [task[u] EXCEPT !.mixed = TRUE]
    PROVE  TasksOK' /\ \A u \in Threads : task'[u].pc \in Pcs /\ task'[u].request \in Bound
<1>1. ASSUME NEW u \in Handlers PROVE task'[u] = NoTask \/ HandlerTask(task'[u])
  <2>1. task[u] \in Task /\ u \in Threads \ {s} /\ (task[u] = NoTask \/ HandlerTask(task[u]))
    BY SettingsAssumption DEF Types, TasksOK, Idle, Threads
  <2>2. CASE UsesPresets(task[u]) /\ task'[u] = [task[u] EXCEPT !.mixed = TRUE]
    <3>1. HandlerTask(task[u])
      BY <2>1, <2>2 DEF UsesPresets, NoTask
    <3>2. [task[u] EXCEPT !.mixed = TRUE] \in Task
      BY <2>1 DEF Task
    <3>3. PresetTask([task[u] EXCEPT !.mixed = TRUE])
      BY <2>1, <2>2, <3>1 DEF HandlerTask, KeyTask, PresetTask, UsesPresets, PollingTask, DeleteTask, Task
    <3>4. [task[u] EXCEPT !.mixed = TRUE].request \in Request
      BY <2>1, <3>1 DEF HandlerTask, Task
    <3>5. QED
      BY <2>2, <3>2, <3>3, <3>4 DEF HandlerTask
  <2>3. QED
    BY <2>1, <2>2
<1>2. ASSUME NEW u \in Starters PROVE task'[u] = NoTask \/ StartupTask(task'[u])
  <2>1. task[u] = NoTask \/ StartupTask(task[u])
    BY DEF Types, TasksOK, Idle
  <2>2. ~UsesPresets(task[u])
    BY <2>1 DEF UsesPresets, StartupTask, NoTask
  <2>3. QED
    BY <2>1, <2>2 DEF Threads
<1>3. QED
  BY <1>1, <1>2 DEF TasksOK, Idle, Task

\* A copy that starts keeps the types.
LEMMA StartTypes ==
    ASSUME Types, NEW s \in Starters, Start(s) PROVE Types'
<1> DEFINE k == [NoTask EXCEPT !.op = "startup",
                     !.pc = IF mappings.defaults = 0 /\ ~mappings.custom THEN "seed" ELSE "serve"]
<1>1. Begin(s, k) /\ k \in Task /\ s \in Threads /\ task \in [Threads -> Task]
  BY NoTaskType DEF Start, Task, Pcs, Threads, Types, TasksOK
<1>2. PICK b \in BOOLEAN : task'[s] = [k EXCEPT !.mixed = b]
  BY <1>1, BeginTypes
<1>3. [k EXCEPT !.mixed = b] \in Task /\ StartupTask([k EXCEPT !.mixed = b])
  <2>1. k.op = "startup" /\ k.pc \in {"seed", "serve"}
    BY DEF NoTask
  <2> HIDE DEF k
  <2>2. QED
    BY <1>1, <2>1 DEF Task, StartupTask
<1>4. TasksOK' /\ \A u \in Threads : task'[u].pc \in Pcs /\ task'[u].request \in Bound
  BY <1>1, <1>2, <1>3, BeginTypes, StarterTypes
<1>5. tangled' \subseteq {"active", "secrets", "mappings"} /\ starts' \in 0 .. STARTS
  <2>1. starts' \in 0 .. STARTS
    BY SettingsAssumption DEF Start, Types, TypeOK
  <2>2. Tangles(k) \subseteq {"active", "secrets", "mappings"}
    BY DEF Tangles
  <2>3. QED
    BY <1>1, <2>1, <2>2 DEF Begin, Types, TypeOK
<1>6. TypeOK' /\ CipherOK'
  BY <1>4, <1>5 DEF Start, Types, TypeOK, CipherOK, Rows, Exists, key_history, Bound
<1>7. QED
  BY <1>4, <1>6 DEF Types

\* So does one that comes up, and seeds.
LEMMA ServeTypes ==
    ASSUME Types, NEW s \in Starters, Serve(s) PROVE Types'
<1>1. /\ task' \in [Threads -> Task] /\ task'[s] = NoTask
      /\ \A u \in Threads \ {s} : task'[u] = task[u]
  BY NoTaskType DEF Serve, Continue, Types, TasksOK, Threads
<1>2. TasksOK' /\ \A u \in Threads : task'[u].pc \in Pcs /\ task'[u].request \in Bound
  BY <1>1, NoTaskType, StarterTypes
<1>3. mappings' \in [defaults : Nat, custom : BOOLEAN]
  BY DEF Serve, Types, TypeOK
<1>4. TypeOK' /\ CipherOK'
  BY <1>2, <1>3 DEF Serve, Types, TypeOK, CipherOK, Rows, Exists, bounds, history, key_history, Bound
<1>5. QED
  BY <1>2, <1>4 DEF Types

\* A crash keeps the types.
LEMMA CrashTypes ==
    ASSUME Types, Crash PROVE Types'
<1>1. task' \in [Threads -> Task] /\ \A u \in Threads : task'[u] = NoTask
  BY NoTaskType DEF Crash
<1>2. TasksOK'
  BY <1>1 DEF TasksOK, Idle, Threads
<1>3. crashes' \in 0 .. CRASHES
  BY SettingsAssumption DEF Crash, Types, TypeOK
<1>4. TypeOK' /\ CipherOK'
  <2>1. \A u \in Threads : task'[u].pc \in Pcs /\ task'[u].request \in Bound
    BY <1>1, NoTaskType DEF Task
  <2>2. QED
    BY <1>3, <2>1 DEF Crash, Types, TypeOK, CipherOK, Rows, Exists, key_history, Bound
<1>5. QED
  BY <1>2, <1>4 DEF Types

\* The types hold initially,
LEMMA TypesInit == Init => Types
<1> SUFFICES ASSUME Init PROVE Types
  OBVIOUS
<1>1. REQUESTS \in Nat /\ STARTS \in Nat /\ CRASHES \in Nat
  BY SettingsAssumption
<1>2. NoRow \in Row /\ NoTask.pc \in Pcs /\ NoTask.request \in Bound
  BY <1>1 DEF NoRow, NoTask, Row, Bound, Pcs
<1>3. TasksOK
  BY NoTaskType DEF Init, TasksOK, Idle, Threads
<1>4. CipherOK
  BY DEF Init, CipherOK, Absent, File
<1>5. TypeOK
  <2>1. keys \in [Ids -> Row] /\ Rows = {}
    BY <1>2 DEF Init, Rows, Exists
  <2>2. files \in [File -> [state : {"absent", "empty", "whole", "garbled"}, data : SUBSET (0 .. REQUESTS)]]
    BY DEF Init, Absent
  <2>3. mappings \in [defaults : Nat, custom : BOOLEAN]
    BY DEF Init
  <2>4. given \in [Request -> [partner_id : 0 .. REQUESTS, checkword : 0 .. REQUESTS]]
    BY <1>1 DEF Init, NoSecret
  <2>5. \A t \in Threads : task[t].pc \in Pcs /\ task[t].request \in 0 .. REQUESTS
    BY <1>2 DEF Init, Bound
  <2>6. QED
    BY <1>1, <2>1, <2>2, <2>3, <2>4, <2>5 DEF Init, TypeOK, Row, Bound
<1>6. QED
  BY <1>3, <1>4, <1>5 DEF Types

\* and every step preserves them.
LEMMA TypesNext == Types /\ [Next]_vars => Types'
<1> SUFFICES ASSUME Types, [Next]_vars PROVE Types'
  OBVIOUS
<1>1. CASE UNCHANGED vars
  BY <1>1 DEF vars, Types, TypeOK, TasksOK, CipherOK, Idle, Rows, Exists, bounds, history, key_history
<1>2. CASE KeysNext
  BY <1>2, CreateBeginTypes, UpdateBeginTypes, TestBeginTypes, DeleteBeginTypes DEF KeysNext
<1>3. CASE FilesNext
  BY <1>3, PollingBeginTypes, PresetBeginTypes DEF FilesNext
<1>4. CASE \E custom \in BOOLEAN : ReplaceMappings(custom)
  BY <1>4, ReplaceTypes
<1>5. CASE \E t \in Handlers : Step(t)
  BY <1>5, KeyExistsTypes, KeyReadTypes, PresetsExistTypes, PresetsReadTypes, OpenTypes, WriteTypes,
     LoadOthersTypes, CommitCreateTypes, CommitUpdateTypes, MarkTestTypes, CommitDeleteTypes
     DEF Step
<1>6. CASE \E s \in Starters : Start(s) \/ Serve(s)
  BY <1>6, StartTypes, ServeTypes
<1>7. CASE Crash
  BY <1>7, CrashTypes
<1>8. QED
  BY <1>1, <1>2, <1>3, <1>4, <1>5, <1>6, <1>7 DEF Next

\* Every variable has its type, and every task the shape its step needs.
THEOREM TypesCorrect == Spec => []TypeOK
<1>1. Spec => []Types
  BY TypesInit, TypesNext, PTL DEF Spec
<1>2. Types => TypeOK
  BY DEF Types
<1>3. QED
  BY <1>1, <1>2, PTL

-----------------------------------------------------------------------------
(* Secrets are readable *)

WritesKey(t) == task[t].pc = "write" /\ task[t].file = "cipher"

\* Why they are: what is stored, and what is about to be, is encrypted with the key on file;
\* while that is written there is neither, and one thread writes it.
CipherSound ==
    "cipher" \notin broken =>
        /\ \A id \in Rows : files["cipher"] = Whole({keys[id].cipher})
        /\ \A t \in Threads : task[t].pc = "commit" => files["cipher"] = Whole({task[t].cipher})
        /\ \A t \in Threads : WritesKey(t) => files["cipher"].state = "empty"
        /\ \A t, u \in Threads : WritesKey(t) /\ WritesKey(u) => t = u

\* A file that is written as a whole is whole, with what was written.
LEMMA WholeState == \A d : Whole(d).state = "whole" /\ Whole(d).data = d
  BY DEF Whole

\* Most steps leave the cipher file, who writes it and what is encrypted with it alone.
LEMMA CipherFrame ==
    ASSUME Types, CipherSound, broken \subseteq broken', files'["cipher"] = files["cipher"],
           \A id \in Rows' : id \in Rows /\ keys'[id].cipher = keys[id].cipher,
           \A u \in Threads :
              \/ task'[u].pc \notin {"commit", "write"}
              \/ task'[u].pc = "write" /\ task'[u].file # "cipher"
              \/ /\ task'[u].pc = task[u].pc /\ task'[u].file = task[u].file
                 /\ task'[u].cipher = task[u].cipher
    PROVE  CipherSound'
  BY DEF CipherSound, WritesKey

\* A step of one thread's task.
LEMMA ContinueAt ==
    ASSUME Types, NEW t \in Threads, NEW k, Continue(t, k)
    PROVE  \A u \in Threads : task'[u] = IF u = t THEN k ELSE task[u]
  BY DEF Continue, Types, TasksOK

\* Opening the cipher file makes it broken unless it was absent.
LEMMA CipherOpen ==
    ASSUME Types, CipherSound, NEW t \in Handlers, Open(t) PROVE CipherSound'
<1>1. HandlerTask(task[t]) /\ task[t].pc = "open" /\ t \in Threads
  BY HandlerAt DEF Open, Threads
<1>2. \A u \in Threads : task'[u] = IF u = t THEN [task[t] EXCEPT !.pc = "write"] ELSE task[u]
  BY <1>1, ContinueAt DEF Open
<1>3. [task[t] EXCEPT !.pc = "write"].pc = "write" /\ [task[t] EXCEPT !.pc = "write"].file = task[t].file
  BY <1>1 DEF HandlerTask, Task
<1>4. broken \subseteq broken' /\ keys' = keys /\ Rows' = Rows
  BY DEF Open, Rows, Exists
<1>5. CASE task[t].file # "cipher"
  <2>1. files'["cipher"] = files["cipher"]
    BY <1>1, <1>5 DEF Open, Types, TypeOK, File
  <2>2. QED
    BY <1>2, <1>3, <1>4, <1>5, <2>1, CipherFrame
<1>6. CASE task[t].file = "cipher" /\ "cipher" \notin broken'
  <2>1. files["cipher"] = Absent /\ \A u \in Threads \ {t} : ~WritesKey(u)
    BY <1>6 DEF Open, WritesKey
  <2>2. Rows = {} /\ \A u \in Threads : task[u].pc # "commit"
    <3>1. files["cipher"].state = "absent"
      BY <2>1 DEF Absent
    <3>2. QED
      BY <1>4, <1>6, <3>1, WholeState DEF CipherSound
  <2>3. files'["cipher"] = [state |-> "empty", data |-> {}]
    BY <1>6 DEF Open, Types, TypeOK, File
  <2>4. QED
    <3>1. files'["cipher"].state = "empty"
      BY <2>3
    <3>2. \A u \in Threads : task'[u].pc # "commit" /\ (u # t => ~(task'[u].pc = "write" /\ task'[u].file = "cipher"))
      BY <1>2, <1>3, <2>1, <2>2 DEF WritesKey
    <3>3. QED
      BY <1>4, <2>2, <3>1, <3>2 DEF CipherSound, WritesKey
<1>7. QED
  BY <1>5, <1>6 DEF CipherSound

\* Writing it gives it the key that its writer encrypts with.
LEMMA CipherWrite ==
    ASSUME Types, CipherSound, NEW t \in Handlers, Write(t) PROVE CipherSound'
<1> DEFINE f == task[t].file
           k == CASE f = "cipher"              -> WithKey(task[t], task[t].request)
                  [] task[t].data = {DEFAULTS} -> [task[t] EXCEPT !.pc = "presets_read"]
                  [] OTHER                     -> NoTask
<1>1. HandlerTask(task[t]) /\ task[t].pc = "write" /\ t \in Threads /\ task[t] \in Task
  BY HandlerAt DEF Write, Threads, HandlerTask
<1>2. Continue(t, k) /\ broken' = broken /\ keys' = keys /\ Rows' = Rows
  BY DEF Write, Rows, Exists
<1>3. \A u \in Threads : task'[u] = IF u = t THEN k ELSE task[u]
  BY <1>1, <1>2, ContinueAt
<1>4. CASE f # "cipher"
  <2>1. k.pc \in {"presets_read", "idle"}
    BY <1>1, <1>4 DEF NoTask, Task
  <2>2. files'["cipher"] = files["cipher"]
    BY <1>1, <1>4 DEF Write, Types, TypeOK, File
  <2>3. QED
    BY <1>2, <1>3, <2>1, <2>2, CipherFrame
<1>5. CASE f = "cipher" /\ "cipher" \notin broken
  <2>1. KeyTask(task[t]) /\ task[t].data = {task[t].request} /\ task[t].request \in Request
    BY <1>1, <1>5 DEF HandlerTask, KeyTask, PresetTask, PollingTask, DeleteTask
  <2>2. task[t].data # {DEFAULTS}
    BY <2>1, SettingsAssumption DEF DEFAULTS, Request
  <2>3. k = WithKey(task[t], task[t].request)
    BY <1>5, <2>2
  <2>4. k.pc # "write" /\ (k.pc = "commit" => k.cipher = task[t].request)
    <3>1. task[t].use \in {"encrypt", "decrypt"}
      BY <1>1 DEF Task
    <3>2. QED
      BY <1>1, <2>3, <3>1 DEF WithKey, Task, NoTask
  <2>5. WritesKey(t) /\ files["cipher"].state = "empty"
    BY <1>1, <1>5 DEF WritesKey, CipherSound
  <2>6. Rows = {} /\ \A u \in Threads : task[u].pc # "commit"
    BY <1>5, <2>5, WholeState DEF CipherSound
  <2>7. \A u \in Threads \ {t} : ~WritesKey(u)
    BY <1>1, <1>5, <2>5 DEF CipherSound
  <2>8. files'["cipher"] = Whole({task[t].request})
    BY <1>5, <2>1 DEF Write, Types, TypeOK, File
  <2> HIDE DEF k
  <2>9. QED
    BY <1>2, <1>3, <2>4, <2>6, <2>7, <2>8 DEF CipherSound, WritesKey
<1>6. QED
  BY <1>2, <1>4, <1>5 DEF CipherSound

\* Who reads it encrypts with the key it has.
LEMMA CipherKeyRead ==
    ASSUME Types, CipherSound, NEW t \in Handlers, KeyRead(t) PROVE CipherSound'
<1> DEFINE key == CHOOSE c \in files["cipher"].data : TRUE
           k == IF files["cipher"].state = "whole" THEN WithKey(task[t], key) ELSE NoTask
<1>1. HandlerTask(task[t]) /\ task[t].pc = "key_read" /\ t \in Threads /\ task[t] \in Task
  BY HandlerAt DEF KeyRead, Threads, HandlerTask
<1>2. /\ \A u \in Threads : task'[u] = IF u = t THEN k ELSE task[u]
      /\ UNCHANGED <<keys, files, broken>> /\ Rows' = Rows
  BY <1>1, ContinueAt DEF KeyRead, Rows, Exists, history
<1>3. k.pc # "write" /\ (k.pc = "commit" => files["cipher"] = Whole({k.cipher}))
  <2>1. CASE files["cipher"].state = "whole"
    <3>1. PICK r \in Request : files["cipher"].data = {r}
      BY <2>1 DEF Types, CipherOK
    <3>2. key = r /\ files["cipher"] = Whole({r})
      BY <2>1, <3>1 DEF Types, TypeOK, Whole, File
    <3>3. k = WithKey(task[t], r) /\ task[t].use \in {"encrypt", "decrypt"}
      BY <1>1, <2>1, <3>2 DEF Task
    <3> HIDE DEF k
    <3>4. QED
      BY <1>1, <3>2, <3>3 DEF WithKey, Task, NoTask
  <2>2. QED
    BY <2>1 DEF NoTask
<1> HIDE DEF k
<1>4. QED
  BY <1>2, <1>3 DEF CipherSound, WritesKey

\* A new row has the cipher of its request's, which is at its commit; so has an updated one.
LEMMA CipherCommit ==
    ASSUME Types, CipherSound, NEW t \in Handlers, CommitCreate(t) \/ CommitUpdate(t)
    PROVE  CipherSound'
<1> DEFINE k == task[t]
<1>1. HandlerTask(k) /\ k.pc = "commit" /\ t \in Threads /\ k.cipher \in Request
  BY HandlerAt DEF CommitCreate, CommitUpdate, Threads, HandlerTask, KeyTask, PresetTask, PollingTask, DeleteTask
<1>2. /\ \A u \in Threads : task'[u] = IF u = t THEN NoTask ELSE task[u]
      /\ UNCHANGED <<files, broken>>
  BY <1>1, ContinueAt DEF CommitCreate, CommitUpdate
<1>3. keys \in [Ids -> Row]
  BY DEF Types, TypeOK, Row, Bound
<1>4. Deactivated(k.others) \in [Ids -> Row]
      /\ \A i \in Ids : Deactivated(k.others)[i].cipher = keys[i].cipher
  BY <1>3 DEF Deactivated, Row
<1>5. \A row \in Row : Updated(k, row).cipher = k.cipher
  BY DEF Updated, Row
<1>6. ASSUME NEW i \in Rows' PROVE (i \in Rows /\ keys'[i].cipher = keys[i].cipher) \/ keys'[i].cipher = k.cipher
  <2>1. CASE keys' = keys
    BY <2>1 DEF Rows, Exists
  <2>2. CASE keys' # keys
    <3>1. k.others \subseteq Rows /\ i \in Ids
      BY <2>2 DEF CommitCreate, CommitUpdate, Rows
    <3>2. ASSUME NEW j, NEW row,
                 keys' = [Deactivated(k.others) EXCEPT ![j] = row], row.cipher = k.cipher
          PROVE  (i \in Rows /\ keys'[i].cipher = keys[i].cipher) \/ keys'[i].cipher = k.cipher
      <4>1. CASE i = j
        BY <1>4, <3>1, <3>2, <4>1
      <4>2. CASE i # j
        <5>1. keys'[i] = Deactivated(k.others)[i]
          BY <1>4, <3>1, <3>2, <4>2
        <5>2. i \in Rows
          BY <3>1, <5>1 DEF Deactivated, Rows, Exists
        <5>3. QED
          BY <1>4, <5>1, <5>2 DEF Rows
      <4>3. QED
        BY <4>1, <4>2
    <3>3. CASE CommitCreate(t)
      BY <2>2, <3>2, <3>3 DEF CommitCreate
    <3>4. CASE CommitUpdate(t)
      <4>1. keys' = [Deactivated(k.others) EXCEPT ![k.id] = Updated(k, @)] /\ k.id \in Rows
        BY <2>2, <3>4 DEF CommitUpdate
      <4>2. Updated(k, Deactivated(k.others)[k.id]).cipher = k.cipher
        BY <1>4, <1>5, <4>1 DEF Rows
      <4>3. QED
        BY <1>4, <3>2, <4>1, <4>2 DEF Rows
    <3>5. QED
      BY <3>3, <3>4
  <2>3. QED
    BY <2>1, <2>2
<1>7. QED
  BY <1>1, <1>2, <1>6 DEF CipherSound, WritesKey, NoTask

\* What a handler does in one step.
LEMMA Requests ==
    ASSUME Types, KeysNext \/ FilesNext
    PROVE  \E t \in Handlers : \E k \in Task : Taken(t, k)
  BY CreateBeginTypes, UpdateBeginTypes, TestBeginTypes, DeleteBeginTypes, PresetBeginTypes,
     PollingBeginTypes
     DEF KeysNext, FilesNext

\* Every step keeps what secrets rely on.
LEMMA CipherNext == Types /\ CipherSound /\ [Next]_vars => CipherSound'
<1> SUFFICES ASSUME Types, CipherSound, [Next]_vars PROVE CipherSound'
  OBVIOUS
<1>1. CASE UNCHANGED vars
  BY <1>1 DEF vars, CipherSound, WritesKey, Rows, Exists, history
<1>2. ASSUME NEW t \in Threads, NEW k \in Task, k.pc \notin {"commit", "write"}, Begin(t, k),
             UNCHANGED <<keys, files, broken>>
      PROVE  CipherSound'
  <2>1. \A u \in Threads : \/ task'[u].pc \notin {"commit", "write"}
                           \/ /\ task'[u].pc = task[u].pc /\ task'[u].file = task[u].file
                              /\ task'[u].cipher = task[u].cipher
    <3>1. task \in [Threads -> Task]
      BY DEF Types, TasksOK
    <3>2. PICK b \in BOOLEAN : task'[t] = [k EXCEPT !.mixed = b]
      BY <1>2, <3>1, BeginTypes
    <3>3. \A u \in Threads \ {t} : task'[u] = task[u] \/ task'[u] = [task[u] EXCEPT !.mixed = TRUE]
      BY <1>2, <3>1, BeginTypes
    <3>4. task'[t].pc = k.pc
      BY <3>2 DEF Task
    <3>5. ASSUME NEW u \in Threads \ {t}
          PROVE  /\ task'[u].pc = task[u].pc /\ task'[u].file = task[u].file
                 /\ task'[u].cipher = task[u].cipher
      <4>1. task[u] \in Task
        BY <3>1
      <4>2. QED
        BY <3>3, <4>1 DEF Task
    <3>6. QED
      BY <1>2, <3>4, <3>5
  <2>2. QED
    BY <1>2, <2>1, CipherFrame DEF Rows, Exists
<1>3. CASE KeysNext \/ FilesNext
  BY <1>2, <1>3, Requests DEF Taken, Threads
<1>4. CASE \E custom \in BOOLEAN : ReplaceMappings(custom)
  BY <1>4 DEF ReplaceMappings, CipherSound, WritesKey, Rows, Exists
<1>5. ASSUME NEW t \in Handlers, Step(t) PROVE CipherSound'
  <2>1. ASSUME NEW k, Continue(t, k), k.pc \notin {"commit", "write"}, broken' = broken, files' = files,
               \A id \in Rows' : id \in Rows /\ keys'[id].cipher = keys[id].cipher
        PROVE  CipherSound'
    <3>1. \A u \in Threads : task'[u] = IF u = t THEN k ELSE task[u]
      BY <2>1, ContinueAt DEF Threads
    <3>2. QED
      BY <2>1, <3>1, CipherFrame
  <2>2. task[t] \in Task
    BY DEF Types, TasksOK, Threads
  <2>3. CASE KeyExists(t)
    <3> DEFINE k == IF files["cipher"] = Absent
                    THEN [task[t] EXCEPT !.pc = "open", !.file = "cipher", !.data = {task[t].request}]
                    ELSE [task[t] EXCEPT !.pc = "key_read"]
    <3>1. k.pc \in {"open", "key_read"}
      BY <2>2 DEF Task
    <3>2. Continue(t, k) /\ UNCHANGED <<keys, files, broken>>
      BY <2>3 DEF KeyExists, history
    <3>3. QED
      BY <2>1, <3>1, <3>2 DEF Rows, Exists
  <2>4. CASE PresetsExist(t)
    <3> DEFINE k == IF files["presets"] = Absent
                    THEN [task[t] EXCEPT !.pc = "open", !.file = "presets", !.data = {DEFAULTS}]
                    ELSE [task[t] EXCEPT !.pc = "presets_read"]
    <3>1. k.pc \in {"open", "presets_read"}
      BY <2>2 DEF Task
    <3>2. Continue(t, k) /\ UNCHANGED <<keys, files, broken>>
      BY <2>4 DEF PresetsExist, history
    <3>3. QED
      BY <2>1, <3>1, <3>2 DEF Rows, Exists
  <2>5. CASE PresetsRead(t)
    <3> DEFINE k == IF files["presets"].state = "whole" /\ task[t].op = "preset"
                    THEN [task[t] EXCEPT !.pc = "open", !.file = "presets",
                                         !.data = files["presets"].data \cup {task[t].request}]
                    ELSE NoTask
    <3>1. k.pc \in {"open", "idle"}
      BY <2>2 DEF Task, NoTask
    <3>2. Continue(t, k) /\ UNCHANGED <<keys, files, broken>>
      BY <2>5 DEF PresetsRead, history
    <3>3. QED
      BY <2>1, <3>1, <3>2 DEF Rows, Exists
  <2>6. CASE LoadOthers(t)
    <3> DEFINE k == [task[t] EXCEPT !.pc = "key_exists",
                         !.others = {id \in Rows \ {task[t].id} : keys[id].active}]
    <3>1. k.pc = "key_exists"
      BY <2>2 DEF Task
    <3>2. Continue(t, k) /\ UNCHANGED <<keys, files, broken>>
      BY <2>6 DEF LoadOthers, history
    <3>3. QED
      BY <2>1, <3>1, <3>2 DEF Rows, Exists
  <2>7. CASE MarkTest(t)
    <3>1. \A id \in Rows' : id \in Rows /\ keys'[id].cipher = keys[id].cipher
      BY <2>7 DEF MarkTest, Rows, Exists, Types, TypeOK
    <3>2. QED
      BY <2>1, <2>7, <3>1 DEF MarkTest, NoTask, history
  <2>8. CASE CommitDelete(t)
    <3>1. \A i \in Rows' : i \in Rows /\ keys'[i] = keys[i]
      BY <2>8 DEF CommitDelete, Rows, Exists, Types, TypeOK
    <3>2. QED
      BY <2>1, <2>8, <3>1 DEF CommitDelete, NoTask
  <2>9. QED
    BY <1>5, <2>3, <2>4, <2>5, <2>6, <2>7, <2>8, CipherKeyRead, CipherOpen, CipherWrite, CipherCommit
       DEF Step
<1>6. ASSUME NEW s \in Starters, Start(s) PROVE CipherSound'
  <2> DEFINE k == [NoTask EXCEPT !.op = "startup",
                       !.pc = IF mappings.defaults = 0 /\ ~mappings.custom THEN "seed" ELSE "serve"]
  <2>1. k \in Task /\ k.pc \in {"seed", "serve"}
    BY NoTaskType DEF Task, Pcs, NoTask
  <2>2. Begin(s, k) /\ UNCHANGED <<keys, files, broken>> /\ s \in Threads
    BY <1>6 DEF Start, Threads
  <2> HIDE DEF k
  <2>3. QED
    BY <1>2, <2>1, <2>2
<1>7. ASSUME NEW s \in Starters, Serve(s) PROVE CipherSound'
  <2>1. \A u \in Threads : task'[u] = IF u = s THEN NoTask ELSE task[u]
    BY <1>7, ContinueAt DEF Serve, Threads
  <2>2. QED
    BY <1>7, <2>1, CipherFrame DEF Serve, NoTask, Rows, Exists, history
<1>8. CASE Crash
  <2>1. \A u \in Threads : task'[u] = NoTask
    BY <1>8 DEF Crash
  <2>2. QED
    BY <1>8, <2>1, CipherFrame DEF Crash, NoTask, Rows, Exists
<1>9. QED
  BY <1>1, <1>3, <1>4, <1>5, <1>6, <1>7, <1>8 DEF Next

\* list_api_keys can read every secret, for any number of threads and restarts, unless a first
\* use of the cipher overlapped another or was cut short.
THEOREM SecretsAreReadableCorrect == Spec => []SecretsAreReadable
<1>1. Init => CipherSound
  BY DEF Init, CipherSound, WritesKey, Rows, Exists, NoTask
<1>2. Spec => []Types
  BY TypesInit, TypesNext, PTL DEF Spec
<1>3. Types /\ CipherSound /\ [Next]_vars => CipherSound'
  BY CipherNext
<1>4. CipherSound => SecretsAreReadable
  BY DEF CipherSound, SecretsAreReadable
<1>5. QED
  BY <1>1, <1>2, <1>3, <1>4, PTL DEF Spec

-----------------------------------------------------------------------------
(* The mappings are not mixed *)

\* Why not: of two copies one has come up before the other counts, and nothing is added
\* between a count and the seeding.
MappingsSound ==
    "mappings" \notin tangled =>
        /\ mappings.defaults <= 1 /\ ~(mappings.defaults = 1 /\ mappings.custom)
        /\ \A s, u \in Starters : ~Idle(s) /\ ~Idle(u) => s = u
        /\ \A s \in Starters : task[s].pc = "seed" => mappings.defaults = 0 /\ ~mappings.custom

\* Handlers leave the starters' tasks and the mappings alone.
LEMMA StartersFrame ==
    ASSUME Types, NEW t \in Handlers, (\E k \in Task : Taken(t, k)) \/ Step(t)
    PROVE  \A s \in Starters : task'[s] = task[s]
<1> TAKE s \in Starters
<1>1. s \in Threads \ {t} /\ ~UsesPresets(task[s]) /\ task \in [Threads -> Task] /\ t \in Threads
  BY SettingsAssumption DEF Types, TasksOK, Threads, Idle, UsesPresets, StartupTask, NoTask
<1>2. CASE \E k \in Task : Taken(t, k)
  BY <1>1, <1>2, BeginTypes DEF Taken
<1>3. CASE Step(t)
  <2>1. \E k : Continue(t, k)
    BY <1>3 DEF Step, KeyExists, KeyRead, PresetsExist, PresetsRead, Open, Write, LoadOthers,
               CommitCreate, CommitUpdate, MarkTest, CommitDelete
  <2>2. QED
    BY <1>1, <2>1, ContinueAt
<1>4. QED
  BY <1>2, <1>3

\* Every step keeps what the mappings rely on.
LEMMA MappingsNext == Types /\ MappingsSound /\ [Next]_vars => MappingsSound'
<1> SUFFICES ASSUME Types, MappingsSound, [Next]_vars PROVE MappingsSound'
  OBVIOUS
<1>1. ASSUME mappings' = mappings, tangled \subseteq tangled', \A s \in Starters : task'[s] = task[s]
      PROVE  MappingsSound'
  BY <1>1 DEF MappingsSound, Idle
<1>2. CASE UNCHANGED vars
  BY <1>1, <1>2 DEF vars, history
<1>3. CASE KeysNext \/ FilesNext
  <2>1. ASSUME NEW t \in Handlers, NEW k \in Task, Taken(t, k) PROVE MappingsSound'
    BY <1>1, <2>1, StartersFrame DEF Taken, Begin
  <2>2. QED
    BY <1>3, <2>1, Requests
<1>4. ASSUME NEW custom \in BOOLEAN, ReplaceMappings(custom) PROVE MappingsSound'
  <2>1. mappings' = [defaults |-> 0, custom |-> custom] /\ task' = task
    BY <1>4 DEF ReplaceMappings
  <2>2. "mappings" \notin tangled' => \A s \in Starters : Idle(s)
    BY <1>4 DEF ReplaceMappings
  <2>3. QED
    BY <2>1, <2>2, NoTaskIdle DEF MappingsSound, Idle
<1>5. ASSUME NEW t \in Handlers, Step(t) PROVE MappingsSound'
  <2>1. mappings' = mappings /\ tangled' = tangled
    BY <1>5 DEF Step, KeyExists, KeyRead, PresetsExist, PresetsRead, Open, Write, LoadOthers,
               CommitCreate, CommitUpdate, MarkTest, CommitDelete, bounds, history
  <2>2. QED
    BY <1>1, <1>5, <2>1, StartersFrame
<1>6. ASSUME NEW s \in Starters, Start(s), "mappings" \notin tangled' PROVE MappingsSound'
  <2> DEFINE k == [NoTask EXCEPT !.op = "startup",
                       !.pc = IF mappings.defaults = 0 /\ ~mappings.custom THEN "seed" ELSE "serve"]
  <2>1. k \in Task /\ k.op = "startup"
        /\ (k.pc = "seed" => mappings.defaults = 0 /\ ~mappings.custom)
    BY NoTaskType DEF Task, Pcs, NoTask
  <2>2. Begin(s, k) /\ mappings' = mappings
    BY <1>6 DEF Start
  <2> HIDE DEF k
  <2>3. "mappings" \notin Tangles(k) /\ "mappings" \notin tangled
    BY <1>6, <2>2 DEF Begin
  <2>4. \A u \in Threads : task[u].op # "startup"
    BY <2>1, <2>3 DEF Tangles
  <2>5. \A u \in Starters : task[u] = NoTask
    BY <2>4 DEF Types, TasksOK, Idle, StartupTask, Threads
  <2>6. \A u \in Starters \ {s} : task'[u] = NoTask
    <3>1. \A u \in Starters \ {s} : ~UsesPresets(task[u]) /\ u \in Threads \ {s}
      BY <2>5 DEF UsesPresets, NoTask, Threads
    <3>2. QED
      BY <2>1, <2>2, <2>5, <3>1, BeginTypes DEF Types, TasksOK, Threads
  <2>7. task'[s].pc = k.pc
    <3>1. PICK b \in BOOLEAN : task'[s] = [k EXCEPT !.mixed = b]
      BY <2>1, <2>2, BeginTypes DEF Types, TasksOK, Threads
    <3>2. QED
      BY <2>1, <3>1 DEF Task
  <2>8. mappings.defaults <= 1 /\ ~(mappings.defaults = 1 /\ mappings.custom)
    BY <2>3 DEF MappingsSound
  <2>9. \A u \in Starters : (~Idle(u)' => u = s) /\ (task'[u].pc = "seed" => u = s)
    BY <2>6, NoTaskIdle DEF Idle
  <2>10. QED
    BY <2>1, <2>2, <2>7, <2>8, <2>9 DEF MappingsSound
<1>7. ASSUME NEW s \in Starters, Serve(s), "mappings" \notin tangled PROVE MappingsSound'
  <2>1. /\ task'[s] = NoTask /\ \A u \in Starters \ {s} : task'[u] = task[u]
        /\ tangled' = tangled
    BY <1>7, ContinueAt DEF Serve, Threads, history
  <2>2. task[s] # NoTask /\ \A u \in Starters \ {s} : task[u] = NoTask
    BY <1>7, NoTaskIdle DEF Serve, MappingsSound, Idle
  <2>3. \A u \in Starters : task'[u] = NoTask
    BY <2>1, <2>2
  <2>4. mappings'.defaults <= 1 /\ ~(mappings'.defaults = 1 /\ mappings'.custom)
    BY <1>7 DEF Serve, MappingsSound, Types, TypeOK
  <2>5. QED
    BY <2>3, <2>4, NoTaskIdle DEF MappingsSound, Idle
<1>8. CASE Crash
  <2>1. \A u \in Starters : task'[u] = NoTask
    BY <1>8 DEF Crash, Threads
  <2>2. QED
    BY <1>8, <2>1, NoTaskIdle DEF Crash, MappingsSound, Idle
<1>9. CASE "mappings" \in tangled'
  BY <1>9 DEF MappingsSound
<1>10. "mappings" \in tangled => "mappings" \in tangled' \/ ~(\E s \in Starters : Serve(s))
  BY DEF Serve, history
<1>11. QED
  BY <1>2, <1>3, <1>4, <1>5, <1>6, <1>7, <1>8, <1>9, <1>10 DEF Next

\* The default mappings are there once at most, and not beside the user's, however often copies
\* of the app start, unless two start together or the user replaces the mappings meanwhile.
THEOREM MappingsNotMixedCorrect == Spec => []MappingsNotMixed
<1>1. Init => MappingsSound
  BY DEF Init, MappingsSound, Idle, NoTask, Threads
<1>2. Spec => []Types
  BY TypesInit, TypesNext, PTL DEF Spec
<1>3. Types /\ MappingsSound /\ [Next]_vars => MappingsSound'
  BY MappingsNext
<1>4. MappingsSound => MappingsNotMixed
  BY DEF MappingsSound, MappingsNotMixed
<1>5. QED
  BY <1>1, <1>2, <1>3, <1>4, PTL DEF Spec

-----------------------------------------------------------------------------
(* Presets are kept *)

HoldsPresets(t) == task[t].pc \in {"open", "write"} /\ task[t].file = "presets"
WritesPresets(t) == task[t].pc = "write" /\ task[t].file = "presets"
Due == {DEFAULTS} \cup alone

\* Who is not mixed is alone with the presets.
Unmixed ==
    \A t, u \in Threads :
        UsesPresets(task[t]) /\ UsesPresets(task[u]) /\ ~task[t].mixed => t = u

\* Why they are kept: whatever is about to be written holds them, since none was created beside
\* it and alone.
PresetsSound ==
    /\ Unmixed
    /\ "presets" \notin broken =>
         /\ \A t \in Threads : WritesPresets(t) => files["presets"].state = "empty"
         /\ \A t, u \in Threads : WritesPresets(t) /\ WritesPresets(u) => t = u
         /\ \A t \in Threads : HoldsPresets(t) => Due \subseteq task[t].data
         /\ \/ \E t \in Threads : WritesPresets(t)
            \/ files["presets"] = Absent /\ alone = {}
            \/ files["presets"].state = "whole" /\ Due \subseteq files["presets"].data

\* Steps that leave the presets, and who has them at hand, alone.
LEMMA PresetsFrame ==
    ASSUME PresetsSound, broken \subseteq broken', files'["presets"] = files["presets"], alone' = alone,
           \A u \in Threads :
              \/ task'[u] = task[u]
              \/ task'[u].op \notin {"preset", "list_presets"} /\ ~WritesPresets(u) /\ ~HoldsPresets(u)'
    PROVE  PresetsSound'
<1>1. Unmixed'
  BY DEF PresetsSound, Unmixed, UsesPresets
<1>2. ASSUME NEW u \in Threads
      PROVE  /\ WritesPresets(u)' <=> WritesPresets(u)
             /\ HoldsPresets(u)' => HoldsPresets(u) /\ task'[u] = task[u]
  BY DEF WritesPresets, HoldsPresets
<1>3. Due' = Due
  BY DEF Due
<1>4. QED
  BY <1>1, <1>2, <1>3 DEF PresetsSound

\* A step of a task that has to do with presets, short of the file's opening and writing.
LEMMA PresetsStep ==
    ASSUME Types, PresetsSound, NEW t \in Handlers, NEW k, Continue(t, k),
           k = NoTask \/ (k.mixed = task[t].mixed /\ k.op = task[t].op),
           ~WritesPresets(t), k.pc # "write", UNCHANGED <<files, alone, broken>>,
           k.pc = "open" /\ k.file = "presets" /\ "presets" \notin broken => Due \subseteq k.data
    PROVE  PresetsSound'
<1>1. \A u \in Threads : task'[u] = IF u = t THEN k ELSE task[u]
  BY ContinueAt DEF Threads
<1>2. Unmixed'
  BY <1>1, NoTaskIdle DEF PresetsSound, Unmixed, UsesPresets
<1>3. \A u \in Threads : /\ WritesPresets(u)' <=> WritesPresets(u)
                         /\ HoldsPresets(u)' /\ u # t => HoldsPresets(u) /\ task'[u] = task[u]
  BY <1>1 DEF WritesPresets, HoldsPresets
<1>4. HoldsPresets(t)' /\ "presets" \notin broken => Due \subseteq task'[t].data
  BY <1>1 DEF HoldsPresets, Threads
<1>5. Due' = Due
  BY DEF Due
<1>6. QED
  BY <1>2, <1>3, <1>4, <1>5 DEF PresetsSound

\* A new task about the presets marks as mixed whom it overlaps.
LEMMA PresetsTaken ==
    ASSUME Types, PresetsSound, NEW t \in Handlers, NEW k \in Task, Taken(t, k) PROVE PresetsSound'
<1>1. Begin(t, k) /\ HandlerTask(k) /\ Idle(t) /\ t \in Threads /\ task \in [Threads -> Task]
  BY DEF Taken, Begin, Threads, Types, TasksOK
<1>2. \A u \in Threads : task'[u] =
          IF u = t THEN [k EXCEPT !.mixed = UsesPresets(k) /\ \E v \in Threads : UsesPresets(task[v])]
          ELSE IF UsesPresets(k) /\ UsesPresets(task[u]) THEN [task[u] EXCEPT !.mixed = TRUE]
          ELSE task[u]
  BY <1>1 DEF Begin
<1>3. \A u \in Threads \ {t} : /\ UsesPresets(task'[u]) <=> UsesPresets(task[u])
                               /\ UsesPresets(k) /\ UsesPresets(task[u]) => task'[u].mixed
                               /\ ~UsesPresets(k) => task'[u] = task[u]
                               /\ task'[u].pc = task[u].pc /\ task'[u].file = task[u].file
                               /\ task'[u].data = task[u].data
  <2> TAKE u \in Threads \ {t}
  <2>1. task[u] \in Task
    BY <1>1
  <2>2. task'[u] = task[u] \/ (UsesPresets(k) /\ task'[u] = [task[u] EXCEPT !.mixed = TRUE])
    BY <1>2
  <2>3. UsesPresets(k) /\ UsesPresets(task[u]) => task'[u] = [task[u] EXCEPT !.mixed = TRUE]
    BY <1>2
  <2>4. QED
    BY <2>1, <2>2, <2>3 DEF Task, UsesPresets
<1>4. PICK b \in BOOLEAN : task'[t] = [k EXCEPT !.mixed = b]
  BY <1>1, BeginTypes
<1>5. /\ UsesPresets(task'[t]) <=> UsesPresets(k)
      /\ task'[t].pc = k.pc /\ task'[t].file = k.file
  BY <1>4 DEF Task, UsesPresets
<1>6. (\E v \in Threads \ {t} : UsesPresets(task[v])) /\ UsesPresets(k) => task'[t].mixed
  <2> SUFFICES ASSUME \E v \in Threads \ {t} : UsesPresets(task[v]), UsesPresets(k) PROVE task'[t].mixed
    OBVIOUS
  <2>1. task'[t] = [k EXCEPT !.mixed = UsesPresets(k) /\ \E v \in Threads : UsesPresets(task[v])]
    BY <1>1, <1>2
  <2>2. (UsesPresets(k) /\ \E v \in Threads : UsesPresets(task[v])) = TRUE
    BY DEF UsesPresets
  <2>3. task'[t] = [k EXCEPT !.mixed = TRUE]
    BY <2>1, <2>2
  <2>4. QED
    BY <2>3 DEF Task
<1>7. Unmixed'
  BY <1>1, <1>3, <1>5, <1>6 DEF PresetsSound, Unmixed
<1>8. k.pc # "write" /\ (k.pc = "open" => k.file # "presets") /\ task[t].pc = "idle"
  BY <1>1, NoTaskIdle DEF Taken, Idle
<1>9. \A u \in Threads : /\ WritesPresets(u)' <=> WritesPresets(u)
                         /\ HoldsPresets(u)' => HoldsPresets(u) /\ task'[u].data = task[u].data
  BY <1>3, <1>5, <1>8 DEF WritesPresets, HoldsPresets
<1>10. UNCHANGED <<files, broken, alone>> /\ Due' = Due
  BY DEF Taken, Due
<1>11. QED
  BY <1>7, <1>9, <1>10 DEF PresetsSound

\* Opening the presets leaves them to one writer, or breaks them.
LEMMA PresetsOpen ==
    ASSUME Types, PresetsSound, NEW t \in Handlers, Open(t) PROVE PresetsSound'
<1>1. HandlerTask(task[t]) /\ task[t].pc = "open" /\ t \in Threads /\ task[t] \in Task
  BY HandlerAt DEF Open, Threads, HandlerTask
<1>2. \A u \in Threads : task'[u] = IF u = t THEN [task[t] EXCEPT !.pc = "write"] ELSE task[u]
  BY <1>1, ContinueAt DEF Open
<1>3. \A u \in Threads : /\ task'[u].op = task[u].op /\ task'[u].mixed = task[u].mixed
                         /\ task'[u].data = task[u].data /\ task'[u].file = task[u].file
                         /\ HoldsPresets(u)' <=> HoldsPresets(u)
                         /\ u # t => (WritesPresets(u)' <=> WritesPresets(u))
  <2>1. [task[t] EXCEPT !.pc = "write"].op = task[t].op /\ [task[t] EXCEPT !.pc = "write"].mixed = task[t].mixed
        /\ [task[t] EXCEPT !.pc = "write"].data = task[t].data /\ [task[t] EXCEPT !.pc = "write"].file = task[t].file
        /\ [task[t] EXCEPT !.pc = "write"].pc = "write"
    BY <1>1 DEF Task
  <2>2. QED
    BY <1>1, <1>2, <2>1 DEF HoldsPresets, WritesPresets
<1>4. Unmixed'
  BY <1>3 DEF PresetsSound, Unmixed, UsesPresets
<1>5. broken \subseteq broken' /\ alone' = alone /\ Due' = Due
  BY DEF Open, Due
<1>6. CASE task[t].file = "presets" /\ "presets" \notin broken'
  <2>1. \A u \in Threads \ {t} : ~WritesPresets(u)
    BY <1>6 DEF Open, WritesPresets
  <2>2. files'["presets"].state = "empty"
    BY <1>6 DEF Open, Types, TypeOK, File
  <2>3. WritesPresets(t)'
    BY <1>1, <1>2, <1>6 DEF WritesPresets, Task
  <2>4. QED
    BY <1>1, <1>3, <1>4, <1>5, <2>1, <2>2, <2>3 DEF PresetsSound
<1>7. CASE task[t].file # "presets"
  <2>1. files'["presets"] = files["presets"]
    BY <1>1, <1>7 DEF Open, Types, TypeOK, File
  <2>2. ~WritesPresets(t) /\ ~WritesPresets(t)'
    BY <1>1, <1>3, <1>7 DEF WritesPresets
  <2>3. QED
    BY <1>1, <1>3, <1>4, <1>5, <2>1, <2>2 DEF PresetsSound
<1>8. QED
  BY <1>4, <1>6, <1>7 DEF PresetsSound

\* That writer writes every preset that is there, and its own.
LEMMA PresetsWrite ==
    ASSUME Types, PresetsSound, NEW t \in Handlers, Write(t) PROVE PresetsSound'
<1> DEFINE f == task[t].file
           k == CASE f = "cipher"              -> WithKey(task[t], task[t].request)
                  [] task[t].data = {DEFAULTS} -> [task[t] EXCEPT !.pc = "presets_read"]
                  [] OTHER                     -> NoTask
<1>1. HandlerTask(task[t]) /\ task[t].pc = "write" /\ t \in Threads /\ task[t] \in Task
  BY HandlerAt DEF Write, Threads, HandlerTask
<1>2. Continue(t, k) /\ broken' = broken
  BY DEF Write
<1>3. \A u \in Threads : task'[u] = IF u = t THEN k ELSE task[u]
  BY <1>1, <1>2, ContinueAt
<1>4. CASE f # "presets"
  <2>1. task[t].op \notin {"preset", "list_presets"}
    BY <1>1, <1>4 DEF HandlerTask, KeyTask, PresetTask, PollingTask, DeleteTask
  <2>2. files'["presets"] = files["presets"] /\ alone' = alone
    BY <1>1, <1>4, <2>1 DEF Write, Types, TypeOK, File
  <2>3. k.op \notin {"preset", "list_presets"} /\ k.pc \notin {"open", "write"}
    <3>1. CASE f = "cipher"
      <4>1. KeyTask(task[t]) /\ task[t].data = {task[t].request} /\ task[t].request \in Request
        BY <1>1, <3>1 DEF HandlerTask, KeyTask, PresetTask, PollingTask, DeleteTask
      <4>2. task[t].data # {DEFAULTS} /\ task[t].use \in {"encrypt", "decrypt"}
        BY <1>1, <4>1, SettingsAssumption DEF DEFAULTS, Request, Task
      <4>3. k = WithKey(task[t], task[t].request)
        BY <3>1, <4>2
      <4> HIDE DEF k
      <4>4. QED
        BY <1>1, <2>1, <4>2, <4>3, NoTaskIdle DEF WithKey, Task
    <3>2. CASE f # "cipher"
      BY <1>1, <2>1, <3>2, NoTaskIdle DEF Task
    <3>3. QED
      BY <3>1, <3>2
  <2> HIDE DEF k
  <2>4. QED
    BY <1>2, <1>3, <1>4, <2>2, <2>3, PresetsFrame DEF WritesPresets, HoldsPresets
<1>5. CASE f = "presets"
  <2>1. UsesPresets(task[t]) /\ (task[t].data = {DEFAULTS} \/ (task[t].op = "preset" /\ task[t].request \in task[t].data))
    BY <1>1, <1>5 DEF HandlerTask, KeyTask, PresetTask, PollingTask, DeleteTask
  <2>2. /\ k = NoTask \/ (k.op = task[t].op /\ k.mixed = task[t].mixed)
        /\ k.pc \notin {"open", "write"}
    BY <1>1, <1>5, NoTaskIdle DEF Task
  <2> HIDE DEF k
  <2>3. Unmixed'
    BY <1>3, <2>2, NoTaskIdle DEF PresetsSound, Unmixed, UsesPresets
  <2>4. ASSUME "presets" \notin broken PROVE PresetsSound'
    <3>1. WritesPresets(t) /\ HoldsPresets(t)
      BY <1>1, <1>5 DEF WritesPresets, HoldsPresets
    <3>2. files["presets"].state = "empty" /\ Due \subseteq task[t].data
      BY <1>1, <2>4, <3>1 DEF PresetsSound
    <3>3. files'["presets"] = Whole(task[t].data)
      BY <1>5, <3>2 DEF Write, Types, TypeOK, File
    <3>4. \A u \in Threads : ~WritesPresets(u)'
      BY <1>1, <1>3, <2>2, <2>4, <3>1 DEF PresetsSound, WritesPresets
    <3>5. alone' \subseteq alone \cup {task[t].request}
          /\ (alone' # alone => task[t].data # {DEFAULTS} /\ ~task[t].mixed)
      BY DEF Write
    <3>6. Due' \subseteq task[t].data
      BY <2>1, <3>2, <3>5 DEF Due
    <3>7. ASSUME NEW u \in Threads, HoldsPresets(u)' PROVE Due' \subseteq task'[u].data
      <4>1. u # t /\ task'[u] = task[u] /\ HoldsPresets(u)
        BY <1>3, <2>2, <3>7 DEF HoldsPresets
      <4>2. UsesPresets(task[u])
        <5>1. task[u].pc \notin {"idle", "seed", "serve"} /\ task[u].file = "presets"
                /\ task[u].pc \in {"open", "write"}
          BY <4>1 DEF HoldsPresets
        <5>2. u \in Handlers
          BY <5>1, NoTaskIdle DEF Types, TasksOK, Threads, Idle, StartupTask
        <5>3. QED
          BY <5>1, <5>2, HandlerAt DEF HandlerTask, KeyTask, PresetTask, PollingTask, DeleteTask
      <4>3. task[t].mixed
        BY <1>1, <2>1, <4>1, <4>2 DEF PresetsSound, Unmixed
      <4>4. alone' = alone
        BY <3>5, <4>3
      <4>5. QED
        BY <2>4, <4>1, <4>4 DEF PresetsSound, Due
    <3>8. QED
      BY <1>2, <2>3, <3>3, <3>4, <3>6, <3>7, WholeState DEF PresetsSound
  <2>5. QED
    BY <1>2, <2>3, <2>4 DEF PresetsSound
<1>6. QED
  BY <1>4, <1>5

\* Every step keeps what the presets rely on.
LEMMA PresetsNext == Types /\ PresetsSound /\ [Next]_vars => PresetsSound'
<1> SUFFICES ASSUME Types, PresetsSound, [Next]_vars PROVE PresetsSound'
  OBVIOUS
<1>1. CASE UNCHANGED <<task, files, alone, broken>>
  BY <1>1, PresetsFrame
<1>2. CASE KeysNext \/ FilesNext
  BY <1>2, Requests, PresetsTaken
<1>3. CASE \E custom \in BOOLEAN : ReplaceMappings(custom)
  BY <1>1, <1>3 DEF ReplaceMappings
<1>4. ASSUME NEW t \in Handlers, Step(t) PROVE PresetsSound'
  <2>1. task[t] \in Task /\ t \in Threads
    BY DEF Types, TasksOK, Threads
  <2>2. ASSUME NEW k, Continue(t, k), k = NoTask \/ (k.mixed = task[t].mixed /\ k.op = task[t].op),
               task[t].pc # "write", k.pc # "write", UNCHANGED <<files, alone, broken>>,
               k.pc = "open" => k.file # "presets"
        PROVE  PresetsSound'
    BY <2>2, PresetsStep DEF WritesPresets
  <2>3. CASE KeyExists(t)
    <3> DEFINE k == IF files["cipher"] = Absent
                    THEN [task[t] EXCEPT !.pc = "open", !.file = "cipher", !.data = {task[t].request}]
                    ELSE [task[t] EXCEPT !.pc = "key_read"]
    <3>1. /\ k.mixed = task[t].mixed /\ k.op = task[t].op /\ k.pc # "write"
          /\ k.pc = "open" => k.file # "presets"
      BY <2>1 DEF Task
    <3>2. Continue(t, k) /\ UNCHANGED <<files, alone, broken>> /\ task[t].pc # "write"
      BY <2>3 DEF KeyExists, history
    <3>3. QED
      BY <2>2, <3>1, <3>2
  <2>4. CASE KeyRead(t)
    <3> DEFINE key == CHOOSE c \in files["cipher"].data : TRUE
               k == IF files["cipher"].state = "whole" THEN WithKey(task[t], key) ELSE NoTask
    <3>1. task[t].use \in {"encrypt", "decrypt"}
      BY <2>1 DEF Task
    <3>2. ASSUME NEW c PROVE /\ \/ WithKey(task[t], c) = NoTask
                                \/ /\ WithKey(task[t], c).mixed = task[t].mixed
                                   /\ WithKey(task[t], c).op = task[t].op
                             /\ WithKey(task[t], c).pc \notin {"open", "write"}
      BY <2>1, <3>1, NoTaskIdle DEF WithKey, Task
    <3>3. /\ k = NoTask \/ (k.mixed = task[t].mixed /\ k.op = task[t].op)
          /\ k.pc \notin {"open", "write"}
      BY <3>2, NoTaskIdle
    <3>4. Continue(t, k) /\ UNCHANGED <<files, alone, broken>> /\ task[t].pc # "write"
      BY <2>4 DEF KeyRead, history
    <3> HIDE DEF k
    <3>5. QED
      BY <2>2, <3>3, <3>4
  <2>5. CASE PresetsExist(t)
    <3> DEFINE k == IF files["presets"] = Absent
                    THEN [task[t] EXCEPT !.pc = "open", !.file = "presets", !.data = {DEFAULTS}]
                    ELSE [task[t] EXCEPT !.pc = "presets_read"]
    <3>1. k.mixed = task[t].mixed /\ k.op = task[t].op /\ k.pc # "write"
      BY <2>1 DEF Task
    <3>2. Continue(t, k) /\ UNCHANGED <<files, alone, broken>> /\ ~WritesPresets(t)
      BY <2>5 DEF PresetsExist, history, WritesPresets
    <3>3. k.pc = "open" => files["presets"].state = "absent" /\ k.data = {DEFAULTS}
      BY <2>1 DEF Task, Absent
    <3>4. k.pc = "open" /\ "presets" \notin broken => Due \subseteq k.data
      <4> HIDE DEF k
      <4>1. QED
        BY <3>3 DEF PresetsSound, Due
    <3> HIDE DEF k
    <3>5. QED
      BY <3>1, <3>2, <3>4, PresetsStep
  <2>6. CASE PresetsRead(t)
    <3> DEFINE d == files["presets"].data \cup {task[t].request}
               k == IF files["presets"].state = "whole" /\ task[t].op = "preset"
                    THEN [task[t] EXCEPT !.pc = "open", !.file = "presets", !.data = d]
                    ELSE NoTask
    <3>1. /\ k = NoTask \/ (k.mixed = task[t].mixed /\ k.op = task[t].op)
          /\ k.pc # "write"
      BY <2>1, NoTaskIdle DEF Task
    <3>2. Continue(t, k) /\ UNCHANGED <<files, alone, broken>> /\ ~WritesPresets(t)
      BY <2>6 DEF PresetsRead, history, WritesPresets
    <3>3. k.pc = "open" => files["presets"].state = "whole" /\ k.data = d
      BY <2>1, NoTaskIdle DEF Task
    <3> HIDE DEF k
    <3>4. k.pc = "open" /\ "presets" \notin broken => Due \subseteq k.data
      <4> SUFFICES ASSUME k.pc = "open", "presets" \notin broken PROVE Due \subseteq k.data
        OBVIOUS
      <4>1. files["presets"].state = "whole" /\ files["presets"] # Absent
        BY <3>3 DEF Absent
      <4>2. Due \subseteq files["presets"].data
        BY <4>1 DEF PresetsSound
      <4>3. QED
        BY <3>3, <4>2
    <3>5. QED
      BY <3>1, <3>2, <3>4, PresetsStep
  <2>7. CASE LoadOthers(t)
    <3> DEFINE k == [task[t] EXCEPT !.pc = "key_exists",
                         !.others = {id \in Rows \ {task[t].id} : keys[id].active}]
    <3>1. k.mixed = task[t].mixed /\ k.op = task[t].op /\ k.pc = "key_exists"
      BY <2>1 DEF Task
    <3>2. Continue(t, k) /\ UNCHANGED <<files, alone, broken>> /\ task[t].pc # "write"
      BY <2>7 DEF LoadOthers, history
    <3>3. QED
      BY <2>2, <3>1, <3>2
  <2>8. CASE CommitCreate(t) \/ CommitUpdate(t) \/ MarkTest(t) \/ CommitDelete(t)
    <3>1. Continue(t, NoTask) /\ UNCHANGED <<files, alone, broken>> /\ task[t].pc # "write"
      BY <2>8 DEF CommitCreate, CommitUpdate, MarkTest, CommitDelete, history
    <3>2. QED
      BY <2>2, <3>1, NoTaskIdle
  <2>9. QED
    BY <1>4, <2>3, <2>4, <2>5, <2>6, <2>7, <2>8, PresetsOpen, PresetsWrite DEF Step
<1>5. ASSUME NEW s \in Starters, Start(s) PROVE PresetsSound'
  <2> DEFINE k == [NoTask EXCEPT !.op = "startup",
                       !.pc = IF mappings.defaults = 0 /\ ~mappings.custom THEN "seed" ELSE "serve"]
  <2>1. k \in Task /\ k.pc \in {"seed", "serve"} /\ k.op = "startup"
    BY NoTaskType DEF Task, Pcs, NoTask
  <2>2. Begin(s, k) /\ UNCHANGED <<files, alone, broken>>
    BY <1>5 DEF Start
  <2>3. ~UsesPresets(k) /\ s \in Threads /\ task \in [Threads -> Task] /\ Idle(s)
    BY <2>1, <2>2 DEF UsesPresets, Begin, Threads, Types, TasksOK
  <2> HIDE DEF k
  <2>4. PICK b \in BOOLEAN : task'[s] = [k EXCEPT !.mixed = b]
    BY <2>1, <2>2, <2>3, BeginTypes
  <2>5. \A u \in Threads \ {s} : task'[u] = task[u]
    BY <2>2, <2>3 DEF Begin
  <2>6. task'[s].op = "startup" /\ task'[s].pc \in {"seed", "serve"}
    BY <2>1, <2>4 DEF Task
  <2>7. QED
    BY <2>2, <2>3, <2>5, <2>6, NoTaskIdle, PresetsFrame DEF WritesPresets, HoldsPresets, Idle
<1>6. ASSUME NEW s \in Starters, Serve(s) PROVE PresetsSound'
  <2>1. \A u \in Threads : task'[u] = IF u = s THEN NoTask ELSE task[u]
    BY <1>6, ContinueAt DEF Serve, Threads
  <2>2. QED
    BY <1>6, <2>1, NoTaskIdle, PresetsFrame DEF Serve, WritesPresets, HoldsPresets, history
<1>7. CASE Crash
  <2>1. \A u \in Threads : task'[u] = NoTask
    BY <1>7 DEF Crash
  <2>2. Unmixed'
    BY <2>1, NoTaskIdle DEF Unmixed, UsesPresets
  <2>3. \A u \in Threads : ~WritesPresets(u)' /\ ~HoldsPresets(u)'
    BY <2>1, NoTaskIdle DEF WritesPresets, HoldsPresets
  <2>4. "presets" \notin broken' => "presets" \notin broken /\ \A u \in Threads : ~WritesPresets(u)
    BY <1>7 DEF Crash, WritesPresets, File
  <2>5. UNCHANGED <<files, alone>> /\ Due' = Due
    BY <1>7 DEF Crash, Due
  <2>6. QED
    BY <2>2, <2>3, <2>4, <2>5 DEF PresetsSound
<1>8. QED
  BY <1>1, <1>2, <1>3, <1>4, <1>5, <1>6, <1>7 DEF Next, vars, history

\* Presets are kept, whoever overlaps later, unless two wrote the file at a time or a crash cut
\* one short.
THEOREM PresetsKeptCorrect == Spec => []PresetsKept
<1>1. Init => PresetsSound
  <2> SUFFICES ASSUME Init PROVE PresetsSound
    OBVIOUS
  <2>1. \A t \in Threads : task[t] = NoTask
    BY DEF Init
  <2>2. files["presets"] = Absent /\ alone = {}
    BY DEF Init, File
  <2>3. QED
    BY <2>1, <2>2, NoTaskIdle DEF PresetsSound, Unmixed, UsesPresets, WritesPresets, HoldsPresets
<1>2. Spec => []Types
  BY TypesInit, TypesNext, PTL DEF Spec
<1>3. Types /\ PresetsSound /\ [Next]_vars => PresetsSound'
  BY PresetsNext
<1>4. PresetsSound => PresetsKept
  BY DEF PresetsSound, PresetsKept, WritesPresets, Due
<1>5. QED
  BY <1>1, <1>2, <1>3, <1>4, PTL DEF Spec

-----------------------------------------------------------------------------
(* The active key is the chosen one *)

Changes(k) == k.op \in {"create", "update"}

\* _deactivate_existing has loaded the other active keys.
Loaded(k) == Changes(k) /\ k.active = "on" /\ k.use = "encrypt" /\ k.pc # "others"

\* What is set at each step of a task that creates or updates a key.
Shape(k) ==
    Changes(k) =>
        /\ k.op = "create" => k.id = 0 /\ k.use = "encrypt"
        /\ k.pc = "commit" => k.use = "encrypt"
        /\ k.pc = "others" => k.active = "on" /\ k.use = "encrypt"
        /\ k.active # "on" => k.others = {}
        /\ k.id \notin k.others

\* What such a task knows is still so: it creates a key newer than every row, the flag it is
\* about to change is as it was read, and it is going to switch off every other active key.
Held(t) ==
    LET k == task[t] IN
    /\ k.op = "create" => k.request <= requests /\ \A id \in Rows : keys[id].key < k.request
    /\ k.op = "update" /\ k.active # "keep" /\ k.id \in Rows =>
          keys[k.id].key = k.read.key /\ keys[k.id].active = k.read.active
    /\ Loaded(k) => \A id \in Rows : keys[id].active /\ id # k.id => id \in k.others

\* Why the active key is the chosen one: one request at a time changes flags, nothing else does
\* meanwhile, and the keys of the rows are different and in an order that leaves an id for a
\* new one.
ActiveSound ==
    /\ \A t \in Threads : Shape(task[t])
    /\ "active" \notin tangled =>
         /\ ActiveKeys = chosen
         /\ \A id \in Rows : id <= keys[id].key /\ keys[id].key <= requests
         /\ \A i, j \in Rows : keys[i].key = keys[j].key => i = j
         /\ \A t, u \in Threads : Activates(task[t]) /\ Activates(task[u]) => t = u
         /\ \A t \in Threads : Held(t)

\* A step of a task that takes what it knows along, or ends it.
Carried(k, j) ==
    \/ ~Changes(j)
    \/ /\ j.op = k.op /\ j.request = k.request /\ j.id = k.id /\ j.read = k.read
       /\ j.active = k.active /\ j.others = k.others
       /\ Loaded(j) => Loaded(k)

\* Steps that leave the flags of the keys alone.
LEMMA ActiveFrame ==
    ASSUME Types, ActiveSound, tangled \subseteq tangled', requests \in Nat, requests' \in {requests, requests + 1},
           chosen' = chosen, Rows' = Rows,
           \A id \in Rows : keys'[id].key = keys[id].key /\ keys'[id].active = keys[id].active,
           \A u \in Threads : Carried(task[u], task'[u]) /\ Shape(task'[u])
    PROVE  ActiveSound'
<1>1. CASE "active" \in tangled'
  BY <1>1 DEF ActiveSound
<1>2. CASE "active" \notin tangled'
  <2>1. /\ ActiveKeys = chosen
        /\ \A id \in Rows : id <= keys[id].key /\ keys[id].key <= requests
        /\ \A i, j \in Rows : keys[i].key = keys[j].key => i = j
        /\ \A t, u \in Threads : Activates(task[t]) /\ Activates(task[u]) => t = u
        /\ \A t \in Threads : Held(t)
    BY <1>2 DEF ActiveSound
  <2>2. ActiveKeys' = chosen'
    BY <2>1 DEF ActiveKeys
  <2>3. \A id \in Rows : keys[id].key \in Nat
    BY SettingsAssumption DEF Types, TypeOK, Request
  <2>4. \A id \in Rows' : id <= keys'[id].key /\ keys'[id].key <= requests'
    BY <2>1, <2>3
  <2>5. \A i, j \in Rows' : keys'[i].key = keys'[j].key => i = j
    BY <2>1
  <2>6. \A u \in Threads : Activates(task'[u]) => Activates(task[u])
    BY DEF Carried, Activates, Changes
  <2>7. ASSUME NEW u \in Threads PROVE Held(u)'
    <3>1. Held(u) /\ Carried(task[u], task'[u])
      BY <2>1
    <3>2. CASE ~Changes(task'[u])
      BY <3>2 DEF Held, Changes, Loaded
    <3>3. CASE Changes(task'[u])
      <4>1. /\ task'[u].op = task[u].op /\ task'[u].request = task[u].request /\ task'[u].id = task[u].id
            /\ task'[u].read = task[u].read /\ task'[u].active = task[u].active
            /\ task'[u].others = task[u].others
            /\ Loaded(task'[u]) => Loaded(task[u])
        BY <3>1, <3>3 DEF Carried
      <4>2. task[u].request \in Nat
        BY SettingsAssumption DEF Types, TypeOK
      <4> HIDE DEF Loaded
      <4>3. QED
        BY <3>1, <4>1, <4>2 DEF Held
    <3>4. QED
      BY <3>2, <3>3
  <2>8. QED
    BY <2>1, <2>2, <2>4, <2>5, <2>6, <2>7 DEF ActiveSound
<1>3. QED
  BY <1>1, <1>2

\* The steps of a request short of its commit.
LEMMA WithKeyCarried ==
    ASSUME NEW k \in Task, Shape(k), k.pc \in {"key_read", "write"}, NEW key \in Bound
    PROVE  Carried(k, WithKey(k, key)) /\ Shape(WithKey(k, key))
<1>1. k.use \in {"encrypt", "decrypt"}
  BY DEF Task
<1>2. CASE k.use = "encrypt"
  <2> DEFINE j == [k EXCEPT !.pc = "commit", !.cipher = key]
  <2>1. WithKey(k, key) = j
    BY <1>2 DEF WithKey
  <2>2. /\ j.op = k.op /\ j.request = k.request /\ j.id = k.id /\ j.read = k.read /\ j.use = k.use
        /\ j.active = k.active /\ j.others = k.others /\ j.pc = "commit"
    BY DEF Task
  <2> HIDE DEF j
  <2>3. QED
    BY <1>2, <2>1, <2>2 DEF Carried, Shape, Loaded, Changes
<1>3. CASE k.use = "decrypt" /\ key # k.read.cipher
  <2>1. WithKey(k, key) = NoTask
    BY <1>3 DEF WithKey
  <2>2. QED
    BY <2>1, NoTaskIdle DEF Carried, Shape, Changes
<1>4. CASE k.use = "decrypt" /\ key = k.read.cipher
  <2> DEFINE j == [k EXCEPT !.use = "encrypt",
                            !.pc = IF k.op = "test" THEN "mark"
                                   ELSE IF k.active = "on" THEN "others" ELSE "key_exists"]
  <2>1. WithKey(k, key) = j
    BY <1>4 DEF WithKey
  <2>2. /\ j.op = k.op /\ j.request = k.request /\ j.id = k.id /\ j.read = k.read /\ j.use = "encrypt"
        /\ j.active = k.active /\ j.others = k.others
        /\ j.pc = IF k.op = "test" THEN "mark" ELSE IF k.active = "on" THEN "others" ELSE "key_exists"
    BY DEF Task
  <2> HIDE DEF j
  <2>3. QED
    BY <1>4, <2>1, <2>2 DEF Carried, Shape, Loaded, Changes
<1>5. QED
  BY <1>1, <1>2, <1>3, <1>4

\* The steps of a request short of its commit, but for loading the other active keys.
LEMMA ActiveStep ==
    ASSUME Types, ActiveSound, NEW t \in Handlers, Step(t),
           ~LoadOthers(t), ~CommitCreate(t), ~CommitUpdate(t), ~CommitDelete(t)
    PROVE  ActiveSound'
<1>1. /\ HandlerTask(task[t]) /\ task[t] \in Task /\ t \in Threads /\ Shape(task[t])
      /\ task[t].op \in {"create", "update"} => KeyTask(task[t])
  <2>1. task[t].pc # "idle"
    BY DEF Step, KeyExists, KeyRead, PresetsExist, PresetsRead, Open, Write, MarkTest
  <2>2. HandlerTask(task[t])
    BY <2>1, HandlerAt
  <2>3. QED
    BY <2>2 DEF HandlerTask, PresetTask, PollingTask, DeleteTask, UsesPresets, Threads, ActiveSound
<1>2. ASSUME NEW k, Continue(t, k), Carried(task[t], k), Shape(k),
             UNCHANGED <<keys, requests, chosen, tangled>>
      PROVE  ActiveSound'
  <2>1. \A u \in Threads : task'[u] = IF u = t THEN k ELSE task[u]
    BY <1>1, <1>2, ContinueAt
  <2>2. \A u \in Threads : Carried(task[u], task[u]) /\ Shape(task[u])
    BY DEF Carried, ActiveSound
  <2>3. requests \in Nat /\ Rows' = Rows
    BY <1>2, SettingsAssumption DEF Types, TypeOK, Rows, Exists
  <2>4. QED
    BY <1>2, <2>1, <2>2, <2>3, ActiveFrame
<1>3. Carried(task[t], NoTask) /\ Shape(NoTask)
  BY NoTaskIdle DEF Carried, Shape, Changes
<1>4. ASSUME NEW k \in Task, task[t].pc # "others", k.pc \notin {"others", "commit"},
             k.op = task[t].op, k.request = task[t].request, k.id = task[t].id, k.read = task[t].read,
             k.active = task[t].active, k.others = task[t].others, k.use = task[t].use
      PROVE  Carried(task[t], k) /\ Shape(k)
  BY <1>1, <1>4 DEF Carried, Shape, Loaded, Changes
<1>5. CASE KeyExists(t)
  <2> DEFINE k == IF files["cipher"] = Absent
                  THEN [task[t] EXCEPT !.pc = "open", !.file = "cipher", !.data = {task[t].request}]
                  ELSE [task[t] EXCEPT !.pc = "key_read"]
  <2>1. /\ k \in Task /\ k.pc \in {"open", "key_read"} /\ task[t].pc = "key_exists"
        /\ k.op = task[t].op /\ k.request = task[t].request /\ k.id = task[t].id /\ k.read = task[t].read
        /\ k.active = task[t].active /\ k.others = task[t].others /\ k.use = task[t].use
    BY <1>1, <1>5 DEF KeyExists, Task, File, Pcs
  <2>2. Continue(t, k) /\ UNCHANGED <<keys, requests, chosen, tangled>>
    BY <1>5 DEF KeyExists, bounds, history, key_history
  <2> HIDE DEF k
  <2>3. QED
    BY <1>2, <1>4, <2>1, <2>2
<1>6. CASE KeyRead(t)
  <2> DEFINE key == CHOOSE c \in files["cipher"].data : TRUE
             k == IF files["cipher"].state = "whole" THEN WithKey(task[t], key) ELSE NoTask
  <2>1. files["cipher"].state = "whole" => key \in Bound
    BY SettingsAssumption DEF Types, CipherOK, Request, Bound
  <2>2. Continue(t, k) /\ UNCHANGED <<keys, requests, chosen, tangled>> /\ task[t].pc = "key_read"
    BY <1>6 DEF KeyRead, bounds, history, key_history
  <2>3. Carried(task[t], k) /\ Shape(k)
    <3> HIDE DEF key
    <3>1. QED
      BY <1>1, <1>3, <2>1, <2>2, WithKeyCarried
  <2> HIDE DEF k
  <2>4. QED
    BY <1>2, <2>2, <2>3
<1>7. CASE PresetsExist(t) \/ PresetsRead(t)
  <2>1. ~Changes(task[t])
    BY <1>1, <1>7 DEF PresetsExist, PresetsRead, KeyTask, Changes
  <2>2. PICK k : Continue(t, k) /\ (k = NoTask \/ k.op = task[t].op)
    <3> DEFINE d == files["presets"].data \cup {task[t].request}
               j == [task[t] EXCEPT !.pc = "open", !.file = "presets", !.data = {DEFAULTS}]
               k == [task[t] EXCEPT !.pc = "open", !.file = "presets", !.data = d]
               l == [task[t] EXCEPT !.pc = "presets_read"]
    <3>1. j.op = task[t].op /\ k.op = task[t].op /\ l.op = task[t].op
      BY <1>1 DEF Task
    <3>2. Continue(t, j) \/ Continue(t, k) \/ Continue(t, l) \/ Continue(t, NoTask)
      BY <1>7 DEF PresetsExist, PresetsRead
    <3> HIDE DEF j, k, l
    <3>3. QED
      BY <3>1, <3>2
  <2>3. Carried(task[t], k) /\ Shape(k)
    BY <1>3, <2>1, <2>2 DEF Carried, Shape, Changes
  <2>4. UNCHANGED <<keys, requests, chosen, tangled>>
    BY <1>7 DEF PresetsExist, PresetsRead, bounds, history, key_history
  <2>5. QED
    BY <1>2, <2>2, <2>3, <2>4
<1>8. CASE Open(t)
  <2> DEFINE k == [task[t] EXCEPT !.pc = "write"]
  <2>1. /\ k \in Task /\ k.pc = "write" /\ task[t].pc = "open"
        /\ k.op = task[t].op /\ k.request = task[t].request /\ k.id = task[t].id /\ k.read = task[t].read
        /\ k.active = task[t].active /\ k.others = task[t].others /\ k.use = task[t].use
    BY <1>1, <1>8 DEF Open, Task, Pcs
  <2>2. Continue(t, k) /\ UNCHANGED <<keys, requests, chosen, tangled>>
    BY <1>8 DEF Open, bounds, key_history
  <2> HIDE DEF k
  <2>3. QED
    BY <1>2, <1>4, <2>1, <2>2
<1>9. CASE Write(t)
  <2> DEFINE k == CASE task[t].file = "cipher"     -> WithKey(task[t], task[t].request)
                    [] task[t].data = {DEFAULTS}   -> [task[t] EXCEPT !.pc = "presets_read"]
                    [] OTHER                       -> NoTask
  <2>1. Continue(t, k) /\ UNCHANGED <<keys, requests, chosen, tangled>> /\ task[t].pc = "write"
    BY <1>9 DEF Write, bounds, key_history
  <2>2. task[t].request \in Bound
    BY <1>1 DEF Task
  <2>3. CASE task[t].file = "cipher"
    <3>1. task[t].data # {DEFAULTS}
      BY <1>1, <2>1, <2>3, SettingsAssumption
         DEF HandlerTask, KeyTask, PresetTask, PollingTask, DeleteTask, DEFAULTS, Request
    <3>2. k = WithKey(task[t], task[t].request)
      BY <2>3, <3>1
    <3>3. Carried(task[t], k) /\ Shape(k)
      BY <1>1, <2>1, <2>2, <3>2, WithKeyCarried
    <3> HIDE DEF k
    <3>4. QED
      BY <1>2, <2>1, <3>3
  <2>4. CASE task[t].file # "cipher"
    <3>1. ~Changes(task[t])
      BY <1>1, <2>4 DEF KeyTask, Changes
    <3>2. k = NoTask \/ k.op = task[t].op
      BY <1>1, <2>4 DEF Task
    <3> HIDE DEF k
    <3>3. Carried(task[t], k) /\ Shape(k)
      BY <1>3, <3>1, <3>2 DEF Carried, Shape, Changes
    <3>4. QED
      BY <1>2, <2>1, <3>3
  <2>5. QED
    BY <2>3, <2>4
<1>10. CASE MarkTest(t)
  <2>1. keys \in [Ids -> Row] /\ \A i \in Rows : keys[i].key \in Request
    BY DEF Types, TypeOK, Row, Bound
  <2>2. /\ \A i \in Ids : keys'[i].key = keys[i].key /\ keys'[i].active = keys[i].active
        /\ \A i \in Ids \ Rows : keys'[i] = keys[i]
    BY <1>10, <2>1 DEF MarkTest, Row, Rows
  <2>3. Rows' = Rows
    <3>1. \A i \in Rows : keys'[i] # NoRow
      BY <2>1, <2>2, SettingsAssumption DEF NoRow, Rows, Request
    <3>2. QED
      BY <2>2, <3>1 DEF Rows, Exists
  <2>4. \A u \in Threads : task'[u] = IF u = t THEN NoTask ELSE task[u]
    BY <1>1, <1>10, ContinueAt DEF MarkTest
  <2>5. \A u \in Threads : Carried(task[u], task'[u]) /\ Shape(task'[u])
    BY <1>3, <2>4 DEF Carried, ActiveSound
  <2>6. requests \in Nat /\ UNCHANGED <<requests, chosen, tangled>>
    BY <1>10, SettingsAssumption DEF MarkTest, Types, TypeOK, bounds, history, key_history
  <2>7. QED
    BY <2>2, <2>3, <2>5, <2>6, ActiveFrame DEF Rows
<1>11. QED
  BY <1>5, <1>6, <1>7, <1>8, <1>9, <1>10 DEF Step

\* _deactivate_existing sees every other active key.
LEMMA ActiveLoad ==
    ASSUME Types, ActiveSound, NEW t \in Handlers, LoadOthers(t) PROVE ActiveSound'
<1> DEFINE k == task[t]
           others == {id \in Rows \ {k.id} : keys[id].active}
           j == [k EXCEPT !.pc = "key_exists", !.others = others]
<1>1. k \in Task /\ t \in Threads /\ KeyTask(k) /\ k.pc = "others" /\ k.op \in {"create", "update"}
  BY HandlerAt DEF LoadOthers, Threads, HandlerTask, KeyTask, PresetTask, PollingTask, DeleteTask
<1>2. k.active = "on" /\ k.use = "encrypt" /\ (k.op = "create" => k.id = 0)
  BY <1>1 DEF ActiveSound, Shape, Changes
<1>3. \A u \in Threads : task'[u] = IF u = t THEN j ELSE task[u]
  BY <1>1, ContinueAt DEF LoadOthers
<1>4. /\ j.op = k.op /\ j.request = k.request /\ j.id = k.id /\ j.read = k.read /\ j.use = k.use
      /\ j.active = k.active /\ j.others = others /\ j.pc = "key_exists"
  BY <1>1 DEF Task
<1>5. UNCHANGED <<keys, requests, chosen, tangled>> /\ Rows' = Rows /\ ActiveKeys' = ActiveKeys
  BY DEF LoadOthers, bounds, history, key_history, Rows, Exists, ActiveKeys
<1> HIDE DEF j, k
<1>6. \A u \in Threads : Shape(task'[u])
  BY <1>2, <1>3, <1>4 DEF ActiveSound, Shape, Changes
<1>7. \A u \in Threads : Activates(task'[u]) <=> Activates(task[u])
  BY <1>3, <1>4 DEF Activates, k
<1>8. ASSUME \A u \in Threads : Held(u), NEW u \in Threads PROVE Held(u)'
  <2>1. CASE u # t
    BY <1>3, <1>5, <1>8, <2>1 DEF Held
  <2>2. CASE u = t
    <3>1. Held(t)
      BY <1>1, <1>8
    <3>2. task'[t] = j
      BY <1>1, <1>3
    <3>3. \A id \in Rows : keys[id].active /\ id # j.id => id \in j.others
      BY <1>4
    <3>4. QED
      BY <1>4, <1>5, <2>2, <3>1, <3>2, <3>3 DEF Held, k
  <2>3. QED
    BY <2>1, <2>2
<1>9. QED
  BY <1>5, <1>6, <1>7, <1>8 DEF ActiveSound

\* A new task of a handler knows what the state is.
LEMMA ActiveBegin ==
    ASSUME Types, ActiveSound, NEW t \in Handlers, NEW k \in Task, Begin(t, k),
           requests' = requests + 1, UNCHANGED <<keys, chosen>>, Shape(k), ~Loaded(k),
           k.op = "create" => k.request = requests + 1,
           k.op = "update" => k.id \in Rows /\ k.read = keys[k.id]
    PROVE  ActiveSound'
<1>1. t \in Threads /\ task \in [Threads -> Task] /\ task[t] = NoTask /\ requests \in Nat
  BY SettingsAssumption DEF Begin, Idle, Types, TypeOK, TasksOK, Threads
<1>2. PICK b \in BOOLEAN : task'[t] = [k EXCEPT !.mixed = b]
  BY <1>1, BeginTypes
<1>3. /\ task'[t].op = k.op /\ task'[t].request = k.request /\ task'[t].id = k.id /\ task'[t].read = k.read
      /\ task'[t].active = k.active /\ task'[t].others = k.others /\ task'[t].use = k.use
      /\ task'[t].pc = k.pc
  BY <1>2 DEF Task
<1>4. ASSUME NEW u \in Threads \ {t}
      PROVE  /\ task'[u].op = task[u].op /\ task'[u].request = task[u].request /\ task'[u].id = task[u].id
             /\ task'[u].read = task[u].read /\ task'[u].active = task[u].active
             /\ task'[u].others = task[u].others /\ task'[u].use = task[u].use /\ task'[u].pc = task[u].pc
  <2>1. task'[u] = task[u] \/ task'[u] = [task[u] EXCEPT !.mixed = TRUE]
    BY <1>1, BeginTypes
  <2>2. QED
    BY <1>1, <2>1 DEF Task
<1>5. \A u \in Threads : Shape(task'[u])
  <2>1. Shape(task'[t])
    BY <1>3 DEF Shape, Changes
  <2>2. \A u \in Threads \ {t} : Shape(task'[u])
    BY <1>4 DEF ActiveSound, Shape, Changes
  <2>3. QED
    BY <2>1, <2>2
<1>6. CASE ~Changes(k)
  <2>1. \A u \in Threads : Carried(task[u], task'[u])
    BY <1>3, <1>4, <1>6 DEF Carried, Changes, Loaded
  <2>2. tangled \subseteq tangled' /\ Rows' = Rows
    BY DEF Begin, Rows, Exists
  <2>3. QED
    BY <1>1, <1>5, <2>1, <2>2, ActiveFrame
<1>7. CASE Changes(k) /\ "active" \notin tangled'
  <2>1. /\ ActiveKeys = chosen
        /\ \A id \in Rows : id <= keys[id].key /\ keys[id].key <= requests
        /\ \A i, j \in Rows : keys[i].key = keys[j].key => i = j
        /\ \A u, v \in Threads : Activates(task[u]) /\ Activates(task[v]) => u = v
        /\ \A u \in Threads : Held(u)
    BY <1>7 DEF ActiveSound, Begin
  <2>2. Activates(k) => \A u \in Threads : ~Activates(task[u])
    BY <1>7 DEF Begin, Tangles
  <2>3. UNCHANGED <<keys, chosen>> /\ Rows' = Rows /\ ActiveKeys' = ActiveKeys
    BY DEF Rows, Exists, ActiveKeys
  <2>4. \A id \in Rows : keys[id].key \in Nat
    BY SettingsAssumption DEF Types, TypeOK, Request
  <2>5. \A u, v \in Threads : Activates(task'[u]) /\ Activates(task'[v]) => u = v
    BY <1>3, <1>4, <2>1, <2>2 DEF Activates
  <2>6. Held(t)'
    <3>1. k.op = "create" => k.request <= requests' /\ \A id \in Rows : keys[id].key < k.request
      BY <1>1, <2>1, <2>4
    <3>2. k.op = "update" => keys[k.id].key = k.read.key /\ keys[k.id].active = k.read.active
      OBVIOUS
    <3>3. ~Loaded(task'[t])
      BY <1>3 DEF Loaded, Changes
    <3>4. QED
      BY <1>3, <2>3, <3>1, <3>2, <3>3 DEF Held
  <2>7. ASSUME NEW u \in Threads \ {t} PROVE Held(u)'
    <3>1. Held(u) /\ task[u].request \in Nat
      BY <2>1, SettingsAssumption DEF Types, TypeOK
    <3>2. Loaded(task'[u]) <=> Loaded(task[u])
      BY <1>4 DEF Loaded, Changes
    <3> HIDE DEF Loaded
    <3>3. QED
      BY <1>1, <1>4, <2>3, <3>1, <3>2 DEF Held
  <2>8. \A id \in Rows : id <= keys[id].key /\ keys[id].key <= requests'
    BY <1>1, <2>1, <2>4
  <2>9. QED
    BY <1>5, <2>1, <2>3, <2>5, <2>6, <2>7, <2>8 DEF ActiveSound
<1>8. CASE "active" \in tangled'
  BY <1>5, <1>8 DEF ActiveSound
<1>9. QED
  BY <1>6, <1>7, <1>8

\* A deleted key was the chosen one, if it was active.
LEMMA ActiveDelete ==
    ASSUME Types, ActiveSound, NEW t \in Handlers, CommitDelete(t) PROVE ActiveSound'
<1> DEFINE id == task[t].id
<1>0. t \in Threads /\ id \in Ids
  BY HandlerAt DEF CommitDelete, Threads, HandlerTask, KeyTask, PresetTask, PollingTask, DeleteTask
<1>1. keys \in [Ids -> Row] /\ requests \in Nat /\ \A i \in Rows : keys[i].key \in Nat
  BY SettingsAssumption DEF Types, TypeOK, Row, Bound, Request
<1>2. /\ \A u \in Threads : task'[u] = IF u = t THEN NoTask ELSE task[u]
      /\ tangled' = tangled /\ requests' = requests
      /\ chosen' = chosen \ {keys[id].key}
      /\ \A i \in Ids : keys'[i] = IF i = id THEN NoRow ELSE keys[i]
  BY <1>0, <1>1, ContinueAt DEF CommitDelete, bounds
<1>3. Rows' = Rows \ {id}
  BY <1>2 DEF Rows, Exists
<1>4. \A u \in Threads : task'[u] = task[u] \/ (~Changes(task'[u]) /\ Shape(task'[u]))
  BY <1>2, NoTaskIdle DEF Changes, Shape
<1>5. keys[id].key \notin {keys[i].key : i \in Rows} \/ id \in Rows
  <2>1. id \notin Rows => keys[id].key = 0
    BY <1>0 DEF Rows, Exists, NoRow
  <2>2. \A i \in Rows : keys[i].key # 0
    BY SettingsAssumption DEF Types, TypeOK, Request
  <2>3. QED
    BY <2>1, <2>2
<1> HIDE DEF id
<1>6. CASE "active" \notin tangled
  <2>1. /\ ActiveKeys = chosen
        /\ \A i \in Rows : i <= keys[i].key /\ keys[i].key <= requests
        /\ \A i, j \in Rows : keys[i].key = keys[j].key => i = j
        /\ \A u, v \in Threads : Activates(task[u]) /\ Activates(task[v]) => u = v
        /\ \A u \in Threads : Held(u)
    BY <1>6 DEF ActiveSound
  <2>2. ActiveKeys' = ActiveKeys \ {keys[id].key}
    <3>1. \A i \in Rows' : i \in Rows /\ i # id /\ i \in Ids /\ keys'[i] = keys[i]
      BY <1>2, <1>3 DEF Rows
    <3>2. \A i \in Rows : i # id => i \in Rows' /\ keys'[i] = keys[i] /\ keys[i].key # keys[id].key
      BY <1>2, <1>3, <1>5, <2>1 DEF Rows
    <3>3. QED
      BY <3>1, <3>2 DEF ActiveKeys
  <2>3. /\ \A i \in Rows' : i <= keys'[i].key /\ keys'[i].key <= requests'
        /\ \A i, j \in Rows' : keys'[i].key = keys'[j].key => i = j
    BY <1>1, <1>2, <1>3, <2>1 DEF Rows
  <2>4. ASSUME NEW u \in Threads PROVE Held(u)'
    <3>1. Held(u)
      BY <2>1
    <3>2. \A i \in Rows' : i \in Rows /\ keys'[i] = keys[i]
      BY <1>2, <1>3 DEF Rows
    <3>3. CASE task'[u] = task[u]
      BY <1>2, <3>1, <3>2, <3>3 DEF Held
    <3>4. CASE ~Changes(task'[u])
      BY <3>4 DEF Held, Changes, Loaded
    <3>5. QED
      BY <1>4, <3>3, <3>4
  <2>5. \A u, v \in Threads : Activates(task'[u]) /\ Activates(task'[v]) => u = v
    BY <1>4, <2>1 DEF Activates, Changes
  <2>6. \A u \in Threads : Shape(task'[u])
    BY <1>4 DEF ActiveSound
  <2>7. QED
    BY <1>2, <2>1, <2>2, <2>3, <2>4, <2>5, <2>6 DEF ActiveSound
<1>7. CASE "active" \in tangled
  BY <1>2, <1>4, <1>7 DEF ActiveSound
<1>8. QED
  BY <1>6, <1>7

\* The request that commits is the only one that changes flags.
LEMMA ActiveAlone ==
    ASSUME Types, ActiveSound, NEW t \in Handlers, "active" \notin tangled, Activates(task[t]),
           \A u \in Threads : task'[u] = IF u = t THEN NoTask ELSE task[u]
    PROVE  /\ \A u \in Threads : Shape(task'[u]) /\ ~Activates(task'[u])
           /\ \A u \in Threads : Held(u)'
<1>1. t \in Threads /\ \A u \in Threads : Activates(task[u]) => u = t
  BY DEF Threads, ActiveSound
<1>2. Shape(NoTask) /\ ~Activates(NoTask)
  BY NoTaskIdle DEF Shape, Changes, Activates
<1>3. \A u \in Threads : Shape(task'[u]) /\ ~Activates(task'[u])
  BY <1>1, <1>2 DEF ActiveSound
<1>4. \A u \in Threads : Held(u)'
  BY <1>3 DEF Held, Loaded, Changes, Activates
<1>5. QED
  BY <1>3, <1>4

\* A commit that is rolled back, or changes no flag.
LEMMA ActiveRest ==
    ASSUME Types, ActiveSound, NEW t \in Handlers, UNCHANGED <<chosen, tangled, requests>>, Rows' = Rows,
           \A id \in Rows : keys'[id].key = keys[id].key /\ keys'[id].active = keys[id].active,
           \A u \in Threads : task'[u] = IF u = t THEN NoTask ELSE task[u]
    PROVE  ActiveSound'
<1>1. \A u \in Threads : Carried(task[u], task'[u]) /\ Shape(task'[u])
  BY NoTaskIdle DEF ActiveSound, Carried, Shape, Changes
<1>2. requests \in Nat
  BY SettingsAssumption DEF Types, TypeOK
<1>3. QED
  BY <1>1, <1>2, ActiveFrame

\* A creation commits: the new key is active alone if it is to be, and newer than every row.
LEMMA ActiveCreate ==
    ASSUME Types, ActiveSound, NEW t \in Handlers, CommitCreate(t) PROVE ActiveSound'
<1> DEFINE k == task[t]
           top == Max(Rows \cup {0})
           row == [key |-> k.request, active |-> k.active = "on", partner_id |-> k.request,
                   checkword |-> k.request, cipher |-> k.cipher, test |-> 0]
<1>1. /\ t \in Threads /\ HandlerTask(k) /\ k \in Task /\ k.request \in Request /\ k.request \in Nat
      /\ k.op = "create" /\ k.pc = "commit"
  BY HandlerAt, SettingsAssumption DEF CommitCreate, Threads, HandlerTask, Request
<1>2. Shape(k) /\ k.use = "encrypt" /\ k.id = 0 /\ (k.active # "on" => k.others = {})
  BY <1>1 DEF ActiveSound, Shape, Changes
<1>3. /\ \A u \in Threads : task'[u] = IF u = t THEN NoTask ELSE task[u]
      /\ tangled' = tangled /\ requests' = requests
  BY <1>1, ContinueAt DEF CommitCreate, bounds
<1>4. keys \in [Ids -> Row] /\ (\A i \in Rows : keys[i].key \in Request) /\ requests \in 0 .. REQUESTS
  BY DEF Types, TypeOK, Row, Bound
<1>5. CASE ~(k.others \subseteq Rows)
  <2>1. UNCHANGED <<keys, chosen>> /\ Rows' = Rows
    BY <1>5 DEF CommitCreate, Rows, Exists
  <2>2. QED
    BY <1>3, <2>1, ActiveRest
<1>6. CASE k.others \subseteq Rows /\ "active" \notin tangled
  <2>1. /\ ActiveKeys = chosen
        /\ \A i \in Rows : i <= keys[i].key /\ keys[i].key <= requests
        /\ \A i, j \in Rows : keys[i].key = keys[j].key => i = j
        /\ Held(t)
    BY <1>1, <1>6 DEF ActiveSound
  <2>2. k.request <= requests /\ \A i \in Rows : keys[i].key < k.request
    BY <1>1, <2>1 DEF Held
  <2>3. top \in Nat /\ top < k.request /\ \A i \in Rows : i <= top
    <3>1. Rows \in SUBSET Ids
      BY DEF Rows
    <3>2. top \in Bound /\ \A i \in Rows : i <= top
      BY <3>1, MaxRows
    <3>3. top \in Rows \cup {0}
      BY <3>1, SettingsAssumption, MaxIn, MaxRows DEF Ids
    <3> HIDE DEF top
    <3>4. QED
      BY <1>1, <1>4, <2>1, <2>2, <3>1, <3>2, <3>3, SettingsAssumption DEF Bound, Request, Ids
  <2>4. /\ keys' = [Deactivated(k.others) EXCEPT ![top + 1] = row]
        /\ chosen' = IF k.active = "on" THEN {k.request} ELSE chosen
    BY <1>6 DEF CommitCreate
  <2> HIDE DEF top
  <2>5. top + 1 \in Ids /\ top + 1 \notin Rows /\ top + 1 <= k.request
    <3>1. top + 1 <= k.request /\ k.request <= REQUESTS
      BY <1>1, <2>3 DEF Request
    <3>2. \A i \in Rows : i \in Nat
      BY DEF Rows, Ids
    <3>3. QED
      BY <1>1, <2>3, <3>1, <3>2, SettingsAssumption DEF Ids
  <2>6. \A i \in Ids : keys'[i] = IF i = top + 1 THEN row
                                  ELSE IF i \in k.others THEN [keys[i] EXCEPT !.active = FALSE] ELSE keys[i]
    BY <1>4, <2>4 DEF Deactivated
  <2>7. /\ row.key = k.request /\ row.active = (k.active = "on")
        /\ row # NoRow
    <3>1. row.key = k.request /\ row.active = (k.active = "on")
      OBVIOUS
    <3>2. NoRow.key = 0 /\ k.request # 0
      BY <1>1, SettingsAssumption DEF NoRow, Request
    <3>3. QED
      BY <3>1, <3>2
  <2> HIDE DEF row
  <2>8. \A i \in Rows : /\ i \in Ids /\ i # top + 1 /\ keys'[i].key = keys[i].key
                        /\ keys'[i].active = (keys[i].active /\ i \notin k.others)
    <3>1. \A i \in Rows : i \in Ids /\ i # top + 1 /\ keys[i] \in Row
      BY <1>4, <2>5 DEF Rows
    <3>2. ASSUME NEW i \in Rows
          PROVE  keys'[i].key = keys[i].key /\ keys'[i].active = (keys[i].active /\ i \notin k.others)
      BY <2>6, <3>1 DEF Row
    <3>3. QED
      BY <3>1, <3>2
  <2>9. Rows' = Rows \cup {top + 1} /\ keys'[top + 1] = row
    <3>1. \A i \in Rows : keys'[i] # NoRow
      BY <1>4, <2>8, SettingsAssumption DEF NoRow, Request
    <3>2. \A i \in Ids \ Rows : i # top + 1 => keys'[i] = keys[i]
      BY <1>6, <2>6
    <3>3. QED
      BY <2>5, <2>6, <2>7, <3>1, <3>2 DEF Rows, Exists
  <2>10. ActiveKeys' = chosen'
    <3>1. ActiveKeys' = {keys'[i].key : i \in {j \in Rows' : keys'[j].active}}
      BY DEF ActiveKeys
    <3>2. CASE k.active = "on"
      <4>1. \A i \in Rows : keys[i].active => i \in k.others
        <5>1. \A i \in Rows : i # 0
          BY SettingsAssumption DEF Rows, Ids
        <5>2. Loaded(k)
          BY <1>1, <1>2, <3>2 DEF Loaded, Changes
        <5>3. QED
          BY <1>2, <2>1, <5>1, <5>2 DEF Held
      <4>2. \A i \in Rows : ~keys'[i].active
        BY <2>8, <4>1
      <4>3. {j \in Rows' : keys'[j].active} = {top + 1}
        BY <2>7, <2>9, <3>2, <4>2
      <4>4. QED
        BY <2>4, <2>7, <2>9, <3>1, <3>2, <4>3
    <3>3. CASE k.active # "on"
      <4>1. \A i \in Rows : keys'[i].active = keys[i].active
        <5>1. keys \in [Ids -> Row] /\ \A i \in Rows : keys[i].active \in BOOLEAN
          BY <1>4 DEF Row, Rows
        <5>2. QED
          BY <1>2, <2>8, <3>3, <5>1
      <4>2. {j \in Rows' : keys'[j].active} = {j \in Rows : keys[j].active}
        BY <2>7, <2>9, <3>3, <4>1
      <4>3. QED
        BY <2>1, <2>4, <2>8, <3>1, <3>3, <4>2 DEF ActiveKeys
    <3>4. QED
      BY <3>2, <3>3
  <2>11. \A i \in Rows' : i <= keys'[i].key /\ keys'[i].key <= requests'
    BY <1>3, <2>1, <2>2, <2>5, <2>7, <2>8, <2>9
  <2>12. \A i, j \in Rows' : keys'[i].key = keys'[j].key => i = j
    <3>1. \A i \in Rows : keys'[i].key # keys'[top + 1].key
      BY <1>1, <1>4, <2>2, <2>7, <2>8, <2>9, SettingsAssumption DEF Request
    <3>2. \A i, j \in Rows : keys'[i].key = keys'[j].key => i = j
      BY <2>1, <2>8
    <3>3. QED
      BY <2>9, <3>1, <3>2
  <2>13. Activates(task[t])
    BY <1>1 DEF Activates
  <2>14. QED
    BY <1>3, <1>6, <2>10, <2>11, <2>12, <2>13, ActiveAlone DEF ActiveSound
<1>7. CASE "active" \in tangled
  BY <1>3, <1>7, NoTaskIdle DEF ActiveSound, Shape, Changes
<1>8. QED
  BY <1>5, <1>6, <1>7

\* An update commits: the flag it was asked for is set, and every other active key switched off.
LEMMA ActiveUpdate ==
    ASSUME Types, ActiveSound, NEW t \in Handlers, CommitUpdate(t) PROVE ActiveSound'
<1> DEFINE k == task[t]
           flag == IF k.active # "keep" /\ (k.active = "on") # k.read.active THEN k.active = "on"
                   ELSE keys[k.id].active
<1>1. /\ t \in Threads /\ HandlerTask(k) /\ KeyTask(k) /\ k \in Task /\ k.op = "update" /\ k.pc = "commit"
      /\ k.read \in Row /\ k.active \in {"keep", "on", "off"}
  BY HandlerAt DEF CommitUpdate, Threads, HandlerTask, PresetTask, PollingTask, DeleteTask, UsesPresets, Task
<1>2. k.use = "encrypt" /\ k.id \notin k.others /\ (k.active # "on" => k.others = {})
  BY <1>1 DEF ActiveSound, Shape, Changes
<1>3. /\ \A u \in Threads : task'[u] = IF u = t THEN NoTask ELSE task[u]
      /\ tangled' = tangled /\ requests' = requests
  BY <1>1, ContinueAt DEF CommitUpdate, bounds
<1>4. keys \in [Ids -> Row] /\ \A i \in Rows : i \in Ids /\ keys[i].key \in Request /\ keys[i].active \in BOOLEAN
  BY DEF Types, TypeOK, Row, Bound, Rows
<1>5. CASE ~(k.others \cup {k.id} \subseteq Rows)
  <2>1. UNCHANGED <<keys, chosen>> /\ Rows' = Rows
    BY <1>5 DEF CommitUpdate, Rows, Exists
  <2>2. QED
    BY <1>3, <2>1, ActiveRest
<1>6. ASSUME k.others \cup {k.id} \subseteq Rows
      PROVE  /\ Rows' = Rows
             /\ \A i \in Rows : keys'[i].key = keys[i].key
             /\ \A i \in Rows \ {k.id} : keys'[i].active = (keys[i].active /\ i \notin k.others)
             /\ keys'[k.id].active = flag
             /\ chosen' = IF k.active = "on" THEN {k.read.key}
                          ELSE IF k.active = "off" THEN chosen \ {k.read.key} ELSE chosen
  <2> DEFINE D == Deactivated(k.others)
             row == Updated(k, D[k.id])
  <2>1. keys' = [D EXCEPT ![k.id] = row] /\ k.id \in Ids /\ k.id \in Rows
    BY <1>4, <1>6 DEF CommitUpdate
  <2>2. \A i \in Ids : D[i] = IF i \in k.others THEN [keys[i] EXCEPT !.active = FALSE] ELSE keys[i]
    BY DEF Deactivated
  <2>3. D \in [Ids -> Row] /\ \A i \in Ids \ k.others : D[i] = keys[i]
    <3>1. DOMAIN D = Ids /\ D = [i \in Ids |-> D[i]]
      BY DEF Deactivated
    <3>2. \A i \in Ids : D[i] \in Row
      BY <1>4, <2>2 DEF Row
    <3> HIDE DEF D
    <3>3. QED
      BY <2>2, <3>1, <3>2
  <2>4. D[k.id] = keys[k.id] /\ keys[k.id] \in Row
    BY <1>2, <1>4, <2>1, <2>3
  <2>5. row.key = keys[k.id].key /\ row.active = flag
    BY <2>4 DEF Updated, Row
  <2>6. \A i \in Ids : keys'[i] = IF i = k.id THEN row ELSE D[i]
    <3> HIDE DEF D, row
    <3>1. QED
      BY <2>1, <2>3
  <2>7. \A i \in Rows \ {k.id} : D[i].key = keys[i].key /\ D[i].active = (keys[i].active /\ i \notin k.others)
    <3> TAKE i \in Rows \ {k.id}
    <3>1. i \in Ids /\ keys[i] \in Row
      BY <1>4
    <3> HIDE DEF D
    <3>2. QED
      BY <2>2, <3>1 DEF Row
  <2> HIDE DEF D, row, flag
  <2>8. \A i \in Rows : keys'[i].key = keys[i].key
    BY <1>4, <2>5, <2>6, <2>7
  <2>9. Rows' = Rows
    <3>1. \A i \in Rows : keys'[i] # NoRow
      BY <1>4, <2>8, SettingsAssumption DEF NoRow, Request
    <3>2. \A i \in Ids \ Rows : keys'[i] = keys[i]
      BY <1>6, <2>3, <2>6
    <3>3. QED
      BY <3>1, <3>2 DEF Rows, Exists
  <2>10. chosen' = IF k.active = "on" THEN {k.read.key}
                   ELSE IF k.active = "off" THEN chosen \ {k.read.key} ELSE chosen
    BY <1>1, <1>6 DEF CommitUpdate
  <2>11. QED
    BY <1>4, <2>1, <2>5, <2>6, <2>7, <2>8, <2>9, <2>10
<1>7. CASE k.others \cup {k.id} \subseteq Rows /\ k.active = "keep"
  <2>1. flag = keys[k.id].active /\ k.others = {}
    BY <1>2, <1>7
  <2> HIDE DEF flag
  <2>2. Rows' = Rows /\ (\A i \in Rows : keys'[i].key = keys[i].key /\ keys'[i].active = keys[i].active)
        /\ chosen' = chosen
    BY <1>4, <1>6, <1>7, <2>1
  <2>3. QED
    BY <1>3, <2>2, ActiveRest
<1>8. CASE k.others \cup {k.id} \subseteq Rows /\ k.active # "keep" /\ "active" \notin tangled
  <2>1. /\ ActiveKeys = chosen
        /\ \A i \in Rows : i <= keys[i].key /\ keys[i].key <= requests
        /\ \A i, j \in Rows : keys[i].key = keys[j].key => i = j
        /\ Held(t)
    BY <1>1, <1>8 DEF ActiveSound
  <2>2. keys[k.id].key = k.read.key /\ keys[k.id].active = k.read.active /\ k.id \in Rows
    BY <1>1, <1>8, <2>1 DEF Held
  <2>3. flag = (k.active = "on")
    BY <1>1, <1>8, <2>2 DEF Row
  <2>4. /\ Rows' = Rows
        /\ \A i \in Rows : keys'[i].key = keys[i].key
        /\ \A i \in Rows \ {k.id} : keys'[i].active = (keys[i].active /\ i \notin k.others)
        /\ keys'[k.id].active = flag
        /\ chosen' = IF k.active = "on" THEN {k.read.key}
                     ELSE IF k.active = "off" THEN chosen \ {k.read.key} ELSE chosen
    BY <1>6, <1>8
  <2> HIDE DEF flag
  <2>5. ActiveKeys' = {keys[i].key : i \in {j \in Rows : keys'[j].active}}
    BY <2>4 DEF ActiveKeys
  <2>6. CASE k.active = "on"
    <3>1. Loaded(k)
      BY <1>1, <1>2, <2>6 DEF Loaded, Changes
    <3>2. \A i \in Rows : keys[i].active /\ i # k.id => i \in k.others
      BY <2>1, <3>1 DEF Held
    <3>3. {j \in Rows : keys'[j].active} = {k.id}
      BY <2>2, <2>3, <2>4, <2>6, <3>2
    <3>4. QED
      <4>1. ActiveKeys' = chosen'
        BY <2>2, <2>4, <2>5, <2>6, <3>3
      <4>2. Activates(task[t])
        BY <1>1, <2>6 DEF Activates
      <4>3. QED
        BY <1>3, <1>8, <2>1, <2>4, <4>1, <4>2, ActiveAlone DEF ActiveSound
  <2>7. CASE k.active = "off"
    <3>1. k.others = {}
      BY <1>2, <2>7
    <3>2. \A j \in Rows : keys'[j].active <=> keys[j].active /\ j # k.id
      BY <1>4, <2>3, <2>4, <2>7, <3>1
    <3>3. ActiveKeys' = ActiveKeys \ {k.read.key}
      <4>1. \A j \in Rows : j # k.id => keys[j].key # k.read.key
        BY <2>1, <2>2
      <4>2. QED
        BY <2>2, <2>5, <3>2, <4>1 DEF ActiveKeys
    <3>4. ActiveKeys' = chosen'
      BY <2>1, <2>4, <2>7, <3>3
    <3>5. Activates(task[t])
      BY <1>1, <2>7 DEF Activates
    <3>6. QED
      BY <1>3, <1>8, <2>1, <2>4, <3>4, <3>5, ActiveAlone DEF ActiveSound
  <2>8. QED
    BY <1>1, <1>8, <2>6, <2>7
<1>9. CASE "active" \in tangled
  BY <1>3, <1>9, NoTaskIdle DEF ActiveSound, Shape, Changes
<1>10. QED
  BY <1>5, <1>7, <1>8, <1>9

\* What a request is taken up with.
LEMMA ActiveAsked ==
    ASSUME Types, ActiveSound, NEW t \in Handlers, NEW k \in Task, Asked(t, k),
           UNCHANGED <<keys, key_history>>, Shape(k), ~Loaded(k),
           k.op = "update" => k.id \in Rows /\ k.read = keys[k.id]
    PROVE  ActiveSound'
<1> DEFINE j == [k EXCEPT !.request = requests + 1]
<1>1. requests + 1 \in Bound
  BY AskedRequest
<1>2. /\ j \in Task /\ j.op = k.op /\ j.request = requests + 1 /\ j.id = k.id /\ j.read = k.read
      /\ j.active = k.active /\ j.others = k.others /\ j.use = k.use /\ j.pc = k.pc
  BY <1>1 DEF Task
<1>3. Begin(t, j) /\ requests' = requests + 1 /\ UNCHANGED <<keys, chosen>>
  BY DEF Asked, key_history
<1> HIDE DEF j
<1>4. Shape(j) /\ ~Loaded(j)
  BY <1>2 DEF Shape, Loaded, Changes
<1>5. QED
  BY <1>2, <1>3, <1>4, ActiveBegin

\* Requests that are taken up keep what the active key relies on.
LEMMA ActiveRequests ==
    ASSUME Types, ActiveSound, KeysNext \/ FilesNext PROVE ActiveSound'
<1>1. /\ NoTask \in Task /\ NoTask.op = "none" /\ NoTask.pc = "idle" /\ NoTask.id = 0
      /\ NoTask.others = {} /\ NoTask.use = "encrypt"
  BY NoTaskType DEF NoTask
<1>2. ASSUME NEW t \in Handlers, NEW active \in {"on", "off"}, CreateBegin(t, active) PROVE ActiveSound'
  <2> DEFINE k == [NoTask EXCEPT !.op = "create", !.active = active,
                                 !.pc = IF active = "on" THEN "others" ELSE "key_exists"]
  <2>1. /\ k \in Task /\ k.op = "create" /\ k.active = active /\ k.id = 0 /\ k.others = {}
        /\ k.use = "encrypt" /\ k.pc = IF active = "on" THEN "others" ELSE "key_exists"
    BY <1>1 DEF Task, Pcs
  <2>2. Asked(t, k) /\ UNCHANGED <<keys, key_history>>
    BY <1>2 DEF CreateBegin
  <2> HIDE DEF k
  <2>3. Shape(k) /\ ~Loaded(k)
    BY <2>1 DEF Shape, Loaded, Changes
  <2>4. QED
    BY <2>1, <2>2, <2>3, ActiveAsked
<1>3. ASSUME NEW t \in Handlers, NEW id \in Ids, NEW active \in {"keep", "on", "off"},
             NEW fields \in {{}, {"partner_id"}, {"checkword"}}, UpdateBegin(t, id, active, fields)
      PROVE  ActiveSound'
  <2> DEFINE k == [NoTask EXCEPT !.op = "update", !.id = id, !.read = keys[id], !.active = active,
                                 !.fields = fields, !.use = "decrypt", !.pc = "key_exists"]
  <2>1. keys[id] \in Row /\ fields \in SUBSET Halves /\ id \in Bound
    BY SettingsAssumption DEF Types, TypeOK, Row, Bound, Halves, Ids
  <2>2. /\ k \in Task /\ k.op = "update" /\ k.id = id /\ k.read = keys[id] /\ k.others = {}
        /\ k.use = "decrypt" /\ k.pc = "key_exists"
    BY <1>1, <2>1 DEF Task, Pcs
  <2>3. Asked(t, k) /\ UNCHANGED <<keys, key_history>> /\ id \in Rows
    BY <1>3 DEF UpdateBegin, Rows
  <2> HIDE DEF k
  <2>4. Shape(k) /\ ~Loaded(k)
    BY <2>2 DEF Shape, Loaded, Changes
  <2>5. QED
    BY <2>2, <2>3, <2>4, ActiveAsked
<1>4. ASSUME NEW t \in Handlers, NEW k \in Task, Asked(t, k), UNCHANGED <<keys, key_history>>, ~Changes(k)
      PROVE  ActiveSound'
  BY <1>4, ActiveAsked DEF Shape, Loaded, Changes
<1>5. ASSUME NEW t \in Handlers, NEW id \in Ids, TestBegin(t, id) PROVE ActiveSound'
  <2> DEFINE k == [NoTask EXCEPT !.op = "test", !.id = id, !.read = keys[id],
                                 !.use = "decrypt", !.pc = "key_exists"]
  <2>1. keys[id] \in Row /\ id \in Bound
    BY SettingsAssumption DEF Types, TypeOK, Row, Bound, Ids
  <2>2. k \in Task /\ ~Changes(k)
    BY <1>1, <2>1 DEF Task, Pcs, Changes
  <2>3. QED
    BY <1>4, <1>5, <2>2 DEF TestBegin
<1>6. ASSUME NEW t \in Handlers, NEW op \in {"preset", "list_presets"}, PresetBegin(t, op) PROVE ActiveSound'
  <2> DEFINE k == [NoTask EXCEPT !.op = op, !.pc = "presets_exists"]
  <2>1. k \in Task /\ ~Changes(k)
    BY <1>1 DEF Task, Pcs, Changes
  <2>2. QED
    BY <1>4, <1>6, <2>1 DEF PresetBegin
<1>7. ASSUME NEW t \in Handlers, PollingBegin(t) PROVE ActiveSound'
  <2> DEFINE k == [NoTask EXCEPT !.op = "polling", !.pc = "open", !.file = "polling",
                                 !.data = {requests + 1}]
  <2>1. requests + 1 \in Bound
    BY <1>7, AskedRequest DEF PollingBegin
  <2>2. k \in Task /\ ~Changes(k)
    BY <1>1, <2>1 DEF Task, Pcs, Changes, File
  <2>3. QED
    BY <1>4, <1>7, <2>2 DEF PollingBegin
<1>8. ASSUME NEW t \in Handlers, NEW id \in Ids, DeleteBegin(t, id) PROVE ActiveSound'
  <2> DEFINE k == [NoTask EXCEPT !.op = "delete", !.id = id, !.pc = "delete"]
  <2>1. id \in Bound
    BY SettingsAssumption DEF Bound, Ids
  <2>2. k \in Task /\ ~Changes(k)
    BY <1>1, <2>1 DEF Task, Pcs, Changes
  <2>3. QED
    BY <1>4, <1>8, <2>2 DEF DeleteBegin
<1>9. QED
  BY <1>2, <1>3, <1>5, <1>6, <1>7, <1>8 DEF KeysNext, FilesNext

\* So does every step.
LEMMA ActiveNext == Types /\ ActiveSound /\ [Next]_vars => ActiveSound'
<1> SUFFICES ASSUME Types, ActiveSound, [Next]_vars PROVE ActiveSound'
  OBVIOUS
<1>1. requests \in Nat
  BY SettingsAssumption DEF Types, TypeOK
<1>2. ASSUME UNCHANGED <<keys, chosen>>, tangled \subseteq tangled', requests' \in {requests, requests + 1},
             \A u \in Threads : task'[u] = task[u] \/ ~Changes(task'[u])
      PROVE  ActiveSound'
  <2>1. \A u \in Threads : Carried(task[u], task'[u]) /\ Shape(task'[u])
    BY <1>2 DEF ActiveSound, Carried, Shape
  <2>2. Rows' = Rows
    BY <1>2 DEF Rows, Exists
  <2>3. QED
    BY <1>1, <1>2, <2>1, <2>2, ActiveFrame
<1>3. CASE UNCHANGED vars
  BY <1>2, <1>3 DEF vars, bounds, history, key_history
<1>4. CASE \E custom \in BOOLEAN : ReplaceMappings(custom)
  BY <1>2, <1>4 DEF ReplaceMappings, key_history
<1>5. CASE \E t \in Handlers : Step(t)
  BY <1>5, ActiveStep, ActiveLoad, ActiveCreate, ActiveUpdate, ActiveDelete
<1>6. ASSUME NEW s \in Starters, Start(s) PROVE ActiveSound'
  <2> DEFINE k == [NoTask EXCEPT !.op = "startup",
                       !.pc = IF mappings.defaults = 0 /\ ~mappings.custom THEN "seed" ELSE "serve"]
  <2>1. k \in Task /\ k.op = "startup"
    BY NoTaskType DEF Task, Pcs, NoTask
  <2>2. Begin(s, k) /\ UNCHANGED <<keys, chosen, requests>> /\ s \in Threads /\ task \in [Threads -> Task]
    BY <1>6 DEF Start, key_history, Threads, Types, TasksOK
  <2> HIDE DEF k
  <2>3. \A u \in Threads : task'[u] = task[u] \/ ~Changes(task'[u])
    <3>1. PICK b \in BOOLEAN : task'[s] = [k EXCEPT !.mixed = b]
      BY <2>1, <2>2, BeginTypes
    <3>2. \A u \in Threads \ {s} :
             task'[u] = task[u] \/ (UsesPresets(task[u]) /\ task'[u] = [task[u] EXCEPT !.mixed = TRUE])
      BY <2>1, <2>2, BeginTypes
    <3>3. task'[s].op = "startup"
      BY <2>1, <3>1 DEF Task
    <3>4. ASSUME NEW u \in Threads \ {s} PROVE task'[u] = task[u] \/ ~Changes(task'[u])
      <4>1. task[u] \in Task
        BY <2>2
      <4>2. [task[u] EXCEPT !.mixed = TRUE].op = task[u].op
        BY <4>1 DEF Task
      <4>3. QED
        BY <3>2, <4>2 DEF Changes, UsesPresets
    <3>5. QED
      BY <3>3, <3>4 DEF Changes
  <2>4. QED
    BY <1>2, <2>2, <2>3 DEF Begin
<1>7. ASSUME NEW s \in Starters, Serve(s) PROVE ActiveSound'
  <2>1. \A u \in Threads : task'[u] = IF u = s THEN NoTask ELSE task[u]
    BY <1>7, ContinueAt DEF Serve, Threads
  <2>2. QED
    BY <1>2, <1>7, <2>1, NoTaskIdle DEF Serve, Changes, bounds, history, key_history
<1>8. CASE Crash
  <2>1. \A u \in Threads : task'[u] = NoTask
    BY <1>8 DEF Crash
  <2>2. QED
    BY <1>2, <1>8, <2>1, NoTaskIdle DEF Crash, Changes, key_history
<1>9. QED
  BY <1>3, <1>4, <1>5, <1>6, <1>7, <1>8, ActiveRequests DEF Next

\* The active keys are the one the user activated last, if it is there, whatever else overlaps:
\* updates and tests of secrets, deletions, restarts and crashes; unless two requests that set
\* a key's flag overlapped.
THEOREM ActiveIsChosenCorrect == Spec => []ActiveIsChosen
<1>1. Init => ActiveSound
  <2> SUFFICES ASSUME Init PROVE ActiveSound
    OBVIOUS
  <2>1. (\A t \in Threads : task[t] = NoTask) /\ Rows = {} /\ chosen = {}
    BY DEF Init, Rows, Exists
  <2>2. QED
    BY <2>1, NoTaskIdle DEF ActiveSound, ActiveKeys, Shape, Held, Loaded, Changes, Activates
<1>2. Spec => []Types
  BY TypesInit, TypesNext, PTL DEF Spec
<1>3. Types /\ ActiveSound /\ [Next]_vars => ActiveSound'
  BY ActiveNext
<1>4. ActiveSound => ActiveIsChosen
  BY DEF ActiveSound, ActiveIsChosen
<1>5. QED
  BY <1>1, <1>2, <1>3, <1>4, PTL DEF Spec

-----------------------------------------------------------------------------
(* A key has its own secret and its own test result *)

KeyOps == {"create", "update", "test"}

\* A task about a row that it has read.
Named(k) == k.op \in {"update", "test"}
Top == Max(Rows \cup {0})
SameSecret(r, s) == r.partner_id = s.partner_id /\ r.checkword = s.checkword

\* A key that is being created goes by a request of its own. A row that a task has read is the
\* one it finds under that id, as long as the id cannot have been given again.
Owned(t) ==
    LET k == task[t] IN
    /\ k.op = "create" =>
         /\ k.request <= requests /\ \A i \in Rows : keys[i].key # k.request
         /\ \A u \in Threads : /\ Named(task[u]) => task[u].read.key # k.request
                               /\ task[u].op = "create" /\ task[u].request = k.request => u = t
    /\ Named(k) =>
         /\ k.read.key <= requests /\ (k.id \in freed \/ k.id <= Top)
         /\ \A i \in Rows : keys[i].key = k.read.key => i = k.id
         /\ k.id \in Rows \ freed => keys[k.id].key = k.read.key

\* Why a key keeps its own: only one update of it is under way, and what that has read of the
\* secret is still so.
OwnSound ==
    /\ \A i \in Rows : keys[i].key <= requests
    /\ \A i, j \in Rows : keys[i].key = keys[j].key => i = j
    /\ \A t \in Threads : Owned(t)
    /\ "secrets" \notin tangled =>
         /\ \A t, u \in Threads :
               task[t].op = "update" /\ task[u].op = "update" /\ task[t].id = task[u].id => t = u
         /\ \A t \in Threads : task[t].op = "update" /\ task[t].id \in Rows \ freed =>
               SameSecret(keys[task[t].id], task[t].read)
         /\ \A i \in Rows \ freed :
               keys[i].test \in {0, keys[i].key} /\ SameSecret(keys[i], given[keys[i].key])

\* A step of a task that takes along what it is about, or ends it.
Follows(k, j) ==
    \/ j.op \notin KeyOps
    \/ j.op = k.op /\ j.request = k.request /\ j.id = k.id /\ j.read = k.read /\ j.fields = k.fields

\* Steps that leave the keys, their secrets and test results alone.
LEMMA OwnFrame ==
    ASSUME Types, OwnSound, tangled \subseteq tangled', requests' \in {requests, requests + 1},
           UNCHANGED <<given, freed>>, Rows' = Rows,
           \A i \in Rows : /\ keys'[i].key = keys[i].key /\ keys'[i].test = keys[i].test
                           /\ SameSecret(keys'[i], keys[i]),
           \A u \in Threads : Follows(task[u], task'[u])
    PROVE  OwnSound'
<1>1. /\ \A i \in Rows : keys[i].key <= requests
      /\ \A i, j \in Rows : keys[i].key = keys[j].key => i = j
      /\ \A t \in Threads : Owned(t)
  BY DEF OwnSound
<1>2. requests \in Nat /\ requests' \in Nat /\ requests <= requests'
      /\ \A i \in Rows : keys[i].key \in Nat
  BY SettingsAssumption DEF Types, TypeOK, Request
<1>3. \A u \in Threads : task[u].request \in Nat /\ (Named(task[u]) => task[u].read.key \in Nat)
  <2> TAKE u \in Threads
  <2>1. task[u] \in Task
    BY DEF Types, TasksOK
  <2>2. QED
    BY <2>1, SettingsAssumption DEF Task, Row, Bound
<1>4. Top' = Top
  BY DEF Top
<1>5. /\ \A i \in Rows' : keys'[i].key <= requests'
      /\ \A i, j \in Rows' : keys'[i].key = keys'[j].key => i = j
  BY <1>1, <1>2
<1>6. ASSUME NEW t \in Threads PROVE Owned(t)'
  <2>1. Owned(t) /\ Follows(task[t], task'[t])
    BY <1>1
  <2>2. CASE task'[t].op = "create"
    <3>1. task[t].op = "create" /\ task'[t].request = task[t].request
      BY <2>1, <2>2 DEF Follows, KeyOps
    <3>2. task'[t].request <= requests' /\ \A i \in Rows' : keys'[i].key # task'[t].request
      BY <1>2, <1>3, <2>1, <3>1 DEF Owned
    <3>3. ASSUME NEW u \in Threads
          PROVE  /\ Named(task'[u]) => task'[u].read.key # task'[t].request
                 /\ task'[u].op = "create" /\ task'[u].request = task'[t].request => u = t
      BY <2>1, <3>1, <3>3 DEF Owned, Follows, Named, KeyOps
    <3>4. QED
      BY <2>2, <3>2, <3>3 DEF Owned, Named
  <2>3. CASE Named(task'[t])
    <3>1. Named(task[t]) /\ task'[t].id = task[t].id /\ task'[t].read = task[t].read
      BY <2>1, <2>3 DEF Follows, Named, KeyOps
    <3>2. QED
      BY <1>2, <1>3, <1>4, <2>1, <2>3, <3>1 DEF Owned, Named
  <2>4. QED
    BY <2>2, <2>3 DEF Owned
<1>7. CASE "secrets" \notin tangled'
  <2>1. \A t, u \in Threads : task[t].op = "update" /\ task[u].op = "update" /\ task[t].id = task[u].id => t = u
    BY <1>7 DEF OwnSound
  <2>2. \A t \in Threads : task[t].op = "update" /\ task[t].id \in Rows \ freed =>
               SameSecret(keys[task[t].id], task[t].read)
    BY <1>7 DEF OwnSound
  <2>3. \A i \in Rows \ freed :
               keys[i].test \in {0, keys[i].key} /\ SameSecret(keys[i], given[keys[i].key])
    BY <1>7 DEF OwnSound
  <2>4. \A t \in Threads : task'[t].op = "update" =>
            task[t].op = "update" /\ task'[t].id = task[t].id /\ task'[t].read = task[t].read
    BY DEF Follows, KeyOps
  <2>5. \A t, u \in Threads :
            task'[t].op = "update" /\ task'[u].op = "update" /\ task'[t].id = task'[u].id => t = u
    BY <2>1, <2>4
  <2>6. \A t \in Threads : task'[t].op = "update" /\ task'[t].id \in Rows' \ freed' =>
               SameSecret(keys'[task'[t].id], task'[t].read)
    BY <2>2, <2>4 DEF SameSecret
  <2>7. \A i \in Rows' \ freed' :
               keys'[i].test \in {0, keys'[i].key} /\ SameSecret(keys'[i], given'[keys'[i].key])
    BY <2>3 DEF SameSecret
  <2>8. QED
    BY <1>5, <1>6, <2>5, <2>6, <2>7 DEF OwnSound
<1>8. CASE "secrets" \in tangled'
  BY <1>5, <1>6, <1>8 DEF OwnSound
<1>9. QED
  BY <1>7, <1>8

\* The steps of a request short of its commit.
LEMMA StepFollows ==
    ASSUME Types, NEW t \in Handlers, Step(t), ~CommitCreate(t), ~CommitUpdate(t)
    PROVE  \A u \in Threads : Follows(task[u], task'[u])
<1>1. t \in Threads /\ task[t] \in Task
  BY DEF Types, TasksOK, Threads
<1>2. ASSUME NEW k, Continue(t, k), Follows(task[t], k) PROVE \A u \in Threads : Follows(task[u], task'[u])
  <2>1. \A u \in Threads : task'[u] = IF u = t THEN k ELSE task[u]
    BY <1>1, <1>2, ContinueAt
  <2>2. QED
    BY <1>2, <2>1 DEF Follows
<1>3. Follows(task[t], NoTask)
  BY NoTaskIdle DEF Follows, KeyOps
<1>4. ASSUME NEW key PROVE Follows(task[t], WithKey(task[t], key))
  <2> DEFINE j == [task[t] EXCEPT !.pc = "commit", !.cipher = key]
             k == [task[t] EXCEPT !.use = "encrypt",
                            !.pc = IF task[t].op = "test" THEN "mark"
                                   ELSE IF task[t].active = "on" THEN "others" ELSE "key_exists"]
  <2>1. /\ j.op = task[t].op /\ j.request = task[t].request /\ j.id = task[t].id
        /\ j.read = task[t].read /\ j.fields = task[t].fields
        /\ k.op = task[t].op /\ k.request = task[t].request /\ k.id = task[t].id
        /\ k.read = task[t].read /\ k.fields = task[t].fields
    BY <1>1 DEF Task
  <2>2. WithKey(task[t], key) \in {j, k, NoTask}
    <3>1. task[t].use \in {"encrypt", "decrypt"}
      BY <1>1 DEF Task
    <3>2. QED
      BY <3>1 DEF WithKey
  <2> HIDE DEF j, k
  <2>3. QED
    BY <1>3, <2>1, <2>2 DEF Follows
<1>5. ASSUME NEW p, NEW f, NEW d
      PROVE  /\ Follows(task[t], [task[t] EXCEPT !.pc = p])
             /\ Follows(task[t], [task[t] EXCEPT !.pc = p, !.file = f, !.data = d])
             /\ Follows(task[t], [task[t] EXCEPT !.pc = p, !.others = d])
  BY <1>1 DEF Follows, Task
<1>6. CASE KeyExists(t)
  <2> DEFINE j == [task[t] EXCEPT !.pc = "open", !.file = "cipher", !.data = {task[t].request}]
             k == [task[t] EXCEPT !.pc = "key_read"]
  <2>1. Follows(task[t], j) /\ Follows(task[t], k)
    BY <1>5
  <2>2. Continue(t, j) \/ Continue(t, k)
    BY <1>6 DEF KeyExists
  <2> HIDE DEF j, k
  <2>3. QED
    BY <1>2, <2>1, <2>2
<1>7. CASE KeyRead(t)
  <2> DEFINE key == CHOOSE c \in files["cipher"].data : TRUE
  <2>1. Continue(t, WithKey(task[t], key)) \/ Continue(t, NoTask)
    BY <1>7 DEF KeyRead
  <2> HIDE DEF key
  <2>2. QED
    BY <1>2, <1>3, <1>4, <2>1
<1>8. CASE PresetsExist(t) \/ PresetsRead(t)
  <2> DEFINE d == files["presets"].data \cup {task[t].request}
             j == [task[t] EXCEPT !.pc = "open", !.file = "presets", !.data = {DEFAULTS}]
             k == [task[t] EXCEPT !.pc = "open", !.file = "presets", !.data = d]
             l == [task[t] EXCEPT !.pc = "presets_read"]
  <2>1. Follows(task[t], j) /\ Follows(task[t], k) /\ Follows(task[t], l)
    BY <1>5
  <2>2. Continue(t, j) \/ Continue(t, k) \/ Continue(t, l) \/ Continue(t, NoTask)
    BY <1>8 DEF PresetsExist, PresetsRead
  <2> HIDE DEF j, k, l
  <2>3. QED
    BY <1>2, <1>3, <2>1, <2>2
<1>9. CASE Open(t)
  <2> DEFINE k == [task[t] EXCEPT !.pc = "write"]
  <2>1. Continue(t, k) /\ Follows(task[t], k)
    BY <1>5, <1>9 DEF Open
  <2> HIDE DEF k
  <2>2. QED
    BY <1>2, <2>1
<1>10. CASE Write(t)
  <2> DEFINE l == [task[t] EXCEPT !.pc = "presets_read"]
             w == WithKey(task[t], task[t].request)
             k == CASE task[t].file = "cipher"     -> w
                    [] task[t].data = {DEFAULTS}   -> l
                    [] OTHER                       -> NoTask
  <2>1. Continue(t, k)
    BY <1>10 DEF Write
  <2>2. Follows(task[t], l) /\ Follows(task[t], w) /\ Follows(task[t], NoTask)
    BY <1>3, <1>4, <1>5
  <2>3. k \in {w, l, NoTask}
    <3>1. HandlerTask(task[t])
      BY <1>10, HandlerAt DEF Write
    <3>2. task[t].file = "cipher" => task[t].data # {DEFAULTS}
      BY <1>10, <3>1, SettingsAssumption
         DEF Write, HandlerTask, KeyTask, PresetTask, PollingTask, DeleteTask, DEFAULTS, Request
    <3> HIDE DEF l, w
    <3>3. QED
      BY <3>2
  <2> HIDE DEF k, l, w
  <2>4. QED
    BY <1>2, <2>1, <2>2, <2>3
<1>11. CASE LoadOthers(t)
  <2> DEFINE d == {id \in Rows \ {task[t].id} : keys[id].active}
             k == [task[t] EXCEPT !.pc = "key_exists", !.others = d]
  <2>1. Continue(t, k)
    BY <1>11 DEF LoadOthers
  <2>2. Follows(task[t], k)
    <3> HIDE DEF d
    <3>1. QED
      BY <1>5
  <2> HIDE DEF k
  <2>3. QED
    BY <1>2, <2>1, <2>2
<1>12. CASE MarkTest(t) \/ CommitDelete(t)
  BY <1>2, <1>3, <1>12 DEF MarkTest, CommitDelete
<1>13. QED
  BY <1>6, <1>7, <1>8, <1>9, <1>10, <1>11, <1>12 DEF Step

\* The highest id bounds the ids of the rows, and is one of them if there are any.
LEMMA TopRows == Top \in Nat /\ Top \in Rows \cup {0} /\ \A i \in Rows : i \in Nat /\ i <= Top
<1>1. Rows \in SUBSET Ids /\ REQUESTS \in Nat
  BY SettingsAssumption DEF Rows
<1>2. Rows \cup {0} \in SUBSET (0 .. REQUESTS) /\ Rows \cup {0} # {}
  BY <1>1 DEF Ids
<1>3. Max(Rows \cup {0}) \in Rows \cup {0} /\ \A x \in Rows \cup {0} : x <= Max(Rows \cup {0})
  BY <1>1, <1>2, MaxIn
<1>4. QED
  BY <1>2, <1>3 DEF Top

\* A test result is noted on the row of the key that was tested, unless its id is another's now.
LEMMA OwnMark ==
    ASSUME Types, OwnSound, NEW t \in Handlers, MarkTest(t) PROVE OwnSound'
<1> DEFINE k == task[t]
<1>1. /\ t \in Threads /\ HandlerTask(k) /\ k \in Task /\ k.op = "test" /\ k.read.key \in Request
  BY HandlerAt DEF MarkTest, Threads, HandlerTask, KeyTask, PresetTask, PollingTask, DeleteTask, UsesPresets
<1>2. \A u \in Threads : Follows(task[u], task'[u])
  BY StepFollows DEF Step, MarkTest, CommitCreate, CommitUpdate
<1>3. keys \in [Ids -> Row] /\ \A i \in Rows : keys[i].key \in Request
  BY DEF Types, TypeOK, Row, Bound
<1>4. /\ UNCHANGED <<given, freed, tangled, requests>>
      /\ \A u \in Threads : task'[u] = IF u = t THEN NoTask ELSE task[u]
  BY <1>1, ContinueAt DEF MarkTest, bounds, history, key_history
<1>5. CASE k.id \notin Rows
  <2>1. keys' = keys /\ Rows' = Rows
    BY <1>5 DEF MarkTest, Rows, Exists
  <2>2. QED
    BY <1>2, <1>4, <2>1, OwnFrame DEF SameSecret
<1>6. CASE k.id \in Rows
  <2>1. /\ \A i \in Ids : /\ keys'[i].key = keys[i].key /\ SameSecret(keys'[i], keys[i])
                          /\ keys'[i].test = IF i = k.id THEN k.read.key ELSE keys[i].test
        /\ \A i \in Ids \ Rows : keys'[i] = keys[i]
    BY <1>3, <1>6 DEF MarkTest, Row, SameSecret
  <2>2. Rows' = Rows
    <3>1. \A i \in Rows : keys'[i] # NoRow
      BY <1>3, <2>1, SettingsAssumption DEF NoRow, Rows, Request
    <3>2. QED
      BY <2>1, <3>1 DEF Rows, Exists
  <2>3. Top' = Top
    BY <2>2 DEF Top
  <2>4. /\ \A i \in Rows : i \in Ids /\ keys'[i].key = keys[i].key
        /\ \A i \in Rows : keys[i].key <= requests
        /\ \A i, j \in Rows : keys[i].key = keys[j].key => i = j
        /\ \A u \in Threads : Owned(u)
    BY <2>1 DEF OwnSound, Rows
  <2>5. \A u \in Threads : Owned(u)'
    BY <1>4, <2>2, <2>3, <2>4, NoTaskIdle DEF Owned, Named
  <2>6. ASSUME "secrets" \notin tangled
        PROVE  /\ \A u, v \in Threads :
                    task'[u].op = "update" /\ task'[v].op = "update" /\ task'[u].id = task'[v].id => u = v
               /\ \A u \in Threads : task'[u].op = "update" /\ task'[u].id \in Rows \ freed =>
                    SameSecret(keys'[task'[u].id], task'[u].read)
               /\ \A i \in Rows \ freed :
                    keys'[i].test \in {0, keys'[i].key} /\ SameSecret(keys'[i], given[keys'[i].key])
    <3>1. k.id \notin freed => keys[k.id].key = k.read.key
      BY <1>1, <1>6, <2>4 DEF Owned, Named
    <3>2. \A i \in Rows \ freed : keys[i].test \in {0, keys[i].key} /\ SameSecret(keys[i], given[keys[i].key])
      BY <2>6 DEF OwnSound
    <3>3. \A u \in Threads : task'[u].op = "update" => task'[u] = task[u]
      BY <1>4, NoTaskIdle
    <3>4. \A u, v \in Threads :
             task[u].op = "update" /\ task[v].op = "update" /\ task[u].id = task[v].id => u = v
      BY <2>6 DEF OwnSound
    <3>5. \A u \in Threads : task[u].op = "update" /\ task[u].id \in Rows \ freed =>
                    SameSecret(keys[task[u].id], task[u].read)
      BY <2>6 DEF OwnSound
    <3>6. \A i \in Rows \ freed :
             keys'[i].test \in {0, keys'[i].key} /\ SameSecret(keys'[i], given[keys'[i].key])
      BY <2>1, <2>4, <3>1, <3>2 DEF SameSecret
    <3>7. QED
      BY <2>1, <2>4, <3>3, <3>4, <3>5, <3>6 DEF SameSecret
  <2>7. /\ \A i \in Rows' : keys'[i].key <= requests'
        /\ \A i, j \in Rows' : keys'[i].key = keys'[j].key => i = j
    BY <1>4, <2>2, <2>4
  <2>8. QED
    BY <1>4, <2>2, <2>5, <2>6, <2>7 DEF OwnSound
<1>7. QED
  BY <1>5, <1>6

\* A new task about a key.
LEMMA OwnBegin ==
    ASSUME Types, OwnSound, NEW t \in Handlers, NEW k \in Task, Begin(t, k),
           requests' = requests + 1, UNCHANGED <<keys, given, freed>>,
           k.request = requests + 1, Named(k) => k.id \in Rows /\ k.read = keys[k.id]
    PROVE  OwnSound'
<1>1. t \in Threads /\ task \in [Threads -> Task] /\ task[t] = NoTask /\ requests \in Nat
  BY SettingsAssumption DEF Begin, Idle, Types, TypeOK, TasksOK, Threads
<1>2. PICK b \in BOOLEAN : task'[t] = [k EXCEPT !.mixed = b]
  BY <1>1, BeginTypes
<1>3. /\ task'[t].op = k.op /\ task'[t].request = k.request /\ task'[t].id = k.id /\ task'[t].read = k.read
  BY <1>2 DEF Task
<1>4. ASSUME NEW u \in Threads \ {t}
      PROVE  /\ task'[u].op = task[u].op /\ task'[u].request = task[u].request /\ task'[u].id = task[u].id
             /\ task'[u].read = task[u].read
  <2>1. task'[u] = task[u] \/ task'[u] = [task[u] EXCEPT !.mixed = TRUE]
    BY <1>1, BeginTypes
  <2>2. QED
    BY <1>1, <2>1 DEF Task
<1>5. \A u \in Threads : task[u].request \in Nat /\ (Named(task[u]) => task[u].read.key \in Nat)
  <2> TAKE u \in Threads
  <2>1. task[u] \in Task
    BY <1>1
  <2>2. QED
    BY <2>1, SettingsAssumption DEF Task, Row, Bound
<1>6. /\ \A i \in Rows : keys[i].key <= requests /\ keys[i].key \in Nat
      /\ \A i, j \in Rows : keys[i].key = keys[j].key => i = j
      /\ \A u \in Threads : Owned(u)
  BY SettingsAssumption DEF OwnSound, Types, TypeOK, Request
<1>7. Rows' = Rows /\ Top' = Top
  BY DEF Rows, Exists, Top
<1>8. Named(k) => k.id <= Top
  BY TopRows
<1>9. ASSUME NEW u \in Threads \ {t} PROVE Owned(u)'
  <2>1. CASE task[u].op = "create"
    <3>1. /\ task[u].request <= requests /\ \A i \in Rows : keys[i].key # task[u].request
          /\ \A v \in Threads : /\ Named(task[v]) => task[v].read.key # task[u].request
                                /\ task[v].op = "create" /\ task[v].request = task[u].request => v = u
      BY <1>6, <2>1 DEF Owned
    <3>2. \A v \in Threads : /\ Named(task'[v]) => task'[v].read.key # task[u].request
                             /\ task'[v].op = "create" /\ task'[v].request = task[u].request => v = u
      <4>1. k.request # task[u].request
        BY <1>1, <1>5, <3>1
      <4>2. Named(k) => k.read.key # task[u].request
        BY <3>1
      <4>3. QED
        BY <1>3, <1>4, <3>1, <4>1, <4>2 DEF Named
    <3>3. task[u].request <= requests'
      BY <1>1, <1>5, <3>1
    <3>4. QED
      BY <1>4, <1>7, <2>1, <3>1, <3>2, <3>3 DEF Owned, Named
  <2>2. CASE Named(task[u])
    BY <1>1, <1>4, <1>5, <1>6, <1>7, <2>2 DEF Owned, Named
  <2>3. QED
    BY <1>4, <2>1, <2>2 DEF Owned, Named
<1>10. Owned(t)'
  <2>1. CASE k.op = "create"
    <3>1. k.request <= requests' /\ \A i \in Rows : keys[i].key # k.request
      BY <1>1, <1>6
    <3>2. \A v \in Threads \ {t} : /\ Named(task[v]) => task[v].read.key # k.request
                                   /\ task[v].op = "create" => task[v].request # k.request
      BY <1>1, <1>5, <1>6 DEF Owned
    <3>3. \A v \in Threads : /\ Named(task'[v]) => task'[v].read.key # k.request
                             /\ task'[v].op = "create" /\ task'[v].request = k.request => v = t
      BY <1>3, <1>4, <2>1, <3>2 DEF Named
    <3>4. QED
      BY <1>3, <1>7, <2>1, <3>1, <3>3 DEF Owned, Named
  <2>2. CASE Named(k)
    <3>1. k.read.key <= requests'
      BY <1>1, <1>6, <2>2
    <3>2. QED
      BY <1>3, <1>6, <1>7, <1>8, <2>2, <3>1 DEF Owned, Named
  <2>3. QED
    BY <1>3, <2>1, <2>2 DEF Owned, Named
<1>11. CASE "secrets" \notin tangled'
  <2>1. "secrets" \notin tangled /\ "secrets" \notin Tangles(k)
    BY <1>11 DEF Begin
  <2>2. k.op = "update" => \A u \in Threads : ~(task[u].op = "update" /\ task[u].id = k.id)
    BY <2>1 DEF Tangles
  <2>3. \A u, v \in Threads :
           task[u].op = "update" /\ task[v].op = "update" /\ task[u].id = task[v].id => u = v
    BY <2>1 DEF OwnSound
  <2>4. \A u \in Threads : task[u].op = "update" /\ task[u].id \in Rows \ freed =>
                    SameSecret(keys[task[u].id], task[u].read)
    BY <2>1 DEF OwnSound
  <2>5. \A i \in Rows \ freed : keys[i].test \in {0, keys[i].key} /\ SameSecret(keys[i], given[keys[i].key])
    BY <2>1 DEF OwnSound
  <2>6. \A u, v \in Threads :
           task'[u].op = "update" /\ task'[v].op = "update" /\ task'[u].id = task'[v].id => u = v
    BY <1>3, <1>4, <2>2, <2>3
  <2>7. \A u \in Threads : task'[u].op = "update" /\ task'[u].id \in Rows \ freed =>
                    SameSecret(keys[task'[u].id], task'[u].read)
    BY <1>3, <1>4, <2>4 DEF SameSecret, Named
  <2>8. \A i \in Rows : keys[i].key <= requests'
    BY <1>1, <1>6
  <2>9. QED
    BY <1>6, <1>7, <1>9, <1>10, <2>5, <2>6, <2>7, <2>8 DEF OwnSound
<1>12. CASE "secrets" \in tangled'
  <2>1. \A i \in Rows : keys[i].key <= requests'
    BY <1>1, <1>6
  <2>2. QED
    BY <1>6, <1>7, <1>9, <1>10, <1>12, <2>1 DEF OwnSound
<1>13. QED
  BY <1>11, <1>12

\* What a deletion leaves, or frees.
LEMMA OwnDelete ==
    ASSUME Types, OwnSound, NEW t \in Handlers, CommitDelete(t) PROVE OwnSound'
<1> DEFINE id == task[t].id
<1>0. t \in Threads /\ id \in Ids
  BY HandlerAt DEF CommitDelete, Threads, HandlerTask, KeyTask, PresetTask, PollingTask, DeleteTask
<1>1. keys \in [Ids -> Row] /\ requests \in Nat /\ \A i \in Rows : keys[i].key \in Nat
  BY SettingsAssumption DEF Types, TypeOK, Row, Bound, Request
<1>2. /\ tangled' = tangled /\ requests' = requests /\ given' = given
      /\ \A i \in Ids : keys'[i] = IF i = id THEN NoRow ELSE keys[i]
  BY <1>0, <1>1 DEF CommitDelete, bounds
<1>3. Rows' = Rows \ {id} /\ \A i \in Rows' : keys'[i] = keys[i]
  BY <1>2 DEF Rows, Exists
<1>4. \A u \in Threads : task'[u] = task[u] \/ task'[u] = NoTask
  BY <1>0, ContinueAt DEF CommitDelete
<1>5. freed' = freed \cup ((Top' + 1) .. Top)
  BY <1>3 DEF CommitDelete, Top
<1> HIDE DEF id
<1>6. \A u \in Threads : Named(task[u]) => task[u].id \in Nat /\ task[u].read.key \in Nat
  <2> TAKE u \in Threads
  <2>1. task[u] \in Task
    BY DEF Types, TasksOK
  <2>2. QED
    BY <2>1, SettingsAssumption DEF Task, Row, Bound
<1>7. Top \in Nat /\ Top' \in Nat
  <2>1. Rows' \in SUBSET Ids
    BY DEF Rows
  <2>2. Top' = Max(Rows' \cup {0})
    BY DEF Top
  <2>3. Max(Rows' \cup {0}) \in Bound
    BY <2>1, MaxRows
  <2>4. QED
    BY <2>2, <2>3, TopRows, SettingsAssumption DEF Bound
<1>8. ASSUME NEW u \in Threads PROVE Owned(u)'
  <2>1. Owned(u)
    BY DEF OwnSound
  <2>2. Named(task[u]) => task[u].id \in freed' \/ task[u].id <= Top'
    BY <1>5, <1>6, <1>7, <2>1 DEF Owned
  <2>3. CASE task'[u] = task[u] /\ task[u].op = "create"
    <3>1. ASSUME NEW v \in Threads
          PROVE  /\ Named(task'[v]) => task'[v].read.key # task[u].request
                 /\ task'[v].op = "create" /\ task'[v].request = task[u].request => v = u
      BY <1>4, <2>1, <2>3, NoTaskIdle DEF Owned, Named
    <3>2. \A i \in Rows' : keys'[i].key # task[u].request
      BY <1>3, <2>1, <2>3 DEF Owned
    <3>3. QED
      BY <1>2, <2>1, <2>3, <3>1, <3>2 DEF Owned, Named
  <2>4. CASE task'[u] = task[u] /\ Named(task[u])
    <3>1. /\ \A i \in Rows' : keys'[i].key = task[u].read.key => i = task[u].id
          /\ task[u].id \in Rows' \ freed' => keys'[task[u].id].key = task[u].read.key
      BY <1>3, <1>5, <2>1, <2>4 DEF Owned
    <3>2. QED
      BY <1>2, <2>1, <2>2, <2>4, <3>1 DEF Owned, Named
  <2>5. CASE task'[u] = NoTask
    BY <2>5, NoTaskIdle DEF Owned, Named
  <2>6. QED
    BY <1>4, <2>3, <2>4, <2>5 DEF Owned
<1>9. /\ \A i \in Rows' : keys'[i].key <= requests'
      /\ \A i, j \in Rows' : keys'[i].key = keys'[j].key => i = j
  BY <1>1, <1>2, <1>3 DEF OwnSound
<1>10. ASSUME "secrets" \notin tangled
       PROVE  /\ \A u, v \in Threads :
                    task'[u].op = "update" /\ task'[v].op = "update" /\ task'[u].id = task'[v].id => u = v
              /\ \A u \in Threads : task'[u].op = "update" /\ task'[u].id \in Rows' \ freed' =>
                    SameSecret(keys'[task'[u].id], task'[u].read)
              /\ \A i \in Rows' \ freed' :
                    keys'[i].test \in {0, keys'[i].key} /\ SameSecret(keys'[i], given[keys'[i].key])
  <2>1. \A u \in Threads : task[u].op = "update" /\ task[u].id \in Rows \ freed =>
                    SameSecret(keys[task[u].id], task[u].read)
    BY <1>10 DEF OwnSound
  <2>2. \A i \in Rows \ freed : keys[i].test \in {0, keys[i].key} /\ SameSecret(keys[i], given[keys[i].key])
    BY <1>10 DEF OwnSound
  <2>3. \A i \in Rows' \ freed' : i \in Rows \ freed /\ keys'[i] = keys[i]
    BY <1>3, <1>5
  <2>4. \A u \in Threads : task'[u].op = "update" => task'[u] = task[u]
    BY <1>4, NoTaskIdle
  <2>5. \A u, v \in Threads :
           task[u].op = "update" /\ task[v].op = "update" /\ task[u].id = task[v].id => u = v
    BY <1>10 DEF OwnSound
  <2>6. QED
    BY <2>1, <2>2, <2>3, <2>4, <2>5
<1>11. QED
  BY <1>2, <1>8, <1>9, <1>10 DEF OwnSound

\* A key that comes to be is no one's that a task has read, and gets an id above every row's.
LEMMA OwnCreate ==
    ASSUME Types, OwnSound, NEW t \in Handlers, CommitCreate(t) PROVE OwnSound'
<1> DEFINE k == task[t]
           row == [key |-> k.request, active |-> k.active = "on", partner_id |-> k.request,
                   checkword |-> k.request, cipher |-> k.cipher, test |-> 0]
           secret == [partner_id |-> k.request, checkword |-> k.request]
<1>1. /\ t \in Threads /\ HandlerTask(k) /\ k \in Task /\ k.request \in Request /\ k.request # 0
      /\ k.op = "create"
  BY HandlerAt, SettingsAssumption DEF CommitCreate, Threads, HandlerTask, Request
<1>2. /\ \A u \in Threads : task'[u] = IF u = t THEN NoTask ELSE task[u]
      /\ UNCHANGED <<tangled, requests, freed>>
  BY <1>1, ContinueAt DEF CommitCreate, bounds
<1>3. /\ keys \in [Ids -> Row] /\ \A i \in Rows : i \in Ids /\ keys[i].key \in Request
      /\ DOMAIN given = Request
  BY DEF Types, TypeOK, Row, Bound, Rows
<1>4. CASE ~(k.others \subseteq Rows)
  <2>1. UNCHANGED <<keys, given>> /\ Rows' = Rows
    BY <1>4 DEF CommitCreate, Rows, Exists
  <2>2. \A u \in Threads : Follows(task[u], task'[u])
    BY <1>2, NoTaskIdle DEF Follows, KeyOps
  <2>3. QED
    BY <1>2, <2>1, <2>2, OwnFrame DEF SameSecret
<1>5. CASE k.others \subseteq Rows
  <2>1. /\ keys' = [Deactivated(k.others) EXCEPT ![Top + 1] = row]
        /\ given' = [given EXCEPT ![k.request] = secret]
    BY <1>5 DEF CommitCreate, Top
  <2>2. \A i \in Ids : keys'[i] = IF i = Top + 1 THEN row
                                  ELSE IF i \in k.others THEN [keys[i] EXCEPT !.active = FALSE] ELSE keys[i]
    BY <1>3, <2>1 DEF Deactivated
  <2>3. \A c \in Request : given'[c] = IF c = k.request THEN secret ELSE given[c]
    BY <1>3, <2>1
  <2>4. /\ row.key = k.request /\ row.test = 0 /\ row.partner_id = k.request
        /\ row.checkword = k.request /\ row # NoRow
        /\ secret.partner_id = k.request /\ secret.checkword = k.request
    <3>1. row.key = k.request /\ NoRow.key = 0
      BY DEF NoRow
    <3>2. QED
      BY <1>1, <3>1
  <2> HIDE DEF row, secret
  <2>5. \A i \in Rows : i # Top + 1
    BY TopRows
  <2>6. \A i \in Rows : /\ i \in Ids /\ i # Top + 1 /\ keys'[i].key = keys[i].key
                        /\ keys'[i].test = keys[i].test /\ SameSecret(keys'[i], keys[i])
    <3>1. \A i \in Rows : i \in Ids /\ keys[i] \in Row
      BY <1>3
    <3>2. QED
      BY <2>2, <2>5, <3>1 DEF Row, SameSecret
  <2>7. /\ Rows \subseteq Rows'
        /\ \A i \in Rows' \ Rows : i = Top + 1 /\ keys'[i] = row
    <3>1. \A i \in Rows : keys'[i] # NoRow
      BY <1>3, <2>6, SettingsAssumption DEF NoRow, Request
    <3>2. \A i \in Ids \ Rows : i # Top + 1 => keys'[i] = keys[i]
      BY <1>5, <2>2
    <3>3. QED
      BY <2>2, <2>6, <3>1, <3>2 DEF Rows, Exists
  <2>8. Top \in Nat /\ Top' \in Nat /\ Top <= Top'
    <3>1. Rows' \in SUBSET Ids /\ Top' = Max(Rows' \cup {0})
      BY DEF Rows, Top
    <3>2. Top' \in Bound /\ \A i \in Rows' : i <= Top'
      BY <3>1, MaxRows
    <3>3. QED
      BY <2>7, <3>2, TopRows, SettingsAssumption DEF Bound
  <2>9. /\ \A i \in Rows : keys[i].key <= requests
        /\ \A i, j \in Rows : keys[i].key = keys[j].key => i = j
        /\ \A u \in Threads : Owned(u)
    BY DEF OwnSound
  <2>10. /\ k.request <= requests /\ \A i \in Rows : keys[i].key # k.request
         /\ \A u \in Threads \ {t} : /\ Named(task[u]) => task[u].read.key # k.request
                                     /\ task[u].op = "create" => task[u].request # k.request
    BY <1>1, <2>9 DEF Owned
  <2>11. /\ \A i \in Rows' : keys'[i].key <= requests'
         /\ \A i, j \in Rows' : keys'[i].key = keys'[j].key => i = j
    BY <1>2, <2>4, <2>6, <2>7, <2>9, <2>10
  <2>12. ASSUME NEW u \in Threads, u # t PROVE Owned(u)'
    <3>1. task'[u] = task[u] /\ Owned(u)
      BY <1>2, <2>9, <2>12
    <3>2. CASE task[u].op = "create"
      <4>1. \A i \in Rows' : keys'[i].key # task[u].request
        BY <2>4, <2>6, <2>7, <2>10, <2>12, <3>1, <3>2 DEF Owned
      <4>2. QED
        BY <1>2, <3>1, <3>2, <4>1, NoTaskIdle DEF Owned, Named
    <3>3. CASE Named(task[u])
      <4>1. task[u].id \in Nat
        <5>1. task[u] \in Task
          BY DEF Types, TasksOK
        <5>2. QED
          BY <5>1, SettingsAssumption DEF Task, Bound
      <4>2. task[u].id \in freed \/ task[u].id <= Top'
        BY <2>8, <3>1, <3>3, <4>1 DEF Owned
      <4>3. \A i \in Rows' : keys'[i].key = task[u].read.key => i = task[u].id
        BY <2>4, <2>6, <2>7, <2>10, <2>12, <3>1, <3>3 DEF Owned
      <4>4. ASSUME task[u].id \in Rows' \ freed PROVE keys'[task[u].id].key = task[u].read.key
        <5>1. task[u].id <= Top
          BY <3>1, <3>3, <4>4 DEF Owned
        <5>2. task[u].id \in Rows
          BY <2>7, <2>8, <4>1, <4>4, <5>1
        <5>3. QED
          BY <2>6, <3>1, <3>3, <4>4, <5>2 DEF Owned
      <4>5. QED
        BY <1>2, <3>1, <3>3, <4>2, <4>3, <4>4 DEF Owned, Named
    <3>4. QED
      BY <3>1, <3>2, <3>3 DEF Owned
  <2>13. Owned(t)'
    BY <1>1, <1>2, NoTaskIdle DEF Owned, Named
  <2>14. ASSUME "secrets" \notin tangled
         PROVE  /\ \A u, v \in Threads :
                     task'[u].op = "update" /\ task'[v].op = "update" /\ task'[u].id = task'[v].id => u = v
                /\ \A u \in Threads : task'[u].op = "update" /\ task'[u].id \in Rows' \ freed =>
                     SameSecret(keys'[task'[u].id], task'[u].read)
                /\ \A i \in Rows' \ freed :
                     keys'[i].test \in {0, keys'[i].key} /\ SameSecret(keys'[i], given'[keys'[i].key])
    <3>1. /\ \A u, v \in Threads :
                task[u].op = "update" /\ task[v].op = "update" /\ task[u].id = task[v].id => u = v
          /\ \A u \in Threads : task[u].op = "update" /\ task[u].id \in Rows \ freed =>
                SameSecret(keys[task[u].id], task[u].read)
          /\ \A i \in Rows \ freed : keys[i].test \in {0, keys[i].key} /\ SameSecret(keys[i], given[keys[i].key])
      BY <2>14 DEF OwnSound
    <3>2. \A u \in Threads : task'[u].op = "update" => task'[u] = task[u]
      BY <1>2, NoTaskIdle
    <3>3. ASSUME NEW u \in Threads, task'[u].op = "update", task'[u].id \in Rows' \ freed
          PROVE  SameSecret(keys'[task'[u].id], task'[u].read)
      <4>1. task'[u] = task[u] /\ Named(task[u]) /\ Owned(u)
        BY <2>9, <3>2, <3>3 DEF Named
      <4>2. task[u].id \in Nat /\ task[u].id <= Top
        <5>1. task[u] \in Task
          BY DEF Types, TasksOK
        <5>2. QED
          BY <3>3, <4>1, <5>1, SettingsAssumption DEF Task, Bound, Owned
      <4>3. task[u].id \in Rows
        BY <2>7, <2>8, <3>3, <4>1, <4>2
      <4>4. QED
        BY <2>6, <3>1, <3>3, <4>1, <4>3 DEF SameSecret
    <3>4. ASSUME NEW i \in Rows' \ freed
          PROVE  keys'[i].test \in {0, keys'[i].key} /\ SameSecret(keys'[i], given'[keys'[i].key])
      <4>1. CASE i \in Rows
        BY <1>3, <2>3, <2>6, <2>10, <3>1, <3>4, <4>1 DEF SameSecret
      <4>2. CASE i \notin Rows
        BY <1>1, <2>3, <2>4, <2>7, <3>4, <4>2 DEF SameSecret
      <4>3. QED
        BY <4>1, <4>2
    <3>5. QED
      BY <3>1, <3>2, <3>3, <3>4
  <2>15. QED
    BY <1>2, <2>11, <2>12, <2>13, <2>14 DEF OwnSound
<1>6. QED
  BY <1>4, <1>5

\* An update writes the secret of the row that it has read: the halves it is given, and the
\* others as it read them.
LEMMA OwnUpdate ==
    ASSUME Types, OwnSound, NEW t \in Handlers, CommitUpdate(t) PROVE OwnSound'
<1> DEFINE k == task[t]
           p == IF "partner_id" \in k.fields THEN k.request ELSE k.read.partner_id
           c == IF "checkword" \in k.fields THEN k.request ELSE k.read.checkword
           old == given[k.read.key]
           secret == [half \in DOMAIN old |-> IF half \in k.fields THEN k.request ELSE old[half]]
<1>1. /\ t \in Threads /\ HandlerTask(k) /\ KeyTask(k) /\ k \in Task /\ k.op = "update"
      /\ k.read \in Row /\ k.read.key \in Request
  BY HandlerAt DEF CommitUpdate, Threads, HandlerTask, KeyTask, PresetTask, PollingTask, DeleteTask, UsesPresets, Task
<1>2. /\ \A u \in Threads : task'[u] = IF u = t THEN NoTask ELSE task[u]
      /\ UNCHANGED <<tangled, requests, freed>>
  BY <1>1, ContinueAt DEF CommitUpdate, bounds
<1>3. /\ keys \in [Ids -> Row] /\ \A i \in Rows : i \in Ids /\ keys[i].key \in Request
      /\ DOMAIN given = Request /\ DOMAIN old = {"partner_id", "checkword"}
  BY <1>1 DEF Types, TypeOK, Row, Bound, Rows
<1>4. CASE ~(k.others \cup {k.id} \subseteq Rows)
  <2>1. UNCHANGED <<keys, given>> /\ Rows' = Rows
    BY <1>4 DEF CommitUpdate, Rows, Exists
  <2>2. \A u \in Threads : Follows(task[u], task'[u])
    BY <1>2, NoTaskIdle DEF Follows, KeyOps
  <2>3. QED
    BY <1>2, <2>1, <2>2, OwnFrame DEF SameSecret
<1>5. ASSUME k.others \cup {k.id} \subseteq Rows
      PROVE  /\ Rows' = Rows
             /\ \A i \in Rows : keys'[i].key = keys[i].key /\ keys'[i].test = keys[i].test
             /\ \A i \in Rows \ {k.id} : SameSecret(keys'[i], keys[i])
             /\ keys'[k.id].partner_id = p /\ keys'[k.id].checkword = c
             /\ \A r \in Request : r # k.read.key => given'[r] = given[r]
             /\ given'[k.read.key] = secret
  <2> DEFINE D == Deactivated(k.others)
             row == Updated(k, D[k.id])
  <2>1. keys' = [D EXCEPT ![k.id] = row] /\ k.id \in Ids /\ k.id \in Rows
    BY <1>3, <1>5 DEF CommitUpdate
  <2>2. \A i \in Ids : D[i] = IF i \in k.others THEN [keys[i] EXCEPT !.active = FALSE] ELSE keys[i]
    BY DEF Deactivated
  <2>3. D \in [Ids -> Row] /\ \A i \in Ids \ k.others : D[i] = keys[i]
    <3>1. DOMAIN D = Ids /\ D = [i \in Ids |-> D[i]]
      BY DEF Deactivated
    <3>2. \A i \in Ids : D[i] \in Row
      BY <1>3, <2>2 DEF Row
    <3> HIDE DEF D
    <3>3. QED
      BY <2>2, <3>1, <3>2
  <2>4. \A i \in Rows : /\ i \in Ids /\ D[i].key = keys[i].key /\ D[i].test = keys[i].test
                        /\ SameSecret(D[i], keys[i])
    <3> TAKE i \in Rows
    <3>1. i \in Ids /\ keys[i] \in Row
      BY <1>3
    <3> HIDE DEF D
    <3>2. QED
      BY <2>2, <3>1 DEF Row, SameSecret
  <2>5. row.key = D[k.id].key /\ row.test = D[k.id].test /\ row.partner_id = p /\ row.checkword = c
    <3>1. D[k.id] \in Row
      BY <2>1, <2>3
    <3> HIDE DEF D
    <3>2. QED
      BY <3>1 DEF Updated, Row
  <2>6. \A i \in Ids : keys'[i] = IF i = k.id THEN row ELSE D[i]
    <3> HIDE DEF D, row
    <3>1. QED
      BY <2>1, <2>3
  <2>7. given' = [given EXCEPT ![k.read.key] = secret]
    BY <1>1, <1>5 DEF CommitUpdate
  <2> HIDE DEF D, row, p, c, secret
  <2>8. \A i \in Rows : keys'[i].key = keys[i].key /\ keys'[i].test = keys[i].test
    BY <2>4, <2>5, <2>6
  <2>9. Rows' = Rows
    <3>1. \A i \in Rows : keys'[i] # NoRow
      BY <1>3, <2>8, SettingsAssumption DEF NoRow, Request
    <3>2. \A i \in Ids \ Rows : keys'[i] = keys[i]
      BY <1>5, <2>3, <2>6
    <3>3. QED
      BY <3>1, <3>2 DEF Rows, Exists
  <2>10. \A i \in Rows \ {k.id} : SameSecret(keys'[i], keys[i])
    BY <2>4, <2>6
  <2>11. keys'[k.id].partner_id = p /\ keys'[k.id].checkword = c
    BY <2>1, <2>5, <2>6
  <2>12. /\ \A r \in Request : r # k.read.key => given'[r] = given[r]
         /\ given'[k.read.key] = secret
    BY <1>1, <1>3, <2>7
  <2>13. QED
    BY <2>8, <2>9, <2>10, <2>11, <2>12
<1>6. CASE k.others \cup {k.id} \subseteq Rows
  <2>1. /\ Rows' = Rows /\ Top' = Top /\ k.id \in Rows
        /\ \A i \in Rows : keys'[i].key = keys[i].key /\ keys'[i].test = keys[i].test
        /\ \A i \in Rows \ {k.id} : SameSecret(keys'[i], keys[i])
        /\ keys'[k.id].partner_id = p /\ keys'[k.id].checkword = c
        /\ \A r \in Request : r # k.read.key => given'[r] = given[r]
        /\ given'[k.read.key] = secret
    BY <1>5, <1>6 DEF Top
  <2>2. secret.partner_id = (IF "partner_id" \in k.fields THEN k.request ELSE old.partner_id)
        /\ secret.checkword = (IF "checkword" \in k.fields THEN k.request ELSE old.checkword)
    BY <1>3
  <2> HIDE DEF secret
  <2>3. /\ \A i \in Rows : keys[i].key <= requests
        /\ \A i, j \in Rows : keys[i].key = keys[j].key => i = j
        /\ \A u \in Threads : Owned(u)
    BY DEF OwnSound
  <2>4. \A u \in Threads : Owned(u)'
    BY <1>2, <2>1, <2>3, NoTaskIdle DEF Owned, Named
  <2>5. /\ \A i \in Rows : keys[i].key = k.read.key => i = k.id
        /\ k.id \notin freed => keys[k.id].key = k.read.key
    BY <1>1, <2>1, <2>3 DEF Owned, Named
  <2>6. ASSUME "secrets" \notin tangled
        PROVE  /\ \A u, v \in Threads :
                    task'[u].op = "update" /\ task'[v].op = "update" /\ task'[u].id = task'[v].id => u = v
               /\ \A u \in Threads : task'[u].op = "update" /\ task'[u].id \in Rows \ freed =>
                    SameSecret(keys'[task'[u].id], task'[u].read)
               /\ \A i \in Rows \ freed :
                    keys'[i].test \in {0, keys'[i].key} /\ SameSecret(keys'[i], given'[keys'[i].key])
    <3>1. \A u, v \in Threads :
             task[u].op = "update" /\ task[v].op = "update" /\ task[u].id = task[v].id => u = v
      BY <2>6 DEF OwnSound
    <3>2. \A u \in Threads : task[u].op = "update" /\ task[u].id \in Rows \ freed =>
             SameSecret(keys[task[u].id], task[u].read)
      BY <2>6 DEF OwnSound
    <3>3. \A i \in Rows \ freed : keys[i].test \in {0, keys[i].key} /\ SameSecret(keys[i], given[keys[i].key])
      BY <2>6 DEF OwnSound
    <3>4. \A u \in Threads : task'[u].op = "update" => task'[u] = task[u] /\ u # t
      BY <1>2, NoTaskIdle
    <3>5. \A u \in Threads : task'[u].op = "update" => task'[u].id # k.id
      BY <1>1, <3>1, <3>4
    <3>6. \A u \in Threads : task'[u].op = "update" /\ task'[u].id \in Rows \ freed =>
             SameSecret(keys'[task'[u].id], task'[u].read)
      BY <2>1, <3>2, <3>4, <3>5 DEF SameSecret
    <3>7. ASSUME NEW i \in Rows \ freed PROVE SameSecret(keys'[i], given'[keys'[i].key])
      <4>1. CASE i # k.id
        BY <1>3, <2>1, <2>5, <3>3, <4>1 DEF SameSecret
      <4>2. CASE i = k.id
        <5>1. keys'[i].key = k.read.key /\ SameSecret(keys[i], old) /\ SameSecret(keys[i], k.read)
          BY <1>1, <2>1, <2>5, <3>2, <3>3, <4>2
        <5>2. QED
          BY <2>1, <2>2, <4>2, <5>1 DEF SameSecret
      <4>3. QED
        BY <4>1, <4>2
    <3>8. QED
      BY <2>1, <3>1, <3>3, <3>4, <3>6, <3>7
  <2>7. QED
    BY <1>2, <2>1, <2>3, <2>4, <2>6 DEF OwnSound
<1>7. QED
  BY <1>4, <1>6

\* The same, of a request that has got its number.
LEMMA OwnAsked ==
    ASSUME Types, OwnSound, NEW t \in Handlers, NEW k \in Task, Asked(t, k),
           UNCHANGED <<keys, key_history>>, Named(k) => k.id \in Rows /\ k.read = keys[k.id]
    PROVE  OwnSound'
<1> DEFINE j == [k EXCEPT !.request = requests + 1]
<1>1. requests + 1 \in Bound
  BY AskedRequest
<1>2. j \in Task /\ j.op = k.op /\ j.request = requests + 1 /\ j.id = k.id /\ j.read = k.read
  BY <1>1 DEF Task
<1>3. Begin(t, j) /\ requests' = requests + 1 /\ UNCHANGED <<keys, given, freed>>
  BY DEF Asked, key_history
<1> HIDE DEF j
<1>4. QED
  BY <1>2, <1>3, OwnBegin DEF Named

\* Requests that are taken up keep what a secret relies on.
LEMMA OwnRequests ==
    ASSUME Types, OwnSound, KeysNext \/ FilesNext PROVE OwnSound'
<1>1. NoTask \in Task /\ NoTask.op = "none"
  BY NoTaskType DEF NoTask
<1>2. ASSUME NEW t \in Handlers, NEW k \in Task, Asked(t, k), UNCHANGED <<keys, key_history>>, ~Named(k)
      PROVE  OwnSound'
  BY <1>2, OwnAsked
<1>3. ASSUME NEW t \in Handlers, NEW active \in {"on", "off"}, CreateBegin(t, active) PROVE OwnSound'
  <2> DEFINE k == [NoTask EXCEPT !.op = "create", !.active = active,
                                 !.pc = IF active = "on" THEN "others" ELSE "key_exists"]
  <2>1. k \in Task /\ ~Named(k)
    BY <1>1 DEF Task, Pcs, Named
  <2>2. QED
    BY <1>2, <1>3, <2>1 DEF CreateBegin
<1>4. ASSUME NEW t \in Handlers, NEW id \in Ids, NEW active \in {"keep", "on", "off"},
             NEW fields \in {{}, {"partner_id"}, {"checkword"}}, UpdateBegin(t, id, active, fields)
      PROVE  OwnSound'
  <2> DEFINE k == [NoTask EXCEPT !.op = "update", !.id = id, !.read = keys[id], !.active = active,
                                 !.fields = fields, !.use = "decrypt", !.pc = "key_exists"]
  <2>1. keys[id] \in Row /\ fields \in SUBSET Halves /\ id \in Bound
    BY SettingsAssumption DEF Types, TypeOK, Row, Bound, Halves, Ids
  <2>2. k \in Task /\ k.id = id /\ k.read = keys[id]
    BY <1>1, <2>1 DEF Task, Pcs
  <2>3. Asked(t, k) /\ UNCHANGED <<keys, key_history>> /\ id \in Rows
    BY <1>4 DEF UpdateBegin, Rows
  <2> HIDE DEF k
  <2>4. QED
    BY <2>2, <2>3, OwnAsked
<1>5. ASSUME NEW t \in Handlers, NEW id \in Ids, TestBegin(t, id) PROVE OwnSound'
  <2> DEFINE k == [NoTask EXCEPT !.op = "test", !.id = id, !.read = keys[id],
                                 !.use = "decrypt", !.pc = "key_exists"]
  <2>1. keys[id] \in Row /\ id \in Bound
    BY SettingsAssumption DEF Types, TypeOK, Row, Bound, Ids
  <2>2. k \in Task /\ k.id = id /\ k.read = keys[id]
    BY <1>1, <2>1 DEF Task, Pcs
  <2>3. Asked(t, k) /\ UNCHANGED <<keys, key_history>> /\ id \in Rows
    BY <1>5 DEF TestBegin, Rows
  <2> HIDE DEF k
  <2>4. QED
    BY <2>2, <2>3, OwnAsked
<1>6. ASSUME NEW t \in Handlers, NEW op \in {"preset", "list_presets"}, PresetBegin(t, op) PROVE OwnSound'
  <2> DEFINE k == [NoTask EXCEPT !.op = op, !.pc = "presets_exists"]
  <2>1. k \in Task /\ ~Named(k)
    BY <1>1 DEF Task, Pcs, Named
  <2>2. QED
    BY <1>2, <1>6, <2>1 DEF PresetBegin
<1>7. ASSUME NEW t \in Handlers, PollingBegin(t) PROVE OwnSound'
  <2> DEFINE k == [NoTask EXCEPT !.op = "polling", !.pc = "open", !.file = "polling",
                                 !.data = {requests + 1}]
  <2>1. requests + 1 \in Bound
    BY <1>7, AskedRequest DEF PollingBegin
  <2>2. k \in Task /\ ~Named(k)
    BY <1>1, <2>1 DEF Task, Pcs, Named, File
  <2>3. QED
    BY <1>2, <1>7, <2>2 DEF PollingBegin
<1>8. ASSUME NEW t \in Handlers, NEW id \in Ids, DeleteBegin(t, id) PROVE OwnSound'
  <2> DEFINE k == [NoTask EXCEPT !.op = "delete", !.id = id, !.pc = "delete"]
  <2>1. id \in Bound
    BY SettingsAssumption DEF Bound, Ids
  <2>2. k \in Task /\ ~Named(k)
    BY <1>1, <2>1 DEF Task, Pcs, Named
  <2>3. QED
    BY <1>2, <1>8, <2>2 DEF DeleteBegin
<1>9. QED
  BY <1>3, <1>4, <1>5, <1>6, <1>7, <1>8 DEF KeysNext, FilesNext

\* So does every step.
LEMMA OwnNext == Types /\ OwnSound /\ [Next]_vars => OwnSound'
<1> SUFFICES ASSUME Types, OwnSound, [Next]_vars PROVE OwnSound'
  OBVIOUS
<1>1. ASSUME UNCHANGED <<keys, given, freed>>, tangled \subseteq tangled', requests' \in {requests, requests + 1},
             \A u \in Threads : Follows(task[u], task'[u])
      PROVE  OwnSound'
  <2>1. Rows' = Rows
    BY <1>1 DEF Rows, Exists
  <2>2. QED
    BY <1>1, <2>1, OwnFrame DEF SameSecret
<1>2. ASSUME UNCHANGED <<keys, given, freed>>, tangled \subseteq tangled', requests' \in {requests, requests + 1},
             \A u \in Threads : task'[u] = task[u] \/ task'[u].op \notin KeyOps
      PROVE  OwnSound'
  <2>1. \A u \in Threads : Follows(task[u], task'[u])
    BY <1>2 DEF Follows
  <2>2. QED
    BY <1>1, <1>2, <2>1
<1>3. CASE UNCHANGED vars
  BY <1>2, <1>3 DEF vars, bounds, history, key_history
<1>4. CASE \E custom \in BOOLEAN : ReplaceMappings(custom)
  BY <1>2, <1>4 DEF ReplaceMappings, key_history
<1>5. ASSUME NEW t \in Handlers, Step(t) PROVE OwnSound'
  <2>1. CASE CommitCreate(t) \/ CommitUpdate(t) \/ MarkTest(t) \/ CommitDelete(t)
    BY <2>1, OwnCreate, OwnUpdate, OwnMark, OwnDelete
  <2>2. CASE ~(CommitCreate(t) \/ CommitUpdate(t) \/ MarkTest(t) \/ CommitDelete(t))
    <3>1. \A u \in Threads : Follows(task[u], task'[u])
      BY <1>5, <2>2, StepFollows
    <3>2. UNCHANGED <<keys, given, freed, tangled, requests>>
      BY <1>5, <2>2 DEF Step, KeyExists, KeyRead, PresetsExist, PresetsRead, Open, Write, LoadOthers,
                        bounds, history, key_history
    <3>3. QED
      BY <1>1, <3>1, <3>2
  <2>3. QED
    BY <2>1, <2>2
<1>6. ASSUME NEW s \in Starters, Start(s) PROVE OwnSound'
  <2> DEFINE k == [NoTask EXCEPT !.op = "startup",
                       !.pc = IF mappings.defaults = 0 /\ ~mappings.custom THEN "seed" ELSE "serve"]
  <2>1. k \in Task /\ k.op = "startup"
    BY NoTaskType DEF Task, Pcs, NoTask
  <2>2. Begin(s, k) /\ UNCHANGED <<keys, given, freed, requests>> /\ s \in Threads /\ task \in [Threads -> Task]
    BY <1>6 DEF Start, key_history, Threads, Types, TasksOK
  <2> HIDE DEF k
  <2>3. \A u \in Threads : Follows(task[u], task'[u])
    <3>1. PICK b \in BOOLEAN : task'[s] = [k EXCEPT !.mixed = b]
      BY <2>1, <2>2, BeginTypes
    <3>2. task'[s].op = "startup"
      BY <2>1, <3>1 DEF Task
    <3>3. ASSUME NEW u \in Threads \ {s} PROVE Follows(task[u], task'[u])
      <4>1. task'[u] = task[u] \/ task'[u] = [task[u] EXCEPT !.mixed = TRUE]
        BY <2>1, <2>2, BeginTypes
      <4>2. task[u] \in Task
        BY <2>2
      <4>3. QED
        BY <4>1, <4>2 DEF Follows, Task
    <3>4. QED
      BY <3>2, <3>3 DEF Follows, KeyOps
  <2>4. QED
    BY <1>1, <2>2, <2>3 DEF Begin
<1>7. ASSUME NEW s \in Starters, Serve(s) PROVE OwnSound'
  <2>1. \A u \in Threads : task'[u] = IF u = s THEN NoTask ELSE task[u]
    BY <1>7, ContinueAt DEF Serve, Threads
  <2>2. QED
    BY <1>2, <1>7, <2>1, NoTaskIdle DEF Serve, KeyOps, bounds, history, key_history
<1>8. CASE Crash
  <2>1. \A u \in Threads : task'[u] = NoTask
    BY <1>8 DEF Crash
  <2>2. QED
    BY <1>2, <1>8, <2>1, NoTaskIdle DEF Crash, KeyOps, key_history
<1>9. QED
  BY <1>3, <1>4, <1>5, <1>6, <1>7, <1>8, OwnRequests DEF Next

\* A key has the halves of its secret that were given last and its own test result, whatever is
\* created, tested, deleted, activated, restarted or cut short beside it; unless two updates of
\* a key overlapped, or SQLite may have given its id again.
THEOREM KeysKeepTheirOwnCorrect == Spec => []KeysKeepTheirOwn
<1>1. Init => OwnSound
  <2> SUFFICES ASSUME Init PROVE OwnSound
    OBVIOUS
  <2>1. (\A t \in Threads : task[t] = NoTask) /\ Rows = {}
    BY DEF Init, Rows, Exists
  <2>2. QED
    BY <2>1, NoTaskIdle DEF OwnSound, Owned, Named
<1>2. Spec => []Types
  BY TypesInit, TypesNext, PTL DEF Spec
<1>3. Types /\ OwnSound /\ [Next]_vars => OwnSound'
  BY OwnNext
<1>4. OwnSound => KeysKeepTheirOwn
  <2> SUFFICES ASSUME OwnSound, "secrets" \notin tangled, NEW i \in Rows \ freed
               PROVE  /\ keys[i].test \in {0, keys[i].key}
                      /\ \A half \in DOMAIN NoSecret : keys[i][half] = given[keys[i].key][half]
    BY DEF KeysKeepTheirOwn
  <2>1. DOMAIN NoSecret = {"partner_id", "checkword"}
    BY DEF NoSecret
  <2>2. QED
    BY <2>1 DEF OwnSound, SameSecret
<1>5. QED
  BY <1>1, <1>2, <1>3, <1>4, PTL DEF Spec
=============================================================================
