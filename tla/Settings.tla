------------------------------ MODULE Settings ------------------------------
(***************************************************************************)
(* What the user configures, in the data directory that every request      *)
(* handler of every running copy of the app shares: the API keys           *)
(* (SettingsService and routers/settings) and the cipher key their secrets *)
(* are encrypted with, the export presets (ExportService), the polling     *)
(* settings and the status mappings.                                       *)
(*                                                                         *)
(*  - a HANDLER thread serves one request;                                 *)
(*  - a STARTER is a copy of the app coming up: it seeds the mappings.     *)
(*                                                                         *)
(* A read of the database, a commit and an operation on a file are each a  *)
(* step. A session reads outside of any transaction and writes, when it    *)
(* commits, the columns it has changed of the rows it has read.            *)
(***************************************************************************)
EXTENDS Integers, FiniteSets, FiniteSetsExt

CONSTANTS
    Handlers,             \* threads that serve requests
    Starters,             \* copies of the app
    Areas,                \* what users change: of "keys", "files" and "mappings", which share
                          \* nothing, a behaviour changes one
    REQUESTS,             \* bound: how many requests are made
    STARTS,               \* bound: how often a copy is started
    CRASHES               \* bound: how often the machine stops

Threads == Handlers \cup Starters

ASSUME SettingsAssumption ==
    /\ Handlers \cap Starters = {}
    /\ Areas \subseteq {"keys", "files", "mappings"}
    /\ REQUESTS \in Nat /\ STARTS \in Nat /\ CRASHES \in Nat

VARIABLES
    area,                 \* what the users of this behaviour change
    keys,                 \* table api_keys: a row for some of the ids
    mappings,             \* table status_mappings: how often it holds the defaults,
                          \* and whether it holds the user's
    files,                \* .cipher.key, export_presets.json, app_settings.json
    up,                   \* some copy serves requests
    task,                 \* what each thread is doing
    requests, starts, crashes,
    chosen,               \* history: the key the user activated last, if it is there
    given,                \* history: the secret the user gave each key last
    freed,                \* history: ids that a new key may be given again
    alone,                \* history: presets created while no one else used presets
    broken,               \* history: files created twice, or whose writing overlapped
                          \* another's or was cut short
    tangled               \* history: what has been changed by overlapping requests

bounds == <<requests, starts, crashes>>
key_history == <<chosen, given, freed>>
history == <<key_history, alone, broken, tangled>>
vars == <<area, keys, mappings, files, up, task, bounds, history>>

Ids == 1 .. REQUESTS
Request == 1 .. REQUESTS          \* a key and a preset go by the request that made them
File == {"cipher", "presets", "polling"}
DEFAULTS == 0                     \* the default presets

NoRow == [key |-> 0, active |-> FALSE, partner_id |-> 0, checkword |-> 0, cipher |-> 0, test |-> 0]
NoSecret == [partner_id |-> 0, checkword |-> 0]
Exists(id) == keys[id] # NoRow
Rows == {id \in Ids : Exists(id)}
ActiveKeys == {keys[id].key : id \in {i \in Rows : keys[i].active}}

\* A thread's locals: read is the row it has read, others the ids of the active keys
\* _deactivate_existing has loaded, use what it needs the cipher key for.
NoTask == [op |-> "none", pc |-> "idle", request |-> 0, id |-> 0, read |-> NoRow,
           active |-> "keep", fields |-> {}, others |-> {}, use |-> "encrypt", cipher |-> 0,
           file |-> "cipher", data |-> {}, mixed |-> FALSE]
Idle(t) == task[t] = NoTask
Absent == [state |-> "absent", data |-> {}]
Whole(d) == [state |-> "whole", data |-> d]

Init ==
    /\ area \in Areas
    /\ keys = [id \in Ids |-> NoRow]
    /\ mappings = [defaults |-> 0, custom |-> FALSE]
    /\ files = [f \in File |-> Absent]
    /\ up = FALSE
    /\ task = [t \in Threads |-> NoTask]
    /\ requests = 0 /\ starts = 0 /\ crashes = 0
    /\ chosen = {} /\ given = [k \in Request |-> NoSecret]
    /\ freed = {} /\ alone = {} /\ broken = {} /\ tangled = {}

-----------------------------------------------------------------------------
(* Requests *)

\* Requests of a kind that should not overlap, and so may tangle what they change.
Activates(k) == k.op = "create" \/ (k.op = "update" /\ k.active # "keep")
UsesPresets(k) == k.op \in {"preset", "list_presets"}
Tangles(k) ==
    {what \in {"active", "secrets", "mappings"} :
        \E u \in Threads :
            CASE what = "active"   -> Activates(k) /\ Activates(task[u])
              [] what = "secrets"  -> k.op = "update" /\ task[u].op = "update" /\ task[u].id = k.id
              [] what = "mappings" -> k.op \in {"replace", "startup"} /\ task[u].op = "startup"}

\* A thread takes up a task.
Begin(t, k) ==
    /\ Idle(t)
    /\ task' = [u \in Threads |->
          IF u = t THEN [k EXCEPT !.mixed = UsesPresets(k) /\ \E v \in Threads : UsesPresets(task[v])]
          ELSE IF UsesPresets(k) /\ UsesPresets(task[u]) THEN [task[u] EXCEPT !.mixed = TRUE]
          ELSE task[u]]
    /\ tangled' = tangled \cup Tangles(k)

Asked(t, k) ==
    /\ up /\ requests < REQUESTS
    /\ requests' = requests + 1
    /\ Begin(t, [k EXCEPT !.request = requests + 1])
    /\ UNCHANGED <<mappings, files, up, starts, crashes, alone, broken>>

Continue(t, k) == task' = [task EXCEPT ![t] = k]

CreateBegin(t, active) ==
    /\ Asked(t, [NoTask EXCEPT !.op = "create", !.active = active,
                               !.pc = IF active = "on" THEN "others" ELSE "key_exists"])
    /\ UNCHANGED <<keys, key_history>>

\* The record is read; a request that names no key is answered 404.
UpdateBegin(t, id, active, fields) ==
    /\ Exists(id)
    /\ Asked(t, [NoTask EXCEPT !.op = "update", !.id = id, !.read = keys[id], !.active = active,
                               !.fields = fields, !.use = "decrypt", !.pc = "key_exists"])
    /\ UNCHANGED <<keys, key_history>>

TestBegin(t, id) ==
    /\ Exists(id)
    /\ Asked(t, [NoTask EXCEPT !.op = "test", !.id = id, !.read = keys[id],
                               !.use = "decrypt", !.pc = "key_exists"])
    /\ UNCHANGED <<keys, key_history>>

DeleteBegin(t, id) ==
    /\ Exists(id)
    /\ Asked(t, [NoTask EXCEPT !.op = "delete", !.id = id, !.pc = "delete"])
    /\ UNCHANGED <<keys, key_history>>

PresetBegin(t, op) ==
    /\ Asked(t, [NoTask EXCEPT !.op = op, !.pc = "presets_exists"])
    /\ UNCHANGED <<keys, key_history>>

\* update_polling_settings writes the file without reading it.
PollingBegin(t) ==
    /\ Asked(t, [NoTask EXCEPT !.op = "polling", !.pc = "open", !.file = "polling",
                               !.data = {requests + 1}])
    /\ UNCHANGED <<keys, key_history>>

-----------------------------------------------------------------------------
(* Files: a write truncates the file, then fills it *)

\* What a thread does with the cipher key: a secret it cannot decrypt ends the request.
WithKey(k, key) ==
    CASE k.use = "encrypt"                    -> [k EXCEPT !.pc = "commit", !.cipher = key]
      [] k.use = "decrypt" /\ key # k.read.cipher -> NoTask
      [] OTHER -> [k EXCEPT !.use = "encrypt",
                            !.pc = IF k.op = "test" THEN "mark"
                                   ELSE IF k.active = "on" THEN "others" ELSE "key_exists"]

\* _load_or_create_key
KeyExists(t) ==
    /\ task[t].pc = "key_exists"
    /\ Continue(t, IF files["cipher"] = Absent
                   THEN [task[t] EXCEPT !.pc = "open", !.file = "cipher", !.data = {task[t].request}]
                   ELSE [task[t] EXCEPT !.pc = "key_read"])
    /\ UNCHANGED <<keys, mappings, files, up, bounds, history>>

KeyRead(t) ==
    /\ task[t].pc = "key_read"
    /\ Continue(t, IF files["cipher"].state = "whole"
                   THEN WithKey(task[t], CHOOSE key \in files["cipher"].data : TRUE)
                   ELSE NoTask)
    /\ UNCHANGED <<keys, mappings, files, up, bounds, history>>

\* _load_presets
PresetsExist(t) ==
    /\ task[t].pc = "presets_exists"
    /\ Continue(t, IF files["presets"] = Absent
                   THEN [task[t] EXCEPT !.pc = "open", !.file = "presets", !.data = {DEFAULTS}]
                   ELSE [task[t] EXCEPT !.pc = "presets_read"])
    /\ UNCHANGED <<keys, mappings, files, up, bounds, history>>

\* Mutant: a file that cannot be read counts as the defaults.
PresetsRead_OrDefaults(t) ==
    /\ task[t].pc = "presets_read"
    /\ Continue(t, IF task[t].op # "preset" THEN NoTask
                   ELSE [task[t] EXCEPT !.pc = "open", !.file = "presets",
                            !.data = files["presets"].data \cup {DEFAULTS, task[t].request}])
    /\ UNCHANGED <<keys, mappings, files, up, bounds, history>>

PresetsRead(t) ==
    /\ task[t].pc = "presets_read"
    /\ Continue(t, IF files["presets"].state = "whole" /\ task[t].op = "preset"
                   THEN [task[t] EXCEPT !.pc = "open", !.file = "presets",
                                        !.data = files["presets"].data \cup {task[t].request}]
                   ELSE NoTask)
    /\ UNCHANGED <<keys, mappings, files, up, bounds, history>>

Open(t) ==
    LET f == task[t].file
        used == \E u \in Threads \ {t} : task[u].pc = "write" /\ task[u].file = f IN
    /\ task[t].pc = "open"
    /\ files' = [files EXCEPT ![f] = [state |-> "empty", data |-> {}]]
    /\ Continue(t, [task[t] EXCEPT !.pc = "write"])
    /\ broken' = IF used \/ (f = "cipher" /\ files[f] # Absent) THEN broken \cup {f} ELSE broken
    /\ UNCHANGED <<keys, mappings, up, bounds, key_history, alone, tangled>>

\* Mutant: the first use encrypts with a key of its own, not with the one it has stored.
Write_OwnKey(t) ==
    /\ task[t].pc = "write"
    /\ files' = [files EXCEPT ![task[t].file] = Whole(task[t].data)]
    /\ Continue(t, IF task[t].file = "cipher" THEN WithKey(task[t], 1 + (task[t].request % REQUESTS))
                   ELSE NoTask)
    /\ UNCHANGED <<keys, mappings, up, bounds, history>>

\* What another has written since this thread's open may show behind a shorter text; a
\* cipher key is as long as any other.
Write(t) ==
    LET f == task[t].file IN
    /\ task[t].pc = "write"
    /\ \/ files' = [files EXCEPT ![f] = Whole(task[t].data)]
       \/ /\ f # "cipher" /\ files[f].state # "empty"
          /\ files' = [files EXCEPT ![f] = [state |-> "garbled", data |-> {}]]
    /\ Continue(t, CASE f = "cipher"                -> WithKey(task[t], task[t].request)
                     [] task[t].data = {DEFAULTS}   -> [task[t] EXCEPT !.pc = "presets_read"]
                     [] OTHER                       -> NoTask)
    /\ alone' = IF task[t].op = "preset" /\ task[t].data # {DEFAULTS} /\ ~task[t].mixed
                THEN alone \cup {task[t].request} ELSE alone
    /\ UNCHANGED <<keys, mappings, up, bounds, key_history, broken, tangled>>

-----------------------------------------------------------------------------
(* API keys: what a request has read, and what it commits *)

\* _deactivate_existing
LoadOthers(t) ==
    /\ task[t].pc = "others"
    /\ Continue(t, [task[t] EXCEPT !.pc = "key_exists",
                       !.others = {id \in Rows \ {task[t].id} : keys[id].active}])
    /\ UNCHANGED <<keys, mappings, files, up, bounds, history>>

Deactivated(ids) == [id \in Ids |-> IF id \in ids THEN [keys[id] EXCEPT !.active = FALSE] ELSE keys[id]]

\* An update of a row that has gone rolls the whole commit back. SQLite gives a new row the
\* id after the highest.
CommitCreate(t) ==
    LET k == task[t]
        id == Max(Rows \cup {0}) + 1 IN
    /\ k.op = "create" /\ k.pc = "commit"
    /\ IF k.others \subseteq Rows
       THEN /\ keys' = [Deactivated(k.others) EXCEPT ![id] =
                  [key |-> k.request, active |-> k.active = "on", partner_id |-> k.request,
                   checkword |-> k.request, cipher |-> k.cipher, test |-> 0]]
            /\ chosen' = IF k.active = "on" THEN {k.request} ELSE chosen
            /\ given' = [given EXCEPT ![k.request] = [partner_id |-> k.request, checkword |-> k.request]]
       ELSE UNCHANGED <<keys, chosen, given>>
    /\ Continue(t, NoTask)
    /\ UNCHANGED <<mappings, files, up, bounds, freed, alone, broken, tangled>>

\* Mutant: every column is written as it was read.
Updated_EveryColumn(k, row) ==
    [k.read EXCEPT !.partner_id = IF "partner_id" \in k.fields THEN k.request ELSE @,
                   !.checkword = IF "checkword" \in k.fields THEN k.request ELSE @,
                   !.cipher = k.cipher,
                   !.active = IF k.active = "keep" THEN @ ELSE k.active = "on"]

\* Mutant: a half that is not given is cleared.
Updated_ClearsHalf(k, row) ==
    [row EXCEPT !.partner_id = IF "partner_id" \in k.fields THEN k.request ELSE 0,
                !.checkword = IF "checkword" \in k.fields THEN k.request ELSE 0,
                !.cipher = k.cipher, !.active = IF k.active = "keep" THEN @ ELSE k.active = "on"]

\* The secret is written as a whole, a flag only if it is not as it was read.
Updated(k, row) ==
    [row EXCEPT !.partner_id = IF "partner_id" \in k.fields THEN k.request ELSE k.read.partner_id,
                !.checkword = IF "checkword" \in k.fields THEN k.request ELSE k.read.checkword,
                !.cipher = k.cipher,
                !.active = IF k.active # "keep" /\ (k.active = "on") # k.read.active
                           THEN k.active = "on" ELSE @]

CommitUpdate(t) ==
    LET k == task[t] IN
    /\ k.op = "update" /\ k.pc = "commit"
    /\ IF k.others \cup {k.id} \subseteq Rows
       THEN /\ keys' = [Deactivated(k.others) EXCEPT ![k.id] = Updated(k, @)]
            /\ chosen' = CASE k.active = "on"   -> {k.read.key}
                           [] k.active = "off"  -> chosen \ {k.read.key}
                           [] k.active = "keep" -> chosen
            /\ given' = [given EXCEPT ![k.read.key] =
                            [half \in DOMAIN @ |-> IF half \in k.fields THEN k.request ELSE @[half]]]
       ELSE UNCHANGED <<keys, chosen, given>>
    /\ Continue(t, NoTask)
    /\ UNCHANGED <<mappings, files, up, bounds, freed, alone, broken, tangled>>

\* Mutant: the note is made on whatever row the id now stands for, there or not.
MarkTest_NoRow(t) ==
    /\ task[t].pc = "mark"
    /\ keys' = [keys EXCEPT ![task[t].id].test = task[t].read.key]
    /\ Continue(t, NoTask)
    /\ UNCHANGED <<mappings, files, up, bounds, history>>

\* test_api_key, after SF has answered: the key tested is noted on the row.
MarkTest(t) ==
    LET k == task[t] IN
    /\ k.pc = "mark"
    /\ keys' = IF k.id \in Rows THEN [keys EXCEPT ![k.id].test = k.read.key] ELSE keys
    /\ Continue(t, NoTask)
    /\ UNCHANGED <<mappings, files, up, bounds, history>>

\* delete_api_key: it goes by the id that it has read, which may stand for no row by now, or
\* for another key's.
CommitDelete(t) ==
    LET id == task[t].id IN
    /\ task[t].pc = "delete"
    /\ keys' = [keys EXCEPT ![id] = NoRow]
    /\ chosen' = chosen \ {keys[id].key}
    /\ freed' = freed \cup ((Max((Rows \ {id}) \cup {0}) + 1) .. Max(Rows \cup {0}))
    /\ Continue(t, NoTask)
    /\ UNCHANGED <<mappings, files, up, bounds, given, alone, broken, tangled>>

-----------------------------------------------------------------------------
(* Status mappings, and the life of a copy of the app *)

\* replace_mappings: one transaction; the user may also leave no mapping.
ReplaceMappings(custom) ==
    /\ up /\ requests < REQUESTS
    /\ requests' = requests + 1
    /\ mappings' = [defaults |-> 0, custom |-> custom]
    /\ tangled' = IF \E u \in Starters : ~Idle(u) THEN tangled \cup {"mappings"} ELSE tangled
    /\ UNCHANGED <<keys, files, up, task, starts, crashes, key_history, alone, broken>>

\* Mutant: a copy that starts does not look for mappings.
Start_SeedsAlways(s) ==
    /\ starts < STARTS
    /\ starts' = starts + 1
    /\ Begin(s, [NoTask EXCEPT !.op = "startup", !.pc = "seed"])
    /\ UNCHANGED <<keys, mappings, files, up, requests, crashes, key_history, alone, broken>>

\* seed_defaults counts the mappings. (A copy beside another matters to the mappings alone.)
Start(s) ==
    /\ starts < STARTS
    /\ area = "mappings" \/ (~up /\ \A u \in Starters : Idle(u))
    /\ starts' = starts + 1
    /\ Begin(s, [NoTask EXCEPT !.op = "startup",
                               !.pc = IF mappings.defaults = 0 /\ ~mappings.custom THEN "seed" ELSE "serve"])
    /\ UNCHANGED <<keys, mappings, files, up, requests, crashes, key_history, alone, broken>>

\* It adds the defaults to an empty table, and the copy comes up.
Serve(s) ==
    /\ task[s].pc \in {"seed", "serve"}
    /\ mappings' = IF task[s].pc = "seed" THEN [mappings EXCEPT !.defaults = @ + 1] ELSE mappings
    /\ up' = TRUE
    /\ Continue(s, NoTask)
    /\ UNCHANGED <<keys, files, bounds, history>>

\* The machine stops: a file that was being written stays as it is.
Crash ==
    /\ crashes < CRASHES
    /\ crashes' = crashes + 1
    /\ up' = FALSE
    /\ task' = [t \in Threads |-> NoTask]
    /\ broken' = broken \cup {f \in File : \E t \in Threads : task[t].pc = "write" /\ task[t].file = f}
    /\ UNCHANGED <<keys, mappings, files, requests, starts, key_history, alone, tangled>>

Step(t) ==
    \/ KeyExists(t) \/ KeyRead(t) \/ PresetsExist(t) \/ PresetsRead(t) \/ Open(t) \/ Write(t)
    \/ LoadOthers(t) \/ CommitCreate(t) \/ CommitUpdate(t) \/ MarkTest(t) \/ CommitDelete(t)

KeysNext ==
    \/ \E t \in Handlers, active \in {"on", "off"} : CreateBegin(t, active)
    \/ \E t \in Handlers, id \in Ids, active \in {"keep", "on", "off"},
          fields \in {{}, {"partner_id"}, {"checkword"}} : UpdateBegin(t, id, active, fields)
    \/ \E t \in Handlers, id \in Ids : TestBegin(t, id) \/ DeleteBegin(t, id)

FilesNext ==
    \E t \in Handlers : PollingBegin(t) \/ \E op \in {"preset", "list_presets"} : PresetBegin(t, op)

Next ==
    /\ \/ area = "keys" /\ KeysNext
       \/ area = "files" /\ FilesNext
       \/ area = "mappings" /\ \E custom \in BOOLEAN : ReplaceMappings(custom)
       \/ \E t \in Handlers : Step(t)
       \/ \E s \in Starters : Start(s) \/ Serve(s)
       \/ Crash
    /\ area' = area

Spec == Init /\ [][Next]_vars

-----------------------------------------------------------------------------
(* Properties *)

Pcs == {"idle", "key_exists", "key_read", "presets_exists", "presets_read", "open", "write",
        "others", "commit", "mark", "delete", "seed", "serve"}

\* Every variable has its type: in particular a row is empty or names the request that made it.
TypeOK ==
    /\ keys \in [Ids -> [key : 0 .. REQUESTS, active : BOOLEAN, partner_id : 0 .. REQUESTS,
                         checkword : 0 .. REQUESTS, cipher : 0 .. REQUESTS, test : 0 .. REQUESTS]]
    /\ \A id \in Rows : keys[id].key \in Request /\ keys[id].cipher \in Request
    /\ mappings \in [defaults : Nat, custom : BOOLEAN]
    /\ files \in [File -> [state : {"absent", "empty", "whole", "garbled"}, data : SUBSET (0 .. REQUESTS)]]
    /\ \A t \in Threads : task[t].pc \in Pcs /\ task[t].request \in 0 .. REQUESTS
    /\ requests \in 0 .. REQUESTS /\ starts \in 0 .. STARTS /\ crashes \in 0 .. CRASHES
    /\ chosen \subseteq Request /\ alone \subseteq Request /\ freed \subseteq Ids
    /\ given \in [Request -> [partner_id : 0 .. REQUESTS, checkword : 0 .. REQUESTS]]
    /\ broken \subseteq File /\ tangled \subseteq {"active", "secrets", "mappings"}

\* get_active_api_key: the newest active key. While no two requests that set a key's flag have
\* overlapped, it is the key the user activated last, and the only active one; requests that
\* change or test a key's secret do not disturb it.
ActiveIsChosen == "active" \notin tangled => ActiveKeys = chosen

\* list_api_keys decrypts every secret, and fails as a whole when one cannot be read: that
\* needs a first use of the cipher that overlapped another, or was cut short.
SecretsAreReadable ==
    "cipher" \notin broken => \A id \in Rows : files["cipher"] = Whole({keys[id].cipher})

\* While the updates of a key do not overlap, it has the halves of its secret that were given
\* last, whatever is created, tested or deleted beside it; and its test result is its own. The
\* ids that SQLite may give again to a new key are the exception.
KeysKeepTheirOwn ==
    "secrets" \notin tangled =>
        \A id \in Rows \ freed :
            /\ keys[id].test \in {0, keys[id].key}
            /\ \A half \in DOMAIN NoSecret : keys[id][half] = given[keys[id].key][half]

\* A preset that was created while no one else used the presets stays, whoever overlaps later,
\* as do the defaults; and the file is unreadable only when writers overlapped or one was cut short.
PresetsKept ==
    LET writing == \E t \in Threads : task[t].pc = "write" /\ task[t].file = "presets" IN
    "presets" \notin broken /\ ~writing =>
        \/ files["presets"] = Absent /\ alone = {}
        \/ files["presets"].state = "whole" /\ {DEFAULTS} \cup alone \subseteq files["presets"].data

\* The default mappings are there once, and never beside the user's, unless copies of the
\* app started together or the user replaced the mappings while one started.
MappingsNotMixed ==
    "mappings" \notin tangled => mappings.defaults <= 1 /\ ~(mappings.defaults = 1 /\ mappings.custom)
=============================================================================
