----------------------------- MODULE LiteResults -----------------------------
(***************************************************************************)
(* The results of Lite jobs on disk: LiteResultStore, which several        *)
(* threads call with no lock, the part of LiteJobStore that says when a    *)
(* result expires, and the handlers of routers/lite that read both.        *)
(*                                                                         *)
(*  - the WORKER thread of a job (named by the job) saves its result,      *)
(*    after it has cleaned up what has expired, and completes the job;     *)
(*  - a HANDLER thread answers a download.                                 *)
(*                                                                         *)
(* A step is one operation on the file system. A file being written is     *)
(* "torn" from its opening to its closing.                                 *)
(***************************************************************************)
EXTENDS Integers, FiniteSets

CONSTANTS
    Jobs,                 \* Lite jobs, and their directories and workers
    NoJob,
    Handlers,             \* threads that answer downloads
    Formats,              \* cached export files of a result
    TTL,                  \* lite_result_ttl_minutes
    STALL,                \* bound: how long one download or save lasts
    HORIZON,              \* bound: the clock stops here
    CRASHES,              \* bound: how often the process is killed and restarted
    Machines              \* what the app may run on, and how busy it is there

Threads == Jobs \cup Handlers

\* On POSIX an open file can be deleted, on Windows it stays. The bounds: how many
\* jobs are run, how many downloads are asked for, and how many of them at once.
Machine == [deletes_open_files : BOOLEAN, jobs : Nat, downloads : Nat, at_once : Nat]

ASSUME LiteConfigAssumption ==
    /\ TTL \in Nat /\ STALL \in Nat /\ HORIZON \in Nat /\ CRASHES \in Nat
    /\ Machines \subseteq Machine
    /\ Jobs \cap Handlers = {} /\ NoJob \notin Jobs

VARIABLES
    machine,              \* the one the app runs on
    clock,
    status,               \* LiteJobStore: the record's status
    expires_at,           \* LiteJobStore: the record's expires_at
    dir,                  \* the directories that exist
    meta, meta_expires,   \* meta.json, and the expires_at it holds
    result,               \* result.json
    export,               \* result.xlsx, result.csv
    downloads,            \* downloads asked for
    pc, job, format, now, todo, after, began,  \* locals of the thread
    crashes,
    seen,                 \* history: the job's status when the download was asked for
    answer,               \* history: the thread's last answer
    saved,                \* history: jobs that were marked completed
    overlapped            \* history: jobs saved while another job was being saved

disk == <<dir, meta, meta_expires, result, export>>
records == <<status, expires_at>>
locals == <<pc, job, format, now, todo, after, began, seen>>
history == <<answer, saved, overlapped>>
bounds == <<downloads, crashes>>
vars == <<machine, clock, records, disk, bounds, locals, history>>

NoTime == -1
NoFormat == "none"
File == {"absent", "torn", "whole"}

Live(j, time) == meta[j] = "whole" /\ meta_expires[j] > time
Stored(j) == j \in dir /\ meta[j] = "whole" /\ result[j] = "whole"
Idle(t) == pc[t] = "idle"
Saving(j) == ~Idle(j)

Init ==
    /\ machine \in Machines
    /\ clock = 0
    /\ status = [j \in Jobs |-> "absent"]
    /\ expires_at = [j \in Jobs |-> NoTime]
    /\ dir = {}
    /\ meta = [j \in Jobs |-> "absent"]
    /\ meta_expires = [j \in Jobs |-> NoTime]
    /\ result = [j \in Jobs |-> "absent"]
    /\ export = [j \in Jobs |-> [f \in Formats |-> "absent"]]
    /\ downloads = 0
    /\ pc = [t \in Threads |-> "idle"]
    /\ job = [t \in Threads |-> NoJob]
    /\ format = [t \in Threads |-> NoFormat]
    /\ now = [t \in Threads |-> 0]
    /\ todo = [t \in Threads |-> {}]
    /\ after = [t \in Threads |-> "idle"]
    /\ began = [t \in Threads |-> 0]
    /\ seen = [t \in Threads |-> "absent"]
    /\ answer = [h \in Handlers |-> "none"]
    /\ crashes = 0
    /\ saved = {} /\ overlapped = {}

-----------------------------------------------------------------------------
(* Control of a thread *)

Goto(t, label) ==
    /\ pc' = [pc EXCEPT ![t] = label]
    /\ UNCHANGED <<job, format, now, todo, after, began, seen>>

Return(t) ==
    /\ pc' = [pc EXCEPT ![t] = "idle"]
    /\ job' = [job EXCEPT ![t] = NoJob]
    /\ format' = [format EXCEPT ![t] = NoFormat]
    /\ now' = [now EXCEPT ![t] = 0]
    /\ todo' = [todo EXCEPT ![t] = {}]
    /\ after' = [after EXCEPT ![t] = "idle"]
    /\ began' = [began EXCEPT ![t] = 0]
    /\ seen' = [seen EXCEPT ![t] = "absent"]

Answer(h, a) ==
    /\ answer' = [answer EXCEPT ![h] = a]
    /\ UNCHANGED <<saved, overlapped>>
    /\ Return(h)

\* shutil.rmtree(job_dir, ignore_errors=True), then on to a label: first the
\* files that are there, then the directory, which stays if a file has appeared.
RemoveTree(t, j, label) ==
    /\ pc' = [pc EXCEPT ![t] = "remove_files"]
    /\ job' = [job EXCEPT ![t] = j]
    /\ after' = [after EXCEPT ![t] = label]
    /\ UNCHANGED <<format, now, began, seen>>

Removed(file) == IF file = "torn" /\ ~machine.deletes_open_files THEN "torn" ELSE "absent"

RemoveFiles(t) ==
    /\ pc[t] = "remove_files"
    /\ LET j == job[t] IN
       /\ meta' = [meta EXCEPT ![j] = Removed(@)]
       /\ result' = [result EXCEPT ![j] = Removed(@)]
       /\ export' = [export EXCEPT ![j] = [f \in Formats |-> Removed(@[f])]]
    /\ Goto(t, "remove_dir")
    /\ UNCHANGED <<machine, clock, records, dir, meta_expires, bounds, history>>

Empty(j) ==
    meta[j] = "absent" /\ result[j] = "absent" /\ \A f \in Formats : export[j][f] = "absent"

RemoveDir(t) ==
    /\ pc[t] = "remove_dir"
    /\ dir' = IF Empty(job[t]) THEN dir \ {job[t]} ELSE dir
    /\ IF after[t] = "gone"
       THEN Answer(t, "gone_410")
       ELSE Goto(t, after[t]) /\ UNCHANGED history
    /\ UNCHANGED <<machine, clock, records, meta, meta_expires, result, export, bounds>>

-----------------------------------------------------------------------------
(* The worker: LiteJobStore's record follows LiteResultStore.save_result *)

CreateJob(j) ==
    /\ status[j] = "absent"
    /\ Cardinality({k \in Jobs : status[k] # "absent"}) < machine.jobs
    /\ status' = [status EXCEPT ![j] = "queued"]
    /\ UNCHANGED <<machine, clock, expires_at, disk, bounds, locals, history>>

MarkRunning(j) ==
    /\ status[j] = "queued"
    /\ status' = [status EXCEPT ![j] = "running"]
    /\ UNCHANGED <<machine, clock, expires_at, disk, bounds, locals, history>>

\* The queries are done: save_result begins with cleanup_expired, which reads the
\* clock and lists the directories.
SaveBegin(j) ==
    /\ status[j] = "running" /\ Idle(j)
    /\ pc' = [pc EXCEPT ![j] = "cleanup"]
    /\ now' = [now EXCEPT ![j] = clock]
    /\ began' = [began EXCEPT ![j] = clock]
    /\ todo' = [todo EXCEPT ![j] = dir]
    /\ overlapped' = IF \E k \in Jobs : Saving(k)
                     THEN overlapped \cup {j} \cup {k \in Jobs : Saving(k)}
                     ELSE overlapped
    /\ UNCHANGED <<machine, clock, records, disk, bounds, job, format, after, seen, answer, saved>>

\* Mutant: compares created_at, not expires_at.
Condemned_Created(j, d) == d \in dir /\ ~(meta[d] = "whole" /\ meta_expires[d] - TTL > now[j])

\* A directory whose meta.json cannot be read or has expired is to be removed.
Condemned(j, d) == d \in dir /\ ~Live(d, now[j])

CleanupNext(j, d) ==
    /\ pc[j] = "cleanup" /\ d \in todo[j]
    /\ todo' = [todo EXCEPT ![j] = @ \ {d}]
    /\ IF Condemned(j, d)
       THEN RemoveTree(j, d, "cleanup")
       ELSE UNCHANGED <<pc, job, format, now, after, began, seen>>
    /\ UNCHANGED <<machine, clock, records, disk, bounds, history>>

MakeDir(j) ==
    /\ pc[j] = "cleanup" /\ todo[j] = {}
    /\ dir' = dir \cup {j}
    /\ Goto(j, "open_meta")
    /\ UNCHANGED <<machine, clock, records, meta, meta_expires, result, export, bounds, history>>

\* Opening a file for writing needs the directory; without it the worker raises.
Raise(j) == Goto(j, "raised") /\ UNCHANGED disk

OpenMeta(j) ==
    /\ pc[j] = "open_meta"
    /\ IF j \in dir
       THEN /\ meta' = [meta EXCEPT ![j] = "torn"]
            /\ meta_expires' = [meta_expires EXCEPT ![j] = clock + TTL]
            /\ Goto(j, "write_meta")
            /\ UNCHANGED <<dir, result, export>>
       ELSE Raise(j)
    /\ UNCHANGED <<machine, clock, records, bounds, history>>

\* A file deleted while open is written and lost (no second thread opens it anew:
\* where open files can be deleted, let at_once be 1).
Closed(file) == IF file = "torn" THEN "whole" ELSE file

WriteMeta(j) ==
    /\ pc[j] = "write_meta"
    /\ meta' = [meta EXCEPT ![j] = Closed(@)]
    /\ Goto(j, "open_result")
    /\ UNCHANGED <<machine, clock, records, dir, meta_expires, result, export, bounds, history>>

OpenResult(j) ==
    /\ pc[j] = "open_result"
    /\ IF j \in dir
       THEN /\ result' = [result EXCEPT ![j] = "torn"]
            /\ Goto(j, "write_result")
            /\ UNCHANGED <<dir, meta, meta_expires, export>>
       ELSE Raise(j)
    /\ UNCHANGED <<machine, clock, records, bounds, history>>

WriteResult(j) ==
    /\ pc[j] = "write_result"
    /\ result' = [result EXCEPT ![j] = Closed(@)]
    /\ Goto(j, "drop_exports")
    /\ UNCHANGED <<machine, clock, records, dir, meta, meta_expires, export, bounds, history>>

\* A download that did not wait for the job may have an export open by now: the
\* unlink raises where an open file cannot be deleted.
DropExports(j) ==
    /\ pc[j] = "drop_exports"
    /\ export' = [export EXCEPT ![j] = [f \in Formats |-> Removed(@[f])]]
    /\ Goto(j, IF \E f \in Formats : export'[j][f] # "absent" THEN "raised" ELSE "complete")
    /\ UNCHANGED <<machine, clock, records, dir, meta, meta_expires, result, bounds, history>>

\* mark_completed, with the expires_at save_result returned.
MarkCompleted(j) ==
    /\ pc[j] = "complete"
    /\ status' = [status EXCEPT ![j] = "completed"]
    /\ expires_at' = [expires_at EXCEPT ![j] = meta_expires[j]]
    /\ saved' = saved \cup {j}
    /\ Return(j)
    /\ UNCHANGED <<machine, clock, disk, bounds, answer, overlapped>>

\* The worker raised: preparing or querying failed, or saving did.
MarkFailed(j) ==
    /\ status[j] \in {"queued", "running"} /\ pc[j] \in {"idle", "raised"}
    /\ status' = [status EXCEPT ![j] = "failed"]
    /\ Return(j)
    /\ UNCHANGED <<machine, clock, expires_at, disk, bounds, history>>

\* GET /lite/jobs/{job_id}: the record of an expired result says so from then on.
GetJob(j) ==
    /\ status[j] = "completed" /\ expires_at[j] <= clock
    /\ status' = [status EXCEPT ![j] = "expired"]
    /\ UNCHANGED <<machine, clock, expires_at, disk, bounds, locals, history>>

-----------------------------------------------------------------------------
(* GET /lite/jobs/{job_id}/download: LiteResultStore.export_result *)

DownloadBegin(h, j, f) ==
    /\ Idle(h) /\ downloads < machine.downloads
    /\ Cardinality({g \in Handlers : ~Idle(g)}) < machine.at_once
    /\ status[j] # "absent"
    /\ downloads' = downloads + 1
    /\ pc' = [pc EXCEPT ![h] = "live"]
    /\ job' = [job EXCEPT ![h] = j]
    /\ format' = [format EXCEPT ![h] = f]
    /\ after' = [after EXCEPT ![h] = "cached"]
    /\ began' = [began EXCEPT ![h] = clock]
    /\ seen' = [seen EXCEPT ![h] = status[j]]
    /\ answer' = [answer EXCEPT ![h] = "none"]
    /\ UNCHANGED <<machine, clock, records, disk, crashes, now, todo, saved, overlapped>>

\* _require_live_job: the directory and meta.json exist;
RequireExists(h) ==
    /\ pc[h] = "live"
    /\ IF job[h] \in dir /\ meta[job[h]] # "absent"
       THEN Goto(h, "read_meta") /\ UNCHANGED history
       ELSE Answer(h, "not_found_404")
    /\ UNCHANGED <<machine, clock, records, disk, bounds>>

\* Mutant: a result is kept through the instant it expires at.
Expired_Strictly(j) == meta_expires[j] < clock

Expired(j) == meta_expires[j] <= clock

\* and meta.json is read: it may have gone since (an error nobody catches), it
\* may be half written (a ValueError), it may have expired.
ReadMeta(h) ==
    /\ pc[h] = "read_meta"
    /\ LET j == job[h] IN
       CASE meta[j] = "absent" -> Answer(h, "error_500")
         [] meta[j] = "torn"   -> Answer(h, "bad_request_400")
         [] meta[j] = "whole" /\ Expired(j) -> RemoveTree(h, j, "gone") /\ UNCHANGED <<todo, history>>
         [] OTHER -> Goto(h, after[h]) /\ UNCHANGED history
    /\ UNCHANGED <<machine, clock, records, disk, bounds>>

Cached(h) == export[job[h]][format[h]]

CachedExists(h) ==
    /\ pc[h] = "cached"
    /\ IF Cached(h) # "absent"
       THEN Goto(h, "read_cached")
       ELSE /\ pc' = [pc EXCEPT ![h] = "live"]     \* load_result checks again
            /\ after' = [after EXCEPT ![h] = "load"]
            /\ UNCHANGED <<job, format, now, todo, began, seen>>
    /\ UNCHANGED <<machine, clock, records, disk, bounds, history>>

\* _response_from_file: whatever the file holds is the answer.
ReadCached(h) ==
    /\ pc[h] = "read_cached"
    /\ Answer(h, IF Cached(h) = "absent" THEN "error_500" ELSE Cached(h))
    /\ UNCHANGED <<machine, clock, records, disk, bounds>>

\* load_result, once the job is live: result.json exists, and is read.
ResultExists(h) ==
    /\ pc[h] = "load"
    /\ IF result[job[h]] # "absent"
       THEN Goto(h, "read_result") /\ UNCHANGED history
       ELSE Answer(h, "not_found_404")
    /\ UNCHANGED <<machine, clock, records, disk, bounds>>

ReadResult(h) ==
    /\ pc[h] = "read_result"
    /\ CASE result[job[h]] = "absent" -> Answer(h, "error_500")
         [] result[job[h]] = "torn"   -> Answer(h, "bad_request_400")
         [] OTHER -> Goto(h, "open_export") /\ UNCHANGED history
    /\ UNCHANGED <<machine, clock, records, disk, bounds>>

\* cached_path.write_bytes(content): the file is truncated, then written.
OpenExport(h) ==
    /\ pc[h] = "open_export"
    /\ IF job[h] \in dir
       THEN /\ export' = [export EXCEPT ![job[h]][format[h]] = "torn"]
            /\ Goto(h, "write_export")
            /\ UNCHANGED history
       ELSE Answer(h, "error_500") /\ UNCHANGED export
    /\ UNCHANGED <<machine, clock, records, dir, meta, meta_expires, result, bounds>>

\* Mutant: the file is written but not closed.
WriteExport_NotClosed(h) ==
    /\ pc[h] = "write_export"
    /\ Answer(h, "whole")
    /\ UNCHANGED <<machine, clock, records, disk, bounds>>

WriteExport(h) ==
    /\ pc[h] = "write_export"
    /\ export' = [export EXCEPT ![job[h]][format[h]] = Closed(@)]
    /\ Answer(h, "whole")
    /\ UNCHANGED <<machine, clock, records, dir, meta, meta_expires, result, bounds>>

-----------------------------------------------------------------------------
Tick ==
    /\ clock < HORIZON
    /\ \A t \in Threads : ~Idle(t) => clock - began[t] < STALL
    /\ clock' = clock + 1
    /\ UNCHANGED <<machine, records, disk, bounds, locals, history>>

\* The process is killed and started again: the job records and the threads are
\* lost, the files stay as they are. A tab may still ask for a download.
Crash ==
    /\ crashes < CRASHES
    /\ crashes' = crashes + 1
    /\ status' = [j \in Jobs |-> IF status[j] = "absent" THEN "absent" ELSE "lost"]
    /\ expires_at' = [j \in Jobs |-> NoTime]
    /\ pc' = [t \in Threads |-> "idle"]
    /\ job' = [t \in Threads |-> NoJob]
    /\ format' = [t \in Threads |-> NoFormat]
    /\ now' = [t \in Threads |-> 0]
    /\ todo' = [t \in Threads |-> {}]
    /\ after' = [t \in Threads |-> "idle"]
    /\ began' = [t \in Threads |-> 0]
    /\ seen' = [t \in Threads |-> "absent"]
    /\ UNCHANGED <<machine, clock, disk, downloads, history>>

Save(j) ==
    \/ SaveBegin(j) \/ (\E d \in Jobs : CleanupNext(j, d))
    \/ RemoveFiles(j) \/ RemoveDir(j) \/ MakeDir(j)
    \/ OpenMeta(j) \/ WriteMeta(j) \/ OpenResult(j) \/ WriteResult(j)
    \/ DropExports(j) \/ MarkCompleted(j)

Download(h) ==
    \/ RequireExists(h) \/ ReadMeta(h) \/ RemoveFiles(h) \/ RemoveDir(h)
    \/ CachedExists(h) \/ ReadCached(h) \/ ResultExists(h) \/ ReadResult(h)
    \/ OpenExport(h) \/ WriteExport(h)

Next ==
    \/ \E j \in Jobs : CreateJob(j) \/ MarkRunning(j) \/ Save(j) \/ MarkFailed(j) \/ GetJob(j)
    \/ \E h \in Handlers, j \in Jobs, f \in Formats : DownloadBegin(h, j, f)
    \/ \E h \in Handlers : Download(h)
    \/ Crash
    \/ Tick

Spec == Init /\ [][Next]_vars

-----------------------------------------------------------------------------
(* Properties *)

Files == {"whole", "torn"}
Errors == {"not_found_404", "gone_410", "bad_request_400", "error_500"}

\* What the page tells the user, "the result is kept for 10 minutes": a completed
\* job that has not expired has its result on disk, whole.
ResultKeptUntilExpiry ==
    \A j \in saved : clock < meta_expires[j] => Stored(j)

\* That holds, over crashes too, of a job whose save overlapped no other save:
\* neither a later cleanup nor a download removes it before it expires.
KeptUnlessSavesOverlap ==
    \A j \in saved \ overlapped : clock < meta_expires[j] => Stored(j)

Answered(h, answers) == ~Idle(h) /\ pc'[h] = "idle" /\ answer'[h] \in answers

\* A download obeys the expiry the job's record shows, which it does not read: asked
\* for after GET jobs/{id} has reported the job expired, it never gets the file;
\* asked for of a completed job that was saved alone, it gets the file until the
\* record's expires_at, and "expired" only from then on.
DownloadObeysExpiry ==
    [][\A h \in Handlers :
          LET j == job[h] IN
          /\ Answered(h, Files) => seen[h] # "expired"
          /\ seen[h] = "completed" /\ Answered(h, Errors)
                => j \in overlapped \/ meta_expires[j] <= clock
          /\ seen[h] = "completed" /\ status[j] # "lost" /\ Answered(h, {"gone_410"})
                => expires_at[j] <= clock]_vars

\* What the page tells the user, "you can download the file": a download answered
\* with 200 holds the whole file.
DownloadsAreWhole == \A h \in Handlers : answer[h] # "torn"

\* Only two things cut a downloaded file short: another download that is writing
\* the same file at that moment, or a crash that interrupted one.
CutShortOnlyByAnother ==
    [][\A h \in Handlers :
          Answered(h, {"torn"}) =>
             \/ crashes > 0
             \/ \E g \in Handlers \ {h} :
                    pc[g] = "write_export" /\ job[g] = job[h] /\ format[g] = format[h]]_vars
=============================================================================
