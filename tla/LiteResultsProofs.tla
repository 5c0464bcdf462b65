--------------------------- MODULE LiteResultsProofs ---------------------------
(***************************************************************************)
(* Proofs about LiteResults, for any number of jobs, downloads at once and *)
(* crashes, on either machine:                                             *)
(*  - a result saved while no other was keeps until it expires;            *)
(*  - a download obeys the expiry;                                         *)
(*  - a file is cut short only by another download or a crash.             *)
(***************************************************************************)
EXTENDS LiteResults, TLAPS

Status == {"absent", "queued", "running", "completed", "failed", "expired", "lost"}

Written == {"write_meta", "open_result", "write_result", "drop_exports", "complete"}
WorkerLabel ==
    {"idle", "cleanup", "remove_files", "remove_dir", "open_meta", "raised"} \cup Written
HandlerLabel ==
    {"idle", "live", "read_meta", "cached", "read_cached", "load", "read_result",
     "open_export", "write_export", "remove_files", "remove_dir"}
Label == WorkerLabel \cup HandlerLabel

Removing(t) == pc[t] \in {"remove_files", "remove_dir"}

\* The directory of a job is made, and its meta.json opened, once, by its own save.
Unborn(j) ==
    \/ status[j] \in {"absent", "queued"}
    \/ status[j] = "running" /\ Idle(j)
Early(j) ==
    \/ Unborn(j)
    \/ status[j] = "running" /\ pc[j] \in {"cleanup", "remove_files", "remove_dir", "open_meta"}

FileTypes ==
    /\ machine \in Machines
    /\ clock \in Nat
    /\ dir \subseteq Jobs
    /\ meta \in [Jobs -> File]
    /\ meta_expires \in [Jobs -> Int]
    /\ result \in [Jobs -> File]
    /\ export \in [Jobs -> [Formats -> File]]
    /\ crashes \in Nat

RecordTypes ==
    /\ status \in [Jobs -> Status]
    /\ expires_at \in [Jobs -> Int]
    /\ answer \in [Handlers -> {"none"} \cup Files \cup Errors]
    /\ saved \subseteq Jobs
    /\ overlapped \subseteq Jobs

LocalTypes ==
    /\ pc \in [Threads -> Label]
    /\ job \in [Threads -> Jobs \cup {NoJob}]
    /\ format \in [Threads -> Formats \cup {NoFormat}]
    /\ now \in [Threads -> Nat]
    /\ todo \in [Threads -> SUBSET Jobs]
    /\ after \in [Threads -> {"idle", "cleanup", "cached", "load", "gone"}]
    /\ began \in [Threads -> Nat]
    /\ seen \in [Threads -> Status]

Types == FileTypes /\ RecordTypes /\ LocalTypes

\* What a worker has done says how far the record of its job is.
Workers ==
    \A j \in Jobs :
        /\ pc[j] \in WorkerLabel
        /\ ~Idle(j) => status[j] = "running"
        /\ Removing(j) => job[j] \in Jobs \ {j} /\ after[j] = "cleanup"
        /\ j \notin todo[j]
        /\ now[j] <= clock
        /\ Unborn(j) => j \notin dir
        /\ Early(j) => meta[j] = "absent"
        /\ j \in saved => status[j] \in {"completed", "expired", "lost"}
        /\ status[j] \in {"completed", "expired"} =>
              j \in saved /\ expires_at[j] = meta_expires[j]
        /\ status[j] = "expired" => meta_expires[j] <= clock

\* Nobody else saves while a job outside overlapped is saved.
Alone ==
    \A j \in Jobs \ overlapped : Saving(j) => \A k \in Jobs \ {j} : ~Saving(k)

\* A cleanup removes a result that was saved alone only once it has expired.
CleanupsSpare ==
    \A k \in Jobs :
        Removing(k) /\ job[k] \in saved \ overlapped => meta_expires[job[k]] <= clock

\* The files of a job that is, or was, saved alone, up to its expiry.
FilesOf(j) ==
    /\ pc[j] \in Written \/ j \in saved => j \in dir
    /\ pc[j] = "write_meta" => meta[j] = "torn"
    /\ pc[j] \in Written \ {"write_meta"} \/ j \in saved => meta[j] = "whole"
    /\ pc[j] = "write_result" => result[j] = "torn"
    /\ pc[j] \in {"drop_exports", "complete"} \/ j \in saved => result[j] = "whole"

Staged == \A j \in Jobs \ overlapped : clock < meta_expires[j] => FilesOf(j)

\* What a download knows at each of its steps.
Knows(h) ==
    /\ pc[h] \in HandlerLabel
    /\ ~Idle(h) => job[h] \in Jobs /\ format[h] \in Formats /\ answer[h] = "none"
    /\ ~Idle(h) /\ ~Removing(h) => after[h] \in {"cached", "load"}
    /\ Removing(h) =>
          after[h] = "gone" /\ meta_expires[job[h]] <= clock /\ ~Early(job[h])
    /\ seen[h] \in {"completed", "expired"} => ~Idle(h) /\ job[h] \in saved
    /\ seen[h] = "expired" =>
          /\ pc[h] \in {"live", "read_meta", "remove_files", "remove_dir"}
          /\ meta_expires[job[h]] <= clock
    /\ seen[h] = "completed" /\ pc[h] = "read_cached" /\ job[h] \notin overlapped
            /\ clock < meta_expires[job[h]]
          => Cached(h) # "absent"

Downloads == \A h \in Handlers : Knows(h)

\* Until a crash, a torn export is being written.
TornIsWritten ==
    \A j \in Jobs, f \in Formats :
        export[j][f] = "torn" =>
            \/ crashes > 0
            \/ \E g \in Handlers : pc[g] = "write_export" /\ job[g] = j /\ format[g] = f

IInv == Types /\ Workers /\ Alone /\ CleanupsSpare /\ Staged /\ Downloads /\ TornIsWritten

\* The steps of a job, and of a download, that remove no directory.
WorkerStep(j) ==
    \/ CreateJob(j) \/ MarkRunning(j) \/ SaveBegin(j) \/ (\E d \in Jobs : CleanupNext(j, d))
    \/ MakeDir(j) \/ OpenMeta(j) \/ WriteMeta(j) \/ OpenResult(j) \/ WriteResult(j)
    \/ DropExports(j) \/ MarkCompleted(j) \/ MarkFailed(j) \/ GetJob(j)
ReaderStep(h) ==
    \/ (\E j \in Jobs, f \in Formats : DownloadBegin(h, j, f))
    \/ RequireExists(h) \/ ReadMeta(h) \/ CachedExists(h) \/ ReadCached(h)
    \/ ResultExists(h) \/ ReadResult(h) \/ OpenExport(h) \/ WriteExport(h)

USE DEF disk, records, locals, history, bounds, vars

-----------------------------------------------------------------------------
(* Types *)

\* The three ways a thread moves keep its locals well-typed.
LEMMA GotoTypes ==
    ASSUME LocalTypes, NEW t \in Threads, NEW label \in Label, Goto(t, label)
    PROVE  LocalTypes'
BY DEF LocalTypes, Goto

\* A thread that returns stays typed.
LEMMA ReturnTypes ==
    ASSUME LocalTypes, NEW t \in Threads, Return(t)
    PROVE  LocalTypes'
BY DEF LocalTypes, Return, Label, WorkerLabel, Status

\* So does one that removes a directory.
LEMMA RemoveTreeTypes ==
    ASSUME LocalTypes, NEW t \in Threads, NEW j \in Jobs, NEW label \in {"cleanup", "gone"},
           RemoveTree(t, j, label), todo' \in [Threads -> SUBSET Jobs]
    PROVE  LocalTypes'
BY DEF LocalTypes, RemoveTree, Label, WorkerLabel

\* A worker's steps.
LEMMA WorkerTypes ==
    ASSUME IInv, NEW j \in Jobs, WorkerStep(j)
    PROVE  Types'
<1> USE LiteConfigAssumption DEF Types, Threads
<1> j \in Threads /\ Types /\ LocalTypes
  BY DEF IInv
<1>1. ASSUME CreateJob(j) \/ MarkRunning(j) \/ GetJob(j) PROVE Types'
  BY <1>1 DEF CreateJob, MarkRunning, GetJob, FileTypes, RecordTypes, LocalTypes, Status
<1>2. CASE SaveBegin(j)
  BY <1>2 DEF SaveBegin, FileTypes, RecordTypes, LocalTypes, Label, WorkerLabel
<1>3. ASSUME NEW d \in Jobs, CleanupNext(j, d) PROVE Types'
  <2>1. FileTypes' /\ RecordTypes'
    BY <1>3 DEF CleanupNext, FileTypes, RecordTypes
  <2>2. todo' \in [Threads -> SUBSET Jobs]
    BY <1>3 DEF CleanupNext, LocalTypes
  <2>3. LocalTypes'
    BY <1>3, <2>2, RemoveTreeTypes DEF CleanupNext, LocalTypes
  <2> QED BY <2>1, <2>3
<1>4. CASE MakeDir(j)
  BY <1>4, GotoTypes DEF MakeDir, FileTypes, RecordTypes, Label, WorkerLabel
<1>5. CASE OpenMeta(j)
  BY <1>5, GotoTypes DEF OpenMeta, Raise, FileTypes, RecordTypes, File, Label, WorkerLabel, Written
<1>6. CASE WriteMeta(j)
  BY <1>6, GotoTypes DEF WriteMeta, Closed, FileTypes, RecordTypes, File, Label, WorkerLabel, Written
<1>7. CASE OpenResult(j)
  BY <1>7, GotoTypes DEF OpenResult, Raise, FileTypes, RecordTypes, File, Label, WorkerLabel, Written
<1>8. CASE WriteResult(j)
  BY <1>8, GotoTypes DEF WriteResult, Closed, FileTypes, RecordTypes, File, Label, WorkerLabel, Written
<1>9. CASE DropExports(j)
  BY <1>9, GotoTypes DEF DropExports, Removed, FileTypes, RecordTypes, File, Label, WorkerLabel, Written
<1>10. CASE MarkCompleted(j)
  BY <1>10, ReturnTypes DEF MarkCompleted, FileTypes, RecordTypes, Status
<1>11. CASE MarkFailed(j)
  BY <1>11, ReturnTypes DEF MarkFailed, FileTypes, RecordTypes, Status
<1> QED BY <1>1, <1>2, <1>3, <1>4, <1>5, <1>6, <1>7, <1>8, <1>9, <1>10, <1>11 DEF WorkerStep, ReaderStep

\* The removal of a directory, by either.
LEMMA RemovalTypes ==
    ASSUME IInv, NEW t \in Threads, RemoveFiles(t) \/ RemoveDir(t)
    PROVE  Types'
<1> USE LiteConfigAssumption DEF Types, Threads
<1> Types /\ LocalTypes
  BY DEF IInv
<1>1. Removing(t) => job[t] \in Jobs /\ after[t] \in {"cleanup", "gone"}
                     /\ (after[t] = "gone" => t \in Handlers)
  BY DEF IInv, Workers, Downloads, Knows, Removing, Idle
<1>2. CASE RemoveFiles(t)
  BY <1>1, <1>2, GotoTypes
     DEF RemoveFiles, Removing, Removed, FileTypes, RecordTypes, File, Label, WorkerLabel
<1>3. CASE RemoveDir(t)
  <2>1. FileTypes'
    BY <1>3 DEF RemoveDir, FileTypes, RecordTypes, Answer
  <2>2. LocalTypes'
    BY <1>1, <1>3, GotoTypes, ReturnTypes DEF RemoveDir, Removing, Answer, Label, WorkerLabel
  <2>3. RecordTypes'
    BY <1>1, <1>3 DEF RemoveDir, Removing, RecordTypes, Answer, Errors
  <2> QED BY <2>1, <2>2, <2>3
<1> QED BY <1>2, <1>3

\* A download's own steps.
LEMMA DownloadTypes ==
    ASSUME IInv, NEW h \in Handlers, ReaderStep(h)
    PROVE  Types'
<1> USE LiteConfigAssumption DEF Types, Threads
<1> h \in Threads /\ Types /\ FileTypes /\ RecordTypes /\ LocalTypes
  BY DEF IInv
<1>0. ~Idle(h) => job[h] \in Jobs /\ format[h] \in Formats
                  /\ (~Removing(h) => after[h] \in {"cached", "load"})
  BY DEF IInv, Downloads, Knows
<1>1. ASSUME NEW j \in Jobs, NEW f \in Formats, DownloadBegin(h, j, f) PROVE Types'
  BY <1>1 DEF DownloadBegin, FileTypes, RecordTypes, LocalTypes, Label, HandlerLabel
<1>2. ASSUME NEW a \in {"none"} \cup Files \cup Errors, Answer(h, a)
      PROVE  UNCHANGED records => RecordTypes' /\ LocalTypes'
  BY <1>2, ReturnTypes DEF Answer, RecordTypes
<1>3. ASSUME NEW label \in Label, Goto(h, label), UNCHANGED <<records, history>>
      PROVE  RecordTypes' /\ LocalTypes'
  BY <1>3, GotoTypes DEF RecordTypes
<1>4. CASE RequireExists(h)
  BY <1>2, <1>3, <1>4 DEF RequireExists, FileTypes, Label, HandlerLabel, Errors
<1>5. CASE ReadMeta(h)
  <2>1. job[h] \in Jobs /\ after[h] \in Label
    BY <1>0, <1>5 DEF ReadMeta, Idle, Removing, Label, HandlerLabel
  <2>2. FileTypes'
    BY <1>5 DEF ReadMeta, FileTypes
  <2>3. CASE meta[job[h]] = "absent"
    BY <1>2, <1>5, <2>2, <2>3 DEF ReadMeta, Errors
  <2>4. CASE meta[job[h]] = "torn"
    BY <1>2, <1>5, <2>2, <2>4 DEF ReadMeta, Errors
  <2>5. CASE meta[job[h]] = "whole" /\ Expired(job[h])
    BY <1>5, <2>1, <2>2, <2>5, RemoveTreeTypes DEF ReadMeta, LocalTypes, RecordTypes
  <2>6. CASE meta[job[h]] = "whole" /\ ~Expired(job[h])
    BY <1>3, <1>5, <2>1, <2>2, <2>6 DEF ReadMeta
  <2> QED BY <2>1, <2>3, <2>4, <2>5, <2>6 DEF FileTypes, File
<1>6. CASE CachedExists(h)
  <2>1. FileTypes' /\ RecordTypes'
    BY <1>6 DEF CachedExists, FileTypes, RecordTypes
  <2>2. LocalTypes'
    BY <1>6, GotoTypes DEF CachedExists, LocalTypes, Label, HandlerLabel
  <2> QED BY <2>1, <2>2
<1>7. CASE ReadCached(h)
  <2>1. Cached(h) \in File
    BY <1>0, <1>7 DEF ReadCached, Idle, Cached, FileTypes
  <2> QED BY <1>2, <1>7, <2>1 DEF ReadCached, FileTypes, File, Files, Errors
<1>8. CASE ResultExists(h)
  BY <1>2, <1>3, <1>8 DEF ResultExists, FileTypes, Label, HandlerLabel, Errors
<1>9. CASE ReadResult(h)
  <2>1. job[h] \in Jobs
    BY <1>0, <1>9 DEF ReadResult, Idle
  <2>2. FileTypes'
    BY <1>9 DEF ReadResult, FileTypes
  <2>3. CASE result[job[h]] = "absent"
    BY <1>2, <1>9, <2>2, <2>3 DEF ReadResult, Errors
  <2>4. CASE result[job[h]] = "torn"
    BY <1>2, <1>9, <2>2, <2>4 DEF ReadResult, Errors
  <2>5. CASE result[job[h]] = "whole"
    BY <1>3, <1>9, <2>2, <2>5 DEF ReadResult, Label, HandlerLabel
  <2> QED BY <2>1, <2>3, <2>4, <2>5 DEF FileTypes, File
<1>10. CASE OpenExport(h)
  <2>1. FileTypes'
    <3>1. job[h] \in Jobs /\ format[h] \in Formats
      BY <1>0, <1>10 DEF OpenExport, Idle
    <3>2. CASE job[h] \in dir
      <4>1. [export EXCEPT ![job[h]][format[h]] = "torn"] \in [Jobs -> [Formats -> File]]
        BY <3>1 DEF FileTypes, File
      <4> QED BY <1>10, <3>2, <4>1 DEF OpenExport, FileTypes
    <3>3. CASE job[h] \notin dir
      BY <1>10, <3>3 DEF OpenExport, FileTypes, Answer
    <3> QED BY <3>2, <3>3
  <2>2. RecordTypes' /\ LocalTypes'
    BY <1>2, <1>3, <1>10 DEF OpenExport, Label, HandlerLabel, Errors
  <2> QED BY <2>1, <2>2
<1>11. CASE WriteExport(h)
  BY <1>0, <1>2, <1>11 DEF WriteExport, Closed, FileTypes, File, Files, Idle
<1> QED BY <1>1, <1>4, <1>5, <1>6, <1>7, <1>8, <1>9, <1>10, <1>11 DEF WorkerStep, ReaderStep

\* Every step keeps the types.
LEMMA TypesStep == IInv /\ [Next]_vars => Types'
<1> SUFFICES ASSUME IInv, [Next]_vars PROVE Types'
  OBVIOUS
<1> USE LiteConfigAssumption DEF Types, Threads
<1>1. ASSUME NEW t \in Threads, RemoveFiles(t) \/ RemoveDir(t) PROVE Types'
  BY <1>1, RemovalTypes
<1>2. CASE Crash
  BY <1>2 DEF IInv, Crash, FileTypes, RecordTypes, LocalTypes, Status, Label, WorkerLabel, NoTime
<1>3. CASE Tick
  BY <1>3 DEF IInv, Tick, FileTypes, RecordTypes, LocalTypes
<1>4. CASE UNCHANGED vars
  BY <1>4 DEF IInv, FileTypes, RecordTypes, LocalTypes
<1> QED BY <1>1, <1>2, <1>3, <1>4, WorkerTypes, DownloadTypes
   DEF Next, Save, Download, WorkerStep, ReaderStep

-----------------------------------------------------------------------------
(* The workers *)

SameLocals(t) ==
    /\ pc'[t] = pc[t] /\ job'[t] = job[t] /\ format'[t] = format[t] /\ now'[t] = now[t]
    /\ todo'[t] = todo[t] /\ after'[t] = after[t] /\ seen'[t] = seen[t]

\* A download, as long as it removes nothing, touches no thread but its own and no
\* file but its export.
LEMMA DownloadsOwn ==
    ASSUME IInv, NEW h \in Handlers, ReaderStep(h)
    PROVE  /\ UNCHANGED <<clock, records, dir, meta, meta_expires, result, saved, overlapped, crashes>>
           /\ \A t \in Threads \ {h} : SameLocals(t)
           /\ \A g \in Handlers \ {h} : answer'[g] = answer[g]
<1> h \in Threads /\ LocalTypes /\ RecordTypes
  BY DEF IInv, Types, Threads
<1>1. ASSUME NEW label, Goto(h, label) PROVE \A t \in Threads \ {h} : SameLocals(t)
  BY <1>1 DEF Goto, SameLocals, LocalTypes
<1>2. ASSUME NEW a, Answer(h, a)
      PROVE  /\ \A t \in Threads \ {h} : SameLocals(t)
             /\ \A g \in Handlers \ {h} : answer'[g] = answer[g]
             /\ UNCHANGED <<saved, overlapped>>
  BY <1>2 DEF Answer, Return, SameLocals, LocalTypes, RecordTypes
<1>3. CASE \E j \in Jobs, f \in Formats : DownloadBegin(h, j, f)
  BY <1>3 DEF DownloadBegin, SameLocals, LocalTypes, RecordTypes
<1>4. CASE RequireExists(h)
  BY <1>1, <1>2, <1>4 DEF RequireExists
<1>5. CASE ReadMeta(h)
  <2>1. CASE meta[job[h]] = "whole" /\ Expired(job[h])
    BY <1>5, <2>1 DEF ReadMeta, RemoveTree, SameLocals, LocalTypes
  <2>2. CASE meta[job[h]] = "absent"
    BY <1>2, <1>5, <2>2 DEF ReadMeta
  <2>3. CASE meta[job[h]] = "torn"
    BY <1>2, <1>5, <2>3 DEF ReadMeta
  <2>4. CASE ~(meta[job[h]] = "whole" /\ Expired(job[h])) /\ meta[job[h]] \notin {"absent", "torn"}
    BY <1>1, <1>5, <2>4 DEF ReadMeta
  <2> QED BY <2>1, <2>2, <2>3, <2>4
<1>6. CASE CachedExists(h)
  BY <1>1, <1>6 DEF CachedExists, SameLocals, LocalTypes
<1>7. CASE ReadCached(h)
  BY <1>2, <1>7 DEF ReadCached
<1>8. CASE ResultExists(h)
  BY <1>1, <1>2, <1>8 DEF ResultExists
<1>9. CASE ReadResult(h)
  <2>1. CASE result[job[h]] = "absent"
    BY <1>2, <1>9, <2>1 DEF ReadResult
  <2>2. CASE result[job[h]] = "torn"
    BY <1>2, <1>9, <2>2 DEF ReadResult
  <2>3. CASE result[job[h]] \notin {"absent", "torn"}
    BY <1>1, <1>9, <2>3 DEF ReadResult
  <2> QED BY <2>1, <2>2, <2>3
<1>10. CASE OpenExport(h)
  BY <1>1, <1>2, <1>10 DEF OpenExport
<1>11. CASE WriteExport(h)
  BY <1>2, <1>11 DEF WriteExport
<1> QED BY <1>3, <1>4, <1>5, <1>6, <1>7, <1>8, <1>9, <1>10, <1>11 DEF WorkerStep, ReaderStep

\* The four facts about the workers read nothing else.
LEMMA WorkersFrame ==
    ASSUME IInv, LiteConfigAssumption,
           UNCHANGED <<clock, records, dir, meta, meta_expires, result, saved, overlapped>>,
           \A j \in Jobs : SameLocals(j)
    PROVE  Workers' /\ Alone' /\ CleanupsSpare' /\ Staged'
<1> USE DEF IInv, SameLocals, Removing, Idle, Saving
<1>1. Workers'
  BY DEF Workers, Unborn, Early
<1>2. Alone'
  BY DEF Alone
<1>3. CleanupsSpare'
  BY DEF CleanupsSpare
<1>4. Staged'
  BY DEF Staged, FilesOf
<1> QED BY <1>1, <1>2, <1>3, <1>4

\* A download changes nothing a worker knows.
LEMMA WorkersUnderDownload ==
    ASSUME IInv, NEW h \in Handlers, ReaderStep(h)
    PROVE  Workers' /\ Alone' /\ CleanupsSpare' /\ Staged'
<1>1. \A j \in Jobs : j \in Threads \ {h}
  BY LiteConfigAssumption DEF Threads
<1> QED BY <1>1, DownloadsOwn, WorkersFrame, LiteConfigAssumption

\* The thread that removes a directory, and the one whose directory it is.
LEMMA WorkersUnderRemoval ==
    ASSUME IInv, NEW t \in Threads, RemoveFiles(t) \/ RemoveDir(t)
    PROVE  Workers' /\ Alone' /\ CleanupsSpare' /\ Staged'
<1> USE LiteConfigAssumption DEF Threads
<1> Types /\ Workers /\ Alone /\ CleanupsSpare /\ Staged /\ Downloads
  BY DEF IInv
<1> DEFINE d == job[t]
<1>1. Removing(t) /\ d \in Jobs /\ t # d
  BY DEF Workers, Downloads, Knows, RemoveFiles, RemoveDir, Removing, Idle
\* A directory is removed from under its own save only if that save overlaps another
\* or its result has expired by now.
<1>2. d \notin overlapped => (d \notin saved /\ Idle(d)) \/ meta_expires[d] <= clock
  <2>1. ASSUME t \in Jobs, d \notin overlapped PROVE Idle(d)
    BY <1>1, <2>1 DEF Alone, Saving, Removing, Idle
  <2>2. ASSUME t \in Jobs, d \in saved \ overlapped PROVE meta_expires[d] <= clock
    BY <1>1, <2>2 DEF CleanupsSpare
  <2>3. ASSUME t \in Handlers PROVE meta_expires[d] <= clock
    BY <1>1, <2>3 DEF Downloads, Knows
  <2> QED BY <2>1, <2>2, <2>3
<1>3. /\ UNCHANGED <<clock, records, meta_expires, saved, overlapped>>
      /\ \A u \in Threads \ {t} : SameLocals(u)
  BY DEF RemoveFiles, RemoveDir, Goto, Answer, Return, SameLocals, Types, LocalTypes
<1>4. /\ \A j \in Jobs \ {d} : meta'[j] = meta[j] /\ result'[j] = result[j] /\ (j \in dir <=> j \in dir')
      /\ dir' \subseteq dir
      /\ meta[d] = "absent" => meta'[d] = "absent"
  BY <1>1 DEF RemoveFiles, RemoveDir, Removed, Types, FileTypes
<1>5. t \in Jobs => /\ pc'[t] \in {"remove_dir", "cleanup"}
                    /\ pc'[t] = "remove_dir" => pc[t] = "remove_files"
                    /\ job'[t] = job[t] /\ todo'[t] = todo[t] /\ now'[t] = now[t]
                    /\ after'[t] = after[t] /\ ~Idle(t)
  BY DEF Workers, RemoveFiles, RemoveDir, Goto, Removing, Idle, Types, LocalTypes
<1>6. Workers'
  BY <1>1, <1>3, <1>4, <1>5 DEF Workers, WorkerLabel, Unborn, Early, Idle, Removing, SameLocals
<1>7. Alone'
  BY <1>3, <1>5 DEF Alone, Idle, Saving, SameLocals
<1>8. CleanupsSpare'
  BY <1>1, <1>3, <1>5 DEF CleanupsSpare, Removing, SameLocals
<1>9. Staged'
  <2> SUFFICES ASSUME NEW j \in Jobs \ overlapped, clock < meta_expires[j]
               PROVE  FilesOf(j)'
    BY <1>3 DEF Staged
  <2>1. CASE j = d
    BY <1>1, <1>2, <1>3, <2>1 DEF FilesOf, Written, Idle, SameLocals, Types, FileTypes
  <2>2. CASE j = t
    BY <1>1, <1>3, <1>5, <2>2 DEF Workers, FilesOf, Written
  <2>3. CASE j # d /\ j # t
    BY <1>3, <1>4, <2>3 DEF Staged, FilesOf, SameLocals
  <2> QED BY <2>1, <2>2, <2>3
<1> QED BY <1>6, <1>7, <1>8, <1>9

\* A worker's step that leaves the other threads alone.
LEMMA WorkersUnderWorker ==
    ASSUME IInv, NEW j \in Jobs, WorkerStep(j)
    PROVE  Workers' /\ Alone' /\ CleanupsSpare' /\ Staged'
<1> USE LiteConfigAssumption DEF Threads, Removing, Idle, Saving
<1> Types /\ FileTypes /\ RecordTypes /\ LocalTypes /\ Workers /\ Alone /\ CleanupsSpare /\ Staged
  BY DEF IInv, Types
<1>1. CASE CreateJob(j) \/ MarkRunning(j) \/ GetJob(j)
  <2>1. Workers'
    BY <1>1 DEF CreateJob, MarkRunning, GetJob, Workers, Unborn, Early, RecordTypes
  <2>2. Alone' /\ CleanupsSpare' /\ Staged'
    BY <1>1 DEF CreateJob, MarkRunning, GetJob, Alone, CleanupsSpare, Staged, FilesOf
  <2> QED BY <2>1, <2>2
<1>2. CASE SaveBegin(j)
  <2>1. Workers'
    BY <1>2 DEF SaveBegin, Workers, WorkerLabel, Unborn, Early, FileTypes, LocalTypes
  <2>2. Alone'
    BY <1>2 DEF SaveBegin, Alone, LocalTypes, RecordTypes
  <2>3. CleanupsSpare'
    BY <1>2 DEF SaveBegin, CleanupsSpare, LocalTypes
  <2>4. Staged'
    BY <1>2 DEF SaveBegin, Staged, FilesOf, Written, LocalTypes
  <2> QED BY <2>1, <2>2, <2>3, <2>4
<1>3. ASSUME NEW d \in Jobs, CleanupNext(j, d)
      PROVE  Workers' /\ Alone' /\ CleanupsSpare' /\ Staged'
  <2>1. CASE ~Condemned(j, d)
    BY <1>3, <2>1
       DEF CleanupNext, Workers, Alone, CleanupsSpare, Staged, FilesOf, Unborn, Early, LocalTypes
  <2>2. CASE Condemned(j, d)
    <3>1. d \in saved \ overlapped => meta_expires[d] <= clock
      <4>1. d \in saved \ overlapped /\ clock < meta_expires[d] => meta[d] = "whole"
        BY DEF Staged, FilesOf
      <4> QED BY <2>2, <4>1 DEF Condemned, Live, Workers, FileTypes, LocalTypes
    <3>2. d # j
      BY <1>3 DEF CleanupNext, Workers
    <3>3. /\ UNCHANGED <<machine, clock, records, disk, bounds, history>>
          /\ todo' = [todo EXCEPT ![j] = @ \ {d}]
          /\ RemoveTree(j, d, "cleanup")
      BY <1>3, <2>2 DEF CleanupNext
    <3>4. Workers'
      BY <1>3, <3>2, <3>3
         DEF CleanupNext, RemoveTree, Workers, WorkerLabel, Unborn, Early, FileTypes, LocalTypes
    <3>5. Alone'
      BY <1>3, <3>3 DEF CleanupNext, RemoveTree, Alone, LocalTypes
    <3>6. CleanupsSpare'
      BY <3>1, <3>3 DEF RemoveTree, CleanupsSpare, LocalTypes
    <3>7. Staged'
      BY <1>3, <3>3 DEF CleanupNext, RemoveTree, Workers, Staged, FilesOf, Written, LocalTypes
    <3> QED BY <3>4, <3>5, <3>6, <3>7
  <2> QED BY <2>1, <2>2
\* From here to the end of the save only pc[j] and the job's own files change.
<1>4. ASSUME NEW label \in WorkerLabel \ {"idle", "remove_files", "remove_dir"},
             Goto(j, label), pc[j] # "idle", UNCHANGED <<clock, records, saved, overlapped>>,
             label = "cleanup" => pc[j] = "cleanup",
             \A k \in Jobs \ {j} : meta_expires'[k] = meta_expires[k]
      PROVE  /\ Alone' /\ CleanupsSpare'
             /\ j \notin saved
             /\ \A k \in Jobs \ {j} : SameLocals(k)
  BY <1>4 DEF Goto, Workers, Alone, CleanupsSpare, SameLocals, LocalTypes
<1>5. CASE MakeDir(j)
  <2>1. Workers'
    BY <1>5 DEF MakeDir, Goto, Workers, WorkerLabel, Unborn, Early, FileTypes, LocalTypes
  <2>2. Staged'
    BY <1>5 DEF MakeDir, Goto, Staged, FilesOf, Written, LocalTypes
  <2> QED BY <1>4, <1>5, <2>1, <2>2 DEF MakeDir, WorkerLabel
<1>6. CASE OpenMeta(j)
  <2>1. CASE j \in dir
    <3>1. Workers'
      BY <1>6, <2>1
         DEF OpenMeta, Goto, Workers, WorkerLabel, Written, Unborn, Early, FileTypes, LocalTypes
    <3>2. Staged'
      BY <1>6, <2>1 DEF OpenMeta, Goto, Workers, Staged, FilesOf, Written, FileTypes, LocalTypes
    <3> QED BY <1>4, <1>6, <2>1, <3>1, <3>2 DEF OpenMeta, WorkerLabel, Written, FileTypes
  <2>2. CASE j \notin dir
    <3>1. Workers'
      BY <1>6, <2>2 DEF OpenMeta, Raise, Goto, Workers, WorkerLabel, Unborn, Early, LocalTypes
    <3>2. Staged'
      BY <1>6, <2>2 DEF OpenMeta, Raise, Goto, Workers, Staged, FilesOf, Written, LocalTypes
    <3> QED BY <1>4, <1>6, <2>2, <3>1, <3>2 DEF OpenMeta, Raise, WorkerLabel
  <2> QED BY <2>1, <2>2
<1>7. CASE WriteMeta(j)
  <2>1. Workers'
    BY <1>7 DEF WriteMeta, Goto, Workers, WorkerLabel, Written, Unborn, Early, FileTypes, LocalTypes
  <2>2. Staged'
    BY <1>7 DEF WriteMeta, Goto, Closed, Workers, Staged, FilesOf, Written, FileTypes, LocalTypes
  <2> QED BY <1>4, <1>7, <2>1, <2>2 DEF WriteMeta, WorkerLabel, Written
<1>8. CASE OpenResult(j)
  <2>1. CASE j \in dir
    <3>1. Workers'
      BY <1>8, <2>1 DEF OpenResult, Goto, Workers, WorkerLabel, Written, Unborn, Early, LocalTypes
    <3>2. Staged'
      BY <1>8, <2>1 DEF OpenResult, Goto, Workers, Staged, FilesOf, Written, FileTypes, LocalTypes
    <3> QED BY <1>4, <1>8, <2>1, <3>1, <3>2 DEF OpenResult, WorkerLabel, Written
  <2>2. CASE j \notin dir
    <3>1. Workers'
      BY <1>8, <2>2 DEF OpenResult, Raise, Goto, Workers, WorkerLabel, Unborn, Early, LocalTypes
    <3>2. Staged'
      BY <1>8, <2>2 DEF OpenResult, Raise, Goto, Workers, Staged, FilesOf, Written, LocalTypes
    <3> QED BY <1>4, <1>8, <2>2, <3>1, <3>2 DEF OpenResult, Raise, WorkerLabel
  <2> QED BY <2>1, <2>2
<1>9. CASE WriteResult(j)
  <2>1. Workers'
    BY <1>9 DEF WriteResult, Goto, Workers, WorkerLabel, Written, Unborn, Early, LocalTypes
  <2>2. Staged'
    BY <1>9 DEF WriteResult, Goto, Closed, Workers, Staged, FilesOf, Written, FileTypes, LocalTypes
  <2> QED BY <1>4, <1>9, <2>1, <2>2 DEF WriteResult, WorkerLabel, Written
<1>10. CASE DropExports(j)
  <2>1. PICK label \in {"raised", "complete"} : Goto(j, label)
    BY <1>10 DEF DropExports
  <2>2. Workers'
    BY <1>10, <2>1 DEF DropExports, Goto, Workers, WorkerLabel, Written, Unborn, Early, LocalTypes
  <2>3. Staged'
    BY <1>10, <2>1 DEF DropExports, Goto, Workers, Staged, FilesOf, Written, LocalTypes
  <2> QED BY <1>4, <1>10, <2>1, <2>2, <2>3 DEF DropExports, WorkerLabel, Written
<1>11. CASE MarkCompleted(j)
  <2>1. Workers'
    BY <1>11
       DEF MarkCompleted, Return, Workers, WorkerLabel, Unborn, Early, RecordTypes, FileTypes, LocalTypes
  <2>2. Alone' /\ Staged'
    BY <1>11 DEF MarkCompleted, Return, Alone, Staged, FilesOf, Written, LocalTypes
  <2>3. CleanupsSpare'
    BY <1>11 DEF MarkCompleted, Return, Workers, Alone, CleanupsSpare, LocalTypes
  <2> QED BY <2>1, <2>2, <2>3
<1>12. CASE MarkFailed(j)
  <2>1. Workers'
    BY <1>12
       DEF MarkFailed, Return, Workers, WorkerLabel, Unborn, Early, RecordTypes, FileTypes, LocalTypes
  <2>2. Alone' /\ CleanupsSpare' /\ Staged'
    BY <1>12 DEF MarkFailed, Return, Alone, CleanupsSpare, Staged, FilesOf, Written, LocalTypes
  <2> QED BY <2>1, <2>2
<1> QED BY <1>1, <1>2, <1>3, <1>5, <1>6, <1>7, <1>8, <1>9, <1>10, <1>11, <1>12 DEF WorkerStep, ReaderStep

\* Every step keeps what the workers know of their own directories.
LEMMA WorkersStep ==
    IInv /\ [Next]_vars => Workers' /\ Alone' /\ CleanupsSpare' /\ Staged'
<1> SUFFICES ASSUME IInv, [Next]_vars PROVE Workers' /\ Alone' /\ CleanupsSpare' /\ Staged'
  OBVIOUS
<1> USE LiteConfigAssumption DEF Threads
<1>1. ASSUME NEW t \in Threads, RemoveFiles(t) \/ RemoveDir(t)
      PROVE  Workers' /\ Alone' /\ CleanupsSpare' /\ Staged'
  BY <1>1, WorkersUnderRemoval
<1>2. CASE Crash
  <2>1. \A j \in Jobs : pc'[j] = "idle" /\ j \notin todo'[j] /\ now'[j] <= clock'
    BY <1>2 DEF Crash, IInv, Types, FileTypes
  <2>2. Workers'
    BY <1>2, <2>1 DEF Crash, IInv, Workers, WorkerLabel, Unborn, Early, Idle, Removing
  <2>3. Alone' /\ CleanupsSpare'
    BY <2>1 DEF Alone, CleanupsSpare, Saving, Idle, Removing
  <2>4. Staged'
    BY <1>2, <2>1 DEF Crash, IInv, Staged, FilesOf, Written
  <2> QED BY <2>2, <2>3, <2>4
<1>3. CASE Tick
  BY <1>3 DEF Tick, IInv, Types, FileTypes, LocalTypes, Workers, Alone, CleanupsSpare, Staged, FilesOf,
              Unborn, Early, Idle, Saving, Removing
<1>4. CASE UNCHANGED vars
  BY <1>4, WorkersFrame DEF SameLocals
<1> QED BY <1>1, <1>2, <1>3, <1>4, WorkersUnderWorker, WorkersUnderDownload
   DEF Next, Save, Download, WorkerStep, ReaderStep

-----------------------------------------------------------------------------
(* The downloads *)

\* What a download knows is still so after a step of another thread that leaves the
\* expiry of a saved result alone, and drops no export of one before it expires.
LEMMA DownloadFrame ==
    ASSUME IInv, NEW h \in Handlers, SameLocals(h), answer'[h] = answer[h],
           Types', Workers', clock <= clock',
           saved \subseteq saved', overlapped \subseteq overlapped',
           \A j \in Jobs : ~Early(j) => ~Early(j)' /\ meta_expires'[j] = meta_expires[j],
           \A j \in saved \ overlapped, f \in Formats :
               clock < meta_expires[j] /\ export[j][f] # "absent" => export'[j][f] # "absent"
    PROVE  Knows(h)'
<1> h \in Threads /\ Types /\ Knows(h) /\ Workers
  BY DEF IInv, Downloads, Threads
<1> USE DEF SameLocals, Knows, Idle, Removing
<1>1. clock \in Int /\ clock' \in Int /\ \A j \in Jobs : meta_expires[j] \in Int
  BY DEF Types, FileTypes
<1>2. seen[h] \in {"completed", "expired"} => ~Early(job[h]) /\ job[h] \in Jobs
  BY DEF Workers, Early, Unborn
<1>3. Removing(h)' =>
         after'[h] = "gone" /\ meta_expires'[job'[h]] <= clock' /\ ~Early(job[h])'
  BY <1>1
<1>4. seen'[h] = "expired" => meta_expires'[job'[h]] <= clock'
  BY <1>1, <1>2
<1>5. seen'[h] = "completed" /\ pc'[h] = "read_cached" /\ job'[h] \notin overlapped'
            /\ clock' < meta_expires'[job'[h]]
          => Cached(h)' # "absent"
  BY <1>1, <1>2 DEF Cached
<1> QED BY <1>3, <1>4, <1>5

\* Each save is made, and its expiry fixed, once.
LEMMA SavedOnce ==
    ASSUME IInv, NEW j \in Jobs, WorkerStep(j)
    PROVE  /\ UNCHANGED clock
           /\ \A h \in Handlers : SameLocals(h) /\ answer'[h] = answer[h]
           /\ saved \subseteq saved' /\ overlapped \subseteq overlapped'
           /\ \A k \in Jobs : ~Early(k) => ~Early(k)' /\ meta_expires'[k] = meta_expires[k]
           /\ \A k \in saved : export'[k] = export[k]
<1> USE LiteConfigAssumption DEF Threads
<1> Types /\ FileTypes /\ RecordTypes /\ LocalTypes /\ Workers
  BY DEF IInv, Types
<1>1. /\ UNCHANGED <<clock, answer>> /\ saved \subseteq saved' /\ overlapped \subseteq overlapped'
      /\ \A t \in Threads \ {j} : SameLocals(t)
  BY
     DEF WorkerStep, CreateJob, MarkRunning, GetJob, SaveBegin, CleanupNext, RemoveTree, MakeDir,
         OpenMeta,
         WriteMeta, OpenResult, WriteResult, DropExports, MarkCompleted, MarkFailed,
         Goto, Return, Raise, SameLocals, LocalTypes
<1>2. \A k \in Jobs : ~Early(k) => ~Early(k)' /\ meta_expires'[k] = meta_expires[k]
  BY
     DEF WorkerStep, CreateJob, MarkRunning, GetJob, SaveBegin, CleanupNext, RemoveTree, MakeDir,
         OpenMeta,
         WriteMeta, OpenResult, WriteResult, DropExports, MarkCompleted, MarkFailed,
         Goto, Return, Raise, Early, Unborn, Idle, Workers, FileTypes, RecordTypes, LocalTypes
<1>3. \A k \in saved : export'[k] = export[k]
  BY
     DEF WorkerStep, CreateJob, MarkRunning, GetJob, SaveBegin, CleanupNext, RemoveTree, MakeDir,
         OpenMeta,
         WriteMeta, OpenResult, WriteResult, DropExports, MarkCompleted, MarkFailed, Raise,
         Idle, Workers, FileTypes, RecordTypes
<1> QED BY <1>1, <1>2, <1>3

\* A removal does not touch the files of a saved result before their time.
LEMMA DownloadsUnderRemoval ==
    ASSUME IInv, Types', Workers', NEW t \in Threads, RemoveFiles(t) \/ RemoveDir(t)
    PROVE  Downloads'
<1> USE LiteConfigAssumption DEF Threads
<1> Types /\ FileTypes /\ RecordTypes /\ LocalTypes /\ Workers /\ CleanupsSpare /\ Downloads
  BY DEF IInv, Types
<1> DEFINE d == job[t]
<1>1. Removing(t) /\ d \in Jobs
  BY DEF Workers, Downloads, Knows, RemoveFiles, RemoveDir, Removing, Idle
<1>2. d \in saved \ overlapped => meta_expires[d] <= clock
  BY <1>1 DEF CleanupsSpare, Downloads, Knows
<1>3. /\ UNCHANGED <<clock, records, meta_expires, saved, overlapped>>
      /\ \A u \in Threads \ {t} : SameLocals(u)
      /\ \A h \in Handlers \ {t} : answer'[h] = answer[h]
  BY DEF RemoveFiles, RemoveDir, Goto, Answer, Return, SameLocals, LocalTypes, RecordTypes
<1>4. \A j \in Jobs \ {d} : export'[j] = export[j]
  BY <1>1 DEF RemoveFiles, RemoveDir, FileTypes
<1>5. \A j \in Jobs : Early(j) <=> Early(j)'
  BY <1>3 DEF Early, Unborn, RemoveFiles, RemoveDir, Goto, Idle, Workers, Removing,
              SameLocals, LocalTypes
<1>6. ASSUME NEW h \in Handlers \ {t} PROVE Knows(h)'
  <2>1. clock <= clock'
    BY <1>3 DEF FileTypes
  <2>2. \A j \in saved \ overlapped, f \in Formats :
            clock < meta_expires[j] /\ export[j][f] # "absent" => export'[j][f] # "absent"
    BY <1>2, <1>4 DEF FileTypes, RecordTypes
  <2> QED BY <1>3, <1>5, <1>6, <2>1, <2>2, DownloadFrame
<1>7. ASSUME t \in Handlers PROVE Knows(t)'
  <2>1. CASE RemoveFiles(t)
    BY <1>3, <1>5, <1>7, <2>1 DEF RemoveFiles, Goto, Downloads, Knows, HandlerLabel,
                            Idle, Removing, LocalTypes
  <2>2. CASE RemoveDir(t)
    <3>1. Answer(t, "gone_410")
      BY <1>7, <2>2 DEF RemoveDir, Downloads, Knows, Removing
    <3> QED BY <1>7, <3>1 DEF Answer, Return, Knows, HandlerLabel, Idle, Removing, LocalTypes
  <2> QED BY <2>1, <2>2
<1> QED BY <1>6, <1>7 DEF Downloads

\* A download's answer leaves the thread knowing nothing.
LEMMA KnowsNothing ==
    ASSUME LocalTypes, NEW h \in Handlers, NEW a, Answer(h, a)
    PROVE  Knows(h)'
BY DEF Answer, Return, Knows, HandlerLabel, Idle, Removing, LocalTypes, Threads

\* A download's own steps, and those of the other downloads.
LEMMA DownloadsUnderDownload ==
    ASSUME IInv, Types', Workers', NEW h \in Handlers, ReaderStep(h)
    PROVE  Downloads'
<1> USE LiteConfigAssumption DEF Threads
<1> Types /\ FileTypes /\ RecordTypes /\ LocalTypes /\ Workers /\ Knows(h)
  BY DEF IInv, Types, Downloads
<1>1. /\ UNCHANGED <<clock, records, dir, meta, meta_expires, result, saved, overlapped, crashes>>
      /\ \A t \in Threads \ {h} : SameLocals(t)
      /\ \A g \in Handlers \ {h} : answer'[g] = answer[g]
  BY DownloadsOwn
<1>2. \A j \in Jobs : Early(j) <=> Early(j)'
  BY <1>1 DEF Early, Unborn, Idle, SameLocals
<1>3. \A j \in Jobs, f \in Formats : export[j][f] # "absent" => export'[j][f] # "absent"
  <2>1. UNCHANGED export \/ OpenExport(h) \/ WriteExport(h)
    BY
       DEF ReaderStep, DownloadBegin, RequireExists, ReadMeta, CachedExists, ReadCached,
           ResultExists, ReadResult
  <2>2. CASE OpenExport(h)
    <3>1. job[h] \in Jobs /\ format[h] \in Formats
      BY <2>2 DEF OpenExport, Knows, Idle
    <3>2. export' = export \/ export' = [export EXCEPT ![job[h]] = [@ EXCEPT ![format[h]] = "torn"]]
      BY <2>2 DEF OpenExport
    <3>3. \A j \in Jobs : export[j] \in [Formats -> File]
      BY DEF FileTypes
    <3> QED BY <3>1, <3>2, <3>3 DEF FileTypes
  <2>3. CASE WriteExport(h)
    <3>1. job[h] \in Jobs /\ format[h] \in Formats
      BY <2>3 DEF WriteExport, Knows, Idle
    <3> QED BY <2>3, <3>1 DEF WriteExport, Closed, FileTypes
  <2> QED BY <2>1, <2>2, <2>3
<1>4. ASSUME NEW g \in Handlers \ {h} PROVE Knows(g)'
  <2>1. clock <= clock'
    BY <1>1 DEF FileTypes
  <2>2. \A j \in saved \ overlapped, f \in Formats :
            clock < meta_expires[j] /\ export[j][f] # "absent" => export'[j][f] # "absent"
    BY <1>3 DEF RecordTypes
  <2> QED BY <1>1, <1>2, <2>1, <2>2, DownloadFrame
<1> SUFFICES Knows(h)'
  BY <1>4 DEF Downloads
<1>5. CASE \E j \in Jobs, f \in Formats : DownloadBegin(h, j, f)
  BY <1>5
     DEF DownloadBegin, Knows, HandlerLabel, Workers, Idle, Removing, LocalTypes, RecordTypes, Cached
<1>6. CASE RequireExists(h)
  <2>1. CASE Goto(h, "read_meta") /\ UNCHANGED history
    BY <1>1, <1>2, <1>6, <2>1
       DEF RequireExists, Goto, Knows, HandlerLabel, Idle, Removing, LocalTypes, Cached
  <2> QED BY <1>6, <2>1, KnowsNothing DEF RequireExists
<1>7. CASE ReadMeta(h)
  <2>0. pc[h] = "read_meta" /\ job[h] \in Jobs /\ meta[job[h]] \in File
    BY <1>7 DEF ReadMeta, Knows, Idle, FileTypes
  <2>1. CASE meta[job[h]] \in {"absent", "torn"}
    BY <1>7, <2>1, KnowsNothing DEF ReadMeta
  <2>2. CASE meta[job[h]] = "whole" /\ Expired(job[h])
    <3>1. RemoveTree(h, job[h], "gone") /\ UNCHANGED history
      BY <1>7, <2>2 DEF ReadMeta
    <3>2. meta_expires[job[h]] <= clock /\ ~Early(job[h])
      BY <2>0, <2>2 DEF Expired, Workers
    <3> QED BY <1>1, <1>2, <2>0, <3>1, <3>2
            DEF RemoveTree, Knows, HandlerLabel, Idle, Removing, LocalTypes
  <2>3. CASE meta[job[h]] = "whole" /\ ~Expired(job[h])
    <3>1. Goto(h, after[h]) /\ UNCHANGED history /\ after[h] \in {"cached", "load"}
      BY <1>7, <2>0, <2>3 DEF ReadMeta, Knows, Idle, Removing
    <3>2. seen[h] # "expired"
      BY <2>0, <2>3 DEF Knows, Expired
    <3> QED BY <1>1, <2>0, <3>1, <3>2
            DEF Goto, Knows, HandlerLabel, Idle, Removing, LocalTypes
  <2> QED BY <2>0, <2>1, <2>2, <2>3 DEF File
<1>8. CASE CachedExists(h)
  <2>1. CASE Cached(h) # "absent"
    BY <1>1, <1>8, <2>1 DEF CachedExists, Cached, Goto, Knows, HandlerLabel, Idle, Removing, LocalTypes
  <2>2. CASE Cached(h) = "absent"
    BY <1>1, <1>8, <2>2 DEF CachedExists, Knows, HandlerLabel, Idle, Removing, LocalTypes
  <2> QED BY <2>1, <2>2
<1>9. CASE ResultExists(h)
  <2>1. CASE Goto(h, "read_result") /\ UNCHANGED history
    BY <1>1, <1>9, <2>1 DEF ResultExists, Goto, Knows, HandlerLabel, Idle, Removing, LocalTypes
  <2> QED BY <1>9, <2>1, KnowsNothing DEF ResultExists
<1>10. CASE ReadResult(h)
  <2>1. CASE Goto(h, "open_export") /\ UNCHANGED history
    BY <1>1, <1>10, <2>1 DEF ReadResult, Goto, Knows, HandlerLabel, Idle, Removing, LocalTypes
  <2>2. CASE result[job[h]] \in {"absent", "torn"}
    BY <1>10, <2>2, KnowsNothing DEF ReadResult
  <2> QED BY <1>10, <2>1, <2>2 DEF ReadResult
<1>11. CASE OpenExport(h)
  <2>1. CASE Goto(h, "write_export") /\ UNCHANGED history
    BY <1>1, <1>11, <2>1 DEF OpenExport, Goto, Knows, HandlerLabel, Idle, Removing, LocalTypes
  <2> QED BY <1>11, <2>1, KnowsNothing DEF OpenExport
<1>12. CASE ReadCached(h) \/ WriteExport(h)
  BY <1>12, KnowsNothing DEF ReadCached, WriteExport
<1> QED BY <1>5, <1>6, <1>7, <1>8, <1>9, <1>10, <1>11, <1>12 DEF WorkerStep, ReaderStep

\* Every step keeps what the downloads know.
LEMMA DownloadsStep == IInv /\ [Next]_vars => Downloads'
<1> SUFFICES ASSUME IInv, [Next]_vars PROVE Downloads'
  OBVIOUS
<1> USE LiteConfigAssumption DEF Threads
<1> Types' /\ Workers'
  BY TypesStep, WorkersStep
<1>1. ASSUME NEW j \in Jobs, WorkerStep(j)
      PROVE  Downloads'
  <2>1. clock \in Nat
    BY DEF IInv, Types, FileTypes
  <2> QED BY <1>1, <2>1, SavedOnce, DownloadFrame DEF Downloads
<1>2. ASSUME NEW t \in Threads, RemoveFiles(t) \/ RemoveDir(t) PROVE Downloads'
  BY <1>2, DownloadsUnderRemoval
<1>3. CASE Crash
  BY <1>3 DEF Crash, Downloads, Knows, HandlerLabel, Idle, Removing
<1>4. CASE Tick \/ UNCHANGED vars
  <2>1. /\ clock <= clock' /\ UNCHANGED <<saved, overlapped, meta_expires, export, answer>>
        /\ \A h \in Handlers : SameLocals(h)
    BY <1>4 DEF Tick, SameLocals, IInv, Types, FileTypes
  <2>2. \A j \in Jobs : Early(j) <=> Early(j)'
    BY <1>4 DEF Tick, Early, Unborn, Idle
  <2> QED BY <2>1, <2>2, DownloadFrame DEF Downloads
<1> QED BY <1>1, <1>2, <1>3, <1>4, DownloadsUnderDownload
   DEF Next, Save, Download, WorkerStep, ReaderStep

-----------------------------------------------------------------------------
(* The exports being written *)

\* Nobody leaves an export torn whose writer is still at it.
LEMMA TornFrame ==
    ASSUME IInv, UNCHANGED crashes,
           \A h \in Handlers : pc[h] = "write_export" => SameLocals(h),
           \A j \in Jobs, f \in Formats : export'[j][f] = "torn" => export[j][f] = "torn"
    PROVE  TornIsWritten'
BY DEF IInv, TornIsWritten, SameLocals

\* Only a download that is writing it, or a crash, leaves an export file torn.
LEMMA TornStep == IInv /\ [Next]_vars => TornIsWritten'
<1> SUFFICES ASSUME IInv, [Next]_vars PROVE TornIsWritten'
  OBVIOUS
<1> USE LiteConfigAssumption DEF Threads
<1> Types /\ FileTypes /\ RecordTypes /\ LocalTypes /\ Downloads /\ TornIsWritten
  BY DEF IInv, Types
<1>1. ASSUME NEW j \in Jobs, WorkerStep(j)
      PROVE  TornIsWritten'
  <2>1. UNCHANGED export \/ DropExports(j)
    BY <1>1
       DEF WorkerStep, CreateJob, MarkRunning, GetJob, SaveBegin, CleanupNext, MakeDir, OpenMeta, Raise,
                WriteMeta, OpenResult, WriteResult, MarkCompleted, MarkFailed
  <2>2. UNCHANGED crashes
    BY <1>1
       DEF WorkerStep, CreateJob, MarkRunning, GetJob, SaveBegin, CleanupNext, MakeDir, OpenMeta, Raise,
                WriteMeta, OpenResult, WriteResult, DropExports, MarkCompleted, MarkFailed
  <2>3. \A k \in Jobs, f \in Formats : export'[k][f] = "torn" => export[k][f] = "torn"
    BY <2>1 DEF DropExports, Removed, FileTypes
  <2> QED BY <1>1, <2>2, <2>3, SavedOnce, TornFrame
<1>2. ASSUME NEW t \in Threads, RemoveFiles(t) \/ RemoveDir(t) PROVE TornIsWritten'
  <2>1. UNCHANGED crashes
    BY <1>2 DEF RemoveFiles, RemoveDir
  <2>2. \A k \in Jobs, f \in Formats : export'[k][f] = "torn" => export[k][f] = "torn"
    BY <1>2 DEF RemoveFiles, RemoveDir, Removed, FileTypes
  <2>3. \A h \in Handlers : pc[h] = "write_export" => SameLocals(h)
    BY <1>2 DEF RemoveFiles, RemoveDir, Goto, Answer, Return, SameLocals, LocalTypes
  <2> QED BY <2>1, <2>2, <2>3, TornFrame
<1>3. ASSUME NEW h \in Handlers,
             \/ (\E j \in Jobs, f \in Formats : DownloadBegin(h, j, f))
             \/ RequireExists(h) \/ ReadMeta(h) \/ CachedExists(h) \/ ReadCached(h)
             \/ ResultExists(h) \/ ReadResult(h)
      PROVE  TornIsWritten'
  <2>1. UNCHANGED <<export, crashes>> /\ pc[h] # "write_export"
    BY <1>3 DEF DownloadBegin, RequireExists, ReadMeta, CachedExists, ReadCached, ResultExists,
                ReadResult, Idle
  <2> QED BY <1>3, <2>1, DownloadsOwn, TornFrame DEF ReaderStep
<1>4. ASSUME NEW h \in Handlers, OpenExport(h) PROVE TornIsWritten'
  <2>1. pc[h] = "open_export" /\ UNCHANGED crashes /\ job[h] \in Jobs /\ format[h] \in Formats
    BY <1>4 DEF OpenExport, Downloads, Knows, Idle
  <2>2. CASE job[h] \notin dir
    <3>1. UNCHANGED export
      BY <1>4, <2>2 DEF OpenExport
    <3> QED BY <1>4, <2>1, <3>1, DownloadsOwn, TornFrame DEF ReaderStep
  <2>3. CASE job[h] \in dir
    <3>1. pc'[h] = "write_export" /\ job'[h] = job[h] /\ format'[h] = format[h]
      BY <1>4, <2>3 DEF OpenExport, Goto, LocalTypes
    <3>2. ASSUME NEW j \in Jobs, NEW f \in Formats, export'[j][f] = "torn",
                 ~(j = job[h] /\ f = format[h])
          PROVE  export[j][f] = "torn"
      BY <1>4, <2>1, <2>3, <3>2 DEF OpenExport, FileTypes
    <3> QED BY <1>4, <2>1, <3>1, <3>2, DownloadsOwn DEF ReaderStep, TornIsWritten, SameLocals
  <2> QED BY <2>2, <2>3
<1>5. ASSUME NEW h \in Handlers, WriteExport(h) PROVE TornIsWritten'
  <2>1. pc[h] = "write_export" /\ UNCHANGED crashes /\ job[h] \in Jobs /\ format[h] \in Formats
    BY <1>5 DEF WriteExport, Downloads, Knows, Idle
  <2>2. ASSUME NEW j \in Jobs, NEW f \in Formats, export'[j][f] = "torn"
        PROVE  export[j][f] = "torn" /\ ~(j = job[h] /\ f = format[h])
    BY <1>5, <2>1, <2>2 DEF WriteExport, Closed, FileTypes
  <2> QED BY <1>5, <2>1, <2>2, DownloadsOwn DEF ReaderStep, TornIsWritten, SameLocals
<1>6. CASE Crash
  BY <1>6 DEF Crash, TornIsWritten, FileTypes
<1>7. CASE Tick \/ UNCHANGED vars
  BY <1>7 DEF Tick, TornIsWritten
<1> QED BY <1>1, <1>2, <1>3, <1>4, <1>5, <1>6, <1>7 DEF Next, Save, Download, WorkerStep, ReaderStep

-----------------------------------------------------------------------------
(* The invariant and the properties *)

\* Nothing is stored and nothing runs at first.
LEMMA IInvInit == Init => IInv
<1> SUFFICES ASSUME Init PROVE IInv
  OBVIOUS
<1> USE LiteConfigAssumption DEF Init, Threads
<1>1. Types
  BY DEF Types, FileTypes, RecordTypes, LocalTypes, File, Status, Label, WorkerLabel, NoTime
<1>2. Workers
  BY DEF Workers, WorkerLabel, Unborn, Early, Idle, Removing
<1>3. Alone /\ CleanupsSpare /\ Staged
  BY DEF Alone, CleanupsSpare, Staged, FilesOf, Written, Idle, Saving, Removing, NoTime
<1>4. Downloads
  BY DEF Downloads, Knows, HandlerLabel, Idle, Removing
<1>5. TornIsWritten
  BY DEF TornIsWritten
<1> QED BY <1>1, <1>2, <1>3, <1>4, <1>5 DEF IInv

\* Every step keeps the invariant.
LEMMA IInvStep == IInv /\ [Next]_vars => IInv'
BY TypesStep, WorkersStep, DownloadsStep, TornStep DEF IInv

\* Everything above holds in every reachable state.
THEOREM IInvHolds == Spec => []IInv
BY IInvInit, IInvStep, PTL DEF Spec

\* A completed job whose save overlapped no other keeps its result on disk, whole,
\* until it expires, whatever later cleanups, downloads and crashes do.
THEOREM KeptHolds == Spec => []KeptUnlessSavesOverlap
<1>1. IInv => KeptUnlessSavesOverlap
  BY DEF IInv, Types, RecordTypes, KeptUnlessSavesOverlap, Staged, FilesOf, Stored
<1> QED BY <1>1, IInvHolds, PTL

\* Only a step of its own ends a download with an answer.
LEMMA AnsweringSteps ==
    ASSUME IInv, [Next]_vars, NEW h \in Handlers, Answered(h, Files \cup Errors)
    PROVE  \/ RequireExists(h) \/ ReadMeta(h) \/ RemoveDir(h) \/ ReadCached(h)
           \/ ResultExists(h) \/ ReadResult(h) \/ OpenExport(h) \/ WriteExport(h)
<1> USE LiteConfigAssumption DEF Threads
<1> h \in Threads /\ LocalTypes /\ RecordTypes /\ answer'[h] # "none" /\ pc'[h] # pc[h]
  BY DEF IInv, Types, Answered, Files, Errors, Idle
<1>1. answer'[h] # answer[h]
  BY DEF IInv, Downloads, Knows, Answered
<1>2. ASSUME NEW j \in Jobs, WorkerStep(j)
      PROVE  FALSE
  BY <1>1, <1>2, SavedOnce
<1>3. ASSUME NEW g \in Handlers \ {h}, Download(g) PROVE FALSE
  <2>1. CASE RemoveFiles(g) \/ RemoveDir(g)
    BY <1>1, <2>1 DEF RemoveFiles, RemoveDir, Answer, RecordTypes
  <2> QED BY <1>1, <1>3, <2>1, DownloadsOwn DEF Download, ReaderStep
<1>4. ASSUME NEW g \in Handlers, NEW j \in Jobs, NEW f \in Formats, DownloadBegin(g, j, f)
      PROVE  FALSE
  BY <1>4 DEF DownloadBegin, RecordTypes
<1>5. ASSUME NEW j \in Jobs, RemoveFiles(j) \/ RemoveDir(j) PROVE FALSE
  <2>1. UNCHANGED answer
    BY <1>5 DEF RemoveFiles, RemoveDir, IInv, Workers, Removing
  <2> QED BY <1>1, <2>1
<1>6. ~Crash /\ ~Tick /\ ~UNCHANGED vars /\ ~RemoveFiles(h) /\ ~CachedExists(h)
  BY <1>1 DEF Crash, Tick, RemoveFiles, CachedExists, Goto
<1> QED BY <1>2, <1>3, <1>4, <1>5, <1>6 DEF Next, Save, Download, WorkerStep, ReaderStep

\* A download asked for of an expired job gets no file; one of a completed job saved
\* alone gets it until the expiry; "expired" is said from the record's expires_at on.
THEOREM ObeysHolds == Spec => DownloadObeysExpiry
<1>1. ASSUME IInv, [Next]_vars, NEW h \in Handlers
      PROVE  LET j == job[h] IN
             /\ Answered(h, Files) => seen[h] # "expired"
             /\ seen[h] = "completed" /\ Answered(h, Errors)
                   => j \in overlapped \/ meta_expires[j] <= clock
             /\ seen[h] = "completed" /\ status[j] # "lost" /\ Answered(h, {"gone_410"})
                   => expires_at[j] <= clock
  <2> DEFINE j == job[h]
  <2> h \in Threads /\ FileTypes /\ RecordTypes /\ LocalTypes /\ Workers /\ Knows(h)
    BY <1>1 DEF IInv, Types, Downloads, Threads
  <2>1. Answered(h, Files) \/ Answered(h, Errors) \/ Answered(h, {"gone_410"}) =>
           \/ RequireExists(h) \/ ReadMeta(h) \/ RemoveDir(h) \/ ReadCached(h)
           \/ ResultExists(h) \/ ReadResult(h) \/ OpenExport(h) \/ WriteExport(h)
    BY <1>1, AnsweringSteps DEF Answered, Errors
  <2>2. ASSUME Answered(h, Files) PROVE ReadCached(h) \/ WriteExport(h)
    BY <2>1, <2>2 DEF Answered, Files, RequireExists, ReadMeta, RemoveTree, RemoveDir, ResultExists,
                      ReadResult, OpenExport, Answer, Return, Goto, Idle, Knows, Removing,
                      RecordTypes, LocalTypes
  <2>3. Answered(h, Files) => seen[h] # "expired"
    BY <2>2 DEF ReadCached, WriteExport, Knows
  <2>4. ASSUME seen[h] = "completed", Answered(h, Errors), j \notin overlapped,
               clock < meta_expires[j]
        PROVE  FALSE
    <3>1. j \in saved /\ j \in Jobs /\ Stored(j)
      BY <1>1, <2>4 DEF Knows, Idle, IInv, Staged, FilesOf, Stored
    <3>2. ~Removing(h)
      BY <2>4 DEF Knows, FileTypes
    <3>3. h \in Threads /\ pc'[h] = "idle" /\ ~Idle(h) /\ answer'[h] \notin {"whole", "torn"}
      BY <2>4 DEF Answered, Errors
    <3>4. ~RequireExists(h) /\ ~ResultExists(h) /\ ~OpenExport(h) /\ ~RemoveDir(h)
      BY <3>1, <3>2, <3>3
         DEF Stored, RequireExists, ResultExists, OpenExport, RemoveDir, Removing, Goto, LocalTypes
    <3>5. ~ReadMeta(h)
      BY <2>4, <3>1, <3>3
         DEF Stored, ReadMeta, Expired, Goto, Knows, Idle, Removing, FileTypes, LocalTypes
    <3>6. ~ReadResult(h)
      BY <3>1, <3>3 DEF Stored, ReadResult, Goto, LocalTypes
    <3>7. ~ReadCached(h) /\ ~WriteExport(h)
      <4>1. Cached(h) \in File /\ (ReadCached(h) => Cached(h) # "absent")
        BY <2>4, <3>1, <3>3 DEF ReadCached, Knows, Cached, Idle, FileTypes
      <4> QED BY <3>3, <4>1 DEF ReadCached, WriteExport, Answer, File, RecordTypes
    <3> QED BY <2>1, <2>4, <3>4, <3>5, <3>6, <3>7
  <2>5. ASSUME seen[h] = "completed", status[j] # "lost", Answered(h, {"gone_410"})
        PROVE  expires_at[j] <= clock
    <3>1. j \in saved /\ j \in Jobs
      BY <2>5 DEF Knows
    <3>2. Removing(h)
      <4>1. h \in Threads /\ pc'[h] = "idle" /\ ~Idle(h) /\ answer'[h] = "gone_410"
        BY <2>5 DEF Answered
      <4>2. ~RequireExists(h) /\ ~ResultExists(h) /\ ~OpenExport(h)
        BY <4>1 DEF RequireExists, ResultExists, OpenExport, Goto, Answer, LocalTypes, RecordTypes
      <4>3. ~ReadMeta(h)
        BY <4>1 DEF ReadMeta, RemoveTree, Goto, Answer, Knows, Idle, Removing, LocalTypes, RecordTypes
      <4>4. ~ReadResult(h)
        BY <4>1 DEF ReadResult, Goto, Answer, LocalTypes, RecordTypes
      <4>5. ~ReadCached(h) /\ ~WriteExport(h)
        <5>1. Cached(h) \in File
          BY <4>1 DEF Knows, Cached, Idle, FileTypes
        <5> QED BY <4>1, <5>1 DEF ReadCached, WriteExport, Answer, File, RecordTypes
      <4> QED BY <2>1, <2>5, <4>2, <4>3, <4>4, <4>5 DEF RemoveDir, Removing
    <3> QED BY <2>5, <3>1, <3>2 DEF Knows, Workers
  <2>6. j \in overlapped \/ meta_expires[j] <= clock \/ clock < meta_expires[j] \/ j \notin Jobs
    BY DEF FileTypes
  <2>7. Answered(h, Errors) => j \in Jobs
    BY DEF Answered, Knows
  <2> QED BY <2>3, <2>4, <2>5, <2>6, <2>7
<1>2. IInv /\ [Next]_vars =>
         [\A h \in Handlers :
             LET j == job[h] IN
             /\ Answered(h, Files) => seen[h] # "expired"
             /\ seen[h] = "completed" /\ Answered(h, Errors)
                   => j \in overlapped \/ meta_expires[j] <= clock
             /\ seen[h] = "completed" /\ status[j] # "lost" /\ Answered(h, {"gone_410"})
                   => expires_at[j] <= clock]_vars
  BY <1>1
<1> QED BY <1>2, IInvHolds, PTL DEF Spec, DownloadObeysExpiry

\* A file is cut short only while another download writes it, or after a crash.
THEOREM CutShortHolds == Spec => CutShortOnlyByAnother
<1>1. ASSUME IInv, [Next]_vars, NEW h \in Handlers, Answered(h, {"torn"})
      PROVE  \/ crashes > 0
             \/ \E g \in Handlers \ {h} :
                    pc[g] = "write_export" /\ job[g] = job[h] /\ format[g] = format[h]
  <2> h \in Threads /\ FileTypes /\ RecordTypes /\ LocalTypes /\ Knows(h) /\ TornIsWritten
    BY <1>1 DEF IInv, Types, Downloads, Threads
  <2>1. \/ RequireExists(h) \/ ReadMeta(h) \/ RemoveDir(h) \/ ReadCached(h)
        \/ ResultExists(h) \/ ReadResult(h) \/ OpenExport(h) \/ WriteExport(h)
    BY <1>1, AnsweringSteps DEF Answered, Files
  <2>2. ReadCached(h)
    BY <1>1, <2>1 DEF Answered, RequireExists, ReadMeta, RemoveTree, RemoveDir, ResultExists,
                      ReadResult, OpenExport, WriteExport, Answer, Return, Goto, Idle, Knows, Removing,
                      RecordTypes, LocalTypes
  <2>3. pc[h] = "read_cached" /\ Cached(h) = "torn" /\ job[h] \in Jobs /\ format[h] \in Formats
    BY <1>1, <2>2 DEF ReadCached, Answered, Answer, Knows, RecordTypes
  <2> QED BY <2>3 DEF TornIsWritten, Cached
<1>2. IInv /\ [Next]_vars =>
         [\A h \in Handlers :
             Answered(h, {"torn"}) =>
                \/ crashes > 0
                \/ \E g \in Handlers \ {h} :
                       pc[g] = "write_export" /\ job[g] = job[h] /\ format[g] = format[h]]_vars
  BY <1>1
<1> QED BY <1>2, IInvHolds, PTL DEF Spec, CutShortOnlyByAnother
=============================================================================
