------------------------------ MODULE LitePage ------------------------------
(***************************************************************************)
(* The Lite page (LitePage.tsx) and the jobs it starts on the server       *)
(* (routers/lite.py, LiteJobStore): the user drops files, the page has     *)
(* them analysed, creates a job, polls it, shows its result until it       *)
(* expires, and downloads it. Requests are answered in any order; the      *)
(* server may restart, which forgets jobs but not the results on disk, and *)
(* the user may reload the page, which keeps the session storage.          *)
(*                                                                         *)
(* A state of the page is one after its effects have run: the active job   *)
(* is then the one in the session storage. React Query keeps the answer of *)
(* the active job's poll, and asks again while a job is not settled, or    *)
(* when the window gets the focus.                                         *)
(***************************************************************************)
EXTENDS Integers, FiniteSets, FiniteSetsExt

CONSTANTS
    FILES,          \* bound: how many files are dropped
    JOBS,           \* bound: how many jobs are created
    BREAKS          \* bound: how often the server restarts or the user reloads the page

ASSUME PageAssumption == FILES \in Nat /\ JOBS \in Nat /\ BREAKS \in Nat

VARIABLES
    page,           \* the state of the page, and its completed notice in the session storage
    analyses,       \* files under analysis
    create,         \* the request that creates a job
    poll,           \* the request for the active job
    download,       \* the request for a result
    jobs,           \* LiteJobStore, and whether the result on disk is past its time
    count,          \* what the bounds bound
    notices,        \* history: how often the page announced that a job is complete
    forgot          \* history: how the page may have lost sight of a job

requests == <<analyses, create, poll, download>>
page_vars == <<page, requests, jobs, count, notices, forgot>>

File == 1 .. FILES
Job == 1 .. JOBS
Nothing == 0
Expired == -1                     \* 'expired', for the id of a job

NoRequest == [state |-> "none", job |-> Nothing, file |-> Nothing, answer |-> "none"]
NoJob == [status |-> "none", file |-> Nothing, saved |-> FALSE, past |-> FALSE]
Unsettled == {"queued", "running"}

PageInit ==
    /\ page = [file |-> Nothing, active |-> Nothing, data |-> "none", result |-> Nothing, told |-> Nothing,
               noticed |-> Nothing, modal |-> "none"]
    /\ analyses = {} /\ create = NoRequest /\ poll = NoRequest /\ download = NoRequest
    /\ jobs = [j \in Job |-> NoJob]
    /\ count = [files |-> 0, jobs |-> 0, breaks |-> 0]
    /\ notices = [j \in Job |-> 0] /\ forgot = {}

-----------------------------------------------------------------------------
(* What changes the page *)

\* resetJobState
Reset(p) == [p EXCEPT !.active = Nothing, !.data = "none", !.result = Nothing, !.told = Nothing, !.noticed = Nothing]

\* showExpiredModal: of the job that is active now, whichever has expired.
ShowExpired(p) ==
    LET id == IF p.active = Nothing THEN Expired ELSE p.active IN
    IF p.told = id THEN p ELSE [Reset(p) EXCEPT !.told = id, !.modal = "expired"]

\* runMutation.onSuccess
Created(p, j) == [Reset(p) EXCEPT !.active = j]

\* Mutant: any error of the poll resets the page.
Polled_AnyErrorResets(p, answer) ==
    CASE answer \in {"gone", "lost"} -> Reset(p)
      [] answer = "expired"         -> ShowExpired(p)
      [] answer = "completed"       -> [p EXCEPT !.data = answer, !.result = p.active, !.noticed = p.active,
                                                 !.modal = IF p.noticed = p.active THEN @ ELSE "completed"]
      [] OTHER                      -> [p EXCEPT !.data = answer]

\* Mutant: no error of the poll resets the page.
Polled_NoErrorResets(p, answer) ==
    CASE answer \in {"gone", "lost"} -> p
      [] answer = "expired"         -> ShowExpired(p)
      [] answer = "completed"       -> [p EXCEPT !.data = answer, !.result = p.active, !.noticed = p.active,
                                                 !.modal = IF p.noticed = p.active THEN @ ELSE "completed"]
      [] OTHER                      -> [p EXCEPT !.data = answer]

\* The effects of an answer to the poll of the active job; a network error has none.
Polled(p, answer) ==
    CASE answer = "gone"      -> Reset(p)
      [] answer = "expired"   -> ShowExpired(p)
      [] answer = "completed" -> [p EXCEPT !.data = answer, !.result = p.active, !.noticed = p.active,
                                           !.modal = IF p.noticed = p.active THEN @ ELSE "completed"]
      [] answer = "lost"      -> p
      [] OTHER                -> [p EXCEPT !.data = answer]

InProgress == page.data \in Unsettled
UserActs == page.modal = "none"
Free(r) == r = NoRequest

-----------------------------------------------------------------------------
(* Analysis and creation *)

\* beforeUpload: nothing waits for the file dropped before.
Drop ==
    /\ UserActs /\ count.files < FILES
    /\ count' = [count EXCEPT !.files = @ + 1]
    /\ analyses' = analyses \cup {count.files + 1}
    /\ UNCHANGED <<page, create, poll, download, jobs, notices, forgot>>

\* analyzeMutation.onSuccess; an error leaves the page as it is.
Analysed(f, ok) ==
    /\ f \in analyses
    /\ analyses' = analyses \ {f}
    /\ page' = IF ok THEN [Reset(page) EXCEPT !.file = f] ELSE page
    /\ forgot' = forgot \cup
          (IF ok /\ create.state # "none" THEN {"analysed while creating"} ELSE {}) \cup
          (IF ok /\ page.active # Nothing THEN {"analysed over a job"} ELSE {})
    /\ UNCHANGED <<create, poll, download, jobs, count, notices>>

\* Mutant: the button is on while a job is in progress.
Run_InProgress ==
    /\ UserActs /\ page.file # Nothing /\ Free(create) /\ count.jobs < JOBS
    /\ count' = [count EXCEPT !.jobs = @ + 1]
    /\ create' = [NoRequest EXCEPT !.state = "asked", !.job = count.jobs + 1, !.file = page.file]
    /\ forgot' = IF page.active # Nothing /\ page.data = "none"
                 THEN forgot \cup {"run before the first poll"} ELSE forgot
    /\ UNCHANGED <<page, analyses, poll, download, jobs, notices>>

\* The button is off while a job is known to be in progress, or being created.
Run ==
    /\ UserActs /\ page.file # Nothing /\ ~InProgress /\ Free(create) /\ count.jobs < JOBS
    /\ count' = [count EXCEPT !.jobs = @ + 1]
    /\ create' = [NoRequest EXCEPT !.state = "asked", !.job = count.jobs + 1, !.file = page.file]
    /\ forgot' = IF page.active # Nothing /\ page.data = "none"
                   THEN forgot \cup {"run before the first poll"} ELSE forgot
    /\ UNCHANGED <<page, analyses, poll, download, jobs, notices>>

\* create_lite_run_job
CreateHandled ==
    /\ create.state = "asked"
    /\ jobs' = [jobs EXCEPT ![create.job] = [NoJob EXCEPT !.status = "queued", !.file = create.file]]
    /\ create' = [create EXCEPT !.state = "answered"]
    /\ UNCHANGED <<page, analyses, poll, download, count, notices, forgot>>

CreateAnswered ==
    /\ create.state = "answered"
    /\ page' = Created(page, create.job)
    /\ create' = NoRequest
    /\ UNCHANGED <<analyses, poll, download, jobs, count, notices, forgot>>

-----------------------------------------------------------------------------
(* Polls, the timer and downloads *)

\* refetchInterval while the job is not known to be settled; a focus at any time.
Poll ==
    /\ page.active # Nothing /\ Free(poll)
    /\ poll' = [NoRequest EXCEPT !.state = "asked", !.job = page.active]
    /\ UNCHANGED <<page, analyses, create, download, jobs, count, notices, forgot>>

Interval == page.data \in Unsettled \cup {"none"} /\ Poll

\* get_lite_run_job
PollHandled ==
    LET job == jobs[poll.job] IN
    /\ poll.state = "asked"
    /\ poll' = [poll EXCEPT !.state = "answered",
                   !.answer = CASE job.status = "none"                 -> "gone"
                                [] job.status = "completed" /\ job.past -> "expired"
                                [] OTHER                               -> job.status]
    /\ UNCHANGED <<page, analyses, create, download, jobs, count, notices, forgot>>

\* An answer about another job than the active one goes to the cache, unseen.
PollAnswered ==
    /\ poll.state = "answered"
    /\ poll' = NoRequest
    /\ IF poll.job = page.active
       THEN /\ page' = Polled(page, poll.answer)
            /\ notices' = IF poll.answer = "completed" /\ page.noticed # poll.job
                          THEN [notices EXCEPT ![poll.job] = @ + 1] ELSE notices
       ELSE UNCHANGED <<page, notices>>
    /\ UNCHANGED <<analyses, create, download, jobs, count, forgot>>

\* The time-out set for expires_at.
Timer ==
    /\ page.data = "completed" /\ jobs[page.active].past
    /\ page' = ShowExpired(page)
    /\ UNCHANGED <<requests, jobs, count, notices, forgot>>

Download ==
    /\ UserActs /\ page.result # Nothing /\ page.data = "completed" /\ Free(download)
    /\ download' = [NoRequest EXCEPT !.state = "asked", !.job = page.active]
    /\ UNCHANGED <<page, analyses, create, poll, jobs, count, notices, forgot>>

\* download_lite_run_result: a result past its time is gone, once it has been cleaned up
\* not found.
DownloadHandled(answer) ==
    /\ download.state = "asked"
    /\ answer \in IF jobs[download.job].past THEN {"410", "404"} ELSE {"200"}
    /\ download' = [download EXCEPT !.state = "answered", !.answer = answer]
    /\ UNCHANGED <<page, analyses, create, poll, jobs, count, notices, forgot>>

DownloadAnswered ==
    /\ download.state = "answered"
    /\ download' = NoRequest
    /\ page' = IF download.answer = "410" THEN ShowExpired(page) ELSE page
    /\ forgot' = IF download.answer = "410" /\ page.active \notin {Nothing, download.job}
                   THEN forgot \cup {"an older result expired"} ELSE forgot
    /\ UNCHANGED <<analyses, create, poll, jobs, count, notices>>

-----------------------------------------------------------------------------
(* The modal, the page's life, and the server *)

\* Mutant: the notice is not kept in the session storage.
Reloaded_ForgetsNotice(p) ==
    [p EXCEPT !.file = Nothing, !.data = "none", !.result = Nothing, !.told = Nothing, !.modal = "none", !.noticed = Nothing]

Reloaded(p) == [p EXCEPT !.file = Nothing, !.data = "none", !.result = Nothing, !.told = Nothing, !.modal = "none"]

\* The answers to the requests of a page that is gone are not seen; a job may be created
\* all the same.
Reload ==
    /\ page' = Reloaded(page)
    /\ analyses' = {} /\ poll' = NoRequest /\ download' = NoRequest /\ create' = NoRequest
    /\ \/ jobs' = jobs
       \/ /\ create.state = "asked"
          /\ jobs' = [jobs EXCEPT ![create.job] = [NoJob EXCEPT !.status = "queued", !.file = create.file]]
    /\ forgot' = IF create.state # "none" THEN forgot \cup {"reloaded while creating"} ELSE forgot
    /\ notices' = notices

ReloadByUser ==
    /\ count.breaks < BREAKS
    /\ count' = [count EXCEPT !.breaks = @ + 1]
    /\ Reload

\* The user confirms a notice; that of an expired result reloads the page.
Confirm ==
    /\ page.modal # "none"
    /\ IF page.modal = "expired"
       THEN Reload
       ELSE page' = [page EXCEPT !.modal = "none"] /\ UNCHANGED <<requests, jobs, notices, forgot>>
    /\ count' = count

\* _run_lite_job; the time of a saved result passes.
JobSteps(j) ==
    /\ \/ jobs[j].status = "queued" /\ jobs' = [jobs EXCEPT ![j].status = "running"]
       \/ jobs[j].status \in Unsettled /\ jobs' = [jobs EXCEPT ![j].status = "failed"]
       \/ jobs[j].status = "running" /\ jobs' = [jobs EXCEPT ![j].status = "completed", ![j].saved = TRUE]
       \/ jobs[j].saved /\ ~jobs[j].past /\ jobs' = [jobs EXCEPT ![j].past = TRUE]
    /\ UNCHANGED <<page, requests, count, notices, forgot>>

\* The requests under way are lost, and the jobs.
Restart ==
    /\ count.breaks < BREAKS
    /\ count' = [count EXCEPT !.breaks = @ + 1]
    /\ jobs' = [j \in Job |-> [jobs[j] EXCEPT !.status = "none"]]
    /\ analyses' = {} /\ create' = NoRequest /\ download' = NoRequest
    /\ poll' = IF Free(poll) THEN poll ELSE [poll EXCEPT !.state = "answered", !.answer = "lost"]
    /\ UNCHANGED <<page, notices, forgot>>

PageNext ==
    \/ Drop \/ (\E f \in File, ok \in BOOLEAN : Analysed(f, ok))
    \/ Run \/ CreateHandled \/ CreateAnswered
    \/ Poll \/ PollHandled \/ PollAnswered \/ Timer
    \/ Download \/ (\E answer \in {"200", "404", "410"} : DownloadHandled(answer)) \/ DownloadAnswered
    \/ ReloadByUser \/ Confirm \/ (\E j \in Job : JobSteps(j)) \/ Restart

\* The page polls at its interval and keeps its time-out, requests are answered, and jobs end.
\* The user need not do anything.
PageFairness ==
    /\ WF_page_vars(Interval) /\ WF_page_vars(PollHandled) /\ WF_page_vars(PollAnswered)
    /\ WF_page_vars(Timer)
    /\ WF_page_vars(CreateHandled) /\ WF_page_vars(CreateAnswered)
    /\ \A j \in Job : WF_page_vars(JobSteps(j))

PageSpec == PageInit /\ [][PageNext]_page_vars /\ PageFairness

-----------------------------------------------------------------------------
(* Properties *)

Answers == {"none", "queued", "running", "completed", "failed", "expired", "gone", "lost", "200", "404", "410"}
Request == [state : {"none", "asked", "answered"}, job : Job \cup {Nothing}, file : File \cup {Nothing}, answer : Answers]

\* Every variable has its type; the page has data and a result only of an active job, and the
\* result is that job's.
PageTypeOK ==
    /\ page \in [file : File \cup {Nothing}, active : Job \cup {Nothing},
                  data : {"none", "queued", "running", "completed", "failed"}, result : Job \cup {Nothing},
                  told : Job \cup {Nothing, Expired}, noticed : Job \cup {Nothing},
                  modal : {"none", "completed", "expired"}]
    /\ page.active = Nothing => page.data = "none"
    /\ page.result # Nothing => page.result = page.active
    /\ analyses \subseteq File /\ create \in Request /\ poll \in Request /\ download \in Request
    /\ jobs \in [Job -> [status : {"none", "queued", "running", "completed", "failed"},
                         file : File \cup {Nothing}, saved : BOOLEAN, past : BOOLEAN]]

\* The page announces once that a job is complete: over polls, focuses and reloads.
NoticedOnce == \A j \in Job : notices[j] <= 1

\* The page and its jobs go together. A job that runs is on the page, or about to be: it is lost
\* sight of (and goes on asking SF, and keeps the app from stopping) when the user asks again
\* before the first poll is answered, analyses a file over it, or reloads while it is created, or
\* when an older result expires. And it is shown with the file it is of, unless that file's
\* analysis was answered while the job was being created.
JobsAreInSight ==
    /\ forgot = {} =>
        \A j \in Job : jobs[j].status \in Unsettled => j \in {page.active, create.job}
    /\ page.active # Nothing /\ page.file # Nothing /\ "analysed while creating" \notin forgot
        /\ jobs[page.active].status # "none"
        => jobs[page.active].file = page.file

\* A result is taken from the page by its own expiry, its job's 404 or a new analysis or job,
\* and by an older result's expiry; never by a lost request, or a failed analysis or download.
ResultLeavesForAReason ==
    [][\A j \in Job :
          page.result = j /\ page'.result # j =>
              \/ jobs[j].past \/ (poll.job = j /\ poll.answer = "gone") \/ page'.active \notin {Nothing, j}
              \/ page'.file # page.file
              \/ "an older result expired" \in forgot'
              \/ page' = Reloaded(page)]_page_vars

\* The page learns of the end of every job it has taken up, through restarts and reloads, and an
\* expired result does not stay on it.
PageSettles ==
    \A j \in Job :
        /\ page.active = j ~> page.active # j \/ page.data \in {"completed", "failed"}
        /\ page.result = j /\ jobs[j].past ~> page.result # j
=============================================================================
