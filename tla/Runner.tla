-------------------------------- MODULE Runner --------------------------------
(***************************************************************************)
(* A runner process (reconmapd, runner/internal/app.go): the poll loop     *)
(* that reconciles the API's schedules with the jobs of its in-memory      *)
(* scheduler, and the goroutines that execute those jobs.  The actions are *)
(* the runner's own steps; what they ask of the API is joined to them in   *)
(* ScanPipeline.                                                           *)
(***************************************************************************)
EXTENDS ScanRuns

CONSTANTS
    Runners,      \* runner processes
    Jobs,         \* goroutines running a schedule at a time, over all runners
    MaxFirings,   \* bound: how often a recurring schedule fires per boot
    Unrunnable,   \* command lines with a "{{{" placeholder, or empty
    BadCron,      \* recurring schedules whose expression NewJob refuses
    Capture,      \* what executeSchedule uploads: "none", "stdout" or "file"
    OutputFile    \* the file a usage writes, in the runner's working directory;
                  \* several usages may name the same one

ASSUME RunnerAssumption ==
    /\ Runners # {} /\ Requests # {}
    /\ Unrunnable \subseteq Schedules
    /\ BadCron \subseteq Recurring
    /\ Capture \in [Schedules -> {"none", "stdout", "file"}]
    /\ OutputFile \in [Schedules -> STRING]
    /\ MaxFirings \in Nat

Files == {OutputFile[s] : s \in Schedules}
Nothing == "nothing"          \* there is no such file
Stale   == "stale"            \* a goroutine wrote it that has ended since
Sources == Jobs \cup {Nothing, Stale}

VARIABLES
    state,   \* the poll loop of each runner
    token,   \* whether the access token read at start-up is still accepted
    polled,  \* the schedules of the last GET /commands/schedules
    active,  \* App.activeScheduleIds
    timers,  \* jobs in the gocron scheduler that can still fire
    starts,  \* how often each schedule was started since this boot
    orphans, \* active schedules that were listed without a project
    job,     \* the goroutines
    files,   \* whose output each file holds
    disputed \* goroutines that may find another's output in their file: their
             \* tool and one that writes the same file ran at the same time, or
             \* their tool ended well without writing it

runnerVars ==
    <<state, token, polled, active, timers, starts, orphans, job, files, disputed>>

LoopStates == {"down", "boot", "fetched", "waiting", "deaf"}

\* "report" sends a status, "await" waits for the answer, then "execute",
\* "read" the output, "upload" it, "report" again and "delete" a once schedule.
JobStates == {"idle", "report", "await", "execute", "read", "upload", "delete"}

JobRec ==
    [pc : JobStates, runner : Runners, sched : Schedules,
     status : {"running", "succeeded", "failed"},  \* reported now or next
     req : Requests,                               \* the request awaited
     content : Sources]                            \* whose output was read

NoJob ==
    [pc |-> "idle", runner |-> CHOOSE r \in Runners : TRUE,
     sched |-> CHOOSE s \in Schedules : TRUE, status |-> "failed",
     req |-> CHOOSE q \in Requests : TRUE, content |-> Nothing]

RunnerTypeOK ==
    /\ state \in [Runners -> LoopStates]
    /\ token \in [Runners -> BOOLEAN]
    /\ polled \in [Runners -> SUBSET Schedules]
    /\ active \in [Runners -> SUBSET Schedules]
    /\ \A r \in Runners : timers[r] \subseteq active[r]
    /\ timers \in [Runners -> SUBSET Schedules]
    /\ orphans \in [Runners -> SUBSET Schedules]
    /\ starts \in [Runners -> [Schedules -> Nat]]
    /\ job \in [Jobs -> JobRec]
    /\ files \in [Runners -> [Files -> Sources]]
    /\ disputed \subseteq Jobs

RunnerInit ==
    /\ state = [r \in Runners |-> "down"]
    /\ token = [r \in Runners |-> FALSE]
    /\ polled = [r \in Runners |-> {}]
    /\ active = [r \in Runners |-> {}]
    /\ timers = [r \in Runners |-> {}]
    /\ starts = [r \in Runners |-> [s \in Schedules |-> 0]]
    /\ job = [j \in Jobs |-> NoJob]
    /\ files = [r \in Runners |-> [f \in Files |-> Nothing]]
    /\ disputed = {}
    /\ orphans = [r \in Runners |-> {}]

-------------------------------------------------------------------------------
(* Run: the access token is read once, with client credentials.            *)
Boot(r) ==
    /\ state[r] = "down"
    /\ state' = [state EXCEPT ![r] = "boot"]
    /\ token' = [token EXCEPT ![r] = TRUE]
    /\ UNCHANGED <<polled, active, timers, starts, orphans, job, files, disputed>>

(* A scan's schedule whose project was deleted: project_id was set to NULL *)
(* (a manual schedule is taken to keep its project).                       *)
WithoutProject(s) == s \in Tasks /\ run[RunOf[s]] = "deleted"

(* GET /commands/schedules answers with list, at start-up or on a poll; a  *)
(* job keeps the schedule as it was listed when the job was made.          *)
Fetch(r, list) ==
    /\ state[r] \in {"boot", "waiting"}
    /\ state' = [state EXCEPT ![r] = "fetched"]
    /\ polled' = [polled EXCEPT ![r] = list]
    /\ orphans' = [orphans EXCEPT ![r] =
                     @ \cup {s \in list \ active[r] : WithoutProject(s)}]
    /\ UNCHANGED <<token, active, timers, starts, job, files, disputed>>

(* A poll that fails is skipped; when the first GET fails, setupSchedules  *)
(* is never called and nothing polls again.                                *)
FetchFails(r) ==
    /\ \/ /\ state[r] = "boot"
          /\ state' = [state EXCEPT ![r] = "deaf"]
       \/ /\ state[r] = "waiting"
          /\ UNCHANGED state
    /\ UNCHANGED <<token, polled, active, timers, starts, orphans, job, files, disputed>>

\* Mutant of Reconcile: a job is made for what has no job in the scheduler.
ReconcileByTimers(r) ==
    LET new == (polled[r] \ timers[r]) \ BadCron IN
    /\ state[r] = "fetched"
    /\ state' = [state EXCEPT ![r] = "waiting"]
    /\ active' = [active EXCEPT ![r] = (@ \cup new) \cap polled[r]]
    /\ timers' = [timers EXCEPT ![r] = (@ \cup new) \cap polled[r]]
    /\ polled' = [polled EXCEPT ![r] = {}]
    /\ UNCHANGED <<token, starts, orphans, job, files, disputed>>

\* Mutant of Reconcile: the job of a schedule that is gone stays in the
\* scheduler.
ReconcileKeepingJobs(r) ==
    LET new == (polled[r] \ active[r]) \ BadCron IN
    /\ state[r] = "fetched"
    /\ state' = [state EXCEPT ![r] = "waiting"]
    /\ active' = [active EXCEPT ![r] = (@ \cup new) \cap polled[r]]
    /\ timers' = [timers EXCEPT ![r] = @ \cup new]
    /\ polled' = [polled EXCEPT ![r] = {}]
    /\ UNCHANGED <<token, starts, orphans, job, files, disputed>>

(* reconcileSchedules: a job for each schedule not active yet (an invalid  *)
(* cron expression is skipped and tried again on the next poll), and no    *)
(* job for an active one that is not listed any more.                      *)
Reconcile(r) ==
    LET new == (polled[r] \ active[r]) \ BadCron IN
    /\ state[r] = "fetched"
    /\ state' = [state EXCEPT ![r] = "waiting"]
    /\ active' = [active EXCEPT ![r] = (@ \cup new) \cap polled[r]]
    /\ timers' = [timers EXCEPT ![r] = (@ \cup new) \cap polled[r]]
    /\ polled' = [polled EXCEPT ![r] = {}]
    /\ UNCHANGED <<token, starts, orphans, job, files, disputed>>

(* gocron starts a goroutine: a one-time job once, a cron job whenever its *)
(* time comes, also while its previous execution is still running.  A      *)
(* command line that must not run is reported as failed straight away.     *)
Fire(r, s, j) ==
    /\ s \in timers[r]
    /\ job[j].pc = "idle"
    /\ s \in Recurring => starts[r][s] < MaxFirings
    /\ job' = [job EXCEPT ![j] =
                 [NoJob EXCEPT !.pc = "report", !.runner = r, !.sched = s,
                    !.status = IF s \in Unrunnable THEN "failed" ELSE "running"]]
    /\ starts' = [starts EXCEPT ![r][s] = @ + 1]
    /\ timers' = [timers EXCEPT ![r] = IF s \in Once THEN @ \ {s} ELSE @]
    /\ files' = [x \in Runners |-> [f \in Files |->
                    IF files[x][f] = j THEN Stale ELSE files[x][f]]]
    /\ UNCHANGED <<state, token, polled, active, orphans, disputed>>

-------------------------------------------------------------------------------
(* The steps of runSchedule.  reportStatus is a no-op for a schedule that  *)
(* has no scan task, and an error of it is only logged.                    *)
GoTo(j, pc) == job' = [job EXCEPT ![j] = [@ EXCEPT !.pc = pc]]

WriteSameFile(s, t) ==
    Capture[s] = "file" /\ Capture[t] = "file" /\ OutputFile[s] = OutputFile[t]

\* The goroutines whose file is being written or about to be read when the
\* tool of j starts to write it.
Rivals(j) ==
    {k \in Jobs \ {j} : /\ job[k].pc \in {"execute", "read"}
                         /\ job[k].runner = job[j].runner
                         /\ WriteSameFile(job[k].sched, job[j].sched)}

StartTool(j) ==
    /\ GoTo(j, "execute")
    /\ disputed' = IF Rivals(j) = {} THEN disputed \ {j}
                   ELSE disputed \cup Rivals(j) \cup {j}

\* Where runSchedule continues once a status was reported, or could not be.
AfterReport(j) ==
    \/ job[j].status = "running" /\ StartTool(j)
    \/ /\ job[j].status # "running"
       /\ IF job[j].sched \in Once THEN GoTo(j, "delete")
          ELSE job' = [job EXCEPT ![j] = NoJob]
       /\ UNCHANGED disputed

\* Mutant of Await: the report is sent without waiting for its answer.
AwaitNothing(j, q) == job[j].pc = "report" /\ q \in Requests /\ AfterReport(j)

Await(j, q) == /\ job[j].pc = "report"
               /\ job' = [job EXCEPT ![j] = [@ EXCEPT !.pc = "await", !.req = q]]
               /\ UNCHANGED disputed

\* Mutant of Finish: a failure returns early and is not reported.
FinishQuietly(j, status) ==
    job' = [job EXCEPT ![j] = [@ EXCEPT
              !.pc = IF status = "failed" THEN "delete" ELSE "report",
              !.status = status, !.content = Nothing]]

\* executeSchedule is over: the final status is reported next.
Finish(j, status) ==
    job' = [job EXCEPT ![j] = [@ EXCEPT !.pc = "report", !.status = status,
                                        !.content = Nothing]]

\* The files once the tool of j has written the one of its usage.
Written(j) ==
    LET s == job[j].sched IN
    IF Capture[s] = "file"
    THEN [files EXCEPT ![job[j].runner][OutputFile[s]] = j] ELSE files

\* Mutant of Execute: the exit code of a tool that wrote nothing is ignored.
ExecuteIgnoringExit(j) ==
    /\ job[j].pc = "execute"
    /\ \/ GoTo(j, "read") /\ files' = Written(j)
       \/ GoTo(j, "read") /\ UNCHANGED files
    /\ UNCHANGED <<state, token, polled, active, timers, starts, orphans, disputed>>

(* Executor.Execute: the tool runs and its exit decides.  One that fails   *)
(* may have written its file before, and one that succeeds may not have.   *)
Execute(j) ==
    /\ job[j].pc = "execute"
    /\ \/ GoTo(j, "read") /\ files' = Written(j) /\ UNCHANGED disputed
       \/ /\ Capture[job[j].sched] = "file"
          /\ GoTo(j, "read")
          /\ disputed' = disputed \cup {j}
          /\ UNCHANGED files
       \/ Finish(j, "failed") /\ files' \in {files, Written(j)} /\ UNCHANGED disputed
    /\ UNCHANGED <<state, token, polled, active, timers, starts, orphans>>

\* What uploadScheduleOutput reads once the tool has ended.
Output(j) ==
    LET s == job[j].sched IN
    IF Capture[s] = "file" THEN files[job[j].runner][OutputFile[s]] ELSE j

(* uploadScheduleOutput once it knows the usage: without a capturing mode  *)
(* there is no upload, and without the file the execution fails.           *)
ReadOutput(j) ==
    IF Capture[job[j].sched] = "none" THEN Finish(j, "succeeded")
    ELSE IF Output(j) = Nothing THEN Finish(j, "failed")
    ELSE job' = [job EXCEPT ![j] = [@ EXCEPT !.pc = "upload", !.content = Output(j)]]

(* The process dies, and its tools with it; its working directory stays.   *)
Crash(r) ==
    /\ state[r] # "down"
    /\ state' = [state EXCEPT ![r] = "down"]
    /\ token' = [token EXCEPT ![r] = FALSE]
    /\ polled' = [polled EXCEPT ![r] = {}]
    /\ active' = [active EXCEPT ![r] = {}]
    /\ timers' = [timers EXCEPT ![r] = {}]
    /\ starts' = [starts EXCEPT ![r] = [s \in Schedules |-> 0]]
    /\ job' = [j \in Jobs |-> IF job[j].pc # "idle" /\ job[j].runner = r
                              THEN NoJob ELSE job[j]]
    /\ orphans' = [orphans EXCEPT ![r] = {}]
    /\ UNCHANGED <<files, disputed>>

===============================================================================
