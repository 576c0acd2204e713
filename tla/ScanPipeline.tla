----------------------------- MODULE ScanPipeline -----------------------------
(***************************************************************************)
(* Scans end to end: users start them through the API, runners poll the    *)
(* schedules, execute the tools, upload what they print and report how it  *)
(* went.  A call of a runner can fail, or be answered after the runner     *)
(* gave up on it; API and runners can stop; the access token expires.      *)
(* FaultKinds and MaxFaults say which of these happen, and how often.      *)
(***************************************************************************)
EXTENDS Runner

CONSTANTS
    FaultKinds,  \* of "call", "abandon", "api", "crash", "token"
    MaxFaults,   \* bound: faults in a behaviour
    Cancellable  \* schedules a user may delete

ASSUME PipelineAssumption ==
    /\ FaultKinds \subseteq {"call", "abandon", "api", "crash", "token"}
    /\ MaxFaults \in Nat
    /\ Cancellable \subseteq Schedules

VARIABLES
    outputs,  \* the outputs the API accepted: [sched, own, alone]
    cancelled,\* the schedules a user deleted
    faults    \* how many faults there were

vars == <<scanVars, runnerVars, outputs, cancelled, faults>>

\* own: what was uploaded came from the tool this goroutine ran; alone: its
\* file was not disputed.
Outputs == [sched : Schedules, own : BOOLEAN, alone : BOOLEAN]

\* The tables, the runners and the outputs hold values of their types.
TypeOK ==
    /\ ScanTypeOK
    /\ RunnerTypeOK
    /\ outputs \subseteq Outputs
    /\ cancelled \subseteq Schedules
    /\ faults \in Nat

Init ==
    /\ ScanInit
    /\ RunnerInit
    /\ outputs = {}
    /\ cancelled = {}
    /\ faults = 0

Fault(kind) ==
    /\ kind \in FaultKinds
    /\ faults < MaxFaults
    /\ faults' = faults + 1

\* Calls of r carry the token it was started with.
CallSucceeds(r) == token[r] /\ UNCHANGED faults
CallFails(r) == \/ ~token[r] /\ UNCHANGED faults
                \/ Fault("call")

-------------------------------------------------------------------------------
(* Users.                                                                  *)
UserStep ==
    /\ \/ \E r \in Runs : SaveRun(r)
       \/ \E s \in Manual : CreateSchedule(s)
       \/ \E r \in Runs : DeleteProject(r)
    /\ UNCHANGED <<runnerVars, outputs, cancelled, faults>>

CancelSchedule(s) ==
    /\ s \in Cancellable \cap schedules
    /\ DeleteSchedule(s)
    /\ cancelled' = cancelled \cup {s}
    /\ UNCHANGED <<runnerVars, outputs, faults>>

(* The API.                                                                *)
StoreSchedules(r) ==
    /\ SaveSchedules(r)
    /\ UNCHANGED <<runnerVars, outputs, cancelled, faults>>

Handle(q) ==
    /\ HandlerStep(q)
    /\ UNCHANGED <<runnerVars, outputs, cancelled, faults>>

ApiFault ==
    /\ Fault("api")
    /\ ApiRestart
    /\ UNCHANGED <<runnerVars, outputs, cancelled>>

(* The poll loop of runner r.                                              *)
Poll(r) ==
    /\ \/ CallSucceeds(r) /\ Fetch(r, schedules)
       \/ CallFails(r) /\ FetchFails(r)
    /\ UNCHANGED <<scanVars, outputs, cancelled>>

StartUp(r) == Boot(r) /\ UNCHANGED <<scanVars, outputs, cancelled, faults>>
Sync(r) == Reconcile(r) /\ UNCHANGED <<scanVars, outputs, cancelled, faults>>

Begin(r, s) ==
    /\ \E j \in Jobs : Fire(r, s, j)
    /\ UNCHANGED <<scanVars, outputs, cancelled, faults>>

RunnerFault(r) ==
    /\ \/ Fault("crash") /\ Crash(r)
       \/ /\ Fault("token")
          /\ token[r]
          /\ token' = [token EXCEPT ![r] = FALSE]
          /\ UNCHANGED <<state, polled, active, timers, starts, orphans, job, files,
                         disputed>>
    /\ UNCHANGED <<scanVars, outputs, cancelled>>

-------------------------------------------------------------------------------
(* The goroutines.                                                         *)
JobUnchanged ==
    UNCHANGED <<state, token, polled, active, timers, starts, orphans, files>>

Awaited == {job[j].req : j \in {k \in Jobs : job[k].pc = "await"}}

(* reportStatus.                                                           *)
Report(j) ==
    LET s == job[j].sched IN
    /\ job[j].pc = "report"
    /\ \/ /\ s \in Tasks
          /\ CallSucceeds(job[j].runner)
          /\ \E q \in Requests \ Awaited :
                BeginUpdate(q, s, job[j].status) /\ Await(j, q)
          /\ UNCHANGED <<run, task, schedules, issued, creating>>
       \/ /\ s \in Tasks
          /\ CallFails(job[j].runner)
          /\ AfterReport(j)
          /\ UNCHANGED scanVars
       \/ /\ s \notin Tasks
          /\ AfterReport(j)
          /\ UNCHANGED <<scanVars, faults>>
    /\ JobUnchanged
    /\ UNCHANGED <<outputs, cancelled>>

(* The answer to the report, or giving up on it while the API goes on.     *)
Answer(j) ==
    LET answered == update[job[j].req].stage = "idle" IN
    /\ job[j].pc = "await"
    /\ \/ answered /\ UNCHANGED faults
       \/ ~answered /\ Fault("abandon")
    /\ AfterReport(j)
    /\ JobUnchanged
    /\ UNCHANGED <<scanVars, outputs, cancelled>>

RunTool(j) ==
    /\ Execute(j)
    /\ UNCHANGED <<scanVars, outputs, cancelled, faults>>

(* A schedule listed without its project has nothing to upload.  For the   *)
(* others the usage is asked for, with the same token (Run hands it over   *)
(* as RMAP_SESSION_TOKEN), and then the output is read.                    *)
LookUp(j) ==
    LET r == job[j].runner IN
    /\ job[j].pc = "read"
    /\ \/ /\ job[j].sched \in orphans[r]
          /\ Finish(j, "succeeded")
          /\ UNCHANGED faults
       \/ /\ job[j].sched \notin orphans[r]
          /\ \/ CallSucceeds(r) /\ ReadOutput(j)
             \/ CallFails(r) /\ Finish(j, "failed")
    /\ JobUnchanged
    /\ UNCHANGED <<scanVars, disputed, outputs, cancelled>>

\* The outputs once the API accepted what j uploads.
Accepted(j) ==
    outputs \cup {[sched |-> job[j].sched, own |-> job[j].content = j,
                   alone |-> j \notin disputed]}

\* Mutant of Upload: an error of the upload is only logged.
UploadLoggingErrors(j) ==
    /\ job[j].pc = "upload"
    /\ \/ CallSucceeds(job[j].runner) /\ outputs' = Accepted(j)
       \/ CallFails(job[j].runner) /\ UNCHANGED outputs
    /\ Finish(j, "succeeded")
    /\ JobUnchanged
    /\ UNCHANGED <<scanVars, disputed, cancelled>>

(* POST /commands/outputs; when only the answer is lost, the output was    *)
(* accepted and the task fails all the same.                               *)
Upload(j) ==
    /\ job[j].pc = "upload"
    /\ \/ /\ CallSucceeds(job[j].runner)
          /\ outputs' = Accepted(j)
          /\ Finish(j, "succeeded")
       \/ /\ CallFails(job[j].runner)
          /\ \/ UNCHANGED outputs
             \/ token[job[j].runner] /\ outputs' = Accepted(j)
          /\ Finish(j, "failed")
    /\ JobUnchanged
    /\ UNCHANGED <<scanVars, disputed, cancelled>>

(* DELETE of a once schedule, whatever became of the execution.            *)
Remove(j) ==
    /\ job[j].pc = "delete"
    /\ \/ CallSucceeds(job[j].runner) /\ DeleteSchedule(job[j].sched)
       \/ CallFails(job[j].runner) /\ UNCHANGED scanVars
    /\ job' = [job EXCEPT ![j] = NoJob]
    /\ JobUnchanged
    /\ UNCHANGED <<disputed, outputs, cancelled>>

JobStep(j) ==
    Report(j) \/ Answer(j) \/ RunTool(j) \/ LookUp(j) \/ Upload(j) \/ Remove(j)

-------------------------------------------------------------------------------
Next ==
    \/ UserStep
    \/ \E s \in Schedules : CancelSchedule(s)
    \/ \E r \in Runs : StoreSchedules(r)
    \/ \E q \in Requests : Handle(q)
    \/ ApiFault
    \/ \E r \in Runners : Poll(r) \/ StartUp(r) \/ Sync(r) \/ RunnerFault(r)
    \/ \E r \in Runners, s \in Schedules : Begin(r, s)
    \/ \E j \in Jobs : JobStep(j)

Spec == Init /\ [][Next]_vars

\* Handlers, poll loops and goroutines run on; users owe nothing.
FairSpec ==
    /\ Spec
    /\ \A r \in Runs : WF_vars(StoreSchedules(r))
    /\ \A q \in Requests : WF_vars(Handle(q))
    /\ \A r \in Runners : WF_vars(Poll(r)) /\ WF_vars(StartUp(r)) /\ WF_vars(Sync(r))
    /\ \A r \in Runners, s \in Schedules : WF_vars(Begin(r, s))
    /\ \A j \in Jobs : WF_vars(JobStep(j))

-------------------------------------------------------------------------------
\* A runner starts a "once" schedule at most once per boot, however polls,
\* failed deletions and its own jobs interleave (reconcileSchedules,
\* runSchedule).
OncePerBoot ==
    \A r \in Runners, s \in Once : starts[r][s] =< 1

\* A task that succeeded has had its output accepted, when its tool leaves
\* one (executeSchedule returns the error of uploadScheduleOutput).
SucceededHasOutput ==
    \A t \in Tasks : task[t] = "succeeded" /\ Capture[t] # "none"
                       => \E o \in outputs : o.sched = t

\* What is uploaded for a schedule is what the tool of this very execution
\* printed or wrote, never what an earlier or a failed one left, unless the user
\* ran two tools that write the same file at the same time (runners.md says not
\* to) or the tool ended well without writing its file (uploadScheduleOutput).
OwnOutput == \A o \in outputs : o.alone => o.own

\* A run whose status says that it ended has the status its tasks' statuses
\* add up to, however the updates of its tasks interleave (UpdateTaskStatus).
TerminalRunIsDerived ==
    \A r \in Runs : run[r] \in Terminal \cup {"partial"} =>
        /\ \A t \in TasksOf(r) : task[t] \in Terminal
        /\ run[r] = Recompute(TasksOf(r), task, run[r])

\* The schedule of a task outlives the report of its result: once the runner
\* deleted it, the task has ended (runSchedule).
ScheduleOutlivesTask ==
    \A t \in (Tasks \cap issued) \ (schedules \cup cancelled) :
        task[t] \in Terminal \cup {"deleted"}

\* The life of a task as its user sees it; the mapping forgets everything but
\* the rows and the accepted outputs.
Lifecycle == INSTANCE ScanLifecycle WITH
    Produces <- {t \in Tasks : Capture[t] # "none"},
    status <- task,
    delivered <- {t \in Tasks : \E o \in outputs : o.sched = t}

ImplementsLifecycle == Lifecycle!Spec

\* Every queued task ends, unless its project or its schedule is deleted or
\* something fails.
TaskSettles ==
    \A t \in Tasks : task[t] = "queued" ~>
        \/ task[t] \in Terminal \cup {"deleted"}
        \/ t \in cancelled
        \/ faults > 0

-------------------------------------------------------------------------------
\* ScanRun.cs: "Derives the run status from the statuses of its tasks."
\* Whenever no update is in flight, that is what the row says.
RunStatusIsDerived ==
    (\A q \in Requests : update[q].stage = "idle") =>
        \A r \in Runs : run[r] \notin Missing =>
            run[r] = Recompute(TasksOf(r), task, run[r])

===============================================================================
