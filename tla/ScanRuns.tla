------------------------------- MODULE ScanRuns -------------------------------
(***************************************************************************)
(* The API's side of a scan: the tables scan_run, scan_run_task and        *)
(* command_schedule, the transactions that fill them (ScanRunsController,  *)
(* CommandSchedulesController) and the status-update handler, split at     *)
(* every await on the database.  Reads are READ COMMITTED and an UPDATE    *)
(* writes only the columns Entity Framework saw change, which is what two  *)
(* concurrent updates of one scan can trip over.                           *)
(*                                                                         *)
(* A schedule made for a scan task is identified with that task.  A scan   *)
(* belongs to a project of its own, so that deleting the project deletes   *)
(* exactly that scan.                                                      *)
(***************************************************************************)
EXTENDS Naturals, FiniteSets

CONSTANTS
    Runs,       \* ids of scan_run rows
    Tasks,      \* ids of scan_run_task rows
    RunOf,      \* the run of each task
    Manual,     \* ids of schedules a user creates directly (no scan task)
    Recurring,  \* the manual schedules with a cron expression, not "once"
    Requests,   \* handlers of status updates that can be in flight at a time
    Deletable   \* the runs whose project a user may delete

Schedules == Tasks \cup Manual
Once      == Schedules \ Recurring
TasksOf(r) == {t \in Tasks : RunOf[t] = r}

ASSUME ScanRunsAssumption ==
    /\ Tasks # {}
    /\ RunOf \in [Tasks -> Runs]
    /\ Tasks \cap Manual = {}
    /\ Recurring \subseteq Manual
    /\ Deletable \subseteq Runs

TaskStatuses == {"queued", "running", "succeeded", "failed"}
Terminal     == {"succeeded", "failed"}
RunStatuses  == TaskStatuses \cup {"partial"}
Missing      == {"none", "deleted"}      \* no row yet, or no row any more

VARIABLES
    run,        \* status of each run row, or why there is none
    task,       \* status of each task row, or why there is none
    schedules,  \* the rows of command_schedule
    issued,     \* every schedule id the table ever held (ids are SERIAL)
    creating,   \* runs between the two SaveChanges of CreateOne
    update      \* the status-update handlers

scanVars == <<run, task, schedules, issued, creating, update>>

\* The three places where UpdateTaskStatus waits for the database.
Stages == {"idle", "load", "loadRun", "save"}

UpdateRec ==
    [stage : Stages, task : Tasks, status : TaskStatuses,
     was : TaskStatuses,                  \* the task's status as loaded
     runWas : RunStatuses,                \* the run's status as loaded
     runNow : RunStatuses]                \* what RecomputeStatus made of it

NoUpdate ==
    [stage |-> "idle", task |-> CHOOSE t \in Tasks : TRUE, status |-> "queued",
     was |-> "queued", runWas |-> "queued", runNow |-> "queued"]

ScanTypeOK ==
    /\ run \in [Runs -> RunStatuses \cup Missing]
    /\ task \in [Tasks -> TaskStatuses \cup Missing]
    /\ schedules \subseteq issued
    /\ issued \subseteq Schedules
    /\ creating \subseteq Runs
    /\ update \in [Requests -> UpdateRec]

ScanInit ==
    /\ run = [r \in Runs |-> "none"]
    /\ task = [t \in Tasks |-> "none"]
    /\ schedules = {}
    /\ issued = {}
    /\ creating = {}
    /\ update = [q \in Requests |-> NoUpdate]

-------------------------------------------------------------------------------
\* Mutant of Recompute: a running task no longer keeps its run open.
RecomputeQueuedOnly(ts, view, current) ==
    LET failed == {t \in ts : view[t] = "failed"}
    IN  IF \E t \in ts : view[t] = "queued" THEN "queued"
        ELSE IF failed = {} THEN "succeeded"
        ELSE IF failed = ts THEN "failed" ELSE "partial"

(* ScanRun.RecomputeStatus: the status of a run whose tasks ts have the    *)
(* statuses view; a run without tasks keeps the one it has.                *)
Recompute(ts, view, current) ==
    LET failed == {t \in ts : view[t] = "failed"}
    IN  IF ts = {} THEN current
        ELSE IF \E t \in ts : view[t] \notin Terminal
        THEN IF \E t \in ts : view[t] # "queued" THEN "running" ELSE "queued"
        ELSE IF failed = {} THEN "succeeded"
        ELSE IF failed = ts THEN "failed" ELSE "partial"

(* CreateOne up to its first SaveChanges: the run and its tasks.           *)
SaveRun(r) ==
    /\ run[r] = "none"
    /\ TasksOf(r) # {}
    /\ run' = [run EXCEPT ![r] = "queued"]
    /\ task' = [t \in Tasks |-> IF RunOf[t] = r THEN "queued" ELSE task[t]]
    /\ creating' = creating \cup {r}
    /\ UNCHANGED <<schedules, issued, update>>

(* CreateOne's second SaveChanges: one "once" schedule per task, in a      *)
(* transaction of its own.  command_schedule.project_id is a foreign key,  *)
(* so the insert fails when the project went away in between.              *)
SaveSchedules(r) ==
    /\ r \in creating
    /\ creating' = creating \ {r}
    /\ IF run[r] = "deleted"
       THEN UNCHANGED <<schedules, issued>>
       ELSE /\ schedules' = schedules \cup TasksOf(r)
            /\ issued' = issued \cup TasksOf(r)
    /\ UNCHANGED <<run, task, update>>

(* CommandSchedulesController.CreateOne.                                   *)
CreateSchedule(s) ==
    /\ s \in Manual \ issued
    /\ schedules' = schedules \cup {s}
    /\ issued' = issued \cup {s}
    /\ UNCHANGED <<run, task, creating, update>>

(* CommandSchedulesController.DeleteOne: a DELETE of what may be gone.     *)
DeleteSchedule(s) ==
    /\ schedules' = schedules \ {s}
    /\ UNCHANGED <<run, task, issued, creating, update>>

(* Deleting a project cascades to the run and its tasks; the schedules     *)
(* survive it with project_id set to NULL.                                 *)
DeleteProject(r) ==
    /\ r \in Deletable
    /\ run[r] \notin Missing
    /\ run' = [run EXCEPT ![r] = "deleted"]
    /\ task' = [t \in Tasks |-> IF RunOf[t] = r THEN "deleted" ELSE task[t]]
    /\ UNCHANGED <<schedules, issued, creating, update>>

-------------------------------------------------------------------------------
(* UpdateTaskStatus(t, s): the request reaches the API.                    *)
BeginUpdate(q, t, s) ==
    /\ update[q].stage = "idle"
    /\ update' = [update EXCEPT ![q].stage = "load", ![q].task = t,
                                ![q].status = s]

\* Mutant of LoadTask: only a task that nobody has taken yet is found.
LoadQueuedTask(q) ==
    LET u == update[q] IN
    /\ u.stage = "load"
    /\ update' = [update EXCEPT ![q] =
                    IF task[u.task] # "queued" THEN NoUpdate
                    ELSE [u EXCEPT !.stage = "loadRun", !.was = task[u.task]]]
    /\ UNCHANGED <<run, task, schedules, issued, creating>>

(* The task is loaded and changed in memory; 404 if it is gone.            *)
LoadTask(q) ==
    LET u == update[q] IN
    /\ u.stage = "load"
    /\ update' = [update EXCEPT ![q] =
                    IF task[u.task] \in Missing THEN NoUpdate
                    ELSE [u EXCEPT !.stage = "loadRun", !.was = task[u.task]]]
    /\ UNCHANGED <<run, task, schedules, issued, creating>>

(* The run is loaded with its tasks: the tracked task keeps the new status *)
(* it has in memory, the others show what is committed by now.             *)
LoadRun(q) ==
    LET u == update[q]
        r == RunOf[u.task]
        view == [task EXCEPT ![u.task] = u.status]
    IN  /\ u.stage = "loadRun"
        /\ update' = [update EXCEPT ![q] =
                        IF run[r] \in Missing THEN NoUpdate
                        ELSE [u EXCEPT !.stage = "save", !.runWas = run[r],
                                 !.runNow = Recompute(TasksOf(r), view, run[r])]]
        /\ UNCHANGED <<run, task, schedules, issued, creating>>

(* SaveChanges: one transaction, writing the columns that differ from what *)
(* was loaded; it fails as a whole when the rows were deleted meanwhile.   *)
SaveStatus(q) ==
    LET u == update[q]
        r == RunOf[u.task]
    IN  /\ u.stage = "save"
        /\ update' = [update EXCEPT ![q] = NoUpdate]
        /\ task' = IF run[r] \notin Missing /\ u.status # u.was
                   THEN [task EXCEPT ![u.task] = u.status] ELSE task
        /\ run' = IF run[r] \notin Missing /\ u.runNow # u.runWas
                  THEN [run EXCEPT ![r] = u.runNow] ELSE run
        /\ UNCHANGED <<schedules, issued, creating>>

(* The API process stops: requests in flight end where they are.           *)
ApiRestart ==
    /\ \/ creating # {}
       \/ \E q \in Requests : update[q].stage # "idle"
    /\ creating' = {}
    /\ update' = [q \in Requests |-> NoUpdate]
    /\ UNCHANGED <<run, task, schedules, issued>>

\* What the API itself does next, once a request has been received.
HandlerStep(q) == LoadTask(q) \/ LoadRun(q) \/ SaveStatus(q)

===============================================================================
