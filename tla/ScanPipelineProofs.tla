-------------------------- MODULE ScanPipelineProofs --------------------------
(***************************************************************************)
(* What holds of ScanPipeline for any number of runners, jobs, runs and    *)
(* schedules, and any number of faults: its variables keep to their types, *)
(* a runner starts a "once" schedule at most once per boot, a task only    *)
(* succeeds once its output was accepted, and that output is its own.      *)
(***************************************************************************)
EXTENDS ScanPipeline, TLAPS

-------------------------------------------------------------------------------
\* RecomputeStatus only writes a status the column may hold.
LEMMA RecomputeType ==
    ASSUME NEW ts, NEW view, NEW current \in RunStatuses
    PROVE  Recompute(ts, view, current) \in RunStatuses
BY DEF Recompute, RunStatuses, TaskStatuses

LEMMA NoUpdateType == NoUpdate \in UpdateRec
BY ScanRunsAssumption DEF NoUpdate, UpdateRec, Stages, TaskStatuses, RunStatuses

LEMMA NoJobType == NoJob \in JobRec
<1>1. /\ (CHOOSE r \in Runners : TRUE) \in Runners
      /\ (CHOOSE q \in Requests : TRUE) \in Requests
  BY RunnerAssumption
<1>2. (CHOOSE s \in Schedules : TRUE) \in Schedules
  BY ScanRunsAssumption DEF Schedules
<1> QED
  BY <1>1, <1>2 DEF NoJob, JobRec, JobStates, Sources

\* The status handlers keep the tables well typed.
LEMMA HandlerType ==
    ASSUME ScanTypeOK, NEW q \in Requests, HandlerStep(q)
    PROVE  ScanTypeOK'
<1> DEFINE u == update[q]
<1> DEFINE r == RunOf[u.task]
<1>1. u \in UpdateRec /\ u.task \in Tasks /\ r \in Runs
  BY ScanRunsAssumption DEF ScanTypeOK, UpdateRec
<1>2. CASE LoadTask(q)
  <2>1. task[u.task] \notin Missing => task[u.task] \in TaskStatuses
    BY <1>1 DEF ScanTypeOK
  <2>2. update'[q] \in UpdateRec
    BY <1>1, <1>2, <2>1, NoUpdateType DEF LoadTask, UpdateRec, Stages, ScanTypeOK
  <2> QED
    BY <1>2, <2>2 DEF LoadTask, ScanTypeOK
<1>3. CASE LoadRun(q)
  <2> DEFINE now == Recompute(TasksOf(r), [task EXCEPT ![u.task] = u.status], run[r])
  <2>1. run[r] \notin Missing => run[r] \in RunStatuses /\ now \in RunStatuses
    BY <1>1, RecomputeType DEF ScanTypeOK
  <2>2. update'[q] = IF run[r] \in Missing THEN NoUpdate
                     ELSE [u EXCEPT !.stage = "save", !.runWas = run[r],
                                    !.runNow = now]
    BY <1>3 DEF LoadRun, ScanTypeOK
  <2> HIDE DEF now
  <2>3. update'[q] \in UpdateRec
    BY <1>1, <2>1, <2>2, NoUpdateType DEF UpdateRec, Stages
  <2> QED
    BY <1>3, <2>3 DEF LoadRun, ScanTypeOK
<1>4. CASE SaveStatus(q)
  <2>1. u.status \in TaskStatuses /\ u.runNow \in RunStatuses
    BY <1>1 DEF UpdateRec
  <2>2. task' \in [Tasks -> TaskStatuses \cup Missing]
    BY <1>1, <1>4, <2>1 DEF SaveStatus, ScanTypeOK
  <2>3. run' \in [Runs -> RunStatuses \cup Missing]
    BY <1>1, <1>4, <2>1 DEF SaveStatus, ScanTypeOK
  <2>4. update' \in [Requests -> UpdateRec]
    BY <1>4, NoUpdateType DEF SaveStatus, ScanTypeOK
  <2> QED
    BY <1>4, <2>2, <2>3, <2>4 DEF SaveStatus, ScanTypeOK
<1> QED
  BY <1>2, <1>3, <1>4 DEF HandlerStep

-------------------------------------------------------------------------------
(* Type correctness.                                                       *)

LEMMA InitType == Init => TypeOK
<1> SUFFICES ASSUME Init PROVE TypeOK
  OBVIOUS
<1>1. ScanTypeOK
  BY NoUpdateType DEF Init, ScanInit, ScanTypeOK, Missing
<1>2. RunnerTypeOK
  BY NoJobType DEF Init, RunnerInit, RunnerTypeOK, LoopStates, Sources
<1> QED
  BY <1>1, <1>2 DEF Init, TypeOK

\* The transactions that do not touch a status handler.
LEMMA TableType ==
    ASSUME ScanTypeOK,
           \/ \E r \in Runs : SaveRun(r) \/ SaveSchedules(r) \/ DeleteProject(r)
           \/ \E s \in Manual : CreateSchedule(s)
           \/ \E s \in Schedules : DeleteSchedule(s)
           \/ ApiRestart
    PROVE  ScanTypeOK'
<1>1. CASE \E r \in Runs : SaveRun(r)
  BY <1>1 DEF SaveRun, ScanTypeOK, RunStatuses, TaskStatuses
<1>2. CASE \E r \in Runs : SaveSchedules(r)
  BY <1>2 DEF SaveSchedules, ScanTypeOK, TasksOf, Schedules
<1>3. CASE \E r \in Runs : DeleteProject(r)
  BY <1>3 DEF DeleteProject, ScanTypeOK, Missing
<1>4. CASE \E s \in Manual : CreateSchedule(s)
  BY <1>4 DEF CreateSchedule, ScanTypeOK, Schedules
<1>5. CASE \E s \in Schedules : DeleteSchedule(s)
  BY <1>5 DEF DeleteSchedule, ScanTypeOK
<1>6. CASE ApiRestart
  BY <1>6, NoUpdateType DEF ApiRestart, ScanTypeOK
<1> QED
  BY <1>1, <1>2, <1>3, <1>4, <1>5, <1>6

LEMMA LoopType ==
    ASSUME RunnerTypeOK, ScanTypeOK, NEW r \in Runners,
           \/ Boot(r) \/ Reconcile(r) \/ Crash(r)
           \/ Fetch(r, schedules) \/ FetchFails(r)
           \/ \E s \in Schedules, j \in Jobs : Fire(r, s, j)
    PROVE  RunnerTypeOK'
<1>1. CASE Boot(r)
  BY <1>1 DEF Boot, RunnerTypeOK, LoopStates
<1>2. CASE Reconcile(r)
  BY <1>2 DEF Reconcile, RunnerTypeOK, LoopStates
<1>3. CASE Crash(r)
  BY <1>3, NoJobType DEF Crash, RunnerTypeOK, LoopStates
<1>4. CASE Fetch(r, schedules)
  BY <1>4 DEF Fetch, RunnerTypeOK, LoopStates, ScanTypeOK
<1>5. CASE FetchFails(r)
  BY <1>5 DEF FetchFails, RunnerTypeOK, LoopStates
<1>6. ASSUME NEW s \in Schedules, NEW j \in Jobs, Fire(r, s, j)
      PROVE  RunnerTypeOK'
  <2>1. [NoJob EXCEPT !.pc = "report", !.runner = r, !.sched = s,
           !.status = IF s \in Unrunnable THEN "failed" ELSE "running"] \in JobRec
    BY NoJobType DEF JobRec, JobStates
  <2>2. job' \in [Jobs -> JobRec]
    BY <1>6, <2>1 DEF Fire, RunnerTypeOK
  <2>3. starts' \in [Runners -> [Schedules -> Nat]]
    <3>1. starts[r] \in [Schedules -> Nat] /\ starts[r][s] + 1 \in Nat
      BY DEF RunnerTypeOK
    <3>2. [starts[r] EXCEPT ![s] = @ + 1] \in [Schedules -> Nat]
      BY <3>1
    <3>3. starts' = [starts EXCEPT ![r] = [starts[r] EXCEPT ![s] = @ + 1]]
      BY <1>6 DEF Fire
    <3> QED
      BY <3>2, <3>3 DEF RunnerTypeOK
  <2>4. files' \in [Runners -> [Files -> Sources]]
    <3>1. \A x \in Runners : files[x] \in [Files -> Sources]
      BY DEF RunnerTypeOK
    <3>2. \A x \in Runners, f \in Files :
            (IF files[x][f] = j THEN Stale ELSE files[x][f]) \in Sources
      BY <3>1 DEF Sources
    <3>3. files' = [x \in Runners |-> [f \in Files |->
                      IF files[x][f] = j THEN Stale ELSE files[x][f]]]
      BY <1>6 DEF Fire
    <3> QED
      BY <3>2, <3>3
  <2>5. \A x \in Runners : timers'[x] \subseteq timers[x] /\ active'[x] = active[x]
    BY <1>6 DEF Fire, RunnerTypeOK
  <2> QED
    BY <1>6, <2>2, <2>3, <2>4, <2>5 DEF Fire, RunnerTypeOK
<1> QED
  BY <1>1, <1>2, <1>3, <1>4, <1>5, <1>6

\* A goroutine's own bookkeeping.
LEMMA JobType ==
    ASSUME RunnerTypeOK, NEW j \in Jobs,
           \/ \E pc \in JobStates : GoTo(j, pc)
           \/ \E q \in Requests : Await(j, q)
           \/ AfterReport(j)
           \/ \E st \in {"succeeded", "failed"} : Finish(j, st)
           \/ job' = [job EXCEPT ![j] = NoJob]
           \/ \E c \in Sources :
                 job' = [job EXCEPT ![j] = [@ EXCEPT !.pc = "upload", !.content = c]]
    PROVE  job' \in [Jobs -> JobRec]
<1>1. job[j] \in JobRec
  BY DEF RunnerTypeOK
<1>2. ASSUME NEW x \in JobRec, job' = [job EXCEPT ![j] = x]
      PROVE  job' \in [Jobs -> JobRec]
  BY <1>2 DEF RunnerTypeOK
<1>3. ASSUME NEW pc \in JobStates, GoTo(j, pc)
      PROVE  job' \in [Jobs -> JobRec]
  <2>1. [job[j] EXCEPT !.pc = pc] \in JobRec
    BY <1>1 DEF JobRec
  <2> QED
    BY <1>2, <1>3, <2>1 DEF GoTo
<1>4. ASSUME NEW q \in Requests, Await(j, q)
      PROVE  job' \in [Jobs -> JobRec]
  <2>1. [job[j] EXCEPT !.pc = "await", !.req = q] \in JobRec
    BY <1>1 DEF JobRec, JobStates
  <2> QED
    BY <1>2, <1>4, <2>1 DEF Await
<1>5. ASSUME NEW st \in {"succeeded", "failed"}, Finish(j, st)
      PROVE  job' \in [Jobs -> JobRec]
  <2>1. [job[j] EXCEPT !.pc = "report", !.status = st, !.content = Nothing] \in JobRec
    BY <1>1 DEF JobRec, JobStates, Sources
  <2> QED
    BY <1>2, <1>5, <2>1 DEF Finish
<1>6. ASSUME NEW c \in Sources,
             job' = [job EXCEPT ![j] = [@ EXCEPT !.pc = "upload", !.content = c]]
      PROVE  job' \in [Jobs -> JobRec]
  <2>1. [job[j] EXCEPT !.pc = "upload", !.content = c] \in JobRec
    BY <1>1 DEF JobRec, JobStates
  <2> QED
    BY <1>2, <1>6, <2>1
<1>7. CASE AfterReport(j)
  BY <1>2, <1>3, <1>7, NoJobType DEF AfterReport, StartTool, JobStates
<1> QED
  BY <1>2, <1>3, <1>4, <1>5, <1>6, <1>7, NoJobType

\* What is read is the label of a goroutine or of a file.
LEMMA OutputType ==
    ASSUME RunnerTypeOK, NEW j \in Jobs
    PROVE  Output(j) \in Sources
<1>1. job[j].sched \in Schedules /\ job[j].runner \in Runners
  BY DEF RunnerTypeOK, JobRec
<1>2. OutputFile[job[j].sched] \in Files
  BY <1>1 DEF Files
<1>3. files[job[j].runner] \in [Files -> Sources]
  BY <1>1 DEF RunnerTypeOK
<1> QED
  BY <1>2, <1>3 DEF Output, Sources

LEMMA JobStepType ==
    ASSUME TypeOK, NEW j \in Jobs, JobStep(j)
    PROVE  TypeOK'
<1> USE DEF TypeOK
<1>1. job[j] \in JobRec /\ job[j].sched \in Schedules
      /\ job[j].runner \in Runners /\ job[j].req \in Requests
  BY DEF RunnerTypeOK, JobRec
<1>2. faults' \in Nat
  BY DEF JobStep, Report, Answer, RunTool, LookUp, Upload, Remove, Fault,
         CallFails, CallSucceeds
<1>d. disputed \subseteq Jobs /\ (AfterReport(j) => disputed' \subseteq Jobs)
  BY DEF RunnerTypeOK, AfterReport, StartTool, Rivals
<1>3. CASE Report(j)
  <2>1. job' \in [Jobs -> JobRec] /\ disputed' \subseteq Jobs
    BY <1>3, <1>d, JobType DEF Report, Await
  <2>2. ScanTypeOK'
    <3>1. ASSUME NEW q \in Requests, BeginUpdate(q, job[j].sched, job[j].status),
                 job[j].sched \in Tasks,
                 UNCHANGED <<run, task, schedules, issued, creating>>
          PROVE  ScanTypeOK'
      <4>1. job[j].status \in TaskStatuses
        BY <1>1 DEF JobRec, TaskStatuses
      <4>2. update[q] \in UpdateRec
        BY DEF ScanTypeOK
      <4> QED
        BY <3>1, <4>1, <4>2 DEF BeginUpdate, ScanTypeOK, UpdateRec, Stages
    <3>2. ASSUME UNCHANGED scanVars PROVE ScanTypeOK'
      BY <3>2 DEF scanVars, ScanTypeOK
    <3> QED
      BY <1>3, <3>1, <3>2 DEF Report
  <2> QED
    BY <1>2, <1>3, <2>1, <2>2 DEF Report, JobUnchanged, RunnerTypeOK
<1>4. CASE Answer(j)
  <2>1. job' \in [Jobs -> JobRec] /\ disputed' \subseteq Jobs
    BY <1>4, <1>d, JobType DEF Answer
  <2> QED
    BY <1>2, <1>4, <2>1 DEF Answer, JobUnchanged, RunnerTypeOK, scanVars, ScanTypeOK
<1>5. CASE RunTool(j)
  <2>1. job' \in [Jobs -> JobRec]
    BY <1>5, JobType DEF RunTool, Execute, JobStates
  <2>2. Written(j) \in [Runners -> [Files -> Sources]]
    <3>1. OutputFile[job[j].sched] \in Files
      BY <1>1 DEF Files
    <3> QED
      BY <1>1, <3>1 DEF Written, RunnerTypeOK, Sources
  <2>3. files' \in [Runners -> [Files -> Sources]] /\ disputed' \subseteq Jobs
    BY <1>5, <1>d, <2>2 DEF RunTool, Execute, RunnerTypeOK
  <2> QED
    BY <1>2, <1>5, <2>1, <2>3 DEF RunTool, Execute, RunnerTypeOK, scanVars, ScanTypeOK
<1>6. CASE LookUp(j)
  <2>1. job' \in [Jobs -> JobRec]
    BY <1>6, OutputType, JobType DEF LookUp, ReadOutput
  <2> QED
    BY <1>2, <1>6, <2>1
    DEF LookUp, JobUnchanged, RunnerTypeOK, scanVars, ScanTypeOK
<1>7. CASE Upload(j)
  <2>1. job' \in [Jobs -> JobRec]
    BY <1>7, JobType DEF Upload
  <2>2. outputs' \subseteq Outputs
    <3> DEFINE own == job[j].content = j
    <3> DEFINE alone == j \notin disputed
    <3>1. own \in BOOLEAN /\ alone \in BOOLEAN
      OBVIOUS
    <3>2. \A a, b \in BOOLEAN : [sched |-> job[j].sched, own |-> a, alone |-> b] \in Outputs
      BY <1>1 DEF Outputs
    <3>3. outputs' = outputs \/ outputs' = Accepted(j)
      BY <1>7 DEF Upload
    <3>4. Accepted(j) = outputs \cup {[sched |-> job[j].sched, own |-> own, alone |-> alone]}
      BY DEF Accepted
    <3> HIDE DEF own, alone
    <3>5. [sched |-> job[j].sched, own |-> own, alone |-> alone] \in Outputs
      BY <3>1, <3>2
    <3> QED
      BY <3>3, <3>4, <3>5
  <2> QED
    BY <1>2, <1>7, <2>1, <2>2
    DEF Upload, JobUnchanged, RunnerTypeOK, scanVars, ScanTypeOK
<1>8. CASE Remove(j)
  <2>1. job' \in [Jobs -> JobRec]
    BY <1>8, JobType DEF Remove
  <2>2. ScanTypeOK'
    BY <1>1, <1>8, TableType DEF Remove, scanVars, ScanTypeOK
  <2> QED
    BY <1>2, <1>8, <2>1, <2>2 DEF Remove, JobUnchanged, RunnerTypeOK
<1> QED
  BY <1>3, <1>4, <1>5, <1>6, <1>7, <1>8 DEF JobStep

LEMMA StepType == TypeOK /\ [Next]_vars => TypeOK'
<1> SUFFICES ASSUME TypeOK, [Next]_vars PROVE TypeOK'
  OBVIOUS
<1>1. CASE UserStep
  <2>1. ScanTypeOK'
    BY <1>1, TableType DEF UserStep, TypeOK
  <2> QED
    BY <1>1, <2>1 DEF UserStep, TypeOK, runnerVars, RunnerTypeOK
<1>2. ASSUME NEW s \in Schedules, CancelSchedule(s) PROVE TypeOK'
  <2>1. ScanTypeOK'
    BY <1>2, TableType DEF CancelSchedule, TypeOK
  <2> QED
    BY <1>2, <2>1 DEF CancelSchedule, TypeOK, runnerVars, RunnerTypeOK
<1>3. ASSUME NEW r \in Runs, StoreSchedules(r) PROVE TypeOK'
  <2>1. ScanTypeOK'
    BY <1>3, TableType DEF StoreSchedules, TypeOK
  <2> QED
    BY <1>3, <2>1 DEF StoreSchedules, TypeOK, runnerVars, RunnerTypeOK
<1>4. ASSUME NEW q \in Requests, Handle(q) PROVE TypeOK'
  <2>1. ScanTypeOK'
    BY <1>4, HandlerType DEF Handle, TypeOK
  <2> QED
    BY <1>4, <2>1 DEF Handle, TypeOK, runnerVars, RunnerTypeOK
<1>5. CASE ApiFault
  <2>1. ScanTypeOK'
    BY <1>5, TableType DEF ApiFault, TypeOK
  <2> QED
    BY <1>5, <2>1 DEF ApiFault, Fault, TypeOK, runnerVars, RunnerTypeOK
<1>6. ASSUME NEW r \in Runners, Poll(r) \/ StartUp(r) \/ Sync(r)
      PROVE  TypeOK'
  <2>1. RunnerTypeOK'
    BY <1>6, LoopType DEF Poll, StartUp, Sync, TypeOK
  <2> QED
    BY <1>6, <2>1 DEF Poll, StartUp, Sync, CallSucceeds, CallFails, Fault,
                      TypeOK, scanVars, ScanTypeOK
<1>7. ASSUME NEW r \in Runners, RunnerFault(r) PROVE TypeOK'
  <2>1. CASE Crash(r)
    <3>1. RunnerTypeOK'
      BY <2>1, LoopType DEF TypeOK
    <3> QED
      BY <1>7, <3>1 DEF RunnerFault, Fault, TypeOK, scanVars, ScanTypeOK
  <2>2. CASE token' = [token EXCEPT ![r] = FALSE]
             /\ UNCHANGED <<state, polled, active, timers, starts, orphans, job, files,
                            disputed>>
    BY <1>7, <2>2 DEF RunnerFault, Fault, TypeOK, scanVars, ScanTypeOK, RunnerTypeOK
  <2> QED
    BY <1>7, <2>1, <2>2 DEF RunnerFault
<1>8. ASSUME NEW r \in Runners, NEW s \in Schedules, Begin(r, s) PROVE TypeOK'
  <2>1. RunnerTypeOK'
    BY <1>8, LoopType DEF Begin, TypeOK
  <2> QED
    BY <1>8, <2>1 DEF Begin, TypeOK, scanVars, ScanTypeOK
<1>9. ASSUME NEW j \in Jobs, JobStep(j) PROVE TypeOK'
  BY <1>9, JobStepType
<1>10. CASE UNCHANGED vars
  BY <1>10 DEF vars, scanVars, runnerVars, TypeOK, ScanTypeOK, RunnerTypeOK
<1> QED
  BY <1>1, <1>2, <1>3, <1>4, <1>5, <1>6, <1>7, <1>8, <1>9, <1>10 DEF Next

\* Every variable keeps to its type, whatever the users, the API, the runners
\* and the faults do.
THEOREM TypeCorrect == Spec => []TypeOK
BY InitType, StepType, PTL DEF Spec

-------------------------------------------------------------------------------
(* A "once" schedule is started at most once per boot.                     *)
(* OncePerBoot is not inductive: that a started schedule is not started    *)
(* again rests on activeScheduleIds while the row exists, and on the row   *)
(* being gone for good, and from the list last fetched, once the id was    *)
(* dropped from there.                                                     *)

\* A run without schedules yet has issued no schedule id.
FreshIds ==
    \A r \in Runs :
        /\ run[r] = "none" \/ r \in creating => TasksOf(r) \cap issued = {}
        /\ r \in creating => run[r] # "none"

\* What a runner knows of, it has read from the table.
KnownIds ==
    \A r \in Runners : /\ timers[r] \subseteq active[r]
                       /\ active[r] \subseteq issued
                       /\ polled[r] \subseteq issued

\* An active schedule missing from the list just fetched is deleted.
MissingIsGone ==
    \A r \in Runners : state[r] = "fetched" =>
        (active[r] \ polled[r]) \cap schedules = {}

StartedOnce ==
    \A r \in Runners, s \in Once :
        /\ starts[r][s] =< 1
        /\ s \in timers[r] => starts[r][s] = 0
        /\ starts[r][s] > 0 /\ s \notin active[r] =>
              /\ s \in issued
              /\ s \notin schedules
              /\ s \notin polled[r]

OnceInv == FreshIds /\ KnownIds /\ MissingIsGone /\ StartedOnce

LEMMA InitOnce == Init => OnceInv
BY DEF Init, ScanInit, RunnerInit, OnceInv, FreshIds, KnownIds, MissingIsGone,
       StartedOnce, Once, Schedules

\* A step of the tables that hands out only fresh ids keeps the invariant.
LEMMA TableOnce ==
    ASSUME TypeOK, OnceInv, ScanTypeOK',
           UNCHANGED <<state, polled, active, timers, starts>>,
           issued \subseteq issued',
           (schedules' \ schedules) \cap issued = {},
           FreshIds'
    PROVE  OnceInv'
<1>1. KnownIds'
  BY DEF OnceInv, KnownIds
<1>2. MissingIsGone'
  BY DEF OnceInv, MissingIsGone, KnownIds
<1>3. StartedOnce'
  BY DEF OnceInv, StartedOnce, Once, Schedules
<1> QED
  BY <1>1, <1>2, <1>3 DEF OnceInv

\* SaveSchedules, CreateSchedule, deletions and the status handlers.
LEMMA TablesOnce ==
    ASSUME TypeOK, TypeOK', OnceInv,
           UNCHANGED <<state, polled, active, timers, starts>>,
           \/ \E r \in Runs : SaveRun(r) \/ SaveSchedules(r) \/ DeleteProject(r)
           \/ \E s \in Manual : CreateSchedule(s)
           \/ \E s \in Schedules : DeleteSchedule(s)
           \/ \E q \in Requests : HandlerStep(q)
           \/ ApiRestart
    PROVE  OnceInv'
<1> USE DEF TypeOK, ScanTypeOK, OnceInv, FreshIds
<1>1. ASSUME NEW r \in Runs, SaveRun(r) PROVE OnceInv'
  BY <1>1, TableOnce DEF SaveRun
<1>2. ASSUME NEW r \in Runs, SaveSchedules(r) PROVE OnceInv'
  <2>1. TasksOf(r) \cap issued = {}
    BY <1>2 DEF SaveSchedules
  <2>2. ASSUME NEW r2 \in Runs, r2 # r PROVE TasksOf(r) \cap TasksOf(r2) = {}
    BY <2>2 DEF TasksOf
  <2>3. run[r] # "none"
    BY <1>2 DEF SaveSchedules
  <2> QED
    BY <1>2, <2>1, <2>2, <2>3, TableOnce DEF SaveSchedules
<1>3. ASSUME NEW r \in Runs, DeleteProject(r) PROVE OnceInv'
  BY <1>3, TableOnce DEF DeleteProject
<1>4. ASSUME NEW s \in Manual, CreateSchedule(s) PROVE OnceInv'
  BY <1>4, TableOnce, ScanRunsAssumption DEF CreateSchedule, TasksOf
<1>5. ASSUME NEW s \in Schedules, DeleteSchedule(s) PROVE OnceInv'
  BY <1>5, TableOnce DEF DeleteSchedule
<1>6. ASSUME NEW q \in Requests, HandlerStep(q) PROVE OnceInv'
  <2>1. UNCHANGED <<schedules, issued, creating>>
    BY <1>6 DEF HandlerStep, LoadTask, LoadRun, SaveStatus
  <2>2. \A r \in Runs : run'[r] = "none" <=> run[r] = "none"
    <3>1. CASE LoadTask(q) \/ LoadRun(q)
      BY <3>1 DEF LoadTask, LoadRun
    <3>2. CASE SaveStatus(q)
      <4> DEFINE s == RunOf[update[q].task]
      <4>1. \/ run' = run
            \/ run[s] # "none" /\ run' = [run EXCEPT ![s] = update[q].runNow]
        BY <3>2 DEF SaveStatus, Missing
      <4>2. update[q] \in UpdateRec
        BY <1>6
      <4>3. update[q].runNow # "none"
        BY <4>2 DEF UpdateRec, RunStatuses, TaskStatuses
      <4> QED
        BY <4>1, <4>3
    <3> QED
      BY <1>6, <3>1, <3>2 DEF HandlerStep
  <2> QED
    BY <2>1, <2>2, TableOnce
<1>7. CASE ApiRestart
  BY <1>7, TableOnce DEF ApiRestart
<1> QED
  BY <1>1, <1>2, <1>3, <1>4, <1>5, <1>6, <1>7

LEMMA LoopOnce ==
    ASSUME TypeOK, OnceInv, NEW r \in Runners,
           UNCHANGED <<run, schedules, issued, creating>>,
           \/ Boot(r) \/ Reconcile(r) \/ Crash(r)
           \/ Fetch(r, schedules) \/ FetchFails(r)
           \/ \E s \in Schedules, j \in Jobs : Fire(r, s, j)
    PROVE  OnceInv'
<1> USE DEF TypeOK, RunnerTypeOK, ScanTypeOK
<1>1. FreshIds'
  BY DEF OnceInv, FreshIds
<1>2. CASE Boot(r) \/ FetchFails(r)
  BY <1>1, <1>2 DEF Boot, FetchFails, OnceInv, KnownIds, MissingIsGone, StartedOnce
<1>3. CASE Fetch(r, schedules)
  <2>1. KnownIds' /\ MissingIsGone'
    BY <1>3 DEF Fetch, OnceInv, KnownIds, MissingIsGone
  <2>2. StartedOnce'
    BY <1>3 DEF Fetch, OnceInv, StartedOnce
  <2> QED
    BY <1>1, <2>1, <2>2 DEF OnceInv
<1>4. CASE Crash(r)
  <2>1. KnownIds' /\ MissingIsGone'
    BY <1>4 DEF Crash, OnceInv, KnownIds, MissingIsGone
  <2>2. StartedOnce'
    BY <1>4 DEF Crash, OnceInv, StartedOnce, Once
  <2> QED
    BY <1>1, <2>1, <2>2 DEF OnceInv
<1>5. CASE Reconcile(r)
  <2> DEFINE new == (polled[r] \ active[r]) \ BadCron
  <2>1. /\ active'[r] = (active[r] \cup new) \cap polled[r]
        /\ timers'[r] = (timers[r] \cup new) \cap polled[r]
        /\ polled'[r] = {}
        /\ state'[r] = "waiting"
        /\ state[r] = "fetched"
        /\ starts' = starts
        /\ \A r2 \in Runners \ {r} :
              /\ active'[r2] = active[r2] /\ timers'[r2] = timers[r2]
              /\ polled'[r2] = polled[r2] /\ state'[r2] = state[r2]
    BY <1>5 DEF Reconcile
  <2>2. KnownIds' /\ MissingIsGone'
    BY <2>1 DEF OnceInv, KnownIds, MissingIsGone
  <2>3. StartedOnce'
    <3>1. ASSUME NEW s \in Once
          PROVE  /\ s \in timers'[r] => starts[r][s] = 0
                 /\ starts[r][s] > 0 /\ s \notin active'[r] =>
                       s \in issued /\ s \notin schedules
      <4>1. s \in Schedules /\ starts[r][s] \in Nat
        BY DEF Once
      <4>2. s \in new => starts[r][s] = 0
        BY <4>1 DEF OnceInv, StartedOnce
      <4>3. s \in active[r] /\ s \notin polled[r] => s \notin schedules /\ s \in issued
        BY <2>1 DEF OnceInv, MissingIsGone, KnownIds
      <4> QED
        BY <2>1, <4>1, <4>2, <4>3 DEF OnceInv, StartedOnce
    <3> QED
      BY <2>1, <3>1 DEF OnceInv, StartedOnce
  <2> QED
    BY <1>1, <2>2, <2>3 DEF OnceInv
<1>6. ASSUME NEW s \in Schedules, NEW j \in Jobs, Fire(r, s, j)
      PROVE  OnceInv'
  <2>1. KnownIds' /\ MissingIsGone'
    <3>1. /\ UNCHANGED <<state, active, polled>>
          /\ timers' = [timers EXCEPT ![r] = IF s \in Once THEN @ \ {s} ELSE @]
      BY <1>6 DEF Fire
    <3>2. \A x \in Runners : timers'[x] \subseteq timers[x]
      BY <3>1
    <3> QED
      BY <3>1, <3>2 DEF OnceInv, KnownIds, MissingIsGone
  <2>2. ASSUME NEW r2 \in Runners, NEW s2 \in Schedules
        PROVE  starts'[r2][s2] = IF r2 = r /\ s2 = s THEN starts[r2][s2] + 1
                                                    ELSE starts[r2][s2]
    <3>1. starts[r2] \in [Schedules -> Nat] /\ starts[r] \in [Schedules -> Nat]
      OBVIOUS
    <3> QED
      BY <1>6, <3>1 DEF Fire
  <2>3. s \in active[r]
    BY <1>6 DEF Fire, OnceInv, KnownIds
  <2>4. ASSUME NEW r2 \in Runners, NEW s2 \in Once
        PROVE  /\ starts'[r2][s2] =< 1
               /\ s2 \in timers'[r2] => starts'[r2][s2] = 0
               /\ starts'[r2][s2] > 0 /\ s2 \notin active'[r2] =>
                     s2 \in issued /\ s2 \notin schedules /\ s2 \notin polled[r2]
    <3> s2 \in Schedules
      BY DEF Once
    <3>0. /\ timers'[r2] = IF r2 = r /\ s \in Once THEN timers[r] \ {s} ELSE timers[r2]
          /\ UNCHANGED <<active, polled>>
      BY <1>6 DEF Fire
    <3>1. CASE r2 = r /\ s2 = s
      <4>1. starts[r][s] = 0
        BY <1>6, <3>1 DEF Fire, OnceInv, StartedOnce
      <4>2. starts'[r][s] = 1
        BY <2>2, <3>1, <4>1
      <4> QED
        BY <2>3, <3>0, <3>1, <4>2
    <3>2. CASE ~(r2 = r /\ s2 = s)
      <4>1. starts'[r2][s2] = starts[r2][s2]
        BY <2>2, <3>2
      <4>2. timers'[r2] \subseteq timers[r2]
        BY <3>0
      <4> QED
        BY <3>0, <4>1, <4>2 DEF OnceInv, StartedOnce
    <3> QED
      BY <3>1, <3>2
  <2> QED
    BY <1>1, <1>6, <2>1, <2>4 DEF Fire, OnceInv, StartedOnce
<1> QED
  BY <1>2, <1>3, <1>4, <1>5, <1>6

\* The steps of a goroutine only delete schedules.
LEMMA JobOnce ==
    ASSUME TypeOK, TypeOK', OnceInv, NEW j \in Jobs, JobStep(j)
    PROVE  OnceInv'
<1>1. /\ UNCHANGED <<run, issued, creating, state, polled, active, timers, starts>>
      /\ schedules' \subseteq schedules
  BY DEF JobStep, Report, Answer, RunTool, LookUp, Upload, Remove, Execute,
         JobUnchanged, scanVars, DeleteSchedule
<1> QED
  BY <1>1, TableOnce DEF TypeOK, OnceInv, FreshIds

LEMMA StepOnce == TypeOK /\ TypeOK' /\ OnceInv /\ [Next]_vars => OnceInv'
<1> SUFFICES ASSUME TypeOK, TypeOK', OnceInv, [Next]_vars PROVE OnceInv'
  OBVIOUS
<1>1. CASE UserStep
  BY <1>1, TablesOnce DEF UserStep, runnerVars
<1>2. ASSUME NEW s \in Schedules, CancelSchedule(s) PROVE OnceInv'
  BY <1>2, TablesOnce DEF CancelSchedule, runnerVars
<1>3. ASSUME NEW r \in Runs, StoreSchedules(r) PROVE OnceInv'
  BY <1>3, TablesOnce DEF StoreSchedules, runnerVars
<1>4. ASSUME NEW q \in Requests, Handle(q) PROVE OnceInv'
  BY <1>4, TablesOnce DEF Handle, runnerVars
<1>5. CASE ApiFault
  BY <1>5, TablesOnce DEF ApiFault, runnerVars
<1>6. ASSUME NEW r \in Runners, Poll(r) \/ StartUp(r) \/ Sync(r) PROVE OnceInv'
  BY <1>6, LoopOnce DEF Poll, StartUp, Sync, scanVars
<1>7. ASSUME NEW r \in Runners, RunnerFault(r) PROVE OnceInv'
  <2>1. CASE Crash(r)
    BY <1>7, <2>1, LoopOnce DEF RunnerFault, scanVars
  <2>2. CASE UNCHANGED <<state, polled, active, timers, starts, orphans, job, files, disputed>>
    BY <1>7, <2>2 DEF RunnerFault, scanVars, OnceInv, FreshIds, KnownIds,
                      MissingIsGone, StartedOnce
  <2> QED
    BY <1>7, <2>1, <2>2 DEF RunnerFault
<1>8. ASSUME NEW r \in Runners, NEW s \in Schedules, Begin(r, s) PROVE OnceInv'
  BY <1>8, LoopOnce DEF Begin, scanVars
<1>9. ASSUME NEW j \in Jobs, JobStep(j) PROVE OnceInv'
  BY <1>9, JobOnce
<1>10. CASE UNCHANGED vars
  BY <1>10 DEF vars, scanVars, runnerVars, OnceInv, FreshIds, KnownIds,
               MissingIsGone, StartedOnce
<1> QED
  BY <1>1, <1>2, <1>3, <1>4, <1>5, <1>6, <1>7, <1>8, <1>9, <1>10 DEF Next

\* No interleaving of polls, deletions, failed calls and restarts makes a
\* runner start a "once" schedule twice in one boot.
THEOREM StartsOncePerBoot == Spec => []OncePerBoot
<1>1. OnceInv => OncePerBoot
  BY DEF OnceInv, StartedOnce, OncePerBoot
<1>2. Spec => []TypeOK
  BY TypeCorrect
<1> QED
  BY <1>1, <1>2, InitOnce, StepOnce, PTL DEF Spec

-------------------------------------------------------------------------------
(* A task that succeeded has an accepted output, if its tool leaves one.   *)
(* SucceededHasOutput is not inductive either: the status a row takes may  *)
(* have been on its way in a status handler, and before that in a          *)
(* goroutine, while the runner, the API or the token failed.               *)

Backed(s) ==
    Capture[s] # "none" /\ ~WithoutProject(s) => \E o \in outputs : o.sched = s

\* The tasks of a deleted project are deleted with it, so that an execution
\* that has nothing to upload any more marks no task as succeeded.
GoneTogether ==
    /\ \A t \in Tasks : run[RunOf[t]] = "deleted" => task[t] = "deleted"
    /\ \A r \in Runners : \A s \in orphans[r] : WithoutProject(s)

RowsBacked == \A t \in Tasks : task[t] = "succeeded" => Backed(t)

UpdatesBacked ==
    \A q \in Requests :
        update[q].stage # "idle" /\ update[q].status = "succeeded"
            => Backed(update[q].task)

ReportBacked(j) ==
    job[j].pc = "report" /\ job[j].status = "succeeded" => Backed(job[j].sched)

JobsBacked == \A j \in Jobs : ReportBacked(j)

OutputInv == GoneTogether /\ RowsBacked /\ UpdatesBacked /\ JobsBacked

LEMMA InitOutput == Init => OutputInv
<1> SUFFICES ASSUME Init PROVE OutputInv
  OBVIOUS
<1>1. GoneTogether
  BY ScanRunsAssumption DEF Init, ScanInit, RunnerInit, GoneTogether
<1> QED
  BY <1>1 DEF Init, ScanInit, RunnerInit, OutputInv, RowsBacked, UpdatesBacked, JobsBacked,
              ReportBacked, NoUpdate, NoJob

\* The steps that change the rows of runs, and what they do to a run.
LEMMA RunsChange ==
    ASSUME TypeOK, [Next]_vars
    PROVE  \/ UNCHANGED <<run, task>>
           \/ /\ UNCHANGED orphans
              /\ \/ \E r \in Runs : SaveRun(r) \/ DeleteProject(r)
                 \/ \E q \in Requests : SaveStatus(q)
<1>1. CASE UserStep
  BY <1>1 DEF UserStep, runnerVars, CreateSchedule
<1>2. CASE \E q \in Requests : Handle(q)
  BY <1>2 DEF Handle, runnerVars, HandlerStep, LoadTask, LoadRun
<1>3. CASE ~UserStep /\ ~\E q \in Requests : Handle(q)
  BY <1>3 DEF Next, CancelSchedule, StoreSchedules, ApiFault, Poll, StartUp, Sync, RunnerFault,
     Begin, JobStep, Report, Answer, RunTool, LookUp, Upload, Remove, vars, scanVars,
     DeleteSchedule, SaveSchedules, ApiRestart
<1> QED
  BY <1>1, <1>2, <1>3

\* A deleted project stays deleted, and its tasks with it.
LEMMA DeletedStays ==
    ASSUME TypeOK, [Next]_vars
    PROVE  /\ \A s \in Schedules : WithoutProject(s) => WithoutProject(s)'
           /\ (\A t \in Tasks : run[RunOf[t]] = "deleted" => task[t] = "deleted") =>
                \A t \in Tasks : run'[RunOf[t]] = "deleted" => task'[t] = "deleted"
<1>t. /\ run \in [Runs -> RunStatuses \cup Missing] /\ update \in [Requests -> UpdateRec]
      /\ task \in [Tasks -> TaskStatuses \cup Missing]
      /\ \A t \in Tasks : RunOf[t] \in Runs
  BY ScanRunsAssumption DEF TypeOK, ScanTypeOK
<1>1. CASE UNCHANGED <<run, task>>
  BY <1>1 DEF WithoutProject
<1>2. CASE \E r \in Runs : SaveRun(r) \/ DeleteProject(r)
  BY <1>t, <1>2 DEF SaveRun, DeleteProject, WithoutProject, Missing
<1>3. ASSUME NEW q \in Requests, SaveStatus(q)
      PROVE  /\ \A t \in Tasks : run[RunOf[t]] = "deleted" <=> run'[RunOf[t]] = "deleted"
             /\ \A t \in Tasks : run[RunOf[t]] = "deleted" => task'[t] = task[t]
  <2> DEFINE u == update[q]
  <2>1. u.task \in Tasks /\ u.runNow \in RunStatuses /\ RunOf[u.task] \in Runs
    BY <1>t DEF UpdateRec
  <2>2. CASE run[RunOf[u.task]] \in Missing
    BY <1>3, <2>2 DEF SaveStatus
  <2>3. CASE run[RunOf[u.task]] \notin Missing
    <3>1. u.runNow # "deleted" /\ run[RunOf[u.task]] # "deleted"
      BY <2>1, <2>3 DEF RunStatuses, TaskStatuses, Missing
    <3>2. run' = run \/ run' = [run EXCEPT ![RunOf[u.task]] = u.runNow]
      BY <1>3 DEF SaveStatus
    <3>3. task' = task \/ task' = [task EXCEPT ![u.task] = u.status]
      BY <1>3 DEF SaveStatus
    <3> QED
      BY <1>t, <2>1, <3>1, <3>2, <3>3
  <2> QED
    BY <2>2, <2>3
<1> QED
  BY <1>1, <1>2, <1>3, RunsChange DEF WithoutProject

LEMMA StepGone ==
    ASSUME TypeOK, GoneTogether, [Next]_vars
    PROVE  GoneTogether'
<1>1. \A r \in Runners : orphans'[r] \subseteq orphans[r] \cup {s \in Schedules : WithoutProject(s)}
  <2>1. ASSUME NEW r \in Runners, Poll(r)
        PROVE  \A x \in Runners : orphans'[x] \subseteq
                  orphans[x] \cup {s \in Schedules : WithoutProject(s)}
    <3>1. CASE Fetch(r, schedules)
      <4>1. orphans' = [orphans EXCEPT ![r] =
                          @ \cup {s \in schedules \ active[r] : WithoutProject(s)}]
        BY <3>1 DEF Fetch
      <4>2. schedules \subseteq Schedules /\ DOMAIN orphans = Runners
        BY DEF TypeOK, RunnerTypeOK, ScanTypeOK
      <4> QED
        BY <4>1, <4>2
    <3>2. CASE FetchFails(r)
      BY <3>2 DEF FetchFails
    <3> QED
      BY <2>1, <3>1, <3>2 DEF Poll
  <2>2. ASSUME NEW r \in Runners, RunnerFault(r)
        PROVE  \A x \in Runners : orphans'[x] \subseteq orphans[x]
    BY <2>2 DEF RunnerFault, Crash, TypeOK, RunnerTypeOK
  <2>3. CASE ~\E r \in Runners : Poll(r) \/ RunnerFault(r)
    BY <2>3 DEF Next, UserStep, CancelSchedule, StoreSchedules, Handle, ApiFault, StartUp, Boot,
       Sync, Reconcile, Begin, Fire, JobStep, Report, Answer, RunTool, Execute, LookUp, Upload,
       Remove, JobUnchanged, vars, runnerVars
  <2> QED
    BY <2>1, <2>2, <2>3
<1>2. \A r \in Runners : orphans[r] \subseteq Schedules /\ orphans'[r] \subseteq Schedules
  BY <1>1 DEF TypeOK, RunnerTypeOK
<1> QED
  BY <1>1, <1>2, DeletedStays DEF GoneTogether

\* What is accepted stays accepted.
LEMMA OutputsStay ==
    ASSUME TypeOK, [Next]_vars
    PROVE  \A s \in Schedules : Backed(s) => Backed(s)'
<1>1. outputs \subseteq outputs'
  BY DEF Next, UserStep, CancelSchedule, StoreSchedules, Handle, ApiFault, Poll, StartUp, Sync,
         RunnerFault, Begin, JobStep, Report, Answer, RunTool, LookUp, Upload, Accepted, Remove,
         vars
<1> QED
  BY <1>1, DeletedStays DEF Backed

\* The transactions and the handlers, beside which no goroutine takes a step.
LEMMA TablesBacked ==
    ASSUME TypeOK, OutputInv, [Next]_vars, UNCHANGED <<job, outputs>>,
           \/ \E r \in Runs : SaveRun(r) \/ SaveSchedules(r) \/ DeleteProject(r)
           \/ \E s \in Manual : CreateSchedule(s)
           \/ \E s \in Schedules : DeleteSchedule(s)
           \/ \E q \in Requests : HandlerStep(q)
           \/ ApiRestart
    PROVE  OutputInv'
<1>t. /\ task \in [Tasks -> TaskStatuses \cup Missing] /\ update \in [Requests -> UpdateRec]
      /\ \A k \in Jobs : job[k].sched \in Schedules
  BY DEF TypeOK, ScanTypeOK, RunnerTypeOK, JobRec
<1>s. \A t \in Tasks : t \in Schedules /\ (Backed(t) => Backed(t)')
  BY OutputsStay DEF Schedules
<1>1. JobsBacked' /\ GoneTogether'
  BY <1>t, OutputsStay, StepGone DEF OutputInv, JobsBacked, ReportBacked
<1>2. ASSUME NEW q \in Requests, HandlerStep(q)
      PROVE  OutputInv'
  <2> DEFINE u == update[q]
  <2>1. u \in UpdateRec /\ u.task \in Tasks
    BY <1>t DEF UpdateRec
  <2>2. ASSUME NEW x, update' = [update EXCEPT ![q] = x],
               x.stage # "idle" => u.stage # "idle" /\ x.status = u.status /\ x.task = u.task
        PROVE  UpdatesBacked'
    BY <1>t, <1>s, <2>1, <2>2 DEF OutputInv, UpdatesBacked, UpdateRec
  <2>3. CASE LoadTask(q)
    <3>1. PICK x : /\ update' = [update EXCEPT ![q] = x]
                   /\ x = NoUpdate \/ x = [u EXCEPT !.stage = "loadRun", !.was = task[u.task]]
      BY <2>3 DEF LoadTask
    <3>2. UpdatesBacked'
      BY <2>1, <2>2, <2>3, <3>1 DEF LoadTask, NoUpdate, UpdateRec
    <3> QED
      BY <1>1, <1>s, <2>3, <3>2 DEF LoadTask, OutputInv, RowsBacked
  <2>4. CASE LoadRun(q)
    <3>1. PICK x, now : /\ update' = [update EXCEPT ![q] = x]
                        /\ \/ x = NoUpdate
                           \/ x = [u EXCEPT !.stage = "save", !.runWas = run[RunOf[u.task]],
                                            !.runNow = now]
      BY <2>4 DEF LoadRun
    <3>2. UpdatesBacked'
      BY <2>1, <2>2, <2>4, <3>1 DEF LoadRun, NoUpdate, UpdateRec
    <3> QED
      BY <1>1, <1>s, <2>4, <3>2 DEF LoadRun, OutputInv, RowsBacked
  <2>5. CASE SaveStatus(q)
    <3>1. UpdatesBacked'
      BY <2>2, <2>5 DEF SaveStatus, NoUpdate
    <3>2. u.status = "succeeded" => Backed(u.task)
      BY <2>5 DEF SaveStatus, OutputInv, UpdatesBacked
    <3>3. RowsBacked'
      BY <1>t, <1>s, <2>1, <2>5, <3>2 DEF SaveStatus, OutputInv, RowsBacked
    <3> QED
      BY <1>1, <3>1, <3>3 DEF OutputInv
  <2> QED
    BY <1>2, <2>3, <2>4, <2>5 DEF HandlerStep
<1>3. CASE \E r \in Runs : SaveRun(r) \/ DeleteProject(r)
  BY <1>1, <1>s, <1>t, <1>3 DEF SaveRun, DeleteProject, OutputInv, RowsBacked, UpdatesBacked,
                                UpdateRec
<1>4. CASE (\E r \in Runs : SaveSchedules(r)) \/ (\E s \in Manual : CreateSchedule(s))
           \/ (\E s \in Schedules : DeleteSchedule(s))
  BY <1>1, <1>s, <1>t, <1>4 DEF SaveSchedules, CreateSchedule, DeleteSchedule, OutputInv,
                                RowsBacked, UpdatesBacked, UpdateRec
<1>5. CASE ApiRestart
  BY <1>1, <1>s, <1>5 DEF ApiRestart, NoUpdate, OutputInv, RowsBacked, UpdatesBacked
<1> QED
  BY <1>2, <1>3, <1>4, <1>5

\* Only Finish makes a goroutine report success.
LEMMA ReportsNoSuccess ==
    ASSUME TypeOK, NEW j \in Jobs,
           \/ \E pc \in JobStates \ {"report"} : GoTo(j, pc)
           \/ \E q \in Requests : Await(j, q)
           \/ AfterReport(j)
           \/ Finish(j, "failed")
           \/ job' = [job EXCEPT ![j] = NoJob]
           \/ \E c \in Sources :
                 job' = [job EXCEPT ![j] = [@ EXCEPT !.pc = "upload", !.content = c]]
    PROVE  ReportBacked(j)'
<1>1. SUFFICES job'[j].pc # "report" \/ job'[j].status # "succeeded"
  BY DEF ReportBacked
<1>2. ASSUME NEW x, job' = [job EXCEPT ![j] = x]
      PROVE  job'[j] = x
  BY <1>2 DEF TypeOK, RunnerTypeOK
<1>3. job[j] \in JobRec
  BY DEF TypeOK, RunnerTypeOK
<1>4. ASSUME NEW pc \in JobStates \ {"report"}, GoTo(j, pc)
      PROVE  job'[j].pc # "report"
  <2>1. job'[j] = [job[j] EXCEPT !.pc = pc]
    BY <1>2, <1>4 DEF GoTo
  <2> QED
    BY <1>3, <2>1 DEF JobRec
<1>5. ASSUME NEW q \in Requests, Await(j, q)
      PROVE  job'[j].pc # "report"
  <2>1. job'[j] = [job[j] EXCEPT !.pc = "await", !.req = q]
    BY <1>2, <1>5 DEF Await
  <2> QED
    BY <1>3, <2>1 DEF JobRec
<1>6. CASE Finish(j, "failed")
  <2>1. job'[j] = [job[j] EXCEPT !.pc = "report", !.status = "failed", !.content = Nothing]
    BY <1>2, <1>6 DEF Finish
  <2> QED
    BY <1>3, <2>1 DEF JobRec
<1>7. CASE job' = [job EXCEPT ![j] = NoJob]
  BY <1>2, <1>7 DEF NoJob
<1>8. ASSUME NEW c \in Sources,
             job' = [job EXCEPT ![j] = [@ EXCEPT !.pc = "upload", !.content = c]]
      PROVE  job'[j].pc # "report"
  <2>1. job'[j] = [job[j] EXCEPT !.pc = "upload", !.content = c]
    BY <1>2, <1>8
  <2> QED
    BY <1>3, <2>1 DEF JobRec
<1>9. CASE AfterReport(j)
  BY <1>4, <1>7, <1>9 DEF AfterReport, StartTool, JobStates
<1> QED
  BY <1>4, <1>5, <1>6, <1>7, <1>8, <1>9

\* Finish reports what the task's output allows.
LEMMA SuccessBacked ==
    ASSUME TypeOK, NEW j \in Jobs, Finish(j, "succeeded"),
           \/ Capture[job[j].sched] = "none"
           \/ WithoutProject(job[j].sched) /\ UNCHANGED run
           \/ outputs' = Accepted(j)
    PROVE  ReportBacked(j)'
<1>1. job[j] \in JobRec
  BY DEF TypeOK, RunnerTypeOK
<1>2. job'[j] = [job[j] EXCEPT !.pc = "report", !.status = "succeeded", !.content = Nothing]
  BY DEF Finish, TypeOK, RunnerTypeOK
<1>3. job'[j].sched = job[j].sched
  BY <1>1, <1>2 DEF JobRec
<1>4. CASE Capture[job[j].sched] = "none"
  BY <1>3, <1>4 DEF ReportBacked, Backed
<1>5. CASE outputs' = Accepted(j)
  <2>1. [sched |-> job[j].sched, own |-> job[j].content = j,
         alone |-> j \notin disputed] \in outputs'
    BY <1>5 DEF Accepted
  <2>2. \E o \in outputs' : o.sched = job[j].sched
    BY <2>1
  <2> QED
    BY <1>3, <2>2 DEF ReportBacked, Backed
<1>6. CASE WithoutProject(job[j].sched) /\ UNCHANGED run
  BY <1>3, <1>6 DEF ReportBacked, Backed, WithoutProject
<1> QED
  BY <1>4, <1>5, <1>6

\* The runner's own steps make no goroutine report success.
LEMMA LoopBacked ==
    ASSUME TypeOK, OutputInv, [Next]_vars, NEW r \in Runners,
           UNCHANGED <<run, task, update, outputs>>,
           \/ UNCHANGED job
           \/ Crash(r)
           \/ \E s \in Schedules, j \in Jobs : Fire(r, s, j)
    PROVE  OutputInv'
<1> USE DEF Backed, WithoutProject
<1>1. RowsBacked' /\ UpdatesBacked' /\ GoneTogether'
  BY StepGone DEF OutputInv, RowsBacked, UpdatesBacked
<1>2. CASE UNCHANGED job
  BY <1>1, <1>2 DEF OutputInv, JobsBacked, ReportBacked
<1>3. CASE Crash(r)
  <2>1. \A j \in Jobs : job'[j] = job[j] \/ job'[j].pc = "idle"
    BY <1>3 DEF Crash, NoJob
  <2> QED
    BY <1>1, <2>1 DEF OutputInv, JobsBacked, ReportBacked
<1>4. ASSUME NEW s \in Schedules, NEW j \in Jobs, Fire(r, s, j)
      PROVE  OutputInv'
  <2>1. PICK st \in {"running", "failed"} :
          job' = [job EXCEPT ![j] = [NoJob EXCEPT !.pc = "report", !.runner = r, !.sched = s,
                                                  !.status = st]]
    BY <1>4 DEF Fire
  <2>2. job'[j].status = st /\ \A k \in Jobs \ {j} : job'[k] = job[k]
    BY <2>1 DEF NoJob, TypeOK, RunnerTypeOK
  <2>3. \A k \in Jobs : ReportBacked(k)'
    BY <2>2 DEF OutputInv, JobsBacked, ReportBacked
  <2> QED
    BY <1>1, <2>3 DEF OutputInv, JobsBacked
<1> QED
  BY <1>2, <1>3, <1>4

\* A goroutine is about to report success only once its output is accepted.
LEMMA JobBacked ==
    ASSUME TypeOK, OutputInv, [Next]_vars, NEW j \in Jobs, JobStep(j)
    PROVE  OutputInv'
<1>t. /\ job \in [Jobs -> JobRec] /\ \A k \in Jobs : job[k].sched \in Schedules
      /\ update \in [Requests -> UpdateRec] /\ Tasks \subseteq Schedules
  BY DEF TypeOK, RunnerTypeOK, JobRec, ScanTypeOK, Schedules
<1>1. \A k \in Jobs \ {j} : job'[k] = job[k]
  BY <1>t DEF JobStep, Report, Answer, RunTool, LookUp, Upload, Remove, Await, AfterReport,
              StartTool, GoTo, Execute, Finish, ReadOutput
<1>2. ReportBacked(j)'
  <2>1. CASE Report(j) \/ Answer(j) \/ Remove(j)
    BY <2>1, ReportsNoSuccess DEF Report, Answer, Remove
  <2>2. CASE RunTool(j)
    BY <2>2, ReportsNoSuccess DEF RunTool, Execute, JobStates
  <2>3. CASE LookUp(j)
    <3>1. Output(j) \in Sources /\ UNCHANGED run
      BY <2>3, OutputType DEF TypeOK, LookUp, scanVars
    <3>2. job[j].sched \in orphans[job[j].runner] => WithoutProject(job[j].sched)
      BY <1>t DEF OutputInv, GoneTogether, JobRec
    <3> QED
      BY <2>3, <3>1, <3>2, ReportsNoSuccess, SuccessBacked DEF LookUp, ReadOutput
  <2>4. CASE Upload(j)
    BY <2>4, ReportsNoSuccess, SuccessBacked DEF Upload
  <2> QED
    BY <2>1, <2>2, <2>3, <2>4 DEF JobStep
<1>3. JobsBacked'
  <2>1. ASSUME NEW k \in Jobs \ {j}
        PROVE  ReportBacked(k)'
    BY <1>t, <1>1, OutputsStay DEF OutputInv, JobsBacked, ReportBacked
  <2> QED
    BY <1>2, <2>1 DEF JobsBacked
<1>4. task' = task
  BY DEF JobStep, Report, Answer, RunTool, LookUp, Upload, Remove, DeleteSchedule, scanVars
<1>5. RowsBacked'
  BY <1>t, <1>4, OutputsStay DEF OutputInv, RowsBacked
<1>6. UpdatesBacked'
  <2>1. CASE UNCHANGED update
    BY <1>t, <2>1, OutputsStay DEF OutputInv, UpdatesBacked, UpdateRec
  <2>2. ASSUME NEW q \in Requests, BeginUpdate(q, job[j].sched, job[j].status),
               job[j].pc = "report", job[j].sched \in Tasks, UNCHANGED <<run, outputs>>
        PROVE  UpdatesBacked'
    <3>1. job[j].status = "succeeded" => Backed(job[j].sched)
      BY <2>2 DEF OutputInv, JobsBacked, ReportBacked
    <3>2. /\ update'[q].task = job[j].sched /\ update'[q].status = job[j].status
          /\ \A p \in Requests \ {q} : update'[p] = update[p]
      BY <1>t, <2>2 DEF BeginUpdate, UpdateRec
    <3> QED
      BY <2>2, <3>1, <3>2 DEF OutputInv, UpdatesBacked, Backed, WithoutProject
  <2>3. CASE Report(j)
    BY <2>1, <2>2, <2>3 DEF Report, scanVars
  <2> QED
    BY <2>1, <2>3 DEF JobStep, Answer, RunTool, LookUp, Upload, Remove, DeleteSchedule, scanVars
<1> QED
  BY <1>3, <1>5, <1>6, StepGone DEF OutputInv

LEMMA StepOutput == TypeOK /\ OutputInv /\ [Next]_vars => OutputInv'
<1> SUFFICES ASSUME TypeOK, OutputInv, [Next]_vars PROVE OutputInv'
  OBVIOUS
<1>1. CASE UserStep
  BY <1>1, TablesBacked DEF UserStep, runnerVars
<1>2. ASSUME NEW s \in Schedules, CancelSchedule(s) PROVE OutputInv'
  BY <1>2, TablesBacked DEF CancelSchedule, runnerVars
<1>3. ASSUME NEW r \in Runs, StoreSchedules(r) PROVE OutputInv'
  BY <1>3, TablesBacked DEF StoreSchedules, runnerVars
<1>4. ASSUME NEW q \in Requests, Handle(q) PROVE OutputInv'
  BY <1>4, TablesBacked DEF Handle, runnerVars
<1>5. CASE ApiFault
  BY <1>5, TablesBacked DEF ApiFault, runnerVars
<1>6. ASSUME NEW r \in Runners,
             Poll(r) \/ StartUp(r) \/ Sync(r) \/ RunnerFault(r)
                \/ \E s \in Schedules : Begin(r, s)
      PROVE  OutputInv'
  BY <1>6, LoopBacked DEF Poll, StartUp, Sync, RunnerFault, Begin, Fetch, FetchFails, Boot,
                          Reconcile, scanVars
<1>7. ASSUME NEW j \in Jobs, JobStep(j) PROVE OutputInv'
  BY <1>7, JobBacked
<1>8. CASE UNCHANGED vars
  BY <1>8 DEF vars, scanVars, runnerVars, OutputInv, GoneTogether, RowsBacked, UpdatesBacked,
              JobsBacked, ReportBacked, Backed, WithoutProject
<1> QED
  BY <1>1, <1>2, <1>3, <1>4, <1>5, <1>6, <1>7, <1>8 DEF Next

\* A task whose tool leaves an output is only marked as succeeded after the API
\* accepted that output, whichever calls fail, are abandoned or come late and
\* whichever of API and runners restart.
THEOREM SuccessNeedsOutput == Spec => []SucceededHasOutput
<1>1. OutputInv => SucceededHasOutput
  BY DEF OutputInv, GoneTogether, RowsBacked, Backed, WithoutProject, SucceededHasOutput
<1>2. Spec => []TypeOK
  BY TypeCorrect
<1> QED
  BY <1>1, <1>2, InitOutput, StepOutput, PTL DEF Spec

-------------------------------------------------------------------------------
(* What is uploaded is the execution's own output.  OwnOutput needs what   *)
(* the file holds between the end of the tool and the reading of it, which *)
(* other goroutines of the same runner could change: two whose tools write *)
(* the same file at the same time are both disputed.                       *)

ReadsOwn(j) ==
    LET s == job[j].sched IN
    job[j].pc = "read" /\ Capture[s] = "file" /\ j \notin disputed
        => files[job[j].runner][OutputFile[s]] = j

UploadsOwn(j) == job[j].pc = "upload" /\ j \notin disputed => job[j].content = j

Writing(j) == job[j].pc \in {"execute", "read"}

Apart(j, k) ==
    /\ j # k /\ Writing(j) /\ Writing(k)
    /\ job[j].runner = job[k].runner
    /\ WriteSameFile(job[j].sched, job[k].sched)
    => {j, k} \subseteq disputed

OwnInv ==
    /\ OwnOutput
    /\ \A j \in Jobs : ReadsOwn(j) /\ UploadsOwn(j)
    /\ \A j, k \in Jobs : Apart(j, k)

LEMMA InitOwn == Init => OwnInv
BY DEF Init, RunnerInit, OwnInv, OwnOutput, ReadsOwn, UploadsOwn, Apart, Writing, NoJob

\* A step that leaves the files alone, and starts no tool, reading or uploading.
LEMMA QuietOwn ==
    ASSUME OwnInv, UNCHANGED <<files, outputs, disputed>>,
           \A j \in Jobs : job'[j] = job[j] \/ job'[j].pc \notin {"execute", "read", "upload"}
    PROVE  OwnInv'
<1>1. \A j \in Jobs : ReadsOwn(j)' /\ UploadsOwn(j)'
  BY DEF OwnInv, ReadsOwn, UploadsOwn
<1>2. \A j \in Jobs : Writing(j)' => job'[j] = job[j] /\ Writing(j)
  BY DEF Writing
<1>3. \A j, k \in Jobs : Apart(j, k)'
  BY <1>2 DEF OwnInv, Apart
<1> QED
  BY <1>1, <1>3 DEF OwnInv, OwnOutput

\* A tool that starts to write finds out who else writes the same file.
LEMMA StartOwn ==
    ASSUME TypeOK, OwnInv, NEW j \in Jobs, job[j].pc \in {"report", "await"}, StartTool(j),
           UNCHANGED <<files, outputs>>
    PROVE  OwnInv'
<1>1. job \in [Jobs -> JobRec] /\ job[j] \in JobRec /\ disputed \subseteq Jobs
  BY DEF TypeOK, RunnerTypeOK
<1>2. /\ \A k \in Jobs \ {j} : job'[k] = job[k]
      /\ job'[j].pc = "execute"
      /\ job'[j].sched = job[j].sched /\ job'[j].runner = job[j].runner
  BY <1>1 DEF StartTool, GoTo, JobRec
<1>3. disputed \ {j} \subseteq disputed'
  BY DEF StartTool
<1>4. ASSUME NEW k \in Jobs PROVE ReadsOwn(k)' /\ UploadsOwn(k)'
  BY <1>2, <1>3 DEF OwnInv, ReadsOwn, UploadsOwn
<1>5. ASSUME NEW k \in Jobs \ {j} PROVE Apart(j, k)' /\ Apart(k, j)'
  <2>1. SUFFICES ASSUME Writing(k)', job'[j].runner = job'[k].runner,
                        \/ WriteSameFile(job[j].sched, job[k].sched)
                        \/ WriteSameFile(job[k].sched, job[j].sched)
                 PROVE  {j, k} \subseteq disputed'
    BY <1>2 DEF Apart
  <2>2. k \in Rivals(j)
    BY <1>2, <2>1 DEF Rivals, Writing, WriteSameFile
  <2> QED
    BY <2>2 DEF StartTool
<1>6. ASSUME NEW k \in Jobs \ {j}, NEW l \in Jobs \ {j} PROVE Apart(k, l)'
  <2>1. Apart(k, l)
    BY DEF OwnInv
  <2> QED
    BY <1>2, <1>3, <2>1 DEF Apart, Writing
<1>7. \A k, l \in Jobs : Apart(k, l)'
  <2>1. Apart(j, j)'
    BY DEF Apart
  <2> QED
    BY <1>5, <1>6, <2>1
<1> QED
  BY <1>4, <1>7 DEF OwnInv, OwnOutput

\* A file that a goroutine is about to read undisputed is not written meanwhile.
LEMMA ExecuteOwn ==
    ASSUME TypeOK, OwnInv, NEW j \in Jobs, Execute(j), UNCHANGED outputs
    PROVE  OwnInv'
<1> DEFINE s == job[j].sched
<1> DEFINE File(k) == OutputFile[job[k].sched]
<1>1. /\ job \in [Jobs -> JobRec] /\ job[j] \in JobRec
      /\ files \in [Runners -> [Files -> Sources]]
      /\ \A k \in Jobs : job[k].runner \in Runners /\ File(k) \in Files
  BY DEF TypeOK, RunnerTypeOK, JobRec, Files
<1>2. /\ job[j].pc = "execute"
      /\ \A k \in Jobs \ {j} : job'[k] = job[k]
      /\ job'[j].pc \in {"read", "report"}
      /\ job'[j].sched = s /\ job'[j].runner = job[j].runner
      /\ disputed \subseteq disputed'
  <2>1. CASE GoTo(j, "read")
    BY <1>1, <2>1 DEF Execute, GoTo, JobRec
  <2>2. CASE Finish(j, "failed")
    BY <1>1, <2>2 DEF Execute, Finish, JobRec
  <2> QED
    BY <2>1, <2>2 DEF Execute
<1>3. ASSUME NEW k \in Jobs \ {j}, job[k].pc = "read", Capture[job[k].sched] = "file",
             k \notin disputed
      PROVE  files'[job[k].runner][File(k)] = files[job[k].runner][File(k)]
  <2>1. CASE files' = files
    BY <2>1
  <2>2. CASE files' = Written(j) /\ Capture[s] = "file"
    <3>1. files' = [files EXCEPT ![job[j].runner] = [@ EXCEPT ![File(j)] = j]]
      BY <2>2 DEF Written
    <3>2. Apart(j, k)
      BY DEF OwnInv
    <3>3. ~(job[k].runner = job[j].runner /\ File(k) = File(j))
      BY <1>2, <1>3, <2>2, <3>2 DEF Apart, Writing, WriteSameFile
    <3> QED
      BY <1>1, <3>1, <3>3
  <2> QED
    BY <2>1, <2>2 DEF Execute, Written
<1>4. ReadsOwn(j)'
  <2>1. SUFFICES ASSUME job'[j].pc = "read", Capture[s] = "file", j \notin disputed'
                 PROVE  files'[job[j].runner][File(j)] = j
    BY <1>2 DEF ReadsOwn
  <2>2. files' = Written(j)
    <3>1. ASSUME Finish(j, "failed") PROVE FALSE
      <4>1. job'[j] = [job[j] EXCEPT !.pc = "report", !.status = "failed",
                                     !.content = Nothing]
        BY <1>1, <3>1 DEF Finish
      <4> QED
        BY <1>1, <2>1, <4>1 DEF JobRec
    <3> QED
      BY <2>1, <3>1 DEF Execute
  <2>3. files' = [files EXCEPT ![job[j].runner] = [@ EXCEPT ![File(j)] = j]]
    BY <2>1, <2>2 DEF Written
  <2> QED
    BY <1>1, <2>3
<1>5. ASSUME NEW k \in Jobs PROVE ReadsOwn(k)' /\ UploadsOwn(k)'
  BY <1>2, <1>3, <1>4 DEF OwnInv, ReadsOwn, UploadsOwn
<1>6. \A k, l \in Jobs : Apart(k, l)'
  <2>1. \A k \in Jobs : (Writing(k)' => Writing(k)) /\ job'[k].sched = job[k].sched
                        /\ job'[k].runner = job[k].runner
    BY <1>2 DEF Writing
  <2> QED
    BY <1>2, <2>1 DEF OwnInv, Apart
<1> QED
  BY <1>5, <1>6 DEF OwnInv, OwnOutput

LEMMA JobOwn ==
    ASSUME TypeOK, OwnInv, NEW j \in Jobs, JobStep(j)
    PROVE  OwnInv'
<1> DEFINE Busy == {"execute", "read", "upload"}
<1> DEFINE Idles == job'[j].pc \notin Busy /\ \A k \in Jobs \ {j} : job'[k] = job[k]
<1>1. job \in [Jobs -> JobRec] /\ job[j] \in JobRec
  BY DEF TypeOK, RunnerTypeOK
<1>2. ASSUME \/ GoTo(j, "delete")
             \/ \E q \in Requests : Await(j, q)
             \/ \E st \in {"succeeded", "failed"} : Finish(j, st)
             \/ job' = [job EXCEPT ![j] = NoJob]
      PROVE  Idles
  <2>1. PICK x : job' = [job EXCEPT ![j] = x] /\ x.pc \notin Busy
    <3>1. [job[j] EXCEPT !.pc = "delete"].pc \notin Busy
      BY <1>1 DEF JobRec
    <3>2. \A q \in Requests : [job[j] EXCEPT !.pc = "await", !.req = q].pc \notin Busy
      BY <1>1 DEF JobRec
    <3>3. \A st \in {"succeeded", "failed"} :
            [job[j] EXCEPT !.pc = "report", !.status = st, !.content = Nothing].pc \notin Busy
      BY <1>1 DEF JobRec
    <3>4. NoJob.pc \notin Busy
      BY DEF NoJob
    <3> QED
      BY <1>2, <3>1, <3>2, <3>3, <3>4 DEF GoTo, Await, Finish
  <2> QED
    BY <1>1, <2>1
<1>3. ASSUME job[j].pc \in {"report", "await"}, AfterReport(j), UNCHANGED <<files, outputs>>
      PROVE  OwnInv'
  <2>1. CASE StartTool(j)
    BY <1>3, <2>1, StartOwn
  <2>2. CASE ~StartTool(j)
    <3>1. Idles /\ UNCHANGED disputed
      BY <1>2, <1>3, <2>2 DEF AfterReport
    <3> QED
      BY <1>3, <3>1, QuietOwn
  <2> QED
    BY <2>1, <2>2
<1>4. CASE Report(j) \/ Answer(j)
  <2>1. UNCHANGED <<files, outputs>> /\ job[j].pc \in {"report", "await"}
    BY <1>4 DEF Report, Answer, JobUnchanged
  <2>2. ASSUME NEW q \in Requests, Await(j, q)
        PROVE  OwnInv'
    <3>1. Idles /\ UNCHANGED disputed
      BY <1>2, <2>2 DEF Await
    <3> QED
      BY <2>1, <3>1, QuietOwn
  <2> QED
    BY <1>3, <1>4, <2>1, <2>2 DEF Report, Answer
<1>5. CASE Remove(j)
  <2>1. Idles /\ UNCHANGED <<files, outputs, disputed>>
    BY <1>2, <1>5 DEF Remove, JobUnchanged
  <2> QED
    BY <2>1, QuietOwn
<1>6. CASE RunTool(j)
  BY <1>6, ExecuteOwn DEF RunTool
<1>7. CASE LookUp(j)
  <2>1. UNCHANGED <<files, outputs, disputed>> /\ job[j].pc = "read"
    BY <1>7 DEF LookUp, JobUnchanged
  <2>2. CASE \E st \in {"succeeded", "failed"} : Finish(j, st)
    BY <1>2, <2>1, <2>2, QuietOwn
  <2>3. CASE job' = [job EXCEPT ![j] = [@ EXCEPT !.pc = "upload", !.content = Output(j)]]
    <3>1. j \notin disputed => Output(j) = j
      BY <2>1 DEF Output, OwnInv, ReadsOwn
    <3>2. /\ job'[j].pc = "upload" /\ job'[j].content = Output(j)
          /\ \A k \in Jobs \ {j} : job'[k] = job[k]
      BY <1>1, <2>3 DEF JobRec
    <3>3. \A k \in Jobs : ReadsOwn(k)' /\ UploadsOwn(k)'
      BY <2>1, <3>1, <3>2 DEF OwnInv, ReadsOwn, UploadsOwn
    <3>4. \A k \in Jobs : Writing(k)' => k # j /\ Writing(k) /\ job'[k] = job[k]
      BY <3>2 DEF Writing
    <3>5. \A k, l \in Jobs : Apart(k, l)'
      BY <2>1, <3>4 DEF OwnInv, Apart
    <3> QED
      BY <2>1, <3>3, <3>5 DEF OwnInv, OwnOutput
  <2> QED
    BY <1>7, <2>2, <2>3 DEF LookUp, ReadOutput
<1>8. CASE Upload(j)
  <2>1. Idles /\ UNCHANGED <<files, disputed>>
    BY <1>2, <1>8 DEF Upload, JobUnchanged
  <2>2. j \notin disputed => job[j].content = j
    BY <1>8 DEF Upload, OwnInv, UploadsOwn
  <2>3. OwnOutput'
    <3> DEFINE o == [sched |-> job[j].sched, own |-> job[j].content = j,
                     alone |-> j \notin disputed]
    <3>1. outputs' \subseteq outputs \cup {o}
      BY <1>8 DEF Upload, Accepted
    <3>2. o.alone => o.own
      BY <2>2
    <3> HIDE DEF o
    <3> QED
      BY <3>1, <3>2 DEF OwnInv, OwnOutput
  <2>4. \A k \in Jobs : ReadsOwn(k)' /\ UploadsOwn(k)'
    BY <2>1 DEF OwnInv, ReadsOwn, UploadsOwn
  <2>5. \A k \in Jobs : Writing(k)' => k # j /\ Writing(k) /\ job'[k] = job[k]
    BY <2>1 DEF Writing
  <2>6. \A k, l \in Jobs : Apart(k, l)'
    BY <2>1, <2>5 DEF OwnInv, Apart
  <2> QED
    BY <2>3, <2>4, <2>6 DEF OwnInv
<1> QED
  BY <1>4, <1>5, <1>6, <1>7, <1>8 DEF JobStep

LEMMA StepOwn == TypeOK /\ OwnInv /\ [Next]_vars => OwnInv'
<1> SUFFICES ASSUME TypeOK, OwnInv, [Next]_vars PROVE OwnInv'
  OBVIOUS
<1>1. CASE \/ UserStep \/ ApiFault \/ UNCHANGED vars
           \/ \E s \in Schedules : CancelSchedule(s)
           \/ \E r \in Runs : StoreSchedules(r)
           \/ \E q \in Requests : Handle(q)
           \/ \E r \in Runners : Poll(r) \/ StartUp(r) \/ Sync(r)
  <2>1. UNCHANGED <<job, files, outputs, disputed>>
    BY <1>1 DEF UserStep, ApiFault, vars, runnerVars, CancelSchedule, StoreSchedules, Handle,
                Poll, StartUp, Sync, Fetch, FetchFails, Boot, Reconcile
  <2> QED
    BY <2>1, QuietOwn
<1>2. ASSUME NEW r \in Runners, RunnerFault(r) PROVE OwnInv'
  <2>1. /\ UNCHANGED <<files, outputs, disputed>>
        /\ \A j \in Jobs : job'[j] = job[j] \/ job'[j].pc = "idle"
    BY <1>2 DEF RunnerFault, Crash, NoJob
  <2> QED
    BY <2>1, QuietOwn
<1>3. ASSUME NEW r \in Runners, NEW s \in Schedules, Begin(r, s) PROVE OwnInv'
  <2>1. PICK j \in Jobs : Fire(r, s, j)
    BY <1>3 DEF Begin
  <2>2. /\ job'[j].pc = "report" /\ \A k \in Jobs \ {j} : job'[k] = job[k]
        /\ \A k \in Jobs : job[k].runner \in Runners /\ OutputFile[job[k].sched] \in Files
    BY <2>1 DEF Fire, NoJob, TypeOK, RunnerTypeOK, JobRec, Files
  <2>3. UNCHANGED <<outputs, disputed>>
    BY <1>3, <2>1 DEF Begin, Fire
  <2>4. \A k \in Jobs : ReadsOwn(k)' /\ UploadsOwn(k)'
    BY <2>1, <2>2, <2>3 DEF Fire, OwnInv, ReadsOwn, UploadsOwn
  <2>5. \A k \in Jobs : Writing(k)' => Writing(k) /\ job'[k] = job[k]
    BY <2>2 DEF Writing
  <2>6. \A k, l \in Jobs : Apart(k, l)'
    BY <2>3, <2>5 DEF OwnInv, Apart
  <2> QED
    BY <2>3, <2>4, <2>6 DEF OwnInv, OwnOutput
<1>4. ASSUME NEW j \in Jobs, JobStep(j) PROVE OwnInv'
  BY <1>4, JobOwn
<1> QED
  BY <1>1, <1>2, <1>3, <1>4 DEF Next

\* What the API accepts from an execution is what its own tool printed or
\* wrote, however the goroutines of a runner interleave, however many usages
\* name the same file and whatever files a runner finds after a restart, unless
\* two tools that write one file ran at the same time or the tool wrote none.
THEOREM OutputIsOwn == Spec => []OwnOutput
<1>1. OwnInv => OwnOutput
  BY DEF OwnInv
<1>2. Spec => []TypeOK
  BY TypeCorrect
<1> QED
  BY <1>1, <1>2, InitOwn, StepOwn, PTL DEF Spec

===============================================================================
