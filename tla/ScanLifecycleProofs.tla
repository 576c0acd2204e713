--------------------------- MODULE ScanLifecycleProofs ---------------------------
(***************************************************************************)
(* What holds of ScanPipeline when one runner serves the schedules and     *)
(* does not restart or give up on a report before it is answered: tasks    *)
(* live as ScanLifecycle says, and the status of a run that ended is the   *)
(* one its tasks add up to.  A second execution of a task, by another      *)
(* runner or after a restart, or a report that the API still works on when *)
(* the runner sends the next one, breaks both: with "crash" or "abandon"   *)
(* among FaultKinds or with two Runners, TLC shows a behaviour that does.  *)
(***************************************************************************)
EXTENDS ScanPipelineProofs

OneRunner == \A r, s \in Runners : r = s

\* The faults that make a runner execute a task again or report out of turn.
NoOvertaking == FaultKinds \cap {"crash", "abandon"} = {}

-------------------------------------------------------------------------------
(* The inductive invariant.                                                *)

Busy(j, s) == job[j].pc # "idle" /\ job[j].sched = s

\* What a goroutine works on was started by its runner and read from the table.
JobsStarted ==
    \A j \in Jobs : job[j].pc # "idle" =>
        /\ starts[job[j].runner][job[j].sched] > 0
        /\ job[j].sched \in issued

OneJobEach ==
    \A j, k \in Jobs : \A s \in Once : Busy(j, s) /\ Busy(k, s) => j = k

\* Each handler answers one goroutine, which waits for it ...
ReqsApart ==
    \A j, k \in Jobs :
        job[j].pc = "await" /\ job[k].pc = "await" /\ job[j].req = job[k].req => j = k

\* ... and works on what that goroutine reported.
Awaits(j, q) ==
    /\ job[j].pc = "await" /\ job[j].req = q
    /\ job[j].sched = update[q].task /\ job[j].status = update[q].status

UpdatesAwaited ==
    \A q \in Requests : update[q].stage # "idle" => \E j \in Jobs : Awaits(j, q)

\* The reports of j are through with.
Through(j) ==
    \/ job[j].pc = "delete"
    \/ /\ job[j].pc = "await" /\ job[j].status # "running"
       /\ update[job[j].req].stage = "idle"

\* A task that ended is neither executed again nor reported on again.
EndedIsOver ==
    \A t \in Tasks : task[t] \in Terminal =>
        /\ \A j \in Jobs : Busy(j, t) => Through(j)
        /\ \A r \in Runners : starts[r][t] > 0

\* The rows of a run and of its tasks come and go together.
RowsTogether ==
    \A t \in Tasks : /\ task[t] = "none" <=> run[RunOf[t]] = "none"
                     /\ task[t] = "deleted" <=> run[RunOf[t]] = "deleted"

\* Nobody else writes the task a handler has loaded.
WasStill ==
    \A q \in Requests :
        /\ update[q].stage \in {"loadRun", "save"}
        /\ run[RunOf[update[q].task]] \notin Missing
        => update[q].was = task[update[q].task]

Ended == Terminal \cup {"partial"}

\* Once the task of u has its new status.
View(u) == [task EXCEPT ![u.task] = u.status]

\* The end of a run that is about to be saved is still the right one: the
\* other tasks have ended, and do not change any more.
SavesTheEnd ==
    \A q \in Requests :
        LET u == update[q]
            ts == TasksOf(RunOf[u.task])
        IN  u.stage = "save" /\ u.runNow \in Ended /\ run[RunOf[u.task]] \notin Missing =>
                /\ \A t \in ts : View(u)[t] \in Terminal
                /\ u.runNow = Recompute(ts, View(u), u.runNow)

JobsInv == JobsStarted /\ OneJobEach /\ ReqsApart /\ UpdatesAwaited
StatusInv == EndedIsOver /\ RowsTogether /\ WasStill /\ SavesTheEnd /\ TerminalRunIsDerived
LifeInv == JobsInv /\ StatusInv

LEMMA InitLife == Init => LifeInv
<1> SUFFICES ASSUME Init PROVE LifeInv
  OBVIOUS
<1>1. /\ \A j \in Jobs : job[j].pc = "idle"
      /\ \A q \in Requests : update[q].stage = "idle"
      /\ \A t \in Tasks : task[t] = "none" /\ run[RunOf[t]] = "none"
      /\ \A r \in Runs : run[r] = "none"
      /\ issued = {}
  BY ScanRunsAssumption DEF Init, ScanInit, RunnerInit, NoJob, NoUpdate
<1>2. JobsInv
  BY <1>1 DEF JobsInv, JobsStarted, OneJobEach, ReqsApart, UpdatesAwaited, Busy
<1>3. StatusInv
  BY <1>1 DEF StatusInv, EndedIsOver, RowsTogether, WasStill, SavesTheEnd, TerminalRunIsDerived,
     Terminal
<1> QED
  BY <1>2, <1>3 DEF LifeInv

-------------------------------------------------------------------------------
(* What the goroutines do.                                                 *)

\* A goroutine stays with its schedule.
Stays(j) == job'[j].sched = job[j].sched /\ job'[j].runner = job[j].runner

LEMMA JobGoes ==
    ASSUME TypeOK, NEW j \in Jobs
    PROVE  /\ \A pc \in JobStates : GoTo(j, pc) =>
                  /\ job'[j].pc = pc /\ job'[j].status = job[j].status /\ Stays(j)
                  /\ \A k \in Jobs \ {j} : job'[k] = job[k]
           /\ \A q \in Requests : Await(j, q) =>
                  /\ job'[j].pc = "await" /\ job'[j].status = job[j].status /\ Stays(j)
                  /\ job'[j].req = q
                  /\ \A k \in Jobs \ {j} : job'[k] = job[k]
           /\ \A status : Finish(j, status) =>
                  /\ job'[j].pc = "report" /\ job'[j].status = status /\ Stays(j)
                  /\ \A k \in Jobs \ {j} : job'[k] = job[k]
           /\ job' = [job EXCEPT ![j] = NoJob] =>
                  /\ job'[j].pc = "idle"
                  /\ \A k \in Jobs \ {j} : job'[k] = job[k]
           /\ \A c : job' = [job EXCEPT ![j] = [@ EXCEPT !.pc = "upload", !.content = c]] =>
                  /\ job'[j].pc = "upload" /\ Stays(j)
                  /\ \A k \in Jobs \ {j} : job'[k] = job[k]
<1> USE DEF Stays
<1>1. job \in [Jobs -> JobRec] /\ job[j] \in JobRec
  BY DEF TypeOK, RunnerTypeOK
<1>2. ASSUME NEW pc \in JobStates, GoTo(j, pc)
      PROVE  /\ job'[j].pc = pc /\ job'[j].status = job[j].status /\ Stays(j)
             /\ \A k \in Jobs \ {j} : job'[k] = job[k]
  BY <1>1, <1>2 DEF GoTo, JobRec
<1>3. ASSUME NEW q \in Requests, Await(j, q)
      PROVE  /\ job'[j].pc = "await" /\ job'[j].status = job[j].status /\ Stays(j)
             /\ job'[j].req = q
             /\ \A k \in Jobs \ {j} : job'[k] = job[k]
  BY <1>1, <1>3 DEF Await, JobRec
<1>4. ASSUME NEW status, Finish(j, status)
      PROVE  /\ job'[j].pc = "report" /\ job'[j].status = status /\ Stays(j)
             /\ \A k \in Jobs \ {j} : job'[k] = job[k]
  BY <1>1, <1>4 DEF Finish, JobRec
<1>5. ASSUME job' = [job EXCEPT ![j] = NoJob]
      PROVE  /\ job'[j].pc = "idle"
             /\ \A k \in Jobs \ {j} : job'[k] = job[k]
  BY <1>1, <1>5 DEF NoJob
<1>6. ASSUME NEW c, job' = [job EXCEPT ![j] = [@ EXCEPT !.pc = "upload", !.content = c]]
      PROVE  /\ job'[j].pc = "upload" /\ Stays(j)
             /\ \A k \in Jobs \ {j} : job'[k] = job[k]
  BY <1>1, <1>6 DEF JobRec
<1> QED
  BY <1>2, <1>3, <1>4, <1>5, <1>6

\* Once the status was reported, or could not be.
LEMMA AfterReportGoes ==
    ASSUME TypeOK, NEW j \in Jobs, AfterReport(j)
    PROVE  /\ job'[j].pc \in {"idle", "execute", "delete"}
           /\ job'[j].pc # "idle" => Stays(j) /\ job'[j].status = job[j].status
           /\ job[j].status # "running" => job'[j].pc \in {"idle", "delete"}
           /\ job'[j].pc = "delete" => job[j].status # "running"
           /\ \A k \in Jobs \ {j} : job'[k] = job[k]
BY JobGoes DEF AfterReport, StartTool, JobStates

\* A goroutine that sends a report: a free handler takes it.
Reports(j) ==
    \E q \in Requests \ Awaited :
        /\ job[j].pc = "report" /\ job[j].sched \in Tasks
        /\ BeginUpdate(q, job[j].sched, job[j].status)
        /\ Await(j, q)
        /\ token[job[j].runner]

\* Any other step of a goroutine.
GoesOn(j) ==
    /\ UNCHANGED update
    /\ job'[j].pc \in JobStates \ {"await"}
    /\ job'[j].pc # "idle" => Stays(j)
    /\ job[j].pc = "await" => update[job[j].req].stage = "idle"
    /\ Through(j) => job'[j].pc \in {"idle", "delete"}

\* Where no call fails, it deletes its schedule after its last report only.
DeletesLast(j) ==
    job'[j].pc = "delete" /\ job[j].sched \in Tasks =>
        Through(j) \/ ~token[job[j].runner] \/ "call" \in FaultKinds

LEMMA JobMoves ==
    ASSUME TypeOK, NoOvertaking, NEW j \in Jobs, JobStep(j)
    PROVE  /\ job[j].pc # "idle"
           /\ UNCHANGED <<run, task, issued, creating, starts, token, cancelled>>
           /\ \A k \in Jobs \ {j} : job'[k] = job[k]
           /\ Reports(j) \/ (GoesOn(j) /\ DeletesLast(j))
<1>1. /\ job[j].pc # "idle"
      /\ UNCHANGED <<run, task, issued, creating, starts, token, cancelled>>
  BY DEF JobStep, Report, Answer, RunTool, LookUp, Upload, Remove, Execute, ReadOutput,
     JobUnchanged, DeleteSchedule, scanVars
<1>2. CASE Report(j)
  <2>1. CASE Reports(j)
    BY <1>1, <2>1, JobGoes DEF Reports
  <2>2. CASE ~Reports(j)
    <3>1. /\ AfterReport(j) /\ UNCHANGED update /\ job[j].pc = "report"
          /\ job[j].sched \in Tasks => CallFails(job[j].runner)
      BY <1>2, <2>2 DEF Report, Reports, scanVars, CallSucceeds
    <3>2. GoesOn(j)
      BY <3>1, AfterReportGoes DEF GoesOn, JobStates, Through
    <3>3. DeletesLast(j)
      BY <3>1 DEF DeletesLast, CallFails, Fault
    <3> QED
      BY <1>1, <3>1, <3>2, <3>3, AfterReportGoes
  <2> QED
    BY <2>1, <2>2
<1>3. CASE Answer(j)
  <2>1. /\ AfterReport(j) /\ UNCHANGED update /\ job[j].pc = "await"
        /\ update[job[j].req].stage = "idle"
    BY <1>3 DEF Answer, Fault, NoOvertaking, scanVars
  <2>2. GoesOn(j) /\ DeletesLast(j)
    BY <2>1, AfterReportGoes DEF GoesOn, DeletesLast, JobStates, Through
  <2> QED
    BY <1>1, <2>1, <2>2, AfterReportGoes
<1>4. CASE RunTool(j)
  <2>1. UNCHANGED update /\ job[j].pc = "execute" /\ (GoTo(j, "read") \/ Finish(j, "failed"))
    BY <1>4 DEF RunTool, Execute, scanVars
  <2> QED
    BY <1>1, <2>1, JobGoes DEF GoesOn, DeletesLast, JobStates, Through
<1>5. CASE LookUp(j)
  <2>1. /\ UNCHANGED update /\ job[j].pc = "read"
        /\ \/ Finish(j, "failed") \/ Finish(j, "succeeded")
           \/ job' = [job EXCEPT ![j] = [@ EXCEPT !.pc = "upload", !.content = Output(j)]]
    BY <1>5 DEF LookUp, ReadOutput, scanVars
  <2> QED
    BY <1>1, <2>1, JobGoes DEF GoesOn, DeletesLast, JobStates, Through
<1>6. CASE Upload(j)
  <2>1. /\ UNCHANGED update /\ job[j].pc = "upload"
        /\ Finish(j, "failed") \/ Finish(j, "succeeded")
    BY <1>6 DEF Upload, scanVars
  <2> QED
    BY <1>1, <2>1, JobGoes DEF GoesOn, DeletesLast, JobStates, Through
<1>7. CASE Remove(j)
  <2>1. /\ UNCHANGED update /\ job[j].pc = "delete"
        /\ job' = [job EXCEPT ![j] = NoJob]
    BY <1>7 DEF Remove, DeleteSchedule, scanVars
  <2> QED
    BY <1>1, <2>1, JobGoes DEF GoesOn, DeletesLast, JobStates, Through
<1> QED
  BY <1>2, <1>3, <1>4, <1>5, <1>6, <1>7 DEF JobStep

\* What a handler has changed: its own request, and no other.
LEMMA HandlerMoves ==
    ASSUME TypeOK, NEW q \in Requests, HandlerStep(q)
    PROVE  /\ update[q].stage # "idle"
           /\ \A p \in Requests \ {q} : update'[p] = update[p]
           /\ update'[q].stage # "idle" =>
                 update'[q].task = update[q].task /\ update'[q].status = update[q].status
           /\ UNCHANGED <<schedules, issued, creating>>
<1> DEFINE u == update[q]
<1>1. update \in [Requests -> UpdateRec] /\ u \in UpdateRec
  BY DEF TypeOK, ScanTypeOK
<1>2. CASE LoadTask(q)
  BY <1>1, <1>2 DEF LoadTask, NoUpdate, UpdateRec
<1>3. CASE LoadRun(q)
  BY <1>1, <1>3 DEF LoadRun, NoUpdate, UpdateRec
<1>4. CASE SaveStatus(q)
  BY <1>1, <1>4 DEF SaveStatus, NoUpdate
<1> QED
  BY <1>2, <1>3, <1>4 DEF HandlerStep

-------------------------------------------------------------------------------
(* Goroutines and handlers keep to each other.                             *)

LEMMA JobJobs ==
    ASSUME TypeOK, NoOvertaking, JobsInv, NEW j \in Jobs, JobStep(j)
    PROVE  JobsInv'
<1>1. /\ job[j].pc # "idle" /\ UNCHANGED <<issued, starts>>
      /\ \A k \in Jobs \ {j} : job'[k] = job[k]
      /\ Reports(j) \/ GoesOn(j)
  BY JobMoves
<1>2. \A k \in Jobs : job'[k].pc # "idle" =>
          /\ job[k].pc # "idle"
          /\ job'[k].sched = job[k].sched /\ job'[k].runner = job[k].runner
  BY <1>1, JobGoes DEF Reports, GoesOn, Stays
<1>3. JobsStarted' /\ OneJobEach'
  BY <1>1, <1>2 DEF JobsInv, JobsStarted, OneJobEach, Busy
<1>4. CASE Reports(j)
  <2>1. PICK q \in Requests \ Awaited :
            /\ job[j].pc = "report" /\ BeginUpdate(q, job[j].sched, job[j].status)
            /\ Await(j, q)
    BY <1>4 DEF Reports
  <2>2. /\ job'[j].pc = "await" /\ job'[j].req = q /\ job'[j].sched = job[j].sched
        /\ job'[j].status = job[j].status
    BY <2>1, JobGoes DEF Stays
  <2>3. /\ update'[q].task = job[j].sched /\ update'[q].status = job[j].status
        /\ \A p \in Requests \ {q} : update'[p] = update[p]
    BY <2>1 DEF BeginUpdate, TypeOK, ScanTypeOK, UpdateRec
  <2>4. \A k \in Jobs : job[k].pc = "await" => job[k].req # q
    BY <2>1 DEF Awaited
  <2>5. ReqsApart'
    BY <1>1, <2>2, <2>4 DEF JobsInv, ReqsApart
  <2>6. UpdatesAwaited'
    <3> SUFFICES ASSUME NEW p \in Requests, update'[p].stage # "idle"
                 PROVE  \E k \in Jobs : Awaits(k, p)'
      BY DEF UpdatesAwaited
    <3>1. CASE p = q
      BY <2>2, <2>3, <3>1 DEF Awaits
    <3>2. CASE p # q
      <4>1. PICK k \in Jobs : Awaits(k, p)
        BY <2>3, <3>2 DEF JobsInv, UpdatesAwaited
      <4>2. k # j
        BY <2>1, <4>1 DEF Awaits
      <4> QED
        BY <1>1, <2>3, <3>2, <4>1, <4>2 DEF Awaits
    <3> QED
      BY <3>1, <3>2
  <2> QED
    BY <1>3, <2>5, <2>6 DEF JobsInv
<1>5. CASE GoesOn(j)
  <2>1. ReqsApart'
    BY <1>1, <1>5 DEF JobsInv, ReqsApart, GoesOn
  <2>2. UpdatesAwaited'
    <3> SUFFICES ASSUME NEW p \in Requests, update'[p].stage # "idle"
                 PROVE  \E k \in Jobs : Awaits(k, p)'
      BY DEF UpdatesAwaited
    <3>1. PICK k \in Jobs : Awaits(k, p)
      BY <1>5 DEF JobsInv, UpdatesAwaited, GoesOn
    <3>2. k # j
      BY <1>5, <3>1 DEF Awaits, GoesOn
    <3> QED
      BY <1>1, <1>5, <3>1, <3>2 DEF Awaits, GoesOn
  <2> QED
    BY <1>3, <2>1, <2>2 DEF JobsInv
<1> QED
  BY <1>1, <1>4, <1>5

\* The runner starts a "once" schedule only when nobody works on it.
LEMMA FireJobs ==
    ASSUME TypeOK, OnceInv, OneRunner, JobsInv, UNCHANGED scanVars,
           NEW r \in Runners, NEW s \in Schedules, NEW j \in Jobs, Fire(r, s, j)
    PROVE  JobsInv'
<1>1. /\ job[j].pc = "idle" /\ s \in timers[r]
      /\ job'[j].pc = "report" /\ job'[j].sched = s /\ job'[j].runner = r
      /\ \A k \in Jobs \ {j} : job'[k] = job[k]
  BY DEF Fire, NoJob, TypeOK, RunnerTypeOK
<1>2. /\ s \in issued /\ starts[r][s] \in Nat
      /\ s \in Once => starts[r][s] = 0
      /\ \A v \in Runners, x \in Schedules : starts[v][x] \in Nat
  BY <1>1 DEF OnceInv, KnownIds, StartedOnce, TypeOK, RunnerTypeOK
<1>3. \A v \in Runners, x \in Schedules :
          starts'[v][x] = IF v = r /\ x = s THEN starts[v][x] + 1 ELSE starts[v][x]
  <2> TAKE v \in Runners, x \in Schedules
  <2>1. starts[v] \in [Schedules -> Nat] /\ starts[r] \in [Schedules -> Nat]
    BY DEF TypeOK, RunnerTypeOK
  <2> QED
    BY <2>1 DEF Fire, TypeOK, RunnerTypeOK
<1>4. \A k \in Jobs : job[k].sched \in Schedules /\ job[k].runner \in Runners
  BY DEF TypeOK, RunnerTypeOK, JobRec
<1>5. JobsStarted'
  <2> SUFFICES ASSUME NEW k \in Jobs, job'[k].pc # "idle"
               PROVE  starts'[job'[k].runner][job'[k].sched] > 0 /\ job'[k].sched \in issued'
    BY DEF JobsStarted
  <2>1. CASE k = j
    BY <1>1, <1>2, <1>3, <2>1 DEF scanVars
  <2>2. CASE k # j
    <3>1. starts[job[k].runner][job[k].sched] > 0 /\ job[k].sched \in issued /\ job'[k] = job[k]
      BY <1>1, <2>2 DEF JobsInv, JobsStarted
    <3> QED
      BY <1>2, <1>3, <1>4, <3>1 DEF scanVars
  <2> QED
    BY <2>1, <2>2
<1>6. s \in Once => \A k \in Jobs : ~Busy(k, s)
  BY <1>2, <1>4 DEF JobsInv, JobsStarted, Busy, OneRunner
<1>7. OneJobEach'
  BY <1>1, <1>6 DEF JobsInv, OneJobEach, Busy
<1>8. ReqsApart' /\ UpdatesAwaited'
  <2>1. \A k \in Jobs : job'[k].pc = "await" => k # j
    BY <1>1
  <2>2. \A k \in Jobs, q \in Requests : Awaits(k, q) => k # j /\ Awaits(k, q)'
    BY <1>1 DEF Awaits, scanVars
  <2>3. ReqsApart'
    BY <1>1, <2>1 DEF JobsInv, ReqsApart
  <2>4. UpdatesAwaited'
    BY <2>2 DEF JobsInv, UpdatesAwaited, scanVars
  <2> QED
    BY <2>3, <2>4
<1> QED
  BY <1>5, <1>7, <1>8 DEF JobsInv

LEMMA TablesJobs ==
    ASSUME TypeOK, JobsInv, UNCHANGED <<job, starts>>, issued \subseteq issued',
           \/ UNCHANGED update
           \/ ApiRestart
           \/ \E q \in Requests : HandlerStep(q)
    PROVE  JobsInv'
<1>1. JobsStarted' /\ OneJobEach' /\ ReqsApart'
  BY DEF JobsInv, JobsStarted, OneJobEach, ReqsApart, Busy
<1>2. \A p \in Requests : update'[p].stage # "idle" =>
          /\ update[p].stage # "idle"
          /\ update'[p].task = update[p].task /\ update'[p].status = update[p].status
  <2>1. CASE UNCHANGED update
    BY <2>1
  <2>2. CASE ApiRestart
    BY <2>2 DEF ApiRestart, NoUpdate
  <2>3. CASE \E q \in Requests : HandlerStep(q)
    BY <2>3, HandlerMoves
  <2> QED
    BY <2>1, <2>2, <2>3
<1>3. UpdatesAwaited'
  BY <1>2 DEF JobsInv, UpdatesAwaited, Awaits
<1> QED
  BY <1>1, <1>3 DEF JobsInv

-------------------------------------------------------------------------------
(* The rows.                                                               *)

LEMMA RecomputeSame ==
    ASSUME NEW ts, NEW v, NEW w, \A t \in ts : v[t] = w[t], NEW c
    PROVE  Recompute(ts, v, c) = Recompute(ts, w, c)
<1>1. {t \in ts : v[t] = "failed"} = {t \in ts : w[t] = "failed"}
  OBVIOUS
<1> QED
  BY <1>1 DEF Recompute

\* A run only ends when all its tasks have.
LEMMA RecomputeEnds ==
    ASSUME NEW ts, ts # {}, NEW v, NEW c, Recompute(ts, v, c) \in Ended
    PROVE  /\ \A t \in ts : v[t] \in Terminal
           /\ \A d : Recompute(ts, v, c) = Recompute(ts, v, d)
BY DEF Recompute, Ended, Terminal

\* A task that is being reported on has not ended, and has a schedule.
LEMMA InFlight ==
    ASSUME TypeOK, LifeInv, NEW q \in Requests, update[q].stage # "idle"
    PROVE  /\ update[q].task \in Tasks /\ RunOf[update[q].task] \in Runs
           /\ update[q].task \in issued
           /\ task[update[q].task] \notin Terminal
           /\ \E j \in Jobs : Awaits(j, q)
<1>1. PICK j \in Jobs : Awaits(j, q)
  BY DEF LifeInv, JobsInv, UpdatesAwaited
<1>2. update[q].task \in Tasks /\ RunOf[update[q].task] \in Runs
  BY ScanRunsAssumption DEF TypeOK, ScanTypeOK, UpdateRec
<1>3. Busy(j, update[q].task) /\ ~Through(j) /\ update[q].task \in issued
  BY <1>1 DEF Awaits, Busy, Through, LifeInv, JobsInv, JobsStarted
<1> QED
  BY <1>1, <1>2, <1>3 DEF LifeInv, StatusInv, EndedIsOver

LEMMA OneHandlerEach ==
    ASSUME TypeOK, LifeInv, NEW p \in Requests, NEW q \in Requests,
           update[p].stage # "idle", update[q].stage # "idle", update[p].task = update[q].task
    PROVE  p = q
<1>1. PICK j \in Jobs : Awaits(j, p)
  BY InFlight
<1>2. PICK k \in Jobs : Awaits(k, q)
  BY InFlight
<1>3. update[q].task \in Once
  BY InFlight, ScanRunsAssumption DEF Once, Schedules
<1>4. j = k
  BY <1>1, <1>2, <1>3 DEF Awaits, Busy, LifeInv, JobsInv, OneJobEach
<1> QED
  BY <1>1, <1>2, <1>4 DEF Awaits

\* Steps that leave rows and goroutines alone, and at most end requests.
LEMMA RowsLeftAlone ==
    ASSUME TypeOK, LifeInv, UNCHANGED <<run, task, job, starts>>,
           \A q \in Requests : update'[q] = update[q] \/ update'[q].stage = "idle"
    PROVE  StatusInv'
<1>1. \A j \in Jobs : job[j].req \in Requests
  BY DEF TypeOK, RunnerTypeOK, JobRec
<1>2. \A j \in Jobs : Through(j) => Through(j)'
  BY <1>1 DEF Through
<1>3. EndedIsOver' /\ RowsTogether' /\ TerminalRunIsDerived'
  BY <1>2 DEF LifeInv, StatusInv, EndedIsOver, RowsTogether, TerminalRunIsDerived, Busy
<1>4. WasStill'
  BY DEF LifeInv, StatusInv, WasStill
<1>5. SavesTheEnd'
  BY DEF LifeInv, StatusInv, SavesTheEnd, View
<1> QED
  BY <1>3, <1>4, <1>5 DEF StatusInv

\* A run and its tasks are inserted or deleted together.
LEMMA RowsComeAndGo ==
    ASSUME TypeOK, LifeInv, OnceInv, UNCHANGED <<update, job, starts>>, NEW r \in Runs,
           SaveRun(r) \/ DeleteProject(r)
    PROVE  StatusInv'
<1>1. PICK v \in {"queued", "deleted"} :
          /\ run' = [run EXCEPT ![r] = v]
          /\ task' = [t \in Tasks |-> IF RunOf[t] = r THEN v ELSE task[t]]
          /\ v = "queued" => run[r] = "none"
  BY DEF SaveRun, DeleteProject
<1>2. /\ run'[r] = v /\ \A r2 \in Runs \ {r} : run'[r2] = run[r2]
      /\ \A t \in Tasks : task'[t] = IF RunOf[t] = r THEN v ELSE task[t]
      /\ \A t \in Tasks : RunOf[t] \in Runs
  BY <1>1, ScanRunsAssumption DEF TypeOK, ScanTypeOK
<1>3. ASSUME NEW q \in Requests, update[q].stage # "idle", run'[RunOf[update[q].task]] \notin Missing
      PROVE  update[q].task \in Tasks /\ RunOf[update[q].task] \in Runs \ {r}
  <2>1. /\ update[q].task \in Tasks /\ RunOf[update[q].task] \in Runs
        /\ update[q].task \in issued
    BY <1>3, InFlight
  <2>2. run[r] = "none" => TasksOf(r) \cap issued = {}
    BY DEF OnceInv, FreshIds
  <2>3. RunOf[update[q].task] # r
    BY <1>1, <1>2, <1>3, <2>1, <2>2 DEF TasksOf, Missing
  <2> QED
    BY <2>1, <2>3
<1>4. EndedIsOver'
  BY <1>2 DEF LifeInv, StatusInv, EndedIsOver, Busy, Through, Terminal
<1>5. RowsTogether'
  BY <1>2 DEF LifeInv, StatusInv, RowsTogether
<1>6. WasStill'
  BY <1>2, <1>3 DEF LifeInv, StatusInv, WasStill
<1>7. ASSUME NEW r2 \in Runs \ {r}
      PROVE  /\ run'[r2] = run[r2] /\ \A t \in TasksOf(r2) : t \in Tasks /\ task'[t] = task[t]
  BY <1>2 DEF TasksOf
<1>8. SavesTheEnd'
  <2> SUFFICES ASSUME NEW q \in Requests, update[q].stage = "save",
                      update[q].runNow \in Ended, run'[RunOf[update[q].task]] \notin Missing
               PROVE  /\ \A t \in TasksOf(RunOf[update[q].task]) : View(update[q])'[t] \in Terminal
                      /\ update[q].runNow = Recompute(TasksOf(RunOf[update[q].task]),
                                                      View(update[q])', update[q].runNow)
    BY DEF SavesTheEnd
  <2> DEFINE u == update[q]
             ts == TasksOf(RunOf[u.task])
  <2>1. u.task \in Tasks /\ RunOf[u.task] \in Runs \ {r}
    BY <1>3
  <2>2. \A t \in ts : View(u)'[t] = View(u)[t]
    BY <1>1, <1>7, <2>1 DEF View, TypeOK, ScanTypeOK
  <2>3. /\ \A t \in ts : View(u)[t] \in Terminal
        /\ u.runNow = Recompute(ts, View(u), u.runNow)
    BY <1>7, <2>1 DEF LifeInv, StatusInv, SavesTheEnd
  <2> QED
    BY <2>2, <2>3, RecomputeSame
<1>9. TerminalRunIsDerived'
  <2> SUFFICES ASSUME NEW r2 \in Runs, run'[r2] \in Terminal \cup {"partial"}
               PROVE  /\ \A t \in TasksOf(r2) : task'[t] \in Terminal
                      /\ run'[r2] = Recompute(TasksOf(r2), task', run'[r2])
    BY DEF TerminalRunIsDerived
  <2>1. r2 # r
    BY <1>2 DEF Terminal
  <2> QED
    BY <1>7, <2>1, RecomputeSame DEF LifeInv, StatusInv, TerminalRunIsDerived
<1> QED
  BY <1>4, <1>5, <1>6, <1>8, <1>9 DEF StatusInv

\* The two loads: nothing is written, and what is loaded is remembered.
LEMMA LoadRows ==
    ASSUME TypeOK, LifeInv, UNCHANGED <<job, starts>>, NEW q \in Requests,
           LoadTask(q) \/ LoadRun(q)
    PROVE  StatusInv'
<1> DEFINE u == update[q]
           r == RunOf[u.task]
<1>1. /\ update \in [Requests -> UpdateRec] /\ u \in UpdateRec /\ u.stage # "idle"
      /\ UNCHANGED <<run, task>>
      /\ \A p \in Requests \ {q} : update'[p] = update[p]
  BY HandlerMoves DEF HandlerStep, LoadTask, LoadRun, TypeOK, ScanTypeOK
<1>2. \A j \in Jobs : job[j].req \in Requests
  BY DEF TypeOK, RunnerTypeOK, JobRec
<1>3. \A j \in Jobs : Through(j) => Through(j)'
  BY <1>1, <1>2 DEF Through
<1>4. EndedIsOver' /\ RowsTogether' /\ TerminalRunIsDerived'
  BY <1>1, <1>3 DEF LifeInv, StatusInv, EndedIsOver, RowsTogether, TerminalRunIsDerived, Busy
<1>5. \/ update'[q].stage = "idle"
      \/ /\ update'[q].stage = "loadRun" /\ update'[q].task = u.task
         /\ update'[q].was = task[u.task]
      \/ /\ u.stage = "loadRun" /\ update'[q].stage = "save" /\ update'[q].task = u.task
         /\ update'[q].status = u.status /\ update'[q].was = u.was
         /\ update'[q].runNow = Recompute(TasksOf(r), View(u), run[r])
  <2>1. CASE LoadTask(q)
    BY <1>1, <2>1 DEF LoadTask, NoUpdate, UpdateRec
  <2>2. CASE LoadRun(q)
    <3> DEFINE now == Recompute(TasksOf(r), View(u), run[r])
    <3>1. /\ u.stage = "loadRun"
          /\ update'[q] \in {NoUpdate, [u EXCEPT !.stage = "save", !.runWas = run[r],
                                                !.runNow = now]}
      BY <1>1, <2>2 DEF LoadRun, View
    <3> HIDE DEF now
    <3>2. \/ update'[q].stage = "idle"
          \/ /\ update'[q].stage = "save" /\ update'[q].task = u.task
             /\ update'[q].status = u.status /\ update'[q].was = u.was
             /\ update'[q].runNow = now
      <4>1. CASE update'[q] = NoUpdate
        BY <4>1 DEF NoUpdate
      <4>2. CASE update'[q] = [u EXCEPT !.stage = "save", !.runWas = run[r], !.runNow = now]
        BY <1>1, <4>2 DEF UpdateRec
      <4> QED
        BY <3>1, <4>1, <4>2
    <3> QED
      BY <3>1, <3>2 DEF now
  <2> QED
    BY <2>1, <2>2
<1>6. WasStill'
  BY <1>1, <1>5 DEF LifeInv, StatusInv, WasStill
<1>7. SavesTheEnd'
  <2> SUFFICES ASSUME NEW p \in Requests, update'[p].stage = "save",
                      update'[p].runNow \in Ended, run'[RunOf[update'[p].task]] \notin Missing
               PROVE  /\ \A t \in TasksOf(RunOf[update'[p].task]) : View(update[p])'[t] \in Terminal
                      /\ update'[p].runNow = Recompute(TasksOf(RunOf[update'[p].task]),
                                                       View(update[p])', update'[p].runNow)
    BY DEF SavesTheEnd
  <2>1. CASE p # q
    BY <1>1, <2>1 DEF LifeInv, StatusInv, SavesTheEnd, View
  <2>2. CASE p = q
    <3>1. /\ update'[q].task = u.task /\ View(update[q])' = View(u)
          /\ update'[q].runNow = Recompute(TasksOf(r), View(u), run[r])
      BY <1>1, <1>5, <2>2 DEF View
    <3>2. u.task \in TasksOf(r)
      BY <1>1 DEF UpdateRec, TasksOf
    <3> DEFINE v == View(u)
    <3>3. /\ \A t \in TasksOf(r) : v[t] \in Terminal
          /\ update'[q].runNow = Recompute(TasksOf(r), v, update'[q].runNow)
      <4> HIDE DEF v, r
      <4>1. TasksOf(r) # {} /\ Recompute(TasksOf(r), v, run[r]) \in Ended
        BY <2>2, <3>1, <3>2 DEF v
      <4>2. /\ \A t \in TasksOf(r) : v[t] \in Terminal
            /\ \A d : Recompute(TasksOf(r), v, run[r]) = Recompute(TasksOf(r), v, d)
        BY <4>1, RecomputeEnds
      <4> QED
        BY <3>1, <4>2 DEF v
    <3> QED
      BY <2>2, <3>1, <3>3
  <2> QED
    BY <2>1, <2>2
<1> QED
  BY <1>4, <1>6, <1>7 DEF StatusInv

\* The save: the task had not ended, and so neither had its run.
LEMMA SaveRows ==
    ASSUME TypeOK, OneRunner, LifeInv, UNCHANGED <<job, starts>>, NEW q \in Requests,
           SaveStatus(q)
    PROVE  StatusInv'
<1> DEFINE u == update[q]
           t == u.task
           r == RunOf[t]
<1>1. /\ update'[q].stage = "idle" /\ \A p \in Requests \ {q} : update'[p] = update[p]
      /\ u.stage = "save" /\ u \in UpdateRec
  BY DEF SaveStatus, NoUpdate, TypeOK, ScanTypeOK
<1>2. t \in Tasks /\ r \in Runs /\ task[t] \notin Terminal
  BY <1>1, InFlight
<1>3. CASE run[r] \in Missing
  BY <1>1, <1>3, RowsLeftAlone DEF SaveStatus
<1>4. CASE run[r] \notin Missing
  <2>1. task' = View(u)
    <3>1. u.was = task[t]
      BY <1>1, <1>4 DEF LifeInv, StatusInv, WasStill
    <3> QED
      BY <1>4, <3>1 DEF SaveStatus, View, TypeOK, ScanTypeOK
  <2>2. /\ task'[t] = u.status /\ u.status \in TaskStatuses
        /\ \A x \in Tasks \ {t} : task'[x] = task[x]
    BY <1>1, <1>2, <2>1 DEF View, TypeOK, ScanTypeOK, UpdateRec
  <2>3. /\ run'[r] \in {run[r], u.runNow} /\ u.runNow \in RunStatuses
        /\ \A r2 \in Runs \ {r} : run'[r2] = run[r2]
    BY <1>1, <1>2, <1>4 DEF SaveStatus, TypeOK, ScanTypeOK, UpdateRec
  <2>4. /\ run'[r] \notin Missing /\ task'[t] \notin Missing
        /\ task[t] \notin Missing
    BY <1>2, <1>4, <2>2, <2>3
       DEF RunStatuses, TaskStatuses, Missing, LifeInv, StatusInv, RowsTogether
  <2>5. run[r] \notin Ended
    BY <1>2 DEF LifeInv, StatusInv, TerminalRunIsDerived, Ended, TasksOf
  <2>6. \A r2 \in Runs \ {r} : \A x \in TasksOf(r2) : x \in Tasks \ {t} /\ task'[x] = task[x]
    BY <2>2 DEF TasksOf
  <2>7. ASSUME NEW p \in Requests, update'[p].stage # "idle"
        PROVE  /\ p # q /\ update'[p] = update[p] /\ update[p].task \in Tasks \ {t}
               /\ RunOf[update[p].task] \in Runs
               /\ run'[RunOf[update[p].task]] \notin Missing =>
                      run[RunOf[update[p].task]] \notin Missing
    BY <1>1, <1>4, <2>3, <2>7, InFlight, OneHandlerEach
  <2>8. EndedIsOver'
    <3> SUFFICES ASSUME NEW x \in Tasks, task'[x] \in Terminal
                 PROVE  /\ \A j \in Jobs : Busy(j, x) => Through(j)'
                        /\ \A v \in Runners : starts[v][x] > 0
      BY DEF EndedIsOver, Busy
    <3>1. CASE x # t
      <4>1. \A j \in Jobs : Through(j) => Through(j)'
        BY <1>1 DEF Through, TypeOK, RunnerTypeOK, JobRec
      <4> QED
        BY <2>2, <3>1, <4>1 DEF LifeInv, StatusInv, EndedIsOver
    <3>2. CASE x = t
      <4>1. PICK k \in Jobs : Awaits(k, q)
        BY <1>1, InFlight
      <4>2. Busy(k, t) /\ t \in Once
        BY <1>2, <4>1, ScanRunsAssumption DEF Awaits, Busy, Once, Schedules
      <4>3. Through(k)'
        BY <1>1, <2>2, <3>2, <4>1 DEF Awaits, Through, Terminal
      <4>4. \A v \in Runners : starts[v][t] > 0
        BY <4>1, <4>2 DEF LifeInv, JobsInv, JobsStarted, Busy, OneRunner, TypeOK, RunnerTypeOK,
           JobRec
      <4> QED
        BY <3>2, <4>2, <4>3, <4>4 DEF LifeInv, JobsInv, OneJobEach
    <3> QED
      BY <3>1, <3>2
  <2>9. RowsTogether'
    <3> SUFFICES ASSUME NEW x \in Tasks
                 PROVE  /\ task'[x] = "none" <=> run'[RunOf[x]] = "none"
                        /\ task'[x] = "deleted" <=> run'[RunOf[x]] = "deleted"
      BY DEF RowsTogether
    <3>1. RunOf[x] \in Runs
      BY ScanRunsAssumption
    <3>2. CASE x = t
      BY <2>4, <3>2 DEF Missing
    <3>3. CASE x # t /\ RunOf[x] = r
      BY <1>4, <2>2, <2>4, <3>3 DEF Missing, LifeInv, StatusInv, RowsTogether
    <3>4. CASE x # t /\ RunOf[x] # r
      BY <2>2, <2>3, <3>1, <3>4 DEF LifeInv, StatusInv, RowsTogether
    <3> QED
      BY <3>2, <3>3, <3>4
  <2>10. WasStill'
    <3> SUFFICES ASSUME NEW p \in Requests, update'[p].stage \in {"loadRun", "save"},
                        run'[RunOf[update'[p].task]] \notin Missing
                 PROVE  update'[p].was = task'[update'[p].task]
      BY DEF WasStill
    <3> QED
      BY <2>2, <2>7 DEF LifeInv, StatusInv, WasStill
  <2>11. SavesTheEnd'
    <3> SUFFICES ASSUME NEW p \in Requests, update'[p].stage = "save",
                        update'[p].runNow \in Ended, run'[RunOf[update'[p].task]] \notin Missing
                 PROVE  /\ \A x \in TasksOf(RunOf[update'[p].task]) :
                               View(update[p])'[x] \in Terminal
                        /\ update'[p].runNow = Recompute(TasksOf(RunOf[update'[p].task]),
                                                         View(update[p])', update'[p].runNow)
      BY DEF SavesTheEnd
    <3> DEFINE w == update[p]
               ts == TasksOf(RunOf[w.task])
    <3>1. /\ p # q /\ update'[p] = w /\ w.task \in Tasks \ {t} /\ RunOf[w.task] \in Runs
          /\ run[RunOf[w.task]] \notin Missing
      BY <2>7
    <3>2. /\ \A x \in ts : View(w)[x] \in Terminal
          /\ w.runNow = Recompute(ts, View(w), w.runNow)
      BY <3>1 DEF LifeInv, StatusInv, SavesTheEnd
    <3>3. t \notin ts
      <4>1. t \in ts => View(w)[t] = task[t]
        BY <1>2, <3>1 DEF View, TypeOK, ScanTypeOK
      <4> QED
        BY <1>2, <3>2, <4>1
    <3>4. \A x \in ts : View(w)'[x] = View(w)[x]
      <4>1. /\ task \in [Tasks -> TaskStatuses \cup Missing] /\ DOMAIN task' = Tasks
            /\ ts \subseteq Tasks \ {t}
        BY <2>1, <3>3 DEF TypeOK, ScanTypeOK, View, TasksOf
      <4> QED
        BY <2>2, <3>1, <4>1 DEF View
    <3> QED
      BY <3>1, <3>2, <3>4, RecomputeSame
  <2>12. TerminalRunIsDerived'
    <3> SUFFICES ASSUME NEW r2 \in Runs, run'[r2] \in Ended
                 PROVE  /\ \A x \in TasksOf(r2) : task'[x] \in Terminal
                        /\ run'[r2] = Recompute(TasksOf(r2), task', run'[r2])
      BY DEF TerminalRunIsDerived, Ended
    <3>1. CASE r2 # r
      BY <2>3, <2>6, <3>1, RecomputeSame DEF LifeInv, StatusInv, TerminalRunIsDerived, Ended
    <3>2. CASE r2 = r
      <4>1. run'[r] = u.runNow /\ u.runNow \in Ended
        BY <2>3, <2>5, <3>2
      <4>2. /\ \A x \in TasksOf(r) : View(u)[x] \in Terminal
            /\ u.runNow = Recompute(TasksOf(r), View(u), u.runNow)
        BY <1>1, <1>4, <4>1 DEF LifeInv, StatusInv, SavesTheEnd
      <4> QED
        BY <2>1, <3>2, <4>1, <4>2
    <3> QED
      BY <3>1, <3>2
  <2> QED
    BY <2>8, <2>9, <2>10, <2>11, <2>12 DEF StatusInv
<1> QED
  BY <1>3, <1>4

\* A task that has ended is not started again ...
LEMMA FireRows ==
    ASSUME TypeOK, OnceInv, LifeInv, UNCHANGED scanVars,
           NEW r \in Runners, NEW s \in Schedules, NEW j \in Jobs, Fire(r, s, j)
    PROVE  StatusInv'
<1>1. /\ s \in timers[r] /\ job'[j].sched = s
      /\ \A k \in Jobs \ {j} : job'[k] = job[k]
  BY DEF Fire, NoJob, TypeOK, RunnerTypeOK
<1>2. \A t \in Tasks : task[t] \in Terminal => t # s
  <2>1. s \in Tasks => s \in Once
    BY ScanRunsAssumption DEF Once, Schedules
  <2>2. s \in Once => starts[r][s] = 0
    BY <1>1 DEF OnceInv, StartedOnce
  <2> QED
    BY <2>1, <2>2 DEF LifeInv, StatusInv, EndedIsOver
<1>3. \A t \in Tasks : t # s => \A v \in Runners : starts'[v][t] = starts[v][t]
  <2> TAKE t \in Tasks
  <2> HAVE t # s
  <2> TAKE v \in Runners
  <2>1. t \in Schedules /\ starts[v] \in [Schedules -> Nat] /\ starts[r] \in [Schedules -> Nat]
    BY DEF TypeOK, RunnerTypeOK, Schedules
  <2> QED
    BY <2>1 DEF Fire, TypeOK, RunnerTypeOK
<1>4. EndedIsOver'
  BY <1>1, <1>2, <1>3 DEF LifeInv, StatusInv, EndedIsOver, Busy, Through, scanVars
<1>5. RowsTogether' /\ TerminalRunIsDerived'
  BY DEF LifeInv, StatusInv, RowsTogether, TerminalRunIsDerived, scanVars
<1>6. WasStill' /\ SavesTheEnd'
  BY DEF LifeInv, StatusInv, WasStill, SavesTheEnd, View, scanVars
<1> QED
  BY <1>4, <1>5, <1>6 DEF StatusInv

\* ... nor reported on again.
LEMMA JobRows ==
    ASSUME TypeOK, NoOvertaking, LifeInv, NEW j \in Jobs, JobStep(j)
    PROVE  StatusInv'
<1>1. /\ UNCHANGED <<run, task, starts>>
      /\ \A k \in Jobs \ {j} : job'[k] = job[k]
      /\ Reports(j) \/ GoesOn(j)
  BY JobMoves
<1>2. RowsTogether' /\ TerminalRunIsDerived'
  BY <1>1 DEF LifeInv, StatusInv, RowsTogether, TerminalRunIsDerived
<1>3. \A p \in Requests :
          /\ update'[p] = update[p] \/ update'[p].stage = "load"
          /\ p \in Awaited => update'[p] = update[p]
  <2>1. CASE GoesOn(j)
    BY <2>1 DEF GoesOn
  <2>2. CASE Reports(j)
    <3>1. PICK q \in Requests \ Awaited : BeginUpdate(q, job[j].sched, job[j].status)
      BY <2>2 DEF Reports
    <3>2. update \in [Requests -> UpdateRec] /\ update[q] \in UpdateRec
      BY DEF TypeOK, ScanTypeOK
    <3>3. update'[q].stage = "load" /\ \A p \in Requests \ {q} : update'[p] = update[p]
      BY <3>1, <3>2 DEF BeginUpdate, UpdateRec
    <3> QED
      BY <3>1, <3>3
  <2> QED
    BY <1>1, <2>1, <2>2
<1>4. WasStill'
  BY <1>1, <1>3 DEF LifeInv, StatusInv, WasStill
<1>5. SavesTheEnd'
  BY <1>1, <1>3 DEF LifeInv, StatusInv, SavesTheEnd, View
<1>6. EndedIsOver'
  <2> SUFFICES ASSUME NEW t \in Tasks, task[t] \in Terminal, NEW k \in Jobs, Busy(k, t)'
               PROVE  Through(k)'
    BY <1>1 DEF LifeInv, StatusInv, EndedIsOver
  <2>1. CASE k # j
    <3>1. Through(k) /\ job'[k] = job[k]
      BY <1>1, <2>1 DEF LifeInv, StatusInv, EndedIsOver, Busy
    <3>2. job[k].pc = "await" => job[k].req \in Awaited /\ job[k].req \in Requests
      BY DEF Awaited, TypeOK, RunnerTypeOK, JobRec
    <3> QED
      BY <1>3, <3>1, <3>2 DEF Through
  <2>2. CASE k = j
    <3>1. Busy(j, t)
      BY <1>1, <2>2, JobMoves, JobGoes DEF Busy, Reports, GoesOn, Stays
    <3>2. Through(j)
      BY <3>1 DEF LifeInv, StatusInv, EndedIsOver
    <3>3. GoesOn(j)
      BY <1>1, <3>2 DEF Reports, Through
    <3> QED
      BY <2>2, <3>2, <3>3 DEF GoesOn, Busy, Through
  <2> QED
    BY <2>1, <2>2
<1> QED
  BY <1>2, <1>4, <1>5, <1>6 DEF StatusInv

LEMMA LifeStep ==
    ASSUME OneRunner, NoOvertaking, TypeOK, OnceInv, LifeInv, [Next]_vars
    PROVE  LifeInv'
<1> USE DEF LifeInv
<1>1. ASSUME NEW r \in Runs, SaveRun(r) \/ DeleteProject(r), UNCHANGED runnerVars
      PROVE  LifeInv'
  <2>1. UNCHANGED <<job, starts, update, issued>>
    BY <1>1 DEF SaveRun, DeleteProject, runnerVars
  <2> QED
    BY <1>1, <2>1, TablesJobs, RowsComeAndGo
<1>2. ASSUME UNCHANGED <<run, task, update, job, starts>>, issued \subseteq issued'
      PROVE  LifeInv'
  BY <1>2, TablesJobs, RowsLeftAlone
<1>3. CASE UserStep
  <2>1. CASE \E s \in Manual : CreateSchedule(s)
    BY <1>2, <1>3, <2>1 DEF UserStep, CreateSchedule, runnerVars
  <2> QED
    BY <1>1, <1>3, <2>1 DEF UserStep
<1>4. CASE (\E s \in Schedules : CancelSchedule(s)) \/ (\E r \in Runs : StoreSchedules(r))
  BY <1>2, <1>4 DEF CancelSchedule, DeleteSchedule, StoreSchedules, SaveSchedules, runnerVars
<1>5. ASSUME NEW q \in Requests, Handle(q)
      PROVE  LifeInv'
  <2>1. UNCHANGED <<job, starts, issued>>
    BY <1>5, HandlerMoves DEF Handle, runnerVars
  <2> QED
    BY <1>5, <2>1, TablesJobs, LoadRows, SaveRows DEF Handle, HandlerStep
<1>6. CASE ApiFault
  <2>1. UNCHANGED <<run, task, issued, job, starts>> /\ ApiRestart
    BY <1>6 DEF ApiFault, ApiRestart, runnerVars
  <2>2. \A q \in Requests : update'[q].stage = "idle"
    BY <2>1 DEF ApiRestart, NoUpdate
  <2> QED
    BY <2>1, <2>2, TablesJobs, RowsLeftAlone
<1>7. ASSUME NEW r \in Runners, Poll(r) \/ StartUp(r) \/ Sync(r) \/ RunnerFault(r)
      PROVE  LifeInv'
  <2>1. ~Fault("crash")
    BY DEF Fault, NoOvertaking
  <2> QED
    BY <1>2, <1>7, <2>1 DEF Poll, StartUp, Sync, RunnerFault, Fetch, FetchFails, Boot, Reconcile,
       scanVars
<1>8. ASSUME NEW r \in Runners, NEW s \in Schedules, Begin(r, s)
      PROVE  LifeInv'
  BY <1>8, FireJobs, FireRows DEF Begin
<1>9. ASSUME NEW j \in Jobs, JobStep(j)
      PROVE  LifeInv'
  BY <1>9, JobJobs, JobRows
<1>10. CASE UNCHANGED vars
  BY <1>2, <1>10 DEF vars, scanVars, runnerVars
<1> QED
  BY <1>3, <1>4, <1>5, <1>6, <1>7, <1>8, <1>9, <1>10 DEF Next

\* One runner that does not restart or give up waiting: however the updates of
\* a scan's tasks interleave, the API stops, calls fail or the token expires,
\* a run that ended has the status its tasks add up to.
THEOREM EndedRunIsDerived ==
    ASSUME OneRunner, NoOvertaking
    PROVE  Spec => []TerminalRunIsDerived
<1>1. LifeInv => TerminalRunIsDerived
  BY DEF LifeInv, StatusInv
<1>2. TypeOK /\ OnceInv /\ LifeInv /\ [Next]_vars => LifeInv'
  BY LifeStep
<1>3. Init => LifeInv
  BY InitLife
<1> QED
  BY <1>1, <1>2, <1>3, InitType, StepType, InitOnce, StepOnce, PTL DEF Spec

-------------------------------------------------------------------------------
(* The refinement of ScanLifecycle.                                        *)

Produces == {t \in Tasks : Capture[t] # "none"}
Delivered == {t \in Tasks : \E o \in outputs : o.sched = t}

LEMMA LifecycleInit == Init => Lifecycle!Init
BY DEF Init, ScanInit, Lifecycle!Init

\* Rows that come and go.
LEMMA LifecycleRows ==
    ASSUME TypeOK, LifeInv, UNCHANGED outputs, NEW r \in Runs, SaveRun(r) \/ DeleteProject(r)
    PROVE  Lifecycle!Next
<1>1. TasksOf(r) \in SUBSET Tasks
  BY DEF TasksOf
<1>2. \A t \in TasksOf(r) : task[t] = "none" <=> run[r] = "none"
  BY DEF LifeInv, StatusInv, RowsTogether, TasksOf
<1>3. UNCHANGED Delivered
  BY DEF Delivered
<1>4. CASE SaveRun(r)
  <2>1. task' = [t \in Tasks |-> IF t \in TasksOf(r) THEN "queued" ELSE task[t]]
    BY <1>4 DEF SaveRun, TasksOf
  <2>2. Lifecycle!Create(TasksOf(r))
    BY <1>2, <1>3, <1>4, <2>1 DEF SaveRun, Lifecycle!Create, Delivered
  <2> QED
    BY <1>1, <2>2 DEF Lifecycle!Next
<1>5. CASE DeleteProject(r)
  <2>1. task' = [t \in Tasks |-> IF t \in TasksOf(r) THEN "deleted" ELSE task[t]]
    BY <1>5 DEF DeleteProject, TasksOf
  <2>2. Lifecycle!Discard(TasksOf(r))
    BY <1>2, <1>3, <1>5, <2>1 DEF DeleteProject, Missing, Lifecycle!Discard, Delivered
  <2> QED
    BY <1>1, <2>2 DEF Lifecycle!Next
<1> QED
  BY <1>4, <1>5

\* A status that is saved: the task was unfinished, and a success is backed.
LEMMA LifecycleSaves ==
    ASSUME TypeOK, LifeInv, OutputInv, UNCHANGED outputs, NEW q \in Requests, SaveStatus(q)
    PROVE  Lifecycle!Next \/ UNCHANGED <<task, Delivered>>
<1> DEFINE u == update[q]
           t == u.task
<1>1. /\ u.stage = "save" /\ u \in UpdateRec /\ t \in Tasks /\ RunOf[t] \in Runs
      /\ task[t] \notin Terminal
  BY InFlight DEF SaveStatus, TypeOK, ScanTypeOK
<1>2. UNCHANGED Delivered
  BY DEF Delivered
<1>3. CASE task' = task
  BY <1>2, <1>3
<1>4. CASE task' # task
  <2>1. task' = [task EXCEPT ![t] = u.status] /\ run[RunOf[t]] \notin Missing
    BY <1>4 DEF SaveStatus
  <2>2. task[t] \in {"queued", "running"}
    BY <1>1, <2>1
       DEF LifeInv, StatusInv, RowsTogether, Missing, TypeOK, ScanTypeOK, TaskStatuses, Terminal
  <2>3. u.status \in {"running", "succeeded", "failed"}
    <3>1. PICK j \in Jobs : Awaits(j, q)
      BY <1>1, InFlight
    <3>2. job[j] \in JobRec
      BY DEF TypeOK, RunnerTypeOK
    <3>3. job[j].status \in {"running", "succeeded", "failed"}
      BY <3>2 DEF JobRec
    <3> QED
      BY <3>1, <3>3 DEF Awaits
  <2>4. CASE u.status = "running"
    <3>1. task[t] = "queued"
      <4>1. task[t] = "running" => task' = task
        BY <1>1, <2>1, <2>4 DEF TypeOK, ScanTypeOK
      <4> QED
        BY <1>4, <2>2, <4>1
    <3>2. Lifecycle!Start(t)
      BY <1>2, <2>1, <2>4, <3>1 DEF Lifecycle!Start, Delivered
    <3> QED
      BY <1>1, <3>2 DEF Lifecycle!Next
  <2>5. CASE u.status = "failed"
    <3>1. Lifecycle!Fail(t)
      BY <1>2, <2>1, <2>2, <2>5 DEF Lifecycle!Fail, Lifecycle!Unfinished, Delivered
    <3> QED
      BY <1>1, <3>1 DEF Lifecycle!Next
  <2>6. CASE u.status = "succeeded"
    <3>1. t \in Produces => t \in Delivered
      <4>1. ~WithoutProject(t)
        BY <2>1 DEF WithoutProject, Missing
      <4> QED
        BY <1>1, <2>6, <4>1 DEF Produces, Delivered, OutputInv, UpdatesBacked, Backed
    <3>2. Lifecycle!Succeed(t)
      BY <1>2, <2>1, <2>2, <2>6, <3>1
         DEF Lifecycle!Succeed, Lifecycle!Unfinished, Delivered, Produces
    <3> QED
      BY <1>1, <3>2 DEF Lifecycle!Next
  <2> QED
    BY <2>3, <2>4, <2>5, <2>6
<1> QED
  BY <1>3, <1>4

\* An output that is accepted is one of a task that has not ended.
LEMMA LifecycleDelivers ==
    ASSUME TypeOK, OnceInv, LifeInv, NEW j \in Jobs, Upload(j)
    PROVE  Lifecycle!Next \/ UNCHANGED <<task, Delivered>>
<1> DEFINE s == job[j].sched
           o == [sched |-> s, own |-> job[j].content = j, alone |-> j \notin disputed]
<1>1. task' = task /\ job[j].pc = "upload"
  BY DEF Upload, scanVars
<1>2. CASE outputs' = outputs \/ s \notin Tasks
  <2>1. UNCHANGED Delivered
    <3>1. outputs' = outputs \/ outputs' = outputs \cup {o}
      BY DEF Upload, Accepted
    <3>2. o.sched = s
      OBVIOUS
    <3> HIDE DEF o
    <3> QED
      BY <1>2, <3>1, <3>2 DEF Delivered
  <2> QED
    BY <1>1, <2>1
<1>3. CASE outputs' # outputs /\ s \in Tasks
  <2>1. outputs' = outputs \cup {o}
    BY <1>3 DEF Upload, Accepted
  <2>2. Delivered' = Delivered \cup {s}
    <3>1. o.sched = s
      OBVIOUS
    <3> HIDE DEF o
    <3> QED
      BY <1>3, <2>1, <3>1 DEF Delivered
  <2>3. task[s] \notin Terminal
    BY <1>1, <1>3 DEF LifeInv, StatusInv, EndedIsOver, Busy, Through
  <2>4. task[s] # "none"
    <3>1. s \in issued
      BY <1>1 DEF LifeInv, JobsInv, JobsStarted
    <3>2. RunOf[s] \in Runs /\ s \in TasksOf(RunOf[s])
      BY <1>3, ScanRunsAssumption DEF TasksOf
    <3>3. run[RunOf[s]] # "none"
      BY <3>1, <3>2 DEF OnceInv, FreshIds
    <3> QED
      BY <1>3, <3>3 DEF LifeInv, StatusInv, RowsTogether
  <2>5. task[s] \in {"queued", "running", "deleted"}
    BY <1>3, <2>3, <2>4 DEF TypeOK, ScanTypeOK, TaskStatuses, Terminal, Missing
  <2>6. PICK t \in Tasks : t = s
    BY <1>3
  <2>7. Lifecycle!Deliver(t)
    BY <1>1, <2>2, <2>5, <2>6 DEF Lifecycle!Deliver, Lifecycle!Unfinished, Delivered
  <2> QED
    BY <2>7 DEF Lifecycle!Next
<1> QED
  BY <1>2, <1>3

LEMMA LifecycleStep ==
    ASSUME TypeOK, OnceInv, OutputInv, LifeInv, [Next]_vars
    PROVE  Lifecycle!Next \/ UNCHANGED <<task, Delivered>>
<1>1. ASSUME UNCHANGED <<task, outputs>>
      PROVE  UNCHANGED <<task, Delivered>>
  BY <1>1 DEF Delivered
<1>2. CASE UserStep
  BY <1>1, <1>2, LifecycleRows DEF UserStep, CreateSchedule
<1>3. ASSUME NEW q \in Requests, Handle(q)
      PROVE  Lifecycle!Next \/ UNCHANGED <<task, Delivered>>
  BY <1>1, <1>3, LifecycleSaves DEF Handle, HandlerStep, LoadTask, LoadRun
<1>4. ASSUME NEW j \in Jobs, JobStep(j)
      PROVE  Lifecycle!Next \/ UNCHANGED <<task, Delivered>>
  <2>1. CASE Upload(j)
    BY <2>1, LifecycleDelivers
  <2>2. CASE ~Upload(j)
    BY <1>1, <1>4, <2>2 DEF JobStep, Report, Answer, RunTool, LookUp, Remove, DeleteSchedule,
       scanVars
  <2> QED
    BY <2>1, <2>2
<1>5. CASE \/ \E s \in Schedules : CancelSchedule(s)
           \/ \E r \in Runs : StoreSchedules(r)
           \/ ApiFault
           \/ \E r \in Runners : Poll(r) \/ StartUp(r) \/ Sync(r) \/ RunnerFault(r)
           \/ \E r \in Runners, s \in Schedules : Begin(r, s)
           \/ UNCHANGED vars
  BY <1>1, <1>5 DEF CancelSchedule, DeleteSchedule, StoreSchedules, SaveSchedules, ApiFault,
     ApiRestart, Poll, StartUp, Sync, RunnerFault, Begin, vars, scanVars
<1> QED
  BY <1>2, <1>3, <1>4, <1>5 DEF Next

\* With one runner that does not restart or give up waiting, a scan keeps what
\* ScanLifecycle promises: each task goes from queued over running to succeeded
\* or failed and never back, and succeeds only after its output was handed in.
THEOREM ScansKeepTheirPromise ==
    ASSUME OneRunner, NoOvertaking
    PROVE  Spec => ImplementsLifecycle
<1>1. TypeOK /\ OnceInv /\ LifeInv /\ [Next]_vars => LifeInv'
  BY LifeStep
<1>2. Init => LifeInv
  BY InitLife
<1>3. TypeOK /\ OnceInv /\ OutputInv /\ LifeInv /\ [Next]_vars =>
          [Lifecycle!Next]_<<task, {t \in Tasks : \E o \in outputs : o.sched = t}>>
  BY LifecycleStep DEF Delivered
<1> QED
  BY <1>1, <1>2, <1>3, LifecycleInit, InitType, StepType, InitOnce, StepOnce, InitOutput,
     StepOutput, PTL DEF Spec, ImplementsLifecycle, Lifecycle!Spec

-------------------------------------------------------------------------------
(* ScheduleOutlivesTask, where all that fails is the access token: a call  *)
(* that fails or an API that stops loses the last report, and the runner   *)
(* deletes the schedule all the same.                                      *)

OnlyTokens == FaultKinds \subseteq {"token"}

Gone(t) == task[t] \in Terminal \cup {"deleted"}

\* A goroutine deletes the schedule of a task that has ended, or has no token
\* to do it with.
DeletesLate ==
    \A j \in Jobs : job[j].sched \in Tasks /\ Through(j) =>
        Gone(job[j].sched) \/ ~token[job[j].runner]

\* A runner that was not started yet, and has no token, executes nothing.
DownIsIdle ==
    \A r \in Runners : state[r] = "down" =>
        /\ timers[r] = {}
        /\ \A j \in Jobs : job[j].pc # "idle" => job[j].runner # r

OutliveInv == DeletesLate /\ DownIsIdle /\ ScheduleOutlivesTask

LEMMA InitOutlive == Init => OutliveInv
<1> SUFFICES ASSUME Init PROVE OutliveInv
  OBVIOUS
<1>1. \A j \in Jobs : job[j].pc = "idle"
  BY DEF Init, RunnerInit, NoJob
<1> QED
  BY <1>1 DEF OutliveInv, DeletesLate, DownIsIdle, ScheduleOutlivesTask, Through, Init, ScanInit,
     RunnerInit

\* What has ended or is gone stays so.
LEMMA GoneStays ==
    ASSUME TypeOK, LifeInv, [Next]_vars, NEW t \in Tasks, Gone(t)
    PROVE  Gone(t)'
<1>1. CASE task'[t] = task[t]
  BY <1>1 DEF Gone
<1>2. ASSUME NEW r \in Runs, SaveRun(r) \/ DeleteProject(r)
      PROVE  Gone(t)'
  <2>1. SaveRun(r) /\ RunOf[t] = r => task[t] = "none"
    BY DEF SaveRun, LifeInv, StatusInv, RowsTogether
  <2>2. task'[t] \in {task[t], "deleted"}
    BY <1>2, <2>1 DEF SaveRun, DeleteProject, Gone, Terminal
  <2> QED
    BY <2>2 DEF Gone
<1>3. ASSUME NEW q \in Requests, SaveStatus(q)
      PROVE  Gone(t)'
  <2>1. update[q].task \in Tasks /\ task[update[q].task] \notin Terminal
    BY <1>3, InFlight DEF SaveStatus
  <2>2. run[RunOf[update[q].task]] \notin Missing => task[update[q].task] # "deleted"
    BY <2>1 DEF LifeInv, StatusInv, RowsTogether, Missing
  <2>3. task'[t] = task[t]
    BY <1>3, <2>1, <2>2 DEF SaveStatus, Gone, TypeOK, ScanTypeOK
  <2> QED
    BY <1>1, <2>3
<1>4. CASE UNCHANGED task
  BY <1>1, <1>4
<1>5. \/ \E r \in Runs : SaveRun(r) \/ DeleteProject(r)
      \/ \E q \in Requests : SaveStatus(q)
      \/ UNCHANGED task
  BY DEF Next, UserStep, CreateSchedule, CancelSchedule, DeleteSchedule, StoreSchedules,
     SaveSchedules, Handle, HandlerStep, LoadTask, LoadRun, ApiFault, ApiRestart, Poll, StartUp,
     Sync, RunnerFault, Begin, JobStep, Report, Answer, RunTool, LookUp, Upload, Remove, vars,
     scanVars
<1> QED
  BY <1>2, <1>3, <1>4, <1>5

\* A handler that ends has saved the last report of its task, or found it gone.
LEMMA HandlerEnds ==
    ASSUME TypeOK, OnceInv, LifeInv, NEW q \in Requests, HandlerStep(q),
           update'[q].stage = "idle", update[q].status \in Terminal
    PROVE  task'[update[q].task] \in Terminal \cup {"deleted"}
<1> DEFINE u == update[q]
           r == RunOf[u.task]
<1>1. u.stage # "idle" /\ u \in UpdateRec /\ u.task \in Tasks /\ r \in Runs
  BY HandlerMoves, InFlight DEF TypeOK, ScanTypeOK
<1>2. task[u.task] # "none" /\ run[r] # "none"
  <2>1. u.task \in issued /\ u.task \in TasksOf(r)
    BY <1>1, InFlight DEF TasksOf
  <2> QED
    BY <1>1, <2>1 DEF OnceInv, FreshIds, LifeInv, StatusInv, RowsTogether
<1>3. CASE LoadTask(q)
  <2>1. task[u.task] \in Missing
    BY <1>1, <1>3 DEF LoadTask, UpdateRec, TypeOK, ScanTypeOK
  <2> QED
    BY <1>2, <1>3, <2>1 DEF LoadTask, Missing
<1>4. ASSUME run[r] \in Missing, UNCHANGED task
      PROVE  task'[u.task] \in Terminal \cup {"deleted"}
  BY <1>1, <1>2, <1>4 DEF Missing, LifeInv, StatusInv, RowsTogether
<1>5. CASE LoadRun(q)
  <2>1. run[r] \in Missing
    <3> SUFFICES ASSUME run[r] \notin Missing PROVE FALSE
      OBVIOUS
    <3> DEFINE now == Recompute(TasksOf(r), [task EXCEPT ![u.task] = u.status], run[r])
    <3>1. update'[q] = [u EXCEPT !.stage = "save", !.runWas = run[r], !.runNow = now]
      BY <1>5 DEF LoadRun, TypeOK, ScanTypeOK
    <3> HIDE DEF now
    <3> QED
      BY <1>1, <3>1 DEF UpdateRec
  <2> QED
    BY <1>4, <1>5, <2>1 DEF LoadRun
<1>6. CASE SaveStatus(q)
  <2>1. CASE run[r] \in Missing
    BY <1>4, <1>6, <2>1 DEF SaveStatus
  <2>2. CASE run[r] \notin Missing
    <3>1. u.was = task[u.task]
      BY <1>6, <2>2 DEF SaveStatus, LifeInv, StatusInv, WasStill
    <3>2. task'[u.task] = u.status
      BY <1>1, <1>6, <2>2, <3>1 DEF SaveStatus, TypeOK, ScanTypeOK
    <3>3. task'[u.task] \in Terminal
      BY <3>2
    <3> QED
      BY <3>3
  <2> QED
    BY <2>1, <2>2
<1> QED
  BY <1>3, <1>5, <1>6 DEF HandlerStep

LEMMA DeletesLateStep ==
    ASSUME OnlyTokens, TypeOK, OnceInv, LifeInv, OutliveInv, [Next]_vars
    PROVE  DeletesLate'
<1> SUFFICES ASSUME NEW j \in Jobs, job'[j].sched \in Tasks, Through(j)'
             PROVE  Gone(job[j].sched)' \/ ~token'[job'[j].runner]
  BY DEF DeletesLate
<1>1. ASSUME UNCHANGED <<update, job>>,
             \A r \in Runners : token'[r] => token[r] \/ state[r] = "down"
      PROVE  Gone(job[j].sched)' \/ ~token'[job'[j].runner]
  <2>1. Through(j) /\ job[j].pc # "idle" /\ job[j].runner \in Runners
    BY <1>1 DEF Through, TypeOK, RunnerTypeOK, JobRec
  <2>2. state[job[j].runner] # "down"
    BY <2>1 DEF OutliveInv, DownIsIdle
  <2>3. Gone(job[j].sched) \/ ~token[job[j].runner]
    BY <1>1, <2>1 DEF OutliveInv, DeletesLate
  <2> QED
    BY <1>1, <2>1, <2>2, <2>3, GoneStays DEF Gone
<1>2. ASSUME NEW q \in Requests, Handle(q)
      PROVE  Gone(job[j].sched)' \/ ~token'[job'[j].runner]
  <2>1. job' = job /\ token' = token /\ HandlerStep(q)
    BY <1>2 DEF Handle, runnerVars
  <2>2. CASE Through(j)
    <3>1. Gone(job[j].sched) \/ ~token[job[j].runner]
      BY <2>1, <2>2 DEF OutliveInv, DeletesLate
    <3> QED
      BY <2>1, <3>1, GoneStays DEF Gone
  <2>3. CASE ~Through(j)
    <3>1. /\ job[j].pc = "await" /\ job[j].status # "running" /\ job[j].req \in Requests
          /\ update'[job[j].req].stage = "idle" /\ update[job[j].req].stage # "idle"
      BY <2>1, <2>3 DEF Through, TypeOK, RunnerTypeOK, JobRec
    <3>2. job[j].req = q
      BY <2>1, <3>1, HandlerMoves
    <3>3. PICK k \in Jobs : Awaits(k, q)
      BY <3>1, <3>2, InFlight
    <3>4. j = k
      BY <3>1, <3>2, <3>3 DEF Awaits, LifeInv, JobsInv, ReqsApart
    <3>5. job[j].sched = update[q].task /\ update[q].status \in Terminal
      BY <3>1, <3>3, <3>4 DEF Awaits, Terminal, TypeOK, RunnerTypeOK, JobRec
    <3>6. task'[update[q].task] \in Terminal \cup {"deleted"}
      BY <2>1, <3>1, <3>2, <3>5, HandlerEnds
    <3>7. job'[j].sched = update[q].task
      BY <2>1, <3>5
    <3> QED
      BY <2>1, <3>5, <3>6 DEF Gone
  <2> QED
    BY <2>2, <2>3
<1>3. ASSUME NEW r \in Runners, NEW s \in Schedules, Begin(r, s)
      PROVE  Gone(job[j].sched)' \/ ~token'[job'[j].runner]
  <2>1. PICK k \in Jobs : Fire(r, s, k)
    BY <1>3 DEF Begin
  <2>2. job'[k].pc = "report" /\ \A i \in Jobs \ {k} : job'[i] = job[i]
    BY <2>1 DEF Fire, NoJob, TypeOK, RunnerTypeOK
  <2>3. job'[j] = job[j] /\ update' = update /\ token' = token
    BY <1>3, <2>1, <2>2 DEF Through, Begin, Fire, scanVars
  <2>4. Gone(job[j].sched) \/ ~token[job[j].runner]
    BY <2>3 DEF OutliveInv, DeletesLate, Through
  <2> QED
    BY <2>3, <2>4, GoneStays DEF Gone
<1>4. ASSUME NEW k \in Jobs, JobStep(k)
      PROVE  Gone(job[j].sched)' \/ ~token'[job'[j].runner]
  <2>1. /\ \A i \in Jobs \ {k} : job'[i] = job[i]
        /\ UNCHANGED <<task, token>>
        /\ Reports(k) \/ (GoesOn(k) /\ DeletesLast(k))
    BY <1>4, JobMoves DEF OnlyTokens, NoOvertaking
  <2>2. \A p \in Requests : update'[p].stage = "idle" => update[p].stage = "idle"
    <3>1. update \in [Requests -> UpdateRec]
      BY DEF TypeOK, ScanTypeOK
    <3> QED
      BY <2>1, <3>1 DEF Reports, GoesOn, BeginUpdate
  <2>3. CASE Through(j) /\ job'[j].sched = job[j].sched /\ job'[j].runner = job[j].runner
    BY <2>1, <2>3 DEF OutliveInv, DeletesLate, Gone
  <2>4. CASE j # k
    <3>1. job'[j] = job[j] /\ job[j].req \in Requests
      BY <2>1, <2>4 DEF TypeOK, RunnerTypeOK, JobRec
    <3> QED
      BY <2>2, <2>3, <3>1 DEF Through
  <2>5. CASE j = k /\ Reports(k)
    <3>1. PICK q \in Requests : BeginUpdate(q, job[j].sched, job[j].status) /\ Await(j, q)
      BY <2>5 DEF Reports
    <3>2. job'[j].pc = "await" /\ job'[j].req = q
      BY <3>1, JobGoes
    <3>3. update'[q].stage = "load"
      BY <3>1 DEF BeginUpdate, TypeOK, ScanTypeOK, UpdateRec
    <3> QED
      BY <3>2, <3>3 DEF Through
  <2>6. CASE j = k /\ GoesOn(k) /\ DeletesLast(k)
    <3>1. job'[j].pc = "delete"
      BY <2>6 DEF GoesOn, Through
    <3>2. job'[j].sched = job[j].sched /\ job'[j].runner = job[j].runner
      BY <2>6, <3>1 DEF GoesOn, Stays
    <3>3. Through(j) \/ ~token[job[j].runner]
      BY <2>6, <3>1, <3>2 DEF DeletesLast, OnlyTokens
    <3> QED
      BY <2>1, <2>3, <3>2, <3>3
  <2> QED
    BY <2>1, <2>4, <2>5, <2>6
<1>5. CASE UserStep \/ (\E s \in Schedules : CancelSchedule(s))
           \/ (\E r \in Runs : StoreSchedules(r)) \/ UNCHANGED vars
  <2>1. UNCHANGED <<update, job, token>>
    BY <1>5 DEF UserStep, SaveRun, CreateSchedule, DeleteProject, CancelSchedule,
       DeleteSchedule, StoreSchedules, SaveSchedules, vars, scanVars, runnerVars
  <2> QED
    BY <1>1, <2>1
<1>6. ASSUME NEW r \in Runners, Poll(r) \/ StartUp(r) \/ Sync(r) \/ RunnerFault(r)
      PROVE  Gone(job[j].sched)' \/ ~token'[job'[j].runner]
  <2>1. ~Fault("crash")
    BY DEF Fault, OnlyTokens
  <2>2. UNCHANGED <<update, job>>
    BY <1>6, <2>1 DEF Poll, StartUp, Sync, RunnerFault, Fetch, FetchFails, Boot, Reconcile,
       scanVars
  <2>3. \A v \in Runners : token'[v] => token[v] \/ state[v] = "down"
    BY <1>6, <2>1 DEF Poll, StartUp, Sync, RunnerFault, Fetch, FetchFails, Boot, Reconcile,
       TypeOK, RunnerTypeOK
  <2> QED
    BY <1>1, <2>2, <2>3
<1>7. ~ApiFault
  BY DEF ApiFault, Fault, OnlyTokens
<1> QED
  BY <1>2, <1>3, <1>4, <1>5, <1>6, <1>7 DEF Next

LEMMA DownStep ==
    ASSUME OnlyTokens, TypeOK, OutliveInv, [Next]_vars
    PROVE  DownIsIdle'
<1>1. ASSUME UNCHANGED <<timers, job>>, \A r \in Runners : state'[r] = "down" => state[r] = "down"
      PROVE  DownIsIdle'
  BY <1>1 DEF OutliveInv, DownIsIdle
<1>2. ASSUME NEW r \in Runners, Sync(r)
      PROVE  DownIsIdle'
  <2>1. /\ state'[r] = "waiting" /\ job' = job
        /\ \A v \in Runners \ {r} : state'[v] = state[v] /\ timers'[v] = timers[v]
    BY <1>2 DEF Sync, Reconcile, TypeOK, RunnerTypeOK
  <2> QED
    BY <2>1 DEF OutliveInv, DownIsIdle
<1>3. ASSUME NEW r \in Runners, Poll(r) \/ StartUp(r) \/ RunnerFault(r)
      PROVE  DownIsIdle'
  <2>1. ~Fault("crash")
    BY DEF Fault, OnlyTokens
  <2>2. UNCHANGED <<timers, job>>
    BY <1>3, <2>1 DEF Poll, StartUp, RunnerFault, Fetch, FetchFails, Boot
  <2>3. \A v \in Runners : state'[v] = "down" => state[v] = "down"
    BY <1>3, <2>1 DEF Poll, StartUp, RunnerFault, Fetch, FetchFails, Boot, TypeOK, RunnerTypeOK
  <2> QED
    BY <1>1, <2>2, <2>3
<1>4. ASSUME NEW r \in Runners, NEW s \in Schedules, Begin(r, s)
      PROVE  DownIsIdle'
  <2>1. PICK k \in Jobs : Fire(r, s, k)
    BY <1>4 DEF Begin
  <2>2. /\ job'[k].runner = r /\ \A i \in Jobs \ {k} : job'[i] = job[i]
        /\ state' = state /\ s \in timers[r]
        /\ \A v \in Runners : timers'[v] \subseteq timers[v]
    BY <2>1 DEF Fire, NoJob, TypeOK, RunnerTypeOK
  <2>3. state[r] # "down"
    BY <2>2 DEF OutliveInv, DownIsIdle
  <2> QED
    BY <2>2, <2>3 DEF OutliveInv, DownIsIdle
<1>5. ASSUME NEW k \in Jobs, JobStep(k)
      PROVE  DownIsIdle'
  <2>1. /\ \A i \in Jobs \ {k} : job'[i] = job[i]
        /\ job[k].pc # "idle" /\ (Reports(k) \/ GoesOn(k))
    BY <1>5, JobMoves DEF OnlyTokens, NoOvertaking
  <2>2. job'[k].pc # "idle" => job'[k].runner = job[k].runner
    BY <2>1, JobGoes DEF Reports, GoesOn, Stays
  <2>3. UNCHANGED <<state, timers>>
    BY <1>5 DEF JobStep, Report, Answer, RunTool, LookUp, Upload, Remove, Execute, ReadOutput,
       JobUnchanged
  <2>4. job[k].pc # "idle"
    BY <1>5, JobMoves DEF OnlyTokens, NoOvertaking
  <2> QED
    BY <2>1, <2>2, <2>3, <2>4 DEF OutliveInv, DownIsIdle
<1>6. CASE UserStep \/ (\E s \in Schedules : CancelSchedule(s))
           \/ (\E r \in Runs : StoreSchedules(r)) \/ (\E q \in Requests : Handle(q))
           \/ ApiFault \/ UNCHANGED vars
  BY <1>1, <1>6 DEF UserStep, CancelSchedule, StoreSchedules, Handle, ApiFault, vars, runnerVars
<1> QED
  BY <1>2, <1>3, <1>4, <1>5, <1>6 DEF Next

LEMMA OutlivesStep ==
    ASSUME OnlyTokens, TypeOK, LifeInv, OutliveInv, [Next]_vars
    PROVE  ScheduleOutlivesTask'
<1> SUFFICES ASSUME NEW t \in Tasks, t \in issued', t \notin schedules', t \notin cancelled'
             PROVE  Gone(t)'
  BY DEF ScheduleOutlivesTask, Gone
<1>1. CASE t \in issued /\ t \notin schedules /\ t \notin cancelled
  <2>1. Gone(t)
    BY <1>1 DEF OutliveInv, ScheduleOutlivesTask, Gone
  <2> QED
    BY <2>1, GoneStays
<1>2. CASE UNCHANGED <<issued, schedules>> /\ cancelled \subseteq cancelled'
  BY <1>1, <1>2
<1>3. CASE UserStep \/ (\E s \in Schedules : CancelSchedule(s))
           \/ (\E r \in Runs : StoreSchedules(r))
  BY <1>1, <1>3 DEF UserStep, SaveRun, CreateSchedule, DeleteProject, CancelSchedule,
     DeleteSchedule, StoreSchedules, SaveSchedules
<1>4. ASSUME NEW k \in Jobs, JobStep(k)
      PROVE  Gone(t)'
  <2>1. CASE UNCHANGED <<issued, schedules>>
    BY <1>2, <1>4, <2>1, JobMoves DEF OnlyTokens, NoOvertaking
  <2>2. CASE Remove(k) /\ CallSucceeds(job[k].runner) /\ DeleteSchedule(job[k].sched)
    <3>1. Through(k) /\ token[job[k].runner]
      BY <2>2 DEF Remove, CallSucceeds, Through
    <3>2. t = job[k].sched => Gone(t)
      BY <3>1 DEF OutliveInv, DeletesLate
    <3>3. t # job[k].sched => t \in issued /\ t \notin schedules /\ t \notin cancelled
      BY <2>2 DEF Remove, DeleteSchedule
    <3> QED
      BY <1>1, <3>2, <3>3, GoneStays
  <2> QED
    BY <1>4, <2>1, <2>2 DEF JobStep, Report, Answer, RunTool, LookUp, Upload, Remove, scanVars
<1>5. CASE \/ \E q \in Requests : Handle(q)
           \/ ApiFault
           \/ \E r \in Runners : Poll(r) \/ StartUp(r) \/ Sync(r) \/ RunnerFault(r)
           \/ \E r \in Runners, s \in Schedules : Begin(r, s)
           \/ UNCHANGED vars
  BY <1>2, <1>5, HandlerMoves DEF Handle, ApiFault, ApiRestart, Poll, StartUp, Sync, RunnerFault,
     Begin, vars, scanVars
<1> QED
  BY <1>3, <1>4, <1>5 DEF Next

\* With one runner and no fault but an expiring token, the schedule of a task is
\* only deleted once the API has saved how the task ended, unless its user
\* deleted it.
THEOREM ScheduleOutlives ==
    ASSUME OneRunner, OnlyTokens
    PROVE  Spec => []ScheduleOutlivesTask
<1>1. NoOvertaking
  BY DEF OnlyTokens, NoOvertaking
<1>2. TypeOK /\ OnceInv /\ LifeInv /\ [Next]_vars => LifeInv'
  BY <1>1, LifeStep
<1>3. TypeOK /\ OnceInv /\ LifeInv /\ OutliveInv /\ [Next]_vars => OutliveInv'
  BY DeletesLateStep, DownStep, OutlivesStep DEF OutliveInv
<1>4. OutliveInv => ScheduleOutlivesTask
  BY DEF OutliveInv
<1> QED
  BY <1>2, <1>3, <1>4, InitLife, InitOutlive, InitType, StepType, InitOnce, StepOnce, PTL
     DEF Spec
===============================================================================
