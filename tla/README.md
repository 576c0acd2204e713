# Reconmap: TLA+ models and proofs

Reconmap is a platform for security assessments. Users start tools ("commands")
from a dashboard; an API server keeps projects, assets, findings, scans and
reports in PostgreSQL; runner processes (`reconmapd`) on other machines execute
the tools and hand their output back; background services inside the API turn
outputs into findings, generate and mail reports and push events to other
systems. Most of its correctness lies between these parts: a table that two
processes write, a queue that delivers again, a file and its row that are
written one after the other, a cache in the browser that knows nothing of what
its own tab has just changed.

This directory holds TLA+ modules for those parts, TLC runs that check them on
small instances, and TLAPS proofs of the properties that matter most. Every
definition is translated from the source; `PROJECT.json` names the lines of
each, the mutants that break each property, the hazards of the code and the
theorems.

Paths below are relative to the repository's `src/`: `Api/` is
`src/server/Api/`, `runner/` is `src/runner/`, `dashboard/` is
`src/dashboard/src/`.

## 1. The system

### 1.1 Components and their state

| Component | State it keeps | Operations |
|---|---|---|
| Scan runs and schedules (`Api/Controllers/ScanRunsController.cs`, `CommandSchedulesController.cs`, `Domain/Entities/ScanRun.cs`) | tables `scan_run`, `scan_run_task`, `command_schedule` | create a scan (two transactions), update a task's status, list, create and delete schedules |
| Runner schedule executor (`runner/internal/app.go`, `shared-lib`) | `activeScheduleIds`, gocron jobs, one goroutine per execution, files in the working directory, an access token read once | poll and reconcile every minute, execute, upload, report, delete "once" schedules |
| Message queue client (`Api/Infrastructure/Messaging/RabbitMQMessageQueue.cs`) | one connection, one channel, the deliveries not yet acknowledged | open the connection, publish, subscribe, acknowledge, refuse |
| Webhook, Jira and Azure DevOps publishers (`Api/Application/Services/*Publisher.cs`) | none but their queue | one push per enabled integration |
| Command result processing (`CommandResultProcessor.cs`, `AssetUpsertService.cs`) | tables `asset`, `finding`, `notification`; an EF context shared by both classes | parse, upsert the tree of assets, deduplicate and add findings, notify |
| Reports (`ReportsController.cs`, `ReportGenerationProcessor.cs`, `ReportEmailProcessor.cs`) | tables `report`, `attachment`, `notification`; files in the attachment storage | create, generate, send, delete |
| Notifications and browser streams (`NotificationQueueListener.cs`, `SseConnectionManager.cs`, dashboard `SseContext.tsx`) | open streams of each user; the browser's connection and token | broadcast, connect, reconnect |
| Users and Keycloak (`UsersController.cs`, `KeycloakUserDirectory.cs`, `RedisKeycloakUserCache.cs`) | users in two stores, a cache with a time to live of 60 s | create, update, delete, change role, require a second factor |
| Dashboard (`dashboard/App.tsx`, `api/`, `pages/`, `components/`) | the query cache of a tab, the open page, requests in flight, messages, disabled buttons | about a hundred handlers that change records, a hundred queries that show them, navigation |
| Access control (`src/policy/authz.rego`, `RequestAccessScope`, `ReadOnlyScopeMiddleware`, `ApiTokenHandler`) | nothing beyond a request | decide |
| Runner registry, terminal, notifications | presence times; a pty per terminal; a popped list | ping, open, resize, close |
| Vault, attachments, settings, AI, catalogue and parsers, data import, MCP, CLI (their API side) | rows and files | mostly one statement per request |

`PROJECT.json` lists all of them under `components`, with what is not modelled
and why.

### 1.2 How they interact

    dashboard --HTTP--> API controllers ----SQL----> PostgreSQL
                          |    ^                        ^
                    queues|    |poll, report, upload    |SQL
                          v    |                        |
       RabbitMQ       runners -+          background services (same process)
          |                                             ^
          +---------------- one channel ----------------+
          |
          +--> notifications --> SSE streams --> dashboard

| Queue | Published by | Consumed by |
|---|---|---|
| `tasks` | `CommandsController` (upload of an output) | `CommandResultProcessor` |
| `findings` | `FindingsController` | `JiraPublisher` **and** `AzureDevopsPublisher`, which compete |
| `webhooks` | `ProjectsController`, `FindingsController` | `WebhookPublisher` |
| `report-generation` | `ReportsController.Create` | `ReportGenerationProcessor` |
| `report-emails` | `ReportsController.Send` | `ReportEmailProcessor` |
| `notifications` | the processors | `NotificationQueueListener`, then every stream |

All consumers hang on one channel with a prefetch of one per consumer, and the
client library runs the callbacks of a channel one at a time.

### 1.3 What is hard, and what must hold

* **Two updates of one scan.** The status handler reads, computes and writes
  without a lock; Entity Framework writes only the columns that changed. A run
  that says it ended must have ended that way. (`TerminalRunIsDerived`; that it
  *says* so when it ended is what the code does not achieve.)
* **Polls that are stale.** A list of schedules may be older than the runner's
  own deletion of one of them, and a deletion may fail. A "once" schedule must
  not start twice in a boot. (`OncePerBoot`)
* **Results against rows.** A task succeeds only after its output was accepted;
  its schedule is deleted only after its result was stored; every task ends.
  (`SucceededHasOutput`, `ScheduleOutlivesTask`, `TaskSettles`,
  `ImplementsLifecycle`)
* **Files shared by jobs.** Jobs run side by side in one directory, a recurring
  one also beside itself, and several usages write the same file: those of
  trivy, semgrep and gosec all write `results.sarif`. What is uploaded must not
  be what an earlier or a failed execution left. (`OwnOutput`)
* **Redelivery.** Nothing is lost, only a lost connection repeats a handler,
  order is kept within a queue, and a handler that runs again changes nothing
  that it did already. (`NothingLost`, `RepeatsNeedLosses`, `InOrder`,
  `Handled`, `NoDuplicates`, `AnnouncedOnce`)
* **Failures that are swallowed.** The processor of outputs catches whatever
  goes wrong in two of its database calls, the cancellation of a stopping API
  among it, and acknowledges the job. Nothing else may be missing then.
  (`OutputStored`, `JobProcessed`)
* **Everybody connects at once.** The services and the requests share one
  connection, opened under a lock. (`OneConnection`, `ChannelOnConnection`,
  `CallsEnd`)
* **A failure in the middle of a loop.** One integration that is down must not
  keep events from the others. (`SentEverywhere`)
* **Two stores of users.** Keycloak and the user table are written one after
  the other, without a transaction, and the role groups one by one; Redis keeps
  what was read. (`InStep`, `RoleIsMirrored`, `CacheIsCurrent`,
  `KeepsPromises`)
* **What a tab shows after its own write.** A handler has to know every query
  that shows what it changed; a refresh meets other fetches; the user has gone
  elsewhere when the answer comes; an error answer does not reject the promise.
  (`OwnWritesShown`, `RefreshedIsShown`, `RefreshCompletes`, `SaysTruly`,
  `StaysPut`, `ButtonsFreed`)
* **Files against rows.** An attachment that is listed has a file; whoever is
  told that a mail went out had it sent; every request is answered.
  (`AttachmentsHaveFiles`, `AnsweredTruly`, `GeneratedIsSendable`,
  `MailAnswered`, `ReportGenerated`)

## 2. The modules

    ScanRuns <-- Runner <-- ScanPipeline <-- MCScanPipeline
                                ^  \- INSTANCE ScanLifecycle (abstract)
                                \---- ScanPipelineProofs <-- ScanLifecycleProofs
    MessageQueue <-- Integrations <-- MCIntegrations, IntegrationsProofs
                          ^--------------\
    QueueConnection <-- Messaging <-- MCMessaging (EXTENDS MCIntegrations' sets)
            ^-- QueueConnectionProofs
    CommandResults <-- MCCommandResults, CommandResultsProofs
    Reports <-- MCReports, ReportsProofs
    UserDirectory <-- MCUserDirectory, UserDirectoryProofs
    ApiClient <-- PageParts <-- PagesOfWork <-- PagesOfSystem <-- Dashboard
                                             Browser <---------------/  ^
                                                        DashboardProofs-/

An operator whose comment begins with "Mutant of" is a variant of the
definition after it, as a plausible bug would have it; no specification uses
it.

### 2.1 ScanRuns: the API's side of a scan

State: `run` and `task` (the status of each row, or why there is no row),
`schedules` (rows of `command_schedule`), `issued` (all ids the table ever
gave out: they are SERIAL and never come back), `creating` (requests between
the two `SaveChanges` of `CreateOne`), `update` (status updates in flight). A
schedule made for a scan task is identified with the task.

| Action | Code |
|---|---|
| `SaveRun`, `SaveSchedules` | `ScanRunsController.CreateOne`, first and second `SaveChangesAsync` |
| `CreateSchedule`, `DeleteSchedule` | `CommandSchedulesController.CreateOne`, `DeleteOne` |
| `DeleteProject` | the cascades of the schema: runs and tasks go, schedules stay with no project |
| `BeginUpdate`, `LoadTask`, `LoadRun`, `SaveStatus` | `UpdateTaskStatus`, split at each await on the database |
| `Recompute` | `ScanRun.RecomputeStatus` |
| `ApiRestart` | the process ends between two awaits |

`LoadRun` shows the handler's own task with the status it has in memory (the
change tracker returns the tracked entity) and the others as committed.
`SaveStatus` writes the task's and the run's status only if they differ from
what was loaded; a row that was deleted meanwhile makes the whole save fail.

### 2.2 Runner: one `reconmapd` process

State: `state` of the poll loop, `token`, `polled` (the last answer), `active`
(`activeScheduleIds`), `timers` (gocron jobs that can still fire), `starts`
(history: starts per boot), `orphans` (active schedules that were listed
without a project: their jobs upload nothing), `job` (goroutines and where they
are), `files` (whose output each file of the directory holds), `disputed`
(history: goroutines that may find another's output in their file, because the
tools of two that write it ran at the same time, or because a tool ended well
without writing it).

| Action | Code in `app.go` |
|---|---|
| `Boot` | `Run`: the access token is read once |
| `Fetch`, `FetchFails`, `Reconcile` | the poll, `reconcileSchedules` |
| `Fire` | gocron starts `runSchedule`; a cron job may start beside its previous execution |
| `Await`, `AfterReport`, `Finish` | `reportStatus` and where `runSchedule` goes on |
| `Execute`, `Output`, `ReadOutput` | `executeSchedule`, `uploadScheduleOutput` up to the upload |
| `Crash` | the process dies, its directory stays |

A "deaf" runner is one whose first GET failed: `setupSchedules` is then never
called and nothing polls again although the process stays up.

### 2.3 ScanPipeline: users, API, runners and faults

Joins each call of a runner to what it does at the API. Kinds of faults are a
constant (`FaultKinds`) with one bound (`MaxFaults`):

| Fault | What happens |
|---|---|
| `call` | a call fails; for an upload also: it succeeds and its answer is lost |
| `abandon` | the runner gives up on a report that the API goes on to process |
| `api` | the API restarts |
| `crash` | a runner dies |
| `token` | a runner's token is refused from now on (`accessTokenLifespan` is 1800 s and nothing renews it) |

### 2.4 ScanLifecycle: what a scan promises

The abstract specification: tasks go from queued over running to succeeded or
failed and never back, and succeed only after their output was handed in.
`ScanPipeline` implements it under the mapping `status <- task`, `delivered <-`
the tasks with an accepted output (`ImplementsLifecycle`). This holds for one
runner with failed calls, API restarts and an expired token, and is proved for
them (`ScansKeepTheirPromise`). It does **not** hold when a report is abandoned,
a runner restarts or two runners share the schedules: a late or second "running" then follows a result. The code promises
nothing for these cases, so the runs with such faults check the weaker
properties only.

### 2.5 MessageQueue and Integrations

`MessageQueue` models the channel that all consumers share, with an external
broker, which keeps the messages of a queue in the order they were published
(`Ahead`, `First`) and returns a refused one to its place. State: `log`
(publications in order), `ready`, `unacked` (what each
consumer holds), `work` (deliveries the dispatcher has yet to run), `current`
(the callback that runs), `strays` (callbacks whose channel was lost and which
go on), `times` (history: handlers run to the end).

| Action | Code in `RabbitMQMessageQueue.cs` |
|---|---|
| `Publish` | `PublishAsync` |
| `Deliver` | `BasicConsumeAsync` with `prefetchCount: 1`; the broker returns refused messages to their place |
| `Dispatch` | the callback begins; a body that does not deserialize leaves it before the `try`, so the message is neither acknowledged nor refused |
| `Complete`, `Ack` | the handler returns; `BasicAckAsync` |
| `Refuse` | the handler throws; `BasicNackAsync(requeue: true)` |
| `Lose`, `StrayEnds`, `StrayThrows` | connection recovery or restart; a callback that outlives its channel and then returns or throws |

`Integrations` puts the publishers on it: `Push` is the loop over the enabled
integrations, `Unwanted` the webhook's event filter, `Unreachable` those that
fail, whose exceptions are caught one by one.

### 2.6 QueueConnection

`EnsureConnectionAsync` at the grain of its reads: check, wait for the
semaphore, check again, create the connection, create the channel, each of the
last two possibly failing. The callers are of two kinds. A hosted service
calls once, from `SubscribeAsync`, and an exception there ends the service and
with it the host: nothing brings it back but a restart of the API (`Restart`),
which somebody may or may not do. A request that could not publish is over;
another one may come (`Return`). Neither is fair. `Messaging` composes this
with the queues: services take deliveries once all of them have subscribed, and
messages are published once a request has the channel.

### 2.7 CommandResults

`CommandResultProcessor` at the grain of its database accesses, with
`AssetUpsertService` on the same context: `SaveAsset` writes the asset *and*
whatever findings the context holds. State: `project`, `assets`, `rows` (how
many findings are open and closed, by asset and summary), `queue` and `holder`
(the queue of `MessageQueue` seen by one consumer), `work` (handlers, including
those a lost connection left behind), `dropped` (what the broker's handler gave
up without an exception), `notices`, and `opened` (what users created or opened
again).

| Action | Code |
|---|---|
| `Upload`, `Deliver`, `Ack`, `Free` | the queue |
| `Parse` | usage, storage and parser; an exception sends the job back |
| `FindAsset`, `SaveAsset` | one node of the tree, or the asset of a finding, in `UpsertAsync`; in the tree an exception is caught at `CommandResultProcessor.cs:44` (`Abandon`), among the findings it leaves the handler |
| `Announce`, `Report`, `Publish` | the two notifications and the message to browsers |
| `Check`, `AddFinding` | `IsDuplicateFinding` and `Add`; the AI calls between them have their errors swallowed |
| `Flush` | the last `SaveChanges`, with the catch at `:128` |
| `CreateFinding`, `CloseFinding`, `ReopenFinding`, `CreateAsset`, `DeleteProject` | users |
| `Stop`, `Exit` | the API is told to stop and then ends; `Stop` directly followed by `Exit` is a crash |
| `Lose` | the connection is lost under a handler |

Every database call can break for a reason of its own (`Breaks`, with or
without having saved), besides what constraints refuse. From `Stop` to `Exit`
each call that is given the stopping token fails, and the handler goes on as
its catches let it; `Check` and `Publish` do not pass the token and still work.

### 2.8 Reports

Controller and both processors, again at each access. `files` and
`attachments` are separate, because the storage is outside the database.
`holder` is one for both queues: one handler runs at a time, beside strays.

### 2.9 UserDirectory: an account, a row and a cache

State, for one user: `account` (Keycloak's user with his role groups), `row`
(the role in table `user`), `cache` (what Redis holds), `req` (requests and how
far they are), and three history variables: `collided` (two writing requests
overlapped), `broken` (what interruptions left undone and nothing has
repaired), `promised` (what the writes that got through asked for). A profile
is named by the request that wrote it.

| Action | Code |
|---|---|
| `CreateOne`, `PatchOne`, `ExecuteAction`, `DeleteOne` | the handlers of `UsersController` up to their first call; `FindAsync` reads `row` |
| `Post`, `Lookup`, `GetRepresentation`, `PutRepresentation`, `ReadGroups`, `Leave`, `Join`, `Drop` | the calls of `KeycloakUserDirectory`, in their order |
| `Evict`, `Store`, `Expire` | `RedisKeycloakUserCache`, whose errors are logged and forgotten, and the time to live |
| `Insert`, `InsertFails`, `Save`, `Remove` | `SaveChangesAsync` of each handler; a failed insert deletes the account again |
| `GetManyAsync`, `Fetch` | any response with the user in it, through `KeycloakUserEnrichmentFilter` |
| `NotFound`, `Interrupted` | Keycloak's 404 and a row that is gone; any other failure, and the end of the process, at any step |

`Save` writes the role as found when the body has none: `Users.Update` marks
every column. A user created again has another subject id, so one creation is
enough.

### 2.10 The dashboard

The dashboard is modelled as a catalogue and a machine that runs it.

* `ApiClient` is `dashboard/api`: every query with its key and the records it
  shows, every request with what the API's route answers (201, 204, JSON or no
  route at all), every mutation hook with the keys it invalidates.
* `PageParts` says how a component is written down: the queries it subscribes
  to, its handlers, and the components on it. A handler is a record: the
  confirmation it asks for, its request, what it needs of the answer, what it
  then does (invalidate, refetch, navigate, show a message, free its button),
  and what happens to it when its component goes.
* `PagesOfWork` and `PagesOfSystem` are the pages, one definition per
  component, and `PageOf` the routes of `App.tsx`: 54 pages with 94 handlers
  and 76 queries. An administrator sees all of it.
* `Browser` is the tab. State: `op` and `probe` (a handler and a query of the
  catalogue), `place`, `view` (data, mark, error, fetches in flight), `stage`
  and `outcome` of the request, `told`, `busy`, and history.
* `Dashboard` joins the two and states the properties that hold of this
  catalogue, with the handlers they do not hold of.

| Action of `Browser` | What it is |
|---|---|
| `Click`, `Confirm`, `Decline`, `Cancel`, `Visit` | the user; a page change unmounts, cancels, drops dialogs and callbacks |
| `Apply`, `Answer`, `Refuse`, `Lose` | the API carries the request out; its answer, an error answer, a lost connection |
| `GivenUp` (in `Visit`) | the clean-up of an effect aborts the request of a component that goes |
| `FetchReads`, `FetchArrives`, `FetchFails` | a fetch in flight, which reads when the API serves it and not when it is sent |
| `LateReads`, `LateArrives` | an earlier fetch that a component started without a signal |
| `Age`, `Focus`, `Collect` | `staleTime`, `refetchOnWindowFocus`, `gcTime` |

One handler and one query at a time are enough: handlers share no state but the
API's records and the cache, invalidation is per query, and a message or a
button belongs to its handler. `Init` chooses both freely, so a run covers
every pair. `pages` keeps one page of each kind the pair can tell apart, which
loses nothing because `Browser` only asks a page whether it offers the handler
and shows the query. A lost request is not carried out later.

TanStack Query and React Router are external and modelled as version 5 of the
first behaves: an invalidation restarts a fetch but not the first one;
unmounting cancels a fetch (every `queryFn` takes the signal) and puts the
state back, mark included.

## 3. The runs

Each run asks one question of the system; the properties it checks are listed
in `PROJECT.json`. Where a question has several answers at the same bounds they
share a run. `TypeOK` is each module's type invariant; that of
`QueueConnection`, `ConnectionTypeOK`, is part of a proved invariant and of no
run.

| Run | What it shows | Bounds, and why they are enough |
|---|---|---|
| `scan_lifecycle` | tasks only move forward; a run that says it ended ended that way (`TerminalRunIsDerived`, `ImplementsLifecycle`) | one run of two tasks (a race needs two), two handlers, one runner with two goroutines, two faults of kind call, api or token, deletion of project and schedule |
| `scan_live` | every task ends; schedules outlive their tasks; uploads carry their own tool's output (`TaskSettles`, `ScheduleOutlivesTask`, `OwnOutput`) | one task beside a recurring schedule that fires twice, so that it can overlap the task and itself; both write `results.sarif`; two goroutines, one expiry of the token, under fairness |
| `scan_faults` | `OncePerBoot`, `SucceededHasOutput` under every kind of fault | two runners, one task, a schedule whose cron expression is refused, two goroutines, two faults; one status handler, so reports overtake each other only in the runs with two |
| `scan_race` | **violated**: `RunStatusIsDerived` | two tasks, two handlers, no fault |
| `queues` | one connection, in use by all, and no call that waits for ever (`OneConnection`, `ChannelOnConnection`, `CallsEnd`); nothing lost, bounded repetition, order, complete pushes, every message handled | three callers, two services and a publisher (one holds the lock, one waits, one checks), two failures to connect, restarts after them; two queues, three messages of which one does not decode, two refusals, two losses; three webhooks of which one is down and one filters |
| `integrations_findings` | **violated**: `SentEverywhere` for Jira and Azure DevOps | two findings, two services, no fault |
| `results_scans` | complete and unrepeated results (`OutputStored`, `NoDuplicates`, `AnnouncedOnce`), and a queue that drains (`JobProcessed`) | a scan of two hosts and a re-scan that finds the same again, listed twice in its output; two handlers, one edit of any kind, deletion of the project, and one fault: a stop, a crash, a lost connection or any call that fails |
| `results_poison` | **violated**: `OutputProcessed` | two outputs, one edit, no fault |
| `reports_faults` | attachments have files, users are told the truth, requests are answered | one good and one bad template, one mail, two handlers, two faults of all six kinds |
| `reports_twice` | **violated**: `AlwaysSendable` | one report, one restart |
| `users` | account and row exist together; role and group agree; the cache is current; no write takes back another | three requests: two that race and a third that finds what they left, or a reader beside both; two roles, so that a change leaves one and joins another |
| `dashboard` | writes are shown, refreshes end, messages are true, users are left where they are, buttons come back | every handler with every query that shows its records; one use of the handler, any number of page changes, fetches, failures, focus events |

Deadlock checking is off where the system may stop: everything published is
handled, every report served, every request on a user made, or the only runner
is deaf. `Messaging` lets all callers connect before the queues move; the two
share no variable, so this only leaves out interleavings that commute.

Some properties hold only of some histories, and say so: `edits = 0` and
`project` (nobody but the processor wrote the tables), `losses = 0` (no second
handler ran), `errors = 0`, `~interrupted`, `faults = 0`. In each case the code
makes no claim for the others, and a run reaches them all the same.
`AttachmentsHaveFiles` needs no such condition at all.

`OutputStored` is conditional in a way of its own. It holds through every
fault, but excuses what the handler that acknowledged the job gave up at one of
the two catches, by part (`dropped`): a failure there really does lose rows
(section 4). What it says is that nothing else does. `NoneLeftBehind` takes out
one more history, of two faults at least, in which the loss spreads to a later
job (section 4 again); the run with one fault does not reach it, smaller
instances with two did, and the theorem needs it.

`NoDuplicates` gives the exact bound instead of "at most one": as many rows as
one output lists the finding. `OwnOutput` excuses an execution whose file two
tools wrote at the same time, against which `runners.md:35` warns, and one whose
tool wrote no file and still ended well: it is then given what lies there.

The properties of `UserDirectory` are conditional in the same way. `InStep`
holds however requests overlap, until one is interrupted between the two
stores. `RoleIsMirrored` and `KeepsPromises` need requests that do not overlap
(`~collided`); an interrupted change of role is repaired by the next one, which
is why `broken` can shrink. `CacheIsCurrent` excuses a failed eviction and a
reader that stores what it had read before the write, both for at most the
time to live.

`Dashboard` names the handlers a property does not hold of, in four sets
(`Forgetful`, `TellsBlindly`, `Abducts` and two single handlers). The sets are
not bounds: they were found by running the property without them, and every
handler outside is checked. Most of their members are the findings of section
4.

### 3.1 Fairness

Users owe nothing: their actions are never fair.

* `ScanPipeline`: weak fairness of request handlers, of the poll loop (a
  ticker), of gocron's starts and of each goroutine. A handler or goroutine
  that is scheduled continues; nothing in them waits on another party except
  through a call that returns or times out.
* `MessageQueue`: the broker delivers to a consumer with a free prefetch slot,
  the dispatcher loop runs, a handler ends (returns or throws) and the
  acknowledgement is written. Handlers that never end are outside this
  assumption; `SseConnectionManager.BroadcastAsync` is the one that may not
  (hazard at its line 39).
* `QueueConnection`: a call goes on, and `SemaphoreSlim` wakes its waiters,
  hence strong fairness of taking the lock. Nothing is assumed of later
  requests or of restarts, so what is promised is only that a call ends
  (`CallsEnd`), not that somebody gets the connection in the end.
* `CommandResults`: as for the queue, and an API that was told to stop exits.
  Retries of one job do not starve others by unfairness: the job goes back to
  the head, as the broker puts it.
* `Reports`: strong fairness per queue, because both queues compete for the one
  dispatcher, which takes deliveries in the order they arrive.
* `Browser`: weak fairness of the request (it is carried out, answered, refused
  or lost) and of the fetch in flight: a connection ends, one way or another.
  Nothing is assumed of the user; `RefreshCompletes` excuses one who changes
  pages for ever, each time cancelling the fetch.
* `UserDirectory` has no liveness property: its handlers end or are
  interrupted, and nothing retries them.

## 4. Findings

1. **A run can say "running" for ever** (`scan_race`). Two tasks end at the
   same time; each handler computes the run's status from the sibling's old row
   and neither sees the other. `ScanRun.cs:39`: "Derives the run status from
   the statuses of its tasks."
2. **Jira and Azure DevOps share findings** (`integrations_findings`). They
   consume one queue, so each finding reaches one of them.
   `integrations.md:41,57` promise every finding to each.
3. **One output can block all later ones** (`results_poison`). A user closes a
   finding; a later scan finds it again before another asset's finding. The
   pending row violates the unique constraint in the asset's `SaveChanges`,
   outside of any catch; the job is requeued at the head and fails for ever.
4. **A report generated twice cannot be sent** (`reports_twice`). The job is
   acknowledged after the attachment is stored and is not idempotent; with two
   attachments `SingleOrDefaultAsync` throws in `Send` and in the processor.
Observed on the way, without a run of their own:

* Two runners both execute every "once" schedule (`scan_faults` reaches it;
  `OncePerBoot` is per runner for that reason).
* The output is uploaded before the result is reported; `runners.md:35`
  describes the opposite order.
* When the token expires a runner stays up and does nothing useful
  (`app.go:329`).
* The catches at `CommandResultProcessor.cs:44` and `:128` take every exception:
  a constraint, a database that is away for a moment, the cancellation of a
  stopping API. The rest of the tree, or the batch of findings, is then missing
  although the job is acknowledged; a findings batch that was dropped is
  announced all the same if the next save works. A constraint does it without
  any fault: a closed finding found again in a batch without a later asset, or
  an asset that a user creates between query and insert.
* A handler that lost its connection runs on beside the one its job is delivered
  to again. If the latter gives its findings up and acknowledges, the former
  may still store them, while a later job is about to: the constraint then
  refuses the later job's transaction, and its findings are lost with it
  (`NoneLeftBehind`; the proof of `OutputStored` led here).
* One output can store a finding twice. `IsDuplicateFinding` asks the table, and
  findings are saved after the loop (`CommandResultProcessor.cs:87,126`). With
  an asset the constraint of the table refuses the second; without one it is
  stored again. `SarifParser.cs:62` names a finding after its rule and gives it
  no asset, so every rule with two results does this, while a later scan counts
  both as one. `CHANGELOG.md:290` says: "Prevents duplicate findings from being
  created in the same project/target." The second output of `results_scans` is
  such a one, and its run reaches two open rows with no fault; `NoDuplicates`
  bounds them by what one output lists.
* Executions that overlap and write one file hand in each other's output, and
  trivy's, semgrep's and gosec's usages all name `results.sarif`
  (`TrivyCommand.cs:22`, `SemgrepCommand.cs:22`, `SarifCommand.cs:22`). A tool
  that ends well without writing its file hands in whatever was left there.
* A mail that was sent is reported as failed when only the signal after it
  fails (`ReportEmailProcessor.cs:97`); `AnsweredTruly` therefore only speaks
  of "delivered".

Users:

* Two changes of role that overlap leave the user in both groups, or in none,
  although `IKeycloakUserDirectory.cs:49` says "belongs to roleGroup only". A
  change that was interrupted after the new group was joined is not repaired by
  asking for the old role again: it equals the row's, so nothing is done.
* A change of profile that overlaps a change of role writes the old role back
  (`Users.Update` writes all columns).
* A user whose account is gone can never be deleted: Keycloak's 404 leaves
  `DeleteOne` before the row is removed.
* Redis' time-outs are not `RedisException`s: an eviction that times out leaves
  the handler after Keycloak was written (`RedisKeycloakUserCache.cs:42`).

Dashboard:

* Requests without a route: PATCH `/findings/{id}`, although
  `docs/pages/user-manual/findings/details.md:15` has users "Update the finding
  status"; POST `/findings|tasks|projects/{id}/clone`; DELETE of several
  findings in one URL; PUT of a finding category; PATCH of several users. As
  `fetch` does not reject error answers, several of the handlers report
  success (`TellsBlindly`).
* Deleting an asset, an attachment, a category, a custom field, a notification
  or a user always counts as failed: the hook parses the body of a 204. The
  vault's edit form reports an error after every success: it waits for 201 and
  the API answers 202.
* Writes that leave an older view in the cache for up to two minutes
  (`Forgetful`): creating findings, tasks and webhooks and deleting a runner
  invalidate nothing; the project's vault, the home page's dashboard and the
  parents' list of categories have keys that nobody invalidates.
* Twenty-two handlers take the user to another page after he has left theirs
  (`Abducts`); `ReportSendPage` leads to a page that does not exist.

## 5. Proofs

TLC checks small instances; the following hold for all values of the
constants, from the assumptions the modules state about them
(`ScanRunsAssumption`, `RunnerAssumption`, `PipelineAssumption`,
`QueueAssumption`, `ConnectionAssumption`, `ResultsAssumption`,
`ReportsAssumption`, `UserAssumption`, `SiteAssumption`). TLC evaluates these
assumptions in every run of the module; they type the constants and say that
jobs, mails and services are finite in number. Where a theorem needs more, it
says so as a hypothesis with a name:

| Hypothesis | Theorem | What happens without it |
|---|---|---|
| `OneRunner`, `NoOvertaking` | `EndedRunIsDerived`, `ScansKeepTheirPromise` | a second execution of a task, or a report that the API goes on with after the runner gave up, takes a result back |
| `OnlyTokens` (with `OneRunner`) | `ScheduleOutlives` | a lost report is not sent again, and the runner deletes the schedule all the same (`app.go`) |
| no two services on one queue | `OneListenerSendsEverywhere` | finding 2 |
| `Attentive`, `Honest`, `Considerate` | the theorems about `Dashboard` | the handlers in `Forgetful`, `TellsBlindly`, `Abducts` |

For each of the first three TLC has a counterexample on a small instance when
it is dropped. The hypotheses are met by the constants of the runs that check
the same property: `scan_live` and `scan_lifecycle` have one runner and the
kinds of faults allowed. The theorems about `CommandResults` and `OutputIsOwn`
have no hypothesis: what they excuse is part of the property and recorded in
the state.

**ScanPipelineProofs**

* `TypeCorrect`: `Spec => []TypeOK`.
* `StartsOncePerBoot`: `Spec => []OncePerBoot`. `OncePerBoot` is not inductive.
  Why a started schedule is not started again changes over its life: while its
  row exists, `activeScheduleIds` holds it; once a list came without it, it is
  dropped from there, and then its row must be gone for good. `OnceInv` says
  this in four parts: `FreshIds` (a run that has no schedules yet has issued no
  id), `KnownIds` (what a runner knows was issued), `MissingIsGone` (an active
  schedule missing from the list just fetched has no row) and `StartedOnce`.
  SERIAL ids enter with `FreshIds`: an id that came back would be started again.
* `SuccessNeedsOutput`: `Spec => []SucceededHasOutput`. The status a row takes
  was before that in a handler, and before that in a goroutine; `OutputInv`
  follows it through the three (`RowsBacked`, `UpdatesBacked`, `JobsBacked`).
* `OutputIsOwn`: `Spec => []OwnOutput`, whatever files the usages name. Between
  the end of a tool and the reading of its file other goroutines run; `OwnInv`
  adds that the file then still is the tool's (`ReadsOwn`), and what was read
  too (`UploadsOwn`), as long as its goroutine is not disputed; and that two
  that write one file in the same directory at the same time both are (`Apart`).

**ScanLifecycleProofs**, for one runner that neither restarts nor gives up on a
report (`OneRunner`, `NoOvertaking`), and any number of runs, tasks, goroutines,
handlers and other faults

* `EndedRunIsDerived`: `Spec => []TerminalRunIsDerived`. Two handlers of one run
  do overwrite each other's status of the run, as finding 1 shows; what saves
  the end is that a handler that computed it saw all other tasks ended, and that
  what has ended does not change any more. The first is `SavesTheEnd`, the
  second `EndedIsOver`: a task that ended is neither executed nor reported again.
  That rests in turn on one goroutine per schedule (`OneJobEach`, from
  `OncePerBoot`'s invariant) and one handler per goroutine that waits
  (`ReqsApart`, `UpdatesAwaited`), which is where the hypotheses enter; and on
  nobody else writing the task a handler has loaded (`WasStill`).
* `ScansKeepTheirPromise`: `Spec => ImplementsLifecycle`, the refinement. Initial
  states map to initial states; `SaveStatus` maps to the move of one task and an
  accepted upload to its delivery, everything else to a stutter. The same
  invariant excludes a move back, and `SuccessNeedsOutput`'s one without output.
* `ScheduleOutlives`: if nothing fails but the token, a goroutine that is about
  to delete its schedule finds its task ended, or can delete nothing
  (`DeletesLate`).

**IntegrationsProofs**

* `TypeCorrect`, `NothingIsLost`, `RepeatsAreBounded`. The first two rest on
  `Dispatchable` (the dispatcher has each delivery once, and not the one whose
  callback runs) and `Counted` (a handler is counted before it acknowledges).
  The bound on repetitions needs an account per message: what was handled, plus
  the strays that may still handle it, plus one if the broker still owes a
  handler, is at most one more than the connections lost (`Balanced`). That a
  message is never with two services (`Exclusive`) keeps the account when a
  handler ends.
* `OneListenerSendsEverywhere`: if no two services listen on one queue, a
  message that is done with was pushed everywhere it should. Its hypothesis is
  what finding 2 violates. It needs `Routed` (services hold messages of their
  own queue) and `Pushed`.
* `HandledInOrder`: `Spec => []InOrder`. `InOrder` speaks of handled messages
  only; `Ordered` extends it to those that a service holds or that a callback
  from before a lost connection still works on, since a message that got so far
  can be handled next.

**QueueConnectionProofs**, for any number of services, publishers, refusals and
restarts

* `OpensOneConnection`, `UsesKeptConnection`, from `Accounted`: the
  connections opened are those whose channel failed, plus the one in use or
  about to be used.

**UserDirectoryProofs**, for any number of requests and roles

* `TypeCorrect` needs `Fits`: a request at a stage is of a kind that gets there,
  and one that sets a group has a role to set.
* `CacheStaysCurrent`. `CacheIsCurrent` is preserved by every step but the
  creation, which needs that nobody had anything to cache before
  (`Unborn`) and that there is one (`BornOnce`).
* `StayInStep`. Every way from account to row and back is named: who makes the
  account is alone until the row is there (`Making`), who has deleted it finds
  it deleted until he is through (`Unmade`), and with nobody in between the two
  agree (`StepInv`). Overlapping requests are allowed throughout.
* `PromisesKept`: without overlap (`Alone`: at most one writing request), what a
  write puts back is what is there (`PutsBack`).
* `RoleStaysMirrored`: `GroupsFit` follows the groups through the steps of
  `SetRoleGroupAsync`, `SeesRow` says that the row is still the one the request
  read, and `MirrorInv` is the property with the requests that are amid a
  change excepted. It rests on `StayInStep`'s invariant for accounts that are
  gone.

**CommandResultsProofs**, for any outputs, assets, handlers and faults

* `TypeCorrect`, with `Placed`: a handler at a stage has the phase and the
  position in its output that belong there. `WorkInv` adds what all that follows
  needs: an unknown or unparsable job gets no further than the parser, a handler
  works on the head of the queue or on a job that is done, and two handlers are
  at work only after a loss.
* `OpenFindingsAreOne`: without losses one handler writes, what its context holds
  is not open in the table, and it holds nothing more often than the output has
  listed it so far (`PendingFits`). So what it stores is bounded by its own
  output, and nobody adds to it later (`FreshInv`). Users close, create and open
  findings, and calls fail, all along.
* `OutputsAreStored`. Of findings this holds through losses, when two handlers
  of one job write beside each other and one of them is refused. A refused
  transaction drops everything the context holds, so the invariant says what
  that can be: one finding with an asset, first in the context, and findings
  without one behind it (`ContextIsSegment`), because the upsert of the next
  asset saves whatever is there. Whoever stored the first stored the segment
  (`SavedTogether`), so a refusal loses nothing; and what a handler has passed
  is stored or in its context (`PassedStored`). A handler that the broker still
  waits for ends with its findings stored, or has them marked as dropped
  (`EndsStored`), and what it leaves behind when it acknowledges is
  `DoneStored`. A marked job after a loss breaks the chain: a handler of it that
  runs on is not one of those beside it, hence `NoneLeftBehind`. Of assets the
  same holds with no such condition (`AssetsInv`), since an upsert finds what
  others have stored.
* `AnnouncedAtMostOnce`: what a handler counts as new has not been announced
  (`CountsNews`), and what was announced is stored (`SaidOnce`), so that a
  handler that starts over counts none of it. That must also hold of a job whose
  handler was cancelled and gave a part up. With no failing call it gives up
  only when the API stops, and then the notification of findings and everything
  behind it are cancelled too, so that it announces nothing it has not stored
  (`GivesUpLast`).

**ReportsProofs**, for any number of reports, mails, handlers and faults

* `TypeCorrect`, with `Fits`, `HeadHeld`: the delivery the broker waits for is
  the head of its queue.
* `FilesAreThere`: `Spec => []AttachmentsHaveFiles`. A handler about to write a
  row has its file uploaded (`UploadsKept`), no two rows share a file
  (`OneRowPerFile`), and a deletion takes only files of its own report
  (`DeletesItsOwn`).
* `AnswersAreTrue`: a handler at the stage where it announces a delivery has
  sent the mail, and one about to acknowledge has answered (`Honest`).
* `AnnouncedCanBeSent`: until an interruption nobody but the handler the broker
  waits for is at work, a report is queued once, has no attachment while it is
  queued and one afterwards (`Undisturbed`).

**DashboardProofs**, for any catalogue of pages that meets `SiteAssumption` and
any matching of keys

* `TypeCorrect`, with `OpFits`: no handler leads to a page outside `pages`.
* `RefreshShowsWrites`: `Spec => []RefreshedIsShown`. Once a handler's refresh
  is done and not `missed`, what the tab knows is `Good`: no fetch in flight
  has read the old records, and data that is old is marked, being read again or
  failed to be. `OnlyWhenDone` says that nothing is refreshed before. The proof
  has one lemma per group of actions; that `Moves` keeps `Good` is its core,
  and what the mutant `MountFromCache` breaks.
* `WritesAreShown`, `MessagesAreTrue`, `UsersStayPut`: the other three safety
  properties of `Dashboard`, each from a rule that only looks at how handlers
  are written and says nothing of behaviour. `Attentive`: the effects that
  happen even when the component has gone have every query read again that
  shows the records; of components' own fetches, those on a page with the
  handler. `Honest`: success is said only in a branch that the status of the
  answer decided. `Considerate`: who navigates does so in a callback that is
  dropped with the component. The three tell a developer what a new handler has
  to do; that nothing else is needed, however page changes, fetches and answers
  overlap, is what is proved. TLC evaluates them as true of this catalogue's 94
  handlers and 76 queries, and all handlers that the sets of section 3 exempt
  break the rule they are exempted from. They are hypotheses and no assumptions
  of the module because a page that breaks one should be reported by the
  property with its behaviour (the mutants of these properties are such pages).

The invariants were checked with TLC before they were proved, on the instances
of the runs or smaller ones.

**Only model-checked**: all liveness and the fairness it needs (the prover does
not treat ENABLED): `TaskSettles`, `Handled`, `CallsEnd`, `JobProcessed`,
`ReportGenerated`, `MailAnswered`, `RefreshCompletes`, `ButtonsFreed`; and that
the pages of this dashboard follow the three rules. Every invariant that a
passing run checks is stated by a theorem.

## 6. Not modelled

* Wording, rendering and parsing: templates, payloads, the parsers' formats.
* Users' edits that no background step meets. Of those that one meets,
  deleting an asset or a finding is not an action of `CommandResults` and
  deleting a project none of `Reports`.
* The broker, PostgreSQL and SMTP beyond what their clients rely on. Reads are
  READ COMMITTED; transactions are atomic.
* Of the dashboard: what the fields of a form hold, paging, filters and
  selections (`FilteredList`), the file lists of uploads, the arrangement of
  widgets, downloads, and pages that neither show nor change records. Login and
  token renewal are Keycloak's library; a refused token is one of `Refuse`'s
  reasons. The terminal and the stream of notifications are not in `Browser`.
* Of the users: the login information, which has a cache entry of its own with
  the same life, and the system user, who has no account.
* The components marked `not_modelled` in `PROJECT.json`; the next section says
  which of them are planned.

Further hazards, seen while reading and covered by no property:

* no publisher confirms (`RabbitMQMessageQueue.cs:59`), and a channel the
  broker closed is used for ever (`:26`);
* a hosted service connects once, when the API starts; if the broker refuses
  then, the service ends and with it the host (`RabbitMQMessageQueue.cs:89`).
  `QueueConnection` has that behaviour and claims nothing of it;
* a report deleted while it is generated leaves a row and a file that nothing
  removes (`ReportsController.cs:340`): `attachment` has no foreign key to it.
  `Reports` reaches the state, no document promises otherwise;
* the list of findings resets its selection from the table model of an older
  render (dashboard `FindingsListPage.tsx:90`): `Browser` has no list state;
* a crash between a notification and its signal
  (`CommandResultProcessor.cs:153`): browsers learn of it with the next one;
* a storage error leaves a report without its document and without a message to
  the user (`ReportGenerationProcessor.cs:322`);
* concurrent writes to one stream (`SseConnectionManager.cs:39`), and
  notifications missed while a browser reconnects (`SseContext.tsx:55`);
* two writers on a terminal's socket (`terminal_handler.go:124`) and a socket
  left open (`:87`);
* file and row written apart (`AttachmentsController.cs:110`,
  `CommandsController.cs:147`: the attachment is saved before the project is
  checked);
* one save per imported entity (`SystemDataImportController.cs:52`);
* a failed redirect to the login page keeps the next one away for ten seconds
  (dashboard `auth.ts:163`).

## 7. Plan

Done, in this order: `ScanRuns`, `Runner`, `ScanPipeline` with `ScanLifecycle`
(the path every scan takes, and the only part that spans two programs);
`MessageQueue`, `QueueConnection`, `Integrations` (what everything behind the
API hangs on); `CommandResults`; `Reports`; `UserDirectory`; the dashboard's
catalogue and `Browser`; the proofs of section 5.

Next, the models:

1. `SseStreams` on top of `MessageQueue`: the connection manager, the queue of
   notifications and the dashboard's stream. To check: a broadcast reaches
   every stream that stays open; a browser that loses its stream gets one back
   (the effect at `SseContext.tsx:46` returns early after a reconnection with a
   renewed token); a client that stops reading holds up every queue.
2. Access control as operators: policy, request scope and token scope agree for
   each role and route.
3. `RunnerPresence` and `Terminal`: boot and ping beside the poll loop; the two
   goroutines of a terminal and what they release.
4. Pure algorithms against reference definitions: `splitCommandLine`,
   `RecomputeStatus`, `MergeAttributes`, the CVSS calculator, the asset tree.
5. `Attachments`, with the file and row order of `Reports`.

Then the proofs: what these models promise, by the same method; for the
parts that are there, weaker hypotheses: `TerminalRunIsDerived` for runners that
restart but execute nothing twice, and `NoDuplicates` after a loss, counted by
losses as `RepeatsNeedLosses` does.
