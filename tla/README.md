# ingest-srv in TLA+

`ingest-srv` is the collection service of SMAP: it keeps data sources and their
crawl targets, dispatches crawl jobs to crawler services over RabbitMQ, takes
their completions back, records the crawled artefacts as raw batches, parses
them into UAP records and publishes those to Kafka. This directory holds TLA+
models of it, the TLC runs that check them on small instances, and TLAPS proofs
of their most important properties for instances of any size. Paths below are
relative to the repository.

## 1. The system

One process (`cmd/server/main.go:125-160`) starts three families of goroutines
over one PostgreSQL database: the HTTP server, the cron scheduler and the
RabbitMQ consumers. Several replicas may run against the same database and
broker, so every component has to be read as if any number of its goroutines
ran at once. All coordination goes through database rows and queue messages;
nothing is locked in memory but the producers' channels.

| Component | Source | State | Operations |
|---|---|---|---|
| dispatch | `internal/execution/usecase/usecase.go`, `repository/postgre/dispatch.go` | `scheduled_jobs`, `external_tasks` | DispatchTarget, dispatchPrepared, dispatchOneSpec, CreateScheduledJob, CreateExternalTask, MarkExternalTaskPublished/Failed, FinalizeScheduledJob |
| completion | `internal/execution/usecase/consumer.go`, `repository/postgre/completion.go`, `helpers.go`, `delivery/rabbitmq/consumer` | `external_tasks`, `scheduled_jobs`, `raw_batches`, the completions queue | handleCompletionWorker, HandleCompletion, CompleteTaskSuccess, CompleteTaskError, recomputeScheduledJobStatus |
| runtime control | `internal/execution/repository/postgre/cancel.go` | the same rows, `crawl_targets.next_crawl_at` | CancelProjectRuntime |
| due scheduling | `internal/execution/usecase/cron.go`, `repository/postgre/due_targets.go` | `crawl_targets.next_crawl_at` / `last_crawl_at` | DispatchDueTargets, ListDueTargets, ClaimTarget, ReleaseClaimTarget |
| producers | `internal/execution` and `internal/dryrun`, `delivery/rabbitmq/producer` | a channel per queue, a mutex; the broker's queues | Run, PublishDispatch, Close |
| specs | `internal/datasource/usecase` (values), `internal/execution/usecase/helpers.go`, `internal/dryrun/usecase` | none: values in, specs of tasks out | CreateTarget, buildDispatchSpecs, buildDispatchSpec |
| platform parsers | `internal/uap/usecase/*flatten*`, `youtube_business_prefilter.go`, `registry.go` | none: an artefact in, records out | flatten, prefilter, attribution |
| UAP pipeline | `internal/uap/usecase`, `internal/uap/repository` | `raw_batches.status` / `publish_status` | ClaimRawBatchForParsing, MarkRawBatchDownloaded/Parsed/Failed, upload, publish |
| dry run | `internal/dryrun` | `dryrun_results`, `data_sources.dryrun_*` | Trigger, HandleCompletion, CompleteResult |
| control plane | `internal/datasource` | `data_sources`, `crawl_targets`, `crawl_mode_changes` | Create, Update, Activate, Pause, Resume, Archive, Delete, target CRUD, crawl mode |
| process | `cmd/server`, `internal/consumer`, `internal/scheduler`, `internal/httpserver` | connections, signals, goroutines, the listener | start, serve, shut down, reconnect |
| HTTP delivery | `internal/*/delivery/http` | a request in service | a handler per route |
| generated code | `internal/sqlboiler` | none of its own | Insert, Update, All, Count |

How they interact. A user's request or a cron tick dispatches a target: a job
row, one task row per keyword or profile, one request message per task. The
crawler answers on `ingest_task_completions`; a consumer matches the answer to
its task row, records a raw batch, settles task and job in one transaction and
hands the batch to the UAP pipeline. Pausing or archiving a project changes the
data sources' status and then cancels the project's jobs and tasks; nothing
stops dispatchers and consumers that are in the middle of their work.

What is hard about it, and what must hold:

* **Execution.** The dispatcher keeps writing rows while the crawlers' answers
  are already being handled: rows are read and then overwritten without a
  version check, the job's status is aggregated from task rows that other
  transactions are changing or that do not exist yet, messages are redelivered
  and duplicated, and a pause may come at any time. Correct means: a job never
  claims more than was recorded, no answer is lost or orphaned, one batch is
  recorded once, status and `completed_at` agree, a target is not run twice at
  once, everything that starts ends.
* **Due scheduling.** Overlapping ticks, manual dispatches and pauses read the
  same due targets. Correct means: a due window is claimed once, a claim that
  led to nothing is given back, nothing is dispatched for a paused source, no
  project starves.
* **UAP pipeline.** Parsing is claimed by a compare-and-swap and then proceeds
  over MinIO and Kafka without transactions; any step may fail or the process
  may die. Correct means: a batch is parsed by one consumer, its publish status
  tells what was published, it does not stay claimed for ever.
* **Dry run.** Check-then-act on "is a dry run running", late and duplicate
  answers of an older dry run. Correct means: an old answer never decides a
  newer dry run, one dry run runs per target.
* **Control plane.** Every handler reads a row, checks and writes the whole row
  back. Correct means: no lifecycle transition is lost or made from a state
  that does not allow it, an ACTIVE source keeps an active target.
* **Producers.** Channels are cached, shared by all requests, and die with the
  connection; two packages declare the same queues. Correct means: no channel
  leaks or is used by two, a publish that fails lets the next one go on, the two
  declarations fit each other.
* **What data goes through.** The mapping from what a user enters to what a
  crawler is asked, and from what it answers to records, is written once per
  platform and, for the dry run, once more. Correct means: no value is forgotten
  or crawled twice, a dry run tells what a dispatch will do, a record can be
  traced to what it was crawled for, the prefilter drops nothing relevant.
* **Process and HTTP.** Stores are opened and closed around goroutines nobody
  waits for; errors are mapped to statuses route by route. Correct means: a
  request finds its stores open, a signal ends the process, a consumer survives
  the broker, a 5xx means that something outside of the request failed.

The hazards with their lines are listed in `PROJECT.json`.

## 2. Plan

1. `Execution`, `MCExecution`, `Execution_proofs`: dispatch, completion,
   aggregation, cancellation. **Done.** It comes first because it is where the
   service's own data is made and where most goroutines meet.
2. `DueTargets`, `MCDueTargets`, `DueTargets_proofs`: the heartbeat, its claims
   and their release, overlapping heartbeats, and the other writers of
   `next_crawl_at`, with the dispatch of a claimed target abstracted to its
   outcome. **Done.**
3. `RawBatchPipeline`, `MCRawBatchPipeline`, `RawBatchPipeline_proofs`: the
   claim, the parse with its per-record publishes, the uploads and the final
   update, with crashes, lost answers and database errors; and
   `BatchLifecycle`, the abstract specification it is proved to implement.
   **Done.**
4. `DataSourceLifecycle`, `MCDataSourceLifecycle`,
   `DataSourceLifecycle_proofs`, `DataSourceChecks_proofs`: the control plane's
   handlers with their full-row writes, and the dry runs of a source's targets. They are
   one module because they share every row they write: the dry run decides the
   source's status, and the handlers' checks ask for dry runs. **Done.**
5. `DispatchProducer`, `MCDispatchProducer`, `DispatchProducer_proofs`: the
   channel caches behind their mutexes, the rebuild and retry of a failed
   publish, `Run`, which calls `Close` while it holds the lock, and the lost
   connection; and `TaskPublishing`, the contract that `Execution` takes for
   granted and that the producers are proved to implement. **Done.**
6. `DispatchSpecs`, `UapRecords`, `YouTubePrefilter`: the service's pure
   algorithms; and `CrawlData`, `MCCrawlData`, `CrawlData_proofs`, which composes
   them along the way of one target's data. **Done.**
7. `ServiceProcess`, `SourceRequests`, `SourceRows`, and `HttpService` with
   `MCHttpService`, `HttpService_proofs`, which composes them: the process and one
   request in it. **Done.**
8. `JobLedger`: what happens to the statuses of a target's scheduled jobs, the
   part of `Execution` that `DueTargets` sees. `DueTargets` takes its actions,
   `Execution` is proved to implement it. **Done.**
9. Open: the composition of `DueTargets` with `Execution` in one state space;
   several sources of one project.

## 3. Execution

One project with one CRAWL data source and several targets. An action is one
database statement or transaction, one broker call or one message of a
goroutine. What a goroutine read earlier is in its record and may be stale when
it is used.

| State | Code |
|---|---|
| `job[j]` | `scheduled_jobs`: status, `completed_at` set or not, target, `task_count` of the payload |
| `task[<<j, i>>]` | `external_tasks`: the i-th spec of job j; status, `completed_at` set or not |
| `rawBatch[b]` | `raw_batches` by batch id: the task whose artefact it records |
| `requests` | messages in the crawlers' task queues, as the crawlers may still answer them |
| `inbox` | messages ready in `ingest_task_completions` |
| `disp[d]` | a goroutine inside `dispatchPrepared`: where it is, its job, the spec it is at, how many it published |
| `cons[c]` | a goroutine inside `handleCompletionWorker`: where it is, its message, and while its transaction is open what it is about to commit |
| `acked` | history variable: the completions acknowledged so far |

| Actions | Code |
|---|---|
| DispatchTarget, CreateScheduledJob | `DispatchTarget` and `dispatchPrepared` up to the transaction that locks the target row, looks for a RUNNING job and inserts |
| CreateExternalTask, SpecFails, PublishDispatch, PublishFails, MarkExternalTaskPublished, MarkExternalTaskFailed | the steps of `dispatchOneSpec`; each update is the row's whitelist of columns, over whatever status the row has by then |
| FinalizeScheduledJob | the end of `dispatchPrepared` |
| CrawlerAnswers | external: the crawlers |
| Receive, LookupTask, CheckRawBatch | delivery, `GetCompletionContext` with the discard conditions, `HasRawBatch` and the object check |
| CompleteTaskSuccess, CompleteTaskError, CommitCompletion | the two transactions |
| FinishCompletion, Requeue | Ack after parsing; Nack, panic and crash |
| CancelProjectRuntime | the pause |
| CrashDispatcher | the process stops |

Transactions. PostgreSQL runs them at READ COMMITTED. `CreateScheduledJob`
locks the target row and is one step. `CompleteTaskSuccess` and
`CompleteTaskError` lock nothing before `recomputeScheduledJobStatus` reads the
tasks and writes the job, so they are two steps: `BeginTx` computes, over the
committed rows and its own update, the verdict for task and job, and
`CommitCompletion` publishes it. Between the two any other step may run, except
those that would wait for a row this transaction has written (`RowFree`) or for
the index entry it has inserted (`InsertedElsewhere`).
`MarkExternalTaskPublished` and `MarkExternalTaskFailed` read the row and update
named columns only; since the columns they write do not depend on what they
read, the read is not a step of its own.

Faults are a constant, so that a run says which ones it allows: `project` (the
project service does not answer), `publish` (RabbitMQ reports an error, with or
without the message), `db` (a statement fails), `crash`, `invalid` (a malformed
completion), `object` (the artefact is missing in MinIO). `CrawlerRepeats` lets
crawlers answer a task again and with the other result.

Abstractions. The guards of `DispatchTarget` (source, target and crawl mode)
are not modelled here, a dispatch may start at any time: more behaviours, not
fewer. So is a completion's contents: what counts is its task, its status and
its batch id. The status bookkeeping of targets and sources
(`last_success_at`, `last_error_at`) is left out, as nothing in this component
reads it. `ParseAndStoreRawBatch` runs inside the consumer after the commit and
its result is ignored by `HandleCompletion`; it is part of `FinishCompletion`.

### Properties

* `JobSuccessIsComplete`: a SUCCESS job has a raw batch for every spec.
* `AckedAnswersSettled`: an acknowledged completion is accounted for.
* `OneRunningSingleSpecJob`: no two RUNNING jobs of a target. It is stated for
  jobs with one task: a job of several tasks can be closed and reopened by a
  later completion, after its target was dispatched again, so that for those
  the code does not keep it.
* `RequestsAreTraceable`: a crawler gets no task id without a stored task.
* `CompletedAtMatchesStatus`: `completed_at` is set on closed jobs and only
  cleared on RUNNING ones.
* `RawBatchesAreKept`, `TaskCompletionIsKept`: action properties; a raw batch is
  not reassigned, a task's `completed_at` is not cleared.
* `AnswersAreHandled`, `DispatchesEnd`: liveness.

`TypeOK` and `CompletedAtMatchesStatus` are proved and not run: the theorems
cover every instance. The same goes for `CrawlerRepeats`, which is FALSE in the
runs and arbitrary in the proofs.

### Where the code and its documents differ

* `TaskLifecycle` (AGENT.md:71 gives an external task's lifecycle as
  PENDING→RUNNING→SUCCESS/PARTIAL/FAILED/CANCELLED). `MarkExternalTaskPublished`
  comes after the publish and does not look at the status the row has. In the
  history TLC finds, the dispatcher has published a task, the crawler answers, the
  consumer looks the task up, records its raw batch and commits SUCCESS, and then
  the dispatcher's update writes RUNNING. `completed_at` stays
  (`TaskCompletionIsKept`).

The run `exec_task_lifecycle` finds it. The property is stated for SUCCESS, a status
only a completion writes, so that no history of another kind can violate it. The
other terminal statuses are overwritten in the same way: FAILED after an error
answer, and CANCELLED if a pause falls between the insert of the task and this update.

The job lifecycle (AGENT.md:70) is broken by the same hand: an answer handled before
the dispatcher has created the job's other tasks counts those as failed and may close
the job (in the history above it is PARTIAL after the first answer), and a later
answer opens it again; so does an answer that comes after a pause. There is no run for this.

## 4. DueTargets

Projects with one CRAWL data source each and any number of targets. Time is
relative: `due[t]` is what is left until `next_crawl_at` (not positive: overdue,
`None`: NULL), and each running heartbeat has the age of the clock reading it
started with, which is what `ListDueTargets`, `ClaimTarget` and the new
`next_crawl_at` are computed from. `Clock` lets `1/Unit` of a minute pass for
all of them at once, so the model needs no absolute time and stays finite.

| State | Code |
|---|---|
| `source[p]`, `mode[p]` | `data_sources.status` (ACTIVE, PAUSED, PENDING) and `crawl_mode` |
| `project[p]` | the project's status, asked of project-srv at each validation |
| `active[t]`, `due[t]` | `crawl_targets.is_active`, `next_crawl_at` |
| `jobs[t]` | the statuses of the target's scheduled jobs, the terminal ones as CLOSED (`JobLedger`) |
| `tick[h]` | a goroutine inside `DispatchDueTargets`: where it is, its age, the rest of its list, the target it is at |
| `quiet` | how long ago the last heartbeat started |
| `cancelling`, `manual`, `draft` | a project pause, a manual dispatch and a target edit between their two steps |
| `spent`, `tick[h].lost` | history: a target's claim was used or died in a crash; another writer changed the `next_crawl_at` a heartbeat had claimed |

| Actions | Code |
|---|---|
| TickStarts | the start of `DispatchDueTargets` with `ListDueTargets` |
| Validate | one turn of the loop up to the claim: `validateScheduledDispatchContext` on the row as listed, `buildDispatchSpecs` |
| ClaimTarget | the conditional UPDATE |
| Revalidate | `GetDispatchContext` and the validation of the rows as they are now |
| CreateJob, FanOut | `dispatchPrepared`; a conflict with a RUNNING job comes back as ErrDispatchNotAllowed and keeps the claim, other errors release it |
| ReleaseClaimTarget, CrashTick | the release, and the end of the process anywhere in the loop |
| JobsProgress | what completions do to a job: any status it may get, and a closed job may be open again (`Ledger!Written`) |
| ManualStarts, ManualCreatesJob | `DispatchTargetManually` |
| PauseDataSource, Pause, CancelProjectRuntime, Resume, UpdateCrawlMode | the control plane's writes to the same rows; a project pause is two transactions |
| EditReads, EditWrites, MarkDatasourcePending | `UpdateTarget`, `ActivateTarget`, `DeactivateTarget`: the repository reads a row and writes all its columns; a material change demotes the source in a second update |
| ProjectChanges | external: project-srv |

`EffectiveInterval` is `computeEffectiveInterval`, in integers: the product with
0.2 rounded half up is `(2 * n + 5) \div 10`. `Partition`, `RowNumber`,
`Position` and `Listed` are the window query of `rankDueTargetIDs`. Its second
query, which loads the rows of the ids it found, is part of the same step. The
lost updates of `data_sources` (its rows are written whole, like targets) are
the subject of `DataSourceLifecycle`.

`JobLedger` stands between the two modules. `DueTargets` changes `jobs` by its
three actions only: `Created` (the insert of `CreateScheduledJob`), `Written`
(a completion or `FinalizeScheduledJob` gives one job a status, whichever it
had) and `Cancelled` (the pause closes what is open). `Execution` has the same
ledger over its own rows (`JobsSeen`), and `LedgerImplemented` proves that each
of its steps is one of the three or changes nothing a heartbeat could see. So
what is checked of the heartbeats holds next to any dispatches and completions
`Execution` knows. It matters: a completion that arrives after its job was
closed opens it again, while its target has no claim and may be due.

### Properties

* `KeptClaimIsExclusive`: a claim lasts the interval it was made for. If two
  heartbeats work on one target, another writer overwrote a claim, or one of them
  started at least that interval before the other. It rests on `ClaimsAreAhead`,
  which is proved only.
* `ClaimsAreGivenBack`: a target put off to the future is being worked on, was
  dispatched or found running, lost its claim to a crash or a failed release, or
  got its `next_crawl_at` from an edit.
* `ListIsFair`: what the round-robin query promises, stated without ranks: while
  a project waits, no other has two places more, and inside a project who waits
  longest goes first.
* `DueTargetsAreServed`: every target is again and again put off to its next
  crawl, if its specs can be built. It holds while each project with due targets
  has a place in the list.

Nothing bounds how long a heartbeat takes, and the properties do not assume a
bound: a slow one compares and sets `next_crawl_at` with a time that has passed,
a claim of its own may already be due when it is made, and a later heartbeat may
then claim the target next to it. In `due_claims` that happens (`MaxAge` is a
minute, the interval of the target); what the properties say is that it happens
no earlier than the claim allows.

### Where the code and its documents differ

* The order of the due list. AGENT.md:364-371 gives it as
  `ORDER BY priority DESC, next_crawl_at ASC`, and the comment at
  `internal/execution/usecase/cron.go`:29 says (in Vietnamese) that the due
  targets of the highest priority are chosen and dispatched first, so that none of
  low priority is passed over for too long. The query
  (`repository/postgre/due_targets.go`:85-105, explained at :19-28) takes the longest
  waiting target of each project, then the second of each; priority only decides between targets of
  one project with the same `next_crawl_at`. `ListIsFair` states the code's
  order, and it contradicts the other two: when `due_liveness` starts, all three
  targets are due, and of two places one goes to the target of the lowest priority,
  the only one of its project, and not to the second of the other project. The
  documented order would fail the second half of the comment: ranked by priority
  first (the operator `PriorityFirst`), targets that are due each minute keep a
  lower one of their project off the list, and `DueTargetsAreServed` is violated.
* The second half of that comment does not hold of the code without a condition
  either. Ranks are compared first and project ids second
  (`repository/postgre/due_targets.go`:103), so that with more projects than
  places, those with small ids whose targets are due each minute fill the list
  for ever. `DueTargetsAreServed` is therefore about instances in which each
  project has a place; the configured limit is 20 by default.
* A pause between the revalidation (`internal/execution/usecase/cron.go`:164) and
  the insert of the job is followed by a job for a paused source;
  `documents/resource/ingest/ingest_plan.md`:292 says that a paused source gets
  none. `CreateJob` does not look at `source`. There is no run for this.

## 5. RawBatchPipeline and BatchLifecycle

What happens to a raw batch after `CompleteTaskSuccess` has recorded it. An
action is one statement, one broker call or one object store call of
`ParseAndStoreRawBatch`; each of its updates of `raw_batches` reads the row and
then writes named columns, none of which depends on what was read, so it is one
step.

| State | Code |
|---|---|
| `row[b]` | `raw_batches`: `status`, `publish_status`, and the counts `kafka_publish` keeps in `raw_metadata` |
| `topic[k]` | how often record k = <<batch, position>> was handed to the topic of UAP records |
| `stored` | the records in the parts uploaded to MinIO |
| `worker[w]` | a goroutine inside `ParseAndStoreRawBatch`: where it is, its batch, the next record to publish or to upload, its `KafkaPublishStats` |
| `lost` | history: batches whose call died, or whose claim or last update was not answered or not made |

| Actions | Code |
|---|---|
| ClaimRawBatchForParsing | the conditional UPDATE; a call that does not get the batch returns and changes nothing |
| Download | `DownloadFile` and reading the object |
| MarkRawBatchDownloaded, MarkRawBatchParsed, MarkRawBatchFailed | the updates; the last with `failRawBatch`, whose error is ignored |
| RejectPayload, PublishRecord, ParserReturns | the parser and its callback: all three parsers reject an artefact before they make a record of it, and then hand on each record when it is made |
| UploadChunk | `chunkRecords` and `uploadChunk` |
| Crash | the process stops, or a panic ends the call |

The code makes one call for a batch, in the consumer that recorded it
(`internal/execution/usecase/consumer.go`:112). The model lets any goroutine call
for any batch at any time: what keeps records from being published twice is then
the claim, which is what it is for.

Faults: `db` is a statement that fails, `answer` one that takes effect and is
reported as failed, `object` a failed download, `payload` an artefact the parser
rejects, `publish` and `upload` calls that report an error, with or without having
had their effect, and `crash`. `mergeRawMetadata` failing before the last update
has the same outcome as `db` there. Kafka's own retries are behind the client
library's `Publish`, so the topic counts what was handed to it.

Abstractions. A record is its position in its batch and `Size` says how many
the parser makes: the mapping of crawler JSON, the YouTube prefilter and the
attribution decide what is in a record and how many there are (`CrawlData`), not
what happens to them. `publish_record_count` of a PARSED row is its `sent`. The branch for a
nil publisher is left out, as the process always wires one
(`internal/consumer/server.go`:27).

`BatchLifecycle` is what readers of `raw_batches` and of the topic may rely on:
a batch is claimed once; its records reach the topic only between the claim and
the verdict, and each at most once; *published* means all of them did; nothing
leads back to *received*, and *failed* is final. The refinement mapping
`StateOf` reads the abstract state off `status` and `publish_status`. One
abstract action is there because of the code's order of steps: a verdict may
turn into *failed*, since a last update that took effect but was reported as
failed is followed by `failRawBatch`.

### Properties

* `PublishedOnce`: no record reaches the topic twice, whoever calls. With
  `ParsedIsWhole`, which is proved only, a batch that is done has every record
  counted and every part stored.
* `TopicIsAccounted`: whichever step fails, the statistics in a settled row
  bracket what is in the topic. A record whose publish was reported as failed
  counts as failed and may be there.
* `ClaimedIsHeld`, `ClaimsEnd`: a claim is given up on every path but the death
  of its call and a `failRawBatch` that fails too. Those leave the batch
  PUBLISHING for ever: nothing in the code takes such a batch up again, and
  `lost` marks exactly them.
* `ImplementsBatchLifecycle`: the refinement.

A batch whose upload or last update fails has its records in the topic already,
and `MarkRawBatchFailed` sets its `publish_status` back to PENDING, whose comment
(`internal/model/ingest_types.go`:87) says that publishing has not begun. Readers
have to look at `status` or at the statistics, which is what `TopicIsAccounted`
is about.

### Where the code and its documents differ

* AGENT.md:520 calls the batch publish to Kafka all-or-nothing. The code publishes
  record by record, from the parser's callback (`internal/uap/usecase/usecase.go`:69-71),
  and goes on after a record that failed: the batch ends PARSED with `publish_status`
  FAILED and with its other records in the topic. `TopicIsAccounted` bounds what
  is there; all-or-nothing would satisfy it too.
* AGENT.md:522 has the full batch retried, README.md:295-306 and section 3.5 of
  `documents/resource/ingest/adaptive_interval_and_idempotency_decisions.md` have a
  failed batch replayed. No code does either: *failed* and *unpublished* are final
  in `BatchLifecycle`, and a batch is claimed once. A replay would have to give
  up `PublishedOnce`.

## 6. DataSourceLifecycle

What the API, project-srv and the dry run consumer do to one CRAWL source, its
targets and its dry runs.

Every handler has the same form: read a few rows, check, and then write, with one
statement or broker call after another. The model says just that. The action
named after a handler is its checks, read at once, and ends with the handler's
*todo list*, the calls it will make in their order; an action per kind of call
takes the first item of a list. Handlers interleave between the items, and any
item may be the last one when the database fails or the service stops (`Abort`).
`UpdateDataSource` and `UpdateTarget` are two steps each, since the repository
finds the row and then writes all its columns (`boil.Infer`); what another
handler wrote in between is undone.

| State | Code |
|---|---|
| `source` | the `data_sources` row: `status`, `paused_at` set or not (`paused`), `dryrun_status` (`dry`), `dryrun_last_result_id` (`last`), `crawl_mode`, `deleted_at` |
| `target[t]` | `crawl_targets`: exists, `is_active`, flushed (`platform_meta` smap.visibility) |
| `result[r]` | `dryrun_results` in the order of `created_at`: status and target |
| `work[w]` | a handler in progress: its operation, the rest of its list, the row it has found, and for a consumer its message |
| `crawler[r]`, `answers` | the completions still to come for a dry run's task, and those in `ingest_dryrun_completions` |
| `audited` | `to_mode` of the newest row of `crawl_mode_changes` |
| `torn`, `abandoned`, `disputed` | history, see below |

| Actions | Code |
|---|---|
| Update, Archive, Delete, ActivateDataSource, PauseDataSource, ResumeDataSource, UpdateCrawlMode | `datasource.go`, `datasource_lifecycle.go` |
| Activate, Pause, Resume, UpdateProjectCrawlMode | `project_lifecycle.go`, called by project-srv; each writes with one conditional statement or one transaction |
| CreateTarget, UpdateTarget, ActivateTarget, DeactivateTarget, DeleteTarget | `target.go`; a material change demotes the source in a second write (Demote) |
| FindRow, UpdateDataSource, UpdateTargetRow, InsertTarget, UpdateColumns, UpdateProjectDataSourcesLifecycle, CreateCrawlModeChange | the repository |
| Trigger, CreateResult, MarkDryrunRunning, PublishDispatch, PublishFails | `dryrun/usecase/usecase.go` and what it calls; after a failed publish the same request completes its result as FAILED |
| BeginComplete, CompleteResult | the transaction: it updates and so locks the result row, reads the source, writes status, dry run status and last result, activates the target, commits |
| CrawlerAnswers | external: the crawlers |
| HandleCompletion, Ack, Abort, PromotionFails | the consumer: what it does is decided by the result as it was looked up; a failure requeues the completion |

Histories. The handlers do not exclude one another, so for almost every promise
about two rows there is an unlucky overlap that breaks it: two deactivations that
each count the other's target, an archive between a Trigger's check and its
insert, a full-row write that takes a pause back. `torn` marks the histories in
which that has happened: a handler wrote although another one wrote after it had
read, or a handler stopped between two writes that belong together. The
properties that relate rows (`DryrunStatusAgrees`, `ReadyIsEarned`,
`ActiveSourceHasTarget`, `ModeChangesAreLogged`, `ArchivedHasNoDryrun`) are about
the others: they say that the handlers are right whatever the sequence of
operations, with every failure, and with handlers that overlap without
overtaking one another. `RunningIsWaitedFor`, `TerminalResultIsKept` and
`DryrunsEnd` hold for all. `abandoned` marks the dry runs whose Trigger stopped
before its publish, and those whose completion no one could read; `disputed`
those whose publish was reported as failed though the broker has it, and those two
consumers found RUNNING before either had decided them.

Abstractions. WARNING is treated as SUCCESS, as the code does everywhere but in
the text it shows. No combination of source and target type requires a dry run
(`model.IsDryrunRequired` is constantly false), so the branches for it are
left out. Calls that change no row (the check with project-srv, hiding a deleted target
in analytics) are left out. `cancelProjectRuntime` after a pause belongs to
`Execution`. `ApplyDryrunResult` has no caller. The same completion sent twice is
one element of `answers`; it is handled twice all the same, by a requeue or after
an acknowledgement.

### Properties

* `RunningIsWaitedFor`: a RUNNING dry run always has somebody who will finish it.
* `DryrunStatusAgrees`, `ReadyIsEarned`: the source tells the truth about its dry
  runs, whichever of several ends first.
* `ArchivedHasNoDryrun`, `ActiveSourceHasTarget`, `ModeChangesAreLogged`: see
  their comments.
* `PausedAtMatchesStatus`: `paused_at` is set on a PAUSED source and cleared on
  one that runs, in every history, also the torn ones: a full-row write over a
  pause takes back both columns. A dry run that ends is the exception. It writes
  the status it has read and not `paused_at`
  (`internal/dryrun/repository/postgre/dryrun.go`:158), so that over a pause or a
  resume in between the two disagree; the property is about sources none of
  whose dry runs has ended. `source_requests`, where it is checked with two
  overlapping requests, has no dry runs.
* `TerminalResultIsKept`: a result is decided once, however often its completion
  comes. It excepts the `disputed` dry runs: the transaction does not ask for the
  result's status again (`internal/dryrun/repository/postgre/dryrun.go`:123-134), so a
  second decision made before the first is committed overwrites it. A process starts one consumer, which
  excludes a second one at work on the same dry run; several replicas do not.
* `DryrunsEnd`: liveness.

`TypeOK` is proved and not run: the theorem `TypeCorrect` states it.

### Where the code and its documents differ

No run is about these; the model does what the code does.

* README.md:255 calls ARCHIVED the final status. `UpdateTarget` does not ask for the
  status of the source, and its demotion sets PENDING whatever the status was
  (`internal/datasource/usecase/helpers.go`:178).
* AGENT.md:226 has a Trigger refused while any dry run of the source is RUNNING. The
  code looks for one of the same target (`internal/dryrun/usecase/usecase.go`:47-52),
  so dry runs of several targets overlap and write the one status of their source.
  `DryrunStatusAgrees` and `ReadyIsEarned` are about that; they would hold under the
  documented rule too.

## 7. DispatchProducer and TaskPublishing

The process has three producers of task messages on one connection: the HTTP
server's execution producer, the dry-run producer that is set up next, and the
scheduler's, set up in a goroutine of its own. A producer caches one channel per
task queue behind a mutex, which it holds over the broker calls too. An action
is one broker call or one wait for the mutex.

| State | Code |
|---|---|
| `writer[p][q]` | the producer's map of writers |
| `lock[p]` | its mutex |
| `session[s]` | a call of Run or PublishDispatch: where it is, the queue it is at, the channel it holds, how far it has declared, whether it has retried |
| `channel[c]` | a channel of the connection: free, open, or lost with it |
| `connected`, `topology`, `plain` | external: the connection; what has been declared; task queues without dead-letter arguments |
| `stored`, `dropped`, `emptied` | history: how often a message reached its queue; what the connection took with it; the broker came back empty |

| Actions | Code |
|---|---|
| Run, PublishDispatch, Lock | the calls, and the wait for the mutex |
| Open, OpenFails, Declare, DeclareFails | `getWriterWithQueue`, `declarePublishTopology`; a cached writer that fails is replaced once |
| Publish, PublishFails | the two attempts of PublishDispatch; the broker may have a message whose publish failed |
| Close | `Close`, as Run calls it |
| ConnectionLost, Reconnect | external: the connection |

The broker refuses to declare a queue again with other arguments. `Init`
therefore starts with any set of queues that an earlier version declared without
dead-letter arguments, and the broker may come back from an outage empty.
Messages are not routed when their queue is not bound; the producers do not use
confirms, so they cannot tell.

### Properties

* `ChannelsAreOwned`: a channel is cached for one queue of one producer or in the
  hands of one session that holds the mutex, and nobody else has it.
* `DeadLettersHaveAPlace`: the two packages declare different parts of the same
  topology. A task queue with dead-letter arguments has its dead-letter queue,
  because the dry-run producer is set up last; not after the broker has
  come back empty, when whichever publishes first declares its part.
* `HealthyBrokerServes`: the producers do not refuse each other's queues.
* `ImplementsPublishing`: `TaskPublishing` is what the use cases rely on, and what
  `Execution` models in its PublishDispatch and PublishFails.
* `PublishesReturn`: liveness; nobody leaves with the mutex locked.

### Where the code and its documents differ

`StartupFailsFast` (AGENT.md:467, a broker that is unavailable at the start is
fatal). When a queue after the first cannot be set up, Run calls Close while it
holds the mutex that Close locks
(`internal/execution/delivery/rabbitmq/producer/new.go`:59, 69; in the dry-run
package `common.go`:32, 42). Run then never returns and the service neither
serves nor ends. `startup_fail_fast` finds it with one failing call.

AGENT.md:506-509 promises the dead-letter queue to messages rejected three times;
the consumers reject with requeue, for ever. The dead-letter queues get nothing
from this service.

## 8. CrawlData, DispatchSpecs, UapRecords, YouTubePrefilter

What a target's data goes through, as functions that follow the code's, and one
state machine in which they are applied one after the other.

| Module | Code |
|---|---|
| `DispatchSpecs` | the values of a target (trimmed, deduplicated, URLs), `platform_meta` with its lists of ids, `buildDispatchSpecs` per platform and target type, and the dry run's own `buildDispatchSpec` |
| `UapRecords` | the three flatteners with ids, parents and roots of the records, the parser registry, `withIngestAttribution` |
| `YouTubePrefilter` | the scores, caps and thresholds of the business prefilter |
| `CrawlData` | CreateTarget, UpdateTarget, Trigger, DispatchTarget, CrawlerAnswers, ParseBundle |

A string is a member of the set `Strings`, and the functions and predicates on strings
(`TrimSpace`, `IsURL`, `PageIdInUrl`, ...) are constants, given as tables by
`MCCrawlData`; of `TrimSpace` it is assumed that trimming twice is trimming once
(`TrimAssumption`). A text is the set of term lists it has a term of, and its length.
A loop that appends some of the entries it reads is `EntriesAt`: the entries at a set
of positions, in order.

### Properties

* `EveryValueHasItsTask`: nothing a user enters is forgotten or crawled twice, and
  the i-th id of `platform_meta` goes with the i-th profile if no entry is blank:
  blank entries are dropped and those behind them move up.
* `DryrunPredictsDispatch`: the two copies of the mapping agree.
* `BusinessIsPublished`: when the prefilter applies, the ids published of YouTube are
  those of the videos and comments that are about the business, in the bundles parsed
  so far.
* `RecordsTraceToTask`: a record names the keyword or profile of its own task.

Behaviours to know of: a comment points to its video as its post
(`documents/resource/input-output/UAP_SPECIFICATION_VNEXT.md`:49, 129), but a video that is boilerplate is
left out while its comments are published, so their parent is on no topic.
`post_detail` tasks are dispatched, yet no parser is registered for their
artefacts (`internal/uap/usecase/registry.go`:24): they are stored and never
parsed.

## 9. HttpService, ServiceProcess, SourceRequests, SourceRows

| Module | Code |
|---|---|
| `ServiceProcess` | `main` and `HTTPServer.Run` step by step, signals, the consumers' reconnecting loop, the scheduler's goroutine, the connection to the broker, restart |
| `SourceRequests` | per route: what binding, `validate` and the use case refuse, what only the database refuses, the domain errors a use case may end with, and the status each is mapped to |
| `SourceRows` | which columns an insert writes (`boil.Infer` and the whitelist of `CreateTarget`), and how the two queries of a page share their conditions |
| `HttpService` | a request: refused, received, its reads, its writes, its answer; next to all steps of the process |

A request is its route and at most one *flaw*, the thing in it that some layer
refuses or should have: with one flaw each, every guard of every layer decides
some request. What a use case reads decides its domain error and is not
modelled here (`DataSourceLifecycle` does): any of its errors may come.

Abstractions. The consumers of the two queues are one. There is one request at a
time, as no property relates two of them. Redis only caches and is not tracked,
nor is the cron's own goroutine. Of an answer its status is kept, and of a 5xx
the request too. The middleware is external: it lets a request through or
answers 401 or 403.

### Properties

* `RequestsHaveStores`: the order of connecting, serving, shutting down and
  disconnecting; a request that outlives the 15 seconds of Shutdown, or a
  listener that fails, is what `forced` marks.
* `ServerErrorsAreFaults`: 99 outcomes of 28 routes against three tables of
  statuses. `Unnoticed` names, route by route, the requests that are answered
  with 500 though nothing failed, because only the database refuses them: an id
  like `urn:uuid:...`, which `isValidUUID` accepts and PostgreSQL does not; a status
  that is none, a name that is no text to PostgreSQL, or a page whose offset
  overflows, in a list; a category that is not its type's; a value too long or too large
  for its column; and a text or JSON that PostgreSQL cannot store, as one with `\u0000`.
  An `event_ref` over 255 characters is refused so by both crawl mode routes, by
  `UpdateCrawlMode` when the mode is already written. The one other request
  with a 500 of its own is the list with four filters. The paginator is external:
  that a page may overflow is read from the offset its callers pass on.
* `AnswersAreRight`: a page is the page asked for and a created row has what was
  asked. `GetDataSources` counts and fetches in two goroutines that append to one
  slice; with exactly four filters its five conditions have a capacity of eight,
  so both append in place. A wrong page, an SQL error or a panic in a goroutine
  that nothing recovers (`TornPage`) may follow.
* `SignalEndsProcess`, `ConsumersComeBack`: liveness.

### Where the code and its documents differ

Without a run, as they are plain to read: without Redis the service starts and is
degraded, while AGENT.md:464 calls it fatal, and `/ready` then answers 200, degraded, where
AGENT.md:140 has a 503. A SIGTERM between `NotifyContext` and `signal.Notify`, when
no step of `main` asks the context any more, does not end the process: its consumers
stop, and it serves on. A read that fails in `Detail` or
`GetTarget` is answered as 404. The comment at
`internal/datasource/repository/postgre/datasource.go`:198 says that only non-zero
fields are applied; the update writes the whole row as it was read.

## 10. Runs

`MCExecution` gives the model values, the two batch-id assignments and the
symmetry of the consumers, which are interchangeable; `MCDueTargets` the orders of
projects and targets and the symmetry of the heartbeats, `MCRawBatchPipeline` the sizes of
the batches, `MCDataSourceLifecycle` the symmetry of targets and requests,
`MCDispatchProducer` the queues and whose publishers there are, `MCCrawlData` the
strings with their predicates and the inputs, `MCHttpService` the faults. Runs
with liveness properties use no symmetry.

| Run | Instance | Question |
|---|---|---|
| `exec_races` | 2 jobs x 1 task, 2 dispatchers, 1 consumer, three faults, fairness | can a target be run twice at once, and does everything that starts end? |
| `exec_faults` | 1 job x 2 tasks with one batch id, 2 consumers, all faults | do the invariants survive every failure, is a batch recorded once, and does the unlocked aggregation of two open transactions ever claim too much? |
| `exec_task_lifecycle` | 1 job x 2 tasks | a document against the code |
| `due_claims` | 1 target, 2 heartbeats of up to a minute, two crawl modes, all faults, all other writers | are overwritten claims and claims that ran out the only ways to a shared target, and is every claim that led to nothing given back? |
| `due_liveness` | 3 targets of 2 projects, 2 places, one undispatchable target, manual dispatches, fairness | is the list fair in every state the scheduler gets into, and is every target served? |
| `batch_pipeline` | 2 batches of 3 and 0 records, chunks of 2, 2 workers, all faults, fairness | is every record published once and accounted for, does every claim end, and does the pipeline implement `BatchLifecycle`? |
| `source_dryruns` | 2 targets, 2 dry runs, 1 request, 1 consumer, all faults, fairness | is every dry run finished by somebody, and does the source tell the truth about it? |
| `source_requests` | 2 overlapping requests of every kind but Trigger, Archive and Delete, 2 targets, 2 modes | do the handlers keep their promises about source, targets and audit trail, in any sequence? |
| `dispatch_producers` | 2 producers, 2 queues, 3 publishers, 7 channels, one failing call, one outage that may empty the broker, fairness | do channels leak, do the declarations fit, does anybody wait for ever, do the producers keep their contract? |
| `startup_fail_fast` | the same, one failing call, no outage | a document against the code |
| `crawl_data` | every platform and target type; values with blanks and duplicates, every gap in `platform_meta`; one edit; artefacts with missing and shared ids | is every value crawled once, does the dry run predict the dispatch, is what is published right and traceable? |
| `http_service` | every route with every flaw and 0 to 6 filters, every fault, 1 signal, 1 outage, restart, fairness | are stores, answers and the process's end in order? |

Bounds. `Jobs` bounds how many jobs are ever created and `MaxSpecs` how many
tasks a job has. Two tasks are enough to have one completed, one running and one
not created yet at the same moment; two jobs to have a dispatch conflict and a
pause between two dispatches; two consumers to have two open transactions over
one job; two dispatchers to race for a target. The only unbounded behaviour, the
pause, does not grow the state.

In `DueTargets`, `Ticks` bounds how many heartbeats overlap: two are enough for
every property about a pair of them. The exclusion and the release of claims are
about one target at a time, so `due_claims` has one and spends its states on the
other writers and the failures; the proofs cover any number of targets. `Unit` is the clock's resolution and
`MaxAge` how long a heartbeat may take: a minute in `due_claims`, where the claims
of a slow heartbeat run out while it is at work, half of one in `due_liveness`,
where a heartbeat starts before and ends after others are due. `Overdue` bounds how
far back the model remembers a due time; with 4 clock steps the targets of
`due_liveness` still differ in how long they have waited when they compete. Every target is crawled each minute, as often as
the service can, so that places are as scarce as they get; the large intervals
and the upper bound are covered by the proof of `IntervalBounds`.

In `RawBatchPipeline` a batch of three records and chunks of two have a full and
an incomplete chunk; three records are enough to have one accepted, one reported
as failed and one still to come. The batch without records goes through every
update with nothing to publish. Two workers compete for both batches, and as
either may be claimed again after each failure, calls may follow on one another.
The proofs cover any sizes.

In `DataSourceLifecycle` a source of two targets has one dry run end while
another is running, and a last active target that is or is not the only one. Two
dry runs are enough to have an older and a newer one, of one target or of two.
One request next to a consumer, and a dry run in a crawler's hands, already make
Trigger, completion and control operations overlap; two requests overlap in
`source_requests`, where the source stays: what archives or deletes it is in
`source_dryruns`, next to its dry runs. `Controls` says which operations a run has:
each run has those its properties depend on, and together they have all. A crawler answers at
most once (`MaxAnswers`); more deliveries of a completion come from the requeue.
`source_requests` has an action constraint (`NoRequestsOnceTorn`): once a history is torn, the
handlers in progress go on to their end, but no new request comes in. Without it the
run has 8.4 million states instead of 2.6 and the same result; with it there is time
for two overlapping requests of every kind. The specification has no such restriction, and neither
have `source_dryruns` and the proofs.

In `DispatchProducer` two producers share the broker and are set up one after the
other, two publishers compete for one mutex and a third has another, and two
queues are needed because Run fails differently at the first. One failing call
can hit any step; with an outage every channel is lost at once, so that each
session meets a dead writer. Seven channels are more than the two producers can
cache and their sessions hold. The scheduler's producer is like the HTTP
server's; the proofs have all three.

`CrawlData` is finite as it stands: each input goes through once.
`HttpService` has no bound of its own: a request ends, and a process that
ended starts again. One signal reaches all channels; a second finds them taken.

Deadlock is checked in `http_service` alone: in `Execution`, once the jobs are used up, all answers handled and no
pause has anything to cancel, the system rightly stands still. `DueTargets` has no
end state but needs no check either, as a heartbeat can always start or go on.
A deleted source with no dry run is the end of `DataSourceLifecycle`,
all publishes returned that of `DispatchProducer`, the last record that of
`CrawlData`.

Fairness. `FairSpec` assumes weak fairness of each dispatching and each
consuming goroutine's own steps: a goroutine the Go scheduler may run is run,
and the database and broker calls return. Nothing is assumed of users, crawlers,
pauses or faults. Crashes and database errors are left out of `exec_races`,
since either may repeat for ever and a Nack with requeue then repeats with it.
In `DueTargets`, cron starts heartbeats for ever and a heartbeat goes on to its
end. Nothing is assumed of the clock: `Clock` waits for the next heartbeat once a
minute has passed without one, which is cron's schedule seen from the clock.
In `RawBatchPipeline` a call that has claimed a batch goes on (`WorkerStep`);
calls, crashes and faults are not forced, and since no step of a call leads
back, liveness is checked with all of them.
In `DataSourceLifecycle` handlers go on, a crawler answers at least once, and a
completion in the queue is delivered again and again as long as it comes back.
The transaction of the consumer has strong fairness: the database may fail it
any number of times, but not for ever, which is what a requeue is for.
In `DispatchProducer` broker calls return and the connection comes back. The wait
for the mutex has strong fairness: Go's mutex goes over to handing itself to the
longest waiter after a millisecond. In `HttpService` `main`, the goroutines, the
consumers and the connection go on; nothing is assumed of requests, of a worker
inside a delivery, of signals or of a kill.

## 11. Proofs

`Execution_proofs` proves, for any sets of targets, jobs, dispatchers and
consumers, any fan-out, any batch-id assignment and any set of faults:

* `TypeCorrect`, `SuccessIsComplete`, `AckedIsSettled`, `Traceability`,
  `CompletedAtIsConsistent`, `OneRunningJob`: the safety invariants above;
* `RawBatchesKept`, `TaskCompletionKept`: the two action properties;
* `LedgerImplemented`: the refinement of `JobLedger`, with the set of the
  statuses of a target's jobs for `jobs`;
* `Invariance`: the inductive invariant `IInv` they all follow from.

Assumptions: those the module names (`ExecutionAssumption`,
`NoMessageIsNone`), that is, the shapes of the constants and that `None` is not
a target, job, task, message or verdict. None bounds a set.

Why the safety properties are not inductive by themselves, and what `IInv` adds:

* a job becomes SUCCESS by a verdict that was computed earlier, so the verdict an
  open transaction holds must still be right when it commits (`VerdictHolds`, for
  its task row and batch in `AloneInTx`, for the counts in `AggregateHolds`): every spec it counted is recorded or is the one it is about to record. This
  works because a raw batch is never taken back, and because the transaction
  keeps its task row and its batch id to itself;
* the aggregation counts task rows, so a SUCCESS row must mean a recorded batch
  (`SuccessIsRecorded`), even after `MarkExternalTaskPublished` overwrote it;
* the dispatcher's blind inserts must not hit a row that exists, so the tasks it
  has still to create do not exist (`OwnsJob`), and no two dispatchers share a job;
* an acknowledgement follows a check made several steps before, so what the
  check saw must be kept: `completed_at` and raw batches only ever appear.

Each step of the induction is a lemma named after its action; the frame lemmas
(`VerdictsFrame`, `MessagesFrame`, `AckedFrame`, `OwnersFrame`,
`OtherOwnersFrame`) say when an action that leaves some rows alone keeps a part
of the invariant.

The refinement needs of `IInv` that a job is created once, that a completion or
a finalization writes a job that exists, and that neither writes NONE. A status
of a set may be that of several jobs, so `WriteIsLedgered` splits the set into
the written job's and the others'. The theorem has no run of its own: `JobLedger`
is there to be assumed by `DueTargets`, and is loose on purpose.

`DueTargets_proofs` proves, for any projects, targets, intervals, limits and
numbers of overlapping heartbeats, any faults and any mix of the other writers:

* `TypeCorrect`;
* `ClaimsExclude` and `ClaimsLookAhead`, `KeptClaimIsExclusive` and
  `ClaimsAreAhead`, for heartbeats of any length;
* `ClaimsGivenBack`, `ClaimsAreGivenBack`;
* `IntervalBounds` and `ModesAreOrdered`, about the effective interval.

The exclusion cannot be proved from itself: when a heartbeat claims, one must know
for how long a target another heartbeat holds is not due. `ExclusionInv` adds that
(`ClaimsAreAhead`: the claimed time is the listed interval after the start of the
claiming heartbeat, or later), and, since the interval is computed when the target
is listed and used some steps later, that every listed interval is at least a minute
(`WorkIsMinutesApart`, from `IntervalBounds`). A heartbeat that finds a kept claim due
then started its interval later than the claim's holder, and the difference of two
ages never changes, which is how overlaps stay in the invariant. `NoNewClaims`
covers all steps but the claim itself, with the clock as its parameter; `ClaimStep`
is the heart of the proof. For `ClaimsGivenBack` it is enough that each way out
of a claim releases it or is recorded in `spent` (`StillGivenBack`).

`RawBatchPipeline_proofs` proves, for any batches, sizes, chunk size, number of
workers and set of faults:

* `TypeCorrect`, `RecordsPublishedOnce`, `RowsAccountForTopic`,
  `ParsedBatchesAreWhole`, `ClaimsAreHeld`: the five invariants;
* `Refinement`: `Spec => Lifecycle!Spec`, every step is a step of
  `BatchLifecycle` or changes nothing its readers see;
* `Invariance`: `IInv`.

`PublishedOnce` rests on three facts about different pieces of state: no two
calls hold one batch (`OneHolder`); the row of a held batch cannot be claimed
(`HeldIsTaken`), for which it matters that the row is PUBLISHING until its call
writes a verdict; and a row that can be claimed has nothing in the topic
(`ClaimableIsFresh`), although `MarkRawBatchFailed` writes PENDING again, as it
writes FAILED too. `CallsAgree` ties what a call has counted and where it stands
among its records to topic and parts; the verdict of a batch, computed from the
counts alone, is right because of it. The counting itself is in the lemma
`Delivered`: a delivery of a record that was not in the topic adds one to what
`Brackets` compares with.

`DispatchProducer_proofs` proves, for any of the three producers, any task queues,
publishers and channels, and any number of faults and outages:

* `TypeCorrect`, `ChannelsOwned`, `DeadLettersPlaced`, `HealthyBrokerServed`: the
  type invariant and the three invariants of the run.

It assumes `ProducerAssumption`, and of it really needs that no task queue is listed
twice: Run would open a second channel for a queue that has one, overwrite the
writer and leak the first. `IInv` has these parts. `SessionsOwn`: a session that
works has its producer's mutex, and no other session of that producer holds a
channel. `Once` and `Live`: of all places where a channel can be (a writer of a
producer, the hand of a session that has not stored it yet) a channel that is open
or lost is in exactly one, and a free one in none. To keep that when a channel is
opened one must know that its queue has no writer at that moment (`Fresh`,
`Replaces`): a publisher opens one only if none is cached or the cached one was
just given up, while Run opens one per queue in their order, on a producer
nobody publishes on yet (`RunsFirst`) and whose queues are distinct. `Close` on the error path
waits for a mutex its own session holds, which `SessionsOwn` makes a contradiction:
its action is never enabled, which is also how the violation of `StartupFailsFast` comes
about. For the dead letters, `DInv` adds how far the topology has come: the
execution producer declares the exchange and the queue before the task queue, and the
dry-run producer, which does not, starts after it is done. For the healthy broker, `HInv`
adds that without faults and outages no channel is lost and no declaration is refused.

`DataSourceLifecycle_proofs` proves, for any targets, dry runs, requests,
consumers, modes and any sets of operations and faults:

* `TypeCorrect`, `PausedAtAgrees`;
* `TerminalResultKept`, and `RunningIsNeverForgotten` if `MaxAnswers > 0`, that is, if a
  crawler answers a task at all, as it does in `source_dryruns`;
* `DryrunStatusIsTrue`, `ReadyIsAlwaysEarned` and `ModesAreLogged`, about histories
  that are not torn.

The first four hold whoever overtakes whom, and follow from `IInv`. Its largest part
is `Handlers`: the todo list a handler can have at each point (`Plan`: `Editing`,
`Triggering`, `Completing`, `Acking`), with columns of the right types, and the row
it has found, of the table its next step writes. `Sound` says of every set of columns
in a list that a status comes with its `paused_at`, and `PausedRows` that the row a
handler is about to write back agrees with itself as well as the one in the table does: that
is why a write over a pause takes both columns back. `Waited` passes a running
dry run from the Trigger to the crawler, the queue and the consumer. `Claims` is about
the dry runs that are not disputed: until its publish a Trigger has its dry run for
itself (`Alone`), and a consumer that is to complete a dry run finds it running and is
the only one that is to (`Decides`), so that no one completes it a second time.
`Settled` and `Known` say that a consumer past its transaction has seen a terminal
result, and that whatever names a dry run names one that exists.

The other three need `JInv`: a handler that is not stale has read the row as it is
(`FreshRow`), and what its list says of the last dry run, of READY and of the mode is
true, or will be once its own earlier step is done (`Writing`). Most lists say nothing about
these (`Harmless`); a Trigger's and a mode change's are the ones that do. `Early` is
needed for the Trigger: it writes RUNNING after its insert, and that is true only while
no completion can have come, that is before its publish. Every
write makes the other handlers stale; a stale write tears the history, and with it these
claims.

`DataSourceChecks_proofs` proves, for any targets, dry runs, requests, consumers and
any sets of operations and faults, what the handlers' checks are for:

* `ArchivedIsQuiet` and `ActiveHasTarget`, about histories that are not torn.

Neither promise is inductive: each relates the source row to all its targets or their
latest dry runs, and a handler writes one row some steps after it has read the
others. `KInv` therefore says of every handler that is not stale that what it checked is
still so (`Seen`): Archive that no dry run runs, an activation that there is an
active target, a deactivation that there is another one, `UpdateTarget` that its target,
which it may bring back into sight, has no dry run running, a Trigger that the source is not
archived. `Form` says which lists are possible, so that a list without one of these
checks can be seen to need none. `StillActive` is the promise about the targets with
the edit that has yet to demote the source named precisely (`Demotes`), and
`TriggeredIsMade` that no dry run belongs to a target still to be inserted, which would
come into sight with it. That a completion only ever ends dry runs rests on the latest
one of a target being the same before and after (`EndedIsNotRunning`); that there is
one at all, a greatest element of a bounded set of numbers, on the well-foundedness
of the natural numbers.

`CrawlData_proofs` proves of the prefilter, for texts of any length, any terms and any
context, what TLC checks on a few: `PrefilterIsRelevance`, its sums, caps and
thresholds amount to a definition of relevance without numbers; `SignalsNeverHurt`, it is
monotone; `ContextAloneIsNotKept`; and `BoilerplateIsKeptForACrisis`. And of the way of a
target's data, for any inputs, `platform_meta`, artefacts and functions on strings:

* `ValuesAreDispatched`, `DryrunAgrees`, `OnlyBusinessIsPublished` and
  `RecordsAreTraced`: the four invariants of the run.

It assumes what the modules name: `TrimAssumption`, `KeywordSaysAssumption` (the terms
of a keyword are among the term lists) and `InputsAssumption` (what users enter are rows
of strings). The invariant `CInv` says where everything came from: the row was prepared
from what was entered, a dry run and a job were made from the row they saw, the batch
answers a task of the job, and records carry that task's attribution; together with
`BusinessIsPublished`, which says what the parser has published up to the bundle it
is at, and which is inductive because a bundle adds its own ids and no others
(`YouTubeIds`, which rests on `PrefilterIsRelevance`). The rest is about sequences. The
helpers that filter and deduplicate are `EntriesAt` of a set of positions. `Counting`
shows that the positions before a position number the positions of the set from 0, each
once; `Entries`, that nothing is lost, doubled or moved by it; so `NonBlank` and
`Distinct` keep what they should (`KeepsNonBlank`, `KeepsOneOfEach`), a list without
gaps stays as it is, and a prepared list, trimmed and filtered once more by the
dispatch and once more by the dry run, is the same list (`PreparedValues`). `TaskSays`
collects what attribution will find in a task, whichever of the three kinds it is.

`DueTargets_proofs` also proves

* `ListsAreFair`: `ListIsFair`, for any projects, targets and limit, under
  `RanksAreOrders`: no two projects have the same id, and ROW_NUMBER gives no two
  targets of a project the same number.

`Listed` counts in two orders, one inside the other. The lemma `Ranks` is about any
finite set with a strict total order: the number of those before an element grows along
the order and takes each value from 0 up. It is used for the due targets of a project
(`RowNumbers`) and then for the list (`Positions`). `Fair` puts the two together: if a
target is left off and its project has m places, one of the first m + 1 rows of the project is
not listed, all that is listed comes before that one, and a project has at most m + 1
rows before it (`FirstRows`).

`DispatchProducer_proofs` also proves

* `PublishingImplemented`: `ImplementsPublishing`, every step of the producers is a step
  of `TaskPublishing` or nothing the use cases see, whatever fails.

A message reaches its queue when it is published on an open channel and the queue is
bound. That a publish does not return nil for a message that got nowhere needs two facts
more than `IInv`: without a connection no channel is open (`Offline`), and a session that
is to publish on an open channel has bound its queue, or found it bound by the one that
cached the channel, and no outage has emptied the broker since (`Bound`): an outage loses
every channel.

`HttpService_proofs` proves, for any number of signals, outages, failing steps and
restarts:

* `StoresWhileServing`, `ServerErrorsExplained` and `AnswersRight`: the three invariants of
  the run.

`PInv` follows `main`: at each of its steps the stores connected so far are open
(`StoresOpened`), the listener is not up before its step nor after the shutdown
(`ListenerInTime`), and a request in service has a live process whose server it came
through (`ServedInTime`); a request that outlives the shutdown makes it `forced`. `RInv`
follows the request: what is read or written has passed both validations (`Validated`), so
that its flaw, if it has one, is one only the database can refuse. That the tables of domain errors hold no status
from 500 on is proved table by table (`SourceTables`, `TargetTables`, `OtherTables`),
and that four is the only number of filters for which the two goroutines share slots in
`FourFiltersShareSlots`.

Only model-checked: the liveness properties (fairness and ENABLED are out of the prover's
reach), and of course the properties that do not hold. Every invariant, action property and
refinement that a run checks is also proved, some under the hypotheses named above.

## 12. Not modelled

* Almost half of the service's lines, 15,400 of 32,900, are the generated database
  layer: eight tables with the same operations. `SourceRows` has what differs from
  the obvious, the columns of an insert and the conditions of a page; relations,
  hooks and bulk operations have no callers.
* What a request, a message, an artefact or a record holds besides what decides its
  way: texts, counts, times, media, limits of a task.
* The middleware, the RabbitMQ, Kafka, MinIO and Redis clients and the project service
  are other repositories, and modelled as they answer here.
* The values of the configuration; logging, metrics, the notifications to Discord.
* Passive sources (webhooks, uploads), which have no dispatch route; several
  sources in one project; `last_success_at` and `last_error_at`; the onboarding columns.

One behaviour has no property because the code does nothing about it: a process
that stops between `CreateScheduledJob` and the last task leaves its job
RUNNING, no timeout or sweep closes it, and `CreateScheduledJob` answers every
later dispatch of that target with a conflict until the project is paused.
Likewise a process that stops between the commit of a completion and the claim
of its raw batch leaves the batch RECEIVED: the completion is redelivered, found
to be a duplicate and discarded, and no other code parses it.
