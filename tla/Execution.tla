------------------------------ MODULE Execution ------------------------------
(***************************************************************************)
(* The execution plane of ingest-srv: how a due or manually dispatched     *)
(* crawl target becomes a scheduled job, external tasks, request messages  *)
(* for the crawlers, and how the crawlers' completions become raw batches  *)
(* and settle tasks and jobs (internal/execution).                         *)
(*                                                                         *)
(* The model has one project with one CRAWL data source and several crawl  *)
(* targets.  An action is one database statement or transaction, one       *)
(* broker call, or one message of a goroutine; what a goroutine read       *)
(* earlier stays in its record and may be stale when it is used.  Which    *)
(* targets are due and who may claim them is the subject of DueTargets;    *)
(* here a dispatch starts at any time, with the context it has validated.  *)
(*                                                                         *)
(* Transactions run at READ COMMITTED.  CompleteTaskSuccess and            *)
(* CompleteTaskError read the job's tasks and write the job's status       *)
(* without locking either, so they are two steps here: the statements up   *)
(* to the recomputation, and the commit that publishes its result.         *)
(***************************************************************************)
EXTENDS Naturals, FiniteSets

CONSTANTS
  Targets,      \* crawl targets of the data source
  Jobs,         \* ids scheduled jobs may get; bounds the number of jobs
  MaxSpecs,     \* bound on the dispatch specs (keywords, profiles) of a target
  Batches,      \* batch ids a completion may carry
  BatchId,      \* the batch id the crawler gives a task's artefact
  Dispatchers,  \* goroutines that dispatch: HTTP requests and cron ticks
  Consumers,    \* goroutines that consume ingest_task_completions
  Faults,       \* the failures a run lets happen
  CrawlerRepeats, \* whether a crawler may answer one task more than once
  None          \* "no row" and "no message"

Tasks == Jobs \X (1..MaxSpecs)
FaultKinds == {"project", "publish", "db", "crash", "invalid", "object"}

(* The statuses of rows, and the messages of the crawlers.                 *)
Failed == {"FAILED", "CANCELLED"}
Live == {"PENDING", "RUNNING"}
TaskStatus == {"NONE", "SUCCESS"} \cup Live \cup Failed
JobStatus == {"NONE", "RUNNING", "PARTIAL", "SUCCESS"} \cup Failed
Cancellable == {"RUNNING", "PARTIAL"}

Completion == [task : Tasks, status : {"success", "error", "invalid"}]
Verdict == [status : JobStatus, done : BOOLEAN]
TxVerdict == [task : [status : {"SUCCESS", "FAILED"}, done : {TRUE}], job : Verdict]

ASSUME ExecutionAssumption ==
  /\ MaxSpecs \in Nat \ {0}
  /\ BatchId \in [Tasks -> Batches]
  /\ Faults \subseteq FaultKinds
  /\ CrawlerRepeats \in BOOLEAN
  /\ None \notin Targets \cup Jobs \cup Tasks

ASSUME NoMessageIsNone == None \notin Completion /\ None \notin TxVerdict

VARIABLES
  job,          \* scheduled_jobs: status, completed_at set, target, task_count
  task,         \* external_tasks: status, completed_at set
  rawBatch,     \* raw_batches by batch_id: the task whose artefact it records
  requests,     \* task messages the crawlers may work on
  inbox,        \* messages ready in ingest_task_completions
  acked,        \* history: the completions acknowledged so far
  disp,         \* dispatching goroutines
  cons          \* consuming goroutines

vars == <<job, task, rawBatch, requests, inbox, acked, disp, cons>>
ledgerVars == <<job, task, rawBatch>>
brokerVars == <<requests, inbox, acked>>

(***************************************************************************)
(* Rows and messages.                                                      *)
(***************************************************************************)
NoJob == [status |-> "NONE", done |-> FALSE, target |-> None, specs |-> 0]
NoTask == [status |-> "NONE", done |-> FALSE]
IdleDispatcher == [pc |-> "idle", target |-> None, job |-> None,
                   specs |-> 0, next |-> 0, sent |-> 0]
IdleConsumer == [pc |-> "idle", msg |-> None, verdict |-> None]

Exists(k) == task[k].status # "NONE"
Current(d) == <<disp[d].job, disp[d].next>>
Settled(status) == [status |-> status, done |-> TRUE]
Close(row, verdict) == [row EXCEPT !.status = verdict.status, !.done = verdict.done]

(* The specs of job j whose task is, in the rows tk, in one of statuses S. *)
SpecsIn(j, tk, S) == {i \in 1..job[j].specs : tk[<<j, i>>].status \in S}

(* Mutant of Recomputed: the aggregation forgets the specs without a row.  *)
RecomputedOverRows(j, tk) ==
  IF SpecsIn(j, tk, Live) # {} THEN [status |-> "RUNNING", done |-> FALSE]
  ELSE Settled(IF SpecsIn(j, tk, Failed) = {} THEN "SUCCESS" ELSE "FAILED")

(* recomputeScheduledJobStatus over the task rows tk: specs for which no   *)
(* row exists yet count as failed.                                         *)
Recomputed(j, tk) ==
  LET running == SpecsIn(j, tk, Live)
      success == SpecsIn(j, tk, {"SUCCESS"})
      failed  == SpecsIn(j, tk, Failed \cup {"NONE"})
  IN  IF running # {}
      THEN [status |-> IF failed = {} THEN "RUNNING" ELSE "PARTIAL", done |-> FALSE]
      ELSE Settled(IF success = 1..job[j].specs THEN "SUCCESS"
                   ELSE IF failed = 1..job[j].specs THEN "FAILED" ELSE "PARTIAL")

-----------------------------------------------------------------------------
(* The project is paused, any number of times: in one transaction its live *)
(* tasks and open jobs become CANCELLED.  The update waits for the row     *)
(* lock of a task a completion is writing.                                 *)
(***************************************************************************)
RowFree(k) ==
  \A c \in Consumers : cons[c].pc = "commit" => cons[c].msg.task # k

CancelProjectRuntime ==
  /\ \A k \in Tasks : task[k].status \in Live => RowFree(k)
  /\ task' = [k \in Tasks |-> IF task[k].status \in Live
                              THEN Settled("CANCELLED") ELSE task[k]]
  /\ job' = [j \in Jobs |->
               IF job[j].status \in Cancellable
               THEN Close(job[j], Settled("CANCELLED")) ELSE job[j]]
  /\ UNCHANGED <<rawBatch, brokerVars, disp, cons>>

-----------------------------------------------------------------------------
(***************************************************************************)
(* Dispatchers: HTTP requests and cron ticks, once they have validated     *)
(* their target and run dispatchPrepared.  A dispatch starts only while a  *)
(* job id is left.                                                         *)
(***************************************************************************)
Goto(d, pc) == disp' = [disp EXCEPT ![d].pc = pc]
Leave(d) == disp' = [disp EXCEPT ![d] = IdleDispatcher]

FreeJobs == {j \in Jobs : job[j] = NoJob /\ \A d \in Dispatchers : disp[d].job # j}

DispatchTarget(d, t) ==
  /\ disp[d].pc = "idle"
  /\ \E j \in FreeJobs, n \in 1..MaxSpecs :
       disp' = [disp EXCEPT ![d] = [pc |-> "prepared", target |-> t, job |-> j,
                                    specs |-> n, next |-> 1, sent |-> 0]]
  /\ UNCHANGED <<ledgerVars, brokerVars, cons>>

(* The transaction that locks the target row; a RUNNING job of the target  *)
(* is a conflict and ends the dispatch.                                    *)
(* Mutant of RunningJobExists: it looks for jobs that wait to start.       *)
PendingJobExists(t) ==
  \E j \in Jobs : job[j].target = t /\ job[j].status = "PENDING"

RunningJobExists(t) ==
  \E j \in Jobs : job[j].target = t /\ job[j].status = "RUNNING"

CreateScheduledJob(d) ==
  /\ disp[d].pc = "prepared"
  /\ \/ /\ ~RunningJobExists(disp[d].target)
        /\ job' = [job EXCEPT ![disp[d].job] =
                     [status |-> "RUNNING", done |-> FALSE,
                      target |-> disp[d].target, specs |-> disp[d].specs]]
        /\ Goto(d, "spec")
     \/ RunningJobExists(disp[d].target) /\ Leave(d) /\ UNCHANGED job
     \/ "db" \in Faults /\ Leave(d) /\ UNCHANGED job
  /\ UNCHANGED <<task, rawBatch, brokerVars, cons>>

(* Mutant of NextSpec: a failed spec is tried for ever.                    *)
RetrySpec(d, sent) ==
  disp' = [disp EXCEPT ![d].pc = "spec", ![d].next = @ + sent, ![d].sent = @ + sent]

MoreSpecs(d) == disp[d].pc = "spec" /\ disp[d].next <= disp[d].specs
NextSpec(d, sent) ==
  disp' = [disp EXCEPT ![d].pc = "spec", ![d].next = @ + 1, ![d].sent = @ + sent]

CreateExternalTask(d) ==
  /\ MoreSpecs(d)
  /\ task' = [task EXCEPT ![Current(d)] = [status |-> "PENDING", done |-> FALSE]]
  /\ Goto(d, "created")
  /\ UNCHANGED <<job, rawBatch, brokerVars, cons>>

(* The domain type does not resolve, or the insert fails: no row.          *)
SpecFails(d) ==
  /\ {"project", "db"} \cap Faults # {}
  /\ MoreSpecs(d)
  /\ NextSpec(d, 0)
  /\ UNCHANGED <<ledgerVars, brokerVars, cons>>

PublishDispatch(d) ==
  /\ disp[d].pc = "created"
  /\ requests' = requests \cup {Current(d)}
  /\ Goto(d, "published")
  /\ UNCHANGED <<ledgerVars, inbox, acked, cons>>

(* The producer reports an error; the broker may have the message anyway,  *)
(* from this attempt or from the one the producer retried.                 *)
PublishFails(d) ==
  /\ "publish" \in Faults
  /\ disp[d].pc = "created"
  /\ requests' \in {requests, requests \cup {Current(d)}}
  /\ Goto(d, "unpublished")
  /\ UNCHANGED <<ledgerVars, inbox, acked, cons>>

(* Mutant of MarkExternalTaskPublished: it writes the row as it was read.  *)
MarkPublishedWholeRow(d) ==
  /\ disp[d].pc = "published"
  /\ task' = [task EXCEPT ![Current(d)] = [status |-> "RUNNING", done |-> FALSE]]
  /\ NextSpec(d, 1)
  /\ UNCHANGED <<job, rawBatch, brokerVars, cons>>

(* Overwrites whatever status the row has by now; completed_at stays.      *)
MarkExternalTaskPublished(d) ==
  /\ disp[d].pc = "published"
  /\ RowFree(Current(d))
  /\ \/ /\ task' = [task EXCEPT ![Current(d)].status = "RUNNING"]
        /\ NextSpec(d, 1)
     \/ "db" \in Faults /\ Goto(d, "unpublished") /\ UNCHANGED task
  /\ UNCHANGED <<job, rawBatch, brokerVars, cons>>

(* Mutant of MarkExternalTaskFailed: the unpublished task is deleted.      *)
DeleteUnpublishedTask(d) ==
  /\ disp[d].pc = "unpublished"
  /\ task' = [task EXCEPT ![Current(d)] = NoTask]
  /\ NextSpec(d, 0)
  /\ UNCHANGED <<job, rawBatch, brokerVars, cons>>

MarkExternalTaskFailed(d) ==
  /\ disp[d].pc = "unpublished"
  /\ RowFree(Current(d))
  /\ \/ task' = [task EXCEPT ![Current(d)] = Settled("FAILED")]
     \/ "db" \in Faults /\ UNCHANGED task
  /\ NextSpec(d, 0)
  /\ UNCHANGED <<job, rawBatch, brokerVars, cons>>

(* The end of dispatchPrepared.  Nothing published: FAILED; part of it:    *)
(* PARTIAL with completed_at cleared; all of it: the row is left alone.    *)
CloseJob(d, verdict) == job' = [job EXCEPT ![disp[d].job] = Close(@, verdict)]

FinalizeScheduledJob(d) ==
  /\ disp[d].pc = "spec"
  /\ disp[d].next > disp[d].specs
  /\ \/ disp[d].sent = 0 /\ CloseJob(d, Settled("FAILED"))
     \/ /\ disp[d].sent \in 1..(disp[d].specs - 1)
        /\ CloseJob(d, [status |-> "PARTIAL", done |-> FALSE])
     \/ disp[d].sent = disp[d].specs /\ UNCHANGED job
     \/ "db" \in Faults /\ UNCHANGED job
  /\ Leave(d)
  /\ UNCHANGED <<task, rawBatch, brokerVars, cons>>

CrashDispatcher(d) ==
  /\ "crash" \in Faults
  /\ disp[d].pc # "idle"
  /\ Leave(d)
  /\ UNCHANGED <<ledgerVars, brokerVars, cons>>

-----------------------------------------------------------------------------
(***************************************************************************)
(* The crawlers (outside this repository): they answer request messages,   *)
(* and answer again after a redelivery or a retried publish.               *)
(***************************************************************************)
CrawlerAnswers(k) ==
  /\ k \in requests
  /\ requests' = IF CrawlerRepeats THEN requests ELSE requests \ {k}
  /\ \E m \in Completion :
       /\ m.task = k
       /\ m.status = "invalid" => "invalid" \in Faults
       /\ inbox' = inbox \cup {m}
  /\ UNCHANGED <<ledgerVars, acked, disp, cons>>

(***************************************************************************)
(* Consumers: handleCompletionWorker and HandleCompletion.  A message is   *)
(* with its consumer from delivery to Ack, and back in the queue after a   *)
(* Nack, a panic or a crash.                                               *)
(***************************************************************************)
Message(c) == cons[c].msg
BatchOf(c) == BatchId[Message(c).task]
Handle(c, pc) == cons' = [cons EXCEPT ![c].pc = pc]

Ack(c) ==
  /\ cons' = [cons EXCEPT ![c] = IdleConsumer]
  /\ acked' = acked \cup {Message(c)}

Receive(c) ==
  /\ cons[c].pc = "idle"
  /\ \E m \in inbox :
       /\ inbox' = inbox \ {m}
       /\ cons' = [cons EXCEPT ![c].pc = "received", ![c].msg = m]
  /\ UNCHANGED <<ledgerVars, requests, acked, disp>>

(* The message is malformed, or the task row it read says there is nothing *)
(* left to do.                                                             *)
Ignorable(m) ==
  \/ m.status = "invalid"
  \/ ~Exists(m.task)
  \/ task[m.task] = Settled("CANCELLED")
  \/ m.status = "error" /\ task[m.task] = Settled("FAILED")

(* Mutant of LookupTask: a discarded message is left without an Ack.       *)
LookupWithoutAck(c) ==
  /\ cons[c].pc = "received"
  /\ ~Ignorable(Message(c))
  /\ Handle(c, IF Message(c).status = "success" THEN "checking" ELSE "failing")
  /\ UNCHANGED <<ledgerVars, brokerVars, disp>>

LookupTask(c) ==
  /\ cons[c].pc = "received"
  /\ \/ Ignorable(Message(c)) /\ Ack(c)
     \/ /\ ~Ignorable(Message(c))
        /\ Handle(c, IF Message(c).status = "success" THEN "checking" ELSE "failing")
        /\ UNCHANGED acked
  /\ UNCHANGED <<ledgerVars, requests, inbox, disp>>

(* HasRawBatch, then the object in MinIO.                                  *)
CheckRawBatch(c) ==
  /\ cons[c].pc = "checking"
  /\ \/ rawBatch[BatchOf(c)] # None /\ Ack(c)
     \/ rawBatch[BatchOf(c)] = None /\ Handle(c, "storing") /\ UNCHANGED acked
     \/ /\ "object" \in Faults
        /\ rawBatch[BatchOf(c)] = None /\ Handle(c, "failing") /\ UNCHANGED acked
  /\ UNCHANGED <<ledgerVars, requests, inbox, disp>>

(* The statements of the transaction up to the recomputation.  They wait   *)
(* for another transaction that holds the task row or inserted the batch.  *)
InsertedElsewhere(b) ==
  \E c \in Consumers : /\ cons[c].pc = "commit"
                       /\ cons[c].verdict.task.status = "SUCCESS"
                       /\ BatchOf(c) = b

BeginTx(c, status) ==
  /\ RowFree(Message(c).task)
  /\ LET k == Message(c).task
     IN  cons' = [cons EXCEPT
                    ![c].pc = "commit",
                    ![c].verdict = [task |-> Settled(status),
                                    job  |-> Recomputed(k[1],
                                       [task EXCEPT ![k] = Settled(status)])]]

(* Mutant of CompleteTaskSuccess: no unique index on the batch id.         *)
CompleteWithoutUniqueIndex(c) ==
  /\ cons[c].pc = "storing"
  /\ BeginTx(c, "SUCCESS")
  /\ UNCHANGED <<ledgerVars, brokerVars, disp>>

CompleteTaskSuccess(c) ==
  /\ cons[c].pc = "storing"
  /\ \/ rawBatch[BatchOf(c)] # None /\ Ack(c)
     \/ /\ rawBatch[BatchOf(c)] = None /\ ~InsertedElsewhere(BatchOf(c))
        /\ BeginTx(c, "SUCCESS") /\ UNCHANGED acked
  /\ UNCHANGED <<ledgerVars, requests, inbox, disp>>

CompleteTaskError(c) ==
  /\ cons[c].pc = "failing"
  /\ BeginTx(c, "FAILED")
  /\ UNCHANGED <<ledgerVars, brokerVars, disp>>

CommitCompletion(c) ==
  /\ cons[c].pc = "commit"
  /\ LET k == Message(c).task
         v == cons[c].verdict
     IN  /\ task' = [task EXCEPT ![k] = v.task]
         /\ job' = [job EXCEPT ![k[1]] = Close(@, v.job)]
         /\ rawBatch' = IF v.task.status = "SUCCESS"
                        THEN [rawBatch EXCEPT ![BatchOf(c)] = k] ELSE rawBatch
  /\ Handle(c, "committed")
  /\ UNCHANGED <<brokerVars, disp>>

(* The batch is parsed, whatever comes of it, and the message is acked.    *)
FinishCompletion(c) ==
  /\ cons[c].pc = "committed"
  /\ Ack(c)
  /\ UNCHANGED <<ledgerVars, requests, inbox, disp>>

(* A database error or a panic before the commit, or a crash at any point: *)
(* the message goes back to the queue.                                     *)
(* Mutant of Requeue: a completion that failed is discarded with an Ack.   *)
DiscardFailed(c) ==
  /\ cons[c].pc # "idle"
  /\ Faults \cap {"db", "crash"} # {}
  /\ Ack(c)
  /\ UNCHANGED <<ledgerVars, requests, inbox, disp>>

Requeue(c) ==
  /\ cons[c].pc # "idle"
  /\ \/ "crash" \in Faults
     \/ "db" \in Faults /\ cons[c].pc # "committed"
  /\ inbox' = inbox \cup {Message(c)}
  /\ cons' = [cons EXCEPT ![c] = IdleConsumer]
  /\ UNCHANGED <<ledgerVars, requests, acked, disp>>

-----------------------------------------------------------------------------
Init ==
  /\ job = [j \in Jobs |-> NoJob]
  /\ task = [k \in Tasks |-> NoTask]
  /\ rawBatch = [b \in Batches |-> None]
  /\ requests = {}
  /\ inbox = {}
  /\ acked = {}
  /\ disp = [d \in Dispatchers |-> IdleDispatcher]
  /\ cons = [c \in Consumers |-> IdleConsumer]

DispatcherStep(d) ==
  \/ CreateScheduledJob(d) \/ CreateExternalTask(d) \/ SpecFails(d)
  \/ PublishDispatch(d) \/ PublishFails(d)
  \/ MarkExternalTaskPublished(d) \/ MarkExternalTaskFailed(d)
  \/ FinalizeScheduledJob(d)

ConsumerStep(c) ==
  \/ Receive(c) \/ LookupTask(c) \/ CheckRawBatch(c)
  \/ CompleteTaskSuccess(c) \/ CompleteTaskError(c)
  \/ CommitCompletion(c) \/ FinishCompletion(c)

Next ==
  \/ CancelProjectRuntime
  \/ \E d \in Dispatchers :
       \/ \E t \in Targets : DispatchTarget(d, t)
       \/ DispatcherStep(d) \/ CrashDispatcher(d)
  \/ \E k \in Tasks : CrawlerAnswers(k)
  \/ \E c \in Consumers : ConsumerStep(c) \/ Requeue(c)

Spec == Init /\ [][Next]_vars

(* A goroutine that has work and may run runs: dispatches end and          *)
(* deliveries are handled.  Nothing is assumed of users, crawlers, faults. *)
Fairness ==
  /\ \A d \in Dispatchers : WF_vars(DispatcherStep(d))
  /\ \A c \in Consumers : WF_vars(ConsumerStep(c))

FairSpec == Spec /\ Fairness

-----------------------------------------------------------------------------
(***************************************************************************)
(* Properties.                                                             *)
(***************************************************************************)
JobRow == [status : JobStatus, done : BOOLEAN,
           target : Targets \cup {None}, specs : 0..MaxSpecs]
TaskRow == [status : TaskStatus, done : BOOLEAN]

DispatcherState ==
  [pc : {"idle", "prepared", "spec", "created", "published", "unpublished"},
   target : Targets \cup {None}, job : Jobs \cup {None},
   specs : 0..MaxSpecs, next : 0..(MaxSpecs + 1), sent : 0..MaxSpecs]

ConsumerState ==
  [pc : {"idle", "received", "checking", "storing", "failing", "commit", "committed"},
   msg : Completion \cup {None},
   verdict : TxVerdict \cup {None}]

(* Every variable holds rows, messages and goroutine states of the shapes  *)
(* the schema and the handlers define.                                     *)
TypeOK ==
  /\ job \in [Jobs -> JobRow]
  /\ task \in [Tasks -> TaskRow]
  /\ rawBatch \in [Batches -> Tasks \cup {None}]
  /\ requests \subseteq Tasks
  /\ inbox \subseteq Completion
  /\ acked \subseteq Completion
  /\ disp \in [Dispatchers -> DispatcherState]
  /\ cons \in [Consumers -> ConsumerState]

Recorded(k) == rawBatch[BatchId[k]] = k

(* A job reports SUCCESS only if the artefact of every one of its specs,   *)
(* including those the dispatcher had yet to create, was recorded as a raw *)
(* batch: the aggregation of recomputeScheduledJobStatus never loses one,  *)
(* whatever it read while other transactions were open.                    *)
JobSuccessIsComplete ==
  \A j \in Jobs : job[j].status = "SUCCESS" =>
    \A i \in 1..job[j].specs : Recorded(<<j, i>>)

(* An acknowledged completion is never lost: its batch is recorded or its  *)
(* task is settled (failed, or cancelled with the project).  A crash,      *)
(* redelivery or duplicate at any point of HandleCompletion keeps this.    *)
AckedAnswersSettled ==
  \A m \in acked :
    /\ m.status = "success" => task[m.task].done \/ rawBatch[BatchId[m.task]] # None
    /\ m.status = "error" => task[m.task].done

(* Two jobs of one target do not run at once when their targets fan out to *)
(* a single task: the lock of CreateScheduledJob keeps the check and the   *)
(* insert together, and no completion, cancellation or finalization makes  *)
(* such a job RUNNING again.  (A job of several tasks can be reopened.)    *)
OneRunningSingleSpecJob ==
  \A i, j \in Jobs :
    /\ job[i].status = "RUNNING" /\ job[i].specs = 1
    /\ job[j].status = "RUNNING" /\ job[j].specs = 1
    /\ job[i].target = job[j].target
    => i = j

(* Whatever reaches a crawler has an external task of an existing job, so  *)
(* that no completion of ours is discarded as unknown (ErrCompletionTask-  *)
(* NotFound is acknowledged): the row is written before the publish.       *)
RequestsAreTraceable ==
  \A k \in requests \cup {m.task : m \in inbox} :
    Exists(k) /\ job[k[1]].status # "NONE" /\ k[2] \in 1..job[k[1]].specs

(* completed_at tells an open job from a closed one: RUNNING jobs have     *)
(* none, SUCCESS, FAILED and CANCELLED jobs have one, whichever of the     *)
(* dispatcher, the consumer and the project pause wrote last.              *)
CompletedAtMatchesStatus ==
  \A j \in Jobs :
    /\ job[j].status = "RUNNING" => ~job[j].done
    /\ job[j].status \in {"SUCCESS"} \cup Failed => job[j].done

(* A raw batch is recorded once: duplicates, redeliveries and concurrent   *)
(* consumers never replace the task it was recorded for.                   *)
RawBatchesAreKept ==
  [][\A b \in Batches : rawBatch[b] # None => rawBatch'[b] = rawBatch[b]]_vars

(* completed_at of a task is never cleared, not even by the blind          *)
(* overwrites of the dispatcher: the duplicate checks of HandleCompletion  *)
(* rely on it.                                                             *)
TaskCompletionIsKept ==
  [][\A k \in Tasks : task[k].done => task'[k].done]_vars

(* Every completion that reaches the queue is acknowledged in the end, on  *)
(* whatever branch of HandleCompletion: no consumer waits for ever.        *)
AnswersAreHandled ==
  \A m \in Completion : (m \in inbox) ~> (m \in acked)

(* Every dispatch ends, whatever its specs, conflicts and failures.        *)
DispatchesEnd ==
  \A d \in Dispatchers : (disp[d].pc # "idle") ~> (disp[d].pc = "idle")

(***************************************************************************)
(* What DueTargets sees of all this: the statuses of the jobs of a target. *)
(* Whatever is written here is something JobLedger lets happen there.      *)
(***************************************************************************)
JobsOf(t) == {j \in Jobs : job[j].status # "NONE" /\ job[j].target = t}
Seen(j) == IF job[j].status \in Cancellable THEN job[j].status ELSE "CLOSED"
JobsSeen == [t \in Targets |-> {Seen(j) : j \in JobsOf(t)}]

Ledger == INSTANCE JobLedger WITH jobs <- JobsSeen
ImplementsLedger == Ledger!Spec

(***************************************************************************)
(* The inductive invariant behind the safety properties.                   *)
(***************************************************************************)
JobsAreWhole ==
  \A j \in Jobs : job[j].status = "NONE" => job[j] = NoJob

TasksHaveJobs ==
  \A k \in Tasks :
    /\ task[k].status = "NONE" => task[k] = NoTask
    /\ Exists(k) => job[k[1]].status # "NONE" /\ k[2] <= job[k[1]].specs

(* A dispatcher owns its job, and the tasks it has still to create do not  *)
(* exist.                                                                  *)
Dispatching(d) == disp[d].pc \notin {"idle", "prepared"}

OwnsJob(d) ==
  /\ disp[d].pc = "idle" <=> disp[d].job = None
  /\ disp[d].pc # "idle" =>
       /\ disp[d].target # None
       /\ disp[d].specs \in 1..MaxSpecs
       /\ disp[d].next \in 1..(disp[d].specs + 1)
       /\ disp[d].sent < disp[d].next
       /\ \A e \in Dispatchers : disp[e].job = disp[d].job => e = d
  /\ disp[d].pc = "prepared" => job[disp[d].job] = NoJob
  /\ Dispatching(d) =>
       /\ job[disp[d].job].status # "NONE"
       /\ job[disp[d].job].specs = disp[d].specs
       /\ \A i \in 1..MaxSpecs :
            i > disp[d].next \/ (disp[d].pc = "spec" /\ i = disp[d].next)
              => task[<<disp[d].job, i>>] = NoTask
       /\ disp[d].pc # "spec" =>
            disp[d].next <= disp[d].specs /\ Exists(Current(d))

DispatchersOwnJobs == \A d \in Dispatchers : OwnsJob(d)

MessagesAreTraceable ==
  /\ \A k \in requests : Exists(k)
  /\ \A m \in inbox : Exists(m.task)
  /\ \A c \in Consumers : cons[c].pc # "idle" =>
       Message(c) # None /\ Exists(Message(c).task)
  /\ \A c \in Consumers : cons[c].pc \in {"checking", "storing"} =>
       Message(c).status = "success"

(* No other open transaction has the same task or inserts the same batch.  *)
AloneInTx(c) ==
  \A o \in Consumers \ {c} : cons[o].pc = "commit" =>
    /\ Message(o).task # Message(c).task
    /\ ~ /\ cons[c].verdict.task.status = "SUCCESS"
         /\ cons[o].verdict.task.status = "SUCCESS"
         /\ BatchOf(o) = BatchOf(c)

(* The job status the transaction computed says nothing untrue.            *)
AggregateHolds(c) ==
  LET k == Message(c).task
      v == cons[c].verdict
  IN  /\ v.job.status # "NONE"
      /\ v.job.status = "RUNNING" => ~v.job.done /\ job[k[1]].specs # 1
      /\ v.job.status \in {"SUCCESS"} \cup Failed => v.job.done
      /\ v.job.status = "SUCCESS" =>
           \A i \in 1..job[k[1]].specs :
             Recorded(<<k[1], i>>) \/ (i = k[2] /\ v.task.status = "SUCCESS")

(* What an open transaction will commit is still right when it commits.    *)
VerdictHolds(c) ==
  /\ cons[c].pc = "committed" => task[Message(c).task].done
  /\ cons[c].pc = "commit" =>
       /\ cons[c].verdict # None
       /\ cons[c].verdict.task.status = "SUCCESS" => rawBatch[BatchOf(c)] = None
       /\ AloneInTx(c) /\ AggregateHolds(c)

VerdictsHold == \A c \in Consumers : VerdictHolds(c)

SuccessIsRecorded ==
  \A k \in Tasks : task[k].status = "SUCCESS" => Recorded(k)

(* TypeOK and the safety properties with what they rest on.                *)
IInv ==
  /\ TypeOK
  /\ JobsAreWhole /\ TasksHaveJobs /\ DispatchersOwnJobs
  /\ MessagesAreTraceable /\ VerdictsHold /\ SuccessIsRecorded
  /\ JobSuccessIsComplete /\ AckedAnswersSettled
  /\ CompletedAtMatchesStatus /\ OneRunningSingleSpecJob

(***************************************************************************)
(* What the documents promise and the code does not keep.                  *)
(***************************************************************************)

(* The task lifecycle PENDING, RUNNING, SUCCESS: a task whose completion    *)
(* has been committed as a success does not run again.  The code breaks    *)
(* it: the crawler answers as soon as it has the message, and              *)
(* MarkExternalTaskPublished, which comes after the publish, writes        *)
(* RUNNING over whatever the completion has written.                       *)
TaskLifecycle ==
  [][\A k \in Tasks : task[k].status = "SUCCESS" => task'[k].status \notin Live]_vars
=============================================================================
