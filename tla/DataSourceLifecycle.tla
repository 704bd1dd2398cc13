------------------------ MODULE DataSourceLifecycle ------------------------
(***************************************************************************)
(* The control plane of ingest-srv: what the API, project-srv and the dry  *)
(* run consumer do to one data source, its crawl targets and its dry runs  *)
(* (internal/datasource, internal/dryrun).  The source is the only CRAWL   *)
(* source of its project.                                                  *)
(*                                                                         *)
(* A handler reads what its checks need, at once, and then goes through    *)
(* its todo list of database and broker calls, one step each.  Handlers    *)
(* interleave between the steps: nothing locks a row from its read to its  *)
(* write, and UpdateDataSource and UpdateTarget write all columns of the   *)
(* row they found.                                                         *)
(***************************************************************************)
EXTENDS Naturals, FiniteSets, Sequences

CONSTANTS
  Targets,     \* crawl targets of the source
  MaxRuns,     \* bound on the dry runs
  Requests,    \* API requests in progress: bounds how many overlap
  Consumers,   \* dry run consumers, one per instance of the service
  Modes,       \* crawl modes
  Controls,    \* the operations that happen in a run
  Faults,      \* the failures that happen in a run
  MaxAnswers,  \* bound on the completions a crawler sends for a task
  None         \* NULL, and "nobody"

Workers == Requests \cup Consumers
Runs == 1 .. MaxRuns

ControlKinds ==
  {"Update", "Archive", "Delete", "ActivateDataSource", "PauseDataSource",
   "ResumeDataSource", "UpdateCrawlMode", "Activate", "Pause", "Resume",
   "UpdateProjectCrawlMode", "CreateTarget", "UpdateTarget", "ActivateTarget",
   "DeactivateTarget", "DeleteTarget", "Trigger"}
FaultKinds == {"abort", "publish", "object", "malformed"}

ASSUME DataSourceAssumption ==
  /\ IsFiniteSet(Targets) /\ MaxRuns \in Nat /\ MaxAnswers \in Nat
  /\ Requests \cap Consumers = {}
  /\ Modes \subseteq {"NORMAL", "CRISIS", "SLEEP"} /\ "NORMAL" \in Modes
  /\ Controls \subseteq ControlKinds /\ Faults \subseteq FaultKinds
  /\ None \notin Targets \cup Workers \cup Nat

VARIABLES
  source,     \* the data_sources row
  target,     \* crawl_targets
  result,     \* dryrun_results, numbered by created_at
  work,       \* the handlers in progress
  crawler,    \* the completions a crawler may still send for a dry run's task
  answers,    \* the completions in ingest_dryrun_completions
  audited,    \* to_mode of the newest crawl_mode_changes row
  torn,       \* history: a handler wrote without having seen a write of
              \* another, or stopped between two writes that belong together
  abandoned,  \* history: dry runs whose Trigger stopped early, or whose
              \* completion was unreadable
  disputed    \* history: dry runs published although the broker said no, or
              \* found RUNNING by two consumers at once

rowVars == <<source, target, result, audited>>
brokerVars == <<crawler, answers>>
historyVars == <<torn, abandoned, disputed>>
vars == <<rowVars, work, brokerVars, historyVars>>

SourceStatus == {"PENDING", "READY", "ACTIVE", "PAUSED", "ARCHIVED"}
DryrunStatus == {"NOT_REQUIRED", "PENDING", "RUNNING", "SUCCESS", "FAILED"}
Source == [status : SourceStatus, dry : DryrunStatus, last : Runs \cup {None},
           mode : Modes, deleted : BOOLEAN,
           paused : BOOLEAN]  \* paused_at is set
Target == [made : BOOLEAN, active : BOOLEAN, flushed : BOOLEAN]
Result == [status : {"ABSENT", "RUNNING", "SUCCESS", "FAILED"}, target : Targets \cup {None}]
Completion == [run : Runs, kind : {"success", "error", "malformed"}]

ASSUME NoCompletionIsNone == None \notin Completion

Idle == [op |-> "idle", target |-> None, run |-> None, todo |-> <<>>, row |-> None,
         stale |-> FALSE, answer |-> None]

(* WARNING is usable like SUCCESS and moves a source like it: the model    *)
(* has SUCCESS for both.                                                   *)
Terminal(status) == status \in {"SUCCESS", "FAILED"}

-----------------------------------------------------------------------------
(***************************************************************************)
(* What the checks read.                                                   *)
(***************************************************************************)
Found == ~source.deleted

(* Targets a list shows: flushed ones are left out.                        *)
Listed == {t \in Targets : target[t].made /\ ~target[t].flushed}
ActiveTargets == {t \in Listed : target[t].active}

RunsOf(t) == {r \in Runs : result[r].status # "ABSENT" /\ result[r].target = t}
Latest(t) == CHOOSE r \in RunsOf(t) : \A q \in RunsOf(t) : q <= r
DryrunRunning(t) == RunsOf(t) # {} /\ result[Latest(t)].status = "RUNNING"

(* Mutant of DryrunsRunning: nobody asks for dry runs.                     *)
NeverAsked == FALSE

DryrunsRunning == \E t \in Listed : DryrunRunning(t)

(* ensureRuntimePrerequisites and the readiness of a project.  No source   *)
(* and target type requires a dry run.                                     *)
Prerequisites == ActiveTargets # {}

-----------------------------------------------------------------------------
(***************************************************************************)
(* Steps of a handler.  A write makes the other handlers in progress       *)
(* stale: what they have read is no longer the newest.                     *)
(***************************************************************************)
FullRow(set) == [do |-> "source", set |-> set]
TargetRow(set) == [do |-> "target", set |-> set]
Columns(set) == [do |-> "columns", set |-> set]
Bulk(from, set) == [do |-> "bulk", from |-> from, set |-> set]
Complete(verdict) == [do |-> "complete", verdict |-> verdict]
Call(name) == [do |-> name]
NoColumns == [c \in {} |-> None]

(* A status is written with its time; activated_at and archived_at, which  *)
(* nothing clears, are left out.                                           *)
ToActive == [status |-> "ACTIVE", paused |-> FALSE]
ToPaused == [status |-> "PAUSED", paused |-> TRUE]
ToArchived == [status |-> "ARCHIVED"]

(* Mutant of Started: ClearPausedAt is forgotten.                          *)
StartedStillPaused == [status |-> "ACTIVE"]

(* The columns of a bulk Activate or Resume.                               *)
Started == ToActive

Merge(row, set) == [c \in DOMAIN row |-> IF c \in DOMAIN set THEN set[c] ELSE row[c]]

Doing(w, do) == work[w].todo # <<>> /\ Head(work[w].todo).do = do
Set(w) == Head(work[w].todo).set

Rest(w) ==
  LET rest == Tail(work[w].todo)
  IN  IF rest = <<>> THEN Idle ELSE [work[w] EXCEPT !.todo = rest, !.row = None]

Overtaken(v) == IF work[v] = Idle THEN Idle ELSE [work[v] EXCEPT !.stale = TRUE]
Proceeds(w, next) == work' = [work EXCEPT ![w] = next]
Writes(w, next) ==
  /\ work' = [v \in Workers |-> IF v = w THEN next ELSE Overtaken(v)]
  /\ torn' = (torn \/ work[w].stale)

(* A statement, or transaction, that checks what it changes.               *)
WritesAtOnce == work' = [v \in Workers |-> Overtaken(v)] /\ UNCHANGED torn

(* A handler starts, with what is left to do after its checks.             *)
Request(w, op, t, steps) ==
  /\ op \in Controls /\ work[w] = Idle
  /\ Proceeds(w, [Idle EXCEPT !.op = op, !.target = t, !.todo = steps])
  /\ UNCHANGED <<rowVars, brokerVars, historyVars>>

-----------------------------------------------------------------------------
(***************************************************************************)
(* Data sources.                                                           *)
(***************************************************************************)
(* The empty DryrunLastResultID Update passes is "not given" to            *)
(* UpdateDataSource, so the column keeps its value.                        *)
ConfigColumns == [dry |-> "NOT_REQUIRED"]

Update(w) ==
  /\ Found /\ ~DryrunsRunning
  /\ \/ Request(w, "Update", None, <<FullRow(NoColumns)>>)
     \/ /\ source.status # "ACTIVE"
        /\ Request(w, "Update", None, <<FullRow(ConfigColumns)>>)

Archive(w) ==
  /\ Found /\ ~DryrunsRunning /\ source.status # "ARCHIVED"
  /\ Request(w, "Archive", None, <<Columns(ToArchived)>>)

Delete(w) ==
  /\ Found /\ ~DryrunsRunning /\ source.status = "ARCHIVED"
  /\ Request(w, "Delete", None, <<Columns([deleted |-> TRUE])>>)

ActivateDataSource(w) ==
  /\ Found /\ source.status = "READY" /\ Prerequisites
  /\ Request(w, "ActivateDataSource", None, <<FullRow(ToActive)>>)

PauseDataSource(w) ==
  /\ Found /\ source.status = "ACTIVE"
  /\ Request(w, "PauseDataSource", None, <<FullRow(ToPaused)>>)

ResumeDataSource(w) ==
  /\ Found /\ source.status = "PAUSED" /\ Prerequisites
  /\ Request(w, "ResumeDataSource", None, <<FullRow(ToActive)>>)

ModeMayChange == Found /\ source.status \in {"READY", "ACTIVE", "PAUSED"}

(* Mutant of ModeChange: no audit row.                                     *)
ModeChangeUnlogged(m) == <<FullRow([mode |-> m])>>

ModeChange(m) == <<FullRow([mode |-> m]), [do |-> "audit", mode |-> m]>>

UpdateCrawlMode(w, m) ==
  ModeMayChange /\ Request(w, "UpdateCrawlMode", None, ModeChange(m))

(* The commands of project-srv.                                            *)
Activate(w) ==
  /\ Found /\ source.status \in {"READY", "ACTIVE"} /\ Prerequisites
  /\ Request(w, "Activate", None, <<Bulk("READY", Started)>>)

Resume(w) ==
  /\ Found /\ source.status \in {"PAUSED", "ACTIVE"} /\ Prerequisites
  /\ Request(w, "Resume", None, <<Bulk("PAUSED", Started)>>)

Pause ==
  /\ "Pause" \in Controls /\ Found /\ source.status = "ACTIVE"
  /\ source' = Merge(source, ToPaused)
  /\ WritesAtOnce
  /\ UNCHANGED <<target, result, audited, brokerVars, abandoned, disputed>>

UpdateProjectCrawlMode(m) ==
  /\ "UpdateProjectCrawlMode" \in Controls /\ ModeMayChange /\ source.mode # m
  /\ source' = [source EXCEPT !.mode = m]
  /\ audited' = m
  /\ WritesAtOnce
  /\ UNCHANGED <<target, result, brokerVars, abandoned, disputed>>

-----------------------------------------------------------------------------
(***************************************************************************)
(* Crawl targets.                                                          *)
(***************************************************************************)
CreateTarget(w, t) ==
  /\ Found /\ source.status # "ARCHIVED" /\ ~target[t].made
  /\ \A v \in Workers : work[v].op = "CreateTarget" => work[v].target # t
  /\ Request(w, "CreateTarget", t, <<Call("create")>>)

(* A change of label or priority, or one of interval or platform_meta,     *)
(* which disables the target and demotes the source; a new platform_meta   *)
(* also loses the mark of a flushed target.                                *)
UpdateTarget(w, t) ==
  LET Disabling(set) == IF target[t].active THEN [c \in DOMAIN set \cup {"active"} |-> FALSE]
                        ELSE set
      Material(set) == <<TargetRow(Disabling(set)), Call("demote")>>
  IN  /\ target[t].made /\ ~DryrunRunning(t)
      /\ \/ Request(w, "UpdateTarget", t, <<TargetRow(NoColumns)>>)
         \/ Request(w, "UpdateTarget", t, Material(NoColumns))
         \/ Request(w, "UpdateTarget", t, Material([flushed |-> FALSE]))

(* What ActivateTarget still has to do, from what it reads.                *)
Promotion == IF Found /\ source.status = "PENDING"
             THEN <<FullRow([status |-> "READY", dry |-> "NOT_REQUIRED"])>> ELSE <<>>
Activation(t) == IF target[t].active THEN <<>>
                 ELSE <<TargetRow([active |-> TRUE])>> \o Promotion

ActivateTarget(w, t) ==
  /\ target[t].made /\ ~target[t].active
  /\ Request(w, "ActivateTarget", t, Activation(t))

(* Mutant of Removable: an off-by-one in the count of active targets.      *)
RemovableIfAny == Found /\ (source.status = "ACTIVE" => Cardinality(ActiveTargets) > 0)

Removable == Found /\ (source.status = "ACTIVE" => Cardinality(ActiveTargets) > 1)

DeactivateTarget(w, t) ==
  /\ target[t].made /\ target[t].active /\ ~DryrunRunning(t) /\ Removable
  /\ Request(w, "DeactivateTarget", t, <<TargetRow([active |-> FALSE])>>)

DeleteTarget(w, t) ==
  /\ target[t].made /\ ~DryrunRunning(t)
  /\ Request(w, "DeleteTarget", t, <<TargetRow([active |-> FALSE, flushed |-> TRUE])>>)
-----------------------------------------------------------------------------
(***************************************************************************)
(* The database steps.                                                     *)
(***************************************************************************)
FindRow(w) ==
  /\ work[w].row = None
  /\ \/ Doing(w, "source") /\ Proceeds(w, [work[w] EXCEPT !.row = source])
     \/ Doing(w, "target") /\ Proceeds(w, [work[w] EXCEPT !.row = target[work[w].target]])
  /\ UNCHANGED <<rowVars, brokerVars, historyVars>>

UpdateDataSource(w) ==
  /\ Doing(w, "source") /\ work[w].row # None
  /\ source' = Merge(work[w].row, Set(w))
  /\ Writes(w, Rest(w))
  /\ UNCHANGED <<target, result, audited, brokerVars, abandoned, disputed>>

UpdateTargetRow(w) ==
  /\ Doing(w, "target") /\ work[w].row # None
  /\ target' = [target EXCEPT ![work[w].target] = Merge(work[w].row, Set(w))]
  /\ Writes(w, Rest(w))
  /\ UNCHANGED <<source, result, audited, brokerVars, abandoned, disputed>>

(* The target is created inactive.                                         *)
InsertTarget(w) ==
  /\ Doing(w, "create")
  /\ target' = [target EXCEPT ![work[w].target].made = TRUE]
  /\ Writes(w, Rest(w))
  /\ UNCHANGED <<source, result, audited, brokerVars, abandoned, disputed>>

(* ArchiveDataSource and DeleteDataSource write the columns they set.      *)
UpdateColumns(w) ==
  /\ Doing(w, "columns")
  /\ source' = Merge(source, Set(w))
  /\ Writes(w, Rest(w))
  /\ UNCHANGED <<target, result, audited, brokerVars, abandoned, disputed>>

UpdateProjectDataSourcesLifecycle(w) ==
  LET s == Head(work[w].todo) IN
  /\ Doing(w, "bulk")
  /\ IF Found /\ source.status = s.from
       THEN source' = Merge(source, s.set) /\ Writes(w, Rest(w))
       ELSE Proceeds(w, Rest(w)) /\ UNCHANGED <<source, torn>>
  /\ UNCHANGED <<target, result, audited, brokerVars, abandoned, disputed>>

CreateCrawlModeChange(w) ==
  /\ Doing(w, "audit")
  /\ audited' = Head(work[w].todo).mode
  /\ Writes(w, Rest(w))
  /\ UNCHANGED <<source, target, result, brokerVars, abandoned, disputed>>

(* markDatasourcePendingAfterMaterialTargetChange                          *)
Demote(w) ==
  /\ Doing(w, "demote")
  /\ Proceeds(w, IF Found
       THEN [work[w] EXCEPT !.todo = <<FullRow([status |-> "PENDING", dry |-> "PENDING"])>>]
       ELSE Idle)
  /\ UNCHANGED <<rowVars, brokerVars, historyVars>>

-----------------------------------------------------------------------------
(***************************************************************************)
(* Dry runs.                                                               *)
(***************************************************************************)
Trigger(w, t) ==
  /\ Found /\ source.status \in {"PENDING", "READY"}
  /\ target[t].made /\ ~DryrunRunning(t)
  /\ Request(w, "Trigger", t, <<Call("insert"), Call("running"), Call("publish")>>)

CreateResult(w) ==
  /\ Doing(w, "insert")
  /\ \E r \in Runs :
       /\ {q \in Runs : result[q].status = "ABSENT"} = r .. MaxRuns
       /\ result' = [result EXCEPT ![r] = [status |-> "RUNNING", target |-> work[w].target]]
       /\ Writes(w, [Rest(w) EXCEPT !.run = r])
  /\ UNCHANGED <<source, target, audited, brokerVars, abandoned, disputed>>

MarkDryrunRunning(w) ==
  LET running == [dry |-> "RUNNING", last |-> work[w].run]
      pending == [dry |-> "RUNNING", last |-> work[w].run, status |-> "PENDING"]
      columns == IF source.status \in {"PENDING", "READY"} THEN pending ELSE running
  IN  /\ Doing(w, "running")
      /\ IF Found
           THEN /\ Proceeds(w, [work[w] EXCEPT !.todo = <<FullRow(columns)>> \o Tail(@)])
                /\ UNCHANGED abandoned
           ELSE /\ Proceeds(w, Idle)
                /\ abandoned' = abandoned \cup {work[w].run}
      /\ UNCHANGED <<rowVars, brokerVars, torn, disputed>>

(* The crawlers take the task.                                             *)
Delivered(r) == crawler' = [crawler EXCEPT ![r] = MaxAnswers]

PublishDispatch(w) ==
  /\ Doing(w, "publish")
  /\ Delivered(work[w].run)
  /\ Proceeds(w, Rest(w))
  /\ UNCHANGED <<rowVars, answers, historyVars>>

(* The broker's error says nothing about whether it has the message.       *)
PublishFails(w) ==
  LET r == work[w].run IN
  /\ "publish" \in Faults /\ Doing(w, "publish")
  /\ \/ Delivered(r) /\ disputed' = disputed \cup {r}
     \/ UNCHANGED <<crawler, disputed>>
  /\ Proceeds(w, [work[w] EXCEPT !.todo = <<Complete("FAILED")>>])
  /\ UNCHANGED <<rowVars, answers, torn, abandoned>>

(* Mutant of StatusAfter: any verdict makes a source READY.                *)
AlwaysReady(verdict, status) == IF status \in {"PENDING", "READY"} THEN "READY" ELSE status

StatusAfter(verdict, status) ==
  IF status \in {"PENDING", "READY"}
  THEN IF verdict = "FAILED" THEN "PENDING" ELSE "READY"
  ELSE status

(* Mutant of Synchronized: dryrun_last_result_id is left alone.            *)
LastIsLeft(w) ==
  [status |-> StatusAfter(Head(work[w].todo).verdict, work[w].row.status),
   dry |-> Head(work[w].todo).verdict]

(* The columns CompleteResult writes, the status from the row it found.    *)
Synchronized(w) ==
  [status |-> StatusAfter(Head(work[w].todo).verdict, work[w].row.status),
   dry |-> Head(work[w].todo).verdict, last |-> work[w].run]

(* Mutant of Requeued: a completion is nacked without requeue.             *)
NotRequeued(w) == answers

Requeued(w) == IF work[w].answer = None THEN answers ELSE answers \cup {work[w].answer}

(* A Trigger that stops has a result nobody will finish.                   *)
Stops(w) ==
  /\ Proceeds(w, Idle)
  /\ answers' = Requeued(w)
  /\ abandoned' = IF work[w].op = "Trigger" /\ work[w].run # None
                  THEN abandoned \cup {work[w].run} ELSE abandoned
  /\ UNCHANGED <<rowVars, crawler, disputed>>

(* The transaction has locked the result row once it has updated it.       *)
Locked(r) == \E v \in Workers :
               work[v].run = r /\ Doing(v, "complete") /\ work[v].row # None

BeginComplete(w) ==
  /\ Doing(w, "complete") /\ work[w].row = None /\ ~Locked(work[w].run)
  /\ IF Found
       THEN /\ Proceeds(w, [work[w] EXCEPT !.row = source, !.stale = FALSE])
            /\ UNCHANGED <<rowVars, brokerVars, abandoned, disputed>>
       ELSE Stops(w)
  /\ UNCHANGED torn

CompleteResult(w) ==
  LET r == work[w].run
      verdict == Head(work[w].todo).verdict
  IN  /\ Doing(w, "complete") /\ work[w].row # None
      /\ result' = [result EXCEPT ![r].status = verdict]
      /\ source' = Merge(source, Synchronized(w))
      /\ target' = IF verdict = "SUCCESS"
                   THEN [target EXCEPT ![result[r].target].active = TRUE] ELSE target
      /\ Writes(w, Rest(w))
      /\ UNCHANGED <<audited, brokerVars, abandoned, disputed>>

-----------------------------------------------------------------------------
(***************************************************************************)
(* Completions.                                                            *)
(***************************************************************************)
CrawlerAnswers(r) ==
  /\ crawler[r] > 0
  /\ crawler' = [crawler EXCEPT ![r] = @ - 1]
  /\ \E kind \in {"success", "error"} \cup ({"malformed"} \cap Faults) :
       answers' = answers \cup {[run |-> r, kind |-> kind]}
  /\ UNCHANGED <<rowVars, work, historyVars>>

(* An artefact that cannot be read fails the dry run.                      *)
Decided(m) == {IF m.kind = "success" THEN "SUCCESS" ELSE "FAILED"}
                \cup (IF "object" \in Faults THEN {"FAILED"} ELSE {})

(* Mutant of Handled: the status of the result is not asked for.           *)
HandledAgain(m) == {<<Complete(v)>> : v \in Decided(m)}

(* Mutant of Handled: only a success is worth a transaction.               *)
HandledIfSuccess(m) ==
  IF m.kind = "success" /\ ~Terminal(result[m.run].status)
  THEN {<<Complete("SUCCESS")>>} ELSE {<<>>}

(* What HandleCompletion does about a completion it has looked up.         *)
Handled(m) ==
  LET r == m.run IN
  IF Terminal(result[r].status)
  THEN {IF result[r].status = "SUCCESS" THEN Activation(result[r].target) ELSE <<>>}
  ELSE {<<Complete(v)>> : v \in Decided(m)}

(* Another consumer has found the dry run RUNNING, and will decide it.     *)
Undecided(c, r) == \E d \in Consumers \ {c} : work[d].run = r /\ Doing(d, "complete")

HandleCompletion(c, r) ==
  /\ work[c] = Idle
  /\ \E m \in {n \in answers : n.run = r} :
       /\ answers' = answers \ {m}
       /\ IF m.kind = "malformed"
            THEN UNCHANGED <<work, disputed>> /\ abandoned' = abandoned \cup {r}
            ELSE /\ \E todo \in Handled(m) :
                      Proceeds(c, [Idle EXCEPT !.op = "completion", !.target = result[r].target,
                                    !.run = r, !.todo = todo \o <<Call("ack")>>, !.answer = m])
                 /\ disputed' = IF Undecided(c, r) THEN disputed \cup {r} ELSE disputed
                 /\ UNCHANGED abandoned
  /\ UNCHANGED <<rowVars, crawler, torn>>

Ack(c) ==
  /\ Doing(c, "ack")
  /\ Proceeds(c, Rest(c))
  /\ UNCHANGED <<rowVars, brokerVars, historyVars>>

(* The database fails a handler or the service stops: a request returns    *)
(* with what it has written, a completion is delivered again.              *)
Halfway(w) == work[w].op \in {"UpdateTarget", "UpdateCrawlMode"} /\ ~Doing(w, "target")
              /\ Len(work[w].todo) = 1

Abort(w) ==
  /\ "abort" \in Faults /\ work[w] # Idle
  /\ Stops(w)
  /\ torn' = (torn \/ Halfway(w))

(* ActivateTarget only logs that it could not promote the source.          *)
PromotionFails(c) ==
  /\ "abort" \in Faults /\ work[c].op = "completion" /\ Doing(c, "source")
  /\ Proceeds(c, Rest(c))
  /\ UNCHANGED <<rowVars, brokerVars, historyVars>>

-----------------------------------------------------------------------------
(* A source Create has inserted.                                           *)
Init ==
  /\ source = [status |-> "PENDING", dry |-> "NOT_REQUIRED", last |-> None,
               mode |-> "NORMAL", deleted |-> FALSE,
               paused |-> FALSE]
  /\ target = [t \in Targets |-> [made |-> FALSE, active |-> FALSE, flushed |-> FALSE]]
  /\ result = [r \in Runs |-> [status |-> "ABSENT", target |-> None]]
  /\ work = [w \in Workers |-> Idle]
  /\ crawler = [r \in Runs |-> 0]
  /\ answers = {}
  /\ audited = "NORMAL"
  /\ torn = FALSE /\ abandoned = {} /\ disputed = {}

SourceRequest(w) ==
  \/ Update(w) \/ Archive(w) \/ Delete(w)
  \/ ActivateDataSource(w) \/ PauseDataSource(w) \/ ResumeDataSource(w)
  \/ Activate(w) \/ Resume(w)
  \/ \E m \in Modes : UpdateCrawlMode(w, m)

TargetRequest(w) == \E t \in Targets :
  \/ CreateTarget(w, t) \/ UpdateTarget(w, t) \/ ActivateTarget(w, t)
  \/ DeactivateTarget(w, t) \/ DeleteTarget(w, t) \/ Trigger(w, t)

RequestStep(w) ==
  \/ InsertTarget(w) \/ FindRow(w) \/ UpdateDataSource(w) \/ UpdateTargetRow(w) \/ UpdateColumns(w)
  \/ UpdateProjectDataSourcesLifecycle(w) \/ CreateCrawlModeChange(w) \/ Demote(w)
  \/ CreateResult(w) \/ MarkDryrunRunning(w) \/ PublishDispatch(w)
  \/ Ack(w)

Next ==
  \/ \E w \in Requests : SourceRequest(w) \/ TargetRequest(w) \/ PublishFails(w)
  \/ Pause \/ \E m \in Modes : UpdateProjectCrawlMode(m)
  \/ \E r \in Runs : CrawlerAnswers(r) \/ \E c \in Consumers : HandleCompletion(c, r)
  \/ \E c \in Consumers : PromotionFails(c)
  \/ \E w \in Workers :
       RequestStep(w) \/ BeginComplete(w) \/ CompleteResult(w) \/ Abort(w)

Spec == Init /\ [][Next]_vars

(***************************************************************************)
(* Handlers go on, a crawler answers at least once, RabbitMQ redelivers    *)
(* what was not acked, and the database does not fail a consumer for ever. *)
(***************************************************************************)
HandlerStep(w) == RequestStep(w) \/ BeginComplete(w) \/ CompleteResult(w)

Fairness ==
  /\ \A w \in Workers : WF_vars(HandlerStep(w))
  /\ \A c \in Consumers : SF_vars(BeginComplete(c)) /\ SF_vars(CompleteResult(c))
  /\ \A r \in Runs :
       /\ WF_vars(crawler[r] = MaxAnswers /\ CrawlerAnswers(r))
       /\ SF_vars(\E c \in Consumers : HandleCompletion(c, r))

FairSpec == Spec /\ Fairness

-----------------------------------------------------------------------------
(***************************************************************************)
(* Properties.                                                             *)
(***************************************************************************)
(* The types of the variables.                                             *)
TypeOK ==
  /\ source \in Source /\ target \in [Targets -> Target]
  /\ result \in [Runs -> Result] /\ audited \in Modes
  /\ \A w \in Workers :
       /\ work[w].op \in {"idle", "completion"} \cup Controls
       /\ work[w].target \in Targets \cup {None} /\ work[w].run \in Runs \cup {None}
       /\ work[w].row \in Source \cup Target \cup {None}
       /\ work[w].answer \in Completion \cup {None}
       /\ work[w].stale \in BOOLEAN /\ Len(work[w].todo) \in 0 .. 3
  /\ crawler \in [Runs -> 0 .. MaxAnswers] /\ answers \subseteq Completion
  /\ torn \in BOOLEAN /\ abandoned \subseteq Runs /\ disputed \subseteq Runs

(* A dry run that is RUNNING is never forgotten: a Trigger or a consumer   *)
(* is at it, a crawler has its task, or its completion is in the queue --  *)
(* however handlers overlap and fail, unless its Trigger itself stopped    *)
(* early or its completion could not be read.  A RUNNING dry run blocks    *)
(* every edit of its target.                                               *)
RunningIsWaitedFor == \A r \in Runs : result[r].status = "RUNNING" =>
  \/ r \in abandoned \/ crawler[r] > 0
  \/ \E m \in answers : m.run = r
  \/ \E w \in Workers : work[w].run = r

(* The source row agrees with dryrun_results: when it says that its last   *)
(* dry run is running or how it ended, the result it names says the same,  *)
(* whichever of several dry runs finishes first.                           *)
DryrunStatusAgrees ==
  ~torn /\ source.dry \in {"RUNNING", "SUCCESS", "FAILED"} =>
    source.last # None /\ result[source.last].status = source.dry

(* READY is earned: such a source has a usable dry run or needs none.  A   *)
(* failed, running or outstanding dry run and READY never meet, whatever   *)
(* the order of dry runs, edits and activations (dryrun.go:148-155,        *)
(* dryrun.go:29-31, helpers.go:178-182 write the two together).            *)
ReadyIsEarned ==
  ~torn /\ source.status = "READY" => source.dry \in {"SUCCESS", "NOT_REQUIRED"}

(* An ACTIVE source has an active target, unless an UpdateTarget is about  *)
(* to demote it or a target was deleted (DeleteTarget asks for nothing).   *)
ActiveSourceHasTarget ==
  ~torn /\ source.status = "ACTIVE" /\ Found =>
    \/ ActiveTargets # {}
    \/ \E w \in Workers : work[w].op = "UpdateTarget"
    \/ \E t \in Targets : target[t].flushed

(* paused_at belongs to the status: an ACTIVE source is not marked as      *)
(* paused and a PAUSED one has the time of its pause -- although requests  *)
(* write whole rows they read earlier (datasource.go:263), the columns of  *)
(* a whitelist (:287, :314) or all rows of a project at once (:361), over  *)
(* each other and in any order.  Only the end of a dry run breaks it: it   *)
(* writes the status it has read, without the time (dryrun.go:158), over a *)
(* pause or a resume that came in between.                                 *)
PausedAtMatchesStatus ==
  \/ /\ source.status = "ACTIVE" => ~source.paused
     /\ source.status = "PAUSED" => source.paused
  \/ \E r \in Runs : Terminal(result[r].status)

(* The audit trail ends with the mode the source has, unless the handler   *)
(* that changed it is about to write the last record.                      *)
ModeChangesAreLogged ==
  ~torn => \/ source.mode = audited
           \/ \E w \in Workers : work[w].op = "UpdateCrawlMode" /\ Doing(w, "audit")

(* No dry run of a target in sight is running for an ARCHIVED source: what *)
(* Archive checked is still so when its write is done, and no Trigger gets *)
(* past it.                                                                *)
ArchivedHasNoDryrun ==
  ~torn /\ source.status = "ARCHIVED" => \A t \in Listed : ~DryrunRunning(t)

(* A result that is terminal stays as it is, however often its completion  *)
(* arrives, unless the broker took a dispatch that was reported as failed, *)
(* or two consumers found the dry run RUNNING before either decided it.    *)
TerminalResultIsKept ==
  [][\A r \in Runs \ disputed : Terminal(result[r].status) => result'[r] = result[r]]_vars

(* No dry run is RUNNING for ever, unless it was abandoned or the source   *)
(* was deleted under it: its completion then goes back to the queue for    *)
(* ever.                                                                   *)
DryrunsEnd == \A r \in Runs :
  []<>(result[r].status # "RUNNING" \/ r \in abandoned \/ source.deleted)

=============================================================================
