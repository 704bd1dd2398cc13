--------------------------- MODULE Execution_proofs ---------------------------
(* Proofs of the safety properties of Execution.                           *)
EXTENDS Execution, TLAPS

USE ExecutionAssumption DEF Tasks

LEMMA InitIInv == Init => IInv
  BY DEF Init, IInv, TypeOK, JobsAreWhole, TasksHaveJobs, DispatchersOwnJobs,
         MessagesAreTraceable, VerdictsHold, SuccessIsRecorded,
         JobSuccessIsComplete, AckedAnswersSettled, CompletedAtMatchesStatus,
         OneRunningSingleSpecJob, OwnsJob, VerdictHolds, JobRow, TaskRow, NoJob, NoTask, IdleDispatcher, IdleConsumer,
         JobStatus, TaskStatus, Failed, Live, DispatcherState, ConsumerState,
         Completion, Exists, Dispatching

-----------------------------------------------------------------------------
(* Lemmas about the operators.                                             *)

(* What an aggregation says of a job whose task k has just been settled.   *)
LEMMA RecomputedFacts ==
  ASSUME TypeOK, NEW k \in Tasks, NEW status \in {"SUCCESS", "FAILED"},
         k[2] <= job[k[1]].specs
  PROVE  LET tk == [task EXCEPT ![k] = Settled(status)]
             v  == Recomputed(k[1], tk)
         IN  /\ v \in Verdict
             /\ v.status # "NONE"
             /\ v.status = "RUNNING" => ~v.done /\ job[k[1]].specs # 1
             /\ v.status \in {"SUCCESS"} \cup Failed => v.done
             /\ v.status = "SUCCESS" =>
                  \A i \in 1..job[k[1]].specs : tk[<<k[1], i>>].status = "SUCCESS"
<1>. DEFINE j       == k[1]
            tk      == [task EXCEPT ![k] = Settled(status)]
            v       == Recomputed(j, tk)
            specs   == 1..job[j].specs
            running == SpecsIn(j, tk, Live)
            success == SpecsIn(j, tk, {"SUCCESS"})
            failed  == SpecsIn(j, tk, Failed \cup {"NONE"})
<1>1. v = IF running # {}
          THEN [status |-> IF failed = {} THEN "RUNNING" ELSE "PARTIAL", done |-> FALSE]
          ELSE [status |-> IF success = specs THEN "SUCCESS"
                           ELSE IF failed = specs THEN "FAILED" ELSE "PARTIAL",
                done |-> TRUE]
  BY DEF Recomputed, Settled
<1>2. k[1] \in Jobs /\ k[2] \in 1..MaxSpecs /\ k = <<k[1], k[2]>>
  OBVIOUS
<1>3. job[j].specs \in 0..MaxSpecs /\ k[2] \in specs
  BY <1>2 DEF TypeOK, JobRow
<1>4. tk[<<j, k[2]>>].status = status
  BY <1>2 DEF TypeOK, Settled
<1>5. job[j].specs = 1 => running = {}
  BY <1>3, <1>4 DEF SpecsIn, Live
<1>6. success = specs => \A i \in specs : tk[<<j, i>>].status = "SUCCESS"
  BY DEF SpecsIn
<1>. HIDE DEF v, running, success, failed
<1>7. v \in Verdict /\ v.status # "NONE"
  BY <1>1 DEF Verdict, JobStatus, Failed
<1>8. v.status = "RUNNING" => ~v.done /\ running # {}
  BY <1>1
<1>9. v.status \in {"SUCCESS"} \cup Failed => v.done
  BY <1>1 DEF Failed
<1>10. v.status = "SUCCESS" => success = specs
  BY <1>1
<1>. QED BY <1>5, <1>6, <1>7, <1>8, <1>9, <1>10 DEF v

LEMMA CloseRow ==
  ASSUME NEW r \in JobRow, NEW v \in Verdict
  PROVE  /\ Close(r, v) \in JobRow
         /\ Close(r, v).status = v.status /\ Close(r, v).done = v.done
         /\ Close(r, v).target = r.target /\ Close(r, v).specs = r.specs
  BY DEF Close, JobRow, Verdict

-----------------------------------------------------------------------------
(* What every step does to the rows: no row disappears, no job changes its *)
(* number of specs, no completed_at of a task is cleared.                  *)
RowsKept ==
  /\ \A j \in Jobs : job[j].status # "NONE" =>
       job'[j].status # "NONE" /\ job'[j].specs = job[j].specs
  /\ \A k \in Tasks : (Exists(k) => Exists(k)') /\ (task[k].done => task'[k].done)

(* What every step but those of the dispatcher does.                       *)
NoRowCreated ==
  /\ \A j \in Jobs : job[j] = NoJob => job'[j] = NoJob
  /\ \A k \in Tasks : task[k] = NoTask => task'[k] = NoTask

LEMMA VerdictsFrame ==
  ASSUME IInv, RowsKept, UNCHANGED <<rawBatch, cons>>
  PROVE  VerdictsHold'
<1>. SUFFICES ASSUME NEW c \in Consumers PROVE VerdictHolds(c)'
  BY DEF VerdictsHold
<1>1. VerdictHolds(c)
  BY DEF IInv, VerdictsHold
<1>2. CASE cons[c].pc = "commit"
  <2>. DEFINE k == Message(c).task
  <2>1. k \in Tasks /\ job[k[1]].status # "NONE" /\ k[1] \in Jobs
    BY <1>2 DEF IInv, TypeOK, MessagesAreTraceable, TasksHaveJobs, Message,
                ConsumerState, Completion
  <2>2. job'[k[1]].specs = job[k[1]].specs
    BY <2>1 DEF RowsKept
  <2>3. AloneInTx(c)' /\ AggregateHolds(c)'
    BY <1>1, <1>2, <2>2
    DEF VerdictHolds, AloneInTx, AggregateHolds, Message, BatchOf, Recorded
  <2>. QED BY <1>1, <1>2, <2>3 DEF VerdictHolds, Message, BatchOf
<1>3. CASE cons[c].pc # "commit"
  <2>1. cons[c].pc = "committed" => Message(c).task \in Tasks
    BY DEF IInv, TypeOK, MessagesAreTraceable, Message, ConsumerState, Completion
  <2>. QED BY <1>1, <1>3, <2>1 DEF VerdictHolds, Message, RowsKept
<1>. QED BY <1>2, <1>3

LEMMA MessagesFrame ==
  ASSUME IInv, RowsKept, UNCHANGED <<requests, inbox, cons>>
  PROVE  MessagesAreTraceable'
  BY DEF IInv, TypeOK, MessagesAreTraceable, RowsKept, Message, ConsumerState,
         Completion

LEMMA AckedFrame ==
  ASSUME IInv, RowsKept, UNCHANGED <<acked, rawBatch>>
  PROVE  AckedAnswersSettled'
  BY DEF IInv, TypeOK, AckedAnswersSettled, RowsKept, Completion

(* A step that is not the dispatchers' leaves them what they own.          *)
LEMMA OwnersFrame ==
  ASSUME IInv, RowsKept, NoRowCreated, UNCHANGED disp
  PROVE  DispatchersOwnJobs'
<1>. SUFFICES ASSUME NEW d \in Dispatchers PROVE OwnsJob(d)'
  BY DEF DispatchersOwnJobs
<1>1. OwnsJob(d) /\ disp[d] \in DispatcherState
  BY DEF IInv, DispatchersOwnJobs, TypeOK
<1>2. CASE Dispatching(d)
  <2>1. disp[d].job \in Jobs
    BY <1>1, <1>2 DEF OwnsJob, DispatcherState, Dispatching
  <2>2. disp[d].pc # "spec" => Current(d) \in Tasks
    BY <1>1, <1>2, <2>1 DEF OwnsJob, Current, Dispatching, DispatcherState
  <2>. QED BY <1>1, <1>2, <2>1, <2>2
           DEF OwnsJob, Dispatching, Current, RowsKept, NoRowCreated
<1>3. CASE ~Dispatching(d)
  BY <1>1, <1>3 DEF OwnsJob, Dispatching, NoRowCreated, DispatcherState
<1>. QED BY <1>2, <1>3

(* A step of dispatcher d that touches only its own job and tasks leaves   *)
(* the other dispatchers what they own.                                    *)
LEMMA OtherOwnersFrame ==
  ASSUME IInv, NEW d \in Dispatchers, OwnsJob(d)',
         \A e \in Dispatchers \ {d} : disp'[e] = disp[e],
         disp'[d].job \in {disp[d].job, None},
         \A j \in Jobs \ {disp[d].job} : job'[j] = job[j],
         \A k \in Tasks : k[1] # disp[d].job => task'[k] = task[k]
  PROVE  DispatchersOwnJobs'
<1>. SUFFICES ASSUME NEW e \in Dispatchers \ {d} PROVE OwnsJob(e)'
  BY DEF DispatchersOwnJobs
<1>1. OwnsJob(e) /\ OwnsJob(d) /\ disp[e] \in DispatcherState
  BY DEF IInv, DispatchersOwnJobs, TypeOK
<1>2. CASE disp[e].pc = "idle"
  BY <1>1, <1>2 DEF OwnsJob, Dispatching
<1>3. CASE disp[e].pc # "idle"
  <2>1. disp[e].job \in Jobs \ {disp[d].job}
    BY <1>1, <1>3 DEF OwnsJob, DispatcherState
  <2>2. job'[disp[e].job] = job[disp[e].job]
    BY <2>1
  <2>3. \A i \in 1..MaxSpecs : task'[<<disp[e].job, i>>] = task[<<disp[e].job, i>>]
    BY <2>1
  <2>4. \A f \in Dispatchers : disp'[f].job = disp[e].job => f = e
    BY <1>1, <1>3, <2>1 DEF OwnsJob
  <2>5. Dispatching(e) /\ disp[e].pc # "spec" => disp[e].next \in 1..MaxSpecs
    BY <1>1 DEF OwnsJob, DispatcherState, Dispatching
  <2>. QED BY <1>1, <1>3, <2>1, <2>2, <2>3, <2>4, <2>5
           DEF OwnsJob, Dispatching, Current, Exists
<1>. QED BY <1>2, <1>3

-----------------------------------------------------------------------------
(* One lemma per action.                                                   *)
LEMMA CancelProjectRuntimeStep ==
  ASSUME IInv, CancelProjectRuntime
  PROVE  IInv'
<1>. USE DEF IInv, CancelProjectRuntime, ledgerVars, brokerVars
<1>1. \A k \in Tasks :
        /\ task'[k] \in TaskRow
        /\ task'[k] = task[k]
           \/ (task[k].status \in Live /\ task'[k] = [status |-> "CANCELLED", done |-> TRUE])
  BY DEF TypeOK, TaskRow, TaskStatus, Failed, Live, Settled
<1>2. \A j \in Jobs :
        /\ job'[j] \in JobRow
        /\ job'[j].specs = job[j].specs /\ job'[j].target = job[j].target
        /\ job'[j] = job[j]
           \/ (job[j].status \in Cancellable /\ job'[j].status = "CANCELLED" /\ job'[j].done)
  <2>. SUFFICES ASSUME NEW j \in Jobs
                PROVE  /\ job'[j] \in JobRow
                       /\ job'[j].specs = job[j].specs /\ job'[j].target = job[j].target
                       /\ job'[j] = job[j]
                          \/ (/\ job[j].status \in Cancellable
                              /\ job'[j].status = "CANCELLED" /\ job'[j].done)
    OBVIOUS
  <2>1. Settled("CANCELLED") \in Verdict
    BY DEF Settled, Verdict, JobStatus, Failed
  <2>2. job[j] \in JobRow
    BY DEF TypeOK
  <2>. QED BY <2>1, <2>2, CloseRow DEF Settled
<1>3. RowsKept
  BY <1>1, <1>2 DEF RowsKept, Exists, Live
<1>4. NoRowCreated
  BY <1>1, <1>2 DEF NoRowCreated, NoJob, NoTask, Live, Cancellable
<1>5. TypeOK'
  BY <1>1, <1>2 DEF TypeOK
<1>6. JobsAreWhole' /\ CompletedAtMatchesStatus' /\ OneRunningSingleSpecJob'
  BY <1>2 DEF JobsAreWhole, CompletedAtMatchesStatus, OneRunningSingleSpecJob, Cancellable, Failed
<1>7. TasksHaveJobs'
  BY <1>1, <1>3 DEF TasksHaveJobs, RowsKept, Exists, Live
<1>9. SuccessIsRecorded'
  <2>. SUFFICES ASSUME NEW k \in Tasks, task'[k].status = "SUCCESS"
                PROVE  rawBatch'[BatchId[k]] = k
    BY DEF SuccessIsRecorded, Recorded
  <2>1. task[k].status = "SUCCESS"
    BY <1>1
  <2>. QED BY <2>1 DEF SuccessIsRecorded, Recorded
<1>8. JobSuccessIsComplete'
  <2>. SUFFICES ASSUME NEW j \in Jobs, job'[j].status = "SUCCESS", NEW i \in 1..job'[j].specs
                PROVE  rawBatch'[BatchId[<<j, i>>]] = <<j, i>>
    BY DEF JobSuccessIsComplete, Recorded
  <2>1. job[j].status = "SUCCESS" /\ job'[j].specs = job[j].specs
    BY <1>2
  <2>. QED BY <2>1 DEF JobSuccessIsComplete, Recorded
<1>10. VerdictsHold' /\ MessagesAreTraceable' /\ AckedAnswersSettled' /\ DispatchersOwnJobs'
  <2>. HIDE DEF IInv
  <2>. QED BY <1>3, <1>4, VerdictsFrame, MessagesFrame, AckedFrame, OwnersFrame
<1>. QED
  <2>. HIDE DEF CancelProjectRuntime, ledgerVars, brokerVars, IInv
  <2>1. (IInv /\ CancelProjectRuntime) => IInv'
    BY <1>5, <1>6, <1>7, <1>8, <1>9, <1>10 DEF IInv
  <2>. QED BY <2>1

LEMMA DispatchTargetStep ==
  ASSUME IInv, NEW d \in Dispatchers, NEW t \in Targets, DispatchTarget(d, t)
  PROVE  IInv'
<1>. USE DEF DispatchTarget, ledgerVars, brokerVars
<1>1. PICK j \in FreeJobs, n \in 1..MaxSpecs :
        disp' = [disp EXCEPT ![d] = [pc |-> "prepared", target |-> t, job |-> j,
                                     specs |-> n, next |-> 1, sent |-> 0]]
  OBVIOUS
<1>2. j \in Jobs /\ job[j] = NoJob /\ \A e \in Dispatchers : disp[e].job # j
  BY DEF FreeJobs
<1>3. TypeOK'
  BY <1>1, <1>2 DEF IInv, TypeOK, DispatcherState
<1>4. DispatchersOwnJobs'
  <2>. SUFFICES ASSUME NEW e \in Dispatchers PROVE OwnsJob(e)'
    BY DEF DispatchersOwnJobs
  <2>1. CASE e = d
    BY <1>1, <1>2, <2>1 DEF IInv, TypeOK, OwnsJob, Dispatching
  <2>2. CASE e # d
    <3>1. disp'[e] = disp[e] /\ disp'[d].job = j /\ disp[e].job # j
      BY <1>1, <1>2, <2>2 DEF IInv, TypeOK
    <3>2. \A f \in Dispatchers : f # d => disp'[f] = disp[f]
      BY <1>1 DEF IInv, TypeOK
    <3>. QED BY <2>2, <3>1, <3>2 DEF IInv, DispatchersOwnJobs, OwnsJob, Dispatching,
                                     Current, Exists
  <2>. QED BY <2>1, <2>2
<1>5. RowsKept
  BY DEF RowsKept, Exists
<1>6. VerdictsHold' /\ MessagesAreTraceable' /\ AckedAnswersSettled'
  BY <1>5, VerdictsFrame, MessagesFrame, AckedFrame
<1>. QED BY <1>3, <1>4, <1>6
         DEF IInv, JobsAreWhole, TasksHaveJobs, SuccessIsRecorded, Recorded,
             JobSuccessIsComplete, CompletedAtMatchesStatus, OneRunningSingleSpecJob, Exists

LEMMA CreateScheduledJobStep ==
  ASSUME IInv, NEW d \in Dispatchers, CreateScheduledJob(d)
  PROVE  IInv'
<1>. USE DEF CreateScheduledJob, ledgerVars, brokerVars
<1>. DEFINE j == disp[d].job
<1>1. /\ j \in Jobs /\ disp[d].target \in Targets /\ disp[d].specs \in 1..MaxSpecs
      /\ job[j] = NoJob /\ disp[d] \in DispatcherState /\ OwnsJob(d)
      /\ disp[d].next \in Nat
  BY DEF IInv, TypeOK, DispatchersOwnJobs, OwnsJob, DispatcherState
<1>2. \A i \in 1..MaxSpecs : task[<<j, i>>] = NoTask
  BY <1>1 DEF IInv, TasksHaveJobs, NoJob, Exists
<1>3. CASE /\ ~RunningJobExists(disp[d].target)
           /\ job' = [job EXCEPT ![j] =
                        [status |-> "RUNNING", done |-> FALSE,
                         target |-> disp[d].target, specs |-> disp[d].specs]]
           /\ Goto(d, "spec")
  <2>1. TypeOK'
    BY <1>1, <1>3 DEF IInv, TypeOK, JobRow, JobStatus, Failed, DispatcherState, Goto
  <2>2. RowsKept
    BY <1>1, <1>3 DEF IInv, TypeOK, RowsKept, Exists, NoJob
  <2>3. OwnsJob(d)'
    BY <1>1, <1>2, <1>3 DEF IInv, TypeOK, OwnsJob, Dispatching, Goto
  <2>4. DispatchersOwnJobs'
    BY <1>1, <1>3, <2>3, OtherOwnersFrame DEF IInv, TypeOK, Goto
  <2>5. JobsAreWhole' /\ CompletedAtMatchesStatus' /\ JobSuccessIsComplete'
    BY <1>1, <1>3 DEF IInv, TypeOK, JobsAreWhole, CompletedAtMatchesStatus,
                      JobSuccessIsComplete, Recorded, Failed
  <2>6. TasksHaveJobs' /\ SuccessIsRecorded'
    BY <2>2 DEF IInv, TasksHaveJobs, SuccessIsRecorded, RowsKept, Exists, Recorded
  <2>7. OneRunningSingleSpecJob'
    BY <1>1, <1>3 DEF IInv, TypeOK, OneRunningSingleSpecJob, RunningJobExists
  <2>. QED BY <2>1, <2>2, <2>4, <2>5, <2>6, <2>7,
              VerdictsFrame, MessagesFrame, AckedFrame DEF IInv
<1>4. CASE Leave(d) /\ UNCHANGED job
  <2>1. TypeOK' /\ OwnsJob(d)'
    BY <1>4 DEF IInv, TypeOK, DispatcherState, Leave, IdleDispatcher, OwnsJob, Dispatching
  <2>2. RowsKept
    BY <1>4 DEF RowsKept, Exists
  <2>3. DispatchersOwnJobs'
    BY <1>1, <1>4, <2>1, OtherOwnersFrame DEF IInv, TypeOK, Leave, IdleDispatcher
  <2>. QED BY <1>4, <2>1, <2>2, <2>3, VerdictsFrame, MessagesFrame, AckedFrame
           DEF IInv, JobsAreWhole, TasksHaveJobs, SuccessIsRecorded, Recorded,
               JobSuccessIsComplete, CompletedAtMatchesStatus, OneRunningSingleSpecJob, Exists
<1>. QED BY <1>3, <1>4

(* Steps of a dispatcher that touch no row.                                *)
LEMMA OnlyDispatcherMoves ==
  ASSUME IInv, UNCHANGED <<job, task, rawBatch, acked, cons>>,
         TypeOK', DispatchersOwnJobs', MessagesAreTraceable'
  PROVE  IInv'
<1>1. RowsKept
  BY DEF RowsKept, Exists
<1>. QED BY <1>1, VerdictsFrame, AckedFrame
         DEF IInv, JobsAreWhole, TasksHaveJobs, SuccessIsRecorded, Recorded,
             JobSuccessIsComplete, CompletedAtMatchesStatus, OneRunningSingleSpecJob, Exists

(* Where the record of a dispatching dispatcher points.                    *)
LEMMA DispatchingFacts ==
  ASSUME IInv, NEW d \in Dispatchers, Dispatching(d)
  PROVE  /\ disp[d].job \in Jobs /\ disp[d] \in DispatcherState /\ OwnsJob(d)
         /\ disp[d].next \in Nat /\ disp[d].specs \in 1..MaxSpecs
         /\ disp[d].next <= disp[d].specs => Current(d) \in Tasks
         /\ job[disp[d].job].status # "NONE" /\ job[disp[d].job].specs = disp[d].specs
         /\ Current(d)[1] = disp[d].job /\ Current(d)[2] = disp[d].next
  BY DEF IInv, TypeOK, DispatchersOwnJobs, OwnsJob, DispatcherState, Dispatching, Current

LEMMA CrashDispatcherStep ==
  ASSUME IInv, NEW d \in Dispatchers, CrashDispatcher(d)
  PROVE  IInv'
<1>. USE DEF CrashDispatcher, ledgerVars, brokerVars, Leave, IdleDispatcher
<1>1. TypeOK' /\ OwnsJob(d)'
  BY DEF IInv, TypeOK, DispatcherState, OwnsJob, Dispatching
<1>2. DispatchersOwnJobs'
  BY <1>1, OtherOwnersFrame DEF IInv, TypeOK
<1>3. MessagesAreTraceable'
  BY DEF IInv, MessagesAreTraceable, Message, Exists
<1>. QED BY <1>1, <1>2, <1>3, OnlyDispatcherMoves

LEMMA SpecFailsStep ==
  ASSUME IInv, NEW d \in Dispatchers, SpecFails(d)
  PROVE  IInv'
<1>. USE DEF SpecFails, MoreSpecs, NextSpec, ledgerVars, brokerVars
<1>1. Dispatching(d)
  BY DEF Dispatching
<1>2. TypeOK' /\ OwnsJob(d)'
  BY <1>1, DispatchingFacts DEF IInv, TypeOK, DispatcherState, OwnsJob, Dispatching
<1>3. DispatchersOwnJobs'
  BY <1>2, OtherOwnersFrame DEF IInv, TypeOK
<1>4. MessagesAreTraceable'
  BY DEF IInv, MessagesAreTraceable, Message, Exists
<1>. QED BY <1>2, <1>3, <1>4, OnlyDispatcherMoves

LEMMA GotoFacts ==
  ASSUME disp \in [Dispatchers -> DispatcherState], NEW d \in Dispatchers,
         NEW pc \in {"idle", "prepared", "spec", "created", "published", "unpublished"},
         disp' = [disp EXCEPT ![d].pc = pc]
  PROVE  /\ disp' \in [Dispatchers -> DispatcherState]
         /\ \A e \in Dispatchers \ {d} : disp'[e] = disp[e]
         /\ disp'[d].pc = pc /\ disp'[d].job = disp[d].job
         /\ disp'[d].specs = disp[d].specs /\ disp'[d].next = disp[d].next
         /\ disp'[d].sent = disp[d].sent /\ disp'[d].target = disp[d].target
<1>. DEFINE r == [disp[d] EXCEPT !.pc = pc]
<1>1. disp[d] \in DispatcherState
  OBVIOUS
<1>2. r \in DispatcherState
  BY <1>1 DEF DispatcherState
<1>3. disp' = [disp EXCEPT ![d] = r]
  OBVIOUS
<1>4. r.pc = pc /\ r.job = disp[d].job /\ r.specs = disp[d].specs /\ r.next = disp[d].next
      /\ r.sent = disp[d].sent /\ r.target = disp[d].target
  BY <1>1 DEF DispatcherState
<1>. QED BY <1>2, <1>3, <1>4

LEMMA PublishStep ==
  ASSUME IInv, NEW d \in Dispatchers, PublishDispatch(d) \/ PublishFails(d)
  PROVE  IInv'
<1>. USE DEF PublishDispatch, PublishFails, Goto, ledgerVars
<1>1. Dispatching(d) /\ disp[d].pc = "created"
  BY DEF Dispatching
<1>2. Exists(Current(d)) /\ Current(d) \in Tasks
  BY <1>1, DispatchingFacts DEF OwnsJob
<1>3. requests' \subseteq requests \cup {Current(d)}
  OBVIOUS
<1>4. PICK pc \in {"published", "unpublished"} : disp' = [disp EXCEPT ![d].pc = pc]
  OBVIOUS
<1>5. TypeOK'
  BY <1>2, <1>3, <1>4, GotoFacts DEF IInv, TypeOK
<1>6. OwnsJob(d)'
  BY <1>1, <1>4, DispatchingFacts
  DEF IInv, TypeOK, DispatcherState, OwnsJob, Dispatching, Current, Exists
<1>7. DispatchersOwnJobs'
  BY <1>4, <1>6, OtherOwnersFrame DEF IInv, TypeOK, DispatcherState
<1>8. MessagesAreTraceable'
  BY <1>2, <1>3 DEF IInv, MessagesAreTraceable, Message, Exists
<1>. QED BY <1>5, <1>7, <1>8, OnlyDispatcherMoves

(* A dispatcher writes the task it is at: the task keeps its completed_at, *)
(* and if it becomes SUCCESS its batch was recorded.                       *)
LEMMA CurrentTaskWritten ==
  ASSUME IInv, NEW d \in Dispatchers, Dispatching(d),
         disp[d].next <= disp[d].specs, NEW row \in TaskRow,
         row.status \notin {"NONE", "SUCCESS"}, task[Current(d)].done => row.done,
         task' = [task EXCEPT ![Current(d)] = row],
         \A e \in Dispatchers \ {d} : disp'[e] = disp[e],
         disp'[d].job = disp[d].job,
         UNCHANGED <<job, rawBatch, brokerVars, cons>>, TypeOK', OwnsJob(d)'
  PROVE  IInv'
<1>. USE DEF brokerVars
<1>1. Current(d) \in Tasks /\ Current(d)[1] = disp[d].job /\ Current(d)[2] <= disp[d].specs
  BY DispatchingFacts
<1>2. \A k \in Tasks : task'[k] = IF k = Current(d) THEN row ELSE task[k]
  BY <1>1 DEF IInv, TypeOK
<1>3. RowsKept
  BY <1>2 DEF RowsKept, Exists
<1>4. DispatchersOwnJobs'
  BY <1>1, <1>2, OtherOwnersFrame
<1>5. TasksHaveJobs' /\ SuccessIsRecorded'
  BY <1>1, <1>2, DispatchingFacts
  DEF IInv, TasksHaveJobs, SuccessIsRecorded, Recorded, Exists
<1>6. JobsAreWhole' /\ JobSuccessIsComplete' /\ CompletedAtMatchesStatus'
      /\ OneRunningSingleSpecJob'
  BY DEF IInv, JobsAreWhole, JobSuccessIsComplete, CompletedAtMatchesStatus,
         OneRunningSingleSpecJob, Recorded
<1>. QED BY <1>3, <1>4, <1>5, <1>6, VerdictsFrame, MessagesFrame, AckedFrame DEF IInv

LEMMA CreateExternalTaskStep ==
  ASSUME IInv, NEW d \in Dispatchers, CreateExternalTask(d)
  PROVE  IInv'
<1>. USE DEF CreateExternalTask, MoreSpecs, Goto, brokerVars
<1>1. Dispatching(d) /\ disp[d].pc = "spec" /\ disp[d].next <= disp[d].specs
  BY DEF Dispatching
<1>2. Current(d) \in Tasks
  BY <1>1, DispatchingFacts
<1>3. task[Current(d)] = NoTask
  BY <1>1, DispatchingFacts DEF OwnsJob, Current
<1>. DEFINE row == [status |-> "PENDING", done |-> FALSE]
<1>4. row \in TaskRow /\ row.status \notin {"NONE", "SUCCESS"}
  BY DEF TaskRow, TaskStatus, Live
<1>5. TypeOK'
  BY <1>1, <1>2, <1>4, GotoFacts DEF IInv, TypeOK
<1>6. OwnsJob(d)'
  BY <1>1, <1>2, <1>4, DispatchingFacts
  DEF IInv, TypeOK, OwnsJob, Dispatching, Current, Exists, DispatcherState
<1>. HIDE DEF row
<1>7. disp'[d].job = disp[d].job /\ \A e \in Dispatchers \ {d} : disp'[e] = disp[e]
  <2>1. disp' = [disp EXCEPT ![d].pc = "created"] /\ disp \in [Dispatchers -> DispatcherState]
    BY DEF IInv, TypeOK
  <2>2. disp[d] \in DispatcherState
    BY <2>1
  <2>. QED BY <2>1, <2>2 DEF DispatcherState
<1>8. task' = [task EXCEPT ![Current(d)] = row] /\ ~task[Current(d)].done
  BY <1>3 DEF row, NoTask
<1>. QED BY <1>1, <1>4, <1>5, <1>6, <1>7, <1>8, CurrentTaskWritten

LEMMA MarkExternalTaskPublishedStep ==
  ASSUME IInv, NEW d \in Dispatchers, MarkExternalTaskPublished(d)
  PROVE  IInv'
<1>. USE DEF MarkExternalTaskPublished, Goto, NextSpec, brokerVars
<1>1. Dispatching(d) /\ disp[d].pc = "published"
  BY DEF Dispatching
<1>2. Current(d) \in Tasks /\ disp[d].next <= disp[d].specs
  BY <1>1, DispatchingFacts DEF OwnsJob
<1>. DEFINE row == [task[Current(d)] EXCEPT !.status = "RUNNING"]
<1>3. row \in TaskRow /\ row.status = "RUNNING" /\ row.done = task[Current(d)].done
  BY <1>2 DEF IInv, TypeOK, TaskRow, TaskStatus, Live
<1>4. CASE task' = [task EXCEPT ![Current(d)].status = "RUNNING"] /\ NextSpec(d, 1)
  <2>1. task' = [task EXCEPT ![Current(d)] = row]
    BY <1>4
  <2>. HIDE DEF row
  <2>2. TypeOK'
    BY <1>1, <1>2, <1>3, <1>4, <2>1, DispatchingFacts DEF IInv, TypeOK, DispatcherState, OwnsJob
  <2>3. OwnsJob(d)'
    BY <1>1, <1>2, <1>3, <1>4, <2>1, DispatchingFacts
    DEF IInv, TypeOK, OwnsJob, Dispatching, Current, DispatcherState
  <2>4. disp'[d].job = disp[d].job /\ \A e \in Dispatchers \ {d} : disp'[e] = disp[e]
    BY <1>4 DEF IInv, TypeOK
  <2>. QED BY <1>1, <1>2, <1>3, <2>1, <2>2, <2>3, <2>4, CurrentTaskWritten
<1>5. CASE Goto(d, "unpublished") /\ UNCHANGED task
  <2>1. TypeOK'
    BY <1>5, GotoFacts DEF IInv, TypeOK
  <2>2. OwnsJob(d)'
    BY <1>1, <1>5, DispatchingFacts
    DEF IInv, TypeOK, DispatcherState, OwnsJob, Dispatching, Current, Exists
  <2>3. DispatchersOwnJobs'
    BY <1>5, <2>2, OtherOwnersFrame DEF IInv, TypeOK, DispatcherState
  <2>4. MessagesAreTraceable'
    BY <1>5 DEF IInv, MessagesAreTraceable, Message, Exists
  <2>. QED BY <1>5, <2>1, <2>3, <2>4, OnlyDispatcherMoves
<1>. QED BY <1>4, <1>5

LEMMA MarkExternalTaskFailedStep ==
  ASSUME IInv, NEW d \in Dispatchers, MarkExternalTaskFailed(d)
  PROVE  IInv'
<1>. USE DEF MarkExternalTaskFailed, NextSpec, ledgerVars
<1>1. Dispatching(d) /\ disp[d].pc = "unpublished"
  BY DEF Dispatching
<1>2. Current(d) \in Tasks /\ disp[d].next <= disp[d].specs
  BY <1>1, DispatchingFacts DEF OwnsJob
<1>3. Settled("FAILED") \in TaskRow /\ Settled("FAILED").status = "FAILED"
      /\ Settled("FAILED").done
  BY DEF Settled, TaskRow, TaskStatus, Failed
<1>4. TypeOK'
  BY <1>1, <1>2, <1>3, DispatchingFacts DEF IInv, TypeOK, DispatcherState, OwnsJob
<1>5. OwnsJob(d)'
  BY <1>1, <1>2, DispatchingFacts DEF IInv, TypeOK, OwnsJob, Dispatching, Current, DispatcherState
<1>6. disp'[d].job = disp[d].job /\ \A e \in Dispatchers \ {d} : disp'[e] = disp[e]
  BY DEF IInv, TypeOK
<1>7. CASE task' = [task EXCEPT ![Current(d)] = Settled("FAILED")]
  BY <1>1, <1>2, <1>3, <1>4, <1>5, <1>6, <1>7, CurrentTaskWritten
<1>8. CASE UNCHANGED task
  <2>1. DispatchersOwnJobs'
    BY <1>5, <1>6, <1>8, OtherOwnersFrame
  <2>2. MessagesAreTraceable'
    BY <1>8 DEF IInv, MessagesAreTraceable, Message, Exists, brokerVars
  <2>. QED BY <1>4, <1>8, <2>1, <2>2, OnlyDispatcherMoves DEF brokerVars
<1>. QED BY <1>7, <1>8

LEMMA FinalizeScheduledJobStep ==
  ASSUME IInv, NEW d \in Dispatchers, FinalizeScheduledJob(d)
  PROVE  IInv'
<1>. USE DEF FinalizeScheduledJob, ledgerVars, brokerVars
<1>. DEFINE j == disp[d].job
<1>1. Dispatching(d)
  BY DEF Dispatching
<1>2. j \in Jobs /\ job[j].status # "NONE" /\ job[j] \in JobRow
  BY <1>1, DispatchingFacts DEF IInv, TypeOK
<1>3. \/ UNCHANGED job
      \/ /\ job' = [job EXCEPT ![j] = job'[j]] /\ job'[j] \in JobRow
         /\ job'[j].specs = job[j].specs /\ job'[j].target = job[j].target
         /\ \/ job'[j].status = "FAILED" /\ job'[j].done
            \/ job'[j].status = "PARTIAL"
  <2>1. /\ Settled("FAILED") \in Verdict /\ [status |-> "PARTIAL", done |-> FALSE] \in Verdict
        /\ Settled("FAILED").status = "FAILED" /\ Settled("FAILED").done
    BY DEF Settled, Verdict, JobStatus, Failed
  <2>2. CASE CloseJob(d, Settled("FAILED"))
    <3>1. job' = [job EXCEPT ![j] = Close(job[j], Settled("FAILED"))]
      BY <2>2 DEF CloseJob
    <3>2. job'[j] = Close(job[j], Settled("FAILED"))
      BY <1>2, <3>1 DEF IInv, TypeOK
    <3>3. job' = [job EXCEPT ![j] = job'[j]]
      BY <3>1, <3>2
    <3>4. /\ job'[j] \in JobRow
          /\ job'[j].specs = job[j].specs /\ job'[j].target = job[j].target
          /\ job'[j].status = "FAILED" /\ job'[j].done
      BY <1>2, <2>1, <3>2, CloseRow
    <3>. QED BY <3>3, <3>4
  <2>3. CASE CloseJob(d, [status |-> "PARTIAL", done |-> FALSE])
    <3>1. job' = [job EXCEPT ![j] = Close(job[j], [status |-> "PARTIAL", done |-> FALSE])]
      BY <2>3 DEF CloseJob
    <3>2. job'[j] = Close(job[j], [status |-> "PARTIAL", done |-> FALSE])
      BY <1>2, <3>1 DEF IInv, TypeOK
    <3>3. job' = [job EXCEPT ![j] = job'[j]]
      BY <3>1, <3>2
    <3>4. /\ job'[j] \in JobRow
          /\ job'[j].specs = job[j].specs /\ job'[j].target = job[j].target
          /\ job'[j].status = "PARTIAL"
      BY <1>2, <2>1, <3>2, CloseRow
    <3>. QED BY <3>3, <3>4
  <2>. QED BY <2>2, <2>3
<1>4. TypeOK'
  BY <1>2, <1>3 DEF IInv, TypeOK, Leave, DispatcherState, IdleDispatcher
<1>5. RowsKept
  BY <1>2, <1>3 DEF IInv, TypeOK, RowsKept, Exists
<1>6. OwnsJob(d)'
  BY DEF IInv, TypeOK, Leave, IdleDispatcher, OwnsJob, Dispatching
<1>7. DispatchersOwnJobs'
  BY <1>2, <1>3, <1>6, OtherOwnersFrame DEF IInv, TypeOK, Leave, IdleDispatcher
<1>8. JobsAreWhole' /\ CompletedAtMatchesStatus' /\ JobSuccessIsComplete'
  BY <1>2, <1>3 DEF IInv, TypeOK, JobsAreWhole, CompletedAtMatchesStatus,
                    JobSuccessIsComplete, Recorded, Failed
<1>9. OneRunningSingleSpecJob'
  <2>1. \A i \in Jobs : job'[i].status = "RUNNING" =>
          job[i].status = "RUNNING" /\ job'[i].specs = job[i].specs
                                   /\ job'[i].target = job[i].target
    BY <1>2, <1>3 DEF IInv, TypeOK
  <2>. QED BY <2>1 DEF IInv, OneRunningSingleSpecJob
<1>10. TasksHaveJobs' /\ SuccessIsRecorded'
  BY <1>5 DEF IInv, TasksHaveJobs, SuccessIsRecorded, RowsKept, Exists, Recorded
<1>. QED BY <1>4, <1>5, <1>7, <1>8, <1>9, <1>10,
            VerdictsFrame, MessagesFrame, AckedFrame DEF IInv

-----------------------------------------------------------------------------
LEMMA CrawlerAnswersStep ==
  ASSUME IInv, NEW k \in Tasks, CrawlerAnswers(k)
  PROVE  IInv'
<1>. USE DEF CrawlerAnswers, ledgerVars
<1>1. PICK m \in Completion : m.task = k /\ inbox' = inbox \cup {m}
  OBVIOUS
<1>2. RowsKept /\ NoRowCreated
  BY DEF RowsKept, NoRowCreated, Exists
<1>3. TypeOK'
  BY <1>1 DEF IInv, TypeOK
<1>4. MessagesAreTraceable'
  BY <1>1 DEF IInv, MessagesAreTraceable, Message, Exists
<1>. QED BY <1>2, <1>3, <1>4, VerdictsFrame, AckedFrame, OwnersFrame
         DEF IInv, JobsAreWhole, TasksHaveJobs, SuccessIsRecorded, Recorded,
             JobSuccessIsComplete, CompletedAtMatchesStatus, OneRunningSingleSpecJob, Exists

(* Steps of a consumer that touch no row.                                  *)
LEMMA OnlyConsumerMoves ==
  ASSUME IInv, UNCHANGED <<job, task, rawBatch, disp>>,
         TypeOK', MessagesAreTraceable', VerdictsHold', AckedAnswersSettled'
  PROVE  IInv'
<1>1. RowsKept /\ NoRowCreated
  BY DEF RowsKept, NoRowCreated, Exists
<1>. QED BY <1>1, OwnersFrame
         DEF IInv, JobsAreWhole, TasksHaveJobs, SuccessIsRecorded, Recorded,
             JobSuccessIsComplete, CompletedAtMatchesStatus, OneRunningSingleSpecJob, Exists

LEMMA HandlingFacts ==
  ASSUME IInv, NEW c \in Consumers, cons[c].pc # "idle"
  PROVE  /\ Message(c) \in Completion /\ Message(c).task \in Tasks
         /\ Exists(Message(c).task)
         /\ BatchOf(c) = BatchId[Message(c).task] /\ BatchOf(c) \in Batches
         /\ cons[c] \in ConsumerState /\ VerdictHolds(c)
  BY DEF IInv, TypeOK, MessagesAreTraceable, VerdictsHold, ConsumerState,
         Completion, Message, BatchOf

(* A consumer that opens no transaction and ends none takes no verdict     *)
(* from the others.                                                        *)
LEMMA OtherVerdictsFrame ==
  ASSUME IInv, NEW c \in Consumers, UNCHANGED <<job, task, rawBatch>>,
         \A o \in Consumers \ {c} : cons'[o] = cons[o],
         cons'[c].pc \notin {"commit", "committed"}
  PROVE  VerdictsHold'
<1>. SUFFICES ASSUME NEW o \in Consumers PROVE VerdictHolds(o)'
  BY DEF VerdictsHold
<1>1. VerdictHolds(o)
  BY DEF IInv, VerdictsHold
<1>2. CASE o = c
  BY <1>2 DEF VerdictHolds
<1>3. CASE o # c
  <2>1. cons[o].pc = "commit" => AloneInTx(o)' /\ AggregateHolds(o)'
    BY <1>1, <1>3
    DEF VerdictHolds, AloneInTx, AggregateHolds, Message, BatchOf, Recorded
  <2>. QED BY <1>1, <1>3, <2>1 DEF VerdictHolds, Message, BatchOf
<1>. QED BY <1>2, <1>3

LEMMA ConsumerLeaves ==
  ASSUME IInv, NEW c \in Consumers, cons[c].pc # "idle",
         cons' = [cons EXCEPT ![c] = IdleConsumer],
         UNCHANGED <<job, task, rawBatch, requests, disp>>,
         inbox' \in {inbox, inbox \cup {Message(c)}},
         acked' \subseteq Completion, AckedAnswersSettled'
  PROVE  IInv'
<1>1. Message(c) \in Completion /\ Exists(Message(c).task)
  BY HandlingFacts
<1>2. TypeOK'
  BY <1>1 DEF IInv, TypeOK, IdleConsumer, ConsumerState
<1>3. MessagesAreTraceable'
  BY <1>1 DEF IInv, TypeOK, MessagesAreTraceable, Message, Exists, IdleConsumer
<1>4. VerdictsHold'
  BY OtherVerdictsFrame DEF IInv, TypeOK, IdleConsumer
<1>. QED BY <1>2, <1>3, <1>4, OnlyConsumerMoves

(* A delivery is acknowledged: rightly if its task is settled as the       *)
(* message has it or another message recorded the batch.                   *)
LEMMA AckIsSafe ==
  ASSUME IInv, NEW c \in Consumers, cons[c].pc # "idle", Ack(c),
         UNCHANGED <<job, task, rawBatch, requests, inbox, disp>>,
         \/ Message(c).status = "invalid"
         \/ task[Message(c).task].done
         \/ Message(c).status = "success" /\ rawBatch[BatchOf(c)] # None
  PROVE  IInv'
<1>1. AckedAnswersSettled' /\ acked' \subseteq Completion
  BY HandlingFacts DEF IInv, TypeOK, AckedAnswersSettled, Ack, Completion
<1>. QED BY <1>1, ConsumerLeaves DEF Ack

(* A consumer goes on without opening a transaction.                       *)
LEMMA ConsumerGoesOn ==
  ASSUME IInv, NEW c \in Consumers, cons[c].pc # "idle",
         NEW pc \in {"checking", "storing", "failing"}, Handle(c, pc),
         pc # "failing" => Message(c).status = "success",
         UNCHANGED <<job, task, rawBatch, requests, inbox, acked, disp>>
  PROVE  IInv'
<1>1. TypeOK'
  BY HandlingFacts DEF IInv, TypeOK, Handle, ConsumerState
<1>2. MessagesAreTraceable'
  BY HandlingFacts DEF IInv, TypeOK, MessagesAreTraceable, Message, Exists, Handle, ConsumerState
<1>3. VerdictsHold'
  BY HandlingFacts, OtherVerdictsFrame DEF IInv, TypeOK, Handle, ConsumerState
<1>4. AckedAnswersSettled'
  BY AckedFrame DEF RowsKept, Exists
<1>. QED BY <1>1, <1>2, <1>3, <1>4, OnlyConsumerMoves

LEMMA ReceiveStep ==
  ASSUME IInv, NEW c \in Consumers, Receive(c)
  PROVE  IInv'
<1>. USE DEF Receive, ledgerVars
<1>1. PICK m \in inbox : /\ inbox' = inbox \ {m}
                         /\ cons' = [cons EXCEPT ![c].pc = "received", ![c].msg = m]
  OBVIOUS
<1>2. m \in Completion /\ Exists(m.task) /\ cons[c] \in ConsumerState
  BY DEF IInv, TypeOK, MessagesAreTraceable
<1>3. cons'[c].pc = "received" /\ cons'[c].msg = m /\ cons'[c] \in ConsumerState
  BY <1>1, <1>2 DEF IInv, TypeOK, ConsumerState
<1>4. cons' = [cons EXCEPT ![c] = cons'[c]]
  BY <1>1 DEF IInv, TypeOK
<1>5. TypeOK'
  BY <1>1, <1>3, <1>4 DEF IInv, TypeOK
<1>6. MessagesAreTraceable'
  <2>1. \A x \in inbox' : Exists(x.task)'
    BY <1>1 DEF IInv, MessagesAreTraceable, Exists
  <2>2. Message(c)' = m /\ Exists(m.task)' /\ m # None /\ cons'[c].pc = "received"
    BY <1>2, <1>3, NoMessageIsNone DEF Message, Exists
  <2>3. \A o \in Consumers \ {c} : cons'[o] = cons[o]
    BY <1>1 DEF IInv, TypeOK
  <2>. QED BY <2>1, <2>2, <2>3 DEF IInv, MessagesAreTraceable, Message, Exists
<1>7. VerdictsHold'
  BY <1>3, <1>4, OtherVerdictsFrame DEF IInv, TypeOK
<1>8. AckedAnswersSettled'
  BY AckedFrame DEF RowsKept, Exists
<1>. QED BY <1>5, <1>6, <1>7, <1>8, OnlyConsumerMoves

LEMMA LookupTaskStep ==
  ASSUME IInv, NEW c \in Consumers, LookupTask(c)
  PROVE  IInv'
<1>. USE DEF LookupTask, ledgerVars
<1>1. CASE Ignorable(Message(c)) /\ Ack(c)
  <2>1. Message(c).status = "invalid" \/ task[Message(c).task].done
    BY <1>1, HandlingFacts DEF Ignorable, Settled
  <2>. QED BY <1>1, <2>1, AckIsSafe
<1>2. CASE /\ Handle(c, IF Message(c).status = "success" THEN "checking" ELSE "failing")
           /\ UNCHANGED acked
  BY <1>2, ConsumerGoesOn
<1>. QED BY <1>1, <1>2

LEMMA CheckRawBatchStep ==
  ASSUME IInv, NEW c \in Consumers, CheckRawBatch(c)
  PROVE  IInv'
<1>. USE DEF CheckRawBatch, ledgerVars
<1>0. cons[c].pc # "idle" /\ Message(c).status = "success"
  BY DEF IInv, MessagesAreTraceable
<1>1. CASE rawBatch[BatchOf(c)] # None /\ Ack(c)
  BY <1>0, <1>1, AckIsSafe
<1>2. CASE (Handle(c, "storing") \/ Handle(c, "failing")) /\ UNCHANGED acked
  BY <1>0, <1>2, ConsumerGoesOn
<1>. QED BY <1>1, <1>2

LEMMA FinishCompletionStep ==
  ASSUME IInv, NEW c \in Consumers, FinishCompletion(c)
  PROVE  IInv'
<1>1. task[Message(c).task].done
  BY HandlingFacts DEF FinishCompletion, VerdictHolds
<1>. QED BY <1>1, AckIsSafe DEF FinishCompletion, ledgerVars

LEMMA RequeueStep ==
  ASSUME IInv, NEW c \in Consumers, Requeue(c)
  PROVE  IInv'
<1>1. AckedAnswersSettled'
  BY AckedFrame DEF RowsKept, Exists, Requeue, ledgerVars
<1>. QED BY <1>1, ConsumerLeaves DEF IInv, TypeOK, Requeue, ledgerVars

(* A transaction begins: the verdict it has computed will still hold when  *)
(* it commits.                                                             *)
LEMMA BeginTxStep ==
  ASSUME IInv, NEW c \in Consumers, cons[c].pc \notin {"idle", "commit", "committed"},
         NEW status \in {"SUCCESS", "FAILED"}, BeginTx(c, status),
         status = "SUCCESS" => /\ rawBatch[BatchOf(c)] = None
                               /\ ~InsertedElsewhere(BatchOf(c)),
         UNCHANGED <<job, task, rawBatch, requests, inbox, acked, disp>>
  PROVE  IInv'
<1>. DEFINE k  == Message(c).task
            tk == [task EXCEPT ![k] = Settled(status)]
            v  == [task |-> Settled(status), job |-> Recomputed(k[1], tk)]
<1>1. /\ k \in Tasks /\ k[1] \in Jobs /\ k = <<k[1], k[2]>> /\ k[2] \in 1..MaxSpecs
      /\ k[2] <= job[k[1]].specs /\ cons[c] \in ConsumerState
  BY HandlingFacts DEF IInv, TasksHaveJobs
<1>2. cons' = [cons EXCEPT ![c].pc = "commit", ![c].verdict = v]
  BY DEF BeginTx
<1>3. /\ v.job \in Verdict
      /\ v.job.status # "NONE"
      /\ v.job.status = "RUNNING" => ~v.job.done /\ job[k[1]].specs # 1
      /\ v.job.status \in {"SUCCESS"} \cup Failed => v.job.done
      /\ v.job.status = "SUCCESS" =>
           \A i \in 1..job[k[1]].specs : tk[<<k[1], i>>].status = "SUCCESS"
  BY <1>1, RecomputedFacts DEF IInv
<1>4. v \in TxVerdict /\ v.task.status = status
  BY <1>3 DEF TxVerdict, Settled
<1>5. v.job.status = "SUCCESS" => \A i \in 1..job[k[1]].specs :
        Recorded(<<k[1], i>>) \/ (i = k[2] /\ v.task.status = "SUCCESS")
  <2>. SUFFICES ASSUME v.job.status = "SUCCESS", NEW i \in 1..job[k[1]].specs
                PROVE  Recorded(<<k[1], i>>) \/ (i = k[2] /\ v.task.status = "SUCCESS")
    OBVIOUS
  <2>1. i \in 1..MaxSpecs
    BY <1>1 DEF IInv, TypeOK, JobRow
  <2>2. tk[<<k[1], i>>].status = "SUCCESS"
    BY <1>3
  <2>3. CASE i = k[2]
    BY <1>1, <1>4, <2>2, <2>3 DEF IInv, TypeOK, Settled
  <2>4. CASE i # k[2]
    <3>1. tk[<<k[1], i>>] = task[<<k[1], i>>]
      BY <1>1, <2>1, <2>4 DEF IInv, TypeOK
    <3>. QED BY <1>1, <2>1, <2>2, <3>1 DEF IInv, SuccessIsRecorded
  <2>. QED BY <2>3, <2>4
<1>. HIDE DEF v, tk
<1>6. /\ cons'[c].pc = "commit" /\ cons'[c].verdict = v /\ cons'[c].msg = cons[c].msg
      /\ cons'[c] \in ConsumerState
      /\ \A o \in Consumers \ {c} : cons'[o] = cons[o]
  BY <1>1, <1>2, <1>4 DEF IInv, TypeOK, ConsumerState
<1>7. cons' \in [Consumers -> ConsumerState]
  BY <1>2, <1>6 DEF IInv, TypeOK
<1>8. TypeOK'
  BY <1>7 DEF IInv, TypeOK
<1>9. MessagesAreTraceable'
  BY <1>1, <1>6 DEF IInv, MessagesAreTraceable, Message, Exists
<1>10. AckedAnswersSettled'
  BY AckedFrame DEF RowsKept, Exists
<1>11. VerdictsHold'
  <2>. SUFFICES ASSUME NEW o \in Consumers PROVE VerdictHolds(o)'
    BY DEF VerdictsHold
  <2>1. \A x \in Consumers \ {c} : cons[x].pc = "commit" =>
          /\ Message(x).task # k
          /\ ~(status = "SUCCESS" /\ cons[x].verdict.task.status = "SUCCESS"
                 /\ BatchOf(x) = BatchOf(c))
    BY DEF BeginTx, RowFree, InsertedElsewhere, Message
  <2>2. CASE o = c
    <3>1. v # None
      BY <1>4, NoMessageIsNone
    <3>2. Message(c)' = Message(c) /\ BatchOf(c)' = BatchOf(c) /\ cons'[c].verdict = v
      BY <1>6 DEF Message, BatchOf
    <3>3. AloneInTx(c)'
      <4>1. \A x \in Consumers \ {c} : cons'[x] = cons[x] /\ Message(x)' = Message(x)
                                       /\ BatchOf(x)' = BatchOf(x)
        BY <1>6 DEF Message, BatchOf
      <4>. QED BY <1>4, <2>1, <3>2, <4>1 DEF AloneInTx
    <3>4. AggregateHolds(c)'
      <4>1. v.job.status = "SUCCESS" => \A i \in 1..job'[k[1]].specs :
              Recorded(<<k[1], i>>)' \/ (i = k[2] /\ v.task.status = "SUCCESS")
        BY <1>5, <3>2 DEF Recorded
      <4>. QED BY <1>3, <3>2, <4>1 DEF AggregateHolds
    <3>. QED BY <1>4, <1>6, <2>2, <3>1, <3>2, <3>3, <3>4 DEF VerdictHolds
  <2>3. CASE o # c
    <3>1. VerdictHolds(o) /\ cons'[o] = cons[o]
      BY <1>6, <2>3 DEF IInv, VerdictsHold
    <3>2. Message(o)' = Message(o) /\ BatchOf(o)' = BatchOf(o)
      BY <3>1 DEF Message, BatchOf
    <3>3. CASE cons[o].pc = "commit"
      <4>1. AggregateHolds(o)'
        BY <3>1, <3>2, <3>3 DEF VerdictHolds, AggregateHolds, Recorded
      <4>2. AloneInTx(o)'
        <5>. SUFFICES ASSUME NEW x \in Consumers \ {o}, cons'[x].pc = "commit"
                      PROVE  /\ Message(x)'.task # Message(o).task
                             /\ ~ /\ cons[o].verdict.task.status = "SUCCESS"
                                  /\ cons'[x].verdict.task.status = "SUCCESS"
                                  /\ BatchOf(x)' = BatchOf(o)
          BY <3>1, <3>2 DEF AloneInTx
        <5>1. CASE x = c
          <6>1. Message(c)' = Message(c) /\ BatchOf(c)' = BatchOf(c)
            BY <1>6 DEF Message, BatchOf
          <6>. QED BY <1>4, <1>6, <2>1, <2>3, <3>3, <5>1, <6>1
        <5>2. CASE x # c
          <6>1. cons'[x] = cons[x] /\ Message(x)' = Message(x) /\ BatchOf(x)' = BatchOf(x)
            BY <1>6, <5>2 DEF Message, BatchOf
          <6>. QED BY <3>1, <3>3, <6>1 DEF VerdictHolds, AloneInTx
        <5>. QED BY <5>1, <5>2
      <4>. QED BY <3>1, <3>2, <3>3, <4>1, <4>2 DEF VerdictHolds
    <3>4. CASE cons[o].pc # "commit"
      BY <3>1, <3>2, <3>4 DEF VerdictHolds
    <3>. QED BY <3>3, <3>4
  <2>. QED BY <2>2, <2>3
<1>. QED BY <1>8, <1>9, <1>10, <1>11, OnlyConsumerMoves

LEMMA CompleteTaskSuccessStep ==
  ASSUME IInv, NEW c \in Consumers, CompleteTaskSuccess(c)
  PROVE  IInv'
<1>. USE DEF CompleteTaskSuccess, ledgerVars
<1>1. cons[c].pc = "storing" /\ Message(c).status = "success"
  BY DEF IInv, MessagesAreTraceable
<1>2. CASE rawBatch[BatchOf(c)] # None /\ Ack(c)
  BY <1>1, <1>2, AckIsSafe
<1>3. CASE /\ rawBatch[BatchOf(c)] = None /\ ~InsertedElsewhere(BatchOf(c))
           /\ BeginTx(c, "SUCCESS") /\ UNCHANGED acked
  BY <1>1, <1>3, BeginTxStep
<1>. QED BY <1>2, <1>3

LEMMA CompleteTaskErrorStep ==
  ASSUME IInv, NEW c \in Consumers, CompleteTaskError(c)
  PROVE  IInv'
  BY BeginTxStep DEF CompleteTaskError, ledgerVars, brokerVars

(* The transaction commits.                                                *)
LEMMA CommitCompletionStep ==
  ASSUME IInv, NEW c \in Consumers, CommitCompletion(c)
  PROVE  IInv'
<1>. DEFINE k == Message(c).task
            v == cons[c].verdict
            j == k[1]
<1>1. /\ k \in Tasks /\ j \in Jobs /\ k[2] \in 1..MaxSpecs /\ k = <<j, k[2]>>
      /\ Exists(k) /\ job[j].status # "NONE" /\ k[2] <= job[j].specs
      /\ cons[c] \in ConsumerState /\ VerdictHolds(c) /\ cons[c].pc = "commit"
      /\ BatchOf(c) = BatchId[k] /\ BatchOf(c) \in Batches
  BY HandlingFacts DEF IInv, TasksHaveJobs, CommitCompletion
<1>2. v \in TxVerdict
  BY <1>1 DEF VerdictHolds, ConsumerState
<1>3. v.task.status \in {"SUCCESS", "FAILED"} /\ v.task.done = TRUE /\ v.job \in Verdict
      /\ v.task \in TaskRow
  BY <1>2 DEF TxVerdict, TaskRow, TaskStatus, Failed
<1>4. \A x \in Tasks : task'[x] = IF x = k THEN v.task ELSE task[x]
  BY <1>1 DEF CommitCompletion, IInv, TypeOK
<1>5. /\ \A x \in Jobs \ {j} : job'[x] = job[x]
      /\ job'[j] \in JobRow
      /\ job'[j].status = v.job.status /\ job'[j].done = v.job.done
      /\ job'[j].target = job[j].target /\ job'[j].specs = job[j].specs
  <2>1. job' = [job EXCEPT ![j] = Close(@, v.job)]
    BY DEF CommitCompletion
  <2>2. job[j] \in JobRow
    BY <1>1 DEF IInv, TypeOK
  <2>3. job'[j] = Close(job[j], v.job)
    BY <1>1, <2>1 DEF IInv, TypeOK
  <2>. QED BY <1>1, <1>3, <2>1, <2>2, <2>3, CloseRow DEF IInv, TypeOK
<1>6. rawBatch' = IF v.task.status = "SUCCESS"
                  THEN [rawBatch EXCEPT ![BatchOf(c)] = k] ELSE rawBatch
  BY DEF CommitCompletion
<1>7. /\ UNCHANGED <<requests, inbox, acked, disp>>
      /\ cons' = [cons EXCEPT ![c].pc = "committed"]
  BY DEF CommitCompletion, Handle, brokerVars
<1>8. /\ \A o \in Consumers \ {c} : cons'[o] = cons[o]
      /\ cons'[c].pc = "committed" /\ cons'[c].msg = cons[c].msg
      /\ cons'[c] \in ConsumerState /\ cons' \in [Consumers -> ConsumerState]
  <2>1. [cons[c] EXCEPT !.pc = "committed"] \in ConsumerState
    BY <1>1 DEF ConsumerState
  <2>2. cons' = [cons EXCEPT ![c] = [cons[c] EXCEPT !.pc = "committed"]]
    BY <1>7
  <2>. QED BY <1>1, <2>1, <2>2 DEF IInv, TypeOK, ConsumerState
<1>9. \A b \in Batches : rawBatch[b] # None => rawBatch'[b] = rawBatch[b]
  BY <1>1, <1>6 DEF VerdictHolds, IInv, TypeOK
<1>10. \A x \in Tasks : Recorded(x) => Recorded(x)'
  BY <1>9 DEF Recorded
<1>11. v.task.status = "SUCCESS" => rawBatch'[BatchId[k]] = k
  BY <1>1, <1>6 DEF IInv, TypeOK
<1>12. RowsKept
  BY <1>1, <1>3, <1>4, <1>5 DEF RowsKept, Exists, VerdictHolds, AggregateHolds
<1>13. NoRowCreated
  BY <1>1, <1>4, <1>5 DEF NoRowCreated, NoTask, NoJob, Exists
<1>. HIDE DEF k, v, j
<1>14. TypeOK'
  <2>1. job' \in [Jobs -> JobRow]
    BY <1>1, <1>5 DEF IInv, TypeOK, CommitCompletion, j, v, k
  <2>2. task' \in [Tasks -> TaskRow]
    BY <1>1, <1>3, <1>4 DEF IInv, TypeOK, CommitCompletion, j, v, k
  <2>3. rawBatch' \in [Batches -> Tasks \cup {None}]
    BY <1>1, <1>6 DEF IInv, TypeOK
  <2>. QED BY <1>7, <1>8, <2>1, <2>2, <2>3 DEF IInv, TypeOK
<1>15. JobsAreWhole' /\ CompletedAtMatchesStatus'
  BY <1>1, <1>5 DEF IInv, JobsAreWhole, CompletedAtMatchesStatus, VerdictHolds, AggregateHolds, v, k, j
<1>16. TasksHaveJobs'
  BY <1>1, <1>3, <1>4, <1>5, <1>12 DEF IInv, TasksHaveJobs, RowsKept, Exists
<1>17. MessagesAreTraceable'
  <2>1. \A o \in Consumers : /\ Message(o)' = Message(o)
                             /\ cons'[o].pc = cons[o].pc \/ (o = c /\ cons'[o].pc = "committed")
    BY <1>8 DEF Message
  <2>2. \A o \in Consumers : cons[o].pc # "idle" =>
          Message(o) # None /\ Message(o).task \in Tasks /\ Exists(Message(o).task)
    BY HandlingFacts, NoMessageIsNone
  <2>3. \A x \in Tasks : Exists(x) => Exists(x)'
    BY <1>12 DEF RowsKept
  <2>4. \A o \in Consumers : cons'[o].pc # "idle" =>
          (Message(o) # None /\ Exists(Message(o).task))'
    BY <1>1, <2>1, <2>2, <2>3 DEF Exists
  <2>5. (\A x \in requests : Exists(x))' /\ (\A m \in inbox : Exists(m.task))'
    BY <1>7, <2>3 DEF IInv, TypeOK, MessagesAreTraceable, Completion
  <2>6. \A o \in Consumers : cons'[o].pc \in {"checking", "storing"} =>
          Message(o)'.status = "success"
    BY <2>1 DEF IInv, MessagesAreTraceable
  <2>. QED BY <2>4, <2>5, <2>6 DEF MessagesAreTraceable
<1>18. SuccessIsRecorded'
  BY <1>4, <1>10, <1>11 DEF IInv, SuccessIsRecorded, Recorded
<1>19. JobSuccessIsComplete'
  <2>. SUFFICES ASSUME NEW x \in Jobs, job'[x].status = "SUCCESS",
                       NEW i \in 1..job'[x].specs
                PROVE  Recorded(<<x, i>>)'
    BY DEF JobSuccessIsComplete
  <2>1. i \in 1..MaxSpecs /\ <<x, i>> \in Tasks
    BY <1>14 DEF TypeOK, JobRow
  <2>2. CASE x = j
    <3>1. Recorded(<<j, i>>) \/ (i = k[2] /\ v.task.status = "SUCCESS")
      BY <1>1, <1>5, <2>2 DEF VerdictHolds, AggregateHolds, v, k, j
    <3>. QED BY <1>1, <1>10, <1>11, <2>1, <2>2, <3>1 DEF Recorded
  <2>3. CASE x # j
    BY <1>5, <1>10, <2>1, <2>3 DEF IInv, JobSuccessIsComplete
  <2>. QED BY <2>2, <2>3
<1>20. OneRunningSingleSpecJob'
  <2>1. \A x \in Jobs : job'[x].status = "RUNNING" /\ job'[x].specs = 1 =>
          job[x].status = "RUNNING" /\ job[x].specs = 1 /\ job'[x].target = job[x].target
    BY <1>1, <1>5 DEF VerdictHolds, AggregateHolds, v, k, j
  <2>. QED BY <2>1 DEF IInv, OneRunningSingleSpecJob
<1>21. AckedAnswersSettled'
  BY <1>7, <1>9, <1>12 DEF IInv, TypeOK, AckedAnswersSettled, RowsKept, Completion
<1>22. VerdictsHold'
  <2>. SUFFICES ASSUME NEW o \in Consumers PROVE VerdictHolds(o)'
    BY DEF VerdictsHold
  <2>1. CASE o = c
    BY <1>1, <1>3, <1>4, <1>8, <2>1 DEF VerdictHolds, Message, k
  <2>2. CASE o # c
    <3>1. VerdictHolds(o) /\ cons'[o] = cons[o]
      BY <1>8, <2>2 DEF IInv, VerdictsHold
    <3>2. CASE cons[o].pc = "commit"
      <4>. DEFINE ko == Message(o).task
                  vo == cons[o].verdict
      <4>1. ko \in Tasks /\ ko[1] \in Jobs /\ BatchOf(o) \in Batches
            /\ job[ko[1]].status # "NONE" /\ job[ko[1]].specs \in 0..MaxSpecs
        BY <3>2, HandlingFacts DEF IInv, TasksHaveJobs, TypeOK, JobRow
      <4>2. job'[ko[1]].specs = job[ko[1]].specs
        BY <4>1, <1>12 DEF RowsKept
      <4>3. vo.task.status = "SUCCESS" => rawBatch'[BatchOf(o)] = None
        BY <1>1, <1>6, <2>2, <3>1, <3>2, <4>1 DEF VerdictHolds, AloneInTx, IInv, TypeOK, v, k
      <4>4. \A x \in Consumers \ {o} : cons'[x].pc = "commit" =>
              x # c /\ cons'[x] = cons[x]
        BY <1>8
      <4>5. Message(o)' = Message(o) /\ BatchOf(o)' = BatchOf(o)
        BY <3>1 DEF Message, BatchOf
      <4>6. \A x \in Consumers \ {o} : cons'[x].pc = "commit" =>
              Message(x)' = Message(x) /\ BatchOf(x)' = BatchOf(x)
        BY <4>4 DEF Message, BatchOf
      <4>7. AloneInTx(o)'
        BY <3>1, <3>2, <4>4, <4>5, <4>6 DEF VerdictHolds, AloneInTx
      <4>8. AggregateHolds(o)'
        <5>1. \A i \in 1..job[ko[1]].specs :
                Recorded(<<ko[1], i>>) => Recorded(<<ko[1], i>>)'
          BY <1>10, <4>1, <4>5
        <5>2. AggregateHolds(o)
          BY <3>1, <3>2 DEF VerdictHolds
        <5>. QED BY <3>1, <4>2, <4>5, <5>1, <5>2 DEF AggregateHolds
      <4>. QED BY <3>1, <3>2, <4>3, <4>5, <4>7, <4>8 DEF VerdictHolds
    <3>3. CASE cons[o].pc # "commit"
      <4>1. cons[o].pc = "committed" => Message(o).task \in Tasks
        BY HandlingFacts
      <4>. QED BY <1>12, <3>1, <3>3, <4>1 DEF VerdictHolds, Message, RowsKept
    <3>. QED BY <3>2, <3>3
  <2>. QED BY <2>1, <2>2
<1>. QED BY <1>7, <1>12, <1>13, <1>14, <1>15, <1>16, <1>17, <1>18, <1>19, <1>20,
            <1>21, <1>22, OwnersFrame DEF IInv

-----------------------------------------------------------------------------
LEMMA NextIInv == IInv /\ [Next]_vars => IInv'
<1>. SUFFICES ASSUME IInv, [Next]_vars PROVE IInv'
  OBVIOUS
<1>1. CASE UNCHANGED vars
  <2>1. RowsKept /\ NoRowCreated
    BY <1>1 DEF RowsKept, NoRowCreated, Exists, vars
  <2>. QED BY <1>1, <2>1, VerdictsFrame, MessagesFrame, AckedFrame, OwnersFrame
           DEF vars, IInv, TypeOK, JobsAreWhole, TasksHaveJobs, SuccessIsRecorded,
               JobSuccessIsComplete, CompletedAtMatchesStatus,
               OneRunningSingleSpecJob, Recorded, Exists
<1>2. CASE CancelProjectRuntime
  BY <1>2, CancelProjectRuntimeStep
<1>3. ASSUME NEW d \in Dispatchers, DispatcherStep(d) PROVE IInv'
  BY <1>3, CreateScheduledJobStep, CreateExternalTaskStep, SpecFailsStep, PublishStep,
     MarkExternalTaskPublishedStep, MarkExternalTaskFailedStep, FinalizeScheduledJobStep
  DEF DispatcherStep
<1>4. ASSUME NEW c \in Consumers, ConsumerStep(c) PROVE IInv'
  BY <1>4, ReceiveStep, LookupTaskStep, CheckRawBatchStep, CompleteTaskSuccessStep,
     CompleteTaskErrorStep, CommitCompletionStep, FinishCompletionStep
  DEF ConsumerStep
<1>. QED BY <1>1, <1>2, <1>3, <1>4, DispatchTargetStep, CrashDispatcherStep,
            CrawlerAnswersStep, RequeueStep DEF Next

(* The invariant the safety theorems rest on: every verdict of an open     *)
(* transaction still holds when it commits, whatever ran in between.       *)
THEOREM Invariance == Spec => []IInv
<1>1. Init => IInv
  BY InitIInv
<1>2. IInv /\ [Next]_vars => IInv'
  BY NextIInv
<1>. QED BY <1>1, <1>2, PTL DEF Spec

(* Rows, messages and goroutine states keep their shapes.                  *)
THEOREM TypeCorrect == Spec => []TypeOK
<1>1. IInv => TypeOK
  BY DEF IInv
<1>. QED BY <1>1, Invariance, PTL

(* However many consumers, dispatchers, pauses and failures there are, a   *)
(* job reported SUCCESS has a recorded raw batch for every spec.           *)
THEOREM SuccessIsComplete == Spec => []JobSuccessIsComplete
<1>1. IInv => JobSuccessIsComplete
  BY DEF IInv
<1>. QED BY <1>1, Invariance, PTL

(* HandleCompletion acknowledges no completion it has not accounted for.   *)
THEOREM AckedIsSettled == Spec => []AckedAnswersSettled
<1>1. IInv => AckedAnswersSettled
  BY DEF IInv
<1>. QED BY <1>1, Invariance, PTL

(* No crawler gets a task_id whose external task is not stored.            *)
THEOREM Traceability == Spec => []RequestsAreTraceable
<1>1. IInv => RequestsAreTraceable
  BY DEF IInv, TypeOK, MessagesAreTraceable, TasksHaveJobs, RequestsAreTraceable,
         Completion, JobRow
<1>. QED BY <1>1, Invariance, PTL

(* Status and completed_at of a job agree.                                 *)
THEOREM CompletedAtIsConsistent == Spec => []CompletedAtMatchesStatus
<1>1. IInv => CompletedAtMatchesStatus
  BY DEF IInv
<1>. QED BY <1>1, Invariance, PTL

(* A target that fans out to one task has at most one RUNNING job.         *)
THEOREM OneRunningJob == Spec => []OneRunningSingleSpecJob
<1>1. IInv => OneRunningSingleSpecJob
  BY DEF IInv
<1>. QED BY <1>1, Invariance, PTL

(* No step clears a task's completed_at or replaces a raw batch.           *)
LEMMA NextKeeps ==
  ASSUME IInv, [Next]_vars
  PROVE  /\ \A k \in Tasks : task[k].done => task'[k].done
         /\ \A b \in Batches : rawBatch[b] # None => rawBatch'[b] = rawBatch[b]
<1>. DEFINE Kept == /\ \A k \in Tasks : task[k].done => task'[k].done
                    /\ \A b \in Batches : rawBatch[b] # None => rawBatch'[b] = rawBatch[b]
<1>1. CASE UNCHANGED <<task, rawBatch>>
  BY <1>1
<1>2. CASE CancelProjectRuntime
  BY <1>2 DEF CancelProjectRuntime, IInv, TypeOK, Settled
<1>3. ASSUME NEW d \in Dispatchers,
             \/ CreateExternalTask(d) \/ MarkExternalTaskPublished(d)
             \/ MarkExternalTaskFailed(d)
      PROVE  Kept
  <2>1. Dispatching(d) /\ UNCHANGED rawBatch
    BY <1>3 DEF Dispatching, CreateExternalTask, MoreSpecs, MarkExternalTaskPublished,
                MarkExternalTaskFailed, ledgerVars
  <2>2. disp[d].next <= disp[d].specs /\ Current(d) \in Tasks
    BY <1>3, <2>1, DispatchingFacts
    DEF OwnsJob, CreateExternalTask, MoreSpecs, MarkExternalTaskPublished,
        MarkExternalTaskFailed
  <2>3. CASE CreateExternalTask(d)
    <3>1. task[Current(d)] = NoTask
      BY <2>1, <2>2, <2>3, DispatchingFacts DEF CreateExternalTask, MoreSpecs, OwnsJob, Current
    <3>. QED BY <2>1, <2>2, <2>3, <3>1 DEF CreateExternalTask, IInv, TypeOK, NoTask
  <2>4. CASE MarkExternalTaskPublished(d)
    BY <2>1, <2>2, <2>4 DEF MarkExternalTaskPublished, IInv, TypeOK, TaskRow
  <2>5. CASE MarkExternalTaskFailed(d)
    BY <2>1, <2>2, <2>5 DEF MarkExternalTaskFailed, IInv, TypeOK, Settled
  <2>. QED BY <1>3, <2>3, <2>4, <2>5
<1>4. ASSUME NEW c \in Consumers, CommitCompletion(c)
      PROVE  Kept
  <2>. USE DEF CommitCompletion
  <2>. DEFINE k == Message(c).task
              v == cons[c].verdict
  <2>1. /\ k \in Tasks /\ VerdictHolds(c) /\ BatchOf(c) \in Batches
        /\ cons[c] \in ConsumerState /\ cons[c].pc = "commit"
    BY <1>4, HandlingFacts
  <2>2. v \in TxVerdict
    BY <2>1 DEF VerdictHolds, ConsumerState
  <2>3. v.task.done = TRUE
    BY <2>2 DEF TxVerdict
  <2>4. \A x \in Tasks : task[x].done => task'[x].done
    BY <1>4, <2>1, <2>3 DEF IInv, TypeOK
  <2>5. \A b \in Batches : rawBatch[b] # None => rawBatch'[b] = rawBatch[b]
    BY <1>4, <2>1 DEF VerdictHolds, IInv, TypeOK
  <2>. QED BY <2>4, <2>5
<1>5. ASSUME NEW d \in Dispatchers, DispatcherStep(d)
      PROVE  Kept
  BY <1>1, <1>3, <1>5
  DEF DispatcherStep, CreateScheduledJob, SpecFails, PublishDispatch, PublishFails,
      FinalizeScheduledJob, ledgerVars
<1>6. ASSUME NEW c \in Consumers, ConsumerStep(c)
      PROVE  Kept
  BY <1>1, <1>4, <1>6
  DEF ConsumerStep, Receive, LookupTask, CheckRawBatch, CompleteTaskSuccess,
      CompleteTaskError, FinishCompletion, ledgerVars
<1>. QED BY <1>1, <1>2, <1>5, <1>6
         DEF Next, vars, DispatchTarget, CrashDispatcher, CrawlerAnswers, Requeue, ledgerVars

(* A raw batch, once recorded, stays the record of the same task.          *)
THEOREM RawBatchesKept == Spec => RawBatchesAreKept
<1>1. IInv /\ [Next]_vars =>
        [\A b \in Batches : rawBatch[b] # None => rawBatch'[b] = rawBatch[b]]_vars
  BY NextKeeps
<1>. QED BY <1>1, Invariance, PTL DEF Spec, RawBatchesAreKept

(* completed_at of a task, once set, stays set.                            *)
THEOREM TaskCompletionKept == Spec => TaskCompletionIsKept
<1>1. IInv /\ [Next]_vars => [\A k \in Tasks : task[k].done => task'[k].done]_vars
  BY NextKeeps
<1>. QED BY <1>1, Invariance, PTL DEF Spec, TaskCompletionIsKept
-----------------------------------------------------------------------------
(* What DueTargets takes to happen to scheduled jobs is what happens here. *)

LEMMA SeenIsStatus ==
  ASSUME NEW j \in Jobs
  PROVE  /\ Seen(j) \in Ledger!Statuses
         /\ Seen(j) \in Ledger!Open <=> job[j].status \in Cancellable
         /\ Seen(j) = "RUNNING" <=> job[j].status = "RUNNING"
         /\ job[j].status \notin Cancellable => Seen(j) = "CLOSED"
  BY DEF Seen, Cancellable, Ledger!Statuses, Ledger!Open

(* One existing job gets a new status.                                     *)
WritesStatus(j) ==
  /\ job[j].status # "NONE" /\ job'[j].status # "NONE"
  /\ job'[j].target = job[j].target
  /\ \A x \in Jobs \ {j} : job'[x] = job[x]

LEMMA WriteIsLedgered ==
  ASSUME NEW j \in Jobs, WritesStatus(j)
  PROVE  Ledger!Next \/ UNCHANGED JobsSeen
<1>. DEFINE t == job[j].target
            others == {Seen(x) : x \in JobsOf(t) \ {j}}
<1>1. \A u : JobsOf(u)' = JobsOf(u)
  BY DEF WritesStatus, JobsOf
<1>2. \A x \in Jobs \ {j} : Seen(x)' = Seen(x)
  BY DEF WritesStatus, Seen
<1>3. ASSUME NEW u \in Targets, u # t
      PROVE  JobsSeen'[u] = JobsSeen[u]
  <2>1. j \notin JobsOf(u)
    BY <1>3 DEF JobsOf
  <2>2. \A x \in JobsOf(u) : Seen(x)' = Seen(x)
    BY <1>2, <2>1 DEF JobsOf
  <2>. QED
    BY <1>1, <2>2 DEF JobsSeen
<1>4. CASE t \notin Targets
  BY <1>3, <1>4 DEF JobsSeen
<1>5. CASE t \in Targets
  <2>1. j \in JobsOf(t) /\ JobsOf(t) \subseteq Jobs
    BY DEF JobsOf, WritesStatus
  <2>2. JobsSeen[t] = others \cup {Seen(j)}
    BY <1>5, <2>1 DEF JobsSeen
  <2>3. JobsSeen'[t] = others \cup {Seen(j)'}
    <3>1. JobsSeen'[t] = {Seen(x)' : x \in JobsOf(t)}
      BY <1>1, <1>5 DEF JobsSeen
    <3>. QED
      BY <1>2, <2>1, <3>1
  <2>. HIDE DEF others
  <2>4. others \in {JobsSeen[t], JobsSeen[t] \ {Seen(j)}}
    BY <2>2
  <2>5. JobsSeen' = [JobsSeen EXCEPT ![t] = others \cup {Seen(j)'}]
    BY <1>3, <1>5, <2>3 DEF JobsSeen
  <2>6. Seen(j) \in JobsSeen[t] /\ Seen(j)' \in Ledger!Statuses
    BY <2>2 DEF Seen, Cancellable, Ledger!Statuses, Ledger!Open
  <2>7. Ledger!Written(t, Seen(j)')
    BY <2>4, <2>5, <2>6 DEF Ledger!Written
  <2>. QED
    BY <1>5, <2>6, <2>7 DEF Ledger!Next
<1>. QED
  BY <1>4, <1>5

LEMMA CreateIsLedgered ==
  ASSUME IInv, NEW d \in Dispatchers, CreateScheduledJob(d)
  PROVE  Ledger!Next \/ UNCHANGED JobsSeen
<1>1. PICK j \in Jobs, t \in Targets :
        j = disp[d].job /\ t = disp[d].target /\ job[j] = NoJob
  BY DEF CreateScheduledJob, IInv, TypeOK, DispatchersOwnJobs, OwnsJob, DispatcherState
<1>2. CASE UNCHANGED job
  BY <1>2 DEF JobsSeen, JobsOf, Seen
<1>3. CASE /\ ~RunningJobExists(t)
           /\ job' = [job EXCEPT ![j] = [status |-> "RUNNING", done |-> FALSE,
                                          target |-> t, specs |-> disp[d].specs]]
  <2>1. /\ job'[j].status = "RUNNING" /\ job'[j].target = t
        /\ \A x \in Jobs \ {j} : job'[x] = job[x]
    BY <1>1, <1>3 DEF IInv, TypeOK
  <2>2. job[j].status = "NONE"
    BY <1>1 DEF NoJob
  <2>3. /\ \A u : u # t => JobsOf(u)' = JobsOf(u)
        /\ JobsOf(t)' = JobsOf(t) \cup {j} /\ \A u : j \notin JobsOf(u)
    BY <1>1, <2>1, <2>2 DEF JobsOf
  <2>4. \A x \in Jobs \ {j} : Seen(x)' = Seen(x)
    BY <2>1 DEF Seen
  <2>5. Seen(j)' = "RUNNING"
    BY <2>1 DEF Seen, Cancellable
  <2>6. ASSUME NEW u \in Targets, u # t PROVE JobsSeen'[u] = JobsSeen[u]
    <3>1. \A x \in JobsOf(u) : Seen(x)' = Seen(x)
      BY <2>3, <2>4 DEF JobsOf
    <3>. QED
      BY <2>3, <2>6, <3>1 DEF JobsSeen
  <2>7. JobsSeen'[t] = JobsSeen[t] \cup {"RUNNING"}
    <3>1. \A x \in JobsOf(t) : Seen(x)' = Seen(x)
      BY <2>3, <2>4 DEF JobsOf
    <3>2. JobsSeen'[t] = {Seen(x)' : x \in JobsOf(t) \cup {j}}
      BY <1>1, <2>3 DEF JobsSeen
    <3>3. {Seen(x)' : x \in JobsOf(t) \cup {j}} = {Seen(x)' : x \in JobsOf(t)} \cup {Seen(j)'}
      OBVIOUS
    <3>4. {Seen(x)' : x \in JobsOf(t)} = {Seen(x) : x \in JobsOf(t)}
      BY <3>1
    <3>5. JobsSeen[t] = {Seen(x) : x \in JobsOf(t)}
      BY <1>1 DEF JobsSeen
    <3>. QED
      BY <2>5, <3>2, <3>3, <3>4, <3>5
  <2>8. "RUNNING" \notin JobsSeen[t]
    BY <1>1, <1>3, SeenIsStatus DEF JobsSeen, JobsOf, RunningJobExists
  <2>9. JobsSeen' = [JobsSeen EXCEPT ![t] = @ \cup {"RUNNING"}]
    BY <1>1, <2>6, <2>7 DEF JobsSeen
  <2>. QED
    BY <1>1, <2>8, <2>9 DEF Ledger!Next, Ledger!Created
<1>. QED
  BY <1>1, <1>2, <1>3 DEF CreateScheduledJob

LEMMA FinalizeIsLedgered ==
  ASSUME IInv, NEW d \in Dispatchers, FinalizeScheduledJob(d)
  PROVE  Ledger!Next \/ UNCHANGED JobsSeen
<1>. DEFINE j == disp[d].job
<1>1. j \in Jobs /\ job[j].status # "NONE" /\ job[j] \in JobRow
  BY DispatchingFacts DEF Dispatching, FinalizeScheduledJob, IInv, TypeOK
<1>2. CASE UNCHANGED job
  BY <1>2 DEF JobsSeen, JobsOf, Seen
<1>3. ASSUME NEW v \in Verdict, v.status # "NONE", CloseJob(d, v)
      PROVE  WritesStatus(j)
  <2>1. /\ job'[j] = Close(job[j], v)
        /\ \A x \in Jobs \ {j} : job'[x] = job[x]
    BY <1>1, <1>3 DEF CloseJob, IInv, TypeOK
  <2>. QED
    BY <1>1, <1>3, <2>1, CloseRow DEF WritesStatus
<1>4. /\ Settled("FAILED") \in Verdict /\ Settled("FAILED").status # "NONE"
      /\ [status |-> "PARTIAL", done |-> FALSE] \in Verdict
  BY DEF Settled, Verdict, JobStatus, Failed
<1>5. UNCHANGED job \/ WritesStatus(j)
  BY <1>3, <1>4 DEF FinalizeScheduledJob
<1>. QED
  BY <1>1, <1>2, <1>5, WriteIsLedgered

LEMMA CommitIsLedgered ==
  ASSUME IInv, NEW c \in Consumers, CommitCompletion(c)
  PROVE  Ledger!Next \/ UNCHANGED JobsSeen
<1>. DEFINE j == Message(c).task[1]
            v == cons[c].verdict
<1>1. /\ Message(c).task \in Tasks /\ j \in Jobs
      /\ job[j].status # "NONE" /\ job[j] \in JobRow
      /\ cons[c] \in ConsumerState /\ VerdictHolds(c) /\ cons[c].pc = "commit"
  BY HandlingFacts DEF IInv, TasksHaveJobs, CommitCompletion, TypeOK, Tasks
<1>2. v.job \in Verdict /\ v.job.status # "NONE"
  BY <1>1 DEF VerdictHolds, AggregateHolds, ConsumerState, TxVerdict
<1>3. /\ job'[j] = Close(job[j], v.job)
      /\ \A x \in Jobs \ {j} : job'[x] = job[x]
  BY <1>1 DEF CommitCompletion, IInv, TypeOK
<1>4. WritesStatus(j)
  BY <1>1, <1>2, <1>3, CloseRow DEF WritesStatus
<1>. QED
  BY <1>1, <1>4, WriteIsLedgered

LEMMA CancelIsLedgered ==
  ASSUME IInv, CancelProjectRuntime
  PROVE  Ledger!Next
<1>1. \A j \in Jobs :
        /\ job[j].status \in Cancellable => Seen(j)' = "CLOSED"
        /\ job[j].status \notin Cancellable => Seen(j)' = Seen(j)
        /\ job'[j].status = "NONE" <=> job[j].status = "NONE"
        /\ job'[j].target = job[j].target
  <2>. SUFFICES ASSUME NEW j \in Jobs
                PROVE  /\ job[j].status \in Cancellable => Seen(j)' = "CLOSED"
                       /\ job[j].status \notin Cancellable => Seen(j)' = Seen(j)
                       /\ job'[j].status = "NONE" <=> job[j].status = "NONE"
                       /\ job'[j].target = job[j].target
    OBVIOUS
  <2>1. job[j] \in JobRow /\ Settled("CANCELLED") \in Verdict
        /\ Settled("CANCELLED").status = "CANCELLED"
    BY DEF IInv, TypeOK, Settled, Verdict, JobStatus, Failed
  <2>2. CASE job[j].status \in Cancellable
    <3>1. job'[j] = Close(job[j], Settled("CANCELLED"))
      BY <2>2 DEF CancelProjectRuntime
    <3>2. job'[j].status = "CANCELLED" /\ job'[j].target = job[j].target
      BY <2>1, <3>1, CloseRow
    <3>. QED
      BY <2>2, <3>2 DEF Seen, Cancellable
  <2>3. CASE job[j].status \notin Cancellable
    BY <2>3 DEF CancelProjectRuntime, Seen
  <2>. QED
    BY <2>2, <2>3
<1>2. \A t : JobsOf(t)' = JobsOf(t)
  BY <1>1 DEF JobsOf
<1>3. ASSUME NEW t \in Targets
      PROVE  JobsSeen'[t] = IF Ledger!HasOpen(t)
                            THEN (JobsSeen[t] \ Ledger!Open) \cup {"CLOSED"} ELSE JobsSeen[t]
  <2>1. JobsSeen[t] = {Seen(j) : j \in JobsOf(t)} /\ JobsOf(t) \subseteq Jobs
    BY DEF JobsSeen, JobsOf
  <2>2. JobsSeen'[t] = {Seen(j)' : j \in JobsOf(t)}
    BY <1>2 DEF JobsSeen
  <2>3. \A j \in JobsOf(t) : Seen(j)' = IF Seen(j) \in Ledger!Open THEN "CLOSED" ELSE Seen(j)
    BY <1>1, <2>1, SeenIsStatus
  <2>4. CASE Ledger!HasOpen(t)
    <3>1. PICK j \in JobsOf(t) : Seen(j) \in Ledger!Open
      BY <2>1, <2>4 DEF Ledger!HasOpen
    <3>2. "CLOSED" \in JobsSeen'[t] /\ "CLOSED" \notin Ledger!Open
      BY <2>2, <2>3, <3>1 DEF Ledger!Open
    <3>. QED
      BY <2>1, <2>2, <2>3, <2>4, <3>2
  <2>5. CASE ~Ledger!HasOpen(t)
    <3>1. \A j \in JobsOf(t) : Seen(j)' = Seen(j)
      BY <2>1, <2>3, <2>5 DEF Ledger!HasOpen
    <3>. QED
      BY <2>1, <2>2, <2>5, <3>1
  <2>. QED
    BY <2>4, <2>5
<1>4. JobsSeen' = [t \in Targets |-> JobsSeen'[t]]
  BY DEF JobsSeen
<1>5. Ledger!Cancelled(Targets)
  BY <1>3, <1>4 DEF Ledger!Cancelled
<1>. QED
  BY <1>5 DEF Ledger!Next

(* Whatever dispatches, completions and pauses do, and in whichever order,  *)
(* is to the jobs of one target what JobLedger says, which is all that the *)
(* heartbeats of DueTargets take for granted of them: a step inserts a     *)
(* RUNNING job, gives one job another status, were it closed already, or   *)
(* closes all that are open; no job disappears.                            *)
THEOREM LedgerImplemented == Spec => ImplementsLedger
<1>1. Init => Ledger!Init
  BY DEF Init, Ledger!Init, JobsSeen, JobsOf, NoJob
<1>2. IInv /\ [Next]_vars => [Ledger!Next]_JobsSeen
  <2>. SUFFICES ASSUME IInv, [Next]_vars PROVE Ledger!Next \/ UNCHANGED JobsSeen
    OBVIOUS
  <2>1. CASE UNCHANGED job
    BY <2>1 DEF JobsSeen, JobsOf, Seen
  <2>2. ASSUME NEW d \in Dispatchers, DispatcherStep(d)
        PROVE  Ledger!Next \/ UNCHANGED JobsSeen
    BY <2>1, <2>2, CreateIsLedgered, FinalizeIsLedgered
    DEF DispatcherStep, CreateExternalTask, SpecFails, PublishDispatch, PublishFails,
        MarkExternalTaskPublished, MarkExternalTaskFailed, ledgerVars
  <2>3. ASSUME NEW c \in Consumers, ConsumerStep(c)
        PROVE  Ledger!Next \/ UNCHANGED JobsSeen
    BY <2>1, <2>3, CommitIsLedgered
    DEF ConsumerStep, Receive, LookupTask, CheckRawBatch, CompleteTaskSuccess,
        CompleteTaskError, FinishCompletion, ledgerVars
  <2>. QED
    BY <2>1, <2>2, <2>3, CancelIsLedgered
    DEF Next, vars, DispatchTarget, CrashDispatcher, CrawlerAnswers, Requeue, ledgerVars
<1>. QED
  BY <1>1, <1>2, Invariance, PTL DEF Spec, ImplementsLedger, Ledger!Spec
===============================================================================
