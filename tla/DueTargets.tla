----------------------------- MODULE DueTargets -----------------------------
(***************************************************************************)
(* The scheduler of ingest-srv: which crawl targets a heartbeat finds due, *)
(* how it claims them by moving next_crawl_at, when it gives a claim back, *)
(* and what the other writers of those rows do meanwhile: pauses, edits of *)
(* a target, manual dispatches (internal/execution and the parts of        *)
(* internal/datasource that write the same columns).                       *)
(*                                                                         *)
(* Every project has one CRAWL data source.  What happens inside one       *)
(* dispatch is the subject of Execution; here jobs are what JobLedger says *)
(* of them, and a fan-out ends with all, some or none of its tasks         *)
(* published.                                                              *)
(*                                                                         *)
(* Time is relative: due[t] is what is left until next_crawl_at, age what  *)
(* has passed since a tick read the clock, both in units of 1/Unit minute. *)
(* ClaimTarget compares and sets with the time the tick started at.        *)
(***************************************************************************)
EXTENDS Integers, FiniteSets

CONSTANTS
  Projects, Targets,
  ProjectOf,    \* the project of a target's data source
  ProjectRank,  \* the order of project ids
  TargetRank,   \* the order of targets by priority DESC, created_at ASC
  Minutes,      \* crawl_interval_minutes of a target
  Modes,        \* crawl modes a source may have
  Broken,       \* targets buildDispatchSpecs refuses
  Ticks,        \* running heartbeats: bounds how many may overlap
  Limit,        \* heartbeat limit
  Unit,         \* clock steps in a minute
  MaxAge,       \* bound on the clock steps a tick takes
  Overdue,      \* bound on how long ago an overdue target was due
  Controls,     \* what users and project-srv do in a run
  Faults,       \* the failures a run lets happen
  None          \* NULL, and "no target"

ControlKinds == {"pause", "project", "manual", "mode", "edit"}
FaultKinds == {"project", "publish", "db", "crash"}

ASSUME DueTargetsAssumption ==
  /\ IsFiniteSet(Targets)
  /\ ProjectOf \in [Targets -> Projects]
  /\ ProjectRank \in [Projects -> Nat] /\ TargetRank \in [Targets -> Nat]
  /\ Minutes \in [Targets -> Nat \ {0}]
  /\ Modes \subseteq {"NORMAL", "CRISIS", "SLEEP"} /\ "NORMAL" \in Modes
  /\ Limit \in Nat \ {0} /\ Unit \in Nat \ {0} /\ MaxAge \in Nat
  /\ Overdue \in Nat /\ MaxAge <= Overdue
  /\ Controls \subseteq ControlKinds /\ Faults \subseteq FaultKinds
  /\ None \notin Targets \cup Projects \cup Int /\ Targets \cap Projects = {}

VARIABLES
  source,       \* data_sources.status of a project's source
  mode,         \* data_sources.crawl_mode
  project,      \* the project's status in project-srv
  active,       \* crawl_targets.is_active
  due,          \* crawl_targets.next_crawl_at, relative to now
  jobs,         \* the statuses of the scheduled jobs of a target
  tick,         \* the running heartbeats
  quiet,        \* clock steps since a heartbeat last started
  cancelling,   \* projects paused whose runtime is still to be cancelled
  manual,       \* targets whose manual dispatch has been validated
  draft,        \* the row an UpdateTarget has read and is about to write, and
                \* then the source it demotes; one edit at a time
  spent         \* history: targets whose last claim was used or lost, or whose
                \* next_crawl_at an edit set back

rowVars == <<source, mode, active, draft>>
controlVars == <<project, cancelling, manual>>
vars == <<rowVars, controlVars, due, jobs, tick, quiet, spent>>

Ledger == INSTANCE JobLedger

NoDraft == [row |-> None, due |-> None, active |-> FALSE, demotes |-> FALSE]
IdleTick == [pc |-> "idle", age |-> 0, todo |-> {}, item |-> None, lost |-> FALSE]
Work == [target : Targets, rank : Nat, every : Nat]

-----------------------------------------------------------------------------
(***************************************************************************)
(* computeEffectiveInterval: the multipliers are 1.0, 0.2 and 5.0, the     *)
(* product is rounded to minutes and kept within 1 and 1440.               *)
(***************************************************************************)
MinInterval == 1
MaxInterval == 1440

Clamp(n) == IF n < MinInterval THEN MinInterval ELSE IF n > MaxInterval THEN MaxInterval ELSE n

EffectiveInterval(minutes, m) ==
  Clamp(CASE m = "NORMAL" -> minutes
          [] m = "CRISIS" -> (2 * minutes + 5) \div 10
          [] m = "SLEEP"  -> 5 * minutes)

-----------------------------------------------------------------------------
(***************************************************************************)
(* ListDueTargets.  Targets are ranked within their project, and the list  *)
(* takes all first ranks, then all second ranks, up to the limit.          *)
(***************************************************************************)
SourceOf(t) == source[ProjectOf[t]]
IsDue(t, age) == due[t] # None => due[t] <= 0 - age

DueTargets == {t \in Targets : SourceOf(t) = "ACTIVE" /\ active[t] /\ IsDue(t, 0)}

(* Mutant of Before: priority first, whatever next_crawl_at says.          *)
PriorityFirst(t, u) == TargetRank[t] < TargetRank[u]

(* next_crawl_at ASC NULLS FIRST, priority DESC, created_at ASC            *)
Before(t, u) ==
  \/ due[t] = None /\ due[u] # None
  \/ due[t] # None /\ due[u] # None /\ due[t] < due[u]
  \/ due[t] = due[u] /\ TargetRank[t] < TargetRank[u]

(* Mutant of Partition: one ranking over all projects.                     *)
OnePartition(t) == DueTargets

Partition(t) == {u \in DueTargets : ProjectOf[u] = ProjectOf[t]}

RowNumber(t) == Cardinality({u \in Partition(t) : Before(u, t)})

(* ORDER BY rn, project_id                                                 *)
Position(t) ==
  Cardinality({u \in DueTargets :
     \/ RowNumber(u) < RowNumber(t)
     \/ /\ RowNumber(u) = RowNumber(t)
        /\ ProjectRank[ProjectOf[u]] < ProjectRank[ProjectOf[t]]})

Listed == {t \in DueTargets : Position(t) < Limit}

(* A listed row carries the crawl mode and interval it was read with.      *)
Every(t) == Unit * EffectiveInterval(Minutes[t], mode[ProjectOf[t]])
WorkList == {[target |-> t, rank |-> Position(t), every |-> Every(t)] : t \in Listed}
-----------------------------------------------------------------------------
(***************************************************************************)
(* One heartbeat: DispatchDueTargets goes through its list and validates,  *)
(* claims, revalidates and dispatches one target after the other.          *)
(***************************************************************************)
Target(h) == tick[h].item.target
Goto(h, pc) == tick' = [tick EXCEPT ![h].pc = pc]

Dropped(r) ==
  IF r.todo = {} THEN IdleTick ELSE [r EXCEPT !.pc = "next", !.item = None, !.lost = FALSE]
Drop(h) == tick' = [tick EXCEPT ![h] = Dropped(@)]

(* The tick h has claimed target t and not yet decided what becomes of it. *)
Holding == {"claimed", "ready", "publish", "release"}
Holds(h, t) == tick[h].pc \in Holding /\ Target(h) = t
Held(t) == \E h \in Ticks : Holds(h, t)

(* History: the ticks that hold a target of S when another writer changes  *)
(* its next_crawl_at.                                                      *)
LoseClaims(S) ==
  [g \in Ticks |-> IF tick[g].pc \in Holding /\ Target(g) \in S
                   THEN [tick[g] EXCEPT !.lost = TRUE] ELSE tick[g]]

TickStarts(h) ==
  /\ tick[h].pc = "idle"
  /\ \/ /\ Listed # {}
        /\ tick' = [tick EXCEPT ![h] = [pc |-> "next", age |-> 0, todo |-> WorkList,
                                        item |-> None, lost |-> FALSE]]
     \/ (Listed = {} \/ "db" \in Faults) /\ UNCHANGED tick
  /\ quiet' = 0
  /\ UNCHANGED <<rowVars, controlVars, due, jobs, spent>>

(* validateScheduledDispatchContext on the listed rows, with the project's *)
(* status of now, and buildDispatchSpecs.                                  *)
ProjectRefuses(t) == project[ProjectOf[t]] # "ACTIVE" \/ "project" \in Faults

Validate(h) ==
  /\ tick[h].pc = "next"
  /\ \E w \in tick[h].todo :
       /\ \A x \in tick[h].todo : w.rank <= x.rank
       /\ LET rest == tick[h].todo \ {w}
          IN  \/ /\ project[ProjectOf[w.target]] = "ACTIVE" /\ w.target \notin Broken
                 /\ tick' = [tick EXCEPT ![h] = [@ EXCEPT !.pc = "valid", !.todo = rest,
                                                          !.item = w]]
              \/ /\ ProjectRefuses(w.target) \/ w.target \in Broken
                 /\ tick' = [tick EXCEPT ![h] = IF rest = {} THEN IdleTick
                                                ELSE [@ EXCEPT !.todo = rest]]
  /\ UNCHANGED <<rowVars, controlVars, due, jobs, quiet, spent>>

(* Mutant of Claimable: the target is claimed because it was listed.       *)
ClaimableAsListed(h) == active[Target(h)] /\ SourceOf(Target(h)) = "ACTIVE"

Claimable(h) ==
  /\ active[Target(h)] /\ SourceOf(Target(h)) = "ACTIVE"
  /\ IsDue(Target(h), tick[h].age)

ClaimTarget(h) ==
  /\ tick[h].pc = "valid"
  /\ \/ /\ Claimable(h)
        /\ due' = [due EXCEPT ![Target(h)] = tick[h].item.every - tick[h].age]
        /\ spent' = spent \ {Target(h)}
        /\ Goto(h, "claimed")
     \/ ~Claimable(h) /\ Drop(h) /\ UNCHANGED <<due, spent>>
     \/ "db" \in Faults /\ Drop(h) /\ UNCHANGED <<due, spent>>
  /\ UNCHANGED <<rowVars, controlVars, jobs, quiet>>

(* Mutant of Revalidate: a target that is no longer allowed is skipped.    *)
SkipRevalidated(h) ==
  /\ tick[h].pc = "claimed"
  /\ IF active[Target(h)] /\ SourceOf(Target(h)) = "ACTIVE" /\ ~ProjectRefuses(Target(h))
     THEN Goto(h, "ready") ELSE Drop(h)
  /\ UNCHANGED <<rowVars, controlVars, due, jobs, quiet, spent>>

(* GetDispatchContext and the validation of the rows as they are now.      *)
Revalidate(h) ==
  /\ tick[h].pc = "claimed"
  /\ \/ /\ active[Target(h)] /\ SourceOf(Target(h)) = "ACTIVE"
        /\ project[ProjectOf[Target(h)]] = "ACTIVE"
        /\ Goto(h, "ready")
     \/ /\ \/ ~active[Target(h)] \/ SourceOf(Target(h)) # "ACTIVE"
           \/ ProjectRefuses(Target(h)) \/ "db" \in Faults
        /\ Goto(h, "release")
  /\ UNCHANGED <<rowVars, controlVars, due, jobs, quiet, spent>>

(* CreateScheduledJob; a conflict with a RUNNING job keeps the claim.      *)
CreateJob(h) ==
  /\ tick[h].pc = "ready"
  /\ \/ Ledger!Created(Target(h)) /\ Goto(h, "publish") /\ UNCHANGED spent
     \/ /\ "RUNNING" \in jobs[Target(h)]
        /\ spent' = spent \cup {Target(h)} /\ Drop(h) /\ UNCHANGED jobs
     \/ "db" \in Faults /\ Goto(h, "release") /\ UNCHANGED <<jobs, spent>>
  /\ UNCHANGED <<rowVars, controlVars, due, quiet>>

(* The tasks are published, all of them, some or none; FinalizeScheduledJob *)
(* writes the status of this job, which need not be RUNNING by now, or      *)
(* fails.  The claim is kept unless the dispatch returned an error.         *)
FanOut(h) ==
  /\ tick[h].pc = "publish"
  /\ \/ spent' = spent \cup {Target(h)} /\ Drop(h) /\ UNCHANGED jobs
     \/ /\ "publish" \in Faults
        /\ Ledger!Written(Target(h), "PARTIAL")
        /\ spent' = spent \cup {Target(h)} /\ Drop(h)
     \/ /\ "publish" \in Faults
        /\ (Ledger!Written(Target(h), "CLOSED") \/ ("db" \in Faults /\ UNCHANGED jobs))
        /\ Goto(h, "release") /\ UNCHANGED spent
  /\ UNCHANGED <<rowVars, controlVars, due, quiet>>

ReleaseClaimTarget(h) ==
  /\ tick[h].pc = "release"
  /\ \/ /\ due' = [due EXCEPT ![Target(h)] = None]
        /\ tick' = [LoseClaims({Target(h)}) EXCEPT ![h] = Dropped(tick[h])]
        /\ UNCHANGED spent
     \/ "db" \in Faults /\ spent' = spent \cup {Target(h)} /\ Drop(h) /\ UNCHANGED due
  /\ UNCHANGED <<rowVars, controlVars, jobs, quiet>>

CrashTick(h) ==
  /\ "crash" \in Faults
  /\ tick[h].pc # "idle"
  /\ tick' = [tick EXCEPT ![h] = IdleTick]
  /\ spent' = spent \cup {t \in Targets : Holds(h, t)}
  /\ UNCHANGED <<rowVars, controlVars, due, jobs, quiet>>

(* The clock.  cron starts a heartbeat every minute, unless the scheduler  *)
(* is down.                                                                *)
Later(x) == IF x = None THEN None ELSE IF x > 0 - Overdue THEN x - 1 ELSE x

Clock ==
  /\ quiet < Unit \/ "crash" \in Faults
  /\ \A h \in Ticks : tick[h].pc # "idle" => tick[h].age < MaxAge
  /\ due' = [t \in Targets |-> Later(due[t])]
  /\ draft' = [draft EXCEPT !.due = Later(@)]
  /\ tick' = [h \in Ticks |-> IF tick[h].pc = "idle" THEN tick[h]
                              ELSE [tick[h] EXCEPT !.age = @ + 1]]
  /\ quiet' = IF quiet < Unit THEN quiet + 1 ELSE quiet
  /\ UNCHANGED <<source, mode, active, controlVars, jobs, spent>>

-----------------------------------------------------------------------------
(***************************************************************************)
(* The other writers.                                                      *)
(***************************************************************************)

(* Completions move the jobs of a target among RUNNING and PARTIAL, and    *)
(* close and reopen them (Execution); so do manual dispatches.             *)
JobsProgress(t) ==
  /\ \E status \in Ledger!Statuses : Ledger!Written(t, status)
  /\ UNCHANGED <<rowVars, controlVars, due, tick, quiet, spent>>

(* A manual dispatch validates its target, whatever the source's status    *)
(* short of ARCHIVED, and creates its job in a second step.                *)
ManualStarts(t) ==
  /\ "manual" \in Controls
  /\ active[t] /\ t \notin Broken
  /\ manual' = manual \cup {t}
  /\ UNCHANGED <<rowVars, project, cancelling, due, jobs, tick, quiet, spent>>

ManualCreatesJob(t) ==
  /\ t \in manual
  /\ manual' = manual \ {t}
  /\ Ledger!Created(t) \/ ("RUNNING" \in jobs[t] /\ UNCHANGED jobs)
  /\ UNCHANGED <<rowVars, project, cancelling, due, tick, quiet, spent>>

(* PauseDataSource pauses one source.                                      *)
PauseDataSource(p) ==
  /\ "pause" \in Controls
  /\ source[p] = "ACTIVE"
  /\ source' = [source EXCEPT ![p] = "PAUSED"]
  /\ UNCHANGED <<mode, active, draft, controlVars, due, jobs, tick, quiet, spent>>

(* Pause pauses the active sources of a project and then cancels its       *)
(* runtime, in a transaction of its own.                                   *)
Pause(p) ==
  /\ "pause" \in Controls
  /\ source' = [source EXCEPT ![p] = IF @ = "ACTIVE" THEN "PAUSED" ELSE @]
  /\ cancelling' = cancelling \cup {p}
  /\ UNCHANGED <<mode, active, draft, project, manual, due, jobs, tick, quiet, spent>>

CancelProjectRuntime(p) ==
  /\ p \in cancelling
  /\ LET hit == {t \in Targets : ProjectOf[t] = p /\ Ledger!HasOpen(t)}
     IN  /\ Ledger!Cancelled(hit)
         /\ due' = [t \in Targets |-> IF t \in hit THEN None ELSE due[t]]
         /\ tick' = LoseClaims(hit)
  /\ cancelling' = cancelling \ {p}
  /\ UNCHANGED <<rowVars, project, manual, quiet, spent>>

Resume(p) ==
  /\ "pause" \in Controls
  /\ source[p] = "PAUSED"
  /\ source' = [source EXCEPT ![p] = "ACTIVE"]
  /\ UNCHANGED <<mode, active, draft, controlVars, due, jobs, tick, quiet, spent>>

(* The project's status in project-srv, which no row here follows.         *)
ProjectChanges(p) ==
  /\ "project" \in Controls
  /\ \E s \in {"ACTIVE", "PAUSED"} \ {project[p]} : project' = [project EXCEPT ![p] = s]
  /\ UNCHANGED <<rowVars, cancelling, manual, due, jobs, tick, quiet, spent>>

UpdateCrawlMode(p) ==
  /\ "mode" \in Controls
  /\ \E m \in Modes \ {mode[p]} : mode' = [mode EXCEPT ![p] = m]
  /\ UNCHANGED <<source, active, draft, controlVars, due, jobs, tick, quiet, spent>>

(* UpdateTarget, ActivateTarget and DeactivateTarget read the row, change  *)
(* it in memory and write every column back.  A material change demotes    *)
(* the data source in a second update; what brings it back to ACTIVE, a    *)
(* dryrun and an activation, is not modelled.                              *)
EditReads(t) ==
  /\ "edit" \in Controls
  /\ draft = NoDraft
  /\ \E a, d \in BOOLEAN :
       draft' = [row |-> t, due |-> due[t], active |-> a, demotes |-> d]
  /\ UNCHANGED <<source, mode, active, controlVars, due, jobs, tick, quiet, spent>>

EditWrites(t) ==
  /\ draft.row = t
  /\ due' = [due EXCEPT ![t] = draft.due]
  /\ active' = [active EXCEPT ![t] = draft.active]
  /\ draft' = IF draft.demotes THEN [NoDraft EXCEPT !.row = ProjectOf[t], !.demotes = TRUE]
              ELSE NoDraft
  /\ IF draft.due = due[t] THEN UNCHANGED <<tick, spent>>
     ELSE tick' = LoseClaims({t}) /\ spent' = spent \cup {t}
  /\ UNCHANGED <<source, mode, controlVars, jobs, quiet>>

MarkDatasourcePending(p) ==
  /\ draft.row = p
  /\ source' = [source EXCEPT ![p] = "PENDING"]
  /\ draft' = NoDraft
  /\ UNCHANGED <<mode, active, controlVars, due, jobs, tick, quiet, spent>>

-----------------------------------------------------------------------------
Init ==
  /\ source = [p \in Projects |-> "ACTIVE"]
  /\ mode = [p \in Projects |-> "NORMAL"]
  /\ project = [p \in Projects |-> "ACTIVE"]
  /\ active = [t \in Targets |-> TRUE]
  /\ due = [t \in Targets |-> None]
  /\ Ledger!Init
  /\ tick = [h \in Ticks |-> IdleTick]
  /\ quiet = 0
  /\ cancelling = {} /\ manual = {} /\ spent = {}
  /\ draft = NoDraft

TickStep(h) ==
  \/ Validate(h) \/ ClaimTarget(h) \/ Revalidate(h) \/ CreateJob(h) \/ FanOut(h)
  \/ ReleaseClaimTarget(h)

TargetStep(t) ==
  \/ JobsProgress(t) \/ ManualStarts(t) \/ ManualCreatesJob(t)
  \/ EditReads(t) \/ EditWrites(t)

ProjectStep(p) ==
  \/ PauseDataSource(p) \/ Pause(p) \/ CancelProjectRuntime(p) \/ Resume(p)
  \/ ProjectChanges(p) \/ UpdateCrawlMode(p) \/ MarkDatasourcePending(p)

Next ==
  \/ Clock
  \/ \E h \in Ticks : TickStarts(h) \/ TickStep(h) \/ CrashTick(h)
  \/ \E t \in Targets : TargetStep(t)
  \/ \E p \in Projects : ProjectStep(p)

(* cron starts heartbeats for ever, and a heartbeat goes on to its end.    *)
Fairness == \A h \in Ticks : WF_vars(TickStarts(h)) /\ WF_vars(TickStep(h))

Spec == Init /\ [][Next]_vars
FairSpec == Spec /\ Fairness

-----------------------------------------------------------------------------
(***************************************************************************)
(* Properties.                                                             *)
(***************************************************************************)
TickState == [pc : {"idle", "next", "valid"} \cup Holding, age : 0..MaxAge,
              todo : SUBSET Work, item : Work \cup {None}, lost : BOOLEAN]

(* The types of the rows, and a tick that is processing a target has one.  *)
TypeOK ==
  /\ source \in [Projects -> {"ACTIVE", "PAUSED", "PENDING"}]
  /\ mode \in [Projects -> Modes]
  /\ project \in [Projects -> {"ACTIVE", "PAUSED"}]
  /\ active \in [Targets -> BOOLEAN]
  /\ due \in [Targets -> Int \cup {None}]
  /\ jobs \in [Targets -> SUBSET Ledger!Statuses]
  /\ tick \in [Ticks -> TickState]
  /\ \A h \in Ticks : tick[h].pc \in {"valid"} \cup Holding => tick[h].item \in Work
  /\ quiet \in 0..Unit
  /\ cancelling \subseteq Projects /\ manual \subseteq Targets /\ spent \subseteq Targets
  /\ draft \in [row : Targets \cup Projects \cup {None}, due : Int \cup {None},
                active : BOOLEAN, demotes : BOOLEAN]

(* Two heartbeats at work on the same target with claims nobody overwrote: *)
(* one of them started before the other by at least the interval it had    *)
(* put the target off for, and so outlived its claim.  A claim lasts its   *)
(* interval, whoever overlaps with it, as ClaimTarget compares             *)
(* next_crawl_at with the time the other heartbeat started at.             *)
Outlived(g, h) == tick[g].age >= tick[h].age + tick[g].item.every

KeptClaimIsExclusive ==
  \A g, h \in Ticks : \A t \in Targets :
    Holds(g, t) /\ Holds(h, t) /\ ~tick[g].lost /\ ~tick[h].lost =>
      g = h \/ Outlived(g, h) \/ Outlived(h, g)

(* What the exclusion rests on: a claim that nobody overwrote puts the next *)
(* crawl the listed interval after the start of the heartbeat that made it *)
(* or later, and no interval is below a minute, whatever the crawl mode.   *)
ClaimsAreAhead ==
  \A h \in Ticks : \A t \in Targets :
    Holds(h, t) /\ ~tick[h].lost =>
      /\ due[t] # None /\ due[t] + tick[h].age >= tick[h].item.every
      /\ tick[h].item.every >= Unit

(* A target that is put off to the future, with no heartbeat at work on    *)
(* it, was really dispatched, is running already, lost its claim to a      *)
(* crash or a failed release, or got its next_crawl_at from an edit: every *)
(* error path of DispatchDueTargets after a claim gives the claim back.    *)
ClaimsAreGivenBack ==
  \A t \in Targets : due[t] # None /\ due[t] > 0 /\ ~Held(t) => t \in spent

(* The inductive invariant of exclusion, proved in DueTargets_proofs.      *)
WorkIsMinutesApart ==
  \A h \in Ticks :
    /\ \A w \in tick[h].todo : w.every >= Unit
    /\ tick[h].pc \in {"valid"} \cup Holding => tick[h].item.every >= Unit

ExclusionInv == TypeOK /\ WorkIsMinutesApart /\ ClaimsAreAhead /\ KeptClaimIsExclusive

(* The list is fair, as due_targets.go:19-28 sets out: while a project has *)
(* a due target that was not listed, no other project has more than one    *)
(* listed target more, and within a project the targets waiting longest    *)
(* come first.  AGENT.md:370 and cron.go:29 give another order, the        *)
(* highest priority first; priority only decides here between targets of   *)
(* one project that have waited equally long.                              *)
ListIsFair ==
  \A t \in DueTargets \ Listed :
    LET mine(p) == {u \in Listed : ProjectOf[u] = p}
    IN  /\ Cardinality(Listed) = Limit
        /\ \A p \in Projects :
             Cardinality(mine(p)) <= Cardinality(mine(ProjectOf[t])) + 1
        /\ \A u \in mine(ProjectOf[t]) : Before(u, t)

(* A due target of an active source and project is dispatched in the end,  *)
(* unless its specs cannot be built: it is put off to its next crawl, and  *)
(* no heartbeat is about to undo it.  The comment at cron.go:29 says two   *)
(* things of the selection: that the due targets of the highest priority   *)
(* go first, which ListIsFair excludes, and that no target of a low        *)
(* priority is passed over for too long, of which this is the limit.       *)
DueTargetsAreServed ==
  \A t \in Targets \ Broken :
    []<>(due[t] # None /\ due[t] > 0 /\ ~Held(t))

=============================================================================
