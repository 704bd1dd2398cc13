-------------------------- MODULE DueTargets_proofs --------------------------
(* Proofs of the safety properties of DueTargets.                          *)
EXTENDS DueTargets, FiniteSetTheorems, FunctionTheorems, TLAPS

USE DueTargetsAssumption

-----------------------------------------------------------------------------
(* computeEffectiveInterval: whatever the mode, the next crawl is between  *)
(* a minute and a day away.                                                *)
THEOREM IntervalBounds ==
  ASSUME NEW n \in Nat, NEW m \in {"NORMAL", "CRISIS", "SLEEP"}
  PROVE  EffectiveInterval(n, m) \in MinInterval..MaxInterval
<1>1. ASSUME NEW k \in Int PROVE Clamp(k) \in MinInterval..MaxInterval
  BY DEF Clamp, MinInterval, MaxInterval
<1>2. (2 * n + 5) \div 10 \in Int
  OBVIOUS
<1>3. EffectiveInterval(n, m) \in {Clamp(n), Clamp((2 * n + 5) \div 10), Clamp(5 * n)}
  BY DEF EffectiveInterval
<1>. QED
  BY <1>1, <1>2, <1>3

(* computeEffectiveInterval: a target is never crawled less often in a     *)
(* crisis, nor more often asleep, than in the normal mode.                 *)
THEOREM ModesAreOrdered ==
  ASSUME NEW n \in Nat \ {0}
  PROVE  /\ EffectiveInterval(n, "CRISIS") <= EffectiveInterval(n, "NORMAL")
         /\ EffectiveInterval(n, "NORMAL") <= EffectiveInterval(n, "SLEEP")
<1>1. ASSUME NEW k \in Int, NEW l \in Int, k <= l PROVE Clamp(k) <= Clamp(l)
  BY <1>1 DEF Clamp, MinInterval, MaxInterval
<1>2. (2 * n + 5) \div 10 \in Int /\ (2 * n + 5) \div 10 <= n
  OBVIOUS
<1>3. /\ EffectiveInterval(n, "CRISIS") = Clamp((2 * n + 5) \div 10)
      /\ EffectiveInterval(n, "NORMAL") = Clamp(n)
      /\ EffectiveInterval(n, "SLEEP") = Clamp(5 * n)
  BY DEF EffectiveInterval
<1>. QED
  BY <1>1, <1>2, <1>3

LEMMA WorkListType ==
  ASSUME TypeOK
  PROVE  WorkList \in SUBSET {w \in Work : w.every >= Unit}
<1>1. ASSUME NEW t \in Targets PROVE Position(t) \in Nat
  <2>1. IsFiniteSet(DueTargets)
    BY FS_Subset DEF DueTargets
  <2>. QED
    BY <2>1, FS_Subset, FS_CardinalityType DEF Position
<1>2. ASSUME NEW t \in Targets PROVE Every(t) \in Nat /\ Every(t) >= Unit
  <2>. DEFINE n == EffectiveInterval(Minutes[t], mode[ProjectOf[t]])
  <2>1. n \in MinInterval..MaxInterval
    BY IntervalBounds DEF TypeOK
  <2>2. n \in Nat /\ n >= 1
    BY <2>1 DEF MinInterval, MaxInterval
  <2>. HIDE DEF n
  <2>3. Unit * n \in Nat /\ Unit * n >= Unit
    <3>1. Unit \in Nat /\ \A u, k \in Nat : k >= 1 => u * k \in Nat /\ u * k >= u
      BY SMTT(30)
    <3>. QED
      BY <2>2, <3>1
  <2>. QED
    BY <2>3 DEF Every, n
<1>3. Listed \subseteq Targets
  BY DEF Listed, DueTargets
<1>. QED
  BY <1>1, <1>2, <1>3 DEF WorkList, Work
-----------------------------------------------------------------------------
(* Type correctness.                                                       *)
(* What happens to jobs keeps their statuses in range.                     *)
JobsTypeOK == jobs \in [Targets -> SUBSET Ledger!Statuses]

LEMMA LedgerType ==
  ASSUME JobsTypeOK, NEW t \in Targets, NEW status \in Ledger!Statuses, NEW S,
         Ledger!Created(t) \/ Ledger!Written(t, status) \/ Ledger!Cancelled(S)
  PROVE  JobsTypeOK'
<1>1. CASE Ledger!Created(t)
  BY <1>1 DEF JobsTypeOK, Ledger!Created, Ledger!Statuses, Ledger!Open
<1>2. CASE Ledger!Written(t, status)
  <2>1. PICK was \in jobs[t] : \E rest \in {jobs[t], jobs[t] \ {was}} :
          jobs' = [jobs EXCEPT ![t] = rest \cup {status}]
    BY <1>2 DEF Ledger!Written
  <2>2. PICK rest \in {jobs[t], jobs[t] \ {was}} :
          jobs' = [jobs EXCEPT ![t] = rest \cup {status}]
    BY <2>1
  <2>3. rest \cup {status} \in SUBSET Ledger!Statuses
    BY DEF JobsTypeOK
  <2>. QED
    BY <2>2, <2>3 DEF JobsTypeOK
<1>3. CASE Ledger!Cancelled(S)
  BY <1>3 DEF JobsTypeOK, Ledger!Cancelled, Ledger!Statuses, Ledger!Open
<1>. QED
  BY <1>1, <1>2, <1>3

LEMMA InitTypeOK == Init => TypeOK
  BY DEF Init, TypeOK, NoDraft, IdleTick, TickState, Holding, Ledger!Init

LEMMA DroppedType ==
  ASSUME NEW r \in TickState
  PROVE  /\ Dropped(r) \in TickState
         /\ Dropped(r).pc \in {"idle", "next"}
         /\ ~Dropped(r).lost
<1>1. CASE r.todo = {}
  BY <1>1 DEF Dropped, IdleTick, TickState
<1>2. CASE r.todo # {}
  <2>1. Dropped(r) = [r EXCEPT !.pc = "next", !.item = None, !.lost = FALSE]
    BY <1>2 DEF Dropped
  <2>. QED
    BY <2>1 DEF TickState
<1>. QED
  BY <1>1, <1>2

(* What a step of one heartbeat must do to keep the type of its record.    *)
LEMMA TickType ==
  ASSUME TypeOK, NEW h \in Ticks, NEW r \in TickState,
         r.pc \in {"valid"} \cup Holding => r.item \in Work,
         tick' = [tick EXCEPT ![h] = r]
  PROVE  /\ tick' \in [Ticks -> TickState]
         /\ \A g \in Ticks : tick'[g].pc \in {"valid"} \cup Holding => tick'[g].item \in Work
  BY DEF TypeOK

LEMMA LoseClaimsType ==
  ASSUME TypeOK, NEW S
  PROVE  /\ LoseClaims(S) \in [Ticks -> TickState]
         /\ \A g \in Ticks : /\ LoseClaims(S)[g].pc = tick[g].pc
                             /\ LoseClaims(S)[g].item = tick[g].item
                             /\ LoseClaims(S)[g].todo = tick[g].todo
                             /\ LoseClaims(S)[g].age = tick[g].age
                             /\ tick[g].lost => LoseClaims(S)[g].lost
                             /\ tick[g].pc \in Holding /\ Target(g) \in S
                                  => LoseClaims(S)[g].lost
<1>1. ASSUME NEW g \in Ticks
      PROVE  /\ LoseClaims(S)[g] \in {tick[g], [tick[g] EXCEPT !.lost = TRUE]}
             /\ tick[g].pc \in Holding /\ Target(g) \in S => LoseClaims(S)[g].lost
             /\ tick[g] \in TickState
  BY DEF LoseClaims, TypeOK, TickState
<1>2. ASSUME NEW g \in Ticks
      PROVE  /\ LoseClaims(S)[g] \in TickState
             /\ LoseClaims(S)[g].pc = tick[g].pc
             /\ LoseClaims(S)[g].item = tick[g].item
             /\ LoseClaims(S)[g].todo = tick[g].todo
             /\ LoseClaims(S)[g].age = tick[g].age
             /\ tick[g].lost => LoseClaims(S)[g].lost
  <2>1. CASE LoseClaims(S)[g] = tick[g]
    BY <1>1, <2>1
  <2>2. CASE LoseClaims(S)[g] = [tick[g] EXCEPT !.lost = TRUE]
    BY <1>1, <2>2 DEF TickState
  <2>. QED
    BY <1>1, <2>1, <2>2
<1>3. LoseClaims(S) = [g \in Ticks |-> LoseClaims(S)[g]]
  BY DEF LoseClaims
<1>. QED
  BY <1>1, <1>2, <1>3

(* The two ways a heartbeat goes on: to its next target, and to pc.        *)
LEMMA GoesOnType ==
  ASSUME TypeOK, NEW h \in Ticks,
         \/ tick' = [tick EXCEPT ![h] = Dropped(@)]
         \/ tick[h].item \in Work /\ \E pc \in Holding : tick' = [tick EXCEPT ![h].pc = pc]
  PROVE  /\ tick' \in [Ticks -> TickState]
         /\ \A g \in Ticks : tick'[g].pc \in {"valid"} \cup Holding => tick'[g].item \in Work
<1>1. tick[h] \in TickState
  BY DEF TypeOK
<1>2. CASE tick' = [tick EXCEPT ![h] = Dropped(@)]
  BY <1>1, <1>2, DroppedType, TickType DEF Holding
<1>3. ASSUME NEW pc \in Holding, tick[h].item \in Work, tick' = [tick EXCEPT ![h].pc = pc]
      PROVE  /\ tick' \in [Ticks -> TickState]
             /\ \A g \in Ticks : tick'[g].pc \in {"valid"} \cup Holding => tick'[g].item \in Work
  <2>. DEFINE r == [tick[h] EXCEPT !.pc = pc]
  <2>1. r \in TickState /\ r.item = tick[h].item
    BY <1>1 DEF TickState
  <2>2. tick' = [tick EXCEPT ![h] = r]
    BY <1>3
  <2>. QED
    BY <1>3, <2>1, <2>2, TickType
<1>. QED
  BY <1>2, <1>3

LEMMA TickTypeOK ==
  ASSUME TypeOK, NEW h \in Ticks, TickStarts(h) \/ TickStep(h) \/ CrashTick(h)
  PROVE  TypeOK'
<1>. USE DEF rowVars, controlVars
<1>0. tick[h] \in TickState /\ DOMAIN tick = Ticks
  BY DEF TypeOK
<1>1. CASE TickStarts(h)
  <2>1. ASSUME NEW r, r = [pc |-> "next", age |-> 0, todo |-> WorkList, item |-> None,
                           lost |-> FALSE]
        PROVE  r \in TickState
    BY <2>1, WorkListType DEF TickState
  <2>. QED
    BY <1>1, <2>1, TickType DEF TickStarts, TypeOK, Holding
<1>2. CASE Validate(h)
  <2>1. PICK w \in tick[h].todo :
          tick' \in {[tick EXCEPT ![h] = [@ EXCEPT !.pc = "valid", !.todo = tick[h].todo \ {w},
                                                   !.item = w]],
                     [tick EXCEPT ![h] = IdleTick],
                     [tick EXCEPT ![h] = [@ EXCEPT !.todo = tick[h].todo \ {w}]]}
    BY <1>2 DEF Validate
  <2>2. w \in Work /\ tick[h].todo \ {w} \in SUBSET Work
    BY <1>0 DEF TickState
  <2>3. ASSUME NEW r, r \in {[tick[h] EXCEPT !.pc = "valid", !.todo = tick[h].todo \ {w},
                                             !.item = w],
                             [tick[h] EXCEPT !.todo = tick[h].todo \ {w}]}
        PROVE  r \in TickState /\ r.pc \in {"next", "valid"} /\ (r.pc = "valid" => r.item \in Work)
    BY <1>0, <1>2, <2>2, <2>3 DEF Validate, TickState
  <2>4. IdleTick \in TickState /\ IdleTick.pc = "idle"
    BY DEF IdleTick, TickState
  <2>5. /\ tick' \in [Ticks -> TickState]
        /\ \A g \in Ticks : tick'[g].pc \in {"valid"} \cup Holding => tick'[g].item \in Work
    BY <2>1, <2>3, <2>4, TickType DEF Holding
  <2>. QED
    BY <1>2, <2>5 DEF Validate, TypeOK
<1>3. CASE ClaimTarget(h)
  <2>1. tick[h].item \in Work
    BY <1>3 DEF ClaimTarget, TypeOK
  <2>2. tick[h].item.every - tick[h].age \in Int /\ Target(h) \in Targets
    BY <1>0, <2>1 DEF Work, TickState, Target
  <2>3. due' \in [Targets -> Int \cup {None}] /\ spent' \subseteq Targets
    BY <1>3, <2>2 DEF ClaimTarget, TypeOK
  <2>4. tick' = [tick EXCEPT ![h] = Dropped(@)] \/ \E pc \in Holding : tick' = [tick EXCEPT ![h].pc = pc]
    BY <1>3 DEF ClaimTarget, Drop, Goto, Holding
  <2>5. /\ tick' \in [Ticks -> TickState]
        /\ \A g \in Ticks : tick'[g].pc \in {"valid"} \cup Holding => tick'[g].item \in Work
    BY <2>1, <2>4, GoesOnType
  <2>. QED
    BY <1>3, <2>3, <2>5 DEF ClaimTarget, TypeOK
<1>4. CASE Revalidate(h)
  <2>1. tick[h].item \in Work
    BY <1>4 DEF Revalidate, TypeOK, Holding
  <2>2. \E pc \in Holding : tick' = [tick EXCEPT ![h].pc = pc]
    BY <1>4 DEF Revalidate, Goto, Holding
  <2>3. /\ tick' \in [Ticks -> TickState]
        /\ \A g \in Ticks : tick'[g].pc \in {"valid"} \cup Holding => tick'[g].item \in Work
    BY <2>1, <2>2, GoesOnType
  <2>. QED
    BY <1>4, <2>3 DEF Revalidate, TypeOK
<1>5. CASE CreateJob(h)
  <2>1. tick[h].item \in Work /\ Target(h) \in Targets
    BY <1>5 DEF CreateJob, TypeOK, Holding, Target, Work
  <2>2. JobsTypeOK' /\ spent' \subseteq Targets
    <3>1. Ledger!Created(Target(h)) \/ UNCHANGED jobs
      BY <1>5 DEF CreateJob
    <3>2. JobsTypeOK /\ "CLOSED" \in Ledger!Statuses
      BY DEF JobsTypeOK, TypeOK, Ledger!Statuses
    <3>3. JobsTypeOK'
      BY <2>1, <3>1, <3>2, LedgerType DEF JobsTypeOK
    <3>. QED
      BY <1>5, <2>1, <3>3 DEF CreateJob, TypeOK
  <2>3. tick' = [tick EXCEPT ![h] = Dropped(@)] \/ \E pc \in Holding : tick' = [tick EXCEPT ![h].pc = pc]
    BY <1>5 DEF CreateJob, Drop, Goto, Holding
  <2>5. /\ tick' \in [Ticks -> TickState]
        /\ \A g \in Ticks : tick'[g].pc \in {"valid"} \cup Holding => tick'[g].item \in Work
    BY <2>1, <2>3, GoesOnType
  <2>. QED
    BY <1>5, <2>2, <2>5 DEF CreateJob, TypeOK, JobsTypeOK
<1>6. CASE FanOut(h)
  <2>1. tick[h].item \in Work /\ Target(h) \in Targets
    BY <1>6 DEF FanOut, TypeOK, Holding, Target, Work
  <2>2. \/ UNCHANGED jobs
        \/ Ledger!Written(Target(h), "PARTIAL") \/ Ledger!Written(Target(h), "CLOSED")
    BY <1>6 DEF FanOut
  <2>3. "PARTIAL" \in Ledger!Statuses /\ "CLOSED" \in Ledger!Statuses
    BY DEF Ledger!Statuses, Ledger!Open
  <2>4. JobsTypeOK' /\ spent' \subseteq Targets
    <3>1. JobsTypeOK'
      BY <2>1, <2>2, <2>3, LedgerType DEF JobsTypeOK, TypeOK
    <3>. QED
      BY <1>6, <2>1, <3>1 DEF FanOut, TypeOK
  <2>5. tick' = [tick EXCEPT ![h] = Dropped(@)] \/ \E pc \in Holding : tick' = [tick EXCEPT ![h].pc = pc]
    BY <1>6 DEF FanOut, Drop, Goto, Holding
  <2>6. /\ tick' \in [Ticks -> TickState]
        /\ \A g \in Ticks : tick'[g].pc \in {"valid"} \cup Holding => tick'[g].item \in Work
    BY <2>1, <2>5, GoesOnType
  <2>. QED
    BY <1>6, <2>4, <2>6 DEF FanOut, TypeOK, JobsTypeOK
<1>7. CASE ReleaseClaimTarget(h)
  <2>1. Target(h) \in Targets
    BY <1>7 DEF ReleaseClaimTarget, TypeOK, Holding, Target, Work
  <2>2. due' \in [Targets -> Int \cup {None}] /\ spent' \subseteq Targets
    BY <1>7, <2>1 DEF ReleaseClaimTarget, TypeOK
  <2>3. tick' \in {[LoseClaims({Target(h)}) EXCEPT ![h] = Dropped(tick[h])],
                   [tick EXCEPT ![h] = Dropped(@)]}
    BY <1>7 DEF ReleaseClaimTarget, Drop
  <2>4. /\ tick' \in [Ticks -> TickState]
        /\ \A g \in Ticks : tick'[g].pc \in {"valid"} \cup Holding => tick'[g].item \in Work
    <3>1. CASE tick' = [tick EXCEPT ![h] = Dropped(@)]
      BY <3>1, GoesOnType
    <3>2. CASE tick' = [LoseClaims({Target(h)}) EXCEPT ![h] = Dropped(tick[h])]
      <4>1. /\ Dropped(tick[h]) \in TickState
            /\ Dropped(tick[h]).pc \notin {"valid"} \cup Holding
        BY <1>0, DroppedType DEF Holding
      <4>. QED
        BY <3>2, <4>1, LoseClaimsType DEF TypeOK
    <3>. QED
      BY <2>3, <3>1, <3>2
  <2>. QED
    BY <1>7, <2>2, <2>4 DEF ReleaseClaimTarget, TypeOK
<1>8. CASE CrashTick(h)
  <2>1. IdleTick \in TickState /\ IdleTick.pc = "idle"
    BY DEF IdleTick, TickState
  <2>2. tick' = [tick EXCEPT ![h] = IdleTick] /\ spent' \subseteq Targets
    BY <1>8 DEF CrashTick, TypeOK
  <2>3. /\ tick' \in [Ticks -> TickState]
        /\ \A g \in Ticks : tick'[g].pc \in {"valid"} \cup Holding => tick'[g].item \in Work
    BY <2>1, <2>2, TickType DEF Holding
  <2>. QED
    BY <1>8, <2>2, <2>3 DEF CrashTick, TypeOK
<1>. QED
  BY <1>1, <1>2, <1>3, <1>4, <1>5, <1>6, <1>7, <1>8 DEF TickStep

LEMMA ClockTypeOK ==
  ASSUME TypeOK, Clock
  PROVE  TypeOK'
<1>1. ASSUME NEW x \in Int \cup {None} PROVE Later(x) \in Int \cup {None}
  BY DEF Later
<1>2. due' \in [Targets -> Int \cup {None}]
  BY <1>1 DEF Clock, TypeOK
<1>3. draft' \in [row : Targets \cup Projects \cup {None}, due : Int \cup {None},
                    active : BOOLEAN, demotes : BOOLEAN]
  BY <1>1 DEF Clock, TypeOK
<1>4. /\ tick' \in [Ticks -> TickState]
      /\ \A g \in Ticks : tick'[g].pc \in {"valid"} \cup Holding => tick'[g].item \in Work
  <2>1. ASSUME NEW g \in Ticks
        PROVE  /\ tick'[g] \in TickState
               /\ tick'[g].pc = tick[g].pc /\ tick'[g].item = tick[g].item
    <3>1. tick[g] \in TickState
      BY DEF TypeOK
    <3>2. CASE tick[g].pc = "idle"
      BY <3>1, <3>2 DEF Clock
    <3>3. CASE tick[g].pc # "idle"
      <4>1. tick[g].age + 1 \in 0..MaxAge /\ tick'[g] = [tick[g] EXCEPT !.age = @ + 1]
        BY <3>1, <3>3 DEF Clock, TickState
      <4>. QED
        BY <3>1, <4>1 DEF TickState
    <3>. QED
      BY <3>2, <3>3
  <2>2. tick' = [g \in Ticks |-> tick'[g]]
    BY DEF Clock
  <2>. QED
    BY <2>1, <2>2 DEF TypeOK
<1>5. quiet' \in 0..Unit
  BY DEF Clock, TypeOK
<1>. QED
  BY <1>2, <1>3, <1>4, <1>5 DEF Clock, TypeOK, controlVars

LEMMA TargetTypeOK ==
  ASSUME TypeOK, NEW t \in Targets, TargetStep(t)
  PROVE  TypeOK'
<1>. USE DEF rowVars, controlVars
<1>1. CASE JobsProgress(t)
  <2>1. JobsTypeOK'
    BY <1>1, LedgerType DEF JobsProgress, JobsTypeOK, TypeOK
  <2>. QED
    BY <1>1, <2>1 DEF JobsProgress, TypeOK, JobsTypeOK
<1>2. CASE ManualStarts(t) \/ ManualCreatesJob(t)
  <2>1. UNCHANGED jobs \/ Ledger!Created(t)
    BY <1>2 DEF ManualStarts, ManualCreatesJob
  <2>2. JobsTypeOK /\ "CLOSED" \in Ledger!Statuses
    BY DEF JobsTypeOK, TypeOK, Ledger!Statuses
  <2>3. JobsTypeOK'
    BY <2>1, <2>2, LedgerType DEF JobsTypeOK
  <2>. QED
    BY <1>2, <2>3 DEF ManualStarts, ManualCreatesJob, TypeOK, JobsTypeOK
<1>3. CASE EditReads(t)
  BY <1>3 DEF EditReads, TypeOK
<1>4. CASE EditWrites(t)
  <2>1. draft.due \in Int \cup {None} /\ draft.active \in BOOLEAN
    BY DEF TypeOK
  <2>2. /\ tick' \in [Ticks -> TickState]
        /\ \A g \in Ticks : tick'[g].pc \in {"valid"} \cup Holding => tick'[g].item \in Work
    BY <1>4, LoseClaimsType DEF EditWrites, TypeOK
  <2>3. draft' \in [row : Targets \cup Projects \cup {None}, due : Int \cup {None},
                    active : BOOLEAN, demotes : BOOLEAN]
    BY <1>4 DEF EditWrites, NoDraft
  <2>. QED
    BY <1>4, <2>1, <2>2, <2>3 DEF EditWrites, TypeOK
<1>. QED
  BY <1>1, <1>2, <1>3, <1>4 DEF TargetStep

LEMMA ProjectTypeOK ==
  ASSUME TypeOK, NEW p \in Projects, ProjectStep(p)
  PROVE  TypeOK'
<1>. USE DEF rowVars, controlVars
<1>1. CASE PauseDataSource(p) \/ Pause(p) \/ Resume(p)
  BY <1>1 DEF PauseDataSource, Pause, Resume, TypeOK
<1>2. CASE CancelProjectRuntime(p)
  <2>1. /\ tick' \in [Ticks -> TickState]
        /\ \A g \in Ticks : tick'[g].pc \in {"valid"} \cup Holding => tick'[g].item \in Work
    BY <1>2, LoseClaimsType DEF CancelProjectRuntime, TypeOK
  <2>2. JobsTypeOK'
    BY <1>2 DEF CancelProjectRuntime, TypeOK, JobsTypeOK,
                Ledger!Cancelled, Ledger!Statuses, Ledger!Open
  <2>. QED
    BY <1>2, <2>1, <2>2 DEF CancelProjectRuntime, TypeOK, JobsTypeOK
<1>3. CASE ProjectChanges(p)
  BY <1>3 DEF ProjectChanges, TypeOK
<1>4. CASE UpdateCrawlMode(p)
  BY <1>4 DEF UpdateCrawlMode, TypeOK
<1>5. CASE MarkDatasourcePending(p)
  BY <1>5 DEF MarkDatasourcePending, TypeOK, NoDraft
<1>. QED
  BY <1>1, <1>2, <1>3, <1>4, <1>5 DEF ProjectStep

LEMMA NextTypeOK == TypeOK /\ [Next]_vars => TypeOK'
<1>1. ASSUME TypeOK, UNCHANGED vars PROVE TypeOK'
  BY <1>1 DEF TypeOK, vars, rowVars, controlVars
<1>. QED
  BY <1>1, TickTypeOK, ClockTypeOK, TargetTypeOK, ProjectTypeOK DEF Next

(* The rows of the scheduler and the records of its heartbeats keep their  *)
(* shapes, whatever runs at once and whatever fails.                       *)
THEOREM TypeCorrect == Spec => []TypeOK
  BY InitTypeOK, NextTypeOK, PTL DEF Spec
-----------------------------------------------------------------------------
(* Exclusion.                                                              *)

(* The heartbeat g has a claim on t that nobody overwrote.                 *)
Claim(g, t) == tick[g].pc \in Holding /\ tick[g].item.target = t /\ ~tick[g].lost

LEMMA InitExclusion == Init => ExclusionInv
  BY InitTypeOK DEF Init, ExclusionInv, WorkIsMinutesApart, ClaimsAreAhead,
                    KeptClaimIsExclusive, Holds, Target, IdleTick, Holding

(* A step after which no heartbeat has a claim it did not have, and in     *)
(* which the clock, if it moves, moves for the claims and the rows alike.  *)
LEMMA NoNewClaims ==
  ASSUME TypeOK, TypeOK', ClaimsAreAhead, KeptClaimIsExclusive, NEW d \in Int,
         \A g \in Ticks : \A t \in Targets :
           tick'[g].pc \in Holding /\ tick'[g].item.target = t /\ ~tick'[g].lost =>
             /\ Claim(g, t)
             /\ tick'[g].item = tick[g].item /\ tick'[g].age = tick[g].age + d
             /\ due[t] # None => due'[t] # None /\ due'[t] + d >= due[t]
  PROVE  ClaimsAreAhead' /\ KeptClaimIsExclusive'
<1>1. ASSUME NEW g \in Ticks, NEW t \in Targets, Holds(g, t)', ~tick'[g].lost
      PROVE  /\ Holds(g, t) /\ ~tick[g].lost
             /\ tick'[g].item = tick[g].item /\ tick'[g].age = tick[g].age + d
             /\ tick[g].age \in Int /\ tick[g].item.every \in Int
             /\ due'[t] # None /\ due'[t] + tick'[g].age >= tick'[g].item.every
             /\ tick'[g].item.every >= Unit
  <2>1. /\ Claim(g, t)
        /\ tick'[g].item = tick[g].item /\ tick'[g].age = tick[g].age + d
        /\ due[t] # None => due'[t] # None /\ due'[t] + d >= due[t]
    BY <1>1 DEF Holds, Target
  <2>2. /\ due[t] # None /\ due[t] + tick[g].age >= tick[g].item.every
        /\ tick[g].item.every >= Unit /\ Holds(g, t) /\ ~tick[g].lost
    BY <2>1 DEF Claim, ClaimsAreAhead, Holds, Target
  <2>3. due[t] \in Int /\ tick[g].age \in Int /\ tick[g].item.every \in Int
    <3>1. tick[g] \in TickState /\ tick[g].item \in Work
      BY <2>2 DEF TypeOK, Holds
    <3>. QED
      BY <2>2, <3>1 DEF TypeOK, TickState, Work
  <2>4. due'[t] \in Int
    BY <2>1, <2>2 DEF TypeOK
  <2>. QED
    BY <2>1, <2>2, <2>3, <2>4
<1>2. ClaimsAreAhead'
  BY <1>1 DEF ClaimsAreAhead
<1>3. ASSUME NEW f \in Ticks, NEW g \in Ticks, NEW t \in Targets, Holds(f, t)', Holds(g, t)',
             ~tick'[f].lost, ~tick'[g].lost
      PROVE  f = g \/ Outlived(f, g)' \/ Outlived(g, f)'
  <2>1. f = g \/ Outlived(f, g) \/ Outlived(g, f)
    BY <1>1, <1>3 DEF KeptClaimIsExclusive
  <2>. QED
    BY <1>1, <1>3, <2>1 DEF Outlived
<1>. QED
  BY <1>2, <1>3 DEF KeptClaimIsExclusive

LEMMA ClaimsStand ==
  ASSUME TypeOK, TypeOK', ClaimsAreAhead, KeptClaimIsExclusive,
         \A g \in Ticks : \A t \in Targets :
           tick'[g].pc \in Holding /\ tick'[g].item.target = t /\ ~tick'[g].lost =>
             /\ Claim(g, t)
             /\ tick'[g].item = tick[g].item /\ tick'[g].age = tick[g].age
             /\ due'[t] = due[t]
  PROVE  ClaimsAreAhead' /\ KeptClaimIsExclusive'
<1>1. /\ \A g \in Ticks : tick[g].age \in Int
      /\ \A t \in Targets : due[t] # None => due[t] \in Int
  BY DEF TypeOK, TickState
<1>2. PICK d \in Int : d = 0
  OBVIOUS
<1>3. \A g \in Ticks : tick[g].age = tick[g].age + d
  BY <1>1, <1>2
<1>4. \A t \in Targets : due[t] # None => due[t] + d >= due[t]
  BY <1>1, <1>2
<1>5. \A g \in Ticks : \A t \in Targets :
        tick'[g].pc \in Holding /\ tick'[g].item.target = t /\ ~tick'[g].lost =>
          /\ Claim(g, t)
          /\ tick'[g].item = tick[g].item /\ tick'[g].age = tick[g].age + d
          /\ due[t] # None => due'[t] # None /\ due'[t] + d >= due[t]
  BY <1>3, <1>4
<1>. QED
  BY <1>5, NoNewClaims

(* A claim finds no claim of another heartbeat that still lasts.           *)
LEMMA ClaimStep ==
  ASSUME ExclusionInv, TypeOK', NEW h \in Ticks, ClaimTarget(h), tick[h].item \in Work
  PROVE  ClaimsAreAhead' /\ KeptClaimIsExclusive'
<1>. DEFINE u == tick[h].item.target
<1>0. /\ tick[h] \in TickState /\ tick[h].age \in 0..MaxAge /\ tick[h].pc = "valid"
      /\ u \in Targets /\ tick[h].item.every \in Nat /\ tick[h].item.every >= Unit
  BY DEF ExclusionInv, TypeOK, TickState, WorkIsMinutesApart, Work, ClaimTarget
<1>1. CASE Drop(h) /\ UNCHANGED due
  <2>1. /\ \A g \in Ticks \ {h} : tick'[g] = tick[g]
        /\ tick'[h].pc \notin Holding
    BY <1>0, <1>1, DroppedType DEF Drop, Holding, ExclusionInv, TypeOK
  <2>2. \A g \in Ticks : tick[g].age \in Int
    BY DEF ExclusionInv, TypeOK, TickState
  <2>3. \A t \in Targets : due[t] # None => due[t] \in Int
    BY DEF ExclusionInv, TypeOK
  <2>4. \A g \in Ticks : \A t \in Targets :
          tick'[g].pc \in Holding /\ tick'[g].item.target = t /\ ~tick'[g].lost =>
            /\ Claim(g, t)
            /\ tick'[g].item = tick[g].item /\ tick'[g].age = tick[g].age
            /\ due'[t] = due[t]
    BY <1>1, <2>1, <2>2, <2>3 DEF Claim
  <2>. QED
    BY <2>4, ClaimsStand DEF ExclusionInv
<1>2. CASE Claimable(h) /\ Goto(h, "claimed")
           /\ due' = [due EXCEPT ![Target(h)] = tick[h].item.every - tick[h].age]
  <2>1. ASSUME NEW g \in Ticks, Claim(g, u)
        PROVE  /\ tick[g].age \in Int /\ tick[g].item.every \in Int
               /\ tick[g].age >= tick[h].age + tick[g].item.every
               /\ tick[g].item.every >= Unit
    <3>1. /\ due[u] # None /\ due[u] + tick[g].age >= tick[g].item.every
          /\ tick[g].item.every >= Unit
      BY <1>0, <2>1 DEF Claim, Holds, Target, ExclusionInv, ClaimsAreAhead
    <3>2. due[u] <= 0 - tick[h].age
      BY <1>2, <3>1 DEF Claimable, IsDue, Target
    <3>3. tick[g] \in TickState /\ tick[g].item \in Work
      BY <2>1 DEF ExclusionInv, TypeOK, Claim
    <3>4. due[u] \in Int /\ tick[g].age \in Int /\ tick[g].item.every \in Int
      BY <1>0, <3>1, <3>3 DEF ExclusionInv, TypeOK, TickState, Work
    <3>. QED
      BY <1>0, <3>1, <3>2, <3>4
  <2>2. /\ \A g \in Ticks \ {h} : tick'[g] = tick[g]
        /\ tick'[h].item = tick[h].item /\ tick'[h].age = tick[h].age
    BY <1>0, <1>2 DEF Goto, ExclusionInv, TypeOK, TickState
  <2>3. /\ \A t \in Targets \ {u} : due'[t] = due[t]
        /\ due'[u] = tick[h].item.every - tick[h].age
    BY <1>0, <1>2 DEF Target, ExclusionInv, TypeOK
  <2>4. ASSUME NEW g \in Ticks, NEW t \in Targets, Holds(g, t)', ~tick'[g].lost
        PROVE  /\ due'[t] # None /\ due'[t] + tick'[g].age >= tick'[g].item.every
               /\ tick'[g].item.every >= Unit
    <3>1. CASE g = h
      BY <1>0, <2>2, <2>3, <2>4, <3>1 DEF Holds, Target
    <3>2. CASE g # h /\ t = u
      <4>1. Claim(g, u)
        BY <2>2, <2>4, <3>2 DEF Holds, Target, Claim
      <4>2. due'[u] \in Int
        BY <1>0, <2>3
      <4>. QED
        BY <1>0, <2>1, <2>2, <2>3, <3>2, <4>1, <4>2
    <3>3. CASE g # h /\ t # u
      BY <2>2, <2>3, <2>4, <3>3 DEF Holds, Target, ExclusionInv, ClaimsAreAhead
    <3>. QED
      BY <3>1, <3>2, <3>3
  <2>5. ASSUME NEW g \in Ticks \ {h}, NEW t \in Targets, Holds(g, t)', Holds(h, t)', ~tick'[g].lost
        PROVE  Outlived(g, h)'
    <3>1. Claim(g, u)
      BY <2>2, <2>5 DEF Holds, Target, Claim
    <3>. QED
      BY <2>1, <2>2, <3>1 DEF Outlived
  <2>6. ASSUME NEW f \in Ticks, NEW g \in Ticks, NEW t \in Targets, Holds(f, t)', Holds(g, t)',
               ~tick'[f].lost, ~tick'[g].lost
        PROVE  f = g \/ Outlived(f, g)' \/ Outlived(g, f)'
    <3>1. CASE f # h /\ g # h
      BY <2>2, <2>6, <3>1 DEF Holds, Target, Outlived, ExclusionInv, KeptClaimIsExclusive
    <3>2. CASE f = h \/ g = h
      BY <2>5, <2>6, <3>2
    <3>. QED
      BY <3>1, <3>2
  <2>. QED
    BY <2>4, <2>6 DEF ClaimsAreAhead, KeptClaimIsExclusive
<1>. QED
  BY <1>1, <1>2 DEF ClaimTarget

LEMMA OtherTickSteps ==
  ASSUME ExclusionInv, TypeOK', NEW h \in Ticks,
         TickStarts(h) \/ Validate(h) \/ Revalidate(h) \/ CreateJob(h) \/ FanOut(h)
           \/ ReleaseClaimTarget(h) \/ CrashTick(h)
  PROVE  ClaimsAreAhead' /\ KeptClaimIsExclusive'
<1>0. /\ tick[h] \in TickState
      /\ \A g \in Ticks : tick[g].age \in Int
      /\ \A t \in Targets : due[t] # None => due[t] \in Int
  BY DEF ExclusionInv, TypeOK, TickState
<1>1. ASSUME \A g \in Ticks \ {h} : tick'[g] = tick[g],
             UNCHANGED due,
             tick'[h].pc \in Holding => /\ tick[h].pc \in Holding /\ tick'[h].item = tick[h].item
                                        /\ tick'[h].age = tick[h].age /\ tick'[h].lost = tick[h].lost
      PROVE  ClaimsAreAhead' /\ KeptClaimIsExclusive'
  <2>1. \A g \in Ticks : \A t \in Targets :
          tick'[g].pc \in Holding /\ tick'[g].item.target = t /\ ~tick'[g].lost =>
            /\ Claim(g, t)
            /\ tick'[g].item = tick[g].item /\ tick'[g].age = tick[g].age
            /\ due'[t] = due[t]
    BY <1>0, <1>1 DEF Claim
  <2>. QED
    BY <2>1, ClaimsStand DEF ExclusionInv
<1>2. CASE TickStarts(h)
  <2>1. tick' = tick \/ tick'[h].pc \notin Holding
    BY <1>2 DEF TickStarts, ExclusionInv, TypeOK, Holding
  <2>2. \A g \in Ticks \ {h} : tick'[g] = tick[g]
    BY <1>2 DEF TickStarts, ExclusionInv, TypeOK
  <2>. QED
    BY <1>1, <1>2, <2>1, <2>2 DEF TickStarts
<1>3. CASE Validate(h) \/ CrashTick(h)
  <2>1. CASE Validate(h)
    <3>1. PICK w \in tick[h].todo :
            tick' \in {[tick EXCEPT ![h] = [@ EXCEPT !.pc = "valid", !.todo = tick[h].todo \ {w},
                                                     !.item = w]],
                       [tick EXCEPT ![h] = IdleTick],
                       [tick EXCEPT ![h] = [@ EXCEPT !.todo = tick[h].todo \ {w}]]}
      BY <2>1 DEF Validate
    <3>2. tick[h].pc = "next"
      BY <2>1 DEF Validate
    <3>3. tick'[h].pc \in {"valid", "idle", "next"}
      <4>1. \A r : tick' = [tick EXCEPT ![h] = r] => tick'[h] = r
        BY DEF ExclusionInv, TypeOK
      <4>2. \/ tick'[h] = [tick[h] EXCEPT !.pc = "valid", !.todo = tick[h].todo \ {w}, !.item = w]
            \/ tick'[h] = IdleTick
            \/ tick'[h] = [tick[h] EXCEPT !.todo = tick[h].todo \ {w}]
        BY <3>1, <4>1
      <4>3. CASE tick'[h] = [tick[h] EXCEPT !.pc = "valid", !.todo = tick[h].todo \ {w}, !.item = w]
        BY <1>0, <4>3 DEF TickState
      <4>4. CASE tick'[h] = IdleTick
        BY <4>4 DEF IdleTick
      <4>5. CASE tick'[h] = [tick[h] EXCEPT !.todo = tick[h].todo \ {w}]
        BY <1>0, <3>2, <4>5 DEF TickState
      <4>. QED
        BY <4>2, <4>3, <4>4, <4>5
    <3>4. \A g \in Ticks \ {h} : tick'[g] = tick[g]
      BY <3>1 DEF ExclusionInv, TypeOK
    <3>. QED
      BY <1>1, <2>1, <3>3, <3>4 DEF Validate, Holding
  <2>2. CASE CrashTick(h)
    BY <1>1, <2>2 DEF CrashTick, IdleTick, Holding, ExclusionInv, TypeOK
  <2>. QED
    BY <1>3, <2>1, <2>2
<1>4. ASSUME Drop(h), UNCHANGED due PROVE ClaimsAreAhead' /\ KeptClaimIsExclusive'
  <2>1. tick' = [tick EXCEPT ![h] = Dropped(tick[h])] /\ Dropped(tick[h]).pc \notin Holding
    BY <1>0, <1>4, DroppedType DEF Drop, Holding
  <2>. QED
    BY <1>1, <1>4, <2>1 DEF ExclusionInv, TypeOK
<1>5. CASE Revalidate(h) \/ CreateJob(h) \/ FanOut(h)
  <2>1. UNCHANGED due /\ tick[h].pc \in Holding
    BY <1>5 DEF Revalidate, CreateJob, FanOut, Holding
  <2>2. Drop(h) \/ \E pc \in Holding : tick' = [tick EXCEPT ![h].pc = pc]
    BY <1>5 DEF Revalidate, CreateJob, FanOut, Goto, Holding
  <2>3. CASE \E pc \in Holding : tick' = [tick EXCEPT ![h].pc = pc]
    <3>1. PICK pc \in Holding : tick' = [tick EXCEPT ![h] = [tick[h] EXCEPT !.pc = pc]]
      BY <2>3
    <3>. QED
      BY <1>0, <1>1, <2>1, <3>1 DEF ExclusionInv, TypeOK, TickState
  <2>. QED
    BY <1>4, <2>1, <2>2, <2>3
<1>6. CASE ReleaseClaimTarget(h)
  <2>1. CASE /\ due' = [due EXCEPT ![Target(h)] = None]
             /\ tick' = [LoseClaims({Target(h)}) EXCEPT ![h] = Dropped(tick[h])]
    <3>1. ASSUME NEW g \in Ticks, NEW t \in Targets, tick'[g].pc \in Holding,
                 tick'[g].item.target = t, ~tick'[g].lost
          PROVE  /\ Claim(g, t) /\ tick'[g].age = tick[g].age
                 /\ tick'[g].item = tick[g].item /\ t # Target(h)
      BY <1>0, <2>1, <3>1, DroppedType, LoseClaimsType DEF Claim, Target, ExclusionInv, Holding
    <3>2. \A t \in Targets : t # Target(h) => due'[t] = due[t]
      BY <2>1 DEF ExclusionInv, TypeOK
    <3>3. \A g \in Ticks : \A t \in Targets :
            tick'[g].pc \in Holding /\ tick'[g].item.target = t /\ ~tick'[g].lost =>
              /\ Claim(g, t)
              /\ tick'[g].item = tick[g].item /\ tick'[g].age = tick[g].age
              /\ due'[t] = due[t]
      BY <1>0, <3>1, <3>2
    <3>. QED
      BY <3>3, ClaimsStand DEF ExclusionInv
  <2>. QED
    BY <1>4, <1>6, <2>1 DEF ReleaseClaimTarget
<1>. QED
  BY <1>2, <1>3, <1>5, <1>6

(* The steps of the other writers and of the clock.                        *)
LEMMA OtherSteps ==
  ASSUME ExclusionInv, TypeOK',
         Clock \/ (\E t \in Targets : TargetStep(t)) \/ (\E p \in Projects : ProjectStep(p))
  PROVE  WorkIsMinutesApart' /\ ClaimsAreAhead' /\ KeptClaimIsExclusive'
<1>0. /\ \A g \in Ticks : tick[g] \in TickState /\ tick[g].age \in Int
      /\ \A t \in Targets : due[t] # None => due[t] \in Int
  BY DEF ExclusionInv, TypeOK, TickState
<1>1. CASE Clock
  <2>1. ASSUME NEW g \in Ticks
        PROVE  /\ tick'[g].pc = tick[g].pc /\ tick'[g].item = tick[g].item
               /\ tick'[g].todo = tick[g].todo /\ tick'[g].lost = tick[g].lost
               /\ tick'[g].age = tick[g].age \/ tick'[g].age = tick[g].age + 1
               /\ tick[g].pc \in Holding => tick'[g].age = tick[g].age + 1
    BY <1>0, <1>1 DEF Clock, TickState, Holding
  <2>2. ASSUME NEW t \in Targets, due[t] # None
        PROVE  due'[t] # None /\ due'[t] + 1 >= due[t]
    BY <1>0, <1>1, <2>2 DEF Clock, Later, TypeOK
  <2>3. \A g \in Ticks : \A t \in Targets :
          tick'[g].pc \in Holding /\ tick'[g].item.target = t /\ ~tick'[g].lost =>
            /\ Claim(g, t)
            /\ tick'[g].item = tick[g].item /\ tick'[g].age = tick[g].age + 1
            /\ due[t] # None => due'[t] # None /\ due'[t] + 1 >= due[t]
    BY <2>1, <2>2 DEF Claim
  <2>4. WorkIsMinutesApart'
    BY <2>1 DEF ExclusionInv, WorkIsMinutesApart
  <2>5. ClaimsAreAhead' /\ KeptClaimIsExclusive'
    <3>1. PICK d \in Int : d = 1
      OBVIOUS
    <3>2. \A g \in Ticks : \A t \in Targets :
            tick'[g].pc \in Holding /\ tick'[g].item.target = t /\ ~tick'[g].lost =>
              /\ Claim(g, t)
              /\ tick'[g].item = tick[g].item /\ tick'[g].age = tick[g].age + d
              /\ due[t] # None => due'[t] # None /\ due'[t] + d >= due[t]
      BY <2>3, <3>1
    <3>. QED
      BY <3>2, NoNewClaims DEF ExclusionInv
  <2>. QED
    BY <2>4, <2>5
<1>2. ASSUME NEW S, tick' = LoseClaims(S), \A t \in Targets : t \notin S => due'[t] = due[t]
      PROVE  WorkIsMinutesApart' /\ ClaimsAreAhead' /\ KeptClaimIsExclusive'
  <2>1. WorkIsMinutesApart'
    BY <1>2, LoseClaimsType DEF ExclusionInv, WorkIsMinutesApart
  <2>2. ASSUME NEW g \in Ticks, NEW t \in Targets, tick'[g].pc \in Holding,
               tick'[g].item.target = t, ~tick'[g].lost
        PROVE  /\ Claim(g, t) /\ tick'[g].age = tick[g].age
               /\ tick'[g].item = tick[g].item /\ t \notin S
    BY <1>2, <2>2, LoseClaimsType DEF ExclusionInv, Claim, Target
  <2>3. \A g \in Ticks : \A t \in Targets :
          tick'[g].pc \in Holding /\ tick'[g].item.target = t /\ ~tick'[g].lost =>
            /\ Claim(g, t)
            /\ tick'[g].item = tick[g].item /\ tick'[g].age = tick[g].age
            /\ due'[t] = due[t]
    BY <1>0, <1>2, <2>2
  <2>. QED
    BY <2>1, <2>3, ClaimsStand DEF ExclusionInv
<1>3. ASSUME UNCHANGED <<tick, due>>
      PROVE  WorkIsMinutesApart' /\ ClaimsAreAhead' /\ KeptClaimIsExclusive'
  BY <1>3 DEF ExclusionInv, WorkIsMinutesApart, ClaimsAreAhead, KeptClaimIsExclusive, Outlived,
              Holds, Target
<1>4. ASSUME NEW t \in Targets, TargetStep(t)
      PROVE  WorkIsMinutesApart' /\ ClaimsAreAhead' /\ KeptClaimIsExclusive'
  <2>1. CASE JobsProgress(t) \/ ManualStarts(t) \/ ManualCreatesJob(t) \/ EditReads(t)
    BY <1>3, <2>1 DEF JobsProgress, ManualStarts, ManualCreatesJob, EditReads
  <2>2. CASE EditWrites(t)
    <3>1. CASE draft.due = due[t]
      BY <1>3, <2>2, <3>1 DEF EditWrites, ExclusionInv, TypeOK
    <3>2. CASE draft.due # due[t]
      BY <1>2, <2>2, <3>2 DEF EditWrites, ExclusionInv, TypeOK
    <3>. QED
      BY <3>1, <3>2
  <2>. QED
    BY <1>4, <2>1, <2>2 DEF TargetStep
<1>5. ASSUME NEW p \in Projects, ProjectStep(p)
      PROVE  WorkIsMinutesApart' /\ ClaimsAreAhead' /\ KeptClaimIsExclusive'
  <2>1. CASE PauseDataSource(p) \/ Pause(p) \/ Resume(p) \/ ProjectChanges(p)
             \/ UpdateCrawlMode(p) \/ MarkDatasourcePending(p)
    BY <1>3, <2>1 DEF PauseDataSource, Pause, Resume, ProjectChanges, UpdateCrawlMode,
                      MarkDatasourcePending
  <2>2. CASE CancelProjectRuntime(p)
    BY <1>2, <2>2 DEF CancelProjectRuntime
  <2>. QED
    BY <1>5, <2>1, <2>2 DEF ProjectStep
<1>. QED
  BY <1>1, <1>4, <1>5

(* A heartbeat's work keeps the interval it was listed with.               *)
LEMMA TickStepsKeepWork ==
  ASSUME ExclusionInv, NEW h \in Ticks, TickStarts(h) \/ TickStep(h) \/ CrashTick(h)
  PROVE  WorkIsMinutesApart'
<1>. DEFINE Apart(r) == /\ \A w \in r.todo : w.every >= Unit
                        /\ r.pc \in {"valid"} \cup Holding => r.item.every >= Unit
<1>0. tick[h] \in TickState /\ Apart(tick[h])
  BY DEF ExclusionInv, TypeOK, WorkIsMinutesApart
<1>1. ASSUME NEW r, Apart(r), tick' = [tick EXCEPT ![h] = r]
      PROVE  WorkIsMinutesApart'
  BY <1>1 DEF WorkIsMinutesApart, ExclusionInv, TypeOK
<1>2. Apart(IdleTick) /\ Apart(Dropped(tick[h]))
  <2>1. Apart(IdleTick)
    BY DEF IdleTick, Holding
  <2>2. Dropped(tick[h]) = IdleTick \/ Dropped(tick[h]).todo = tick[h].todo
    BY <1>0 DEF Dropped, TickState
  <2>. QED
    BY <1>0, <2>1, <2>2, DroppedType DEF Holding
<1>3. CASE TickStarts(h)
  <2>1. ASSUME NEW r, r = [pc |-> "next", age |-> 0, todo |-> WorkList, item |-> None,
                           lost |-> FALSE]
        PROVE  Apart(r)
    BY <2>1, WorkListType DEF ExclusionInv, Holding
  <2>2. tick' = tick \/ tick' = [tick EXCEPT ![h] = [pc |-> "next", age |-> 0,
                                  todo |-> WorkList, item |-> None, lost |-> FALSE]]
    BY <1>3 DEF TickStarts
  <2>3. CASE tick' = tick
    BY <2>3 DEF WorkIsMinutesApart, ExclusionInv
  <2>. QED
    BY <1>1, <2>1, <2>2, <2>3
<1>4. CASE Validate(h)
  <2>1. PICK w \in tick[h].todo :
          tick' \in {[tick EXCEPT ![h] = [@ EXCEPT !.pc = "valid", !.todo = tick[h].todo \ {w},
                                                   !.item = w]],
                     [tick EXCEPT ![h] = IdleTick],
                     [tick EXCEPT ![h] = [@ EXCEPT !.todo = tick[h].todo \ {w}]]}
    BY <1>4 DEF Validate
  <2>2. Apart([tick[h] EXCEPT !.pc = "valid", !.todo = tick[h].todo \ {w}, !.item = w])
    BY <1>0 DEF TickState
  <2>3. tick[h].pc = "next"
    BY <1>4 DEF Validate
  <2>4. Apart([tick[h] EXCEPT !.todo = tick[h].todo \ {w}])
    BY <1>0, <2>3 DEF TickState, Holding
  <2>5. \/ tick' = [tick EXCEPT ![h] = [tick[h] EXCEPT !.pc = "valid",
                                          !.todo = tick[h].todo \ {w}, !.item = w]]
        \/ tick' = [tick EXCEPT ![h] = IdleTick]
        \/ tick' = [tick EXCEPT ![h] = [tick[h] EXCEPT !.todo = tick[h].todo \ {w}]]
    BY <2>1
  <2>. HIDE DEF Apart
  <2>. QED
    BY <1>1, <1>2, <2>2, <2>4, <2>5
<1>5. CASE ClaimTarget(h) \/ Revalidate(h) \/ CreateJob(h) \/ FanOut(h)
  <2>1. \/ tick' = [tick EXCEPT ![h] = Dropped(tick[h])]
        \/ tick[h].pc \in {"valid"} \cup Holding
             /\ \E pc \in Holding : tick' = [tick EXCEPT ![h].pc = pc]
    BY <1>5 DEF ClaimTarget, Revalidate, CreateJob, FanOut, Drop, Goto, Holding
  <2>2. ASSUME NEW pc \in Holding, tick[h].pc \in {"valid"} \cup Holding
        PROVE  Apart([tick[h] EXCEPT !.pc = pc])
    BY <1>0, <2>2 DEF TickState
  <2>. HIDE DEF Apart
  <2>. QED
    BY <1>1, <1>2, <2>1, <2>2
<1>6. CASE ReleaseClaimTarget(h)
  <2>1. CASE tick' = [LoseClaims({Target(h)}) EXCEPT ![h] = Dropped(tick[h])]
    <3>1. tick'[h] = Dropped(tick[h])
      BY <2>1, LoseClaimsType DEF ExclusionInv
    <3>2. ASSUME NEW g \in Ticks \ {h} PROVE Apart(tick'[g])
      BY <2>1, LoseClaimsType DEF ExclusionInv, WorkIsMinutesApart
    <3>. QED
      BY <1>2, <3>1, <3>2 DEF WorkIsMinutesApart
  <2>2. CASE tick' = [tick EXCEPT ![h] = Dropped(tick[h])]
    BY <1>1, <1>2, <2>2
  <2>. QED
    BY <1>6, <2>1, <2>2 DEF ReleaseClaimTarget, Drop
<1>7. CASE CrashTick(h)
  BY <1>1, <1>2, <1>7 DEF CrashTick
<1>. QED
  BY <1>3, <1>4, <1>5, <1>6, <1>7 DEF TickStep

LEMMA NextExclusion ==
  ASSUME ExclusionInv, [Next]_vars
  PROVE  ExclusionInv'
<1>1. TypeOK'
  BY NextTypeOK DEF ExclusionInv
<1>2. ASSUME NEW h \in Ticks, TickStarts(h) \/ TickStep(h) \/ CrashTick(h)
      PROVE  WorkIsMinutesApart' /\ ClaimsAreAhead' /\ KeptClaimIsExclusive'
  <2>1. WorkIsMinutesApart'
    BY <1>2, TickStepsKeepWork
  <2>2. CASE ClaimTarget(h)
    <3>1. tick[h].item \in Work
      BY <2>2 DEF ClaimTarget, ExclusionInv, TypeOK
    <3>. QED
      BY <1>1, <2>1, <2>2, <3>1, ClaimStep
  <2>3. CASE ~ClaimTarget(h)
    BY <1>1, <1>2, <2>1, <2>3, OtherTickSteps DEF TickStep
  <2>. QED
    BY <2>2, <2>3
<1>3. CASE UNCHANGED vars
  BY <1>3 DEF vars, ExclusionInv, TypeOK, WorkIsMinutesApart, ClaimsAreAhead,
              KeptClaimIsExclusive, Outlived, Holds, Target, rowVars, controlVars
<1>4. CASE Clock \/ (\E t \in Targets : TargetStep(t)) \/ (\E p \in Projects : ProjectStep(p))
  BY <1>1, <1>4, OtherSteps DEF ExclusionInv
<1>. QED
  BY <1>1, <1>2, <1>3, <1>4 DEF Next, ExclusionInv

(* A claim lasts the interval it was made for, however many heartbeats     *)
(* overlap and however long they take, however their steps interleave and  *)
(* wherever they fail: of two heartbeats at work on a target, one started  *)
(* at least that interval before the other, or a pause, an edit or a       *)
(* release overwrote next_crawl_at under one of them.                      *)
THEOREM ClaimsExclude == Spec => []KeptClaimIsExclusive
<1>1. ExclusionInv /\ [Next]_vars => ExclusionInv'
  BY NextExclusion
<1>2. ExclusionInv => KeptClaimIsExclusive
  BY DEF ExclusionInv
<1>. QED
  BY <1>1, <1>2, InitExclusion, PTL DEF Spec

(* A claim that nobody overwrote puts the next crawl the listed interval,  *)
(* which is at least a minute, after the start of the heartbeat.           *)
THEOREM ClaimsLookAhead == Spec => []ClaimsAreAhead
<1>1. ExclusionInv /\ [Next]_vars => ExclusionInv'
  BY NextExclusion
<1>2. ExclusionInv => ClaimsAreAhead
  BY DEF ExclusionInv
<1>. QED
  BY <1>1, <1>2, InitExclusion, PTL DEF Spec
-----------------------------------------------------------------------------
(* Claims are given back.                                                  *)

LEMMA InitGivenBack == Init => ClaimsAreGivenBack
  BY DEF Init, ClaimsAreGivenBack

(* What keeps ClaimsAreGivenBack for a target: nobody lets go of it, or it *)
(* is spent or due.                                                        *)
LEMMA StillGivenBack ==
  ASSUME TypeOK, ClaimsAreGivenBack,
         \A t \in Targets :
           \/ ~(due'[t] # None /\ due'[t] > 0)
           \/ t \in spent'
           \/ \E g \in Ticks : tick'[g].pc \in Holding /\ tick'[g].item.target = t
           \/ /\ due[t] # None /\ due[t] > 0
              /\ spent \subseteq spent'
              /\ \A g \in Ticks : tick[g].pc \in Holding /\ tick[g].item.target = t =>
                   tick'[g].pc \in Holding /\ tick'[g].item.target = t
  PROVE  ClaimsAreGivenBack'
<1>. SUFFICES ASSUME NEW t \in Targets, due'[t] # None, due'[t] > 0, ~Held(t)'
              PROVE  t \in spent'
  BY DEF ClaimsAreGivenBack
<1>1. ~ \E g \in Ticks : tick'[g].pc \in Holding /\ tick'[g].item.target = t
  BY DEF Held, Holds, Target
<1>2. CASE /\ due[t] # None /\ due[t] > 0
           /\ spent \subseteq spent'
           /\ \A g \in Ticks : tick[g].pc \in Holding /\ tick[g].item.target = t =>
                tick'[g].pc \in Holding /\ tick'[g].item.target = t
  <2>1. ~Held(t)
    BY <1>1, <1>2 DEF Held, Holds, Target
  <2>. QED
    BY <1>2, <2>1 DEF ClaimsAreGivenBack
<1>. QED
  BY <1>1, <1>2

LEMMA TickStepsGiveBack ==
  ASSUME TypeOK, ClaimsAreGivenBack, NEW h \in Ticks,
         TickStarts(h) \/ TickStep(h) \/ CrashTick(h)
  PROVE  ClaimsAreGivenBack'
<1>0. /\ DOMAIN tick = Ticks /\ tick[h] \in TickState
      /\ \A g \in Ticks \ {h} : \A r : [tick EXCEPT ![h] = r][g] = tick[g]
      /\ \A r : [tick EXCEPT ![h] = r][h] = r
  BY DEF TypeOK
<1>1. ASSUME UNCHANGED due, spent \subseteq spent',
             \A g \in Ticks \ {h} : tick'[g].pc = tick[g].pc /\ tick'[g].item = tick[g].item,
             \/ tick[h].pc \notin Holding
             \/ tick'[h].pc \in Holding /\ tick'[h].item = tick[h].item
             \/ tick[h].item.target \in spent'
      PROVE  ClaimsAreGivenBack'
  BY <1>1, StillGivenBack
<1>2. CASE TickStarts(h)
  BY <1>0, <1>1, <1>2 DEF TickStarts, Holding
<1>3. CASE Validate(h)
  <2>1. PICK r : tick' = [tick EXCEPT ![h] = r]
    BY <1>3 DEF Validate
  <2>. QED
    BY <1>0, <1>1, <1>3, <2>1 DEF Validate, Holding
<1>4. CASE ClaimTarget(h)
  <2>1. tick[h].pc = "valid" /\ tick[h].item \in Work /\ Target(h) \in Targets
    BY <1>4 DEF ClaimTarget, TypeOK, Target, Work
  <2>2. CASE Drop(h) /\ UNCHANGED <<due, spent>>
    BY <1>0, <1>1, <2>1, <2>2 DEF Drop, Holding
  <2>3. CASE /\ Goto(h, "claimed") /\ spent' = spent \ {Target(h)}
             /\ due' = [due EXCEPT ![Target(h)] = tick[h].item.every - tick[h].age]
    <3>1. tick' = [tick EXCEPT ![h] = [tick[h] EXCEPT !.pc = "claimed"]]
      BY <2>3 DEF Goto
    <3>2. tick'[h].pc \in Holding /\ tick'[h].item = tick[h].item
      BY <1>0, <3>1 DEF Holding, TickState
    <3>3. \A g \in Ticks \ {h} : tick'[g] = tick[g]
      BY <1>0, <3>1
    <3>4. \A t \in Targets \ {Target(h)} : due'[t] = due[t] /\ (t \in spent' <=> t \in spent)
      BY <2>3 DEF TypeOK
    <3>5. ASSUME NEW t \in Targets, due'[t] # None, due'[t] > 0, ~Held(t)'
          PROVE  t \in spent'
      <4>1. t # Target(h)
        BY <3>2, <3>5 DEF Held, Holds, Target
      <4>2. ~Held(t)
        BY <2>1, <3>3, <3>5 DEF Held, Holds, Target, Holding
      <4>. QED
        BY <3>4, <3>5, <4>1, <4>2 DEF ClaimsAreGivenBack
    <3>. QED
      BY <3>5 DEF ClaimsAreGivenBack
  <2>. QED
    BY <1>4, <2>2, <2>3 DEF ClaimTarget
<1>5. ASSUME NEW pc \in Holding, tick' = [tick EXCEPT ![h].pc = pc],
             UNCHANGED due, spent \subseteq spent'
      PROVE  ClaimsAreGivenBack'
  <2>1. tick' = [tick EXCEPT ![h] = [tick[h] EXCEPT !.pc = pc]]
    BY <1>5
  <2>2. tick'[h].pc \in Holding /\ tick'[h].item = tick[h].item
    BY <1>0, <2>1 DEF TickState
  <2>. QED
    BY <1>0, <1>1, <1>5, <2>1, <2>2
<1>6. ASSUME Drop(h), UNCHANGED due, spent' = spent \cup {Target(h)}
      PROVE  ClaimsAreGivenBack'
  BY <1>0, <1>1, <1>6 DEF Drop, Target
<1>7. CASE Revalidate(h)
  BY <1>5, <1>7 DEF Revalidate, Goto, Holding
<1>8. CASE CreateJob(h)
  BY <1>5, <1>6, <1>8 DEF CreateJob, Goto, Holding
<1>9. CASE FanOut(h)
  BY <1>5, <1>6, <1>9 DEF FanOut, Goto, Holding
<1>10. CASE ReleaseClaimTarget(h)
  <2>1. CASE /\ due' = [due EXCEPT ![Target(h)] = None] /\ UNCHANGED spent
             /\ tick' = [LoseClaims({Target(h)}) EXCEPT ![h] = Dropped(tick[h])]
    <3>1. due'[tick[h].item.target] = None \/ tick[h].item.target \notin Targets
      BY <2>1 DEF TypeOK, Target
    <3>2. \A g \in Ticks \ {h} : tick'[g].pc = tick[g].pc /\ tick'[g].item = tick[g].item
      BY <2>1, LoseClaimsType
    <3>3. \A t \in Targets : due'[t] # None => due'[t] = due[t]
      BY <2>1 DEF TypeOK
    <3>. QED
      BY <2>1, <3>1, <3>2, <3>3, StillGivenBack
  <2>2. CASE Drop(h) /\ UNCHANGED due /\ spent' = spent \cup {Target(h)}
    BY <1>6, <2>2
  <2>. QED
    BY <1>10, <2>1, <2>2 DEF ReleaseClaimTarget
<1>11. CASE CrashTick(h)
  <2>1. \A t \in Targets : tick[h].pc \in Holding /\ tick[h].item.target = t => t \in spent'
    BY <1>11 DEF CrashTick, Holds, Target
  <2>2. UNCHANGED due /\ spent \subseteq spent' /\ tick' = [tick EXCEPT ![h] = IdleTick]
    BY <1>11 DEF CrashTick
  <2>3. tick[h].pc \in Holding => tick[h].item.target \in Targets
    BY DEF TypeOK, Work
  <2>. QED
    BY <1>0, <1>1, <2>1, <2>2, <2>3
<1>. QED
  BY <1>2, <1>3, <1>4, <1>7, <1>8, <1>9, <1>10, <1>11 DEF TickStep

LEMMA NextGivenBack ==
  ASSUME TypeOK, ClaimsAreGivenBack, [Next]_vars
  PROVE  ClaimsAreGivenBack'
<1>. USE DEF rowVars, controlVars
<1>1. ASSUME UNCHANGED <<due, spent>>,
             \A g \in Ticks : tick'[g].pc = tick[g].pc /\ tick'[g].item = tick[g].item
      PROVE  ClaimsAreGivenBack'
  BY <1>1, StillGivenBack
<1>2. ASSUME NEW h \in Ticks, TickStarts(h) \/ TickStep(h) \/ CrashTick(h)
      PROVE  ClaimsAreGivenBack'
  BY <1>2, TickStepsGiveBack
<1>3. CASE Clock
  <2>1. \A g \in Ticks : tick'[g].pc = tick[g].pc /\ tick'[g].item = tick[g].item
    BY <1>3 DEF Clock, TypeOK, TickState
  <2>2. ASSUME NEW t \in Targets, due'[t] # None, due'[t] > 0
        PROVE  due[t] # None /\ due[t] > 0
    BY <1>3, <2>2 DEF Clock, Later, TypeOK
  <2>. QED
    BY <1>3, <2>1, <2>2, StillGivenBack DEF Clock
<1>4. ASSUME NEW t \in Targets, TargetStep(t) PROVE ClaimsAreGivenBack'
  <2>1. CASE JobsProgress(t) \/ ManualStarts(t) \/ ManualCreatesJob(t) \/ EditReads(t)
    BY <1>1, <2>1 DEF JobsProgress, ManualStarts, ManualCreatesJob, EditReads
  <2>2. CASE EditWrites(t)
    <3>1. \A g \in Ticks : tick'[g].pc = tick[g].pc /\ tick'[g].item = tick[g].item
      BY <2>2, LoseClaimsType DEF EditWrites
    <3>2. /\ spent \subseteq spent' /\ (draft.due # due[t] => t \in spent')
          /\ due' = [due EXCEPT ![t] = draft.due]
      BY <2>2 DEF EditWrites
    <3>3. \A u \in Targets : due'[u] = due[u] \/ u \in spent'
      BY <3>2 DEF TypeOK
    <3>. QED
      BY <3>1, <3>2, <3>3, StillGivenBack
  <2>. QED
    BY <1>4, <2>1, <2>2 DEF TargetStep
<1>5. ASSUME NEW p \in Projects, ProjectStep(p) PROVE ClaimsAreGivenBack'
  <2>1. CASE CancelProjectRuntime(p)
    <3>1. \A g \in Ticks : tick'[g].pc = tick[g].pc /\ tick'[g].item = tick[g].item
      BY <2>1, LoseClaimsType DEF CancelProjectRuntime
    <3>2. \A t \in Targets : due'[t] # None => due'[t] = due[t]
      BY <2>1 DEF CancelProjectRuntime
    <3>3. UNCHANGED spent
      BY <2>1 DEF CancelProjectRuntime
    <3>. QED
      BY <3>1, <3>2, <3>3, StillGivenBack
  <2>2. CASE PauseDataSource(p) \/ Pause(p) \/ Resume(p) \/ ProjectChanges(p)
             \/ UpdateCrawlMode(p) \/ MarkDatasourcePending(p)
    BY <1>1, <2>2 DEF PauseDataSource, Pause, Resume, ProjectChanges, UpdateCrawlMode,
                      MarkDatasourcePending
  <2>. QED
    BY <1>5, <2>1, <2>2 DEF ProjectStep
<1>6. CASE UNCHANGED vars
  BY <1>1, <1>6 DEF vars
<1>. QED
  BY <1>2, <1>3, <1>4, <1>5, <1>6 DEF Next

(* Every error path after a claim gives the claim back: a target put off   *)
(* to the future was dispatched, was edited, or lost its claim to a crash  *)
(* or to the failure of the release itself.                                *)
THEOREM ClaimsGivenBack == Spec => []ClaimsAreGivenBack
<1>1. TypeOK /\ ClaimsAreGivenBack /\ [Next]_vars => (TypeOK /\ ClaimsAreGivenBack)'
  BY NextTypeOK, NextGivenBack
<1>. QED
  BY <1>1, InitTypeOK, InitGivenBack, PTL DEF Spec
-----------------------------------------------------------------------------
(***************************************************************************)
(* The list is fair.                                                       *)
(***************************************************************************)

(* The rank of an element is the number of those before it.  In a strict   *)
(* total order of a finite set, ranks grow along the order and take every  *)
(* value from 0, each once.                                                *)
IsOrder(R, S) ==
  /\ \A x \in S : <<x, x>> \notin R
  /\ \A x, y, z \in S : <<x, y>> \in R /\ <<y, z>> \in R => <<x, z>> \in R
  /\ \A x, y \in S : x # y => <<x, y>> \in R \/ <<y, x>> \in R

RankIn(R, S) == [x \in S |-> Cardinality({y \in S : <<y, x>> \in R})]

FollowsOrder(r, R, S) ==
  /\ r \in [S -> Nat]
  /\ \A x, y \in S : r[x] < r[y] <=> <<x, y>> \in R
  /\ \A k \in Nat : k < Cardinality(S) => \E x \in S : r[x] = k
  /\ \A k \in Nat : k <= Cardinality(S) => Cardinality({x \in S : r[x] < k}) = k

LEMMA Ranks ==
  ASSUME NEW S, IsFiniteSet(S), NEW R, IsOrder(R, S)
  PROVE  FollowsOrder(RankIn(R, S), R, S)
<1>. USE DEF IsOrder
<1>. DEFINE r == RankIn(R, S)
<1>. DEFINE B(x) == {y \in S : <<y, x>> \in R}
            n == Cardinality(S)
<1>1. n \in Nat
  BY FS_CardinalityType
<1>2. ASSUME NEW x \in S
      PROVE  IsFiniteSet(B(x)) /\ Cardinality(B(x)) \in Nat /\ Cardinality(B(x)) < n
  <2>1. B(x) \in SUBSET S /\ x \notin B(x)
    OBVIOUS
  <2>2. IsFiniteSet(B(x)) /\ Cardinality(B(x)) <= n /\ (n = Cardinality(B(x)) => S = B(x))
    BY <2>1, FS_Subset
  <2>. QED
    BY <1>1, <2>1, <2>2, FS_CardinalityType
<1>. HIDE DEF n
<1>3. r \in [S -> 0..(n - 1)] /\ \A x \in S : r[x] = Cardinality(B(x))
  <2>1. r = [x \in S |-> Cardinality(B(x))]
    BY DEF RankIn
  <2>. HIDE DEF r
  <2>2. \A x \in S : r[x] \in 0..(n - 1)
    <3>. HIDE DEF B
    <3>. QED
      BY <1>1, <1>2, <2>1
  <2>. QED
    BY <2>1, <2>2
<1>. HIDE DEF r
<1>4. ASSUME NEW x \in S, NEW y \in S, <<x, y>> \in R
      PROVE  r[x] < r[y]
  <2>1. B(x) \in SUBSET B(y) /\ x \in B(y) /\ x \notin B(x)
    BY <1>4
  <2>2. Cardinality(B(x)) <= Cardinality(B(y)) /\ Cardinality(B(x)) # Cardinality(B(y))
    <3>1. IsFiniteSet(B(y))
      BY <1>2
    <3>. HIDE DEF B
    <3>. QED
      BY <2>1, <3>1, FS_Subset
  <2>3. r[x] = Cardinality(B(x)) /\ r[y] = Cardinality(B(y))
    BY <1>3
  <2>4. Cardinality(B(x)) \in Nat /\ Cardinality(B(y)) \in Nat
    BY <1>2
  <2>. HIDE DEF B
  <2>. QED
    BY <2>2, <2>3, <2>4
<1>. DEFINE Less(x, y) == <<x, y>> \in R
<1>5. \A x, y \in S : r[x] < r[y] <=> <<x, y>> \in R
  <2>1. \A x \in S : r[x] \in Int
    BY <1>1, <1>3
  <2>2. \A x, y \in S : x # y => Less(x, y) \/ Less(y, x)
    OBVIOUS
  <2>3. \A x \in S : ~Less(x, x)
    OBVIOUS
  <2>4. \A x, y \in S : Less(x, y) => r[x] < r[y]
    BY <1>4
  <2>. HIDE DEF Less
  <2>5. ASSUME NEW x \in S, NEW y \in S
        PROVE  r[x] < r[y] <=> Less(x, y)
    <3>1. r[x] \in Int /\ r[y] \in Int
      BY <2>1
    <3>2. CASE x = y
      BY <2>3, <3>1, <3>2
    <3>3. CASE x # y
      <4>1. (Less(x, y) => r[x] < r[y]) /\ (Less(y, x) => r[y] < r[x])
        BY <2>4
      <4>2. Less(x, y) \/ Less(y, x)
        BY <2>2, <3>3
      <4>. QED
        BY <3>1, <4>1, <4>2
    <3>. QED
      BY <3>2, <3>3
  <2>. QED
    BY <2>5 DEF Less
<1>6. \A x, y \in S : r[x] = r[y] => x = y
  <2>1. \A x \in S : r[x] \in Int
    BY <1>1, <1>3
  <2>. QED
    BY <1>5, <2>1
<1>7. r \in Surjection(S, 0..(n - 1))
  <2>1. r \in Injection(S, 0..(n - 1))
    <3>1. r \in [S -> 0..(n - 1)] /\ \A a, b \in S : r[a] = r[b] => a = b
      BY <1>3, <1>6
    <3>. QED
      BY <3>1, Fun_IsInj
  <2>2. IsFiniteSet(0..(n - 1)) /\ Cardinality(0..(n - 1)) = n
    BY <1>1, FS_Interval
  <2>3. n = Cardinality(S)
    BY DEF n
  <2>. QED
    BY <2>1, <2>2, <2>3, FS_Injection
<1>8. ASSUME NEW k \in Nat, k < n
      PROVE  \E x \in S : r[x] = k
  BY <1>1, <1>7, <1>8 DEF Surjection
<1>9. ASSUME NEW k \in Nat, k <= n
      PROVE  Cardinality({x \in S : r[x] < k}) = k
  <2>. DEFINE T == {x \in S : r[x] < k}
              f == [x \in T |-> r[x]]
  <2>1. f \in [T -> 0..(k - 1)]
    BY <1>3
  <2>2. f \in Injection(T, 0..(k - 1))
    <3>1. \A a, b \in T : f[a] = f[b] => a = b
      BY <1>6
    <3>. HIDE DEF T, f
    <3>. QED
      BY <2>1, <3>1, Fun_IsInj
  <2>3. \A i \in 0..(k - 1) : \E x \in T : f[x] = i
    <3>1. ASSUME NEW i \in 0..(k - 1)
          PROVE  \E x \in T : f[x] = i
      <4>1. i \in Nat /\ i < n /\ i < k
        BY <1>1, <1>9
      <4>2. PICK x \in S : r[x] = i
        BY <1>8, <4>1
      <4>. QED
        BY <4>1, <4>2
    <3>. QED
      BY <3>1
  <2>4. f \in Surjection(T, 0..(k - 1))
    BY <2>1, <2>3 DEF Surjection
  <2>5. IsFiniteSet(0..(k - 1)) /\ Cardinality(0..(k - 1)) = k
    BY FS_Interval
  <2>. HIDE DEF T, f
  <2>6. Cardinality(T) = Cardinality(0..(k - 1))
    BY <2>2, <2>4, <2>5, FS_Injection
  <2>. QED
    BY <2>5, <2>6 DEF T
<1>10. r \in [S -> Nat]
  BY <1>1, <1>3
<1>. QED
  BY <1>5, <1>8, <1>9, <1>10 DEF n, r, FollowsOrder

(* The ranks are orders: no two projects have the same id, and ROW_NUMBER  *)
(* gives no two targets of a project the same number, TargetRank being how *)
(* the database breaks the ties of priority and created_at.                *)
RanksAreOrders ==
  /\ \A t, u \in Targets :
       ProjectOf[t] = ProjectOf[u] /\ TargetRank[t] = TargetRank[u] => t = u
  /\ \A p, q \in Projects : ProjectRank[p] = ProjectRank[q] => p = q

DueOf(p) == {t \in DueTargets : ProjectOf[t] = p}

LEMMA DueIsFinite == IsFiniteSet(DueTargets) /\ \A p : IsFiniteSet(DueOf(p))
<1>1. IsFiniteSet(DueTargets)
  BY FS_Subset DEF DueTargets
<1>2. \A p : DueOf(p) \in SUBSET DueTargets
  BY DEF DueOf
<1>. QED
  BY <1>1, <1>2, FS_Subset

(* The ORDER BY of the window is a strict total order on the targets of a  *)
(* project.                                                                *)
LEMMA WindowOrder ==
  ASSUME TypeOK, RanksAreOrders
  PROVE  /\ \A t \in Targets : ~Before(t, t)
         /\ \A t, u, v \in Targets : Before(t, u) /\ Before(u, v) => Before(t, v)
         /\ \A t, u \in Targets :
              ProjectOf[t] = ProjectOf[u] /\ t # u => Before(t, u) \/ Before(u, t)
<1>1. \A t \in Targets : /\ due[t] # None => due[t] \in Int
                         /\ TargetRank[t] \in Nat
  BY DEF TypeOK
<1>2. ASSUME NEW t \in Targets PROVE ~Before(t, t)
  BY <1>1 DEF Before
<1>3. ASSUME NEW t \in Targets, NEW u \in Targets, NEW v \in Targets,
             Before(t, u), Before(u, v)
      PROVE  Before(t, v)
  BY <1>1, <1>3 DEF Before
<1>4. ASSUME NEW t \in Targets, NEW u \in Targets, ProjectOf[t] = ProjectOf[u], t # u
      PROVE  Before(t, u) \/ Before(u, t)
  <2>1. TargetRank[t] # TargetRank[u]
    BY <1>4 DEF RanksAreOrders
  <2>. QED
    BY <1>1, <2>1 DEF Before
<1>. QED
  BY <1>2, <1>3, <1>4

(* ROW_NUMBER numbers the due targets of a project from 0 in the order of  *)
(* the window.                                                             *)
LEMMA RowNumbers ==
  ASSUME TypeOK, RanksAreOrders, NEW p \in Projects
  PROVE  /\ \A t \in DueOf(p) : RowNumber(t) \in Nat
         /\ \A t, u \in DueOf(p) : RowNumber(t) < RowNumber(u) <=> Before(t, u)
         /\ \A k \in Nat : k < Cardinality(DueOf(p)) => \E t \in DueOf(p) : RowNumber(t) = k
         /\ \A k \in Nat : k <= Cardinality(DueOf(p)) =>
              Cardinality({t \in DueOf(p) : RowNumber(t) < k}) = k
<1>. DEFINE S == DueOf(p)
            R == {x \in S \X S : Before(x[1], x[2])}
            r == RankIn(R, S)
<1>1. S \subseteq Targets /\ \A t, u \in S : ProjectOf[t] = ProjectOf[u]
  BY DEF DueOf, DueTargets
<1>2. \A t, u \in S : <<t, u>> \in R <=> Before(t, u)
  <2>. HIDE DEF S
  <2>. QED
    OBVIOUS
<1>3. ASSUME NEW t \in S PROVE r[t] = RowNumber(t)
  <2>1. Partition(t) = S
    BY <1>3 DEF Partition, DueOf
  <2>2. {u \in S : <<u, t>> \in R} = {u \in Partition(t) : Before(u, t)}
    <3>. HIDE DEF S, R
    <3>. QED
      BY <1>2, <1>3, <2>1
  <2>3. r[t] = Cardinality({u \in S : <<u, t>> \in R})
    BY <1>3 DEF RankIn
  <2>. HIDE DEF S, R, r
  <2>. QED
    BY <2>2, <2>3 DEF RowNumber
<1>4. IsFiniteSet(S)
  BY DueIsFinite
<1>. HIDE DEF S, R
<1>5. \A x \in S : <<x, x>> \notin R
  BY <1>1, <1>2, WindowOrder
<1>6. \A x, y, z \in S : <<x, y>> \in R /\ <<y, z>> \in R => <<x, z>> \in R
  <2>. SUFFICES ASSUME NEW x \in S, NEW y \in S, NEW z \in S,
                       <<x, y>> \in R, <<y, z>> \in R
                PROVE  <<x, z>> \in R
    OBVIOUS
  <2>1. Before(x, y) /\ Before(y, z)
    BY <1>2
  <2>2. Before(x, z)
    BY <1>1, <2>1, WindowOrder
  <2>. QED
    BY <1>2, <2>2
<1>7. \A x, y \in S : x # y => <<x, y>> \in R \/ <<y, x>> \in R
  <2>. SUFFICES ASSUME NEW x \in S, NEW y \in S, x # y
                PROVE  <<x, y>> \in R \/ <<y, x>> \in R
    OBVIOUS
  <2>1. Before(x, y) \/ Before(y, x)
    BY <1>1, WindowOrder
  <2>. QED
    BY <1>2, <2>1
<1>8. FollowsOrder(r, R, S)
  BY <1>4, <1>5, <1>6, <1>7, Ranks DEF IsOrder
<1>. HIDE DEF r
<1>9. /\ r \in [S -> Nat]
      /\ \A x, y \in S : r[x] < r[y] <=> <<x, y>> \in R
      /\ \A k \in Nat : k < Cardinality(S) => \E x \in S : r[x] = k
      /\ \A k \in Nat : k <= Cardinality(S) => Cardinality({x \in S : r[x] < k}) = k
  BY <1>8 DEF FollowsOrder
<1>10. \A t \in S : RowNumber(t) \in Nat
  BY <1>3, <1>9
<1>11. ASSUME NEW t \in S, NEW u \in S
       PROVE  RowNumber(t) < RowNumber(u) <=> Before(t, u)
  <2>1. r[t] < r[u] <=> <<t, u>> \in R
    BY <1>9
  <2>2. r[t] = RowNumber(t) /\ r[u] = RowNumber(u)
    BY <1>3
  <2>. QED
    BY <1>2, <2>1, <2>2
<1>12. \A k \in Nat : {t \in S : RowNumber(t) < k} = {x \in S : r[x] < k}
  BY <1>3
<1>13. \A k \in Nat : k < Cardinality(S) => \E t \in S : RowNumber(t) = k
  BY <1>3, <1>9
<1>14. \A k \in Nat : k <= Cardinality(S) => Cardinality({t \in S : RowNumber(t) < k}) = k
  BY <1>9, <1>12
<1>. QED
  BY <1>10, <1>11, <1>13, <1>14 DEF S

(* The order of the list: by row number, then by project.                  *)
Ahead(u, t) ==
  \/ RowNumber(u) < RowNumber(t)
  \/ RowNumber(u) = RowNumber(t) /\ ProjectRank[ProjectOf[u]] < ProjectRank[ProjectOf[t]]

LEMMA ListOrder ==
  ASSUME TypeOK, RanksAreOrders
  PROVE  /\ \A t \in DueTargets : RowNumber(t) \in Nat
         /\ \A t \in DueTargets : ~Ahead(t, t)
         /\ \A t, u, v \in DueTargets : Ahead(t, u) /\ Ahead(u, v) => Ahead(t, v)
         /\ \A t, u \in DueTargets : t # u => Ahead(t, u) \/ Ahead(u, t)
<1>1. \A t \in DueTargets : t \in Targets /\ ProjectOf[t] \in Projects /\ t \in DueOf(ProjectOf[t])
  BY DEF DueOf, DueTargets
<1>2. \A t \in DueTargets : /\ RowNumber(t) \in Nat
                            /\ ProjectRank[ProjectOf[t]] \in Nat
  BY <1>1, RowNumbers
<1>3. \A t \in DueTargets : ~Ahead(t, t)
  BY <1>2 DEF Ahead
<1>4. ASSUME NEW t \in DueTargets, NEW u \in DueTargets, NEW v \in DueTargets,
             Ahead(t, u), Ahead(u, v)
      PROVE  Ahead(t, v)
  BY <1>2, <1>4 DEF Ahead
<1>5. ASSUME NEW t \in DueTargets, NEW u \in DueTargets, t # u
      PROVE  Ahead(t, u) \/ Ahead(u, t)
  <2>1. CASE ProjectOf[t] = ProjectOf[u]
    <3>1. Before(t, u) \/ Before(u, t)
      BY <1>1, <1>5, <2>1, WindowOrder
    <3>2. t \in DueOf(ProjectOf[t]) /\ u \in DueOf(ProjectOf[t]) /\ ProjectOf[t] \in Projects
      BY <1>1, <2>1
    <3>3. RowNumber(t) < RowNumber(u) \/ RowNumber(u) < RowNumber(t)
      BY <3>1, <3>2, RowNumbers
    <3>. QED
      BY <3>3 DEF Ahead
  <2>2. CASE ProjectOf[t] # ProjectOf[u]
    <3>1. ProjectRank[ProjectOf[t]] # ProjectRank[ProjectOf[u]]
      BY <1>1, <2>2 DEF RanksAreOrders
    <3>. QED
      BY <1>2, <3>1 DEF Ahead
  <2>. QED
    BY <2>1, <2>2
<1>. QED
  BY <1>2, <1>3, <1>4, <1>5

(* The positions in the list follow its order, and none is left out: the   *)
(* list is full when a due target is not on it.                            *)
LEMMA Positions ==
  ASSUME TypeOK, RanksAreOrders
  PROVE  /\ \A t \in DueTargets : Position(t) \in Nat
         /\ \A t, u \in DueTargets : Position(t) < Position(u) <=> Ahead(t, u)
         /\ \A t \in DueTargets \ Listed : Cardinality(Listed) = Limit
<1>. DEFINE S == DueTargets
            R == {x \in S \X S : Ahead(x[1], x[2])}
            r == RankIn(R, S)
<1>1. \A t, u \in S : <<t, u>> \in R <=> Ahead(t, u)
  <2>. HIDE DEF S
  <2>. QED
    OBVIOUS
<1>2. ASSUME NEW t \in S PROVE r[t] = Position(t)
  <2>1. {u \in S : <<u, t>> \in R} = {u \in S : Ahead(u, t)}
    <3>. HIDE DEF S, R
    <3>. QED
      BY <1>1, <1>2
  <2>2. Position(t) = Cardinality({u \in S : Ahead(u, t)})
    BY DEF Position, Ahead
  <2>3. r[t] = Cardinality({u \in S : <<u, t>> \in R})
    BY <1>2 DEF RankIn
  <2>. HIDE DEF S, R, r
  <2>. QED
    BY <2>1, <2>2, <2>3
<1>3. IsFiniteSet(S)
  BY DueIsFinite
<1>4. /\ \A t \in S : ~Ahead(t, t)
      /\ \A t, u, v \in S : Ahead(t, u) /\ Ahead(u, v) => Ahead(t, v)
      /\ \A t, u \in S : t # u => Ahead(t, u) \/ Ahead(u, t)
  BY ListOrder
<1>. HIDE DEF S, R
<1>5. \A x \in S : <<x, x>> \notin R
  BY <1>1, <1>4
<1>6. \A x, y, z \in S : <<x, y>> \in R /\ <<y, z>> \in R => <<x, z>> \in R
  <2>. SUFFICES ASSUME NEW x \in S, NEW y \in S, NEW z \in S,
                       <<x, y>> \in R, <<y, z>> \in R
                PROVE  <<x, z>> \in R
    OBVIOUS
  <2>1. Ahead(x, y) /\ Ahead(y, z)
    BY <1>1
  <2>2. Ahead(x, z)
    BY <1>4, <2>1
  <2>. QED
    BY <1>1, <2>2
<1>7. \A x, y \in S : x # y => <<x, y>> \in R \/ <<y, x>> \in R
  <2>. SUFFICES ASSUME NEW x \in S, NEW y \in S, x # y
                PROVE  <<x, y>> \in R \/ <<y, x>> \in R
    OBVIOUS
  <2>1. Ahead(x, y) \/ Ahead(y, x)
    BY <1>4
  <2>. QED
    BY <1>1, <2>1
<1>8. FollowsOrder(r, R, S)
  BY <1>3, <1>5, <1>6, <1>7, Ranks DEF IsOrder
<1>. HIDE DEF r
<1>9. /\ r \in [S -> Nat]
      /\ \A x, y \in S : r[x] < r[y] <=> <<x, y>> \in R
      /\ \A k \in Nat : k < Cardinality(S) => \E x \in S : r[x] = k
      /\ \A k \in Nat : k <= Cardinality(S) => Cardinality({x \in S : r[x] < k}) = k
  BY <1>8 DEF FollowsOrder
<1>10. \A t \in S : Position(t) \in Nat
  BY <1>2, <1>9
<1>11. ASSUME NEW t \in S, NEW u \in S
       PROVE  Position(t) < Position(u) <=> Ahead(t, u)
  <2>1. r[t] < r[u] <=> <<t, u>> \in R
    BY <1>9
  <2>2. r[t] = Position(t) /\ r[u] = Position(u)
    BY <1>2
  <2>. QED
    BY <1>1, <2>1, <2>2
<1>12. ASSUME NEW t \in S \ Listed PROVE Cardinality(Listed) = Limit
  <2>1. Listed = {u \in S : r[u] < Limit}
    BY <1>2 DEF Listed, S
  <2>2. r[t] \in Nat /\ r[t] >= Limit
    BY <1>9, <2>1
  <2>3. Cardinality(S) \in Nat
    BY <1>3, FS_CardinalityType
  <2>4. Limit <= Cardinality(S)
    <3>. SUFFICES ASSUME Cardinality(S) < Limit PROVE FALSE
      BY <2>3
    <3>1. Cardinality({x \in S : r[x] < Cardinality(S)}) = Cardinality(S)
      BY <1>9, <2>3
    <3>2. {x \in S : r[x] < Cardinality(S)} \in SUBSET S
      OBVIOUS
    <3>3. {x \in S : r[x] < Cardinality(S)} = S
      BY <1>3, <3>1, <3>2, FS_Subset
    <3>4. r[t] < Cardinality(S)
      BY <3>3
    <3>. QED
      BY <2>2, <2>3, <3>4
  <2>. QED
    BY <1>9, <2>1, <2>4
<1>. QED
  BY <1>10, <1>11, <1>12 DEF S

(* Among the first k rows of a project there are at most k targets.        *)
LEMMA FirstRows ==
  ASSUME TypeOK, RanksAreOrders, NEW p \in Projects, NEW k \in Nat,
         NEW M \in SUBSET {u \in DueOf(p) : RowNumber(u) < k}
  PROVE  Cardinality(M) \in Nat /\ Cardinality(M) <= k
<1>. DEFINE first == {u \in DueOf(p) : RowNumber(u) < k}
            n == Cardinality(DueOf(p))
<1>1. IsFiniteSet(DueOf(p)) /\ first \in SUBSET DueOf(p)
  BY DueIsFinite
<1>2. IsFiniteSet(first) /\ Cardinality(first) <= n
  BY <1>1, FS_Subset
<1>3. Cardinality(M) <= Cardinality(first) /\ IsFiniteSet(M)
  BY <1>2, FS_Subset
<1>4. n \in Nat /\ Cardinality(first) \in Nat /\ Cardinality(M) \in Nat
  BY <1>1, <1>2, <1>3, FS_CardinalityType
<1>5. k <= n => Cardinality(first) = k
  BY RowNumbers
<1>. HIDE DEF first, n
<1>. QED
  BY <1>2, <1>3, <1>4, <1>5

(* In every state of the right type the list is fair.  The project of a    *)
(* target that was left out has m places: one of its first m + 1 rows is   *)
(* not listed, and no listed row of any project comes after that one.      *)
LEMMA Fair ==
  ASSUME TypeOK, RanksAreOrders
  PROVE  ListIsFair
<1>. SUFFICES ASSUME NEW t \in DueTargets \ Listed
              PROVE  /\ Cardinality(Listed) = Limit
                     /\ \A p \in Projects :
                          Cardinality({u \in Listed : ProjectOf[u] = p})
                            <= Cardinality({u \in Listed : ProjectOf[u] = ProjectOf[t]}) + 1
                     /\ \A u \in {u \in Listed : ProjectOf[u] = ProjectOf[t]} : Before(u, t)
  BY DEF ListIsFair
<1>. DEFINE mine(p) == {u \in Listed : ProjectOf[u] = p}
            q == ProjectOf[t]
            m == Cardinality(mine(q))
<1>1. t \in DueOf(q) /\ q \in Projects /\ t \notin Listed
  BY DEF DueOf, DueTargets
<1>2. \A p \in Projects : mine(p) \subseteq DueOf(p)
  BY DEF DueOf, Listed
<1>3. ASSUME NEW u \in Listed, NEW v \in DueTargets \ Listed
      PROVE  Ahead(u, v)
  <2>1. u \in DueTargets /\ Position(u) < Limit /\ ~(Position(v) < Limit)
    BY <1>3 DEF Listed
  <2>2. Position(u) \in Nat /\ Position(v) \in Nat
    BY <2>1, Positions
  <2>3. Position(u) < Position(v)
    BY <2>1, <2>2
  <2>. QED
    BY <2>1, <2>3, Positions
<1>. HIDE DEF q
<1>4. ASSUME NEW u \in mine(q) PROVE Before(u, t)
  <2>1. u \in DueOf(q) /\ u \in Listed /\ ProjectOf[u] = q /\ ProjectOf[t] = q
    BY <1>1, <1>2 DEF q
  <2>2. Ahead(u, t) /\ ProjectRank[q] \in Nat
    BY <1>1, <1>3, <2>1
  <2>3. RowNumber(u) < RowNumber(t)
    BY <2>1, <2>2 DEF Ahead
  <2>. QED
    BY <1>1, <2>1, <2>3, RowNumbers
<1>5. m \in Nat /\ IsFiniteSet(DueOf(q)) /\ mine(q) \in SUBSET DueOf(q)
  <2>1. IsFiniteSet(DueOf(q)) /\ mine(q) \in SUBSET DueOf(q)
    BY <1>1, <1>2, DueIsFinite
  <2>2. IsFiniteSet(mine(q))
    BY <2>1, FS_Subset
  <2>. QED
    BY <2>1, <2>2, FS_CardinalityType
<1>. HIDE DEF mine, m
<1>6. PICK v \in DueOf(q) : v \notin Listed /\ RowNumber(v) <= m
  <2>. SUFFICES ASSUME \A v \in DueOf(q) : RowNumber(v) <= m => v \in Listed
                PROVE  FALSE
    OBVIOUS
  <2>. DEFINE n == Cardinality(DueOf(q))
              first == {v \in DueOf(q) : RowNumber(v) < m + 1}
  <2>1. n \in Nat
    BY <1>5, FS_CardinalityType
  <2>2. CASE m + 1 <= n
    <3>1. Cardinality(first) = m + 1
      BY <1>1, <1>5, <2>2, RowNumbers
    <3>2. \A v \in first : RowNumber(v) <= m
      BY <1>1, <1>5, RowNumbers
    <3>3. first \in SUBSET mine(q)
      BY <3>2 DEF mine, DueOf
    <3>4. IsFiniteSet(mine(q))
      BY <1>5, FS_Subset
    <3>. HIDE DEF first
    <3>5. Cardinality(first) <= m
      BY <3>3, <3>4, FS_Subset DEF m
    <3>. QED
      BY <1>5, <3>1, <3>5
  <2>3. CASE n < m + 1
    <3>1. m <= n /\ (n = m => DueOf(q) = mine(q))
      BY <1>5, FS_Subset DEF m
    <3>2. t \in mine(q)
      BY <1>1, <1>5, <2>1, <2>3, <3>1
    <3>. QED
      BY <1>1, <3>2 DEF mine
  <2>. QED
    BY <1>5, <2>1, <2>2, <2>3
<1>7. ASSUME NEW p \in Projects PROVE Cardinality(mine(p)) <= m + 1
  <2>1. ASSUME NEW u \in mine(p) PROVE u \in DueOf(p) /\ RowNumber(u) < m + 1
    <3>1. u \in DueOf(p) /\ u \in Listed
      BY <1>2 DEF mine
    <3>2. v \in DueTargets \ Listed /\ u \in DueTargets
      BY <1>6, <3>1 DEF DueOf
    <3>3. RowNumber(u) \in Nat /\ RowNumber(v) \in Nat
      BY <3>2, ListOrder
    <3>4. RowNumber(u) <= RowNumber(v)
      BY <1>3, <3>1, <3>2, <3>3 DEF Ahead
    <3>. QED
      BY <1>5, <1>6, <3>1, <3>3, <3>4
  <2>2. mine(p) \in SUBSET {u \in DueOf(p) : RowNumber(u) < m + 1}
    BY <2>1
  <2>. QED
    BY <1>5, <2>2, FirstRows
<1>8. Cardinality(Listed) = Limit
  BY Positions
<1>. QED
  BY <1>4, <1>7, <1>8 DEF mine, m, q

(* ListDueTargets is fair at every moment of every run: whatever the       *)
(* targets, the projects and the limit.                                    *)
THEOREM ListsAreFair ==
  ASSUME RanksAreOrders
  PROVE  Spec => []ListIsFair
<1>1. TypeOK => ListIsFair
  BY Fair
<1>. QED
  BY <1>1, TypeCorrect, PTL
=============================================================================
