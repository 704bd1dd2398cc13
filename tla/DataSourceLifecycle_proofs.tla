-------------------- MODULE DataSourceLifecycle_proofs --------------------
(***************************************************************************)
(* Proofs about the control plane and the dry runs of one source, for any  *)
(* number of targets, dry runs, requests and consumers, and any faults.    *)
(***************************************************************************)
EXTENDS DataSourceLifecycle, SequenceTheorems, TLAPS

-----------------------------------------------------------------------------
(***************************************************************************)
(* What handlers look like.                                                *)
(***************************************************************************)
(* The columns a handler sets: of the types of their columns, and with a   *)
(* status of which paused_at is an attribute, or neither of the two.       *)
Typed(set) ==
  /\ DOMAIN set \subseteq {"status", "dry", "last", "mode", "deleted", "paused"}
  /\ "status" \in DOMAIN set => set["status"] \in SourceStatus
  /\ "dry" \in DOMAIN set => set["dry"] \in DryrunStatus
  /\ "last" \in DOMAIN set => set["last"] \in Runs \cup {None}
  /\ "mode" \in DOMAIN set => set["mode"] \in Modes
  /\ "deleted" \in DOMAIN set => set["deleted"] \in BOOLEAN
  /\ "paused" \in DOMAIN set => set["paused"] \in BOOLEAN

Coherent(set) ==
  IF "status" \in DOMAIN set
  THEN \/ set["status"] \notin {"ACTIVE", "PAUSED"}
       \/ "paused" \in DOMAIN set /\ set["paused"] = (set["status"] = "PAUSED")
  ELSE "paused" \notin DOMAIN set

Sound(set) == Typed(set) /\ Coherent(set)

TargetColumns(set) ==
  /\ DOMAIN set \subseteq {"made", "active", "flushed"}
  /\ "made" \in DOMAIN set => set["made"] \in BOOLEAN
  /\ "active" \in DOMAIN set => set["active"] \in BOOLEAN
  /\ "flushed" \in DOMAIN set => set["flushed"] \in BOOLEAN

(* The steps that write one row.                                           *)
RowStep(s) ==
  \/ s.do = "source" /\ Sound(s.set)
  \/ s.do = "target" /\ TargetColumns(s.set)

PlainStep(s) ==
  \/ RowStep(s)
  \/ s.do \in {"columns", "bulk"} /\ Sound(s.set)
  \/ s.do = "audit" /\ s.mode \in Modes
  \/ s.do \in {"create", "demote"}

CompleteStep(s) == s.do = "complete" /\ s.verdict \in {"SUCCESS", "FAILED"}

One(q) == Len(q) = 1 /\ q = <<q[1]>>
Two(q) == Len(q) = 2 /\ q = <<q[1], q[2]>>
Three(q) == Len(q) = 3 /\ q = <<q[1], q[2], q[3]>>

(* The todo lists of a request, of a Trigger before and after its insert,  *)
(* and of a completion, with and without the transaction to come.          *)
Editing(q) ==
  \/ One(q) /\ PlainStep(q[1])
  \/ Two(q) /\ PlainStep(q[1]) /\ PlainStep(q[2])

Triggering(q) ==
  \/ q = <<Call("running"), Call("publish")>>
  \/ Two(q) /\ RowStep(q[1]) /\ q[1].do = "source" /\ q[2] = Call("publish")
  \/ q = <<Call("publish")>>
  \/ q = <<Complete("FAILED")>>

Completing(q) == Two(q) /\ CompleteStep(q[1]) /\ q[2] = Call("ack")

Acking(q) ==
  \/ q = <<Call("ack")>>
  \/ Two(q) /\ RowStep(q[1]) /\ q[2] = Call("ack")
  \/ Three(q) /\ RowStep(q[1]) /\ RowStep(q[2]) /\ q[3] = Call("ack")

Plan(p) ==
  \/ p = Idle
  \/ /\ p.op \in Controls \ {"Trigger"} /\ p.target \in Targets \cup {None}
     /\ p.run = None /\ p.answer = None /\ Editing(p.todo)
  \/ /\ p.op = "Trigger" /\ p.op \in Controls /\ p.target \in Targets /\ p.answer = None
     /\ \/ p.run = None /\ p.todo = <<Call("insert"), Call("running"), Call("publish")>>
        \/ p.run \in Runs /\ Triggering(p.todo)
  \/ /\ p.op = "completion" /\ p.target \in Targets \cup {None}
     /\ p.run \in Runs /\ p.answer \in Completion /\ p.answer.run = p.run
     /\ Completing(p.todo) \/ Acking(p.todo)

(* The row a handler has found is one of the table its next step writes.   *)
FoundRow(p) ==
  \/ p.row = None
  \/ /\ p.todo # <<>>
     /\ \/ p.todo[1].do \in {"source", "complete"} /\ p.row \in Source
        \/ p.todo[1].do = "target" /\ p.row \in Target

Fields(p) ==
  /\ DOMAIN p = {"op", "target", "run", "todo", "row", "stale", "answer"}
  /\ p = [f \in DOMAIN p |-> p[f]]

(* A step on a target's row is about a target.                             *)
HasTarget(p) == p.target = None => \A i \in 1 .. Len(p.todo) : p.todo[i].do \notin {"target", "create"}

Shape(p) == Fields(p) /\ Plan(p) /\ FoundRow(p) /\ HasTarget(p) /\ p.stale \in BOOLEAN

-----------------------------------------------------------------------------
(***************************************************************************)
(* The inductive invariant.                                                *)
(***************************************************************************)
Rows ==
  /\ source \in Source /\ target \in [Targets -> Target]
  /\ result \in [Runs -> Result] /\ audited \in Modes
  /\ crawler \in [Runs -> 0 .. MaxAnswers] /\ answers \subseteq Completion
  /\ torn \in BOOLEAN /\ abandoned \subseteq Runs /\ disputed \subseteq Runs

Handlers ==
  /\ work = [w \in Workers |-> work[w]]
  /\ \A w \in Workers : Shape(work[w]) /\ (work[w].op = "completion" => w \in Consumers)

(* A consumer that does not complete its dry run has seen it completed.    *)
Settled ==
  \A w \in Workers : work[w].op = "completion" =>
    \/ CompleteStep(work[w].todo[1])
    \/ Terminal(result[work[w].run].status)

(* What is on its way about a dry run is about one that exists.            *)
Exists(r) == result[r].status # "ABSENT"
Known ==
  /\ \A r \in Runs : Exists(r) => result[r].target \in Targets
  /\ \A r \in Runs : crawler[r] > 0 => Exists(r)
  /\ \A m \in answers : Exists(m.run)
  /\ \A w \in Workers : work[w].run # None => Exists(work[w].run)

(* The source, and each row read of it, agree with paused_at until the     *)
(* first dry run has ended.                                                *)
Agrees(row) ==
  /\ row.status = "ACTIVE" => ~row.paused
  /\ row.status = "PAUSED" => row.paused
NoneEnded == \A r \in Runs : ~Terminal(result[r].status)
PausedRows ==
  NoneEnded =>
    /\ Agrees(source)
    /\ \A w \in Workers : work[w].row # None /\ Doing(w, "source") => Agrees(work[w].row)

(* Until its publish a Trigger has its dry run for itself, and a consumer  *)
(* that is to complete a dry run finds it running and is the only one.     *)
Alone(w) ==
  work[w].op = "Trigger" /\ work[w].run \in Runs \ disputed =>
    /\ result[work[w].run].status = "RUNNING"
    /\ crawler[work[w].run] = 0
    /\ \A m \in answers : m.run # work[w].run
    /\ \A v \in Workers \ {w} : work[v].run # work[w].run
Completes(w) == work[w].op = "completion" /\ CompleteStep(work[w].todo[1])
Decides(w) ==
  Completes(w) /\ work[w].run \notin disputed =>
    /\ ~ Terminal(result[work[w].run].status)
    /\ \A v \in Workers \ {w} : Completes(v) => work[v].run # work[w].run
Claims == \A w \in Workers : Alone(w) /\ Decides(w)

(* Where MaxAnswers is 0 nobody answers a dry run that is published.       *)
Waited == MaxAnswers > 0 => RunningIsWaitedFor

IInv == Rows /\ Handlers /\ Settled /\ Known /\ PausedRows /\ Waited /\ Claims

-----------------------------------------------------------------------------
(***************************************************************************)
(* Lists of one, two and three steps.                                      *)
(***************************************************************************)
LEMMA OneStep ==
  ASSUME NEW a
  PROVE  /\ Head(<<a>>) = a /\ Tail(<<a>>) = <<>> /\ <<a>>[1] = a
         /\ Len(<<a>>) = 1 /\ <<a>> # <<>> /\ One(<<a>>)
BY DEF One

LEMMA TwoSteps ==
  ASSUME NEW a, NEW b
  PROVE  /\ Head(<<a, b>>) = a /\ Tail(<<a, b>>) = <<b>>
         /\ <<a, b>>[1] = a /\ <<a, b>>[2] = b
         /\ Len(<<a, b>>) = 2 /\ <<a, b>> # <<>> /\ Two(<<a, b>>)
BY DEF Two

LEMMA ThreeSteps ==
  ASSUME NEW a, NEW b, NEW c
  PROVE  /\ Head(<<a, b, c>>) = a /\ Tail(<<a, b, c>>) = <<b, c>>
         /\ <<a, b, c>>[1] = a /\ <<a, b, c>>[2] = b /\ <<a, b, c>>[3] = c
         /\ Len(<<a, b, c>>) = 3 /\ <<a, b, c>> # <<>> /\ Three(<<a, b, c>>)
BY DEF Three

LEMMA Tails ==
  ASSUME NEW q
  PROVE  /\ One(q) => Tail(q) = <<>>
         /\ Two(q) => Tail(q) = <<q[2]>>
         /\ Three(q) => Tail(q) = <<q[2], q[3]>>
<1>1. /\ Tail(<<q[1]>>) = <<>> /\ Tail(<<q[1], q[2]>>) = <<q[2]>>
      /\ Tail(<<q[1], q[2], q[3]>>) = <<q[2], q[3]>>
  OBVIOUS
<1> QED
  <2>1. One(q) => Tail(q) = <<>>
    BY <1>1, Zenon DEF One
  <2>2. Two(q) => Tail(q) = <<q[2]>>
    BY <1>1, Zenon DEF Two
  <2>3. Three(q) => Tail(q) = <<q[2], q[3]>>
    BY <1>1, Zenon DEF Three
  <2> QED
    BY <2>1, <2>2, <2>3

LEMMA Joined ==
  ASSUME NEW a, NEW b, NEW c
  PROVE  /\ <<>> \o <<a>> = <<a>> /\ <<a>> \o <<>> = <<a>>
         /\ <<a>> \o <<b>> = <<a, b>>
         /\ <<a, b>> \o <<c>> = <<a, b, c>>
<1> DEFINE S == {a, b, c}
<1>1. /\ <<a>> \in Seq(S) /\ <<b>> \in Seq(S) /\ <<c>> \in Seq(S)
      /\ <<a, b>> \in Seq(S) /\ <<a, b, c>> \in Seq(S)
  OBVIOUS
<1> HIDE DEF S
<1>2. <<>> \o <<a>> = <<a>> /\ <<a>> \o <<>> = <<a>>
  BY <1>1, ConcatEmptySeq, Zenon
<1>3. <<a>> \o <<b>> = <<a, b>>
  <2>1. /\ <<a>> \o <<b>> \in Seq(S) /\ Len(<<a>> \o <<b>>) = 2
        /\ (<<a>> \o <<b>>)[1] = a /\ (<<a>> \o <<b>>)[2] = b
    <3>1. /\ <<a>> \o <<b>> \in Seq(S) /\ Len(<<a>> \o <<b>>) = Len(<<a>>) + Len(<<b>>)
          /\ \A i \in 1 .. Len(<<a>>) + Len(<<b>>) :
               (<<a>> \o <<b>>)[i] = IF i <= Len(<<a>>) THEN <<a>>[i] ELSE <<b>>[i - Len(<<a>>)]
      BY <1>1, ConcatProperties
    <3> QED
      BY <3>1, OneStep
  <2>2. \A i \in 1 .. 2 : (<<a>> \o <<b>>)[i] = <<a, b>>[i]
    BY <2>1, TwoSteps
  <2>3. Len(<<a>> \o <<b>>) = Len(<<a, b>>) /\ Len(<<a, b>>) = 2
    BY <2>1, TwoSteps
  <2> QED
    BY <1>1, <2>1, <2>2, <2>3, SeqEqual, Zenon
<1>4. <<a, b>> \o <<c>> = <<a, b, c>>
  <2>1. /\ <<a, b>> \o <<c>> \in Seq(S) /\ Len(<<a, b>> \o <<c>>) = 3
        /\ (<<a, b>> \o <<c>>)[1] = a /\ (<<a, b>> \o <<c>>)[2] = b
        /\ (<<a, b>> \o <<c>>)[3] = c
    <3>1. /\ <<a, b>> \o <<c>> \in Seq(S)
          /\ Len(<<a, b>> \o <<c>>) = Len(<<a, b>>) + Len(<<c>>)
          /\ \A i \in 1 .. Len(<<a, b>>) + Len(<<c>>) :
               (<<a, b>> \o <<c>>)[i]
                 = IF i <= Len(<<a, b>>) THEN <<a, b>>[i] ELSE <<c>>[i - Len(<<a, b>>)]
      BY <1>1, ConcatProperties
    <3> QED
      BY <3>1, OneStep, TwoSteps
  <2>2. \A i \in 1 .. 3 : (<<a, b>> \o <<c>>)[i] = <<a, b, c>>[i]
    BY <2>1, ThreeSteps
  <2>3. Len(<<a, b>> \o <<c>>) = Len(<<a, b, c>>) /\ Len(<<a, b, c>>) = 3
    BY <2>1, ThreeSteps
  <2> QED
    BY <1>1, <2>1, <2>2, <2>3, SeqEqual, Zenon
<1> QED
  BY <1>2, <1>3, <1>4

LEMMA Calls ==
  ASSUME NEW name
  PROVE  Call(name).do = name
BY DEF Call

LEMMA IdleShape == Shape(Idle) /\ Idle.run = None /\ Idle.op = "idle" /\ Idle.todo = <<>> /\ Idle.row = None
BY DEF Shape, Fields, Plan, FoundRow, HasTarget, Idle

-----------------------------------------------------------------------------
(***************************************************************************)
(* Rows.                                                                   *)
(***************************************************************************)
LEMMA MergedType ==
  ASSUME NEW row \in Source, NEW set, Typed(set)
  PROVE  Merge(row, set) \in Source
<1> DEFINE m == Merge(row, set)
<1>1. /\ m = [c \in DOMAIN row |-> IF c \in DOMAIN set THEN set[c] ELSE row[c]]
      /\ DOMAIN row = {"status", "dry", "last", "mode", "deleted", "paused"}
  BY DEF Merge, Source
<1>2. /\ m["status"] \in SourceStatus /\ m["dry"] \in DryrunStatus
      /\ m["last"] \in Runs \cup {None} /\ m["mode"] \in Modes
      /\ m["deleted"] \in BOOLEAN /\ m["paused"] \in BOOLEAN
  BY <1>1 DEF Typed, Source
<1> QED
  BY <1>1, <1>2 DEF Source

LEMMA MergedSource ==
  ASSUME NEW row \in Source, NEW set, Sound(set)
  PROVE  /\ Merge(row, set) \in Source
         /\ Agrees(row) => Agrees(Merge(row, set))
<1> DEFINE m == Merge(row, set)
<1>1. /\ m = [c \in DOMAIN row |-> IF c \in DOMAIN set THEN set[c] ELSE row[c]]
      /\ DOMAIN row = {"status", "dry", "last", "mode", "deleted", "paused"}
  BY DEF Merge, Source
<1>2. m \in Source
  BY MergedType DEF Sound
<1>3. ASSUME Agrees(row) PROVE Agrees(m)
  <2>1. /\ m.status = IF "status" \in DOMAIN set THEN set["status"] ELSE row.status
        /\ m.paused = IF "paused" \in DOMAIN set THEN set["paused"] ELSE row.paused
    BY <1>1
  <2> QED
    BY <1>3, <2>1 DEF Sound, Typed, Coherent, Agrees
<1> QED
  BY <1>2, <1>3

LEMMA MergedTarget ==
  ASSUME NEW row \in Target, NEW set, TargetColumns(set)
  PROVE  Merge(row, set) \in Target
<1> DEFINE m == Merge(row, set)
<1>1. /\ m = [c \in DOMAIN row |-> IF c \in DOMAIN set THEN set[c] ELSE row[c]]
      /\ DOMAIN row = {"made", "active", "flushed"}
  BY DEF Merge, Target
<1>2. m["made"] \in BOOLEAN /\ m["active"] \in BOOLEAN /\ m["flushed"] \in BOOLEAN
  BY <1>1 DEF TargetColumns, Target
<1> QED
  BY <1>1, <1>2 DEF Target

(* What the handlers set.                                                  *)
LEMMA SoundColumns ==
  /\ Sound(NoColumns) /\ Sound(ConfigColumns)
  /\ Sound(ToActive) /\ Sound(ToPaused) /\ Sound(ToArchived) /\ Sound(Started)
  /\ Sound([deleted |-> TRUE])
  /\ \A m \in Modes : Sound([mode |-> m])
  /\ Sound([status |-> "READY", dry |-> "NOT_REQUIRED"])
  /\ Sound([status |-> "PENDING", dry |-> "PENDING"])
  /\ \A r \in Runs : /\ Sound([dry |-> "RUNNING", last |-> r])
                     /\ Sound([dry |-> "RUNNING", last |-> r, status |-> "PENDING"])
BY DEF Sound, Typed, Coherent, NoColumns, ConfigColumns, ToActive, ToPaused, ToArchived, Started,
  SourceStatus, DryrunStatus

LEMMA TargetSets ==
  /\ TargetColumns(NoColumns)
  /\ TargetColumns([active |-> TRUE]) /\ TargetColumns([active |-> FALSE])
  /\ TargetColumns([flushed |-> FALSE]) /\ TargetColumns([active |-> FALSE, flushed |-> TRUE])
  /\ \A set : TargetColumns(set) => TargetColumns([c \in DOMAIN set \cup {"active"} |-> FALSE])
<1>1. ASSUME NEW set, TargetColumns(set)
      PROVE  TargetColumns([c \in DOMAIN set \cup {"active"} |-> FALSE])
  BY <1>1 DEF TargetColumns
<1>2. TargetColumns(NoColumns)
  BY DEF TargetColumns, NoColumns
<1>3. TargetColumns([active |-> TRUE]) /\ TargetColumns([active |-> FALSE])
  BY DEF TargetColumns
<1>4. TargetColumns([flushed |-> FALSE]) /\ TargetColumns([active |-> FALSE, flushed |-> TRUE])
  BY DEF TargetColumns
<1> QED
  BY <1>1, <1>2, <1>3, <1>4

LEMMA RowSteps ==
  ASSUME NEW set
  PROVE  /\ FullRow(set).do = "source" /\ FullRow(set).set = set
         /\ TargetRow(set).do = "target" /\ TargetRow(set).set = set
         /\ Sound(set) => RowStep(FullRow(set)) /\ PlainStep(FullRow(set))
         /\ TargetColumns(set) => RowStep(TargetRow(set)) /\ PlainStep(TargetRow(set))
         /\ Sound(set) => PlainStep(Columns(set))
         /\ \A from : Sound(set) => PlainStep(Bulk(from, set))
<1>1. /\ FullRow(set).do = "source" /\ FullRow(set).set = set
      /\ TargetRow(set).do = "target" /\ TargetRow(set).set = set
  BY DEF FullRow, TargetRow
<1>2. /\ Columns(set).do = "columns" /\ Columns(set).set = set
      /\ \A from : Bulk(from, set).do = "bulk" /\ Bulk(from, set).set = set
  BY DEF Columns, Bulk
<1> QED
  BY <1>1, <1>2 DEF RowStep, PlainStep

-----------------------------------------------------------------------------
(***************************************************************************)
(* Handlers: what the next step says about the plan, and what is left of   *)
(* it afterwards.                                                          *)
(***************************************************************************)
First(p) == p.todo[1].do

(* The list of each plan, with its first step.                             *)
LEMMA ListCases ==
  ASSUME NEW p, Shape(p), p.todo # <<>>
  PROVE  /\ One(p.todo) \/ Two(p.todo) \/ Three(p.todo)
         /\ Head(p.todo) = p.todo[1] /\ Len(p.todo) \in 1 .. 3
         /\ p.op # "idle" /\ p # Idle
<1>1. One(p.todo) \/ Two(p.todo) \/ Three(p.todo)
  <2>1. \/ One(p.todo) \/ Two(p.todo) \/ Three(p.todo)
        \/ p.todo = <<Call("insert"), Call("running"), Call("publish")>>
        \/ p.todo = <<Call("running"), Call("publish")>>
        \/ p.todo = <<Call("publish")>> \/ p.todo = <<Call("ack")>>
        \/ p.todo = <<Complete("FAILED")>>
    BY IdleShape DEF Shape, Plan, Editing, Triggering, Completing, Acking
  <2>2. /\ One(<<Call("publish")>>) /\ One(<<Call("ack")>>) /\ One(<<Complete("FAILED")>>)
        /\ Two(<<Call("running"), Call("publish")>>)
        /\ Three(<<Call("insert"), Call("running"), Call("publish")>>)
    BY OneStep, TwoSteps, ThreeSteps, Zenon
  <2> QED
    BY <2>1, <2>2
<1>2. Head(p.todo) = p.todo[1] /\ Len(p.todo) \in 1 .. 3
  BY <1>1, OneStep, TwoSteps, ThreeSteps DEF One, Two, Three
<1>3. p # Idle
  BY IdleShape
<1>4. p.op # "idle"
  BY <1>3, DataSourceAssumption DEF Shape, Plan, DataSourceAssumption, ControlKinds
<1> QED
  BY <1>1, <1>2, <1>3, <1>4

LEMMA InTrigger ==
  ASSUME NEW p, Shape(p), p.todo # <<>>
  PROVE  /\ First(p) = "insert" =>
              /\ p.op = "Trigger" /\ p.run = None /\ p.target \in Targets
              /\ p.todo = <<Call("insert"), Call("running"), Call("publish")>>
         /\ First(p) = "running" =>
              /\ p.op = "Trigger" /\ p.run \in Runs
              /\ p.todo = <<Call("running"), Call("publish")>>
         /\ First(p) = "publish" =>
              p.op = "Trigger" /\ p.run \in Runs /\ p.todo = <<Call("publish")>>
<1> USE OneStep, TwoSteps, ThreeSteps, Calls, IdleShape
    DEF First, Shape, Plan, Editing, Triggering, Completing, Acking, PlainStep, RowStep,
        CompleteStep, One, Two, Three, Complete
<1>1. First(p) = "insert" => p.op = "Trigger" /\ p.run = None /\ p.target \in Targets
              /\ p.todo = <<Call("insert"), Call("running"), Call("publish")>>
  OBVIOUS
<1>2. First(p) = "running" => p.op = "Trigger" /\ p.run \in Runs
              /\ p.todo = <<Call("running"), Call("publish")>>
  OBVIOUS
<1>3. First(p) = "publish" =>
              p.op = "Trigger" /\ p.run \in Runs /\ p.todo = <<Call("publish")>>
  OBVIOUS
<1> QED
  BY <1>1, <1>2, <1>3

LEMMA InCompletion ==
  ASSUME NEW p, Shape(p), p.todo # <<>>
  PROVE  /\ First(p) = "complete" =>
              /\ CompleteStep(p.todo[1]) /\ p.run \in Runs
              /\ \/ p.op = "Trigger" /\ p.todo = <<Complete("FAILED")>>
                 \/ p.op = "completion" /\ Completing(p.todo)
         /\ First(p) = "ack" => p.op = "completion" /\ p.todo = <<Call("ack")>>
<1> USE OneStep, TwoSteps, ThreeSteps, Calls, IdleShape
    DEF First, Shape, Plan, Editing, Triggering, Acking, PlainStep, RowStep, One, Two, Three
<1>0. Complete("FAILED").do = "complete" /\ CompleteStep(Complete("FAILED"))
  BY DEF Complete, CompleteStep
<1>1. ASSUME First(p) = "complete"
      PROVE  /\ p.run \in Runs
             /\ \/ p.op = "Trigger" /\ p.todo = <<Complete("FAILED")>>
                \/ p.op = "completion" /\ Completing(p.todo)
  BY <1>1
<1>2. ASSUME First(p) = "complete"
      PROVE  CompleteStep(p.todo[1])
  BY <1>0, <1>1, <1>2 DEF Completing
<1>3. First(p) = "ack" => p.op = "completion" /\ p.todo = <<Call("ack")>>
  BY <1>0 DEF Completing, CompleteStep
<1> QED
  BY <1>1, <1>2, <1>3

(* The writes of one table have what they need.                            *)
LEMMA InEditing ==
  ASSUME NEW p, Shape(p), p.todo # <<>>
  PROVE  /\ First(p) \in {"source", "columns", "bulk"} => Sound(p.todo[1].set)
         /\ First(p) = "target" => TargetColumns(p.todo[1].set) /\ p.target \in Targets
         /\ First(p) = "audit" => p.todo[1].mode \in Modes
         /\ First(p) \in {"create", "demote", "audit", "columns", "bulk"} =>
              /\ p.op \in Controls \ {"Trigger"} /\ p.op # "completion"
              /\ p.run = None /\ Editing(p.todo)
<1>0. 1 \in 1 .. Len(p.todo)
  BY ListCases
<1> USE OneStep, TwoSteps, ThreeSteps, Calls, IdleShape
    DEF First, Shape, Plan, Editing, Triggering, Completing, Acking, PlainStep, RowStep,
        CompleteStep, One, Two, Three, Complete
<1>1. First(p) \in {"source", "columns", "bulk"} => Sound(p.todo[1].set)
  OBVIOUS
<1>2. First(p) = "target" => TargetColumns(p.todo[1].set)
  OBVIOUS
<1>3. First(p) = "target" => p.target \in Targets
  <2>2. p.target \in Targets \cup {None}
    OBVIOUS
  <2> QED
    BY <1>0, <2>2 DEF HasTarget
<1>4. First(p) = "audit" => p.todo[1].mode \in Modes
  OBVIOUS
<1>5. First(p) \in {"create", "demote", "audit", "columns", "bulk"} =>
              p.op \in Controls \ {"Trigger"} /\ p.run = None /\ Editing(p.todo)
  OBVIOUS
<1>6. "completion" \notin Controls
  BY DataSourceAssumption DEF DataSourceAssumption, ControlKinds
<1> QED
  BY <1>1, <1>2, <1>3, <1>4, <1>5, <1>6

LEMMA UpdatedStale ==
  ASSUME NEW p, Fields(p)
  PROVE  LET q == [p EXCEPT !.stale = TRUE]
         IN  /\ Fields(q) /\ q.op = p.op /\ q.target = p.target /\ q.run = p.run
             /\ q.todo = p.todo /\ q.row = p.row /\ q.stale = TRUE /\ q.answer = p.answer
BY DEF Fields

(* Other handlers only become stale.                                       *)
Same(p, q) ==
  /\ q.op = p.op /\ q.target = p.target /\ q.run = p.run
  /\ q.todo = p.todo /\ q.row = p.row /\ q.answer = p.answer

LEMMA OvertakenIsSame ==
  ASSUME NEW v, Shape(work[v])
  PROVE  Shape(Overtaken(v)) /\ Same(work[v], Overtaken(v))
<1>1. CASE work[v] = Idle
  BY <1>1, IdleShape DEF Overtaken, Same
<1>2. CASE work[v] # Idle
  <2> DEFINE p == work[v]
  <2>1. Overtaken(v) = [p EXCEPT !.stale = TRUE]
    BY <1>2 DEF Overtaken
  <2>2. Fields(p)
    BY DEF Shape
  <2>3. Same(p, Overtaken(v)) /\ Fields(Overtaken(v)) /\ Overtaken(v).stale = TRUE
    BY <2>1, <2>2, UpdatedStale DEF Same
  <2>4. Plan(Overtaken(v))
    BY <1>2, <2>3 DEF Shape, Plan, Same
  <2>5. FoundRow(Overtaken(v)) /\ HasTarget(Overtaken(v))
    BY <2>3 DEF Shape, FoundRow, HasTarget, Same
  <2> QED
    BY <2>3, <2>4, <2>5 DEF Shape
<1> QED
  BY <1>1, <1>2

(* After a step that is no insert, and none that puts another in its place.*)
LEMMA RestShape ==
  ASSUME NEW w, Shape(work[w]), work[w].todo # <<>>,
         First(work[w]) \notin {"insert", "running"}
  PROVE  /\ Shape(Rest(w)) /\ Rest(w).row = None
         /\ \/ Rest(w) = Idle
            \/ /\ Rest(w).op = work[w].op /\ Rest(w).run = work[w].run
               /\ Rest(w).op = "completion" => ~ CompleteStep(Rest(w).todo[1])
<1> DEFINE p == work[w]
           q == Tail(p.todo)
<1>1. CASE q = <<>>
  BY <1>1, IdleShape DEF Rest
<1>2. CASE q # <<>>
  <2>1. Rest(w) = [p EXCEPT !.todo = q, !.row = None] /\ Fields(p)
    BY <1>2 DEF Rest, Shape
  <2>2. /\ Rest(w).op = p.op /\ Rest(w).target = p.target /\ Rest(w).run = p.run
        /\ Rest(w).todo = q /\ Rest(w).row = None /\ Rest(w).stale = p.stale
        /\ Rest(w).answer = p.answer /\ Fields(Rest(w))
    <3> HIDE DEF p, q
    <3> QED
      BY <2>1 DEF Fields
  <2>3. \/ Two(p.todo) /\ q = <<p.todo[2]>>
        \/ Three(p.todo) /\ q = <<p.todo[2], p.todo[3]>>
    BY <1>2, ListCases, Tails
  <2>4. p # Idle
    BY IdleShape
  <2>5. Editing(p.todo) => Editing(q)
    BY <2>3, OneStep, TwoSteps, ThreeSteps DEF Editing, Two, Three, One
  <2>6. Triggering(p.todo) => Triggering(q)
    BY <2>3, OneStep, TwoSteps, ThreeSteps DEF Triggering, First, Call, Two, Three, One
  <2>7. Completing(p.todo) \/ Acking(p.todo) => Acking(q) /\ ~ CompleteStep(q[1])
    BY <2>3, OneStep, TwoSteps DEF Completing, Acking, Two, Three, One, RowStep, CompleteStep, Call
  <2>8. p.todo # <<Call("insert"), Call("running"), Call("publish")>>
    BY Calls, ThreeSteps DEF First
  <2>9. Plan(Rest(w))
    BY <2>2, <2>4, <2>5, <2>6, <2>7, <2>8 DEF Shape, Plan
  <2>10. HasTarget(Rest(w))
    BY <2>2, <2>3, OneStep, TwoSteps DEF Shape, HasTarget, Two, Three
  <2>11. Rest(w).op = "completion" => ~ CompleteStep(Rest(w).todo[1])
    BY <2>2, <2>4, <2>7, DataSourceAssumption
    DEF Shape, Plan, DataSourceAssumption, ControlKinds
  <2> QED
    BY <2>2, <2>9, <2>10, <2>11 DEF Shape, FoundRow
<1> QED
  BY <1>1, <1>2

-----------------------------------------------------------------------------
(***************************************************************************)
(* Frames: what a step of one handler leaves of the invariant.             *)
(***************************************************************************)
Kept(v) == Shape(work'[v]) /\ Same(work[v], work'[v])
Moved(w, p) ==
  /\ work' = [v \in Workers |-> work'[v]]
  /\ work'[w] = p
  /\ \A v \in Workers \ {w} : Kept(v)
AllKept ==
  /\ work' = [v \in Workers |-> work'[v]]
  /\ \A v \in Workers : Kept(v)

LEMMA ProceedsMoves ==
  ASSUME Handlers, NEW w \in Workers, NEW p, Proceeds(w, p)
  PROVE  Moved(w, p)
BY DEF Handlers, Proceeds, Moved, Kept, Same

LEMMA WritesMoves ==
  ASSUME Handlers, NEW w \in Workers, NEW p, Writes(w, p)
  PROVE  Moved(w, p)
<1>1. \A v \in Workers : Shape(Overtaken(v)) /\ Same(work[v], Overtaken(v))
  BY OvertakenIsSame DEF Handlers
<1> QED
  BY <1>1 DEF Writes, Moved, Kept

LEMMA AllAreKept ==
  ASSUME Handlers, WritesAtOnce \/ work' = work
  PROVE  AllKept
<1>1. \A v \in Workers : Shape(Overtaken(v)) /\ Same(work[v], Overtaken(v))
  BY OvertakenIsSame DEF Handlers
<1>2. CASE WritesAtOnce
  BY <1>1, <1>2 DEF WritesAtOnce, AllKept, Kept
<1>3. CASE work' = work
  BY <1>3 DEF Handlers, AllKept, Kept, Same
<1> QED
  BY <1>2, <1>3

LEMMA HandlersFrame ==
  ASSUME Handlers, NEW w \in Workers, NEW p, Moved(w, p), Shape(p),
         p.op = "completion" => w \in Consumers
  PROVE  Handlers'
BY DEF Handlers, Moved, Kept, Same

LEMMA AllHandlersFrame ==
  ASSUME Handlers, AllKept
  PROVE  Handlers'
BY DEF Handlers, AllKept, Kept, Same

(* A step on the dry run a handler is at, or away from it.                 *)
Carries(w, p) ==
  /\ p.op = work[w].op /\ p.run = work[w].run
  /\ p.op = "completion" =>
       (CompleteStep(p.todo[1]) <=> CompleteStep(work[w].todo[1]))
Leaves(w, p) ==
  /\ p.op # "completion" /\ p.run = None
  /\ work[w].run # None /\ result[work[w].run].status = "RUNNING" => work[w].run \in abandoned'

LEMMA RunsFrame ==
  ASSUME Rows, Handlers, Settled, Known, Waited,
         NEW w \in Workers, NEW p, Moved(w, p), Carries(w, p) \/ Leaves(w, p),
         abandoned \subseteq abandoned',
         result' = result, crawler' = crawler, answers' = answers
  PROVE  Settled' /\ Known' /\ Waited'
<1>1. Settled'
  BY DEF Settled, Moved, Kept, Same, Carries, Leaves
<1>2. Known'
  BY DEF Known, Exists, Moved, Kept, Same, Carries, Leaves
<1>3. Waited'
  <2> SUFFICES ASSUME MaxAnswers > 0, NEW r \in Runs, result[r].status = "RUNNING", r \notin abandoned',
                      crawler[r] = 0 \/ ~ (crawler[r] > 0), \A m \in answers : m.run # r
               PROVE  \E v \in Workers : work'[v].run = r
    BY DEF Waited, RunningIsWaitedFor
  <2>1. PICK v \in Workers : work[v].run = r
    BY DEF Waited, RunningIsWaitedFor
  <2>2. work'[v].run = r
    BY <2>1, DataSourceAssumption
    DEF Moved, Kept, Same, Carries, Leaves, Runs, DataSourceAssumption
  <2> QED
    BY <2>2
<1> QED
  BY <1>1, <1>2, <1>3

LEMMA AllRunsFrame ==
  ASSUME Rows, Handlers, Settled, Known, Waited, AllKept,
         UNCHANGED <<result, crawler, answers, abandoned>>
  PROVE  Settled' /\ Known' /\ Waited'
<1>1. Settled'
  BY DEF Settled, AllKept, Kept, Same
<1>2. Known'
  BY DEF Known, Exists, AllKept, Kept, Same
<1>3. Waited'
  BY DEF Waited, RunningIsWaitedFor, AllKept, Kept, Same
<1> QED
  BY <1>1, <1>2, <1>3

LEMMA ClaimsFrame ==
  ASSUME Claims, NEW w \in Workers, NEW p, Moved(w, p), Carries(w, p) \/ Leaves(w, p),
         UNCHANGED <<result, crawler, answers, disputed>>
  PROVE  Claims'
<1> SUFFICES ASSUME NEW v \in Workers
             PROVE  Alone(v)' /\ Decides(v)'
  BY DEF Claims
<1>1. Alone(v) /\ Decides(v)
  BY DEF Claims
<1>2. \A u \in Workers : work'[u].run = work[u].run \/ work'[u].run = None
  BY DEF Moved, Kept, Same, Carries, Leaves
<1>3. \A r \in Runs : r # None
  BY DataSourceAssumption DEF Runs, DataSourceAssumption
<1>4. Alone(v)'
  <2>1. work'[v].op = "Trigger" /\ work'[v].run # None =>
          work[v].op = "Trigger" /\ work[v].run = work'[v].run
    BY DEF Moved, Kept, Same, Carries, Leaves
  <2> QED
    BY <1>1, <1>2, <1>3, <2>1 DEF Alone
<1>5. Decides(v)'
  <2>1. \A u \in Workers : Completes(u)' => Completes(u) /\ work'[u].run = work[u].run
    BY DEF Completes, Moved, Kept, Same, Carries, Leaves
  <2> QED
    BY <1>1, <2>1 DEF Decides
<1> QED
  BY <1>4, <1>5

LEMMA AllClaimsFrame ==
  ASSUME Claims, AllKept, UNCHANGED <<result, crawler, answers, disputed>>
  PROVE  Claims'
<1> SUFFICES ASSUME NEW v \in Workers
             PROVE  Alone(v)' /\ Decides(v)'
  BY DEF Claims
<1>1. Alone(v) /\ Decides(v)
  BY DEF Claims
<1>2. Alone(v)'
  BY <1>1 DEF Alone, AllKept, Kept, Same
<1>3. Decides(v)'
  <2>1. \A u \in Workers : Completes(u)' => Completes(u) /\ work'[u].run = work[u].run
    BY DEF Completes, AllKept, Kept, Same
  <2> QED
    BY <1>1, <2>1 DEF Decides
<1> QED
  BY <1>2, <1>3

LEMMA PausedFrame ==
  ASSUME PausedRows, NEW w \in Workers, NEW p, Moved(w, p),
         NoneEnded' => NoneEnded,
         NoneEnded /\ Agrees(source) => Agrees(source'),
         NoneEnded /\ Agrees(source) =>
           (p.row # None /\ p.todo # <<>> /\ Head(p.todo).do = "source" => Agrees(p.row))
  PROVE  PausedRows'
<1> SUFFICES ASSUME NoneEnded'
             PROVE  /\ Agrees(source')
                    /\ \A v \in Workers : work'[v].row # None /\ Doing(v, "source")' =>
                         Agrees(work'[v].row)
  BY DEF PausedRows, Agrees
<1>1. NoneEnded /\ Agrees(source)
        /\ \A v \in Workers : work[v].row # None /\ Doing(v, "source") => Agrees(work[v].row)
  BY DEF PausedRows
<1>2. Agrees(source')
  BY <1>1
<1>3. ASSUME NEW v \in Workers, work'[v].row # None, Doing(v, "source")'
      PROVE  Agrees(work'[v].row)
  <2>1. CASE v = w
    BY <1>1, <1>3, <2>1 DEF Doing, Moved
  <2>2. CASE v # w
    BY <1>1, <1>3, <2>2 DEF Doing, Moved, Kept, Same
  <2> QED
    BY <2>1, <2>2
<1> QED
  BY <1>2, <1>3

LEMMA AllPausedFrame ==
  ASSUME PausedRows, AllKept, result' = result,
         NoneEnded /\ Agrees(source) => Agrees(source')
  PROVE  PausedRows'
<1>1. NoneEnded' => NoneEnded
  BY DEF NoneEnded
<1> SUFFICES ASSUME NoneEnded
             PROVE  /\ Agrees(source')
                    /\ \A v \in Workers : work'[v].row # None /\ Doing(v, "source")' =>
                         Agrees(work'[v].row)
  BY <1>1 DEF PausedRows, Agrees
<1>2. Agrees(source) /\ \A v \in Workers : work[v].row # None /\ Doing(v, "source") => Agrees(work[v].row)
  BY DEF PausedRows
<1> QED
  BY <1>2 DEF Doing, AllKept, Kept, Same

-----------------------------------------------------------------------------
(***************************************************************************)
(* Steps.                                                                  *)
(***************************************************************************)
LEMMA Doings ==
  ASSUME Handlers, NEW w \in Workers, NEW do, Doing(w, do)
  PROVE  /\ Shape(work[w]) /\ work[w].todo # <<>> /\ First(work[w]) = do
         /\ Head(work[w].todo) = work[w].todo[1]
         /\ work[w].op = "completion" => w \in Consumers
<1>1. Shape(work[w]) /\ work[w].todo # <<>> /\ (work[w].op = "completion" => w \in Consumers)
  BY DEF Handlers, Doing
<1>2. Head(work[w].todo) = work[w].todo[1]
  BY <1>1, ListCases
<1> QED
  BY <1>1, <1>2 DEF Doing, First

(* A step of one handler that leaves results, tasks and completions alone. *)
LEMMA Step ==
  ASSUME IInv, Rows', NEW w \in Workers, NEW p, Moved(w, p), Shape(p),
         p.op = "completion" => w \in Consumers,
         Carries(w, p) \/ Leaves(w, p),
         abandoned \subseteq abandoned', UNCHANGED <<result, crawler, answers, disputed>>,
         NoneEnded /\ Agrees(source) => Agrees(source'),
         p.row # None /\ p.todo # <<>> /\ Head(p.todo).do = "source" =>
           \/ p.row = source
           \/ p.row = work[w].row /\ p.todo = work[w].todo
  PROVE  IInv'
<1>1. Handlers'
  BY HandlersFrame DEF IInv
<1>2. Settled' /\ Known' /\ Waited'
  BY RunsFrame DEF IInv
<1>3. NoneEnded' => NoneEnded
  BY DEF NoneEnded
<1>4. NoneEnded /\ Agrees(source) =>
        (p.row # None /\ p.todo # <<>> /\ Head(p.todo).do = "source" => Agrees(p.row))
  BY DEF IInv, PausedRows, Doing
<1>5. PausedRows'
  BY <1>3, <1>4, PausedFrame DEF IInv
<1>6. Claims'
  BY ClaimsFrame DEF IInv
<1> QED
  BY <1>1, <1>2, <1>5, <1>6 DEF IInv

(* A step of no handler.                                                   *)
LEMMA OtherStep ==
  ASSUME IInv, Rows', WritesAtOnce \/ work' = work,
         UNCHANGED <<result, crawler, answers, abandoned, disputed>>,
         NoneEnded /\ Agrees(source) => Agrees(source')
  PROVE  IInv'
<1>1. AllKept
  BY AllAreKept DEF IInv
<1>2. Handlers'
  BY <1>1, AllHandlersFrame DEF IInv
<1>3. Settled' /\ Known' /\ Waited'
  BY <1>1, AllRunsFrame DEF IInv
<1>4. PausedRows'
  BY <1>1, AllPausedFrame DEF IInv
<1>5. Claims'
  BY <1>1, AllClaimsFrame DEF IInv
<1> QED
  BY <1>2, <1>3, <1>4, <1>5 DEF IInv

(* The steps a handler does and forgets.                                   *)
Done == {"source", "target", "create", "columns", "bulk", "audit", "ack"}

LEMMA RestRuns ==
  ASSUME Handlers, Settled, NEW w \in Workers, NEW do \in Done, Doing(w, do)
  PROVE  Carries(w, Rest(w)) \/ Leaves(w, Rest(w))
<1> DEFINE p == work[w]
<1>1. Shape(p) /\ p.todo # <<>> /\ First(p) = do /\ First(p) \in Done
  BY Doings
<1>2. ~ CompleteStep(p.todo[1])
  BY <1>1 DEF CompleteStep, First, Done
<1>3. CASE Rest(w) = Idle
  <2>1. Tail(p.todo) = <<>>
    <3> SUFFICES ASSUME Tail(p.todo) # <<>>
                 PROVE  FALSE
      OBVIOUS
    <3> DEFINE q == Tail(p.todo)
    <3>1. Rest(w) = [p EXCEPT !.todo = q, !.row = None] /\ Fields(p)
      BY <1>1 DEF Rest, Shape
    <3>2. Rest(w).todo = q
      <4> HIDE DEF p, q
      <4> QED
        BY <3>1 DEF Fields
    <3> QED
      BY <1>3, <3>2, IdleShape
  <2>2. One(p.todo)
    <3>1. /\ <<p.todo[2]>> # <<>> /\ <<p.todo[2], p.todo[3]>> # <<>>
      BY OneStep, TwoSteps
    <3> QED
      BY <1>1, <2>1, <3>1, ListCases, Tails
  <2>3. CASE p.run = None
    BY <1>3, <2>3, IdleShape DEF Leaves
  <2>4. CASE p.run # None
    <3>1. p.op = "completion"
      <4>1. p # Idle
        BY <1>1, ListCases
      <4>2. ~ (p.run \in Runs /\ Triggering(p.todo))
        <5>1. Call("publish").do \notin Done /\ Complete("FAILED").do \notin Done
          BY DEF Call, Complete, Done
        <5>2. ~ Two(p.todo)
          BY <2>2 DEF One, Two
        <5>3. Two(<<Call("running"), Call("publish")>>)
          BY TwoSteps
        <5> QED
          BY <1>1, <5>1, <5>2, <5>3, OneStep DEF Triggering, First
      <4> QED
        BY <1>1, <2>4, <4>1, <4>2 DEF Shape, Plan
    <3>2. result[p.run].status # "RUNNING"
      BY <1>2, <3>1 DEF Settled, Terminal
    <3> QED
      BY <1>3, <2>4, <3>2, IdleShape DEF Leaves
  <2> QED
    BY <2>3, <2>4
<1>4. CASE Rest(w) # Idle
  <2>1. /\ Rest(w).op = p.op /\ Rest(w).run = p.run
        /\ Rest(w).op = "completion" => ~ CompleteStep(Rest(w).todo[1])
    BY <1>1, <1>4, RestShape DEF Done
  <2> QED
    BY <1>2, <2>1 DEF Carries
<1> QED
  BY <1>3, <1>4

LEMMA RestStep ==
  ASSUME IInv, Rows', NEW w \in Workers, NEW do \in Done, Doing(w, do),
         Proceeds(w, Rest(w)) \/ Writes(w, Rest(w)),
         UNCHANGED <<result, crawler, answers, abandoned, disputed>>,
         NoneEnded /\ Agrees(source) => Agrees(source')
  PROVE  IInv'
<1>1. /\ Shape(work[w]) /\ work[w].todo # <<>> /\ First(work[w]) \in Done
      /\ work[w].op = "completion" => w \in Consumers
  BY Doings DEF IInv
<1>2. /\ Shape(Rest(w)) /\ Rest(w).row = None
      /\ Rest(w).op = "completion" => w \in Consumers
  BY <1>1, RestShape, IdleShape DEF Done
<1>3. Moved(w, Rest(w))
  BY ProceedsMoves, WritesMoves DEF IInv
<1>4. Carries(w, Rest(w)) \/ Leaves(w, Rest(w))
  BY RestRuns DEF IInv
<1> QED
  BY <1>2, <1>3, <1>4, Step

-----------------------------------------------------------------------------
(***************************************************************************)
(* The database steps.                                                     *)
(***************************************************************************)
LEMMA SetIsSound ==
  ASSUME IInv, NEW w \in Workers
  PROVE  /\ \A do \in {"source", "columns", "bulk"} : Doing(w, do) => Sound(Set(w))
         /\ Doing(w, "target") => TargetColumns(Set(w)) /\ work[w].target \in Targets
         /\ Doing(w, "source") /\ work[w].row # None => work[w].row \in Source
         /\ Doing(w, "target") /\ work[w].row # None => work[w].row \in Target
<1>1. ASSUME NEW do \in {"source", "columns", "bulk"}, Doing(w, do)
      PROVE  Sound(Set(w))
  BY <1>1, Doings, InEditing DEF IInv, Set
<1>2. Doing(w, "target") => TargetColumns(Set(w)) /\ work[w].target \in Targets
  BY Doings, InEditing DEF IInv, Set
<1>3. Doing(w, "source") /\ work[w].row # None => work[w].row \in Source
  BY Doings DEF IInv, Shape, FoundRow, First
<1>4. Doing(w, "target") /\ work[w].row # None => work[w].row \in Target
  BY Doings DEF IInv, Shape, FoundRow, First
<1> QED
  BY <1>1, <1>2, <1>3, <1>4

(* Whoever writes sets torn to TRUE or leaves it.                          *)
LEMMA TornType ==
  ASSUME IInv, NEW w \in Workers, NEW p, Writes(w, p)
  PROVE  torn' \in BOOLEAN
BY DEF IInv, Rows, Handlers, Shape, Writes

LEMMA FindRowInv ==
  ASSUME IInv, NEW w \in Workers, FindRow(w)
  PROVE  IInv'
<1>0. Rows'
  BY DEF IInv, Rows, FindRow, rowVars, brokerVars, historyVars
<1>1. PICK do \in {"source", "target"} :
        /\ Doing(w, do)
        /\ Proceeds(w, [work[w] EXCEPT !.row = IF do = "source" THEN source
                                               ELSE target[work[w].target]])
  BY DEF FindRow
<1> DEFINE row == IF do = "source" THEN source ELSE target[work[w].target]
           old == work[w]
           p == [old EXCEPT !.row = row]
<1>2. /\ Shape(old) /\ old.todo # <<>> /\ First(old) = do /\ Head(old.todo) = old.todo[1]
      /\ old.op = "completion" => w \in Consumers
  BY <1>1, Doings DEF IInv
<1>3. /\ Fields(p) /\ p.op = old.op /\ p.target = old.target /\ p.run = old.run
      /\ p.todo = old.todo /\ p.row = row /\ p.stale = old.stale /\ p.answer = old.answer
  <2>1. Fields(old)
    BY <1>2 DEF Shape
  <2> HIDE DEF old, row
  <2> QED
    BY <2>1 DEF Fields
<1>4. FoundRow(p)
  BY <1>1, <1>2, <1>3, SetIsSound DEF FoundRow, First, IInv, Rows
<1>5. Shape(p)
  <2>1. p # Idle /\ old # Idle
    BY <1>2, <1>3, IdleShape
  <2>2. Plan(p)
    BY <1>2, <1>3, <2>1 DEF Shape, Plan
  <2> QED
    BY <1>2, <1>3, <1>4, <2>2 DEF Shape, HasTarget
<1>6. Moved(w, p)
  BY <1>1, ProceedsMoves DEF IInv
<1>7. Carries(w, p)
  BY <1>3 DEF Carries
<1>8. p.row # None /\ p.todo # <<>> /\ Head(p.todo).do = "source" => p.row = source
  BY <1>2, <1>3 DEF First
<1>9. /\ abandoned \subseteq abandoned' /\ UNCHANGED <<result, crawler, answers, disputed>>
      /\ source' = source
  BY DEF FindRow, rowVars, brokerVars, historyVars
<1>10. Agrees(source) => Agrees(source')
  BY <1>9
<1> HIDE DEF p, old
<1> QED
  BY <1>0, <1>2, <1>3, <1>5, <1>6, <1>7, <1>8, <1>9, <1>10, Step DEF old

LEMMA UpdateDataSourceInv ==
  ASSUME IInv, NEW w \in Workers, UpdateDataSource(w)
  PROVE  IInv'
<1>1. Doing(w, "source") /\ work[w].row # None
  BY DEF UpdateDataSource
<1>2. /\ source' \in Source
      /\ Agrees(work[w].row) => Agrees(source')
  BY <1>1, SetIsSound, MergedSource DEF UpdateDataSource
<1>3. Rows'
  BY <1>2, TornType DEF IInv, Rows, UpdateDataSource, brokerVars
<1>4. NoneEnded /\ Agrees(source) => Agrees(source')
  BY <1>1, <1>2 DEF IInv, PausedRows
<1> QED
  BY <1>1, <1>3, <1>4, RestStep DEF UpdateDataSource, brokerVars, Done

LEMMA UpdateTargetRowInv ==
  ASSUME IInv, NEW w \in Workers, UpdateTargetRow(w)
  PROVE  IInv'
<1>1. Doing(w, "target") /\ work[w].row # None
  BY DEF UpdateTargetRow
<1>2. Merge(work[w].row, Set(w)) \in Target
  BY <1>1, SetIsSound, MergedTarget
<1>3. Rows'
  BY <1>2, TornType DEF IInv, Rows, UpdateTargetRow, brokerVars
<1> QED
  BY <1>1, <1>3, RestStep DEF UpdateTargetRow, brokerVars, Done, Agrees

LEMMA InsertTargetInv ==
  ASSUME IInv, NEW w \in Workers, InsertTarget(w)
  PROVE  IInv'
<1>1. Doing(w, "create")
  BY DEF InsertTarget
<1>2. Rows'
  BY TornType DEF IInv, Rows, InsertTarget, Target, brokerVars
<1> QED
  BY <1>1, <1>2, RestStep DEF InsertTarget, brokerVars, Done, Agrees

LEMMA UpdateColumnsInv ==
  ASSUME IInv, NEW w \in Workers, UpdateColumns(w)
  PROVE  IInv'
<1>1. Doing(w, "columns")
  BY DEF UpdateColumns
<1>2. source' \in Source /\ (Agrees(source) => Agrees(source'))
  BY <1>1, SetIsSound, MergedSource DEF UpdateColumns, IInv, Rows
<1>3. Rows'
  BY <1>2, TornType DEF IInv, Rows, UpdateColumns, brokerVars
<1> QED
  BY <1>1, <1>2, <1>3, RestStep DEF UpdateColumns, brokerVars, Done

LEMMA UpdateProjectDataSourcesLifecycleInv ==
  ASSUME IInv, NEW w \in Workers, UpdateProjectDataSourcesLifecycle(w)
  PROVE  IInv'
<1>1. Doing(w, "bulk")
  BY DEF UpdateProjectDataSourcesLifecycle
<1>2. source' \in Source /\ (Agrees(source) => Agrees(source'))
  BY <1>1, SetIsSound, MergedSource DEF UpdateProjectDataSourcesLifecycle, Set, IInv, Rows
<1>3. Rows'
  BY <1>2, TornType DEF IInv, Rows, UpdateProjectDataSourcesLifecycle, brokerVars
<1> QED
  BY <1>1, <1>2, <1>3, RestStep DEF UpdateProjectDataSourcesLifecycle, brokerVars, Done

LEMMA CreateCrawlModeChangeInv ==
  ASSUME IInv, NEW w \in Workers, CreateCrawlModeChange(w)
  PROVE  IInv'
<1>1. Doing(w, "audit")
  BY DEF CreateCrawlModeChange
<1>2. audited' \in Modes
  BY <1>1, Doings, InEditing DEF CreateCrawlModeChange, IInv
<1>3. Rows'
  BY <1>2, TornType DEF IInv, Rows, CreateCrawlModeChange, brokerVars
<1> QED
  BY <1>1, <1>3, RestStep DEF CreateCrawlModeChange, brokerVars, Done, Agrees

LEMMA AckInv ==
  ASSUME IInv, NEW w \in Workers, Ack(w)
  PROVE  IInv'
<1>1. Rows'
  BY DEF IInv, Rows, Ack, rowVars, brokerVars, historyVars
<1> QED
  BY <1>1, RestStep DEF Ack, rowVars, brokerVars, historyVars, Done, Agrees

LEMMA PromotionFailsInv ==
  ASSUME IInv, NEW w \in Workers, PromotionFails(w)
  PROVE  IInv'
<1>1. Rows'
  BY DEF IInv, Rows, PromotionFails, rowVars, brokerVars, historyVars
<1> QED
  BY <1>1, RestStep DEF PromotionFails, rowVars, brokerVars, historyVars, Done, Agrees

LEMMA PauseInv ==
  ASSUME IInv, Pause
  PROVE  IInv'
<1>1. source' \in Source /\ (Agrees(source) => Agrees(source'))
  BY SoundColumns, MergedSource DEF Pause, IInv, Rows
<1>2. Rows'
  BY <1>1 DEF IInv, Rows, Pause, WritesAtOnce, brokerVars
<1> QED
  BY <1>1, <1>2, OtherStep DEF Pause, brokerVars

LEMMA UpdateProjectCrawlModeInv ==
  ASSUME IInv, NEW m \in Modes, UpdateProjectCrawlMode(m)
  PROVE  IInv'
<1>1. source' \in Source /\ (Agrees(source) => Agrees(source'))
  BY DEF UpdateProjectCrawlMode, IInv, Rows, Source, Agrees
<1>2. Rows'
  BY <1>1 DEF IInv, Rows, UpdateProjectCrawlMode, WritesAtOnce, brokerVars
<1> QED
  BY <1>1, <1>2, OtherStep DEF UpdateProjectCrawlMode, brokerVars

-----------------------------------------------------------------------------
(***************************************************************************)
(* Requests.                                                               *)
(***************************************************************************)
(* A request that begins with a list of the kind its operation has.        *)
LEMMA RequestBegins ==
  ASSUME IInv, NEW w \in Workers, NEW op, NEW t \in Targets \cup {None}, NEW todo,
         Request(w, op, t, todo),
         \/ op # "Trigger" /\ Editing(todo)
         \/ /\ op = "Trigger" /\ t \in Targets
            /\ todo = <<Call("insert"), Call("running"), Call("publish")>>,
         t = None => \A i \in 1 .. Len(todo) : todo[i].do \notin {"target", "create"}
  PROVE  IInv'
<1> DEFINE p == [Idle EXCEPT !.op = op, !.target = t, !.todo = todo]
<1>1. /\ op \in Controls /\ op # "completion" /\ work[w] = Idle /\ Proceeds(w, p)
      /\ UNCHANGED <<rowVars, brokerVars, historyVars>>
  BY DataSourceAssumption DEF Request, DataSourceAssumption, ControlKinds
<1>2. Rows'
  BY <1>1 DEF IInv, Rows, rowVars, brokerVars, historyVars
<1>3. /\ Fields(p) /\ p.op = op /\ p.target = t /\ p.run = None
      /\ p.todo = todo /\ p.row = None /\ p.stale = FALSE /\ p.answer = None
  BY DEF Idle, Fields
<1> HIDE DEF p
<1>4. Shape(p)
  BY <1>1, <1>3 DEF Shape, Plan, FoundRow, HasTarget
<1>5. Moved(w, p)
  BY <1>1, ProceedsMoves DEF IInv
<1>6. Leaves(w, p)
  BY <1>1, <1>3, IdleShape DEF Leaves
<1>7. /\ abandoned \subseteq abandoned' /\ UNCHANGED <<result, crawler, answers, disputed>>
      /\ Agrees(source) => Agrees(source')
  BY <1>1 DEF rowVars, brokerVars, historyVars
<1> QED
  BY <1>1, <1>2, <1>3, <1>4, <1>5, <1>6, <1>7, Step

(* A list of one or two steps.                                             *)
LEMMA OneEdit ==
  ASSUME NEW s, PlainStep(s)
  PROVE  /\ Editing(<<s>>)
         /\ s.do \notin {"target", "create"} =>
              \A i \in 1 .. Len(<<s>>) : <<s>>[i].do \notin {"target", "create"}
BY OneStep DEF Editing

LEMMA TwoEdits ==
  ASSUME NEW s, NEW u, PlainStep(s), PlainStep(u)
  PROVE  /\ Editing(<<s, u>>)
         /\ s.do \notin {"target", "create"} /\ u.do \notin {"target", "create"} =>
              \A i \in 1 .. Len(<<s, u>>) : <<s, u>>[i].do \notin {"target", "create"}
<1>1. Editing(<<s, u>>)
  BY TwoSteps DEF Editing
<1>2. Len(<<s, u>>) = 2 /\ <<s, u>>[1] = s /\ <<s, u>>[2] = u
  BY TwoSteps
<1> HIDE DEF Editing
<1> QED
  BY <1>1, <1>2

LEMMA SourceRequestInv ==
  ASSUME IInv, NEW w \in Workers, SourceRequest(w)
  PROVE  IInv'
<1>1. \A set : Sound(set) =>
        /\ PlainStep(FullRow(set)) /\ FullRow(set).do = "source"
        /\ PlainStep(Columns(set)) /\ Columns(set).do = "columns"
        /\ \A from : PlainStep(Bulk(from, set)) /\ Bulk(from, set).do = "bulk"
  BY RowSteps DEF Columns, Bulk
<1>2. ASSUME NEW op, op # "Trigger", NEW s, PlainStep(s), s.do \notin {"target", "create"},
             Request(w, op, None, <<s>>)
      PROVE  IInv'
  BY <1>2, OneEdit, RequestBegins
<1>3. ASSUME NEW op, op # "Trigger", NEW set, Sound(set), Request(w, op, None, <<FullRow(set)>>)
      PROVE  IInv'
  BY <1>1, <1>2, <1>3
<1>4. ASSUME NEW op, op # "Trigger", NEW set, Sound(set), Request(w, op, None, <<Columns(set)>>)
      PROVE  IInv'
  BY <1>1, <1>2, <1>4
<1>5. ASSUME NEW op, op # "Trigger", NEW from, NEW set, Sound(set),
             Request(w, op, None, <<Bulk(from, set)>>)
      PROVE  IInv'
  BY <1>1, <1>2, <1>5
<1>6. CASE Update(w)
  BY <1>3, <1>6, SoundColumns DEF Update
<1>7. CASE Archive(w)
  BY <1>4, <1>7, SoundColumns DEF Archive
<1>8. CASE Delete(w)
  BY <1>4, <1>8, SoundColumns DEF Delete
<1>9. CASE ActivateDataSource(w)
  BY <1>3, <1>9, SoundColumns DEF ActivateDataSource
<1>10. CASE PauseDataSource(w)
  BY <1>3, <1>10, SoundColumns DEF PauseDataSource
<1>11. CASE ResumeDataSource(w)
  BY <1>3, <1>11, SoundColumns DEF ResumeDataSource
<1>12. CASE Activate(w)
  BY <1>5, <1>12, SoundColumns DEF Activate
<1>13. CASE Resume(w)
  BY <1>5, <1>13, SoundColumns DEF Resume
<1>14. ASSUME NEW m \in Modes, UpdateCrawlMode(w, m)
       PROVE  IInv'
  <2> DEFINE s == FullRow([mode |-> m])
             u == [do |-> "audit", mode |-> m]
  <2>1. PlainStep(s) /\ s.do = "source"
    BY <1>1, SoundColumns
  <2>2. PlainStep(u) /\ u.do = "audit"
    BY DEF PlainStep
  <2>3. Request(w, "UpdateCrawlMode", None, <<s, u>>)
    BY <1>14 DEF UpdateCrawlMode, ModeChange
  <2> HIDE DEF s, u
  <2>4. /\ Editing(<<s, u>>)
        /\ \A i \in 1 .. Len(<<s, u>>) : <<s, u>>[i].do \notin {"target", "create"}
    BY <2>1, <2>2, TwoEdits
  <2> QED
    BY <2>3, <2>4, RequestBegins
<1> QED
  BY <1>6, <1>7, <1>8, <1>9, <1>10, <1>11, <1>12, <1>13, <1>14 DEF SourceRequest

LEMMA TargetRequestInv ==
  ASSUME IInv, NEW w \in Workers, NEW t \in Targets,
         \/ CreateTarget(w, t) \/ UpdateTarget(w, t) \/ ActivateTarget(w, t)
         \/ DeactivateTarget(w, t) \/ DeleteTarget(w, t) \/ Trigger(w, t)
  PROVE  IInv'
<1>0. t # None
  BY DataSourceAssumption DEF DataSourceAssumption
<1>1. ASSUME NEW op, op # "Trigger", NEW todo, Editing(todo), Request(w, op, t, todo)
      PROVE  IInv'
  BY <1>0, <1>1, RequestBegins
<1>2. PlainStep(Call("create")) /\ PlainStep(Call("demote"))
  BY Calls DEF PlainStep
<1>3. \A set : TargetColumns(set) => PlainStep(TargetRow(set))
  BY RowSteps
<1>4. CASE CreateTarget(w, t)
  BY <1>1, <1>2, <1>4, OneEdit DEF CreateTarget
<1>5. CASE UpdateTarget(w, t)
  <2> DEFINE Disabling(set) == IF target[t].active
                               THEN [c \in DOMAIN set \cup {"active"} |-> FALSE] ELSE set
             Material(set) == <<TargetRow(Disabling(set)), Call("demote")>>
  <2>1. \A set : TargetColumns(set) => PlainStep(TargetRow(Disabling(set)))
    BY <1>3, TargetSets
  <2>2. \A set : TargetColumns(set) => Editing(Material(set))
    BY <1>2, <2>1, TwoEdits
  <2>3. Editing(<<TargetRow(NoColumns)>>)
    BY <1>3, OneEdit, TargetSets
  <2>4. Editing(Material(NoColumns)) /\ Editing(Material([flushed |-> FALSE]))
    BY <2>2, TargetSets
  <2>5. \/ Request(w, "UpdateTarget", t, <<TargetRow(NoColumns)>>)
        \/ Request(w, "UpdateTarget", t, Material(NoColumns))
        \/ Request(w, "UpdateTarget", t, Material([flushed |-> FALSE]))
    BY <1>5 DEF UpdateTarget
  <2> HIDE DEF Material
  <2> QED
    BY <1>1, <2>3, <2>4, <2>5
<1>6. CASE ActivateTarget(w, t)
  <2> DEFINE s == TargetRow([active |-> TRUE])
             u == FullRow([status |-> "READY", dry |-> "NOT_REQUIRED"])
  <2>1. PlainStep(s) /\ PlainStep(u)
    BY <1>3, TargetSets, SoundColumns, RowSteps
  <2>2. Activation(t) = <<s>> \o <<u>> \/ Activation(t) = <<s>> \o <<>>
    BY <1>6 DEF ActivateTarget, Activation, Promotion
  <2> HIDE DEF s, u
  <2>3. Editing(Activation(t))
    BY <2>1, <2>2, Joined, OneEdit, TwoEdits
  <2> QED
    BY <1>1, <1>6, <2>3 DEF ActivateTarget
<1>7. CASE DeactivateTarget(w, t)
  BY <1>1, <1>3, <1>7, OneEdit, TargetSets DEF DeactivateTarget
<1>8. CASE DeleteTarget(w, t)
  BY <1>1, <1>3, <1>8, OneEdit, TargetSets DEF DeleteTarget
<1>9. CASE Trigger(w, t)
  <2>1. Request(w, "Trigger", t, <<Call("insert"), Call("running"), Call("publish")>>)
    BY <1>9 DEF Trigger
  <2> QED
    BY <1>0, <2>1, RequestBegins
<1> QED
  BY <1>4, <1>5, <1>6, <1>7, <1>8, <1>9

LEMMA DemoteInv ==
  ASSUME IInv, NEW w \in Workers, Demote(w)
  PROVE  IInv'
<1> DEFINE old == work[w]
           s == FullRow([status |-> "PENDING", dry |-> "PENDING"])
<1>0. Rows'
  BY DEF IInv, Rows, Demote, rowVars, brokerVars, historyVars
<1>1. /\ Shape(old) /\ old.todo # <<>> /\ First(old) = "demote"
      /\ old.op \in Controls \ {"Trigger"} /\ old.op # "completion"
      /\ old.run = None /\ old.row = None
  <2>1. Shape(old) /\ old.todo # <<>> /\ First(old) = "demote"
    BY Doings DEF Demote, IInv
  <2>2. old.op \in Controls \ {"Trigger"} /\ old.op # "completion" /\ old.run = None
    BY <2>1, InEditing
  <2>3. old.row = None
    BY <2>1 DEF Shape, FoundRow, First
  <2> QED
    BY <2>1, <2>2, <2>3
<1>2. /\ abandoned \subseteq abandoned' /\ UNCHANGED <<result, crawler, answers, disputed>>
      /\ Agrees(source) => Agrees(source')
  BY DEF Demote, rowVars, brokerVars, historyVars
<1>3. CASE Found
  <2> DEFINE p == [old EXCEPT !.todo = <<s>>]
  <2>1. /\ Fields(p) /\ p.op = old.op /\ p.target = old.target /\ p.run = old.run
        /\ p.todo = <<s>> /\ p.row = old.row /\ p.stale = old.stale /\ p.answer = old.answer
    <3>1. Fields(old)
      BY <1>1 DEF Shape
    <3> HIDE DEF old, s
    <3> QED
      BY <3>1 DEF Fields
  <2>2. PlainStep(s) /\ s.do = "source"
    BY RowSteps, SoundColumns
  <2>3. Proceeds(w, p)
    BY <1>3 DEF Demote
  <2> HIDE DEF p, s
  <2>4. Editing(<<s>>) /\ (\A i \in 1 .. Len(<<s>>) : <<s>>[i].do \notin {"target", "create"})
    BY <2>2, OneEdit
  <2>5. old # Idle
    BY <1>1, IdleShape
  <2>6. Shape(p)
    BY <1>1, <2>1, <2>4, <2>5 DEF Shape, Plan, FoundRow, HasTarget
  <2>7. Moved(w, p)
    BY <2>3, ProceedsMoves DEF IInv
  <2>8. Carries(w, p)
    BY <1>1, <2>1 DEF Carries
  <2> QED
    BY <1>0, <1>1, <1>2, <2>1, <2>6, <2>7, <2>8, Step
<1>4. CASE ~ Found
  <2>1. Moved(w, Idle)
    BY <1>4, ProceedsMoves DEF Demote, IInv
  <2>2. Leaves(w, Idle)
    BY <1>1, IdleShape DEF Leaves
  <2> QED
    BY <1>0, <1>2, <2>1, <2>2, IdleShape, Step
<1> QED
  BY <1>3, <1>4

-----------------------------------------------------------------------------
(***************************************************************************)
(* Dry runs and their completions.                                         *)
(***************************************************************************)
LEMMA MarkDryrunRunningInv ==
  ASSUME IInv, NEW w \in Workers, MarkDryrunRunning(w)
  PROVE  IInv'
<1> DEFINE old == work[w]
<1>1. /\ Shape(old) /\ old.todo # <<>> /\ First(old) = "running"
      /\ old.op = "Trigger" /\ old.run \in Runs
      /\ old.todo = <<Call("running"), Call("publish")>>
      /\ old.row = None
  <2>1. Shape(old) /\ old.todo # <<>> /\ First(old) = "running"
    BY Doings DEF MarkDryrunRunning, IInv
  <2>2. old.row = None
    BY <2>1 DEF Shape, FoundRow, First
  <2> QED
    BY <2>1, <2>2, InTrigger
<1>0. Rows'
  BY <1>1 DEF IInv, Rows, MarkDryrunRunning, rowVars, brokerVars
<1>2. UNCHANGED <<result, crawler, answers, disputed>> /\ (Agrees(source) => Agrees(source'))
  BY DEF MarkDryrunRunning, rowVars, brokerVars
<1>3. CASE Found
  <2> DEFINE running == [dry |-> "RUNNING", last |-> old.run]
             pending == [dry |-> "RUNNING", last |-> old.run, status |-> "PENDING"]
             columns == IF source.status \in {"PENDING", "READY"} THEN pending ELSE running
             s == FullRow(columns)
             list == <<s>> \o Tail(old.todo)
             p == [old EXCEPT !.todo = list]
  <2>1. RowStep(s) /\ s.do = "source"
    BY <1>1, RowSteps, SoundColumns
  <2>2. Proceeds(w, p) /\ abandoned' = abandoned
    BY <1>3 DEF MarkDryrunRunning
  <2>3. Tail(old.todo) = <<Call("publish")>>
    BY <1>1, TwoSteps
  <2>4. list = <<s, Call("publish")>>
    <3> HIDE DEF s
    <3> QED
      BY <2>3, Joined
  <2>5. /\ Fields(p) /\ p.op = old.op /\ p.target = old.target /\ p.run = old.run
        /\ p.todo = list /\ p.row = old.row /\ p.stale = old.stale /\ p.answer = old.answer
    <3>1. Fields(old)
      BY <1>1 DEF Shape
    <3> HIDE DEF old, list
    <3> QED
      BY <3>1 DEF Fields
  <2> HIDE DEF p, s, list
  <2>6. Triggering(p.todo) /\ (\A i \in 1 .. Len(p.todo) : p.todo[i].do \notin {"target", "create"})
    <3>1. /\ Two(p.todo) /\ p.todo[1] = s /\ p.todo[2] = Call("publish") /\ Len(p.todo) = 2
      <4>1. p.todo = <<s, Call("publish")>>
        BY <2>4, <2>5
      <4>2. \A a, b : LET q == <<a, b>> IN Two(q) /\ q[1] = a /\ q[2] = b /\ Len(q) = 2
        BY TwoSteps
      <4>3. LET q == <<s, Call("publish")>>
            IN  Two(q) /\ q[1] = s /\ q[2] = Call("publish") /\ Len(q) = 2
        BY <4>2, Zenon
      <4> QED
        BY <4>1, <4>3, Zenon
    <3> QED
      BY <2>1, <3>1, Calls DEF Triggering
  <2>7. old # Idle /\ old.target \in Targets /\ old.answer = None /\ old.op \in Controls
    BY <1>1, IdleShape DEF Shape, Plan
  <2>8. Shape(p)
    BY <1>1, <2>5, <2>6, <2>7 DEF Shape, Plan, FoundRow, HasTarget
  <2>9. Moved(w, p)
    BY <2>2, ProceedsMoves DEF IInv
  <2>10. Carries(w, p)
    BY <1>1, <2>5 DEF Carries
  <2> QED
    BY <1>0, <1>1, <1>2, <2>2, <2>5, <2>8, <2>9, <2>10, Step
<1>4. CASE ~ Found
  <2>1. Moved(w, Idle)
    BY <1>4, ProceedsMoves DEF MarkDryrunRunning, IInv
  <2>2. Leaves(w, Idle) /\ abandoned \subseteq abandoned'
    BY <1>4, IdleShape DEF Leaves, MarkDryrunRunning
  <2> QED
    BY <1>0, <1>2, <2>1, <2>2, IdleShape, Step
<1> QED
  BY <1>3, <1>4

(* A step after which a result is another: what is left to show is about   *)
(* the runs.                                                               *)
LEMMA ResultStep ==
  ASSUME IInv, Rows', NEW w \in Workers, NEW p, Moved(w, p), Shape(p), p.row = None,
         p.op = "completion" => w \in Consumers,
         Settled', Known', Waited', Claims',
         NoneEnded' => NoneEnded /\ source' = source
  PROVE  IInv'
<1>1. Handlers'
  BY HandlersFrame DEF IInv
<1>2. CASE ~ NoneEnded'
  <2>1. PausedRows'
    BY <1>2 DEF PausedRows
  <2> QED
    BY <1>1, <2>1 DEF IInv
<1>3. CASE NoneEnded'
  <2>1. Agrees(source) => Agrees(source')
    BY <1>3
  <2>2. PausedRows'
    BY <1>3, <2>1, PausedFrame DEF IInv
  <2> QED
    BY <1>1, <2>2 DEF IInv
<1> QED
  BY <1>2, <1>3

LEMMA CreateResultInv ==
  ASSUME IInv, NEW w \in Workers, CreateResult(w)
  PROVE  IInv'
<1> DEFINE old == work[w]
<1>1. /\ Shape(old) /\ old.todo # <<>> /\ First(old) = "insert"
      /\ old.op = "Trigger" /\ old.run = None /\ old.target \in Targets
      /\ old.todo = <<Call("insert"), Call("running"), Call("publish")>>
  BY Doings, InTrigger DEF CreateResult, IInv
<1>2. PICK r \in Runs :
        /\ {q \in Runs : result[q].status = "ABSENT"} = r .. MaxRuns
        /\ result' = [result EXCEPT ![r] = [status |-> "RUNNING", target |-> old.target]]
        /\ Writes(w, [Rest(w) EXCEPT !.run = r])
  BY DEF CreateResult
<1> DEFINE p == [Rest(w) EXCEPT !.run = r]
<1>3. result[r].status = "ABSENT"
  <2>1. r \in r .. MaxRuns
    BY DataSourceAssumption DEF Runs, DataSourceAssumption
  <2> QED
    BY <1>2, <2>1
<1>4. Rows'
  BY <1>1, <1>2, TornType DEF IInv, Rows, Result, CreateResult, brokerVars
<1>5. /\ Fields(p) /\ p.op = "Trigger" /\ p.target = old.target /\ p.run = r
      /\ p.todo = <<Call("running"), Call("publish")>> /\ p.row = None
      /\ p.stale = old.stale /\ p.answer = old.answer
  <2> DEFINE q == Tail(old.todo)
  <2>1. q = <<Call("running"), Call("publish")>> /\ q # <<>>
    BY <1>1, TwoSteps, ThreeSteps
  <2>2. Rest(w) = [old EXCEPT !.todo = q, !.row = None] /\ Fields(old)
    BY <1>1, <2>1 DEF Rest, Shape
  <2>3. p = [[old EXCEPT !.todo = q, !.row = None] EXCEPT !.run = r]
    BY <2>2
  <2> HIDE DEF q, p
  <2>4. /\ Fields(p) /\ p.op = old.op /\ p.target = old.target /\ p.run = r
        /\ p.todo = q /\ p.row = None /\ p.stale = old.stale /\ p.answer = old.answer
    <3> HIDE DEF old
    <3> QED
      BY <2>2, <2>3 DEF Fields
  <2> QED
    BY <1>1, <2>1, <2>4
<1>6. Writes(w, p)
  BY <1>2
<1> HIDE DEF p
<1>7. Shape(p)
  <2>1. old # Idle /\ old.answer = None /\ old.op \in Controls
    BY <1>1, IdleShape DEF Shape, Plan
  <2>2. Triggering(p.todo)
    BY <1>5 DEF Triggering
  <2>3. p.target # None
    BY <1>1, <1>5, DataSourceAssumption DEF DataSourceAssumption
  <2> QED
    BY <1>1, <1>5, <2>1, <2>2, <2>3 DEF Shape, Plan, FoundRow, HasTarget
<1>8. Moved(w, p)
  BY <1>6, WritesMoves DEF IInv
<1>9. \A q \in Runs \ {r} : result'[q] = result[q]
  BY <1>2 DEF IInv, Rows
<1>10. result'[r].status = "RUNNING" /\ result'[r].target = old.target
  BY <1>2 DEF IInv, Rows
<1>11. \A q \in Runs : Terminal(result[q].status) => result'[q] = result[q]
  BY <1>3, <1>9 DEF Terminal
<1>12. Settled'
  <2> SUFFICES ASSUME NEW v \in Workers, work'[v].op = "completion"
               PROVE  \/ CompleteStep(work'[v].todo[1])
                      \/ Terminal(result'[work'[v].run].status)
    BY DEF Settled
  <2>1. v # w /\ Shape(work'[v]) /\ Same(work[v], work'[v])
    BY <1>5, <1>8 DEF Moved, Kept
  <2>2. work[v].run \in Runs
    BY <2>1, IdleShape, DataSourceAssumption
    DEF Same, IInv, Handlers, Shape, Plan, DataSourceAssumption, ControlKinds
  <2> QED
    BY <1>11, <2>1, <2>2 DEF Same, IInv, Settled
<1>13. Known'
  <2>1. \A q \in Runs : Exists(q) => result'[q].status # "ABSENT"
    BY <1>9, <1>10 DEF Exists
  <2>2. \A q \in Runs : result'[q].status # "ABSENT" => result'[q].target \in Targets
    BY <1>1, <1>9, <1>10 DEF IInv, Known, Exists
  <2>3. UNCHANGED <<crawler, answers>>
    BY DEF CreateResult, brokerVars
  <2>4. \A q \in Runs : crawler'[q] > 0 => result'[q].status # "ABSENT"
    BY <2>1, <2>3 DEF IInv, Known
  <2>5. \A m \in answers' : result'[m.run].status # "ABSENT"
    BY <2>1, <2>3 DEF IInv, Known, Rows, Completion
  <2>6. ASSUME NEW v \in Workers, work'[v].run # None
        PROVE  result'[work'[v].run].status # "ABSENT"
    <3>1. CASE v = w
      BY <1>5, <1>8, <1>10, <3>1 DEF Moved
    <3>2. CASE v # w
      <4>1. work'[v].run = work[v].run /\ Shape(work[v])
        BY <1>8, <3>2 DEF Moved, Kept, Same, IInv, Handlers
      <4>2. work[v].run \in Runs
        BY <2>6, <4>1, IdleShape DEF Shape, Plan
      <4> QED
        BY <2>1, <2>6, <4>1, <4>2 DEF IInv, Known
    <3> QED
      BY <3>1, <3>2
  <2> QED
    BY <2>2, <2>4, <2>5, <2>6 DEF Known, Exists
<1>14. Waited'
  <2> SUFFICES ASSUME MaxAnswers > 0, NEW q \in Runs, result'[q].status = "RUNNING"
               PROVE  \/ q \in abandoned' \/ crawler'[q] > 0
                      \/ \E m \in answers' : m.run = q
                      \/ \E v \in Workers : work'[v].run = q
    BY DEF Waited, RunningIsWaitedFor
  <2>1. CASE q = r
    BY <1>5, <1>8, <2>1 DEF Moved
  <2>2. CASE q # r
    <3>1. \/ q \in abandoned \/ crawler[q] > 0
          \/ \E m \in answers : m.run = q
          \/ \E v \in Workers : work[v].run = q
      BY <1>9, <2>2 DEF IInv, Waited, RunningIsWaitedFor
    <3>2. UNCHANGED <<abandoned, crawler, answers>>
      BY DEF CreateResult, brokerVars
    <3>3. \A v \in Workers : work[v].run = q => work'[v].run = q
      BY <1>1, <1>8, DataSourceAssumption DEF Moved, Kept, Same, Runs, DataSourceAssumption
    <3> QED
      BY <3>1, <3>2, <3>3
  <2> QED
    BY <2>1, <2>2
<1>15. Claims'
  <2> SUFFICES ASSUME NEW v \in Workers
               PROVE  Alone(v)' /\ Decides(v)'
    BY DEF Claims
  <2>1. Alone(v) /\ Decides(v)
    BY DEF IInv, Claims
  <2>2. /\ ~ Exists(r) /\ r # None
        /\ UNCHANGED <<crawler, answers, disputed>>
    BY <1>3, DataSourceAssumption DEF Exists, CreateResult, brokerVars, Runs, DataSourceAssumption
  <2>3. /\ crawler[r] = 0 /\ (\A m \in answers : m.run # r)
        /\ \A u \in Workers : work[u].run # r
    BY <2>2, DataSourceAssumption DEF IInv, Rows, Known, DataSourceAssumption
  <2>4. \A u \in Workers \ {w} : Same(work[u], work'[u])
    BY <1>8 DEF Moved, Kept
  <2>5. CASE v = w
    <3>1. Alone(w)'
      BY <1>5, <1>8, <1>10, <2>2, <2>3, <2>4 DEF Alone, Moved, Same
    <3>2. Decides(w)'
      BY <1>5, <1>8 DEF Decides, Completes, Moved
    <3> QED
      BY <2>5, <3>1, <3>2
  <2>6. CASE v # w
    <3>1. work'[v].run # r
      BY <2>3, <2>4, <2>6 DEF Same
    <3>2. work'[v].run \in Runs => result'[work'[v].run] = result[work'[v].run]
      BY <1>9, <3>1
    <3>3. Alone(v)'
      BY <1>5, <1>8, <2>1, <2>2, <2>4, <2>6, <3>1, <3>2 DEF Alone, Moved, Same
    <3>4. work'[v].op = "completion" => work'[v].run \in Runs
      BY <1>8, <2>6, IdleShape, DataSourceAssumption
      DEF Moved, Kept, Shape, Plan, DataSourceAssumption, ControlKinds
    <3>5. Completes(v)' => Completes(v) /\ work'[v].run = work[v].run
      BY <2>4, <2>6 DEF Completes, Same
    <3>6. \A u \in Workers : Completes(u)' => Completes(u) /\ work'[u].run = work[u].run
      BY <1>5, <1>8, <2>4 DEF Completes, Moved, Same
    <3>7. Decides(v)'
      BY <2>1, <2>2, <3>2, <3>4, <3>5, <3>6 DEF Decides, Completes
    <3> QED
      BY <3>3, <3>7
  <2> QED
    BY <2>5, <2>6
<1>16. NoneEnded' => NoneEnded /\ source' = source
  BY <1>3, <1>11 DEF NoneEnded, CreateResult
<1> QED
  BY <1>4, <1>5, <1>7, <1>8, <1>12, <1>13, <1>14, <1>15, <1>16, ResultStep

(* A step that publishes, requeues or takes what is about a dry run.       *)
WaitsFor(r) == \/ r \in abandoned \/ crawler[r] > 0
               \/ \E m \in answers : m.run = r

LEMMA BrokerStep ==
  ASSUME IInv, Rows', Claims', NEW w \in Workers, NEW p, Moved(w, p), Shape(p), p.row = None,
         p.op = "completion" => w \in Consumers,
         UNCHANGED <<result, source>>,
         p.run # None => Exists(p.run),
         p.op = "completion" =>
           CompleteStep(p.todo[1]) \/ Terminal(result[p.run].status),
         \A r \in Runs : crawler'[r] > 0 => Exists(r),
         \A m \in answers' : Exists(m.run),
         MaxAnswers > 0 =>
           \A r \in Runs : result[r].status = "RUNNING" /\ (WaitsFor(r) \/ work[w].run = r) =>
                             WaitsFor(r)' \/ p.run = r
  PROVE  IInv'
<1>1. Settled'
  BY DEF IInv, Settled, Moved, Kept, Same
<1>2. Known'
  BY DEF IInv, Known, Exists, Moved, Kept, Same
<1>3. Waited'
  <2> SUFFICES ASSUME MaxAnswers > 0, NEW r \in Runs, result[r].status = "RUNNING", ~ WaitsFor(r)'
               PROVE  \E v \in Workers : work'[v].run = r
    BY DEF Waited, RunningIsWaitedFor, WaitsFor
  <2>1. CASE p.run = r
    BY <2>1 DEF Moved
  <2>2. CASE p.run # r
    <3>1. ~ WaitsFor(r) /\ work[w].run # r
      BY <2>2
    <3>2. PICK v \in Workers : work[v].run = r
      BY <3>1 DEF IInv, Waited, RunningIsWaitedFor, WaitsFor
    <3> QED
      BY <3>1, <3>2 DEF Moved, Kept, Same
  <2> QED
    BY <2>1, <2>2
<1>4. NoneEnded' => NoneEnded
  BY DEF NoneEnded
<1> QED
  BY <1>1, <1>2, <1>3, <1>4, ResultStep

(* The same for a step that is no handler's.                               *)
LEMMA OtherBrokerStep ==
  ASSUME IInv, Rows', Claims', UNCHANGED <<work, result, source>>,
         \A r \in Runs : crawler'[r] > 0 => Exists(r),
         \A m \in answers' : Exists(m.run),
         \A r \in Runs : WaitsFor(r) => WaitsFor(r)'
  PROVE  IInv'
<1>1. Handlers'
  BY DEF IInv, Handlers
<1>2. Settled'
  BY DEF IInv, Settled
<1>3. Known'
  BY DEF IInv, Known, Exists
<1>4. Waited'
  BY DEF IInv, Waited, RunningIsWaitedFor, WaitsFor
<1>5. PausedRows'
  BY DEF IInv, PausedRows, NoneEnded, Agrees, Doing
<1> QED
  BY <1>1, <1>2, <1>3, <1>4, <1>5 DEF IInv

(* Who is at a dry run of its own, or decides one, goes on with it when    *)
(* what is sent and received is about the dry runs of others.              *)
LEMMA ClaimsKept ==
  ASSUME IInv, NEW w \in Workers, NEW p, Moved(w, p), result' = result,
         disputed \subseteq disputed',
         p.run = None \/ p.run = work[w].run,
         \A v \in Workers \ {w} : work[v].op = "Trigger"
                                  /\ work[v].run \in Runs \ disputed' =>
           /\ crawler'[work[v].run] = crawler[work[v].run]
           /\ \A m \in answers' : m.run = work[v].run => m \in answers,
         Alone(w)' /\ Decides(w)'
  PROVE  Claims'
<1> SUFFICES ASSUME NEW v \in Workers, v # w
             PROVE  Alone(v)' /\ Decides(v)'
  BY DEF Claims
<1>1. Alone(v) /\ Decides(v)
  BY DEF IInv, Claims
<1>2. \A u \in Workers \ {w} : Same(work[u], work'[u])
  BY DEF Moved, Kept
<1>3. work'[w].run = None \/ work'[w].run = work[w].run
  BY DEF Moved
<1>4. Alone(v)'
  <2> SUFFICES ASSUME work[v].op = "Trigger", work[v].run \in Runs \ disputed'
               PROVE  /\ result'[work[v].run].status = "RUNNING"
                      /\ crawler'[work[v].run] = 0
                      /\ \A m \in answers' : m.run # work[v].run
                      /\ \A u \in Workers \ {v} : work'[u].run # work[v].run
    BY <1>2 DEF Alone, Same
  <2>1. /\ result[work[v].run].status = "RUNNING" /\ crawler[work[v].run] = 0
        /\ \A m \in answers : m.run # work[v].run
        /\ \A u \in Workers \ {v} : work[u].run # work[v].run
    BY <1>1 DEF Alone
  <2>2. /\ crawler'[work[v].run] = crawler[work[v].run]
        /\ \A m \in answers' : m.run = work[v].run => m \in answers
    OBVIOUS
  <2>3. work[v].run # None
    BY DataSourceAssumption DEF Runs, DataSourceAssumption
  <2>4. \A u \in Workers \ {v} : work'[u].run # work[v].run
    BY <1>2, <1>3, <2>1, <2>3 DEF Same
  <2> QED
    BY <2>1, <2>2, <2>4
<1>5. Decides(v)'
  <2> SUFFICES ASSUME Completes(v), work[v].run \notin disputed'
               PROVE  /\ ~ Terminal(result'[work[v].run].status)
                      /\ \A u \in Workers \ {v} : Completes(u)' => work'[u].run # work[v].run
    BY <1>2 DEF Decides, Completes, Same
  <2>1. /\ ~ Terminal(result[work[v].run].status)
        /\ \A u \in Workers \ {v} : Completes(u) => work[u].run # work[v].run
    BY <1>1 DEF Decides
  <2>2. Completes(w)' => work'[w].run # work[v].run
    BY <1>2 DEF Decides, Completes, Same
  <2> QED
    BY <1>2, <2>1, <2>2 DEF Completes, Same
<1> QED
  BY <1>4, <1>5

LEMMA IdleClaims ==
  ASSUME NEW w \in Workers, work'[w] = Idle
  PROVE  Alone(w)' /\ Decides(w)'
BY IdleShape DEF Alone, Decides, Completes

LEMMA Publishing ==
  ASSUME IInv, NEW w \in Workers, Doing(w, "publish")
  PROVE  /\ Shape(work[w]) /\ work[w].op = "Trigger" /\ work[w].op \in Controls
         /\ work[w].run \in Runs /\ Exists(work[w].run) /\ work[w].row = None
         /\ work[w].target \in Targets /\ work[w].answer = None
         /\ work[w].todo = <<Call("publish")>> /\ work[w].run # None
<1>1. Shape(work[w]) /\ work[w].todo # <<>> /\ First(work[w]) = "publish"
  BY Doings DEF IInv
<1>2. /\ work[w].op = "Trigger" /\ work[w].run \in Runs /\ work[w].todo = <<Call("publish")>>
  BY <1>1, InTrigger
<1>3. work[w].run # None
  BY <1>2, DataSourceAssumption DEF Runs, DataSourceAssumption
<1>4. work[w].row = None
  BY <1>1 DEF Shape, FoundRow, First
<1>5. work[w].target \in Targets /\ work[w].answer = None /\ work[w].op \in Controls
  BY <1>1, <1>2, IdleShape DEF Shape, Plan
<1> QED
  BY <1>1, <1>2, <1>3, <1>4, <1>5 DEF IInv, Known

LEMMA DeliveredTask ==
  ASSUME IInv, NEW r \in Runs, Exists(r), Delivered(r)
  PROVE  /\ crawler' \in [Runs -> 0 .. MaxAnswers]
         /\ \A q \in Runs : crawler'[q] > 0 => Exists(q)
         /\ MaxAnswers > 0 => crawler'[r] > 0
         /\ \A q \in Runs \ {r} : crawler'[q] = crawler[q]
<1>1. MaxAnswers \in 0 .. MaxAnswers
  BY DataSourceAssumption DEF DataSourceAssumption
<1> QED
  BY <1>1 DEF Delivered, IInv, Rows, Known

LEMMA PublishDispatchInv ==
  ASSUME IInv, NEW w \in Workers, PublishDispatch(w)
  PROVE  IInv'
<1>1. /\ Doing(w, "publish") /\ Delivered(work[w].run) /\ Proceeds(w, Rest(w))
      /\ UNCHANGED <<source, target, result, audited, answers, torn, abandoned, disputed>>
  BY DEF PublishDispatch, rowVars, historyVars
<1>2. Rest(w) = Idle
  BY <1>1, Publishing, OneStep DEF Rest
<1>3. Rows'
  BY <1>1, Publishing, DeliveredTask DEF IInv, Rows
<1>4. Moved(w, Idle)
  BY <1>1, <1>2, ProceedsMoves DEF IInv
<1>5. \A r \in Runs : crawler'[r] > 0 => Exists(r)
  BY <1>1, Publishing, DeliveredTask
<1>6. \A m \in answers' : Exists(m.run)
  BY <1>1 DEF IInv, Known
<1>7. MaxAnswers > 0 =>
        \A r \in Runs : WaitsFor(r) \/ work[w].run = r => WaitsFor(r)'
  BY <1>1, Publishing, DeliveredTask DEF WaitsFor
<1>8. Claims'
  <2>1. \A v \in Workers \ {w} : work[v].op = "Trigger"
                                 /\ work[v].run \in Runs \ disputed' =>
          crawler'[work[v].run] = crawler[work[v].run]
    BY <1>1, Publishing, DeliveredTask DEF IInv, Claims, Alone
  <2> QED
    BY <1>1, <1>4, <2>1, IdleShape, IdleClaims, ClaimsKept DEF Moved
<1> QED
  BY <1>1, <1>3, <1>4, <1>5, <1>6, <1>7, <1>8, IdleShape, BrokerStep

LEMMA PublishFailsInv ==
  ASSUME IInv, NEW w \in Workers, PublishFails(w)
  PROVE  IInv'
<1> DEFINE old == work[w]
           todo == <<Complete("FAILED")>>
           p == [old EXCEPT !.todo = todo]
<1>1. /\ Doing(w, "publish") /\ Proceeds(w, p)
      /\ \/ Delivered(old.run) /\ disputed' = disputed \cup {old.run}
         \/ UNCHANGED <<crawler, disputed>>
      /\ UNCHANGED <<source, target, result, audited, answers, torn, abandoned>>
  BY DEF PublishFails, rowVars
<1>2. /\ Fields(p) /\ p.op = old.op /\ p.target = old.target /\ p.run = old.run
      /\ p.todo = todo /\ p.row = old.row /\ p.stale = old.stale /\ p.answer = old.answer
  <2>1. Fields(old)
    BY <1>1, Publishing DEF Shape
  <2> HIDE DEF old, todo
  <2> QED
    BY <2>1 DEF Fields
<1> HIDE DEF p
<1>3. Shape(p)
  <2>1. Triggering(p.todo)
    BY <1>2 DEF Triggering
  <2>2. p.target # None
    BY <1>1, <1>2, Publishing, DataSourceAssumption DEF DataSourceAssumption
  <2> QED
    BY <1>1, <1>2, <2>1, <2>2, Publishing DEF Shape, Plan, FoundRow, HasTarget
<1>4. Rows'
  BY <1>1, Publishing, DeliveredTask DEF IInv, Rows
<1>5. Moved(w, p)
  BY <1>1, ProceedsMoves DEF IInv
<1>6. \A r \in Runs : crawler'[r] > 0 => Exists(r)
  BY <1>1, Publishing, DeliveredTask DEF IInv, Known
<1>7. \A m \in answers' : Exists(m.run)
  BY <1>1 DEF IInv, Known
<1>8. \A r \in Runs : WaitsFor(r) \/ old.run = r => WaitsFor(r)' \/ p.run = r
  BY <1>1, <1>2, Publishing, DeliveredTask DEF WaitsFor
<1>9. Claims'
  <2>1. ASSUME NEW v \in Workers \ {w}, work[v].op = "Trigger",
               work[v].run \in Runs \ disputed'
        PROVE  crawler'[work[v].run] = crawler[work[v].run]
    BY <1>1, <2>1, Publishing, DeliveredTask DEF IInv, Claims, Alone
  <2>2. p.op = "Trigger" /\ p.run = old.run
    BY <1>1, <1>2, Publishing
  <2>3. Decides(w)'
    BY <1>5, <2>2 DEF Decides, Completes, Moved
  <2>4. Alone(w)'
    <3>1. CASE old.run \in disputed'
      BY <1>5, <2>2, <3>1 DEF Alone, Moved
    <3>2. CASE old.run \notin disputed'
      <4>1. UNCHANGED <<crawler, disputed>>
        BY <1>1, <3>2
      <4>2. Alone(w) /\ old.op = "Trigger"
        BY <1>1, Publishing DEF IInv, Claims
      <4> QED
        BY <1>1, <1>5, <2>2, <4>1, <4>2 DEF Alone, Moved, Kept, Same
    <3> QED
      BY <3>1, <3>2
  <2> QED
    BY <1>1, <1>2, <1>5, <2>1, <2>3, <2>4, ClaimsKept
<1> HIDE DEF todo
<1> QED
  BY <1>1, <1>2, <1>3, <1>4, <1>5, <1>6, <1>7, <1>8, <1>9, Publishing, BrokerStep

(* A handler that stops: its completion goes back, its Trigger gives up.   *)
LEMMA StopsInv ==
  ASSUME IInv, NEW w \in Workers, Stops(w), torn' \in BOOLEAN
  PROVE  IInv'
<1> DEFINE old == work[w]
<1>1. /\ Proceeds(w, Idle) /\ answers' = Requeued(w)
      /\ abandoned' = IF old.op = "Trigger" /\ old.run # None
                      THEN abandoned \cup {old.run} ELSE abandoned
      /\ UNCHANGED <<source, target, result, audited, crawler, disputed>>
  BY DEF Stops, rowVars
<1>2. Shape(old)
  BY DEF IInv, Handlers
<1>3. old.run # None => old.run \in Runs /\ Exists(old.run)
  BY <1>2, IdleShape DEF Shape, Plan, IInv, Known
<1>4. \/ old.answer = None
      \/ old.answer \in Completion /\ old.answer # None /\ old.answer.run = old.run /\ old.run \in Runs
  BY <1>2, NoCompletionIsNone DEF Shape, Plan, Idle
<1>5. \/ old.run = None \/ old.op = "Trigger"
      \/ old.answer \in Completion /\ old.answer # None /\ old.answer.run = old.run
  BY <1>2, NoCompletionIsNone, IdleShape DEF Shape, Plan
<1>6. answers \subseteq answers' /\ (\A m \in answers' : m \in answers \/ (m = old.answer /\ m # None))
      /\ (old.answer # None => old.answer \in answers')
  BY <1>1 DEF Requeued
<1>7. Rows'
  BY <1>1, <1>3, <1>4, <1>6 DEF IInv, Rows
<1>8. Moved(w, Idle)
  BY <1>1, ProceedsMoves DEF IInv
<1>9. \A r \in Runs : crawler'[r] > 0 => Exists(r)
  BY <1>1 DEF IInv, Known
<1>10. \A m \in answers' : Exists(m.run)
  BY <1>3, <1>4, <1>6, DataSourceAssumption DEF IInv, Known, Runs, DataSourceAssumption
<1>11. \A r \in Runs : WaitsFor(r) \/ old.run = r => WaitsFor(r)'
  <2>1. ASSUME NEW r \in Runs, WaitsFor(r)
        PROVE  WaitsFor(r)'
    BY <1>1, <1>6, <2>1 DEF WaitsFor
  <2>2. ASSUME NEW r \in Runs, old.run = r
        PROVE  WaitsFor(r)'
    <3>1. r # None
      BY DataSourceAssumption DEF Runs, DataSourceAssumption
    <3>2. CASE old.op = "Trigger"
      BY <1>1, <2>2, <3>1, <3>2 DEF WaitsFor
    <3>3. CASE old.op # "Trigger"
      BY <1>5, <1>6, <2>2, <3>1, <3>3 DEF WaitsFor
    <3> QED
      BY <3>2, <3>3
  <2> QED
    BY <2>1, <2>2
<1>12. Claims'
  <2>1. ASSUME NEW v \in Workers \ {w}, work[v].op = "Trigger",
               work[v].run \in Runs \ disputed', NEW m \in answers', m.run = work[v].run
        PROVE  m \in answers
    <3>1. old.run # work[v].run
      BY <1>1, <2>1 DEF IInv, Claims, Alone
    <3>2. m = old.answer /\ m # None => m.run = old.run
      BY <1>4
    <3> QED
      BY <1>6, <2>1, <3>1, <3>2
  <2> QED
    BY <1>1, <1>8, <2>1, IdleShape, IdleClaims, ClaimsKept DEF Moved
<1> QED
  BY <1>1, <1>7, <1>8, <1>9, <1>10, <1>11, <1>12, IdleShape, BrokerStep

LEMMA AbortInv ==
  ASSUME IInv, NEW w \in Workers, Abort(w)
  PROVE  IInv'
<1>1. torn' \in BOOLEAN
  BY DEF Abort, Halfway, IInv, Rows, Doing
<1> QED
  BY <1>1, StopsInv DEF Abort

LEMMA BeginCompleteInv ==
  ASSUME IInv, NEW w \in Workers, BeginComplete(w)
  PROVE  IInv'
<1>1. Doing(w, "complete") /\ work[w].row = None /\ torn' = torn
  BY DEF BeginComplete
<1>2. CASE ~ Found
  BY <1>1, <1>2, StopsInv DEF BeginComplete, IInv, Rows
<1>3. CASE Found
  <2> DEFINE old == work[w]
             p == [old EXCEPT !.row = source, !.stale = FALSE]
  <2>1. /\ Proceeds(w, p)
        /\ UNCHANGED <<source, target, result, audited, crawler, answers, abandoned, disputed>>
    BY <1>3 DEF BeginComplete, rowVars, brokerVars
  <2>2. /\ Shape(old) /\ old.todo # <<>> /\ First(old) = "complete" /\ Head(old.todo) = old.todo[1]
        /\ old.op = "completion" => w \in Consumers
    BY <1>1, Doings DEF IInv
  <2>3. /\ Fields(p) /\ p.op = old.op /\ p.target = old.target /\ p.run = old.run
        /\ p.todo = old.todo /\ p.row = source /\ p.stale = FALSE /\ p.answer = old.answer
    <3>1. Fields(old)
      BY <2>2 DEF Shape
    <3> HIDE DEF old
    <3> QED
      BY <3>1 DEF Fields
  <2> HIDE DEF p
  <2>4. Shape(p)
    <3>1. p # Idle /\ old # Idle
      BY <2>2, <2>3, IdleShape
    <3>2. Plan(p)
      BY <2>2, <2>3, <3>1 DEF Shape, Plan
    <3>3. FoundRow(p)
      BY <2>2, <2>3 DEF FoundRow, First, IInv, Rows
    <3> QED
      BY <2>2, <2>3, <3>2, <3>3 DEF Shape, HasTarget
  <2>5. Rows'
    BY <1>1, <2>1 DEF IInv, Rows
  <2>6. Moved(w, p)
    BY <2>1, ProceedsMoves DEF IInv
  <2>7. Carries(w, p)
    BY <2>3 DEF Carries
  <2>8. Agrees(source) => Agrees(source')
    BY <2>1
  <2> QED
    BY <2>1, <2>2, <2>3, <2>4, <2>5, <2>6, <2>7, <2>8, Step
<1> QED
  BY <1>2, <1>3

LEMMA CrawlerAnswersInv ==
  ASSUME IInv, NEW r \in Runs, CrawlerAnswers(r)
  PROVE  IInv'
<1>1. PICK kind \in {"success", "error"} \cup ({"malformed"} \cap Faults) :
        answers' = answers \cup {[run |-> r, kind |-> kind]}
  BY DEF CrawlerAnswers
<1> DEFINE m == [run |-> r, kind |-> kind]
<1>2. /\ crawler[r] > 0 /\ crawler' = [crawler EXCEPT ![r] = @ - 1]
      /\ UNCHANGED <<source, target, result, audited, work, torn, abandoned, disputed>>
  BY DEF CrawlerAnswers, rowVars, historyVars
<1>3. m \in Completion /\ m.run = r /\ m \in answers' /\ Exists(r)
  BY <1>1, <1>2 DEF Completion, IInv, Known
<1>4. /\ crawler' \in [Runs -> 0 .. MaxAnswers]
      /\ \A q \in Runs : crawler'[q] > 0 => crawler[q] > 0
      /\ \A q \in Runs \ {r} : crawler'[q] = crawler[q]
  BY <1>2, DataSourceAssumption DEF IInv, Rows, DataSourceAssumption
<1> HIDE DEF m
<1>5. answers \subseteq answers' /\ (\A n \in answers' : n \in answers \/ n = m)
  BY <1>1 DEF m
<1>6. Rows'
  BY <1>2, <1>3, <1>4, <1>5 DEF IInv, Rows
<1>7. \A q \in Runs : WaitsFor(q) => WaitsFor(q)'
  BY <1>2, <1>3, <1>4, <1>5 DEF WaitsFor
<1>8. \A q \in Runs : crawler'[q] > 0 => Exists(q)
  BY <1>4 DEF IInv, Known
<1>9. \A n \in answers' : Exists(n.run)
  BY <1>3, <1>5 DEF IInv, Known
<1>10. Claims'
  <2> SUFFICES ASSUME NEW v \in Workers
               PROVE  Alone(v)' /\ Decides(v)'
    BY DEF Claims
  <2>1. Alone(v) /\ Decides(v)
    BY DEF IInv, Claims
  <2>2. Alone(v)'
    BY <1>2, <1>3, <1>4, <1>5, <2>1 DEF Alone
  <2>3. Decides(v)'
    BY <1>2, <2>1 DEF Decides, Completes
  <2> QED
    BY <2>2, <2>3
<1> QED
  BY <1>2, <1>6, <1>7, <1>8, <1>9, <1>10, OtherBrokerStep

LEMMA CompleteResultInv ==
  ASSUME IInv, NEW w \in Workers, CompleteResult(w)
  PROVE  IInv'
<1> DEFINE old == work[w]
           r == old.run
           verdict == Head(old.todo).verdict
<1>1. /\ Doing(w, "complete") /\ old.row # None
      /\ result' = [result EXCEPT ![r].status = verdict]
      /\ source' = Merge(source, Synchronized(w))
      /\ target' = IF verdict = "SUCCESS"
                   THEN [target EXCEPT ![result[r].target].active = TRUE] ELSE target
      /\ Writes(w, Rest(w))
      /\ UNCHANGED <<audited, crawler, answers, abandoned, disputed>>
  <2>1. /\ Doing(w, "complete") /\ old.row # None
        /\ result' = [result EXCEPT ![r].status = verdict]
        /\ Writes(w, Rest(w))
    BY DEF CompleteResult
  <2>2. source' = Merge(source, Synchronized(w))
    BY DEF CompleteResult
  <2>3. target' = IF verdict = "SUCCESS"
                  THEN [target EXCEPT ![result[r].target].active = TRUE] ELSE target
    BY DEF CompleteResult
  <2>4. UNCHANGED <<audited, crawler, answers, abandoned, disputed>>
    BY DEF CompleteResult, brokerVars
  <2> QED
    BY <2>1, <2>2, <2>3, <2>4
<1>2. /\ Shape(old) /\ old.todo # <<>> /\ First(old) = "complete" /\ Head(old.todo) = old.todo[1]
      /\ old.op = "completion" => w \in Consumers
  BY <1>1, Doings DEF IInv
<1>3. /\ verdict \in {"SUCCESS", "FAILED"} /\ r \in Runs /\ r # None /\ Exists(r)
      /\ result[r].target \in Targets /\ old.row \in Source
  <2>1. CompleteStep(old.todo[1]) /\ r \in Runs
    BY <1>2, InCompletion
  <2>2. r # None
    BY <2>1, DataSourceAssumption DEF Runs, DataSourceAssumption
  <2>3. Exists(r) /\ result[r].target \in Targets
    BY <2>1, <2>2 DEF IInv, Known
  <2>4. old.row \in Source
    BY <1>1, <1>2 DEF Shape, FoundRow, First
  <2> QED
    BY <1>2, <2>1, <2>2, <2>3, <2>4 DEF CompleteStep
<1>4. source' \in Source
  <2> DEFINE set == [status |-> StatusAfter(verdict, old.row.status), dry |-> verdict, last |-> r]
  <2>1. StatusAfter(verdict, old.row.status) \in SourceStatus
    BY <1>3 DEF StatusAfter, SourceStatus, Source
  <2>2. Typed(set)
    BY <1>3, <2>1 DEF Typed, DryrunStatus
  <2>3. source' = Merge(source, set)
    BY <1>1 DEF Synchronized
  <2> HIDE DEF set
  <2> QED
    BY <2>2, <2>3, MergedType DEF IInv, Rows
<1>5. result' \in [Runs -> Result]
  BY <1>1, <1>3 DEF IInv, Rows, Result
<1>6. target' \in [Targets -> Target]
  BY <1>1 DEF IInv, Rows, Target
<1>7. Rows'
  BY <1>1, <1>4, <1>5, <1>6, TornType DEF IInv, Rows
<1>8. /\ Shape(Rest(w)) /\ Rest(w).row = None
      /\ \/ Rest(w) = Idle
         \/ /\ Rest(w).op = old.op /\ Rest(w).run = r
  BY <1>2, RestShape
<1>9. Moved(w, Rest(w))
  BY <1>1, WritesMoves DEF IInv
<1>10. /\ result'[r].status = verdict /\ result'[r].target = result[r].target
       /\ \A q \in Runs \ {r} : result'[q] = result[q]
  BY <1>1, <1>3 DEF IInv, Rows, Result
<1>11. Terminal(result'[r].status) /\ result'[r].status # "ABSENT"
  BY <1>3, <1>10 DEF Terminal
<1> HIDE DEF verdict
<1>12. Settled'
  <2> SUFFICES ASSUME NEW v \in Workers, work'[v].op = "completion",
                      ~ CompleteStep(work'[v].todo[1])
               PROVE  Terminal(result'[work'[v].run].status)
    BY DEF Settled
  <2>1. CASE v = w
    BY <1>8, <1>9, <1>11, <2>1, IdleShape DEF Moved
  <2>2. CASE v # w
    <3>1. Same(work[v], work'[v]) /\ Shape(work[v])
      BY <1>9, <2>2 DEF Moved, Kept, IInv, Handlers
    <3>2. work[v].run \in Runs
      BY <3>1, IdleShape, DataSourceAssumption
      DEF Same, Shape, Plan, DataSourceAssumption, ControlKinds
    <3>3. Terminal(result[work[v].run].status)
      BY <3>1 DEF IInv, Settled, Same
    <3> QED
      BY <1>10, <1>11, <3>1, <3>2, <3>3 DEF Same
  <2> QED
    BY <2>1, <2>2
<1>13. Known'
  <2>1. \A q \in Runs : Exists(q) <=> result'[q].status # "ABSENT"
    BY <1>3, <1>10, <1>11 DEF Exists
  <2>2. \A q \in Runs : result'[q].target = result[q].target
    BY <1>10
  <2>3. \A v \in Workers : work'[v].run # None =>
          work'[v].run \in Runs /\ Exists(work'[v].run)
    <3>1. ASSUME NEW v \in Workers, work'[v].run # None
          PROVE  work'[v].run \in Runs /\ Exists(work'[v].run)
      <4>1. CASE v = w
        BY <1>3, <1>8, <1>9, <3>1, <4>1, IdleShape DEF Moved
      <4>2. CASE v # w
        <5>1. work'[v].run = work[v].run /\ Shape(work[v])
          BY <1>9, <4>2 DEF Moved, Kept, Same, IInv, Handlers
        <5> QED
          BY <3>1, <5>1, IdleShape DEF Shape, Plan, IInv, Known
      <4> QED
        BY <4>1, <4>2
    <3> QED
      BY <3>1
  <2>4. \A m \in answers' : m.run \in Runs /\ Exists(m.run)
    BY <1>1 DEF IInv, Known, Rows, Completion
  <2> QED
    BY <1>1, <2>1, <2>2, <2>3, <2>4 DEF IInv, Known, Exists
<1>14. Waited'
  <2> SUFFICES ASSUME MaxAnswers > 0, NEW q \in Runs, result'[q].status = "RUNNING"
               PROVE  \/ q \in abandoned' \/ crawler'[q] > 0
                      \/ \E m \in answers' : m.run = q
                      \/ \E v \in Workers : work'[v].run = q
    BY DEF Waited, RunningIsWaitedFor
  <2>1. q # r /\ result[q].status = "RUNNING"
    BY <1>10, <1>11 DEF Terminal
  <2>2. \/ q \in abandoned \/ crawler[q] > 0
        \/ \E m \in answers : m.run = q
        \/ \E v \in Workers : work[v].run = q
    BY <2>1 DEF IInv, Waited, RunningIsWaitedFor
  <2>3. \A v \in Workers : work[v].run = q => work'[v].run = q
    BY <1>9, <2>1 DEF Moved, Kept, Same
  <2> QED
    BY <1>1, <2>2, <2>3
<1>15. Claims'
  <2> SUFFICES ASSUME NEW v \in Workers
               PROVE  Alone(v)' /\ Decides(v)'
    BY DEF Claims
  <2>1. /\ Alone(v) /\ Decides(v) /\ Alone(w)
        /\ UNCHANGED <<crawler, answers, disputed>>
    BY <1>1 DEF IInv, Claims
  <2>2. \A u \in Workers \ {w} : Same(work[u], work'[u]) /\ Shape(work'[u])
    BY <1>9 DEF Moved, Kept
  <2>3. work'[w] = Rest(w)
    BY <1>9 DEF Moved
  <2>4. CASE v = w
    <3>1. Rest(w).op # "Trigger"
      <4>1. CASE old.op = "Trigger"
        <5>1. Rest(w) = Idle
          <6>1. old.todo = <<Complete("FAILED")>>
            BY <1>2, <4>1, InCompletion
          <6>2. Tail(old.todo) = <<>>
            BY <6>1, OneStep
          <6> QED
            BY <6>2 DEF Rest
        <5> QED
          BY <5>1, IdleShape
      <4>2. CASE old.op # "Trigger"
        BY <1>8, <4>2, IdleShape
      <4> QED
        BY <4>1, <4>2
    <3>2. Alone(w)'
      BY <2>3, <3>1 DEF Alone
    <3>3. Rest(w).op = "completion" => ~ CompleteStep(Rest(w).todo[1])
      BY <1>2, RestShape, IdleShape
    <3>4. Decides(w)'
      BY <2>3, <3>3 DEF Decides, Completes
    <3> QED
      BY <2>4, <3>2, <3>4
  <2>5. CASE v # w
    <3>1. Alone(v)'
      <4> SUFFICES ASSUME work[v].op = "Trigger", work[v].run \in Runs \ disputed
                   PROVE  /\ result'[work[v].run].status = "RUNNING"
                          /\ crawler[work[v].run] = 0
                          /\ \A m \in answers : m.run # work[v].run
                          /\ \A u \in Workers \ {v} : work'[u].run # work[v].run
        BY <2>1, <2>2, <2>5 DEF Alone, Same
      <4>1. /\ result[work[v].run].status = "RUNNING" /\ crawler[work[v].run] = 0
            /\ \A m \in answers : m.run # work[v].run
            /\ \A u \in Workers \ {v} : work[u].run # work[v].run
        BY <2>1 DEF Alone
      <4>2. work[v].run # r /\ work[v].run # None
        BY <2>5, <4>1, DataSourceAssumption DEF Runs, DataSourceAssumption
      <4>3. work'[w].run # work[v].run
        BY <1>8, <2>3, <4>2, IdleShape
      <4> QED
        BY <1>10, <2>2, <4>1, <4>2, <4>3 DEF Same
    <3>2. Decides(v)'
      <4> SUFFICES ASSUME Completes(v), work[v].run \notin disputed
                   PROVE  /\ ~ Terminal(result'[work[v].run].status)
                          /\ \A u \in Workers \ {v} : Completes(u)' => work'[u].run # work[v].run
        BY <2>1, <2>2, <2>5 DEF Decides, Completes, Same
      <4>1. /\ ~ Terminal(result[work[v].run].status)
            /\ \A u \in Workers \ {v} : Completes(u) => work[u].run # work[v].run
        BY <2>1 DEF Decides, Completes
      <4>2. work[v].run \in Runs
        BY <2>2, <2>5, IdleShape, DataSourceAssumption
        DEF IInv, Handlers, Shape, Plan, Completes, DataSourceAssumption, ControlKinds
      <4>3. work[v].run # r
        <5>1. CASE old.op = "completion"
          <6>1. Completes(w)
            BY <1>2, <5>1, InCompletion DEF Completes
          <6> QED
            BY <2>5, <4>1, <6>1
        <5>2. CASE old.op # "completion"
          <6>1. old.op = "Trigger"
            BY <1>2, <5>2, InCompletion
          <6> QED
            BY <1>3, <2>1, <2>5, <6>1 DEF Alone, Completes
        <5> QED
          BY <5>1, <5>2
      <4>4. ~ Completes(w)'
        BY <1>2, <2>3, RestShape, IdleShape DEF Completes
      <4> QED
        BY <1>10, <2>2, <4>1, <4>2, <4>3, <4>4 DEF Completes, Same
    <3> QED
      BY <3>1, <3>2
  <2> QED
    BY <2>4, <2>5
<1>16. ~ NoneEnded'
  BY <1>3, <1>11 DEF NoneEnded
<1> QED
  BY <1>2, <1>7, <1>8, <1>9, <1>12, <1>13, <1>14, <1>15, <1>16, IdleShape, ResultStep

(* What a consumer does about a completion, before it acks.                *)
LEMMA HandledShape ==
  ASSUME IInv, NEW m \in answers, m.kind # "malformed", NEW todo \in Handled(m)
  PROVE  LET list == todo \o <<Call("ack")>>
         IN  \/ Completing(list) /\ ~ Terminal(result[m.run].status)
             \/ Acking(list) /\ Terminal(result[m.run].status)
<1> DEFINE ack == Call("ack")
           list == todo \o <<ack>>
<1>1. CASE Terminal(result[m.run].status)
  <2> DEFINE t == result[m.run].target
             s == TargetRow([active |-> TRUE])
             u == FullRow([status |-> "READY", dry |-> "NOT_REQUIRED"])
  <2>1. RowStep(s) /\ RowStep(u)
    BY RowSteps, TargetSets, SoundColumns
  <2>2. todo = <<>> \/ todo = <<s>> \o <<u>> \/ todo = <<s>> \o <<>>
    BY <1>1 DEF Handled, Activation, Promotion
  <2> HIDE DEF s, u, ack
  <2>3. list = <<ack>> \/ list = <<s, u, ack>> \/ list = <<s, ack>>
    BY <2>2, Joined
  <2> HIDE DEF list
  <2>4. Acking(list)
    <3>1. CASE list = <<ack>>
      BY <3>1 DEF Acking, ack
    <3>2. CASE list = <<s, u, ack>>
      <4>1. Three(list) /\ list[1] = s /\ list[2] = u /\ list[3] = ack
        BY <3>2, ThreeSteps
      <4> QED
        BY <2>1, <4>1 DEF Acking, ack
    <3>3. CASE list = <<s, ack>>
      <4>1. Two(list) /\ list[1] = s /\ list[2] = ack
        BY <3>3, TwoSteps
      <4> QED
        BY <2>1, <4>1 DEF Acking, ack
    <3> QED
      BY <2>3, <3>1, <3>2, <3>3
  <2> QED
    BY <1>1, <2>4 DEF list, ack
<1>2. CASE ~ Terminal(result[m.run].status)
  <2>1. PICK v \in Decided(m) : todo = <<Complete(v)>>
    BY <1>2 DEF Handled
  <2>2. CompleteStep(Complete(v))
    BY DEF Decided, CompleteStep, Complete
  <2> DEFINE s == Complete(v)
  <2> HIDE DEF s, ack
  <2>3. list = <<s, ack>>
    BY <2>1, Joined DEF s
  <2> HIDE DEF list
  <2>4. Completing(list)
    <3>1. Two(list) /\ list[1] = s /\ list[2] = ack
      BY <2>3, TwoSteps
    <3> QED
      BY <2>2, <3>1 DEF Completing, ack, s
  <2> QED
    BY <1>2, <2>4 DEF list, ack
<1> QED
  BY <1>1, <1>2

LEMMA AckingIsNone ==
  ASSUME NEW q, Acking(q)
  PROVE  ~ CompleteStep(q[1])
BY OneStep DEF Acking, CompleteStep, RowStep, Call

LEMMA AtCompletion ==
  ASSUME Handlers, NEW v \in Workers, Completes(v)
  PROVE  v \in Consumers /\ Doing(v, "complete")
<1>1. /\ Shape(work[v]) /\ work[v].op = "completion" /\ v \in Consumers
      /\ work[v].todo[1].do = "complete"
  BY DEF Handlers, Completes, CompleteStep
<1>2. Completing(work[v].todo) \/ Acking(work[v].todo)
  BY <1>1, IdleShape, DataSourceAssumption DEF Shape, Plan, DataSourceAssumption, ControlKinds
<1>3. work[v].todo # <<>>
  BY <1>2 DEF Completing, Acking, One, Two, Three
<1>4. Head(work[v].todo) = work[v].todo[1]
  BY <1>1, <1>3, ListCases
<1> QED
  BY <1>1, <1>3, <1>4 DEF Doing

LEMMA HandleCompletionInv ==
  ASSUME IInv, NEW c \in Consumers, NEW r \in Runs, HandleCompletion(c, r)
  PROVE  IInv'
<1>1. PICK m \in answers :
        /\ m.run = r /\ answers' = answers \ {m}
        /\ IF m.kind = "malformed"
             THEN UNCHANGED <<work, disputed>> /\ abandoned' = abandoned \cup {r}
             ELSE /\ \E todo \in Handled(m) :
                       Proceeds(c, [Idle EXCEPT !.op = "completion", !.target = result[r].target,
                                     !.run = r, !.todo = todo \o <<Call("ack")>>, !.answer = m])
                  /\ disputed' = IF Undecided(c, r) THEN disputed \cup {r} ELSE disputed
                  /\ UNCHANGED abandoned
  BY DEF HandleCompletion
<1>2. /\ work[c] = Idle /\ UNCHANGED <<source, target, result, audited, crawler, torn>>
      /\ disputed' = disputed \/ disputed' = disputed \cup {r}
  BY DEF HandleCompletion, rowVars
<1>3. Exists(r) /\ result[r].target \in Targets /\ c \in Workers /\ m \in Completion
  BY <1>1 DEF IInv, Known, Rows, Workers
<1>4. Rows'
  BY <1>1, <1>2 DEF IInv, Rows
<1>5. \A q \in Runs : crawler'[q] > 0 => Exists(q)
  BY <1>2 DEF IInv, Known
<1>6. \A n \in answers' : Exists(n.run)
  BY <1>1 DEF IInv, Known
<1>7. CASE m.kind = "malformed"
  <2>1. \A q \in Runs : WaitsFor(q) => WaitsFor(q)'
    BY <1>1, <1>2, <1>7 DEF WaitsFor
  <2>2. Claims'
    <3> SUFFICES ASSUME NEW v \in Workers
                 PROVE  Alone(v)' /\ Decides(v)'
      BY DEF Claims
    <3>1. Alone(v) /\ Decides(v)
      BY DEF IInv, Claims
    <3> QED
      BY <1>1, <1>2, <1>7, <3>1 DEF Alone, Decides, Completes
  <2> QED
    BY <1>1, <1>2, <1>4, <1>5, <1>6, <1>7, <2>1, <2>2, OtherBrokerStep
<1>8. CASE m.kind # "malformed"
  <2>1. PICK todo \in Handled(m) :
          Proceeds(c, [Idle EXCEPT !.op = "completion", !.target = result[r].target,
                        !.run = r, !.todo = todo \o <<Call("ack")>>, !.answer = m])
    BY <1>1, <1>8
  <2> DEFINE list == todo \o <<Call("ack")>>
             p == [Idle EXCEPT !.op = "completion", !.target = result[r].target,
                               !.run = r, !.todo = list, !.answer = m]
  <2>2. Proceeds(c, p) /\ abandoned' = abandoned
    BY <1>1, <1>8, <2>1
  <2>3. \/ Completing(list) /\ ~ Terminal(result[r].status)
        \/ Acking(list) /\ Terminal(result[r].status)
    BY <1>1, <1>8, HandledShape
  <2> HIDE DEF list
  <2>4. /\ Fields(p) /\ p.op = "completion" /\ p.target = result[r].target /\ p.run = r
        /\ p.todo = list /\ p.row = None /\ p.stale = FALSE /\ p.answer = m
    BY DEF Idle, Fields
  <2> HIDE DEF p
  <2>5. Shape(p)
    <3>1. p.target # None
      BY <1>3, <2>4, DataSourceAssumption DEF DataSourceAssumption
    <3> QED
      BY <1>1, <1>3, <2>3, <2>4, <3>1 DEF Shape, Plan, FoundRow, HasTarget
  <2>6. CompleteStep(p.todo[1]) \/ Terminal(result[p.run].status)
    BY <2>3, <2>4 DEF Completing
  <2>7. Moved(c, p)
    BY <1>3, <2>2, ProceedsMoves DEF IInv
  <2>8. \A q \in Runs : WaitsFor(q) \/ work[c].run = q => WaitsFor(q)' \/ p.run = q
    <3>1. work[c].run = None
      BY <1>2, IdleShape
    <3>2. \A q \in Runs : q # None
      BY DataSourceAssumption DEF Runs, DataSourceAssumption
    <3> QED
      BY <1>1, <1>2, <2>2, <2>4, <3>1, <3>2 DEF WaitsFor
  <2>9. Claims'
    <3> SUFFICES ASSUME NEW v \in Workers
                 PROVE  Alone(v)' /\ Decides(v)'
      BY DEF Claims
    <3>1. Alone(v) /\ Decides(v)
      BY DEF IInv, Claims
    <3>2. \A u \in Workers \ {c} : Same(work[u], work'[u])
      BY <2>7 DEF Moved, Kept
    <3>3. work'[c] = p
      BY <2>7 DEF Moved
    <3>4. CASE v = c
      <4>1. ~ CompleteStep(p.todo[1]) \/ ~ Terminal(result[p.run].status)
        BY <2>3, <2>4, AckingIsNone
      <4>2. ASSUME NEW u \in Workers \ {c}, Completes(u)', work'[u].run = r, r \notin disputed'
            PROVE  FALSE
        <5>1. Completes(u) /\ work[u].run = r
          BY <3>2, <4>2 DEF Completes, Same
        <5>2. u \in Consumers /\ Doing(u, "complete")
          BY <5>1, AtCompletion DEF IInv
        <5> QED
          BY <1>1, <1>8, <4>2, <5>1, <5>2 DEF Undecided
      <4>3. Decides(c)'
        BY <1>2, <2>4, <3>3, <4>1, <4>2 DEF Decides, Completes
      <4>4. Alone(c)'
        BY <2>4, <3>3 DEF Alone
      <4> QED
        BY <3>4, <4>3, <4>4
    <3>5. CASE v # c
      <4>1. Alone(v)'
        <5> SUFFICES ASSUME work[v].op = "Trigger", work[v].run \in Runs \ disputed
                     PROVE  /\ result[work[v].run].status = "RUNNING"
                            /\ crawler[work[v].run] = 0
                            /\ \A n \in answers' : n.run # work[v].run
                            /\ \A u \in Workers \ {v} : work'[u].run # work[v].run
          BY <1>2, <3>2, <3>5 DEF Alone, Same
        <5>1. /\ result[work[v].run].status = "RUNNING" /\ crawler[work[v].run] = 0
              /\ \A n \in answers : n.run # work[v].run
              /\ \A u \in Workers \ {v} : work[u].run # work[v].run
          BY <3>1 DEF Alone
        <5>2. r # work[v].run
          BY <1>1, <5>1
        <5> QED
          BY <1>1, <2>4, <3>2, <3>3, <5>1, <5>2 DEF Same
      <4>2. Decides(v)'
        <5> SUFFICES ASSUME Completes(v), work[v].run \notin disputed'
                     PROVE  /\ ~ Terminal(result'[work[v].run].status)
                            /\ \A u \in Workers \ {v} : Completes(u)' => work'[u].run # work[v].run
          BY <3>2, <3>5 DEF Decides, Completes, Same
        <5>1. /\ ~ Terminal(result[work[v].run].status)
              /\ \A u \in Workers \ {v} : Completes(u) => work[u].run # work[v].run
          BY <1>2, <3>1 DEF Decides
        <5>2. v \in Consumers /\ Doing(v, "complete")
          BY AtCompletion DEF IInv
        <5>3. work[v].run # r
          BY <1>1, <1>8, <3>5, <5>2 DEF Undecided
        <5>4. work'[c].run # work[v].run
          BY <2>4, <3>3, <5>3
        <5> QED
          BY <1>2, <3>2, <5>1, <5>4 DEF Completes, Same
      <4> QED
        BY <4>1, <4>2
    <3> QED
      BY <3>4, <3>5
  <2> QED
    BY <1>2, <1>3, <1>4, <1>5, <1>6, <2>4, <2>5, <2>6, <2>7, <2>8, <2>9, BrokerStep
<1> QED
  BY <1>7, <1>8

-----------------------------------------------------------------------------
(***************************************************************************)
(* The inductive invariant holds, and what follows from it.                *)
(***************************************************************************)
LEMMA InitInv ==
  ASSUME Init
  PROVE  IInv
<1>1. source \in Source /\ Agrees(source)
  BY DataSourceAssumption DEF Init, Source, SourceStatus, DryrunStatus, Agrees, DataSourceAssumption
<1>2. /\ \A r \in Runs : result[r].status = "ABSENT" /\ crawler[r] = 0
      /\ answers = {}
      /\ \A w \in Workers : work[w] = Idle
  BY DEF Init
<1>3. Rows
  <2>1. target \in [Targets -> Target] /\ result \in [Runs -> Result]
    BY DEF Init, Target, Result
  <2>2. audited \in Modes /\ answers \subseteq Completion
    BY DataSourceAssumption DEF Init, DataSourceAssumption
  <2>3. crawler \in [Runs -> 0 .. MaxAnswers]
    BY DataSourceAssumption DEF Init, DataSourceAssumption
  <2>4. torn \in BOOLEAN /\ abandoned \subseteq Runs /\ disputed \subseteq Runs
    BY DEF Init
  <2> QED
    BY <1>1, <2>1, <2>2, <2>3, <2>4 DEF Rows
<1>4. Handlers
  BY <1>2, IdleShape DEF Init, Handlers
<1>5. Settled
  BY <1>2, IdleShape DEF Settled
<1>6. Known
  BY <1>2, IdleShape DEF Known, Exists
<1>7. PausedRows
  BY <1>1, <1>2, IdleShape DEF PausedRows, Doing
<1>8. Waited
  BY <1>2 DEF Waited, RunningIsWaitedFor
<1>9. Claims
  BY <1>2, IdleShape DEF Claims, Alone, Decides, Completes
<1> QED
  BY <1>3, <1>4, <1>5, <1>6, <1>7, <1>8, <1>9 DEF IInv

LEMMA StutterInv ==
  ASSUME IInv, UNCHANGED vars
  PROVE  IInv'
<1>1. /\ UNCHANGED <<source, target, result, audited, work, crawler, answers>>
      /\ UNCHANGED <<torn, abandoned, disputed>>
  BY DEF vars, rowVars, brokerVars, historyVars
<1>2. Rows'
  BY <1>1 DEF IInv, Rows
<1> QED
  BY <1>1, <1>2, OtherStep DEF Agrees

LEMMA NextInv ==
  ASSUME IInv, [Next]_vars
  PROVE  IInv'
<1>1. ASSUME NEW w \in Requests, SourceRequest(w) \/ TargetRequest(w) \/ PublishFails(w)
      PROVE  IInv'
  BY <1>1, SourceRequestInv, TargetRequestInv, PublishFailsInv DEF TargetRequest, Workers
<1>2. CASE Pause
  BY <1>2, PauseInv
<1>3. ASSUME NEW m \in Modes, UpdateProjectCrawlMode(m)
      PROVE  IInv'
  BY <1>3, UpdateProjectCrawlModeInv
<1>4. ASSUME NEW r \in Runs, CrawlerAnswers(r)
      PROVE  IInv'
  BY <1>4, CrawlerAnswersInv
<1>5. ASSUME NEW r \in Runs, NEW c \in Consumers, HandleCompletion(c, r)
      PROVE  IInv'
  BY <1>5, HandleCompletionInv
<1>6. ASSUME NEW c \in Consumers, PromotionFails(c)
      PROVE  IInv'
  BY <1>6, PromotionFailsInv DEF Workers
<1>7. ASSUME NEW w \in Workers, RequestStep(w)
      PROVE  IInv'
  BY <1>7, InsertTargetInv, FindRowInv, UpdateDataSourceInv, UpdateTargetRowInv, UpdateColumnsInv,
     UpdateProjectDataSourcesLifecycleInv, CreateCrawlModeChangeInv, DemoteInv, CreateResultInv,
     MarkDryrunRunningInv, PublishDispatchInv, AckInv
  DEF RequestStep
<1>8. ASSUME NEW w \in Workers, BeginComplete(w) \/ CompleteResult(w) \/ Abort(w)
      PROVE  IInv'
  BY <1>8, BeginCompleteInv, CompleteResultInv, AbortInv
<1>9. CASE UNCHANGED vars
  BY <1>9, StutterInv
<1> QED
  BY <1>1, <1>2, <1>3, <1>4, <1>5, <1>6, <1>7, <1>8, <1>9 DEF Next

LEMMA IInvIsInvariant == Spec => []IInv
<1>1. Init => IInv
  BY InitInv
<1>2. IInv /\ [Next]_vars => IInv'
  BY NextInv
<1> QED
  BY <1>1, <1>2, PTL DEF Spec

(* Every variable keeps its type, and a handler never has more than three  *)
(* calls ahead of it.                                                      *)
THEOREM TypeCorrect == Spec => []TypeOK
<1>1. IInv => TypeOK
  <2> SUFFICES ASSUME IInv
               PROVE  TypeOK
    OBVIOUS
  <2>1. ASSUME NEW w \in Workers
        PROVE  /\ work[w].op \in {"idle", "completion"} \cup Controls
               /\ work[w].target \in Targets \cup {None} /\ work[w].run \in Runs \cup {None}
               /\ work[w].row \in Source \cup Target \cup {None}
               /\ work[w].answer \in Completion \cup {None}
               /\ work[w].stale \in BOOLEAN /\ Len(work[w].todo) \in 0 .. 3
    <3> DEFINE p == work[w]
    <3>1. Shape(p)
      BY DEF IInv, Handlers
    <3>2. Len(p.todo) \in 0 .. 3
      <4>1. CASE p.todo = <<>>
        BY <4>1
      <4>2. CASE p.todo # <<>>
        BY <3>1, <4>2, ListCases
      <4> QED
        BY <4>1, <4>2
    <3>3. p.row \in Source \cup Target \cup {None}
      BY <3>1 DEF Shape, FoundRow
    <3>4. /\ p.op \in {"idle", "completion"} \cup Controls
          /\ p.target \in Targets \cup {None} /\ p.run \in Runs \cup {None}
          /\ p.answer \in Completion \cup {None}
      BY <3>1 DEF Shape, Plan, Idle
    <3> QED
      BY <3>1, <3>2, <3>3, <3>4 DEF Shape
  <2> QED
    BY <2>1 DEF TypeOK, IInv, Rows
<1> QED
  BY <1>1, IInvIsInvariant, PTL

(* paused_at and the status agree on a source none of whose dry runs has   *)
(* ended, for any number of requests that overlap in any way.              *)
THEOREM PausedAtAgrees == Spec => []PausedAtMatchesStatus
<1>1. IInv => PausedAtMatchesStatus
  BY DEF IInv, PausedRows, NoneEnded, Agrees, PausedAtMatchesStatus
<1> QED
  BY <1>1, IInvIsInvariant, PTL

(* No running dry run is forgotten, for any number of dry runs, requests   *)
(* and consumers and all failures, if a crawler has an answer for it.      *)
THEOREM RunningIsNeverForgotten == MaxAnswers > 0 /\ Spec => []RunningIsWaitedFor
<1>1. SUFFICES ASSUME MaxAnswers > 0
               PROVE  Spec => []RunningIsWaitedFor
  OBVIOUS
<1>2. IInv => RunningIsWaitedFor
  BY <1>1 DEF IInv, Waited
<1> QED
  BY <1>2, IInvIsInvariant, PTL

LEMMA ResultChanges ==
  ASSUME [Next]_vars
  PROVE  result' = result \/ \E w \in Workers : CreateResult(w) \/ CompleteResult(w)
<1> USE DEF vars, rowVars, brokerVars, historyVars
<1>1. ASSUME NEW w, NEW op, NEW t, NEW todo, Request(w, op, t, todo)
      PROVE  result' = result
  BY <1>1 DEF Request
<1>2. ASSUME NEW w \in Requests, SourceRequest(w) \/ TargetRequest(w)
      PROVE  result' = result
  BY <1>1, <1>2 DEF SourceRequest, TargetRequest, Update, Archive, Delete, ActivateDataSource,
     PauseDataSource, ResumeDataSource, Activate, Resume, UpdateCrawlMode, CreateTarget,
     UpdateTarget, ActivateTarget, DeactivateTarget, DeleteTarget, Trigger
<1>3. ASSUME NEW w \in Workers, RequestStep(w), ~ CreateResult(w)
      PROVE  result' = result
  BY <1>3 DEF RequestStep, InsertTarget, FindRow, UpdateDataSource, UpdateTargetRow, UpdateColumns,
     UpdateProjectDataSourcesLifecycle, CreateCrawlModeChange, Demote, MarkDryrunRunning,
     PublishDispatch, Ack
<1>4. ASSUME NEW w \in Workers, PublishFails(w) \/ PromotionFails(w) \/ BeginComplete(w) \/ Abort(w)
      PROVE  result' = result
  BY <1>4 DEF PublishFails, PromotionFails, BeginComplete, Abort, Stops
<1>5. ASSUME \/ Pause \/ \E m \in Modes : UpdateProjectCrawlMode(m)
             \/ \E r \in Runs : CrawlerAnswers(r) \/ \E c \in Consumers : HandleCompletion(c, r)
      PROVE  result' = result
  BY <1>5 DEF Pause, UpdateProjectCrawlMode, CrawlerAnswers, HandleCompletion
<1> QED
  BY <1>2, <1>3, <1>4, <1>5 DEF Next, Workers

(* A dry run is decided once: a terminal result stays as it is, for any    *)
(* number of requests, consumers and redeliveries and all failures, unless *)
(* the broker took a dispatch that was reported as failed, or two          *)
(* consumers found the dry run RUNNING before either decided it.           *)
THEOREM TerminalResultKept == Spec => TerminalResultIsKept
<1>1. ASSUME IInv, [Next]_vars
      PROVE  [\A r \in Runs \ disputed : Terminal(result[r].status) => result'[r] = result[r]]_vars
  <2> SUFFICES ASSUME NEW r \in Runs \ disputed, Terminal(result[r].status)
               PROVE  result'[r] = result[r]
    OBVIOUS
  <2>1. CASE result' = result
    BY <2>1
  <2>2. ASSUME NEW w \in Workers, CreateResult(w)
        PROVE  result'[r] = result[r]
    <3>1. PICK q \in Runs :
            /\ {i \in Runs : result[i].status = "ABSENT"} = q .. MaxRuns
            /\ result' = [result EXCEPT ![q] = [status |-> "RUNNING", target |-> work[w].target]]
      BY <2>2 DEF CreateResult
    <3>2. q \in q .. MaxRuns
      BY DataSourceAssumption DEF Runs, DataSourceAssumption
    <3>3. q # r
      BY <3>1, <3>2 DEF Terminal
    <3> QED
      BY <1>1, <3>1, <3>3 DEF IInv, Rows
  <2>3. ASSUME NEW w \in Workers, CompleteResult(w)
        PROVE  result'[r] = result[r]
    <3>1. /\ Shape(work[w]) /\ work[w].todo # <<>> /\ First(work[w]) = "complete"
      BY <1>1, <2>3, Doings DEF CompleteResult, IInv
    <3>2. /\ CompleteStep(work[w].todo[1]) /\ work[w].run \in Runs
          /\ work[w].op \in {"Trigger", "completion"}
      BY <3>1, InCompletion
    <3>3. Alone(w) /\ Decides(w)
      BY <1>1 DEF IInv, Claims
    <3>4. work[w].run # r
      BY <1>1, <3>2, <3>3 DEF Alone, Decides, Completes, Terminal
    <3>5. result' = [result EXCEPT ![work[w].run].status = Head(work[w].todo).verdict]
      BY <2>3 DEF CompleteResult
    <3> QED
      BY <1>1, <3>4, <3>5 DEF IInv, Rows
  <2> QED
    BY <1>1, <2>1, <2>2, <2>3, ResultChanges
<1>2. IInv /\ [Next]_vars =>
        [\A r \in Runs \ disputed : Terminal(result[r].status) => result'[r] = result[r]]_vars
  BY <1>1
<1> QED
  BY <1>2, IInvIsInvariant, PTL DEF Spec, TerminalResultIsKept

-----------------------------------------------------------------------------
(***************************************************************************)
(* What the source says, in a history that is not torn.                    *)
(***************************************************************************)
(* Columns that say nothing about dry runs and leave the mode alone.       *)
Harmless(set) ==
  /\ "mode" \notin DOMAIN set /\ "last" \notin DOMAIN set
  /\ "status" \in DOMAIN set /\ set["status"] = "READY" =>
       "dry" \in DOMAIN set /\ set["dry"] = "NOT_REQUIRED"
  /\ "dry" \in DOMAIN set =>
       \/ set["dry"] = "NOT_REQUIRED"
       \/ set["dry"] = "PENDING" /\ "status" \in DOMAIN set /\ set["status"] = "PENDING"
HarmlessStep(s) ==
  /\ s.do \in {"source", "columns", "bulk"} => Harmless(s.set)
  /\ s.do # "audit"
HarmlessList(q) == \A i \in 1 .. Len(q) : HarmlessStep(q[i])

(* The lists that say something, and when it is true of the row.           *)
Audit(m) == [do |-> "audit", mode |-> m]
Running(r) == [dry |-> "RUNNING", last |-> r]
Demoting(r) == [dry |-> "RUNNING", last |-> r, status |-> "PENDING"]
Writing(p, row) ==
  \/ HarmlessList(p.todo)
  \/ /\ p.op = "UpdateCrawlMode"
     /\ \E m \in Modes : \/ p.todo = ModeChange(m)
                         \/ p.todo = <<Audit(m)>> /\ (~ p.stale => row.mode = m)
  \/ /\ p.op = "Trigger"
     /\ \/ p.todo = <<FullRow(Demoting(p.run)), Call("publish")>>
        \/ /\ p.todo = <<FullRow(Running(p.run)), Call("publish")>>
           /\ ~ p.stale => row.status \notin {"PENDING", "READY"}

(* A handler that is not stale has read the row as it is.                  *)
FreshRow(p, row) ==
  ~ p.stale /\ p.row # None /\ p.todo # <<>> /\ First(p) = "source" => p.row = row

(* The broker has not seen the dry run of a Trigger before its publish.    *)
Early(p, runs) ==
  p.op = "Trigger" /\ p.todo # <<>> /\ First(p) # "complete" => p.run \notin runs

Truthful(p, row, runs) == Writing(p, row) /\ FreshRow(p, row) /\ Early(p, runs)

JInv ==
  /\ \A w \in Workers : Truthful(work[w], source, disputed)
  /\ \A r \in disputed : Exists(r)
  /\ DryrunStatusAgrees /\ ReadyIsEarned /\ ModeChangesAreLogged

LEMMA IdleTruth ==
  ASSUME NEW row, NEW runs
  PROVE  Truthful(Idle, row, runs)
<1>1. HarmlessList(<<>>)
  BY DEF HarmlessList
<1> QED
  BY <1>1, IdleShape DEF Truthful, Writing, FreshRow, Early

LEMMA HarmlessLists ==
  /\ \A a : HarmlessStep(a) => HarmlessList(<<a>>)
  /\ \A a, b : HarmlessStep(a) /\ HarmlessStep(b) => HarmlessList(<<a, b>>)
  /\ \A a, b, c : HarmlessStep(a) /\ HarmlessStep(b) /\ HarmlessStep(c) => HarmlessList(<<a, b, c>>)
<1>1. ASSUME NEW a, HarmlessStep(a) PROVE HarmlessList(<<a>>)
  BY <1>1, OneStep DEF HarmlessList
<1>2. ASSUME NEW a, NEW b, HarmlessStep(a), HarmlessStep(b) PROVE HarmlessList(<<a, b>>)
  <2>1. Len(<<a, b>>) = 2 /\ <<a, b>>[1] = a /\ <<a, b>>[2] = b
    BY TwoSteps
  <2> DEFINE q == <<a, b>>
  <2> HIDE DEF q
  <2>2. HarmlessList(q)
    BY <1>2, <2>1 DEF HarmlessList, q
  <2> QED
    BY <2>2 DEF q
<1>3. ASSUME NEW a, NEW b, NEW c, HarmlessStep(a), HarmlessStep(b), HarmlessStep(c)
      PROVE  HarmlessList(<<a, b, c>>)
  <2>1. Len(<<a, b, c>>) = 3 /\ <<a, b, c>>[1] = a /\ <<a, b, c>>[2] = b /\ <<a, b, c>>[3] = c
    BY ThreeSteps
  <2> QED
    BY <1>3, <2>1 DEF HarmlessList
<1> QED
  BY <1>1, <1>2, <1>3

LEMMA HarmlessCalls ==
  /\ \A name : name \notin {"source", "columns", "bulk", "audit"} => HarmlessStep(Call(name))
  /\ \A v : HarmlessStep(Complete(v))
  /\ \A set : HarmlessStep(TargetRow(set))
  /\ \A set : Harmless(set) => HarmlessStep(FullRow(set)) /\ HarmlessStep(Columns(set))
  /\ \A set, from : Harmless(set) => HarmlessStep(Bulk(from, set))
<1>1. \A name : name \notin {"source", "columns", "bulk", "audit"} => HarmlessStep(Call(name))
  BY DEF HarmlessStep, Call
<1>2. \A v : HarmlessStep(Complete(v))
  BY DEF HarmlessStep, Complete
<1>3. \A set : HarmlessStep(TargetRow(set))
  BY DEF HarmlessStep, TargetRow
<1>4. \A set : Harmless(set) => HarmlessStep(FullRow(set)) /\ HarmlessStep(Columns(set))
  BY DEF HarmlessStep, FullRow, Columns
<1>5. \A set, from : Harmless(set) => HarmlessStep(Bulk(from, set))
  BY DEF HarmlessStep, Bulk
<1> QED
  BY <1>1, <1>2, <1>3, <1>4, <1>5

LEMMA HarmlessColumns ==
  /\ Harmless(NoColumns) /\ Harmless(ConfigColumns)
  /\ Harmless(ToActive) /\ Harmless(ToPaused) /\ Harmless(ToArchived) /\ Harmless(Started)
  /\ Harmless([deleted |-> TRUE])
  /\ Harmless([status |-> "READY", dry |-> "NOT_REQUIRED"])
  /\ Harmless([status |-> "PENDING", dry |-> "PENDING"])
BY DEF Harmless, NoColumns, ConfigColumns, ToActive, ToPaused, ToArchived, Started

LEMMA MergedColumns ==
  ASSUME NEW row \in Source, NEW set
  PROVE  /\ Merge(row, set).status = IF "status" \in DOMAIN set THEN set["status"] ELSE row.status
         /\ Merge(row, set).dry = IF "dry" \in DOMAIN set THEN set["dry"] ELSE row.dry
         /\ Merge(row, set).last = IF "last" \in DOMAIN set THEN set["last"] ELSE row.last
         /\ Merge(row, set).mode = IF "mode" \in DOMAIN set THEN set["mode"] ELSE row.mode
BY DEF Merge, Source

(* The others: what they are about to write stays true, or they are stale. *)
LEMMA OthersTruth ==
  ASSUME IInv, JInv, NEW w \in Workers, NEW p,
         \/ Proceeds(w, p) /\ source' = source
         \/ Writes(w, p),
         NEW v \in Workers \ {w}
  PROVE  Writing(work'[v], source') /\ FreshRow(work'[v], source') /\ Same(work[v], work'[v])
<1>0. Shape(work[v]) /\ Truthful(work[v], source, disputed)
  BY DEF IInv, Handlers, JInv
<1>1. CASE Proceeds(w, p) /\ source' = source
  BY <1>0, <1>1 DEF IInv, Handlers, Proceeds, Truthful, Same
<1>2. CASE Writes(w, p)
  <2>1. work'[v] = Overtaken(v)
    BY <1>2 DEF Writes
  <2>2. CASE work[v] = Idle
    BY <2>1, <2>2, IdleTruth DEF Overtaken, Truthful, Same
  <2>3. CASE work[v] # Idle
    <3>1. Same(work[v], work'[v])
      BY <1>0, <2>1, OvertakenIsSame
    <3>2. work'[v].stale = TRUE
      <4> DEFINE old == work[v]
      <4>1. work'[v] = [old EXCEPT !.stale = TRUE] /\ Fields(old)
        BY <1>0, <2>1, <2>3 DEF Overtaken, Shape
      <4> HIDE DEF old
      <4> QED
        BY <4>1 DEF Fields
    <3> QED
      BY <1>0, <3>1, <3>2 DEF Truthful, Writing, FreshRow, Same
  <2> QED
    BY <2>2, <2>3
<1> QED
  BY <1>1, <1>2

LEMMA TruthMove ==
  ASSUME IInv, JInv, NEW w \in Workers, NEW p,
         \/ Proceeds(w, p) /\ source' = source
         \/ Writes(w, p),
         Truthful(p, source', disputed'),
         \A v \in Workers \ {w} : Early(work[v], disputed) => Early(work[v], disputed'),
         \A r \in disputed' : result'[r].status # "ABSENT",
         DryrunStatusAgrees', ReadyIsEarned', ModeChangesAreLogged'
  PROVE  JInv'
<1>1. ASSUME NEW v \in Workers
      PROVE  Truthful(work'[v], source', disputed')
  <2>1. CASE v = w
    BY <2>1, ProceedsMoves, WritesMoves DEF IInv, Moved
  <2>2. CASE v # w
    <3>1. Early(work[v], disputed)
      BY DEF JInv, Truthful
    <3> QED
      BY <2>2, <3>1, OthersTruth DEF Truthful, Early, Same, First
  <2> QED
    BY <2>1, <2>2
<1> QED
  BY <1>1 DEF JInv, Exists

(* The last record of a mode change is not passed over.                    *)
LEMMA StillLogged ==
  ASSUME IInv, JInv, NEW w \in Workers, NEW p, Moved(w, p), torn => torn',
         \/ torn'
         \/ /\ source'.mode = source.mode /\ audited' = audited
            /\ work[w].todo # <<>> => First(work[w]) # "audit"
  PROVE  ModeChangesAreLogged'
<1> SUFFICES ASSUME ~ torn', source'.mode # audited'
             PROVE  \E v \in Workers : work'[v].op = "UpdateCrawlMode" /\ Doing(v, "audit")'
  BY DEF ModeChangesAreLogged
<1>1. PICK v \in Workers : work[v].op = "UpdateCrawlMode" /\ Doing(v, "audit")
  BY DEF JInv, ModeChangesAreLogged
<1>2. v # w
  BY <1>1, Doings DEF IInv
<1> QED
  BY <1>1, <1>2 DEF Moved, Kept, Same, Doing

(* A step that leaves the source, the trail and the results alone.         *)
LEMMA TruthStays ==
  ASSUME IInv, JInv, NEW w \in Workers, NEW p, Proceeds(w, p) \/ Writes(w, p),
         UNCHANGED <<source, result, audited, disputed>>, torn => torn',
         torn' \/ (work[w].todo # <<>> => First(work[w]) # "audit"),
         Truthful(p, source, disputed)
  PROVE  JInv'
<1>1. ModeChangesAreLogged'
  BY StillLogged, ProceedsMoves, WritesMoves DEF IInv
<1>2. DryrunStatusAgrees' /\ ReadyIsEarned'
  BY DEF JInv, DryrunStatusAgrees, ReadyIsEarned
<1>3. \A r \in disputed' : result'[r].status # "ABSENT"
  BY DEF JInv, Exists
<1> QED
  BY <1>1, <1>2, <1>3, TruthMove

(* A write of columns that say nothing.                                    *)
LEMMA HarmlessWrite ==
  ASSUME IInv, JInv, NEW set, Harmless(set), source' = Merge(source, set), result' = result,
         torn => torn'
  PROVE  DryrunStatusAgrees' /\ ReadyIsEarned' /\ source'.mode = source.mode
<1>1. source \in Source
  BY DEF IInv, Rows
<1>2. /\ source'.status = IF "status" \in DOMAIN set THEN set["status"] ELSE source.status
      /\ source'.dry = IF "dry" \in DOMAIN set THEN set["dry"] ELSE source.dry
      /\ source'.last = source.last /\ source'.mode = source.mode
  BY <1>1, MergedColumns DEF Harmless
<1>3. DryrunStatusAgrees'
  BY <1>2 DEF JInv, DryrunStatusAgrees, Harmless
<1>4. ReadyIsEarned'
  BY <1>2 DEF JInv, ReadyIsEarned, Harmless
<1> QED
  BY <1>2, <1>3, <1>4

(* What is left after a step.                                              *)
LEMMA RestTruth ==
  ASSUME IInv, JInv, NEW w \in Workers, work[w].todo # <<>>, First(work[w]) # "insert",
         First(work[w]) # "running", NEW row,
         \A m \in Modes : work[w].todo = ModeChange(m) /\ ~ work[w].stale => row.mode = m
  PROVE  Truthful(Rest(w), row, disputed)
<1> DEFINE p == work[w]
           q == Tail(p.todo)
<1>0. Shape(p) /\ Truthful(p, source, disputed)
  BY DEF IInv, Handlers, JInv
<1>1. CASE q = <<>>
  BY <1>1, IdleTruth DEF Rest
<1>2. CASE q # <<>>
  <2>1. Rest(w) = [p EXCEPT !.todo = q, !.row = None] /\ Fields(p)
    BY <1>0, <1>2 DEF Rest, Shape
  <2>2. /\ Rest(w).op = p.op /\ Rest(w).run = p.run
        /\ Rest(w).todo = q /\ Rest(w).row = None /\ Rest(w).stale = p.stale
    <3> HIDE DEF p, q
    <3> QED
      BY <2>1 DEF Fields
  <2>3. FreshRow(Rest(w), row)
    BY <2>2 DEF FreshRow
  <2>4. Early(Rest(w), disputed)
    <3> SUFFICES ASSUME p.op = "Trigger", First(p) = "complete"
                 PROVE  FALSE
      BY <1>0, <2>2 DEF Truthful, Early
    <3>1. p.todo = <<Complete("FAILED")>>
      BY <1>0, InCompletion
    <3> QED
      BY <1>2, <3>1, OneStep
  <2>5. Writing(Rest(w), row)
    <3>1. \/ Two(p.todo) /\ q = <<p.todo[2]>> /\ Len(q) = 1 /\ q[1] = p.todo[2]
          \/ Three(p.todo) /\ q = <<p.todo[2], p.todo[3]>> /\ Len(q) = 2
               /\ q[1] = p.todo[2] /\ q[2] = p.todo[3]
      <4>1. \/ Two(p.todo) /\ q = <<p.todo[2]>>
            \/ Three(p.todo) /\ q = <<p.todo[2], p.todo[3]>>
        BY <1>0, <1>2, ListCases, Tails
      <4>2. /\ Len(<<p.todo[2]>>) = 1 /\ <<p.todo[2]>>[1] = p.todo[2]
            /\ Len(<<p.todo[2], p.todo[3]>>) = 2
            /\ <<p.todo[2], p.todo[3]>>[1] = p.todo[2] /\ <<p.todo[2], p.todo[3]>>[2] = p.todo[3]
        BY OneStep, TwoSteps
      <4> HIDE DEF p, q
      <4> QED
        BY <4>1, <4>2
    <3>2. CASE HarmlessList(p.todo)
      <4>1. HarmlessList(q)
        BY <3>1, <3>2, HarmlessLists DEF HarmlessList, Two, Three
      <4> QED
        BY <2>2, <4>1 DEF Writing
    <3>3. ASSUME p.op = "UpdateCrawlMode", NEW m \in Modes, p.todo = ModeChange(m)
          PROVE  Writing(Rest(w), row)
      <4>1. q = <<Audit(m)>>
        BY <3>3, TwoSteps DEF ModeChange, Audit
      <4> QED
        BY <2>2, <3>3, <4>1 DEF Writing
    <3>4. ASSUME NEW m \in Modes, p.todo = <<Audit(m)>>
          PROVE  FALSE
      BY <1>2, <3>4, OneStep
    <3>5. ASSUME NEW s, p.todo = <<s, Call("publish")>>
          PROVE  Writing(Rest(w), row)
      <4>1. q = <<Call("publish")>>
        BY <3>5, TwoSteps
      <4>2. HarmlessList(q)
        BY <4>1, HarmlessLists, HarmlessCalls
      <4> QED
        BY <2>2, <4>2 DEF Writing
    <3> QED
      BY <1>0, <3>2, <3>3, <3>4, <3>5 DEF Truthful, Writing
  <2> QED
    BY <2>3, <2>4, <2>5 DEF Truthful
<1> QED
  BY <1>1, <1>2

-----------------------------------------------------------------------------
(***************************************************************************)
(* The second invariant: the requests and the writes of some columns.      *)
(***************************************************************************)
LEMMA RequestTruth ==
  ASSUME IInv, JInv, NEW w \in Workers, NEW op, NEW t, NEW todo, Request(w, op, t, todo),
         \/ HarmlessList(todo)
         \/ op = "UpdateCrawlMode" /\ \E m \in Modes : todo = ModeChange(m)
  PROVE  JInv'
<1> DEFINE p == [Idle EXCEPT !.op = op, !.target = t, !.todo = todo]
<1>1. /\ work[w] = Idle /\ Proceeds(w, p)
      /\ UNCHANGED <<source, result, audited, disputed, torn>>
  BY DEF Request, rowVars, historyVars
<1>2. p.op = op /\ p.run = None /\ p.todo = todo /\ p.row = None /\ p.stale = FALSE
  BY DEF Idle
<1> HIDE DEF p
<1>3. disputed \subseteq Runs /\ None \notin Runs
  BY DataSourceAssumption DEF IInv, Rows, Runs, DataSourceAssumption
<1>4. Truthful(p, source, disputed)
  BY <1>2, <1>3 DEF Truthful, Writing, FreshRow, Early
<1> QED
  BY <1>1, <1>4, IdleShape, TruthStays

LEMMA SourceRequestTruth ==
  ASSUME IInv, JInv, NEW w \in Workers, SourceRequest(w)
  PROVE  JInv'
<1>1. ASSUME NEW op, NEW set, Harmless(set),
             \/ Request(w, op, None, <<FullRow(set)>>) \/ Request(w, op, None, <<Columns(set)>>)
             \/ \E from : Request(w, op, None, <<Bulk(from, set)>>)
      PROVE  JInv'
  <2>1. /\ HarmlessList(<<FullRow(set)>>) /\ HarmlessList(<<Columns(set)>>)
        /\ \A from : HarmlessList(<<Bulk(from, set)>>)
    BY <1>1, HarmlessLists, HarmlessCalls
  <2> QED
    BY <1>1, <2>1, RequestTruth
<1>2. CASE Update(w)
  BY <1>1, <1>2, HarmlessColumns DEF Update
<1>3. CASE Archive(w) \/ Delete(w)
  BY <1>1, <1>3, HarmlessColumns DEF Archive, Delete
<1>4. CASE ActivateDataSource(w) \/ PauseDataSource(w) \/ ResumeDataSource(w)
  BY <1>1, <1>4, HarmlessColumns DEF ActivateDataSource, PauseDataSource, ResumeDataSource
<1>5. CASE Activate(w) \/ Resume(w)
  BY <1>1, <1>5, HarmlessColumns DEF Activate, Resume
<1>6. ASSUME NEW m \in Modes, UpdateCrawlMode(w, m)
      PROVE  JInv'
  BY <1>6, RequestTruth DEF UpdateCrawlMode
<1> QED
  BY <1>2, <1>3, <1>4, <1>5, <1>6 DEF SourceRequest

LEMMA HarmlessActivation ==
  ASSUME NEW t
  PROVE  /\ \/ Activation(t) = <<>> \/ Activation(t) = <<TargetRow([active |-> TRUE])>>
            \/ Activation(t) = <<TargetRow([active |-> TRUE]),
                                 FullRow([status |-> "READY", dry |-> "NOT_REQUIRED"])>>
         /\ HarmlessStep(TargetRow([active |-> TRUE]))
         /\ HarmlessStep(FullRow([status |-> "READY", dry |-> "NOT_REQUIRED"]))
<1> DEFINE s == TargetRow([active |-> TRUE])
           u == FullRow([status |-> "READY", dry |-> "NOT_REQUIRED"])
<1>1. HarmlessStep(s) /\ HarmlessStep(u)
  BY HarmlessCalls, HarmlessColumns
<1>2. Activation(t) = <<>> \/ Activation(t) = <<s>> \o <<u>> \/ Activation(t) = <<s>> \o <<>>
  BY DEF Activation, Promotion
<1> HIDE DEF s, u
<1>3. Activation(t) = <<>> \/ Activation(t) = <<s>> \/ Activation(t) = <<s, u>>
  BY <1>2, Joined
<1> QED
  BY <1>1, <1>3 DEF s, u

LEMMA TargetRequestTruth ==
  ASSUME IInv, JInv, NEW w \in Workers, NEW t \in Targets,
         \/ CreateTarget(w, t) \/ UpdateTarget(w, t) \/ ActivateTarget(w, t)
         \/ DeactivateTarget(w, t) \/ DeleteTarget(w, t) \/ Trigger(w, t)
  PROVE  JInv'
<1>1. /\ \A set : HarmlessList(<<TargetRow(set)>>)
      /\ \A set : HarmlessList(<<TargetRow(set), Call("demote")>>)
      /\ HarmlessList(<<Call("create")>>)
      /\ HarmlessList(<<Call("insert"), Call("running"), Call("publish")>>)
  BY HarmlessLists, HarmlessCalls
<1>2. CASE CreateTarget(w, t)
  BY <1>1, <1>2, RequestTruth DEF CreateTarget
<1>3. CASE UpdateTarget(w, t)
  <2>1. \E set : \/ Request(w, "UpdateTarget", t, <<TargetRow(set)>>)
                 \/ Request(w, "UpdateTarget", t, <<TargetRow(set), Call("demote")>>)
    BY <1>3 DEF UpdateTarget
  <2> QED
    BY <1>1, <2>1, RequestTruth
<1>4. CASE ActivateTarget(w, t)
  <2>1. HarmlessList(<<>>)
    BY DEF HarmlessList
  <2>2. HarmlessList(Activation(t))
    BY <2>1, HarmlessActivation, HarmlessLists
  <2> QED
    BY <1>4, <2>2, RequestTruth DEF ActivateTarget
<1>5. CASE DeactivateTarget(w, t) \/ DeleteTarget(w, t)
  BY <1>1, <1>5, RequestTruth DEF DeactivateTarget, DeleteTarget
<1>6. CASE Trigger(w, t)
  BY <1>1, <1>6, RequestTruth DEF Trigger
<1> QED
  BY <1>2, <1>3, <1>4, <1>5, <1>6

LEMMA FindRowTruth ==
  ASSUME IInv, JInv, NEW w \in Workers, FindRow(w)
  PROVE  JInv'
<1>1. PICK do \in {"source", "target"} :
        /\ Doing(w, do)
        /\ Proceeds(w, [work[w] EXCEPT !.row = IF do = "source" THEN source
                                               ELSE target[work[w].target]])
  BY DEF FindRow
<1> DEFINE row == IF do = "source" THEN source ELSE target[work[w].target]
           old == work[w]
           p == [old EXCEPT !.row = row]
<1>2. /\ Shape(old) /\ old.todo # <<>> /\ First(old) = do
      /\ Truthful(old, source, disputed)
  BY <1>1, Doings DEF IInv, JInv
<1>3. /\ p.op = old.op /\ p.run = old.run
      /\ p.todo = old.todo /\ p.row = row /\ p.stale = old.stale
  <2>1. Fields(old)
    BY <1>2 DEF Shape
  <2> HIDE DEF old, row
  <2> QED
    BY <2>1 DEF Fields
<1>4. Truthful(p, source, disputed)
  <2>1. Writing(p, source)
    BY <1>2, <1>3 DEF Truthful, Writing
  <2>2. FreshRow(p, source) /\ Early(p, disputed)
    BY <1>2, <1>3 DEF Truthful, FreshRow, Early, First
  <2> QED
    BY <2>1, <2>2 DEF Truthful
<1>5. UNCHANGED <<source, result, audited, disputed, torn>>
  BY DEF FindRow, rowVars, historyVars
<1> HIDE DEF p, old
<1> QED
  BY <1>1, <1>2, <1>4, <1>5, TruthStays DEF p, old

(* A step of a list that is written off.                                   *)
LEMMA RestStays ==
  ASSUME IInv, JInv, NEW w \in Workers, NEW do \in Done \ {"source", "audit"}, Doing(w, do),
         Proceeds(w, Rest(w)) \/ Writes(w, Rest(w)), torn => torn',
         UNCHANGED <<source, result, audited, disputed>>
  PROVE  JInv'
<1>1. work[w].todo # <<>> /\ First(work[w]) \in Done \ {"source", "audit"}
  BY Doings DEF IInv
<1>2. \A m \in Modes : work[w].todo # ModeChange(m)
  BY <1>1, TwoSteps DEF ModeChange, First, FullRow
<1>3. Truthful(Rest(w), source, disputed)
  BY <1>1, <1>2, RestTruth DEF Done
<1> QED
  BY <1>1, <1>3, TruthStays

LEMMA PlainStepsTruth ==
  ASSUME IInv, JInv, NEW w \in Workers,
         UpdateTargetRow(w) \/ InsertTarget(w) \/ Ack(w)
  PROVE  JInv'
<1>1. CASE UpdateTargetRow(w)
  BY <1>1, RestStays DEF UpdateTargetRow, Done, Writes
<1>2. CASE InsertTarget(w)
  BY <1>2, RestStays DEF InsertTarget, Done, Writes
<1>3. CASE Ack(w)
  BY <1>3, RestStays DEF Ack, Done, rowVars, historyVars
<1> QED
  BY <1>1, <1>2, <1>3

LEMMA PromotionFailsTruth ==
  ASSUME IInv, JInv, NEW w \in Workers, PromotionFails(w)
  PROVE  JInv'
<1>1. /\ work[w].op = "completion" /\ Doing(w, "source") /\ Proceeds(w, Rest(w))
      /\ UNCHANGED <<source, result, audited, disputed, torn>>
  BY DEF PromotionFails, rowVars, historyVars
<1>2. work[w].todo # <<>> /\ First(work[w]) = "source" /\ Truthful(work[w], source, disputed)
  BY <1>1, Doings DEF IInv, JInv
<1>3. \A m \in Modes : work[w].todo # ModeChange(m)
  <2>1. HarmlessList(work[w].todo)
    BY <1>1, <1>2 DEF Truthful, Writing
  <2> SUFFICES ASSUME NEW m \in Modes, work[w].todo = ModeChange(m)
               PROVE  FALSE
    OBVIOUS
  <2>2. Len(work[w].todo) = 2 /\ work[w].todo[2].do = "audit"
    BY TwoSteps DEF ModeChange
  <2> QED
    BY <2>1, <2>2 DEF HarmlessList, HarmlessStep
<1>4. Truthful(Rest(w), source, disputed)
  BY <1>2, <1>3, RestTruth
<1> QED
  BY <1>1, <1>2, <1>4, TruthStays

(* The list of a step that is no audit and no full row says nothing.       *)
LEMMA HarmlessNow ==
  ASSUME IInv, JInv, NEW w \in Workers, NEW do, do \notin {"source", "audit"}, Doing(w, do)
  PROVE  /\ HarmlessList(work[w].todo) /\ work[w].todo # <<>> /\ First(work[w]) = do
         /\ do \in {"columns", "bulk"} => Harmless(work[w].todo[1].set)
         /\ \A m \in Modes : work[w].todo # ModeChange(m)
<1>1. /\ Shape(work[w]) /\ work[w].todo # <<>> /\ First(work[w]) = do
      /\ Truthful(work[w], source, disputed)
  BY Doings DEF IInv, JInv
<1>2. /\ \A m \in Modes : work[w].todo # ModeChange(m) /\ work[w].todo # <<Audit(m)>>
      /\ \A set : work[w].todo # <<FullRow(set), Call("publish")>>
  BY <1>1, OneStep, TwoSteps DEF ModeChange, Audit, FullRow, First
<1>3. HarmlessList(work[w].todo)
  BY <1>1, <1>2 DEF Truthful, Writing
<1>4. 1 \in 1 .. Len(work[w].todo)
  BY <1>1, ListCases
<1> QED
  BY <1>1, <1>2, <1>3, <1>4 DEF HarmlessList, HarmlessStep, First

LEMMA UpdateColumnsTruth ==
  ASSUME IInv, JInv, NEW w \in Workers, UpdateColumns(w)
  PROVE  JInv'
<1>1. /\ Doing(w, "columns") /\ source' = Merge(source, Set(w)) /\ Writes(w, Rest(w))
      /\ UNCHANGED <<result, audited, disputed>>
  BY DEF UpdateColumns
<1>2. /\ Harmless(Set(w)) /\ work[w].todo # <<>> /\ First(work[w]) = "columns"
      /\ \A m \in Modes : work[w].todo # ModeChange(m)
  BY <1>1, HarmlessNow, Doings DEF Set, IInv
<1>3. Truthful(Rest(w), source', disputed')
  BY <1>1, <1>2, RestTruth
<1>4. torn => torn'
  BY <1>1 DEF Writes
<1>5. DryrunStatusAgrees' /\ ReadyIsEarned' /\ source'.mode = source.mode
  BY <1>1, <1>2, <1>4, HarmlessWrite
<1>6. ModeChangesAreLogged'
  BY <1>1, <1>2, <1>4, <1>5, StillLogged, WritesMoves DEF IInv
<1>7. \A r \in disputed' : result'[r].status # "ABSENT"
  BY <1>1 DEF JInv, Exists
<1> QED
  BY <1>1, <1>3, <1>5, <1>6, <1>7, TruthMove

LEMMA UpdateProjectDataSourcesLifecycleTruth ==
  ASSUME IInv, JInv, NEW w \in Workers, UpdateProjectDataSourcesLifecycle(w)
  PROVE  JInv'
<1> DEFINE set == Head(work[w].todo).set
<1>1. /\ Doing(w, "bulk") /\ UNCHANGED <<result, audited, disputed>>
      /\ \/ source' = Merge(source, set) /\ Writes(w, Rest(w))
         \/ Proceeds(w, Rest(w)) /\ UNCHANGED <<source, torn>>
  BY DEF UpdateProjectDataSourcesLifecycle
<1>2. /\ Harmless(set) /\ work[w].todo # <<>> /\ First(work[w]) = "bulk"
      /\ \A m \in Modes : work[w].todo # ModeChange(m)
  BY <1>1, HarmlessNow, Doings DEF IInv
<1>3. CASE Proceeds(w, Rest(w)) /\ UNCHANGED <<source, torn>>
  BY <1>1, <1>3, RestStays DEF Done
<1>4. CASE source' = Merge(source, set) /\ Writes(w, Rest(w))
  <2> HIDE DEF set
  <2>1. Truthful(Rest(w), source', disputed')
    BY <1>1, <1>2, RestTruth
  <2>2. torn => torn'
    BY <1>4 DEF Writes
  <2>3. DryrunStatusAgrees' /\ ReadyIsEarned' /\ source'.mode = source.mode
    BY <1>1, <1>2, <1>4, <2>2, HarmlessWrite
  <2>4. ModeChangesAreLogged'
    BY <1>1, <1>2, <1>4, <2>2, <2>3, StillLogged, WritesMoves DEF IInv
  <2>5. \A r \in disputed' : result'[r].status # "ABSENT"
    BY <1>1 DEF JInv, Exists
  <2> QED
    BY <1>1, <1>4, <2>1, <2>3, <2>4, <2>5, TruthMove
<1> QED
  BY <1>1, <1>3, <1>4

LEMMA CreateCrawlModeChangeTruth ==
  ASSUME IInv, JInv, NEW w \in Workers, CreateCrawlModeChange(w)
  PROVE  JInv'
<1>1. /\ Doing(w, "audit") /\ audited' = Head(work[w].todo).mode /\ Writes(w, Rest(w))
      /\ UNCHANGED <<source, result, disputed>>
  BY DEF CreateCrawlModeChange
<1>2. /\ Shape(work[w]) /\ work[w].todo # <<>> /\ First(work[w]) = "audit"
      /\ Truthful(work[w], source, disputed)
  BY <1>1, Doings DEF IInv, JInv
<1>3. ~ HarmlessList(work[w].todo)
  <2>1. 1 \in 1 .. Len(work[w].todo)
    BY <1>2, ListCases
  <2> QED
    BY <1>2, <2>1 DEF HarmlessList, HarmlessStep, First
<1>4. \A m \in Modes : work[w].todo # ModeChange(m)
  BY <1>2, TwoSteps DEF ModeChange, First, FullRow
<1>5. \A set : work[w].todo # <<FullRow(set), Call("publish")>>
  BY <1>2, TwoSteps DEF First, FullRow
<1>6. PICK m \in Modes : work[w].todo = <<Audit(m)>> /\ (~ work[w].stale => source.mode = m)
  BY <1>2, <1>3, <1>4, <1>5 DEF Truthful, Writing
<1>7. audited' = m
  BY <1>1, <1>6, OneStep DEF Audit
<1>8. ModeChangesAreLogged'
  BY <1>1, <1>6, <1>7 DEF ModeChangesAreLogged, Writes
<1>9. Truthful(Rest(w), source', disputed')
  BY <1>1, <1>2, <1>4, RestTruth
<1>10. DryrunStatusAgrees' /\ ReadyIsEarned'
  BY <1>1 DEF JInv, DryrunStatusAgrees, ReadyIsEarned, Writes
<1>11. \A r \in disputed' : result'[r].status # "ABSENT"
  BY <1>1 DEF JInv, Exists
<1> QED
  BY <1>1, <1>8, <1>9, <1>10, <1>11, TruthMove

-----------------------------------------------------------------------------
(***************************************************************************)
(* The second invariant: the database and broker steps.                    *)
(***************************************************************************)
(* The full row: of the source as it is, or the history is torn.           *)
LEMMA UpdateDataSourceTruth ==
  ASSUME IInv, JInv, NEW w \in Workers, UpdateDataSource(w)
  PROVE  JInv'
<1> DEFINE p == work[w]
           set == Set(w)
<1>1. /\ Doing(w, "source") /\ p.row # None
      /\ source' = Merge(p.row, set) /\ Writes(w, Rest(w))
      /\ UNCHANGED <<result, audited, disputed>> /\ torn' = (torn \/ p.stale)
  BY DEF UpdateDataSource, Writes
<1>2. /\ Shape(p) /\ p.todo # <<>> /\ First(p) = "source" /\ set = p.todo[1].set
      /\ Truthful(p, source, disputed) /\ source \in Source
  BY <1>1, Doings DEF IInv, JInv, Rows, Set
<1>3. p.stale \/ p.row = source
  BY <1>1, <1>2 DEF Truthful, FreshRow
<1>4. p.row \in Source
  BY <1>1, <1>2 DEF Shape, FoundRow, First
<1>5. Moved(w, Rest(w))
  BY <1>1, WritesMoves DEF IInv
<1>6. \A r \in disputed' : result'[r].status # "ABSENT"
  BY <1>1 DEF JInv, Exists
<1>7. \A m \in Modes : p.todo = ModeChange(m) => set = [mode |-> m]
  BY <1>2, TwoSteps DEF ModeChange, FullRow
<1> HIDE DEF set
<1>8. Truthful(Rest(w), source', disputed')
  <2>1. \A m \in Modes : p.todo = ModeChange(m) => source'.mode = m
    <3> SUFFICES ASSUME NEW m \in Modes, p.todo = ModeChange(m)
                 PROVE  source'.mode = m
      OBVIOUS
    <3> QED
      BY <1>1, <1>4, <1>7, MergedColumns
  <2> QED
    BY <1>1, <1>2, <2>1, RestTruth
<1>9. DryrunStatusAgrees' /\ ReadyIsEarned' /\ ModeChangesAreLogged'
  <2>1. CASE p.stale
    BY <1>1, <2>1 DEF DryrunStatusAgrees, ReadyIsEarned, ModeChangesAreLogged
  <2>2. CASE ~ p.stale /\ HarmlessList(p.todo)
    <3>1. Harmless(set)
      <4>1. 1 \in 1 .. Len(p.todo)
        BY <1>2, ListCases
      <4> QED
        BY <1>2, <2>2, <4>1 DEF HarmlessList, HarmlessStep, First
    <3>2. source' = Merge(source, set) /\ (torn => torn')
      BY <1>1, <1>3, <2>2
    <3>3. DryrunStatusAgrees' /\ ReadyIsEarned' /\ source'.mode = source.mode
      BY <1>1, <3>1, <3>2, HarmlessWrite
    <3> QED
      BY <1>1, <1>2, <1>5, <3>2, <3>3, StillLogged
  <2>3. ASSUME ~ p.stale, p.op = "UpdateCrawlMode", NEW m \in Modes, p.todo = ModeChange(m)
        PROVE  DryrunStatusAgrees' /\ ReadyIsEarned' /\ ModeChangesAreLogged'
    <3>1. /\ source'.status = source.status /\ source'.dry = source.dry
          /\ source'.last = source.last
      <4> DEFINE s == [mode |-> m]
      <4>1. source' = Merge(source, s) /\ source \in Source
        BY <1>1, <1>2, <1>3, <1>7, <2>3
      <4>2. "status" \notin DOMAIN s /\ "dry" \notin DOMAIN s /\ "last" \notin DOMAIN s
        OBVIOUS
      <4> HIDE DEF s
      <4> QED
        BY <4>1, <4>2, MergedColumns
    <3>2. DryrunStatusAgrees' /\ ReadyIsEarned'
      BY <1>1, <2>3, <3>1 DEF JInv, DryrunStatusAgrees, ReadyIsEarned
    <3>3. Rest(w).op = "UpdateCrawlMode" /\ Rest(w).todo = <<Audit(m)>>
      <4> DEFINE old == work[w]
                 q == <<Audit(m)>>
      <4>1. Tail(p.todo) = q /\ q # <<>>
        BY <2>3, TwoSteps, OneStep DEF ModeChange, Audit
      <4>2. Rest(w) = [old EXCEPT !.todo = q, !.row = None] /\ Fields(old)
        BY <1>2, <4>1 DEF Rest, Shape
      <4>3. old.op = "UpdateCrawlMode"
        BY <2>3
      <4> HIDE DEF old, q
      <4>4. Rest(w).op = old.op /\ Rest(w).todo = q
        BY <4>2 DEF Fields
      <4> QED
        BY <4>3, <4>4 DEF q
    <3>4. work'[w].op = "UpdateCrawlMode" /\ Doing(w, "audit")'
      BY <1>5, <3>3, OneStep DEF Moved, Doing, Audit
    <3> QED
      BY <3>2, <3>4 DEF ModeChangesAreLogged
  <2>4. ASSUME ~ p.stale, p.op = "Trigger", NEW s, p.todo = <<FullRow(s), Call("publish")>>,
               s = Demoting(p.run) \/ (s = Running(p.run) /\ source.status \notin {"PENDING", "READY"})
        PROVE  DryrunStatusAgrees' /\ ReadyIsEarned' /\ ModeChangesAreLogged'
    <3>1. set = s
      BY <1>2, <2>4, TwoSteps DEF FullRow
    <3>2. source' = Merge(source, s)
      BY <1>1, <1>3, <2>4, <3>1
    <3>3. /\ source'.dry = "RUNNING" /\ source'.last = p.run
          /\ source'.status # "READY" /\ source'.mode = source.mode
      BY <1>2, <2>4, <3>2, MergedColumns DEF Demoting, Running
    <3>4. p.run \in Runs
      <4>1. ~ Editing(p.todo) \/ p.op = "Trigger"
        BY <2>4
      <4>2. p.todo # <<Call("insert"), Call("running"), Call("publish")>>
        BY <1>2, ThreeSteps, Calls DEF First
      <4> QED
        BY <1>2, <2>4, <4>2, IdleShape DEF Shape, Plan
    <3>5. p.run \notin disputed
      BY <1>2, <2>4 DEF Truthful, Early
    <3>6. result[p.run].status = "RUNNING"
      BY <2>4, <3>4, <3>5 DEF IInv, Claims, Alone
    <3>7. p.run # None
      BY <3>4, DataSourceAssumption DEF Runs, DataSourceAssumption
    <3>8. DryrunStatusAgrees' /\ ReadyIsEarned'
      BY <1>1, <3>3, <3>6, <3>7 DEF DryrunStatusAgrees, ReadyIsEarned
    <3>9. ModeChangesAreLogged'
      BY <1>1, <1>2, <1>5, <3>3, StillLogged
    <3> QED
      BY <3>8, <3>9
  <2>5. \A m \in Modes : p.todo # <<Audit(m)>>
    BY <1>2, OneStep DEF Audit, First
  <2>6. \/ HarmlessList(p.todo)
        \/ p.op = "UpdateCrawlMode" /\ \E m \in Modes : p.todo = ModeChange(m)
        \/ p.op = "Trigger" /\ p.todo = <<FullRow(Demoting(p.run)), Call("publish")>>
        \/ /\ p.op = "Trigger" /\ p.todo = <<FullRow(Running(p.run)), Call("publish")>>
           /\ ~ p.stale => source.status \notin {"PENDING", "READY"}
    BY <1>2, <2>5 DEF Truthful, Writing
  <2>7. CASE p.op = "Trigger" /\ p.todo = <<FullRow(Demoting(p.run)), Call("publish")>>
    BY <2>1, <2>4, <2>7
  <2>8. CASE /\ p.op = "Trigger" /\ p.todo = <<FullRow(Running(p.run)), Call("publish")>>
             /\ ~ p.stale => source.status \notin {"PENDING", "READY"}
    BY <2>1, <2>4, <2>8
  <2> QED
    BY <2>1, <2>2, <2>3, <2>6, <2>7, <2>8
<1> QED
  BY <1>1, <1>6, <1>8, <1>9, TruthMove

LEMMA DemoteTruth ==
  ASSUME IInv, JInv, NEW w \in Workers, Demote(w)
  PROVE  JInv'
<1> DEFINE old == work[w]
           todo == <<FullRow([status |-> "PENDING", dry |-> "PENDING"])>>
           p == [old EXCEPT !.todo = todo]
<1>1. /\ Doing(w, "demote") /\ (Proceeds(w, p) \/ Proceeds(w, Idle))
      /\ UNCHANGED <<source, result, audited, disputed, torn>>
  BY DEF Demote, rowVars, historyVars
<1>2. /\ Shape(old) /\ old.todo # <<>> /\ First(old) = "demote"
      /\ old.op # "Trigger" /\ old.row = None
  <2>1. Shape(old) /\ old.todo # <<>> /\ First(old) = "demote"
    BY <1>1, Doings DEF IInv
  <2> QED
    BY <2>1, InEditing DEF Shape, FoundRow, First
<1>3. HarmlessList(todo)
  BY HarmlessLists, HarmlessCalls, HarmlessColumns
<1>4. p.op = old.op /\ p.todo = todo /\ p.row = old.row /\ p.stale = old.stale
  <2>1. Fields(old)
    BY <1>2 DEF Shape
  <2> HIDE DEF old, todo
  <2> QED
    BY <2>1 DEF Fields
<1> HIDE DEF p, todo
<1>5. Truthful(p, source, disputed)
  BY <1>2, <1>3, <1>4 DEF Truthful, Writing, FreshRow, Early
<1> QED
  BY <1>1, <1>2, <1>5, IdleTruth, TruthStays

LEMMA MarkDryrunRunningTruth ==
  ASSUME IInv, JInv, NEW w \in Workers, MarkDryrunRunning(w)
  PROVE  JInv'
<1> DEFINE old == work[w]
           set == IF source.status \in {"PENDING", "READY"}
                  THEN Demoting(old.run) ELSE Running(old.run)
           todo == <<FullRow(set)>> \o Tail(old.todo)
           p == [old EXCEPT !.todo = todo]
<1>1. /\ Doing(w, "running") /\ (Proceeds(w, p) \/ Proceeds(w, Idle))
      /\ UNCHANGED <<source, result, audited, disputed, torn>>
  BY DEF MarkDryrunRunning, rowVars, Demoting, Running
<1>2. /\ Shape(old) /\ old.todo # <<>> /\ First(old) = "running"
      /\ old.op = "Trigger" /\ old.row = None
      /\ old.todo = <<Call("running"), Call("publish")>>
      /\ Truthful(old, source, disputed)
  <2>1. Shape(old) /\ old.todo # <<>> /\ First(old) = "running"
    BY <1>1, Doings DEF IInv
  <2> QED
    BY <2>1, InTrigger DEF Shape, FoundRow, First, JInv
<1>3. todo = <<FullRow(set), Call("publish")>>
  <2>1. Tail(old.todo) = <<Call("publish")>>
    BY <1>2, TwoSteps
  <2> DEFINE s == FullRow(set)
  <2> HIDE DEF s
  <2>2. <<s>> \o Tail(old.todo) = <<s, Call("publish")>>
    BY <2>1, Joined
  <2> QED
    BY <2>2 DEF s
<1>4. /\ p.op = old.op /\ p.todo = todo /\ p.row = old.row /\ p.stale = old.stale
      /\ p.run = old.run
  <2>1. Fields(old)
    BY <1>2 DEF Shape
  <2> HIDE DEF old, todo
  <2> QED
    BY <2>1 DEF Fields
<1> HIDE DEF p, todo
<1>5. Truthful(p, source, disputed)
  <2>1. Writing(p, source)
    BY <1>2, <1>3, <1>4 DEF Writing
  <2>2. FreshRow(p, source) /\ Early(p, disputed)
    BY <1>2, <1>4 DEF Truthful, FreshRow, Early
  <2> QED
    BY <2>1, <2>2 DEF Truthful
<1> QED
  BY <1>1, <1>2, <1>5, IdleTruth, TruthStays

LEMMA CreateResultTruth ==
  ASSUME IInv, JInv, NEW w \in Workers, CreateResult(w)
  PROVE  JInv'
<1> DEFINE old == work[w]
<1>1. /\ Shape(old) /\ old.todo # <<>> /\ First(old) = "insert"
      /\ old.todo = <<Call("insert"), Call("running"), Call("publish")>>
  BY Doings, InTrigger DEF CreateResult, IInv
<1>2. PICK r \in Runs :
        /\ {q \in Runs : result[q].status = "ABSENT"} = r .. MaxRuns
        /\ result' = [result EXCEPT ![r] = [status |-> "RUNNING", target |-> old.target]]
        /\ Writes(w, [Rest(w) EXCEPT !.run = r])
  BY DEF CreateResult
<1> DEFINE p == [Rest(w) EXCEPT !.run = r]
<1>3. result[r].status = "ABSENT"
  <2>1. r \in r .. MaxRuns
    BY DataSourceAssumption DEF Runs, DataSourceAssumption
  <2> QED
    BY <1>2, <2>1
<1>4. r \notin disputed
  BY <1>3 DEF JInv, Exists
<1>5. p.run = r /\ p.todo = <<Call("running"), Call("publish")>> /\ p.row = None
  <2> DEFINE q == Tail(old.todo)
  <2>1. q = <<Call("running"), Call("publish")>> /\ q # <<>>
    BY <1>1, TwoSteps, ThreeSteps
  <2>2. Rest(w) = [old EXCEPT !.todo = q, !.row = None] /\ Fields(old)
    BY <1>1, <2>1 DEF Rest, Shape
  <2>3. p = [[old EXCEPT !.todo = q, !.row = None] EXCEPT !.run = r]
    BY <2>2
  <2> HIDE DEF q, p
  <2>4. p.run = r /\ p.todo = q /\ p.row = None
    <3> HIDE DEF old
    <3> QED
      BY <2>2, <2>3 DEF Fields
  <2> QED
    BY <2>1, <2>4
<1>6. Writes(w, p) /\ UNCHANGED <<source, audited, disputed>>
  BY <1>2 DEF CreateResult
<1> HIDE DEF p
<1>7. Truthful(p, source', disputed')
  <2>1. HarmlessList(p.todo)
    BY <1>5, HarmlessLists, HarmlessCalls
  <2> QED
    BY <1>4, <1>5, <1>6, <2>1 DEF Truthful, Writing, FreshRow, Early
<1>8. \A q \in Runs \ {r} : result'[q] = result[q]
  BY <1>2 DEF IInv, Rows
<1>9. torn => torn'
  BY <1>6 DEF Writes
<1>10. DryrunStatusAgrees' /\ ReadyIsEarned'
  <2>1. ReadyIsEarned'
    BY <1>6, <1>9 DEF JInv, ReadyIsEarned
  <2>2. source.last \in Runs \cup {None}
    BY DEF IInv, Rows, Source
  <2>3. DryrunStatusAgrees'
    BY <1>3, <1>6, <1>8, <1>9, <2>2 DEF JInv, DryrunStatusAgrees
  <2> QED
    BY <2>1, <2>3
<1>11. ModeChangesAreLogged'
  BY <1>1, <1>6, <1>9, StillLogged, WritesMoves DEF IInv
<1>12. \A q \in disputed' : result'[q].status # "ABSENT"
  BY <1>4, <1>6, <1>8 DEF JInv, Exists, IInv, Rows
<1> QED
  BY <1>6, <1>7, <1>10, <1>11, <1>12, TruthMove

LEMMA PublishDispatchTruth ==
  ASSUME IInv, JInv, NEW w \in Workers, PublishDispatch(w)
  PROVE  JInv'
<1>1. /\ Doing(w, "publish") /\ Proceeds(w, Rest(w))
      /\ UNCHANGED <<source, result, audited, disputed, torn>>
  BY DEF PublishDispatch, rowVars, historyVars
<1>2. Rest(w) = Idle
  BY <1>1, Publishing, OneStep DEF Rest
<1>3. First(work[w]) = "publish"
  BY <1>1, Doings DEF IInv
<1> QED
  BY <1>1, <1>2, <1>3, IdleTruth, TruthStays

LEMMA PublishFailsTruth ==
  ASSUME IInv, JInv, NEW w \in Workers, PublishFails(w)
  PROVE  JInv'
<1> DEFINE old == work[w]
           todo == <<Complete("FAILED")>>
           p == [old EXCEPT !.todo = todo]
<1>1. /\ Doing(w, "publish") /\ Proceeds(w, p)
      /\ disputed' = disputed \cup {old.run} \/ disputed' = disputed
      /\ UNCHANGED <<source, result, audited, torn>>
  BY DEF PublishFails, rowVars
<1>2. /\ Fields(old) /\ old.row = None /\ old.op = "Trigger" /\ First(old) = "publish"
      /\ old.run \in Runs /\ Exists(old.run) /\ old.todo # <<>>
      /\ Truthful(old, source, disputed)
  BY <1>1, Publishing, Doings DEF Shape, JInv, IInv
<1>3. p.op = old.op /\ p.todo = todo /\ p.row = old.row
  <2> HIDE DEF old, todo
  <2> QED
    BY <1>2 DEF Fields
<1>4. First(p) = "complete" /\ HarmlessList(todo)
  BY <1>3, OneStep, HarmlessLists, HarmlessCalls DEF First, Complete
<1> HIDE DEF p, todo
<1>5. Truthful(p, source', disputed')
  BY <1>1, <1>2, <1>3, <1>4 DEF Truthful, Writing, FreshRow, Early
<1>6. ASSUME NEW v \in Workers \ {w}, Early(work[v], disputed)
      PROVE  Early(work[v], disputed')
  <2>1. old.run \notin disputed
    BY <1>2 DEF Truthful, Early
  <2>2. work[v].run # old.run
    BY <1>2, <2>1 DEF IInv, Claims, Alone
  <2> QED
    BY <1>1, <1>6, <2>2 DEF Early
<1>7. \A r \in disputed' : result'[r].status # "ABSENT"
  BY <1>1, <1>2 DEF JInv, Exists
<1>8. DryrunStatusAgrees' /\ ReadyIsEarned'
  BY <1>1 DEF JInv, DryrunStatusAgrees, ReadyIsEarned
<1>9. ModeChangesAreLogged'
  BY <1>1, <1>2, StillLogged, ProceedsMoves DEF IInv
<1> QED
  BY <1>1, <1>5, <1>6, <1>7, <1>8, <1>9, TruthMove

LEMMA BeginCompleteTruth ==
  ASSUME IInv, JInv, NEW w \in Workers, BeginComplete(w)
  PROVE  JInv'
<1> DEFINE old == work[w]
           p == [old EXCEPT !.row = source, !.stale = FALSE]
<1>1. /\ Doing(w, "complete") /\ (Proceeds(w, p) \/ Proceeds(w, Idle))
      /\ UNCHANGED <<source, result, audited, disputed, torn>>
  BY DEF BeginComplete, Stops, rowVars
<1>2. /\ HarmlessList(old.todo) /\ First(old) = "complete" /\ Fields(old)
      /\ Truthful(old, source, disputed)
  BY <1>1, HarmlessNow DEF JInv, IInv, Handlers, Shape
<1>3. p.todo = old.todo
  <2> HIDE DEF old
  <2> QED
    BY <1>2 DEF Fields
<1> HIDE DEF p
<1>4. Truthful(p, source, disputed)
  BY <1>2, <1>3 DEF Truthful, Writing, FreshRow, Early, First
<1> QED
  BY <1>1, <1>2, <1>4, IdleTruth, TruthStays

LEMMA AbortTruth ==
  ASSUME IInv, JInv, NEW w \in Workers, Abort(w)
  PROVE  JInv'
<1>1. /\ Proceeds(w, Idle) /\ torn' = (torn \/ Halfway(w))
      /\ UNCHANGED <<source, result, audited, disputed>>
  BY DEF Abort, Stops, rowVars
<1>2. ASSUME work[w].todo # <<>>, First(work[w]) = "audit"
      PROVE  Halfway(w)
  <2>1. Shape(work[w]) /\ Truthful(work[w], source, disputed)
    BY DEF IInv, Handlers, JInv
  <2>2. 1 \in 1 .. Len(work[w].todo) /\ Head(work[w].todo) = work[w].todo[1]
    BY <1>2, <2>1, ListCases
  <2>3. ~ HarmlessList(work[w].todo)
    BY <1>2, <2>2 DEF HarmlessList, HarmlessStep, First
  <2>4. /\ \A m \in Modes : work[w].todo # ModeChange(m)
        /\ \A set : work[w].todo # <<FullRow(set), Call("publish")>>
    BY <1>2, TwoSteps DEF ModeChange, First, FullRow
  <2>5. work[w].op = "UpdateCrawlMode" /\ \E m \in Modes : work[w].todo = <<Audit(m)>>
    BY <2>1, <2>3, <2>4 DEF Truthful, Writing
  <2>6. Len(work[w].todo) = 1
    BY <2>5, OneStep
  <2> QED
    BY <1>2, <2>2, <2>5, <2>6 DEF Halfway, Doing, First
<1> QED
  BY <1>1, <1>2, IdleTruth, TruthStays

LEMMA CompleteResultTruth ==
  ASSUME IInv, JInv, NEW w \in Workers, CompleteResult(w)
  PROVE  JInv'
<1> DEFINE p == work[w]
           r == p.run
           verdict == Head(p.todo).verdict
           status == StatusAfter(verdict, p.row.status)
           set == [status |-> status, dry |-> verdict, last |-> r]
<1>1. /\ Doing(w, "complete") /\ Writes(w, Rest(w))
      /\ UNCHANGED <<audited, disputed>>
      /\ result' = [result EXCEPT ![r].status = verdict]
  BY DEF CompleteResult
<1>2. source' = Merge(source, set)
  BY DEF CompleteResult, Synchronized
<1>3. /\ Shape(p) /\ p.todo # <<>> /\ First(p) = "complete" /\ Head(p.todo) = p.todo[1]
      /\ \A m \in Modes : p.todo # ModeChange(m)
  BY <1>1, HarmlessNow, Doings DEF IInv
<1>4. verdict \in {"SUCCESS", "FAILED"} /\ r \in Runs /\ r # None
  BY <1>3, InCompletion, DataSourceAssumption DEF CompleteStep, Runs, DataSourceAssumption
<1>5. status = "READY" => verdict = "SUCCESS"
  BY <1>4 DEF StatusAfter
<1> HIDE DEF verdict, status
<1>6. /\ source'.status = status /\ source'.dry = verdict /\ source'.last = r
      /\ source'.mode = source.mode
  BY <1>2, MergedColumns DEF IInv, Rows
<1>7. /\ result'[r].status = verdict
      /\ \A q \in Runs \ {r} : result'[q] = result[q]
  BY <1>1, <1>4 DEF IInv, Rows, Result
<1>8. DryrunStatusAgrees' /\ ReadyIsEarned'
  BY <1>4, <1>5, <1>6, <1>7 DEF DryrunStatusAgrees, ReadyIsEarned
<1>9. ModeChangesAreLogged'
  BY <1>1, <1>3, <1>6, StillLogged, WritesMoves DEF IInv, Writes
<1>10. Truthful(Rest(w), source', disputed')
  BY <1>1, <1>3, RestTruth
<1>11. \A q \in disputed' : result'[q].status # "ABSENT"
  BY <1>1, <1>4, <1>7 DEF JInv, Exists, IInv, Rows
<1> QED
  BY <1>1, <1>8, <1>9, <1>10, <1>11, TruthMove

(* Steps that touch no row of the source.                                  *)
LEMMA UntouchedTruth ==
  ASSUME JInv, UNCHANGED <<work, source, result, audited, torn, disputed>>
  PROVE  JInv'
<1>1. /\ \A w \in Workers : Truthful(work'[w], source', disputed')
      /\ \A r \in disputed' : Exists(r)'
  BY DEF JInv, Exists
<1>2. DryrunStatusAgrees' /\ ReadyIsEarned' /\ ModeChangesAreLogged'
  BY DEF JInv, DryrunStatusAgrees, ReadyIsEarned, ModeChangesAreLogged, Doing
<1> QED
  BY <1>1, <1>2 DEF JInv

LEMMA HandleCompletionTruth ==
  ASSUME IInv, JInv, NEW c \in Consumers, NEW r \in Runs, HandleCompletion(c, r)
  PROVE  JInv'
<1>1. PICK m \in answers :
        /\ m.run = r
        /\ IF m.kind = "malformed"
             THEN UNCHANGED <<work, disputed>>
             ELSE /\ \E todo \in Handled(m) :
                       Proceeds(c, [Idle EXCEPT !.op = "completion", !.target = result[r].target,
                                     !.run = r, !.todo = todo \o <<Call("ack")>>, !.answer = m])
                  /\ disputed' = disputed \/ disputed' = disputed \cup {r}
  BY DEF HandleCompletion
<1>2. work[c] = Idle /\ c \in Workers /\ UNCHANGED <<source, result, audited, torn>>
  BY DEF HandleCompletion, rowVars, Workers
<1>3. CASE m.kind = "malformed"
  BY <1>1, <1>2, <1>3, UntouchedTruth
<1>4. CASE m.kind # "malformed"
  <2>1. PICK todo \in Handled(m) :
          Proceeds(c, [Idle EXCEPT !.op = "completion", !.target = result[r].target,
                        !.run = r, !.todo = todo \o <<Call("ack")>>, !.answer = m])
    BY <1>1, <1>4
  <2> DEFINE list == todo \o <<Call("ack")>>
             p == [Idle EXCEPT !.op = "completion", !.target = result[r].target,
                               !.run = r, !.todo = list, !.answer = m]
  <2>2. Proceeds(c, p)
    BY <2>1
  <2>3. HarmlessList(list)
    <3> DEFINE ack == Call("ack")
               s == TargetRow([active |-> TRUE])
               u == FullRow([status |-> "READY", dry |-> "NOT_REQUIRED"])
    <3>1. HarmlessStep(ack) /\ HarmlessStep(s) /\ HarmlessStep(u)
      BY HarmlessCalls, HarmlessActivation
    <3>2. \/ todo = <<>> \/ todo = <<s>> \/ todo = <<s, u>>
          \/ \E v : todo = <<Complete(v)>>
      BY HarmlessActivation DEF Handled
    <3> HIDE DEF ack, s, u
    <3>3. \/ todo \o <<ack>> = <<ack>> \/ todo \o <<ack>> = <<s, ack>>
          \/ todo \o <<ack>> = <<s, u, ack>>
          \/ \E v : todo \o <<ack>> = <<Complete(v), ack>>
      BY <3>2, Joined
    <3>4. HarmlessList(todo \o <<ack>>)
      BY <3>1, <3>3, HarmlessLists, HarmlessCalls
    <3> QED
      BY <3>4 DEF ack
  <2> HIDE DEF list
  <2>4. p.op = "completion" /\ p.todo = list /\ p.row = None
    BY DEF Idle
  <2> HIDE DEF p
  <2>5. Truthful(p, source, disputed')
    BY <2>3, <2>4 DEF Truthful, Writing, FreshRow, Early
  <2>6. \A v \in Workers \ {c} : Early(work[v], disputed) => Early(work[v], disputed')
    <3> SUFFICES ASSUME NEW v \in Workers \ {c}, Early(work[v], disputed),
                        work[v].op = "Trigger", work[v].run = r
                 PROVE  r \in disputed
      BY <1>1, <1>4 DEF Early
    <3> QED
      BY <1>1 DEF IInv, Claims, Alone
  <2>7. \A q \in disputed' : result'[q].status # "ABSENT"
    BY <1>1, <1>2, <1>4 DEF JInv, IInv, Known, Exists
  <2>8. DryrunStatusAgrees' /\ ReadyIsEarned'
    BY <1>2 DEF JInv, DryrunStatusAgrees, ReadyIsEarned
  <2>9. ModeChangesAreLogged'
    BY <1>2, <2>2, IdleShape, StillLogged, ProceedsMoves DEF IInv, JInv
  <2> QED
    BY <1>2, <2>2, <2>5, <2>6, <2>7, <2>8, <2>9, TruthMove
<1> QED
  BY <1>3, <1>4

(* A statement of no handler makes all of them stale.                      *)
LEMMA AtOnceTruth ==
  ASSUME IInv, JInv, WritesAtOnce, UNCHANGED <<result, disputed>>,
         DryrunStatusAgrees', ReadyIsEarned', ModeChangesAreLogged'
  PROVE  JInv'
<1>1. ASSUME NEW v \in Workers
      PROVE  Truthful(work'[v], source', disputed')
  <2>0. Shape(work[v]) /\ Truthful(work[v], source, disputed)
    BY DEF IInv, Handlers, JInv
  <2>1. work'[v] = Overtaken(v)
    BY DEF WritesAtOnce
  <2>2. CASE work[v] = Idle
    BY <2>1, <2>2, IdleTruth DEF Overtaken
  <2>3. CASE work[v] # Idle
    <3>1. Same(work[v], work'[v])
      BY <2>0, <2>1, OvertakenIsSame
    <3>2. work'[v].stale = TRUE
      <4> DEFINE old == work[v]
      <4>1. work'[v] = [old EXCEPT !.stale = TRUE] /\ Fields(old)
        BY <2>0, <2>1, <2>3 DEF Overtaken, Shape
      <4> HIDE DEF old
      <4> QED
        BY <4>1 DEF Fields
    <3> QED
      BY <2>0, <3>1, <3>2 DEF Truthful, Writing, FreshRow, Early, Same, First
  <2> QED
    BY <2>2, <2>3
<1> QED
  BY <1>1 DEF JInv, Exists

LEMMA PauseTruth ==
  ASSUME IInv, JInv, Pause
  PROVE  JInv'
<1>1. /\ source' = Merge(source, ToPaused) /\ WritesAtOnce
      /\ UNCHANGED <<result, audited, disputed, torn>>
  BY DEF Pause, WritesAtOnce
<1>2. DryrunStatusAgrees' /\ ReadyIsEarned' /\ source'.mode = source.mode
  BY <1>1, HarmlessWrite, HarmlessColumns
<1>3. AllKept
  BY <1>1, AllAreKept DEF IInv
<1>4. ModeChangesAreLogged'
  BY <1>1, <1>2, <1>3 DEF JInv, ModeChangesAreLogged, AllKept, Kept, Same, Doing
<1> QED
  BY <1>1, <1>2, <1>4, AtOnceTruth

LEMMA UpdateProjectCrawlModeTruth ==
  ASSUME IInv, JInv, NEW m \in Modes, UpdateProjectCrawlMode(m)
  PROVE  JInv'
<1>1. /\ source' = [source EXCEPT !.mode = m] /\ audited' = m /\ WritesAtOnce
      /\ UNCHANGED <<result, disputed, torn>>
  BY DEF UpdateProjectCrawlMode, WritesAtOnce
<1>2. /\ source'.mode = m /\ source'.status = source.status /\ source'.dry = source.dry
      /\ source'.last = source.last
  BY <1>1 DEF IInv, Rows, Source
<1>3. DryrunStatusAgrees' /\ ReadyIsEarned'
  BY <1>1, <1>2 DEF JInv, DryrunStatusAgrees, ReadyIsEarned
<1>4. ModeChangesAreLogged'
  BY <1>1, <1>2 DEF ModeChangesAreLogged
<1> QED
  BY <1>1, <1>3, <1>4, AtOnceTruth

LEMMA InitTruth ==
  ASSUME Init
  PROVE  JInv
<1>1. \A w \in Workers : Truthful(work[w], source, disputed)
  BY IdleTruth DEF Init
<1> QED
  BY <1>1 DEF Init, JInv, DryrunStatusAgrees, ReadyIsEarned, ModeChangesAreLogged

LEMMA NextTruth ==
  ASSUME IInv, JInv, [Next]_vars
  PROVE  JInv'
<1>1. ASSUME NEW w \in Requests, SourceRequest(w) \/ TargetRequest(w) \/ PublishFails(w)
      PROVE  JInv'
  BY <1>1, SourceRequestTruth, TargetRequestTruth, PublishFailsTruth DEF TargetRequest, Workers
<1>2. ASSUME Pause \/ \E m \in Modes : UpdateProjectCrawlMode(m)
      PROVE  JInv'
  BY <1>2, PauseTruth, UpdateProjectCrawlModeTruth
<1>3. ASSUME NEW r \in Runs, CrawlerAnswers(r) \/ \E c \in Consumers : HandleCompletion(c, r)
      PROVE  JInv'
  <2>1. CrawlerAnswers(r) => UNCHANGED <<work, source, result, audited, torn, disputed>>
    BY DEF CrawlerAnswers, rowVars, historyVars
  <2> QED
    BY <1>3, <2>1, HandleCompletionTruth, UntouchedTruth
<1>4. ASSUME NEW c \in Consumers, PromotionFails(c)
      PROVE  JInv'
  BY <1>4, PromotionFailsTruth DEF Workers
<1>5. ASSUME NEW w \in Workers, RequestStep(w)
      PROVE  JInv'
  BY <1>5, PlainStepsTruth, FindRowTruth, UpdateDataSourceTruth, UpdateColumnsTruth,
     UpdateProjectDataSourcesLifecycleTruth, CreateCrawlModeChangeTruth, DemoteTruth,
     CreateResultTruth, MarkDryrunRunningTruth, PublishDispatchTruth
  DEF RequestStep
<1>6. ASSUME NEW w \in Workers, BeginComplete(w) \/ CompleteResult(w) \/ Abort(w)
      PROVE  JInv'
  BY <1>6, BeginCompleteTruth, CompleteResultTruth, AbortTruth
<1>7. CASE UNCHANGED vars
  BY <1>7, UntouchedTruth DEF vars, rowVars, historyVars
<1> QED
  BY <1>1, <1>2, <1>3, <1>4, <1>5, <1>6, <1>7 DEF Next

LEMMA JInvIsInvariant == Spec => []JInv
<1>1. Init => JInv
  BY InitTruth
<1>2. IInv /\ JInv /\ [Next]_vars => JInv'
  BY NextTruth
<1> QED
  BY <1>1, <1>2, IInvIsInvariant, PTL DEF Spec

(* The source row agrees with dryrun_results in every history that is not  *)
(* torn, for any number of dry runs, of requests and of consumers: what it *)
(* says of its last dry run is what the result says.                       *)
THEOREM DryrunStatusIsTrue == Spec => []DryrunStatusAgrees
<1>1. JInv => DryrunStatusAgrees
  BY DEF JInv
<1> QED
  BY <1>1, JInvIsInvariant, PTL

(* A READY source has a usable dry run or needs none, in every history     *)
(* that is not torn, whatever the order of dry runs, edits and activations.*)
THEOREM ReadyIsAlwaysEarned == Spec => []ReadyIsEarned
<1>1. JInv => ReadyIsEarned
  BY DEF JInv
<1> QED
  BY <1>1, JInvIsInvariant, PTL

(* The audit trail ends with the source's crawl mode in every history that *)
(* is not torn, for any number of mode changes that overlap.               *)
THEOREM ModesAreLogged == Spec => []ModeChangesAreLogged
<1>1. JInv => ModeChangesAreLogged
  BY DEF JInv
<1> QED
  BY <1>1, JInvIsInvariant, PTL
=============================================================================
