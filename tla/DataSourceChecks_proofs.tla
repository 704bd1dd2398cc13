---------------------- MODULE DataSourceChecks_proofs ----------------------
(***************************************************************************)
(* Proofs about what the handlers of one source check before they write:   *)
(* that a check still holds when its write is done.                        *)
(***************************************************************************)
EXTENDS DataSourceLifecycle_proofs, FiniteSetTheorems, WellFoundedInduction

-----------------------------------------------------------------------------
(***************************************************************************)
(* The invariant.                                                          *)
(***************************************************************************)
(* A request that starts the source, archives it or takes an active target *)
(* away has nothing else to do.                                            *)
Archiving == <<Columns(ToArchived)>>
Starting(q) == q = <<FullRow(ToActive)>> \/ \E from : q = <<Bulk(from, Started)>>
Deactivating == <<TargetRow([active |-> FALSE])>>
Deleting == <<TargetRow([active |-> FALSE, flushed |-> TRUE])>>
Demotion == <<FullRow([status |-> "PENDING", dry |-> "PENDING"])>>

(* UpdateTarget, before and after it has written its target.               *)
Editor(q) ==
  \/ q = <<TargetRow(NoColumns)>> \/ q = <<Call("demote")>> \/ q = Demotion
  \/ \E set : DOMAIN set \subseteq {"active", "flushed"} /\ q = <<TargetRow(set), Call("demote")>>
Demotes(p) == p.op = "UpdateTarget" /\ p.todo # <<>> /\ First(p) # "target"

(* What all other lists set: a status that is neither ACTIVE nor ARCHIVED, *)
(* and a target that is active.                                            *)
MildStep(s) ==
  /\ s.do \in {"source", "columns", "bulk"} =>
       /\ "status" \in DOMAIN s.set => s.set["status"] \notin {"ACTIVE", "ARCHIVED"}
       /\ "deleted" \in DOMAIN s.set => s.set["deleted"] = TRUE
  /\ s.do = "target" =>
       DOMAIN s.set \subseteq {"active"} /\ ("active" \in DOMAIN s.set => s.set["active"] = TRUE)
MildList(q) == \A i \in 1 .. Len(q) : MildStep(q[i])

Form(p) ==
  \/ p.op = "UpdateTarget" /\ Editor(p.todo)
  \/ /\ p.op # "UpdateTarget"
     /\ \/ MildList(p.todo) \/ Starting(p.todo)
        \/ p.todo \in {Archiving, Deactivating, Deleting}

(* What a handler that is not stale has checked or read.                   *)
Seen(p) ==
  /\ p.todo = Archiving => ~ DryrunsRunning
  /\ Starting(p.todo) => ActiveTargets # {}
  /\ p.todo = Deactivating => Removable /\ target[p.target].active
  /\ p.op = "UpdateTarget" /\ p.todo # <<>> /\ First(p) = "target" => ~ DryrunRunning(p.target)
  /\ p.todo # <<>> /\ First(p) = "insert" =>
       source.status # "ARCHIVED" /\ target[p.target].made
  /\ p.row # None /\ p.todo # <<>> =>
       /\ First(p) \in {"source", "complete"} => p.row = source
       /\ First(p) = "target" => p.row = target[p.target]

TriggeredIsMade == \A r \in Runs : result[r].status # "ABSENT" => target[result[r].target].made
StillActive ==
  source.status = "ACTIVE" /\ Found =>
    \/ ActiveTargets # {}
    \/ \E w \in Workers : Demotes(work[w])
    \/ \E t \in Targets : target[t].flushed
Whole == ~ torn => TriggeredIsMade /\ StillActive /\ ArchivedHasNoDryrun

KInv ==
  /\ \A w \in Workers : Form(work[w]) /\ (~ work[w].stale => Seen(work[w]))
  /\ Whole

-----------------------------------------------------------------------------
(***************************************************************************)
(* Lists.                                                                  *)
(***************************************************************************)
LEMMA MildLists ==
  /\ MildList(<<>>)
  /\ \A a : MildStep(a) => MildList(<<a>>)
  /\ \A a, b : MildStep(a) /\ MildStep(b) => MildList(<<a, b>>)
  /\ \A a, b, c : MildStep(a) /\ MildStep(b) /\ MildStep(c) => MildList(<<a, b, c>>)
<1>1. ASSUME NEW a, MildStep(a) PROVE MildList(<<a>>)
  BY <1>1, OneStep DEF MildList
<1>2. ASSUME NEW a, NEW b, MildStep(a), MildStep(b) PROVE MildList(<<a, b>>)
  <2> DEFINE q == <<a, b>>
  <2>1. Len(q) = 2 /\ q[1] = a /\ q[2] = b
    BY TwoSteps
  <2> HIDE DEF q
  <2>2. MildList(q)
    BY <1>2, <2>1 DEF MildList
  <2> QED
    BY <2>2 DEF q
<1>3. ASSUME NEW a, NEW b, NEW c, MildStep(a), MildStep(b), MildStep(c)
      PROVE  MildList(<<a, b, c>>)
  <2> DEFINE q == <<a, b, c>>
  <2>1. Len(q) = 3 /\ q[1] = a /\ q[2] = b /\ q[3] = c
    BY ThreeSteps
  <2> HIDE DEF q
  <2>2. MildList(q)
    BY <1>3, <2>1 DEF MildList
  <2> QED
    BY <2>2 DEF q
<1>4. MildList(<<>>)
  BY DEF MildList
<1> QED
  BY <1>1, <1>2, <1>3, <1>4

(* Columns that neither start the source nor archive or undelete it.       *)
Mild(set) ==
  /\ "status" \in DOMAIN set => set["status"] \notin {"ACTIVE", "ARCHIVED"}
  /\ "deleted" \in DOMAIN set => set["deleted"] = TRUE

LEMMA MildCalls ==
  /\ \A name : name \notin {"source", "columns", "bulk", "target"} => MildStep(Call(name))
  /\ \A v : MildStep(Complete(v))
  /\ \A m : MildStep(Audit(m))
  /\ MildStep(TargetRow([active |-> TRUE]))
  /\ \A set : Mild(set) => MildStep(FullRow(set)) /\ MildStep(Columns(set))
  /\ \A set, from : Mild(set) => MildStep(Bulk(from, set))
<1>1. \A name : name \notin {"source", "columns", "bulk", "target"} => MildStep(Call(name))
  BY DEF MildStep, Call
<1>2. \A v : MildStep(Complete(v))
  BY DEF MildStep, Complete
<1>3. \A m : MildStep(Audit(m))
  BY DEF MildStep, Audit
<1>4. MildStep(TargetRow([active |-> TRUE]))
  BY DEF MildStep, TargetRow
<1>5. \A set : Mild(set) => MildStep(FullRow(set)) /\ MildStep(Columns(set))
  BY DEF MildStep, FullRow, Columns, Mild
<1>6. \A set, from : Mild(set) => MildStep(Bulk(from, set))
  BY DEF MildStep, Bulk, Mild
<1> QED
  BY <1>1, <1>2, <1>3, <1>4, <1>5, <1>6

LEMMA MildColumns ==
  /\ Mild(NoColumns) /\ Mild(ConfigColumns) /\ Mild(ToPaused) /\ Mild([deleted |-> TRUE])
  /\ \A m : Mild([mode |-> m])
  /\ Mild([status |-> "READY", dry |-> "NOT_REQUIRED"])
  /\ \A r : Mild(Running(r)) /\ Mild(Demoting(r))
BY DEF Mild, NoColumns, ConfigColumns, ToPaused, Running, Demoting

(* The lists that are not mild, by what they are about to do.              *)
LEMMA Firsts ==
  /\ \A q : Starting(q) => One(q) /\ Len(q) = 1 /\ q # <<>> /\ q[1].set = ToActive
                             /\ q[1].do \in {"source", "bulk"}
  /\ One(Archiving) /\ Archiving # <<>> /\ Archiving[1].do = "columns"
       /\ Archiving[1].set = ToArchived
  /\ One(Deactivating) /\ Deactivating # <<>> /\ Deactivating[1].do = "target"
       /\ Deactivating[1].set = [active |-> FALSE]
  /\ One(Deleting) /\ Deleting # <<>> /\ Deleting[1].do = "target"
       /\ Deleting[1].set = [active |-> FALSE, flushed |-> TRUE]
  /\ One(Demotion) /\ Demotion # <<>> /\ Demotion[1].do = "source"
       /\ Demotion[1].set = [status |-> "PENDING", dry |-> "PENDING"]
<1>1. /\ ToActive = Started
      /\ \A set : FullRow(set).do = "source" /\ FullRow(set).set = set
      /\ \A set : TargetRow(set).do = "target" /\ TargetRow(set).set = set
      /\ \A set : Columns(set).do = "columns" /\ Columns(set).set = set
      /\ \A from, set : Bulk(from, set).do = "bulk" /\ Bulk(from, set).set = set
  BY DEF Started, FullRow, TargetRow, Columns, Bulk
<1>2. ASSUME NEW q, Starting(q)
      PROVE  One(q) /\ Len(q) = 1 /\ q # <<>> /\ q[1].set = ToActive /\ q[1].do \in {"source", "bulk"}
  BY <1>1, <1>2, OneStep DEF Starting
<1>3. /\ One(Archiving) /\ Archiving # <<>> /\ Archiving[1].do = "columns"
      /\ Archiving[1].set = ToArchived
  BY <1>1, OneStep DEF Archiving
<1>4. /\ One(Deactivating) /\ Deactivating # <<>> /\ Deactivating[1].do = "target"
      /\ Deactivating[1].set = [active |-> FALSE]
  BY <1>1, OneStep DEF Deactivating
<1>5. /\ One(Deleting) /\ Deleting # <<>> /\ Deleting[1].do = "target"
      /\ Deleting[1].set = [active |-> FALSE, flushed |-> TRUE]
  BY <1>1, OneStep DEF Deleting
<1>6. /\ One(Demotion) /\ Demotion # <<>> /\ Demotion[1].do = "source"
      /\ Demotion[1].set = [status |-> "PENDING", dry |-> "PENDING"]
  BY <1>1, OneStep DEF Demotion
<1> QED
  BY <1>2, <1>3, <1>4, <1>5, <1>6

LEMMA MildIsPlain ==
  ASSUME NEW q, MildList(q), q = <<>> \/ 1 \in 1 .. Len(q)
  PROVE  ~ Starting(q) /\ q \notin {Archiving, Deactivating, Deleting}
<1>1. CASE q = <<>>
  BY <1>1, Firsts
<1>2. CASE 1 \in 1 .. Len(q)
  <2>1. MildStep(q[1])
    BY <1>2 DEF MildList
  <2>2. /\ ToActive["status"] = "ACTIVE" /\ "status" \in DOMAIN ToActive
        /\ ToArchived["status"] = "ARCHIVED" /\ "status" \in DOMAIN ToArchived
    BY DEF ToActive, ToArchived
  <2>3. ~ Starting(q)
    BY <2>1, <2>2, Firsts DEF MildStep
  <2>4. q # Archiving
    BY <2>1, <2>2, Firsts DEF MildStep
  <2>5. q # Deactivating /\ q # Deleting
    <3> DEFINE a == [active |-> FALSE]
               b == [active |-> FALSE, flushed |-> TRUE]
    <3>1. a["active"] = FALSE /\ "active" \in DOMAIN a /\ b["active"] = FALSE /\ "active" \in DOMAIN b
      OBVIOUS
    <3>2. /\ q = Deactivating => q[1].do = "target" /\ q[1].set = a
          /\ q = Deleting => q[1].do = "target" /\ q[1].set = b
      BY Firsts
    <3> HIDE DEF a, b
    <3> QED
      BY <2>1, <3>1, <3>2 DEF MildStep
  <2> QED
    BY <2>3, <2>4, <2>5
<1> QED
  BY <1>1, <1>2

-----------------------------------------------------------------------------
(***************************************************************************)
(* Frames.                                                                 *)
(***************************************************************************)
LEMMA ChecksUnchanged ==
  ASSUME UNCHANGED <<source, target, result>>
  PROVE  /\ DryrunsRunning' = DryrunsRunning /\ ActiveTargets' = ActiveTargets
         /\ Removable' = Removable /\ Found' = Found
         /\ TriggeredIsMade' = TriggeredIsMade /\ ArchivedHasNoDryrun' = (~ torn' /\
              source.status = "ARCHIVED" => \A t \in Listed : ~ DryrunRunning(t))
         /\ \A t : DryrunRunning(t)' = DryrunRunning(t)
BY DEF DryrunsRunning, ActiveTargets, Removable, Found, TriggeredIsMade, ArchivedHasNoDryrun,
       DryrunRunning, Listed, RunsOf, Latest

(* A handler with nothing to remember.                                     *)
Quiet(p) ==
  /\ p.row = None /\ ~ Starting(p.todo) /\ p.todo # Archiving /\ p.todo # Deactivating
  /\ p.todo # <<>> => First(p) # "insert" /\ ~ (p.op = "UpdateTarget" /\ First(p) = "target")

LEMMA QuietHasSeen ==
  ASSUME NEW w, NEW p, work'[w] = p, Quiet(p)
  PROVE  Seen(work[w])'
BY DEF Quiet, Seen, First

LEMMA IdleIsQuiet == Form(Idle) /\ Quiet(Idle)
<1>1. MildList(<<>>) /\ ~ Starting(<<>>) /\ <<>> # Archiving /\ <<>> # Deactivating
  BY MildLists, Firsts
<1> QED
  BY <1>1, IdleShape DEF Form, Quiet

(* The others have seen what is still so, or they are stale.               *)
LEMMA OthersSeen ==
  ASSUME IInv, KInv, NEW w \in Workers, NEW p,
         \/ Proceeds(w, p) /\ UNCHANGED <<source, target, result>>
         \/ Writes(w, p),
         NEW v \in Workers \ {w}
  PROVE  Form(work'[v]) /\ (~ work'[v].stale => Seen(work[v])')
<1>0. Shape(work[v]) /\ Form(work[v]) /\ (~ work[v].stale => Seen(work[v]))
  BY DEF IInv, Handlers, KInv
<1>1. CASE Proceeds(w, p) /\ UNCHANGED <<source, target, result>>
  <2>1. work'[v] = work[v]
    BY <1>1 DEF IInv, Handlers, Proceeds
  <2>2. Seen(work[v]) => Seen(work[v])'
    BY <1>1, <2>1, ChecksUnchanged DEF Seen, First
  <2> QED
    BY <1>0, <2>1, <2>2
<1>2. CASE Writes(w, p)
  <2>1. work'[v] = Overtaken(v)
    BY <1>2 DEF Writes
  <2>2. CASE work[v] = Idle
    <3>1. work'[v] = Idle
      BY <2>1, <2>2 DEF Overtaken
    <3> QED
      BY <3>1, IdleIsQuiet, QuietHasSeen
  <2>3. CASE work[v] # Idle
    <3>1. Same(work[v], work'[v])
      BY <1>0, <2>1, OvertakenIsSame
    <3>2. work'[v].stale = TRUE
      <4> DEFINE old == work[v]
      <4>1. work'[v] = [old EXCEPT !.stale = TRUE] /\ Fields(old)
        BY <1>0, <2>1, <2>3 DEF Overtaken, Shape
      <4> HIDE DEF old
      <4> QED
        BY <4>1 DEF Fields
    <3> QED
      BY <1>0, <3>1, <3>2 DEF Form, Same
  <2> QED
    BY <2>2, <2>3
<1> QED
  BY <1>1, <1>2

LEMMA SeenMove ==
  ASSUME IInv, KInv, NEW w \in Workers, NEW p,
         \/ Proceeds(w, p) /\ UNCHANGED <<source, target, result>>
         \/ Writes(w, p),
         Form(p), p.stale \/ Seen(work[w])', Whole'
  PROVE  KInv'
<1>1. work'[w] = p
  BY ProceedsMoves, WritesMoves DEF IInv, Moved
<1>2. ASSUME NEW v \in Workers
      PROVE  Form(work'[v]) /\ (~ work'[v].stale => Seen(work[v])')
  <2>1. CASE v = w
    BY <1>1, <2>1
  <2>2. CASE v # w
    BY <2>2, OthersSeen
  <2> QED
    BY <2>1, <2>2
<1> QED
  BY <1>2 DEF KInv

(* A write in which UpdateTarget takes no part, or goes on.                *)
LEMMA StillDemotes ==
  ASSUME IInv, NEW w \in Workers, NEW p, Moved(w, p), ~ Demotes(work[w]) \/ Demotes(p),
         \E v \in Workers : Demotes(work[v])
  PROVE  \E v \in Workers : Demotes(work[v])'
<1>1. PICK v \in Workers : Demotes(work[v])
  OBVIOUS
<1>2. Demotes(work[v])'
  BY <1>1 DEF Demotes, Moved, Kept, Same, First
<1> QED
  BY <1>2

LEMMA StillWhole ==
  ASSUME IInv, KInv, NEW w \in Workers, NEW p, Moved(w, p),
         UNCHANGED <<source, target, result>>, torn => torn',
         \/ torn' \/ ~ Demotes(work[w]) \/ Demotes(p)
         \/ ~ Found
  PROVE  Whole'
<1> SUFFICES ASSUME ~ torn'
             PROVE  (TriggeredIsMade /\ StillActive /\ ArchivedHasNoDryrun)'
  BY DEF Whole
<1>1. TriggeredIsMade /\ StillActive /\ ArchivedHasNoDryrun
  BY DEF KInv, Whole
<1>2. TriggeredIsMade' /\ ArchivedHasNoDryrun'
  BY <1>1, ChecksUnchanged DEF ArchivedHasNoDryrun
<1>3. StillActive'
  <2>1. ~ Demotes(work[w]) \/ Demotes(p) \/ ~ Found
    OBVIOUS
  <2>2. (\E v \in Workers : Demotes(work[v])) => (\E v \in Workers : Demotes(work[v])') \/ ~ Found
    BY <2>1, StillDemotes
  <2> QED
    BY <1>1, <2>2, ChecksUnchanged DEF StillActive
<1> QED
  BY <1>2, <1>3

(* A step that leaves sources, targets and results alone.                  *)
LEMMA SeenStays ==
  ASSUME IInv, KInv, NEW w \in Workers, NEW p, Proceeds(w, p) \/ Writes(w, p),
         UNCHANGED <<source, target, result>>, torn => torn',
         \/ torn' \/ ~ Demotes(work[w]) \/ Demotes(p)
         \/ ~ Found,
         Form(p), p.stale \/ Seen(work[w])'
  PROVE  KInv'
<1>1. Whole'
  BY StillWhole, ProceedsMoves, WritesMoves DEF IInv
<1> QED
  BY <1>1, SeenMove

(* What is left after a step.                                              *)
LEMMA RestForm ==
  ASSUME IInv, KInv, NEW w \in Workers, work[w].todo # <<>>,
         First(work[w]) \notin {"insert", "running"}
  PROVE  /\ Form(Rest(w)) /\ Quiet(Rest(w))
         /\ \A set : work[w].op = "UpdateTarget" /\ work[w].todo = <<TargetRow(set), Call("demote")>>
                       => Demotes(Rest(w))
<1> DEFINE p == work[w]
           q == Tail(p.todo)
<1>0. Shape(p) /\ Form(p)
  BY DEF IInv, Handlers, KInv
<1>1. CASE q = <<>>
  <2>1. Rest(w) = Idle
    BY <1>1 DEF Rest
  <2>2. \A set : p.todo # <<TargetRow(set), Call("demote")>>
    <3> SUFFICES ASSUME NEW set, p.todo = <<TargetRow(set), Call("demote")>>
                 PROVE  FALSE
      OBVIOUS
    <3> DEFINE a == TargetRow(set)
               b == Call("demote")
    <3> HIDE DEF a, b
    <3>1. p.todo = <<a, b>>
      BY DEF a, b
    <3>2. Tail(<<a, b>>) = <<b>> /\ <<b>> # <<>>
      BY OneStep, TwoSteps
    <3> QED
      BY <1>1, <3>1, <3>2
  <2> QED
    BY <2>1, <2>2, IdleIsQuiet
<1>2. CASE q # <<>>
  <2>1. Rest(w) = [p EXCEPT !.todo = q, !.row = None] /\ Fields(p)
    BY <1>0, <1>2 DEF Rest, Shape
  <2>2. Rest(w).op = p.op /\ Rest(w).todo = q /\ Rest(w).row = None
    <3> HIDE DEF p, q
    <3> QED
      BY <2>1 DEF Fields
  <2>3. \/ Two(p.todo) /\ q = <<p.todo[2]>>
        \/ Three(p.todo) /\ q = <<p.todo[2], p.todo[3]>>
    BY <1>0, <1>2, ListCases, Tails
  <2>4. ~ One(p.todo)
    BY <1>2, Tails
  <2>5. ASSUME p.op = "UpdateTarget"
        PROVE  q = <<Call("demote")>>
    <3>1. ~ One(<<Call("demote")>>) => FALSE
      BY OneStep
    <3>2. \A set : One(<<TargetRow(set)>>)
      BY OneStep
    <3>3. PICK set : p.todo = <<TargetRow(set), Call("demote")>>
      BY <1>0, <2>4, <2>5, <3>1, <3>2, Firsts DEF Form, Editor
    <3> QED
      BY <3>3, TwoSteps
  <2>6. CASE p.op = "UpdateTarget"
    <3>1. q # <<>> /\ q[1].do = "demote"
      <4> DEFINE b == Call("demote")
      <4>1. q = <<b>>
        BY <2>5, <2>6
      <4>2. b.do = "demote"
        BY Calls
      <4> HIDE DEF b, q
      <4> QED
        BY <4>1, <4>2, OneStep
    <3>2. Form(Rest(w))
      BY <2>2, <2>5, <2>6 DEF Form, Editor
    <3>3. Demotes(Rest(w))
      BY <2>2, <2>6, <3>1 DEF Demotes, First
    <3>4. Quiet(Rest(w))
      BY <2>2, <3>1, Firsts DEF Quiet, First
    <3> QED
      BY <3>2, <3>3, <3>4
  <2>7. CASE p.op # "UpdateTarget"
    <3>1. MildList(p.todo)
      BY <1>0, <2>4, <2>7, Firsts DEF Form
    <3>2. /\ MildList(q) /\ 1 \in 1 .. Len(q)
          /\ \/ Len(q) = 1 \/ Len(q) = 2
      <4>1. CASE Two(p.todo) /\ q = <<p.todo[2]>>
        <5>1. MildStep(p.todo[2])
          BY <3>1, <4>1 DEF MildList, Two
        <5>2. MildList(<<p.todo[2]>>) /\ Len(<<p.todo[2]>>) = 1
          BY <5>1, MildLists, OneStep
        <5>3. MildList(q) /\ Len(q) = 1
          BY <4>1, <5>2, Zenon
        <5> HIDE DEF q
        <5> QED
          BY <5>3
      <4>2. CASE Three(p.todo) /\ q = <<p.todo[2], p.todo[3]>>
        <5>1. MildStep(p.todo[2]) /\ MildStep(p.todo[3])
          BY <3>1, <4>2 DEF MildList, Three
        <5>2. MildList(<<p.todo[2], p.todo[3]>>) /\ Len(<<p.todo[2], p.todo[3]>>) = 2
          BY <5>1, MildLists, TwoSteps
        <5>3. MildList(q) /\ Len(q) = 2
          BY <4>2, <5>2, Zenon
        <5> HIDE DEF q
        <5> QED
          BY <5>3
      <4> QED
        BY <2>3, <4>1, <4>2
    <3>3. Form(Rest(w))
      BY <2>2, <2>7, <3>2 DEF Form
    <3>4. First(Rest(w)) # "insert"
      <4>1. Shape(Rest(w))
        BY <1>0, RestShape
      <4>2. Len(<<Call("insert"), Call("running"), Call("publish")>>) = 3
        BY ThreeSteps
      <4>3. First(Rest(w)) = "insert" => Len(Rest(w).todo) = 3
        <5>1. Rest(w).todo # <<>>
          BY <1>2, <2>2
        <5> HIDE DEF q
        <5> QED
          BY <4>1, <4>2, <5>1, InTrigger, Zenon
      <4>4. Len(q) # 3
        <5> HIDE DEF q
        <5> QED
          BY <3>2
      <4>5. Len(Rest(w).todo) # 3
        BY <2>2, <4>4, Zenon
      <4> QED
        BY <4>3, <4>5, Zenon
    <3>5. Quiet(Rest(w))
      BY <2>2, <2>7, <3>2, <3>4, MildIsPlain DEF Quiet
    <3> QED
      BY <2>7, <3>3, <3>5
  <2> QED
    BY <2>6, <2>7
<1> QED
  BY <1>1, <1>2

-----------------------------------------------------------------------------
(***************************************************************************)
(* Requests.                                                               *)
(***************************************************************************)
LEMMA RequestSeen ==
  ASSUME IInv, KInv, NEW w \in Workers, NEW op, NEW t, NEW todo, Request(w, op, t, todo),
         \/ op = "UpdateTarget" /\ Editor(todo) /\ ~ DryrunRunning(t)
         \/ op # "UpdateTarget" /\ (MildList(todo) \/ Starting(todo)
                                    \/ todo \in {Archiving, Deactivating, Deleting}),
         todo = Archiving => ~ DryrunsRunning,
         Starting(todo) => ActiveTargets # {},
         todo = Deactivating => Removable /\ target[t].active,
         todo # <<>> /\ todo[1].do = "insert" => source.status # "ARCHIVED" /\ target[t].made
  PROVE  KInv'
<1> DEFINE p == [Idle EXCEPT !.op = op, !.target = t, !.todo = todo]
<1>1. /\ work[w] = Idle /\ Proceeds(w, p)
      /\ UNCHANGED <<source, target, result, torn>>
  BY DEF Request, rowVars, historyVars
<1>2. p.op = op /\ p.target = t /\ p.todo = todo /\ p.row = None /\ p.stale = FALSE
  BY DEF Idle
<1> HIDE DEF p
<1>3. Form(p)
  BY <1>2 DEF Form
<1>4. work'[w] = p
  BY <1>1, ProceedsMoves DEF IInv, Moved
<1>5. Seen(work[w])'
  BY <1>1, <1>2, <1>4, ChecksUnchanged DEF Seen, First
<1>6. ~ Demotes(work[w])
  BY <1>1, IdleShape DEF Demotes
<1> QED
  BY <1>1, <1>3, <1>5, <1>6, SeenStays

LEMMA MildRequest ==
  ASSUME IInv, KInv, NEW w \in Workers, NEW op, NEW t, NEW todo, Request(w, op, t, todo),
         op # "UpdateTarget", MildList(todo), todo = <<>> \/ 1 \in 1 .. Len(todo),
         todo # <<>> /\ todo[1].do = "insert" => source.status # "ARCHIVED" /\ target[t].made
  PROVE  KInv'
BY RequestSeen, MildIsPlain

LEMMA MildRowRequest ==
  ASSUME IInv, KInv, NEW w \in Workers, NEW op, NEW t, NEW s, Request(w, op, t, <<s>>),
         op # "UpdateTarget", MildStep(s), s.do # "insert"
  PROVE  KInv'
<1> DEFINE todo == <<s>>
<1>1. MildList(todo) /\ 1 \in 1 .. Len(todo) /\ todo[1] = s
  BY MildLists, OneStep
<1>2. Request(w, op, t, todo)
  OBVIOUS
<1> HIDE DEF todo
<1> QED
  BY <1>1, <1>2, MildRequest

LEMMA StartingRequest ==
  ASSUME IInv, KInv, NEW w \in Workers, NEW op, NEW t, NEW todo, Request(w, op, t, todo),
         op # "UpdateTarget", Starting(todo), Prerequisites
  PROVE  KInv'
<1>1. todo # Archiving /\ todo # Deactivating /\ todo[1].do # "insert"
  BY Firsts
<1> QED
  BY <1>1, RequestSeen DEF Prerequisites

LEMMA SourceRequestSeen ==
  ASSUME IInv, KInv, NEW w \in Workers, SourceRequest(w)
  PROVE  KInv'
<1>0. /\ \A set : FullRow(set).do # "insert" /\ Columns(set).do # "insert"
      /\ \A from, set : Bulk(from, set).do # "insert"
  BY DEF FullRow, Columns, Bulk
<1>1. ASSUME NEW op, op # "UpdateTarget", NEW set, Mild(set),
             Request(w, op, None, <<FullRow(set)>>) \/ Request(w, op, None, <<Columns(set)>>)
      PROVE  KInv'
  BY <1>0, <1>1, MildCalls, MildRowRequest
<1>2. CASE Update(w)
  BY <1>1, <1>2, MildColumns DEF Update
<1>3. CASE Archive(w)
  <2>1. ~ DryrunsRunning /\ Request(w, "Archive", None, Archiving)
    BY <1>3 DEF Archive, Archiving
  <2>2. Archiving # Deactivating /\ ~ Starting(Archiving) /\ Archiving[1].do # "insert"
    BY Firsts
  <2> QED
    BY <2>1, <2>2, RequestSeen
<1>4. CASE Delete(w)
  BY <1>1, <1>4, MildColumns DEF Delete
<1>5. CASE PauseDataSource(w)
  BY <1>1, <1>5, MildColumns DEF PauseDataSource
<1>6. CASE ActivateDataSource(w) \/ ResumeDataSource(w)
  <2>1. Starting(<<FullRow(ToActive)>>)
    BY DEF Starting
  <2> QED
    BY <1>6, <2>1, StartingRequest DEF ActivateDataSource, ResumeDataSource
<1>7. CASE Activate(w) \/ Resume(w)
  <2>1. \A from : Starting(<<Bulk(from, Started)>>)
    BY DEF Starting
  <2> QED
    BY <1>7, <2>1, StartingRequest DEF Activate, Resume
<1>8. ASSUME NEW m \in Modes, UpdateCrawlMode(w, m)
      PROVE  KInv'
  <2> DEFINE todo == ModeChange(m)
             a == FullRow([mode |-> m])
             b == Audit(m)
  <2>1. todo = <<a, b>> /\ MildStep(a) /\ MildStep(b) /\ a.do # "insert"
    BY <1>0, MildCalls, MildColumns DEF ModeChange, Audit
  <2> HIDE DEF a, b
  <2>2. MildList(todo) /\ 1 \in 1 .. Len(todo) /\ todo[1] = a
    BY <2>1, MildLists, TwoSteps
  <2>3. Request(w, "UpdateCrawlMode", None, todo)
    BY <1>8 DEF UpdateCrawlMode
  <2> HIDE DEF todo
  <2> QED
    BY <2>1, <2>2, <2>3, MildRequest
<1> QED
  BY <1>2, <1>3, <1>4, <1>5, <1>6, <1>7, <1>8 DEF SourceRequest

LEMMA MildActivation ==
  ASSUME NEW t
  PROVE  /\ MildStep(TargetRow([active |-> TRUE]))
         /\ MildStep(FullRow([status |-> "READY", dry |-> "NOT_REQUIRED"]))
         /\ MildList(Activation(t))
         /\ Activation(t) = <<>> \/ (1 \in 1 .. Len(Activation(t)) /\ Activation(t)[1].do = "target")
<1> DEFINE s == TargetRow([active |-> TRUE])
           u == FullRow([status |-> "READY", dry |-> "NOT_REQUIRED"])
<1>1. MildStep(s) /\ MildStep(u) /\ s.do = "target"
  BY MildCalls, MildColumns, RowSteps
<1>2. Activation(t) = <<>> \/ Activation(t) = <<s>> \/ Activation(t) = <<s, u>>
  BY HarmlessActivation
<1> HIDE DEF s, u
<1>3. MildList(<<>>) /\ MildList(<<s>>) /\ MildList(<<s, u>>)
  BY <1>1, MildLists
<1>4. /\ Len(<<s>>) = 1 /\ <<s>>[1] = s /\ Len(<<s, u>>) = 2 /\ <<s, u>>[1] = s
  BY OneStep, TwoSteps
<1>5. MildList(Activation(t))
  BY <1>2, <1>3, Zenon
<1>6. \/ Activation(t) = <<>>
      \/ (Len(Activation(t)) = 1 \/ Len(Activation(t)) = 2) /\ Activation(t)[1] = s
  BY <1>2, <1>4, Zenon
<1>7. Activation(t) = <<>> \/ (1 \in 1 .. Len(Activation(t)) /\ Activation(t)[1].do = "target")
  BY <1>1, <1>6
<1> QED
  BY <1>1, <1>5, <1>7 DEF s, u

LEMMA TargetRequestSeen ==
  ASSUME IInv, KInv, NEW w \in Workers, NEW t \in Targets,
         \/ CreateTarget(w, t) \/ UpdateTarget(w, t) \/ ActivateTarget(w, t)
         \/ DeactivateTarget(w, t) \/ DeleteTarget(w, t) \/ Trigger(w, t)
  PROVE  KInv'
<1>1. CASE CreateTarget(w, t)
  BY <1>1, MildCalls, MildRowRequest, Calls DEF CreateTarget
<1>2. CASE UpdateTarget(w, t)
  <2>1. ASSUME NEW todo, Editor(todo), todo # Demotion, Request(w, "UpdateTarget", t, todo),
               todo # <<>>, todo[1].do = "target"
        PROVE  KInv'
    <3>1. todo # Archiving /\ ~ Starting(todo)
      BY <2>1, Firsts
    <3>2. todo # Deactivating
      <4> SUFFICES ASSUME todo = Deactivating
                   PROVE  FALSE
        OBVIOUS
      <4>1. One(todo) /\ todo[1].set = [active |-> FALSE]
        BY Firsts
      <4>2. \A set : Two(<<TargetRow(set), Call("demote")>>)
        BY TwoSteps
      <4>3. todo = <<TargetRow(NoColumns)>>
        BY <2>1, <4>1, <4>2, OneStep, Calls DEF Editor, One, Two
      <4>4. todo[1].set = NoColumns
        BY <4>3, OneStep, RowSteps
      <4> QED
        BY <4>1, <4>4 DEF NoColumns
    <3>3. ~ DryrunRunning(t)
      BY <1>2 DEF UpdateTarget
    <3> QED
      BY <2>1, <3>1, <3>2, <3>3, RequestSeen
  <2>2. \/ Request(w, "UpdateTarget", t, <<TargetRow(NoColumns)>>)
        \/ \E set : /\ DOMAIN set \subseteq {"active", "flushed"}
                    /\ Request(w, "UpdateTarget", t, <<TargetRow(set), Call("demote")>>)
    BY <1>2 DEF UpdateTarget, NoColumns
  <2>3. CASE Request(w, "UpdateTarget", t, <<TargetRow(NoColumns)>>)
    <3> DEFINE s == TargetRow(NoColumns)
    <3>1. s.do = "target" /\ Editor(<<s>>)
      BY RowSteps DEF Editor
    <3> HIDE DEF s
    <3>2. <<s>> # Demotion
      BY <3>1, Firsts, OneStep
    <3> QED
      BY <2>1, <2>3, <3>1, <3>2, OneStep DEF s
  <2>4. ASSUME NEW set, DOMAIN set \subseteq {"active", "flushed"},
               Request(w, "UpdateTarget", t, <<TargetRow(set), Call("demote")>>)
        PROVE  KInv'
    <3> DEFINE a == TargetRow(set)
               b == Call("demote")
    <3>1. a.do = "target" /\ Editor(<<a, b>>)
      BY <2>4, RowSteps DEF Editor
    <3> HIDE DEF a, b
    <3>2. <<a, b>>[1] = a /\ <<a, b>> # <<>>
      BY TwoSteps
    <3>3. <<a, b>> # Demotion
      BY <3>1, <3>2, Firsts
    <3> QED
      BY <2>1, <2>4, <3>1, <3>2, <3>3 DEF a, b
  <2> QED
    BY <2>2, <2>3, <2>4
<1>3. CASE ActivateTarget(w, t)
  <2>1. Request(w, "ActivateTarget", t, Activation(t))
    BY <1>3 DEF ActivateTarget
  <2>2. /\ MildList(Activation(t))
        /\ Activation(t) = <<>> \/ 1 \in 1 .. Len(Activation(t))
        /\ Activation(t) # <<>> => Activation(t)[1].do # "insert"
    <3>1. /\ MildList(Activation(t))
          /\ \/ Activation(t) = <<>>
             \/ 1 \in 1 .. Len(Activation(t)) /\ Activation(t)[1].do = "target"
      BY MildActivation
    <3> QED
      BY <3>1
  <2> QED
    BY <2>1, <2>2, MildRequest
<1>4. CASE DeactivateTarget(w, t)
  <2>1. /\ Request(w, "DeactivateTarget", t, Deactivating) /\ Removable /\ target[t].active
    BY <1>4 DEF DeactivateTarget, Deactivating
  <2>2. Deactivating # Archiving /\ ~ Starting(Deactivating) /\ Deactivating[1].do # "insert"
    BY Firsts
  <2> QED
    BY <2>1, <2>2, RequestSeen
<1>5. CASE DeleteTarget(w, t)
  <2>1. Request(w, "DeleteTarget", t, Deleting)
    BY <1>5 DEF DeleteTarget, Deleting
  <2>2. Deleting # Archiving /\ ~ Starting(Deleting) /\ Deleting[1].do # "insert"
    BY Firsts
  <2>3. Deleting # Deactivating
    <3> DEFINE a == [active |-> FALSE]
               b == [active |-> FALSE, flushed |-> TRUE]
    <3>1. DOMAIN a # DOMAIN b
      OBVIOUS
    <3>2. Deactivating[1].set = a /\ Deleting[1].set = b
      BY Firsts
    <3> HIDE DEF a, b
    <3> QED
      BY <3>1, <3>2
  <2> QED
    BY <2>1, <2>2, <2>3, RequestSeen
<1>6. CASE Trigger(w, t)
  <2> DEFINE a == Call("insert")
             b == Call("running")
             c == Call("publish")
             todo == <<a, b, c>>
  <2>1. Request(w, "Trigger", t, todo) /\ source.status # "ARCHIVED" /\ target[t].made
    BY <1>6 DEF Trigger
  <2>2. MildStep(a) /\ MildStep(b) /\ MildStep(c)
    BY MildCalls
  <2> HIDE DEF a, b, c
  <2>3. MildList(todo) /\ 1 \in 1 .. Len(todo)
    BY <2>2, MildLists, ThreeSteps
  <2> HIDE DEF todo
  <2> QED
    BY <2>1, <2>3, MildRequest
<1> QED
  BY <1>1, <1>2, <1>3, <1>4, <1>5, <1>6

-----------------------------------------------------------------------------
(***************************************************************************)
(* Steps that write no source, target or result.                           *)
(***************************************************************************)
LEMMA InEditor ==
  ASSUME NEW p, Form(p), Shape(p), p.op = "UpdateTarget", p.todo # <<>>
  PROVE  /\ First(p) \in {"target", "demote", "source"}
         /\ First(p) = "source" => p.todo = Demotion
         /\ First(p) # "target" => Len(p.todo) = 1
         /\ First(p) = "target" =>
              \/ p.todo = <<TargetRow(NoColumns)>>
              \/ \E set : DOMAIN set \subseteq {"active", "flushed"}
                            /\ p.todo = <<TargetRow(set), Call("demote")>>
<1>1. CASE p.todo = <<TargetRow(NoColumns)>>
  BY <1>1, OneStep, RowSteps DEF First
<1>2. CASE p.todo = <<Call("demote")>>
  BY <1>2, OneStep, Calls DEF First
<1>3. CASE p.todo = Demotion
  <2>1. Len(Demotion) = 1 /\ Demotion[1].do = "source"
    BY Firsts DEF One
  <2> QED
    BY <1>3, <2>1 DEF First
<1>4. CASE \E set : DOMAIN set \subseteq {"active", "flushed"}
                      /\ p.todo = <<TargetRow(set), Call("demote")>>
  BY <1>4, TwoSteps, RowSteps DEF First
<1> QED
  BY <1>1, <1>2, <1>3, <1>4 DEF Form, Editor

LEMMA Demoters ==
  ASSUME IInv, KInv, NEW w \in Workers, Demotes(work[w])
  PROVE  First(work[w]) \in {"demote", "source"} /\ Len(work[w].todo) = 1
         /\ Head(work[w].todo) = work[w].todo[1]
<1>1. Form(work[w]) /\ Shape(work[w])
  BY DEF IInv, Handlers, KInv
<1> QED
  BY <1>1, InEditor, ListCases DEF Demotes

LEMMA RestSeen ==
  ASSUME IInv, KInv, NEW w \in Workers, NEW do, do \notin {"insert", "running"}, Doing(w, do),
         do \notin {"demote", "source"} \/ work[w].op # "UpdateTarget",
         Proceeds(w, Rest(w)) \/ Writes(w, Rest(w)), torn => torn',
         UNCHANGED <<source, target, result>>
  PROVE  KInv'
<1>1. work[w].todo # <<>> /\ First(work[w]) = do
  BY Doings DEF IInv
<1>2. Form(Rest(w)) /\ Quiet(Rest(w))
  BY <1>1, RestForm
<1>3. ~ Demotes(work[w])
  BY <1>1, Demoters DEF Demotes
<1>4. work'[w] = Rest(w)
  BY ProceedsMoves, WritesMoves DEF IInv, Moved
<1>5. Seen(work[w])'
  BY <1>2, <1>4, QuietHasSeen
<1> QED
  BY <1>2, <1>3, <1>5, SeenStays

LEMMA RestStepsSeen ==
  ASSUME IInv, KInv, NEW w \in Workers,
         CreateCrawlModeChange(w) \/ PublishDispatch(w) \/ Ack(w) \/ PromotionFails(w)
  PROVE  KInv'
<1>1. CASE CreateCrawlModeChange(w)
  BY <1>1, RestSeen DEF CreateCrawlModeChange, Writes
<1>2. CASE PublishDispatch(w)
  BY <1>2, RestSeen DEF PublishDispatch, rowVars, historyVars
<1>3. CASE Ack(w)
  BY <1>3, RestSeen DEF Ack, rowVars, historyVars
<1>4. CASE PromotionFails(w)
  BY <1>4, RestSeen DEF PromotionFails, rowVars, historyVars
<1> QED
  BY <1>1, <1>2, <1>3, <1>4

LEMMA FindRowSeen ==
  ASSUME IInv, KInv, NEW w \in Workers, FindRow(w)
  PROVE  KInv'
<1>1. PICK do \in {"source", "target"} :
        /\ Doing(w, do)
        /\ Proceeds(w, [work[w] EXCEPT !.row = IF do = "source" THEN source
                                               ELSE target[work[w].target]])
  BY DEF FindRow
<1> DEFINE row == IF do = "source" THEN source ELSE target[work[w].target]
           old == work[w]
           p == [old EXCEPT !.row = row]
<1>2. /\ Shape(old) /\ old.todo # <<>> /\ First(old) = do
      /\ Form(old) /\ (~ old.stale => Seen(old))
  BY <1>1, Doings DEF IInv, KInv
<1>3. /\ p.op = old.op /\ p.target = old.target
      /\ p.todo = old.todo /\ p.row = row /\ p.stale = old.stale
  <2>1. Fields(old)
    BY <1>2 DEF Shape
  <2> HIDE DEF old, row
  <2> QED
    BY <2>1 DEF Fields
<1>4. UNCHANGED <<source, target, result, torn>>
  BY DEF FindRow, rowVars, historyVars
<1>5. Proceeds(w, p)
  BY <1>1
<1> HIDE DEF p
<1>6. work'[w] = p
  BY <1>5, ProceedsMoves DEF IInv, Moved
<1>7. Form(p)
  BY <1>2, <1>3 DEF Form
<1>8. ASSUME ~ old.stale
      PROVE  Seen(work[w])'
  <2>1. Seen(old)
    BY <1>2, <1>8
  <2>2. First(p) = do /\ p.todo # <<>>
    BY <1>2, <1>3 DEF First
  <2>3. (do = "source" => row = source) /\ (do = "target" => row = target[old.target])
    OBVIOUS
  <2> HIDE DEF old, row
  <2> QED
    BY <1>1, <1>2, <1>3, <1>4, <1>6, <2>1, <2>2, <2>3, ChecksUnchanged DEF Seen, First
<1>9. ~ Demotes(old) \/ Demotes(p)
  BY <1>3 DEF Demotes, First
<1>10. old.stale \in BOOLEAN
  BY <1>2 DEF Shape
<1> QED
  BY <1>3, <1>4, <1>5, <1>7, <1>8, <1>9, <1>10, SeenStays

LEMMA DemoteSeen ==
  ASSUME IInv, KInv, NEW w \in Workers, Demote(w)
  PROVE  KInv'
<1> DEFINE old == work[w]
           p == [old EXCEPT !.todo = Demotion]
<1>1. /\ Doing(w, "demote") /\ (Proceeds(w, p) \/ (Proceeds(w, Idle) /\ ~ Found))
      /\ UNCHANGED <<source, target, result, torn>>
  BY DEF Demote, rowVars, historyVars, Demotion
<1>2. Shape(old) /\ old.todo # <<>> /\ First(old) = "demote" /\ old.row = None
  <2>1. Shape(old) /\ old.todo # <<>> /\ First(old) = "demote"
    BY <1>1, Doings DEF IInv
  <2> QED
    BY <2>1 DEF Shape, FoundRow, First
<1>3. p.op = old.op /\ p.todo = Demotion /\ p.row = None
  <2>1. Fields(old)
    BY <1>2 DEF Shape
  <2>2. old.row = None
    BY <1>2
  <2> HIDE DEF old
  <2> QED
    BY <2>1, <2>2 DEF Fields
<1> HIDE DEF p
<1>4. Form(p) /\ Quiet(p)
  <2> DEFINE s == FullRow([status |-> "PENDING", dry |-> "PENDING"])
  <2>1. MildStep(s) /\ Demotion = <<s>>
    <3>1. Mild([status |-> "PENDING", dry |-> "PENDING"])
      BY DEF Mild
    <3> QED
      BY <3>1, MildCalls DEF Demotion
  <2>2. MildList(Demotion) /\ 1 \in 1 .. Len(Demotion)
    <3> HIDE DEF s
    <3>1. MildList(<<s>>) /\ Len(<<s>>) = 1
      BY <2>1, MildLists, OneStep
    <3> QED
      BY <2>1, <3>1
  <2>3. First(p) = "source"
    BY <1>3, Firsts DEF First
  <2> QED
    BY <1>3, <2>2, <2>3, MildIsPlain DEF Form, Editor, Quiet
<1>5. ~ Demotes(old) \/ Demotes(p)
  BY <1>3, Firsts DEF Demotes, First
<1>6. CASE Proceeds(w, p)
  <2>1. work'[w] = p
    BY <1>6, ProceedsMoves DEF IInv, Moved
  <2>2. Seen(work[w])'
    BY <1>4, <2>1, QuietHasSeen
  <2> QED
    BY <1>1, <1>4, <1>5, <1>6, <2>2, SeenStays
<1>7. CASE Proceeds(w, Idle) /\ ~ Found
  <2>1. work'[w] = Idle
    BY <1>7, ProceedsMoves DEF IInv, Moved
  <2>2. Seen(work[w])'
    BY <2>1, IdleIsQuiet, QuietHasSeen
  <2> QED
    BY <1>1, <1>7, <2>2, IdleIsQuiet, SeenStays
<1> QED
  BY <1>1, <1>6, <1>7

LEMMA MildMove ==
  ASSUME IInv, KInv, NEW w \in Workers, NEW p, Proceeds(w, p), ~ Demotes(work[w]),
         UNCHANGED <<source, target, result>>, torn => torn',
         p.op # "UpdateTarget", p.row = None, MildList(p.todo),
         1 \in 1 .. Len(p.todo), First(p) # "insert"
  PROVE  KInv'
<1>1. Form(p) /\ Quiet(p)
  BY MildIsPlain DEF Form, Quiet
<1>2. Seen(work[w])'
  BY <1>1, QuietHasSeen, ProceedsMoves DEF IInv, Moved
<1> QED
  BY <1>1, <1>2, SeenStays

LEMMA IdleMove ==
  ASSUME IInv, KInv, NEW w \in Workers, Proceeds(w, Idle), torn' \/ ~ Demotes(work[w]),
         UNCHANGED <<source, target, result>>, torn => torn'
  PROVE  KInv'
<1>1. Seen(work[w])'
  BY IdleIsQuiet, QuietHasSeen, ProceedsMoves DEF IInv, Moved
<1> QED
  BY <1>1, IdleIsQuiet, SeenStays

LEMMA MarkDryrunRunningSeen ==
  ASSUME IInv, KInv, NEW w \in Workers, MarkDryrunRunning(w)
  PROVE  KInv'
<1> DEFINE old == work[w]
           set == IF source.status \in {"PENDING", "READY"}
                  THEN Demoting(old.run) ELSE Running(old.run)
           todo == <<FullRow(set)>> \o Tail(old.todo)
           p == [old EXCEPT !.todo = todo]
<1>1. /\ Doing(w, "running") /\ (Proceeds(w, p) \/ Proceeds(w, Idle))
      /\ UNCHANGED <<source, target, result, torn>>
  BY DEF MarkDryrunRunning, rowVars, Demoting, Running
<1>2. /\ Shape(old) /\ old.todo # <<>> /\ First(old) = "running"
      /\ old.op = "Trigger" /\ old.row = None
      /\ old.todo = <<Call("running"), Call("publish")>>
  <2>1. Shape(old) /\ old.todo # <<>> /\ First(old) = "running"
    BY <1>1, Doings DEF IInv
  <2> QED
    BY <2>1, InTrigger DEF Shape, FoundRow, First
<1>3. MildList(todo) /\ 1 \in 1 .. Len(todo) /\ todo[1].do = "source"
  <2> DEFINE s == FullRow(set)
             u == Call("publish")
  <2>1. MildStep(s) /\ MildStep(u) /\ s.do = "source"
    BY MildCalls, MildColumns, RowSteps
  <2>2. Tail(old.todo) = <<u>>
    BY <1>2, TwoSteps
  <2> HIDE DEF s, u
  <2>3. <<s>> \o Tail(old.todo) = <<s, u>>
    BY <2>2, Joined
  <2>4. MildList(<<s, u>>) /\ Len(<<s, u>>) = 2 /\ <<s, u>>[1] = s
    BY <2>1, MildLists, TwoSteps
  <2>5. todo = <<s, u>>
    BY <2>3 DEF s
  <2> HIDE DEF todo
  <2> QED
    BY <2>1, <2>4, <2>5
<1>4. p.op = old.op /\ p.todo = todo /\ p.row = old.row
  <2>1. Fields(old)
    BY <1>2 DEF Shape
  <2> HIDE DEF old, todo
  <2> QED
    BY <2>1 DEF Fields
<1> HIDE DEF p, todo
<1>5. ~ Demotes(old)
  BY <1>2 DEF Demotes
<1>6. CASE Proceeds(w, p)
  BY <1>1, <1>2, <1>3, <1>4, <1>5, <1>6, MildMove DEF First
<1>7. CASE Proceeds(w, Idle)
  BY <1>1, <1>5, <1>7, IdleMove
<1> QED
  BY <1>1, <1>6, <1>7

LEMMA PublishFailsSeen ==
  ASSUME IInv, KInv, NEW w \in Workers, PublishFails(w)
  PROVE  KInv'
<1> DEFINE old == work[w]
           todo == <<Complete("FAILED")>>
           p == [old EXCEPT !.todo = todo]
<1>1. /\ Doing(w, "publish") /\ Proceeds(w, p)
      /\ UNCHANGED <<source, target, result, torn>>
  BY DEF PublishFails, rowVars
<1>2. Fields(old) /\ old.row = None /\ old.op = "Trigger"
  BY <1>1, Publishing DEF Shape
<1>3. p.op = old.op /\ p.todo = todo /\ p.row = old.row
  <2> HIDE DEF old, todo
  <2> QED
    BY <1>2 DEF Fields
<1>4. MildList(todo) /\ 1 \in 1 .. Len(todo) /\ todo[1].do = "complete"
  <2> DEFINE s == Complete("FAILED")
  <2>1. MildStep(s) /\ s.do = "complete"
    BY MildCalls DEF Complete
  <2> HIDE DEF s
  <2>2. MildList(<<s>>) /\ Len(<<s>>) = 1 /\ <<s>>[1] = s
    BY <2>1, MildLists, OneStep
  <2> QED
    BY <2>1, <2>2 DEF s
<1> HIDE DEF p, todo
<1>5. ~ Demotes(old)
  BY <1>2 DEF Demotes
<1> QED
  BY <1>1, <1>2, <1>3, <1>4, <1>5, MildMove DEF First

LEMMA BeginCompleteSeen ==
  ASSUME IInv, KInv, NEW w \in Workers, BeginComplete(w)
  PROVE  KInv'
<1> DEFINE old == work[w]
           p == [old EXCEPT !.row = source, !.stale = FALSE]
<1>1. /\ Doing(w, "complete") /\ (Proceeds(w, p) \/ Proceeds(w, Idle))
      /\ UNCHANGED <<source, target, result, torn>>
  BY DEF BeginComplete, Stops, rowVars
<1>2. /\ Shape(old) /\ old.todo # <<>> /\ First(old) = "complete"
      /\ Form(old) /\ old.op # "UpdateTarget"
  <2>1. Shape(old) /\ old.todo # <<>> /\ First(old) = "complete" /\ Form(old)
    BY <1>1, Doings DEF IInv, KInv
  <2>2. old.op = "Trigger" \/ old.op = "completion"
    BY <2>1, InCompletion
  <2> QED
    BY <2>1, <2>2
<1>3. p.op = old.op /\ p.todo = old.todo /\ p.row = source
  <2>1. Fields(old)
    BY <1>2 DEF Shape
  <2> HIDE DEF old
  <2> QED
    BY <2>1 DEF Fields
<1> HIDE DEF p
<1>4. ~ Demotes(old)
  BY <1>2 DEF Demotes
<1>5. CASE Proceeds(w, p)
  <2>1. work'[w] = p
    BY <1>5, ProceedsMoves DEF IInv, Moved
  <2>2. ~ Starting(p.todo) /\ p.todo # Archiving /\ p.todo # Deactivating
    BY <1>2, <1>3, Firsts DEF First
  <2>3. Seen(work[w])'
    BY <1>1, <1>2, <1>3, <2>1, <2>2 DEF Seen, First
  <2>4. Form(p)
    BY <1>2, <1>3 DEF Form
  <2> QED
    BY <1>1, <1>4, <1>5, <2>3, <2>4, SeenStays
<1>6. CASE Proceeds(w, Idle)
  BY <1>1, <1>4, <1>6, IdleMove
<1> QED
  BY <1>1, <1>5, <1>6

LEMMA AbortSeen ==
  ASSUME IInv, KInv, NEW w \in Workers, Abort(w)
  PROVE  KInv'
<1>1. /\ Proceeds(w, Idle) /\ torn' = (torn \/ Halfway(w))
      /\ UNCHANGED <<source, target, result>>
  BY DEF Abort, Stops, rowVars
<1>2. ASSUME Demotes(work[w])
      PROVE  Halfway(w)
  BY <1>2, Demoters DEF Halfway, Demotes, Doing, First
<1> QED
  BY <1>1, <1>2, IdleMove

LEMMA UntouchedSeen ==
  ASSUME KInv, UNCHANGED <<work, source, target, result, torn>>
  PROVE  KInv'
<1>1. ASSUME NEW w \in Workers
      PROVE  Form(work'[w]) /\ (~ work'[w].stale => Seen(work[w])')
  <2>1. Form(work[w]) /\ (~ work[w].stale => Seen(work[w]))
    BY DEF KInv
  <2> QED
    BY <2>1, ChecksUnchanged DEF Seen, First
<1>2. Whole'
  BY ChecksUnchanged DEF KInv, Whole, StillActive, Demotes, First, ArchivedHasNoDryrun
<1> QED
  BY <1>1, <1>2 DEF KInv

LEMMA HandleCompletionSeen ==
  ASSUME IInv, KInv, NEW c \in Consumers, NEW r \in Runs, HandleCompletion(c, r)
  PROVE  KInv'
<1>1. PICK m \in answers :
        IF m.kind = "malformed"
          THEN UNCHANGED work
          ELSE \E todo \in Handled(m) :
                 Proceeds(c, [Idle EXCEPT !.op = "completion", !.target = result[r].target,
                               !.run = r, !.todo = todo \o <<Call("ack")>>, !.answer = m])
  BY DEF HandleCompletion
<1>2. work[c] = Idle /\ c \in Workers /\ UNCHANGED <<source, target, result, torn>>
  BY DEF HandleCompletion, rowVars, Workers
<1>3. CASE m.kind = "malformed"
  BY <1>1, <1>2, <1>3, UntouchedSeen
<1>4. CASE m.kind # "malformed"
  <2>1. PICK todo \in Handled(m) :
          Proceeds(c, [Idle EXCEPT !.op = "completion", !.target = result[r].target,
                        !.run = r, !.todo = todo \o <<Call("ack")>>, !.answer = m])
    BY <1>1, <1>4
  <2> DEFINE list == todo \o <<Call("ack")>>
             p == [Idle EXCEPT !.op = "completion", !.target = result[r].target,
                               !.run = r, !.todo = list, !.answer = m]
  <2>2. Proceeds(c, p)
    BY <2>1
  <2>3. MildList(list) /\ 1 \in 1 .. Len(list) /\ list[1].do # "insert"
    <3> DEFINE ack == Call("ack")
               s == TargetRow([active |-> TRUE])
               u == FullRow([status |-> "READY", dry |-> "NOT_REQUIRED"])
    <3>1. MildStep(ack) /\ MildStep(s) /\ MildStep(u)
      BY MildCalls, MildActivation
    <3>2. \/ todo = <<>> \/ todo = <<s>> \/ todo = <<s, u>>
          \/ \E v : todo = <<Complete(v)>>
      BY HarmlessActivation DEF Handled
    <3>3. ack.do # "insert" /\ s.do # "insert" /\ u.do # "insert"
          /\ \A v : Complete(v).do # "insert"
      BY RowSteps, Calls DEF Complete
    <3> HIDE DEF ack, s, u
    <3>4. \/ todo \o <<ack>> = <<ack>> \/ todo \o <<ack>> = <<s, ack>>
          \/ todo \o <<ack>> = <<s, u, ack>>
          \/ \E v : todo \o <<ack>> = <<Complete(v), ack>>
      BY <3>2, Joined
    <3> DEFINE Good(q) == MildList(q) /\ 1 \in 1 .. Len(q) /\ q[1].do # "insert"
    <3>5. Good(<<ack>>)
      BY <3>1, <3>3, MildLists, OneStep
    <3>6. Good(<<s, ack>>)
      BY <3>1, <3>3, MildLists, TwoSteps
    <3>7. Good(<<s, u, ack>>)
      BY <3>1, <3>3, MildLists, ThreeSteps
    <3>8. ASSUME NEW v PROVE Good(<<Complete(v), ack>>)
      <4> DEFINE x == Complete(v)
      <4>1. MildStep(x) /\ x.do # "insert"
        BY <3>3, MildCalls
      <4> HIDE DEF x
      <4>2. MildList(<<x, ack>>) /\ Len(<<x, ack>>) = 2 /\ <<x, ack>>[1] = x
        BY <3>1, <4>1, MildLists, TwoSteps
      <4>3. 1 \in 1 .. 2
        OBVIOUS
      <4> QED
        BY <4>1, <4>2, <4>3 DEF x
    <3> HIDE DEF Good
    <3>9. Good(todo \o <<ack>>)
      BY <3>4, <3>5, <3>6, <3>7, <3>8, Zenon
    <3> QED
      BY <3>9 DEF Good, ack
  <2> HIDE DEF list
  <2>4. p.op = "completion" /\ p.todo = list /\ p.row = None
    BY DEF Idle
  <2> HIDE DEF p
  <2>5. ~ Demotes(work[c])
    BY <1>2, IdleShape DEF Demotes
  <2> QED
    BY <1>2, <2>2, <2>3, <2>4, <2>5, MildMove DEF First
<1> QED
  BY <1>3, <1>4

-----------------------------------------------------------------------------
(***************************************************************************)
(* Steps that write the source.                                            *)
(***************************************************************************)
LEMMA MergedDeleted ==
  ASSUME NEW row \in Source, NEW set
  PROVE  Merge(row, set).deleted = IF "deleted" \in DOMAIN set THEN set["deleted"] ELSE row.deleted
BY DEF Merge, Source

(* The target rows and the results are left alone.                         *)
LEMMA SourceWholes ==
  ASSUME IInv, KInv, ~ torn, UNCHANGED <<target, result>>,
         source'.status = "ARCHIVED" => source.status = "ARCHIVED" \/ ~ DryrunsRunning,
         source'.status = "ACTIVE" /\ ~ source'.deleted =>
           \/ ActiveTargets # {}
           \/ /\ source.status = "ACTIVE" /\ ~ source.deleted
              /\ (\E v \in Workers : Demotes(work[v])) => (\E v \in Workers : Demotes(work[v])')
  PROVE  Whole'
<1>1. TriggeredIsMade /\ StillActive /\ ArchivedHasNoDryrun
  BY DEF KInv, Whole
<1>2. /\ DryrunsRunning' = DryrunsRunning /\ ActiveTargets' = ActiveTargets /\ Listed' = Listed
      /\ \A t : DryrunRunning(t)' = DryrunRunning(t)
  BY DEF DryrunsRunning, ActiveTargets, DryrunRunning, Listed, RunsOf, Latest
<1>3. TriggeredIsMade'
  BY <1>1 DEF TriggeredIsMade
<1>4. ArchivedHasNoDryrun'
  BY <1>1, <1>2 DEF ArchivedHasNoDryrun, DryrunsRunning
<1>5. StillActive'
  BY <1>1, <1>2 DEF StillActive, Found
<1> QED
  BY <1>3, <1>4, <1>5 DEF Whole

LEMMA SourceWritten ==
  ASSUME IInv, KInv, NEW w \in Workers, work[w].todo # <<>>,
         First(work[w]) \in {"source", "columns", "bulk"}, NEW set, set = work[w].todo[1].set,
         Writes(w, Rest(w)), UNCHANGED <<target, result>>,
         torn' \/ source' = Merge(source, set)
  PROVE  KInv'
<1> DEFINE p == work[w]
<1>1. Shape(p) /\ Form(p) /\ (~ p.stale => Seen(p)) /\ source \in Source
  BY DEF IInv, Handlers, KInv, Rows
<1>2. Form(Rest(w)) /\ Quiet(Rest(w)) /\ Moved(w, Rest(w))
  BY RestForm, WritesMoves DEF IInv
<1>3. Seen(work[w])'
  BY <1>2, QuietHasSeen DEF Moved
<1>4. ASSUME ~ torn'
      PROVE  Whole'
  <2>1. ~ torn /\ ~ p.stale /\ source' = Merge(source, set)
    BY <1>4 DEF Writes
  <2>2. /\ source'.status = IF "status" \in DOMAIN set THEN set["status"] ELSE source.status
        /\ source'.deleted = IF "deleted" \in DOMAIN set THEN set["deleted"] ELSE source.deleted
    BY <1>1, <2>1, MergedColumns, MergedDeleted
  <2>3. Seen(p)
    BY <1>1, <2>1
  <2>4. CASE Starting(p.todo)
    <3>1. ActiveTargets # {} /\ set = ToActive
      BY <2>3, <2>4, Firsts DEF Seen
    <3>2. source'.status = "ACTIVE"
      BY <2>2, <3>1 DEF ToActive
    <3> QED
      BY <2>1, <3>1, <3>2, SourceWholes
  <2>5. CASE p.todo = Archiving
    <3>1. ~ DryrunsRunning /\ set = ToArchived
      BY <2>3, <2>5, Firsts DEF Seen
    <3>2. source'.status = "ARCHIVED"
      BY <2>2, <3>1 DEF ToArchived
    <3> QED
      BY <2>1, <3>1, <3>2, SourceWholes
  <2>6. CASE p.todo = Demotion
    <3>1. set = [status |-> "PENDING", dry |-> "PENDING"]
      BY <2>6, Firsts
    <3>2. source'.status = "PENDING"
      BY <2>2, <3>1
    <3> QED
      BY <2>1, <3>2, SourceWholes
  <2>7. CASE MildList(p.todo) /\ p.op # "UpdateTarget"
    <3>1. Mild(set)
      <4>1. 1 \in 1 .. Len(p.todo)
        BY <1>1, ListCases
      <4> QED
        BY <2>7, <4>1 DEF MildList, MildStep, Mild, First
    <3>2. /\ source'.status \in {"ACTIVE", "ARCHIVED"} => source'.status = source.status
          /\ ~ source'.deleted => ~ source.deleted
      BY <2>2, <3>1 DEF Mild
    <3>3. (\E v \in Workers : Demotes(work[v])) => (\E v \in Workers : Demotes(work[v])')
      BY <1>2, <2>7, StillDemotes DEF Demotes
    <3> QED
      BY <2>1, <3>2, <3>3, SourceWholes
  <2>8. p.todo # Deactivating /\ p.todo # Deleting
    BY Firsts DEF First
  <2>9. p.op = "UpdateTarget" => p.todo = Demotion
    BY <1>1, InEditor
  <2> QED
    BY <1>1, <2>4, <2>5, <2>6, <2>7, <2>8, <2>9 DEF Form
<1>5. Whole'
  BY <1>4 DEF Whole
<1> QED
  BY <1>2, <1>3, <1>5, SeenMove

LEMMA UpdateDataSourceSeen ==
  ASSUME IInv, KInv, NEW w \in Workers, UpdateDataSource(w)
  PROVE  KInv'
<1> DEFINE p == work[w]
<1>1. /\ Doing(w, "source") /\ p.row # None /\ source' = Merge(p.row, Set(w))
      /\ Writes(w, Rest(w)) /\ UNCHANGED <<target, result>>
  BY DEF UpdateDataSource
<1>2. /\ p.todo # <<>> /\ First(p) = "source" /\ Set(w) = p.todo[1].set
      /\ ~ p.stale => Seen(p)
  BY <1>1, Doings DEF IInv, KInv, Set
<1>3. ASSUME ~ torn'
      PROVE  p.row = source
  <2>1. ~ p.stale
    BY <1>1, <1>3 DEF Writes
  <2> QED
    BY <1>1, <1>2, <2>1 DEF Seen
<1> QED
  BY <1>1, <1>2, <1>3, SourceWritten

LEMMA UpdateColumnsSeen ==
  ASSUME IInv, KInv, NEW w \in Workers, UpdateColumns(w)
  PROVE  KInv'
<1>1. /\ Doing(w, "columns") /\ source' = Merge(source, Set(w))
      /\ Writes(w, Rest(w)) /\ UNCHANGED <<target, result>>
  BY DEF UpdateColumns
<1>2. work[w].todo # <<>> /\ First(work[w]) = "columns" /\ Set(w) = work[w].todo[1].set
  BY <1>1, Doings DEF IInv, Set
<1> QED
  BY <1>1, <1>2, SourceWritten

LEMMA UpdateProjectDataSourcesLifecycleSeen ==
  ASSUME IInv, KInv, NEW w \in Workers, UpdateProjectDataSourcesLifecycle(w)
  PROVE  KInv'
<1> DEFINE set == Head(work[w].todo).set
<1>1. /\ Doing(w, "bulk") /\ UNCHANGED <<target, result>>
      /\ \/ source' = Merge(source, set) /\ Writes(w, Rest(w))
         \/ Proceeds(w, Rest(w)) /\ UNCHANGED <<source, torn>>
  BY DEF UpdateProjectDataSourcesLifecycle
<1>2. work[w].todo # <<>> /\ First(work[w]) = "bulk" /\ set = work[w].todo[1].set
  BY <1>1, Doings DEF IInv
<1> HIDE DEF set
<1>3. CASE source' = Merge(source, set) /\ Writes(w, Rest(w))
  BY <1>1, <1>2, <1>3, SourceWritten
<1>4. CASE Proceeds(w, Rest(w)) /\ UNCHANGED <<source, torn>>
  BY <1>1, <1>4, RestSeen
<1> QED
  BY <1>1, <1>3, <1>4

(* A statement of no handler makes all of them stale.                      *)
LEMMA AtOnceSeen ==
  ASSUME IInv, KInv, WritesAtOnce, UNCHANGED <<target, result>>,
         source'.status \in {"ACTIVE", "ARCHIVED"} => source'.status = source.status,
         source'.deleted = source.deleted
  PROVE  KInv'
<1>1. ASSUME NEW v \in Workers
      PROVE  /\ Form(work'[v]) /\ (~ work'[v].stale => Seen(work[v])')
             /\ Demotes(work[v]) => Demotes(work[v])'
  <2>0. Shape(work[v]) /\ Form(work[v])
    BY DEF IInv, Handlers, KInv
  <2>1. work'[v] = Overtaken(v)
    BY DEF WritesAtOnce
  <2>2. CASE work[v] = Idle
    <3>1. work'[v] = Idle
      BY <2>1, <2>2 DEF Overtaken
    <3> QED
      BY <2>2, <3>1, IdleIsQuiet, QuietHasSeen, IdleShape DEF Demotes
  <2>3. CASE work[v] # Idle
    <3>1. Same(work[v], work'[v])
      BY <2>0, <2>1, OvertakenIsSame
    <3>2. work'[v].stale = TRUE
      <4> DEFINE old == work[v]
      <4>1. work'[v] = [old EXCEPT !.stale = TRUE] /\ Fields(old)
        BY <2>0, <2>1, <2>3 DEF Overtaken, Shape
      <4> HIDE DEF old
      <4> QED
        BY <4>1 DEF Fields
    <3> QED
      BY <2>0, <3>1, <3>2 DEF Form, Same, Demotes, First
  <2> QED
    BY <2>2, <2>3
<1>2. Whole'
  <2>1. torn' = torn
    BY DEF WritesAtOnce
  <2>2. (\E v \in Workers : Demotes(work[v])) => (\E v \in Workers : Demotes(work[v])')
    BY <1>1
  <2>3. CASE torn
    BY <2>1, <2>3 DEF Whole
  <2>4. CASE ~ torn
    BY <2>2, <2>4, SourceWholes
  <2> QED
    BY <2>3, <2>4
<1> QED
  BY <1>1, <1>2 DEF KInv

LEMMA AtOncesSeen ==
  ASSUME IInv, KInv, Pause \/ \E m \in Modes : UpdateProjectCrawlMode(m)
  PROVE  KInv'
<1>1. CASE Pause
  <2>1. source' = Merge(source, ToPaused) /\ WritesAtOnce /\ UNCHANGED <<target, result>>
    BY <1>1 DEF Pause
  <2>2. source'.status = "PAUSED" /\ source'.deleted = source.deleted
    BY <2>1, MergedColumns, MergedDeleted DEF IInv, Rows, ToPaused
  <2> QED
    BY <2>1, <2>2, AtOnceSeen
<1>2. ASSUME NEW m \in Modes, UpdateProjectCrawlMode(m)
      PROVE  KInv'
  <2>1. /\ source' = [source EXCEPT !.mode = m] /\ WritesAtOnce /\ UNCHANGED <<target, result>>
    BY <1>2 DEF UpdateProjectCrawlMode
  <2>2. source'.status = source.status /\ source'.deleted = source.deleted
    BY <2>1 DEF IInv, Rows, Source
  <2> QED
    BY <2>1, <2>2, AtOnceSeen
<1> QED
  BY <1>1, <1>2

-----------------------------------------------------------------------------
(***************************************************************************)
(* Steps that write targets and results.                                   *)
(***************************************************************************)
LEMMA MergedTargetColumns ==
  ASSUME NEW row \in Target, NEW set
  PROVE  /\ Merge(row, set).made = IF "made" \in DOMAIN set THEN set["made"] ELSE row.made
         /\ Merge(row, set).active = IF "active" \in DOMAIN set THEN set["active"] ELSE row.active
         /\ Merge(row, set).flushed = IF "flushed" \in DOMAIN set THEN set["flushed"] ELSE row.flushed
BY DEF Merge, Target

(* A target loses no active or flushed mark and comes into sight only with *)
(* no dry run of its own.                                                  *)
LEMMA TargetWholes ==
  ASSUME IInv, KInv, ~ torn, UNCHANGED <<source, result>>,
         \A t \in Targets : target[t].made => target'[t].made,
         \A t \in Targets : t \in Listed' \ Listed => ~ DryrunRunning(t),
         StillActive'
  PROVE  Whole'
<1>1. TriggeredIsMade /\ StillActive /\ ArchivedHasNoDryrun
  BY DEF KInv, Whole
<1>2. \A t : DryrunRunning(t)' = DryrunRunning(t)
  BY DEF DryrunRunning, RunsOf, Latest
<1>3. TriggeredIsMade'
  BY <1>1 DEF TriggeredIsMade, IInv, Known, Exists
<1>4. ArchivedHasNoDryrun'
  BY <1>1, <1>2 DEF ArchivedHasNoDryrun, Listed
<1> QED
  BY <1>3, <1>4 DEF Whole

LEMMA InsertTargetSeen ==
  ASSUME IInv, KInv, NEW w \in Workers, InsertTarget(w)
  PROVE  KInv'
<1> DEFINE t == work[w].target
<1>1. /\ Doing(w, "create") /\ target' = [target EXCEPT ![t].made = TRUE]
      /\ Writes(w, Rest(w)) /\ UNCHANGED <<source, result>>
  BY DEF InsertTarget
<1>2. work[w].todo # <<>> /\ First(work[w]) = "create" /\ target \in [Targets -> Target]
  BY <1>1, Doings DEF IInv, Rows
<1>3. Form(Rest(w)) /\ Quiet(Rest(w)) /\ Moved(w, Rest(w))
  BY <1>1, <1>2, RestForm, WritesMoves DEF IInv
<1>4. Seen(work[w])'
  BY <1>3, QuietHasSeen DEF Moved
<1>5. ASSUME ~ torn'
      PROVE  Whole'
  <2>1. ~ torn /\ TriggeredIsMade /\ StillActive
    BY <1>1, <1>5 DEF Writes, KInv, Whole
  <2>2. \A u \in Targets : /\ target'[u].active = target[u].active
                           /\ target'[u].flushed = target[u].flushed
                           /\ target[u].made => target'[u].made
                           /\ u # t => target'[u] = target[u]
    BY <1>1, <1>2 DEF Target
  <2>3. ASSUME NEW u \in Targets, u \in Listed' \ Listed
        PROVE  ~ DryrunRunning(u)
    <3>1. ~ target[u].made
      BY <2>2, <2>3 DEF Listed
    <3>2. RunsOf(u) = {}
      BY <2>1, <3>1 DEF RunsOf, TriggeredIsMade
    <3> QED
      BY <3>2 DEF DryrunRunning
  <2>4. StillActive'
    <3>1. ActiveTargets \subseteq ActiveTargets'
      BY <2>2 DEF ActiveTargets, Listed
    <3>2. (\E v \in Workers : Demotes(work[v])) => (\E v \in Workers : Demotes(work[v])')
      BY <1>2, <1>3, Demoters, StillDemotes
    <3>3. (\E u \in Targets : target[u].flushed) => (\E u \in Targets : target'[u].flushed)
      BY <2>2
    <3> QED
      BY <1>1, <2>1, <3>1, <3>2, <3>3 DEF StillActive, Found
  <2> QED
    BY <1>1, <2>1, <2>2, <2>3, <2>4, TargetWholes
<1>6. Whole'
  BY <1>5 DEF Whole
<1> QED
  BY <1>1, <1>3, <1>4, <1>6, SeenMove

LEMMA UpdateTargetRowSeen ==
  ASSUME IInv, KInv, NEW w \in Workers, UpdateTargetRow(w)
  PROVE  KInv'
<1> DEFINE p == work[w]
           t == p.target
           set == Set(w)
<1>1. /\ Doing(w, "target") /\ p.row # None
      /\ target' = [target EXCEPT ![t] = Merge(p.row, set)]
      /\ Writes(w, Rest(w)) /\ UNCHANGED <<source, result>>
  BY DEF UpdateTargetRow
<1>2. /\ Shape(p) /\ p.todo # <<>> /\ First(p) = "target" /\ set = p.todo[1].set
      /\ Form(p) /\ (~ p.stale => Seen(p)) /\ target \in [Targets -> Target]
  BY <1>1, Doings DEF IInv, KInv, Rows, Set
<1>3. Form(Rest(w)) /\ Quiet(Rest(w)) /\ Moved(w, Rest(w))
  BY <1>1, <1>2, RestForm, WritesMoves DEF IInv
<1>4. Seen(work[w])'
  BY <1>3, QuietHasSeen DEF Moved
<1> HIDE DEF set
<1>5. ASSUME ~ torn'
      PROVE  Whole'
  <2>1. ~ torn /\ ~ p.stale /\ Seen(p) /\ StillActive
    BY <1>1, <1>2, <1>5 DEF Writes, KInv, Whole
  <2>2. p.row = target[t] /\ t \in Targets
    BY <1>1, <1>2, <2>1, InEditing DEF Seen
  <2>3. /\ target'[t].made = IF "made" \in DOMAIN set THEN set["made"] ELSE target[t].made
        /\ target'[t].active = IF "active" \in DOMAIN set THEN set["active"] ELSE target[t].active
        /\ target'[t].flushed = IF "flushed" \in DOMAIN set THEN set["flushed"] ELSE target[t].flushed
        /\ \A u \in Targets \ {t} : target'[u] = target[u]
    BY <1>1, <1>2, <2>2, MergedTargetColumns
  <2>4. ~ Demotes(p)
    BY <1>2 DEF Demotes
  <2>5. (\E v \in Workers : Demotes(work[v])) => (\E v \in Workers : Demotes(work[v])')
    BY <1>3, <2>4, StillDemotes
  <2>6. \/ p.op = "UpdateTarget" /\ set = NoColumns
        \/ p.op = "UpdateTarget" /\ DOMAIN set \subseteq {"active", "flushed"} /\ Demotes(Rest(w))
        \/ p.op # "UpdateTarget" /\ DOMAIN set \subseteq {"active"}
             /\ ("active" \in DOMAIN set => set["active"] = TRUE)
        \/ p.todo = Deactivating /\ set = [active |-> FALSE]
        \/ p.todo = Deleting /\ set = [active |-> FALSE, flushed |-> TRUE]
    <3>1. CASE p.op = "UpdateTarget"
      <4>1. \/ p.todo = <<TargetRow(NoColumns)>>
            \/ \E s : DOMAIN s \subseteq {"active", "flushed"}
                        /\ p.todo = <<TargetRow(s), Call("demote")>>
        BY <1>2, <3>1, InEditor
      <4>2. CASE p.todo = <<TargetRow(NoColumns)>>
        BY <1>2, <3>1, <4>2, OneStep, RowSteps
      <4>3. ASSUME NEW s, DOMAIN s \subseteq {"active", "flushed"},
                   p.todo = <<TargetRow(s), Call("demote")>>
            PROVE  DOMAIN set \subseteq {"active", "flushed"} /\ Demotes(Rest(w))
        <5>1. set = s
          BY <1>2, <4>3, TwoSteps, RowSteps
        <5>2. Demotes(Rest(w))
          BY <1>2, <3>1, <4>3, RestForm
        <5> QED
          BY <4>3, <5>1, <5>2
      <4> QED
        BY <3>1, <4>1, <4>2, <4>3
    <3>2. CASE p.op # "UpdateTarget" /\ MildList(p.todo)
      <4>1. 1 \in 1 .. Len(p.todo)
        BY <1>2, ListCases
      <4> QED
        BY <1>2, <3>2, <4>1 DEF MildList, MildStep, First
    <3>3. CASE p.todo \in {Deactivating, Deleting}
      BY <1>2, <3>3, Firsts
    <3>4. ~ Starting(p.todo) /\ p.todo # Archiving
      BY <1>2, Firsts DEF First
    <3> QED
      BY <1>2, <3>1, <3>2, <3>3, <3>4 DEF Form
  <2>7. /\ DOMAIN set \subseteq {"active", "flushed"}
        /\ "flushed" \in DOMAIN set /\ set["flushed"] = FALSE => p.op = "UpdateTarget"
    BY <2>6 DEF NoColumns
  <2>8. /\ \A u \in Targets : target[u].made => target'[u].made
        /\ target'[t].made = target[t].made
    BY <2>3, <2>7
  <2>9. ASSUME NEW u \in Targets, u \in Listed' \ Listed
        PROVE  ~ DryrunRunning(u)
    <3>1. u = t /\ target[t].flushed /\ ~ target'[t].flushed
      BY <2>3, <2>8, <2>9 DEF Listed
    <3>2. p.op = "UpdateTarget"
      BY <1>2, <2>2, <2>3, <2>7, <3>1
    <3> QED
      BY <1>2, <2>1, <3>1, <3>2 DEF Seen
  <2>10. StillActive'
    <3>1. Found' = Found
      BY <1>1 DEF Found
    <3>2. CASE p.op = "UpdateTarget" /\ set = NoColumns
      <4>1. \A u \in Targets : /\ target'[u].made = target[u].made
                               /\ target'[u].active = target[u].active
                               /\ target'[u].flushed = target[u].flushed
        BY <2>3, <3>2 DEF NoColumns
      <4>2. ActiveTargets' = ActiveTargets
        BY <4>1 DEF ActiveTargets, Listed
      <4>3. (\E u \in Targets : target[u].flushed) => (\E u \in Targets : target'[u].flushed)
        BY <4>1
      <4> QED
        BY <1>1, <2>1, <2>5, <3>1, <4>2, <4>3 DEF StillActive
    <3>3. CASE Demotes(Rest(w))
      BY <1>3, <3>3 DEF StillActive, Moved, Demotes, First
    <3>4. CASE DOMAIN set \subseteq {"active"} /\ ("active" \in DOMAIN set => set["active"] = TRUE)
      <4>1. \A u \in Targets : /\ target'[u].made = target[u].made
                               /\ target[u].active => target'[u].active
                               /\ target'[u].flushed = target[u].flushed
        BY <2>3, <3>4
      <4>2. ActiveTargets \subseteq ActiveTargets'
        BY <4>1 DEF ActiveTargets, Listed
      <4>3. (\E u \in Targets : target[u].flushed) => (\E u \in Targets : target'[u].flushed)
        BY <4>1
      <4> QED
        BY <1>1, <2>1, <2>5, <3>1, <4>2, <4>3 DEF StillActive
    <3>5. CASE p.todo = Deactivating /\ set = [active |-> FALSE]
      <4> SUFFICES ASSUME source.status = "ACTIVE", Found
                   PROVE  ActiveTargets' # {}
        BY <1>1, <3>1 DEF StillActive
      <4>1. Cardinality(ActiveTargets) > 1
        BY <2>1, <3>5 DEF Seen, Removable
      <4>2. PICK u \in ActiveTargets : u # t
        <5>1. CASE ActiveTargets = {}
          BY <4>1, <5>1, FS_EmptySet
        <5>2. CASE ActiveTargets = {t}
          <6>1. Cardinality({t}) = 1
            BY FS_Singleton, Zenon
          <6> HIDE DEF t
          <6> QED
            BY <4>1, <5>2, <6>1
        <5> QED
          BY <5>1, <5>2
      <4> QED
        BY <2>3, <4>2 DEF ActiveTargets, Listed
    <3>6. CASE set = [active |-> FALSE, flushed |-> TRUE]
      BY <2>2, <2>3, <3>6 DEF StillActive
    <3> QED
      BY <2>6, <3>2, <3>3, <3>4, <3>5, <3>6
  <2> QED
    BY <1>1, <2>1, <2>8, <2>9, <2>10, TargetWholes
<1>6. Whole'
  BY <1>5 DEF Whole
<1> QED
  BY <1>1, <1>3, <1>4, <1>6, SeenMove

LEMMA CreateResultSeen ==
  ASSUME IInv, KInv, NEW w \in Workers, CreateResult(w)
  PROVE  KInv'
<1> DEFINE old == work[w]
<1>1. /\ Shape(old) /\ old.todo # <<>> /\ First(old) = "insert"
      /\ old.todo = <<Call("insert"), Call("running"), Call("publish")>>
      /\ old.op = "Trigger" /\ old.target \in Targets
      /\ ~ old.stale => Seen(old)
  BY Doings, InTrigger DEF CreateResult, IInv, KInv
<1>2. PICK r \in Runs :
        /\ result' = [result EXCEPT ![r] = [status |-> "RUNNING", target |-> old.target]]
        /\ Writes(w, [Rest(w) EXCEPT !.run = r])
  BY DEF CreateResult
<1> DEFINE p == [Rest(w) EXCEPT !.run = r]
<1>3. /\ p.op = "Trigger" /\ p.todo = <<Call("running"), Call("publish")>> /\ p.row = None
  <2> DEFINE q == Tail(old.todo)
  <2>1. q = <<Call("running"), Call("publish")>> /\ q # <<>>
    BY <1>1, TwoSteps, ThreeSteps
  <2>2. Rest(w) = [old EXCEPT !.todo = q, !.row = None] /\ Fields(old)
    BY <1>1, <2>1 DEF Rest, Shape
  <2>3. p = [[old EXCEPT !.todo = q, !.row = None] EXCEPT !.run = r]
    BY <2>2
  <2>4. old.op = "Trigger"
    BY <1>1
  <2> HIDE DEF q, p
  <2>5. p.op = old.op /\ p.todo = q /\ p.row = None
    <3> HIDE DEF old
    <3> QED
      BY <2>2, <2>3 DEF Fields
  <2> QED
    BY <2>1, <2>4, <2>5
<1>4. Writes(w, p) /\ UNCHANGED <<source, target>>
  BY <1>2 DEF CreateResult
<1> HIDE DEF p
<1>5. Form(p) /\ Quiet(p)
  <2> DEFINE a == Call("running")
             b == Call("publish")
             q == <<a, b>>
  <2>1. MildStep(a) /\ MildStep(b) /\ a.do = "running"
    BY MildCalls, Calls
  <2>2. p.todo = q
    BY <1>3
  <2> HIDE DEF a, b
  <2>3. MildList(q) /\ 1 \in 1 .. Len(q) /\ q[1] = a
    BY <2>1, MildLists, TwoSteps
  <2> HIDE DEF q
  <2> QED
    BY <1>3, <2>1, <2>2, <2>3, MildIsPlain DEF Form, Quiet, First
<1>6. Moved(w, p)
  BY <1>4, WritesMoves DEF IInv
<1>7. Seen(work[w])'
  BY <1>5, <1>6, QuietHasSeen DEF Moved
<1>8. ASSUME ~ torn'
      PROVE  Whole'
  <2>1. ~ torn /\ Seen(old) /\ TriggeredIsMade /\ StillActive
    BY <1>1, <1>4, <1>8 DEF Writes, KInv, Whole
  <2>2. source.status # "ARCHIVED" /\ target[old.target].made
    BY <1>1, <2>1 DEF Seen
  <2>3. result'[r].target = old.target /\ \A q \in Runs \ {r} : result'[q] = result[q]
    BY <1>2 DEF IInv, Rows
  <2>4. TriggeredIsMade'
    BY <1>4, <2>1, <2>2, <2>3 DEF TriggeredIsMade
  <2>5. ArchivedHasNoDryrun'
    BY <1>4, <2>2 DEF ArchivedHasNoDryrun
  <2>6. ~ Demotes(old)
    BY <1>1 DEF Demotes
  <2>7. (\E v \in Workers : Demotes(work[v])) => (\E v \in Workers : Demotes(work[v])')
    BY <1>6, <2>6, StillDemotes
  <2>8. ActiveTargets' = ActiveTargets /\ Found' = Found
    BY <1>4 DEF ActiveTargets, Listed, Found
  <2>9. StillActive'
    BY <1>4, <2>1, <2>7, <2>8 DEF StillActive
  <2> QED
    BY <2>4, <2>5, <2>9 DEF Whole
<1>9. Whole'
  BY <1>8 DEF Whole
<1> QED
  BY <1>4, <1>5, <1>7, <1>9, SeenMove

(* A set of numbers that is bounded and not empty has a greatest one.      *)
LEMMA HasGreatest ==
  ASSUME NEW n \in Nat, NEW S \in SUBSET (1 .. n), S # {}
  PROVE  \E q \in S : \A u \in S : u <= q
<1> DEFINE U == {k \in Nat : \A u \in S : u <= k}
           less == {d \in Nat \X Nat : d[1] < d[2]}
<1>1. less = OpToRel(<, Nat)
  BY DEF OpToRel
<1>2. IsWellFoundedOn(less, Nat)
  BY <1>1, NatLessThanWellFounded
<1>3. U \subseteq Nat /\ n \in U
  OBVIOUS
<1> HIDE DEF U
<1>4. PICK m \in U : \A k \in U : ~ (<<k, m>> \in less)
  <2> HIDE DEF less
  <2> QED
    BY <1>2, <1>3, WFMin
<1>5. m \in Nat /\ (\A u \in S : u <= m) /\ \A k \in U : ~ (k < m)
  BY <1>3, <1>4 DEF U
<1>6. m \in S
  <2> SUFFICES ASSUME m \notin S PROVE FALSE
    OBVIOUS
  <2>1. PICK u : u \in S
    OBVIOUS
  <2>2. u \in 1 .. n
    BY <2>1
  <2>3. m >= 1
    BY <1>5, <2>1, <2>2
  <2>4. \A v \in S : v <= m - 1
    BY <1>5
  <2>5. m - 1 \in U
    BY <1>5, <2>3, <2>4 DEF U
  <2> QED
    BY <1>5, <2>5
<1> QED
  BY <1>5, <1>6

(* A dry run that ends is the latest of its target as it was before.       *)
LEMMA EndedIsNotRunning ==
  ASSUME result \in [Runs -> Result], NEW r \in Runs, NEW verdict \in {"SUCCESS", "FAILED"},
         Exists(r), result' = [result EXCEPT ![r].status = verdict], NEW t
  PROVE  DryrunRunning(t)' => DryrunRunning(t)
<1>1. /\ result'[r].status = verdict /\ result'[r].target = result[r].target
      /\ \A q \in Runs \ {r} : result'[q] = result[q]
  BY DEF Result
<1>2. RunsOf(t)' = RunsOf(t)
  BY <1>1 DEF RunsOf, Exists
<1>3. Latest(t)' = Latest(t)
  BY <1>2 DEF Latest
<1>4. \A q \in Runs : result'[q].status = "RUNNING" => result[q].status = "RUNNING"
  BY <1>1
<1>5. ASSUME RunsOf(t) # {}
      PROVE  Latest(t) \in Runs
  <2>1. \E q \in RunsOf(t) : \A u \in RunsOf(t) : u <= q
    <3> DEFINE S == RunsOf(t)
    <3>1. S \in SUBSET (1 .. MaxRuns) /\ S # {} /\ MaxRuns \in Nat
      BY <1>5, DataSourceAssumption DEF RunsOf, Runs, DataSourceAssumption
    <3> HIDE DEF S
    <3>2. \E q \in S : \A u \in S : u <= q
      BY <3>1, HasGreatest
    <3> QED
      BY <3>2 DEF S
  <2>2. Latest(t) \in RunsOf(t)
    BY <2>1, Zenon DEF Latest
  <2> QED
    BY <2>2 DEF RunsOf
<1> QED
  BY <1>2, <1>3, <1>4, <1>5 DEF DryrunRunning

LEMMA CompleteResultSeen ==
  ASSUME IInv, KInv, NEW w \in Workers, CompleteResult(w)
  PROVE  KInv'
<1> DEFINE p == work[w]
           r == p.run
           verdict == Head(p.todo).verdict
           status == StatusAfter(verdict, p.row.status)
           set == [status |-> status, dry |-> verdict, last |-> r]
<1>1. /\ Doing(w, "complete") /\ Writes(w, Rest(w)) /\ p.row # None
      /\ result' = [result EXCEPT ![r].status = verdict]
  BY DEF CompleteResult
<1>2. source' = Merge(source, set)
  BY DEF CompleteResult, Synchronized
<1>3. target' = IF verdict = "SUCCESS"
                THEN [target EXCEPT ![result[r].target].active = TRUE] ELSE target
  BY DEF CompleteResult
<1>4. /\ Shape(p) /\ p.todo # <<>> /\ First(p) = "complete" /\ Head(p.todo) = p.todo[1]
      /\ ~ p.stale => Seen(p)
  BY <1>1, Doings DEF IInv, KInv
<1>5. /\ verdict \in {"SUCCESS", "FAILED"} /\ r \in Runs /\ r # None /\ CompleteStep(p.todo[1])
      /\ p.op # "UpdateTarget"
  BY <1>4, InCompletion, InEditor, DataSourceAssumption DEF CompleteStep, Runs, DataSourceAssumption
<1>6. Exists(r) /\ result[r].target \in Targets
  BY <1>4, <1>5 DEF IInv, Known
<1>7. status \in {"ACTIVE", "ARCHIVED"} => status = p.row.status
  BY <1>5 DEF StatusAfter
<1> HIDE DEF verdict, status
<1>8. source'.status = status /\ source'.deleted = source.deleted
  <2>1. "deleted" \notin DOMAIN set
    OBVIOUS
  <2> QED
    BY <1>2, <2>1, MergedColumns, MergedDeleted DEF IInv, Rows
<1>9. /\ result'[r].status = verdict /\ result'[r].target = result[r].target
      /\ \A q \in Runs \ {r} : result'[q] = result[q]
  BY <1>1, <1>5 DEF IInv, Rows, Result
<1>10. \A t \in Targets : /\ target'[t].made = target[t].made
                          /\ target'[t].flushed = target[t].flushed
                          /\ target[t].active => target'[t].active
  BY <1>3, <1>6 DEF IInv, Rows, Target
<1>11. Form(Rest(w)) /\ Quiet(Rest(w)) /\ Moved(w, Rest(w))
  BY <1>1, <1>4, RestForm, WritesMoves DEF IInv
<1>12. Seen(work[w])'
  BY <1>11, QuietHasSeen DEF Moved
<1>13. ASSUME ~ torn'
       PROVE  Whole'
  <2>1. ~ torn /\ Seen(p) /\ TriggeredIsMade /\ StillActive /\ ArchivedHasNoDryrun
    BY <1>1, <1>4, <1>13 DEF Writes, KInv, Whole
  <2>2. p.row = source
    BY <1>1, <1>4, <2>1 DEF Seen
  <2>3. TriggeredIsMade'
    <3>1. \A q \in Runs : result[q].status # "ABSENT" =>
            result[q].target \in Targets /\ target[result[q].target].made
      BY <2>1 DEF TriggeredIsMade, Exists, IInv, Known
    <3>2. \A q \in Runs : /\ result'[q].target = result[q].target
                          /\ result'[q].status # "ABSENT" => result[q].status # "ABSENT"
      BY <1>6, <1>9 DEF Exists
    <3> QED
      BY <1>10, <3>1, <3>2 DEF TriggeredIsMade
  <2>4. Listed' = Listed /\ ActiveTargets \subseteq ActiveTargets'
    BY <1>10 DEF Listed, ActiveTargets
  <2>5. \A t : DryrunRunning(t)' => DryrunRunning(t)
    BY <1>1, <1>5, <1>6, EndedIsNotRunning DEF IInv, Rows
  <2>6. ArchivedHasNoDryrun'
    BY <1>7, <1>8, <2>1, <2>2, <2>4, <2>5 DEF ArchivedHasNoDryrun
  <2>7. (\E v \in Workers : Demotes(work[v])) => (\E v \in Workers : Demotes(work[v])')
    BY <1>5, <1>11, StillDemotes DEF Demotes
  <2>8. (\E t \in Targets : target[t].flushed) => (\E t \in Targets : target'[t].flushed)
    BY <1>10
  <2>9. StillActive'
    BY <1>7, <1>8, <2>1, <2>2, <2>4, <2>7, <2>8 DEF StillActive, Found
  <2> QED
    BY <2>3, <2>6, <2>9 DEF Whole
<1>14. Whole'
  BY <1>13 DEF Whole
<1> QED
  BY <1>1, <1>11, <1>12, <1>14, SeenMove

-----------------------------------------------------------------------------
(***************************************************************************)
(* The specification.                                                      *)
(***************************************************************************)
LEMMA InitSeen ==
  ASSUME Init
  PROVE  KInv
<1>1. ASSUME NEW w \in Workers
      PROVE  Form(work[w]) /\ Seen(work[w])
  <2>1. work[w] = Idle
    BY DEF Init
  <2> QED
    BY <2>1, IdleIsQuiet DEF Quiet, Seen, First
<1>2. /\ source.status = "PENDING"
      /\ \A r \in Runs : result[r].status = "ABSENT"
  BY DEF Init
<1>3. Whole
  BY <1>2 DEF Whole, TriggeredIsMade, StillActive, ArchivedHasNoDryrun
<1> QED
  BY <1>1, <1>3 DEF KInv

LEMMA NextSeen ==
  ASSUME IInv, KInv, [Next]_vars
  PROVE  KInv'
<1>1. ASSUME NEW w \in Requests, SourceRequest(w) \/ TargetRequest(w) \/ PublishFails(w)
      PROVE  KInv'
  <2>1. w \in Workers
    BY DEF Workers
  <2>2. TargetRequest(w) => \E t \in Targets :
          \/ CreateTarget(w, t) \/ UpdateTarget(w, t) \/ ActivateTarget(w, t)
          \/ DeactivateTarget(w, t) \/ DeleteTarget(w, t) \/ Trigger(w, t)
    BY DEF TargetRequest
  <2> QED
    BY <1>1, <2>1, <2>2, SourceRequestSeen, TargetRequestSeen, PublishFailsSeen
<1>2. ASSUME Pause \/ \E m \in Modes : UpdateProjectCrawlMode(m)
      PROVE  KInv'
  BY <1>2, AtOncesSeen
<1>3. ASSUME NEW r \in Runs, CrawlerAnswers(r) \/ \E c \in Consumers : HandleCompletion(c, r)
      PROVE  KInv'
  <2>1. CrawlerAnswers(r) => UNCHANGED <<work, source, target, result, torn>>
    BY DEF CrawlerAnswers, rowVars, historyVars
  <2> QED
    BY <1>3, <2>1, HandleCompletionSeen, UntouchedSeen
<1>4. ASSUME NEW c \in Consumers, PromotionFails(c)
      PROVE  KInv'
  BY <1>4, RestStepsSeen DEF Workers
<1>5. ASSUME NEW w \in Workers, RequestStep(w)
      PROVE  KInv'
  BY <1>5, RestStepsSeen, FindRowSeen, DemoteSeen, UpdateDataSourceSeen, UpdateColumnsSeen,
     UpdateProjectDataSourcesLifecycleSeen, InsertTargetSeen, UpdateTargetRowSeen,
     CreateResultSeen, MarkDryrunRunningSeen
  DEF RequestStep
<1>6. ASSUME NEW w \in Workers, BeginComplete(w) \/ CompleteResult(w) \/ Abort(w)
      PROVE  KInv'
  BY <1>6, BeginCompleteSeen, CompleteResultSeen, AbortSeen
<1>7. CASE UNCHANGED vars
  BY <1>7, UntouchedSeen DEF vars, rowVars, historyVars
<1> QED
  BY <1>1, <1>2, <1>3, <1>4, <1>5, <1>6, <1>7 DEF Next

LEMMA KInvIsInvariant == Spec => []KInv
<1>1. Init => KInv
  BY InitSeen
<1>2. IInv /\ KInv /\ [Next]_vars => KInv'
  BY NextSeen
<1> QED
  BY <1>1, <1>2, IInvIsInvariant, PTL DEF Spec

(* No target of an ARCHIVED source has a dry run in progress, in every     *)
(* history that is not torn: a dry run that is triggered while Archive     *)
(* asks for running ones tears it, whatever the number of both.            *)
THEOREM ArchivedIsQuiet == Spec => []ArchivedHasNoDryrun
<1>1. KInv => ArchivedHasNoDryrun
  BY DEF KInv, Whole, ArchivedHasNoDryrun
<1> QED
  BY <1>1, KInvIsInvariant, PTL

(* An ACTIVE source has an active target in every history that is not      *)
(* torn, unless an edit of a target is about to demote it or a target was  *)
(* deleted, for any number of targets and of requests.                     *)
THEOREM ActiveHasTarget == Spec => []ActiveSourceHasTarget
<1>1. KInv => ActiveSourceHasTarget
  BY DEF KInv, Whole, StillActive, ActiveSourceHasTarget, Demotes
<1> QED
  BY <1>1, KInvIsInvariant, PTL
=============================================================================
