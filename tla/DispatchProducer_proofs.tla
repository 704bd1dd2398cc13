----------------------- MODULE DispatchProducer_proofs -----------------------
(* Proofs of the safety properties of DispatchProducer.                    *)
EXTENDS DispatchProducer, FiniteSetTheorems, TLAPS

-----------------------------------------------------------------------------
(***************************************************************************)
(* The constants.                                                          *)
(***************************************************************************)
LEMMA QueuesAreNamed ==
  Len(Queues) \in Nat /\ 1 <= Len(Queues) /\ \A i \in 1..Len(Queues) : Queues[i] \in QueueNames
<1>1. Len(Queues) \in Nat /\ Len(Queues) # 0
  BY ProducerAssumption
<1>. QED
  BY <1>1 DEF QueueNames

LEMMA ProducerType == \A s \in Sessions : Producer(s) \in Producers
BY ProducerAssumption DEF Sessions, Producer

LEMMA SessionsAreNamed ==
  /\ None \notin Sessions /\ None \notin Channels
  /\ Publishers \subseteq Sessions /\ Producers \subseteq Sessions
  /\ Publishers \cap Producers = {}
BY ProducerAssumption DEF Sessions

LEMMA Bounds == MaxFaults \in Nat /\ MaxOutages \in Nat
BY ProducerAssumption

LEMMA TopologyType ==
  ASSUME NEW p \in Producers
  PROVE  /\ Len(Topology(p)) \in {2, 3}
         /\ p = "dryrun" <=> Len(Topology(p)) = 2
         /\ \A i \in 1..Len(Topology(p)) : Topology(p)[i] \in Items
         /\ p = "dryrun" => Topology(p)[1] = "queue" /\ Topology(p)[2] = "bind"
         /\ p # "dryrun" => /\ Topology(p)[1] = "deadLetters" /\ Topology(p)[2] = "queue"
                            /\ Topology(p)[3] = "bind"
<1>1. CASE p = "dryrun"
  <2>1. Topology(p) = <<"queue", "bind">>
    BY <1>1 DEF Topology
  <2>. QED
    BY <2>1, <1>1 DEF Items
<1>2. CASE p # "dryrun"
  <2>1. Topology(p) = <<"deadLetters", "queue", "bind">>
    BY <1>2 DEF Topology
  <2>. QED
    BY <2>1, <1>2 DEF Items
<1>. QED
  BY <1>1, <1>2

-----------------------------------------------------------------------------
(***************************************************************************)
(* The inductive invariant.                                                *)
(***************************************************************************)
Working == {"open", "declare", "publish", "closing"}

(* A session works with its producer's mutex locked, and on a channel from *)
(* the time it has opened or taken one.                                    *)
SessionsOwn ==
  \A s \in Sessions :
    /\ session[s].pc \in Working => lock[Producer(s)] = s
    /\ session[s].pc \in {"declare", "publish"} <=> Held(s) # None
    /\ session[s].pc = "declare" => session[s].step <= Len(Topology(Producer(s)))
    /\ session[s].pc = "publish" => Cached(s) = Held(s)
    /\ session[s].pc = "publish" => s \in Publishers
    /\ session[s].pc \in {"idle", "locking"} => session[s].step = 1 /\ ~session[s].retried

(* A channel is used in one place: a producer's queue, whose cached writer *)
(* it is, or whose session has it in its hands.  A free channel is not     *)
(* used, and any other is.                                                 *)
Uses(p, q, c) ==
  \/ writer[p][q] = c
  \/ \E s \in Sessions : Held(s) = c /\ Producer(s) = p /\ Queue(s) = q
Once ==
  \A c \in Channels : \A p, o \in Producers : \A q, r \in QueueNames :
    Uses(p, q, c) /\ Uses(o, r, c) => p = o /\ q = r
Live ==
  \A c \in Channels :
    channel[c] # "free" <=> \E p \in Producers : \E q \in QueueNames : Uses(p, q, c)

(* Publishers start when their producer's Run is done, and Run sets the    *)
(* writers of its queues in order: nobody opens a channel for a queue that *)
(* has a writer.                                                           *)
RunsFirst ==
  /\ "dryrun" \in Producers /\ session["dryrun"].pc # "idle" => session["http"].pc = "done"
  /\ \A s \in Publishers : session[s].pc # "idle" => session[ProducerOf[s]].pc = "done"
Fresh ==
  \A p \in Producers : session[p].pc # "done" =>
    \A i \in 1..Len(Queues) : session[p].at <= i => writer[p][Queues[i]] = None
Replaces ==
  \A s \in Publishers :
    /\ session[s].pc = "open" => Cached(s) = None
    /\ session[s].pc = "declare" => Cached(s) \in {None, Held(s)}

(* Each of the two attempts of a publish stores its message at most once.  *)
Attempts(s) == IF session[s].pc \in Ended THEN 2 ELSE IF session[s].retried THEN 1 ELSE 0
StoredPerAttempt == \A s \in Publishers : stored[s] <= Attempts(s)

Pcs == {"idle", "locking", "open", "declare", "publish", "closing", "done", "failed"}
SessionState ==
  [pc : Pcs, at : 1..Len(Queues), ch : Channels \cup {None}, step : 1..3, retried : BOOLEAN]
NetShape ==
  /\ connected \in BOOLEAN /\ emptied \in BOOLEAN
  /\ faults \in 0..MaxFaults /\ outages \in 0..MaxOutages
ChannelShape == channel \in [Channels -> {"free", "open", "lost"}]
LockShape == lock \in [Producers -> Sessions \cup {None}]
WriterShape == writer \in [Producers -> [QueueNames -> Channels \cup {None}]]
SessionShape == session \in [Sessions -> SessionState]
Shapes == NetShape /\ ChannelShape /\ LockShape /\ WriterShape /\ SessionShape

Broker ==
  /\ topology \subseteq Items \X QueueNames
  /\ plain \subseteq QueueNames
  /\ stored \in [Publishers -> 0..2]
  /\ dropped \subseteq Publishers

IInv ==
  /\ Shapes /\ Broker /\ StoredPerAttempt
  /\ SessionsOwn /\ RunsFirst /\ Fresh /\ Replaces
  /\ Once /\ Live

LEMMA QueueType == SessionShape => \A s \in Sessions : Queue(s) \in QueueNames
BY QueuesAreNamed DEF SessionShape, Queue, SessionState

LEMMA InitIInv == Init => IInv
<1>. SUFFICES ASSUME Init PROVE IInv
  OBVIOUS
<1>1. SessionShape
  BY QueuesAreNamed DEF Init, Idle, SessionShape, SessionState, Pcs
<1>2. NetShape
  <2>1. faults \in 0..MaxFaults /\ outages \in 0..MaxOutages
    BY Bounds DEF Init
  <2>. QED
    BY <2>1 DEF Init, NetShape
<1>3. ChannelShape /\ LockShape /\ WriterShape
  BY DEF Init, ChannelShape, LockShape, WriterShape
<1>4. Broker
  BY DEF Init, Broker, Items
<1>5. StoredPerAttempt
  BY DEF Init, StoredPerAttempt, Attempts, Idle, Ended, Sessions
<1>6. SessionsOwn
  BY DEF Init, SessionsOwn, Working, Held, Idle
<1>7. Fresh
  BY QueuesAreNamed DEF Init, Fresh
<1>8. RunsFirst /\ Replaces
  BY SessionsAreNamed DEF Init, RunsFirst, Replaces, Idle, Sessions
<1>9. Once /\ Live
  <2>1. \A c \in Channels : \A p \in Producers : \A q \in QueueNames : ~Uses(p, q, c)
    BY SessionsAreNamed DEF Init, Uses, Held, Idle
  <2>. QED
    BY <2>1 DEF Init, Once, Live
<1>. QED
  BY <1>1, <1>2, <1>3, <1>4, <1>5, <1>6, <1>7, <1>8, <1>9 DEF IInv, Shapes

(***************************************************************************)
(* What the moves of a session do.                                         *)
(***************************************************************************)
Others(s) == \A v \in Sessions \ {s} : session'[v] = session[v]

LEMMA Moves ==
  ASSUME SessionShape, NEW s \in Sessions, NEW pc \in Pcs, Move(s, pc)
  PROVE  /\ SessionShape' /\ Others(s) /\ session'[s].pc = pc /\ Held(s)' = Held(s)
         /\ Queue(s)' = Queue(s) /\ session'[s].step = session[s].step
         /\ session'[s].retried = session[s].retried
<1>1. session'[s] = [session[s] EXCEPT !.pc = pc] /\ Others(s)
  BY DEF Move, SessionShape, Others
<1>2. session'[s] \in SessionState
  BY <1>1 DEF SessionShape, SessionState
<1>3. SessionShape'
  BY <1>2 DEF Move, SessionShape
<1>4. session[s] \in SessionState
  BY DEF SessionShape
<1>5. /\ session'[s].pc = pc /\ session'[s].ch = session[s].ch /\ session'[s].at = session[s].at
      /\ session'[s].step = session[s].step /\ session'[s].retried = session[s].retried
  BY <1>1, <1>4 DEF SessionState
<1>. QED
  BY <1>1, <1>3, <1>5 DEF Held, Queue

LEMMA IdleState ==
  ASSUME NEW pc \in Pcs
  PROVE  [Idle EXCEPT !.pc = pc] \in SessionState
<1>1. Idle \in SessionState
  BY QueuesAreNamed DEF Idle, SessionState, Pcs
<1>. QED
  BY <1>1 DEF SessionState

LEMMA Returns ==
  ASSUME SessionShape, LockShape, NEW s \in Sessions, NEW pc \in Ended, Return(s, pc)
  PROVE  /\ SessionShape' /\ Others(s) /\ session'[s].pc = pc /\ session'[s].ch = None
         /\ session'[s].at = 1 /\ session'[s].step = 1 /\ LockShape' /\ lock'[Producer(s)] = None
         /\ \A p \in Producers \ {Producer(s)} : lock'[p] = lock[p]
<1>1. session'[s] = [Idle EXCEPT !.pc = pc] /\ Others(s) /\ SessionShape'
  <2>1. [Idle EXCEPT !.pc = pc] \in SessionState
    BY IdleState DEF Ended, Pcs
  <2>. QED
    BY <2>1 DEF Return, SessionShape, Others
<1>2. /\ session'[s].pc = pc /\ session'[s].ch = None
      /\ session'[s].at = 1 /\ session'[s].step = 1
  BY <1>1 DEF Idle
<1>. QED
  BY <1>1, <1>2, ProducerType DEF Return, LockShape

LEMMA Fails ==
  ASSUME SessionShape, LockShape, NEW s \in Sessions, Fail(s)
  PROVE  /\ SessionShape' /\ Others(s) /\ session'[s].pc \in {"closing", "failed"}
         /\ session'[s].ch = None /\ LockShape'
         /\ session'[s].pc = "closing" => lock' = lock /\ session'[s].at = session[s].at
         /\ session'[s].pc = "failed" => session'[s].at = 1 /\ (s \in Producers => ~(session[s].at > 1))
         /\ \A p \in Producers \ {Producer(s)} : lock'[p] = lock[p]
<1>1. CASE s \in Producers /\ session[s].at > 1
  <2>1. session'[s] = [session[s] EXCEPT !.pc = "closing", !.ch = None] /\ Others(s) /\ lock' = lock
    BY <1>1 DEF Fail, SessionShape, Others
  <2>2. session[s] \in SessionState
    BY DEF SessionShape
  <2>3. /\ session'[s] \in SessionState /\ session'[s].pc = "closing" /\ session'[s].ch = None
        /\ session'[s].at = session[s].at
    BY <2>1, <2>2 DEF SessionState, Pcs
  <2>4. SessionShape'
    BY <1>1, <2>3 DEF Fail, SessionShape
  <2>. QED
    BY <2>1, <2>3, <2>4 DEF LockShape
<1>2. CASE ~(s \in Producers /\ session[s].at > 1)
  BY <1>2, Returns DEF Fail, Ended
<1>. QED
  BY <1>1, <1>2

(***************************************************************************)
(* What each action does to the session it is of, and to the shapes.       *)
(***************************************************************************)
SameRest(s) ==
  /\ Others(s)
  /\ session'[s].at = session[s].at /\ session'[s].retried = session[s].retried

LEMMA SessionSet ==
  ASSUME SessionShape, NEW s \in Sessions, NEW t \in SessionState,
         session' = [session EXCEPT ![s] = t]
  PROVE  SessionShape' /\ Others(s) /\ session'[s] = t
BY DEF SessionShape, Others

LEMMA Typed == ASSUME SessionShape, NEW s \in Sessions PROVE session[s] \in SessionState
BY DEF SessionShape

LEMMA CachedType ==
  ASSUME Shapes, NEW s \in Sessions
  PROVE  Cached(s) \in Channels \cup {None}
BY QueueType, ProducerType DEF Shapes, WriterShape, Cached

LEMMA RunMoves ==
  ASSUME IInv, NEW p \in Producers, Run(p)
  PROVE  /\ Shapes' /\ Others(p) /\ p \in Sessions
         /\ session[p].pc = "idle" /\ session'[p] = [session[p] EXCEPT !.pc = "locking"]
<1>1. p \in Sessions /\ Move(p, "locking") /\ session[p].pc = "idle"
  BY SessionsAreNamed DEF Run, At
<1>2. SessionShape' /\ Others(p)
  BY <1>1, Moves DEF IInv, Shapes, Pcs
<1>3. session'[p] = [session[p] EXCEPT !.pc = "locking"]
  BY <1>1 DEF Move, IInv, Shapes, SessionShape
<1>. QED
  BY <1>1, <1>2, <1>3 DEF Run, netVars, IInv, Shapes, NetShape, ChannelShape, LockShape, WriterShape

LEMMA PublishDispatchMoves ==
  ASSUME IInv, NEW s \in Publishers, PublishDispatch(s)
  PROVE  /\ Shapes' /\ Others(s) /\ s \in Sessions
         /\ session[s].pc = "idle"
         /\ \E i \in 1..Len(Queues) : session'[s] = [session[s] EXCEPT !.pc = "locking", !.at = i]
<1>1. s \in Sessions /\ session[s].pc = "idle"
  BY SessionsAreNamed DEF PublishDispatch, At
<1>2. PICK i \in 1..Len(Queues) : session' = [session EXCEPT ![s].pc = "locking", ![s].at = i]
  BY DEF PublishDispatch
<1>3. session'[s] = [session[s] EXCEPT !.pc = "locking", !.at = i] /\ Others(s)
  BY <1>1, <1>2 DEF IInv, Shapes, SessionShape, Others
<1>4. session[s] \in SessionState
  BY <1>1, Typed DEF IInv, Shapes
<1>5. session'[s] \in SessionState
  BY <1>3, <1>4 DEF SessionState, Pcs
<1>6. SessionShape'
  BY <1>2, <1>5 DEF IInv, Shapes, SessionShape
<1>. QED
  BY <1>1, <1>3, <1>6 DEF PublishDispatch, netVars, IInv, Shapes, NetShape, ChannelShape, LockShape, WriterShape

(* Close is not reached: who would call it holds the mutex it needs.       *)
LEMMA LockMoves ==
  ASSUME IInv, NEW s \in Sessions, Lock(s)
  PROVE  /\ Shapes' /\ Others(s)
         /\ session[s].pc = "locking" /\ lock[Producer(s)] = None
         /\ lock' = [lock EXCEPT ![Producer(s)] = s]
         /\ UNCHANGED <<channel, writer, netVars, brokerVars>>
         /\ \/ /\ s \in Publishers /\ Cached(s) # None
               /\ session'[s] = [session[s] EXCEPT !.pc = "declare", !.ch = Cached(s)]
            \/ /\ ~(s \in Publishers /\ Cached(s) # None)
               /\ session'[s] = [session[s] EXCEPT !.pc = "open"]
<1>1. session[s].pc = "locking" /\ Begin(s)
  <2>1. session[s].pc # "closing"
    BY SessionsAreNamed DEF Lock, IInv, SessionsOwn, Working
  <2>. QED
    BY <2>1 DEF Lock, At
<1>2. session[s] \in SessionState
  BY Typed DEF IInv, Shapes
<1>3. Cached(s) \in Channels \cup {None}
  BY CachedType DEF IInv
<1>4. /\ \/ /\ s \in Publishers /\ Cached(s) # None
            /\ session'[s] = [session[s] EXCEPT !.pc = "declare", !.ch = Cached(s)]
         \/ /\ ~(s \in Publishers /\ Cached(s) # None)
            /\ session'[s] = [session[s] EXCEPT !.pc = "open"]
      /\ Others(s)
  BY <1>1 DEF Begin, Others, IInv, Shapes, SessionShape
<1>5. session'[s] \in SessionState
  BY <1>2, <1>3, <1>4 DEF SessionState, Pcs
<1>6. SessionShape'
  BY <1>1, <1>5 DEF Begin, IInv, Shapes, SessionShape
<1>7. LockShape'
  BY <1>1 DEF Begin, IInv, Shapes, LockShape
<1>8. NetShape' /\ ChannelShape' /\ WriterShape'
  BY <1>1 DEF Lock, Begin, netVars, IInv, Shapes, NetShape, ChannelShape, WriterShape
<1>. QED
  BY <1>1, <1>4, <1>6, <1>7, <1>8 DEF Lock, Begin, Shapes

LEMMA OpenMoves ==
  ASSUME IInv, NEW s \in Sessions, Open(s)
  PROVE  /\ Shapes' /\ Others(s) /\ session[s].pc = "open" /\ connected
         /\ \E c \in Channels :
              /\ channel[c] = "free" /\ channel' = [channel EXCEPT ![c] = "open"]
              /\ session'[s] = [session[s] EXCEPT !.pc = "declare", !.ch = c, !.step = 1]
         /\ UNCHANGED <<netVars, brokerVars, faults, lock, writer>>
<1>. DEFINE c == CHOOSE ch \in FreeChannels : TRUE
<1>1. c \in Channels /\ channel[c] = "free"
  BY DEF Open, Opened, FreeChannels
<1>2. session' = [session EXCEPT ![s].pc = "declare", ![s].ch = c, ![s].step = 1]
  BY DEF Open, Opened
<1>. HIDE DEF c
<1>3. session'[s] = [session[s] EXCEPT !.pc = "declare", !.ch = c, !.step = 1] /\ Others(s)
  BY <1>2 DEF Others, IInv, Shapes, SessionShape
<1>4. session[s] \in SessionState
  BY Typed DEF IInv, Shapes
<1>5. session'[s] \in SessionState
  <2>1. 1 \in 1..3 /\ "declare" \in Pcs
    BY DEF Pcs
  <2>. QED
    BY <1>1, <1>3, <1>4, <2>1 DEF SessionState
<1>6. SessionShape'
  BY <1>2, <1>5 DEF IInv, Shapes, SessionShape
<1>7. channel' = [channel EXCEPT ![c] = "open"]
  BY DEF Open, Opened, c
<1>8. ChannelShape'
  BY <1>7 DEF IInv, Shapes, ChannelShape
<1>9. NetShape' /\ LockShape' /\ WriterShape'
  BY DEF Open, Opened, netVars, IInv, Shapes, NetShape, LockShape, WriterShape
<1>. QED
  BY <1>1, <1>3, <1>6, <1>7, <1>8, <1>9 DEF Open, Opened, At, Shapes

LEMMA Faulty == ASSUME NetShape, NoFault \/ Fault PROVE faults' \in 0..MaxFaults
BY Bounds DEF NetShape, NoFault, Fault

LEMMA OpenFailsMoves ==
  ASSUME IInv, NEW s \in Sessions, OpenFails(s)
  PROVE  Shapes' /\ session[s].pc = "open" /\ Fail(s) /\ UNCHANGED <<netVars, brokerVars, channel, writer>>
<1>1. SessionShape' /\ LockShape'
  BY Fails DEF OpenFails, IInv, Shapes
<1>2. faults' \in 0..MaxFaults
  BY Faulty DEF OpenFails, IInv, Shapes
<1>3. NetShape'
  BY <1>2 DEF OpenFails, netVars, IInv, Shapes, NetShape
<1>. QED
  BY <1>1, <1>3 DEF OpenFails, At, IInv, Shapes, ChannelShape, WriterShape

(* Declare: another item, a publisher's last item, Run's last item of a    *)
(* queue, Run's last queue.                                                *)
LEMMA DeclareMoves ==
  ASSUME IInv, NEW s \in Sessions, Declare(s)
  PROVE  /\ Shapes' /\ Others(s) /\ session[s].pc = "declare" /\ channel[Held(s)] = "open"
         /\ UNCHANGED <<netVars, stored, dropped, faults, channel>>
         /\ \/ /\ session[s].step < Len(Topology(Producer(s)))
               /\ session'[s] = [session[s] EXCEPT !.step = @ + 1]
               /\ UNCHANGED <<writer, lock>>
            \/ /\ session[s].step = Len(Topology(Producer(s))) /\ SetWriter(s, Held(s))
               /\ \/ /\ s \in Publishers /\ UNCHANGED lock
                     /\ session'[s] = [session[s] EXCEPT !.pc = "publish"]
                  \/ /\ s \in Producers /\ LastQueue(s) /\ Return(s, "done")
                     /\ session'[s].pc = "done" /\ session'[s].ch = None
                  \/ /\ s \in Producers /\ ~LastQueue(s) /\ UNCHANGED lock
                     /\ session'[s].pc = "open" /\ session'[s].ch = None
                     /\ session'[s].at = session[s].at + 1
<1>. USE DEF IInv, Shapes
<1>1. session[s] \in SessionState /\ session[s].pc = "declare" /\ channel[Held(s)] = "open"
  BY Typed DEF Declare, At
<1>2. Held(s) \in Channels \cup {None} /\ Len(Topology(Producer(s))) \in {2, 3}
  BY <1>1, TopologyType, ProducerType DEF Held, SessionState
<1>3. NetShape' /\ ChannelShape' /\ UNCHANGED <<netVars, stored, dropped, faults, channel>>
  BY DEF Declare, netVars, NetShape, ChannelShape
<1>4. CASE /\ session[s].step < Len(Topology(Producer(s)))
           /\ session' = [session EXCEPT ![s].step = @ + 1]
           /\ UNCHANGED <<writer, lock>>
  <2>1. session'[s] = [session[s] EXCEPT !.step = @ + 1] /\ Others(s)
    BY <1>4 DEF SessionShape, Others
  <2>2. session[s].step + 1 \in 1..3
    <3>1. session[s].step \in 1..3
      BY <1>1 DEF SessionState
    <3>. DEFINE n == Len(Topology(Producer(s)))
                i == session[s].step
    <3>2. n = 2 \/ n = 3
      BY <1>2
    <3>3. i < n
      BY <1>4
    <3>. HIDE DEF n, i
    <3>4. i + 1 \in 1..3
      BY <3>1, <3>2, <3>3 DEF i
    <3>. QED
      BY <3>4 DEF i
  <2>3. session'[s] \in SessionState
    BY <1>1, <2>1, <2>2 DEF SessionState
  <2>4. SessionShape'
    BY <1>4, <2>3 DEF SessionShape
  <2>. QED
    BY <1>1, <1>3, <1>4, <2>1, <2>4 DEF WriterShape, LockShape
<1>5. CASE session[s].step = Len(Topology(Producer(s))) /\ SetWriter(s, Held(s))
  <2>1. WriterShape'
    BY <1>2, <1>5, ProducerType, QueueType DEF SetWriter, WriterShape
  <2>2. CASE s \in Publishers /\ Move(s, "publish") /\ UNCHANGED lock
    <3>1. SessionShape' /\ Others(s)
      BY <2>2, Moves DEF Pcs
    <3>2. session'[s] = [session[s] EXCEPT !.pc = "publish"]
      BY <2>2 DEF Move, SessionShape
    <3>. QED
      BY <1>1, <1>3, <1>5, <2>1, <2>2, <3>1, <3>2 DEF LockShape
  <2>3. CASE s \in Producers /\ LastQueue(s) /\ Return(s, "done")
    BY <1>1, <1>3, <1>5, <2>1, <2>3, Returns DEF Ended
  <2>4. CASE /\ s \in Producers /\ ~LastQueue(s) /\ UNCHANGED lock
             /\ session' = [session EXCEPT ![s] =
                              [Idle EXCEPT !.pc = "open", !.at = session[s].at + 1]]
    <3>1. session'[s] = [Idle EXCEPT !.pc = "open", !.at = session[s].at + 1] /\ Others(s)
      BY <2>4 DEF SessionShape, Others
    <3>2. session[s].at + 1 \in 1..Len(Queues)
      BY <1>1, <2>4, QueuesAreNamed DEF SessionState, LastQueue
    <3>3. Idle \in SessionState /\ Idle.ch = None
      BY QueuesAreNamed DEF Idle, SessionState, Pcs
    <3>4. session'[s] \in SessionState
      BY <3>1, <3>2, <3>3 DEF SessionState, Pcs
    <3>5. SessionShape'
      BY <2>4, <3>4 DEF SessionShape
    <3>6. session'[s].pc = "open" /\ session'[s].ch = None /\ session'[s].at = session[s].at + 1
      BY <3>1, <3>3 DEF SessionState
    <3>. QED
      BY <1>1, <1>3, <1>5, <2>1, <2>4, <3>1, <3>5, <3>6 DEF LockShape
  <2>5. s \in Publishers \/ s \in Producers
    BY DEF Sessions
  <2>6. s \in Publishers => s \notin Producers
    BY SessionsAreNamed
  <2>. QED
    BY <1>1, <1>2, <1>5, <2>2, <2>3, <2>4, <2>5, <2>6 DEF Declare, SessionState
<1>. QED
  BY <1>4, <1>5 DEF Declare

LEMMA DeclareFailsMoves ==
  ASSUME IInv, NEW s \in Sessions, DeclareFails(s)
  PROVE  /\ Shapes' /\ session[s].pc = "declare" /\ Held(s) \in Channels
         /\ channel' = [channel EXCEPT ![Held(s)] = "free"] /\ UNCHANGED <<netVars, brokerVars>>
         /\ \/ /\ Cached(s) = Held(s) /\ Others(s) /\ SetWriter(s, None) /\ UNCHANGED lock
               /\ session'[s] = [session[s] EXCEPT !.pc = "open", !.ch = None]
            \/ Cached(s) # Held(s) /\ Fail(s) /\ UNCHANGED writer
<1>. USE DEF IInv, Shapes
<1>1. session[s] \in SessionState /\ session[s].pc = "declare" /\ Held(s) \in Channels
  BY Typed DEF DeclareFails, At, SessionsOwn, SessionState, Held
<1>2. faults' \in 0..MaxFaults
  BY Faulty DEF DeclareFails
<1>3. NetShape'
  BY <1>2 DEF DeclareFails, netVars, NetShape
<1>4. ChannelShape' /\ channel' = [channel EXCEPT ![Held(s)] = "free"]
  BY DEF DeclareFails, CloseChannel, ChannelShape
<1>5. CASE Cached(s) = Held(s)
  <2>1. /\ SetWriter(s, None) /\ UNCHANGED lock
        /\ session' = [session EXCEPT ![s].pc = "open", ![s].ch = None]
    BY <1>5 DEF DeclareFails
  <2>2. session'[s] = [session[s] EXCEPT !.pc = "open", !.ch = None] /\ Others(s)
    BY <2>1 DEF SessionShape, Others
  <2>3. session'[s] \in SessionState
    BY <1>1, <2>2 DEF SessionState, Pcs
  <2>4. SessionShape'
    BY <2>1, <2>3 DEF SessionShape
  <2>5. WriterShape'
    BY <2>1, ProducerType, QueueType DEF SetWriter, WriterShape
  <2>. QED
    BY <1>1, <1>3, <1>4, <1>5, <2>1, <2>2, <2>4, <2>5 DEF DeclareFails, LockShape
<1>6. CASE Cached(s) # Held(s)
  <2>1. SessionShape' /\ LockShape'
    BY <1>6, Fails DEF DeclareFails
  <2>. QED
    BY <1>1, <1>3, <1>4, <1>6, <2>1 DEF DeclareFails, WriterShape
<1>. QED
  BY <1>5, <1>6

LEMMA PublishMoves ==
  ASSUME IInv, NEW s \in Sessions, Publish(s)
  PROVE  /\ Shapes' /\ Others(s) /\ session[s].pc = "publish" /\ Return(s, "done")
         /\ session'[s].pc = "done" /\ session'[s].ch = None
         /\ UNCHANGED <<netVars, topology, plain, channel, writer>>
<1>. USE DEF IInv, Shapes
<1>1. faults' \in 0..MaxFaults
  BY Faulty DEF Publish
<1>2. NetShape' /\ ChannelShape' /\ WriterShape'
  BY <1>1 DEF Publish, netVars, NetShape, ChannelShape, WriterShape
<1>. QED
  BY <1>2, Returns DEF Publish, At, Ended

LEMMA PublishFailsMoves ==
  ASSUME IInv, NEW s \in Sessions, PublishFails(s)
  PROVE  /\ Shapes' /\ Others(s) /\ session[s].pc = "publish" /\ Held(s) \in Channels
         /\ UNCHANGED <<netVars, topology, plain, dropped>>
         /\ \/ /\ ~session[s].retried /\ SetWriter(s, None) /\ UNCHANGED lock
               /\ channel' = [channel EXCEPT ![Held(s)] = "free"]
               /\ session'[s] = [session[s] EXCEPT !.pc = "open", !.ch = None, !.retried = TRUE]
            \/ /\ session[s].retried /\ Return(s, "failed") /\ UNCHANGED <<channel, writer>>
               /\ session'[s].pc = "failed" /\ session'[s].ch = None
<1>. USE DEF IInv, Shapes
<1>1. session[s] \in SessionState /\ session[s].pc = "publish" /\ Held(s) \in Channels
  BY Typed DEF PublishFails, At, SessionsOwn, SessionState, Held
<1>2. faults' \in 0..MaxFaults
  BY Faulty DEF PublishFails
<1>3. NetShape'
  BY <1>2 DEF PublishFails, netVars, NetShape
<1>4. CASE /\ ~session[s].retried /\ CloseChannel(s) /\ SetWriter(s, None) /\ UNCHANGED lock
           /\ session' = [session EXCEPT ![s].pc = "open", ![s].ch = None, ![s].retried = TRUE]
  <2>1. session'[s] = [session[s] EXCEPT !.pc = "open", !.ch = None, !.retried = TRUE] /\ Others(s)
    BY <1>4 DEF SessionShape, Others
  <2>2. session'[s] \in SessionState
    BY <1>1, <2>1 DEF SessionState, Pcs
  <2>3. SessionShape'
    BY <1>4, <2>2 DEF SessionShape
  <2>4. WriterShape'
    BY <1>4, ProducerType, QueueType DEF SetWriter, WriterShape
  <2>5. ChannelShape' /\ channel' = [channel EXCEPT ![Held(s)] = "free"]
    BY <1>4 DEF CloseChannel, ChannelShape
  <2>. QED
    BY <1>1, <1>3, <1>4, <2>1, <2>3, <2>4, <2>5 DEF PublishFails, LockShape
<1>5. CASE session[s].retried /\ Return(s, "failed") /\ UNCHANGED <<channel, writer>>
  BY <1>1, <1>3, <1>5, Returns DEF PublishFails, Ended, ChannelShape, WriterShape
<1>. QED
  BY <1>4, <1>5 DEF PublishFails

LEMMA ConnectionLostMoves ==
  ASSUME IInv, ConnectionLost
  PROVE  Shapes' /\ UNCHANGED <<emptied, brokerVars, faults, lock, writer, session>>
<1>. USE DEF IInv, Shapes
<1>1. outages' \in 0..MaxOutages
  BY Bounds DEF ConnectionLost, NetShape
<1>2. NetShape'
  BY <1>1 DEF ConnectionLost, NetShape
<1>3. ChannelShape'
  BY DEF ConnectionLost, ChannelShape
<1>. QED
  BY <1>2, <1>3 DEF ConnectionLost, LockShape, WriterShape, SessionShape

LEMMA ReconnectMoves ==
  ASSUME IInv, Reconnect
  PROVE  /\ Shapes' /\ UNCHANGED <<outages, stored, dropped, faults, channel, lock, writer, session>>
         /\ \/ UNCHANGED <<emptied, topology, plain>>
            \/ emptied' /\ topology' = {} /\ plain' = {}
BY DEF Reconnect, IInv, Shapes, NetShape, ChannelShape, LockShape, WriterShape, SessionShape

LEMMA Stutters ==
  ASSUME IInv, UNCHANGED vars
  PROVE  Shapes'
BY DEF vars, netVars, IInv, Shapes, NetShape, ChannelShape, LockShape, WriterShape, SessionShape

(***************************************************************************)
(* The mutex: while one session works, no other works on its producer.     *)
(***************************************************************************)
LEMMA Alone ==
  ASSUME SessionsOwn, NEW s \in Sessions, session[s].pc \in Working,
         NEW v \in Sessions \ {s}, session[v].pc \in Working
  PROVE  Producer(v) # Producer(s)
BY DEF SessionsOwn

LEMMA OthersKeep ==
  ASSUME NEW s \in Sessions, Others(s), NEW v \in Sessions \ {s}
  PROVE  session'[v] = session[v] /\ Held(v)' = Held(v) /\ Queue(v)' = Queue(v)
BY DEF Others, Held, Queue

(* A session that does not work may be moved, its mutex be taken, ...      *)
Owns(s) ==
  /\ session[s].pc \in Working => lock[Producer(s)] = s
  /\ session[s].pc \in {"declare", "publish"} <=> Held(s) # None
  /\ session[s].pc = "declare" => session[s].step <= Len(Topology(Producer(s)))
  /\ session[s].pc = "publish" => Cached(s) = Held(s)
  /\ session[s].pc = "publish" => s \in Publishers
  /\ session[s].pc \in {"idle", "locking"} => session[s].step = 1 /\ ~session[s].retried

LEMMA OwnsAll == SessionsOwn <=> \A s \in Sessions : Owns(s)
BY DEF SessionsOwn, Owns

(* The others own what they own as long as a session changes the mutex and *)
(* the writers of its producer only, and either works or finds it free.    *)
LEMMA OthersOwn ==
  ASSUME IInv, NEW s \in Sessions, Others(s),
         session[s].pc \in Working \/ lock[Producer(s)] = None \/ UNCHANGED <<lock, writer>>,
         \A p \in Producers \ {Producer(s)} : lock'[p] = lock[p] /\ writer'[p] = writer[p],
         NEW v \in Sessions \ {s}
  PROVE  Owns(v)'
<1>1. /\ session'[v] = session[v] /\ Held(v)' = Held(v) /\ Queue(v)' = Queue(v)
      /\ Producer(v) \in Producers /\ Owns(v)
  BY OthersKeep, OwnsAll, ProducerType DEF IInv
<1>2. CASE session[v].pc \in Working
  <2>1. UNCHANGED <<lock, writer>> \/ Producer(v) # Producer(s)
    BY <1>1, <1>2, Alone, SessionsAreNamed DEF IInv, Owns
  <2>2. lock'[Producer(v)] = lock[Producer(v)] /\ writer'[Producer(v)] = writer[Producer(v)]
    BY <1>1, <2>1
  <2>3. Cached(v)' = Cached(v)
    BY <1>1, <2>2 DEF Cached
  <2>. QED
    BY <1>1, <2>2, <2>3 DEF Owns
<1>3. CASE session[v].pc \notin Working
  BY <1>1, <1>3 DEF Owns, Working
<1>. QED
  BY <1>2, <1>3

LEMMA OwnStep == IInv /\ [Next]_vars => SessionsOwn'
<1>. SUFFICES ASSUME IInv, [Next]_vars PROVE SessionsOwn'
  OBVIOUS
<1>. USE SessionsAreNamed, ProducerType
<1>0. ASSUME NEW s \in Sessions, Others(s), Owns(s)',
             session[s].pc \in Working \/ lock[Producer(s)] = None \/ UNCHANGED <<lock, writer>>,
             \A p \in Producers \ {Producer(s)} : lock'[p] = lock[p] /\ writer'[p] = writer[p]
      PROVE  SessionsOwn'
  <2>1. \A v \in Sessions \ {s} : Owns(v)'
    BY <1>0, OthersOwn
  <2>. QED
    BY <1>0, <2>1 DEF SessionsOwn, Owns
<1>00. \A s \in Sessions : Owns(s) /\ session[s] \in SessionState
  BY OwnsAll, Typed DEF IInv, Shapes
<1>1. ASSUME NEW p \in Producers, Run(p) PROVE SessionsOwn'
  <2>1. Owns(p)'
    <3>1. /\ session'[p].pc = "locking" /\ session[p].pc = "idle" /\ session'[p].ch = session[p].ch
          /\ session'[p].step = session[p].step /\ session'[p].retried = session[p].retried
      <4>1. p \in Sessions /\ session[p].pc = "idle" /\ session'[p] = [session[p] EXCEPT !.pc = "locking"]
        BY <1>1, RunMoves
      <4>2. session[p] \in SessionState
        BY <1>00
      <4>. QED
        BY <4>1, <4>2 DEF SessionState
    <3>. QED
      BY <1>00, <3>1 DEF Owns, Working, Held
  <2>2. Others(p) /\ UNCHANGED <<lock, writer>>
    BY <1>1, RunMoves DEF Run
  <2>. QED
    BY <1>0, <2>1, <2>2
<1>2. ASSUME NEW s \in Publishers, PublishDispatch(s) PROVE SessionsOwn'
  <2>1. Owns(s)'
    <3>1. /\ session'[s].pc = "locking" /\ session[s].pc = "idle" /\ session'[s].ch = session[s].ch
          /\ session'[s].step = session[s].step /\ session'[s].retried = session[s].retried
      <4>1. PICK i \in 1..Len(Queues) : session'[s] = [session[s] EXCEPT !.pc = "locking", !.at = i]
        BY <1>2, PublishDispatchMoves
      <4>2. session[s].pc = "idle"
        BY <1>2, PublishDispatchMoves
      <4>3. session[s] \in SessionState
        BY <1>00
      <4>. QED
        BY <4>1, <4>2, <4>3 DEF SessionState
    <3>. QED
      BY <1>00, <3>1 DEF Owns, Working, Held
  <2>2. Others(s) /\ UNCHANGED <<lock, writer>>
    BY <1>2, PublishDispatchMoves DEF PublishDispatch
  <2>. QED
    BY <1>0, <2>1, <2>2
<1>3. ASSUME NEW s \in Sessions, Lock(s) PROVE SessionsOwn'
  <2>1. lock'[Producer(s)] = s /\ \A p \in Producers \ {Producer(s)} : lock'[p] = lock[p]
    <3>1. lock' = [lock EXCEPT ![Producer(s)] = s] /\ LockShape /\ Producer(s) \in Producers
      BY <1>3, LockMoves DEF IInv, Shapes
    <3>. QED
      BY <3>1 DEF LockShape
  <2>2. 1 <= Len(Topology(Producer(s)))
    BY TopologyType
  <2>3. Cached(s) \in Channels \cup {None}
    BY CachedType DEF IInv
  <2>4. Owns(s)'
    <3>1. /\ session[s].pc = "locking" /\ session'[s].step = session[s].step
          /\ \/ session'[s].pc = "declare" /\ session'[s].ch = Cached(s) /\ Cached(s) # None
             \/ session'[s].pc = "open" /\ session'[s].ch = session[s].ch
      <4>1. /\ session[s].pc = "locking"
            /\ \/ /\ Cached(s) # None
                  /\ session'[s] = [session[s] EXCEPT !.pc = "declare", !.ch = Cached(s)]
               \/ session'[s] = [session[s] EXCEPT !.pc = "open"]
        BY <1>3, LockMoves
      <4>2. session[s] \in SessionState
        BY <1>00
      <4>. QED
        BY <4>1, <4>2 DEF SessionState
    <3>. QED
      BY <1>00, <2>1, <2>2, <2>3, <3>1 DEF Owns, Working, Held
  <2>. QED
    BY <1>0, <1>3, <2>1, <2>4, LockMoves
<1>4. ASSUME NEW s \in Sessions, Open(s) PROVE SessionsOwn'
  <2>1. 1 <= Len(Topology(Producer(s)))
    BY TopologyType
  <2>2. Owns(s)' /\ session[s].pc \in Working
    <3>1. /\ session[s].pc = "open" /\ session'[s].step = 1
          /\ session'[s].pc = "declare" /\ session'[s].ch \in Channels /\ lock' = lock
      <4>1. PICK c \in Channels :
              session'[s] = [session[s] EXCEPT !.pc = "declare", !.ch = c, !.step = 1]
        BY <1>4, OpenMoves
      <4>2. session[s] \in SessionState
        BY <1>00
      <4>3. session[s].pc = "open" /\ lock' = lock
        BY <1>4, OpenMoves
      <4>. QED
        BY <4>1, <4>2, <4>3 DEF SessionState
    <3>. QED
      BY <1>00, <2>1, <3>1 DEF Owns, Working, Held
  <2>. QED
    BY <1>0, <1>4, <2>2, OpenMoves
<1>5. ASSUME NEW s \in Sessions, Fail(s), session[s].pc \in Working
      PROVE  Owns(s)' /\ Others(s) /\ \A p \in Producers \ {Producer(s)} : lock'[p] = lock[p]
  BY <1>00, <1>5, Fails DEF IInv, Shapes, Owns, Working, Held
<1>6. ASSUME NEW s \in Sessions, OpenFails(s) PROVE SessionsOwn'
  BY <1>0, <1>5, <1>6, OpenFailsMoves DEF Working
<1>7. ASSUME NEW s \in Sessions, Declare(s) PROVE SessionsOwn'
  <2>1. session[s].pc \in Working /\ Others(s) /\ Held(s) \in Channels
    BY <1>00, <1>7, DeclareMoves DEF Working, Owns, Held, SessionState
  <2>2. CASE /\ session[s].step < Len(Topology(Producer(s)))
             /\ session'[s] = [session[s] EXCEPT !.step = @ + 1]
             /\ UNCHANGED <<writer, lock>>
    <3>1. Owns(s)'
      <4>1. /\ session'[s].pc = "declare" /\ session'[s].ch = session[s].ch
            /\ session'[s].step = session[s].step + 1 /\ session[s].pc = "declare"
        BY <1>00, <1>7, <2>2, DeclareMoves DEF SessionState
      <4>2. session[s].step + 1 <= Len(Topology(Producer(s)))
        <5>1. session[s].step \in 1..3
          BY <1>00 DEF SessionState
        <5>. DEFINE n == Len(Topology(Producer(s)))
                    i == session[s].step
        <5>2. n = 2 \/ n = 3
          BY TopologyType
        <5>3. i < n
          BY <2>2
        <5>. HIDE DEF n, i
        <5>4. i + 1 <= n
          BY <5>1, <5>2, <5>3 DEF i
        <5>. QED
          BY <5>4 DEF n, i
      <4>. QED
        BY <1>00, <2>2, <4>1, <4>2 DEF Owns, Working, Held
    <3>. QED
      BY <1>0, <2>1, <2>2, <3>1
  <2>3. CASE SetWriter(s, Held(s))
    <3>1. \A p \in Producers \ {Producer(s)} : writer'[p] = writer[p]
      BY <2>3 DEF SetWriter, IInv, Shapes, WriterShape
    <3>2. writer'[Producer(s)][Queue(s)] = Held(s)
      BY <2>3, QueueType DEF SetWriter, IInv, Shapes, WriterShape
    <3>3. CASE /\ s \in Publishers /\ UNCHANGED lock
               /\ session'[s] = [session[s] EXCEPT !.pc = "publish"]
      <4>1. Queue(s)' = Queue(s) /\ Held(s)' = Held(s) /\ session'[s].pc = "publish"
        BY <1>00, <3>3 DEF Queue, Held, SessionState
      <4>2. Owns(s)'
        BY <1>00, <2>1, <3>2, <3>3, <4>1 DEF Owns, Working, Cached
      <4>. QED
        BY <1>0, <2>1, <3>1, <3>3, <4>2
    <3>4. CASE Return(s, "done") /\ session'[s].pc = "done" /\ session'[s].ch = None
      <4>1. \A p \in Producers \ {Producer(s)} : lock'[p] = lock[p]
        BY <3>4 DEF Return, IInv, Shapes, LockShape
      <4>2. Owns(s)'
        BY <3>4 DEF Owns, Working, Held
      <4>. QED
        BY <1>0, <2>1, <3>1, <4>1, <4>2
    <3>5. CASE UNCHANGED lock /\ session'[s].pc = "open" /\ session'[s].ch = None
      <4>1. Owns(s)'
        BY <1>00, <2>1, <3>5 DEF Owns, Working, Held
      <4>. QED
        BY <1>0, <2>1, <3>1, <3>5, <4>1
    <3>. QED
      BY <1>7, <2>3, <2>2, <3>3, <3>4, <3>5, DeclareMoves
  <2>. QED
    BY <1>7, <2>2, <2>3, DeclareMoves
<1>8. ASSUME NEW s \in Sessions, DeclareFails(s) PROVE SessionsOwn'
  <2>1. session[s].pc \in Working
    BY <1>8, DeclareFailsMoves DEF Working
  <2>2. CASE /\ Cached(s) = Held(s) /\ Others(s) /\ SetWriter(s, None) /\ UNCHANGED lock
             /\ session'[s] = [session[s] EXCEPT !.pc = "open", !.ch = None]
    <3>1. Owns(s)'
      BY <1>00, <2>1, <2>2 DEF Owns, Working, Held, SessionState
    <3>2. \A p \in Producers \ {Producer(s)} : writer'[p] = writer[p]
      BY <2>2 DEF SetWriter, IInv, Shapes, WriterShape
    <3>. QED
      BY <1>0, <2>1, <2>2, <3>1, <3>2
  <2>3. CASE Fail(s) /\ UNCHANGED writer
    BY <1>0, <1>5, <2>1, <2>3
  <2>. QED
    BY <1>8, <2>2, <2>3, DeclareFailsMoves
<1>9. ASSUME NEW s \in Sessions, Publish(s) PROVE SessionsOwn'
  <2>1. \A p \in Producers \ {Producer(s)} : lock'[p] = lock[p]
    BY <1>9, PublishMoves DEF Return, IInv, Shapes, LockShape
  <2>2. Owns(s)' /\ session[s].pc \in Working
    BY <1>9, PublishMoves DEF Owns, Working, Held
  <2>. QED
    BY <1>0, <1>9, <2>1, <2>2, PublishMoves
<1>10. ASSUME NEW s \in Sessions, PublishFails(s) PROVE SessionsOwn'
  <2>1. session[s].pc \in Working /\ Others(s)
    BY <1>10, PublishFailsMoves DEF Working
  <2>2. CASE /\ SetWriter(s, None) /\ UNCHANGED lock
             /\ session'[s] = [session[s] EXCEPT !.pc = "open", !.ch = None, !.retried = TRUE]
    <3>1. Owns(s)'
      BY <1>00, <2>1, <2>2 DEF Owns, Working, Held, SessionState
    <3>2. \A p \in Producers \ {Producer(s)} : writer'[p] = writer[p]
      BY <2>2 DEF SetWriter, IInv, Shapes, WriterShape
    <3>. QED
      BY <1>0, <2>1, <2>2, <3>1, <3>2
  <2>3. CASE Return(s, "failed") /\ UNCHANGED writer /\ session'[s].pc = "failed" /\ session'[s].ch = None
    <3>1. \A p \in Producers \ {Producer(s)} : lock'[p] = lock[p]
      BY <2>3 DEF Return, IInv, Shapes, LockShape
    <3>2. Owns(s)'
      BY <2>3 DEF Owns, Working, Held
    <3>. QED
      BY <1>0, <2>1, <2>3, <3>1, <3>2
  <2>. QED
    BY <1>10, <2>2, <2>3, PublishFailsMoves
<1>11. ASSUME UNCHANGED <<lock, writer, session>> PROVE SessionsOwn'
  BY <1>11 DEF IInv, SessionsOwn, Held, Cached, Queue
<1>. QED
  BY <1>1, <1>2, <1>3, <1>4, <1>6, <1>7, <1>8, <1>9, <1>10, <1>11, ConnectionLostMoves, ReconnectMoves
  DEF Next, BrokerCall, vars

(***************************************************************************)
(* The places of the channels.                                             *)
(***************************************************************************)
Sole(s) == \A v \in Sessions \ {s} : Held(v) # None => Producer(v) # Producer(s)

LEMMA SoleSession ==
  ASSUME IInv, NEW s \in Sessions, session[s].pc \in Working \/ lock[Producer(s)] = None
  PROVE  Sole(s)
<1>. SUFFICES ASSUME NEW v \in Sessions \ {s}, Held(v) # None, Producer(v) = Producer(s)
              PROVE  FALSE
  BY DEF Sole
<1>1. lock[Producer(v)] = v
  BY DEF IInv, SessionsOwn, Working
<1>2. session[s].pc \in Working => lock[Producer(s)] = s
  BY DEF IInv, SessionsOwn
<1>. QED
  BY <1>1, <1>2, SessionsAreNamed

(* What the place at which a session works holds now, ...                  *)
LEMMA UsesNow ==
  ASSUME NEW s \in Sessions, Sole(s), NEW c \in Channels
  PROVE  Uses(Producer(s), Queue(s), c) <=> c \in {Cached(s), Held(s)}
<1>1. \A v \in Sessions : Held(v) = c /\ Producer(v) = Producer(s) => v = s
  BY SessionsAreNamed DEF Sole
<1>. QED
  BY <1>1 DEF Uses, Cached

(* ... and after a step that changes no other place.                       *)
ElsewhereSame(s) ==
  /\ \A p \in Producers : \A q \in QueueNames :
       p # Producer(s) \/ q # Queue(s) => writer'[p][q] = writer[p][q]
  /\ Held(s)' # None => Queue(s)' = Queue(s)

LEMMA UsesThen ==
  ASSUME NEW s \in Sessions, Sole(s), Others(s), ElsewhereSame(s), NEW c \in Channels,
         NEW p \in Producers, NEW q \in QueueNames
  PROVE  /\ p = Producer(s) /\ q = Queue(s) =>
              (Uses(p, q, c)' <=> c \in {writer'[p][q], Held(s)'})
         /\ p # Producer(s) \/ q # Queue(s) => (Uses(p, q, c)' <=> Uses(p, q, c))
<1>1. \A v \in Sessions \ {s} : Held(v)' = Held(v) /\ Queue(v)' = Queue(v)
  BY OthersKeep
<1>2. Uses(p, q, c)' <=> \/ writer'[p][q] = c
                        \/ \E v \in Sessions : Held(v)' = c /\ Producer(v) = p /\ Queue(v)' = q
  BY DEF Uses, Producer
<1>3. ASSUME p = Producer(s), q = Queue(s)
      PROVE  Uses(p, q, c)' <=> c \in {writer'[p][q], Held(s)'}
  <2>1. \A v \in Sessions : Held(v)' = c /\ Producer(v) = p => v = s
    BY <1>1, <1>3, SessionsAreNamed DEF Sole
  <2>2. Held(s)' = c => Queue(s)' = q
    BY <1>3, SessionsAreNamed DEF ElsewhereSame
  <2>. QED
    BY <1>2, <1>3, <2>1, <2>2
<1>4. ASSUME p # Producer(s) \/ q # Queue(s)
      PROVE  Uses(p, q, c)' <=> Uses(p, q, c)
  <2>1. writer'[p][q] = writer[p][q]
    BY <1>4 DEF ElsewhereSame
  <2>2. ~(Held(s)' = c /\ Producer(s) = p /\ Queue(s)' = q)
    BY <1>4, SessionsAreNamed DEF ElsewhereSame
  <2>3. ASSUME NEW v \in Sessions
        PROVE  Held(v)' = c /\ Producer(v) = p /\ Queue(v)' = q
               <=> v # s /\ Held(v) = c /\ Producer(v) = p /\ Queue(v) = q
    BY <1>1, <2>2
  <2>4. ~(Held(s) = c /\ Producer(s) = p /\ Queue(s) = q)
    BY <1>4
  <2>. QED
    BY <1>2, <2>1, <2>3, <2>4 DEF Uses
<1>. QED
  BY <1>3, <1>4

(* A step may give the place channels that were free; what leaves it must  *)
(* be free afterwards, what it has must not.                               *)
LEMMA Rehoused ==
  ASSUME Once, Live, NEW s \in Sessions, Sole(s), Others(s), ElsewhereSame(s),
         NEW P \in Producers, P = Producer(s), NEW Q \in QueueNames, Q = Queue(s),
         NEW w, w = writer'[P][Q], NEW h, h = Held(s)',
         \A c \in Channels : c \in {w, h} => c \in {Cached(s), Held(s)} \/ channel[c] = "free",
         \A c \in Channels : channel'[c] # "free" <=>
           IF c \in {Cached(s), Held(s), w, h} THEN c \in {w, h} ELSE channel[c] # "free"
  PROVE  Once' /\ Live'
<1>1. \A c \in Channels : Uses(P, Q, c) <=> c \in {Cached(s), Held(s)}
  BY UsesNow
<1>2. \A c \in Channels : Uses(P, Q, c)' <=> c \in {w, h}
  BY UsesThen
<1>3. \A c \in Channels : \A p \in Producers : \A q \in QueueNames :
        p # P \/ q # Q => (Uses(p, q, c)' <=> Uses(p, q, c))
  BY UsesThen
<1>4. ASSUME NEW c \in Channels, c \in {w, h}, NEW p \in Producers, NEW q \in QueueNames, Uses(p, q, c)'
      PROVE  p = P /\ q = Q
  <2>. SUFFICES ASSUME p # P \/ q # Q PROVE FALSE
    OBVIOUS
  <2>1. Uses(p, q, c)
    BY <1>3, <1>4
  <2>2. CASE channel[c] = "free"
    BY <2>1, <2>2 DEF Live
  <2>3. CASE Uses(P, Q, c)
    BY <2>1, <2>3 DEF Once
  <2>. QED
    BY <1>1, <1>4, <2>2, <2>3
<1>5. Once'
  <2>. SUFFICES ASSUME NEW c \in Channels, NEW p \in Producers, NEW o \in Producers,
                       NEW q \in QueueNames, NEW r \in QueueNames, Uses(p, q, c)', Uses(o, r, c)'
                PROVE  p = o /\ q = r
    BY DEF Once
  <2>1. CASE c \in {w, h}
    BY <1>4, <2>1
  <2>2. CASE c \notin {w, h}
    <3>1. (p # P \/ q # Q) /\ (o # P \/ r # Q)
      BY <1>2, <2>2
    <3>2. Uses(p, q, c) /\ Uses(o, r, c)
      BY <1>3, <3>1
    <3>. QED
      BY <3>2 DEF Once
  <2>. QED
    BY <2>1, <2>2
<1>6. Live'
  <2>. SUFFICES ASSUME NEW c \in Channels
                PROVE  channel'[c] # "free"
                       <=> \E p \in Producers : \E q \in QueueNames : Uses(p, q, c)'
    BY DEF Live
  <2>1. CASE c \in {w, h}
    BY <1>2, <2>1
  <2>2. CASE c \notin {w, h} /\ c \in {Cached(s), Held(s)}
    <3>1. channel'[c] = "free"
      BY <2>2
    <3>2. ASSUME NEW p \in Producers, NEW q \in QueueNames, Uses(p, q, c)'
          PROVE  FALSE
      <4>1. p # P \/ q # Q
        BY <1>2, <2>2, <3>2
      <4>2. Uses(p, q, c) /\ Uses(P, Q, c)
        BY <1>1, <1>3, <2>2, <3>2, <4>1
      <4>. QED
        BY <4>1, <4>2 DEF Once
    <3>. QED
      BY <3>1, <3>2
  <2>3. CASE c \notin {Cached(s), Held(s), w, h}
    <3>1. \A p \in Producers : \A q \in QueueNames : Uses(p, q, c)' <=> Uses(p, q, c)
      BY <1>1, <1>2, <1>3, <2>3
    <3>2. channel'[c] # "free" <=> channel[c] # "free"
      BY <2>3
    <3>. QED
      BY <3>1, <3>2 DEF Live
  <2>. QED
    BY <2>1, <2>2, <2>3
<1>. QED
  BY <1>5, <1>6

(* What a working session has in its hands and finds at its place.         *)
LEMMA WorkPlace ==
  ASSUME IInv, NEW s \in Sessions
  PROVE  /\ session[s] \in SessionState /\ Producer(s) \in Producers /\ Queue(s) \in QueueNames
         /\ session[s].pc = "open" => Held(s) = None /\ Cached(s) = None
         /\ session[s].pc = "declare" => Held(s) \in Channels /\ Cached(s) \in {None, Held(s)}
         /\ session[s].pc = "declare" /\ s \in Producers => Cached(s) = None
         /\ session[s].pc = "publish" => Held(s) \in Channels /\ Cached(s) = Held(s)
         /\ session[s].pc \in {"idle", "locking"} => Held(s) = None
         /\ \A c \in Channels : c \in {Cached(s), Held(s)} => channel[c] # "free"
<1>1. session[s] \in SessionState /\ Producer(s) \in Producers /\ Queue(s) \in QueueNames
  BY Typed, ProducerType, QueueType DEF IInv, Shapes
<1>2. /\ session[s].pc \in {"declare", "publish"} <=> Held(s) # None
      /\ session[s].pc = "publish" => Cached(s) = Held(s)
  BY DEF IInv, SessionsOwn
<1>3. Held(s) \in Channels \cup {None}
  BY <1>1 DEF SessionState, Held
<1>5. s \in Publishers => /\ session[s].pc = "open" => Cached(s) = None
                          /\ session[s].pc = "declare" => Cached(s) \in {None, Held(s)}
  BY DEF IInv, Replaces
<1>6. \A c \in Channels : c \in {Cached(s), Held(s)} => channel[c] # "free"
  <2>1. \A c \in Channels : c \in {Cached(s), Held(s)} => Uses(Producer(s), Queue(s), c)
    BY DEF Uses, Cached
  <2>. QED
    BY <1>1, <2>1 DEF IInv, Live
<1>7. /\ session[s].pc = "open" => Held(s) = None /\ Cached(s) = None
      /\ session[s].pc = "declare" /\ s \in Producers => Cached(s) = None
      /\ session[s].pc = "declare" => Held(s) \in Channels /\ Cached(s) \in {None, Held(s)}
  <2>1. s \in Producers \/ s \in Publishers
    BY DEF Sessions
  <2>2. s \in Producers /\ session[s].pc \in {"open", "declare"} => Cached(s) = None
    <3>. SUFFICES ASSUME s \in Producers, session[s].pc \in {"open", "declare"} PROVE Cached(s) = None
      OBVIOUS
    <3>1. session[s].at \in 1..Len(Queues) /\ session[s].at <= session[s].at
      BY <1>1, QueuesAreNamed DEF SessionState
    <3>2. Producer(s) = s
      BY DEF Producer
    <3>. QED
      BY <3>1, <3>2 DEF IInv, Fresh, Cached, Queue
  <2>. QED
    BY <1>2, <1>3, <2>1, <2>2, <1>5
<1>. QED
  BY <1>1, <1>2, <1>3, <1>6, <1>7

LEMMA SetWriters ==
  ASSUME Shapes, NEW s \in Sessions, NEW x, SetWriter(s, x)
  PROVE  /\ writer'[Producer(s)][Queue(s)] = x
         /\ \A p \in Producers : \A q \in QueueNames :
              p # Producer(s) \/ q # Queue(s) => writer'[p][q] = writer[p][q]
<1>1. Producer(s) \in Producers /\ Queue(s) \in QueueNames /\ WriterShape
  BY ProducerType, QueueType DEF Shapes
<1>. QED
  BY <1>1 DEF SetWriter, WriterShape

LEMMA PlacesStay ==
  ASSUME IInv, NEW s \in Sessions, Sole(s), Others(s), ElsewhereSame(s), channel' = channel,
         \A c \in Channels : c \in {writer'[Producer(s)][Queue(s)], Held(s)'} <=> c \in {Cached(s), Held(s)}
  PROVE  Once' /\ Live'
<1>1. Producer(s) \in Producers /\ Queue(s) \in QueueNames
  BY WorkPlace
<1>2. \A c \in Channels : c \in {Cached(s), Held(s)} => channel[c] # "free"
  BY WorkPlace
<1>. QED
  BY <1>1, <1>2, Rehoused DEF IInv

LEMMA PlaceFreed ==
  ASSUME IInv, NEW s \in Sessions, Sole(s), Others(s), ElsewhereSame(s),
         Held(s) \in Channels, Cached(s) \in {None, Held(s)},
         channel' = [channel EXCEPT ![Held(s)] = "free"],
         writer'[Producer(s)][Queue(s)] = None, Held(s)' = None
  PROVE  Once' /\ Live'
<1>1. Producer(s) \in Producers /\ Queue(s) \in QueueNames
  BY WorkPlace
<1>2. \A c \in Channels : c # None
  BY SessionsAreNamed
<1>3. \A c \in Channels : channel'[c] = IF c = Held(s) THEN "free" ELSE channel[c]
  BY DEF IInv, Shapes, ChannelShape
<1>. QED
  BY <1>1, <1>2, <1>3, Rehoused DEF IInv

LEMMA PlaceOpened ==
  ASSUME IInv, NEW s \in Sessions, Sole(s), Others(s), ElsewhereSame(s),
         Held(s) = None, Cached(s) = None, writer'[Producer(s)][Queue(s)] = None,
         NEW c \in Channels, channel[c] = "free", channel' = [channel EXCEPT ![c] = "open"],
         Held(s)' = c
  PROVE  Once' /\ Live'
<1>1. Producer(s) \in Producers /\ Queue(s) \in QueueNames
  BY WorkPlace
<1>2. \A d \in Channels : d # None
  BY SessionsAreNamed
<1>3. \A d \in Channels : channel'[d] = IF d = c THEN "open" ELSE channel[d]
  BY DEF IInv, Shapes, ChannelShape
<1>. QED
  BY <1>1, <1>2, <1>3, Rehoused DEF IInv

LEMMA PlacesSame ==
  ASSUME IInv, UNCHANGED writer,
         \A v \in Sessions : Held(v)' = Held(v) /\ (Held(v) # None => Queue(v)' = Queue(v)),
         \A c \in Channels : channel'[c] = "free" <=> channel[c] = "free"
  PROVE  Once' /\ Live'
<1>1. \A c \in Channels : \A p \in Producers : \A q \in QueueNames : Uses(p, q, c)' <=> Uses(p, q, c)
  BY SessionsAreNamed DEF Uses, Producer
<1>. QED
  BY <1>1 DEF IInv, Once, Live

LEMMA PlacesStep == IInv /\ [Next]_vars => Once' /\ Live'
<1>. SUFFICES ASSUME IInv, [Next]_vars PROVE Once' /\ Live'
  OBVIOUS
<1>1. ASSUME NEW s \in Sessions, Others(s), UNCHANGED <<writer, channel>>,
             session[s].pc = "idle", session'[s].ch = session[s].ch
      PROVE  Once' /\ Live'
  <2>1. Held(s) = None
    BY <1>1, WorkPlace
  <2>2. \A v \in Sessions : Held(v)' = Held(v) /\ (Held(v) # None => Queue(v)' = Queue(v))
    <3>1. \A v \in Sessions \ {s} : Held(v)' = Held(v) /\ Queue(v)' = Queue(v)
      BY <1>1, OthersKeep
    <3>2. Held(s)' = Held(s)
      BY <1>1 DEF Held
    <3>. QED
      BY <2>1, <3>1, <3>2
  <2>. QED
    BY <1>1, <2>2, PlacesSame
<1>2. ASSUME NEW p \in Producers, Run(p) PROVE Once' /\ Live'
  <2>1. /\ p \in Sessions /\ Others(p) /\ session[p].pc = "idle"
        /\ session'[p] = [session[p] EXCEPT !.pc = "locking"]
    BY <1>2, RunMoves
  <2>2. session'[p].ch = session[p].ch
    BY <2>1, WorkPlace DEF SessionState
  <2>. QED
    BY <1>1, <1>2, <2>1, <2>2 DEF Run
<1>3. ASSUME NEW s \in Publishers, PublishDispatch(s) PROVE Once' /\ Live'
  <2>1. s \in Sessions /\ Others(s) /\ session[s].pc = "idle"
    BY <1>3, PublishDispatchMoves
  <2>2. PICK i \in 1..Len(Queues) : session'[s] = [session[s] EXCEPT !.pc = "locking", !.at = i]
    BY <1>3, PublishDispatchMoves
  <2>3. session'[s].ch = session[s].ch
    BY <2>1, <2>2, WorkPlace DEF SessionState
  <2>. QED
    BY <1>1, <1>3, <2>1, <2>3 DEF PublishDispatch
<1>4. ASSUME NEW s \in Sessions, Lock(s) PROVE Once' /\ Live'
  <2>1. /\ session[s].pc = "locking" /\ lock[Producer(s)] = None /\ Others(s)
        /\ UNCHANGED <<channel, writer>>
        /\ \/ session'[s] = [session[s] EXCEPT !.pc = "declare", !.ch = Cached(s)]
           \/ session'[s] = [session[s] EXCEPT !.pc = "open"]
    BY <1>4, LockMoves
  <2>2. session[s] \in SessionState /\ Held(s) = None
    BY <2>1, WorkPlace
  <2>3. Held(s)' \in {None, Cached(s)} /\ Queue(s)' = Queue(s)
    BY <2>1, <2>2 DEF SessionState, Held, Queue
  <2>4. Sole(s)
    BY <2>1, SoleSession
  <2>5. writer'[Producer(s)][Queue(s)] = Cached(s)
    BY <2>1 DEF Cached
  <2>6. ElsewhereSame(s)
    BY <2>1, <2>3 DEF ElsewhereSame
  <2>. QED
    BY <2>1, <2>2, <2>3, <2>4, <2>5, <2>6, PlacesStay, SessionsAreNamed
<1>5. ASSUME NEW s \in Sessions, session[s].pc \in Working
      PROVE  Sole(s)
  BY <1>5, SoleSession
<1>6. ASSUME NEW s \in Sessions, Open(s) PROVE Once' /\ Live'
  <2>1. session[s].pc = "open" /\ Others(s) /\ UNCHANGED writer
    BY <1>6, OpenMoves
  <2>2. PICK c \in Channels :
          /\ channel[c] = "free" /\ channel' = [channel EXCEPT ![c] = "open"]
          /\ session'[s] = [session[s] EXCEPT !.pc = "declare", !.ch = c, !.step = 1]
    BY <1>6, OpenMoves
  <2>3. session[s] \in SessionState /\ Held(s) = None /\ Cached(s) = None
    BY <2>1, WorkPlace
  <2>4. Held(s)' = c /\ Queue(s)' = Queue(s)
    BY <2>2, <2>3 DEF SessionState, Held, Queue
  <2>5. writer'[Producer(s)][Queue(s)] = None /\ ElsewhereSame(s)
    BY <2>1, <2>3, <2>4 DEF Cached, ElsewhereSame
  <2>6. Sole(s)
    BY <1>5, <2>1 DEF Working
  <2>. QED
    BY <2>1, <2>2, <2>3, <2>4, <2>5, <2>6, PlaceOpened
<1>7. ASSUME NEW s \in Sessions, OpenFails(s) PROVE Once' /\ Live'
  <2>1. session[s].pc = "open" /\ Others(s) /\ UNCHANGED <<writer, channel>> /\ session'[s].ch = None
    BY <1>7, OpenFailsMoves, Fails DEF IInv, Shapes
  <2>2. Held(s) = None /\ Cached(s) = None /\ Held(s)' = None
    BY <2>1, WorkPlace DEF Held
  <2>3. writer'[Producer(s)][Queue(s)] = None /\ ElsewhereSame(s)
    BY <2>1, <2>2 DEF Cached, ElsewhereSame
  <2>4. Sole(s)
    BY <1>5, <2>1 DEF Working
  <2>. QED
    BY <2>1, <2>2, <2>3, <2>4, PlacesStay
<1>8. ASSUME NEW s \in Sessions, Declare(s) PROVE Once' /\ Live'
  <2>1. Others(s) /\ session[s].pc = "declare" /\ UNCHANGED channel
    BY <1>8, DeclareMoves
  <2>2. session[s] \in SessionState /\ Held(s) \in Channels /\ Cached(s) \in {None, Held(s)}
    BY <2>1, WorkPlace
  <2>3. Sole(s)
    BY <1>5, <2>1 DEF Working
  <2>4. CASE session'[s] = [session[s] EXCEPT !.step = @ + 1] /\ UNCHANGED writer
    <3>1. Held(s)' = Held(s) /\ Queue(s)' = Queue(s)
      BY <2>2, <2>4 DEF SessionState, Held, Queue
    <3>2. writer'[Producer(s)][Queue(s)] = Cached(s) /\ ElsewhereSame(s)
      BY <2>4, <3>1 DEF Cached, ElsewhereSame
    <3>. QED
      BY <2>1, <2>3, <3>1, <3>2, PlacesStay
  <2>5. CASE SetWriter(s, Held(s)) /\ (session'[s] = [session[s] EXCEPT !.pc = "publish"] \/ session'[s].ch = None)
    <3>1. Held(s)' = None \/ (Held(s)' = Held(s) /\ Queue(s)' = Queue(s))
      <4>1. session'[s].ch = None
            \/ session'[s] = [session[s] EXCEPT !.pc = "publish"]
        BY <2>5
      <4>2. session[s] \in SessionState
        BY <2>2
      <4>3. session'[s].ch = None \/ (session'[s].ch = session[s].ch /\ session'[s].at = session[s].at)
        BY <4>1, <4>2 DEF SessionState
      <4>. QED
        BY <4>3 DEF Held, Queue
    <3>2. writer'[Producer(s)][Queue(s)] = Held(s)
      BY <2>5, SetWriters DEF IInv
    <3>3. ElsewhereSame(s)
      BY <2>5, <3>1, SetWriters DEF IInv, ElsewhereSame
    <3>. QED
      BY <2>1, <2>2, <2>3, <3>1, <3>2, <3>3, PlacesStay, SessionsAreNamed
  <2>. QED
    BY <1>8, <2>4, <2>5, DeclareMoves
<1>9. ASSUME NEW s \in Sessions, Others(s), session[s].pc \in Working,
             Held(s) \in Channels, Cached(s) \in {None, Held(s)},
             channel' = [channel EXCEPT ![Held(s)] = "free"], session'[s].ch = None,
             SetWriter(s, None) \/ (UNCHANGED writer /\ Cached(s) = None)
      PROVE  Once' /\ Live'
  <2>1. Held(s)' = None
    BY <1>9 DEF Held
  <2>2. writer'[Producer(s)][Queue(s)] = None
    BY <1>9, SetWriters DEF IInv, Cached
  <2>3. ElsewhereSame(s)
    BY <1>9, <2>1, SetWriters DEF IInv, ElsewhereSame
  <2>. QED
    BY <1>5, <1>9, <2>1, <2>2, <2>3, PlaceFreed
<1>10. ASSUME NEW s \in Sessions, DeclareFails(s) PROVE Once' /\ Live'
  <2>1. /\ session[s].pc = "declare" /\ Held(s) \in Channels
        /\ channel' = [channel EXCEPT ![Held(s)] = "free"]
    BY <1>10, DeclareFailsMoves
  <2>2. session[s] \in SessionState /\ Cached(s) \in {None, Held(s)} /\ session[s].pc \in Working
    BY <2>1, WorkPlace DEF Working
  <2>3. CASE /\ Others(s) /\ SetWriter(s, None)
             /\ session'[s] = [session[s] EXCEPT !.pc = "open", !.ch = None]
    <3>1. session'[s].ch = None
      <4>1. session'[s] = [session[s] EXCEPT !.pc = "open", !.ch = None]
            \/ session'[s] = [session[s] EXCEPT !.pc = "open", !.ch = None, !.retried = TRUE]
        BY <2>3
      <4>2. session[s] \in SessionState
        BY <2>2
      <4>. QED
        BY <4>1, <4>2 DEF SessionState
    <3>. QED
      BY <1>9, <2>1, <2>2, <2>3, <3>1
  <2>4. CASE Cached(s) # Held(s) /\ Fail(s) /\ UNCHANGED writer
    <3>1. Others(s) /\ session'[s].ch = None
      BY <2>4, Fails DEF IInv, Shapes
    <3>. QED
      BY <1>9, <2>1, <2>2, <2>4, <3>1
  <2>. QED
    BY <1>10, <2>3, <2>4, DeclareFailsMoves
<1>11. ASSUME NEW s \in Sessions, Others(s), session[s].pc = "publish",
              UNCHANGED <<channel, writer>>, session'[s].ch = None
       PROVE  Once' /\ Live'
  <2>1. Held(s)' = None /\ Cached(s) = Held(s)
    BY <1>11, WorkPlace DEF Held
  <2>2. writer'[Producer(s)][Queue(s)] = Cached(s) /\ ElsewhereSame(s)
    BY <1>11, <2>1 DEF Cached, ElsewhereSame
  <2>. QED
    BY <1>5, <1>11, <2>1, <2>2, PlacesStay, SessionsAreNamed DEF Working
<1>12. ASSUME NEW s \in Sessions, Publish(s) PROVE Once' /\ Live'
  BY <1>11, <1>12, PublishMoves
<1>13. ASSUME NEW s \in Sessions, PublishFails(s) PROVE Once' /\ Live'
  <2>1. Others(s) /\ session[s].pc = "publish"
    BY <1>13, PublishFailsMoves
  <2>2. session[s] \in SessionState /\ Held(s) \in Channels /\ Cached(s) = Held(s)
    BY <2>1, WorkPlace
  <2>3. CASE /\ SetWriter(s, None) /\ channel' = [channel EXCEPT ![Held(s)] = "free"]
             /\ session'[s] = [session[s] EXCEPT !.pc = "open", !.ch = None, !.retried = TRUE]
    <3>1. session'[s].ch = None
      <4>1. session'[s] = [session[s] EXCEPT !.pc = "open", !.ch = None]
            \/ session'[s] = [session[s] EXCEPT !.pc = "open", !.ch = None, !.retried = TRUE]
        BY <2>3
      <4>2. session[s] \in SessionState
        BY <2>2
      <4>. QED
        BY <4>1, <4>2 DEF SessionState
    <3>. QED
      BY <1>9, <2>1, <2>2, <2>3, <3>1 DEF Working
  <2>. QED
    BY <1>11, <1>13, <2>1, <2>3, PublishFailsMoves
<1>14. ASSUME UNCHANGED <<writer, session>>,
              \A c \in Channels : channel'[c] = "free" <=> channel[c] = "free"
       PROVE  Once' /\ Live'
  BY <1>14, PlacesSame DEF Held, Queue
<1>15. ASSUME ConnectionLost PROVE Once' /\ Live'
  <2>1. \A c \in Channels : channel'[c] = "free" <=> channel[c] = "free"
    BY <1>15 DEF ConnectionLost
  <2>. QED
    BY <1>14, <1>15, <2>1 DEF ConnectionLost
<1>16. ASSUME Reconnect \/ UNCHANGED vars PROVE Once' /\ Live'
  BY <1>14, <1>16 DEF Reconnect, vars
<1>. QED
  BY <1>2, <1>3, <1>4, <1>6, <1>7, <1>8, <1>10, <1>12, <1>13, <1>15, <1>16 DEF Next, BrokerCall

(***************************************************************************)
(* The order of the sessions, and what they find in the caches.            *)
(***************************************************************************)
Acts(s) ==
  /\ session[s].pc \in Working \cup {"locking"}
  /\ Others(s)
  /\ \A p \in Producers \ {Producer(s)} : writer'[p] = writer[p]
  /\ session[s].pc = "locking" => UNCHANGED writer

LEMMA SetsOwnWriter ==
  ASSUME Shapes, NEW s \in Sessions, NEW x, SetWriter(s, x)
  PROVE  \A p \in Producers \ {Producer(s)} : writer'[p] = writer[p]
BY DEF SetWriter, Shapes, WriterShape

LEMMA WhoMoves ==
  ASSUME IInv, [Next]_vars
  PROVE  \/ UNCHANGED <<session, writer>>
         \/ \E p \in Producers : Run(p)
         \/ \E s \in Publishers : PublishDispatch(s)
         \/ \E s \in Sessions : Acts(s) /\ (Lock(s) \/ BrokerCall(s))
<1>. USE DEF Working
<1>1. ASSUME NEW s \in Sessions, Lock(s) PROVE Acts(s)
  BY <1>1, LockMoves DEF Acts
<1>2. ASSUME NEW s \in Sessions, Open(s) PROVE Acts(s)
  BY <1>2, OpenMoves DEF Acts
<1>3. ASSUME NEW s \in Sessions, OpenFails(s) PROVE Acts(s)
  BY <1>3, OpenFailsMoves, Fails DEF Acts, IInv, Shapes
<1>4. ASSUME NEW s \in Sessions, Declare(s) PROVE Acts(s)
  <2>1. session[s].pc = "declare" /\ Others(s) /\ (UNCHANGED writer \/ SetWriter(s, Held(s)))
    BY <1>4, DeclareMoves
  <2>. QED
    BY <2>1, SetsOwnWriter DEF Acts, IInv
<1>5. ASSUME NEW s \in Sessions, DeclareFails(s) PROVE Acts(s)
  <2>1. session[s].pc = "declare" /\ Others(s) /\ (UNCHANGED writer \/ SetWriter(s, None))
    BY <1>5, DeclareFailsMoves, Fails DEF IInv, Shapes
  <2>. QED
    BY <2>1, SetsOwnWriter DEF Acts, IInv
<1>6. ASSUME NEW s \in Sessions, Publish(s) PROVE Acts(s)
  BY <1>6, PublishMoves DEF Acts
<1>7. ASSUME NEW s \in Sessions, PublishFails(s) PROVE Acts(s)
  <2>1. session[s].pc = "publish" /\ Others(s) /\ (UNCHANGED writer \/ SetWriter(s, None))
    BY <1>7, PublishFailsMoves
  <2>. QED
    BY <2>1, SetsOwnWriter DEF Acts, IInv
<1>8. CASE ConnectionLost \/ Reconnect \/ UNCHANGED vars
  BY <1>8 DEF ConnectionLost, Reconnect, vars
<1>9. ASSUME NEW s \in Sessions, BrokerCall(s) PROVE Acts(s)
  BY <1>2, <1>3, <1>4, <1>5, <1>6, <1>7, <1>9 DEF BrokerCall
<1>10. ASSUME NEW s \in Sessions, Lock(s) \/ BrokerCall(s) PROVE Acts(s)
  BY <1>1, <1>9, <1>10
<1>. QED
  BY <1>8, <1>10 DEF Next

(* A call that has ended stays ended, and one begins by Run or             *)
(* PublishDispatch.                                                        *)
LEMMA SessionOrder ==
  ASSUME IInv, [Next]_vars, NEW v \in Sessions
  PROVE  /\ session[v].pc \in Ended => session'[v] = session[v]
         /\ session[v].pc = "idle" =>
              \/ session'[v] = session[v]
              \/ v \in Producers /\ Run(v)
              \/ v \in Publishers /\ PublishDispatch(v)
<1>1. ASSUME NEW p \in Producers, Run(p)
      PROVE  session'[v] = session[v] \/ (v = p /\ session[v].pc = "idle")
  BY <1>1, RunMoves DEF Others
<1>2. ASSUME NEW s \in Publishers, PublishDispatch(s)
      PROVE  session'[v] = session[v] \/ (v = s /\ session[v].pc = "idle")
  BY <1>2, PublishDispatchMoves DEF Others
<1>3. ASSUME NEW s \in Sessions, Acts(s)
      PROVE  session'[v] = session[v] \/ (session[v].pc \in Working \cup {"locking"})
  BY <1>3 DEF Acts, Others
<1>4. ASSUME UNCHANGED session
      PROVE  session'[v] = session[v]
  BY <1>4
<1>5. ASSUME NEW p \in Producers, Run(p)
      PROVE  session'[v] = session[v] \/ (session[v].pc = "idle" /\ v \in Producers /\ Run(v))
  BY <1>1, <1>5
<1>6. ASSUME NEW s \in Publishers, PublishDispatch(s)
      PROVE  session'[v] = session[v] \/ (session[v].pc = "idle" /\ v \in Publishers /\ PublishDispatch(v))
  BY <1>2, <1>6
<1>7. \/ session'[v] = session[v]
      \/ session[v].pc = "idle" /\ v \in Producers /\ Run(v)
      \/ session[v].pc = "idle" /\ v \in Publishers /\ PublishDispatch(v)
      \/ session[v].pc \in Working \cup {"locking"}
  BY <1>3, <1>4, <1>5, <1>6, WhoMoves
<1>8. session[v].pc \in Ended => session'[v] = session[v]
  BY <1>7 DEF Ended, Working
<1>9. session[v].pc = "idle" =>
        \/ session'[v] = session[v]
        \/ v \in Producers /\ Run(v)
        \/ v \in Publishers /\ PublishDispatch(v)
  BY <1>7 DEF Working
<1>. QED
  BY <1>8, <1>9

LEMMA RunsFirstStep == IInv /\ [Next]_vars => RunsFirst'
<1>. SUFFICES ASSUME IInv, [Next]_vars PROVE RunsFirst'
  OBVIOUS
<1>1. \A v \in Sessions : session[v].pc = "done" => session'[v].pc = "done"
  BY SessionOrder DEF Ended
<1>2. ASSUME "dryrun" \in Producers, session'["dryrun"].pc # "idle" PROVE session'["http"].pc = "done"
  <2>1. "dryrun" \in Sessions /\ "http" \in Sessions
    BY <1>2, ProducerAssumption DEF Sessions
  <2>2. CASE session["dryrun"].pc # "idle"
    BY <1>1, <1>2, <2>1, <2>2 DEF IInv, RunsFirst
  <2>3. CASE session["dryrun"].pc = "idle"
    <3>1. Run("dryrun")
      BY <1>2, <2>1, <2>3, SessionOrder, SessionsAreNamed
    <3>. QED
      BY <1>1, <2>1, <3>1 DEF Run, SetUpAfter, At
  <2>. QED
    BY <2>2, <2>3
<1>3. ASSUME NEW s \in Publishers, session'[s].pc # "idle" PROVE session'[ProducerOf[s]].pc = "done"
  <2>1. s \in Sessions /\ s \notin Producers /\ ProducerOf[s] \in Sessions /\ ProducerOf[s] \in Producers
    BY ProducerAssumption DEF Sessions
  <2>2. CASE session[s].pc # "idle"
    BY <1>1, <2>1, <2>2 DEF IInv, RunsFirst
  <2>3. CASE session[s].pc = "idle"
    <3>1. Serving(ProducerOf[s])
      BY <1>3, <2>1, <2>3, SessionOrder DEF PublishDispatch, Producer
    <3>2. CASE ProducerOf[s] = "http"
      <4>1. "dryrun" \in Producers /\ session["dryrun"].pc = "done"
        BY <2>1, <3>1, <3>2, ProducerAssumption DEF Serving, At
      <4>2. session["http"].pc = "done"
        BY <4>1 DEF IInv, RunsFirst
      <4>. QED
        BY <1>1, <2>1, <3>2, <4>2
    <3>3. CASE ProducerOf[s] \in {"scheduler", "dryrun"}
      BY <1>1, <2>1, <3>1, <3>3 DEF Serving, At
    <3>. QED
      BY <2>1, <3>2, <3>3, ProducerAssumption
  <2>. QED
    BY <2>2, <2>3
<1>. QED
  BY <1>2, <1>3 DEF RunsFirst

(* What the work of a Run does to its queue and to the writers: nothing,   *)
(* or it ends, or it fails at the first queue, or it goes on with the next *)
(* queue and leaves a writer at this one.                                  *)
LEMMA RunWorks ==
  ASSUME IInv, NEW p \in Producers, p \in Sessions, Producer(p) = p, Lock(p) \/ BrokerCall(p)
  PROVE  \/ session'[p].pc = "done"
         \/ session'[p].at = session[p].at /\ writer'[p] = writer[p]
         \/ session'[p].at = 1 /\ ~(session[p].at > 1) /\ writer'[p] = writer[p]
         \/ /\ session'[p].at = session[p].at + 1
            /\ \A q \in QueueNames : q # Queue(p) => writer'[p][q] = writer[p][q]
<1>1. session[p] \in SessionState
  BY WorkPlace
<1>2. CASE Lock(p)
  <2>1. \/ session'[p] = [session[p] EXCEPT !.pc = "declare", !.ch = Cached(p)]
        \/ session'[p] = [session[p] EXCEPT !.pc = "open"]
    BY <1>2, LockMoves
  <2>2. session'[p].at = session[p].at
    BY <1>1, <2>1 DEF SessionState
  <2>. QED
    BY <1>2, <2>2, LockMoves
<1>3. CASE Open(p)
  <2>1. PICK c \in Channels : session'[p] = [session[p] EXCEPT !.pc = "declare", !.ch = c, !.step = 1]
    BY <1>3, OpenMoves
  <2>2. session'[p].at = session[p].at
    BY <1>1, <2>1 DEF SessionState
  <2>. QED
    BY <1>3, <2>2, OpenMoves
<1>4. ASSUME Fail(p), UNCHANGED writer
      PROVE  \/ session'[p].at = session[p].at /\ writer'[p] = writer[p]
             \/ session'[p].at = 1 /\ ~(session[p].at > 1) /\ writer'[p] = writer[p]
  BY <1>4, Fails DEF IInv, Shapes
<1>5. CASE OpenFails(p)
  BY <1>4, <1>5, OpenFailsMoves
<1>6. CASE DeclareFails(p)
  <2>1. Cached(p) # Held(p)
    BY <1>6, DeclareFailsMoves, WorkPlace, SessionsAreNamed
  <2>. QED
    BY <1>4, <1>6, <2>1, DeclareFailsMoves
<1>7. CASE Declare(p)
  <2>1. CASE session'[p] = [session[p] EXCEPT !.step = @ + 1] /\ UNCHANGED writer
    <3>1. session'[p].at = session[p].at
      BY <1>1, <2>1 DEF SessionState
    <3>. QED
      BY <2>1, <3>1
  <2>2. CASE SetWriter(p, Held(p)) /\ session'[p].at = session[p].at + 1
    BY <2>2, SetWriters DEF IInv
  <2>. QED
    BY <1>7, <2>1, <2>2, DeclareMoves, SessionsAreNamed
<1>8. CASE Publish(p) \/ PublishFails(p)
  BY <1>8, PublishMoves, PublishFailsMoves, SessionsAreNamed DEF IInv, SessionsOwn
<1>. QED
  BY <1>2, <1>3, <1>5, <1>6, <1>7, <1>8 DEF BrokerCall

LEMMA FreshStep == IInv /\ [Next]_vars => Fresh'
<1>. SUFFICES ASSUME IInv, [Next]_vars, NEW p \in Producers, session'[p].pc # "done",
                     NEW i \in 1..Len(Queues), session'[p].at <= i
              PROVE  writer'[p][Queues[i]] = None
  BY DEF Fresh
<1>1. p \in Sessions /\ session[p].pc # "done" /\ Producer(p) = p
  BY SessionsAreNamed, SessionOrder DEF Ended, Producer
<1>2. session[p].at <= i => writer[p][Queues[i]] = None
  BY <1>1 DEF IInv, Fresh
<1>3. session[p] \in SessionState /\ session[p].at \in 1..Len(Queues) /\ Len(Queues) \in Nat
  BY <1>1, Typed, QueuesAreNamed DEF IInv, Shapes, SessionState
<1>4. ASSUME session'[p].at = session[p].at, writer'[p] = writer[p]
      PROVE  writer'[p][Queues[i]] = None
  BY <1>2, <1>4
<1>5. ASSUME NEW s \in Sessions \ {p}, Others(s), writer'[p] = writer[p]
      PROVE  writer'[p][Queues[i]] = None
  BY <1>1, <1>4, <1>5 DEF Others
<1>6. ASSUME NEW o \in Producers, Run(o) PROVE writer'[p][Queues[i]] = None
  <2>1. Others(o) /\ o \in Sessions /\ session'[o] = [session[o] EXCEPT !.pc = "locking"]
    BY <1>6, RunMoves
  <2>2. session[o] \in SessionState
    BY <2>1, Typed DEF IInv, Shapes
  <2>3. session'[o].at = session[o].at
    BY <2>1, <2>2 DEF SessionState
  <2>. QED
    BY <1>4, <1>5, <1>6, <2>1, <2>3 DEF Run
<1>7. ASSUME NEW s \in Publishers, PublishDispatch(s) PROVE writer'[p][Queues[i]] = None
  BY <1>5, <1>7, PublishDispatchMoves, SessionsAreNamed DEF PublishDispatch
<1>8. ASSUME NEW s \in Sessions, Acts(s), s # p PROVE writer'[p][Queues[i]] = None
  <2>1. Producer(s) # p
    <3>1. s \in Publishers => session[ProducerOf[s]].pc = "done"
      BY <1>8 DEF Acts, Working, IInv, RunsFirst
    <3>. QED
      BY <1>1, <1>8, <3>1 DEF Producer, Sessions
  <2>. QED
    BY <1>5, <1>8, <2>1 DEF Acts
<1>9. ASSUME Lock(p) \/ BrokerCall(p) PROVE writer'[p][Queues[i]] = None
  <2>1. CASE session'[p].at = 1 /\ ~(session[p].at > 1) /\ writer'[p] = writer[p]
    BY <1>3, <1>4, <2>1
  <2>2. CASE /\ session'[p].at = session[p].at + 1
             /\ \A q \in QueueNames : q # Queue(p) => writer'[p][q] = writer[p][q]
    <3>1. session[p].at < i
      BY <1>3, <2>2
    <3>2. Queues[i] # Queue(p) /\ Queues[i] \in QueueNames
      BY <1>3, <3>1, QueuesAreNamed, ProducerAssumption DEF Queue
    <3>. QED
      BY <1>2, <1>3, <2>2, <3>1, <3>2
  <2>. QED
    BY <1>1, <1>4, <1>9, <2>1, <2>2, RunWorks
<1>10. CASE UNCHANGED <<session, writer>>
  BY <1>4, <1>10
<1>. QED
  BY <1>6, <1>7, <1>8, <1>9, <1>10, WhoMoves

LEMMA ReplacesStep == IInv /\ [Next]_vars => Replaces'
<1>. SUFFICES ASSUME IInv, [Next]_vars, NEW s \in Publishers
              PROVE  /\ session'[s].pc = "open" => Cached(s)' = None
                     /\ session'[s].pc = "declare" => Cached(s)' \in {None, Held(s)'}
  BY DEF Replaces
<1>1. s \in Sessions /\ s \notin Producers /\ session[s] \in SessionState
  BY SessionsAreNamed, WorkPlace
<1>2. /\ session[s].pc = "open" => Cached(s) = None
      /\ session[s].pc = "declare" => Cached(s) \in {None, Held(s)}
  BY DEF IInv, Replaces
<1>3. ASSUME session'[s] = session[s], writer'[Producer(s)] = writer[Producer(s)] \/ session[s].pc \notin Working
      PROVE  /\ session'[s].pc = "open" => Cached(s)' = None
             /\ session'[s].pc = "declare" => Cached(s)' \in {None, Held(s)'}
  BY <1>2, <1>3 DEF Cached, Queue, Held, Working, Producer
<1>4. ASSUME NEW v \in Sessions \ {s}, Acts(v)
      PROVE  session'[s] = session[s] /\ (writer'[Producer(s)] = writer[Producer(s)] \/ session[s].pc \notin Working)
  <2>1. CASE session[s].pc \in Working /\ session[v].pc \in Working
    BY <1>1, <1>4, <2>1, Alone, ProducerType DEF IInv, Acts, Others
  <2>2. CASE session[v].pc = "locking"
    BY <1>1, <1>4, <2>2, ProducerType DEF Acts, Others
  <2>. QED
    BY <1>1, <1>4, <2>1, <2>2 DEF Acts, Others
<1>5. CASE Lock(s)
  <2>1. /\ UNCHANGED writer
        /\ \/ session'[s] = [session[s] EXCEPT !.pc = "declare", !.ch = Cached(s)]
           \/ /\ ~(s \in Publishers /\ Cached(s) # None)
              /\ session'[s] = [session[s] EXCEPT !.pc = "open"]
    BY <1>1, <1>5, LockMoves
  <2>2. /\ session'[s].at = session[s].at
        /\ \/ session'[s].pc = "declare" /\ session'[s].ch = Cached(s)
           \/ session'[s].pc = "open" /\ Cached(s) = None
    <3>1. session[s] \in SessionState
      BY <1>1
    <3>. QED
      BY <2>1, <3>1 DEF SessionState
  <2>3. Cached(s)' = Cached(s)
    BY <2>1, <2>2 DEF Cached, Queue, Producer
  <2>. QED
    BY <2>2, <2>3 DEF Held
<1>6. CASE Open(s)
  <2>1. PICK c \in Channels : session'[s] = [session[s] EXCEPT !.pc = "declare", !.ch = c, !.step = 1]
    BY <1>1, <1>6, OpenMoves
  <2>2. UNCHANGED writer /\ session[s].pc = "open"
    BY <1>1, <1>6, OpenMoves
  <2>3. session'[s].at = session[s].at /\ session'[s].pc = "declare"
    <3>1. session[s] \in SessionState
      BY <1>1
    <3>. QED
      BY <2>1, <3>1 DEF SessionState
  <2>4. Cached(s)' = Cached(s)
    BY <2>2, <2>3 DEF Cached, Queue, Producer
  <2>. QED
    BY <1>2, <2>2, <2>3, <2>4
<1>7. ASSUME Fail(s)
      PROVE  session'[s].pc = "failed"
  BY <1>1, <1>7, Returns DEF Fail, Ended, IInv, Shapes
<1>8. CASE OpenFails(s)
  BY <1>1, <1>7, <1>8, OpenFailsMoves
<1>9. CASE Declare(s)
  <2>1. session[s].pc = "declare"
    BY <1>1, <1>9, DeclareMoves
  <2>2. CASE session'[s] = [session[s] EXCEPT !.step = @ + 1] /\ UNCHANGED writer
    <3>1. session'[s].at = session[s].at /\ session'[s].ch = session[s].ch /\ session'[s].pc = session[s].pc
      <4>1. session[s] \in SessionState /\ session'[s] = [session[s] EXCEPT !.step = @ + 1]
        BY <1>1, <2>2
      <4>. QED
        BY <4>1 DEF SessionState
    <3>2. Cached(s)' = Cached(s) /\ Held(s)' = Held(s)
      BY <2>2, <3>1 DEF Cached, Queue, Producer, Held
    <3>. QED
      BY <1>2, <2>1, <3>1, <3>2
  <2>3. CASE session'[s] = [session[s] EXCEPT !.pc = "publish"]
    <3>1. session[s] \in SessionState /\ session'[s] = [session[s] EXCEPT !.pc = "publish"]
      BY <1>1, <2>3
    <3>2. session'[s].pc = "publish"
      BY <3>1 DEF SessionState
    <3>. QED
      BY <3>2
  <2>. QED
    BY <1>1, <1>9, <2>2, <2>3, DeclareMoves
<1>10. ASSUME SetWriter(s, None),
              \/ session'[s] = [session[s] EXCEPT !.pc = "open", !.ch = None]
              \/ session'[s] = [session[s] EXCEPT !.pc = "open", !.ch = None, !.retried = TRUE]
       PROVE  session'[s].pc = "open" /\ Cached(s)' = None
  <2>1. session'[s].pc = "open" /\ session'[s].at = session[s].at
    <3>1. session[s] \in SessionState
      BY <1>1
    <3>. QED
      BY <1>10, <3>1 DEF SessionState
  <2>2. writer'[Producer(s)][Queue(s)] = None
    BY <1>1, <1>10, SetWriters DEF IInv
  <2>3. Cached(s)' = None
    BY <2>1, <2>2 DEF Cached, Queue, Producer
  <2>. QED
    BY <2>1, <2>3
<1>11. CASE DeclareFails(s)
  BY <1>1, <1>7, <1>10, <1>11, DeclareFailsMoves
<1>12. CASE Publish(s)
  BY <1>1, <1>12, PublishMoves
<1>13. CASE PublishFails(s)
  BY <1>1, <1>10, <1>13, PublishFailsMoves
<1>14. ASSUME NEW v \in Sessions, Acts(v), Lock(v) \/ BrokerCall(v)
       PROVE  /\ session'[s].pc = "open" => Cached(s)' = None
              /\ session'[s].pc = "declare" => Cached(s)' \in {None, Held(s)'}
  <2>1. CASE v = s
    BY <1>5, <1>6, <1>8, <1>9, <1>11, <1>12, <1>13, <1>14, <2>1 DEF BrokerCall
  <2>2. CASE v # s
    BY <1>3, <1>4, <1>14, <2>2
  <2>. QED
    BY <2>1, <2>2
<1>15. ASSUME NEW p \in Producers, Run(p)
       PROVE  session'[s] = session[s] /\ writer' = writer
  BY <1>1, <1>15, RunMoves DEF Others, Run
<1>16. ASSUME NEW v \in Publishers, PublishDispatch(v)
       PROVE  \/ session'[s] = session[s] /\ writer' = writer
              \/ session'[s].pc = "locking"
  <2>1. v \in Sessions /\ Others(v) /\ writer' = writer
    BY <1>16, PublishDispatchMoves DEF PublishDispatch
  <2>2. CASE v = s
    <3>1. PICK i \in 1..Len(Queues) : session'[s] = [session[s] EXCEPT !.pc = "locking", !.at = i]
      BY <1>16, <2>2, PublishDispatchMoves
    <3>2. session[s] \in SessionState
      BY <1>1
    <3>3. session'[s].pc = "locking"
      BY <3>1, <3>2 DEF SessionState
    <3>. QED
      BY <3>3
  <2>. QED
    BY <1>1, <2>1, <2>2 DEF Others
<1>17. CASE UNCHANGED <<session, writer>>
  BY <1>3, <1>17
<1>. QED
  BY <1>3, <1>14, <1>15, <1>16, <1>17, WhoMoves

(***************************************************************************)
(* The broker, and how often a message is stored.                          *)
(***************************************************************************)
LEMMA Storing ==
  ASSUME IInv, NEW s \in Publishers, Routed(s) \/ UNCHANGED stored, stored[s] <= 1
  PROVE  /\ stored' \in [Publishers -> 0..2] /\ stored'[s] <= stored[s] + 1
         /\ \A v \in Publishers \ {s} : stored'[v] = stored[v]
<1>1. stored \in [Publishers -> 0..2] /\ stored[s] \in 0..1
  BY DEF IInv, Broker
<1>2. CASE UNCHANGED stored
  BY <1>1, <1>2
<1>3. CASE stored' = [stored EXCEPT ![s] = @ + 1]
  BY <1>1, <1>3
<1>. QED
  BY <1>2, <1>3 DEF Routed

LEMMA BrokerStep == IInv /\ [Next]_vars => Broker' /\ StoredPerAttempt'
<1>. SUFFICES ASSUME IInv, [Next]_vars PROVE Broker' /\ StoredPerAttempt'
  OBVIOUS
<1>1. /\ topology \subseteq Items \X QueueNames /\ plain \subseteq QueueNames
      /\ stored \in [Publishers -> 0..2] /\ dropped \subseteq Publishers
  BY DEF IInv, Broker
<1>2. \A s \in Publishers : s \in Sessions /\ stored[s] <= Attempts(s) /\ stored[s] \in 0..2
  BY <1>1, SessionsAreNamed DEF IInv, StoredPerAttempt
<1>3. ASSUME topology' \subseteq Items \X QueueNames, plain' \subseteq QueueNames,
             UNCHANGED <<stored, dropped>>, \A s \in Publishers : stored[s] <= Attempts(s)'
      PROVE  Broker' /\ StoredPerAttempt'
  BY <1>1, <1>3 DEF Broker, StoredPerAttempt
<1>4. \A s \in Publishers : Attempts(s) \in 0..2 /\ Attempts(s)' \in 0..2
  BY DEF Attempts
<1>5. ASSUME NEW s \in Publishers, Attempts(s)' = Attempts(s) \/ session'[s].pc \in Ended
      PROVE  stored[s] <= Attempts(s)'
  <2>1. CASE session'[s].pc \in Ended
    <3>1. Attempts(s)' = 2
      BY <2>1 DEF Attempts
    <3>. QED
      BY <1>2, <3>1
  <2>. QED
    BY <1>2, <1>5, <2>1
<1>6. ASSUME UNCHANGED session PROVE \A s \in Publishers : Attempts(s)' = Attempts(s)
  BY <1>6 DEF Attempts
<1>7. ASSUME NEW s \in Sessions, Others(s), NEW v \in Publishers, v # s
      PROVE  Attempts(v)' = Attempts(v)
  BY <1>2, <1>7 DEF Others, Attempts
<1>8. ASSUME NEW s \in Publishers, session[s].pc \notin Ended, session'[s].pc \notin Ended,
             session'[s].retried = session[s].retried
      PROVE  Attempts(s)' = Attempts(s)
  BY <1>8 DEF Attempts
<1>9. ASSUME NEW s \in Sessions, Others(s), UNCHANGED brokerVars,
             \/ session[s].pc \notin Ended /\ session'[s].retried = session[s].retried
             \/ session'[s].pc \in Ended
      PROVE  Broker' /\ StoredPerAttempt'
  <2>1. ASSUME NEW v \in Publishers
        PROVE  Attempts(v)' = Attempts(v) \/ session'[v].pc \in Ended
    BY <1>7, <1>8, <1>9, <2>1
  <2>. QED
    BY <1>1, <1>3, <1>5, <1>9, <2>1 DEF brokerVars
<1>10. ASSUME NEW p \in Producers, Run(p) PROVE Broker' /\ StoredPerAttempt'
  <2>1. /\ p \in Sessions /\ Others(p) /\ session[p].pc = "idle"
        /\ session'[p] = [session[p] EXCEPT !.pc = "locking"]
    BY <1>10, RunMoves
  <2>2. session'[p].retried = session[p].retried
    <3>1. session[p] \in SessionState
      BY <2>1, WorkPlace
    <3>. QED
      BY <2>1, <3>1 DEF SessionState
  <2>. QED
    BY <1>9, <1>10, <2>1, <2>2 DEF Run, Ended
<1>11. ASSUME NEW s \in Publishers, PublishDispatch(s) PROVE Broker' /\ StoredPerAttempt'
  <2>1. s \in Sessions /\ Others(s) /\ session[s].pc = "idle"
    BY <1>11, PublishDispatchMoves
  <2>2. session'[s].retried = session[s].retried
    <3>1. session[s] \in SessionState
      BY <2>1, WorkPlace
    <3>2. PICK i \in 1..Len(Queues) : session'[s] = [session[s] EXCEPT !.pc = "locking", !.at = i]
      BY <1>11, PublishDispatchMoves
    <3>. QED
      BY <3>1, <3>2 DEF SessionState
  <2>. QED
    BY <1>9, <1>11, <2>1, <2>2 DEF PublishDispatch, Ended
<1>12. ASSUME NEW s \in Sessions, Lock(s) PROVE Broker' /\ StoredPerAttempt'
  <2>1. Others(s) /\ session[s].pc = "locking" /\ UNCHANGED brokerVars
    BY <1>12, LockMoves
  <2>2. \/ session'[s] = [session[s] EXCEPT !.pc = "declare", !.ch = Cached(s)]
        \/ session'[s] = [session[s] EXCEPT !.pc = "open"]
    BY <1>12, LockMoves
  <2>3. session[s] \in SessionState
    BY WorkPlace
  <2>4. session'[s].retried = session[s].retried
    BY <2>2, <2>3 DEF SessionState
  <2>. QED
    BY <1>9, <2>1, <2>4 DEF Ended
<1>13. ASSUME NEW s \in Sessions, Open(s) PROVE Broker' /\ StoredPerAttempt'
  <2>1. Others(s) /\ session[s].pc = "open" /\ UNCHANGED brokerVars
    BY <1>13, OpenMoves
  <2>2. PICK c \in Channels : session'[s] = [session[s] EXCEPT !.pc = "declare", !.ch = c, !.step = 1]
    BY <1>13, OpenMoves
  <2>3. session[s] \in SessionState
    BY WorkPlace
  <2>4. session'[s].retried = session[s].retried
    BY <2>2, <2>3 DEF SessionState
  <2>. QED
    BY <1>9, <2>1, <2>4 DEF Ended
<1>14. ASSUME NEW s \in Sessions, Fail(s), session[s].pc \in Working
       PROVE  /\ Others(s)
              /\ \/ session[s].pc \notin Ended /\ session'[s].retried = session[s].retried
                 \/ session'[s].pc \in Ended
  <2>1. Others(s) /\ session'[s].pc \in {"closing", "failed"}
    BY <1>14, Fails DEF IInv, Shapes
  <2>2. CASE s \in Producers /\ session[s].at > 1
    <3>1. session'[s] = [session[s] EXCEPT !.pc = "closing", !.ch = None]
      BY <1>14, <2>2 DEF Fail, IInv, Shapes, SessionShape
    <3>2. session[s] \in SessionState
      BY WorkPlace
    <3>3. session'[s].retried = session[s].retried
      BY <3>1, <3>2 DEF SessionState
    <3>. QED
      BY <1>14, <2>1, <3>3 DEF Working, Ended
  <2>3. CASE ~(s \in Producers /\ session[s].at > 1)
    BY <1>14, <2>1, <2>3, Returns DEF Fail, Ended, IInv, Shapes
  <2>. QED
    BY <2>2, <2>3
<1>15. ASSUME NEW s \in Sessions, OpenFails(s) PROVE Broker' /\ StoredPerAttempt'
  <2>1. session[s].pc = "open" /\ Fail(s) /\ UNCHANGED brokerVars
    BY <1>15, OpenFailsMoves
  <2>. QED
    BY <1>9, <1>14, <2>1 DEF Working
<1>16. ASSUME NEW s \in Sessions, DeclareFails(s) PROVE Broker' /\ StoredPerAttempt'
  <2>1. session[s].pc = "declare" /\ UNCHANGED brokerVars
    BY <1>16, DeclareFailsMoves
  <2>2. CASE Others(s) /\ session'[s] = [session[s] EXCEPT !.pc = "open", !.ch = None]
    <3>1. session[s] \in SessionState
      BY WorkPlace
    <3>2. session'[s] = [session[s] EXCEPT !.pc = "open", !.ch = None]
      BY <2>2
    <3>3. session'[s].retried = session[s].retried
      BY <3>1, <3>2 DEF SessionState
    <3>. QED
      BY <1>9, <2>1, <2>2, <3>3 DEF Ended
  <2>3. CASE Fail(s)
    BY <1>9, <1>14, <2>1, <2>3 DEF Working
  <2>. QED
    BY <1>16, <2>2, <2>3, DeclareFailsMoves
<1>17. ASSUME NEW s \in Sessions, Declare(s) PROVE Broker' /\ StoredPerAttempt'
  <2>1. /\ session[s].pc = "declare" /\ Others(s) /\ UNCHANGED <<stored, dropped>>
        /\ session[s] \in SessionState /\ Producer(s) \in Producers /\ Queue(s) \in QueueNames
    BY <1>17, DeclareMoves, WorkPlace
  <2>2. Item(s) \in Items
    <3>1. session[s].step \in 1..3 /\ session[s].step <= Len(Topology(Producer(s)))
      BY <2>1 DEF IInv, SessionsOwn, SessionState
    <3>2. Len(Topology(Producer(s))) \in {2, 3}
      BY <2>1, TopologyType
    <3>. DEFINE n == Len(Topology(Producer(s)))
                i == session[s].step
    <3>3. i \in 1..n
      <4>1. i \in 1..3 /\ i <= n /\ n \in {2, 3}
        BY <3>1, <3>2
      <4>. HIDE DEF n, i
      <4>. QED
        BY <4>1
    <3>. QED
      BY <2>1, <3>3, TopologyType DEF Item
  <2>3. topology' \subseteq Items \X QueueNames /\ plain' \subseteq QueueNames
    BY <1>1, <1>17, <2>1, <2>2 DEF Declare
  <2>4. \A v \in Publishers \ {s} : Attempts(v)' = Attempts(v)
    BY <1>7, <2>1
  <2>5. \A v \in Publishers : v = s => Attempts(v)' = Attempts(v) \/ session'[v].pc \in Ended
    <3>1. CASE session'[s] = [session[s] EXCEPT !.step = @ + 1] \/ session'[s] = [session[s] EXCEPT !.pc = "publish"]
      <4>1. session[s] \in SessionState
        BY <2>1
      <4>2. session'[s].retried = session[s].retried /\ session'[s].pc \in {session[s].pc, "publish"}
        BY <3>1, <4>1 DEF SessionState
      <4>. QED
        BY <1>8, <2>1, <4>2 DEF Ended
    <3>2. CASE session'[s].pc = "done"
      BY <3>2 DEF Ended
    <3>3. CASE s \in Producers
      BY <3>3, SessionsAreNamed
    <3>. QED
      BY <1>17, <3>1, <3>2, <3>3, DeclareMoves
  <2>. QED
    BY <1>3, <1>5, <2>1, <2>3, <2>4, <2>5
<1>18. ASSUME NEW s \in Publishers, s \in Sessions, Others(s), UNCHANGED <<topology, plain>>,
              dropped' \subseteq Publishers, Routed(s) \/ UNCHANGED stored,
              session[s].pc \notin Ended,
              \/ session'[s].pc \in Ended
              \/ ~session[s].retried /\ session'[s].retried
       PROVE  Broker' /\ StoredPerAttempt'
  <2>1. stored[s] <= 1
    BY <1>2, <1>18 DEF Attempts
  <2>2. /\ stored' \in [Publishers -> 0..2] /\ stored'[s] <= stored[s] + 1
        /\ \A v \in Publishers \ {s} : stored'[v] = stored[v]
    BY <1>18, <2>1, Storing
  <2>3. stored'[s] <= Attempts(s)'
    <3>1. CASE session'[s].pc \in Ended
      <4>1. Attempts(s)' = 2 /\ stored'[s] \in 0..2
        BY <1>18, <2>2, <3>1 DEF Attempts
      <4>. QED
        BY <4>1
    <3>2. CASE session'[s].pc \notin Ended
      <4>1. Attempts(s) = 0 /\ Attempts(s)' = 1
        BY <1>18, <3>2 DEF Attempts
      <4>2. stored[s] = 0
        BY <1>2, <4>1
      <4>. QED
        BY <2>2, <4>1, <4>2
    <3>. QED
      BY <3>1, <3>2
  <2>4. \A v \in Publishers \ {s} : stored'[v] <= Attempts(v)'
    BY <1>2, <1>7, <1>18, <2>2
  <2>. QED
    BY <1>1, <1>18, <2>2, <2>3, <2>4 DEF Broker, StoredPerAttempt
<1>19. ASSUME NEW s \in Sessions, Publish(s) PROVE Broker' /\ StoredPerAttempt'
  <2>1. s \in Publishers /\ session[s].pc = "publish"
    BY <1>19, PublishMoves DEF IInv, SessionsOwn
  <2>2. dropped' \subseteq Publishers /\ (Routed(s) \/ UNCHANGED stored)
    BY <1>1, <1>19, <2>1 DEF Publish
  <2>. QED
    BY <1>18, <1>19, <2>1, <2>2, PublishMoves DEF Ended
<1>20. ASSUME NEW s \in Sessions, PublishFails(s) PROVE Broker' /\ StoredPerAttempt'
  <2>1. /\ s \in Publishers /\ session[s].pc = "publish" /\ Others(s)
        /\ UNCHANGED <<topology, plain, dropped>>
    BY <1>20, PublishFailsMoves DEF IInv, SessionsOwn
  <2>2. Routed(s) \/ UNCHANGED stored
    BY <1>20 DEF PublishFails
  <2>3. CASE ~session[s].retried /\ session'[s] = [session[s] EXCEPT !.pc = "open", !.ch = None, !.retried = TRUE]
    <3>1. session[s] \in SessionState
      BY WorkPlace
    <3>2. session'[s] = [session[s] EXCEPT !.pc = "open", !.ch = None, !.retried = TRUE]
      BY <2>3
    <3>3. session'[s].retried
      BY <3>1, <3>2 DEF SessionState
    <3>. QED
      BY <1>1, <1>18, <2>1, <2>2, <2>3, <3>3 DEF Ended
  <2>4. CASE session'[s].pc = "failed"
    BY <1>1, <1>18, <2>1, <2>2, <2>4 DEF Ended
  <2>. QED
    BY <1>20, <2>3, <2>4, PublishFailsMoves
<1>21. ASSUME UNCHANGED <<session, stored, dropped>>,
              topology' \subseteq Items \X QueueNames, plain' \subseteq QueueNames
       PROVE  Broker' /\ StoredPerAttempt'
  BY <1>3, <1>5, <1>6, <1>21
<1>22. ASSUME ConnectionLost \/ Reconnect \/ UNCHANGED vars PROVE Broker' /\ StoredPerAttempt'
  BY <1>1, <1>21, <1>22 DEF ConnectionLost, Reconnect, vars, brokerVars
<1>. QED
  BY <1>10, <1>11, <1>12, <1>13, <1>15, <1>16, <1>17, <1>19, <1>20, <1>22 DEF Next, BrokerCall

LEMMA ShapesStep == IInv /\ [Next]_vars => Shapes'
<1>. SUFFICES ASSUME IInv, [Next]_vars PROVE Shapes'
  OBVIOUS
<1>1. ASSUME NEW s \in Sessions, OpenFails(s) \/ Declare(s) \/ DeclareFails(s) PROVE Shapes'
  BY <1>1, OpenFailsMoves, DeclareMoves, DeclareFailsMoves
<1>2. ASSUME NEW s \in Sessions, Lock(s) \/ Open(s) \/ Publish(s) \/ PublishFails(s) PROVE Shapes'
  BY <1>2, LockMoves, OpenMoves, PublishMoves, PublishFailsMoves
<1>. QED
  BY <1>1, <1>2, RunMoves, PublishDispatchMoves, ConnectionLostMoves, ReconnectMoves, Stutters
  DEF Next, BrokerCall

LEMMA Invariance == Spec => []IInv
<1>1. IInv /\ [Next]_vars => IInv'
  BY ShapesStep, OwnStep, PlacesStep, RunsFirstStep, FreshStep, ReplacesStep, BrokerStep DEF IInv
<1>. QED
  BY <1>1, InitIInv, PTL DEF Spec

-----------------------------------------------------------------------------
(***************************************************************************)
(* The theorems.                                                           *)
(***************************************************************************)
(* Type correctness; a message is stored at most twice, once by each of    *)
(* the two attempts of PublishDispatch.                                    *)
THEOREM TypeCorrect == Spec => []TypeOK
<1>1. IInv => TypeOK
  <2>. SUFFICES ASSUME IInv PROVE TypeOK
    OBVIOUS
  <2>1. session \in [Sessions ->
          [pc : {"idle", "locking", "open", "declare", "publish", "closing"} \cup Ended,
           at : 1..Len(Queues), ch : Channels \cup {None}, step : 1..3, retried : BOOLEAN]]
    <3>1. Pcs = {"idle", "locking", "open", "declare", "publish", "closing"} \cup Ended
      BY DEF Pcs, Ended
    <3>. QED
      BY <3>1 DEF IInv, Shapes, SessionShape, SessionState
  <2>2. /\ connected \in BOOLEAN /\ emptied \in BOOLEAN
        /\ faults \in 0..MaxFaults /\ outages \in 0..MaxOutages
    BY DEF IInv, Shapes, NetShape
  <2>. QED
    BY <2>1, <2>2 DEF TypeOK, IInv, Shapes, ChannelShape, LockShape, WriterShape, Broker
<1>. QED
  BY <1>1, Invariance, PTL

(* The channels of the producers are owned: each is the cached writer of   *)
(* one queue or in the hands of the one session that holds the mutex, and  *)
(* none is leaked, however calls, failures and outages interleave.         *)
THEOREM ChannelsOwned == Spec => []ChannelsAreOwned
<1>1. IInv => ChannelsAreOwned
  <2>. SUFFICES ASSUME IInv PROVE ChannelsAreOwned
    OBVIOUS
  <2>1. ASSUME NEW s \in Sessions, Held(s) # None PROVE lock[Producer(s)] = s
    BY <2>1 DEF IInv, SessionsOwn, Working
  <2>2. ASSUME NEW c \in Channels, channel[c] = "free" PROVE Owners(c) = {}
    <3>1. \A p \in Producers : \A q \in QueueNames : ~Uses(p, q, c)
      BY <2>2 DEF IInv, Live
    <3>2. \A p \in Producers : \A q \in QueueNames : writer[p][q] # c
      BY <3>1 DEF Uses
    <3>3. \A s \in Sessions : Held(s) # c
      BY <3>1, WorkPlace DEF Uses
    <3>. QED
      BY <3>2, <3>3 DEF Owners
  <2>3. ASSUME NEW c \in Channels, channel[c] # "free" PROVE Cardinality(Owners(c)) = 1
    <3>1. PICK p \in Producers, q \in QueueNames : Uses(p, q, c)
      BY <2>3 DEF IInv, Live
    <3>2. \A o \in Producers : \A r \in QueueNames : writer[o][r] = c => o = p /\ r = q
      BY <3>1 DEF IInv, Once, Uses
    <3>3. \A s \in Sessions : Held(s) = c => Producer(s) = p /\ Queue(s) = q
      <4>. SUFFICES ASSUME NEW s \in Sessions, Held(s) = c PROVE Producer(s) = p /\ Queue(s) = q
        OBVIOUS
      <4>1. Producer(s) \in Producers /\ Queue(s) \in QueueNames
        BY WorkPlace
      <4>2. Uses(Producer(s), Queue(s), c)
        BY DEF Uses
      <4>. QED
        BY <3>1, <4>1, <4>2 DEF IInv, Once
    <3>4. CASE writer[p][q] = c
      <4>1. \A s \in Sessions : Held(s) = c => Cached(s) = c
        BY <3>3, <3>4 DEF Cached
      <4>2. Owners(c) = {<<p, q>>}
        BY <3>2, <3>4, <4>1 DEF Owners
      <4>. QED
        BY <4>2, FS_Singleton
    <3>5. CASE writer[p][q] # c
      <4>1. PICK s \in Sessions : Held(s) = c /\ Producer(s) = p /\ Queue(s) = q
        BY <3>1, <3>5 DEF Uses
      <4>2. Cached(s) # c
        BY <3>5, <4>1 DEF Cached
      <4>3. \A v \in Sessions : Held(v) = c => v = s
        BY <2>1, <3>3, <4>1, SessionsAreNamed
      <4>4. \A o \in Producers : \A r \in QueueNames : writer[o][r] # c
        BY <3>2, <3>5
      <4>5. Owners(c) = {<<s, q>>}
        BY <4>1, <4>2, <4>3, <4>4 DEF Owners
      <4>. QED
        BY <4>5, FS_Singleton
    <3>. QED
      BY <3>4, <3>5
  <2>. QED
    BY <2>1, <2>2, <2>3 DEF ChannelsAreOwned
<1>. QED
  BY <1>1, Invariance, PTL

-----------------------------------------------------------------------------
(***************************************************************************)
(* What has been declared, as long as the broker keeps its data.           *)
(***************************************************************************)
HasDeadLetters(q) == <<"deadLetters", q>> \in topology

(* A session has declared the items before the one it is at; the HTTP      *)
(* server's producer has declared dead letters for the queues before its   *)
(* queue, and when it is done, which the dry-run producer waits for, for   *)
(* all of them.                                                            *)
DeclaredSoFar ==
  \A s \in Sessions : session[s].pc = "declare" =>
    \A i \in 1..3 : i < session[s].step => <<Topology(Producer(s))[i], Queue(s)>> \in topology
HttpDeclares ==
  "http" \in Producers =>
    \A i \in 1..Len(Queues) :
      i < session["http"].at \/ session["http"].pc = "done" => HasDeadLetters(Queues[i])
QueuesHaveDeadLetters ==
  \A q \in QueueNames \ plain : <<"queue", q>> \in topology => HasDeadLetters(q)

DInv == IInv /\ (~emptied => DeclaredSoFar /\ HttpDeclares /\ QueuesHaveDeadLetters)

LEMMA InitDInv == Init => DInv
<1>. SUFFICES ASSUME Init PROVE DInv
  OBVIOUS
<1>1. DeclaredSoFar
  BY DEF Init, DeclaredSoFar, Idle
<1>2. HttpDeclares
  <2>1. "http" \in Producers => session["http"].pc = "idle" /\ session["http"].at = 1
    BY SessionsAreNamed DEF Init, Idle
  <2>2. \A i \in 1..Len(Queues) : ~(i < 1)
    BY QueuesAreNamed
  <2>. QED
    BY <2>1, <2>2 DEF HttpDeclares
<1>3. QueuesHaveDeadLetters
  BY DEF Init, QueuesHaveDeadLetters
<1>. QED
  BY <1>1, <1>2, <1>3, InitIInv DEF DInv

(* The broker's data: only Declare adds to it, only Reconnect empties it.  *)
LEMMA TopologyGrows ==
  ASSUME IInv, [Next]_vars, ~emptied'
  PROVE  /\ ~emptied /\ topology \subseteq topology' /\ plain' = plain
         /\ (\E s \in Sessions : Declare(s)) \/ topology' = topology
<1>1. ASSUME NEW s \in Sessions, Declare(s)
      PROVE  ~emptied /\ topology \subseteq topology' /\ plain' = plain
  BY <1>1, ProducerType DEF Declare, HasDeadLetterArgs, netVars
<1>2. ASSUME NEW s \in Sessions, OpenFails(s) \/ DeclareFails(s)
      PROVE  ~emptied /\ topology = topology' /\ plain' = plain
  BY <1>2, OpenFailsMoves, DeclareFailsMoves DEF netVars, brokerVars
<1>3. ASSUME NEW s \in Sessions, Lock(s) \/ Open(s) \/ Publish(s) \/ PublishFails(s)
      PROVE  ~emptied /\ topology = topology' /\ plain' = plain
  BY <1>3, LockMoves, OpenMoves, PublishMoves, PublishFailsMoves DEF netVars, brokerVars
<1>4. ASSUME NEW s \in Sessions, Run(s) \/ PublishDispatch(s)
      PROVE  ~emptied /\ topology = topology' /\ plain' = plain
  BY <1>4 DEF Run, PublishDispatch, netVars, brokerVars
<1>5. ASSUME ConnectionLost \/ Reconnect \/ UNCHANGED vars
      PROVE  ~emptied /\ topology = topology' /\ plain' = plain
  BY <1>5, ReconnectMoves DEF ConnectionLost, vars, netVars, brokerVars
<1>. QED
  BY <1>1, <1>2, <1>3, <1>4, <1>5, SessionsAreNamed DEF Next, BrokerCall

(* The step of a Declare.                                                  *)
LEMMA DeclareAdds ==
  ASSUME IInv, NEW s \in Sessions, Declare(s), DeclaredSoFar
  PROVE  /\ topology' = topology \cup {<<Topology(Producer(s))[session[s].step], Queue(s)>>}
         /\ session[s].pc = "declare" /\ session[s].step \in 1..3
         /\ session[s].step <= Len(Topology(Producer(s)))
         /\ \A i \in 1..3 : i <= session[s].step =>
              <<Topology(Producer(s))[i], Queue(s)>> \in topology'
<1>1. topology' = topology \cup {<<Topology(Producer(s))[session[s].step], Queue(s)>>}
  BY DEF Declare, Item
<1>2. session[s].pc = "declare" /\ session[s].step \in 1..3
  BY DeclareMoves, WorkPlace DEF SessionState
<1>3. session[s].step <= Len(Topology(Producer(s)))
  BY <1>2 DEF IInv, SessionsOwn
<1>4. ASSUME NEW i \in 1..3, i <= session[s].step
      PROVE  <<Topology(Producer(s))[i], Queue(s)>> \in topology'
  <2>1. CASE i = session[s].step
    BY <1>1, <2>1
  <2>2. CASE i < session[s].step
    BY <1>1, <1>2, <2>2 DEF DeclaredSoFar
  <2>. QED
    BY <1>2, <1>4, <2>1, <2>2
<1>. QED
  BY <1>1, <1>2, <1>3, <1>4

LEMMA DeclaredStep ==
  ASSUME IInv, DeclaredSoFar, [Next]_vars, ~emptied'
  PROVE  DeclaredSoFar'
<1>. SUFFICES ASSUME NEW s \in Sessions, session'[s].pc = "declare",
                     NEW i \in 1..3, i < session'[s].step
              PROVE  <<Topology(Producer(s))[i], Queue(s)'>> \in topology'
  BY DEF DeclaredSoFar, Producer
<1>0. topology \subseteq topology'
  BY TopologyGrows
<1>1. session[s] \in SessionState
  BY WorkPlace
<1>2. CASE session'[s] = session[s]
  BY <1>0, <1>2 DEF DeclaredSoFar, Queue
<1>3. ASSUME session'[s].step = 1 PROVE FALSE
  BY <1>3
<1>4. CASE Lock(s)
  <2>1. /\ session[s].pc = "locking"
        /\ \/ session'[s] = [session[s] EXCEPT !.pc = "declare", !.ch = Cached(s)]
           \/ session'[s] = [session[s] EXCEPT !.pc = "open"]
    BY <1>4, LockMoves
  <2>2. session'[s].step = session[s].step
    BY <1>1, <2>1 DEF SessionState
  <2>3. session[s].step = 1
    BY <2>1 DEF IInv, SessionsOwn
  <2>. QED
    BY <1>3, <2>2, <2>3
<1>5. CASE Open(s)
  <2>1. PICK c \in Channels : session'[s] = [session[s] EXCEPT !.pc = "declare", !.ch = c, !.step = 1]
    BY <1>5, OpenMoves
  <2>2. session'[s].step = 1
    BY <1>1, <2>1 DEF SessionState
  <2>. QED
    BY <1>3, <2>2
<1>6. CASE Declare(s)
  <2>1. session'[s] = [session[s] EXCEPT !.step = @ + 1]
    <3>1. session'[s] # [session[s] EXCEPT !.pc = "publish"]
      BY <1>1 DEF SessionState
    <3>. QED
      BY <1>6, <3>1, DeclareMoves
  <2>2. session'[s].step = session[s].step + 1 /\ session'[s].at = session[s].at
    BY <1>1, <2>1 DEF SessionState
  <2>3. /\ session[s].step \in 1..3
        /\ \A j \in 1..3 : j <= session[s].step => <<Topology(Producer(s))[j], Queue(s)>> \in topology'
    BY <1>6, DeclareAdds
  <2>4. i <= session[s].step /\ Queue(s)' = Queue(s)
    BY <2>2, <2>3 DEF Queue
  <2>. QED
    BY <2>3, <2>4
<1>7. ASSUME Fail(s) PROVE FALSE
  BY <1>7, Fails DEF IInv, Shapes
<1>8. CASE OpenFails(s) \/ DeclareFails(s)
  <2>1. session'[s] # [session[s] EXCEPT !.pc = "open", !.ch = None]
    BY <1>1 DEF SessionState
  <2>. QED
    BY <1>7, <1>8, <2>1, OpenFailsMoves, DeclareFailsMoves
<1>9. CASE Publish(s) \/ PublishFails(s)
  <2>1. session'[s] # [session[s] EXCEPT !.pc = "open", !.ch = None, !.retried = TRUE]
    BY <1>1 DEF SessionState
  <2>. QED
    BY <1>9, <2>1, PublishMoves, PublishFailsMoves
<1>10. ASSUME NEW p \in Producers, Run(p)
       PROVE  session'[s] = session[s]
  <2>1. p \in Sessions /\ Others(p) /\ session'[p] = [session[p] EXCEPT !.pc = "locking"]
    BY <1>10, RunMoves
  <2>2. session'[p].pc = "locking"
    <3>1. session[p] \in SessionState
      BY <2>1, WorkPlace
    <3>. QED
      BY <2>1, <3>1 DEF SessionState
  <2>. QED
    BY <2>1, <2>2 DEF Others
<1>11. ASSUME NEW v \in Publishers, PublishDispatch(v)
       PROVE  session'[s] = session[s]
  <2>1. v \in Sessions /\ Others(v)
    BY <1>11, PublishDispatchMoves
  <2>2. session'[v].pc = "locking"
    <3>1. session[v] \in SessionState
      BY <2>1, WorkPlace
    <3>2. PICK j \in 1..Len(Queues) : session'[v] = [session[v] EXCEPT !.pc = "locking", !.at = j]
      BY <1>11, PublishDispatchMoves
    <3>. QED
      BY <3>1, <3>2 DEF SessionState
  <2>. QED
    BY <2>1, <2>2 DEF Others
<1>12. ASSUME NEW v \in Sessions, Acts(v), Lock(v) \/ BrokerCall(v)
       PROVE  <<Topology(Producer(s))[i], Queue(s)'>> \in topology'
  <2>1. CASE v = s
    BY <1>4, <1>5, <1>6, <1>8, <1>9, <1>12, <2>1 DEF BrokerCall
  <2>2. CASE v # s
    BY <1>2, <1>12, <2>2 DEF Acts, Others
  <2>. QED
    BY <2>1, <2>2
<1>. QED
  BY <1>2, <1>10, <1>11, <1>12, WhoMoves

(* What the HTTP server's producer has declared.                           *)
LEMMA HttpStep ==
  ASSUME IInv, DeclaredSoFar, HttpDeclares, [Next]_vars, ~emptied'
  PROVE  HttpDeclares'
<1>. SUFFICES ASSUME "http" \in Producers, NEW i \in 1..Len(Queues),
                     i < session'["http"].at \/ session'["http"].pc = "done"
              PROVE  HasDeadLetters(Queues[i])'
  BY DEF HttpDeclares, HasDeadLetters
<1>. DEFINE h == "http"
<1>1. h \in Sessions /\ Producer(h) = h /\ session[h] \in SessionState /\ Len(Queues) \in Nat
  BY SessionsAreNamed, WorkPlace, QueuesAreNamed DEF Producer
<1>2. HasDeadLetters(Queues[i]) => HasDeadLetters(Queues[i])'
  BY TopologyGrows DEF HasDeadLetters
<1>3. (i < session[h].at \/ session[h].pc = "done") => HasDeadLetters(Queues[i])
  BY DEF HttpDeclares
<1>4. ASSUME session'[h].at = session[h].at, session'[h].pc # "done" \/ session[h].pc = "done"
      PROVE  HasDeadLetters(Queues[i])'
  BY <1>2, <1>3, <1>4
<1>5. session[h].at \in 1..Len(Queues)
  BY <1>1 DEF SessionState
<1>6. ASSUME Declare(h), i <= session[h].at PROVE HasDeadLetters(Queues[i])'
  <2>1. CASE i < session[h].at
    BY <1>2, <1>3, <2>1
  <2>2. CASE i = session[h].at
    <3>1. <<Topology(h)[1], Queue(h)>> \in topology'
      <4>0. session[h].step \in 1..3
        BY <1>1 DEF SessionState
      <4>1. session[h].step \in 1..3 /\ 1 <= session[h].step /\ 1 \in 1..3
        BY <4>0
      <4>2. \A j \in 1..3 : j <= session[h].step => <<Topology(Producer(h))[j], Queue(h)>> \in topology'
        BY <1>1, <1>6, DeclareAdds
      <4>. QED
        BY <1>1, <4>1, <4>2
    <3>2. Topology(h)[1] = "deadLetters"
      BY TopologyType
    <3>. QED
      BY <2>2, <3>1, <3>2 DEF HasDeadLetters, Queue
  <2>. QED
    BY <1>5, <1>6, <2>1, <2>2
<1>. HIDE DEF h
<1>7. ASSUME session'[h] = session[h] PROVE HasDeadLetters(Queues[i])'
  BY <1>4, <1>7
<1>8. CASE Declare(h)
  <2>1. CASE session'[h] = [session[h] EXCEPT !.step = @ + 1]
    <3>1. session'[h].at = session[h].at /\ session'[h].pc = session[h].pc
      BY <1>1, <2>1 DEF SessionState
    <3>. QED
      BY <1>4, <3>1
  <2>2. CASE LastQueue(h)
    <3>1. i <= session[h].at
      BY <2>2 DEF LastQueue
    <3>. QED
      BY <1>6, <1>8, <3>1
  <2>3. CASE session'[h].at = session[h].at + 1 /\ session'[h].pc = "open"
    <3>1. i <= session[h].at
      BY <1>5, <2>3 DEF h
    <3>. QED
      BY <1>6, <1>8, <3>1
  <2>. QED
    BY <1>1, <1>8, <2>1, <2>2, <2>3, DeclareMoves, SessionsAreNamed DEF h
<1>9. CASE session'[h].pc = "failed" /\ session'[h].at = 1
  BY <1>9, QueuesAreNamed DEF h
<1>10. ASSUME Lock(h) \/ Open(h)
       PROVE  session'[h].at = session[h].at /\ session'[h].pc # "done"
  <2>1. CASE Lock(h)
    <3>1. \/ session'[h] = [session[h] EXCEPT !.pc = "declare", !.ch = Cached(h)]
          \/ session'[h] = [session[h] EXCEPT !.pc = "open"]
      BY <1>1, <2>1, LockMoves
    <3>2. session[h] \in SessionState
      BY <1>1
    <3>. QED
      BY <3>1, <3>2 DEF SessionState
  <2>2. CASE Open(h)
    <3>1. PICK c \in Channels : session'[h] = [session[h] EXCEPT !.pc = "declare", !.ch = c, !.step = 1]
      BY <1>1, <2>2, OpenMoves
    <3>2. session[h] \in SessionState
      BY <1>1
    <3>. QED
      BY <3>1, <3>2 DEF SessionState
  <2>. QED
    BY <1>10, <2>1, <2>2
<1>11. ASSUME Fail(h) PROVE HasDeadLetters(Queues[i])'
  <2>1. \/ session'[h].pc = "closing" /\ session'[h].at = session[h].at
        \/ session'[h].pc = "failed" /\ session'[h].at = 1
    BY <1>1, <1>11, Fails DEF IInv, Shapes
  <2>. QED
    BY <1>4, <1>9, <2>1
<1>12. CASE DeclareFails(h) \/ OpenFails(h)
  <2>1. CASE session'[h] = [session[h] EXCEPT !.pc = "open", !.ch = None]
    <3>1. session'[h].at = session[h].at /\ session'[h].pc = "open"
      BY <1>1, <2>1 DEF SessionState
    <3>. QED
      BY <1>4, <3>1
  <2>. QED
    BY <1>1, <1>11, <1>12, <2>1, DeclareFailsMoves, OpenFailsMoves
<1>13. ~Publish(h) /\ ~PublishFails(h)
  BY <1>1, PublishMoves, PublishFailsMoves, SessionsAreNamed DEF IInv, SessionsOwn, h
<1>14. ASSUME NEW p \in Producers, Run(p) PROVE HasDeadLetters(Queues[i])'
  <2>1. p \in Sessions /\ Others(p) /\ session'[p] = [session[p] EXCEPT !.pc = "locking"]
    BY <1>14, RunMoves
  <2>2. CASE p = h
    <3>1. session'[h].at = session[h].at /\ session'[h].pc = "locking"
      BY <1>1, <2>1, <2>2 DEF SessionState
    <3>. QED
      BY <1>4, <3>1
  <2>. QED
    BY <1>1, <1>7, <2>1, <2>2 DEF Others
<1>15. ASSUME NEW v \in Publishers, PublishDispatch(v) PROVE session'[h] = session[h]
  BY <1>1, <1>15, PublishDispatchMoves, SessionsAreNamed DEF Others, h
<1>16. ASSUME NEW v \in Sessions, Acts(v), Lock(v) \/ BrokerCall(v)
       PROVE  HasDeadLetters(Queues[i])'
  <2>1. CASE v = h
    BY <1>4, <1>8, <1>10, <1>12, <1>13, <1>16, <2>1 DEF BrokerCall
  <2>2. CASE v # h
    BY <1>1, <1>7, <1>16, <2>2 DEF Acts, Others
  <2>. QED
    BY <2>1, <2>2
<1>. QED
  BY <1>7, <1>14, <1>15, <1>16, WhoMoves

(* A queue is declared by a session that has declared its dead letters, or *)
(* by one of the dry-run producer, when the HTTP server's producer is done.*)
LEMMA DeadLettersStep ==
  ASSUME IInv, DeclaredSoFar, HttpDeclares, QueuesHaveDeadLetters, [Next]_vars, ~emptied'
  PROVE  QueuesHaveDeadLetters'
<1>1. topology \subseteq topology' /\ plain' = plain
  BY TopologyGrows
<1>2. CASE topology' = topology
  BY <1>1, <1>2 DEF QueuesHaveDeadLetters, HasDeadLetters
<1>3. ASSUME NEW s \in Sessions, Declare(s) PROVE QueuesHaveDeadLetters'
  <2>. DEFINE P == Producer(s)
  <2>1. /\ topology' = topology \cup {<<Topology(P)[session[s].step], Queue(s)>>}
        /\ session[s].pc = "declare" /\ session[s].step \in 1..3
        /\ session[s].step <= Len(Topology(P))
        /\ \A i \in 1..3 : i <= session[s].step => <<Topology(P)[i], Queue(s)>> \in topology'
    BY <1>3, DeclareAdds
  <2>2. P \in Producers /\ Queue(s) \in QueueNames /\ session[s] \in SessionState
    BY WorkPlace
  <2>3. CASE P = "dryrun"
    <3>1. "http" \in Producers /\ session["http"].pc = "done"
      <4>1. session["dryrun"].pc # "idle"
        BY <2>1, <2>2, <2>3 DEF IInv, RunsFirst, Producer, Sessions
      <4>. QED
        BY <2>2, <2>3, <4>1, ProducerAssumption DEF IInv, RunsFirst
    <3>2. HasDeadLetters(Queue(s))
      <4>1. session[s].at \in 1..Len(Queues)
        BY <2>2 DEF SessionState
      <4>. QED
        BY <3>1, <4>1 DEF HttpDeclares, Queue
    <3>. QED
      BY <1>1, <2>1, <3>2 DEF QueuesHaveDeadLetters, HasDeadLetters
  <2>4. CASE P # "dryrun"
    <3>1. Topology(P)[1] = "deadLetters"
      BY <2>2, <2>4, TopologyType
    <3>2. <<Topology(P)[1], Queue(s)>> \in topology'
      <4>1. 1 \in 1..3 /\ 1 <= session[s].step
        BY <2>1
      <4>. QED
        BY <2>1, <4>1
    <3>. QED
      BY <1>1, <2>1, <3>1, <3>2 DEF QueuesHaveDeadLetters, HasDeadLetters
  <2>. QED
    BY <2>3, <2>4
<1>. QED
  BY <1>2, <1>3, TopologyGrows

LEMMA DInvStep == DInv /\ [Next]_vars => DInv'
<1>1. IInv /\ [Next]_vars => IInv'
  BY ShapesStep, OwnStep, PlacesStep, RunsFirstStep, FreshStep, ReplacesStep, BrokerStep DEF IInv
<1>. SUFFICES ASSUME DInv, [Next]_vars PROVE DInv'
  OBVIOUS
<1>2. ~emptied' => ~emptied
  BY TopologyGrows DEF DInv
<1>. QED
  BY <1>1, <1>2, DeclaredStep, HttpStep, DeadLettersStep DEF DInv

(* The task queues have their dead letters, whichever producer declares    *)
(* them, as long as the broker keeps its data.                             *)
THEOREM DeadLettersPlaced == Spec => []DeadLettersHaveAPlace
<1>1. DInv => DeadLettersHaveAPlace
  BY DEF DInv, QueuesHaveDeadLetters, HasDeadLetters, DeadLettersHaveAPlace
<1>. QED
  BY <1>1, DInvStep, InitDInv, PTL DEF Spec

-----------------------------------------------------------------------------
(***************************************************************************)
(* A broker that keeps working.                                            *)
(***************************************************************************)
Up == connected /\ ~emptied /\ \A c \in Channels : channel[c] # "lost"
Served == \A s \in Sessions : session[s].pc \notin {"closing", "failed"}
HInv ==
  /\ DInv
  /\ outages = 0 => Up
  /\ faults = 0 /\ outages = 0 /\ plain = {} => Served

LEMMA InitHInv == Init => HInv
<1>. SUFFICES ASSUME Init PROVE HInv
  OBVIOUS
<1>1. Up
  BY DEF Init, Up
<1>2. Served
  BY DEF Init, Served, Idle
<1>. QED
  BY <1>1, <1>2, InitDInv DEF HInv

LEMMA UpStep ==
  ASSUME IInv, outages = 0 => Up, [Next]_vars, outages' = 0
  PROVE  outages = 0 /\ Up'
<1>1. outages \in Nat
  BY Bounds DEF IInv, Shapes, NetShape
<1>2. ~ConnectionLost
  BY <1>1 DEF ConnectionLost
<1>3. outages' = outages
  <2>1. ASSUME NEW s \in Sessions, Lock(s) \/ BrokerCall(s) PROVE outages' = outages
    BY <2>1 DEF Lock, BrokerCall, Open, Opened, OpenFails, Declare, DeclareFails, Publish, PublishFails, netVars
  <2>2. ASSUME NEW s \in Sessions, Run(s) \/ PublishDispatch(s) PROVE outages' = outages
    BY <2>2 DEF Run, PublishDispatch, netVars
  <2>3. CASE Reconnect \/ UNCHANGED vars
    BY <2>3 DEF Reconnect, vars, netVars
  <2>. QED
    BY <1>2, <2>1, <2>2, <2>3, SessionsAreNamed DEF Next
<1>4. Up
  BY <1>3
<1>5. ~Reconnect
  BY <1>4 DEF Reconnect, Up
<1>6. ASSUME UNCHANGED <<netVars, channel>> PROVE Up'
  BY <1>4, <1>6 DEF Up, netVars
<1>7. ASSUME UNCHANGED netVars, NEW c \in Channels, NEW x \in {"free", "open"},
             channel' = [channel EXCEPT ![c] = x]
      PROVE  Up'
  BY <1>4, <1>7 DEF Up, netVars, IInv, Shapes, ChannelShape
<1>8. ASSUME NEW s \in Sessions, Lock(s) \/ Publish(s) \/ PublishFails(s) PROVE Up'
  BY <1>6, <1>7, <1>8, LockMoves, PublishMoves, PublishFailsMoves
<1>9. ASSUME NEW s \in Sessions, Open(s) \/ OpenFails(s) PROVE Up'
  BY <1>6, <1>7, <1>9, OpenMoves, OpenFailsMoves
<1>10. ASSUME NEW s \in Sessions, Declare(s) \/ DeclareFails(s) PROVE Up'
  BY <1>6, <1>7, <1>10, DeclareMoves, DeclareFailsMoves
<1>11. ASSUME NEW s \in Sessions, Run(s) \/ PublishDispatch(s) PROVE Up'
  <2>1. UNCHANGED channel /\ UNCHANGED netVars
    BY <1>11 DEF Run, PublishDispatch, netVars
  <2>. QED
    BY <1>6, <2>1
<1>12. ASSUME UNCHANGED vars PROVE Up'
  BY <1>6, <1>12 DEF vars
<1>. QED
  BY <1>2, <1>3, <1>5, <1>8, <1>9, <1>10, <1>11, <1>12, SessionsAreNamed DEF Next, BrokerCall

(* The calls that fail, fail for a reason.                                 *)
LEMMA CallsFail ==
  ASSUME DInv, Up, plain = {}, faults \in Nat, faults' = 0, NEW s \in Sessions
  PROVE  ~OpenFails(s) /\ ~DeclareFails(s) /\ ~PublishFails(s)
<1>1. ~Fault
  BY DEF Fault
<1>2. ~OpenFails(s)
  BY <1>1 DEF OpenFails, Up
<1>3. ASSUME session[s].pc \in {"declare", "publish"} PROVE channel[Held(s)] # "lost"
  BY <1>3, WorkPlace DEF Up, DInv
<1>4. ~PublishFails(s)
  BY <1>1, <1>3 DEF PublishFails, At
<1>5. ASSUME session[s].pc = "declare" PROVE ~Refused(s)
  <2>1. /\ Producer(s) \in Producers /\ session[s] \in SessionState
        /\ session[s].step <= Len(Topology(Producer(s)))
    BY <1>5, WorkPlace DEF DInv, IInv, SessionsOwn
  <2>2. Queue(s) \notin plain /\ HasDeadLetterArgs(Producer(s))
    BY <2>1 DEF HasDeadLetterArgs
  <2>3. ASSUME Item(s) = "bind" PROVE <<"queue", Queue(s)>> \in topology
    <3>1. session[s].step \in 1..3 /\ DeclaredSoFar
      BY <2>1 DEF SessionState, Up, DInv
    <3>. DEFINE k == session[s].step
    <3>2. \A i \in 1..3 : i < k => <<Topology(Producer(s))[i], Queue(s)>> \in topology
      BY <1>5, <3>1 DEF DeclaredSoFar
    <3>3. CASE Producer(s) = "dryrun"
      <4>1. /\ Topology(Producer(s))[1] = "queue" /\ Len(Topology(Producer(s))) = 2
        BY <2>1, <3>3, TopologyType
      <4>2. k # 1
        BY <2>3, <4>1 DEF Item
      <4>3. 1 \in 1..3 /\ 1 < k
        <5>1. k \in 1..3
          BY <3>1
        <5>. HIDE DEF k
        <5>. QED
          BY <4>2, <5>1
      <4>. QED
        BY <3>2, <4>1, <4>3
    <3>4. CASE Producer(s) # "dryrun"
      <4>1. /\ Topology(Producer(s))[1] = "deadLetters" /\ Topology(Producer(s))[2] = "queue"
        BY <2>1, <3>4, TopologyType
      <4>2. k # 1 /\ k # 2
        BY <2>3, <4>1 DEF Item
      <4>3. 2 \in 1..3 /\ 2 < k
        <5>1. k \in 1..3
          BY <3>1
        <5>. HIDE DEF k
        <5>. QED
          BY <4>2, <5>1
      <4>. QED
        BY <3>2, <4>1, <4>3
    <3>. QED
      BY <3>3, <3>4
  <2>. QED
    BY <2>2, <2>3 DEF Refused
<1>6. ~DeclareFails(s)
  BY <1>1, <1>3, <1>5 DEF DeclareFails, At
<1>. QED
  BY <1>2, <1>4, <1>6

LEMMA ServedStep ==
  ASSUME HInv, [Next]_vars, faults' = 0, outages' = 0, plain' = {}
  PROVE  Served'
<1>1. /\ IInv /\ DInv /\ Up /\ Up'
  BY UpStep DEF HInv, DInv
<1>2. plain = {}
  BY <1>1, TopologyGrows DEF Up
<1>3. faults \in Nat
  BY <1>1, Bounds DEF IInv, Shapes, NetShape
<1>4. \A s \in Sessions : ~OpenFails(s) /\ ~DeclareFails(s) /\ ~PublishFails(s)
  BY <1>1, <1>2, <1>3, CallsFail
<1>5. faults = 0
  <2>1. ASSUME NEW s \in Sessions, Lock(s) \/ Open(s) \/ Declare(s) PROVE faults' = faults
    BY <2>1 DEF Lock, Open, Opened, Declare
  <2>2. ASSUME NEW s \in Sessions, Publish(s) PROVE faults' = faults
    BY <1>3, <2>2 DEF Publish, NoFault, Fault
  <2>3. ASSUME NEW s \in Sessions, Run(s) \/ PublishDispatch(s) PROVE faults' = faults
    BY <2>3 DEF Run, PublishDispatch
  <2>4. CASE ConnectionLost \/ Reconnect \/ UNCHANGED vars
    BY <2>4 DEF ConnectionLost, Reconnect, vars
  <2>. QED
    BY <1>4, <2>1, <2>2, <2>3, <2>4, SessionsAreNamed DEF Next, BrokerCall
<1>6. Served
  BY <1>2, <1>5, UpStep DEF HInv, DInv
<1>. SUFFICES ASSUME NEW v \in Sessions PROVE session'[v].pc \notin {"closing", "failed"}
  BY DEF Served
<1>7. session[v].pc \notin {"closing", "failed"} /\ session[v] \in SessionState
  BY <1>1, <1>6, WorkPlace DEF Served
<1>8. ASSUME NEW s \in Sessions, Acts(s), Lock(s) \/ BrokerCall(s)
      PROVE  session'[v].pc \notin {"closing", "failed"}
  <2>1. CASE v # s
    BY <1>7, <1>8, <2>1 DEF Acts, Others
  <2>2. CASE v = s /\ Publish(v)
    BY <1>1, <2>2, PublishMoves
  <2>3. CASE v = s /\ Lock(v)
    <3>1. \/ session'[v] = [session[v] EXCEPT !.pc = "declare", !.ch = Cached(v)]
          \/ session'[v] = [session[v] EXCEPT !.pc = "open"]
      BY <1>1, <2>3, LockMoves
    <3>2. session[v] \in SessionState
      BY <1>7
    <3>3. session'[v].pc \in {"declare", "open"}
      BY <3>1, <3>2 DEF SessionState
    <3>. QED
      BY <3>3
  <2>4. CASE v = s /\ Open(v)
    <3>1. PICK c \in Channels : session'[v] = [session[v] EXCEPT !.pc = "declare", !.ch = c, !.step = 1]
      BY <1>1, <2>4, OpenMoves
    <3>2. session[v] \in SessionState
      BY <1>7
    <3>3. session'[v].pc = "declare"
      BY <3>1, <3>2 DEF SessionState
    <3>. QED
      BY <3>3
  <2>5. CASE v = s /\ Declare(v)
    <3>1. \/ session'[v] = [session[v] EXCEPT !.step = @ + 1]
          \/ session'[v] = [session[v] EXCEPT !.pc = "publish"]
          \/ session'[v].pc \in {"done", "open"}
      BY <1>1, <2>5, DeclareMoves
    <3>2. session[v] \in SessionState
      BY <1>7
    <3>3. session'[v].pc \in {session[v].pc, "publish", "done", "open"}
      BY <3>1, <3>2 DEF SessionState
    <3>. QED
      BY <1>7, <3>3
  <2>. QED
    BY <1>4, <1>8, <2>1, <2>2, <2>3, <2>4, <2>5 DEF BrokerCall
<1>9. ASSUME NEW s \in Sessions, Others(s),
             \/ session'[s] = [session[s] EXCEPT !.pc = "locking"]
             \/ \E i \in 1..Len(Queues) : session'[s] = [session[s] EXCEPT !.pc = "locking", !.at = i]
      PROVE  session'[v].pc \notin {"closing", "failed"}
  <2>1. CASE v # s
    BY <1>7, <1>9, <2>1 DEF Others
  <2>2. CASE v = s
    <3>1. \/ session'[v] = [session[v] EXCEPT !.pc = "locking"]
          \/ \E i \in 1..Len(Queues) : session'[v] = [session[v] EXCEPT !.pc = "locking", !.at = i]
      BY <1>9, <2>2
    <3>2. session[v] \in SessionState
      BY <1>7
    <3>3. session'[v].pc = "locking"
      BY <3>1, <3>2 DEF SessionState
    <3>. QED
      BY <3>3
  <2>. QED
    BY <2>1, <2>2
<1>10. ASSUME NEW p \in Producers, Run(p) PROVE session'[v].pc \notin {"closing", "failed"}
  BY <1>1, <1>9, <1>10, RunMoves
<1>11. ASSUME NEW s \in Publishers, PublishDispatch(s) PROVE session'[v].pc \notin {"closing", "failed"}
  BY <1>1, <1>9, <1>11, PublishDispatchMoves
<1>12. CASE UNCHANGED <<session, writer>>
  BY <1>7, <1>12
<1>. QED
  BY <1>1, <1>8, <1>10, <1>11, <1>12, WhoMoves

(* The producers do not refuse each other: with no fault, no outage and no *)
(* queue of an earlier version, no set-up and no publish fails.            *)
THEOREM HealthyBrokerServed == Spec => []HealthyBrokerServes
<1>1. HInv /\ [Next]_vars => HInv'
  <2>1. HInv /\ [Next]_vars => DInv' /\ (outages' = 0 => Up')
    BY DInvStep, UpStep DEF HInv, DInv
  <2>. QED
    BY <2>1, ServedStep DEF HInv, Served
<1>2. HInv => HealthyBrokerServes
  <2>. SUFFICES ASSUME HInv, faults + outages = 0, plain = {} PROVE Served
    BY DEF HealthyBrokerServes, Served
  <2>1. faults \in Nat /\ outages \in Nat
    BY Bounds DEF HInv, DInv, IInv, Shapes, NetShape
  <2>2. faults = 0 /\ outages = 0
    BY <2>1
  <2>. QED
    BY <2>2 DEF HInv
<1>. QED
  BY <1>1, <1>2, InitHInv, PTL DEF Spec

-----------------------------------------------------------------------------
(***************************************************************************)
(* The contract the use cases rely on.  A publisher that finds its channel *)
(* open publishes to a queue that is bound: it has declared the binding on *)
(* this channel, and a broker that came back empty has lost the channel    *)
(* too.  So an accepted message is stored unless the broker loses it.      *)
(***************************************************************************)
Offline == ~connected => \A c \in Channels : channel[c] # "open"
Bound ==
  \A s \in Publishers :
    session[s].pc = "publish" /\ channel[Held(s)] = "open" => <<"bind", Queue(s)>> \in topology
CInv == IInv /\ Offline /\ Bound

LEMMA InitCInv == Init => CInv
<1>1. Init => Offline /\ Bound
  BY DEF Init, Offline, Bound, Idle, Sessions
<1>. QED
  BY <1>1, InitIInv DEF CInv

(* What happens to the channels: one is opened while the connection is up, *)
(* one is closed, all are lost, or nothing.                                *)
ChannelSet(c, x) == channel' = [channel EXCEPT ![c] = x] /\ UNCHANGED connected

LEMMA ChannelsMove ==
  ASSUME IInv, [Next]_vars
  PROVE  \/ UNCHANGED <<channel, connected>>
         \/ connected /\ \E c \in Channels : channel[c] = "free" /\ ChannelSet(c, "open")
         \/ \E c \in Channels : ChannelSet(c, "free")
         \/ ConnectionLost
         \/ Reconnect /\ UNCHANGED channel
<1>1. ASSUME NEW s \in Sessions, Lock(s) \/ OpenFails(s) \/ Declare(s) \/ Publish(s)
      PROVE  UNCHANGED <<channel, connected>>
  BY <1>1, LockMoves, OpenFailsMoves, DeclareMoves, PublishMoves DEF netVars
<1>2. ASSUME NEW s \in Sessions, Open(s)
      PROVE  connected /\ \E c \in Channels : channel[c] = "free" /\ ChannelSet(c, "open")
  BY <1>2, OpenMoves DEF netVars, ChannelSet
<1>3. ASSUME NEW s \in Sessions, DeclareFails(s) \/ PublishFails(s)
      PROVE  UNCHANGED <<channel, connected>> \/ \E c \in Channels : ChannelSet(c, "free")
  BY <1>3, DeclareFailsMoves, PublishFailsMoves DEF netVars, ChannelSet
<1>4. ASSUME NEW s \in Sessions, Run(s) \/ PublishDispatch(s)
      PROVE  UNCHANGED <<channel, connected>>
  BY <1>4 DEF Run, PublishDispatch, netVars
<1>5. CASE Reconnect
  BY <1>5 DEF Reconnect
<1>6. CASE UNCHANGED vars
  BY <1>6 DEF vars, netVars
<1>. QED
  BY <1>1, <1>2, <1>3, <1>4, <1>5, <1>6, SessionsAreNamed DEF Next, BrokerCall

(* An open channel that is in use was open before, and while a channel is  *)
(* open nothing declared gets lost.                                        *)
LEMMA OpenStays ==
  ASSUME IInv, Offline, [Next]_vars, NEW c \in Channels, channel[c] # "free", channel'[c] = "open"
  PROVE  channel[c] = "open" /\ ~Reconnect
<1>1. channel \in [Channels -> {"free", "open", "lost"}]
  BY DEF IInv, Shapes, ChannelShape
<1>2. channel[c] = "open"
  <2>1. CASE ConnectionLost
    BY <1>1, <2>1 DEF ConnectionLost
  <2>2. ASSUME NEW d \in Channels, NEW x \in {"free", "open"}, ChannelSet(d, x),
               x = "open" => channel[d] = "free"
        PROVE  channel[c] = "open"
    BY <1>1, <2>2 DEF ChannelSet
  <2>. QED
    BY <2>1, <2>2, ChannelsMove
<1>3. ~Reconnect
  BY <1>2 DEF Reconnect, Offline
<1>. QED
  BY <1>2, <1>3

LEMMA OfflineStep == IInv /\ Offline /\ [Next]_vars => Offline'
<1>. SUFFICES ASSUME IInv, Offline, [Next]_vars, ~connected', NEW c \in Channels
              PROVE  channel'[c] # "open"
  BY DEF Offline
<1>1. channel \in [Channels -> {"free", "open", "lost"}]
  BY DEF IInv, Shapes, ChannelShape
<1>2. CASE UNCHANGED <<channel, connected>>
  BY <1>2 DEF Offline
<1>3. CASE connected /\ \E d \in Channels : ChannelSet(d, "open")
  BY <1>3 DEF ChannelSet
<1>4. CASE \E d \in Channels : ChannelSet(d, "free")
  BY <1>1, <1>4 DEF Offline, ChannelSet
<1>5. CASE ConnectionLost
  BY <1>1, <1>5 DEF ConnectionLost
<1>6. CASE Reconnect
  BY <1>6 DEF Reconnect
<1>. QED
  BY <1>2, <1>3, <1>4, <1>5, <1>6, ChannelsMove

LEMMA TopologyKept ==
  ASSUME IInv, [Next]_vars, ~Reconnect
  PROVE  topology \subseteq topology'
<1>1. ASSUME NEW s \in Sessions, Declare(s) PROVE topology \subseteq topology'
  BY <1>1 DEF Declare
<1>2. ASSUME NEW s \in Sessions, OpenFails(s) \/ DeclareFails(s) PROVE topology' = topology
  BY <1>2, OpenFailsMoves, DeclareFailsMoves DEF brokerVars
<1>3. ASSUME NEW s \in Sessions, Lock(s) \/ Open(s) \/ Publish(s) \/ PublishFails(s)
      PROVE  topology' = topology
  BY <1>3, LockMoves, OpenMoves, PublishMoves, PublishFailsMoves DEF brokerVars
<1>4. ASSUME NEW s \in Sessions, Run(s) \/ PublishDispatch(s) PROVE topology' = topology
  BY <1>4 DEF Run, PublishDispatch, brokerVars
<1>5. CASE ConnectionLost \/ UNCHANGED vars
  BY <1>5 DEF ConnectionLost, vars, brokerVars
<1>. QED
  BY <1>1, <1>2, <1>3, <1>4, <1>5, SessionsAreNamed DEF Next, BrokerCall

(* A publisher comes to publish by declaring its last item, the binding.   *)
LEMMA ComesToPublish ==
  ASSUME IInv, [Next]_vars, NEW v \in Sessions, session'[v].pc = "publish"
  PROVE  \/ session'[v] = session[v]
         \/ Declare(v) /\ session[v].step = Len(Topology(Producer(v)))
<1>. SUFFICES ASSUME session'[v] # session[v]
              PROVE  Declare(v) /\ session[v].step = Len(Topology(Producer(v)))
  OBVIOUS
<1>1. session[v] \in SessionState
  BY WorkPlace
<1>2. ASSUME session'[v] = [session[v] EXCEPT !.pc = "locking"] PROVE FALSE
  BY <1>1, <1>2 DEF SessionState
<1>3. ~(v \in Producers /\ Run(v))
  BY <1>2, RunMoves
<1>4. ~(v \in Publishers /\ PublishDispatch(v))
  <2>1. ASSUME NEW i \in 1..Len(Queues), session'[v] = [session[v] EXCEPT !.pc = "locking", !.at = i]
        PROVE  FALSE
    BY <1>1, <2>1 DEF SessionState
  <2>. QED
    BY <2>1, PublishDispatchMoves
<1>5. ~Lock(v)
  <2>1. ASSUME \/ session'[v] = [session[v] EXCEPT !.pc = "declare", !.ch = Cached(v)]
               \/ session'[v] = [session[v] EXCEPT !.pc = "open"]
        PROVE  FALSE
    BY <1>1, <2>1 DEF SessionState
  <2>. QED
    BY <2>1, LockMoves
<1>6. ~Open(v)
  <2>1. ASSUME NEW c \in Channels,
               session'[v] = [session[v] EXCEPT !.pc = "declare", !.ch = c, !.step = 1]
        PROVE  FALSE
    BY <1>1, <2>1 DEF SessionState
  <2>. QED
    BY <2>1, OpenMoves
<1>7. ~Fail(v)
  BY Fails DEF IInv, Shapes
<1>8. ~OpenFails(v) /\ ~DeclareFails(v)
  <2>1. ASSUME session'[v] = [session[v] EXCEPT !.pc = "open", !.ch = None] PROVE FALSE
    BY <1>1, <2>1 DEF SessionState
  <2>. QED
    BY <1>7, <2>1, OpenFailsMoves, DeclareFailsMoves
<1>9. ~Publish(v) /\ ~PublishFails(v)
  <2>1. ASSUME session'[v] = [session[v] EXCEPT !.pc = "open", !.ch = None, !.retried = TRUE]
        PROVE  FALSE
    BY <1>1, <2>1 DEF SessionState
  <2>. QED
    BY <2>1, PublishMoves, PublishFailsMoves
<1>10. Declare(v)
  <2>1. PICK s \in Sessions : Others(s) /\ ((s \in Producers /\ Run(s))
             \/ (s \in Publishers /\ PublishDispatch(s)) \/ Lock(s) \/ BrokerCall(s))
    BY WhoMoves, RunMoves, PublishDispatchMoves DEF Acts
  <2>2. v = s
    BY <2>1 DEF Others
  <2>. QED
    BY <1>3, <1>4, <1>5, <1>6, <1>8, <1>9, <2>1, <2>2 DEF BrokerCall
<1>11. session[v].step = Len(Topology(Producer(v)))
  <2>1. session[v].pc = "declare"
    BY <1>10, DeclareMoves
  <2>2. ASSUME session'[v] = [session[v] EXCEPT !.step = @ + 1] PROVE FALSE
    BY <1>1, <2>1, <2>2 DEF SessionState
  <2>. QED
    BY <1>10, <2>2, DeclareMoves
<1>. QED
  BY <1>10, <1>11

LEMMA LastIsBind == ASSUME NEW p \in Producers PROVE Topology(p)[Len(Topology(p))] = "bind"
BY TopologyType

LEMMA BoundStep == CInv /\ [Next]_vars => Bound'
<1>. SUFFICES ASSUME CInv, [Next]_vars, NEW v \in Publishers,
                     session'[v].pc = "publish", channel'[Held(v)'] = "open"
              PROVE  <<"bind", Queue(v)'>> \in topology'
  BY DEF Bound
<1>1. v \in Sessions /\ IInv /\ Offline
  BY SessionsAreNamed DEF CInv
<1>2. CASE session'[v] = session[v]
  <2>1. session[v].pc = "publish" /\ Held(v)' = Held(v) /\ Queue(v)' = Queue(v)
    BY <1>2 DEF Held, Queue
  <2>2. Held(v) \in Channels /\ channel[Held(v)] # "free"
    BY <1>1, <2>1, WorkPlace
  <2>3. channel[Held(v)] = "open" /\ ~Reconnect
    BY <1>1, <2>1, <2>2, OpenStays
  <2>4. <<"bind", Queue(v)>> \in topology
    BY <2>1, <2>3 DEF CInv, Bound
  <2>. QED
    BY <1>1, <2>1, <2>3, <2>4, TopologyKept
<1>3. CASE Declare(v) /\ session[v].step = Len(Topology(Producer(v)))
  <2>1. topology' = topology \cup {<<Item(v), Queue(v)>>} /\ Item(v) = "bind"
    BY <1>1, <1>3, LastIsBind, ProducerType DEF Declare, Item
  <2>2. session'[v].at = session[v].at
    <3>1. session[v] \in SessionState
      BY <1>1, WorkPlace
    <3>2. CASE session'[v] = [session[v] EXCEPT !.step = @ + 1]
      BY <3>1, <3>2 DEF SessionState
    <3>3. CASE session'[v] = [session[v] EXCEPT !.pc = "publish"]
      BY <3>1, <3>3 DEF SessionState
    <3>. QED
      BY <1>1, <1>3, <3>2, <3>3, DeclareMoves, SessionsAreNamed
  <2>3. Queue(v)' = Queue(v)
    BY <2>2 DEF Queue
  <2>. QED
    BY <2>1, <2>3
<1>. QED
  BY <1>1, <1>2, <1>3, ComesToPublish

LEMMA CInvariance == Spec => []CInv
<1>1. CInv /\ [Next]_vars => Offline' /\ Bound'
  BY OfflineStep, BoundStep DEF CInv
<1>2. Spec => [](Offline /\ Bound)
  <2>1. IInv /\ IInv' /\ (Offline /\ Bound) /\ [Next]_vars => (Offline /\ Bound)'
    BY <1>1 DEF CInv
  <2>2. Init => Offline /\ Bound
    BY InitCInv DEF CInv
  <2>. QED
    BY <2>1, <2>2, Invariance, PTL DEF Spec
<1>3. IInv /\ (Offline /\ Bound) => CInv
  BY DEF CInv
<1>. QED
  BY <1>2, <1>3, Invariance, PTL

(***************************************************************************)
(* The abstract state, and what the steps do to it.                        *)
(***************************************************************************)
Requests == {s \in Publishers : stored[s] > 0}
Outcome(s) == IF session[s].pc \in Ended THEN session[s].pc ELSE "pending"
Result == [s \in Publishers |-> Outcome(s)]
Abstract == <<Requests, dropped, Result>>

(* A call that does not end, or has ended.                                 *)
LEMMA OutcomeKept ==
  ASSUME IInv, NEW s \in Sessions, Others(s),
         s \in Publishers => session[s].pc \notin Ended /\ session'[s].pc \notin Ended
  PROVE  Result' = Result
<1>1. ASSUME NEW v \in Publishers PROVE Outcome(v)' = Outcome(v)
  <2>1. CASE v = s
    BY <2>1 DEF Outcome
  <2>2. CASE v # s
    BY <2>2, SessionsAreNamed DEF Others, Outcome
  <2>. QED
    BY <2>1, <2>2
<1>. QED
  BY <1>1 DEF Result

LEMMA OutcomeSet ==
  ASSUME NEW s \in Publishers, Others(s), session[s].pc \notin Ended,
         NEW pc \in Ended, session'[s].pc = pc
  PROVE  Result[s] = "pending" /\ Result' = [Result EXCEPT ![s] = pc]
<1>1. ASSUME NEW v \in Publishers PROVE Outcome(v)' = IF v = s THEN pc ELSE Outcome(v)
  BY <1>1, SessionsAreNamed DEF Others, Outcome
<1>. QED
  BY <1>1 DEF Result, Outcome

(* A routed message is a request from then on.                             *)
LEMMA RequestsGrow ==
  ASSUME IInv, NEW s \in Publishers, Routed(s) \/ UNCHANGED stored
  PROVE  /\ Requests' \in {Requests, Requests \cup {s}}
         /\ <<"bind", Queue(s)>> \in topology /\ Routed(s) => Requests' = Requests \cup {s}
<1>1. stored \in [Publishers -> 0..2]
  BY DEF IInv, Broker
<1>2. CASE stored' = [stored EXCEPT ![s] = @ + 1]
  <2>1. stored[s] + 1 > 0
    BY <1>1
  <2>2. \A v \in Publishers : stored'[v] > 0 <=> v = s \/ stored[v] > 0
    BY <1>1, <1>2, <2>1
  <2>. QED
    BY <2>2 DEF Requests
<1>3. CASE UNCHANGED stored /\ ~(<<"bind", Queue(s)>> \in topology /\ Routed(s))
  BY <1>3 DEF Requests
<1>. QED
  BY <1>2, <1>3 DEF Routed

(* Only the ends of a session and its publish attempts are seen.           *)
Unseen == UNCHANGED <<Requests, dropped>> /\ Result' = Result

LEMMA SetUpUnseen ==
  ASSUME IInv, NEW s \in Sessions, Others(s), UNCHANGED <<stored, dropped>>,
         session[s].pc \notin Ended, session'[s].pc \notin Ended \/ s \in Producers
  PROVE  Unseen
BY OutcomeKept, SessionsAreNamed DEF Unseen, Requests

LEMMA FailSeen ==
  ASSUME IInv, NEW s \in Sessions, Fail(s), session[s].pc \notin Ended, UNCHANGED <<stored, dropped>>
  PROVE  Unseen \/ \E m \in Publishers : Contract!Refuse(m)
<1>1. Others(s) /\ session'[s].pc \in {"closing", "failed"}
  BY Fails DEF IInv, Shapes
<1>2. CASE session'[s].pc = "closing" \/ s \in Producers
  BY <1>1, <1>2, SetUpUnseen DEF Ended
<1>3. CASE session'[s].pc = "failed" /\ s \in Publishers
  <2>1. Result[s] = "pending" /\ Result' = [Result EXCEPT ![s] = "failed"]
    BY <1>1, <1>3, OutcomeSet DEF Ended
  <2>2. Requests' = Requests
    BY DEF Requests
  <2>3. Contract!Refuse(s)
    BY <2>1, <2>2 DEF Contract!Refuse, Contract!Pending, Contract!Returns, Result, Outcome, Requests
  <2>. QED
    BY <1>3, <2>3
<1>. QED
  BY <1>1, <1>2, <1>3 DEF Sessions

LEMMA CallSeen ==
  ASSUME CInv, NEW s \in Sessions, Lock(s) \/ Open(s) \/ OpenFails(s) \/ Declare(s) \/ DeclareFails(s)
  PROVE  Unseen \/ \E m \in Publishers : Contract!Refuse(m)
<1>1. IInv /\ session[s] \in SessionState
  BY WorkPlace DEF CInv
<1>2. CASE Lock(s)
  <2>1. /\ Others(s) /\ session[s].pc = "locking" /\ UNCHANGED <<stored, dropped>>
        /\ \/ session'[s] = [session[s] EXCEPT !.pc = "declare", !.ch = Cached(s)]
           \/ session'[s] = [session[s] EXCEPT !.pc = "open"]
    BY <1>1, <1>2, LockMoves DEF brokerVars
  <2>2. session'[s].pc \in {"declare", "open"}
    BY <1>1, <2>1 DEF SessionState
  <2>. QED
    BY <1>1, <2>1, <2>2, SetUpUnseen DEF Ended
<1>3. CASE Open(s)
  <2>1. Others(s) /\ session[s].pc = "open" /\ UNCHANGED <<stored, dropped>>
    BY <1>1, <1>3, OpenMoves DEF brokerVars
  <2>2. PICK c \in Channels : session'[s] = [session[s] EXCEPT !.pc = "declare", !.ch = c, !.step = 1]
    BY <1>1, <1>3, OpenMoves
  <2>3. session'[s].pc = "declare"
    BY <1>1, <2>2 DEF SessionState
  <2>. QED
    BY <1>1, <2>1, <2>3, SetUpUnseen DEF Ended
<1>4. CASE OpenFails(s)
  BY <1>1, <1>4, OpenFailsMoves, FailSeen DEF Ended, brokerVars
<1>5. CASE Declare(s)
  <2>1. Others(s) /\ session[s].pc = "declare" /\ UNCHANGED <<stored, dropped>>
    BY <1>1, <1>5, DeclareMoves
  <2>2. session'[s].pc \notin Ended \/ s \in Producers
    <3>1. CASE session'[s] = [session[s] EXCEPT !.step = @ + 1]
      BY <1>1, <2>1, <3>1 DEF SessionState, Ended
    <3>2. CASE session'[s] = [session[s] EXCEPT !.pc = "publish"]
      BY <1>1, <3>2 DEF SessionState, Ended
    <3>. QED
      BY <1>1, <1>5, <3>1, <3>2, DeclareMoves
  <2>. QED
    BY <1>1, <2>1, <2>2, SetUpUnseen DEF Ended
<1>6. CASE DeclareFails(s)
  <2>1. session[s].pc = "declare" /\ UNCHANGED <<stored, dropped>>
    BY <1>1, <1>6, DeclareFailsMoves DEF brokerVars
  <2>2. CASE Others(s) /\ session'[s] = [session[s] EXCEPT !.pc = "open", !.ch = None]
    <3>1. session'[s].pc = "open"
      BY <1>1, <2>2 DEF SessionState
    <3>. QED
      BY <1>1, <2>1, <2>2, <3>1, SetUpUnseen DEF Ended
  <2>3. CASE Fail(s)
    BY <1>1, <2>1, <2>3, FailSeen DEF Ended
  <2>. QED
    BY <1>1, <1>6, <2>2, <2>3, DeclareFailsMoves
<1>. QED
  BY <1>2, <1>3, <1>4, <1>5, <1>6

(* A publish that returns nil is accepted or lost, one that returns an     *)
(* error is an attempt or, the second time, refused.                       *)
LEMMA PublishSeen ==
  ASSUME CInv, NEW s \in Sessions, Publish(s)
  PROVE  s \in Publishers /\ (Contract!Accept(s) \/ Contract!Lose(s))
<1>1. IInv
  BY DEF CInv
<1>2. s \in Publishers /\ session[s].pc = "publish" /\ Others(s) /\ session'[s].pc = "done"
  BY <1>1, PublishMoves DEF IInv, SessionsOwn
<1>3. Result[s] = "pending" /\ Result' = [Result EXCEPT ![s] = "done"]
  BY <1>2, OutcomeSet DEF Ended
<1>4. <<"bind", Queue(s)>> \in topology
  BY <1>2 DEF Publish, CInv, Bound
<1>5. CASE Routed(s) /\ UNCHANGED dropped
  <2>1. Requests' = Requests \cup {s}
    BY <1>1, <1>2, <1>4, <1>5, RequestsGrow
  <2>2. Contract!Accept(s)
    BY <1>3, <1>5, <2>1 DEF Contract!Accept, Contract!Pending, Contract!Returns, Result, Outcome, Requests
  <2>. QED
    BY <1>2, <2>2
<1>6. CASE dropped' = dropped \cup {s} /\ UNCHANGED stored
  <2>1. Requests' = Requests
    BY <1>6 DEF Requests
  <2>2. Contract!Lose(s)
    BY <1>3, <1>6, <2>1 DEF Contract!Lose, Contract!Pending, Contract!Returns, Result, Outcome, Requests
  <2>. QED
    BY <1>2, <2>2
<1>. QED
  BY <1>5, <1>6 DEF Publish

LEMMA PublishFailsSeen ==
  ASSUME CInv, NEW s \in Sessions, PublishFails(s)
  PROVE  Unseen \/ \E m \in Publishers : Contract!Arrive(m) \/ Contract!Refuse(m)
<1>1. IInv /\ session[s] \in SessionState
  BY WorkPlace DEF CInv
<1>2. s \in Publishers /\ session[s].pc = "publish" /\ Others(s) /\ UNCHANGED dropped
  BY <1>1, PublishFailsMoves DEF IInv, SessionsOwn
<1>3. Requests' \in {Requests, Requests \cup {s}}
  BY <1>1, <1>2, RequestsGrow DEF PublishFails
<1>4. CASE session'[s] = [session[s] EXCEPT !.pc = "open", !.ch = None, !.retried = TRUE]
  <2>1. session'[s].pc = "open"
    BY <1>1, <1>4 DEF SessionState
  <2>2. Result' = Result
    BY <1>1, <1>2, <2>1, OutcomeKept DEF Ended
  <2>3. CASE Requests' = Requests
    BY <1>2, <2>2, <2>3 DEF Unseen
  <2>4. CASE Requests' = Requests \cup {s}
    <3>1. Result[s] = "pending"
      BY <1>2 DEF Result, Outcome, Ended
    <3>2. Contract!Arrive(s)
      BY <1>2, <2>2, <2>4, <3>1 DEF Contract!Arrive, Contract!Pending, Result, Outcome, Requests
    <3>. QED
      BY <1>2, <3>2
  <2>. QED
    BY <1>3, <2>3, <2>4
<1>5. CASE session'[s].pc = "failed"
  <2>1. Result[s] = "pending" /\ Result' = [Result EXCEPT ![s] = "failed"]
    BY <1>2, <1>5, OutcomeSet DEF Ended
  <2>2. Contract!Refuse(s)
    BY <1>2, <1>3, <2>1 DEF Contract!Refuse, Contract!Pending, Contract!Returns, Result, Outcome, Requests
  <2>. QED
    BY <1>2, <2>2
<1>. QED
  BY <1>1, <1>4, <1>5, PublishFailsMoves

LEMMA ContractStep == CInv /\ [Next]_vars => Contract!Next \/ UNCHANGED Abstract
<1>. SUFFICES ASSUME CInv, [Next]_vars PROVE Contract!Next \/ Unseen
  BY DEF Unseen, Abstract
<1>1. IInv
  BY DEF CInv
<1>2. ASSUME UNCHANGED <<session, stored, dropped>> PROVE Unseen
  BY <1>2 DEF Unseen, Requests, Result, Outcome
<1>3. CASE ConnectionLost \/ Reconnect \/ UNCHANGED vars
  BY <1>2, <1>3 DEF ConnectionLost, Reconnect, vars, brokerVars
<1>4. ASSUME NEW p \in Producers, Run(p) PROVE Unseen
  <2>1. Others(p) /\ p \in Sessions /\ session[p].pc = "idle" /\ UNCHANGED <<stored, dropped>>
    BY <1>1, <1>4, RunMoves DEF Run, brokerVars
  <2>. QED
    BY <1>1, <2>1, SetUpUnseen DEF Ended
<1>5. ASSUME NEW s \in Publishers, PublishDispatch(s) PROVE Unseen
  <2>1. Others(s) /\ s \in Sessions /\ session[s].pc = "idle" /\ UNCHANGED <<stored, dropped>>
    BY <1>1, <1>5, PublishDispatchMoves DEF PublishDispatch, brokerVars
  <2>2. PICK i \in 1..Len(Queues) : session'[s] = [session[s] EXCEPT !.pc = "locking", !.at = i]
    BY <1>1, <1>5, PublishDispatchMoves
  <2>3. session[s] \in SessionState
    BY <1>1, <2>1, WorkPlace
  <2>4. session'[s].pc = "locking"
    BY <2>2, <2>3 DEF SessionState
  <2>. QED
    BY <1>1, <2>1, <2>4, SetUpUnseen DEF Ended
<1>6. ASSUME NEW s \in Sessions, Lock(s) \/ BrokerCall(s) PROVE Contract!Next \/ Unseen
  BY <1>6, CallSeen, PublishSeen, PublishFailsSeen DEF BrokerCall, Contract!Next
<1>. QED
  BY <1>3, <1>4, <1>5, <1>6 DEF Next

(* DispatchProducer implements TaskPublishing: whatever the broker and the *)
(* connection do, a message whose call returned nil has reached its queue  *)
(* unless the connection took it, and no message moves after the return.   *)
THEOREM PublishingImplemented == Spec => ImplementsPublishing
<1>1. Init => Contract!Init
  <2>. SUFFICES ASSUME Init PROVE Contract!Init
    OBVIOUS
  <2>1. \A s \in Publishers : stored[s] = 0 /\ session[s].pc = "idle"
    BY SessionsAreNamed DEF Init, Idle
  <2>. QED
    BY <2>1 DEF Init, Contract!Init, Ended
<1>2. CInv /\ [Next]_vars => [Contract!Next]_Abstract
  BY ContractStep
<1>. QED
  BY <1>1, <1>2, CInvariance, PTL
  DEF Spec, ImplementsPublishing, Contract!Spec, Abstract, Requests, Result, Outcome
==============================================================================
