--------------------------- MODULE DispatchProducer ---------------------------
(***************************************************************************)
(* The producers of task messages: internal/execution and internal/dryrun, *)
(* delivery/rabbitmq/producer.  The process has three of them on one       *)
(* connection: the HTTP server's execution producer, the dry-run producer  *)
(* it sets up next (httpserver/handler.go), and the scheduler's execution  *)
(* producer, set up in a goroutine of its own (scheduler/scheduler.go).    *)
(*                                                                         *)
(* A producer caches one channel (a writer) per task queue behind a mutex. *)
(* Run opens the writers and declares the topology; PublishDispatch        *)
(* declares it again on the cached writer, replaces a writer that fails,   *)
(* publishes, and on failure replaces the writer and publishes once more.  *)
(* An action is one call to the broker, or one wait for the mutex.         *)
(***************************************************************************)
EXTENDS Naturals, FiniteSets, Sequences

CONSTANTS
  Producers,   \* the producers that run
  Queues,      \* the task queues, in the order in which Run declares them
  Publishers,  \* calls of PublishDispatch, each with a message of its own
  ProducerOf,  \* the producer a call is made on
  Channels,    \* ids of broker channels; bounds the channels open at once
  MaxFaults,   \* bound on the broker calls that fail on a healthy channel
  MaxOutages,  \* bound on the losses of the connection
  Forgets,     \* whether the broker may come back empty
  None         \* "no channel" and "mutex free"

Sessions == Producers \cup Publishers
QueueNames == {Queues[i] : i \in 1..Len(Queues)}

ASSUME ProducerAssumption ==
  /\ Producers \subseteq {"http", "dryrun", "scheduler"}
  /\ "dryrun" \in Producers <=> "http" \in Producers
  /\ Queues \in Seq(QueueNames) /\ Queues # <<>>
  /\ \A i, j \in 1..Len(Queues) : Queues[i] = Queues[j] => i = j
  /\ Publishers \cap Producers = {}
  /\ ProducerOf \in [Publishers -> Producers]
  /\ MaxFaults \in Nat /\ MaxOutages \in Nat /\ Forgets \in BOOLEAN
  /\ None \notin Channels \cup Sessions

VARIABLES
  connected,   \* whether the connection to the broker is up
  channel,     \* the channels: free, open, or lost with the connection
  topology,    \* what has been declared on the broker, as pairs <<item, queue>>
  plain,       \* queues that live without dead-letter arguments
  emptied,     \* history: the broker has come back empty
  lock,        \* the session that holds a producer's mutex
  writer,      \* a producer's cached channel for a queue
  session,     \* the calls of Run and PublishDispatch
  stored,      \* how often a message has reached its queue
  dropped,     \* messages the connection took with it after Publish returned
  faults, outages

netVars == <<connected, emptied, outages>>
brokerVars == <<topology, plain, stored, dropped>>
vars == <<netVars, brokerVars, faults, channel, lock, writer, session>>

Producer(s) == IF s \in Producers THEN s ELSE ProducerOf[s]
Held(s) == session[s].ch
Queue(s) == Queues[session[s].at]
Cached(s) == writer[Producer(s)][Queue(s)]

(***************************************************************************)
(* declarePublishTopology.  The execution producers declare the dead-letter*)
(* exchange, queue and binding before the task queue that refers to them;  *)
(* the dry-run producer declares the task queue alone.                     *)
(***************************************************************************)
Items == {"deadLetters", "queue", "bind"}

(* Mutant of Topology: the dead-letter side is declared last.              *)
TaskQueueFirst(p) ==
  IF p = "dryrun" THEN <<"queue", "bind">> ELSE <<"queue", "bind", "deadLetters">>

Topology(p) ==
  IF p = "dryrun" THEN <<"queue", "bind">> ELSE <<"deadLetters", "queue", "bind">>

LastQueue(s) == session[s].at = Len(Queues)

Item(s) == Topology(Producer(s))[session[s].step]

(* Mutant of HasDeadLetterArgs: the dry-run constants without queueWithDLX.*)
OnlyExecutionHasArgs(p) == p # "dryrun"

(* queueWithDLX: the arguments of the task queues, alike in both packages. *)
HasDeadLetterArgs(p) == p \in Producers

(* The broker refuses a queue whose live arguments differ, and a binding   *)
(* of a queue that does not exist.                                         *)
Refused(s) ==
  \/ /\ Item(s) = "queue"
     /\ <<"queue", Queue(s)>> \in topology
     /\ (Queue(s) \in plain) = HasDeadLetterArgs(Producer(s))
  \/ Item(s) = "bind" /\ <<"queue", Queue(s)>> \notin topology

-----------------------------------------------------------------------------
(***************************************************************************)
(* Sessions.  A session locks its producer's mutex, works, and unlocks it  *)
(* when it ends.                                                           *)
(***************************************************************************)
Idle == [pc |-> "idle", at |-> 1, ch |-> None, step |-> 1, retried |-> FALSE]
Ended == {"done", "failed"}

At(s, pc) == session[s].pc = pc
Move(s, pc) == session' = [session EXCEPT ![s].pc = pc]

(* Both ends of a session: return with the mutex unlocked by the defer.    *)
Return(s, pc) ==
  /\ session' = [session EXCEPT ![s] = [Idle EXCEPT !.pc = pc]]
  /\ lock' = [lock EXCEPT ![Producer(s)] = None]

Fault == faults < MaxFaults /\ faults' = faults + 1
NoFault == UNCHANGED faults
CloseChannel(s) == channel' = [channel EXCEPT ![Held(s)] = "free"]
SetWriter(s, ch) == writer' = [writer EXCEPT ![Producer(s)][Queue(s)] = ch]
FreeChannels == {c \in Channels : channel[c] = "free"}

(* The wiring: the dry-run producer is set up after the HTTP server's      *)
(* execution producer; routes are registered, and heartbeats started, once *)
(* their producers are set up.                                             *)
SetUpAfter(p) == p = "dryrun" => At("http", "done")
Serving(p) == At(IF p = "scheduler" THEN "scheduler" ELSE "dryrun", "done")

Run(p) ==
  /\ At(p, "idle")
  /\ SetUpAfter(p)
  /\ Move(p, "locking")
  /\ UNCHANGED <<netVars, brokerVars, faults, channel, lock, writer>>

PublishDispatch(s) ==
  /\ At(s, "idle")
  /\ Serving(Producer(s))
  /\ \E i \in 1..Len(Queues) :
       session' = [session EXCEPT ![s].pc = "locking", ![s].at = i]
  /\ UNCHANGED <<netVars, brokerVars, faults, channel, lock, writer>>

(* A publisher starts with the cached writer, if there is one.             *)
Begin(s) ==
  /\ lock' = [lock EXCEPT ![Producer(s)] = s]
  /\ session' =
       [session EXCEPT ![s] =
          IF s \in Publishers /\ Cached(s) # None
          THEN [@ EXCEPT !.pc = "declare", !.ch = Cached(s)]
          ELSE [@ EXCEPT !.pc = "open"]]
  /\ UNCHANGED <<channel, writer>>

(* Close, which Run calls while it holds the mutex, when a queue after the *)
(* first cannot be set up.                                                 *)
Close(p) ==
  /\ channel' = [c \in Channels |->
                  IF \E q \in QueueNames : writer[p][q] = c THEN "free" ELSE channel[c]]
  /\ writer' = [writer EXCEPT ![p] = [q \in QueueNames |-> None]]
  /\ Return(p, "failed")

Lock(s) ==
  /\ session[s].pc \in {"locking", "closing"}
  /\ lock[Producer(s)] = None
  /\ IF At(s, "locking") THEN Begin(s) ELSE Close(s)
  /\ UNCHANGED <<netVars, brokerVars, faults>>

(* Mutant of Fail: the error return leaves the mutex locked.               *)
FailLocked(s) == Move(s, IF s \in Publishers THEN "failed" ELSE "closing") /\ UNCHANGED lock

(* getWriterWithQueue returns an error.                                    *)
Fail(s) ==
  IF s \in Producers /\ session[s].at > 1
  THEN /\ session' = [session EXCEPT ![s].pc = "closing", ![s].ch = None]
       /\ UNCHANGED lock
  ELSE Return(s, "failed")

Opened(s, pc) ==
  /\ At(s, "open") /\ connected
  /\ LET c == CHOOSE ch \in FreeChannels : TRUE
     IN  /\ FreeChannels # {}
         /\ channel' = [channel EXCEPT ![c] = "open"]
         /\ session' = [session EXCEPT ![s].pc = pc, ![s].ch = c, ![s].step = 1]
  /\ UNCHANGED <<netVars, brokerVars, faults, lock, writer>>

(* Mutant of Open: a second attempt publishes without declaring.           *)
OpenForRetry(s) == Opened(s, IF session[s].retried THEN "publish" ELSE "declare")

Open(s) == Opened(s, "declare")

OpenFails(s) ==
  /\ At(s, "open")
  /\ \/ ~ connected /\ NoFault
     \/ connected /\ Fault
  /\ Fail(s)
  /\ UNCHANGED <<netVars, brokerVars, channel, writer>>

(* Mutant of DeclareFails: the new channel is not closed.                  *)
DeclareFailsOpen(s) ==
  /\ At(s, "declare")
  /\ channel[Held(s)] = "open" /\ Fault
  /\ Cached(s) # Held(s)
  /\ Fail(s)
  /\ UNCHANGED <<netVars, brokerVars, channel, writer>>

(* After its last item the channel is the cached writer: Run goes on with  *)
(* the next queue, a publisher publishes.                                  *)
Declare(s) ==
  /\ At(s, "declare")
  /\ channel[Held(s)] = "open"
  /\ ~ Refused(s)
  /\ topology' = topology \cup {<<Item(s), Queue(s)>>}
  /\ plain' = IF Item(s) = "queue" /\ ~ HasDeadLetterArgs(Producer(s))
              THEN plain \cup {Queue(s)} ELSE plain
  /\ \/ /\ session[s].step < Len(Topology(Producer(s)))
        /\ session' = [session EXCEPT ![s].step = @ + 1]
        /\ UNCHANGED <<writer, lock>>
     \/ /\ session[s].step = Len(Topology(Producer(s)))
        /\ SetWriter(s, Held(s))
        /\ IF s \in Publishers THEN Move(s, "publish") /\ UNCHANGED lock
           ELSE IF LastQueue(s) THEN Return(s, "done")
           ELSE /\ session' = [session EXCEPT ![s] =
                                 [Idle EXCEPT !.pc = "open", !.at = session[s].at + 1]]
                /\ UNCHANGED lock
  /\ UNCHANGED <<netVars, stored, dropped, faults, channel>>

(* The channel is closed.  A cached writer is replaced by a new channel;   *)
(* with a new channel the session fails.                                   *)
DeclareFails(s) ==
  /\ At(s, "declare")
  /\ \/ (channel[Held(s)] = "lost" \/ Refused(s)) /\ NoFault
     \/ channel[Held(s)] = "open" /\ Fault
  /\ CloseChannel(s)
  /\ IF Cached(s) = Held(s)
     THEN /\ SetWriter(s, None)
          /\ session' = [session EXCEPT ![s].pc = "open", ![s].ch = None]
          /\ UNCHANGED lock
     ELSE Fail(s) /\ UNCHANGED writer
  /\ UNCHANGED <<netVars, brokerVars>>

(* A message is routed when its queue is bound.  The broker does not tell: *)
(* the channels are not in confirm mode and the publish is not mandatory.  *)
Routed(s) ==
  stored' = IF <<"bind", Queue(s)>> \in topology
            THEN [stored EXCEPT ![s] = @ + 1] ELSE stored

Publish(s) ==
  /\ At(s, "publish")
  /\ channel[Held(s)] = "open"
  /\ \/ Routed(s) /\ NoFault /\ UNCHANGED dropped
     \/ dropped' = dropped \cup {s} /\ Fault /\ UNCHANGED stored
  /\ Return(s, "done")
  /\ UNCHANGED <<netVars, topology, plain, channel, writer>>

(* Publish returns an error; the broker may have the message all the same. *)
(* The first time the writer is closed and replaced, the second time the   *)
(* call fails and the writer stays.                                        *)
PublishFails(s) ==
  /\ At(s, "publish")
  /\ \/ channel[Held(s)] = "lost" /\ NoFault /\ UNCHANGED stored
     \/ /\ channel[Held(s)] = "open"
        /\ Fault
        /\ Routed(s) \/ UNCHANGED stored
  /\ \/ /\ ~ session[s].retried
        /\ CloseChannel(s)
        /\ SetWriter(s, None)
        /\ session' = [session EXCEPT ![s].pc = "open", ![s].ch = None, ![s].retried = TRUE]
        /\ UNCHANGED lock
     \/ /\ session[s].retried
        /\ Return(s, "failed")
        /\ UNCHANGED <<channel, writer>>
  /\ UNCHANGED <<netVars, topology, plain, dropped>>

-----------------------------------------------------------------------------
(***************************************************************************)
(* The connection, which the shared library re-establishes.  The broker    *)
(* keeps its durable queues, or comes back without its data.               *)
(***************************************************************************)
ConnectionLost ==
  /\ connected
  /\ outages < MaxOutages
  /\ connected' = FALSE
  /\ outages' = outages + 1
  /\ channel' = [c \in Channels |-> IF channel[c] = "open" THEN "lost" ELSE channel[c]]
  /\ UNCHANGED <<emptied, brokerVars, faults, lock, writer, session>>

Reconnect ==
  /\ ~ connected
  /\ connected' = TRUE
  /\ \/ UNCHANGED <<emptied, topology, plain>>
     \/ Forgets /\ emptied' = TRUE /\ topology' = {} /\ plain' = {}
  /\ UNCHANGED <<outages, stored, dropped, faults, channel, lock, writer, session>>

-----------------------------------------------------------------------------
(* The process starts on a broker with nothing declared, or with task      *)
(* queues an earlier version declared without dead-letter arguments.       *)
Init ==
  /\ connected = TRUE
  /\ channel = [c \in Channels |-> "free"]
  /\ plain \in SUBSET QueueNames
  /\ topology = {"queue"} \X plain
  /\ emptied = FALSE
  /\ lock = [p \in Producers |-> None]
  /\ writer = [p \in Producers |-> [q \in QueueNames |-> None]]
  /\ session = [s \in Sessions |-> Idle]
  /\ stored = [s \in Publishers |-> 0]
  /\ dropped = {}
  /\ faults = 0 /\ outages = 0

BrokerCall(s) ==
  \/ Open(s) \/ OpenFails(s) \/ Declare(s) \/ DeclareFails(s)
  \/ Publish(s) \/ PublishFails(s)

Next ==
  \/ \E p \in Producers : Run(p)
  \/ \E s \in Publishers : PublishDispatch(s)
  \/ \E s \in Sessions : Lock(s) \/ BrokerCall(s)
  \/ ConnectionLost \/ Reconnect

Spec == Init /\ [][Next]_vars

(***************************************************************************)
(* Fairness: goroutines run, a broker call returns, and the connection is  *)
(* re-established.  Whether a message is published at all is up to the     *)
(* callers.  Go's mutex hands itself to the longest waiter (its starvation *)
(* mode), hence strong fairness of Lock.                                   *)
(***************************************************************************)
FairSpec ==
  /\ Spec
  /\ \A p \in Producers : WF_vars(Run(p))
  /\ \A s \in Sessions : SF_vars(Lock(s)) /\ WF_vars(BrokerCall(s))
  /\ WF_vars(Reconnect)

-----------------------------------------------------------------------------
(***************************************************************************)
(* Properties.                                                             *)
(***************************************************************************)
TypeOK ==
  /\ connected \in BOOLEAN /\ emptied \in BOOLEAN
  /\ channel \in [Channels -> {"free", "open", "lost"}]
  /\ topology \subseteq Items \X QueueNames
  /\ plain \subseteq QueueNames
  /\ lock \in [Producers -> Sessions \cup {None}]
  /\ writer \in [Producers -> [QueueNames -> Channels \cup {None}]]
  /\ session \in [Sessions ->
       [pc : {"idle", "locking", "open", "declare", "publish", "closing"} \cup Ended,
        at : 1..Len(Queues), ch : Channels \cup {None}, step : 1..3, retried : BOOLEAN]]
  /\ stored \in [Publishers -> 0..2]
  /\ dropped \subseteq Publishers
  /\ faults \in 0..MaxFaults /\ outages \in 0..MaxOutages

(* Every channel is cached by one producer for one queue, or in the hands  *)
(* of the one session that holds its producer's mutex.  Otherwise each     *)
(* rebuild would leak a channel until the connection's limit is reached,   *)
(* or a session would publish on a channel another one closes.             *)
Owners(c) ==
  {o \in Producers \X QueueNames : writer[o[1]][o[2]] = c}
  \cup {o \in Sessions \X QueueNames :
         /\ Held(o[1]) = c /\ Queue(o[1]) = o[2]
         /\ Cached(o[1]) # c}
ChannelsAreOwned ==
  /\ \A c \in Channels : IF channel[c] = "free" THEN Owners(c) = {}
                                                 ELSE Cardinality(Owners(c)) = 1
  /\ \A s \in Sessions : Held(s) # None => lock[Producer(s)] = s

(* A task queue whose messages go to the dead-letter exchange when they    *)
(* are rejected has the exchange and its dead-letter queue, whichever      *)
(* producer declared it: rejected tasks are kept, not dropped (the comment *)
(* in declarePublishTopology).  Not when the broker has come back empty:   *)
(* the dry-run producer then declares the task queue alone.                *)
DeadLettersHaveAPlace ==
  ~ emptied => \A q \in QueueNames \ plain :
                 <<"queue", q>> \in topology => <<"deadLetters", q>> \in topology

(* The producers do not refuse each other: on a broker that keeps working  *)
(* and has no queues of an earlier version, every set-up succeeds and no   *)
(* publish fails (the comment on the dry-run queueWithDLX).                *)
HealthyBrokerServes ==
  faults + outages = 0 /\ plain = {} =>
    \A s \in Sessions : session[s].pc \notin {"closing", "failed"}

(* What the use cases rely on, as Execution models it in PublishDispatch   *)
(* and PublishFails: an accepted message is in its queue unless the broker *)
(* lost it afterwards, and none arrives after its call has returned.       *)
Contract == INSTANCE TaskPublishing WITH
  Messages <- Publishers,
  requests <- {s \in Publishers : stored[s] > 0},
  result <- [s \in Publishers |->
               IF session[s].pc \in Ended THEN session[s].pc ELSE "pending"]
ImplementsPublishing == Contract!Spec

(* Every publish that has begun returns (a publisher publishes once): no   *)
(* session leaves without unlocking its producer's mutex, whatever fails.  *)
PublishesReturn ==
  []<>(\A s \in Publishers : session[s].pc \in {"idle"} \cup Ended)

(* AGENT.md, section 11: if RabbitMQ is unavailable when the service       *)
(* starts, it ends with a fatal error.  mapHandlers returns the error of   *)
(* Run, and HTTPServer.Run ends the process.                               *)
Exits == \E p \in Producers \cap {"http", "dryrun"} : At(p, "failed")
StartupFailsFast ==
  (\E p \in Producers \cap {"http", "dryrun"} : session[p].pc \in {"closing", "failed"})
     ~> Exits
==============================================================================
