---------------------------- MODULE ServiceProcess ----------------------------
(***************************************************************************)
(* The process: main of cmd/server, which connects to the stores one after *)
(* the other, starts the consumers and the scheduler as goroutines, and    *)
(* then is the HTTP server until a signal; the goroutines; the signals;    *)
(* and whatever restarts a process that ended.  What the server does with  *)
(* requests, and so how it is shut down, is in HttpService.                *)
(***************************************************************************)
EXTENDS Naturals, Sequences, FiniteSets

CONSTANTS
  Faults,      \* the steps of main that may fail, "jobs", "reads" and "writes"
  MaxSignals,  \* bound on the SIGTERMs one process gets
  MaxOutages   \* bound on the times the broker fails one process

(* The stores the service cannot be without, in the order of connecting.   *)
Stores == <<"postgres", "minio", "kafka", "rabbit">>
HardStores == {Stores[i] : i \in 1..Len(Stores)}

(* The steps of main, and of HTTPServer.Run that it ends in.               *)
Steps == <<"load", "notify", "postgres", "redis", "minio", "kafka", "rabbit",
           "workers", "handlers", "listen", "catch", "serving">>

ASSUME ProcessAssumption ==
  /\ Faults \subseteq {Steps[i] : i \in 1..Len(Steps)} \cup {"jobs", "reads", "writes"}
  /\ MaxSignals \in Nat /\ MaxOutages \in Nat

VARIABLES
  main,       \* where main is: a step, its shutdown, hanging, or how it ended
  open,       \* the hard stores it holds a connection to
  catching,   \* who has a channel for the signals: "ctx", "http", "scheduler"
  caught,     \* who has found a signal in that channel
  signals,    \* the number of signals this process was sent
  listener,   \* the HTTP listener: off, starting, open, closed, or failed
  forced,     \* main has gone on with a request still in service
  consumer,   \* a goroutine of Consume (there are two, for two queues)
  scheduler,  \* the goroutine of Start
  connected,  \* whether the connection to the broker is up
  outages     \* the number of times the broker has failed this process

signalVars == <<catching, caught, signals>>
goVars == <<consumer, scheduler>>
brokerVars == <<connected, outages>>
processVars == <<main, open, signalVars, listener, forced, goVars, brokerVars>>

Alive == main \notin {"done", "failed", "killed"}

(* The context of NotifyContext, which the connections and the consumers   *)
(* run on.                                                                 *)
Cancelled == "ctx" \in caught

ProcessInit ==
  /\ main = "load" /\ open = {}
  /\ catching = {} /\ caught = {} /\ signals = 0
  /\ listener = "off" /\ forced = FALSE
  /\ consumer = "off" /\ scheduler = "off"
  /\ connected = FALSE /\ outages = 0

-----------------------------------------------------------------------------
(* main                                                                    *)

Following(step) == Steps[1 + CHOOSE i \in 1..Len(Steps) : Steps[i] = step]

Fatal(step) == main = step /\ step \in Faults /\ main' = "failed"

(* The configuration: its file or the environment, the defaults, validate. *)
Load ==
  /\ \/ main = "load" /\ main' = Following("load")
     \/ Fatal("load")
  /\ UNCHANGED <<open, signalVars, listener, forced, goVars, brokerVars>>

NotifyContext ==
  /\ main = "notify" /\ main' = Following("notify")
  /\ catching' = catching \cup {"ctx"}
  /\ UNCHANGED <<open, caught, signals, listener, forced, goVars, brokerVars>>

(* PostgreSQL and MinIO are asked whether they are there, on the context.  *)
ConnectPostgres ==
  /\ \/ /\ main = "postgres" /\ ~Cancelled
        /\ main' = Following("postgres") /\ open' = open \cup {"postgres"}
     \/ (Fatal("postgres") \/ (main = "postgres" /\ Cancelled /\ main' = "failed")) /\ UNCHANGED open
  /\ UNCHANGED <<signalVars, listener, forced, goVars, brokerVars>>

(* With Redis or, degraded, without: no request depends on it.             *)
ConnectRedis ==
  /\ main = "redis" /\ main' = Following("redis")
  /\ UNCHANGED <<open, signalVars, listener, forced, goVars, brokerVars>>

ConnectMinIO ==
  /\ \/ /\ main = "minio" /\ ~Cancelled
        /\ main' = Following("minio") /\ open' = open \cup {"minio"}
     \/ (Fatal("minio") \/ (main = "minio" /\ Cancelled /\ main' = "failed")) /\ UNCHANGED open
  /\ UNCHANGED <<signalVars, listener, forced, goVars, brokerVars>>

ConnectProducer ==
  /\ \/ main = "kafka" /\ main' = Following("kafka") /\ open' = open \cup {"kafka"}
     \/ Fatal("kafka") /\ UNCHANGED open
  /\ UNCHANGED <<signalVars, listener, forced, goVars, brokerVars>>

ConnectRabbit ==
  /\ \/ /\ main = "rabbit" /\ main' = Following("rabbit")
        /\ open' = open \cup {"rabbit"} /\ connected' = TRUE
     \/ Fatal("rabbit") /\ UNCHANGED <<open, connected>>
  /\ UNCHANGED <<signalVars, listener, forced, goVars, outages>>

StartWorkers ==
  /\ main = "workers" /\ main' = Following("workers")
  /\ consumer' = "waiting" /\ scheduler' = "starting"
  /\ UNCHANGED <<open, signalVars, listener, forced, brokerVars>>

(* httpserver.New refuses a configuration, and main returns; mapHandlers   *)
(* starts two producers: a refused channel is fatal, a refused queue makes *)
(* the producer wait for its own mutex (DispatchProducer).                 *)
MapHandlers ==
  /\ main = "handlers"
  /\ \/ main' = Following("handlers")
     \/ "handlers" \in Faults /\ main' \in {"close", "failed", "hung"}
  /\ UNCHANGED <<open, signalVars, listener, forced, goVars, brokerVars>>

StartListener ==
  /\ main = "listen" /\ main' = Following("listen")
  /\ listener' = "starting"
  /\ UNCHANGED <<open, signalVars, forced, goVars, brokerVars>>

Notify ==
  /\ main = "catch" /\ main' = Following("catch")
  /\ catching' = catching \cup {"http"}
  /\ UNCHANGED <<open, caught, signals, listener, forced, goVars, brokerVars>>

(* The goroutine of ListenAndServe; accepting may fail later too.          *)
Listen ==
  /\ Alive
  /\ \/ listener = "starting" /\ listener' = "open"
     \/ listener \in {"starting", "open"} /\ "listen" \in Faults /\ listener' = "failed"
  /\ UNCHANGED <<main, open, signalVars, forced, goVars, brokerVars>>

(* main takes what comes first: the error of the listener, with which Run  *)
(* returns as it is, or the signal.                                        *)
ListenerFailed(idle) ==
  /\ main = "serving" /\ listener = "failed"
  /\ main' = "close" /\ forced' = ~idle
  /\ UNCHANGED <<open, signalVars, listener, goVars, brokerVars>>

(* Mutant of SignalReceived: the server is not shut down.                   *)
ReturnWithoutShutdown ==
  /\ main = "serving" /\ "http" \in caught
  /\ main' = "close" /\ listener' = "closed"
  /\ UNCHANGED <<open, signalVars, forced, goVars, brokerVars>>

SignalReceived ==
  /\ main = "serving" /\ "http" \in caught
  /\ main' = "shutdown"
  /\ listener' = IF listener = "failed" THEN "failed" ELSE "closed"
  /\ UNCHANGED <<open, signalVars, forced, goVars, brokerVars>>

(* Mutant of Shutdown: with the background context, without a timeout.     *)
ShutdownWithoutTimeout(idle) ==
  /\ main = "shutdown" /\ idle
  /\ main' = "close"
  /\ UNCHANGED <<open, signalVars, listener, forced, goVars, brokerVars>>

(* Shutdown waits for the requests in service, for 15 seconds.             *)
Shutdown(idle) ==
  /\ main = "shutdown"
  /\ \/ idle /\ UNCHANGED forced
     \/ ~idle /\ forced' = TRUE
  /\ main' = "close"
  /\ UNCHANGED <<open, signalVars, listener, goVars, brokerVars>>

(* The deferred calls of main, the last first; no goroutine is waited for. *)
LastOpened == CHOOSE i \in 1..Len(Stores) :
                /\ Stores[i] \in open
                /\ \A j \in (i + 1)..Len(Stores) : Stores[j] \notin open

Disconnect ==
  /\ main = "close"
  /\ IF open = {}
     THEN main' = "done" /\ UNCHANGED <<open, connected>>
     ELSE /\ open' = open \ {Stores[LastOpened]}
          /\ connected' = (connected /\ "rabbit" \in open')
          /\ UNCHANGED main
  /\ UNCHANGED <<signalVars, listener, forced, goVars, outages>>

-----------------------------------------------------------------------------
(* Signals, and the platform.                                              *)

(* A signal goes to every channel registered; with none, it ends the       *)
(* process.                                                                *)
Terminate ==
  /\ Alive /\ signals < MaxSignals
  /\ signals' = signals + 1
  /\ caught' = caught \cup catching
  /\ main' = IF catching = {} THEN "killed" ELSE main
  /\ UNCHANGED <<open, catching, listener, forced, goVars, brokerVars>>

Kill ==
  /\ Alive /\ main' = "killed"
  /\ UNCHANGED <<open, signalVars, listener, forced, goVars, brokerVars>>

Restart ==
  /\ ~Alive
  /\ main' = "load" /\ open' = {}
  /\ catching' = {} /\ caught' = {} /\ signals' = 0
  /\ listener' = "off" /\ forced' = FALSE
  /\ consumer' = "off" /\ scheduler' = "off"
  /\ connected' = FALSE /\ outages' = 0

LoseBroker ==
  /\ Alive /\ connected /\ outages < MaxOutages
  /\ connected' = FALSE /\ outages' = outages + 1
  /\ UNCHANGED <<main, open, signalVars, listener, forced, goVars>>

(* The connection's own retries.                                           *)
Reconnect ==
  /\ Alive /\ ~connected /\ "rabbit" \in open
  /\ connected' = TRUE
  /\ UNCHANGED <<main, open, signalVars, listener, forced, goVars, outages>>

-----------------------------------------------------------------------------
(* A consumer: consume calls consumeOnce again after every error, with a   *)
(* backoff, until the context is done.                                     *)

ConsumeOnce ==
  /\ Alive /\ consumer = "waiting" /\ ~Cancelled /\ connected
  /\ \/ consumer' = "consuming" /\ UNCHANGED outages
     \/ outages < MaxOutages /\ outages' = outages + 1 /\ UNCHANGED consumer
  /\ UNCHANGED <<main, open, signalVars, listener, forced, scheduler, connected>>

(* The worker runs a delivery to its end, whatever happens to the context, *)
(* and a panic of it is caught.                                            *)
CallWorker ==
  /\ Alive /\ \/ consumer = "consuming" /\ connected /\ consumer' = "working"
              \/ consumer = "working" /\ consumer' = "consuming"
  /\ UNCHANGED <<main, open, signalVars, listener, forced, scheduler, brokerVars>>

(* Mutant of DeliveriesClosed: consume returns the error of consumeOnce.   *)
ConsumeReturnsItsError ==
  /\ Alive /\ consumer = "consuming" /\ ~connected
  /\ consumer' = "stopped"
  /\ UNCHANGED <<main, open, signalVars, listener, forced, scheduler, brokerVars>>

DeliveriesClosed ==
  /\ Alive /\ consumer = "consuming" /\ ~connected
  /\ consumer' = "waiting"
  /\ UNCHANGED <<main, open, signalVars, listener, forced, scheduler, brokerVars>>

StopConsuming ==
  /\ Alive /\ Cancelled /\ consumer \in {"waiting", "consuming"}
  /\ consumer' = "stopped"
  /\ UNCHANGED <<main, open, signalVars, listener, forced, scheduler, brokerVars>>

(* The scheduler.  registerJobs starts a producer, as mapHandlers does; its *)
(* errors are logged and the process goes on without a scheduler.  What    *)
(* the cron runs is in DueTargets.                                         *)
RegisterJobs ==
  /\ Alive /\ scheduler = "starting"
  /\ \/ scheduler' = "registered"
     \/ "jobs" \in Faults /\ scheduler' \in {"stopped", "hung"}
  /\ UNCHANGED <<main, open, signalVars, listener, forced, consumer, brokerVars>>

StartScheduler ==
  /\ Alive
  /\ \/ /\ scheduler = "registered" /\ scheduler' = "waiting"
        /\ catching' = catching \cup {"scheduler"}
     \/ /\ scheduler = "waiting" /\ "scheduler" \in caught
        /\ scheduler' = "stopped" /\ UNCHANGED catching
  /\ UNCHANGED <<main, open, caught, signals, listener, forced, consumer, brokerVars>>

-----------------------------------------------------------------------------
(* The steps that end by themselves: not a worker, which may wait for what *)
(* it calls, and not what comes from outside.                              *)
MainStep ==
  \/ Load \/ NotifyContext \/ StartWorkers \/ MapHandlers \/ StartListener \/ Notify
  \/ ConnectPostgres \/ ConnectRedis \/ ConnectMinIO \/ ConnectProducer \/ ConnectRabbit
  \/ SignalReceived \/ Disconnect
GoStep == Listen \/ RegisterJobs \/ StartScheduler
ConsumerStep == ConsumeOnce \/ DeliveriesClosed \/ StopConsuming
=============================================================================
