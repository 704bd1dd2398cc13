------------------------------ MODULE HttpService ------------------------------
(***************************************************************************)
(* The HTTP server inside its process: one request at a time goes through  *)
(* the middleware, the delivery layer, a use case that reads and writes,   *)
(* and an answer, while the process starts, loses its broker, is told to   *)
(* stop, closes its connections, is killed and restarted.                  *)
(***************************************************************************)
EXTENDS ServiceProcess, SourceRequests, SourceRows

VARIABLES
  request,  \* pc: idle, read, write or answered; its route, flaw and number of
            \* filters; whether something outside of it failed; its status
  page,     \* what the list served, with its number of filters: {} or a singleton
  created   \* the row the request inserted, with what it asked: {} or a singleton

vars == <<processVars, request, page, created>>

NoRequest == [pc |-> "idle", route |-> "none", flaw |-> "none", filters |-> 0,
              faulted |-> FALSE, status |-> 0]
Idle == request.pc \in {"idle", "answered"}

Init == ProcessInit /\ request = NoRequest /\ page = {} /\ created = {}

-----------------------------------------------------------------------------
(* Routes and handlers                                                     *)

(* Of an answer, the status is kept, and of a server error its request.    *)
Answer(status, faulted) ==
  request' = [(IF status < 500 \/ faulted THEN NoRequest ELSE request)
                EXCEPT !.pc = "answered", !.status = status, !.faulted = faulted]

Accepting == listener = "open" /\ request.pc = "idle"

(* The middleware: no token or no administrator, or not the internal key.  *)
RefuseAccess ==
  /\ Alive /\ Accepting
  /\ \E s \in {401, 403} : request' = [NoRequest EXCEPT !.pc = "answered", !.status = s]
  /\ UNCHANGED <<processVars, page, created>>

(* A handler: process the request, call the use case, map its error. What  *)
(* a validation refuses, in either layer, is answered before anything is   *)
(* read.                                                                   *)
Receive(routes) ==
  /\ Alive /\ Accepting
  /\ \E r \in routes : \E f \in Flaws(r) \cup {"none"} :
       \/ f \in Refused(r) /\ Answer(400, FALSE)
       \/ f \notin Refused(r) /\ f \in Rechecks[r] /\ Answer(Status(r, "invalid"), FALSE)
       \/ /\ f \notin Refused(r) \cup Rechecks[r]
          /\ \E n \in IF r = "List" THEN 0..6 ELSE {0} :
               request' = [NoRequest EXCEPT !.pc = "read", !.route = r, !.flaw = f, !.filters = n]
  /\ UNCHANGED <<processVars, page, created>>

SourceHandlers == Receive({"Create", "Detail", "List", "Update", "Archive"})
LifecycleHandlers ==
  Receive({"ActivateDataSource", "PauseDataSource", "ResumeDataSource", "Delete", "UpdateCrawlMode"})
ProjectHandlers ==
  Receive({"GetActivationReadiness", "Activate", "Pause", "Resume", "UpdateProjectCrawlMode"})
NewTargetHandlers == Receive({"CreateKeyword", "CreateProfile", "CreatePost", "ListTargets"})
TargetHandlers ==
  Receive({"DetailTarget", "UpdateTarget", "ActivateTarget", "DeactivateTarget", "DeleteTarget"})
DryrunHandlers == Receive({"Trigger", "GetLatest", "ListHistory"})
DispatchHandler == Receive({"DispatchTarget"})

(* Readiness asks the hard dependencies; without Redis it is only degraded. *)
ReadyCheck ==
  /\ Alive /\ Accepting
  /\ \E down \in {{}} \cup (IF "reads" \in Faults THEN {{s} : s \in HardStores} ELSE {}) :
       LET ready == HardStores \subseteq open /\ connected /\ down = {}
       IN  request' = [NoRequest EXCEPT !.pc = "answered", !.route = "ready", !.faulted = ~ready,
                                        !.status = IF ready THEN 200 ELSE 503]
  /\ UNCHANGED <<processVars, page, created>>

-----------------------------------------------------------------------------
(* The use case                                                            *)

UseCase == UseCases[request.route]
Serving(pc) == Alive /\ request.pc = pc

(* The first read fails with the database, or refuses a flaw; Create asks  *)
(* the project service, to which a malformed project is one it has not.    *)
FirstReadFails ==
  /\ Serving("read")
  /\ LET flawed == request.flaw \in RefusedAtRead
         error == IF request.route = "Create" /\ flawed THEN "ErrProjectNotFound" ELSE UseCase.first
     IN  /\ flawed \/ "reads" \in Faults \/ "postgres" \notin open
         /\ Answer(Status(request.route, error), ~flawed)
  /\ UNCHANGED <<processVars, page, created>>

Reads == Serving("read") /\ request.flaw \notin RefusedAtRead /\ "postgres" \in open

LaterReadFails ==
  /\ Reads /\ "reads" \in Faults
  /\ \E e \in UseCase.later : Answer(Status(request.route, e), TRUE)
  /\ UNCHANGED <<processVars, page, created>>

RefuseRequest ==
  /\ Reads
  /\ \E e \in UseCase.answers : Answer(Status(request.route, e), FALSE)
  /\ UNCHANGED <<processVars, page, created>>

(* A request that only reads is answered; GetDataSources counts and fetches *)
(* at the same time.                                                       *)
Fetch ==
  /\ Reads /\ UseCase.write = {} /\ request.route # "List"
  /\ Answer(200, FALSE)
  /\ UNCHANGED <<processVars, page, created>>

GetDataSources ==
  /\ Reads /\ request.route = "List"
  /\ \E o \in PageOutcomes(request.filters) \ {"torn"} :
       IF o = "refused"
       THEN Answer(Status("List", UseCase.first), FALSE) /\ UNCHANGED page
       ELSE Answer(200, FALSE) /\ page' = {<<request.filters, o>>}
  /\ UNCHANGED <<processVars, created>>

(* A condition that is half of one and half of another: the goroutine that *)
(* applies it panics, and nothing recovers there.                          *)
TornPage ==
  /\ Reads /\ request.route = "List" /\ "torn" \in PageOutcomes(request.filters)
  /\ main' = "killed" /\ request' = NoRequest
  /\ UNCHANGED <<open, signalVars, listener, forced, goVars, brokerVars, page, created>>

Decide ==
  /\ Reads /\ UseCase.write # {}
  /\ request' = [request EXCEPT !.pc = "write"]
  /\ UNCHANGED <<processVars, page, created>>

(* A broker that is away fails what is sent to it.                         *)
Sends == request.route \in {"Trigger", "DispatchTarget"}

WriteFails ==
  /\ Serving("write")
  /\ LET flawed == request.flaw \in RefusedAtWrite
     IN  /\ flawed \/ "writes" \in Faults \/ "postgres" \notin open \/ (Sends /\ ~connected)
         /\ \E e \in UseCase.write : Answer(Status(request.route, e), ~flawed)
  /\ UNCHANGED <<processVars, page, created>>

Options(fields) == [fields -> {"zero", "given"}]

(* A project without a source to change stores nothing of its request.     *)
Write ==
  /\ Serving("write")
  /\ request.flaw \notin RefusedAtWrite \/ request.route = "UpdateProjectCrawlMode"
  /\ "postgres" \in open /\ (Sends => connected)
  /\ Answer(200, FALSE)
  /\ CASE request.route = "Create" ->
            \E opt \in Options({"config", "description", "mode"}) :
              created' = {<<opt, InsertedSource(opt)>>}
       [] request.route \in {"CreateKeyword", "CreateProfile", "CreatePost"} ->
            \E opt \in Options({"priority", "label", "interval"}) :
              created' = {<<opt, InsertedTarget(opt)>>}
       [] OTHER -> UNCHANGED created
  /\ UNCHANGED <<processVars, page>>

(* The answer is sent and the connection waits for the next request.       *)
Sent ==
  /\ Alive /\ request.pc = "answered"
  /\ request' = NoRequest /\ page' = {} /\ created' = {}
  /\ UNCHANGED processVars

-----------------------------------------------------------------------------
(* The process around the requests: its end ends them.                     *)
Drop == request' = NoRequest /\ page' = {} /\ created' = {}
Keep == UNCHANGED <<request, page, created>>

StopServing == (ListenerFailed(Idle) \/ Shutdown(Idle)) /\ Keep
End == (Terminate \/ Kill \/ MainStep) /\ IF main' \in {"done", "failed", "killed"} THEN Drop ELSE Keep

RequestStep ==
  \/ SourceHandlers \/ LifecycleHandlers \/ ProjectHandlers \/ NewTargetHandlers \/ TargetHandlers
  \/ DryrunHandlers \/ DispatchHandler \/ ReadyCheck \/ RefuseAccess
  \/ FirstReadFails \/ LaterReadFails \/ RefuseRequest \/ Fetch \/ GetDataSources \/ TornPage
  \/ Decide \/ WriteFails \/ Write \/ Sent

Next ==
  \/ RequestStep \/ StopServing \/ End
  \/ (GoStep \/ ConsumerStep \/ CallWorker \/ LoseBroker \/ Reconnect \/ Restart) /\ Keep

(* main and the goroutines of the process are scheduled; a request may     *)
(* wait for what it calls for as long as that takes.                       *)
Fairness ==
  /\ WF_vars(End /\ MainStep) /\ WF_vars(StopServing)
  /\ WF_vars(GoStep /\ Keep) /\ WF_vars(StopConsuming /\ Keep)
  /\ WF_vars(Reconnect /\ Keep) /\ WF_vars(DeliveriesClosed /\ Keep) /\ WF_vars(ConsumeOnce /\ Keep)

Spec == Init /\ [][Next]_vars /\ Fairness

-----------------------------------------------------------------------------
(* The properties                                                          *)

(* A request in service has the stores its use case needs, unless main has *)
(* stopped waiting for it: HTTPServer.Run, Shutdown and the deferred calls *)
(* of main, in their order.                                                *)
RequestsHaveStores == ~Idle /\ ~forced => HardStores \subseteq open

(* Without a failure outside of it, no request is answered with a server   *)
(* error: what a layer refuses has a status of its own.  Only what a route *)
(* lets through to the database, to be refused there, and a list with four *)
(* filters are: validate, the use cases and mapError together.             *)
ServerErrorsAreFaults ==
  request.status >= 500 /\ ~request.faulted =>
    \/ request.flaw \in Unnoticed(request.route)
    \/ request.route = "List" /\ request.filters = 4

(* What a list and a create answer is what was asked for.  A list serves   *)
(* its page whatever its filters, except with four: GetDataSources' two    *)
(* goroutines share the slice of buildGetQuery.  A created target is       *)
(* inactive until it is activated, has the interval given or else the      *)
(* default, and its priority even if zero; a source is PENDING:            *)
(* CreateTarget's list of columns, Insert.                                 *)
AsAsked(asked, row) ==
  IF "config" \in DOMAIN asked
  THEN /\ row.status = "PENDING" /\ row.name = "given"
       /\ row.config = IF asked.config = "given" THEN "given" ELSE "empty"
       /\ row.description = asked.description /\ row.crawl_mode = asked.mode
  ELSE /\ row.is_active = "zero" /\ row.priority = asked.priority /\ row.label = asked.label
       /\ row.crawl_interval_minutes = IF asked.interval = "given" THEN "given" ELSE "eleven"
AnswersAreRight ==
  /\ \A p \in page : p[1] # 4 => p[2] = "right"
  /\ \A c \in created : AsAsked(c[1], c[2])

(* Once the server has the signal the process ends, whatever its requests  *)
(* and its consumers do: the timeout of Shutdown.                          *)
SignalEndsProcess == "http" \in caught ~> ~Alive

(* A consumer that has lost its queue gets it back, as long as the process *)
(* was not told to stop: consume's loop, with its backoff.                 *)
ConsumersComeBack ==
  consumer \in {"waiting", "stopped"} ~>
    consumer = "consuming" \/ Cancelled \/ main \in {"close", "done", "failed", "killed"}
=============================================================================
