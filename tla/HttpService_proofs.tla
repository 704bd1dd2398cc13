--------------------------- MODULE HttpService_proofs ---------------------------
(* Proofs of the safety properties of HttpService.                         *)
EXTENDS HttpService, TLAPS

-----------------------------------------------------------------------------
(***************************************************************************)
(* The inductive invariant.                                                *)
(***************************************************************************)
Handled ==
  {"Create", "Detail", "List", "Update", "Archive",
   "ActivateDataSource", "PauseDataSource", "ResumeDataSource", "Delete", "UpdateCrawlMode",
   "GetActivationReadiness", "Activate", "Pause", "Resume", "UpdateProjectCrawlMode",
   "CreateKeyword", "CreateProfile", "CreatePost", "ListTargets",
   "DetailTarget", "UpdateTarget", "ActivateTarget", "DeactivateTarget", "DeleteTarget",
   "Trigger", "GetLatest", "ListHistory", "DispatchTarget"}

Statuses == {0, 200, 400, 401, 403, 404, 409, 500, 503}
RequestState ==
  [pc : {"idle", "read", "write", "answered"}, route : Handled \cup {"none", "ready"},
   flaw : {"none"} \cup UNION {Flaws(r) : r \in Handled}, filters : 0..6,
   faulted : BOOLEAN, status : Statuses]
RequestShape == request \in RequestState

(* What is read and written has passed both validations.                   *)
Validated ==
  request.pc \in {"read", "write"} =>
    /\ request.route \in Handled
    /\ request.flaw \in {"none"} \cup Unnoticed(request.route)
    /\ request.status = 0

(* main has opened what its step comes after, ...                          *)
Up == {"workers", "handlers", "listen", "catch", "serving", "shutdown"}
StoresOpened ==
  /\ main \in {"redis", "minio", "kafka", "rabbit"} => "postgres" \in open
  /\ main \in {"kafka", "rabbit"} => "minio" \in open
  /\ main = "rabbit" => "kafka" \in open
  /\ main \in Up => HardStores \subseteq open

(* ... there is no listener before its step, none that accepts after the   *)
(* server was shut down or failed, ...                                     *)
Before ==
  {"load", "notify", "postgres", "redis", "minio", "kafka", "rabbit", "workers", "handlers", "listen",
   "hung"}
ListenerInTime ==
  /\ main \in Before \cup Up \cup {"close", "done", "failed", "killed"}
  /\ listener \in {"off", "starting", "open", "closed", "failed"}
  /\ main \in Before => listener = "off"
  /\ main \in {"shutdown", "close"} => listener \notin {"starting", "open"}

(* ... and only a request it was forced to leave outlives the server.      *)
ServedInTime ==
  ~Idle => /\ Alive
           /\ listener \notin {"off", "starting"}
           /\ main = "close" => forced

PInv == StoresOpened /\ ListenerInTime /\ ServedInTime
RInv == RequestShape /\ Validated /\ ServerErrorsAreFaults /\ AnswersAreRight

-----------------------------------------------------------------------------
(***************************************************************************)
(* The tables of the routes.                                               *)
(***************************************************************************)
LEMMA TogetherIs ==
  ASSUME NEW tables, NEW r \in DOMAIN Together(tables)
  PROVE  \E t \in tables : r \in DOMAIN t /\ Together(tables)[r] = t[r]
BY DEF Together

LEMMA TogetherHas ==
  ASSUME NEW tables, NEW t \in tables
  PROVE  DOMAIN t \subseteq DOMAIN Together(tables)
BY DEF Together

LEMMA CheckDomains ==
  /\ DOMAIN DryrunChecks = {"Trigger", "GetLatest", "ListHistory"}
  /\ DOMAIN DispatchChecks = {"DispatchTarget"}
BY DEF DryrunChecks, DispatchChecks

(* Every status is one of the service, and no error of a validation is a   *)
(* server error.                                                           *)
LEMMA StatusType ==
  ASSUME NEW r, NEW e
  PROVE  Status(r, e) \in {400, 404, 409, 500} /\ Status(r, "invalid") = 400
<1>1. \A x : SourceStatus(x) \in {400, 404, 500} /\ SourceStatus("invalid") = 400
  BY DEF SourceStatus
<1>2. \A x : DryrunStatus(x) \in {400, 404, 500} /\ DryrunStatus("invalid") = 400
  BY DEF DryrunStatus
<1>3. \A x : DispatchStatus(x) \in {400, 404, 409, 500} /\ DispatchStatus("invalid") = 400
  BY DEF DispatchStatus
<1>. QED
  BY <1>1, <1>2, <1>3, CheckDomains DEF Status

(* Of what a use case answers by itself nothing is a server error: shown   *)
(* for each table, and so for the tables together.                         *)
Mapped(table) == \A r \in DOMAIN table : \A e \in table[r].answers : Status(r, e) < 500

LEMMA MappedTogether ==
  ASSUME NEW tables, \A t \in tables : Mapped(t)
  PROVE  Mapped(Together(tables))
BY TogetherIs DEF Mapped

LEMMA SourceTables ==
  /\ Mapped(CreateOutcomes) /\ Mapped(QueryOutcomes) /\ Mapped(UpdateOutcomes)
  /\ Mapped(RemovalOutcomes) /\ Mapped(LifecycleOutcomes) /\ Mapped(ProjectOutcomes)
<1>. USE CheckDomains DEF Mapped, Status, SourceStatus, Outcomes
<1>1. Mapped(CreateOutcomes)
  BY DEF CreateOutcomes
<1>2. Mapped(QueryOutcomes)
  BY DEF QueryOutcomes
<1>3. Mapped(UpdateOutcomes)
  BY DEF UpdateOutcomes
<1>4. Mapped(RemovalOutcomes)
  BY DEF RemovalOutcomes
<1>5. Mapped(LifecycleOutcomes)
  BY DEF LifecycleOutcomes
<1>6. Mapped(ProjectOutcomes)
  BY DEF ProjectOutcomes
<1>. QED
  BY <1>1, <1>2, <1>3, <1>4, <1>5, <1>6

LEMMA TargetTables ==
  Mapped(CreateTargetOutcomes) /\ Mapped(TargetOutcomes) /\ Mapped(TargetSwitchOutcomes)
<1>. USE CheckDomains DEF Mapped, Status, SourceStatus, Outcomes
<1>1. Mapped(CreateTargetOutcomes)
  BY DEF CreateTargetOutcomes
<1>2. Mapped(TargetOutcomes)
  BY DEF TargetOutcomes
<1>3. Mapped(TargetSwitchOutcomes)
  BY DEF TargetSwitchOutcomes
<1>. QED
  BY <1>1, <1>2, <1>3

LEMMA OtherTables == Mapped(DryrunOutcomes) /\ Mapped(DispatchOutcomes)
<1>1. Mapped(DryrunOutcomes)
  BY CheckDomains DEF DryrunOutcomes, Mapped, Status, DryrunStatus, Outcomes
<1>2. Mapped(DispatchOutcomes)
  BY CheckDomains DEF DispatchOutcomes, Mapped, Status, DispatchStatus, Outcomes
<1>. QED
  BY <1>1, <1>2

LEMMA AnswersAreMapped == Mapped(UseCases)
BY SourceTables, TargetTables, OtherTables, MappedTogether DEF UseCases

LEMMA EveryRouteHasAUseCase == Handled \subseteq DOMAIN UseCases
<1>1. /\ DOMAIN CreateOutcomes = {"Create"} /\ DOMAIN QueryOutcomes = {"Detail", "List"}
      /\ DOMAIN UpdateOutcomes = {"Update"} /\ DOMAIN RemovalOutcomes = {"Archive", "Delete"}
  BY DEF CreateOutcomes, QueryOutcomes, UpdateOutcomes, RemovalOutcomes
<1>2. /\ DOMAIN LifecycleOutcomes =
           {"ActivateDataSource", "PauseDataSource", "ResumeDataSource", "UpdateCrawlMode"}
      /\ DOMAIN ProjectOutcomes =
           {"GetActivationReadiness", "Activate", "Resume", "Pause", "UpdateProjectCrawlMode"}
  BY DEF LifecycleOutcomes, ProjectOutcomes
<1>3. /\ DOMAIN CreateTargetOutcomes = {"CreateKeyword", "CreateProfile", "CreatePost"}
      /\ DOMAIN TargetOutcomes = {"DetailTarget", "ListTargets", "UpdateTarget"}
      /\ DOMAIN TargetSwitchOutcomes = {"ActivateTarget", "DeactivateTarget", "DeleteTarget"}
  BY DEF CreateTargetOutcomes, TargetOutcomes, TargetSwitchOutcomes
<1>4. /\ DOMAIN DryrunOutcomes = {"Trigger", "GetLatest", "ListHistory"}
      /\ DOMAIN DispatchOutcomes = {"DispatchTarget"}
  BY DEF DryrunOutcomes, DispatchOutcomes
<1>. DEFINE tables ==
       {CreateOutcomes, QueryOutcomes, UpdateOutcomes, RemovalOutcomes, LifecycleOutcomes,
        ProjectOutcomes, CreateTargetOutcomes, TargetOutcomes, TargetSwitchOutcomes,
        DryrunOutcomes, DispatchOutcomes}
<1>5. \A r \in Handled : \E t \in tables : r \in DOMAIN t
  BY <1>1, <1>2, <1>3, <1>4 DEF Handled
<1>6. UseCases = Together(tables)
  BY DEF UseCases
<1>. HIDE DEF tables
<1>. QED
  BY <1>5, <1>6, TogetherHas

LEMMA NothingAnsweredIsAServerError ==
  ASSUME NEW r \in Handled, NEW e \in UseCases[r].answers
  PROVE  Status(r, e) < 500
BY AnswersAreMapped, EveryRouteHasAUseCase DEF Mapped

-----------------------------------------------------------------------------
(***************************************************************************)
(* The request.  An action keeps what is known of it, the request's part   *)
(* of the invariant without what the answer contains.                      *)
(***************************************************************************)
Known == RequestShape /\ Validated /\ ServerErrorsAreFaults
Excused ==
  \/ request.flaw \in Unnoticed(request.route)
  \/ request.route = "List" /\ request.filters = 4

LEMMA NoRequestIsKnown ==
  NoRequest \in RequestState /\ NoRequest.route = "none" /\ NoRequest.faulted = FALSE
BY DEF NoRequest, RequestState, Statuses

LEMMA Dropped == ASSUME request' = NoRequest PROVE Known' /\ Idle'
<1>1. NoRequest.pc = "idle" /\ NoRequest.status = 0
  BY DEF NoRequest
<1>2. RequestShape'
  BY NoRequestIsKnown DEF RequestShape
<1>. QED
  BY <1>1, <1>2 DEF Known, Validated, ServerErrorsAreFaults, Idle

LEMMA Kept == ASSUME Known, UNCHANGED request PROVE Known' /\ (Idle' <=> Idle)
BY DEF Known, RequestShape, Validated, ServerErrorsAreFaults, Idle

LEMMA AnsweredWith ==
  ASSUME NEW base \in RequestState, NEW s \in Statuses, NEW f \in BOOLEAN,
         NEW r \in Handled \cup {"none", "ready"},
         request' = [base EXCEPT !.pc = "answered", !.route = r, !.faulted = f, !.status = s],
         s >= 500 /\ ~f => \/ base.flaw \in Unnoticed(r)
                           \/ r = "List" /\ base.filters = 4
  PROVE  Known' /\ Idle'
<1>1. /\ request' \in RequestState /\ request'.pc = "answered" /\ request'.route = r
      /\ request'.faulted = f /\ request'.status = s
      /\ request'.flaw = base.flaw /\ request'.filters = base.filters
  BY DEF RequestState
<1>. QED
  BY <1>1 DEF Known, RequestShape, Validated, ServerErrorsAreFaults, Idle

(* Of a server error that is not a fault the request is kept.              *)
LEMMA Answered ==
  ASSUME RequestShape, NEW s \in Statuses, NEW f \in BOOLEAN, Answer(s, f),
         s >= 500 /\ ~f => Excused
  PROVE  Known' /\ Idle'
<1>. DEFINE base == IF s < 500 \/ f THEN NoRequest ELSE request
<1>1. base \in RequestState
  BY NoRequestIsKnown DEF RequestShape
<1>2. request' = [base EXCEPT !.pc = "answered", !.status = s, !.faulted = f]
  BY DEF Answer
<1>3. s \in Nat
  BY DEF Statuses
<1>4. s >= 500 /\ ~f => base = request
  BY <1>3
<1>. HIDE DEF base
<1>5. request' = [base EXCEPT !.pc = "answered", !.route = base.route, !.faulted = f, !.status = s]
  BY <1>1, <1>2 DEF RequestState
<1>6. base.route \in Handled \cup {"none", "ready"}
  BY <1>1 DEF RequestState
<1>. QED
  BY <1>1, <1>4, <1>5, <1>6, AnsweredWith DEF Excused

LEMMA StatusesOf ==
  ASSUME NEW r, NEW e
  PROVE  Status(r, e) \in Statuses /\ 400 \in Statuses /\ 200 \in Statuses /\ Status(r, "invalid") = 400
BY StatusType DEF Statuses

LEMMA RefuseAccessStep == ASSUME RefuseAccess PROVE Known' /\ Idle'
<1>1. PICK s \in {401, 403} : request' = [NoRequest EXCEPT !.pc = "answered", !.status = s]
  BY DEF RefuseAccess
<1>. DEFINE f == FALSE
<1>2. request' = [NoRequest EXCEPT !.pc = "answered", !.route = "none", !.faulted = f, !.status = s]
  BY <1>1, NoRequestIsKnown DEF RequestState
<1>3. s \in Statuses /\ ~(s >= 500) /\ f \in BOOLEAN
  BY DEF Statuses
<1>4. "none" \in Handled \cup {"none", "ready"}
  OBVIOUS
<1>. DEFINE base == NoRequest
<1>5. /\ base \in RequestState
      /\ request' = [base EXCEPT !.pc = "answered", !.route = "none", !.faulted = f, !.status = s]
  BY <1>2, NoRequestIsKnown
<1>. HIDE DEF f, base
<1>. QED
  BY <1>3, <1>4, <1>5, AnsweredWith

LEMMA ReadyCheckStep == ASSUME ReadyCheck PROVE Known' /\ Idle'
<1>1. PICK ready \in BOOLEAN :
        request' = [NoRequest EXCEPT !.pc = "answered", !.route = "ready", !.faulted = ~ready,
                                     !.status = IF ready THEN 200 ELSE 503]
  <2>1. PICK down \in {{}} \cup (IF "reads" \in Faults THEN {{x} : x \in HardStores} ELSE {}) :
                    LET ready == HardStores \subseteq open /\ connected /\ down = {}
                    IN  request' = [NoRequest EXCEPT !.pc = "answered", !.route = "ready",
                                      !.faulted = ~ready, !.status = IF ready THEN 200 ELSE 503]
    BY DEF ReadyCheck
  <2>2. (HardStores \subseteq open /\ connected /\ down = {}) \in BOOLEAN
    OBVIOUS
  <2>. QED
    BY <2>1, <2>2
<1>. DEFINE s == IF ready THEN 200 ELSE 503
<1>2. s \in Statuses /\ ~(s >= 500 /\ ~~ready)
  BY DEF Statuses
<1>. HIDE DEF s
<1>3. request' = [NoRequest EXCEPT !.pc = "answered", !.route = "ready", !.faulted = ~ready, !.status = s]
  BY <1>1 DEF s
<1>. QED
  BY <1>2, <1>3, NoRequestIsKnown, AnsweredWith

(* A handler answers 400, or hands on what both validations let pass.      *)
LEMMA ReceiveStep ==
  ASSUME Known, NEW routes \in SUBSET Handled, Receive(routes)
  PROVE  Known'
<1>1. PICK r \in routes : \E f \in Flaws(r) \cup {"none"} :
        \/ f \in Refused(r) /\ Answer(400, FALSE)
        \/ f \notin Refused(r) /\ f \in Rechecks[r] /\ Answer(Status(r, "invalid"), FALSE)
        \/ /\ f \notin Refused(r) \cup Rechecks[r]
           /\ \E n \in IF r = "List" THEN 0..6 ELSE {0} :
                request' = [NoRequest EXCEPT !.pc = "read", !.route = r, !.flaw = f, !.filters = n]
  BY DEF Receive
<1>. DEFINE Handed(f) ==
       /\ f \notin Refused(r) \cup Rechecks[r]
       /\ \E n \in IF r = "List" THEN 0..6 ELSE {0} :
            request' = [NoRequest EXCEPT !.pc = "read", !.route = r, !.flaw = f, !.filters = n]
<1>2. PICK f \in Flaws(r) \cup {"none"} :
        Answer(400, FALSE) \/ Answer(Status(r, "invalid"), FALSE) \/ Handed(f)
  BY <1>1
<1>3. CASE Answer(Status(r, "invalid"), FALSE)
  <2>. DEFINE s == Status(r, "invalid")
  <2>1. s \in Statuses /\ ~(s >= 500) /\ FALSE \in BOOLEAN
    BY StatusesOf
  <2>2. Answer(s, FALSE)
    BY <1>3
  <2>. HIDE DEF s
  <2>. QED
    BY <2>1, <2>2, Answered DEF Known
<1>4. CASE Answer(400, FALSE)
  <2>1. ~(400 >= 500) /\ 400 \in Statuses /\ FALSE \in BOOLEAN /\ RequestShape
    BY DEF Statuses, Known
  <2>. QED
    BY <1>4, <2>1, Answered
<1>5. ASSUME f \notin Refused(r) \cup Rechecks[r], NEW n \in IF r = "List" THEN 0..6 ELSE {0},
             request' = [NoRequest EXCEPT !.pc = "read", !.route = r, !.flaw = f, !.filters = n]
      PROVE  Known'
  <2>1. n \in 0..6 /\ r \in Handled
    BY <1>5
  <2>2. f \in {"none"} \cup Unnoticed(r)
    BY <1>5 DEF Flaws
  <2>3. f \in {"none"} \cup UNION {Flaws(x) : x \in Handled}
    BY <2>1
  <2>4. /\ request' \in RequestState /\ request'.pc = "read" /\ request'.route = r
        /\ request'.flaw = f /\ request'.status = 0
    BY <1>5, <2>1, <2>3, NoRequestIsKnown DEF RequestState, NoRequest
  <2>. QED
    BY <2>1, <2>2, <2>4 DEF Known, RequestShape, Validated, ServerErrorsAreFaults
<1>. QED
  BY <1>2, <1>3, <1>4, <1>5

(* A flaw that is read or written is one that both validations let pass.   *)
LEMMA FlawIsUnnoticed ==
  ASSUME Known, request.pc \in {"read", "write"}, request.flaw # "none"
  PROVE  Excused
BY DEF Known, Validated, Excused

LEMMA FirstReadFailsStep == ASSUME Known, FirstReadFails PROVE Known' /\ Idle'
<1>. DEFINE flawed == request.flaw \in RefusedAtRead
            error == IF request.route = "Create" /\ flawed THEN "ErrProjectNotFound" ELSE UseCase.first
            s == Status(request.route, error)
<1>1. request.pc = "read" /\ Answer(s, ~flawed)
  BY DEF FirstReadFails, Serving
<1>2. flawed => Excused
  BY <1>1, FlawIsUnnoticed DEF RefusedAtRead
<1>3. s \in Statuses /\ (~flawed) \in BOOLEAN
  BY StatusesOf
<1>. HIDE DEF s, flawed
<1>. QED
  BY <1>1, <1>2, <1>3, Answered DEF Known

LEMMA LaterReadFailsStep == ASSUME Known, LaterReadFails PROVE Known' /\ Idle'
<1>1. PICK e \in UseCase.later : Answer(Status(request.route, e), TRUE)
  BY DEF LaterReadFails
<1>. DEFINE s == Status(request.route, e)
<1>2. s \in Statuses
  BY StatusesOf
<1>3. Answer(s, TRUE)
  BY <1>1
<1>. HIDE DEF s
<1>. QED
  BY <1>2, <1>3, Answered DEF Known

LEMMA RefuseRequestStep == ASSUME Known, RefuseRequest PROVE Known' /\ Idle'
<1>1. PICK e \in UseCases[request.route].answers : Answer(Status(request.route, e), FALSE)
  BY DEF RefuseRequest, UseCase
<1>2. request.route \in Handled
  BY DEF RefuseRequest, Reads, Serving, Known, Validated
<1>. DEFINE s == Status(request.route, e)
<1>3. s < 500 /\ s \in Statuses
  BY <1>2, NothingAnsweredIsAServerError, StatusesOf
<1>4. ~(s >= 500)
  BY <1>3 DEF Statuses
<1>. HIDE DEF s
<1>5. Answer(s, FALSE)
  BY <1>1 DEF s
<1>. QED
  BY <1>3, <1>4, <1>5, Answered DEF Known

LEMMA AnsweredFine ==
  ASSUME Known, Answer(200, FALSE)
  PROVE  Known' /\ Idle'
<1>1. 200 \in Statuses /\ ~(200 >= 500) /\ FALSE \in BOOLEAN
  BY DEF Statuses
<1>. QED
  BY <1>1, Answered DEF Known

LEMMA WriteFailsStep == ASSUME Known, WriteFails PROVE Known' /\ Idle'
<1>. DEFINE flawed == request.flaw \in RefusedAtWrite
<1>1. PICK e \in UseCase.write : Answer(Status(request.route, e), ~flawed)
  BY DEF WriteFails
<1>2. flawed => Excused
  BY FlawIsUnnoticed DEF WriteFails, Serving, RefusedAtWrite
<1>. DEFINE s == Status(request.route, e)
<1>3. s \in Statuses /\ Answer(s, ~flawed) /\ (~flawed) \in BOOLEAN
  BY <1>1, StatusesOf
<1>. HIDE DEF flawed, s
<1>. QED
  BY <1>2, <1>3, Answered DEF Known

LEMMA DecideStep == ASSUME Known, Decide PROVE Known'
<1>1. request.pc = "read" /\ request' = [request EXCEPT !.pc = "write"] /\ request \in RequestState
  BY DEF Decide, Reads, Serving, Known, RequestShape
<1>2. /\ request' \in RequestState /\ request'.pc = "write" /\ request'.route = request.route
      /\ request'.flaw = request.flaw /\ request'.status = request.status
      /\ request'.faulted = request.faulted /\ request'.filters = request.filters
  BY <1>1 DEF RequestState
<1>. QED
  BY <1>1, <1>2 DEF Known, RequestShape, Validated, ServerErrorsAreFaults

(***************************************************************************)
(* What a list serves and what a create inserts.                           *)
(***************************************************************************)
(* Of the slice of the conditions only five leave room for both goroutines.*)
LEMMA FourFiltersShareSlots ==
  ASSUME NEW n \in 0..6, n # 4
  PROVE  PageOutcomes(n) = {"right"}
<1>. DEFINE k == Conditions(n)
            Fits(c) == c \in {1, 2, 4, 8} /\ k <= c /\ \A d \in {1, 2, 4, 8} : k <= d => c <= d
<1>1. k \in 1..7 /\ k # 5 /\ k = n + 1
  BY DEF Conditions
<1>2. Capacity(n + 1) = CHOOSE c \in {1, 2, 4, 8} : k <= c /\ \A d \in {1, 2, 4, 8} : k <= d => c <= d
  BY <1>1 DEF Capacity
<1>. HIDE DEF k
<1>3. \E c : Fits(c)
  <2>1. CASE k = 1
    BY <2>1, Fits(1)
  <2>2. CASE k = 2
    BY <2>2, Fits(2)
  <2>3. CASE k \in {3, 4}
    BY <2>3, Fits(4)
  <2>4. CASE k \in {6, 7}
    BY <2>4, Fits(8)
  <2>. QED
    BY <1>1, <2>1, <2>2, <2>3, <2>4
<1>4. Fits(Capacity(n + 1))
  BY <1>2, <1>3
<1>5. SpareOfGetQuery(n) = Capacity(n + 1) - k
  BY <1>1 DEF SpareOfGetQuery, Conditions, k
<1>6. Capacity(n + 1) - k < 3
  BY <1>1, <1>4
<1>7. ~(PageAppends <= SpareOfGetQuery(n))
  BY <1>1, <1>4, <1>5, <1>6 DEF PageAppends
<1>. QED
  BY <1>7 DEF PageOutcomes, ShareSlots

LEMMA TargetsAsAsked ==
  ASSUME NEW opt \in Options({"priority", "label", "interval"})
  PROVE  AsAsked(opt, InsertedTarget(opt))
<1>. DEFINE row == InsertedTarget(opt)
            given == TargetRow(opt)
<1>1. DOMAIN given = {"values", "is_active", "priority", "label", "crawl_interval_minutes"}
  BY DEF TargetRow
<1>2. /\ given.is_active = "zero" /\ given.priority = opt.priority
      /\ given.label = opt.label /\ given.crawl_interval_minutes = opt.interval
  BY DEF TargetRow
<1>3. /\ row.is_active = given.is_active /\ row.priority = given.priority
      /\ row.label = IF given.label # "zero" THEN given.label ELSE "zero"
      /\ row.crawl_interval_minutes =
           IF given.crawl_interval_minutes # "zero" THEN given.crawl_interval_minutes ELSE "eleven"
  <2>. HIDE DEF given
  <2>1. row = [c \in DOMAIN given |->
                 IF c \in {"values", "is_active", "priority"}
                            \cup {x \in {"label", "crawl_interval_minutes"} : given[x] # "zero"}
                 THEN given[c] ELSE TargetDefaults[c]]
    BY DEF InsertedTarget, Inserted, given
  <2>2. TargetDefaults["label"] = "zero" /\ TargetDefaults["crawl_interval_minutes"] = "eleven"
    BY DEF TargetDefaults
  <2>. HIDE DEF row
  <2>. QED
    BY <1>1, <2>1, <2>2
<1>4. "config" \notin DOMAIN opt /\ opt["interval"] \in {"zero", "given"}
  BY DEF Options
<1>. HIDE DEF row, given
<1>5. AsAsked(opt, row)
  BY <1>2, <1>3, <1>4 DEF AsAsked
<1>. QED
  BY <1>5 DEF row

LEMMA SourcesAsAsked ==
  ASSUME NEW opt \in Options({"config", "description", "mode"})
  PROVE  AsAsked(opt, InsertedSource(opt))
<1>. DEFINE row == InsertedSource(opt)
            given == SourceRow(opt)
<1>1. DOMAIN given = {"name", "status", "config", "description", "crawl_mode"}
  BY DEF SourceRow
<1>2. /\ given.name = "given" /\ given.status = "PENDING"
      /\ given.config = IF opt.config = "zero" THEN "empty" ELSE opt.config
      /\ given.description = opt.description /\ given.crawl_mode = opt.mode
  BY DEF SourceRow
<1>3. /\ row.name = given.name /\ row.status = given.status
      /\ row.config = IF given.config # "zero" THEN given.config ELSE "empty"
      /\ row.description = IF given.description # "zero" THEN given.description ELSE "zero"
      /\ row.crawl_mode = IF given.crawl_mode # "zero" THEN given.crawl_mode ELSE "zero"
  <2>1. given.status # "zero"
    BY <1>2
  <2>. HIDE DEF given
  <2>2. row = [c \in DOMAIN given |->
                 IF c \in {"name"} \cup {x \in DOMAIN given : given[x] # "zero"}
                 THEN given[c] ELSE SourceDefaults[c]]
    BY DEF InsertedSource, Inserted, Infer, SourceColumnsWithoutDefault, given
  <2>3. /\ SourceDefaults["config"] = "empty" /\ SourceDefaults["description"] = "zero"
        /\ SourceDefaults["crawl_mode"] = "zero"
    BY DEF SourceDefaults
  <2>. HIDE DEF row
  <2>. QED
    BY <1>1, <2>1, <2>2, <2>3
<1>4. "config" \in DOMAIN opt /\ opt["config"] \in {"zero", "given"}
  BY DEF Options
<1>. HIDE DEF row, given
<1>5. AsAsked(opt, row)
  BY <1>2, <1>3, <1>4 DEF AsAsked
<1>. QED
  BY <1>5 DEF row

LEMMA GetDataSourcesStep ==
  ASSUME RInv, GetDataSources
  PROVE  Known' /\ Idle' /\ AnswersAreRight'
<1>1. Known /\ request.route = "List" /\ request.filters \in 0..6
  BY DEF RInv, Known, GetDataSources, RequestShape, RequestState
<1>2. PICK o \in PageOutcomes(request.filters) \ {"torn"} :
        IF o = "refused"
        THEN Answer(Status("List", UseCase.first), FALSE) /\ UNCHANGED page
        ELSE Answer(200, FALSE) /\ page' = {<<request.filters, o>>}
  BY DEF GetDataSources
<1>3. request.filters # 4 => o = "right"
  BY <1>1, <1>2, FourFiltersShareSlots
<1>4. CASE o = "refused"
  <2>1. Excused
    BY <1>1, <1>3, <1>4 DEF Excused
  <2>. DEFINE s == Status("List", UseCase.first)
  <2>2. s \in Statuses
    BY StatusesOf
  <2>3. Answer(s, FALSE) /\ UNCHANGED page
    BY <1>2, <1>4
  <2>. HIDE DEF s
  <2>4. Known' /\ Idle'
    BY <1>1, <2>1, <2>2, <2>3, Answered DEF Known
  <2>. QED
    BY <2>3, <2>4 DEF GetDataSources, RInv, AnswersAreRight
<1>5. CASE o # "refused"
  <2>1. Answer(200, FALSE) /\ page' = {<<request.filters, o>>}
    BY <1>2, <1>5
  <2>. QED
    BY <1>1, <1>3, <2>1, AnsweredFine DEF GetDataSources, RInv, AnswersAreRight
<1>. QED
  BY <1>4, <1>5

LEMMA WriteStep == ASSUME RInv, Write PROVE Known' /\ Idle' /\ AnswersAreRight'
<1>1. Answer(200, FALSE) /\ UNCHANGED page /\ Known /\ AnswersAreRight
  BY DEF Write, RInv, Known
<1>2. Known' /\ Idle'
  BY <1>1, AnsweredFine
<1>3. ASSUME NEW opt, NEW row, AsAsked(opt, row), created' = {<<opt, row>>}
      PROVE  AnswersAreRight'
  <2>1. \A c \in created' : c = <<opt, row>>
    BY <1>3
  <2>2. \A c \in created' : c[1] = opt /\ c[2] = row
    BY <2>1
  <2>. QED
    BY <1>1, <1>3, <2>2 DEF AnswersAreRight
<1>4. \/ UNCHANGED created
      \/ \E opt \in Options({"config", "description", "mode"}) :
              created' = {<<opt, InsertedSource(opt)>>}
      \/ \E opt \in Options({"priority", "label", "interval"}) :
              created' = {<<opt, InsertedTarget(opt)>>}
  BY DEF Write
<1>5. CASE UNCHANGED created
  BY <1>1, <1>2, <1>5 DEF AnswersAreRight
<1>6. ASSUME NEW opt \in Options({"config", "description", "mode"}),
             created' = {<<opt, InsertedSource(opt)>>}
      PROVE  AnswersAreRight'
  BY <1>3, <1>6, SourcesAsAsked
<1>7. ASSUME NEW opt \in Options({"priority", "label", "interval"}),
             created' = {<<opt, InsertedTarget(opt)>>}
      PROVE  AnswersAreRight'
  BY <1>3, <1>7, TargetsAsAsked
<1>. QED
  BY <1>2, <1>4, <1>5, <1>6, <1>7

-----------------------------------------------------------------------------
(***************************************************************************)
(* The steps of a request.  One that does not end in an answer was begun   *)
(* before, or begins while the listener accepts.                           *)
(***************************************************************************)
Served == Idle' \/ (UNCHANGED processVars /\ (~Idle \/ (Alive /\ Accepting)))
Around == UNCHANGED processVars \/ (main' = "killed" /\ Idle' /\ UNCHANGED <<open, listener, forced>>)

LEMMA Handlers ==
  ASSUME Known,
         \/ SourceHandlers \/ LifecycleHandlers \/ ProjectHandlers \/ NewTargetHandlers
         \/ TargetHandlers \/ DryrunHandlers \/ DispatchHandler
  PROVE  Known' /\ Served /\ UNCHANGED processVars /\ UNCHANGED <<page, created>>
<1>1. ASSUME NEW routes \in SUBSET Handled, Receive(routes)
      PROVE  Known' /\ Served /\ UNCHANGED processVars /\ UNCHANGED <<page, created>>
  <2>1. Known'
    BY <1>1, ReceiveStep
  <2>. QED
    BY <1>1, <2>1 DEF Receive, Served
<1>2. CASE SourceHandlers
  BY <1>1, <1>2 DEF SourceHandlers, Handled
<1>3. CASE LifecycleHandlers
  BY <1>1, <1>3 DEF LifecycleHandlers, Handled
<1>4. CASE ProjectHandlers
  BY <1>1, <1>4 DEF ProjectHandlers, Handled
<1>5. CASE NewTargetHandlers
  BY <1>1, <1>5 DEF NewTargetHandlers, Handled
<1>6. CASE TargetHandlers
  BY <1>1, <1>6 DEF TargetHandlers, Handled
<1>7. CASE DryrunHandlers
  BY <1>1, <1>7 DEF DryrunHandlers, Handled
<1>8. CASE DispatchHandler
  BY <1>1, <1>8 DEF DispatchHandler, Handled
<1>. QED
  BY <1>2, <1>3, <1>4, <1>5, <1>6, <1>7, <1>8

LEMMA RequestSteps ==
  ASSUME RInv, RequestStep
  PROVE  Known' /\ AnswersAreRight' /\ Served /\ Around
<1>1. Known /\ AnswersAreRight
  BY DEF RInv, Known
<1>2. ASSUME UNCHANGED <<page, created>> PROVE AnswersAreRight'
  BY <1>1, <1>2 DEF AnswersAreRight
<1>3. CASE \/ SourceHandlers \/ LifecycleHandlers \/ ProjectHandlers \/ NewTargetHandlers
           \/ TargetHandlers \/ DryrunHandlers \/ DispatchHandler
  BY <1>1, <1>2, <1>3, Handlers DEF Around
<1>4. CASE ReadyCheck
  BY <1>1, <1>2, <1>4, ReadyCheckStep DEF ReadyCheck, Served, Around
<1>5. CASE RefuseAccess
  BY <1>1, <1>2, <1>5, RefuseAccessStep DEF RefuseAccess, Served, Around
<1>6. CASE FirstReadFails
  <2>1. UNCHANGED <<processVars, page, created>>
    BY <1>6 DEF FirstReadFails
  <2>. QED
    BY <1>1, <1>2, <1>6, <2>1, FirstReadFailsStep DEF Served, Around
<1>7. CASE LaterReadFails
  BY <1>1, <1>2, <1>7, LaterReadFailsStep DEF LaterReadFails, Served, Around
<1>8. CASE RefuseRequest
  BY <1>1, <1>2, <1>8, RefuseRequestStep DEF RefuseRequest, Served, Around
<1>9. CASE Fetch
  BY <1>1, <1>2, <1>9, AnsweredFine DEF Fetch, Served, Around
<1>10. CASE GetDataSources
  BY <1>1, <1>10, GetDataSourcesStep DEF GetDataSources, Served, Around
<1>11. CASE TornPage
  <2>1. Known' /\ Idle'
    BY <1>11, Dropped DEF TornPage
  <2>. QED
    BY <1>2, <1>11, <2>1 DEF TornPage, Served, Around
<1>12. CASE Decide
  <2>1. ~Idle /\ UNCHANGED <<processVars, page, created>>
    BY <1>12 DEF Decide, Reads, Serving, Idle
  <2>. QED
    BY <1>1, <1>2, <1>12, <2>1, DecideStep DEF Served, Around
<1>13. CASE WriteFails
  <2>1. UNCHANGED <<processVars, page, created>>
    BY <1>13 DEF WriteFails
  <2>. QED
    BY <1>1, <1>2, <1>13, <2>1, WriteFailsStep DEF Served, Around
<1>14. CASE Write
  <2>1. UNCHANGED processVars
    BY <1>14 DEF Write
  <2>. QED
    BY <1>14, <2>1, WriteStep DEF Served, Around
<1>15. CASE Sent
  <2>1. Known' /\ Idle' /\ UNCHANGED processVars /\ page' = {} /\ created' = {}
    BY <1>15, Dropped DEF Sent
  <2>. QED
    BY <2>1 DEF AnswersAreRight, Served, Around
<1>. QED
  BY <1>3, <1>4, <1>5, <1>6, <1>7, <1>8, <1>9, <1>10, <1>11, <1>12, <1>13, <1>14, <1>15 DEF RequestStep

LEMMA InitRInv == Init => RInv
<1>. SUFFICES ASSUME Init PROVE RInv
  OBVIOUS
<1>1. request \in RequestState /\ request.pc = "idle" /\ request.status = 0
  BY NoRequestIsKnown DEF Init, NoRequest
<1>2. page = {} /\ created = {}
  BY DEF Init
<1>. QED
  BY <1>1, <1>2 DEF RInv, RequestShape, Validated, ServerErrorsAreFaults, AnswersAreRight

(* Everything else keeps the request, or ends it with the process.         *)
LEMMA KeepOrDrop ==
  ASSUME RInv, Keep \/ Drop
  PROVE  RInv' /\ (Idle' \/ (~Idle /\ UNCHANGED request))
<1>1. CASE Keep
  BY <1>1 DEF Keep, RInv, RequestShape, Validated, ServerErrorsAreFaults, AnswersAreRight, Idle
<1>2. CASE Drop
  BY <1>2, Dropped DEF Drop, RInv, Known, AnswersAreRight
<1>. QED
  BY <1>1, <1>2

LEMMA RequestStepOfInv == RInv /\ [Next]_vars => RInv'
<1>. SUFFICES ASSUME RInv, [Next]_vars PROVE RInv'
  OBVIOUS
<1>1. CASE RequestStep
  BY <1>1, RequestSteps DEF RInv, Known
<1>2. CASE ~RequestStep
  <2>1. Keep \/ Drop
    BY <1>2 DEF Next, StopServing, End, vars, Keep
  <2>. QED
    BY <2>1, KeepOrDrop
<1>. QED
  BY <1>1, <1>2

-----------------------------------------------------------------------------
(***************************************************************************)
(* The steps of the process.                                               *)
(***************************************************************************)
LEMMA StepsInOrder ==
  ASSUME NEW k \in 1..11, \A i \in 1..12 : Steps[i] = Steps[k] => i = k
  PROVE  Following(Steps[k]) = Steps[k + 1]
<1>1. Len(Steps) = 12
  BY DEF Steps
<1>. DEFINE i == CHOOSE x \in 1..12 : Steps[x] = Steps[k]
<1>2. Following(Steps[k]) = Steps[1 + i]
  BY <1>1 DEF Following
<1>3. i \in 1..12 /\ Steps[i] = Steps[k]
  <2>1. k \in 1..12
    OBVIOUS
  <2>. QED
    BY <2>1
<1>4. i = k
  BY <1>3
<1>. QED
  BY <1>2, <1>4

LEMMA FollowingSteps ==
  /\ Following("load") = "notify" /\ Following("notify") = "postgres"
  /\ Following("postgres") = "redis" /\ Following("redis") = "minio"
  /\ Following("minio") = "kafka" /\ Following("kafka") = "rabbit"
  /\ Following("rabbit") = "workers" /\ Following("workers") = "handlers"
  /\ Following("handlers") = "listen" /\ Following("listen") = "catch"
  /\ Following("catch") = "serving"
<1>1. /\ Steps[1] = "load" /\ Steps[2] = "notify" /\ Steps[3] = "postgres" /\ Steps[4] = "redis"
      /\ Steps[5] = "minio" /\ Steps[6] = "kafka" /\ Steps[7] = "rabbit" /\ Steps[8] = "workers"
      /\ Steps[9] = "handlers" /\ Steps[10] = "listen" /\ Steps[11] = "catch" /\ Steps[12] = "serving"
  BY DEF Steps
<1>2. ASSUME NEW k \in 1..12, NEW i \in 1..12, Steps[i] = Steps[k] PROVE i = k
  <2>1. i \in {1, 2, 3, 4, 5, 6, 7, 8, 9, 10, 11, 12} /\ k \in {1, 2, 3, 4, 5, 6, 7, 8, 9, 10, 11, 12}
    OBVIOUS
  <2>. QED
    BY <1>1, <1>2, <2>1
<1>3. \A k \in 1..11 : Following(Steps[k]) = Steps[k + 1]
  BY <1>2, StepsInOrder
<1>4. /\ Following(Steps[1]) = Steps[2] /\ Following(Steps[2]) = Steps[3]
      /\ Following(Steps[3]) = Steps[4] /\ Following(Steps[4]) = Steps[5]
      /\ Following(Steps[5]) = Steps[6] /\ Following(Steps[6]) = Steps[7]
      /\ Following(Steps[7]) = Steps[8] /\ Following(Steps[8]) = Steps[9]
      /\ Following(Steps[9]) = Steps[10] /\ Following(Steps[10]) = Steps[11]
      /\ Following(Steps[11]) = Steps[12]
  BY <1>3
<1>. QED
  BY <1>1, <1>4

LEMMA HardStoresAre == HardStores = {"postgres", "minio", "kafka", "rabbit"}
<1>1. /\ Len(Stores) = 4 /\ Stores[1] = "postgres" /\ Stores[2] = "minio"
      /\ Stores[3] = "kafka" /\ Stores[4] = "rabbit"
  BY DEF Stores
<1>2. 1..4 = {1, 2, 3, 4}
  OBVIOUS
<1>3. HardStores = {Stores[i] : i \in {1, 2, 3, 4}}
  BY <1>1, <1>2 DEF HardStores
<1>. QED
  BY <1>1, <1>3

(* A request that outlives a step was in service before, and the process   *)
(* has not ended.                                                          *)
Outlives == ~Idle' => ~Idle /\ main' \notin {"done", "failed", "killed"}

LEMMA MainSteps == ASSUME PInv, Outlives, MainStep PROVE PInv'
<1>. USE FollowingSteps, HardStoresAre
     DEF PInv, StoresOpened, ListenerInTime, ServedInTime, Up, Before, Outlives, Alive
<1>1. CASE Load
  BY <1>1 DEF Load, Fatal
<1>2. CASE NotifyContext
  BY <1>2 DEF NotifyContext
<1>3. CASE ConnectPostgres
  BY <1>3 DEF ConnectPostgres, Fatal
<1>4. CASE ConnectRedis
  BY <1>4 DEF ConnectRedis
<1>5. CASE ConnectMinIO
  BY <1>5 DEF ConnectMinIO, Fatal
<1>6. CASE ConnectProducer
  BY <1>6 DEF ConnectProducer, Fatal
<1>7. CASE ConnectRabbit
  BY <1>7 DEF ConnectRabbit, Fatal
<1>8. CASE StartWorkers
  BY <1>8 DEF StartWorkers
<1>9. CASE MapHandlers
  BY <1>9 DEF MapHandlers
<1>10. CASE StartListener
  BY <1>10 DEF StartListener
<1>11. CASE Notify
  BY <1>11 DEF Notify
<1>12. CASE SignalReceived
  BY <1>12 DEF SignalReceived
<1>13. CASE Disconnect
  <2>1. main = "close" /\ main' \in {"close", "done"} /\ UNCHANGED <<listener, forced>>
    BY <1>13 DEF Disconnect
  <2>. QED
    BY <2>1
<1>. QED
  BY <1>1, <1>2, <1>3, <1>4, <1>5, <1>6, <1>7, <1>8, <1>9, <1>10, <1>11, <1>12, <1>13 DEF MainStep

LEMMA EndStep == ASSUME PInv, End PROVE PInv'
<1>1. Outlives
  <2>1. CASE Keep /\ main' \notin {"done", "failed", "killed"}
    BY <2>1 DEF Keep, Outlives, Idle
  <2>2. CASE Drop
    BY <2>2, Dropped DEF Drop, Outlives
  <2>. QED
    BY <2>1, <2>2 DEF End
<1>2. CASE MainStep
  BY <1>1, <1>2, MainSteps
<1>3. CASE Terminate
  <2>1. main' \in {main, "killed"} /\ UNCHANGED <<open, listener, forced>>
    BY <1>3 DEF Terminate
  <2>. QED
    BY <1>1, <2>1 DEF PInv, StoresOpened, ListenerInTime, ServedInTime, Up, Before, Outlives, Alive
<1>4. CASE Kill
  BY <1>1, <1>4 DEF Kill, PInv, StoresOpened, ListenerInTime, ServedInTime, Up, Before, Outlives, Alive
<1>. QED
  BY <1>2, <1>3, <1>4 DEF End

LEMMA StopServingStep == ASSUME PInv, StopServing PROVE PInv'
<1>1. Idle' <=> Idle
  BY DEF StopServing, Keep, Idle
<1>. USE DEF PInv, StoresOpened, ListenerInTime, ServedInTime, Up, Before, Alive
<1>2. CASE ListenerFailed(Idle)
  BY <1>1, <1>2 DEF ListenerFailed
<1>3. CASE Shutdown(Idle)
  BY <1>1, <1>3 DEF Shutdown
<1>. QED
  BY <1>2, <1>3 DEF StopServing

LEMMA AsideStep ==
  ASSUME PInv, GoStep \/ ConsumerStep \/ CallWorker \/ LoseBroker \/ Reconnect \/ Restart, Keep
  PROVE  PInv'
<1>1. Idle' <=> Idle
  BY DEF Keep, Idle
<1>. USE DEF PInv, StoresOpened, ListenerInTime, ServedInTime, Up, Before, Alive
<1>2. CASE UNCHANGED <<main, open, listener, forced>>
  BY <1>1, <1>2
<1>3. CASE Listen
  BY <1>1, <1>3 DEF Listen
<1>4. CASE Restart
  BY <1>1, <1>4 DEF Restart
<1>5. CASE RegisterJobs \/ StartScheduler \/ ConsumerStep \/ CallWorker \/ LoseBroker \/ Reconnect
  BY <1>2, <1>5 DEF RegisterJobs, StartScheduler, ConsumerStep, ConsumeOnce, DeliveriesClosed,
                    StopConsuming, CallWorker, LoseBroker, Reconnect
<1>. QED
  BY <1>3, <1>4, <1>5 DEF GoStep

LEMMA ServiceStep == ASSUME RInv, PInv, RequestStep PROVE PInv'
<1>1. Served /\ Around
  BY RequestSteps
<1>. USE DEF PInv, StoresOpened, ListenerInTime, ServedInTime, Up, Before, Alive
<1>2. CASE UNCHANGED processVars
  <2>1. UNCHANGED <<main, open, listener, forced>>
    BY <1>2 DEF processVars
  <2>2. ~Idle' => ~Idle \/ (Alive /\ listener = "open")
    BY <1>1 DEF Served, Accepting
  <2>. QED
    BY <2>1, <2>2
<1>3. CASE main' = "killed" /\ Idle' /\ UNCHANGED <<open, listener, forced>>
  BY <1>3
<1>. QED
  BY <1>1, <1>2, <1>3 DEF Around

LEMMA InitPInv == Init => PInv
BY DEF Init, ProcessInit, NoRequest, Idle, PInv, StoresOpened, ListenerInTime, ServedInTime, Up, Before

LEMMA Invariance == Spec => [](RInv /\ PInv)
<1>1. RInv /\ PInv /\ [Next]_vars => PInv'
  <2>. SUFFICES ASSUME RInv, PInv, [Next]_vars PROVE PInv'
    OBVIOUS
  <2>1. CASE UNCHANGED vars
    BY <2>1 DEF vars, processVars, PInv, StoresOpened, ListenerInTime, ServedInTime, Up, Before, Alive, Idle
  <2>. QED
    BY <2>1, ServiceStep, StopServingStep, EndStep, AsideStep DEF Next
<1>2. RInv /\ PInv /\ [Next]_vars => (RInv /\ PInv)'
  BY <1>1, RequestStepOfInv
<1>. QED
  BY <1>2, InitRInv, InitPInv, PTL DEF Spec

-----------------------------------------------------------------------------
(***************************************************************************)
(* The theorems.                                                           *)
(***************************************************************************)
(* A request in service has the stores its use case needs, unless main was *)
(* forced to leave it: HTTPServer.Run and the deferred calls of main.      *)
THEOREM StoresWhileServing == Spec => []RequestsHaveStores
<1>1. PInv => RequestsHaveStores
  BY DEF PInv, ServedInTime, ListenerInTime, StoresOpened, RequestsHaveStores, Before, Up, Alive
<1>. QED
  BY <1>1, Invariance, PTL

(* Without a failure outside of it a request is answered with a server     *)
(* error only for what the database alone refuses, or for a list with four *)
(* filters: the validations, the use cases and mapError of every route.    *)
THEOREM ServerErrorsExplained == Spec => []ServerErrorsAreFaults
<1>1. RInv => ServerErrorsAreFaults
  BY DEF RInv
<1>. QED
  BY <1>1, Invariance, PTL

(* A page but the one with four filters is what was asked for, and so is a *)
(* row that a request created.                                             *)
THEOREM AnswersRight == Spec => []AnswersAreRight
<1>1. RInv => AnswersAreRight
  BY DEF RInv
<1>. QED
  BY <1>1, Invariance, PTL
===============================================================================
