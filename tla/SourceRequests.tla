---------------------------- MODULE SourceRequests ----------------------------
(***************************************************************************)
(* What the routes of the service refuse, and how they answer.             *)
(*                                                                         *)
(* A request is its route and at most one flaw: something in it that a     *)
(* layer refuses, or should have.  The delivery layer binds and validates, *)
(* the use case validates again, and the database has its columns and      *)
(* constraints.  The outcomes of a use case are names of domain errors;    *)
(* the delivery layer maps them to a status.                               *)
(***************************************************************************)
EXTENDS Naturals

(* The tables of a set, whose domains are disjoint, as one.                *)
Together(tables) ==
  [r \in UNION {DOMAIN t : t \in tables} |-> (CHOOSE t \in tables : r \in DOMAIN t)[r]]

-----------------------------------------------------------------------------
(* Binding: a body or a query that cannot be read.  The others bind only   *)
(* the path, which always binds.                                           *)
BoundSourceRoutes ==
  {"Create", "List", "Update", "UpdateCrawlMode", "GetActivationReadiness", "UpdateProjectCrawlMode"}
BoundTargetRoutes ==
  {"CreateKeyword", "CreateProfile", "CreatePost", "ListTargets", "UpdateTarget"}
BoundDryrunRoutes == {"Trigger", "GetLatest", "ListHistory"}

(* What the requests' validate refuses.  "schedule" is a crawl source      *)
(* without mode or interval; "id" the source's, "target" the target's.     *)
SourceChecks ==
  [Create |-> {"project", "name", "type", "category", "mode", "interval", "schedule"},
   Detail |-> {"id"},
   List   |-> {"project", "type", "category", "mode"},
   Update |-> {"id", "interval"}]

LifecycleChecks == Together(
  {[r \in {"Archive", "ActivateDataSource", "PauseDataSource", "ResumeDataSource", "Delete"} |-> {"id"}],
   [r \in {"Activate", "Pause", "Resume"} |-> {"project"}],
   [UpdateProjectCrawlMode |-> {"project", "mode", "trigger"},
    GetActivationReadiness |-> {"project", "command"}]})

CrawlModeChecks == [UpdateCrawlMode |-> {"id", "mode", "trigger"}]

(* Keywords may be anything but blank; profiles and posts must be URLs.    *)
TargetChecks == Together(
  {[CreateKeyword |-> {"id", "values", "interval"},
    ListTargets   |-> {"id", "target type"},
    UpdateTarget  |-> {"id", "target", "values", "interval"}],
   [r \in {"CreateProfile", "CreatePost"} |-> {"id", "values", "urls", "interval"}],
   [r \in {"DetailTarget", "ActivateTarget", "DeactivateTarget", "DeleteTarget"} |-> {"id", "target"}]})

DryrunChecks ==
  [Trigger     |-> {"id", "target", "limit"},
   GetLatest   |-> {"id", "target"},
   ListHistory |-> {"id", "target"}]

DispatchChecks == [DispatchTarget |-> {"id", "target"}]

Checks == Together({SourceChecks, LifecycleChecks, CrawlModeChecks,
                    TargetChecks, DryrunChecks, DispatchChecks})
Routes == DOMAIN Checks
Bound == BoundSourceRoutes \cup BoundTargetRoutes \cup BoundDryrunRoutes

Refused(route) == Checks[route] \cup (IF route \in Bound THEN {"body"} ELSE {})

(* What the use cases refuse themselves: of an id, only a blank one.       *)
SourceRechecks ==
  [Create |-> {"name", "type", "category", "mode", "schedule"},
   Detail |-> {},
   List   |-> {"type", "category", "mode"},
   Update |-> {"interval"}]

TargetRechecks ==
  [CreateKeyword |-> {"values", "interval"},
   CreateProfile |-> {"values", "urls", "interval"},
   CreatePost    |-> {"values", "urls", "interval"},
   ListTargets   |-> {"target type"},
   UpdateTarget  |-> {"values", "interval"}]

ProjectRechecks ==
  [GetActivationReadiness |-> {"command"}, UpdateProjectCrawlMode |-> {"mode", "trigger"}]

CrawlModeRechecks == [UpdateCrawlMode |-> {"mode", "trigger"}]

DryrunRechecks == [Trigger |-> {"limit"}]

Rechecks ==
  LET checks == Together({SourceRechecks, TargetRechecks, ProjectRechecks, CrawlModeRechecks,
                          DryrunRechecks})
  IN  [r \in Routes |-> IF r \in DOMAIN checks THEN checks[r] ELSE {}]

(* What only the database refuses.  At a read: an id, "urn", that is a     *)
(* UUID to the service and not to PostgreSQL; a status that is none; a     *)
(* name to look for that is no text to it; a page so far that its offset   *)
(* is no number.  At a write: a category that is not the type's; a text or *)
(* a number beyond its column; a text or JSON it cannot store, \u0000 in   *)
(* it.                                                                     *)
StoringRoutes ==
  {"Create", "Update", "UpdateCrawlMode", "UpdateProjectCrawlMode",
   "CreateKeyword", "CreateProfile", "CreatePost", "UpdateTarget"}

Unnoticed(route) ==
  (IF {"id", "project"} \cap Checks[route] # {} THEN {"urn"} ELSE {})
  \cup (IF route \in StoringRoutes THEN {"oversized", "unstorable"} ELSE {})
  \cup (CASE route = "Create"      -> {"mismatch"}
          [] route = "List"        -> {"status", "unreadable", "page"}
          [] route = "ListHistory" -> {"page"}
          [] OTHER -> {})

RefusedAtRead == {"id", "project", "target", "urn", "status", "unreadable", "page"}
RefusedAtWrite == {"mismatch", "oversized", "unstorable"}

Flaws(route) == Refused(route) \cup Rechecks[route] \cup Unnoticed(route)

-----------------------------------------------------------------------------
(* The outcomes of a use case: the errors when its first and its later     *)
(* reads fail, the errors it answers itself, and those when what it writes *)
(* or sends fails; a use case that only reads has none of the last.        *)
Outcomes(first, later, answers, write) ==
  [first |-> first, later |-> later, answers |-> answers, write |-> write]

(* Create asks the project service first.                                  *)
CreateOutcomes ==
  [Create |-> Outcomes("ErrCreateFailed", {}, {"ErrProjectNotFound", "ErrProjectArchived"}, {"ErrCreateFailed"})]

QueryOutcomes ==
  [Detail |-> Outcomes("ErrNotFound", {}, {"ErrNotFound"}, {}),
   List   |-> Outcomes("ErrListFailed", {}, {}, {})]

UpdateOutcomes ==
  [Update |-> Outcomes("ErrNotFound", {"ErrUpdateFailed"},
                {"ErrNotFound", "ErrSourceDryrunRunning", "ErrUpdateNotAllowed"}, {"ErrUpdateFailed", "ErrNotFound"})]

(* A source that is gone when it is archived or deleted is not found.      *)
RemovalOutcomes ==
  [Archive |-> Outcomes("ErrNotFound", {"ErrUpdateFailed"},
                 {"ErrNotFound", "ErrSourceDryrunRunning"}, {"ErrDeleteFailed", "ErrNotFound"}),
   Delete  |-> Outcomes("ErrNotFound", {"ErrUpdateFailed"},
                 {"ErrNotFound", "ErrSourceDryrunRunning", "ErrDeleteRequiresArchived"}, {"ErrDeleteFailed", "ErrNotFound"})]

LifecycleOutcomes ==
  [ActivateDataSource |-> Outcomes("ErrNotFound", {"ErrUpdateFailed"}, {"ErrNotFound", "ErrActivateNotAllowed"}, {"ErrUpdateFailed"}),
   PauseDataSource    |-> Outcomes("ErrNotFound", {}, {"ErrNotFound", "ErrPauseNotAllowed"}, {"ErrUpdateFailed"}),
   ResumeDataSource   |-> Outcomes("ErrNotFound", {"ErrUpdateFailed"}, {"ErrNotFound", "ErrResumeNotAllowed"}, {"ErrUpdateFailed"}),
   UpdateCrawlMode    |-> Outcomes("ErrNotFound", {}, {"ErrNotFound", "ErrCrawlModeNotAllowed"}, {"ErrUpdateFailed"})]

ProjectOutcomes ==
  [GetActivationReadiness |-> Outcomes("ErrListFailed", {}, {}, {}),
   Activate |-> Outcomes("ErrListFailed", {}, {"ErrActivationReadinessFailed", "ErrActivateNotAllowed"}, {"ErrUpdateFailed"}),
   Resume   |-> Outcomes("ErrListFailed", {}, {"ErrActivationReadinessFailed", "ErrResumeNotAllowed"}, {"ErrUpdateFailed"}),
   Pause    |-> Outcomes("ErrUpdateFailed", {}, {}, {"ErrUpdateFailed"}),
   UpdateProjectCrawlMode |-> Outcomes("ErrUpdateFailed", {}, {}, {"ErrUpdateFailed"})]

CreateTargetOutcomes ==
  [r \in {"CreateKeyword", "CreateProfile", "CreatePost"} |->
     Outcomes("ErrTargetCreateFailed", {}, {"ErrNotFound", "ErrSourceArchived", "ErrSourceNotCrawl"}, {"ErrTargetCreateFailed"})]

(* GetTarget answers any failure with its not-found error.  Only           *)
(* UpdateTarget sees the target's type, and so whether values must be URLs.*)
TargetOutcomes ==
  [DetailTarget |-> Outcomes("ErrTargetNotFound", {}, {"ErrTargetNotFound"}, {}),
   ListTargets  |-> Outcomes("ErrTargetListFailed", {}, {}, {}),
   UpdateTarget |-> Outcomes("ErrTargetNotFound", {"ErrUpdateFailed"},
                      {"ErrTargetNotFound", "ErrTargetDryrunRunning", "ErrTargetValuesMustBeURLs", "ErrTargetValuesImmutable"},
                      {"ErrTargetUpdateFailed", "ErrNotFound"})]

TargetSwitchOutcomes ==
  [ActivateTarget   |-> Outcomes("ErrTargetNotFound", {"ErrUpdateFailed", "ErrTargetUpdateFailed"},
                          {"ErrTargetNotFound", "ErrTargetDryrunRunning", "ErrTargetActivateNotAllowed"}, {"ErrTargetUpdateFailed"}),
   DeactivateTarget |-> Outcomes("ErrTargetNotFound", {"ErrUpdateFailed", "ErrTargetUpdateFailed"},
                          {"ErrTargetNotFound", "ErrTargetDryrunRunning", "ErrNotFound", "ErrTargetDeactivateNotAllowed"},
                          {"ErrTargetUpdateFailed"}),
   DeleteTarget     |-> Outcomes("ErrTargetNotFound", {"ErrUpdateFailed"},
                          {"ErrTargetNotFound", "ErrTargetDryrunRunning"}, {"ErrTargetDeleteFailed"})]

DryrunOutcomes ==
  [Trigger     |-> Outcomes("ErrSourceNotFound", {"ErrTargetNotFound", "ErrGetFailed"},
                     {"ErrSourceNotFound", "ErrTargetNotFound", "ErrDryrunNotAllowed", "ErrTargetRequired",
                      "ErrTargetForbidden", "ErrDryrunAlreadyRunning", "ErrUnsupportedMapping"},
                     {"ErrCreateFailed", "ErrUpdateFailed", "ErrDispatchFailed"}),
   GetLatest   |-> Outcomes("ErrGetFailed", {}, {"ErrResultNotFound"}, {}),
   ListHistory |-> Outcomes("ErrListFailed", {}, {}, {})]

DispatchOutcomes ==
  [DispatchTarget |-> Outcomes("ErrDispatchFailed", {},
                        {"ErrDataSourceNotFound", "ErrTargetNotFound", "ErrDispatchNotAllowed",
                         "ErrUnsupportedDispatchMapping", "ErrPlatformMetaParseIDs",
                         "ErrFacebookPageIDRequired", "ErrTikTokProfileRequired"},
                        {"ErrDispatchFailed"})]

UseCases == Together(
  {CreateOutcomes, QueryOutcomes, UpdateOutcomes, RemovalOutcomes, LifecycleOutcomes,
   ProjectOutcomes, CreateTargetOutcomes, TargetOutcomes, TargetSwitchOutcomes,
   DryrunOutcomes, DispatchOutcomes})

-----------------------------------------------------------------------------
(* Mutant of SourceStatus: the case of a running dry run was forgotten.    *)
SourceStatusWithoutDryrun(error) ==
  CASE error \in {"ErrNotFound", "ErrProjectNotFound", "ErrTargetNotFound"} -> 404
    [] error \in {"ErrProjectArchived", "ErrDeleteRequiresArchived",
                  "ErrSourceArchived", "ErrUpdateNotAllowed", "ErrActivateNotAllowed",
                  "ErrPauseNotAllowed", "ErrResumeNotAllowed", "ErrCrawlModeNotAllowed",
                  "ErrActivationReadinessFailed", "ErrSourceNotCrawl",
                  "ErrTargetValuesMustBeURLs", "ErrTargetValuesImmutable",
                  "ErrTargetActivateNotAllowed", "ErrTargetDeactivateNotAllowed",
                  "ErrTargetDryrunRunning", "invalid"} -> 400
    [] OTHER -> 500

(* The statuses.  The handler of the sources panics on an error it has no  *)
(* case for, which the recovery middleware answers with 500.               *)
SourceStatus(error) ==
  CASE error \in {"ErrNotFound", "ErrProjectNotFound", "ErrTargetNotFound"} -> 404
    [] error \in {"ErrProjectArchived", "ErrSourceDryrunRunning", "ErrDeleteRequiresArchived",
                  "ErrSourceArchived", "ErrUpdateNotAllowed", "ErrActivateNotAllowed",
                  "ErrPauseNotAllowed", "ErrResumeNotAllowed", "ErrCrawlModeNotAllowed",
                  "ErrActivationReadinessFailed", "ErrSourceNotCrawl",
                  "ErrTargetValuesMustBeURLs", "ErrTargetValuesImmutable",
                  "ErrTargetActivateNotAllowed", "ErrTargetDeactivateNotAllowed",
                  "ErrTargetDryrunRunning", "invalid"} -> 400
    [] OTHER -> 500

DryrunStatus(error) ==
  CASE error \in {"ErrSourceNotFound", "ErrTargetNotFound", "ErrResultNotFound"} -> 404
    [] error \in {"ErrTargetRequired", "ErrTargetForbidden", "ErrDryrunNotAllowed",
                  "ErrDryrunAlreadyRunning", "ErrUnsupportedMapping", "invalid"} -> 400
    [] OTHER -> 500

DispatchStatus(error) ==
  CASE error \in {"ErrDataSourceNotFound", "ErrTargetNotFound"} -> 404
    [] error = "ErrDispatchNotAllowed" -> 409
    [] error \in {"ErrUnsupportedDispatchMapping", "ErrPlatformMetaParseIDs",
                  "ErrFacebookPageIDRequired", "ErrTikTokProfileRequired", "invalid"} -> 400
    [] OTHER -> 500

(* "invalid" stands for the errors of a validation, which are all 400.     *)
Status(route, error) ==
  CASE route \in DOMAIN DryrunChecks   -> DryrunStatus(error)
    [] route \in DOMAIN DispatchChecks -> DispatchStatus(error)
    [] OTHER -> SourceStatus(error)
=============================================================================
