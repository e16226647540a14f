--------------------------------- MODULE Portal ---------------------------------
(***************************************************************************)
(* The HTML portal (api.py): what each of its handlers answers and what it *)
(* changes.  A request meets a world: who asks, what the handler would     *)
(* look at and does not find (w.lacks), and how the server and the request *)
(* are set (w.mode).  The handler maps it to an answer, a status and the   *)
(* set of effects; the JSON APIs are in PortalApi.                         *)
(*                                                                         *)
(* w.lacks draws from Things, w.mode from Modes.                           *)
(***************************************************************************)
EXTENDS Naturals, Sequences, FiniteSets

Callers == {"nobody", "viewer", "generator", "admin", "bearer"}

Things == {"auth",      \* login is required
           "html",      \* the HTML portal is on
           "queue",     \* asynchronous runs are configured
           "accepting", \* the queue is not shutting down
           "room",      \* the queue is not full
           "token",     \* the server has GitHub credentials
           "enabled",   \* the feature asked for is configured
           "body",      \* a JSON object is sent
           "target",    \* the required fields are there
           "valid",     \* their values are right
           "found",     \* the entity, run, blueprint or repository exists
           "plan",      \* the plan has no conflicts
           "git",       \* the target is a checkout with .git
           "last",      \* the last step of the work succeeds
           "stored"}    \* the stored result of the run can be shown

Modes == {"worker",    \* the workers alone execute
          "dry",       \* a dry run is asked for
          "async",     \* a queued run is asked for
          "stream",    \* the page follows the run
          "push",      \* the upgrade is to be pushed
          "remote",    \* the target is a URL
          "repeat",    \* a request id used before
          "persist",   \* the reading is to be kept
          "stalled"}   \* the run stalled after its publish stage

Has(w, thing) == thing \notin w.lacks
Is(w, mode)   == mode \in w.mode

Answer(status, does) == [status |-> status, does |-> does]
Refuse(status)       == Answer(status, {})
Shown                == Refuse("200")

(* The first check that fails decides. *)
Checked(checks, answer) ==
  LET failed == {i \in DOMAIN checks : ~checks[i][1]}
      first  == CHOOSE i \in failed : \A j \in failed : i <= j
  IN IF failed = {} THEN answer ELSE Refuse(checks[first][2])

-----------------------------------------------------------------------------
(* Who asks *)

(* session_user: a bearer token has no session. *)
SessionUser(w) == IF w.caller = "bearer" THEN "nobody" ELSE w.caller

(* authenticated_user: the service token is an administrator. *)
AuthenticatedUser(w) ==
  IF w.caller = "bearer" THEN (IF Has(w, "auth") THEN "admin" ELSE "nobody") ELSE w.caller

Everyone   == {"viewer", "generator", "admin"}
Generators == {"generator", "admin"}
Admins     == {"admin"}

(* require_role, where login is required. *)
RequireRole(w, user, allowed) ==
  <<<<~Has(w, "auth") \/ user # "nobody", "401">>, <<~Has(w, "auth") \/ user \in allowed, "403">>>>

Required(w, allowed) == RequireRole(w, SessionUser(w), allowed)

(* enforce_service_auth around deprecation_headers around the handler, whose *)
(* 401 the exception handler turns into a redirect to the login page.        *)
Served(w, answer) ==
  IF Has(w, "auth") /\ AuthenticatedUser(w) = "nobody" THEN Refuse("login")
  ELSE IF ~Has(w, "html") THEN Refuse("410")
  ELSE IF answer.status = "401" THEN Refuse("login")
  ELSE answer

(* The landing pages and /auth/ are public, but they are pages.             *)
PublicPage(w) == IF Has(w, "html") THEN Shown ELSE Refuse("410")

(* /auth/login, /auth/signup, /auth/callback, /auth/logout *)
Login(w)    == IF ~Has(w, "html") THEN Refuse("410")
               ELSE Answer("302", IF Has(w, "auth") THEN {<<"session", "begun">>} ELSE {})
Callback(w) == IF ~Has(w, "html") THEN Refuse("410")
               ELSE Checked(<<<<Has(w, "auth"), "404">>, <<Has(w, "target"), "400">>>>,
                 IF ~Has(w, "valid") THEN Answer("400", {<<"session", "spent">>})
                 ELSE IF ~Has(w, "last") THEN Answer("502", {<<"session", "spent">>})
                 ELSE Answer("302", {<<"session", "user">>}))
Logout(w)   == IF ~Has(w, "html") THEN Refuse("410") ELSE Answer("302", {<<"session", "cleared">>})

-----------------------------------------------------------------------------
(* Submission *)

PayloadKinds == {"live_plan", "environment_vend", "component_vend", "environment_reclaim",
                 "fleet_drift_confirm", "org_scan"}

(* submit_async_run: what the queued run is. *)
QueuedRun(w, kind) ==
  <<"queued", kind,
    IF Is(w, "dry") \/ kind \in {"live_plan", "fleet_drift_confirm", "org_scan"} THEN "dry" ELSE "apply">>

(* RunQueue.submit, and the status each refusal has with the caller.  A     *)
(* ValueError comes before the queue is asked, a repeated request id after  *)
(* the shutdown and before the depth.                                       *)
Submitted(w, kind, ok, statuses) ==
  Checked(<<<<Has(w, "valid"), statuses.invalid>>,
            <<Has(w, "accepting"), statuses.closing>>,
            <<Is(w, "repeat") \/ Has(w, "room"), statuses.full>>>>,
          Answer(ok, IF Is(w, "repeat") THEN {} ELSE {QueuedRun(w, kind)}))

Caught   == [invalid |-> "400", closing |-> "503", full |-> "429"]
Uncaught == [invalid |-> "500", closing |-> "500", full |-> "500"]

(* A form carries no request id. *)
Form(w) == [w EXCEPT !.mode = @ \ {"repeat"}]

SubmittedForm(w, kind) == Submitted(Form(w), kind, "303", Caught)

-----------------------------------------------------------------------------
(* Generation *)

Executed(w) == <<"executed", IF Is(w, "dry") THEN "dry" ELSE "apply">>

(* run_portal_generate, bundle: in worker mode the queue or nothing. *)
GenerateBundle(w) ==
  Served(w, Checked(Required(w, Generators) \o <<<<Has(w, "found"), "500">>>>,
    IF Is(w, "worker")
    THEN Checked(<<<<Has(w, "queue"), "503">>>>,
                 Submitted([Form(w) EXCEPT !.lacks = @ \ {"valid"}], "generate", "303", Caught))
    ELSE Checked(<<<<Has(w, "valid"), "500">>>>, Answer("200", {Executed(w)}))))

(* run_portal_generate, blueprint: outside worker mode a streamed request   *)
(* that the queue refuses is generated here and now.                        *)
Generate(w) ==
  LET queued == Submitted([Form(w) EXCEPT !.lacks = @ \ {"valid"}], "generate", "303", Caught)
      here   == Checked(<<<<Has(w, "valid"), "500">>>>, Answer("200", {Executed(w)}))
  IN Served(w, Checked(Required(w, Generators) \o <<<<Has(w, "found"), "500">>>>,
       IF Is(w, "worker") THEN Checked(<<<<Has(w, "queue"), "503">>>>, queued)
       ELSE IF Is(w, "stream") /\ Has(w, "queue") /\ queued.status = "303" THEN queued
       ELSE here))

-----------------------------------------------------------------------------
(* Runs *)

(* RunQueue.get finishes a dry run that stalled after its publish stage.    *)
Stalled(w, run)    == Is(w, "stalled") /\ Is(w, "dry") /\ run.status = "running"
Got(w, run)        == IF Stalled(w, run) THEN {<<"recovered">>} ELSE {}
StatusRead(w, run) == IF Stalled(w, run) THEN "succeeded" ELSE run.status

ListRuns(w) ==
  Served(w, Checked(Required(w, Everyone) \o <<<<Has(w, "queue"), "503">>, <<Has(w, "valid"), "400">>>>, Shown))

(* A replay asks neither whether the queue still accepts nor how deep it is. *)
ReplayRun(w) ==
  Served(w, Checked(Required(w, Admins)
      \o <<<<Has(w, "queue"), "503">>, <<Has(w, "found"), "404">>, <<Has(w, "valid"), "400">>>>,
    Answer("303", {<<"replayed">>})))

RunChecks(w) == <<<<Has(w, "queue"), "503">>, <<Has(w, "found"), "404">>>>

RunKinds == PayloadKinds \cup {"generate", "bundle"}

(* The console and the result page know every kind but component_vend, whose *)
(* sentinel they look up as a blueprint.                                     *)
PageFails(kind) == kind = "component_vend"

RunConsole(w, run) ==
  Served(w, Checked(Required(w, Everyone) \o RunChecks(w),
    Answer(IF PageFails(run.kind) THEN "500" ELSE "200", Got(w, run))))

RunStates == {"queued", "running", "succeeded", "failed", "dead_letter"}

(* run_result_view: a generation whose stored result cannot be rebuilt is   *)
(* run again.                                                               *)
RunResult(w, run) ==
  Served(w, Checked(Required(w, Everyone) \o RunChecks(w),
    IF StatusRead(w, run) \in {"queued", "running"} THEN Answer("303", {})
    ELSE IF StatusRead(w, run) # "succeeded" THEN Answer("400", {})
    ELSE IF PageFails(run.kind) THEN Answer("500", Got(w, run))
    ELSE Answer("200", Got(w, run) \cup
           IF run.kind \in {"generate", "bundle"} /\ ~Has(w, "stored") THEN {Executed(w)} ELSE {})))

-----------------------------------------------------------------------------
(* Services *)

CatalogPage(w)  == Served(w, Shown)
EntityPage(w)   == Served(w, Checked(<<<<Has(w, "found"), "404">>>>, Shown))
FeaturePage(w)  == Served(w, Checked(<<<<Has(w, "enabled"), "404">>>>, Shown))
FormPage(w)     == Served(w, Checked(<<<<Has(w, "found"), "500">>>>, Shown))

(* The assistant only suggests. *)
Assistant(w) ==
  Served(w, Checked(<<<<Has(w, "enabled"), "404">>>> \o Required(w, Generators), Shown))

(* sandbox_request *)
RequestSandbox(w) ==
  Served(w, Checked(Required(w, Generators)
      \o <<<<Has(w, "enabled"), "404">>, <<Has(w, "queue"), "503">>, <<Has(w, "target"), "400">>>>,
    SubmittedForm(w, "environment_vend")))

(* service_live_plan *)
LivePlan(w) ==
  Served(w, Checked(Required(w, Generators) \o <<<<Has(w, "queue"), "503">>, <<Has(w, "enabled"), "400">>>>,
    SubmittedForm(w, "live_plan")))

(* service_request_environment *)
RequestEnvironment(w) ==
  Served(w, Checked(Required(w, Generators) \o <<<<Has(w, "queue"), "503">>, <<Has(w, "enabled"), "400">>>>,
    SubmittedForm(w, "environment_vend")))

(* apply_add: the files are there before the commit, and stay without it.   *)
Added(w, status) ==
  IF Has(w, "git") /\ Has(w, "last") THEN Answer(status, {<<"committed">>, <<"recorded">>})
  ELSE Answer("500", {<<"files rewritten">>})

(* service_add_component: a checkout that has .git, and a plan without      *)
(* conflicts; whatever goes wrong after the entity is found is told in a    *)
(* redirect, but for a commit that fails.                                    *)
AddComponent(w) ==
  Served(w, Checked(Required(w, Generators)
      \o <<<<Has(w, "found"), "404">>, <<~Is(w, "remote"), "400">>,
           <<Has(w, "target"), "303">>, <<Has(w, "valid"), "303">>>>,
    IF Is(w, "dry") THEN Refuse("303")
    ELSE Checked(<<<<Has(w, "plan"), "303">>, <<Has(w, "git"), "303">>>>, Added(w, "303"))))

-----------------------------------------------------------------------------
(* Updates, imports, verification *)

(* update_plan: a plan only, gates included. *)
PlanUpdate(w) ==
  Served(w, Checked(Required(w, Generators)
      \o <<<<Has(w, "target"), "200">>, <<~Is(w, "remote"), "200">>, <<Has(w, "valid"), "200">>>>,
    Answer("200", {<<"gates run">>})))

(* import_plan_preview: what goes wrong is shown in the form. *)
PlanImport(w) ==
  Served(w, Checked(Required(w, Generators)
      \o <<<<Has(w, "target"), "200">>, <<Has(w, "plan"), "200">>, <<Has(w, "valid"), "200">>>>,
    Answer("200", {<<"gates run">>})))

(* An import that fails at its last step leaves its branch. *)
Imported(w, status, failure) ==
  IF Has(w, "last") THEN Answer(status, {<<"branch pushed">>, <<"request opened">>, <<"registered">>})
  ELSE Answer(failure, {<<"branch pushed">>})

(* import_apply *)
ApplyImport(w) ==
  Served(w, Checked(Required(w, Generators)
      \o <<<<Has(w, "token"), "200">>, <<Has(w, "target"), "200">>, <<Has(w, "plan"), "200">>, <<Has(w, "valid"), "200">>>>,
    Imported(w, "200", "200")))

(* import_batch_preview, import_batch_apply: the targets of a batch fail one *)
(* by one.                                                                   *)
PlanBatch(w) ==
  Served(w, Checked(Required(w, Generators) \o <<<<Has(w, "body"), "200">>, <<Has(w, "target"), "200">>>>,
    Answer("200", {<<"gates run">>})))

ApplyBatch(w) ==
  Served(w, Checked(Required(w, Generators)
      \o <<<<Has(w, "token"), "200">>, <<Has(w, "body"), "200">>, <<Has(w, "target"), "200">>>>,
    IF Has(w, "plan") /\ Has(w, "valid") THEN Imported(w, "200", "200") ELSE Shown))

(* verify_run: a viewer may ask for it. *)
Verify(w) ==
  Served(w, Checked(Required(w, Everyone) \o <<<<Has(w, "target"), "200">>, <<Has(w, "valid"), "200">>>>,
    Answer("200", {<<"gates run">>})))

-----------------------------------------------------------------------------
(* Platform administration *)

(* require_platform_admin before every page and form under /platform. *)
AsAdmin(w, checks, answer) == Served(w, Checked(Required(w, Admins) \o checks, answer))

AdminPage(w)       == AsAdmin(w, << >>, Shown)
StandardDetail(w)  == AsAdmin(w, <<<<Has(w, "found"), "404">>>>, Shown)

(* A registration names a blueprint or a checkout with its pins. *)
RegisterFleet(w) ==
  AsAdmin(w, <<<<Has(w, "target"), "400">>, <<Has(w, "enabled"), "404">>, <<Has(w, "valid"), "400">>>>,
          Answer("303", {<<"fleet", "added">>}))

UnregisterFleet(w) ==
  AsAdmin(w, <<<<Has(w, "target"), "400">>, <<Has(w, "enabled"), "404">>,
               <<Has(w, "valid"), "400">>, <<Has(w, "found"), "404">>>>,
          Answer("303", {<<"fleet", "removed">>}))

(* platform_ops_reclaim: through the queue where there is one, whose         *)
(* refusals nobody catches.                                                  *)
PortalReclaim(w) ==
  AsAdmin(w, <<<<Has(w, "enabled"), "503">>>>,
    IF ~Is(w, "dry") /\ Has(w, "queue")
    THEN Submitted([Form(w) EXCEPT !.lacks = @ \ {"valid"}], "environment_reclaim", "303", Uncaught)
    ELSE Checked(<<<<Is(w, "dry") \/ Has(w, "token"), "503">>>>,
           Answer("303", IF Is(w, "dry") THEN {} ELSE {<<"reclaimed", "environments">>})))

(* No repository named: every repository behind the standard. *)
ConfirmDrift(w) ==
  AsAdmin(w, <<<<Has(w, "queue"), "503">>, <<Has(w, "target") \/ Has(w, "found"), "400">>>>,
          SubmittedForm(w, "fleet_drift_confirm"))

PauseCampaign(w) ==
  AsAdmin(w, <<<<Has(w, "found"), "404">>, <<Has(w, "last"), "503">>>>,
          Answer("303", {<<"campaign", "paused">>}))

(* A store that cannot be written is an error of the server. *)
CreateInitiative(w) ==
  AsAdmin(w, <<<<Has(w, "enabled"), "404">>, <<Has(w, "valid"), "400">>, <<Has(w, "last"), "500">>>>,
          Answer("303", {<<"initiative", "written">>}))

UpdateInitiative(w) ==
  AsAdmin(w, <<<<Has(w, "enabled"), "404">>, <<Has(w, "found"), "404">>,
               <<Has(w, "valid"), "400">>, <<Has(w, "last"), "500">>>>,
          Answer("303", {<<"initiative", "written">>}))

DeactivateInitiative(w) ==
  AsAdmin(w, <<<<Has(w, "enabled"), "404">>, <<Has(w, "found"), "404">>, <<Has(w, "last"), "500">>>>,
          Answer("303", {<<"initiative", "written">>}))
=============================================================================
