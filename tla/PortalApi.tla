------------------------------- MODULE PortalApi -------------------------------
(***************************************************************************)
(* The JSON APIs (api_v1, api_v2, api_ops) as maps from a request in a     *)
(* world to an answer, with the worlds, checks and effects of Portal, and  *)
(* what the two surfaces promise together.                                 *)
(***************************************************************************)
EXTENDS Portal

(* enforce_service_auth, then the role, then the handler's own checks.      *)
Api(w, allowed, checks, answer) ==
  Checked(RequireRole(w, AuthenticatedUser(w), allowed) \o checks, answer)

Read(w, checks)  == Api(w, Everyone, checks, Shown)
Admin(w, checks) == Api(w, Admins, checks, Shown)

-----------------------------------------------------------------------------
(* Generation and runs *)

ApiGenerateAnywhere(w) ==
  Api(w, Generators, <<<<Has(w, "body"), "400">>, <<Has(w, "target"), "400">>>>,
    IF Is(w, "async")
    THEN Checked(<<<<Has(w, "queue"), "503">>>>,
                 Submitted(w, "generate", IF Is(w, "repeat") THEN "200" ELSE "202",
                           [Caught EXCEPT !.invalid = "500"]))
    ELSE Checked(<<<<Has(w, "found"), "400">>, <<Has(w, "valid"), "400">>>>, Answer("200", {Executed(w)})))

(* /generate: asynchronous through the queue, a refused kind uncaught;       *)
(* otherwise here and now, unless the workers alone execute.                 *)
ApiGenerate(w) ==
  Api(w, Generators, <<<<Has(w, "body"), "400">>, <<Has(w, "target"), "400">>>>,
    IF Is(w, "async")
    THEN Checked(<<<<Has(w, "queue"), "503">>>>,
                 Submitted(w, "generate", IF Is(w, "repeat") THEN "200" ELSE "202",
                           [Caught EXCEPT !.invalid = "500"]))
    ELSE Checked(<<<<~Is(w, "worker"), "409">>, <<Has(w, "found"), "400">>, <<Has(w, "valid"), "400">>>>,
                 Answer("200", {Executed(w)})))

(* /runs: the kinds the router lets through without a blueprint or bundle.  *)
PlatformKinds == PayloadKinds \ {"component_vend"}

Configured == {"live_plan", "environment_vend", "component_vend", "environment_reclaim"}

ApiSubmitRun(w, kind) ==
  Api(w, Generators, <<<<Has(w, "queue"), "503">>, <<Has(w, "body"), "400">>,
                       <<kind \in PlatformKinds \/ Has(w, "target"), "400">>,
                       <<kind \notin Configured \/ Has(w, "enabled"), "400">>>>,
      Submitted(w, kind, "202", Caught))

ApiListRuns(w) == Read(w, <<<<Has(w, "queue"), "503">>, <<Has(w, "valid"), "400">>>>)

ApiRun(w, run) == Api(w, Everyone, RunChecks(w), Answer("200", Got(w, run)))

ApiReplay(w) ==
  Api(w, Admins, RunChecks(w) \o <<<<Has(w, "valid"), "400">>>>, Answer("202", {<<"replayed">>}))

-----------------------------------------------------------------------------
(* Upgrades, imports, components *)

ApiPlanUpgrade(w) ==
  Api(w, Generators, <<<<Has(w, "body"), "400">>, <<Has(w, "target"), "400">>, <<Has(w, "valid"), "400">>>>,
      Answer("200", {<<"gates run">>}))

(* run_apply_upgrade: the files are rewritten, committed and then pushed; a  *)
(* local checkout keeps what was done when a later step fails, the clone of  *)
(* a remote one is dropped.  What a push needs is looked at after the commit *)
(* and only a remote target is pushed.                                       *)
ApiApplyUpgrade(w) ==
  LET Left(effect) == IF Is(w, "remote") THEN {} ELSE {effect}
  IN Api(w, Generators, <<<<Has(w, "body"), "400">>, <<Has(w, "target"), "400">>, <<Has(w, "valid"), "400">>>>,
       IF ~(Is(w, "remote") \/ Has(w, "git")) THEN Answer("500", Left(<<"files rewritten">>))
       ELSE IF ~Is(w, "push") THEN Answer("200", Left(<<"committed">>))
       ELSE IF ~(Is(w, "remote") /\ Has(w, "token")) THEN Answer("400", Left(<<"committed">>))
       ELSE IF ~Has(w, "last") THEN Answer("500", {})
       ELSE Answer("200", {<<"branch pushed">>}))

ApiPlanImport(w) ==
  Api(w, Generators, <<<<Has(w, "body"), "400">>, <<Has(w, "target"), "400">>,
                       <<Has(w, "plan"), "409">>, <<Has(w, "valid"), "400">>>>,
      Answer("200", {<<"gates run">>}))

ApiApplyImport(w) ==
  Api(w, Generators, <<<<Has(w, "body"), "400">>, <<Has(w, "target"), "400">>, <<Has(w, "token"), "400">>,
                       <<Has(w, "plan"), "409">>, <<Has(w, "valid"), "400">>>>,
      Imported(w, "200", "400"))

ApiPlanBatch(w) ==
  Api(w, Generators, <<<<Has(w, "body"), "400">>, <<Has(w, "target"), "400">>>>, Answer("200", {<<"gates run">>}))

ApiApplyBatch(w) ==
  Api(w, Generators, <<<<Has(w, "body"), "400">>, <<Has(w, "token"), "400">>, <<Has(w, "target"), "400">>>>,
    IF Has(w, "plan") /\ Has(w, "valid") THEN Imported(w, "200", "200") ELSE Shown)

(* plan_add: a directory, governed (NotGovernedError is a 409), whose inputs *)
(* hold.                                                                     *)
ComponentChecks(w) ==
  <<<<Has(w, "body"), "400">>, <<Has(w, "target"), "400">>, <<~Is(w, "remote"), "400">>,
    <<Has(w, "found"), "409">>, <<Has(w, "valid"), "400">>>>

ApiPlanComponent(w) ==
  Api(w, Generators, ComponentChecks(w), Shown)

ApiApplyComponent(w) ==
  Api(w, Generators, ComponentChecks(w) \o <<<<Has(w, "plan"), "409">>>>, Added(w, "200"))

ApiVerify(w) ==
  Api(w, Everyone, <<<<Has(w, "body"), "400">>, <<Has(w, "target"), "400">>, <<Has(w, "valid"), "400">>>>,
      Answer(IF Has(w, "plan") THEN "200" ELSE "422", {<<"gates run">>}))

-----------------------------------------------------------------------------
(* Catalog, fleet and GitHub *)

ApiPage(w)    == Read(w, << >>)
ApiFeature(w) == Read(w, <<<<Has(w, "enabled"), "404">>>>)
ApiEntity(w)  == Read(w, <<<<Has(w, "found"), "404">>>>)
ApiBundle(w)  == Read(w, <<<<Has(w, "found"), "404">>, <<Has(w, "valid"), "400">>>>)

ApiAssistant(w) ==
  Api(w, Generators, <<<<Has(w, "enabled"), "404">>, <<Has(w, "body"), "400">>, <<Has(w, "found"), "400">>>>, Shown)

ApiTeams(w) ==
  Read(w, <<<<Has(w, "target"), "400">>, <<Has(w, "token"), "503">>, <<Has(w, "last"), "502">>>>)

(* The token is asked for even when a worker will do the scan. *)
ApiOrgScan(w) ==
  Api(w, Generators, <<<<Has(w, "body"), "400">>, <<Has(w, "target"), "400">>,
                       <<Has(w, "token"), "503">>, <<Has(w, "valid"), "400">>>>,
    IF Is(w, "async")
    THEN Checked(<<<<Has(w, "queue"), "503">>>>, Submitted(Form(w), "org_scan", "202", Caught))
    ELSE Checked(<<<<Has(w, "last"), "502">>>>, Shown))

ApiRegisterFleet(w) ==
  Api(w, Admins, <<<<Has(w, "body"), "400">>, <<Has(w, "target"), "400">>,
                   <<Has(w, "enabled"), "404">>, <<Has(w, "valid"), "400">>>>,
      Answer("201", {<<"fleet", "added">>}))

ApiUnregisterFleet(w) ==
  Api(w, Admins, <<<<Has(w, "target"), "400">>, <<Has(w, "enabled"), "404">>,
                   <<Has(w, "valid"), "400">>, <<Has(w, "found"), "404">>>>,
      Answer("200", {<<"fleet", "removed">>}))

-----------------------------------------------------------------------------
(* Vending and platform administration *)

ApiVendEnvironment(w) ==
  Api(w, Generators, <<<<Has(w, "queue"), "503">>, <<Has(w, "enabled"), "404">>,
                       <<Has(w, "body"), "400">>, <<Has(w, "target"), "400">>>>,
      Submitted(Form(w), "environment_vend", "202", Caught))

ApiVendComponent(w) ==
  Api(w, Generators, <<<<Has(w, "queue"), "503">>, <<Has(w, "enabled"), "503">>,
                       <<Has(w, "body"), "400">>, <<Has(w, "target"), "400">>>>,
      Submitted(Form(w), "component_vend", "202", Caught))

(* /environments/reclaim, /components/reclaim: here and now, queue or not.   *)
ApiReclaim(w, what) ==
  Api(w, Admins, <<<<Has(w, "enabled"), "503">>, <<Has(w, "body"), "400">>,
                   <<Is(w, "dry") \/ Has(w, "token"), "503">>, <<Has(w, "valid"), "400">>>>,
      Answer("200", IF Is(w, "dry") THEN {} ELSE {<<"reclaimed", what>>}))

(* A reading of the metrics that may be kept. *)
ApiMetrics(w) ==
  Api(w, Admins, <<<<Has(w, "enabled"), "404">>>>,
      Answer("200", IF Is(w, "persist") THEN {<<"metrics kept">>} ELSE {}))

ApiAdminPage(w) == Admin(w, << >>)
ApiReport(w)    == Admin(w, <<<<Has(w, "enabled"), "404">>>>)
ApiExport(w)    == Admin(w, <<<<Has(w, "enabled"), "404">>, <<Has(w, "valid"), "400">>>>)

ApiCreateInitiative(w) ==
  Api(w, Admins, <<<<Has(w, "enabled"), "404">>, <<Has(w, "body"), "400">>,
                   <<Has(w, "valid"), "400">>, <<Has(w, "last"), "503">>>>,
      Answer("201", {<<"initiative", "written">>}))

ApiUpdateInitiative(w) ==
  Api(w, Admins, <<<<Has(w, "enabled"), "404">>, <<Has(w, "found"), "404">>, <<Has(w, "body"), "400">>,
                   <<Has(w, "valid"), "400">>, <<Has(w, "last"), "503">>>>,
      Answer("200", {<<"initiative", "written">>}))

ApiDeactivateInitiative(w) ==
  Api(w, Admins, <<<<Has(w, "enabled"), "404">>, <<Has(w, "found"), "404">>, <<Has(w, "last"), "503">>>>,
      Answer("200", {<<"initiative", "written">>}))

ApiFeedback(w) ==
  Api(w, Generators, <<<<Has(w, "enabled"), "404">>, <<Has(w, "body"), "400">>, <<Has(w, "valid"), "400">>,
                       <<Has(w, "target"), "400">>, <<Has(w, "last"), "503">>>>,
      Answer("201", {<<"feedback", "kept">>}))

ApiPauseCampaign(w) ==
  Api(w, Admins, <<<<Has(w, "body"), "400">>, <<Has(w, "target"), "400">>,
                   <<Has(w, "found"), "404">>, <<Has(w, "last"), "503">>>>,
      Answer("200", {<<"campaign", "paused">>}))

-----------------------------------------------------------------------------
(* What the surfaces promise together *)

(* The operations both surfaces offer: the portal's answer and the API's.    *)
(* The portal keeps a drift confirmation to administrators.                  *)
Twins(w) ==
  {<<LivePlan(w), ApiSubmitRun(w, "live_plan")>>,
   <<RequestSandbox(w), ApiVendEnvironment(w)>>,
   <<RequestEnvironment(w), ApiSubmitRun(w, "environment_vend")>>,
   <<ReplayRun(w), ApiReplay(w)>>,
   <<PlanUpdate(w), ApiPlanUpgrade(w)>>,
   <<PlanImport(w), ApiPlanImport(w)>>, <<ApplyImport(w), ApiApplyImport(w)>>,
   <<PlanBatch(w), ApiPlanBatch(w)>>, <<ApplyBatch(w), ApiApplyBatch(w)>>,
   <<Verify(w), ApiVerify(w)>>,
   <<RegisterFleet(w), ApiRegisterFleet(w)>>, <<UnregisterFleet(w), ApiUnregisterFleet(w)>>,
   <<PauseCampaign(w), ApiPauseCampaign(w)>>,
   <<CreateInitiative(w), ApiCreateInitiative(w)>>,
   <<UpdateInitiative(w), ApiUpdateInitiative(w)>>,
   <<DeactivateInitiative(w), ApiDeactivateInitiative(w)>>}
  \cup IF w.caller = "admin" THEN {<<ConfirmDrift(w), ApiSubmitRun(w, "fleet_drift_confirm")>>} ELSE {}

(* A form streams where an API request is asynchronous; what the workers     *)
(* alone may execute is queued by the form, and by the API when asked to.    *)
AsForm(w, queues) == [w EXCEPT !.mode = IF queues THEN @ \cup {"async"} ELSE @ \ {"async"}]

Generations(w) ==
  {<<Generate(w), ApiGenerate(AsForm(w, Is(w, "stream") \/ Is(w, "worker")))>>,
   <<GenerateBundle(w), ApiGenerate(AsForm(w, Is(w, "worker")))>>}

ViewedRuns == [kind : {"generate", "live_plan", "component_vend"}, status : RunStates]

Views(w) ==
  {ListRuns(w), ApiListRuns(w), CatalogPage(w), EntityPage(w), FeaturePage(w), FormPage(w), Assistant(w),
   AdminPage(w), StandardDetail(w), ApiPage(w), ApiFeature(w), ApiEntity(w), ApiBundle(w), ApiAssistant(w),
   ApiTeams(w), ApiAdminPage(w), ApiReport(w), ApiExport(w), ApiPlanComponent(w), PublicPage(w)}
  \cup {RunConsole(w, run) : run \in ViewedRuns} \cup {ApiRun(w, run) : run \in ViewedRuns}

Changes(w) ==
  (UNION {{t[1], t[2]} : t \in Twins(w) \cup Generations(w)})
  \cup {ApiSubmitRun(w, kind) : kind \in RunKinds}
  \cup {ApiGenerate(w), ApiApplyUpgrade(w), AddComponent(w), ApiApplyComponent(w), ApiOrgScan(w), ApiVendComponent(w),
        PortalReclaim(w), ApiReclaim(w, "environments"), ApiReclaim(w, "components"), ApiFeedback(w),
        ApiMetrics(w)}

Executions == {<<"executed", "dry">>, <<"executed", "apply">>}
Queued(does)  == {e \in does : e[1] = "queued"}

(* Asked of both surfaces with the same well-formed request, the same        *)
(* happens.                                                                  *)
Comparable(w) ==
  /\ w.caller # "bearer" /\ Has(w, "html") /\ Has(w, "body") /\ Has(w, "target")
  /\ ~Is(w, "repeat") /\ ~Is(w, "remote")

SurfacesAgree(w) == Comparable(w) => \A t \in Twins(w) : t[1].does = t[2].does

(* The two generate alike, but for a streamed form that the queue refuses,   *)
(* which is generated in the web process, and a request that never names     *)
(* its blueprint right, which the API queues and the worker refuses.         *)
RefusedByQueue(w) == ~(Has(w, "queue") /\ Has(w, "accepting") /\ Has(w, "room"))

GenerationsAgree(w) ==
  Comparable(w) /\ Has(w, "found") /\ Has(w, "valid") =>
    \A t \in Generations(w) :
      \/ t[1].does = t[2].does
      \/ /\ Is(w, "stream") /\ ~Is(w, "worker") /\ RefusedByQueue(w)
         /\ t[2].does = {} /\ t[1].does = {Executed(w)}

(* Looking changes nothing but a run that stalled, which a look finishes;    *)
(* only a result page that has nothing stored to show generates again.       *)
LookingIsHarmless(w) ==
  /\ \A a \in Views(w) : a.does \subseteq {<<"recovered">>}
  /\ \A run \in ViewedRuns :
       RunResult(w, run).does \cap Executions # {} =>
         ~Has(w, "stored") /\ run.kind = "generate" /\ StatusRead(w, run) = "succeeded"

(* Where the workers alone execute, no request generates in the web process. *)
WorkersExecute(w) == Is(w, "worker") => \A a \in Changes(w) : a.does \cap Executions = {}

(* A queue that is full or shutting down takes nothing.                      *)
RefusedIsNotQueued(w) == RefusedByQueue(w) => \A a \in Changes(w) : Queued(a.does) = {}

(* An error leaves nothing behind, but for a publication, a commit or files  *)
(* that a later step of the same request could not finish, and a login       *)
(* attempt that is spent.                                                    *)
Halfway == {<<"branch pushed">>, <<"committed">>, <<"files rewritten">>}
Errors  == {"login", "400", "401", "403", "404", "409", "410", "429", "500", "502", "503"}

ErrorsLeaveNothing(w) ==
  /\ \A a \in Changes(w) : a.status \in Errors /\ a.does # {} =>
       /\ a.does \subseteq Halfway
       /\ ~Has(w, "last") \/ ~Has(w, "git") \/ Is(w, "push")
  /\ Callback(w).status \in Errors => Callback(w).does \subseteq {<<"session", "spent">>}

(* With login required, a stranger changes nothing and a viewer only has     *)
(* gates run.                                                                *)
RolesHold(w) ==
  Has(w, "auth") =>
    /\ w.caller = "nobody" => \A a \in Changes(w) \cup Views(w) : a.does = {}
    /\ w.caller = "viewer" => \A a \in Changes(w) : a.does \subseteq {<<"gates run">>}

(* Where pages are served, whoever is sent to log in can, and can log out.   *)
LoginIsThere(w) ==
  Has(w, "html") /\ (\E a \in Changes(w) \cup Views(w) : a.status = "login") =>
    /\ Login(w).does = {<<"session", "begun">>}
    /\ Logout(w).does = {<<"session", "cleared">>}

(* One thing missing, with and without login, in the modes that matter       *)
(* together.                                                                 *)
Worlds ==
  [caller : Callers,
   lacks  : {s \in SUBSET Things : Cardinality(s) <= 1 \/ (Cardinality(s) = 2 /\ "auth" \in s)},
   mode   : {{}, {"dry"}, {"async"}, {"async", "dry"}, {"async", "repeat"}, {"worker"}, {"worker", "stream"},
             {"stream"}, {"stream", "dry"}, {"push"}, {"push", "remote"}, {"remote"}, {"dry", "stalled"}}]

AnswersHold ==
  \A w \in Worlds :
    /\ SurfacesAgree(w) /\ GenerationsAgree(w)
    /\ LookingIsHarmless(w) /\ WorkersExecute(w)
    /\ RefusedIsNotQueued(w) /\ ErrorsLeaveNothing(w) /\ RolesHold(w)
    /\ LoginIsThere(w)
=============================================================================
