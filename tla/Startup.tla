------------------------------ MODULE Startup -------------------------------
(* What a process starts with (create_app of api.py, build_run_queue of      *)
(* run_queue.py): the queue and its executors, the portal, and in hosted     *)
(* mode the login, the database and the licence, as settings.py,             *)
(* durability_store.py, sql_store.py and commercial_license.py resolve them. *)
EXTENDS Settings

Durability(f) == Section(f, "durability")

(* One database, of the environment or of the file. A URL is told by its     *)
(* dialect.                                                                  *)
DatabaseUrl(f, e) ==
  IF Var(e, "REPAVE_DATABASE_URL") # "" THEN Var(e, "REPAVE_DATABASE_URL")
  ELSE Text(Durability(f), "database_url", "")
DatabaseRefused(f, e) ==
  \/ Var(e, "REPAVE_DATABASE_URL") = "" /\ FileRefused(f)
  \/ DatabaseUrl(f, e) \notin {"", "sqlite", "postgresql"}
DatabaseConfig(f, e) == IF DatabaseUrl(f, e) = "" THEN {} ELSE {DatabaseUrl(f, e)}

(* How runs execute: the file's worker mode, its execution mode, then three  *)
(* variables, the later the stronger.                                        *)
WorkerModeOf(raw) ==
  CASE raw \in {"inline", "inprocess", ""} -> "inline"
    [] raw \in {"external", "kubernetes"} -> "external"
    [] OTHER -> raw
ExecutionModeOf(raw) ==
  CASE raw \in {"worker", "external", "kubernetes", "job"} -> "worker"
    [] raw \in {"inprocess", "inline", ""} -> "inprocess"
    [] OTHER -> raw
RuntimeRefused(f, e) ==
  LET s == Durability(f)
  IN \/ FileRefused(f)
     \/ WorkerModeOf(Text(s, "worker_mode", "")) \notin {"inline", "external", "job"}
     \/ ExecutionModeOf(Text(s, "execution_mode", "")) \notin {"worker", "inprocess"}
     \/ ExecutionModeOf(Var(e, "REPAVE_EXECUTION_MODE")) \notin {"worker", "inprocess"}
Runtime(f, e) ==
  LET s == Durability(f)
      mode == WorkerModeOf(Text(s, "worker_mode", ""))
      Yes(v) == Var(e, v) \in {"1", "true", "yes"}
      file == [worker_mode |-> mode, external |-> mode # "inline",
               execution |-> IF "execution_mode" \in DOMAIN s.text THEN ExecutionModeOf(s.text["execution_mode"])
                             ELSE IF mode # "inline" THEN "worker" ELSE "inprocess"]
      workers == IF Yes("REPAVE_EXTERNAL_WORKERS") THEN [file EXCEPT !.external = TRUE, !.execution = "worker"]
                 ELSE file
      env == ExecutionModeOf(Var(e, "REPAVE_EXECUTION_MODE"))
      executing == IF Var(e, "REPAVE_EXECUTION_MODE") = "" THEN workers
                   ELSE [workers EXCEPT !.execution = env, !.external = @ \/ env = "worker"]
  IN IF Yes("REPAVE_RUN_JOBS") THEN [worker_mode |-> "job", external |-> TRUE, execution |-> "worker"]
     ELSE executing

(* The queue's own settings, within their bounds whoever sets them.          *)
AsyncEnabled(f, e) ==
  LET word == Var(e, "REPAVE_ASYNC_GENERATION")
  IN CASE word \in {"1", "true", "yes"} -> TRUE
       [] word \in {"0", "false", "no"} -> FALSE
       [] OTHER -> Flag(Durability(f), "async_generation", FALSE)
AsyncAsked(e) == Var(e, "REPAVE_ASYNC_GENERATION") \in {"1", "true", "yes", "0", "false", "no"}
Bounds == [max_concurrent_runs |-> <<1, 2, 16>>, queue_max_depth |-> <<1, 32, 256>>,
           max_run_attempts |-> <<1, 3, 10>>, run_stale_seconds |-> <<60, 3600, 86400>>,
           run_retry_base_seconds |-> <<1, 5, 300>>]
VarFor == [max_run_attempts |-> "REPAVE_RUN_MAX_ATTEMPTS", run_stale_seconds |-> "REPAVE_RUN_STALE_SECONDS",
           run_retry_base_seconds |-> "REPAVE_RUN_RETRY_BASE_SECONDS"]
DurabilityRefused(f, e) ==
  LET s == Durability(f)
  IN \/ FileRefused(f)
     \/ ~AsyncAsked(e) /\ "async_generation" \in s.bad
     \/ /\ AsyncEnabled(f, e)
        /\ \/ (DOMAIN Bounds \cup {"require_session_secret"}) \cap s.bad # {}
           \/ Range(VarFor) \cap e.bad # {}
DurabilityConfig(f, e) ==
  LET s == Durability(f)
      Env(key) == IF key \in DOMAIN VarFor THEN At(e.num, VarFor[key], {}) ELSE {}
      Set(key) == IF Env(key) # {} THEN CHOOSE n \in Env(key) : TRUE ELSE Number(s, key, Bounds[key][2])
  IN IF ~AsyncEnabled(f, e) THEN {}
     ELSE {[numbers |-> [key \in DOMAIN Bounds |-> Between(Bounds[key][1], Set(key), Bounds[key][3])],
            runs_db |-> PathOf(s, "runs_db", <<"data", "runs.sqlite">>, e, "REPAVE_RUNS_DB"),
            require_secret |-> Flag(s, "require_session_secret", FALSE)]}

(* build_run_queue: process says it is a worker process, which enqueues only. *)
StoreRefused(f, e) ==
  \/ DatabaseRefused(f, e)
  \/ /\ DatabaseConfig(f, e) # {}
     /\ FileRefused(f) \/ RuntimeRefused(f, e) \/ "export_jsonl" \in Durability(f).bad
QueueRefused(f, e) == StoreRefused(f, e) \/ RuntimeRefused(f, e)
(* The URL of a SQLite file is taken without the slashes before its path,    *)
(* and so it starts at the repository.                                       *)
SqlitePath(path) == FoldLeft(Enter, Root, path)
RunsDatabase(f, e, runs_db) ==
  IF DatabaseConfig(f, e) = {} THEN [dialect |-> "sqlite", path |-> SqlitePath(runs_db)]
  ELSE [dialect |-> DatabaseUrl(f, e), path |-> <<>>]
Queue(f, e, process) ==
  LET runtime == Runtime(f, e)
  IN [enqueue_only |-> process \/ runtime.external \/ runtime.execution = "worker",
      claims |-> DatabaseConfig(f, e) = {"postgresql"} /\ runtime.worker_mode # "job",
      dispatches |-> runtime.worker_mode = "job",
      database |-> {RunsDatabase(f, e, config.runs_db) : config \in DurabilityConfig(f, e)}]

------------------------------------------------------------------------------
(* The portal. A link is the sequence of its pieces after its scheme, or     *)
(* after "/" for a path of the same origin.                                  *)
LinkRefused(link) == link # <<>> /\ link[1] \notin {"/", "https:", "http:"}
Trimmed(link) ==
  LET kept == {i \in DOMAIN link : link[i] # "/" \/ i = 1}
  IN IF link = <<>> THEN link ELSE SubSeq(link, 1, Max(kept))
LinkOf(s, key, e, v) == IF PathVar(e, v) # <<>> THEN PathVar(e, v) ELSE At(s.path, key, <<>>)
Links == [backstage_url |-> "REPAVE_BACKSTAGE_URL", logo_url |-> "REPAVE_PORTAL_LOGO_URL"]
(* Both the file's link and the environment's must be good.                 *)
LinksRefused(s, e) ==
  \E key \in DOMAIN Links : LinkRefused(At(s.path, key, <<>>)) \/ LinkRefused(PathVar(e, Links[key]))
AccentRefused(s, e) == "accent_color" \in s.bad \/ "REPAVE_PORTAL_ACCENT_COLOR" \in e.bad

PortalHtml(s, e) ==
  CASE Off(e, "REPAVE_PORTAL_HTML") -> FALSE
    [] On(e, "REPAVE_PORTAL_HTML") -> TRUE
    [] OTHER -> Flag(s, "html", TRUE)

(* Tag keys: a reader of costs uses those of the allocation unless it has its *)
(* own (under tag_key_owner and so on); the variable comes before the file.  *)
TagKeys == [owner |-> "Owner", service |-> "Service", environment |-> "Environment", cost_center |-> "CostCenter"]
AllocationTag(f, e, tag) ==
  LET written == At(Section(f, "portal.cost_allocation").item, "tag_keys", NoSection)
      env == At(e.tags, tag, "")
  IN IF env # "" THEN env ELSE Named(written, tag, TagKeys[tag])
AllocationRefused(f) == "tag_keys" \in Section(f, "portal.cost_allocation").bad
ReaderTag(f, e, reader, tag) == Named(Section(f, reader), tag, AllocationTag(f, e, tag))
TaggedReaders == {"portal.cost_aws", "portal.cost_azure", "portal.cost_focus"}

BudgetsRefused(f) ==
  LET s == Section(f, "portal.cost_budgets")
      entities == At(s.item, "entities", NoSection)
  IN \/ {"default_monthly_usd", "entities"} \cap s.bad # {} \/ Number(s, "default_monthly_usd", 0) < 0
     \/ \E id \in (DOMAIN entities.num \cup entities.bad) \ {""} :
          id \in entities.bad \/ entities.num[id] < 0
Budgets(f) ==
  LET s == Section(f, "portal.cost_budgets")
      amounts == At(s.item, "entities", NoSection).num
  IN [default |-> IF "default_monthly_usd" \in DOMAIN s.num THEN {s.num["default_monthly_usd"]} ELSE {},
      entities |-> [id \in DOMAIN amounts \ {""} |-> amounts[id]]]

Thresholds == [wow_threshold_pct |-> 25, mom_threshold_pct |-> 50]
AnomaliesRefused(f) ==
  LET s == Section(f, "portal.cost_anomalies")
  IN (DOMAIN Thresholds \cup {"enabled"}) \cap s.bad # {} \/ \E key \in DOMAIN Thresholds : Number(s, key, 0) < 0
Anomalies(f) ==
  LET s == Section(f, "portal.cost_anomalies")
  IN [enabled |-> Flag(s, "enabled", FALSE), by |-> [key \in DOMAIN Thresholds |-> Number(s, key, Thresholds[key])]]

(* The readers: their name, and what else they need.                         *)
CostReader(f, e) ==
  IF Var(e, "REPAVE_COST_READER") # "" THEN Var(e, "REPAVE_COST_READER")
  ELSE Text(Section(f, "portal"), "cost_reader", "")
CostUrl(f, e) ==
  IF Var(e, "REPAVE_COST_ACTUALS_URL") # "" THEN Var(e, "REPAVE_COST_ACTUALS_URL")
  ELSE Text(Section(f, "portal"), "cost_actuals_url", "")
Focus(f, e) ==
  LET s == Section(f, "portal.cost_focus")
  IN [file |-> IF PathVar(e, "REPAVE_COST_FOCUS_FILE") # <<>> THEN PathVar(e, "REPAVE_COST_FOCUS_FILE")
               ELSE At(s.path, "file", <<>>),
      lookback_days |-> Number(s, "lookback_days", 30), currency |-> Named(s, "currency", "USD")]
K8s(f, e) ==
  LET s == Section(f, "portal.cost_k8s")
  IN [base_url |-> IF Var(e, "REPAVE_COST_K8S_BASE_URL") # "" THEN Var(e, "REPAVE_COST_K8S_BASE_URL")
                   ELSE Text(s, "base_url", ""),
      aggregate |-> Named(s, "aggregate", "label:app.kubernetes.io/name"),
      allocation_key |-> Named(s, "allocation_key", "{name}"),
      window |-> Named(s, "window", "30d"), currency |-> Named(s, "currency", "USD")]
DeploymentReader(f, e) ==
  IF Var(e, "REPAVE_DEPLOYMENT_READER") # "" THEN Var(e, "REPAVE_DEPLOYMENT_READER")
  ELSE Text(Section(f, "portal"), "deployment_reader", "")
Argocd(f, e) ==
  LET s == Section(f, "portal.deployment_argocd")
  IN [base_url |-> IF Var(e, "REPAVE_ARGOCD_BASE_URL") # "" THEN Var(e, "REPAVE_ARGOCD_BASE_URL")
                   ELSE Text(s, "base_url", ""), application |-> Named(s, "application", "{name}")]
Flux(f, e) ==
  LET s == Section(f, "portal.deployment_flux")
  IN [api_server |-> IF Var(e, "REPAVE_FLUX_API_SERVER") # "" THEN Var(e, "REPAVE_FLUX_API_SERVER")
                     ELSE Text(s, "api_server", ""),
      namespace |-> Named(s, "namespace", "default"), name |-> Named(s, "name", "{name}"),
      kind |-> Named(s, "kind", "kustomization")]

ResolveCostReader(f, e) ==
  LET reader == CostReader(f, e)
  IN CASE reader = "focus" /\ Focus(f, e).file = <<>> -> ""
       [] reader \in {"url", "aws", "azure", "k8s", "focus"} -> reader
       [] OTHER -> IF CostUrl(f, e) # "" THEN "url" ELSE ""
ReadersRefused(f, e) ==
  \/ CostReader(f, e) \notin {"", "url", "aws", "azure", "k8s", "focus"}
  \/ CostReader(f, e) = "focus" /\ Focus(f, e).file = <<>>
  \/ DeploymentReader(f, e) \notin {"", "url", "argocd", "flux"}
  \/ Flux(f, e).kind \notin {"kustomization", "helmrelease"}
  \/ "lookback_days" \in Section(f, "portal.cost_focus").bad \/ Focus(f, e).lookback_days <= 0

(* Cost snapshots follow the reader, or are switched on by themselves; the    *)
(* variable that names their file switches them on as well, where there is a *)
(* reader.                                                                   *)
SnapshotsRefused(f) == "enabled" \in Section(f, "portal.cost_snapshots").bad
Snapshots(f, e) ==
  LET s == Section(f, "portal.cost_snapshots")
      asked == ResolveCostReader(f, e) # "" \/ Flag(s, "enabled", FALSE)
      file == At(s.path, "file", <<>>)
      env == PathVar(e, "REPAVE_COST_SNAPSHOTS_FILE")
      enabled == env # <<>> \/ Flag(s, "enabled", TRUE)
  IN IF ~asked THEN [enabled |-> FALSE, file |-> <<>>]
     ELSE [enabled |-> enabled,
           file |-> CASE env # <<>> -> Resolve(env)
                      [] file # <<>> -> Resolve(file)
                      [] OTHER -> IF enabled THEN Resolve(<<"data", "fleet", "cost-snapshots.jsonl">>) ELSE <<>>]

PortalRefused(f, e) ==
  LET s == Section(f, "portal")
  IN \/ FileRefused(f)
     \/ Text(s, "density", "default") \notin {"default", "compact"} \/ "html" \in s.bad
     \/ LinksRefused(s, e) \/ AccentRefused(s, e)
     \/ BudgetsRefused(f) \/ AnomaliesRefused(f) \/ AllocationRefused(f)
     \/ ReadersRefused(f, e) \/ SnapshotsRefused(f)
PortalConfig(f, e) ==
  LET s == Section(f, "portal")
  IN [html |-> PortalHtml(s, e),
      backstage_url |-> Trimmed(LinkOf(s, "backstage_url", e, Links["backstage_url"])),
      logo_url |-> LinkOf(s, "logo_url", e, Links["logo_url"]),
      cost_reader |-> CostReader(f, e), cost_actuals_url |-> CostUrl(f, e), focus |-> Focus(f, e), k8s |-> K8s(f, e),
      tags |-> [reader \in TaggedReaders |-> [tag \in {"owner", "service"} |-> ReaderTag(f, e, reader, tag)]],
      deployment_reader |-> DeploymentReader(f, e), argocd |-> Argocd(f, e), flux |-> Flux(f, e),
      budgets |-> Budgets(f), anomalies |-> Anomalies(f), snapshots |-> Snapshots(f, e)]

------------------------------------------------------------------------------
(* Login. The file decides before the environment, but for the secrets.      *)
ServiceEnabled(f, e) ==
  LET s == Section(f, "auth")
  IN "service_mode" \in s.bad \/ Flag(s, "service_mode", On(e, "REPAVE_SERVICE_MODE"))
SessionSecret(f, e) == Named(Section(f, "auth"), "session_secret", Var(e, "REPAVE_SESSION_SECRET"))
Oidc(f, e) ==
  LET s == Section(f, "auth.oidc")
  IN [issuer |-> Text(s, "issuer", Var(e, "REPAVE_OIDC_ISSUER")),
      client_id |-> Text(s, "client_id", Var(e, "REPAVE_OIDC_CLIENT_ID")),
      client_secret |-> Secret(s, "client_secret", e, "REPAVE_OIDC_CLIENT_SECRET"),
      redirect_uri |-> Text(s, "redirect_uri", Var(e, "REPAVE_OIDC_REDIRECT_URI"))]
HttpsOnly(f, e) ==
  LET default == IF On(e, "REPAVE_SESSION_HTTPS_ONLY") THEN TRUE
                 ELSE IF Off(e, "REPAVE_SESSION_HTTPS_ONLY") THEN FALSE ELSE ServiceEnabled(f, e)
  IN Flag(Section(f, "auth"), "session_https_only", default)
Groups(f, role) == Range(Names(At(Section(f, "auth.oidc").item, "roles", NoSection), role))
AuthRefused(f, e) ==
  \/ FileRefused(f) \/ Wrong(Section(f, "auth"))
  \/ ServiceEnabled(f, e) /\ (SessionSecret(f, e) = "" \/ "" \in Range(Oidc(f, e)))
AuthConfig(f, e) ==
  LET s == Section(f, "auth")
      secret == SessionSecret(f, e)
  IN IF Absent(s) /\ ~On(e, "REPAVE_SERVICE_MODE") THEN {}
     ELSE {[service_enabled |-> ServiceEnabled(f, e), session_secret |-> IF secret = "" THEN "random" ELSE secret,
            api_token |-> Secret(s, "api_token", e, "REPAVE_API_TOKEN"), oidc |-> Oidc(f, e),
            https_only |-> HttpsOnly(f, e), admin_groups |-> Groups(f, "admin"),
            generator_groups |-> Groups(f, "generator"), coarse_rbac |-> Flag(s, "coarse_rbac_enabled", FALSE)]}

HostedRefused(f, e) ==
  /\ \E auth \in AuthConfig(f, e) : auth.service_enabled
  /\ DatabaseRefused(f, e) \/ DatabaseConfig(f, e) = {}

(* The licence file l on the day today.                                      *)
LicenseRefused(l, today, service) ==
  /\ service
  /\ \/ ~l.readable \/ l.product # "repave-control-plane" \/ l.organization = ""
     \/ l.sku \notin {"pilot", "annual"} \/ "expires" \in l.bad \/ l.expires < today

------------------------------------------------------------------------------
(* The world w of a process: the file, the environment, the licence and day. *)
Hosted(w) == \E auth \in AuthConfig(w.f, w.e) : auth.service_enabled
AppRefused(w) ==
  \/ OutputRefused(w.a, w.f, w.e) \/ PortalRefused(w.f, w.e) \/ ServiceCatalogRefused(w.f, w.e)
  \/ AuthRefused(w.f, w.e) \/ HostedRefused(w.f, w.e) \/ LicenseRefused(w.license, w.today, Hosted(w))
  \/ DurabilityRefused(w.f, w.e) \/ RuntimeRefused(w.f, w.e)
  \/ DurabilityConfig(w.f, w.e) # {} /\ QueueRefused(w.f, w.e)
App(w) ==
  [auth |-> AuthConfig(w.f, w.e), portal |-> PortalConfig(w.f, w.e), catalog |-> ServiceCatalogConfig(w.f, w.e),
   durability |-> DurabilityConfig(w.f, w.e), worker_execution |-> Runtime(w.f, w.e).execution = "worker",
   queue |-> IF DurabilityConfig(w.f, w.e) = {} THEN {} ELSE {Queue(w.f, w.e, FALSE)}]

------------------------------------------------------------------------------
(* What a process is promised that starts, whatever it was given.            *)

(* A run has one kind of executor: the pool of the web process, the worker   *)
(* processes or a Job of its own. A web process that may not execute has no  *)
(* pool, rows are claimed in PostgreSQL only, and a worker process is set as *)
(* its web process expects and never has a pool.                             *)
OneExecutor(f, e) ==
  ~QueueRefused(f, e) =>
    LET web == Queue(f, e, FALSE)
        worker == Queue(f, e, TRUE)
    IN /\ worker.enqueue_only
       /\ worker.claims = web.claims /\ worker.dispatches = web.dispatches
       /\ worker.database = web.database
       /\ Runtime(f, e).execution = "worker" => web.enqueue_only
       /\ web.claims => DatabaseUrl(f, e) = "postgresql"
       /\ <<web.enqueue_only, web.claims, web.dispatches>> \in
            {<<FALSE, FALSE, FALSE>>,   \* inline
             <<FALSE, TRUE, FALSE>>,    \* claim
             <<TRUE, TRUE, FALSE>>,     \* external
             <<TRUE, FALSE, FALSE>>,    \* external, workers sharing the file of SQLite
             <<TRUE, FALSE, TRUE>>}     \* job

(* A queue has room for a run, a worker for it and an attempt, whatever      *)
(* numbers were read.                                                        *)
Numbered(f, e) ==
  /\ \A key \in DOMAIN Durability(f).num : Durability(f).num[key] \in Int
  /\ \A v \in DOMAIN e.num : e.num[v] \subseteq Int
HasRoom(f, e) ==
  \A c \in DurabilityConfig(f, e) : \A key \in DOMAIN Bounds :
    c.numbers[key] \in Bounds[key][1]..Bounds[key][3]

(* A reader of costs that is set is the one used, and has what it needs;     *)
(* its readings are kept unless the file says no.                            *)
ReaderIsFed(f, e) ==
  ~PortalRefused(f, e) =>
    LET portal == PortalConfig(f, e)
        resolved == ResolveCostReader(f, e)
        s == Section(f, "portal.cost_snapshots")
    IN /\ portal.cost_reader # "" => resolved = portal.cost_reader
       /\ resolved = "url" => portal.cost_reader = "url" \/ portal.cost_actuals_url # ""
       /\ resolved = "focus" => portal.focus.file # <<>>
       /\ portal.snapshots.enabled <=>
            \/ Flag(s, "enabled", FALSE)
            \/ resolved # "" /\ (Flag(s, "enabled", TRUE) \/ PathVar(e, "REPAVE_COST_SNAPSHOTS_FILE") # <<>>)

(* A hosted process that starts has a session secret, a complete OIDC client, *)
(* a database and a valid licence, and its cookies are secure unless somebody *)
(* said no; one that is not hosted still signs its sessions.                  *)
IsWhole(w) ==
  ~AppRefused(w) => \A auth \in App(w).auth :
    /\ auth.session_secret # ""
    /\ auth.service_enabled =>
         /\ auth.session_secret = SessionSecret(w.f, w.e) /\ "" \notin Range(auth.oidc)
         /\ DatabaseConfig(w.f, w.e) \in {{"sqlite"}, {"postgresql"}}
         /\ w.license.readable /\ w.license.sku \in {"pilot", "annual"} /\ ~(w.license.expires < w.today)
         /\ \/ auth.https_only \/ Off(w.e, "REPAVE_SESSION_HTTPS_ONLY")
            \/ ~Flag(Section(w.f, "auth"), "session_https_only", TRUE)
=============================================================================
