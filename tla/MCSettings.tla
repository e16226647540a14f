----------------------------- MODULE MCSettings -----------------------------
(* What holds of everything a process starts with, over small files and      *)
(* environments: every loader with the keys that interact in it.             *)
EXTENDS Startup

Given == [NoSection EXCEPT !.shape = "mapping"]
Misshapen == [NoSection EXCEPT !.shape = "wrong"]
File(sections) == [shape |-> "mapping", version |-> "", sections |-> sections, bundled |-> Overlays, lab |-> FALSE]
Bare == [text |-> Nothing, path |-> Nothing, num |-> Nothing, paths |-> Nothing, tags |-> Nothing, bad |-> {}]
Texts(text) == [Bare EXCEPT !.text = text]

(* Every way to write some of the keys.                                      *)
Written(keys, values) == UNION {[some -> values] : some \in SUBSET keys}

(* A switch: the section is missing, misshapen, or has an "enabled" or not.  *)
Switches == {NoSection, Misshapen, [Given EXCEPT !.bad = {"enabled"}]}
            \cup {[Given EXCEPT !.text = t] : t \in Written({"enabled"}, {"true", "false"})}
Words == {"", "1", "on", "0", "off", "maybe"}

(* The features a variable switches, and those it can switch off as well.    *)
Features == [REPAVE_PLATFORM_METRICS |-> "platform_metrics", REPAVE_SERVICE_CATALOG |-> "service_catalog",
             REPAVE_LIVE_PLAN |-> "live_plan", REPAVE_ENVIRONMENT_VENDING |-> "environment_vending",
             REPAVE_COMPONENT_VENDING |-> "component_vending"]
BothWays == {"REPAVE_PLATFORM_METRICS", "REPAVE_SERVICE_CATALOG"}
Refuses(v, f, e) ==
  CASE v = "REPAVE_PLATFORM_METRICS" -> PlatformMetricsRefused(f, e)
    [] v = "REPAVE_SERVICE_CATALOG" -> ServiceCatalogRefused(f, e)
    [] v = "REPAVE_LIVE_PLAN" -> LivePlanRefused(f)
    [] v = "REPAVE_ENVIRONMENT_VENDING" -> EnvironmentVendingRefused(f)
    [] OTHER -> ComponentVendingRefused(f, e)
Runs(v, f, e) ==
  CASE v = "REPAVE_PLATFORM_METRICS" -> PlatformMetricsConfig(f, e) # {}
    [] v = "REPAVE_SERVICE_CATALOG" -> ServiceCatalogConfig(f, e) # {}
    [] v = "REPAVE_LIVE_PLAN" -> LivePlanConfig(f, e) # {}
    [] v = "REPAVE_ENVIRONMENT_VENDING" -> EnvironmentVendingConfig(f, e) # {}
    [] OTHER -> ComponentVendingConfig(f, e) # {}

(* A variable that says yes turns a feature on, whatever the file says, as   *)
(* long as the file loads; one that says no turns off metrics and catalog,   *)
(* even beside a file that does not load, and nothing else; what neither     *)
(* asks for stays off, and a file of an API version nobody supports refuses. *)
SwitchesDecide ==
  \A v \in DOMAIN Features, word \in Words, s \in Switches :
    LET f == File([k \in {Features[v]} |-> s])
        e == Texts([x \in {v} |-> word])
        strange == [f EXCEPT !.version = "repave.dev/v9"]
        no == word \in {"0", "off"} /\ v \in BothWays
    IN /\ ~Refuses(v, f, e) =>
            (Runs(v, f, e) <=> word \in {"1", "on"} \/ (~no /\ Mapping(s) /\ Flag(s, "enabled", TRUE)))
       /\ Refuses(v, strange, e) <=> ~no
       /\ no => ~Runs(v, f, e)

(* Components with no repository of their own go where environments go, on   *)
(* their branch unless they name one; the two registries stay apart; what    *)
(* expires expires after a positive time, and reclaiming cannot be emptied.  *)
VendingSections(repo, branch) ==
  {[s EXCEPT !.text = @ @@ t @@ b] :
     s \in Switches \ {Misshapen}, t \in Written({"gitops_repo"}, repo), b \in Written({"base_branch"}, branch)}
VendingTogether ==
  /\ \A env \in VendingSections({"", "gitops"}, {"main", "live"}),
        own \in VendingSections({"", "apps"}, {"main", "dev"}), word \in {"", "on"} :
       LET f == File([environment_vending |-> env, component_vending |-> own])
           e == Texts([REPAVE_COMPONENT_VENDING |-> word])
           repo == Text(own, "gitops_repo", "")
       IN ~ComponentVendingRefused(f, e) =>
            \A c \in ComponentVendingConfig(f, e) :
              /\ repo # "" => c.gitops_repo = "apps" /\ c.base_branch = Named(own, "base_branch", "main")
              /\ \A v \in EnvironmentVendingConfig(f, e) :
                   /\ c.file # v.file /\ c.path_prefix # v.path_prefix
                   /\ repo = "" =>
                        /\ c.gitops_repo = v.gitops_repo
                        /\ c.base_branch = IF Named(own, "base_branch", "main") = "dev" THEN "dev" ELSE v.base_branch
  /\ \A hours \in Written({"", "sandbox", "prod"}, {-1, 0, 8}), list \in {<<>>, <<"">>, <<"prod">>}, n \in {-5, 0, 72} :
       LET s == [Given EXCEPT !.num = [default_ttl_hours |-> n], !.names = [auto_reclaim_classes |-> list],
                              !.item = [ttl_hours_by_class |-> [Given EXCEPT !.num = hours]]]
           f == File([environment_vending |-> s])
       IN \A c \in EnvironmentVendingConfig(f, Bare) :
            /\ c.ttl_hours >= 0 /\ Range(c.ttl_by) \subseteq {8} /\ "" \notin DOMAIN c.ttl_by
            /\ c.auto_reclaim = IF list = <<"prod">> THEN <<"prod">> ELSE <<"sandbox">>

(* A plan of an entity is its own, or that of everything.                    *)
PlansFound ==
  \A targets \in Written({"", "*", "api"}, {"", "a", "b"}), plain \in BOOLEAN :
    LET item(id) == [Given EXCEPT !.text = [target |-> targets[id]], !.shape = IF plain THEN "plain" ELSE "mapping"]
        f == File([live_plan |-> [Given EXCEPT !.item = [id \in DOMAIN targets |-> item(id)]]])
    IN ~LivePlanRefused(f) => \A c \in LivePlanConfig(f, Bare) :
         /\ EnvironmentFor(c, "") # {} \/ EnvironmentFor(c, "web") # {} => "*" \in DOMAIN targets
         /\ "api" \in DOMAIN targets => {p.target : p \in EnvironmentFor(c, "api")} = {targets["api"]}
         /\ ~plain => \A p \in EnvironmentFor(c, "api") : p.target # ""

(* The repository's own blueprints come first; every root named anywhere is  *)
(* searched once, the file's before the environment's; no pack reaches out   *)
(* of its clone.                                                             *)
Roots == {<<"blueprints">>, <<".", "blueprints">>, <<"..", "org">>, <<"/", "srv", "org">>}
SourcesSearched ==
  /\ \A root \in Written({"blueprints_root"}, Roots), more \in SeqOf(Roots, 2), env \in Roots \cup {<<>>} :
       LET f == File([top |-> [Given EXCEPT !.path = root, !.names = [blueprint_sources |-> more]]])
           e == [Bare EXCEPT !.path = [REPAVE_BLUEPRINTS_ROOT |-> env]]
           roots == BlueprintSources(f, e)
           named == {<<"blueprints">>} \cup Range(root) \cup Range(more) \cup ({env} \ {<<>>})
       IN /\ ~SourcesRefused(f)
          /\ Head(roots) = Resolve(<<"blueprints">>) /\ IsInjective(roots)
          /\ Range(roots) = {Resolve(path) : path \in named}
          /\ IsPrefix(BlueprintSources(f, Bare), roots)
  /\ \A dir \in SeqOf({"/", ".", "..", "sub"}, 3), url \in {"", "https", "oci", "ssh"}, ref \in {"", "v1"} :
       LET item == [Given EXCEPT !.text = [url |-> url, ref |-> ref], !.path = [subdir |-> dir]]
           f == File([blueprint_packs |-> [Given EXCEPT !.item = <<item>>]])
       IN ~PacksRefused(f, Bare) => \A c \in PackConfig(f, Bare) :
            /\ c.sources[1].url \in {"https", "oci"} /\ c.sources[1].ref = "v1"
            /\ IsPrefix(c.cache_dir, FoldLeft(Enter, c.cache_dir, c.sources[1].subdir))

(* Traces have an endpoint; notifications that are on have a webhook and an  *)
(* event; audit log and fleet registry are turned on alike; the environment  *)
(* can require an estimate or set a limit, never waive what the file         *)
(* requires, and the rules the file blocks stay blocked.                     *)
SinksReach ==
  /\ \A s \in Switches, url \in Written({"otlp_endpoint"}, {"", "file"}), env \in {"", "env"} :
       LET f == File([tracing |-> IF Mapping(s) THEN [s EXCEPT !.text = @ @@ url] ELSE s])
           e == Texts([OTEL_EXPORTER_OTLP_ENDPOINT |-> env])
       IN /\ \A c \in TracingConfig(f, e) : c.endpoint # ""
          /\ Absent(s) => (TracingConfig(f, e) # {} <=> env # "")
  /\ \A s \in Switches, hook \in Written({"webhook_url"}, {"", "file"}), env \in {"", "env"},
        events \in SeqOf({"", "x"}, 1) :
       LET said == [s EXCEPT !.text = @ @@ hook, !.names = [list \in {"events"} |-> events]]
           f == File([notifications |-> IF Mapping(s) THEN said ELSE s])
           e == Texts([REPAVE_SLACK_WEBHOOK_URL |-> env])
       IN ~NotificationsRefused(f, e) => \A c \in NotificationsConfig(f, e) :
            (c.enabled => c.webhooks # <<>>) /\ c.events # {} /\ "" \notin c.events
  /\ \A s \in Switches, env \in {<<>>, <<"/", "log">>} :
       LET f == File([audit |-> s, fleet |-> s])
           e == [Bare EXCEPT !.path = [REPAVE_AUDIT_FILE |-> env, REPAVE_FLEET_FILE |-> env]]
       IN ~SwitchRefused(f, "audit") =>
            /\ {c.enabled : c \in AuditConfig(f, e)} = {c.enabled : c \in FleetConfig(f, e)}
            /\ env # <<>> => {c.file : c \in AuditConfig(f, e)} \cup {c.file : c \in FleetConfig(f, e)} = {<<"log">>}
  /\ \A required \in Written({"required"}, {"true", "false"}), word \in Words, shape \in {"mapping", "wrong"},
        limit \in Written({"max_monthly_usd"}, {0, 50}), env \in {{}, {20}} :
       LET s == IF shape = "wrong" THEN Misshapen ELSE [Given EXCEPT !.text = required, !.num = limit]
           f == File("gates" :> Given @@ "gates.infracost" :> s
                     @@ "gates.policy" :> [Given EXCEPT !.names = [required_rules |-> <<"no-public">>]])
           e == [Texts([REPAVE_INFRACOST_REQUIRED |-> word]) EXCEPT !.num = [REPAVE_INFRACOST_MAX_MONTHLY_USD |-> env]]
           floor == GateOverrides(f, e)
       IN /\ ~GateOverridesRefused(f, e) /\ floor.blocked_skips = {"no-public"}
          /\ shape = "mapping" =>
               /\ floor.infracost.required <=> Text(s, "required", "") = "true" \/ word \in {"1", "on"}
               /\ GateOverrides(f, Bare).infracost.limit # {} => floor.infracost.limit # {}
               /\ env # {} => floor.infracost.limit = env

------------------------------------------------------------------------------
(* A queue has room for a run, a worker for it and an attempt; a number of    *)
(* the file within its bounds is kept, and one of the environment beats it.  *)
QueueIsUsable ==
  \A word \in Words \cup {"yes", "no"}, async \in Written({"async_generation"}, {"true", "false"}),
     n \in {-1, 0, 5, 60, 100000}, env \in {{}, {0}, {7}, {90000}}, key \in DOMAIN Bounds :
    LET f == File([durability |-> [Given EXCEPT !.text = async, !.num = [k \in {key} |-> n]]])
        var == IF key \in DOMAIN VarFor THEN {VarFor[key]} ELSE {}
        e == [Texts([REPAVE_ASYNC_GENERATION |-> word]) EXCEPT !.num = [v \in var |-> env]]
        set == IF var # {} /\ env # {} THEN env ELSE {n}
    IN /\ DurabilityConfig(f, e) # {} <=>
            word \in {"1", "yes"} \/ (word \notin {"0", "no"} /\ "true" \in Range(async))
       /\ Numbered(f, e) /\ HasRoom(f, e)
       /\ \A c \in DurabilityConfig(f, e) :
            /\ \A m \in set : m \in Bounds[key][1]..Bounds[key][3] => c.numbers[key] = m
            /\ \A k \in DOMAIN Bounds \ {key} : c.numbers[k] = Bounds[k][2]

(* All processes of a container keep their runs together, in the database    *)
(* there is or else in one file, which the environment names before the      *)
(* file, below the repository whatever path was named, and no other path.    *)
Places == {<<"data", "runs.sqlite">>, <<".", "data", "runs.sqlite">>, <<"/", "data", "runs.sqlite">>}
RunsTogether ==
  \A file \in Written({"runs_db"}, Places), env \in Places \cup {<<>>}, url \in {"", "postgresql"} :
    LET f(more) == File([durability |-> [Given EXCEPT !.text = [async_generation |-> "true", database_url |-> url],
                                                      !.path = more]])
        e == [Bare EXCEPT !.path = [REPAVE_RUNS_DB |-> env]]
        kept == Queue(f(file), e, FALSE).database
    IN /\ kept = Queue(f(file), e, TRUE).database /\ Cardinality(kept) = 1
       /\ env # <<>> => kept = Queue(f(Nothing), e, FALSE).database
       /\ url # "" <=> \A db \in kept : db.dialect = "postgresql" /\ db.path = <<>>
       /\ url = "" => \A db \in kept : IsStrictPrefix(Root, db.path)
       /\ env = <<>> /\ url = "" => \A other \in Written({"runs_db"}, Places) :
            kept = Queue(f(other), e, FALSE).database <=>
              {c.runs_db : c \in DurabilityConfig(f(file), e)} = {c.runs_db : c \in DurabilityConfig(f(other), e)}

(* Whatever the three places say, a run has one kind of executor: the pool of *)
(* the web process, the worker processes or a Job of its own. A web process  *)
(* that may not execute has no pool, rows are claimed only in PostgreSQL, a  *)
(* worker process claims as its web process expects and never has a pool.    *)
ExecutorsExist ==
  \A mode \in Written({"worker_mode"}, {"inline", "kubernetes", "job", "thread"}),
     execution \in Written({"execution_mode"}, {"worker", "inprocess"}),
     workers \in {"", "yes", "on"}, env \in {"", "external", "inline"}, jobs \in {"", "1"},
     url \in {"", "sqlite", "postgresql", "mysql"} :
    LET f == File([durability |-> [Given EXCEPT !.text = mode @@ execution @@ [database_url |-> url]]])
        e == Texts([REPAVE_EXTERNAL_WORKERS |-> workers, REPAVE_EXECUTION_MODE |-> env, REPAVE_RUN_JOBS |-> jobs])
    IN OneExecutor(f, e) /\ (~QueueRefused(f, e) /\ jobs = "1" => Queue(f, e, FALSE).dispatches)

(* A reader that is set has what it needs; a reader of costs keeps its        *)
(* readings, unless the file says no, in a file that is set; the switch of   *)
(* the snapshots alone is enough.                                            *)
ReadersServe ==
  \A reader \in {"", "url", "aws", "focus", "gcp"}, env \in {"", "focus", "k8s"}, url \in {"", "u"},
     file \in {<<>>, <<"focus.csv">>}, efile \in {<<>>, <<"/", "f">>},
     s \in Switches \ {Misshapen}, own \in {<<>>, <<"s">>}, snap \in {<<>>, <<"/", "s">>} :
    LET f == File("portal" :> [Given EXCEPT !.text = [cost_reader |-> reader, cost_actuals_url |-> url]]
                  @@ "portal.cost_focus" :> [Given EXCEPT !.path = [name \in {"file"} |-> file]]
                  @@ "portal.cost_snapshots" :> [s EXCEPT !.path = [name \in {"file"} |-> own]])
        e == [Texts([REPAVE_COST_READER |-> env])
              EXCEPT !.path = [REPAVE_COST_FOCUS_FILE |-> efile, REPAVE_COST_SNAPSHOTS_FILE |-> snap]]
        portal == PortalConfig(f, e)
    IN /\ ReaderIsFed(f, e)
       /\ ~PortalRefused(f, e) /\ portal.snapshots.enabled => portal.snapshots.file # <<>>

(* Costs are read under the tag keys they are allocated by; links lead to    *)
(* the same origin or a web site, and end in no slash.                       *)
TagsAgree ==
  /\ \A keys \in Written({"owner", "service"}, {"", "Team"}), env \in Written({"owner"}, {"Squad"}),
        own \in Written({"owner"}, {"", "Mine"}) :
       LET f == File("portal" :> Given @@ "portal.cost_aws" :> [Given EXCEPT !.text = own]
                     @@ "portal.cost_allocation" :> [Given EXCEPT !.item = [tag_keys |-> [Given EXCEPT !.text = keys]]])
           e == [Bare EXCEPT !.tags = env]
           tags == PortalConfig(f, e).tags
       IN /\ ~PortalRefused(f, e)
          /\ tags["portal.cost_azure"] = tags["portal.cost_focus"]
          /\ tags["portal.cost_aws"] # tags["portal.cost_azure"] => "Mine" \in Range(own)
          /\ "Squad" \in Range(env) => tags["portal.cost_azure"].owner = "Squad"
          /\ \A reader \in TaggedReaders : "" \notin Range(tags[reader])
  /\ \A link \in SeqOf({"/", "https:", "javascript:", "idp"}, 3),
        env \in {<<>>, <<"/", "idp", "/">>, <<"javascript:", "x">>} :
       LET f == File([portal |-> [Given EXCEPT !.path = [backstage_url |-> link]]])
           e == [Bare EXCEPT !.path = [REPAVE_BACKSTAGE_URL |-> env]]
           url == PortalConfig(f, e).backstage_url
       IN ~PortalRefused(f, e) =>
            /\ url # <<>> => url[1] \in {"/", "https:"}
            /\ Len(url) > 1 => Last(url) # "/"
            /\ env # <<>> => url = <<"/", "idp">>

(* A hosted process that starts has a session secret, a complete OIDC client, *)
(* a database and a valid licence, and its cookies are secure unless somebody *)
(* said no; one that is not hosted needs none of them and still signs its    *)
(* sessions.                                                                 *)
Licences == [readable : BOOLEAN, product : {"repave-control-plane"}, organization : {"acme"},
             sku : {"annual", "trial"}, bad : {{}}, expires : {9, 10}]
HostedFile(auth, oidc) ==
  File("output" :> [Given EXCEPT !.text = [github_org |-> "acme"], !.path = [modules_root |-> <<"..", "out">>]]
       @@ "auth" :> [Given EXCEPT !.text = auth]
       @@ "auth.oidc" :> [Given EXCEPT !.text = oidc @@ [client_id |-> "c", redirect_uri |-> "r"]])
HostedIsWhole ==
  \A service \in Written({"service_mode"}, {"true", "false"}), word \in {"", "on"},
     file \in Written({"session_secret"}, {"", "file"}), secret \in {"", "env"},
     url \in {"", "postgresql", "mysql"}, licence \in Licences, https \in {"", "off"},
     oidc \in Written({"issuer", "client_secret"}, {"", "file"}),
     env \in Written({"REPAVE_OIDC_ISSUER", "REPAVE_OIDC_CLIENT_SECRET"}, {"env"}) :
    LET f == HostedFile(service @@ file, oidc)
        e == Texts(env @@ [REPAVE_SERVICE_MODE |-> word, REPAVE_SESSION_SECRET |-> secret, REPAVE_DATABASE_URL |-> url,
                           REPAVE_SESSION_HTTPS_ONLY |-> https])
        w == [a |-> [org |-> "", root |-> <<>>], f |-> f, e |-> e, license |-> licence, today |-> 10]
    IN /\ IsWhole(w)
       /\ ~AppRefused(w) => \A auth \in App(w).auth :
            /\ auth.service_enabled <=> IF DOMAIN service = {} THEN word = "on" ELSE service["service_mode"] = "true"
            /\ auth.service_enabled => auth.session_secret \in {"file", "env"} /\ url = "postgresql"
            /\ auth.service_enabled => licence.expires >= w.today /\ (auth.https_only \/ https = "off")

StartsHold ==
  /\ SwitchesDecide /\ VendingTogether /\ PlansFound /\ SourcesSearched /\ SinksReach
  /\ QueueIsUsable /\ RunsTogether /\ ExecutorsExist /\ ReadersServe /\ TagsAgree /\ HostedIsWhole
=============================================================================
