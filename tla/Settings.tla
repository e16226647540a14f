------------------------------ MODULE Settings ------------------------------
(* What repave.config.yaml and the environment turn on (settings.py,        *)
(* developer_lab.py): one loader per feature.  Refused says when a loader    *)
(* raises; a loader that does not raise returns a set, empty for None.       *)
(*                                                                          *)
(* A file f has an API version and sections; a section s keeps what is       *)
(* written under its keys, by type, and in s.bad the keys whose value is not *)
(* of the kind the key wants.  A section that is not a mapping has no keys.  *)
(* The environment e has texts, paths and numbers, in e.bad the variables    *)
(* that should be numbers and are not.  Texts are stripped, a path is the    *)
(* sequence of its names after a leading "/" if it is absolute.              *)
EXTENDS Integers, Sequences, FiniteSets, SequencesExt, Functions

Nothing == [k \in {} |-> ""]
NoSection == [shape |-> "absent", text |-> Nothing, num |-> Nothing, path |-> Nothing,
              names |-> Nothing, item |-> Nothing, bad |-> {}]

FileRefused(f) == f.shape = "wrong" \/ f.version \notin {"", "repave.dev/v1"}
Section(f, key) == IF key \in DOMAIN f.sections THEN f.sections[key] ELSE NoSection

Wrong(s) == s.shape = "wrong"
Absent(s) == s.shape = "absent"
Mapping(s) == s.shape = "mapping"

(* What a section or the environment says, or a default.                    *)
At(field, key, default) == IF key \in DOMAIN field THEN field[key] ELSE default
Text(s, key, default) == At(s.text, key, default)
Named(s, key, default) == IF Text(s, key, "") = "" THEN default ELSE Text(s, key, "")
Flag(s, key, default) == IF key \in DOMAIN s.text THEN s.text[key] = "true" ELSE default
Number(s, key, default) == At(s.num, key, default)
Names(s, key) == SelectSeq(At(s.names, key, <<>>), LAMBDA name : name # "")

Var(e, v) == At(e.text, v, "")
PathVar(e, v) == At(e.path, v, <<>>)
On(e, v) == Var(e, v) \in {"1", "true", "yes", "on"}
Off(e, v) == Var(e, v) \in {"0", "false", "no", "off"}
Secret(s, key, e, v) == IF Var(e, v) # "" THEN Var(e, v) ELSE Text(s, key, "")
Between(low, n, high) == IF n < low THEN low ELSE IF n > high THEN high ELSE n

(* Paths start at the repository unless they are absolute.                  *)
Root == <<"srv", "repave">>
Enter(dir, name) == CASE name \in {"/", "."} -> dir
                      [] name = ".." -> IF dir = <<>> THEN dir ELSE Front(dir)
                      [] OTHER -> Append(dir, name)
Absolute(path) == path # <<>> /\ path[1] = "/"
Resolve(path) == FoldLeft(Enter, IF Absolute(path) THEN <<>> ELSE Root, path)
PathOf(s, key, default, e, v) ==
  Resolve(IF PathVar(e, v) # <<>> THEN PathVar(e, v) ELSE At(s.path, key, default))

------------------------------------------------------------------------------
(* Where modules are written. Arguments a come before the environment, the   *)
(* environment before the file.                                              *)
OutputOrg(a, f, e) ==
  IF a.org # "" THEN a.org
  ELSE IF Var(e, "REPAVE_GITHUB_ORG") # "" THEN Var(e, "REPAVE_GITHUB_ORG")
  ELSE Text(Section(f, "output"), "github_org", "")
OutputRoot(a, f, e) ==
  IF a.root # <<>> THEN a.root
  ELSE IF PathVar(e, "REPAVE_MODULES_ROOT") # <<>> THEN PathVar(e, "REPAVE_MODULES_ROOT")
  ELSE At(Section(f, "output").path, "modules_root", <<>>)
OutputRefused(a, f, e) ==
  FileRefused(f) \/ Wrong(Section(f, "output")) \/ OutputOrg(a, f, e) = "" \/ OutputRoot(a, f, e) = <<>>
OutputConfig(a, f, e) ==
  [github_org |-> OutputOrg(a, f, e), modules_root |-> Resolve(OutputRoot(a, f, e)),
   template |-> Named(Section(f, "output"), "repo_name_template", "tf-{module_name}")]

(* Catalog roots: the repository's own, then the file's, then the            *)
(* environment's, each once.                                                 *)
SourcesRefused(f) ==
  \/ FileRefused(f)
  \/ {"blueprints_root", "blueprint_sources"} \cap Section(f, "top").bad # {}
  \/ At(Section(f, "top").path, "blueprints_root", <<"x">>) = <<>>
  \/ <<>> \in Range(At(Section(f, "top").names, "blueprint_sources", <<>>))
NamedRoots(f, e) ==
  LET top == Section(f, "top")
      One(path) == IF path = <<>> THEN <<>> ELSE <<path>>
  IN One(At(top.path, "blueprints_root", <<>>)) \o At(top.names, "blueprint_sources", <<>>)
     \o One(PathVar(e, "REPAVE_BLUEPRINTS_ROOT"))
     \o SelectSeq(At(e.paths, "REPAVE_BLUEPRINT_SOURCES", <<>>), LAMBDA path : path # <<>>)
BlueprintSources(f, e) ==
  FoldLeft(LAMBDA roots, path : IF Contains(roots, Resolve(path)) THEN roots ELSE Append(roots, Resolve(path)),
           <<Resolve(<<"blueprints">>)>>, NamedRoots(f, e))

(* Packs: a URL is told by its scheme; a folder stays inside the clone.      *)
PackUrlRefused(item) == Text(item, "url", "") \notin {"https", "http", "file", "oci"}
PackRefRefused(item) == "ref" \in item.bad \/ Text(item, "ref", "") = ""
PackSubdirRefused(item) ==
  LET path == At(item.path, "subdir", <<".">>)
  IN "subdir" \in item.bad \/ path = <<>> \/ Absolute(path) \/ ".." \in Range(path)
PackDestRefused(item) == "dest" \in item.bad
PackTokenRefused(item) == "token" \in item.bad
PackRefused(item) ==
  \/ ~Mapping(item) \/ PackUrlRefused(item) \/ PackRefRefused(item)
  \/ PackSubdirRefused(item) \/ PackDestRefused(item) \/ PackTokenRefused(item)
PacksRefused(f, e) ==
  LET s == Section(f, "blueprint_packs")
  IN \/ FileRefused(f) \/ Wrong(s) \/ "sources" \in s.bad
     \/ "cache_dir" \in s.bad /\ PathVar(e, "REPAVE_BLUEPRINT_PACK_CACHE") = <<>>
     \/ \E i \in DOMAIN s.item : PackRefused(s.item[i])
Pack(item) ==
  [url |-> Text(item, "url", ""), ref |-> Text(item, "ref", ""), subdir |-> At(item.path, "subdir", <<".">>),
   dest |-> Text(item, "dest", ""), token |-> Text(item, "token", "")]
PackConfig(f, e) ==
  LET s == Section(f, "blueprint_packs")
      cache == At(s.path, "cache_dir", <<>>)
      default == IF cache = <<>> THEN <<"data", "blueprint-packs">> ELSE cache
  IN IF Absent(s) THEN {}
     ELSE {[cache_dir |-> IF PathVar(e, "REPAVE_BLUEPRINT_PACK_CACHE") # <<>>
                          THEN Resolve(PathVar(e, "REPAVE_BLUEPRINT_PACK_CACHE")) ELSE Resolve(default),
            sources |-> [i \in DOMAIN s.item |-> Pack(s.item[i])]]}

------------------------------------------------------------------------------
(* Sinks: a variable alone turns one on; its path comes before the file's.  *)
SwitchRefused(f, key) ==
  FileRefused(f) \/ Wrong(Section(f, key)) \/ "enabled" \in Section(f, key).bad

AuditConfig(f, e) ==
  LET s == Section(f, "audit")
  IN IF Absent(s) /\ PathVar(e, "REPAVE_AUDIT_FILE") = <<>> THEN {}
     ELSE {[enabled |-> Flag(s, "enabled", TRUE),
            file |-> PathOf(s, "file", <<"audit", "generation.jsonl">>, e, "REPAVE_AUDIT_FILE")]}

FleetConfig(f, e) ==
  LET s == Section(f, "fleet")
      status == IF PathVar(e, "REPAVE_FLEET_OPERATOR_STATUS_FILE") # <<>>
                THEN PathVar(e, "REPAVE_FLEET_OPERATOR_STATUS_FILE")
                ELSE At(s.path, "operator_status_file", <<>>)
  IN IF Absent(s) /\ PathVar(e, "REPAVE_FLEET_FILE") = <<>> THEN {}
     ELSE {[enabled |-> Flag(s, "enabled", TRUE),
            file |-> PathOf(s, "file", <<"fleet", "registry.jsonl">>, e, "REPAVE_FLEET_FILE"),
            status |-> IF status = <<>> THEN <<>> ELSE Resolve(status),
            namespace |-> Named(s, "gitops_namespace", "default")]}

(* Traces need an endpoint; the endpoint of the environment switches them    *)
(* on, and the endpoint of the file is the one used.                         *)
TracingRefused(f) == FileRefused(f) \/ "enabled" \in Section(f, "tracing").bad
TracingConfig(f, e) ==
  LET s == Section(f, "tracing")
      standard == SelectSeq(<<Var(e, "OTEL_EXPORTER_OTLP_TRACES_ENDPOINT"), Var(e, "OTEL_EXPORTER_OTLP_ENDPOINT"),
                              Var(e, "REPAVE_OTEL_EXPORTER_OTLP_ENDPOINT")>>, LAMBDA url : url # "")
      env == IF standard = <<>> THEN "" ELSE Head(standard)
      endpoint == Text(s, "otlp_endpoint", env)
      service == IF Var(e, "OTEL_SERVICE_NAME") # "" THEN Var(e, "OTEL_SERVICE_NAME")
                 ELSE IF Var(e, "REPAVE_OTEL_SERVICE_NAME") # "" THEN Var(e, "REPAVE_OTEL_SERVICE_NAME")
                 ELSE "repave-engine"
      enabled == env # "" \/ (endpoint # "" /\ Flag(s, "enabled", TRUE))
  IN IF ~enabled \/ endpoint = "" THEN {}
     ELSE {[endpoint |-> endpoint, service |-> Named(s, "service_name", service)]}

(* Platform metrics: "0" in the environment answers before the file is read. *)
MetricsEnabled(f, e) ==
  LET s == Section(f, "platform_metrics")
  IN IF Absent(s) THEN On(e, "REPAVE_PLATFORM_METRICS") \/ PathVar(e, "REPAVE_PLATFORM_METRICS_FILE") # <<>>
     ELSE Flag(s, "enabled", TRUE) \/ On(e, "REPAVE_PLATFORM_METRICS")
MetricsDir == <<"data", "platform-metrics">>
Ratios == {"baseline_adoption_ratio", "baseline_plan_apply_ratio"}     \* in percent
RatioRefused(s, key) == key \in s.bad \/ Number(s, key, 0) < 0 \/ Number(s, key, 0) > 100
PlatformMetricsRefused(f, e) ==
  LET s == Section(f, "platform_metrics")
  IN /\ ~Off(e, "REPAVE_PLATFORM_METRICS")
     /\ \/ SwitchRefused(f, "platform_metrics")
        \/ {"github_orgs", "github_topics", "search_limit"} \cap s.bad # {}
        \/ MetricsEnabled(f, e) /\ \E key \in Ratios : RatioRefused(s, key)
PlatformMetricsConfig(f, e) ==
  LET s == Section(f, "platform_metrics")
  IN IF Off(e, "REPAVE_PLATFORM_METRICS") \/ ~MetricsEnabled(f, e) THEN {}
     ELSE {[snapshot_file |-> PathOf(s, "snapshot_file", Append(MetricsDir, "snapshots.jsonl"), e,
                                     "REPAVE_PLATFORM_METRICS_FILE"),
            feedback_file |-> PathOf(s, "feedback_file", Append(MetricsDir, "feedback.jsonl"), e,
                                     "REPAVE_PLATFORM_FEEDBACK_FILE"),
            github_orgs |-> Names(s, "github_orgs"), github_topics |-> Names(s, "github_topics"),
            search_limit |-> Between(1, Number(s, "search_limit", 100), 1000),
            baselines |-> [key \in Ratios \cap DOMAIN s.num |-> s.num[key]]]}

------------------------------------------------------------------------------
(* Features a switch turns on beside the file, never off.                   *)
Switched(s, e, v) == (Mapping(s) /\ Flag(s, "enabled", TRUE)) \/ On(e, v)

(* Live plans: an entity names its target, or everything does under "*". An *)
(* item of shape "plain" is a target alone.                                 *)
PlanRefused(item) ==
  Wrong(item) \/ (Mapping(item) /\ (Text(item, "target", "") = "" \/ "use_backend" \in item.bad))
LivePlanRefused(f) ==
  LET s == Section(f, "live_plan")
  IN \/ SwitchRefused(f, "live_plan") \/ "environments" \in s.bad
     \/ \E id \in DOMAIN s.item \ {""} : PlanRefused(s.item[id])
LivePlanConfig(f, e) ==
  LET s == Section(f, "live_plan")
      policies == Named(s, "policies_dir", "policy/opa/policies")
      Environment(item) ==
        [target |-> Text(item, "target", ""), secret_name |-> Text(item, "secret_name", ""),
         policies_dir |-> Named(item, "policies_dir", IF Mapping(item) THEN policies ELSE "policy/opa/policies"),
         use_backend |-> Flag(item, "use_backend", TRUE)]
  IN IF ~Switched(s, e, "REPAVE_LIVE_PLAN") THEN {}
     ELSE {[environments |-> [id \in DOMAIN s.item \ {""} |-> Environment(s.item[id])], policies_dir |-> policies]}
EnvironmentFor(config, id) ==
  LET named == {id, "*"} \cap DOMAIN config.environments
  IN IF named = {} THEN {} ELSE {config.environments[IF id \in named THEN id ELSE "*"]}

(* Vending. An empty list of classes or kinds is the default list; a time to *)
(* live that is not a positive number of hours is left out.                  *)
ClassNames(s, key, default) == IF Names(s, key) = <<>> THEN default ELSE Names(s, key)
HoursBy(s, key) ==
  LET hours == At(s.item, key, NoSection).num
  IN [class \in {c \in DOMAIN hours \ {""} : hours[c] > 0} |-> hours[class]]
DefaultHours(s) == IF Number(s, "default_ttl_hours", 0) >= 0 THEN Number(s, "default_ttl_hours", 0) ELSE 0

EnvironmentVendingRefused(f) ==
  \/ SwitchRefused(f, "environment_vending")
  \/ {"auto_reclaim_classes", "decommission_review_classes"} \cap Section(f, "environment_vending").bad # {}
(* The registry's variable counts only beside a mapping in the file.        *)
RegistryOf(s, default, e, v) == IF Mapping(s) THEN PathOf(s, "file", default, e, v) ELSE Resolve(default)
EnvironmentVendingConfig(f, e) ==
  LET s == Section(f, "environment_vending")
  IN IF ~Switched(s, e, "REPAVE_ENVIRONMENT_VENDING") THEN {}
     ELSE {[gitops_repo |-> Text(s, "gitops_repo", ""), base_branch |-> Named(s, "base_branch", "main"),
            path_prefix |-> Named(s, "path_prefix", "environments"),
            file |-> RegistryOf(s, <<"data", "environments", "registry.jsonl">>, e,
                                "REPAVE_ENVIRONMENT_REGISTRY_FILE"),
            ttl_hours |-> DefaultHours(s), ttl_by |-> HoursBy(s, "ttl_hours_by_class"),
            auto_reclaim |-> ClassNames(s, "auto_reclaim_classes", <<"sandbox">>),
            review |-> ClassNames(s, "decommission_review_classes", <<>>)]}

(* Components without a repository of their own are vended into the one of   *)
(* the environments, whose loader may raise as well.                        *)
ComponentVendingRefused(f, e) ==
  LET s == Section(f, "component_vending")
  IN \/ SwitchRefused(f, "component_vending")
     \/ {"auto_reclaim_kinds", "decommission_review_kinds"} \cap s.bad # {}
     \/ /\ Mapping(s) \/ On(e, "REPAVE_COMPONENT_VENDING")
        /\ Text(s, "gitops_repo", "") = "" /\ EnvironmentVendingRefused(f)
ComponentTarget(s, environments) ==
  LET repo == Text(s, "gitops_repo", "")
      branch == Named(s, "base_branch", "main")
  IN IF repo # "" \/ environments = {} THEN [repo |-> repo, branch |-> branch]
     ELSE LET vending == CHOOSE config \in environments : TRUE
          IN [repo |-> vending.gitops_repo, branch |-> IF branch = "main" THEN vending.base_branch ELSE branch]
ComponentVendingConfig(f, e) ==
  LET s == Section(f, "component_vending")
      target == ComponentTarget(s, EnvironmentVendingConfig(f, e))
      kinds == At(s.path, "kinds", <<>>)
  IN IF ~Switched(s, e, "REPAVE_COMPONENT_VENDING") THEN {}
     ELSE {[gitops_repo |-> target.repo, base_branch |-> target.branch,
            path_prefix |-> Named(s, "path_prefix", "components"),
            file |-> RegistryOf(s, <<"data", "components", "registry.jsonl">>, e, "REPAVE_COMPONENT_REGISTRY_FILE"),
            kinds_file |-> IF kinds = <<>> THEN <<>> ELSE Resolve(kinds),
            ttl_hours |-> DefaultHours(s), ttl_by |-> HoursBy(s, "ttl_hours_by_kind"),
            auto_reclaim |-> ClassNames(s, "auto_reclaim_kinds", <<"database", "bucket", "queue">>),
            review |-> ClassNames(s, "decommission_review_kinds", <<>>)]}

------------------------------------------------------------------------------
(* The catalog overlay. f.bundled are the example files the tree ships; the  *)
(* developer lab (f.lab) turns the overlay on when nothing else speaks.      *)
Overlays == {"maturity_rubric", "workload_profiles", "deployment_sets", "initiatives"}
DefaultCatalogPath(f, key) == Resolve(IF key \in f.bundled THEN <<"examples", key>> ELSE <<"config", key>>)
LabRefused(f) == f.lab /\ ~(Overlays \subseteq f.bundled)
LabPaths(f) ==
  IF ~f.lab THEN {}
  ELSE {[paths |-> [key \in Overlays |-> Resolve(<<"examples", key>>)], default_team |-> "platform"]}
Unspoken(f, e) == Absent(Section(f, "service_catalog")) /\ ~On(e, "REPAVE_SERVICE_CATALOG")
ServiceCatalogRefused(f, e) ==
  /\ ~Off(e, "REPAVE_SERVICE_CATALOG")
  /\ SwitchRefused(f, "service_catalog") \/ (Unspoken(f, e) /\ LabRefused(f))
ServiceCatalogConfig(f, e) ==
  LET s == Section(f, "service_catalog")
      PathFor(key) == IF At(s.path, key, <<>>) # <<>> THEN Resolve(s.path[key]) ELSE DefaultCatalogPath(f, key)
  IN CASE Off(e, "REPAVE_SERVICE_CATALOG") -> {}
       [] Unspoken(f, e) -> LabPaths(f)
       [] OTHER -> IF ~Switched(s, e, "REPAVE_SERVICE_CATALOG") THEN {}
                   ELSE {[paths |-> [key \in Overlays |-> PathFor(key)],
                          default_team |-> Named(s, "default_team", "platform")]}

------------------------------------------------------------------------------
(* Notifications go to whichever webhooks are set.                          *)
Webhooks(f, e) ==
  LET s == Section(f, "notifications")
  IN SelectSeq(<<Secret(s, "slack_webhook_url", e, "REPAVE_SLACK_WEBHOOK_URL"),
                 Secret(s, "teams_webhook_url", e, "REPAVE_TEAMS_WEBHOOK_URL"),
                 Secret(s, "webhook_url", e, "REPAVE_NOTIFY_WEBHOOK_URL")>>, LAMBDA url : url # "")
NotifyEvents == {"publish_complete", "generation_failed"}
NotificationsRefused(f, e) ==
  LET s == Section(f, "notifications")
  IN \/ SwitchRefused(f, "notifications") \/ "events" \in s.bad
     \/ Mapping(s) /\ Flag(s, "enabled", TRUE) /\ Webhooks(f, e) = <<>>
NotificationsConfig(f, e) ==
  LET s == Section(f, "notifications")
      events == Range(Names(s, "events"))
  IN IF Absent(s) THEN {}
     ELSE {[enabled |-> Flag(s, "enabled", TRUE), webhooks |-> Webhooks(f, e),
            events |-> IF events = {} THEN NotifyEvents ELSE events]}

(* The floor of the gates. The environment can require an estimate, not      *)
(* waive one; a limit it sets replaces the file's.                           *)
InfracostRefused(s, e) ==
  "max_monthly_usd" \in s.bad \/ "REPAVE_INFRACOST_MAX_MONTHLY_USD" \in e.bad
InfracostPolicy(s, e) ==
  LET limit == "max_monthly_usd"
      file == IF limit \in DOMAIN s.num THEN {s.num[limit]} ELSE {}
      env == At(e.num, "REPAVE_INFRACOST_MAX_MONTHLY_USD", {})
  IN IF Wrong(s) THEN [required |-> FALSE, limit |-> {}]
     ELSE [required |-> Text(s, "required", "") \in {"1", "true", "yes", "on"} \/ On(e, "REPAVE_INFRACOST_REQUIRED"),
           limit |-> IF env # {} THEN env ELSE file]
GateOverridesRefused(f, e) ==
  \/ FileRefused(f)
  \/ InfracostRefused(Section(f, "gates.infracost"), e) /\ ~Wrong(Section(f, "gates.infracost"))
  \/ /\ ~Wrong(Section(f, "gates"))
     /\ \/ Wrong(Section(f, "gates.checkov")) \/ "skip_checks" \in Section(f, "gates.checkov").bad
        \/ "required_rules" \in Section(f, "gates.policy").bad
GateOverrides(f, e) ==
  [checkov_skips |-> Range(At(Section(f, "gates.checkov").names, "skip_checks", <<>>)),
   blocked_skips |-> Range(At(Section(f, "gates.policy").names, "required_rules", <<>>)),
   infracost |-> InfracostPolicy(Section(f, "gates.infracost"), e)]
=============================================================================
