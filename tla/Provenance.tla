----------------------------- MODULE Provenance -----------------------------
(***************************************************************************)
(* What a golden path writes: repave.yaml, which records the inputs and    *)
(* the versions behind a repository (provenance.py), and the files that    *)
(* are rendered beside it (render.py and the modules it calls).            *)
(*                                                                         *)
(* A path names a file, or a directory that is written as a whole.  What a *)
(* file says is a record of everything that its text depends on; records   *)
(* of files of different kinds have different fields.                      *)
(***************************************************************************)
EXTENDS GoldenPath

Without(files, paths) == Restrict(files, DOMAIN files \ paths)
When(wanted, files) == IF wanted THEN files ELSE <<>>
Add(files, wanted, path, content) == IF wanted THEN (path :> content) @@ files ELSE files

-----------------------------------------------------------------------------
(* repave.yaml *)

(* The block of a type: the inputs that its _build_..._spec copies.        *)
TerraformBlocks ==
  ("terraform-module" :> {"module_name", "cloud_provider", "provider_services"}
    @@ "terraform-environment-stack" :> {"stack_name", "cloud_provider", "environment", "pinned_modules"})
AnsibleBlocks ==
  ("ansible-role" :> {"role_name", "namespace", "min_ansible_version", "target_platforms",
         "role_pattern_source", "_role_pattern_requires_collections"}
    @@ "ansible-playbook-project" :> {"project_name", "environment", "min_ansible_version",
         "pinned_roles", "playbook_pattern_source", "_playbook_pattern_requires_collections"}
    @@ "ansible-collection" :> {"namespace", "collection_name", "min_ansible_version", "sample_role_name",
         "sample_role_pattern_source", "_collection_sample_requires_collections"})
PolicyBlocks ==
  ("observability" :> {"service_name", "organization", "team", "backend", "output_mode", "environment",
         "notification_source", "notification_target", "runbook_url", "slo_target_percent", "observability_focus",
         "datasource_uid", "dashboard_pack_source", "monitor_pack_source", "configuration_mode"}
    @@ [type \in {"opa-policy", "azure-policy", "checkov-policy"} |-> {"policy_name", "organization"}])
ServiceBlocks ==
  ("helm-chart" :> {"chart_name", "app_name", "image_repository", "image_tag", "service_type",
         "enable_ingress", "ingress_host"}
    @@ "app-service" :> {"service_name", "owner", "port", "runtime", "layout", "include_helm_reference",
         "helm_chart_repo"}
    @@ "gitops-deployment" :> {"service_name", "environment", "gitops_engine", "chart_repo_url",
         "chart_name", "chart_version", "target_namespace", "sync_policy"}
    @@ "github-repo" :> {"repo_name", "create_mode", "visibility", "description", "topics",
         "template_owner", "template_repo", "team_slugs", "team_permission", "default_branch",
         "ruleset_profile", "membership_source_team", "sync_team_membership"}
    @@ "api-contract" :> {"spec_name", "organization", "spec_kind", "api_title", "api_version"}
    @@ "db-migration" :> {"service_name", "organization", "tool"})
TypedInputs(type) == (TerraformBlocks @@ AnsibleBlocks @@ PolicyBlocks @@ ServiceBlocks)[type]

Typed(b, n) ==
  TypedInputs(b.type)
  \cup (IF b.layout = "single-resource" THEN {"provider_service", "provider_resource"} ELSE {})
  \cup (IF b.type # "gitops-deployment" THEN {}
        ELSE IF Is(n, "gitops_engine", "argocd") THEN {"destination_server", "argocd_project"}
        ELSE {"flux_source_name", "flux_source_namespace"})

(* The packs of a blueprint whose version the document of its type has.    *)
RecordedPacks(type) ==
  CASE type \in {"terraform-module", "terraform-environment-stack"} -> {"checkov", "opa"}
    [] type \in {"ansible-role", "ansible-playbook-project", "ansible-collection"} -> {"ansible-lint"}
    [] type = "opa-policy" -> {"opa"}
    [] type = "azure-policy" -> {"azure"}
    [] type = "checkov-policy" -> {"checkov"}
    [] OTHER -> {}

Governance == "baseline"   \* its source and version

(* build_provenance_document.  An input that is blank counts as absent.    *)
Document(c, b, n, at) ==
  [type |-> b.type, typed |-> Restrict(n, {i \in Typed(b, n) : Given(n, i)}),
   name |-> b.name, version |-> b.version, standard |-> b.standard, governance |-> {Governance},
   packs |-> Restrict(b.packs, DOMAIN b.packs \cap RecordedPacks(b.type)),
   policy |-> IF "_policy_selection" \in DOMAIN n THEN {Selection(c, b, n)} ELSE {},
   gates |-> b.gates, engine |-> c.engine, at |-> at, components |-> <<>>]

(* sync_readme_provenance_section: the section of the README.              *)
Section(d) ==
  [name |-> d.name, version |-> d.version, standard |-> d.standard, engine |-> d.engine, at |-> d.at,
   packs |-> Restrict(d.packs, DOMAIN d.packs \cap {"checkov", "opa"}),
   policy |-> {<<s.profile, s.pack>> : s \in d.policy}]

-----------------------------------------------------------------------------
(* The template and what depends on the backend *)

Written(c, b, n, inputs) ==
  [template |-> b.name, version |-> b.version, engine |-> c.engine, read |-> Restrict(n, inputs \cap DOMAIN n)]

(* run_copy: a template may be only for one output mode. *)
FromTemplate(c, b, n) ==
  [p \in {q \in DOMAIN b.template : Text(n, "output_mode") \subseteq b.template[q].modes
                                      \/ b.template[q].modes = {}} |->
     Written(c, b, n, b.template[p].reads)]

(* write_backstage_catalog_if_enabled, enrich_catalog_values.  org is the   *)
(* organization that is published to, or blank.                             *)
CatalogInputs == {"service_name", "chart_name", "module_name", "description", "owner", "system", "catalog_lifecycle"}
EmitsCatalog(b, n) == b.type = "app-service" \/ Is(n, "include_backstage_catalog", "true")
Slug(n, org) == IF Given(n, "catalog_github_slug") THEN n["catalog_github_slug"] ELSE org
Cataloged(c, b, n, org, files) ==
  Add(files, EmitsCatalog(b, n), "catalog-info.yaml",
      [entity |-> Restrict(n, CatalogInputs \cap DOMAIN n), slug |-> Slug(n, org),
       version |-> b.version, standard |-> b.standard, engine |-> c.engine])

ObservabilityTf == [datadog |-> {"monitors.tf"}, grafana |-> {"dashboard.tf"},
                    prometheus |-> {"prometheus_rules.tf", "alertmanager.tf"}, otel |-> {"otel_collector.tf"}]
MonitorsTf == Restrict(ObservabilityTf, {"datadog", "prometheus"})
RootTf == {"versions.tf", "variables.tf", "providers.tf"}

(* _prune_observability_backend_outputs, _prune_monitors_backend_outputs.   *)
PruneBackends(tf, root, backend, mode, files) ==
  LET everyTf == (UNION {tf[x] : x \in DOMAIN tf}) \cup root
  IN IF mode = "terraform" THEN Without(files, DOMAIN tf \cup (everyTf \ (tf[backend] \cup root)))
     ELSE Without(files, everyTf \cup (DOMAIN tf \ {backend}))

Packed(c, n, input) == Text(n, input) \cap c.estate.full   \* a pack with files of its own
Backend(n) == The(Text(n, "backend"))
Mode(n) == The(Text(n, "output_mode"))

ObservabilityFiles(n, files) ==
  PruneBackends(ObservabilityTf, RootTf \cup {"dashboard_packs.tf"}, Backend(n), Mode(n), files)

(* _prune_monitors_cross_backend, materialize_monitor_pack,                 *)
(* write_monitor_pack_terraform, _prune_monitors_terraform_outputs          *)
MonitorFiles(c, n, files) ==
  LET root   == RootTf \cup {"monitor_packs.tf"}
      pack   == Packed(c, n, "monitor_pack_source")
      kept   == Without(files, DOMAIN MonitorsTf \ {Backend(n)})
      packed == Add(kept, pack # {}, "pack", [pack |-> pack])
      starter == IF Backend(n) = "datadog" THEN {"monitors.tf"} ELSE {"prometheus_rules.tf"}
      others == UNION {MonitorsTf[x] : x \in DOMAIN MonitorsTf \ {Backend(n)}}
  IN IF Mode(n) = "terraform" /\ pack # {}
       THEN Without(Add(Without(packed, starter), TRUE, "monitor_packs.tf", [pack |-> pack]), others)
     ELSE Without(PruneBackends(MonitorsTf, root, Backend(n), Mode(n), packed),
                  IF Mode(n) = "terraform" THEN {"monitor_packs.tf"} ELSE {})

(* _prune_dashboard_backend_outputs, materialize_dashboard_pack,            *)
(* write_dashboard_pack_terraform, _prune_dashboard_terraform_starter_files *)
DashboardTf == [grafana |-> "dashboard.tf", datadog |-> "datadog_dashboard.tf"]
DashboardFiles(c, n, files) ==
  LET pack   == Packed(c, n, "dashboard_pack_source")
      other  == The(DOMAIN DashboardTf \ {Backend(n)})
      packed == Add(Without(files, {other}), pack # {}, "pack", [pack |-> pack])
  IN IF Mode(n) # "terraform" THEN packed
     ELSE IF pack = {} THEN Without(packed, {DashboardTf[other], "dashboard_packs.tf"})
     ELSE Add(Without(packed, {DashboardTf[x] : x \in DOMAIN DashboardTf}), TRUE,
              "dashboard_packs.tf", [pack |-> pack])

ByBackend(c, b, n, files) ==
  CASE b.name = "dashboards-as-code-generic" -> DashboardFiles(c, n, files)
    [] b.name = "observability-as-code-generic" -> ObservabilityFiles(n, files)
    [] b.name = "monitors-as-code-generic" -> MonitorFiles(c, n, files)
    [] OTHER -> files

-----------------------------------------------------------------------------
(* Ansible patterns, resources, policy packs *)

(* materialize_..._pattern, write_ansible_requirements_yml and its like,    *)
(* finalize_role_pattern_layout                                             *)
Patternised(c, b, n, files) ==
  IF PatternInput(b) = {} THEN files
  ELSE LET input   == The(PatternInput(b))
           pattern == c.patterns[input][The(n[input])]
           whole   == IF pattern.omitsDocker THEN Without(files, {"molecule/default/molecule.yml"}) ELSE files
       IN ("pattern" :> [pattern |-> n[input], read |-> Restrict(n, {"service_name", "role_name"} \cap DOMAIN n)]
            @@ "collections" :> [collections |-> pattern.collections]) @@ whole

(* build_scoped_resources and _write_scoped_resource_files.  A service's    *)
(* scope becomes files only through provider_service_scope.                 *)
ScopedFiles(c, b, n) ==
  IF ~b.partial \/ "provider_service_scope" \notin DOMAIN n THEN {}
  ELSE UNION {{s \o "_" \o r \o ".tf" : r \in ServiceResources(c, n, s)} : s \in Text(n, "provider_services")}
Resourced(c, b, n, files) ==
  [p \in ScopedFiles(c, b, n) |-> [resource |-> p, cloud |-> n["cloud_provider"]]] @@ files

RulesOf(c, family, rules) == {r \in rules : c.rules[r].family = family}
Rest(c, b, rules, family) == RulesOf(c, family, ApplicableRules(c, b.type) \ rules)

(* _copy_named_files, or the whole pack where no rule of it is chosen.      *)
(* c.text is the text of each pack.                                         *)
PackFiles(c, family, dir, rules) ==
  LET files == IF RulesOf(c, family, rules) # {} THEN RulesOf(c, family, rules)
               ELSE RulesOf(c, family, DOMAIN c.rules)
  IN [p \in {dir \o r : r \in files} |-> [file |-> p, pack |-> c.text[family]]]

(* write_policy_selection_file, the copies of packs, the plans to test with *)
Planned == {"terraform-module", "terraform-environment-stack", "observability"}
Policies(c, b, n, on, off, rules) ==
  When(on, [p \in {".repave/policy-selection.json"} |-> [selection |-> Selection(c, b, n)]])
  @@ When(b.type = "opa-policy" /\ Is(n, "plan_demo", "destructive_delete"),
          [p \in {"tests/fixtures"} |-> [plan |-> "destructive-delete"]])
  @@ When("checkov" \in DOMAIN b.packs, [p \in {"policy/checkov"} |-> [pack |-> c.text["checkov"]]])
  @@ When(on /\ "checkov" \in DOMAIN b.packs /\ Rest(c, b, rules, "checkov") # {},
          [p \in {".checkov.yml"} |-> [skips |-> Rest(c, b, rules, "checkov")]])
  @@ When("opa" \in DOMAIN b.packs /\ ~off,
          PackFiles(c, "opa", "policy/opa/", rules)
          @@ When(b.type \in Planned, [p \in {"tests/fixtures"} |-> [plan |-> "create-only"]]))
  @@ When("azure" \in DOMAIN b.packs, PackFiles(c, "azure", "policy/definitions/", rules))
  @@ When("ansible-lint" \in DOMAIN b.packs, [p \in {".ansible-lint"} |-> [pack |-> c.text["ansible-lint"]]])
Policed(c, b, n, files) ==
  IF "_policy_selection" \in DOMAIN n THEN Policies(c, b, n, TRUE, FALSE, EnabledRules(c, b, n)) @@ files
  ELSE Policies(c, b, n, FALSE, PolicyOptional(b), {}) @@ files

-----------------------------------------------------------------------------
(* Documents and workflows *)

Workflow(b) == IF b.type \in {"terraform-module", "terraform-environment-stack"}
               THEN ".github/workflows/terraform-gates.yml" ELSE ".github/workflows/repave-gates.yml"

(* validate_deploy_inputs: what only rendering refuses. *)
Deploys(n) == Is(n, "enable_deploy_pipeline", "true")
DeployHolds(b, n) ==
  Deploys(n) => CASE b.type = "helm-chart"  -> Given(n, "gitops_repo") /\ Given(n, "gitops_engine")
                  [] b.type = "app-service" -> Given(n, "container_registry")
                  [] OTHER -> FALSE

DeployInputs == {"deploy_environment", "gitops_repo", "gitops_engine", "container_registry", "service_name", "chart_name", "runtime"}
DeployWorkflow(n) == [deploy |-> Restrict(n, DeployInputs \cap DOMAIN n)]
GatesWorkflow(c, b) == [gates |-> b.gates, engine |-> c.engine]

(* write_provenance_file, sync_readme_provenance_section, write_ci_workflow, *)
(* write_deploy_workflow                                                     *)
Documented(c, b, n, at, files) ==
  LET d == Document(c, b, n, at)
      readme == IF "README.md" \in DOMAIN files
                  THEN Put(files, "README.md", [text |-> files["README.md"], section |-> Section(d)])
                  ELSE files
      recorded == ("repave.yaml" :> [document |-> d] @@ Workflow(b) :> GatesWorkflow(c, b)) @@ readme
  IN Add(Add(recorded, Deploys(n), ".github/workflows/repave-deploy.yml", DeployWorkflow(n)),
         Deploys(n), "docs/DEPLOY-OIDC.md", DeployWorkflow(n))

(* render_blueprint *)
Render(c, b, n, org, at) ==
  Documented(c, b, n, at,
    Policed(c, b, n, Resourced(c, b, n, Patternised(c, b, n, ByBackend(c, b, n,
      Cataloged(c, b, n, org, FromTemplate(c, b, n)))))))
=============================================================================
