---------------------------- MODULE MCGoldenPaths ----------------------------
(* GoldenPath, Provenance and Regeneration with the shipped blueprints,    *)
(* cut down to the inputs and files that the code tells apart.             *)
EXTENDS Naturals, Sequences, FiniteSets, TLC

Req == [required |-> TRUE]
Opt(item) == [default |-> {{item}}]
Unset == [default |-> {{}}]
Pick(items, item) == [enum |-> items, default |-> {{item}}]
Must(items, item) == [required |-> TRUE, enum |-> items, default |-> {{item}}]
From(inputs) == [required |-> TRUE, guided |-> inputs]
Flags(item) == Pick({"true", "false"}, item)

Stages == {"dev", "prod"}
Clouds == Must({"aws", "gcp"}, "aws")
PolicyInputs(source, profile) ==
  [policy_pack_source |-> Opt(source), policy_profile |-> Opt(profile), policy_rules |-> Unset @@ [multi |-> TRUE]]
OptionalPolicy == [enable_policy |-> Flags("false")] @@ PolicyInputs("repave-observability-pack", "observability-default")
CatalogInputs == [include_backstage_catalog |-> Flags("false"), owner |-> Req @@ Opt("platform"), system |-> Unset,
                  catalog_lifecycle |-> Pick({"experimental", "production"}, "experimental"), catalog_github_slug |-> Unset]
DeployInputs == [enable_deploy_pipeline |-> Flags("false"), deploy_environment |-> Pick(Stages, "dev")]
AnsibleVersions == Must({"2.18", "2.17"}, "2.18")

Reads(inputs) == [reads |-> inputs, modes |-> {}]
Only(mode, inputs) == [reads |-> inputs, modes |-> {mode}]
Readme(inputs) == [p \in {"README.md"} |-> Reads(inputs)]
Tree(paths, form) == [p \in paths |-> form]

Base == {"secrets", "docs-drift", "provenance-drift"}
Tf == Base \cup {"terraform-fmt", "terraform-validate", "terraform-test", "tflint", "checkov", "opa"}
Default == {}   \* a pack version that blueprint.yaml leaves out
Packs(checkov, opa) == [checkov |-> {checkov}, opa |-> opa]
AnsiblePack == [p \in {"ansible-lint"} |-> Default]

Module == [type |-> "terraform-module", version |-> 1, standard |-> 1, gates |-> Tf, packs |-> Packs("1.2", Default),
  partial |-> TRUE, template |-> Readme({"module_name", "description"})
    @@ Tree({"variables.tf"}, Reads({"cloud_provider", "cost_center", "provider_service_scope_summary"})),
  inputs |-> [module_name |-> From({"provider_services"}), description |-> From({"cloud_provider", "provider_services"}),
    cloud_provider |-> Clouds, provider_services |-> Req, provider_service_scope |-> [multi |-> FALSE],
    cost_center |-> Unset] @@ PolicyInputs("repave-default", "estate-default") @@ CatalogInputs]
Resource == [type |-> "terraform-module", version |-> 1, standard |-> 1, layout |-> "single-resource", gates |-> Tf,
  packs |-> Packs("1.2", Default), template |-> Readme({"module_name", "provider_resource"}),
  inputs |-> [module_name |-> From({"provider_resource"}), description |-> From({"cloud_provider", "provider_service"}),
    cloud_provider |-> Clouds, provider_service |-> Req, provider_resource |-> Req] @@ PolicyInputs("repave-default", "estate-default")]
Stack == [type |-> "terraform-environment-stack", version |-> 1, standard |-> 1, gates |-> Tf, packs |-> Packs("1.2", Default),
  template |-> Readme({"stack_name", "description"}) @@ Tree({"main.tf"}, Reads({"pinned_modules", "environment", "owner"})),
  inputs |-> [stack_name |-> From({"environment", "cloud_provider"}), description |-> From({"environment", "cloud_provider"}),
    cloud_provider |-> Clouds, environment |-> Must(Stages, "dev"), owner |-> Req @@ Opt("platform"),
    pinned_modules |-> Opt("example")] @@ PolicyInputs("repave-default", "estate-default")]
Role == [type |-> "ansible-role", version |-> 1, standard |-> 1, packs |-> AnsiblePack,
  gates |-> Base \cup {"yamllint", "ansible-lint", "ansible-syntax-check", "molecule"},
  template |-> Readme({"role_name", "description"}) @@ Tree({"meta/main.yml"}, Reads({"target_platforms", "min_ansible_version"}))
    @@ Tree({"molecule/default/molecule.yml"}, Reads({"support_linux"})),
  inputs |-> [role_name |-> From({"role_pattern_source"}), namespace |-> Req, description |-> From({"namespace", "role_name"}),
    role_pattern_source |-> Unset, min_ansible_version |-> AnsibleVersions, support_linux |-> Flags("true"),
    support_windows |-> Flags("false"), windows_server_generation |-> Pick({"2022", "2019"}, "2022"),
    target_platforms_advanced |-> Unset @@ [multi |-> TRUE, enum |-> {"EL:9", "Ubuntu:noble", "Windows:2016"}]]]
Playbooks == [type |-> "ansible-playbook-project", version |-> 1, standard |-> 1, packs |-> AnsiblePack,
  gates |-> Base \cup {"yamllint", "ansible-lint", "ansible-syntax-check"},
  template |-> Readme({"project_name"}) @@ Tree({"site.yml"}, Reads({"pinned_roles", "environment"})),
  inputs |-> [project_name |-> Req, description |-> From({"environment", "project_name"}), playbook_pattern_source |-> Unset,
    support_linux |-> Opt("true"), support_windows |-> Opt("false"), min_ansible_version |-> AnsibleVersions,
    environment |-> Must(Stages, "dev"), pinned_roles |-> Unset]]
Collection == [type |-> "ansible-collection", version |-> 1, standard |-> 1, packs |-> AnsiblePack,
  gates |-> Base \cup {"yamllint", "ansible-lint"}, template |-> Readme({"collection_name"}),
  inputs |-> [namespace |-> Req, collection_name |-> Req, description |-> From({"namespace"}), sample_role_name |-> Req @@ Opt("sample"),
    sample_role_pattern_source |-> Unset, support_linux |-> Opt("true"), support_windows |-> Opt("false")]]

Estate == [organization |-> Req, team |-> Req, service_name |-> Req, description |-> Req, environment |-> Opt("prod"),
  configuration_mode |-> Pick({"recommended", "custom"}, "recommended"), output_mode |-> Pick({"native", "terraform"}, "native"),
  notification_source |-> Opt("oncall"), notification_target |-> Opt("primary")]
Observing(backends, gates, template, more) == [type |-> "observability", version |-> 1, standard |-> 1, packs |-> [opa |-> {"1.1"}],
  gates |-> Base \cup {"opa"} \cup gates, template |-> Readme({"service_name", "description"}) @@ template,
  inputs |-> [backend |-> backends] @@ Estate @@ more]
NativeTrees(names) == [p \in names |-> Reads({"service_name", "notification_target", "slo_target_percent"})]
TfTrees(names) == [p \in names |-> Only("terraform", {"service_name", "notification_target"})]
RootTf == {"versions.tf", "variables.tf", "providers.tf"}
Monitoring == Observing(Pick({"prometheus", "grafana", "datadog", "otel"}, "prometheus"), {"promtool"},
  NativeTrees({"prometheus", "grafana", "datadog", "otel"})
    @@ TfTrees({"monitors.tf", "dashboard.tf", "prometheus_rules.tf", "alertmanager.tf", "otel_collector.tf"} \cup RootTf),
  [runbook_url |-> Req, slo_target_percent |-> Unset] @@ OptionalPolicy)
Monitors == Observing(Pick({"datadog", "prometheus"}, "datadog"), {"promtool"}, NativeTrees({"prometheus", "datadog"})
    @@ TfTrees({"monitors.tf", "prometheus_rules.tf", "alertmanager.tf"} \cup RootTf),
  [monitor_pack_source |-> Opt("starter"), runbook_url |-> Req, slo_target_percent |-> Unset] @@ OptionalPolicy)
Dashboards == Observing(Pick({"grafana", "datadog"}, "grafana"), {"grafana-dashboard"}, NativeTrees({"grafana", "datadog"})
    @@ TfTrees({"dashboard.tf", "datadog_dashboard.tf", "dashboard_packs.tf"} \cup RootTf),
  [dashboard_pack_source |-> Opt("starter"), datasource_uid |-> Opt("prometheus"), runbook_url |-> Unset])

Policy(type, gates, packs, source, profile, more) == [type |-> type, version |-> 1, standard |-> 1, gates |-> Base \cup gates,
  packs |-> packs, template |-> Readme({"policy_name", "description"}), inputs |-> [policy_name |-> From({"policy_profile"}),
    organization |-> Req, description |-> From({"organization", "policy_profile"})] @@ more @@ PolicyInputs(source, profile)]
Opa == Policy("opa-policy", {"opa"}, [opa |-> Default], "repave-opa-pack", "opa-focused",
              [plan_demo |-> Pick({"pass", "destructive_delete"}, "pass")])
Azure == Policy("azure-policy", {"azure-policy"}, [azure |-> {"1.1"}], "repave-azure-samples", "azure-community", <<>>)

Chart == [type |-> "helm-chart", version |-> 1, standard |-> 1, packs |-> [opa |-> Default],
  gates |-> Base \cup {"yamllint", "helm-lint", "helm-template", "opa", "actionlint"},
  template |-> Readme({"chart_name", "description"}) @@ Tree({"Chart.yaml", "values.yaml"},
    Reads({"image_repository", "image_tag", "service_type", "service_port", "enable_ingress", "ingress_host", "cost_center"})),
  inputs |-> [chart_name |-> From({"image_repository"}), app_name |-> From({"image_repository"}), description |-> From({"image_repository"}),
    image_repository |-> Req, image_tag |-> Opt("1.0.0"), service_type |-> Pick({"ClusterIP", "NodePort"}, "ClusterIP"),
    service_port |-> Opt("8080"), enable_ingress |-> Flags("false"), ingress_host |-> Unset, cost_center |-> Unset,
    gitops_repo |-> Unset, gitops_engine |-> Pick({"argocd", "flux"}, "argocd")] @@ CatalogInputs @@ DeployInputs]
Service == [type |-> "app-service", version |-> 1, standard |-> 1, packs |-> <<>>,
  gates |-> Base \cup {"dockerfile-lint", "python-lint", "python-test", "actionlint"},
  template |-> Readme({"service_name", "description"}) @@ Tree({"Dockerfile"}, Reads({"runtime", "port"}))
    @@ Tree({"src"}, Reads({"runtime", "layout"})),
  inputs |-> [service_name |-> From({"runtime", "layout"}), description |-> From({"runtime", "layout"}), owner |-> Req,
    port |-> Opt("8080"), runtime |-> Pick({"python", "go"}, "python"), layout |-> Pick({"http-api", "worker"}, "http-api"),
    include_helm_reference |-> Flags("false"), helm_chart_repo |-> Unset, container_registry |-> Unset,
    catalog_github_slug |-> Unset] @@ DeployInputs]
Gitops == [type |-> "gitops-deployment", version |-> 1, standard |-> 1, packs |-> [opa |-> Default],
  gates |-> Base \cup {"yamllint", "opa", "actionlint"}, template |-> Readme({"service_name"})
    @@ Tree({"apps"}, Reads({"service_name", "gitops_engine", "chart_version", "argocd_project", "flux_source_name"})),
  inputs |-> [service_name |-> From({"environment", "chart_name"}), environment |-> Must(Stages, "dev"),
    gitops_engine |-> Must({"argocd", "flux"}, "argocd"), chart_repo_url |-> Req, chart_name |-> Req,
    chart_version |-> Req @@ Opt("0.1.0"), target_namespace |-> Req @@ Opt("default"),
    sync_policy |-> Must({"manual", "automated"}, "manual"), destination_server |-> Opt("cluster"),
    argocd_project |-> Opt("platform"), flux_source_name |-> Unset, flux_source_namespace |-> Opt("flux-system")]]
Repository == [type |-> "github-repo", version |-> 1, standard |-> 1, packs |-> <<>>, gates |-> Base,
  template |-> Readme({"repo_name", "description"}), inputs |-> [repo_name |-> Req, description |-> Unset @@ [guided |-> {"visibility"}],
    create_mode |-> Must({"selection", "template"}, "selection"), visibility |-> Must({"private", "public"}, "private"),
    topics |-> Unset, template_owner |-> Unset, template_repo |-> Unset, team_slugs |-> Unset,
    team_permission |-> Pick({"pull", "push"}, "push"), sync_team_membership |-> Unset, membership_source_team |-> Unset,
    ruleset_profile |-> Pick({"none", "default-pr"}, "none"), default_branch |-> Opt("main")]]
Contract == [type |-> "api-contract", version |-> 1, standard |-> 1, packs |-> <<>>, gates |-> Base \cup {"spectral", "oasdiff"},
  template |-> Readme({"spec_name", "description"}), inputs |-> [spec_name |-> From({"api_title"}), organization |-> Req,
    description |-> From({"organization", "spec_kind", "spec_name"}), spec_kind |-> Pick({"openapi", "asyncapi"}, "openapi"),
    api_title |-> From({"spec_name"}), api_version |-> Opt("0.1.0")]]
Migration == [type |-> "db-migration", version |-> 1, standard |-> 1, packs |-> <<>>, gates |-> Base \cup {"migration-policy", "migration-rollback"},
  template |-> Readme({"service_name", "description"}), inputs |-> [service_name |-> Req, organization |-> Req,
    description |-> From({"organization", "tool"}), tool |-> Pick({"alembic", "flyway"}, "alembic")]]

Named(files) == [name \in DOMAIN files |-> [name |-> name] @@ files[name]]
Shipped == Named(("terraform-module-generic" :> Module) @@ ("terraform-module-resource" :> Resource)
  @@ ("terraform-environment-stack" :> Stack) @@ ("ansible-role-generic" :> Role) @@ ("ansible-playbook-project" :> Playbooks)
  @@ ("ansible-collection-generic" :> Collection) @@ ("observability-as-code-generic" :> Monitoring)
  @@ ("monitors-as-code-generic" :> Monitors) @@ ("dashboards-as-code-generic" :> Dashboards) @@ ("opa-policy-generic" :> Opa)
  @@ ("azure-policy-generic" :> Azure) @@ ("helm-chart-generic" :> Chart) @@ ("app-service-generic" :> Service)
  @@ ("gitops-deployment-generic" :> Gitops) @@ ("github-repo-generic" :> Repository) @@ ("api-contract-generic" :> Contract)
  @@ ("db-migration-generic" :> Migration))

-----------------------------------------------------------------------------
(* The catalogs, now and after a release of the platform.                  *)

PolicyRule(family, types, required) == [family |-> family, types |-> types, required |-> required]
TfTypes == {"terraform-module", "terraform-environment-stack"}
Rules == [ck1 |-> PolicyRule("checkov", TfTypes, TRUE), ck2 |-> PolicyRule("checkov", TfTypes, FALSE),
          ck3 |-> PolicyRule("checkov", TfTypes, FALSE),
          destructive |-> PolicyRule("opa", TfTypes \cup {"opa-policy", "observability"}, TRUE),
          tags |-> PolicyRule("opa", TfTypes \cup {"opa-policy", "observability"}, FALSE),
          native |-> PolicyRule("opa", {"observability"}, FALSE),
          audit |-> PolicyRule("azure", {"azure-policy"}, TRUE), https |-> PolicyRule("azure", {"azure-policy"}, FALSE)]
Profiles == ("estate-default" :> {"ck1", "ck2", "destructive", "tags"}) @@ ("opa-focused" :> {"destructive", "tags", "native"})
  @@ ("azure-community" :> {"audit", "https"}) @@ ("observability-default" :> {"native", "destructive"})
  @@ ("custom" :> {})
AnsiblePattern(platform, collections, omits) == [platform |-> platform, collections |-> collections, omitsDocker |-> omits]
Patterns ==
  [role_pattern_source |-> ("linux-service" :> AnsiblePattern("linux", {"posix"}, FALSE))
      @@ ("windows-service" :> AnsiblePattern("windows", {"windows"}, TRUE))
      @@ ("hardening" :> AnsiblePattern("cross", {"posix", "windows"}, FALSE)) @@ ("repave-baseline" :> AnsiblePattern("any", {}, FALSE)),
   playbook_pattern_source |-> ("linux-patch-baseline" :> AnsiblePattern("linux", {"posix"}, FALSE))
      @@ ("windows-update-baseline" :> AnsiblePattern("windows", {"windows"}, FALSE))
      @@ ("pinned-roles-rollout" :> AnsiblePattern("any", {}, FALSE)) @@ ("repave-baseline" :> AnsiblePattern("any", {}, FALSE)),
   sample_role_pattern_source |-> ("linux-service" :> AnsiblePattern("linux", {"posix"}, FALSE))
      @@ ("windows-service" :> AnsiblePattern("windows", {"windows"}, TRUE))]
CloudService(basic, resources) == [basic |-> basic, resources |-> basic \cup resources]
Providers == [aws |-> [s3 |-> CloudService({"bucket"}, {"acl"}), iam |-> CloudService({"role", "user"}, {})],
              gcp |-> [pubsub |-> CloudService({}, {"topic"}), storage |-> CloudService({"store"}, {})]]
Observability ==
  [defaults |-> [notification_source |-> {"oncall"}, notification_target |-> {"primary"}, organization |-> {"platform"},
     team |-> {"payments"}, service_name |-> {"checkout"}, environment |-> {"prod"}, datasource_uid |-> {"prometheus"},
     runbook_url |-> {"wiki/checkout"}, slo_target_percent |-> {"99.9"}, dashboard_pack_source |-> {"starter"},
     monitor_pack_source |-> {"starter"}],
   services |-> [checkout |-> [organization |-> {"platform"}, team |-> {"payments"}, runbook_url |-> {"wiki/checkout"},
                              description |-> {"cart"}],
                 auth |-> [organization |-> {"platform"}, team |-> {"identity"}, runbook_url |-> {"wiki/auth"},
                          description |-> {"sessions"}]],
   sources |-> [oncall |-> {"primary", "payments"}, slack |-> {"alerts"}],
   teams |-> [platform |-> {"payments", "identity"}, retail |-> {"storefront"}],
   environments |-> {"prod", "dev"}, datasources |-> {"prometheus"}, runbooks |-> {"wiki/checkout", "wiki/auth"},
   slos |-> {"99.9", "99.99"}, presets |-> [n \in {"dashboards-as-code-generic", "monitors-as-code-generic", "observability-as-code-generic"} |->
     {"configuration_mode", "service_name", "backend"} \cup (IF n = "dashboards-as-code-generic" THEN {"dashboard_pack_source"}
        ELSE IF n = "monitors-as-code-generic" THEN {"monitor_pack_source"} ELSE {})],
   packs |-> [starter |-> {"grafana", "datadog", "prometheus"}, exporter |-> {"grafana"}, cpu |-> {"prometheus"}],
   full |-> {"exporter", "cpu"}]

Today == [roots |-> <<Shipped>>, providers |-> Providers, rules |-> Rules, profiles |-> Profiles, patterns |-> Patterns,
  packSources |-> {"repave-default", "repave-opa-pack", "repave-azure-samples", "repave-observability-pack"},
  pins |-> [example |-> [block |-> "net", complete |-> TRUE], db |-> [block |-> "db", complete |-> TRUE],
            net2 |-> [block |-> "net", complete |-> TRUE], half |-> [block |-> "x", complete |-> FALSE]],
  estate |-> Observability, engine |-> 1, text |-> [p \in {"checkov", "opa", "azure", "ansible-lint"} |-> 1]]

(* One pack, one standard, one rule and one blueprint later.               *)
Released == [Shipped EXCEPT !["terraform-module-generic"].packs = Packs("1.3", {"1.1"}), !["terraform-module-generic"].version = 2,
  !["ansible-role-generic"].standard = 2, !["helm-chart-generic"].version = 2]
Tomorrow == [Today EXCEPT !.roots = <<[n \in {"app-service-generic"} |-> [Shipped[n] EXCEPT !.version = 3]], Released>>,
  !.engine = 2, !.rules = [Rules EXCEPT !.ck3.required = TRUE], !.text = [p \in DOMAIN Today.text |-> 2]]

-----------------------------------------------------------------------------
(* Requests *)

Ask(name, given) == [name |-> name, given |-> [i \in DOMAIN given |-> {given[i]}]]
Many(request, more) == [request EXCEPT !.given = more @@ @]
AskModule == Ask("terraform-module-generic", [provider_services |-> "s3"])
AskRole == Ask("ansible-role-generic", [namespace |-> "acme", role_name |-> "web"])
AskPlaybooks == Ask("ansible-playbook-project", [project_name |-> "fleet"])
AskMonitoring == Ask("observability-as-code-generic", [service_name |-> "checkout", description |-> "d"])
AskMonitors == Ask("monitors-as-code-generic", [service_name |-> "auth", description |-> "d"])
AskDashboards == Ask("dashboards-as-code-generic", [service_name |-> "auth", description |-> "d"])
AskChart == Ask("helm-chart-generic", [image_repository |-> "web"])
AskService == Ask("app-service-generic", [owner |-> "team"])
AskGitops == Ask("gitops-deployment-generic", [chart_repo_url |-> "charts", chart_name |-> "web"])
AskRepository == Ask("github-repo-generic", [repo_name |-> "tools"])
AskStack == Ask("terraform-environment-stack", <<>>)
AskOpa == Ask("opa-policy-generic", [organization |-> "acme"])
AskAzure == Ask("azure-policy-generic", [organization |-> "acme"])
Custom(rules) == [policy_profile |-> {"custom"}, policy_rules |-> rules]

MCRequests ==
  {AskModule, Many(AskModule, [provider_services |-> {"s3", "iam"}, cost_center |-> {"cc"}]),
   Many(AskModule, [include_backstage_catalog |-> {"true"}, owner |-> {"team"}]),
   Many(AskModule, [cloud_provider |-> {"gcp"}, provider_services |-> {"pubsub"}]),
   Many(AskModule, [cloud_provider |-> {"gcp"}, provider_services |-> {"pubsub"}, provider_service_scope |-> {"custom pubsub", "topic"}]),
   Many(AskModule, [provider_service_scope |-> {"custom s3", "acl"}]), Many(AskModule, Custom({"ck1", "tags", "https"})),
   Many(AskModule, Custom({"ck3"})),
   Ask("terraform-module-resource", [provider_service |-> "s3", provider_resource |-> "acl"]),
   AskStack, Many(AskStack, [pinned_modules |-> {"example", "db"}]), Many(AskStack, [pinned_modules |-> {"example", "net2"}]),
   Many(AskStack, [pinned_modules |-> {"half"}, environment |-> {"prod"}]), Many(AskStack, Custom({"tags"})),
   AskRole, Many(AskRole, [support_windows |-> {"true"}, windows_server_generation |-> {"2019"}]),
   Many(AskRole, [support_linux |-> {"false"}, support_windows |-> {"true"}]),
   Many(AskRole, [target_platforms_advanced |-> {"EL:9", "Windows:2016"}, support_windows |-> {"true"}, role_pattern_source |-> {"hardening"}]),
   Many(AskRole, [role_pattern_source |-> {"windows-service"}]), Many(AskRole, [role_pattern_source |-> {"repave-baseline"}]),
   AskPlaybooks, Many(AskPlaybooks, [support_linux |-> {"false"}, support_windows |-> {"true"}]),
   Many(AskPlaybooks, [playbook_pattern_source |-> {"pinned-roles-rollout"}]),
   Many(AskPlaybooks, [playbook_pattern_source |-> {"pinned-roles-rollout"}, pinned_roles |-> {"db"}]),
   Ask("ansible-collection-generic", [namespace |-> "acme", collection_name |-> "web"]),
   AskOpa, Many(AskOpa, [plan_demo |-> {"destructive_delete"}] @@ Custom({"tags"})), Many(AskOpa, Custom({"ck1"})),
   AskAzure, Many(AskAzure, Custom({"https"})),
   AskChart, Many(AskChart, [enable_ingress |-> {"true"}]), Many(AskChart, [enable_ingress |-> {"true"}, ingress_host |-> {"h"}]),
   Many(AskChart, [enable_deploy_pipeline |-> {"true"}, gitops_repo |-> {"g"}, service_port |-> {"9090"}]),
   Many(AskChart, [enable_deploy_pipeline |-> {"true"}]), Many(AskChart, [unheard |-> {"x"}]),
   AskService, Many(AskService, [include_helm_reference |-> {"true"}, helm_chart_repo |-> {"c"}, layout |-> {"worker"}]),
   Many(AskService, [include_helm_reference |-> {"true"}]),
   AskGitops, Many(AskGitops, [gitops_engine |-> {"flux"}, flux_source_name |-> {"f"}]), Many(AskGitops, [gitops_engine |-> {"flux"}]),
   AskRepository, Many(AskRepository, [create_mode |-> {"template"}, template_owner |-> {"o"}, template_repo |-> {"r"}]),
   Many(AskRepository, [create_mode |-> {"template"}]),
   Many(AskRepository, [team_slugs |-> {"a"}, sync_team_membership |-> {"true"}, membership_source_team |-> {"b"}, description |-> {"d"}]),
   Ask("api-contract-generic", [organization |-> "acme", spec_name |-> "orders"]),
   Ask("db-migration-generic", [organization |-> "acme", service_name |-> "orders"])}
  \cup {Many(AskMonitoring, [backend |-> {k}, output_mode |-> {m}]) :
          k \in {"prometheus", "grafana", "datadog", "otel"}, m \in {"native", "terraform"}}
  \cup {Many(AskMonitors, [backend |-> {k}, output_mode |-> {m}, monitor_pack_source |-> {p}, enable_policy |-> {e}, configuration_mode |-> {"custom"},
               organization |-> {"platform"}, team |-> {"identity"}, runbook_url |-> {"wiki/auth"}]) :
          k \in {"prometheus", "datadog"}, m \in {"native", "terraform"}, p \in {"starter", "cpu"}, e \in {"true", "false"}}
  \cup {Many(AskDashboards, [backend |-> {k}, output_mode |-> {m}, dashboard_pack_source |-> {p}]) :
          k \in {"grafana", "datadog"}, m \in {"native", "terraform"}, p \in {"starter", "exporter"}}

Paths == INSTANCE Regeneration WITH
  Now <- Today, Later <- Tomorrow, Requests <- MCRequests, Organisation <- {"acme"}
=============================================================================
