----------------------------- MODULE GoldenPath -----------------------------
(***************************************************************************)
(* What a golden path makes of the inputs it is given, and what it writes  *)
(* down: validation and normalisation of a request's inputs (blueprint.py  *)
(* and the modules it calls), the repave.yaml document (provenance.py) and *)
(* the files of the rendered repository (render.py).                       *)
(*                                                                         *)
(* A value is the set of the items of its comma-separated text, so {} is a *)
(* blank one; a request, like the normalised inputs, is a function from    *)
(* the names of the inputs it gives to values.  A catalog is a record of   *)
(* what the repository root holds at one time: its blueprints, the         *)
(* provider, policy, Ansible and observability catalogs, and the version   *)
(* of the engine.                                                          *)
(***************************************************************************)
EXTENDS Naturals, Sequences, FiniteSets, Functions, TLC

Blank == {}
Text(n, input) == IF input \in DOMAIN n THEN n[input] ELSE Blank
Is(n, input, item) == Text(n, input) = {item}
Given(n, input) == Text(n, input) # Blank
Put(n, input, value) == (input :> value) @@ n

(* An optional thing is a set of at most one. *)
The(set) == CHOOSE x \in set : TRUE
Else(set, x) == IF set = {} THEN x ELSE The(set)

-----------------------------------------------------------------------------
(* Blueprints *)

Field == [required |-> FALSE, default |-> {}, enum |-> {}, multi |-> FALSE, guided |-> {}]

(* load_blueprint: what blueprint.yaml leaves out. *)
LoadBlueprint(file) ==
  LET b == file @@ [type |-> "terraform-module", layout |-> "generic", packs |-> <<>>,
                    partial |-> FALSE, template |-> <<>>]
  IN [b EXCEPT !.inputs = [i \in DOMAIN file.inputs |-> file.inputs[i] @@ Field],
               !.packs = [p \in DOMAIN b.packs |-> Else(b.packs[p], "1.0.0")]]

(* blueprint_dir: the first source that has it.  b.partial says that there  *)
(* is a template for one resource.                                          *)
FirstRoot(c, name) ==
  {r \in DOMAIN c.roots : name \in DOMAIN c.roots[r] /\ \A s \in 1..(r - 1) : name \notin DOMAIN c.roots[s]}
Known(c, name) == FirstRoot(c, name) # {}
Blueprint(c, name) == LoadBlueprint(c.roots[The(FirstRoot(c, name))][name])

Inputs(b) == DOMAIN b.inputs
OfType(b, types) == b.type \in types

-----------------------------------------------------------------------------
(* validate_inputs, stage by stage: each takes the inputs so far *)

(* Absent and blank inputs take the default, if there is one. *)
Filled(b, v) ==
  [i \in {j \in Inputs(b) : j \in DOMAIN v \/ b.inputs[j].default # {}} |->
     IF Given(v, i) THEN v[i] ELSE Else(b.inputs[i].default, Blank)]

EnumsHold(b, n) ==
  \A i \in DOMAIN n : b.inputs[i].enum # {} =>
    /\ n[i] \subseteq b.inputs[i].enum
    /\ IF b.inputs[i].multi THEN b.inputs[i].required => n[i] # Blank ELSE Cardinality(n[i]) = 1

(* _validate_provider_scope and normalize_provider_service_scope.  The item *)
(* "custom S" puts service S in custom mode; the others are resources.      *)
Scopes(b, n) ==
  /\ OfType(b, {"terraform-module"})
  /\ "cloud_provider" \in DOMAIN n
  /\ b.layout = "single-resource" \/ "provider_services" \in DOMAIN n
Custom(service) == "custom " \o service
Scope(n) == Text(n, "provider_service_scope")
Services(c, n) == c.providers[The(n["cloud_provider"])]
ServiceResources(c, n, s) ==
  LET service == Services(c, n)[s]
      picked == Scope(n) \cap service.resources
  IN IF Custom(s) \in Scope(n) THEN picked ELSE service.basic \cup picked

ScopeHolds(c, b, n) ==
  Scopes(b, n) =>
    /\ The(n["cloud_provider"]) \in DOMAIN c.providers
    /\ IF b.layout = "single-resource"
         THEN \E s \in Text(n, "provider_service") \cap DOMAIN Services(c, n) :
                Text(n, "provider_resource") \cap Services(c, n)[s].resources # {}
         ELSE /\ Given(n, "provider_services")
              /\ Text(n, "provider_services") \subseteq DOMAIN Services(c, n)
              /\ \A s \in Text(n, "provider_services") :
                   IF Custom(s) \in Scope(n) THEN ServiceResources(c, n, s) # {}
                   ELSE Services(c, n)[s].basic # {}

Scoped(b, n) ==
  IF ~Scopes(b, n) THEN n
  ELSE IF b.layout # "single-resource"
    THEN ("provider_service_scope" :> Scope(n) @@ "provider_service_scope_summary" :> n["provider_services"] \cup Scope(n)) @@ n
  ELSE ("provider_services" :> n["provider_service"]
         @@ "provider_service_scope" :> ({Custom(The(n["provider_service"]))} \cup n["provider_resource"])
         @@ "provider_service_scope_summary" :> n["provider_resource"]) @@ n

(* _validate_pinned_modules and _validate_pinned_roles.  c.pins says of an  *)
(* entry which module block it is for, and whether it is all there.         *)
PinsHold(c, b, n) ==
  LET modules == Text(n, "pinned_modules")
  IN /\ OfType(b, {"terraform-environment-stack"}) =>
          /\ modules # Blank
          /\ \A m \in modules : c.pins[m].complete
          /\ \A m, o \in modules : c.pins[m].block = c.pins[o].block => m = o
     /\ OfType(b, {"ansible-playbook-project"}) =>
          \A r \in Text(n, "pinned_roles") : c.pins[r].complete

(* ansible_platforms.py *)
LinuxPlatforms == {"EL:9", "Ubuntu:jammy", "Debian:bookworm"}
WindowsPlatform == [generation \in {"2022", "2019"} |-> "Windows:" \o generation]
WindowsPlatforms == {"Windows:2022", "Windows:2019", "Windows:2016"}
GalaxyPlatforms == LinuxPlatforms \cup WindowsPlatforms
                     \cup {"EL:8", "Ubuntu:noble", "Ubuntu:focal", "Debian:bullseye"}
Generation(n) == Else(Text(n, "windows_server_generation"), "2022")
Linux(n) == ~Given(n, "support_linux") \/ Is(n, "support_linux", "true")
Windows(n) == Is(n, "support_windows", "true")
Advanced(n) == Text(n, "target_platforms_advanced")

PlatformsHold(b, n) ==
  OfType(b, {"ansible-role"}) =>
    /\ Advanced(n) \subseteq GalaxyPlatforms
    /\ Advanced(n) = {} => (Linux(n) \/ Windows(n)) /\ (Windows(n) => Generation(n) \in DOMAIN WindowsPlatform)

ResolvePlatforms(n) ==
  IF Advanced(n) # {} THEN Advanced(n)
  ELSE (IF Linux(n) THEN LinuxPlatforms ELSE {})
         \cup (IF Windows(n) THEN {WindowsPlatform[Generation(n)]} ELSE {})

Flag(bool) == IF bool THEN {"true"} ELSE {"false"}
Platformed(b, n) ==
  IF ~OfType(b, {"ansible-role"}) THEN n
  ELSE ("support_linux" :> Flag(Linux(n)) @@ "support_windows" :> Flag(Windows(n))
         @@ "windows_server_generation" :> {Generation(n)} @@ "target_platforms" :> ResolvePlatforms(n)) @@ n

-----------------------------------------------------------------------------
(* policy_selection.py and policy_catalog.py; the gate overrides and the    *)
(* mandatory policy it consults are Gating's.                               *)

PolicyOptional(b) == "enable_policy" \in Inputs(b)
PolicyCustomised(b) == "policy_profile" \in Inputs(b)
PolicyOn(b, n) == PolicyCustomised(b) /\ (PolicyOptional(b) => Is(n, "enable_policy", "true"))

ApplicableRules(c, type) == {r \in DOMAIN c.rules : type \in c.rules[r].types}
Profile(n) == Else(Text(n, "policy_profile"), "estate-default")
PackSource(n) == Else(Text(n, "policy_pack_source"), "repave-default")

EnabledRules(c, b, n) ==
  LET picked == IF Profile(n) = "custom" THEN Text(n, "policy_rules") ELSE c.profiles[Profile(n)]
  IN {r \in ApplicableRules(c, b.type) : r \in picked \/ c.rules[r].required}

PolicyHolds(c, b, n) ==
  PolicyOn(b, n) => /\ PackSource(n) \in c.packSources
                    /\ Profile(n) \in DOMAIN c.profiles
                    /\ Profile(n) = "custom" => EnabledRules(c, b, n) # {}

Selection(c, b, n) ==
  [profile |-> Profile(n), pack |-> PackSource(n), rules |-> EnabledRules(c, b, n),
   versions |-> Restrict(b.packs, DOMAIN b.packs \cap {"checkov", "opa", "azure"})]

(* The "_policy_selection" among the inputs; Selection says what it holds. *)
Selected(b, n) ==
  LET asked == IF PolicyOptional(b) /\ PolicyCustomised(b)
                 THEN Put(n, "enable_policy", Flag(PolicyOn(b, n))) ELSE n
  IN IF PolicyOn(b, n)
       THEN ("_policy_selection" :> {"selection"} @@ "policy_profile" :> {Profile(n)}
              @@ "policy_pack_source" :> {PackSource(n)} @@ "policy_rules" :> Text(n, "policy_rules")) @@ asked
       ELSE asked

-----------------------------------------------------------------------------
(* observability_selection.py, dashboard_pack.py, monitor_pack.py.  c.estate *)
(* is the observability catalog: services, with their organisation, team     *)
(* and runbook; sources, with their targets; packs, with the backends they   *)
(* serve; presets, with the fields people decide; and plain sets.            *)

Observes(b) == OfType(b, {"observability"})
Recommended(n) == ~Given(n, "configuration_mode") \/ Is(n, "configuration_mode", "recommended")

(* effective_catalog_defaults *)
OwnDefaults(c, b) ==
  LET own == {i \in Inputs(b) \cap DOMAIN c.estate.defaults :
                b.inputs[i].default # {} /\ The(b.inputs[i].default) # Blank}
  IN [i \in own |-> The(b.inputs[i].default)] @@ c.estate.defaults
Effective(c, b, v) ==
  LET given == Restrict(v, {i \in DOMAIN v : v[i] # Blank})
      merged == given @@ OwnDefaults(c, b)
      known == Text(merged, "service_name") \cap DOMAIN c.estate.services
      source == Text(merged, "notification_source") \cap DOMAIN c.estate.sources
      owned == IF known = {} THEN merged ELSE c.estate.services[The(known)] @@ merged
  IN IF source = {} \/ Text(owned, "notification_target") \subseteq c.estate.sources[The(source)]
       THEN owned
       ELSE Put(owned, "notification_target", {The(c.estate.sources[The(source)])})

(* apply_recommended_configuration: everything people do not decide. *)
Configured(c, b, v) ==
  IF ~Observes(b) \/ ~Recommended(v) \/ b.name \notin DOMAIN c.estate.presets THEN v
  ELSE Restrict(Effective(c, b, v), (Inputs(b) \ c.estate.presets[b.name]) \cap DOMAIN Effective(c, b, v)) @@ v

(* Absent fields take the estate's default. *)
Chosen(c, b, n, input) ==
  IF input \in DOMAIN n THEN n[input] ELSE Text(OwnDefaults(c, b), input)
Listed(c, b, n, input, allowed) ==
  input \in Inputs(b) => Chosen(c, b, n, input) # Blank /\ Chosen(c, b, n, input) \subseteq allowed

Backends == [name \in {"observability-as-code-generic", "monitors-as-code-generic",
                       "dashboards-as-code-generic"} |->
  CASE name = "observability-as-code-generic" -> {"datadog", "grafana", "prometheus", "otel"}
    [] name = "monitors-as-code-generic" -> {"datadog", "prometheus"}
    [] OTHER -> {"grafana", "datadog"}]

ObservabilityHolds(c, b, n) ==
  LET e == c.estate
      source == Chosen(c, b, n, "notification_source")
      packs == {"dashboard_pack_source", "monitor_pack_source"} \cap Inputs(b)
  IN Observes(b) =>
    /\ Given(n, "configuration_mode") => n["configuration_mode"] \subseteq {"recommended", "custom"}
    /\ Listed(c, b, n, "notification_source", DOMAIN e.sources)
    /\ "notification_source" \in Inputs(b) =>
         Listed(c, b, n, "notification_target", e.sources[The(source)])
    /\ "service_name" \in Inputs(b) =>
         IF Recommended(n) THEN Listed(c, b, n, "service_name", DOMAIN e.services)
                           ELSE Chosen(c, b, n, "service_name") # Blank
    /\ Listed(c, b, n, "organization", DOMAIN e.teams)
    /\ Listed(c, b, n, "team", UNION {e.teams[o] : o \in Chosen(c, b, n, "organization") \cap DOMAIN e.teams})
    /\ Listed(c, b, n, "environment", e.environments)
    /\ Listed(c, b, n, "datasource_uid", e.datasources)
    /\ "runbook_url" \in Inputs(b) => Chosen(c, b, n, "runbook_url") \subseteq e.runbooks
    /\ "slo_target_percent" \in Inputs(b) => Chosen(c, b, n, "slo_target_percent") \subseteq e.slos
    /\ b.name \in DOMAIN Backends /\ (b.name = "monitors-as-code-generic" \/ Is(n, "output_mode", "terraform"))
         => Text(n, "backend") \subseteq Backends[b.name]
    /\ \A p \in packs : /\ Listed(c, b, n, p, DOMAIN e.packs)
                        /\ Text(n, "backend") \subseteq e.packs[The(Chosen(c, b, n, p))]

Observed(c, b, n) ==
  LET fields == {"notification_source", "notification_target", "service_name", "organization", "team",
                 "environment", "datasource_uid", "runbook_url", "slo_target_percent",
                 "dashboard_pack_source", "monitor_pack_source"} \cap Inputs(b)
  IN IF ~Observes(b) THEN n
     ELSE ("configuration_mode" :> (IF Recommended(n) THEN {"recommended"} ELSE {"custom"})
            @@ "notification_provider" :> {"provider"} @@ "notification_target_label" :> {"label"}
            @@ [i \in fields |-> Chosen(c, b, n, i)]) @@ n

-----------------------------------------------------------------------------
(* ansible_pattern.py *)

PatternInputs == {"role_pattern_source", "playbook_pattern_source", "sample_role_pattern_source"}
PatternInput(b) == PatternInputs \cap Inputs(b)

(* _platform_flags: the platforms, where there are any, overrule the flags. *)
OnLinux(n) == IF Given(n, "target_platforms") /\ (n["target_platforms"] \subseteq WindowsPlatforms
                                                    \/ n["target_platforms"] \cap WindowsPlatforms = {})
                THEN n["target_platforms"] \cap WindowsPlatforms = {} ELSE Linux(n)
OnWindows(n) == IF Given(n, "target_platforms") /\ (n["target_platforms"] \subseteq WindowsPlatforms
                                                      \/ n["target_platforms"] \cap WindowsPlatforms = {})
                  THEN n["target_platforms"] \cap WindowsPlatforms # {} ELSE Windows(n)

DefaultPattern(input, n) ==
  IF OnWindows(n) /\ ~OnLinux(n)
    THEN IF input = "playbook_pattern_source" THEN "windows-update-baseline" ELSE "windows-service"
  ELSE IF OnLinux(n)
    THEN IF input = "playbook_pattern_source" THEN "linux-patch-baseline" ELSE "linux-service"
  ELSE "repave-baseline"
Pattern(n, input) == Else(Text(n, input), DefaultPattern(input, n))

Allowed(platform, n) ==
  CASE platform = "any" -> TRUE
    [] platform = "linux" -> OnLinux(n)
    [] platform = "windows" -> OnWindows(n)
    [] platform = "cross" -> OnLinux(n) /\ OnWindows(n)

PatternsHold(c, b, n) ==
  \A input \in PatternInput(b) :
    LET pattern == Pattern(n, input)
    IN /\ pattern \in DOMAIN c.patterns[input]
       /\ Allowed(c.patterns[input][pattern].platform, n)
       /\ pattern = "pinned-roles-rollout" => Given(n, "pinned_roles")

Collections == [role_pattern_source |-> "_role_pattern_requires_collections",
                playbook_pattern_source |-> "_playbook_pattern_requires_collections",
                sample_role_pattern_source |-> "_collection_sample_requires_collections"]
Patterned(c, b, n) ==
  IF PatternInput(b) = {} THEN n
  ELSE LET input == The(PatternInput(b))
           pattern == Pattern(n, input)
           named == IF input # "sample_role_pattern_source" THEN <<>>
                    ELSE [i \in {"sample_role_name", "role_name"} |->
                            IF Given(n, "sample_role_name") THEN n["sample_role_name"] ELSE {"sample"}]
       IN (input :> {pattern} @@ Collections[input] :> c.patterns[input][pattern].collections) @@ named @@ n

-----------------------------------------------------------------------------
(* The rest of validate_inputs *)

(* _validate_gitops_deployment_inputs and its like: an input that must be   *)
(* given once another has some value.                                       *)
Needs(b, n) ==
  (IF b.type = "gitops-deployment" /\ Is(n, "gitops_engine", "flux") THEN {"flux_source_name"} ELSE {})
  \cup (IF b.type = "github-repo" /\ Is(n, "create_mode", "template")
          THEN {"template_owner", "template_repo"} ELSE {})
  \cup (IF b.type = "github-repo" /\ Is(n, "sync_team_membership", "true") /\ Given(n, "team_slugs")
          THEN {"membership_source_team"} ELSE {})
  \cup (IF b.name = "app-service-generic" /\ Is(n, "include_helm_reference", "true")
          THEN {"helm_chart_repo"} ELSE {})
  \cup (IF b.name = "helm-chart-generic" /\ Is(n, "enable_ingress", "true") THEN {"ingress_host"} ELSE {})

(* apply_guided_identity: two passes over the required inputs that are      *)
(* blank, each made of the inputs its template names if all are given.      *)
GuidedPass(b, n) ==
  LET blank == {i \in Inputs(b) : /\ b.inputs[i].guided # {} /\ b.inputs[i].required /\ ~Given(n, i)
                                  /\ \A j \in b.inputs[i].guided : Given(n, j)}
  IN [i \in blank |-> UNION {n[j] : j \in b.inputs[i].guided}] @@ n
Guided(b, n) == GuidedPass(b, GuidedPass(b, n))

Stages(c, b, v) ==
  LET filled == Filled(b, Configured(c, b, v))
      scoped == Platformed(b, Scoped(b, filled))
      chosen == Observed(c, b, Selected(b, scoped))
  IN [filled |-> filled, scoped |-> scoped, chosen |-> chosen]

Accepted(c, b, v) ==
  LET merged == Configured(c, b, v)
      filled == Filled(b, merged)
  IN /\ DOMAIN merged \subseteq Inputs(b)
     /\ EnumsHold(b, filled)
     /\ ScopeHolds(c, b, filled) /\ PinsHold(c, b, filled) /\ PlatformsHold(b, filled)
     /\ LET scoped == Platformed(b, Scoped(b, filled))
        IN /\ PolicyHolds(c, b, scoped)
           /\ ObservabilityHolds(c, b, scoped)
           /\ LET chosen == Observed(c, b, Selected(b, scoped))
              IN /\ PatternsHold(c, b, chosen)
                 /\ \A i \in Needs(b, chosen) : Given(chosen, i)
                 /\ \A i \in Inputs(b) : b.inputs[i].required =>
                      Given(Guided(b, Patterned(c, b, chosen)), i)

Normalised(c, b, v) == Guided(b, Patterned(c, b, Stages(c, b, v).chosen))
=============================================================================
