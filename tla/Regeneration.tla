---------------------------- MODULE Regeneration ----------------------------
(***************************************************************************)
(* What becomes of a rendered repository later: its inputs are read back   *)
(* from repave.yaml (provenance_inputs.py) to plan and apply an upgrade    *)
(* (upgrade_plan.py), its pins are compared with the catalog's             *)
(* (standards_diff.py, verify.py), and components are added to it          *)
(* (repo_add.py, provenance_components.py).                                *)
(*                                                                         *)
(* A repository is a function from paths to what their files say.  An      *)
(* operation that may refuse returns the set of its one result, or {}.     *)
(***************************************************************************)
EXTENDS Provenance

CONSTANTS
  Now, Later,     \* the catalog when a repository is rendered, and when it is upgraded
  Requests,       \* a request names a blueprint and gives inputs
  Organisation    \* the organization that is published to

DocumentOf(repo) == repo["repave.yaml"].document

-----------------------------------------------------------------------------
(* provenance_inputs.py *)

(* What a document records and inputs_from_provenance leaves there.        *)
NotRead(type) ==
  CASE type = "app-service" -> {"layout"}
    [] type = "observability" -> {"monitor_pack_source", "configuration_mode"}
    [] type = "ansible-role" -> {"role_pattern_source", "_role_pattern_requires_collections", "target_platforms"}
    [] type = "ansible-playbook-project" -> {"playbook_pattern_source", "_playbook_pattern_requires_collections"}
    [] OTHER -> {}

(* Inputs that are returned only if the document has them. *)
IfRecorded == {"min_ansible_version", "provider_service", "provider_resource", "ingress_host", "helm_chart_repo",
               "destination_server", "argocd_project", "flux_source_name", "flux_source_namespace"}
ReadKeys(d) ==
  (TypedInputs(d.type) \ (NotRead(d.type) \cup IfRecorded)) \cup (IfRecorded \cap DOMAIN d.typed)

(* infer_platform_form_values *)
InferPlatforms(platforms) ==
  LET form(linux, windows, generation, advanced) ==
        [support_linux |-> Flag(linux), support_windows |-> Flag(windows),
         windows_server_generation |-> {generation}, target_platforms_advanced |-> advanced]
      windows(g) == platforms \ LinuxPlatforms = {WindowsPlatform[g]}
      one == {g \in DOMAIN WindowsPlatform : windows(g) /\ platforms \cap LinuxPlatforms \in {{}, LinuxPlatforms}}
  IN IF platforms \in {{}, LinuxPlatforms} THEN form(TRUE, FALSE, "2022", {})
     ELSE IF one # {} THEN form(LinuxPlatforms \subseteq platforms, TRUE, The(one), {})
     ELSE form(TRUE, FALSE, "2022", platforms)

(* _apply_policy_from_spec *)
ReadProfile(d) ==   \* mutant: the profile without its rules
  IF d.policy = {} THEN [policy_profile |-> {"estate-default"}, policy_pack_source |-> {"repave-default"}]
  ELSE [policy_profile |-> {The(d.policy).profile}, policy_pack_source |-> {The(d.policy).pack}]

Governed == {"terraform-module", "terraform-environment-stack", "opa-policy", "azure-policy", "checkov-policy"}
ReadPolicy(d) ==
  ReadProfile(d) @@ (IF d.policy = {} \/ The(d.policy).rules = {} THEN <<>>
                     ELSE [policy_rules |-> The(d.policy).rules])

(* inputs_from_provenance *)
InputsFromProvenance(d) ==
  IF d.type = "ansible-collection" \/ (d.type = "terraform-environment-stack" /\ ~Given(d.typed, "pinned_modules"))
    THEN {}
  ELSE {[i \in ReadKeys(d) |-> Text(d.typed, i)]
          @@ (IF d.type \in Governed THEN ReadPolicy(d) ELSE <<>>)
          @@ (IF d.type = "ansible-role" THEN InferPlatforms(Text(d.typed, "target_platforms")) ELSE <<>>)
          @@ [description |-> {"Repave upgrade plan"}]}

-----------------------------------------------------------------------------
(* standards_diff.py and policy_selection.py: what differs *)

(* diff_observed_vs_catalog_pins.  The block of Azure definitions is sought *)
(* under other names than it is written.                                    *)
PinRead(d, pack) == IF pack \in DOMAIN d.packs \ {"azure"} THEN {d.packs[pack]} ELSE {}
PinChanges(d, b) ==
  (IF d.name # b.name THEN {"name"} ELSE {})
  \cup (IF d.version # b.version THEN {"version"} ELSE {})
  \cup (IF d.standard # b.standard THEN {"standard"} ELSE {})
  \cup (IF d.governance # {Governance} THEN {"governance"} ELSE {})
  \cup {pack \in DOMAIN b.packs : PinRead(d, pack) # {b.packs[pack]}}

(* diff_policy_provenance *)
NothingSelected == [profile |-> "", pack |-> "", rules |-> {}, versions |-> <<>>]
DiffPolicy(before, after) ==
  (IF before.profile # after.profile THEN {<<"profile", after.profile>>} ELSE {})
  \cup {<<"enabled", r>> : r \in after.rules \ before.rules}
  \cup {<<"disabled", r>> : r \in before.rules \ after.rules}
  \cup {<<"version", pack>> : pack \in {p \in DOMAIN before.versions \cup DOMAIN after.versions :
         Restrict(before.versions, {p}) # Restrict(after.versions, {p})}}

-----------------------------------------------------------------------------
(* upgrade_plan.py *)

Diff(repo, rendered) ==
  [added    |-> DOMAIN rendered \ DOMAIN repo,
   removed  |-> DOMAIN repo \ DOMAIN rendered,
   modified |-> {p \in DOMAIN repo \cap DOMAIN rendered : repo[p] # rendered[p]}]

(* validate_inputs and render_blueprint, one after the other: the files.    *)
Rendered(c, b, v, org, at) ==
  IF ~Accepted(c, b, v) THEN {}
  ELSE {Render(c, b, n, org, at) : n \in {m \in {Normalised(c, b, v)} : DeployHolds(b, m)}}

(* _render_upgrade_staging, plan_upgrade *)
PlanOf(d, b, repo, rendered) ==
  [rendered |-> rendered, diff |-> Diff(repo, rendered), pins |-> PinChanges(d, b),
   policy |-> DiffPolicy(Else(d.policy, NothingSelected), Else(DocumentOf(rendered).policy, NothingSelected))]

PlanUpgrade(c, repo, name, at) ==
  IF ~Known(c, name) THEN {}
  ELSE UNION {{PlanOf(DocumentOf(repo), Blueprint(c, name), repo, rendered) :
                 rendered \in Rendered(c, Blueprint(c, name), v, Blank, at)} :
              v \in InputsFromProvenance(DocumentOf(repo))}

(* _apply_render_to_target, with or without preserve_local.                 *)
Staged(path) == ".repave/upgrade-staging/" \o path
Apply(repo, plan, preserve) ==
  IF ~preserve THEN plan.rendered
  ELSE LET kept  == plan.diff.modified
           hints == {Staged(p) : p \in kept}
       IN [h \in hints |-> plan.rendered[CHOOSE p \in kept : Staged(p) = h]]
            @@ Restrict(repo, kept) @@ plan.rendered

-----------------------------------------------------------------------------
(* provenance_components.py, repo_add.py, verify.py *)

(* build_component_record and component_doc_for_inputs: a component's       *)
(* record, read as a document, has neither governance nor packs.            *)
ComponentDocument(d) == [d EXCEPT !.governance = {}, !.packs = <<>>]
Components(d) == {d.components[i] : i \in DOMAIN d.components}
BlueprintNames(d) == {d.name} \cup {x.name : x \in Components(d)}

(* append_component_to_document *)
AppendComponent(d, component) ==
  [d EXCEPT !.components = Append(@, ComponentDocument(component)), !.gates = @ \cup component.gates]

(* infer_import_values, infer_add_values.  What is given goes before, and    *)
(* with it comes what the .tf files of the repository tell.  The hints of    *)
(* an application service only reach inputs that would not be seeded here.   *)
NameInputs == {"module_name", "role_name", "collection_name", "project_name", "stack_name", "chart_name",
               "service_name", "policy_name"}
InferAddValues(b, v) ==
  Restrict(v, {i \in DOMAIN v : v[i] # Blank})
  @@ [i \in {j \in Inputs(b) : j \in NameInputs \cup {"description", "namespace"} \/ b.inputs[j].default # {}
                                 \/ b.inputs[j].enum # {} \/ b.inputs[j].required} |->
        CASE i \in NameInputs -> {"repository"}
          [] i = "description" -> {"Imported"}
          [] i = "namespace" -> {"acme"}
          [] b.inputs[i].default # {} -> The(b.inputs[i].default)
          [] b.inputs[i].enum # {} -> {The(b.inputs[i].enum)}
          [] OTHER -> {"repository"}]

Shared == {"README.md", "RUNBOOK.md", ".yamllint", ".github/workflows/repave-gates.yml"}

(* build_add_plan *)
AddOf(repo, n, staged, force) ==
  LET paths   == DOMAIN staged \ ({"repave.yaml"} \cup (Shared \cap DOMAIN repo))
      differs == {p \in paths \cap DOMAIN repo : repo[p] # staged[p]}
  IN [values |-> n, record |-> DocumentOf(staged), added |-> paths \ DOMAIN repo,
      overwritten |-> IF force THEN differs ELSE {}, conflicts |-> IF force THEN {} ELSE differs]

BuildAddPlan(c, repo, name, v, force, at) ==
  IF ~Known(c, name) \/ name \in BlueprintNames(DocumentOf(repo)) THEN {}
  ELSE {AddOf(repo, Normalised(c, Blueprint(c, name), InferAddValues(Blueprint(c, name), v)), staged, force) :
          staged \in Rendered(c, Blueprint(c, name), InferAddValues(Blueprint(c, name), v), Blank, at)}

(* apply_add validates the normalised inputs again, and renders again.      *)
AddTo(repo, plan, rendered) ==
  Put(Restrict(rendered, (plan.added \cup plan.overwritten) \cap DOMAIN rendered) @@ repo,
      "repave.yaml", [document |-> AppendComponent(DocumentOf(repo), plan.record)])
ApplyAdd(c, repo, plan, name, at) ==
  IF plan.conflicts # {} THEN {}
  ELSE {AddTo(repo, plan, rendered) : rendered \in Rendered(c, Blueprint(c, name), plan.values, Blank, at)}

(* verify_repository: the gates of the document, the pins of each part.     *)
Verified(c, repo) ==
  LET d == DocumentOf(repo)
  IN [gates |-> IF d.gates = {} THEN Blueprint(c, d.name).gates ELSE d.gates,
      pins  |-> PinChanges(d, Blueprint(c, d.name)),
      parts |-> [i \in {j \in DOMAIN d.components : Known(c, d.components[j].name)} |->
                   PinChanges(d.components[i], Blueprint(c, d.components[i].name))]]

-----------------------------------------------------------------------------
(* Properties, of every repository that a request makes                    *)

RepositoriesOf(q) ==
  {[name |-> q.name, repo |-> repo] :
     repo \in IF Known(Now, q.name) THEN Rendered(Now, Blueprint(Now, q.name), q.given, Organisation, 1) ELSE {}}
Repositories == UNION {RepositoriesOf(q) : q \in Requests}

(* What is read back is enough to render the repository again, but for the *)
(* types whose inputs are not all read, or not under their own names, and  *)
(* for a module of services without basic resources, whose scope is not    *)
(* recorded.                                                               *)
Renderable(c, b, d) ==
  /\ b.type \notin {"ansible-collection", "observability", "gitops-deployment"}
  /\ b.layout # "single-resource"
  /\ b.type = "terraform-module" => \A s \in d.typed["provider_services"] : Services(c, d.typed)[s].basic # {}
UpgradesAreKnown(x, c) ==
  PlanUpgrade(c, x.repo, x.name, 2) # {} <=> Renderable(c, Blueprint(c, x.name), DocumentOf(x.repo))

(* An upgrade settles: planned again with the same catalog it changes only *)
(* when it was made, no rule, and no pin but those the record leaves out.  *)
Unrecorded(b) ==
  CASE b.type = "azure-policy" -> {"azure"}
    [] b.type \in {"observability", "helm-chart", "gitops-deployment"} -> DOMAIN b.packs
    [] OTHER -> {}
Settled(plan, b) ==
  /\ plan.diff.added = {} /\ plan.diff.removed = {} /\ plan.diff.modified \subseteq {"repave.yaml", "README.md"}
  /\ plan.policy = {} /\ plan.pins = Unrecorded(b)
UpgradesSettle(x, c) ==
  \A first \in PlanUpgrade(c, x.repo, x.name, 2) :
    \E second \in PlanUpgrade(c, Apply(x.repo, first, FALSE), x.name, 3) : Settled(second, Blueprint(c, x.name))

(* An upgrade keeps what is recorded and read: every other input of the    *)
(* record is at its default, and a chosen set of rules only grows by the   *)
(* rules that became required.                                             *)
KeepsInputs(before, after) ==
  /\ \A i \in ReadKeys(before) \cap DOMAIN before.typed : after.typed[i] = before.typed[i]
  /\ \A s \in before.policy : \E t \in after.policy : t.profile = s.profile /\ t.pack = s.pack
KeepsRules(c, before, after) ==
  \A s \in before.policy : s.profile = "custom" =>
    The(after.policy).rules = ApplicableRules(c, before.type) \cap (s.rules \cup {r \in DOMAIN c.rules : c.rules[r].required})
InputsAreKept(x, c) ==
  \A plan \in PlanUpgrade(c, x.repo, x.name, 2) :
    /\ KeepsInputs(DocumentOf(x.repo), DocumentOf(plan.rendered))
    /\ KeepsRules(c, DocumentOf(x.repo), DocumentOf(plan.rendered))

(* With preserve_local every file that differs stays and its new text is   *)
(* put beside it, but a file that people added goes, and as the record     *)
(* itself always differs the pins stay where they were.                    *)
Edited(repo, path) == Put(Put(repo, path, [edited |-> TRUE]), "notes", [edited |-> TRUE])
PreservesChanges(before, plan, after) ==
  /\ \A p \in plan.diff.modified : after[p] = before[p] /\ after[Staged(p)] = plan.rendered[p]
  /\ \A p \in DOMAIN plan.rendered \ plan.diff.modified : after[p] = plan.rendered[p]
  /\ "notes" \notin DOMAIN after
  /\ DocumentOf(after) = DocumentOf(before)
ChangesArePreserved(x, c) ==
  \A plan \in PlanUpgrade(c, Edited(x.repo, "README.md"), x.name, 2) :
    PreservesChanges(Edited(x.repo, "README.md"), plan, Apply(Edited(x.repo, "README.md"), plan, TRUE))

(* A repository just rendered is at the versions of its catalog, but for   *)
(* the packs its record leaves out, and is asked the gates of its type.    *)
FreshOnesVerify(x) ==
  LET found == Verified(Now, x.repo)
  IN found.pins = Unrecorded(Blueprint(Now, x.name)) /\ found.gates = Blueprint(Now, x.name).gates

(* Only the files of the chosen backend are rendered. *)
ForBackend ==
  [grafana    |-> {"grafana", "dashboard.tf"},
   datadog    |-> {"datadog", "monitors.tf", "datadog_dashboard.tf"},
   prometheus |-> {"prometheus", "prometheus_rules.tf", "alertmanager.tf"},
   otel       |-> {"otel", "otel_collector.tf"}]
OneBackend(x) ==
  DocumentOf(x.repo).type = "observability" =>
    LET backend == The(DocumentOf(x.repo).typed["backend"])
    IN DOMAIN x.repo \cap UNION {ForBackend[k] : k \in DOMAIN ForBackend} \subseteq ForBackend[backend]

(* Adding a component changes no file that is there, unless it is forced,  *)
(* but for the record; it goes through for the types whose inputs nothing  *)
(* is derived from; and it is refused a second time.  The next upgrade is  *)
(* that of the repository as it was, and takes the component away again.   *)
Underived == {"helm-chart", "app-service", "gitops-deployment", "github-repo", "api-contract", "db-migration"}
Untouched(before, after, but) == Restrict(after, DOMAIN before \ but) = Restrict(before, DOMAIN before \ but)
AddsOnly(x, q, plan, after) ==
  /\ Untouched(x.repo, after, plan.overwritten \cup {"repave.yaml"})
  /\ DocumentOf(after).gates = DocumentOf(x.repo).gates \cup Blueprint(Now, q.name).gates
  /\ Verified(Now, after).pins = Verified(Now, x.repo).pins
  /\ "governance" \in Verified(Now, after).parts[1]
  /\ BuildAddPlan(Now, after, q.name, q.given, TRUE, 2) = {}
  /\ \A old \in PlanUpgrade(Later, x.repo, x.name, 3) : \E new \in PlanUpgrade(Later, after, x.name, 3) :
       new.rendered = old.rendered /\ plan.added \subseteq DOMAIN old.rendered \cup new.diff.removed
AddsAreKnown(x, q, force) ==
  \A plan \in BuildAddPlan(Now, x.repo, q.name, q.given, force, 2) :
    /\ plan.conflicts \cap Shared = {}
    /\ ApplyAdd(Now, x.repo, plan, q.name, 2) # {} <=>
         plan.conflicts = {} /\ Blueprint(Now, q.name).type \in Underived
    /\ \A after \in ApplyAdd(Now, x.repo, plan, q.name, 2) : AddsOnly(x, q, plan, after)

RepositoriesHold ==
  \A x \in Repositories :
    /\ FreshOnesVerify(x) /\ OneBackend(x)
    /\ \A c \in {Now, Later} : /\ UpgradesAreKnown(x, c) /\ UpgradesSettle(x, c)
                               /\ InputsAreKept(x, c) /\ ChangesArePreserved(x, c)
    /\ \A q \in Requests, force \in BOOLEAN : AddsAreKnown(x, q, force)
=============================================================================
