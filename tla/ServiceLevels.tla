--------------------------- MODULE ServiceLevels ----------------------------
(* What the portal adds to the entities of the catalog and how it groups    *)
(* them: cost and deployment read from outside (catalog_cost.py,            *)
(* catalog_deployment.py, deployment_status.py), maturity levels and        *)
(* initiatives (maturity_rubric.py, initiatives.py,                         *)
(* service_catalog_overlay.py), the library's families and scorecards       *)
(* (entity_catalog.py, portal_context.py) and an entity's documents.        *)
EXTENDS ServiceCatalog

(* The readers answer by the name an entity is displayed under.              *)
Answered(answers, e) == IF e.display \in DOMAIN answers THEN {answers[e.display]} ELSE {}

(* Spending: the answer may state how completely it is tagged.               *)
Actuals(w, e) ==
  IF ~w.reader THEN {} ELSE {IF a = "unsaid" THEN TagCoverage(e.owner) ELSE a : a \in Answered(w.spend, e)}
EnrichWithCost(w, e) ==
  [e EXCEPT !.card = ApplyToScorecard(@, "cost", CostLevel(e.owner, Actuals(w, e), TreeOf(w, e.dir).estimated, w.reader))]

(* The words the generic and the Argo CD readers take for a state.           *)
NormalizeSync(word) ==
  CASE word \in {"synced", "sync", "in_sync"} -> "synced"
    [] word \in {"out_of_sync", "outofsync", "drifted", "not_synced"} -> "out_of_sync"
    [] OTHER -> "unknown"
NormalizeHealth(word) ==
  CASE word \in {"healthy", "ok", "pass", "green", "ready"} -> "healthy"
    [] word \in {"degraded", "unhealthy", "fail", "failed", "error", "red"} -> "degraded"
    [] word \in {"progressing", "pending", "suspending", "reconciling"} -> "progressing"
    [] OTHER -> "unknown"

(* Flux states only whether the resource is ready; the rest is derived.      *)
FluxHealth(ready) ==
  CASE ready = "true" -> "healthy" [] ready = "false" -> "degraded"
    [] ready = "absent" -> "unknown" [] OTHER -> "progressing"
FluxStatus(answer) ==
  LET health == FluxHealth(answer.ready)
  IN [health |-> health,
      sync |-> IF health = "degraded" THEN "out_of_sync"
               ELSE IF health = "healthy" /\ answer.revision THEN "synced" ELSE "unknown"]

UnknownStatus == [sync |-> "unknown", health |-> "unknown"]
DeploymentStatus(w, e) ==
  LET answers == Answered(w.deployments, e)
  IN IF answers = {} THEN UnknownStatus
     ELSE LET answer == CHOOSE a \in answers : TRUE
          IN IF w.deployer = "flux" THEN FluxStatus(answer)
             ELSE [sync |-> NormalizeSync(answer.sync), health |-> NormalizeHealth(answer.health)]

DeploymentLevel(status) ==
  CASE status.health = "degraded" -> "fail"
    [] status.health # "degraded" /\ (status.sync = "out_of_sync" \/ status.health = "progressing") -> "warn"
    [] status.sync = "synced" /\ status.health = "healthy" -> "pass"
    [] OTHER -> "unknown"
EnrichWithDeployment(w, e) ==
  IF w.deployer = "none" THEN e
  ELSE [e EXCEPT !.card = ApplyToScorecard(@, "deployment", DeploymentLevel(DeploymentStatus(w, e)))]

(* Trends: a day's spending is logged once per amount, by entity, and drawn  *)
(* from the latest entries, padded on the left.                              *)
SnapshotsOf(log, id) == SelectSeq(log, LAMBDA s : s.id = id)
CaptureCostSnapshot(log, id, amount, day) ==
  LET known == SnapshotsOf(log, id)
  IN IF known # <<>> /\ known[Len(known)].day = day /\ known[Len(known)].amount = amount THEN log
     ELSE Append(log, [id |-> id, amount |-> amount, day |-> day])
Newest(seq, limit) == SubSeq(seq, Max({0, Len(seq) - limit}) + 1, Len(seq))
Heights(amounts) ==
  LET low == Min(Range(amounts))
      span == Max(Range(amounts)) - low
  IN [i \in DOMAIN amounts |-> IF span = 0 THEN 100 ELSE 14 + (86 * (amounts[i] - low)) \div span]
CostSparkline(log, id, slots) ==
  LET shown == Newest(SnapshotsOf(log, id), slots)
  IN IF shown = <<>> THEN <<>>
     ELSE [i \in 1..(slots - Len(shown)) |-> 0] \o Heights([i \in DOMAIN shown |-> shown[i].amount])

------------------------------------------------------------------------------
(* Maturity: a rubric is a sequence of levels with the rules each requires.  *)
\* for the mutation of the property ReadingsHold
OutcomeRankByLevel == [fail |-> 0, warn |-> 1, unknown |-> 2, pass |-> 3]
OutcomeRank == [fail |-> 0, unknown |-> 1, warn |-> 2, pass |-> 3]

Rule(key, require) == [key |-> key, require |-> require, kind |-> "scorecard"]
Provenanced == {Rule("provenance", "pass")}
Operable == Provenanced \cup {Rule("pins", "pass"), Rule("has_runbook", "pass")}
Reliable == Operable \cup {Rule("has_slo", "pass"), Rule("gates", "pass")}
DefaultRubric ==
  <<[level |-> 1, rules |-> Provenanced], [level |-> 2, rules |-> Provenanced \cup {Rule("pins", "warn")}],
    [level |-> 3, rules |-> Operable], [level |-> 4, rules |-> Reliable],
    [level |-> 5, rules |-> Reliable \cup {Rule("deployment", "pass"), Rule("cost", "warn")}]>>

(* A rubric file replaces it when at least one of its levels is well formed. *)
LoadMaturityRubric(file) ==
  LET kept == SelectSeq(file, LAMBDA l : l.level >= 1 /\ l.rules # {})
  IN IF kept = <<>> THEN DefaultRubric ELSE SortSeq(kept, LAMBDA l, m : l.level < m.level)

Meets(e, rule) ==
  CASE rule.kind = "has_oncall" -> e.oncall
    [] rule.kind = "has_dependencies" -> e.depends # {}
    [] OTHER -> /\ rule.key \in DOMAIN e.card
                /\ OutcomeRank[e.card[rule.key]] >= OutcomeRank[rule.require]

(* The highest level reached without a gap, and the rules it was judged by.  *)
EvaluateMaturity(e, rubric) ==
  LET Reached(i) == \A j \in 1..i : \A rule \in rubric[j].rules : Meets(e, rule)
      reached == {i \in DOMAIN rubric : Reached(i)}
      judged == IF reached = {} THEN 1 ELSE Max(reached)
  IN [level |-> IF reached = {} THEN 0 ELSE rubric[judged].level,
      rules |-> {[key |-> rule.key, passed |-> Meets(e, rule)] : rule \in rubric[judged].rules}]

(* Initiatives: a log whose last line about an identifier counts.            *)
ReadInitiatives(lines) ==
  LET ids == FoldLeft(LAMBDA seen, l : IF Contains(seen, l.id) THEN seen ELSE Append(seen, l.id), <<>>, lines)
  IN [k \in DOMAIN ids |-> lines[Max({i \in DOMAIN lines : lines[i].id = ids[k]})]]
UpsertInitiative(lines, item) ==
  LET now == ReadInitiatives(lines)
  IN IF \E k \in DOMAIN now : now[k].id = item.id
     THEN [k \in DOMAIN now |-> IF now[k].id = item.id THEN item ELSE now[k]] ELSE Append(now, item)
DeactivateInitiative(lines, id) ==
  LET now == ReadInitiatives(lines)
      found == {now[k] : k \in {j \in DOMAIN now : now[j].id = id /\ now[j].active}}
  IN IF found = {} THEN lines
     ELSE UpsertInitiative(lines, [(CHOOSE i \in found : TRUE) EXCEPT !.active = FALSE])

EvaluateInitiative(initiative, maturity) ==
  /\ initiative.level > 0 => maturity.level >= initiative.level
  /\ initiative.keys \subseteq {r.key : r \in {q \in maturity.rules : q.passed}}
  /\ (initiative.level <= 0 /\ initiative.keys = {}) => maturity.level > 0

(* Chips: the active initiatives an entity fails, then those it meets, four. *)
Badges(initiatives, maturity) ==
  LET active == SelectSeq(initiatives, LAMBDA i : i.active)
      failing == SelectSeq(active, LAMBDA i : ~EvaluateInitiative(i, maturity))
      passing == SelectSeq(active, LAMBDA i : EvaluateInitiative(i, maturity))
      Chip(chips, i) == IF Contains(chips, i.title) \/ Len(chips) >= 4 THEN chips ELSE Append(chips, i.title)
  IN FoldLeft(Chip, <<>>, failing \o passing)

InitiativeProgress(initiative, entities, rubric, today) ==
  LET met == {e \in entities : EvaluateInitiative(initiative, EvaluateMaturity(e, rubric))}
  IN [passed |-> Cardinality(met), total |-> Cardinality(entities),
      overdue |-> initiative.due # {} /\ (\A d \in initiative.due : d < today) /\ met # entities]

------------------------------------------------------------------------------
(* Owners: "group:acme/core", "ann@corp", "core".                            *)
Position(seq, word) == {i \in DOMAIN seq : seq[i] = word}
TeamSlug(owner, default) ==
  LET rest == IF owner[1] \in {"group:", "team:", "user:"} THEN Tail(owner) ELSE owner
      slashes == Position(rest, "/")
      slug == CASE rest # owner -> IF slashes = {} THEN rest ELSE SubSeq(rest, Max(slashes) + 1, Len(rest))
                [] rest = owner /\ Position(owner, "@") # {} -> SubSeq(owner, 1, Min(Position(owner, "@")) - 1)
                [] OTHER -> SelectSeq(owner, LAMBDA word : word # "/")
  IN IF owner = <<>> THEN default ELSE IF slug = <<>> THEN default ELSE slug

Mentions(owner, needle) ==
  \E i \in 0..Len(owner) - Len(needle) : SubSeq(owner, i + 1, i + Len(needle)) = needle

Overlay(w, e) ==
  LET tree == TreeOf(w, e.dir)
      patched == [e EXCEPT !.oncall = @ \/ tree.oncall, !.depends = @ \cup tree.depends]
      rubric == LoadMaturityRubric(w.rubric)
      maturity == EvaluateMaturity(patched, rubric)
  IN [entity |-> patched, team |-> TeamSlug(e.owner, w.team), maturity |-> maturity.level,
      badges |-> Badges(ReadInitiatives(w.initiatives), maturity)]

FilterByOwner(items, owner) == {s \in items : Mentions(s.entity.owner, owner)}
FilterByTeam(items, slug) == {s \in items : slug = <<>> \/ s.team = slug \/ Mentions(s.entity.owner, slug)}
FilterForHub(items, needle, team) ==
  {s \in items : \/ Mentions(s.entity.owner, needle) \/ s.team = needle
                 \/ Mentions(TeamSlug(s.entity.owner, team), needle)}
FilterForUser(items, email, team) ==
  LET teams == {s \in items : Mentions(s.entity.owner, team) \/ s.team = team}
      person == SubSeq(email, 1, Min(Position(email, "@") \cup {Len(email) + 1}) - 1)
  IN IF email = <<>> THEN (IF teams = {} THEN items ELSE teams)
     ELSE {s \in items : Mentions(s.entity.owner, person) \/ s.team = person}

EnrichedCatalog(w) ==
  {Overlay(w, EnrichWithDeployment(w, EnrichWithCost(w, e))) : e \in BuildPortalCatalogEntities(w)}

------------------------------------------------------------------------------
(* The library: families of entities, each with the counts of its scorecards. *)
Families == <<"terraform", "ansible", "helm", "gitops", "app", "policy", "observability", "other">>

ArtifactFamily(type) ==
  CASE type = "observability" -> "observability"
    [] type \in {"checkov-policy", "opa-policy", "azure-policy"} -> "policy"
    [] type \in {"terraform-module", "terraform-environment-stack"} -> "terraform"
    [] type \in {"ansible-role", "ansible-collection", "ansible-playbook-project"} -> "ansible"
    [] type = "helm-chart" -> "helm" [] type = "gitops-deployment" -> "gitops"
    [] type = "app-service" -> "app" [] type = "github-repo" -> "platform"
    [] type = "api-contract" -> "api" [] type = "db-migration" -> "data"
    [] OTHER -> type

(* By the type of the entity's blueprint, else by the words of its name.     *)
NamedFamily(e) ==
  LET words == Range(e.blueprint)
  IN CASE "terraform" \in words \/ (e.blueprint # <<>> /\ e.blueprint[1] = "tf") -> "terraform"
       [] "ansible" \in words -> "ansible"
       [] {"opa", "checkov", "policy"} \cap words # {} -> "policy"
       [] {"observability", "monitors", "dashboards"} \cap words # {} -> "observability"
       [] "gitops" \in words -> "gitops"
       [] "helm" \in words -> "helm"
       [] e.type \in {"service", "website", "library"} -> "app"
       [] OTHER -> "other"
InferEntityFamily(e, types) ==
  IF e.blueprint \in DOMAIN types THEN ArtifactFamily(types[e.blueprint]) ELSE NamedFamily(e)

GroupCatalogEntities(entities, types) ==
  LET Of(family) == {e \in entities : InferEntityFamily(e, types) = family}
      shown == SelectSeq(Families, LAMBDA family : Of(family) # {})
  IN [k \in DOMAIN shown |-> [family |-> shown[k], entities |-> Of(shown[k])]]

RollupCell(entities, key) ==
  [l \in Levels |->
     Cardinality({e \in entities : (IF key \in DOMAIN e.card THEN e.card[key] ELSE "unknown") = l})]
WorstLevel(cell) ==
  CASE cell.fail > 0 -> "fail" [] cell.fail = 0 /\ cell.warn > 0 -> "warn"
    [] cell.fail = 0 /\ cell.warn = 0 /\ cell.pass > 0 -> "pass" [] OTHER -> "unknown"
RollupFleetScorecard(entities) ==
  [key \in UNION {DOMAIN e.card : e \in entities} |-> RollupCell(entities, key)]
OverallLevel(rollup) ==
  LET worst == {WorstLevel(rollup[key]) : key \in DOMAIN rollup}
      order == <<"fail", "warn", "unknown", "pass">>
  IN IF worst = {} THEN "unknown" ELSE order[Min({i \in DOMAIN order : order[i] \in worst})]

(* GET /library and GET /api/v2/library; {} stands for an unknown family.    *)
LibraryScope(entities, groups, family) ==
  IF family = "" THEN entities ELSE UNION {g.entities : g \in {x \in Range(groups) : x.family = family}}
LibraryPage(entities, types, family) ==
  LET scoped == LibraryScope(entities, GroupCatalogEntities(entities, types), family)
  IN [count |-> Cardinality(scoped), rollup |-> RollupFleetScorecard(scoped)]
LibraryPayload(entities, types, family) ==
  IF family \notin Range(Families) \cup {""} THEN {} ELSE {LibraryPage(entities, types, family)}

------------------------------------------------------------------------------
(* Documents of an entity: from its checkout, else from GitHub file by file. *)
FirstOf(candidates, files) ==
  LET found == {i \in DOMAIN candidates : candidates[i] \in files}
  IN IF found = {} THEN {} ELSE {candidates[Min(found)]}
ReadEntityDocs(files) ==
  ({"README.md", "repave.yaml"} \cap files) \cup FirstOf(Runbooks, files) \cup FirstOf(Upgrades, files)
FetchRemoteEntityDocs(files, blank) ==
  ReadEntityDocs(files \ blank) \cup ({"catalog-info.yaml"} \cap (files \ blank))
ResolveEntityDocs(w, e, remote, token) ==
  IF e.dir # <<>> THEN ReadEntityDocs(TreeOf(w, e.dir).files)
  ELSE IF e.url # NoUrl /\ token THEN FetchRemoteEntityDocs(remote.files, remote.blank) ELSE {}

------------------------------------------------------------------------------
(* What a rubric promises of an entity. A rubric that is loaded is a ladder: *)
(* its levels ascend from one on, each rule asking for a level of a          *)
(* scorecard, whose dimensions have such levels.                             *)
Ladder(rubric) ==
  /\ Len(rubric) \in Nat \ {0} /\ DOMAIN rubric = 1..Len(rubric)
  /\ \A i \in DOMAIN rubric :
       rubric[i].level \in Nat \ {0} /\ \A rule \in rubric[i].rules : rule.require \in Levels
  /\ \A i, j \in DOMAIN rubric : i < j => rubric[i].level <= rubric[j].level
Scored(e) == \A key \in DOMAIN e.card : e.card[key] \in Levels

LevelOf(e, rubric) == EvaluateMaturity(e, rubric).level
Fulfils(e, stage) == \A rule \in stage.rules : Meets(e, rule)

(* Doing no worse in any dimension never lowers the level.                   *)
NoWorse(e, d) ==
  /\ \A key \in DOMAIN e.card : key \in DOMAIN d.card /\ OutcomeRank[e.card[key]] <= OutcomeRank[d.card[key]]
  /\ (e.oncall => d.oncall) /\ (e.depends # {} => d.depends # {})
NeverLowered(rubric, e, d) == NoWorse(e, d) => LevelOf(e, rubric) <= LevelOf(d, rubric)

(* A level means that its own rules and those of all below are met; whoever  *)
(* meets a level and those before it is not below.                           *)
LevelEarned(rubric, e) ==
  /\ LevelOf(e, rubric) # 0 => \E i \in DOMAIN rubric : rubric[i].level = LevelOf(e, rubric) /\ Fulfils(e, rubric[i])
  /\ \A i \in DOMAIN rubric : rubric[i].level < LevelOf(e, rubric) => Fulfils(e, rubric[i])
  /\ \A i \in DOMAIN rubric : (\A j \in 1..i : Fulfils(e, rubric[j])) => rubric[i].level <= LevelOf(e, rubric)

(* An entity that meets an initiative has its level, and meets a rule of the *)
(* rubric for each of its keys.                                              *)
InitiativeEarned(initiative, rubric, e) ==
  EvaluateInitiative(initiative, EvaluateMaturity(e, rubric)) =>
    /\ \A i \in DOMAIN rubric : rubric[i].level < initiative.level => Fulfils(e, rubric[i])
    /\ \A key \in initiative.keys : \E i \in DOMAIN rubric : \E rule \in rubric[i].rules :
         rule.key = key /\ Meets(e, rule)
=============================================================================
