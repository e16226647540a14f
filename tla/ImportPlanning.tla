--------------------------- MODULE ImportPlanning ---------------------------
(***************************************************************************)
(* How an import is planned: which files a repository has, by its clone or *)
(* by GitHub's tree of it, which blueprint it resembles, where each file   *)
(* belongs in the layout of that blueprint; and the scan of an             *)
(* organization and the batch of imports that come before and after.       *)
(*                                                                         *)
(* import_rules.py, import_detect.py, github_inventory.py,                 *)
(* org_import_scan.py, repo_import.py.  A path is the sequence of its      *)
(* segments, a glob the set of last segments it takes below a directory.   *)
(***************************************************************************)
EXTENDS Naturals, Sequences, FiniteSets, SequencesExt, FiniteSetsExt

CONSTANTS
  Signals,    \* of each artifact type: globs with a weight, some negative
  RulesOf,    \* import rules of each blueprint
  Family,     \* of each artifact type
  Catalog,    \* blueprints: [name, order of the name, type, canonical, generic]
  Reference,  \* paths that a blueprint renders
  PageSize,   \* 100
  MaxPages,   \* 10
  Nothing

ASSUME PlanningAssumption ==
  /\ PageSize \in Nat \ {0} /\ MaxPages \in Nat \ {0}
  /\ \A b \in Catalog : b.type \in DOMAIN Signals \cap DOMAIN Family /\ b.name \in DOMAIN RulesOf

-----------------------------------------------------------------------------
(* import_rules.py *)

Directory(path) == Front(path)

(* _glob_regex, matches_glob: [dir, deep, names].  dir/** takes dir too.   *)
Matches(path, glob) ==
  \/ /\ IF glob.deep THEN IsPrefix(glob.dir, Directory(path)) ELSE Directory(path) = glob.dir
     /\ glob.names = {} \/ Last(path) \in glob.names
  \/ glob.deep /\ glob.names = {} /\ path = glob.dir

MatchesAny(path, globs) == \E g \in globs : Matches(path, g)

QuarantinePath(path) == <<".repave", "unmapped">> \o path

(* _resolve_destination: an exact path, or a directory for the last segment. *)
ResolveDestination(path, to) == IF to.file THEN to.path ELSE Append(to.path, Last(path))

(* The rules are tried in order. *)
Applies(path, rule) == ~MatchesAny(path, rule.exclude) /\ MatchesAny(path, rule.match)

(* classify_path.  overrides maps paths to "keep", "quarantine" or a path. *)
Classify(path, rules, overrides) ==
  LET rule == SelectInSeq(rules.rules, LAMBDA r : Applies(path, r)) IN
  IF path \in DOMAIN overrides
  THEN CASE overrides[path] = <<"keep">>       -> path
         [] overrides[path] = <<"quarantine">> -> QuarantinePath(path)
         [] OTHER                              -> overrides[path]
  ELSE IF MatchesAny(path, rules.keep) THEN path
  ELSE IF rule = 0 THEN Nothing
  ELSE IF rules.rules[rule].preserve THEN path
  ELSE ResolveDestination(path, rules.rules[rule].to)

(* _classify_sources: what no rule maps stays, or is quarantined. *)
Place(paths, rules, overrides) ==
  [p \in paths |->
     IF Classify(p, rules, overrides) # Nothing THEN Classify(p, rules, overrides)
     ELSE IF rules.quarantine THEN QuarantinePath(p) ELSE p]

Conflicts(place) == \E p, q \in DOMAIN place : p # q /\ place[p] = place[q]

-----------------------------------------------------------------------------
(* import_detect.py *)

Earned(paths, type) ==
  LET hits(negative) == {s \in Signals[type] :
                           s.negative = negative /\ \E p \in paths : Matches(p, s.glob)}
      weight(set) == FoldSet(LAMBDA s, n : n + s.weight, 0, set)
  IN IF weight(hits(TRUE)) > weight(hits(FALSE)) THEN 0 ELSE weight(hits(FALSE)) - weight(hits(TRUE))

Total(type) ==
  LET total == FoldSet(LAMBDA s, n : n + s.weight, 0, {s \in Signals[type] : ~s.negative})
  IN IF total = 0 THEN 1 ELSE total

(* _score_artifact_type and MIN_CONFIDENCE: earned of total weight, in percent. *)
Likely(paths, type) == 100 * Earned(paths, type) >= 15 * Total(type)

Confidence(paths, type) == (1000 * Earned(paths, type)) \div Total(type)

(* rank: confidence, then the blueprint named for its type, then -generic, then the name. *)
Before(paths, a, b) ==
  LET x == Earned(paths, a.type) * Total(b.type)
      y == Earned(paths, b.type) * Total(a.type)
      rank(c) == (IF c.canonical THEN 0 ELSE 2) + (IF c.generic THEN 0 ELSE 1)
  IN \/ x > y
     \/ x = y /\ rank(a) < rank(b)
     \/ x = y /\ rank(a) = rank(b) /\ a.order < b.order

Foremost(candidates, paths) ==
  IF candidates = {} THEN Nothing
  ELSE CHOOSE b \in candidates : \A c \in candidates \ {b} : Before(paths, b, c)

(* detect_blueprint_candidates, best_candidate *)
Best(paths) == Foremost({b \in Catalog : paths # {} /\ Likely(paths, b.type)}, paths)

-----------------------------------------------------------------------------
(* github_inventory.py.  A repository is [governed, files, links, fails],  *)
(* where a link is a symbolic link and fails names the calls that fail.    *)

Raise(error) == [raise |-> error]
Raises(outcome) == "raise" \in DOMAIN outcome

ClonePaths(repo)  == repo.files
(* A link is a blob of the tree like any other. *)
RemotePaths(repo) == repo.files \cup repo.links

(* remote_has_provenance, resolve_ref_sha, inventory_github_paths: a tree  *)
(* that is too large is told from a call that fails.                       *)
RemoteInventory(repo) ==
  CASE "contents" \in repo.fails -> Raise("GitHubInventoryError")
    [] repo.governed             -> Raise("AlreadyGovernedError")
    [] "ref" \in repo.fails      -> Raise("GitHubError")
    [] "large" \in repo.fails    -> Raise("TooLarge")
    [] OTHER                     -> [paths |-> RemotePaths(repo)]

(* list_org_repositories, search_org_repositories over as many repositories *)
(* as there are: the last page is asked for with a smaller per_page, which  *)
(* GitHub counts from the start.                                            *)
Page(total, size, number) ==
  [i \in 1..(IF total <= (number - 1) * size THEN 0
             ELSE IF total < number * size THEN total - (number - 1) * size ELSE size)
     |-> (number - 1) * size + i]

ListRepositories(total, limit) ==
  LET Lesser(a, b) == IF a <= b THEN a ELSE b
      cap == Lesser(limit, MaxPages * PageSize)
      Turn(acc, number) ==
        LET size == Lesser(PageSize, cap - Len(acc.listed))
            page == Page(total, size, number)
        IN IF acc.done THEN acc
           ELSE [listed |-> acc.listed \o page,
                 done   |-> Len(page) < size \/ Len(acc.listed) + Len(page) >= cap]
  IN FoldLeft(Turn, [listed |-> <<>>, done |-> cap = 0], [n \in 1..MaxPages |-> n]).listed

(* resolve_batch_targets *)
ResolveTargets(pasted, found) ==
  FoldLeft(LAMBDA seen, t : IF Contains(seen, t) THEN seen ELSE Append(seen, t),
           <<>>, pasted \o found)

-----------------------------------------------------------------------------
(* org_import_scan.py *)

(* classify_remote_repository: what its try does not catch ends the scan. *)
ClassifyRemote(repo) ==
  LET look == RemoteInventory(repo) IN
  IF ~Raises(look)
  THEN [governed |-> FALSE, error |-> look.paths = {}, top |-> Best(look.paths)]
  ELSE IF look.raise = "AlreadyGovernedError"
  THEN [governed |-> TRUE, error |-> FALSE, top |-> Nothing]
  ELSE IF look.raise = "TooLarge" THEN [governed |-> FALSE, error |-> TRUE, top |-> Nothing]
  ELSE look

(* _matches_scan_filters *)
MatchesFilters(repo, row, families, skipGoverned, confident) ==
  /\ ~(skipGoverned /\ row.governed)
  /\ IF row.error \/ row.top = Nothing THEN families = {}
     ELSE /\ Confidence(RemotePaths(repo), row.top.type) >= confident
          /\ families = {} \/ Family[row.top.type] \in families

(* scan_github_org: the rows, by repository, and whether there may be more. *)
ScanOrganization(estate, order, limit, families, skipGoverned, confident) ==
  LET listed == ListRepositories(Len(order), limit)
      row(i) == ClassifyRemote(estate[order[i]])
  IN IF \E i \in ToSet(listed) : Raises(row(i)) THEN Raise("GitHubError")
     ELSE [rows |-> {order[i] : i \in {j \in ToSet(listed) :
                       MatchesFilters(estate[order[j]], row(j), families, skipGoverned, confident)}},
           listed |-> listed, truncated |-> Len(listed) >= limit]

(* target_blueprints_from_org_scan *)
TargetBlueprints(estate, scan) ==
  [t \in {u \in scan.rows : ClassifyRemote(estate[u]).top # Nothing} |->
     ClassifyRemote(estate[t]).top.name]

-----------------------------------------------------------------------------
(* Plans *)

BlueprintNamed(name) == CHOOSE b \in Catalog : b.name = name

(* resolve_import_blueprint *)
ResolveBlueprint(paths, name) ==
  IF name = Nothing THEN Best(paths)
  ELSE IF \A b \in Catalog : b.name # name THEN Nothing
  ELSE BlueprintNamed(name)

Arranged(paths, blueprint, place) ==
  [blueprint |-> blueprint.name, place |-> place, ok |-> ~Conflicts(place),
   noop |-> /\ Reference[blueprint.name] \subseteq {place[p] : p \in paths}
            /\ \A p \in paths : place[p] = p]

PlanFor(paths, blueprint, overrides) ==
  IF paths = {} \/ blueprint = Nothing THEN Raise("RepoImportError")
  ELSE Arranged(paths, blueprint, Place(paths, RulesOf[blueprint.name], overrides))

(* build_import_plan *)
BuildPlan(paths, name, overrides) == PlanFor(paths, ResolveBlueprint(paths, name), overrides)

PlanClone(repo, name, overrides) ==
  IF "clone" \in repo.fails THEN Raise("RepoImportError")
  ELSE IF repo.governed THEN Raise("AlreadyGovernedError")
  ELSE BuildPlan(ClonePaths(repo), name, overrides)

PlanRemote(repo, name, overrides) ==
  IF Raises(RemoteInventory(repo)) THEN RemoteInventory(repo)
  ELSE IF "texts" \in repo.fails THEN Raise("GitHubError")
  ELSE BuildPlan(RemotePaths(repo), name, overrides)

OrClone(remote, repo, name, overrides) ==
  IF Raises(remote) /\ remote.raise \in {"TooLarge", "RepoImportError"}
  THEN PlanClone(repo, name, overrides) ELSE remote

(* plan_import_remote, after which plan_import clones on a RepoImportError. *)
PlanImportOf(repo, name, overrides) ==
  OrClone(PlanRemote(repo, name, overrides), repo, name, overrides)

(* _detect_candidates_for_target *)
DetectFor(repo) ==
  LET look == RemoteInventory(repo) IN
  IF ~Raises(look) THEN [top |-> Best(look.paths)]
  ELSE IF look.raise = "GitHubError" THEN look
  ELSE IF repo.governed \/ "clone" \in repo.fails THEN [top |-> Nothing]
  ELSE [top |-> Best(ClonePaths(repo))]

(* resolve_batch_target_blueprint: for all, for this one, for its family.  *)
ChosenBlueprint(target, top, choice) ==
  IF choice.name # Nothing THEN choice.name
  ELSE IF target \in DOMAIN choice.targets THEN choice.targets[target]
  ELSE IF top # Nothing /\ Family[top.type] \in DOMAIN choice.families
  THEN choice.families[Family[top.type]]
  ELSE Nothing

PlanFound(target, repo, found, choice) ==
  IF Raises(found) THEN found
  ELSE PlanImportOf(repo, ChosenBlueprint(target, found.top, choice), choice.overrides)

PlanTarget(target, repo, choice) == PlanFound(target, repo, DetectFor(repo), choice)

Gathered(targets, plan) ==
  IF \E t \in ToSet(targets) :
       Raises(plan[t]) /\ plan[t].raise \in {"GitHubError", "GitHubInventoryError"}
  THEN Raise("GitHubError")
  ELSE [items    |-> SelectSeq(targets, LAMBDA t : ~Raises(plan[t])),
        failures |-> SelectSeq(targets, LAMBDA t : Raises(plan[t])),
        plan     |-> plan]

(* plan_import_batch, which goes on after a RepoImportError and no other.  *)
PlanBatch(estate, targets, choice) ==
  Gathered(targets, [t \in ToSet(targets) |-> PlanTarget(t, estate[t], choice)])

PublishedPlan(plan, again) ==
  IF ~plan.ok \/ plan.noop \/ Raises(again) THEN Nothing
  ELSE IF ~again.ok \/ again.noop THEN Nothing ELSE again

(* Mutant: the blueprint is detected again from the clone. *)
PublishedAnew(estate, plan, target, overrides) ==
  PublishedPlan(plan, PlanClone(estate[target], Nothing, overrides))

(* import_repository_batch, for one item: planned again from a clone. *)
Published(estate, plan, target, overrides) ==
  PublishedPlan(plan, PlanClone(estate[target], plan.blueprint, overrides))

-----------------------------------------------------------------------------
(* What is asked of it *)

CONSTANTS
  SomePaths, SomeEstates, SomeOrders, SomeChoices, SomeTotals, SomeLimits   \* bounds of the check

(* A second import of what an import arranged moves nothing, unless a file *)
(* ended in a place of which another rule thinks otherwise.                *)
Settled(rules) ==
  \A p \in SomePaths :
    LET to == Classify(p, rules, <<>>) IN to # Nothing => Classify(to, rules, <<>>) = to

PlacesAreStable == \A b \in Catalog : Settled(RulesOf[b.name])

(* Within the listing's cap a scan that does not say it was truncated saw  *)
(* every repository; nothing is listed twice or left out before the limit  *)
(* if the limit is a number of full pages or less than one.                *)
ListsWhatThereIs(total, limit) ==
  LET listed == ListRepositories(total, limit)
      prefix == [i \in 1..(IF limit <= total THEN limit ELSE total) |-> i]
  IN limit <= MaxPages * PageSize =>
       /\ Len(listed) < limit => ToSet(listed) = 1..total
       /\ limit <= PageSize \/ limit % PageSize = 0 => listed = prefix

(* The batch that follows a scan with the blueprints the scan showed.      *)
PlansAsShown(batch, shown) ==
  ~Raises(batch) =>
    \A t \in ToSet(batch.items) : t \in DOMAIN shown => batch.plan[t].blueprint = shown[t]

BatchShown(estate, targets, shown) ==
  PlansAsShown(PlanBatch(estate, targets, [name |-> Nothing, targets |-> shown,
                                           families |-> <<>>, overrides |-> <<>>]), shown)

FollowsScan(estate, order, scan) ==
  ~Raises(scan) => BatchShown(estate, SelectSeq(order, LAMBDA t : t \in scan.rows),
                              TargetBlueprints(estate, scan))

(* A batch plans or fails each target once and never plans a governed one; *)
(* what is published is what was shown, but for links; and it only stops   *)
(* on an error of GitHub's.                                                *)
PublishesAsPlanned(repo, plan, done) ==
  done # Nothing => /\ done.blueprint = plan.blueprint
                    /\ \A p \in repo.files : done.place[p] = plan.place[p]

BatchHolds(estate, targets, choice, batch) ==
  IF Raises(batch) THEN \E i \in DOMAIN targets :
                          estate[targets[i]].fails \cap {"contents", "ref", "texts"} # {}
  ELSE /\ Len(batch.items) + Len(batch.failures) = Len(targets)
       /\ \A t \in ToSet(batch.items) :
            /\ ~estate[t].governed
            /\ choice.name # Nothing => batch.plan[t].blueprint = choice.name
            /\ PublishesAsPlanned(estate[t], batch.plan[t],
                                  Published(estate, batch.plan[t], t, choice.overrides))

BatchesAccountForAll ==
  /\ \A total \in SomeTotals, limit \in SomeLimits : ListsWhatThereIs(total, limit)
  /\ \A estate \in SomeEstates, order \in SomeOrders :
       /\ \A choice \in SomeChoices :
            BatchHolds(estate, order, choice,
                       PlanBatch(estate, ResolveTargets(order, order), choice))
       /\ \A families \in {{}, {"terraform"}}, skip \in BOOLEAN :
            FollowsScan(estate, order, ScanOrganization(estate, order, PageSize, families, skip, 0))
=============================================================================
