----------------------------- MODULE Provisioning -----------------------------
(***************************************************************************)
(* A new GitHub repository from the github-repo blueprint: it is created   *)
(* (or found), gets the overlay on a branch, a ruleset, and teams with     *)
(* members copied from another team and a permission each.  The calls are  *)
(* made one after another and any of them may fail, some of which count    *)
(* and some do not.                                                        *)
(*                                                                         *)
(* github_repo_provision.py, pr.py, target_repo.py.  A world is what       *)
(* GitHub has; an attempt takes a world, the calls that fail and a disk to *)
(* another world and a report.                                             *)
(***************************************************************************)
EXTENDS Naturals, FiniteSets, SequencesExt

CONSTANTS
  Teams,      \* team slugs of the organization
  NoTeam,
  People,     \* who may be a member of a team
  MaxListed   \* members that list_team_members reads at most, 20 pages

ASSUME ProvisioningAssumption == NoTeam \notin Teams /\ IsFiniteSet(People) /\ MaxListed \in Nat

(* What a repository may be, and what a form may ask for. *)
Visibilities == {"public", "private", "internal"}

(* repo.branch: what the branch of the overlay holds.                     *)
NoRepository == [visibility |-> "private", topics |-> FALSE, branch |-> "absent"]

Exists(world) == world.repo # NoRepository

(* What GitHub has; the teams of an organization have members.             *)
Worlds ==
  [repo : [visibility : Visibilities, topics : BOOLEAN, branch : {"absent", "none", "other", "overlay"}],
   org : BOOLEAN, rules : BOOLEAN, members : UNION {[some -> SUBSET People] : some \in SUBSET Teams},
   granted : SUBSET Teams]
Forms ==
  [mode : {"template", "selection"}, template : BOOLEAN, visibility : Visibilities, topics : BOOLEAN,
   ruleset : BOOLEAN, teams : Seq(Teams), source : Teams \cup {NoTeam}, sync : {"unset", "off", "on"}]

-----------------------------------------------------------------------------
(* The form *)

(* parse_team_slugs: the first of each. *)
ParseTeamSlugs(slugs) ==
  LET kept[i \in 0..Len(slugs)] ==
        IF i = 0 THEN <<>>
        ELSE IF slugs[i] \in ToSet(kept[i-1]) THEN kept[i-1] ELSE Append(kept[i-1], slugs[i])
  IN kept[Len(slugs)]

(* build_provision_spec *)
SyncAsked(values) == IF values.sync = "unset" THEN values.source # NoTeam ELSE values.sync = "on"

SpecRaises(values) ==
  \/ values.mode = "template" /\ ~values.template
  \/ SyncAsked(values) /\ values.teams # <<>> /\ values.source = NoTeam

BuildSpec(values) ==
  [mode |-> values.mode, visibility |-> values.visibility, topics |-> values.topics,
   ruleset |-> values.ruleset, teams |-> ParseTeamSlugs(values.teams), source |-> values.source,
   sync |-> SyncAsked(values)]

(* plan_provision, _plan_team_sync, _plan_ruleset: what a dry run announces. *)
Announced(spec) ==
  [sync |-> IF spec.sync THEN ToSet(spec.teams) ELSE {}, grant |-> ToSet(spec.teams),
   ruleset |-> spec.ruleset]

-----------------------------------------------------------------------------
(* The repository *)

(* An owner that is not an organization answers 404 to the first request,  *)
(* and /user/repos knows private or public only.  So does a template.      *)
CreatedVisibility(world, spec, fails) ==
  IF spec.visibility = "internal" /\ (spec.mode = "template" \/ ~world.org)
  THEN IF <<"visibility">> \in fails \/ ~world.org THEN "private" ELSE "internal"
  ELSE spec.visibility

(* create_repository_from_template, create_repository_from_selection and   *)
(* _apply_visibility_and_topics, whose failures are suppressed.  One that  *)
(* is found keeps what it has.                                             *)
CreateRepository(world, spec, fails) ==
  IF <<"lookup">> \in fails THEN [world |-> world, status |-> "failed"]
  ELSE IF Exists(world) THEN [world |-> world, status |-> "exists"]
  ELSE IF <<"create">> \in fails THEN [world |-> world, status |-> "failed"]
  ELSE [world |-> [world EXCEPT !.repo =
          [visibility |-> CreatedVisibility(world, spec, fails),
           topics |-> spec.topics /\ <<"topics">> \notin fails, branch |-> "none"]],
        status |-> "created"]

(* push_module_repository: a branch of that name that is there refuses.    *)
PushOverlay(world, fails) ==
  IF <<"push">> \in fails \/ world.repo.branch # "none" THEN [world |-> world, status |-> "failed"]
  ELSE [world |-> [world EXCEPT !.repo.branch = "overlay"], status |-> "pushed"]

(* apply_repository_ruleset, _find_ruleset_id: when the list cannot be     *)
(* read the ruleset counts as missing, and one of that name is refused.    *)
UpsertRuleset(world, spec, fails) ==
  IF ~spec.ruleset THEN [world |-> world, status |-> "skipped"]
  ELSE LET found == world.rules /\ <<"rulesets">> \notin fails IN
       IF <<"ruleset">> \in fails \/ (~found /\ world.rules) THEN [world |-> world, status |-> "failed"]
       ELSE [world |-> [world EXCEPT !.rules = TRUE],
             status |-> IF found THEN "updated" ELSE "applied"]

-----------------------------------------------------------------------------
(* The teams *)

HasTeam(world, team) == world.org /\ team \in DOMAIN world.members

(* list_team_members stops after its last page. *)
Listed(people) ==
  IF Cardinality(people) <= MaxListed THEN people
  ELSE CHOOSE some \in SUBSET people : Cardinality(some) = MaxListed

CannotList(world, team, fails) == <<"list", team>> \in fails \/ ~HasTeam(world, team)

(* ensure_org_team *)
EnsureTeam(world, team, fails) ==
  IF <<"team", team>> \in fails THEN [world |-> world, status |-> "failed"]
  ELSE IF HasTeam(world, team) THEN [world |-> world, status |-> "exists"]
  ELSE IF <<"found", team>> \in fails \/ ~world.org THEN [world |-> world, status |-> "failed"]
  ELSE [world |-> [world EXCEPT !.members = [t \in DOMAIN @ \cup {team} |->
                                               IF t = team THEN {} ELSE @[t]]],
        status |-> "created"]

(* Mutant: the people that could not be added do not count. *)
SyncTeamAnyway(acc, team, source, fails) ==
  LET ensured == EnsureTeam(acc.world, team, fails)
      missing == source \ Listed(ensured.world.members[team])
  IN IF acc.raised \/ ensured.status = "failed" THEN acc
     ELSE [world |-> [ensured.world EXCEPT !.members[team] =
                        @ \cup {p \in missing : <<"add", team, p>> \notin fails}],
           raised |-> FALSE, status |-> [acc.status EXCEPT ![team] = "synced"]]

(* One team of sync_team_membership_additive; acc.raised: the loop ended.  *)
SyncTeam(acc, team, source, fails) ==
  LET ensured == EnsureTeam(acc.world, team, fails)
      world   == ensured.world
      missing == source \ Listed(world.members[team])
      added   == {p \in missing : <<"add", team, p>> \notin fails}
  IN IF acc.raised THEN acc
     ELSE IF ensured.status = "failed" THEN [acc EXCEPT !.status[team] = "failed"]
     ELSE IF CannotList(world, team, fails)
     THEN [world |-> world, raised |-> TRUE, status |-> acc.status]
     ELSE [world |-> [world EXCEPT !.members[team] = @ \cup added], raised |-> FALSE,
           status |-> [acc.status EXCEPT ![team] =
             IF added # missing THEN "failed"
             ELSE IF ensured.status = "created" THEN "created" ELSE "synced"]]

(* The teams one after another: what there is after each of them.          *)
Synced(world, spec, fails) ==
  LET after[i \in 0..Len(spec.teams)] ==
        IF i = 0 THEN [world |-> world, raised |-> FALSE, status |-> [t \in Teams |-> "none"]]
        ELSE SyncTeam(after[i-1], spec.teams[i], Listed(world.members[spec.source]), fails)
  IN after

(* sync_and_grant_teams: an error that is raised takes the results of the  *)
(* teams before it along, but not what was done.                           *)
SyncTeams(world, spec, fails) ==
  LET none == [t \in Teams |-> "none"]
      runs == spec.sync /\ spec.teams # <<>> /\ spec.source # NoTeam
      end  == Synced(world, spec, fails)[Len(spec.teams)]
  IN IF ~runs THEN [world |-> world, status |-> none]
     ELSE IF CannotList(world, spec.source, fails)
     THEN [world |-> world, status |-> [none EXCEPT ![spec.source] = "failed"]]
     ELSE IF end.raised
     THEN [world |-> end.world, status |-> [none EXCEPT ![spec.source] = "failed"]]
     ELSE [world |-> end.world, status |-> end.status]

(* ensure_team_repo_permission, of each team. *)
Grantable(world, spec, fails) ==
  {t \in ToSet(spec.teams) : HasTeam(world, t) /\ <<"grant", t>> \notin fails}

-----------------------------------------------------------------------------
(* An attempt *)

NothingDone(message) ==
  [ok |-> FALSE, message |-> message, create |-> "none", ruleset |-> "none",
   sync |-> [t \in Teams |-> "none"], grants |-> {}]

(* publish_to_module_repository, _create_provisioned_repository and        *)
(* publish_message_succeeded: what comes after the push may fail.          *)
Attempt(world, spec, fails, usedDisk) ==
  LET made == CreateRepository(world, spec, fails)
      push == PushOverlay(made.world, fails)
      rule == UpsertRuleset(push.world, spec, fails)
      team == SyncTeams(rule.world, spec, fails)
      can  == Grantable(team.world, spec, fails)
  IN IF usedDisk THEN [world |-> world, report |-> NothingDone("exists on disk")]
     ELSE IF made.status = "failed" THEN [world |-> world, report |-> NothingDone("create")]
     ELSE IF push.status = "failed" THEN [world |-> made.world, report |-> NothingDone("push")]
     ELSE [world |-> [team.world EXCEPT !.granted = @ \cup can],
           report |-> [ok |-> TRUE, message |-> "pushed", create |-> made.status,
                       ruleset |-> rule.status, sync |-> team.status, grants |-> can]]

-----------------------------------------------------------------------------
(* What is asked of it, for every world, form and set of failing calls. *)

CONSTANTS SomeWorlds, SomeForms, SomeFailures   \* bounds of the check

ASSUME BoundsAssumption == SomeWorlds \subseteq Worlds /\ SomeForms \subseteq Forms

(* The report says what is so: pushed, granted, synced and a ruleset mean  *)
(* what they say, nobody lost a membership or a permission, a repository   *)
(* that is made is not more visible than asked, and an attempt that failed *)
(* has changed neither teams nor rules.                                    *)
Honest(world, spec, end) ==
  LET new == end.world  report == end.report IN
  /\ report.ok => new.repo.branch = "overlay"
  /\ ~report.ok => new = [world EXCEPT !.repo = new.repo]
  /\ report.create = "created" => ~Exists(world) /\ new.repo.visibility \in {spec.visibility, "private"}
  /\ report.ruleset \in {"applied", "updated"} => new.rules
  /\ \A t \in report.grants : HasTeam(new, t) /\ t \in new.granted
  /\ \A t \in Teams : report.sync[t] \in {"created", "synced"} =>
       Listed(world.members[spec.source]) \subseteq new.members[t]
  /\ world.granted \subseteq new.granted
  /\ \A t \in DOMAIN world.members : world.members[t] \subseteq new.members[t]

(* What the dry run announced is what is attempted: no other team is       *)
(* touched, and without failures nothing that was announced is missing.    *)
AsAnnounced(world, spec, fails, end) ==
  LET new == end.world  plan == Announced(spec) IN
  /\ \A t \in DOMAIN new.members \ plan.sync :
       t \in DOMAIN world.members /\ new.members[t] = world.members[t]
  /\ new.granted \subseteq world.granted \cup plan.grant
  /\ new.rules => world.rules \/ plan.ruleset
  /\ fails = {} /\ end.report.ok /\ world.org /\ spec.source \in DOMAIN world.members =>
       /\ \A t \in plan.sync : end.report.sync[t] \in {"created", "synced"}
       /\ plan.ruleset => new.rules

(* Whatever was there and whichever call fails, the report of an attempt   *)
(* and of a second one, on the same disk or another, says what is so.      *)
(* Once the overlay is pushed no later attempt gets past its push: what    *)
(* failed after it stays undone, although the message says to re-run.      *)
ReportsAreHonest ==
  \A world \in SomeWorlds, values \in SomeForms, fails \in SomeFailures, used \in BOOLEAN :
    ~SpecRaises(values) =>
      LET spec   == BuildSpec(values)
          first  == Attempt(world, spec, fails, FALSE)
          second == Attempt(first.world, spec, {}, used)
      IN /\ Honest(world, spec, first) /\ Honest(first.world, spec, second)
         /\ AsAnnounced(world, spec, fails, first)
         /\ first.report.ok => ~second.report.ok
=============================================================================
