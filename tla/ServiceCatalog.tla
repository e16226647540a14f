--------------------------- MODULE ServiceCatalog ---------------------------
(* The catalog the portal assembles on every request (entity_catalog.py,   *)
(* portal_context.py, fleet_view.py, audit_history.py): the registered      *)
(* repositories, the checkouts under modules_root, what the audit log says  *)
(* was applied, and the vended environments and components, each with its   *)
(* scorecard.                                                               *)
(*                                                                          *)
(* A name is the sequence of its words, since identifiers are compared after *)
(* the words were joined; an absent name, URL or checkout is empty. A world  *)
(* w is what the files hold when the page is asked for. Order of display     *)
(* and descriptive fields are left out.                                      *)
EXTENDS Integers, Sequences, FiniteSets, SequencesExt, Functions

CONSTANT AuditWindow     \* how many audit entries the catalog reads

Levels == {"pass", "warn", "fail", "unknown"}

(* A repository URL: owner and name, spelled with or without ".git".         *)
NoUrl == [owner |-> <<>>, name |-> <<>>, git |-> FALSE]
NormalizeRepoUrl(url) == [owner |-> url.owner, name |-> url.name, git |-> FALSE]
EntityId(url) == url.owner \o url.name

------------------------------------------------------------------------------
(* The fleet registry is a log of register and unregister events, kept in a  *)
(* file, or in a database that may mirror its events into the file.          *)
ReadFleet(events) ==
  LET Latest(url) == Max({i \in DOMAIN events : events[i].entry.url = url})
      live == {i \in DOMAIN events :
                 events[i].event = "register" /\ i = Latest(events[i].entry.url)}
  IN {events[i].entry : i \in live}

FleetPage(w) == ReadFleet(w.fleet.events)
FleetFile(w) == IF w.fleet.sql /\ ~w.fleet.mirrored THEN {} ELSE ReadFleet(w.fleet.events)

(* The audit log, newest first: entries with the name of the artifact, the   *)
(* blueprint, the outcome of the gates and whether publishing failed.        *)
NoRun == [module |-> <<>>, blueprint |-> <<>>, pinned |-> FALSE, dry |-> TRUE,
          outcome |-> "", url |-> NoUrl, failed |-> FALSE]

Matches(run, filter) ==
  /\ filter.blueprint # <<>> => run.blueprint = filter.blueprint
  /\ filter.outcome # "" => run.outcome = filter.outcome

QueryAudit(audit, filter, limit, offset) ==
  LET matched == SelectSeq(audit, LAMBDA run : Matches(run, filter))
      first == IF offset < 0 THEN 0 ELSE offset
      size == IF limit < 1 THEN 1 ELSE IF limit > 500 THEN 500 ELSE limit
  IN SubSeq(matched, first + 1, IF first + size > Len(matched) THEN Len(matched) ELSE first + size)

RecentRuns(w) ==
  IF ~w.audited THEN <<>> ELSE QueryAudit(w.audit, [blueprint |-> <<>>, outcome |-> ""], AuditWindow, 0)

Published(run) == ~run.dry /\ run.outcome = "passed" /\ run.url # NoUrl /\ ~run.failed

ArtifactName(run) ==
  CASE run.module # <<>> /\ run.module # run.blueprint -> run.module
    [] OTHER -> IF run.url # NoUrl THEN run.url.name
                ELSE IF run.module # <<>> THEN run.module ELSE run.blueprint

(* Where the row of the activity feed leads, and what it says.               *)
LeadsTo(run) == IF run.url # NoUrl THEN EntityId(run.url) ELSE <<>>
SaysFailed(run) == run.outcome = "failed" \/ (~run.dry /\ run.failed)

LatestRun(runs, names) ==
  LET about == {i \in DOMAIN runs : {runs[i].module, runs[i].blueprint} \cap (names \ {<<>>}) # {}}
  IN IF about = {} THEN NoRun ELSE runs[Min(about)]

------------------------------------------------------------------------------
(* Scorecards: a level for each dimension.                                   *)
PinLevel(entry) ==
  IF entry.pinned /\ entry.standard THEN "pass" ELSE IF entry.blueprint # <<>> THEN "warn" ELSE "unknown"
OperatorLevel(phase) ==
  CASE phase = "" -> "unknown" [] phase = "Ready" -> "pass" [] phase = "Error" -> "fail" [] OTHER -> "warn"
TreeLevel(dir, found) == IF dir = <<>> THEN "unknown" ELSE IF found THEN "pass" ELSE "warn"
GateLevel(run) ==
  IF run = NoRun THEN "unknown" ELSE IF run.outcome = "passed" THEN "pass" ELSE "fail"

TagCoverage(owner) == IF owner = <<>> THEN "partial" ELSE "complete"
CostLevel(owner, actuals, estimated, configured) ==
  CASE actuals # {} -> IF actuals = {"complete"} THEN "pass" ELSE "fail"
    [] actuals = {} /\ estimated -> "pass"
    [] OTHER -> IF configured /\ TagCoverage(owner) # "complete" THEN "fail" ELSE "unknown"

(* left: the hours an expiring record has left, {} when it does not expire.  *)
TtlLevel(left) ==
  CASE left = {} -> "unknown"
    [] \E h \in left : h <= 0 -> "fail"
    [] \E h \in left : h > 0 /\ h <= 24 -> "warn"
    [] OTHER -> "pass"

Runbooks == <<"RUNBOOK.md", "docs/runbook.md", "docs/operations/README.md">>
Upgrades == <<"UPGRADE.md", "docs/UPGRADE.md", "docs/upgrade-notes.md">>
HasRunbook(tree) == Range(Runbooks) \cap tree.files # {}
HasSlo(tree) == {"openslo/*.yaml", "sloth/*.yaml", "prometheus/rules/slo.yaml"} \cap tree.files # {}

BuildScorecard(dir, tree, entry, phase, run, owner, configured) ==
  [pins |-> PinLevel(entry), operator |-> OperatorLevel(phase),
   provenance |-> TreeLevel(dir, tree.governed), has_runbook |-> TreeLevel(dir, HasRunbook(tree)),
   has_slo |-> TreeLevel(dir, HasSlo(tree)), gates |-> GateLevel(run),
   cost |-> CostLevel(owner, {}, FALSE, configured)]

ApplyToScorecard(card, key, level) == [k \in DOMAIN card \cup {key} |-> IF k = key THEN level ELSE card[k]]

VendedScorecard(record) ==
  [pins |-> IF record.pinned THEN "pass" ELSE "warn", ttl |-> TtlLevel(record.left),
   gates |-> IF record.outcome = "passed" THEN "pass" ELSE "fail"]

------------------------------------------------------------------------------
(* Entities.                                                                 *)
NoEntry == [url |-> NoUrl, blueprint |-> <<>>, pinned |-> FALSE, standard |-> FALSE, owner |-> <<>>]
NoTree == [governed |-> FALSE, blueprint |-> <<>>, display |-> <<>>, owner |-> <<>>, type |-> "",
           files |-> {}, blank |-> {}, estimated |-> FALSE, oncall |-> FALSE, depends |-> {}]

(* The checkout of a repository is found by the last segment of its URL.     *)
MatchLocalDir(w, url) == IF url.name \in DOMAIN w.root THEN url.name ELSE <<>>
TreeOf(w, dir) == IF dir = <<>> THEN NoTree ELSE w.root[dir]
PhaseOf(w, url) == IF url \in DOMAIN w.phases THEN w.phases[url] ELSE ""
Or(name, other) == IF name # <<>> THEN name ELSE other

Entity(source, id, display, url, dir, owner, blueprint, type, run, card) ==
  [source |-> source, id |-> id, display |-> display, url |-> url, dir |-> dir, owner |-> owner,
   blueprint |-> blueprint, type |-> type, outcome |-> run.outcome, card |-> card,
   oncall |-> FALSE, depends |-> {}]

FleetEntity(w, runs, entry) ==
  LET dir == MatchLocalDir(w, entry.url)
      tree == TreeOf(w, dir)
      display == Or(tree.display, dir)
      run == LatestRun(runs, {display, entry.blueprint, dir})
      owner == Or(entry.owner, tree.owner)
  IN Entity("fleet", EntityId(entry.url), Or(display, EntityId(entry.url)), entry.url, dir, owner,
            entry.blueprint, tree.type, run,
            BuildScorecard(dir, tree, entry, PhaseOf(w, entry.url), run, owner, w.reader))

LocalEntity(w, runs, dir) ==
  LET tree == w.root[dir]
      display == Or(tree.display, dir)
      run == LatestRun(runs, {display, dir, tree.blueprint})
  IN Entity("modules_root", <<"local">> \o dir, display, NoUrl, dir, tree.owner, tree.blueprint,
            tree.type, run, BuildScorecard(dir, tree, NoEntry, "", run, tree.owner, w.reader))

BuildCatalogEntities(w, fleet, runs) ==
  LET linked == {entry.url.name : entry \in fleet}
  IN {FleetEntity(w, runs, entry) : entry \in fleet}
     \cup {LocalEntity(w, runs, dir) : dir \in {d \in DOMAIN w.root \ linked : w.root[d].governed}}

(* An applied run surfaces a repository nobody registered.                   *)
AppliedEntity(w, run) ==
  LET dir == MatchLocalDir(w, run.url)
      tree == TreeOf(w, dir)
      entry == [NoEntry EXCEPT !.url = run.url, !.blueprint = run.blueprint, !.pinned = run.pinned]
      phase == PhaseOf(w, IF run.url \in DOMAIN w.phases THEN run.url ELSE NormalizeRepoUrl(run.url))
  IN Entity("audit", EntityId(run.url), Or(tree.display, ArtifactName(run)), run.url, dir, tree.owner,
            run.blueprint, tree.type, run,
            BuildScorecard(dir, tree, entry, phase, run, tree.owner, w.reader))

BuildCatalogFromAuditApplies(w, runs, known) ==
  LET Fresh(i) ==
        /\ Published(runs[i]) /\ NormalizeRepoUrl(runs[i].url) \notin known
        /\ \A j \in 1..(i - 1) :
             ~(Published(runs[j]) /\ NormalizeRepoUrl(runs[j].url) = NormalizeRepoUrl(runs[i].url))
  IN [i \in {k \in DOMAIN runs : Fresh(k)} |-> AppliedEntity(w, runs[i])]

EnvironmentEntity(w, record) ==
  Entity("environment", record.id, record.name, NoUrl, <<>>, record.owner, record.blueprint,
         "environment", record,
         ApplyToScorecard(VendedScorecard(record), "cost", CostLevel(record.owner, {}, FALSE, w.reader)))
ComponentEntity(w, record) ==
  Entity("component", record.id, record.name, NoUrl, <<>>, record.owner, record.blueprint,
         record.kind, record, VendedScorecard(record))

(* An entity whose identifier is taken is left out.                          *)
MergeCatalogEntities(base, extra) ==
  base \cup {extra[i] : i \in {k \in DOMAIN extra :
    /\ \A e \in base : e.id # extra[k].id
    /\ \A j \in DOMAIN extra : j < k => extra[j].id # extra[k].id}}

BuildPortalCatalogEntities(w) ==
  LET runs == RecentRuns(w)
      base == BuildCatalogEntities(w, IF w.fleet.enabled THEN FleetFile(w) ELSE {}, runs)
      known == {NormalizeRepoUrl(e.url) : e \in {x \in base : x.url # NoUrl}}
      applied == MergeCatalogEntities(base, BuildCatalogFromAuditApplies(w, runs, known))
      environments == [i \in DOMAIN w.environments |-> EnvironmentEntity(w, w.environments[i])]
      components == [i \in DOMAIN w.components |-> ComponentEntity(w, w.components[i])]
  IN MergeCatalogEntities(MergeCatalogEntities(applied, environments), components)
=============================================================================
