-------------------------- MODULE MCServiceCatalog --------------------------
(* Small worlds for the service catalog, and what must hold in them.        *)
EXTENDS ServiceLevels

(* Two repositories whose identifiers collide, and two of one name.          *)
Web == [owner |-> <<"acme">>, name |-> <<"web", "x">>, git |-> FALSE]
Fork == [owner |-> <<"acme", "web">>, name |-> <<"x">>, git |-> FALSE]
Other == [owner |-> <<"beta">>, name |-> <<"x">>, git |-> FALSE]
Module == <<"terraform", "module">>
Contract == <<"api", "contract">>
Types == Contract :> "api-contract" @@ Module :> "terraform-module"

Entry(url, standard) ==
  [url |-> url, blueprint |-> Module, pinned |-> TRUE, standard |-> standard, owner |-> <<"team:", "core">>]
Registered(url) == [event |-> "register", entry |-> Entry(url, FALSE)]
Repinned(url) == [event |-> "register", entry |-> Entry(url, TRUE)]
Removed(url) == [event |-> "unregister", entry |-> [NoEntry EXCEPT !.url = url]]
Histories ==
  {<<>>, <<Registered(Web), Repinned(Web), Registered(Fork)>>, <<Registered(Other), Removed(Other)>>,
   <<Registered(Fork), Removed(Fork), Registered(Other)>>}

Full == [governed |-> TRUE, blueprint |-> Contract, display |-> <<"shop">>, owner |-> <<"ann", "@", "corp">>,
         type |-> "service", files |-> {"README.md", "repave.yaml", "docs/runbook.md", "openslo/*.yaml"},
         blank |-> {}, estimated |-> FALSE, oncall |-> TRUE, depends |-> {"db"}]
Bare == [NoTree EXCEPT !.files = {"README.md", "RUNBOOK.md", "UPGRADE.md"}, !.estimated = TRUE,
                       !.owner = <<"group:", "acme", "/", "core">>]
Roots == {<<>>, <<"x">> :> Full, <<"x">> :> Bare, <<"web", "x">> :> Full @@ <<"x">> :> Full}

Ran(url, outcome, dry, failed) ==
  [module |-> url.name, blueprint |-> Module, pinned |-> TRUE, dry |-> dry, outcome |-> outcome,
   url |-> url, failed |-> failed]
Runs ==
  {Ran([Web EXCEPT !.git = TRUE], "passed", FALSE, FALSE), Ran(Fork, "passed", FALSE, FALSE),
   Ran(Other, "passed", FALSE, TRUE), Ran(NoUrl, "failed", TRUE, FALSE)}

Vended(id, kind, left) ==
  [id |-> id, name |-> <<"stack">>, owner |-> <<>>, blueprint |-> <<"helm", "chart">>, kind |-> kind,
   pinned |-> TRUE, outcome |-> "passed", left |-> left]

Still ==
  [fleet |-> [enabled |-> TRUE, sql |-> FALSE, mirrored |-> FALSE, events |-> <<>>],
   audited |-> TRUE, audit |-> <<>>, root |-> <<>>, phases |-> Web :> "Ready" @@ Fork :> "Error",
   reader |-> TRUE, spend |-> <<>>, deployer |-> "none", deployments |-> <<>>, rubric |-> <<>>,
   initiatives |-> <<>>, team |-> <<"platform">>,
   environments |-> <<Vended(<<"acme", "web", "x">>, "", {20})>>,
   components |-> <<Vended(<<"stack">>, "bucket", {0}), Vended(<<"stack">>, "queue", {})>>]

SourceWorlds ==
  {[Still EXCEPT !.fleet = [enabled |-> on, sql |-> m # "file", mirrored |-> m = "mirrored", events |-> h],
                 !.audit = runs, !.root = root] :
     on \in BOOLEAN, m \in {"file", "database", "mirrored"}, h \in Histories,
     runs \in SeqOf(Runs, 3), root \in Roots}

(* The files are as the program writes them: a registered URL is normalised *)
(* and names a repository, and so does the URL of a run that has one.        *)
WellKept(w) ==
  LET runs == RecentRuns(w)
  IN /\ Len(runs) \in Nat /\ DOMAIN runs = 1..Len(runs)
     /\ DOMAIN w.environments \subseteq Nat /\ DOMAIN w.components \subseteq Nat
     /\ \A entry \in FleetPage(w) : entry.url # NoUrl /\ NormalizeRepoUrl(entry.url) = entry.url
     /\ \A i \in DOMAIN runs : NormalizeRepoUrl(runs[i].url) = NoUrl => runs[i].url = NoUrl

(* What is governed anywhere is shown: each registered repository once (but *)
(* for a database without mirror, which the catalog does not read), each    *)
(* repository a run was published to, where the activity feed leads, and    *)
(* each governed checkout. Only entities of registered repositories or      *)
(* checkouts ever share an identifier.                                      *)
SourcesShown(w) ==
  LET catalog == BuildPortalCatalogEntities(w)
      runs == RecentRuns(w)
  IN /\ w.fleet.enabled /\ (w.fleet.sql => w.fleet.mirrored) =>
          {e.url : e \in {x \in catalog : x.source = "fleet"}} = {entry.url : entry \in FleetPage(w)}
     /\ \A run \in Range(runs) : Published(run) =>
          /\ ~SaysFailed(run)
          /\ \E e \in catalog : e.id = LeadsTo(run)
          /\ \E e \in catalog : NormalizeRepoUrl(e.url) = NormalizeRepoUrl(run.url) \/ e.id = EntityId(run.url)
     /\ \A dir \in DOMAIN w.root : w.root[dir].governed => \E e \in catalog : e.dir = dir
     /\ \A e, f \in catalog : e # f =>
          /\ e.id = f.id => {e.source, f.source} \subseteq {"fleet", "modules_root"}
          /\ e.url # NoUrl => NormalizeRepoUrl(e.url) # NormalizeRepoUrl(f.url)
     /\ \A e \in catalog : e.source = "audit" => e.card.gates = "pass" /\ e.card.pins # "pass"

(* Pages of a query, put together, are the entries it matches.               *)
PagesComplete(audit) ==
  \A size \in {0, 1, 2}, outcome \in {"", "passed"} :
    LET Page(k) == QueryAudit(audit, [blueprint |-> <<>>, outcome |-> outcome], size, k * Max({1, size}))
    IN FoldLeft(LAMBDA all, k : all \o Page(k), <<>>, <<0, 1, 2>>)
         = SelectSeq(audit, LAMBDA run : outcome # "" => run.outcome = outcome)

------------------------------------------------------------------------------
Answers ==
  {<<"url", <<>>>>, <<"url", <<"shop">> :> [sync |-> "in_sync", health |-> "green"]>>,
   <<"argocd", <<"shop">> :> [sync |-> "synced", health |-> "progressing"]>>,
   <<"argocd", <<"shop">> :> [sync |-> "outofsync", health |-> "healthy"]>>, <<"none", <<>>>>}
  \cup {<<"flux", <<"shop">> :> [ready |-> r, revision |-> v]>> :
          r \in {"true", "false", "absent", "Unknown"}, v \in BOOLEAN}
LevelWorlds ==
  {[Still EXCEPT !.fleet.events = h, !.root = root, !.audit = <<run>>, !.deployer = d[1],
                 !.deployments = d[2], !.spend = spend, !.reader = reader,
                 !.environments = IF vended THEN @ ELSE <<>>, !.components = IF vended THEN @ ELSE <<>>] :
     vended \in BOOLEAN, h \in Histories, root \in Roots, run \in Runs, d \in Answers, reader \in BOOLEAN,
     spend \in {<<>>} \cup {<<"shop">> :> c : c \in {"unsaid", "partial"}}}

Fact(w, s, entry) ==
  LET e == s.entity
      tree == TreeOf(w, e.dir)
      answer == w.deployments[e.display]
  IN [ governed |-> e.dir # <<>> /\ tree.governed,
       pinned |-> e.source = "fleet" /\ entry.pinned /\ entry.standard,
       runs |-> e.outcome = "passed",
       operable |-> ResolveEntityDocs(w, e, NoTree, FALSE) \cap Range(Runbooks) # {},
       deployed |-> /\ w.deployer # "none" /\ e.display \in DOMAIN w.deployments
                    /\ IF w.deployer = "flux" THEN answer.ready = "true" /\ answer.revision
                       ELSE /\ answer.sync \in {"synced", "sync", "in_sync"}
                            /\ answer.health \in {"healthy", "ok", "pass", "green", "ready"} ]

(* A level says of an entity what the rubric promises, whatever readers and  *)
(* files supplied it: a checkout with provenance, pins of a registration, a *)
(* runbook the page can show, SLOs, a passed run, a live deployment. What    *)
(* was vended or only found on disk or in the log never gets there.          *)
MaturityIsEarned(w) ==
  \A s \in EnrichedCatalog(w) : \A entry \in {NoEntry} \cup FleetPage(w) :
    s.entity.url = entry.url =>
      LET fact == Fact(w, s, entry)
      IN /\ s.maturity >= 1 => fact.governed
         /\ s.maturity >= 3 => fact.pinned /\ fact.operable
         /\ s.maturity >= 4 => fact.runs /\ HasSlo(TreeOf(w, s.entity.dir))
         /\ s.maturity >= 5 => fact.deployed /\ s.entity.card.cost \in {"pass", "warn"}
         /\ s.entity.source \in {"environment", "component"} => s.maturity = 0
         /\ s.entity.source = "audit" => s.maturity <= 2
         /\ s.entity.source = "modules_root" => s.maturity <= 1

(* Rubric files: gaps, levels out of order, two of one number, none usable.  *)
Stage(n, rules) == [level |-> n, rules |-> rules]
Rubrics ==
  {<<>>, <<Stage(0, {Rule("pins", "pass")}), Stage(3, {})>>,
   <<Stage(4, {Rule("gates", "pass")}), Stage(2, {Rule("pins", "warn"), Rule("gates", "unknown")})>>,
   <<Stage(1, {Rule("pins", "unknown")}), Stage(1, {Rule("gates", "warn")}), Stage(7, {Rule("cost", "fail")})>>}
Carded(card) == [oncall |-> FALSE, depends |-> {}, card |-> card]

(* Doing better in a dimension never lowers the level, and a level is earned. *)
MaturityMonotone ==
  \A file \in Rubrics : \A c, d \in [{"pins", "gates"} -> Levels] \cup [{"pins", "gates", "cost"} -> Levels] :
    LET rubric == LoadMaturityRubric(file)
    IN /\ Ladder(rubric) /\ Scored(Carded(c))
       /\ NeverLowered(rubric, Carded(c), Carded(d)) /\ LevelEarned(rubric, Carded(d))

Aim(id, level, keys, on) ==
  [id |-> id, title |-> id, level |-> level, keys |-> keys, active |-> on, due |-> {5}]
Aims == {Aim("a", 0, {}, TRUE), Aim("a", 2, {}, TRUE), Aim("b", 0, {"pins"}, TRUE), Aim("c", 1, {"gates"}, FALSE)}

(* The log of initiatives tells the last of each; an entity meets one only  *)
(* by its level and its scorecard, and what it fails is named before what   *)
(* it meets.                                                                 *)
InitiativesTold ==
  \A lines \in SeqOf(Aims, 3), item \in Aims, card \in [{"pins", "gates"} -> Levels], file \in Rubrics :
    LET e == Carded(card)
        maturity == EvaluateMaturity(e, LoadMaturityRubric(file))
        now == Range(ReadInitiatives(UpsertInitiative(lines, item)))
        off == Range(ReadInitiatives(DeactivateInitiative(lines, item.id)))
        chips == Badges(ReadInitiatives(lines), maturity)
        active == {i \in Range(ReadInitiatives(lines)) : i.active}
        failed == {i.title : i \in {x \in active : ~EvaluateInitiative(x, maturity)}}
    IN /\ now = {item} \cup {i \in Range(ReadInitiatives(lines)) : i.id # item.id}
       /\ {i.id : i \in off} = {i.id : i \in Range(lines)} /\ \A i \in off : i.id = item.id => ~i.active
       /\ Range(chips) = {i.title : i \in active} /\ Range(SubSeq(chips, 1, Cardinality(failed))) = failed
       /\ \A i \in active : InitiativeEarned(i, LoadMaturityRubric(file), e)
       /\ \A i \in active : EvaluateInitiative(i, maturity) =>
            /\ \A l \in Range(LoadMaturityRubric(file)) : l.level <= i.level => \A r \in l.rules : Meets(e, r)
            /\ i.keys \subseteq {r.key : r \in UNION {l.rules : l \in Range(LoadMaturityRubric(file))}}
            /\ InitiativeProgress(i, {e}, LoadMaturityRubric(file), 9).passed = 1
       /\ \A i \in active : InitiativeProgress(i, {e}, LoadMaturityRubric(file), 9).overdue <=> i.title \in failed

(* The last amount captured is the last amount told, once a day; the trend  *)
(* has every slot, the highest at the top, in the order of the amounts.      *)
TrendsTold ==
  \A captures \in SeqOf({"x", "y"} \X {1, 4, 9} \X {1, 2}, 4) :
    LET Log(n) == FoldLeft(LAMBDA log, c : CaptureCostSnapshot(log, c[1], c[2], c[3]), <<>>, SubSeq(captures, 1, n))
        log == Log(Len(captures))
        told == SnapshotsOf(log, "x")
        trend == CostSparkline(log, "x", 3)
        drawn == Newest(told, 3)
    IN /\ \A c \in {captures[i] : i \in {k \in DOMAIN captures :
              captures[k][1] = "x" /\ \A j \in DOMAIN captures : captures[j][1] = "x" => j <= k}} :
            told[Len(told)].amount = c[2] /\ told[Len(told)].day = c[3]
       /\ \A i \in 2..Len(told) : <<told[i - 1].amount, told[i - 1].day>> # <<told[i].amount, told[i].day>>
       /\ told # <<>> =>
            /\ Len(trend) = 3 /\ 100 \in Range(trend)
            /\ \A i, j \in DOMAIN drawn :
                 LET At(k) == trend[3 - Len(drawn) + k]
                 IN At(i) \in 14..100 /\ (drawn[i].amount <= drawn[j].amount => At(i) <= At(j))

(* The library groups an entity once, by a family it lists or not at all    *)
(* (repositories, API contracts, migrations); page and API count alike, and *)
(* a scorecard is as bad as its worst entity. A team finds what it owns, by *)
(* its page and by the hub.                                                 *)
LibraryAgrees(w) ==
  LET items == EnrichedCatalog(w)
      entities == {s.entity : s \in items}
      groups == GroupCatalogEntities(entities, Types)
      rollup == RollupFleetScorecard(entities)
      Level(e, key) == IF key \in DOMAIN e.card THEN e.card[key] ELSE "unknown"
  IN /\ \A e \in entities :
          Cardinality({k \in DOMAIN groups : e \in groups[k].entities})
            = IF e.blueprint = Contract THEN 0 ELSE 1
     /\ \A family \in Range(Families) \cup {"", "api"} : \A told \in LibraryPayload(entities, Types, family) :
          told = LibraryPage(entities, Types, family)
     /\ (OverallLevel(rollup) = "fail") <=> \E e \in entities : \E key \in DOMAIN e.card : e.card[key] = "fail"
     /\ OverallLevel(rollup) = "pass" => \A key \in DOMAIN rollup :
          /\ \E e \in entities : Level(e, key) = "pass"
          /\ \A e \in entities : Level(e, key) \in {"pass", "unknown"}
     /\ \A s \in items :
          /\ s \in FilterByTeam(items, s.team)
          /\ FilterByTeam(items, s.team) \subseteq FilterForHub(items, s.team, w.team)
          /\ FilterByOwner(items, s.entity.owner) \subseteq FilterForHub(items, s.entity.owner, w.team)
          /\ Position(s.entity.owner, "@") # {} => s \in FilterForUser(items, s.entity.owner, w.team)
     /\ LET unowned == {s \in items : s.entity.owner = <<>>}
        IN FilterForUser(items, <<>>, w.team) = IF unowned = {} THEN items ELSE unowned

WorldsHold ==
  /\ \A w \in SourceWorlds : WellKept(w) /\ SourcesShown(w)
  /\ \A runs \in SeqOf(Runs, 3) : PagesComplete(runs)
  /\ \A w \in LevelWorlds : WellKept(w) /\ MaturityIsEarned(w) /\ LibraryAgrees(w)
  /\ MaturityMonotone /\ InitiativesTold /\ TrendsTold
=============================================================================
