---------------------------- MODULE MCPublishing ----------------------------
(* Publishing and Provisioning with small constants for TLC. *)
EXTENDS Publishing, Provisioning

NoRequests == {}

(* A repository that is not there, is empty, or has that branch; teams     *)
(* that are all there, one of them crowded, or only the first.             *)
ThreeRepositories ==
  {NoRepository} \cup
  {[visibility |-> "public", topics |-> FALSE, branch |-> b] : b \in {"none", "other"}}
SomeMembers ==
  {[t \in {} |-> {}], [t \in {"core", "app"} |-> IF t = "core" THEN {"ann", "bob"} ELSE {"bob"}],
   [t \in {"core"} |-> {"ann", "bob", "eve"}]}
ReachableWorlds ==
  {w \in [repo : ThreeRepositories, org : BOOLEAN, rules : BOOLEAN, members : SomeMembers,
          granted : {{}, {"core"}}] :
     /\ w.org <=> w.members # [t \in {} |-> {}]
     /\ w.repo = NoRepository => ~w.rules /\ w.granted = {}}

EveryForm ==
  [mode : {"template", "selection"}, template : {TRUE}, visibility : Visibilities,
   topics : {TRUE}, ruleset : BOOLEAN, teams : {<<>>, <<"app">>, <<"app", "core", "app">>},
   source : {"core", NoTeam}, sync : {"unset", "off", "on"}]

FailingCalls ==
  {<<c>> : c \in {"lookup", "create", "visibility", "topics", "push", "rulesets", "ruleset"}} \cup
  ({"list", "team", "found", "grant"} \X Teams) \cup ({"add"} \X Teams \X {"ann", "bob"})
OneFails == {{}} \cup {{c} : c \in FailingCalls}

(* A push that provisions is reported as what it did. *)
ProvisionedAsReported == (\E w \in Workers : WorkerAt(w, "push")) => ReportsAreHonest
=============================================================================
