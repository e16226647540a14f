---------------------------- MODULE MCOnboarding ----------------------------
(* Onboarding, ImportMoves and ImportPlanning with small constants for TLC. *)
EXTENDS Onboarding, ImportMoves, ImportPlanning, TLC

(* Two spellings of one repository, and another one. *)
Spellings == [r \in Repos |-> IF r <= 2 THEN "a" ELSE "b"]

(* Three files, one more place for them, and a quarantine of three. *)
Quarantine == [p \in Sources |-> p + 4]
OneGroup   == {{2, 3}}

(* A branch that is about to be pushed has the tree that was gated.        *)
PushedAsPlanned == (\E u \in Users : At(u, "checked")) => AppliedIsPlanned

-----------------------------------------------------------------------------
(* Rules and signals of the blueprints for Terraform modules, for stacks   *)
(* and for OPA policies, with a file for each.                             *)

Under(dir) == [dir |-> dir, deep |-> TRUE, names |-> {}]
Anywhere(names) == [dir |-> <<>>, deep |-> TRUE, names |-> names]
AtRoot(names) == [dir |-> <<>>, deep |-> FALSE, names |-> names]
Into(dir) == [file |-> FALSE, path |-> dir]
Signal(glob, weight, negative) == [glob |-> glob, weight |-> weight, negative |-> negative]

ShippedSignals ==
  [terraform |-> {Signal(Anywhere({"main.tf", "backend.tf"}), 3, FALSE),
                  Signal(Anywhere({"main.tftest.hcl"}), 1, FALSE),
                  Signal(Anywhere({"backend.tf"}), 2, TRUE)},
   stack     |-> {Signal(Anywhere({"main.tf", "backend.tf"}), 2, FALSE),
                  Signal(Anywhere({"backend.tf"}), 3, FALSE)},
   opa       |-> {Signal(Anywhere({"deny.rego"}), 4, FALSE), Signal(Under(<<"policy">>), 1, FALSE)}]

Readme == [match |-> {AtRoot({"README", "README.md"})}, exclude |-> {}, preserve |-> FALSE,
           to |-> [file |-> TRUE, path |-> <<"README.md">>]]
Rule(match, exclude, to) == [match |-> match, exclude |-> exclude, preserve |-> FALSE, to |-> Into(to)]
Preserved(match) == [match |-> match, exclude |-> {}, preserve |-> TRUE, to |-> Into(<<>>)]

TerraformRules ==
  [keep |-> {AtRoot({"LICENSE"}), Under(<<".github">>)}, quarantine |-> FALSE, rules |-> <<
     Readme, Preserved({Under(<<"examples">>)}), Preserved({Under(<<"modules">>)}),
     Rule({Anywhere({"main.tftest.hcl"})}, {}, <<"tests">>),
     Rule({Under(<<"test">>), Under(<<"tests">>)}, {}, <<"tests">>),
     Rule({Anywhere({"main.tf", "backend.tf"})},
          {Under(<<"examples">>), Under(<<"modules">>), Under(<<"test">>), Under(<<"tests">>)}, <<>>)>>]
PolicyRules ==
  [keep |-> {AtRoot({"LICENSE"})}, quarantine |-> TRUE, rules |-> <<
     Readme, Rule({Anywhere({"deny.rego"})}, {}, <<"policy", "opa", "policies">>)>>]

ShippedRules == [terraform |-> TerraformRules, stack |-> TerraformRules, opa |-> PolicyRules]
ShippedCatalog == {[name |-> "terraform", order |-> 3, type |-> "terraform", canonical |-> TRUE, generic |-> FALSE],
  [name |-> "stack", order |-> 2, type |-> "stack", canonical |-> TRUE, generic |-> FALSE],
  [name |-> "opa", order |-> 1, type |-> "opa", canonical |-> FALSE, generic |-> TRUE]}
ShippedFamilies == [terraform |-> "terraform", stack |-> "terraform", opa |-> "policy"]
ShippedReference == [terraform |-> {<<"README.md">>, <<"repave.yaml">>}, stack |-> {<<"repave.yaml">>}, opa |-> {<<"repave.yaml">>}]

(* Every path of up to three segments. *)
Segments == {"modules", "tests", "policy", ".github", "src"}
Bases == {"main.tf", "main.tftest.hcl", "deny.rego", "README", "LICENSE", "tests", "notes"}
ManyPaths == {<<b>> : b \in Bases} \cup (Segments \X Bases) \cup (Segments \X Segments \X Bases)

(* Trees that the detection tells apart; a link; each call that may fail. *)
Trees == {{<<"main.tf">>, <<"src", "main.tf">>}, {<<"main.tf">>, <<"backend.tf">>, <<"README">>},
          {<<"src", "deny.rego">>, <<"notes">>}, {<<"tests">>}, {}}
Failing == {{}, {"contents"}, {"ref"}, {"large"}, {"texts"}, {"clone"}, {"large", "clone"}, {"contents", "clone"}}
Snapshots ==
  {[governed |-> g, files |-> t, links |-> l, fails |-> f] :
     g \in BOOLEAN, t \in Trees, l \in {{}, {<<"LICENSE">>}, {<<"lib", "main.tf">>}}, f \in Failing}
Plain == [governed |-> FALSE, files |-> {<<"src", "deny.rego">>}, links |-> {}, fails |-> {}]
Estates == {[t \in {"a", "b"} |-> IF t = "a" THEN s ELSE b] :
              s \in {u \in Snapshots : u.governed => u.files # {} /\ u.links = {}},
              b \in {Plain, [Plain EXCEPT !.governed = TRUE]}}
Orders == {<<"a", "b">>}
NoChoice == [name |-> Nothing, targets |-> <<>>, families |-> <<>>, overrides |-> <<>>]
ShippedChoices == {NoChoice, [NoChoice EXCEPT !.name = "stack"], [NoChoice EXCEPT !.targets = [a |-> "opa"]],
            [NoChoice EXCEPT !.families = [terraform |-> "stack", policy |-> "opa"]],
            [NoChoice EXCEPT !.overrides = (<<"main.tf">> :> <<"keep">> @@ <<"README">> :> <<"quarantine">>)]}

(* An import is planned from what the rules, the detection and GitHub say. *)
PlansHold ==
  (\E u \in Users : At(u, "planned")) => PlacesAreStable /\ BatchesAccountForAll
=============================================================================
