------------------------------ MODULE MCGating ------------------------------
(* Gating with small constants for TLC. *)
EXTENDS Gating

MCChecks == {"ck1", "ck2"}
MCOpaRules == {"op1"}
MCRequired == {"ck1", "op1"}
MCRulesFor == [b \in {"fixed", "custom", "optional"} |->
                 IF b = "optional" THEN {"op1"} ELSE {"ck1", "ck2", "op1"}]
MCBlueprintGates == [b \in {"fixed", "custom", "optional"} |->
                       CASE b = "fixed" -> <<"checkov">>
                         [] b = "custom" -> <<"checkov", "opa">>
                         [] b = "optional" -> <<"opa">>]

Plain == [entity |-> "m1", bp |-> "custom", enabled |-> FALSE, picked |-> {},
          violates |-> {}, missing |-> {}, change |-> "pins", estimate |-> FALSE]
Breaking == [Plain EXCEPT !.violates = {"ck1", "ck2"}]
Destroying == [Plain EXCEPT !.picked = {"ck2"}, !.violates = {"op1"}]
Toolless == [Plain EXCEPT !.missing = {"checkov", "infracost"}, !.entity = "m2"]
Monitors == [Plain EXCEPT !.bp = "optional", !.violates = {"op1"}, !.entity = "m2"]
Governed == [Monitors EXCEPT !.enabled = TRUE]
Component == [Plain EXCEPT !.bp = "fixed", !.violates = {"ck1"}]
Bump == [Plain EXCEPT !.estimate = TRUE]
DearBump == [Bump EXCEPT !.violates = {"cost"}]
BlindBump == [Bump EXCEPT !.missing = {"infracost"}]
PolicyBump == [Plain EXCEPT !.change = "policy"]

MCJobs ==
  {[kind |-> "generate", dry |-> FALSE, members |-> <<m>>] :
     m \in {Breaking, Destroying, Toolless, Monitors, Governed, Component}}
  \cup {[kind |-> "bundle", dry |-> FALSE, members |-> ms] :
     ms \in {<<Plain, Monitors>>, <<Breaking, Plain>>, <<Plain, Toolless>>}}
  \cup {[kind |-> "generate", dry |-> TRUE, members |-> <<Plain>>]}
  \cup {[kind |-> "upgrade", dry |-> FALSE, members |-> <<m>>] :
     m \in {Plain, Bump, DearBump, BlindBump, PolicyBump}}

Off == [v3 |-> FALSE, mandatory |-> FALSE, regulated |-> {"optional"}, auto |-> FALSE,
        kill |-> FALSE, skips |-> {}, floor |-> {}, cost |-> FALSE]
Strict == [Off EXCEPT !.v3 = TRUE, !.mandatory = TRUE, !.auto = TRUE]
MCConfigs == {Strict, [Strict EXCEPT !.kill = TRUE], [Off EXCEPT !.auto = TRUE],
              [Strict EXCEPT !.skips = {"ck1"}], [Strict EXCEPT !.cost = TRUE]}

For(gate, entity, expires) == [gate |-> gate, entity |-> entity, expires |-> expires]
MCWaiverFiles ==
  {{}, Malformed,
   {For(MandatoryPolicy, NoEntity, 1), For("checkov", NoEntity, 2), For("infracost", NoEntity, 1)},
   {For(MandatoryPolicy, "m2", 2), For("opa", "m2", 1), For("opa", NoEntity, 2),
    For("checkov", "m1", 1)}}

(* Before the first request: what golden paths write down is what they read *)
(* back, an upgrade settles and keeps what it reads, and a component that   *)
(* is added leaves the rest of its repository alone.                        *)
Golden == INSTANCE MCGoldenPaths

RegenerationHolds == Init => Golden!Paths!RepositoriesHold
=============================================================================
