------------------------------- MODULE Gating -------------------------------
(* What may be published and what may be merged without a person: policy    *)
(* selection, the gates, waivers, the two passes of a bundle and the        *)
(* auto-merge of an upgrade.  One job at a time runs (generate_from_        *)
(* blueprint, generate_from_bundle or open_upgrade_pull_request) while      *)
(* people edit repave.config.yaml and the waivers file and time passes.     *)
(* Every read of the configuration, the waivers or the clock is a step of   *)
(* its own, as in the code, which reads the files again at each place.      *)
EXTENDS Integers, Sequences, FiniteSets

CONSTANTS
  Jobs,          \* the jobs that may be asked for: [kind, dry, members]
  Configs,       \* the contents repave.config.yaml may have
  WaiverFiles,   \* the contents the waivers file may have
  Malformed,     \* a waivers file with a line that does not parse
  NoSelection, NoEntity,
  Checks,        \* the catalog's checkov rules
  OpaRules,      \* the catalog's OPA rules
  Required,      \* the rules the catalog marks required
  RulesFor,      \* the rules that apply to each kind of blueprint's artifact
  BlueprintGates,\* the gates each kind of blueprint lists, in order
  WarnDays, MaxTime, MaxEdits

Rules == Checks \cup OpaRules
Gates == {"checkov", "opa", "infracost"}
Outcomes == {"passed", "failed", "skipped"}
MandatoryPolicy == "mandatory-policy"

(* A blueprint is "fixed" (no policy input), "custom" (policy_profile) or   *)
(* "optional" (enable_policy).  A member is what one generation is asked to *)
(* make; violates and missing say what its files and the image's tools are  *)
(* like; change and estimate matter to an upgrade only.                     *)
Member == [entity : {NoEntity} \cup STRING, bp : {"fixed", "custom", "optional"},
           enabled : BOOLEAN, picked : SUBSET Rules, violates : SUBSET (Rules \cup {"cost"}),
           missing : SUBSET Gates, change : {"pins", "policy", "other"},
           estimate : BOOLEAN]
Config == [v3 : BOOLEAN, mandatory : BOOLEAN, regulated : SUBSET {"fixed", "custom", "optional"},
           auto : BOOLEAN, kill : BOOLEAN, skips : SUBSET Checks, floor : SUBSET Rules,
           cost : BOOLEAN]
Waiver == [gate : Gates \cup {MandatoryPolicy}, entity : {NoEntity} \cup STRING, expires : Int]
Job == [kind : {"generate", "bundle", "upgrade"}, dry : BOOLEAN, members : Seq(Member) \ {<<>>}]

ASSUME GatingAssumption ==
  /\ Jobs \subseteq Job
  /\ \A j \in Jobs : j.kind # "bundle" => Len(j.members) = 1
  /\ Configs \subseteq Config
  /\ \A f \in WaiverFiles : f = Malformed \/ f \subseteq Waiver
  /\ WaiverFiles \ {Malformed} # {} /\ Configs # {}
  /\ Required \subseteq Rules
  /\ RulesFor \in [{"fixed", "custom", "optional"} -> SUBSET Rules]
  /\ BlueprintGates \in [{"fixed", "custom", "optional"} -> Seq(Gates)]
  /\ WarnDays \in Nat /\ MaxTime \in Nat /\ MaxEdits \in Nat
  /\ \A rules \in SUBSET Rules : rules # NoSelection

VARIABLES
  now,       \* the clock
  config,    \* repave.config.yaml
  waivers,   \* the waivers file
  edits,     \* how often people have edited either
  job,       \* the job asked for
  run        \* how far it is

vars == <<now, config, waivers, edits, job, run>>
asked == <<now, config, waivers, edits, job>>

NoPolicy == [on |-> FALSE, records |-> {}]

Labels == {"idle", "validate", "overrides", "policy", "mandatory", "gates", "finish",
           "decide", "push", "open", "label", "merge", "done", "raised"}
Result == [gate : Gates, raw : Outcomes, final : Outcomes, at : 0..now]

Run == [pc : Labels, phase : {"preview", "apply"}, at : DOMAIN job.members,
        overrides : Configs, selections : [DOMAIN job.members -> {NoSelection} \cup SUBSET Rules],
        policy : [on : BOOLEAN, records : WaiverFiles \cup {{}}], forbid : BOOLEAN,
        todo : Seq(Gates), results : SUBSET Result,
        green : BOOLEAN, allowed : BOOLEAN, merged : BOOLEAN,
        published : SUBSET DOMAIN job.members, since : 0..edits, started : 0..now]

TypeOK ==
  /\ now \in 0..MaxTime /\ edits \in 0..MaxEdits
  /\ config \in Configs /\ waivers \in WaiverFiles
  /\ job \in Jobs
  /\ run \in Run

-----------------------------------------------------------------------------
(* waivers.py and v3_foundation.py *)

(* max() by expires_at among the matches, compared with the clock. *)
EvaluateWaiver(gate, records, entity) ==
  LET matches == {w \in records : w.gate = gate /\ w.entity \in {NoEntity, entity}}
  IN CASE matches = {} -> "missing"
       [] matches # {} /\ \A w \in matches : w.expires <= now -> "expired"
       [] OTHER -> IF \A w \in matches : w.expires <= now + WarnDays
                     THEN "expiring" ELSE "active"

Open(status) == status \in {"active", "expiring"}

(* load_v3_foundation_config raises: a v3 feature is on and v3 is off. *)
ConfigRaises == ~config.v3 /\ (config.mandatory \/ config.auto)

(* load_waiver_policy raises, or what it returns. *)
PolicyRaises == ConfigRaises \/ (config.v3 /\ waivers = Malformed)
WaiverPolicy == IF config.v3 THEN [on |-> TRUE, records |-> waivers] ELSE NoPolicy

-----------------------------------------------------------------------------
(* mandatory_policy.py: may a blueprint go without its policy pack? *)

\* for the mutation of the property MandatoryPolicyHolds
DecidePolicySkipExpired(bp, status) ==
  \/ ~config.v3 \/ ~config.mandatory \/ bp \notin config.regulated
  \/ status # "missing"

DecidePolicySkip(bp, status) ==
  \/ ~config.v3 \/ ~config.mandatory \/ bp \notin config.regulated
  \/ Open(status)

SkipRaises == ConfigRaises \/ (config.v3 /\ config.mandatory /\ waivers = Malformed)
PolicySkipAllowed(bp, entity) ==
  DecidePolicySkip(bp, IF config.v3 /\ config.mandatory
                         THEN EvaluateWaiver(MandatoryPolicy, waivers, entity) ELSE "missing")

-----------------------------------------------------------------------------
(* policy_catalog.py and policy_selection.py *)

ResolveRules(m) == (m.picked \cup Required) \cap RulesFor[m.bp]

Selects(m) == m.bp = "custom" \/ (m.bp = "optional" /\ m.enabled)

(* _validate_platform_skips *)
PlatformSkipsRefused(m, overrides) ==
  \/ overrides.skips \cap Required \cap RulesFor[m.bp] # {}
  \/ ~(overrides.floor \cap RulesFor[m.bp] \subseteq ResolveRules(m))

Refused(m, overrides) ==
  IF Selects(m) THEN PlatformSkipsRefused(m, overrides)
  ELSE m.bp = "optional" /\ (SkipRaises \/ ~PolicySkipAllowed(m.bp, NoEntity))

Selection(m) == IF Selects(m) THEN ResolveRules(m) ELSE NoSelection

-----------------------------------------------------------------------------
(* The gate runners: what one gate finds in one member's files. *)

Current == job.members[run.at]
Chosen == run.selections[run.at]
RequireRun == run.phase = "preview"

\* for the mutation of the property PreviewHolds
ToolchainSkipReversed == IF RequireRun THEN "skipped" ELSE "failed"

ToolchainSkip == IF RequireRun THEN "failed" ELSE "skipped"

SelectionSkips == IF Chosen = NoSelection THEN {} ELSE (Checks \cap RulesFor[Current.bp]) \ Chosen

RunCheckov ==
  LET scanned == Checks \ (run.overrides.skips \cup SelectionSkips)
  IN IF "checkov" \in Current.missing THEN ToolchainSkip
     ELSE IF Current.violates \cap scanned = {} THEN "passed" ELSE "failed"

RunOpa ==
  LET scanned == IF Chosen = NoSelection THEN OpaRules ELSE OpaRules \cap Chosen
  IN IF "opa" \in Current.missing THEN ToolchainSkip
     ELSE IF Chosen = NoSelection /\ Current.bp = "optional"
            THEN IF run.forbid THEN "failed" ELSE "skipped"
     ELSE IF scanned = {} THEN "skipped"
     ELSE IF Current.violates \cap scanned = {} THEN "passed" ELSE "failed"

RunInfracost ==
  IF "infracost" \in Current.missing THEN IF run.overrides.cost THEN "failed" ELSE "skipped"
  ELSE IF "cost" \in Current.violates THEN "failed" ELSE "passed"

Runner(gate) ==
  CASE gate = "checkov" -> RunCheckov [] gate = "opa" -> RunOpa [] gate = "infracost" -> RunInfracost

\* for the mutation of the property NoFailureShips
ApplyAnyWaiver(gate, raw) ==
  IF run.policy.on /\ raw = "failed" /\ \E w \in run.policy.records : w.gate = gate
    THEN "passed" ELSE raw

(* gates.py, _apply_waiver_policy: a failure may pass by an open waiver. *)
ApplyWaiverPolicy(gate, raw) ==
  IF run.policy.on /\ raw = "failed"
       /\ Open(EvaluateWaiver(gate, run.policy.records, IF job.kind = "bundle" THEN Current.entity
                                                                               ELSE NoEntity))
    THEN "passed" ELSE raw

AllGatesPassed == \A r \in run.results : r.final \in {"passed", "skipped"}

(* infracost_policy.py: the organisation's cost floor adds a gate. *)
EffectiveGates(bp, overrides) ==
  LET names == BlueprintGates[bp]
  IN IF overrides.cost /\ \A i \in DOMAIN names : names[i] # "infracost"
       THEN Append(names, "infracost") ELSE names
-----------------------------------------------------------------------------
(* The steps of a job. *)

Goto(label) == run' = [run EXCEPT !.pc = label]
Raise == Goto("raised")

(* A job is asked for; gate overrides are read once for its validation. *)
Start ==
  /\ run.pc \in {"idle", "done", "raised"}
  /\ \E j \in Jobs :
       /\ job' = j
       /\ run' = [pc |-> "validate", at |-> 1, overrides |-> config,
                  phase |-> IF j.kind = "bundle" \/ (j.kind = "generate" /\ j.dry)
                              THEN "preview" ELSE "apply",
                  selections |-> [i \in DOMAIN j.members |-> NoSelection],
                  policy |-> NoPolicy, forbid |-> FALSE, todo |-> <<>>, results |-> {},
                  green |-> TRUE, allowed |-> FALSE, merged |-> FALSE, published |-> {},
                  since |-> edits, started |-> now]
  /\ UNCHANGED <<now, config, waivers, edits>>

(* validate_inputs, for a bundle member by member before any is rendered.   *)
(* An upgrade renders with the overrides it already has.                    *)
Validate ==
  /\ run.pc = "validate"
  /\ IF Refused(Current, run.overrides) THEN Raise
     ELSE LET last == run.at = Len(job.members)
          IN run' = [run EXCEPT !.selections[run.at] = Selection(Current),
                                !.at = IF last THEN 1 ELSE run.at + 1,
                                !.pc = IF last THEN "overrides" ELSE "validate"]
  /\ UNCHANGED asked

(* Render, then read the overrides again for the gates.  An upgrade runs    *)
(* infracost alone, and only when the cost is of interest.                  *)
Overrides ==
  /\ run.pc = "overrides"
  /\ IF job.kind = "upgrade"
       THEN LET want == run.overrides.cost \/ Current.estimate
            IN run' = [run EXCEPT !.todo = IF want THEN <<"infracost">> ELSE <<>>,
                                  !.pc = IF want THEN "policy" ELSE "decide"]
       ELSE run' = [run EXCEPT !.overrides = config, !.results = {}, !.pc = "policy",
                               !.todo = EffectiveGates(Current.bp, config)]
  /\ UNCHANGED asked

(* run_gates, before the first gate: the waivers it will use throughout. *)
LoadPolicy ==
  /\ run.pc = "policy"
  /\ IF PolicyRaises THEN Raise
     ELSE run' = [run EXCEPT !.policy = WaiverPolicy, !.pc = "mandatory"]
  /\ UNCHANGED asked

(* run_gates, forbid_policy_skip. *)
CheckMandatory ==
  /\ run.pc = "mandatory"
  /\ IF SkipRaises THEN Raise
     ELSE run' = [run EXCEPT !.pc = "gates",
            !.forbid = ~PolicySkipAllowed(Current.bp, IF job.kind = "bundle" THEN Current.entity
                                                                             ELSE NoEntity)]
  /\ UNCHANGED asked

RunGate ==
  /\ run.pc = "gates" /\ run.todo # <<>>
  /\ LET gate == Head(run.todo)
         raw == Runner(gate)
     IN run' = [run EXCEPT !.todo = Tail(run.todo),
          !.results = @ \cup {[gate |-> gate, raw |-> raw, at |-> now,
                               final |-> ApplyWaiverPolicy(gate, raw)]}]
  /\ UNCHANGED asked

GatesDone ==
  /\ run.pc = "gates" /\ run.todo = <<>>
  /\ Goto(IF job.kind = "upgrade" THEN "decide" ELSE "finish")
  /\ UNCHANGED asked

(* The next member of a bundle, or its apply pass once every member's       *)
(* preview was green, or the end.                                           *)
Advance(green, published) ==
  IF run.at < Len(job.members)
    THEN run' = [run EXCEPT !.green = green, !.published = published, !.at = run.at + 1,
                            !.pc = "overrides"]
  ELSE IF job.kind = "bundle" /\ run.phase = "preview" /\ ~job.dry /\ green
    THEN run' = [run EXCEPT !.green = green, !.phase = "apply", !.at = 1, !.pc = "overrides"]
  ELSE run' = [run EXCEPT !.green = green, !.published = published, !.pc = "done"]

FinishPreview ==
  /\ run.pc = "finish" /\ run.phase = "preview"
  /\ Advance(run.green /\ AllGatesPassed, {})
  /\ UNCHANGED asked

(* _publish_after_gates.  The push succeeds, or it fails and is reported in *)
(* the message of a result that is otherwise complete.                      *)
Publish ==
  /\ run.pc = "finish" /\ run.phase = "apply" /\ AllGatesPassed
  /\ \E ok \in BOOLEAN :
       Advance(run.green, IF ok THEN run.published \cup {run.at} ELSE run.published)
  /\ UNCHANGED asked

(* A member's repository cannot be written: the job, bundle or not, ends. *)
PublishRaises ==
  /\ run.pc = "finish" /\ run.phase = "apply" /\ AllGatesPassed
  /\ Raise
  /\ UNCHANGED asked

Withhold ==
  /\ run.pc = "finish" /\ run.phase = "apply" /\ ~AllGatesPassed
  /\ Advance(run.green, run.published)
  /\ UNCHANGED asked
-----------------------------------------------------------------------------
(* auto_merge.py and the end of open_upgrade_pull_request *)

(* change_type_from_upgrade and classify_change: only pin bumps. *)
Mechanical == Current.change = "pins"

\* for the mutation of the property MergedIsGreen
OutcomesGreenOrSkipped == \A r \in run.results : r.final \in {"passed", "skipped"}

(* gate_outcomes_from_results: skipped gates are not green. *)
OutcomesGreen == \A r \in run.results : r.final = "passed"

(* waiver_status_for_gates reads the waivers again, for no entity, and any  *)
(* waiver found for a gate that ran blocks, open or expired.                *)
WaiversClear ==
  config.v3 => \A r \in run.results : EvaluateWaiver(r.gate, waivers, NoEntity) = "missing"

Decide ==
  /\ run.pc = "decide"
  /\ IF PolicyRaises THEN Raise
     ELSE run' = [run EXCEPT !.pc = "push",
            !.allowed = /\ config.v3 /\ ~config.kill /\ config.auto
                        /\ Mechanical /\ OutcomesGreen /\ WaiversClear]
  /\ UNCHANGED asked

(* Commit and push the branch, open the request, label it; each may raise. *)
Then(from, to) ==
  /\ run.pc = from
  /\ Goto(to) \/ Raise
  /\ UNCHANGED asked

PushBranch == Then("push", "open")
OpenRequest == Then("open", "label")
Label == Then("label", IF run.allowed THEN "merge" ELSE "done")

(* The decision taken with the plan is acted on; GitHub may refuse. *)
Merge ==
  /\ run.pc = "merge"
  /\ \E ok \in BOOLEAN : run' = [run EXCEPT !.merged = ok, !.pc = "done"]
  /\ UNCHANGED asked

-----------------------------------------------------------------------------
(* People and time. *)

EditConfig ==
  /\ edits < MaxEdits
  /\ config' \in Configs \ {config} /\ edits' = edits + 1
  /\ UNCHANGED <<now, waivers, job, run>>

EditWaivers ==
  /\ edits < MaxEdits
  /\ waivers' \in WaiverFiles \ {waivers} /\ edits' = edits + 1
  /\ UNCHANGED <<now, config, job, run>>

Tick ==
  /\ now < MaxTime
  /\ now' = now + 1
  /\ UNCHANGED <<config, waivers, edits, job, run>>

Init ==
  /\ now = 0 /\ edits = 0
  /\ config \in Configs /\ waivers \in WaiverFiles
  /\ job \in Jobs
  /\ run = [pc |-> "idle", at |-> 1, overrides |-> config, phase |-> "preview",
            selections |-> [i \in DOMAIN job.members |-> NoSelection],
            policy |-> NoPolicy, forbid |-> FALSE, todo |-> <<>>, results |-> {},
            green |-> TRUE, allowed |-> FALSE, merged |-> FALSE, published |-> {},
            since |-> 0, started |-> 0]

JobStep ==
  \/ Start \/ Validate \/ Overrides \/ LoadPolicy \/ CheckMandatory \/ RunGate \/ GatesDone
  \/ FinishPreview \/ Publish \/ PublishRaises \/ Withhold
  \/ Decide \/ PushBranch \/ OpenRequest \/ Label \/ Merge

Next == JobStep \/ EditConfig \/ EditWaivers \/ Tick

Spec == Init /\ [][Next]_vars
-----------------------------------------------------------------------------
(* Properties *)

Publishes == run'.published \ run.published # {}
Listed(gate) == \E i \in DOMAIN BlueprintGates[Current.bp] : BlueprintGates[Current.bp][i] = gate
RulesOf(gate) == CASE gate = "checkov" -> Checks [] gate = "opa" -> OpaRules [] OTHER -> {}
Untouched == edits = run.since

(* Some record for the gate and the member runs out only after `time`. *)
Covers(records, gate, time) ==
  \E w \in records : /\ w.gate = gate /\ w.expires > time
                     /\ w.entity \in {NoEntity, Current.entity}

(* What is published went through every gate its blueprint lists, and a     *)
(* gate whose runner failed was covered, at the moment it ran, by a waiver  *)
(* that had not run out (run_gates, _apply_waiver_policy).                  *)
NoFailureShips ==
  [][Publishes => \A gate \in Gates : Listed(gate) => \E r \in run.results :
        /\ r.gate = gate
        /\ r.raw = "failed" => Covers(run.policy.records, gate, r.at)]_vars

(* A member that picked its policy is not published while its files break a *)
(* required rule of a tool that is installed, whatever rules it picked,     *)
(* unless a waiver covered that gate or people edited the files meanwhile   *)
(* (resolve_profile_rule_ids, _validate_platform_skips, run_checkov).       *)
RequiredRulesEnforced ==
  [][Publishes /\ Chosen # NoSelection /\ Untouched => \A gate \in {"checkov", "opa"} :
        Listed(gate) /\ gate \notin Current.missing
          /\ Current.violates \cap Required \cap RulesFor[Current.bp] \cap RulesOf(gate) # {}
        => Covers(waivers, gate, run.started)]_vars

(* While policy is mandatory for its family, nothing is published without a *)
(* policy pack unless a mandatory-policy waiver had not run out when it was *)
(* asked for (normalize_policy_inputs and run_opa both ask).                *)
MandatoryPolicyHolds ==
  [][Publishes /\ Current.bp = "optional" /\ Chosen = NoSelection /\ Untouched
       /\ config.v3 /\ config.mandatory /\ Current.bp \in config.regulated
     => Covers(waivers, MandatoryPolicy, run.started)]_vars

(* A bundle is published whole as far as its gates are concerned: a member  *)
(* whose preview passed fails the gates of the apply pass only if people    *)
(* edited the files, or a waiver ran out, after the job began.              *)
PreviewHolds ==
  run.pc = "finish" /\ run.phase = "apply" /\ job.kind = "bundle" /\ ~AllGatesPassed /\ Untouched
    => \E w \in waivers : w.expires > run.started /\ w.expires <= now

(* An upgrade merges itself only as a pin bump whose every gate that ran    *)
(* passed; none of them by a waiver, and with auto-merge on and the kill    *)
(* switch off, unless people edited the files after it began.               *)
MergedIsGreen ==
  [][run'.merged /\ ~run.merged =>
       /\ Current.change = "pins"
       /\ \A r \in run.results : r.raw # "skipped" /\ r.final = "passed"
       /\ Untouched => /\ config.v3 /\ config.auto /\ ~config.kill
                       /\ \A r \in run.results : r.raw = "passed"]_vars
=============================================================================
