---------------------------- MODULE GatingProofs ----------------------------
(***************************************************************************)
(* What holds of Gating for any jobs, configurations, waiver files and     *)
(* catalog of rules, however often people edit them while a job runs:      *)
(*                                                                         *)
(*   GatingTypeCorrect        every variable keeps its type                *)
(*   FailuresStayHome         NoFailureShips                               *)
(*   RequiredRulesHold        RequiredRulesEnforced                        *)
(*   MandatoryPolicyIsKept    MandatoryPolicyHolds                         *)
(*   MergesAreGreen           MergedIsGreen                                *)
(*   PreviewsHold             PreviewHolds                                 *)
(*                                                                         *)
(* The argument.  A job carries what it has read: the overrides, the       *)
(* selection, the waivers, the results.  The invariant says what each of   *)
(* these still means at each later step, and what more it means as long as *)
(* nobody has edited a file since the job began.  For bundles a second one *)
(* says what the preview of each member has shown.                         *)
(***************************************************************************)
EXTENDS Gating, TLAPS, SequenceTheorems

-----------------------------------------------------------------------------
(* Type correctness *)

LEMMA JobTypes ==
  ASSUME TypeOK
  PROVE  /\ job.kind \in {"generate", "bundle", "upgrade"} /\ job.dry \in BOOLEAN
         /\ job.members \in Seq(Member) /\ job.members # <<>>
         /\ Len(job.members) \in Nat /\ DOMAIN job.members = 1..Len(job.members)
         /\ Current \in Member
         /\ Chosen \in {NoSelection} \cup SUBSET Rules
         /\ config \in Config /\ run.overrides \in Config
BY GatingAssumption DEF TypeOK, Job, Run, Current, Chosen

LEMMA StartTypes ==
  ASSUME NEW j \in Jobs
  PROVE  /\ j.members \in Seq(Member) /\ Len(j.members) \in Nat
         /\ DOMAIN j.members = 1..Len(j.members) /\ 1 \in DOMAIN j.members
<1>1. j.members \in Seq(Member) /\ j.members # <<>>
  BY GatingAssumption DEF Job
<1> QED
  BY <1>1, EmptySeq

LEMMA RunnerTypes ==
  ASSUME NEW gate \in Gates
  PROVE  /\ Runner(gate) \in Outcomes
         /\ ApplyWaiverPolicy(gate, Runner(gate)) \in Outcomes
<1>1. ToolchainSkip \in Outcomes
  BY DEF ToolchainSkip, Outcomes
<1>2. RunCheckov \in Outcomes
  BY <1>1 DEF RunCheckov, Outcomes
<1>3. RunOpa \in Outcomes
  BY <1>1 DEF RunOpa, Outcomes
<1>4. RunInfracost \in Outcomes
  BY DEF RunInfracost, Outcomes
<1>5. Runner(gate) \in Outcomes
  BY <1>2, <1>3, <1>4 DEF Runner, Gates
<1> QED
  BY <1>5 DEF ApplyWaiverPolicy, Outcomes

LEMMA GateListTypes ==
  ASSUME TypeOK, NEW overrides
  PROVE  EffectiveGates(Current.bp, overrides) \in Seq(Gates)
<1>1. BlueprintGates[Current.bp] \in Seq(Gates)
  BY JobTypes, GatingAssumption DEF Member
<1>2. Append(BlueprintGates[Current.bp], "infracost") \in Seq(Gates)
  BY <1>1 DEF Gates
<1> QED
  BY <1>1, <1>2 DEF EffectiveGates

LEMMA SelectionTypes ==
  ASSUME NEW m \in Member
  PROVE  /\ Selection(m) \in {NoSelection} \cup SUBSET Rules
         /\ Selects(m) => Selection(m) = ResolveRules(m) /\ Selection(m) # NoSelection
         /\ ~Selects(m) => Selection(m) = NoSelection
<1>1. ResolveRules(m) \in SUBSET Rules
  BY GatingAssumption DEF ResolveRules, Member
<1> QED
  BY <1>1, GatingAssumption DEF Selection

LEMMA PolicyTypes ==
  ASSUME TypeOK
  PROVE  WaiverPolicy \in [on : BOOLEAN, records : WaiverFiles \cup {{}}]
BY DEF WaiverPolicy, NoPolicy, TypeOK

THEOREM InitTyped == Init => TypeOK
<1> SUFFICES ASSUME Init PROVE TypeOK
  OBVIOUS
<1>1. 1 \in DOMAIN job.members
  BY StartTypes DEF Init
<1>2. run \in Run
  BY <1>1, EmptySeq, GatingAssumption DEF Init, Run, Labels, NoPolicy
<1> QED
  BY <1>2, GatingAssumption DEF Init, TypeOK

LEMMA LaterTyped ==
  ASSUME TypeOK, UNCHANGED asked, run' \in Run
  PROVE  TypeOK'
BY DEF TypeOK, asked, Run, Result

LEMMA AdvanceTyped ==
  ASSUME TypeOK, NEW green \in BOOLEAN, NEW published \in SUBSET DOMAIN job.members,
         Advance(green, published), UNCHANGED asked
  PROVE  TypeOK'
<1>1. /\ run \in Run /\ run.at \in 1..Len(job.members)
      /\ Len(job.members) \in Nat /\ DOMAIN job.members = 1..Len(job.members)
  BY JobTypes DEF TypeOK, Run
<1>2. CASE run' = [run EXCEPT !.green = green, !.published = published, !.at = run.at + 1,
                              !.pc = "overrides"] /\ run.at < Len(job.members)
  <2>1. run.at + 1 \in DOMAIN job.members
    BY <1>1, <1>2
  <2>2. run' \in Run
    BY <1>1, <1>2, <2>1, ZenonT(90) DEF Run, Labels
  <2> QED
    BY <2>2, LaterTyped
<1>3. CASE run' = [run EXCEPT !.green = green, !.phase = "apply", !.at = 1, !.pc = "overrides"]
  <2>1. 1 \in DOMAIN job.members /\ run \in Run
    BY <1>1
  <2>2. run' \in Run
    BY <1>3, <2>1, ZenonT(90) DEF Run, Labels
  <2> QED
    BY <2>2, LaterTyped
<1>4. CASE run' = [run EXCEPT !.green = green, !.published = published, !.pc = "done"]
  <2>1. run' \in Run
    BY <1>1, <1>4, ZenonT(90) DEF Run, Labels
  <2> QED
    BY <2>1, LaterTyped
<1> QED
  BY <1>2, <1>3, <1>4 DEF Advance

LEMMA GotoTyped ==
  ASSUME TypeOK, NEW label \in Labels, Goto(label), UNCHANGED asked
  PROVE  TypeOK'
<1>1. run' \in Run
  BY DEF TypeOK, Goto, Run
<1> QED
  BY <1>1, LaterTyped

LEMMA StepTyped == TypeOK /\ [Next]_vars => TypeOK'
<1> SUFFICES ASSUME TypeOK, [Next]_vars PROVE TypeOK'
  OBVIOUS
<1> USE JobTypes
<1>0. run \in Run /\ run.at \in 1..Len(job.members)
  BY DEF TypeOK, Run
<1>1. CASE Start
  <2> PICK j \in Jobs : /\ job' = j
                        /\ Start!2!(j)!2
    BY <1>1 DEF Start
  <2>1. 1 \in DOMAIN job'.members
    BY StartTypes
  <2>2. run' \in Run'
    BY <1>1, <2>1, EmptySeq, SMTT(90) DEF Start, TypeOK, Run, Labels, NoPolicy
  <2> QED
    BY <1>1, <2>2 DEF Start, TypeOK
<1>2. CASE Validate
  <2>1. CASE Raise
    BY <1>2, <2>1, GotoTyped DEF Validate, Raise, Labels
  <2>2. CASE run.at = Len(job.members)
              /\ run' = [run EXCEPT !.selections[run.at] = Selection(Current), !.at = 1,
                                    !.pc = "overrides"]
    <3>1. 1 \in DOMAIN job.members /\ run.at \in DOMAIN job.members /\ run \in Run
      BY <1>0
    <3>2. Selection(Current) \in {NoSelection} \cup SUBSET Rules
      BY SelectionTypes
    <3>3. run' \in Run
      BY <2>2, <3>1, <3>2, ZenonT(90) DEF Run, Labels
    <3> QED
      BY <1>2, <3>3, LaterTyped DEF Validate
  <2>3. CASE run.at # Len(job.members)
              /\ run' = [run EXCEPT !.selections[run.at] = Selection(Current),
                                    !.at = run.at + 1, !.pc = "validate"]
    <3>1. run.at + 1 \in DOMAIN job.members /\ run.at \in DOMAIN job.members /\ run \in Run
      BY <1>0, <2>3
    <3>2. Selection(Current) \in {NoSelection} \cup SUBSET Rules
      BY SelectionTypes
    <3>3. run' \in Run
      BY <2>3, <3>1, <3>2, ZenonT(90) DEF Run, Labels
    <3> QED
      BY <1>2, <3>3, LaterTyped DEF Validate
  <2> QED
    BY <1>2, <2>1, <2>2, <2>3 DEF Validate
<1>3. CASE Overrides
  <2>1. <<"infracost">> \in Seq(Gates) /\ <<>> \in Seq(Gates)
    BY DEF Gates
  <2>2. EffectiveGates(Current.bp, config) \in Seq(Gates) /\ config \in Configs
    BY GateListTypes DEF TypeOK
  <2>3. CASE \E todo \in Seq(Gates), label \in {"policy", "decide"} :
               run' = [run EXCEPT !.todo = todo, !.pc = label]
    <3>1. run' \in Run
      BY <1>0, <2>3, ZenonT(90) DEF Run, Labels
    <3> QED
      BY <1>3, <3>1, LaterTyped DEF Overrides
  <2>4. CASE run' = [run EXCEPT !.overrides = config, !.results = {}, !.pc = "policy",
                                !.todo = EffectiveGates(Current.bp, config)]
    <3>1. run' \in Run
      BY <1>0, <2>2, <2>4, ZenonT(90) DEF Run, Labels
    <3> QED
      BY <1>3, <3>1, LaterTyped DEF Overrides
  <2> QED
    BY <1>3, <2>1, <2>3, <2>4 DEF Overrides
<1>4. CASE LoadPolicy
  <2>1. CASE Raise
    BY <1>4, <2>1, GotoTyped DEF LoadPolicy, Raise, Labels
  <2>2. CASE run' = [run EXCEPT !.policy = WaiverPolicy, !.pc = "mandatory"]
    <3>1. run' \in Run
      BY <1>0, <2>2, PolicyTypes, ZenonT(90) DEF Run, Labels
    <3> QED
      BY <1>4, <3>1, LaterTyped DEF LoadPolicy
  <2> QED
    BY <1>4, <2>1, <2>2 DEF LoadPolicy
<1>5. CASE CheckMandatory
  <2>1. CASE Raise
    BY <1>5, <2>1, GotoTyped DEF CheckMandatory, Raise, Labels
  <2>2. CASE \E forbid \in BOOLEAN : run' = [run EXCEPT !.pc = "gates", !.forbid = forbid]
    <3>1. run' \in Run
      BY <1>0, <2>2, ZenonT(90) DEF Run, Labels
    <3> QED
      BY <1>5, <3>1, LaterTyped DEF CheckMandatory
  <2> QED
    BY <1>5, <2>1, <2>2 DEF CheckMandatory
<1>6. CASE RunGate
  <2>1. Head(run.todo) \in Gates /\ Tail(run.todo) \in Seq(Gates)
    BY <1>0, <1>6 DEF RunGate, Run
  <2>2. [gate |-> Head(run.todo), raw |-> Runner(Head(run.todo)), at |-> now,
         final |-> ApplyWaiverPolicy(Head(run.todo), Runner(Head(run.todo)))] \in Result
    BY <2>1, RunnerTypes DEF Result, TypeOK
  <2> QED
    BY <1>0, <1>6, <2>1, <2>2, LaterTyped DEF RunGate, Run, Labels
<1>7. CASE GatesDone
  BY <1>7, GotoTyped DEF GatesDone, Labels
<1>8. CASE FinishPreview
  <2>1. (run.green /\ AllGatesPassed) \in BOOLEAN
    OBVIOUS
  <2> QED
    BY <1>8, <2>1, AdvanceTyped DEF FinishPreview
<1>9. CASE Publish
  <2>1. run.published \cup {run.at} \in SUBSET DOMAIN job.members
    BY <1>0 DEF Run
  <2>2. run.published \in SUBSET DOMAIN job.members /\ run.green \in BOOLEAN
    BY <1>0 DEF Run
  <2> QED
    BY <1>9, <2>1, <2>2, AdvanceTyped DEF Publish
<1>10. CASE PublishRaises \/ PushBranch \/ OpenRequest \/ Label
  BY <1>10, GotoTyped
     DEF PublishRaises, PushBranch, OpenRequest, Label, Then, Raise, Labels
<1>11. CASE Withhold
  BY <1>0, <1>11, AdvanceTyped DEF Withhold, Run
<1>12. CASE Decide
  <2>1. CASE Raise
    BY <1>12, <2>1, GotoTyped DEF Decide, Raise, Labels
  <2>2. CASE \E allowed \in BOOLEAN : run' = [run EXCEPT !.pc = "push", !.allowed = allowed]
    <3>1. run' \in Run
      BY <1>0, <2>2, ZenonT(90) DEF Run, Labels
    <3> QED
      BY <1>12, <3>1, LaterTyped DEF Decide
  <2> QED
    BY <1>12, <2>1, <2>2 DEF Decide
<1>13. CASE Merge
  <2>1. run' \in Run
    BY <1>0, <1>13, ZenonT(90) DEF Merge, Run, Labels
  <2> QED
    BY <1>13, <2>1, LaterTyped DEF Merge
<1>14. CASE EditConfig \/ EditWaivers
  BY <1>14, GatingAssumption DEF EditConfig, EditWaivers, TypeOK, Run, Result
<1>15. CASE Tick
  BY <1>15, GatingAssumption DEF Tick, TypeOK, Run, Result
<1>16. CASE UNCHANGED vars
  BY <1>16 DEF vars, TypeOK, Run, Result
<1> QED
  BY <1>1, <1>2, <1>3, <1>4, <1>5, <1>6, <1>7, <1>8, <1>9, <1>10, <1>11, <1>12, <1>13, <1>14,
     <1>15, <1>16 DEF Next, JobStep

(* Every variable keeps its type, for every constant (Gating, TypeOK). *)
THEOREM GatingTypeCorrect == Spec => []TypeOK
<1>1. Init => TypeOK
  BY InitTyped
<1>2. TypeOK /\ [Next]_vars => TypeOK'
  BY StepTyped
<1> QED
  BY <1>1, <1>2, PTL DEF Spec

-----------------------------------------------------------------------------
(* The invariant *)

Busy == run.pc \notin {"idle", "done", "raised"}
Judging == run.pc \in {"gates", "finish", "decide", "push", "open", "label", "merge"}
Merging == run.pc \in {"push", "open", "label", "merge"}

(* Which steps belong to which kind of job, and what they start from. *)
Shape ==
  /\ run.pc \in {"validate", "policy", "mandatory"} => run.results = {}
  /\ run.pc = "overrides" /\ job.kind = "upgrade" => run.results = {}
  /\ run.pc = "finish" => job.kind # "upgrade" /\ run.todo = <<>>
  /\ Merging \/ run.pc = "decide" => job.kind = "upgrade"

(* Every member validated so far has its selection; as long as no file was  *)
(* edited, the platform skips spare its required rules, and if it goes      *)
(* without policy where policy is mandatory, a waiver outlasts the start.   *)
Spared(m) == config.skips \cap Required \cap RulesFor[m.bp] = {}
Excused == \E w \in waivers : /\ w.gate = MandatoryPolicy /\ w.entity = NoEntity
                              /\ w.expires > run.started
Validated(i) ==
  LET m == job.members[i]
  IN /\ run.selections[i] = Selection(m)
     /\ Untouched /\ Selects(m) => Spared(m)
     /\ Untouched /\ m.bp = "optional" /\ ~Selects(m) /\ config.v3 /\ config.mandatory
          /\ m.bp \in config.regulated => Excused

Selected ==
  Busy => \A i \in DOMAIN job.members : run.pc # "validate" \/ i < run.at => Validated(i)

(* The overrides in use are the file's while nobody has edited it. *)
Fresh == Busy /\ Untouched => run.overrides = config

(* A listed gate is still to come or has a result. *)
Listing ==
  run.pc \in {"policy", "mandatory", "gates", "finish"} /\ job.kind # "upgrade" =>
    \A gate \in Gates : Listed(gate) =>
      \/ \E i \in DOMAIN run.todo : run.todo[i] = gate
      \/ \E r \in run.results : r.gate = gate

(* The waivers in use are waivers, and the file's while nobody has edited it. *)
Loaded ==
  run.pc \in {"mandatory", "gates", "finish"} \/ (run.pc = "decide" /\ run.results # {}) =>
    run.policy.records \subseteq Waiver /\ (Untouched => run.policy = WaiverPolicy)

(* What a result says of the gate it is of. *)
Broken(gate) ==
  /\ gate \in {"checkov", "opa"} /\ gate \notin Current.missing
  /\ Current.violates \cap Required \cap RulesFor[Current.bp] \cap RulesOf(gate) # {}
Waived(r) ==
  \E w \in run.policy.records :
    /\ w.gate = r.gate /\ w.expires > r.at /\ w.entity \in {NoEntity, Current.entity}
    /\ job.kind # "bundle" => w.entity = NoEntity
Judged(r) ==
  /\ r.at >= run.started
  /\ r.raw # "failed" => r.final = r.raw
  /\ r.raw = "failed" => r.final = "failed" \/ (run.policy.on /\ Waived(r))
  /\ Untouched /\ Chosen # NoSelection /\ Broken(r.gate) => r.raw = "failed"

Results == Judging => \A r \in run.results : Judged(r)

(* An upgrade that may merge itself. *)
Mergeable ==
  /\ Current.change = "pins"
  /\ \A r \in run.results : r.raw # "skipped" /\ r.final = "passed"
  /\ Untouched => /\ config.v3 /\ config.auto /\ ~config.kill
                  /\ \A r \in run.results : r.raw = "passed"
Decided ==
  /\ Merging /\ run.allowed => Mergeable
  /\ run.pc = "merge" => run.allowed

Inv == Shape /\ Selected /\ Fresh /\ Listing /\ Loaded /\ Results /\ Decided

-----------------------------------------------------------------------------
(* Facts about waivers and gates *)

(* An open waiver is a record for the gate that has not run out. *)
LEMMA OpenIsUnexpired ==
  ASSUME NEW gate, NEW entity, NEW records, Open(EvaluateWaiver(gate, records, entity)),
         records \subseteq Waiver, now \in Nat
  PROVE  \E w \in records : /\ w.gate = gate /\ w.entity \in {NoEntity, entity}
                            /\ w.expires > now
<1> DEFINE matches == {w \in records : w.gate = gate /\ w.entity \in {NoEntity, entity}}
<1>1. matches # {} /\ ~(\A w \in matches : w.expires <= now)
  BY DEF Open, EvaluateWaiver
<1>2. PICK w \in matches : ~(w.expires <= now)
  BY <1>1
<1>3. w.expires \in Int
  BY <1>2 DEF Waiver
<1> QED
  BY <1>2, <1>3

(* A gate with no waiver on file has no record for everybody. *)
LEMMA MissingIsNone ==
  ASSUME NEW gate, NEW records, EvaluateWaiver(gate, records, NoEntity) = "missing"
  PROVE  \A w \in records : ~(w.gate = gate /\ w.entity = NoEntity)
BY DEF EvaluateWaiver

LEMMA FileOfWaivers == ASSUME TypeOK, waivers # Malformed PROVE waivers \subseteq Waiver
BY GatingAssumption DEF TypeOK

(* What a gate finds: a required rule that is broken is a failure.          *)
LEMMA RunnerFails ==
  ASSUME TypeOK, NEW gate \in Gates, Broken(gate), Chosen # NoSelection,
         Chosen = ResolveRules(Current),
         run.overrides.skips \cap Required \cap RulesFor[Current.bp] = {}
  PROVE  Runner(gate) = "failed"
<1>1. Current \in Member /\ Current.bp \in {"fixed", "custom", "optional"}
  BY JobTypes DEF Member
<1>2. CASE gate = "checkov"
  <2>1. PICK rule \in Checks : /\ rule \in Current.violates /\ rule \in Required
                               /\ rule \in RulesFor[Current.bp]
    BY <1>2 DEF Broken, RulesOf
  <2>2. rule \notin run.overrides.skips /\ rule \notin SelectionSkips
    BY <2>1 DEF ResolveRules, SelectionSkips
  <2> QED
    BY <1>2, <2>1, <2>2 DEF Broken, Runner, RunCheckov
<1>3. CASE gate = "opa"
  <2>1. PICK rule \in OpaRules : /\ rule \in Current.violates /\ rule \in Required
                                 /\ rule \in RulesFor[Current.bp]
    BY <1>3 DEF Broken, RulesOf
  <2>2. rule \in Chosen
    BY <2>1 DEF ResolveRules
  <2> QED
    BY <1>3, <2>1, <2>2 DEF Broken, Runner, RunOpa
<1> QED
  BY <1>2, <1>3 DEF Broken

-----------------------------------------------------------------------------
(* Every step keeps the invariant *)

LEMMA InitInv == Init => Inv
BY DEF Init, Inv, Shape, Selected, Fresh, Listing, Loaded, Results, Decided, Busy, Judging, Merging

LEMMA EndedInv ==
  ASSUME run'.pc \in {"idle", "done", "raised"}
  PROVE  Inv'
BY DEF Inv, Shape, Selected, Fresh, Listing, Loaded, Results, Decided, Busy, Judging, Merging

LEMMA RaiseInv == ASSUME TypeOK, Raise PROVE Inv'
<1>1. run'.pc = "raised"
  BY DEF TypeOK, Run, Raise, Goto
<1> QED
  BY <1>1, EndedInv

LEMMA StartInv == TypeOK /\ Start => Inv'
<1> SUFFICES ASSUME TypeOK, Start PROVE Inv'
  OBVIOUS
<1>1. /\ run'.pc = "validate" /\ run'.results = {} /\ run'.at = 1 /\ run'.overrides = config
      /\ config' = config
  BY DEF Start
<1>2. job'.members \in Seq(Member) /\ DOMAIN job'.members = 1..Len(job'.members)
  BY StartTypes DEF Start
<1> QED
  BY <1>1, <1>2 DEF Inv, Shape, Selected, Fresh, Listing, Loaded, Results, Decided, Busy,
                    Judging, Merging

(* The job goes on with the same member and has read nothing new. *)
LEMMA SelectedKept ==
  ASSUME TypeOK, Inv, Busy, UNCHANGED asked, run'.selections = run.selections,
         run'.since = run.since, run'.started = run.started, run.pc # "validate"
  PROVE  Selected'
BY DEF asked, Inv, Selected, Busy, Validated, Untouched, Spared, Excused

LEMMA ValidateInv == TypeOK /\ Inv /\ Validate => Inv'
<1> SUFFICES ASSUME TypeOK, Inv, Validate, ~Raise PROVE Inv'
  BY RaiseInv
<1> DEFINE m == Current
<1>0. /\ run.pc = "validate" /\ ~Refused(Current, run.overrides) /\ UNCHANGED asked
      /\ run \in Run /\ run.at \in 1..Len(job.members) /\ Len(job.members) \in Nat
      /\ DOMAIN job.members = 1..Len(job.members) /\ m \in Member
  BY JobTypes DEF Validate, TypeOK, Run
<1>1. /\ run'.selections = [run.selections EXCEPT ![run.at] = Selection(Current)]
      /\ run'.at = IF run.at = Len(job.members) THEN 1 ELSE run.at + 1
      /\ run'.pc = IF run.at = Len(job.members) THEN "overrides" ELSE "validate"
      /\ run'.overrides = run.overrides /\ run'.results = run.results
      /\ run'.since = run.since /\ run'.started = run.started
  BY <1>0 DEF Validate, Run
<1>2. UNCHANGED <<config, waivers, edits, job>>
  BY <1>0 DEF asked
<1>3. Untouched => run.overrides = config
  BY <1>0 DEF Inv, Fresh, Busy
<1>4. ASSUME NEW i \in DOMAIN job.members, i = run.at
      PROVE  Validated(i)'
  <2>1. run'.selections[i] = Selection(m) /\ m = job'.members[i]
    BY <1>0, <1>1, <1>2, <1>4 DEF Run, Current
  <2>2. Untouched /\ Selects(m) => Spared(m)
    BY <1>0, <1>3 DEF Refused, PlatformSkipsRefused, Spared
  <2>3. ASSUME Untouched, m.bp = "optional", ~Selects(m), config.v3, config.mandatory,
               m.bp \in config.regulated
        PROVE  Excused
    <3>1. ~SkipRaises /\ PolicySkipAllowed(m.bp, NoEntity)
      BY <1>0, <2>3 DEF Refused
    <3>2. waivers \subseteq Waiver
      BY <2>3, <3>1, FileOfWaivers DEF SkipRaises
    <3>3. Open(EvaluateWaiver(MandatoryPolicy, waivers, NoEntity))
      BY <2>3, <3>1 DEF PolicySkipAllowed, DecidePolicySkip
    <3>4. now \in Nat /\ run.started \in 0..now
      BY <1>0, GatingAssumption DEF TypeOK, Run
    <3>5. PICK w \in waivers : /\ w.gate = MandatoryPolicy /\ w.entity \in {NoEntity, NoEntity}
                               /\ w.expires > now
      BY <3>2, <3>3, <3>4, OpenIsUnexpired
    <3>6. w.expires \in Int
      BY <3>2, <3>5 DEF Waiver
    <3> QED
      BY <3>4, <3>5, <3>6 DEF Excused
  <2> QED
    BY <1>1, <1>2, <2>1, <2>2, <2>3 DEF Validated, Untouched, Spared, Excused
<1>5. ASSUME NEW i \in DOMAIN job.members, i < run.at
      PROVE  Validated(i)'
  <2>1. Validated(i)
    BY <1>0, <1>5 DEF Inv, Selected, Busy
  <2>2. run'.selections[i] = run.selections[i]
    BY <1>0, <1>1, <1>5 DEF Run
  <2> QED
    BY <1>1, <1>2, <2>1, <2>2 DEF Validated, Untouched, Spared, Excused
<1>6. Selected'
  BY <1>0, <1>1, <1>2, <1>4, <1>5 DEF Selected
<1>7. Fresh'
  BY <1>1, <1>2, <1>3 DEF Fresh, Untouched
<1>8. Shape'
  BY <1>0, <1>1 DEF Shape, Inv, Merging
<1> QED
  BY <1>1, <1>6, <1>7, <1>8 DEF Inv, Listing, Loaded, Results, Decided, Judging, Merging

LEMMA FreshKept ==
  ASSUME Inv, Busy, UNCHANGED asked, run'.since = run.since,
         run'.overrides \in {run.overrides, config}
  PROVE  Fresh'
BY DEF asked, Inv, Fresh, Busy, Untouched

(* Every listed gate is among the gates that will run. *)
LEMMA EffectiveGatesList ==
  ASSUME TypeOK, NEW overrides, NEW gate, Listed(gate)
  PROVE  \E i \in DOMAIN EffectiveGates(Current.bp, overrides) :
            EffectiveGates(Current.bp, overrides)[i] = gate
<1> DEFINE names == BlueprintGates[Current.bp]
<1>1. names \in Seq(Gates)
  BY JobTypes, GatingAssumption DEF Member
<1>2. PICK i \in DOMAIN names : names[i] = gate
  BY DEF Listed
<1>3. i \in DOMAIN Append(names, "infracost") /\ Append(names, "infracost")[i] = gate
  BY <1>1, <1>2 DEF Gates
<1> QED
  BY <1>2, <1>3 DEF EffectiveGates

LEMMA OverridesInv == TypeOK /\ Inv /\ Overrides => Inv'
<1> SUFFICES ASSUME TypeOK, Inv, Overrides PROVE Inv'
  OBVIOUS
<1>0. run.pc = "overrides" /\ Busy /\ UNCHANGED asked /\ run \in Run /\ job' = job
  BY DEF Overrides, Busy, TypeOK, asked
<1>1. /\ run'.selections = run.selections /\ run'.since = run.since
      /\ run'.started = run.started /\ run'.overrides \in {run.overrides, config}
      /\ run'.pc \in {"policy", "decide"} /\ run'.results = {} /\ run'.at = run.at
      /\ run'.pc = "decide" => job.kind = "upgrade"
      /\ job.kind # "upgrade" => run'.todo = EffectiveGates(Current.bp, config)
  <2>1. CASE job.kind = "upgrade"
    <3>1. PICK todo \in Seq(Gates), label \in {"policy", "decide"} :
            run' = [run EXCEPT !.todo = todo, !.pc = label]
      <4>1. <<"infracost">> \in Seq(Gates) /\ <<>> \in Seq(Gates)
        BY DEF Gates
      <4> QED
        BY <1>0, <2>1, <4>1 DEF Overrides
    <3>2. run.results = {}
      BY <1>0, <2>1 DEF Inv, Shape
    <3> QED
      BY <1>0, <2>1, <3>1, <3>2 DEF Run
  <2>2. CASE job.kind # "upgrade"
    <3>1. run' = [run EXCEPT !.overrides = config, !.results = {}, !.pc = "policy",
                             !.todo = EffectiveGates(Current.bp, config)]
      BY <1>0, <2>2 DEF Overrides
    <3> QED
      BY <1>0, <2>2, <3>1 DEF Run
  <2> QED
    BY <2>1, <2>2
<1>2. Selected'
  BY <1>0, <1>1, SelectedKept
<1>3. Fresh'
  BY <1>0, <1>1, FreshKept
<1>4. Listing'
  <2> SUFFICES ASSUME job.kind # "upgrade", NEW gate \in Gates, Listed(gate)
               PROVE  \E i \in DOMAIN run'.todo : run'.todo[i] = gate
    BY <1>0, <1>1 DEF Listing, Listed, Current
  <2> QED
    BY <1>1, EffectiveGatesList
<1>5. Shape' /\ Loaded' /\ Results' /\ Decided'
  BY <1>0, <1>1 DEF Shape, Loaded, Results, Decided, Judging, Merging
<1> QED
  BY <1>2, <1>3, <1>4, <1>5 DEF Inv

LEMMA LoadPolicyInv == TypeOK /\ Inv /\ LoadPolicy => Inv'
<1> SUFFICES ASSUME TypeOK, Inv, LoadPolicy, ~Raise PROVE Inv'
  BY RaiseInv
<1>0. /\ run.pc = "policy" /\ Busy /\ UNCHANGED asked /\ run \in Run /\ ~PolicyRaises
  BY DEF LoadPolicy, Busy, TypeOK
<1>1. /\ run'.selections = run.selections /\ run'.since = run.since /\ run'.at = run.at
      /\ run'.started = run.started /\ run'.overrides = run.overrides /\ run'.todo = run.todo
      /\ run'.pc = "mandatory" /\ run'.results = {} /\ run'.policy = WaiverPolicy
  BY <1>0 DEF LoadPolicy, Run, Inv, Shape
<1>2. UNCHANGED <<config, waivers, edits, job>>
  BY <1>0 DEF asked
<1>3. Selected' /\ Fresh'
  BY <1>0, <1>1, SelectedKept, FreshKept
<1>4. Listing'
  BY <1>0, <1>1, <1>2 DEF Inv, Listing, Listed, Current, Shape
<1>5. WaiverPolicy.records \subseteq Waiver /\ WaiverPolicy' = WaiverPolicy
  BY <1>0, <1>2, FileOfWaivers DEF WaiverPolicy, NoPolicy, PolicyRaises
<1>6. Shape' /\ Loaded' /\ Results' /\ Decided'
  BY <1>1, <1>5 DEF Shape, Loaded, Results, Decided, Judging, Merging
<1> QED
  BY <1>3, <1>4, <1>6 DEF Inv

LEMMA CheckMandatoryInv == TypeOK /\ Inv /\ CheckMandatory => Inv'
<1> SUFFICES ASSUME TypeOK, Inv, CheckMandatory, ~Raise PROVE Inv'
  BY RaiseInv
<1>0. /\ run.pc = "mandatory" /\ Busy /\ UNCHANGED asked /\ run \in Run
  BY DEF CheckMandatory, Busy, TypeOK
<1>1. /\ run'.selections = run.selections /\ run'.since = run.since /\ run'.at = run.at
      /\ run'.started = run.started /\ run'.overrides = run.overrides /\ run'.todo = run.todo
      /\ run'.pc = "gates" /\ run'.results = {} /\ run'.policy = run.policy
  BY <1>0 DEF CheckMandatory, Run, Inv, Shape
<1>2. UNCHANGED <<config, waivers, edits, job>>
  BY <1>0 DEF asked
<1>3. Selected' /\ Fresh'
  BY <1>0, <1>1, SelectedKept, FreshKept
<1>4. Listing'
  BY <1>0, <1>1, <1>2 DEF Inv, Listing, Listed, Current, Shape
<1>5. Loaded'
  BY <1>0, <1>1, <1>2 DEF Inv, Loaded, Untouched, WaiverPolicy
<1>6. Shape' /\ Results' /\ Decided'
  BY <1>1 DEF Shape, Results, Decided, Judging, Merging
<1> QED
  BY <1>3, <1>4, <1>5, <1>6 DEF Inv

(* The result a gate leaves is judged as the invariant says. *)
LEMMA ResultJudged ==
  ASSUME TypeOK, Inv, run.pc = "gates", NEW r, NEW gate \in Gates,
         r = [gate |-> gate, raw |-> Runner(gate), at |-> now,
              final |-> ApplyWaiverPolicy(gate, Runner(gate))]
  PROVE  Judged(r)
<1>0. /\ run \in Run /\ run.started \in 0..now /\ now \in Nat /\ run.at \in DOMAIN job.members
      /\ Current \in Member
  BY JobTypes, GatingAssumption DEF TypeOK, Run
<1>1. r.at >= run.started /\ r.gate = gate /\ r.raw = Runner(gate)
  BY <1>0
<1>2. r.raw # "failed" => r.final = r.raw
  BY DEF ApplyWaiverPolicy
<1>3. ASSUME r.raw = "failed", r.final # "failed"
      PROVE  run.policy.on /\ Waived(r)
  <2> DEFINE entity == IF job.kind = "bundle" THEN Current.entity ELSE NoEntity
  <2>1. run.policy.on /\ Open(EvaluateWaiver(gate, run.policy.records, entity))
    BY <1>3 DEF ApplyWaiverPolicy
  <2>2. run.policy.records \subseteq Waiver
    BY DEF Inv, Loaded
  <2>3. PICK w \in run.policy.records : /\ w.gate = gate /\ w.entity \in {NoEntity, entity}
                                        /\ w.expires > now
    BY <1>0, <2>1, <2>2, OpenIsUnexpired
  <2> QED
    BY <2>1, <2>3 DEF Waived
<1>4. ASSUME Untouched, Chosen # NoSelection, Broken(gate)
      PROVE  Runner(gate) = "failed"
  <2>1. Validated(run.at)
    BY <1>0 DEF Inv, Selected, Busy
  <2>2. Chosen = Selection(Current)
    BY <2>1 DEF Validated, Chosen, Current
  <2>3. Selects(Current) /\ Chosen = ResolveRules(Current)
    BY <1>0, <1>4, <2>2, SelectionTypes
  <2>4. run.overrides = config
    BY <1>4 DEF Inv, Fresh, Busy
  <2>5. run.overrides.skips \cap Required \cap RulesFor[Current.bp] = {}
    BY <1>4, <2>1, <2>3, <2>4 DEF Validated, Spared, Current
  <2> QED
    BY <1>4, <2>3, <2>5, RunnerFails
<1> QED
  BY <1>1, <1>2, <1>3, <1>4 DEF Judged

LEMMA RunGateInv == TypeOK /\ Inv /\ RunGate => Inv'
<1> SUFFICES ASSUME TypeOK, Inv, RunGate PROVE Inv'
  OBVIOUS
<1> DEFINE gate == Head(run.todo)
           new == [gate |-> gate, raw |-> Runner(gate), at |-> now,
                   final |-> ApplyWaiverPolicy(gate, Runner(gate))]
<1>0. /\ run.pc = "gates" /\ Busy /\ UNCHANGED asked /\ run \in Run
      /\ run.todo \in Seq(Gates) /\ run.todo # <<>> /\ gate \in Gates
  BY DEF RunGate, Busy, TypeOK, Run
<1>1. /\ run'.selections = run.selections /\ run'.since = run.since /\ run'.at = run.at
      /\ run'.started = run.started /\ run'.overrides = run.overrides
      /\ run'.todo = Tail(run.todo) /\ run'.pc = "gates" /\ run'.policy = run.policy
      /\ run'.results = run.results \cup {new}
  BY <1>0 DEF RunGate, Run
<1>2. UNCHANGED <<config, waivers, edits, job>>
  BY <1>0 DEF asked
<1>3. Selected' /\ Fresh'
  BY <1>0, <1>1, SelectedKept, FreshKept
<1>4. Listing'
  <2> SUFFICES ASSUME job.kind # "upgrade", NEW g \in Gates, Listed(g)
               PROVE  \/ \E i \in DOMAIN run'.todo : run'.todo[i] = g
                      \/ \E r \in run'.results : r.gate = g
    BY <1>1, <1>2 DEF Listing, Listed, Current
  <2>1. CASE \E r \in run.results : r.gate = g
    BY <1>1, <2>1
  <2>2. CASE \E i \in DOMAIN run.todo : run.todo[i] = g
    <3>1. PICK i \in DOMAIN run.todo : run.todo[i] = g
      BY <2>2
    <3>2. CASE i = 1
      <4>1. new \in run'.results /\ new.gate = g
        BY <1>0, <1>1, <3>1, <3>2
      <4> QED
        BY <4>1
    <3>3. CASE i # 1
      <4>1. i - 1 \in DOMAIN Tail(run.todo) /\ Tail(run.todo)[i - 1] = g
        BY <1>0, <3>1, <3>3
      <4> QED
        BY <1>1, <4>1
    <3> QED
      BY <3>2, <3>3
  <2> QED
    BY <1>0, <2>1, <2>2 DEF Inv, Listing
<1>5. Loaded'
  BY <1>0, <1>1, <1>2 DEF Inv, Loaded, Untouched, WaiverPolicy
<1>6. Results'
  <2>1. \A r \in run'.results : Judged(r)
    BY <1>0, <1>1, ResultJudged DEF Inv, Results, Judging
  <2>2. \A r : Judged(r) => Judged(r)'
    BY <1>1, <1>2 DEF Judged, Waived, Broken, Untouched, Chosen, Current
  <2> QED
    BY <2>1, <2>2 DEF Results
<1>7. Shape' /\ Decided'
  BY <1>1 DEF Shape, Decided, Merging
<1> QED
  BY <1>3, <1>4, <1>5, <1>6, <1>7 DEF Inv

LEMMA GatesDoneInv == TypeOK /\ Inv /\ GatesDone => Inv'
<1> SUFFICES ASSUME TypeOK, Inv, GatesDone PROVE Inv'
  OBVIOUS
<1>0. run.pc = "gates" /\ Busy /\ UNCHANGED asked /\ run \in Run /\ run.todo = <<>>
  BY DEF GatesDone, Busy, TypeOK
<1>1. /\ run' = [run EXCEPT !.pc = run'.pc]
      /\ run'.pc = IF job.kind = "upgrade" THEN "decide" ELSE "finish"
  BY <1>0 DEF GatesDone, Goto, Run
<1>2. UNCHANGED <<config, waivers, edits, job>>
  BY <1>0 DEF asked
<1>3. Selected' /\ Fresh'
  BY <1>0, <1>1, SelectedKept, FreshKept DEF Run
<1>4. Listing'
  BY <1>0, <1>1, <1>2 DEF Inv, Listing, Listed, Current, Run
<1>5. Loaded'
  BY <1>0, <1>1, <1>2 DEF Inv, Loaded, Untouched, WaiverPolicy, Run
<1>6. Results'
  <2>1. \A r : Judged(r) => Judged(r)'
    BY <1>0, <1>1, <1>2 DEF Judged, Waived, Broken, Untouched, Chosen, Current, Run
  <2> QED
    BY <1>0, <1>1, <2>1 DEF Inv, Results, Judging, Run
<1>7. Shape' /\ Decided'
  BY <1>0, <1>1, <1>2 DEF Shape, Decided, Merging, Run
<1> QED
  BY <1>3, <1>4, <1>5, <1>6, <1>7 DEF Inv

LEMMA AdvanceInv ==
  ASSUME TypeOK, Inv, run.pc = "finish", NEW green, NEW published,
         Advance(green, published), UNCHANGED asked
  PROVE  Inv'
<1>0. Busy /\ run \in Run /\ job.kind # "upgrade" /\ job' = job
  BY DEF Busy, TypeOK, Inv, Shape, asked
<1>1. /\ run'.selections = run.selections /\ run'.since = run.since
      /\ run'.started = run.started /\ run'.overrides = run.overrides
      /\ run'.pc \in {"overrides", "done"}
  <2>1. CASE run' = [run EXCEPT !.green = green, !.published = published, !.at = run.at + 1,
                                !.pc = "overrides"]
    BY <1>0, <2>1 DEF Run
  <2>2. CASE run' = [run EXCEPT !.green = green, !.phase = "apply", !.at = 1, !.pc = "overrides"]
    BY <1>0, <2>2 DEF Run
  <2>3. CASE run' = [run EXCEPT !.green = green, !.published = published, !.pc = "done"]
    BY <1>0, <2>3 DEF Run
  <2> QED
    BY <2>1, <2>2, <2>3 DEF Advance
<1>2. Selected' /\ Fresh'
  BY <1>0, <1>1, SelectedKept, FreshKept
<1>3. CASE run'.pc = "done"
  BY <1>3, EndedInv
<1>4. CASE run'.pc = "overrides"
  BY <1>0, <1>2, <1>4 DEF Inv, Shape, Listing, Loaded, Results, Decided, Judging, Merging
<1> QED
  BY <1>1, <1>3, <1>4

(* The request merges itself only if no gate failed, waived or not. *)
LEMMA DecideInv == TypeOK /\ Inv /\ Decide => Inv'
<1> SUFFICES ASSUME TypeOK, Inv, Decide, ~Raise PROVE Inv'
  BY RaiseInv
<1> DEFINE allowed == /\ config.v3 /\ ~config.kill /\ config.auto
                      /\ Mechanical /\ OutcomesGreen /\ WaiversClear
<1>0. run.pc = "decide" /\ Busy /\ UNCHANGED asked /\ run \in Run /\ job.kind = "upgrade"
  BY DEF Decide, Busy, TypeOK, Inv, Shape
<1>1. run' = [run EXCEPT !.pc = "push", !.allowed = allowed]
  BY DEF Decide
<1>2. UNCHANGED <<config, waivers, edits, job>>
  BY <1>0 DEF asked
<1>3. Selected' /\ Fresh'
  BY <1>0, <1>1, SelectedKept, FreshKept DEF Run
<1>4. \A r \in run.results : Judged(r) /\ r.raw \in Outcomes
  BY <1>0 DEF Inv, Results, Judging, Run, Result
<1>5. Results'
  <2>1. \A r : Judged(r) => Judged(r)'
    BY <1>0, <1>1, <1>2 DEF Judged, Waived, Broken, Untouched, Chosen, Current, Run
  <2> QED
    BY <1>0, <1>1, <1>4, <2>1 DEF Results, Run
<1>6. ASSUME allowed PROVE Mergeable
  <2>1. \A r \in run.results : r.raw # "skipped" /\ r.final = "passed"
    BY <1>4, <1>6 DEF OutcomesGreen, Judged
  <2>2. ASSUME Untouched, NEW r \in run.results PROVE r.raw = "passed"
    <3>1. run.policy = WaiverPolicy
      BY <1>0, <2>2 DEF Inv, Loaded
    <3>2. run.policy.on /\ run.policy.records = waivers
      BY <1>6, <3>1 DEF WaiverPolicy
    <3>3. \A w \in waivers : ~(w.gate = r.gate /\ w.entity = NoEntity)
      BY <1>6, <2>2, MissingIsNone DEF WaiversClear
    <3>4. ~Waived(r)
      BY <1>0, <3>2, <3>3 DEF Waived
    <3>5. r.raw # "failed"
      BY <1>4, <2>1, <2>2, <3>4 DEF Judged
    <3> QED
      BY <1>4, <2>1, <2>2, <3>5 DEF Outcomes
  <2> QED
    BY <1>6, <2>1, <2>2 DEF Mergeable, Mechanical
<1>7. Decided'
  <2>1. run'.allowed = allowed /\ run'.pc = "push" /\ run'.results = run.results
        /\ run'.at = run.at /\ run'.since = run.since
    BY <1>0, <1>1 DEF Run
  <2> QED
    BY <1>2, <1>6, <2>1 DEF Decided, Mergeable, Untouched, Current
<1>8. Shape'
  BY <1>0, <1>1, <1>2 DEF Shape, Merging, Run
<1> QED
  BY <1>0, <1>1, <1>3, <1>5, <1>7, <1>8 DEF Inv, Listing, Loaded, Run

LEMMA RequestInv ==
  ASSUME TypeOK, Inv, Merging, NEW label \in {"open", "label", "merge", "done"},
         label = "merge" => run.allowed, Goto(label), UNCHANGED asked
  PROVE  Inv'
<1>0. Busy /\ run \in Run /\ job.kind = "upgrade" /\ run.pc # "validate"
  BY DEF Busy, TypeOK, Inv, Shape, Merging
<1>1. run' = [run EXCEPT !.pc = label] /\ run'.pc = label
  BY <1>0 DEF Goto, Run
<1>2. UNCHANGED <<config, waivers, edits, job>>
  BY DEF asked
<1>3. CASE label = "done"
  BY <1>1, <1>3, EndedInv
<1>4. CASE label # "done"
  <2>1. Selected' /\ Fresh'
    BY <1>0, <1>1, SelectedKept, FreshKept DEF Run
  <2>2. \A r : Judged(r) => Judged(r)'
    BY <1>0, <1>1, <1>2 DEF Judged, Waived, Broken, Untouched, Chosen, Current, Run
  <2>3. Results'
    BY <1>0, <1>1, <2>2 DEF Inv, Results, Judging, Merging, Run
  <2>4. Decided'
    BY <1>0, <1>1, <1>2 DEF Inv, Decided, Mergeable, Merging, Untouched, Current, Run
  <2>5. Shape' /\ Listing' /\ Loaded'
    BY <1>0, <1>1, <1>2, <1>4 DEF Shape, Listing, Loaded, Merging, Run
  <2> QED
    BY <2>1, <2>3, <2>4, <2>5 DEF Inv
<1> QED
  BY <1>3, <1>4

LEMMA EditInv == TypeOK /\ Inv /\ (EditConfig \/ EditWaivers) => Inv'
<1> SUFFICES ASSUME TypeOK, Inv, EditConfig \/ EditWaivers PROVE Inv'
  OBVIOUS
<1>1. /\ UNCHANGED <<job, run>> /\ edits' = edits + 1
      /\ run.since \in 0..edits /\ edits \in 0..MaxEdits
  BY DEF EditConfig, EditWaivers, TypeOK, Run
<1>2. ~Untouched'
  BY <1>1, GatingAssumption DEF Untouched
<1> QED
  BY <1>1, <1>2 DEF Inv, Shape, Selected, Validated, Fresh, Listing, Listed, Loaded, Results,
                    Judged, Waived, Decided, Mergeable, Busy, Judging, Merging, Current, Chosen

LEMMA StepInv == TypeOK /\ Inv /\ [Next]_vars => Inv'
<1> SUFFICES ASSUME TypeOK, Inv, [Next]_vars PROVE Inv'
  OBVIOUS
<1>1. CASE Start \/ Validate \/ Overrides \/ LoadPolicy \/ CheckMandatory \/ RunGate
  BY <1>1, StartInv, ValidateInv, OverridesInv, LoadPolicyInv, CheckMandatoryInv, RunGateInv
<1>2. CASE GatesDone \/ Decide \/ EditConfig \/ EditWaivers
  BY <1>2, GatesDoneInv, DecideInv, EditInv
<1>3. CASE FinishPreview
  BY <1>3, AdvanceInv DEF FinishPreview
<1>4. CASE Publish
  BY <1>4, AdvanceInv DEF Publish
<1>5. CASE Withhold
  BY <1>5, AdvanceInv DEF Withhold
<1>6. CASE PublishRaises
  BY <1>6, RaiseInv DEF PublishRaises
<1>7. CASE PushBranch
  BY <1>7, RaiseInv, RequestInv DEF PushBranch, Then, Merging
<1>8. CASE OpenRequest
  BY <1>8, RaiseInv, RequestInv DEF OpenRequest, Then, Merging
<1>9. CASE Label
  BY <1>9, RaiseInv, RequestInv DEF Label, Then, Merging
<1>10. CASE Merge
  <2>1. run'.pc = "done"
    BY <1>10 DEF Merge, TypeOK, Run
  <2> QED
    BY <2>1, EndedInv
<1>11. CASE Tick
  BY <1>11 DEF Tick, Inv, Shape, Selected, Validated, Spared, Excused, Fresh, Untouched, Listing,
               Listed, Loaded, WaiverPolicy, Results, Judged, Waived, Broken, Decided, Mergeable,
               Busy, Judging, Merging, Current, Chosen
<1>12. CASE UNCHANGED vars
  BY <1>12 DEF vars, Inv, Shape, Selected, Validated, Spared, Excused, Fresh, Untouched, Listing,
               Listed, Loaded, WaiverPolicy, Results, Judged, Waived, Broken, Decided, Mergeable,
               Busy, Judging, Merging, Current, Chosen
<1> QED
  BY <1>1, <1>2, <1>3, <1>4, <1>5, <1>6, <1>7, <1>8, <1>9, <1>10, <1>11, <1>12 DEF Next, JobStep

(* The invariant holds throughout (Gating, Spec). *)
THEOREM GatingInvariant == Spec => [](TypeOK /\ Inv)
<1>1. Init => TypeOK /\ Inv
  BY InitTyped, InitInv
<1>2. TypeOK /\ Inv /\ [Next]_vars => (TypeOK /\ Inv)'
  BY StepTyped, StepInv
<1> QED
  BY <1>1, <1>2, PTL DEF Spec

-----------------------------------------------------------------------------
(* What follows *)

(* Only the end of a member's gates publishes, and only when all passed. *)
LEMMA PublishesAfterGates ==
  ASSUME TypeOK, [Next]_vars, Publishes
  PROVE  run.pc = "finish" /\ AllGatesPassed
<1>0. run \in Run
  BY DEF TypeOK
<1>1. CASE Start
  BY <1>1 DEF Start, Publishes
<1>2. ASSUME Goto(run'.pc) PROVE FALSE
  BY <1>0, <1>2 DEF Goto, Publishes, Run
<1>3. CASE Validate
  BY <1>0, <1>2, <1>3 DEF Validate, Raise, Goto, Publishes, Run
<1>4. CASE Overrides
  BY <1>0, <1>4 DEF Overrides, Publishes, Run
<1>5. CASE LoadPolicy \/ CheckMandatory
  BY <1>0, <1>5 DEF LoadPolicy, CheckMandatory, Raise, Goto, Publishes, Run
<1>6. CASE RunGate
  BY <1>0, <1>6 DEF RunGate, Publishes, Run
<1>7. CASE GatesDone
  BY <1>0, <1>7 DEF GatesDone, Goto, Publishes, Run
<1>8. CASE FinishPreview
  <2>1. run'.published = {} \/ run'.published = run.published
    BY <1>0, <1>8 DEF FinishPreview, Advance, Run
  <2> QED
    BY <2>1 DEF Publishes
<1>9. CASE Publish
  BY <1>9 DEF Publish
<1>10. CASE PublishRaises
  BY <1>10 DEF PublishRaises
<1>11. CASE Withhold
  <2>1. run'.published = run.published
    BY <1>0, <1>11 DEF Withhold, Advance, Run
  <2> QED
    BY <2>1 DEF Publishes
<1>12. CASE Decide
  BY <1>0, <1>12 DEF Decide, Raise, Goto, Publishes, Run
<1>13. CASE PushBranch \/ OpenRequest \/ Label
  BY <1>0, <1>13 DEF PushBranch, OpenRequest, Label, Then, Raise, Goto, Publishes, Run
<1>14. CASE Merge
  BY <1>0, <1>14 DEF Merge, Publishes, Run
<1>15. CASE EditConfig \/ EditWaivers \/ Tick \/ UNCHANGED vars
  BY <1>15 DEF EditConfig, EditWaivers, Tick, vars, Publishes
<1> QED
  BY <1>1, <1>3, <1>4, <1>5, <1>6, <1>7, <1>8, <1>9, <1>10, <1>11, <1>12, <1>13, <1>14, <1>15
     DEF Next, JobStep

(* A published member's listed gates all have a result that is not a        *)
(* failure, judged as the invariant says.                                   *)
LEMMA PublishedIsJudged ==
  ASSUME TypeOK, Inv, [Next]_vars, Publishes, NEW gate \in Gates, Listed(gate)
  PROVE  \E r \in run.results : r.gate = gate /\ Judged(r) /\ r.final # "failed"
<1>1. run.pc = "finish" /\ AllGatesPassed /\ job.kind # "upgrade" /\ run.todo = <<>>
  BY PublishesAfterGates DEF Inv, Shape
<1>2. PICK r \in run.results : r.gate = gate
  BY <1>1 DEF Inv, Listing
<1> QED
  BY <1>1, <1>2 DEF Inv, Results, Judging, AllGatesPassed

(* No gate's failure ships without a waiver (run_gates).                    *)
THEOREM FailuresStayHome == Spec => NoFailureShips
<1> DEFINE A == Publishes => \A gate \in Gates : Listed(gate) => \E r \in run.results :
                  /\ r.gate = gate
                  /\ r.raw = "failed" => Covers(run.policy.records, gate, r.at)
<1>1. TypeOK /\ Inv /\ [Next]_vars => [A]_vars
  <2> SUFFICES ASSUME TypeOK, Inv, [Next]_vars, Publishes, NEW gate \in Gates, Listed(gate)
               PROVE  \E r \in run.results :
                        /\ r.gate = gate
                        /\ r.raw = "failed" => Covers(run.policy.records, gate, r.at)
    OBVIOUS
  <2>1. PICK r \in run.results : r.gate = gate /\ Judged(r) /\ r.final # "failed"
    BY PublishedIsJudged
  <2>2. r.raw = "failed" => Covers(run.policy.records, gate, r.at)
    BY <2>1 DEF Judged, Waived, Covers
  <2> QED
    BY <2>1, <2>2
<1> HIDE DEF A
<1>2. Spec => [][A]_vars
  BY <1>1, GatingInvariant, PTL DEF Spec
<1> QED
  BY <1>2 DEF A, NoFailureShips

(* No broken required rule ships without a waiver, whatever was picked      *)
(* (resolve_profile_rule_ids, _validate_platform_skips).                    *)
THEOREM RequiredRulesHold == Spec => RequiredRulesEnforced
<1> DEFINE A == Publishes /\ Chosen # NoSelection /\ Untouched => \A gate \in {"checkov", "opa"} :
        Listed(gate) /\ gate \notin Current.missing
          /\ Current.violates \cap Required \cap RulesFor[Current.bp] \cap RulesOf(gate) # {}
        => Covers(waivers, gate, run.started)
<1>1. TypeOK /\ Inv /\ [Next]_vars => [A]_vars
  <2> SUFFICES ASSUME TypeOK, Inv, [Next]_vars, Publishes, Chosen # NoSelection, Untouched,
                      NEW gate \in {"checkov", "opa"}, Listed(gate), Broken(gate)
               PROVE  Covers(waivers, gate, run.started)
    BY DEF Broken
  <2>1. PICK r \in run.results : r.gate = gate /\ Judged(r) /\ r.final # "failed"
    BY PublishedIsJudged DEF Gates
  <2>2. run.policy = WaiverPolicy /\ run.policy.records \subseteq Waiver
    BY PublishesAfterGates DEF Inv, Loaded
  <2>3. run.policy.on /\ Waived(r) /\ r.at >= run.started
    BY <2>1 DEF Judged
  <2>4. run.policy.records = waivers
    BY <2>2, <2>3 DEF WaiverPolicy, NoPolicy
  <2>5. PICK w \in waivers : /\ w.gate = r.gate /\ w.expires > r.at
                             /\ w.entity \in {NoEntity, Current.entity}
    BY <2>3, <2>4 DEF Waived
  <2>6. w.expires \in Int /\ r.at \in Int /\ run.started \in Int
    BY <2>1, <2>2, <2>4, <2>5, GatingAssumption DEF TypeOK, Run, Result, Waiver
  <2> QED
    BY <2>1, <2>3, <2>5, <2>6 DEF Covers
<1> HIDE DEF A
<1>2. Spec => [][A]_vars
  BY <1>1, GatingInvariant, PTL DEF Spec
<1> QED
  BY <1>2 DEF A, RequiredRulesEnforced

(* Nothing goes out without a mandatory policy pack unless it was excused   *)
(* (normalize_policy_inputs).                                               *)
THEOREM MandatoryPolicyIsKept == Spec => MandatoryPolicyHolds
<1> DEFINE A == Publishes /\ Current.bp = "optional" /\ Chosen = NoSelection /\ Untouched
       /\ config.v3 /\ config.mandatory /\ Current.bp \in config.regulated
     => Covers(waivers, MandatoryPolicy, run.started)
<1>1. TypeOK /\ Inv /\ [Next]_vars => [A]_vars
  <2> SUFFICES ASSUME TypeOK, Inv, [Next]_vars, Publishes, Current.bp = "optional",
                      Chosen = NoSelection, Untouched, config.v3, config.mandatory,
                      Current.bp \in config.regulated
               PROVE  Covers(waivers, MandatoryPolicy, run.started)
    OBVIOUS
  <2>1. run.pc = "finish" /\ run.at \in DOMAIN job.members
    BY PublishesAfterGates DEF TypeOK, Run
  <2>2. Validated(run.at)
    BY <2>1 DEF Inv, Selected, Busy
  <2>3. Chosen = Selection(Current)
    BY <2>2 DEF Validated, Chosen, Current
  <2>4. ~Selects(Current)
    BY <2>3, JobTypes, SelectionTypes
  <2>5. Excused
    BY <2>2, <2>4 DEF Validated, Current
  <2> QED
    BY <2>5 DEF Excused, Covers
<1> HIDE DEF A
<1>2. Spec => [][A]_vars
  BY <1>1, GatingInvariant, PTL DEF Spec
<1> QED
  BY <1>2 DEF A, MandatoryPolicyHolds

(* An upgrade merges itself only when its gates passed without a waiver and *)
(* the platform allows it (decide_auto_merge).                              *)
THEOREM MergesAreGreen == Spec => MergedIsGreen
<1> DEFINE A == run'.merged /\ ~run.merged =>
       /\ Current.change = "pins"
       /\ \A r \in run.results : r.raw # "skipped" /\ r.final = "passed"
       /\ Untouched => /\ config.v3 /\ config.auto /\ ~config.kill
                       /\ \A r \in run.results : r.raw = "passed"
<1>1. ASSUME TypeOK, [Next]_vars, run'.merged, ~run.merged
      PROVE  run.pc = "merge"
  <2>0. run \in Run
    BY <1>1 DEF TypeOK
  <2>1. CASE Start
    BY <1>1, <2>1 DEF Start
  <2>2. CASE Validate \/ Overrides \/ LoadPolicy \/ CheckMandatory
    BY <1>1, <2>0, <2>2 DEF Validate, Overrides, LoadPolicy, CheckMandatory, Raise, Goto, Run
  <2>3. CASE RunGate \/ GatesDone \/ Decide
    BY <1>1, <2>0, <2>3 DEF RunGate, GatesDone, Decide, Raise, Goto, Run
  <2>4. CASE FinishPreview \/ Publish \/ Withhold
    BY <1>1, <2>0, <2>4 DEF FinishPreview, Publish, Withhold, Advance, Run
  <2>5. CASE PublishRaises \/ PushBranch \/ OpenRequest \/ Label
    BY <1>1, <2>0, <2>5 DEF PublishRaises, PushBranch, OpenRequest, Label, Then, Raise, Goto, Run
  <2>6. CASE Merge
    BY <2>6 DEF Merge
  <2>7. CASE EditConfig \/ EditWaivers \/ Tick \/ UNCHANGED vars
    BY <1>1, <2>7 DEF EditConfig, EditWaivers, Tick, vars
  <2> QED
    BY <1>1, <2>1, <2>2, <2>3, <2>4, <2>5, <2>6, <2>7 DEF Next, JobStep
<1>2. TypeOK /\ Inv /\ [Next]_vars => [A]_vars
  <2> SUFFICES ASSUME TypeOK, Inv, [Next]_vars, run'.merged, ~run.merged PROVE A
    OBVIOUS
  <2>1. run.pc = "merge"
    BY <1>1
  <2>2. Mergeable
    BY <2>1 DEF Inv, Decided, Merging
  <2> QED
    BY <2>2 DEF Mergeable
<1> HIDE DEF A
<1>3. Spec => [][A]_vars
  BY <1>2, GatingInvariant, PTL DEF Spec
<1> QED
  BY <1>3 DEF A, MergedIsGreen

-----------------------------------------------------------------------------
(* A bundle's two passes *)

(* The preview fails where a tool is missing and the apply pass skips there, *)
(* so that apart from waivers only two things can fail in the apply pass:    *)
(* what breaks a gate in both, and policy that must not be skipped.          *)
Breaks(m, gate) ==
  LET chosen == Selection(m)
      skipped == IF chosen = NoSelection THEN {} ELSE (Checks \cap RulesFor[m.bp]) \ chosen
      opa == IF chosen = NoSelection THEN OpaRules ELSE OpaRules \cap chosen
  IN \/ gate = "checkov" /\ m.violates \cap (Checks \ (config.skips \cup skipped)) # {}
     \/ gate = "opa" /\ ~(chosen = NoSelection /\ m.bp = "optional") /\ m.violates \cap opa # {}
     \/ gate = "infracost" /\ IF "infracost" \in m.missing THEN config.cost ELSE "cost" \in m.violates

Unguarded(m, gate) == gate = "opa" /\ Selection(m) = NoSelection /\ m.bp = "optional"
Demanded(m) == config.v3 /\ config.mandatory /\ m.bp \in config.regulated

(* A waiver that outlasts the start of the job, and one that ran out since. *)
For(w, gate, m) == w.gate = gate /\ w.entity \in {NoEntity, m.entity}
Granted(gate, m) == config.v3 /\ \E w \in waivers : For(w, gate, m) /\ w.expires > run.started
Lapsed == \E w \in waivers \cap Waiver : w.expires > run.started /\ w.expires <= now

(* What may fail in the apply pass had a waiver in the preview. *)
Previewed(m, gate) ==
  /\ Breaks(m, gate) => Granted(gate, m)
  /\ Unguarded(m, gate) /\ Demanded(m) => Granted(gate, m) \/ Granted(MandatoryPolicy, m)

Due(m, overrides, gate) ==
  \E i \in DOMAIN EffectiveGates(m.bp, overrides) : EffectiveGates(m.bp, overrides)[i] = gate

Bundled == job.kind = "bundle" /\ Untouched

(* Exactly the gates of the list are to come or have a result. *)
DueExactly ==
  run.pc \in {"policy", "mandatory", "gates", "finish"} /\ job.kind = "bundle" =>
    \A gate \in Gates :
      Due(Current, run.overrides, gate) <=> \/ \E i \in DOMAIN run.todo : run.todo[i] = gate
                                            \/ \E r \in run.results : r.gate = gate

ForbidsRightly ==
  run.pc \in {"gates", "finish"} /\ Bundled =>
    /\ run.forbid => /\ Demanded(Current)
                     /\ \A w \in waivers : For(w, MandatoryPolicy, Current) => w.expires <= now
    /\ ~run.forbid /\ Demanded(Current) => Granted(MandatoryPolicy, Current)

MembersPreviewed ==
  Busy /\ run.pc # "validate" /\ Bundled =>
    \A i \in DOMAIN job.members : run.phase = "apply" \/ (run.green /\ i < run.at) =>
      \A gate \in Gates : Due(job.members[i], config, gate) => Previewed(job.members[i], gate)

Tells(r) ==
  /\ run.phase = "preview" /\ r.final # "failed" => Previewed(Current, r.gate)
  /\ run.phase = "apply" /\ r.final = "failed" => Lapsed

GatesTell == run.pc \in {"gates", "finish"} /\ Bundled => \A r \in run.results : Tells(r)

PreviewFirst == run.pc = "validate" /\ job.kind = "bundle" => run.phase = "preview"

BundleInv == PreviewFirst /\ DueExactly /\ ForbidsRightly /\ MembersPreviewed /\ GatesTell
LEMMA BundleEnded ==
  ASSUME run'.pc \notin {"validate", "overrides", "policy", "mandatory", "gates", "finish"}
           \/ job'.kind # "bundle"
  PROVE  (run'.pc \in {"idle", "done", "raised"} \/ job'.kind # "bundle") => BundleInv'
BY DEF BundleInv, PreviewFirst, DueExactly, ForbidsRightly, MembersPreviewed, GatesTell, Bundled, Busy

(* What was granted and previewed does not depend on the time or the step. *)
LEMMA PreviewedKept ==
  ASSUME UNCHANGED <<config, waivers>>, run'.started = run.started
  PROVE  /\ \A m, gate : Granted(gate, m)' <=> Granted(gate, m)
         /\ \A m, gate : Previewed(m, gate)' <=> Previewed(m, gate)
         /\ \A m : Demanded(m)' <=> Demanded(m)
<1>1. \A m, gate : Granted(gate, m)' <=> Granted(gate, m)
  BY DEF Granted, For
<1>2. \A m : Demanded(m)' <=> Demanded(m)
  BY DEF Demanded
<1>3. \A m, gate : Breaks(m, gate)' <=> Breaks(m, gate)
  BY DEF Breaks
<1>4. \A m, gate : Unguarded(m, gate)' <=> Unguarded(m, gate)
  BY DEF Unguarded
<1> QED BY <1>1, <1>2, <1>3, <1>4 DEF Previewed

(* What the previews of the members showed is still so. *)
LEMMA MembersKept ==
  ASSUME MembersPreviewed, Busy, run.pc # "validate", UNCHANGED asked,
         run'.since = run.since, run'.started = run.started,
         run'.phase = "apply" => run.phase = "apply",
         run'.phase = "preview" => run.phase = "preview" /\ run'.green = run.green /\ run'.at = run.at,
         run'.phase \in {"preview", "apply"}
  PROVE  MembersPreviewed'
<1>1. UNCHANGED <<config, waivers, edits, job>>
  BY DEF asked
<1>2. \A m, gate : Previewed(m, gate)' <=> Previewed(m, gate)
  BY <1>1, PreviewedKept
<1>3. Bundled' => Bundled
  BY <1>1 DEF Bundled, Untouched
<1> QED BY <1>1, <1>2, <1>3 DEF MembersPreviewed

LEMMA ClosedIsLapsed ==
  ASSUME NEW gate, NEW entity, NEW records, ~Open(EvaluateWaiver(gate, records, entity)),
         NEW w \in records, w.gate = gate, w.entity \in {NoEntity, entity}
  PROVE  w.expires <= now
<1> DEFINE matches == {v \in records : v.gate = gate /\ v.entity \in {NoEntity, entity}}
<1>1. w \in matches
  OBVIOUS
<1>2. \A v \in matches : v.expires <= now
  BY <1>1 DEF Open, EvaluateWaiver
<1> QED BY <1>1, <1>2

(* While a gate of a bundle runs and nobody has edited: what it goes by.    *)
LEMMA AtGates ==
  ASSUME TypeOK, Inv, run.pc \in {"gates", "finish"}, Bundled
  PROVE  /\ Current \in Member /\ Chosen = Selection(Current)
         /\ run.overrides = config /\ run.policy = WaiverPolicy
         /\ run.policy.records \subseteq Waiver
         /\ now \in Nat /\ run.started \in Nat /\ run.started <= now
<1>1. Current \in Member /\ run.at \in DOMAIN job.members
  BY JobTypes DEF TypeOK, Run
<1>2. Validated(run.at)
  BY <1>1 DEF Inv, Selected, Busy
<1>3. Chosen = Selection(Current)
  BY <1>2 DEF Validated, Chosen, Current
<1>4. run.overrides = config
  BY DEF Inv, Fresh, Busy, Bundled
<1>5. run.policy = WaiverPolicy /\ run.policy.records \subseteq Waiver
  BY DEF Inv, Loaded, Bundled
<1>6. now \in Nat /\ run.started \in 0..now
  BY GatingAssumption DEF TypeOK, Run
<1> QED BY <1>1, <1>3, <1>4, <1>5, <1>6

LEMMA PreviewFinds ==
  ASSUME TypeOK, Inv, run.pc = "gates", Bundled, run.phase = "preview", NEW gate \in Gates,
         Runner(gate) # "failed"
  PROVE  ~Breaks(Current, gate) /\ ~(Unguarded(Current, gate) /\ run.forbid)
<1>1. /\ Chosen = Selection(Current) /\ run.overrides = config /\ ToolchainSkip = "failed"
      /\ Current \in Member
  BY AtGates DEF ToolchainSkip, RequireRun
<1>2. CASE gate = "checkov"
  BY <1>1, <1>2 DEF Runner, RunCheckov, SelectionSkips, Breaks, Unguarded
<1>3. CASE gate = "opa"
  BY <1>1, <1>3 DEF Runner, RunOpa, Breaks, Unguarded
<1>4. CASE gate = "infracost"
  BY <1>1, <1>4 DEF Runner, RunInfracost, Breaks, Unguarded
<1> QED BY <1>2, <1>3, <1>4 DEF Gates

LEMMA ApplyFinds ==
  ASSUME TypeOK, Inv, run.pc = "gates", Bundled, run.phase = "apply", NEW gate \in Gates,
         Runner(gate) = "failed"
  PROVE  Breaks(Current, gate) \/ (Unguarded(Current, gate) /\ run.forbid)
<1>1. /\ Chosen = Selection(Current) /\ run.overrides = config /\ ToolchainSkip = "skipped"
      /\ Current \in Member
  BY AtGates DEF ToolchainSkip, RequireRun
<1>2. CASE gate = "checkov"
  BY <1>1, <1>2 DEF Runner, RunCheckov, SelectionSkips, Breaks
<1>3. CASE gate = "opa"
  BY <1>1, <1>3 DEF Runner, RunOpa, Breaks, Unguarded
<1>4. CASE gate = "infracost"
  BY <1>1, <1>4 DEF Runner, RunInfracost, Breaks
<1> QED BY <1>2, <1>3, <1>4 DEF Gates

(* A failure that passes was granted a waiver, and if it does not pass      *)
(* although it was granted one, that one has run out.                       *)
LEMMA WaiverGranted ==
  ASSUME TypeOK, Inv, run.pc = "gates", Bundled, NEW gate \in Gates, Runner(gate) = "failed",
         ApplyWaiverPolicy(gate, Runner(gate)) # "failed"
  PROVE  Granted(gate, Current)
<1>1. run.policy.on /\ Open(EvaluateWaiver(gate, run.policy.records, Current.entity))
  BY DEF ApplyWaiverPolicy, Bundled
<1>2. PICK w \in run.policy.records : /\ w.gate = gate /\ w.entity \in {NoEntity, Current.entity}
                                      /\ w.expires > now
  BY <1>1, AtGates, OpenIsUnexpired
<1>3. config.v3 /\ run.policy.records = waivers
  BY <1>1, AtGates DEF WaiverPolicy, NoPolicy
<1>4. w.expires \in Int
  BY <1>2, AtGates DEF Waiver
<1>5. w.expires > run.started
  BY <1>2, <1>4, AtGates
<1> QED BY <1>2, <1>3, <1>5 DEF Granted, For

LEMMA WaiverLapsed ==
  ASSUME TypeOK, Inv, run.pc = "gates", Bundled, NEW gate \in Gates, Runner(gate) = "failed",
         ApplyWaiverPolicy(gate, Runner(gate)) = "failed", Granted(gate, Current)
  PROVE  Lapsed
<1>1. run.policy.on /\ run.policy.records = waivers
  BY AtGates DEF Granted, WaiverPolicy
<1>2. ~Open(EvaluateWaiver(gate, waivers, Current.entity))
  BY <1>1 DEF ApplyWaiverPolicy, Bundled
<1>3. PICK w \in waivers : For(w, gate, Current) /\ w.expires > run.started
  BY DEF Granted
<1>4. w.expires <= now
  BY <1>2, <1>3, ClosedIsLapsed DEF For
<1> QED BY <1>1, <1>3, <1>4, AtGates DEF Lapsed

(* What the result of one gate of a bundle tells. *)
LEMMA ResultTells ==
  ASSUME TypeOK, Inv, BundleInv, run.pc = "gates", Bundled, NEW gate \in Gates,
         Due(Current, run.overrides, gate), NEW r,
         r.gate = gate, r.final = ApplyWaiverPolicy(gate, Runner(gate))
  PROVE  Tells(r)
<1>1. CASE run.phase = "preview" /\ r.final # "failed"
  <2>1. CASE Runner(gate) = "failed"
    <3>1. Granted(gate, Current)
      BY <1>1, <2>1, WaiverGranted
    <3> QED BY <1>1, <3>1 DEF Tells, Previewed
  <2>2. CASE Runner(gate) # "failed"
    <3>1. ~Breaks(Current, gate) /\ ~(Unguarded(Current, gate) /\ run.forbid)
      BY <1>1, <2>2, PreviewFinds
    <3>2. ~run.forbid /\ Demanded(Current) => Granted(MandatoryPolicy, Current)
      BY DEF BundleInv, ForbidsRightly
    <3> QED BY <1>1, <3>1, <3>2 DEF Tells, Previewed
  <2> QED BY <2>1, <2>2
<1>2. CASE run.phase = "apply" /\ r.final = "failed"
  <2>1. Runner(gate) = "failed"
    BY <1>2 DEF ApplyWaiverPolicy
  <2>2. Previewed(Current, gate)
    <3>1. run.at \in DOMAIN job.members /\ run.overrides = config
      BY AtGates DEF TypeOK, Run
    <3> QED BY <1>2, <3>1 DEF BundleInv, MembersPreviewed, Busy, Current
  <2>3. CASE Granted(gate, Current)
    BY <1>2, <2>1, <2>3, WaiverLapsed DEF Tells
  <2>4. CASE ~Granted(gate, Current)
    <3>1. Unguarded(Current, gate) /\ run.forbid
      BY <1>2, <2>1, <2>2, <2>4, ApplyFinds DEF Previewed
    <3>2. /\ Demanded(Current)
          /\ \A w \in waivers : For(w, MandatoryPolicy, Current) => w.expires <= now
      BY <3>1 DEF BundleInv, ForbidsRightly
    <3>3. Granted(MandatoryPolicy, Current)
      BY <2>2, <2>4, <3>1, <3>2 DEF Previewed
    <3>4. waivers \subseteq Waiver
      BY <3>2, AtGates DEF Demanded, WaiverPolicy
    <3> QED BY <1>2, <3>2, <3>3, <3>4 DEF Granted, Lapsed, Tells
  <2> QED BY <2>3, <2>4
<1> QED BY <1>1, <1>2 DEF Tells


(* Every step keeps this invariant too *)

LEMMA BundleStart == TypeOK /\ Start => BundleInv'
<1> SUFFICES ASSUME TypeOK, Start PROVE BundleInv'
  OBVIOUS
<1>1. run'.pc = "validate" /\ (job'.kind = "bundle" => run'.phase = "preview")
  BY DEF Start
<1> QED BY <1>1 DEF BundleInv, PreviewFirst, DueExactly, ForbidsRightly, MembersPreviewed, GatesTell

LEMMA BundleRaise == ASSUME TypeOK, Raise PROVE BundleInv'
<1>1. run'.pc = "raised"
  BY DEF TypeOK, Run, Raise, Goto
<1> QED BY <1>1, BundleEnded

LEMMA BundleValidate == TypeOK /\ BundleInv /\ Validate => BundleInv'
<1> SUFFICES ASSUME TypeOK, BundleInv, Validate, ~Raise PROVE BundleInv'
  BY BundleRaise
<1>1. run \in Run /\ run.pc = "validate" /\ job' = job /\ DOMAIN job.members = 1..Len(job.members)
  BY JobTypes DEF TypeOK, Validate, asked
<1>2. /\ run'.phase = run.phase /\ run'.pc \in {"validate", "overrides"}
      /\ run'.pc = "overrides" => run'.at = 1
  BY <1>1 DEF Validate, Run
<1>3. job.kind = "bundle" => run.phase = "preview"
  BY <1>1 DEF BundleInv, PreviewFirst
<1> QED BY <1>1, <1>2, <1>3
        DEF BundleInv, PreviewFirst, DueExactly, ForbidsRightly, MembersPreviewed, GatesTell, Bundled

(* A step at one member that has no result to look at. *)
LEMMA BundleGoesOn ==
  ASSUME TypeOK, BundleInv, Busy, run.pc # "validate", UNCHANGED asked,
         run'.since = run.since, run'.started = run.started, run'.phase = run.phase,
         run'.green = run.green, run'.at = run.at,
         run'.pc \in {"policy", "mandatory", "gates", "finish"}, DueExactly', ForbidsRightly', GatesTell'
  PROVE  BundleInv'
<1>1. run.phase \in {"preview", "apply"}
  BY DEF TypeOK, Run
<1>2. MembersPreviewed'
  BY <1>1, MembersKept DEF BundleInv
<1> QED BY <1>2 DEF BundleInv, PreviewFirst

LEMMA BundleReads ==
  ASSUME TypeOK, Inv, BundleInv, Overrides \/ LoadPolicy, job.kind = "bundle"
  PROVE  BundleInv'
<1> SUFFICES ASSUME ~Raise PROVE BundleInv'
  BY BundleRaise
<1>0. Busy /\ run \in Run /\ UNCHANGED asked /\ job' = job /\ run.pc # "validate"
  BY DEF Overrides, LoadPolicy, Busy, TypeOK, asked
<1>1. /\ run'.since = run.since /\ run'.started = run.started /\ run'.phase = run.phase
      /\ run'.green = run.green /\ run'.at = run.at /\ run'.pc \in {"policy", "mandatory"}
  <2>1. CASE Overrides
    <3>1. run' = [run EXCEPT !.overrides = config, !.results = {}, !.pc = "policy",
                             !.todo = EffectiveGates(Current.bp, config)]
      BY <2>1 DEF Overrides
    <3> QED BY <1>0, <3>1 DEF Run
  <2>2. CASE LoadPolicy
    <3>1. run' = [run EXCEPT !.policy = WaiverPolicy, !.pc = "mandatory"]
      BY <2>2 DEF LoadPolicy
    <3> QED BY <1>0, <3>1 DEF Run
  <2> QED BY <2>1, <2>2
<1>2. DueExactly'
  <2>1. CASE Overrides
    <3>1. /\ run'.overrides = config /\ run'.todo = EffectiveGates(Current.bp, config)
          /\ run'.results = {}
      BY <1>0, <2>1 DEF Overrides, Run
    <3> QED BY <1>0, <1>1, <3>1 DEF DueExactly, Due, Current
  <2>2. CASE LoadPolicy
    <3>1. run'.overrides = run.overrides /\ run'.todo = run.todo /\ run'.results = run.results
      BY <1>0, <2>2 DEF LoadPolicy, Run
    <3>2. run.pc = "policy"
      BY <2>2 DEF LoadPolicy
    <3> QED BY <1>0, <1>1, <3>1, <3>2 DEF BundleInv, DueExactly, Current
  <2> QED BY <2>1, <2>2
<1> QED BY <1>0, <1>1, <1>2, BundleGoesOn DEF ForbidsRightly, GatesTell

LEMMA BundleMandatory ==
  ASSUME TypeOK, Inv, BundleInv, CheckMandatory, job.kind = "bundle"
  PROVE  BundleInv'
<1> SUFFICES ASSUME ~Raise PROVE BundleInv'
  BY BundleRaise
<1>0. /\ Busy /\ run \in Run /\ UNCHANGED asked /\ run.pc = "mandatory" /\ ~SkipRaises
      /\ UNCHANGED <<config, waivers, edits, job, now>>
  BY DEF CheckMandatory, Busy, TypeOK, asked
<1>1. /\ run'.since = run.since /\ run'.started = run.started /\ run'.phase = run.phase
      /\ run'.green = run.green /\ run'.at = run.at /\ run'.pc = "gates"
      /\ run'.overrides = run.overrides /\ run'.todo = run.todo /\ run'.results = {}
      /\ run'.forbid = ~PolicySkipAllowed(Current.bp, Current.entity)
  <2> DEFINE forbid == ~PolicySkipAllowed(Current.bp, Current.entity)
  <2>1. run' = [run EXCEPT !.pc = "gates", !.forbid = forbid]
    BY <1>0 DEF CheckMandatory
  <2> HIDE DEF forbid
  <2>2. /\ run'.since = run.since /\ run'.started = run.started /\ run'.phase = run.phase
        /\ run'.green = run.green /\ run'.at = run.at /\ run'.pc = "gates"
        /\ run'.overrides = run.overrides /\ run'.todo = run.todo /\ run'.results = run.results
    BY <1>0, <2>1 DEF Run
  <2>3. run'.forbid = forbid
    BY <1>0, <2>1, Zenon DEF Run
  <2>4. run.results = {}
    BY <1>0 DEF Inv, Shape
  <2> QED BY <2>2, <2>3, <2>4 DEF forbid
<1>2. DueExactly'
  BY <1>0, <1>1 DEF BundleInv, DueExactly, Current, Inv, Shape
<1>3. ForbidsRightly'
  <2> DEFINE m == Current
             open == Open(EvaluateWaiver(MandatoryPolicy, waivers, m.entity))
  <2>1. run'.forbid = (Demanded(m) /\ ~open)
    BY <1>1 DEF PolicySkipAllowed, DecidePolicySkip, Demanded, Open
  <2>2. ASSUME run'.forbid, NEW w \in waivers, For(w, MandatoryPolicy, m) PROVE w.expires <= now
    BY <2>1, <2>2, ClosedIsLapsed DEF For
  <2>3. ASSUME ~run'.forbid, Demanded(m) PROVE Granted(MandatoryPolicy, m)
    <3>1. open /\ config.v3 /\ config.mandatory
      BY <2>1, <2>3 DEF Demanded
    <3>2. waivers \subseteq Waiver
      BY <1>0, <3>1, FileOfWaivers DEF SkipRaises
    <3>3. now \in Nat /\ run.started \in 0..now
      BY <1>0, GatingAssumption DEF TypeOK, Run
    <3>4. PICK w \in waivers : /\ w.gate = MandatoryPolicy /\ w.entity \in {NoEntity, m.entity}
                               /\ w.expires > now
      BY <3>1, <3>2, <3>3, OpenIsUnexpired
    <3>5. w.expires \in Int
      BY <3>2, <3>4 DEF Waiver
    <3>6. w.expires > run.started
      BY <3>3, <3>4, <3>5
    <3> QED BY <3>1, <3>4, <3>6 DEF Granted, For
  <2>4. \A x : Granted(MandatoryPolicy, x)' <=> Granted(MandatoryPolicy, x)
    BY <1>0, <1>1, PreviewedKept
  <2>5. \A x : Demanded(x)' <=> Demanded(x)
    BY <1>0, <1>1, PreviewedKept
  <2>6. \A x : x = m =>
          /\ run'.forbid => /\ Demanded(x)' /\ \A w \in waivers' : For(w, MandatoryPolicy, x) => w.expires <= now'
          /\ ~run'.forbid /\ Demanded(x)' => Granted(MandatoryPolicy, x)'
    BY <1>0, <2>1, <2>2, <2>3, <2>4, <2>5
  <2>7. Current' = m
    BY <1>0, <1>1 DEF Current
  <2> HIDE DEF m
  <2> QED BY <2>6, <2>7 DEF ForbidsRightly, For
<1> QED BY <1>0, <1>1, <1>2, <1>3, BundleGoesOn DEF GatesTell

(* What a result tells goes on being so. *)
LEMMA TellsKept ==
  ASSUME TypeOK, Inv, run.pc \in {"gates", "finish"}, Bundled,
         UNCHANGED <<config, waivers, edits, job>>, now <= now', now' \in Nat,
         run'.since = run.since, run'.started = run.started, run'.phase = run.phase,
         run'.at = run.at
  PROVE  \A r : Tells(r) => Tells(r)'
<1> SUFFICES ASSUME NEW r, Tells(r) PROVE Tells(r)'
  OBVIOUS
<1>1. \A m, gate : Previewed(m, gate)' <=> Previewed(m, gate)
  BY PreviewedKept
<1>2. \A m : m = Current => (Previewed(m, r.gate) <=> Previewed(Current, r.gate)')
  <2>1. Current' = Current
    BY DEF Current
  <2>2. \A m : m = Current' => (Previewed(m, r.gate)' <=> Previewed(Current, r.gate)')
    BY DEF Previewed, Breaks, Unguarded, Granted, Demanded, For
  <2> QED BY <1>1, <2>1, <2>2
<1>3. Lapsed => Lapsed'
  <2> SUFFICES ASSUME Lapsed PROVE Lapsed'
    OBVIOUS
  <2>1. PICK w \in waivers \cap Waiver : w.expires > run.started /\ w.expires <= now
    BY DEF Lapsed
  <2>2. w.expires \in Int /\ now \in Nat
    BY <2>1, AtGates DEF Waiver
  <2>3. w.expires <= now'
    BY <2>1, <2>2
  <2> QED BY <2>1, <2>3 DEF Lapsed
<1> QED BY <1>2, <1>3 DEF Tells

LEMMA BundleGate ==
  ASSUME TypeOK, Inv, BundleInv, RunGate, job.kind = "bundle"
  PROVE  BundleInv'
<1> DEFINE gate == Head(run.todo)
           new == [gate |-> gate, raw |-> Runner(gate), at |-> now,
                   final |-> ApplyWaiverPolicy(gate, Runner(gate))]
<1>0. /\ run.pc = "gates" /\ Busy /\ UNCHANGED asked /\ run \in Run
      /\ run.todo \in Seq(Gates) /\ run.todo # <<>> /\ gate \in Gates
      /\ UNCHANGED <<config, waivers, edits, job, now>> /\ now \in Nat
  BY GatingAssumption DEF RunGate, Busy, TypeOK, Run, asked
<1>1. /\ run'.since = run.since /\ run'.started = run.started /\ run'.phase = run.phase
      /\ run'.green = run.green /\ run'.at = run.at /\ run'.pc = "gates"
      /\ run'.overrides = run.overrides /\ run'.forbid = run.forbid
      /\ run'.todo = Tail(run.todo) /\ run'.results = run.results \cup {new}
  BY <1>0 DEF RunGate, Run
<1>2. \A g : (\E i \in DOMAIN run.todo : run.todo[i] = g)
               <=> (g = gate \/ \E i \in DOMAIN Tail(run.todo) : Tail(run.todo)[i] = g)
  <2>0. /\ DOMAIN run.todo = 1..Len(run.todo) /\ Len(run.todo) \in Nat /\ Len(run.todo) > 0
        /\ DOMAIN Tail(run.todo) = 1..(Len(run.todo) - 1) /\ gate = run.todo[1]
        /\ \A i \in 1..(Len(run.todo) - 1) : Tail(run.todo)[i] = run.todo[i + 1]
    BY <1>0
  <2>1. ASSUME NEW i \in DOMAIN run.todo, i # 1
        PROVE  i - 1 \in DOMAIN Tail(run.todo) /\ Tail(run.todo)[i - 1] = run.todo[i]
    BY <2>0, <2>1
  <2>2. ASSUME NEW i \in DOMAIN Tail(run.todo)
        PROVE  i + 1 \in DOMAIN run.todo /\ run.todo[i + 1] = Tail(run.todo)[i]
    BY <2>0, <2>2
  <2>3. 1 \in DOMAIN run.todo
    BY <2>0
  <2> HIDE DEF gate
  <2> QED BY <2>0, <2>1, <2>2, <2>3
<1>3. DueExactly'
  <2>1. \A g \in Gates : Due(Current, run.overrides, g)
            <=> \/ \E i \in DOMAIN run.todo : run.todo[i] = g
                \/ \E r \in run.results : r.gate = g
    BY <1>0 DEF BundleInv, DueExactly
  <2>2. \A g : (\E r \in run'.results : r.gate = g) <=> (g = gate \/ \E r \in run.results : r.gate = g)
    <3>1. new.gate = gate
      OBVIOUS
    <3> HIDE DEF new, gate
    <3> QED BY <1>1, <3>1
  <2>3. Current' = Current
    BY <1>0, <1>1 DEF Current
  <2>5. run'.todo = Tail(run.todo)
    BY <1>1
  <2> HIDE DEF gate, new
  <2>4. \A g \in Gates : Due(Current, run.overrides, g)
            <=> \/ \E i \in DOMAIN run'.todo : run'.todo[i] = g
                \/ \E r \in run'.results : r.gate = g
    BY <1>2, <2>1, <2>2, <2>5
  <2> QED BY <1>0, <1>1, <2>3, <2>4 DEF DueExactly
<1>4. GatesTell'
  <2> SUFFICES ASSUME Bundled, NEW r \in run'.results PROVE Tells(r)'
    BY <1>0, <1>1 DEF GatesTell, Bundled, Untouched
  <2>1. Due(Current, run.overrides, gate)
    <3>1. \E i \in DOMAIN run.todo : run.todo[i] = gate
      BY <1>2
    <3> QED BY <1>0, <3>1 DEF BundleInv, DueExactly
  <2>2. Tells(r)
    <3>1. CASE r \in run.results
      BY <1>0, <3>1 DEF BundleInv, GatesTell
    <3>2. CASE r = new
      BY <1>0, <2>1, <3>2, ResultTells
    <3> QED BY <1>1, <3>1, <3>2
  <2>3. now <= now' /\ now' \in Nat
    BY <1>0
  <2> QED BY <1>0, <1>1, <2>2, <2>3, TellsKept
<1>5. ForbidsRightly'
  <2> SUFFICES ASSUME Bundled PROVE ForbidsRightly'
    BY <1>0, <1>1 DEF ForbidsRightly, Bundled, Untouched
  <2>1. Current' = Current
    BY <1>0, <1>1 DEF Current
  <2>2. \A x : (Granted(MandatoryPolicy, x)' <=> Granted(MandatoryPolicy, x))
             /\ (Demanded(x)' <=> Demanded(x))
    BY <1>0, <1>1, PreviewedKept
  <2>3. \A x : x = Current =>
          /\ run'.forbid => Demanded(x)' /\ \A w \in waivers' : For(w, MandatoryPolicy, x) => w.expires <= now'
          /\ ~run'.forbid /\ Demanded(x)' => Granted(MandatoryPolicy, x)'
    BY <1>0, <1>1, <2>2 DEF BundleInv, ForbidsRightly
  <2> QED BY <2>1, <2>3 DEF ForbidsRightly, For
<1> QED BY <1>0, <1>1, <1>3, <1>4, <1>5, BundleGoesOn

LEMMA BundleGatesDone ==
  ASSUME TypeOK, Inv, BundleInv, GatesDone, job.kind = "bundle"
  PROVE  BundleInv'
<1>0. /\ run.pc = "gates" /\ Busy /\ UNCHANGED asked /\ run \in Run /\ now \in Nat
      /\ UNCHANGED <<config, waivers, edits, job, now>>
  BY GatingAssumption DEF GatesDone, Busy, TypeOK, asked
<1>1. /\ run'.since = run.since /\ run'.started = run.started /\ run'.phase = run.phase
      /\ run'.green = run.green /\ run'.at = run.at /\ run'.pc = "finish"
      /\ run'.overrides = run.overrides /\ run'.forbid = run.forbid
      /\ run'.todo = run.todo /\ run'.results = run.results
  BY <1>0 DEF GatesDone, Goto, Run
<1>2. Current' = Current
  BY <1>0, <1>1 DEF Current
<1>3. DueExactly'
  BY <1>0, <1>1, <1>2 DEF BundleInv, DueExactly
<1>4. GatesTell'
  <2> SUFFICES ASSUME Bundled, NEW r \in run'.results PROVE Tells(r)'
    BY <1>0, <1>1 DEF GatesTell, Bundled, Untouched
  <2>1. Tells(r) /\ now <= now' /\ now' \in Nat
    BY <1>0, <1>1 DEF BundleInv, GatesTell
  <2> QED BY <1>0, <1>1, <2>1, TellsKept
<1>5. ForbidsRightly'
  <2> SUFFICES ASSUME Bundled PROVE ForbidsRightly'
    BY <1>0, <1>1 DEF ForbidsRightly, Bundled, Untouched
  <2>2. \A x : (Granted(MandatoryPolicy, x)' <=> Granted(MandatoryPolicy, x))
             /\ (Demanded(x)' <=> Demanded(x))
    BY <1>0, <1>1, PreviewedKept
  <2>3. \A x : x = Current =>
          /\ run'.forbid => Demanded(x)' /\ \A w \in waivers' : For(w, MandatoryPolicy, x) => w.expires <= now'
          /\ ~run'.forbid /\ Demanded(x)' => Granted(MandatoryPolicy, x)'
    BY <1>0, <1>1, <2>2 DEF BundleInv, ForbidsRightly
  <2> QED BY <1>2, <2>3 DEF ForbidsRightly, For
<1> QED BY <1>0, <1>1, <1>3, <1>4, <1>5, BundleGoesOn

(* The end of a member: the next one, or the apply pass after the last. *)
LEMMA BundleAdvance ==
  ASSUME TypeOK, Inv, BundleInv, run.pc = "finish", UNCHANGED asked, job.kind = "bundle",
         NEW green \in BOOLEAN, NEW published, Advance(green, published),
         run.phase = "preview" => green = (run.green /\ AllGatesPassed)
  PROVE  BundleInv'
<1>0. /\ run \in Run /\ UNCHANGED <<config, waivers, edits, job>> /\ run.todo = <<>> /\ Busy
      /\ run.at \in 1..Len(job.members) /\ Len(job.members) \in Nat
      /\ DOMAIN job.members = 1..Len(job.members) /\ run.phase \in {"preview", "apply"}
  BY JobTypes DEF TypeOK, Run, Inv, Shape, asked, Busy
<1>1. /\ run'.since = run.since /\ run'.started = run.started
      /\ \/ run'.at = run.at + 1 /\ run'.phase = run.phase /\ run'.green = green /\ run'.pc = "overrides"
         \/ /\ run'.phase = "apply" /\ run.phase = "preview" /\ green /\ run.at = Len(job.members)
            /\ run'.pc = "overrides"
         \/ run'.pc = "done"
  <2>1. CASE run' = [run EXCEPT !.green = green, !.published = published, !.at = run.at + 1,
                                !.pc = "overrides"]
    BY <1>0, <2>1 DEF Run
  <2>2. CASE /\ run' = [run EXCEPT !.green = green, !.phase = "apply", !.at = 1, !.pc = "overrides"]
             /\ run.phase = "preview" /\ green /\ ~(run.at < Len(job.members))
    BY <1>0, <2>2 DEF Run
  <2>3. CASE run' = [run EXCEPT !.green = green, !.published = published, !.pc = "done"]
    BY <1>0, <2>3 DEF Run
  <2> QED BY <2>1, <2>2, <2>3 DEF Advance
<1>2. CASE run'.pc = "done"
  BY <1>2, BundleEnded
<1>3. CASE run'.pc = "overrides"
  <2>1. \A m, gate : Previewed(m, gate)' <=> Previewed(m, gate)
    BY <1>0, <1>1, PreviewedKept
  <2>2. ASSUME Bundled, run.phase = "preview", green, NEW i \in 1..run.at, NEW gate \in Gates,
               Due(job.members[i], config, gate)
        PROVE  Previewed(job.members[i], gate)
    <3>1. run.green /\ AllGatesPassed
      BY <2>2
    <3>2. CASE i < run.at
      BY <1>0, <2>2, <3>1, <3>2 DEF BundleInv, MembersPreviewed
    <3>3. CASE i = run.at
      <4>1. Current = job.members[i] /\ run.overrides = config
        BY <2>2, <3>3, AtGates DEF Current
      <4>2. \E r \in run.results : r.gate = gate
        BY <1>0, <2>2, <4>1 DEF BundleInv, DueExactly
      <4>3. PICK r \in run.results : r.gate = gate
        BY <4>2
      <4>4. Tells(r) /\ r.final # "failed"
        BY <2>2, <3>1 DEF BundleInv, GatesTell, AllGatesPassed
      <4> QED BY <2>2, <4>1, <4>3, <4>4 DEF Tells
    <3> QED BY <1>0, <3>2, <3>3
  <2>3. Bundled' => Bundled
    BY <1>0, <1>1 DEF Bundled, Untouched
  <2>4. ASSUME Bundled, NEW i \in DOMAIN job.members, run'.phase = "apply" \/ (run'.green /\ i < run'.at),
               NEW gate \in Gates, Due(job.members[i], config, gate)
        PROVE  Previewed(job.members[i], gate)
    <3>1. CASE run.phase = "apply"
      BY <1>0, <2>4, <3>1 DEF BundleInv, MembersPreviewed
    <3>2. CASE run.phase = "preview"
      <4>1. green /\ i \in 1..run.at
        BY <1>0, <1>1, <1>3, <2>4, <3>2
      <4> QED BY <2>2, <2>4, <3>2, <4>1
    <3> QED BY <1>0, <3>1, <3>2
  <2>5. MembersPreviewed'
    BY <1>0, <1>3, <2>1, <2>3, <2>4 DEF MembersPreviewed
  <2> QED BY <1>3, <2>5 DEF BundleInv, PreviewFirst, DueExactly, ForbidsRightly, GatesTell
<1> QED BY <1>1, <1>2, <1>3

LEMMA BundleEdited == TypeOK /\ BundleInv /\ (EditConfig \/ EditWaivers) => BundleInv'
<1> SUFFICES ASSUME TypeOK, BundleInv, EditConfig \/ EditWaivers PROVE BundleInv'
  OBVIOUS
<1>1. /\ UNCHANGED <<job, run>> /\ edits' = edits + 1
      /\ run.since \in 0..edits /\ edits \in 0..MaxEdits
  BY DEF EditConfig, EditWaivers, TypeOK, Run
<1>2. ~Bundled'
  BY <1>1, GatingAssumption DEF Bundled, Untouched
<1>3. PreviewFirst' /\ DueExactly'
  BY <1>1 DEF BundleInv, PreviewFirst, DueExactly, Current
<1> QED BY <1>2, <1>3 DEF BundleInv, ForbidsRightly, MembersPreviewed, GatesTell

LEMMA BundleTime ==
  ASSUME TypeOK, Inv, BundleInv, UNCHANGED <<config, waivers, edits, job, run>>, now <= now', now' \in Nat
  PROVE  BundleInv'
<1>1. (Bundled' <=> Bundled) /\ Current' = Current /\ (Busy' <=> Busy)
  BY DEF Bundled, Untouched, Current, Busy
<1>2. /\ \A m, gate : Previewed(m, gate)' <=> Previewed(m, gate)
      /\ \A m : (Granted(MandatoryPolicy, m)' <=> Granted(MandatoryPolicy, m))
                /\ (Demanded(m)' <=> Demanded(m))
  BY PreviewedKept
<1>3. PreviewFirst' /\ DueExactly' /\ MembersPreviewed'
  BY <1>1, <1>2 DEF BundleInv, PreviewFirst, DueExactly, MembersPreviewed
<1>4. GatesTell'
  BY <1>1, TellsKept DEF BundleInv, GatesTell
<1>5. ForbidsRightly'
  <2> SUFFICES ASSUME Bundled, run.pc \in {"gates", "finish"} PROVE ForbidsRightly'
    BY <1>1 DEF ForbidsRightly
  <2>1. ASSUME Demanded(Current), NEW w \in waivers, w.expires <= now PROVE w.expires <= now'
    <3>1. w.expires \in Int /\ now \in Nat
      BY <2>1, AtGates DEF Demanded, WaiverPolicy, Waiver
    <3> QED BY <2>1, <3>1
  <2>2. \A x : x = Current =>
          /\ run.forbid => Demanded(x)' /\ \A w \in waivers : For(w, MandatoryPolicy, x) => w.expires <= now'
          /\ ~run.forbid /\ Demanded(x)' => Granted(MandatoryPolicy, x)'
    BY <1>2, <2>1 DEF BundleInv, ForbidsRightly
  <2> QED BY <1>1, <2>2 DEF ForbidsRightly, For
<1> QED BY <1>3, <1>4, <1>5 DEF BundleInv

LEMMA BundleStep == TypeOK /\ Inv /\ BundleInv /\ [Next]_vars => BundleInv'
<1> SUFFICES ASSUME TypeOK, Inv, BundleInv, [Next]_vars PROVE BundleInv'
  OBVIOUS
<1>1. CASE Start
  BY <1>1, BundleStart
<1>2. CASE Validate
  BY <1>2, BundleValidate
<1>3. ASSUME JobStep, ~Start, job.kind # "bundle" PROVE BundleInv'
  <2>1. job' = job
    <3>1. UNCHANGED asked => job' = job
      BY DEF asked
    <3>2. Validate \/ Overrides \/ LoadPolicy \/ CheckMandatory \/ RunGate \/ GatesDone => UNCHANGED asked
      BY DEF Validate, Overrides, LoadPolicy, CheckMandatory, RunGate, GatesDone
    <3>3. FinishPreview \/ Publish \/ PublishRaises \/ Withhold \/ Decide => UNCHANGED asked
      BY Zenon DEF FinishPreview, Publish, PublishRaises, Withhold, Decide
    <3>4. PushBranch \/ OpenRequest \/ Label \/ Merge => UNCHANGED asked
      BY Zenon DEF PushBranch, OpenRequest, Label, Then, Merge
    <3> QED BY <1>3, <3>1, <3>2, <3>3, <3>4 DEF JobStep
  <2> QED BY <1>3, <2>1, BundleEnded
<1>4. ASSUME job.kind = "bundle", Overrides \/ LoadPolicy \/ CheckMandatory \/ RunGate \/ GatesDone
      PROVE  BundleInv'
  BY <1>4, BundleReads, BundleMandatory, BundleGate, BundleGatesDone
<1>5. ASSUME job.kind = "bundle", FinishPreview PROVE BundleInv'
  <2>1. (run.green /\ AllGatesPassed) \in BOOLEAN
    BY DEF AllGatesPassed
  <2> QED BY <1>5, <2>1, BundleAdvance DEF FinishPreview
<1>6. ASSUME job.kind = "bundle", Publish \/ Withhold PROVE BundleInv'
  <2>1. run.green \in BOOLEAN /\ run.pc = "finish" /\ run.phase = "apply" /\ UNCHANGED asked
    BY <1>6 DEF Publish, Withhold, TypeOK, Run
  <2>2. PICK published : Advance(run.green, published)
    BY <1>6 DEF Publish, Withhold
  <2> QED BY <1>6, <2>1, <2>2, BundleAdvance
<1>7. CASE PublishRaises
  BY <1>7, BundleRaise DEF PublishRaises
<1>8. ASSUME job.kind = "bundle", Decide \/ PushBranch \/ OpenRequest \/ Label \/ Merge PROVE BundleInv'
  <2>1. run.pc \in {"decide", "push", "open", "label", "merge"}
    BY <1>8, Zenon DEF Decide, PushBranch, OpenRequest, Label, Then, Merge
  <2>2. Merging \/ run.pc = "decide" => job.kind = "upgrade"
    BY DEF Inv, Shape
  <2> QED BY <1>8, <2>1, <2>2 DEF Merging
<1>9. CASE EditConfig \/ EditWaivers
  BY <1>9, BundleEdited
<1>10. CASE Tick \/ UNCHANGED vars
  <2>1. /\ UNCHANGED <<config, waivers, edits, job, run>>
        /\ now' = now + 1 \/ now' = now
    BY <1>10 DEF Tick, vars
  <2>2. now \in Nat
    BY GatingAssumption DEF TypeOK
  <2>3. now <= now' /\ now' \in Nat
    BY <2>1, <2>2
  <2> QED BY <2>1, <2>3, BundleTime
<1> QED BY <1>1, <1>2, <1>3, <1>4, <1>5, <1>6, <1>7, <1>8, <1>9, <1>10 DEF Next, JobStep

(* A member whose preview passed fails its apply pass only by an edit or by *)
(* a waiver that ran out meanwhile (generate_from_bundle).                  *)
THEOREM PreviewsHold == Spec => []PreviewHolds
<1>1. Init => TypeOK /\ BundleInv
  <2>1. Init => run.pc = "idle"
    BY DEF Init
  <2>2. run.pc = "idle" => BundleInv
    BY DEF BundleInv, PreviewFirst, DueExactly, ForbidsRightly, MembersPreviewed, GatesTell, Busy
  <2> QED BY <2>1, <2>2, InitTyped
<1>2. TypeOK /\ Inv /\ BundleInv /\ [Next]_vars => BundleInv'
  BY BundleStep
<1>3. TypeOK /\ Inv /\ BundleInv => PreviewHolds
  <2> SUFFICES ASSUME TypeOK, Inv, BundleInv, run.pc = "finish", run.phase = "apply", Bundled, ~AllGatesPassed
               PROVE  Lapsed
    BY DEF PreviewHolds, Bundled, Lapsed
  <2>1. PICK r \in run.results : r.final \notin {"passed", "skipped"}
    BY DEF AllGatesPassed
  <2>2. r.final = "failed"
    BY <2>1 DEF TypeOK, Run, Result, Outcomes
  <2> QED BY <2>2 DEF BundleInv, GatesTell, Tells
<1> QED BY <1>1, <1>2, <1>3, GatingInvariant, PTL DEF Spec
=============================================================================
