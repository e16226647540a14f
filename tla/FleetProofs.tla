---------------------------- MODULE FleetProofs ----------------------------
(***************************************************************************)
(* Proofs about Fleet: its types; that a branch never has two open pull    *)
(* requests; that a campaign exceeds its cap only through a stale cache;   *)
(* and, for blueprints that do not go back, what statuses record of them.  *)
(***************************************************************************)
EXTENDS Fleet, SequenceTheorems, TLAPS

Request == [repo : Repos, base : Pins, pin : Pins, state : {"open", "merged", "closed"}]
Work    == [at : Steps, repo : Repos, want : Pins, found : Pins, read : Status,
            number : Nat, merged : BOOLEAN]

LEMMA MergePRTyped ==
  ASSUME NEW base \in PR, NEW old \in PR, NEW new \in PR
  PROVE  MergePR(base, old, new) \in PR
<1>1. NoPR \in PR
  BY DEF NoPR, PR
<1>2. [f \in DOMAIN base |-> IF old[f] # new[f] THEN new[f] ELSE base[f]] \in PR
  BY DEF PR
<1> QED BY <1>1, <1>2 DEF MergePR

LEMMA MergePRFields ==
  ASSUME NEW base \in PR, NEW old \in PR, NEW new \in PR
  PROVE  LET m == MergePR(base, old, new) IN
         /\ old = new => m = base
         /\ new = NoPR /\ old # NoPR => m = NoPR
         /\ new # NoPR => /\ m.number = IF old.number # new.number THEN new.number ELSE base.number
                          /\ m.state = IF old.state # new.state THEN new.state ELSE base.state
                          /\ m.bp = IF old.bp # new.bp THEN new.bp ELSE base.bp
<1>1. [f \in DOMAIN base |-> base[f]] = base
  BY DEF PR
<1>2. CASE new = NoPR /\ old # NoPR
  BY <1>2 DEF MergePR
<1>3. CASE ~(new = NoPR /\ old # NoPR)
  BY <1>1, <1>3 DEF MergePR, PR
<1> QED BY <1>2, <1>3

LEMMA StatusFields ==
  ASSUME NEW s \in Status
  PROVE  s.phase \in {"none", "Ready", "OutOfDate", "Error"} /\ s.conds \in Conds /\ s.pr \in PR
BY DEF Status

LEMMA MergePatchTyped ==
  ASSUME NEW base \in Status, NEW old \in Status, NEW new \in Status
  PROVE  /\ MergePatch(base, old, new) \in Status
         /\ MergePatch(base, old, new).pr = MergePR(base.pr, old.pr, new.pr)
<1>1. MergePR(base.pr, old.pr, new.pr) \in PR
  BY StatusFields, MergePRTyped
<1> QED BY <1>1 DEF MergePatch, Status

LEMMA Statuses ==
  ASSUME NEW s \in Status
  PROVE  /\ \A x \in {"none", "open", "failed", "cleared", "pending", "blocked"} :
              Reason(s, x) \in Status /\ Reason(s, x).pr = s.pr /\ Reason(s, x).phase = s.phase
         /\ Failed(s) \in Status /\ Failed(s).pr = NoPR
         /\ Cleared(s) \in Status /\ Cleared(s).pr = NoPR
         /\ PlanCleared(s) \in Status /\ PlanCleared(s).pr = s.pr
         /\ Unobserved(s) \in Status /\ Unobserved(s).pr = s.pr
         /\ \A want, found : Observed(s, want, found) \in Status
                             /\ Observed(s, want, found).pr = s.pr
         /\ \A pr \in PR : [Reason(s, "open") EXCEPT !.pr = pr] \in Status
                           /\ [Reason(s, "open") EXCEPT !.pr = pr].pr = pr
         /\ \A v \in {"True", "False"} :
              [s EXCEPT !.conds.plan = v] \in Status /\ [s EXCEPT !.conds.plan = v].pr = s.pr
<1>1. NoPR \in PR
  BY DEF NoPR, PR
<1>2. \A x \in {"none", "open", "failed", "cleared", "pending", "blocked"} :
              Reason(s, x) \in Status /\ Reason(s, x).pr = s.pr /\ Reason(s, x).phase = s.phase
  BY DEF Reason, Status, Conds
<1>3. \A x \in {"none", "open", "failed", "cleared", "pending", "blocked"}, pr \in PR :
              [Reason(s, x) EXCEPT !.pr = pr] \in Status /\ [Reason(s, x) EXCEPT !.pr = pr].pr = pr
  BY <1>2 DEF Status
<1>4. Failed(s) \in Status /\ Failed(s).pr = NoPR
  BY <1>1, <1>3 DEF Failed
<1>5. Cleared(s) \in Status /\ Cleared(s).pr = NoPR
  BY <1>1, <1>3 DEF Cleared
<1>6. \A v \in {"True", "False"} :
              [s EXCEPT !.conds.plan = v] \in Status /\ [s EXCEPT !.conds.plan = v].pr = s.pr
  BY DEF Status, Conds
<1>7. PlanCleared(s) \in Status /\ PlanCleared(s).pr = s.pr
  BY <1>6 DEF PlanCleared
<1>8. Unobserved(s) \in Status /\ Unobserved(s).pr = s.pr
  BY DEF Unobserved, Status, Conds
<1>9. \A want, found : Observed(s, want, found) \in Status
                             /\ Observed(s, want, found).pr = s.pr
  BY DEF Observed, Status, Conds
<1> QED BY <1>2, <1>3, <1>4, <1>5, <1>6, <1>7, <1>8, <1>9
-----------------------------------------------------------------------------
(* Types *)

LEMMA InitTyped == Init => TypeOK
<1>1. NewStatus \in Status
  BY DEF NewStatus, NoPR, Status, Conds, PR
<1>2. << >> \in Seq(Request)
  OBVIOUS
<1>3. CASE Init
  <2>1. prs \in Seq(Request) /\ server \in [Repos -> Status] /\ cache \in [Repos -> Status]
        /\ desired \in Pins /\ tree \in [Repos -> Pins] /\ faults \in 0..MaxFaults
    BY <1>1, <1>2, <1>3, FleetAssumption DEF Init, Pins
  <2> QED BY <1>3, <2>1 DEF Init, TypeOK, Request
<1> QED BY <1>3

LEMMA PatchTyped ==
  ASSUME TypeOK, NEW r \in Repos, NEW old \in Status, NEW new \in Status, Patch(r, old, new)
  PROVE  server' \in [Repos -> Status]
<1>1. MergePatch(server[r], old, new) \in Status
  BY MergePatchTyped DEF TypeOK
<1> QED BY <1>1 DEF Patch, TypeOK

LEMMA Requests ==
  ASSUME TypeOK
  PROVE  /\ prs \in Seq(Request) /\ Len(prs) \in Nat
         /\ \A n \in 1..Len(prs) :
              /\ prs[n] \in Request /\ prs[n].repo \in Repos /\ prs[n].pin \in Pins
              /\ HeadOf(n) \in Repos \X Nat /\ BlueprintOf[prs[n].pin] \in Nat
<1>1. prs \in Seq(Request)
  BY DEF TypeOK, Request
<1>2. \A n \in 1..Len(prs) : prs[n] \in Request
  BY <1>1
<1>3. ASSUME NEW q \in Request PROVE q.repo \in Repos /\ q.pin \in Pins
  BY DEF Request
<1> QED BY <1>1, <1>2, <1>3, FleetAssumption DEF HeadOf, Pins

(* What each kind of step leaves to prove. *)
WorkTyped == work' \in {Idle} \cup Work

LEMMA WorkerTyped ==
  ASSUME TypeOK, server' \in [Repos -> Status], WorkTyped, low' \in BOOLEAN, faults' \in 0..MaxFaults,
         UNCHANGED <<people, cache, campaign, seen>>
  PROVE  TypeOK'
BY DEF TypeOK, WorkTyped, Work, people

LEMMA FaultTyped ==
  ASSUME TypeOK, Fault
  PROVE  faults' \in 0..MaxFaults
BY FleetAssumption DEF TypeOK, Fault

LEMMA AtWork ==
  ASSUME TypeOK, ~At("idle")
  PROVE  /\ work \in Work /\ work.repo \in Repos /\ work.read \in Status
         /\ work.want \in Pins /\ work.found \in Pins
BY DEF TypeOK, At, Idle, Work

LEMMA Opening ==
  ASSUME TypeOK, ~At("idle"), NEW s \in Status, NEW p \in Pins
  PROVE  /\ Opened(s, BlueprintOf[p]) \in Status
         /\ Opened(s, BlueprintOf[p]).pr =
              [number |-> work.number, state |-> IF work.merged THEN "Merged" ELSE "Open",
               bp |-> BlueprintOf[p]]
<1>1. [number |-> work.number, state |-> IF work.merged THEN "Merged" ELSE "Open",
       bp |-> BlueprintOf[p]] \in PR
  BY AtWork, FleetAssumption DEF Work, PR, Pins
<1> DEFINE made == [number |-> work.number, state |-> IF work.merged THEN "Merged" ELSE "Open",
                    bp |-> BlueprintOf[p]]
<1>2. Opened(s, BlueprintOf[p]) = [Reason(s, "open") EXCEPT !.pr = made]
  BY DEF Opened
<1>3. made \in PR
  BY <1>1
<1> HIDE DEF made
<1>4. \A pr \in PR : [Reason(s, "open") EXCEPT !.pr = pr] \in Status
                     /\ [Reason(s, "open") EXCEPT !.pr = pr].pr = pr
  BY Statuses
<1>5. Opened(s, BlueprintOf[p]) \in Status /\ Opened(s, BlueprintOf[p]).pr = made
  BY <1>2, <1>3, <1>4, Zenon
<1> QED BY <1>5 DEF made

LEMMA RequestTyped ==
  ASSUME TypeOK, ~At("idle"), NEW n \in Nat,
         prs' = Append(prs, [repo |-> work.repo, base |-> work.found, pin |-> work.want,
                             state |-> "open"])
  PROVE  prs' \in Seq(Request) /\ Len(prs) + 1 \in Nat
<1>1. [repo |-> work.repo, base |-> work.found, pin |-> work.want, state |-> "open"] \in Request
  BY AtWork DEF Request
<1> QED BY <1>1 DEF TypeOK, Request

LEMMA StepTyped == TypeOK /\ [Next]_vars => TypeOK'
<1> SUFFICES ASSUME TypeOK, [Next]_vars PROVE TypeOK'
  OBVIOUS
<1>0. Idle \in {Idle} \cup Work /\ low \in BOOLEAN /\ faults \in 0..MaxFaults
      /\ cache \in [Repos -> Status] /\ server \in [Repos -> Status] /\ work \in {Idle} \cup Work
  BY DEF TypeOK, Work
<1>1. ASSUME NEW r \in Repos
      PROVE  /\ cache[r] \in Status /\ server[r] \in Status
             /\ work' = Start(r) => WorkTyped
  <2>1. NewStatus \in Status
    BY DEF NewStatus, NoPR, Status, Conds, PR
  <2>2. desired \in Pins /\ tree[r] \in Pins
    BY DEF TypeOK
  <2>3. Start(r) \in Work
    BY <2>1, <2>2 DEF Start, Work, Steps
  <2> QED BY <1>0, <2>3 DEF WorkTyped
<1>2. ASSUME NEW r \in Repos, NEW mint \in BOOLEAN, Observe(r, mint) PROVE TypeOK'
  <2>1. server' \in [Repos -> Status]
    BY <1>1, <1>2, Statuses, PatchTyped DEF Observe
  <2> QED BY <1>0, <1>1, <1>2, <2>1, WorkerTyped DEF Observe
<1>3. ASSUME NEW r \in Repos, CloneFails(r) \/ Unreadable(r) PROVE TypeOK'
  <2>1. server' \in [Repos -> Status]
    BY <1>1, <1>3, Statuses, PatchTyped DEF CloneFails, Unreadable
  <2> QED BY <1>0, <1>1, <1>3, <2>1, WorkerTyped, FaultTyped DEF CloneFails, Unreadable, WorkTyped
<1>4. ASSUME NEW r \in Repos, SyncRepo(r) PROVE TypeOK'
  <2>1. cache' \in [Repos -> Status]
    BY <1>1, <1>4 DEF SyncRepo, TypeOK
  <2> QED BY <1>4, <2>1 DEF SyncRepo, TypeOK, people, rollout
<1>5. CASE PlanUpgrade
  <2>1. ~At("idle")
    BY <1>5 DEF PlanUpgrade, At
  <2>2. cache[work.repo] \in Status /\ work \in Work
    BY <1>1, <2>1, AtWork
  <2>3. server' \in [Repos -> Status]
    BY <1>5, <2>1, <2>2, AtWork, Statuses, PatchTyped DEF PlanUpgrade
  <2>4. WorkTyped
    BY <1>5, <2>2 DEF PlanUpgrade, WorkTyped, Work, Steps
  <2> QED BY <1>0, <1>5, <2>3, <2>4, WorkerTyped, FaultTyped DEF PlanUpgrade
<1>6. CASE Remediate
  <2>1. ~At("idle")
    BY <1>6 DEF Remediate, At
  <2>2. cache[work.repo] \in Status /\ work \in Work
    BY <1>1, <2>1, AtWork
  <2>3. Settled(cache[work.repo]) \in Status
    BY <2>2, Statuses DEF Settled
  <2>4. server' \in [Repos -> Status]
    BY <1>0, <1>6, <2>1, <2>2, <2>3, AtWork, PatchTyped DEF Remediate
  <2>5. WorkTyped
    BY <1>6, <2>2 DEF Remediate, End, WorkTyped, Work, Steps
  <2> QED BY <1>0, <1>6, <2>4, <2>5, WorkerTyped DEF Remediate, rollout
<1>7. CASE ApplyUpgrade
  <2>1. ~At("idle")
    BY <1>7 DEF ApplyUpgrade, At
  <2>2. work \in Work /\ Failed(work.read) \in Status
    BY <2>1, AtWork, Statuses
  <2>3. server' \in [Repos -> Status]
    BY <1>0, <1>7, <2>1, <2>2, AtWork, PatchTyped DEF ApplyUpgrade, PushBranch
  <2>4. WorkTyped
    BY <1>7, <2>2 DEF ApplyUpgrade, PushBranch, End, WorkTyped, Work, Steps
  <2>5. heads' \subseteq Repos \X Nat
    <3>1. Branch \in Repos \X Nat
      BY <2>1, AtWork, FleetAssumption DEF Branch, Pins
    <3> QED BY <1>7, <3>1 DEF ApplyUpgrade, PushBranch, TypeOK
  <2> QED BY <1>7, <2>3, <2>4, <2>5 DEF ApplyUpgrade, TypeOK, WorkTyped, Work, rollout
<1>8. CASE CreatePullRequest
  <2>1. ~At("idle")
    BY <1>8 DEF CreatePullRequest, At
  <2>2. work \in Work /\ Failed(work.read) \in Status
    BY <2>1, AtWork, Statuses
  <2>3. server' \in [Repos -> Status]
    BY <1>0, <1>8, <2>1, <2>2, AtWork, PatchTyped DEF CreatePullRequest
  <2>4. prs' \in Seq(Request) /\ Len(prs) + 1 \in Nat
    <3>1. prs \in Seq(Request) /\ Len(prs) + 1 \in Nat
      BY DEF TypeOK, Request
    <3> QED BY <1>8, <2>1, <3>1, RequestTyped DEF CreatePullRequest
  <2>5. WorkTyped
    BY <1>8, <2>2, <2>4 DEF CreatePullRequest, End, WorkTyped, Work, Steps
  <2>6. low' \in BOOLEAN /\ faults' \in 0..MaxFaults
    BY <1>0, <1>8, FaultTyped DEF CreatePullRequest
  <2> QED BY <1>8, <2>3, <2>4, <2>5, <2>6
          DEF CreatePullRequest, TypeOK, WorkTyped, Work, Request
<1>9. CASE LabelFails \/ RemediationFails
  <2>1. ~At("idle")
    BY <1>9 DEF LabelFails, RemediationFails, At
  <2>2. work \in Work /\ Failed(work.read) \in Status
    BY <2>1, AtWork, Statuses
  <2>3. server' \in [Repos -> Status]
    BY <1>9, <2>1, <2>2, AtWork, PatchTyped DEF LabelFails, RemediationFails
  <2>4. prs' \in Seq(Request)
    <3>1. prs \in Seq(Request)
      BY DEF TypeOK, Request
    <3> QED BY <1>9, <2>1, <3>1, RequestTyped DEF LabelFails, RemediationFails, people
  <2>5. WorkTyped /\ faults' \in 0..MaxFaults
    BY <1>9, FaultTyped DEF LabelFails, RemediationFails, End, WorkTyped
  <2> QED BY <1>9, <2>3, <2>4, <2>5
          DEF LabelFails, RemediationFails, TypeOK, WorkTyped, Work, Request, people
<1>10. ASSUME NEW n \in 1..Len(prs), NEW state \in {"merged", "closed"},
              prs' = [prs EXCEPT ![n].state = state]
       PROVE  prs' \in Seq(Request)
  <2>1. prs \in Seq(Request) /\ prs[n] \in Request
    BY Requests
  <2>2. [prs[n] EXCEPT !.state = state] \in Request
    BY <2>1 DEF Request
  <2> QED BY <1>10, <2>1, <2>2
<1>11. ASSUME NEW n, NEW remaining, Merge(n, remaining)
       PROVE  prs' \in Seq(Request) /\ tree' \in [Repos -> Pins] /\ heads' = remaining
  <2>1. n \in 1..Len(prs) /\ prs[n].repo \in Repos /\ prs[n].pin \in Pins
    BY <1>11, Requests DEF Merge
  <2>2. prs' \in Seq(Request)
    BY <1>10, <1>11, <2>1 DEF Merge
  <2> QED BY <1>11, <2>1, <2>2 DEF Merge, TypeOK
<1>12. CASE AutoMerge
  <2>1. work \in Work
    BY <1>12, AtWork DEF AutoMerge, At
  <2>2. prs' \in Seq(Request) /\ tree' \in [Repos -> Pins] /\ heads' \subseteq Repos \X Nat
    BY <1>11, <1>12 DEF AutoMerge, TypeOK
  <2>3. WorkTyped
    BY <1>12, <2>1 DEF AutoMerge, WorkTyped, Work, Steps
  <2> QED BY <1>12, <2>2, <2>3 DEF AutoMerge, TypeOK, WorkTyped, Work, Request, rollout
<1>13. CASE RecordPR
  <2>1. ~At("idle")
    BY <1>13 DEF RecordPR, At
  <2>2. server' \in [Repos -> Status]
    BY <1>13, <2>1, AtWork, Opening, PatchTyped DEF RecordPR
  <2> QED BY <1>0, <1>13, <2>2, WorkerTyped DEF RecordPR, End, WorkTyped, rollout
<1>14. CASE Abandon
  BY <1>14, FaultTyped DEF Abandon, End, TypeOK, people
<1>15. CASE ReconcileCampaign \/ SyncCampaign
  <2>1. NextPhase \in {"Active", "Paused", "Stopped"}
    BY DEF NextPhase
  <2> QED BY <1>15, <2>1 DEF ReconcileCampaign, SyncCampaign, TypeOK, people
<1>16. CASE Bump
  BY <1>16, FleetAssumption DEF Bump, TypeOK, Pins, rollout
<1>17. CASE Pause \/ Resume
  BY <1>17, FaultTyped DEF Pause, Resume, TypeOK, rollout
<1>18. ASSUME NEW n \in 1..Len(prs), Decide(n) PROVE TypeOK'
  <2>1. /\ prs' \in Seq(Request) /\ tree' \in [Repos -> Pins] /\ heads' \subseteq Repos \X Nat
    BY <1>10, <1>11, <1>18 DEF Decide, Close, TypeOK
  <2> QED BY <1>18, <2>1 DEF Decide, TypeOK, Request, rollout
<1>19. CASE UNCHANGED vars
  BY <1>19 DEF TypeOK, vars, people, rollout
<1> QED BY <1>2, <1>3, <1>4, <1>5, <1>6, <1>7, <1>8, <1>9, <1>12, <1>13, <1>14, <1>15, <1>16,
           <1>17, <1>18, <1>19 DEF Next, Reconcile

(* Every variable keeps its type, for any repositories, pins, cap and faults. *)
THEOREM FleetTypeCorrect == Spec => []TypeOK
<1> QED BY InitTyped, StepTyped, PTL DEF Spec
-----------------------------------------------------------------------------
(* Branches.  That two open pull requests have different branches is not   *)
(* inductive: what keeps a second one from being opened is that the branch *)
(* of the first is still on the remote, where a push without force fails.  *)

OpenHasHead == \A n \in 1..Len(prs) : prs[n].state = "open" => HeadOf(n) \in heads

(* Between its push and its request a reconciliation has the branch alone. *)
PushedAlone ==
  At("pushed") /\ work.found # work.want =>
    Branch \in heads /\ \A n \in 1..Len(prs) : prs[n].state = "open" => HeadOf(n) # Branch

BranchInv == TypeOK /\ OneOpenPerVersion /\ OpenHasHead /\ PushedAlone

LEMMA BranchInit == Init => BranchInv
<1> SUFFICES ASSUME Init PROVE BranchInv
  OBVIOUS
<1>1. Len(prs) = 0 /\ ~At("pushed")
  BY DEF Init, At, Idle
<1> QED BY <1>1, InitTyped DEF BranchInv, OneOpenPerVersion, OpenHasHead, PushedAlone

(* A request is opened on the branch that was pushed for it. *)
LEMMA OpenedAlone ==
  ASSUME BranchInv, At("pushed"), work.found # work.want, work'.at # "pushed", UNCHANGED heads,
         prs' = Append(prs, [repo |-> work.repo, base |-> work.found, pin |-> work.want,
                             state |-> "open"])
  PROVE  OneOpenPerVersion' /\ OpenHasHead' /\ PushedAlone'
<1> DEFINE new == [repo |-> work.repo, base |-> work.found, pin |-> work.want, state |-> "open"]
<1>1. prs \in Seq(Request) /\ Len(prs) \in Nat /\ new \in Request
  BY Requests, AtWork DEF BranchInv, At, Request
<1>2. /\ Len(prs') = Len(prs) + 1 /\ prs'[Len(prs) + 1] = new
      /\ \A n \in 1..Len(prs) : prs'[n] = prs[n]
  BY <1>1
<1>3. \A n \in 1..Len(prs') : n \in 1..Len(prs) \/ n = Len(prs) + 1
  BY <1>1, <1>2
<1>4. \A n : (n = Len(prs) + 1 => HeadOf(n)' = Branch) /\ (n \in 1..Len(prs) => HeadOf(n)' = HeadOf(n))
  BY <1>2 DEF HeadOf, Branch
<1>5. Branch \in heads /\ \A n \in 1..Len(prs) : prs[n].state = "open" => HeadOf(n) # Branch
  BY DEF BranchInv, PushedAlone
<1>6. OneOpenPerVersion'
  BY <1>2, <1>3, <1>4, <1>5 DEF BranchInv, OneOpenPerVersion
<1>7. OpenHasHead'
  BY <1>2, <1>3, <1>4, <1>5 DEF BranchInv, OpenHasHead
<1> QED BY <1>6, <1>7 DEF PushedAlone, At

(* A decided request gives up its own branch at most. *)
LEMMA DecidedAlone ==
  ASSUME BranchInv, NEW n \in 1..Len(prs), prs[n].state = "open", NEW state \in {"merged", "closed"},
         prs' = [prs EXCEPT ![n].state = state], heads' \in {heads, heads \ {HeadOf(n)}},
         UNCHANGED work \/ work'.at # "pushed"
  PROVE  OneOpenPerVersion' /\ OpenHasHead' /\ PushedAlone'
<1>1. prs \in Seq(Request) /\ Len(prs) \in Nat /\ \A m \in 1..Len(prs) : prs[m] \in Request
  BY Requests DEF BranchInv
<1>2. Len(prs') = Len(prs) /\ \A m \in 1..Len(prs) : m # n => prs'[m] = prs[m]
  BY <1>1
<1>3. prs'[n].state = state /\ prs'[n].repo = prs[n].repo /\ prs'[n].pin = prs[n].pin
  BY <1>1 DEF Request
<1>4. \A m \in 1..Len(prs) : HeadOf(m)' = HeadOf(m) /\ (prs'[m].state = "open" => m # n /\ prs[m].state = "open")
  BY <1>2, <1>3 DEF HeadOf
<1>5. OneOpenPerVersion'
  BY <1>2, <1>4 DEF BranchInv, OneOpenPerVersion
<1>6. OpenHasHead'
  BY <1>2, <1>4 DEF BranchInv, OneOpenPerVersion, OpenHasHead
<1>7. PushedAlone'
  <2>1. CASE UNCHANGED work
    BY <1>2, <1>4, <2>1 DEF BranchInv, PushedAlone, At, Branch
  <2>2. CASE work'.at # "pushed"
    BY <2>2 DEF PushedAlone, At
  <2> QED BY <2>1, <2>2
<1> QED BY <1>5, <1>6, <1>7

(* A step that leaves requests and branches alone, and pushes nothing. *)
LEMMA BranchesKept ==
  ASSUME BranchInv, UNCHANGED <<heads, prs>>, UNCHANGED work \/ work'.at # "pushed"
  PROVE  OneOpenPerVersion' /\ OpenHasHead' /\ PushedAlone'
BY DEF BranchInv, OneOpenPerVersion, OpenHasHead, PushedAlone, HeadOf, At, Branch

LEMMA BranchStep == BranchInv /\ [Next]_vars => BranchInv'
<1> SUFFICES ASSUME BranchInv, [Next]_vars PROVE OneOpenPerVersion' /\ OpenHasHead' /\ PushedAlone'
  BY StepTyped DEF BranchInv
<1>0. Idle.at # "pushed"
  BY DEF Idle
<1>1. ASSUME NEW r \in Repos, NEW mint \in BOOLEAN,
             Observe(r, mint) \/ CloneFails(r) \/ Unreadable(r) \/ SyncRepo(r)
      PROVE  OneOpenPerVersion' /\ OpenHasHead' /\ PushedAlone'
  <2>1. Start(r).at # "pushed"
    BY DEF Start
  <2> QED BY <1>1, <2>1, BranchesKept DEF Observe, CloneFails, Unreadable, SyncRepo, people, rollout
<1>2. CASE PlanUpgrade \/ Remediate
  <2>1. work \in Work
    BY <1>2, AtWork DEF PlanUpgrade, Remediate, At, BranchInv
  <2>2. work'.at # "pushed"
    BY <1>0, <1>2, <2>1 DEF PlanUpgrade, Remediate, End, Work
  <2> QED BY <1>2, <2>2, BranchesKept DEF PlanUpgrade, Remediate, people, rollout
<1>3. CASE ApplyUpgrade
  <2>1. CASE Branch \in heads
    BY <1>0, <1>3, <2>1, BranchesKept DEF ApplyUpgrade, PushBranch, End
  <2>2. CASE Branch \notin heads
    <3>1. work \in Work
      BY <1>3, AtWork DEF ApplyUpgrade, At, BranchInv
    <3>2. work' = [work EXCEPT !.at = "pushed"] /\ prs' = prs
          /\ heads' = IF work.found = work.want THEN heads ELSE heads \cup {Branch}
      BY <1>3, <2>2 DEF ApplyUpgrade, PushBranch
    <3>3. Branch' = Branch /\ work'.found = work.found /\ work'.want = work.want
      BY <3>1, <3>2 DEF Branch, Work
    <3>4. \A n \in 1..Len(prs) : HeadOf(n)' = HeadOf(n) /\ (prs[n].state = "open" => HeadOf(n) # Branch)
      BY <2>2, <3>2 DEF HeadOf, BranchInv, OpenHasHead
    <3>5. OneOpenPerVersion' /\ OpenHasHead'
      BY <3>2, <3>4 DEF BranchInv, OneOpenPerVersion, OpenHasHead
    <3>6. PushedAlone'
      BY <3>2, <3>3, <3>4 DEF PushedAlone
    <3> QED BY <3>5, <3>6
  <2> QED BY <2>1, <2>2
<1>4. CASE CreatePullRequest
  <2>1. CASE work.found = work.want
    BY <1>0, <1>4, <2>1, BranchesKept DEF CreatePullRequest, End
  <2>2. CASE work.found # work.want
    <3>1. work \in Work
      BY <1>4, AtWork DEF CreatePullRequest, At, BranchInv
    <3>2. work'.at # "pushed"
      BY <1>4, <2>2, <3>1 DEF CreatePullRequest, Work
    <3> QED BY <1>4, <2>2, <3>2, OpenedAlone DEF CreatePullRequest
  <2> QED BY <2>1, <2>2
<1>5. CASE LabelFails
  BY <1>0, <1>5, OpenedAlone DEF LabelFails, End
<1>6. CASE RemediationFails
  BY <1>0, <1>6, BranchesKept DEF RemediationFails, End, people
<1>7. CASE AutoMerge
  <2>1. work \in Work
    BY <1>7, AtWork DEF AutoMerge, At, BranchInv
  <2>2. work'.at # "pushed"
    BY <1>7, <2>1 DEF AutoMerge, Work
  <2> QED BY <1>7, <2>2, DecidedAlone DEF AutoMerge, Merge, Mergeable
<1>8. CASE RecordPR \/ Abandon
  BY <1>0, <1>8, BranchesKept DEF RecordPR, Abandon, End, people
<1>9. CASE ReconcileCampaign \/ SyncCampaign \/ Bump \/ Pause \/ Resume \/ UNCHANGED vars
  BY <1>9, BranchesKept DEF ReconcileCampaign, SyncCampaign, Bump, Pause, Resume, vars, people, rollout
<1>10. ASSUME NEW n \in 1..Len(prs), Decide(n)
       PROVE  OneOpenPerVersion' /\ OpenHasHead' /\ PushedAlone'
  BY <1>10, DecidedAlone DEF Decide, Merge, Mergeable, Close
<1> QED BY <1>1, <1>2, <1>3, <1>4, <1>5, <1>6, <1>7, <1>8, <1>9, <1>10 DEF Next, Reconcile

(* A branch never has two open pull requests, whatever fails, restarts or  *)
(* is forgotten by a status: no version is proposed twice to a repository. *)
THEOREM VersionsOnce == Spec => []OneOpenPerVersion
<1>1. BranchInv => OneOpenPerVersion
  BY DEF BranchInv
<1> QED BY <1>1, BranchInit, BranchStep, PTL DEF Spec
-----------------------------------------------------------------------------
(* The cap *)

(* The campaign's cap is exceeded only while the cache lacks a pull        *)
(* request that another repository's status has: EvaluateRemediation       *)
(* counts right, over what it can see.                                     *)
CapStep ==
  At("planned") /\ work'.at = "apply" /\ Cardinality(Tracked(server) \ {work.repo}) >= MaxConcurrent
    => \E r \in Repos \ {work.repo} : cache[r].pr # server[r].pr

LEMMA AppliesBelowCap ==
  ASSUME TypeOK, [Next]_vars, At("planned"), work'.at = "apply"
  PROVE  ~(OpenElsewhere(work.repo) >= MaxConcurrent)
<1>1. work \in Work
  BY AtWork DEF At
<1>2. Remediate
  <2>1. Idle.at # "apply" /\ work.at # "apply"
    BY DEF Idle, At
  <2> QED BY <1>1, <2>1
        DEF Next, Reconcile, At, End, Observe, CloneFails, Unreadable, SyncRepo, PlanUpgrade,
            ApplyUpgrade, CreatePullRequest, RecordPR, AutoMerge, LabelFails, RemediationFails,
            Abandon, ReconcileCampaign, SyncCampaign, Bump, Pause, Resume, Decide, vars
<1>3. ~Blocked(work.repo)
  BY <1>2 DEF Remediate, NeedsPR, End, Idle
<1> QED BY <1>3 DEF Blocked

(* The cap is exceeded only through a stale cache. *)
THEOREM CapHolds == Spec => CapPassedOnlyByLag
<1>1. ASSUME TypeOK, [Next]_vars PROVE [CapStep]_work
  <2> SUFFICES ASSUME At("planned"), work'.at = "apply",
                      \A r \in Repos \ {work.repo} : cache[r].pr = server[r].pr
               PROVE  ~(Cardinality(Tracked(server) \ {work.repo}) >= MaxConcurrent)
    BY DEF CapStep
  <2>1. Tracked(server) \ {work.repo} = Tracked(cache) \ {work.repo}
    BY DEF Tracked
  <2> QED BY <1>1, <2>1, AppliesBelowCap DEF OpenElsewhere
<1> QED BY <1>1, FleetTypeCorrect, PTL DEF Spec, CapPassedOnlyByLag, CapStep
-----------------------------------------------------------------------------
(* What a status says of pull requests.  A merge patch writes a record field *)
(* by field against an old copy, so that the parts of one record may come    *)
(* from two.  They fit when the versions that a Blueprint asks for only go   *)
(* up: without that, a version that returns makes the old part look current. *)

BlueprintsAdvance == \A p, q \in Pins : p <= q => BlueprintOf[p] <= BlueprintOf[q]

(* A record names a pull request of its repository and, if it says so, of    *)
(* its blueprint version.                                                    *)
Names(pr, r) ==
  pr = NoPR \/ /\ pr.number \in 1..Len(prs) /\ prs[pr.number].repo = r
               /\ pr.bp \in {0, BlueprintOf[prs[pr.number].pin]}

(* Versions in statuses only go up, unless they vanish. *)
StatusInv ==
  \A r \in Repos :
    /\ Names(server[r].pr, r) /\ Names(cache[r].pr, r)
    /\ server[r].pr.bp <= BlueprintOf[desired] /\ cache[r].pr.bp <= BlueprintOf[desired]
    /\ server[r].pr.bp = 0 \/ cache[r].pr.bp <= server[r].pr.bp

Applying == {"apply", "pushed", "opened", "merged"}

(* A reconciliation proposes a version that its copy does not have, and no  *)
(* status of its repository has a later one.                                *)
ProposesNews ==
  /\ work.read.phase = "OutOfDate" /\ ~PROpen(work.read.pr, BlueprintOf[work.want])
  /\ Names(work.read.pr, work.repo)
  /\ work.read.pr.bp <= BlueprintOf[work.want]
  /\ server[work.repo].pr.bp = 0 \/ work.read.pr.bp <= server[work.repo].pr.bp

(* The pull request it has opened is younger than any its copy names. *)
OpenedYoungest ==
  /\ work.number \in 1..Len(prs) /\ work.read.pr.number < work.number
  /\ prs[work.number].repo = work.repo /\ prs[work.number].pin = work.want

WorkInv ==
  ~At("idle") =>
    /\ work.want <= desired
    /\ server[work.repo].pr.bp <= BlueprintOf[work.want]
    /\ cache[work.repo].pr.bp <= BlueprintOf[work.want]
    /\ work.at \in Applying => ProposesNews
    /\ work.at \in {"opened", "merged"} => OpenedYoungest

RecordInv == TypeOK /\ StatusInv /\ WorkInv

LEMMA Versions ==
  ASSUME TypeOK
  PROVE  /\ desired \in Pins /\ \A p \in Pins : p \in Nat /\ BlueprintOf[p] \in Nat
         /\ \A r \in Repos : /\ server[r] \in Status /\ server[r].pr \in PR /\ server[r].pr.bp \in Nat
                             /\ cache[r] \in Status /\ cache[r].pr \in PR /\ cache[r].pr.bp \in Nat
<1>1. \A p \in Pins : p \in Nat /\ BlueprintOf[p] \in Nat
  BY FleetAssumption DEF Pins
<1>2. \A r \in Repos : server[r] \in Status /\ cache[r] \in Status
  BY DEF TypeOK
<1>3. \A s \in Status : s.pr \in PR /\ s.pr.bp \in Nat
  BY StatusFields DEF PR
<1> QED BY <1>1, <1>2, <1>3 DEF TypeOK

LEMMA PatchPR ==
  ASSUME TypeOK, NEW r \in Repos, NEW old \in Status, NEW new \in Status, Patch(r, old, new)
  PROVE  /\ server'[r].pr = MergePR(server[r].pr, old.pr, new.pr)
         /\ \A q \in Repos \ {r} : server'[q] = server[q]
<1>1. server[r] \in Status /\ server' = [server EXCEPT ![r] = MergePatch(server[r], old, new)]
  BY DEF TypeOK, Patch
<1>2. MergePatch(server[r], old, new).pr = MergePR(server[r].pr, old.pr, new.pr)
  BY <1>1, MergePatchTyped
<1> QED BY <1>1, <1>2 DEF TypeOK

(* A patch leaves the record alone, or clears it. *)
Forgets == \A r \in Repos : server'[r].pr \in {server[r].pr, NoPR}

LEMMA PatchForgets ==
  ASSUME TypeOK, NEW r \in Repos, NEW old \in Status, NEW new \in Status, Patch(r, old, new),
         new.pr \in {old.pr, NoPR}
  PROVE  /\ Forgets
         /\ \A q \in Repos : server'[q].pr # server[q].pr => q = r /\ new.pr = NoPR /\ old.pr # NoPR
<1>1. server[r].pr \in PR /\ old.pr \in PR /\ new.pr \in PR
  BY Versions, StatusFields
<1>2. NoPR \in PR
  BY DEF NoPR, PR
<1>3. CASE new.pr = old.pr
  <2>1. MergePR(server[r].pr, old.pr, new.pr) = server[r].pr
    BY <1>1, <1>3, MergePRFields
  <2> QED BY <2>1, PatchPR DEF Forgets
<1>4. CASE new.pr = NoPR /\ old.pr # NoPR
  <2>1. MergePR(server[r].pr, old.pr, new.pr) = NoPR
    BY <1>4 DEF MergePR
  <2> QED BY <1>4, <2>1, PatchPR DEF Forgets
<1> QED BY <1>3, <1>4

(* Pull requests are opened and decided, and remain what they were. *)
RequestsStay ==
  /\ Len(prs') \in Nat /\ Len(prs) <= Len(prs')
  /\ \A n \in 1..Len(prs) : prs'[n].repo = prs[n].repo /\ prs'[n].pin = prs[n].pin

LEMMA NamesStay ==
  ASSUME TypeOK, RequestsStay, NEW pr, NEW r, Names(pr, r)
  PROVE  Names(pr, r)'
<1>1. Len(prs) \in Nat
  BY Requests
<1> QED BY <1>1 DEF Names, RequestsStay

LEMMA StatusesStay ==
  ASSUME BlueprintsAdvance, RecordInv, TypeOK', RequestsStay, Forgets, desired <= desired',
         \/ UNCHANGED cache
         \/ UNCHANGED server /\ \A r \in Repos : cache'[r] \in {cache[r], server[r]}
  PROVE  StatusInv'
<1> SUFFICES ASSUME NEW r \in Repos
             PROVE  /\ Names(server[r].pr, r)' /\ Names(cache[r].pr, r)'
                    /\ server'[r].pr.bp <= BlueprintOf[desired']
                    /\ cache'[r].pr.bp <= BlueprintOf[desired']
                    /\ server'[r].pr.bp = 0 \/ cache'[r].pr.bp <= server'[r].pr.bp
  BY DEF StatusInv
<1>1. desired' \in Pins
  BY DEF TypeOK
<1>2. BlueprintOf[desired] <= BlueprintOf[desired'] /\ NoPR.bp = 0
  BY <1>1, Versions DEF BlueprintsAdvance, RecordInv, NoPR
<1>3. Names(NoPR, r)'
  BY DEF Names
<1>4. \A pr : Names(pr, r) => Names(pr, r)'
  BY NamesStay DEF RecordInv
<1>5. /\ server'[r].pr \in {server[r].pr, NoPR}
      /\ cache'[r].pr \in {cache[r].pr, server[r].pr}
      /\ cache'[r] = cache[r] \/ server'[r] = server[r]
  BY DEF Forgets
<1>6. \A pr : server'[r].pr = pr => Names(pr, r)'
  BY <1>3, <1>4, <1>5 DEF RecordInv, StatusInv
<1>7. \A pr : cache'[r].pr = pr => Names(pr, r)'
  BY <1>4, <1>5 DEF RecordInv, StatusInv
<1>8. Names(server[r].pr, r)' /\ Names(cache[r].pr, r)'
  BY <1>6, <1>7 DEF Names
<1>9. /\ server[r].pr.bp \in Nat /\ cache[r].pr.bp \in Nat
      /\ BlueprintOf[desired] \in Nat /\ BlueprintOf[desired'] \in Nat
  BY <1>1, Versions DEF RecordInv
<1>10. /\ server'[r].pr.bp <= BlueprintOf[desired'] /\ cache'[r].pr.bp <= BlueprintOf[desired']
       /\ server'[r].pr.bp = 0 \/ cache'[r].pr.bp <= server'[r].pr.bp
  BY <1>2, <1>5, <1>9 DEF RecordInv, StatusInv
<1> QED BY <1>8, <1>10

(* The reconciliation goes on with the same versions. *)
Continues ==
  /\ work'.repo = work.repo /\ work'.want = work.want /\ ~At("idle")
  /\ work'.at \in Applying => work.at \in Applying /\ work'.read = work.read

LEMMA YoungestStays ==
  ASSUME RecordInv, RequestsStay, Continues, work.at \in {"opened", "merged"},
         work'.number = work.number, work'.read = work.read
  PROVE  OpenedYoungest'
<1>1. OpenedYoungest /\ Len(prs) \in Nat
  BY Requests DEF RecordInv, WorkInv, Continues
<1> QED BY <1>1 DEF OpenedYoungest, RequestsStay, Continues

LEMMA WorkStays ==
  ASSUME RecordInv, RequestsStay, Forgets, desired \in Nat, desired' \in Nat, desired <= desired',
         Continues, work'.at \in {"opened", "merged"} => OpenedYoungest',
         \/ UNCHANGED cache
         \/ UNCHANGED server /\ \A r \in Repos : cache'[r] \in {cache[r], server[r]}
  PROVE  WorkInv'
<1> DEFINE r == work.repo
<1>0. r \in Repos /\ work.want \in Pins /\ work.read \in Status
  BY AtWork DEF RecordInv, Continues
<1>1. /\ server'[r].pr \in {server[r].pr, NoPR} /\ cache'[r].pr \in {cache[r].pr, server[r].pr}
      /\ NoPR.bp = 0 /\ work.want \in Nat /\ BlueprintOf[work.want] \in Nat
      /\ server[r].pr.bp \in Nat /\ cache[r].pr.bp \in Nat /\ work.read.pr.bp \in Nat
  BY <1>0, Versions, StatusFields DEF RecordInv, Forgets, NoPR, PR
<1>2. work.want <= desired' /\ server'[r].pr.bp <= BlueprintOf[work.want]
      /\ cache'[r].pr.bp <= BlueprintOf[work.want]
  BY <1>1 DEF RecordInv, WorkInv, Continues
<1>3. ASSUME work'.at \in Applying PROVE ProposesNews'
  <2>1. ProposesNews
    BY <1>3 DEF RecordInv, WorkInv, Continues
  <2>2. Names(work.read.pr, r)
    BY <2>1 DEF ProposesNews
  <2>3. \A pr, q : Names(pr, q) => Names(pr, q)'
    BY NamesStay DEF RecordInv
  <2>4. \A pr, q : pr = work'.read.pr /\ q = work'.repo => Names(pr, q)'
    BY <1>3, <2>2, <2>3 DEF Continues
  <2>5. Names(work.read.pr, work.repo)'
    BY <2>4 DEF Names
  <2> QED BY <1>1, <1>3, <2>1, <2>5 DEF ProposesNews, Continues, PROpen
<1> QED BY <1>2, <1>3 DEF WorkInv, Continues

LEMMA Stays ==
  ASSUME TypeOK
  PROVE  /\ UNCHANGED prs => RequestsStay
         /\ \A req : prs' = Append(prs, req) => RequestsStay
         /\ \A n \in 1..Len(prs) : \A x : prs' = [prs EXCEPT ![n].state = x] => RequestsStay
         /\ UNCHANGED server => Forgets
         /\ UNCHANGED desired => desired <= desired'
<1>0. prs \in Seq(Request) /\ Len(prs) \in Nat /\ desired \in Nat
  BY Requests, Versions
<1>1. UNCHANGED prs => RequestsStay
  BY <1>0 DEF RequestsStay
<1>2. ASSUME NEW req, prs' = Append(prs, req) PROVE RequestsStay
  BY <1>0, <1>2 DEF RequestsStay
<1>3. ASSUME NEW n \in 1..Len(prs), NEW x, prs' = [prs EXCEPT ![n].state = x] PROVE RequestsStay
  <2>1. prs[n] \in Request
    BY Requests
  <2>2. [prs[n] EXCEPT !.state = x].repo = prs[n].repo /\ [prs[n] EXCEPT !.state = x].pin = prs[n].pin
    BY <2>1 DEF Request
  <2>3. /\ Len(prs') = Len(prs)
        /\ \A m \in 1..Len(prs) : prs'[m] = IF m = n THEN [prs[n] EXCEPT !.state = x] ELSE prs[m]
    BY <1>0, <1>3
  <2>4. Len(prs') \in Nat /\ Len(prs) <= Len(prs')
    BY <1>0, <2>3
  <2>5. \A m \in 1..Len(prs) : prs'[m].repo = prs[m].repo /\ prs'[m].pin = prs[m].pin
    BY <2>2, <2>3
  <2> QED BY <2>4, <2>5 DEF RequestsStay
<1>4. UNCHANGED server => Forgets
  BY DEF Forgets
<1>5. UNCHANGED desired => desired <= desired'
  BY <1>0
<1>6. \A n \in 1..Len(prs) : \A x : prs' = [prs EXCEPT ![n].state = x] => RequestsStay
  BY <1>3
<1> QED BY <1>1, <1>2, <1>4, <1>5, <1>6

LEMMA RecordInit == Init => RecordInv
<1> SUFFICES ASSUME Init PROVE StatusInv /\ WorkInv
  BY InitTyped DEF RecordInv
<1>1. BlueprintOf[desired] \in Nat /\ NoPR.bp = 0
  BY FleetAssumption DEF Init, NoPR
<1>2. \A r \in Repos : server[r].pr = NoPR /\ cache[r].pr = NoPR
  BY DEF Init, NewStatus
<1> QED BY <1>1, <1>2 DEF Init, StatusInv, Names, WorkInv, At, Idle

(* A reconciliation that starts takes the version desired now. *)
LEMMA RecordStarts ==
  ASSUME BlueprintsAdvance, RecordInv, TypeOK', NEW r \in Repos,
         Patch(r, cache[r], Observed(cache[r], desired, tree[r]))
           \/ Patch(r, cache[r], Unobserved(cache[r])),
         UNCHANGED <<people, cache>>, work' = Start(r) \/ (At("idle") /\ UNCHANGED work)
  PROVE  StatusInv' /\ WorkInv'
<1>1. cache[r] \in Status /\ desired \in Nat
  BY Versions DEF RecordInv
<1>2. Forgets
  <2>1. \A new \in Status : new.pr = cache[r].pr /\ Patch(r, cache[r], new) => Forgets
    BY <1>1, PatchForgets DEF RecordInv
  <2>2. /\ Unobserved(cache[r]) \in Status /\ Unobserved(cache[r]).pr = cache[r].pr
        /\ \A want, found : Observed(cache[r], want, found) \in Status
                             /\ Observed(cache[r], want, found).pr = cache[r].pr
    BY <1>1, Statuses
  <2> QED BY <2>1, <2>2
<1>3. RequestsStay /\ desired <= desired' /\ UNCHANGED <<desired, cache>>
  BY Stays DEF RecordInv, people
<1>4. StatusInv'
  BY <1>2, <1>3, StatusesStay
<1>5. WorkInv'
  BY <1>1, <1>3, <1>4 DEF StatusInv, WorkInv, At, Start, Applying
<1> QED BY <1>4, <1>5

(* A reconciliation that ends with a patch that clears or keeps the record. *)
LEMMA RecordEnds ==
  ASSUME BlueprintsAdvance, RecordInv, TypeOK', ~At("idle"), NEW old \in Status, NEW new \in Status,
         Patch(work.repo, old, new), new.pr \in {old.pr, NoPR}, RequestsStay,
         UNCHANGED <<desired, cache>>, End
  PROVE  StatusInv' /\ WorkInv'
<1>1. Forgets
  BY AtWork, PatchForgets DEF RecordInv
<1>2. StatusInv'
  BY <1>1, Stays, StatusesStay DEF RecordInv
<1> QED BY <1>2 DEF End, Idle, WorkInv, At

LEMMA RecordRemediate ==
  ASSUME BlueprintsAdvance, RecordInv, TypeOK', Remediate
  PROVE  StatusInv' /\ WorkInv'
<1> DEFINE s == cache[work.repo]
<1>1. /\ ~At("idle") /\ UNCHANGED <<desired, prs, cache>>
      /\ work.repo \in Repos /\ work \in Work /\ s \in Status
  BY AtWork, Versions DEF Remediate, At, people, RecordInv
<1>2. CASE NeedsPR(s)
  <2>1. UNCHANGED server /\ work' = [work EXCEPT !.at = "apply", !.read = s]
    BY <1>2 DEF Remediate
  <2>2. StatusInv'
    BY <1>1, <2>1, Stays, StatusesStay DEF RecordInv
  <2>3. /\ work'.at = "apply" /\ work'.read = s
        /\ work'.repo = work.repo /\ work'.want = work.want
    BY <1>1, <2>1 DEF Work
  <2>4. Names(work.read.pr, work.repo)'
    <3>1. Names(s.pr, work.repo)
      BY <1>1 DEF RecordInv, StatusInv
    <3>2. \A pr, q : Names(pr, q) => Names(pr, q)'
      BY <1>1 DEF Names
    <3>3. \A pr, q : pr = work'.read.pr /\ q = work'.repo => Names(pr, q)'
      BY <2>3, <3>1, <3>2
    <3> QED BY <3>3 DEF Names
  <2>5. s.phase = "OutOfDate" /\ ~PROpen(s.pr, BlueprintOf[work.want])
    BY <1>2 DEF NeedsPR
  <2>6. /\ s.pr.bp <= BlueprintOf[work.want]
        /\ server[work.repo].pr.bp = 0 \/ s.pr.bp <= server[work.repo].pr.bp
    BY <1>1 DEF RecordInv, StatusInv, WorkInv
  <2>7. ProposesNews'
    <3>1. work'.read.phase = "OutOfDate" /\ ~PROpen(work'.read.pr, BlueprintOf[work'.want])
      BY <2>3, <2>5 DEF PROpen
    <3>2. /\ work'.read.pr.bp <= BlueprintOf[work'.want]
          /\ server'[work'.repo].pr.bp = 0 \/ work'.read.pr.bp <= server'[work'.repo].pr.bp
      BY <2>1, <2>3, <2>6
    <3> QED BY <2>4, <3>1, <3>2 DEF ProposesNews, PROpen
  <2>8. work.want <= desired /\ server[work.repo].pr.bp <= BlueprintOf[work.want]
        /\ cache[work.repo].pr.bp <= BlueprintOf[work.want]
    BY <1>1 DEF RecordInv, WorkInv
  <2>9. WorkInv'
    BY <1>1, <2>1, <2>3, <2>7, <2>8 DEF WorkInv
  <2> QED BY <2>2, <2>9
<1>3. CASE ~NeedsPR(s)
  <2>1. Patch(work.repo, s, Settled(s)) /\ End
    BY <1>3 DEF Remediate
  <2>2. Settled(s) \in Status /\ Settled(s).pr \in {s.pr, NoPR}
    BY <1>1, Statuses DEF Settled
  <2> QED BY <1>1, <2>1, <2>2, Stays, RecordEnds DEF RecordInv
<1> QED BY <1>2, <1>3

(* The record that is written is the youngest, and so is its version. *)
LEMMA RecordWritten ==
  ASSUME BlueprintsAdvance, RecordInv, TypeOK', RecordPR
  PROVE  StatusInv' /\ WorkInv'
<1> DEFINE r   == work.repo
           bp  == BlueprintOf[work.want]
           old == work.read.pr
<1>1. /\ ~At("idle") /\ work.at \in {"opened", "merged"} \cap Applying
      /\ UNCHANGED <<desired, prs, cache>> /\ End
      /\ r \in Repos /\ work.want \in Pins /\ work.read \in Status
  <2>1. ~At("idle") /\ work.at \in {"opened", "merged"} \cap Applying
    BY DEF RecordPR, At, Applying
  <2>2. UNCHANGED <<desired, prs, cache>> /\ End
    BY DEF RecordPR, people
  <2> QED BY <2>1, <2>2, AtWork DEF RecordInv
<1>2. /\ OpenedYoungest /\ ProposesNews
      /\ server[r].pr.bp <= bp /\ cache[r].pr.bp <= bp /\ work.want <= desired
  BY <1>1 DEF RecordInv, WorkInv
<1>3. bp \in Nat /\ bp <= BlueprintOf[desired] /\ BlueprintOf[desired] \in Nat
  BY <1>1, <1>2, Versions DEF BlueprintsAdvance, RecordInv
<1>4. server[r].pr \in PR /\ old \in PR /\ server[r].pr.bp \in Nat /\ cache[r].pr.bp \in Nat
  BY <1>1, Versions, StatusFields DEF RecordInv
<1> DEFINE new == Opened(work.read, bp)
<1>5. new \in Status /\ new.pr \in PR /\ new.pr.number = work.number /\ new.pr.bp = bp
  <2>1. \A p \in Pins : Opened(work.read, BlueprintOf[p]) \in Status
                      /\ Opened(work.read, BlueprintOf[p]).pr
                           = [number |-> work.number, state |-> IF work.merged THEN "Merged" ELSE "Open",
                              bp |-> BlueprintOf[p]]
    BY <1>1, Opening DEF RecordInv
  <2>2. /\ new \in Status
        /\ new.pr = [number |-> work.number, state |-> IF work.merged THEN "Merged" ELSE "Open",
                     bp |-> bp]
    BY <1>1, <2>1
  <2>3. new.pr.number = work.number /\ new.pr.bp = bp
    BY <2>2
  <2> QED BY <2>2, <2>3, StatusFields
<1>6. Patch(r, work.read, new)
  BY DEF RecordPR
<1> HIDE DEF new
<1>7. new.pr # NoPR /\ old.number # new.pr.number
  <2>1. work.number \in Nat /\ work.number # 0 /\ work.read.pr.number \in Nat
    BY <1>1, <1>2, <1>4, Requests DEF OpenedYoungest, PR, RecordInv
  <2> QED BY <1>2, <1>5, <2>1 DEF NoPR, OpenedYoungest
<1>8. /\ server'[r].pr.number = work.number
      /\ server'[r].pr.bp = IF old.bp # bp THEN bp ELSE server[r].pr.bp
      /\ \A q \in Repos \ {r} : server'[q] = server[q]
  BY <1>1, <1>4, <1>5, <1>6, <1>7, PatchPR, MergePRFields DEF RecordInv
<1>9. server'[r].pr.bp \in {0, bp}
  BY <1>2, <1>3, <1>4, <1>8 DEF ProposesNews
<1>10. \A q \in Repos : Names(server[q].pr, q)' /\ Names(cache[q].pr, q)'
  <2>1. \A pr, q : Names(pr, q) => Names(pr, q)'
    BY <1>1 DEF Names
  <2>2. \A pr, q : q = r /\ pr = server'[r].pr => Names(pr, q)'
    <3>1. prs[work.number].repo = r /\ prs[work.number].pin = work.want /\ work.number \in 1..Len(prs)
      BY <1>2 DEF OpenedYoungest
    <3>2. prs' = prs
      BY <1>1
    <3> QED BY <1>8, <1>9, <3>1, <3>2 DEF Names
  <2>3. \A q \in Repos : \A pr : server'[q].pr = pr => Names(pr, q)'
    <3>1. \A q \in Repos : Names(server[q].pr, q)
      BY DEF RecordInv, StatusInv
    <3> QED BY <1>8, <2>1, <2>2, <3>1
  <2>4. \A q \in Repos : \A pr : cache'[q].pr = pr => Names(pr, q)'
    <3>1. \A q \in Repos : Names(cache[q].pr, q)
      BY DEF RecordInv, StatusInv
    <3> QED BY <1>1, <2>1, <3>1
  <2> QED BY <2>3, <2>4 DEF Names
<1>11. StatusInv'
  BY <1>1, <1>2, <1>3, <1>4, <1>8, <1>9, <1>10 DEF RecordInv, StatusInv
<1> QED BY <1>1, <1>11 DEF End, Idle, WorkInv, At

(* A step that neither starts, ends nor records: what it must not disturb. *)
LEMMA RecordGoesOn ==
  ASSUME BlueprintsAdvance, RecordInv, TypeOK', RequestsStay, Forgets, desired <= desired',
         UNCHANGED work \/ Continues,
         Continues /\ work'.at \in {"opened", "merged"} => OpenedYoungest',
         \/ UNCHANGED cache
         \/ UNCHANGED server /\ \A r \in Repos : cache'[r] \in {cache[r], server[r]}
  PROVE  StatusInv' /\ WorkInv'
<1>1. StatusInv'
  BY StatusesStay
<1>2. desired \in Nat /\ desired' \in Nat
  <2>1. desired \in Pins /\ desired' \in Pins
    BY DEF TypeOK, RecordInv
  <2> QED BY <2>1 DEF Pins
<1>3. CASE Continues
  <2>1. work'.at \in {"opened", "merged"} => OpenedYoungest'
    BY <1>3
  <2>2. WorkInv'
    BY <1>2, <1>3, <2>1, WorkStays
  <2> QED BY <1>1, <2>2
<1>4. CASE UNCHANGED work /\ At("idle")
  BY <1>1, <1>4 DEF WorkInv, At
<1>5. CASE UNCHANGED work /\ ~At("idle")
  BY <1>3, <1>5 DEF Continues
<1> QED BY <1>1, <1>3, <1>4, <1>5

LEMMA RecordStep == BlueprintsAdvance /\ RecordInv /\ [Next]_vars => RecordInv'
<1> SUFFICES ASSUME BlueprintsAdvance, RecordInv, [Next]_vars PROVE StatusInv' /\ WorkInv'
  BY StepTyped DEF RecordInv
<1>0. TypeOK /\ TypeOK'
  BY StepTyped DEF RecordInv
<1>1. ASSUME NEW r \in Repos,
             \/ \E mint \in BOOLEAN : Observe(r, mint)
             \/ CloneFails(r) \/ Unreadable(r)
      PROVE  StatusInv' /\ WorkInv'
  BY <1>0, <1>1, RecordStarts DEF Observe, CloneFails, Unreadable
<1>3. ASSUME UNCHANGED <<work, prs, desired, server>>,
             \A r \in Repos : cache'[r] \in {cache[r], server[r]}
      PROVE  StatusInv' /\ WorkInv'
  <2>1. RequestsStay /\ Forgets /\ desired <= desired'
    BY <1>0, <1>3, Stays
  <2>2. Continues /\ work'.at \in {"opened", "merged"} => OpenedYoungest'
    BY <1>3, <2>1, YoungestStays
  <2> QED BY <1>0, <1>3, <2>1, <2>2, RecordGoesOn
<1>4. ASSUME NEW r \in Repos, SyncRepo(r) PROVE StatusInv' /\ WorkInv'
  <2>1. \A q \in Repos : cache'[q] \in {cache[q], server[q]}
    BY <1>0, <1>4 DEF SyncRepo, TypeOK
  <2> QED BY <1>3, <1>4, <2>1 DEF SyncRepo, people
<1>5. CASE PlanUpgrade
  <2>1. ~At("idle") /\ work \in Work /\ cache[work.repo] \in Status
    BY <1>0, <1>5, AtWork, Versions DEF PlanUpgrade, At
  <2>2. Forgets
    BY <1>0, <1>5, <2>1, AtWork, Statuses, PatchForgets DEF PlanUpgrade
  <2>3. Continues /\ work'.at = "planned"
    BY <1>5, <2>1 DEF PlanUpgrade, Continues, Work, Applying
  <2>4. RequestsStay /\ desired <= desired' /\ UNCHANGED cache
    BY <1>0, <1>5, Stays DEF PlanUpgrade, people
  <2> QED BY <1>0, <2>2, <2>3, <2>4, RecordGoesOn
<1>6. CASE Remediate
  BY <1>0, <1>6, RecordRemediate
<1>7. ASSUME ~At("idle"), Patch(work.repo, work.read, Failed(work.read)), End, RequestsStay,
             UNCHANGED <<desired, cache>>
      PROVE  StatusInv' /\ WorkInv'
  BY <1>0, <1>7, AtWork, Statuses, RecordEnds
<1>8. CASE ApplyUpgrade
  <2>1. ~At("idle") /\ UNCHANGED <<desired, cache, prs>> /\ work \in Work /\ RequestsStay
    BY <1>0, <1>8, AtWork, Stays DEF ApplyUpgrade, At
  <2>2. CASE work' = [work EXCEPT !.at = "pushed"] /\ UNCHANGED server
    <3>1. Continues /\ work'.at = "pushed"
      BY <1>8, <2>1, <2>2 DEF ApplyUpgrade, At, Continues, Work, Applying
    <3> QED BY <1>0, <2>1, <2>2, <3>1, Stays, RecordGoesOn
  <2> QED BY <1>7, <1>8, <2>1, <2>2 DEF ApplyUpgrade, PushBranch
<1>9. CASE CreatePullRequest
  <2>1. ~At("idle") /\ UNCHANGED <<desired, cache>> /\ work \in Work
    BY <1>0, <1>9, AtWork DEF CreatePullRequest, At
  <2>2. CASE work.found = work.want
    BY <1>0, <1>7, <1>9, <2>1, <2>2, Stays DEF CreatePullRequest
  <2>3. CASE work.found # work.want
    <3> DEFINE req == [repo |-> work.repo, base |-> work.found, pin |-> work.want, state |-> "open"]
    <3>1. /\ prs' = Append(prs, req) /\ UNCHANGED server
          /\ work' = [work EXCEPT !.at = "opened", !.number = Len(prs) + 1]
      BY <1>9, <2>3 DEF CreatePullRequest
    <3>2. Continues /\ work'.number = Len(prs) + 1
      BY <1>9, <2>1, <3>1 DEF CreatePullRequest, At, Continues, Work, Applying
    <3>3. /\ prs \in Seq(Request) /\ Len(prs) \in Nat /\ RequestsStay
          /\ prs'[Len(prs) + 1] = req /\ Len(prs') = Len(prs) + 1
      BY <1>0, <3>1, Requests, Stays
    <3>4. work.read.pr.number <= Len(prs)
      <4>1. Names(work.read.pr, work.repo)
        BY <1>9, <2>1 DEF CreatePullRequest, At, RecordInv, WorkInv, ProposesNews, Applying
      <4> QED BY <3>3, <4>1 DEF Names, NoPR
    <3>5. work.read.pr.number \in Nat
      BY <1>0, <2>1, AtWork, StatusFields DEF PR
    <3>6. OpenedYoungest'
      BY <2>1, <3>1, <3>2, <3>3, <3>4, <3>5 DEF OpenedYoungest, Continues, Work
    <3> QED BY <1>0, <2>1, <3>1, <3>2, <3>3, <3>6, Stays, RecordGoesOn
  <2> QED BY <2>2, <2>3
<1>10. CASE LabelFails \/ RemediationFails
  BY <1>0, <1>7, <1>10, Stays DEF LabelFails, RemediationFails, At, people
<1>11. ASSUME NEW n, NEW remaining, Merge(n, remaining) \/ Close(n, remaining) PROVE RequestsStay
  BY <1>0, <1>11, Stays DEF Merge, Close
<1>12. CASE AutoMerge
  <2>1. ~At("idle") /\ UNCHANGED <<desired, cache, server>> /\ work \in Work /\ RequestsStay
    BY <1>0, <1>11, <1>12, AtWork DEF AutoMerge, At
  <2>2. /\ Continues /\ work.at = "opened" /\ work'.number = work.number /\ work'.read = work.read
    BY <1>12, <2>1 DEF AutoMerge, At, Continues, Work, Applying
  <2> QED BY <1>0, <2>1, <2>2, Stays, YoungestStays, RecordGoesOn
<1>13. CASE RecordPR
  BY <1>0, <1>13, RecordWritten
<1>14. CASE Abandon
  <2>1. /\ UNCHANGED <<prs, desired, server>> /\ End
        /\ UNCHANGED cache \/ cache' = server
    BY <1>14 DEF Abandon, people
  <2>2. StatusInv'
    BY <1>0, <2>1, Stays, StatusesStay
  <2> QED BY <2>1, <2>2 DEF End, Idle, WorkInv, At
<1>15. CASE ReconcileCampaign \/ SyncCampaign \/ Pause \/ Resume \/ UNCHANGED vars
  BY <1>3, <1>15 DEF ReconcileCampaign, SyncCampaign, Pause, Resume, vars, people
<1>16. ASSUME UNCHANGED <<work, server, cache>>, RequestsStay, desired <= desired'
      PROVE  StatusInv' /\ WorkInv'
  BY <1>0, <1>16, Stays, YoungestStays, RecordGoesOn
<1>17. CASE Bump
  <2>1. desired <= desired'
    BY <1>0, <1>17, Versions DEF Bump
  <2> QED BY <1>0, <1>16, <1>17, <2>1, Stays DEF Bump
<1>18. ASSUME NEW n \in 1..Len(prs), Decide(n) PROVE StatusInv' /\ WorkInv'
  BY <1>0, <1>11, <1>16, <1>18, Stays DEF Decide
<1> QED BY <1>1, <1>4, <1>5, <1>6, <1>8, <1>9, <1>10, <1>12, <1>13, <1>14, <1>15, <1>17, <1>18
        DEF Next, Reconcile

(* With versions that only go up, what a status says of a pull request is    *)
(* true of it, however late the copies are that its parts come from.         *)
THEOREM RecordsAreTrue ==
  ASSUME BlueprintsAdvance
  PROVE  Spec => []TrackedExists
<1>1. RecordInv => TrackedExists
  BY DEF RecordInv, StatusInv, Names, NoPR, TrackedExists
<1> QED BY <1>1, RecordInit, RecordStep, PTL DEF Spec

(* What a step does to the numbers in statuses.  The copy that the patch is  *)
(* made against is Copy.                                                     *)
Drops(r) ==
  /\ ~At("idle") /\ r = work.repo
  /\ \/ work.at \in {"apply", "pushed"} \cup {"opened", "merged"}
     \/ work.at = "planned" /\ cache[r].phase # "OutOfDate"

NumbersKept == \A r \in Repos : server'[r].pr.number # server[r].pr.number => Drops(r)

LEMMA RecordDropped ==
  ASSUME TypeOK, [Next]_vars
  PROVE  NumbersKept
<1>1. ASSUME NEW r \in Repos, Observe(r, TRUE) \/ Observe(r, FALSE) \/ CloneFails(r) \/ Unreadable(r)
      PROVE  NumbersKept
  <2>1. cache[r] \in Status
    BY Versions
  <2>2. \A new \in Status : new.pr = cache[r].pr /\ Patch(r, cache[r], new) => NumbersKept
    BY <2>1, PatchForgets DEF NumbersKept, NoPR
  <2>3. /\ Unobserved(cache[r]) \in Status /\ Unobserved(cache[r]).pr = cache[r].pr
        /\ \A want, found : Observed(cache[r], want, found) \in Status
                             /\ Observed(cache[r], want, found).pr = cache[r].pr
    BY <2>1, Statuses
  <2> QED BY <1>1, <2>2, <2>3 DEF Observe, CloneFails, Unreadable
<1>2. CASE UNCHANGED server
  BY <1>2 DEF NumbersKept
<1>3. CASE PlanUpgrade
  <2> DEFINE s == cache[work.repo]
  <2>1. work.repo \in Repos /\ s \in Status
    BY <1>3, AtWork, Versions DEF PlanUpgrade, At
  <2>2. \A new \in Status : new.pr = s.pr /\ Patch(work.repo, s, new) => NumbersKept
    BY <2>1, PatchForgets DEF NumbersKept
  <2> QED BY <1>3, <2>1, <2>2, Statuses DEF PlanUpgrade
<1>4. CASE Remediate
  <2> DEFINE s == cache[work.repo]
  <2>1. work.repo \in Repos /\ s \in Status /\ At("planned")
    BY <1>4, AtWork, Versions DEF Remediate, At
  <2>2. \A new \in Status : new.pr = s.pr /\ Patch(work.repo, s, new) => NumbersKept
    BY <2>1, PatchForgets DEF NumbersKept
  <2>3. Cleared(s) \in Status /\ Cleared(s).pr = NoPR
    BY <2>1, Statuses
  <2>4. ASSUME s.phase # "OutOfDate", Patch(work.repo, s, Cleared(s)) PROVE NumbersKept
    <3>1. \A q \in Repos : server'[q].pr # server[q].pr => q = work.repo
      BY <2>1, <2>3, <2>4, PatchForgets
    <3> QED BY <2>1, <2>4, <3>1 DEF NumbersKept, Drops, At
  <2>5. \A x \in {"pending", "blocked"} : Reason(s, x) \in Status /\ Reason(s, x).pr = s.pr
    BY <2>1, Statuses
  <2> QED BY <1>2, <1>4, <2>1, <2>2, <2>4, <2>5 DEF Remediate, Settled
<1>5. ASSUME work.at \in {"apply", "pushed", "opened", "merged"}, NEW new,
             Patch(work.repo, work.read, new)
      PROVE  NumbersKept
  <2>1. server \in [Repos -> Status] /\ ~At("idle")
    BY <1>5 DEF TypeOK, At
  <2>2. \A q \in Repos : server'[q] # server[q] => q = work.repo
    BY <1>5, <2>1 DEF Patch
  <2> QED BY <1>5, <2>1, <2>2 DEF NumbersKept, Drops
<1>6. CASE ApplyUpgrade \/ CreatePullRequest \/ LabelFails \/ RemediationFails \/ RecordPR
  BY <1>2, <1>5, <1>6
     DEF ApplyUpgrade, PushBranch, CreatePullRequest, LabelFails, RemediationFails, RecordPR, At
<1>7. AutoMerge \/ Abandon \/ ReconcileCampaign \/ SyncCampaign \/ Bump \/ Pause \/ Resume
        \/ (\E r \in Repos : SyncRepo(r)) \/ (\E n \in 1..Len(prs) : Decide(n)) \/ UNCHANGED vars
      => UNCHANGED server
  BY DEF AutoMerge, Abandon, ReconcileCampaign, SyncCampaign, Bump, Pause, Resume, SyncRepo, Decide, vars
<1> QED BY <1>1, <1>2, <1>3, <1>4, <1>6, <1>7 DEF Next, Reconcile

(* With versions that only go up, an open pull request that is still needed  *)
(* leaves its status only through a stale copy, half a record or a phase.    *)
THEOREM RecordsAreKept ==
  ASSUME BlueprintsAdvance
  PROVE  Spec => RecordedPRKept
<1> DEFINE Kept ==
      \A r \in Repos : LET pr == server[r].pr IN
        server'[r].pr.number # pr.number /\ Copy(r).pr = pr /\ pr.state = "Open"
          => \/ ~(prs[pr.number].state = "open" /\ Needed(pr.number))
             \/ pr.bp = 0 \/ Copy(r).phase # "OutOfDate"
<1>1. ASSUME RecordInv, [Next]_vars PROVE Kept
  <2> SUFFICES ASSUME NEW r \in Repos, server'[r].pr.number # server[r].pr.number,
                      Copy(r).pr = server[r].pr, server[r].pr.state = "Open",
                      Needed(server[r].pr.number), server[r].pr.bp # 0,
                      Copy(r).phase = "OutOfDate"
               PROVE  FALSE
    OBVIOUS
  <2> DEFINE pr == server[r].pr
  <2>1. Drops(r) /\ r = work.repo /\ ~At("idle")
    BY <1>1, RecordDropped DEF NumbersKept, RecordInv, Drops
  <2>2. work.at \in Applying /\ Copy(r) = work.read
    BY <2>1 DEF Drops, Copy, Applying
  <2>3. ProposesNews /\ work.want <= desired /\ pr.bp <= BlueprintOf[work.want]
    BY <1>1, <2>1, <2>2 DEF RecordInv, WorkInv
  <2>4. pr.bp # BlueprintOf[work.want]
    BY <2>2, <2>3 DEF ProposesNews, PROpen
  <2>5. Names(pr, r) /\ pr # NoPR
    BY <1>1 DEF RecordInv, StatusInv, NoPR
  <2>6. pr.bp = BlueprintOf[prs[pr.number].pin]
    BY <2>5 DEF Names
  <2>7. pr.bp = BlueprintOf[desired]
    BY <2>6 DEF Needed
  <2>8. /\ work.want \in Pins /\ desired \in Pins
        /\ pr.bp \in Nat /\ BlueprintOf[work.want] \in Nat /\ BlueprintOf[desired] \in Nat
    BY <1>1, <2>1, AtWork, Versions DEF RecordInv
  <2>9. BlueprintOf[work.want] <= BlueprintOf[desired]
    BY <2>3, <2>8 DEF BlueprintsAdvance
  <2> QED BY <2>3, <2>4, <2>7, <2>8, <2>9
<1>2. RecordInv /\ [Next]_vars => [Kept]_server
  BY <1>1
<1> QED BY <1>2, RecordInit, RecordStep, PTL DEF Spec, RecordedPRKept
=============================================================================
