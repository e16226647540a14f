-------------------------------- MODULE Fleet --------------------------------
(***************************************************************************)
(* The operator: one worker reconciles GoldenPathRepos one at a time, and  *)
(* another the UpgradeCampaign they are labelled with.  Both read objects  *)
(* from a cache that lags behind the API server and write back merge       *)
(* patches against what they have read.  A drifted repository gets a       *)
(* remediation pull request, which people or auto-merge decide.            *)
(*                                                                         *)
(* goldenpathrepo_controller.go, inventory.go, upgrade.go, remediation.go, *)
(* upgradecampaign_controller.go, campaign/limit.go, campaign/summary.go,  *)
(* remediation/workflow.go, github/ratelimit.go, git/push.go.              *)
(***************************************************************************)
EXTENDS Naturals, FiniteSets, Sequences

CONSTANTS
  Repos,          \* GoldenPathRepos with spec.repoURL and remediation enabled
  MaxPins,        \* pins are numbered in the order in which they are desired
  BlueprintOf,    \* the blueprint version in a pin; the standard is the rest
  MaxConcurrent,  \* spec.maxConcurrentPRs
  StopAfter,      \* spec.stopAfterConsecutiveGateFailures, 0 to disable
  GitHubApp,      \* tokens are minted by a GitHub App, not a PAT
  Lagging,        \* bound: repositories whose cached copy may be behind
  MaxFaults       \* bound on failed calls, crashes and low quotas

ASSUME FleetAssumption ==
  /\ MaxPins \in Nat \ {0} /\ BlueprintOf \in [0..MaxPins -> Nat]
  /\ MaxConcurrent \in Nat \ {0} /\ StopAfter \in Nat /\ Lagging \subseteq Repos
  /\ GitHubApp \in BOOLEAN /\ MaxFaults \in Nat

VARIABLES
  desired,    \* the pin of the Blueprint, as cached
  tree,       \* the pin in repave.yaml on the base branch of each repository
  heads,      \* remote branches that are not part of the base branch
  prs,        \* pull requests, in the order in which they were opened
  server,     \* status of each GoldenPathRepo at the API server
  cache,      \* ...and in the operator's cache
  campaign,   \* status.phase of the campaign at the API server
  seen,       \* ...and in the cache
  paused,     \* spec.paused of the campaign, as cached
  low,        \* the rate-limit tracker's last snapshot is below the threshold
  work,       \* the reconciliation under way
  faults      \* faults so far

people   == <<desired, tree, heads, prs, paused>>
rollout  == <<campaign, seen, low, faults>>
vars     == <<people, server, cache, rollout, work>>

-----------------------------------------------------------------------------
(* Status and merge patches *)

Pins     == 0..MaxPins
NoPR     == [number |-> 0, state |-> "none", bp |-> 0]
PR       == [number : Nat, state : {"none", "Open", "Merged"}, bp : Nat]
Conds    == [drift : {"none", "True", "False", "Unknown"}, plan : {"none", "True", "False"},
             reason : {"none", "open", "failed", "cleared", "pending", "blocked"}]
Status   == [phase : {"none", "Ready", "OutOfDate", "Error"}, conds : Conds, pr : PR]

NewStatus == [phase |-> "none", pr |-> NoPR,
              conds |-> [drift |-> "none", plan |-> "none", reason |-> "none"]]

(* A JSON merge patch carries what differs from the copy that was read: a  *)
(* record field by field, a list as a whole.  Everything else stays as the *)
(* server has it.                                                          *)
MergePR(base, old, new) ==
  IF new = NoPR /\ old # NoPR THEN NoPR
  ELSE [f \in DOMAIN base |-> IF old[f] # new[f] THEN new[f] ELSE base[f]]

MergePatch(base, old, new) ==
  [phase |-> IF old.phase # new.phase THEN new.phase ELSE base.phase,
   conds |-> IF old.conds # new.conds THEN new.conds ELSE base.conds,
   pr    |-> MergePR(base.pr, old.pr, new.pr)]

(* patchGoldenPathRepoStatus *)
Patch(r, old, new) == server' = [server EXCEPT ![r] = MergePatch(server[r], old, new)]

Reason(s, reason) == [s EXCEPT !.conds.reason = reason]

(* patchRemediationPRFailed with clearPR. *)
Failed(s) == [Reason(s, "failed") EXCEPT !.pr = NoPR]

(* clearRemediationPRStatus *)
Cleared(s) == IF s.pr = NoPR /\ s.conds.reason = "none" THEN s
              ELSE [Reason(s, "cleared") EXCEPT !.pr = NoPR]

(* clearUpgradePlanStatus *)
PlanCleared(s) == IF s.conds.plan = "none" THEN s ELSE [s EXCEPT !.conds.plan = "False"]

(* patchObservationFailure *)
Unobserved(s) == [s EXCEPT !.phase = "Error", !.conds.drift = "Unknown"]

(* EvaluateObservation *)
Observed(s, want, found) ==
  IF want # found THEN [s EXCEPT !.phase = "OutOfDate", !.conds.drift = "True"]
                  ELSE [s EXCEPT !.phase = "Ready", !.conds.drift = "False"]

-----------------------------------------------------------------------------
(* Campaign policy *)

(* Mutant: what is open is forgotten.                                      *)
PRMerged(pr, bp) == pr.bp = bp /\ pr.state = "Merged"

(* Mutant: a request for any version will do.                              *)
PRAnyVersion(pr, bp) == pr.state \in {"Open", "Merged"}

(* remediation.PROpen *)
PROpen(pr, bp) == pr.bp = bp /\ pr.state \in {"Open", "Merged"}

Tracked(statuses) == {r \in Repos : statuses[r].pr.state = "Open"}

(* countOpenRemediationPRs: the repository itself does not count. *)
OpenElsewhere(r) == Cardinality(Tracked(cache) \ {r})

(* Mutant: the cap is one off.                                             *)
OverCap(r) == low \/ paused \/ seen \in {"Paused", "Stopped"} \/ OpenElsewhere(r) > MaxConcurrent

(* EvaluateRemediation, negated. *)
Blocked(r) == low \/ paused \/ seen \in {"Paused", "Stopped"} \/ OpenElsewhere(r) >= MaxConcurrent

Failing(statuses) == {r \in Repos : statuses[r].conds.reason = "failed"}

(* SummarizeMatchedRepos, and the phase that follows from it. *)
NextPhase ==
  CASE paused -> "Paused"
    [] ~paused /\ StopAfter > 0 /\ Cardinality(Failing(cache)) >= StopAfter -> "Stopped"
    [] OTHER -> "Active"

(* UpgradeCampaignReconciler.Reconcile: a phase that the cache already has *)
(* is not in the patch.                                                    *)
ReconcileCampaign ==
  /\ seen # NextPhase
  /\ campaign' = NextPhase
  /\ UNCHANGED <<people, server, cache, seen, low, faults, work>>

-----------------------------------------------------------------------------
(* The cache: each object arrives in order, some versions may be skipped.  *)

SyncRepo(r) ==
  /\ cache[r] # server[r]
  /\ cache' = [cache EXCEPT ![r] = server[r]]
  /\ UNCHANGED <<people, server, rollout, work>>

SyncCampaign ==
  /\ seen # campaign
  /\ seen' = campaign
  /\ UNCHANGED <<people, server, cache, campaign, low, faults, work>>

-----------------------------------------------------------------------------
(* GoldenPathRepoReconciler.Reconcile *)

Delivered == \A r \in Repos \ Lagging : cache[r] = server[r]

Idle == [at |-> "idle"]

Start(r) == [at |-> "observed", repo |-> r, want |-> desired, found |-> tree[r],
             read |-> NewStatus, number |-> 0, merged |-> FALSE]

At(step) == work.at = step
End      == work' = Idle

Fault == faults < MaxFaults /\ faults' = faults + 1

(* The clone; with a GitHub App it may mint a token first, and the answer  *)
(* brings a new snapshot of the quota.                                     *)
Observe(r, mint) ==
  /\ At("idle") /\ Delivered
  /\ low' = (low /\ ~mint) /\ (mint => GitHubApp)
  /\ Patch(r, cache[r], Observed(cache[r], desired, tree[r]))
  /\ work' = Start(r)
  /\ UNCHANGED <<people, cache, campaign, seen, faults>>

(* The clone fails: the status says so and the reconciliation ends. *)
CloneFails(r) ==
  /\ At("idle") /\ Fault /\ Delivered
  /\ Patch(r, cache[r], Unobserved(cache[r]))
  /\ UNCHANGED <<people, cache, campaign, seen, low, work>>

(* repave.yaml cannot be read: the status says so and the rest follows. *)
Unreadable(r) ==
  /\ At("idle") /\ Fault /\ Delivered
  /\ Patch(r, cache[r], Unobserved(cache[r]))
  /\ work' = Start(r)
  /\ UNCHANGED <<people, cache, campaign, seen, low>>

(* applyUpgradePlanStatus, on a status read again from the cache. *)
PlanUpgrade ==
  LET r == work.repo
      s == cache[r] IN
  /\ At("observed") /\ Delivered
  /\ IF s.phase # "OutOfDate"
     THEN Patch(r, s, PlanCleared(s)) /\ UNCHANGED faults
     ELSE \/ Patch(r, s, [s EXCEPT !.conds.plan = "True"]) /\ UNCHANGED faults
          \/ Patch(r, s, [s EXCEPT !.conds.plan = "False"]) /\ Fault
  /\ work' = [work EXCEPT !.at = "planned"]
  /\ UNCHANGED <<people, cache, campaign, seen, low>>

(* applyRemediationPRStatus, up to what it decides, on a status read again. *)
Settled(s) ==
  IF s.phase # "OutOfDate" THEN Cleared(s)
  ELSE IF s.conds.plan # "True" THEN Reason(s, "pending")
  ELSE IF Blocked(work.repo) THEN Reason(s, "blocked")
  ELSE s

NeedsPR(s) ==
  /\ s.phase = "OutOfDate" /\ s.conds.plan = "True" /\ ~Blocked(work.repo)
  /\ ~PROpen(s.pr, BlueprintOf[work.want])

Remediate ==
  LET s == cache[work.repo] IN
  /\ At("planned") /\ Delivered
  /\ IF NeedsPR(s)
     THEN work' = [work EXCEPT !.at = "apply", !.read = s] /\ UNCHANGED server
     ELSE Patch(work.repo, s, Settled(s)) /\ End
  /\ UNCHANGED <<people, cache, rollout>>

Branch == <<work.repo, BlueprintOf[work.want]>>

(* Mutant: the push is forced.                                             *)
PushForced == heads' = heads \cup {Branch} /\ work' = [work EXCEPT !.at = "pushed"] /\ UNCHANGED server

(* git push without force: a branch of that name that is not part of the   *)
(* base branch makes it fail.  Without changes there is nothing to push    *)
(* but the base itself.                                                    *)
PushBranch ==
  IF Branch \in heads
  THEN Patch(work.repo, work.read, Failed(work.read)) /\ End /\ UNCHANGED heads
  ELSE /\ heads' = IF work.found = work.want THEN heads ELSE heads \cup {Branch}
       /\ work' = [work EXCEPT !.at = "pushed"] /\ UNCHANGED server

ApplyUpgrade ==
  /\ At("apply")
  /\ PushBranch
  /\ UNCHANGED <<desired, tree, prs, paused, cache, rollout>>

(* CreatePullRequest: GitHub refuses one without commits.  The answer      *)
(* brings the quota.                                                       *)
CreatePullRequest ==
  /\ At("pushed")
  /\ IF work.found = work.want
     THEN /\ Patch(work.repo, work.read, Failed(work.read)) /\ End
          /\ UNCHANGED <<prs, low, faults>>
     ELSE /\ prs' = Append(prs, [repo |-> work.repo, base |-> work.found, pin |-> work.want,
                                 state |-> "open"])
          /\ work' = [work EXCEPT !.at = "opened", !.number = Len(prs) + 1]
          /\ \/ low' = FALSE /\ UNCHANGED faults
             \/ low' = TRUE /\ Fault
          /\ UNCHANGED server
  /\ UNCHANGED <<desired, tree, heads, paused, cache, campaign, seen>>

(* The pull request is open but its labels cannot be attached: an error.   *)
LabelFails ==
  /\ At("pushed") /\ work.found # work.want /\ Fault
  /\ prs' = Append(prs, [repo |-> work.repo, base |-> work.found, pin |-> work.want,
                         state |-> "open"])
  /\ Patch(work.repo, work.read, Failed(work.read)) /\ End
  /\ UNCHANGED <<desired, tree, heads, paused, cache, campaign, seen, low>>

(* apply-upgrade, the push or the request fails. *)
RemediationFails ==
  /\ work.at \in {"apply", "pushed"} /\ Fault
  /\ Patch(work.repo, work.read, Failed(work.read)) /\ End
  /\ UNCHANGED <<people, cache, campaign, seen, low>>

Mergeable(n) == prs[n].state = "open" /\ tree[prs[n].repo] = prs[n].base

Merge(n, remaining) ==
  /\ n \in 1..Len(prs) /\ Mergeable(n)
  /\ tree' = [tree EXCEPT ![prs[n].repo] = prs[n].pin]
  /\ prs' = [prs EXCEPT ![n].state = "merged"]
  /\ heads' = remaining

HeadOf(n) == <<prs[n].repo, BlueprintOf[prs[n].pin]>>

(* Auto-merge, when the change is allowed it; without it people decide. *)
AutoMerge ==
  /\ At("opened")
  /\ \E remaining \in {heads, heads \ {HeadOf(work.number)}} : Merge(work.number, remaining)
  /\ work' = [work EXCEPT !.at = "merged", !.merged = TRUE]
  /\ UNCHANGED <<desired, paused, server, cache, rollout>>

Opened(s, bp) ==
  [Reason(s, "open") EXCEPT
     !.pr = [number |-> work.number, state |-> IF work.merged THEN "Merged" ELSE "Open", bp |-> bp]]

(* Mutant: the desired version is read again.                              *)
RecordLatest ==
  /\ work.at \in {"opened", "merged"}
  /\ Patch(work.repo, work.read, Opened(work.read, BlueprintOf[desired]))
  /\ End
  /\ UNCHANGED <<people, cache, rollout>>

RecordPR ==
  /\ work.at \in {"opened", "merged"}
  /\ Patch(work.repo, work.read, Opened(work.read, BlueprintOf[work.want]))
  /\ End
  /\ UNCHANGED <<people, cache, rollout>>

(* A patch is refused, or the operator restarts and reads everything.      *)
Abandon ==
  /\ ~At("idle") /\ Fault /\ End
  /\ \/ UNCHANGED <<cache, seen, low>>
     \/ cache' = server /\ seen' = campaign /\ low' = FALSE
  /\ UNCHANGED <<people, server, campaign>>

Reconcile ==
  \/ PlanUpgrade \/ Remediate \/ ApplyUpgrade \/ CreatePullRequest \/ RecordPR

-----------------------------------------------------------------------------
(* People *)

Bump ==
  /\ desired < MaxPins /\ desired' = desired + 1
  /\ UNCHANGED <<tree, heads, prs, paused, server, cache, rollout, work>>

(* Bound: after MaxPRs of them, the branch of a closed one stays. *)
MaxPRs == MaxPins * Cardinality(Repos)

Close(n, remaining) ==
  /\ n \in 1..Len(prs) /\ prs[n].state = "open"
  /\ Len(prs) >= MaxPRs => remaining = heads
  /\ prs' = [prs EXCEPT ![n].state = "closed"]
  /\ heads' = remaining
  /\ UNCHANGED tree

Decide(n) ==
  /\ \E remaining \in {heads, heads \ {HeadOf(n)}} : Merge(n, remaining) \/ Close(n, remaining)
  /\ UNCHANGED <<desired, paused, server, cache, rollout, work>>

Pause ==
  /\ Fault /\ ~paused /\ paused' = TRUE
  /\ UNCHANGED <<desired, tree, heads, prs, server, cache, campaign, seen, low, work>>

Resume ==
  /\ paused /\ paused' = FALSE
  /\ UNCHANGED <<desired, tree, heads, prs, server, cache, rollout, work>>

-----------------------------------------------------------------------------
Init ==
  /\ desired = 1 /\ tree = [r \in Repos |-> 0]
  /\ heads = {} /\ prs = << >> /\ paused = FALSE
  /\ server = [r \in Repos |-> NewStatus] /\ cache = server
  /\ campaign = "Active" /\ seen = "Active"
  /\ low = FALSE /\ work = Idle /\ faults = 0

Next ==
  \/ \E r \in Repos : \/ \E mint \in BOOLEAN : Observe(r, mint)
                      \/ CloneFails(r) \/ Unreadable(r) \/ SyncRepo(r)
  \/ Reconcile \/ AutoMerge \/ LabelFails \/ RemediationFails \/ Abandon
  \/ ReconcileCampaign \/ SyncCampaign
  \/ Bump \/ Pause \/ Resume
  \/ \E n \in 1..Len(prs) : Decide(n)

Spec == Init /\ [][Next]_vars

(* The queue gives every repository its turn again after remoteResync, and *)
(* tokens expire; the informers deliver; a process that lives goes on; the *)
(* campaign is reconciled after every event.  People decide every pull     *)
(* request that stays open and do not leave a campaign paused.             *)
MostPRs == 2 * MaxPRs   \* no behaviour opens more

Fairness ==
  /\ \A r \in Repos : SF_vars(Observe(r, FALSE)) /\ SF_vars(Observe(r, TRUE))
  /\ \A r \in Repos : WF_vars(SyncRepo(r))
  /\ WF_vars(Reconcile) /\ WF_vars(ReconcileCampaign) /\ WF_vars(SyncCampaign)
  /\ WF_vars(Resume)
  /\ \A n \in 1..MostPRs : WF_vars(n <= Len(prs) /\ Decide(n))

FairSpec == Spec /\ Fairness

-----------------------------------------------------------------------------
(* Properties *)

Steps == {"observed", "planned", "apply", "pushed", "opened", "merged"}

(* Every variable stays within its type. *)
TypeOK ==
  /\ desired \in Pins /\ tree \in [Repos -> Pins] /\ paused \in BOOLEAN
  /\ heads \subseteq Repos \X Nat
  /\ prs \in Seq([repo : Repos, base : Pins, pin : Pins, state : {"open", "merged", "closed"}])
  /\ server \in [Repos -> Status] /\ cache \in [Repos -> Status]
  /\ {campaign, seen} \subseteq {"Active", "Paused", "Stopped"}
  /\ low \in BOOLEAN /\ faults \in 0..MaxFaults
  /\ work \in {Idle} \cup [at : Steps, repo : Repos, want : Pins, found : Pins, read : Status,
                            number : Nat, merged : BOOLEAN]

(* A pull request whose number was never written to the status is not      *)
(* opened a second time: its branch is still there.                        *)
OneOpenPerVersion ==
  \A m, n \in 1..Len(prs) :
    prs[m].state = "open" /\ prs[n].state = "open" /\ HeadOf(m) = HeadOf(n) => m = n

(* A merge patch against a stale copy may leave a record half written, but *)
(* never one that names the pull request of another repository or another  *)
(* blueprint version.                                                      *)
TrackedExists ==
  \A r \in Repos : LET pr == server[r].pr IN
    pr.number # 0 =>
      /\ pr.number \in 1..Len(prs) /\ prs[pr.number].repo = r
      /\ pr.bp \in {0, BlueprintOf[prs[pr.number].pin]}

(* An open pull request that a repository still needs leaves its status    *)
(* only through a copy from before it was recorded, a record half written, *)
(* or a phase that is wrong: stale, or Error as repave.yaml is unreadable. *)
Needed(n) == prs[n].pin # tree[prs[n].repo] /\ BlueprintOf[prs[n].pin] = BlueprintOf[desired]

Copy(r) == IF work.at \in {"apply", "pushed", "opened", "merged"} THEN work.read ELSE cache[r]

RecordedPRKept ==
  [][\A r \in Repos : LET pr == server[r].pr IN
       server'[r].pr.number # pr.number /\ Copy(r).pr = pr /\ pr.state = "Open"
         => \/ ~(prs[pr.number].state = "open" /\ Needed(pr.number))
            \/ pr.bp = 0 \/ Copy(r).phase # "OutOfDate"]_server

(* The campaign lets a pull request above its cap be opened only while the *)
(* cache still lacks one that the status of another repository has.        *)
CapPassedOnlyByLag ==
  [][At("planned") /\ work'.at = "apply" /\ Cardinality(Tracked(server) \ {work.repo}) >= MaxConcurrent
       => \E r \in Repos \ {work.repo} : cache[r].pr # server[r].pr]_work

(* A pull request that the status takes for open, or for all that is       *)
(* needed, although it is closed or was merged with another standard.      *)
Settles(r) == LET pr == server[r].pr IN
  pr.bp = BlueprintOf[desired] /\ pr.state \in {"Open", "Merged"} /\ prs[pr.number].state # "open"

(* A branch that only a person can remove. *)
LeftBehind(r) ==
  LET b == <<r, BlueprintOf[desired]>> IN
  b \in heads /\ ~\E n \in 1..Len(prs) : prs[n].state = "open" /\ HeadOf(n) = b

(* Closed pull requests that still count towards the cap. *)
Held(r) == \E q \in Repos \ {r} : server[q].pr.state = "Open" /\ prs[server[q].pr.number].state # "open"

(* Every repository gets its desired pin, unless people closed its pull    *)
(* request, a branch was left behind, or a closed pull request of another  *)
(* one holds the campaign's capacity.                                      *)
FleetConverges ==
  \A r \in Repos : <>(tree[r] = desired \/ Settles(r) \/ LeftBehind(r) \/ Held(r))
=============================================================================
