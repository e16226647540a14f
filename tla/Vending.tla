------------------------------- MODULE Vending -------------------------------
(***************************************************************************)
(* Environments and managed components: vending opens a pull request on    *)
(* the GitOps repository and then registers a record; a reclaim pass reads *)
(* the registry once and, for every expired record, opens a pull request   *)
(* that removes the path.  People merge and close the pull requests.       *)
(*                                                                         *)
(* environment_vend.py, environment_registry.py, environment_record.py,    *)
(* environment_reclaim.py and their component_*.py counterparts, which     *)
(* repeat them with kinds in place of classes and a registry of their own. *)
(***************************************************************************)
EXTENDS Naturals, FiniteSets, Sequences

CONSTANTS
  Stacks,          \* registry keys, numbered in the order of their names
  KindOf,          \* which registry holds a key: "environment", "component"
  NameOf,          \* the name a branch is built from
  ClassOf,         \* the class of an environment, the kind of a component
  AutoClasses,     \* auto_reclaim_classes, auto_reclaim_kinds
  ReviewClasses,   \* decommission_review_classes; empty when not configured
  Vendors,         \* processes that execute vend runs
  Passes,          \* processes that execute reclaim passes
  MaxVends, MaxCrashes   \* bounds of the exploration

ASSUME VendingAssumption ==
  /\ Stacks \subseteq Nat /\ Stacks # {}
  /\ KindOf \in [Stacks -> {"environment", "component"}]
  /\ DOMAIN NameOf = Stacks /\ DOMAIN ClassOf = Stacks
  /\ MaxVends \in Nat /\ MaxCrashes \in Nat

VARIABLES
  registry,   \* the fold of the appended lines: one record per key
  tree,       \* the GitOps base branch: the vend that wrote a path, 0 when absent
  heads,      \* branches that exist on the remote besides the base branch
  prs,        \* pull requests of the GitOps repository, in order of number
  overdue,    \* vends whose expires_at has passed
  vends,      \* vend requests so far
  vendor,     \* run_environment_vend and the registration that follows
  pass,       \* reclaim_expired_environments
  crashes     \* steps that failed or processes that died so far

world == <<tree, heads, prs>>
vars  == <<registry, tree, heads, prs, overdue, vends, vendor, pass, crashes>>

-----------------------------------------------------------------------------
(* Records and the registry *)

Gens   == 0..MaxVends
Record == [gen : Gens, status : {"none", "active", "pending", "expired"}, pr : Nat]

NoRecord == [gen |-> 0, status |-> "none", pr |-> 0]

(* A register line replaces the record of its key, whatever is there... *)
RegisterRecord(s, r) == registry' = [registry EXCEPT ![s] = r]

(* ...and a decommission line pops it, whatever is there. *)
Decommission(s) == registry' = [registry EXCEPT ![s] = NoRecord]

(* Mutant: the pull request of the vend is kept.                           *)
MarkKeepsPR(s, r, n) ==
  RegisterRecord(s, [gen |-> r.gen, status |-> "expired", pr |-> r.pr])

MarkExpired(s, r, n) ==
  RegisterRecord(s, [gen |-> r.gen, status |-> "expired", pr |-> n])

IsExpired(r) == r.gen \in overdue

HasOpenDecommissionReview(r) == r.status = "expired" /\ r.pr > 0

(* read_environments, read_components: the records of one kind that a pass *)
(* keeps, all of them or the one that it was asked for.                    *)
ReadRegistry(kind, names) ==
  [s \in Stacks |-> IF KindOf[s] = kind /\ s \in names THEN registry[s] ELSE NoRecord]

Registered(records) == {s \in Stacks : records[s].status # "none"}

(* Without configured review classes, every class seen in the registry     *)
(* that is not reclaimed automatically is reviewed.                        *)
ResolveReviewClasses(observed) ==
  (IF ReviewClasses # {} THEN ReviewClasses ELSE observed) \ AutoClasses

(* Mutant: only automatic classes are finalized.                           *)
ListPendingAuto(records) ==
  {s \in Registered(records) : HasOpenDecommissionReview(records[s]) /\ ClassOf[s] \in AutoClasses}

ListPendingReviews(records) ==
  {s \in Registered(records) : HasOpenDecommissionReview(records[s])}

(* Mutant: the expiry date is not looked at.                               *)
ListAll(records) == {s \in Registered(records) : ClassOf[s] \in AutoClasses}

ListExpired(records) ==
  {s \in Registered(records) : ClassOf[s] \in AutoClasses /\ IsExpired(records[s])}

ListExpiredForReview(records) ==
  {s \in Registered(records) :
     /\ ClassOf[s] \notin AutoClasses
     /\ ClassOf[s] \in ResolveReviewClasses({ClassOf[t] : t \in Registered(records)})
     /\ IsExpired(records[s])
     /\ ~HasOpenDecommissionReview(records[s])}

-----------------------------------------------------------------------------
(* GitHub *)

VendBranch(s)    == <<"vend", NameOf[s]>>
ReclaimBranch(s) == <<"reclaim", NameOf[s]>>

PRs == 1..Len(prs)

(* find_open_pull_request *)
OpenOn(b) == \E n \in PRs : prs[n].state = "open" /\ prs[n].branch = b

(* Mutant: the push is forced.                                             *)
PushForced(b) == heads' = heads \cup {b}

(* The branch is pushed without force and starts at the base branch, so a  *)
(* branch that is already on the remote makes the push fail.               *)
PushGitBranch(b) == b \notin heads /\ heads' = heads \cup {b}

PushRejected(b) == b \in heads

CreatePullRequest(s, purpose, b, base, result) ==
  prs' = Append(prs, [stack |-> s, purpose |-> purpose, branch |-> b,
                      base |-> base, result |-> result, state |-> "open"])

(* A pull request merges when nobody else changed the path it changes.     *)
Mergeable(n) == prs[n].state = "open" /\ tree[prs[n].stack] = prs[n].base

(* GitHub may delete the branch of a pull request that merges, a person    *)
(* that of one they close.                                                 *)
Merge(n, remaining) ==
  /\ n \in PRs /\ Mergeable(n)
  /\ tree' = [tree EXCEPT ![prs[n].stack] = prs[n].result]
  /\ prs' = [prs EXCEPT ![n].state = "merged"]
  /\ heads' = remaining
  /\ UNCHANGED <<registry, overdue, vends, vendor, pass, crashes>>

ClosePR(n, remaining) ==
  /\ n \in PRs /\ prs[n].state = "open"
  /\ prs' = [prs EXCEPT ![n].state = "closed"]
  /\ heads' = remaining
  /\ UNCHANGED <<registry, tree, overdue, vends, vendor, pass, crashes>>

Decide(n) ==
  \E remaining \in {heads, heads \ {prs[n].branch}} : Merge(n, remaining) \/ ClosePR(n, remaining)

-----------------------------------------------------------------------------
(* Vending: run_environment_vend, run_component_vend *)

IdleVendor == [at |-> "idle", stack |-> CHOOSE s \in Stacks : TRUE, gen |-> 0, base |-> 0]

(* Every vend renders something new: one that would change nothing fails   *)
(* before it has written anything.                                         *)
VendClone(v) ==
  /\ vendor[v].at = "idle" /\ vends < MaxVends
  /\ \E s \in Stacks :
       /\ ~OpenOn(VendBranch(s))
       /\ vendor' = [vendor EXCEPT ![v] =
                       [at |-> "cloned", stack |-> s, gen |-> vends + 1, base |-> tree[s]]]
  /\ vends' = vends + 1
  /\ UNCHANGED <<registry, world, overdue, pass, crashes>>

VendPush(v) ==
  /\ vendor[v].at = "cloned"
  /\ PushGitBranch(VendBranch(vendor[v].stack))
  /\ vendor' = [vendor EXCEPT ![v].at = "pushed"]
  /\ UNCHANGED <<registry, tree, prs, overdue, vends, pass, crashes>>

VendPushRejected(v) ==
  /\ vendor[v].at = "cloned"
  /\ PushRejected(VendBranch(vendor[v].stack))
  /\ vendor' = [vendor EXCEPT ![v] = IdleVendor]
  /\ UNCHANGED <<registry, world, overdue, vends, pass, crashes>>

VendOpen(v) ==
  LET s == vendor[v].stack IN
  /\ vendor[v].at = "pushed"
  /\ CreatePullRequest(s, "vend", VendBranch(s), vendor[v].base, vendor[v].gen)
  /\ vendor' = [vendor EXCEPT ![v].at = "opened"]
  /\ UNCHANGED <<registry, tree, heads, overdue, vends, pass, crashes>>

(* register_environment_from_vend: pending when the gates failed.          *)
VendRegister(v) ==
  /\ vendor[v].at = "opened"
  /\ \E status \in {"active", "pending"}, n \in PRs :
       /\ prs[n].purpose = "vend" /\ prs[n].result = vendor[v].gen
       /\ RegisterRecord(vendor[v].stack, [gen |-> vendor[v].gen, status |-> status, pr |-> n])
  /\ vendor' = [vendor EXCEPT ![v] = IdleVendor]
  /\ UNCHANGED <<world, overdue, vends, pass, crashes>>

(* The process dies, GitHub refuses, or the append fails: a warning.       *)
VendFails(v) ==
  /\ vendor[v].at # "idle" /\ crashes < MaxCrashes
  /\ vendor' = [vendor EXCEPT ![v] = IdleVendor]
  /\ crashes' = crashes + 1
  /\ UNCHANGED <<registry, world, overdue, vends, pass>>

(* Time passes expires_at of a record that is in the registry, or in what  *)
(* a pass has read of it.                                                  *)
Expires(g) ==
  /\ g \in (1..vends) \ overdue
  /\ \E s \in Stacks : \/ registry[s].gen = g
                       \/ \E p \in Passes : pass[p].snap[s].gen = g
  /\ overdue' = overdue \cup {g}
  /\ UNCHANGED <<registry, world, vends, vendor, pass, crashes>>

-----------------------------------------------------------------------------
(* Reclaim: reclaim_expired_environments, reclaim_expired_components *)

IsFirst(s, S) == \A t \in S : s <= t

IdlePass == [at |-> "idle", snap |-> [s \in Stacks |-> NoRecord], finalize |-> {},
             auto |-> {}, review |-> {}, stack |-> CHOOSE s \in Stacks : TRUE,
             base |-> 0, pr |-> 0]

(* What is left to do, the automatic classes first.                        *)
Left(p)   == pass[p].auto \cup pass[p].review
Turn(s, p) ==
  LET batch == IF pass[p].auto # {} THEN pass[p].auto ELSE pass[p].review
  IN  s \in batch /\ IsFirst(s, batch)

Reviewing(s, p) == s \in pass[p].finalize /\ IsFirst(s, pass[p].finalize)

(* The pass is done with record s and goes on.                             *)
Advance(p, s) ==
  pass' = [pass EXCEPT ![p] = [pass[p] EXCEPT !.at = "next", !.auto = pass[p].auto \ {s},
                                              !.review = pass[p].review \ {s}]]

(* A pass reads the registry once, all of one kind or a single name.       *)
PassStart(p, kind, names) ==
  LET records == ReadRegistry(kind, names) IN
  /\ pass[p].at = "idle" /\ Registered(records) # {}
  /\ pass' = [pass EXCEPT ![p] = [IdlePass EXCEPT !.at = "finalize", !.snap = records,
                                   !.finalize = ListPendingReviews(records)]]
  /\ UNCHANGED <<registry, world, overdue, vends, vendor, crashes>>

Kinds  == {"environment", "component"}
Scopes == {Stacks} \cup {{s} : s \in Stacks}

(* Mutant: a closed pull request counts as a merged one.                   *)
FinalizeDecided(p) ==
  /\ pass[p].at = "finalize"
  /\ \E s \in Stacks :
       /\ Reviewing(s, p)
       /\ IF prs[pass[p].snap[s].pr].state # "open"
          THEN Decommission(s)
          ELSE UNCHANGED registry
       /\ pass' = [pass EXCEPT ![p].finalize = @ \ {s}]
  /\ UNCHANGED <<world, overdue, vends, vendor, crashes>>

(* finalize_merged_decommission: only a merged pull request drops the      *)
(* record; an open or closed one leaves it as it is.                       *)
FinalizeMerged(p) ==
  /\ pass[p].at = "finalize"
  /\ \E s \in Stacks :
       /\ Reviewing(s, p)
       /\ IF prs[pass[p].snap[s].pr].state = "merged"
          THEN Decommission(s)
          ELSE UNCHANGED registry
       /\ pass' = [pass EXCEPT ![p].finalize = @ \ {s}]
  /\ UNCHANGED <<world, overdue, vends, vendor, crashes>>

PassList(p) ==
  /\ pass[p].at = "finalize" /\ pass[p].finalize = {}
  /\ pass' = [pass EXCEPT ![p] = [pass[p] EXCEPT !.at = "next",
                                    !.auto = ListExpired(pass[p].snap),
                                    !.review = ListExpiredForReview(pass[p].snap)]]
  /\ UNCHANGED <<registry, world, overdue, vends, vendor, crashes>>

(* _execute_decommission_pr: clone, preflight.                             *)
PassClone(p) ==
  /\ pass[p].at = "next"
  /\ \E s \in Stacks :
       /\ Turn(s, p)
       /\ \/ /\ OpenOn(ReclaimBranch(s))
             /\ Advance(p, s) /\ UNCHANGED registry
          \/ /\ ~OpenOn(ReclaimBranch(s)) /\ tree[s] = 0
             /\ Advance(p, s) /\ Decommission(s)
          \/ /\ ~OpenOn(ReclaimBranch(s)) /\ tree[s] # 0
             /\ pass' = [pass EXCEPT ![p] = [pass[p] EXCEPT !.at = "cloned", !.stack = s, !.base = tree[s]]]
             /\ UNCHANGED registry
  /\ UNCHANGED <<world, overdue, vends, vendor, crashes>>

PassPush(p) ==
  /\ pass[p].at = "cloned"
  /\ PushGitBranch(ReclaimBranch(pass[p].stack))
  /\ pass' = [pass EXCEPT ![p].at = "pushed"]
  /\ UNCHANGED <<registry, tree, prs, overdue, vends, vendor, crashes>>

(* RepoImportError is not what the loop catches: the pass ends here.       *)
PassPushRejected(p) ==
  /\ pass[p].at = "cloned"
  /\ PushRejected(ReclaimBranch(pass[p].stack))
  /\ pass' = [pass EXCEPT ![p] = IdlePass]
  /\ UNCHANGED <<registry, world, overdue, vends, vendor, crashes>>

Purpose(p) == IF pass[p].stack \in pass[p].auto THEN "reclaim" ELSE "review"

PassOpen(p) ==
  LET s == pass[p].stack IN
  /\ pass[p].at = "pushed"
  /\ CreatePullRequest(s, Purpose(p), ReclaimBranch(s), pass[p].base, 0)
  /\ pass' = [pass EXCEPT ![p] = [pass[p] EXCEPT !.at = "opened", !.pr = Len(prs) + 1]]
  /\ UNCHANGED <<registry, tree, heads, overdue, vends, vendor, crashes>>

(* reclaim_environment drops the record as soon as the pull request is     *)
(* open; request_decommission_review writes the record it has read back,   *)
(* with the pull request.                                                  *)
PassRecord(p) ==
  LET s == pass[p].stack IN
  /\ pass[p].at = "opened"
  /\ IF Purpose(p) = "reclaim"
     THEN Decommission(s)
     ELSE MarkExpired(s, pass[p].snap[s], pass[p].pr)
  /\ Advance(p, s)
  /\ UNCHANGED <<world, overdue, vends, vendor, crashes>>

PassEnds(p) ==
  /\ pass[p].at = "next" /\ Left(p) = {}
  /\ pass' = [pass EXCEPT ![p] = IdlePass]
  /\ UNCHANGED <<registry, world, overdue, vends, vendor, crashes>>

(* A clone or a look-up fails: the record is skipped.                      *)
RecordSkipped(p) ==
  /\ crashes < MaxCrashes
  /\ \E s \in Stacks :
       \/ /\ pass[p].at = "finalize" /\ Reviewing(s, p)
          /\ pass' = [pass EXCEPT ![p].finalize = @ \ {s}]
       \/ /\ pass[p].at = "next" /\ Turn(s, p)
          /\ Advance(p, s)
  /\ crashes' = crashes + 1
  /\ UNCHANGED <<registry, world, overdue, vends, vendor>>

(* The process dies, or GitHub refuses a pull request: nothing catches it. *)
PassAborts(p) ==
  /\ pass[p].at # "idle" /\ crashes < MaxCrashes
  /\ pass' = [pass EXCEPT ![p] = IdlePass]
  /\ crashes' = crashes + 1
  /\ UNCHANGED <<registry, world, overdue, vends, vendor>>

-----------------------------------------------------------------------------
Init ==
  /\ registry = [s \in Stacks |-> NoRecord]
  /\ tree = [s \in Stacks |-> 0]
  /\ heads = {} /\ prs = << >> /\ overdue = {} /\ vends = 0 /\ crashes = 0
  /\ vendor = [v \in Vendors |-> IdleVendor]
  /\ pass = [p \in Passes |-> IdlePass]

VendStep(v) ==
  VendClone(v) \/ VendPush(v) \/ VendPushRejected(v) \/ VendOpen(v) \/ VendRegister(v)

PassStep(p) ==
  \/ FinalizeMerged(p) \/ PassList(p) \/ PassClone(p) \/ PassPush(p)
  \/ PassPushRejected(p) \/ PassOpen(p) \/ PassRecord(p) \/ PassEnds(p)

Next ==
  \/ \E v \in Vendors : VendStep(v) \/ VendFails(v)
  \/ \E p \in Passes, kind \in Kinds, names \in Scopes : PassStart(p, kind, names)
  \/ \E p \in Passes : PassStep(p) \/ RecordSkipped(p) \/ PassAborts(p)
  \/ \E g \in 1..MaxVends : Expires(g)
  \/ \E n \in PRs : Decide(n)

Spec == Init /\ [][Next]_vars

(* The schedule starts pass after pass over each registry, a process that  *)
(* lives goes on, and people decide about every pull request that removes  *)
(* a path.  Nobody is bound to merge what was vended.                      *)
DecideRemoval(n) == n \in PRs /\ prs[n].purpose # "vend" /\ Decide(n)

MaxPRs == MaxVends * (1 + Cardinality(Passes)) + MaxCrashes   \* at most so many are opened

Fairness ==
  /\ \A p \in Passes, kind \in Kinds : SF_vars(PassStart(p, kind, Stacks))
  /\ \A p \in Passes : WF_vars(PassStep(p))
  /\ \A v \in Vendors : WF_vars(VendStep(v))
  /\ \A n \in 1..MaxPRs : WF_vars(DecideRemoval(n))

FairSpec == Spec /\ Fairness

-----------------------------------------------------------------------------
(* Properties *)

PullRequest ==
  [stack : Stacks, purpose : {"vend", "reclaim", "review"}, branch : {"vend", "reclaim"} \X {NameOf[s] : s \in Stacks},
   base : Gens, result : Gens, state : {"open", "merged", "closed"}]

(* Every variable stays within its type.                                   *)
TypeOK ==
  /\ registry \in [Stacks -> Record]
  /\ tree \in [Stacks -> Gens]
  /\ heads \subseteq {"vend", "reclaim"} \X {NameOf[s] : s \in Stacks}
  /\ prs \in Seq(PullRequest)
  /\ overdue \subseteq Gens /\ vends \in Gens /\ crashes \in 0..MaxCrashes
  /\ vendor \in [Vendors -> [at : {"idle", "cloned", "pushed", "opened"},
                              stack : Stacks, gen : Gens, base : Gens]]
  /\ pass \in [Passes -> [at : {"idle", "finalize", "next", "cloned", "pushed", "opened"},
                           snap : [Stacks -> Record], finalize : SUBSET Stacks,
                           auto : SUBSET Stacks, review : SUBSET Stacks,
                           stack : Stacks, base : Gens, pr : Nat]]

(* Two processes that vend or reclaim the same name, or two components of  *)
(* one name, never have two pull requests open from one branch: what       *)
(* keeps them apart is only that the second push is refused.               *)
OneOpenPerBranch ==
  \A m, n \in PRs :
    prs[m].state = "open" /\ prs[n].state = "open" /\ prs[m].branch = prs[n].branch => m = n

(* An expired record names a pull request that asks for the removal of its *)
(* own path, so the merge that the next pass looks for is that one and not *)
(* the merge of what was vended or of a component of the same name.        *)
ExpiredNamesItsReview ==
  \A s \in Stacks : registry[s].status = "expired" =>
    /\ registry[s].pr \in PRs
    /\ prs[registry[s].pr].purpose = "review" /\ prs[registry[s].pr].stack = s

Dropped(s) == registry[s].status # "none" /\ registry'[s].status = "none"

(* Some pass at work has read an older record of s than the registry has.  *)
ReadBeforeRenewal(s) ==
  \E p \in Passes : pass'[p] # pass[p] /\ pass[p].snap[s].gen # registry[s].gen

(* A record that has not expired leaves the registry, or loses its new     *)
(* expiry date, only through a pass that read the registry before the      *)
(* environment was vended again.                                           *)
RenewedLostOnlyToStalePasses ==
  [][\A s \in Stacks :
       (Dropped(s) \/ registry'[s].status = "expired") /\ registry'[s] # registry[s]
         => registry[s].gen \in overdue \/ ReadBeforeRenewal(s)]_registry

(* A record of a class that people must review leaves the registry only    *)
(* when its path is gone or a removal of it has been merged.               *)
ReviewedBeforeDropped ==
  [][\A s \in Stacks : Dropped(s) /\ ClassOf[s] \notin AutoClasses =>
       \/ tree[s] = 0
       \/ \E n \in PRs : prs[n].stack = s /\ prs[n].purpose = "review" /\ prs[n].state = "merged"]_registry

Eligible(s) ==
  ClassOf[s] \in AutoClasses \cup ResolveReviewClasses({ClassOf[t] : t \in Stacks})

Overdue(s) == registry[s].gen \in overdue

(* A branch that only a person can remove: no pull request is open from it *)
(* and no pass has just pushed it.                                         *)
LeftBehind ==
  \E s \in Stacks :
    /\ ReclaimBranch(s) \in heads /\ ~OpenOn(ReclaimBranch(s))
    /\ \A p \in Passes : pass[p].at = "pushed" => ReclaimBranch(pass[p].stack) # ReclaimBranch(s)

Refused(s) == registry[s].status = "expired" /\ prs[registry[s].pr].state = "closed"

(* An expired record of an eligible class leaves the registry or is        *)
(* renewed, unless a person closed its review, or a branch was left on the *)
(* remote: every later push to it is refused and ends the pass before the  *)
(* records that follow.                                                    *)
ExpiredSettles ==
  \A s \in Stacks : Overdue(s) /\ Eligible(s) ~> ~Overdue(s) \/ Refused(s) \/ LeftBehind
=============================================================================
