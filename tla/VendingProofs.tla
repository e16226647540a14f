---------------------------- MODULE VendingProofs ----------------------------
(***************************************************************************)
(* What holds of Vending for any number of stacks, vendors and passes, and *)
(* any number of failures:                                                 *)
(*                                                                         *)
(*   VendingTypeCorrect     every variable keeps its type                  *)
(*   BranchesStayApart      one open pull request per branch               *)
(*   ExpiredRecordsPointTo  an expired record names a review of its path   *)
(*   RenewalsLost           only a pass that read before the renewal undoes*)
(*                          one                                            *)
(*   ReviewsComeFirst       what needs review is not dropped without one   *)
(*                                                                         *)
(* The argument.  A pushed branch belongs to the process that pushed it    *)
(* until its pull request is open, and then to the pull request until that *)
(* is decided; nobody else can push it in the meantime.                    *)
(***************************************************************************)
EXTENDS Vending, TLAPS, SequenceTheorems

Steps == {"idle", "finalize", "next", "cloned", "pushed", "opened"}

VendorRecord ==
  [at : {"idle", "cloned", "pushed", "opened"}, stack : Stacks, gen : Gens, base : Gens]

PassState ==
  [at : Steps, snap : [Stacks -> Record], finalize : SUBSET Stacks, auto : SUBSET Stacks,
   review : SUBSET Stacks, stack : Stacks, base : Gens, pr : Nat]

-----------------------------------------------------------------------------
(* Type correctness *)

LEMMA TypesOfParts ==
  ASSUME TypeOK
  PROVE  /\ \A v \in Vendors : vendor[v] \in VendorRecord
         /\ \A p \in Passes : pass[p] \in PassState
         /\ \A n \in PRs : prs[n] \in PullRequest
         /\ Len(prs) \in Nat /\ DOMAIN prs = PRs
BY DEF TypeOK, VendorRecord, PassState, Steps, PRs

LEMMA NoRecordIsRecord == NoRecord \in Record
BY VendingAssumption DEF NoRecord, Record, Gens

LEMMA IdleTypes == IdleVendor \in VendorRecord /\ IdlePass \in PassState
<1>1. (CHOOSE s \in Stacks : TRUE) \in Stacks
  BY VendingAssumption
<1> QED
  BY <1>1, NoRecordIsRecord, VendingAssumption
     DEF IdleVendor, IdlePass, VendorRecord, PassState, Steps, Gens

LEMMA BranchTypes ==
  ASSUME NEW s \in Stacks
  PROVE  /\ VendBranch(s) \in {"vend", "reclaim"} \X {NameOf[t] : t \in Stacks}
         /\ ReclaimBranch(s) \in {"vend", "reclaim"} \X {NameOf[t] : t \in Stacks}
BY DEF VendBranch, ReclaimBranch

LEMMA ReadTypes ==
  ASSUME TypeOK, NEW kind, NEW names
  PROVE  ReadRegistry(kind, names) \in [Stacks -> Record]
BY NoRecordIsRecord DEF ReadRegistry, TypeOK

LEMMA InitTyped == Init => TypeOK
<1> SUFFICES ASSUME Init PROVE TypeOK
  OBVIOUS
<1>1. prs \in Seq(PullRequest)
  BY DEF Init
<1> QED
  BY <1>1, IdleTypes, NoRecordIsRecord, VendingAssumption
     DEF Init, TypeOK, VendorRecord, PassState, Steps, Gens

LEMMA PRAppended ==
  ASSUME TypeOK, NEW s \in Stacks, NEW purpose \in {"vend", "reclaim", "review"},
         NEW b \in {"vend", "reclaim"} \X {NameOf[t] : t \in Stacks},
         NEW base \in Gens, NEW result \in Gens,
         CreatePullRequest(s, purpose, b, base, result)
  PROVE  /\ prs' \in Seq(PullRequest) /\ Len(prs') = Len(prs) + 1
         /\ \A n \in PRs : prs'[n] = prs[n]
         /\ prs'[Len(prs) + 1].stack = s /\ prs'[Len(prs) + 1].purpose = purpose
         /\ prs'[Len(prs) + 1].branch = b
<1> DEFINE pr == [stack |-> s, purpose |-> purpose, branch |-> b,
                  base |-> base, result |-> result, state |-> "open"]
<1>1. pr \in PullRequest
  BY DEF PullRequest
<1>2. prs \in Seq(PullRequest) /\ prs' = Append(prs, pr)
  BY DEF TypeOK, CreatePullRequest
<1> HIDE DEF pr
<1>3. /\ prs' \in Seq(PullRequest) /\ Len(prs') = Len(prs) + 1
      /\ \A n \in 1..Len(prs) : prs'[n] = prs[n]
      /\ prs'[Len(prs) + 1] = pr
  BY <1>1, <1>2, AppendProperties
<1> QED BY <1>3 DEF pr, PRs

LEMMA PRDecided ==
  ASSUME TypeOK, NEW n \in PRs, NEW st \in {"merged", "closed"},
         prs' = [prs EXCEPT ![n].state = st]
  PROVE  /\ prs' \in Seq(PullRequest) /\ Len(prs') = Len(prs)
         /\ \A m \in PRs : /\ prs'[m].branch = prs[m].branch /\ prs'[m].stack = prs[m].stack
                           /\ prs'[m].purpose = prs[m].purpose
                           /\ prs'[m].state = IF m = n THEN st ELSE prs[m].state
<1>1. prs[n] \in PullRequest
  BY TypesOfParts
<1>2. [prs[n] EXCEPT !.state = st] \in PullRequest
  BY <1>1 DEF PullRequest
<1>3. prs' = [prs EXCEPT ![n] = [prs[n] EXCEPT !.state = st]]
  BY DEF TypeOK
<1>4. prs \in Seq(PullRequest) /\ n \in 1..Len(prs)
  BY DEF TypeOK, PRs
<1>5. /\ prs' \in Seq(PullRequest) /\ Len(prs') = Len(prs)
      /\ \A m \in 1..Len(prs) : prs'[m] = IF m = n THEN [prs[n] EXCEPT !.state = st] ELSE prs[m]
  BY <1>2, <1>3, <1>4, ExceptSeq
<1> QED BY <1>1, <1>5 DEF PRs, PullRequest

(* What a step of one vendor or one pass has to show. *)
LEMMA VendorMoves ==
  ASSUME TypeOK, NEW v \in Vendors, NEW r \in VendorRecord, vendor' = [vendor EXCEPT ![v] = r]
  PROVE  vendor' \in [Vendors -> VendorRecord]
BY DEF TypeOK, VendorRecord

LEMMA PassMoves ==
  ASSUME TypeOK, NEW p \in Passes, NEW r \in PassState, pass' = [pass EXCEPT ![p] = r]
  PROVE  pass' \in [Passes -> PassState]
BY DEF TypeOK, PassState, Steps

LEMMA Registers ==
  ASSUME TypeOK, NEW s \in Stacks, NEW r \in Record, RegisterRecord(s, r)
  PROVE  registry' \in [Stacks -> Record]
BY DEF TypeOK, RegisterRecord

LEMMA Decommissions ==
  ASSUME TypeOK, NEW s \in Stacks, Decommission(s)
  PROVE  registry' \in [Stacks -> Record]
BY NoRecordIsRecord DEF TypeOK, Decommission

LEMMA Advances ==
  ASSUME TypeOK, NEW p \in Passes, NEW s, Advance(p, s)
  PROVE  pass' \in [Passes -> PassState]
<1>1. pass[p] \in PassState
  BY TypesOfParts
<1>2. [pass[p] EXCEPT !.at = "next", !.auto = pass[p].auto \ {s},
              !.review = pass[p].review \ {s}] \in PassState
  BY <1>1 DEF PassState, Steps
<1>3. pass' = [pass EXCEPT ![p] =
                 [pass[p] EXCEPT !.at = "next", !.auto = pass[p].auto \ {s},
              !.review = pass[p].review \ {s}]]
  BY DEF Advance
<1> QED BY <1>2, <1>3, PassMoves

LEMMA VendTyped ==
  ASSUME TypeOK, NEW v \in Vendors, VendStep(v) \/ VendFails(v)
  PROVE  TypeOK'
<1> USE TypesOfParts, VendingAssumption DEF Gens
<1>a. vendor[v] \in VendorRecord
  OBVIOUS
<1>1. CASE VendClone(v)
  <2>1. PICK s \in Stacks : vendor' = [vendor EXCEPT ![v] =
                 [at |-> "cloned", stack |-> s, gen |-> vends + 1, base |-> tree[s]]]
    BY <1>1 DEF VendClone
  <2>2. vends + 1 \in Gens /\ tree[s] \in Gens
    BY <1>1 DEF VendClone, TypeOK
  <2>3. vendor' \in [Vendors -> VendorRecord]
    BY <2>1, <2>2, VendorMoves DEF VendorRecord
  <2> QED BY <1>1, <2>2, <2>3 DEF VendClone, TypeOK, VendorRecord, world
<1>2. CASE VendPush(v)
  <2>1. vendor' = [vendor EXCEPT ![v] = [vendor[v] EXCEPT !.at = "pushed"]]
    BY <1>2 DEF VendPush, TypeOK
  <2>2. vendor' \in [Vendors -> VendorRecord]
    BY <1>a, <2>1, VendorMoves DEF VendorRecord
  <2>3. VendBranch(vendor[v].stack) \in {"vend", "reclaim"} \X {NameOf[t] : t \in Stacks}
    BY <1>a, BranchTypes DEF VendorRecord
  <2> QED BY <1>2, <2>2, <2>3 DEF VendPush, PushGitBranch, TypeOK, VendorRecord
<1>3. CASE VendPushRejected(v)
  BY <1>3, IdleTypes, VendorMoves DEF VendPushRejected, TypeOK, VendorRecord, world
<1>4. CASE VendOpen(v)
  <2>1. vendor' = [vendor EXCEPT ![v] = [vendor[v] EXCEPT !.at = "opened"]]
    BY <1>4 DEF VendOpen, TypeOK
  <2>2. vendor' \in [Vendors -> VendorRecord]
    BY <1>a, <2>1, VendorMoves DEF VendorRecord
  <2>3. /\ vendor[v].stack \in Stacks /\ vendor[v].base \in Gens /\ vendor[v].gen \in Gens
        /\ VendBranch(vendor[v].stack) \in {"vend", "reclaim"} \X {NameOf[t] : t \in Stacks}
    BY <1>a, BranchTypes DEF VendorRecord
  <2>4. prs' \in Seq(PullRequest)
    BY <1>4, <2>3, PRAppended DEF VendOpen
  <2> QED BY <1>4, <2>2, <2>4 DEF VendOpen, TypeOK, VendorRecord
<1>5. CASE VendRegister(v)
  <2>1. PICK status \in {"active", "pending"}, n \in PRs :
          RegisterRecord(vendor[v].stack, [gen |-> vendor[v].gen, status |-> status, pr |-> n])
    BY <1>5 DEF VendRegister
  <2>2. [gen |-> vendor[v].gen, status |-> status, pr |-> n] \in Record /\ vendor[v].stack \in Stacks
    BY <1>a DEF Record, VendorRecord, PRs
  <2>3. registry' \in [Stacks -> Record]
    BY <2>1, <2>2, Registers
  <2> QED BY <1>5, <2>3, IdleTypes, VendorMoves DEF VendRegister, TypeOK, VendorRecord, world
<1>6. CASE VendFails(v)
  <2>1. vendor' \in [Vendors -> VendorRecord]
    BY <1>6, IdleTypes, VendorMoves DEF VendFails
  <2>2. crashes' \in 0..MaxCrashes
    BY <1>6 DEF VendFails, TypeOK
  <2> QED BY <1>6, <2>1, <2>2 DEF VendFails, TypeOK, VendorRecord, world
<1> QED BY <1>1, <1>2, <1>3, <1>4, <1>5, <1>6 DEF VendStep

(* A step of a pass that leaves GitHub, the clock and the vendors alone.   *)
LEMMA PassTyped ==
  ASSUME TypeOK, NEW p \in Passes,
         \/ \E kind \in Kinds, names \in Scopes : PassStart(p, kind, names)
         \/ PassStep(p) \/ RecordSkipped(p) \/ PassAborts(p)
  PROVE  TypeOK'
<1> USE TypesOfParts, VendingAssumption DEF Gens
<1>a. /\ pass[p] \in PassState
      /\ pass[p].stack \in Stacks /\ pass[p].base \in Gens /\ pass[p].snap \in [Stacks -> Record]
      /\ pass[p].pr \in Nat
  BY DEF PassState
<1>b. /\ VendBranch(pass[p].stack) \in {"vend", "reclaim"} \X {NameOf[t] : t \in Stacks}
      /\ ReclaimBranch(pass[p].stack) \in {"vend", "reclaim"} \X {NameOf[t] : t \in Stacks}
  BY <1>a, BranchTypes
<1>c. SUFFICES ASSUME /\ registry' \in [Stacks -> Record]
                      /\ pass' \in [Passes -> PassState]
                      /\ heads' \subseteq {"vend", "reclaim"} \X {NameOf[s] : s \in Stacks}
                      /\ prs' \in Seq(PullRequest)
                      /\ crashes' \in 0..MaxCrashes
                      /\ UNCHANGED <<tree, overdue, vends, vendor>>
               PROVE  TypeOK'
  <2>1. CASE \E kind \in Kinds, names \in Scopes : PassStart(p, kind, names)
    <3>1. PICK kind \in Kinds, names \in Scopes : PassStart(p, kind, names)
      BY <2>1
    <3>2. ReadRegistry(kind, names) \in [Stacks -> Record]
      BY ReadTypes
    <3>3. [IdlePass EXCEPT !.at = "finalize", !.snap = ReadRegistry(kind, names),
             !.finalize = ListPendingReviews(ReadRegistry(kind, names))] \in PassState
      BY <3>2, IdleTypes DEF PassState, Steps, ListPendingReviews, Registered
    <3>4. pass' \in [Passes -> PassState]
      BY <3>1, <3>3, PassMoves DEF PassStart
    <3> QED BY <1>c, <3>1, <3>4 DEF PassStart, TypeOK, world
  <2>2. CASE FinalizeMerged(p)
    <3>1. PICK s \in Stacks : /\ Decommission(s) \/ UNCHANGED registry
                              /\ pass' = [pass EXCEPT ![p].finalize = @ \ {s}]
      BY <2>2 DEF FinalizeMerged
    <3>2. registry' \in [Stacks -> Record]
      BY <3>1, Decommissions DEF TypeOK
    <3>3. [pass[p] EXCEPT !.finalize = pass[p].finalize \ {s}] \in PassState
      BY <1>a DEF PassState
    <3>4. pass' \in [Passes -> PassState]
      BY <3>1, <3>3, PassMoves
    <3> QED BY <1>c, <2>2, <3>2, <3>4 DEF FinalizeMerged, TypeOK, world
  <2>3. CASE PassList(p)
    <3>1. /\ ListExpired(pass[p].snap) \subseteq Stacks
          /\ ListExpiredForReview(pass[p].snap) \subseteq Stacks
      BY DEF ListExpired, ListExpiredForReview, Registered
    <3>2. [pass[p] EXCEPT !.at = "next", !.auto = ListExpired(pass[p].snap),
             !.review = ListExpiredForReview(pass[p].snap)] \in PassState
      BY <1>a, <3>1 DEF PassState, Steps
    <3>3. pass' \in [Passes -> PassState]
      BY <2>3, <3>2, PassMoves DEF PassList
    <3> QED BY <1>c, <2>3, <3>3 DEF PassList, TypeOK, world
  <2>4. CASE PassClone(p)
    <3>1. PICK s \in Stacks :
            \/ Advance(p, s) /\ UNCHANGED registry
            \/ Advance(p, s) /\ Decommission(s)
            \/ /\ pass' = [pass EXCEPT ![p] = [pass[p] EXCEPT !.at = "cloned", !.stack = s,
                                                              !.base = tree[s]]]
               /\ UNCHANGED registry
      BY <2>4 DEF PassClone
    <3>2. registry' \in [Stacks -> Record]
      BY <3>1, Decommissions DEF TypeOK
    <3>3. [pass[p] EXCEPT !.at = "cloned", !.stack = s, !.base = tree[s]] \in PassState
      BY <1>a DEF PassState, Steps, TypeOK
    <3>4. pass' \in [Passes -> PassState]
      BY <3>1, <3>3, Advances, PassMoves
    <3> QED BY <1>c, <2>4, <3>2, <3>4 DEF PassClone, TypeOK, world
  <2>5. CASE PassPush(p)
    <3>1. [pass[p] EXCEPT !.at = "pushed"] \in PassState
      BY <1>a DEF PassState, Steps
    <3>2. pass' \in [Passes -> PassState]
      BY <2>5, <3>1, PassMoves DEF PassPush
    <3> QED BY <1>b, <1>c, <2>5, <3>2 DEF PassPush, PushGitBranch, TypeOK
  <2>6. CASE PassPushRejected(p)
    <3>1. pass' \in [Passes -> PassState]
      BY <2>6, IdleTypes, PassMoves DEF PassPushRejected
    <3> QED BY <1>c, <2>6, <3>1 DEF PassPushRejected, TypeOK, world
  <2>7. CASE PassOpen(p)
    <3>a. Len(prs) + 1 \in Nat
      OBVIOUS
    <3>1. [pass[p] EXCEPT !.at = "opened", !.pr = Len(prs) + 1] \in PassState
      BY <1>a, <3>a DEF PassState, Steps
    <3>2. pass' \in [Passes -> PassState]
      BY <2>7, <3>1, PassMoves DEF PassOpen
    <3>3. Purpose(p) \in {"vend", "reclaim", "review"} /\ 0 \in Gens
      BY DEF Purpose
    <3>4. prs' \in Seq(PullRequest)
      BY <1>a, <1>b, <2>7, <3>3, PRAppended DEF PassOpen
    <3> QED BY <1>c, <2>7, <3>2, <3>4 DEF PassOpen, TypeOK
  <2>8. CASE PassRecord(p)
    <3>1. pass' \in [Passes -> PassState]
      BY <2>8, Advances DEF PassRecord
    <3>2. [gen |-> pass[p].snap[pass[p].stack].gen, status |-> "expired", pr |-> pass[p].pr]
            \in Record
      BY <1>a DEF Record
    <3>3. \/ Decommission(pass[p].stack)
          \/ RegisterRecord(pass[p].stack, [gen |-> pass[p].snap[pass[p].stack].gen,
                                            status |-> "expired", pr |-> pass[p].pr])
      <4>1. CASE Purpose(p) = "reclaim"
        BY <2>8, <4>1 DEF PassRecord
      <4>2. CASE Purpose(p) # "reclaim"
        BY <2>8, <4>2 DEF PassRecord, MarkExpired
      <4> QED BY <4>1, <4>2
    <3>4. registry' \in [Stacks -> Record]
      BY <1>a, <3>2, <3>3, Registers, Decommissions
    <3> QED BY <1>c, <2>8, <3>1, <3>4 DEF PassRecord, TypeOK, world
  <2>9. CASE PassEnds(p)
    <3>1. pass' \in [Passes -> PassState]
      BY <2>9, IdleTypes, PassMoves DEF PassEnds
    <3> QED BY <1>c, <2>9, <3>1 DEF PassEnds, TypeOK, world
  <2>10. CASE RecordSkipped(p)
    <3>1. PICK s \in Stacks : \/ pass' = [pass EXCEPT ![p].finalize = @ \ {s}]
                              \/ Advance(p, s)
      BY <2>10 DEF RecordSkipped
    <3>2. [pass[p] EXCEPT !.finalize = pass[p].finalize \ {s}] \in PassState
      BY <1>a DEF PassState
    <3>3. pass' \in [Passes -> PassState]
      BY <3>1, <3>2, Advances, PassMoves
    <3>4. crashes' \in 0..MaxCrashes
      BY <2>10 DEF RecordSkipped, TypeOK
    <3> QED BY <1>c, <2>10, <3>3, <3>4 DEF RecordSkipped, TypeOK, world
  <2>11. CASE PassAborts(p)
    <3>1. pass' \in [Passes -> PassState]
      BY <2>11, IdleTypes, PassMoves DEF PassAborts
    <3>2. crashes' \in 0..MaxCrashes
      BY <2>11 DEF PassAborts, TypeOK
    <3> QED BY <1>c, <2>11, <3>1, <3>2 DEF PassAborts, TypeOK, world
  <2> QED
    BY <2>1, <2>2, <2>3, <2>4, <2>5, <2>6, <2>7, <2>8, <2>9, <2>10, <2>11 DEF PassStep
<1> QED BY <1>c DEF TypeOK, PassState, Steps

LEMMA DecideTyped ==
  ASSUME TypeOK, NEW n \in PRs, Decide(n)
  PROVE  TypeOK'
<1>1. /\ prs[n] \in PullRequest
      /\ heads \ {prs[n].branch} \subseteq heads
  BY TypesOfParts
<1>2. PICK remaining \in {heads, heads \ {prs[n].branch}} : Merge(n, remaining) \/ ClosePR(n, remaining)
  BY DEF Decide
<1>3. CASE Merge(n, remaining)
  <2>1. prs' \in Seq(PullRequest)
    BY <1>3, PRDecided DEF Merge
  <2>2. tree' \in [Stacks -> Gens]
    BY <1>1, <1>3 DEF Merge, TypeOK, PullRequest
  <2> QED BY <1>2, <1>3, <2>1, <2>2 DEF Merge, TypeOK
<1>4. CASE ClosePR(n, remaining)
  <2>1. prs' \in Seq(PullRequest)
    BY <1>4, PRDecided DEF ClosePR
  <2> QED BY <1>2, <1>4, <2>1 DEF ClosePR, TypeOK
<1> QED BY <1>2, <1>3, <1>4

LEMMA StepTyped ==
  ASSUME TypeOK, [Next]_vars
  PROVE  TypeOK'
<1>1. CASE \E v \in Vendors : VendStep(v) \/ VendFails(v)
  BY <1>1, VendTyped
<1>2. CASE \E p \in Passes, kind \in Kinds, names \in Scopes : PassStart(p, kind, names)
  BY <1>2, PassTyped
<1>3. CASE \E p \in Passes : PassStep(p) \/ RecordSkipped(p) \/ PassAborts(p)
  BY <1>3, PassTyped
<1>4. CASE \E g \in 1..MaxVends : Expires(g)
  <2>1. overdue' \subseteq Gens
    BY <1>4, VendingAssumption DEF Expires, TypeOK, Gens
  <2> QED BY <1>4, <2>1 DEF Expires, TypeOK, world
<1>5. CASE \E n \in PRs : Decide(n)
  BY <1>5, DecideTyped
<1>6. CASE UNCHANGED vars
  BY <1>6 DEF vars, world, TypeOK
<1> QED BY <1>1, <1>2, <1>3, <1>4, <1>5, <1>6 DEF Next

(* Every variable stays within its type, for any number of everything.     *)
THEOREM VendingTypeCorrect == Spec => []TypeOK
<1>1. Init => TypeOK
  BY InitTyped
<1>2. TypeOK /\ [Next]_vars => TypeOK'
  BY StepTyped
<1> QED BY <1>1, <1>2, PTL DEF Spec

-----------------------------------------------------------------------------
(* Branches *)

(* The branches that a process has pushed and not yet opened from.         *)
VendPushed(v) == vendor[v].at = "pushed"
PassPushed(p) == pass[p].at = "pushed"

VendHolds(v) == VendBranch(vendor[v].stack)
PassHolds(p) == ReclaimBranch(pass[p].stack)

Held(b) == b \in heads /\ ~OpenOn(b)

BranchInv ==
  /\ OneOpenPerBranch
  /\ \A n \in PRs : prs[n].state = "open" => prs[n].branch \in heads
  /\ \A v \in Vendors : VendPushed(v) => Held(VendHolds(v))
  /\ \A p \in Passes : PassPushed(p) => Held(PassHolds(p))
  /\ \A v, w \in Vendors : VendPushed(v) /\ VendPushed(w) /\ VendHolds(v) = VendHolds(w) => v = w
  /\ \A p, q \in Passes : PassPushed(p) /\ PassPushed(q) /\ PassHolds(p) = PassHolds(q) => p = q

LEMMA BranchesDiffer ==
  ASSUME NEW s, NEW t
  PROVE  VendBranch(s) # ReclaimBranch(t)
BY DEF VendBranch, ReclaimBranch

(* A step that leaves branches and pull requests alone, after which every  *)
(* process that has pushed had already pushed the same branch.             *)
LEMMA NothingPushed ==
  ASSUME BranchInv, UNCHANGED <<heads, prs>>,
         \A v \in Vendors : VendPushed(v)' => VendPushed(v) /\ VendHolds(v)' = VendHolds(v),
         \A p \in Passes : PassPushed(p)' => PassPushed(p) /\ PassHolds(p)' = PassHolds(p)
  PROVE  BranchInv'
BY DEF BranchInv, OneOpenPerBranch, PRs, Held, OpenOn

LEMMA IdleVendors ==
  ASSUME TypeOK, NEW v \in Vendors, NEW r, vendor' = [vendor EXCEPT ![v] = r], r.at # "pushed",
         UNCHANGED pass
  PROVE  /\ \A w \in Vendors : VendPushed(w)' => w # v /\ VendPushed(w) /\ VendHolds(w)' = VendHolds(w)
         /\ \A p \in Passes : PassPushed(p)' => PassPushed(p) /\ PassHolds(p)' = PassHolds(p)
BY DEF TypeOK, VendPushed, PassPushed, VendHolds, PassHolds

LEMMA IdlePasses ==
  ASSUME TypeOK, NEW p \in Passes, NEW r, pass' = [pass EXCEPT ![p] = r], r.at # "pushed",
         UNCHANGED vendor
  PROVE  /\ \A q \in Passes : PassPushed(q)' => q # p /\ PassPushed(q) /\ PassHolds(q)' = PassHolds(q)
         /\ \A v \in Vendors : VendPushed(v)' => VendPushed(v) /\ VendHolds(v)' = VendHolds(v)
BY DEF TypeOK, VendPushed, PassPushed, VendHolds, PassHolds

(* A pull request opened from a branch that no other process holds.        *)
LEMMA Opened ==
  ASSUME TypeOK, BranchInv, NEW b, Held(b), UNCHANGED heads,
         Len(prs') = Len(prs) + 1, \A n \in PRs : prs'[n] = prs[n], prs'[Len(prs) + 1].branch = b,
         \A v \in Vendors : VendPushed(v)' => VendPushed(v) /\ VendHolds(v)' = VendHolds(v)
                                              /\ VendHolds(v) # b,
         \A p \in Passes : PassPushed(p)' => PassPushed(p) /\ PassHolds(p)' = PassHolds(p)
                                             /\ PassHolds(p) # b
  PROVE  BranchInv'
<1>1. Len(prs) \in Nat /\ PRs = 1..Len(prs) /\ PRs' = PRs \cup {Len(prs) + 1}
  BY TypesOfParts DEF PRs
<1>2. OneOpenPerBranch' /\ \A n \in PRs' : prs'[n].state = "open" => prs'[n].branch \in heads'
  BY <1>1 DEF BranchInv, OneOpenPerBranch, Held, OpenOn
<1>3. \A c : Held(c) /\ c # b => Held(c)'
  BY <1>1 DEF Held, OpenOn
<1> QED BY <1>2, <1>3 DEF BranchInv

(* A branch that is new on the remote has no pull request and no holder.   *)
LEMMA NewBranch ==
  ASSUME BranchInv, NEW b, PushGitBranch(b), UNCHANGED prs
  PROVE  /\ Held(b)' /\ \A c : Held(c) => Held(c)' /\ c # b
         /\ OneOpenPerBranch'
         /\ \A n \in PRs' : prs'[n].state = "open" => prs'[n].branch \in heads'
BY DEF BranchInv, PushGitBranch, Held, OpenOn, OneOpenPerBranch, PRs

LEMMA VendKeepsBranches ==
  ASSUME TypeOK, BranchInv, NEW v \in Vendors, VendStep(v) \/ VendFails(v)
  PROVE  BranchInv'
<1>1. CASE VendClone(v)
  <2>1. PICK s \in Stacks : vendor' = [vendor EXCEPT ![v] =
                 [at |-> "cloned", stack |-> s, gen |-> vends + 1, base |-> tree[s]]]
    BY <1>1 DEF VendClone
  <2> QED BY <1>1, <2>1, IdleVendors, NothingPushed DEF VendClone, world
<1>2. CASE VendPushRejected(v)
  BY <1>2, IdleVendors, NothingPushed DEF VendPushRejected, IdleVendor, world
<1>3. CASE VendRegister(v)
  BY <1>3, IdleVendors, NothingPushed DEF VendRegister, IdleVendor, world
<1>4. CASE VendFails(v)
  <2>1. /\ vendor' = [vendor EXCEPT ![v] = IdleVendor] /\ IdleVendor.at # "pushed"
        /\ UNCHANGED <<heads, prs, pass>>
    BY <1>4 DEF VendFails, IdleVendor, world
  <2> QED BY <2>1, IdleVendors, NothingPushed
<1>5. CASE VendPush(v)
  <2>1. PushGitBranch(VendHolds(v)) /\ UNCHANGED <<prs, pass>>
    BY <1>5 DEF VendPush, VendHolds
  <2>2. VendHolds(v)' = VendHolds(v)
    BY <1>5 DEF VendPush, VendHolds, TypeOK
  <2>3. \A w \in Vendors \ {v} : VendPushed(w)' = VendPushed(w) /\ VendHolds(w)' = VendHolds(w)
    BY <1>5 DEF VendPush, VendPushed, VendHolds, TypeOK
  <2>4. \A p \in Passes : PassPushed(p)' = PassPushed(p) /\ PassHolds(p)' = PassHolds(p)
    BY <2>1 DEF PassPushed, PassHolds
  <2> QED BY <2>1, <2>2, <2>3, <2>4, NewBranch DEF BranchInv
<1>6. CASE VendOpen(v)
  <2> DEFINE b == VendHolds(v)
  <2>1. vendor[v] \in VendorRecord /\ VendPushed(v)
    BY <1>6, TypesOfParts DEF VendOpen, VendPushed
  <2>2. /\ Len(prs') = Len(prs) + 1 /\ \A n \in PRs : prs'[n] = prs[n]
        /\ prs'[Len(prs) + 1].branch = b
    BY <1>6, <2>1, PRAppended, BranchTypes DEF VendOpen, VendorRecord, VendHolds
  <2>3. vendor' = [vendor EXCEPT ![v] = [vendor[v] EXCEPT !.at = "opened"]] /\ UNCHANGED <<heads, pass>>
    BY <1>6 DEF VendOpen
  <2>4. [vendor[v] EXCEPT !.at = "opened"].at # "pushed"
    BY <2>1 DEF VendorRecord
  <2>5. /\ \A w \in Vendors : VendPushed(w)' => w # v /\ VendPushed(w) /\ VendHolds(w)' = VendHolds(w)
        /\ \A p \in Passes : PassPushed(p)' => PassPushed(p) /\ PassHolds(p)' = PassHolds(p)
    BY <2>3, <2>4, IdleVendors
  <2>6. Held(b) /\ \A w \in Vendors : VendPushed(w) /\ w # v => VendHolds(w) # b
    BY <2>1 DEF BranchInv
  <2>7. \A p \in Passes : PassHolds(p) # b
    BY BranchesDiffer DEF PassHolds, VendHolds
  <2> HIDE DEF b
  <2> QED BY <2>2, <2>3, <2>5, <2>6, <2>7, Opened
<1> QED BY <1>1, <1>2, <1>3, <1>4, <1>5, <1>6 DEF VendStep

LEMMA PassKeepsBranches ==
  ASSUME TypeOK, BranchInv, NEW p \in Passes,
         \/ \E kind \in Kinds, names \in Scopes : PassStart(p, kind, names)
         \/ PassStep(p) \/ RecordSkipped(p) \/ PassAborts(p)
  PROVE  BranchInv'
<1>a. pass[p] \in PassState
  BY TypesOfParts
<1>1. CASE PassPush(p)
  <2>1. PushGitBranch(PassHolds(p)) /\ UNCHANGED <<prs, vendor>>
    BY <1>1 DEF PassPush, PassHolds
  <2>2. PassHolds(p)' = PassHolds(p)
    BY <1>1 DEF PassPush, PassHolds, TypeOK
  <2>3. \A q \in Passes \ {p} : PassPushed(q)' = PassPushed(q) /\ PassHolds(q)' = PassHolds(q)
    BY <1>1 DEF PassPush, PassPushed, PassHolds, TypeOK
  <2>4. \A v \in Vendors : VendPushed(v)' = VendPushed(v) /\ VendHolds(v)' = VendHolds(v)
    BY <2>1 DEF VendPushed, VendHolds
  <2> QED BY <2>1, <2>2, <2>3, <2>4, NewBranch DEF BranchInv
<1>2. CASE PassOpen(p)
  <2> DEFINE b == PassHolds(p)
  <2>1. PassPushed(p) /\ pass[p].stack \in Stacks /\ pass[p].base \in Gens /\ 0 \in Gens
    BY <1>a, <1>2, VendingAssumption DEF PassOpen, PassPushed, PassState, Gens
  <2>2. /\ Len(prs') = Len(prs) + 1 /\ \A n \in PRs : prs'[n] = prs[n]
        /\ prs'[Len(prs) + 1].branch = b
    BY <1>2, <2>1, PRAppended, BranchTypes DEF PassOpen, PassHolds, Purpose
  <2>3. /\ pass' = [pass EXCEPT ![p] = [pass[p] EXCEPT !.at = "opened", !.pr = Len(prs) + 1]]
        /\ UNCHANGED <<heads, vendor>>
    BY <1>2 DEF PassOpen
  <2>4. [pass[p] EXCEPT !.at = "opened", !.pr = Len(prs) + 1].at # "pushed"
    BY <1>a DEF PassState
  <2>5. /\ \A q \in Passes : PassPushed(q)' => q # p /\ PassPushed(q) /\ PassHolds(q)' = PassHolds(q)
        /\ \A v \in Vendors : VendPushed(v)' => VendPushed(v) /\ VendHolds(v)' = VendHolds(v)
    BY <2>3, <2>4, IdlePasses
  <2>6. Held(b) /\ \A q \in Passes : PassPushed(q) /\ q # p => PassHolds(q) # b
    BY <2>1 DEF BranchInv
  <2>7. \A v \in Vendors : VendHolds(v) # b
    BY BranchesDiffer DEF PassHolds, VendHolds
  <2> HIDE DEF b
  <2> QED BY <2>2, <2>3, <2>5, <2>6, <2>7, Opened
<1>3. CASE ~PassPush(p) /\ ~PassOpen(p)
  <2>1. UNCHANGED <<heads, prs, vendor>>
    BY <1>3 DEF PassStep, PassStart, FinalizeMerged, PassList, PassClone, PassPushRejected,
                PassRecord, PassEnds, RecordSkipped, PassAborts, world
  <2>2. SUFFICES ASSUME PassPushed(p)'
                 PROVE  PassPushed(p) /\ PassHolds(p)' = PassHolds(p)
    <3>1. \A q \in Passes \ {p} : pass'[q] = pass[q]
      BY <1>3 DEF PassStep, PassStart, FinalizeMerged, PassList, PassClone, PassPushRejected,
                  PassRecord, PassEnds, RecordSkipped, PassAborts, Advance, TypeOK
    <3> QED BY <2>1, <2>2, <3>1, NothingPushed DEF PassPushed, PassHolds, VendPushed, VendHolds
  <2>3. pass'[p].at \in {"idle", "finalize", "next", "cloned"}
    <3>1. ASSUME NEW s, Advance(p, s) PROVE pass'[p].at = "next"
      BY <1>a, <3>1 DEF Advance, TypeOK, PassState
    <3>2. ASSUME pass' = [pass EXCEPT ![p] = IdlePass] PROVE pass'[p].at = "idle"
      BY <3>2 DEF TypeOK, IdlePass
    <3>3. ASSUME NEW s, pass[p].at = "finalize", pass' = [pass EXCEPT ![p].finalize = @ \ {s}]
          PROVE  pass'[p].at = "finalize"
      BY <1>a, <3>3 DEF TypeOK, PassState
    <3>4. CASE \E kind \in Kinds, names \in Scopes : PassStart(p, kind, names)
      <4>1. PICK kind \in Kinds, names \in Scopes : PassStart(p, kind, names)
        BY <3>4
      <4>2. \A f, g : [IdlePass EXCEPT !.at = "finalize", !.snap = f, !.finalize = g].at = "finalize"
        BY DEF IdlePass
      <4> QED BY <4>1, <4>2 DEF PassStart, TypeOK
    <3>5. CASE FinalizeMerged(p)
      BY <3>3, <3>5 DEF FinalizeMerged
    <3>6. CASE PassList(p)
      BY <1>a, <3>6 DEF PassList, TypeOK, PassState
    <3>7. CASE PassClone(p)
      <4>1. ASSUME NEW s, pass' = [pass EXCEPT ![p] = [pass[p] EXCEPT !.at = "cloned", !.stack = s,
                                                                     !.base = tree[s]]]
            PROVE  pass'[p].at = "cloned"
        BY <1>a, <4>1 DEF TypeOK, PassState
      <4> QED BY <3>1, <3>7, <4>1 DEF PassClone
    <3>8. CASE PassPushRejected(p) \/ PassEnds(p) \/ PassAborts(p)
      BY <3>2, <3>8 DEF PassPushRejected, PassEnds, PassAborts
    <3>9. CASE PassRecord(p)
      BY <3>1, <3>9 DEF PassRecord
    <3>10. CASE RecordSkipped(p)
      BY <3>1, <3>3, <3>10 DEF RecordSkipped
    <3> QED BY <1>3, <3>4, <3>5, <3>6, <3>7, <3>8, <3>9, <3>10 DEF PassStep
  <2> QED BY <2>2, <2>3 DEF PassPushed
<1> QED BY <1>1, <1>2, <1>3

(* The branch that GitHub or a person deletes is that of the pull request  *)
(* just decided: no process holds it, and no other one is open from it.    *)
LEMMA DecideKeepsBranches ==
  ASSUME TypeOK, BranchInv, NEW n \in PRs, Decide(n)
  PROVE  BranchInv'
<1>1. PICK remaining \in {heads, heads \ {prs[n].branch}} : Merge(n, remaining) \/ ClosePR(n, remaining)
  BY DEF Decide
<1>2. /\ prs[n].state = "open" /\ heads' = remaining /\ UNCHANGED <<vendor, pass>>
      /\ \E st \in {"merged", "closed"} : prs' = [prs EXCEPT ![n].state = st]
  BY <1>1 DEF Merge, ClosePR, Mergeable
<1>3. /\ Len(prs') = Len(prs)
      /\ \A m \in PRs : /\ prs'[m].branch = prs[m].branch
                        /\ prs'[m].state = "open" => m # n /\ prs[m].state = "open"
  BY <1>2, PRDecided
<1>4. PRs' = PRs
  BY <1>3 DEF PRs
<1>5. OneOpenPerBranch' /\ \A m \in PRs' : prs'[m].state = "open" => prs'[m].branch \in heads'
  BY <1>1, <1>2, <1>3, <1>4 DEF BranchInv, OneOpenPerBranch
<1>6. \A b : Held(b) => Held(b)'
  BY <1>1, <1>2, <1>3, <1>4 DEF Held, OpenOn
<1> QED BY <1>2, <1>5, <1>6 DEF BranchInv, VendPushed, PassPushed, VendHolds, PassHolds

LEMMA InitBranches == Init => BranchInv
<1> SUFFICES ASSUME Init PROVE BranchInv
  OBVIOUS
<1>1. PRs = {}
  BY DEF Init, PRs
<1>2. /\ \A v \in Vendors : ~VendPushed(v)
      /\ \A p \in Passes : ~PassPushed(p)
  BY DEF Init, VendPushed, PassPushed, IdleVendor, IdlePass
<1> QED BY <1>1, <1>2 DEF BranchInv, OneOpenPerBranch

LEMMA StepKeepsBranches ==
  ASSUME TypeOK, BranchInv, [Next]_vars
  PROVE  BranchInv'
<1>1. CASE \E v \in Vendors : VendStep(v) \/ VendFails(v)
  BY <1>1, VendKeepsBranches
<1>2. CASE \E p \in Passes, kind \in Kinds, names \in Scopes : PassStart(p, kind, names)
  BY <1>2, PassKeepsBranches
<1>3. CASE \E p \in Passes : PassStep(p) \/ RecordSkipped(p) \/ PassAborts(p)
  BY <1>3, PassKeepsBranches
<1>4. CASE (\E g \in 1..MaxVends : Expires(g)) \/ UNCHANGED vars
  <2>1. UNCHANGED <<heads, prs, vendor, pass>>
    BY <1>4 DEF Expires, vars, world
  <2> QED BY <2>1, NothingPushed DEF VendPushed, PassPushed, VendHolds, PassHolds
<1>5. CASE \E n \in PRs : Decide(n)
  BY <1>5, DecideKeepsBranches
<1> QED BY <1>1, <1>2, <1>3, <1>4, <1>5 DEF Next

(* However many processes vend and reclaim one name, at most one pull      *)
(* request is open from a branch: the refused second push is enough.       *)
THEOREM BranchesStayApart == Spec => []OneOpenPerBranch
<1>1. Init => TypeOK /\ BranchInv
  BY InitTyped, InitBranches
<1>2. TypeOK /\ BranchInv /\ [Next]_vars => (TypeOK /\ BranchInv)'
  BY StepTyped, StepKeepsBranches
<1>3. BranchInv => OneOpenPerBranch
  BY DEF BranchInv
<1> QED BY <1>1, <1>2, <1>3, PTL DEF Spec

-----------------------------------------------------------------------------
(* Reviews *)

IsReview(n, s) == n \in PRs /\ prs[n].purpose = "review" /\ prs[n].stack = s

Asked(p) == pass[p].at = "opened" /\ Purpose(p) = "review"

ReviewInv ==
  /\ \A s \in Stacks : registry[s].status = "expired" => IsReview(registry[s].pr, s)
  /\ \A p \in Passes : Asked(p) => IsReview(pass[p].pr, pass[p].stack)

(* A pull request keeps its number, its purpose and its stack.             *)
LEMMA PullRequestsStay ==
  ASSUME TypeOK, [Next]_vars
  PROVE  \A n, s : IsReview(n, s) => IsReview(n, s)'
<1>1. CASE UNCHANGED prs
  BY <1>1 DEF IsReview, PRs
<1>2. ASSUME NEW v \in Vendors, VendOpen(v)
      PROVE  /\ Len(prs') = Len(prs) + 1 /\ \A n \in PRs : prs'[n] = prs[n]
  <2>1. /\ vendor[v].stack \in Stacks /\ vendor[v].base \in Gens /\ vendor[v].gen \in Gens
    BY TypesOfParts DEF VendorRecord
  <2> QED BY <1>2, <2>1, PRAppended, BranchTypes DEF VendOpen
<1>3. ASSUME NEW p \in Passes, PassOpen(p)
      PROVE  /\ Len(prs') = Len(prs) + 1 /\ \A n \in PRs : prs'[n] = prs[n]
             /\ prs'[Len(prs) + 1].purpose = Purpose(p) /\ prs'[Len(prs) + 1].stack = pass[p].stack
  <2>1. /\ pass[p].stack \in Stacks /\ pass[p].base \in Gens /\ 0 \in Gens
    BY TypesOfParts, VendingAssumption DEF PassState, Gens
  <2>2. Purpose(p) \in {"vend", "reclaim", "review"}
    BY DEF Purpose
  <2> QED BY <1>3, <2>1, <2>2, PRAppended, BranchTypes DEF PassOpen
<1>4. CASE Len(prs') = Len(prs) + 1 /\ \A n \in PRs : prs'[n] = prs[n]
  BY <1>4, TypesOfParts DEF IsReview, PRs
<1>5. CASE \E n \in PRs : Decide(n)
  <2>1. PICK n \in PRs : Decide(n)
    BY <1>5
  <2>2. \E st \in {"merged", "closed"} : prs' = [prs EXCEPT ![n].state = st]
    BY <2>1 DEF Decide, Merge, ClosePR
  <2> QED BY <2>2, PRDecided DEF IsReview, PRs
<1>6. CASE \E v \in Vendors : VendStep(v) \/ VendFails(v)
  BY <1>1, <1>2, <1>4, <1>6 DEF VendStep, VendClone, VendPush, VendPushRejected, VendRegister,
                                VendFails, world
<1>7. CASE \E p \in Passes : \/ \E kind \in Kinds, names \in Scopes : PassStart(p, kind, names)
                             \/ PassStep(p) \/ RecordSkipped(p) \/ PassAborts(p)
  BY <1>1, <1>3, <1>4, <1>7
     DEF PassStep, PassStart, FinalizeMerged, PassList, PassClone, PassPush, PassPushRejected,
         PassRecord, PassEnds, RecordSkipped, PassAborts, world
<1>8. CASE (\E g \in 1..MaxVends : Expires(g)) \/ UNCHANGED vars
  BY <1>1, <1>8 DEF Expires, vars, world
<1> QED BY <1>5, <1>6, <1>7, <1>8 DEF Next

(* Only a pass that has asked for a review marks a record expired.         *)
LEMMA ExpiredByReview ==
  ASSUME TypeOK, [Next]_vars, NEW s \in Stacks, registry'[s].status = "expired"
  PROVE  \/ registry'[s] = registry[s]
         \/ \E p \in Passes : Asked(p) /\ s = pass[p].stack /\ registry'[s].pr = pass[p].pr
<1>1. CASE UNCHANGED registry
  BY <1>1
<1>2. CASE \E t \in Stacks : Decommission(t)
  BY <1>2 DEF Decommission, NoRecord, TypeOK
<1>3. ASSUME NEW v \in Vendors, VendRegister(v)
      PROVE  registry'[s] = registry[s]
  <2>1. PICK status \in {"active", "pending"}, n \in PRs :
          RegisterRecord(vendor[v].stack, [gen |-> vendor[v].gen, status |-> status, pr |-> n])
    BY <1>3 DEF VendRegister
  <2>2. CASE vendor[v].stack = s
    BY <2>1, <2>2 DEF RegisterRecord, TypeOK
  <2>3. CASE vendor[v].stack # s
    BY <2>1, <2>3 DEF RegisterRecord, TypeOK
  <2> QED BY <2>2, <2>3
<1>4. ASSUME NEW p \in Passes, PassRecord(p), Purpose(p) = "review"
      PROVE  \/ registry'[s] = registry[s]
             \/ Asked(p) /\ s = pass[p].stack /\ registry'[s].pr = pass[p].pr
  <2>1. /\ pass[p].at = "opened"
        /\ RegisterRecord(pass[p].stack, [gen |-> pass[p].snap[pass[p].stack].gen,
                                          status |-> "expired", pr |-> pass[p].pr])
    BY <1>4 DEF PassRecord, MarkExpired
  <2>2. CASE pass[p].stack = s
    BY <1>4, <2>1, <2>2 DEF RegisterRecord, TypeOK, Asked
  <2>3. CASE pass[p].stack # s
    BY <2>1, <2>3 DEF RegisterRecord, TypeOK
  <2> QED BY <2>2, <2>3
<1>5. ASSUME NEW p \in Passes, PassRecord(p), Purpose(p) # "review"
      PROVE  \E t \in Stacks : Decommission(t)
  <2>1. pass[p].stack \in Stacks
    BY TypesOfParts DEF PassState
  <2> QED BY <1>5, <2>1 DEF PassRecord, Purpose
<1>6. CASE \E v \in Vendors : VendStep(v) \/ VendFails(v)
  BY <1>1, <1>3, <1>6 DEF VendStep, VendClone, VendPush, VendPushRejected, VendOpen, VendFails, world
<1>7. CASE \E p \in Passes : \/ \E kind \in Kinds, names \in Scopes : PassStart(p, kind, names)
                             \/ PassStep(p) \/ RecordSkipped(p) \/ PassAborts(p)
  BY <1>1, <1>2, <1>4, <1>5, <1>7
     DEF PassStep, PassStart, FinalizeMerged, PassList, PassClone, PassPush, PassPushRejected,
         PassOpen, PassEnds, RecordSkipped, PassAborts, world
<1>8. CASE (\E g \in 1..MaxVends : Expires(g)) \/ (\E n \in PRs : Decide(n)) \/ UNCHANGED vars
  BY <1>1, <1>8 DEF Expires, Decide, Merge, ClosePR, vars, world
<1> QED BY <1>6, <1>7, <1>8 DEF Next

(* A pass has asked for a review since its pull request was opened.        *)
LEMMA AskedByOpening ==
  ASSUME TypeOK, [Next]_vars, NEW p \in Passes, Asked(p)'
  PROVE  \/ Asked(p) /\ pass'[p].pr = pass[p].pr /\ pass'[p].stack = pass[p].stack
         \/ IsReview(pass[p].pr, pass[p].stack)'
<1>a. pass[p] \in PassState
  BY TypesOfParts
<1>1. CASE pass'[p] = pass[p]
  BY <1>1 DEF Asked, Purpose
<1>2. CASE PassOpen(p)
  <2>1. /\ pass[p].stack \in Stacks /\ pass[p].base \in Gens /\ 0 \in Gens
    BY <1>a, VendingAssumption DEF PassState, Gens
  <2>2. Purpose(p) \in {"vend", "reclaim", "review"}
    BY DEF Purpose
  <2>3. /\ Len(prs') = Len(prs) + 1 /\ Len(prs) \in Nat
        /\ prs'[Len(prs) + 1].purpose = Purpose(p) /\ prs'[Len(prs) + 1].stack = pass[p].stack
    BY <1>2, <2>1, <2>2, PRAppended, BranchTypes, TypesOfParts DEF PassOpen
  <2>4. pass'[p] = [pass[p] EXCEPT !.at = "opened", !.pr = Len(prs) + 1]
    BY <1>2 DEF PassOpen, TypeOK
  <2>5. /\ pass'[p].pr = Len(prs) + 1 /\ pass'[p].stack = pass[p].stack
        /\ pass'[p].auto = pass[p].auto
    BY <1>a, <2>4 DEF PassState
  <2>6. Purpose(p) = "review"
    BY <2>5 DEF Asked, Purpose
  <2> QED BY <2>3, <2>5, <2>6 DEF IsReview, PRs
<1>3. CASE pass'[p].at \in {"idle", "finalize", "next", "cloned", "pushed"}
  BY <1>3 DEF Asked
<1>4. ASSUME NEW s, Advance(p, s) PROVE pass'[p].at = "next"
  BY <1>a, <1>4 DEF Advance, TypeOK, PassState
<1>5. ASSUME pass' = [pass EXCEPT ![p] = IdlePass] PROVE pass'[p].at = "idle"
  BY <1>5 DEF TypeOK, IdlePass
<1>6. ASSUME NEW s, pass[p].at = "finalize", pass' = [pass EXCEPT ![p].finalize = @ \ {s}]
      PROVE  pass'[p].at = "finalize"
  BY <1>a, <1>6 DEF TypeOK, PassState
<1>7. CASE \E kind \in Kinds, names \in Scopes : PassStart(p, kind, names)
  <2>1. PICK kind \in Kinds, names \in Scopes : PassStart(p, kind, names)
    BY <1>7
  <2>2. \A f, g : [IdlePass EXCEPT !.at = "finalize", !.snap = f, !.finalize = g].at = "finalize"
    BY DEF IdlePass
  <2> QED BY <1>3, <2>1, <2>2 DEF PassStart, TypeOK
<1>8. CASE FinalizeMerged(p) \/ RecordSkipped(p)
  BY <1>3, <1>4, <1>6, <1>8 DEF FinalizeMerged, RecordSkipped
<1>9. CASE PassList(p)
  BY <1>a, <1>3, <1>9 DEF PassList, TypeOK, PassState
<1>10. CASE PassClone(p)
  <2>1. ASSUME NEW s, pass' = [pass EXCEPT ![p] = [pass[p] EXCEPT !.at = "cloned", !.stack = s,
                                                                  !.base = tree[s]]]
        PROVE  pass'[p].at = "cloned"
    BY <1>a, <2>1 DEF TypeOK, PassState
  <2> QED BY <1>3, <1>4, <1>10, <2>1 DEF PassClone
<1>11. CASE PassPush(p)
  BY <1>a, <1>3, <1>11 DEF PassPush, TypeOK, PassState
<1>12. CASE PassPushRejected(p) \/ PassEnds(p) \/ PassAborts(p)
  BY <1>3, <1>5, <1>12 DEF PassPushRejected, PassEnds, PassAborts
<1>13. CASE PassRecord(p)
  BY <1>3, <1>4, <1>13 DEF PassRecord
<1>14. CASE \E q \in Passes \ {p} : \/ \E kind \in Kinds, names \in Scopes : PassStart(q, kind, names)
                                   \/ PassStep(q) \/ RecordSkipped(q) \/ PassAborts(q)
  <2>1. pass'[p] = pass[p]
    BY <1>14 DEF PassStep, PassStart, FinalizeMerged, PassList, PassClone, PassPush, PassPushRejected,
         PassOpen, PassRecord, PassEnds, RecordSkipped, PassAborts, Advance, TypeOK
  <2> QED BY <1>1, <2>1
<1>15. CASE \/ \E v \in Vendors : VendStep(v) \/ VendFails(v)
            \/ (\E g \in 1..MaxVends : Expires(g)) \/ (\E n \in PRs : Decide(n)) \/ UNCHANGED vars
  <2>1. UNCHANGED pass
    BY <1>15 DEF VendStep, VendClone, VendPush, VendPushRejected, VendOpen, VendRegister, VendFails,
                 Expires, Decide, Merge, ClosePR, vars, world
  <2> QED BY <1>1, <2>1
<1> QED
  BY <1>2, <1>7, <1>8, <1>9, <1>10, <1>11, <1>12, <1>13, <1>14, <1>15 DEF Next, PassStep

(* A record marked expired names a pull request that people review and     *)
(* that removes its own path, whatever passes ran, failed and overlapped.  *)
THEOREM ExpiredRecordsPointTo == Spec => []ExpiredNamesItsReview
<1>1. Init => TypeOK /\ ReviewInv
  BY InitTyped DEF Init, ReviewInv, Asked, IdlePass, NoRecord
<1>2. TypeOK /\ ReviewInv /\ [Next]_vars => (TypeOK /\ ReviewInv)'
  <2>1. SUFFICES ASSUME TypeOK, ReviewInv, [Next]_vars
                 PROVE  TypeOK' /\ ReviewInv'
    OBVIOUS
  <2>2. TypeOK'
    BY <2>1, StepTyped
  <2>3. ASSUME NEW s \in Stacks, registry'[s].status = "expired"
        PROVE  IsReview(registry[s].pr, s)'
    BY <2>1, <2>3, ExpiredByReview, PullRequestsStay DEF ReviewInv
  <2>4. ASSUME NEW p \in Passes, Asked(p)'
        PROVE  IsReview(pass[p].pr, pass[p].stack)'
    BY <2>1, <2>4, AskedByOpening, PullRequestsStay DEF ReviewInv
  <2> QED BY <2>2, <2>3, <2>4 DEF ReviewInv, IsReview
<1>3. ReviewInv => ExpiredNamesItsReview
  BY DEF ReviewInv, ExpiredNamesItsReview, IsReview
<1> QED BY <1>1, <1>2, <1>3, PTL DEF Spec

-----------------------------------------------------------------------------
(* Renewal *)

Working == {"cloned", "pushed", "opened"}

(* A pass decides on records that had expired when it looked.              *)
Looked(w) ==
  /\ \A s \in Stacks : w.snap[s].status = "expired" => w.snap[s].gen \in overdue
  /\ \A s \in w.finalize \cup w.auto \cup w.review : w.snap[s].gen \in overdue
  /\ w.at \in Working => w.stack \in w.auto \cup w.review

OverdueInv ==
  /\ \A s \in Stacks : registry[s].status = "expired" => registry[s].gen \in overdue
  /\ \A p \in Passes : Looked(pass[p])

LEMMA IdleLooked == Looked(IdlePass)
BY DEF Looked, IdlePass, NoRecord, Working

LEMMA OverdueGrows ==
  ASSUME TypeOK, [Next]_vars
  PROVE  overdue \subseteq overdue'
<1>1. CASE UNCHANGED overdue
  BY <1>1
<1>2. CASE \E g \in 1..MaxVends : Expires(g)
  BY <1>2 DEF Expires
<1>3. CASE \E v \in Vendors : VendStep(v) \/ VendFails(v)
  BY <1>1, <1>3 DEF VendStep, VendClone, VendPush, VendPushRejected, VendOpen, VendRegister,
                    VendFails, world
<1>4. CASE \E p \in Passes : \/ \E kind \in Kinds, names \in Scopes : PassStart(p, kind, names)
                             \/ PassStep(p) \/ RecordSkipped(p) \/ PassAborts(p)
  BY <1>1, <1>4
     DEF PassStep, PassStart, FinalizeMerged, PassList, PassClone, PassPush, PassPushRejected,
         PassOpen, PassRecord, PassEnds, RecordSkipped, PassAborts, world
<1>5. CASE (\E n \in PRs : Decide(n)) \/ UNCHANGED vars
  BY <1>1, <1>5 DEF Decide, Merge, ClosePR, vars, world
<1> QED BY <1>2, <1>3, <1>4, <1>5 DEF Next

(* What a step of a pass leaves that pass with. *)
LEMMA KeepsLooking ==
  ASSUME TypeOK, OverdueInv, NEW p \in Passes,
         \/ \E kind \in Kinds, names \in Scopes : PassStart(p, kind, names)
         \/ PassStep(p) \/ RecordSkipped(p) \/ PassAborts(p)
  PROVE  Looked(pass'[p])
<1>a. pass[p] \in PassState /\ Looked(pass[p])
  BY TypesOfParts DEF OverdueInv
<1>1. ASSUME NEW s, Advance(p, s) PROVE Looked(pass'[p])
  <2>1. pass'[p] = [pass[p] EXCEPT !.at = "next", !.auto = pass[p].auto \ {s},
                                   !.review = pass[p].review \ {s}]
    BY <1>1 DEF Advance, TypeOK
  <2>2. /\ pass'[p].at = "next" /\ pass'[p].snap = pass[p].snap
        /\ pass'[p].auto = pass[p].auto \ {s} /\ pass'[p].review = pass[p].review \ {s}
        /\ pass'[p].finalize = pass[p].finalize
    BY <1>a, <2>1 DEF PassState
  <2> QED BY <1>a, <2>2 DEF Looked, Working
<1>2. ASSUME pass' = [pass EXCEPT ![p] = IdlePass] PROVE Looked(pass'[p])
  BY <1>2, IdleLooked DEF TypeOK
<1>3. ASSUME NEW s, pass' = [pass EXCEPT ![p].finalize = @ \ {s}] PROVE Looked(pass'[p])
  <2>1. pass'[p] = [pass[p] EXCEPT !.finalize = pass[p].finalize \ {s}]
    BY <1>3 DEF TypeOK
  <2>2. /\ pass'[p].at = pass[p].at /\ pass'[p].snap = pass[p].snap /\ pass'[p].stack = pass[p].stack
        /\ pass'[p].auto = pass[p].auto /\ pass'[p].review = pass[p].review
        /\ pass'[p].finalize = pass[p].finalize \ {s}
    BY <1>a, <2>1 DEF PassState
  <2> QED BY <1>a, <2>2 DEF Looked
<1>4. CASE \E kind \in Kinds, names \in Scopes : PassStart(p, kind, names)
  <2>1. PICK kind \in Kinds, names \in Scopes : PassStart(p, kind, names)
    BY <1>4
  <2> DEFINE R == ReadRegistry(kind, names)
  <2>2. \A s \in Stacks : R[s].status = "expired" => R[s].gen \in overdue
    BY DEF ReadRegistry, OverdueInv, NoRecord
  <2>3. /\ pass'[p].snap = R /\ pass'[p].finalize = ListPendingReviews(R)
        /\ pass'[p].at = "finalize" /\ pass'[p].auto = {} /\ pass'[p].review = {}
    <3>1. pass'[p] = [IdlePass EXCEPT !.at = "finalize", !.snap = R, !.finalize = ListPendingReviews(R)]
      BY <2>1 DEF PassStart, TypeOK
    <3> HIDE DEF R
    <3> QED BY <3>1 DEF IdlePass
  <2>4. \A s \in ListPendingReviews(R) : R[s].gen \in overdue
    BY <2>2 DEF ListPendingReviews, HasOpenDecommissionReview, Registered
  <2> HIDE DEF R
  <2> QED BY <2>2, <2>3, <2>4 DEF Looked, Working
<1>5. CASE FinalizeMerged(p) \/ RecordSkipped(p)
  BY <1>1, <1>3, <1>5 DEF FinalizeMerged, RecordSkipped
<1>6. CASE PassList(p)
  <2>1. pass'[p] = [pass[p] EXCEPT !.at = "next", !.auto = ListExpired(pass[p].snap),
                                   !.review = ListExpiredForReview(pass[p].snap)]
    BY <1>6 DEF PassList, TypeOK
  <2>2. /\ pass'[p].at = "next" /\ pass'[p].snap = pass[p].snap
        /\ pass'[p].auto = ListExpired(pass[p].snap)
        /\ pass'[p].review = ListExpiredForReview(pass[p].snap)
        /\ pass'[p].finalize = pass[p].finalize
    BY <1>a, <2>1 DEF PassState
  <2> QED BY <1>a, <2>2 DEF Looked, Working, ListExpired, ListExpiredForReview, IsExpired
<1>7. CASE PassClone(p)
  <2>1. ASSUME NEW s, Turn(s, p), pass' = [pass EXCEPT ![p] =
                 [pass[p] EXCEPT !.at = "cloned", !.stack = s, !.base = tree[s]]]
        PROVE  Looked(pass'[p])
    <3>1. pass'[p] = [pass[p] EXCEPT !.at = "cloned", !.stack = s, !.base = tree[s]]
      BY <2>1 DEF TypeOK
    <3>2. /\ pass'[p].stack = s /\ pass'[p].snap = pass[p].snap /\ pass'[p].auto = pass[p].auto
          /\ pass'[p].review = pass[p].review /\ pass'[p].finalize = pass[p].finalize
      BY <1>a, <3>1 DEF PassState
    <3> QED BY <1>a, <2>1, <3>2 DEF Looked, Turn
  <2> QED BY <1>1, <1>7, <2>1 DEF PassClone
<1>8. CASE PassPush(p)
  <2>1. pass'[p] = [pass[p] EXCEPT !.at = "pushed"] /\ pass[p].at = "cloned"
    BY <1>8 DEF PassPush, TypeOK
  <2>2. /\ pass'[p].stack = pass[p].stack /\ pass'[p].snap = pass[p].snap /\ pass'[p].auto = pass[p].auto
        /\ pass'[p].review = pass[p].review /\ pass'[p].finalize = pass[p].finalize
    BY <1>a, <2>1 DEF PassState
  <2> QED BY <1>a, <2>1, <2>2 DEF Looked, Working
<1>9. CASE PassOpen(p)
  <2>1. pass'[p] = [pass[p] EXCEPT !.at = "opened", !.pr = Len(prs) + 1] /\ pass[p].at = "pushed"
    BY <1>9 DEF PassOpen, TypeOK
  <2>2. /\ pass'[p].stack = pass[p].stack /\ pass'[p].snap = pass[p].snap /\ pass'[p].auto = pass[p].auto
        /\ pass'[p].review = pass[p].review /\ pass'[p].finalize = pass[p].finalize
    BY <1>a, <2>1 DEF PassState
  <2> QED BY <1>a, <2>1, <2>2 DEF Looked, Working
<1>10. CASE PassPushRejected(p) \/ PassEnds(p) \/ PassAborts(p)
  BY <1>2, <1>10 DEF PassPushRejected, PassEnds, PassAborts
<1>11. CASE PassRecord(p)
  BY <1>1, <1>11 DEF PassRecord
<1> QED BY <1>4, <1>5, <1>6, <1>7, <1>8, <1>9, <1>10, <1>11 DEF PassStep

(* Only a pass drops a record or marks it expired, and what it has read of *)
(* that record had expired.                                                *)
LEMMA PassesDecide ==
  ASSUME TypeOK, OverdueInv, [Next]_vars, NEW s \in Stacks,
         registry'[s] # registry[s], registry'[s].status \in {"none", "expired"}
  PROVE  \E p \in Passes :
           /\ pass'[p] # pass[p] /\ pass[p].snap[s].gen \in overdue
           /\ registry'[s].status = "expired" => registry'[s].gen \in overdue
<1>1. ASSUME NEW t \in Stacks, Decommission(t) PROVE s = t /\ registry'[s].status = "none"
  BY <1>1 DEF Decommission, RegisterRecord, TypeOK, NoRecord
<1>2. ASSUME NEW v \in Vendors, VendRegister(v) PROVE FALSE
  <2>1. PICK status \in {"active", "pending"}, n \in PRs :
           RegisterRecord(vendor[v].stack, [gen |-> vendor[v].gen, status |-> status, pr |-> n])
    BY <1>2 DEF VendRegister
  <2> QED BY <2>1 DEF RegisterRecord, TypeOK
<1>3. CASE \E p \in Passes : FinalizeMerged(p)
  <2>1. PICK p \in Passes : FinalizeMerged(p)
    BY <1>3
  <2>2. PICK t \in Stacks : /\ Reviewing(t, p) /\ Decommission(t)
                            /\ pass' = [pass EXCEPT ![p].finalize = @ \ {t}]
    BY <2>1 DEF FinalizeMerged
  <2>3. t \in pass[p].finalize /\ pass'[p].finalize = pass[p].finalize \ {t}
    BY <2>2, TypesOfParts DEF Reviewing, PassState, TypeOK
  <2> QED BY <1>1, <2>2, <2>3 DEF OverdueInv, Looked
<1>4. CASE \E p \in Passes : PassClone(p)
  <2>1. PICK p \in Passes : PassClone(p)
    BY <1>4
  <2>2. PICK t \in Stacks : Turn(t, p) /\ Advance(p, t) /\ Decommission(t)
    BY <2>1 DEF PassClone
  <2>3. t \in pass[p].auto \cup pass[p].review
    BY <2>2 DEF Turn
  <2>4. /\ pass'[p].auto = pass[p].auto \ {t} /\ pass'[p].review = pass[p].review \ {t}
    BY <2>2, TypesOfParts DEF Advance, PassState, TypeOK
  <2>5. pass'[p] # pass[p]
    BY <2>3, <2>4
  <2> QED BY <1>1, <2>2, <2>3, <2>5 DEF OverdueInv, Looked
<1>5. CASE \E p \in Passes : PassRecord(p)
  <2>1. PICK p \in Passes : PassRecord(p)
    BY <1>5
  <2> DEFINE t == pass[p].stack
  <2>2. /\ Advance(p, t)
        /\ (Decommission(t) \/ MarkExpired(t, pass[p].snap[t], pass[p].pr))
        /\ pass[p].at = "opened"
    BY <2>1 DEF PassRecord
  <2>3. t \in Stacks /\ t \in pass[p].auto \cup pass[p].review /\ pass[p].snap[t].gen \in overdue
    BY <2>2, TypesOfParts DEF OverdueInv, Looked, Working, PassState
  <2>a. pass[p] \in PassState
    BY TypesOfParts
  <2>b. pass'[p] = [pass[p] EXCEPT !.at = "next", !.auto = pass[p].auto \ {t},
                                   !.review = pass[p].review \ {t}]
    BY <2>2, <2>a DEF Advance, TypeOK, PassState
  <2>4. /\ pass'[p].auto = pass[p].auto \ {t} /\ pass'[p].review = pass[p].review \ {t}
    BY <2>a, <2>b DEF PassState
  <2>5. pass'[p] # pass[p]
    BY <2>3, <2>4
  <2>6. CASE Decommission(t)
    BY <1>1, <2>3, <2>5, <2>6
  <2>7. CASE MarkExpired(t, pass[p].snap[t], pass[p].pr)
    <3>1. s = t /\ registry'[s].gen = pass[p].snap[t].gen
      BY <2>3, <2>7 DEF MarkExpired, RegisterRecord, TypeOK
    <3> QED BY <2>3, <2>5, <3>1
  <2> QED BY <2>2, <2>6, <2>7
<1>6. CASE \/ \E v \in Vendors : VendStep(v) \/ VendFails(v)
           \/ (\E g \in 1..MaxVends : Expires(g)) \/ (\E n \in PRs : Decide(n)) \/ UNCHANGED vars
  BY <1>2, <1>6 DEF VendStep, VendClone, VendPush, VendPushRejected, VendOpen, VendFails,
                    Expires, Decide, Merge, ClosePR, vars
<1>7. CASE \E p \in Passes : \/ \E kind \in Kinds, names \in Scopes : PassStart(p, kind, names)
                             \/ PassStep(p) \/ RecordSkipped(p) \/ PassAborts(p)
  BY <1>3, <1>4, <1>5, <1>7
     DEF PassStep, PassStart, PassList, PassPush, PassPushRejected, PassOpen, PassEnds,
         RecordSkipped, PassAborts
<1> QED BY <1>6, <1>7 DEF Next

LEMMA StepKeepsLooking ==
  ASSUME TypeOK, OverdueInv, [Next]_vars
  PROVE  OverdueInv'
<1>1. ASSUME NEW s \in Stacks, registry'[s].status = "expired" PROVE registry'[s].gen \in overdue'
  BY <1>1, OverdueGrows, PassesDecide DEF OverdueInv
<1>2. ASSUME NEW w, Looked(w)
      PROVE  /\ \A s \in Stacks : w.snap[s].status = "expired" => w.snap[s].gen \in overdue'
             /\ \A s \in w.finalize \cup w.auto \cup w.review : w.snap[s].gen \in overdue'
             /\ w.at \in Working => w.stack \in w.auto \cup w.review
  BY <1>2, OverdueGrows DEF Looked
<1>3. ASSUME NEW p \in Passes PROVE Looked(pass'[p])
  <2>1. CASE \/ \E kind \in Kinds, names \in Scopes : PassStart(p, kind, names)
             \/ PassStep(p) \/ RecordSkipped(p) \/ PassAborts(p)
    BY <2>1, KeepsLooking
  <2>2. CASE \E q \in Passes \ {p} : \/ \E kind \in Kinds, names \in Scopes : PassStart(q, kind, names)
                                     \/ PassStep(q) \/ RecordSkipped(q) \/ PassAborts(q)
    <3>1. pass'[p] = pass[p]
      BY <2>2 DEF PassStep, PassStart, FinalizeMerged, PassList, PassClone, PassPush, PassPushRejected,
           PassOpen, PassRecord, PassEnds, RecordSkipped, PassAborts, Advance, TypeOK
    <3> QED BY <3>1 DEF OverdueInv
  <2>3. CASE \/ \E v \in Vendors : VendStep(v) \/ VendFails(v)
             \/ (\E g \in 1..MaxVends : Expires(g)) \/ (\E n \in PRs : Decide(n)) \/ UNCHANGED vars
    <3>1. UNCHANGED pass
      BY <2>3 DEF VendStep, VendClone, VendPush, VendPushRejected, VendOpen, VendRegister, VendFails,
                  Expires, Decide, Merge, ClosePR, vars, world
    <3> QED BY <3>1 DEF OverdueInv
  <2> QED BY <2>1, <2>2, <2>3 DEF Next
<1> DEFINE Kept(w) ==
      /\ \A s \in Stacks : w.snap[s].status = "expired" => w.snap[s].gen \in overdue'
      /\ \A s \in w.finalize \cup w.auto \cup w.review : w.snap[s].gen \in overdue'
      /\ w.at \in Working => w.stack \in w.auto \cup w.review
<1>4. \A p \in Passes : Kept(pass'[p])
  BY <1>2, <1>3
<1> QED BY <1>1, <1>4 DEF OverdueInv, Looked

(* A record that has not expired is dropped, or marked for removal, only   *)
(* by a pass that read the registry before the record was renewed.         *)
THEOREM RenewalsLost == Spec => RenewedLostOnlyToStalePasses
<1>1. Init => TypeOK /\ OverdueInv
  BY InitTyped, IdleLooked DEF Init, OverdueInv, NoRecord
<1>2. TypeOK /\ OverdueInv /\ [Next]_vars => (TypeOK /\ OverdueInv)'
  BY StepTyped, StepKeepsLooking
<1> DEFINE Lost == \A s \in Stacks :
      (Dropped(s) \/ registry'[s].status = "expired") /\ registry'[s] # registry[s]
        => registry[s].gen \in overdue \/ ReadBeforeRenewal(s)
<1>3. TypeOK /\ OverdueInv /\ [Next]_vars => [Lost]_registry
  <2> SUFFICES ASSUME TypeOK, OverdueInv, [Next]_vars, NEW s \in Stacks,
                      registry'[s] # registry[s], registry'[s].status \in {"none", "expired"},
                      registry[s].gen \notin overdue
               PROVE  ReadBeforeRenewal(s)
    BY DEF Dropped
  <2> QED BY PassesDecide DEF ReadBeforeRenewal
<1> HIDE DEF Lost
<1>4. Spec => [][Lost]_registry
  BY <1>1, <1>2, <1>3, PTL DEF Spec
<1> QED BY <1>4 DEF Lost, RenewedLostOnlyToStalePasses
-----------------------------------------------------------------------------
(* Removal *)

(* A pass finalizes what it has read as expired, each record with a review *)
(* of its own path, and removes without one only what no one must review.  *)
Reads(w) ==
  /\ \A s \in Stacks : w.snap[s].status = "expired" => IsReview(w.snap[s].pr, s)
  /\ \A s \in w.finalize : w.snap[s].status = "expired"
  /\ \A s \in w.auto : ClassOf[s] \in AutoClasses

RemovalInv == ReviewInv /\ \A p \in Passes : Reads(pass[p])

Remembers(old, new) ==
  \/ /\ new.snap = old.snap /\ new.finalize \subseteq old.finalize
     /\ new.auto \subseteq old.auto \cup ListExpired(old.snap)
  \/ new = IdlePass
  \/ \E kind \in Kinds, names \in Scopes :
       /\ new.snap = ReadRegistry(kind, names)
       /\ new.finalize = ListPendingReviews(ReadRegistry(kind, names)) /\ new.auto = {}

(* A pass reads the registry when it starts, and from then on works on     *)
(* what it has read until it is idle again.                                *)
LEMMA PassRemembers ==
  ASSUME TypeOK, [Next]_vars, NEW p \in Passes
  PROVE  Remembers(pass[p], pass'[p])
<1>a. pass[p] \in PassState
  BY TypesOfParts
<1> DEFINE Same == Remembers(pass[p], pass'[p])
<1>1. ASSUME NEW s, Advance(p, s) PROVE Same
  <2>1. pass'[p] = [pass[p] EXCEPT !.at = "next", !.auto = pass[p].auto \ {s},
                                   !.review = pass[p].review \ {s}]
    BY <1>1 DEF Advance, TypeOK
  <2> QED BY <1>a, <2>1 DEF PassState, Remembers
<1>2. ASSUME NEW s, pass' = [pass EXCEPT ![p].finalize = @ \ {s}] PROVE Same
  <2>1. pass'[p] = [pass[p] EXCEPT !.finalize = pass[p].finalize \ {s}]
    BY <1>2 DEF TypeOK
  <2> QED BY <1>a, <2>1 DEF PassState, Remembers
<1>3. CASE \E kind \in Kinds, names \in Scopes : PassStart(p, kind, names)
  <2>1. PICK kind \in Kinds, names \in Scopes : PassStart(p, kind, names)
    BY <1>3
  <2> DEFINE R == ReadRegistry(kind, names)
  <2>2. pass'[p] = [IdlePass EXCEPT !.at = "finalize", !.snap = R, !.finalize = ListPendingReviews(R)]
    BY <2>1 DEF PassStart, TypeOK
  <2> HIDE DEF R
  <2>3. pass'[p].snap = R /\ pass'[p].finalize = ListPendingReviews(R) /\ pass'[p].auto = {}
    BY <2>2 DEF IdlePass
  <2> QED BY <2>3 DEF R, Remembers
<1>4. CASE PassList(p)
  <2>1. pass'[p] = [pass[p] EXCEPT !.at = "next", !.auto = ListExpired(pass[p].snap),
                                   !.review = ListExpiredForReview(pass[p].snap)]
    BY <1>4 DEF PassList, TypeOK
  <2> QED BY <1>a, <2>1 DEF PassState, Remembers
<1>5. CASE PassClone(p)
  <2> DEFINE Cloned(s) == [pass[p] EXCEPT !.at = "cloned", !.stack = s, !.base = tree[s]]
  <2>1. ASSUME NEW s, pass' = [pass EXCEPT ![p] = Cloned(s)] PROVE Same
    <3>1. pass'[p] = Cloned(s)
      BY <2>1 DEF TypeOK
    <3> QED BY <1>a, <3>1 DEF PassState, Remembers
  <2>2. \E s : Advance(p, s) \/ pass' = [pass EXCEPT ![p] = Cloned(s)]
    BY <1>5, Zenon DEF PassClone
  <2> HIDE DEF Cloned
  <2> QED BY <1>1, <2>1, <2>2
<1>6. CASE PassPush(p) \/ PassOpen(p)
  <2>1. \/ pass'[p] = [pass[p] EXCEPT !.at = "pushed"]
        \/ pass'[p] = [pass[p] EXCEPT !.at = "opened", !.pr = Len(prs) + 1]
    BY <1>6 DEF PassPush, PassOpen, TypeOK
  <2> QED BY <1>a, <2>1 DEF PassState, Remembers
<1>7. CASE PassPushRejected(p) \/ PassEnds(p) \/ PassAborts(p)
  <2>1. pass'[p] = IdlePass
    BY <1>7 DEF PassPushRejected, PassEnds, PassAborts, TypeOK
  <2> QED BY <2>1 DEF Remembers
<1>8. CASE FinalizeMerged(p) \/ RecordSkipped(p) \/ PassRecord(p)
  BY <1>1, <1>2, <1>8 DEF FinalizeMerged, RecordSkipped, PassRecord
<1>9. CASE pass'[p] = pass[p]
  BY <1>9 DEF Remembers
<1>10. CASE \E q \in Passes \ {p} : \/ \E kind \in Kinds, names \in Scopes : PassStart(q, kind, names)
                                   \/ PassStep(q) \/ RecordSkipped(q) \/ PassAborts(q)
  <2>1. pass'[p] = pass[p]
    BY <1>10 DEF PassStep, PassStart, FinalizeMerged, PassList, PassClone, PassPush, PassPushRejected,
         PassOpen, PassRecord, PassEnds, RecordSkipped, PassAborts, Advance, TypeOK
  <2> QED BY <1>9, <2>1
<1>11. CASE \/ \E v \in Vendors : VendStep(v) \/ VendFails(v)
            \/ (\E g \in 1..MaxVends : Expires(g)) \/ (\E n \in PRs : Decide(n)) \/ UNCHANGED vars
  <2>1. UNCHANGED pass
    BY <1>11 DEF VendStep, VendClone, VendPush, VendPushRejected, VendOpen, VendRegister, VendFails,
                 Expires, Decide, Merge, ClosePR, vars, world
  <2> QED BY <1>9, <2>1
<1> QED BY <1>3, <1>4, <1>5, <1>6, <1>7, <1>8, <1>10, <1>11 DEF Next, PassStep

LEMMA IdleReads == Reads(IdlePass)
BY DEF Reads, IdlePass, NoRecord

LEMMA StepKeepsReviews ==
  ASSUME TypeOK, ReviewInv, [Next]_vars
  PROVE  ReviewInv'
<1>1. ASSUME NEW s \in Stacks, registry'[s].status = "expired"
      PROVE  IsReview(registry[s].pr, s)'
  BY <1>1, ExpiredByReview, PullRequestsStay DEF ReviewInv
<1>2. ASSUME NEW p \in Passes, Asked(p)'
      PROVE  IsReview(pass[p].pr, pass[p].stack)'
  BY <1>2, AskedByOpening, PullRequestsStay DEF ReviewInv
<1> QED BY <1>1, <1>2 DEF ReviewInv, IsReview

LEMMA StepKeepsReading ==
  ASSUME TypeOK, RemovalInv, [Next]_vars
  PROVE  RemovalInv'
<1>1. ASSUME NEW p \in Passes PROVE Reads(pass'[p])
  <2>1. CASE /\ pass'[p].snap = pass[p].snap
             /\ pass'[p].finalize \subseteq pass[p].finalize
             /\ pass'[p].auto \subseteq pass[p].auto \cup ListExpired(pass[p].snap)
    BY <2>1 DEF RemovalInv, Reads, ListExpired
  <2>2. CASE pass'[p] = IdlePass
    BY <2>2, IdleReads
  <2>3. ASSUME NEW kind \in Kinds, NEW names \in Scopes,
               /\ pass'[p].snap = ReadRegistry(kind, names)
               /\ pass'[p].finalize = ListPendingReviews(ReadRegistry(kind, names))
               /\ pass'[p].auto = {}
        PROVE  Reads(pass'[p])
    <3> DEFINE R == ReadRegistry(kind, names)
    <3>1. \A s \in Stacks : R[s].status = "expired" => IsReview(R[s].pr, s)
      BY DEF ReadRegistry, RemovalInv, ReviewInv, NoRecord
    <3>2. \A s \in ListPendingReviews(R) : R[s].status = "expired"
      BY DEF ListPendingReviews, HasOpenDecommissionReview
    <3> HIDE DEF R
    <3> QED BY <2>3, <3>1, <3>2 DEF Reads, R
  <2> QED BY <2>1, <2>2, <2>3, PassRemembers DEF Remembers
<1> DEFINE Still(w) ==
      /\ \A s \in Stacks : \A n : w.snap[s].status = "expired" /\ w.snap[s].pr = n => IsReview(n, s)'
      /\ \A s \in w.finalize : w.snap[s].status = "expired"
      /\ \A s \in w.auto : ClassOf[s] \in AutoClasses
<1>2. ASSUME NEW w, Reads(w) PROVE Still(w)
  BY <1>2, PullRequestsStay DEF Reads
<1>3. \A p \in Passes : Still(pass'[p])
  BY <1>1, <1>2
<1>4. ReviewInv'
  BY StepKeepsReviews DEF RemovalInv
<1> QED BY <1>3, <1>4 DEF RemovalInv, Reads, IsReview

(* A record leaves the registry when its path is gone, when its review is  *)
(* merged, or without review because its class allows it.                  *)
LEMMA DroppedWithReason ==
  ASSUME TypeOK, RemovalInv, [Next]_vars, NEW s \in Stacks, Dropped(s), ClassOf[s] \notin AutoClasses
  PROVE  \/ tree[s] = 0
         \/ \E n \in PRs : prs[n].stack = s /\ prs[n].purpose = "review" /\ prs[n].state = "merged"
<1>1. ASSUME NEW t \in Stacks, Decommission(t) PROVE s = t
  BY <1>1 DEF Decommission, Dropped, TypeOK
<1>2. CASE UNCHANGED registry
  BY <1>2 DEF Dropped
<1>3. ASSUME NEW v \in Vendors, VendRegister(v) PROVE FALSE
  <2>1. PICK status \in {"active", "pending"}, n \in PRs :
           RegisterRecord(vendor[v].stack, [gen |-> vendor[v].gen, status |-> status, pr |-> n])
    BY <1>3 DEF VendRegister
  <2> QED BY <2>1 DEF RegisterRecord, TypeOK, Dropped
<1>4. ASSUME NEW p \in Passes, FinalizeMerged(p), registry' # registry
      PROVE  \E n \in PRs : prs[n].stack = s /\ prs[n].purpose = "review" /\ prs[n].state = "merged"
  <2>1. PICK t \in Stacks : /\ Reviewing(t, p) /\ Decommission(t)
                            /\ prs[pass[p].snap[t].pr].state = "merged"
    BY <1>4 DEF FinalizeMerged
  <2>2. s = t /\ IsReview(pass[p].snap[t].pr, t)
    BY <1>1, <2>1 DEF Reviewing, RemovalInv, Reads
  <2> QED BY <2>1, <2>2 DEF IsReview
<1>5. ASSUME NEW p \in Passes, PassClone(p), registry' # registry PROVE tree[s] = 0
  BY <1>1, <1>5 DEF PassClone
<1>6. ASSUME NEW p \in Passes, PassRecord(p) PROVE FALSE
  <2>1. pass[p].stack \in Stacks
    BY TypesOfParts DEF PassState
  <2>2. CASE Purpose(p) = "reclaim"
    <3>1. pass[p].stack \in pass[p].auto /\ s = pass[p].stack
      BY <1>1, <1>6, <2>1, <2>2 DEF PassRecord, Purpose
    <3> QED BY <3>1 DEF RemovalInv, Reads
  <2>3. CASE Purpose(p) # "reclaim"
    <3>1. RegisterRecord(pass[p].stack, [gen |-> pass[p].snap[pass[p].stack].gen,
                                         status |-> "expired", pr |-> pass[p].pr])
      BY <1>6, <2>3 DEF PassRecord, MarkExpired
    <3> QED BY <3>1 DEF RegisterRecord, TypeOK, Dropped
  <2> QED BY <2>2, <2>3
<1>7. CASE \E v \in Vendors : VendStep(v) \/ VendFails(v)
  BY <1>2, <1>3, <1>7 DEF VendStep, VendClone, VendPush, VendPushRejected, VendOpen, VendFails, world
<1>8. CASE \E p \in Passes : \/ \E kind \in Kinds, names \in Scopes : PassStart(p, kind, names)
                             \/ PassStep(p) \/ RecordSkipped(p) \/ PassAborts(p)
  <2>1. PICK p \in Passes : \/ \E kind \in Kinds, names \in Scopes : PassStart(p, kind, names)
                           \/ PassStep(p) \/ RecordSkipped(p) \/ PassAborts(p)
    BY <1>8
  <2>2. CASE \/ \E kind \in Kinds, names \in Scopes : PassStart(p, kind, names)
             \/ RecordSkipped(p) \/ PassAborts(p)
    <3>1. UNCHANGED registry
      BY <2>2, Zenon DEF PassStart, RecordSkipped, PassAborts, world
    <3> QED BY <1>2, <3>1
  <2>3. CASE PassList(p) \/ PassPush(p) \/ PassPushRejected(p) \/ PassOpen(p) \/ PassEnds(p)
    <3>1. UNCHANGED registry
      BY <2>3 DEF PassList, PassPush, PassPushRejected, PassOpen, PassEnds, world
    <3> QED BY <1>2, <3>1
  <2> QED BY <1>2, <1>4, <1>5, <1>6, <2>1, <2>2, <2>3 DEF PassStep
<1>9. CASE (\E g \in 1..MaxVends : Expires(g)) \/ (\E n \in PRs : Decide(n)) \/ UNCHANGED vars
  BY <1>2, <1>9 DEF Expires, Decide, Merge, ClosePR, vars, world
<1> QED BY <1>7, <1>8, <1>9 DEF Next

(* What people must review stays registered until its path is gone or its  *)
(* own review is merged, whatever passes ran, failed and overlapped.       *)
THEOREM ReviewsComeFirst == Spec => ReviewedBeforeDropped
<1>1. Init => TypeOK /\ RemovalInv
  <2> SUFFICES ASSUME Init PROVE TypeOK /\ RemovalInv
    OBVIOUS
  <2>1. ReviewInv
    BY DEF Init, ReviewInv, Asked, IdlePass, NoRecord
  <2>2. \A p \in Passes : Reads(pass[p])
    BY IdleReads DEF Init
  <2> QED BY <2>1, <2>2, InitTyped DEF RemovalInv
<1>2. TypeOK /\ RemovalInv /\ [Next]_vars => (TypeOK /\ RemovalInv)'
  BY StepTyped, StepKeepsReading
<1> DEFINE Kept == \A s \in Stacks : Dropped(s) /\ ClassOf[s] \notin AutoClasses =>
      \/ tree[s] = 0
      \/ \E n \in PRs : prs[n].stack = s /\ prs[n].purpose = "review" /\ prs[n].state = "merged"
<1>3. TypeOK /\ RemovalInv /\ [Next]_vars => [Kept]_registry
  BY DroppedWithReason
<1> HIDE DEF Kept
<1>4. Spec => [][Kept]_registry
  BY <1>1, <1>2, <1>3, PTL DEF Spec
<1> QED BY <1>4 DEF Kept, ReviewedBeforeDropped
=============================================================================
