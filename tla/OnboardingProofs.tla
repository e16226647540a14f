-------------------------- MODULE OnboardingProofs --------------------------
(***************************************************************************)
(* What holds of Onboarding for any number of users, repositories, pins    *)
(* and failures:                                                           *)
(*                                                                         *)
(*   BooksTypeCorrect   the books, the branches and the users are typed    *)
(*   BranchUnderReview  an open import pull request keeps its commits      *)
(*   LateImportsOnly    only a clone older than the merge imports twice    *)
(*   MirrorFollows      the operator's file agrees with the table          *)
(*   ImportsKeepTheTree what git mv makes of a tree is what was planned    *)
(*   PushesThePlan      a branch about to be pushed has the planned tree   *)
(*                                                                         *)
(* The argument.  A push is refused while the branch is there, and an open *)
(* pull request keeps its branch there.  The line of a committed event is  *)
(* the registry's own, unless a second commit came before it was written:  *)
(* that is what behind records.  The moves of an import are followed turn  *)
(* by turn; of the files that are moved onto too early the last one gives  *)
(* the digests a content that is not its source's.                         *)
(***************************************************************************)
EXTENDS MCOnboarding, WellFoundedInduction, TLAPS

Events == Pins \cup {ImportPin, None}

Steps == {"planned", "checked", "pushed", "commit", "unregister", "mirror"}

Doings == [at : Steps, repo : Repos, event : Events, late : BOOLEAN]

(* The types of what users and people on GitHub write. *)
BooksOK ==
  /\ governed \in [Repos -> BOOLEAN] /\ request \in [Repos -> BOOLEAN]
  /\ branch \in [Repos -> Users \cup {None}]
  /\ user \in [Users -> Doings \cup {Free}]
  /\ registry \in [Repos -> Events] /\ mirror \in [Repos -> Events]
  /\ behind \subseteq Repos /\ writes \in 0..MaxWrites

-----------------------------------------------------------------------------
(* What a step of one user may do to the users. *)

(* A user who is not free is doing something to a repository. *)
LEMMA Busy ==
  ASSUME BooksOK, NEW u \in Users, user[u].at # "free"
  PROVE  /\ user[u] \in Doings
         /\ user[u].repo \in Repos /\ user[u].event \in Events /\ user[u].late \in BOOLEAN
<1>1. user[u] # Free
  BY DEF Free
<1> QED BY <1>1 DEF BooksOK, Doings

LEMMA FreeIsNoStep == Free.at = "free" /\ "free" \notin Steps
BY DEF Free, Steps

LEMMA GoneOn ==
  ASSUME BooksOK, NEW u \in Users, user[u].at # "free", NEW step \in Steps, Goes(u, step)
  PROVE  /\ user' \in [Users -> Doings \cup {Free}]
         /\ user'[u].at = step /\ user'[u].repo = user[u].repo
         /\ user'[u].event = user[u].event /\ user'[u].late = user[u].late
         /\ \A v \in Users \ {u} : user'[v] = user[v]
<1>1. user[u] \in Doings
  BY Busy
<1>2. user' = [user EXCEPT ![u] = [user[u] EXCEPT !.at = step]]
  BY DEF Goes, BooksOK
<1>3. [user[u] EXCEPT !.at = step] \in Doings
  BY <1>1 DEF Doings
<1> QED BY <1>1, <1>2, <1>3 DEF BooksOK, Doings

LEMMA Ended ==
  ASSUME BooksOK, NEW u \in Users, Ends(u)
  PROVE  /\ user' \in [Users -> Doings \cup {Free}]
         /\ user'[u].at = "free" /\ \A v \in Users \ {u} : user'[v] = user[v]
BY DEF Ends, BooksOK, Free

LEMMA Began ==
  ASSUME BooksOK, NEW u \in Users, NEW step \in Steps, NEW r \in Repos, NEW event \in Events,
         user' = [user EXCEPT ![u] = Doing(step, r, event)]
  PROVE  /\ user' \in [Users -> Doings \cup {Free}]
         /\ user'[u].at = step /\ user'[u].repo = r /\ user'[u].event = event
         /\ user'[u].late = FALSE
         /\ \A v \in Users \ {u} : user'[v] = user[v]
<1>1. Doing(step, r, event) \in Doings
  BY DEF Doing, Doings
<1> QED BY <1>1 DEF BooksOK, Doing

LEMMA Committed ==
  ASSUME BooksOK, NEW u \in Users, NEW r \in Repos, NEW event \in Events, Commit(u, r, event)
  PROVE  /\ user' \in [Users -> Doings \cup {Free}]
         /\ user'[u].at = "mirror" /\ user'[u].repo = r /\ user'[u].event = event
         /\ \A v \in Users \ {u} : user'[v] = user[v]
         /\ registry' \in [Repos -> Events] /\ registry'[r] = event
         /\ \A q \in Repos \ {r} : registry'[q] = registry[q]
         /\ behind' \subseteq Repos /\ writes' \in 0..MaxWrites
<1>1. user' = [user EXCEPT ![u] = Doing("mirror", r, event)]
  BY DEF Commit
<1>2. "mirror" \in Steps
  BY DEF Steps
<1>3. /\ registry' = [registry EXCEPT ![r] = event]
      /\ behind' \in {behind \cup {r}, behind \ {r}}
      /\ writes' = writes + 1 /\ writes < MaxWrites
  BY DEF Commit
<1>4. registry' \in [Repos -> Events] /\ behind' \subseteq Repos
  BY <1>3 DEF BooksOK
<1>6. writes' \in 0..MaxWrites
  BY <1>3, OnboardingAssumption DEF BooksOK
<1>7. Doing("mirror", r, event) \in Doings
  BY <1>2 DEF Doing, Doings
<1>5. registry'[r] = event /\ \A q \in Repos \ {r} : registry'[q] = registry[q]
  BY <1>3 DEF BooksOK
<1>8. /\ user' \in [Users -> Doings \cup {Free}] /\ user'[u] = Doing("mirror", r, event)
      /\ \A v \in Users \ {u} : user'[v] = user[v]
  BY <1>1, <1>7 DEF BooksOK
<1> QED BY <1>4, <1>5, <1>6, <1>8 DEF Doing

-----------------------------------------------------------------------------
(* The steps, by what they touch. *)

Syncing ==
  \/ SyncStep \/ PassFails \/ Unmount \/ Mount
  \/ \E n \in Names : Deliver(n) \/ DeleteByHand(n)

LEMMA SyncingKeeps ==
  Syncing \/ UNCHANGED vars => UNCHANGED <<governed, branch, request, user, registry, mirror, behind, writes>>
BY DEF Syncing, SyncStep, ReadRegistry, ListObjects, EndPass, Create, Update, Prune, PassFails,
       Unmount, Mount, Deliver, DeleteByHand, github, books, fleet, vars

(* A step that commits an event and leaves everything else alone. *)
Commits(u, r, event) == Commit(u, r, event) /\ UNCHANGED <<governed, branch, request, mirror>>

LEMMA CommittingSteps ==
  ASSUME BooksOK, NEW u \in Users,
         RecordImport(u) \/ Unregister(u) \/ \E r \in Repos, pin \in Pins : Register(u, r, pin)
  PROVE  \E r \in Repos, event \in Events :
           /\ Commits(u, r, event)
           /\ user[u].at # "mirror"
<1>1. CASE RecordImport(u)
  <2>1. user[u].repo \in Repos /\ user[u].event \in Events
    BY <1>1, Busy DEF RecordImport, At
  <2> QED BY <1>1, <2>1 DEF RecordImport, Commits, github, At
<1>2. CASE Unregister(u)
  <2>1. user[u].repo \in Repos
    BY <1>2, Busy DEF Unregister, At
  <2> QED BY <1>2, <2>1 DEF Unregister, Commits, github, At, Events
<1>3. CASE \E r \in Repos, pin \in Pins : Register(u, r, pin)
  BY <1>3 DEF Register, Commits, github, At, Events
<1> QED BY <1>1, <1>2, <1>3

(* Users plan, look, and stop, without writing anything. *)
Quietly(u) ==
  /\ UNCHANGED <<governed, branch, request, registry, mirror, behind, writes>>
  /\ user' \in [Users -> Doings \cup {Free}]
  /\ \A v \in Users \ {u} : user'[v] = user[v]
  /\ \/ user'[u].at = "free"
     \/ /\ user'[u].at \in {"planned", "unregister"} /\ user'[u].late = FALSE
        /\ user'[u].at = "planned" => ~governed[user'[u].repo]
     \/ /\ user'[u].at = "checked" /\ user[u].at = "planned"
        /\ user'[u].repo = user[u].repo /\ user'[u].late = user[u].late

LEMMA QuietSteps ==
  ASSUME BooksOK, NEW u \in Users,
         \/ Preflight(u) \/ ImportFails(u)
         \/ \E r \in Repos : PlanImport(u, r) \/ AskUnregister(u, r)
  PROVE  Quietly(u) /\ user[u].at # "mirror"
<1>1. CASE Preflight(u)
  <2>1. /\ UNCHANGED <<governed, branch, request, registry, mirror, behind, writes>>
        /\ user[u].at = "planned" /\ (Ends(u) \/ Goes(u, "checked"))
    BY <1>1 DEF Preflight, At, github, books
  <2> QED BY <2>1, GoneOn, Ended DEF Quietly, Steps
<1>2. CASE ImportFails(u)
  BY <1>2, Ended DEF ImportFails, Quietly, github, books
<1>3. ASSUME NEW r \in Repos, PlanImport(u, r) PROVE Quietly(u) /\ user[u].at = "free"
  <2>1. /\ UNCHANGED <<governed, branch, request, registry, mirror, behind, writes>>
        /\ user[u].at = "free" /\ ~governed[r]
        /\ user' = [user EXCEPT ![u] = Doing("planned", r, ImportPin)]
    BY <1>3 DEF PlanImport, At, github, books
  <2> QED BY <2>1, Began DEF Quietly, Steps, Events
<1>4. ASSUME NEW r \in Repos, AskUnregister(u, r) PROVE Quietly(u) /\ user[u].at = "free"
  <2>1. /\ UNCHANGED <<governed, branch, request, registry, mirror, behind, writes>>
        /\ user[u].at = "free"
        /\ user' = [user EXCEPT ![u] = Doing("unregister", r, None)]
    BY <1>4 DEF AskUnregister, At, github, books
  <2> QED BY <2>1, Began DEF Quietly, Steps, Events
<1> QED BY <1>1, <1>2, <1>3, <1>4

LEMMA MirrorSteps ==
  ASSUME BooksOK, NEW u \in Users, Mirror(u) \/ MirrorFails(u)
  PROVE  /\ user[u].at = "mirror" /\ user'[u].at = "free"
         /\ user' \in [Users -> Doings \cup {Free}]
         /\ \A v \in Users \ {u} : user'[v] = user[v]
         /\ UNCHANGED <<governed, branch, request, registry, writes>>
         /\ mirror' \in [Repos -> Events] /\ behind' \subseteq Repos
         /\ \/ /\ mirror'[user[u].repo] = user[u].event /\ UNCHANGED behind
               /\ \A q \in Repos \ {user[u].repo} : mirror'[q] = mirror[q]
            \/ UNCHANGED mirror /\ behind' = behind \cup {user[u].repo}
<1>1. user[u].at = "mirror" /\ user[u].repo \in Repos /\ user[u].event \in Events
  BY Busy DEF Mirror, MirrorFails, At
<1>2. Ends(u) /\ UNCHANGED <<governed, branch, request, registry, writes>>
  BY DEF Mirror, MirrorFails, github
<1>3. CASE Mirror(u)
  <2>1. mirror' = [mirror EXCEPT ![user[u].repo] = user[u].event] /\ UNCHANGED behind
    BY <1>3 DEF Mirror
  <2>2. /\ mirror' \in [Repos -> Events] /\ mirror'[user[u].repo] = user[u].event
        /\ \A q \in Repos \ {user[u].repo} : mirror'[q] = mirror[q]
    BY <1>1, <2>1 DEF BooksOK
  <2>3. behind' \subseteq Repos
    BY <2>1 DEF BooksOK
  <2> QED BY <1>1, <1>2, <2>1, <2>2, <2>3, Ended
<1>4. CASE MirrorFails(u)
  <2>1. UNCHANGED mirror /\ behind' = behind \cup {user[u].repo}
    BY <1>4 DEF MirrorFails
  <2>2. mirror' \in [Repos -> Events] /\ behind' \subseteq Repos
    BY <1>1, <2>1 DEF BooksOK
  <2> QED BY <1>1, <1>2, <2>1, <2>2, Ended
<1> QED BY <1>3, <1>4

(* A push creates the branch, a pull request needs it; either may fail. *)
LEMMA PublishingSteps ==
  ASSUME BooksOK, NEW u \in Users, PushImport(u) \/ OpenRequest(u)
  PROVE  /\ UNCHANGED <<governed, registry, mirror, behind, writes>>
         /\ user' \in [Users -> Doings \cup {Free}]
         /\ \A v \in Users \ {u} : user'[v] = user[v]
         /\ user[u].at \in {"checked", "pushed"} /\ user[u].repo \in Repos
         /\ \/ user'[u].at = "free" /\ UNCHANGED <<branch, request>>
            \/ /\ user[u].at = "checked" /\ user'[u].at = "pushed"
               /\ user'[u].repo = user[u].repo /\ user'[u].late = user[u].late
               /\ branch[user[u].repo] = None /\ branch' = [branch EXCEPT ![user[u].repo] = u]
               /\ UNCHANGED request
            \/ /\ user[u].at = "pushed" /\ user'[u].at = "commit"
               /\ branch[user[u].repo] # None /\ ~request[user[u].repo]
               /\ request' = [request EXCEPT ![user[u].repo] = TRUE] /\ UNCHANGED branch
<1>1. CASE PushImport(u)
  <2>1. /\ UNCHANGED <<governed, request, registry, mirror, behind, writes>>
        /\ user[u].at = "checked"
        /\ \/ Ends(u) /\ UNCHANGED branch
           \/ /\ branch[user[u].repo] = None /\ branch' = [branch EXCEPT ![user[u].repo] = u]
              /\ Goes(u, "pushed")
    BY <1>1 DEF PushImport, At, books
  <2> QED BY <2>1, Ended, GoneOn, Busy DEF Steps
<1>2. CASE OpenRequest(u)
  <2>1. /\ UNCHANGED <<governed, branch, registry, mirror, behind, writes>>
        /\ user[u].at = "pushed"
        /\ \/ Ends(u) /\ UNCHANGED request
           \/ /\ branch[user[u].repo] # None /\ ~request[user[u].repo]
              /\ request' = [request EXCEPT ![user[u].repo] = TRUE]
              /\ Goes(u, "commit")
    BY <1>2 DEF OpenRequest, At, books
  <2> QED BY <2>1, Ended, GoneOn, Busy DEF Steps
<1> QED BY <1>1, <1>2

(* People decide: the pull request is no longer open, the branch may go. *)
LEMMA DecidingSteps ==
  ASSUME BooksOK, NEW r \in Repos, Merge(r) \/ Close(r)
  PROVE  /\ UNCHANGED <<registry, mirror, behind, writes>>
         /\ request' = [request EXCEPT ![r] = FALSE]
         /\ branch' \in {branch, [branch EXCEPT ![r] = None]}
         /\ user' \in [Users -> Doings \cup {Free}]
         /\ \A u \in Users : /\ user'[u].at = user[u].at
                             /\ user[u].at # "free" => /\ user'[u].repo = user[u].repo
                                                       /\ user'[u].event = user[u].event
         /\ governed' \in [Repos -> BOOLEAN]
         /\ \A u \in Users : user[u].at \in {"planned", "checked", "pushed"} =>
              /\ user[u].late => user'[u].late
              /\ governed'[user[u].repo] => governed[user[u].repo] \/ user'[u].late
<1>1. CASE Close(r)
  <2>1. /\ request' = [request EXCEPT ![r] = FALSE] /\ Removed(r)
        /\ UNCHANGED <<registry, mirror, behind, writes, governed, user>>
    BY <1>1 DEF Close, books
  <2> QED BY <2>1 DEF Removed, BooksOK
<1>2. CASE Merge(r)
  <2> DEFINE Started(u) == user[u].at \in {"planned", "checked", "pushed"} /\ user[u].repo = r
  <2>1. /\ request' = [request EXCEPT ![r] = FALSE] /\ Removed(r)
        /\ UNCHANGED <<registry, mirror, behind, writes>>
        /\ governed' = [governed EXCEPT ![r] = TRUE]
        /\ user' = [u \in Users |-> IF Started(u) THEN [user[u] EXCEPT !.late = TRUE] ELSE user[u]]
    BY <1>2 DEF Merge, books
  <2>2. ASSUME NEW u \in Users
        PROVE  /\ user'[u] \in Doings \cup {Free} /\ user'[u].at = user[u].at
               /\ user[u].at # "free" => /\ user'[u].repo = user[u].repo
                                         /\ user'[u].event = user[u].event
               /\ Started(u) => user'[u].late
               /\ ~Started(u) => user'[u] = user[u]
    <3>1. CASE Started(u)
      <4>1. user[u] \in Doings
        BY <3>1, Busy
      <4>2. user'[u] = [user[u] EXCEPT !.late = TRUE]
        BY <2>1, <3>1
      <4> QED BY <3>1, <4>1, <4>2 DEF Doings
    <3>2. CASE ~Started(u)
      BY <2>1, <3>2 DEF BooksOK
    <3> QED BY <3>1, <3>2
  <2>3. user' \in [Users -> Doings \cup {Free}]
    BY <2>1, <2>2
  <2>4. governed' \in [Repos -> BOOLEAN] /\ \A q \in Repos \ {r} : governed'[q] = governed[q]
    BY <2>1 DEF BooksOK
  <2>5. ASSUME NEW u \in Users, user[u].at \in {"planned", "checked", "pushed"}
        PROVE  /\ user[u].late => user'[u].late
               /\ governed'[user[u].repo] => governed[user[u].repo] \/ user'[u].late
    <3>1. user[u].repo \in Repos
      BY <2>5, Busy
    <3> QED BY <2>2, <2>4, <2>5, <3>1
  <2> HIDE DEF Started
  <2> QED BY <2>1, <2>2, <2>3, <2>4, <2>5 DEF Removed
<1> QED BY <1>1, <1>2

-----------------------------------------------------------------------------
(* Types *)

LEMMA InitTyped == Init => BooksOK
BY OnboardingAssumption DEF Init, BooksOK, Events, Free

LEMMA StepTyped == BooksOK /\ [Next]_vars => BooksOK'
<1> SUFFICES ASSUME BooksOK, [Next]_vars PROVE BooksOK'
  OBVIOUS
<1>1. CASE Syncing \/ UNCHANGED vars
  BY <1>1, SyncingKeeps DEF BooksOK
<1>2. ASSUME NEW u \in Users, RecordImport(u) \/ Unregister(u) \/ \E r \in Repos, pin \in Pins : Register(u, r, pin)
      PROVE  BooksOK'
  <2>1. PICK r \in Repos, event \in Events : Commits(u, r, event)
    BY <1>2, CommittingSteps
  <2>2. Commit(u, r, event) /\ UNCHANGED <<governed, branch, request, mirror>>
    BY <2>1 DEF Commits
  <2>3. /\ user' \in [Users -> Doings \cup {Free}] /\ registry' \in [Repos -> Events]
        /\ behind' \subseteq Repos /\ writes' \in 0..MaxWrites
    BY <2>2, Committed
  <2> QED BY <2>2, <2>3 DEF BooksOK
<1>3. ASSUME NEW u \in Users, \/ Preflight(u) \/ ImportFails(u)
                              \/ \E r \in Repos : PlanImport(u, r) \/ AskUnregister(u, r)
      PROVE  BooksOK'
  BY <1>3, QuietSteps DEF Quietly, BooksOK
<1>4. ASSUME NEW u \in Users, Mirror(u) \/ MirrorFails(u) PROVE BooksOK'
  BY <1>4, MirrorSteps DEF BooksOK
<1>5. ASSUME NEW u \in Users, PushImport(u) \/ OpenRequest(u) PROVE BooksOK'
  <2>1. /\ UNCHANGED <<governed, registry, mirror, behind, writes>>
        /\ user' \in [Users -> Doings \cup {Free}] /\ user[u].repo \in Repos
        /\ \/ UNCHANGED branch \/ branch' = [branch EXCEPT ![user[u].repo] = u]
        /\ \/ UNCHANGED request \/ request' = [request EXCEPT ![user[u].repo] = TRUE]
    BY <1>5, PublishingSteps
  <2> QED BY <2>1 DEF BooksOK
<1>6. ASSUME NEW r \in Repos, Merge(r) \/ Close(r) PROVE BooksOK'
  BY <1>6, DecidingSteps DEF BooksOK
<1> QED BY <1>1, <1>2, <1>3, <1>4, <1>5, <1>6 DEF Next, UserStep, Syncing

(* The tables, the file, the branches and what users carry keep their      *)
(* types.                                                                  *)
THEOREM BooksTypeCorrect == Spec => []BooksOK
BY InitTyped, StepTyped, PTL DEF Spec

-----------------------------------------------------------------------------
(* Review *)

HasItsBranch == \A r \in Repos : request[r] => branch[r] # None

LEMMA BranchStays ==
  ASSUME BooksOK, HasItsBranch, [Next]_vars
  PROVE  /\ HasItsBranch'
         /\ \A r \in Repos : request[r] /\ request'[r] => branch'[r] = branch[r]
<1>1. CASE UNCHANGED <<branch, request>>
  BY <1>1 DEF HasItsBranch
<1>2. CASE Syncing \/ UNCHANGED vars
  BY <1>1, <1>2, SyncingKeeps
<1>3. ASSUME NEW u \in Users, RecordImport(u) \/ Unregister(u) \/ \E r \in Repos, pin \in Pins : Register(u, r, pin)
      PROVE  UNCHANGED <<branch, request>>
  BY <1>3, CommittingSteps DEF Commits
<1>4. ASSUME NEW u \in Users, \/ Preflight(u) \/ ImportFails(u) \/ Mirror(u) \/ MirrorFails(u)
                              \/ \E r \in Repos : PlanImport(u, r) \/ AskUnregister(u, r)
      PROVE  UNCHANGED <<branch, request>>
  BY <1>4, QuietSteps, MirrorSteps DEF Quietly, Mirror, MirrorFails, github
<1>5. ASSUME NEW u \in Users, PushImport(u) \/ OpenRequest(u), ~UNCHANGED <<branch, request>>
      PROVE  /\ HasItsBranch'
             /\ \A r \in Repos : request[r] /\ request'[r] => branch'[r] = branch[r]
  <2>1. PICK r \in Repos :
           \/ branch[r] = None /\ branch' = [branch EXCEPT ![r] = u] /\ UNCHANGED request
           \/ branch[r] # None /\ request' = [request EXCEPT ![r] = TRUE] /\ UNCHANGED branch
    BY <1>5, PublishingSteps
  <2> QED BY <2>1, OnboardingAssumption DEF HasItsBranch, BooksOK
<1>6. ASSUME NEW r \in Repos, Merge(r) \/ Close(r)
      PROVE  /\ HasItsBranch'
             /\ \A q \in Repos : request[q] /\ request'[q] => branch'[q] = branch[q]
  <2>1. /\ request' = [request EXCEPT ![r] = FALSE]
        /\ branch' = branch \/ branch' = [branch EXCEPT ![r] = None]
    BY <1>6 DEF Merge, Close, Removed
  <2> QED BY <2>1 DEF HasItsBranch, BooksOK
<1> QED BY <1>1, <1>2, <1>3, <1>4, <1>5, <1>6 DEF Next, UserStep, Syncing

(* What people review is what they merge: while an import pull request is  *)
(* open nobody replaces its commits, however many imports compete.         *)
THEOREM BranchUnderReview == Spec => ReviewedCommitsStay
<1>1. Init => BooksOK /\ HasItsBranch
  BY InitTyped DEF Init, HasItsBranch
<1> DEFINE Stays == \A r \in Repos : request[r] /\ request'[r] => branch'[r] = branch[r]
<1>2. BooksOK /\ HasItsBranch /\ [Next]_vars => (BooksOK /\ HasItsBranch)'
  BY StepTyped, BranchStays
<1>3. BooksOK /\ HasItsBranch /\ [Next]_vars => [Stays]_github
  BY BranchStays
<1> HIDE DEF Stays
<1>4. Spec => [][Stays]_github
  BY <1>1, <1>2, <1>3, PTL DEF Spec
<1> QED BY <1>4 DEF Stays, ReviewedCommitsStay

-----------------------------------------------------------------------------
(* Late imports *)

(* An import under way of a repository that is governed by now is late. *)
Importing(u) == user[u].at \in {"planned", "checked", "pushed"}

LateIsMarked == \A u \in Users : Importing(u) /\ governed[user[u].repo] => user[u].late

LEMMA LatenessKept ==
  ASSUME BooksOK, LateIsMarked, [Next]_vars
  PROVE  /\ LateIsMarked'
         /\ \A r \in Repos : ~request[r] /\ request'[r] /\ governed[r] =>
              \E u \in Users : At(u, "pushed") /\ user[u].repo = r /\ user[u].late
<1>1. ASSUME UNCHANGED governed, NEW u \in Users,
             \A v \in Users \ {u} : user'[v] = user[v],
             Importing(u)' => \/ user'[u].late \/ ~governed[user'[u].repo]
                              \/ /\ Importing(u) /\ user'[u].repo = user[u].repo
                                 /\ user'[u].late = user[u].late
      PROVE  LateIsMarked'
  BY <1>1 DEF LateIsMarked, Importing
<1>2. CASE Syncing \/ UNCHANGED vars
  BY <1>2, SyncingKeeps DEF LateIsMarked, Importing
<1>3. ASSUME NEW u \in Users, RecordImport(u) \/ Unregister(u) \/ \E r \in Repos, pin \in Pins : Register(u, r, pin)
      PROVE  LateIsMarked' /\ UNCHANGED request
  <2>1. PICK r \in Repos, event \in Events : Commits(u, r, event)
    BY <1>3, CommittingSteps
  <2>2. Commit(u, r, event) /\ UNCHANGED <<governed, request>>
    BY <2>1 DEF Commits
  <2>3. user'[u].at = "mirror" /\ \A v \in Users \ {u} : user'[v] = user[v]
    BY <2>2, Committed
  <2> QED BY <1>1, <2>2, <2>3 DEF Importing
<1>4. ASSUME NEW u \in Users, \/ Preflight(u) \/ ImportFails(u)
                              \/ \E r \in Repos : PlanImport(u, r) \/ AskUnregister(u, r)
      PROVE  LateIsMarked' /\ UNCHANGED request
  <2>1. Quietly(u)
    BY <1>4, QuietSteps
  <2> QED BY <1>1, <2>1 DEF Quietly, Importing
<1>5. ASSUME NEW u \in Users, Mirror(u) \/ MirrorFails(u)
      PROVE  LateIsMarked' /\ UNCHANGED request
  BY <1>1, <1>5, MirrorSteps DEF Importing
<1>6. ASSUME NEW u \in Users, PushImport(u) \/ OpenRequest(u)
      PROVE  /\ LateIsMarked'
             /\ \A r \in Repos : ~request[r] /\ request'[r] /\ governed[r] =>
                  At(u, "pushed") /\ user[u].repo = r /\ user[u].late
  <2>1. /\ UNCHANGED governed /\ \A v \in Users \ {u} : user'[v] = user[v]
        /\ user[u].repo \in Repos
        /\ \/ user'[u].at = "free" /\ UNCHANGED request
           \/ /\ user[u].at = "checked" /\ user'[u].at = "pushed" /\ UNCHANGED request
              /\ user'[u].repo = user[u].repo /\ user'[u].late = user[u].late
           \/ /\ user[u].at = "pushed" /\ user'[u].at = "commit"
              /\ request' = [request EXCEPT ![user[u].repo] = TRUE]
    BY <1>6, PublishingSteps
  <2>2. LateIsMarked'
    BY <1>1, <2>1 DEF Importing
  <2>3. ASSUME NEW r \in Repos, ~request[r], request'[r], governed[r]
        PROVE  At(u, "pushed") /\ user[u].repo = r /\ user[u].late
    BY <2>1, <2>3 DEF BooksOK, At, LateIsMarked, Importing
  <2> QED BY <2>2, <2>3
<1>7. ASSUME NEW r \in Repos, Merge(r) \/ Close(r)
      PROVE  /\ LateIsMarked' /\ \A q \in Repos : request'[q] => request[q]
  <2>1. /\ request' = [request EXCEPT ![r] = FALSE]
        /\ \A u \in Users : /\ user'[u].at = user[u].at
                            /\ user[u].at # "free" => user'[u].repo = user[u].repo
        /\ \A u \in Users : user[u].at \in {"planned", "checked", "pushed"} =>
              /\ user[u].late => user'[u].late
              /\ governed'[user[u].repo] => governed[user[u].repo] \/ user'[u].late
    BY <1>7, DecidingSteps
  <2> QED BY <2>1 DEF LateIsMarked, Importing, BooksOK
<1> QED BY <1>2, <1>3, <1>4, <1>5, <1>6, <1>7, SyncingKeeps DEF Next, UserStep, Syncing

(* A repository that is governed already gets an import pull request only  *)
(* from an import that cloned it before it was.                            *)
THEOREM LateImportsOnly == Spec => OnlyLateImports
<1>1. Init => BooksOK /\ LateIsMarked
  BY InitTyped DEF Init, LateIsMarked, Importing, Free
<1> DEFINE Late == \A r \in Repos : ~request[r] /\ request'[r] /\ governed[r] =>
      \E u \in Users : At(u, "pushed") /\ user[u].repo = r /\ user[u].late
<1>2. BooksOK /\ LateIsMarked /\ [Next]_vars => (BooksOK /\ LateIsMarked)'
  BY StepTyped, LatenessKept
<1>3. BooksOK /\ LateIsMarked /\ [Next]_vars => [Late]_github
  BY LatenessKept
<1> HIDE DEF Late
<1>4. Spec => [][Late]_github
  BY <1>1, <1>2, <1>3, PTL DEF Spec
<1> QED BY <1>4 DEF Late, OnlyLateImports

-----------------------------------------------------------------------------
(* The mirror *)

(* Of a repository that is not behind at most one line is still to be      *)
(* written, and it is that of the last event.                              *)
LinesInOrder ==
  \A r \in Repos \ behind :
    /\ \A u \in Users : Pending(u, r) =>
         user[u].event = registry[r] /\ \A v \in Users : Pending(v, r) => v = u
    /\ mirror[r] = registry[r] \/ \E u \in Users : Pending(u, r)

LEMMA LinesKept ==
  ASSUME BooksOK, LinesInOrder, [Next]_vars
  PROVE  LinesInOrder'
<1>1. ASSUME UNCHANGED <<registry, mirror, behind>>, NEW u \in Users,
             \A v \in Users \ {u} : user'[v] = user[v],
             user[u].at # "mirror", user'[u].at # "mirror"
      PROVE  LinesInOrder'
  <2>1. \A v \in Users, r \in Repos : /\ Pending(v, r)' <=> Pending(v, r)
                                      /\ Pending(v, r) => user'[v].event = user[v].event
    BY <1>1 DEF Pending, At
  <2> QED BY <1>1, <2>1 DEF LinesInOrder
<1>2. CASE Syncing \/ UNCHANGED vars
  BY <1>2, SyncingKeeps DEF LinesInOrder, Pending, At
<1>3. ASSUME NEW u \in Users, RecordImport(u) \/ Unregister(u) \/ \E r \in Repos, pin \in Pins : Register(u, r, pin)
      PROVE  LinesInOrder'
  <2>1. PICK r \in Repos, event \in Events : Commits(u, r, event) /\ user[u].at # "mirror"
    BY <1>3, CommittingSteps
  <2>2. Commit(u, r, event) /\ UNCHANGED mirror
    BY <2>1 DEF Commits
  <2>3. /\ user'[u].at = "mirror" /\ user'[u].repo = r /\ user'[u].event = event
        /\ \A v \in Users \ {u} : user'[v] = user[v]
        /\ registry'[r] = event /\ \A q \in Repos \ {r} : registry'[q] = registry[q]
    BY <2>2, Committed
  <2>4. behind' = IF \E v \in Users \ {u} : Pending(v, r) THEN behind \cup {r} ELSE behind \ {r}
    BY <2>2 DEF Commit
  <2>5. /\ Pending(u, r)'
        /\ \A q \in Repos \ {r} : ~Pending(u, q)' /\ ~Pending(u, q)
        /\ \A v \in Users \ {u}, q \in Repos : Pending(v, q)' <=> Pending(v, q)
    BY <2>1, <2>3 DEF Pending, At
  <2>6. ASSUME NEW q \in Repos \ behind', q # r
        PROVE  /\ \A v \in Users : Pending(v, q)' =>
                    user'[v].event = registry'[q] /\ \A w \in Users : Pending(w, q)' => w = v
               /\ mirror'[q] = registry'[q] \/ \E v \in Users : Pending(v, q)'
    BY <2>2, <2>3, <2>4, <2>5, <2>6 DEF LinesInOrder
  <2>7. ASSUME r \notin behind'
        PROVE  \A v \in Users : Pending(v, r)' =>
                 user'[v].event = registry'[r] /\ \A w \in Users : Pending(w, r)' => w = v
    BY <2>3, <2>4, <2>5, <2>7
  <2> QED BY <2>5, <2>6, <2>7 DEF LinesInOrder
<1>4. ASSUME NEW u \in Users, \/ Preflight(u) \/ ImportFails(u)
                              \/ \E r \in Repos : PlanImport(u, r) \/ AskUnregister(u, r)
      PROVE  LinesInOrder'
  <2>1. Quietly(u) /\ user[u].at # "mirror"
    BY <1>4, QuietSteps
  <2> QED BY <1>1, <2>1 DEF Quietly
<1>5. ASSUME NEW u \in Users, Mirror(u) \/ MirrorFails(u)
      PROVE  LinesInOrder'
  <2>1. /\ user[u].at = "mirror" /\ user'[u].at = "free" /\ UNCHANGED registry
        /\ \A v \in Users \ {u} : user'[v] = user[v]
        /\ \/ /\ mirror'[user[u].repo] = user[u].event /\ UNCHANGED behind
              /\ \A q \in Repos \ {user[u].repo} : mirror'[q] = mirror[q]
           \/ UNCHANGED mirror /\ behind' = behind \cup {user[u].repo}
    BY <1>5, MirrorSteps
  <2>2. user[u].repo \in Repos
    BY <2>1, Busy
  <2>3. /\ Pending(u, user[u].repo) /\ \A q \in Repos : Pending(u, q) => q = user[u].repo
        /\ \A q \in Repos : ~Pending(u, q)'
        /\ \A v \in Users \ {u}, q \in Repos :
             /\ Pending(v, q)' <=> Pending(v, q)
             /\ user'[v].event = user[v].event
    BY <2>1 DEF Pending, At
  <2>4. ASSUME NEW q \in Repos \ behind'
        PROVE  /\ \A v \in Users : Pending(v, q)' =>
                    user'[v].event = registry'[q] /\ \A w \in Users : Pending(w, q)' => w = v
               /\ mirror'[q] = registry'[q] \/ \E v \in Users : Pending(v, q)'
    BY <2>1, <2>2, <2>3, <2>4 DEF LinesInOrder
  <2> QED BY <2>4 DEF LinesInOrder
<1>6. ASSUME NEW u \in Users, PushImport(u) \/ OpenRequest(u) PROVE LinesInOrder'
  <2>1. /\ UNCHANGED <<registry, mirror, behind>> /\ \A v \in Users \ {u} : user'[v] = user[v]
        /\ user[u].at # "mirror" /\ user'[u].at # "mirror"
    BY <1>6, PublishingSteps
  <2> QED BY <1>1, <2>1
<1>7. ASSUME NEW r \in Repos, Merge(r) \/ Close(r) PROVE LinesInOrder'
  <2>1. /\ UNCHANGED <<registry, mirror, behind>>
        /\ \A u \in Users : /\ user'[u].at = user[u].at
                            /\ user[u].at # "free" => /\ user'[u].repo = user[u].repo
                                                      /\ user'[u].event = user[u].event
    BY <1>7, DecidingSteps
  <2>2. \A u \in Users, q \in Repos : /\ Pending(u, q)' <=> Pending(u, q)
                                      /\ Pending(u, q) => user'[u].event = user[u].event
    BY <2>1 DEF Pending, At
  <2> QED BY <2>1, <2>2 DEF LinesInOrder
<1> QED BY <1>2, <1>3, <1>4, <1>5, <1>6, <1>7 DEF Next, UserStep, Syncing

(* The file the operator reads says of every entry what the table says,    *)
(* unless the line is still to be written, was lost, or overtook another.  *)
THEOREM MirrorFollows == Spec => []MirrorAgrees
<1>1. Init => BooksOK /\ LinesInOrder
  BY InitTyped DEF Init, LinesInOrder, Pending, At, Free
<1>2. BooksOK /\ LinesInOrder /\ [Next]_vars => (BooksOK /\ LinesInOrder)'
  BY StepTyped, LinesKept
<1>3. LinesInOrder => MirrorAgrees
  BY DEF LinesInOrder, MirrorAgrees
<1> QED BY <1>1, <1>2, <1>3, PTL DEF Spec

-----------------------------------------------------------------------------
(* Numbers: what the loop over the files is reasoned about with.           *)

(* A set of numbers has a least one. *)
LEMMA LeastNumber ==
  ASSUME NEW S \in SUBSET Nat, S # {}
  PROVE  \E i \in S : \A j \in S : i <= j
<1>1. PICK i \in S : \A j \in S : ~(<<j, i>> \in OpToRel(<, Nat))
  BY NatLessThanWellFounded, WFMin
<1>2. ASSUME NEW j \in S PROVE i <= j
  <2>1. j < i => <<j, i>> \in OpToRel(<, Nat)
    <3>1. <<j, i>> \in Nat \X Nat
      OBVIOUS
    <3> QED
      BY <3>1 DEF OpToRel
  <2>2. j \in Nat /\ i \in Nat /\ ~(j < i)
    BY <1>1, <2>1
  <2> QED
    BY <2>2
<1> QED
  BY <1>2

(* Induction, for a set rather than a formula. *)
LEMMA Counting ==
  ASSUME NEW S, 0 \in S, \A n \in Nat : n \in S => n + 1 \in S
  PROVE  Nat \subseteq S
<1> SUFFICES ASSUME Nat \ S # {} PROVE FALSE
  OBVIOUS
<1>1. PICK n \in Nat \ S : \A m \in Nat \ S : n <= m
  BY LeastNumber
<1>2. n # 0 /\ n - 1 \in Nat /\ n - 1 \in S
  BY <1>1
<1> QED BY <1>1, <1>2

(* A set of numbers up to a bound has a greatest one. *)
LEMMA GreatestNumber ==
  ASSUME NEW n \in Nat, NEW S \in SUBSET 0..n, S # {}
  PROVE  \E i \in S : \A j \in S : j <= i
<1> DEFINE T == {n - i : i \in S}
<1>1. T \in SUBSET Nat /\ T # {}
  <2>1. \A i \in S : i \in 0..n /\ n - i \in Nat
    OBVIOUS
  <2> QED BY <2>1
<1>2. PICK k \in T : \A j \in T : k <= j
  BY <1>1, LeastNumber
<1>3. PICK i \in S : k = n - i
  OBVIOUS
<1>4. \A j \in S : n - i <= n - j
  BY <1>2, <1>3
<1> QED BY <1>4

(* The loop over the files of the inventory is well defined. *)
LEMMA TurnsTaken ==
  ASSUME NEW tree, NEW place
  PROVE  /\ Turns(tree, place)[0] = tree
         /\ \A i \in 1..FileCount :
              Turns(tree, place)[i] =
                IF i \in Renames(place) THEN MoveFile(Turns(tree, place)[i-1], place, i)
                ELSE Turns(tree, place)[i-1]
<1> DEFINE Turn(t, i) == IF i \in Renames(place) THEN MoveFile(t, place, i) ELSE t
           S == {k \in Nat : \E h : h = [i \in 0..k |-> IF i = 0 THEN tree ELSE Turn(h[i-1], i)]}
<1> HIDE DEF Turn
<1>0. FileCount \in Nat
  BY MovesAssumption
<1>1. 0 \in S
  <2> DEFINE h == [i \in 0..0 |-> tree]
  <2>1. h = [i \in 0..0 |-> IF i = 0 THEN tree ELSE Turn(h[i-1], i)]
    OBVIOUS
  <2> QED BY <2>1
<1>2. ASSUME NEW k \in Nat, k \in S PROVE k + 1 \in S
  <2>1. PICK h : h = [i \in 0..k |-> IF i = 0 THEN tree ELSE Turn(h[i-1], i)]
    BY <1>2
  <2> DEFINE g == [i \in 0..k+1 |-> IF i = k+1 THEN Turn(h[k], k+1) ELSE h[i]]
  <2>2. \A i \in 0..k : g[i] = h[i]
    OBVIOUS
  <2>3. \A i \in 0..k+1 : g[i] = IF i = 0 THEN tree ELSE Turn(g[i-1], i)
    <3> TAKE i \in 0..k+1
    <3>1. CASE i = k+1
      BY <2>2, <3>1
    <3>2. CASE i \in 0..k
      <4>1. h[i] = IF i = 0 THEN tree ELSE Turn(h[i-1], i)
        BY <2>1, <3>2
      <4>2. i # 0 => i-1 \in 0..k
        BY <3>2
      <4> QED BY <2>2, <3>2, <4>1, <4>2
    <3> QED BY <3>1, <3>2
  <2>4. g = [i \in 0..k+1 |-> g[i]]
    OBVIOUS
  <2> HIDE DEF g
  <2>5. g = [i \in 0..k+1 |-> IF i = 0 THEN tree ELSE Turn(g[i-1], i)]
    BY <2>3, <2>4
  <2> QED BY <2>5
<1>3. FileCount \in S
  <2> HIDE DEF S
  <2> QED BY <1>0, <1>1, <1>2, Counting
<1> DEFINE f == CHOOSE h : h = [i \in 0..FileCount |-> IF i = 0 THEN tree ELSE Turn(h[i-1], i)]
<1>4. f = [i \in 0..FileCount |-> IF i = 0 THEN tree ELSE Turn(f[i-1], i)]
  BY <1>3, Zenon
<1>5. Turns(tree, place) = f
  BY Zenon DEF Turns, Turn
<1> HIDE DEF f, S
<1>6. /\ f[0] = tree
      /\ \A i \in 1..FileCount : f[i] = Turn(f[i-1], i)
  <2>1. 0 \in 0..FileCount
    BY <1>0
  <2>2. \A i \in 1..FileCount : i \in 0..FileCount /\ i # 0
    BY <1>0
  <2> QED BY <1>4, <2>1, <2>2
<1> QED BY <1>5, <1>6 DEF Turn

-----------------------------------------------------------------------------
(* Repositories and places. *)
Given(tree, place) ==
  \E files \in SUBSET Sources :
    /\ tree \in Repositories(files) /\ place \in [files -> Paths] /\ PlanOk(place)

LEMMA GivenFacts ==
  ASSUME NEW tree, NEW place, Given(tree, place)
  PROVE  /\ Renames(place) \subseteq Sources /\ tree = [x \in Paths |-> tree[x]]
         /\ \A q \in Renames(place) : q \in DOMAIN place /\ place[q] \in Paths /\ place[q] # q
         /\ \A p, q \in DOMAIN place : place[p] = place[q] => p = q
         /\ DOMAIN place \subseteq Sources /\ Sources \subseteq Paths
         /\ \A x \in DOMAIN place : tree[x] # NoFile
         /\ \A x \in Paths \ DOMAIN place : tree[x] = NoFile
<1>1. PICK files \in SUBSET Sources :
        tree \in Repositories(files) /\ place \in [files -> Paths] /\ PlanOk(place)
  BY DEF Given
<1>2. PICK c \in [files -> Contents] : tree = [p \in Paths |-> IF p \in files THEN c[p] ELSE NoFile]
  BY <1>1 DEF Repositories
<1>3. Sources \subseteq Paths
  BY MovesAssumption DEF Sources, Paths
<1>4. \A x \in files : x \in Paths /\ tree[x] = c[x] /\ c[x] \in Contents
  BY <1>1, <1>2, <1>3
<1>5. \A x \in Paths \ files : tree[x] = NoFile
  BY <1>2
<1>6. DOMAIN place = files
  BY <1>1
<1>7. tree = [x \in Paths |-> tree[x]]
  BY <1>2
<1>8. \A p, q \in files : place[p] = place[q] => p = q
  BY <1>1, <1>6 DEF PlanOk
<1>9. \A q \in Renames(place) : q \in files /\ place[q] \in Paths /\ place[q] # q
  BY <1>1, <1>6 DEF Renames
<1> QED BY <1>1, <1>3, <1>4, <1>5, <1>6, <1>7, <1>8, <1>9, MovesAssumption

(* What is at a path after i turns.  A file has come that has not been     *)
(* moved on; a file has gone; or nothing has happened there.               *)
Arrived(t, tree, place, i) ==
  \A q \in Renames(place) :
    q <= i /\ ~(place[q] \in Renames(place) /\ q < place[q] /\ place[q] <= i) =>
      \E r \in Renames(place) :
        /\ r <= q /\ t[place[q]] = tree[r]
        /\ r = q <=> \A p \in Renames(place) : p < q => place[p] # q

Gone(t, place, i) ==
  \A x \in Renames(place) :
    x <= i /\ (\A q \in Renames(place) : place[q] = x => q < x \/ q > i) => t[x] = NoFile

Untouched(t, tree, place, i) ==
  \A x \in Paths :
    ~(x \in Renames(place) /\ x <= i) /\ (\A q \in Renames(place) : q <= i => place[q] # x)
      => t[x] = tree[x]

HalfMoved(t, tree, place, i) ==
  /\ t = [x \in Paths |-> t[x]]
  /\ Arrived(t, tree, place, i) /\ Gone(t, place, i) /\ Untouched(t, tree, place, i)

LEMMA FirstTurn ==
  ASSUME NEW tree, NEW place, Given(tree, place)
  PROVE  HalfMoved(tree, tree, place, 0)
<1>1. \A q \in Renames(place) : q \in Nat /\ ~(q <= 0)
  BY GivenFacts, MovesAssumption DEF Sources
<1> QED BY <1>1, GivenFacts DEF HalfMoved, Arrived, Gone, Untouched

LEMMA NoTurn ==
  ASSUME NEW tree, NEW place, Given(tree, place), NEW t, NEW k \in 1..FileCount,
         k \notin Renames(place), HalfMoved(t, tree, place, k-1)
  PROVE  HalfMoved(t, tree, place, k)
<1>1. \A q \in Renames(place) : q \in Nat /\ (q <= k => q <= k-1) /\ (q > k-1 => q > k) /\ (q <= k-1 => q <= k)
  BY GivenFacts, MovesAssumption DEF Sources
<1>2. Arrived(t, tree, place, k)
  BY <1>1 DEF HalfMoved, Arrived
<1>3. Gone(t, place, k)
  BY <1>1 DEF HalfMoved, Gone
<1>4. Untouched(t, tree, place, k)
  BY <1>1 DEF HalfMoved, Untouched
<1> QED BY <1>2, <1>3, <1>4 DEF HalfMoved

LEMMA ATurn ==
  ASSUME NEW tree, NEW place, Given(tree, place), NEW t, NEW k \in 1..FileCount,
         k \in Renames(place), HalfMoved(t, tree, place, k-1)
  PROVE  HalfMoved(MoveFile(t, place, k), tree, place, k)
<1> DEFINE R == Renames(place)
           u == MoveFile(t, place, k)
<1>1. /\ \A q \in R : q \in Nat /\ place[q] \in Paths /\ place[q] # q
      /\ \A p, q \in R : place[p] = place[q] => p = q
      /\ R \subseteq Sources /\ Sources \subseteq Paths /\ Paths \subseteq Nat
      /\ k \in Nat /\ k-1 \in Nat
  BY GivenFacts, MovesAssumption DEF Sources, Paths
<1>2. /\ \A r \in R : tree[r] # NoFile
      /\ t = [x \in Paths |-> t[x]]
      /\ k \in Paths
  BY <1>1, GivenFacts DEF HalfMoved
<1> HIDE DEF R
<1>3. \E r \in R : r <= k /\ t[k] = tree[r] /\ (r = k <=> \A p \in R : p < k => place[p] # k)
  <2>1. CASE \E p \in R : p < k /\ place[p] = k
    <3>1. PICK p \in R : p < k /\ place[p] = k
      BY <2>1
    <3>2. p <= k-1 /\ ~(k <= k-1)
      BY <1>1, <3>1
    <3>3. PICK r \in R : r <= p /\ t[place[p]] = tree[r]
      BY <3>1, <3>2 DEF HalfMoved, Arrived, R
    <3>4. r < k /\ r # k
      BY <1>1, <3>1, <3>3
    <3> QED BY <1>1, <3>1, <3>3, <3>4
  <2>2. CASE \A p \in R : p < k => place[p] # k
    <3>1. \A p \in R : p <= k-1 => p < k
      BY <1>1
    <3>2. ~(k <= k-1)
      BY <1>1
    <3>3. t[k] = tree[k]
      BY <1>2, <2>2, <3>1, <3>2 DEF HalfMoved, Untouched, R
    <3> QED BY <1>1, <2>2, <3>3 DEF R
  <2> QED BY <2>1, <2>2
<1>4. u = [t EXCEPT ![place[k]] = t[k], ![k] = NoFile]
  BY <1>2, <1>3 DEF MoveFile
<1>5. place[k] \in Paths /\ place[k] # k
  BY <1>1 DEF R
<1>6. /\ u = [x \in Paths |-> u[x]]
      /\ u[place[k]] = t[k] /\ u[k] = NoFile
      /\ \A x \in Paths : x # k /\ x # place[k] => u[x] = t[x]
  BY <1>2, <1>4, <1>5
<1> HIDE DEF u
<1>7. Arrived(u, tree, place, k)
  <2> SUFFICES ASSUME NEW q \in R, q <= k, ~(place[q] \in R /\ q < place[q] /\ place[q] <= k)
               PROVE  \E r \in R : /\ r <= q /\ u[place[q]] = tree[r]
                                   /\ r = q <=> \A p \in R : p < q => place[p] # q
    BY DEF Arrived, R
  <2>1. CASE q = k
    BY <1>3, <1>6, <2>1
  <2>2. CASE q # k
    <3>1. q <= k-1 /\ q < k
      BY <1>1, <2>2
    <3>2. place[q] # place[k] /\ place[q] # k
      BY <1>1, <2>2, <3>1 DEF R
    <3>3. u[place[q]] = t[place[q]]
      BY <1>1, <1>6, <3>2
    <3>4. ~(place[q] \in R /\ q < place[q] /\ place[q] <= k-1)
      <4>1. place[q] \in Nat
        BY <1>1
      <4>2. place[q] <= k-1 => place[q] <= k
        BY <1>1, <4>1
      <4> QED BY <4>2
    <3> QED BY <3>1, <3>3, <3>4 DEF HalfMoved, Arrived, R
  <2> QED BY <2>1, <2>2
<1>8. Gone(u, place, k)
  <2> SUFFICES ASSUME NEW x \in R, x <= k, \A q \in R : place[q] = x => q < x \/ q > k
               PROVE  u[x] = NoFile
    BY DEF Gone, R
  <2>1. CASE x = k
    BY <1>6, <2>1
  <2>2. CASE x # k
    <3>1. x <= k-1 /\ ~(k < x) /\ ~(k > k)
      BY <1>1, <2>2
    <3>2. x # place[k]
      BY <3>1 DEF R
    <3>3. u[x] = t[x]
      BY <1>1, <1>6, <2>2, <3>2
    <3>4. \A q \in R : q > k => q > k-1
      BY <1>1
    <3> QED BY <3>1, <3>3, <3>4 DEF HalfMoved, Gone, R
  <2> QED BY <2>1, <2>2
<1>9. Untouched(u, tree, place, k)
  <2> SUFFICES ASSUME NEW x \in Paths, ~(x \in R /\ x <= k), \A q \in R : q <= k => place[q] # x
               PROVE  u[x] = tree[x]
    BY DEF Untouched, R
  <2>1. x # k /\ x # place[k]
    BY <1>1 DEF R
  <2>2. u[x] = t[x]
    BY <1>6, <2>1
  <2>3. \A q \in R : q <= k-1 => q <= k
    BY <1>1
  <2> QED BY <2>2, <2>3 DEF HalfMoved, Untouched, R
<1> QED BY <1>6, <1>7, <1>8, <1>9 DEF HalfMoved, u

(* The invariant of the loop, after the last turn. *)
LEMMA LastTurn ==
  ASSUME NEW tree, NEW place, Given(tree, place)
  PROVE  HalfMoved(Moved(tree, place), tree, place, FileCount)
<1> DEFINE S == {k \in Nat : k <= FileCount => HalfMoved(Turns(tree, place)[k], tree, place, k)}
<1>1. 0 \in S
  BY TurnsTaken, FirstTurn
<1>2. ASSUME NEW n \in Nat, n \in S PROVE n + 1 \in S
  <2> SUFFICES ASSUME n + 1 <= FileCount
               PROVE  HalfMoved(Turns(tree, place)[n + 1], tree, place, n + 1)
    OBVIOUS
  <2>1. n + 1 \in 1..FileCount /\ (n + 1) - 1 = n /\ n <= FileCount
    BY MovesAssumption
  <2>2. HalfMoved(Turns(tree, place)[(n + 1) - 1], tree, place, (n + 1) - 1)
    BY <1>2, <2>1
  <2>3. CASE n + 1 \in Renames(place)
    <3>1. Turns(tree, place)[n + 1] = MoveFile(Turns(tree, place)[(n + 1) - 1], place, n + 1)
      BY <2>1, <2>3, TurnsTaken
    <3> QED BY <2>1, <2>2, <2>3, <3>1, ATurn
  <2>4. CASE n + 1 \notin Renames(place)
    <3>1. Turns(tree, place)[n + 1] = Turns(tree, place)[(n + 1) - 1]
      BY <2>1, <2>4, TurnsTaken
    <3> QED BY <2>1, <2>2, <2>4, <3>1, NoTurn
  <2> QED BY <2>3, <2>4
<1>3. FileCount \in S
  <2> HIDE DEF S
  <2> QED BY <1>1, <1>2, Counting, MovesAssumption
<1> QED BY <1>3, MovesAssumption DEF Moved

(* No file is in the way of another: every file is where it was to go.     *)
LEMMA InOrder ==
  ASSUME NEW tree, NEW place, NEW reference, Given(tree, place), ~Overruns(place)
  PROVE  Applied(tree, place, reference) = After(tree, place, reference)
<1> DEFINE R == Renames(place)
           m == Moved(tree, place)
<1>0. /\ \A q \in R : q \in Nat /\ q <= FileCount /\ q \in DOMAIN place /\ place[q] \in Paths /\ place[q] # q
      /\ \A p, q \in DOMAIN place : place[p] = place[q] => p = q
      /\ Paths \subseteq Nat /\ DOMAIN place \subseteq Paths
      /\ \A x \in Paths \ DOMAIN place : tree[x] = NoFile
  BY GivenFacts, MovesAssumption DEF Sources, Paths
<1>1. HalfMoved(m, tree, place, FileCount)
  BY LastTurn
<1>2. \A p, q \in R : p < q => place[p] # q
  BY DEF Overruns
<1>3. \A p \in DOMAIN place \ R : place[p] = p
  BY DEF Renames
<1>a. R \subseteq DOMAIN place
  BY <1>0
<1> HIDE DEF R, m
<1>4. \A q \in R : m[place[q]] = tree[q]
  <2> TAKE q \in R
  <2>1. ~(place[q] \in R /\ q < place[q] /\ place[q] <= FileCount)
    BY <1>2
  <2>2. PICK r \in R : m[place[q]] = tree[r] /\ (r = q <=> \A p \in R : p < q => place[p] # q)
    BY <1>0, <1>1, <2>1 DEF HalfMoved, Arrived, R
  <2> QED BY <1>2, <2>2
<1>5. \A p \in DOMAIN place : m[place[p]] = tree[p]
  <2> TAKE p \in DOMAIN place
  <2>1. CASE p \in R
    BY <1>4, <2>1
  <2>2. CASE p \notin R
    <3>1. place[p] = p /\ p \in Paths
      BY <1>0, <1>3, <2>2
    <3>2. \A q \in R : place[q] # p
      BY <1>0, <2>2, <3>1
    <3> QED BY <1>1, <2>2, <3>1, <3>2 DEF HalfMoved, Untouched, R
  <2> QED BY <2>1, <2>2
<1>6. \A x \in Paths : x \notin Occupied(place) => m[x] = NoFile
  <2> SUFFICES ASSUME NEW x \in Paths, x \notin Occupied(place) PROVE m[x] = NoFile
    OBVIOUS
  <2>1. \A p \in DOMAIN place : place[p] # x
    BY DEF Occupied
  <2>2. \A q \in R : place[q] # x
    BY <1>0, <2>1
  <2>3. CASE x \in R
    BY <1>0, <1>1, <2>2, <2>3 DEF HalfMoved, Gone, R
  <2>4. CASE x \notin R
    <3>1. x \notin DOMAIN place
      BY <1>3, <2>1, <2>4
    <3>2. m[x] = tree[x]
      BY <1>1, <2>2, <2>4 DEF HalfMoved, Untouched, R
    <3> QED BY <1>0, <3>1, <3>2
  <2> QED BY <2>3, <2>4
<1>7. Verified(tree, m, place)
  BY <1>4 DEF Verified, R
<1>8. Scaffold(place, reference) \cap Occupied(place) = {}
  BY DEF Scaffold
<1>9. \A x \in Paths : x \in Occupied(place) => m[x] = tree[CHOOSE p \in DOMAIN place : place[p] = x]
  <2> TAKE x \in Paths
  <2> HAVE x \in Occupied(place)
  <2>1. \E p \in DOMAIN place : place[p] = x
    BY DEF Occupied
  <2> DEFINE c == CHOOSE p \in DOMAIN place : place[p] = x
  <2>2. c \in DOMAIN place /\ place[c] = x
    BY <2>1, Zenon
  <2> QED BY <1>5, <2>2
<1>10. \A x \in Paths : x \in Occupied(place) /\ m[x] = NoFile => x \notin Scaffold(place, reference)
  BY <1>8
<1> DEFINE S == Scaffold(place, reference)
           O == Occupied(place)
           C(x) == tree[CHOOSE p \in DOMAIN place : place[p] = x]
<1>11. Applied(tree, place, reference) =
         [x \in Paths |-> IF m[x] = NoFile /\ x \in S THEN Scaffolded ELSE m[x]]
  BY <1>7 DEF Applied, m
<1>12. After(tree, place, reference) =
         [x \in Paths |-> IF x \in O THEN C(x) ELSE IF x \in S THEN Scaffolded ELSE NoFile]
  BY DEF After
<1>13. S \cap O = {} /\ (\A x \in Paths : x \in O => m[x] = C(x)) /\ (\A x \in Paths : x \notin O => m[x] = NoFile)
  BY <1>6, <1>8, <1>9
<1> HIDE DEF S, O, C
<1> QED BY <1>11, <1>12, <1>13

(* A file is moved onto one that is still to move: the last one that has   *)
(* this done to it is not what is found at its place.                      *)
LEMMA OutOfOrder ==
  ASSUME NEW tree, NEW place, NEW reference, Given(tree, place), Overruns(place)
  PROVE  Applied(tree, place, reference) = Refused \/ Twins(tree)
<1> DEFINE R == Renames(place)
           m == Moved(tree, place)
           Late == {q \in R : \E p \in R : p < q /\ place[p] = q}
<1>0. /\ \A q \in R : q \in 0..FileCount /\ q \in Sources /\ tree[q] # NoFile
  BY GivenFacts, MovesAssumption DEF Sources
<1>1. HalfMoved(m, tree, place, FileCount)
  BY LastTurn
<1>2. Late # {} /\ Late \in SUBSET 0..FileCount
  BY <1>0 DEF Overruns
<1>3. PICK q \in Late : \A x \in Late : x <= q
  BY <1>2, GreatestNumber, MovesAssumption
<1>4. q \in R /\ \E p \in R : p < q /\ place[p] = q
  OBVIOUS
<1> HIDE DEF R, m, Late
<1>5. ~(place[q] \in R /\ q < place[q])
  <2>1. place[q] \in R /\ q < place[q] => place[q] \in Late
    BY <1>4 DEF Late
  <2> QED BY <1>0, <1>3, <1>4, <2>1
<1>6. PICK r \in R : m[place[q]] = tree[r] /\ (r = q <=> \A p \in R : p < q => place[p] # q)
  BY <1>0, <1>1, <1>4, <1>5, MovesAssumption DEF HalfMoved, Arrived, R
<1>7. r # q /\ r \in Sources /\ q \in Sources /\ tree[r] # NoFile
  BY <1>0, <1>4, <1>6
<1>8. CASE tree[r] = tree[q]
  BY <1>7, <1>8 DEF Twins
<1>9. CASE tree[r] # tree[q]
  <2>1. ~Verified(tree, m, place)
    BY <1>4, <1>6, <1>7, <1>9 DEF Verified, R
  <2> QED BY <2>1 DEF Applied, m
<1> QED BY <1>8, <1>9

(* apply_import pushes the tree that the gates and the scorecard saw,      *)
(* whatever the repository, its size and the places of its files; or one   *)
(* file was moved onto another that was still to move, and then it refuses *)
(* unless two files are alike.                                             *)
THEOREM ImportsKeepTheTree == AppliedIsPlanned
<1> SUFFICES ASSUME NEW files \in SUBSET Sources, NEW tree \in Repositories(files),
                    NEW outcome \in [files -> (Paths \ {QuarantineOf[p] : p \in Sources}) \cup {Unmapped}],
                    NEW quarantine \in BOOLEAN, NEW reference \in SUBSET Sources,
                    PlanOk(Placed(outcome, quarantine))
             PROVE  LET place == Placed(outcome, quarantine)
                        applied == Applied(tree, place, reference) IN
                    \/ applied = After(tree, place, reference)
                    \/ Overruns(place) /\ (applied = Refused \/ Twins(tree))
  BY DEF AppliedIsPlanned
<1> DEFINE place == Placed(outcome, quarantine)
<1>1. place \in [files -> Paths]
  <2>1. \A p \in files : p \in Sources /\ QuarantineOf[p] \in Paths
    BY MovesAssumption
  <2>2. Sources \subseteq Paths
    BY MovesAssumption DEF Sources, Paths
  <2> QED BY <2>1, <2>2 DEF Placed
<1>2. Given(tree, place)
  BY <1>1 DEF Given
<1> QED BY <1>2, InOrder, OutOfOrder

(* ...and so does every branch that is about to be pushed.                 *)
THEOREM PushesThePlan == Spec => []PushedAsPlanned
<1>1. PushedAsPlanned
  BY ImportsKeepTheTree DEF PushedAsPlanned
<1> QED BY <1>1, PTL
=============================================================================
