--------------------------- MODULE ServiceProofs ----------------------------
(***************************************************************************)
(* What the HTML portal and the JSON APIs answer and change, in every      *)
(* world: whatever is missing of what a handler looks at, however the      *)
(* server and the request are set, and whoever asks.  What a process that  *)
(* starts is promised, whatever its file and its environment say.  What    *)
(* the service catalog shows and says, whatever the registry, the log, the *)
(* checkouts and the readers hold.                                         *)
(*                                                                         *)
(*   EveryWorldAnswers  the eight promises of PortalApi, in every world    *)
(*   SurfacesAnswer     SurfacesHold, before a queue of any size           *)
(*   EveryStartIsSound  an executor for a run, room for it, readers with   *)
(*                      their sources, a hosted process with all it needs  *)
(*   GovernedIsShown    SourcesShown: what is governed anywhere, once      *)
(*   LevelsAreFair      maturity and initiatives, for every rubric         *)
(*   LevelsAreBacked    MaturityIsEarned: what a level says is so          *)
(*                                                                         *)
(* The arguments.  A list of checks stands for a condition (Sound): it is  *)
(* refused, by the first check that fails, just if the condition does not  *)
(* hold.  So a handler is one answer under one condition, and otherwise a  *)
(* refusal that does nothing (Acts); that is worked out once for each      *)
(* handler.  What a single answer promises (Orderly) follows from the      *)
(* answer it gives when it may, and two handlers that answer alike under   *)
(* equivalent conditions do alike (Alike).                                 *)
(*                                                                         *)
(* The catalog is merged from parts: an identifier is left out only when   *)
(* it is taken, first come first served (MergeFacts), and a repository     *)
(* only when an earlier run or the registry has it (AppliedOnce); that     *)
(* there is a first is the least number.  The level of an entity is the    *)
(* greatest of those it reaches without a gap (Judged), and each dimension *)
(* of its card is backed by the source it was read from (Backed).          *)
(***************************************************************************)
EXTENDS MCRunQueue, Integers, WellFoundedInduction, TLAPS

CONSTANT AuditWindow     \* how many audit entries the catalog reads

(* Numbers are well founded, so a set of them has a least one. *)
LEMMA LeastNumber ==
  ASSUME NEW S \in SUBSET Nat, S # {}
  PROVE  \E i \in S : \A j \in S : i <= j
<1>1. PICK i \in S : \A j \in S : ~(<<j, i>> \in OpToRel(<, Nat))
  BY NatLessThanWellFounded, WFMin
<1>2. ASSUME NEW j \in S PROVE i <= j
  <2>1. j < i => <<j, i>> \in OpToRel(<, Nat)
    <3>1. <<j, i>> \in Nat \X Nat
      OBVIOUS
    <3> QED
      BY <3>1 DEF OpToRel
  <2>2. j \in Nat /\ i \in Nat /\ ~(j < i)
    BY <1>1, <2>1
  <2> QED
    BY <2>2
<1> QED
  BY <1>2

-----------------------------------------------------------------------------
(* A world with anything missing, in any modes. *)
AnyWorld == [caller : Callers, lacks : SUBSET Things, mode : SUBSET Modes]

Passed(checks) == \A i \in DOMAIN checks : checks[i][1]

(* No check sends anybody to log in. *)
Plain(checks) == \A i \in DOMAIN checks : checks[i][2] \notin {"401", "login"}

Permits(w, user, allowed) == Has(w, "auth") => user # "nobody" /\ user \in allowed

(* A page that is served, to somebody who may see it. *)
Open(w, allowed) == Has(w, "html") /\ Permits(w, SessionUser(w), allowed)

(* An API request by somebody who may make it. *)
Asks(w, allowed) == Permits(w, AuthenticatedUser(w), allowed)

(* A list of checks that holds just if a condition does. *)
Sound(checks, condition) ==
  /\ condition \in BOOLEAN
  /\ \E T : checks \in Seq(T)
  /\ Plain(checks)
  /\ Passed(checks) <=> condition

(* Under a condition the answer is this one, otherwise a refusal that does *)
(* nothing and sends nobody to log in.                                     *)
Yields(a, condition, answer) ==
  /\ condition => a = answer
  /\ ~condition => a.does = {} /\ a.status \notin {"401", "login"}

(* An answer is this one, or it is a refusal that does nothing; and nobody *)
(* is sent to log in without need.                                         *)
Acts(w, a, condition, answer) ==
  /\ condition => a = answer
  /\ ~condition => a.does = {}
  /\ a.status = "login" => Has(w, "auth")

(* Conditions that some checks are made of. *)
Local(w)           == ~Is(w, "remote")
Shared(w)          == ~Is(w, "worker")
Funded(w)          == Is(w, "dry") \/ Has(w, "token")
Roomy(w)           == Is(w, "repeat") \/ Has(w, "room")
Behind(w)          == Has(w, "target") \/ Has(w, "found")
Named(w, kind)     == kind \in PlatformKinds \/ Has(w, "target")
Supported(w, kind) == kind \notin Configured \/ Has(w, "enabled")

LEMMA Truths ==
  /\ \A w, x : Has(w, x) \in BOOLEAN /\ Is(w, x) \in BOOLEAN
  /\ \A w : /\ Local(w) \in BOOLEAN /\ Shared(w) \in BOOLEAN /\ Funded(w) \in BOOLEAN
            /\ Roomy(w) \in BOOLEAN /\ Behind(w) \in BOOLEAN
  /\ \A w, kind : Named(w, kind) \in BOOLEAN /\ Supported(w, kind) \in BOOLEAN
BY DEF Has, Is, Local, Shared, Funded, Roomy, Behind, Named, Supported

LEMMA CheckedAnswer ==
  ASSUME NEW checks, DOMAIN checks \subseteq Nat, NEW answer
  PROVE  /\ Passed(checks) => Checked(checks, answer) = answer
         /\ ~Passed(checks) => \E i \in DOMAIN checks :
                                 ~checks[i][1] /\ Checked(checks, answer) = Refuse(checks[i][2])
<1> DEFINE failed == {i \in DOMAIN checks : ~checks[i][1]}
           first == CHOOSE i \in failed : \A j \in failed : i <= j
<1>1. failed = {} <=> Passed(checks)
  BY DEF Passed
<1>2. failed # {} => first \in failed
  <2>1. failed # {} => \E i \in failed : \A j \in failed : i <= j
    BY LeastNumber
  <2> QED BY <2>1, Zenon
<1>3. Checked(checks, answer) = IF failed = {} THEN answer ELSE Refuse(checks[first][2])
  BY DEF Checked
<1> HIDE DEF failed, first
<1>4. CASE failed = {}
  BY <1>1, <1>3, <1>4
<1>5. CASE failed # {}
  <2>1. first \in DOMAIN checks /\ ~checks[first][1]
    BY <1>2, <1>5 DEF failed
  <2> QED BY <1>1, <1>3, <1>5, <2>1
<1> QED BY <1>4, <1>5

LEMMA Refusals == \A s : Refuse(s).does = {} /\ Refuse(s).status = s
BY DEF Refuse, Answer

LEMMA Prepended ==
  ASSUME NEW e1, NEW e2, NEW T, NEW checks \in Seq(T)
  PROVE  LET all == <<e1, e2>> \o checks
         IN /\ DOMAIN all = 1..(2 + Len(checks)) /\ Len(checks) \in Nat /\ DOMAIN checks = 1..Len(checks)
            /\ all[1] = e1 /\ all[2] = e2
            /\ \A i \in 3..(2 + Len(checks)) : all[i] = checks[i - 2] /\ i - 2 \in DOMAIN checks
<1>1. /\ <<e1, e2>> \in Seq(T \cup {e1, e2}) /\ checks \in Seq(T \cup {e1, e2})
      /\ Len(<<e1, e2>>) = 2 /\ <<e1, e2>>[1] = e1 /\ <<e1, e2>>[2] = e2
  OBVIOUS
<1> QED BY <1>1

LEMMA Lists ==
  /\ <<>> \in Seq({})
  /\ \A a : <<a>> \in Seq({a})
  /\ \A a, b : <<a, b>> \in Seq({a, b})
  /\ \A a, b, c : <<a, b, c>> \in Seq({a, b, c})
  /\ \A a, b, c, d : <<a, b, c, d>> \in Seq({a, b, c, d})
  /\ \A a, b, c, d, e : <<a, b, c, d, e>> \in Seq({a, b, c, d, e})
  /\ \A a, b, c, d, e, f : <<a, b, c, d, e, f>> \in Seq({a, b, c, d, e, f})
OBVIOUS

LEMMA Unanswered ==
  ASSUME NEW w \in AnyWorld, NEW answer, NEW user, NEW allowed,
         NEW T, NEW checks \in Seq(T), Plain(checks)
  PROVE  LET a == Checked(RequireRole(w, user, allowed) \o checks, answer)
         IN /\ Permits(w, user, allowed) /\ Passed(checks) => a = answer
            /\ ~(Permits(w, user, allowed) /\ Passed(checks)) =>
                  a.does = {} /\ a.status # "login" /\ (a.status = "401" => Has(w, "auth"))
<1> DEFINE known == ~Has(w, "auth") \/ user # "nobody"
           permitted == ~Has(w, "auth") \/ user \in allowed
           all == RequireRole(w, user, allowed) \o checks
           a == Checked(all, answer)
<1>1. all = <<<<known, "401">>, <<permitted, "403">>>> \o checks
  BY DEF RequireRole
<1>2. /\ known \in BOOLEAN /\ permitted \in BOOLEAN
      /\ known /\ permitted <=> Permits(w, user, allowed)
      /\ ~known => Has(w, "auth")
  BY Truths DEF Permits
<1> HIDE DEF known, permitted, all
<1>3. /\ DOMAIN all = 1..(2 + Len(checks)) /\ Len(checks) \in Nat /\ DOMAIN checks = 1..Len(checks)
      /\ all[1] = <<known, "401">> /\ all[2] = <<permitted, "403">>
      /\ \A i \in 3..(2 + Len(checks)) : all[i] = checks[i - 2] /\ i - 2 \in DOMAIN checks
  BY <1>1, Prepended
<1>5. \A i \in DOMAIN checks : checks[i] = all[i + 2] /\ i + 2 \in DOMAIN all
  BY <1>3
<1>6. Passed(all) <=> Permits(w, user, allowed) /\ Passed(checks)
  <2>1. Passed(all) => Passed(checks)
    BY <1>5 DEF Passed
  <2>2. Passed(all) => known /\ permitted
    <3>1. 1 \in DOMAIN all /\ 2 \in DOMAIN all
      BY <1>3
    <3>2. all[1][1] = known /\ all[2][1] = permitted
      BY <1>3
    <3> QED BY <1>2, <3>1, <3>2 DEF Passed
  <2>3. ASSUME known, permitted, Passed(checks), NEW i \in DOMAIN all PROVE all[i][1]
    <3>1. i = 1 \/ i = 2 \/ i \in 3..(2 + Len(checks))
      BY <1>3
    <3>2. all[1][1] /\ all[2][1]
      BY <1>2, <1>3, <2>3
    <3> QED BY <1>3, <2>3, <3>1, <3>2 DEF Passed
  <2> QED BY <1>2, <2>1, <2>2, <2>3 DEF Passed
<1>7. DOMAIN all \subseteq Nat
  BY <1>3
<1>8. ASSUME ~Passed(all)
      PROVE  a.does = {} /\ a.status # "login" /\ (a.status = "401" => Has(w, "auth"))
  <2>1. PICK i \in DOMAIN all : ~all[i][1] /\ a = Refuse(all[i][2])
    BY <1>7, <1>8, CheckedAnswer
  <2>2. a.does = {} /\ a.status = all[i][2]
    BY <2>1, Refusals
  <2>3. i = 1 \/ i = 2 \/ i \in 3..(2 + Len(checks))
    BY <1>3
  <2>4. CASE i = 1
    BY <1>2, <1>3, <2>1, <2>2, <2>4
  <2>5. CASE i = 2
    BY <1>3, <2>2, <2>5
  <2>6. CASE i \in 3..(2 + Len(checks))
    BY <1>3, <2>2, <2>6 DEF Plain
  <2> QED BY <2>3, <2>4, <2>5, <2>6
<1>9. Passed(all) => a = answer
  BY <1>7, CheckedAnswer
<1> QED BY <1>6, <1>8, <1>9 DEF all

LEMMA Sound0 == Sound(<< >>, TRUE)
BY Lists DEF Sound, Plain, Passed

LEMMA Sound1 ==
  ASSUME NEW b1 \in BOOLEAN,
         NEW s1,
         s1 # "401", s1 # "login"
  PROVE  Sound(<<<<b1, s1>>>>, b1)
<1> DEFINE checks == <<<<b1, s1>>>>
<1>1. \E T : checks \in Seq(T)
  BY Lists, Zenon
<1>2. Plain(checks)
  BY DEF Plain
<1>3. Passed(checks) <=> b1
  BY DEF Passed
<1> QED BY <1>1, <1>2, <1>3 DEF Sound

LEMMA Sound2 ==
  ASSUME NEW b1 \in BOOLEAN, NEW b2 \in BOOLEAN,
         NEW s1, NEW s2,
         s1 # "401", s1 # "login", s2 # "401", s2 # "login"
  PROVE  Sound(<<<<b1, s1>>, <<b2, s2>>>>, b1 /\ b2)
<1> DEFINE checks == <<<<b1, s1>>, <<b2, s2>>>>
<1>1. \E T : checks \in Seq(T)
  BY Lists, Zenon
<1>2. Plain(checks)
  BY DEF Plain
<1>3. Passed(checks) <=> b1 /\ b2
  BY DEF Passed
<1> QED BY <1>1, <1>2, <1>3 DEF Sound

LEMMA Sound3 ==
  ASSUME NEW b1 \in BOOLEAN, NEW b2 \in BOOLEAN, NEW b3 \in BOOLEAN,
         NEW s1, NEW s2, NEW s3,
         s1 # "401", s1 # "login", s2 # "401", s2 # "login", s3 # "401", s3 # "login"
  PROVE  Sound(<<<<b1, s1>>, <<b2, s2>>, <<b3, s3>>>>, b1 /\ b2 /\ b3)
<1> DEFINE checks == <<<<b1, s1>>, <<b2, s2>>, <<b3, s3>>>>
<1>1. \E T : checks \in Seq(T)
  BY Lists, Zenon
<1>2. Plain(checks)
  BY DEF Plain
<1>3. Passed(checks) <=> b1 /\ b2 /\ b3
  BY DEF Passed
<1> QED BY <1>1, <1>2, <1>3 DEF Sound

LEMMA Sound4 ==
  ASSUME NEW b1 \in BOOLEAN, NEW b2 \in BOOLEAN, NEW b3 \in BOOLEAN, NEW b4 \in BOOLEAN,
         NEW s1, NEW s2, NEW s3, NEW s4,
         s1 # "401", s1 # "login", s2 # "401", s2 # "login", s3 # "401", s3 # "login",
         s4 # "401", s4 # "login"
  PROVE  Sound(<<<<b1, s1>>, <<b2, s2>>, <<b3, s3>>, <<b4, s4>>>>, b1 /\ b2 /\ b3 /\ b4)
<1> DEFINE checks == <<<<b1, s1>>, <<b2, s2>>, <<b3, s3>>, <<b4, s4>>>>
<1>1. \E T : checks \in Seq(T)
  BY Lists, Zenon
<1>2. Plain(checks)
  BY DEF Plain
<1>3. Passed(checks) <=> b1 /\ b2 /\ b3 /\ b4
  BY DEF Passed
<1> QED BY <1>1, <1>2, <1>3 DEF Sound

LEMMA Joined ==
  ASSUME NEW a, NEW b, NEW c, NEW d, Sound(a, c), Sound(b, d)
  PROVE  Sound(a \o b, c /\ d)
<1>1. PICK S : a \in Seq(S)
  BY DEF Sound
<1>2. PICK T : b \in Seq(T)
  BY DEF Sound
<1>3. a \in Seq(S \cup T) /\ b \in Seq(S \cup T)
  BY <1>1, <1>2
<1> DEFINE all == a \o b
<1>4. /\ all \in Seq(S \cup T) /\ Len(a) \in Nat /\ Len(b) \in Nat
      /\ DOMAIN a = 1..Len(a) /\ DOMAIN b = 1..Len(b) /\ DOMAIN all = 1..(Len(a) + Len(b))
      /\ \A i \in 1..Len(a) : all[i] = a[i]
      /\ \A i \in (Len(a) + 1)..(Len(a) + Len(b)) : all[i] = b[i - Len(a)]
  BY <1>3
<1> HIDE DEF all
<1>5. \A i \in DOMAIN b : i + Len(a) \in DOMAIN all /\ all[i + Len(a)] = b[i]
  BY <1>4
<1>6. \A i \in DOMAIN all : \/ i \in DOMAIN a /\ all[i] = a[i]
                            \/ i - Len(a) \in DOMAIN b /\ all[i] = b[i - Len(a)]
  BY <1>4
<1>7. \A i \in DOMAIN a : i \in DOMAIN all /\ all[i] = a[i]
  BY <1>4
<1>8. Passed(all) <=> Passed(a) /\ Passed(b)
  <2>1. Passed(all) => Passed(a)
    BY <1>7 DEF Passed
  <2>2. Passed(all) => Passed(b)
    BY <1>5 DEF Passed
  <2>3. Passed(a) /\ Passed(b) => Passed(all)
    BY <1>6 DEF Passed
  <2> QED BY <2>1, <2>2, <2>3
<1>9. Plain(all)
  BY <1>6 DEF Plain, Sound
<1> QED BY <1>4, <1>8, <1>9 DEF Sound, all

LEMMA Tried ==
  ASSUME NEW checks, NEW condition, Sound(checks, condition), NEW answer
  PROVE  Yields(Checked(checks, answer), condition, answer)
<1>1. DOMAIN checks \subseteq Nat
  BY DEF Sound
<1>2. condition => Checked(checks, answer) = answer
  BY <1>1, CheckedAnswer DEF Sound
<1>3. ASSUME ~condition
      PROVE  Checked(checks, answer).does = {} /\ Checked(checks, answer).status \notin {"401", "login"}
  <2>1. PICK i \in DOMAIN checks : Checked(checks, answer) = Refuse(checks[i][2])
    BY <1>1, <1>3, CheckedAnswer DEF Sound
  <2>2. checks[i][2] \notin {"401", "login"}
    BY DEF Sound, Plain
  <2> QED BY <2>1, <2>2, Refusals
<1> QED BY <1>2, <1>3 DEF Yields

(* Pages and API answers, in terms of what they answer when nothing fails. *)
LEMMA PageActs ==
  ASSUME NEW w \in AnyWorld, NEW allowed \in SUBSET Everyone, NEW answer, answer.status \notin {"401", "login"},
         NEW checks, NEW condition, Sound(checks, condition)
  PROVE  Acts(w, Served(w, Checked(Required(w, allowed) \o checks, answer)), Open(w, allowed) /\ condition, answer)
<1> DEFINE a == Checked(Required(w, allowed) \o checks, answer)
           permits == Permits(w, SessionUser(w), allowed)
<1>1. /\ permits /\ condition => a = answer
      /\ ~(permits /\ condition) =>
            a.does = {} /\ a.status # "login" /\ (a.status = "401" => Has(w, "auth"))
  BY Unanswered DEF Required, Sound
<1>2. permits => ~(Has(w, "auth") /\ AuthenticatedUser(w) = "nobody")
  BY DEF Permits, SessionUser, AuthenticatedUser
<1> HIDE DEF a, permits
<1>3. Served(w, a) = IF Has(w, "auth") /\ AuthenticatedUser(w) = "nobody" THEN Refuse("login")
                     ELSE IF ~Has(w, "html") THEN Refuse("410")
                     ELSE IF a.status = "401" THEN Refuse("login") ELSE a
  BY DEF Served
<1>4. Acts(w, Served(w, a), Has(w, "html") /\ permits /\ condition, answer)
  BY <1>1, <1>2, <1>3, Refusals DEF Acts
<1> QED BY <1>4 DEF a, permits, Open, Acts

LEMMA ApiActs ==
  ASSUME NEW w \in AnyWorld, NEW allowed \in SUBSET Everyone, NEW answer, answer.status # "login",
         NEW checks, NEW condition, Sound(checks, condition)
  PROVE  Acts(w, Api(w, allowed, checks, answer), Asks(w, allowed) /\ condition, answer)
BY Unanswered DEF Api, Acts, Sound, Asks

-----------------------------------------------------------------------------
(* A form asks what its request would, and carries no request id. *)

Asked(w) == [Form(w) EXCEPT !.lacks = @ \ {"valid"}]

LEMMA FormFacts ==
  ASSUME NEW w \in AnyWorld
  PROVE  /\ \A x : Has(Form(w), x) = Has(w, x)
         /\ \A x : x # "valid" => Has(Asked(w), x) = Has(w, x)
         /\ Has(Asked(w), "valid")
         /\ ~Is(Form(w), "repeat") /\ ~Is(Asked(w), "repeat")
         /\ \A k : QueuedRun(Form(w), k) = QueuedRun(w, k) /\ QueuedRun(Asked(w), k) = QueuedRun(w, k)
<1>1. Form(w).lacks = w.lacks /\ Form(w).mode = w.mode \ {"repeat"}
  BY DEF Form, AnyWorld
<1>2. Asked(w).lacks = w.lacks \ {"valid"} /\ Asked(w).mode = w.mode \ {"repeat"}
  BY DEF Form, Asked, AnyWorld
<1>3. (Is(Form(w), "dry") <=> Is(w, "dry")) /\ (Is(Asked(w), "dry") <=> Is(w, "dry"))
  BY <1>1, <1>2 DEF Is
<1>4. \A k : QueuedRun(Form(w), k) = QueuedRun(w, k) /\ QueuedRun(Asked(w), k) = QueuedRun(w, k)
  BY <1>3 DEF QueuedRun
<1> QED BY <1>1, <1>2, <1>4 DEF Has, Is

LEMMA SubmittedYields ==
  ASSUME NEW w, NEW kind, NEW ok, NEW statuses,
         statuses.invalid \notin {"401", "login"}, statuses.closing \notin {"401", "login"},
         statuses.full \notin {"401", "login"}
  PROVE  Yields(Submitted(w, kind, ok, statuses), Has(w, "valid") /\ Has(w, "accepting") /\ Roomy(w),
                Answer(ok, IF Is(w, "repeat") THEN {} ELSE {QueuedRun(w, kind)}))
<1>1. Sound(<<<<Has(w, "valid"), statuses.invalid>>, <<Has(w, "accepting"), statuses.closing>>,
              <<Roomy(w), statuses.full>>>>, Has(w, "valid") /\ Has(w, "accepting") /\ Roomy(w))
  BY Truths, Sound3
<1> QED BY <1>1, Tried, Zenon DEF Submitted, Roomy

LEMMA FormYields ==
  ASSUME NEW w \in AnyWorld, NEW kind
  PROVE  LET answer == Answer("303", {QueuedRun(w, kind)})
             room == Has(w, "accepting") /\ Has(w, "room")
         IN /\ Yields(SubmittedForm(w, kind), Has(w, "valid") /\ room, answer)
            /\ Yields(Submitted(Form(w), kind, "202", Caught), Has(w, "valid") /\ room,
                      Answer("202", {QueuedRun(w, kind)}))
            /\ Yields(Submitted(Asked(w), kind, "303", Caught), room, answer)
            /\ Yields(Submitted(Asked(w), kind, "303", Uncaught), room, answer)
<1>1. \A st \in {Caught, Uncaught} : /\ st.invalid \notin {"401", "login"} /\ st.closing \notin {"401", "login"}
                                     /\ st.full \notin {"401", "login"}
  BY DEF Caught, Uncaught
<1>2. \A ok : Yields(Submitted(Form(w), kind, ok, Caught), Has(Form(w), "valid") /\ Has(Form(w), "accepting")
        /\ Roomy(Form(w)),
                Answer(ok, IF Is(Form(w), "repeat") THEN {} ELSE {QueuedRun(Form(w), kind)}))
  BY <1>1, SubmittedYields
<1>3. /\ Yields(Submitted(Asked(w), kind, "303", Caught), Has(Asked(w), "valid") /\ Has(Asked(w), "accepting")
        /\ Roomy(Asked(w)),
                Answer("303", IF Is(Asked(w), "repeat") THEN {} ELSE {QueuedRun(Asked(w), kind)}))
      /\ Yields(Submitted(Asked(w), kind, "303", Uncaught), Has(Asked(w), "valid") /\ Has(Asked(w), "accepting")
              /\ Roomy(Asked(w)),
                Answer("303", IF Is(Asked(w), "repeat") THEN {} ELSE {QueuedRun(Asked(w), kind)}))
  BY <1>1, SubmittedYields
<1>4. /\ Has(Form(w), "valid") /\ Has(Form(w), "accepting") /\ Roomy(Form(w)) <=> Has(w, "valid") /\ Has(w, "accepting") /\ Has(w, "room")
      /\ Has(Asked(w), "valid") /\ Has(Asked(w), "accepting") /\ Roomy(Asked(w)) <=> Has(w, "accepting") /\ Has(w, "room")
  BY FormFacts DEF Roomy
<1>5. \A ok : Yields(Submitted(Form(w), kind, ok, Caught), Has(w, "valid") /\ Has(w, "accepting") /\ Has(w, "room"),
                Answer(ok, {QueuedRun(w, kind)}))
  BY <1>2, <1>4, FormFacts DEF Yields
<1> QED BY <1>3, <1>4, <1>5, FormFacts DEF Yields, SubmittedForm


-----------------------------------------------------------------------------
(* What is promised of every single answer. *)

Orderly(w, a) ==
  /\ Is(w, "worker") => a.does \cap Executions = {}
  /\ RefusedByQueue(w) => Queued(a.does) = {}
  /\ a.status \in Errors /\ a.does # {} =>
       a.does \subseteq Halfway /\ (~Has(w, "last") \/ ~Has(w, "git") \/ Is(w, "push"))
  /\ Has(w, "auth") => /\ w.caller = "nobody" => a.does = {}
                       /\ w.caller = "viewer" => a.does \subseteq {<<"gates run">>}
  /\ a.status = "login" => Has(w, "auth")

(* The effects that neither execute nor queue anything. *)
Unqueued ==
  {<<"gates run">>, <<"branch pushed">>, <<"request opened">>, <<"registered">>, <<"committed">>,
   <<"recorded">>, <<"files rewritten">>, <<"replayed">>, <<"recovered">>, <<"metrics kept">>,
   <<"fleet", "added">>, <<"fleet", "removed">>, <<"campaign", "paused">>, <<"initiative", "written">>,
   <<"feedback", "kept">>, <<"reclaimed", "environments">>, <<"reclaimed", "components">>}

LEMMA QuietEffects == \A e \in Unqueued : e \notin Executions /\ e[1] # "queued"
<1>1. \A e \in Unqueued : e[1] # "queued" /\ e[1] # "executed"
  <2> TAKE e \in Unqueued
  <2>1. CASE e \in {<<"gates run">>, <<"branch pushed">>, <<"request opened">>, <<"registered">>, <<"committed">>,
                    <<"recorded">>, <<"files rewritten">>, <<"replayed">>, <<"recovered">>, <<"metrics kept">>}
    <3>1. \A s : <<s>>[1] = s
      OBVIOUS
    <3>2. e[1] \in {"gates run", "branch pushed", "request opened", "registered", "committed", "recorded",
                    "files rewritten", "replayed", "recovered", "metrics kept"}
      BY <2>1, <3>1, Zenon
    <3> QED BY <3>2
  <2>2. CASE e \in {<<"fleet", "added">>, <<"fleet", "removed">>, <<"campaign", "paused">>,
          <<"initiative", "written">>,
                    <<"feedback", "kept">>, <<"reclaimed", "environments">>, <<"reclaimed", "components">>}
    BY <2>2
  <2> QED BY <2>1, <2>2 DEF Unqueued
<1>2. \A e \in Executions : e[1] = "executed"
  BY DEF Executions
<1> QED BY <1>1, <1>2

LEMMA QueuedEffects == \A w, kind : QueuedRun(w, kind) \notin Executions /\ Executed(w)[1] # "queued"
<1>1. \A w, kind : QueuedRun(w, kind)[1] = "queued"
  BY DEF QueuedRun
<1>2. \A e \in Executions : e[1] = "executed"
  BY DEF Executions
<1>3. \A w : Executed(w)[1] = "executed"
  BY DEF Executed
<1> QED BY <1>1, <1>2, <1>3

LEMMA Permitted ==
  ASSUME NEW w \in AnyWorld, NEW allowed \in {Everyone, Generators, Admins},
         Open(w, allowed) \/ Asks(w, allowed), Has(w, "auth")
  PROVE  w.caller # "nobody" /\ (w.caller = "viewer" => allowed = Everyone)
<1>1. w.caller \in Callers
  BY DEF AnyWorld
<1> QED BY <1>1 DEF Open, Asks, Permits, AuthenticatedUser, SessionUser, Callers, Everyone, Generators, Admins

(* An answer that succeeds quietly. *)
LEMMA QuietAnswer ==
  ASSUME NEW w \in AnyWorld, NEW allowed \in {Generators, Admins}, NEW a, NEW condition \in BOOLEAN, NEW answer,
         \/ Acts(w, a, Open(w, allowed) /\ condition, answer)
         \/ Acts(w, a, Asks(w, allowed) /\ condition, answer),
         answer.does \subseteq Unqueued,
         condition /\ answer.status \in Errors /\ answer.does # {} =>
           answer.does \subseteq Halfway /\ (~Has(w, "last") \/ ~Has(w, "git") \/ Is(w, "push"))
  PROVE  Orderly(w, a)
<1>1. Generators # Everyone /\ Admins # Everyone
  BY DEF Generators, Admins, Everyone
<1>2. answer.does \cap Executions = {} /\ Queued(answer.does) = {}
  BY QuietEffects DEF Queued
<1>3. a.does = answer.does \/ a.does = {}
  BY DEF Acts
<1>4. a.does \cap Executions = {} /\ Queued(a.does) = {}
  BY <1>2, <1>3 DEF Queued
<1>5. a.does # {} /\ Has(w, "auth") => w.caller # "nobody" /\ w.caller # "viewer"
  BY <1>1, Permitted DEF Acts
<1>6. a.does # {} => condition /\ a = answer
  BY DEF Acts
<1>7. a.status = "login" => Has(w, "auth")
  BY DEF Acts
<1> QED BY <1>4, <1>5, <1>6, <1>7 DEF Orderly

(* An answer that only has gates run. *)
LEMMA GatesAnswer ==
  ASSUME NEW w \in AnyWorld, NEW allowed \in {Everyone, Generators, Admins}, NEW a, NEW condition \in BOOLEAN,
         NEW answer,
         \/ Acts(w, a, Open(w, allowed) /\ condition, answer)
         \/ Acts(w, a, Asks(w, allowed) /\ condition, answer),
         answer.does = {<<"gates run">>}, answer.status \notin Errors
  PROVE  Orderly(w, a)
<1>2. answer.does \cap Executions = {} /\ Queued(answer.does) = {}
  BY QuietEffects DEF Queued, Unqueued
<1>3. a.does = answer.does \/ a.does = {}
  BY DEF Acts
<1>4. a.does \cap Executions = {} /\ Queued(a.does) = {}
  BY <1>2, <1>3 DEF Queued
<1>5. a.does # {} /\ Has(w, "auth") => w.caller # "nobody"
  BY Permitted DEF Acts
<1>6. a.does # {} => a = answer
  BY DEF Acts
<1>7. a.status = "login" => Has(w, "auth")
  BY DEF Acts
<1> QED BY <1>3, <1>4, <1>5, <1>6, <1>7 DEF Orderly

(* An answer that queues a run the queue takes. *)
LEMMA QueuedAnswer ==
  ASSUME NEW w \in AnyWorld, NEW allowed \in {Generators, Admins}, NEW a, NEW condition \in BOOLEAN, NEW answer,
         NEW kind,
         \/ Acts(w, a, Open(w, allowed) /\ condition, answer)
         \/ Acts(w, a, Asks(w, allowed) /\ condition, answer),
         answer.does \subseteq {QueuedRun(w, kind)}, answer.status \notin Errors,
         condition /\ answer.does # {} => ~RefusedByQueue(w)
  PROVE  Orderly(w, a)
<1>1. Generators # Everyone /\ Admins # Everyone
  BY DEF Generators, Admins, Everyone
<1>2. answer.does \cap Executions = {}
  BY QueuedEffects
<1>3. a.does = answer.does \/ a.does = {}
  BY DEF Acts
<1>4. a.does \cap Executions = {}
  BY <1>2, <1>3
<1>5. a.does # {} /\ Has(w, "auth") => w.caller # "nobody" /\ w.caller # "viewer"
  BY <1>1, Permitted DEF Acts
<1>6. a.does # {} => condition /\ a = answer
  BY DEF Acts
<1>7. a.status = "login" => Has(w, "auth")
  BY DEF Acts
<1>8. RefusedByQueue(w) => Queued(a.does) = {}
  BY <1>6 DEF Queued
<1> QED BY <1>4, <1>5, <1>6, <1>7, <1>8 DEF Orderly

-----------------------------------------------------------------------------
(* What every handler answers, and when. *)

BatchImported(w) == IF Has(w, "plan") /\ Has(w, "valid") THEN Imported(w, "200", "200") ELSE Shown

LEMMA Roles == Everyone \in SUBSET Everyone /\ Generators \in SUBSET Everyone /\ Admins \in SUBSET Everyone
BY DEF Everyone, Generators, Admins

LEMMA Answered ==
  /\ \A s, d : Answer(s, d).status = s /\ Answer(s, d).does = d
  /\ \A s \in {"200", "201", "202", "303", "400", "422", "500"} : s \notin {"401", "login"}
  /\ \A d : /\ Answer("200", d).status \notin {"401", "login"} /\ Answer("201", d).status \notin {"401", "login"}
            /\ Answer("202", d).status \notin {"401", "login"} /\ Answer("303", d).status \notin {"401", "login"}
  /\ Shown.does = {} /\ Shown.status = "200"
BY DEF Answer, Shown, Refuse

LEMMA MixedAnswers ==
  ASSUME NEW w
  PROVE  /\ Imported(w, "200", "200").status = "200"
         /\ Imported(w, "200", "400").status = IF Has(w, "last") THEN "200" ELSE "400"
         /\ \A f : Imported(w, "200", f).does = IF Has(w, "last")
                     THEN {<<"branch pushed">>, <<"request opened">>, <<"registered">>} ELSE {<<"branch pushed">>}
         /\ \A s : Added(w, s) = IF Has(w, "git") /\ Has(w, "last")
                     THEN Answer(s, {<<"committed">>, <<"recorded">>}) ELSE Answer("500", {<<"files rewritten">>})
         /\ BatchImported(w).status = "200"
         /\ BatchImported(w).does = IF Has(w, "plan") /\ Has(w, "valid") THEN Imported(w, "200", "200").does ELSE {}
<1>1. Imported(w, "200", "200").status = "200"
  BY Answered DEF Imported
<1> QED BY <1>1, Answered DEF Imported, Added, BatchImported

LEMMA MixedStatuses ==
  ASSUME NEW w
  PROVE  /\ Imported(w, "200", "200").status \notin {"401", "login"} /\ Imported(w, "200", "400").status \notin {"401", "login"}
         /\ Added(w, "200").status \notin {"401", "login"} /\ Added(w, "303").status \notin {"401", "login"}
         /\ BatchImported(w).status \notin {"401", "login"}
<1>1. Added(w, "200").status \in {"200", "500"} /\ Added(w, "303").status \in {"303", "500"}
  BY DEF Added, Answer
<1> QED BY <1>1, MixedAnswers

LEMMA RunPages ==
  ASSUME NEW w \in AnyWorld
  PROVE  /\ Acts(w, ReplayRun(w), Open(w, Admins) /\ (Has(w, "queue") /\ Has(w, "found") /\ Has(w, "valid")),
                 Answer("303", {<<"replayed">>}))
         /\ Acts(w, ApiReplay(w), Asks(w, Admins) /\ (Has(w, "queue") /\ Has(w, "found") /\ Has(w, "valid")),
                 Answer("202", {<<"replayed">>}))
<1>1. Acts(w, ReplayRun(w), Open(w, Admins) /\ (Has(w, "queue") /\ Has(w, "found") /\ Has(w, "valid")),
           Answer("303", {<<"replayed">>}))
  <2>1. Sound(<<<<Has(w, "queue"), "503">>, <<Has(w, "found"), "404">>, <<Has(w, "valid"), "400">>>>,
             Has(w, "queue") /\ Has(w, "found") /\ Has(w, "valid"))
    BY SMTT(30), Truths, Sound3
  <2> QED BY <2>1, Roles, PageActs, Answered, Zenon DEF ReplayRun
<1>2. Acts(w, ApiReplay(w), Asks(w, Admins) /\ (Has(w, "queue") /\ Has(w, "found") /\ Has(w, "valid")),
           Answer("202", {<<"replayed">>}))
  <2> DEFINE c == Has(w, "queue") /\ Has(w, "found")
  <2>1. Sound(RunChecks(w), c)
    BY Truths, Sound2 DEF RunChecks
  <2>2. Sound(<<<<Has(w, "valid"), "400">>>>, Has(w, "valid"))
    BY Truths, Sound1
  <2>3. Answer("202", {<<"replayed">>}).status \notin {"401", "login"}
    BY Answered, MixedStatuses
  <2> HIDE DEF c
  <2>4. Sound(RunChecks(w) \o <<<<Has(w, "valid"), "400">>>>, c /\ Has(w, "valid"))
    BY <2>1, <2>2, Joined
  <2>5. Acts(w, ApiReplay(w), Asks(w, Admins) /\ (c /\ Has(w, "valid")), Answer("202", {<<"replayed">>}))
    BY <2>3, <2>4, Roles, ApiActs, Zenon DEF ApiReplay
  <2> QED BY <2>5 DEF c, Acts
<1> QED BY <1>1, <1>2

LEMMA ComponentSound ==
  ASSUME NEW w
  PROVE  Sound(ComponentChecks(w),
               Has(w, "body") /\ Has(w, "target") /\ Local(w) /\ Has(w, "found") /\ Has(w, "valid"))
<1> DEFINE checks == <<<<Has(w, "body"), "400">>, <<Has(w, "target"), "400">>, <<Local(w), "400">>,
                       <<Has(w, "found"), "409">>, <<Has(w, "valid"), "400">>>>
           c == Has(w, "body") /\ Has(w, "target") /\ Local(w) /\ Has(w, "found") /\ Has(w, "valid")
<1>1. \E T : checks \in Seq(T)
  BY Lists, Zenon
<1>2. Plain(checks) /\ (Passed(checks) <=> c)
  BY DEF Plain, Passed
<1> QED BY <1>1, <1>2 DEF Sound, ComponentChecks, Local

LEMMA UpdateActs ==
  ASSUME NEW w \in AnyWorld
  PROVE  /\ Acts(w, PlanUpdate(w), Open(w, Generators) /\ (Has(w, "target") /\ Local(w) /\ Has(w, "valid")),
                 Answer("200", {<<"gates run">>}))
         /\ Acts(w, ApiPlanUpgrade(w), Asks(w, Generators) /\ (Has(w, "body") /\ Has(w, "target") /\ Has(w, "valid")),
                 Answer("200", {<<"gates run">>}))
         /\ Acts(w, PlanImport(w), Open(w, Generators) /\ (Has(w, "target") /\ Has(w, "plan") /\ Has(w, "valid")),
                 Answer("200", {<<"gates run">>}))
         /\ Acts(w, ApiPlanImport(w), Asks(w, Generators) /\ (Has(w, "body") /\ Has(w, "target")
                 /\ Has(w, "plan") /\ Has(w, "valid")),
                 Answer("200", {<<"gates run">>}))
         /\ Acts(w, ApplyImport(w), Open(w, Generators) /\ (Has(w, "token") /\ Has(w, "target")
                 /\ Has(w, "plan") /\ Has(w, "valid")),
                 Imported(w, "200", "200"))
         /\ Acts(w, ApiApplyImport(w), Asks(w, Generators) /\ (Has(w, "body") /\ Has(w, "target")
                 /\ Has(w, "token") /\ Has(w, "plan") /\ Has(w, "valid")),
                 Imported(w, "200", "400"))
         /\ Acts(w, PlanBatch(w), Open(w, Generators) /\ (Has(w, "body") /\ Has(w, "target")),
                 Answer("200", {<<"gates run">>}))
         /\ Acts(w, ApiPlanBatch(w), Asks(w, Generators) /\ (Has(w, "body") /\ Has(w, "target")),
                 Answer("200", {<<"gates run">>}))
         /\ Acts(w, ApplyBatch(w), Open(w, Generators) /\ (Has(w, "token") /\ Has(w, "body") /\ Has(w, "target")),
                 BatchImported(w))
         /\ Acts(w, ApiApplyBatch(w), Asks(w, Generators) /\ (Has(w, "body") /\ Has(w, "token") /\ Has(w, "target")),
                 BatchImported(w))
         /\ Acts(w, Verify(w), Open(w, Everyone) /\ (Has(w, "target") /\ Has(w, "valid")),
                 Answer("200", {<<"gates run">>}))
         /\ Acts(w, ApiVerify(w), Asks(w, Everyone) /\ (Has(w, "body") /\ Has(w, "target") /\ Has(w, "valid")),
                 Answer(IF Has(w, "plan") THEN "200" ELSE "422", {<<"gates run">>}))
         /\ Acts(w, ApiApplyComponent(w), Asks(w, Generators) /\ (Has(w, "body") /\ Has(w, "target") /\ Local(w)
                 /\ Has(w, "found") /\ Has(w, "valid") /\ Has(w, "plan")),
                 Added(w, "200"))
<1>1. Acts(w, PlanUpdate(w), Open(w, Generators) /\ (Has(w, "target") /\ Local(w) /\ Has(w, "valid")),
           Answer("200", {<<"gates run">>}))
  <2>1. Sound(<<<<Has(w, "target"), "200">>, <<Local(w), "200">>, <<Has(w, "valid"), "200">>>>,
             Has(w, "target") /\ Local(w) /\ Has(w, "valid"))
    BY SMTT(30), Truths, Sound3
  <2> QED BY <2>1, Roles, PageActs, Answered, Zenon DEF PlanUpdate, Local
<1>2. Acts(w, ApiPlanUpgrade(w), Asks(w, Generators) /\ (Has(w, "body") /\ Has(w, "target") /\ Has(w, "valid")),
           Answer("200", {<<"gates run">>}))
  <2>1. Sound(<<<<Has(w, "body"), "400">>, <<Has(w, "target"), "400">>, <<Has(w, "valid"), "400">>>>,
             Has(w, "body") /\ Has(w, "target") /\ Has(w, "valid"))
    BY SMTT(30), Truths, Sound3
  <2> QED BY <2>1, Roles, ApiActs, Answered, Zenon DEF ApiPlanUpgrade
<1>3. Acts(w, PlanImport(w), Open(w, Generators) /\ (Has(w, "target") /\ Has(w, "plan") /\ Has(w, "valid")),
           Answer("200", {<<"gates run">>}))
  <2>1. Sound(<<<<Has(w, "target"), "200">>, <<Has(w, "plan"), "200">>, <<Has(w, "valid"), "200">>>>,
             Has(w, "target") /\ Has(w, "plan") /\ Has(w, "valid"))
    BY SMTT(30), Truths, Sound3
  <2> QED BY <2>1, Roles, PageActs, Answered, Zenon DEF PlanImport
<1>4. Acts(w, ApiPlanImport(w), Asks(w, Generators) /\ (Has(w, "body") /\ Has(w, "target") /\ Has(w, "plan")
        /\ Has(w, "valid")),
           Answer("200", {<<"gates run">>}))
  <2>1. Sound(<<<<Has(w, "body"), "400">>, <<Has(w, "target"), "400">>, <<Has(w, "plan"), "409">>,
               <<Has(w, "valid"), "400">>>>,
             Has(w, "body") /\ Has(w, "target") /\ Has(w, "plan") /\ Has(w, "valid"))
    BY SMTT(30), Truths, Sound4
  <2> QED BY <2>1, Roles, ApiActs, Answered, Zenon DEF ApiPlanImport
<1>5. Acts(w, ApplyImport(w), Open(w, Generators) /\ (Has(w, "token") /\ Has(w, "target") /\ Has(w, "plan")
        /\ Has(w, "valid")),
           Imported(w, "200", "200"))
  <2>1. Sound(<<<<Has(w, "token"), "200">>, <<Has(w, "target"), "200">>, <<Has(w, "plan"), "200">>,
               <<Has(w, "valid"), "200">>>>,
             Has(w, "token") /\ Has(w, "target") /\ Has(w, "plan") /\ Has(w, "valid"))
    BY SMTT(30), Truths, Sound4
  <2> QED BY <2>1, Roles, PageActs, MixedStatuses, Zenon DEF ApplyImport
<1>6. Acts(w, ApiApplyImport(w), Asks(w, Generators) /\ (Has(w, "body") /\ Has(w, "target") /\ Has(w, "token")
        /\ Has(w, "plan") /\ Has(w, "valid")),
           Imported(w, "200", "400"))
  <2> DEFINE checks == <<<<Has(w, "body"), "400">>, <<Has(w, "target"), "400">>, <<Has(w, "token"), "400">>,
                       <<Has(w, "plan"), "409">>, <<Has(w, "valid"), "400">>>>
  <2>1. \E T : checks \in Seq(T)
    BY Lists, Zenon
  <2>2. Plain(checks) /\ (Passed(checks) <=> Has(w, "body") /\ Has(w, "target") /\ Has(w, "token")
          /\ Has(w, "plan") /\ Has(w, "valid"))
    BY DEF Plain, Passed
  <2>3. Sound(checks, Has(w, "body") /\ Has(w, "target") /\ Has(w, "token") /\ Has(w, "plan") /\ Has(w, "valid"))
    BY <2>1, <2>2 DEF Sound
  <2> QED BY <2>3, Roles, ApiActs, MixedStatuses, Zenon DEF ApiApplyImport
<1>7. Acts(w, PlanBatch(w), Open(w, Generators) /\ (Has(w, "body") /\ Has(w, "target")),
           Answer("200", {<<"gates run">>}))
  <2>1. Sound(<<<<Has(w, "body"), "200">>, <<Has(w, "target"), "200">>>>, Has(w, "body") /\ Has(w, "target"))
    BY Truths, Sound2
  <2> QED BY <2>1, Roles, PageActs, Answered, Zenon DEF PlanBatch
<1>8. Acts(w, ApiPlanBatch(w), Asks(w, Generators) /\ (Has(w, "body") /\ Has(w, "target")),
           Answer("200", {<<"gates run">>}))
  <2>1. Sound(<<<<Has(w, "body"), "400">>, <<Has(w, "target"), "400">>>>, Has(w, "body") /\ Has(w, "target"))
    BY Truths, Sound2
  <2> QED BY <2>1, Roles, ApiActs, Answered, Zenon DEF ApiPlanBatch
<1>9. Acts(w, ApplyBatch(w), Open(w, Generators) /\ (Has(w, "token") /\ Has(w, "body") /\ Has(w, "target")),
           BatchImported(w))
  <2>1. Sound(<<<<Has(w, "token"), "200">>, <<Has(w, "body"), "200">>, <<Has(w, "target"), "200">>>>,
             Has(w, "token") /\ Has(w, "body") /\ Has(w, "target"))
    BY SMTT(30), Truths, Sound3
  <2> QED BY <2>1, Roles, PageActs, MixedStatuses, Zenon DEF ApplyBatch, BatchImported
<1>10. Acts(w, ApiApplyBatch(w), Asks(w, Generators) /\ (Has(w, "body") /\ Has(w, "token") /\ Has(w, "target")),
            BatchImported(w))
  <2>1. Sound(<<<<Has(w, "body"), "400">>, <<Has(w, "token"), "400">>, <<Has(w, "target"), "400">>>>,
             Has(w, "body") /\ Has(w, "token") /\ Has(w, "target"))
    BY SMTT(30), Truths, Sound3
  <2> QED BY <2>1, Roles, ApiActs, MixedStatuses, Zenon DEF ApiApplyBatch, BatchImported
<1>11. Acts(w, Verify(w), Open(w, Everyone) /\ (Has(w, "target") /\ Has(w, "valid")),
            Answer("200", {<<"gates run">>}))
  <2>1. Sound(<<<<Has(w, "target"), "200">>, <<Has(w, "valid"), "200">>>>, Has(w, "target") /\ Has(w, "valid"))
    BY Truths, Sound2
  <2> QED BY <2>1, Roles, PageActs, Answered, Zenon DEF Verify
<1>12. Acts(w, ApiVerify(w), Asks(w, Everyone) /\ (Has(w, "body") /\ Has(w, "target") /\ Has(w, "valid")),
            Answer(IF Has(w, "plan") THEN "200" ELSE "422", {<<"gates run">>}))
  <2>1. Answer(IF Has(w, "plan") THEN "200" ELSE "422", {<<"gates run">>}).status \notin {"401", "login"}
    BY Answered
  <2>2. Sound(<<<<Has(w, "body"), "400">>, <<Has(w, "target"), "400">>, <<Has(w, "valid"), "400">>>>,
             Has(w, "body") /\ Has(w, "target") /\ Has(w, "valid"))
    BY SMTT(30), Truths, Sound3
  <2> QED BY <2>1, <2>2, Roles, ApiActs, Zenon DEF ApiVerify
<1>13. Acts(w, ApiApplyComponent(w), Asks(w, Generators) /\ (Has(w, "body") /\ Has(w, "target") /\ Local(w)
        /\ Has(w, "found") /\ Has(w, "valid") /\ Has(w, "plan")),
            Added(w, "200"))
  <2> DEFINE c == Has(w, "body") /\ Has(w, "target") /\ Local(w) /\ Has(w, "found") /\ Has(w, "valid")
  <2>1. Sound(ComponentChecks(w), c)
    BY ComponentSound
  <2>2. Sound(<<<<Has(w, "plan"), "409">>>>, Has(w, "plan"))
    BY Truths, Sound1
  <2>3. Added(w, "200").status \notin {"401", "login"}
    BY Answered, MixedStatuses
  <2> HIDE DEF c
  <2>4. Sound(ComponentChecks(w) \o <<<<Has(w, "plan"), "409">>>>, c /\ Has(w, "plan"))
    BY <2>1, <2>2, Joined
  <2>5. Acts(w, ApiApplyComponent(w), Asks(w, Generators) /\ (c /\ Has(w, "plan")), Added(w, "200"))
    BY <2>3, <2>4, Roles, ApiActs, Zenon DEF ApiApplyComponent
  <2> QED BY <2>5 DEF c, Acts
<1> QED BY <1>1, <1>2, <1>3, <1>4, <1>5, <1>6, <1>7, <1>8, <1>9, <1>10, <1>11, <1>12, <1>13

LEMMA AdminActs ==
  ASSUME NEW w \in AnyWorld, NEW what
  PROVE  /\ Acts(w, RegisterFleet(w), Open(w, Admins) /\ (Has(w, "target") /\ Has(w, "enabled") /\ Has(w, "valid")),
                 Answer("303", {<<"fleet", "added">>}))
         /\ Acts(w, ApiRegisterFleet(w), Asks(w, Admins) /\ (Has(w, "body") /\ Has(w, "target")
                 /\ Has(w, "enabled") /\ Has(w, "valid")),
                 Answer("201", {<<"fleet", "added">>}))
         /\ Acts(w, UnregisterFleet(w), Open(w, Admins) /\ (Has(w, "target") /\ Has(w, "enabled")
                 /\ Has(w, "valid") /\ Has(w, "found")),
                 Answer("303", {<<"fleet", "removed">>}))
         /\ Acts(w, ApiUnregisterFleet(w), Asks(w, Admins) /\ (Has(w, "target") /\ Has(w, "enabled")
                 /\ Has(w, "valid") /\ Has(w, "found")),
                 Answer("200", {<<"fleet", "removed">>}))
         /\ Acts(w, PauseCampaign(w), Open(w, Admins) /\ (Has(w, "found") /\ Has(w, "last")),
                 Answer("303", {<<"campaign", "paused">>}))
         /\ Acts(w, ApiPauseCampaign(w), Asks(w, Admins) /\ (Has(w, "body") /\ Has(w, "target")
                 /\ Has(w, "found") /\ Has(w, "last")),
                 Answer("200", {<<"campaign", "paused">>}))
         /\ Acts(w, CreateInitiative(w), Open(w, Admins) /\ (Has(w, "enabled") /\ Has(w, "valid") /\ Has(w, "last")),
                 Answer("303", {<<"initiative", "written">>}))
         /\ Acts(w, ApiCreateInitiative(w), Asks(w, Admins) /\ (Has(w, "enabled") /\ Has(w, "body")
                 /\ Has(w, "valid") /\ Has(w, "last")),
                 Answer("201", {<<"initiative", "written">>}))
         /\ Acts(w, UpdateInitiative(w), Open(w, Admins) /\ (Has(w, "enabled") /\ Has(w, "found")
                 /\ Has(w, "valid") /\ Has(w, "last")),
                 Answer("303", {<<"initiative", "written">>}))
         /\ Acts(w, ApiUpdateInitiative(w), Asks(w, Admins) /\ (Has(w, "enabled") /\ Has(w, "found")
                 /\ Has(w, "body") /\ Has(w, "valid") /\ Has(w, "last")),
                 Answer("200", {<<"initiative", "written">>}))
         /\ Acts(w, DeactivateInitiative(w), Open(w, Admins) /\ (Has(w, "enabled") /\ Has(w, "found")
                 /\ Has(w, "last")),
                 Answer("303", {<<"initiative", "written">>}))
         /\ Acts(w, ApiDeactivateInitiative(w), Asks(w, Admins) /\ (Has(w, "enabled") /\ Has(w, "found")
                 /\ Has(w, "last")),
                 Answer("200", {<<"initiative", "written">>}))
         /\ Acts(w, ApiFeedback(w), Asks(w, Generators) /\ (Has(w, "enabled") /\ Has(w, "body")
                 /\ Has(w, "valid") /\ Has(w, "target") /\ Has(w, "last")),
                 Answer("201", {<<"feedback", "kept">>}))
         /\ Acts(w, ApiMetrics(w), Asks(w, Admins) /\ Has(w, "enabled"),
                 Answer("200", IF Is(w, "persist") THEN {<<"metrics kept">>} ELSE {}))
         /\ Acts(w, ApiReclaim(w, what), Asks(w, Admins) /\ (Has(w, "enabled") /\ Has(w, "body") /\ Funded(w)
                 /\ Has(w, "valid")),
                 Answer("200", IF Is(w, "dry") THEN {} ELSE {<<"reclaimed", what>>}))
<1>1. Acts(w, RegisterFleet(w), Open(w, Admins) /\ (Has(w, "target") /\ Has(w, "enabled") /\ Has(w, "valid")),
           Answer("303", {<<"fleet", "added">>}))
  <2>1. Sound(<<<<Has(w, "target"), "400">>, <<Has(w, "enabled"), "404">>, <<Has(w, "valid"), "400">>>>,
             Has(w, "target") /\ Has(w, "enabled") /\ Has(w, "valid"))
    BY SMTT(30), Truths, Sound3
  <2> QED BY <2>1, Roles, PageActs, Answered, Zenon DEF RegisterFleet, AsAdmin
<1>2. Acts(w, ApiRegisterFleet(w), Asks(w, Admins) /\ (Has(w, "body") /\ Has(w, "target") /\ Has(w, "enabled")
        /\ Has(w, "valid")),
           Answer("201", {<<"fleet", "added">>}))
  <2>1. Sound(<<<<Has(w, "body"), "400">>, <<Has(w, "target"), "400">>, <<Has(w, "enabled"), "404">>,
               <<Has(w, "valid"), "400">>>>,
             Has(w, "body") /\ Has(w, "target") /\ Has(w, "enabled") /\ Has(w, "valid"))
    BY SMTT(30), Truths, Sound4
  <2> QED BY <2>1, Roles, ApiActs, Answered, Zenon DEF ApiRegisterFleet
<1>3. Acts(w, UnregisterFleet(w), Open(w, Admins) /\ (Has(w, "target") /\ Has(w, "enabled") /\ Has(w, "valid")
        /\ Has(w, "found")),
           Answer("303", {<<"fleet", "removed">>}))
  <2>1. Sound(<<<<Has(w, "target"), "400">>, <<Has(w, "enabled"), "404">>, <<Has(w, "valid"), "400">>,
               <<Has(w, "found"), "404">>>>,
             Has(w, "target") /\ Has(w, "enabled") /\ Has(w, "valid") /\ Has(w, "found"))
    BY SMTT(30), Truths, Sound4
  <2> QED BY <2>1, Roles, PageActs, Answered, Zenon DEF UnregisterFleet, AsAdmin
<1>4. Acts(w, ApiUnregisterFleet(w), Asks(w, Admins) /\ (Has(w, "target") /\ Has(w, "enabled")
        /\ Has(w, "valid") /\ Has(w, "found")),
           Answer("200", {<<"fleet", "removed">>}))
  <2>1. Sound(<<<<Has(w, "target"), "400">>, <<Has(w, "enabled"), "404">>, <<Has(w, "valid"), "400">>,
               <<Has(w, "found"), "404">>>>,
             Has(w, "target") /\ Has(w, "enabled") /\ Has(w, "valid") /\ Has(w, "found"))
    BY SMTT(30), Truths, Sound4
  <2> QED BY <2>1, Roles, ApiActs, Answered, Zenon DEF ApiUnregisterFleet
<1>5. Acts(w, PauseCampaign(w), Open(w, Admins) /\ (Has(w, "found") /\ Has(w, "last")),
           Answer("303", {<<"campaign", "paused">>}))
  <2>1. Sound(<<<<Has(w, "found"), "404">>, <<Has(w, "last"), "503">>>>, Has(w, "found") /\ Has(w, "last"))
    BY Truths, Sound2
  <2> QED BY <2>1, Roles, PageActs, Answered, Zenon DEF PauseCampaign, AsAdmin
<1>6. Acts(w, ApiPauseCampaign(w), Asks(w, Admins) /\ (Has(w, "body") /\ Has(w, "target") /\ Has(w, "found")
        /\ Has(w, "last")),
           Answer("200", {<<"campaign", "paused">>}))
  <2>1. Sound(<<<<Has(w, "body"), "400">>, <<Has(w, "target"), "400">>, <<Has(w, "found"), "404">>,
               <<Has(w, "last"), "503">>>>,
             Has(w, "body") /\ Has(w, "target") /\ Has(w, "found") /\ Has(w, "last"))
    BY SMTT(30), Truths, Sound4
  <2> QED BY <2>1, Roles, ApiActs, Answered, Zenon DEF ApiPauseCampaign
<1>7. Acts(w, CreateInitiative(w), Open(w, Admins) /\ (Has(w, "enabled") /\ Has(w, "valid") /\ Has(w, "last")),
           Answer("303", {<<"initiative", "written">>}))
  <2>1. Sound(<<<<Has(w, "enabled"), "404">>, <<Has(w, "valid"), "400">>, <<Has(w, "last"), "500">>>>,
             Has(w, "enabled") /\ Has(w, "valid") /\ Has(w, "last"))
    BY SMTT(30), Truths, Sound3
  <2> QED BY <2>1, Roles, PageActs, Answered, Zenon DEF CreateInitiative, AsAdmin
<1>8. Acts(w, ApiCreateInitiative(w), Asks(w, Admins) /\ (Has(w, "enabled") /\ Has(w, "body") /\ Has(w, "valid")
        /\ Has(w, "last")),
           Answer("201", {<<"initiative", "written">>}))
  <2>1. Sound(<<<<Has(w, "enabled"), "404">>, <<Has(w, "body"), "400">>, <<Has(w, "valid"), "400">>,
               <<Has(w, "last"), "503">>>>,
             Has(w, "enabled") /\ Has(w, "body") /\ Has(w, "valid") /\ Has(w, "last"))
    BY SMTT(30), Truths, Sound4
  <2> QED BY <2>1, Roles, ApiActs, Answered, Zenon DEF ApiCreateInitiative
<1>9. Acts(w, UpdateInitiative(w), Open(w, Admins) /\ (Has(w, "enabled") /\ Has(w, "found") /\ Has(w, "valid")
        /\ Has(w, "last")),
           Answer("303", {<<"initiative", "written">>}))
  <2>1. Sound(<<<<Has(w, "enabled"), "404">>, <<Has(w, "found"), "404">>, <<Has(w, "valid"), "400">>,
               <<Has(w, "last"), "500">>>>,
             Has(w, "enabled") /\ Has(w, "found") /\ Has(w, "valid") /\ Has(w, "last"))
    BY SMTT(30), Truths, Sound4
  <2> QED BY <2>1, Roles, PageActs, Answered, Zenon DEF UpdateInitiative, AsAdmin
<1>10. Acts(w, ApiUpdateInitiative(w), Asks(w, Admins) /\ (Has(w, "enabled") /\ Has(w, "found")
        /\ Has(w, "body") /\ Has(w, "valid") /\ Has(w, "last")),
            Answer("200", {<<"initiative", "written">>}))
  <2> DEFINE checks == <<<<Has(w, "enabled"), "404">>, <<Has(w, "found"), "404">>, <<Has(w, "body"), "400">>,
                       <<Has(w, "valid"), "400">>, <<Has(w, "last"), "503">>>>
  <2>1. \E T : checks \in Seq(T)
    BY Lists, Zenon
  <2>2. Plain(checks) /\ (Passed(checks) <=> Has(w, "enabled") /\ Has(w, "found") /\ Has(w, "body")
          /\ Has(w, "valid") /\ Has(w, "last"))
    BY DEF Plain, Passed
  <2>3. Sound(checks, Has(w, "enabled") /\ Has(w, "found") /\ Has(w, "body") /\ Has(w, "valid") /\ Has(w, "last"))
    BY <2>1, <2>2 DEF Sound
  <2> QED BY <2>3, Roles, ApiActs, Answered, Zenon DEF ApiUpdateInitiative
<1>11. Acts(w, DeactivateInitiative(w), Open(w, Admins) /\ (Has(w, "enabled") /\ Has(w, "found") /\ Has(w, "last")),
            Answer("303", {<<"initiative", "written">>}))
  <2>1. Sound(<<<<Has(w, "enabled"), "404">>, <<Has(w, "found"), "404">>, <<Has(w, "last"), "500">>>>,
             Has(w, "enabled") /\ Has(w, "found") /\ Has(w, "last"))
    BY SMTT(30), Truths, Sound3
  <2> QED BY <2>1, Roles, PageActs, Answered, Zenon DEF DeactivateInitiative, AsAdmin
<1>12. Acts(w, ApiDeactivateInitiative(w), Asks(w, Admins) /\ (Has(w, "enabled") /\ Has(w, "found")
        /\ Has(w, "last")),
            Answer("200", {<<"initiative", "written">>}))
  <2>1. Sound(<<<<Has(w, "enabled"), "404">>, <<Has(w, "found"), "404">>, <<Has(w, "last"), "503">>>>,
             Has(w, "enabled") /\ Has(w, "found") /\ Has(w, "last"))
    BY SMTT(30), Truths, Sound3
  <2> QED BY <2>1, Roles, ApiActs, Answered, Zenon DEF ApiDeactivateInitiative
<1>13. Acts(w, ApiFeedback(w), Asks(w, Generators) /\ (Has(w, "enabled") /\ Has(w, "body") /\ Has(w, "valid")
        /\ Has(w, "target") /\ Has(w, "last")),
            Answer("201", {<<"feedback", "kept">>}))
  <2> DEFINE checks == <<<<Has(w, "enabled"), "404">>, <<Has(w, "body"), "400">>, <<Has(w, "valid"), "400">>,
                       <<Has(w, "target"), "400">>, <<Has(w, "last"), "503">>>>
  <2>1. \E T : checks \in Seq(T)
    BY Lists, Zenon
  <2>2. Plain(checks) /\ (Passed(checks) <=> Has(w, "enabled") /\ Has(w, "body") /\ Has(w, "valid")
          /\ Has(w, "target") /\ Has(w, "last"))
    BY DEF Plain, Passed
  <2>3. Sound(checks, Has(w, "enabled") /\ Has(w, "body") /\ Has(w, "valid") /\ Has(w, "target") /\ Has(w, "last"))
    BY <2>1, <2>2 DEF Sound
  <2> QED BY <2>3, Roles, ApiActs, Answered, Zenon DEF ApiFeedback
<1>14. Acts(w, ApiMetrics(w), Asks(w, Admins) /\ Has(w, "enabled"),
            Answer("200", IF Is(w, "persist") THEN {<<"metrics kept">>} ELSE {}))
  <2>1. Answer("200", IF Is(w, "persist") THEN {<<"metrics kept">>} ELSE {}).status \notin {"401", "login"}
    BY Answered
  <2>2. Sound(<<<<Has(w, "enabled"), "404">>>>, Has(w, "enabled"))
    BY Truths, Sound1
  <2> QED BY <2>1, <2>2, Roles, ApiActs, Zenon DEF ApiMetrics
<1>15. Acts(w, ApiReclaim(w, what), Asks(w, Admins) /\ (Has(w, "enabled") /\ Has(w, "body") /\ Funded(w)
        /\ Has(w, "valid")),
            Answer("200", IF Is(w, "dry") THEN {} ELSE {<<"reclaimed", what>>}))
  <2>1. Answer("200", IF Is(w, "dry") THEN {} ELSE {<<"reclaimed", what>>}).status \notin {"401", "login"}
    BY Answered
  <2>2. Sound(<<<<Has(w, "enabled"), "503">>, <<Has(w, "body"), "400">>, <<Funded(w), "503">>,
               <<Has(w, "valid"), "400">>>>,
             Has(w, "enabled") /\ Has(w, "body") /\ Funded(w) /\ Has(w, "valid"))
    BY SMTT(30), Truths, Sound4
  <2> QED BY <2>1, <2>2, Roles, ApiActs, Zenon DEF ApiReclaim, Funded
<1> QED BY <1>1, <1>2, <1>3, <1>4, <1>5, <1>6, <1>7, <1>8, <1>9, <1>10, <1>11, <1>12, <1>13, <1>14, <1>15
(* What an answer comes to when its own part yields one. *)
LEMMA PageThen ==
  ASSUME NEW w \in AnyWorld, NEW allowed \in SUBSET Everyone, NEW checks, NEW condition, Sound(checks, condition),
         NEW inner, NEW further \in BOOLEAN, NEW answer, answer.status \notin {"401", "login"},
         Yields(inner, further, answer)
  PROVE  Acts(w, Served(w, Checked(Required(w, allowed) \o checks, inner)), Open(w, allowed) /\ (further
          /\ condition), answer)
<1>1. inner.status \notin {"401", "login"}
  BY DEF Yields
<1>2. Acts(w, Served(w, Checked(Required(w, allowed) \o checks, inner)), Open(w, allowed) /\ condition, inner)
  BY <1>1, PageActs
<1> QED BY <1>2 DEF Acts, Yields, Sound

LEMMA ApiThen ==
  ASSUME NEW w \in AnyWorld, NEW allowed \in SUBSET Everyone, NEW checks, NEW condition, Sound(checks, condition),
         NEW inner, NEW further \in BOOLEAN, NEW answer, answer.status \notin {"401", "login"},
         Yields(inner, further, answer)
  PROVE  Acts(w, Api(w, allowed, checks, inner), Asks(w, allowed) /\ (further /\ condition), answer)
<1>1. inner.status \notin {"401", "login"}
  BY DEF Yields
<1>2. Acts(w, Api(w, allowed, checks, inner), Asks(w, allowed) /\ condition, inner)
  BY <1>1, ApiActs
<1> QED BY <1>2 DEF Acts, Yields, Sound

(* What a form asks of the queue, and what a request does. *)
Takes(w) == Has(w, "valid") /\ Has(w, "accepting") /\ Has(w, "room")
Accepts(w) == Has(w, "valid") /\ Has(w, "accepting") /\ Roomy(w)

LEMMA QueueActs ==
  ASSUME NEW w \in AnyWorld
  PROVE  /\ Acts(w, LivePlan(w), Open(w, Generators) /\ (Takes(w) /\ (Has(w, "queue") /\ Has(w, "enabled"))),
                 Answer("303", {QueuedRun(w, "live_plan")}))
         /\ Acts(w, RequestEnvironment(w), Open(w, Generators) /\ (Takes(w) /\ (Has(w, "queue")
                 /\ Has(w, "enabled"))),
                 Answer("303", {QueuedRun(w, "environment_vend")}))
         /\ Acts(w, RequestSandbox(w),
                 Open(w, Generators) /\ (Takes(w) /\ (Has(w, "enabled") /\ Has(w, "queue") /\ Has(w, "target"))),
                 Answer("303", {QueuedRun(w, "environment_vend")}))
         /\ Acts(w, ConfirmDrift(w), Open(w, Admins) /\ (Takes(w) /\ (Has(w, "queue") /\ Behind(w))),
                 Answer("303", {QueuedRun(w, "fleet_drift_confirm")}))
         /\ Acts(w, ApiVendEnvironment(w),
                 Asks(w, Generators)
                   /\ (Takes(w) /\ (Has(w, "queue") /\ Has(w, "enabled") /\ Has(w, "body") /\ Has(w, "target"))),
                 Answer("202", {QueuedRun(w, "environment_vend")}))
         /\ Acts(w, ApiVendComponent(w),
                 Asks(w, Generators)
                   /\ (Takes(w) /\ (Has(w, "queue") /\ Has(w, "enabled") /\ Has(w, "body") /\ Has(w, "target"))),
                 Answer("202", {QueuedRun(w, "component_vend")}))
         /\ \A kind : Acts(w, ApiSubmitRun(w, kind),
                 Asks(w, Generators)
                   /\ (Accepts(w) /\ (Has(w, "queue") /\ Has(w, "body") /\ Named(w, kind) /\ Supported(w, kind))),
                 Answer("202", IF Is(w, "repeat") THEN {} ELSE {QueuedRun(w, kind)}))
<1> USE Roles
<1>0. \A kind : /\ Yields(SubmittedForm(w, kind), Takes(w), Answer("303", {QueuedRun(w, kind)}))
                /\ Yields(Submitted(Form(w), kind, "202", Caught), Takes(w), Answer("202", {QueuedRun(w, kind)}))
  BY FormYields DEF Takes
<1>1. Takes(w) \in BOOLEAN
  BY DEF Takes
<1>2. Acts(w, LivePlan(w), Open(w, Generators) /\ (Takes(w) /\ (Has(w, "queue") /\ Has(w, "enabled"))),
           Answer("303", {QueuedRun(w, "live_plan")}))
  <2>1. Sound(<<<<Has(w, "queue"), "503">>, <<Has(w, "enabled"), "400">>>>, Has(w, "queue") /\ Has(w, "enabled"))
    BY Truths, Sound2
  <2>2. Yields(SubmittedForm(w, "live_plan"), Takes(w), Answer("303", {QueuedRun(w, "live_plan")}))
    BY <1>0
  <2>3. Answer("303", {QueuedRun(w, "live_plan")}).status \notin {"401", "login"}
    BY Answered
  <2> QED BY <1>1, <2>1, <2>2, <2>3, PageThen, Zenon DEF LivePlan
<1>3. Acts(w, RequestEnvironment(w), Open(w, Generators) /\ (Takes(w) /\ (Has(w, "queue") /\ Has(w, "enabled"))),
           Answer("303", {QueuedRun(w, "environment_vend")}))
  <2>1. Sound(<<<<Has(w, "queue"), "503">>, <<Has(w, "enabled"), "400">>>>, Has(w, "queue") /\ Has(w, "enabled"))
    BY Truths, Sound2
  <2>2. Yields(SubmittedForm(w, "environment_vend"), Takes(w), Answer("303", {QueuedRun(w, "environment_vend")}))
    BY <1>0
  <2>3. Answer("303", {QueuedRun(w, "environment_vend")}).status \notin {"401", "login"}
    BY Answered
  <2> QED BY <1>1, <2>1, <2>2, <2>3, PageThen, Zenon DEF RequestEnvironment
<1>4. Acts(w, RequestSandbox(w),
           Open(w, Generators) /\ (Takes(w) /\ (Has(w, "enabled") /\ Has(w, "queue") /\ Has(w, "target"))),
           Answer("303", {QueuedRun(w, "environment_vend")}))
  <2>1. Sound(<<<<Has(w, "enabled"), "404">>, <<Has(w, "queue"), "503">>, <<Has(w, "target"), "400">>>>,
              Has(w, "enabled") /\ Has(w, "queue") /\ Has(w, "target"))
    BY SMTT(30), Truths, Sound3
  <2>2. Yields(SubmittedForm(w, "environment_vend"), Takes(w), Answer("303", {QueuedRun(w, "environment_vend")}))
    BY <1>0
  <2>3. Answer("303", {QueuedRun(w, "environment_vend")}).status \notin {"401", "login"}
    BY Answered
  <2> QED BY <1>1, <2>1, <2>2, <2>3, PageThen, Zenon DEF RequestSandbox
<1>5. Acts(w, ConfirmDrift(w), Open(w, Admins) /\ (Takes(w) /\ (Has(w, "queue") /\ Behind(w))),
           Answer("303", {QueuedRun(w, "fleet_drift_confirm")}))
  <2>1. Sound(<<<<Has(w, "queue"), "503">>, <<Behind(w), "400">>>>, Has(w, "queue") /\ Behind(w))
    BY Truths, Sound2
  <2>2. Yields(SubmittedForm(w, "fleet_drift_confirm"), Takes(w), Answer("303", {QueuedRun(w, "fleet_drift_confirm")}))
    BY <1>0
  <2>3. Answer("303", {QueuedRun(w, "fleet_drift_confirm")}).status \notin {"401", "login"}
    BY Answered
  <2> QED BY <1>1, <2>1, <2>2, <2>3, PageThen, Zenon DEF ConfirmDrift, AsAdmin, Behind
<1>6. Acts(w, ApiVendEnvironment(w),
           Asks(w, Generators)
             /\ (Takes(w) /\ (Has(w, "queue") /\ Has(w, "enabled") /\ Has(w, "body") /\ Has(w, "target"))),
           Answer("202", {QueuedRun(w, "environment_vend")}))
  <2>1. Sound(<<<<Has(w, "queue"), "503">>, <<Has(w, "enabled"), "404">>, <<Has(w, "body"), "400">>,
          <<Has(w, "target"), "400">>>>,
              Has(w, "queue") /\ Has(w, "enabled") /\ Has(w, "body") /\ Has(w, "target"))
    BY SMTT(30), Truths, Sound4
  <2>2. Yields(Submitted(Form(w), "environment_vend", "202", Caught), Takes(w), Answer("202", {QueuedRun(w, "environment_vend")}))
    BY <1>0
  <2>3. Answer("202", {QueuedRun(w, "environment_vend")}).status \notin {"401", "login"}
    BY Answered
  <2> QED BY <1>1, <2>1, <2>2, <2>3, ApiThen, Zenon DEF ApiVendEnvironment
<1>7. Acts(w, ApiVendComponent(w),
           Asks(w, Generators)
             /\ (Takes(w) /\ (Has(w, "queue") /\ Has(w, "enabled") /\ Has(w, "body") /\ Has(w, "target"))),
           Answer("202", {QueuedRun(w, "component_vend")}))
  <2>1. Sound(<<<<Has(w, "queue"), "503">>, <<Has(w, "enabled"), "503">>, <<Has(w, "body"), "400">>,
          <<Has(w, "target"), "400">>>>,
              Has(w, "queue") /\ Has(w, "enabled") /\ Has(w, "body") /\ Has(w, "target"))
    BY SMTT(30), Truths, Sound4
  <2>2. Yields(Submitted(Form(w), "component_vend", "202", Caught), Takes(w), Answer("202", {QueuedRun(w, "component_vend")}))
    BY <1>0
  <2>3. Answer("202", {QueuedRun(w, "component_vend")}).status \notin {"401", "login"}
    BY Answered
  <2> QED BY <1>1, <2>1, <2>2, <2>3, ApiThen, Zenon DEF ApiVendComponent
<1>8. ASSUME NEW kind
      PROVE  Acts(w, ApiSubmitRun(w, kind),
                  Asks(w, Generators)
                    /\ (Accepts(w) /\ (Has(w, "queue") /\ Has(w, "body") /\ Named(w, kind) /\ Supported(w, kind))),
                  Answer("202", IF Is(w, "repeat") THEN {} ELSE {QueuedRun(w, kind)}))
  <2> DEFINE answer == Answer("202", IF Is(w, "repeat") THEN {} ELSE {QueuedRun(w, kind)})
  <2>1. Sound(<<<<Has(w, "queue"), "503">>, <<Has(w, "body"), "400">>, <<Named(w, kind), "400">>,
          <<Supported(w, kind), "400">>>>,
              Has(w, "queue") /\ Has(w, "body") /\ Named(w, kind) /\ Supported(w, kind))
    BY SMTT(30), Truths, Sound4
  <2>2. Yields(Submitted(w, kind, "202", Caught), Accepts(w), answer)
    BY SubmittedYields DEF Caught, Accepts
  <2>3. Accepts(w) \in BOOLEAN /\ answer.status \notin {"401", "login"}
    BY Answered DEF Accepts
  <2> HIDE DEF answer
  <2>4. ApiSubmitRun(w, kind) =
          Api(w, Generators, <<<<Has(w, "queue"), "503">>, <<Has(w, "body"), "400">>,
                               <<Named(w, kind), "400">>, <<Supported(w, kind), "400">>>>,
              Submitted(w, kind, "202", Caught))
    BY DEF ApiSubmitRun, Named, Supported
  <2>5. Acts(w, ApiSubmitRun(w, kind),
             Asks(w, Generators)
               /\ (Accepts(w) /\ (Has(w, "queue") /\ Has(w, "body") /\ Named(w, kind) /\ Supported(w, kind))), answer)
    BY <2>1, <2>2, <2>3, <2>4, ApiThen, Zenon
  <2> QED BY <2>5 DEF answer
<1> QED BY <1>2, <1>3, <1>4, <1>5, <1>6, <1>7, <1>8

LEMMA YieldsThen ==
  ASSUME NEW checks, NEW condition, Sound(checks, condition),
         NEW inner, NEW further \in BOOLEAN, NEW answer, Yields(inner, further, answer)
  PROVE  Yields(Checked(checks, inner), further /\ condition, answer)
<1>1. Yields(Checked(checks, inner), condition, inner)
  BY Tried
<1> QED BY <1>1 DEF Yields, Sound

(* When a generation happens, and what it does: by a page that names a       *)
(* bundle, by one that names a blueprint, and through the API.               *)
Free(w) == Has(w, "accepting") /\ Has(w, "room")

Queues(w)  == Answer("303", {QueuedRun(w, "generate")})
Renders(w) == Answer("200", {Executed(w)})

BundleWhen(w) == IF Is(w, "worker") THEN Free(w) /\ Has(w, "queue") ELSE Has(w, "valid")
BundleThen(w) == IF Is(w, "worker") THEN Queues(w) ELSE Renders(w)

Streams(w)  == Is(w, "stream") /\ Has(w, "queue") /\ Free(w)
PageWhen(w) == IF Is(w, "worker") THEN Free(w) /\ Has(w, "queue") ELSE Streams(w) \/ Has(w, "valid")
PageNext(w) == IF Is(w, "worker") \/ Streams(w) THEN Queues(w) ELSE Renders(w)

ApiWhen(w) == IF Is(w, "async") THEN Accepts(w) /\ Has(w, "queue") ELSE Shared(w) /\ Has(w, "found") /\ Has(w, "valid")
ApiNext(w) == IF Is(w, "async") THEN Answer(IF Is(w, "repeat") THEN "200" ELSE "202",
                                            IF Is(w, "repeat") THEN {} ELSE {QueuedRun(w, "generate")})
              ELSE Renders(w)

(* A submission that is refused does not answer with a redirect. *)
LEMMA RefusedStatus ==
  ASSUME NEW w \in AnyWorld, ~Free(w)
  PROVE  Submitted(Asked(w), "generate", "303", Caught).status # "303"
<1> DEFINE checks == <<<<Has(Asked(w), "valid"), Caught.invalid>>, <<Has(Asked(w), "accepting"), Caught.closing>>,
                       <<Roomy(Asked(w)), Caught.full>>>>
           answer == Answer("303", IF Is(Asked(w), "repeat") THEN {} ELSE {QueuedRun(Asked(w), "generate")})
<1>1. /\ DOMAIN checks = 1..3
      /\ checks[1][2] = "400" /\ checks[2][2] = "503" /\ checks[3][2] = "429"
      /\ (checks[2][1] <=> Has(Asked(w), "accepting")) /\ (checks[3][1] <=> Roomy(Asked(w)))
  BY DEF Caught
<1>2. Submitted(Asked(w), "generate", "303", Caught) = Checked(checks, answer)
  BY Zenon DEF Submitted, Roomy
<1>3. (Roomy(Asked(w)) <=> Has(w, "room")) /\ (Has(Asked(w), "accepting") <=> Has(w, "accepting"))
  BY FormFacts DEF Roomy
<1> HIDE DEF checks, answer
<1>4. ~Passed(checks)
  BY <1>1, <1>3 DEF Passed, Free
<1>5. PICK i \in DOMAIN checks : Checked(checks, answer) = Refuse(checks[i][2])
  BY <1>1, <1>4, CheckedAnswer
<1>6. checks[i][2] \in {"400", "503", "429"}
  BY <1>1
<1> QED BY <1>2, <1>5, <1>6, Refusals

LEMMA GenerationActs ==
  ASSUME NEW w \in AnyWorld
  PROVE  /\ Acts(w, GenerateBundle(w), Open(w, Generators) /\ (BundleWhen(w) /\ Has(w, "found")), BundleThen(w))
         /\ Acts(w, Generate(w), Open(w, Generators) /\ (PageWhen(w) /\ Has(w, "found")), PageNext(w))
         /\ Acts(w, ApiGenerate(w), Asks(w, Generators) /\ (ApiWhen(w) /\ (Has(w, "body")
                 /\ Has(w, "target"))), ApiNext(w))
<1> DEFINE queued == Submitted(Asked(w), "generate", "303", Caught)
           here == Checked(<<<<Has(w, "valid"), "500">>>>, Renders(w))
           through == Checked(<<<<Has(w, "queue"), "503">>>>, queued)
<1>1. Yields(queued, Free(w), Queues(w)) /\ Free(w) \in BOOLEAN
  BY FormYields DEF Free, Queues
<1>2. Yields(here, Has(w, "valid"), Renders(w))
  <2>1. Sound(<<<<Has(w, "valid"), "500">>>>, Has(w, "valid"))
    BY Truths, Sound1
  <2> QED BY <2>1, Tried
<1>3. Yields(through, Free(w) /\ Has(w, "queue"), Queues(w))
  <2>1. Sound(<<<<Has(w, "queue"), "503">>>>, Has(w, "queue"))
    BY Truths, Sound1
  <2> QED BY <1>1, <2>1, YieldsThen
<1>4. Sound(<<<<Has(w, "found"), "500">>>>, Has(w, "found"))
  BY Truths, Sound1
<1>5. /\ Queues(w).status = "303" /\ Renders(w).status = "200"
      /\ PageNext(w).status \notin {"401", "login"} /\ BundleThen(w).status \notin {"401", "login"}
      /\ ApiNext(w).status \notin {"401", "login"}
  BY Answered DEF Queues, Renders, PageNext, BundleThen, ApiNext
<1>6. (queued.status = "303") <=> Free(w)
  BY <1>1, <1>5, RefusedStatus DEF Yields
<1> HIDE DEF queued, here, through
<1>7. Acts(w, GenerateBundle(w), Open(w, Generators) /\ (BundleWhen(w) /\ Has(w, "found")), BundleThen(w))
  <2> DEFINE inner == IF Is(w, "worker") THEN through ELSE here
  <2>1. Yields(inner, BundleWhen(w), BundleThen(w)) /\ BundleWhen(w) \in BOOLEAN
    BY <1>2, <1>3, Truths DEF Yields, BundleWhen, BundleThen
  <2>2. GenerateBundle(w) = Served(w, Checked(Required(w, Generators) \o <<<<Has(w, "found"), "500">>>>, inner))
    BY Zenon DEF GenerateBundle, through, here, queued, Asked, Renders
  <2> HIDE DEF inner
  <2> DEFINE checks == <<<<Has(w, "found"), "500">>>>
  <2>3. Sound(checks, Has(w, "found"))
    BY <1>4
  <2> HIDE DEF checks
  <2> QED BY <1>5, <2>1, <2>2, <2>3, Roles, PageThen DEF checks
<1>8. Acts(w, Generate(w), Open(w, Generators) /\ (PageWhen(w) /\ Has(w, "found")), PageNext(w))
  <2> DEFINE inner == IF Is(w, "worker") THEN through
                      ELSE IF Is(w, "stream") /\ Has(w, "queue") /\ queued.status = "303" THEN queued ELSE here
  <2>1. Yields(inner, PageWhen(w), PageNext(w)) /\ PageWhen(w) \in BOOLEAN
    BY <1>1, <1>2, <1>3, <1>6, Truths DEF Yields, PageWhen, PageNext, Streams
  <2>2. Generate(w) = Served(w, Checked(Required(w, Generators) \o <<<<Has(w, "found"), "500">>>>, inner))
    BY Zenon DEF Generate, through, here, queued, Asked, Renders
  <2> HIDE DEF inner
  <2> DEFINE checks == <<<<Has(w, "found"), "500">>>>
  <2>3. Sound(checks, Has(w, "found"))
    BY <1>4
  <2> HIDE DEF checks
  <2> QED BY <1>5, <2>1, <2>2, <2>3, Roles, PageThen DEF checks
<1>9. Acts(w, ApiGenerate(w), Asks(w, Generators) /\ (ApiWhen(w) /\ (Has(w, "body") /\ Has(w, "target"))), ApiNext(w))
  <2> DEFINE statuses == [Caught EXCEPT !.invalid = "500"]
             ok == IF Is(w, "repeat") THEN "200" ELSE "202"
             asked == Submitted(w, "generate", ok, statuses)
             queue == Checked(<<<<Has(w, "queue"), "503">>>>, asked)
             now == Checked(<<<<Shared(w), "409">>, <<Has(w, "found"), "400">>, <<Has(w, "valid"), "400">>>>,
                     Renders(w))
             inner == IF Is(w, "async") THEN queue ELSE now
             answer == Answer(ok, IF Is(w, "repeat") THEN {} ELSE {QueuedRun(w, "generate")})
  <2>1. Yields(asked, Accepts(w), answer) /\ Accepts(w) \in BOOLEAN
    <3>1. /\ statuses.invalid \notin {"401", "login"} /\ statuses.closing \notin {"401", "login"}
          /\ statuses.full \notin {"401", "login"}
      BY DEF Caught
    <3> QED BY <3>1, SubmittedYields DEF Accepts
  <2>2. Yields(queue, Accepts(w) /\ Has(w, "queue"), answer)
    <3>1. Sound(<<<<Has(w, "queue"), "503">>>>, Has(w, "queue"))
      BY Truths, Sound1
    <3> HIDE DEF asked, answer
    <3> QED BY <2>1, <3>1, YieldsThen
  <2>3. Yields(now, Shared(w) /\ Has(w, "found") /\ Has(w, "valid"), Renders(w))
    <3>1. Sound(<<<<Shared(w), "409">>, <<Has(w, "found"), "400">>, <<Has(w, "valid"), "400">>>>,
                Shared(w) /\ Has(w, "found") /\ Has(w, "valid"))
      BY SMTT(30), Truths, Sound3
    <3> QED BY <3>1, Tried
  <2>4. ApiNext(w) = IF Is(w, "async") THEN answer ELSE Renders(w)
    BY DEF ApiNext
  <2>5. Sound(<<<<Has(w, "body"), "400">>, <<Has(w, "target"), "400">>>>, Has(w, "body") /\ Has(w, "target"))
    BY Truths, Sound2
  <2>6. ApiGenerate(w) = Api(w, Generators, <<<<Has(w, "body"), "400">>, <<Has(w, "target"), "400">>>>, inner)
    BY Zenon DEF ApiGenerate, Shared, Renders
  <2> HIDE DEF queue, now, answer
  <2>7. Yields(inner, ApiWhen(w), ApiNext(w)) /\ ApiWhen(w) \in BOOLEAN
    BY <2>2, <2>3, <2>4, Truths DEF Yields, ApiWhen
  <2> HIDE DEF inner
  <2> QED BY <1>5, <2>5, <2>6, <2>7, Roles, ApiThen, Zenon
<1> QED BY <1>7, <1>8, <1>9

(* An organization is scanned by a worker or here and now; an environment    *)
(* that has expired is reclaimed through the queue, if there is one.         *)
ScanWhen(w) == IF Is(w, "async") THEN Takes(w) /\ Has(w, "queue") ELSE Has(w, "last")
ScanNext(w) == IF Is(w, "async") THEN Answer("202", {QueuedRun(w, "org_scan")}) ELSE Shown

ReclaimWhen(w) == IF ~Is(w, "dry") /\ Has(w, "queue") THEN Free(w) ELSE Funded(w)
ReclaimNext(w) == IF ~Is(w, "dry") /\ Has(w, "queue") THEN Answer("303", {QueuedRun(w, "environment_reclaim")})
                  ELSE Answer("303", IF Is(w, "dry") THEN {} ELSE {<<"reclaimed", "environments">>})

AddWhen(w) == ~Is(w, "dry") /\ (Has(w, "plan") /\ Has(w, "git"))

(* What an upgrade that may be applied leaves. *)
Upgraded(w) ==
  LET Left(effect) == IF Is(w, "remote") THEN {} ELSE {effect}
  IN IF ~(Is(w, "remote") \/ Has(w, "git")) THEN Answer("500", Left(<<"files rewritten">>))
     ELSE IF ~Is(w, "push") THEN Answer("200", Left(<<"committed">>))
     ELSE IF ~(Is(w, "remote") /\ Has(w, "token")) THEN Answer("400", Left(<<"committed">>))
     ELSE IF ~Has(w, "last") THEN Answer("500", {})
     ELSE Answer("200", {<<"branch pushed">>})

LEMMA OtherActs ==
  ASSUME NEW w \in AnyWorld
  PROVE  /\ Acts(w, ApiOrgScan(w),
                 Asks(w, Generators)
                   /\ (ScanWhen(w) /\ (Has(w, "body") /\ Has(w, "target") /\ Has(w, "token") /\ Has(w, "valid"))),
                 ScanNext(w))
         /\ Acts(w, PortalReclaim(w), Open(w, Admins) /\ (ReclaimWhen(w) /\ Has(w, "enabled")), ReclaimNext(w))
         /\ Acts(w, AddComponent(w),
                 Open(w, Generators)
                   /\ (AddWhen(w) /\ (Has(w, "found") /\ Local(w) /\ Has(w, "target") /\ Has(w, "valid"))),
                 Added(w, "303"))
         /\ Acts(w, ApiApplyUpgrade(w),
                 Asks(w, Generators) /\ (Has(w, "body") /\ Has(w, "target") /\ Has(w, "valid")), Upgraded(w))
<1>1. Acts(w, ApiOrgScan(w),
           Asks(w, Generators)
             /\ (ScanWhen(w) /\ (Has(w, "body") /\ Has(w, "target") /\ Has(w, "token") /\ Has(w, "valid"))),
           ScanNext(w))
  <2> DEFINE asked == Submitted(Form(w), "org_scan", "202", Caught)
             queue == Checked(<<<<Has(w, "queue"), "503">>>>, asked)
             now == Checked(<<<<Has(w, "last"), "502">>>>, Shown)
             inner == IF Is(w, "async") THEN queue ELSE now
             answer == Answer("202", {QueuedRun(w, "org_scan")})
  <2>1. Yields(asked, Takes(w), answer) /\ Takes(w) \in BOOLEAN
    BY FormYields DEF Takes
  <2>2. Yields(queue, Takes(w) /\ Has(w, "queue"), answer)
    <3>1. Sound(<<<<Has(w, "queue"), "503">>>>, Has(w, "queue"))
      BY Truths, Sound1
    <3> HIDE DEF asked, answer
    <3> QED BY <2>1, <3>1, YieldsThen
  <2>3. Yields(now, Has(w, "last"), Shown)
    <3>1. Sound(<<<<Has(w, "last"), "502">>>>, Has(w, "last"))
      BY Truths, Sound1
    <3> QED BY <3>1, Tried
  <2>4. ScanNext(w) = (IF Is(w, "async") THEN answer ELSE Shown) /\ ScanNext(w).status \notin {"401", "login"}
    BY Answered DEF ScanNext
  <2> DEFINE checks == <<<<Has(w, "body"), "400">>, <<Has(w, "target"), "400">>, <<Has(w, "token"), "503">>,
          <<Has(w, "valid"), "400">>>>
  <2>5. Sound(checks, Has(w, "body") /\ Has(w, "target") /\ Has(w, "token") /\ Has(w, "valid"))
    BY SMTT(30), Truths, Sound4
  <2>6. ApiOrgScan(w) = Api(w, Generators, checks, inner)
    BY Zenon DEF ApiOrgScan
  <2> HIDE DEF queue, now, answer, checks
  <2>7. Yields(inner, ScanWhen(w), ScanNext(w)) /\ ScanWhen(w) \in BOOLEAN
    BY <2>2, <2>3, <2>4, Truths DEF Yields, ScanWhen
  <2> HIDE DEF inner
  <2> QED BY <2>4, <2>5, <2>6, <2>7, Roles, ApiThen, Zenon
<1>2. Acts(w, PortalReclaim(w), Open(w, Admins) /\ (ReclaimWhen(w) /\ Has(w, "enabled")), ReclaimNext(w))
  <2> DEFINE through == ~Is(w, "dry") /\ Has(w, "queue")
             asked == Submitted(Asked(w), "environment_reclaim", "303", Uncaught)
             done == Answer("303", IF Is(w, "dry") THEN {} ELSE {<<"reclaimed", "environments">>})
             now == Checked(<<<<Funded(w), "503">>>>, done)
             inner == IF through THEN asked ELSE now
             checks == <<<<Has(w, "enabled"), "503">>>>
  <2>1. Yields(asked, Free(w), Answer("303", {QueuedRun(w, "environment_reclaim")})) /\ Free(w) \in BOOLEAN
    BY FormYields DEF Free
  <2>2. Yields(now, Funded(w), done)
    <3>1. Sound(<<<<Funded(w), "503">>>>, Funded(w))
      BY Truths, Sound1
    <3> QED BY <3>1, Tried
  <2>3. /\ ReclaimNext(w) = IF through THEN Answer("303", {QueuedRun(w, "environment_reclaim")}) ELSE done
        /\ ReclaimNext(w).status \notin {"401", "login"}
    BY Answered DEF ReclaimNext
  <2>4. Sound(checks, Has(w, "enabled"))
    BY Truths, Sound1
  <2>5. PortalReclaim(w) = Served(w, Checked(Required(w, Admins) \o checks, inner))
    BY Zenon DEF PortalReclaim, AsAdmin, Asked, Funded
  <2> HIDE DEF asked, done, now, checks
  <2>6. Yields(inner, ReclaimWhen(w), ReclaimNext(w)) /\ ReclaimWhen(w) \in BOOLEAN
    BY <2>1, <2>2, <2>3, Truths DEF Yields, ReclaimWhen
  <2> HIDE DEF inner
  <2> QED BY <2>3, <2>4, <2>5, <2>6, Roles, PageThen
<1>3. Acts(w, AddComponent(w),
           Open(w, Generators)
             /\ (AddWhen(w) /\ (Has(w, "found") /\ Local(w) /\ Has(w, "target") /\ Has(w, "valid"))),
           Added(w, "303"))
  <2> DEFINE tried == Checked(<<<<Has(w, "plan"), "303">>, <<Has(w, "git"), "303">>>>, Added(w, "303"))
             inner == IF Is(w, "dry") THEN Refuse("303") ELSE tried
             checks == <<<<Has(w, "found"), "404">>, <<Local(w), "400">>, <<Has(w, "target"), "303">>,
                     <<Has(w, "valid"), "303">>>>
  <2>1. Yields(tried, Has(w, "plan") /\ Has(w, "git"), Added(w, "303"))
    <3>1. Sound(<<<<Has(w, "plan"), "303">>, <<Has(w, "git"), "303">>>>, Has(w, "plan") /\ Has(w, "git"))
      BY Truths, Sound2
    <3> QED BY <3>1, Tried
  <2>2. Sound(checks, Has(w, "found") /\ Local(w) /\ Has(w, "target") /\ Has(w, "valid"))
    BY SMTT(30), Truths, Sound4
  <2>3. AddComponent(w) = Served(w, Checked(Required(w, Generators) \o checks, inner))
    BY Zenon DEF AddComponent, Local
  <2> HIDE DEF tried, checks
  <2>4. Yields(inner, AddWhen(w), Added(w, "303")) /\ AddWhen(w) \in BOOLEAN
    BY <2>1, Truths, Refusals DEF Yields, AddWhen
  <2> HIDE DEF inner
  <2> QED BY <2>2, <2>3, <2>4, Roles, MixedStatuses, PageThen, Zenon
<1>4. Acts(w, ApiApplyUpgrade(w),
           Asks(w, Generators) /\ (Has(w, "body") /\ Has(w, "target") /\ Has(w, "valid")), Upgraded(w))
  <2>1. Sound(<<<<Has(w, "body"), "400">>, <<Has(w, "target"), "400">>, <<Has(w, "valid"), "400">>>>,
              Has(w, "body") /\ Has(w, "target") /\ Has(w, "valid"))
    BY SMTT(30), Truths, Sound3
  <2>2. Upgraded(w).status \in {"500", "200", "400"}
    BY Answered DEF Upgraded
  <2>3. ApiApplyUpgrade(w) = Api(w, Generators, <<<<Has(w, "body"), "400">>, <<Has(w, "target"), "400">>,
          <<Has(w, "valid"), "400">>>>,
                                 Upgraded(w))
    BY Zenon DEF ApiApplyUpgrade, Upgraded
  <2>4. Upgraded(w).status # "login"
    BY <2>2
  <2> QED BY <2>1, <2>3, <2>4, Roles, ApiActs, Zenon
<1> QED BY <1>1, <1>2, <1>3, <1>4

-----------------------------------------------------------------------------
(* Every change is orderly. *)

(* The answers that do something quietly, whatever it is. *)
LEMMA QuietDoes ==
  /\ \A s : \A e \in Unqueued : Answer(s, {e}).does \subseteq Unqueued /\ Answer(s, {e}).status = s
  /\ \A w, f : Imported(w, "200", f).does \subseteq Unqueued
  /\ \A w, s : Added(w, s).does \subseteq Unqueued
  /\ \A w : Upgraded(w).does \subseteq Unqueued /\ BatchImported(w).does \subseteq Unqueued
<1>1. \A s : \A e \in Unqueued : Answer(s, {e}).does \subseteq Unqueued /\ Answer(s, {e}).status = s
  BY Answered
<1>2. /\ <<"branch pushed">> \in Unqueued /\ <<"request opened">> \in Unqueued /\ <<"registered">> \in Unqueued
      /\ <<"committed">> \in Unqueued /\ <<"recorded">> \in Unqueued /\ <<"files rewritten">> \in Unqueued
  BY DEF Unqueued
<1>3. ASSUME NEW w, NEW f PROVE Imported(w, "200", f).does \subseteq Unqueued
  BY <1>2 DEF Imported, Answer
<1>4. ASSUME NEW w, NEW s PROVE Added(w, s).does \subseteq Unqueued
  BY <1>2 DEF Added, Answer
<1>5. ASSUME NEW w PROVE Upgraded(w).does \subseteq Unqueued
  BY <1>2 DEF Upgraded, Answer
<1>6. \A w : BatchImported(w).does \subseteq Unqueued
  BY <1>3, Answered DEF BatchImported
<1> QED BY <1>1, <1>3, <1>4, <1>5, <1>6

LEMMA OrderlyGates ==
  ASSUME NEW w \in AnyWorld
  PROVE  \A a \in {PlanUpdate(w), ApiPlanUpgrade(w), PlanImport(w), ApiPlanImport(w),
                   PlanBatch(w), ApiPlanBatch(w), Verify(w), ApiVerify(w)} : Orderly(w, a)
<1> DEFINE checked == Answer(IF Has(w, "plan") THEN "200" ELSE "422", {<<"gates run">>})
<1>1. /\ Answer("200", {<<"gates run">>}).does = {<<"gates run">>}
      /\ Answer("200", {<<"gates run">>}).status \notin Errors
  BY DEF Answer, Errors
<1>0. checked.does = {<<"gates run">>} /\ checked.status \notin Errors
  BY DEF Answer, Errors
<1>2. Orderly(w, PlanUpdate(w))
  BY <1>1, UpdateActs, GatesAnswer
<1>3. Orderly(w, ApiPlanUpgrade(w))
  BY <1>1, UpdateActs, GatesAnswer
<1>4. Orderly(w, PlanImport(w))
  BY <1>1, UpdateActs, GatesAnswer
<1>5. Orderly(w, ApiPlanImport(w))
  BY <1>1, UpdateActs, GatesAnswer
<1>6. Orderly(w, PlanBatch(w))
  BY <1>1, UpdateActs, GatesAnswer
<1>7. Orderly(w, ApiPlanBatch(w))
  BY <1>1, UpdateActs, GatesAnswer
<1>8. Orderly(w, Verify(w))
  BY <1>1, UpdateActs, GatesAnswer
<1>9. Orderly(w, ApiVerify(w))
  BY <1>0, UpdateActs, GatesAnswer
<1> QED BY <1>2, <1>3, <1>4, <1>5, <1>6, <1>7, <1>8, <1>9

LEMMA OrderlyAdmin ==
  ASSUME NEW w \in AnyWorld
  PROVE  \A a \in {ReplayRun(w), ApiReplay(w), RegisterFleet(w), ApiRegisterFleet(w), UnregisterFleet(w),
                   ApiUnregisterFleet(w), PauseCampaign(w), ApiPauseCampaign(w), CreateInitiative(w),
                   ApiCreateInitiative(w), UpdateInitiative(w), ApiUpdateInitiative(w), DeactivateInitiative(w),
                   ApiDeactivateInitiative(w), ApiFeedback(w), ApiMetrics(w),
                   ApiReclaim(w, "environments"), ApiReclaim(w, "components")} : Orderly(w, a)
<1>1. \A e \in Unqueued, s \in {"200", "201", "202", "303"} :
        Answer(s, {e}).does \subseteq Unqueued /\ Answer(s, {e}).status \notin Errors
  BY QuietDoes DEF Errors
<1>2. ASSUME NEW e \in Unqueued, NEW s \in {"200", "201", "202", "303"}, NEW a, NEW allowed \in {Generators, Admins},
             NEW c \in BOOLEAN,
             Acts(w, a, Open(w, allowed) /\ c, Answer(s, {e})) \/ Acts(w, a, Asks(w, allowed) /\ c, Answer(s, {e}))
      PROVE  Orderly(w, a)
  BY <1>1, <1>2, QuietAnswer
<1>3. /\ <<"replayed">> \in Unqueued /\ <<"fleet", "added">> \in Unqueued /\ <<"fleet", "removed">> \in Unqueued
      /\ <<"campaign", "paused">> \in Unqueued /\ <<"initiative", "written">> \in Unqueued
              /\ <<"feedback", "kept">> \in Unqueued
      /\ <<"metrics kept">> \in Unqueued /\ <<"reclaimed", "environments">> \in Unqueued
              /\ <<"reclaimed", "components">> \in Unqueued
  BY DEF Unqueued
<1>4. Orderly(w, ReplayRun(w)) /\ Orderly(w, ApiReplay(w))
  BY <1>2, <1>3, RunPages
<1>5. Orderly(w, RegisterFleet(w)) /\ Orderly(w, ApiRegisterFleet(w))
  BY <1>2, <1>3, AdminActs
<1>6. Orderly(w, UnregisterFleet(w)) /\ Orderly(w, ApiUnregisterFleet(w))
  BY <1>2, <1>3, AdminActs
<1>7. Orderly(w, PauseCampaign(w)) /\ Orderly(w, ApiPauseCampaign(w))
  BY <1>2, <1>3, AdminActs
<1>8. Orderly(w, CreateInitiative(w)) /\ Orderly(w, ApiCreateInitiative(w))
  BY <1>2, <1>3, AdminActs
<1>9. Orderly(w, UpdateInitiative(w)) /\ Orderly(w, ApiUpdateInitiative(w))
  BY <1>2, <1>3, AdminActs
<1>10. Orderly(w, DeactivateInitiative(w)) /\ Orderly(w, ApiDeactivateInitiative(w)) /\ Orderly(w, ApiFeedback(w))
  BY <1>2, <1>3, AdminActs
<1>11. Orderly(w, ApiMetrics(w))
  <2> DEFINE answer == Answer("200", IF Is(w, "persist") THEN {<<"metrics kept">>} ELSE {})
  <2>1. answer.does \subseteq Unqueued /\ answer.status \notin Errors
    BY <1>3 DEF Answer, Errors
  <2>2. Acts(w, ApiMetrics(w), Asks(w, Admins) /\ Has(w, "enabled"), answer)
    BY AdminActs
  <2> HIDE DEF answer
  <2> QED BY <2>1, <2>2, Truths, QuietAnswer
<1>12. ASSUME NEW what \in {"environments", "components"} PROVE Orderly(w, ApiReclaim(w, what))
  <2> DEFINE answer == Answer("200", IF Is(w, "dry") THEN {} ELSE {<<"reclaimed", what>>})
             c == Has(w, "enabled") /\ Has(w, "body") /\ Funded(w) /\ Has(w, "valid")
  <2>1. answer.does \subseteq Unqueued /\ answer.status \notin Errors
    BY <1>3 DEF Answer, Errors
  <2>2. Acts(w, ApiReclaim(w, what), Asks(w, Admins) /\ c, answer) /\ c \in BOOLEAN
    BY AdminActs
  <2> HIDE DEF answer, c
  <2> QED BY <2>1, <2>2, QuietAnswer
<1> QED BY <1>4, <1>5, <1>6, <1>7, <1>8, <1>9, <1>10, <1>11, <1>12

(* What a later step could not finish stays halfway. *)
LEMMA OrderlyHalfway ==
  ASSUME NEW w \in AnyWorld
  PROVE  \A a \in {ApplyImport(w), ApiApplyImport(w), ApplyBatch(w), ApiApplyBatch(w), AddComponent(w),
                   ApiApplyComponent(w), ApiApplyUpgrade(w)} : Orderly(w, a)
<1> DEFINE Fits(answer) ==
      /\ answer.does \subseteq Unqueued
      /\ answer.status \in Errors /\ answer.does # {} =>
           answer.does \subseteq Halfway /\ (~Has(w, "last") \/ ~Has(w, "git") \/ Is(w, "push"))
<1>1. ASSUME NEW answer, NEW a, NEW allowed \in {Generators, Admins}, NEW c \in BOOLEAN, Fits(answer),
             Acts(w, a, Open(w, allowed) /\ c, answer) \/ Acts(w, a, Asks(w, allowed) /\ c, answer)
      PROVE  Orderly(w, a)
  BY <1>1, QuietAnswer
<1>2. "200" \notin Errors /\ "303" \notin Errors
  BY DEF Errors
<1>3. Fits(Imported(w, "200", "200")) /\ Fits(BatchImported(w))
  BY <1>2, QuietDoes, MixedAnswers
<1>4. Fits(Imported(w, "200", "400"))
  <2>1. Has(w, "last") => Imported(w, "200", "400").status = "200"
    BY MixedAnswers
  <2>2. ~Has(w, "last") => Imported(w, "200", "400").does \subseteq Halfway
    BY MixedAnswers DEF Halfway
  <2>3. Imported(w, "200", "400").does \subseteq Unqueued
    BY QuietDoes
  <2> QED BY <1>2, <2>1, <2>2, <2>3
<1>5. Fits(Added(w, "200")) /\ Fits(Added(w, "303"))
  <2>1. ASSUME NEW s \in {"200", "303"} PROVE Fits(Added(w, s))
    <3>1. CASE Has(w, "git") /\ Has(w, "last")
      BY <1>2, <3>1, QuietDoes DEF Added, Answer
    <3>2. CASE ~(Has(w, "git") /\ Has(w, "last"))
      BY <3>2, QuietDoes DEF Added, Answer, Halfway
    <3> QED BY <3>1, <3>2
  <2> QED BY <2>1
<1>6. Fits(Upgraded(w))
  <2>1. Upgraded(w).status = "200" \/ Upgraded(w).does \subseteq Halfway
    BY DEF Upgraded, Answer, Halfway
  <2>2. \/ Upgraded(w).status = "200" \/ ~Has(w, "git") \/ Is(w, "push") \/ Upgraded(w).does = {}
    BY DEF Upgraded, Answer
  <2> QED BY <1>2, <2>1, <2>2, QuietDoes
<1> HIDE DEF Fits
<1>7. Orderly(w, ApplyImport(w)) /\ Orderly(w, ApiApplyImport(w))
  BY <1>1, <1>3, <1>4, UpdateActs
<1>8. Orderly(w, ApplyBatch(w)) /\ Orderly(w, ApiApplyBatch(w))
  BY <1>1, <1>3, UpdateActs
<1>9. Orderly(w, ApiApplyComponent(w))
  BY <1>1, <1>5, UpdateActs
<1>10. Orderly(w, AddComponent(w))
  BY <1>1, <1>5, OtherActs
<1>11. Orderly(w, ApiApplyUpgrade(w))
  BY <1>1, <1>6, OtherActs
<1> QED BY <1>7, <1>8, <1>9, <1>10, <1>11

LEMMA OrderlyQueue ==
  ASSUME NEW w \in AnyWorld
  PROVE  /\ \A a \in {LivePlan(w), RequestEnvironment(w), RequestSandbox(w), ConfirmDrift(w), ApiVendEnvironment(w),
                      ApiVendComponent(w)} : Orderly(w, a)
         /\ \A kind : Orderly(w, ApiSubmitRun(w, kind))
<1>1. "202" \notin Errors /\ "303" \notin Errors
  BY DEF Errors
<1>2. ASSUME NEW kind, NEW s \in {"202", "303"}, NEW a, NEW allowed \in {Generators, Admins}, NEW c \in BOOLEAN,
             NEW d \in BOOLEAN, d => Has(w, "queue"),
             \/ Acts(w, a, Open(w, allowed) /\ (c /\ d), Answer(s, {QueuedRun(w, kind)}))
             \/ Acts(w, a, Asks(w, allowed) /\ (c /\ d), Answer(s, {QueuedRun(w, kind)})),
             c => Takes(w)
      PROVE  Orderly(w, a)
  <2> DEFINE answer == Answer(s, {QueuedRun(w, kind)})
             condition == c /\ d
  <2>1. answer.does \subseteq {QueuedRun(w, kind)} /\ answer.status \notin Errors
    BY <1>1, Answered
  <2>2. condition => ~RefusedByQueue(w)
    BY <1>2 DEF Takes, RefusedByQueue
  <2>3. condition \in BOOLEAN
    OBVIOUS
  <2>4. \/ Acts(w, a, Open(w, allowed) /\ condition, answer)
        \/ Acts(w, a, Asks(w, allowed) /\ condition, answer)
    BY <1>2
  <2> HIDE DEF answer, condition
  <2> QED BY <2>1, <2>2, <2>3, <2>4, QueuedAnswer
<1>3. Takes(w) \in BOOLEAN
  BY DEF Takes
<1>4. Orderly(w, LivePlan(w))
  <2>1. Acts(w, LivePlan(w), Open(w, Generators) /\ (Takes(w) /\ (Has(w, "queue") /\ Has(w, "enabled"))),
             Answer("303", {QueuedRun(w, "live_plan")}))
    BY QueueActs
  <2> QED BY <1>2, <1>3, <2>1
<1>5. Orderly(w, RequestEnvironment(w))
  <2>1. Acts(w, RequestEnvironment(w), Open(w, Generators) /\ (Takes(w) /\ (Has(w, "queue") /\ Has(w, "enabled"))),
             Answer("303", {QueuedRun(w, "environment_vend")}))
    BY QueueActs
  <2> QED BY <1>2, <1>3, <2>1
<1>6. Orderly(w, RequestSandbox(w))
  <2>1. Acts(w, RequestSandbox(w),
             Open(w, Generators) /\ (Takes(w) /\ (Has(w, "enabled") /\ Has(w, "queue") /\ Has(w, "target"))),
             Answer("303", {QueuedRun(w, "environment_vend")}))
    BY QueueActs
  <2> QED BY <1>2, <1>3, <2>1
<1>7. Orderly(w, ConfirmDrift(w))
  <2>1. Acts(w, ConfirmDrift(w), Open(w, Admins) /\ (Takes(w) /\ (Has(w, "queue") /\ Behind(w))),
             Answer("303", {QueuedRun(w, "fleet_drift_confirm")}))
    BY QueueActs
  <2> QED BY <1>2, <1>3, <2>1
<1>8. Orderly(w, ApiVendEnvironment(w))
  <2>1. Acts(w, ApiVendEnvironment(w),
             Asks(w, Generators)
               /\ (Takes(w) /\ (Has(w, "queue") /\ Has(w, "enabled") /\ Has(w, "body") /\ Has(w, "target"))),
             Answer("202", {QueuedRun(w, "environment_vend")}))
    BY QueueActs
  <2> QED BY <1>2, <1>3, <2>1
<1>9. Orderly(w, ApiVendComponent(w))
  <2>1. Acts(w, ApiVendComponent(w),
             Asks(w, Generators)
               /\ (Takes(w) /\ (Has(w, "queue") /\ Has(w, "enabled") /\ Has(w, "body") /\ Has(w, "target"))),
             Answer("202", {QueuedRun(w, "component_vend")}))
    BY QueueActs
  <2> QED BY <1>2, <1>3, <2>1
<1>10. ASSUME NEW kind PROVE Orderly(w, ApiSubmitRun(w, kind))
  <2> DEFINE answer == Answer("202", IF Is(w, "repeat") THEN {} ELSE {QueuedRun(w, kind)})
             d == Has(w, "queue") /\ Has(w, "body") /\ Named(w, kind) /\ Supported(w, kind)
             condition == Accepts(w) /\ d
  <2>1. answer.does \subseteq {QueuedRun(w, kind)} /\ answer.status \notin Errors
    BY <1>1, Answered
  <2>2. condition /\ answer.does # {} => ~RefusedByQueue(w)
    BY Answered DEF Accepts, Roomy, RefusedByQueue
  <2>3. condition \in BOOLEAN
    OBVIOUS
  <2>4. Acts(w, ApiSubmitRun(w, kind), Asks(w, Generators) /\ condition, answer)
    BY QueueActs
  <2> HIDE DEF answer, condition
  <2> QED BY <2>1, <2>2, <2>3, <2>4, QueuedAnswer
<1> QED BY <1>4, <1>5, <1>6, <1>7, <1>8, <1>9, <1>10

(* A generation that executes here is none the workers should execute, and   *)
(* takes nothing of the queue.                                               *)
LEMMA ExecutedAnswer ==
  ASSUME NEW w \in AnyWorld, NEW a, NEW condition \in BOOLEAN, NEW answer,
         \/ Acts(w, a, Open(w, Generators) /\ condition, answer)
         \/ Acts(w, a, Asks(w, Generators) /\ condition, answer),
         answer = Renders(w), ~Is(w, "worker") \/ ~condition
  PROVE  Orderly(w, a)
<1>1. Generators # Everyone
  BY DEF Generators, Everyone
<1>2. answer.does = {Executed(w)} /\ answer.status \notin Errors
  BY DEF Renders, Answer, Errors
<1>3. Queued(answer.does) = {}
  BY <1>2, QueuedEffects DEF Queued
<1>4. a.does # {} => condition /\ a = answer
  BY DEF Acts
<1>5. a.does # {} /\ Has(w, "auth") => w.caller # "nobody" /\ w.caller # "viewer"
  BY <1>1, Permitted DEF Acts
<1>6. a.status = "login" => Has(w, "auth")
  BY DEF Acts
<1>7. Queued(a.does) = {}
  BY <1>3, <1>4 DEF Queued
<1> QED BY <1>2, <1>4, <1>5, <1>6, <1>7 DEF Orderly

LEMMA OrderlyGenerations ==
  ASSUME NEW w \in AnyWorld
  PROVE  Orderly(w, GenerateBundle(w)) /\ Orderly(w, Generate(w)) /\ Orderly(w, ApiGenerate(w))
<1>1. "200" \notin Errors /\ "202" \notin Errors /\ "303" \notin Errors
  BY DEF Errors
<1>2. Queues(w).does = {QueuedRun(w, "generate")} /\ Queues(w).status \notin Errors
  BY <1>1, Answered DEF Queues
<1>3. Orderly(w, GenerateBundle(w))
  <2> DEFINE condition == BundleWhen(w) /\ Has(w, "found")
  <2>1. Acts(w, GenerateBundle(w), Open(w, Generators) /\ condition, BundleThen(w)) /\ condition \in BOOLEAN
    BY GenerationActs
  <2>2. CASE Is(w, "worker")
    <3>1. BundleThen(w) = Queues(w) /\ (condition => ~RefusedByQueue(w))
      BY <2>2 DEF BundleThen, BundleWhen, RefusedByQueue, Free
    <3> HIDE DEF condition
    <3> QED BY <1>2, <2>1, <3>1, QueuedAnswer
  <2>3. CASE ~Is(w, "worker")
    <3>1. BundleThen(w) = Renders(w)
      BY <2>3 DEF BundleThen
    <3> HIDE DEF condition
    <3> QED BY <2>1, <2>3, <3>1, ExecutedAnswer
  <2> QED BY <2>2, <2>3
<1>4. Orderly(w, Generate(w))
  <2> DEFINE condition == PageWhen(w) /\ Has(w, "found")
  <2>1. Acts(w, Generate(w), Open(w, Generators) /\ condition, PageNext(w)) /\ condition \in BOOLEAN
    BY GenerationActs
  <2>2. CASE Is(w, "worker") \/ Streams(w)
    <3>1. PageNext(w) = Queues(w) /\ (condition => ~RefusedByQueue(w))
      BY <2>2 DEF PageNext, PageWhen, Streams, RefusedByQueue, Free
    <3> HIDE DEF condition
    <3> QED BY <1>2, <2>1, <3>1, QueuedAnswer
  <2>3. CASE ~(Is(w, "worker") \/ Streams(w))
    <3>1. PageNext(w) = Renders(w)
      BY <2>3 DEF PageNext
    <3> HIDE DEF condition
    <3> QED BY <2>1, <2>3, <3>1, ExecutedAnswer
  <2> QED BY <2>2, <2>3
<1>5. Orderly(w, ApiGenerate(w))
  <2> DEFINE condition == ApiWhen(w) /\ (Has(w, "body") /\ Has(w, "target"))
  <2>1. Acts(w, ApiGenerate(w), Asks(w, Generators) /\ condition, ApiNext(w)) /\ condition \in BOOLEAN
    BY GenerationActs
  <2>2. CASE Is(w, "async")
    <3>1. ApiNext(w).does \subseteq {QueuedRun(w, "generate")} /\ ApiNext(w).status \notin Errors
      BY <1>1, <2>2 DEF ApiNext, Answer
    <3>2. condition /\ ApiNext(w).does # {} => ~RefusedByQueue(w)
      BY <2>2 DEF ApiNext, ApiWhen, Answer, Accepts, Roomy, RefusedByQueue
    <3> HIDE DEF condition
    <3> QED BY <2>1, <3>1, <3>2, QueuedAnswer
  <2>3. CASE ~Is(w, "async")
    <3>1. ApiNext(w) = Renders(w) /\ (condition => ~Is(w, "worker"))
      BY <2>3 DEF ApiNext, ApiWhen, Shared
    <3> HIDE DEF condition
    <3> QED BY <2>1, <3>1, ExecutedAnswer
  <2> QED BY <2>2, <2>3
<1> QED BY <1>3, <1>4, <1>5

LEMMA OrderlyOthers ==
  ASSUME NEW w \in AnyWorld
  PROVE  Orderly(w, ApiOrgScan(w)) /\ Orderly(w, PortalReclaim(w))
<1>1. "200" \notin Errors /\ "202" \notin Errors /\ "303" \notin Errors
  BY DEF Errors
<1>2. Orderly(w, ApiOrgScan(w))
  <2> DEFINE condition == ScanWhen(w) /\ (Has(w, "body") /\ Has(w, "target") /\ Has(w, "token") /\ Has(w, "valid"))
  <2>1. Acts(w, ApiOrgScan(w), Asks(w, Generators) /\ condition, ScanNext(w)) /\ condition \in BOOLEAN
    BY OtherActs
  <2>2. ScanNext(w).does \subseteq {QueuedRun(w, "org_scan")} /\ ScanNext(w).status \notin Errors
    BY <1>1 DEF ScanNext, Answer, Shown, Refuse
  <2>3. condition /\ ScanNext(w).does # {} => ~RefusedByQueue(w)
    BY Answered DEF ScanNext, ScanWhen, Takes, RefusedByQueue
  <2> HIDE DEF condition
  <2> QED BY <2>1, <2>2, <2>3, QueuedAnswer
<1>3. Orderly(w, PortalReclaim(w))
  <2> DEFINE condition == ReclaimWhen(w) /\ Has(w, "enabled")
  <2>1. Acts(w, PortalReclaim(w), Open(w, Admins) /\ condition, ReclaimNext(w)) /\ condition \in BOOLEAN
    BY OtherActs
  <2>2. ReclaimNext(w).status \notin Errors
    BY <1>1 DEF ReclaimNext, Answer
  <2>3. CASE ~Is(w, "dry") /\ Has(w, "queue")
    <3>1. ReclaimNext(w).does = {QueuedRun(w, "environment_reclaim")} /\ (condition => ~RefusedByQueue(w))
      BY <2>3 DEF ReclaimNext, ReclaimWhen, Answer, Free, RefusedByQueue
    <3> HIDE DEF condition
    <3> QED BY <2>1, <2>2, <3>1, QueuedAnswer
  <2>4. CASE ~(~Is(w, "dry") /\ Has(w, "queue"))
    <3>1. <<"reclaimed", "environments">> \in Unqueued
      BY DEF Unqueued
    <3>2. ReclaimNext(w).does \subseteq Unqueued
      BY <2>4, <3>1 DEF ReclaimNext, Answer
    <3> HIDE DEF condition
    <3> QED BY <2>1, <2>2, <3>2, QuietAnswer
  <2> QED BY <2>3, <2>4
<1> QED BY <1>2, <1>3

(* A form's request differs from the world it comes from in what is queued.  *)
LEMMA AsFormFacts ==
  ASSUME NEW w \in AnyWorld, NEW queues
  PROVE  LET v == AsForm(w, queues)
         IN /\ v \in AnyWorld /\ v.caller = w.caller
            /\ \A x : Has(v, x) = Has(w, x)
            /\ \A x : x # "async" => (Is(v, x) <=> Is(w, x))
            /\ Is(v, "async") <=> queues
            /\ \A k : QueuedRun(v, k) = QueuedRun(w, k)
            /\ Executed(v) = Executed(w)
<1> DEFINE v == AsForm(w, queues)
<1>1. /\ v.caller = w.caller /\ v.lacks = w.lacks
      /\ v.mode = IF queues THEN w.mode \cup {"async"} ELSE w.mode \ {"async"}
      /\ v = [caller |-> v.caller, lacks |-> v.lacks, mode |-> v.mode]
  BY DEF AsForm, AnyWorld
<1>2. v \in AnyWorld
  <2>1. "async" \in Modes
    BY DEF Modes
  <2>2. w.caller \in Callers /\ w.lacks \in SUBSET Things /\ w.mode \in SUBSET Modes
    BY DEF AnyWorld
  <2>3. v.mode \in SUBSET Modes
    BY <1>1, <2>1, <2>2
  <2> QED BY <1>1, <2>2, <2>3 DEF AnyWorld
<1> HIDE DEF v
<1>3. \A x : Has(v, x) = Has(w, x)
  BY <1>1 DEF Has
<1>4. /\ \A x : x # "async" => (Is(v, x) <=> Is(w, x))
      /\ Is(v, "async") <=> queues
  BY <1>1 DEF Is
<1>5. Is(v, "dry") <=> Is(w, "dry")
  BY <1>4
<1>6. (\A k : QueuedRun(v, k) = QueuedRun(w, k)) /\ Executed(v) = Executed(w)
  BY <1>5 DEF QueuedRun, Executed
<1> QED BY <1>1, <1>2, <1>3, <1>4, <1>6 DEF v

LEMMA EveryChange ==
  ASSUME NEW w \in AnyWorld
  PROVE  \A a \in Changes(w) : Orderly(w, a)
<1>1. \A queues : Orderly(w, ApiGenerate(AsForm(w, queues)))
  <2> TAKE queues
  <2> DEFINE v == AsForm(w, queues)
             a == ApiGenerate(v)
  <2>1. Orderly(v, a)
    BY AsFormFacts, OrderlyGenerations
  <2>2. /\ v.caller = w.caller /\ (Is(v, "worker") <=> Is(w, "worker")) /\ (Is(v, "push") <=> Is(w, "push"))
        /\ RefusedByQueue(v) <=> RefusedByQueue(w)
        /\ Has(v, "last") = Has(w, "last") /\ Has(v, "git") = Has(w, "git") /\ Has(v, "auth") = Has(w, "auth")
    BY AsFormFacts DEF RefusedByQueue
  <2> HIDE DEF v, a
  <2>3. Orderly(w, a)
    BY <2>1, <2>2 DEF Orderly
  <2> QED BY <2>3 DEF a, v
<1>2. \A t \in Generations(w) : Orderly(w, t[1]) /\ Orderly(w, t[2])
  BY <1>1, OrderlyGenerations DEF Generations
<1>3. \A t \in Twins(w) : Orderly(w, t[1]) /\ Orderly(w, t[2])
  <2> SUFFICES ASSUME NEW t \in Twins(w) PROVE Orderly(w, t[1]) /\ Orderly(w, t[2])
    OBVIOUS
  <2> DEFINE queued == {<<LivePlan(w), ApiSubmitRun(w, "live_plan")>>,
                        <<RequestSandbox(w), ApiVendEnvironment(w)>>,
                        <<RequestEnvironment(w), ApiSubmitRun(w, "environment_vend")>>,
                        <<ConfirmDrift(w), ApiSubmitRun(w, "fleet_drift_confirm")>>}
             gates == {<<PlanUpdate(w), ApiPlanUpgrade(w)>>, <<PlanImport(w), ApiPlanImport(w)>>,
                       <<PlanBatch(w), ApiPlanBatch(w)>>, <<Verify(w), ApiVerify(w)>>}
             halfway == {<<ApplyImport(w), ApiApplyImport(w)>>, <<ApplyBatch(w), ApiApplyBatch(w)>>}
             admin == {<<ReplayRun(w), ApiReplay(w)>>, <<RegisterFleet(w), ApiRegisterFleet(w)>>,
                       <<UnregisterFleet(w), ApiUnregisterFleet(w)>>, <<PauseCampaign(w), ApiPauseCampaign(w)>>,
                       <<CreateInitiative(w), ApiCreateInitiative(w)>>, <<UpdateInitiative(w), ApiUpdateInitiative(w)>>,
                       <<DeactivateInitiative(w), ApiDeactivateInitiative(w)>>}
  <2>1. t \in queued \cup gates \cup halfway \cup admin
    BY Zenon DEF Twins
  <2>2. CASE t \in queued
    BY <2>2, OrderlyQueue
  <2>3. CASE t \in gates
    BY <2>3, OrderlyGates
  <2>4. CASE t \in halfway
    BY <2>4, OrderlyHalfway
  <2>5. CASE t \in admin
    BY <2>5, OrderlyAdmin
  <2> QED BY <2>1, <2>2, <2>3, <2>4, <2>5
<1> DEFINE pairs == Twins(w) \cup Generations(w)
           rest == {ApiGenerate(w), ApiApplyUpgrade(w), AddComponent(w), ApiApplyComponent(w), ApiOrgScan(w),
                    ApiVendComponent(w), PortalReclaim(w), ApiReclaim(w, "environments"),
                    ApiReclaim(w, "components"), ApiFeedback(w), ApiMetrics(w)}
<1>4. \A a \in rest : Orderly(w, a)
  BY OrderlyGenerations, OrderlyHalfway, OrderlyOthers, OrderlyQueue, OrderlyAdmin
<1>5. \A t \in pairs : Orderly(w, t[1]) /\ Orderly(w, t[2])
  BY <1>2, <1>3
<1> DEFINE both == UNION {{t[1], t[2]} : t \in pairs}
           runs == {ApiSubmitRun(w, kind) : kind \in RunKinds}
<1>6. Changes(w) = both \cup runs \cup rest
  BY Zenon DEF Changes
<1>7. \A a \in both : Orderly(w, a)
  <2>1. \A a \in both : \E t \in pairs : a = t[1] \/ a = t[2]
    OBVIOUS
  <2> QED BY <1>5, <2>1
<1>8. \A a \in runs : Orderly(w, a)
  BY OrderlyQueue
<1> HIDE DEF both, runs, rest
<1> QED BY <1>4, <1>6, <1>7, <1>8

-----------------------------------------------------------------------------
(* A look does nothing, or finishes a stalled run; a stranger's look does    *)
(* nothing, and nobody is sent to log in without need.                       *)
Looks(w, a) ==
  /\ a.does \subseteq {<<"recovered">>}
  /\ Has(w, "auth") /\ w.caller = "nobody" => a.does = {}
  /\ a.status = "login" => Has(w, "auth")

Still(a) == a.does = {} /\ a.status # "login"

LEMMA StillAnswers ==
  /\ Shown.does = {} /\ Shown.status = "200"
  /\ \A w, a : Still(a) /\ a.status # "401" => Looks(w, Served(w, a))
  /\ \A w, a : Still(a) => Looks(w, a)
BY Refusals DEF Still, Looks, Served, Shown, Refuse, Answer

(* A page of its own, whose checks do not ask who looks. *)
LEMMA OpenPage ==
  ASSUME NEW w, NEW thing, NEW s, s # "401", s # "login"
  PROVE  Looks(w, Served(w, Checked(<<<<Has(w, thing), s>>>>, Shown)))
<1> DEFINE a == Checked(<<<<Has(w, thing), s>>>>, Shown)
<1>1. Sound(<<<<Has(w, thing), s>>>>, Has(w, thing))
  BY Truths, Sound1
<1>2. Yields(a, Has(w, thing), Shown)
  BY <1>1, Tried
<1>3. Still(a) /\ a.status # "401"
  BY <1>2, StillAnswers DEF Yields, Still
<1> HIDE DEF a
<1> QED BY <1>3, StillAnswers DEF a

(* An answer that shows something to those who may see it. *)
LEMMA ShownAnswer ==
  ASSUME NEW w \in AnyWorld, NEW a, NEW c \in BOOLEAN, NEW answer, Acts(w, a, c, answer), answer.does = {}
  PROVE  Looks(w, a)
BY DEF Looks, Acts

LEMMA OpenViews ==
  ASSUME NEW w \in AnyWorld
  PROVE  \A a \in {CatalogPage(w), EntityPage(w), FeaturePage(w), FormPage(w), PublicPage(w)} : Looks(w, a)
<1>1. Looks(w, CatalogPage(w))
  BY StillAnswers DEF CatalogPage, Still
<1>2. Looks(w, EntityPage(w))
  BY OpenPage DEF EntityPage
<1>3. Looks(w, FeaturePage(w))
  BY OpenPage DEF FeaturePage
<1>4. Looks(w, FormPage(w))
  BY OpenPage DEF FormPage
<1>5. Looks(w, PublicPage(w))
  BY Refusals, StillAnswers DEF PublicPage, Still
<1> QED BY <1>1, <1>2, <1>3, <1>4, <1>5

(* What the pages and readings ask for before they show something. *)
LEMMA Readings ==
  ASSUME NEW w \in AnyWorld
  PROVE  \A a \in {ListRuns(w), AdminPage(w), StandardDetail(w), ApiListRuns(w), ApiPage(w), ApiFeature(w),
                   ApiEntity(w), ApiBundle(w), ApiAssistant(w), ApiTeams(w), ApiAdminPage(w), ApiReport(w),
                   ApiExport(w), ApiPlanComponent(w)} : Looks(w, a)
<1>0. Shown.does = {} /\ Shown.status = "200" /\ Shown.status # "login" /\ Shown.status \notin {"401", "login"}
  BY StillAnswers
<1>1. ASSUME NEW allowed \in SUBSET Everyone, NEW checks, NEW condition, Sound(checks, condition)
      PROVE  /\ Looks(w, Api(w, allowed, checks, Shown))
             /\ Looks(w, Served(w, Checked(Required(w, allowed) \o checks, Shown)))
  <2>1. condition \in BOOLEAN
    BY <1>1 DEF Sound
  <2>2. Acts(w, Api(w, allowed, checks, Shown), Asks(w, allowed) /\ condition, Shown)
    BY <1>0, <1>1, ApiActs
  <2>3. Acts(w, Served(w, Checked(Required(w, allowed) \o checks, Shown)), Open(w, allowed) /\ condition, Shown)
    BY <1>0, <1>1, PageActs
  <2> QED BY <1>0, <2>2, <2>3 DEF Looks, Acts
<1>2. Looks(w, ListRuns(w)) /\ Looks(w, ApiListRuns(w))
  <2>1. Sound(<<<<Has(w, "queue"), "503">>, <<Has(w, "valid"), "400">>>>, Has(w, "queue") /\ Has(w, "valid"))
    BY Truths, Sound2
  <2> QED BY <1>1, <2>1, Roles, Zenon DEF ListRuns, ApiListRuns, Read
<1>3. Looks(w, AdminPage(w)) /\ Looks(w, ApiPage(w)) /\ Looks(w, ApiAdminPage(w))
  BY <1>1, Sound0, Roles, Zenon DEF AdminPage, AsAdmin, ApiPage, ApiAdminPage, Read, Admin
<1>4. Looks(w, StandardDetail(w)) /\ Looks(w, ApiEntity(w))
  <2>1. Sound(<<<<Has(w, "found"), "404">>>>, Has(w, "found"))
    BY Truths, Sound1
  <2> QED BY <1>1, <2>1, Roles, Zenon DEF StandardDetail, AsAdmin, ApiEntity, Read
<1>5. Looks(w, ApiFeature(w)) /\ Looks(w, ApiReport(w))
  <2>1. Sound(<<<<Has(w, "enabled"), "404">>>>, Has(w, "enabled"))
    BY Truths, Sound1
  <2> QED BY <1>1, <2>1, Roles, Zenon DEF ApiFeature, ApiReport, Read, Admin
<1>6. Looks(w, ApiBundle(w))
  <2>1. Sound(<<<<Has(w, "found"), "404">>, <<Has(w, "valid"), "400">>>>, Has(w, "found") /\ Has(w, "valid"))
    BY Truths, Sound2
  <2> QED BY <1>1, <2>1, Roles, Zenon DEF ApiBundle, Read
<1>7. Looks(w, ApiAssistant(w))
  <2>1. Sound(<<<<Has(w, "enabled"), "404">>, <<Has(w, "body"), "400">>, <<Has(w, "found"), "400">>>>,
              Has(w, "enabled") /\ Has(w, "body") /\ Has(w, "found"))
    BY SMTT(30), Truths, Sound3
  <2> QED BY <1>1, <2>1, Roles, Zenon DEF ApiAssistant
<1>8. Looks(w, ApiTeams(w))
  <2>1. Sound(<<<<Has(w, "target"), "400">>, <<Has(w, "token"), "503">>, <<Has(w, "last"), "502">>>>,
              Has(w, "target") /\ Has(w, "token") /\ Has(w, "last"))
    BY SMTT(30), Truths, Sound3
  <2> QED BY <1>1, <2>1, Roles, Zenon DEF ApiTeams, Read
<1>9. Looks(w, ApiExport(w))
  <2>1. Sound(<<<<Has(w, "enabled"), "404">>, <<Has(w, "valid"), "400">>>>, Has(w, "enabled") /\ Has(w, "valid"))
    BY Truths, Sound2
  <2> QED BY <1>1, <2>1, Roles, Zenon DEF ApiExport, Admin
<1>10. Looks(w, ApiPlanComponent(w))
  <2>1. Sound(ComponentChecks(w),
              Has(w, "body") /\ Has(w, "target") /\ Local(w) /\ Has(w, "found") /\ Has(w, "valid"))
    BY ComponentSound
  <2> QED BY <1>1, <2>1, Roles, Zenon DEF ApiPlanComponent
<1> QED BY <1>2, <1>3, <1>4, <1>5, <1>6, <1>7, <1>8, <1>9, <1>10

(* The assistant asks whether it is there before it asks who asks. *)
LEMMA AssistantLooks ==
  ASSUME NEW w \in AnyWorld
  PROVE  Looks(w, Assistant(w))
<1> DEFINE first == <<Has(w, "enabled"), "404">>
           second == <<~Has(w, "auth") \/ SessionUser(w) # "nobody", "401">>
           third == <<~Has(w, "auth") \/ SessionUser(w) \in Generators, "403">>
           checks == <<first>> \o <<second, third>>
           a == Checked(checks, Shown)
<1>1. Assistant(w) = Served(w, a)
  BY Zenon DEF Assistant, Required, RequireRole
<1>2. first[2] = "404" /\ second[2] = "401" /\ third[2] = "403" /\ (~second[1] => Has(w, "auth"))
  OBVIOUS
<1> HIDE DEF first, second, third
<1>3. DOMAIN checks = 1..3 /\ checks[1] = first /\ checks[2] = second /\ checks[3] = third
  <2>1. /\ <<first>> \in Seq({first, second, third}) /\ <<second, third>> \in Seq({first, second, third})
        /\ Len(<<first>>) = 1 /\ Len(<<second, third>>) = 2
        /\ <<first>>[1] = first /\ <<second, third>>[1] = second /\ <<second, third>>[2] = third
    OBVIOUS
  <2> QED BY <2>1
<1> HIDE DEF checks
<1>4. CASE Passed(checks)
  <2>1. a = Shown
    BY <1>3, <1>4, CheckedAnswer
  <2> QED BY <1>1, <2>1, StillAnswers DEF Still
<1>5. CASE ~Passed(checks)
  <2>1. PICK i \in 1..3 : ~checks[i][1] /\ a = Refuse(checks[i][2])
    BY <1>3, <1>5, CheckedAnswer
  <2>2. a.does = {} /\ a.status # "login" /\ (a.status = "401" => Has(w, "auth"))
    BY <1>2, <1>3, <2>1, Refusals
  <2> HIDE DEF a
  <2> QED BY <1>1, <2>2, Refusals DEF Looks, Served
<1> QED BY <1>4, <1>5

LEMMA RunChecksSound ==
  ASSUME NEW w
  PROVE  Sound(RunChecks(w), Has(w, "queue") /\ Has(w, "found"))
<1>1. Sound(<<<<Has(w, "queue"), "503">>, <<Has(w, "found"), "404">>>>, Has(w, "queue") /\ Has(w, "found"))
  BY Truths, Sound2
<1> QED BY <1>1, Zenon DEF RunChecks

(* A look at a run finishes one that stalled. *)
LEMMA RunLooks ==
  ASSUME NEW w \in AnyWorld, NEW run
  PROVE  Looks(w, RunConsole(w, run)) /\ Looks(w, ApiRun(w, run))
<1> DEFINE page == Answer(IF PageFails(run.kind) THEN "500" ELSE "200", Got(w, run))
           shown == Answer("200", Got(w, run))
           c == Has(w, "queue") /\ Has(w, "found")
<1>1. /\ page.status \notin {"401", "login"} /\ shown.status \notin {"401", "login"} /\ shown.status # "login"
      /\ page.does \subseteq {<<"recovered">>} /\ shown.does \subseteq {<<"recovered">>}
  BY Answered DEF Got
<1> HIDE DEF page, shown
<1>2. Acts(w, RunConsole(w, run), Open(w, Everyone) /\ c, page)
  BY <1>1, RunChecksSound, Roles, PageActs, Zenon DEF RunConsole, page
<1>3. Acts(w, ApiRun(w, run), Asks(w, Everyone) /\ c, shown)
  BY <1>1, RunChecksSound, Roles, ApiActs, Zenon DEF ApiRun, shown
<1>4. Has(w, "auth") /\ w.caller = "nobody" => ~Open(w, Everyone) /\ ~Asks(w, Everyone)
  BY Permitted
<1> QED BY <1>1, <1>2, <1>3, <1>4 DEF Acts, Looks

LEMMA EveryView ==
  ASSUME NEW w \in AnyWorld
  PROVE  \A a \in Views(w) : Looks(w, a)
<1> DEFINE pages == {CatalogPage(w), EntityPage(w), FeaturePage(w), FormPage(w), PublicPage(w)}
           readings == {ListRuns(w), AdminPage(w), StandardDetail(w), ApiListRuns(w), ApiPage(w), ApiFeature(w),
                        ApiEntity(w), ApiBundle(w), ApiAssistant(w), ApiTeams(w), ApiAdminPage(w), ApiReport(w),
                        ApiExport(w), ApiPlanComponent(w)}
           consoles == {RunConsole(w, run) : run \in ViewedRuns}
           runs == {ApiRun(w, run) : run \in ViewedRuns}
<1>1. Views(w) = {ListRuns(w), ApiListRuns(w), CatalogPage(w), EntityPage(w), FeaturePage(w), FormPage(w), Assistant(w),
                  AdminPage(w), StandardDetail(w), ApiPage(w), ApiFeature(w), ApiEntity(w), ApiBundle(w),
                  ApiAssistant(w), ApiTeams(w), ApiAdminPage(w), ApiReport(w), ApiExport(w), ApiPlanComponent(w),
                  PublicPage(w)} \cup consoles \cup runs
  BY Zenon DEF Views
<1>2. \A a \in consoles \cup runs : Looks(w, a)
  BY RunLooks
<1> HIDE DEF consoles, runs
<1>3. Views(w) \subseteq pages \cup readings \cup {Assistant(w)} \cup consoles \cup runs
  BY <1>1
<1>4. \A a \in pages : Looks(w, a)
  BY OpenViews, Zenon
<1>5. \A a \in readings : Looks(w, a)
  BY Readings, Zenon
<1> HIDE DEF pages, readings
<1> QED BY <1>2, <1>3, <1>4, <1>5, AssistantLooks

(* Only a result page that has nothing stored to show generates again. *)
LEMMA ResultPage ==
  ASSUME NEW w \in AnyWorld, NEW run \in ViewedRuns, RunResult(w, run).does \cap Executions # {}
  PROVE  ~Has(w, "stored") /\ run.kind = "generate" /\ StatusRead(w, run) = "succeeded"
<1> DEFINE again == run.kind \in {"generate", "bundle"} /\ ~Has(w, "stored")
           result == Answer("200", Got(w, run) \cup IF again THEN {Executed(w)} ELSE {})
           inner == IF StatusRead(w, run) \in {"queued", "running"} THEN Answer("303", {})
                    ELSE IF StatusRead(w, run) # "succeeded" THEN Answer("400", {})
                    ELSE IF PageFails(run.kind) THEN Answer("500", Got(w, run)) ELSE result
           c == Has(w, "queue") /\ Has(w, "found")
<1>1. result.status = "200" /\ result.does = Got(w, run) \cup IF again THEN {Executed(w)} ELSE {}
  BY DEF Answer
<1> HIDE DEF result
<1>2. inner.status \notin {"401", "login"}
  BY <1>1, Answered
<1>3. RunResult(w, run) = Served(w, Checked(Required(w, Everyone) \o RunChecks(w), inner))
  BY Zenon DEF RunResult, result
<1>4. inner.does \cap Executions # {} => StatusRead(w, run) = "succeeded" /\ again
  <2>1. Got(w, run) \cap Executions = {}
    BY QuietEffects DEF Got, Unqueued
  <2> QED BY <1>1, <2>1, Answered
<1> HIDE DEF inner
<1>5. Acts(w, RunResult(w, run), Open(w, Everyone) /\ c, inner)
  BY <1>2, <1>3, RunChecksSound, Roles, PageActs, Zenon
<1>6. run.kind \in {"generate", "live_plan", "component_vend"}
  BY DEF ViewedRuns
<1> QED BY <1>4, <1>5, <1>6 DEF Acts

(* A login attempt that fails is spent, and changes nothing else. *)
LEMMA CallbackErrors ==
  ASSUME NEW w, Callback(w).status \in Errors
  PROVE  Callback(w).does \subseteq {<<"session", "spent">>}
<1> DEFINE checks == <<<<Has(w, "auth"), "404">>, <<Has(w, "target"), "400">>>>
           inner == IF ~Has(w, "valid") THEN Answer("400", {<<"session", "spent">>})
                    ELSE IF ~Has(w, "last") THEN Answer("502", {<<"session", "spent">>})
                    ELSE Answer("302", {<<"session", "user">>})
<1>1. Sound(checks, Has(w, "auth") /\ Has(w, "target"))
  BY Truths, Sound2
<1>2. Yields(Checked(checks, inner), Has(w, "auth") /\ Has(w, "target"), inner)
  BY <1>1, Tried
<1>3. Callback(w) = IF ~Has(w, "html") THEN Refuse("410") ELSE Checked(checks, inner)
  BY Zenon DEF Callback
<1>4. inner.status \in Errors => inner.does \subseteq {<<"session", "spent">>}
  BY DEF Answer, Errors
<1> HIDE DEF checks, inner
<1> QED BY <1>2, <1>3, <1>4, Refusals DEF Yields

LEMMA LoginAnswers ==
  ASSUME NEW w, Has(w, "html")
  PROVE  /\ Has(w, "auth") => Login(w).does = {<<"session", "begun">>}
         /\ Logout(w).does = {<<"session", "cleared">>}
BY DEF Login, Logout, Answer

-----------------------------------------------------------------------------
(* Both surfaces do the same for the same request. *)
LEMMA Alike ==
  ASSUME NEW w \in AnyWorld, Comparable(w), NEW allowed, NEW a, NEW b, NEW c \in BOOLEAN, NEW d \in BOOLEAN,
         NEW x, NEW y, Acts(w, a, Open(w, allowed) /\ c, x), Acts(w, b, Asks(w, allowed) /\ d, y),
         c <=> d, c => x.does = y.does
  PROVE  a.does = b.does
<1>1. Open(w, allowed) <=> Asks(w, allowed)
  BY DEF Open, Asks, Comparable, SessionUser, AuthenticatedUser
<1> QED BY <1>1 DEF Acts

LEMMA SameEffect ==
  ASSUME NEW w \in AnyWorld, Comparable(w), NEW allowed, NEW a, NEW b, NEW c \in BOOLEAN, NEW d \in BOOLEAN,
         NEW s, NEW t, NEW does, Acts(w, a, Open(w, allowed) /\ c, Answer(s, does)),
         Acts(w, b, Asks(w, allowed) /\ d, Answer(t, does)), c <=> d
  PROVE  a.does = b.does
<1> DEFINE x == Answer(s, does)
           y == Answer(t, does)
<1>1. x.does = y.does
  BY DEF Answer
<1> HIDE DEF x, y
<1>2. Acts(w, a, Open(w, allowed) /\ c, x) /\ Acts(w, b, Asks(w, allowed) /\ d, y)
  BY DEF x, y
<1> QED BY <1>1, <1>2, Alike

LEMMA QueueAlike ==
  ASSUME NEW w \in AnyWorld, Comparable(w)
  PROVE  /\ LivePlan(w).does = ApiSubmitRun(w, "live_plan").does
         /\ RequestSandbox(w).does = ApiVendEnvironment(w).does
         /\ RequestEnvironment(w).does = ApiSubmitRun(w, "environment_vend").does
         /\ w.caller = "admin" => ConfirmDrift(w).does = ApiSubmitRun(w, "fleet_drift_confirm").does
<1>1. /\ Takes(w) \in BOOLEAN /\ Accepts(w) \in BOOLEAN /\ (Takes(w) <=> Accepts(w))
      /\ Has(w, "body") /\ Has(w, "target") /\ Behind(w)
      /\ \A kind : Named(w, kind)
      /\ ~Is(w, "repeat")
  BY DEF Comparable, Takes, Accepts, Roomy, Behind, Named
<1>2. /\ Supported(w, "live_plan") <=> Has(w, "enabled")
      /\ Supported(w, "environment_vend") <=> Has(w, "enabled")
      /\ Supported(w, "fleet_drift_confirm")
  BY DEF Supported, Configured
<1>3. \A s, kind : Answer(s, {QueuedRun(w, kind)}).does = {QueuedRun(w, kind)}
  BY DEF Answer
<1>4. ASSUME NEW kind
      PROVE  LET d == Accepts(w) /\ (Has(w, "queue") /\ Has(w, "body") /\ Named(w, kind) /\ Supported(w, kind))
             IN Acts(w, ApiSubmitRun(w, kind), Asks(w, Generators) /\ d, Answer("202", {QueuedRun(w, kind)}))
  <2> DEFINE d == Accepts(w) /\ (Has(w, "queue") /\ Has(w, "body") /\ Named(w, kind) /\ Supported(w, kind))
             runs == IF Is(w, "repeat") THEN {} ELSE {QueuedRun(w, kind)}
  <2>1. Acts(w, ApiSubmitRun(w, kind), Asks(w, Generators) /\ d, Answer("202", runs))
    BY QueueActs
  <2>2. runs = {QueuedRun(w, kind)}
    BY <1>1
  <2> QED BY <2>1, <2>2
<1>5. LivePlan(w).does = ApiSubmitRun(w, "live_plan").does
  <2> DEFINE c == Takes(w) /\ (Has(w, "queue") /\ Has(w, "enabled"))
             d == Accepts(w) /\ (Has(w, "queue") /\ Has(w, "body") /\ Named(w, "live_plan")
                     /\ Supported(w, "live_plan"))
  <2>1. Acts(w, LivePlan(w), Open(w, Generators) /\ c, Answer("303", {QueuedRun(w, "live_plan")}))
    BY QueueActs
  <2>2. Acts(w, ApiSubmitRun(w, "live_plan"), Asks(w, Generators) /\ d, Answer("202", {QueuedRun(w, "live_plan")}))
    BY <1>4
  <2>3. c \in BOOLEAN /\ d \in BOOLEAN /\ (c <=> d)
    BY <1>1, <1>2
  <2> HIDE DEF c, d
  <2> QED BY <2>1, <2>2, <2>3, SameEffect, Zenon
<1>6. RequestEnvironment(w).does = ApiSubmitRun(w, "environment_vend").does
  <2> DEFINE c == Takes(w) /\ (Has(w, "queue") /\ Has(w, "enabled"))
             d == Accepts(w) /\ (Has(w, "queue") /\ Has(w, "body")
                               /\ Named(w, "environment_vend") /\ Supported(w, "environment_vend"))
  <2>1. Acts(w, RequestEnvironment(w), Open(w, Generators) /\ c, Answer("303", {QueuedRun(w, "environment_vend")}))
    BY QueueActs
  <2>2. Acts(w, ApiSubmitRun(w, "environment_vend"), Asks(w, Generators) /\ d,
             Answer("202", {QueuedRun(w, "environment_vend")}))
    BY <1>4
  <2>3. c \in BOOLEAN /\ d \in BOOLEAN /\ (c <=> d)
    BY <1>1, <1>2
  <2> HIDE DEF c, d
  <2> QED BY <2>1, <2>2, <2>3, SameEffect, Zenon
<1>7. RequestSandbox(w).does = ApiVendEnvironment(w).does
  <2> DEFINE c == Takes(w) /\ (Has(w, "enabled") /\ Has(w, "queue") /\ Has(w, "target"))
             d == Takes(w) /\ (Has(w, "queue") /\ Has(w, "enabled") /\ Has(w, "body") /\ Has(w, "target"))
  <2>1. Acts(w, RequestSandbox(w), Open(w, Generators) /\ c, Answer("303", {QueuedRun(w, "environment_vend")}))
    BY QueueActs
  <2>2. Acts(w, ApiVendEnvironment(w), Asks(w, Generators) /\ d, Answer("202", {QueuedRun(w, "environment_vend")}))
    BY QueueActs
  <2>3. c \in BOOLEAN /\ d \in BOOLEAN /\ (c <=> d)
    BY <1>1
  <2> HIDE DEF c, d
  <2> QED BY <2>1, <2>2, <2>3, SameEffect, Zenon
<1>8. w.caller = "admin" => ConfirmDrift(w).does = ApiSubmitRun(w, "fleet_drift_confirm").does
  <2> DEFINE c == Takes(w) /\ (Has(w, "queue") /\ Behind(w))
             d == Accepts(w) /\ (Has(w, "queue") /\ Has(w, "body")
                               /\ Named(w, "fleet_drift_confirm") /\ Supported(w, "fleet_drift_confirm"))
  <2>1. Acts(w, ConfirmDrift(w), Open(w, Admins) /\ c, Answer("303", {QueuedRun(w, "fleet_drift_confirm")}))
    BY QueueActs
  <2>2. Acts(w, ApiSubmitRun(w, "fleet_drift_confirm"), Asks(w, Generators) /\ d,
             Answer("202", {QueuedRun(w, "fleet_drift_confirm")}))
    BY <1>4
  <2>3. c \in BOOLEAN /\ d \in BOOLEAN /\ (c <=> d)
    BY <1>1, <1>2
  <2>4. w.caller = "admin" => Open(w, Admins) /\ Asks(w, Generators)
    BY DEF Open, Asks, Permits, SessionUser, AuthenticatedUser, Admins, Generators, Comparable
  <2> HIDE DEF c, d
  <2> QED BY <1>3, <2>1, <2>2, <2>3, <2>4 DEF Acts
<1> QED BY <1>5, <1>6, <1>7, <1>8

LEMMA UpdatesAlike ==
  ASSUME NEW w \in AnyWorld, Comparable(w)
  PROVE  /\ PlanUpdate(w).does = ApiPlanUpgrade(w).does
         /\ PlanImport(w).does = ApiPlanImport(w).does /\ ApplyImport(w).does = ApiApplyImport(w).does
         /\ PlanBatch(w).does = ApiPlanBatch(w).does /\ ApplyBatch(w).does = ApiApplyBatch(w).does
         /\ Verify(w).does = ApiVerify(w).does
<1>1. Has(w, "body") /\ Has(w, "target") /\ Local(w)
  BY DEF Comparable, Local
<1>3. Imported(w, "200", "200").does = Imported(w, "200", "400").does
  BY MixedAnswers
<1>4. PlanUpdate(w).does = ApiPlanUpgrade(w).does
  <2> DEFINE c == Has(w, "target") /\ Local(w) /\ Has(w, "valid")
             d == Has(w, "body") /\ Has(w, "target") /\ Has(w, "valid")
  <2>1. /\ Acts(w, PlanUpdate(w), Open(w, Generators) /\ c, Answer("200", {<<"gates run">>}))
        /\ Acts(w, ApiPlanUpgrade(w), Asks(w, Generators) /\ d, Answer("200", {<<"gates run">>}))
    BY UpdateActs
  <2>2. c \in BOOLEAN /\ d \in BOOLEAN /\ (c <=> d)
    BY <1>1
  <2> HIDE DEF c, d
  <2> QED BY <2>1, <2>2, SameEffect, Zenon
<1>5. PlanImport(w).does = ApiPlanImport(w).does
  <2> DEFINE c == Has(w, "target") /\ Has(w, "plan") /\ Has(w, "valid")
             d == Has(w, "body") /\ Has(w, "target") /\ Has(w, "plan") /\ Has(w, "valid")
  <2>1. /\ Acts(w, PlanImport(w), Open(w, Generators) /\ c, Answer("200", {<<"gates run">>}))
        /\ Acts(w, ApiPlanImport(w), Asks(w, Generators) /\ d, Answer("200", {<<"gates run">>}))
    BY UpdateActs
  <2>2. c \in BOOLEAN /\ d \in BOOLEAN /\ (c <=> d)
    BY <1>1
  <2> HIDE DEF c, d
  <2> QED BY <2>1, <2>2, SameEffect, Zenon
<1>6. ApplyImport(w).does = ApiApplyImport(w).does
  <2> DEFINE c == Has(w, "token") /\ Has(w, "target") /\ Has(w, "plan") /\ Has(w, "valid")
             d == Has(w, "body") /\ Has(w, "target") /\ Has(w, "token") /\ Has(w, "plan") /\ Has(w, "valid")
  <2>1. /\ Acts(w, ApplyImport(w), Open(w, Generators) /\ c, Imported(w, "200", "200"))
        /\ Acts(w, ApiApplyImport(w), Asks(w, Generators) /\ d, Imported(w, "200", "400"))
    BY UpdateActs
  <2>2. c \in BOOLEAN /\ d \in BOOLEAN /\ (c <=> d)
    BY <1>1
  <2> HIDE DEF c, d
  <2> QED BY <1>3, <2>1, <2>2, Alike
<1>7. PlanBatch(w).does = ApiPlanBatch(w).does
  <2> DEFINE c == Has(w, "body") /\ Has(w, "target")
  <2>1. /\ Acts(w, PlanBatch(w), Open(w, Generators) /\ c, Answer("200", {<<"gates run">>}))
        /\ Acts(w, ApiPlanBatch(w), Asks(w, Generators) /\ c, Answer("200", {<<"gates run">>}))
        /\ c \in BOOLEAN
    BY UpdateActs
  <2> HIDE DEF c
  <2> QED BY <2>1, SameEffect, Zenon
<1>8. ApplyBatch(w).does = ApiApplyBatch(w).does
  <2> DEFINE c == Has(w, "token") /\ Has(w, "body") /\ Has(w, "target")
             d == Has(w, "body") /\ Has(w, "token") /\ Has(w, "target")
  <2>1. /\ Acts(w, ApplyBatch(w), Open(w, Generators) /\ c, BatchImported(w))
        /\ Acts(w, ApiApplyBatch(w), Asks(w, Generators) /\ d, BatchImported(w))
    BY UpdateActs
  <2>2. c \in BOOLEAN /\ d \in BOOLEAN /\ (c <=> d)
    OBVIOUS
  <2> HIDE DEF c, d
  <2> QED BY <2>1, <2>2, Alike
<1>9. Verify(w).does = ApiVerify(w).does
  <2> DEFINE c == Has(w, "target") /\ Has(w, "valid")
             d == Has(w, "body") /\ Has(w, "target") /\ Has(w, "valid")
             status == IF Has(w, "plan") THEN "200" ELSE "422"
  <2>1. /\ Acts(w, Verify(w), Open(w, Everyone) /\ c, Answer("200", {<<"gates run">>}))
        /\ Acts(w, ApiVerify(w), Asks(w, Everyone) /\ d, Answer(status, {<<"gates run">>}))
    BY UpdateActs
  <2>2. c \in BOOLEAN /\ d \in BOOLEAN /\ (c <=> d)
    BY <1>1
  <2> HIDE DEF c, d, status
  <2> QED BY <2>1, <2>2, SameEffect, Zenon
<1> QED BY <1>4, <1>5, <1>6, <1>7, <1>8, <1>9

LEMMA AdminAlike ==
  ASSUME NEW w \in AnyWorld, Comparable(w)
  PROVE  /\ ReplayRun(w).does = ApiReplay(w).does
         /\ RegisterFleet(w).does = ApiRegisterFleet(w).does
         /\ UnregisterFleet(w).does = ApiUnregisterFleet(w).does
         /\ PauseCampaign(w).does = ApiPauseCampaign(w).does
         /\ CreateInitiative(w).does = ApiCreateInitiative(w).does
         /\ UpdateInitiative(w).does = ApiUpdateInitiative(w).does
         /\ DeactivateInitiative(w).does = ApiDeactivateInitiative(w).does
<1>1. Has(w, "body") /\ Has(w, "target")
  BY DEF Comparable
<1>2. ReplayRun(w).does = ApiReplay(w).does
  <2> DEFINE does == {<<"replayed">>}
             c == Has(w, "queue") /\ Has(w, "found") /\ Has(w, "valid")
  <2>1. /\ Acts(w, ReplayRun(w), Open(w, Admins) /\ c, Answer("303", does))
        /\ Acts(w, ApiReplay(w), Asks(w, Admins) /\ c, Answer("202", does))
    BY RunPages
  <2>2. c \in BOOLEAN
    OBVIOUS
  <2> HIDE DEF does, c
  <2> QED BY <2>1, <2>2, SameEffect, Zenon
<1>3. RegisterFleet(w).does = ApiRegisterFleet(w).does
  <2> DEFINE does == {<<"fleet", "added">>}
             c == Has(w, "target") /\ Has(w, "enabled") /\ Has(w, "valid")
             d == Has(w, "body") /\ Has(w, "target") /\ Has(w, "enabled") /\ Has(w, "valid")
  <2>1. /\ Acts(w, RegisterFleet(w), Open(w, Admins) /\ c, Answer("303", does))
        /\ Acts(w, ApiRegisterFleet(w), Asks(w, Admins) /\ d, Answer("201", does))
    BY AdminActs
  <2>2. c \in BOOLEAN /\ d \in BOOLEAN /\ (c <=> d)
    BY <1>1
  <2> HIDE DEF does, c, d
  <2> QED BY <2>1, <2>2, SameEffect, Zenon
<1>4. UnregisterFleet(w).does = ApiUnregisterFleet(w).does
  <2> DEFINE does == {<<"fleet", "removed">>}
             c == Has(w, "target") /\ Has(w, "enabled") /\ Has(w, "valid") /\ Has(w, "found")
  <2>1. /\ Acts(w, UnregisterFleet(w), Open(w, Admins) /\ c, Answer("303", does))
        /\ Acts(w, ApiUnregisterFleet(w), Asks(w, Admins) /\ c, Answer("200", does))
    BY AdminActs
  <2>2. c \in BOOLEAN
    OBVIOUS
  <2> HIDE DEF does, c
  <2> QED BY <2>1, <2>2, SameEffect, Zenon
<1>5. PauseCampaign(w).does = ApiPauseCampaign(w).does
  <2> DEFINE does == {<<"campaign", "paused">>}
             c == Has(w, "found") /\ Has(w, "last")
             d == Has(w, "body") /\ Has(w, "target") /\ Has(w, "found") /\ Has(w, "last")
  <2>1. /\ Acts(w, PauseCampaign(w), Open(w, Admins) /\ c, Answer("303", does))
        /\ Acts(w, ApiPauseCampaign(w), Asks(w, Admins) /\ d, Answer("200", does))
    BY AdminActs
  <2>2. c \in BOOLEAN /\ d \in BOOLEAN /\ (c <=> d)
    BY <1>1
  <2> HIDE DEF does, c, d
  <2> QED BY <2>1, <2>2, SameEffect, Zenon
<1>6. CreateInitiative(w).does = ApiCreateInitiative(w).does
  <2> DEFINE does == {<<"initiative", "written">>}
             c == Has(w, "enabled") /\ Has(w, "valid") /\ Has(w, "last")
             d == Has(w, "enabled") /\ Has(w, "body") /\ Has(w, "valid") /\ Has(w, "last")
  <2>1. /\ Acts(w, CreateInitiative(w), Open(w, Admins) /\ c, Answer("303", does))
        /\ Acts(w, ApiCreateInitiative(w), Asks(w, Admins) /\ d, Answer("201", does))
    BY AdminActs
  <2>2. c \in BOOLEAN /\ d \in BOOLEAN /\ (c <=> d)
    BY <1>1
  <2> HIDE DEF does, c, d
  <2> QED BY <2>1, <2>2, SameEffect, Zenon
<1>7. UpdateInitiative(w).does = ApiUpdateInitiative(w).does
  <2> DEFINE does == {<<"initiative", "written">>}
             c == Has(w, "enabled") /\ Has(w, "found") /\ Has(w, "valid") /\ Has(w, "last")
             d == Has(w, "enabled") /\ Has(w, "found") /\ Has(w, "body") /\ Has(w, "valid") /\ Has(w, "last")
  <2>1. /\ Acts(w, UpdateInitiative(w), Open(w, Admins) /\ c, Answer("303", does))
        /\ Acts(w, ApiUpdateInitiative(w), Asks(w, Admins) /\ d, Answer("200", does))
    BY AdminActs
  <2>2. c \in BOOLEAN /\ d \in BOOLEAN /\ (c <=> d)
    BY <1>1
  <2> HIDE DEF does, c, d
  <2> QED BY <2>1, <2>2, SameEffect, Zenon
<1>8. DeactivateInitiative(w).does = ApiDeactivateInitiative(w).does
  <2> DEFINE does == {<<"initiative", "written">>}
             c == Has(w, "enabled") /\ Has(w, "found") /\ Has(w, "last")
  <2>1. /\ Acts(w, DeactivateInitiative(w), Open(w, Admins) /\ c, Answer("303", does))
        /\ Acts(w, ApiDeactivateInitiative(w), Asks(w, Admins) /\ c, Answer("200", does))
    BY AdminActs
  <2>2. c \in BOOLEAN
    OBVIOUS
  <2> HIDE DEF does, c
  <2> QED BY <2>1, <2>2, SameEffect, Zenon
<1> QED BY <1>2, <1>3, <1>4, <1>5, <1>6, <1>7, <1>8

LEMMA TwinsAgree ==
  ASSUME NEW w \in AnyWorld
  PROVE  SurfacesAgree(w)
<1> SUFFICES ASSUME Comparable(w), NEW t \in Twins(w) PROVE t[1].does = t[2].does
  BY DEF SurfacesAgree
<1> DEFINE queued == {<<LivePlan(w), ApiSubmitRun(w, "live_plan")>>,
                      <<RequestSandbox(w), ApiVendEnvironment(w)>>,
                      <<RequestEnvironment(w), ApiSubmitRun(w, "environment_vend")>>}
           drift == IF w.caller = "admin" THEN {<<ConfirmDrift(w), ApiSubmitRun(w, "fleet_drift_confirm")>>} ELSE {}
           updates == {<<PlanUpdate(w), ApiPlanUpgrade(w)>>,
                       <<PlanImport(w), ApiPlanImport(w)>>, <<ApplyImport(w), ApiApplyImport(w)>>,
                       <<PlanBatch(w), ApiPlanBatch(w)>>, <<ApplyBatch(w), ApiApplyBatch(w)>>,
                       <<Verify(w), ApiVerify(w)>>}
           admin == {<<ReplayRun(w), ApiReplay(w)>>, <<RegisterFleet(w), ApiRegisterFleet(w)>>,
                     <<UnregisterFleet(w), ApiUnregisterFleet(w)>>, <<PauseCampaign(w), ApiPauseCampaign(w)>>,
                     <<CreateInitiative(w), ApiCreateInitiative(w)>>, <<UpdateInitiative(w), ApiUpdateInitiative(w)>>,
                     <<DeactivateInitiative(w), ApiDeactivateInitiative(w)>>}
<1>1. t \in queued \cup drift \cup updates \cup admin
  BY Zenon DEF Twins
<1>2. CASE t \in queued
  BY <1>2, QueueAlike
<1>3. CASE t \in drift
  BY <1>3, QueueAlike
<1>4. CASE t \in updates
  BY <1>4, UpdatesAlike
<1>5. CASE t \in admin
  BY <1>5, AdminAlike
<1> QED BY <1>1, <1>2, <1>3, <1>4, <1>5

(* A streamed form that the queue refuses is generated in the web process.   *)
LEMMA GenerationTwins ==
  ASSUME NEW w \in AnyWorld
  PROVE  GenerationsAgree(w)
<1> SUFFICES ASSUME Comparable(w), Has(w, "found"), Has(w, "valid"), NEW t \in Generations(w)
             PROVE  \/ t[1].does = t[2].does
                    \/ /\ Is(w, "stream") /\ ~Is(w, "worker") /\ RefusedByQueue(w)
                       /\ t[2].does = {} /\ t[1].does = {Executed(w)}
  BY DEF GenerationsAgree
<1> DEFINE may == Open(w, Generators)
           takes == Free(w) /\ Has(w, "queue")
<1>1. takes <=> ~RefusedByQueue(w)
  BY DEF Free, RefusedByQueue
<1>2. Queues(w).does = {QueuedRun(w, "generate")} /\ Renders(w).does = {Executed(w)}
  BY DEF Queues, Renders, Answer
<1>3. ASSUME NEW queues \in BOOLEAN, ~queues => ~Is(w, "worker")
      PROVE  LET a == ApiGenerate(AsForm(w, queues))
             IN a.does = IF may /\ (queues => takes)
                         THEN (IF queues THEN {QueuedRun(w, "generate")} ELSE {Executed(w)}) ELSE {}
  <2> DEFINE v == AsForm(w, queues)
             c == ApiWhen(v) /\ (Has(v, "body") /\ Has(v, "target"))
  <2>1. /\ v \in AnyWorld /\ v.caller = w.caller
        /\ \A x : Has(v, x) = Has(w, x)
        /\ \A x : x # "async" => (Is(v, x) <=> Is(w, x))
        /\ Is(v, "async") <=> queues
        /\ QueuedRun(v, "generate") = QueuedRun(w, "generate") /\ Executed(v) = Executed(w)
    BY AsFormFacts
  <2> HIDE DEF v
  <2>2. Acts(v, ApiGenerate(v), Asks(v, Generators) /\ c, ApiNext(v))
    BY <2>1, GenerationActs
  <2>3. Asks(v, Generators) <=> may
    BY <2>1 DEF Asks, Open, Permits, Comparable, SessionUser, AuthenticatedUser
  <2>4. c <=> (queues => takes)
    BY <1>3, <2>1 DEF ApiWhen, Accepts, Roomy, Free, Shared, Comparable
  <2>5. ApiNext(v).does = IF queues THEN {QueuedRun(w, "generate")} ELSE {Executed(w)}
    BY <2>1 DEF ApiNext, Renders, Answer, Comparable
  <2> HIDE DEF c, may, takes
  <2>6. ApiGenerate(v).does = IF may /\ (queues => takes)
                              THEN (IF queues THEN {QueuedRun(w, "generate")} ELSE {Executed(w)}) ELSE {}
    BY <2>2, <2>3, <2>4, <2>5 DEF Acts
  <2> QED BY <2>6 DEF v
<1>4. GenerateBundle(w).does = IF may /\ (Is(w, "worker") => takes)
                               THEN (IF Is(w, "worker") THEN {QueuedRun(w, "generate")} ELSE {Executed(w)}) ELSE {}
  BY <1>2, GenerationActs DEF Acts, BundleWhen, BundleThen
<1>5. Generate(w).does = IF may /\ (Is(w, "worker") => takes)
                         THEN (IF Is(w, "worker") \/ (Is(w, "stream") /\ takes)
                               THEN {QueuedRun(w, "generate")} ELSE {Executed(w)}) ELSE {}
  BY <1>2, GenerationActs DEF Acts, PageWhen, PageNext, Streams
<1> HIDE DEF may, takes
<1>6. CASE t = <<GenerateBundle(w), ApiGenerate(AsForm(w, Is(w, "worker")))>>
  <2>1. Is(w, "worker") \in BOOLEAN
    BY Truths
  <2>2. GenerateBundle(w).does = ApiGenerate(AsForm(w, Is(w, "worker"))).does
    BY <1>3, <1>4, <2>1
  <2> QED BY <1>6, <2>2
<1>7. CASE t = <<Generate(w), ApiGenerate(AsForm(w, Is(w, "stream") \/ Is(w, "worker")))>>
  <2> DEFINE queues == Is(w, "stream") \/ Is(w, "worker")
             b == ApiGenerate(AsForm(w, queues))
  <2>1. queues \in BOOLEAN /\ (~queues => ~Is(w, "worker"))
    OBVIOUS
  <2>2. b.does = IF may /\ (queues => takes)
                 THEN (IF queues THEN {QueuedRun(w, "generate")} ELSE {Executed(w)}) ELSE {}
    <3> HIDE DEF queues
    <3> QED BY <1>3, <2>1
  <2>3. t[1] = Generate(w) /\ t[2] = b
    BY <1>7
  <2> HIDE DEF b
  <2> QED BY <1>1, <1>5, <2>2, <2>3
<1> QED BY <1>6, <1>7 DEF Generations

-----------------------------------------------------------------------------
(* Whatever is missing of what the handlers look for, and however the server *)
(* and the request are set: the two surfaces do the same, looking is         *)
(* harmless, the workers alone execute where they should, a queue that       *)
(* refuses takes nothing, an error leaves nothing behind but what its        *)
(* request could not finish, roles are kept, and whoever is sent to log in   *)
(* can.  The runs look at worlds with one thing missing, in thirteen modes.  *)
THEOREM EveryWorldAnswers ==
  \A w \in AnyWorld :
    /\ SurfacesAgree(w) /\ GenerationsAgree(w)
    /\ LookingIsHarmless(w) /\ WorkersExecute(w)
    /\ RefusedIsNotQueued(w) /\ ErrorsLeaveNothing(w) /\ RolesHold(w)
    /\ LoginIsThere(w)
<1> TAKE w \in AnyWorld
<1>1. SurfacesAgree(w) /\ GenerationsAgree(w)
  BY TwinsAgree, GenerationTwins
<1>2. LookingIsHarmless(w)
  <2>1. \A a \in Views(w) : a.does \subseteq {<<"recovered">>}
    BY EveryView DEF Looks
  <2>2. \A run \in ViewedRuns :
          RunResult(w, run).does \cap Executions # {} =>
            ~Has(w, "stored") /\ run.kind = "generate" /\ StatusRead(w, run) = "succeeded"
    BY ResultPage
  <2> QED BY <2>1, <2>2 DEF LookingIsHarmless
<1>3. WorkersExecute(w)
  BY EveryChange DEF Orderly, WorkersExecute
<1>4. RefusedIsNotQueued(w)
  BY EveryChange DEF Orderly, RefusedIsNotQueued
<1>5. ErrorsLeaveNothing(w)
  <2>1. \A a \in Changes(w) : a.status \in Errors /\ a.does # {} =>
          /\ a.does \subseteq Halfway
          /\ ~Has(w, "last") \/ ~Has(w, "git") \/ Is(w, "push")
    BY EveryChange DEF Orderly
  <2> QED BY <2>1, CallbackErrors DEF ErrorsLeaveNothing
<1>6. RolesHold(w)
  <2>1. \A a \in Changes(w) : Has(w, "auth") => /\ w.caller = "nobody" => a.does = {}
                                                /\ w.caller = "viewer" => a.does \subseteq {<<"gates run">>}
    BY EveryChange DEF Orderly
  <2>2. \A a \in Views(w) : Has(w, "auth") /\ w.caller = "nobody" => a.does = {}
    BY EveryView DEF Looks
  <2> QED BY <2>1, <2>2 DEF RolesHold
<1>7. LoginIsThere(w)
  <2>1. \A a \in Changes(w) \cup Views(w) : a.status = "login" => Has(w, "auth")
    BY EveryChange, EveryView DEF Orderly, Looks
  <2> QED BY <2>1, LoginAnswers DEF LoginIsThere
<1> QED BY <1>1, <1>2, <1>3, <1>4, <1>5, <1>6, <1>7

LEMMA EveryAnswer == AnswersHold
<1>1. Worlds \subseteq AnyWorld
  <2> SUFFICES ASSUME NEW w \in Worlds PROVE w \in AnyWorld
    OBVIOUS
  <2>1. /\ w.caller \in Callers /\ w.lacks \in SUBSET Things
        /\ w.mode \in {{}, {"dry"}, {"async"}, {"async", "dry"}, {"async", "repeat"}, {"worker"}, {"worker", "stream"},
             {"stream"}, {"stream", "dry"}, {"push"}, {"push", "remote"}, {"remote"}, {"dry", "stalled"}}
        /\ w = [caller |-> w.caller, lacks |-> w.lacks, mode |-> w.mode]
    BY DEF Worlds
  <2>2. w.mode \in SUBSET Modes
    BY <2>1 DEF Modes
  <2> QED BY <2>1, <2>2 DEF AnyWorld
<1> QED BY <1>1, EveryWorldAnswers DEF AnswersHold

(* Before the queue is asked for anything, its surfaces answer as they       *)
(* promise.                                                                  *)
THEOREM SurfacesAnswer == Spec => []SurfacesHold
<1>1. SurfacesHold
  BY EveryAnswer DEF SurfacesHold
<1> QED BY <1>1, PTL

-----------------------------------------------------------------------------
(* What a process starts with. *)
Starts == INSTANCE Startup

(* The modes a process may run in, once none is refused. *)
LEMMA RuntimeFacts ==
  ASSUME NEW f, NEW e, ~Starts!RuntimeRefused(f, e)
  PROVE  LET runtime == Starts!Runtime(f, e)
         IN /\ runtime.worker_mode \in {"inline", "external", "job"} /\ runtime.external \in BOOLEAN
            /\ runtime.execution \in {"worker", "inprocess"}
            /\ runtime.worker_mode = "job" => runtime.external
<1> DEFINE s == Starts!Durability(f)
           mode == Starts!WorkerModeOf(Starts!Text(s, "worker_mode", ""))
           execution == IF "execution_mode" \in DOMAIN s.text THEN Starts!ExecutionModeOf(s.text["execution_mode"])
                        ELSE IF mode # "inline" THEN "worker" ELSE "inprocess"
           env == Starts!ExecutionModeOf(Starts!Var(e, "REPAVE_EXECUTION_MODE"))
           file == [worker_mode |-> mode, external |-> mode # "inline", execution |-> execution]
           workers == IF Starts!Var(e, "REPAVE_EXTERNAL_WORKERS") \in {"1", "true", "yes"}
                      THEN [file EXCEPT !.external = TRUE, !.execution = "worker"] ELSE file
           executing == IF Starts!Var(e, "REPAVE_EXECUTION_MODE") = "" THEN workers
                        ELSE [workers EXCEPT !.execution = env, !.external = @ \/ env = "worker"]
           jobs == Starts!Var(e, "REPAVE_RUN_JOBS") \in {"1", "true", "yes"}
<1>1. Starts!Runtime(f, e) =
        IF jobs THEN [worker_mode |-> "job", external |-> TRUE, execution |-> "worker"] ELSE executing
  BY Zenon DEF Starts!Runtime
<1>2. mode \in {"inline", "external", "job"} /\ env \in {"worker", "inprocess"}
  BY DEF Starts!RuntimeRefused
<1>3. execution \in {"worker", "inprocess"}
  BY DEF Starts!RuntimeRefused, Starts!Text, Starts!At
<1> HIDE DEF s, mode, execution, env
<1>4. PICK x \in BOOLEAN, y \in {"worker", "inprocess"} :
        workers = [worker_mode |-> mode, external |-> x, execution |-> y] /\ (mode = "job" => x)
  BY <1>3
<1> HIDE DEF workers
<1>5. PICK p \in BOOLEAN, q \in {"worker", "inprocess"} :
        executing = [worker_mode |-> mode, external |-> p, execution |-> q] /\ (mode = "job" => p)
  <2>1. CASE Starts!Var(e, "REPAVE_EXECUTION_MODE") = ""
    BY <1>4, <2>1
  <2>2. CASE Starts!Var(e, "REPAVE_EXECUTION_MODE") # ""
    <3>1. executing = [worker_mode |-> mode, external |-> x \/ env = "worker", execution |-> env]
      BY <1>4, <2>2
    <3> QED BY <1>2, <1>4, <3>1
  <2> QED BY <2>1, <2>2
<1> HIDE DEF executing, jobs
<1>6. CASE jobs
  BY <1>1, <1>6
<1>7. CASE ~jobs
  BY <1>1, <1>2, <1>5, <1>7
<1> QED
  BY <1>6, <1>7

(* Whatever the file and the environment say of workers, Jobs and the database: *)
(* a run has one kind of executor.                                              *)
LEMMA RunsHaveExecutors == \A f, e : Starts!OneExecutor(f, e)
<1> SUFFICES ASSUME NEW f, NEW e, ~Starts!QueueRefused(f, e) PROVE Starts!OneExecutor(f, e)
  BY DEF Starts!OneExecutor
<1> DEFINE runtime == Starts!Runtime(f, e)
           web == Starts!Queue(f, e, FALSE)
<1>1. /\ runtime.worker_mode \in {"inline", "external", "job"} /\ runtime.external \in BOOLEAN
      /\ runtime.execution \in {"worker", "inprocess"} /\ (runtime.worker_mode = "job" => runtime.external)
  BY RuntimeFacts DEF Starts!QueueRefused
<1>2. Starts!Queue(f, e, TRUE).enqueue_only
  BY DEF Starts!Queue
<1>a. Starts!Queue(f, e, TRUE).claims = web.claims
  BY DEF Starts!Queue
<1>b. Starts!Queue(f, e, TRUE).dispatches = web.dispatches
  BY DEF Starts!Queue
<1>c. Starts!Queue(f, e, TRUE).database = web.database
  BY DEF Starts!Queue
<1>3. /\ web.enqueue_only = (runtime.external \/ runtime.execution = "worker")
      /\ web.claims = (Starts!DatabaseConfig(f, e) = {"postgresql"} /\ runtime.worker_mode # "job")
      /\ web.dispatches = (runtime.worker_mode = "job")
  BY DEF Starts!Queue
<1>4. Starts!DatabaseConfig(f, e) = {"postgresql"} => Starts!DatabaseUrl(f, e) = "postgresql"
  BY DEF Starts!DatabaseConfig
<1> HIDE DEF runtime, web
<1>5. runtime.execution = "worker" => web.enqueue_only
  BY <1>3
<1>6. web.claims => Starts!DatabaseUrl(f, e) = "postgresql"
  BY <1>3, <1>4
<1>7. <<web.enqueue_only, web.claims, web.dispatches>> \in
        {<<FALSE, FALSE, FALSE>>, <<FALSE, TRUE, FALSE>>, <<TRUE, TRUE, FALSE>>, <<TRUE, FALSE, FALSE>>, <<TRUE, FALSE, TRUE>>}
  <2>1. web.enqueue_only \in BOOLEAN /\ web.claims \in BOOLEAN /\ web.dispatches \in BOOLEAN
    BY <1>3
  <2>2. web.dispatches => web.enqueue_only /\ ~web.claims
    BY <1>1, <1>3
  <2> QED BY <2>1, <2>2
<1> QED BY <1>2, <1>a, <1>b, <1>c, <1>5, <1>6, <1>7 DEF Starts!OneExecutor, runtime, web

(* A reader of costs is refused unless it has its source. *)
LEMMA ReadersAreFed == \A f, e : Starts!ReaderIsFed(f, e)
<1> SUFFICES ASSUME NEW f, NEW e, ~Starts!PortalRefused(f, e) PROVE Starts!ReaderIsFed(f, e)
  BY DEF Starts!ReaderIsFed
<1> DEFINE portal == Starts!PortalConfig(f, e)
           resolved == Starts!ResolveCostReader(f, e)
           reader == Starts!CostReader(f, e)
           s == Starts!Section(f, "portal.cost_snapshots")
           file == Starts!Focus(f, e).file
<1>1. /\ portal.cost_reader = reader /\ portal.cost_actuals_url = Starts!CostUrl(f, e)
      /\ portal.focus.file = file /\ portal.snapshots = Starts!Snapshots(f, e)
  BY DEF Starts!PortalConfig
<1>2. reader \in {"", "url", "aws", "azure", "k8s", "focus"} /\ ~(reader = "focus" /\ file = <<>>)
  BY DEF Starts!PortalRefused, Starts!ReadersRefused
<1>3. resolved = IF reader = "" THEN IF Starts!CostUrl(f, e) # "" THEN "url" ELSE "" ELSE reader
  BY <1>2 DEF Starts!ResolveCostReader
<1>4. portal.snapshots.enabled <=>
        (resolved # "" \/ Starts!Flag(s, "enabled", FALSE))
          /\ (Starts!PathVar(e, "REPAVE_COST_SNAPSHOTS_FILE") # <<>> \/ Starts!Flag(s, "enabled", TRUE))
  <2> DEFINE asked == resolved # "" \/ Starts!Flag(s, "enabled", FALSE)
             env == Starts!PathVar(e, "REPAVE_COST_SNAPSHOTS_FILE")
             enabled == env # <<>> \/ Starts!Flag(s, "enabled", TRUE)
  <2> HIDE DEF portal
  <2>1. CASE asked
    <3>1. \E path : Starts!Snapshots(f, e) = [enabled |-> enabled, file |-> path]
      BY <2>1, Zenon DEF Starts!Snapshots
    <3>2. enabled \in BOOLEAN
      OBVIOUS
    <3> HIDE DEF enabled
    <3>3. portal.snapshots.enabled = enabled
      BY <1>1, <3>1
    <3> QED BY <2>1, <3>2, <3>3 DEF enabled
  <2>2. CASE ~asked
    <3>1. Starts!Snapshots(f, e) = [enabled |-> FALSE, file |-> <<>>]
      BY <2>2, Zenon DEF Starts!Snapshots
    <3>2. portal.snapshots.enabled = FALSE
      BY <1>1, <3>1
    <3> QED BY <2>2, <3>2
  <2> QED BY <2>1, <2>2
<1>5. Starts!Flag(s, "enabled", FALSE) => Starts!Flag(s, "enabled", TRUE)
  BY DEF Starts!Flag
<1> HIDE DEF portal, resolved, reader, s, file
<1> QED BY <1>1, <1>2, <1>3, <1>4, <1>5 DEF Starts!ReaderIsFed, portal, resolved, s

(* A hosted process starts only when nothing it needs is missing. *)
LEMMA HostedAreWhole == \A w : Starts!IsWhole(w)
<1> SUFFICES ASSUME NEW w, ~Starts!AppRefused(w), NEW auth \in Starts!AuthConfig(w.f, w.e)
             PROVE  /\ auth.session_secret # ""
                    /\ auth.service_enabled =>
                         /\ auth.session_secret = Starts!SessionSecret(w.f, w.e) /\ "" \notin Starts!Range(auth.oidc)
                         /\ Starts!DatabaseConfig(w.f, w.e) \in {{"sqlite"}, {"postgresql"}}
                         /\ w.license.readable /\ w.license.sku \in {"pilot", "annual"}
                         /\ ~(w.license.expires < w.today)
                         /\ \/ auth.https_only \/ Starts!Off(w.e, "REPAVE_SESSION_HTTPS_ONLY")
                            \/ ~Starts!Flag(Starts!Section(w.f, "auth"), "session_https_only", TRUE)
  BY DEF Starts!IsWhole, Starts!App
<1> DEFINE secret == Starts!SessionSecret(w.f, w.e)
<1>1. /\ auth.service_enabled = Starts!ServiceEnabled(w.f, w.e) /\ auth.oidc = Starts!Oidc(w.f, w.e)
      /\ auth.session_secret = IF secret = "" THEN "random" ELSE secret
      /\ auth.https_only = Starts!HttpsOnly(w.f, w.e)
  <2> DEFINE s == Starts!Section(w.f, "auth")
             config == [service_enabled |-> Starts!ServiceEnabled(w.f, w.e),
                        session_secret |-> IF secret = "" THEN "random" ELSE secret,
                        api_token |-> Starts!Secret(s, "api_token", w.e, "REPAVE_API_TOKEN"),
                        oidc |-> Starts!Oidc(w.f, w.e), https_only |-> Starts!HttpsOnly(w.f, w.e),
                        admin_groups |-> Starts!Groups(w.f, "admin"),
                        generator_groups |-> Starts!Groups(w.f, "generator"),
                        coarse_rbac |-> Starts!Flag(s, "coarse_rbac_enabled", FALSE)]
  <2>1. Starts!AuthConfig(w.f, w.e) = IF Starts!Absent(s) /\ ~Starts!On(w.e, "REPAVE_SERVICE_MODE") THEN {} ELSE {config}
    BY Zenon DEF Starts!AuthConfig
  <2>2. auth = config
    <3> HIDE DEF config
    <3> QED BY <2>1
  <2> QED BY <2>2
<1>2. SUFFICES ASSUME auth.service_enabled
               PROVE  /\ secret # "" /\ "" \notin Starts!Range(Starts!Oidc(w.f, w.e))
                      /\ Starts!DatabaseConfig(w.f, w.e) \in {{"sqlite"}, {"postgresql"}}
                      /\ w.license.readable /\ w.license.sku \in {"pilot", "annual"}
                      /\ ~(w.license.expires < w.today)
                      /\ \/ Starts!HttpsOnly(w.f, w.e) \/ Starts!Off(w.e, "REPAVE_SESSION_HTTPS_ONLY")
                         \/ ~Starts!Flag(Starts!Section(w.f, "auth"), "session_https_only", TRUE)
  BY <1>1
<1>3. Starts!Hosted(w) /\ Starts!ServiceEnabled(w.f, w.e)
  BY <1>1, <1>2 DEF Starts!Hosted
<1>4. secret # "" /\ "" \notin Starts!Range(Starts!Oidc(w.f, w.e))
  BY <1>3 DEF Starts!AppRefused, Starts!AuthRefused
<1>5. ~Starts!DatabaseRefused(w.f, w.e) /\ Starts!DatabaseConfig(w.f, w.e) # {}
  BY <1>3 DEF Starts!AppRefused, Starts!HostedRefused, Starts!Hosted
<1>6. Starts!DatabaseConfig(w.f, w.e) \in {{"sqlite"}, {"postgresql"}}
  BY <1>5 DEF Starts!DatabaseRefused, Starts!DatabaseConfig
<1>7. w.license.readable /\ w.license.sku \in {"pilot", "annual"} /\ ~(w.license.expires < w.today)
  BY <1>3 DEF Starts!AppRefused, Starts!LicenseRefused
<1>8. \/ Starts!HttpsOnly(w.f, w.e) \/ Starts!Off(w.e, "REPAVE_SESSION_HTTPS_ONLY")
      \/ ~Starts!Flag(Starts!Section(w.f, "auth"), "session_https_only", TRUE)
  BY <1>3 DEF Starts!HttpsOnly, Starts!Flag
<1> QED BY <1>4, <1>6, <1>7, <1>8

(* Numbers are brought within their bounds. *)
LEMMA QueuesHaveRoom == \A f, e : Starts!Numbered(f, e) => Starts!HasRoom(f, e)
<1> SUFFICES ASSUME NEW f, NEW e, Starts!Numbered(f, e), NEW c \in Starts!DurabilityConfig(f, e),
                    NEW key \in DOMAIN Starts!Bounds
             PROVE  c.numbers[key] \in Starts!Bounds[key][1]..Starts!Bounds[key][3]
  BY DEF Starts!HasRoom
<1> DEFINE s == Starts!Durability(f)
           Env(k) == IF k \in DOMAIN Starts!VarFor THEN Starts!At(e.num, Starts!VarFor[k], {}) ELSE {}
           Set(k) == IF Env(k) # {} THEN CHOOSE n \in Env(k) : TRUE
                     ELSE Starts!Number(s, k, Starts!Bounds[k][2])
           numbers == [k \in DOMAIN Starts!Bounds |->
                         Starts!Between(Starts!Bounds[k][1], Set(k), Starts!Bounds[k][3])]
<1>1. c.numbers = numbers
  <2> DEFINE config == [numbers |-> numbers,
                        runs_db |-> Starts!PathOf(s, "runs_db", <<"data", "runs.sqlite">>, e, "REPAVE_RUNS_DB"),
                        require_secret |-> Starts!Flag(s, "require_session_secret", FALSE)]
  <2>1. Starts!DurabilityConfig(f, e) = IF ~Starts!AsyncEnabled(f, e) THEN {} ELSE {config}
    BY Zenon DEF Starts!DurabilityConfig
  <2>2. c = config
    <3> HIDE DEF config
    <3> QED BY <2>1
  <2> HIDE DEF numbers
  <2> QED BY <2>2
<1>2. Starts!Bounds[key][1] \in Int /\ Starts!Bounds[key][2] \in Int /\ Starts!Bounds[key][3] \in Int
      /\ Starts!Bounds[key][1] <= Starts!Bounds[key][3]
  BY DEF Starts!Bounds
<1>3. Env(key) \in SUBSET Int
  BY DEF Starts!Numbered, Starts!At
<1>4. Starts!Number(s, key, Starts!Bounds[key][2]) \in Int
  BY <1>2 DEF Starts!Numbered, Starts!Number, Starts!At
<1> HIDE DEF Env
<1>5. Set(key) \in Int
  <2>1. CASE Env(key) # {}
    <3>1. (CHOOSE n \in Env(key) : TRUE) \in Env(key)
      BY <2>1, Zenon
    <3> QED BY <1>3, <2>1, <3>1
  <2> QED BY <1>4, <2>1
<1> HIDE DEF Set
<1>6. c.numbers[key] = Starts!Between(Starts!Bounds[key][1], Set(key), Starts!Bounds[key][3])
  BY <1>1
<1> QED BY <1>2, <1>5, <1>6 DEF Starts!Between

(* Whatever a process is given: if it starts, a run has one kind of executor *)
(* and the queue has room for it, a reader of costs has its source, and a    *)
(* hosted process has its secrets, its database and its licence.             *)
THEOREM EveryStartIsSound ==
  \A f, e, w :
    /\ Starts!OneExecutor(f, e)
    /\ Starts!Numbered(f, e) => Starts!HasRoom(f, e)
    /\ Starts!ReaderIsFed(f, e)
    /\ Starts!IsWhole(w)
BY RunsHaveExecutors, QueuesHaveRoom, ReadersAreFed, HostedAreWhole, Zenon

-----------------------------------------------------------------------------
(* What the service catalog shows. *)
Catalog == INSTANCE MCServiceCatalog

(* The registry holds one entry for a repository. *)
LEMMA OneEntryPerUrl ==
  ASSUME NEW events, NEW a \in Catalog!ReadFleet(events), NEW b \in Catalog!ReadFleet(events), a.url = b.url
  PROVE  a = b
<1> DEFINE Latest(url) == Catalog!Max({i \in DOMAIN events : events[i].entry.url = url})
           live == {i \in DOMAIN events : events[i].event = "register" /\ i = Latest(events[i].entry.url)}
<1>1. Catalog!ReadFleet(events) = {events[i].entry : i \in live}
  BY Zenon DEF Catalog!ReadFleet
<1> HIDE DEF Latest
<1>2. \A i \in live : i = Latest(events[i].entry.url)
  BY Zenon
<1> HIDE DEF live
<1>3. PICK i \in live : a = events[i].entry
  BY <1>1, Zenon
<1>4. PICK j \in live : b = events[j].entry
  BY <1>1, Zenon
<1> QED BY <1>2, <1>3, <1>4, Zenon

(* The parts the catalog is merged from. *)
Registered(w) == IF w.fleet.enabled THEN Catalog!FleetFile(w) ELSE {}
OnFile(w) == Catalog!BuildCatalogEntities(w, Registered(w), Catalog!RecentRuns(w))
Known(w) == {Catalog!NormalizeRepoUrl(e.url) : e \in {x \in OnFile(w) : x.url # Catalog!NoUrl}}
Applied(w) == Catalog!BuildCatalogFromAuditApplies(w, Catalog!RecentRuns(w), Known(w))
Environments(w) == [i \in DOMAIN w.environments |-> Catalog!EnvironmentEntity(w, w.environments[i])]
Components(w) == [i \in DOMAIN w.components |-> Catalog!ComponentEntity(w, w.components[i])]
Merged(w) == Catalog!MergeCatalogEntities(OnFile(w), Applied(w))

(* The order they are merged in. *)
LEMMA CatalogIs ==
  ASSUME NEW w
  PROVE  Catalog!BuildPortalCatalogEntities(w)
           = Catalog!MergeCatalogEntities(Catalog!MergeCatalogEntities(Merged(w), Environments(w)), Components(w))
BY Zenon DEF Catalog!BuildPortalCatalogEntities, Registered, OnFile, Known, Applied, Environments, Components, Merged

(* A merge keeps what it has, and an entity for every identifier. *)
LEMMA MergeFacts ==
  ASSUME NEW base, NEW extra, DOMAIN extra \in SUBSET Nat
  PROVE  LET merged == Catalog!MergeCatalogEntities(base, extra)
         IN /\ base \subseteq merged
            /\ \A e \in merged : e \in base \/ \E i \in DOMAIN extra : e = extra[i]
            /\ \A i \in DOMAIN extra : \E e \in merged : e.id = extra[i].id
            /\ \A e, f \in merged : e # f /\ e.id = f.id => e \in base /\ f \in base
<1> DEFINE merged == Catalog!MergeCatalogEntities(base, extra)
           Taken(k) == /\ \A e \in base : e.id # extra[k].id
                       /\ \A j \in DOMAIN extra : j < k => extra[j].id # extra[k].id
<1>1. merged = base \cup {extra[k] : k \in {i \in DOMAIN extra : Taken(i)}}
  BY Zenon DEF Catalog!MergeCatalogEntities
<1>2. ASSUME NEW i \in DOMAIN extra PROVE \E e \in merged : e.id = extra[i].id
  <2>1. CASE \E e \in base : e.id = extra[i].id
    BY <1>1, <2>1
  <2>2. CASE ~ \E e \in base : e.id = extra[i].id
    <3> DEFINE same == {k \in DOMAIN extra : extra[k].id = extra[i].id}
    <3>1. same \in SUBSET Nat /\ same # {}
      BY <1>2
    <3>2. PICK k \in same : \A j \in same : k <= j
      BY <3>1, LeastNumber
    <3>3. \A j \in DOMAIN extra : j < k => extra[j].id # extra[k].id
      BY <3>2
    <3>4. Taken(k)
      BY <2>2, <3>2, <3>3
    <3> QED BY <1>1, <3>2, <3>4
  <2> QED BY <2>1, <2>2
<1>3. ASSUME NEW e \in merged, NEW f \in merged, e # f, e.id = f.id PROVE e \in base /\ f \in base
  <2>1. \A x \in merged : x \in base \/ \E k \in DOMAIN extra : Taken(k) /\ x = extra[k]
    BY <1>1
  <2>2. \A k \in DOMAIN extra : Taken(k) => \A x \in base : x.id # extra[k].id
    OBVIOUS
  <2>3. \A j, k \in DOMAIN extra : Taken(j) /\ Taken(k) /\ extra[j].id = extra[k].id => j = k
    OBVIOUS
  <2> HIDE DEF merged, Taken
  <2> QED BY <1>3, <2>1, <2>2, <2>3
<1>4. base \subseteq merged /\ \A e \in merged : e \in base \/ \E i \in DOMAIN extra : e = extra[i]
  BY <1>1
<1> HIDE DEF merged
<1> QED BY <1>2, <1>3, <1>4 DEF merged

(* What is on file: the registered repositories and the governed checkouts. *)
LEMMA Bases ==
  ASSUME NEW w
  PROVE  /\ \A entry \in Registered(w) : Catalog!FleetEntity(w, Catalog!RecentRuns(w), entry) \in OnFile(w)
         /\ \A e \in OnFile(w) :
              \/ \E entry \in Registered(w) : e = Catalog!FleetEntity(w, Catalog!RecentRuns(w), entry)
              \/ \E dir : e = Catalog!LocalEntity(w, Catalog!RecentRuns(w), dir)
         /\ \A dir \in DOMAIN w.root : w.root[dir].governed =>
              \/ \E entry \in Registered(w) : entry.url.name = dir
              \/ Catalog!LocalEntity(w, Catalog!RecentRuns(w), dir) \in OnFile(w)
         /\ Registered(w) \subseteq Catalog!FleetPage(w)
BY DEF Registered, OnFile, Catalog!BuildCatalogEntities, Catalog!FleetFile, Catalog!FleetPage

(* What the catalog is asked for of an entity, by its source. *)
LEMMA FleetFields ==
  ASSUME NEW w, NEW runs, NEW entry
  PROVE  LET e == Catalog!FleetEntity(w, runs, entry)
         IN /\ e.source = "fleet" /\ e.url = entry.url /\ e.id = Catalog!EntityId(entry.url)
            /\ e.dir = Catalog!MatchLocalDir(w, entry.url)
BY DEF Catalog!FleetEntity, Catalog!Entity

LEMMA LocalFields ==
  ASSUME NEW w, NEW runs, NEW dir
  PROVE  LET e == Catalog!LocalEntity(w, runs, dir)
         IN e.source = "modules_root" /\ e.url = Catalog!NoUrl /\ e.dir = dir
BY DEF Catalog!LocalEntity, Catalog!Entity

LEMMA AppliedFields ==
  ASSUME NEW w, NEW run
  PROVE  LET e == Catalog!AppliedEntity(w, run)
         IN /\ e.source = "audit" /\ e.url = run.url /\ e.id = Catalog!EntityId(run.url)
            /\ Catalog!Published(run) => e.card.gates = "pass"
            /\ e.card.pins # "pass"
<1> DEFINE e == Catalog!AppliedEntity(w, run)
           entry == [Catalog!NoEntry EXCEPT !.url = run.url, !.blueprint = run.blueprint, !.pinned = run.pinned]
<1>1. /\ e.source = "audit" /\ e.url = run.url /\ e.id = Catalog!EntityId(run.url)
      /\ e.card.gates = Catalog!GateLevel(run) /\ e.card.pins = Catalog!PinLevel(entry)
  BY DEF Catalog!AppliedEntity, Catalog!Entity, Catalog!BuildScorecard
<1>2. ~entry.standard
  BY DEF Catalog!NoEntry
<1>3. Catalog!PinLevel(entry) # "pass"
  BY <1>2 DEF Catalog!PinLevel
<1>4. Catalog!Published(run) => Catalog!GateLevel(run) = "pass"
  <2> SUFFICES ASSUME Catalog!Published(run) PROVE Catalog!GateLevel(run) = "pass"
    OBVIOUS
  <2>1. run.outcome = "passed" /\ Catalog!NoRun.outcome = ""
    BY DEF Catalog!Published, Catalog!NoRun
  <2>2. run # Catalog!NoRun
    BY <2>1
  <2> QED BY <2>1, <2>2 DEF Catalog!GateLevel
<1> QED BY <1>1, <1>3, <1>4

LEMMA VendedFields ==
  ASSUME NEW w, NEW record
  PROVE  /\ Catalog!EnvironmentEntity(w, record).source = "environment" /\ Catalog!EnvironmentEntity(w, record).url = Catalog!NoUrl
         /\ Catalog!ComponentEntity(w, record).source = "component" /\ Catalog!ComponentEntity(w, record).url = Catalog!NoUrl
BY DEF Catalog!EnvironmentEntity, Catalog!ComponentEntity, Catalog!Entity

(* Each published repository that is not registered is applied, once. *)
LEMMA AppliedOnce ==
  ASSUME NEW w, Catalog!WellKept(w)
  PROVE  /\ DOMAIN Applied(w) \in SUBSET Nat
         /\ \A i \in DOMAIN Applied(w) :
              /\ i \in DOMAIN Catalog!RecentRuns(w)
              /\ Applied(w)[i] = Catalog!AppliedEntity(w, Catalog!RecentRuns(w)[i])
              /\ Catalog!Published(Catalog!RecentRuns(w)[i])
              /\ Catalog!NormalizeRepoUrl(Catalog!RecentRuns(w)[i].url) \notin Known(w)
         /\ \A i, j \in DOMAIN Applied(w) :
              Catalog!NormalizeRepoUrl(Catalog!RecentRuns(w)[i].url) = Catalog!NormalizeRepoUrl(Catalog!RecentRuns(w)[j].url) => i = j
         /\ \A i \in DOMAIN Catalog!RecentRuns(w) :
              LET url == Catalog!NormalizeRepoUrl(Catalog!RecentRuns(w)[i].url)
              IN Catalog!Published(Catalog!RecentRuns(w)[i]) /\ url \notin Known(w) =>
                   \E k \in DOMAIN Applied(w) : Catalog!NormalizeRepoUrl(Catalog!RecentRuns(w)[k].url) = url
<1> DEFINE runs == Catalog!RecentRuns(w)
           known == Known(w)
           Url(i) == Catalog!NormalizeRepoUrl(runs[i].url)
           Fresh(i) == /\ Catalog!Published(runs[i]) /\ Url(i) \notin known
                       /\ \A j \in 1..(i - 1) : ~(Catalog!Published(runs[j]) /\ Url(j) = Url(i))
           applied == Applied(w)
<1>1. applied = [i \in {k \in DOMAIN runs : Fresh(k)} |-> Catalog!AppliedEntity(w, runs[i])]
  BY Zenon DEF Applied, Catalog!BuildCatalogFromAuditApplies
<1>2. PICK n \in Nat : DOMAIN runs = 1..n
  BY DEF Catalog!WellKept
<1> HIDE DEF runs, known, applied, Url
<1>3. DOMAIN applied \in SUBSET Nat /\ \A i \in DOMAIN applied : i \in DOMAIN runs /\ Fresh(i)
  BY <1>1, <1>2
<1>4. \A i \in DOMAIN applied : applied[i] = Catalog!AppliedEntity(w, runs[i])
  BY <1>1
<1>5. ASSUME NEW i \in DOMAIN applied, NEW j \in DOMAIN applied, Url(i) = Url(j) PROVE i = j
  <2>1. i \in Nat \ {0} /\ j \in Nat \ {0} /\ Fresh(i) /\ Fresh(j)
    BY <1>2, <1>3
  <2>2. ~(i < j) /\ ~(j < i)
    BY <1>5, <2>1
  <2> QED BY <2>1, <2>2
<1>6. ASSUME NEW i \in DOMAIN runs, Catalog!Published(runs[i]), Url(i) \notin known
      PROVE  \E k \in DOMAIN applied : Url(k) = Url(i)
  <2> DEFINE same == {k \in DOMAIN runs : Catalog!Published(runs[k]) /\ Url(k) = Url(i)}
  <2>1. same \in SUBSET Nat /\ same # {}
    BY <1>2, <1>6
  <2>2. PICK k \in same : \A j \in same : k <= j
    BY <2>1, LeastNumber
  <2>3. \A j \in 1..(k - 1) : ~(Catalog!Published(runs[j]) /\ Url(j) = Url(k))
    BY <1>2, <2>2
  <2> QED BY <1>1, <1>6, <2>2, <2>3
<1> QED BY <1>3, <1>4, <1>5, <1>6 DEF runs, known, applied, Url

(* The entities of the catalog, each from its source. *)
LEMMA Listed ==
  ASSUME NEW w, Catalog!WellKept(w)
  PROVE  LET catalog == Catalog!BuildPortalCatalogEntities(w)
         IN /\ OnFile(w) \subseteq catalog
            /\ \A e \in catalog :
                 \/ e \in OnFile(w) \/ (\E i \in DOMAIN Applied(w) : e = Applied(w)[i])
                 \/ e.source \in {"environment", "component"} /\ e.url = Catalog!NoUrl
            /\ \A i \in DOMAIN Applied(w) : \E e \in catalog : e.id = Applied(w)[i].id
            /\ \A e, f \in catalog : e # f /\ e.id = f.id => e \in OnFile(w) /\ f \in OnFile(w)
<1> DEFINE first == Merged(w)
           second == Catalog!MergeCatalogEntities(first, Environments(w))
           catalog == Catalog!BuildPortalCatalogEntities(w)
<1>1. catalog = Catalog!MergeCatalogEntities(second, Components(w))
  BY CatalogIs
<1>2. /\ DOMAIN Applied(w) \in SUBSET Nat /\ DOMAIN Environments(w) \in SUBSET Nat
      /\ DOMAIN Components(w) \in SUBSET Nat
  BY AppliedOnce DEF Catalog!WellKept, Environments, Components
<1>3. /\ OnFile(w) \subseteq first
      /\ \A e \in first : e \in OnFile(w) \/ \E i \in DOMAIN Applied(w) : e = Applied(w)[i]
      /\ \A i \in DOMAIN Applied(w) : \E e \in first : e.id = Applied(w)[i].id
      /\ \A e, f \in first : e # f /\ e.id = f.id => e \in OnFile(w) /\ f \in OnFile(w)
  BY <1>2, MergeFacts DEF Merged
<1>4. /\ first \subseteq second
      /\ \A e \in second : e \in first \/ \E i \in DOMAIN Environments(w) : e = Environments(w)[i]
      /\ \A e, f \in second : e # f /\ e.id = f.id => e \in first /\ f \in first
  BY <1>2, MergeFacts
<1>5. /\ second \subseteq catalog
      /\ \A e \in catalog : e \in second \/ \E i \in DOMAIN Components(w) : e = Components(w)[i]
      /\ \A e, f \in catalog : e # f /\ e.id = f.id => e \in second /\ f \in second
  BY <1>1, <1>2, MergeFacts
<1>6. \A i \in DOMAIN Environments(w) :
        Environments(w)[i].source = "environment" /\ Environments(w)[i].url = Catalog!NoUrl
  BY VendedFields DEF Environments
<1>7. \A i \in DOMAIN Components(w) :
        Components(w)[i].source = "component" /\ Components(w)[i].url = Catalog!NoUrl
  BY VendedFields DEF Components
<1> HIDE DEF first, second, catalog
<1> QED BY <1>3, <1>4, <1>5, <1>6, <1>7 DEF catalog

(* Whatever the registry, the log and the checkouts hold, the catalog shows  *)
(* what is governed anywhere, and each repository once.                      *)
THEOREM GovernedIsShown == \A w : Catalog!WellKept(w) => Catalog!SourcesShown(w)
<1> SUFFICES ASSUME NEW w, Catalog!WellKept(w) PROVE Catalog!SourcesShown(w)
  OBVIOUS
<1> DEFINE catalog == Catalog!BuildPortalCatalogEntities(w)
           runs == Catalog!RecentRuns(w)
           Normal(url) == Catalog!NormalizeRepoUrl(url)
<1>1. /\ OnFile(w) \subseteq catalog
      /\ \A e \in catalog :
           \/ e \in OnFile(w) \/ (\E i \in DOMAIN Applied(w) : e = Applied(w)[i])
           \/ e.source \in {"environment", "component"} /\ e.url = Catalog!NoUrl
      /\ \A i \in DOMAIN Applied(w) : \E e \in catalog : e.id = Applied(w)[i].id
      /\ \A e, f \in catalog : e # f /\ e.id = f.id => e \in OnFile(w) /\ f \in OnFile(w)
  BY Listed
<1>2. \A e \in OnFile(w) :
        \/ /\ e.source = "fleet" /\ e.id = Catalog!EntityId(e.url)
           /\ \E entry \in Registered(w) : e = Catalog!FleetEntity(w, runs, entry) /\ e.url = entry.url
        \/ e.source = "modules_root" /\ e.url = Catalog!NoUrl
  BY Bases, FleetFields, LocalFields
<1>3. \A entry \in Registered(w) : \E e \in OnFile(w) :
        /\ e.source = "fleet" /\ e.url = entry.url /\ e.dir = Catalog!MatchLocalDir(w, entry.url)
  BY Bases, FleetFields
<1>4. \A i \in DOMAIN Applied(w) :
        LET e == Applied(w)[i]
        IN /\ i \in DOMAIN runs /\ Catalog!Published(runs[i]) /\ Normal(runs[i].url) \notin Known(w)
           /\ e.source = "audit" /\ e.url = runs[i].url /\ e.id = Catalog!EntityId(e.url)
           /\ e.card.gates = "pass" /\ e.card.pins # "pass"
  BY AppliedOnce, AppliedFields
<1>5. \A i, j \in DOMAIN Applied(w) : Normal(runs[i].url) = Normal(runs[j].url) => i = j
  BY AppliedOnce
<1>6. \A i \in DOMAIN runs : Catalog!Published(runs[i]) /\ Normal(runs[i].url) \notin Known(w) =>
        \E k \in DOMAIN Applied(w) : Normal(runs[k].url) = Normal(runs[i].url)
  BY AppliedOnce
<1>7. \A a, b : Normal(a) = Normal(b) => Catalog!EntityId(a) = Catalog!EntityId(b)
  BY DEF Catalog!NormalizeRepoUrl, Catalog!EntityId
<1>8. Registered(w) \subseteq Catalog!FleetPage(w)
  BY Bases
<1> HIDE DEF catalog, runs, Normal
<1>9. w.fleet.enabled /\ (w.fleet.sql => w.fleet.mirrored) =>
        {e.url : e \in {x \in catalog : x.source = "fleet"}} = {entry.url : entry \in Catalog!FleetPage(w)}
  <2> SUFFICES ASSUME w.fleet.enabled, w.fleet.sql => w.fleet.mirrored
               PROVE  {e.url : e \in {x \in catalog : x.source = "fleet"}} = {entry.url : entry \in Catalog!FleetPage(w)}
    OBVIOUS
  <2>1. Registered(w) = Catalog!FleetPage(w)
    BY DEF Registered, Catalog!FleetFile, Catalog!FleetPage
  <2>2. \A e \in catalog : e.source = "fleet" => \E entry \in Registered(w) : e.url = entry.url
    BY <1>1, <1>2, <1>4
  <2>3. \A entry \in Registered(w) : \E e \in catalog : e.source = "fleet" /\ e.url = entry.url
    BY <1>1, <1>3
  <2> QED BY <2>1, <2>2, <2>3
<1>10. ASSUME NEW i \in DOMAIN runs, Catalog!Published(runs[i])
       PROVE  \E e \in catalog : e.id = Catalog!EntityId(runs[i].url)
  <2>1. CASE Normal(runs[i].url) \in Known(w)
    <3>1. PICK e \in OnFile(w) : e.url # Catalog!NoUrl /\ Normal(e.url) = Normal(runs[i].url)
      BY <2>1 DEF Known, Normal
    <3> QED BY <1>1, <1>2, <1>7, <3>1
  <2>2. CASE Normal(runs[i].url) \notin Known(w)
    <3>1. PICK k \in DOMAIN Applied(w) : Normal(runs[k].url) = Normal(runs[i].url)
      BY <1>6, <1>10, <2>2
    <3>2. Applied(w)[k].id = Catalog!EntityId(runs[i].url)
      BY <1>4, <1>7, <3>1
    <3> QED BY <1>1, <3>2
  <2> QED BY <2>1, <2>2
<1>11. ASSUME NEW run \in Catalog!Range(runs), Catalog!Published(run)
       PROVE  /\ ~Catalog!SaysFailed(run)
              /\ \E e \in catalog : e.id = Catalog!LeadsTo(run)
              /\ \E e \in catalog : Normal(e.url) = Normal(run.url) \/ e.id = Catalog!EntityId(run.url)
  <2>1. PICK i \in DOMAIN runs : run = runs[i]
    BY DEF Catalog!Range
  <2>2. \E e \in catalog : e.id = Catalog!EntityId(run.url)
    BY <1>10, <1>11, <2>1
  <2>3. Catalog!LeadsTo(run) = Catalog!EntityId(run.url)
    BY <1>11 DEF Catalog!LeadsTo, Catalog!Published
  <2>4. ~Catalog!SaysFailed(run)
    BY <1>11 DEF Catalog!SaysFailed, Catalog!Published
  <2> QED BY <2>2, <2>3, <2>4
<1>12. ASSUME NEW dir \in DOMAIN w.root, w.root[dir].governed PROVE \E e \in catalog : e.dir = dir
  <2>1. CASE \E entry \in Registered(w) : entry.url.name = dir
    <3>1. PICK entry \in Registered(w) : entry.url.name = dir
      BY <2>1
    <3>2. Catalog!MatchLocalDir(w, entry.url) = dir
      BY <3>1 DEF Catalog!MatchLocalDir
    <3> QED BY <1>1, <1>3, <3>1, <3>2
  <2>2. CASE ~ \E entry \in Registered(w) : entry.url.name = dir
    <3>1. Catalog!LocalEntity(w, runs, dir) \in OnFile(w)
      BY <1>12, <2>2, Bases DEF runs
    <3> QED BY <1>1, <3>1, LocalFields
  <2> QED BY <2>1, <2>2
<1>13. ASSUME NEW e \in catalog, NEW f \in catalog, e # f, e.url # Catalog!NoUrl PROVE Normal(e.url) # Normal(f.url)
  <2>1. \A x \in catalog :
          \/ x.url = Catalog!NoUrl
          \/ x \in OnFile(w) /\ \E entry \in Registered(w) : x = Catalog!FleetEntity(w, runs, entry) /\ x.url = entry.url
          \/ \E i \in DOMAIN Applied(w) : x = Applied(w)[i]
    BY <1>1, <1>2
  <2>2. \A x \in catalog : x.url # Catalog!NoUrl => Normal(x.url) # Catalog!NoUrl
    <3>1. \A entry \in Registered(w) : entry.url # Catalog!NoUrl /\ Normal(entry.url) = entry.url
      BY <1>8 DEF Catalog!WellKept, Normal
    <3>2. \A i \in DOMAIN Applied(w) : Normal(runs[i].url) = Catalog!NoUrl => runs[i].url = Catalog!NoUrl
      BY <1>4 DEF Catalog!WellKept, Normal, runs
    <3> QED BY <1>4, <2>1, <3>1, <3>2
  <2>3. CASE f.url = Catalog!NoUrl
    <3>1. Normal(Catalog!NoUrl) = Catalog!NoUrl
      BY DEF Normal, Catalog!NormalizeRepoUrl, Catalog!NoUrl
    <3> QED BY <1>13, <2>2, <2>3, <3>1
  <2>4. CASE e \in OnFile(w) /\ f \in OnFile(w) /\ f.url # Catalog!NoUrl
    <3>1. PICK a \in Registered(w) : e = Catalog!FleetEntity(w, runs, a) /\ e.url = a.url
      BY <1>2, <1>13, <2>4
    <3>2. PICK b \in Registered(w) : f = Catalog!FleetEntity(w, runs, b) /\ f.url = b.url
      BY <1>2, <1>13, <2>4
    <3>3. Normal(a.url) = a.url /\ Normal(b.url) = b.url
      BY <1>8 DEF Catalog!WellKept, Normal
    <3>4. a.url = b.url => a = b
      BY <1>8, OneEntryPerUrl DEF Catalog!FleetPage
    <3> QED BY <1>13, <3>1, <3>2, <3>3, <3>4
  <2>5. \A x \in OnFile(w) : x.url # Catalog!NoUrl => Normal(x.url) \in Known(w)
    BY DEF Known, Normal
  <2>6. CASE \E i \in DOMAIN Applied(w) : e = Applied(w)[i]
    <3>1. PICK i \in DOMAIN Applied(w) : e = Applied(w)[i]
      BY <2>6
    <3>2. CASE f \in OnFile(w) /\ f.url # Catalog!NoUrl
      BY <1>4, <2>5, <3>1, <3>2
    <3>3. CASE \E j \in DOMAIN Applied(w) : f = Applied(w)[j]
      BY <1>4, <1>5, <1>13, <3>1, <3>3
    <3> QED BY <2>1, <2>3, <3>2, <3>3
  <2>7. CASE e \in OnFile(w) /\ \E j \in DOMAIN Applied(w) : f = Applied(w)[j]
    BY <1>4, <1>13, <2>5, <2>7
  <2> QED BY <1>13, <2>1, <2>3, <2>4, <2>6, <2>7
<1>14. ASSUME NEW e \in catalog, NEW f \in catalog, e # f, e.id = f.id
       PROVE  {e.source, f.source} \subseteq {"fleet", "modules_root"}
  BY <1>1, <1>2, <1>14
<1>15. ASSUME NEW e \in catalog, e.source = "audit" PROVE e.card.gates = "pass" /\ e.card.pins # "pass"
  BY <1>1, <1>2, <1>4, <1>15
<1> QED BY <1>9, <1>11, <1>12, <1>13, <1>14, <1>15, Zenon DEF Catalog!SourcesShown, catalog, runs, Normal

-----------------------------------------------------------------------------
(* What a level of maturity means. *)
(* A set of numbers below a bound has a greatest one. *)
LEMMA GreatestNumber ==
  ASSUME NEW n \in Nat, NEW S \in SUBSET 1..n, S # {}
  PROVE  \E i \in S : \A j \in S : i >= j
<1> DEFINE T == {n - i : i \in S}
<1>1. T \in SUBSET Nat /\ T # {}
  <2>1. \A i \in S : i \in 1..n /\ n - i \in Nat
    OBVIOUS
  <2> QED BY <2>1
<1>2. PICK k \in T : \A j \in T : k <= j
  BY <1>1, LeastNumber
<1>3. PICK i \in S : k = n - i
  OBVIOUS
<1>4. \A j \in S : n - i <= n - j
  BY <1>2, <1>3
<1> QED BY <1>3, <1>4

(* Who does no worse meets every rule that was met. *)
LEMMA BetterMeets ==
  ASSUME NEW e, NEW d, Catalog!Scored(e), Catalog!Scored(d), Catalog!NoWorse(e, d),
         NEW rule, rule.require \in Catalog!Levels, Catalog!Meets(e, rule)
  PROVE  Catalog!Meets(d, rule)
<1>1. CASE rule.kind = "has_oncall"
  BY <1>1 DEF Catalog!Meets, Catalog!NoWorse
<1>2. CASE rule.kind = "has_dependencies"
  BY <1>2 DEF Catalog!Meets, Catalog!NoWorse
<1>3. CASE rule.kind \notin {"has_oncall", "has_dependencies"}
  <2>1. /\ rule.key \in DOMAIN e.card
        /\ Catalog!OutcomeRank[e.card[rule.key]] >= Catalog!OutcomeRank[rule.require]
    BY <1>3 DEF Catalog!Meets
  <2>2. /\ rule.key \in DOMAIN d.card
        /\ Catalog!OutcomeRank[e.card[rule.key]] <= Catalog!OutcomeRank[d.card[rule.key]]
    BY <2>1 DEF Catalog!NoWorse
  <2>3. \A level \in Catalog!Levels : Catalog!OutcomeRank[level] \in Int
    BY DEF Catalog!Levels, Catalog!OutcomeRank
  <2>4. /\ Catalog!OutcomeRank[e.card[rule.key]] \in Int /\ Catalog!OutcomeRank[d.card[rule.key]] \in Int
        /\ Catalog!OutcomeRank[rule.require] \in Int
    BY <2>1, <2>2, <2>3 DEF Catalog!Scored
  <2>5. Catalog!OutcomeRank[d.card[rule.key]] >= Catalog!OutcomeRank[rule.require]
    BY <2>1, <2>2, <2>4
  <2> QED BY <1>3, <2>2, <2>5 DEF Catalog!Meets
<1> QED BY <1>1, <1>2, <1>3

(* The levels an entity reaches without a gap. *)
Climbed(e, rubric) == {i \in DOMAIN rubric : \A j \in 1..i : Catalog!Fulfils(e, rubric[j])}

(* The highest of them is the level, and the rules it was judged by. *)
LEMMA Judged ==
  ASSUME NEW e, NEW rubric, Catalog!Ladder(rubric)
  PROVE  \E m \in DOMAIN rubric :
           /\ Catalog!EvaluateMaturity(e, rubric).rules =
                {[key |-> rule.key, passed |-> Catalog!Meets(e, rule)] : rule \in rubric[m].rules}
           /\ Climbed(e, rubric) = {} => Catalog!LevelOf(e, rubric) = 0
           /\ Climbed(e, rubric) # {} =>
                /\ Catalog!LevelOf(e, rubric) = rubric[m].level
                /\ m \in Climbed(e, rubric) /\ \A i \in Climbed(e, rubric) : i <= m
<1> DEFINE reached == Climbed(e, rubric)
           judged == IF reached = {} THEN 1 ELSE Catalog!Max(reached)
<1>1. reached = {i \in DOMAIN rubric : \A j \in 1..i : \A rule \in rubric[j].rules : Catalog!Meets(e, rule)}
  BY DEF Climbed, Catalog!Fulfils
<1>2. Catalog!EvaluateMaturity(e, rubric) =
        [level |-> IF reached = {} THEN 0 ELSE rubric[judged].level,
         rules |-> {[key |-> rule.key, passed |-> Catalog!Meets(e, rule)] : rule \in rubric[judged].rules}]
  BY <1>1, Zenon DEF Catalog!EvaluateMaturity
<1>3. PICK n \in Nat \ {0} : DOMAIN rubric = 1..n
  BY DEF Catalog!Ladder
<1>4. reached \in SUBSET 1..n
  BY <1>3 DEF Climbed
<1> HIDE DEF reached
<1>5. reached # {} => judged \in reached /\ \A i \in reached : judged >= i
  <2> SUFFICES ASSUME reached # {} PROVE judged \in reached /\ \A i \in reached : judged >= i
    OBVIOUS
  <2>1. \E x \in reached : \A y \in reached : x >= y
    BY <1>4, GreatestNumber
  <2> QED BY <2>1 DEF Catalog!Max
<1>6. judged \in DOMAIN rubric
  <2>1. CASE reached = {}
    BY <1>3, <2>1
  <2>2. CASE reached # {}
    <3> HIDE DEF judged
    <3> QED BY <1>3, <1>4, <1>5, <2>2
  <2> QED BY <2>1, <2>2
<1> HIDE DEF judged
<1>7. Catalog!LevelOf(e, rubric) = IF reached = {} THEN 0 ELSE rubric[judged].level
  BY <1>2 DEF Catalog!LevelOf
<1>8. Catalog!EvaluateMaturity(e, rubric).rules =
        {[key |-> rule.key, passed |-> Catalog!Meets(e, rule)] : rule \in rubric[judged].rules}
  BY <1>2
<1>9. \A i \in reached : i <= judged \/ reached = {}
  BY <1>3, <1>4, <1>5, <1>6
<1> QED BY <1>5, <1>6, <1>7, <1>8, <1>9 DEF reached

(* Doing no worse never lowers the level. *)
LEMMA LevelsAreKept ==
  ASSUME NEW rubric, Catalog!Ladder(rubric), NEW e, NEW d, Catalog!Scored(e), Catalog!Scored(d)
  PROVE  Catalog!NeverLowered(rubric, e, d)
<1> SUFFICES ASSUME Catalog!NoWorse(e, d)
             PROVE  Catalog!LevelOf(e, rubric) <= Catalog!LevelOf(d, rubric)
  BY Zenon DEF Catalog!NeverLowered
<1>1. PICK n \in Nat \ {0} : DOMAIN rubric = 1..n
  BY DEF Catalog!Ladder
<1>2. Climbed(e, rubric) \subseteq Climbed(d, rubric)
  <2> SUFFICES ASSUME NEW i \in Climbed(e, rubric), NEW j \in 1..i, NEW rule \in rubric[j].rules
               PROVE  Catalog!Meets(d, rule)
    BY DEF Climbed, Catalog!Fulfils
  <2>1. j \in DOMAIN rubric
    BY <1>1 DEF Climbed
  <2>2. Catalog!Meets(e, rule)
    BY DEF Climbed, Catalog!Fulfils
  <2> QED BY <2>1, <2>2, BetterMeets DEF Catalog!Ladder
<1>3. \A i \in DOMAIN rubric : rubric[i].level \in Nat
  BY DEF Catalog!Ladder
<1>4. \A i, j \in DOMAIN rubric : i <= j => rubric[i].level <= rubric[j].level
  BY <1>1, <1>3 DEF Catalog!Ladder
<1>5. PICK m \in DOMAIN rubric :
        /\ Climbed(e, rubric) = {} => Catalog!LevelOf(e, rubric) = 0
        /\ Climbed(e, rubric) # {} => Catalog!LevelOf(e, rubric) = rubric[m].level /\ m \in Climbed(e, rubric)
  BY Judged
<1>6. PICK k \in DOMAIN rubric :
        /\ Climbed(d, rubric) = {} => Catalog!LevelOf(d, rubric) = 0
        /\ Climbed(d, rubric) # {} =>
             Catalog!LevelOf(d, rubric) = rubric[k].level /\ \A i \in Climbed(d, rubric) : i <= k
  BY Judged
<1>7. CASE Climbed(e, rubric) = {}
  BY <1>3, <1>5, <1>6, <1>7
<1>8. CASE Climbed(e, rubric) # {}
  <2>1. m \in Climbed(d, rubric) /\ m <= k
    BY <1>2, <1>5, <1>6, <1>8
  <2> QED BY <1>2, <1>4, <1>5, <1>6, <1>8, <2>1
<1> QED BY <1>7, <1>8

(* A level is reached with those below it. *)
LEMMA LevelsAreEarned ==
  ASSUME NEW rubric, Catalog!Ladder(rubric), NEW e
  PROVE  Catalog!LevelEarned(rubric, e)
<1>1. PICK n \in Nat \ {0} : DOMAIN rubric = 1..n
  BY DEF Catalog!Ladder
<1>2. \A i \in DOMAIN rubric : rubric[i].level \in Nat \ {0}
  BY DEF Catalog!Ladder
<1>3. \A i, j \in DOMAIN rubric : i <= j => rubric[i].level <= rubric[j].level
  BY <1>1, <1>2 DEF Catalog!Ladder
<1>4. PICK m \in DOMAIN rubric :
        /\ Climbed(e, rubric) = {} => Catalog!LevelOf(e, rubric) = 0
        /\ Climbed(e, rubric) # {} =>
             /\ Catalog!LevelOf(e, rubric) = rubric[m].level
             /\ m \in Climbed(e, rubric) /\ \A i \in Climbed(e, rubric) : i <= m
  BY Judged
<1>5. Climbed(e, rubric) # {} => \A i \in 1..m : Catalog!Fulfils(e, rubric[i])
  BY <1>4 DEF Climbed
<1>6. Catalog!LevelOf(e, rubric) # 0 =>
        \E i \in DOMAIN rubric : rubric[i].level = Catalog!LevelOf(e, rubric) /\ Catalog!Fulfils(e, rubric[i])
  <2> SUFFICES ASSUME Climbed(e, rubric) # {}
               PROVE  rubric[m].level = Catalog!LevelOf(e, rubric) /\ Catalog!Fulfils(e, rubric[m])
    BY <1>4
  <2> QED BY <1>1, <1>4, <1>5
<1>7. ASSUME NEW i \in DOMAIN rubric, rubric[i].level < Catalog!LevelOf(e, rubric)
      PROVE  Catalog!Fulfils(e, rubric[i])
  <2>1. Climbed(e, rubric) # {}
    BY <1>2, <1>4, <1>7
  <2>2. i \in 1..m
    BY <1>1, <1>2, <1>3, <1>4, <1>7, <2>1
  <2> QED BY <1>5, <2>1, <2>2
<1>8. ASSUME NEW i \in DOMAIN rubric, \A j \in 1..i : Catalog!Fulfils(e, rubric[j])
      PROVE  rubric[i].level <= Catalog!LevelOf(e, rubric)
  <2>1. i \in Climbed(e, rubric)
    BY <1>8 DEF Climbed
  <2> QED BY <1>3, <1>4, <2>1
<1> QED BY <1>6, <1>7, <1>8 DEF Catalog!LevelEarned

(* An initiative is met by rules that were met. *)
LEMMA InitiativesAreEarned ==
  ASSUME NEW rubric, Catalog!Ladder(rubric), NEW e, NEW initiative, initiative.level \in Int
  PROVE  Catalog!InitiativeEarned(initiative, rubric, e)
<1> DEFINE maturity == Catalog!EvaluateMaturity(e, rubric)
<1> SUFFICES ASSUME Catalog!EvaluateInitiative(initiative, maturity)
             PROVE  /\ \A i \in DOMAIN rubric : rubric[i].level < initiative.level => Catalog!Fulfils(e, rubric[i])
                    /\ \A key \in initiative.keys : \E i \in DOMAIN rubric : \E rule \in rubric[i].rules :
                         rule.key = key /\ Catalog!Meets(e, rule)
  BY DEF Catalog!InitiativeEarned
<1>1. /\ initiative.level > 0 => Catalog!LevelOf(e, rubric) >= initiative.level
      /\ initiative.keys \subseteq {r.key : r \in {q \in maturity.rules : q.passed}}
  BY DEF Catalog!EvaluateInitiative, Catalog!LevelOf
<1>2. PICK m \in DOMAIN rubric :
        /\ maturity.rules = {[key |-> rule.key, passed |-> Catalog!Meets(e, rule)] : rule \in rubric[m].rules}
        /\ Climbed(e, rubric) = {} => Catalog!LevelOf(e, rubric) = 0
        /\ Climbed(e, rubric) # {} => Catalog!LevelOf(e, rubric) = rubric[m].level
  BY Judged
<1>3. \A i \in DOMAIN rubric : rubric[i].level \in Nat \ {0}
  BY DEF Catalog!Ladder
<1>4. Catalog!LevelOf(e, rubric) \in Nat
  BY <1>2, <1>3
<1>5. ASSUME NEW i \in DOMAIN rubric, rubric[i].level < initiative.level PROVE Catalog!Fulfils(e, rubric[i])
  <2>1. rubric[i].level < Catalog!LevelOf(e, rubric)
    BY <1>1, <1>3, <1>4, <1>5
  <2> QED BY <2>1, LevelsAreEarned DEF Catalog!LevelEarned
<1> HIDE DEF maturity
<1>6. ASSUME NEW key \in initiative.keys
      PROVE  \E rule \in rubric[m].rules : rule.key = key /\ Catalog!Meets(e, rule)
  <2>1. PICK q \in maturity.rules : q.passed /\ q.key = key
    BY <1>1
  <2>2. PICK rule \in rubric[m].rules : q = [key |-> rule.key, passed |-> Catalog!Meets(e, rule)]
    BY <1>2
  <2> QED BY <2>1, <2>2
<1> QED BY <1>5, <1>6

(* Of every rubric that is loaded: doing no worse never lowers the level, a  *)
(* level is earned, and so is an initiative.                                 *)
THEOREM LevelsAreFair ==
  \A rubric, e, d, initiative : Catalog!Ladder(rubric) /\ Catalog!Scored(e) /\ Catalog!Scored(d) /\ initiative.level \in Int =>
    /\ Catalog!NeverLowered(rubric, e, d) /\ Catalog!LevelEarned(rubric, e)
    /\ Catalog!InitiativeEarned(initiative, rubric, e)
BY LevelsAreKept, LevelsAreEarned, InitiativesAreEarned

(* The rubric that is shipped is a ladder. *)
LEMMA DefaultLadder == Catalog!Ladder(Catalog!DefaultRubric)
<1> DEFINE r == Catalog!DefaultRubric
<1>1. /\ Len(r) = 5 /\ DOMAIN r = 1..5
      /\ r[1] = [level |-> 1, rules |-> Catalog!Provenanced]
      /\ r[2] = [level |-> 2, rules |-> Catalog!Provenanced \cup {Catalog!Rule("pins", "warn")}]
      /\ r[3] = [level |-> 3, rules |-> Catalog!Operable]
      /\ r[4] = [level |-> 4, rules |-> Catalog!Reliable]
      /\ r[5] = [level |-> 5, rules |-> Catalog!Reliable \cup {Catalog!Rule("deployment", "pass"), Catalog!Rule("cost", "warn")}]
  BY DEF Catalog!DefaultRubric
<1>2. \A key : Catalog!Rule(key, "pass").require \in Catalog!Levels /\ Catalog!Rule(key, "warn").require \in Catalog!Levels
  BY DEF Catalog!Rule, Catalog!Levels
<1> HIDE DEF r
<1>3. \A i \in 1..5 : r[i].level = i
  BY <1>1
<1>4. \A rule \in Catalog!Reliable : rule.require \in Catalog!Levels
  BY <1>2 DEF Catalog!Reliable, Catalog!Operable, Catalog!Provenanced
<1>5. Catalog!Provenanced \subseteq Catalog!Reliable /\ Catalog!Operable \subseteq Catalog!Reliable
  BY DEF Catalog!Reliable, Catalog!Operable
<1>6. \A i \in 1..5 : \A rule \in r[i].rules : rule.require \in Catalog!Levels
  <2> TAKE i \in 1..5
  <2>1. r[i].rules \subseteq Catalog!Reliable \cup {Catalog!Rule("pins", "warn"), Catalog!Rule("deployment", "pass"), Catalog!Rule("cost", "warn")}
    BY <1>1, <1>5
  <2> QED BY <1>2, <1>4, <2>1
<1> QED BY <1>1, <1>3, <1>6 DEF Catalog!Ladder, r

-----------------------------------------------------------------------------
(* The fields of an entity that its level rests on. *)
IsEntity(e) == {"source", "display", "url", "dir", "outcome", "card", "oncall", "depends"} \subseteq DOMAIN e

(* An entity of the catalog comes from one of the five sources. *)
LEMMA Sources ==
  ASSUME NEW w, NEW e \in Catalog!BuildPortalCatalogEntities(w)
  PROVE  \/ \E runs : \E entry \in Catalog!FleetPage(w) : e = Catalog!FleetEntity(w, runs, entry)
         \/ \E runs, dir : e = Catalog!LocalEntity(w, runs, dir)
         \/ \E run : e = Catalog!AppliedEntity(w, run)
         \/ \E record : e = Catalog!EnvironmentEntity(w, record) \/ e = Catalog!ComponentEntity(w, record)
<1> DEFINE runs == Catalog!RecentRuns(w)
           fleet == IF w.fleet.enabled THEN Catalog!FleetFile(w) ELSE {}
           base == Catalog!BuildCatalogEntities(w, fleet, runs)
           known == {Catalog!NormalizeRepoUrl(x.url) : x \in {y \in base : y.url # Catalog!NoUrl}}
           audit == Catalog!BuildCatalogFromAuditApplies(w, runs, known)
           applied == Catalog!MergeCatalogEntities(base, audit)
           environments == [i \in DOMAIN w.environments |-> Catalog!EnvironmentEntity(w, w.environments[i])]
           components == [i \in DOMAIN w.components |-> Catalog!ComponentEntity(w, w.components[i])]
<1>1. Catalog!BuildPortalCatalogEntities(w) =
        Catalog!MergeCatalogEntities(Catalog!MergeCatalogEntities(applied, environments), components)
  BY Zenon DEF Catalog!BuildPortalCatalogEntities
<1>2. ASSUME NEW some, NEW extra, NEW x \in Catalog!MergeCatalogEntities(some, extra)
      PROVE  x \in some \/ \E i \in DOMAIN extra : x = extra[i]
  BY <1>2 DEF Catalog!MergeCatalogEntities
<1>3. ASSUME NEW i \in DOMAIN audit PROVE \E run : audit[i] = Catalog!AppliedEntity(w, run)
  BY <1>3 DEF Catalog!BuildCatalogFromAuditApplies
<1>4. ASSUME NEW x \in base
      PROVE  \/ \E entry \in Catalog!FleetPage(w) : x = Catalog!FleetEntity(w, runs, entry)
             \/ \E dir : x = Catalog!LocalEntity(w, runs, dir)
  <2>1. fleet \subseteq Catalog!FleetPage(w)
    BY DEF Catalog!FleetFile, Catalog!FleetPage
  <2> QED BY <1>4, <2>1 DEF Catalog!BuildCatalogEntities
<1>5. \A i \in DOMAIN environments : environments[i] = Catalog!EnvironmentEntity(w, w.environments[i])
  OBVIOUS
<1>6. \A i \in DOMAIN components : components[i] = Catalog!ComponentEntity(w, w.components[i])
  OBVIOUS
<1> HIDE DEF runs, base, audit, applied, environments, components
<1>7. \/ e \in base \/ (\E i \in DOMAIN audit : e = audit[i])
      \/ (\E i \in DOMAIN environments : e = environments[i])
      \/ (\E i \in DOMAIN components : e = components[i])
  BY <1>1, <1>2 DEF applied
<1> QED BY <1>3, <1>4, <1>5, <1>6, <1>7

(* An enriched entity keeps what it was. *)
LEMMA Shaped ==
  ASSUME NEW e, IsEntity(e), NEW card, NEW oncall, NEW depends
  PROVE  LET x == [e EXCEPT !.card = card]
             y == [e EXCEPT !.oncall = oncall, !.depends = depends]
         IN /\ IsEntity(x) /\ x.card = card
            /\ x.source = e.source /\ x.url = e.url /\ x.dir = e.dir /\ x.outcome = e.outcome /\ x.display = e.display
            /\ y.card = e.card
            /\ y.source = e.source /\ y.url = e.url /\ y.dir = e.dir /\ y.outcome = e.outcome /\ y.display = e.display
BY DEF IsEntity

(* A dimension is added and the others are kept. *)
LEMMA Dimensions ==
  ASSUME NEW card, NEW key, NEW level
  PROVE  LET c == Catalog!ApplyToScorecard(card, key, level)
         IN /\ key \in DOMAIN c /\ c[key] = level
            /\ \A k : k # key => (k \in DOMAIN c <=> k \in DOMAIN card) /\ (k \in DOMAIN card => c[k] = card[k])
BY DEF Catalog!ApplyToScorecard

(* What the readers add to an entity: a cost, a deployment, and links. *)
LEMMA Enriched ==
  ASSUME NEW w, NEW e, IsEntity(e)
  PROVE  LET s == Catalog!Overlay(w, Catalog!EnrichWithDeployment(w, Catalog!EnrichWithCost(w, e))).entity
         IN /\ s.source = e.source /\ s.url = e.url /\ s.dir = e.dir /\ s.outcome = e.outcome /\ s.display = e.display
            /\ \A key : key \notin {"cost", "deployment"} /\ key \in DOMAIN s.card =>
                 key \in DOMAIN e.card /\ s.card[key] = e.card[key]
            /\ Catalog!Scored(e) => Catalog!Scored(s)
            /\ "deployment" \in DOMAIN s.card /\ "deployment" \notin DOMAIN e.card =>
                 /\ w.deployer # "none"
                 /\ \E x : x.display = e.display /\
                      s.card["deployment"] = Catalog!DeploymentLevel(Catalog!DeploymentStatus(w, x))
<1> DEFINE c == Catalog!ApplyToScorecard(e.card, "cost",
                  Catalog!CostLevel(e.owner, Catalog!Actuals(w, e), Catalog!TreeOf(w, e.dir).estimated, w.reader))
           x == Catalog!EnrichWithCost(w, e)
           level == Catalog!DeploymentLevel(Catalog!DeploymentStatus(w, x))
           d == Catalog!ApplyToScorecard(x.card, "deployment", level)
           y == Catalog!EnrichWithDeployment(w, x)
           z == Catalog!Overlay(w, y).entity
<1>1. x = [e EXCEPT !.card = c]
  BY Zenon DEF Catalog!EnrichWithCost
<1>2. /\ \A key : key # "cost" /\ key \in DOMAIN c => key \in DOMAIN e.card /\ c[key] = e.card[key]
      /\ c["cost"] \in Catalog!Levels
  BY Dimensions DEF Catalog!CostLevel, Catalog!Levels
<1> HIDE DEF c
<1>3. /\ IsEntity(x) /\ x.card = c
      /\ x.source = e.source /\ x.url = e.url /\ x.dir = e.dir /\ x.outcome = e.outcome /\ x.display = e.display
  BY <1>1, Shaped
<1>4. y = IF w.deployer = "none" THEN x ELSE [x EXCEPT !.card = d]
  BY Zenon DEF Catalog!EnrichWithDeployment
<1> HIDE DEF x
<1>a. level \in Catalog!Levels
  BY DEF Catalog!DeploymentLevel, Catalog!Levels
<1>5. /\ d["deployment"] = level
      /\ \A key : key # "deployment" /\ key \in DOMAIN d => key \in DOMAIN c /\ d[key] = c[key]
  BY <1>3, Dimensions
<1> HIDE DEF d, level
<1>6. /\ IsEntity(y) /\ y.card \in {c, d}
      /\ y.source = x.source /\ y.url = x.url /\ y.dir = x.dir /\ y.outcome = x.outcome /\ y.display = x.display
      /\ w.deployer = "none" => y.card = c
  <2>1. CASE w.deployer = "none"
    BY <1>3, <1>4, <2>1
  <2>2. CASE w.deployer # "none"
    BY <1>3, <1>4, <2>2, Shaped
  <2> QED BY <2>1, <2>2
<1> HIDE DEF y
<1>7. z = [y EXCEPT !.oncall = y.oncall \/ Catalog!TreeOf(w, y.dir).oncall,
                    !.depends = y.depends \cup Catalog!TreeOf(w, y.dir).depends]
  BY DEF Catalog!Overlay
<1>8. /\ z.card = y.card
      /\ z.source = y.source /\ z.url = y.url /\ z.dir = y.dir /\ z.outcome = y.outcome /\ z.display = y.display
  BY <1>6, <1>7, Shaped
<1> HIDE DEF z
<1>9. ASSUME NEW key, key \notin {"cost", "deployment"}, key \in DOMAIN z.card
      PROVE  key \in DOMAIN e.card /\ z.card[key] = e.card[key]
  BY <1>2, <1>5, <1>6, <1>8, <1>9
<1>10. "deployment" \in DOMAIN z.card /\ "deployment" \notin DOMAIN e.card =>
         w.deployer # "none" /\ z.card["deployment"] = level
  <2> SUFFICES ASSUME "deployment" \in DOMAIN z.card, "deployment" \notin DOMAIN e.card
               PROVE  w.deployer # "none" /\ z.card["deployment"] = level
    OBVIOUS
  <2>1. "deployment" \notin DOMAIN c
    BY <1>2
  <2> QED BY <1>5, <1>6, <1>8, <2>1
<1>11. ASSUME Catalog!Scored(e) PROVE Catalog!Scored(z)
  BY <1>2, <1>5, <1>6, <1>8, <1>11, <1>a DEF Catalog!Scored
<1> QED BY <1>3, <1>6, <1>8, <1>9, <1>10, <1>11 DEF level, x, y, z

(* What the card of an entity says, by its source. *)
Backed(w, e) ==
  LET tree == Catalog!TreeOf(w, e.dir)
      Passes(key) == key \in DOMAIN e.card /\ e.card[key] = "pass"
  IN /\ Catalog!Scored(e) /\ "deployment" \notin DOMAIN e.card
     /\ Passes("provenance") => e.dir # <<>> /\ tree.governed
     /\ Passes("has_runbook") => e.dir # <<>> /\ Catalog!HasRunbook(tree)
     /\ Passes("has_slo") => Catalog!HasSlo(tree)
     /\ Passes("gates") => e.outcome = "passed"
     /\ e.source \in {"fleet", "modules_root", "audit", "environment", "component"}
     /\ e.source \in {"environment", "component"} => "provenance" \notin DOMAIN e.card
     /\ e.source = "audit" => ~Passes("pins")
     /\ e.source = "modules_root" => e.card["pins"] = "unknown"
     /\ e.source = "fleet" =>
          \E entry \in Catalog!FleetPage(w) : e.url = entry.url /\ (Passes("pins") => entry.pinned /\ entry.standard)

(* The scorecards of repositories and checkouts. *)
LEMMA CardFacts ==
  ASSUME NEW w, NEW source, NEW id, NEW display, NEW url, NEW dir, NEW owner, NEW blueprint, NEW type, NEW run,
         NEW tree, NEW entry, NEW phase, NEW configured,
         dir # <<>> => tree = Catalog!TreeOf(w, dir),
         source \in {"fleet", "modules_root", "audit"},
         source = "audit" => ~entry.standard,
         source = "modules_root" => entry = Catalog!NoEntry,
         source = "fleet" => entry \in Catalog!FleetPage(w) /\ url = entry.url
  PROVE  LET card == Catalog!BuildScorecard(dir, tree, entry, phase, run, owner, configured)
             e == Catalog!Entity(source, id, display, url, dir, owner, blueprint, type, run, card)
         IN IsEntity(e) /\ Backed(w, e)
<1> DEFINE card == Catalog!BuildScorecard(dir, tree, entry, phase, run, owner, configured)
           e == Catalog!Entity(source, id, display, url, dir, owner, blueprint, type, run, card)
<1>1. /\ DOMAIN card = {"pins", "operator", "provenance", "has_runbook", "has_slo", "gates", "cost"}
      /\ card["pins"] = Catalog!PinLevel(entry) /\ card["provenance"] = Catalog!TreeLevel(dir, tree.governed)
      /\ card["has_runbook"] = Catalog!TreeLevel(dir, Catalog!HasRunbook(tree))
      /\ card["has_slo"] = Catalog!TreeLevel(dir, Catalog!HasSlo(tree)) /\ card["gates"] = Catalog!GateLevel(run)
  BY DEF Catalog!BuildScorecard
<1>a. /\ Catalog!PinLevel(entry) \in Catalog!Levels /\ Catalog!OperatorLevel(phase) \in Catalog!Levels
      /\ \A found : Catalog!TreeLevel(dir, found) \in Catalog!Levels
      /\ Catalog!GateLevel(run) \in Catalog!Levels /\ Catalog!CostLevel(owner, {}, FALSE, configured) \in Catalog!Levels
  BY DEF Catalog!Levels, Catalog!PinLevel, Catalog!OperatorLevel, Catalog!TreeLevel, Catalog!GateLevel, Catalog!CostLevel
<1>b. card["operator"] = Catalog!OperatorLevel(phase) /\ card["cost"] = Catalog!CostLevel(owner, {}, FALSE, configured)
  BY DEF Catalog!BuildScorecard
<1>2. \A key \in DOMAIN card : card[key] \in Catalog!Levels
  <2> HIDE DEF card
  <2> QED BY <1>1, <1>a, <1>b
<1> HIDE DEF card
<1>3. e.source = source /\ e.url = url /\ e.dir = dir /\ e.outcome = run.outcome /\ e.card = card
  BY DEF Catalog!Entity
<1>4. IsEntity(e)
  BY DEF IsEntity, Catalog!Entity
<1> HIDE DEF e
<1>5. \A found : Catalog!TreeLevel(dir, found) = "pass" => dir # <<>> /\ found
  BY DEF Catalog!TreeLevel
<1>6. Catalog!GateLevel(run) = "pass" => run.outcome = "passed"
  BY DEF Catalog!GateLevel
<1>7. Catalog!PinLevel(entry) = "pass" => entry.pinned /\ entry.standard
  BY DEF Catalog!PinLevel
<1>8. source = "modules_root" => Catalog!PinLevel(entry) = "unknown"
  BY DEF Catalog!PinLevel, Catalog!NoEntry
<1>9. Backed(w, e)
  BY <1>1, <1>2, <1>3, <1>5, <1>6, <1>7, <1>8 DEF Backed, Catalog!Scored
<1> QED BY <1>4, <1>9 DEF e, card

(* The scorecards of environments and components. *)
LEMMA VendedFacts ==
  ASSUME NEW w, NEW record, NEW e, e \in {Catalog!EnvironmentEntity(w, record), Catalog!ComponentEntity(w, record)}
  PROVE  IsEntity(e) /\ Backed(w, e)
<1> DEFINE card == Catalog!VendedScorecard(record)
           cost == Catalog!CostLevel(record.owner, {}, FALSE, w.reader)
           costed == Catalog!ApplyToScorecard(card, "cost", cost)
<1>1. /\ DOMAIN card = {"pins", "ttl", "gates"} /\ (card["gates"] = "pass" => record.outcome = "passed")
      /\ \A key \in DOMAIN card : card[key] \in Catalog!Levels
  BY DEF Catalog!VendedScorecard, Catalog!TtlLevel, Catalog!Levels
<1>2. cost \in Catalog!Levels
  BY DEF Catalog!CostLevel, Catalog!Levels
<1>3. IsEntity(e) /\ e.source \in {"environment", "component"} /\ e.outcome = record.outcome /\ e.card \in {card, costed}
  <2>1. ASSUME NEW source, NEW type, NEW c,
               e = Catalog!Entity(source, record.id, record.name, Catalog!NoUrl, <<>>, record.owner, record.blueprint,
                                  type, record, c)
        PROVE  IsEntity(e) /\ e.source = source /\ e.outcome = record.outcome /\ e.card = c
    BY <2>1 DEF IsEntity, Catalog!Entity
  <2>2. CASE e = Catalog!EnvironmentEntity(w, record)
    <3>1. e = Catalog!Entity("environment", record.id, record.name, Catalog!NoUrl, <<>>, record.owner, record.blueprint,
                             "environment", record, costed)
      BY <2>2, Zenon DEF Catalog!EnvironmentEntity
    <3> HIDE DEF card, costed
    <3> QED BY <2>1, <3>1
  <2>3. CASE e = Catalog!ComponentEntity(w, record)
    <3>1. e = Catalog!Entity("component", record.id, record.name, Catalog!NoUrl, <<>>, record.owner, record.blueprint,
                             record.kind, record, card)
      BY <2>3, Zenon DEF Catalog!ComponentEntity
    <3> HIDE DEF card, costed
    <3> QED BY <2>1, <3>1
  <2> QED BY <2>2, <2>3
<1> HIDE DEF card, cost
<1>4. /\ DOMAIN costed = {"pins", "ttl", "gates", "cost"} /\ (costed["gates"] = "pass" => record.outcome = "passed")
      /\ \A key \in DOMAIN costed : costed[key] \in Catalog!Levels
  BY <1>1, <1>2 DEF Catalog!ApplyToScorecard
<1> HIDE DEF costed
<1> QED BY <1>1, <1>3, <1>4 DEF Backed, Catalog!Scored

(* The card of every entity of the catalog is backed. *)
LEMMA EntityFacts ==
  ASSUME NEW w, NEW e \in Catalog!BuildPortalCatalogEntities(w)
  PROVE  IsEntity(e) /\ Backed(w, e)
<1>1. CASE \E runs : \E entry \in Catalog!FleetPage(w) : e = Catalog!FleetEntity(w, runs, entry)
  <2>1. PICK runs, entry : entry \in Catalog!FleetPage(w) /\ e = Catalog!FleetEntity(w, runs, entry)
    BY <1>1
  <2> DEFINE dir == Catalog!MatchLocalDir(w, entry.url)
             tree == Catalog!TreeOf(w, dir)
             display == Catalog!Or(tree.display, dir)
             run == Catalog!LatestRun(runs, {display, entry.blueprint, dir})
             owner == Catalog!Or(entry.owner, tree.owner)
  <2>2. e = Catalog!Entity("fleet", Catalog!EntityId(entry.url), Catalog!Or(display, Catalog!EntityId(entry.url)),
                           entry.url, dir, owner, entry.blueprint, tree.type, run,
                           Catalog!BuildScorecard(dir, tree, entry, Catalog!PhaseOf(w, entry.url), run, owner, w.reader))
    BY <2>1, Zenon DEF Catalog!FleetEntity
  <2> QED BY <2>1, <2>2, CardFacts
<1>2. CASE \E runs, dir : e = Catalog!LocalEntity(w, runs, dir)
  <2>1. PICK runs, dir : e = Catalog!LocalEntity(w, runs, dir)
    BY <1>2
  <2> DEFINE tree == w.root[dir]
             display == Catalog!Or(tree.display, dir)
             run == Catalog!LatestRun(runs, {display, dir, tree.blueprint})
  <2>2. e = Catalog!Entity("modules_root", <<"local">> \o dir, display, Catalog!NoUrl, dir, tree.owner, tree.blueprint,
                           tree.type, run,
                           Catalog!BuildScorecard(dir, tree, Catalog!NoEntry, "", run, tree.owner, w.reader))
    BY <2>1, Zenon DEF Catalog!LocalEntity
  <2>3. dir # <<>> => tree = Catalog!TreeOf(w, dir)
    BY DEF Catalog!TreeOf
  <2> HIDE DEF tree, display, run
  <2> QED BY <2>2, <2>3, CardFacts
<1>3. CASE \E run : e = Catalog!AppliedEntity(w, run)
  <2>1. PICK run : e = Catalog!AppliedEntity(w, run)
    BY <1>3
  <2> DEFINE dir == Catalog!MatchLocalDir(w, run.url)
             tree == Catalog!TreeOf(w, dir)
             entry == [Catalog!NoEntry EXCEPT !.url = run.url, !.blueprint = run.blueprint, !.pinned = run.pinned]
             phase == Catalog!PhaseOf(w, IF run.url \in DOMAIN w.phases THEN run.url ELSE Catalog!NormalizeRepoUrl(run.url))
  <2>2. e = Catalog!Entity("audit", Catalog!EntityId(run.url), Catalog!Or(tree.display, Catalog!ArtifactName(run)),
                           run.url, dir, tree.owner, run.blueprint, tree.type, run,
                           Catalog!BuildScorecard(dir, tree, entry, phase, run, tree.owner, w.reader))
    BY <2>1, Zenon DEF Catalog!AppliedEntity
  <2>3. ~entry.standard
    BY DEF Catalog!NoEntry
  <2> HIDE DEF dir, entry, phase
  <2> QED BY <2>2, <2>3, CardFacts
<1>4. CASE \E record : e = Catalog!EnvironmentEntity(w, record) \/ e = Catalog!ComponentEntity(w, record)
  BY <1>4, VendedFacts
<1> QED BY <1>1, <1>2, <1>3, <1>4, Sources

(* Of the files a reader tries in turn, it shows one when there is any. *)
LEMMA FirstIsShown ==
  ASSUME NEW files, Catalog!Range(Catalog!Runbooks) \cap files # {}
  PROVE  Catalog!FirstOf(Catalog!Runbooks, files) \cap Catalog!Range(Catalog!Runbooks) # {}
<1> DEFINE c == Catalog!Runbooks
           found == {i \in DOMAIN c : c[i] \in files}
<1>1. DOMAIN c = 1..3
  BY DEF Catalog!Runbooks
<1> HIDE DEF c
<1>2. found \in SUBSET Nat /\ found # {}
  BY <1>1 DEF Catalog!Range, c
<1>3. PICK i \in found : \A j \in found : i <= j
  BY <1>2, LeastNumber
<1>4. Catalog!Min(found) \in found
  <2> HIDE DEF found
  <2> QED BY <1>3, Zenon DEF Catalog!Min
<1>5. Catalog!FirstOf(c, files) = {c[Catalog!Min(found)]}
  BY <1>2 DEF Catalog!FirstOf
<1>6. c[Catalog!Min(found)] \in Catalog!Range(c)
  BY <1>4 DEF Catalog!Range
<1> QED BY <1>5, <1>6 DEF c

(* A passing deployment is a live one. *)
LEMMA LiveDeployments ==
  ASSUME NEW w, NEW x, Catalog!DeploymentLevel(Catalog!DeploymentStatus(w, x)) = "pass"
  PROVE  LET answer == w.deployments[x.display]
         IN /\ x.display \in DOMAIN w.deployments
            /\ IF w.deployer = "flux" THEN answer.ready = "true" /\ answer.revision
               ELSE /\ answer.sync \in {"synced", "sync", "in_sync"}
                    /\ answer.health \in {"healthy", "ok", "pass", "green", "ready"}
<1> DEFINE status == Catalog!DeploymentStatus(w, x)
           answers == Catalog!Answered(w.deployments, x)
           answer == w.deployments[x.display]
<1>1. status.sync = "synced" /\ status.health = "healthy"
  BY DEF Catalog!DeploymentLevel
<1>2. answers # {}
  <2> SUFFICES ASSUME answers = {} PROVE FALSE
    OBVIOUS
  <2>1. status = Catalog!UnknownStatus
    BY DEF Catalog!DeploymentStatus
  <2> QED BY <1>1, <2>1 DEF Catalog!UnknownStatus
<1>3. x.display \in DOMAIN w.deployments /\ answers = {answer}
  BY <1>2 DEF Catalog!Answered
<1>4. status = IF w.deployer = "flux" THEN Catalog!FluxStatus(answer)
               ELSE [sync |-> Catalog!NormalizeSync(answer.sync), health |-> Catalog!NormalizeHealth(answer.health)]
  <2>1. (CHOOSE a \in answers : TRUE) = answer
    BY <1>3
  <2> HIDE DEF answer
  <2> QED BY <1>2, <2>1 DEF Catalog!DeploymentStatus
<1> HIDE DEF status, answers, answer
<1>5. CASE w.deployer = "flux"
  <2>1. status = Catalog!FluxStatus(answer)
    BY <1>4, <1>5
  <2>2. status.health = Catalog!FluxHealth(answer.ready)
        /\ (status.sync = "synced" => answer.revision)
    BY <2>1 DEF Catalog!FluxStatus
  <2>3. answer.ready = "true"
    BY <1>1, <2>2 DEF Catalog!FluxHealth
  <2> QED BY <1>1, <1>3, <1>5, <2>2, <2>3 DEF answer
<1>6. CASE w.deployer # "flux"
  <2>1. Catalog!NormalizeSync(answer.sync) = "synced" /\ Catalog!NormalizeHealth(answer.health) = "healthy"
    BY <1>1, <1>4, <1>6
  <2>2. answer.sync \in {"synced", "sync", "in_sync"}
    BY <2>1 DEF Catalog!NormalizeSync
  <2>3. answer.health \in {"healthy", "ok", "pass", "green", "ready"}
    BY <2>1 DEF Catalog!NormalizeHealth
  <2> QED BY <1>3, <1>6, <2>2, <2>3 DEF answer
<1> QED BY <1>5, <1>6

(* What a level of the rubric that is shipped asks for. *)
LEMMA LevelsAsk ==
  ASSUME NEW e, Catalog!Scored(e)
  PROVE  LET level == Catalog!LevelOf(e, Catalog!DefaultRubric)
             Passes(key) == key \in DOMAIN e.card /\ e.card[key] = "pass"
         IN /\ level \in Nat
            /\ level >= 1 => Passes("provenance")
            /\ level >= 2 => "pins" \in DOMAIN e.card /\ e.card["pins"] \in {"pass", "warn"}
            /\ level >= 3 => Passes("pins") /\ Passes("has_runbook")
            /\ level >= 4 => Passes("has_slo") /\ Passes("gates")
            /\ level >= 5 => Passes("deployment") /\ "cost" \in DOMAIN e.card /\ e.card["cost"] \in {"pass", "warn"}
<1> DEFINE r == Catalog!DefaultRubric
           level == Catalog!LevelOf(e, r)
<1>1. /\ DOMAIN r = 1..5
      /\ r[1] = [level |-> 1, rules |-> Catalog!Provenanced]
      /\ r[2] = [level |-> 2, rules |-> Catalog!Provenanced \cup {Catalog!Rule("pins", "warn")}]
      /\ r[3] = [level |-> 3, rules |-> Catalog!Operable]
      /\ r[4] = [level |-> 4, rules |-> Catalog!Reliable]
      /\ r[5] = [level |-> 5, rules |-> Catalog!Reliable \cup {Catalog!Rule("deployment", "pass"), Catalog!Rule("cost", "warn")}]
  BY DEF Catalog!DefaultRubric
<1>2. \A key, require : Catalog!Meets(e, Catalog!Rule(key, require)) =>
         key \in DOMAIN e.card /\ Catalog!OutcomeRank[e.card[key]] >= Catalog!OutcomeRank[require]
  BY DEF Catalog!Meets, Catalog!Rule
<1>3. \A key : Catalog!Meets(e, Catalog!Rule(key, "pass")) => key \in DOMAIN e.card /\ e.card[key] = "pass"
  BY <1>2 DEF Catalog!Scored, Catalog!Levels, Catalog!OutcomeRank
<1>4. \A key : Catalog!Meets(e, Catalog!Rule(key, "warn")) => key \in DOMAIN e.card /\ e.card[key] \in {"pass", "warn"}
  BY <1>2 DEF Catalog!Scored, Catalog!Levels, Catalog!OutcomeRank
<1> HIDE DEF r
<1>5. Catalog!LevelEarned(r, e) /\ level \in Nat
  <2>1. Catalog!Ladder(r)
    BY DefaultLadder DEF r
  <2>2. Catalog!LevelEarned(r, e)
    BY <2>1, LevelsAreEarned
  <2>3. level # 0 => \E i \in DOMAIN r : r[i].level = level
    BY <2>2 DEF Catalog!LevelEarned
  <2> QED BY <1>1, <2>2, <2>3
<1>6. \A i \in 1..5 : r[i].level = i
  BY <1>1
<1>7. \A i \in 1..5 : level >= i => Catalog!Fulfils(e, r[i])
  <2> SUFFICES ASSUME NEW i \in 1..5, level >= i PROVE Catalog!Fulfils(e, r[i])
    OBVIOUS
  <2> HIDE DEF level
  <2>1. CASE level > i
    BY <1>1, <1>5, <1>6, <2>1 DEF Catalog!LevelEarned, level
  <2>2. CASE level = i
    <3>1. PICK j \in 1..5 : r[j].level = level /\ Catalog!Fulfils(e, r[j])
      BY <1>1, <1>5, <2>2 DEF Catalog!LevelEarned, level
    <3> QED BY <1>6, <2>2, <3>1
  <2> QED BY <1>5, <2>1, <2>2
<1> HIDE DEF level
<1>8. \A i \in 1..5 : level >= i => \A rule \in r[i].rules : Catalog!Meets(e, rule)
  BY <1>7 DEF Catalog!Fulfils
<1>9. level >= 1 => Catalog!Meets(e, Catalog!Rule("provenance", "pass"))
  BY <1>1, <1>8 DEF Catalog!Provenanced
<1>10. level >= 2 => Catalog!Meets(e, Catalog!Rule("pins", "warn"))
  BY <1>1, <1>8
<1>11. level >= 3 => Catalog!Meets(e, Catalog!Rule("pins", "pass")) /\ Catalog!Meets(e, Catalog!Rule("has_runbook", "pass"))
  BY <1>1, <1>8 DEF Catalog!Operable
<1>12. level >= 4 => Catalog!Meets(e, Catalog!Rule("has_slo", "pass")) /\ Catalog!Meets(e, Catalog!Rule("gates", "pass"))
  BY <1>1, <1>8 DEF Catalog!Reliable
<1>13. level >= 5 => Catalog!Meets(e, Catalog!Rule("deployment", "pass")) /\ Catalog!Meets(e, Catalog!Rule("cost", "warn"))
  BY <1>1, <1>8
<1> QED BY <1>3, <1>4, <1>5, <1>9, <1>10, <1>11, <1>12, <1>13 DEF r, level

(* Under the rubric that is shipped, whatever the files and the readers      *)
(* hold, a level says of an entity what the registry, the checkout, the log  *)
(* and the deployment reader said.                                           *)
THEOREM LevelsAreBacked ==
  \A w : Catalog!WellKept(w) /\ Catalog!LoadMaturityRubric(w.rubric) = Catalog!DefaultRubric => Catalog!MaturityIsEarned(w)
<1> SUFFICES ASSUME NEW w, Catalog!WellKept(w), Catalog!LoadMaturityRubric(w.rubric) = Catalog!DefaultRubric,
                    NEW s \in Catalog!EnrichedCatalog(w),
                    NEW entry \in {Catalog!NoEntry} \cup Catalog!FleetPage(w), s.entity.url = entry.url
             PROVE  LET fact == Catalog!Fact(w, s, entry)
                    IN /\ s.maturity >= 1 => fact.governed
                       /\ s.maturity >= 3 => fact.pinned /\ fact.operable
                       /\ s.maturity >= 4 => fact.runs /\ Catalog!HasSlo(Catalog!TreeOf(w, s.entity.dir))
                       /\ s.maturity >= 5 => fact.deployed /\ s.entity.card.cost \in {"pass", "warn"}
                       /\ s.entity.source \in {"environment", "component"} => s.maturity = 0
                       /\ s.entity.source = "audit" => s.maturity <= 2
                       /\ s.entity.source = "modules_root" => s.maturity <= 1
  BY DEF Catalog!MaturityIsEarned
<1>1. PICK e \in Catalog!BuildPortalCatalogEntities(w) :
        s = Catalog!Overlay(w, Catalog!EnrichWithDeployment(w, Catalog!EnrichWithCost(w, e)))
  BY Zenon DEF Catalog!EnrichedCatalog
<1> DEFINE d == s.entity
           tree == Catalog!TreeOf(w, d.dir)
           Passes(key) == key \in DOMAIN d.card /\ d.card[key] = "pass"
           HadPassed(key) == key \in DOMAIN e.card /\ e.card[key] = "pass"
<1>2. s.maturity = Catalog!LevelOf(d, Catalog!DefaultRubric)
  BY <1>1 DEF Catalog!Overlay, Catalog!LevelOf
<1>3. IsEntity(e) /\ Backed(w, e)
  BY EntityFacts
<1>4. /\ d.source = e.source /\ d.url = e.url /\ d.dir = e.dir /\ d.outcome = e.outcome /\ d.display = e.display
      /\ \A key : key \notin {"cost", "deployment"} /\ key \in DOMAIN d.card => key \in DOMAIN e.card /\ d.card[key] = e.card[key]
      /\ Catalog!Scored(e) => Catalog!Scored(d)
      /\ "deployment" \in DOMAIN d.card /\ "deployment" \notin DOMAIN e.card =>
           /\ w.deployer # "none"
           /\ \E x : x.display = e.display /\ d.card["deployment"] = Catalog!DeploymentLevel(Catalog!DeploymentStatus(w, x))
  BY <1>1, <1>3, Enriched
<1>5. Catalog!Scored(d)
  BY <1>3, <1>4 DEF Backed
<1> HIDE DEF d
<1> DEFINE level == s.maturity
<1>6. /\ level \in Nat
      /\ level >= 1 => Passes("provenance")
      /\ level >= 2 => "pins" \in DOMAIN d.card /\ d.card["pins"] \in {"pass", "warn"}
      /\ level >= 3 => Passes("pins") /\ Passes("has_runbook")
      /\ level >= 4 => Passes("has_slo") /\ Passes("gates")
      /\ level >= 5 => Passes("deployment") /\ "cost" \in DOMAIN d.card /\ d.card["cost"] \in {"pass", "warn"}
  BY <1>2, <1>5, LevelsAsk
<1> HIDE DEF level
<1>7. \A key : key \notin {"cost", "deployment"} /\ Passes(key) => HadPassed(key)
  BY <1>4
<1>8. level >= 1 => d.dir # <<>> /\ tree.governed /\ d.source \notin {"environment", "component"}
  BY <1>3, <1>4, <1>6, <1>7 DEF Backed
<1>9. level >= 2 => d.source # "modules_root"
  BY <1>3, <1>4, <1>6 DEF Backed
<1>10. level >= 3 => d.source = "fleet"
  BY <1>3, <1>4, <1>6, <1>7, <1>8, <1>9 DEF Backed
<1>11. level >= 3 => entry.pinned /\ entry.standard
  <2> SUFFICES ASSUME level >= 3 PROVE entry.pinned /\ entry.standard
    OBVIOUS
  <2>1. HadPassed("pins") /\ e.source = "fleet"
    BY <1>4, <1>6, <1>7, <1>10
  <2>2. PICK known \in Catalog!FleetPage(w) : e.url = known.url /\ known.pinned /\ known.standard
    BY <1>3, <2>1 DEF Backed
  <2>3. entry.url = known.url
    BY <1>4, <2>2 DEF d
  <2>4. known.url # Catalog!NoUrl /\ Catalog!NoEntry.url = Catalog!NoUrl
    BY DEF Catalog!WellKept, Catalog!NoEntry
  <2>5. entry \in Catalog!FleetPage(w)
    BY <2>3, <2>4
  <2>6. entry = known
    BY <2>3, <2>5, OneEntryPerUrl DEF Catalog!FleetPage
  <2> QED BY <2>2, <2>6
<1>12. level >= 3 => Catalog!ResolveEntityDocs(w, d, Catalog!NoTree, FALSE) \cap Catalog!Range(Catalog!Runbooks) # {}
  <2> SUFFICES ASSUME level >= 3
               PROVE  Catalog!ResolveEntityDocs(w, d, Catalog!NoTree, FALSE) \cap Catalog!Range(Catalog!Runbooks) # {}
    OBVIOUS
  <2>1. d.dir # <<>> /\ Catalog!HasRunbook(tree)
    BY <1>3, <1>4, <1>6, <1>7 DEF Backed
  <2>2. Catalog!FirstOf(Catalog!Runbooks, tree.files) \cap Catalog!Range(Catalog!Runbooks) # {}
    BY <2>1, FirstIsShown DEF Catalog!HasRunbook
  <2>3. Catalog!FirstOf(Catalog!Runbooks, tree.files) \subseteq Catalog!ResolveEntityDocs(w, d, Catalog!NoTree, FALSE)
    BY <2>1 DEF Catalog!ResolveEntityDocs, Catalog!ReadEntityDocs
  <2> QED BY <2>2, <2>3
<1>13. level >= 4 => d.outcome = "passed" /\ Catalog!HasSlo(tree)
  BY <1>3, <1>4, <1>6, <1>7 DEF Backed
<1>14. level >= 5 =>
         LET answer == w.deployments[d.display]
         IN /\ w.deployer # "none" /\ d.display \in DOMAIN w.deployments
            /\ IF w.deployer = "flux" THEN answer.ready = "true" /\ answer.revision
               ELSE /\ answer.sync \in {"synced", "sync", "in_sync"}
                    /\ answer.health \in {"healthy", "ok", "pass", "green", "ready"}
  <2> SUFFICES ASSUME level >= 5
               PROVE  LET answer == w.deployments[d.display]
                      IN /\ w.deployer # "none" /\ d.display \in DOMAIN w.deployments
                         /\ IF w.deployer = "flux" THEN answer.ready = "true" /\ answer.revision
                            ELSE /\ answer.sync \in {"synced", "sync", "in_sync"}
                                 /\ answer.health \in {"healthy", "ok", "pass", "green", "ready"}
    OBVIOUS
  <2>1. "deployment" \notin DOMAIN e.card
    BY <1>3 DEF Backed
  <2>2. w.deployer # "none"
    BY <1>4, <1>6, <2>1
  <2>3. PICK x : x.display = e.display /\ d.card["deployment"] = Catalog!DeploymentLevel(Catalog!DeploymentStatus(w, x))
    BY <1>4, <1>6, <2>1
  <2>4. Catalog!DeploymentLevel(Catalog!DeploymentStatus(w, x)) = "pass" /\ x.display = d.display
    BY <1>4, <1>6, <2>3
  <2> QED BY <2>2, <2>4, LiveDeployments
<1> DEFINE fact == Catalog!Fact(w, s, entry)
<1>15. /\ fact.governed = (d.dir # <<>> /\ tree.governed)
       /\ fact.pinned = (d.source = "fleet" /\ entry.pinned /\ entry.standard)
       /\ fact.runs = (d.outcome = "passed")
       /\ fact.operable = (Catalog!ResolveEntityDocs(w, d, Catalog!NoTree, FALSE) \cap Catalog!Range(Catalog!Runbooks) # {})
       /\ fact.deployed =
            LET answer == w.deployments[d.display]
            IN /\ w.deployer # "none" /\ d.display \in DOMAIN w.deployments
               /\ IF w.deployer = "flux" THEN answer.ready = "true" /\ answer.revision
                  ELSE /\ answer.sync \in {"synced", "sync", "in_sync"}
                       /\ answer.health \in {"healthy", "ok", "pass", "green", "ready"}
  BY Zenon DEF Catalog!Fact, d
<1> HIDE DEF fact, tree
<1>16. /\ level >= 1 => fact.governed
       /\ level >= 3 => fact.pinned /\ fact.operable
       /\ level >= 4 => fact.runs /\ Catalog!HasSlo(tree)
  <2>1. level >= 1 => fact.governed
    BY <1>8, <1>15
  <2>2. level >= 3 => fact.pinned
    BY <1>10, <1>11, <1>15
  <2>3. level >= 3 => fact.operable
    BY <1>12, <1>15
  <2>4. level >= 4 => fact.runs /\ Catalog!HasSlo(tree)
    BY <1>13, <1>15
  <2> QED BY <2>1, <2>2, <2>3, <2>4
<1>17. level >= 5 => fact.deployed
  BY <1>14, <1>15, Zenon
<1>18. level >= 5 => d.card.cost \in {"pass", "warn"}
  BY <1>6
<1>19. /\ d.source \in {"environment", "component"} => level = 0
       /\ d.source = "audit" => level <= 2
       /\ d.source = "modules_root" => level <= 1
  BY <1>6, <1>8, <1>9, <1>10
<1> QED BY <1>16, <1>17, <1>18, <1>19, Zenon DEF level, fact, d, tree
=============================================================================
