-------------------------- MODULE PublishingProofs --------------------------
(***************************************************************************)
(* What holds of Publishing for every number of workers, runs, contents,   *)
(* attempts, crashes and browsers, and every size of the event log:        *)
(*                                                                         *)
(*   PublishingTypeCorrect    every variable keeps its type                *)
(*   ReceiptsAreTrue          ReceiptsArePushed                            *)
(*   ReportsAreTrue           ReportedIsPushed                             *)
(*   PushedForGood            PushedOnce                                   *)
(*   LogsOnlyGrow             EventsAreKept                                *)
(*   ProvisioningIsHonest     ReportsAreHonest                             *)
(*   PushesAreReported        ProvisionedAsReported                        *)
(*                                                                         *)
(* The argument.  Once the branch is there no push changes it.  So what a  *)
(* worker, a receipt or a result says was pushed stays true, and it was    *)
(* true at first: a worker pushes what is on its disk, which is what it    *)
(* rendered, or takes over what a receipt of that content says.            *)
(* Provisioning is followed call by call, the loop over the teams of the   *)
(* form by induction; its second attempt starts from what the first left.  *)
(***************************************************************************)
EXTENDS MCPublishing, FiniteSetTheorems, SequenceTheorems, WellFoundedInduction, TLAPS

(* What a worker in state s relies on, given its disk and the repository. *)
Sane(s, d, head) ==
  /\ s.pc # "idle" => s.run \in Runs
  /\ s.pc \in Emitting => s.seq <= Cap
  /\ s.pc \in {"begin", "run_started", "render"} => s.msg = "none"
  /\ s.pc \in {"receipt", "publish", "ensure", "push", "record"} => s.files \in Contents
  /\ s.pc \in {"ensure", "push"} => d = s.files /\ s.seq = 0
  /\ s.pc = "record" => s.msg = "pushed"
  /\ s.msg = "pushed" => s.files \in Contents /\ head = s.files

Reported == \A r \in Runs :
  result[r].msg = "pushed" => result[r].files \in Contents /\ remote = result[r].files

Inv == /\ TypeOK
       /\ \A w \in Workers : Sane(worker[w], disk[w], remote)
       /\ ReceiptsArePushed /\ Reported

(* Worker w goes to a state that is typed and sane. *)
Goes(w, d, head) == \E s \in WorkerState : Sane(s, d, head) /\ GoWorker(w, s)

KeptOnceThere == remote \in Contents => remote' = remote
-----------------------------------------------------------------------------
(* The statements of RunStore keep the table of runs well typed. *)

LEMMA WrittenType ==
  ASSUME NEW row, row.request \in Requests \cup {NoRequest},
         NEW s \in Status, NEW n \in Nat, NEW d \in BOOLEAN
  PROVE  Written(row, s, n, d) \in Row
BY DEF Written, Row

LEMMA RowFields ==
  ASSUME StoreTypeOK, NEW r \in Runs
  PROVE  /\ rows[r].request \in Requests \cup {NoRequest}
         /\ rows[r].attempts \in Nat
         /\ rows[r].status \in Status
BY DEF StoreTypeOK, Row

LEMMA SetRowType ==
  ASSUME StoreTypeOK, NEW r \in Runs, NEW row \in Row, SetRow(r, row)
  PROVE  StoreTypeOK'
BY DEF StoreTypeOK, SetRow

LEMMA UpdateStatusType ==
  ASSUME StoreTypeOK, NEW r \in Runs, NEW s \in Status, UpdateStatus(r, s)
  PROVE  StoreTypeOK'
BY RowFields, WrittenType, SetRowType DEF UpdateStatus

LEMMA ScheduleRetryType ==
  ASSUME StoreTypeOK, NEW r \in Runs, NEW n \in Nat, ScheduleRetry(r, n)
  PROVE  StoreTypeOK'
<1>1. Written(rows[r], "queued", n, FALSE) \in Row
  BY RowFields, WrittenType DEF Status
<1> QED BY <1>1, SetRowType DEF ScheduleRetry

LEMMA ReclaimStaleRunsType ==
  ASSUME StoreTypeOK, NEW found \in [Runs -> Nat], ReclaimStaleRuns(found)
  PROVE  StoreTypeOK'
<1>1. ASSUME NEW r \in Runs PROVE Reclaimed(rows[r], found[r]) \in Row
  BY RowFields, WrittenType DEF Reclaimed, Status
<1> QED BY <1>1 DEF StoreTypeOK, ReclaimStaleRuns

LEMMA ScanType == ASSUME StoreTypeOK PROVE StaleScan \in [Runs -> Nat]
BY DEF StoreTypeOK, StaleScan, Row

LEMMA ClockType ==
  ASSUME StoreTypeOK, NEW r \in Runs, RetryFallsDue(r) \/ GrowsOld(r)
  PROVE  StoreTypeOK'
<1>1. [rows[r] EXCEPT !.due = TRUE] \in Row
  BY DEF StoreTypeOK, Row
<1>2. CASE RetryFallsDue(r)
  BY <1>1, <1>2, SetRowType DEF RetryFallsDue
<1>3. CASE GrowsOld(r)
  <2>1. [rows[r] EXCEPT !.age = @ + 1] \in Row
    BY <1>3 DEF StoreTypeOK, Row, GrowsOld
  <2> QED BY <1>3, <2>1, SetRowType DEF GrowsOld
<1> QED BY <1>2, <1>3

-----------------------------------------------------------------------------
(* Single workers *)

LEMMA Idle ==
  ASSUME NEW d, NEW head
  PROVE  IdleWorker \in WorkerState /\ Sane(IdleWorker, d, head)
BY PublishingAssumption DEF IdleWorker, WorkerState, Labels, Message, Sane, Emitting

LEMMA WorkerTypes ==
  ASSUME Inv, NEW w \in Workers
  PROVE  /\ worker[w] \in WorkerState /\ Sane(worker[w], disk[w], remote)
         /\ disk[w] \in Contents \cup {"empty"} /\ Cap \in Nat \ {0}
BY PublishingAssumption DEF Inv, TypeOK

(* What is pushed stays, so what others rely on does. *)
LEMMA OthersSane ==
  ASSUME Inv, KeptOnceThere, NEW w \in Workers, NEW d, d = disk[w]
  PROVE  Sane(worker[w], d, remote')
BY DEF Inv, Sane, KeptOnceThere

LEMMA WorkersGo ==
  ASSUME Inv, KeptOnceThere, NEW w \in Workers, Goes(w, disk'[w], remote'),
         \A v \in Workers \ {w} : disk'[v] = disk[v]
  PROVE  /\ worker' \in [Workers -> WorkerState]
         /\ \A v \in Workers : Sane(worker'[v], disk'[v], remote')
<1>1. PICK s \in WorkerState : Sane(s, disk'[w], remote') /\ worker' = [worker EXCEPT ![w] = s]
  BY DEF Goes, GoWorker
<1>2. worker \in [Workers -> WorkerState]
  BY DEF Inv, TypeOK
<1>3. ASSUME NEW v \in Workers PROVE Sane(worker'[v], disk'[v], remote')
  <2>1. CASE v = w
    BY <1>1, <1>2, <2>1
  <2>2. CASE v # w
    BY <1>1, <1>2, <2>2, OthersSane
  <2> QED
    BY <2>1, <2>2
<1> QED
  BY <1>1, <1>2, <1>3

(* A step that changes the state of one worker only. *)
LEMMA QuietInv ==
  ASSUME Inv, NEW w \in Workers, Goes(w, disk[w], remote), UNCHANGED <<rows, stores, stream>>
  PROVE  Inv'
<1>1. UNCHANGED <<rows, result, log, receipts, remote, disk, stream>> /\ KeptOnceThere
  BY DEF stores, KeptOnceThere
<1>2. /\ worker' \in [Workers -> WorkerState]
      /\ \A v \in Workers : Sane(worker'[v], disk'[v], remote')
  BY <1>1, WorkersGo
<1> QED
  BY <1>1, <1>2 DEF Inv, TypeOK, StoreTypeOK, ReceiptsArePushed, Reported

LEMMA StepToGoes ==
  ASSUME Inv, NEW w \in Workers, NEW pc \in Labels \ {"idle"}, NEW d, NEW head,
         worker[w].pc # "idle", StepTo(w, pc),
         Sane([worker[w] EXCEPT !.pc = pc, !.seq = 0], d, head)
  PROVE  Goes(w, d, head)
<1>1. [worker[w] EXCEPT !.pc = pc, !.seq = 0] \in WorkerState
  BY WorkerTypes DEF WorkerState
<1> QED
  BY <1>1 DEF StepTo, Goes

LEMMA RaiseGoes ==
  ASSUME Inv, NEW w \in Workers, worker[w].pc # "idle", Raise(w)
  PROVE  Goes(w, disk[w], remote)
<1>1. CASE GoWorker(w, IdleWorker)
  BY <1>1, Idle DEF Goes
<1>2. CASE StepTo(w, "except")
  <2>1. Sane([worker[w] EXCEPT !.pc = "except", !.seq = 0], disk[w], remote)
    BY WorkerTypes DEF Sane, WorkerState, Emitting
  <2> QED
    BY <1>2, <2>1, StepToGoes DEF Labels
<1> QED
  BY <1>1, <1>2 DEF Raise

LEMMA SaysGoes ==
  ASSUME Inv, KeptOnceThere, NEW w \in Workers, worker[w].pc \in {"ensure", "push"},
         Says(w, "failed")
  PROVE  Goes(w, disk[w], remote')
<1> DEFINE s == [worker[w] EXCEPT !.pc = "publish_finished", !.msg = "failed"]
<1>1. s \in WorkerState
  BY WorkerTypes DEF WorkerState, Labels, Emitting, Message
<1>2. Sane(s, disk[w], remote')
  BY WorkerTypes DEF Sane, WorkerState, Emitting
<1> QED
  BY <1>1, <1>2 DEF Says, Goes
-----------------------------------------------------------------------------
(* The steps of a worker *)

LEMMA EmitInv == ASSUME Inv, NEW w \in Workers, ReadMax(w) \/ InsertEvent(w) PROVE Inv'
<1> DEFINE r == worker[w].run
<1>1. /\ worker[w] \in WorkerState /\ Sane(worker[w], disk[w], remote)
      /\ worker[w].pc \in Emitting /\ r \in Runs /\ worker[w].pc # "idle"
  BY WorkerTypes DEF ReadMax, InsertEvent, Sane, Emitting
<1>2. /\ log[r] \in Seq(Emitting) /\ Len(log[r]) \in Nat /\ Len(log[r]) <= Cap
      /\ Cap \in Nat \ {0} /\ log \in [Runs -> Seq(Emitting)]
  BY <1>1, WorkerTypes DEF Inv, TypeOK
<1>3. CASE ReadMax(w)
  <2>1. CASE Raise(w)
    BY <1>1, <1>3, <2>1, RaiseGoes, QuietInv DEF ReadMax
  <2>2. CASE Len(log[r]) < Cap /\ GoWorker(w, [worker[w] EXCEPT !.seq = Len(log[r]) + 1])
    <3> DEFINE s == [worker[w] EXCEPT !.seq = Len(log[r]) + 1]
    <3>1. s \in WorkerState
      <4>1. PICK n \in Nat : n = Len(log[r]) + 1
        BY <1>2
      <4>2. s = [worker[w] EXCEPT !.seq = n]
        BY <4>1
      <4>3. [worker[w] EXCEPT !.seq = n] \in WorkerState
        BY <1>1 DEF WorkerState
      <4> QED
        BY <4>2, <4>3
    <3>2. Sane(s, disk[w], remote)
      BY <1>1, <1>2, <2>2 DEF Sane, WorkerState, Emitting
    <3>3. Goes(w, disk[w], remote)
      BY <2>2, <3>1, <3>2 DEF Goes
    <3> QED
      BY <1>3, <3>3, QuietInv DEF ReadMax
  <2> QED
    BY <1>2, <1>3, <2>1, <2>2 DEF ReadMax
<1>4. CASE InsertEvent(w)
  <2>1. UNCHANGED <<rows, result, receipts, remote, disk, stream>> /\ KeptOnceThere
    BY <1>4 DEF InsertEvent, KeptOnceThere
  <2>2. CASE worker[w].seq <= Len(log[r])
    <3>1. Raise(w) /\ UNCHANGED log
      BY <1>4, <2>2 DEF InsertEvent
    <3> QED
      BY <1>1, <2>1, <3>1, RaiseGoes, QuietInv DEF stores
  <2>3. CASE ~(worker[w].seq <= Len(log[r]))
    <3>1. /\ log' = [log EXCEPT ![r] = Append(log[r], worker[w].pc)]
          /\ IF worker[w].pc \in Final THEN GoWorker(w, IdleWorker)
             ELSE StepTo(w, After(worker[w].pc))
      BY <1>4, <2>3 DEF InsertEvent
    <3>2. worker[w].seq \in Nat /\ worker[w].seq <= Cap
      BY <1>1 DEF Sane, WorkerState
    <3>3. /\ Append(log[r], worker[w].pc) \in Seq(Emitting)
          /\ Len(Append(log[r], worker[w].pc)) = Len(log[r]) + 1
      BY <1>1, <1>2
    <3>4. log' \in [Runs -> Seq(Emitting)] /\ \A q \in Runs : Len(log'[q]) <= Cap
      <4>1. log' \in [Runs -> Seq(Emitting)]
        BY <1>2, <3>1, <3>3
      <4>2. ASSUME NEW q \in Runs PROVE Len(log'[q]) <= Cap
        <5>1. CASE q = r
          <6>1. log'[q] = Append(log[r], worker[w].pc)
            BY <1>2, <3>1, <5>1
          <6> QED
            BY <1>2, <2>3, <3>2, <3>3, <6>1
        <5>2. CASE q # r
          <6>1. log'[q] = log[q]
            BY <1>2, <3>1, <5>2
          <6> QED
            BY <6>1 DEF Inv, TypeOK
        <5> QED
          BY <5>1, <5>2
      <4> QED
        BY <4>1, <4>2
    <3>5. Goes(w, disk[w], remote)
      <4>1. CASE worker[w].pc \in Final
        BY <3>1, <4>1, Idle DEF Goes
      <4>2. CASE worker[w].pc \notin Final
        <5>1. After(worker[w].pc) \in {"render", "succeed"} /\ StepTo(w, After(worker[w].pc))
              /\ (After(worker[w].pc) = "render" => worker[w].pc = "run_started")
          BY <1>1, <3>1, <4>2 DEF After, Emitting, Final
        <5>2. Sane([worker[w] EXCEPT !.pc = After(worker[w].pc), !.seq = 0], disk[w], remote)
          BY <1>1, <5>1 DEF Sane, WorkerState, Emitting
        <5> QED
          BY <1>1, <5>1, <5>2, StepToGoes DEF Labels
      <4> QED
        BY <4>1, <4>2
    <3>6. /\ worker' \in [Workers -> WorkerState]
          /\ \A v \in Workers : Sane(worker'[v], disk'[v], remote')
      BY <2>1, <3>5, WorkersGo
    <3> QED
      BY <2>1, <3>4, <3>6 DEF Inv, TypeOK, StoreTypeOK, ReceiptsArePushed, Reported
  <2> QED
    BY <2>2, <2>3
<1> QED
  BY <1>3, <1>4

LEMMA RenderingInv ==
  ASSUME Inv, NEW w \in Workers, Begin(w) \/ Render(w) \/ RenderFails(w) \/ ReadReceipt(w) \/ Reuse(w)
  PROVE  Inv'
<1>0. worker[w] \in WorkerState /\ Sane(worker[w], disk[w], remote)
  BY WorkerTypes
<1>1. CASE Begin(w)
  <2>1. CASE GoWorker(w, IdleWorker)
    BY <1>1, <2>1, Idle, QuietInv DEF Goes, Begin
  <2>2. CASE StepTo(w, "run_started")
    <3>1. Sane([worker[w] EXCEPT !.pc = "run_started", !.seq = 0], disk[w], remote)
      BY <1>0, <1>1, PublishingAssumption DEF Sane, WorkerState, Emitting, Begin, WorkerAt
    <3> QED
      BY <1>1, <2>2, <3>1, StepToGoes, QuietInv DEF Begin, WorkerAt, Labels, Emitting
  <2> QED
    BY <1>1, <2>1, <2>2 DEF Begin
<1>2. CASE Render(w)
  <2>1. PICK c \in Contents : GoWorker(w, [worker[w] EXCEPT !.pc = "receipt", !.files = c])
    BY <1>2 DEF Render
  <2> DEFINE s == [worker[w] EXCEPT !.pc = "receipt", !.files = c]
  <2>2. s \in WorkerState
    BY <1>0 DEF WorkerState, Labels
  <2>3. Sane(s, disk[w], remote)
    BY <1>0, <1>2 DEF Sane, WorkerState, Emitting, Render, WorkerAt
  <2> QED
    BY <1>2, <2>1, <2>2, <2>3, QuietInv DEF Render, Goes
<1>3. CASE RenderFails(w)
  <2>1. CASE StepTo(w, "except")
    <3>1. Sane([worker[w] EXCEPT !.pc = "except", !.seq = 0], disk[w], remote)
      BY <1>0, <1>3 DEF Sane, WorkerState, Emitting, RenderFails, WorkerAt
    <3> QED
      BY <1>3, <2>1, <3>1, StepToGoes, QuietInv DEF RenderFails, WorkerAt, Labels
  <2>2. CASE GoWorker(w, [worker[w] EXCEPT !.pc = "succeed", !.msg = "failed"])
    <3> DEFINE s == [worker[w] EXCEPT !.pc = "succeed", !.msg = "failed"]
    <3>1. s \in WorkerState
      BY <1>0 DEF WorkerState, Labels, Message
    <3>2. Sane(s, disk[w], remote)
      BY <1>0, <1>3 DEF Sane, WorkerState, Emitting, RenderFails, WorkerAt
    <3> QED
      BY <1>3, <2>2, <3>1, <3>2, QuietInv DEF RenderFails, Goes
  <2> QED
    BY <1>3, <2>1, <2>2 DEF RenderFails
<1>4. CASE ReadReceipt(w)
  <2> DEFINE c == worker[w].files
             msg == receipts[c]
             s == [worker[w] EXCEPT !.pc = "publish", !.msg = msg]
  <2>1. c \in Contents
    BY <1>0, <1>4 DEF Sane, ReadReceipt, WorkerAt
  <2>2. msg \in Message /\ (msg # "none" => msg = "pushed" /\ remote = c)
    BY <2>1 DEF Inv, TypeOK, ReceiptsArePushed
  <2>3. GoWorker(w, s)
    BY <1>4 DEF ReadReceipt, SameKey
  <2>4. s \in WorkerState
    BY <1>0, <2>2 DEF WorkerState, Labels
  <2>5. Sane(s, disk[w], remote)
    BY <1>0, <1>4, <2>1, <2>2 DEF Sane, WorkerState, Emitting, ReadReceipt, WorkerAt
  <2> QED
    BY <1>4, <2>3, <2>4, <2>5, QuietInv DEF ReadReceipt, Goes
<1>5. CASE Reuse(w)
  <2>1. Sane([worker[w] EXCEPT !.pc = "publish_finished", !.seq = 0], disk[w], remote)
    BY <1>0, <1>5, PublishingAssumption DEF Sane, WorkerState, Emitting, Reuse, WorkerAt
  <2> QED
    BY <1>5, <2>1, StepToGoes, QuietInv DEF Reuse, WorkerAt, Labels, Emitting
<1> QED
  BY <1>1, <1>2, <1>3, <1>4, <1>5

LEMMA CopyInv == ASSUME Inv, NEW w \in Workers, Copy(w) PROVE Inv'
<1>0. /\ worker[w] \in WorkerState /\ Sane(worker[w], disk[w], remote) /\ worker[w].pc = "publish"
      /\ UNCHANGED <<rows, result, log, receipts, remote, stream>>
      /\ disk \in [Workers -> Contents \cup {"empty"}]
  BY WorkerTypes DEF Copy, WorkerAt, Inv, TypeOK
<1>1. CASE StepTo(w, "except") /\ UNCHANGED disk
  <2>1. Sane([worker[w] EXCEPT !.pc = "except", !.seq = 0], disk[w], remote)
    BY <1>0 DEF Sane, WorkerState, Emitting
  <2> QED
    BY <1>0, <1>1, <2>1, StepToGoes, QuietInv DEF stores, Labels
<1>2. CASE StepTo(w, "ensure") /\ disk' = [disk EXCEPT ![w] = worker[w].files]
  <2>1. disk'[w] = worker[w].files /\ worker[w].files \in Contents
    BY <1>0, <1>2 DEF Sane
  <2>2. Sane([worker[w] EXCEPT !.pc = "ensure", !.seq = 0], disk'[w], remote')
    BY <1>0, <2>1 DEF Sane, WorkerState, Emitting
  <2>3. Goes(w, disk'[w], remote')
    BY <1>0, <1>2, <2>2, StepToGoes DEF Labels
  <2>4. KeptOnceThere /\ disk' \in [Workers -> Contents \cup {"empty"}]
        /\ \A v \in Workers \ {w} : disk'[v] = disk[v]
    BY <1>0, <1>2, <2>1 DEF KeptOnceThere
  <2>5. /\ worker' \in [Workers -> WorkerState]
        /\ \A v \in Workers : Sane(worker'[v], disk'[v], remote')
    BY <2>3, <2>4, WorkersGo
  <2> QED
    BY <1>0, <2>4, <2>5 DEF Inv, TypeOK, StoreTypeOK, ReceiptsArePushed, Reported
<1> QED
  BY <1>1, <1>2 DEF Copy

(* The only steps that change the repository. *)
LEMMA RepositoryInv ==
  ASSUME Inv, NEW w \in Workers, Ensure(w) \/ Push(w)
  PROVE  Inv' /\ KeptOnceThere
<1>0. /\ worker[w] \in WorkerState /\ Sane(worker[w], disk[w], remote)
      /\ worker[w].pc \in {"ensure", "push"} /\ disk[w] = worker[w].files
      /\ worker[w].files \in Contents
      /\ UNCHANGED <<rows, result, log, receipts, disk, stream>>
      /\ remote \in Contents \cup {"absent", "empty"}
  BY WorkerTypes DEF Ensure, Push, WorkerAt, Sane, Inv, TypeOK
<1>1. KeptOnceThere /\ remote' \in Contents \cup {"absent", "empty"}
  BY <1>0, PublishingAssumption DEF Ensure, Push, KeptOnceThere
<1>2. CASE Says(w, "failed")
  BY <1>0, <1>1, <1>2, SaysGoes, WorkersGo
     DEF Inv, TypeOK, StoreTypeOK, ReceiptsArePushed, Reported, KeptOnceThere
<1>3. CASE Ensure(w) /\ StepTo(w, "push")
  <2>1. Sane([worker[w] EXCEPT !.pc = "push", !.seq = 0], disk[w], remote')
    BY <1>0, <1>1 DEF Sane, WorkerState, Emitting, KeptOnceThere
  <2>2. Goes(w, disk'[w], remote')
    BY <1>0, <1>3, <2>1, StepToGoes DEF Labels
  <2> QED
    BY <1>0, <1>1, <2>2, WorkersGo
       DEF Inv, TypeOK, StoreTypeOK, ReceiptsArePushed, Reported, KeptOnceThere
<1>4. CASE /\ Push(w) /\ remote' = disk[w]
           /\ GoWorker(w, [worker[w] EXCEPT !.pc = "record", !.msg = "pushed"])
  <2> DEFINE s == [worker[w] EXCEPT !.pc = "record", !.msg = "pushed"]
  <2>1. s \in WorkerState
    BY <1>0 DEF WorkerState, Labels, Message
  <2>2. Sane(s, disk[w], remote')
    BY <1>0, <1>4 DEF Sane, WorkerState, Emitting
  <2>3. Goes(w, disk'[w], remote')
    BY <1>0, <1>4, <2>1, <2>2 DEF Goes
  <2> QED
    BY <1>0, <1>1, <2>3, WorkersGo
       DEF Inv, TypeOK, StoreTypeOK, ReceiptsArePushed, Reported, KeptOnceThere
<1> QED
  BY <1>1, <1>2, <1>3, <1>4 DEF Ensure, Push

LEMMA RecordInv == ASSUME Inv, NEW w \in Workers, Record(w) PROVE Inv'
<1> DEFINE c == worker[w].files
<1>0. /\ worker[w] \in WorkerState /\ Sane(worker[w], disk[w], remote) /\ worker[w].pc = "record"
      /\ UNCHANGED <<rows, result, log, remote, disk, stream>>
      /\ c \in Contents /\ worker[w].msg = "pushed" /\ remote = c
  BY WorkerTypes DEF Record, WorkerAt, Sane
<1>1. Sane([worker[w] EXCEPT !.pc = "publish_finished", !.seq = 0], disk[w], remote)
  BY <1>0, PublishingAssumption DEF Sane, WorkerState, Emitting
<1>2. Goes(w, disk[w], remote) /\ KeptOnceThere
  BY <1>0, <1>1, StepToGoes DEF Record, Labels, Emitting, KeptOnceThere
<1>3. /\ worker' \in [Workers -> WorkerState]
      /\ \A v \in Workers : Sane(worker'[v], disk'[v], remote')
  BY <1>0, <1>2, WorkersGo
<1>4. receipts \in [Contents -> Message]
      /\ \A b \in Contents : receipts[b] # "none" => receipts[b] = "pushed" /\ remote = b
  BY DEF Inv, TypeOK, ReceiptsArePushed
<1>5. receipts' \in [Contents -> Message]
      /\ \A b \in Contents : receipts'[b] # "none" => receipts'[b] = "pushed" /\ remote = b
  BY <1>0, <1>4 DEF Record, Message
<1> QED
  BY <1>0, <1>3, <1>5 DEF Inv, TypeOK, StoreTypeOK, ReceiptsArePushed, Reported

(* A step that leaves all but rows, results and the state of one worker. *)
LEMMA SettleInv ==
  ASSUME Inv, NEW w \in Workers, StoreTypeOK', Goes(w, disk[w], remote),
         NEW r \in Runs, NEW new \in [msg : Message, files : Contents \cup {"empty"}],
         new.msg = "pushed" => new.files \in Contents /\ remote = new.files,
         result' = [result EXCEPT ![r] = new],
         UNCHANGED <<log, receipts, remote, disk, stream>>
  PROVE  Inv'
<1>1. KeptOnceThere
  BY DEF KeptOnceThere
<1>2. /\ worker' \in [Workers -> WorkerState]
      /\ \A v \in Workers : Sane(worker'[v], disk'[v], remote')
  BY <1>1, WorkersGo
<1>3. /\ result' \in [Runs -> [msg : Message, files : Contents \cup {"empty"}]]
      /\ \A q \in Runs : result'[q].msg = "pushed"
           => result'[q].files \in Contents /\ remote = result'[q].files
  BY DEF Inv, TypeOK, Reported
<1> QED
  BY <1>2, <1>3 DEF Inv, TypeOK, ReceiptsArePushed, Reported

LEMMA NoResultType ==
  NoResult \in [msg : Message, files : Contents \cup {"empty"}] /\ NoResult.msg # "pushed"
BY DEF NoResult, Message

LEMMA ClaimInv == ASSUME Inv, NEW w \in Workers, Claim(w) PROVE Inv'
<1>1. PICK r \in Runs : /\ ClaimNextQueued(r)
                        /\ result' = [result EXCEPT ![r] = NoResult]
                        /\ GoWorker(w, [IdleWorker EXCEPT !.pc = "begin", !.run = r])
  BY DEF Claim
<1>2. StoreTypeOK'
  BY <1>1, UpdateStatusType DEF Inv, TypeOK, ClaimNextQueued, Status
<1> DEFINE s == [IdleWorker EXCEPT !.pc = "begin", !.run = r]
<1>3. s \in WorkerState /\ Sane(s, disk[w], remote)
  BY DEF IdleWorker, WorkerState, Labels, Message, Sane, Emitting
<1>4. Goes(w, disk[w], remote)
  BY <1>1, <1>3 DEF Goes
<1> QED
  BY <1>1, <1>2, <1>4, NoResultType, SettleInv DEF Claim

LEMMA FinishedType ==
  ASSUME NEW r \in Runs, NEW d, NEW head
  PROVE  /\ [IdleWorker EXCEPT !.pc = "run_finished", !.run = r] \in WorkerState
         /\ Sane([IdleWorker EXCEPT !.pc = "run_finished", !.run = r], d, head)
<1>1. 0 <= Cap
  BY PublishingAssumption
<1> QED
  BY <1>1 DEF IdleWorker, WorkerState, Labels, Message, Sane, Emitting

LEMMA SucceedInv == ASSUME Inv, NEW w \in Workers, Succeed(w) PROVE Inv'
<1> DEFINE r == worker[w].run
           new == [msg |-> worker[w].msg, files |-> worker[w].files]
           s == [IdleWorker EXCEPT !.pc = "run_finished", !.run = r]
<1>1. worker[w] \in WorkerState /\ Sane(worker[w], disk[w], remote) /\ r \in Runs
  BY WorkerTypes DEF Succeed, WorkerAt, Sane
<1>2. StoreTypeOK'
  BY <1>1, UpdateStatusType DEF Inv, TypeOK, Succeed, Status
<1>3. s \in WorkerState /\ Sane(s, disk[w], remote)
  BY <1>1, FinishedType
<1>4. Goes(w, disk[w], remote)
  BY <1>3 DEF Goes, Succeed
<1>5. /\ new \in [msg : Message, files : Contents \cup {"empty"}]
      /\ new.msg = "pushed" => new.files \in Contents /\ remote = new.files
  BY <1>1 DEF WorkerState, Sane
<1>6. result' = [result EXCEPT ![r] = new] /\ UNCHANGED <<log, receipts, remote, disk, stream>>
  BY DEF Succeed
<1> HIDE DEF new
<1> QED
  BY <1>1, <1>2, <1>4, <1>5, <1>6, SettleInv

LEMMA ExceptInv == ASSUME Inv, NEW w \in Workers, Except(w) PROVE Inv'
<1> DEFINE row == rows[worker[w].run]
<1>1. /\ worker[w] \in WorkerState /\ Sane(worker[w], disk[w], remote)
      /\ worker[w].run \in Runs
  BY WorkerTypes DEF Except, WorkerAt, Sane
<1>2. UNCHANGED <<rows, stores, stream>>
  BY DEF Except
<1>3. CASE GoWorker(w, IdleWorker)
  BY <1>2, <1>3, Idle, QuietInv DEF Goes
<1>4. CASE GoWorker(w, [worker[w] EXCEPT !.pc = "failed", !.msg = "none", !.files = "empty",
                                         !.seq = row.attempts + 1])
  <2>0. row.attempts \in Nat
    BY <1>1, RowFields DEF Inv, TypeOK
  <2> HIDE DEF row
  <2>1. PICK n \in Nat : n = row.attempts + 1
    BY <2>0
  <2> DEFINE s == [worker[w] EXCEPT !.pc = "failed", !.msg = "none", !.files = "empty", !.seq = n]
  <2>2. s \in WorkerState
    BY <1>1 DEF WorkerState, Labels, Message
  <2>3. Sane(s, disk[w], remote)
    BY <1>1 DEF Sane, WorkerState, Emitting
  <2> QED
    BY <1>2, <1>4, <2>1, <2>2, <2>3, QuietInv DEF Goes
<1> QED
  BY <1>3, <1>4 DEF Except

LEMMA FailInv == ASSUME Inv, NEW w \in Workers, Fail(w) PROVE Inv'
<1> DEFINE r == worker[w].run
<1>1. /\ worker[w] \in WorkerState /\ Sane(worker[w], disk[w], remote) /\ r \in Runs
      /\ worker[w].pc = "failed" /\ worker[w].seq \in Nat
  BY WorkerTypes DEF Fail, WorkerAt, Sane, WorkerState
<1>2. StoreTypeOK'
  BY <1>1, UpdateStatusType, ScheduleRetryType DEF Inv, TypeOK, Fail, Status
<1>3. Goes(w, disk[w], remote)
  <2>1. CASE GoWorker(w, IdleWorker)
    BY <2>1, Idle DEF Goes
  <2>2. CASE StepTo(w, "run_failed")
    <3>1. Sane([worker[w] EXCEPT !.pc = "run_failed", !.seq = 0], disk[w], remote)
      BY <1>1, PublishingAssumption DEF Sane, WorkerState, Emitting
    <3> QED
      BY <1>1, <2>2, <3>1, StepToGoes DEF Labels, Emitting
  <2> QED
    BY <2>1, <2>2 DEF Fail
<1> QED
  BY <1>1, <1>2, <1>3, NoResultType, SettleInv DEF Fail

LEMMA CrashInv == ASSUME Inv, NEW w \in Workers, Crash(w) PROVE Inv'
<1>1. /\ UNCHANGED <<rows, result, log, receipts, remote, stream>>
      /\ GoWorker(w, IdleWorker) /\ disk' \in {disk, [disk EXCEPT ![w] = "empty"]}
      /\ disk \in [Workers -> Contents \cup {"empty"}] /\ KeptOnceThere
  BY DEF Crash, Inv, TypeOK, KeptOnceThere
<1>2. disk' \in [Workers -> Contents \cup {"empty"}]
      /\ \A v \in Workers \ {w} : disk'[v] = disk[v]
  BY <1>1
<1>3. Goes(w, disk'[w], remote')
  BY <1>1, Idle DEF Goes
<1>4. /\ worker' \in [Workers -> WorkerState]
      /\ \A v \in Workers : Sane(worker'[v], disk'[v], remote')
  BY <1>1, <1>2, <1>3, WorkersGo
<1> QED
  BY <1>1, <1>2, <1>4 DEF Inv, TypeOK, StoreTypeOK, ReceiptsArePushed, Reported
-----------------------------------------------------------------------------
(* The clock, the reclaiming of stale runs, and the streams *)

LEMMA ClockInv ==
  ASSUME Inv, Reclaim \/ \E r \in Runs : GrowsStale(r) \/ FallsDue(r)
  PROVE  Inv'
<1>0. StoreTypeOK /\ UNCHANGED <<result, log, receipts, remote, disk, worker, stream>>
  BY DEF Inv, TypeOK, Reclaim, GrowsStale, FallsDue, stores
<1>1. StoreTypeOK'
  <2>1. CASE Reclaim
    BY <1>0, <2>1, ScanType, ReclaimStaleRunsType DEF Reclaim
  <2>2. ASSUME NEW r \in Runs, GrowsStale(r) PROVE StoreTypeOK'
    <3>1. [rows[r] EXCEPT !.age = 2] \in Row
      BY <1>0 DEF StoreTypeOK, Row
    <3> QED
      BY <1>0, <2>2, <3>1, SetRowType DEF GrowsStale
  <2>3. ASSUME NEW r \in Runs, FallsDue(r) PROVE StoreTypeOK'
    BY <1>0, <2>3, ClockType DEF FallsDue
  <2> QED
    BY <2>1, <2>2, <2>3
<1> QED
  BY <1>0, <1>1 DEF Inv, TypeOK, ReceiptsArePushed, Reported

(* A set of sequence numbers has a least one. *)
LEMMA LeastNumber ==
  ASSUME NEW S \in SUBSET Nat, S # {}
  PROVE  \E i \in S : \A j \in S : i <= j
<1>1. PICK i \in S : \A j \in S : ~(<<j, i>> \in OpToRel(<, Nat))
  BY NatLessThanWellFounded, WFMin
<1>2. ASSUME NEW j \in S PROVE i <= j
  <2>1. j < i => <<j, i>> \in OpToRel(<, Nat)
    <3>1. <<j, i>> \in Nat \X Nat
      OBVIOUS
    <3> QED
      BY <3>1 DEF OpToRel
  <2>2. j \in Nat /\ i \in Nat /\ ~(j < i)
    BY <1>1, <2>1
  <2> QED
    BY <2>2
<1> QED
  BY <1>2

LEMMA Least ==
  ASSUME NEW S \in SUBSET Nat, S # {}
  PROVE  (CHOOSE i \in S : \A j \in S : i <= j) \in S
BY LeastNumber, Zenon

LEMMA StreamInv ==
  ASSUME Inv, NEW s \in Streams, StreamStep(s) \/ Reconnect(s)
  PROVE  Inv'
<1>0. /\ UNCHANGED <<rows, result, log, receipts, remote, disk, worker>>
      /\ stream[s].after \in 0..Cap /\ Cap \in Nat \ {0}
      /\ stream \in [Streams -> [pc : {"list", "heartbeat", "closed"}, after : 0..Cap]]
  BY PublishingAssumption DEF StreamStep, Deliver, WaitTimesOut, Heartbeat, Reconnect, GoStream,
     stores, Inv, TypeOK
<1>1. PICK st \in [pc : {"list", "heartbeat", "closed"}, after : 0..Cap] : GoStream(s, st)
  <2>1. CASE Deliver(s)
    <3> DEFINE finals == {i \in (stream[s].after + 1)..Len(log[1]) : log[1][i] \in Final}
    <3>1. 1 \in Runs /\ Len(log[1]) \in 0..Cap
      BY <1>0, StoreAssumption DEF Inv, TypeOK, Runs
    <3>2. CASE finals = {}
      BY <2>1, <3>1, <3>2 DEF Deliver
    <3>3. CASE finals # {}
      <4>1. PICK i : i = CHOOSE k \in finals : \A j \in finals : k <= j
        OBVIOUS
      <4>2. finals \subseteq 0..Cap /\ finals \in SUBSET Nat
        BY <1>0, <3>1
      <4>3. i \in finals
        BY <3>3, <4>1, <4>2, Least
      <4>4. GoStream(s, [pc |-> "closed", after |-> i])
        BY <2>1, <3>3, <4>1 DEF Deliver
      <4> QED
        BY <4>2, <4>3, <4>4
    <3> QED
      BY <3>2, <3>3
  <2>2. CASE \E pc \in {"list", "heartbeat", "closed"} : GoStream(s, [stream[s] EXCEPT !.pc = pc])
    BY <1>0, <2>2
  <2> QED
    BY <2>1, <2>2 DEF StreamStep, WaitTimesOut, Heartbeat, Reconnect
<1> QED
  BY <1>0, <1>1 DEF GoStream, Inv, TypeOK, StoreTypeOK, ReceiptsArePushed, Reported
-----------------------------------------------------------------------------
LEMMA InitInv == Init => Inv
<1> SUFFICES ASSUME Init PROVE Inv
  OBVIOUS
<1>1. \A r \in Runs : Written([request |-> NoRequest], "queued", 0, TRUE) \in Row
  BY WrittenType DEF Status
<1>2. StoreTypeOK
  BY <1>1 DEF Init, StoreTypeOK
<1>3. /\ worker \in [Workers -> WorkerState]
      /\ \A w \in Workers : Sane(worker[w], disk[w], remote)
  BY Idle DEF Init
<1>4. /\ log \in [Runs -> Seq(Emitting)] /\ \A r \in Runs : Len(log[r]) = 0
      /\ result \in [Runs -> [msg : Message, files : Contents \cup {"empty"}]] /\ Reported
  BY NoResultType, EmptySeq DEF Init, Reported
<1>5. receipts \in [Contents -> Message] /\ ReceiptsArePushed
  BY DEF Init, Message, ReceiptsArePushed
<1>6. stream \in [Streams -> [pc : {"list", "heartbeat", "closed"}, after : 0..Cap]]
  BY PublishingAssumption DEF Init
<1> QED
  BY <1>2, <1>3, <1>4, <1>5, <1>6, PublishingAssumption DEF Init, Inv, TypeOK

LEMMA StepInv == Inv /\ [Next]_vars => Inv'
<1> SUFFICES ASSUME Inv, [Next]_vars PROVE Inv'
  OBVIOUS
<1>1. ASSUME NEW w \in Workers, Claim(w) \/ WorkerStep(w) \/ Crash(w) PROVE Inv'
  BY <1>1, ClaimInv, EmitInv, RenderingInv, CopyInv, RepositoryInv, RecordInv, SucceedInv,
     ExceptInv, FailInv, CrashInv DEF WorkerStep
<1>2. CASE UNCHANGED vars
  BY <1>2 DEF vars, stores, Inv, TypeOK, StoreTypeOK, ReceiptsArePushed, Reported
<1> QED
  BY <1>1, <1>2, ClockInv, StreamInv DEF Next

(* The inductive invariant (Publishing, Spec). *)
THEOREM PublishingInvariant == Spec => []Inv
<1> QED
  BY InitInv, StepInv, PTL DEF Spec

(* Every variable keeps its type; the log of a run stays within its cap     *)
(* although two processes append to it (RunEventStore.append).              *)
THEOREM PublishingTypeCorrect == Spec => []TypeOK
<1>1. Inv => TypeOK
  BY DEF Inv
<1> QED
  BY <1>1, PublishingInvariant, PTL

(* A receipt is only ever stored for what GitHub has (_publish_after_gates). *)
THEOREM ReceiptsAreTrue == Spec => []ReceiptsArePushed
<1>1. Inv => ReceiptsArePushed
  BY DEF Inv
<1> QED
  BY <1>1, PublishingInvariant, PTL

(* A result that says pushed names what GitHub has (_run_worker).           *)
THEOREM ReportsAreTrue == Spec => []ReportedIsPushed
<1>1. Inv => ReportedIsPushed
  BY DEF Inv, Reported, ReportedIsPushed
<1> QED
  BY <1>1, PublishingInvariant, PTL

(* No attempt pushes over an earlier one (push_module_repository).          *)
THEOREM PushedForGood == Spec => PushedOnce
<1>1. Inv /\ [Next]_vars => [(remote \in Contents) => (remote' = remote)]_vars
  <2> SUFFICES ASSUME Inv, Next, remote \in Contents PROVE remote' = remote
    OBVIOUS
  <2>1. ASSUME NEW w \in Workers, Ensure(w) \/ Push(w) PROVE remote' = remote
    BY <2>1, RepositoryInv DEF KeptOnceThere
  <2>2. ASSUME NEW w \in Workers, Claim(w) \/ WorkerStep(w) \/ Crash(w) PROVE remote' = remote
    BY <2>1, <2>2 DEF WorkerStep, Claim, Crash, ReadMax, InsertEvent, Begin, Render, RenderFails,
       ReadReceipt, Reuse, Copy, Record, Succeed, Except, Fail, stores
  <2>3. CASE Reclaim \/ \E r \in Runs : GrowsStale(r) \/ FallsDue(r)
    BY <2>3 DEF Reclaim, GrowsStale, FallsDue, stores
  <2>4. ASSUME NEW s \in Streams, StreamStep(s) \/ Reconnect(s) PROVE remote' = remote
    BY <2>4 DEF StreamStep, Deliver, WaitTimesOut, Heartbeat, Reconnect, GoStream, stores
  <2> QED
    BY <2>2, <2>3, <2>4 DEF Next
<1> QED
  BY <1>1, PublishingInvariant, PTL DEF Spec, PushedOnce

(* Sequences of which one extends the other by an element. *)
LEMMA AppendExtends ==
  ASSUME NEW S, NEW q \in Seq(S), NEW e \in S
  PROVE  IsPrefix(q, q) /\ IsPrefix(q, Append(q, e))
<1>1. Append(q, e) \in Seq(S) /\ Len(Append(q, e)) = Len(q) + 1 /\ Len(q) \in Nat
      /\ \A i \in 1..Len(q) : Append(q, e)[i] = q[i]
  OBVIOUS
<1> DEFINE a == SubSeq(q, 1, Len(q))
           b == SubSeq(Append(q, e), 1, Len(q))
<1>2. /\ a \in Seq(S) /\ Len(a) = Len(q) /\ \A i \in 1..Len(q) : a[i] = q[i]
      /\ b \in Seq(S) /\ Len(b) = Len(q) /\ \A i \in 1..Len(q) : b[i] = Append(q, e)[i]
  BY <1>1
<1>3. a = b
  BY <1>1, <1>2, SeqEqual
<1> QED
  BY <1>1, <1>3 DEF IsPrefix

(* No event is taken back or replaced (RunEventStore.append).               *)
THEOREM LogsOnlyGrow == Spec => EventsAreKept
<1>1. Inv /\ [Next]_vars => [\A r \in Runs : IsPrefix(log[r], log'[r])]_vars
  <2> SUFFICES ASSUME Inv, Next, NEW r \in Runs PROVE IsPrefix(log[r], log'[r])
    OBVIOUS
  <2>0. log \in [Runs -> Seq(Emitting)] /\ log[r] \in Seq(Emitting)
    BY DEF Inv, TypeOK
  <2>1. ASSUME NEW w \in Workers, InsertEvent(w)
        PROVE  log'[r] = log[r] \/ log'[r] = Append(log[r], worker[w].pc)
    <3>1. log' = log \/ log' = [log EXCEPT ![worker[w].run] = Append(log[worker[w].run], worker[w].pc)]
      BY <2>1 DEF InsertEvent
    <3>2. CASE r = worker[w].run
      BY <2>0, <3>1, <3>2
    <3>3. CASE r # worker[w].run
      BY <2>0, <3>1, <3>3
    <3> QED
      BY <3>2, <3>3
  <2>2. ASSUME NEW w \in Workers, InsertEvent(w) PROVE IsPrefix(log[r], log'[r])
    <3>1. worker[w].pc \in Emitting
      BY <2>2 DEF InsertEvent
    <3>2. IsPrefix(log[r], log[r]) /\ IsPrefix(log[r], Append(log[r], worker[w].pc))
      BY <2>0, <3>1, AppendExtends
    <3> QED
      BY <2>1, <2>2, <3>2
  <2>3. ASSUME NEW w \in Workers, ~InsertEvent(w), Claim(w) \/ WorkerStep(w) \/ Crash(w)
        PROVE  UNCHANGED log
    BY <2>3 DEF WorkerStep, Claim, Crash, ReadMax, Begin, Render, RenderFails, ReadReceipt, Reuse,
       Copy, Ensure, Push, Record, Succeed, Except, Fail, stores
  <2>4. ASSUME Reclaim \/ \E q \in Runs : GrowsStale(q) \/ FallsDue(q) PROVE UNCHANGED log
    BY <2>4 DEF Reclaim, GrowsStale, FallsDue, stores
  <2>5. ASSUME NEW s \in Streams, StreamStep(s) \/ Reconnect(s) PROVE UNCHANGED log
    BY <2>5 DEF StreamStep, Deliver, WaitTimesOut, Heartbeat, Reconnect, GoStream, stores
  <2>6. IsPrefix(log[r], log[r])
    BY <2>0, AppendExtends DEF Emitting
  <2> QED
    BY <2>2, <2>3, <2>4, <2>5, <2>6 DEF Next
<1> QED
  BY <1>1, PublishingInvariant, PTL DEF Spec, EventsAreKept
-----------------------------------------------------------------------------
(* Provisioning. An induction over the teams of the form: a set of numbers   *)
(* that has 0 and the successors of its members has them all.                *)
LEMMA Counting ==
  ASSUME NEW S, 0 \in S, \A n \in Nat : n \in S => n + 1 \in S
  PROVE  Nat \subseteq S
<1> SUFFICES ASSUME Nat \ S # {} PROVE FALSE
  OBVIOUS
<1>1. PICK n \in Nat \ S : \A m \in Nat \ S : n <= m
  BY LeastNumber
<1>2. n # 0 /\ n - 1 \in Nat /\ n - 1 \in S
  BY <1>1
<1> QED BY <1>1, <1>2

(* The loop over the teams is well defined. *)
LEMMA SyncedSteps ==
  ASSUME NEW world, NEW spec, NEW fails, spec.teams \in Seq(Teams)
  PROVE  LET n == Len(spec.teams)
             f == Synced(world, spec, fails)
             source == Listed(world.members[spec.source])
         IN /\ f[0] = [world |-> world, raised |-> FALSE, status |-> [t \in Teams |-> "none"]]
            /\ \A i \in 1..n : f[i] = SyncTeam(f[i-1], spec.teams[i], source, fails)
<1> DEFINE n == Len(spec.teams)
           base == [world |-> world, raised |-> FALSE, status |-> [t \in Teams |-> "none"]]
           Step(acc, i) == SyncTeam(acc, spec.teams[i], Listed(world.members[spec.source]), fails)
           S == {k \in Nat : \E h : h = [i \in 0..k |-> IF i = 0 THEN base ELSE Step(h[i-1], i)]}
<1> HIDE DEF base, Step
<1>0. n \in Nat
  OBVIOUS
<1>1. 0 \in S
  <2> DEFINE h == [i \in 0..0 |-> base]
  <2>1. h = [i \in 0..0 |-> IF i = 0 THEN base ELSE Step(h[i-1], i)]
    OBVIOUS
  <2> QED BY <2>1
<1>2. ASSUME NEW k \in Nat, k \in S PROVE k + 1 \in S
  <2>1. PICK h : h = [i \in 0..k |-> IF i = 0 THEN base ELSE Step(h[i-1], i)]
    BY <1>2
  <2> DEFINE g == [i \in 0..k+1 |-> IF i = k+1 THEN Step(h[k], k+1) ELSE h[i]]
  <2>2. \A i \in 0..k : g[i] = h[i]
    OBVIOUS
  <2>3. \A i \in 0..k+1 : g[i] = IF i = 0 THEN base ELSE Step(g[i-1], i)
    <3> TAKE i \in 0..k+1
    <3>1. CASE i = k+1
      BY <2>2, <3>1
    <3>2. CASE i \in 0..k
      <4>1. h[i] = IF i = 0 THEN base ELSE Step(h[i-1], i)
        BY <2>1, <3>2
      <4>2. i # 0 => i-1 \in 0..k
        BY <3>2
      <4> QED BY <2>2, <3>2, <4>1, <4>2
    <3> QED BY <3>1, <3>2
  <2>4. g = [i \in 0..k+1 |-> IF i = 0 THEN base ELSE Step(g[i-1], i)]
    BY <2>3
  <2>5. k + 1 \in Nat
    OBVIOUS
  <2>6. \E h2 : h2 = [i \in 0..k+1 |-> IF i = 0 THEN base ELSE Step(h2[i-1], i)]
    BY <2>4, Zenon
  <2> QED BY <2>5, <2>6, Zenon
<1>3. Nat \subseteq S
  <2> HIDE DEF S
  <2> QED BY <1>1, <1>2, Counting
<1>4. \E h : h = [i \in 0..n |-> IF i = 0 THEN base ELSE Step(h[i-1], i)]
  BY <1>0, <1>3
<1> DEFINE f == Synced(world, spec, fails)
<1>5. f = [i \in 0..n |-> IF i = 0 THEN base ELSE Step(f[i-1], i)]
  BY <1>4, Zenon DEF Synced, base, Step
<1>6. f[0] = base /\ \A i \in 1..n : f[i] = Step(f[i-1], i)
  <2> HIDE DEF f
  <2> QED BY <1>0, <1>5
<1> QED BY <1>6 DEF base, Step

(* parse_team_slugs gives teams of the form. *)
LEMMA SlugsParsed ==
  ASSUME NEW slugs \in Seq(Teams)
  PROVE  ParseTeamSlugs(slugs) \in Seq(Teams)
<1> DEFINE n == Len(slugs)
           Step(kept, i) == IF slugs[i] \in ToSet(kept) THEN kept ELSE Append(kept, slugs[i])
           S == {k \in Nat : \E h : h = [i \in 0..k |-> IF i = 0 THEN <<>> ELSE Step(h[i-1], i)]}
<1> HIDE DEF Step
<1>0. n \in Nat
  OBVIOUS
<1>1. 0 \in S
  <2> DEFINE h == [i \in 0..0 |-> <<>>]
  <2>1. h = [i \in 0..0 |-> IF i = 0 THEN <<>> ELSE Step(h[i-1], i)]
    OBVIOUS
  <2> QED BY <2>1
<1>2. ASSUME NEW k \in Nat, k \in S PROVE k + 1 \in S
  <2>1. PICK h : h = [i \in 0..k |-> IF i = 0 THEN <<>> ELSE Step(h[i-1], i)]
    BY <1>2
  <2> DEFINE g == [i \in 0..k+1 |-> IF i = k+1 THEN Step(h[k], k+1) ELSE h[i]]
  <2>2. \A i \in 0..k : g[i] = h[i]
    OBVIOUS
  <2>3. \A i \in 0..k+1 : g[i] = IF i = 0 THEN <<>> ELSE Step(g[i-1], i)
    <3> TAKE i \in 0..k+1
    <3>1. CASE i = k+1
      BY <2>2, <3>1
    <3>2. CASE i \in 0..k
      <4>1. h[i] = IF i = 0 THEN <<>> ELSE Step(h[i-1], i)
        BY <2>1, <3>2
      <4>2. i # 0 => i-1 \in 0..k
        BY <3>2
      <4> QED BY <2>2, <3>2, <4>1, <4>2
    <3> QED BY <3>1, <3>2
  <2>4. g = [i \in 0..k+1 |-> IF i = 0 THEN <<>> ELSE Step(g[i-1], i)]
    BY <2>3
  <2>5. k + 1 \in Nat
    OBVIOUS
  <2>6. \E h2 : h2 = [i \in 0..k+1 |-> IF i = 0 THEN <<>> ELSE Step(h2[i-1], i)]
    BY <2>4, Zenon
  <2> QED BY <2>5, <2>6, Zenon
<1>3. Nat \subseteq S
  <2> HIDE DEF S
  <2> QED BY <1>1, <1>2, Counting
<1>4. \E h : h = [i \in 0..n |-> IF i = 0 THEN <<>> ELSE Step(h[i-1], i)]
  BY <1>0, <1>3
<1>5. PICK f : /\ f = [i \in 0..n |-> IF i = 0 THEN <<>> ELSE Step(f[i-1], i)]
               /\ ParseTeamSlugs(slugs) = f[n]
  <2> DEFINE f == CHOOSE h : h = [i \in 0..n |-> IF i = 0 THEN <<>> ELSE Step(h[i-1], i)]
  <2>1. f = [i \in 0..n |-> IF i = 0 THEN <<>> ELSE Step(f[i-1], i)]
    BY <1>4, Zenon
  <2>2. ParseTeamSlugs(slugs) = f[n]
    BY Zenon DEF ParseTeamSlugs, Step
  <2> QED BY <2>1, <2>2, Zenon
<1> DEFINE T == {k \in Nat : k <= n => f[k] \in Seq(Teams)}
<1>6. f[0] = <<>> /\ \A i \in 1..n : f[i] = Step(f[i-1], i)
  BY <1>0, <1>5
<1>7. 0 \in T
  <2>1. <<>> \in Seq(Teams)
    OBVIOUS
  <2>2. f[0] \in Seq(Teams)
    BY <1>6, <2>1
  <2> QED BY <2>2
<1>8. ASSUME NEW k \in Nat, k \in T PROVE k + 1 \in T
  <2>1. CASE k + 1 <= n
    <3>1. f[k+1] = Step(f[k], k+1) /\ f[k] \in Seq(Teams)
      BY <1>0, <1>6, <1>8, <2>1
    <3>2. slugs[k+1] \in Teams
      BY <2>1
    <3>3. Append(f[k], slugs[k+1]) \in Seq(Teams)
      BY <3>1, <3>2
    <3>4. f[k+1] \in Seq(Teams)
      BY <3>1, <3>3 DEF Step
    <3> QED BY <3>4
  <2>2. CASE ~(k + 1 <= n)
    BY <2>2
  <2> QED BY <2>1, <2>2
<1>9. n \in T
  <2> HIDE DEF T
  <2> QED BY <1>0, <1>7, <1>8, Counting
<1> QED BY <1>0, <1>5, <1>9

LEMMA ListedSome ==
  ASSUME NEW people \in SUBSET People
  PROVE  Listed(people) \subseteq people
<1> DEFINE c == Cardinality(people)
           T == {k \in Nat : k <= c => \E some \in SUBSET people : Cardinality(some) = c - k}
<1>0. IsFiniteSet(people) /\ c \in Nat
  BY ProvisioningAssumption, FS_Subset, FS_CardinalityType
<1>1. 0 \in T
  BY <1>0
<1>2. ASSUME NEW k \in Nat, k \in T PROVE k + 1 \in T
  <2>1. CASE k + 1 <= c
    <3>1. PICK some \in SUBSET people : Cardinality(some) = c - k
      BY <1>0, <1>2, <2>1
    <3>2. IsFiniteSet(some) /\ some # {}
      BY <1>0, <2>1, <3>1, FS_Subset, FS_EmptySet
    <3>3. PICK x \in some : TRUE
      BY <3>2
    <3>4. Cardinality(some \ {x}) = Cardinality(some) - 1
      BY <3>2, <3>3, FS_RemoveElement
    <3>5. Cardinality(some \ {x}) = c - (k + 1) /\ some \ {x} \in SUBSET people
      BY <1>0, <3>1, <3>4
    <3> QED BY <3>5
  <2>2. CASE ~(k + 1 <= c)
    BY <2>2
  <2> QED BY <2>1, <2>2
<1>3. \A k \in Nat : k \in T
  <2> HIDE DEF T
  <2> QED BY <1>1, <1>2, Counting
<1>4. CASE c <= MaxListed
  BY <1>4 DEF Listed
<1>5. CASE ~(c <= MaxListed)
  <2>1. c - MaxListed \in Nat
    BY <1>0, <1>5, ProvisioningAssumption
  <2>2. \E some \in SUBSET people : Cardinality(some) = MaxListed
    BY <1>0, <1>3, <2>1, ProvisioningAssumption
  <2> QED BY <1>5, <2>2 DEF Listed
<1> QED BY <1>4, <1>5

LEMMA WorldFields ==
  ASSUME NEW world \in Worlds
  PROVE  /\ DOMAIN world.members \subseteq Teams
         /\ world.members \in [DOMAIN world.members -> SUBSET People]
         /\ world.org \in BOOLEAN /\ world.rules \in BOOLEAN /\ world.granted \in SUBSET Teams
         /\ world.repo \in [visibility : Visibilities, topics : BOOLEAN,
                            branch : {"absent", "none", "other", "overlay"}]
BY DEF Worlds

LEMMA NewMembers ==
  ASSUME NEW world \in Worlds, NEW some \in SUBSET Teams, NEW members \in [some -> SUBSET People]
  PROVE  [world EXCEPT !.members = members] \in Worlds
BY DEF Worlds

(* A call that makes a team, or finds it, leaves the others alone. *)
Ensured(world, team, fails, end) ==
  /\ end.world \in Worlds
  /\ end.world = [world EXCEPT !.members = end.world.members]
  /\ \A t \in DOMAIN world.members :
       t \in DOMAIN end.world.members /\ end.world.members[t] = world.members[t]
  /\ DOMAIN end.world.members \subseteq DOMAIN world.members \cup {team}
  /\ end.status # "failed" => HasTeam(end.world, team)
  /\ fails = {} /\ world.org => end.status # "failed"
  /\ end.status \in {"failed", "exists", "created"}

LEMMA EnsureTeamKeeps ==
  ASSUME NEW world \in Worlds, NEW team \in Teams, NEW fails
  PROVE  Ensured(world, team, fails, EnsureTeam(world, team, fails))
<1> SUFFICES ASSUME NEW end, end = EnsureTeam(world, team, fails)
             PROVE  Ensured(world, team, fails, end)
  OBVIOUS
<1> DEFINE members == [t \in DOMAIN world.members \cup {team} |-> IF t = team THEN {} ELSE world.members[t]]
           made == [world EXCEPT !.members = members]
<1>1. world = [world EXCEPT !.members = world.members]
  BY DEF Worlds
<1>2. /\ DOMAIN world.members \cup {team} \in SUBSET Teams
      /\ members \in [DOMAIN world.members \cup {team} -> SUBSET People]
  BY WorldFields
<1>3. made \in Worlds
  BY <1>2, NewMembers
<1>4. made.members = members /\ made.org = world.org
  BY DEF Worlds
<1>5. \/ end.world = world /\ end.status \in {"failed", "exists"}
         /\ (end.status = "exists" => HasTeam(world, team))
         /\ (fails = {} /\ world.org => end.status = "exists")
      \/ end.world = made /\ end.status = "created" /\ world.org /\ ~HasTeam(world, team)
  BY DEF EnsureTeam
<1>6. CASE end.world = world /\ end.status \in {"failed", "exists"}
         /\ (end.status = "exists" => HasTeam(world, team))
         /\ (fails = {} /\ world.org => end.status = "exists")
  BY <1>1, <1>6 DEF Ensured
<1>7. CASE end.world = made /\ end.status = "created" /\ world.org /\ ~HasTeam(world, team)
  <2>1. /\ DOMAIN members = DOMAIN world.members \cup {team}
        /\ \A t \in DOMAIN world.members : members[t] = world.members[t]
    BY <1>7 DEF HasTeam
  <2> HIDE DEF members
  <2>2. HasTeam(made, team)
    BY <1>4, <1>7, <2>1 DEF HasTeam
  <2>3. end.world = [world EXCEPT !.members = end.world.members]
    BY <1>4, <1>7
  <2> HIDE DEF made
  <2> QED BY <1>3, <1>4, <1>7, <2>1, <2>2, <2>3 DEF Ensured
<1> QED BY <1>5, <1>6, <1>7

-----------------------------------------------------------------------------
(* What the loop over the teams of spec has made of world so far: it began   *)
(* with world, source are the people to add.                                *)
Results == {"none", "failed", "created", "synced"}

Kept(world, new, teams) ==
  /\ new \in Worlds /\ new = [world EXCEPT !.members = new.members]
  /\ \A t \in DOMAIN world.members :
       t \in DOMAIN new.members /\ world.members[t] \subseteq new.members[t]
  /\ \A t \in DOMAIN new.members \ teams :
       t \in DOMAIN world.members /\ new.members[t] = world.members[t]

InSync(acc, source) ==
  \A t \in Teams : acc.status[t] \in {"created", "synced"} =>
    t \in DOMAIN acc.world.members /\ source \subseteq acc.world.members[t]

LEMMA KeptFields ==
  ASSUME NEW world \in Worlds, NEW teams, NEW new, Kept(world, new, teams)
  PROVE  /\ new.org = world.org /\ new.rules = world.rules /\ new.repo = world.repo
         /\ new.granted = world.granted
BY DEF Kept, Worlds

Accumulated == [world : Worlds, raised : BOOLEAN, status : [Teams -> Results]]

Syncs(acc, team, source, fails, next) ==
  /\ next \in Accumulated
  /\ Kept(acc.world, next.world, {team})
  /\ \A t \in Teams \ {team} : next.status[t] = acc.status[t]
  /\ InSync(acc, source) => InSync(next, source)
  /\ fails = {} /\ acc.world.org /\ ~acc.raised =>
       ~next.raised /\ next.status[team] \in {"created", "synced"}

LEMMA SyncTeamKeeps ==
  ASSUME NEW acc \in Accumulated, NEW team \in Teams, NEW source \in SUBSET People, NEW fails,
         NEW next, next = SyncTeam(acc, team, source, fails)
  PROVE  Syncs(acc, team, source, fails, next)
<1>0. PICK world \in Worlds, raised \in BOOLEAN, status \in [Teams -> Results] :
        acc = [world |-> world, raised |-> raised, status |-> status]
  BY DEF Accumulated
<1> DEFINE ensured == EnsureTeam(world, team, fails)
           mid == ensured.world
           missing == source \ Listed(mid.members[team])
           added == {p \in missing : <<"add", team, p>> \notin fails}
           members == [mid.members EXCEPT ![team] = @ \cup added]
           new == [mid EXCEPT !.members = members]
<1>1. Ensured(world, team, fails, ensured)
  BY EnsureTeamKeeps
<1>2. acc.world = world /\ acc.raised = raised /\ acc.status = status
  BY <1>0
<1>3. \/ raised /\ next = acc
      \/ ~raised /\ ensured.status = "failed" /\ next = [acc EXCEPT !.status[team] = "failed"]
      \/ ~raised /\ ensured.status # "failed" /\ CannotList(mid, team, fails)
         /\ next = [world |-> mid, raised |-> TRUE, status |-> status]
      \/ /\ ~raised /\ ensured.status # "failed" /\ ~CannotList(mid, team, fails)
         /\ next.world = new /\ next.raised = FALSE
         /\ next = [world |-> next.world, raised |-> next.raised, status |-> next.status]
         /\ \E s \in {"failed", "created", "synced"} :
              next.status = [status EXCEPT ![team] = s] /\ (s = "failed" <=> added # missing)
  BY <1>0, <1>2, Zenon DEF SyncTeam
<1>4. Kept(world, world, {team})
  BY DEF Kept, Worlds
<1>5. /\ mid \in Worlds /\ Kept(world, mid, {team})
      /\ \A t \in DOMAIN world.members : t \in DOMAIN mid.members /\ mid.members[t] = world.members[t]
  BY <1>1 DEF Ensured, Kept
<1> HIDE DEF ensured
<1>6. CASE raised /\ next = acc
  BY <1>2, <1>4, <1>6 DEF Syncs
<1>7. CASE ~raised /\ ensured.status = "failed" /\ next = [acc EXCEPT !.status[team] = "failed"]
  <2>1. next = [world |-> world, raised |-> raised, status |-> [status EXCEPT ![team] = "failed"]]
    BY <1>0, <1>7
  <2>2. InSync(acc, source) => InSync(next, source)
    BY <1>2, <2>1 DEF InSync, Results
  <2>3. ~(fails = {} /\ world.org)
    BY <1>1, <1>7 DEF Ensured
  <2>4. next.status = [status EXCEPT ![team] = "failed"] /\ next.world = world /\ next.raised = raised
    BY <2>1
  <2>5. next \in Accumulated
    BY <2>1 DEF Accumulated, Results
  <2> QED BY <1>2, <1>4, <2>2, <2>3, <2>4, <2>5 DEF Syncs
<1>8. CASE ~raised /\ ensured.status # "failed" /\ CannotList(mid, team, fails)
           /\ next = [world |-> mid, raised |-> TRUE, status |-> status]
  <2>1. InSync(acc, source) => InSync(next, source)
    <3>1. next.status = status /\ next.world = mid
      BY <1>8
    <3> QED BY <1>2, <1>5, <3>1 DEF InSync
  <2>2. ~(fails = {} /\ world.org)
    BY <1>1, <1>8 DEF Ensured, CannotList, HasTeam
  <2>3. next.world = mid /\ next.raised = TRUE /\ next.status = status
    BY <1>8
  <2>4. next \in Accumulated
    BY <1>5, <1>8 DEF Accumulated
  <2> HIDE DEF mid
  <2> QED BY <1>2, <1>5, <2>1, <2>2, <2>3, <2>4 DEF Syncs
<1>9. CASE /\ ~raised /\ ensured.status # "failed" /\ ~CannotList(mid, team, fails)
           /\ next.world = new /\ next.raised = FALSE
           /\ next = [world |-> next.world, raised |-> next.raised, status |-> next.status]
           /\ \E s \in {"failed", "created", "synced"} :
                next.status = [status EXCEPT ![team] = s] /\ (s = "failed" <=> added # missing)
  <2>1. team \in DOMAIN mid.members
    BY <1>9 DEF CannotList, HasTeam
  <2>2. mid.members \in [DOMAIN mid.members -> SUBSET People] /\ DOMAIN mid.members \in SUBSET Teams
    BY <1>5, WorldFields
  <2>3. Listed(mid.members[team]) \subseteq mid.members[team]
    BY <2>1, <2>2, ListedSome
  <2>4. added \subseteq source /\ missing \cup mid.members[team] = source \cup mid.members[team]
    BY <2>3
  <2>5. members \in [DOMAIN mid.members -> SUBSET People]
    BY <2>1, <2>2, <2>4
  <2>6. new \in Worlds /\ new.members = members /\ new = [world EXCEPT !.members = members]
    <3>1. new \in Worlds /\ new.members = members
      <4> HIDE DEF mid, members
      <4>1. new \in Worlds
        BY <1>5, <2>2, <2>5, NewMembers
      <4>2. new.members = members
        BY <1>5 DEF Worlds
      <4> QED BY <4>1, <4>2
    <3>2. mid = [world EXCEPT !.members = mid.members]
      BY <1>5 DEF Kept
    <3> HIDE DEF mid, members
    <3> QED BY <3>1, <3>2
  <2>7. /\ \A t \in DOMAIN mid.members : mid.members[t] \subseteq members[t]
        /\ \A t \in DOMAIN mid.members \ {team} : members[t] = mid.members[t]
        /\ added = missing => source \subseteq members[team]
        /\ DOMAIN members = DOMAIN mid.members
    BY <2>1, <2>2, <2>4
  <2> HIDE DEF members, new
  <2>8. fails = {} => added = missing
    OBVIOUS
  <2>9. Kept(world, new, {team})
    BY <1>5, <2>6, <2>7 DEF Kept
  <2> HIDE DEF added, missing
  <2>10. next.world = new /\ next.raised = FALSE
    BY <1>9
  <2>11. PICK s \in {"failed", "created", "synced"} :
           next.status = [status EXCEPT ![team] = s] /\ (s = "failed" <=> added # missing)
    BY <1>9
  <2>12. InSync(acc, source) => InSync(next, source)
    <3> SUFFICES ASSUME InSync(acc, source), NEW t \in Teams, next.status[t] \in {"created", "synced"}
                 PROVE  t \in DOMAIN members /\ source \subseteq members[t]
      BY <2>6, <2>10 DEF InSync
    <3>1. CASE t = team
      BY <2>1, <2>7, <2>11, <3>1
    <3>2. CASE t # team
      <4>1. status[t] \in {"created", "synced"}
        BY <2>11, <3>2
      <4>2. t \in DOMAIN world.members /\ source \subseteq world.members[t]
        BY <1>2, <4>1 DEF InSync
      <4> QED BY <1>5, <2>7, <3>2, <4>2
    <3> QED BY <3>1, <3>2
  <2>13. ASSUME fails = {} PROVE next.status[team] \in {"created", "synced"}
    <3>1. next.status[team] = s
      BY <2>11
    <3> QED BY <2>11, <2>13, <2>8, <3>1
  <2>14. next \in Accumulated
    <3>1. PICK known \in [Teams -> Results] : known = next.status
      BY <2>11 DEF Results
    <3>2. next = [world |-> new, raised |-> FALSE, status |-> known]
      BY <1>9, <2>10, <3>1, Zenon
    <3> QED BY <2>6, <3>2 DEF Accumulated
  <2>15. \A t \in Teams \ {team} : next.status[t] = status[t]
    BY <2>11
  <2> QED BY <1>2, <2>9, <2>10, <2>12, <2>13, <2>14, <2>15 DEF Syncs
<1> QED BY <1>3, <1>6, <1>7, <1>8, <1>9

LEMMA KeptOn ==
  ASSUME NEW world \in Worlds, NEW teams, NEW team \in teams, NEW new, NEW end,
         Kept(world, new, teams), Kept(new, end, {team})
  PROVE  Kept(world, end, teams)
<1>1. end = [world EXCEPT !.members = end.members]
  BY DEF Kept, Worlds
<1>2. \A t \in DOMAIN world.members : t \in DOMAIN end.members /\ world.members[t] \subseteq end.members[t]
  BY DEF Kept
<1>3. \A t \in DOMAIN end.members \ teams : t \in DOMAIN world.members /\ end.members[t] = world.members[t]
  BY DEF Kept
<1> QED BY <1>1, <1>2, <1>3 DEF Kept

(* What the loop has done after some of the teams.                           *)
Loop(world, source, teams, fails, acc, k) ==
  /\ acc \in Accumulated
  /\ Kept(world, acc.world, ToSet(teams))
  /\ InSync(acc, source)
  /\ fails = {} /\ world.org =>
       ~acc.raised /\ \A j \in 1..k : acc.status[teams[j]] \in {"created", "synced"}

LEMMA LoopHolds ==
  ASSUME NEW world \in Worlds, NEW spec, spec.teams \in Seq(Teams), NEW fails,
         spec.source \in DOMAIN world.members
  PROVE  Loop(world, Listed(world.members[spec.source]), spec.teams, fails,
              Synced(world, spec, fails)[Len(spec.teams)], Len(spec.teams))
<1> DEFINE teams == spec.teams
           n == Len(teams)
           source == Listed(world.members[spec.source])
           f == Synced(world, spec, fails)
           T == {k \in Nat : k <= n => Loop(world, source, teams, fails, f[k], k)}
<1>1. source \in SUBSET People
  <2>1. world.members[spec.source] \in SUBSET People
    BY WorldFields
  <2> QED BY <2>1, ListedSome
<1>2. /\ f[0] = [world |-> world, raised |-> FALSE, status |-> [t \in Teams |-> "none"]]
      /\ \A i \in 1..n : f[i] = SyncTeam(f[i-1], teams[i], source, fails)
  BY SyncedSteps
<1>3. n \in Nat /\ \A i \in 1..n : teams[i] \in Teams /\ teams[i] \in ToSet(teams)
  BY DEF ToSet
<1> HIDE DEF f, n, teams, source
<1>4. 0 \in T
  <2>1. Kept(world, world, ToSet(teams))
    BY DEF Kept, Worlds
  <2>2. f[0].world = world /\ f[0].raised = FALSE /\ f[0].status = [t \in Teams |-> "none"]
    BY <1>2
  <2>3. InSync(f[0], source)
    BY <2>2 DEF InSync
  <2>4. Loop(world, source, teams, fails, f[0], 0)
    BY <1>2, <2>1, <2>2, <2>3 DEF Loop, Results, Accumulated
  <2> QED BY <2>4
<1>5. ASSUME NEW k \in Nat, k \in T PROVE k + 1 \in T
  <2> SUFFICES ASSUME k + 1 <= n PROVE Loop(world, source, teams, fails, f[k+1], k+1)
    BY <1>3
  <2>1. Loop(world, source, teams, fails, f[k], k) /\ k + 1 \in 1..n
    BY <1>3, <1>5
  <2> DEFINE acc == f[k]
             team == teams[k+1]
             next == f[k+1]
  <2>2. next = SyncTeam(acc, team, source, fails) /\ team \in Teams /\ team \in ToSet(teams)
    BY <1>2, <1>3, <2>1
  <2> HIDE DEF acc, team, next
  <2>0. Loop(world, source, teams, fails, acc, k)
    BY <2>1 DEF acc
  <2>3. acc \in Accumulated /\ acc.world.org = world.org
    <3>1. Kept(world, acc.world, ToSet(teams))
      BY <2>0 DEF Loop
    <3> QED BY <2>0, <3>1, KeptFields DEF Loop
  <2>4. Syncs(acc, team, source, fails, next)
    BY <1>1, <2>2, <2>3, SyncTeamKeeps
  <2>5. Kept(world, next.world, ToSet(teams))
    BY <2>0, <2>2, <2>4, KeptOn DEF Loop, Syncs
  <2>6. ASSUME fails = {}, world.org
        PROVE  ~next.raised /\ \A j \in 1..(k+1) : next.status[teams[j]] \in {"created", "synced"}
    <3>1. ~acc.raised /\ \A j \in 1..k : acc.status[teams[j]] \in {"created", "synced"}
      BY <2>0, <2>6 DEF Loop
    <3>2. ~next.raised /\ next.status[team] \in {"created", "synced"}
      BY <2>3, <2>4, <2>6, <3>1 DEF Syncs
    <3>3. ASSUME NEW j \in 1..(k+1) PROVE next.status[teams[j]] \in {"created", "synced"}
      <4>1. teams[j] \in Teams
        BY <1>3, <2>1
      <4>2. CASE teams[j] = team
        BY <3>2, <4>2
      <4>3. CASE teams[j] # team
        <5>1. j \in 1..k
          BY <4>3 DEF team
        <5> QED BY <2>4, <3>1, <4>1, <4>3, <5>1 DEF Syncs
      <4> QED BY <4>2, <4>3
    <3> QED BY <3>2, <3>3
  <2>7. InSync(next, source)
    BY <2>0, <2>4 DEF Loop, Syncs
  <2> QED BY <2>4, <2>5, <2>6, <2>7 DEF Loop, Syncs, next
<1>6. n \in T
  <2> HIDE DEF T
  <2> QED BY <1>3, <1>4, <1>5, Counting
<1>7. Loop(world, source, teams, fails, f[n], n)
  BY <1>3, <1>6
<1> QED BY <1>7 DEF f, n, source, teams

-----------------------------------------------------------------------------
(* The steps of an attempt                                                   *)

Specs == [mode : {"template", "selection"}, visibility : Visibilities, topics : BOOLEAN, ruleset : BOOLEAN,
          teams : Seq(Teams), source : Teams \cup {NoTeam}, sync : BOOLEAN]

LEMMA BuiltSpec == ASSUME NEW values \in Forms PROVE BuildSpec(values) \in Specs
<1>1. ParseTeamSlugs(values.teams) \in Seq(Teams)
  BY SlugsParsed DEF Forms
<1>2. SyncAsked(values) \in BOOLEAN
  BY DEF SyncAsked
<1> QED BY <1>1, <1>2 DEF BuildSpec, Specs, Forms

LEMMA RepositoryMade ==
  ASSUME NEW world \in Worlds, NEW spec \in Specs, NEW fails,
         NEW made, made = CreateRepository(world, spec, fails)
  PROVE  /\ made.world \in Worlds /\ made.world = [world EXCEPT !.repo = made.world.repo]
         /\ made.status = "failed" => made.world = world
         /\ made.status = "created" =>
              ~Exists(world) /\ made.world.repo.visibility \in {spec.visibility, "private"}
         /\ Exists(world) /\ made.status # "failed" => made.world = world
<1> DEFINE repo == [visibility |-> CreatedVisibility(world, spec, fails),
                    topics |-> spec.topics /\ <<"topics">> \notin fails, branch |-> "none"]
           new == [world EXCEPT !.repo = repo]
<1>1. CreatedVisibility(world, spec, fails) \in {spec.visibility, "private"}
  BY DEF CreatedVisibility
<1>2. repo.visibility \in Visibilities /\ repo.topics \in BOOLEAN
  BY <1>1 DEF Specs, Visibilities
<1>3. repo \in [visibility : Visibilities, topics : BOOLEAN, branch : {"absent", "none", "other", "overlay"}]
  BY <1>2
<1>4. repo.visibility \in {spec.visibility, "private"}
  BY <1>1
<1> HIDE DEF repo
<1>5. new \in Worlds /\ new.repo = repo
  BY <1>3 DEF Worlds
<1>6. world = [world EXCEPT !.repo = world.repo]
  BY DEF Worlds
<1>7. \/ made.world = world /\ made.status \in {"failed", "exists"}
      \/ made.world = new /\ made.status = "created" /\ ~Exists(world)
  BY DEF CreateRepository, repo
<1>8. CASE made.world = world /\ made.status \in {"failed", "exists"}
  BY <1>6, <1>8
<1>9. CASE made.world = new /\ made.status = "created" /\ ~Exists(world)
  <2>1. made.world = [world EXCEPT !.repo = made.world.repo]
    BY <1>5, <1>9
  <2> HIDE DEF new
  <2> QED BY <1>4, <1>5, <1>9, <2>1
<1> QED BY <1>7, <1>8, <1>9

LEMMA OverlayPushed ==
  ASSUME NEW world \in Worlds, NEW fails, NEW push, push = PushOverlay(world, fails)
  PROVE  /\ push.world \in Worlds /\ push.world = [world EXCEPT !.repo = push.world.repo]
         /\ push.world.repo.visibility = world.repo.visibility
         /\ push.status # "failed" => world.repo.branch = "none" /\ push.world.repo.branch = "overlay"
<1> DEFINE new == [world EXCEPT !.repo.branch = "overlay"]
<1>1. /\ new \in Worlds /\ new = [world EXCEPT !.repo = new.repo]
      /\ new.repo.branch = "overlay" /\ new.repo.visibility = world.repo.visibility
  <2>1. PICK repo \in [visibility : Visibilities, topics : BOOLEAN, branch : {"absent", "none", "other", "overlay"}] :
          repo = [world.repo EXCEPT !.branch = "overlay"]
    BY WorldFields
  <2>2. new = [world EXCEPT !.repo = repo]
    BY <2>1 DEF Worlds
  <2>3. new \in Worlds /\ new.repo = repo
    BY <2>2 DEF Worlds
  <2>4. repo.branch = "overlay" /\ repo.visibility = world.repo.visibility
    BY <2>1, WorldFields
  <2> HIDE DEF new
  <2> QED BY <2>2, <2>3, <2>4
<1>2. world = [world EXCEPT !.repo = world.repo]
  BY DEF Worlds
<1>3. \/ push.world = world /\ push.status = "failed"
      \/ push.world = new /\ push.status = "pushed" /\ world.repo.branch = "none"
  BY DEF PushOverlay
<1> HIDE DEF new
<1> QED BY <1>1, <1>2, <1>3

LEMMA RulesetUpserted ==
  ASSUME NEW world \in Worlds, NEW spec \in Specs, NEW fails,
         NEW rule, rule = UpsertRuleset(world, spec, fails)
  PROVE  /\ rule.world \in Worlds /\ rule.world = [world EXCEPT !.rules = rule.world.rules]
         /\ world.rules => rule.world.rules
         /\ rule.world.rules => world.rules \/ spec.ruleset
         /\ rule.status \in {"applied", "updated"} => rule.world.rules
         /\ fails = {} /\ spec.ruleset => rule.world.rules
<1> DEFINE new == [world EXCEPT !.rules = TRUE]
<1>1. new \in Worlds /\ new = [world EXCEPT !.rules = new.rules] /\ new.rules = TRUE
  BY DEF Worlds
<1>2. world = [world EXCEPT !.rules = world.rules]
  BY DEF Worlds
<1>3. \/ rule.world = world /\ rule.status \in {"skipped", "failed"} /\ ~(fails = {} /\ spec.ruleset)
      \/ rule.world = new /\ spec.ruleset
  BY WorldFields DEF UpsertRuleset, Specs
<1> HIDE DEF new
<1> QED BY <1>1, <1>2, <1>3

(* sync_and_grant_teams                                                      *)
TeamsSynced(world, spec, fails, team) ==
  LET plan == Announced(spec).sync IN
  /\ Kept(world, team.world, plan)
  /\ team.status \in [Teams -> Results]
  /\ \A t \in Teams : team.status[t] \in {"created", "synced"} =>
       t \in DOMAIN team.world.members /\ Listed(world.members[spec.source]) \subseteq team.world.members[t]
  /\ fails = {} /\ world.org /\ spec.source \in DOMAIN world.members =>
       \A t \in plan : team.status[t] \in {"created", "synced"}

LEMMA SyncTeamsKeeps ==
  ASSUME NEW world \in Worlds, NEW spec \in Specs, NEW fails
  PROVE  TeamsSynced(world, spec, fails, SyncTeams(world, spec, fails))
<1> DEFINE none == [t \in Teams |-> "none"]
           runs == spec.sync /\ spec.teams # <<>> /\ spec.source # NoTeam
           end == Synced(world, spec, fails)[Len(spec.teams)]
           team == SyncTeams(world, spec, fails)
           plan == Announced(spec).sync
           cannot == CannotList(world, spec.source, fails)
<1>0. spec.teams \in Seq(Teams) /\ spec.sync \in BOOLEAN
  BY DEF Specs
<1>1. /\ plan = IF spec.sync THEN ToSet(spec.teams) ELSE {}
      /\ \A t \in plan : \E j \in 1..Len(spec.teams) : t = spec.teams[j]
      /\ spec.teams = <<>> => plan = {}
  BY <1>0 DEF Announced, ToSet
<1>2. /\ ~runs => team = [world |-> world, status |-> none]
      /\ runs /\ cannot => team = [world |-> world, status |-> [none EXCEPT ![spec.source] = "failed"]]
      /\ runs /\ ~cannot /\ end.raised =>
           team = [world |-> end.world, status |-> [none EXCEPT ![spec.source] = "failed"]]
      /\ runs /\ ~cannot /\ ~end.raised => team = [world |-> end.world, status |-> end.status]
  BY DEF SyncTeams
<1>3. Kept(world, world, plan)
  BY DEF Kept, Worlds
<1>4. none \in [Teams -> Results] /\ [none EXCEPT ![spec.source] = "failed"] \in [Teams -> Results]
  BY DEF Results
<1>5. \A t \in Teams : none[t] \notin {"created", "synced"}
                     /\ [none EXCEPT ![spec.source] = "failed"][t] \notin {"created", "synced"}
  OBVIOUS
<1>6. NoTeam \notin DOMAIN world.members
  BY WorldFields, ProvisioningAssumption
<1> HIDE DEF team, end, plan, none
<1>7. CASE ~runs
  <2>1. spec.source \in DOMAIN world.members => plan = {}
    BY <1>0, <1>1, <1>6, <1>7
  <2> QED BY <1>2, <1>3, <1>4, <1>5, <1>7, <2>1 DEF TeamsSynced, plan, team
<1>8. CASE runs /\ cannot
  <2>1. ~(fails = {} /\ world.org /\ spec.source \in DOMAIN world.members)
    BY <1>8 DEF CannotList, HasTeam
  <2> QED BY <1>2, <1>3, <1>4, <1>5, <1>8, <2>1 DEF TeamsSynced, plan, team
<1>9. CASE runs /\ ~cannot
  <2>1. spec.source \in DOMAIN world.members
    BY <1>9 DEF CannotList, HasTeam
  <2>2. Loop(world, Listed(world.members[spec.source]), spec.teams, fails, end, Len(spec.teams))
    BY <1>0, <2>1, LoopHolds DEF end
  <2>3. plan = ToSet(spec.teams)
    BY <1>1, <1>9
  <2>4. Kept(world, end.world, plan) /\ end \in Accumulated
    BY <2>2, <2>3 DEF Loop
  <2>5. CASE end.raised
    <3>1. ~(fails = {} /\ world.org)
      BY <2>2, <2>5 DEF Loop
    <3> QED BY <1>2, <1>4, <1>5, <1>9, <2>4, <2>5, <3>1 DEF TeamsSynced, plan, team
  <2>6. CASE ~end.raised
    <3>1. team.world = end.world /\ team.status = end.status
      BY <1>2, <1>9, <2>6
    <3>2. end.status \in [Teams -> Results]
      BY <2>4 DEF Accumulated
    <3>3. InSync(end, Listed(world.members[spec.source]))
      BY <2>2 DEF Loop
    <3>4. fails = {} /\ world.org => \A t \in plan : team.status[t] \in {"created", "synced"}
      BY <1>1, <2>2, <3>1 DEF Loop
    <3> QED BY <2>4, <3>1, <3>2, <3>3, <3>4 DEF TeamsSynced, InSync, plan, team
  <2> QED BY <2>5, <2>6
<1> QED BY <1>7, <1>8, <1>9 DEF team

(* An attempt, and what is so after it.                                     *)
LEMMA AttemptHolds ==
  ASSUME NEW world \in Worlds, NEW spec \in Specs, NEW fails, NEW used \in BOOLEAN,
         NEW end, end = Attempt(world, spec, fails, used)
  PROVE  /\ end.world \in Worlds
         /\ Honest(world, spec, end)
         /\ AsAnnounced(world, spec, fails, end)
         /\ end.report.ok => Exists(end.world) /\ end.world.repo.branch = "overlay"
         /\ end.report.ok => ~Exists(world) \/ world.repo.branch = "none"
<1> DEFINE made == CreateRepository(world, spec, fails)
           push == PushOverlay(made.world, fails)
           rule == UpsertRuleset(push.world, spec, fails)
           team == SyncTeams(rule.world, spec, fails)
           can == Grantable(team.world, spec, fails)
<1>1. /\ made.world \in Worlds /\ made.world = [world EXCEPT !.repo = made.world.repo]
      /\ made.status = "failed" => made.world = world
      /\ made.status = "created" =>
           ~Exists(world) /\ made.world.repo.visibility \in {spec.visibility, "private"}
      /\ Exists(world) /\ made.status # "failed" => made.world = world
  BY RepositoryMade
<1> HIDE DEF made
<1>2. /\ push.world \in Worlds /\ push.world = [made.world EXCEPT !.repo = push.world.repo]
      /\ push.world.repo.visibility = made.world.repo.visibility
      /\ push.status # "failed" => made.world.repo.branch = "none" /\ push.world.repo.branch = "overlay"
  BY <1>1, OverlayPushed
<1> HIDE DEF push
<1>3. /\ rule.world \in Worlds /\ rule.world = [push.world EXCEPT !.rules = rule.world.rules]
      /\ push.world.rules => rule.world.rules
      /\ rule.world.rules => push.world.rules \/ spec.ruleset
      /\ rule.status \in {"applied", "updated"} => rule.world.rules
      /\ fails = {} /\ spec.ruleset => rule.world.rules
  BY <1>2, RulesetUpserted
<1> HIDE DEF rule
<1>4. TeamsSynced(rule.world, spec, fails, team)
  BY <1>3, SyncTeamsKeeps
<1> HIDE DEF team
<1>5. /\ can \in SUBSET Teams /\ can \subseteq Announced(spec).grant
      /\ \A t \in can : HasTeam(team.world, t)
  BY DEF Grantable, Specs, Announced, ToSet
<1> HIDE DEF can
<1>6. \/ end.world \in {world, made.world} /\ (end.world = world \/ push.status = "failed")
         /\ \E why \in {"exists on disk", "create", "push"} : end.report = NothingDone(why)
      \/ /\ made.status # "failed" /\ push.status # "failed"
         /\ end = [world |-> [team.world EXCEPT !.granted = @ \cup can],
                   report |-> [ok |-> TRUE, message |-> "pushed", create |-> made.status,
                               ruleset |-> rule.status, sync |-> team.status, grants |-> can]]
  BY Zenon DEF Attempt, made, push, rule, team, can
<1>7. CASE /\ end.world \in {world, made.world}
           /\ \E why \in {"exists on disk", "create", "push"} : end.report = NothingDone(why)
  <2>1. /\ end.report.ok = FALSE /\ end.report.create = "none" /\ end.report.ruleset = "none"
        /\ end.report.sync = [t \in Teams |-> "none"] /\ end.report.grants = {}
    <3>1. PICK why : end.report = NothingDone(why)
      BY <1>7
    <3> QED BY <3>1 DEF NothingDone
  <2>2. end.world \in Worlds /\ end.world = [world EXCEPT !.repo = end.world.repo]
    <3>1. world = [world EXCEPT !.repo = world.repo]
      BY DEF Worlds
    <3> QED BY <1>1, <1>7, <3>1
  <2>3. /\ end.world.members = world.members /\ end.world.granted = world.granted
        /\ end.world.rules = world.rules
    BY <2>2 DEF Worlds
  <2>4. Honest(world, spec, end)
    BY <2>1, <2>2, <2>3 DEF Honest
  <2>5. AsAnnounced(world, spec, fails, end)
    BY <2>1, <2>3 DEF AsAnnounced
  <2> QED BY <2>1, <2>2, <2>4, <2>5
<1>8. CASE /\ made.status # "failed" /\ push.status # "failed"
           /\ end = [world |-> [team.world EXCEPT !.granted = @ \cup can],
                     report |-> [ok |-> TRUE, message |-> "pushed", create |-> made.status,
                                 ruleset |-> rule.status, sync |-> team.status, grants |-> can]]
  <2> DEFINE new == [team.world EXCEPT !.granted = @ \cup can]
  <2>1. /\ end.world = new /\ end.report.ok = TRUE /\ end.report.create = made.status
        /\ end.report.ruleset = rule.status /\ end.report.sync = team.status /\ end.report.grants = can
    BY <1>8
  <2>2. /\ rule.world.members = world.members /\ rule.world.granted = world.granted
        /\ rule.world.org = world.org /\ rule.world.repo = push.world.repo
        /\ push.world.rules = world.rules
    BY <1>1, <1>2, <1>3 DEF Worlds
  <2>3. /\ Kept(rule.world, team.world, Announced(spec).sync) /\ team.world \in Worlds
        /\ team.world.org = world.org /\ team.world.rules = rule.world.rules
        /\ team.world.granted = world.granted /\ team.world.repo = push.world.repo
    <3>1. Kept(rule.world, team.world, Announced(spec).sync)
      BY <1>4 DEF TeamsSynced
    <3> QED BY <1>3, <2>2, <3>1, KeptFields DEF Kept
  <2>4. /\ new \in Worlds /\ new.members = team.world.members /\ new.org = world.org
        /\ new.rules = rule.world.rules /\ new.repo = push.world.repo
        /\ new.granted = world.granted \cup can
    BY <1>5, <2>3 DEF Worlds
  <2> HIDE DEF new
  <2>5. \A t \in DOMAIN world.members : t \in DOMAIN new.members /\ world.members[t] \subseteq new.members[t]
    BY <2>2, <2>3, <2>4 DEF Kept
  <2>6. \A t \in can : HasTeam(new, t) /\ t \in new.granted
    BY <1>5, <2>3, <2>4 DEF HasTeam
  <2>7. \A t \in Teams : team.status[t] \in {"created", "synced"} =>
          Listed(world.members[spec.source]) \subseteq new.members[t]
    BY <1>4, <2>2, <2>4 DEF TeamsSynced
  <2>8. made.status = "created" => ~Exists(world) /\ new.repo.visibility \in {spec.visibility, "private"}
    BY <1>1, <1>2, <2>4
  <2>9. new.repo.branch = "overlay"
    BY <1>2, <1>8, <2>4
  <2>10. Honest(world, spec, end)
    BY <1>3, <2>1, <2>4, <2>5, <2>6, <2>7, <2>8, <2>9 DEF Honest
  <2>11. \A t \in DOMAIN new.members \ Announced(spec).sync :
           t \in DOMAIN world.members /\ new.members[t] = world.members[t]
    BY <2>2, <2>3, <2>4 DEF Kept
  <2>12. fails = {} /\ world.org /\ spec.source \in DOMAIN world.members =>
           \A t \in Announced(spec).sync : team.status[t] \in {"created", "synced"}
    BY <1>4, <2>2 DEF TeamsSynced
  <2>13. Announced(spec).ruleset = spec.ruleset
    BY DEF Announced
  <2>14. AsAnnounced(world, spec, fails, end)
    BY <1>3, <1>5, <2>1, <2>2, <2>4, <2>11, <2>12, <2>13 DEF AsAnnounced
  <2>15. Exists(new)
    BY <2>9 DEF Exists, NoRepository
  <2>16. ~Exists(world) \/ world.repo.branch = "none"
    BY <1>1, <1>2, <1>8
  <2> QED BY <2>1, <2>4, <2>9, <2>10, <2>14, <2>15, <2>16
<1> QED BY <1>6, <1>7, <1>8

(* Whatever GitHub has and whichever calls fail, the report of an attempt to *)
(* provision a repository, and that of another one after it, says what is so *)
(* (publish_to_module_repository, sync_and_grant_teams): nobody loses a       *)
(* membership, no team is touched that was not announced, and an attempt      *)
(* after one that pushed does not get past its push.                         *)
THEOREM ProvisioningIsHonest == ReportsAreHonest
<1> SUFFICES ASSUME NEW world \in SomeWorlds, NEW values \in SomeForms, NEW fails \in SomeFailures,
                    NEW used \in BOOLEAN
             PROVE  LET spec   == BuildSpec(values)
                        first  == Attempt(world, spec, fails, FALSE)
                        second == Attempt(first.world, spec, {}, used)
                    IN /\ Honest(world, spec, first) /\ Honest(first.world, spec, second)
                       /\ AsAnnounced(world, spec, fails, first)
                       /\ first.report.ok => ~second.report.ok
  BY Zenon DEF ReportsAreHonest
<1> DEFINE spec   == BuildSpec(values)
           first  == Attempt(world, spec, fails, FALSE)
           second == Attempt(first.world, spec, {}, used)
<1>1. world \in Worlds /\ spec \in Specs
  BY BoundsAssumption, BuiltSpec
<1> HIDE DEF spec
<1>2. /\ first.world \in Worlds /\ Honest(world, spec, first) /\ AsAnnounced(world, spec, fails, first)
      /\ first.report.ok => Exists(first.world) /\ first.world.repo.branch = "overlay"
  BY <1>1, AttemptHolds
<1> HIDE DEF first
<1>3. /\ Honest(first.world, spec, second)
      /\ second.report.ok => ~Exists(first.world) \/ first.world.repo.branch = "none"
  BY <1>1, <1>2, AttemptHolds
<1> HIDE DEF second
<1>4. first.report.ok => ~second.report.ok
  BY <1>2, <1>3
<1> QED BY <1>2, <1>3, <1>4 DEF spec, first, second

(* A push that provisions a repository is reported as what it did, whatever  *)
(* GitHub has, whoever the people are and whichever calls fail.              *)
THEOREM PushesAreReported == Spec => []ProvisionedAsReported
<1>1. ProvisionedAsReported
  BY ProvisioningIsHonest DEF ProvisionedAsReported
<1> QED BY <1>1, PTL
=============================================================================
