--------------------------- MODULE RunQueueProofs ---------------------------
(***************************************************************************)
(* Proofs about RunQueue, for every number of replicas, workers, runs,     *)
(* attempts and process deaths.  In every deployment:                      *)
(*                                                                         *)
(*   TypeCorrect            every variable keeps its type                  *)
(*   RequestsUnique         a client_request_id names one run              *)
(*                                                                         *)
(* in the external one (`repave serve` enqueues, `repave run-worker`       *)
(* processes claim):                                                       *)
(*                                                                         *)
(*   ExternalSingleExecutor a run has at most one executor                 *)
(*   ExternalSuccessIsFinal no step takes a success back                   *)
(*   ExternalRefinement     the queue implements RunLifecycle              *)
(*   ExternalRetryBudget    MaxAttempts bounds how often a run executes    *)
(*                                                                         *)
(* and in others, each under what it needs:                                *)
(*                                                                         *)
(*   SuccessOutlivesReaders workers claim: only an earlier reader takes a  *)
(*                          success back                                   *)
(*   AttemptsAreLimited     workers claim, or nothing is reclaimed: what   *)
(*                          may still execute has attempts left            *)
(*   DrainSeesTheRest       one replica: what drain misses was put back    *)
(*   JobSingleExecutor      one Job per run: a run has one executor        *)
(***************************************************************************)
EXTENDS RunQueue, FiniteSetTheorems, TLAPS

(* A handler or worker that is about to touch a row names one. *)
NamedRuns ==
  /\ \A a \in Apis :
       api[a].pc \in {"dispatch", "dispatch_failed", "reset", "recover"} => api[a].run \in Runs
  /\ \A w \in Workers :
       worker[w].pc \notin {"idle", "end_refresh"} => worker[w].run \in Runs

Typed == TypeOK /\ NamedRuns
-----------------------------------------------------------------------------
(* The statements of RunStore keep the table of runs well typed. *)

LEMMA RunsFinite == ASSUME NEW S \in SUBSET Runs PROVE Cardinality(S) \in Nat
<1>1. 1 \in Int /\ MaxRuns \in Int
  BY StoreAssumption
<1>2. IsFiniteSet(Runs)
  BY <1>1, FS_Interval DEF Runs
<1>3. IsFiniteSet(S)
  BY <1>2, FS_Subset
<1> QED BY <1>3, FS_CardinalityType

LEMMA WrittenType ==
  ASSUME NEW row, row.request \in Requests \cup {NoRequest},
         NEW s \in Status, NEW n \in Nat, NEW d \in BOOLEAN
  PROVE  Written(row, s, n, d) \in Row
BY DEF Written, Row

LEMMA RowFields ==
  ASSUME StoreTypeOK, NEW r \in Runs
  PROVE  /\ rows[r].request \in Requests \cup {NoRequest}
         /\ rows[r].attempts \in Nat
         /\ rows[r].status \in Status
BY DEF StoreTypeOK, Row

LEMMA SetRowType ==
  ASSUME StoreTypeOK, NEW r \in Runs, NEW row \in Row, SetRow(r, row)
  PROVE  StoreTypeOK'
BY DEF StoreTypeOK, SetRow

LEMMA UpdateStatusType ==
  ASSUME StoreTypeOK, NEW r \in Runs, NEW s \in Status, UpdateStatus(r, s)
  PROVE  StoreTypeOK'
BY RowFields, WrittenType, SetRowType DEF UpdateStatus

LEMMA InsertRunType ==
  ASSUME StoreTypeOK, NEW r \in Runs, NEW q \in Requests \cup {NoRequest}, InsertRun(r, q)
  PROVE  StoreTypeOK'
<1>1. [request |-> q].request = q
  OBVIOUS
<1>2. Written([request |-> q], "queued", 0, TRUE) \in Row
  BY <1>1, WrittenType DEF Status
<1> QED BY <1>2, SetRowType DEF InsertRun

LEMMA ResetType ==
  ASSUME StoreTypeOK, NEW r \in Runs, ResetForReplay(r)
  PROVE  StoreTypeOK'
<1>1. Written(rows[r], "queued", 0, TRUE) \in Row
  BY RowFields, WrittenType DEF Status
<1> QED BY <1>1, SetRowType DEF ResetForReplay

LEMMA ScheduleRetryType ==
  ASSUME StoreTypeOK, NEW r \in Runs, NEW n \in Nat, ScheduleRetry(r, n)
  PROVE  StoreTypeOK'
<1>1. Written(rows[r], "queued", n, FALSE) \in Row
  BY RowFields, WrittenType DEF Status
<1> QED BY <1>1, SetRowType DEF ScheduleRetry

LEMMA ReclaimStaleRunsType ==
  ASSUME StoreTypeOK, NEW found \in [Runs -> Nat], ReclaimStaleRuns(found)
  PROVE  StoreTypeOK'
<1>1. ASSUME NEW r \in Runs PROVE Reclaimed(rows[r], found[r]) \in Row
  BY RowFields, WrittenType DEF Reclaimed, Status
<1> QED BY <1>1 DEF StoreTypeOK, ReclaimStaleRuns

LEMMA ScanType == ASSUME StoreTypeOK PROVE StaleScan \in [Runs -> Nat]
BY DEF StoreTypeOK, StaleScan, Row

LEMMA ClockType ==
  ASSUME StoreTypeOK, NEW r \in Runs, RetryFallsDue(r) \/ GrowsOld(r)
  PROVE  StoreTypeOK'
<1>1. [rows[r] EXCEPT !.due = TRUE] \in Row
  BY DEF StoreTypeOK, Row
<1>2. CASE RetryFallsDue(r)
  BY <1>1, <1>2, SetRowType DEF RetryFallsDue
<1>3. CASE GrowsOld(r)
  <2>1. [rows[r] EXCEPT !.age = @ + 1] \in Row
    BY <1>3 DEF StoreTypeOK, Row, GrowsOld
  <2> QED BY <1>3, <2>1, SetRowType DEF GrowsOld
<1> QED BY <1>2, <1>3

-----------------------------------------------------------------------------
(* The steps of a handler or worker keep the types. *)

LEMMA ReclaimEndsType ==
  ASSUME TypeOK, NEW p \in Processes, ReclaimEnds(p)
  PROVE  StoreTypeOK' /\ (scan \in [Processes -> [Runs -> Nat]])'
<1>1. scan[p] \in [Runs -> Nat]
  BY DEF TypeOK
<1>2. (scan \in [Processes -> [Runs -> Nat]])'
  BY DEF TypeOK, ReclaimEnds, NothingStale
<1>3. StoreTypeOK'
  <2>1. CASE UNCHANGED rows
    BY <2>1 DEF TypeOK, StoreTypeOK
  <2>2. CASE ReclaimStaleRuns(scan[p])
    BY <2>2, <1>1, ReclaimStaleRunsType DEF TypeOK
  <2>3. CASE ReclaimStaleRuns(StaleScan)
    BY <2>3, ScanType, ReclaimStaleRunsType DEF TypeOK
  <2> QED BY <2>1, <2>2, <2>3 DEF ReclaimEnds
<1> QED BY <1>2, <1>3

LEMMA ReclaimSelectsType ==
  ASSUME TypeOK, NEW p \in Processes, ReclaimSelects(p)
  PROVE  (scan \in [Processes -> [Runs -> Nat]])'
BY ScanType DEF TypeOK, ReclaimSelects

(* Replacing the state of one replica or one worker keeps the types. *)
LEMMA GoApiType ==
  ASSUME Typed, NEW a \in Apis, NEW pc \in ApiPc, NEW q \in Requests \cup {NoRequest},
         NEW r \in Runs \cup {0}, NEW n \in Nat,
         pc \in {"dispatch", "dispatch_failed", "reset", "recover"} => r \in Runs,
         GoApi(a, Handler(pc, q, r, n))
  PROVE  /\ (api \in [Apis -> ApiState])'
         /\ \A b \in Apis : api'[b].pc \in {"dispatch", "dispatch_failed", "reset", "recover"}
                             => api'[b].run \in Runs
<1>1. Handler(pc, q, r, n) \in ApiState
  BY DEF Handler, ApiState
<1>2. Handler(pc, q, r, n).pc = pc /\ Handler(pc, q, r, n).run = r
  BY DEF Handler
<1>3. /\ api \in [Apis -> ApiState]
      /\ api' = [api EXCEPT ![a] = Handler(pc, q, r, n)]
  BY DEF Typed, TypeOK, GoApi
<1>4. \A b \in Apis : api'[b] = IF b = a THEN Handler(pc, q, r, n) ELSE api[b]
  BY <1>3
<1> QED BY <1>1, <1>2, <1>3, <1>4 DEF Typed, NamedRuns

LEMMA GoWorkerType ==
  ASSUME Typed, NEW w \in Workers, NEW pc \in WorkerPc, NEW r \in Runs \cup {0}, NEW n \in Nat,
         pc \notin {"idle", "end_refresh"} => r \in Runs,
         GoWorker(w, Working(pc, r, n))
  PROVE  /\ (worker \in [Workers -> WorkerState])'
         /\ \A v \in Workers : worker'[v].pc \notin {"idle", "end_refresh"}
                                => worker'[v].run \in Runs
<1>1. Working(pc, r, n) \in WorkerState
  BY DEF Working, WorkerState
<1>2. Working(pc, r, n).pc = pc /\ Working(pc, r, n).run = r
  BY DEF Working
<1>3. /\ worker \in [Workers -> WorkerState]
      /\ worker' = [worker EXCEPT ![w] = Working(pc, r, n)]
  BY DEF Typed, TypeOK, GoWorker
<1>4. \A v \in Workers : worker'[v] = IF v = w THEN Working(pc, r, n) ELSE worker[v]
  BY <1>3
<1> QED BY <1>1, <1>2, <1>3, <1>4 DEF Typed, NamedRuns

LEMMA StepIsGo ==
  ASSUME Typed
  PROVE  /\ \A a \in Apis : \A pc \in ApiPc :
              StepApi(a, pc) = GoApi(a, Handler(pc, api[a].request, api[a].run, api[a].queued))
         /\ \A w \in Workers : \A pc \in WorkerPc :
              StepWorker(w, pc) = GoWorker(w, Working(pc, worker[w].run, worker[w].attempts))
<1>1. ASSUME NEW s \in ApiState, NEW pc
      PROVE [s EXCEPT !.pc = pc] = Handler(pc, s.request, s.run, s.queued)
  BY DEF ApiState, Handler
<1>2. ASSUME NEW s \in WorkerState, NEW pc
      PROVE [s EXCEPT !.pc = pc] = Working(pc, s.run, s.attempts)
  BY DEF WorkerState, Working
<1> QED BY <1>1, <1>2 DEF Typed, TypeOK, StepApi, StepWorker

LEMMA NextTaskType ==
  ASSUME Typed, NEW w \in Workers, NEW kind, NextTaskIs(w, kind)
  PROVE  /\ Head(pool[Home[w]]) \in Task
         /\ (pool \in [Apis -> Seq(Task)])'
<1>1. Home[w] \in Apis /\ pool \in [Apis -> Seq(Task)]
  BY QueueAssumption DEF Typed, TypeOK
<1>2. pool[Home[w]] \in Seq(Task) /\ pool[Home[w]] # << >>
  BY <1>1 DEF NextTaskIs
<1>3. Head(pool[Home[w]]) \in Task /\ Tail(pool[Home[w]]) \in Seq(Task)
  BY <1>2
<1> QED BY <1>1, <1>3 DEF NextTaskIs, Pop

LEMMA EnqueueType ==
  ASSUME Typed, NEW a \in Apis, NEW task \in Task, Enqueue(a, task)
  PROVE  (pool \in [Apis -> Seq(Task)])'
<1>1. pool \in [Apis -> Seq(Task)] /\ pool[a] \in Seq(Task)
  BY DEF Typed, TypeOK
<1>2. Append(pool[a], task) \in Seq(Task)
  BY <1>1
<1> QED BY <1>1, <1>2 DEF Enqueue

LEMMA EmitEventType ==
  ASSUME TypeOK, NEW r \in Runs, NEW kind \in {"published", "terminal"}, EmitEvent(r, kind)
  PROVE  (log \in [Runs -> SUBSET {"published", "terminal"}])'
BY DEF TypeOK, EmitEvent

LEMMA CountExecutionType ==
  ASSUME TypeOK, NEW r \in Runs, CountExecution(r)
  PROVE  (executions \in [Runs -> Nat])'
BY DEF TypeOK, CountExecution

LEMMA TypedInit == Init => Typed
<1> SUFFICES ASSUME Init PROVE Typed
  OBVIOUS
<1>1. NoRow \in Row
  BY DEF NoRow, Row, Status
<1>2. StoreTypeOK
  BY <1>1 DEF Init, InitStore, StoreTypeOK
<1>3. IdleApi \in ApiState /\ IdleWorker \in WorkerState
  BY DEF IdleApi, IdleWorker, Handler, Working, ApiState, WorkerState, ApiPc, WorkerPc
<1>4. << >> \in Seq(Task) /\ NothingStale \in [Runs -> Nat]
  BY DEF NothingStale
<1>5. TypeOK
  BY <1>2, <1>3, <1>4 DEF Init, TypeOK
<1>6. NamedRuns
  BY DEF Init, NamedRuns, IdleApi, IdleWorker, Handler, Working
<1> QED BY <1>5, <1>6 DEF Typed

LEMMA TypedApi ==
  ASSUME Typed, NEW a \in Apis, Request(a) \/ ApiStep(a)
  PROVE  Typed'
<1> USE DEF ApiPc, ApiAt
<1>0. /\ TypeOK /\ NamedRuns
      /\ api[a] \in ApiState
      /\ api[a].request \in Requests \cup {NoRequest}
      /\ api[a].run \in Runs \cup {0}
      /\ api[a].queued \in Nat
      /\ a \in Processes
  BY DEF Typed, TypeOK, ApiState, Processes
<1>1. ASSUME NEW q \in Requests \cup {NoRequest}, Submit(a, q) PROVE Typed'
  BY <1>0, <1>1, GoApiType DEF Submit, Typed, TypeOK, NamedRuns, StoreTypeOK
<1>2. ASSUME NEW r \in Runs, Replay(a, r) PROVE Typed'
  BY <1>0, <1>2, GoApiType DEF Replay, Typed, TypeOK, NamedRuns, StoreTypeOK
<1>3. ASSUME NEW r \in Runs, Recover(a, r) PROVE Typed'
  BY <1>0, <1>3, GoApiType DEF Recover, Typed, TypeOK, NamedRuns, StoreTypeOK
<1>4. CASE CountQueued(a)
  BY <1>0, <1>4, GoApiType, RunsFinite DEF CountQueued, InStatus, Typed, TypeOK, NamedRuns, StoreTypeOK
<1>5. CASE CountRunning(a)
  BY <1>0, <1>5, GoApiType DEF CountRunning, IdleApi, Typed, TypeOK, NamedRuns, StoreTypeOK
<1>6. CASE CreateRun(a)
  <2>1. PICK r \in Runs :
          /\ GoApi(a, Handler("dispatch", NoRequest, r, 0))
          /\ InsertRun(r, api[a].request) \/ UNCHANGED rows
    BY <1>6 DEF CreateRun
  <2>2. StoreTypeOK'
    BY <1>0, <2>1, InsertRunType DEF TypeOK, StoreTypeOK
  <2> QED BY <1>0, <1>6, <2>1, <2>2, GoApiType DEF CreateRun, Typed, TypeOK, NamedRuns
<1>7. CASE Dispatch(a)
  <2>1. api[a].run \in Runs
    BY <1>0, <1>7 DEF Dispatch, NamedRuns
  <2>2. GoApi(a, Handler("refresh", api[a].request, api[a].run, api[a].queued))
    BY <1>7, StepIsGo DEF Dispatch
  <2>3. (pool \in [Apis -> Seq(Task)])'
    <3>1. /\ [kind |-> "execute", run |-> api[a].run, attempts |-> 0] \in Task
          /\ [kind |-> "claim", run |-> 0, attempts |-> 0] \in Task
      BY <2>1 DEF Task
    <3> QED BY <1>0, <1>7, <3>1, EnqueueType DEF Dispatch, TypeOK
  <2>4. (job \in [Runs -> {"none", "pending", "started", "ended"}])'
    BY <1>0, <1>7, <2>1 DEF Dispatch, TypeOK
  <2> QED BY <1>0, <1>7, <2>2, <2>3, <2>4, GoApiType
          DEF Dispatch, Typed, TypeOK, NamedRuns, StoreTypeOK
<1>8. CASE JobRequestFails(a)
  <2>1. api[a].run \in Runs
    BY <1>0, <1>8 DEF JobRequestFails, NamedRuns
  <2>2. GoApi(a, Handler("dispatch_failed", api[a].request, api[a].run, api[a].queued))
    BY <1>8, StepIsGo DEF JobRequestFails
  <2>3. (job \in [Runs -> {"none", "pending", "started", "ended"}])'
    BY <1>0, <1>8, <2>1 DEF JobRequestFails, TypeOK
  <2> QED BY <1>0, <1>8, <2>1, <2>2, <2>3, GoApiType
          DEF JobRequestFails, Typed, TypeOK, NamedRuns, StoreTypeOK
<1>9. CASE DispatchFailed(a)
  <2>1. api[a].run \in Runs /\ "dead_letter" \in Status
    BY <1>0, <1>9 DEF DispatchFailed, NamedRuns, Status
  <2> QED BY <1>0, <1>9, <2>1, UpdateStatusType, EmitEventType, GoApiType
          DEF DispatchFailed, IdleApi, Typed, TypeOK, NamedRuns
<1>10. CASE ReplayReset(a)
  <2>1. api[a].run \in Runs
    BY <1>0, <1>10 DEF ReplayReset, NamedRuns
  <2>2. GoApi(a, Handler("dispatch", api[a].request, api[a].run, api[a].queued))
    BY <1>10, StepIsGo DEF ReplayReset
  <2>3. (executions \in [Runs -> Nat])'
    BY <1>0, <1>10 DEF ReplayReset, TypeOK
  <2> QED BY <1>0, <1>10, <2>1, <2>2, <2>3, ResetType, GoApiType
          DEF ReplayReset, Typed, TypeOK, NamedRuns
<1>11. CASE RecoverWrite(a)
  <2>1. api[a].run \in Runs /\ "succeeded" \in Status
    BY <1>0, <1>11 DEF RecoverWrite, NamedRuns, Status
  <2> QED BY <1>0, <1>11, <2>1, UpdateStatusType, EmitEventType, GoApiType
          DEF RecoverWrite, IdleApi, Typed, TypeOK, NamedRuns
<1>12. CASE ApiSelectsStale(a)
  BY <1>0, <1>12, ReclaimSelectsType DEF ApiSelectsStale, Typed, TypeOK, NamedRuns, StoreTypeOK
<1>13. CASE ApiRefreshed(a)
  BY <1>0, <1>13, ReclaimEndsType, GoApiType DEF ApiRefreshed, IdleApi, Typed, TypeOK, NamedRuns
<1>14. CASE DrainQueued(a)
  BY <1>0, <1>14, GoApiType, RunsFinite DEF DrainQueued, InStatus, Typed, TypeOK, NamedRuns, StoreTypeOK
<1>15. CASE DrainRunning(a)
  BY <1>0, <1>15, GoApiType DEF DrainRunning, Typed, TypeOK, NamedRuns, StoreTypeOK
<1>16. CASE Close(a)
  <2>1. GoApi(a, Handler("closing", api[a].request, api[a].run, api[a].queued))
    BY <1>16, StepIsGo DEF Close
  <2> QED BY <1>0, <1>16, <2>1, GoApiType DEF Close, Typed, TypeOK, NamedRuns, StoreTypeOK
<1>17. CASE Restart(a)
  BY <1>0, <1>17, GoApiType DEF Restart, AfterRestart, Typed, TypeOK, NamedRuns, StoreTypeOK
<1> QED
  BY <1>1, <1>2, <1>3, <1>4, <1>5, <1>6, <1>7, <1>8, <1>9, <1>10, <1>11, <1>12, <1>13,
     <1>14, <1>15, <1>16, <1>17
  DEF Request, ApiStep

LEMMA TypedClaim ==
  ASSUME Typed, NEW w \in Workers, Claim(w)
  PROVE  /\ StoreTypeOK'
         /\ (worker \in [Workers -> WorkerState])'
         /\ \A v \in Workers : worker'[v].pc \notin {"idle", "end_refresh"}
                                => worker'[v].run \in Runs
<1>1. CASE Eligible = {}
  BY <1>1 DEF Claim, Typed, TypeOK, NamedRuns, StoreTypeOK
<1>2. CASE Eligible # {}
  <2>1. PICK r \in Runs : UpdateStatus(r, "running") /\ GoWorker(w, Working("begin", r, 0))
    BY <1>2 DEF Claim, ClaimNextQueued, Eligible, InStatus
  <2>2. StoreTypeOK'
    BY <2>1, UpdateStatusType DEF Typed, TypeOK, Status
  <2> QED BY <2>1, <2>2, GoWorkerType DEF WorkerPc
<1> QED BY <1>1, <1>2

LEMMA TypedWorker ==
  ASSUME Typed, NEW w \in Workers, WorkerStep(w)
  PROVE  Typed'
<1> USE DEF WorkerPc, WorkerAt
<1>0. /\ TypeOK /\ NamedRuns
      /\ worker[w] \in WorkerState
      /\ worker[w].run \in Runs \cup {0}
      /\ worker[w].attempts \in Nat
      /\ worker[w].pc \notin {"idle", "end_refresh"} => worker[w].run \in Runs
      /\ w \in Processes
  BY DEF Typed, TypeOK, NamedRuns, WorkerState, Processes
<1>1. CASE TakeClaim(w)
  BY <1>0, <1>1, NextTaskType, TypedClaim DEF TakeClaim, Typed, TypeOK, NamedRuns
<1>2. CASE TakeExecute(w)
  <2>1. /\ (pool \in [Apis -> Seq(Task)])'
        /\ Head(pool[Home[w]]) \in Task
        /\ Head(pool[Home[w]]).kind = "execute"
    BY <1>2, NextTaskType DEF TakeExecute, NextTaskIs
  <2>2. Head(pool[Home[w]]).run \in Runs
    BY <2>1 DEF Task
  <2> QED BY <1>0, <1>2, <2>1, <2>2, GoWorkerType
          DEF TakeExecute, Typed, TypeOK, NamedRuns, StoreTypeOK
<1>3. CASE TakeRetry(w)
  <2>1. /\ (pool \in [Apis -> Seq(Task)])'
        /\ Head(pool[Home[w]]) \in Task
        /\ Head(pool[Home[w]]).kind = "retry"
    BY <1>3, NextTaskType DEF TakeRetry, NextTaskIs
  <2>2. Head(pool[Home[w]]).run \in Runs /\ Head(pool[Home[w]]).attempts \in Nat
    BY <2>1 DEF Task
  <2> QED BY <1>0, <1>3, <2>1, <2>2, GoWorkerType
          DEF TakeRetry, Typed, TypeOK, NamedRuns, StoreTypeOK
<1>4. CASE Poll(w)
  BY <1>0, <1>4, TypedClaim DEF Poll, Typed, TypeOK, NamedRuns
<1>5. CASE Wake(w)
  BY <1>0, <1>5, GoWorkerType DEF Wake, IdleWorker, Typed, TypeOK, NamedRuns, StoreTypeOK
<1>6. ASSUME NEW r \in Runs, StartPod(w, r) PROVE Typed'
  <2>1. StoreTypeOK'
    BY <1>0, <1>6, UpdateStatusType DEF StartPod, TypeOK, StoreTypeOK, Status
  <2>2. (job \in [Runs -> {"none", "pending", "started", "ended"}])'
    BY <1>0, <1>6 DEF StartPod, TypeOK
  <2> QED BY <1>0, <1>6, <2>1, <2>2, GoWorkerType DEF StartPod, Typed, TypeOK, NamedRuns
<1>7. CASE BeginClaimed(w)
  <2>1. worker[w].run \in Runs
    BY <1>0, <1>7 DEF BeginClaimed
  <2>2. (executions \in [Runs -> Nat])'
    BY <1>0, <1>7, <2>1, CountExecutionType DEF BeginClaimed, TypeOK
  <2>3. \/ GoWorker(w, Working("exec", worker[w].run, worker[w].attempts))
        \/ GoWorker(w, Working("end_refresh", worker[w].run, worker[w].attempts))
    BY <1>7, StepIsGo DEF BeginClaimed
  <2> QED BY <1>0, <1>7, <2>1, <2>2, <2>3, GoWorkerType
          DEF BeginClaimed, Typed, TypeOK, NamedRuns, StoreTypeOK
<1>8. CASE BeginUnclaimed(w)
  <2>1. worker[w].run \in Runs /\ "running" \in Status
    BY <1>0, <1>8 DEF BeginUnclaimed, Status
  <2>2. GoWorker(w, Working("start_refresh", worker[w].run, worker[w].attempts))
    BY <1>8, StepIsGo DEF BeginUnclaimed
  <2> QED BY <1>0, <1>8, <2>1, <2>2, GoWorkerType, UpdateStatusType, CountExecutionType
          DEF BeginUnclaimed, Typed, TypeOK, NamedRuns
<1>9. CASE Publish(w)
  <2>1. worker[w].run \in Runs
    BY <1>0, <1>9 DEF Publish
  <2> QED BY <1>0, <1>9, <2>1, EmitEventType DEF Publish, Typed, TypeOK, NamedRuns, StoreTypeOK
<1>10. CASE Succeed(w)
  <2>1. worker[w].run \in Runs /\ "succeeded" \in Status
    BY <1>0, <1>10 DEF Succeed, Status
  <2>2. GoWorker(w, Working("persist", worker[w].run, worker[w].attempts))
    BY <1>10, StepIsGo DEF Succeed
  <2> QED BY <1>0, <1>10, <2>1, <2>2, GoWorkerType, UpdateStatusType, EmitEventType
          DEF Succeed, Typed, TypeOK, NamedRuns
<1>11. CASE Persist(w)
  <2>1. worker[w].run \in Runs /\ "succeeded" \in Status
    BY <1>0, <1>11 DEF Persist, Status
  <2>2. GoWorker(w, Working("end_refresh", worker[w].run, worker[w].attempts))
    BY <1>11, StepIsGo DEF Persist
  <2>3. StoreTypeOK'
    BY <1>0, <1>11, <2>1, UpdateStatusType DEF Persist, TypeOK, StoreTypeOK
  <2> QED BY <1>0, <1>11, <2>1, <2>2, <2>3, GoWorkerType DEF Persist, Typed, TypeOK, NamedRuns
<1>12. CASE Fail(w)
  <2>1. worker[w].run \in Runs
    BY <1>0, <1>12 DEF Fail
  <2>2. rows[worker[w].run].attempts + 1 \in Nat
    BY <1>0, <2>1, RowFields DEF TypeOK
  <2>3. \/ GoWorker(w, Working("end_refresh", worker[w].run, worker[w].attempts))
        \/ GoWorker(w, Working("failed", worker[w].run, rows[worker[w].run].attempts + 1))
    BY <1>12, StepIsGo DEF Fail
  <2> QED BY <1>0, <1>12, <2>1, <2>2, <2>3, GoWorkerType
          DEF Fail, Typed, TypeOK, NamedRuns, StoreTypeOK
<1>13. CASE GiveUp(w)
  <2>1. worker[w].run \in Runs /\ "dead_letter" \in Status
    BY <1>0, <1>13 DEF GiveUp, Status
  <2> QED BY <1>0, <1>13, <2>1, GoWorkerType, UpdateStatusType, EmitEventType
          DEF GiveUp, Typed, TypeOK, NamedRuns
<1>14. CASE Retry(w)
  <2>1. worker[w].run \in Runs
    BY <1>0, <1>14 DEF Retry
  <2>2. [kind |-> "retry", run |-> worker[w].run, attempts |-> worker[w].attempts] \in Task
    BY <1>0, <2>1 DEF Task
  <2>3. (pool \in [Apis -> Seq(Task)])'
    BY <1>0, <1>14, <2>2, EnqueueType, QueueAssumption DEF Retry, TypeOK
  <2>4. StoreTypeOK'
    BY <1>0, <1>14, <2>1, ScheduleRetryType DEF Retry, TypeOK
  <2> QED BY <1>0, <1>14, <2>1, <2>3, <2>4, GoWorkerType DEF Retry, Typed, TypeOK, NamedRuns
<1>15. CASE WorkerSelectsStale(w)
  BY <1>0, <1>15, ReclaimSelectsType DEF WorkerSelectsStale, Typed, TypeOK, NamedRuns, StoreTypeOK
<1>16. CASE WorkerRefreshed(w)
  <2>1. StoreTypeOK' /\ (scan \in [Processes -> [Runs -> Nat]])'
    BY <1>0, <1>16, ReclaimEndsType DEF WorkerRefreshed
  <2>2. CASE WorkerAt(w, "start_refresh") /\ StepWorker(w, "exec") /\ UNCHANGED job
    <3>1. GoWorker(w, Working("exec", worker[w].run, worker[w].attempts))
      BY <2>2, StepIsGo
    <3> QED BY <1>0, <1>16, <2>1, <2>2, <3>1, GoWorkerType
            DEF WorkerRefreshed, Typed, TypeOK, NamedRuns
  <2>3. CASE WorkerAt(w, "end_refresh") /\ GoWorker(w, IdleWorker) /\ job' = Ended(worker[w].run)
    <3>1. (job \in [Runs -> {"none", "pending", "started", "ended"}])'
      BY <1>0, <2>3 DEF Ended, TypeOK
    <3> QED BY <1>0, <1>16, <2>1, <2>3, <3>1, GoWorkerType
            DEF WorkerRefreshed, IdleWorker, Typed, TypeOK, NamedRuns
  <2> QED BY <1>16, <2>2, <2>3 DEF WorkerRefreshed
<1> QED
  BY <1>1, <1>2, <1>3, <1>4, <1>5, <1>6, <1>7, <1>8, <1>9, <1>10, <1>11, <1>12, <1>13,
     <1>14, <1>15, <1>16
  DEF WorkerStep, TakeTask

LEMMA TypedCrash ==
  ASSUME Typed, Crash
  PROVE  Typed'
<1>0. TypeOK /\ NamedRuns
  BY DEF Typed
<1>1. ASSUME NEW a \in Apis, Terminate(a) PROVE Typed'
  <2>1. crashes' \in Nat
    BY <1>0, <1>1 DEF Terminate, TypeOK
  <2> QED BY <1>0, <1>1, <2>1, GoApiType
          DEF Terminate, ApiPc, Typed, TypeOK, NamedRuns, StoreTypeOK
<1>2. ASSUME NEW a \in Apis, CrashApi(a) PROVE Typed'
  <2>1. /\ IdleWorker \in WorkerState /\ IdleWorker.pc = "idle"
        /\ << >> \in Seq(Task) /\ NothingStale \in [Runs -> Nat]
    BY DEF IdleWorker, Working, WorkerState, WorkerPc, NothingStale
  <2>2. /\ (pool \in [Apis -> Seq(Task)])'
        /\ (worker \in [Workers -> WorkerState])'
        /\ (scan \in [Processes -> [Runs -> Nat]])'
        /\ crashes' \in Nat
    BY <1>0, <1>2, <2>1 DEF CrashApi, TypeOK
  <2>3. \A v \in Workers : worker'[v].pc \notin {"idle", "end_refresh"} => worker'[v].run \in Runs
    BY <1>0, <1>2, <2>1 DEF CrashApi, NamedRuns
  <2> QED BY <1>0, <1>2, <2>2, <2>3, GoApiType
          DEF CrashApi, AfterRestart, ApiPc, Typed, TypeOK, NamedRuns, StoreTypeOK
<1>3. ASSUME NEW w \in Workers, CrashWorker(w) PROVE Typed'
  <2>1. /\ (job \in [Runs -> {"none", "pending", "started", "ended"}])'
        /\ crashes' \in Nat
    <3>1. job' = Ended(worker[w].run) /\ crashes' = crashes + 1
      BY <1>3 DEF CrashWorker
    <3>2. job \in [Runs -> {"none", "pending", "started", "ended"}] /\ crashes \in Nat
      BY <1>0 DEF TypeOK
    <3>3. \A r : Ended(r) \in [Runs -> {"none", "pending", "started", "ended"}]
      BY <3>2 DEF Ended
    <3>4. crashes + 1 \in Nat
      BY <3>2
    <3> QED BY <3>1, <3>3, <3>4
  <2>2. (scan \in [Processes -> [Runs -> Nat]])'
    <3>1. NothingStale \in [Runs -> Nat]
      BY DEF NothingStale
    <3> QED BY <1>0, <1>3, <3>1 DEF CrashWorker, TypeOK
  <2>3. GoWorker(w, Working("end_refresh", 0, 0)) \/ GoWorker(w, Working("idle", 0, 0))
    BY <1>3 DEF CrashWorker, IdleWorker
  <2> QED BY <1>0, <1>3, <2>1, <2>2, <2>3, GoWorkerType
          DEF CrashWorker, WorkerPc, Typed, TypeOK, NamedRuns, StoreTypeOK
<1> QED BY <1>1, <1>2, <1>3 DEF Crash

LEMMA TypedTime ==
  ASSUME Typed, Time
  PROVE  Typed'
<1>1. ASSUME NEW r \in Runs, RetryDue(r) \/ Ages(r) PROVE Typed'
  BY <1>1, ClockType DEF RetryDue, Ages, qvars, Typed, TypeOK, NamedRuns
<1>2. ASSUME NEW r \in Runs, JobExpires(r) PROVE Typed'
  BY <1>2 DEF JobExpires, Typed, TypeOK, NamedRuns, StoreTypeOK
<1> QED BY <1>1, <1>2 DEF Time

LEMMA TypedStep == Typed /\ [Next]_vars => Typed'
<1> SUFFICES ASSUME Typed, [Next]_vars PROVE Typed'
  OBVIOUS
<1>1. CASE UNCHANGED vars
  BY <1>1 DEF vars, qvars, Typed, TypeOK, NamedRuns, StoreTypeOK
<1> QED BY <1>1, TypedApi, TypedWorker, TypedCrash, TypedTime DEF Next

(* Every reachable state is well typed, in every deployment: handlers and    *)
(* workers keep the shape of what they hold, and touch only rows they name.  *)
THEOREM TypeCorrect == Spec => []TypeOK
<1>1. Typed => TypeOK
  BY DEF Typed
<1> QED BY <1>1, TypedInit, TypedStep, PTL DEF Spec
-----------------------------------------------------------------------------
(* client_request_id: only CreateRun writes a request into a row.            *)

(* The strengthening: an id that is not used yet carries no request, so that  *)
(* the lookup, which skips such rows, sees every row that names a request.    *)
AbsentUnnamed == \A r \in Runs : rows[r].status = "absent" => rows[r].request = NoRequest

UniqueRequests == Typed /\ OneRunPerRequest /\ AbsentUnnamed

RequestsKept ==
  \A r \in Runs : /\ rows'[r].request = rows[r].request
                  /\ rows'[r].status = "absent" => rows[r].status = "absent"

LEMMA RewriteKeepsRequests ==
  ASSUME StoreTypeOK, NEW r \in Runs, NEW s \in Status \ {"absent"}, NEW n, NEW d,
         SetRow(r, Written(rows[r], s, n, d))
  PROVE  RequestsKept
BY DEF StoreTypeOK, SetRow, Written, RequestsKept

LEMMA StatementsKeepRequests ==
  ASSUME StoreTypeOK, NEW r \in Runs
  PROVE  /\ \A s \in Status \ {"absent"} : UpdateStatus(r, s) => RequestsKept
         /\ ResetForReplay(r) => RequestsKept
         /\ \A n : ScheduleRetry(r, n) => RequestsKept
         /\ ClaimNextQueued(r) => RequestsKept
<1>1. "queued" \in Status \ {"absent"} /\ "running" \in Status \ {"absent"}
  BY DEF Status
<1> QED
  BY <1>1, RewriteKeepsRequests DEF UpdateStatus, ResetForReplay, ScheduleRetry, ClaimNextQueued

LEMMA ReclaimKeepsRequests ==
  ASSUME StoreTypeOK, NEW found, ReclaimStaleRuns(found)
  PROVE  RequestsKept
BY DEF StoreTypeOK, ReclaimStaleRuns, Reclaimed, Written, RequestsKept

LEMMA ReclaimEndsKeepsRequests ==
  ASSUME StoreTypeOK, NEW p, ReclaimEnds(p)
  PROVE  RequestsKept
<1>1. UNCHANGED rows => RequestsKept
  BY DEF RequestsKept
<1> QED BY <1>1, ReclaimKeepsRequests DEF ReclaimEnds

LEMMA ClockKeepsRequests ==
  ASSUME StoreTypeOK, NEW r \in Runs, RetryFallsDue(r) \/ GrowsOld(r)
  PROVE  RequestsKept
<1>1. rows[r] \in Row
  BY DEF StoreTypeOK
<1>2. /\ \A d : /\ [rows[r] EXCEPT !.due = d].request = rows[r].request
                /\ [rows[r] EXCEPT !.due = d].status = rows[r].status
      /\ \A g : /\ [rows[r] EXCEPT !.age = g].request = rows[r].request
                /\ [rows[r] EXCEPT !.age = g].status = rows[r].status
  BY <1>1 DEF Row
<1>3. \A row : row.request = rows[r].request /\ row.status = rows[r].status /\ SetRow(r, row)
                => RequestsKept
  BY DEF StoreTypeOK, SetRow, RequestsKept
<1>4. CASE RetryFallsDue(r)
  BY <1>2, <1>3, <1>4 DEF RetryFallsDue
<1>5. CASE GrowsOld(r)
  <2>1. SetRow(r, [rows[r] EXCEPT !.age = rows[r].age + 1])
    BY <1>1, <1>5 DEF GrowsOld
  <2> QED BY <1>2, <1>3, <2>1
<1> QED BY <1>4, <1>5

LEMMA KeptIsUnique ==
  ASSUME OneRunPerRequest, AbsentUnnamed, RequestsKept
  PROVE  OneRunPerRequest' /\ AbsentUnnamed'
BY DEF OneRunPerRequest, AbsentUnnamed, RequestsKept

LEMMA UniqueStep == UniqueRequests /\ [Next]_vars => UniqueRequests'
<1> SUFFICES ASSUME UniqueRequests, [Next]_vars PROVE OneRunPerRequest' /\ AbsentUnnamed'
  BY TypedStep DEF UniqueRequests
<1>0. StoreTypeOK /\ TypeOK /\ NamedRuns /\ OneRunPerRequest /\ AbsentUnnamed
  BY DEF UniqueRequests, Typed, TypeOK
<1>1. UNCHANGED rows => RequestsKept
  BY DEF RequestsKept
<1>2. {"queued", "running", "succeeded", "dead_letter"} \subseteq Status \ {"absent"}
  BY DEF Status
<1>3. CASE UNCHANGED vars
  BY <1>0, <1>1, <1>3, KeptIsUnique DEF vars
<1>4. ASSUME NEW a \in Apis, CreateRun(a) PROVE OneRunPerRequest' /\ AbsentUnnamed'
  <2> DEFINE q == api[a].request
  <2>1. PICK r \in Runs : \/ WithRequest(q) = {} /\ InsertRun(r, q)
                          \/ UNCHANGED rows
    BY <1>4 DEF CreateRun
  <2>2. CASE UNCHANGED rows
    BY <1>0, <1>1, <2>2, KeptIsUnique
  <2>3. CASE WithRequest(q) = {} /\ InsertRun(r, q)
    <3>1. \A s \in Runs : rows[s].request # NoRequest => rows[s].request # q
      BY <1>0, <2>3 DEF WithRequest, InStatus, AbsentUnnamed
    <3>2. \A s \in Runs : IF s = r THEN rows'[s].request = q /\ rows'[s].status = "queued"
                                   ELSE rows'[s] = rows[s]
      BY <1>0, <2>3 DEF InsertRun, SetRow, Written, StoreTypeOK
    <3> QED BY <1>0, <3>1, <3>2 DEF OneRunPerRequest, AbsentUnnamed
  <2> QED BY <2>1, <2>2, <2>3
<1>5. ASSUME NEW a \in Apis, Request(a) \/ ApiStep(a), ~CreateRun(a) PROVE RequestsKept
  <2>1. \/ UNCHANGED rows
        \/ DispatchFailed(a)
        \/ ReplayReset(a)
        \/ RecoverWrite(a)
        \/ ApiRefreshed(a)
    BY <1>5 DEF Request, ApiStep, Submit, Replay, Recover, CountQueued, CountRunning, Dispatch,
                JobRequestFails, ApiSelectsStale, DrainQueued, DrainRunning, Close, Restart
  <2>2. DispatchFailed(a) \/ ReplayReset(a) \/ RecoverWrite(a) => api[a].run \in Runs
    BY <1>0 DEF NamedRuns, DispatchFailed, ReplayReset, RecoverWrite, ApiAt
  <2> QED BY <1>0, <1>1, <1>2, <2>1, <2>2, StatementsKeepRequests, ReclaimEndsKeepsRequests
          DEF DispatchFailed, ReplayReset, RecoverWrite, ApiRefreshed
<1>6. ASSUME NEW w \in Workers, WorkerStep(w) PROVE RequestsKept
  <2>1. CASE TakeClaim(w) \/ Poll(w)
    <3>1. UNCHANGED rows \/ \E r \in Runs : ClaimNextQueued(r)
      BY <2>1 DEF TakeClaim, Poll, Claim, Eligible, InStatus
    <3> QED BY <1>0, <1>1, <3>1, StatementsKeepRequests
  <2>2. ASSUME NEW r \in Runs, StartPod(w, r) PROVE RequestsKept
    BY <1>0, <1>1, <1>2, <2>2, StatementsKeepRequests DEF StartPod
  <2>3. CASE \/ BeginUnclaimed(w) \/ Succeed(w) \/ Persist(w) \/ GiveUp(w) \/ Retry(w)
    <3>1. worker[w].run \in Runs
      BY <1>0, <2>3 DEF NamedRuns, BeginUnclaimed, Succeed, Persist, GiveUp, Retry, WorkerAt
    <3> QED BY <1>0, <1>1, <1>2, <2>3, <3>1, StatementsKeepRequests
            DEF BeginUnclaimed, Succeed, Persist, GiveUp, Retry
  <2>4. CASE WorkerRefreshed(w)
    BY <1>0, <2>4, ReclaimEndsKeepsRequests DEF WorkerRefreshed
  <2>5. CASE \/ TakeExecute(w) \/ TakeRetry(w) \/ Wake(w) \/ BeginClaimed(w) \/ Publish(w)
             \/ Fail(w) \/ WorkerSelectsStale(w)
    BY <1>1, <2>5 DEF TakeExecute, TakeRetry, Wake, BeginClaimed, Publish, Fail, WorkerSelectsStale
  <2> QED BY <1>6, <2>1, <2>2, <2>3, <2>4, <2>5 DEF WorkerStep, TakeTask
<1>7. CASE Crash
  BY <1>0, <1>1, <1>7, KeptIsUnique DEF Crash, Terminate, CrashApi, CrashWorker
<1>8. CASE Time
  BY <1>0, <1>1, <1>8, ClockKeepsRequests, KeptIsUnique DEF Time, RetryDue, Ages, JobExpires
<1> QED BY <1>0, <1>3, <1>4, <1>5, <1>6, <1>7, <1>8, KeptIsUnique DEF Next

(* Whatever the deployment, however many replicas race on one request id:    *)
(* it never names two runs.                                                  *)
THEOREM RequestsUnique == Spec => []OneRunPerRequest
<1>1. Init => UniqueRequests
  <2>1. Init => OneRunPerRequest /\ AbsentUnnamed
    BY DEF Init, InitStore, NoRow, OneRunPerRequest, AbsentUnnamed
  <2> QED BY <2>1, TypedInit DEF UniqueRequests
<1>2. UniqueRequests => OneRunPerRequest
  BY DEF UniqueRequests
<1> QED BY <1>1, <1>2, UniqueStep, PTL DEF Spec
-----------------------------------------------------------------------------
(* The external deployment *)

(* What the argument needs of the deployment.  Each part is necessary: the  *)
(* stale-run reclaim, the recovery of a stalled dry run and a second        *)
(* replaying replica all write rows on the strength of an earlier read.     *)
ExternalDeployment ==
  /\ Mode = "external"
  /\ ~Reclaims
  /\ DryRuns = {}
  /\ \A a, b \in Replayers : a = b
-----------------------------------------------------------------------------
(* The inductive invariant. *)

(* Nothing of the other deployments ever happens. *)
Quiet ==
  /\ \A w \in Workers : worker[w].pc \notin {"sleep", "start_refresh"}
  /\ \A a \in Apis : /\ api[a].pc \notin {"dispatch_failed", "recover"}
                     /\ pool[a] = << >>
  /\ \A p \in Processes : scan[p] = NothingStale
  /\ \A r \in Runs : job[r] = "none"

(* From its claim to its last write a worker holds the run. *)
Holds(w, r) == worker[w].run = r /\ worker[w].pc \in {"begin", "exec", "failed", "persist"}

(* What a holder read, or wrote, still stands. *)
HolderKnows ==
  \A w \in Workers : \A r \in Runs :
    Holds(w, r) =>
      /\ rows[r].status = (IF worker[w].pc = "persist" THEN "succeeded" ELSE "running")
      /\ worker[w].pc = "failed" => worker[w].attempts = rows[r].attempts + 1

OneHolder == \A v, w \in Workers : \A r \in Runs : Holds(v, r) /\ Holds(w, r) => v = w

(* So does what the replaying handler read. *)
ReplayerKnows ==
  \A a \in Apis : ApiAt(a, "reset") => a \in Replayers /\ rows[api[a].run].status = "dead_letter"

(* No step writes "failed", and an id not used yet has no attempts. *)
StatusesUsed ==
  \A r \in Runs : /\ rows[r].status # "failed"
                  /\ rows[r].status = "absent" => rows[r].attempts = 0

Ownership == HolderKnows /\ OneHolder /\ ReplayerKnows /\ StatusesUsed /\ AttemptsLeft

OwnerInv == Typed /\ Quiet /\ Ownership
-----------------------------------------------------------------------------
(* The actions that remain, by what they change. *)

LEMMA ApiAfter ==
  ASSUME Typed, NEW a \in Apis, NEW s, GoApi(a, s)
  PROVE  \A b \in Apis : api'[b] = IF b = a THEN s ELSE api[b]
BY DEF Typed, TypeOK, GoApi

LEMMA WorkerAfter ==
  ASSUME Typed, NEW w \in Workers, NEW s, GoWorker(w, s)
  PROVE  \A v \in Workers : worker'[v] = IF v = w THEN s ELSE worker[v]
BY DEF Typed, TypeOK, GoWorker

LEMMA RowAfter ==
  ASSUME Typed, NEW r \in Runs, NEW row, SetRow(r, row)
  PROVE  \A t \in Runs : rows'[t] = IF t = r THEN row ELSE rows[t]
BY DEF Typed, TypeOK, StoreTypeOK, SetRow

(* Handlers of a replica that move nothing but the replica. *)
ApiOnly(a) ==
  /\ UNCHANGED <<rows, worker, pool, scan, job>>
  /\ \A b \in Apis \ {a} : api'[b] = api[b]
  /\ api'[a].pc \notin {"dispatch_failed", "recover", "reset"}

LEMMA ExternalApi ==
  ASSUME ExternalDeployment, OwnerInv, NEW a \in Apis, Request(a) \/ ApiStep(a)
  PROVE  \/ ApiOnly(a)
         \/ CreateRun(a)
         \/ \E r \in Runs : Replay(a, r)
         \/ ReplayReset(a)
<1> USE ApiAfter DEF OwnerInv, ApiAt
<1>0. Mode = "external" /\ Typed /\ ~StaleFound
  BY DEF ExternalDeployment, StaleFound
<1>1. \A pc : StepApi(a, pc) => /\ \A b \in Apis \ {a} : api'[b] = api[b]
                                /\ api'[a].pc = pc
  BY DEF StepApi, Typed, TypeOK, ApiState, GoApi
<1>2. ASSUME NEW q, Submit(a, q) PROVE ApiOnly(a)
  BY <1>0, <1>2 DEF Submit, ApiOnly, Handler
<1>3. CountQueued(a) \/ CountRunning(a) \/ DrainQueued(a) \/ DrainRunning(a) \/ Restart(a)
        => ApiOnly(a)
  BY <1>0 DEF CountQueued, CountRunning, DrainQueued, DrainRunning, Restart, AfterRestart, IdleApi,
              ApiOnly, Handler
<1>4. Dispatch(a) \/ Close(a) => ApiOnly(a)
  BY <1>0, <1>1 DEF Dispatch, Close, ApiOnly
<1>5. ApiRefreshed(a) => ApiOnly(a)
  <2>1. a \in Processes /\ scan[a] = NothingStale /\ scan \in [Processes -> [Runs -> Nat]]
    BY DEF Quiet, Processes, Typed, TypeOK
  <2>2. ReclaimEnds(a) => UNCHANGED <<rows, scan>>
    BY <1>0, <2>1 DEF ReclaimEnds
  <2> QED BY <1>0, <2>2 DEF ApiRefreshed, IdleApi, ApiOnly, Handler
<1>6. ~JobRequestFails(a) /\ ~ApiSelectsStale(a)
  BY <1>0 DEF JobRequestFails, ApiSelectsStale, ReclaimSelects
<1>7. ~DispatchFailed(a) /\ ~RecoverWrite(a)
  BY DEF DispatchFailed, RecoverWrite, Quiet
<1>8. \A r : ~Recover(a, r)
  BY DEF ExternalDeployment, Recover
<1> QED BY <1>2, <1>3, <1>4, <1>5, <1>6, <1>7, <1>8 DEF Request, ApiStep

(* A worker's step leaves the rest alone, and either takes the oldest       *)
(* eligible run or goes on with the run it holds.                           *)
WorkerOnly == UNCHANGED <<api, pool, scan, job>>

Claims(w, r) ==
  /\ WorkerAt(w, "idle")
  /\ ClaimNextQueued(r)
  /\ GoWorker(w, Working("begin", r, 0))

Leaves(w) ==
  /\ UNCHANGED rows
  /\ \A v \in Workers \ {w} : worker'[v] = worker[v]
  /\ worker'[w].pc \in {"idle", "end_refresh"}

LEMMA ExternalWorker ==
  ASSUME ExternalDeployment, OwnerInv, NEW w \in Workers, WorkerStep(w)
  PROVE  /\ WorkerOnly
         /\ \/ \E r \in Runs : Claims(w, r)
            \/ BeginClaimed(w) \/ Succeed(w) \/ Persist(w) \/ Fail(w) \/ GiveUp(w) \/ Retry(w)
            \/ Leaves(w)
<1> USE WorkerAfter DEF OwnerInv, WorkerAt, WorkerOnly
<1>0. /\ Mode = "external" /\ Typed /\ ~StaleFound
      /\ Home[w] \in Apis
  BY QueueAssumption DEF ExternalDeployment, StaleFound
<1>1. ~TakeClaim(w) /\ ~TakeExecute(w) /\ ~TakeRetry(w)
  BY <1>0 DEF TakeClaim, TakeExecute, TakeRetry, NextTaskIs, Quiet
<1>2. ~Wake(w) /\ ~WorkerSelectsStale(w)
  BY <1>0 DEF Wake, WorkerSelectsStale, ReclaimSelects, Quiet
<1>3. \A r \in Runs : ~StartPod(w, r)
  BY DEF StartPod, Quiet
<1>4. ~BeginUnclaimed(w)
  BY <1>0 DEF BeginUnclaimed, ClaimWorkers
<1>5. ~Publish(w)
  BY DEF Publish, ExternalDeployment
<1>6. ASSUME Poll(w) PROVE WorkerOnly /\ \E r \in Runs : Claims(w, r)
  BY <1>6 DEF Poll, Claim, Claims, Eligible, InStatus
<1>7. BeginClaimed(w) \/ Succeed(w) \/ Persist(w) \/ Fail(w) \/ GiveUp(w) => WorkerOnly
  BY DEF BeginClaimed, Succeed, Persist, Fail, GiveUp
<1>8. Retry(w) => WorkerOnly
  BY <1>0 DEF Retry, Pooled
<1>9. ASSUME WorkerRefreshed(w) PROVE WorkerOnly /\ Leaves(w)
  <2>1. /\ w \in Processes /\ scan[w] = NothingStale /\ scan \in [Processes -> [Runs -> Nat]]
        /\ worker[w].pc # "start_refresh"
    BY DEF Quiet, Processes, Typed, TypeOK
  <2>2. UNCHANGED <<rows, scan>>
    BY <1>0, <1>9, <2>1 DEF WorkerRefreshed, ReclaimEnds
  <2>3. UNCHANGED <<job, api, pool>> /\ GoWorker(w, IdleWorker)
    BY <1>0, <1>9, <2>1 DEF WorkerRefreshed, Ended
  <2> QED BY <1>0, <2>2, <2>3 DEF Leaves, IdleWorker, Working
<1> QED BY <1>1, <1>2, <1>3, <1>4, <1>5, <1>6, <1>7, <1>8, <1>9 DEF WorkerStep, TakeTask

(* A death or a shutdown drops what the process holds, and no row. *)
LEMMA ExternalCrash ==
  ASSUME ExternalDeployment, OwnerInv, Crash
  PROVE  \/ \E a \in Apis : ApiOnly(a)
         \/ WorkerOnly /\ \E w \in Workers : Leaves(w)
<1> USE ApiAfter, WorkerAfter DEF OwnerInv
<1>0. /\ Mode = "external" /\ Typed
      /\ scan \in [Processes -> [Runs -> Nat]] /\ pool \in [Apis -> Seq(Task)]
      /\ worker \in [Workers -> WorkerState]
      /\ \A p \in Processes : scan[p] = NothingStale
      /\ \A a \in Apis : pool[a] = << >>
  BY DEF ExternalDeployment, Typed, TypeOK, Quiet
<1>1. ASSUME NEW a \in Apis, Terminate(a) PROVE ApiOnly(a)
  BY <1>0, <1>1 DEF Terminate, ApiOnly, Handler
<1>2. ASSUME NEW a \in Apis, CrashApi(a) PROVE ApiOnly(a)
  <2>1. Threads(a) = {}
    BY <1>0 DEF Threads, Pooled
  <2>2. UNCHANGED <<rows, job, worker>>
    BY <1>0, <1>2, <2>1 DEF CrashApi
  <2>3. UNCHANGED scan
    BY <1>0, <1>2, <2>1 DEF CrashApi
  <2>4. UNCHANGED pool
    BY <1>0, <1>2 DEF CrashApi
  <2> QED BY <1>0, <1>2, <2>2, <2>3, <2>4 DEF CrashApi, AfterRestart, ApiOnly, Handler
<1>3. ASSUME NEW w \in Workers, CrashWorker(w) PROVE WorkerOnly /\ Leaves(w)
  <2>1. UNCHANGED scan
    BY <1>0, <1>3 DEF CrashWorker, Processes
  <2>2. UNCHANGED <<api, pool, job, rows>>
    BY <1>0, <1>3 DEF CrashWorker, Ended
  <2> QED BY <1>0, <1>3, <2>1, <2>2 DEF CrashWorker, WorkerOnly, Leaves, Working
<1> QED BY <1>1, <1>2, <1>3 DEF Crash

LEMMA ExternalTime ==
  ASSUME ExternalDeployment, OwnerInv, Time
  PROVE  \E r \in Runs : RetryDue(r)
<1>1. \A r \in Runs : ~Ages(r) /\ ~JobExpires(r)
  BY DEF ExternalDeployment, OwnerInv, Quiet, Ages, JobExpires
<1> QED BY <1>1 DEF Time
-----------------------------------------------------------------------------
(* The invariant holds initially and is kept. *)

LEMMA OwnerInit == Init => OwnerInv
<1> SUFFICES ASSUME Init PROVE Quiet /\ Ownership
  BY TypedInit DEF OwnerInv
<1>1. \A r \in Runs : rows[r] = NoRow
  BY DEF Init, InitStore
<1>2. StatusesUsed /\ AttemptsLeft
  BY <1>1 DEF StatusesUsed, AttemptsLeft, InFlight, InStatus, NoRow
<1>3. /\ \A w \in Workers : worker[w].pc = "idle"
      /\ \A a \in Apis : api[a].pc = "idle"
  BY DEF Init, IdleApi, IdleWorker, Handler, Working
<1>4. Quiet
  BY <1>3 DEF Init, Quiet
<1>5. HolderKnows /\ OneHolder /\ ReplayerKnows
  BY <1>3 DEF HolderKnows, OneHolder, ReplayerKnows, Holds, ApiAt
<1> QED BY <1>2, <1>4, <1>5 DEF Ownership

LEMMA OwnerApi ==
  ASSUME ExternalDeployment, OwnerInv, NEW a \in Apis, ApiOnly(a)
  PROVE  Quiet' /\ Ownership'
<1>1. Quiet'
  BY DEF OwnerInv, Quiet, ApiOnly
<1>2. HolderKnows' /\ OneHolder' /\ StatusesUsed' /\ AttemptsLeft'
  BY DEF OwnerInv, Ownership, ApiOnly, HolderKnows, OneHolder, Holds, StatusesUsed, AttemptsLeft,
         InFlight, InStatus
<1>3. ReplayerKnows'
  BY DEF OwnerInv, Ownership, ApiOnly, ReplayerKnows, ApiAt
<1> QED BY <1>1, <1>2, <1>3 DEF Ownership

(* A new row belongs to nobody. *)
LEMMA OwnerCreate ==
  ASSUME ExternalDeployment, OwnerInv, NEW a \in Apis, CreateRun(a)
  PROVE  Quiet' /\ Ownership'
<1>1. PICK r \in Runs : /\ GoApi(a, Handler("dispatch", NoRequest, r, 0))
                        /\ InsertRun(r, api[a].request) \/ UNCHANGED rows
  BY DEF CreateRun
<1>2. /\ UNCHANGED <<worker, pool, scan, job>>
      /\ \A b \in Apis \ {a} : api'[b] = api[b]
      /\ api'[a].pc = "dispatch"
  BY <1>1, ApiAfter DEF OwnerInv, CreateRun, Handler
<1>3. Quiet'
  BY <1>2 DEF OwnerInv, Quiet
<1>4. CASE UNCHANGED rows
  <2>1. ApiOnly(a)
    BY <1>2, <1>4 DEF ApiOnly
  <2> QED BY <2>1, OwnerApi
<1>5. CASE InsertRun(r, api[a].request)
  <2>1. /\ rows[r].status = "absent"
        /\ rows'[r].status = "queued" /\ rows'[r].attempts = 0
        /\ \A t \in Runs \ {r} : rows'[t] = rows[t]
    BY <1>5, RowAfter DEF OwnerInv, InsertRun, InStatus, Written
  <2>2. HolderKnows' /\ OneHolder'
    BY <1>2, <2>1 DEF OwnerInv, Ownership, HolderKnows, OneHolder, Holds
  <2>3. ReplayerKnows'
    BY <1>2, <2>1 DEF OwnerInv, Typed, NamedRuns, Ownership, ReplayerKnows, ApiAt
  <2>4. StatusesUsed' /\ AttemptsLeft'
    BY <2>1, StoreAssumption
    DEF OwnerInv, Ownership, StatusesUsed, AttemptsLeft, InFlight, InStatus
  <2> QED BY <1>3, <2>2, <2>3, <2>4 DEF Ownership
<1> QED BY <1>1, <1>4, <1>5

(* The status check of a replay, which the single replayer can rely on... *)
LEMMA OwnerReplay ==
  ASSUME ExternalDeployment, OwnerInv, NEW a \in Apis, NEW r \in Runs, Replay(a, r)
  PROVE  Quiet' /\ Ownership'
<1>1. /\ UNCHANGED <<rows, worker, pool, scan, job>>
      /\ \A b \in Apis \ {a} : api'[b] = api[b]
      /\ api'[a].pc = "reset" /\ api'[a].run = r
  BY ApiAfter DEF OwnerInv, Replay, Handler
<1>2. a \in Replayers /\ rows[r].status = "dead_letter"
  BY DEF OwnerInv, Ownership, StatusesUsed, Replay
<1>3. Quiet'
  BY <1>1 DEF OwnerInv, Quiet
<1>4. HolderKnows' /\ OneHolder' /\ StatusesUsed' /\ AttemptsLeft'
  BY <1>1 DEF OwnerInv, Ownership, HolderKnows, OneHolder, Holds, StatusesUsed, AttemptsLeft,
              InFlight, InStatus
<1>5. ReplayerKnows'
  BY <1>1, <1>2 DEF OwnerInv, Ownership, ReplayerKnows, ApiAt
<1> QED BY <1>3, <1>4, <1>5 DEF Ownership

(* ...when it resets the row. *)
LEMMA OwnerReset ==
  ASSUME ExternalDeployment, OwnerInv, NEW a \in Apis, ReplayReset(a)
  PROVE  Quiet' /\ Ownership'
<1> DEFINE r == api[a].run
<1>1. /\ r \in Runs /\ a \in Replayers /\ rows[r].status = "dead_letter"
      /\ rows'[r].status = "queued" /\ rows'[r].attempts = 0
      /\ \A t \in Runs \ {r} : rows'[t] = rows[t]
  BY RowAfter DEF OwnerInv, Typed, NamedRuns, Ownership, ReplayerKnows, ReplayReset, ApiAt,
                  ResetForReplay, Written
<1>2. /\ UNCHANGED <<worker, pool, scan, job>>
      /\ \A b \in Apis \ {a} : api'[b] = api[b]
      /\ api'[a].pc = "dispatch"
  BY ApiAfter DEF OwnerInv, Typed, TypeOK, ApiState, ReplayReset, StepApi, GoApi
<1>3. Quiet'
  BY <1>2 DEF OwnerInv, Quiet
<1>4. HolderKnows' /\ OneHolder'
  BY <1>1, <1>2 DEF OwnerInv, Ownership, HolderKnows, OneHolder, Holds
<1>5. ReplayerKnows'
  BY <1>1, <1>2 DEF OwnerInv, Ownership, ReplayerKnows, ExternalDeployment, ApiAt
<1>6. StatusesUsed' /\ AttemptsLeft'
  BY <1>1, StoreAssumption
  DEF OwnerInv, Ownership, StatusesUsed, AttemptsLeft, InFlight, InStatus
<1> QED BY <1>3, <1>4, <1>5, <1>6 DEF Ownership

(* A claim finds the row queued, so nobody holds it. *)
LEMMA OwnerClaim ==
  ASSUME ExternalDeployment, OwnerInv, NEW w \in Workers, WorkerOnly,
         NEW r \in Runs, Claims(w, r)
  PROVE  Quiet' /\ Ownership'
<1>1. /\ rows[r].status = "queued"
      /\ rows'[r].status = "running" /\ rows'[r].attempts = rows[r].attempts
      /\ \A t \in Runs \ {r} : rows'[t] = rows[t]
  BY RowAfter DEF OwnerInv, Claims, ClaimNextQueued, Eligible, InStatus, UpdateStatus, Written
<1>2. /\ worker'[w] = Working("begin", r, 0)
      /\ \A v \in Workers \ {w} : worker'[v] = worker[v]
  BY WorkerAfter DEF OwnerInv, Claims
<1>3. worker'[w].pc = "begin" /\ worker'[w].run = r
  BY <1>2 DEF Working
<1>4. Quiet'
  BY <1>2, <1>3 DEF OwnerInv, Quiet, WorkerOnly
<1>5. HolderKnows' /\ OneHolder'
  BY <1>1, <1>2, <1>3 DEF OwnerInv, Ownership, HolderKnows, OneHolder, Holds
<1>6. ReplayerKnows'
  BY <1>1 DEF OwnerInv, Typed, NamedRuns, Ownership, ReplayerKnows, ApiAt, WorkerOnly
<1>7. StatusesUsed' /\ AttemptsLeft'
  BY <1>1 DEF OwnerInv, Ownership, StatusesUsed, AttemptsLeft, InFlight, InStatus
<1> QED BY <1>4, <1>5, <1>6, <1>7 DEF Ownership

LEMMA OwnerLeaves ==
  ASSUME ExternalDeployment, OwnerInv, NEW w \in Workers, WorkerOnly, Leaves(w)
  PROVE  Quiet' /\ Ownership'
<1>1. Quiet'
  BY DEF OwnerInv, Quiet, WorkerOnly, Leaves
<1>2. HolderKnows' /\ OneHolder'
  BY DEF OwnerInv, Ownership, HolderKnows, OneHolder, Holds, Leaves
<1>3. ReplayerKnows' /\ StatusesUsed' /\ AttemptsLeft'
  BY DEF OwnerInv, Ownership, ReplayerKnows, StatusesUsed, AttemptsLeft, InFlight, InStatus, ApiAt,
         WorkerOnly, Leaves
<1> QED BY <1>1, <1>2, <1>3 DEF Ownership

(* The holder of r goes on with it, and writes no row but r's. *)
Continues(w, r, pc, attempts) ==
  /\ Holds(w, r)
  /\ worker'[w].pc = pc /\ worker'[w].run = r /\ worker'[w].attempts = attempts
  /\ \A v \in Workers \ {w} : worker'[v] = worker[v]
  /\ \A t \in Runs \ {r} : rows'[t] = rows[t]

LEMMA OwnerContinues ==
  ASSUME ExternalDeployment, OwnerInv, WorkerOnly, NEW w \in Workers, NEW r \in Runs,
         NEW pc \in {"exec", "failed", "persist", "end_refresh"}, NEW attempts,
         Continues(w, r, pc, attempts),
         rows'[r].status \in {"queued", "running", "succeeded", "dead_letter"},
         pc \in {"exec", "failed"} => rows'[r].status = "running",
         pc = "persist" => rows'[r].status = "succeeded",
         pc = "failed" => attempts = rows'[r].attempts + 1,
         rows'[r].status \in {"queued", "running"} => rows'[r].attempts < MaxAttempts
  PROVE  Quiet' /\ Ownership'
<1>1. rows[r].status \in {"running", "succeeded"}
  BY DEF OwnerInv, Ownership, HolderKnows, Continues
<1>2. \A v \in Workers \ {w} : ~Holds(v, r)
  BY DEF OwnerInv, Ownership, OneHolder, Continues
<1>3. Quiet'
  BY DEF OwnerInv, Quiet, WorkerOnly, Continues
<1>4. HolderKnows'
  BY <1>2 DEF OwnerInv, Ownership, HolderKnows, Holds, Continues
<1>5. OneHolder'
  BY <1>2 DEF OwnerInv, Ownership, OneHolder, Holds, Continues
<1>6. ReplayerKnows'
  BY <1>1 DEF OwnerInv, Typed, NamedRuns, Ownership, ReplayerKnows, ApiAt, WorkerOnly, Continues
<1>7. StatusesUsed' /\ AttemptsLeft'
  BY DEF OwnerInv, Ownership, StatusesUsed, AttemptsLeft, InFlight, InStatus, Continues
<1> QED BY <1>3, <1>4, <1>5, <1>6, <1>7 DEF Ownership

(* What each continuing action does to its row. *)
LEMMA HolderStep ==
  ASSUME ExternalDeployment, OwnerInv, NEW w \in Workers
  PROVE  LET r == worker[w].run IN
         /\ BeginClaimed(w) =>
              /\ r \in Runs /\ UNCHANGED rows /\ rows[r].status = "running"
              /\ Continues(w, r, "exec", worker[w].attempts)
         /\ Succeed(w) =>
              /\ r \in Runs /\ rows[r].status = "running"
              /\ rows'[r].status = "succeeded" /\ rows'[r].attempts = rows[r].attempts
              /\ Continues(w, r, "persist", worker[w].attempts)
         /\ Persist(w) =>
              /\ r \in Runs /\ rows[r].status = "succeeded"
              /\ rows'[r].status = "succeeded" /\ rows'[r].attempts = rows[r].attempts
              /\ Continues(w, r, "end_refresh", worker[w].attempts)
         /\ Fail(w) =>
              /\ r \in Runs /\ UNCHANGED rows /\ rows[r].status = "running"
              /\ Continues(w, r, "failed", rows[r].attempts + 1)
         /\ GiveUp(w) =>
              /\ r \in Runs /\ rows[r].status = "running" /\ rows[r].attempts + 1 >= MaxAttempts
              /\ rows'[r].status = "dead_letter" /\ rows'[r].attempts = rows[r].attempts
              /\ Continues(w, r, "end_refresh", 0)
         /\ Retry(w) =>
              /\ r \in Runs /\ rows[r].status = "running" /\ rows[r].attempts + 1 < MaxAttempts
              /\ rows'[r].status = "queued" /\ rows'[r].attempts = rows[r].attempts + 1
              /\ Continues(w, r, "end_refresh", 0)
<1> DEFINE r == worker[w].run
<1> USE RowAfter, WorkerAfter DEF OwnerInv, WorkerAt, Written
<1>0. Typed /\ HolderKnows
  BY DEF Ownership
<1>1. \A pc : StepWorker(w, pc) => /\ \A v \in Workers \ {w} : worker'[v] = worker[v]
                                   /\ worker'[w].pc = pc
                                   /\ worker'[w].run = r
                                   /\ worker'[w].attempts = worker[w].attempts
  BY DEF Typed, TypeOK, WorkerState, StepWorker, GoWorker
<1>2. \A pc, n : GoWorker(w, Working(pc, r, n)) => /\ \A v \in Workers \ {w} : worker'[v] = worker[v]
                                                  /\ worker'[w].pc = pc
                                                  /\ worker'[w].run = r
                                                  /\ worker'[w].attempts = n
  BY <1>0 DEF Working
<1>3. \A s : r \in Runs /\ UpdateStatus(r, s) =>
               /\ rows'[r].status = s /\ rows'[r].attempts = rows[r].attempts
               /\ \A t \in Runs \ {r} : rows'[t] = rows[t]
  BY <1>0 DEF UpdateStatus
<1>4. worker[w].pc \in {"begin", "exec", "failed", "persist"} =>
        /\ r \in Runs /\ Holds(w, r)
        /\ rows[r].status = IF worker[w].pc = "persist" THEN "succeeded" ELSE "running"
        /\ worker[w].pc = "failed" => worker[w].attempts = rows[r].attempts + 1
  BY <1>0 DEF Typed, NamedRuns, HolderKnows, Holds
<1>5. ASSUME BeginClaimed(w)
      PROVE  /\ r \in Runs /\ UNCHANGED rows /\ rows[r].status = "running"
             /\ Continues(w, r, "exec", worker[w].attempts)
  BY <1>1, <1>4, <1>5 DEF BeginClaimed, Continues
<1>6. ASSUME Succeed(w)
      PROVE  /\ r \in Runs /\ rows[r].status = "running"
             /\ rows'[r].status = "succeeded" /\ rows'[r].attempts = rows[r].attempts
             /\ Continues(w, r, "persist", worker[w].attempts)
  BY <1>1, <1>3, <1>4, <1>6 DEF Succeed, Continues
<1>7. ASSUME Persist(w)
      PROVE  /\ r \in Runs /\ rows[r].status = "succeeded"
             /\ rows'[r].status = "succeeded" /\ rows'[r].attempts = rows[r].attempts
             /\ Continues(w, r, "end_refresh", worker[w].attempts)
  BY <1>1, <1>3, <1>4, <1>7 DEF Persist, Continues
<1>8. ASSUME Fail(w)
      PROVE  /\ r \in Runs /\ UNCHANGED rows /\ rows[r].status = "running"
             /\ Continues(w, r, "failed", rows[r].attempts + 1)
  BY <1>2, <1>4, <1>8 DEF Fail, Continues
<1>9. ASSUME GiveUp(w)
      PROVE  /\ r \in Runs /\ rows[r].status = "running" /\ rows[r].attempts + 1 >= MaxAttempts
             /\ rows'[r].status = "dead_letter" /\ rows'[r].attempts = rows[r].attempts
             /\ Continues(w, r, "end_refresh", 0)
  BY <1>2, <1>3, <1>4, <1>9 DEF GiveUp, Continues
<1>10. ASSUME Retry(w)
       PROVE  /\ r \in Runs /\ rows[r].status = "running" /\ rows[r].attempts + 1 < MaxAttempts
              /\ rows'[r].status = "queued" /\ rows'[r].attempts = rows[r].attempts + 1
              /\ Continues(w, r, "end_refresh", 0)
  <2>1. /\ GoWorker(w, Working("end_refresh", r, 0))
        /\ worker[w].pc = "failed" /\ worker[w].attempts < MaxAttempts
        /\ SetRow(r, Written(rows[r], "queued", worker[w].attempts, FALSE))
    BY <1>10 DEF Retry, ScheduleRetry
  <2>2. /\ r \in Runs /\ Holds(w, r) /\ rows[r].status = "running"
        /\ worker[w].attempts = rows[r].attempts + 1
    BY <1>4, <2>1
  <2>3. /\ rows'[r].status = "queued" /\ rows'[r].attempts = worker[w].attempts
        /\ \A t \in Runs \ {r} : rows'[t] = rows[t]
    BY <1>0, <2>1, <2>2
  <2> QED BY <1>2, <2>1, <2>2, <2>3 DEF Continues
<1> QED BY <1>5, <1>6, <1>7, <1>8, <1>9, <1>10

LEMMA OwnerWorker ==
  ASSUME ExternalDeployment, OwnerInv, NEW w \in Workers, WorkerStep(w)
  PROVE  Quiet' /\ Ownership'
<1> DEFINE r == worker[w].run
<1>0. WorkerOnly
  BY ExternalWorker
<1>1. AttemptsLeft /\ StoreTypeOK
  BY DEF OwnerInv, Ownership, Typed, TypeOK
<1>2. ASSUME NEW t \in Runs, Claims(w, t) PROVE Quiet' /\ Ownership'
  BY <1>0, <1>2, OwnerClaim
<1>3. CASE Leaves(w)
  BY <1>0, <1>3, OwnerLeaves
<1>4. CASE BeginClaimed(w)
  BY <1>0, <1>1, <1>4, HolderStep, OwnerContinues DEF AttemptsLeft, InFlight, InStatus
<1>5. CASE Succeed(w)
  BY <1>0, <1>5, HolderStep, OwnerContinues
<1>6. CASE Persist(w)
  BY <1>0, <1>6, HolderStep, OwnerContinues
<1>7. CASE Fail(w)
  BY <1>0, <1>1, <1>7, HolderStep, OwnerContinues DEF AttemptsLeft, InFlight, InStatus
<1>8. CASE GiveUp(w)
  BY <1>0, <1>8, HolderStep, OwnerContinues
<1>9. CASE Retry(w)
  BY <1>0, <1>9, HolderStep, OwnerContinues
<1> QED BY <1>2, <1>3, <1>4, <1>5, <1>6, <1>7, <1>8, <1>9, ExternalWorker

(* Time only makes retries due. *)
LEMMA DueKeeps ==
  ASSUME StoreTypeOK, NEW r \in Runs, RetryFallsDue(r)
  PROVE  \A t \in Runs : rows'[t].status = rows[t].status /\ rows'[t].attempts = rows[t].attempts
<1>1. /\ rows[r] \in Row
      /\ rows' = [rows EXCEPT ![r] = [rows[r] EXCEPT !.due = TRUE]]
  BY DEF StoreTypeOK, RetryFallsDue, SetRow
<1>2. /\ [rows[r] EXCEPT !.due = TRUE].status = rows[r].status
      /\ [rows[r] EXCEPT !.due = TRUE].attempts = rows[r].attempts
  BY <1>1 DEF Row
<1> QED BY <1>1, <1>2 DEF StoreTypeOK

LEMMA OwnerStep == ExternalDeployment /\ OwnerInv /\ [Next]_vars => OwnerInv'
<1> SUFFICES ASSUME ExternalDeployment, OwnerInv, [Next]_vars PROVE Quiet' /\ Ownership'
  BY TypedStep DEF OwnerInv
<1>1. CASE UNCHANGED vars
  BY <1>1 DEF vars, qvars, OwnerInv, Quiet, Ownership, HolderKnows, OneHolder, ReplayerKnows,
              StatusesUsed, AttemptsLeft, InFlight, InStatus, Holds, ApiAt
<1>2. ASSUME NEW a \in Apis, Request(a) \/ ApiStep(a) PROVE Quiet' /\ Ownership'
  BY <1>2, ExternalApi, OwnerApi, OwnerCreate, OwnerReplay, OwnerReset
<1>3. ASSUME NEW w \in Workers, WorkerStep(w) PROVE Quiet' /\ Ownership'
  BY <1>3, OwnerWorker
<1>4. CASE Crash
  BY <1>4, ExternalCrash, OwnerApi, OwnerLeaves
<1>5. CASE Time
  <2>1. PICK r \in Runs : RetryDue(r)
    BY <1>5, ExternalTime
  <2>2. /\ UNCHANGED qvars
        /\ \A t \in Runs : rows'[t].status = rows[t].status /\ rows'[t].attempts = rows[t].attempts
    BY <2>1, DueKeeps DEF RetryDue, OwnerInv, Typed, TypeOK
  <2>3. Quiet'
    BY <2>2 DEF qvars, OwnerInv, Quiet
  <2>4. HolderKnows' /\ OneHolder'
    BY <2>2 DEF qvars, OwnerInv, Ownership, HolderKnows, OneHolder, Holds
  <2>5. ReplayerKnows'
    BY <2>2 DEF qvars, OwnerInv, Typed, NamedRuns, Ownership, ReplayerKnows, ApiAt
  <2>6. StatusesUsed' /\ AttemptsLeft'
    BY <2>2 DEF OwnerInv, Ownership, StatusesUsed, AttemptsLeft, InFlight, InStatus
  <2> QED BY <2>3, <2>4, <2>5, <2>6 DEF Ownership
<1> QED BY <1>1, <1>2, <1>3, <1>4, <1>5 DEF Next

LEMMA Owned ==
  ASSUME ExternalDeployment
  PROVE  Spec => []OwnerInv
<1>1. OwnerInv /\ [Next]_vars => OwnerInv'
  BY OwnerStep
<1> QED BY <1>1, OwnerInit, PTL DEF Spec

(* Two run-worker processes never execute one run at the same time, however  *)
(* many processes die: the claim is what gives a run its owner.              *)
THEOREM ExternalSingleExecutor ==
  ASSUME ExternalDeployment
  PROVE  Spec => []SingleExecutor
<1>1. OwnerInv => SingleExecutor
  BY DEF OwnerInv, Ownership, OneHolder, Holds, SingleExecutor, Executes
<1> QED BY <1>1, Owned, PTL
-----------------------------------------------------------------------------
(* Refinement: what a client sees of a run is RunLifecycle. *)

Statuses == [r \in Runs |-> rows[r].status]
Attempts == [r \in Runs |-> rows[r].attempts]

LEMMA SeenChange ==
  ASSUME NEW r \in Runs, NEW s, NEW n,
         rows'[r].status = s, rows'[r].attempts = n,
         \A t \in Runs \ {r} : rows'[t] = rows[t]
  PROVE  /\ Statuses' = [Statuses EXCEPT ![r] = s]
         /\ Attempts' = [Attempts EXCEPT ![r] = n]
BY DEF Statuses, Attempts

LEMMA SeenMove ==
  ASSUME NEW r \in Runs, NEW s,
         rows'[r].status = s, rows'[r].attempts = rows[r].attempts,
         \A t \in Runs \ {r} : rows'[t] = rows[t]
  PROVE  /\ Statuses' = [Statuses EXCEPT ![r] = s]
         /\ UNCHANGED Attempts
BY DEF Statuses, Attempts

LEMMA Unseen ==
  ASSUME \A t \in Runs : rows'[t].status = rows[t].status /\ rows'[t].attempts = rows[t].attempts
  PROVE  UNCHANGED <<Statuses, Attempts>>
BY DEF Statuses, Attempts

LEMMA LifecycleInit == Init => Lifecycle!Init
<1> SUFFICES ASSUME Init PROVE Lifecycle!Init
  OBVIOUS
<1>1. \A r \in Runs : rows[r].status = "absent" /\ rows[r].attempts = 0
  BY DEF Init, InitStore, NoRow
<1> QED BY <1>1 DEF Lifecycle!Init

LEMMA LifecycleStep ==
  ExternalDeployment /\ OwnerInv /\ [Next]_vars => [Lifecycle!Next]_(Lifecycle!lvars)
<1> SUFFICES ASSUME ExternalDeployment, OwnerInv, [Next]_vars
             PROVE  Lifecycle!Next \/ UNCHANGED <<Statuses, Attempts>>
  BY DEF Lifecycle!lvars, Statuses, Attempts
<1> USE DEF Lifecycle!Next
<1>0. Typed /\ StoreTypeOK /\ AttemptsLeft
  BY DEF OwnerInv, Typed, TypeOK, Ownership
<1>1. UNCHANGED rows => UNCHANGED <<Statuses, Attempts>>
  BY DEF Statuses, Attempts
<1>2. CASE UNCHANGED vars
  BY <1>1, <1>2 DEF vars
<1>3. ASSUME NEW a \in Apis, CreateRun(a), ~UNCHANGED rows PROVE Lifecycle!Next
  <2>1. PICK r \in Runs : InsertRun(r, api[a].request)
    BY <1>3 DEF CreateRun
  <2>2. rows[r].status = "absent" /\ rows[r].attempts = 0
    BY <2>1 DEF InsertRun, InStatus, OwnerInv, Ownership, StatusesUsed
  <2>3. /\ rows'[r].status = "queued" /\ rows'[r].attempts = 0
        /\ \A t \in Runs \ {r} : rows'[t] = rows[t]
    BY <1>0, <2>1, RowAfter DEF InsertRun, Written
  <2>4. /\ Statuses' = [Statuses EXCEPT ![r] = "queued"]
        /\ Attempts' = [Attempts EXCEPT ![r] = 0]
        /\ Statuses[r] = "absent" /\ Attempts[r] = 0
    BY <2>2, <2>3, SeenChange DEF Statuses, Attempts
  <2>5. Lifecycle!Enqueue(r)
    BY <2>4 DEF Lifecycle!Enqueue, Lifecycle!Move, Statuses, Attempts
  <2> QED BY <2>5
<1>4. ASSUME NEW a \in Apis, ReplayReset(a) PROVE Lifecycle!Next
  <2>0. PICK r \in Runs : r = api[a].run
    BY <1>4 DEF OwnerInv, Typed, NamedRuns, ReplayReset, ApiAt
  <2>1. /\ rows[r].status = "dead_letter"
        /\ rows'[r].status = "queued" /\ rows'[r].attempts = 0
        /\ \A t \in Runs \ {r} : rows'[t] = rows[t]
    BY <1>0, <1>4, <2>0, RowAfter DEF OwnerInv, Typed, NamedRuns, Ownership, ReplayerKnows, ReplayReset,
                                ApiAt, ResetForReplay, Written
  <2>2. Lifecycle!Replay(r)
    BY <2>1, SeenChange DEF Lifecycle!Replay, Lifecycle!Move, Lifecycle!Count, Statuses, Attempts
  <2> QED BY <2>2
<1>5. ASSUME NEW a \in Apis, Request(a) \/ ApiStep(a)
      PROVE  Lifecycle!Next \/ UNCHANGED <<Statuses, Attempts>>
  BY <1>1, <1>3, <1>4, <1>5, ExternalApi DEF ApiOnly, Replay
<1>6. ASSUME NEW w \in Workers, NEW r \in Runs, Claims(w, r) PROVE Lifecycle!Next
  <2>1. /\ rows[r].status = "queued"
        /\ rows'[r].status = "running" /\ rows'[r].attempts = rows[r].attempts
        /\ \A t \in Runs \ {r} : rows'[t] = rows[t]
    BY <1>0, <1>6, RowAfter
    DEF Claims, ClaimNextQueued, Eligible, InStatus, UpdateStatus, Written
  <2>2. Statuses' = [Statuses EXCEPT ![r] = "running"] /\ UNCHANGED Attempts
    BY <2>1, SeenMove
  <2>3. Lifecycle!Start(r)
    BY <2>1, <2>2 DEF Lifecycle!Start, Lifecycle!Move, Statuses, Attempts
  <2> QED BY <2>3
<1>7. ASSUME NEW w \in Workers, Succeed(w) PROVE Lifecycle!Next
  <2>0. PICK r \in Runs : r = worker[w].run
    BY <1>7, HolderStep
  <2>1. rows[r].status = "running"
    BY <1>7, <2>0, HolderStep
  <2>2. Statuses' = [Statuses EXCEPT ![r] = "succeeded"] /\ UNCHANGED Attempts
    BY <1>7, <2>0, HolderStep, SeenMove DEF Continues
  <2>3. Lifecycle!Succeed(r)
    BY <2>1, <2>2 DEF Lifecycle!Succeed, Lifecycle!Move, Statuses, Attempts
  <2> QED BY <2>3
<1>8. ASSUME NEW w \in Workers, Persist(w) PROVE UNCHANGED <<Statuses, Attempts>>
  BY <1>8, HolderStep, Unseen DEF Continues
<1>9. ASSUME NEW w \in Workers, GiveUp(w) PROVE Lifecycle!Next
  <2>0. PICK r \in Runs : r = worker[w].run
    BY <1>9, HolderStep
  <2>1. rows[r].status = "running" /\ rows[r].attempts + 1 >= MaxAttempts
    BY <1>9, <2>0, HolderStep
  <2>2. Statuses' = [Statuses EXCEPT ![r] = "dead_letter"] /\ UNCHANGED Attempts
    BY <1>9, <2>0, HolderStep, SeenMove DEF Continues
  <2>3. Lifecycle!GiveUp(r)
    BY <2>1, <2>2 DEF Lifecycle!GiveUp, Lifecycle!Move, Statuses, Attempts
  <2> QED BY <2>3
<1>10. ASSUME NEW w \in Workers, Retry(w) PROVE Lifecycle!Next
  <2>0. PICK r \in Runs : r = worker[w].run
    BY <1>10, HolderStep
  <2>1. rows[r].status = "running" /\ rows[r].attempts + 1 < MaxAttempts
    BY <1>10, <2>0, HolderStep
  <2>2. /\ Statuses' = [Statuses EXCEPT ![r] = "queued"]
        /\ Attempts' = [Attempts EXCEPT ![r] = rows[r].attempts + 1]
    BY <1>10, <2>0, HolderStep, SeenChange DEF Continues
  <2>3. Lifecycle!Retry(r)
    BY <2>1, <2>2 DEF Lifecycle!Retry, Lifecycle!Move, Lifecycle!Count, Statuses, Attempts
  <2> QED BY <2>3
<1>11. ASSUME NEW w \in Workers, WorkerStep(w)
       PROVE  Lifecycle!Next \/ UNCHANGED <<Statuses, Attempts>>
  <2>1. BeginClaimed(w) \/ Fail(w) \/ Leaves(w) => UNCHANGED rows
    BY DEF BeginClaimed, Fail, Leaves
  <2> QED BY <1>1, <1>6, <1>7, <1>8, <1>9, <1>10, <1>11, <2>1, ExternalWorker
<1>12. CASE Crash
  BY <1>1, <1>12, ExternalCrash DEF ApiOnly, Leaves
<1>13. CASE Time
  BY <1>0, <1>13, ExternalTime, DueKeeps, Unseen DEF RetryDue
<1> QED BY <1>2, <1>5, <1>11, <1>12, <1>13 DEF Next

(* The queue implements the lifecycle a client relies on, with any number of *)
(* replicas, workers and deaths.                                             *)
THEOREM ExternalRefinement ==
  ASSUME ExternalDeployment
  PROVE  Spec => ImplementsLifecycle
<1>1. OwnerInv /\ [Next]_vars => [Lifecycle!Next]_(Lifecycle!lvars)
  BY LifecycleStep
<1> QED BY <1>1, LifecycleInit, Owned, PTL DEF Spec, ImplementsLifecycle, Lifecycle!Spec

(* Once a run has succeeded nothing takes that back: no late failure, retry, *)
(* replay or death.                                                          *)
THEOREM ExternalSuccessIsFinal ==
  ASSUME ExternalDeployment
  PROVE  Spec => SuccessIsFinal
<1>1. ASSUME OwnerInv, [Next]_vars
      PROVE  \A r \in Runs : rows[r].status = "succeeded" => rows'[r].status = "succeeded"
  <2>1. [Lifecycle!Next]_(Lifecycle!lvars)
    BY <1>1, LifecycleStep
  <2>2. \A r \in Runs : Statuses[r] = "succeeded" => Statuses'[r] = "succeeded"
    BY <2>1 DEF Lifecycle!Next, Lifecycle!lvars, Lifecycle!Enqueue, Lifecycle!Start, Lifecycle!Succeed,
                Lifecycle!Retry, Lifecycle!GiveUp, Lifecycle!Replay, Lifecycle!Move, Statuses
  <2> QED BY <2>2 DEF Statuses
<1>2. OwnerInv /\ [Next]_vars
        => [\A r \in Runs : rows[r].status = "succeeded" => rows'[r].status = "succeeded"]_vars
  BY <1>1
<1> QED BY <1>2, Owned, PTL DEF Spec, SuccessIsFinal
-----------------------------------------------------------------------------
(* How often a run is executed. *)

(* How often a run was executed since its submission or its last replay is   *)
(* one ahead of its stored attempts from the moment its worker begins until  *)
(* the failure is stored, and level with them while it is queued or claimed. *)
Counted ==
  \A r \in Runs :
    /\ rows[r].attempts < MaxAttempts
    /\ executions[r] <= rows[r].attempts + 1
    /\ rows[r].status \in {"absent", "queued"} => executions[r] <= rows[r].attempts
    /\ \A w \in Workers :
         Holds(w, r) /\ WorkerAt(w, "begin") => executions[r] <= rows[r].attempts

(* Only a worker that begins and a replay touch the count. *)
LEMMA CountChanges ==
  ASSUME [Next]_vars
  PROVE  \/ UNCHANGED executions
         \/ \E a \in Apis : ReplayReset(a)
         \/ \E w \in Workers : BeginClaimed(w) \/ BeginUnclaimed(w)
<1>1. CASE UNCHANGED vars
  BY <1>1 DEF vars, qvars
<1>2. ASSUME NEW a \in Apis, Request(a) \/ ApiStep(a), ~ReplayReset(a)
      PROVE  UNCHANGED executions
  BY <1>2 DEF Request, Submit, Replay, Recover, ApiStep, CountQueued, CountRunning, CreateRun,
       Dispatch, JobRequestFails, DispatchFailed, RecoverWrite, ApiSelectsStale, ApiRefreshed,
       DrainQueued, DrainRunning, Close, Restart
<1>3. ASSUME NEW w \in Workers, WorkerStep(w), ~BeginClaimed(w), ~BeginUnclaimed(w)
      PROVE  UNCHANGED executions
  BY <1>3 DEF WorkerStep, TakeTask, TakeClaim, TakeExecute, TakeRetry, Poll, Wake, StartPod, Publish,
       Succeed, Persist, Fail, GiveUp, Retry, WorkerSelectsStale, WorkerRefreshed
<1>4. Crash \/ Time => UNCHANGED executions
  BY DEF Crash, Terminate, CrashApi, CrashWorker, Time, RetryDue, Ages, JobExpires, qvars
<1> QED BY <1>1, <1>2, <1>3, <1>4 DEF Next

(* A step that leaves the count alone keeps it where no attempt is taken     *)
(* back and a run is only claimed while it is queued.                        *)
LEMMA CountedKept ==
  ASSUME Typed, Counted, UNCHANGED executions, Typed',
         \A r \in Runs : /\ rows'[r].attempts >= rows[r].attempts
                         /\ rows'[r].attempts < MaxAttempts
                         /\ rows'[r].attempts = rows[r].attempts =>
                              /\ rows'[r].status \in {"absent", "queued"}
                                   => rows[r].status \in {"absent", "queued"}
                              /\ \A w \in Workers : (Holds(w, r) /\ WorkerAt(w, "begin"))' =>
                                   \/ rows[r].status \in {"absent", "queued"}
                                   \/ Holds(w, r) /\ WorkerAt(w, "begin")
  PROVE  Counted'
<1>1. \A r \in Runs : /\ executions'[r] = executions[r] /\ executions[r] \in Nat
                      /\ rows[r].attempts \in Nat /\ rows'[r].attempts \in Nat
  BY DEF Typed, TypeOK, StoreTypeOK, Row
<1>2. \A r \in Runs : rows'[r].attempts > rows[r].attempts => executions[r] <= rows'[r].attempts
  BY <1>1, StoreAssumption DEF Counted
<1> QED BY <1>1, <1>2, StoreAssumption DEF Counted

LEMMA CountedInit == Init => Counted
<1> SUFFICES ASSUME Init PROVE Counted
  OBVIOUS
<1>1. \A r \in Runs : rows[r].attempts = 0 /\ executions[r] = 0
  BY DEF Init, InitStore, NoRow
<1> QED BY <1>1, StoreAssumption DEF Counted

LEMMA CountedReset ==
  ASSUME OwnerInv, Counted, NEW a \in Apis, ReplayReset(a)
  PROVE  Counted'
<1> DEFINE r == api[a].run
<1>1. /\ r \in Runs /\ UNCHANGED worker
      /\ rows'[r].attempts = 0
      /\ executions' = [executions EXCEPT ![r] = 0] /\ executions \in [Runs -> Nat]
      /\ \A t \in Runs \ {r} : rows'[t] = rows[t]
  BY RowAfter DEF OwnerInv, Typed, TypeOK, NamedRuns, ReplayReset, ApiAt, ResetForReplay, Written
<1> QED BY <1>1, StoreAssumption DEF Counted, Holds, WorkerAt

LEMMA CountedBegin ==
  ASSUME ExternalDeployment, OwnerInv, Counted, NEW w \in Workers, BeginClaimed(w)
  PROVE  Counted'
<1>0. PICK r \in Runs : r = worker[w].run
  BY HolderStep
<1>1. /\ UNCHANGED rows /\ rows[r].status = "running"
      /\ Continues(w, r, "exec", worker[w].attempts)
      /\ WorkerAt(w, "begin")
  BY <1>0, HolderStep DEF BeginClaimed
<1>2. \A v \in Workers \ {w} : ~Holds(v, r)
  BY <1>1 DEF OwnerInv, Ownership, OneHolder, Continues
<1>3. /\ executions \in [Runs -> Nat] /\ \A t \in Runs : rows[t].attempts \in Nat
  BY DEF OwnerInv, Typed, TypeOK, StoreTypeOK, Row
<1>4. /\ executions'[r] <= executions[r] + 1
      /\ \A t \in Runs \ {r} : executions'[t] = executions[t]
  BY <1>0, <1>1, <1>3 DEF BeginClaimed, CountExecution
<1>5. executions[r] <= rows[r].attempts
  BY <1>1 DEF Counted, Continues
<1>6. executions'[r] \in Nat
  BY <1>0, <1>1, <1>3 DEF BeginClaimed, CountExecution
<1>7. /\ executions'[r] <= rows'[r].attempts + 1 /\ rows'[r].status = "running"
      /\ \A v \in Workers : ~(Holds(v, r) /\ WorkerAt(v, "begin"))'
  BY <1>1, <1>2, <1>3, <1>4, <1>5, <1>6 DEF Continues, Holds, WorkerAt
<1>8. ASSUME NEW t \in Runs \ {r}, NEW v \in Workers, (Holds(v, t) /\ WorkerAt(v, "begin"))'
      PROVE  executions[t] <= rows[t].attempts
  BY <1>1, <1>8 DEF Continues, Holds, WorkerAt, Counted
<1>9. ASSUME NEW t \in Runs
      PROVE  /\ rows'[t].attempts < MaxAttempts
             /\ executions'[t] <= rows'[t].attempts + 1
             /\ rows'[t].status \in {"absent", "queued"} => executions'[t] <= rows'[t].attempts
             /\ \A v \in Workers :
                  (Holds(v, t) /\ WorkerAt(v, "begin"))' => executions'[t] <= rows'[t].attempts
  <2>1. CASE t = r
    BY <1>1, <1>7, <2>1 DEF Counted
  <2>2. CASE t # r
    <3>1. executions'[t] = executions[t] /\ rows'[t] = rows[t]
      BY <1>1, <1>4, <2>2
    <3> QED BY <1>8, <2>2, <3>1 DEF Counted
  <2> QED BY <2>1, <2>2
<1> QED BY <1>9 DEF Counted

(* The runs a step of a worker is not about, and how it leaves its own. *)
LEMMA CountedWorker ==
  ASSUME ExternalDeployment, OwnerInv, Counted, NEW w \in Workers, WorkerStep(w),
         ~BeginClaimed(w), UNCHANGED executions, Typed'
  PROVE  Counted'
<1> DEFINE r == worker[w].run
<1>0. /\ Typed /\ \A t \in Runs : rows[t].attempts \in Nat /\ rows[t].attempts < MaxAttempts
  BY DEF OwnerInv, Typed, TypeOK, StoreTypeOK, Row, Counted
<1>1. ASSUME NEW t \in Runs, Claims(w, t) PROVE Counted'
  <2>1. /\ rows[t].status = "queued"
        /\ rows'[t].status = "running" /\ rows'[t].attempts = rows[t].attempts
        /\ \A s \in Runs \ {t} : rows'[s] = rows[s]
    BY <1>0, <1>1, RowAfter DEF Claims, ClaimNextQueued, Eligible, InStatus, UpdateStatus, Written
  <2>2. worker'[w].run = t /\ \A v \in Workers \ {w} : worker'[v] = worker[v]
    BY <1>0, <1>1, WorkerAfter DEF Claims, Working
  <2>3. ASSUME NEW s \in Runs, NEW v \in Workers, (Holds(v, s) /\ WorkerAt(v, "begin"))'
        PROVE  rows[s].status = "queued" \/ (Holds(v, s) /\ WorkerAt(v, "begin"))
    <3>1. CASE v = w
      BY <2>1, <2>2, <2>3, <3>1 DEF Holds
    <3>2. CASE v # w
      BY <2>2, <2>3, <3>2 DEF Holds, WorkerAt
    <3> QED BY <3>1, <3>2
  <2> QED BY <1>0, <2>1, <2>3, CountedKept
<1>2. ASSUME Leaves(w) PROVE Counted'
  BY <1>0, <1>2, CountedKept DEF Leaves, Holds, WorkerAt
<1>3. ASSUME NEW pc \in {"failed", "persist", "end_refresh"}, NEW n, r \in Runs, Continues(w, r, pc, n),
             \/ rows'[r].attempts = rows[r].attempts /\ rows'[r].status \notin {"absent", "queued"}
             \/ rows'[r].attempts = rows[r].attempts + 1 /\ rows'[r].attempts < MaxAttempts
      PROVE  Counted'
  <2>1. ASSUME NEW s \in Runs, NEW v \in Workers, (Holds(v, s) /\ WorkerAt(v, "begin"))'
        PROVE  Holds(v, s) /\ WorkerAt(v, "begin")
    BY <1>3, <2>1 DEF Continues, Holds, WorkerAt
  <2>2. /\ rows'[r].attempts >= rows[r].attempts /\ rows'[r].attempts < MaxAttempts
        /\ \A s \in Runs \ {r} : rows'[s] = rows[s]
    BY <1>0, <1>3 DEF Continues
  <2>3. rows'[r].attempts = rows[r].attempts => rows'[r].status \notin {"absent", "queued"}
    BY <1>0, <1>3
  <2> QED BY <1>0, <2>1, <2>2, <2>3, CountedKept
<1>4. Succeed(w) \/ Persist(w) \/ Fail(w) \/ GiveUp(w) => Counted'
  BY <1>3, HolderStep
<1>5. ASSUME Retry(w) PROVE Counted'
  <2>1. /\ r \in Runs /\ rows'[r].attempts = rows[r].attempts + 1 /\ rows[r].attempts + 1 < MaxAttempts
        /\ Continues(w, r, "end_refresh", 0)
    BY <1>5, HolderStep
  <2> QED BY <1>3, <2>1
<1> QED BY <1>1, <1>2, <1>4, <1>5, ExternalWorker

LEMMA CountedStep == ExternalDeployment /\ OwnerInv /\ OwnerInv' /\ Counted /\ [Next]_vars => Counted'
<1> SUFFICES ASSUME ExternalDeployment, OwnerInv, OwnerInv', Counted, [Next]_vars PROVE Counted'
  OBVIOUS
<1>0. /\ Typed /\ Typed'
      /\ \A t \in Runs : rows[t].attempts \in Nat /\ rows[t].attempts < MaxAttempts
  BY DEF OwnerInv, Typed, TypeOK, StoreTypeOK, Row, Counted
<1>1. \A w \in Workers : ~BeginUnclaimed(w)
  BY DEF ExternalDeployment, BeginUnclaimed, ClaimWorkers
<1>2. CASE \E a \in Apis : ReplayReset(a)
  BY <1>2, CountedReset
<1>3. CASE \E w \in Workers : BeginClaimed(w)
  BY <1>3, CountedBegin
<1>4. CASE UNCHANGED executions
  <2>1. CASE UNCHANGED <<rows, worker>>
    BY <1>0, <1>4, <2>1, CountedKept DEF Holds, WorkerAt
  <2>2. ASSUME NEW a \in Apis, CreateRun(a) PROVE Counted'
    <3>1. PICK r \in Runs : InsertRun(r, api[a].request) \/ UNCHANGED rows
      BY <2>2 DEF CreateRun
    <3>2. UNCHANGED worker
      BY <2>2 DEF CreateRun
    <3>3. CASE InsertRun(r, api[a].request)
      <4>1. /\ rows[r].status = "absent" /\ rows[r].attempts = 0 /\ rows'[r].attempts = 0
            /\ \A t \in Runs \ {r} : rows'[t] = rows[t]
        BY <1>0, <3>3, RowAfter DEF InsertRun, InStatus, Written, OwnerInv, Ownership, StatusesUsed
      <4> QED BY <1>0, <1>4, <3>2, <4>1, CountedKept DEF Holds, WorkerAt
    <3> QED BY <2>1, <3>1, <3>2, <3>3
  <2>3. ASSUME NEW a \in Apis, Request(a) \/ ApiStep(a), ~ReplayReset(a), ~CreateRun(a)
        PROVE  UNCHANGED <<rows, worker>>
    BY <2>3, ExternalApi DEF ApiOnly, Replay
  <2>4. ASSUME NEW w \in Workers, WorkerStep(w), ~BeginClaimed(w) PROVE Counted'
    BY <1>0, <1>4, <2>4, CountedWorker
  <2>5. CASE Crash
    <3>1. ASSUME NEW w \in Workers, Leaves(w) PROVE Counted'
      BY <1>0, <1>4, <3>1, CountedKept DEF Leaves, Holds, WorkerAt
    <3>2. (\E a \in Apis : ApiOnly(a)) => UNCHANGED <<rows, worker>>
      BY DEF ApiOnly
    <3> QED BY <2>1, <2>5, <3>1, <3>2, ExternalCrash
  <2>6. CASE Time
    <3>1. /\ UNCHANGED worker
          /\ \A t \in Runs : rows'[t].status = rows[t].status /\ rows'[t].attempts = rows[t].attempts
      BY <1>0, <2>6, ExternalTime, DueKeeps DEF RetryDue, Typed, TypeOK, qvars
    <3> QED BY <1>0, <1>4, <3>1, CountedKept DEF Holds, WorkerAt
  <2>7. CASE UNCHANGED vars
    BY <2>1, <2>7 DEF vars, qvars
  <2> QED BY <1>2, <1>3, <2>1, <2>2, <2>3, <2>4, <2>5, <2>6, <2>7 DEF Next
<1> QED BY <1>1, <1>2, <1>3, <1>4, CountChanges

(* A run is executed at most MaxAttempts times for each submission or        *)
(* replay, whatever dies: the claim, the count and the dead letter agree.    *)
THEOREM ExternalRetryBudget ==
  ASSUME ExternalDeployment
  PROVE  Spec => []RetryBudget
<1>1. OwnerInv /\ OwnerInv' /\ Counted /\ [Next]_vars => Counted'
  BY CountedStep
<1>2. OwnerInv /\ Counted => RetryBudget
  BY StoreAssumption DEF OwnerInv, Typed, TypeOK, StoreTypeOK, Row, Counted, RetryBudget
<1> QED BY <1>1, <1>2, CountedInit, Owned, PTL DEF Spec
-----------------------------------------------------------------------------
(* Every deployment: what a step does to a row, and on whose account.       *)

Becomes(r, s, n) == rows'[r].status = s /\ rows'[r].attempts = n

Unmoved(r) == Becomes(r, rows[r].status, rows[r].attempts)

(* A reclaim writes n, from a scan or in the very step that finds the row. *)
StaleWrite(r, n) ==
  /\ \/ \E p \in Processes : scan[p][r] = n
     \/ Reclaims /\ rows[r].status = "running"
  /\ Becomes(r, IF n >= MaxAttempts THEN "dead_letter" ELSE "queued", n)

WorkerMoves(r) ==
  \/ \E w \in Workers : /\ WorkerWillWrite(w, r)
                        /\ worker[w].attempts < MaxAttempts
                        /\ Becomes(r, "queued", worker[w].attempts)
  \/ Becomes(r, "running", rows[r].attempts) /\ (rows[r].status = "queued" \/ ~ClaimWorkers)
  \/ Becomes(r, "succeeded", rows[r].attempts)
  \/ (\E w \in Workers : WorkerWillWrite(w, r)) /\ Becomes(r, "dead_letter", rows[r].attempts)
  \/ \E n \in Nat \ {0} : StaleWrite(r, n)

ApiMoves(r) ==
  \/ (\E a \in Apis : ApiAt(a, "create")) /\ rows[r].status = "absent" /\ Becomes(r, "queued", 0)
  \/ (\E a \in Apis : ReplayWillWrite(a, r)) /\ Becomes(r, "queued", 0)
  \/ (\E a \in Apis : ApiAt(a, "dispatch_failed")) /\ Becomes(r, "dead_letter", rows[r].attempts)
  \/ Becomes(r, "succeeded", rows[r].attempts)
  \/ \E n \in Nat \ {0} : StaleWrite(r, n)

Moves == \A r \in Runs : Unmoved(r) \/ WorkerMoves(r) \/ ApiMoves(r)

LEMMA Rewritten ==
  ASSUME Typed, NEW r \in Runs, NEW s, NEW n, NEW d, SetRow(r, Written(rows[r], s, n, d))
  PROVE  Becomes(r, s, n) /\ \A t \in Runs \ {r} : Unmoved(t)
BY RowAfter DEF Written, Becomes, Unmoved

LEMMA UpdateMoves ==
  ASSUME Typed, NEW r \in Runs, NEW s, UpdateStatus(r, s)
  PROVE  Becomes(r, s, rows[r].attempts) /\ \A t \in Runs \ {r} : Unmoved(t)
BY Rewritten DEF UpdateStatus

LEMMA ReclaimEndsMoves ==
  ASSUME Typed, NEW p \in Processes, ReclaimEnds(p)
  PROVE  \A r \in Runs : Unmoved(r) \/ \E n \in Nat \ {0} : StaleWrite(r, n)
<1>1. UNCHANGED rows => \A r \in Runs : Unmoved(r)
  BY DEF Unmoved, Becomes
<1>2. ASSUME NEW found \in [Runs -> Nat], ReclaimStaleRuns(found), NEW r \in Runs
      PROVE  \/ Unmoved(r)
             \/ found[r] \in Nat \ {0}
                /\ Becomes(r, IF found[r] >= MaxAttempts THEN "dead_letter" ELSE "queued", found[r])
  BY <1>2 DEF ReclaimStaleRuns, Reclaimed, Written, Unmoved, Becomes
<1>3. /\ scan[p] \in [Runs -> Nat] /\ StaleScan \in [Runs -> Nat]
  BY ScanType DEF Typed, TypeOK
<1>4. CASE ReclaimStaleRuns(scan[p])
  BY <1>2, <1>3, <1>4 DEF StaleWrite
<1>5. CASE StaleFound /\ ReclaimStaleRuns(StaleScan)
  <2>1. \A r \in Runs : StaleScan[r] # 0 => Reclaims /\ rows[r].status = "running"
    BY <1>5 DEF StaleFound, StaleScan
  <2> QED BY <1>2, <1>3, <1>5, <2>1 DEF StaleWrite
<1> QED BY <1>1, <1>4, <1>5 DEF ReclaimEnds

LEMMA ApiMovesRows ==
  ASSUME Typed, NEW a \in Apis, Request(a) \/ ApiStep(a)
  PROVE  \A r \in Runs : Unmoved(r) \/ ApiMoves(r)
<1>1. UNCHANGED rows => \A r \in Runs : Unmoved(r)
  BY DEF Unmoved, Becomes
<1>2. api[a].pc \in {"dispatch_failed", "reset", "recover"} => api[a].run \in Runs
  BY DEF Typed, NamedRuns
<1>3. CASE CreateRun(a)
  <2>1. PICK r \in Runs : UNCHANGED rows \/ InsertRun(r, api[a].request)
    BY <1>3 DEF CreateRun
  <2>2. CASE InsertRun(r, api[a].request)
    <3>1. rows[r].status = "absent" /\ ApiAt(a, "create")
      BY <1>3, <2>2 DEF InsertRun, InStatus, CreateRun
    <3>2. Becomes(r, "queued", 0) /\ \A t \in Runs \ {r} : Unmoved(t)
      BY <2>2, RowAfter DEF InsertRun, Written, Becomes, Unmoved
    <3> QED BY <3>1, <3>2 DEF ApiMoves
  <2> QED BY <1>1, <2>1, <2>2
<1>4. CASE DispatchFailed(a)
  BY <1>2, <1>4, UpdateMoves DEF DispatchFailed, ApiMoves, ApiAt
<1>5. CASE ReplayReset(a)
  BY <1>2, <1>5, Rewritten DEF ReplayReset, ResetForReplay, ReplayWillWrite, ApiMoves, ApiAt
<1>6. CASE RecoverWrite(a)
  BY <1>2, <1>6, UpdateMoves DEF RecoverWrite, ApiMoves, ApiAt
<1>7. CASE ApiRefreshed(a)
  BY <1>7, ReclaimEndsMoves DEF ApiRefreshed, ApiMoves, Processes
<1>8. \/ UNCHANGED rows
      \/ CreateRun(a) \/ DispatchFailed(a) \/ ReplayReset(a) \/ RecoverWrite(a) \/ ApiRefreshed(a)
  BY DEF Request, ApiStep, Submit, Replay, Recover, CountQueued, CountRunning, Dispatch,
         JobRequestFails, ApiSelectsStale, DrainQueued, DrainRunning, Close, Restart
<1> QED BY <1>1, <1>3, <1>4, <1>5, <1>6, <1>7, <1>8

LEMMA WorkerMovesRows ==
  ASSUME Typed, NEW w \in Workers, WorkerStep(w)
  PROVE  \A r \in Runs : Unmoved(r) \/ WorkerMoves(r)
<1>1. UNCHANGED rows => \A r \in Runs : Unmoved(r)
  BY DEF Unmoved, Becomes
<1>2. worker[w].pc \notin {"idle", "end_refresh"} => worker[w].run \in Runs
  BY DEF Typed, NamedRuns
<1>3. ASSUME NEW r \in Runs, rows[r].status = "queued", UpdateStatus(r, "running")
      PROVE  \A t \in Runs : Unmoved(t) \/ WorkerMoves(t)
  BY <1>3, UpdateMoves DEF WorkerMoves
<1>4. CASE TakeClaim(w) \/ Poll(w)
  <2>1. UNCHANGED rows \/ \E r \in Runs : rows[r].status = "queued" /\ UpdateStatus(r, "running")
    BY <1>4 DEF TakeClaim, Poll, Claim, ClaimNextQueued, Eligible, InStatus
  <2> QED BY <1>1, <1>3, <2>1
<1>5. ASSUME NEW r \in Runs, StartPod(w, r) PROVE \A t \in Runs : Unmoved(t) \/ WorkerMoves(t)
  BY <1>1, <1>3, <1>5 DEF StartPod
<1>6. CASE BeginUnclaimed(w)
  BY <1>2, <1>6, UpdateMoves DEF BeginUnclaimed, WorkerMoves, WorkerAt
<1>7. CASE Succeed(w) \/ Persist(w)
  BY <1>1, <1>2, <1>7, UpdateMoves DEF Succeed, Persist, WorkerMoves, WorkerAt
<1>8. CASE GiveUp(w)
  BY <1>2, <1>8, UpdateMoves DEF GiveUp, WorkerWillWrite, WorkerMoves, WorkerAt
<1>9. CASE Retry(w)
  BY <1>2, <1>9, Rewritten DEF Retry, ScheduleRetry, WorkerWillWrite, WorkerMoves, WorkerAt
<1>10. CASE WorkerRefreshed(w)
  BY <1>10, ReclaimEndsMoves DEF WorkerRefreshed, WorkerMoves, Processes
<1>11. CASE \/ TakeExecute(w) \/ TakeRetry(w) \/ Wake(w) \/ BeginClaimed(w) \/ Publish(w)
            \/ Fail(w) \/ WorkerSelectsStale(w)
  BY <1>1, <1>11 DEF TakeExecute, TakeRetry, Wake, BeginClaimed, Publish, Fail, WorkerSelectsStale
<1> QED BY <1>4, <1>5, <1>6, <1>7, <1>8, <1>9, <1>10, <1>11 DEF WorkerStep, TakeTask

LEMMA RowsMove == Typed /\ [Next]_vars => Moves
<1> SUFFICES ASSUME Typed, [Next]_vars PROVE Moves
  OBVIOUS
<1>1. UNCHANGED rows => Moves
  BY DEF Moves, Unmoved, Becomes
<1>2. ASSUME NEW a \in Apis, Request(a) \/ ApiStep(a) PROVE Moves
  BY <1>2, ApiMovesRows DEF Moves
<1>3. ASSUME NEW w \in Workers, WorkerStep(w) PROVE Moves
  BY <1>3, WorkerMovesRows DEF Moves
<1>4. CASE Crash
  BY <1>1, <1>4 DEF Crash, Terminate, CrashApi, CrashWorker
<1>5. CASE Time
  <2>1. ASSUME NEW r \in Runs, RetryFallsDue(r) PROVE Moves
    BY <2>1, DueKeeps DEF Typed, TypeOK, Moves, Unmoved, Becomes
  <2>2. ASSUME NEW r \in Runs, GrowsOld(r) PROVE Moves
    <3>1. /\ rows[r] \in Row
          /\ rows' = [rows EXCEPT ![r] = [rows[r] EXCEPT !.age = rows[r].age + 1]]
      BY <2>2 DEF Typed, TypeOK, StoreTypeOK, GrowsOld, SetRow
    <3>2. /\ [rows[r] EXCEPT !.age = rows[r].age + 1].status = rows[r].status
          /\ [rows[r] EXCEPT !.age = rows[r].age + 1].attempts = rows[r].attempts
      BY <3>1 DEF Row
    <3> QED BY <3>1, <3>2 DEF Typed, TypeOK, StoreTypeOK, Moves, Unmoved, Becomes
  <2> QED BY <1>1, <1>5, <2>1, <2>2 DEF Time, RetryDue, Ages, JobExpires
<1> QED BY <1>1, <1>2, <1>3, <1>4, <1>5 DEF Next, vars
-----------------------------------------------------------------------------
(* Every deployment: who has read a row and is still to write it.            *)

Scans(p, r) == scan[p][r] # 0

(* A write becomes pending only by a step that has read the row, and a row   *)
(* that says succeeded is read by none of them.                              *)
Pending ==
  /\ \A w \in Workers : \A r \in Runs :
       WorkerWillWrite(w, r)' => WorkerWillWrite(w, r) \/ rows[r].status # "succeeded"
  /\ \A p \in Processes : \A r \in Runs :
       Scans(p, r)' => Scans(p, r) \/ (Reclaims /\ rows[r].status = "running")
  /\ \A a \in Apis : \A r \in Runs :
       ReplayWillWrite(a, r)' => ReplayWillWrite(a, r) \/ rows[r].status \in {"failed", "dead_letter"}
  /\ \A a \in Apis : ApiAt(a, "dispatch_failed")' => ApiAt(a, "dispatch_failed") \/ Mode = "job"

LEMMA ScanMoves ==
  ASSUME Typed, NEW p \in Processes, ReclaimEnds(p) \/ ReclaimSelects(p)
  PROVE  \A q \in Processes : \A r \in Runs :
           Scans(q, r)' => Scans(q, r) \/ (Reclaims /\ rows[r].status = "running")
<1>1. scan \in [Processes -> [Runs -> Nat]]
  BY DEF Typed, TypeOK
<1>2. CASE ReclaimEnds(p)
  BY <1>1, <1>2 DEF ReclaimEnds, NothingStale, Scans
<1>3. CASE ReclaimSelects(p)
  BY <1>1, <1>3 DEF ReclaimSelects, StaleFound, StaleScan, Scans
<1> QED BY <1>2, <1>3

LEMMA ApiPending ==
  ASSUME Typed, NEW a \in Apis, Request(a) \/ ApiStep(a)
  PROVE  Pending
<1> USE ApiAfter DEF ApiAt, Scans
<1>0. /\ api[a] \in ApiState
      /\ a \in Processes
  BY DEF Typed, TypeOK, Processes
<1>1. \A pc \in ApiPc : StepApi(a, pc) => GoApi(a, Handler(pc, api[a].request, api[a].run, api[a].queued))
  BY <1>0 DEF StepApi, ApiState, Handler
<1>2. ASSUME NEW pc \in ApiPc, NEW q, NEW r, NEW n, GoApi(a, Handler(pc, q, r, n)),
             UNCHANGED worker,
             pc = "reset" => r \in Runs /\ rows[r].status \in {"failed", "dead_letter"},
             pc = "dispatch_failed" => Mode = "job",
             \A p \in Processes : \A t \in Runs :
               Scans(p, t)' => Scans(p, t) \/ (Reclaims /\ rows[t].status = "running")
      PROVE  Pending
  BY <1>2 DEF Pending, WorkerWillWrite, WorkerAt, ReplayWillWrite, Handler
<1>3. ASSUME NEW r \in Runs, Replay(a, r) PROVE Pending
  BY <1>2, <1>3 DEF Replay, ApiPc
<1>4. ASSUME JobRequestFails(a) PROVE Pending
  BY <1>1, <1>2, <1>4 DEF JobRequestFails, ApiPc
<1>5. ASSUME Dispatch(a) \/ ReplayReset(a) \/ Close(a) PROVE Pending
  BY <1>1, <1>2, <1>5 DEF Dispatch, ReplayReset, Close, ApiPc
<1>6. ASSUME NEW q, Submit(a, q) PROVE Pending
  BY <1>2, <1>6 DEF Submit, ApiPc
<1>7. ASSUME NEW r \in Runs, Recover(a, r) PROVE Pending
  BY <1>2, <1>7 DEF Recover, ApiPc
<1>8. ASSUME \/ CountQueued(a) \/ CountRunning(a) \/ CreateRun(a) \/ DispatchFailed(a)
             \/ RecoverWrite(a) \/ DrainQueued(a) \/ DrainRunning(a) \/ Restart(a)
      PROVE  Pending
  BY <1>2, <1>8 DEF CountQueued, CountRunning, CreateRun, DispatchFailed, RecoverWrite,
                    DrainQueued, DrainRunning, Restart, AfterRestart, IdleApi, ApiPc
<1>9. ASSUME ApiRefreshed(a) PROVE Pending
  BY <1>0, <1>2, <1>9, ScanMoves DEF ApiRefreshed, IdleApi, ApiPc
<1>10. ASSUME ApiSelectsStale(a) PROVE Pending
  BY <1>0, <1>10, ScanMoves
     DEF ApiSelectsStale, Pending, WorkerWillWrite, WorkerAt, ReplayWillWrite
<1> QED BY <1>3, <1>4, <1>5, <1>6, <1>7, <1>8, <1>9, <1>10 DEF Request, ApiStep

LEMMA WorkerPending ==
  ASSUME Typed, NEW w \in Workers, WorkerStep(w)
  PROVE  Pending
<1> USE WorkerAfter DEF WorkerAt, Scans
<1>0. /\ worker[w] \in WorkerState
      /\ w \in Processes
  BY DEF Typed, TypeOK, Processes
<1>1. \A pc \in WorkerPc : StepWorker(w, pc) => GoWorker(w, Working(pc, worker[w].run, worker[w].attempts))
  BY <1>0 DEF StepWorker, WorkerState, Working
<1>2. ASSUME NEW pc \in WorkerPc, NEW r, NEW n, GoWorker(w, Working(pc, r, n)),
             UNCHANGED api,
             pc = "failed" => r \in Runs /\ rows[r].status # "succeeded",
             \A p \in Processes : \A t \in Runs :
               Scans(p, t)' => Scans(p, t) \/ (Reclaims /\ rows[t].status = "running")
      PROVE  Pending
  BY <1>2 DEF Pending, WorkerWillWrite, ApiAt, ReplayWillWrite, Working
<1>3. UNCHANGED <<worker, api, scan>> => Pending
  BY DEF Pending, WorkerWillWrite, ApiAt, ReplayWillWrite
<1>4. ASSUME TakeTask(w) \/ Poll(w) \/ Wake(w) PROVE Pending
  BY <1>2, <1>3, <1>4
     DEF TakeTask, TakeClaim, TakeExecute, TakeRetry, Poll, Claim, Wake, IdleWorker, WorkerPc
<1>5. ASSUME NEW r \in Runs, StartPod(w, r) PROVE Pending
  BY <1>2, <1>5 DEF StartPod, WorkerPc
<1>6. ASSUME BeginClaimed(w) \/ BeginUnclaimed(w) \/ Succeed(w) \/ Persist(w) PROVE Pending
  BY <1>1, <1>2, <1>6 DEF BeginClaimed, BeginUnclaimed, Succeed, Persist, WorkerPc
<1>7. ASSUME Publish(w) PROVE Pending
  BY <1>3, <1>7 DEF Publish
<1>8. ASSUME Fail(w) PROVE Pending
  <2>1. worker[w].run \in Runs
    BY <1>8 DEF Typed, NamedRuns, Fail
  <2> QED BY <1>1, <1>2, <1>8, <2>1 DEF Fail, WorkerPc
<1>9. ASSUME GiveUp(w) \/ Retry(w) PROVE Pending
  BY <1>2, <1>9 DEF GiveUp, Retry, WorkerPc
<1>10. ASSUME WorkerSelectsStale(w) PROVE Pending
  BY <1>0, <1>10, ScanMoves
     DEF WorkerSelectsStale, Pending, WorkerWillWrite, ApiAt, ReplayWillWrite
<1>11. ASSUME WorkerRefreshed(w) PROVE Pending
  BY <1>0, <1>1, <1>2, <1>11, ScanMoves DEF WorkerRefreshed, IdleWorker, WorkerPc
<1> QED BY <1>4, <1>5, <1>6, <1>7, <1>8, <1>9, <1>10, <1>11 DEF WorkerStep

LEMMA PendingMoves == Typed /\ [Next]_vars => Pending
<1> SUFFICES ASSUME Typed, [Next]_vars PROVE Pending
  OBVIOUS
<1>1. UNCHANGED <<worker, api, scan>> => Pending
  BY DEF Pending, WorkerWillWrite, WorkerAt, ApiAt, ReplayWillWrite, Scans
<1>2. ASSUME NEW a \in Apis, Terminate(a) PROVE Pending
  BY <1>2, ApiAfter
     DEF Terminate, Handler, Pending, WorkerWillWrite, WorkerAt, ApiAt, ReplayWillWrite, Scans
<1>3. ASSUME NEW a \in Apis, CrashApi(a) PROVE Pending
  <2>1. \A w \in Workers : worker'[w].pc = "failed" => worker'[w] = worker[w]
    BY <1>3 DEF CrashApi, IdleWorker, Working
  <2>2. \A p \in Processes : \A r \in Runs : Scans(p, r)' => Scans(p, r)
    BY <1>3 DEF CrashApi, NothingStale, Scans
  <2> QED BY <1>3, <2>1, <2>2, ApiAfter
          DEF CrashApi, AfterRestart, Handler, Pending, WorkerWillWrite, WorkerAt, ApiAt, ReplayWillWrite
<1>4. ASSUME NEW w \in Workers, CrashWorker(w) PROVE Pending
  <2>1. GoWorker(w, Working("end_refresh", 0, 0)) \/ GoWorker(w, Working("idle", 0, 0))
    BY <1>4 DEF CrashWorker, IdleWorker
  <2>2. \A p \in Processes : \A r \in Runs : Scans(p, r)' => Scans(p, r)
    BY <1>4 DEF CrashWorker, NothingStale, Scans, Typed, TypeOK
  <2> QED BY <1>4, <2>1, <2>2, WorkerAfter
          DEF CrashWorker, Working, Pending, WorkerWillWrite, WorkerAt, ApiAt, ReplayWillWrite
<1>5. CASE Time
  BY <1>1, <1>5 DEF Time, RetryDue, Ages, JobExpires, qvars
<1> QED BY <1>1, <1>2, <1>3, <1>4, <1>5, ApiPending, WorkerPending DEF Next, Crash, vars, qvars
-----------------------------------------------------------------------------
(* What these two say of single deployments. *)

(* With claim workers: no handler dead-letters a run because its Job was     *)
(* refused.                                                                  *)
NoDispatchFails == \A a \in Apis : ~ApiAt(a, "dispatch_failed")

LEMMA ClaimWorkersStep ==
  ASSUME ClaimWorkers
  PROVE  Typed /\ NoDispatchFails /\ [Next]_vars => Typed' /\ NoDispatchFails'
<1> SUFFICES ASSUME Typed, NoDispatchFails, [Next]_vars PROVE Typed' /\ NoDispatchFails'
  OBVIOUS
<1>1. Mode # "job"
  BY DEF ClaimWorkers
<1> QED BY <1>1, TypedStep, PendingMoves DEF Pending, NoDispatchFails

LEMMA ClaimWorkersInit == Init => Typed /\ NoDispatchFails
<1>1. Init => NoDispatchFails
  BY DEF Init, NoDispatchFails, ApiAt, IdleApi, Handler
<1> QED BY <1>1, TypedInit

(* Where workers claim their runs, with or without the stale-run reclaim,    *)
(* dry-run recovery and any number of replaying replicas, a success is only  *)
(* taken back by a process that read the row before it succeeded.            *)
THEOREM SuccessOutlivesReaders ==
  ASSUME ClaimWorkers
  PROVE  Spec => SuccessLostOnlyToStaleReaders
<1> DEFINE Kept ==
      \A r \in Runs : rows[r].status = "succeeded" =>
        /\ \/ rows'[r].status = "succeeded"
           \/ \E w \in Workers : WorkerWillWrite(w, r)
           \/ \E p \in Processes : scan[p][r] # 0
           \/ \E a \in Apis : ReplayWillWrite(a, r)
        /\ \A w \in Workers : WorkerWillWrite(w, r)' => WorkerWillWrite(w, r)
        /\ \A p \in Processes : scan'[p][r] # 0 => scan[p][r] # 0
        /\ \A a \in Apis : ReplayWillWrite(a, r)' => ReplayWillWrite(a, r)
<1>1. Typed /\ NoDispatchFails /\ [Next]_vars => [Kept]_vars
  <2> SUFFICES ASSUME Typed, NoDispatchFails, [Next]_vars,
                      NEW r \in Runs, rows[r].status = "succeeded"
               PROVE  /\ \/ rows'[r].status = "succeeded"
                         \/ \E w \in Workers : WorkerWillWrite(w, r)
                         \/ \E p \in Processes : scan[p][r] # 0
                         \/ \E a \in Apis : ReplayWillWrite(a, r)
                      /\ \A w \in Workers : WorkerWillWrite(w, r)' => WorkerWillWrite(w, r)
                      /\ \A p \in Processes : scan'[p][r] # 0 => scan[p][r] # 0
                      /\ \A a \in Apis : ReplayWillWrite(a, r)' => ReplayWillWrite(a, r)
    OBVIOUS
  <2>1. Unmoved(r) \/ WorkerMoves(r) \/ ApiMoves(r)
    BY RowsMove DEF Moves
  <2>2. \A n \in Nat \ {0} : StaleWrite(r, n) => \E p \in Processes : scan[p][r] # 0
    BY DEF StaleWrite
  <2>3. \/ rows'[r].status = "succeeded"
        \/ \E w \in Workers : WorkerWillWrite(w, r)
        \/ \E p \in Processes : scan[p][r] # 0
        \/ \E a \in Apis : ReplayWillWrite(a, r)
    BY <2>1, <2>2 DEF Unmoved, WorkerMoves, ApiMoves, Becomes, NoDispatchFails
  <2>4. /\ \A w \in Workers : WorkerWillWrite(w, r)' => WorkerWillWrite(w, r)
        /\ \A p \in Processes : scan'[p][r] # 0 => scan[p][r] # 0
        /\ \A a \in Apis : ReplayWillWrite(a, r)' => ReplayWillWrite(a, r)
    BY PendingMoves DEF Pending, Scans
  <2> QED BY <2>3, <2>4
<1> QED BY <1>1, ClaimWorkersInit, ClaimWorkersStep, PTL DEF Spec, SuccessLostOnlyToStaleReaders

(* Without claim workers a worker makes its row running whatever the row     *)
(* said, so that a row must never reach the limit, not even a dead letter's. *)
NothingReclaimed ==
  /\ \A r \in Runs : rows[r].attempts < MaxAttempts
  /\ \A p \in Processes : \A r \in Runs : ~Scans(p, r)

Limited == AttemptsLeft /\ (ClaimWorkers \/ NothingReclaimed)

(* What may still execute has attempts left, in every deployment whose       *)
(* workers claim, and in every deployment without the stale-run reclaim.     *)
THEOREM AttemptsAreLimited ==
  ASSUME ClaimWorkers \/ ~Reclaims
  PROVE  Spec => []AttemptsLeft
<1>1. Init => Limited
  <2> SUFFICES ASSUME Init PROVE Limited
    OBVIOUS
  <2>1. \A r \in Runs : rows[r].status = "absent" /\ rows[r].attempts = 0
    BY DEF Init, InitStore, NoRow
  <2>2. 0 < MaxAttempts
    BY StoreAssumption
  <2> QED BY <2>1, <2>2 DEF Init, NothingStale, Limited, AttemptsLeft, NothingReclaimed,
                            InFlight, InStatus, Scans
<1>2. Typed /\ Limited /\ [Next]_vars => Limited'
  <2> SUFFICES ASSUME Typed, Limited, [Next]_vars PROVE Limited'
    OBVIOUS
  <2>1. /\ MaxAttempts \in Nat /\ 0 < MaxAttempts
        /\ \A r \in Runs : rows[r].attempts \in Nat
    BY StoreAssumption, RowFields DEF Typed, TypeOK
  <2>2. \A r \in Runs : Unmoved(r) \/ WorkerMoves(r) \/ ApiMoves(r)
    BY RowsMove DEF Moves
  <2>3. CASE ClaimWorkers
    BY <2>1, <2>2, <2>3
       DEF Limited, AttemptsLeft, InFlight, InStatus, Unmoved, WorkerMoves, ApiMoves, StaleWrite,
           Becomes, ClaimWorkers
  <2>4. CASE ~Reclaims /\ NothingReclaimed
    <3>1. \A p \in Processes : \A r \in Runs : ~Scans(p, r)'
      BY <2>4, PendingMoves DEF Pending, NothingReclaimed
    <3>2. \A r \in Runs : \A n \in Nat \ {0} : ~StaleWrite(r, n)
      BY <2>4 DEF NothingReclaimed, StaleWrite, Scans
    <3>3. \A r \in Runs : (rows[r].attempts < MaxAttempts)'
      BY <2>1, <2>2, <2>4, <3>2
         DEF NothingReclaimed, Unmoved, WorkerMoves, ApiMoves, Becomes
    <3> QED BY <3>1, <3>3 DEF Limited, NothingReclaimed, AttemptsLeft, InFlight, InStatus
  <2> QED BY <2>3, <2>4 DEF Limited
<1>3. Limited => AttemptsLeft
  BY DEF Limited
<1> QED BY <1>1, <1>2, <1>3, TypedInit, TypedStep, PTL DEF Spec

(* One replica.  It counts the queued rows, then the running ones: between   *)
(* the two nobody submits, and what others put back has been attempted.      *)
CountedNone ==
  \A a \in Apis : ApiAt(a, "drain_running") /\ api[a].queued = 0 =>
    \A r \in Runs : rows[r].status = "queued" => rows[r].attempts > 0

FailuresCount == \A w \in Workers : WorkerAt(w, "failed") => worker[w].attempts > 0

LEMMA FailuresKept ==
  ASSUME Typed, FailuresCount, [Next]_vars
  PROVE  FailuresCount'
<1> USE DEF WorkerAt
<1>1. ASSUME NEW w \in Workers, NEW pc, NEW r, NEW n, GoWorker(w, Working(pc, r, n)),
             pc # "failed" \/ n > 0
      PROVE  FailuresCount'
  BY <1>1, WorkerAfter DEF FailuresCount, Working
<1>2. ASSUME NEW w \in Workers, NEW pc, pc # "failed", StepWorker(w, pc) PROVE FailuresCount'
  <2>1. worker[w] \in WorkerState
    BY DEF Typed, TypeOK
  <2>2. [worker[w] EXCEPT !.pc = pc].pc # "failed"
    BY <1>2, <2>1 DEF WorkerState
  <2> QED BY <1>2, <2>2, WorkerAfter DEF StepWorker, FailuresCount
<1>3. UNCHANGED worker => FailuresCount'
  BY DEF FailuresCount
<1>4. ASSUME NEW w \in Workers, Fail(w) PROVE FailuresCount'
  <2>1. rows[worker[w].run].attempts \in Nat
    BY <1>4, RowFields DEF Typed, TypeOK, NamedRuns, Fail
  <2>2. rows[worker[w].run].attempts + 1 > 0
    BY <2>1
  <2> QED BY <1>1, <1>2, <1>4, <2>2 DEF Fail
<1>5. ASSUME NEW w \in Workers, WorkerStep(w), ~Fail(w) PROVE FailuresCount'
  <2>1. CASE TakeTask(w) \/ Poll(w) \/ Wake(w)
    BY <1>1, <1>3, <2>1
       DEF TakeTask, TakeClaim, TakeExecute, TakeRetry, Poll, Claim, Wake, IdleWorker
  <2>2. ASSUME NEW r \in Runs, StartPod(w, r) PROVE FailuresCount'
    BY <1>1, <2>2 DEF StartPod
  <2>3. CASE \/ BeginClaimed(w) \/ BeginUnclaimed(w) \/ Publish(w) \/ Succeed(w) \/ Persist(w)
             \/ WorkerSelectsStale(w)
    BY <1>2, <1>3, <2>3
       DEF BeginClaimed, BeginUnclaimed, Publish, Succeed, Persist, WorkerSelectsStale
  <2>4. CASE GiveUp(w) \/ Retry(w)
    BY <1>1, <2>4 DEF GiveUp, Retry
  <2>5. CASE WorkerRefreshed(w)
    BY <1>1, <1>2, <2>5 DEF WorkerRefreshed, IdleWorker
  <2> QED BY <1>5, <2>1, <2>2, <2>3, <2>4, <2>5 DEF WorkerStep
<1>6. ASSUME NEW a \in Apis, CrashApi(a) PROVE FailuresCount'
  BY <1>6 DEF CrashApi, IdleWorker, Working, FailuresCount
<1>7. ASSUME NEW w \in Workers, CrashWorker(w) PROVE FailuresCount'
  BY <1>1, <1>7 DEF CrashWorker, IdleWorker
<1>8. ASSUME NEW a \in Apis, Request(a) \/ ApiStep(a) \/ Terminate(a) PROVE FailuresCount'
  BY <1>3, <1>8
     DEF Request, Submit, Replay, Recover, ApiStep, CountQueued, CountRunning, CreateRun, Dispatch,
         JobRequestFails, DispatchFailed, ReplayReset, RecoverWrite, ApiSelectsStale, ApiRefreshed,
         DrainQueued, DrainRunning, Close, Restart, Terminate
<1>9. Time \/ UNCHANGED vars => FailuresCount'
  BY <1>3 DEF Time, RetryDue, Ages, JobExpires, vars, qvars
<1> QED BY <1>4, <1>5, <1>6, <1>7, <1>8, <1>9 DEF Next, Crash

LEMMA NoneInStatus ==
  ASSUME NEW s, Cardinality(InStatus(s)) = 0
  PROVE  \A r \in Runs : rows[r].status # s
<1>1. 1 \in Int /\ MaxRuns \in Int
  BY StoreAssumption
<1>2. IsFiniteSet(Runs)
  BY <1>1, FS_Interval DEF Runs
<1>3. IsFiniteSet(InStatus(s))
  BY <1>2, FS_Subset DEF InStatus
<1>4. InStatus(s) = {}
  BY <1>3, FS_EmptySet
<1> QED BY <1>4 DEF InStatus

LEMMA CountedNoneStep ==
  ASSUME \A a, b \in Apis : a = b, Typed, FailuresCount, CountedNone, [Next]_vars
  PROVE  CountedNone'
<1> SUFFICES ASSUME NEW a \in Apis, (ApiAt(a, "drain_running") /\ api[a].queued = 0)',
                    NEW r \in Runs, (rows[r].status = "queued")'
             PROVE  (rows[r].attempts > 0)'
  BY DEF CountedNone
<1>1. CASE DrainQueued(a)
  <2>1. Cardinality(InStatus("queued")) = 0
    BY <1>1, ApiAfter DEF DrainQueued, Handler
  <2>2. rows[r].status # "queued" /\ UNCHANGED rows
    BY <1>1, <2>1, NoneInStatus DEF DrainQueued
  <2> QED BY <2>2
<1>2. CASE api[a].pc = "drain_running" /\ api[a].queued = 0
  <2>1. Unmoved(r) \/ WorkerMoves(r) \/ ApiMoves(r)
    BY RowsMove DEF Moves
  <2>2. \A b \in Apis : ~ApiAt(b, "create") /\ ~ReplayWillWrite(b, r)
    BY <1>2 DEF ApiAt, ReplayWillWrite
  <2>3. rows[r].status = "queued" => rows[r].attempts > 0
    BY <1>2 DEF CountedNone, ApiAt
  <2> QED BY <2>1, <2>2, <2>3
          DEF Unmoved, WorkerMoves, ApiMoves, StaleWrite, Becomes, FailuresCount, WorkerWillWrite
<1>3. \/ DrainQueued(a)
      \/ api'[a] = api[a]
      \/ api'[a].pc # "drain_running"
  <2>1. ASSUME Request(a) \/ ApiStep(a), ~DrainQueued(a), api'[a] # api[a]
        PROVE  api'[a].pc # "drain_running"
    <3>1. api[a] \in ApiState
      BY DEF Typed, TypeOK
    <3>2. \A pc : StepApi(a, pc) => api'[a].pc = pc
      BY <3>1, ApiAfter DEF StepApi, ApiState
    <3>3. Dispatch(a) \/ JobRequestFails(a) \/ ReplayReset(a) \/ Close(a) => api'[a].pc # "drain_running"
      BY <3>2 DEF Dispatch, JobRequestFails, ReplayReset, Close
    <3>4. ~ApiSelectsStale(a)
      BY <2>1 DEF ApiSelectsStale
    <3>5. ASSUME \/ CountQueued(a) \/ CountRunning(a) \/ CreateRun(a) \/ DispatchFailed(a)
                 \/ RecoverWrite(a) \/ ApiRefreshed(a) \/ DrainRunning(a) \/ Restart(a)
          PROVE  api'[a].pc # "drain_running"
      <4>1. \A pc, q, s, n : GoApi(a, Handler(pc, q, s, n)) => pc = api'[a].pc
        BY ApiAfter DEF Handler
      <4> QED BY <3>5, <4>1
              DEF CountQueued, CountRunning, CreateRun, DispatchFailed, RecoverWrite, ApiRefreshed,
                  DrainRunning, Restart, IdleApi, AfterRestart
    <3>6. ASSUME Request(a) PROVE api'[a].pc # "drain_running"
      <4>1. PICK pc \in {"count", "reset", "recover"} : \E q, t : GoApi(a, Handler(pc, q, t, 0))
        BY <3>6 DEF Request, Submit, Replay, Recover
      <4> QED BY <4>1, ApiAfter DEF Handler
    <3> QED BY <2>1, <3>3, <3>4, <3>5, <3>6 DEF ApiStep
  <2>2. Terminate(a) \/ CrashApi(a) => api'[a].pc # "drain_running"
    BY ApiAfter DEF Terminate, CrashApi, AfterRestart, Handler
  <2>3. ASSUME NEW w \in Workers, WorkerStep(w) \/ CrashWorker(w) PROVE UNCHANGED api
    BY <2>3
       DEF WorkerStep, TakeTask, TakeClaim, TakeExecute, TakeRetry, Poll, Wake, StartPod, BeginClaimed,
           BeginUnclaimed, Publish, Succeed, Persist, Fail, GiveUp, Retry, WorkerSelectsStale,
           WorkerRefreshed, CrashWorker
  <2>4. Time \/ UNCHANGED vars => UNCHANGED api
    BY DEF Time, RetryDue, Ages, JobExpires, vars, qvars
  <2> QED BY <2>1, <2>2, <2>3, <2>4 DEF Next, Crash
<1> QED BY <1>1, <1>2, <1>3 DEF ApiAt

(* In every deployment with one replica: drain calls the queue empty only    *)
(* when what is left of it was attempted and put back between its counts.    *)
THEOREM DrainSeesTheRest ==
  ASSUME \A a, b \in Apis : a = b
  PROVE  Spec => DrainMissesOnlyRetries
<1> DEFINE Missed ==
      \A a \in Apis : api'[a].pc = "drained" /\ ~ApiAt(a, "drained") =>
        \A r \in InFlight : rows[r].status = "queued" /\ rows[r].attempts > 0
<1>1. Init => FailuresCount /\ CountedNone
  BY DEF Init, FailuresCount, CountedNone, WorkerAt, ApiAt, IdleApi, IdleWorker, Handler, Working
<1>2. Typed /\ CountedNone /\ [Next]_vars => [Missed]_vars
  <2> SUFFICES ASSUME Typed, CountedNone, [Next]_vars,
                      NEW a \in Apis, api'[a].pc = "drained", ~ApiAt(a, "drained"),
                      NEW r \in InFlight
               PROVE  rows[r].status = "queued" /\ rows[r].attempts > 0
    OBVIOUS
  <2>1. DrainRunning(a)
    <3>1. api[a] \in ApiState /\ api'[a] # api[a]
      BY DEF Typed, TypeOK, ApiAt
    <3>2. \A pc : StepApi(a, pc) => api'[a].pc = pc
      BY <3>1, ApiAfter DEF StepApi, ApiState
    <3>3. ~Dispatch(a) /\ ~JobRequestFails(a) /\ ~ReplayReset(a) /\ ~Close(a)
      BY <3>2 DEF Dispatch, JobRequestFails, ReplayReset, Close
    <3>4. ~ApiSelectsStale(a)
      BY <3>1 DEF ApiSelectsStale
    <3>5. \A pc, q, s, n : GoApi(a, Handler(pc, q, s, n)) => pc = "drained"
      BY ApiAfter DEF Handler
    <3>6. /\ ~CountQueued(a) /\ ~CountRunning(a) /\ ~CreateRun(a) /\ ~DispatchFailed(a)
          /\ ~RecoverWrite(a) /\ ~ApiRefreshed(a) /\ ~DrainQueued(a) /\ ~Restart(a)
      BY <3>5 DEF CountQueued, CountRunning, CreateRun, DispatchFailed, RecoverWrite, ApiRefreshed,
                      DrainQueued, Restart, IdleApi, AfterRestart
    <3>7. ~Request(a) /\ ~Terminate(a) /\ ~CrashApi(a)
      BY <3>5 DEF Request, Submit, Replay, Recover, Terminate, CrashApi, AfterRestart
    <3>8. ASSUME NEW w \in Workers PROVE ~WorkerStep(w) /\ ~CrashWorker(w)
      BY <3>1
         DEF WorkerStep, TakeTask, TakeClaim, TakeExecute, TakeRetry, Poll, Wake, StartPod, BeginClaimed,
             BeginUnclaimed, Publish, Succeed, Persist, Fail, GiveUp, Retry, WorkerSelectsStale,
             WorkerRefreshed, CrashWorker
    <3>9. ~Time /\ ~UNCHANGED vars
      BY <3>1 DEF Time, RetryDue, Ages, JobExpires, vars, qvars
    <3> QED BY <3>3, <3>4, <3>6, <3>7, <3>8, <3>9 DEF Next, Crash, ApiStep
  <2>2. api[a].queued \in Nat /\ Cardinality(InStatus("running")) \in Nat
    BY RunsFinite DEF Typed, TypeOK, ApiState, InStatus
  <2>3. api[a].queued + Cardinality(InStatus("running")) = 0
    BY <2>1, ApiAfter DEF DrainRunning, Handler
  <2>4. api[a].queued = 0 /\ Cardinality(InStatus("running")) = 0
    BY <2>2, <2>3
  <2>5. rows[r].status # "running" /\ r \in Runs
    BY <2>4, NoneInStatus DEF InFlight, InStatus
  <2>6. rows[r].status = "queued"
    BY <2>5 DEF InFlight, InStatus
  <2>7. rows[r].attempts > 0
    BY <2>1, <2>4, <2>5, <2>6 DEF CountedNone, DrainRunning
  <2> QED BY <2>6, <2>7
<1>3. Typed /\ FailuresCount /\ CountedNone /\ [Next]_vars => FailuresCount' /\ CountedNone'
  BY FailuresKept, CountedNoneStep
<1> QED BY <1>1, <1>2, <1>3, TypedInit, TypedStep, PTL DEF Spec, DrainMissesOnlyRetries
-----------------------------------------------------------------------------
(* The job deployment: the Job named after a run is the lock on it.          *)

OwnsJob == \A w \in Workers : worker[w].run # 0 => job[worker[w].run] = "started"

OnePod ==
  \A v, w \in Workers : worker[v].run # 0 /\ worker[v].run = worker[w].run => v = w

JobInv == Typed /\ (\A a \in Apis : pool[a] = << >>) /\ OwnsJob /\ OnePod

(* Who works on nothing new keeps its Job, or gives both up. *)
JobsStay ==
  /\ \A a \in Apis : pool'[a] = << >>
  /\ \A w \in Workers : worker'[w].run \in {worker[w].run, 0}
  /\ \A r \in Runs : job[r] = "started" =>
       job'[r] = "started" \/ \A w \in Workers : worker'[w].run # r

LEMMA JobsStayEnough ==
  ASSUME JobInv, JobsStay
  PROVE  OwnsJob' /\ OnePod'
<1>1. \A w \in Workers : worker[w].run \in Runs \cup {0}
  BY DEF JobInv, Typed, TypeOK, WorkerState
<1>2. OwnsJob'
  BY <1>1 DEF JobInv, JobsStay, OwnsJob
<1>3. OnePod'
  BY DEF JobInv, JobsStay, OnePod
<1> QED BY <1>2, <1>3

LEMMA JobApi ==
  ASSUME Mode = "job", JobInv, NEW a \in Apis, Request(a) \/ ApiStep(a)
  PROVE  JobsStay
<1>1. ASSUME UNCHANGED <<pool, worker>>, \A r \in Runs : job[r] = "started" => job'[r] = "started"
      PROVE  JobsStay
  BY <1>1 DEF JobInv, JobsStay
<1>2. job \in [Runs -> {"none", "pending", "started", "ended"}] /\ (ApiAt(a, "dispatch") => api[a].run \in Runs)
  BY DEF JobInv, Typed, TypeOK, NamedRuns, ApiAt
<1>3. Dispatch(a) \/ JobRequestFails(a) => JobsStay
  BY <1>1, <1>2 DEF Dispatch, JobRequestFails
<1>4. ASSUME ~Dispatch(a), ~JobRequestFails(a) PROVE UNCHANGED <<pool, worker, job>>
  BY <1>4
     DEF Request, Submit, Replay, Recover, ApiStep, CountQueued, CountRunning, CreateRun, DispatchFailed,
         ReplayReset, RecoverWrite, ApiSelectsStale, ApiRefreshed, DrainQueued, DrainRunning, Close,
         Restart
<1> QED BY <1>1, <1>3, <1>4

LEMMA JobWorker ==
  ASSUME Mode = "job", JobInv, NEW w \in Workers, WorkerStep(w)
  PROVE  JobsStay \/ \E r \in Runs : StartPod(w, r)
<1> USE WorkerAfter DEF JobInv
<1>0. /\ worker[w] \in WorkerState /\ Home[w] \in Apis
      /\ job \in [Runs -> {"none", "pending", "started", "ended"}]
  BY QueueAssumption DEF Typed, TypeOK
<1>1. ASSUME NEW s, GoWorker(w, s), s.run \in {worker[w].run, 0}, UNCHANGED <<pool, job>>
      PROVE  JobsStay
  BY <1>1 DEF JobsStay
<1>2. ASSUME NEW pc, StepWorker(w, pc), UNCHANGED <<pool, job>> PROVE JobsStay
  <2>1. [worker[w] EXCEPT !.pc = pc].run = worker[w].run
    BY <1>0 DEF WorkerState
  <2> QED BY <1>1, <1>2, <2>1 DEF StepWorker
<1>3. ~TakeTask(w) /\ ~Poll(w) /\ ~BeginClaimed(w)
  BY <1>0 DEF TakeTask, Poll, BeginClaimed, ClaimWorkers
<1>4. Wake(w) => JobsStay
  BY <1>1 DEF Wake, IdleWorker, Working
<1>5. BeginUnclaimed(w) \/ Succeed(w) \/ Persist(w) => JobsStay
  BY <1>2 DEF BeginUnclaimed, Succeed, Persist
<1>6. Publish(w) \/ WorkerSelectsStale(w) => JobsStay
  BY DEF Publish, WorkerSelectsStale, JobsStay
<1>7. Fail(w) => JobsStay
  BY <1>1, <1>2 DEF Fail, Working
<1>8. GiveUp(w) => JobsStay
  BY <1>1 DEF GiveUp, Working
<1>9. Retry(w) => JobsStay
  BY <1>1 DEF Retry, Working, Pooled
<1>10. ASSUME WorkerRefreshed(w) PROVE JobsStay
  <2>1. CASE WorkerAt(w, "start_refresh") /\ StepWorker(w, "exec") /\ UNCHANGED job
    BY <1>2, <1>10, <2>1 DEF WorkerRefreshed
  <2>2. CASE GoWorker(w, IdleWorker) /\ job' = Ended(worker[w].run)
    <3>1. \A v \in Workers : worker'[v].run = IF v = w THEN 0 ELSE worker[v].run
      BY <2>2 DEF IdleWorker, Working
    <3>2. \A r \in Runs : r # worker[w].run => job'[r] = job[r]
      BY <1>0, <2>2 DEF Ended
    <3>3. \A v \in Workers : worker[w].run \in Runs => worker'[v].run # worker[w].run
      BY <3>1 DEF OnePod, Runs
    <3> QED BY <1>0, <1>10, <3>1, <3>2, <3>3 DEF WorkerRefreshed, JobsStay
  <2> QED BY <1>10, <2>1, <2>2 DEF WorkerRefreshed
<1> QED BY <1>3, <1>4, <1>5, <1>6, <1>7, <1>8, <1>9, <1>10 DEF WorkerStep

LEMMA JobCrash ==
  ASSUME Mode = "job", JobInv, Crash
  PROVE  JobsStay
<1> USE DEF JobInv
<1>1. ASSUME NEW a \in Apis, Terminate(a) PROVE JobsStay
  BY <1>1 DEF Terminate, JobsStay
<1>2. ASSUME NEW a \in Apis, CrashApi(a) PROVE JobsStay
  <2>1. \A w \in Workers : worker'[w] = worker[w]
    BY <1>2 DEF CrashApi, Threads, Pooled
  <2>2. \A b \in Apis : pool'[b] = << >>
    BY <1>2 DEF CrashApi, Typed, TypeOK
  <2> QED BY <1>2, <2>1, <2>2 DEF CrashApi, JobsStay
<1>3. ASSUME NEW w \in Workers, CrashWorker(w) PROVE JobsStay
  <2>1. \A v \in Workers : worker'[v].run = IF v = w THEN 0 ELSE worker[v].run
    BY <1>3, WorkerAfter DEF CrashWorker, IdleWorker, Working
  <2>2. \A r \in Runs : r # worker[w].run => job'[r] = job[r]
    BY <1>3 DEF CrashWorker, Ended, Typed, TypeOK
  <2>3. \A v \in Workers : worker[w].run \in Runs => worker'[v].run # worker[w].run
    BY <2>1 DEF OnePod, Runs
  <2> QED BY <1>3, <2>1, <2>2, <2>3 DEF CrashWorker, JobsStay
<1> QED BY <1>1, <1>2, <1>3 DEF Crash

LEMMA JobInvStep == Mode = "job" /\ JobInv /\ [Next]_vars => JobInv'
<1> SUFFICES ASSUME Mode = "job", JobInv, [Next]_vars
             PROVE  (\A a \in Apis : pool'[a] = << >>) /\ OwnsJob' /\ OnePod'
  BY TypedStep DEF JobInv
<1>1. JobsStay => (\A a \in Apis : pool'[a] = << >>) /\ OwnsJob' /\ OnePod'
  BY JobsStayEnough DEF JobsStay
<1>2. ASSUME NEW w \in Workers, NEW r \in Runs, StartPod(w, r)
      PROVE  (\A a \in Apis : pool'[a] = << >>) /\ OwnsJob' /\ OnePod'
  <2>1. \A v \in Workers : worker'[v].run = IF v = w THEN r ELSE worker[v].run
    BY <1>2, WorkerAfter DEF StartPod, Working, JobInv
  <2>2. \A t \in Runs : job'[t] = IF t = r THEN "started" ELSE job[t]
    BY <1>2 DEF StartPod, JobInv, Typed, TypeOK
  <2>3. \A v \in Workers : worker[v].run # r
    BY <1>2 DEF StartPod, JobInv, OwnsJob, Runs
  <2>4. \A v \in Workers : worker[v].run \in Runs \cup {0}
    BY DEF JobInv, Typed, TypeOK, WorkerState
  <2>5. OwnsJob' /\ OnePod'
    BY <2>1, <2>2, <2>3, <2>4 DEF JobInv, OwnsJob, OnePod
  <2> QED BY <1>2, <2>5 DEF StartPod, JobInv
<1>3. UNCHANGED vars => JobsStay
  BY DEF vars, qvars, JobInv, JobsStay
<1>4. Time => JobsStay
  <2>1. \A r \in Runs : JobExpires(r) => JobsStay
    BY DEF JobExpires, JobInv, Typed, TypeOK, JobsStay
  <2> QED BY <2>1 DEF Time, RetryDue, Ages, qvars, JobInv, JobsStay
<1> QED BY <1>1, <1>2, <1>3, <1>4, JobApi, JobWorker, JobCrash DEF Next

(* In the job deployment, with replays by any replica, recovery, reclaim and *)
(* deaths, two pods never execute the same run: whoever works on it has its  *)
(* Job, which is given out once and returns only when the pod is gone.       *)
THEOREM JobSingleExecutor ==
  ASSUME Mode = "job"
  PROVE  Spec => []SingleExecutor
<1>1. Init => JobInv
  <2>1. Init => (\A a \in Apis : pool[a] = << >>) /\ OwnsJob /\ OnePod
    BY DEF Init, OwnsJob, OnePod, IdleWorker, Working
  <2> QED BY <2>1, TypedInit DEF JobInv
<1>2. JobInv => SingleExecutor
  BY DEF JobInv, OnePod, SingleExecutor, Executes, Runs
<1> QED BY <1>1, <1>2, JobInvStep, PTL DEF Spec
=============================================================================
