------------------------------ MODULE RunQueue ------------------------------
(***************************************************************************)
(* The asynchronous run queue (run_queue.py, cli/serve.py) over the `runs` *)
(* table of RunStore.  API replicas submit, replay and recover runs, drain *)
(* and restart; workers execute runs, retry them and may die.              *)
(*                                                                         *)
(* Mode is the deployment build_run_queue resolves:                        *)
(*   inline   - SQLite, thread pool in the API process                     *)
(*   claim    - PostgreSQL, thread pool in every API replica               *)
(*   external - enqueue only; `repave run-worker` processes claim rows     *)
(*   job      - enqueue only; one Kubernetes Job per run                   *)
(*                                                                         *)
(* API handlers are `async def` around synchronous calls, so one replica   *)
(* runs one handler at a time; replicas, pool threads and workers          *)
(* interleave at every SQL statement.                                      *)
(***************************************************************************)
EXTENDS RunStore, Sequences

CONSTANTS Mode,        \* "inline", "claim", "external" or "job"
          Apis,        \* API replicas
          Workers,     \* pool threads, run-worker processes or Job pods
          Home,        \* [Workers -> Apis]: the replica a pool thread lives in
          Replayers,   \* replicas that may receive a replay request
          DryRuns,     \* runs submitted with dry_run
          MaxDepth,    \* durability.queue_max_depth
          Reclaims,    \* run_stale_seconds > 0
          MaxCrashes   \* bound: process deaths and shutdowns together

ASSUME QueueAssumption ==
  /\ Mode \in {"inline", "claim", "external", "job"}
  /\ Apis \cap Workers = {}
  /\ Home \in [Workers -> Apis]
  /\ Replayers \subseteq Apis
  /\ DryRuns \subseteq Runs
  /\ MaxDepth \in Nat
  /\ Reclaims \in BOOLEAN
  /\ MaxCrashes \in Nat

VARIABLES api,         \* per replica: the handler it is running
          pool,        \* per replica: the executor's FIFO of tasks
          worker,      \* per worker: what it is executing
          scan,        \* per process: stale rows selected, not yet updated
          job,         \* per run: its Kubernetes Job object
          log,         \* per run: which marking events its event log holds
          crashes,     \* deaths so far, for MaxCrashes
          executions   \* history: executions begun since submit or replay

qvars == <<api, pool, worker, scan, job, log, crashes, executions>>
vars  == <<rows, qvars>>

Pooled       == Mode \in {"inline", "claim"}    \* not _enqueue_only
ClaimWorkers == Mode \in {"claim", "external"}  \* _use_claim_workers
Processes    == Apis \cup Workers

(* One RunStore lock covers the whole reclaim when there is one process. *)
AtomicReclaim == Mode = "inline"

ApiPc == {"idle", "count", "check", "create", "dispatch",
          "dispatch_failed", "reset", "recover", "refresh", "drain", "drain_running", "drained", "closing"}
WorkerPc == {"idle", "sleep", "begin", "start_refresh", "exec", "failed",
             "persist", "end_refresh"}

ApiState    == [pc : ApiPc, request : Requests \cup {NoRequest},
                run : Runs \cup {0}, queued : Nat]
WorkerState == [pc : WorkerPc, run : Runs \cup {0}, attempts : Nat]
Task        == [kind : {"claim"}, run : {0}, attempts : Nat]
                 \cup [kind : {"execute", "retry"}, run : Runs, attempts : Nat]

Handler(pc, request, run, queued) ==
  [pc |-> pc, request |-> request, run |-> run, queued |-> queued]
Working(pc, run, attempts) == [pc |-> pc, run |-> run, attempts |-> attempts]

IdleApi      == Handler("idle", NoRequest, 0, 0)
AfterRestart == Handler("refresh", NoRequest, 0, 0)
IdleWorker   == Working("idle", 0, 0)

Init ==
  /\ InitStore
  /\ api        = [a \in Apis |-> IdleApi]
  /\ pool       = [a \in Apis |-> << >>]
  /\ worker     = [w \in Workers |-> IdleWorker]
  /\ scan       = [p \in Processes |-> NothingStale]
  /\ job        = [r \in Runs |-> "none"]
  /\ log        = [r \in Runs |-> {}]
  /\ crashes    = 0
  /\ executions = [r \in Runs |-> 0]

ApiAt(a, pc)    == api[a].pc = pc
WorkerAt(w, pc) == worker[w].pc = pc

GoApi(a, state)    == api' = [api EXCEPT ![a] = state]
GoWorker(w, state) == worker' = [worker EXCEPT ![w] = state]
StepApi(a, pc)     == GoApi(a, [api[a] EXCEPT !.pc = pc])
StepWorker(w, pc)  == GoWorker(w, [worker[w] EXCEPT !.pc = pc])

EmitEvent(r, kind) == log' = [log EXCEPT ![r] = @ \cup {kind}]
-----------------------------------------------------------------------------
(* RunQueue.submit.  A request id already stored returns that run, and so  *)
(* changes nothing; a full queue raises RunQueueFullError.                 *)

(* Bound: submissions stop while every remaining id may be spoken for. *)
IdsLeft ==
  Cardinality(InStatus("absent"))
    > Cardinality({b \in Apis : api[b].pc \in {"count", "check", "create"}})

Submit(a, q) ==
  /\ ApiAt(a, "idle")
  /\ IdsLeft
  /\ WithRequest(q) = {}
  /\ GoApi(a, Handler("count", q, 0, 0))
  /\ UNCHANGED <<rows, pool, worker, scan, job, log, crashes, executions>>

(* count_by_status runs one COUNT per status, so the depth is read twice. *)
CountQueued(a) ==
  /\ ApiAt(a, "count")
  /\ GoApi(a, Handler("check", api[a].request, 0, Cardinality(InStatus("queued"))))
  /\ UNCHANGED <<rows, pool, worker, scan, job, log, crashes, executions>>

CountRunning(a) ==
  LET depth == api[a].queued + Cardinality(InStatus("running"))
  IN /\ ApiAt(a, "check")
     /\ IF depth >= MaxDepth
        THEN GoApi(a, IdleApi)
        ELSE GoApi(a, Handler("create", api[a].request, 0, 0))
     /\ UNCHANGED <<rows, pool, worker, scan, job, log, crashes, executions>>

(* A concurrent submit may have stored the id since the lookup: the UNIQUE *)
(* constraint makes create_run return that row, which is dispatched again. *)
CreateRun(a) ==
  /\ ApiAt(a, "create")
  /\ \E r \in Runs :
       /\ GoApi(a, Handler("dispatch", NoRequest, r, 0))
       /\ IF WithRequest(api[a].request) = {}
          THEN InsertRun(r, api[a].request)
          ELSE r \in WithRequest(api[a].request) /\ UNCHANGED rows
  /\ UNCHANGED <<pool, worker, scan, job, log, crashes, executions>>
-----------------------------------------------------------------------------
(* _dispatch_run: a Job, a task for the pool, or nothing. *)

Enqueue(a, task) == pool' = [pool EXCEPT ![a] = Append(@, task)]

(* Mutant: a Job that exists is created once more. *)
DispatchAgain(a) ==
  /\ ApiAt(a, "dispatch")
  /\ StepApi(a, "refresh")
  /\ job' = [job EXCEPT ![api[a].run] = "pending"]
  /\ UNCHANGED <<rows, pool, worker, scan, log, crashes, executions>>

(* Creating a Job whose name exists is answered 409, which counts as done. *)
Dispatch(a) ==
  LET r == api[a].run
  IN /\ ApiAt(a, "dispatch")
     /\ StepApi(a, "refresh")
     /\ IF Mode = "inline" THEN Enqueue(a, [kind |-> "execute", run |-> r, attempts |-> 0])
        ELSE IF Mode = "claim" THEN Enqueue(a, [kind |-> "claim", run |-> 0, attempts |-> 0])
        ELSE UNCHANGED pool
     /\ job' = IF Mode = "job" /\ job[r] = "none" THEN [job EXCEPT ![r] = "pending"]
               ELSE job
     /\ UNCHANGED <<rows, worker, scan, log, crashes, executions>>

(* The Job request raised: refused, or timed out after it took effect.  The *)
(* run is dead-lettered and the handler fails without a refresh.            *)
JobRequestFails(a) ==
  /\ Mode = "job"
  /\ ApiAt(a, "dispatch")
  /\ StepApi(a, "dispatch_failed")
  /\ \/ UNCHANGED job
     \/ job[api[a].run] = "none" /\ job' = [job EXCEPT ![api[a].run] = "pending"]
  /\ UNCHANGED <<rows, pool, worker, scan, log, crashes, executions>>

DispatchFailed(a) ==
  /\ ApiAt(a, "dispatch_failed")
  /\ UpdateStatus(api[a].run, "dead_letter")
  /\ EmitEvent(api[a].run, "terminal")
  /\ GoApi(a, IdleApi)
  /\ UNCHANGED <<pool, worker, scan, job, crashes, executions>>
-----------------------------------------------------------------------------
(* RunQueue.replay: checks the status, then resets the row unconditionally. *)

Replay(a, r) ==
  /\ a \in Replayers
  /\ ApiAt(a, "idle")
  /\ rows[r].status \in {"failed", "dead_letter"}
  /\ GoApi(a, Handler("reset", NoRequest, r, 0))
  /\ UNCHANGED <<rows, pool, worker, scan, job, log, crashes, executions>>

ReplayReset(a) ==
  /\ ApiAt(a, "reset")
  /\ ResetForReplay(api[a].run)
  /\ StepApi(a, "dispatch")
  /\ executions' = [executions EXCEPT ![api[a].run] = 0]
  /\ UNCHANGED <<pool, worker, scan, job, log, crashes>>
-----------------------------------------------------------------------------
(* RunQueue.get on a running dry-run: _recover_stalled_after_publish.      *)
(* Whether the staging directory and gate events are there is left open,   *)
(* so recovery is possible but never forced.                               *)

Recover(a, r) ==
  /\ ApiAt(a, "idle")
  /\ r \in DryRuns
  /\ rows[r].status = "running"
  /\ rows[r].age >= 1
  /\ "terminal" \notin log[r]
  /\ "published" \in log[r]
  /\ GoApi(a, Handler("recover", NoRequest, r, 0))
  /\ UNCHANGED <<rows, pool, worker, scan, job, log, crashes, executions>>

RecoverWrite(a) ==
  /\ ApiAt(a, "recover")
  /\ UpdateStatus(api[a].run, "succeeded")
  /\ EmitEvent(api[a].run, "terminal")
  /\ GoApi(a, IdleApi)
  /\ UNCHANGED <<pool, worker, scan, job, crashes, executions>>
-----------------------------------------------------------------------------
(* _refresh_metrics, the last thing submit, replay, the constructor and     *)
(* every execution do: its only effect on state is _reclaim_stale.         *)

StaleFound == Reclaims /\ StaleScan # NothingStale

(* The refresh of process p ends with this step. *)
ReclaimEnds(p) ==
  /\ scan' = [scan EXCEPT ![p] = NothingStale]
  /\ IF scan[p] # NothingStale THEN ReclaimStaleRuns(scan[p])
     ELSE IF StaleFound THEN AtomicReclaim /\ ReclaimStaleRuns(StaleScan)
     ELSE UNCHANGED rows

(* Its SELECT has found stale rows; their UPDATE is a later step. *)
ReclaimSelects(p) ==
  /\ ~AtomicReclaim
  /\ StaleFound
  /\ scan[p] = NothingStale
  /\ scan' = [scan EXCEPT ![p] = StaleScan]

ApiSelectsStale(a) ==
  /\ ApiAt(a, "refresh")
  /\ ReclaimSelects(a)
  /\ UNCHANGED <<rows, api, pool, worker, job, log, crashes, executions>>

ApiRefreshed(a) ==
  /\ ApiAt(a, "refresh")
  /\ ReclaimEnds(a)
  /\ GoApi(a, IdleApi)
  /\ UNCHANGED <<pool, worker, job, log, crashes, executions>>
-----------------------------------------------------------------------------
(* A worker gets a run: from its replica's pool, by polling, or as a Job. *)

Pop(a) == pool' = [pool EXCEPT ![a] = Tail(@)]

NextTaskIs(w, kind) ==
  /\ WorkerAt(w, "idle")
  /\ pool[Home[w]] # << >>
  /\ Head(pool[Home[w]]).kind = kind
  /\ Pop(Home[w])

(* claim_and_process: nothing to claim is a no-op. *)
Claim(w) ==
  IF Eligible = {} THEN UNCHANGED <<rows, worker>>
  ELSE \E r \in Eligible :
         ClaimNextQueued(r) /\ GoWorker(w, Working("begin", r, 0))

TakeClaim(w) ==
  /\ NextTaskIs(w, "claim")
  /\ Claim(w)
  /\ UNCHANGED <<api, scan, job, log, crashes, executions>>

Poll(w) ==
  /\ Mode = "external"
  /\ WorkerAt(w, "idle")
  /\ Eligible # {}
  /\ Claim(w)
  /\ UNCHANGED <<api, pool, scan, job, log, crashes, executions>>

TakeExecute(w) ==
  /\ NextTaskIs(w, "execute")
  /\ GoWorker(w, Working("begin", Head(pool[Home[w]]).run, 0))
  /\ UNCHANGED <<rows, api, scan, job, log, crashes, executions>>

(* _wait_and_retry: the thread sleeps out the delay, then looks again. *)
TakeRetry(w) ==
  /\ NextTaskIs(w, "retry")
  /\ GoWorker(w, Working("sleep", Head(pool[Home[w]]).run, Head(pool[Home[w]]).attempts))
  /\ UNCHANGED <<rows, api, scan, job, log, crashes, executions>>

(* A pool thread runs what its replica's pool has next. *)
TakeTask(w) ==
  /\ pool[Home[w]] # << >>
  /\ LET kind == Head(pool[Home[w]]).kind
     IN IF kind = "claim" THEN TakeClaim(w)
        ELSE IF kind = "execute" THEN TakeExecute(w) ELSE TakeRetry(w)

(* The sleeper cannot wake before the delay that was stored along with its attempt. *)
Wake(w) ==
  LET row == rows[worker[w].run]
  IN /\ WorkerAt(w, "sleep")
     /\ (row.status = "queued" /\ row.attempts = worker[w].attempts) => row.due
     /\ IF row.status = "queued"
        THEN GoWorker(w, Working("begin", worker[w].run, 0))
        ELSE GoWorker(w, IdleWorker)
     /\ UNCHANGED <<rows, api, pool, scan, job, log, crashes, executions>>

(* `repave run-worker --run-id`: a queued row is marked, any other is not  *)
(* looked at.                                                              *)
StartPod(w, r) ==
  /\ WorkerAt(w, "idle")
  /\ job[r] = "pending"
  /\ job' = [job EXCEPT ![r] = "started"]
  /\ GoWorker(w, Working("begin", r, 0))
  /\ IF rows[r].status = "queued" THEN UpdateStatus(r, "running") ELSE UNCHANGED rows
  /\ UNCHANGED <<api, pool, scan, log, crashes, executions>>
-----------------------------------------------------------------------------
(* _run_worker. *)

(* The history counter saturates one above the budget. *)
CountExecution(r) ==
  executions' = [executions EXCEPT ![r] = IF @ > MaxAttempts THEN @ ELSE @ + 1]

(* With claim workers the row must still say running... *)
BeginClaimed(w) ==
  /\ ClaimWorkers
  /\ WorkerAt(w, "begin")
  /\ IF rows[worker[w].run].status = "running"
     THEN StepWorker(w, "exec") /\ CountExecution(worker[w].run)
     ELSE StepWorker(w, "end_refresh") /\ UNCHANGED executions
  /\ UNCHANGED <<rows, api, pool, scan, job, log, crashes>>

(* ...otherwise the worker makes it so, whatever it said. *)
BeginUnclaimed(w) ==
  /\ ~ClaimWorkers
  /\ WorkerAt(w, "begin")
  /\ UpdateStatus(worker[w].run, "running")
  /\ StepWorker(w, "start_refresh")
  /\ CountExecution(worker[w].run)
  /\ UNCHANGED <<api, pool, scan, job, log, crashes>>

(* The pipeline logs that its publish stage is over, and goes on. *)
Publish(w) ==
  /\ WorkerAt(w, "exec")
  /\ worker[w].run \in DryRuns
  /\ "published" \notin log[worker[w].run]
  /\ EmitEvent(worker[w].run, "published")
  /\ UNCHANGED <<rows, api, pool, worker, scan, job, crashes, executions>>

Succeed(w) ==
  /\ WorkerAt(w, "exec")
  /\ UpdateStatus(worker[w].run, "succeeded")
  /\ EmitEvent(worker[w].run, "terminal")
  /\ StepWorker(w, "persist")
  /\ UNCHANGED <<api, pool, scan, job, crashes, executions>>

(* persist_run_artifacts: with an artifact store configured the row is      *)
(* written a second time; a failing upload is swallowed.                    *)
Persist(w) ==
  /\ WorkerAt(w, "persist")
  /\ UpdateStatus(worker[w].run, "succeeded") \/ UNCHANGED rows
  /\ StepWorker(w, "end_refresh")
  /\ UNCHANGED <<api, pool, scan, job, log, crashes, executions>>

\* for the mutation of a property: success is not looked for.
FailUnchecked(w) ==
  /\ WorkerAt(w, "exec")
  /\ GoWorker(w, Working("failed", worker[w].run, rows[worker[w].run].attempts + 1))
  /\ UNCHANGED <<rows, api, pool, scan, job, log, crashes, executions>>

(* An exception: the row is read again, and written in the next step. *)
Fail(w) ==
  LET row == rows[worker[w].run]
  IN /\ WorkerAt(w, "exec")
     /\ IF row.status = "succeeded"
        THEN StepWorker(w, "end_refresh")
        ELSE GoWorker(w, Working("failed", worker[w].run, row.attempts + 1))
     /\ UNCHANGED <<rows, api, pool, scan, job, log, crashes, executions>>

GiveUp(w) ==
  /\ WorkerAt(w, "failed")
  /\ worker[w].attempts >= MaxAttempts
  /\ UpdateStatus(worker[w].run, "dead_letter")
  /\ EmitEvent(worker[w].run, "terminal")
  /\ GoWorker(w, Working("end_refresh", worker[w].run, 0))
  /\ UNCHANGED <<api, pool, scan, job, crashes, executions>>

(* Mutant: no retry task is submitted. *)
RetryWithoutTask(w) ==
  /\ WorkerAt(w, "failed")
  /\ worker[w].attempts < MaxAttempts
  /\ ScheduleRetry(worker[w].run, worker[w].attempts)
  /\ GoWorker(w, Working("end_refresh", worker[w].run, 0))
  /\ UNCHANGED <<api, pool, scan, job, log, crashes, executions>>

(* A closed executor refuses the retry task. *)
Retry(w) ==
  /\ WorkerAt(w, "failed")
  /\ worker[w].attempts < MaxAttempts
  /\ ScheduleRetry(worker[w].run, worker[w].attempts)
  /\ IF Pooled /\ ~ApiAt(Home[w], "closing")
     THEN Enqueue(Home[w], [kind |-> "retry", run |-> worker[w].run,
                            attempts |-> worker[w].attempts])
     ELSE UNCHANGED pool
  /\ GoWorker(w, Working("end_refresh", worker[w].run, 0))
  /\ UNCHANGED <<api, scan, job, log, crashes, executions>>

WorkerSelectsStale(w) ==
  /\ worker[w].pc \in {"start_refresh", "end_refresh"}
  /\ ReclaimSelects(w)
  /\ UNCHANGED <<rows, api, pool, worker, job, log, crashes, executions>>

(* Ended(r): the Job of a finished pod is complete, until its TTL. *)
Ended(r) == IF Mode = "job" /\ r # 0 THEN [job EXCEPT ![r] = "ended"] ELSE job

WorkerRefreshed(w) ==
  /\ \/ /\ WorkerAt(w, "start_refresh")
        /\ StepWorker(w, "exec")
        /\ UNCHANGED job
     \/ /\ WorkerAt(w, "end_refresh")
        /\ GoWorker(w, IdleWorker)
        /\ job' = Ended(worker[w].run)
  /\ ReclaimEnds(w)
  /\ UNCHANGED <<api, pool, log, crashes, executions>>
-----------------------------------------------------------------------------
(* Shutdown: SIGTERM stops the handlers, drain waits for an empty queue or  *)
(* the deadline, close lets the pool finish, and a new process starts.      *)

Terminate(a) ==
  /\ crashes < MaxCrashes
  /\ ApiAt(a, "idle")
  /\ crashes' = crashes + 1
  /\ GoApi(a, Handler("drain", NoRequest, 0, 0))
  /\ UNCHANGED <<rows, pool, worker, scan, job, log, executions>>

\* for the mutation of the property DrainMissesOnlyRetries
DrainRunningTwice(a) ==
  /\ ApiAt(a, "drain")
  /\ GoApi(a, Handler("drain_running", NoRequest, 0, Cardinality(InStatus("running"))))
  /\ UNCHANGED <<rows, pool, worker, scan, job, log, crashes, executions>>

DrainQueued(a) ==
  /\ ApiAt(a, "drain")
  /\ GoApi(a, Handler("drain_running", NoRequest, 0, Cardinality(InStatus("queued"))))
  /\ UNCHANGED <<rows, pool, worker, scan, job, log, crashes, executions>>

DrainRunning(a) ==
  /\ ApiAt(a, "drain_running")
  /\ GoApi(a, Handler(
       IF api[a].queued + Cardinality(InStatus("running")) = 0 THEN "drained" ELSE "drain",
       NoRequest, 0, 0))
  /\ UNCHANGED <<rows, pool, worker, scan, job, log, crashes, executions>>

Close(a) ==
  /\ ApiAt(a, "drained") \/ ApiAt(a, "drain")   \* "drain": the deadline passed
  /\ StepApi(a, "closing")
  /\ UNCHANGED <<rows, pool, worker, scan, job, log, crashes, executions>>

Threads(a) == IF Pooled THEN {w \in Workers : Home[w] = a} ELSE {}

Restart(a) ==
  /\ ApiAt(a, "closing")
  /\ pool[a] = << >>
  /\ \A w \in Threads(a) : WorkerAt(w, "idle")
  /\ GoApi(a, AfterRestart)
  /\ UNCHANGED <<rows, pool, worker, scan, job, log, crashes, executions>>

(* An API process dies with its handler, its pool and its threads, and is  *)
(* started again.                                                          *)
CrashApi(a) ==
  /\ crashes < MaxCrashes
  /\ crashes' = crashes + 1
  /\ GoApi(a, AfterRestart)
  /\ pool' = [pool EXCEPT ![a] = << >>]
  /\ worker' = [w \in Workers |-> IF w \in Threads(a) THEN IdleWorker ELSE worker[w]]
  /\ scan' = [p \in Processes |-> IF p = a \/ p \in Threads(a) THEN NothingStale
                                  ELSE scan[p]]
  /\ UNCHANGED <<rows, job, log, executions>>

(* A run-worker process dies and is started again; a Job pod (evicted, or  *)
(* past activeDeadlineSeconds) is not, for backoffLimit is 0.              *)
CrashWorker(w) ==
  /\ ~Pooled
  /\ crashes < MaxCrashes
  /\ ~WorkerAt(w, "idle")
  /\ crashes' = crashes + 1
  /\ GoWorker(w, IF Mode = "external" THEN Working("end_refresh", 0, 0)
                 ELSE IdleWorker)
  /\ scan' = [scan EXCEPT ![w] = NothingStale]
  /\ job' = Ended(worker[w].run)
  /\ UNCHANGED <<rows, api, pool, log, executions>>

(* ttlSecondsAfterFinished: the cluster deletes a finished Job. *)
JobExpires(r) ==
  /\ job[r] = "ended"
  /\ job' = [job EXCEPT ![r] = "none"]
  /\ UNCHANGED <<rows, api, pool, worker, scan, log, crashes, executions>>

RetryDue(r) == RetryFallsDue(r) /\ UNCHANGED qvars

(* updated_at matters only to recovery and to the stale-run reclaim. *)
Ages(r) ==
  /\ Reclaims \/ (r \in DryRuns /\ rows[r].age = 0)
  /\ GrowsOld(r)
  /\ UNCHANGED qvars
-----------------------------------------------------------------------------
ApiStep(a) ==
  \/ CountQueued(a) \/ CountRunning(a) \/ CreateRun(a)
  \/ Dispatch(a) \/ JobRequestFails(a) \/ DispatchFailed(a)
  \/ ReplayReset(a) \/ RecoverWrite(a)
  \/ ApiSelectsStale(a) \/ ApiRefreshed(a)
  \/ DrainQueued(a) \/ DrainRunning(a) \/ Close(a) \/ Restart(a)

WorkerStep(w) ==
  \/ TakeTask(w) \/ Poll(w) \/ Wake(w)
  \/ \E r \in Runs : StartPod(w, r)
  \/ BeginClaimed(w) \/ BeginUnclaimed(w)
  \/ Publish(w) \/ Succeed(w) \/ Persist(w)
  \/ Fail(w) \/ GiveUp(w) \/ Retry(w)
  \/ WorkerSelectsStale(w) \/ WorkerRefreshed(w)

Request(a) ==
  \/ \E q \in Requests \cup {NoRequest} : Submit(a, q)
  \/ \E r \in Runs : Replay(a, r) \/ Recover(a, r)

Crash ==
  \/ \E a \in Apis : Terminate(a) \/ CrashApi(a)
  \/ \E w \in Workers : CrashWorker(w)

Time == \E r \in Runs : RetryDue(r) \/ Ages(r) \/ JobExpires(r)

Next ==
  \/ \E a \in Apis : Request(a) \/ ApiStep(a)
  \/ \E w \in Workers : WorkerStep(w)
  \/ Crash
  \/ Time

Spec == Init /\ [][Next]_vars

(* Threads and processes run and clocks advance; nobody is obliged to send *)
(* a request, and nothing is obliged to die.                               *)
Fairness ==
  /\ \A a \in Apis : WF_vars(ApiStep(a))
  /\ \A w \in Workers : WF_vars(WorkerStep(w))
  /\ \A r \in Runs : WF_vars(RetryDue(r) \/ Ages(r)) /\ WF_vars(JobExpires(r))

FairSpec == Spec /\ Fairness
-----------------------------------------------------------------------------
(***************************************************************************)
(* Properties                                                              *)
(***************************************************************************)

(* Every variable keeps the shape the code gives it. *)
TypeOK ==
  /\ StoreTypeOK
  /\ api        \in [Apis -> ApiState]
  /\ pool       \in [Apis -> Seq(Task)]
  /\ worker     \in [Workers -> WorkerState]
  /\ scan       \in [Processes -> [Runs -> Nat]]
  /\ job        \in [Runs -> {"none", "pending", "started", "ended"}]
  /\ log        \in [Runs -> SUBSET {"published", "terminal"}]
  /\ crashes    \in Nat
  /\ executions \in [Runs -> Nat]

(* w is inside _run_worker's body for r, from the first event on. *)
Executes(w, r) == worker[w].run = r /\ worker[w].pc \in {"exec", "failed", "persist"}

(* Two workers never execute the same run at the same time: this is what    *)
(* the atomic claim, the one-task-per-submit pool and the one-Job-per-run   *)
(* name are each there for.                                                 *)
SingleExecutor ==
  \A v, w \in Workers : \A r \in Runs : Executes(v, r) /\ Executes(w, r) => v = w

(* max_run_attempts bounds how often a run is executed per submit or replay. *)
RetryBudget == \A r \in Runs : executions[r] <= MaxAttempts

(* A run that may still execute has attempts left, whoever wrote the count. *)
AttemptsLeft == \A r \in InFlight : rows[r].attempts < MaxAttempts

(* client_request_id names at most one run, although submit looks it up and *)
(* inserts it in two steps.                                                 *)
OneRunPerRequest ==
  \A r, s \in Runs :
    (rows[r].request # NoRequest /\ rows[r].request = rows[s].request) => r = s

(* Once a run has succeeded no step takes that back. *)
SuccessIsFinal ==
  [][\A r \in Runs : rows[r].status = "succeeded" => rows'[r].status = "succeeded"]_vars

(* Process p is about to write run r on the strength of an earlier read. *)
WorkerWillWrite(w, r) == WorkerAt(w, "failed") /\ worker[w].run = r
ReplayWillWrite(a, r) == ApiAt(a, "reset") /\ api[a].run = r

(* If success is taken back at all, then only by a process that had read     *)
(* the row before it succeeded: such a write is pending when it is lost, and *)
(* none becomes pending once the row says succeeded.                         *)
SuccessLostOnlyToStaleReaders ==
  [][\A r \in Runs : rows[r].status = "succeeded" =>
       /\ \/ rows'[r].status = "succeeded"
          \/ \E w \in Workers : WorkerWillWrite(w, r)
          \/ \E p \in Processes : scan[p][r] # 0
          \/ \E a \in Apis : ReplayWillWrite(a, r)
       /\ \A w \in Workers : WorkerWillWrite(w, r)' => WorkerWillWrite(w, r)
       /\ \A p \in Processes : scan'[p][r] # 0 => scan[p][r] # 0
       /\ \A a \in Apis : ReplayWillWrite(a, r)' => ReplayWillWrite(a, r)]_vars

(* drain says the queue is empty from two counts, queued and then running.   *)
(* The only row it can have missed is one a failing attempt or a reclaim put *)
(* back to queued in between; whoever was queued or running all along counts.*)
DrainMissesOnlyRetries ==
  [][\A a \in Apis : api'[a].pc = "drained" /\ ~ApiAt(a, "drained") =>
       \A r \in InFlight : rows[r].status = "queued" /\ rows[r].attempts > 0]_vars

(* Every run in flight reaches a final status, if replays ever stop: rows are *)
(* claimed oldest first and a replayed row keeps its age, so an old run that  *)
(* is replayed for ever overtakes a younger one for ever.                     *)
EveryRunSettles ==
  \A r \in Runs : (r \in InFlight)
                    ~> (rows[r].status \in Terminal \/ \E a \in Apis : ApiAt(a, "reset"))

(* The lifecycle a client of the queue may rely on. *)
Lifecycle == INSTANCE RunLifecycle
  WITH status   <- [r \in Runs |-> rows[r].status],
       attempts <- [r \in Runs |-> rows[r].attempts]

ImplementsLifecycle == Lifecycle!Spec
=============================================================================
