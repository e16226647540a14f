----------------------------- MODULE Publishing -----------------------------
(***************************************************************************)
(* What an attempt at a publishing run leaves behind: its events           *)
(* (run_events.py), the local and the GitHub repository, the publish       *)
(* receipt (publish_idempotency.py, pipeline.py), the result of its row    *)
(* (run_queue.py), and what a browser streaming the events gets to see     *)
(* (api_v2/router.py).  RunStore.tla is the table of runs.                 *)
(*                                                                         *)
(* Claim workers with a GitHub token execute the runs, each in a process   *)
(* and on a disk of its own.  All runs publish one version of a blueprint  *)
(* to one repository, so they push one branch, which is named after both.  *)
(* An attempt may render other files than the one before it, since the     *)
(* standards, templates and modules of the catalog change.  RunQueue.tla   *)
(* has the other deployments and the dispatching.                          *)
(***************************************************************************)
EXTENDS RunStore, Sequences, SequencesExt

CONSTANTS Workers,       \* worker processes
          Contents,      \* content hashes a rendering can have
          Streams,       \* browsers connected to the event stream of run 1
          Cap,           \* MAX_EVENTS_PER_RUN
          MaxCrashes     \* bound: how many workers die

ASSUME PublishingAssumption ==
  /\ Cap \in Nat \ {0}
  /\ MaxCrashes \in Nat
  /\ Contents \cap {"none", "absent", "empty"} = {}

VARIABLES result,    \* result_json: what its pr_message says ("none": NULL), about which files
          log,       \* run_events: kinds in the order of seq, which counts from 1
          receipts,  \* publish_receipts: per content, the stored pr_message
          remote,    \* the GitHub repository: "absent", "empty" or what the branch has
          disk,      \* per worker, what is at the repository's local_path
          worker,    \* per worker, where it is in _run_worker
          stream,    \* per browser, the last seq delivered and where its handler is
          crashes

stores == <<result, log, receipts, remote, disk>>
vars   == <<rows, stores, worker, stream, crashes>>

Message  == {"none", "pushed", "failed"}
Emitting == {"run_started", "publish_finished", "run_finished", "run_failed"}
Final    == {"run_finished", "run_failed"}

Labels == Emitting \cup {"idle", "begin", "render", "receipt", "publish", "ensure", "push", "record",
                        "succeed", "except", "failed"}

WorkerState == [pc : Labels, run : Runs \cup {0}, seq : Nat, msg : Message,
                files : Contents \cup {"empty"}]

NoResult   == [msg |-> "none", files |-> "empty"]
IdleWorker == [pc |-> "idle", run |-> 0, seq |-> 0, msg |-> "none", files |-> "empty"]

WorkerAt(w, pc) == worker[w].pc = pc
GoWorker(w, s)  == worker' = [worker EXCEPT ![w] = s]
StepTo(w, pc)   == GoWorker(w, [worker[w] EXCEPT !.pc = pc, !.seq = 0])
Says(w, msg)    == GoWorker(w, [worker[w] EXCEPT !.pc = "publish_finished", !.msg = msg])

Init ==
  /\ rows = [r \in Runs |-> Written([request |-> NoRequest], "queued", 0, TRUE)]
  /\ result = [r \in Runs |-> NoResult]
  /\ log = [r \in Runs |-> << >>]
  /\ receipts = [c \in Contents |-> "none"]
  /\ remote = "absent"
  /\ disk = [w \in Workers |-> "empty"]
  /\ worker = [w \in Workers |-> IdleWorker]
  /\ stream = [s \in Streams |-> [pc |-> "list", after |-> 0]]
  /\ crashes = 0
-----------------------------------------------------------------------------
(* RunEventStore.append: MAX(seq) and COUNT are read, then a row is         *)
(* inserted under the primary key (run_id, seq).  One process is serialised *)
(* by its lock, two are not.                                                *)

After(pc) == CASE pc = "run_started"      -> "render"
               [] pc = "publish_finished" -> "succeed"
               [] OTHER                   -> "idle"

(* Where an exception lands: inside the pipeline it is an attempt that      *)
(* failed, outside of it it leaves _run_worker, and the row as it is.       *)
Raise(w) ==
  IF worker[w].pc \in {"run_started"} \cup Final
  THEN GoWorker(w, IdleWorker)
  ELSE StepTo(w, "except")

ReadMax(w) ==
  LET n == Len(log[worker[w].run])
  IN /\ worker[w].pc \in Emitting
     /\ worker[w].seq = 0
     /\ IF n >= Cap THEN Raise(w) ELSE GoWorker(w, [worker[w] EXCEPT !.seq = n + 1])
     /\ UNCHANGED <<rows, stores, stream, crashes>>

InsertEvent(w) ==
  LET r == worker[w].run
  IN /\ worker[w].pc \in Emitting
     /\ worker[w].seq > 0
     /\ IF worker[w].seq <= Len(log[r])
        THEN Raise(w) /\ UNCHANGED log
        ELSE /\ log' = [log EXCEPT ![r] = Append(@, worker[w].pc)]
             /\ IF worker[w].pc \in Final THEN GoWorker(w, IdleWorker)
                ELSE StepTo(w, After(worker[w].pc))
     /\ UNCHANGED <<rows, result, receipts, remote, disk, stream, crashes>>
-----------------------------------------------------------------------------
(* _run_worker up to the pipeline, and what rendering and the gates do.     *)

Claim(w) ==
  /\ WorkerAt(w, "idle")
  /\ \E r \in Runs : /\ ClaimNextQueued(r)
                     /\ result' = [result EXCEPT ![r] = NoResult]
                     /\ GoWorker(w, [IdleWorker EXCEPT !.pc = "begin", !.run = r])
  /\ UNCHANGED <<log, receipts, remote, disk, stream, crashes>>

Begin(w) ==
  /\ WorkerAt(w, "begin")
  /\ IF rows[worker[w].run].status = "running" THEN StepTo(w, "run_started")
     ELSE GoWorker(w, IdleWorker)
  /\ UNCHANGED <<rows, stores, stream, crashes>>

Render(w) ==
  /\ WorkerAt(w, "render")
  /\ \E c \in Contents : GoWorker(w, [worker[w] EXCEPT !.pc = "receipt", !.files = c])
  /\ UNCHANGED <<rows, stores, stream, crashes>>

(* Rendering raises, or a gate fails and nothing is published.  The events  *)
(* logged until then raise into the same place and are left out.            *)
RenderFails(w) ==
  /\ WorkerAt(w, "render")
  /\ \/ StepTo(w, "except")
     \/ GoWorker(w, [worker[w] EXCEPT !.pc = "succeed", !.msg = "failed"])
  /\ UNCHANGED <<rows, stores, stream, crashes>>
-----------------------------------------------------------------------------
(* _publish_after_gates. *)

(* Mutant of build_publish_key: the target repository alone. *)
AnyContent(c) == Contents

(* The receipts a content's key can find: one repository, so its own. *)
SameKey(c) == {c}

ReadReceipt(w) ==
  LET found == {receipts[c] : c \in SameKey(worker[w].files)} \ {"none"}
  IN /\ WorkerAt(w, "receipt")
     /\ GoWorker(w, [worker[w] EXCEPT
          !.pc  = "publish",
          !.msg = IF found # {} THEN CHOOSE m \in found : TRUE ELSE "none"])
     /\ UNCHANGED <<rows, stores, stream, crashes>>

Reuse(w) ==
  /\ WorkerAt(w, "publish")
  /\ worker[w].msg # "none"
  /\ StepTo(w, "publish_finished")
  /\ UNCHANGED <<rows, stores, stream, crashes>>

(* publish_to_module_repository: refuses a directory that is not empty. *)
Copy(w) ==
  /\ WorkerAt(w, "publish")
  /\ worker[w].msg = "none"
  /\ IF disk[w] # "empty" THEN StepTo(w, "except") /\ UNCHANGED disk
     ELSE /\ disk' = [disk EXCEPT ![w] = worker[w].files]
          /\ StepTo(w, "ensure")
  /\ UNCHANGED <<rows, result, log, receipts, remote, stream, crashes>>

Ensure(w) ==
  /\ WorkerAt(w, "ensure")
  /\ \/ /\ remote' = IF remote = "absent" THEN "empty" ELSE remote
        /\ StepTo(w, "push")
     \/ Says(w, "failed") /\ UNCHANGED remote
  /\ UNCHANGED <<rows, result, log, receipts, disk, stream, crashes>>

(* Every attempt commits anew, so a branch that is there already rejects the *)
(* push.  A push may fail, or time out after it took effect.                *)
Push(w) ==
  /\ WorkerAt(w, "push")
  /\ \/ /\ remote = "empty"
        /\ remote' = disk[w]
        /\ \/ GoWorker(w, [worker[w] EXCEPT !.pc = "record", !.msg = "pushed"])
           \/ Says(w, "failed")
     \/ Says(w, "failed") /\ UNCHANGED remote
  /\ UNCHANGED <<rows, result, log, receipts, disk, stream, crashes>>

(* INSERT of the receipt; one that is there already stays. *)
Record(w) ==
  LET c == worker[w].files
  IN /\ WorkerAt(w, "record")
     /\ receipts' = [receipts EXCEPT ![c] = IF @ = "none" THEN worker[w].msg ELSE @]
     /\ StepTo(w, "publish_finished")
     /\ UNCHANGED <<rows, result, log, remote, disk, stream, crashes>>
-----------------------------------------------------------------------------
(* The end of _run_worker. *)

Succeed(w) ==
  /\ WorkerAt(w, "succeed")
  /\ UpdateStatus(worker[w].run, "succeeded")
  /\ result' = [result EXCEPT ![worker[w].run] = [msg |-> worker[w].msg, files |-> worker[w].files]]
  /\ GoWorker(w, [IdleWorker EXCEPT !.pc = "run_finished", !.run = worker[w].run])
  /\ UNCHANGED <<log, receipts, remote, disk, stream, crashes>>

(* The row is read; it is written in the next step.  The field seq of the   *)
(* worker holds the attempt in between.                                     *)
Except(w) ==
  LET row == rows[worker[w].run]
  IN /\ WorkerAt(w, "except")
     /\ GoWorker(w, IF row.status = "succeeded" THEN IdleWorker
                    ELSE [worker[w] EXCEPT !.pc = "failed", !.msg = "none", !.files = "empty",
                                           !.seq = row.attempts + 1])
     /\ UNCHANGED <<rows, stores, stream, crashes>>

Fail(w) ==
  LET r == worker[w].run
  IN /\ WorkerAt(w, "failed")
     /\ result' = [result EXCEPT ![r] = NoResult]
     /\ IF worker[w].seq >= MaxAttempts
        THEN UpdateStatus(r, "dead_letter") /\ StepTo(w, "run_failed")
        ELSE ScheduleRetry(r, worker[w].seq) /\ GoWorker(w, IdleWorker)
     /\ UNCHANGED <<log, receipts, remote, disk, stream, crashes>>

WorkerStep(w) ==
  \/ ReadMax(w) \/ InsertEvent(w) \/ Begin(w) \/ Render(w) \/ RenderFails(w)
  \/ ReadReceipt(w) \/ Reuse(w) \/ Copy(w) \/ Ensure(w) \/ Push(w) \/ Record(w)
  \/ Succeed(w) \/ Except(w) \/ Fail(w)

(* A worker dies; what replaces it finds the disk as it was, or a new one. *)
Crash(w) ==
  /\ crashes < MaxCrashes
  /\ ~WorkerAt(w, "idle")
  /\ crashes' = crashes + 1
  /\ GoWorker(w, IdleWorker)
  /\ disk' \in {disk, [disk EXCEPT ![w] = "empty"]}
  /\ UNCHANGED <<rows, result, log, receipts, remote, stream>>
-----------------------------------------------------------------------------
(* The clock, and the refresh of any process that finds a run stale.        *)

GrowsStale(r) ==
  /\ rows[r].status = "running"
  /\ rows[r].age < 2
  /\ SetRow(r, [rows[r] EXCEPT !.age = 2])
  /\ UNCHANGED <<stores, worker, stream, crashes>>

FallsDue(r) == RetryFallsDue(r) /\ UNCHANGED <<stores, worker, stream, crashes>>

(* Mutant: the lost attempt is not counted. *)
ReclaimUncounted ==
  /\ StaleScan # NothingStale
  /\ rows' = [r \in Runs |-> IF StaleScan[r] = 0 THEN rows[r]
                             ELSE Written(rows[r], "queued", rows[r].attempts, TRUE)]
  /\ UNCHANGED <<stores, worker, stream, crashes>>

Reclaim ==
  /\ StaleScan # NothingStale
  /\ ReclaimStaleRuns(StaleScan)
  /\ UNCHANGED <<stores, worker, stream, crashes>>
-----------------------------------------------------------------------------
(* The event stream of run 1: GET /runs/{id}/events.                        *)

GoStream(s, st) ==
  /\ stream' = [stream EXCEPT ![s] = st]
  /\ UNCHANGED <<rows, stores, worker, crashes>>

(* What is new is sent, up to the first terminal event, which ends it. *)
Deliver(s) ==
  LET finals == {i \in (stream[s].after + 1)..Len(log[1]) : log[1][i] \in Final}
  IN /\ stream[s].pc = "list"
     /\ stream[s].after < Len(log[1])
     /\ GoStream(s, IF finals = {} THEN [pc |-> "list", after |-> Len(log[1])]
                    ELSE [pc |-> "closed",
                          after |-> CHOOSE i \in finals : \A j \in finals : i <= j])

(* wait_for_events: nothing came for 15 seconds. *)
WaitTimesOut(s) ==
  /\ stream[s].pc = "list"
  /\ stream[s].after = Len(log[1])
  /\ GoStream(s, [stream[s] EXCEPT !.pc = "heartbeat"])

(* Mutant: dead letters are not looked for. *)
HeartbeatForever(s) ==
  /\ stream[s].pc = "heartbeat"
  /\ GoStream(s, [stream[s] EXCEPT
       !.pc = IF rows[1].status \in {"succeeded", "failed"} THEN "closed" ELSE "list"])

Heartbeat(s) ==
  /\ stream[s].pc = "heartbeat"
  /\ GoStream(s, [stream[s] EXCEPT
       !.pc = IF rows[1].status \in Terminal THEN "closed" ELSE "list"])

StreamStep(s) == Deliver(s) \/ WaitTimesOut(s) \/ Heartbeat(s)

(* The browser connects again, with the id of the last event it has. *)
Reconnect(s) ==
  /\ stream[s].pc = "closed"
  /\ GoStream(s, [stream[s] EXCEPT !.pc = "list"])
-----------------------------------------------------------------------------
Next ==
  \/ \E w \in Workers : Claim(w) \/ WorkerStep(w) \/ Crash(w)
  \/ \E r \in Runs : GrowsStale(r) \/ FallsDue(r)
  \/ Reclaim
  \/ \E s \in Streams : StreamStep(s) \/ Reconnect(s)

(* A worker polls and works until it dies, the clock runs and some process  *)
(* refreshes its metrics from time to time; nobody has to reconnect.        *)
Fairness ==
  /\ \A w \in Workers : WF_vars(Claim(w)) /\ WF_vars(WorkerStep(w))
  /\ \A r \in Runs : WF_vars(GrowsStale(r)) /\ WF_vars(FallsDue(r))
  /\ WF_vars(Reclaim)
  /\ \A s \in Streams : WF_vars(StreamStep(s))

Spec     == Init /\ [][Next]_vars
FairSpec == Spec /\ Fairness
-----------------------------------------------------------------------------
TypeOK ==
  /\ StoreTypeOK
  /\ result \in [Runs -> [msg : Message, files : Contents \cup {"empty"}]]
  /\ log \in [Runs -> Seq(Emitting)] /\ \A r \in Runs : Len(log[r]) <= Cap
  /\ receipts \in [Contents -> Message]
  /\ remote \in Contents \cup {"absent", "empty"}
  /\ disk \in [Workers -> Contents \cup {"empty"}]
  /\ worker \in [Workers -> WorkerState]
  /\ stream \in [Streams -> [pc : {"list", "heartbeat", "closed"}, after : 0..Cap]]

(* A stored receipt tells a later attempt that it need not publish, so what *)
(* it is for must be what GitHub has, whoever crashed or failed since       *)
(* (_publish_after_gates).                                                  *)
ReceiptsArePushed ==
  \A c \in Contents : receipts[c] # "none" => receipts[c] = "pushed" /\ remote = c

(* The files a result says were pushed are on GitHub, by its own push or by *)
(* that of the attempt or run whose receipt it reused.                      *)
ReportedIsPushed ==
  \A r \in Runs : result[r].msg = "pushed" => remote = result[r].files

(* Retried, reclaimed and executed twice at a time, a run never pushes over *)
(* what was pushed before it (push_module_repository).                      *)
PushedOnce == [][(remote \in Contents) => (remote' = remote)]_vars

(* Two processes that compute the same seq, and one that finds the log      *)
(* full, take no event back that a browser may have seen                    *)
(* (RunEventStore.append).                                                  *)
EventsAreKept == [][\A r \in Runs : IsPrefix(log[r], log'[r])]_vars

(* Streams do not stay open on a run that is over, although its terminal    *)
(* event may never have been written (event_stream).                        *)
StreamsEnd ==
  \A s \in Streams : <>[](rows[1].status \in Terminal) => []<>(stream[s].pc = "closed")

(* A run settles whatever raises on its way: the pipeline, the repository   *)
(* that is in its place, or the event log before the pipeline has begun.    *)
EveryRunSettles == \A r \in Runs : <>[](rows[r].status \in Terminal)
=============================================================================
