------------------------------ MODULE RunStore ------------------------------
(***************************************************************************)
(* The `runs` table of the asynchronous run queue (run_store.py): one row  *)
(* per submitted run, and one action per store method.  Every action here  *)
(* is one SQL transaction, so it is atomic; RunQueue.tla composes them     *)
(* into the handlers and workers that call them.                           *)
(*                                                                         *)
(* Wall-clock columns are abstracted to what the code compares them with:  *)
(*   due  - next_attempt_at is NULL or in the past                         *)
(*   age  - how old updated_at is: 0 fresh, 1 past the publish-stall       *)
(*          window (20 s), 2 past run_stale_seconds as well                *)
(* Run ids are uuid4 in the code.  Here they are numbers given out in      *)
(* creation order, so "ORDER BY created_at" is the order of the ids.       *)
(***************************************************************************)
EXTENDS Naturals, FiniteSets

CONSTANTS MaxRuns,      \* bound: how many runs are ever submitted
          Requests,     \* client_request_id values
          NoRequest,    \* a submission without client_request_id
          MaxAttempts   \* durability.max_run_attempts

ASSUME StoreAssumption ==
  /\ MaxRuns \in Nat \ {0}
  /\ MaxAttempts \in Nat \ {0}
  /\ NoRequest \notin Requests

VARIABLE rows

Runs     == 1..MaxRuns
Status   == {"absent", "queued", "running", "succeeded", "failed", "dead_letter"}
Terminal == {"succeeded", "failed", "dead_letter"}

Row == [status   : Status,
        request  : Requests \cup {NoRequest},
        attempts : Nat,
        due      : BOOLEAN,
        age      : 0..2]

NoRow == [status |-> "absent", request |-> NoRequest, attempts |-> 0,
          due |-> TRUE, age |-> 0]

InitStore == rows = [r \in Runs |-> NoRow]
-----------------------------------------------------------------------------
(* Queries *)

InStatus(s) == {r \in Runs : rows[r].status = s}

InFlight == InStatus("queued") \cup InStatus("running")

(* get_by_client_request_id: the column is UNIQUE, NULLs excepted. *)
WithRequest(q) ==
  {r \in Runs \ InStatus("absent") : q # NoRequest /\ rows[r].request = q}

(* Rows a claim may take: queued, and the retry delay is over. *)
Eligible == {r \in InStatus("queued") : rows[r].due}

(* What reclaim_stale_runs selects: for a stale running row the attempt     *)
(* number it will be given, for any other row 0.                            *)
StaleScan ==
  [r \in Runs |-> IF rows[r].status = "running" /\ rows[r].age = 2
                  THEN rows[r].attempts + 1 ELSE 0]

NothingStale == [r \in Runs |-> 0]
-----------------------------------------------------------------------------
(* Statements *)

SetRow(r, row) == rows' = [rows EXCEPT ![r] = row]

(* What a statement writes: each of them sets updated_at. *)
Written(row, status, attempts, due) ==
  [status |-> status, request |-> row.request, attempts |-> attempts, due |-> due, age |-> 0]

(* INSERT ... status 'queued', attempt_count 0, next_attempt_at NULL. *)
InsertRun(r, q) ==
  /\ r \in InStatus("absent")
  /\ \A s \in InStatus("absent") : r <= s
  /\ SetRow(r, Written([request |-> q], "queued", 0, TRUE))

(* update_status: no condition on the status being replaced; attempt_count *)
(* is left alone and next_attempt_at is cleared.                           *)
UpdateStatus(r, s) == SetRow(r, Written(rows[r], s, rows[r].attempts, TRUE))

(* Mutant: attempt_count is left as it was. *)
ResetKeepsAttempts(r) == SetRow(r, Written(rows[r], "queued", rows[r].attempts, TRUE))

ResetForReplay(r) == SetRow(r, Written(rows[r], "queued", 0, TRUE))

(* Mutant: the retry is scheduled but not counted. *)
RetryUncounted(r, attempts) ==
  SetRow(r, Written(rows[r], "queued", rows[r].attempts, FALSE))

(* schedule_retry: unconditional too; not due until the backoff is over. *)
ScheduleRetry(r, attempts) == SetRow(r, Written(rows[r], "queued", attempts, FALSE))

(* Mutant: one attempt too many before the dead letter. *)
ReclaimedOffByOne(row, attempts) ==
  Written(row, IF attempts > MaxAttempts THEN "dead_letter" ELSE "queued", attempts, TRUE)

(* The UPDATE of reclaim_stale_runs, by run_id alone, with the attempt      *)
(* numbers its earlier SELECT computed.                                     *)
Reclaimed(row, attempts) ==
  Written(row, IF attempts >= MaxAttempts THEN "dead_letter" ELSE "queued", attempts, TRUE)

ReclaimStaleRuns(found) ==
  rows' = [r \in Runs |-> IF found[r] = 0 THEN rows[r]
                          ELSE Reclaimed(rows[r], found[r])]

(* claim_next_queued: the oldest eligible row, in one atomic statement. *)
ClaimNextQueued(r) ==
  /\ r \in Eligible
  /\ \A s \in Eligible : r <= s
  /\ UpdateStatus(r, "running")
-----------------------------------------------------------------------------
(* The clock, seen through the columns above. *)

RetryFallsDue(r) ==
  /\ rows[r].status = "queued"
  /\ ~rows[r].due
  /\ SetRow(r, [rows[r] EXCEPT !.due = TRUE])

GrowsOld(r) ==
  /\ rows[r].status = "running"
  /\ rows[r].age < 2
  /\ SetRow(r, [rows[r] EXCEPT !.age = @ + 1])

StoreTypeOK == rows \in [Runs -> Row]
=============================================================================
