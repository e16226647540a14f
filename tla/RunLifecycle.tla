---------------------------- MODULE RunLifecycle ----------------------------
(***************************************************************************)
(* What the run queue promises about one run, seen through its status and  *)
(* attempt count alone: queued, executed, and on failure queued again      *)
(* until the attempts are used up; success is final; only a dead-lettered  *)
(* run can be replayed.  RunQueue implements this in the deployments whose *)
(* rows have a single owner (see the README for those that have not).      *)
(***************************************************************************)
EXTENDS Naturals

CONSTANTS Runs, MaxAttempts

VARIABLES status, attempts

lvars == <<status, attempts>>

Move(r, from, to) ==
  /\ status[r] = from
  /\ status' = [status EXCEPT ![r] = to]

Count(r, n) == attempts' = [attempts EXCEPT ![r] = n]

Init ==
  /\ status = [r \in Runs |-> "absent"]
  /\ attempts = [r \in Runs |-> 0]

Enqueue(r) == Move(r, "absent", "queued") /\ UNCHANGED attempts

Start(r) == Move(r, "queued", "running") /\ UNCHANGED attempts

Succeed(r) == Move(r, "running", "succeeded") /\ UNCHANGED attempts

(* A failed attempt that leaves some. *)
Retry(r) ==
  /\ attempts[r] + 1 < MaxAttempts
  /\ Move(r, "running", "queued")
  /\ Count(r, attempts[r] + 1)

(* The last attempt failed; whether it is counted is not promised. *)
GiveUp(r) ==
  /\ attempts[r] + 1 >= MaxAttempts
  /\ Move(r, "running", "dead_letter")
  /\ UNCHANGED attempts \/ Count(r, attempts[r] + 1)

Replay(r) == Move(r, "dead_letter", "queued") /\ Count(r, 0)

Next ==
  \E r \in Runs :
    Enqueue(r) \/ Start(r) \/ Succeed(r) \/ Retry(r) \/ GiveUp(r) \/ Replay(r)

Spec == Init /\ [][Next]_lvars
=============================================================================
