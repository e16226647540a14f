----------------------------- MODULE StateStore -----------------------------
(***************************************************************************)
(* The requests the state store serves (api_state/router.py, store.py,     *)
(* transactions.py) for one state on PostgreSQL.  A replica serves one     *)
(* request at a time on a connection of its own; replicas interleave at    *)
(* every statement, READ COMMITTED, except where a row lock makes them     *)
(* wait: SELECT ... FOR UPDATE on the `states` row is held until the next  *)
(* commit of that connection, and an INSERT into a table that references   *)
(* `states` waits for it (the foreign key locks the row FOR KEY SHARE), as *)
(* does deleting the row.                                                  *)
(*                                                                         *)
(* Adjacent reads of one request are one step when no write of another     *)
(* request could make a difference between them.                           *)
(***************************************************************************)
EXTENDS StateTables

CONSTANTS Replicas,     \* API replicas
          Free,         \* nobody holds the row lock
          Documents,    \* the state documents clients send
          Unparsable,   \* a body parse_state_document refuses
          Reports,      \* the gate reports clients send
          OneRequestPerTx  \* a client waits for an answer before it goes on

ASSUME StoreAssumption ==
  /\ Free \notin Replicas
  /\ Documents \subseteq Document
  /\ Unparsable \notin Document
  /\ Reports \subseteq Report
  /\ OneRequestPerTx \in BOOLEAN

VARIABLES request,  \* per replica: the request it serves and how far it is
          rowLock   \* which replica holds the `states` row FOR UPDATE

vars == <<tables, request, rowLock>>

(* Where a request is; a status as pc: it is about to write that status. *)
Outcomes == {"previewing", "committed", "failed", "aborted"}

Pc == Outcomes \cup
  {"idle", "ensure", "create", "write", "insert", "finish", "lock", "lock_insert", "unlock",
   "delete", "open", "open_insert", "resources", "check_gates", "gates", "preview", "fail"}

Nothing == [serial |-> 0, lineage |-> NoLineage, content |-> NoLineage]

Plan   == [writes : SUBSET Addresses, report : Report]
NoPlan == [writes |-> {}, report |-> Unreported]

Request == [pc   : Pc,
            id   : Nat,                             \* the state_id it works with
            tx   : Txs \cup {NoTx},
            body : Documents \cup {Unparsable, Nothing},
            lock : LockIds \cup {NoLock},
            base : Serials,                         \* open_transaction: the pin
            plan : Plan]                            \* preview: what is recorded

Asked(pc, id, tx, body, l) ==
  [pc |-> pc, id |-> id, tx |-> tx, body |-> body, lock |-> l, base |-> 0, plan |-> NoPlan]

Pinned(id, base) ==
  [pc |-> "open_insert", id |-> id, tx |-> NoTx, body |-> Nothing, lock |-> NoLock,
   base |-> base, plan |-> NoPlan]

Recording(pc, t, plan) ==
  [pc |-> pc, id |-> 0, tx |-> t, body |-> Nothing, lock |-> NoLock, base |-> 0, plan |-> plan]

Idle == Asked("idle", 0, NoTx, Nothing, NoLock)

(* A transaction request that needs no more than to know its transaction. *)
Doing(pc, t) == Asked(pc, 0, t, Nothing, NoLock)

(* A commit whose document is stored. *)
Landed(pc, t, body) == Asked(pc, 0, t, body, NoLock)

(* The same request, one step further, with the state_id it has found. *)
Onward(r, pc, id) == Asked(pc, id, r.tx, r.body, r.lock)

Init ==
  /\ InitTables
  /\ request = [a \in Replicas |-> Idle]
  /\ rowLock = Free

At(a, pc) == request[a].pc = pc

Go(a, r)    == request' = [request EXCEPT ![a] = r]
Step(a, pc)  == Go(a, Onward(request[a], pc, request[a].id))

(* A commit, a rollback or the end of the connection gives the lock back. *)
Unlocked(a) == rowLock' = IF rowLock = a THEN Free ELSE rowLock

Finish(a) == Go(a, Idle) /\ Unlocked(a)

(* No statement of a request waits for a lock of its own. *)
RowIsFree(a) == rowLock \in {Free, a}

Committing(a) == request[a].tx # NoTx

(* The row a request found by name is the one its statements address. *)
SameState(a) == request[a].id = state.id
-----------------------------------------------------------------------------
(* ensure_state: look the name up, insert it when it is not there.  The     *)
(* loser of two inserts fails on UNIQUE (tenant_id, name).                  *)

(* What follows ensure_state in each of the requests that call it. *)
After(r) ==
  IF r.body # Nothing THEN "write" ELSE IF r.lock # NoLock THEN "lock" ELSE "open"

Ensured(a, r) ==
  Go(a, IF Exists THEN Onward(r, After(r), state.id) ELSE Onward(r, "create", 0))

CreateState(a) ==
  /\ At(a, "create")
  /\ IF Exists
     THEN Finish(a) /\ UNCHANGED tables
     ELSE /\ InsertState
          /\ Go(a, Onward(request[a], After(request[a]), created + 1))
          /\ UNCHANGED rowLock
-----------------------------------------------------------------------------
(* write_state, called by the backend and import routes and by a commit. *)

Write(a, doc, l) ==
  /\ At(a, "idle")
  /\ Ensured(a, Asked("idle", 0, NoTx, doc, l))
  /\ UNCHANGED <<tables, rowLock>>

(* A rejected write is the answer to the client; a commit goes on to fail  *)
(* its transaction, on the same connection.                                *)
Rejected(a) ==
  IF Committing(a) THEN Go(a, Doing("fail", request[a].tx)) /\ rowLock' = a ELSE Finish(a)

Accepted(a) ==
  IF Committing(a) THEN Go(a, Landed("finish", request[a].tx, request[a].body)) /\ rowLock' = a ELSE Finish(a)

(* Mutant: the row is read without FOR UPDATE. *)
LockRowUnlocked(a) ==
  LET doc == request[a].body  held == LockOf(request[a].id)
  IN /\ At(a, "write")
     /\ CASE ~Exists -> Go(a, IF Committing(a) THEN Doing("fail", request[a].tx) ELSE Idle)
          [] Exists /\ (held \notin {NoLock, request[a].lock} \/ Conflicts(doc)) ->
               Go(a, IF Committing(a) THEN Doing("fail", request[a].tx) ELSE Idle)
          [] OTHER -> Step(a, "insert")
     /\ UNCHANGED <<tables, rowLock>>

(* SELECT ... FOR UPDATE, then the lock row and the guards, which nobody    *)
(* can turn against the writer while it holds the row.                      *)
LockRow(a) ==
  LET doc  == request[a].body
      held == LockOf(request[a].id)
  IN /\ At(a, "write")
     /\ RowIsFree(a)
     /\ \/ /\ ~Exists                           \* deleted since ensure_state
           /\ IF Committing(a) THEN Go(a, Doing("fail", request[a].tx)) /\ UNCHANGED rowLock
              ELSE Finish(a)
        \/ /\ Exists
           /\ held \notin {NoLock, request[a].lock} \/ Conflicts(doc)
           /\ Rejected(a)
        \/ /\ Exists
           /\ held \in {NoLock, request[a].lock} /\ ~Conflicts(doc)
           /\ IF Unchanged(doc) THEN Accepted(a)
              ELSE Step(a, "insert") /\ rowLock' = a
     /\ UNCHANGED tables

(* A state created anew since ensure_state has another id, and a version 0  *)
(* that exists is not caught by the guard: both end in an exception.        *)
InsertVersion(a) ==
  LET doc == request[a].body
  IN /\ At(a, "insert")
     /\ IF ~SameState(a) \/ Stored(doc.serial)
        THEN Finish(a) /\ UNCHANGED tables
        ELSE /\ StoreVersion(doc)
             /\ Go(a, IF Committing(a) THEN Landed("finish", request[a].tx, request[a].body) ELSE Idle)
             /\ Unlocked(a)
-----------------------------------------------------------------------------
(* acquire_lock, release_lock, delete_state *)

Acquire(a, l) ==
  /\ At(a, "idle")
  /\ Ensured(a, Asked("idle", 0, NoTx, Nothing, l))
  /\ UNCHANGED <<tables, rowLock>>

AcquireCheck(a) ==
  /\ At(a, "lock")
  /\ IF LockOf(request[a].id) # NoLock THEN Finish(a)
     ELSE Step(a, "lock_insert") /\ UNCHANGED rowLock
  /\ UNCHANGED tables

(* Mutant: the insert does not wait for a write under way. *)
AcquireInsertAtOnce(a) ==
  /\ At(a, "lock_insert")
  /\ IF SameState(a) /\ lock = NoLock THEN SetLock(request[a].lock) ELSE UNCHANGED tables
  /\ Finish(a)

(* The loser of two inserts fails on the primary key. *)
AcquireInsert(a) ==
  /\ At(a, "lock_insert")
  /\ SameState(a) => RowIsFree(a)
  /\ IF SameState(a) /\ lock = NoLock THEN SetLock(request[a].lock) ELSE UNCHANGED tables
  /\ Finish(a)

(* Without an id this is a force-unlock.  The row is checked here and       *)
(* deleted, whatever it has become, in the next step.                       *)
Release(a, l) ==
  /\ At(a, "idle")
  /\ lock # NoLock
  /\ l \in {NoLock, lock}
  /\ Go(a, Asked("unlock", state.id, NoTx, Nothing, NoLock))
  /\ UNCHANGED <<tables, rowLock>>

Unlock(a) ==
  /\ At(a, "unlock")
  /\ IF SameState(a) THEN SetLock(NoLock) ELSE UNCHANGED tables
  /\ Finish(a)

(* Bound: the last state is not deleted. *)
Delete(a) ==
  /\ At(a, "idle")
  /\ Exists
  /\ created < MaxStates
  /\ Go(a, Asked("delete", state.id, NoTx, Nothing, NoLock))
  /\ UNCHANGED <<tables, rowLock>>

DeleteState(a) ==
  /\ At(a, "delete")
  /\ SameState(a) => RowIsFree(a)
  /\ IF SameState(a) THEN DeleteStateRow ELSE UNCHANGED tables
  /\ Finish(a)
-----------------------------------------------------------------------------
(* Transactions: open, preview, abort, commit. *)

Open(a) ==
  /\ At(a, "idle")
  /\ Ensured(a, Idle)
  /\ UNCHANGED <<tables, rowLock>>

PinBase(a) ==
  /\ At(a, "open")
  /\ Go(a, Pinned(request[a].id, state.serial))
  /\ UNCHANGED <<tables, rowLock>>

OpenInsert(a) ==
  /\ At(a, "open_insert")
  /\ SameState(a) => RowIsFree(a)
  /\ IF SameState(a)
     THEN \E t \in Txs : txs[t].status = "unused" /\ SetTx(t, OpenTx("open", request[a].base))
     ELSE UNCHANGED tables
  /\ Finish(a)

(* A transaction is used by the client that opened it; whether it may have *)
(* two requests under way (a retry after a timeout, a second terminal) is  *)
(* a parameter.                                                            *)
MayAsk(a, t) ==
  /\ At(a, "idle")
  /\ InTable(t)
  /\ OneRequestPerTx => \A b \in Replicas : request[b].tx # t

(* Each of the three parts of a preview reads the status, and then replaces *)
(* what was recorded before.                                                *)
Preview(a, t, w, g) ==
  /\ MayAsk(a, t)
  /\ txs[t].status \notin Final
  /\ Go(a, Recording("resources", t, [writes |-> w, report |-> g]))
  /\ UNCHANGED <<tables, rowLock>>

RecordResources(a) ==
  LET t == request[a].tx
  IN /\ At(a, "resources")
     /\ IF InTable(t)
        THEN /\ SetTx(t, [txs[t] EXCEPT !.writes = request[a].plan.writes])
             /\ Go(a, Recording("check_gates", t, [writes |-> {}, report |-> request[a].plan.report]))
             /\ UNCHANGED rowLock
        ELSE Finish(a) /\ UNCHANGED tables

(* record_config_edges and record_gates both look; edges are left out. *)
CheckGates(a) ==
  /\ At(a, "check_gates")
  /\ IF txs[request[a].tx].status \in Final \cup {"deleted"} THEN Finish(a)
     ELSE /\ Go(a, Recording("gates", request[a].tx, request[a].plan))
          /\ UNCHANGED rowLock
  /\ UNCHANGED tables

RecordGates(a) ==
  LET t == request[a].tx
  IN /\ At(a, "gates")
     /\ IF InTable(t)
        THEN /\ SetTx(t, [txs[t] EXCEPT !.report = request[a].plan.report])
             /\ Go(a, Doing("preview", t)) /\ UNCHANGED rowLock
        ELSE Finish(a) /\ UNCHANGED tables

(* transition: the status is read here and overwritten in the next step.    *)
Transition(a, t, target) ==
  IF InTable(t) /\ target \in Allowed(txs[t].status)
  THEN Go(a, Doing(target, t)) /\ UNCHANGED rowLock
  ELSE Finish(a)

PreviewTransition(a) ==
  /\ At(a, "preview")
  /\ Transition(a, request[a].tx, "previewing")
  /\ UNCHANGED tables

Abort(a, t) ==
  /\ MayAsk(a, t)
  /\ "aborted" \in Allowed(txs[t].status)
  /\ Transition(a, t, "aborted")
  /\ UNCHANGED tables

FailTransaction(a) ==
  /\ At(a, "fail")
  /\ Transition(a, request[a].tx, "failed")
  /\ UNCHANGED tables

(* prepare_commit looks at conflicts and gates, not at the status. *)
Commit(a, t, doc, l) ==
  /\ MayAsk(a, t)
  /\ Go(a, IF Ready(t) /\ doc # Unparsable THEN Asked("ensure", 0, t, doc, l)
           ELSE Doing("fail", t))
  /\ UNCHANGED <<tables, rowLock>>

CommitEnsures(a) ==
  /\ At(a, "ensure")
  /\ Ensured(a, request[a])
  /\ UNCHANGED <<tables, rowLock>>

(* The version is stored.  The status counts now, and conflicts and gates   *)
(* once more; the outcome is written in the next step.                      *)
FinishCommit(a) ==
  LET t == request[a].tx
  IN /\ At(a, "finish")
     /\ IF txs[t].status \notin Final \cup {"deleted"}
        THEN /\ Go(a, IF Ready(t) THEN Landed("committed", t, request[a].body)
                      ELSE Doing("failed", t))
             /\ UNCHANGED rowLock
        ELSE Finish(a)
     /\ UNCHANGED tables

(* The UPDATE: by tx_id alone. *)
CommittedTx(tx, doc) ==
  [status |-> "committed", base |-> tx.base, serial |-> doc.serial, writes |-> tx.writes,
   report |-> tx.report, sent |-> doc.content]

Settle(a) ==
  LET t == request[a].tx
      outcome == request[a].pc
  IN /\ outcome \in Outcomes
     /\ IF ~InTable(t) THEN UNCHANGED tables
        ELSE SetTx(t, IF outcome = "committed" THEN CommittedTx(txs[t], request[a].body)
                      ELSE [txs[t] EXCEPT !.status = outcome])
     /\ Finish(a)

(* The process dies or loses the database: uncommitted work is rolled back. *)
Die(a) ==
  /\ ~At(a, "idle")
  /\ Finish(a)
  /\ UNCHANGED tables
-----------------------------------------------------------------------------
Ask(a) ==
  \/ \E l \in LockIds \cup {NoLock} :
       \/ \E doc \in Documents : Write(a, doc, l)
       \/ \E t \in Txs, doc \in Documents \cup {Unparsable} : Commit(a, t, doc, l)
       \/ Release(a, l)
  \/ \E l \in LockIds : Acquire(a, l)
  \/ Delete(a)
  \/ Open(a)
  \/ \E t \in Txs : \/ Abort(a, t)
                    \/ \E w \in SUBSET Addresses, g \in Reports : Preview(a, t, w, g)

Serve(a) ==
  \/ CreateState(a) \/ CommitEnsures(a)
  \/ LockRow(a) \/ InsertVersion(a)
  \/ AcquireCheck(a) \/ AcquireInsert(a) \/ Unlock(a) \/ DeleteState(a)
  \/ PinBase(a) \/ OpenInsert(a)
  \/ RecordResources(a) \/ CheckGates(a) \/ RecordGates(a) \/ PreviewTransition(a)
  \/ FailTransaction(a) \/ FinishCommit(a) \/ Settle(a)

Next == \E a \in Replicas : Ask(a) \/ Serve(a) \/ Die(a)

Spec == Init /\ [][Next]_vars
-----------------------------------------------------------------------------
(***************************************************************************)
(* Properties                                                              *)
(***************************************************************************)

(* Every variable keeps the shape the schema gives it. *)
TypeOK ==
  /\ TablesTypeOK
  /\ request \in [Replicas -> Request]
  /\ rowLock \in Replicas \cup {Free}

(* A version is stored only by a request that carries the lock id the state *)
(* is locked with, or while it is not locked: the check in write_state still*)
(* holds when its INSERT lands, two statements later.                       *)
LockRespected ==
  [][\A s \in Serials : ~Stored(s) /\ Stored(s)' =>
       \E a \in Replicas : At(a, "insert") /\ lock \in {NoLock, request[a].lock}]_vars

(* A committed transaction points at a version that is still stored and     *)
(* holds what its client sent, at or after the serial it was pinned to.     *)
CommitsAreStored ==
  \A t \in Txs : txs[t].status = "committed" =>
    /\ txs[t].serial >= txs[t].base
    /\ versions[txs[t].serial].content = txs[t].sent

(* A committed transaction has every required gate reported as passed, and  *)
(* keeps that report: missing and skipped block as a failure does.          *)
CommittedPassedGates ==
  \A t \in Txs : txs[t].status = "committed" =>
    \A g \in Required : txs[t].report[g] = "passed"

(* u had committed over what t was planned from, and t committed as well. *)
Overtook(u, t) ==
  /\ txs[t].status = "committed" /\ txs[u].status = "committed"
  /\ t # u
  /\ txs[t].base < txs[u].serial /\ txs[u].serial <= txs[t].serial

(* Two transactions whose clients number their document one past the serial *)
(* they planned from never both commit over each other, whatever they write:*)
(* only identical documents can share a serial.                             *)
SuccessorsSerialize ==
  \A t, u \in Txs :
    (Overtook(u, t) /\ txs[t].serial = txs[t].base + 1) => txs[u].sent = txs[t].sent

(* The versions of a state are a history that is only ever added to. *)
History == INSTANCE StateHistory
  WITH exists  <- Exists,
       content <- [s \in Serials |-> versions[s].content],
       lineage <- [s \in Serials |-> versions[s].lineage],
       head    <- state.serial

ImplementsHistory == History!Spec
=============================================================================
