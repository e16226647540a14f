---------------------------- MODULE StateTables ----------------------------
(***************************************************************************)
(* The PostgreSQL tables of the state store, for one (tenant, name):       *)
(* `states`, `state_versions`, `state_locks` and `state_transactions` with *)
(* the write sets and gate reports that hang off it.  What is here is the  *)
(* data, the queries and the rules; StateStore.tla has the requests that   *)
(* read and write it, one SQL transaction at a time.                       *)
(*                                                                         *)
(* A state that is deleted and created again gets a new state_id: `id` is  *)
(* 0 while there is no row and counts up.  Deleting the row cascades over  *)
(* versions, lock and transactions, so they all belong to the current id.  *)
(* A version id is never shared by two serials: versions are kept by serial*)
(***************************************************************************)
EXTENDS Naturals, FiniteSets

CONSTANTS MaxStates,   \* bound: how often the state is created
          MaxSerial,   \* bound: serials in the documents clients send
          Lineages,
          NoLineage,   \* states.lineage before the first version
          Contents,    \* digests of state documents
          LockIds,
          NoLock,
          Txs,         \* transaction ids
          NoTx,
          Addresses,   \* resources a plan may write
          Gates,
          Required     \* required_gates

ASSUME TablesAssumption ==
  /\ MaxStates \in Nat \ {0}
  /\ MaxSerial \in Nat
  /\ NoLineage \notin Lineages \cup Contents
  /\ NoLock \notin LockIds
  /\ NoTx \notin Txs
  /\ Required \subseteq Gates

VARIABLES state,     \* the row of `states`
          created,   \* how many ids were given out
          versions,  \* serial -> the version stored under it
          lock,      \* state_locks.lock_id
          txs        \* state_transactions

tables == <<state, created, versions, lock, txs>>

Serials    == 0..MaxSerial
TxStatus   == {"open", "previewing", "committing", "committed", "failed", "aborted"}
Final      == {"committed", "failed", "aborted"}
GateResult == {"unreported", "passed", "skipped", "failed"}
Report     == [Gates -> GateResult]
Unreported == [g \in Gates |-> "unreported"]

Document == [serial : Serials, lineage : Lineages, content : Contents]

Version   == [lineage : Lineages, content : Contents]
NoVersion == [lineage |-> NoLineage, content |-> NoLineage]

State   == [id : Nat, serial : Serials, lineage : Lineages \cup {NoLineage}]
NoState == [id |-> 0, serial |-> 0, lineage |-> NoLineage]

(* "unused": not given out yet; "deleted": gone with its state.  `sent` is *)
(* history: the content of the body the transaction was committed with.    *)
Tx == [status : TxStatus \cup {"unused", "deleted"},
       base   : Serials,
       serial : Serials,
       writes : SUBSET Addresses,
       report : Report,
       sent   : Contents \cup {NoLineage}]

OpenTx(status, base) ==
  [status |-> status, base |-> base, serial |-> 0, writes |-> {},
   report |-> Unreported, sent |-> NoLineage]

InitTables ==
  /\ state    = NoState
  /\ created  = 0
  /\ versions = [s \in Serials |-> NoVersion]
  /\ lock     = NoLock
  /\ txs      = [t \in Txs |-> OpenTx("unused", 0)]
-----------------------------------------------------------------------------
(* Queries *)

Exists == state.id # 0

(* The lock row of state_id: a stale id has none. *)
LockOf(id) == IF id = state.id THEN lock ELSE NoLock

InTable(t) == txs[t].status \in TxStatus

Stored(s) == versions[s] # NoVersion

(* states.current_version_id, followed. *)
Current == versions[state.serial]
-----------------------------------------------------------------------------
(* The rules of a write: _guard_write and the digest comparison. *)

(* Mutant: digests are not compared. *)
AnyContent(doc) == Stored(state.serial)

SameContent(doc) == Current.content = doc.content

Conflicts(doc) ==
  \/ state.lineage \notin {NoLineage, doc.lineage}
  \/ doc.serial < state.serial
  \/ doc.serial = state.serial /\ state.serial > 0 /\ ~SameContent(doc)

Unchanged(doc) == doc.serial = state.serial /\ SameContent(doc)
-----------------------------------------------------------------------------
(* The rules of a transaction. *)

Allowed(status) ==
  CASE status = "open"       -> {"previewing", "committing", "aborted", "failed"}
    [] status = "previewing" -> {"committing", "aborted", "failed"}
    [] status = "committing" -> {"committed", "failed", "aborted"}
    [] OTHER                 -> {}

(* Only writes that overlap count, and only those committed after the base. *)
ConflictsFor(t) ==
  {u \in Txs \ {t} : /\ txs[u].status = "committed"
                     /\ txs[u].serial > txs[t].base
                     /\ txs[u].writes \cap txs[t].writes # {}}

(* Mutant: a skipped gate does not block. *)
BlockingUnlessSkipped(t) ==
  {g \in Gates : \/ txs[t].report[g] = "failed"
                 \/ g \in Required /\ txs[t].report[g] = "unreported"}

(* A required gate blocks unless it passed; any other only when it failed. *)
BlockingGates(t) ==
  {g \in Gates : \/ txs[t].report[g] = "failed"
                 \/ g \in Required /\ txs[t].report[g] # "passed"}

Ready(t) == ConflictsFor(t) = {} /\ BlockingGates(t) = {}
-----------------------------------------------------------------------------
(* Statements *)

InsertState ==
  /\ state'   = [id |-> created + 1, serial |-> 0, lineage |-> NoLineage]
  /\ created' = created + 1
  /\ UNCHANGED <<versions, lock, txs>>

(* Mutant: foreign keys are not enforced (SQLite, unless a PRAGMA says so). *)
DeleteWithoutCascade ==
  /\ state'    = NoState
  /\ versions' = [s \in Serials |-> NoVersion]
  /\ UNCHANGED <<created, lock, txs>>

(* ON DELETE CASCADE. *)
DeleteStateRow ==
  /\ state'    = NoState
  /\ versions' = [s \in Serials |-> NoVersion]
  /\ lock'     = NoLock
  /\ txs'      = [t \in Txs |-> IF InTable(t) THEN OpenTx("deleted", 0) ELSE txs[t]]
  /\ UNCHANGED created

(* The new version and the row that points at it. *)
StoreVersion(doc) ==
  /\ versions' = [versions EXCEPT ![doc.serial] =
                    [lineage |-> doc.lineage, content |-> doc.content]]
  /\ state'    = [id |-> state.id, serial |-> doc.serial, lineage |-> doc.lineage]
  /\ UNCHANGED <<created, lock, txs>>

SetLock(l) == lock' = l /\ UNCHANGED <<state, created, versions, txs>>

SetTx(t, tx) == txs' = [txs EXCEPT ![t] = tx] /\ UNCHANGED <<state, created, versions, lock>>

TablesTypeOK ==
  /\ state    \in State
  /\ created  \in 0..MaxStates
  /\ versions \in [Serials -> Version \cup {NoVersion}]
  /\ lock     \in LockIds \cup {NoLock}
  /\ txs      \in [Txs -> Tx]
=============================================================================
