-------------------------- MODULE StateStoreProofs --------------------------
(***************************************************************************)
(* What the state store guarantees for any number of replicas,             *)
(* transactions, documents and locks, whether or not clients wait for      *)
(* their answers:                                                          *)
(*                                                                         *)
(*   StoreInvariant      the tables and every request stay in order        *)
(*   StoreTypeCorrect    every variable keeps its shape                    *)
(*   WritesRespectLocks  no version is stored over another's lock          *)
(*   CommitsBacked       a committed transaction's document is stored      *)
(*   StoreIsHistory      the versions implement StateHistory               *)
(*   SuccessorsShareDocuments  commits over one base wrote one document    *)
(*   CommitsPassedGates  under OneRequestPerTx, commits passed their gates *)
(*                                                                         *)
(* The argument.  Every step of a replica changes the tables in one of six *)
(* ways (TableStep) and the row lock in one of three (RowStep).  What a    *)
(* request relies on (Relies) survives every such step of another replica: *)
(* a writer about to insert because it holds the row, so that its lock     *)
(* check and its guard stay true; a commit whose version has landed because*)
(* versions are only added, or vanish along with the transaction.          *)
(***************************************************************************)
EXTENDS StateStore, TLAPS

Assumptions == TablesAssumption /\ StoreAssumption

(* Requests that work with a state_id, with a document, for a transaction. *)
Addressed == {"write", "insert", "lock", "lock_insert", "unlock", "delete", "open", "open_insert"}
Writing   == {"ensure", "write", "insert", "finish", "committed"}
OfTx      == Outcomes \cup {"ensure", "resources", "check_gates", "gates", "preview", "fail",
                            "finish"}

(* What a request r carries at each of its steps. *)
Shape(r) ==
  /\ r \in Request
  /\ r.pc \in Addressed => r.id \in 1..created
  /\ r.pc \in Writing => r.body \in Documents
  /\ r.pc \in OfTx => r.tx \in Txs
  /\ r.pc = "create" => r.body \in Documents \cup {Nothing}
  /\ r.pc = "delete" => r.id < MaxStates
  /\ r.tx \in Txs => txs[r.tx].status # "unused"

(* A writer past its checks holds the row, and the checks still hold. *)
Guarded(a, r) ==
  r.pc = "insert" => /\ rowLock = a
                     /\ r.id = state.id => /\ lock \in {NoLock, r.lock}
                                           /\ ~Conflicts(r.body)

(* A commit past its write: what it wrote is stored. *)
Backed(r) ==
  (r.pc \in {"finish", "committed"} /\ InTable(r.tx)) =>
    /\ r.body.serial >= txs[r.tx].base
    /\ versions[r.body.serial].content = r.body.content

(* The pin of a transaction about to be opened is not ahead of the state. *)
PinnedBelow(r) ==
  (r.pc = "open_insert" /\ r.id = state.id) => r.base <= state.serial

Relies(a, r) == Shape(r) /\ Guarded(a, r) /\ Backed(r) /\ PinnedBelow(r)

(* Ids count up, and the last state is not deleted. *)
Ids ==
  /\ state.id \in {0, created}
  /\ ~Exists => created < MaxStates

(* No version lies above the head or outside the lineage of its state; what *)
(* belongs to a state is gone when the state is.                            *)
Linear ==
  /\ \A s \in Serials : Stored(s) => s <= state.serial /\ versions[s].lineage = state.lineage
  /\ ~Exists => /\ state = NoState
                /\ lock = NoLock
                /\ \A s \in Serials : ~Stored(s)
                /\ \A t \in Txs : ~InTable(t)

(* A committed transaction stands for a document. *)
Committed(tx) ==
  tx.status = "committed" => /\ tx.serial >= tx.base
                             /\ tx.sent \in Contents
                             /\ versions[tx.serial].content = tx.sent

Transactions ==
  \A t \in Txs : /\ InTable(t) => txs[t].base <= state.serial
                 /\ Committed(txs[t])

TablesOK == TablesTypeOK /\ Ids /\ Linear /\ Transactions

StoreInv ==
  /\ TablesOK
  /\ request \in [Replicas -> Request]
  /\ rowLock \in Replicas \cup {Free}
  /\ \A a \in Replicas : Relies(a, request[a])

(* The six ways a step of a changes the tables. *)
Stores(a) ==
  \E doc \in Documents :
    /\ At(a, "insert") /\ rowLock = a
    /\ lock \in {NoLock, request[a].lock}
    /\ Exists /\ ~Stored(doc.serial) /\ ~Conflicts(doc)
    /\ StoreVersion(doc)

Locks(a) ==
  \E l \in LockIds \cup {NoLock} :
    /\ Exists
    /\ l = NoLock \/ RowIsFree(a)
    /\ SetLock(l)

Deletes(a) == Exists /\ created < MaxStates /\ RowIsFree(a) /\ DeleteStateRow

Records(t, x) ==
  /\ Exists
  /\ x.status \in TxStatus
  /\ txs[t].status = "unused" \/ (InTable(t) /\ x.base = txs[t].base)
  /\ x.base <= state.serial
  /\ Committed(x)
  /\ SetTx(t, x)

TableStep(a) ==
  \/ UNCHANGED tables
  \/ ~Exists /\ InsertState
  \/ Stores(a)
  \/ Locks(a)
  \/ Deletes(a)
  \/ \E t \in Txs, x \in Tx : Records(t, x)

(* The three ways it changes the row lock. *)
RowStep(a) ==
  \/ rowLock' = rowLock
  \/ rowLock = a /\ rowLock' = Free
  \/ RowIsFree(a) /\ rowLock' = a

(* A step of a leaves the other requests alone and leads its own to r. *)
GoodStep(a, r) == TableStep(a) /\ RowStep(a) /\ Go(a, r) /\ Relies(a, r)'
Good(a)        == \E r \in Request : GoodStep(a, r)
-----------------------------------------------------------------------------
(* The placeholder for "no document" is no document. *)
LEMMA NothingIsNoDocument ==
  ASSUME Assumptions
  PROVE  Nothing \notin Documents /\ Unparsable \notin Documents
  BY DEF Assumptions, TablesAssumption, StoreAssumption, Nothing, Document

(* Documents name a serial, a lineage and a content the tables can hold. *)
LEMMA DocumentFields ==
  ASSUME Assumptions, NEW doc \in Documents
  PROVE  /\ doc.serial \in Serials /\ doc.lineage \in Lineages /\ doc.content \in Contents
         /\ doc.lineage # NoLineage /\ doc.content # NoLineage
  BY DEF Assumptions, TablesAssumption, StoreAssumption, Document

(* A stored version is a version, with a content. *)
LEMMA StoredIsVersion ==
  ASSUME Assumptions, TablesTypeOK, NEW s \in Serials
  PROVE  /\ Stored(s) => versions[s] \in Version /\ versions[s].content \in Contents
         /\ Stored(s) <=> versions[s].content # NoLineage
  <1>1. versions[s] \in Version \cup {NoVersion}
    BY DEF TablesTypeOK
  <1>2. CASE versions[s] \in Version
    BY <1>2 DEF Version, Stored, NoVersion, Assumptions, TablesAssumption
  <1>3. CASE versions[s] = NoVersion
    BY <1>3 DEF Stored, NoVersion
  <1> QED BY <1>1, <1>2, <1>3
-----------------------------------------------------------------------------
(* The tables stay in order, whichever way they change. *)
LEMMA TablesKept ==
  ASSUME Assumptions, TablesOK, NEW a \in Replicas, TableStep(a)
  PROVE  TablesOK'
  <1> USE DEF Exists, InTable, Stored
  <1>1. CASE UNCHANGED tables
    BY <1>1 DEF tables, TablesOK, TablesTypeOK, Ids, Linear, Transactions, Committed
  <1>2. CASE ~Exists /\ InsertState
    <2>1. TablesTypeOK'
      BY <1>2 DEF InsertState, TablesOK, TablesTypeOK, Ids, State, Serials, Assumptions,
                  TablesAssumption
    <2>2. Ids'
      BY <1>2 DEF InsertState, TablesOK, TablesTypeOK, Ids
    <2>3. Linear'
      BY <1>2 DEF InsertState, TablesOK, TablesTypeOK, Linear
    <2>4. Transactions'
      BY <1>2 DEF InsertState, TablesOK, Linear, Transactions, Committed
    <2> QED BY <2>1, <2>2, <2>3, <2>4 DEF TablesOK
  <1>3. CASE Stores(a)
    <2>1. PICK doc \in Documents : /\ Exists /\ ~Stored(doc.serial) /\ ~Conflicts(doc)
                                   /\ StoreVersion(doc)
      BY <1>3 DEF Stores
    <2> DEFINE v == [lineage |-> doc.lineage, content |-> doc.content]
    <2>2. /\ doc.serial \in Serials /\ doc.lineage \in Lineages /\ doc.content \in Contents
          /\ doc.lineage # NoLineage
      BY DocumentFields
    <2>3. v \in Version
      BY <2>2 DEF Version
    <2>4. /\ versions' = [versions EXCEPT ![doc.serial] = v]
          /\ state' = [id |-> state.id, serial |-> doc.serial, lineage |-> doc.lineage]
          /\ created' = created /\ lock' = lock /\ txs' = txs
      BY <2>1 DEF StoreVersion
    <2>5. TablesTypeOK'
      BY <2>2, <2>3, <2>4 DEF TablesOK, TablesTypeOK, State
    <2>6. Ids'
      BY <2>1, <2>4 DEF TablesOK, Ids
    <2>7. state.serial <= doc.serial /\ state.lineage \in {NoLineage, doc.lineage}
      BY <2>1, <2>2 DEF Conflicts, TablesOK, TablesTypeOK, State, Serials
    <2>8. ASSUME NEW s \in Serials, s # doc.serial, Stored(s)
          PROVE  s <= doc.serial /\ versions[s].lineage = doc.lineage
      <3>1. s <= state.serial /\ versions[s].lineage = state.lineage
        BY <2>8 DEF TablesOK, Linear
      <3>2. versions[s].lineage \in Lineages
        BY <2>8, StoredIsVersion DEF TablesOK, Version
      <3> QED
        BY <3>1, <3>2, <2>7, <2>2 DEF Serials, TablesOK, TablesTypeOK, State, Assumptions,
           TablesAssumption
    <2>9. Linear'
      BY <2>1, <2>2, <2>4, <2>8 DEF Linear, Serials, TablesOK, TablesTypeOK
    <2>10. Transactions'
      <3> SUFFICES ASSUME NEW t \in Txs
                   PROVE  (InTable(t) => txs[t].base <= state.serial)' /\ Committed(txs[t])'
        BY DEF Transactions
      <3>1. txs[t] \in Tx
        BY DEF TablesOK, TablesTypeOK
      <3>2. (InTable(t) => txs[t].base <= state.serial)'
        BY <3>1, <2>2, <2>4, <2>7 DEF TablesOK, Transactions, Tx, Serials, TablesTypeOK, State
      <3>3. ASSUME txs[t].status = "committed"
            PROVE  versions'[txs[t].serial].content = txs[t].sent
        <4>1. txs[t].serial \in Serials /\ txs[t].sent \in Contents
              /\ versions[txs[t].serial].content = txs[t].sent
          BY <3>1, <3>3 DEF TablesOK, Transactions, Committed, Tx
        <4>2. Stored(txs[t].serial)
          BY <4>1, StoredIsVersion DEF TablesOK, Assumptions, TablesAssumption
        <4>3. txs[t].serial # doc.serial
          BY <4>2, <2>1
        <4> QED BY <4>1, <4>3, <2>4, <2>2 DEF TablesOK, TablesTypeOK
      <3> QED BY <3>2, <3>3, <2>4 DEF TablesOK, Transactions, Committed
    <2> QED BY <2>5, <2>6, <2>9, <2>10 DEF TablesOK
  <1>4. CASE Locks(a)
    BY <1>4 DEF Locks, SetLock, TablesOK, TablesTypeOK, Ids, Linear, Transactions, Committed
  <1>5. CASE Deletes(a)
    <2>1. /\ state' = NoState /\ lock' = NoLock /\ created' = created
          /\ versions' = [s \in Serials |-> NoVersion]
          /\ txs' = [t \in Txs |-> IF InTable(t) THEN OpenTx("deleted", 0) ELSE txs[t]]
      BY <1>5 DEF Deletes, DeleteStateRow
    <2>2. OpenTx("deleted", 0) \in Tx
      BY DEF OpenTx, Tx, Report, Unreported, GateResult, Serials, Assumptions, TablesAssumption
    <2>3. TablesTypeOK'
      BY <2>1, <2>2 DEF TablesOK, TablesTypeOK, State, NoState, Serials, Assumptions,
                        TablesAssumption
    <2>4. Ids' /\ Linear'
      BY <1>5, <2>1 DEF Deletes, TablesOK, TablesTypeOK, Ids, Linear, NoState, OpenTx, TxStatus
    <2>5. Transactions'
      BY <2>1 DEF TablesOK, TablesTypeOK, Transactions, Committed, OpenTx, TxStatus
    <2> QED BY <2>3, <2>4, <2>5 DEF TablesOK
  <1>6. CASE \E t \in Txs, x \in Tx : Records(t, x)
    <2>1. PICK t \in Txs, x \in Tx : Records(t, x)
      BY <1>6
    <2>2. /\ txs' = [txs EXCEPT ![t] = x]
          /\ state' = state /\ created' = created /\ versions' = versions /\ lock' = lock
      BY <2>1 DEF Records, SetTx
    <2>3. TablesTypeOK'
      BY <2>2 DEF TablesOK, TablesTypeOK
    <2>4. Ids' /\ Linear'
      BY <2>1, <2>2 DEF Records, TablesOK, Ids, Linear
    <2>5. Transactions'
      BY <2>1, <2>2 DEF Records, TablesOK, TablesTypeOK, Transactions, Committed
    <2> QED BY <2>3, <2>4, <2>5 DEF TablesOK
  <1> QED BY <1>1, <1>2, <1>3, <1>4, <1>5, <1>6 DEF TableStep
-----------------------------------------------------------------------------
(* What no step takes back: ids count up, a state that stays only moves on, *)
(* a transaction that was given out keeps its base for as long as it is     *)
(* there, and a version stays as long as any transaction is there.          *)
LEMMA OnlyForward ==
  ASSUME Assumptions, TablesOK, NEW a \in Replicas, TableStep(a)
  PROVE  /\ created' \in {created, created + 1}
         /\ state'.id # state.id => state'.id \in {0, created + 1}
         /\ state'.id = state.id => state'.serial >= state.serial
         /\ \A t \in Txs : txs[t].status # "unused" =>
              /\ txs'[t].status # "unused"
              /\ InTable(t)' => InTable(t) /\ txs'[t].base = txs[t].base
         /\ \A s \in Serials : Stored(s) =>
              versions'[s] = versions[s] \/ \A t \in Txs : ~InTable(t)'
  <1> USE DEF Exists, InTable, Stored
  <1>0. state.id \in Nat /\ created \in Nat /\ state.serial \in Nat
    BY DEF TablesOK, TablesTypeOK, State, Serials, Assumptions, TablesAssumption
  <1>1. CASE UNCHANGED tables
    BY <1>0, <1>1 DEF tables
  <1>2. CASE ~Exists /\ InsertState
    BY <1>0, <1>2 DEF InsertState
  <1>3. CASE Stores(a)
    <2>1. PICK doc \in Documents : /\ Exists /\ ~Stored(doc.serial) /\ ~Conflicts(doc)
                                   /\ StoreVersion(doc)
      BY <1>3 DEF Stores
    <2>2. doc.serial \in Nat
      BY DocumentFields DEF Serials
    <2>3. state.serial <= doc.serial
      BY <1>0, <2>1, <2>2 DEF Conflicts
    <2>4. state' = [id |-> state.id, serial |-> doc.serial, lineage |-> doc.lineage]
          /\ created' = created /\ txs' = txs
          /\ versions' = [versions EXCEPT ![doc.serial] =
                            [lineage |-> doc.lineage, content |-> doc.content]]
      BY <2>1 DEF StoreVersion
    <2>5. \A s \in Serials : Stored(s) => versions'[s] = versions[s]
      BY <2>1, <2>4 DEF TablesOK, TablesTypeOK
    <2> QED BY <1>0, <2>2, <2>3, <2>4, <2>5
  <1>4. CASE Locks(a)
    BY <1>0, <1>4 DEF Locks, SetLock
  <1>5. CASE Deletes(a)
    <2>1. /\ state'.id = 0 /\ state.id # 0 /\ created' = created
          /\ txs' = [t \in Txs |-> IF InTable(t) THEN OpenTx("deleted", 0) ELSE txs[t]]
      BY <1>5 DEF Deletes, DeleteStateRow, NoState
    <2>2. \A t \in Txs : ~InTable(t)' /\ (txs[t].status # "unused" => txs'[t].status # "unused")
      BY <2>1 DEF OpenTx, TxStatus
    <2> QED BY <2>1, <2>2
  <1>6. CASE \E t \in Txs, x \in Tx : Records(t, x)
    <2>1. PICK t \in Txs, x \in Tx : Records(t, x)
      BY <1>6
    <2>2. /\ txs' = [txs EXCEPT ![t] = x]
          /\ state' = state /\ created' = created /\ versions' = versions
      BY <2>1 DEF Records, SetTx
    <2>3. ASSUME NEW u \in Txs, txs[u].status # "unused"
          PROVE  /\ txs'[u].status # "unused"
                 /\ InTable(u)' => InTable(u) /\ txs'[u].base = txs[u].base
      BY <2>1, <2>2, <2>3 DEF Records, TxStatus, TablesOK, TablesTypeOK
    <2> QED BY <1>0, <2>2, <2>3
  <1> QED BY <1>1, <1>2, <1>3, <1>4, <1>5, <1>6 DEF TableStep

(* What a request relies on survives every step of another replica.         *)
LEMMA OthersKept ==
  ASSUME Assumptions, TablesOK, NEW a \in Replicas, NEW b \in Replicas, a # b, NEW r,
         TableStep(a), RowStep(a), Relies(b, r)
  PROVE  Relies(b, r)'
  <1>0. /\ state.id \in Nat /\ created \in Nat /\ state.serial \in Nat /\ state'.serial \in Nat
        /\ r \in Request /\ r.id \in Nat
    BY TablesKept DEF TablesOK, TablesTypeOK, State, Serials, Assumptions, TablesAssumption,
                      Relies, Shape, Request
  <1>1. r.pc \in Addressed => r.id \in 1..created
    BY DEF Relies, Shape
  <1>2. Shape(r)'
    <2>1. r.pc \in Addressed => r.id \in 1..created'
      BY <1>0, <1>1, OnlyForward
    <2>2. r.tx \in Txs => txs'[r.tx].status # "unused"
      BY OnlyForward DEF Relies, Shape
    <2> QED BY <2>1, <2>2 DEF Relies, Shape
  <1>3. r.pc \in Addressed /\ r.id = state'.id => r.id = state.id
    BY <1>0, <1>1, OnlyForward
  <1>4. Guarded(b, r)'
    <2> SUFFICES ASSUME r.pc = "insert"
                 PROVE  /\ rowLock' = b
                        /\ r.id = state'.id => /\ lock' \in {NoLock, r.lock}
                                               /\ ~Conflicts(r.body)'
      BY DEF Guarded
    <2>1. rowLock = b /\ ~RowIsFree(a)
      BY DEF Relies, Guarded, RowIsFree, Assumptions, StoreAssumption
    <2>2. rowLock' = b
      BY <2>1 DEF RowStep
    <2>3. ASSUME r.id = state'.id
          PROVE  lock' \in {NoLock, r.lock} /\ ~Conflicts(r.body)'
      <3>1. r.id = state.id /\ lock \in {NoLock, r.lock} /\ ~Conflicts(r.body)
        BY <1>3, <2>3 DEF Addressed, Relies, Guarded
      <3>2. state' = state /\ versions' = versions /\ lock' \in {NoLock, lock}
        <4>1. CASE UNCHANGED tables
          BY <4>1 DEF tables
        <4>2. CASE ~Exists /\ InsertState
          BY <4>2, <3>1, <1>1 DEF Exists, Addressed
        <4>3. CASE Stores(a)
          BY <4>3, <2>1 DEF Stores
        <4>4. CASE Locks(a)
          BY <4>4, <2>1 DEF Locks, SetLock
        <4>5. CASE Deletes(a)
          BY <4>5, <2>1 DEF Deletes
        <4>6. CASE \E t \in Txs, x \in Tx : Records(t, x)
          BY <4>6 DEF Records, SetTx
        <4> QED BY <4>1, <4>2, <4>3, <4>4, <4>5, <4>6 DEF TableStep
      <3> QED BY <3>1, <3>2 DEF Conflicts, SameContent, Current
    <2> QED BY <2>2, <2>3
  <1>5. Backed(r)'
    <2> DEFINE s == r.body.serial
    <2> SUFFICES ASSUME r.pc \in {"finish", "committed"}, InTable(r.tx)'
                 PROVE  /\ s >= txs'[r.tx].base
                        /\ versions'[s].content = r.body.content
      BY DEF Backed, InTable
    <2>1. /\ r.tx \in Txs /\ txs[r.tx].status # "unused" /\ r.body \in Documents
      BY DEF Relies, Shape, OfTx, Outcomes, Writing
    <2>2. InTable(r.tx) /\ txs'[r.tx].base = txs[r.tx].base
      BY <2>1, OnlyForward
    <2>3. s >= txs[r.tx].base /\ versions[s].content = r.body.content
      BY <2>2 DEF Relies, Backed
    <2>4. s \in Serials /\ Stored(s)
      BY <2>1, <2>3, DocumentFields, StoredIsVersion DEF TablesOK
    <2>5. versions'[s] = versions[s]
      BY <2>1, <2>4, OnlyForward
    <2> QED BY <2>2, <2>3, <2>5
  <1>6. PinnedBelow(r)'
    <2> SUFFICES ASSUME r.pc = "open_insert", r.id = state'.id
                 PROVE  r.base <= state'.serial
      BY DEF PinnedBelow
    <2>1. r.id = state.id /\ r.base <= state.serial
      BY <1>3 DEF Addressed, Relies, PinnedBelow
    <2> QED BY <1>0, <2>1, OnlyForward DEF Request, Serials
  <1> QED BY <1>2, <1>4, <1>5, <1>6 DEF Relies

(* One step of one replica keeps all of it. *)
LEMMA GoodStepKeeps ==
  ASSUME Assumptions, StoreInv, NEW a \in Replicas, NEW r \in Request, GoodStep(a, r)
  PROVE  StoreInv'
  <1>1. TableStep(a) /\ RowStep(a) /\ request' = [request EXCEPT ![a] = r] /\ Relies(a, r)'
    BY DEF GoodStep, Go
  <1>2. TablesOK'
    BY <1>1, TablesKept DEF StoreInv
  <1>3. (request \in [Replicas -> Request])' /\ (rowLock \in Replicas \cup {Free})'
    BY <1>1 DEF StoreInv, RowStep
  <1>4. ASSUME NEW b \in Replicas
        PROVE  Relies(b, request[b])'
    <2>1. CASE b = a
      <3>1. request'[b] = r
        BY <1>1, <2>1 DEF StoreInv
      <3> QED BY <1>1, <2>1, <3>1 DEF Relies, Shape, Guarded, Backed, PinnedBelow
    <2>2. CASE b # a
      <3>1. PICK q : q = request[b]
        OBVIOUS
      <3>2. request'[b] = q
        BY <1>1, <2>2, <3>1 DEF StoreInv
      <3>3. Relies(b, q)
        BY <3>1 DEF StoreInv
      <3>4. Relies(b, q)'
        BY <1>1, <2>2, <3>3, OthersKept DEF StoreInv
      <3> QED BY <3>2, <3>4 DEF Relies, Shape, Guarded, Backed, PinnedBelow
    <2> QED BY <2>1, <2>2
  <1> QED BY <1>2, <1>3, <1>4 DEF StoreInv
-----------------------------------------------------------------------------
(* What the constructors of a request build. *)
LEMMA AskedIsRequest ==
  ASSUME Assumptions, NEW pc \in Pc, NEW id \in Nat, NEW t \in Txs \cup {NoTx},
         NEW body \in Documents \cup {Unparsable, Nothing}, NEW l \in LockIds \cup {NoLock}
  PROVE  Asked(pc, id, t, body, l) \in Request
  BY DEF Asked, Request, NoPlan, Plan, Serials, Report, Unreported, GateResult, Assumptions,
         TablesAssumption

LEMMA PinnedIsRequest ==
  ASSUME Assumptions, NEW id \in Nat, NEW s \in Serials
  PROVE  Pinned(id, s) \in Request
  BY DEF Pinned, Request, Pc, NoPlan, Plan, Report, Unreported, GateResult, Assumptions,
         TablesAssumption

LEMMA RecordingIsRequest ==
  ASSUME Assumptions, NEW pc \in Pc, NEW t \in Txs, NEW plan \in Plan
  PROVE  Recording(pc, t, plan) \in Request
  BY DEF Recording, Request, Serials, Assumptions, TablesAssumption

(* A step that ends the request. *)
LEMMA FinishIsGood ==
  ASSUME Assumptions, StoreInv, NEW a \in Replicas, TableStep(a), Finish(a)
  PROVE  Good(a)
  <1>1. Idle \in Request
    BY AskedIsRequest DEF Idle, Pc
  <1>2. Relies(a, Idle)'
    BY <1>1 DEF Idle, Asked, Relies, Shape, Guarded, Backed, PinnedBelow, Addressed, Writing, OfTx,
                Outcomes, Assumptions, TablesAssumption
  <1>3. RowStep(a) /\ Go(a, Idle)
    BY DEF Finish, Unlocked, RowStep
  <1> QED BY <1>1, <1>2, <1>3 DEF Good, GoodStep

(* A step that leaves the request with a transaction and nothing else.      *)
LEMMA DoingIsGood ==
  ASSUME Assumptions, StoreInv, NEW a \in Replicas, TableStep(a), RowStep(a),
         NEW pc \in (Outcomes \ {"committed"}) \cup {"preview", "fail"},
         NEW t \in Txs, txs'[t].status # "unused", Go(a, Doing(pc, t))
  PROVE  Good(a)
  <1>1. Doing(pc, t) \in Request
    BY AskedIsRequest DEF Doing, Pc, Outcomes
  <1>2. Relies(a, Doing(pc, t))'
    BY <1>1 DEF Doing, Asked, Relies, Shape, Guarded, Backed, PinnedBelow, Addressed, Writing,
                OfTx, Outcomes
  <1> QED BY <1>1, <1>2 DEF Good, GoodStep

(* A step that leaves it with the rest of a preview. *)
LEMMA RecordingIsGood ==
  ASSUME Assumptions, StoreInv, NEW a \in Replicas, TableStep(a), RowStep(a),
         NEW pc \in {"resources", "check_gates", "gates"}, NEW plan \in Plan,
         NEW t \in Txs, txs'[t].status # "unused", Go(a, Recording(pc, t, plan))
  PROVE  Good(a)
  <1>1. Recording(pc, t, plan) \in Request
    BY RecordingIsRequest DEF Pc
  <1>2. Relies(a, Recording(pc, t, plan))'
    BY <1>1 DEF Recording, Relies, Shape, Guarded, Backed, PinnedBelow, Addressed, Writing,
                OfTx, Outcomes
  <1> QED BY <1>1, <1>2 DEF Good, GoodStep

(* A step that leaves it past a write, which its transaction can rest on.   *)
LEMMA LandedIsGood ==
  ASSUME Assumptions, StoreInv, NEW a \in Replicas, TableStep(a), RowStep(a),
         NEW pc \in {"finish", "committed"}, NEW t \in Txs, NEW doc \in Documents,
         txs'[t].status # "unused", Go(a, Landed(pc, t, doc)),
         InTable(t)' => /\ doc.serial >= txs'[t].base
                        /\ versions'[doc.serial].content = doc.content
  PROVE  Good(a)
  <1>1. Landed(pc, t, doc) \in Request
    BY AskedIsRequest DEF Landed, Pc, Outcomes
  <1>2. Relies(a, Landed(pc, t, doc))'
    BY <1>1 DEF Landed, Asked, Relies, Shape, Guarded, Backed, PinnedBelow, Addressed, Writing,
                OfTx, Outcomes, InTable
  <1> QED BY <1>1, <1>2 DEF Good, GoodStep

(* ensure_state leaves it with the id it found, or about to create the state*)
LEMMA EnsuredIsGood ==
  ASSUME Assumptions, StoreInv, NEW a \in Replicas, NEW r \in Request, Ensured(a, r),
         r.body \in Documents \cup {Nothing}, r.tx \in Txs => txs[r.tx].status # "unused",
         UNCHANGED <<tables, rowLock>>
  PROVE  Good(a)
  <1>1. TableStep(a) /\ RowStep(a)
    BY DEF TableStep, RowStep
  <1>2. r.body \in Documents \cup {Nothing} /\ r.tx \in Txs \cup {NoTx}
        /\ r.lock \in LockIds \cup {NoLock}
    BY DEF Request
  <1>3. CASE Exists
    <2> DEFINE q == Asked(After(r), state.id, r.tx, r.body, r.lock)
    <2>1. state.id \in 1..created /\ state.id \in Nat
      BY <1>3 DEF StoreInv, TablesOK, TablesTypeOK, Ids, Exists, State
    <2>2. After(r) \in {"write", "lock", "open"} /\ (After(r) = "write" => r.body \in Documents)
      BY <1>2 DEF After
    <2>3. q \in Request
      BY <1>2, <2>1, <2>2, AskedIsRequest DEF Pc
    <2>4. /\ q.pc = After(r) /\ q.id = state.id /\ q.tx = r.tx /\ q.body = r.body
      BY DEF Asked
    <2>5. /\ state' = state /\ created' = created /\ txs' = txs
      BY DEF tables
    <2>6. PICK p : p = q
      OBVIOUS
    <2>7. Relies(a, p)'
      BY <2>1, <2>2, <2>3, <2>4, <2>5, <2>6
         DEF Relies, Shape, Guarded, Backed, PinnedBelow, Addressed, Writing, OfTx, Outcomes
    <2>8. Go(a, p)
      BY <1>3, <2>6 DEF Ensured, Onward, Go
    <2> QED BY <1>1, <2>3, <2>6, <2>7, <2>8 DEF Good, GoodStep
  <1>4. CASE ~Exists
    <2> DEFINE q == Asked("create", 0, r.tx, r.body, r.lock)
    <2>1. q \in Request /\ q.pc = "create" /\ q.body = r.body /\ q.tx = r.tx
      BY <1>2, AskedIsRequest DEF Pc, Asked
    <2>2. Relies(a, q)'
      BY <2>1 DEF tables, Relies, Shape, Guarded, Backed, PinnedBelow, Addressed, Writing, OfTx,
                  Outcomes
    <2>3. Go(a, q)
      BY <1>4 DEF Ensured, Onward, Go
    <2> QED BY <1>1, <2>1, <2>2, <2>3 DEF Good, GoodStep
  <1> QED BY <1>3, <1>4
-----------------------------------------------------------------------------
(* A step that writes nothing is one of the six. *)
LEMMA QuietStep ==
  ASSUME NEW a \in Replicas, UNCHANGED tables
  PROVE  TableStep(a)
  BY DEF TableStep

(* What a replica's request is known to carry. *)
LEMMA Carried ==
  ASSUME StoreInv, NEW a \in Replicas
  PROVE  request[a] \in Request /\ Relies(a, request[a])
  BY DEF StoreInv

(* The requests a client makes. *)
LEMMA AskIsGood ==
  ASSUME Assumptions, StoreInv, NEW a \in Replicas, Ask(a)
  PROVE  Good(a)
  <1> USE DEF InTable, TxStatus
  <1>1. ASSUME NEW doc \in Documents, NEW l \in LockIds \cup {NoLock}, Write(a, doc, l)
        PROVE  Good(a)
    <2> DEFINE r == Asked("idle", 0, NoTx, doc, l)
    <2>1. r \in Request /\ r.body = doc /\ r.tx = NoTx
      BY AskedIsRequest DEF Pc, Asked
    <2>2. PICK q : q = r
      OBVIOUS
    <2>3. q.body \in Documents \cup {Nothing} /\ q.tx \notin Txs
      BY <2>1, <2>2, NothingIsNoDocument DEF Assumptions, TablesAssumption
    <2> QED BY <1>1, <2>1, <2>2, <2>3, EnsuredIsGood DEF Write
  <1>2. ASSUME NEW l \in LockIds, Acquire(a, l)
        PROVE  Good(a)
    <2> DEFINE r == Asked("idle", 0, NoTx, Nothing, l)
    <2>1. r \in Request /\ r.body = Nothing /\ r.tx = NoTx
      BY AskedIsRequest DEF Pc, Asked
    <2>2. PICK q : q = r
      OBVIOUS
    <2>3. q.body \in Documents \cup {Nothing} /\ q.tx \notin Txs
      BY <2>1, <2>2, NothingIsNoDocument DEF Assumptions, TablesAssumption
    <2> QED BY <1>2, <2>1, <2>2, <2>3, EnsuredIsGood DEF Acquire
  <1>3. ASSUME Open(a)
        PROVE  Good(a)
    <2>1. Idle \in Request /\ Idle.body = Nothing /\ Idle.tx = NoTx
      BY AskedIsRequest DEF Pc, Idle, Asked
    <2>2. PICK q : q = Idle
      OBVIOUS
    <2>3. q.body \in Documents \cup {Nothing} /\ q.tx \notin Txs
      BY <2>1, <2>2, NothingIsNoDocument DEF Assumptions, TablesAssumption
    <2> QED BY <1>3, <2>1, <2>2, <2>3, EnsuredIsGood DEF Open
  <1>4. ASSUME NEW l \in LockIds \cup {NoLock}, Release(a, l)
        PROVE  Good(a)
    <2>1. state.id \in 1..created /\ state.id \in Nat
      BY <1>4 DEF Release, StoreInv, TablesOK, TablesTypeOK, Ids, Linear, Exists, State
    <2>2. PICK q : q = Asked("unlock", state.id, NoTx, Nothing, NoLock)
      OBVIOUS
    <2>3. q \in Request /\ q.pc = "unlock" /\ q.id = state.id /\ q.tx = NoTx
      BY <2>1, <2>2, AskedIsRequest DEF Pc, Asked
    <2>4. Relies(a, q)'
      BY <1>4, <2>1, <2>3 DEF Release, tables, Relies, Shape, Guarded, Backed, PinnedBelow,
           Addressed, Writing, OfTx, Outcomes, Assumptions, TablesAssumption
    <2> QED BY <1>4, <2>2, <2>3, <2>4, QuietStep DEF Release, Good, GoodStep, RowStep
  <1>5. ASSUME Delete(a)
        PROVE  Good(a)
    <2>1. state.id \in 1..created /\ state.id \in Nat /\ state.id < MaxStates
      BY <1>5 DEF Delete, StoreInv, TablesOK, TablesTypeOK, Ids, Exists, State
    <2>2. PICK q : q = Asked("delete", state.id, NoTx, Nothing, NoLock)
      OBVIOUS
    <2>3. q \in Request /\ q.pc = "delete" /\ q.id = state.id /\ q.tx = NoTx
      BY <2>1, <2>2, AskedIsRequest DEF Pc, Asked
    <2>4. Relies(a, q)'
      BY <1>5, <2>1, <2>3 DEF Delete, tables, Relies, Shape, Guarded, Backed, PinnedBelow,
           Addressed, Writing, OfTx, Outcomes, Assumptions, TablesAssumption
    <2> QED BY <1>5, <2>2, <2>3, <2>4, QuietStep DEF Delete, Good, GoodStep, RowStep
  <1>6. ASSUME NEW t \in Txs, Abort(a, t)
        PROVE  Good(a)
    <2>1. UNCHANGED tables /\ txs'[t].status # "unused" /\ TableStep(a)
      BY <1>6, QuietStep DEF Abort, MayAsk, tables
    <2>2. CASE Finish(a)
      BY <2>1, <2>2, FinishIsGood
    <2>3. CASE Go(a, Doing("aborted", t)) /\ UNCHANGED rowLock
      BY <2>1, <2>3, DoingIsGood DEF RowStep, Outcomes
    <2> QED BY <1>6, <2>2, <2>3 DEF Abort, Transition
  <1>7. ASSUME NEW t \in Txs, NEW w \in SUBSET Addresses, NEW g \in Reports, Preview(a, t, w, g)
        PROVE  Good(a)
    <2>1. txs'[t].status # "unused" /\ TableStep(a) /\ RowStep(a)
      BY <1>7, QuietStep DEF Preview, MayAsk, tables, RowStep
    <2>2. PICK plan \in Plan : plan = [writes |-> w, report |-> g]
      BY DEF Plan, Assumptions, StoreAssumption
    <2> QED BY <1>7, <2>1, <2>2, RecordingIsGood DEF Preview
  <1>8. ASSUME NEW t \in Txs, NEW doc \in Documents \cup {Unparsable},
               NEW l \in LockIds \cup {NoLock}, Commit(a, t, doc, l)
        PROVE  Good(a)
    <2>1. txs'[t].status # "unused" /\ TableStep(a) /\ RowStep(a)
      BY <1>8, QuietStep DEF Commit, MayAsk, tables, RowStep
    <2>2. CASE Go(a, Doing("fail", t))
      BY <2>1, <2>2, DoingIsGood
    <2>3. CASE doc # Unparsable /\ Go(a, Asked("ensure", 0, t, doc, l))
      <3>1. PICK q : q = Asked("ensure", 0, t, doc, l)
        OBVIOUS
      <3>2. q \in Request /\ q.pc = "ensure" /\ q.tx = t /\ q.body = doc
        BY <3>1, AskedIsRequest DEF Pc, Asked
      <3>3. Relies(a, q)'
        BY <2>1, <2>3, <3>2 DEF Relies, Shape, Guarded, Backed, PinnedBelow,
             Addressed, Writing, OfTx, Outcomes
      <3> QED BY <2>1, <2>3, <3>1, <3>2, <3>3 DEF Good, GoodStep
    <2> QED BY <1>8, <2>2, <2>3 DEF Commit
  <1> QED BY <1>1, <1>2, <1>3, <1>4, <1>5, <1>6, <1>7, <1>8 DEF Ask
-----------------------------------------------------------------------------
(* The steps that serve the requests, one lemma for each kind of request.   *)
LEMMA CreateStateIsGood ==
  ASSUME Assumptions, StoreInv, NEW a \in Replicas, CreateState(a)
  PROVE  Good(a)
  <1>1. PICK r \in Request : r = request[a] /\ r.pc = "create" /\ Relies(a, r)
    BY Carried DEF CreateState, At
  <1>2. CASE Finish(a) /\ UNCHANGED tables
    BY <1>2, QuietStep, FinishIsGood
  <1>3. CASE ~Exists /\ InsertState /\ Go(a, Onward(r, After(r), created + 1)) /\ UNCHANGED rowLock
    <2>1. r.body \in Documents \cup {Nothing} /\ r.tx \in Txs \cup {NoTx}
          /\ r.lock \in LockIds \cup {NoLock} /\ (r.tx \in Txs => txs[r.tx].status # "unused")
      BY <1>1 DEF Relies, Shape, Request
    <2>2. After(r) \in {"write", "lock", "open"} /\ (After(r) = "write" => r.body \in Documents)
      BY <2>1 DEF After
    <2>3. created \in Nat /\ created + 1 \in Nat /\ created' = created + 1 /\ txs' = txs
      BY <1>3 DEF InsertState, StoreInv, TablesOK, TablesTypeOK
    <2>4. PICK q : q = Asked(After(r), created + 1, r.tx, r.body, r.lock)
      OBVIOUS
    <2>5. /\ q \in Request
          /\ q.pc = After(r) /\ q.id = created + 1 /\ q.tx = r.tx /\ q.body = r.body
      BY <2>1, <2>2, <2>3, <2>4, AskedIsRequest DEF Pc, Asked
    <2>6. Relies(a, q)'
      BY <2>1, <2>2, <2>3, <2>5
         DEF Relies, Shape, Guarded, Backed, PinnedBelow, Addressed, Writing, OfTx, Outcomes
    <2>7. Go(a, q) /\ TableStep(a) /\ RowStep(a)
      BY <1>3, <2>4 DEF Onward, TableStep, RowStep
    <2> QED BY <2>5, <2>6, <2>7 DEF Good, GoodStep
  <1> QED BY <1>1, <1>2, <1>3 DEF CreateState

LEMMA CommitEnsuresIsGood ==
  ASSUME Assumptions, StoreInv, NEW a \in Replicas, CommitEnsures(a)
  PROVE  Good(a)
  <1>1. PICK r \in Request : r = request[a] /\ r.pc = "ensure" /\ Relies(a, r)
    BY Carried DEF CommitEnsures, At
  <1>2. r.body \in Documents \cup {Nothing} /\ (r.tx \in Txs => txs[r.tx].status # "unused")
    BY <1>1 DEF Relies, Shape, Writing
  <1> QED BY <1>1, <1>2, EnsuredIsGood DEF CommitEnsures

(* The checks of a write: the row is held from here on. *)
LEMMA LockRowIsGood ==
  ASSUME Assumptions, StoreInv, NEW a \in Replicas, LockRow(a)
  PROVE  Good(a)
  <1>1. PICK r \in Request : r = request[a] /\ r.pc = "write" /\ Relies(a, r)
    BY Carried DEF LockRow, At
  <1>2. PICK doc \in Documents : doc = r.body
    BY <1>1 DEF Relies, Shape, Writing
  <1>3. UNCHANGED tables /\ TableStep(a) /\ RowIsFree(a)
    BY QuietStep DEF LockRow
  <1>4. r.tx # NoTx => r.tx \in Txs /\ txs[r.tx].status # "unused" /\ txs'[r.tx].status # "unused"
    BY <1>1, <1>3 DEF Request, Relies, Shape, tables
  <1>5. ASSUME r.tx # NoTx, Go(a, Doing("fail", r.tx)), RowStep(a)
        PROVE  Good(a)
    <2>1. PICK t \in Txs : t = r.tx
      BY <1>4, <1>5
    <2> QED BY <1>3, <1>4, <1>5, <2>1, DoingIsGood
  <1>6. CASE ~Exists /\ (IF Committing(a) THEN Go(a, Doing("fail", request[a].tx)) /\ UNCHANGED rowLock
                         ELSE Finish(a))
    BY <1>1, <1>3, <1>5, <1>6, FinishIsGood DEF Committing, RowStep
  <1>7. CASE Rejected(a)
    BY <1>1, <1>3, <1>5, <1>7, FinishIsGood DEF Rejected, Committing, RowStep
  <1>8. CASE Exists /\ Unchanged(doc) /\ Accepted(a)
    <2>1. CASE r.tx = NoTx
      BY <1>1, <1>3, <1>8, <2>1, FinishIsGood DEF Accepted, Committing
    <2>2. CASE r.tx # NoTx
      <3>1. PICK t \in Txs : t = r.tx
        BY <1>4, <2>2
      <3>2. Go(a, Landed("finish", t, doc)) /\ RowStep(a)
        BY <1>1, <1>2, <1>3, <1>8, <2>2, <3>1 DEF Accepted, Committing, RowStep
      <3>3. /\ doc.serial = state.serial /\ versions[doc.serial].content = doc.content
            /\ doc.serial \in Serials
        BY <1>8, DocumentFields DEF Unchanged, SameContent, Current
      <3>4. InTable(t) => txs[t].base <= state.serial /\ txs[t].base \in Serials
        BY DEF StoreInv, TablesOK, Transactions, TablesTypeOK, Tx
      <3>5. InTable(t)' => /\ doc.serial >= txs'[t].base
                           /\ versions'[doc.serial].content = doc.content
        BY <1>3, <3>3, <3>4 DEF tables, InTable, Serials
      <3> QED BY <1>3, <1>4, <2>2, <3>1, <3>2, <3>5, LandedIsGood
    <2> QED BY <2>1, <2>2
  <1>9. CASE /\ Exists /\ LockOf(r.id) \in {NoLock, r.lock} /\ ~Conflicts(doc)
             /\ Step(a, "insert") /\ rowLock' = a
    <2>1. /\ r.body \in Documents /\ r.tx \in Txs \cup {NoTx} /\ r.lock \in LockIds \cup {NoLock}
          /\ r.id \in Nat /\ r.id \in 1..created
      BY <1>1, <1>2 DEF Relies, Shape, Request, Addressed
    <2>2. PICK q : q = Asked("insert", r.id, r.tx, r.body, r.lock)
      OBVIOUS
    <2>3. /\ q \in Request
          /\ q.pc = "insert" /\ q.id = r.id /\ q.tx = r.tx /\ q.body = doc /\ q.lock = r.lock
      BY <1>2, <2>1, <2>2, AskedIsRequest DEF Pc, Asked
    <2>4. Shape(q)'
      BY <1>3, <1>4, <2>1, <2>3 DEF Shape, tables, Writing, Addressed, OfTx, Outcomes, Assumptions,
                                     TablesAssumption
    <2>5. Guarded(a, q)'
      BY <1>3, <1>9, <2>3 DEF Guarded, tables, LockOf, Conflicts, SameContent, Current
    <2>6. Relies(a, q)'
      BY <2>3, <2>4, <2>5 DEF Relies, Backed, PinnedBelow
    <2>7. Go(a, q) /\ RowStep(a)
      BY <1>1, <1>3, <1>9, <2>2 DEF Step, Onward, RowStep
    <2> QED BY <1>3, <2>3, <2>6, <2>7 DEF Good, GoodStep
  <1> QED BY <1>1, <1>2, <1>6, <1>7, <1>8, <1>9 DEF LockRow

(* The insert of a write: what was checked still holds. *)
LEMMA InsertVersionIsGood ==
  ASSUME Assumptions, StoreInv, NEW a \in Replicas, InsertVersion(a)
  PROVE  Good(a)
  <1>1. PICK r \in Request : r = request[a] /\ r.pc = "insert" /\ Relies(a, r)
    BY Carried DEF InsertVersion, At
  <1>2. PICK doc \in Documents : doc = r.body
    BY <1>1 DEF Relies, Shape, Writing
  <1>3. CASE Finish(a) /\ UNCHANGED tables
    BY <1>3, QuietStep, FinishIsGood
  <1>4. CASE /\ r.id = state.id /\ ~Stored(doc.serial) /\ StoreVersion(doc)
             /\ Go(a, IF r.tx # NoTx THEN Landed("finish", r.tx, doc) ELSE Idle)
             /\ Unlocked(a)
    <2>1. rowLock = a /\ lock \in {NoLock, r.lock} /\ ~Conflicts(doc)
      BY <1>1, <1>2, <1>4 DEF Relies, Guarded
    <2>2. Exists
      BY <1>1, <1>4 DEF Relies, Shape, Addressed, Exists
    <2>3. TableStep(a) /\ RowStep(a)
      BY <1>1, <1>4, <2>1, <2>2 DEF TableStep, Stores, At, Unlocked, RowStep
    <2>4. CASE r.tx = NoTx
      BY <1>4, <2>3, <2>4, FinishIsGood DEF Finish
    <2>5. CASE r.tx # NoTx
      <3>1. PICK t \in Txs : t = r.tx
        BY <2>5 DEF Request
      <3>2. txs' = txs /\ versions' = [versions EXCEPT ![doc.serial] =
                                         [lineage |-> doc.lineage, content |-> doc.content]]
        BY <1>4 DEF StoreVersion
      <3>3. doc.serial \in Serials /\ state.serial \in Serials
        BY DocumentFields DEF StoreInv, TablesOK, TablesTypeOK, State
      <3>4. state.serial <= doc.serial
        BY <2>1, <3>3 DEF Conflicts, Serials
      <3>5. InTable(t) => txs[t].base <= state.serial /\ txs[t].base \in Serials
        BY DEF StoreInv, TablesOK, Transactions, TablesTypeOK, Tx
      <3>6. InTable(t)' => doc.serial >= txs'[t].base
        BY <3>2, <3>3, <3>4, <3>5 DEF InTable, Serials
      <3>7. versions'[doc.serial].content = doc.content
        BY <3>2, <3>3 DEF StoreInv, TablesOK, TablesTypeOK
      <3>8. txs'[t].status # "unused"
        BY <1>1, <3>1, <3>2 DEF Relies, Shape
      <3>9. Go(a, Landed("finish", t, doc))
        BY <1>4, <2>5, <3>1
      <3> QED BY <2>3, <3>6, <3>7, <3>8, <3>9, LandedIsGood
    <2> QED BY <2>4, <2>5
  <1> QED BY <1>1, <1>2, <1>3, <1>4 DEF InsertVersion, SameState, Committing

(* Locks and deletion. *)
LEMMA LocksAreGood ==
  ASSUME Assumptions, StoreInv, NEW a \in Replicas,
         AcquireCheck(a) \/ AcquireInsert(a) \/ Unlock(a) \/ DeleteState(a)
  PROVE  Good(a)
  <1>1. CASE AcquireCheck(a)
    <2>1. PICK r \in Request : r = request[a] /\ r.pc = "lock" /\ Relies(a, r)
      BY <1>1, Carried DEF AcquireCheck, At
    <2>2. UNCHANGED tables /\ TableStep(a)
      BY <1>1, QuietStep DEF AcquireCheck
    <2>3. CASE Finish(a)
      BY <2>2, <2>3, FinishIsGood
    <2>4. CASE Step(a, "lock_insert") /\ UNCHANGED rowLock
      <3>1. /\ r.body \in Documents \cup {Unparsable, Nothing} /\ r.tx \in Txs \cup {NoTx}
            /\ r.lock \in LockIds \cup {NoLock} /\ r.id \in Nat /\ r.id \in 1..created
            /\ (r.tx \in Txs => txs[r.tx].status # "unused")
        BY <2>1 DEF Relies, Shape, Request, Addressed
      <3>2. PICK q : q = Asked("lock_insert", r.id, r.tx, r.body, r.lock)
        OBVIOUS
      <3>3. q \in Request /\ q.pc = "lock_insert" /\ q.id = r.id /\ q.tx = r.tx
        BY <3>1, <3>2, AskedIsRequest DEF Pc, Asked
      <3>4. Relies(a, q)'
        BY <2>2, <3>1, <3>3 DEF tables, Relies, Shape, Guarded, Backed, PinnedBelow, Addressed,
             Writing, OfTx, Outcomes
      <3> QED BY <2>1, <2>2, <2>4, <3>2, <3>3, <3>4 DEF Step, Onward, RowStep, Good, GoodStep
    <2> QED BY <1>1, <2>3, <2>4 DEF AcquireCheck
  <1>2. CASE AcquireInsert(a)
    <2>1. PICK r \in Request : r = request[a] /\ r.pc = "lock_insert" /\ Relies(a, r)
      BY <1>2, Carried DEF AcquireInsert, At
    <2>2. r.lock \in LockIds \cup {NoLock} /\ r.id # 0
      BY <2>1 DEF Relies, Shape, Request, Addressed
    <2>3. TableStep(a)
      BY <1>2, <2>1, <2>2 DEF AcquireInsert, SameState, Exists, TableStep, Locks
    <2> QED BY <1>2, <2>3, FinishIsGood DEF AcquireInsert
  <1>3. CASE Unlock(a)
    <2>1. PICK r \in Request : r = request[a] /\ r.pc = "unlock" /\ Relies(a, r)
      BY <1>3, Carried DEF Unlock, At
    <2>2. r.id # 0
      BY <2>1 DEF Relies, Shape, Addressed
    <2>3. TableStep(a)
      BY <1>3, <2>1, <2>2 DEF Unlock, SameState, Exists, TableStep, Locks
    <2> QED BY <1>3, <2>3, FinishIsGood DEF Unlock
  <1>4. CASE DeleteState(a)
    <2>1. PICK r \in Request : r = request[a] /\ r.pc = "delete" /\ Relies(a, r)
      BY <1>4, Carried DEF DeleteState, At
    <2>2. r.id # 0 /\ r.id < MaxStates
      BY <2>1 DEF Relies, Shape, Addressed
    <2>3. state.id \in {0, created}
      BY DEF StoreInv, TablesOK, Ids
    <2>4. TableStep(a)
      BY <1>4, <2>1, <2>2, <2>3 DEF DeleteState, SameState, Exists, TableStep, Deletes
    <2> QED BY <1>4, <2>4, FinishIsGood DEF DeleteState
  <1> QED BY <1>1, <1>2, <1>3, <1>4

(* Opening a transaction. *)
LEMMA OpeningIsGood ==
  ASSUME Assumptions, StoreInv, NEW a \in Replicas, PinBase(a) \/ OpenInsert(a)
  PROVE  Good(a)
  <1>0. state.serial \in Serials
    BY DEF StoreInv, TablesOK, TablesTypeOK, State
  <1>1. CASE PinBase(a)
    <2>1. PICK r \in Request : r = request[a] /\ r.pc = "open" /\ Relies(a, r)
      BY <1>1, Carried DEF PinBase, At
    <2>2. r.id \in Nat /\ r.id \in 1..created
      BY <2>1 DEF Relies, Shape, Request, Addressed
    <2>3. PICK q : q = Pinned(r.id, state.serial)
      OBVIOUS
    <2>4. /\ q \in Request
          /\ q.pc = "open_insert" /\ q.id = r.id /\ q.tx = NoTx /\ q.base = state.serial
      BY <1>0, <2>2, <2>3, PinnedIsRequest DEF Pinned
    <2>5. state' = state /\ created' = created /\ TableStep(a) /\ RowStep(a)
      BY <1>1, QuietStep DEF PinBase, tables, RowStep
    <2>6. Relies(a, q)'
      BY <1>0, <2>2, <2>4, <2>5 DEF Relies, Shape, Guarded, Backed, PinnedBelow, Addressed,
           Writing, OfTx, Outcomes, Serials, Assumptions, TablesAssumption
    <2> QED BY <1>1, <2>1, <2>3, <2>4, <2>5, <2>6 DEF PinBase, Good, GoodStep
  <1>2. CASE OpenInsert(a)
    <2>1. PICK r \in Request : r = request[a] /\ r.pc = "open_insert" /\ Relies(a, r)
      BY <1>2, Carried DEF OpenInsert, At
    <2>2. r.id # 0 /\ r.base \in Serials /\ (r.id = state.id => r.base <= state.serial)
      BY <2>1 DEF Relies, Shape, PinnedBelow, Request, Addressed
    <2>3. PICK x : x = OpenTx("open", r.base)
      OBVIOUS
    <2>4. x \in Tx /\ x.status = "open" /\ x.base = r.base
      BY <2>2, <2>3 DEF OpenTx, Tx, TxStatus, Report, Unreported, GateResult, Serials,
                        Assumptions, TablesAssumption
    <2>5. CASE UNCHANGED tables
      BY <1>2, <2>5, QuietStep, FinishIsGood DEF OpenInsert
    <2>6. ASSUME r.id = state.id, NEW t \in Txs, txs[t].status = "unused", SetTx(t, x)
          PROVE  TableStep(a)
      <3>1. Records(t, x)
        BY <2>2, <2>4, <2>6 DEF Records, Exists, Committed, TxStatus
      <3> QED BY <2>4, <3>1 DEF TableStep
    <2> QED BY <1>2, <2>1, <2>3, <2>5, <2>6, FinishIsGood DEF OpenInsert, SameState
  <1> QED BY <1>1, <1>2

(* A transaction in the table has its state, and a base the state is past. *)
LEMMA TxInTable ==
  ASSUME StoreInv, NEW t \in Txs, InTable(t)
  PROVE  Exists /\ txs[t] \in Tx /\ txs[t].status \in TxStatus /\ txs[t].base <= state.serial
         /\ Committed(txs[t])
  BY DEF StoreInv, TablesOK, TablesTypeOK, Linear, Transactions, InTable

(* What a preview records. *)
LEMMA PreviewIsGood ==
  ASSUME Assumptions, StoreInv, NEW a \in Replicas,
         RecordResources(a) \/ CheckGates(a) \/ RecordGates(a)
  PROVE  Good(a)
  <1>1. PICK r \in Request : /\ r = request[a] /\ Relies(a, r)
                             /\ r.pc \in {"resources", "check_gates", "gates"}
    BY Carried DEF RecordResources, CheckGates, RecordGates, At
  <1>2. PICK t \in Txs : t = r.tx
    BY <1>1 DEF Relies, Shape, OfTx
  <1>3. txs[t].status # "unused" /\ r.plan \in Plan
    BY <1>1, <1>2 DEF Relies, Shape, Request
  <1>4. CASE Finish(a) /\ UNCHANGED tables
    BY <1>4, QuietStep, FinishIsGood
  <1>5. ASSUME NEW x \in Tx, InTable(t), SetTx(t, x), x.status = txs[t].status,
               x.base = txs[t].base, x.serial = txs[t].serial, x.sent = txs[t].sent
        PROVE  TableStep(a) /\ txs'[t].status # "unused"
    <2>1. Records(t, x)
      BY <1>5, TxInTable DEF Records, Committed
    <2>2. txs' = [txs EXCEPT ![t] = x]
      BY <1>5 DEF SetTx
    <2>3. txs'[t] = x
      BY <2>2 DEF StoreInv, TablesOK, TablesTypeOK
    <2> QED BY <1>3, <1>5, <2>1, <2>3 DEF TableStep
  <1>6. CASE /\ InTable(t) /\ SetTx(t, [txs[t] EXCEPT !.writes = r.plan.writes])
             /\ Go(a, Recording("check_gates", t, [writes |-> {}, report |-> r.plan.report]))
             /\ UNCHANGED rowLock
    <2>1. PICK x : x = [txs[t] EXCEPT !.writes = r.plan.writes]
      OBVIOUS
    <2>2. /\ x \in Tx /\ x.status = txs[t].status
          /\ x.base = txs[t].base /\ x.serial = txs[t].serial /\ x.sent = txs[t].sent
      BY <1>3, <1>6, <2>1, TxInTable DEF Tx, Plan
    <2>3. PICK plan \in Plan : plan = [writes |-> {}, report |-> r.plan.report]
      BY <1>3 DEF Plan
    <2> QED BY <1>5, <1>6, <2>1, <2>2, <2>3, RecordingIsGood DEF RowStep
  <1>7. CASE UNCHANGED <<tables, rowLock>> /\ Go(a, Recording("gates", t, r.plan))
    <2>1. TableStep(a) /\ RowStep(a) /\ txs' = txs
      BY <1>7, QuietStep DEF RowStep, tables
    <2> QED BY <1>3, <1>7, <2>1, RecordingIsGood
  <1>8. CASE /\ InTable(t) /\ SetTx(t, [txs[t] EXCEPT !.report = r.plan.report])
             /\ Go(a, Doing("preview", t)) /\ UNCHANGED rowLock
    <2>1. PICK x : x = [txs[t] EXCEPT !.report = r.plan.report]
      OBVIOUS
    <2>2. /\ x \in Tx /\ x.status = txs[t].status
          /\ x.base = txs[t].base /\ x.serial = txs[t].serial /\ x.sent = txs[t].sent
      BY <1>3, <1>8, <2>1, TxInTable DEF Tx, Plan
    <2> QED BY <1>5, <1>8, <2>1, <2>2, DoingIsGood DEF RowStep
  <1> QED BY <1>1, <1>2, <1>4, <1>6, <1>7, <1>8 DEF RecordResources, CheckGates, RecordGates

(* Reading the status of a transaction on the way to another. *)
LEMMA TransitionsAreGood ==
  ASSUME Assumptions, StoreInv, NEW a \in Replicas,
         PreviewTransition(a) \/ FailTransaction(a) \/ FinishCommit(a)
  PROVE  Good(a)
  <1>1. PICK r \in Request : /\ r = request[a] /\ Relies(a, r)
                             /\ r.pc \in {"preview", "fail", "finish"}
    BY Carried DEF PreviewTransition, FailTransaction, FinishCommit, At
  <1>2. PICK t \in Txs : t = r.tx
    BY <1>1 DEF Relies, Shape, OfTx
  <1>3. UNCHANGED tables /\ TableStep(a)
    BY QuietStep DEF PreviewTransition, FailTransaction, FinishCommit
  <1>4. txs'[t].status # "unused"
    BY <1>1, <1>2, <1>3 DEF Relies, Shape, tables
  <1>5. CASE Finish(a)
    BY <1>3, <1>5, FinishIsGood
  <1>6. ASSUME NEW pc \in {"previewing", "failed"}, Go(a, Doing(pc, t)), UNCHANGED rowLock
        PROVE  Good(a)
    BY <1>3, <1>4, <1>6, DoingIsGood DEF RowStep, Outcomes
  <1>7. CASE /\ r.pc = "finish" /\ Go(a, Landed("committed", t, r.body)) /\ UNCHANGED rowLock
    <2>1. PICK doc \in Documents : doc = r.body
      BY <1>1, <1>7 DEF Relies, Shape, Writing
    <2>2. InTable(t)' => /\ doc.serial >= txs'[t].base
                         /\ versions'[doc.serial].content = doc.content
      BY <1>1, <1>2, <1>3, <1>7, <2>1 DEF Relies, Backed, tables, InTable
    <2>3. RowStep(a) /\ Go(a, Landed("committed", t, doc))
      BY <1>7, <2>1 DEF RowStep
    <2> QED BY <1>3, <1>4, <2>2, <2>3, LandedIsGood
  <1>8. CASE PreviewTransition(a) \/ FailTransaction(a)
    BY <1>1, <1>2, <1>5, <1>6, <1>8 DEF PreviewTransition, FailTransaction, Transition
  <1>9. CASE FinishCommit(a)
    BY <1>1, <1>2, <1>5, <1>6, <1>7, <1>9 DEF FinishCommit, At
  <1> QED BY <1>8, <1>9

(* Writing the status: a committed one stands for a document that is stored. *)
LEMMA SettleIsGood ==
  ASSUME Assumptions, StoreInv, NEW a \in Replicas, Settle(a)
  PROVE  Good(a)
  <1>1. PICK r \in Request : r = request[a] /\ Relies(a, r) /\ r.pc \in Outcomes
    BY Carried DEF Settle
  <1>2. PICK t \in Txs : t = r.tx
    BY <1>1 DEF Relies, Shape, OfTx
  <1>3. CASE ~InTable(t)
    BY <1>1, <1>2, <1>3, QuietStep, FinishIsGood DEF Settle
  <1>4. CASE InTable(t)
    <2>1. /\ Exists /\ txs[t] \in Tx /\ txs[t].base <= state.serial /\ Committed(txs[t])
      BY <1>4, TxInTable
    <2>2. ASSUME NEW x \in Tx, SetTx(t, x), x.status \in Outcomes, x.base = txs[t].base,
                 Committed(x)
          PROVE  TableStep(a)
      <3>1. Records(t, x)
        BY <1>4, <2>1, <2>2 DEF Records, Outcomes, TxStatus
      <3> QED BY <3>1 DEF TableStep
    <2>3. CASE r.pc = "committed"
      <3>1. PICK doc \in Documents : doc = r.body
        BY <1>1, <2>3 DEF Relies, Shape, Writing
      <3>2. PICK x : x = CommittedTx(txs[t], doc)
        OBVIOUS
      <3>3. /\ x \in Tx /\ x.status = "committed" /\ x.base = txs[t].base
            /\ x.serial = doc.serial /\ x.sent = doc.content
        BY <2>1, <3>2, DocumentFields DEF CommittedTx, Tx, TxStatus
      <3>4. Committed(x)
        BY <1>1, <1>2, <1>4, <2>3, <3>1, <3>3, DocumentFields DEF Committed, Relies, Backed
      <3>5. SetTx(t, x) /\ Finish(a)
        BY <1>1, <1>2, <1>4, <2>3, <3>1, <3>2 DEF Settle
      <3> QED BY <2>2, <3>3, <3>4, <3>5, FinishIsGood DEF Outcomes
    <2>4. CASE r.pc # "committed"
      <3>1. PICK x : x = [txs[t] EXCEPT !.status = r.pc]
        OBVIOUS
      <3>2. x \in Tx /\ x.status = r.pc /\ x.base = txs[t].base
        BY <1>1, <2>1, <3>1 DEF Tx, Outcomes, TxStatus
      <3>3. Committed(x)
        BY <2>4, <3>2 DEF Committed
      <3>4. SetTx(t, x) /\ Finish(a)
        BY <1>1, <1>2, <1>4, <2>4, <3>1 DEF Settle
      <3> QED BY <1>1, <2>2, <3>2, <3>3, <3>4, FinishIsGood
    <2> QED BY <2>3, <2>4
  <1> QED BY <1>3, <1>4
-----------------------------------------------------------------------------
(* Every step of a replica is a good one. *)
LEMMA StepIsGood ==
  ASSUME Assumptions, StoreInv, NEW a \in Replicas, Ask(a) \/ Serve(a) \/ Die(a)
  PROVE  Good(a)
  <1>1. CASE Ask(a)
    BY <1>1, AskIsGood
  <1>2. CASE Serve(a)
    BY <1>2, CreateStateIsGood, CommitEnsuresIsGood, LockRowIsGood, InsertVersionIsGood,
       LocksAreGood, OpeningIsGood, PreviewIsGood, TransitionsAreGood, SettleIsGood DEF Serve
  <1>3. CASE Die(a)
    BY <1>3, QuietStep, FinishIsGood DEF Die
  <1> QED BY <1>1, <1>2, <1>3

LEMMA InitInv ==
  ASSUME Assumptions, Init
  PROVE  StoreInv
  <1>1. TablesOK
    <2>1. 0 \in Serials /\ OpenTx("unused", 0) \in Tx /\ OpenTx("unused", 0).status = "unused"
      BY DEF OpenTx, Tx, Report, Unreported, GateResult, Serials, Assumptions, TablesAssumption
    <2>2. /\ state = [id |-> 0, serial |-> 0, lineage |-> NoLineage]
          /\ created = 0 /\ lock = NoLock
          /\ \A s \in Serials : versions[s] = NoVersion
          /\ \A t \in Txs : txs[t] = OpenTx("unused", 0)
      BY DEF Init, InitTables, NoState
    <2>3. TablesTypeOK
      BY <2>1, <2>2 DEF Init, InitTables, TablesTypeOK, State, Assumptions, TablesAssumption
    <2>4. Ids
      BY <2>2 DEF Ids, Assumptions, TablesAssumption
    <2>5. Linear
      BY <2>1, <2>2 DEF Linear, Exists, Stored, InTable, TxStatus, NoState
    <2>6. Transactions
      BY <2>1, <2>2 DEF Transactions, InTable, Committed, TxStatus
    <2> QED BY <2>3, <2>4, <2>5, <2>6 DEF TablesOK
  <1>2. Idle \in Request
    BY AskedIsRequest DEF Idle, Pc
  <1>3. ASSUME NEW a \in Replicas
        PROVE  Relies(a, Idle)
    BY <1>2 DEF Idle, Asked, Relies, Shape, Guarded, Backed, PinnedBelow, Addressed, Writing, OfTx,
                Outcomes, Assumptions, TablesAssumption
  <1> QED BY <1>1, <1>2, <1>3 DEF Init, StoreInv

LEMMA StutterKeeps ==
  ASSUME StoreInv, UNCHANGED vars
  PROVE  StoreInv'
  BY DEF vars, tables, StoreInv, TablesOK, TablesTypeOK, Ids, Linear, Transactions, Committed,
         Relies, Shape, Guarded, Backed, PinnedBelow, Exists, Stored, InTable, Conflicts,
         SameContent, Current

LEMMA NextKeeps ==
  ASSUME Assumptions, StoreInv, [Next]_vars
  PROVE  StoreInv'
  BY StepIsGood, GoodStepKeeps, StutterKeeps DEF Next, Good

(* The invariant all of it rests on: the tables are in order and every      *)
(* request in progress can rely on what it has checked or stored.           *)
THEOREM StoreInvariant == Spec => []StoreInv
  <1>1. Assumptions
    BY TablesAssumption, StoreAssumption DEF Assumptions
  <1>2. Init => StoreInv
    BY <1>1, InitInv
  <1>3. StoreInv /\ [Next]_vars => StoreInv'
    BY <1>1, NextKeeps
  <1> QED BY <1>2, <1>3, PTL DEF Spec
-----------------------------------------------------------------------------
(* Every variable keeps the shape the schema gives it: ids only count up to *)
(* the bound because a name belongs to one state at a time, and the rows    *)
(* every statement writes are rows the tables can hold.                     *)
THEOREM StoreTypeCorrect == Spec => []TypeOK
  <1>1. StoreInv => TypeOK
    <2> SUFFICES ASSUME StoreInv PROVE TypeOK
      OBVIOUS
    <2> QED BY DEF StoreInv, TablesOK, TypeOK
  <1> QED BY <1>1, StoreInvariant, PTL

(* A committed transaction points at a version that is still stored and     *)
(* holds what its client sent, at or after its base, whatever else was      *)
(* written, deleted or retried meanwhile.                                   *)
THEOREM CommitsBacked == Spec => []CommitsAreStored
  <1>1. StoreInv => CommitsAreStored
    BY DEF StoreInv, TablesOK, Transactions, Committed, CommitsAreStored
  <1> QED BY <1>1, StoreInvariant, PTL

(* A version is stored only by a request that carries the lock id the state *)
(* is locked with at that moment, or while it is not locked.                *)
THEOREM WritesRespectLocks == Spec => LockRespected
  <1>1. Assumptions
    BY TablesAssumption, StoreAssumption DEF Assumptions
  <1> DEFINE Appears(s) == ~Stored(s) /\ Stored(s)'
             ByHolder   == \E a \in Replicas : At(a, "insert") /\ lock \in {NoLock, request[a].lock}
  <1>2. ASSUME StoreInv, [Next]_vars, NEW s \in Serials, Appears(s)
        PROVE  ByHolder
    <2>1. versions' # versions
      BY <1>2 DEF Stored
    <2>2. PICK a \in Replicas : TableStep(a)
      BY <1>1, <1>2, <2>1, StepIsGood DEF Next, vars, tables, Good, GoodStep
    <2>3. Stores(a)
      <3>1. ~Deletes(a)
        BY <1>2 DEF Deletes, DeleteStateRow, Stored
      <3> QED BY <2>1, <2>2, <3>1 DEF TableStep, tables, InsertState, Locks, SetLock, Records, SetTx
    <2> QED BY <2>3 DEF Stores
  <1>3. StoreInv /\ [Next]_vars => [\A s \in Serials : Appears(s) => ByHolder]_vars
    BY <1>2
  <1> QED BY <1>3, StoreInvariant, PTL DEF Spec, LockRespected

(* The versions of a state implement StateHistory: they are appended in     *)
(* order and in one lineage, never changed, and lost only with their state. *)
THEOREM StoreIsHistory == Spec => ImplementsHistory
  <1>1. Assumptions
    BY TablesAssumption, StoreAssumption DEF Assumptions
  <1> DEFINE exists  == Exists
             content == [s \in Serials |-> versions[s].content]
             lineage == [s \in Serials |-> versions[s].lineage]
             head    == state.serial
  <1>2. Init => History!Init
    BY DEF Init, InitTables, Exists, NoState, NoVersion, History!Init, History!Empty,
           History!Serials, Serials
  <1>3. ASSUME StoreInv, [Next]_vars
        PROVE  [History!Next]_<<exists, content, lineage, head>>
    <2>1. CASE UNCHANGED vars
      BY <2>1 DEF vars, tables, Exists
    <2>2. CASE Next
      <3>1. PICK a \in Replicas : TableStep(a)
        BY <1>1, <1>3, <2>2, StepIsGood DEF Next, Good, GoodStep
      <3>2. CASE UNCHANGED tables
        BY <3>2 DEF tables, Exists
      <3>3. CASE ~Exists /\ InsertState
        <4>1. state.serial = 0 /\ created \in Nat
          BY <1>3, <3>3 DEF StoreInv, TablesOK, TablesTypeOK, Linear, NoState
        <4>2. ~exists /\ exists' = TRUE /\ UNCHANGED <<content, lineage, head>>
          BY <3>3, <4>1 DEF InsertState, Exists
        <4> QED BY <4>2 DEF History!Next, History!Create
      <3>4. CASE Stores(a)
        <4>1. PICK doc \in Documents : /\ Exists /\ ~Stored(doc.serial) /\ ~Conflicts(doc)
                                       /\ StoreVersion(doc)
          BY <3>4 DEF Stores
        <4>2. /\ doc.serial \in Serials /\ doc.lineage \in Lineages /\ doc.content \in Contents
          BY <1>1, DocumentFields
        <4>3. /\ versions' = [versions EXCEPT ![doc.serial] =
                                [lineage |-> doc.lineage, content |-> doc.content]]
              /\ state'.id = state.id /\ state'.serial = doc.serial
          BY <4>1 DEF StoreVersion
        <4>4. versions \in [Serials -> Version \cup {NoVersion}]
          BY <1>3 DEF StoreInv, TablesOK, TablesTypeOK
        <4>5. /\ content' = [content EXCEPT ![doc.serial] = doc.content]
              /\ lineage' = [lineage EXCEPT ![doc.serial] = doc.lineage]
              /\ head' = doc.serial /\ exists' = exists /\ exists
          BY <4>1, <4>2, <4>3, <4>4 DEF Exists
        <4>6. ASSUME NEW k \in Serials, content[k] # NoLineage
              PROVE  k < doc.serial /\ lineage[k] = doc.lineage
          <5>1. Stored(k)
            BY <1>1, <1>3, <4>6, StoredIsVersion DEF StoreInv, TablesOK
          <5>2. k <= state.serial /\ versions[k].lineage = state.lineage /\ k # doc.serial
            BY <1>3, <4>1, <5>1 DEF StoreInv, TablesOK, Linear
          <5>3. versions[k].lineage # NoLineage
            BY <1>1, <4>4, <5>1 DEF Stored, Version, Assumptions, TablesAssumption
          <5>4. state.serial <= doc.serial /\ state.lineage = doc.lineage
            BY <1>3, <4>1, <4>2, <5>2, <5>3 DEF Conflicts, StoreInv, TablesOK, TablesTypeOK, State,
               Serials
          <5> QED BY <1>3, <4>2, <5>2, <5>4 DEF StoreInv, TablesOK, TablesTypeOK, State, Serials
        <4>7. History!Append(doc.serial, doc.content, doc.lineage)
          BY <4>5, <4>6 DEF History!Append, History!Serials, Serials
        <4> QED BY <4>2, <4>7 DEF History!Next, History!Serials, Serials
      <3>5. CASE Locks(a)
        BY <3>5 DEF Locks, SetLock, Exists
      <3>6. CASE Deletes(a)
        <4>1. exists /\ exists' = FALSE /\ head' = 0
          BY <3>6 DEF Deletes, DeleteStateRow, NoState, Exists
        <4>2. content' = [s \in Serials |-> NoLineage] /\ lineage' = [s \in Serials |-> NoLineage]
          BY <3>6 DEF Deletes, DeleteStateRow, NoVersion
        <4> QED BY <4>1, <4>2 DEF History!Next, History!Delete, History!Empty, History!Serials,
                                  Serials
      <3>7. CASE \E t \in Txs, x \in Tx : Records(t, x)
        BY <3>7 DEF Records, SetTx, Exists
      <3> QED BY <3>1, <3>2, <3>3, <3>4, <3>5, <3>6, <3>7 DEF TableStep
    <2> QED BY <1>3, <2>1, <2>2
  <1>4. StoreInv /\ [Next]_vars => [History!Next]_<<exists, content, lineage, head>>
    BY <1>3
  <1> QED BY <1>2, <1>4, StoreInvariant, PTL DEF Spec, ImplementsHistory, History!Spec,
             History!history
-----------------------------------------------------------------------------
(* Two transactions numbered one past their bases that both committed over  *)
(* each other share a serial, so they share the document stored there.      *)
THEOREM SuccessorsShareDocuments == Spec => []SuccessorsSerialize
  <1>1. Assumptions
    BY TablesAssumption, StoreAssumption DEF Assumptions
  <1>2. ASSUME StoreInv PROVE SuccessorsSerialize
    <2> SUFFICES ASSUME NEW t \in Txs, NEW u \in Txs, Overtook(u, t),
                        txs[t].serial = txs[t].base + 1
                 PROVE  txs[u].sent = txs[t].sent
      BY DEF SuccessorsSerialize
    <2>1. /\ txs[t].base \in Nat /\ txs[u].serial \in Nat
          /\ txs[t].base < txs[u].serial /\ txs[u].serial <= txs[t].base + 1
      BY <1>1, <1>2 DEF StoreInv, TablesOK, TablesTypeOK, Tx, Serials, Overtook
    <2>2. txs[u].serial = txs[t].serial
      BY <2>1
    <2> QED BY <1>2, <2>2 DEF StoreInv, TablesOK, Transactions, Committed, Overtook
  <1> QED BY <1>2, StoreInvariant, PTL
-----------------------------------------------------------------------------
(* Gates.  A commit finds every required gate passed and writes its status  *)
(* a step later; with one request per transaction nobody replaces the       *)
(* report in between, nor afterwards.                                       *)

Passed(tx) == \A g \in Required : tx.report[g] = "passed"

(* Steps at which a request has found its transaction not committed. *)
Deciding == {"resources", "check_gates", "gates", "preview"} \cup Outcomes

Judged(r) ==
  r.tx \in Txs /\ r.pc \in Deciding =>
    /\ txs[r.tx].status # "committed"
    /\ r.pc = "committed" /\ InTable(r.tx) => Passed(txs[r.tx])

OneEach ==
  \A a, b \in Replicas : request[a].tx \in Txs /\ request[a].tx = request[b].tx => a = b

GatesInv ==
  /\ OneEach
  /\ \A t \in Txs : txs[t].status = "committed" => Passed(txs[t])
  /\ \A a \in Replicas : Judged(request[a])

(* A step of a writes its own transaction only, opens one or deletes all... *)
TouchesOwn(a) ==
  \A t \in Txs : \/ txs'[t] = txs[t]
                 \/ t = request[a].tx
                 \/ txs[t].status = "unused" /\ txs'[t].status = "open"
                 \/ txs'[t].status = "deleted"

(* ...and goes on with it, or takes one that no request works on. *)
Alone(a, r) == r.tx \in {request[a].tx, NoTx} \/ \A b \in Replicas : request[b].tx # r.tx

JudgedStep(a, r) ==
  /\ Go(a, r) /\ Alone(a, r) /\ TouchesOwn(a)
  /\ Judged(r)'
  /\ \A t \in Txs : t = request[a].tx /\ txs'[t].status = "committed" => Passed(txs'[t])

LEMMA JudgedStepKeeps ==
  ASSUME Assumptions, StoreInv, GatesInv, NEW a \in Replicas, NEW r, JudgedStep(a, r)
  PROVE  GatesInv'
  <1>1. /\ \A b \in Replicas \ {a} : request'[b] = request[b]
        /\ request'[a] = r
    BY DEF JudgedStep, Go, StoreInv
  <1>2. OneEach'
    <2>1. \A b \in Replicas \ {a} : r.tx \in Txs => request[b].tx # r.tx
      BY DEF JudgedStep, Alone, GatesInv, OneEach, Assumptions, TablesAssumption
    <2> QED BY <1>1, <2>1 DEF GatesInv, OneEach
  <1>3. ASSUME NEW t \in Txs, txs'[t].status = "committed" PROVE Passed(txs'[t])
    BY <1>3 DEF JudgedStep, TouchesOwn, GatesInv
  <1>4. ASSUME NEW b \in Replicas, b # a PROVE Judged(request[b])'
    <2>1. PICK q : q = request[b]
      OBVIOUS
    <2> SUFFICES ASSUME q.tx \in Txs, q.pc \in Deciding
                 PROVE  /\ txs'[q.tx].status # "committed"
                        /\ q.pc = "committed" /\ InTable(q.tx)' => Passed(txs'[q.tx])
      BY <1>1, <1>4, <2>1 DEF Judged, InTable
    <2>2. txs[q.tx].status # "unused" /\ q.tx # request[a].tx
      BY <1>4, <2>1 DEF StoreInv, Relies, Shape, GatesInv, OneEach
    <2>3. txs'[q.tx] = txs[q.tx] \/ txs'[q.tx].status = "deleted"
      BY <2>2 DEF JudgedStep, TouchesOwn
    <2>4. Judged(q)
      BY <2>1 DEF GatesInv
    <2> QED BY <2>3, <2>4 DEF Judged, InTable, TxStatus
  <1>5. ASSUME NEW b \in Replicas PROVE Judged(request[b])'
    BY <1>1, <1>4, <1>5 DEF JudgedStep, Judged, InTable
  <1> QED BY <1>2, <1>3, <1>5 DEF GatesInv

(* A step that leaves transactions alone and decides nothing.               *)
LEMMA UndecidedKeeps ==
  ASSUME Assumptions, StoreInv, GatesInv, NEW a \in Replicas, NEW r, Go(a, r), Alone(a, r),
         UNCHANGED txs, r.pc \notin Deciding
  PROVE  GatesInv'
  <1>1. Judged(r)' /\ TouchesOwn(a)
    BY DEF Judged, TouchesOwn
  <1>2. \A t \in Txs : txs'[t].status = "committed" => Passed(txs'[t])
    BY DEF GatesInv
  <1> QED BY <1>1, <1>2, JudgedStepKeeps DEF JudgedStep

LEMMA FinishKeeps ==
  ASSUME Assumptions, StoreInv, GatesInv, NEW a \in Replicas, Finish(a), TouchesOwn(a),
         \A t \in Txs : t = request[a].tx /\ txs'[t].status = "committed" => Passed(txs'[t])
  PROVE  GatesInv'
  <1>1. Judged(Idle)' /\ Alone(a, Idle)
    BY DEF Judged, Alone, Idle, Asked, Deciding, Outcomes
  <1> QED BY <1>1, JudgedStepKeeps DEF JudgedStep, Finish

LEMMA FinishQuietly ==
  ASSUME Assumptions, StoreInv, GatesInv, NEW a \in Replicas, Finish(a), UNCHANGED txs
  PROVE  GatesInv'
  <1>1. Idle.pc \notin Deciding /\ Alone(a, Idle)
    BY DEF Alone, Idle, Asked, Deciding, Outcomes
  <1> QED BY <1>1, UndecidedKeeps DEF Finish

(* Requests that begin, for no transaction or for one nobody else asks about.*)
LEMMA AskKeepsGates ==
  ASSUME Assumptions, OneRequestPerTx, StoreInv, GatesInv, NEW a \in Replicas, Ask(a)
  PROVE  GatesInv'
  <1> USE DEF Asked, Onward, Deciding, Outcomes
  <1>1. ASSUME NEW r, r.tx = NoTx, Ensured(a, r), UNCHANGED tables PROVE GatesInv'
    <2>1. PICK q : Go(a, q) /\ q.pc \in {"create", "write", "lock", "open"} /\ q.tx = NoTx
      BY <1>1 DEF Ensured, After
    <2> QED BY <1>1, <2>1, UndecidedKeeps DEF Alone, tables
  <1>2. ASSUME NEW doc \in Documents, NEW l, Write(a, doc, l) PROVE GatesInv'
    BY <1>1, <1>2 DEF Write
  <1>3. ASSUME NEW l, Acquire(a, l) PROVE GatesInv'
    BY <1>1, <1>3 DEF Acquire
  <1>4. CASE Open(a)
    BY <1>1, <1>4 DEF Open, Idle
  <1>5. ASSUME NEW l, Release(a, l) \/ Delete(a) PROVE GatesInv'
    <2>1. PICK q : Go(a, q) /\ q.pc \in {"unlock", "delete"} /\ q.tx = NoTx
      BY <1>5 DEF Release, Delete
    <2> QED BY <1>5, <2>1, UndecidedKeeps DEF Alone, Release, Delete, tables
  <1>6. ASSUME NEW t \in Txs, NEW doc, NEW l, Commit(a, t, doc, l) PROVE GatesInv'
    <2>1. PICK q : Go(a, q) /\ q.pc \in {"ensure", "fail"} /\ q.tx = t
      BY <1>6 DEF Commit, Doing
    <2> QED BY <1>6, <2>1, UndecidedKeeps DEF Alone, MayAsk, Commit, tables
  <1>7. ASSUME NEW t \in Txs, NEW w, NEW g, Preview(a, t, w, g) PROVE GatesInv'
    <2>1. PICK q : Go(a, q) /\ q.pc = "resources" /\ q.tx = t
      BY <1>7 DEF Preview, Recording
    <2>2. txs' = txs /\ txs[t].status # "committed" /\ \A b \in Replicas : request[b].tx # t
      BY <1>7 DEF Preview, MayAsk, Final, tables
    <2>3. JudgedStep(a, q)
      BY <2>1, <2>2 DEF JudgedStep, Alone, TouchesOwn, Judged, GatesInv
    <2> QED BY <2>3, JudgedStepKeeps
  <1>8. ASSUME NEW t \in Txs, Abort(a, t) PROVE GatesInv'
    <2>1. txs' = txs /\ \A b \in Replicas : request[b].tx # t
      BY <1>8 DEF Abort, MayAsk, tables
    <2>2. CASE Finish(a)
      BY <2>1, <2>2, FinishQuietly
    <2>3. CASE Go(a, Doing("aborted", t))
      <3>1. txs[t].status # "committed"
        BY <1>8 DEF Abort, Allowed
      <3>2. PICK q : q = Doing("aborted", t)
        OBVIOUS
      <3>3. JudgedStep(a, q)
        BY <2>1, <2>3, <3>1, <3>2 DEF JudgedStep, Alone, TouchesOwn, Judged, GatesInv, Doing
      <3> QED BY <3>3, JudgedStepKeeps
    <2> QED BY <1>8, <2>2, <2>3 DEF Abort, Transition
  <1> QED BY <1>2, <1>3, <1>4, <1>5, <1>6, <1>7, <1>8 DEF Ask

(* Requests that go on. *)
LEMMA ServeKeepsGates ==
  ASSUME Assumptions, StoreInv, GatesInv, NEW a \in Replicas, Serve(a)
  PROVE  GatesInv'
  <1> DEFINE t == request[a].tx
  <1> USE DEF Asked, Onward, Doing, Landed, Deciding, Outcomes
  <1>0. /\ \A u \in Txs : txs[u].status = "committed" => Passed(txs[u])
        /\ Judged(request[a]) /\ Shape(request[a])
        /\ txs \in [Txs -> Tx]
    BY DEF GatesInv, StoreInv, Relies, TablesOK, TablesTypeOK
  <1>1. ASSUME NEW q, Go(a, q), UNCHANGED txs, q.tx \in {t, NoTx},
               q.pc \in {"create", "write", "insert", "finish", "lock", "lock_insert", "open",
                         "open_insert", "fail"}
        PROVE  GatesInv'
    BY <1>1, UndecidedKeeps DEF Alone
  <1>2. ASSUME NEW q, Go(a, q), q.tx = t, t \in Txs, txs[t].status # "committed",
               TouchesOwn(a), txs'[t].status # "committed",
               q.pc \in Deciding, q.pc = "committed" => Passed(txs'[t])
        PROVE  GatesInv'
    <2>1. Judged(q)'
      BY <1>2 DEF Judged
    <2> QED BY <1>2, <2>1, JudgedStepKeeps DEF JudgedStep, Alone
  <1>3. ASSUME CreateState(a) \/ CommitEnsures(a) PROVE GatesInv'
    <2>1. txs' = txs
      BY <1>3 DEF CreateState, CommitEnsures, InsertState, tables
    <2>2. Finish(a) \/ \E q : Go(a, q) /\ q.tx = t /\ q.pc \in {"create", "write", "lock", "open"}
      BY <1>3 DEF CreateState, CommitEnsures, Ensured, After
    <2> QED BY <1>1, <2>1, <2>2, FinishQuietly
  <1>4. ASSUME LockRow(a) \/ InsertVersion(a) PROVE GatesInv'
    <2>1. txs' = txs
      BY <1>4 DEF LockRow, InsertVersion, StoreVersion, tables
    <2>2. \/ Finish(a)
          \/ \E q : Go(a, q) /\ q.tx \in {t, NoTx} /\ q.pc \in {"fail", "finish", "insert"}
          \/ Go(a, Idle)
      BY <1>4 DEF LockRow, InsertVersion, Rejected, Accepted, Step
    <2>3. Go(a, Idle) => GatesInv'
      BY <2>1, UndecidedKeeps DEF Alone, Idle
    <2> QED BY <1>1, <2>1, <2>2, <2>3, FinishQuietly
  <1>5. ASSUME AcquireCheck(a) \/ AcquireInsert(a) \/ Unlock(a) \/ PinBase(a) PROVE GatesInv'
    <2>1. txs' = txs
      BY <1>5 DEF AcquireCheck, AcquireInsert, Unlock, PinBase, SetLock, tables
    <2>2. Finish(a) \/ \E q : Go(a, q) /\ q.tx \in {t, NoTx} /\ q.pc \in {"lock_insert", "open_insert"}
      BY <1>5 DEF AcquireCheck, AcquireInsert, Unlock, PinBase, Step, Pinned
    <2> QED BY <1>1, <2>1, <2>2, FinishQuietly
  <1>6. CASE DeleteState(a)
    <2>1. UNCHANGED txs \/ txs' = [u \in Txs |-> IF InTable(u) THEN OpenTx("deleted", 0) ELSE txs[u]]
      BY <1>6 DEF DeleteState, DeleteStateRow, tables
    <2>2. /\ TouchesOwn(a)
          /\ \A u \in Txs : txs'[u].status = "committed" => Passed(txs'[u])
      BY <1>0, <2>1 DEF TouchesOwn, OpenTx, InTable, TxStatus
    <2> QED BY <1>6, <2>2, FinishKeeps DEF DeleteState
  <1>7. CASE OpenInsert(a)
    <2>1. \/ UNCHANGED txs
          \/ \E u \in Txs : /\ txs[u].status = "unused"
                            /\ txs' = [txs EXCEPT ![u] = OpenTx("open", request[a].base)]
      BY <1>7 DEF OpenInsert, SetTx, tables
    <2>2. /\ TouchesOwn(a)
          /\ \A u \in Txs : txs'[u].status = "committed" => Passed(txs'[u])
      BY <1>0, <2>1 DEF TouchesOwn, OpenTx
    <2> QED BY <1>7, <2>2, FinishKeeps DEF OpenInsert
  <1>8. CASE RecordResources(a) \/ RecordGates(a)
    <2>1. t \in Txs /\ txs[t].status # "committed"
      BY <1>0, <1>8 DEF RecordResources, RecordGates, At, Shape, OfTx, Judged
    <2>2. CASE Finish(a) /\ UNCHANGED tables
      BY <2>2, FinishQuietly DEF tables
    <2>3. CASE InTable(t) /\ ~(Finish(a) /\ UNCHANGED tables)
      <3>1. PICK q : Go(a, q) /\ q.tx = t /\ q.pc \in {"check_gates", "preview"}
        BY <1>8, <2>3 DEF RecordResources, RecordGates, Recording
      <3>2. PICK x : txs' = [txs EXCEPT ![t] = x] /\ x.status = txs[t].status
        <4>1. /\ [txs[t] EXCEPT !.writes = request[a].plan.writes].status = txs[t].status
              /\ [txs[t] EXCEPT !.report = request[a].plan.report].status = txs[t].status
          BY <1>0, <2>1 DEF Tx
        <4> QED BY <1>8, <2>3, <4>1 DEF RecordResources, RecordGates, SetTx
      <3>3. TouchesOwn(a) /\ txs'[t].status # "committed"
        BY <1>0, <2>1, <3>2 DEF TouchesOwn
      <3> QED BY <1>2, <2>1, <3>1, <3>3
    <2> QED BY <1>8, <2>2, <2>3 DEF RecordResources, RecordGates
  <1>9. CASE CheckGates(a) \/ PreviewTransition(a)
    <2>1. txs' = txs /\ t \in Txs /\ txs[t].status # "committed"
      BY <1>0, <1>9 DEF CheckGates, PreviewTransition, At, Shape, OfTx, Judged, tables
    <2>2. Finish(a) \/ \E q : Go(a, q) /\ q.tx = t /\ q.pc \in {"gates", "previewing"}
      BY <1>9 DEF CheckGates, PreviewTransition, Transition, Recording
    <2>3. TouchesOwn(a)
      BY <2>1 DEF TouchesOwn
    <2> QED BY <1>2, <2>1, <2>2, <2>3, FinishQuietly
  <1>10. CASE FailTransaction(a)
    <2>1. txs' = txs /\ t \in Txs /\ TouchesOwn(a)
      BY <1>0, <1>10 DEF FailTransaction, At, Shape, OfTx, tables, TouchesOwn
    <2>2. \/ Finish(a)
          \/ txs[t].status # "committed" /\ \E q : Go(a, q) /\ q.tx = t /\ q.pc = "failed"
      BY <1>10 DEF FailTransaction, Transition, Allowed
    <2> QED BY <1>2, <2>1, <2>2, FinishQuietly
  <1>11. CASE FinishCommit(a)
    <2>1. txs' = txs /\ t \in Txs /\ TouchesOwn(a)
      BY <1>0, <1>11 DEF FinishCommit, At, Shape, OfTx, tables, TouchesOwn
    <2>2. \/ Finish(a)
          \/ /\ txs[t].status # "committed"
             /\ \E q : /\ Go(a, q) /\ q.tx = t
                       /\ q.pc = "failed" \/ (q.pc = "committed" /\ Ready(t))
      BY <1>11 DEF FinishCommit, Final
    <2>3. Ready(t) => Passed(txs[t])
      BY <1>0, <2>1 DEF Ready, BlockingGates, Passed, Assumptions, TablesAssumption
    <2> QED BY <1>2, <2>1, <2>2, <2>3, FinishQuietly
  <1>12. CASE Settle(a)
    <2>1. t \in Txs /\ Judged(request[a])
      BY <1>0, <1>12 DEF Settle, Shape, OfTx
    <2>2. CASE ~InTable(t)
      BY <1>12, <2>2, FinishQuietly DEF Settle, tables
    <2>3. CASE InTable(t)
      <3>1. PICK x : /\ txs' = [txs EXCEPT ![t] = x]
                     /\ x.status = "committed" => request[a].pc = "committed" /\ x.report = txs[t].report
        <4> DEFINE x == IF request[a].pc = "committed" THEN CommittedTx(txs[t], request[a].body)
                        ELSE [txs[t] EXCEPT !.status = request[a].pc]
        <4>1. txs' = [txs EXCEPT ![t] = x]
          BY <1>12, <2>3 DEF Settle, SetTx
        <4>2. [txs[t] EXCEPT !.status = request[a].pc].status = request[a].pc
          BY <1>0, <2>1 DEF Tx
        <4>3. x.status = "committed" => request[a].pc = "committed" /\ x.report = txs[t].report
          BY <4>2 DEF CommittedTx
        <4> QED BY <4>1, <4>3
      <3>2. x.status = "committed" => Passed(x)
        BY <2>1, <2>3, <3>1 DEF Judged, Passed
      <3>3. TouchesOwn(a) /\ txs'[t] = x
        BY <1>0, <2>1, <3>1 DEF TouchesOwn
      <3> QED BY <1>12, <3>2, <3>3, FinishKeeps DEF Settle
    <2> QED BY <2>2, <2>3
  <1> QED BY <1>3, <1>4, <1>5, <1>6, <1>7, <1>8, <1>9, <1>10, <1>11, <1>12 DEF Serve

(* A committed transaction has every required gate passed and keeps that    *)
(* report, however many replicas serve it, as long as its client waits for  *)
(* each answer before it asks again.                                        *)
THEOREM CommitsPassedGates ==
  ASSUME OneRequestPerTx
  PROVE  Spec => []CommittedPassedGates
  <1>1. Assumptions
    BY TablesAssumption, StoreAssumption DEF Assumptions
  <1>2. Init => GatesInv
    BY <1>1 DEF Init, InitTables, GatesInv, OneEach, Judged, Idle, Asked, OpenTx, Assumptions,
                TablesAssumption
  <1>3. StoreInv /\ GatesInv /\ [Next]_vars => GatesInv'
    <2> SUFFICES ASSUME StoreInv, GatesInv, [Next]_vars PROVE GatesInv'
      OBVIOUS
    <2>1. CASE UNCHANGED vars
      BY <2>1 DEF vars, tables, GatesInv, OneEach, Judged, InTable
    <2>2. ASSUME NEW a \in Replicas, Die(a) PROVE GatesInv'
      BY <1>1, <2>2, FinishQuietly DEF Die, tables
    <2> QED BY <1>1, <2>1, <2>2, AskKeepsGates, ServeKeepsGates DEF Next
  <1>4. GatesInv => CommittedPassedGates
    BY DEF GatesInv, CommittedPassedGates, Passed
  <1> QED BY <1>2, <1>3, <1>4, StoreInvariant, PTL DEF Spec
=============================================================================
