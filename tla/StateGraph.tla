----------------------------- MODULE StateGraph -----------------------------
(***************************************************************************)
(* What the state store derives from a state document and answers with:    *)
(* the resources, instances and edges it indexes with every version        *)
(* (normalize.py, graph.py), the blast radius and its price, drift against *)
(* a refreshed document, the write set of a plan; and what surrounds it:   *)
(* sealed blobs (crypto.py), migrations (migrate.py) and the clients it    *)
(* serves (state_contract.py).                                             *)
(*                                                                         *)
(* An address is the sequence of its segments: modules, with their index   *)
(* when they have one, "data", and type and name as one; an instance has   *)
(* its index key at the end.                                               *)
(***************************************************************************)
EXTENDS Naturals, Sequences, FiniteSets

LOCAL INSTANCE SequencesExt
LOCAL INSTANCE FiniteSetsExt

CONSTANTS MaxTraversalDepth,  \* MAX_TRAVERSAL_DEPTH
          Indexes,            \* the segments that are index keys
          Modules,            \* the segments that are module calls
          Scopes,             \* var, local, each, count, path, terraform, self
          Suspicious,         \* attributes on the name denylist
          Unkeyed,            \* no index key
          Redacted,
          SomeDocuments, SomeCaches, SomeConfigs, SomeEdges, SomeBreakdowns  \* what is tried

ASSUME GraphAssumption ==
  /\ MaxTraversalDepth \in Nat
  /\ Unkeyed \notin Indexes
  /\ \A d \in SomeDocuments : \A r, q \in d : r.address = q.address => r = q

-----------------------------------------------------------------------------
(* normalize.py.  A resource is [address, type, instances]; an instance     *)
(* [key, attributes, declared, dependencies], declared being what Terraform *)
(* flagged in sensitive_attributes.                                         *)

InstanceAddress(base, key) == IF key = Unkeyed THEN base ELSE Append(base, key)

StripIndex(address) ==
  IF address # <<>> /\ Last(address) \in Indexes THEN Front(address) ELSE address

(* Mutant: what the provider schema marks is not looked at. *)
RedactDeclared(instance, schema) ==
  [k \in DOMAIN instance.attributes |->
     IF k \in instance.declared \cup Suspicious THEN Redacted ELSE instance.attributes[k]]

(* redact_attributes: three sources, applied together. *)
Redact(instance, schema) ==
  [k \in DOMAIN instance.attributes |->
     IF k \in instance.declared \cup schema \cup Suspicious
     THEN Redacted ELSE instance.attributes[k]]

(* load_cached_sensitive_attributes: the union over the cached schemas. *)
SensitiveOf(cache, type) == UNION {s[type] : s \in {c \in cache : type \in DOMAIN c}}

(* state_resource_instances: address -> attributes. *)
Rows(doc, cache) ==
  LET all == UNION {{<<r, i>> : i \in r.instances} : r \in doc}
      At(a) == CHOOSE p \in all : InstanceAddress(p[1].address, p[2].key) = a
  IN  [a \in {InstanceAddress(p[1].address, p[2].key) : p \in all} |->
         Redact(At(a)[2], SensitiveOf(cache, At(a)[1].type))]

Edge(kind, from, to) == [kind |-> kind, from |-> from, to |-> to]

(* _depends_on_edges *)
DependsOnEdges(doc) ==
  LET targets(r) == {StripIndex(d) : d \in UNION {i.dependencies : i \in r.instances}} IN
  UNION {{Edge("depends_on", r.address, t) : t \in targets(r) \ {r.address}} : r \in doc}

(* _reference_to_address: the resource, the data source or the module call  *)
(* an expression refers to; <<>> for scopes that are not graph nodes.       *)
ReferenceToAddress(ref) ==
  CASE Head(ref) \in Scopes  -> <<>>
    [] Head(ref) = "data"    -> IF Len(ref) >= 2 THEN SubSeq(ref, 1, 2) ELSE <<>>
    [] OTHER                 -> <<Head(ref)>>

(* edges_from_plan_json: the configuration as [prefix, address, references], *)
(* one per resource of each module called.                                  *)
ConfigEdges(config) ==
  LET targets(c) == {ReferenceToAddress(ref) : ref \in c.references} \ {<<>>} IN
  UNION {{Edge("reference", c.prefix \o c.address, c.prefix \o t) : t \in targets(c) \ {c.address}} :
           c \in config}
-----------------------------------------------------------------------------
(* graph.py *)

Known(doc) == {r.address : r \in doc}

(* replace_graph: an edge whose ends are not both in the state is dropped. *)
StoredEdges(doc, extra) ==
  {e \in DependsOnEdges(doc) \cup extra : {e.from, e.to} \subseteq Known(doc)}

Dependents(edges, a) == {e.from : e \in {f \in edges : f.to = a}}

RECURSIVE Walk(_, _, _, _)

Walk(edges, target, queue, seen) ==
  IF queue = <<>> THEN seen
  ELSE LET at  == Head(queue)
           new == IF at[2] >= MaxTraversalDepth THEN {}
                  ELSE Dependents(edges, at[1]) \ (seen \cup {target})
       IN  Walk(edges, target,
                Tail(queue) \o [k \in 1..Cardinality(new) |-> <<SetToSeq(new)[k], at[2] + 1>>],
                seen \cup new)

(* blast_radius: everything a change of the address can reach. *)
BlastRadius(edges, address) ==
  Walk(edges, StripIndex(address), << <<StripIndex(address), 0>> >>, {})

DependenciesOf(edges, address) == {e.to : e \in {f \in edges : f.from = StripIndex(address)}}

(* compare_drift: address -> the attributes that changed, or what happened. *)
CompareDrift(stored, observed) ==
  LET Get(row, k) == IF k \in DOMAIN row THEN row[k] ELSE Unkeyed IN
  [a \in DOMAIN stored \cup DOMAIN observed |->
     CASE a \notin DOMAIN stored   -> [status |-> "added", keys |-> {}]
       [] a \notin DOMAIN observed -> [status |-> "removed", keys |-> {}]
       [] OTHER ->
            LET changed == {k \in DOMAIN stored[a] \cup DOMAIN observed[a] :
                              Get(stored[a], k) # Get(observed[a], k)}
            IN  [status |-> IF changed = {} THEN "unchanged" ELSE "changed", keys |-> changed]]

(* drift: the refreshed document is redacted by what is cached now, the    *)
(* stored rows by what was cached when they were written.                  *)
Drift(doc, then, refreshed, now) == CompareDrift(Rows(doc, then), Rows(refreshed, now))
-----------------------------------------------------------------------------
(* The price of a blast radius: parse_resource_costs, total_monthly_cost.   *)
(* A breakdown is a sequence of [name, price, parts]; a price may be        *)
(* missing, and counts as nothing.                                          *)

Price(item) == item.price + FoldSeq(LAMBDA p, n : p + n, 0, item.parts)

ResourceCosts(breakdown) ==
  [a \in {breakdown[k].name : k \in DOMAIN breakdown} |->
     FoldSeq(LAMBDA item, n : IF item.name = a THEN n + Price(item) ELSE n, 0, breakdown)]

TotalMonthlyCost(costs, scope) ==
  [total    |-> FoldSeq(LAMBDA a, n : IF a \in DOMAIN costs THEN n + costs[a] ELSE n, 0, scope),
   unpriced |-> ToSet(scope) \ DOMAIN costs]

(* state_blast_radius_cost: the address as it was asked for, not stripped. *)
BlastRadiusCost(edges, address, breakdown) ==
  TotalMonthlyCost(ResourceCosts(breakdown), <<address>> \o SetToSeq(BlastRadius(edges, address)))
-----------------------------------------------------------------------------
(* resources_from_plan_json: resource_changes is a sequence of [address,    *)
(* actions]; an address may come twice, a deposed object beside its current.*)

Intent(actions) == IF actions \in {<<>>, <<"no-op">>, <<"read">>} THEN "read" ELSE "write"

ResourcesFromPlan(changes) ==
  {<<changes[k].address, Intent(changes[k].actions)>> : k \in DOMAIN changes}

WriteSet(changes) == {r[1] : r \in {q \in ResourcesFromPlan(changes) : q[2] = "write"}}
-----------------------------------------------------------------------------
(* crypto.py.  Without a key a blob is stored as it is; with one its data   *)
(* key is wrapped by the key, whose id is stored beside it.                 *)

Seal(bytes, crypto) ==
  IF crypto = Unkeyed THEN [bytes |-> bytes, by |-> Unkeyed, id |-> Unkeyed]
  ELSE [bytes |-> bytes, by |-> crypto.key, id |-> crypto.id]

Unseal(blob, crypto) ==
  IF blob.by = Unkeyed THEN blob.bytes
  ELSE IF crypto = Unkeyed \/ crypto.id # blob.id \/ crypto.key # blob.by THEN "error"
  ELSE blob.bytes
-----------------------------------------------------------------------------
(* migrate.py.  Migrations are numbered, a file each; with a gap none is   *)
(* loaded, an error.                                                        *)

LoadMigrations(files) ==
  IF files = 1..Cardinality(files) THEN SetToSortSeq(files, <) ELSE <<>>

Pending(files, applied) == SelectSeq(LoadMigrations(files), LAMBDA v : v \notin applied)

(* apply_migrations: in order, each committed by itself; `stop` fails.      *)
ApplyMigrations(files, applied, stop) ==
  LET pending == Pending(files, applied)
      failed  == SelectInSeq(pending, LAMBDA v : v = stop)
  IN  applied \cup ToSet(IF failed = 0 THEN pending ELSE SubSeq(pending, 1, failed - 1))
-----------------------------------------------------------------------------
(* state_contract.py: evaluate_client_version.  A client that sends no      *)
(* version (<<>>) is served: it need not be one that knows of the header.   *)

Older(v, w) == \E k \in 1..3 : v[k] < w[k] /\ \A j \in 1..(k - 1) : v[j] = w[j]

EvaluateClient(version, floor, current) ==
  CASE version = <<>>          -> "served"
    [] Older(version, floor)   -> "upgrade required"
    [] Older(version, current) -> "warned"
    [] OTHER                   -> "served"
-----------------------------------------------------------------------------
(* Properties *)

(* What n steps against the edges reach. *)
Reach(edges, target) ==
  LET within[n \in 0..MaxTraversalDepth] ==
        IF n = 0 THEN {}
        ELSE UNION {Dependents(edges, a) : a \in within[n - 1] \cup {target}}
               \cup within[n - 1]
  IN  within[MaxTraversalDepth] \ {target}

(* blast_radius answers all that depends on an address, over at most        *)
(* MAX_TRAVERSAL_DEPTH edges, whatever cycles the edges have; and nothing   *)
(* that is not in the state.                                                *)
RadiusIsReach ==
  /\ \A edges \in SomeEdges : \A e \in edges : BlastRadius(edges, e.to) = Reach(edges, e.to)
  /\ \A d \in SomeDocuments, c \in SomeConfigs : \A r \in d : \A i \in r.instances :
       BlastRadius(StoredEdges(d, ConfigEdges(c)), InstanceAddress(r.address, i.key)) \subseteq Known(d)

(* What may be told of a document: its attributes that no source calls     *)
(* sensitive.                                                               *)
Public(doc, cache) ==
  {[r EXCEPT !.instances =
      {[i EXCEPT !.attributes =
          [k \in DOMAIN @ |-> IF k \in i.declared \cup SensitiveOf(cache, r.type) \cup Suspicious
                               THEN Redacted ELSE @[k]]] : i \in @}] : r \in doc}

(* Drift tells nothing of a secret: documents that differ in secrets only   *)
(* drift alike.  A document has not drifted from itself, but for what       *)
(* became sensitive after its rows were written.                            *)
DriftIsHonest ==
  \A c \in SomeCaches :
    /\ \A d, e, o \in SomeDocuments : Public(d, c) = Public(e, c) =>
         Drift(d, c, o, c) = Drift(e, c, o, c) /\ Drift(o, c, d, c) = Drift(o, c, e, c)
    /\ \A d \in SomeDocuments, now \in SomeCaches : \A a \in DOMAIN Drift(d, c, d, c \cup now) :
         Drift(d, c, d, c \cup now)[a].keys \subseteq
           UNION {SensitiveOf(now, r.type) \ SensitiveOf(c, r.type) : r \in d}

(* The price of a radius counts each resource in it once or names it as     *)
(* unpriced.                                                                *)
CostAccountsForAll ==
  \A d \in SomeDocuments, b \in SomeBreakdowns : \A r \in d :
    LET edges == StoredEdges(d, {})
        cost  == BlastRadiusCost(edges, r.address, b)
        scope == {r.address} \cup Reach(edges, r.address)
        items == {k \in DOMAIN b : b[k].name \in scope}
    IN  /\ cost.total = FoldSet(LAMBDA k, n : n + Price(b[k]), 0, items)
        /\ cost.unpriced = scope \ {b[k].name : k \in items}

(* However startups fail, the migrations applied are the first ones; the    *)
(* next startup goes on with the rest, and a release that adds one too.     *)
MigrationsInOrder ==
  \A n, m \in 0..3, stop, again \in 0..4 :
    LET once  == ApplyMigrations(1..n, {}, stop)
        twice == ApplyMigrations(1..(n + m), once, again)
    IN  /\ twice = 1..Cardinality(twice)
        /\ again = 0 => twice = 1..(n + m)

(* A blob is read back as it was written or not at all, also after the key  *)
(* was changed.                                                             *)
BlobsReadBack ==
  LET keys == [key : {1, 2}, id : {1, 2}] IN
  \A k \in keys \cup {Unkeyed}, l \in keys \cup {Unkeyed} :
    /\ Unseal(Seal("bytes", k), l) \in {"bytes", "error"}
    /\ Unseal(Seal("bytes", k), k) = "bytes"

(* The two directions of the graph agree: what a change reaches depends on  *)
(* the changed address or on something else the change reaches.             *)
RadiusHasReasons ==
  \A edges \in SomeEdges : \A e \in edges : LET radius == BlastRadius(edges, e.to) IN
    \A a \in radius : DependenciesOf(edges, a) \cap (radius \cup {e.to}) # {}

(* Whatever else a plan says of an address and in whatever order, a change  *)
(* that does something to it is in the write set that conflicts are judged  *)
(* by: a deposed object's removal is not lost behind its current no-op.     *)
PlannedWritesCount ==
  \A plan \in SeqOf([address : {"a", "b"},
                     actions : {<<>>, <<"no-op">>, <<"read">>, <<"delete">>, <<"delete", "create">>}], 2) :
    WriteSet(plan) = {plan[k].address : k \in {j \in DOMAIN plan :
                        \E n \in DOMAIN plan[j].actions : plan[j].actions[n] \notin {"no-op", "read"}}}

(* When the floor is raised, nobody is cut off who was not warned before,   *)
(* as long as the floor stays at or below the current version.              *)
WarnedBeforeRefused ==
  \A v, floor, raised, current \in [1..3 -> 0..1] :
    ~Older(current, raised) =>
      << EvaluateClient(v, floor, current), EvaluateClient(v, raised, current) >>
        # << "served", "upgrade required" >>

AnswersHold ==
  /\ RadiusHasReasons /\ PlannedWritesCount /\ WarnedBeforeRefused
  /\ RadiusIsReach /\ DriftIsHonest /\ CostAccountsForAll /\ MigrationsInOrder /\ BlobsReadBack
=============================================================================
