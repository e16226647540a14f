---------------------------- MODULE MCStateStore ----------------------------
(* StateStore with small constants for TLC. *)
EXTENDS StateStore, StateGraph, TLC

CONSTANTS c1, c2, l1, l2

Doc(s, l, c) == [serial |-> s, lineage |-> l, content |-> c]

(* Every serial, two contents of the last two, and a foreign lineage. *)
ManyDocuments ==
  {Doc(0, l1, c1), Doc(0, l1, c2), Doc(1, l1, c1), Doc(1, l1, c2), Doc(2, l1, c1), Doc(1, l2, c1)}

(* Two clients at one serial, and one that starts late. *)
FewDocuments == {Doc(1, l1, c1), Doc(1, l1, c2)}

Passed       == [Gates -> {"passed"}]
PassedOrNot  == [Gates -> {"passed", "skipped"}]

(* A network and two that depend on it, one of them counted; a secret that   *)
(* only the provider schema names; a data source; a foreign dependency.     *)
Instance(key, secret, deps) ==
  [key |-> key, attributes |-> [size |-> 1, pem |-> secret, password |-> secret],
   declared |-> {}, dependencies |-> deps]

Resource(name, type, instances) == [address |-> name, type |-> type, instances |-> instances]

Estate(s1, s2) ==
  {Resource(<<"net">>, "plain", {Instance(Unkeyed, s1, {})}),
   Resource(<<"web">>, "server", {Instance(k, s2, {<<"net">>, <<"gone">>}) : k \in Indexes}),
   Resource(<<"app", "lb">>, "plain", {Instance(Unkeyed, s1, {<<"web", "[0]">>, <<"data", "zone">>})}),
   Resource(<<"data", "zone">>, "plain", {})}

FewEstates == {Estate(a, b) : a, b \in {1, 2}} \cup {{r \in Estate(1, 1) : r.address # <<"web">>}}

FewCaches == SUBSET {[server |-> {"pem"}], [plain |-> {"size"}]}

FewConfigs ==
  {{}, {[prefix |-> <<"app">>, address |-> <<"lb">>,
         references |-> {<<"var", "size">>, <<"dns", "id">>, <<"lb", "id">>}],
        [prefix |-> <<>>, address |-> <<"web">>, references |-> {<<"data", "zone", "id">>, <<"net">>}]}}

(* A short way round and a long one. *)
FewEdges ==
  SUBSET {Edge("depends_on", <<p[1]>>, <<p[2]>>) :
            p \in {<<"a", "t">>, <<"b", "a">>, <<"d", "b">>, <<"c", "t">>, <<"d", "c">>, <<"e", "d">>,
                    <<"f", "e">>, <<"t", "d">>}}

FewBreakdowns ==
  {<<>>, <<[name |-> <<"net">>, price |-> 3, parts |-> <<1, 1>>],
           [name |-> <<"app", "lb">>, price |-> 2, parts |-> <<>>],
           [name |-> <<"web", "[0]">>, price |-> 7, parts |-> <<>>],
           [name |-> <<"net">>, price |-> 1, parts |-> <<>>]>>}

(* What the store answers once there is a state.                           *)
IndexAnswers == (\E s \in Serials : Stored(s)) => AnswersHold

SameReplicas == Permutations(Replicas)
SameClients  == Permutations(Replicas) \cup Permutations(Txs)
=============================================================================
