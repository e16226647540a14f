------------------------------ MODULE MCVending ------------------------------
(* Vending with small constants for TLC. *)
EXTENDS Vending

(* Two components of one name: a bucket, reclaimed without review, and a   *)
(* cache, reviewed because no class list names it.                         *)
SameName   == [s \in Stacks |-> "orders"]
Components == [s \in Stacks |-> "component"]
OneOfEach  == [s \in Stacks |-> IF s = 1 THEN "bucket" ELSE "cache"]
Buckets    == {"bucket"}
NoClasses  == {}
=============================================================================
