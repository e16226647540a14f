------------------------------- MODULE MCFleet -------------------------------
(* Instances of Fleet for TLC. *)
EXTENDS Fleet

(* Every bump changes the version of the blueprint. *)
EveryPin == [p \in 0..MaxPins |-> p]

=============================================================================
