-------------------------- MODULE MCOrderGateway --------------------------
(* A small instance of OrderGateway for TLC. *)
EXTENDS OrderGateway

Interchangeable ==
    Permutations(Attempts) \cup Permutations(Bodies) \cup Permutations(Keys)
=============================================================================
