------------------------------- MODULE MCAccess -------------------------------
(* A small instance of Access for TLC. *)
EXTENDS Access, TLC

CONSTANTS alice, bob, h1, h2, k1

Interchangeable == Permutations(Users) \cup Permutations(Handlers)
===============================================================================
