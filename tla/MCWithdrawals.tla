----------------------------- MODULE MCWithdrawals -----------------------------
(* A small instance of Withdrawals for TLC. *)
EXTENDS Withdrawals

CONSTANTS w1, w2, g1, g2

(* One withdrawal any user may make, one that needs a higher tier, is       *)
(* reported and falls under the travel rule; not both in one day.           *)
MCAmount == [w \in Ids |-> IF w = w1 THEN 600 ELSE 9600]

MCHost == [w \in Ids |-> IF w = w1 THEN g1 ELSE g2]
===============================================================================
