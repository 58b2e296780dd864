-------------------------- MODULE MCWalletDeposits --------------------------
(* A small instance of WalletDeposits for TLC. *)
EXTENDS WalletDeposits

CONSTANTS bob, t1, t2

MCRecipient == [t \in Txs |-> bob]
MCAmount    == [t \in Txs |-> IF t = t1 THEN 1 ELSE 2]
MCOpening   == [u \in Users |-> NoRow]
===============================================================================
