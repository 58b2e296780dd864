------------------------------ MODULE MCOMSRouter ------------------------------
(* Small instances of OMSRouter for TLC. *)
EXTENDS OMSRouter

CONSTANTS alice, bob, carol, b1, s1, s2, st

New(user, side, kind, price, qty) ==
    [user |-> user, side |-> side, kind |-> kind, price |-> price, qty |-> qty,
     tif |-> "GTC", postOnly |-> FALSE]

MCUsers  == {alice, bob, carol}
MCPrices == {1, 2}

MCOrder ==
    [o \in Orders |->
        CASE o = b1 -> New(alice, "BUY", "LIMIT", 2, 2)
          [] o = s1 -> New(bob, "SELL", "LIMIT", 1, 1)
          [] o = s2 -> New(carol, "SELL", "LIMIT", 2, 1)
          [] o = st -> New(carol, "SELL", "STOP", 2, 1)]

(* carol replaces s2, when she placed it, by the stop order st. *)
MCReplaces == [o \in Orders |-> IF o = st /\ s2 \in Orders THEN s2 ELSE NoOrder]
===============================================================================
