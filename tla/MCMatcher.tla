------------------------------- MODULE MCMatcher -------------------------------
(* A small instance of Matcher for TLC. *)
EXTENDS Matcher

CONSTANTS alice, bob, carol, b1, b2, s1, s2, st, fk

New(user, side, kind, price, qty, tif, postOnly) ==
    [user |-> user, side |-> side, kind |-> kind, price |-> price, qty |-> qty,
     tif |-> tif, postOnly |-> postOnly]

MCUsers  == {alice, bob, carol}
MCPrices == {1, 2}

(* alice and bob trade on both sides, carol only buys. *)
MCOrder ==
    [o \in Orders |->
        CASE o = b1 -> New(alice, "BUY", "LIMIT", 2, 2, "GTC", FALSE)
          [] o = b2 -> New(bob, "BUY", "MARKET", 1, 3, "IOC", FALSE)
          [] o = s1 -> New(bob, "SELL", "LIMIT", 1, 1, "GTC", FALSE)
          [] o = s2 -> New(alice, "SELL", "LIMIT", 2, 2, "GTC", TRUE)
          [] o = st -> New(bob, "SELL", "STOP", 2, 1, "GTC", FALSE)
          [] o = fk -> New(carol, "BUY", "LIMIT", 2, 3, "FOK", FALSE)]
===============================================================================
