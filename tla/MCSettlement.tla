----------------------------- MODULE MCSettlement -----------------------------
(* Small instances of Settlement for TLC. *)
EXTENDS Settlement, Fees

CONSTANTS alice, bob, platform_fees, BTC, USDT, VLX, t1, t2

MCUsers  == {alice, bob}
MCAssets == {BTC, USDT, VLX}
MCTrades == {t1, t2}

(* alice has reached the first VIP tier; bob asks to pay his fees in VLX and *)
(* has just enough of it for the fee of t1.                                  *)
Alice == [id |-> alice, volume30D |-> 100000, override |-> {},
          payFeesInVLX |-> FALSE, availableVLX |-> {0}]
Bob   == [id |-> bob, volume30D |-> 99999, override |-> {},
          payFeesInVLX |-> TRUE, availableVLX |-> {3}]

(* t1: alice buys from bob, who pays his fee in VLX; t2: bob buys back twice *)
(* as much, both fees in the quote asset.                                    *)
ExecT1 == ExecutionOf(Alice, Bob, 1, 10000, USDT, VLX)
ExecT2 == ExecutionOf(Bob, Alice, 2, 10000, USDT, VLX)
MCExec == [t \in {t1, t2} |-> IF t = t1 THEN ExecT1 ELSE ExecT2]

Row(a, r) == [available |-> a, reserved |-> r, total |-> a + r]

(* Both users hold what the open orders behind t1 and t2 reserved. *)
MCOpenRows == (MCUsers \X {BTC, USDT}) \cup {<<bob, VLX>>, <<alice, VLX>>}
MCOpening ==
    [r \in (MCUsers \cup {platform_fees}) \X MCAssets |->
        IF r = <<alice, USDT>> THEN Row(1, 10015)
        ELSE IF r = <<bob, BTC>> THEN Row(0, 1)
        ELSE IF r = <<bob, USDT>> THEN Row(0, 20040)
        ELSE IF r = <<alice, BTC>> THEN Row(1, 2)
        ELSE IF r = <<bob, VLX>> THEN Row(3, 0)
        ELSE Row(0, 0)]
===============================================================================
