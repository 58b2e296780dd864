--------------------------------- MODULE Fees ---------------------------------
(***************************************************************************)
(* The fees engine: which rate a side of a trade pays, and in which asset. *)
(* ExecutionOf is what ExecutionEngine.ProcessTrades makes of a trade and  *)
(* module Settlement clears.  Rates are in units of 0.01 %, prices in      *)
(* tenths of a USDT, amounts in the smallest unit of their asset.          *)
(* What the engine knows of a user is a record with the fields             *)
(*   id, volume30D, payFeesInVLX,                                          *)
(*   override      the overriding rate in a set, empty without one,        *)
(*   availableVLX  the balance the risk engine answers in a set, empty     *)
(*                 while no risk engine is linked.                         *)
(***************************************************************************)
EXTENDS Integers, FiniteSets

VipTiers ==
    {[minVolume |-> 0,        maker |-> 10, taker |-> 20],
     [minVolume |-> 100000,   maker |-> 5,  taker |-> 15],
     [minVolume |-> 1000000,  maker |-> 2,  taker |-> 10],
     [minVolume |-> 10000000, maker |-> 0,  taker |-> 5]}

(* assetPrices of the quote asset and of VLX *)
QuotePrice == 10
VLXPrice   == 25

(* The last tier, in ascending order, whose volume the user reaches. *)
VipTier(u) ==
    LET reached == {v \in VipTiers : v.minVolume <= u.volume30D}
    IN  CHOOSE v \in reached : \A r \in reached : r.minVolume <= v.minVolume

(* An override replaces both rates of the tier. *)
GetFeeRates(u) ==
    IF u.override = {}
    THEN [maker |-> VipTier(u).maker, taker |-> VipTier(u).taker]
    ELSE LET rate == CHOOSE r \in u.override : TRUE
         IN  [maker |-> rate, taker |-> rate]

CalculateFee(u, value, isMaker) ==
    (value * (IF isMaker THEN GetFeeRates(u).maker ELSE GetFeeRates(u).taker)) \div 10000

(* 75 % of the fee's worth in vlx, for a user who asks for it and has it. *)
CalculateFeeForUser(u, rawFee, quote, vlx) ==
    LET inVLX == (rawFee * QuotePrice * 75) \div (VLXPrice * 100)
    IN  IF u.payFeesInVLX /\ \E balance \in u.availableVLX : balance >= inVLX
        THEN [asset |-> vlx, fee |-> inVLX]
        ELSE [asset |-> quote, fee |-> rawFee]

(* The buyer pays the taker rate and the seller the maker rate, whichever of *)
(* them came first.                                                          *)
ExecutionOf(buyer, seller, qty, price, quote, vlx) ==
    LET buyerRaw == CalculateFee(buyer, qty * price, FALSE)
        sold     == CalculateFee(seller, qty * price, TRUE)
        pays     == CalculateFeeForUser(buyer, buyerRaw, quote, vlx)
        gives    == CalculateFeeForUser(seller, sold, quote, vlx)
    IN  [buyer |-> buyer.id, seller |-> seller.id, qty |-> qty, value |-> qty * price,
         buyerRawFee |-> buyerRaw, buyerFee |-> pays.fee, buyerFeeAsset |-> pays.asset,
         sellerFee |-> gives.fee, sellerFeeAsset |-> gives.asset]
===============================================================================
