-------------------------------- MODULE Matcher --------------------------------
(***************************************************************************)
(* The order book of one market: engine.Matcher.  MatchOrder runs under    *)
(* the mutex of the matcher; the model takes one step per iteration of its *)
(* loops, taker being the order whose call holds the mutex.  Stop orders   *)
(* that a trade triggers re-enter MatchOrder in goroutines of their own.   *)
(* Prices and quantities are integers (ticks and steps).                   *)
(***************************************************************************)
EXTENDS Integers, Sequences, FiniteSets, FiniteSetsExt, SequencesExt

CONSTANTS
    Orders,      \* order identifiers
    Order,       \* [Orders -> OrderData], the fields of types.Order
    Users,
    Prices,      \* a finite set of positive integers
    STPModes,    \* the modes SetSTPMode is called with
    Bridged,     \* orders the router takes off the book for the liquidity bridge
    NoOrder      \* no call of MatchOrder holds the mutex

Sides == {"BUY", "SELL"}
Modes == {"CANCEL_NEWEST", "CANCEL_OLDEST", "CANCEL_BOTH", "ALLOW"}
Kinds == {"LIMIT", "MARKET", "STOP", "TAKE_PROFIT"}
OrderData ==
    [user : Users, side : Sides, kind : Kinds, price : Prices, qty : Nat \ {0},
     tif : {"GTC", "IOC", "FOK"}, postOnly : BOOLEAN]
Statuses == {"NEW", "PARTIALLY_FILLED", "FILLED", "CANCELLED", "REJECTED"}
Trade    == [maker : Orders, taker : Orders, price : Prices, qty : Int]

(* The combinations ValidateTradingRules lets through. *)
MatcherConstants ==
    /\ Order \in [Orders -> OrderData]
    /\ Prices \subseteq Nat \ {0}
    /\ STPModes \subseteq Modes
    /\ Bridged \subseteq Orders
    /\ NoOrder \notin Orders
    /\ \A o \in Orders : Order[o].postOnly => Order[o].kind # "MARKET" /\ Order[o].tif = "GTC"

ASSUME MatcherAssumption == MatcherConstants

VARIABLES
    levels,     \* [Sides -> SUBSET Prices], the MatchLimits of Bids and Asks
    queue,      \* [Sides -> [Prices -> Seq(Orders)]], MatchLimit.Orders
    stops,      \* StopOrders
    filled,     \* FilledQty
    status,     \* Status
    lastPrice,  \* LastPrice, 0 before the first trade
    seq,        \* SequenceNum
    stpMode,    \* STPMode
    taker,      \* the order whose MatchOrder holds the mutex
    triggered,  \* stop orders whose goroutine waits for the mutex
    fresh,      \* orders the router has not handed over yet
    toBridge,   \* orders still to be offered to the liquidity bridge
    offBook,    \* orders the router holds off the book for the bridge
    trades,     \* every trade so far, in order
    entry       \* seq when the order was last put on the book

book == <<levels, queue>>
vars == <<levels, queue, stops, filled, status, lastPrice, seq, stpMode, taker,
          triggered, fresh, toBridge, offBook, trades, entry>>
bridge == <<toBridge, offBook>>

TypeOK ==
    /\ levels \in [Sides -> SUBSET Prices]
    /\ queue \in [Sides -> [Prices -> Seq(Orders)]]
    /\ stops \in SUBSET Orders
    /\ filled \in [Orders -> Int]
    /\ status \in [Orders -> Statuses]
    /\ lastPrice \in Prices \cup {0}
    /\ seq \in Nat
    /\ stpMode \in Modes
    /\ taker \in Orders \cup {NoOrder}
    /\ triggered \in SUBSET Orders
    /\ fresh \in SUBSET Orders
    /\ toBridge \in SUBSET Orders
    /\ offBook \in SUBSET Orders
    /\ trades \in Seq(Trade)
    /\ entry \in [Orders -> Nat]

Init ==
    /\ levels = [s \in Sides |-> {}]
    /\ queue = [s \in Sides |-> [p \in Prices |-> <<>>]]
    /\ stops = {}
    /\ filled = [o \in Orders |-> 0]
    /\ status = [o \in Orders |-> "NEW"]
    /\ lastPrice = 0
    /\ seq = 0
    /\ stpMode = "CANCEL_NEWEST"
    /\ taker = NoOrder
    /\ triggered = {}
    /\ fresh = Orders
    /\ toBridge = Bridged
    /\ offBook = {}
    /\ trades = <<>>
    /\ entry = [o \in Orders |-> 0]

-------------------------------------------------------------------------------
(* Reading the book *)

Opposite(side)     == IF side = "BUY" THEN "SELL" ELSE "BUY"
Better(side, p, q) == IF side = "BUY" THEN p > q ELSE p < q
Remaining(o)       == Order[o].qty - filled[o]
IsStop(o)          == Order[o].kind \in {"STOP", "TAKE_PROFIT"}

(* A stop order has become a LIMIT order by the time it reaches MatchOrder. *)
IsLimit(o) == Order[o].kind # "MARKET"

(* Orders on one side of the book. *)
Resting(side) == UNION {Range(queue[side][p]) : p \in Prices}

(* The first MatchLimit of a side that has one. *)
BestLevel(side) ==
    CHOOSE p \in levels[side] : \A q \in levels[side] : p = q \/ Better(side, p, q)

(* An order at price p on the opposite side is within the limit of o. *)
Within(o, p) == ~Better(Opposite(Order[o].side), Order[o].price, p)

(* Mutant: the order is killed only when nothing at all is in reach. *)
BugKillOnlyIfEmpty(o) ==
    /\ IsLimit(o)
    /\ Order[o].tif = "FOK"
    /\ \A m \in Resting(Opposite(Order[o].side)) : ~Within(o, Order[m].price)

(* isFOK: what is in reach on the other side does not cover the order.  Orders *)
(* of the same user count as depth.                                            *)
IsFOK(o) ==
    /\ IsLimit(o)
    /\ Order[o].tif = "FOK"
    /\ LET reach == {m \in Resting(Opposite(Order[o].side)) : Within(o, Order[m].price)}
       IN  SumFunction([m \in reach |-> Remaining(m)]) < Remaining(o)

(* Mutant: an order at the best price itself passes. *)
BugPostOnlyTouching(o) ==
    LET other == Opposite(Order[o].side) IN
    /\ Order[o].postOnly
    /\ levels[other] # {}
    /\ Better(other, BestLevel(other), Order[o].price)

(* isPostOnlyCrossing: compares with the first level, empty or not. *)
IsPostOnlyCrossing(o) ==
    LET other == Opposite(Order[o].side) IN
    /\ Order[o].postOnly
    /\ levels[other] # {}
    /\ Within(o, BestLevel(other))

(* Mutant: orders at equal prices do not match. *)
BugStrictCross(o) ==
    LET other == Opposite(Order[o].side) IN
    /\ Remaining(o) > 0
    /\ levels[other] # {}
    /\ IsLimit(o) => Better(other, BestLevel(other), Order[o].price)

(* The condition under which the outer loop of MatchOrder goes on. *)
Matching(o) ==
    LET other == Opposite(Order[o].side) IN
    /\ Remaining(o) > 0
    /\ levels[other] # {}
    /\ IsLimit(o) => Within(o, BestLevel(other))

(* The stop orders a trade at price p triggers. *)
Fires(o, p) ==
    LET atOrAbove == p >= Order[o].price
        atOrBelow == p <= Order[o].price
    IN  IF (Order[o].kind = "TAKE_PROFIT") = (Order[o].side = "BUY")
        THEN atOrBelow ELSE atOrAbove

-------------------------------------------------------------------------------
(* Changing the book *)

(* Mutant: the order jumps the queue. *)
BugJumpsQueue(o) ==
    LET side == Order[o].side
        p    == Order[o].price
    IN  /\ levels' = [levels EXCEPT ![side] = @ \cup {p}]
        /\ queue' = [queue EXCEPT ![side][p] = <<o>> \o @]
        /\ seq' = seq + 1
        /\ entry' = [entry EXCEPT ![o] = seq + 1]

(* addOrderToBook: at the back of its level, which is created when missing. *)
AddOrderToBook(o) ==
    LET side == Order[o].side
        p    == Order[o].price
    IN  /\ levels' = [levels EXCEPT ![side] = @ \cup {p}]
        /\ queue' = [queue EXCEPT ![side][p] = Append(@, o)]
        /\ seq' = seq + 1
        /\ entry' = [entry EXCEPT ![o] = seq + 1]

(* Mutant: an emptied level stays. *)
BugKeepsLevel(side, p, q) ==
    /\ queue' = [queue EXCEPT ![side][p] = q]
    /\ UNCHANGED levels

(* The queue at (side, p) becomes q; an emptied level is removed. *)
Requeue(side, p, q) ==
    /\ queue' = [queue EXCEPT ![side][p] = q]
    /\ levels' = [levels EXCEPT ![side] = IF q = <<>> THEN @ \ {p} ELSE @]

StatusAfter(o, qty) == IF filled[o] + qty = Order[o].qty THEN "FILLED" ELSE "PARTIALLY_FILLED"

-------------------------------------------------------------------------------
(* MatchOrder *)

(* The router, or the goroutine of a triggered stop, gets the mutex for o. *)
Calls(o) ==
    /\ taker = NoOrder
    /\ \/ o \in fresh /\ ~IsStop(o)
       \/ o \in triggered
    /\ fresh' = fresh \ {o}
    /\ triggered' = triggered \ {o}

Reject(o) ==
    /\ Calls(o)
    /\ IsFOK(o) \/ IsPostOnlyCrossing(o)
    /\ status' = [status EXCEPT ![o] = "REJECTED"]
    /\ UNCHANGED <<levels, queue, stops, filled, lastPrice, seq, stpMode, taker, bridge,
                   trades, entry>>

Enter(o) ==
    /\ Calls(o)
    /\ ~IsFOK(o)
    /\ ~IsPostOnlyCrossing(o)
    /\ taker' = o
    /\ UNCHANGED <<levels, queue, stops, filled, status, lastPrice, seq, stpMode, bridge,
                   trades, entry>>

(* The inner loop looks at order m at the front of the best level p. *)
Meets(o, m, p) ==
    LET other == Opposite(Order[o].side) IN
    /\ taker = o
    /\ Matching(o)
    /\ p = BestLevel(other)
    /\ queue[other][p] # <<>>
    /\ m = Head(queue[other][p])

SelfTrade(o, m) == Order[o].user = Order[m].user

(* The loop visits a level that CANCEL_BOTH left empty and removes it. *)
DropEmptyLevel(o) ==
    LET other == Opposite(Order[o].side) IN
    /\ taker = o
    /\ Matching(o)
    /\ queue[other][BestLevel(other)] = <<>>
    /\ levels' = [levels EXCEPT ![other] = @ \ {BestLevel(other)}]
    /\ UNCHANGED <<queue, stops, filled, status, lastPrice, seq, stpMode, taker, triggered,
                   fresh, bridge, trades, entry>>

CancelNewest(o, m, p) ==
    /\ Meets(o, m, p)
    /\ SelfTrade(o, m)
    /\ stpMode = "CANCEL_NEWEST"
    /\ status' = [status EXCEPT ![o] = "CANCELLED"]
    /\ taker' = NoOrder
    /\ UNCHANGED <<levels, queue, stops, filled, lastPrice, seq, stpMode, triggered, fresh,
                   bridge, trades, entry>>

CancelOldest(o, m, p) ==
    LET other == Opposite(Order[o].side) IN
    /\ Meets(o, m, p)
    /\ SelfTrade(o, m)
    /\ stpMode = "CANCEL_OLDEST"
    /\ status' = [status EXCEPT ![m] = "CANCELLED"]
    /\ Requeue(other, p, Tail(queue[other][p]))
    /\ UNCHANGED <<stops, filled, lastPrice, seq, stpMode, taker, triggered, fresh, bridge,
                   trades, entry>>

(* Returns from inside the loop: the level stays even if it is empty now. *)
CancelBoth(o, m, p) ==
    LET other == Opposite(Order[o].side) IN
    /\ Meets(o, m, p)
    /\ SelfTrade(o, m)
    /\ stpMode = "CANCEL_BOTH"
    /\ status' = [status EXCEPT ![o] = "CANCELLED", ![m] = "CANCELLED"]
    /\ queue' = [queue EXCEPT ![other][p] = Tail(@)]
    /\ taker' = NoOrder
    /\ UNCHANGED <<levels, stops, filled, lastPrice, seq, stpMode, triggered, fresh, bridge,
                   trades, entry>>

(* Mutant: the maker gives more than it has. *)
BugWholeTaker(o, m) == Remaining(o)

MatchQty(o, m) == Min({Remaining(o), Remaining(m)})

(* One trade between the taker o and the maker m at the price of the level; the *)
(* new last price triggers stop orders.                                         *)
Fill(o, m, p) ==
    LET other == Opposite(Order[o].side)
        q     == queue[other][p]
        qty   == MatchQty(o, m)
        fired == {s \in stops : Fires(s, p)}
    IN  /\ Meets(o, m, p)
        /\ SelfTrade(o, m) => stpMode = "ALLOW"
        /\ filled' = [filled EXCEPT ![o] = @ + qty, ![m] = @ + qty]
        /\ status' = [status EXCEPT ![o] = StatusAfter(o, qty), ![m] = StatusAfter(m, qty)]
        /\ Requeue(other, p, IF Remaining(m) = qty THEN Tail(q) ELSE q)
        /\ seq' = seq + 1
        /\ trades' = Append(trades, [maker |-> m, taker |-> o, price |-> p, qty |-> qty])
        /\ lastPrice' = p
        /\ stops' = stops \ fired
        /\ triggered' = triggered \cup fired
        /\ UNCHANGED <<stpMode, taker, fresh, bridge, entry>>

(* After the loop: an IOC remainder is cancelled, a LIMIT remainder rests, any *)
(* other remainder is dropped.                                                 *)
CancelRemainder(o) ==
    /\ taker = o
    /\ ~Matching(o)
    /\ Remaining(o) > 0
    /\ Order[o].tif = "IOC"
    /\ status' = [status EXCEPT ![o] = "CANCELLED"]
    /\ taker' = NoOrder
    /\ UNCHANGED <<levels, queue, stops, filled, lastPrice, seq, stpMode, triggered, fresh,
                   bridge, trades, entry>>

Rest(o) ==
    /\ taker = o
    /\ ~Matching(o)
    /\ Remaining(o) > 0
    /\ Order[o].tif # "IOC"
    /\ IsLimit(o)
    /\ AddOrderToBook(o)
    /\ taker' = NoOrder
    /\ UNCHANGED <<stops, filled, status, lastPrice, stpMode, triggered, fresh, bridge, trades>>

Return(o) ==
    /\ taker = o
    /\ ~Matching(o)
    /\ Remaining(o) = 0 \/ (~IsLimit(o) /\ Order[o].tif # "IOC")
    /\ taker' = NoOrder
    /\ UNCHANGED <<levels, queue, stops, filled, status, lastPrice, seq, stpMode, triggered,
                   fresh, bridge, trades, entry>>

-------------------------------------------------------------------------------
(* The other operations *)

AddStopOrder(o) ==
    /\ taker = NoOrder
    /\ o \in fresh
    /\ IsStop(o)
    /\ fresh' = fresh \ {o}
    /\ stops' = stops \cup {o}
    /\ UNCHANGED <<levels, queue, filled, status, lastPrice, seq, stpMode, taker, triggered,
                   bridge, trades, entry>>

(* CancelOrder looks among the stop orders, then in the book.  An order that is *)
(* in neither (a triggered stop waiting for the mutex, say) is not found.       *)
CancelStopOrder(o) ==
    /\ taker = NoOrder
    /\ o \in stops
    /\ stops' = stops \ {o}
    /\ seq' = seq + 1
    /\ UNCHANGED <<levels, queue, filled, status, lastPrice, stpMode, taker, triggered, fresh,
                   bridge, trades, entry>>

RemoveFromLimits(o) ==
    /\ taker = NoOrder
    /\ \E side \in Sides, p \in Prices : \E j \in DOMAIN queue[side][p] :
           /\ queue[side][p][j] = o
           /\ Requeue(side, p, RemoveAt(queue[side][p], j))
    /\ seq' = seq + 1
    /\ UNCHANGED <<stops, filled, status, lastPrice, stpMode, taker, triggered, fresh,
                   trades, entry>>

CancelOrder(o) == RemoveFromLimits(o) /\ UNCHANGED bridge

(* The router takes an order that rests off the book, once, to offer it to the   *)
(* liquidity bridge.  No service sets a bridge: only tests reach this.  Left out *)
(* are the provider's fills, which change FilledQty without the mutex, and that  *)
(* the router goes on when CancelOrder finds nothing, so that an order cancelled *)
(* since MatchOrder returned would be put on the book again ...                  *)
OfferToBridge(o) ==
    /\ o \in toBridge
    /\ RemoveFromLimits(o)
    /\ toBridge' = toBridge \ {o}
    /\ offBook' = offBook \cup {o}

(* ... and puts it back without matching it against what arrived meanwhile. *)
AddOrderToBookDirect(o) ==
    /\ taker = NoOrder
    /\ o \in offBook
    /\ AddOrderToBook(o)
    /\ offBook' = offBook \ {o}
    /\ UNCHANGED <<stops, filled, status, lastPrice, stpMode, taker, triggered, fresh, toBridge,
                   trades>>

SetSTPMode(mode) ==
    /\ taker = NoOrder
    /\ mode # stpMode
    /\ stpMode' = mode
    /\ UNCHANGED <<levels, queue, stops, filled, status, lastPrice, seq, taker, triggered, fresh,
                   bridge, trades, entry>>

(* The call of MatchOrder for o goes on. *)
MatchStep(o) ==
    \/ DropEmptyLevel(o)
    \/ \E m \in Orders, p \in Prices : CancelNewest(o, m, p)
    \/ \E m \in Orders, p \in Prices : CancelOldest(o, m, p)
    \/ \E m \in Orders, p \in Prices : CancelBoth(o, m, p)
    \/ \E m \in Orders, p \in Prices : Fill(o, m, p)
    \/ CancelRemainder(o)
    \/ Rest(o)
    \/ Return(o)

Next ==
    \/ \E o \in Orders : Reject(o)
    \/ \E o \in Orders : Enter(o)
    \/ \E o \in Orders : MatchStep(o)
    \/ \E o \in Orders : AddStopOrder(o)
    \/ \E o \in Orders : CancelStopOrder(o)
    \/ \E o \in Orders : CancelOrder(o)
    \/ \E o \in Orders : OfferToBridge(o)
    \/ \E o \in Orders : AddOrderToBookDirect(o)
    \/ \E mode \in STPModes : SetSTPMode(mode)

Spec == Init /\ [][Next]_vars

-------------------------------------------------------------------------------
(* Properties *)

(* The variables have their types; an order is in one place only, at its own    *)
(* side and price, with something left to fill; a queue that holds an order has *)
(* its level, and a level without one is what CANCEL_BOTH left of a cancelled   *)
(* order.                                                                       *)
BookWellFormed ==
    /\ TypeOK
    /\ \A s \in Sides, p \in Prices :
           /\ queue[s][p] # <<>> => p \in levels[s]
           /\ queue[s][p] = <<>> /\ p \in levels[s] =>
                  \E o \in Orders : Order[o].side = s /\ Order[o].price = p
                                    /\ status[o] = "CANCELLED"
           /\ \A i, j \in DOMAIN queue[s][p] :
                  /\ Order[queue[s][p][i]].side = s
                  /\ Order[queue[s][p][i]].price = p
                  /\ Remaining(queue[s][p][i]) > 0
                  /\ queue[s][p][i] = queue[s][p][j] => i = j
    /\ \A o \in Resting("BUY") \cup Resting("SELL") :
           o \notin stops \cup triggered \cup fresh \cup offBook \cup {taker}
    /\ stops \cap triggered = {}

(* Orders the router has put back on the book after the liquidity bridge. *)
PutBack == Bridged \ (toBridge \cup offBook)

(* Whenever the mutex is free no resting buy meets a resting sell: MatchOrder     *)
(* leaves nothing it should have matched, whatever modifier or STP mode ended it. *)
(* Only an order that AddOrderToBookDirect put back may cross the other side.     *)
NotCrossed ==
    taker = NoOrder =>
        \A b \in Resting("BUY") \ PutBack, s \in Resting("SELL") \ PutBack :
            Order[b].price < Order[s].price

(* FilledQty of every order is what its trades add up to, and never more than   *)
(* its quantity.                                                                *)
FillsMatchTrades ==
    \A o \in Orders :
        LET mine == {i \in DOMAIN trades : o \in {trades[i].maker, trades[i].taker}}
        IN  /\ filled[o] = SumFunction([i \in mine |-> trades[i].qty])
            /\ filled[o] <= Order[o].qty

(* Price-time priority: the maker of a trade is the order that was put on the   *)
(* book first among those with the best price of its side.                      *)
PriceTimePriority ==
    [][trades' # trades =>
          LET m    == Last(trades').maker
              side == Order[m].side
          IN  /\ Len(trades') = Len(trades) + 1
              /\ \A r \in Resting(side) \ {m} :
                     \/ Better(side, Order[m].price, Order[r].price)
                     \/ Order[m].price = Order[r].price /\ entry[m] < entry[r]]_vars

(* No trade is outside the limit of a LIMIT order on either side of it, and a   *)
(* post-only order is never the taker.                                          *)
TradesWithinLimits ==
    \A i \in DOMAIN trades :
        LET t == trades[i] IN
        /\ t.price = Order[t.maker].price
        /\ IsLimit(t.taker) => Within(t.taker, t.price)
        /\ ~Order[t.taker].postOnly
        /\ Order[t.maker].side # Order[t.taker].side

(* Fill Or Kill: an order with that modifier has traded its whole quantity or   *)
(* nothing once MatchOrder has returned, and does not rest.  The exception is a *)
(* user with orders on both sides: isFOK counts their own orders as depth and   *)
(* self-trade prevention then refuses them.                                     *)
FillOrKill ==
    \A o \in Orders :
        Order[o].tif = "FOK" /\ IsLimit(o) /\ taker # o =>
            \/ filled[o] \in {0, Order[o].qty} /\ o \notin Resting(Order[o].side)
            \/ \E m \in Orders \ fresh : SelfTrade(o, m) /\ Order[m].side # Order[o].side
===============================================================================
