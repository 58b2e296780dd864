SPECIFICATION Spec
CONSTANTS
    alice = alice
    bob = bob
    carol = carol
    b1 = b1
    b2 = b2
    s1 = s1
    s2 = s2
    st = st
    fk = fk
    NoOrder = NoOrder
    Orders = {b1, b2, s1, s2, st, fk}
    Order <- MCOrder
    Users <- MCUsers
    Prices <- MCPrices
    STPModes = {"CANCEL_OLDEST", "CANCEL_BOTH", "ALLOW"}
    Bridged = {b1}
INVARIANTS BookWellFormed NotCrossed FillsMatchTrades TradesWithinLimits FillOrKill
PROPERTIES PriceTimePriority
CHECK_DEADLOCK FALSE
