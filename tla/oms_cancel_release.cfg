SPECIFICATION Spec
CONSTANTS
    alice = alice
    bob = bob
    carol = carol
    b1 = b1
    s1 = s1
    s2 = s2
    st = st
    NoOrder = NoOrder
    Orders = {b1, s1}
    Order <- MCOrder
    Users <- MCUsers
    Prices <- MCPrices
    STPModes = {}
    Bridged = {}
    Replaces <- MCReplaces
INVARIANTS NeverOverReleased
CHECK_DEADLOCK FALSE
