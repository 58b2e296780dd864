SPECIFICATION Spec
CONSTANTS
    w1 = w1
    w2 = w2
    g1 = g1
    g2 = g2
    Ids = {w1, w2}
    Replicas = {g1, g2}
    Host <- MCHost
    Amount <- MCAmount
    Tiers = {"STANDARD"}
    RecentDeposits = 3
    NewDeposits = 1
    MaxFaults = 1
    MaxCrashes = 1
INVARIANTS RecordedBeforeSent StatusIsTrue LimitsHold
PROPERTIES EventuallyResolved
CHECK_DEADLOCK FALSE
