SPECIFICATION Spec
CONSTANTS
    bob = bob
    t1 = t1
    t2 = t2
    NoRow = NoRow
    Txs = {t1, t2}
    Users = {bob}
    Workers = {w1, w2}
    Recipient <- MCRecipient
    Amount <- MCAmount
    Opening <- MCOpening
    Threshold = 2
    Window = 1
    PoolSize = 1
    MaxBlock = 3
    MaxFaults = 1
INVARIANTS TypeOK CreditedOnce ConfirmedMeansCredited NoDepositMissed
PROPERTIES EventuallyCredited
CHECK_DEADLOCK FALSE
