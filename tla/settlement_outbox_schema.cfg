SPECIFICATION Spec
CONSTANTS
    alice = alice
    bob = bob
    platform_fees = platform_fees
    BTC = BTC
    USDT = USDT
    VLX = VLX
    t1 = t1
    t2 = t2
    Users <- MCUsers
    Assets <- MCAssets
    Base = BTC
    Quote = USDT
    Platform = platform_fees
    Trades <- MCTrades
    OpenRows <- MCOpenRows
    Opening <- MCOpening
    Exec <- MCExec
    Workers = {w1, w2}
    MaxRetries = 1
    OutboxTables = {FALSE}
    MaxFaults = 0
    MaxCrashes = 1
INVARIANT QueuedJobDurable
CHECK_DEADLOCK FALSE
