SPECIFICATION Spec
CONSTANTS
    alice = alice
    bob = bob
    h1 = h1
    h2 = h2
    k1 = k1
    IP = IP
    NoUser = NoUser
    Users = {alice, bob}
    Handlers = {h1, h2}
    Sids = {1, 2}
    Keys = {k1}
    Nonces = {1}
    MaxSessions = 1
    MaxFailures = 2
    MaxSeconds = 1
    MaxRequests = 4
    MaxFaults = 1
INVARIANTS RevocationIsFinal LiveTokenNotMarked SessionCap LockoutCounts SignedOnce
SYMMETRY Interchangeable
CHECK_DEADLOCK FALSE
