SPECIFICATION Spec
CONSTANTS
    Attempts = {a1, a2}
    Keys = {k1}
    Bodies = {b1, b2}
    Controls = {halt}
    NoKey = NoKey
    None = None
    MaxCalls = 0
    MaxFaults = 1
SYMMETRY Interchangeable
INVARIANTS ConfirmedBeforeAcknowledged
CHECK_DEADLOCK FALSE
