SPECIFICATION Spec
CONSTANTS
    Attempts = {a1, a2}
    Keys = {k1}
    Bodies = {b1, b2}
    Controls = {halt}
    NoKey = NoKey
    None = None
    MaxCalls = 2
    MaxFaults = 2
SYMMETRY Interchangeable
INVARIANTS HandledOnce SameAnswer EnteredOnce AcknowledgedNotLost ProcessingHasOwner
PROPERTIES ControlsHold
CHECK_DEADLOCK FALSE
