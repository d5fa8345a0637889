SPECIFICATION Spec
CONSTANTS
    End = {a, b}
    Data = {x}
    None = None
    SEQ = 2
    ReliableSenders = {a}
    UnreliableSenders = {}
    Patient = {}
    Noise = {}
    MaxLine = 1
    MaxRestarts = 1
INVARIANTS TypeOK FrameCurrent
CHECK_DEADLOCK FALSE
