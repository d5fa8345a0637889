SPECIFICATION Spec
CONSTANTS
    End = {a, b}
    Data = {x}
    None = None
    SEQ = 3
    ReliableSenders = {a}
    UnreliableSenders = {}
    Patient = {a, b}
    Noise = {}
    MaxLine = 1
    MaxRestarts = 1
PROPERTIES AckMeansSent
CHECK_DEADLOCK FALSE
