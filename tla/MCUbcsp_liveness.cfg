SPECIFICATION FairSpec
CONSTANTS
    End = {a, b}
    Data = {x}
    None = None
    SEQ = 2
    ReliableSenders = {a, b}
    UnreliableSenders = {}
    Patient = {a, b}
    Noise = {"lost"}
    MaxLine = 1
    MaxRestarts = 0
PROPERTIES Established Confirmed
