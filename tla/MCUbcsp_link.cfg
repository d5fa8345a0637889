SPECIFICATION Spec
CONSTANTS
    End = {a, b}
    Data = {x}
    None = None
    SEQ = 4
    ReliableSenders = {a, b}
    UnreliableSenders = {a}
    Patient = {a, b}
    Noise = {"damaged", "lost"}
    MaxLine = 1
    MaxRestarts = 0
PROPERTIES ReliableDelivery
