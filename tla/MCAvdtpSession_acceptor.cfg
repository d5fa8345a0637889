SPECIFICATION Spec
CONSTANTS
    SEP = {p1, p2}
    NoSep = NoSep
    Auth = {"granted"}
    Requests = {}
    MaxHeld = 1
    MaxQueue = 1
    MaxRemoteSeps = 1
    MaxConnects = 1
    MaxAuths = 1
SYMMETRY Symmetry
INVARIANTS TypeOK StreamTable StreamsLinked
CHECK_DEADLOCK FALSE
