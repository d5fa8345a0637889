SPECIFICATION FairSpec
CONSTANTS
    SEP = {p1}
    NoSep = NoSep
    Auth = {"granted", "asked", "error"}
    Requests = {"DISCOVER", "SETCONF"}
    MaxHeld = 1
    MaxQueue = 1
    MaxRemoteSeps = 1
    MaxConnects = 2
    MaxAuths = 2
INVARIANTS RefExact
PROPERTIES CloseEnds
CHECK_DEADLOCK FALSE
