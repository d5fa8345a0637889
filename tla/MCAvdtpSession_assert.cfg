SPECIFICATION Spec
CONSTANTS
    SEP = {p1}
    NoSep = NoSep
    Auth = {"granted"}
    Requests = {"DISCOVER"}
    MaxHeld = 1
    MaxQueue = 1
    MaxRemoteSeps = 1
    MaxConnects = 1
    MaxAuths = 1
INVARIANTS RefAssertion
CHECK_DEADLOCK FALSE
