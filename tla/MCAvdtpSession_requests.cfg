SPECIFICATION Spec
CONSTANTS
    SEP = {p1}
    NoSep = NoSep
    Auth = {"granted"}
    Requests = {"DISCOVER", "GETCONF", "SETCONF", "RECONF", "OPEN", "START", "SUSPEND", "CLOSE", "ABORT"}
    MaxHeld = 1
    MaxQueue = 1
    MaxRemoteSeps = 1
    MaxConnects = 1
    MaxAuths = 1
INVARIANTS NoUseAfterFree StreamTable ReclaimedClean Unreferenced
CHECK_DEADLOCK FALSE
