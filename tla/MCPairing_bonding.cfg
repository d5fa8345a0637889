SPECIFICATION FairSpec
CONSTANTS
    d1 = d1
    d2 = d2
    Device = {d1, d2}
    Wanted = {d1}
    Keyboard = {d1}
    Display = {d1}
    Retrying = {d1}
    Default = Default
    MaxAuth = 2
INVARIANTS TypeOK NoStray AnswerOnce Answered Withdrawable
PROPERTY BondingEnds
CHECK_DEADLOCK FALSE
