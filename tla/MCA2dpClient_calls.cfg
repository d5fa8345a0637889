SPECIFICATION FairSpec
CONSTANTS
    Sinks = {h1, h2}
    AnySink = AnySink
    Torn = Torn
    None = None
    Usecs = {0, 999999}
    Spurious = TRUE
INVARIANTS TypeOK DescriptorsOwned StartedConfigured
PROPERTIES WriteReturns CleanupFrees
CHECK_DEADLOCK FALSE
