SPECIFICATION Spec
CONSTANTS
    Sinks = {h1, h2}
    AnySink = AnySink
    Torn = Torn
    None = None
    Usecs = {0}
    Spurious = FALSE
SYMMETRY Symmetry
INVARIANTS EncoderExclusive
CHECK_DEADLOCK FALSE
