SPECIFICATION Spec
CONSTANTS
    Sinks = {h1, h2}
    AnySink = AnySink
    Torn = Torn
    None = None
    Usecs = {0, 499999, 500000}
    Spurious = FALSE
SYMMETRY Symmetry
INVARIANTS WaitsOut
CHECK_DEADLOCK FALSE
