\* Another thread sends through a pointer it keeps, and drops it.
CONSTANTS
    Conns = {c1}
    SubLoops = {s1}
    Main = m
    NoConn = NoConn
    Keep = TRUE
    Outside = TRUE
    Calls = {"send"}
    MaxCalls = 1
    Drain = FALSE
    Resets = FALSE
    DestroyServer = FALSE
SPECIFICATION Spec
INVARIANT ThreadSafe
