\* One connection with everything around it: the user calls all there is in callbacks
\* and in other threads, keeps pointers and drops them, the peer closes or resets,
\* the server is started twice and destroyed.  The socket takes what is written.
CONSTANTS
    Conns = {c1}
    SubLoops = {s1}
    Main = m
    NoConn = NoConn
    Keep = TRUE
    Outside = TRUE
    Calls = {"send", "shutdown", "close", "closeInNextLoop"}
    MaxCalls = 2
    Drain = TRUE
    Resets = TRUE
    DestroyServer = TRUE
SPECIFICATION FairSpec
INVARIANTS NoDangling AssertionsHold RegisteredIsAlive CallbacksPaired
PROPERTIES FlushedBeforeClose PeerCloseReleases
