\* Two sub-loops, two connections each: next_ wraps around twice.
CONSTANTS
    N = 2
    MaxConns = 2
SPECIFICATION PoolFairSpec
INVARIANTS Balanced ReturnedMeansStopped
PROPERTIES GivenIsEstablished PoolQuitReturns
