\* Two timers, one-shot or repeated, set and cancelled by any thread.
CONSTANTS
    Timers = {a, b}
    Delays = {0, 1, 2}
    Intervals = {0, 1}
    MaxTime = 3
    Slack = 4
SPECIFICATION FairSpec
INVARIANT ArmedForEarliest
PROPERTIES FiresWhenDue CancelIsFinal TimerFires
CHECK_DEADLOCK FALSE
