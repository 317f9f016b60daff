\* Three channels; the event list starts with room for one and doubles twice.
CONSTANTS
    Channels = {f1, f2, f3}
    Absent = Absent
    kInitEventListSize = 1
    MaxListSize = 4
SPECIFICATION Spec
INVARIANTS CtlNeverFails MirrorsKernel
PROPERTY ImplementsPoller
\* An assertion on the caller ends the process.
CHECK_DEADLOCK FALSE
