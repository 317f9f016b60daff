\* Three channels: the one removed is the first, a middle or the last entry.
CONSTANTS
    Fds = {1, 2, 3}
    Absent = Absent
SPECIFICATION Spec
INVARIANT PlacesAgree
PROPERTY ImplementsPoller
\* An assertion on the caller ends the process.
CHECK_DEADLOCK FALSE
