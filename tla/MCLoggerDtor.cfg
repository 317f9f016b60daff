\* One message, logged before the logger is destroyed.
CONSTANTS
    Msgs = {a}
    FLUSH_SIZE = 4
    MaxFiles = 1
    SwitchLate = FALSE
SPECIFICATION Spec
INVARIANT DtorFlushes
CHECK_DEADLOCK FALSE
