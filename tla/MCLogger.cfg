\* Three messages; the log file is chosen before anything is logged and rotated
\* twice.
CONSTANTS
    Msgs = {a, b, c}
    FLUSH_SIZE = 4
    MaxFiles = 3
    SwitchLate = FALSE
SPECIFICATION FairSpec
INVARIANTS NothingLost InOneFile
PROPERTIES MessageIsWritten DtorReturns
CHECK_DEADLOCK FALSE
