\* One thread loops, another one calls into the loop and stops it; both may
\* restart it once the last loop() has returned.
CONSTANTS
    Threads = {t1, t2}
    Loopers = {t1, t2}
    Quitters = {t1, t2}
    Tasks = {k1, k2, k3}
    LibTasks = {k1}
    IoChannels = {io}
    LibChannels = {io}
    RegTask = reg
    WakeupChannel = wk
    NoThread = nothread
    NoTask = notask
    JoinFirst = TRUE
SPECIFICATION FairSpec
INVARIANTS TypeOK NoLostWakeup AbortOnlyAfterQuit
PROPERTIES ImplementsExecutor QueuedTaskRuns QuitReturns TimeoutEndsLoop
