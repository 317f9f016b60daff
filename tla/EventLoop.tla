------------------------------ MODULE EventLoop ------------------------------
(***************************************************************************)
(* miniduo::EventLoop (EventLoop.h, EventLoop.cpp): the thread that calls  *)
(* loop() alternates between the queued tasks, epoll_wait and the channel  *)
(* callbacks, while any thread calls runInLoop, queueInLoop and quit.      *)
(*                                                                         *)
(* stoplooping_ is atomic and tid_ a plain int that only the thread inside *)
(* loop() writes; a thread compares it with its own id, so an old or a new *)
(* value of tid_ gives it the same answer.  mutex_ makes the push_back and *)
(* the swap single steps; everything else interleaves statement by         *)
(* statement.  assertInLoopThread aborts the process: aborted freezes the  *)
(* whole state.                                                            *)
(***************************************************************************)
EXTENDS Sequences

CONSTANTS
    Threads,        \* the threads of the process
    Loopers,        \* those that call loop()
    Quitters,       \* those that call quit()
    Tasks,          \* what callers hand to runInLoop / queueInLoop, each once
    LibTasks,       \* the tasks that begin with assertInLoopThread()
    IoChannels,     \* the channels other than wakeupChannel_
    LibChannels,    \* those whose handler begins with assertInLoopThread()
    RegTask,        \* the registrations the constructor queues
    WakeupChannel,
    NoThread,       \* tid_ == -1
    NoTask,
    JoinFirst       \* loop() is called only once the last loop() returned; else
                    \* the last one is up, and may still be on its way out

ASSUME SetAssumption ==
    /\ Loopers \subseteq Threads
    /\ Quitters \subseteq Threads
    /\ LibTasks \subseteq Tasks
    /\ LibChannels \subseteq IoChannels

ASSUME ValueAssumption ==
    /\ NoThread \notin Threads
    /\ RegTask \notin Tasks
    /\ NoTask \notin Tasks \cup {RegTask}
    /\ WakeupChannel \notin IoChannels
    /\ JoinFirst \in BOOLEAN

VARIABLES
    stoplooping,    \* stoplooping_
    tid,            \* tid_
    pendingTasks,   \* pendingTasks_
    wakeupFd,       \* the counter of wakeupFd_ is not zero
    registered,     \* wakeupChannel_ is in the poller
    activeChannels, \* activeChannels_ still to be handled
    pc,             \* where each thread is in loop()
    batch,          \* what is left of doPendingTasks' local vector
    cb,             \* the thread is inside a task or a channel callback
    op,             \* how far the thread is in runInLoop, queueInLoop, quit
    arg,            \* the task that call carries
    issued,         \* the tasks handed over so far
    executed,       \* the tasks executed, in order
    aborted         \* abort() was called

callVars == <<op, arg, issued>>
loopVars == <<stoplooping, tid, pc>>
queueVars == <<pendingTasks, batch, executed>>
pollVars == <<wakeupFd, registered, activeChannels>>
vars == <<loopVars, queueVars, pollVars, callVars, cb, aborted>>

AllTasks == Tasks \cup {RegTask}
Body == {"while", "swap", "tasks", "poll", "events", "leave"}
PC == {"out", "settid", "start", "entry"} \cup Body

\* The types of the loop's members and of what each thread is doing.  A task
\* that was moved out of a call (arg) is never pushed or executed again.
TypeOK ==
    /\ stoplooping \in BOOLEAN
    /\ tid \in Threads \cup {NoThread}
    /\ pendingTasks \in Seq(AllTasks)
    /\ wakeupFd \in BOOLEAN
    /\ registered \in BOOLEAN
    /\ activeChannels \in SUBSET (IoChannels \cup {WakeupChannel})
    /\ pc \in [Threads -> PC]
    /\ batch \in [Threads -> Seq(AllTasks)]
    /\ cb \in [Threads -> BOOLEAN]
    /\ op \in [Threads -> {"none", "push", "wakeup", "exec"}]
    /\ arg \in [Threads -> AllTasks \cup {NoTask}]
    /\ issued \in SUBSET Tasks
    /\ executed \in Seq(AllTasks)
    /\ aborted \in BOOLEAN

(***************************************************************************)
(* EventLoop::EventLoop: not looping; the constructor's addChannel and     *)
(* enableReading of the wakeup and of the timer channel go through         *)
(* runInLoop, are queued because nobody is looping, and each of them       *)
(* writes wakeupFd_.                                                       *)
(***************************************************************************)
Init ==
    /\ stoplooping = TRUE
    /\ tid = NoThread
    /\ pendingTasks = <<RegTask>>
    /\ wakeupFd = TRUE
    /\ registered = FALSE
    /\ activeChannels = {}
    /\ pc = [t \in Threads |-> "out"]
    /\ batch = [t \in Threads |-> <<>>]
    /\ cb = [t \in Threads |-> FALSE]
    /\ op = [t \in Threads |-> "none"]
    /\ arg = [t \in Threads |-> NoTask]
    /\ issued = {}
    /\ executed = <<>>
    /\ aborted = FALSE

IsInLoopThread(t) == ~stoplooping /\ tid = t

Abort ==
    /\ aborted' = TRUE
    /\ UNCHANGED <<loopVars, queueVars, pollVars, callVars, cb>>

Goto(t, l) == pc' = [pc EXCEPT ![t] = l]

(***************************************************************************)
(* EventLoop::loop                                                         *)
(***************************************************************************)
CallLoop(t) ==                                   \* assert(stoplooping_)
    /\ pc[t] = "out" /\ op[t] = "none"
    /\ \A u \in Threads : pc[u] = "out" \/ (~JoinFirst /\ pc[u] \in Body)
    /\ IF stoplooping
         THEN /\ Goto(t, "settid")
              /\ UNCHANGED <<stoplooping, tid, queueVars, pollVars, callVars, cb, aborted>>
         ELSE Abort

SetTid(t) ==
    /\ pc[t] = "settid"
    /\ tid' = t
    /\ Goto(t, "start")
    /\ UNCHANGED <<stoplooping, queueVars, pollVars, callVars, cb, aborted>>

StartLooping(t) ==
    /\ pc[t] = "start"
    /\ stoplooping' = FALSE
    /\ Goto(t, "entry")
    /\ UNCHANGED <<tid, queueVars, pollVars, callVars, cb, aborted>>

EntryAssert(t) ==                                \* assertInLoopThread()
    /\ pc[t] = "entry"
    /\ IF IsInLoopThread(t)
         THEN /\ Goto(t, "while")
              /\ UNCHANGED <<stoplooping, tid, queueVars, pollVars, callVars, cb, aborted>>
         ELSE Abort

WhileTest(t) ==
    /\ pc[t] = "while"
    /\ Goto(t, IF stoplooping THEN "leave" ELSE "swap")
    /\ UNCHANGED <<stoplooping, tid, queueVars, pollVars, callVars, cb, aborted>>

\* Bug variant: the queue is copied, not swapped away.
SwapTasksCopy(t) ==
    /\ pc[t] = "swap"
    /\ batch' = [batch EXCEPT ![t] = pendingTasks]
    /\ Goto(t, "tasks")
    /\ UNCHANGED <<stoplooping, tid, pendingTasks, executed, pollVars, callVars, cb, aborted>>

SwapTasks(t) ==
    /\ pc[t] = "swap"
    /\ batch' = [batch EXCEPT ![t] = pendingTasks]
    /\ pendingTasks' = <<>>
    /\ Goto(t, "tasks")
    /\ UNCHANGED <<stoplooping, tid, executed, pollVars, callVars, cb, aborted>>

\* A task that asserts, queued or called directly, aborts when the calling
\* thread is not (or no longer) the loop thread.
Asserting(k) == k \in LibTasks \cup {RegTask}

RunTask(t) ==
    /\ pc[t] = "tasks" /\ ~cb[t] /\ batch[t] # <<>>
    /\ LET k == Head(batch[t]) IN
       IF Asserting(k) /\ ~IsInLoopThread(t) THEN Abort
       ELSE /\ executed' = Append(executed, k)
            /\ batch' = [batch EXCEPT ![t] = Tail(batch[t])]
            /\ registered' = (registered \/ k = RegTask)
            /\ cb' = [cb EXCEPT ![t] = TRUE]
            /\ UNCHANGED <<loopVars, pendingTasks, wakeupFd, activeChannels,
                           callVars, aborted>>

TasksDone(t) ==                                  \* activeChannels_.clear()
    /\ pc[t] = "tasks" /\ ~cb[t] /\ batch[t] = <<>>
    /\ activeChannels' = {}
    /\ Goto(t, "poll")
    /\ UNCHANGED <<stoplooping, tid, queueVars, wakeupFd, registered, callVars, cb, aborted>>

\* epoll_wait is level triggered: it returns at once, and reports the wakeup
\* channel, while the eventfd's counter is not zero.
WakeupReady == registered /\ wakeupFd

PollReturn(t, chs) ==
    /\ pc[t] = "poll"
    /\ activeChannels' = chs
    /\ Goto(t, "events")
    /\ UNCHANGED <<stoplooping, tid, queueVars, wakeupFd, registered, callVars, cb, aborted>>

PollWake(t) ==
    /\ WakeupReady
    /\ \E io \in SUBSET IoChannels : PollReturn(t, io \cup {WakeupChannel})

PollIo(t) ==
    /\ ~WakeupReady
    /\ \E io \in (SUBSET IoChannels) \ {{}} : PollReturn(t, io)

\* Bug variant: no timeout is given to epoll_wait.
PollTimeoutNone(t) == FALSE /\ PollReturn(t, {})

PollTimeout(t) == ~WakeupReady /\ PollReturn(t, {})   \* kPollTimeMs elapsed

HandleWakeup(t) ==                               \* EventLoop::handleRead
    /\ pc[t] = "events" /\ ~cb[t] /\ WakeupChannel \in activeChannels
    /\ wakeupFd' = FALSE
    /\ activeChannels' = activeChannels \ {WakeupChannel}
    /\ UNCHANGED <<loopVars, queueVars, registered, callVars, cb, aborted>>

HandleIo(t) ==
    /\ pc[t] = "events" /\ ~cb[t]
    /\ \E c \in activeChannels \ {WakeupChannel} :
         IF c \in LibChannels /\ ~IsInLoopThread(t) THEN Abort
         ELSE /\ activeChannels' = activeChannels \ {c}
              /\ cb' = [cb EXCEPT ![t] = TRUE]
              /\ UNCHANGED <<loopVars, queueVars, wakeupFd, registered, callVars, aborted>>

ReturnCallback(t) ==
    /\ cb[t] /\ op[t] = "none"
    /\ cb' = [cb EXCEPT ![t] = FALSE]
    /\ UNCHANGED <<loopVars, queueVars, pollVars, callVars, aborted>>

EventsDone(t) ==
    /\ pc[t] = "events" /\ ~cb[t] /\ activeChannels = {}
    /\ Goto(t, "while")
    /\ UNCHANGED <<stoplooping, tid, queueVars, pollVars, callVars, cb, aborted>>

Leave(t) ==                                      \* settid(-1)
    /\ pc[t] = "leave"
    /\ tid' = NoThread
    /\ Goto(t, "out")
    /\ UNCHANGED <<stoplooping, queueVars, pollVars, callVars, cb, aborted>>

(***************************************************************************)
(* The calls any thread makes: outside loop(), or from a callback.         *)
(***************************************************************************)
MayCall(t) == op[t] = "none" /\ (pc[t] = "out" \/ cb[t])

Begin(t, k, step) ==
    /\ k \notin issued
    /\ issued' = issued \cup {k}
    /\ op' = [op EXCEPT ![t] = step]
    /\ arg' = [arg EXCEPT ![t] = k]
    /\ UNCHANGED <<loopVars, queueVars, pollVars, cb, aborted>>

\* Bug variant: the thread id is not compared.
CallRunInLoopAnyThread(t, k) ==
    /\ MayCall(t)
    /\ Begin(t, k, IF ~stoplooping THEN "exec" ELSE "push")

CallRunInLoop(t, k) ==
    /\ MayCall(t)
    /\ Begin(t, k, IF IsInLoopThread(t) THEN "exec" ELSE "push")

CallQueueInLoop(t, k) == MayCall(t) /\ Begin(t, k, "push")

ExecInline(t) ==                                 \* cb() in runInLoop
    /\ op[t] = "exec"
    /\ IF Asserting(arg[t]) /\ ~IsInLoopThread(t) THEN Abort
       ELSE /\ executed' = Append(executed, arg[t])
            /\ op' = [op EXCEPT ![t] = "none"]
            /\ arg' = [arg EXCEPT ![t] = NoTask]
            /\ UNCHANGED <<loopVars, pendingTasks, batch, pollVars, issued, cb, aborted>>

\* Bug variant: no wakeup when the loop thread itself queues.
PushQuietInLoop(t) ==
    /\ op[t] = "push"
    /\ pendingTasks' = Append(pendingTasks, arg[t])
    /\ op' = [op EXCEPT ![t] = IF IsInLoopThread(t) THEN "none" ELSE "wakeup"]
    /\ arg' = [arg EXCEPT ![t] = NoTask]
    /\ UNCHANGED <<loopVars, batch, executed, pollVars, issued, cb, aborted>>

\* Bug variant: the moved-from task is pushed a second time.
PushTwice(t) ==
    /\ op[t] \in {"push", "wakeup"}
    /\ pendingTasks' = Append(pendingTasks, arg[t])
    /\ op' = [op EXCEPT ![t] = IF op[t] = "push" THEN "wakeup" ELSE "none"]
    /\ arg' = [arg EXCEPT ![t] = NoTask]
    /\ UNCHANGED <<loopVars, batch, executed, pollVars, issued, cb, aborted>>

Push(t) ==
    /\ op[t] = "push"
    /\ pendingTasks' = Append(pendingTasks, arg[t])
    /\ op' = [op EXCEPT ![t] = "wakeup"]
    /\ arg' = [arg EXCEPT ![t] = NoTask]
    /\ UNCHANGED <<loopVars, batch, executed, pollVars, issued, cb, aborted>>

\* Bug variant: an empty queue needs no wakeup.
WakeupForTasks(t) ==
    /\ op[t] = "wakeup"
    /\ wakeupFd' = (wakeupFd \/ pendingTasks # <<>>)
    /\ op' = [op EXCEPT ![t] = "none"]
    /\ UNCHANGED <<loopVars, queueVars, registered, activeChannels, arg, issued, cb, aborted>>

Wakeup(t) ==
    /\ op[t] = "wakeup"
    /\ wakeupFd' = TRUE
    /\ op' = [op EXCEPT ![t] = "none"]
    /\ UNCHANGED <<loopVars, queueVars, registered, activeChannels, arg, issued, cb, aborted>>

CallQuit(t) ==
    /\ MayCall(t)
    /\ stoplooping' = TRUE
    /\ op' = [op EXCEPT ![t] = IF IsInLoopThread(t) THEN "none" ELSE "wakeup"]
    /\ UNCHANGED <<tid, pc, queueVars, pollVars, arg, issued, cb, aborted>>

-----------------------------------------------------------------------------
LoopStep(t) ==
    \/ SetTid(t) \/ StartLooping(t) \/ EntryAssert(t) \/ WhileTest(t)
    \/ SwapTasks(t) \/ RunTask(t) \/ TasksDone(t) \/ PollWake(t)
    \/ HandleWakeup(t) \/ HandleIo(t) \/ EventsDone(t) \/ Leave(t)

CallStep(t) == ExecInline(t) \/ Push(t) \/ Wakeup(t)

Call(t) ==
    \/ \E k \in Tasks : CallRunInLoop(t, k) \/ CallQueueInLoop(t, k)
    \/ t \in Quitters /\ CallQuit(t)

Terminated == aborted /\ UNCHANGED vars

Next ==
    \/ /\ ~aborted
       /\ \/ \E t \in Loopers : CallLoop(t)
          \/ \E t \in Threads :
               \/ LoopStep(t) \/ CallStep(t) \/ Call(t)
               \/ ReturnCallback(t) \/ PollIo(t) \/ PollTimeout(t)
    \/ Terminated

Spec == Init /\ [][Next]_vars

(***************************************************************************)
(* Fairness: a thread inside loop() or inside a call keeps running, and    *)
(* callbacks return.  Nobody is obliged to call anything, and neither I/O  *)
(* nor the poll timeout is assumed to come to the rescue.                  *)
(***************************************************************************)
Fairness ==
    \A t \in Threads :
      /\ WF_vars(~aborted /\ LoopStep(t))
      /\ WF_vars(~aborted /\ CallStep(t))
      /\ SF_vars(~aborted /\ ReturnCallback(t))

FairSpec == Spec /\ Fairness

-----------------------------------------------------------------------------
(***************************************************************************)
(* Properties                                                              *)
(***************************************************************************)

\* queueInLoop appends under mutex_ and writes wakeupFd_ afterwards, handleRead
\* clears the counter, doPendingTasks takes the queue.  Whatever the
\* interleaving, a loop that is on its way into epoll_wait with work queued
\* behind its back is going to be woken: the counter is up, or the thread that
\* queued the work still has its write to do, and the channel is registered.
WakeupPending == wakeupFd \/ \E u \in Threads : op[u] = "wakeup"

NoLostWakeup ==
    \A t \in Threads :
      /\ pc[t] \in {"tasks", "poll"} => pendingTasks = <<>> \/ WakeupPending
      /\ pc[t] = "poll" => registered

\* While one loop() at a time runs, the checks made by assertInLoopThread and
\* loop()'s own assertions only fail once somebody called quit().
AbortOnlyAfterQuit == aborted => stoplooping

\* tid_ names "the looping thread": there is at most one (EventLoop.h:85).
InLoop(t) == pc[t] # "out"
AtMostOneLooper == \A t, u \in Threads : InLoop(t) /\ InLoop(u) => t = u

\* Tasks are executed once each, the queued ones in queue order.
LooperBatch ==
    IF \E t \in Threads : batch[t] # <<>>
      THEN batch[CHOOSE t \in Threads : batch[t] # <<>>] ELSE <<>>

Executor == INSTANCE TaskExecutor
              WITH Task <- AllTasks, queue <- LooperBatch \o pendingTasks, done <- executed

ImplementsExecutor == Executor!Spec

\* A task handed to a running loop is executed, unless quit() or an abort comes
\* first; no other wakeup, I/O or timeout is needed.
Done(k) == \E i \in DOMAIN executed : executed[i] = k
Looping == \E t \in Threads : pc[t] \in Body \ {"leave"}

QueuedTaskRuns ==
    \A k \in Tasks : (k \in issued /\ Looping) ~> (Done(k) \/ stoplooping \/ aborted)

\* After quit() by another thread, loop() returns without the help of a timeout,
\* unless it is started again; the wakeup is what ends epoll_wait.
Leaves(t) == pc[t] = "out" \/ ~stoplooping \/ aborted

QuitReturns ==
    \A t \in Threads :
      (stoplooping /\ pc[t] \in Body /\ \E u \in Threads \ {t} : op[u] = "wakeup") ~> Leaves(t)

\* A quit() called inside the loop writes no wakeup: the poll timeout (EventLoop.cpp:27)
\* is what makes loop() return then, and it is enough.
TimeoutEndsLoop ==
    \A t \in Threads :
      WF_vars(~aborted /\ PollTimeout(t)) =>
        ((stoplooping /\ pc[t] \in Body) ~> Leaves(t))
-----------------------------------------------------------------------------
(***************************************************************************)
(* The inductive invariant behind NoLostWakeup and AbortOnlyAfterQuit, for *)
(* JoinFirst = TRUE.                                                       *)
(***************************************************************************)

\* From settid() on, tid_ is the looper's.
TidIsLooper == \A t \in Threads : InLoop(t) /\ pc[t] # "settid" => tid = t

\* Only a thread between "stoplooping_ = false" and the end of the while keeps
\* the flag down.
RunningHasLooper ==
    ~stoplooping => \E t \in Threads : pc[t] \in {"entry"} \cup (Body \ {"leave"})

CallbacksInLoop == \A t \in Threads : cb[t] => pc[t] \in {"tasks", "events"}

CallCarriesTask ==
    \A t \in Threads :
      /\ op[t] \in {"push", "exec"} => arg[t] \in Tasks
      /\ op[t] = "exec" => cb[t]

\* The constructor's registrations are the first thing the first batch runs.
StartsWithReg(s) == s # <<>> /\ Head(s) = RegTask

RegistrationFirst ==
    ~registered =>
      /\ \A t \in Threads :
           /\ pc[t] \notin {"poll", "events"}
           /\ pc[t] = "tasks" => StartsWithReg(batch[t])
      /\ (\A t \in Threads : pc[t] # "tasks") => StartsWithReg(pendingTasks)

IInv ==
    /\ TypeOK
    /\ AtMostOneLooper
    /\ TidIsLooper
    /\ RunningHasLooper
    /\ CallbacksInLoop
    /\ CallCarriesTask
    /\ RegistrationFirst
    /\ NoLostWakeup
    /\ AbortOnlyAfterQuit
=============================================================================
