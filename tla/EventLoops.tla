----------------------------- MODULE EventLoops -----------------------------
(***************************************************************************)
(* miniduo::EventLoops: a base loop that starts size_ sub-loops on threads *)
(* of their own, hands new connections to them round robin, and joins the  *)
(* threads once the base loop has returned.  Each loop is the EventLoop of *)
(* module EventLoop reduced to what EventLoops depends on: the flag, the   *)
(* places where loop() tests or asserts it, and the queue, whose wakeup    *)
(* protocol module EventLoop covers, so a queued task or a quit() makes    *)
(* epoll_wait return.                                                      *)
(* Names that module EventLoop has, too, begin with Pool here.             *)
(***************************************************************************)
EXTENDS Integers

CONSTANTS
    N,              \* size_, the number of sub-loops
    MaxConns        \* connections per loop (bound)

ASSUME NAssumption == N \in Nat /\ MaxConns \in Nat

Base == N                       \* the EventLoop part of the EventLoops object
Subs == 0..(N - 1)
Loops == 0..N

VARIABLES
    mpc,            \* EventLoops::loop: "spawn", "base", "join", "done"
    idx,            \* its loop index
    lpc,            \* where each loop is in EventLoop::loop
    stop,           \* stoplooping_
    reg,            \* the constructor's registrations have run
    pending,        \* connections queued to the loop (connectEstablished)
    given,          \* connections ever given to the loop
    next,           \* next_
    qidx,           \* the loop EventLoops::quit stops next; N + 1: not called or over
    quit,           \* quit() was not called, or called before or after all loops were up
    poolAborted

poolVars == <<mpc, idx, lpc, stop, reg, pending, given, next, qidx, quit, poolAborted>>
mainVars == <<mpc, idx>>
quitVars == <<qidx, quit>>
connVars == <<given, next>>

PoolInit ==
    /\ mpc = "spawn" /\ idx = 0
    /\ lpc = [l \in Loops |-> "none"]
    /\ stop = [l \in Loops |-> TRUE]
    /\ reg = [l \in Loops |-> FALSE]
    /\ pending = [l \in Loops |-> 0]
    /\ given = [l \in Loops |-> 0]
    /\ next = 0
    /\ qidx = N + 1 /\ quit = "no"
    /\ poolAborted = FALSE

PoolAbort ==
    /\ poolAborted' = TRUE
    /\ UNCHANGED <<mainVars, lpc, stop, reg, pending, connVars, quitVars>>

(***************************************************************************)
(* EventLoops::loop                                                        *)
(***************************************************************************)
Spawn ==
    /\ mpc = "spawn" /\ idx < N
    /\ lpc' = [lpc EXCEPT ![idx] = "created"]
    /\ idx' = idx + 1
    /\ UNCHANGED <<mpc, stop, reg, pending, connVars, quitVars, poolAborted>>

EnterBase ==                                     \* EventLoop::loop()
    /\ mpc = "spawn" /\ idx = N
    /\ lpc' = [lpc EXCEPT ![Base] = "created"]
    /\ mpc' = "base" /\ idx' = 0
    /\ UNCHANGED <<stop, reg, pending, connVars, quitVars, poolAborted>>

BaseReturned ==
    /\ mpc = "base" /\ lpc[Base] = "left"
    /\ mpc' = "join"
    /\ UNCHANGED <<idx, lpc, stop, reg, pending, connVars, quitVars, poolAborted>>

\* Bug variant: a thread still running is skipped (detached) instead of joined.
JoinSkips ==
    /\ mpc = "join"
    /\ IF idx < N THEN idx' = idx + 1 /\ UNCHANGED mpc
                  ELSE mpc' = "done" /\ UNCHANGED idx
    /\ UNCHANGED <<lpc, stop, reg, pending, connVars, quitVars, poolAborted>>

Join ==
    /\ mpc = "join"
    /\ IF idx < N THEN lpc[idx] = "left" /\ idx' = idx + 1 /\ UNCHANGED mpc
                  ELSE mpc' = "done" /\ UNCHANGED idx
    /\ UNCHANGED <<lpc, stop, reg, pending, connVars, quitVars, poolAborted>>

(***************************************************************************)
(* EventLoop::loop of loop l                                               *)
(***************************************************************************)
Start(l) ==                                      \* up to stoplooping_ = false
    /\ lpc[l] = "created"
    /\ stop' = [stop EXCEPT ![l] = FALSE]
    /\ lpc' = [lpc EXCEPT ![l] = "entry"]
    /\ UNCHANGED <<mainVars, reg, pending, connVars, quitVars, poolAborted>>

PoolEntryAssert(l) ==
    /\ lpc[l] = "entry"
    /\ IF stop[l] THEN PoolAbort
       ELSE /\ lpc' = [lpc EXCEPT ![l] = "while"]
            /\ UNCHANGED <<mainVars, stop, reg, pending, connVars, quitVars, poolAborted>>

\* Bug variant: only the first round runs the queue.
PoolWhileTestWaits(l) ==
    /\ lpc[l] = "while"
    /\ lpc' = [lpc EXCEPT ![l] = IF stop[l] THEN "left" ELSE IF reg[l] THEN "poll" ELSE "batch"]
    /\ UNCHANGED <<mainVars, stop, reg, pending, connVars, quitVars, poolAborted>>

PoolWhileTest(l) ==
    /\ lpc[l] = "while"
    /\ lpc' = [lpc EXCEPT ![l] = IF stop[l] THEN "left" ELSE "batch"]
    /\ UNCHANGED <<mainVars, stop, reg, pending, connVars, quitVars, poolAborted>>

\* Registrations and connectEstablished begin with assertInLoopThread().
RunBatch(l) ==
    /\ lpc[l] = "batch"
    /\ IF stop[l] /\ (~reg[l] \/ pending[l] > 0) THEN PoolAbort
       ELSE /\ reg' = [reg EXCEPT ![l] = TRUE]
            /\ pending' = [pending EXCEPT ![l] = 0]
            /\ lpc' = [lpc EXCEPT ![l] = "poll"]
            /\ UNCHANGED <<mainVars, stop, connVars, quitVars, poolAborted>>

PoolPollReturn(l) ==
    /\ lpc[l] = "poll"
    /\ lpc' = [lpc EXCEPT ![l] = "while"]
    /\ UNCHANGED <<mainVars, stop, reg, pending, connVars, quitVars, poolAborted>>

(***************************************************************************)
(* EventLoops::allocLoop, called by TcpServer::newConnection in the base   *)
(* loop's thread; the connection is then queued to the loop it got.  The   *)
(* acceptor's handler asserts that it is in the loop thread.               *)
(***************************************************************************)
Alloc == IF N = 0 THEN Base ELSE next

\* Bug variant: next_ wraps one too early.
AdvanceEarly == IF N = 0 THEN next ELSE (next + 1) % (IF N > 1 THEN N - 1 ELSE N)

Advance == IF N = 0 THEN next ELSE (next + 1) % N

NewConnection ==
    /\ lpc[Base] = "poll"
    /\ given[Alloc] < MaxConns
    /\ IF stop[Base] THEN PoolAbort
       ELSE /\ given' = [given EXCEPT ![Alloc] = @ + 1]
            /\ pending' = IF Alloc = Base THEN pending   \* runInLoop calls it at once
                          ELSE [pending EXCEPT ![Alloc] = @ + 1]
            /\ next' = Advance
            /\ UNCHANGED <<mainVars, lpc, stop, reg, quitVars, poolAborted>>

(***************************************************************************)
(* EventLoops::quit, from any thread                                       *)
(***************************************************************************)
Up(l) == lpc[l] \notin {"none", "created"}      \* stoplooping_ = false was executed

PoolQuit ==
    /\ quit = "no"
    /\ quit' = IF \A l \in Loops : Up(l) THEN "late" ELSE "early"
    /\ qidx' = 0
    /\ UNCHANGED <<mainVars, lpc, stop, reg, pending, connVars, poolAborted>>

\* Bug variant: the base loop is stopped, the last sub-loop is not.
QuitOneShort ==
    /\ quit # "no" /\ qidx <= N
    /\ stop' = [stop EXCEPT ![IF qidx + 1 = N THEN N ELSE qidx] = TRUE]
    /\ qidx' = qidx + 1
    /\ UNCHANGED <<mainVars, lpc, reg, pending, connVars, quit, poolAborted>>

QuitOne ==                                       \* the sub-loops, then the base loop
    /\ quit # "no" /\ qidx <= N
    /\ stop' = [stop EXCEPT ![qidx] = TRUE]
    /\ qidx' = qidx + 1
    /\ UNCHANGED <<mainVars, lpc, reg, pending, connVars, quit, poolAborted>>

-----------------------------------------------------------------------------
MainStep == Spawn \/ EnterBase \/ BaseReturned \/ Join
PoolLoopStep(l) ==
    Start(l) \/ PoolEntryAssert(l) \/ PoolWhileTest(l) \/ RunBatch(l) \/ PoolPollReturn(l)
PoolTerminated == (poolAborted \/ (mpc = "done" /\ qidx > N)) /\ UNCHANGED poolVars

PoolNext ==
    \/ ~poolAborted /\ (MainStep \/ NewConnection \/ PoolQuit \/ QuitOne \/ \E l \in Loops : PoolLoopStep(l))
    \/ PoolTerminated

PoolSpec == PoolInit /\ [][PoolNext]_poolVars

\* Every thread keeps running and a quit() that began goes on.  Nobody has to
\* call quit(), and no client has to connect.
PoolFairSpec ==
    /\ PoolSpec
    /\ WF_poolVars(~poolAborted /\ MainStep) /\ WF_poolVars(~poolAborted /\ QuitOne)
    /\ \A l \in Loops : WF_poolVars(~poolAborted /\ PoolLoopStep(l))

-----------------------------------------------------------------------------
(***************************************************************************)
(* Properties                                                              *)
(***************************************************************************)

\* allocLoop spreads the connections evenly: no sub-loop is ever two ahead of
\* another one, however accepts interleave with starting loops and with quit().
Balanced == \A k, l \in Subs : given[k] <= given[l] + 1

\* EventLoops::loop returns only when no loop is running any more.
ReturnedMeansStopped ==
    mpc = "done" => \A l \in Loops : lpc[l] = "left" /\ stop[l]

\* A connection given to a loop is established there, even if the loop's thread
\* had not started when it was given, unless that loop is stopped.
GivenIsEstablished ==
    \A l \in Loops : pending[l] > 0 ~> (pending[l] = 0 \/ (stop[l] /\ quit # "no") \/ poolAborted)

\* quit() makes EventLoops::loop return (or abort) and the threads are joined, if
\* every loop had set its flag by then; a loop that sets it later takes the quit()
\* back.
PoolQuitReturns == (quit = "late") ~> (mpc = "done" \/ poolAborted)

\* What makes Balanced inductive: the loops before next_ are one ahead of the
\* last one, the others level with it.
RoundRobin ==
    \A l \in Subs :
      /\ l < next => given[l] = given[N - 1] + 1
      /\ l >= next => given[l] = given[N - 1]
=============================================================================
