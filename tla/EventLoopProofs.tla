--------------------------- MODULE EventLoopProofs ---------------------------
(***************************************************************************)
(* Proofs about EventLoop for any sets of threads, tasks and channels,     *)
(* under the condition that loop() is not called before the last one       *)
(* returned (JoinFirst): its invariants, and that it implements            *)
(* TaskExecutor.  At the end, the pool of loops (EventLoops) for any       *)
(* number of loops.                                                        *)
(***************************************************************************)
EXTENDS EventLoop, EventLoops, Integers, TLAPS

LEMMA InitIInv == Init => IInv
<1> SUFFICES ASSUME Init PROVE IInv
  OBVIOUS
<1> USE SetAssumption, ValueAssumption DEF Init
<1>1. TypeOK
  <2>1. pendingTasks \in Seq(AllTasks) /\ executed \in Seq(AllTasks)
    BY DEF AllTasks
  <2>2. batch \in [Threads -> Seq(AllTasks)]
    OBVIOUS
  <2>3. cb \in [Threads -> BOOLEAN] /\ pc \in [Threads -> PC]
    BY DEF PC
  <2>4. op \in [Threads -> {"none", "push", "wakeup", "exec"}]
    OBVIOUS
  <2>5. arg \in [Threads -> AllTasks \cup {NoTask}]
    OBVIOUS
  <2>6. QED
    BY <2>1, <2>2, <2>3, <2>4, <2>5 DEF TypeOK
<1>2. RegistrationFirst
  BY DEF RegistrationFirst, StartsWithReg
<1>3. QED
  BY <1>1, <1>2 DEF IInv, AtMostOneLooper, TidIsLooper, RunningHasLooper, CallbacksInLoop,
     CallCarriesTask, NoLostWakeup, AbortOnlyAfterQuit, InLoop

LEMMA TypeStep == TypeOK /\ CallCarriesTask /\ [Next]_vars => TypeOK'
<1> SUFFICES ASSUME TypeOK, CallCarriesTask, [Next]_vars PROVE TypeOK'
  OBVIOUS
<1> USE SetAssumption, ValueAssumption DEF TypeOK, AllTasks, PC, Body, Goto, Abort,
        vars, loopVars, queueVars, pollVars, callVars
<1>1. ASSUME NEW t \in Loopers, CallLoop(t) PROVE TypeOK'
  BY <1>1 DEF CallLoop
<1>2. ASSUME NEW t \in Threads, SetTid(t) PROVE TypeOK'
  BY <1>2 DEF SetTid
<1>3. ASSUME NEW t \in Threads, StartLooping(t) PROVE TypeOK'
  BY <1>3 DEF StartLooping
<1>4. ASSUME NEW t \in Threads, EntryAssert(t) PROVE TypeOK'
  BY <1>4 DEF EntryAssert
<1>5. ASSUME NEW t \in Threads, WhileTest(t) PROVE TypeOK'
  BY <1>5 DEF WhileTest
<1>6. ASSUME NEW t \in Threads, SwapTasks(t) PROVE TypeOK'
  BY <1>6 DEF SwapTasks
<1>7. ASSUME NEW t \in Threads, RunTask(t) PROVE TypeOK'
  <2>1. CASE Asserting(Head(batch[t])) /\ ~IsInLoopThread(t)
    BY <1>7, <2>1 DEF RunTask
  <2>2. CASE ~(Asserting(Head(batch[t])) /\ ~IsInLoopThread(t))
    <3>1. /\ Head(batch[t]) \in AllTasks
          /\ Tail(batch[t]) \in Seq(AllTasks)
      BY <1>7 DEF RunTask
    <3>2. registered' \in BOOLEAN
      BY <1>7, <2>2 DEF RunTask
    <3>3. /\ executed' \in Seq(AllTasks)
          /\ batch' \in [Threads -> Seq(AllTasks)]
      <4>1. /\ executed' = Append(executed, Head(batch[t]))
            /\ batch' = [batch EXCEPT ![t] = Tail(batch[t])]
        BY <1>7, <2>2 DEF RunTask
      <4>2. QED
        BY <3>1, <4>1
    <3>4. cb' \in [Threads -> BOOLEAN]
      BY <1>7, <2>2 DEF RunTask
    <3>5. QED
      BY <1>7, <2>2, <3>2, <3>3, <3>4 DEF RunTask
  <2>3. QED
    BY <2>1, <2>2
<1>8. ASSUME NEW t \in Threads, TasksDone(t) PROVE TypeOK'
  BY <1>8 DEF TasksDone
<1>9. ASSUME NEW t \in Threads, PollWake(t) PROVE TypeOK'
  BY <1>9 DEF PollWake, PollReturn
<1>10. ASSUME NEW t \in Threads, HandleWakeup(t) PROVE TypeOK'
  BY <1>10 DEF HandleWakeup
<1>11. ASSUME NEW t \in Threads, HandleIo(t) PROVE TypeOK'
  BY <1>11 DEF HandleIo
<1>12. ASSUME NEW t \in Threads, EventsDone(t) PROVE TypeOK'
  BY <1>12 DEF EventsDone
<1>13. ASSUME NEW t \in Threads, Leave(t) PROVE TypeOK'
  BY <1>13 DEF Leave
<1>14. ASSUME NEW t \in Threads, ExecInline(t) PROVE TypeOK'
  <2>1. CASE Asserting(arg[t]) /\ ~IsInLoopThread(t)
    BY <1>14, <2>1 DEF ExecInline
  <2>2. CASE ~(Asserting(arg[t]) /\ ~IsInLoopThread(t))
    <3>1. arg[t] \in AllTasks
      BY <1>14 DEF ExecInline, CallCarriesTask
    <3>2. executed' \in Seq(AllTasks)
      <4>1. executed' = Append(executed, arg[t])
        BY <1>14, <2>2 DEF ExecInline
      <4>2. QED
        BY <3>1, <4>1
    <3>3. QED
      BY <1>14, <2>2, <3>2 DEF ExecInline
  <2>3. QED
    BY <2>1, <2>2
<1>15. ASSUME NEW t \in Threads, Push(t) PROVE TypeOK'
  BY <1>15 DEF Push, CallCarriesTask
<1>16. ASSUME NEW t \in Threads, Wakeup(t) PROVE TypeOK'
  BY <1>16 DEF Wakeup
<1>17. ASSUME NEW t \in Threads, NEW k \in Tasks,
              CallRunInLoop(t, k) \/ CallQueueInLoop(t, k)
       PROVE  TypeOK'
  <2>1. PICK step \in {"exec", "push"} : Begin(t, k, step)
    BY <1>17 DEF CallRunInLoop, CallQueueInLoop
  <2>2. QED
    BY <2>1 DEF Begin
<1>18. ASSUME NEW t \in Threads, CallQuit(t) PROVE TypeOK'
  BY <1>18 DEF CallQuit
<1>19. ASSUME NEW t \in Threads, ReturnCallback(t) PROVE TypeOK'
  BY <1>19 DEF ReturnCallback
<1>20. ASSUME NEW t \in Threads, PollIo(t) \/ PollTimeout(t) PROVE TypeOK'
  BY <1>20 DEF PollIo, PollTimeout, PollReturn
<1>21. CASE UNCHANGED vars
  BY <1>21
<1>22. QED
  BY <1>1, <1>2, <1>3, <1>4, <1>5, <1>6, <1>7, <1>8, <1>9, <1>10, <1>11, <1>12, <1>13,
     <1>14, <1>15, <1>16, <1>17, <1>18, <1>19, <1>20, <1>21
     DEF Next, LoopStep, CallStep, Call, Terminated

LEMMA StepIInv == ASSUME JoinFirst PROVE IInv /\ [Next]_vars => IInv'
<1> SUFFICES ASSUME IInv, [Next]_vars PROVE IInv'
  OBVIOUS
<1> USE SetAssumption, ValueAssumption, JoinFirst
<1>t. TypeOK'
  BY TypeStep DEF IInv
<1> DEFINE Rest == /\ AtMostOneLooper /\ TidIsLooper /\ RunningHasLooper
                   /\ CallbacksInLoop /\ CallCarriesTask /\ RegistrationFirst
                   /\ NoLostWakeup /\ AbortOnlyAfterQuit
<1> USE DEF IInv, TypeOK, AllTasks, PC, Body, Goto, Abort, vars, loopVars, queueVars, pollVars,
        callVars, AtMostOneLooper, TidIsLooper, RunningHasLooper, CallbacksInLoop,
        CallCarriesTask, RegistrationFirst, StartsWithReg, NoLostWakeup, WakeupPending,
        AbortOnlyAfterQuit, InLoop, IsInLoopThread
<1>1. ASSUME NEW t \in Loopers, ~aborted, CallLoop(t) PROVE Rest'
  BY <1>1 DEF CallLoop
<1>2. ASSUME NEW t \in Threads, ~aborted, SetTid(t) PROVE Rest'
  BY <1>2 DEF SetTid
<1>3. ASSUME NEW t \in Threads, ~aborted, StartLooping(t) PROVE Rest'
  BY <1>3 DEF StartLooping
<1>4. ASSUME NEW t \in Threads, ~aborted, EntryAssert(t) PROVE Rest'
  <2>1. CASE IsInLoopThread(t)
    <3>1. /\ pc[t] = "entry" /\ pc' = [pc EXCEPT ![t] = "while"]
          /\ UNCHANGED <<stoplooping, tid, queueVars, pollVars, callVars, cb, aborted>>
      BY <1>4, <2>1 DEF EntryAssert
    <3>2. QED
      BY <3>1
  <2>2. CASE ~IsInLoopThread(t)
    BY <1>4, <2>2 DEF EntryAssert
  <2>3. QED
    BY <2>1, <2>2
<1>5. ASSUME NEW t \in Threads, ~aborted, WhileTest(t) PROVE Rest'
  BY <1>5 DEF WhileTest
<1>6. ASSUME NEW t \in Threads, ~aborted, SwapTasks(t) PROVE Rest'
  BY <1>6 DEF SwapTasks
<1>7. ASSUME NEW t \in Threads, ~aborted, RunTask(t) PROVE Rest'
  <2>1. CASE Asserting(Head(batch[t])) /\ ~IsInLoopThread(t)
    <3>1. /\ UNCHANGED <<loopVars, queueVars, pollVars, callVars, cb>>
          /\ pc[t] = "tasks" /\ aborted'
      BY <1>7, <2>1 DEF RunTask
    <3>2. tid = t
      BY <3>1
    <3>3. stoplooping
      BY <2>1, <3>2
    <3>4. QED
      BY <3>1, <3>3
  <2>2. CASE ~(Asserting(Head(batch[t])) /\ ~IsInLoopThread(t))
    <3>1. UNCHANGED <<pc, tid, stoplooping, pendingTasks, wakeupFd, op, arg, aborted>>
      BY <1>7, <2>2 DEF RunTask
    <3>2. cb' = [cb EXCEPT ![t] = TRUE] /\ pc[t] = "tasks"
      BY <1>7, <2>2 DEF RunTask
    <3>3. registered'
      BY <1>7, <2>2 DEF RunTask
    <3>4. QED
      BY <3>1, <3>2, <3>3
  <2>3. QED
    BY <2>1, <2>2
<1>8. ASSUME NEW t \in Threads, ~aborted, TasksDone(t) PROVE Rest'
  BY <1>8 DEF TasksDone
<1>9. ASSUME NEW t \in Threads, ~aborted, PollWake(t) PROVE Rest'
  BY <1>9 DEF PollWake, PollReturn
<1>10. ASSUME NEW t \in Threads, ~aborted, HandleWakeup(t) PROVE Rest'
  BY <1>10 DEF HandleWakeup
<1>11. ASSUME NEW t \in Threads, ~aborted, HandleIo(t) PROVE Rest'
  <2>1. CASE Abort
    BY <1>11, <2>1 DEF HandleIo
  <2>2. CASE ~Abort
    <3>1. /\ cb' = [cb EXCEPT ![t] = TRUE] /\ pc[t] = "events"
          /\ UNCHANGED <<loopVars, queueVars, wakeupFd, registered, callVars, aborted>>
      BY <1>11, <2>2 DEF HandleIo
    <3>2. QED
      BY <3>1
  <2>3. QED
    BY <2>1, <2>2
<1>12. ASSUME NEW t \in Threads, ~aborted, EventsDone(t) PROVE Rest'
  BY <1>12 DEF EventsDone
<1>13. ASSUME NEW t \in Threads, ~aborted, Leave(t) PROVE Rest'
  BY <1>13 DEF Leave
<1>14. ASSUME NEW t \in Threads, ~aborted, ExecInline(t) PROVE Rest'
  <2>1. CASE Abort
    BY <1>14, <2>1 DEF ExecInline
  <2>2. CASE ~Abort
    BY <1>14, <2>2 DEF ExecInline
  <2>3. QED
    BY <2>1, <2>2
<1>15. ASSUME NEW t \in Threads, ~aborted, Push(t) PROVE Rest'
  BY <1>15 DEF Push
<1>16. ASSUME NEW t \in Threads, ~aborted, Wakeup(t) PROVE Rest'
  BY <1>16 DEF Wakeup
<1>17. ASSUME NEW t \in Threads, ~aborted, NEW k \in Tasks, CallRunInLoop(t, k) \/ CallQueueInLoop(t, k) PROVE Rest'
  <2>1. PICK step \in {"exec", "push"} : Begin(t, k, step) /\ (step = "exec" => IsInLoopThread(t))
    BY <1>17 DEF CallRunInLoop, CallQueueInLoop
  <2>2. op[t] = "none" /\ (pc[t] = "out" \/ cb[t])
    BY <1>17 DEF CallRunInLoop, CallQueueInLoop, MayCall
  <2>3. IsInLoopThread(t) => cb[t]
    BY <2>2
  <2>4. QED
    BY <2>1, <2>2, <2>3 DEF Begin
<1>18. ASSUME NEW t \in Threads, ~aborted, CallQuit(t) PROVE Rest'
  BY <1>18 DEF CallQuit, MayCall
<1>19. ASSUME NEW t \in Threads, ~aborted, ReturnCallback(t) PROVE Rest'
  BY <1>19 DEF ReturnCallback
<1>20. ASSUME NEW t \in Threads, ~aborted, PollIo(t) \/ PollTimeout(t) PROVE Rest'
  <2>1. PICK chs \in SUBSET (IoChannels \cup {WakeupChannel}) : PollReturn(t, chs)
    BY <1>20 DEF PollIo, PollTimeout
  <2>2. QED
    BY <1>20, <2>1 DEF PollReturn
<1>21. CASE UNCHANGED vars
  BY <1>21
<1>22. QED
  BY <1>t, <1>1, <1>2, <1>3, <1>4, <1>5, <1>6, <1>7, <1>8, <1>9, <1>10, <1>11, <1>12, <1>13, <1>14, <1>15, <1>16, <1>17, <1>18, <1>19, <1>20, <1>21
     DEF Next, LoopStep, CallStep, Call, Terminated

(***************************************************************************)
(* Results                                                                 *)
(***************************************************************************)
\* The inductive invariant holds in every behaviour in which loop() is not
\* called while another thread is still inside it.
THEOREM Invariance == ASSUME JoinFirst PROVE Spec => []IInv
<1>1. Init => IInv
  BY InitIInv
<1>2. IInv /\ [Next]_vars => IInv'
  BY StepIInv
<1>3. QED
  BY <1>1, <1>2, PTL DEF Spec

\* All variables of the loop keep their types.
THEOREM TypeCorrect == ASSUME JoinFirst PROVE Spec => []TypeOK
<1>1. IInv => TypeOK
  BY DEF IInv
<1>2. QED
  BY <1>1, Invariance, PTL

\* queueInLoop / handleRead / doPendingTasks: no interleaving lets the loop
\* block in epoll_wait on top of a queued task nobody will wake it for.
THEOREM WakeupNeverLost == ASSUME JoinFirst PROVE Spec => []NoLostWakeup
<1>1. IInv => NoLostWakeup
  BY DEF IInv
<1>2. QED
  BY <1>1, Invariance, PTL

\* assertInLoopThread and the assertions of loop() fail only after quit().
THEOREM AbortsNeedQuit == ASSUME JoinFirst PROVE Spec => []AbortOnlyAfterQuit
<1>1. IInv => AbortOnlyAfterQuit
  BY DEF IInv
<1>2. QED
  BY <1>1, Invariance, PTL
-----------------------------------------------------------------------------
(***************************************************************************)
(* EventLoop implements TaskExecutor: the batch of the one looper followed *)
(* by pendingTasks_ is the abstract queue.                                 *)
(***************************************************************************)
Elems(s) == {s[i] : i \in DOMAIN s}

Carries(t) == op[t] \in {"push", "exec"}

Handed(k) ==
    k \in Elems(pendingTasks) \/ k \in Elems(executed) \/ \E u \in Threads : k \in Elems(batch[u])

\* Only the looper inside doPendingTasks has a batch.
BatchInTasks == \A t \in Threads : batch[t] # <<>> => pc[t] = "tasks"

\* A task is at one place: inside one call, or handed over.
CarriedOnce ==
    /\ \A t \in Threads : Carries(t) => arg[t] \in issued /\ ~Handed(arg[t])
    /\ \A t, u \in Threads : Carries(t) /\ Carries(u) /\ arg[t] = arg[u] => t = u

HandedIsIssued == \A k \in Tasks : Handed(k) => k \in issued

ExecInv == BatchInTasks /\ CarriedOnce /\ HandedIsIssued

\* What the operations on sequences do to their elements.
LEMMA ElemsAppend ==
    ASSUME NEW S, NEW s \in Seq(S), NEW k \in S
    PROVE  Elems(Append(s, k)) = Elems(s) \cup {k}
<1>1. PICK a : a = Append(s, k)
  OBVIOUS
<1>2. /\ Len(s) \in Nat /\ DOMAIN s = 1..Len(s) /\ DOMAIN a = 1..(Len(s) + 1)
      /\ a[Len(s) + 1] = k /\ \A i \in 1..Len(s) : a[i] = s[i]
  BY <1>1
<1>3. Elems(a) \subseteq Elems(s) \cup {k}
  BY <1>2 DEF Elems
<1>4. Elems(s) \subseteq Elems(a)
  BY <1>2 DEF Elems
<1>5. k \in Elems(a)
  BY <1>2 DEF Elems
<1>6. QED
  BY <1>1, <1>3, <1>4, <1>5

LEMMA ElemsEmpty == Elems(<<>>) = {}
  BY DEF Elems

LEMMA ElemsHead ==
    ASSUME NEW S, NEW s \in Seq(S), s # <<>>
    PROVE  Elems(s) = {Head(s)} \cup Elems(Tail(s)) /\ Head(s) \in S /\ Tail(s) \in Seq(S)
<1>1. Len(s) \in Nat /\ Len(s) >= 1 /\ DOMAIN s = 1..Len(s) /\ Head(s) = s[1] /\ Head(s) \in S
  OBVIOUS
<1>2. /\ Tail(s) \in Seq(S) /\ Len(Tail(s)) = Len(s) - 1 /\ DOMAIN Tail(s) = 1..(Len(s) - 1)
      /\ \A i \in 1..(Len(s) - 1) : Tail(s)[i] = s[i + 1]
  OBVIOUS
<1>3. ASSUME NEW i \in DOMAIN s PROVE s[i] \in {Head(s)} \cup Elems(Tail(s))
  <2>1. CASE i = 1
    BY <1>1, <2>1
  <2>2. CASE i # 1
    <3>1. i - 1 \in 1..(Len(s) - 1) /\ (i - 1) + 1 = i
      BY <1>1, <2>2
    <3>2. Tail(s)[i - 1] = s[i]
      BY <1>2, <3>1
    <3>3. QED
      BY <1>2, <3>1, <3>2 DEF Elems
  <2>3. QED
    BY <2>1, <2>2
<1>4. ASSUME NEW i \in DOMAIN Tail(s) PROVE Tail(s)[i] \in Elems(s)
  <2>1. i + 1 \in DOMAIN s
    BY <1>1, <1>2
  <2>2. QED
    BY <1>2, <2>1 DEF Elems
<1>5. Head(s) \in Elems(s)
  BY <1>1 DEF Elems
<1>6. Elems(s) \subseteq {Head(s)} \cup Elems(Tail(s))
  BY <1>3 DEF Elems
<1>7. Elems(Tail(s)) \subseteq Elems(s)
  BY <1>4 DEF Elems
<1>8. QED
  BY <1>1, <1>2, <1>5, <1>6, <1>7

\* A concatenation has no other elements.
LEMMA ElemsConcat ==
    ASSUME NEW S, NEW s \in Seq(S), NEW t \in Seq(S)
    PROVE  Elems(s \o t) \subseteq Elems(s) \cup Elems(t)
<1> SUFFICES ASSUME NEW i \in DOMAIN (s \o t) PROVE (s \o t)[i] \in Elems(s) \cup Elems(t)
  BY DEF Elems
<1>1. /\ DOMAIN (s \o t) = 1..(Len(s) + Len(t)) /\ Len(s) \in Nat /\ Len(t) \in Nat
      /\ DOMAIN s = 1..Len(s) /\ DOMAIN t = 1..Len(t)
  OBVIOUS
<1>2. CASE i <= Len(s)
  <2>1. i \in DOMAIN s /\ (s \o t)[i] = s[i]
    BY <1>1, <1>2
  <2>2. QED
    BY <2>1 DEF Elems
<1>3. CASE i > Len(s)
  <2>1. i - Len(s) \in DOMAIN t /\ (s \o t)[i] = t[i - Len(s)]
    BY <1>1, <1>3
  <2>2. QED
    BY <2>1 DEF Elems
<1>4. QED
  BY <1>1, <1>2, <1>3

\* The batch of the one thread that has one.
LEMMA OneBatch ==
    ASSUME NEW t \in Threads, \A u \in Threads : u # t => batch[u] = <<>>
    PROVE  LooperBatch = batch[t]
<1>1. CASE batch[t] = <<>>
  BY <1>1 DEF LooperBatch
<1>2. CASE batch[t] # <<>>
  <2>1. PICK v : v = CHOOSE u \in Threads : batch[u] # <<>>
    OBVIOUS
  <2>2. v \in Threads /\ batch[v] # <<>>
    BY <1>2, <2>1
  <2>3. v = t
    BY <2>2
  <2>4. QED
    BY <1>2, <2>1, <2>3 DEF LooperBatch
<1>3. QED
  BY <1>1, <1>2

-----------------------------------------------------------------------------
(***************************************************************************)
(* What a step does to the tasks.                                          *)
(***************************************************************************)
Silent == UNCHANGED <<pendingTasks, batch, executed, op, arg, issued>>

Signals(t) ==
    /\ ~Carries(t) /\ op' = [op EXCEPT ![t] = op'[t]] /\ op'[t] \in {"none", "wakeup"}
    /\ UNCHANGED <<pendingTasks, batch, executed, arg, issued, pc>>

Starts(t, k) ==
    /\ ~Carries(t) /\ k \notin issued /\ issued' = issued \cup {k}
    /\ op' = [op EXCEPT ![t] = op'[t]] /\ arg' = [arg EXCEPT ![t] = k]
    /\ UNCHANGED <<pendingTasks, batch, executed, pc>>

Executes(t) ==
    /\ pc[t] = "tasks" /\ batch[t] # <<>>
    /\ executed' = Append(executed, Head(batch[t]))
    /\ batch' = [batch EXCEPT ![t] = Tail(batch[t])]
    /\ UNCHANGED <<pendingTasks, op, arg, issued, pc>>

CallDone(t) ==
    /\ Carries(t) /\ op' = [op EXCEPT ![t] = op'[t]] /\ op'[t] \in {"none", "wakeup"}
    /\ arg' = [arg EXCEPT ![t] = NoTask] /\ UNCHANGED <<batch, issued, pc>>

Inline(t) == CallDone(t) /\ executed' = Append(executed, arg[t]) /\ UNCHANGED pendingTasks
Queues(t) == CallDone(t) /\ pendingTasks' = Append(pendingTasks, arg[t]) /\ UNCHANGED executed

\* Most steps leave the tasks alone; the others are of six kinds.
LEMMA StepKinds ==
    ASSUME TypeOK, BatchInTasks, [Next]_vars
    PROVE  \/ Silent /\ BatchInTasks'
           \/ \E t \in Threads : \/ Signals(t) \/ SwapTasks(t) \/ Executes(t) \/ Inline(t) \/ Queues(t)
                                 \/ \E k \in Tasks : Starts(t, k)
<1> DEFINE Kind == \/ Silent /\ BatchInTasks'
                   \/ \E t \in Threads : \/ Signals(t) \/ SwapTasks(t) \/ Executes(t) \/ Inline(t) \/ Queues(t)
                                         \/ \E k \in Tasks : Starts(t, k)
<1> USE DEF loopVars, queueVars, pollVars, callVars, Goto, Abort
<1>1. ASSUME NEW t \in Threads, CallLoop(t) PROVE Silent /\ BatchInTasks'
  BY <1>1 DEF CallLoop, Silent, BatchInTasks, TypeOK
<1>2. ASSUME NEW t \in Threads, SetTid(t) \/ StartLooping(t) \/ WhileTest(t) PROVE Silent /\ BatchInTasks'
  BY <1>2 DEF SetTid, StartLooping, WhileTest, Silent, BatchInTasks, TypeOK
<1>3. ASSUME NEW t \in Threads, EntryAssert(t) PROVE Silent /\ BatchInTasks'
  BY <1>3 DEF EntryAssert, Silent, BatchInTasks, TypeOK
<1>4. ASSUME NEW t \in Threads, TasksDone(t) PROVE Silent /\ BatchInTasks'
  BY <1>4 DEF TasksDone, Silent, BatchInTasks, TypeOK
<1>5. ASSUME NEW t \in Threads, PollWake(t) \/ PollIo(t) \/ PollTimeout(t) PROVE Silent /\ BatchInTasks'
  BY <1>5 DEF PollWake, PollIo, PollTimeout, PollReturn, Silent, BatchInTasks, TypeOK
<1>6. ASSUME NEW t \in Threads, HandleWakeup(t) \/ HandleIo(t) \/ ReturnCallback(t) PROVE Silent /\ BatchInTasks'
  BY <1>6 DEF HandleWakeup, HandleIo, ReturnCallback, Silent, BatchInTasks
<1>7. ASSUME NEW t \in Threads, EventsDone(t) \/ Leave(t) PROVE Silent /\ BatchInTasks'
  BY <1>7 DEF EventsDone, Leave, Silent, BatchInTasks, TypeOK
<1>8. ASSUME NEW t \in Threads, RunTask(t) PROVE Kind
  <2>1. CASE Asserting(Head(batch[t])) /\ ~IsInLoopThread(t)
    BY <1>8, <2>1 DEF RunTask, Silent, BatchInTasks
  <2>2. CASE ~(Asserting(Head(batch[t])) /\ ~IsInLoopThread(t))
    BY <1>8, <2>2 DEF RunTask, Executes
  <2>3. QED
    BY <2>1, <2>2
<1>9. ASSUME NEW t \in Threads, ExecInline(t) PROVE Kind
  <2>1. CASE Asserting(arg[t]) /\ ~IsInLoopThread(t)
    BY <1>9, <2>1 DEF ExecInline, Silent, BatchInTasks
  <2>2. CASE ~(Asserting(arg[t]) /\ ~IsInLoopThread(t))
    <3>1. /\ op[t] = "exec" /\ op' = [op EXCEPT ![t] = "none"] /\ arg' = [arg EXCEPT ![t] = NoTask]
          /\ executed' = Append(executed, arg[t]) /\ UNCHANGED <<pendingTasks, batch, issued, pc>>
      BY <1>9, <2>2 DEF ExecInline
    <3>2. QED
      BY <3>1 DEF Inline, CallDone, Carries, TypeOK
  <2>3. QED
    BY <2>1, <2>2
<1>10. ASSUME NEW t \in Threads, Push(t) PROVE Queues(t)
  BY <1>10 DEF Push, Queues, CallDone, Carries, TypeOK
<1>11. ASSUME NEW t \in Threads, Wakeup(t) PROVE Signals(t)
  BY <1>11 DEF Wakeup, Signals, Carries, TypeOK
<1>12. ASSUME NEW t \in Threads, CallQuit(t) PROVE Signals(t)
  BY <1>12 DEF CallQuit, MayCall, Signals, Carries, TypeOK
<1>13. ASSUME NEW t \in Threads, NEW k \in Tasks, CallRunInLoop(t, k) \/ CallQueueInLoop(t, k)
       PROVE  Starts(t, k)
  <2>1. PICK step : Begin(t, k, step) /\ op[t] = "none"
    BY <1>13 DEF CallRunInLoop, CallQueueInLoop, MayCall
  <2>2. QED
    BY <2>1 DEF Begin, Starts, Carries, TypeOK
<1>14. CASE UNCHANGED vars
  BY <1>14 DEF vars, Silent, BatchInTasks
<1>15. QED
  BY <1>1, <1>2, <1>3, <1>4, <1>5, <1>6, <1>7, <1>8, <1>9, <1>10, <1>11, <1>12, <1>13, <1>14,
     SetAssumption DEF Next, LoopStep, CallStep, Call, Terminated

\* Whoever holds a batch is the only one.
LEMMA SoleBatch ==
    ASSUME AtMostOneLooper, BatchInTasks, NEW t \in Threads, pc[t] # "out"
    PROVE  \A u \in Threads : u # t => batch[u] = <<>>
  BY DEF AtMostOneLooper, InLoop, BatchInTasks

\* A step hands over at most the task its call carries.
LEMMA HandedStep ==
    ASSUME TypeOK, TypeOK', NEW t \in Threads, NEW k, Handed(k)'
    PROVE  /\ UNCHANGED <<pendingTasks, batch, executed>> => Handed(k)
           /\ SwapTasks(t) => Handed(k)
           /\ Executes(t) => Handed(k)
           /\ Carries(t) /\ arg[t] \in Tasks /\ (Inline(t) \/ Queues(t)) => Handed(k) \/ k = arg[t]
<1> DEFINE InBatch(f) == \E u \in Threads : k \in Elems(f[u])
<1>0. /\ pendingTasks \in Seq(AllTasks) /\ executed \in Seq(AllTasks)
      /\ batch \in [Threads -> Seq(AllTasks)]
  BY DEF TypeOK
<1>1. k \in Elems(pendingTasks') \/ k \in Elems(executed') \/ InBatch(batch')
  BY DEF Handed
<1>2. k \in Elems(pendingTasks) \/ k \in Elems(executed) \/ InBatch(batch) => Handed(k)
  BY DEF Handed
<1>3. ASSUME UNCHANGED <<pendingTasks, batch, executed>> PROVE Handed(k)
  BY <1>1, <1>2, <1>3
<1>4. ASSUME SwapTasks(t) PROVE Handed(k)
  <2>1. batch' = [batch EXCEPT ![t] = pendingTasks] /\ pendingTasks' = <<>> /\ executed' = executed
    BY <1>4 DEF SwapTasks
  <2>2. k \notin Elems(pendingTasks')
    BY <2>1, ElemsEmpty
  <2>3. ASSUME NEW u \in Threads, k \in Elems(batch'[u])
        PROVE  k \in Elems(batch[u]) \/ k \in Elems(pendingTasks)
    BY <1>0, <2>1, <2>3
  <2>4. QED
    BY <1>1, <1>2, <2>1, <2>2, <2>3
<1>5. ASSUME Executes(t) PROVE Handed(k)
  <2>1. PICK s, h, r : s = batch[t] /\ h = Head(s) /\ r = Tail(s)
    OBVIOUS
  <2>2. /\ s # <<>> /\ executed' = Append(executed, h) /\ pendingTasks' = pendingTasks
        /\ batch' = [batch EXCEPT ![t] = r]
    BY <1>5, <2>1 DEF Executes
  <2>3. s \in Seq(AllTasks)
    BY <1>0, <2>1
  <2>4. Elems(s) = {h} \cup Elems(r) /\ h \in AllTasks
    BY <2>1, <2>2, <2>3, ElemsHead
  <2>5. Elems(executed') = Elems(executed) \cup {h}
    BY <1>0, <2>2, <2>4, ElemsAppend
  <2>6. ASSUME NEW u \in Threads, k \in Elems(batch'[u]) PROVE k \in Elems(batch[u])
    BY <1>0, <2>1, <2>2, <2>4, <2>6
  <2>7. QED
    BY <1>1, <1>2, <2>1, <2>2, <2>4, <2>5, <2>6
<1>6. ASSUME arg[t] \in Tasks, Inline(t) PROVE Handed(k) \/ k = arg[t]
  <2>1. PICK h : h = arg[t] /\ h \in AllTasks
    BY <1>6 DEF AllTasks
  <2>2. executed' = Append(executed, h) /\ pendingTasks' = pendingTasks /\ batch' = batch
    BY <1>6, <2>1 DEF Inline, CallDone
  <2>3. Elems(executed') = Elems(executed) \cup {h}
    BY <1>0, <2>1, <2>2, ElemsAppend
  <2>4. QED
    BY <1>1, <1>2, <2>1, <2>2, <2>3
<1>7. ASSUME arg[t] \in Tasks, Queues(t) PROVE Handed(k) \/ k = arg[t]
  <2>1. PICK h : h = arg[t] /\ h \in AllTasks
    BY <1>7 DEF AllTasks
  <2>2. pendingTasks' = Append(pendingTasks, h) /\ executed' = executed /\ batch' = batch
    BY <1>7, <2>1 DEF Queues, CallDone
  <2>3. Elems(pendingTasks') = Elems(pendingTasks) \cup {h}
    BY <1>0, <2>1, <2>2, ElemsAppend
  <2>4. QED
    BY <1>1, <1>2, <2>1, <2>2, <2>3
<1>8. QED
  BY <1>3, <1>4, <1>5, <1>6, <1>7

\* ExecInv is inductive, given the invariant of the loop itself.
LEMMA StepExec == IInv /\ IInv' /\ ExecInv /\ [Next]_vars => ExecInv'
<1> SUFFICES ASSUME IInv, IInv', ExecInv, [Next]_vars PROVE ExecInv'
  OBVIOUS
<1>0. /\ TypeOK /\ TypeOK' /\ AtMostOneLooper /\ BatchInTasks
      /\ \A u \in Threads : Carries(u) => arg[u] \in Tasks
  BY DEF IInv, ExecInv, CallCarriesTask, Carries
<1>1. /\ \A u \in Threads : Carries(u) => arg[u] \in issued /\ ~Handed(arg[u])
      /\ \A u, v \in Threads : Carries(u) /\ Carries(v) /\ arg[u] = arg[v] => u = v
      /\ \A k \in Tasks : Handed(k) => k \in issued
  BY DEF ExecInv, CarriedOnce, HandedIsIssued
<1>2. op \in [Threads -> {"none", "push", "wakeup", "exec"}] /\ DOMAIN arg = Threads
  BY <1>0 DEF TypeOK
\* What is carried stays apart from what is handed over, if the step hands over
\* nothing new and starts no call.
<1>3. ASSUME \A k : Handed(k)' => Handed(k), issued' = issued,
             \A u \in Threads : Carries(u)' => Carries(u) /\ arg'[u] = arg[u]
      PROVE  CarriedOnce' /\ HandedIsIssued'
  <2>1. ASSUME NEW u \in Threads, Carries(u)' PROVE arg'[u] \in issued' /\ ~Handed(arg[u])'
    <3>1. PICK k : k = arg'[u] /\ k = arg[u]
      BY <1>3, <2>1
    <3>2. k \in issued /\ ~Handed(k)
      BY <1>1, <1>3, <2>1, <3>1
    <3>3. ~Handed(k)'
      BY <1>3, <3>2
    <3>4. QED
      BY <1>3, <3>1, <3>2, <3>3 DEF Handed
  <2>2. \A u, v \in Threads : Carries(u)' /\ Carries(v)' /\ arg'[u] = arg'[v] => u = v
    BY <1>1, <1>3
  <2>3. HandedIsIssued'
    BY <1>1, <1>3 DEF HandedIsIssued
  <2>4. QED
    BY <2>1, <2>2, <2>3 DEF CarriedOnce
<1>4. CASE Silent /\ BatchInTasks'
  <2>1. UNCHANGED <<pendingTasks, batch, executed, op, arg, issued>>
    BY <1>4 DEF Silent
  <2>2. (\A k : Handed(k)' => Handed(k)) /\ \A u \in Threads : Carries(u)' => Carries(u) /\ arg'[u] = arg[u]
    BY <2>1 DEF Handed, Carries
  <2>3. QED
    BY <1>3, <1>4, <2>1, <2>2 DEF ExecInv
<1>5. ASSUME NEW t \in Threads, Signals(t) PROVE ExecInv'
  <2>1. /\ ~Carries(t) /\ op' = [op EXCEPT ![t] = op'[t]] /\ op'[t] \in {"none", "wakeup"}
        /\ UNCHANGED <<pendingTasks, batch, executed, arg, issued, pc>>
    BY <1>5 DEF Signals
  <2>2. \A k : Handed(k)' => Handed(k)
    BY <2>1 DEF Handed
  <2>3. \A u \in Threads : Carries(u)' => Carries(u) /\ arg'[u] = arg[u]
    BY <1>2, <2>1 DEF Carries
  <2>4. BatchInTasks'
    BY <1>0, <2>1 DEF BatchInTasks
  <2>5. QED
    BY <1>3, <2>1, <2>2, <2>3, <2>4 DEF ExecInv
<1>6. ASSUME NEW t \in Threads, SwapTasks(t) PROVE ExecInv'
  <2>1. /\ pc[t] = "swap" /\ pc' = [pc EXCEPT ![t] = "tasks"]
        /\ batch' = [batch EXCEPT ![t] = pendingTasks] /\ UNCHANGED <<op, arg, issued>>
    BY <1>6 DEF SwapTasks, Goto, callVars
  <2>2. \A k : Handed(k)' => Handed(k)
    BY <1>0, <1>6, HandedStep
  <2>3. \A u \in Threads : Carries(u)' => Carries(u) /\ arg'[u] = arg[u]
    BY <2>1 DEF Carries
  <2>4. BatchInTasks'
    BY <1>0, <2>1 DEF BatchInTasks, TypeOK
  <2>5. QED
    BY <1>3, <2>1, <2>2, <2>3, <2>4 DEF ExecInv
<1>7. ASSUME NEW t \in Threads, Executes(t) PROVE ExecInv'
  <2>1. /\ pc[t] = "tasks" /\ batch' = [batch EXCEPT ![t] = Tail(batch[t])]
        /\ UNCHANGED <<op, arg, issued, pc>>
    BY <1>7 DEF Executes
  <2>2. \A k : Handed(k)' => Handed(k)
    BY <1>0, <1>7, HandedStep
  <2>3. \A u \in Threads : Carries(u)' => Carries(u) /\ arg'[u] = arg[u]
    BY <2>1 DEF Carries
  <2>4. BatchInTasks'
    BY <1>0, <2>1 DEF BatchInTasks, TypeOK
  <2>5. QED
    BY <1>3, <2>1, <2>2, <2>3, <2>4 DEF ExecInv
<1>8. ASSUME NEW t \in Threads, Inline(t) \/ Queues(t) PROVE ExecInv'
  <2>1. /\ Carries(t) /\ op' = [op EXCEPT ![t] = op'[t]] /\ op'[t] \in {"none", "wakeup"}
        /\ arg' = [arg EXCEPT ![t] = NoTask] /\ UNCHANGED <<batch, issued, pc>>
    BY <1>8 DEF Inline, Queues, CallDone
  <2>2. PICK a : a = arg[t] /\ a \in Tasks /\ a \in issued
    BY <1>0, <1>1, <2>1
  <2>3. \A k : Handed(k)' => Handed(k) \/ k = a
    BY <1>0, <1>8, <2>1, <2>2, HandedStep
  <2>4. \A u \in Threads : Carries(u)' => u # t /\ Carries(u) /\ arg'[u] = arg[u] /\ arg[u] # a
    BY <1>1, <1>2, <2>1, <2>2 DEF Carries
  <2>5. ASSUME NEW u \in Threads, Carries(u)' PROVE arg'[u] \in issued' /\ ~Handed(arg[u])'
    <3>1. PICK k : k = arg'[u] /\ k = arg[u] /\ k # a /\ k \in issued /\ ~Handed(k)
      BY <1>1, <2>4, <2>5
    <3>2. ~Handed(k)'
      BY <2>3, <3>1
    <3>3. QED
      BY <2>1, <3>1, <3>2 DEF Handed
  <2>6. \A u, v \in Threads : Carries(u)' /\ Carries(v)' /\ arg'[u] = arg'[v] => u = v
    BY <1>1, <2>4
  <2>7. HandedIsIssued'
    BY <1>1, <2>1, <2>2, <2>3 DEF HandedIsIssued
  <2>8. BatchInTasks'
    BY <1>0, <2>1 DEF BatchInTasks
  <2>9. QED
    BY <2>5, <2>6, <2>7, <2>8 DEF ExecInv, CarriedOnce
<1>9. ASSUME NEW t \in Threads, NEW k \in Tasks, Starts(t, k) PROVE ExecInv'
  <2>1. /\ ~Carries(t) /\ k \notin issued /\ issued' = issued \cup {k}
        /\ op' = [op EXCEPT ![t] = op'[t]] /\ arg' = [arg EXCEPT ![t] = k]
        /\ UNCHANGED <<pendingTasks, batch, executed, pc>>
    BY <1>9 DEF Starts
  <2>2. ~Handed(k)
    BY <1>1, <2>1
  <2>3. \A j : Handed(j)' => Handed(j)
    BY <2>1 DEF Handed
  <2>4. arg'[t] = k /\ \A u \in Threads : u # t /\ Carries(u)' => Carries(u) /\ arg'[u] = arg[u] /\ arg[u] # k
    BY <1>1, <1>2, <2>1 DEF Carries
  <2>5. ASSUME NEW u \in Threads, Carries(u)' PROVE arg'[u] \in issued' /\ ~Handed(arg[u])'
    <3>1. PICK j : j = arg'[u] /\ j \in issued' /\ ~Handed(j)
      BY <1>1, <2>1, <2>2, <2>4, <2>5
    <3>2. ~Handed(j)'
      BY <2>3, <3>1
    <3>3. QED
      BY <3>1, <3>2 DEF Handed
  <2>6. \A u, v \in Threads : Carries(u)' /\ Carries(v)' /\ arg'[u] = arg'[v] => u = v
    BY <1>1, <2>4
  <2>7. HandedIsIssued'
    BY <1>1, <2>1, <2>3 DEF HandedIsIssued
  <2>8. BatchInTasks'
    BY <1>0, <2>1 DEF BatchInTasks
  <2>9. QED
    BY <2>5, <2>6, <2>7, <2>8 DEF ExecInv, CarriedOnce
<1>10. QED
  BY <1>0, <1>4, <1>5, <1>6, <1>7, <1>8, <1>9, StepKinds

\* A task the queue or the log holds was handed over.
LEMMA AcceptedIsHanded ==
    ASSUME TypeOK, NEW k, k \in Executor!Accepted
    PROVE  Handed(k)
<1>1. PICK q, l : q = l \o pendingTasks /\ l = LooperBatch
  OBVIOUS
<1>2. k \in Elems(q) \/ k \in Elems(executed)
  BY <1>1 DEF Executor!Accepted, Elems
<1>3. (\E u \in Threads : l = batch[u]) \/ l = <<>>
  <2>1. CASE \E t \in Threads : batch[t] # <<>>
    <3>1. PICK v : v = CHOOSE t \in Threads : batch[t] # <<>>
      OBVIOUS
    <3>2. v \in Threads /\ l = batch[v]
      BY <1>1, <2>1, <3>1 DEF LooperBatch
    <3>3. QED
      BY <3>2
  <2>2. CASE ~\E t \in Threads : batch[t] # <<>>
    BY <1>1, <2>2 DEF LooperBatch
  <2>3. QED
    BY <2>1, <2>2
<1>4. l \in Seq(AllTasks) /\ pendingTasks \in Seq(AllTasks)
  <2>1. /\ batch \in [Threads -> Seq(AllTasks)] /\ pendingTasks \in Seq(AllTasks)
        /\ <<>> \in Seq(AllTasks)
    BY DEF TypeOK
  <2>2. QED
    BY <1>3, <2>1
<1>5. k \in Elems(q) => k \in Elems(l) \/ k \in Elems(pendingTasks)
  BY <1>1, <1>4, ElemsConcat
<1>6. QED
  BY <1>2, <1>3, <1>5, ElemsEmpty DEF Handed

\* The same for the next state.
LEMMA OneBatchNext ==
    ASSUME NEW t \in Threads, \A u \in Threads : u # t => batch'[u] = <<>>
    PROVE  LooperBatch' = batch'[t]
<1>1. CASE batch'[t] = <<>>
  BY <1>1 DEF LooperBatch
<1>2. CASE batch'[t] # <<>>
  <2>1. PICK v : v = CHOOSE u \in Threads : batch'[u] # <<>>
    OBVIOUS
  <2>2. v \in Threads /\ batch'[v] # <<>>
    BY <1>2, <2>1
  <2>3. v = t
    BY <2>2
  <2>4. QED
    BY <1>2, <2>1, <2>3 DEF LooperBatch
<1>3. QED
  BY <1>1, <1>2

\* Taking the head of, and appending to, a queue in two parts.
LEMMA HeadOfConcat ==
    ASSUME NEW S, NEW s \in Seq(S), NEW p \in Seq(S), s # <<>>
    PROVE  s \o p # <<>> /\ Head(s \o p) = Head(s) /\ Tail(s \o p) = Tail(s) \o p
  OBVIOUS

LEMMA AppendOfConcat ==
    ASSUME NEW S, NEW s \in Seq(S), NEW p \in Seq(S), NEW k \in S
    PROVE  s \o Append(p, k) = Append(s \o p, k)
  OBVIOUS

\* Every step of the loop and of its callers is a step of the executor.
LEMMA StepExecutor ==
    ASSUME IInv, IInv', ExecInv, ExecInv', [Next]_vars
    PROVE  [Executor!Next]_(Executor!vars)
<1>0. /\ TypeOK /\ AtMostOneLooper /\ BatchInTasks /\ BatchInTasks' /\ AtMostOneLooper'
      /\ batch \in [Threads -> Seq(AllTasks)] /\ pendingTasks \in Seq(AllTasks)
      /\ executed \in Seq(AllTasks) /\ pc \in [Threads -> PC]
  BY DEF IInv, ExecInv, TypeOK
<1>1. ASSUME NEW k \in Tasks, ~Handed(k) PROVE k \notin Executor!Accepted /\ k \in AllTasks
  BY <1>0, <1>1, AcceptedIsHanded DEF AllTasks
<1>2. ASSUME UNCHANGED <<pendingTasks, batch, executed>> PROVE UNCHANGED Executor!vars
  BY <1>2 DEF Executor!vars, LooperBatch
<1>3. CASE Silent /\ BatchInTasks'
  BY <1>2, <1>3 DEF Silent
<1>4. ASSUME NEW t \in Threads, Signals(t) \/ \E k \in Tasks : Starts(t, k)
      PROVE  UNCHANGED Executor!vars
  BY <1>2, <1>4 DEF Signals, Starts
<1>5. ASSUME NEW t \in Threads, SwapTasks(t) PROVE UNCHANGED Executor!vars
  <2>1. /\ pc[t] = "swap" /\ batch' = [batch EXCEPT ![t] = pendingTasks]
        /\ pendingTasks' = <<>> /\ executed' = executed
    BY <1>5 DEF SwapTasks
  <2>2. \A u \in Threads : u # t => batch[u] = <<>>
    BY <1>0, <2>1, SoleBatch
  <2>3. batch[t] = <<>>
    BY <1>0, <2>1 DEF BatchInTasks
  <2>4. LooperBatch = <<>>
    BY <2>2, <2>3, OneBatch
  <2>5. batch'[t] = pendingTasks /\ \A u \in Threads : u # t => batch'[u] = <<>>
    BY <1>0, <2>1, <2>2
  <2>6. LooperBatch' = pendingTasks
    BY <2>5, OneBatchNext
  <2>7. <<>> \o pendingTasks = pendingTasks /\ pendingTasks \o <<>> = pendingTasks
    BY <1>0
  <2>8. QED
    BY <2>1, <2>4, <2>6, <2>7 DEF Executor!vars
<1>6. ASSUME NEW t \in Threads, Executes(t) PROVE Executor!RunHead
  <2>1. PICK s, p : s = batch[t] /\ p = pendingTasks
    OBVIOUS
  <2>2. /\ pc[t] = "tasks" /\ s # <<>> /\ s \in Seq(AllTasks) /\ p \in Seq(AllTasks)
        /\ executed' = Append(executed, Head(s)) /\ pendingTasks' = p
        /\ batch' = [batch EXCEPT ![t] = Tail(s)]
    BY <1>0, <1>6, <2>1 DEF Executes
  <2>3. \A u \in Threads : u # t => batch[u] = <<>>
    BY <1>0, <2>2, SoleBatch
  <2>4. LooperBatch = s
    BY <2>1, <2>3, OneBatch
  <2>5. batch'[t] = Tail(s) /\ \A u \in Threads : u # t => batch'[u] = <<>>
    BY <1>0, <2>2, <2>3
  <2>6. LooperBatch' = Tail(s)
    BY <2>5, OneBatchNext
  <2>7. s \o p # <<>> /\ Head(s \o p) = Head(s) /\ Tail(s \o p) = Tail(s) \o p
    BY <2>2, HeadOfConcat
  <2>8. QED
    BY <2>1, <2>2, <2>4, <2>6, <2>7 DEF Executor!RunHead
<1>7. ASSUME NEW t \in Threads, Inline(t) \/ Queues(t) PROVE Executor!Next
  <2>1. PICK k : k = arg[t] /\ k \in Tasks /\ ~Handed(k)
    <3>1. Carries(t)
      BY <1>7 DEF Inline, Queues, CallDone
    <3>2. QED
      BY <3>1 DEF IInv, CallCarriesTask, ExecInv, CarriedOnce, Carries
  <2>2. k \notin Executor!Accepted /\ k \in AllTasks
    BY <1>1, <2>1
  <2>3. LooperBatch' = LooperBatch
    BY <1>7 DEF Inline, Queues, CallDone, LooperBatch
  <2>4. CASE Inline(t)
    <3>1. executed' = Append(executed, k) /\ pendingTasks' = pendingTasks
      BY <2>1, <2>4 DEF Inline
    <3>2. Executor!RunInline(k)
      BY <2>2, <2>3, <3>1 DEF Executor!RunInline
    <3>3. QED
      BY <2>2, <3>2 DEF Executor!Next
  <2>5. CASE Queues(t)
    <3>1. executed' = executed /\ pendingTasks' = Append(pendingTasks, k)
      BY <2>1, <2>5 DEF Queues
    <3>2. LooperBatch \in Seq(AllTasks)
      BY <1>0 DEF LooperBatch
    <3>3. LooperBatch \o Append(pendingTasks, k) = Append(LooperBatch \o pendingTasks, k)
      BY <1>0, <2>2, <3>2, AppendOfConcat
    <3>4. Executor!Submit(k)
      BY <2>2, <2>3, <3>1, <3>3 DEF Executor!Submit
    <3>5. QED
      BY <2>2, <3>4 DEF Executor!Next
  <2>6. QED
    BY <1>7, <2>4, <2>5
<1>8. QED
  BY <1>0, <1>3, <1>4, <1>5, <1>6, <1>7, StepKinds DEF Executor!Next

\* For any threads and tasks, while one loop() at a time runs: every task handed to
\* runInLoop or queueInLoop is executed at most once, the queued ones in the order
\* in which they were pushed, although doPendingTasks swaps the queue away and
\* callbacks push to it and call runInLoop while the batch is being executed.
THEOREM EventLoopImplementsExecutor == ASSUME JoinFirst PROVE Spec => ImplementsExecutor
<1>1. Init => IInv
  BY InitIInv
<1>2. IInv /\ [Next]_vars => IInv'
  BY StepIInv
<1>3. Init => ExecInv
  <2>1. SUFFICES ASSUME Init PROVE ExecInv
    OBVIOUS
  <2>2. Elems(<<RegTask>>) = {RegTask}
    BY DEF Elems
  <2>3. \A k \in Tasks : ~Handed(k)
    BY <2>1, <2>2, ElemsEmpty, ValueAssumption DEF Init, Handed
  <2>4. QED
    BY <2>1, <2>3 DEF Init, ExecInv, BatchInTasks, CarriedOnce, HandedIsIssued, Carries
<1>4. IInv /\ IInv' /\ ExecInv /\ [Next]_vars => ExecInv'
  BY StepExec
<1>5. Init => Executor!Init
  <2>1. SUFFICES ASSUME Init PROVE Executor!Init
    OBVIOUS
  <2>2. LooperBatch = <<>> /\ pendingTasks = <<RegTask>> /\ executed = <<>>
    BY <2>1 DEF Init, LooperBatch
  <2>3. <<>> \o <<RegTask>> = <<RegTask>>
    OBVIOUS
  <2>4. QED
    BY <2>2, <2>3 DEF Executor!Init, AllTasks
<1>6. IInv /\ IInv' /\ ExecInv /\ ExecInv' /\ [Next]_vars => [Executor!Next]_(Executor!vars)
  BY StepExecutor
<1>7. QED
  BY <1>1, <1>2, <1>3, <1>4, <1>5, <1>6, PTL DEF Spec, ImplementsExecutor, Executor!Spec

-----------------------------------------------------------------------------
(***************************************************************************)
(* EventLoops, the pool of such loops: allocLoop is a fair round robin for *)
(* any number of loops, and EventLoops::loop returns after all of them.    *)
(***************************************************************************)
\* Only given and next_ matter to the allocation.
PoolRR ==
    /\ given \in [0..N -> Nat]
    /\ next \in 0..N /\ (N > 0 => next < N)
    /\ RoundRobin

\* The two cases of next_ = (next_ + 1) % size_.
LEMMA ModStep ==
    ASSUME NEW n \in Nat, n > 0, NEW a \in 0..(n - 1)
    PROVE  (a + 1) % n = IF a + 1 = n THEN 0 ELSE a + 1
<1>1. n % n = 0
  OBVIOUS
<1>2. a + 1 < n => (a + 1) % n = a + 1
  OBVIOUS
<1>3. QED
  BY <1>1, <1>2

\* A connection accepted while loops are running moves the round robin on by one.
LEMMA NewConnectionRR == PoolRR /\ NewConnection => PoolRR'
<1> SUFFICES ASSUME PoolRR, NewConnection PROVE PoolRR'
  OBVIOUS
<1> USE NAssumption
<1>1. CASE PoolAbort
  BY <1>1 DEF PoolAbort, connVars, PoolRR, RoundRobin
<1>2. CASE ~PoolAbort /\ N = 0
  <2>1. given' = [given EXCEPT ![0] = given[0] + 1] /\ next' = next
    BY <1>2 DEF NewConnection, Alloc, Advance, Base
  <2>2. QED
    BY <1>2, <2>1 DEF PoolRR, RoundRobin, Subs
<1>3. CASE ~PoolAbort /\ N > 0
  <2>1. given' = [given EXCEPT ![next] = given[next] + 1] /\ next' = (next + 1) % N
    BY <1>3 DEF NewConnection, Alloc, Advance
  <2>2. next \in 0..(N - 1)
    BY <1>3 DEF PoolRR
  <2>3. next' = IF next + 1 = N THEN 0 ELSE next + 1
    BY <1>3, <2>1, <2>2, ModStep
  <2>4. given' \in [0..N -> Nat] /\ given'[next] = given[next] + 1
    BY <2>1, <2>2 DEF PoolRR
  <2>5. \A l \in Subs : l # next => given'[l] = given[l]
    BY <2>1 DEF PoolRR, Subs
  <2>6. ASSUME NEW l \in Subs
        PROVE  /\ l < next' => given'[l] = given'[N - 1] + 1
               /\ l >= next' => given'[l] = given'[N - 1]
    <3>1. N - 1 \in Subs /\ given[l] \in Nat /\ given[N - 1] \in Nat /\ l \in 0..(N - 1)
      BY <1>3 DEF PoolRR, Subs
    <3>2. CASE next + 1 = N
      <4>1. next = N - 1 /\ next' = 0 /\ given'[N - 1] = given[N - 1] + 1
        BY <1>3, <2>2, <2>3, <2>4, <3>2
      <4>2. l # next => l < next /\ given'[l] = given[l] /\ given[l] = given[N - 1] + 1
        BY <2>5, <3>1, <4>1 DEF PoolRR, RoundRobin
      <4>3. QED
        BY <3>1, <4>1, <4>2
    <3>3. CASE next + 1 # N
      BY <2>2, <2>3, <2>4, <2>5, <3>1, <3>3 DEF PoolRR, RoundRobin
    <3>4. QED
      BY <3>2, <3>3
  <2>7. QED
    BY <1>3, <2>2, <2>3, <2>4, <2>6 DEF PoolRR, RoundRobin, Subs
<1>4. QED
  BY <1>1, <1>2, <1>3

LEMMA StepRR == PoolRR /\ [PoolNext]_poolVars => PoolRR'
<1> SUFFICES ASSUME PoolRR, [PoolNext]_poolVars PROVE PoolRR'
  OBVIOUS
<1>1. CASE NewConnection
  BY <1>1, NewConnectionRR
<1>2. CASE ~NewConnection
  <2>1. UNCHANGED <<given, next>>
    BY <1>2 DEF PoolNext, MainStep, PoolLoopStep, PoolTerminated, Spawn, EnterBase, BaseReturned, Join,
       Start, PoolEntryAssert, PoolWhileTest, RunBatch, PoolPollReturn, PoolQuit, QuitOne, PoolAbort,
       connVars, poolVars
  <2>2. QED
    BY <2>1 DEF PoolRR, RoundRobin, Subs
<1>3. QED
  BY <1>1, <1>2

\* Whatever size_ is, and however accepting interleaves with starting and
\* stopping the loops, allocLoop never lets one sub-loop get two connections
\* ahead of another one.
THEOREM AllocationBalanced == PoolSpec => []Balanced
<1>1. PoolInit => PoolRR
  BY NAssumption DEF PoolInit, PoolRR, RoundRobin, Loops, Subs
<1>2. PoolRR => Balanced
  <2> SUFFICES ASSUME PoolRR, NEW k \in Subs, NEW l \in Subs
               PROVE  given[k] <= given[l] + 1
    BY DEF Balanced
  <2>1. given[k] \in Nat /\ given[l] \in Nat /\ given[N - 1] \in Nat
    BY NAssumption DEF PoolRR, Subs
  <2>2. next \in Nat /\ k \in Nat /\ l \in Nat
    BY NAssumption DEF PoolRR, Subs
  <2>3. QED
    BY <2>1, <2>2 DEF PoolRR, RoundRobin
<1>3. QED
  BY <1>1, <1>2, StepRR, PTL DEF PoolSpec

-----------------------------------------------------------------------------
(***************************************************************************)
(* The threads: a loop leaves only when its flag is set, which nobody      *)
(* takes back from a loop that has left, and the main thread passes the    *)
(* base loop and then one joined thread after the other.                   *)
(***************************************************************************)
PoolType ==
    /\ mpc \in {"spawn", "base", "join", "done"} /\ idx \in 0..N
    /\ lpc \in [Loops -> {"none", "created", "entry", "while", "batch", "poll", "left"}]
    /\ stop \in [Loops -> BOOLEAN]
    /\ qidx \in 0..(N + 1)

PoolLife ==
    /\ PoolType
    /\ \A l \in Loops : lpc[l] = "left" => stop[l]
    /\ mpc = "base" => idx = 0
    /\ mpc \in {"join", "done"} => lpc[Base] = "left"
    /\ mpc = "join" => \A l \in Subs : l < idx => lpc[l] = "left"
    /\ mpc = "done" => \A l \in Subs : lpc[l] = "left"

LEMMA StepLife == PoolLife /\ [PoolNext]_poolVars => PoolLife'
<1> SUFFICES ASSUME PoolLife, [PoolNext]_poolVars PROVE PoolLife'
  OBVIOUS
<1> USE NAssumption DEF PoolLife, PoolType, Loops, Subs, Base, mainVars, quitVars, connVars
<1>1. CASE Spawn
  BY <1>1 DEF Spawn
<1>2. CASE EnterBase
  BY <1>2 DEF EnterBase
<1>3. CASE BaseReturned
  BY <1>3 DEF BaseReturned
<1>4. CASE Join
  BY <1>4 DEF Join
<1>5. CASE NewConnection
  BY <1>5 DEF NewConnection, PoolAbort
<1>6. CASE PoolQuit
  BY <1>6 DEF PoolQuit
<1>7. CASE QuitOne
  BY <1>7 DEF QuitOne
<1>8. ASSUME NEW l \in Loops, PoolLoopStep(l) PROVE PoolLife'
  <2>1. CASE Start(l)
    BY <2>1 DEF Start
  <2>2. CASE PoolEntryAssert(l)
    BY <2>2 DEF PoolEntryAssert, PoolAbort
  <2>3. CASE PoolWhileTest(l)
    BY <2>3 DEF PoolWhileTest
  <2>4. CASE RunBatch(l)
    BY <2>4 DEF RunBatch, PoolAbort
  <2>5. CASE PoolPollReturn(l)
    BY <2>5 DEF PoolPollReturn
  <2>6. QED
    BY <1>8, <2>1, <2>2, <2>3, <2>4, <2>5 DEF PoolLoopStep
<1>9. CASE PoolTerminated \/ UNCHANGED poolVars
  BY <1>9 DEF PoolTerminated, poolVars
<1>10. QED
  BY <1>1, <1>2, <1>3, <1>4, <1>5, <1>6, <1>7, <1>8, <1>9 DEF PoolNext, MainStep

\* EventLoops::loop returns only when the base loop has returned and every thread
\* it started is joined: no loop runs any more, and each was told to stop.  For
\* any size_, and wherever quit() strikes.
THEOREM LoopReturnsLast == PoolSpec => []ReturnedMeansStopped
<1>1. PoolInit => PoolLife
  BY NAssumption DEF PoolInit, PoolLife, PoolType, Loops, Subs, Base
<1>2. PoolLife => ReturnedMeansStopped
  <2> SUFFICES ASSUME PoolLife, mpc = "done", NEW l \in Loops PROVE lpc[l] = "left" /\ stop[l]
    BY DEF ReturnedMeansStopped
  <2>1. l = Base \/ l \in Subs
    BY NAssumption DEF Loops, Subs, Base
  <2>2. QED
    BY <2>1 DEF PoolLife
<1>3. QED
  BY <1>1, <1>2, StepLife, PTL DEF PoolSpec
=============================================================================
