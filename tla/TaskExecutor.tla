---------------------------- MODULE TaskExecutor ----------------------------
(***************************************************************************)
(* What EventLoop promises to the callers of runInLoop and queueInLoop,    *)
(* without threads, batches or wakeups: a task handed over is executed     *)
(* once, and tasks that go through the queue are executed in the order in  *)
(* which they entered it.  A task submitted by the loop thread itself with *)
(* runInLoop is executed on the spot and overtakes the queue.              *)
(***************************************************************************)
EXTENDS Sequences

CONSTANT Task           \* everything that may be handed to the executor

VARIABLES
    queue,              \* accepted, not yet executed
    done                \* executed, in execution order

vars == <<queue, done>>

Accepted == {queue[i] : i \in DOMAIN queue} \cup {done[i] : i \in DOMAIN done}

TypeOK == queue \in Seq(Task) /\ done \in Seq(Task)

\* The queue may hold work from the start: the constructor submits some.
Init == queue \in {<<k>> : k \in Task} /\ done = <<>>

Submit(k) ==
    /\ k \notin Accepted
    /\ queue' = Append(queue, k)
    /\ UNCHANGED done

RunInline(k) ==
    /\ k \notin Accepted
    /\ done' = Append(done, k)
    /\ UNCHANGED queue

RunHead ==
    /\ queue # <<>>
    /\ done' = Append(done, Head(queue))
    /\ queue' = Tail(queue)

Next == RunHead \/ \E k \in Task : Submit(k) \/ RunInline(k)

Spec == Init /\ [][Next]_vars
=============================================================================
