----------------------------- MODULE TimerQueue -----------------------------
(***************************************************************************)
(* miniduo::TimerQueue with EventLoop::runAt, runAfter, runEvery and       *)
(* cancel: timers are kept sorted by expiration, and one timerfd is armed  *)
(* for the earliest of them.                                               *)
(*                                                                         *)
(* The loop thread calls addTimer and cancelTimer directly, from the       *)
(* callbacks of timers and of other channels; the calls of other threads   *)
(* go through the queue of the loop.  One unit of time is the 100us below  *)
(* which resetTimerfd never goes.  Time passes between any two steps.      *)
(*                                                                         *)
(* There is one clock here.  The code reads the system clock and arms a    *)
(* timerfd of CLOCK_MONOTONIC by the difference: as long as nobody sets    *)
(* the system clock, the two advance together.                             *)
(***************************************************************************)
EXTENDS Integers, Sequences, FiniteSets, SequencesExt

CONSTANTS
    Timers,         \* the timers the program creates
    Delays,         \* how far in the future they are set
    Intervals,      \* interval_; 0: not repeated
    MaxTime,        \* bound: timers are created, and time passes freely, until then
    Slack           \* bound: so much longer time passes, but only while the loop sleeps

ASSUME TimeAssumption ==
    /\ IsFiniteSet(Timers)
    /\ Delays \subseteq Nat /\ Intervals \subseteq Nat
    /\ MaxTime \in Nat /\ Slack \in Nat

VARIABLES
    now,
    exp,            \* expiration_, per timer
    interval,       \* interval_, per timer
    timers,         \* timers_; its order is that of exp
    timerfd,        \* when timerfd_ becomes readable; 0: disarmed
    pending,        \* queued addTimer and cancelTimer calls
    reported,       \* epoll_wait reported timerfdChannel_, handleRead is due
    handling,       \* inside handleRead's loop over the expired timers
    expired,        \* its vector
    left,           \* the part of it not run yet
    readAt,         \* handleRead's now
    created,        \* timers created so far
    cancels,        \* "no"; cancelTimer ran: "batch" (before the end of the batch that
                    \* holds the timer), "early" (before its queued addTimer), "final"
    fired           \* how often the callback ran

timerVars == <<exp, interval, timers, timerfd>>
loopVars == <<reported, handling, expired, left, readAt>>
vars == <<now, timerVars, pending, loopVars, created, cancels, fired>>

Add == "add"
Cancel == "cancel"

Init ==
    /\ now = 1
    /\ exp = [k \in Timers |-> 0] /\ interval = [k \in Timers |-> 0]
    /\ timers = {} /\ timerfd = 0
    /\ pending = <<>>
    /\ reported = FALSE /\ handling = FALSE /\ expired = <<>> /\ left = <<>> /\ readAt = 0
    /\ created = {}
    /\ cancels = [k \in Timers |-> "no"]
    /\ fired = [k \in Timers |-> 0]

Earliest(S, e) == CHOOSE x \in {e[k] : k \in S} : \A k \in S : x <= e[k]

\* resetTimerfd: no sooner than 100us from now
Arm(when) == IF when > now THEN when ELSE now + 1

(***************************************************************************)
(* addTimer and insert; cancelTimer                                        *)
(***************************************************************************)
\* Bug variant: the timerfd is armed only when it was not armed at all.
AddTimerIfIdle(k, e) ==
    /\ timerfd' = IF timers = {} THEN Arm(e[k]) ELSE timerfd
    /\ timers' = timers \cup {k}

AddTimer(k, e) ==
    /\ timerfd' = IF timers = {} \/ e[k] < Earliest(timers, e) THEN Arm(e[k]) ELSE timerfd
    /\ timers' = timers \cup {k}

\* The weak_ptr can be locked while a queued addTimer, timers_ or the vector of
\* expired timers holds the timer.
QueuedAdd(k) == \E i \in DOMAIN pending : pending[i] = <<Add, k>>
Alive(k) == QueuedAdd(k) \/ k \in timers \/ k \in ToSet(expired)

CancelState(k) ==
    CASE k \in ToSet(expired) -> "batch" [] QueuedAdd(k) -> "early" [] OTHER -> "final"

\* Bug variant: a timer that is not in the set is left alone.
CancelTimerOnlySet(k) ==
    /\ timers' = timers \ {k}
    /\ cancels' = [cancels EXCEPT ![k] = CancelState(k)]
    /\ UNCHANGED <<exp, interval, timerfd>>

CancelTimer(k) ==
    /\ timers' = timers \ {k}
    /\ interval' = IF Alive(k) /\ k \notin timers THEN [interval EXCEPT ![k] = 0] ELSE interval
    /\ cancels' = [cancels EXCEPT ![k] = CancelState(k)]
    /\ UNCHANGED <<exp, timerfd>>

(***************************************************************************)
(* runAt / runAfter / runEvery and cancel, by the loop thread and by other *)
(* threads.                                                                *)
(***************************************************************************)
\* runEvery: the first expiration is one interval ahead.
Create(k, d, i) ==
    /\ k \notin created /\ now <= MaxTime
    /\ i > 0 => d = i
    /\ created' = created \cup {k}
    /\ exp' = [exp EXCEPT ![k] = now + d]
    /\ interval' = [interval EXCEPT ![k] = i]

RunAfterQueued(k, d, i) ==
    /\ Create(k, d, i)
    /\ pending' = Append(pending, <<Add, k>>)
    /\ UNCHANGED <<now, timers, timerfd, loopVars, cancels, fired>>

\* Callbacks of other channels run before handleRead, those of timers during it.
InCallback == handling => Len(left) < Len(expired)

RunAfterInLoop(k, d, i) ==
    /\ InCallback
    /\ Create(k, d, i)
    /\ AddTimer(k, exp')
    /\ UNCHANGED <<now, pending, loopVars, cancels, fired>>

MayCancel(k) == k \in created /\ cancels[k] = "no"

CancelQueued(k) ==
    /\ MayCancel(k) /\ <<Cancel, k>> \notin ToSet(pending)
    /\ pending' = Append(pending, <<Cancel, k>>)
    /\ UNCHANGED <<now, timerVars, loopVars, created, cancels, fired>>

CancelInLoop(k) ==
    /\ InCallback
    /\ MayCancel(k)
    /\ CancelTimer(k)
    /\ UNCHANGED <<now, pending, loopVars, created, fired>>

RunQueued ==
    /\ pending # <<>> /\ ~reported /\ ~handling
    /\ LET c == Head(pending)[1] k == Head(pending)[2] IN
       \/ c = Add /\ AddTimer(k, exp) /\ UNCHANGED <<exp, interval, cancels>>
       \/ c = Cancel /\ CancelTimer(k)
    /\ pending' = Tail(pending)
    /\ UNCHANGED <<now, loopVars, created, fired>>

(***************************************************************************)
(* handleRead: getExpired, the callbacks, reset                            *)
(***************************************************************************)
Readable == timerfd # 0 /\ timerfd <= now

Poll ==
    /\ Readable /\ ~reported /\ ~handling
    /\ reported' = TRUE
    /\ UNCHANGED <<now, timerVars, pending, handling, expired, left, readAt, created, cancels, fired>>

\* Bug variant: all due timers are erased, but only one is copied out.
SortedOne(S) == {s \in {<<>>} \cup {<<k>> : k \in S} : S # {} => s # <<>>}

SortedByExp(S) ==
    {s \in SetToSeqs(S) : \A i, j \in DOMAIN s : i < j => exp[s[i]] <= exp[s[j]]}

\* getExpired's sentry.  Bug variant: one unit further.
DueSoon == {k \in timers : exp[k] <= now + 1}

Due == {k \in timers : exp[k] <= now}

\* The read disarms the timerfd, unless a callback that ran since epoll_wait
\* armed it anew: then it fails and the new setting stays.
HandleRead ==
    /\ reported /\ ~handling
    /\ \E s \in SortedByExp(Due) : expired' = s /\ left' = s
    /\ timers' = timers \ Due
    /\ timerfd' = IF Readable THEN 0 ELSE timerfd
    /\ reported' = FALSE /\ handling' = TRUE /\ readAt' = now
    /\ UNCHANGED <<now, exp, interval, pending, created, cancels, fired>>

RunTimer ==
    /\ handling /\ left # <<>>
    /\ fired' = [fired EXCEPT ![Head(left)] = @ + 1]
    /\ left' = Tail(left)
    /\ UNCHANGED <<now, timerVars, pending, reported, handling, expired, readAt, created, cancels>>

Repeat == {k \in ToSet(expired) : interval[k] > 0}

Restarted == [k \in Timers |-> IF k \in Repeat THEN readAt + interval[k] ELSE exp[k]]

Rearm(S) == IF S # {} THEN Arm(Earliest(S, Restarted)) ELSE timerfd

Reset ==
    /\ handling /\ left = <<>>
    /\ exp' = Restarted
    /\ timers' = timers \cup Repeat
    /\ timerfd' = Rearm(timers \cup Repeat)
    /\ handling' = FALSE /\ expired' = <<>>
    /\ cancels' = [k \in Timers |-> IF cancels[k] = "batch" THEN "final" ELSE cancels[k]]
    /\ UNCHANGED <<now, interval, pending, reported, left, readAt, created, fired>>

Asleep == pending = <<>> /\ ~Readable /\ ~reported /\ ~handling

Tick ==
    /\ now < MaxTime \/ (Asleep /\ now < MaxTime + Slack)
    /\ now' = now + 1
    /\ UNCHANGED <<timerVars, pending, loopVars, created, cancels, fired>>

-----------------------------------------------------------------------------
Call ==
    \E k \in Timers :
      \/ \E d \in Delays, i \in Intervals : RunAfterQueued(k, d, i) \/ RunAfterInLoop(k, d, i)
      \/ CancelQueued(k) \/ CancelInLoop(k)

LoopStep == RunQueued \/ Poll \/ HandleRead \/ RunTimer \/ Reset

Next == Call \/ LoopStep \/ Tick

Spec == Init /\ [][Next]_vars

\* Time passes and the loop thread keeps running; nobody has to set a timer.
FairSpec == Spec /\ WF_vars(LoopStep) /\ WF_vars(Tick)

-----------------------------------------------------------------------------
(***************************************************************************)
(* Properties                                                              *)
(***************************************************************************)

\* Whenever the loop can go to sleep with timers in timers_, the timerfd is armed
\* and does not oversleep the earliest of them: cancelling, callbacks that set
\* timers, timers set in the past and spurious expirations included.
ArmedForEarliest ==
    ~handling /\ timers # {} =>
      /\ timerfd # 0
      /\ timerfd <= Earliest(timers, exp) \/ timerfd <= now + 1

\* No callback runs before the expiration it was set for, and none a second time
\* unless the timer repeats.
FiresWhenDue ==
    [][\A k \in Timers : fired'[k] # fired[k] =>
         exp[k] <= now /\ (fired[k] = 0 \/ interval[k] > 0 \/ cancels[k] # "no")]_vars

\* cancel() is final: a callback does not run any more once cancelTimer has
\* returned, except that a timer already taken out for execution still runs in
\* that round (the comment at timer.cpp:127), and that a timer whose addTimer was
\* still queued runs once.
CancelIsFinal ==
    [][\A k \in Timers : fired'[k] # fired[k] =>
         cancels[k] # "final" /\ (cancels[k] = "early" => fired[k] = 0)]_vars

\* A timer that was set is run, unless it is cancelled before: whoever set it,
\* however late its addTimer was, and whatever else is set and cancelled meanwhile.
TimerFires == \A k \in Timers : k \in created ~> (fired[k] > 0 \/ cancels[k] # "no")
=============================================================================
