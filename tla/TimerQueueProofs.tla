-------------------------- MODULE TimerQueueProofs --------------------------
(***************************************************************************)
(* The timerfd never oversleeps the earliest timer, no callback runs early *)
(* or once too often, and cancel() is final, for any finite set of timers, *)
(* any delays and intervals, and any interleaving of the loop thread with  *)
(* the threads that set and cancel timers.                                 *)
(***************************************************************************)
EXTENDS TimerQueue, SequenceTheorems, FiniteSetTheorems, WellFoundedInduction, TLAPS

USE TimeAssumption

Calls == {Add, Cancel} \X Timers

TypeOK ==
    /\ now \in Nat
    /\ exp \in [Timers -> Nat] /\ interval \in [Timers -> Nat]
    /\ timers \subseteq Timers /\ timerfd \in Nat
    /\ pending \in Seq(Calls)
    /\ reported \in BOOLEAN /\ handling \in BOOLEAN
    /\ expired \in Seq(Timers) /\ left \in Seq(Timers) /\ readAt \in Nat
    /\ created \subseteq Timers
    /\ cancels \in [Timers -> {"no", "batch", "early", "final"}]
    /\ fired \in [Timers -> Nat]

\* The timerfd, said of every timer in place of the earliest.
ArmedForAll ==
    ~handling /\ timers # {} =>
      timerfd # 0 /\ (timerfd <= now + 1 \/ \A k \in timers : timerfd <= exp[k])

\* No timer is queued to be added twice, and none occurs twice in a batch.
AddsOnce(p) == \A i, j \in DOMAIN p : p[i] = p[j] /\ p[i][1] = Add => i = j
Distinct(s) == \A i, j \in DOMAIN s : s[i] = s[j] => i = j

\* A timer is in at most one place: queued, in timers_, or in the batch that runs.
OnePlace ==
    /\ AddsOnce(pending) /\ Distinct(left)
    /\ ToSet(left) \subseteq ToSet(expired)
    /\ ~handling => expired = <<>> /\ left = <<>>
    /\ \A k \in Timers :
         /\ <<Add, k>> \in ToSet(pending) => k \notin timers /\ k \notin ToSet(expired) /\ fired[k] = 0
         /\ k \in ToSet(expired) => k \notin timers

\* Only timers that were created are anywhere.
OnlyCreated ==
    \A k \in Timers :
      k \notin created =>
        /\ k \notin timers /\ k \notin ToSet(expired)
        /\ <<Add, k>> \notin ToSet(pending) /\ <<Cancel, k>> \notin ToSet(pending)
        /\ cancels[k] = "no" /\ fired[k] = 0

\* The timers of a batch were due when it was taken out.
BatchIsDue == \A k \in ToSet(expired) : exp[k] <= now

Gone(k) == k \notin timers /\ k \notin ToSet(left) /\ <<Add, k>> \notin ToSet(pending)

\* What cancelTimer leaves behind, and where a one-shot timer is after it ran.
CancelOK(k) ==
    /\ cancels[k] = "final" => Gone(k) /\ k \notin ToSet(expired)
    /\ cancels[k] = "batch" => k \in ToSet(expired) /\ interval[k] = 0
    /\ cancels[k] = "early" => interval[k] = 0
    /\ fired[k] > 0 /\ interval[k] = 0 /\ cancels[k] \in {"no", "early"} => Gone(k)

CancelInv == \A k \in Timers : CancelOK(k)

IInv == TypeOK /\ ArmedForAll /\ OnePlace /\ OnlyCreated /\ BatchIsDue /\ CancelInv

-----------------------------------------------------------------------------
(***************************************************************************)
(* The operators                                                           *)
(***************************************************************************)
\* A set of times has a least one.
LEMMA MinExists == ASSUME NEW S, S \subseteq Nat, S # {} PROVE \E x \in S : \A y \in S : x <= y
<1>1. PICK R : R = OpToRel(<, Nat)
  BY Zenon
<1>2. IsWellFoundedOn(R, Nat)
  BY <1>1, NatLessThanWellFounded, Zenon
<1>3. PICK x \in S : \A y \in S : ~(<<y, x>> \in R)
  BY <1>2, WFMin
<1>4. \A y \in S : ~(y < x)
  BY <1>1, <1>3 DEF OpToRel
<1>5. QED
  BY <1>3, <1>4

\* Earliest is the least expiration.
LEMMA EarliestIs ==
    ASSUME NEW S, S # {}, S \subseteq Timers, NEW e \in [Timers -> Nat]
    PROVE  /\ \E k \in S : Earliest(S, e) = e[k]
           /\ \A k \in S : Earliest(S, e) <= e[k]
<1> DEFINE T == {e[k] : k \in S}
<1>1. T \subseteq Nat /\ T # {}
  OBVIOUS
<1>2. \E x \in T : \A y \in T : x <= y
  BY <1>1, MinExists
<1>3. \E x \in T : \A k \in S : x <= e[k]
  BY <1>2
<1>4. Earliest(S, e) \in T /\ \A k \in S : Earliest(S, e) <= e[k]
  BY <1>3 DEF Earliest
<1>5. QED
  BY <1>4

\* Arming the timerfd
LEMMA ArmIs ==
    ASSUME now \in Nat, NEW when \in Nat
    PROVE  /\ Arm(when) \in Nat /\ Arm(when) # 0
           /\ Arm(when) <= now + 1 \/ Arm(when) = when
  BY DEF Arm

\* Queues and batches
LEMMA AppendSet ==
    ASSUME NEW S, NEW p \in Seq(S), NEW c \in S
    PROVE  /\ ToSet(Append(p, c)) = ToSet(p) \cup {c}
           /\ AddsOnce(p) /\ (c[1] = Add => c \notin ToSet(p)) => AddsOnce(Append(p, c))
<1> DEFINE q == Append(p, c)
<1>1. /\ Len(p) \in Nat /\ DOMAIN p = 1..Len(p) /\ DOMAIN q = 1..(Len(p) + 1)
      /\ q[Len(p) + 1] = c /\ \A i \in 1..Len(p) : q[i] = p[i]
  OBVIOUS
<1> HIDE DEF q
<1>2. \A i \in 1..(Len(p) + 1) : i = Len(p) + 1 \/ i \in 1..Len(p)
  BY <1>1
<1>3. ToSet(q) = ToSet(p) \cup {c}
  <2>1. ToSet(q) \subseteq ToSet(p) \cup {c}
    BY <1>1, <1>2 DEF ToSet
  <2>2. c \in ToSet(q)
    <3>1. Len(p) + 1 \in DOMAIN q
      BY <1>1
    <3>2. QED
      BY <1>1, <3>1 DEF ToSet
  <2>3. ToSet(p) \subseteq ToSet(q)
    <3>1. \A i \in 1..Len(p) : i \in DOMAIN q
      BY <1>1
    <3>2. QED
      BY <1>1, <3>1 DEF ToSet
  <2>4. QED
    BY <2>1, <2>2, <2>3
<1>4. ASSUME AddsOnce(p), c[1] = Add => c \notin ToSet(p),
             NEW i \in DOMAIN q, NEW j \in DOMAIN q, q[i] = q[j], q[i][1] = Add
      PROVE  i = j
  <2>1. \A n \in 1..Len(p) : c[1] = Add => p[n] # c
    BY <1>1, <1>4 DEF ToSet
  <2>2. QED
    BY <1>1, <1>2, <1>4, <2>1 DEF AddsOnce
<1>5. QED
  BY <1>3, <1>4 DEF AddsOnce, q

LEMMA TailSet ==
    ASSUME NEW S, NEW p \in Seq(S), p # <<>>
    PROVE  /\ Tail(p) \in Seq(S) /\ Head(p) \in S /\ Head(p) \in ToSet(p)
           /\ ToSet(Tail(p)) \subseteq ToSet(p)
           /\ AddsOnce(p) => AddsOnce(Tail(p)) /\ (Head(p)[1] = Add => Head(p) \notin ToSet(Tail(p)))
           /\ Distinct(p) => Distinct(Tail(p)) /\ Head(p) \notin ToSet(Tail(p))
<1> DEFINE q == Tail(p)
<1>1. /\ q \in Seq(S) /\ Head(p) \in S /\ Len(p) \in Nat /\ Len(p) > 0
      /\ DOMAIN p = 1..Len(p) /\ DOMAIN q = 1..(Len(p) - 1)
      /\ Head(p) = p[1] /\ \A i \in 1..(Len(p) - 1) : q[i] = p[i + 1]
  OBVIOUS
<1> HIDE DEF q
<1>2. \A i \in DOMAIN q : i + 1 \in DOMAIN p /\ i + 1 # 1 /\ q[i] = p[i + 1]
  BY <1>1
<1>3. ToSet(q) \subseteq ToSet(p) /\ 1 \in DOMAIN p /\ Head(p) \in ToSet(p)
  BY <1>1, <1>2 DEF ToSet
<1>4. ASSUME AddsOnce(p) PROVE AddsOnce(q) /\ (Head(p)[1] = Add => Head(p) \notin ToSet(q))
  <2>1. \A i \in DOMAIN q : p[1][1] = Add => q[i] # p[1]
    BY <1>2, <1>3, <1>4 DEF AddsOnce
  <2>2. ASSUME NEW i \in DOMAIN q, NEW j \in DOMAIN q, q[i] = q[j], q[i][1] = Add PROVE i = j
    <3>1. i + 1 = j + 1
      BY <1>2, <1>4, <2>2 DEF AddsOnce
    <3>2. QED
      BY <1>1, <3>1
  <2>3. QED
    BY <1>1, <2>1, <2>2 DEF AddsOnce, ToSet
<1>5. ASSUME Distinct(p) PROVE Distinct(q) /\ Head(p) \notin ToSet(q)
  <2>1. \A i \in DOMAIN q : q[i] # p[1]
    BY <1>2, <1>3, <1>5 DEF Distinct
  <2>2. ASSUME NEW i \in DOMAIN q, NEW j \in DOMAIN q, q[i] = q[j] PROVE i = j
    <3>1. i + 1 = j + 1
      BY <1>2, <1>5, <2>2 DEF Distinct
    <3>2. QED
      BY <1>1, <3>1
  <2>3. QED
    BY <1>1, <2>1, <2>2 DEF Distinct, ToSet
<1>6. QED
  BY <1>1, <1>3, <1>4, <1>5 DEF q

\* The vector getExpired returns holds due timers only, each once.
LEMMA SortedIs ==
    ASSUME NEW S, S \subseteq Timers, NEW s \in SortedByExp(S)
    PROVE  s \in Seq(Timers) /\ ToSet(s) \subseteq S /\ Distinct(s)
<1>1. Cardinality(S) \in Nat
  BY FS_Subset, FS_CardinalityType
<1>2. PICK n : n = Cardinality(S)
  OBVIOUS
<1>3. s \in [1..n -> S] /\ \A i, j \in 1..n : i # j => s[i] # s[j]
  BY <1>2 DEF SortedByExp, SetToSeqs
<1>4. QED
  BY <1>1, <1>2, <1>3 DEF ToSet, Distinct

LEMMA QueuedIs == \A k : QueuedAdd(k) <=> <<Add, k>> \in ToSet(pending)
  BY DEF QueuedAdd, ToSet

-----------------------------------------------------------------------------
(***************************************************************************)
(* The steps                                                               *)
(***************************************************************************)
LEMMA InitIInv == Init => IInv
<1> SUFFICES ASSUME Init PROVE IInv
  OBVIOUS
<1>1. ToSet(<<>>) = {} /\ AddsOnce(<<>>) /\ Distinct(<<>>)
  BY DEF ToSet, AddsOnce, Distinct
<1>2. TypeOK
  <2>1. <<>> \in Seq(Calls) /\ <<>> \in Seq(Timers)
    OBVIOUS
  <2>2. QED
    BY <2>1 DEF Init, TypeOK
<1>3. QED
  BY <1>1, <1>2 DEF Init, IInv, ArmedForAll, OnePlace, OnlyCreated, BatchIsDue, CancelInv, CancelOK, Gone

\* A new timer: nothing but its own expiration and interval changes.
LEMMA CreateEffect ==
    ASSUME IInv, NEW k \in Timers, NEW d \in Delays, NEW i \in Intervals, Create(k, d, i)
    PROVE  /\ k \notin created /\ created' = created \cup {k}
           /\ exp' \in [Timers -> Nat] /\ interval' \in [Timers -> Nat]
           /\ \A m \in Timers : m # k => exp'[m] = exp[m] /\ interval'[m] = interval[m]
           /\ k \notin timers /\ k \notin ToSet(expired) /\ k \notin ToSet(left)
           /\ <<Add, k>> \notin ToSet(pending)
           /\ cancels[k] = "no" /\ fired[k] = 0
<1>1. d \in Nat /\ i \in Nat /\ now \in Nat /\ exp \in [Timers -> Nat] /\ interval \in [Timers -> Nat]
  BY DEF IInv, TypeOK
<1>2. /\ k \notin created /\ created' = created \cup {k}
      /\ exp' = [exp EXCEPT ![k] = now + d] /\ interval' = [interval EXCEPT ![k] = i]
  BY DEF Create
<1>3. /\ exp' \in [Timers -> Nat] /\ interval' \in [Timers -> Nat]
      /\ \A m \in Timers : m # k => exp'[m] = exp[m] /\ interval'[m] = interval[m]
  BY <1>1, <1>2
<1>4. QED
  BY <1>2, <1>3 DEF IInv, OnlyCreated, OnePlace

LEMMA BatchType == ASSUME TypeOK PROVE ToSet(expired) \subseteq Timers /\ ToSet(left) \subseteq Timers
  BY DEF TypeOK, ToSet

LEMMA RunAfterQueuedStep ==
    ASSUME IInv, NEW k \in Timers, NEW d \in Delays, NEW i \in Intervals, RunAfterQueued(k, d, i)
    PROVE  IInv'
<1>1. Create(k, d, i) /\ pending' = Append(pending, <<Add, k>>)
  BY DEF RunAfterQueued
<1>2. UNCHANGED <<now, timers, timerfd, reported, handling, expired, left, readAt, cancels, fired>>
  BY DEF RunAfterQueued, loopVars
<1>3. /\ k \notin created /\ created' = created \cup {k}
      /\ exp' \in [Timers -> Nat] /\ interval' \in [Timers -> Nat]
      /\ \A m \in Timers : m # k => exp'[m] = exp[m] /\ interval'[m] = interval[m]
      /\ k \notin timers /\ k \notin ToSet(expired) /\ k \notin ToSet(left)
      /\ <<Add, k>> \notin ToSet(pending)
      /\ cancels[k] = "no" /\ fired[k] = 0
  BY <1>1, CreateEffect
<1>4. /\ pending' \in Seq(Calls) /\ AddsOnce(pending')
      /\ \A m \in Timers : m # k => (<<Add, m>> \in ToSet(pending') <=> <<Add, m>> \in ToSet(pending))
      /\ \A m \in Timers : <<Cancel, m>> \in ToSet(pending') <=> <<Cancel, m>> \in ToSet(pending)
  <2>1. PICK c : c = <<Add, k>>
    OBVIOUS
  <2>2. pending \in Seq(Calls) /\ AddsOnce(pending) /\ c \in Calls /\ c \notin ToSet(pending)
    BY <1>3, <2>1 DEF IInv, TypeOK, OnePlace, Calls
  <2>3. pending' \in Seq(Calls) /\ AddsOnce(pending') /\ ToSet(pending') = ToSet(pending) \cup {c}
    <3>1. pending' = Append(pending, c)
      BY <1>1, <2>1
    <3>2. pending' \in Seq(Calls)
      BY <2>2, <3>1
    <3>3. QED
      BY <2>2, <3>1, <3>2, AppendSet
  <2>4. QED
    BY <2>1, <2>3 DEF Add, Cancel
<1>5. TypeOK'
  BY <1>2, <1>3, <1>4 DEF IInv, TypeOK
<1>6. ArmedForAll'
  BY <1>2, <1>3 DEF IInv, ArmedForAll, TypeOK
<1>7. OnePlace'
  BY <1>2, <1>3, <1>4 DEF IInv, OnePlace
<1>8. OnlyCreated'
  BY <1>2, <1>3, <1>4 DEF IInv, OnlyCreated, Add, Cancel
<1>9. BatchIsDue'
  BY <1>2, <1>3, BatchType DEF IInv, BatchIsDue
<1>10. CancelInv'
  <2> SUFFICES ASSUME NEW m \in Timers PROVE CancelOK(m)'
    BY DEF CancelInv
  <2>1. CASE m = k
    BY <1>2, <1>3, <2>1 DEF CancelOK
  <2>2. CASE m # k
    <3>1. Gone(m)' <=> Gone(m)
      BY <1>2, <1>4, <2>2 DEF Gone
    <3>2. QED
      BY <1>2, <1>3, <2>2, <3>1 DEF IInv, CancelInv, CancelOK
  <2>3. QED
    BY <2>1, <2>2
<1>11. QED
  BY <1>5, <1>6, <1>7, <1>8, <1>9, <1>10 DEF IInv

\* addTimer arms the timerfd for a timer that is the earliest now, and leaves it
\* alone otherwise.
LEMMA AddTimerArms ==
    ASSUME IInv, NEW k \in Timers, NEW e \in [Timers -> Nat], \A m \in timers : e[m] = exp[m],
           AddTimer(k, e)
    PROVE  /\ timers' = timers \cup {k} /\ timerfd' \in Nat
           /\ ~handling => /\ timerfd' # 0
                           /\ timerfd' <= now + 1 \/ \A m \in timers' : timerfd' <= e[m]
<1>0. /\ now \in Nat /\ timerfd \in Nat /\ timers \subseteq Timers /\ e[k] \in Nat
      /\ \A m \in timers : e[m] \in Nat
  BY DEF IInv, TypeOK
<1>1. timers' = timers \cup {k}
  BY DEF AddTimer
<1>2. CASE timers = {}
  <2>1. timerfd' = Arm(e[k])
    BY <1>2 DEF AddTimer
  <2>2. timerfd' \in Nat /\ timerfd' # 0 /\ (timerfd' <= now + 1 \/ timerfd' = e[k])
    BY <1>0, <2>1, ArmIs
  <2>3. QED
    BY <1>0, <1>1, <1>2, <2>2
<1>3. CASE timers # {}
  <2>1. PICK x : x = Earliest(timers, e)
    OBVIOUS
  <2>2. (\E m \in timers : x = e[m]) /\ (\A m \in timers : x <= e[m])
    BY <1>0, <1>3, <2>1, EarliestIs
  <2>3. x \in Nat
    BY <1>0, <2>2
  <2>4. CASE e[k] < x
    <3>1. timerfd' = Arm(e[k])
      BY <2>1, <2>4 DEF AddTimer
    <3>2. timerfd' \in Nat /\ timerfd' # 0 /\ (timerfd' <= now + 1 \/ timerfd' = e[k])
      BY <1>0, <3>1, ArmIs
    <3>3. \A m \in timers' : e[k] <= e[m]
      BY <1>0, <1>1, <2>2, <2>3, <2>4
    <3>4. QED
      BY <1>1, <3>2, <3>3
  <2>5. CASE ~(e[k] < x)
    <3>1. timerfd' = timerfd
      BY <1>3, <2>1, <2>5 DEF AddTimer
    <3>2. ~handling => timerfd # 0 /\ (timerfd <= now + 1 \/ \A m \in timers : timerfd <= e[m])
      BY <1>3 DEF IInv, ArmedForAll
    <3>3. (\A m \in timers : timerfd <= e[m]) => timerfd <= e[k]
      BY <1>0, <2>2, <2>3, <2>5
    <3>4. QED
      BY <1>0, <1>1, <3>1, <3>2, <3>3
  <2>6. QED
    BY <2>4, <2>5
<1>4. QED
  BY <1>2, <1>3

LEMMA RunAfterInLoopStep ==
    ASSUME IInv, NEW k \in Timers, NEW d \in Delays, NEW i \in Intervals, RunAfterInLoop(k, d, i)
    PROVE  IInv'
<1>1. Create(k, d, i) /\ AddTimer(k, exp')
  BY DEF RunAfterInLoop
<1>2. UNCHANGED <<now, pending, reported, handling, expired, left, readAt, cancels, fired>>
  BY DEF RunAfterInLoop, loopVars
<1>3. /\ k \notin created /\ created' = created \cup {k}
      /\ exp' \in [Timers -> Nat] /\ interval' \in [Timers -> Nat]
      /\ \A m \in Timers : m # k => exp'[m] = exp[m] /\ interval'[m] = interval[m]
      /\ k \notin timers /\ k \notin ToSet(expired) /\ k \notin ToSet(left)
      /\ <<Add, k>> \notin ToSet(pending)
      /\ cancels[k] = "no" /\ fired[k] = 0
  BY <1>1, CreateEffect
<1>4. /\ timers' = timers \cup {k} /\ timerfd' \in Nat
      /\ ~handling => /\ timerfd' # 0
                      /\ timerfd' <= now + 1 \/ \A m \in timers' : timerfd' <= exp'[m]
  <2>1. PICK e : e = exp'
    OBVIOUS
  <2>2. e \in [Timers -> Nat] /\ (\A m \in timers : e[m] = exp[m]) /\ AddTimer(k, e)
    <3>1. timers \subseteq Timers
      BY DEF IInv, TypeOK
    <3>2. AddTimer(k, e)
      BY <1>1, <2>1 DEF AddTimer
    <3>3. QED
      BY <1>3, <2>1, <3>1, <3>2
  <2>3. QED
    BY <2>1, <2>2, AddTimerArms
<1>5. TypeOK'
  BY <1>2, <1>3, <1>4 DEF IInv, TypeOK
<1>6. ArmedForAll'
  BY <1>2, <1>4 DEF ArmedForAll
<1>7. OnePlace'
  BY <1>2, <1>3, <1>4 DEF IInv, OnePlace
<1>8. OnlyCreated'
  BY <1>2, <1>3, <1>4 DEF IInv, OnlyCreated
<1>9. BatchIsDue'
  BY <1>2, <1>3, BatchType DEF IInv, BatchIsDue
<1>10. CancelInv'
  <2> SUFFICES ASSUME NEW m \in Timers PROVE CancelOK(m)'
    BY DEF CancelInv
  <2>1. CASE m = k
    BY <1>2, <1>3, <2>1 DEF CancelOK
  <2>2. CASE m # k
    <3>1. Gone(m)' <=> Gone(m)
      BY <1>2, <1>4, <2>2 DEF Gone
    <3>2. QED
      BY <1>2, <1>3, <2>2, <3>1 DEF IInv, CancelInv, CancelOK
  <2>3. QED
    BY <2>1, <2>2
<1>11. QED
  BY <1>5, <1>6, <1>7, <1>8, <1>9, <1>10 DEF IInv

\* cancelTimer, called directly or out of the queue: the timer leaves timers_, or
\* its interval is cleared where it is, so that it does not come back.
LEMMA CancelTimerStep ==
    ASSUME IInv, NEW k \in Timers, k \in created, CancelTimer(k),
           UNCHANGED <<now, loopVars, created, fired>>,
           pending' \in Seq(Calls), ToSet(pending') \subseteq ToSet(pending), AddsOnce(pending')
    PROVE  IInv'
<1>1. UNCHANGED <<now, exp, timerfd, reported, handling, expired, left, readAt, created, fired>>
  BY DEF CancelTimer, loopVars
<1>2. /\ timers' = timers \ {k} /\ interval' \in [Timers -> Nat]
      /\ \A m \in Timers : m # k => interval'[m] = interval[m] /\ cancels'[m] = cancels[m]
      /\ Alive(k) /\ k \notin timers => interval'[k] = 0
      /\ ~(Alive(k) /\ k \notin timers) => interval'[k] = interval[k]
      /\ cancels' \in [Timers -> {"no", "batch", "early", "final"}]
      /\ cancels'[k] = CancelState(k)
  <2>1. /\ interval \in [Timers -> Nat]
        /\ cancels \in [Timers -> {"no", "batch", "early", "final"}]
    BY DEF IInv, TypeOK
  <2>2. CancelState(k) \in {"batch", "early", "final"}
    BY DEF CancelState
  <2>3. QED
    BY <2>1, <2>2 DEF CancelTimer
<1>3. /\ k \in ToSet(expired) => cancels'[k] = "batch" /\ interval'[k] = 0
      /\ k \notin ToSet(expired) /\ <<Add, k>> \in ToSet(pending) => cancels'[k] = "early" /\ interval'[k] = 0
      /\ k \notin ToSet(expired) /\ <<Add, k>> \notin ToSet(pending) => cancels'[k] = "final"
  <2>1. QueuedAdd(k) <=> <<Add, k>> \in ToSet(pending)
    BY QueuedIs
  <2>2. k \in ToSet(expired) => k \notin timers /\ Alive(k)
    BY DEF IInv, OnePlace, Alive
  <2>3. <<Add, k>> \in ToSet(pending) => k \notin timers /\ Alive(k) /\ k \notin ToSet(expired)
    BY <2>1 DEF IInv, OnePlace, Alive
  <2>4. /\ k \in ToSet(expired) => CancelState(k) = "batch"
        /\ k \notin ToSet(expired) /\ QueuedAdd(k) => CancelState(k) = "early"
        /\ k \notin ToSet(expired) /\ ~QueuedAdd(k) => CancelState(k) = "final"
    BY <2>1, <2>3 DEF CancelState
  <2>5. QED
    BY <1>2, <2>1, <2>2, <2>3, <2>4
<1>4. TypeOK'
  BY <1>1, <1>2 DEF IInv, TypeOK
<1>5. ArmedForAll'
  BY <1>1, <1>2 DEF IInv, ArmedForAll
<1>6. OnePlace'
  BY <1>1, <1>2 DEF IInv, OnePlace
<1>7. OnlyCreated'
  BY <1>1, <1>2 DEF IInv, OnlyCreated
<1>8. BatchIsDue'
  BY <1>1 DEF IInv, BatchIsDue
<1>9. CancelInv'
  <2> SUFFICES ASSUME NEW m \in Timers PROVE CancelOK(m)'
    BY DEF CancelInv
  <2>1. Gone(m) => Gone(m)'
    BY <1>1, <1>2 DEF Gone
  <2>2. CASE m # k
    BY <1>1, <1>2, <2>1, <2>2 DEF IInv, CancelInv, CancelOK
  <2>3. CASE m = k
    <3>1. CASE k \in ToSet(expired)
      BY <1>1, <1>3, <2>3, <3>1 DEF CancelOK
    <3>2. CASE k \notin ToSet(expired) /\ <<Add, k>> \in ToSet(pending)
      <4>1. fired[k] = 0
        BY <3>2 DEF IInv, OnePlace
      <4>2. QED
        BY <1>1, <1>3, <2>3, <3>2, <4>1 DEF CancelOK
    <3>3. CASE k \notin ToSet(expired) /\ <<Add, k>> \notin ToSet(pending)
      <4>1. k \notin ToSet(left)
        BY <3>3 DEF IInv, OnePlace
      <4>2. Gone(k)'
        BY <1>1, <1>2, <3>3, <4>1 DEF Gone
      <4>3. QED
        BY <1>1, <1>3, <2>3, <3>3, <4>2 DEF CancelOK
    <3>4. QED
      BY <3>1, <3>2, <3>3
  <2>4. QED
    BY <2>2, <2>3
<1>10. QED
  BY <1>4, <1>5, <1>6, <1>7, <1>8, <1>9 DEF IInv

LEMMA CancelQueuedStep == ASSUME IInv, NEW k \in Timers, CancelQueued(k) PROVE IInv'
<1>1. UNCHANGED <<now, exp, interval, timers, timerfd, reported, handling, expired, left, readAt,
                  created, cancels, fired>>
  BY DEF CancelQueued, timerVars, loopVars
<1>2. k \in created
  BY DEF CancelQueued, MayCancel
<1>3. /\ pending' \in Seq(Calls) /\ AddsOnce(pending')
      /\ \A m \in Timers : <<Add, m>> \in ToSet(pending') <=> <<Add, m>> \in ToSet(pending)
      /\ \A m \in Timers : m # k => (<<Cancel, m>> \in ToSet(pending') <=> <<Cancel, m>> \in ToSet(pending))
  <2>1. PICK c : c = <<Cancel, k>>
    OBVIOUS
  <2>2. pending \in Seq(Calls) /\ AddsOnce(pending) /\ c \in Calls /\ c[1] # Add
    BY <2>1 DEF IInv, TypeOK, OnePlace, Calls, Add, Cancel
  <2>3. pending' = Append(pending, c)
    BY <2>1 DEF CancelQueued
  <2>4. pending' \in Seq(Calls)
    BY <2>2, <2>3
  <2>5. AddsOnce(pending') /\ ToSet(pending') = ToSet(pending) \cup {c}
    BY <2>2, <2>3, AppendSet
  <2>6. QED
    BY <2>1, <2>4, <2>5 DEF Add, Cancel
<1>4. TypeOK' /\ ArmedForAll' /\ BatchIsDue'
  BY <1>1, <1>3 DEF IInv, TypeOK, ArmedForAll, BatchIsDue
<1>5. OnePlace'
  BY <1>1, <1>3 DEF IInv, OnePlace
<1>6. OnlyCreated'
  BY <1>1, <1>2, <1>3 DEF IInv, OnlyCreated
<1>7. CancelInv'
  <2>1. \A m \in Timers : Gone(m)' <=> Gone(m)
    BY <1>1, <1>3 DEF Gone
  <2>2. QED
    BY <1>1, <2>1 DEF IInv, CancelInv, CancelOK
<1>8. QED
  BY <1>4, <1>5, <1>6, <1>7 DEF IInv

LEMMA CancelInLoopStep == ASSUME IInv, NEW k \in Timers, CancelInLoop(k) PROVE IInv'
<1>1. k \in created /\ CancelTimer(k) /\ UNCHANGED <<now, loopVars, created, fired>> /\ pending' = pending
  BY DEF CancelInLoop, MayCancel
<1>2. pending \in Seq(Calls) /\ AddsOnce(pending)
  BY DEF IInv, TypeOK, OnePlace
<1>3. QED
  BY <1>1, <1>2, CancelTimerStep

LEMMA RunQueuedStep == ASSUME IInv, RunQueued PROVE IInv'
<1>1. /\ pending # <<>> /\ ~handling /\ pending' = Tail(pending)
      /\ UNCHANGED <<now, loopVars, created, fired>>
  BY DEF RunQueued
<1>2. PICK c, k : /\ c = Head(pending)[1] /\ k = Head(pending)[2]
                  /\ \/ c = Add /\ AddTimer(k, exp) /\ UNCHANGED <<exp, interval, cancels>>
                     \/ c = Cancel /\ CancelTimer(k)
  BY DEF RunQueued
<1>3. PICK h : h = Head(pending)
  OBVIOUS
<1>4. pending \in Seq(Calls) /\ AddsOnce(pending)
  BY DEF IInv, TypeOK, OnePlace
<1>5. /\ pending' \in Seq(Calls) /\ AddsOnce(pending') /\ ToSet(pending') \subseteq ToSet(pending)
      /\ h \in Calls /\ h \in ToSet(pending) /\ (h[1] = Add => h \notin ToSet(pending'))
  BY <1>1, <1>3, <1>4, TailSet
<1>6. k \in Timers /\ h = <<c, k>>
  BY <1>2, <1>3, <1>5 DEF Calls
<1>7. CASE c = Cancel
  <2>1. k \in created
    BY <1>5, <1>6, <1>7 DEF IInv, OnlyCreated
  <2>2. CancelTimer(k)
    BY <1>2, <1>7 DEF Add, Cancel
  <2>3. QED
    BY <1>1, <1>5, <1>6, <2>1, <2>2, CancelTimerStep
<1>8. CASE c = Add
  <2>1. AddTimer(k, exp) /\ UNCHANGED <<exp, interval, cancels>>
    BY <1>2, <1>8 DEF Add, Cancel
  <2>2. UNCHANGED <<now, reported, handling, expired, left, readAt, created, fired>>
    BY <1>1 DEF loopVars
  <2>3. /\ timers' = timers \cup {k} /\ timerfd' \in Nat
        /\ timerfd' # 0 /\ (timerfd' <= now + 1 \/ \A m \in timers' : timerfd' <= exp[m])
    <3>1. exp \in [Timers -> Nat]
      BY DEF IInv, TypeOK
    <3>2. QED
      BY <1>1, <1>6, <2>1, <3>1, AddTimerArms
  <2>4. <<Add, k>> \in ToSet(pending) /\ <<Add, k>> \notin ToSet(pending')
    BY <1>5, <1>6, <1>8
  <2>5. k \in created /\ k \notin ToSet(expired) /\ fired[k] = 0 /\ cancels[k] # "final"
    BY <1>6, <2>4 DEF IInv, OnlyCreated, OnePlace, CancelInv, CancelOK, Gone
  <2>6. TypeOK'
    BY <1>5, <1>6, <2>1, <2>2, <2>3 DEF IInv, TypeOK
  <2>7. ArmedForAll' /\ BatchIsDue'
    BY <2>1, <2>2, <2>3 DEF IInv, ArmedForAll, BatchIsDue
  <2>8. OnePlace'
    BY <1>5, <2>2, <2>3, <2>4, <2>5 DEF IInv, OnePlace
  <2>9. OnlyCreated'
    BY <1>5, <2>1, <2>2, <2>3, <2>5 DEF IInv, OnlyCreated
  <2>10. CancelInv'
    <3> SUFFICES ASSUME NEW m \in Timers PROVE CancelOK(m)'
      BY DEF CancelInv
    <3>1. CASE m = k
      BY <2>1, <2>2, <2>5, <3>1 DEF IInv, CancelInv, CancelOK
    <3>2. CASE m # k
      <4>1. Gone(m) => Gone(m)'
        BY <1>5, <2>2, <2>3, <3>2 DEF Gone
      <4>2. QED
        BY <2>1, <2>2, <4>1 DEF IInv, CancelInv, CancelOK
    <3>3. QED
      BY <3>1, <3>2
  <2>11. QED
    BY <2>6, <2>7, <2>8, <2>9, <2>10 DEF IInv
<1>9. QED
  BY <1>2, <1>7, <1>8

LEMMA EmptySet == ToSet(<<>>) = {} /\ Distinct(<<>>)
  BY DEF ToSet, Distinct

LEMMA HandleReadStep == ASSUME IInv, HandleRead PROVE IInv'
<1>1. /\ ~handling /\ handling' = TRUE /\ reported' = FALSE /\ readAt' = now
      /\ timers' = timers \ Due /\ timerfd' \in {0, timerfd}
      /\ UNCHANGED <<now, exp, interval, pending, created, cancels, fired>>
  BY DEF HandleRead
<1>2. PICK s \in SortedByExp(Due) : expired' = s /\ left' = s
  BY DEF HandleRead
<1>3. /\ Due \subseteq timers /\ Due \subseteq Timers
      /\ \A k \in Due : exp[k] <= now
  BY DEF Due, IInv, TypeOK
<1>4. s \in Seq(Timers) /\ ToSet(s) \subseteq Due /\ Distinct(s)
  BY <1>3, SortedIs
<1>5. expired = <<>> /\ left = <<>> /\ ToSet(expired) = {} /\ ToSet(left) = {}
  BY <1>1, EmptySet DEF IInv, OnePlace
<1>6. TypeOK' /\ ArmedForAll'
  <2>1. timerfd' \in Nat /\ timers' \subseteq Timers /\ expired' \in Seq(Timers) /\ left' \in Seq(Timers)
    BY <1>1, <1>2, <1>4 DEF IInv, TypeOK
  <2>2. QED
    BY <1>1, <2>1 DEF IInv, TypeOK, ArmedForAll
<1>7. OnePlace'
  BY <1>1, <1>2, <1>3, <1>4 DEF IInv, OnePlace
<1>8. OnlyCreated'
  BY <1>1, <1>2, <1>3, <1>4 DEF IInv, OnlyCreated
<1>9. BatchIsDue'
  BY <1>1, <1>2, <1>3, <1>4 DEF BatchIsDue
<1>10. CancelInv'
  <2> SUFFICES ASSUME NEW k \in Timers PROVE CancelOK(k)'
    BY DEF CancelInv
  <2>1. Gone(k) => Gone(k)' /\ k \notin ToSet(expired')
    BY <1>1, <1>2, <1>3, <1>4 DEF Gone
  <2>2. cancels[k] # "batch"
    BY <1>5 DEF IInv, CancelInv, CancelOK
  <2>3. QED
    BY <1>1, <2>1, <2>2 DEF IInv, CancelInv, CancelOK
<1>11. QED
  BY <1>6, <1>7, <1>8, <1>9, <1>10 DEF IInv

\* The callback that runs is one of the batch, and not one that is left over.
LEMMA RunTimerEffect ==
    ASSUME IInv, RunTimer
    PROVE  \E k \in Timers :
             /\ k \in ToSet(left) /\ k \in ToSet(expired) /\ k \notin ToSet(left')
             /\ fired' \in [Timers -> Nat] /\ fired'[k] = fired[k] + 1
             /\ \A m \in Timers : m # k => fired'[m] = fired[m]
             /\ left' \in Seq(Timers) /\ Distinct(left') /\ ToSet(left') \subseteq ToSet(left)
<1>1. left # <<>> /\ left' = Tail(left) /\ left \in Seq(Timers) /\ Distinct(left)
  BY DEF RunTimer, IInv, TypeOK, OnePlace
<1>2. PICK k : k = Head(left)
  OBVIOUS
<1>3. /\ left' \in Seq(Timers) /\ k \in Timers /\ k \in ToSet(left)
      /\ ToSet(left') \subseteq ToSet(left) /\ Distinct(left') /\ k \notin ToSet(left')
  BY <1>1, <1>2, TailSet
<1>4. fired' = [fired EXCEPT ![k] = @ + 1] /\ fired \in [Timers -> Nat]
  BY <1>2 DEF RunTimer, IInv, TypeOK
<1>5. /\ fired' \in [Timers -> Nat] /\ fired'[k] = fired[k] + 1
      /\ \A m \in Timers : m # k => fired'[m] = fired[m]
  BY <1>3, <1>4
<1>6. k \in ToSet(expired)
  BY <1>3 DEF IInv, OnePlace
<1>7. QED
  BY <1>3, <1>5, <1>6

LEMMA RunTimerStep == ASSUME IInv, RunTimer PROVE IInv'
<1>1. UNCHANGED <<now, exp, interval, timers, timerfd, pending, reported, handling, expired, readAt,
                  created, cancels>>
  BY DEF RunTimer, timerVars
<1>2. PICK k \in Timers :
        /\ k \in ToSet(left) /\ k \in ToSet(expired) /\ k \notin ToSet(left')
        /\ fired' \in [Timers -> Nat] /\ fired'[k] = fired[k] + 1
        /\ \A m \in Timers : m # k => fired'[m] = fired[m]
        /\ left' \in Seq(Timers) /\ Distinct(left') /\ ToSet(left') \subseteq ToSet(left)
  BY RunTimerEffect
<1>3. k \notin timers /\ <<Add, k>> \notin ToSet(pending) /\ k \in created /\ handling
  BY <1>2 DEF IInv, OnePlace, OnlyCreated, RunTimer
<1>4. TypeOK' /\ ArmedForAll' /\ BatchIsDue'
  BY <1>1, <1>2 DEF IInv, TypeOK, ArmedForAll, BatchIsDue
<1>5. OnePlace'
  BY <1>1, <1>2, <1>3 DEF IInv, OnePlace
<1>6. OnlyCreated'
  BY <1>1, <1>2, <1>3 DEF IInv, OnlyCreated
<1>7. CancelInv'
  <2> SUFFICES ASSUME NEW m \in Timers PROVE CancelOK(m)'
    BY DEF CancelInv
  <2>1. Gone(m) => Gone(m)'
    BY <1>1, <1>2 DEF Gone
  <2>2. CASE m = k
    <3>1. Gone(k)'
      BY <1>1, <1>2, <1>3 DEF Gone
    <3>2. cancels[k] # "final"
      BY <1>2 DEF IInv, CancelInv, CancelOK
    <3>3. QED
      BY <1>1, <2>2, <3>1, <3>2 DEF IInv, CancelInv, CancelOK
  <2>3. CASE m # k
    BY <1>1, <1>2, <2>1, <2>3 DEF IInv, CancelInv, CancelOK
  <2>4. QED
    BY <2>2, <2>3
<1>8. QED
  BY <1>4, <1>5, <1>6, <1>7 DEF IInv

LEMMA ResetStep == ASSUME IInv, Reset PROVE IInv'
<1>1. /\ handling /\ left = <<>> /\ handling' = FALSE /\ expired' = <<>>
      /\ exp' = Restarted /\ timers' = timers \cup Repeat /\ timerfd' = Rearm(timers \cup Repeat)
      /\ UNCHANGED <<now, interval, pending, reported, left, readAt, created, fired>>
  BY DEF Reset
<1>2. /\ now \in Nat /\ readAt \in Nat /\ timerfd \in Nat /\ timers \subseteq Timers
      /\ exp \in [Timers -> Nat] /\ interval \in [Timers -> Nat]
      /\ cancels \in [Timers -> {"no", "batch", "early", "final"}]
  BY DEF IInv, TypeOK
<1>3. /\ cancels' \in [Timers -> {"no", "batch", "early", "final"}]
      /\ \A k \in Timers : /\ cancels[k] = "batch" => cancels'[k] = "final"
                           /\ cancels[k] # "batch" => cancels'[k] = cancels[k]
  BY <1>2 DEF Reset
<1>4. /\ Repeat \subseteq ToSet(expired) /\ Repeat \subseteq Timers
      /\ \A k \in Repeat : interval[k] > 0
  BY BatchType DEF Repeat, IInv
<1>5. exp' \in [Timers -> Nat]
  BY <1>1, <1>2 DEF Restarted
<1>6. timerfd' \in Nat /\ ArmedForAll'
  <2>1. PICK S, e : S = timers \cup Repeat /\ e = Restarted
    OBVIOUS
  <2>2. S \subseteq Timers /\ e \in [Timers -> Nat] /\ timers' = S /\ exp' = e
    BY <1>1, <1>2, <1>4, <1>5, <2>1
  <2>3. CASE S = {}
    BY <1>1, <1>2, <2>1, <2>2, <2>3 DEF Rearm, ArmedForAll
  <2>4. CASE S # {}
    <3>1. PICK x : x = Earliest(S, e)
      OBVIOUS
    <3>2. (\E k \in S : x = e[k]) /\ (\A k \in S : x <= e[k])
      BY <2>2, <2>4, <3>1, EarliestIs
    <3>3. x \in Nat
      BY <2>2, <3>2
    <3>4. timerfd' = Arm(x)
      BY <1>1, <2>1, <2>4, <3>1 DEF Rearm
    <3>5. timerfd' \in Nat /\ timerfd' # 0 /\ (timerfd' <= now + 1 \/ timerfd' = x)
      BY <1>2, <3>3, <3>4, ArmIs
    <3>6. QED
      BY <1>1, <2>2, <3>2, <3>5 DEF ArmedForAll
  <2>5. QED
    BY <2>3, <2>4
<1>7. TypeOK'
  BY <1>1, <1>2, <1>3, <1>4, <1>5, <1>6 DEF IInv, TypeOK
<1>8. ToSet(expired') = {} /\ ToSet(left) = {}
  BY <1>1, EmptySet
<1>9. OnePlace' /\ BatchIsDue'
  BY <1>1, <1>4, <1>8 DEF IInv, OnePlace, BatchIsDue
<1>10. OnlyCreated'
  BY <1>1, <1>3, <1>4, <1>8 DEF IInv, OnlyCreated
<1>11. CancelInv'
  <2> SUFFICES ASSUME NEW k \in Timers PROVE CancelOK(k)'
    BY DEF CancelInv
  <2>1. Gone(k) /\ k \notin Repeat => Gone(k)'
    BY <1>1 DEF Gone
  <2>2. CASE cancels[k] = "batch"
    <3>1. k \in ToSet(expired) /\ interval[k] = 0
      BY <2>2 DEF IInv, CancelInv, CancelOK
    <3>2. Gone(k) /\ k \notin Repeat
      BY <1>4, <1>8, <3>1 DEF IInv, OnePlace, Gone
    <3>3. QED
      BY <1>3, <1>8, <2>1, <2>2, <3>2 DEF CancelOK
  <2>3. CASE cancels[k] # "batch"
    <3>1. interval[k] = 0 => k \notin Repeat
      BY <1>4
    <3>2. k \notin ToSet(expired) => k \notin Repeat
      BY <1>4
    <3>3. QED
      BY <1>1, <1>3, <1>8, <2>1, <2>3, <3>1, <3>2 DEF IInv, CancelInv, CancelOK
  <2>4. QED
    BY <2>2, <2>3
<1>12. QED
  BY <1>6, <1>7, <1>9, <1>10, <1>11 DEF IInv

\* Polling, the passing of time, and steps of nobody
LEMMA QuietStep == ASSUME IInv, Poll \/ Tick \/ UNCHANGED vars PROVE IInv'
<1>1. /\ UNCHANGED <<exp, interval, timers, timerfd, pending, handling, expired, left, readAt,
                     created, cancels, fired>>
      /\ now' \in {now, now + 1} /\ reported' \in {TRUE, reported}
  BY DEF Poll, Tick, vars, timerVars, loopVars
<1>2. /\ now \in Nat /\ reported \in BOOLEAN /\ timerfd \in Nat /\ exp \in [Timers -> Nat]
      /\ ToSet(expired) \subseteq Timers
  BY BatchType DEF IInv, TypeOK
<1>3. now' \in Nat /\ now <= now' /\ reported' \in BOOLEAN
  <2>1. now' \in Nat /\ now <= now'
    BY <1>1, <1>2
  <2>2. reported' \in BOOLEAN
    BY <1>1, <1>2, Zenon
  <2>3. QED
    BY <2>1, <2>2, Zenon
<1>4. TypeOK'
  BY <1>1, <1>3 DEF IInv, TypeOK
<1>5. ArmedForAll'
  <2>0. now \in Nat /\ now' \in Nat /\ timerfd \in Nat /\ now <= now'
    BY <1>2, <1>3, Zenon
  <2>1. timerfd <= now + 1 => timerfd <= now' + 1
    <3>1. \A a, b, c \in Nat : a <= b /\ c <= a + 1 => c <= b + 1
      OBVIOUS
    <3>2. QED
      BY <2>0, <3>1, Zenon
  <2>2. QED
    BY <1>1, <2>1 DEF IInv, ArmedForAll
<1>6. BatchIsDue'
  BY <1>1, <1>2, <1>3 DEF IInv, BatchIsDue
<1>7. OnePlace' /\ OnlyCreated'
  BY <1>1 DEF IInv, OnePlace, OnlyCreated
<1>8. CancelInv'
  BY <1>1 DEF IInv, CancelInv, CancelOK, Gone
<1>9. QED
  BY <1>4, <1>5, <1>6, <1>7, <1>8 DEF IInv

LEMMA StepIInv == IInv /\ [Next]_vars => IInv'
<1> SUFFICES ASSUME IInv, [Next]_vars PROVE IInv'
  OBVIOUS
<1>1. CASE Call
  BY <1>1, RunAfterQueuedStep, RunAfterInLoopStep, CancelQueuedStep, CancelInLoopStep DEF Call
<1>2. CASE LoopStep
  BY <1>2, RunQueuedStep, QuietStep, HandleReadStep, RunTimerStep, ResetStep DEF LoopStep
<1>3. CASE Tick \/ UNCHANGED vars
  BY <1>3, QuietStep
<1>4. QED
  BY <1>1, <1>2, <1>3 DEF Next

LEMMA AlwaysIInv == Spec => []IInv
  BY InitIInv, StepIInv, PTL DEF Spec

-----------------------------------------------------------------------------
(***************************************************************************)
(* The theorems                                                            *)
(***************************************************************************)
\* TimerQueue::resetTimerfd is called often enough: whenever the loop can go to
\* sleep with timers in timers_, the timerfd is armed and goes off no later than
\* the earliest of them, or at once.
THEOREM TimerfdNeverOversleeps == Spec => []ArmedForEarliest
<1>1. IInv => ArmedForEarliest
  <2> SUFFICES ASSUME IInv, ~handling, timers # {}
               PROVE  timerfd # 0 /\ (timerfd <= Earliest(timers, exp) \/ timerfd <= now + 1)
    BY DEF ArmedForEarliest
  <2>1. timers \subseteq Timers /\ exp \in [Timers -> Nat]
    BY DEF IInv, TypeOK
  <2>2. PICK k \in timers : Earliest(timers, exp) = exp[k]
    BY <2>1, EarliestIs
  <2>3. QED
    BY <2>2 DEF IInv, ArmedForAll
<1>2. QED
  BY <1>1, AlwaysIInv, PTL

\* Only the loop of handleRead runs callbacks.
LEMMA OnlyRunTimerFires ==
    ASSUME [Next]_vars, fired' # fired PROVE RunTimer
<1>1. ~Call
  BY DEF Call, RunAfterQueued, RunAfterInLoop, CancelQueued, CancelInLoop
<1>2. LoopStep => RunTimer
  BY DEF LoopStep, RunQueued, Poll, HandleRead, Reset
<1>3. QED
  BY <1>1, <1>2 DEF Next, Tick, vars

\* Where a timer whose callback runs is: in the batch, and due.
LEMMA FiringTimer ==
    ASSUME IInv, [Next]_vars, NEW k \in Timers, fired'[k] # fired[k]
    PROVE  /\ k \in ToSet(left) /\ exp[k] <= now
           /\ cancels[k] # "final"
           /\ cancels[k] = "early" => interval[k] = 0
           /\ cancels[k] \in {"no", "early"} /\ interval[k] = 0 => fired[k] = 0
<1>1. RunTimer
  BY OnlyRunTimerFires
<1>2. k \in ToSet(left) /\ k \in ToSet(expired)
  BY <1>1, RunTimerEffect
<1>3. fired[k] \in Nat
  BY DEF IInv, TypeOK
<1>4. exp[k] <= now /\ CancelOK(k)
  BY <1>2 DEF IInv, BatchIsDue, CancelInv
<1>5. QED
  BY <1>2, <1>3, <1>4 DEF CancelOK, Gone

\* handleRead runs no callback before the expiration it was set for, and the
\* callback of a timer that does not repeat only once.
THEOREM NoCallbackTooEarly == Spec => FiresWhenDue
<1>1. IInv /\ [Next]_vars =>
        [\A k \in Timers : fired'[k] # fired[k] =>
           exp[k] <= now /\ (fired[k] = 0 \/ interval[k] > 0 \/ cancels[k] # "no")]_vars
  <2> SUFFICES ASSUME IInv, [Next]_vars, NEW k \in Timers, fired'[k] # fired[k]
               PROVE  exp[k] <= now /\ (fired[k] = 0 \/ interval[k] > 0 \/ cancels[k] # "no")
    OBVIOUS
  <2>1. interval[k] \in Nat
    BY DEF IInv, TypeOK
  <2>2. QED
    BY <2>1, FiringTimer
<1>2. QED
  BY <1>1, AlwaysIInv, PTL DEF Spec, FiresWhenDue

\* cancelTimer is final: the callback runs no more, except in the round it was
\* already taken out for, or once when its addTimer was still queued.
THEOREM CancelledTimersStay == Spec => CancelIsFinal
<1>1. IInv /\ [Next]_vars =>
        [\A k \in Timers : fired'[k] # fired[k] =>
           cancels[k] # "final" /\ (cancels[k] = "early" => fired[k] = 0)]_vars
  <2> SUFFICES ASSUME IInv, [Next]_vars, NEW k \in Timers, fired'[k] # fired[k]
               PROVE  cancels[k] # "final" /\ (cancels[k] = "early" => fired[k] = 0)
    OBVIOUS
  <2>1. QED
    BY FiringTimer
<1>2. QED
  BY <1>1, AlwaysIInv, PTL DEF Spec, CancelIsFinal
=============================================================================
