------------------------- MODULE EPollPollerProofs -------------------------
(***************************************************************************)
(* EPollPoller keeps channels_ and the kernel's epoll instance in step and *)
(* implements Poller, for any set of channels and any size of the event    *)
(* list.                                                                   *)
(***************************************************************************)
EXTENDS EPollPoller, TLAPS

\* A failed epoll_ctl would leave the two out of step, so that none fails is part
\* of the induction.
IInv == MirrorsKernel /\ CtlNeverFails

USE SizeAssumption, AbsentAssumption

LEMMA InitIInv == Init => IInv
  BY DEF Init, IInv, MirrorsKernel, CtlNeverFails, TypeOK

\* A list that is doubled when it is full is never empty.
LEMMA GrowType == ASSUME listSize \in Nat \ {0}, NEW n PROVE Grow(n) \in Nat \ {0}
  BY DEF Grow

\* What updateChannel does in the state a channel can be in: the epoll_ctl it
\* chooses is the one the kernel accepts.
LEMMA UpdateEffect ==
    ASSUME IInv, NEW c \in Channels, NEW s \in {"NEW", "ADDED", "DELETED"},
           s = "ADDED" <=> kernel[c] # Absent,
           channels[c] \in {s, Absent}, channels[c] = Absent => s = "NEW",
           Update(c, s)
    PROVE  /\ ctlFailed' = FALSE
           /\ \/ /\ events[c] # {}
                 /\ channels' = [channels EXCEPT ![c] = "ADDED"]
                 /\ kernel' = [kernel EXCEPT ![c] = events[c]]
              \/ /\ events[c] = {}
                 /\ \E t \in {"NEW", "DELETED"} : channels' = [channels EXCEPT ![c] = t]
                 /\ kernel' = [kernel EXCEPT ![c] = Absent]
<1> USE DEF IInv, MirrorsKernel, CtlNeverFails, TypeOK
<1>1. CASE s \in {"NEW", "DELETED"} /\ events[c] # {}
  BY <1>1 DEF Update, SetState, Ctl
<1>2. CASE s \in {"NEW", "DELETED"} /\ events[c] = {}
  <2>1. channels' = [channels EXCEPT ![c] = s] /\ kernel' = kernel /\ ctlFailed' = ctlFailed
    BY <1>2 DEF Update, SetState
  <2>2. kernel = [kernel EXCEPT ![c] = Absent]
    BY <1>2
  <2>3. QED
    BY <1>2, <2>1, <2>2
<1>3. CASE s = "ADDED" /\ events[c] # {}
  <2>1. channels' = channels /\ channels = [channels EXCEPT ![c] = "ADDED"]
    BY <1>3 DEF Update
  <2>2. kernel' = [kernel EXCEPT ![c] = events[c]] /\ ctlFailed' = FALSE
    BY <1>3 DEF Update, Ctl
  <2>3. QED
    BY <1>3, <2>1, <2>2
<1>4. CASE s = "ADDED" /\ events[c] = {}
  BY <1>4 DEF Update, SetState, Ctl
<1>5. QED
  BY <1>1, <1>2, <1>3, <1>4

\* The same for removeChannel.
LEMMA RemoveEffect ==
    ASSUME IInv, NEW c \in Channels, RemoveChannel(c), ~failed'
    PROVE  /\ ctlFailed' = FALSE
           /\ channels' = [channels EXCEPT ![c] = Absent]
           /\ kernel' = [kernel EXCEPT ![c] = Absent]
<1> USE DEF IInv, MirrorsKernel, CtlNeverFails, TypeOK, RemoveChannel, Erase, Assert, SetState
<1>1. CASE channels[c] = "ADDED"
  BY <1>1 DEF Ctl
<1>2. CASE channels[c] # "ADDED"
  <2>1. kernel = [kernel EXCEPT ![c] = Absent]
    BY <1>2
  <2>2. QED
    BY <1>2, <2>1
<1>3. QED
  BY <1>1, <1>2

\* A call whose assertion fails changes nothing of the poller.
LEMMA AbortEffect ==
    ASSUME NEW c \in Channels, AddChannel(c) \/ UpdateChannel(c) \/ RemoveChannel(c)
    PROVE  /\ UNCHANGED <<events, active, listSize>> /\ failed' \in BOOLEAN
           /\ failed' => UNCHANGED <<channels, kernel, ctlFailed>>
  BY DEF AddChannel, UpdateChannel, RemoveChannel, Assert, Aborts

LEMMA AddEffect ==
    ASSUME IInv, NEW c \in Channels, AddChannel(c) \/ UpdateChannel(c), ~failed'
    PROVE  /\ ctlFailed' = FALSE
           /\ \/ /\ events[c] # {}
                 /\ channels' = [channels EXCEPT ![c] = "ADDED"]
                 /\ kernel' = [kernel EXCEPT ![c] = events[c]]
              \/ /\ events[c] = {}
                 /\ \E t \in {"NEW", "DELETED"} : channels' = [channels EXCEPT ![c] = t]
                 /\ kernel' = [kernel EXCEPT ![c] = Absent]
<1>1. CASE AddChannel(c)
  <2>1. channels[c] = Absent /\ Update(c, "NEW")
    BY <1>1 DEF AddChannel, Assert
  <2>2. kernel[c] = Absent
    BY <2>1 DEF IInv, MirrorsKernel
  <2>3. QED
    BY <2>1, <2>2, UpdateEffect
<1>2. CASE UpdateChannel(c)
  <2>1. channels[c] \in {"NEW", "ADDED", "DELETED"} /\ Update(c, channels[c])
    BY <1>2 DEF UpdateChannel, Assert, IInv, MirrorsKernel, TypeOK
  <2>2. channels[c] = "ADDED" <=> kernel[c] # Absent
    BY DEF IInv, MirrorsKernel
  <2>3. QED
    BY <2>1, <2>2, UpdateEffect
<1>3. QED
  BY <1>1, <1>2

LEMMA StepIInv == IInv /\ [Next]_vars => IInv'
<1> SUFFICES ASSUME IInv, [Next]_vars PROVE IInv'
  OBVIOUS
<1> USE DEF IInv, MirrorsKernel, CtlNeverFails, TypeOK
<1>1. ASSUME NEW c \in Channels, SetEvents(c) PROVE IInv'
  BY <1>1 DEF SetEvents, Event
<1>2. ASSUME NEW c \in Channels, AddChannel(c) \/ UpdateChannel(c) \/ RemoveChannel(c), failed'
      PROVE  IInv'
  BY <1>2, AbortEffect
<1>3. ASSUME NEW c \in Channels, AddChannel(c) \/ UpdateChannel(c), ~failed' PROVE IInv'
  <2>1. UNCHANGED <<events, active, listSize>> /\ failed' \in BOOLEAN
    BY <1>3, AbortEffect
  <2>2. ctlFailed' = FALSE
    BY <1>3, AddEffect
  <2>3. CASE events[c] # {}
    <3>1. /\ channels' = [channels EXCEPT ![c] = "ADDED"]
          /\ kernel' = [kernel EXCEPT ![c] = events[c]]
      BY <1>3, <2>3, AddEffect
    <3>2. QED
      BY <2>1, <2>2, <2>3, <3>1
  <2>4. CASE events[c] = {}
    <3>1. PICK t \in {"NEW", "DELETED"} : channels' = [channels EXCEPT ![c] = t]
      BY <1>3, <2>4, AddEffect
    <3>2. kernel' = [kernel EXCEPT ![c] = Absent]
      BY <1>3, <2>4, AddEffect
    <3>3. QED
      BY <2>1, <2>2, <3>1, <3>2
  <2>5. QED
    BY <2>3, <2>4
<1>4. ASSUME NEW c \in Channels, RemoveChannel(c), ~failed' PROVE IInv'
  <2>1. UNCHANGED <<events, active, listSize>> /\ failed' \in BOOLEAN
    BY <1>4, AbortEffect
  <2>2. QED
    BY <1>4, <2>1, RemoveEffect
<1>5. CASE Poll
  BY <1>5, GrowType DEF Poll
<1>6. CASE UNCHANGED vars
  BY <1>6 DEF vars
<1>7. QED
  BY <1>1, <1>2, <1>3, <1>4, <1>5, <1>6 DEF Next

\* Over any sequence of adding, switching on and off and removing channels, in
\* any interleaving with the changes of their masks, exactly the ADDED channels
\* of channels_ are in the epoll instance and each with a mask.
THEOREM KernelMirrored == Spec => []MirrorsKernel
<1>1. IInv => MirrorsKernel
  BY DEF IInv
<1>2. QED
  BY <1>1, InitIInv, StepIInv, PTL DEF Spec

\* No epoll_ctl of EPollPoller returns an error: nothing is added twice, and
\* nothing modified or deleted that is not there.
THEOREM EpollCtlNeverFails == Spec => []CtlNeverFails
<1>1. IInv => CtlNeverFails
  BY DEF IInv
<1>2. QED
  BY <1>1, InitIInv, StepIInv, PTL DEF Spec

-----------------------------------------------------------------------------
(***************************************************************************)
(* Refinement: channels_ and the kernel's masks together are the interests *)
(* of Poller.                                                              *)
(***************************************************************************)
interest == [c \in Channels |-> Interest(c)]

\* Every step of EPollPoller is a step of Poller, or changes nothing it shows.
LEMMA StepRefines == IInv /\ IInv' /\ [Next]_vars => [Abstract!Next]_(Abstract!vars)
<1> SUFFICES ASSUME IInv, IInv', [Next]_vars PROVE [Abstract!Next]_(Abstract!vars)
  OBVIOUS
<1> USE DEF IInv, MirrorsKernel, TypeOK
<1>1. ASSUME NEW c \in Channels, SetEvents(c) PROVE UNCHANGED Abstract!vars
  BY <1>1 DEF SetEvents, Abstract!vars, Interest
<1>2. ASSUME NEW c \in Channels, AddChannel(c) \/ UpdateChannel(c), ~failed' PROVE Abstract!Next
  <2>1. active' = active
    BY <1>2 DEF AddChannel, UpdateChannel
  <2>2. interest' = [interest EXCEPT ![c] = events[c]] /\ events[c] \in SUBSET Event
    <3>1. \A d \in Channels : Interest(d)' = IF d = c THEN events[c] ELSE Interest(d)
      <4> SUFFICES ASSUME NEW d \in Channels
                   PROVE  Interest(d)' = IF d = c THEN events[c] ELSE Interest(d)
        OBVIOUS
      <4>1. CASE events[c] # {}
        <5>1. /\ channels' = [channels EXCEPT ![c] = "ADDED"]
              /\ kernel' = [kernel EXCEPT ![c] = events[c]]
          BY <1>2, <4>1, AddEffect
        <5>2. QED
          BY <4>1, <5>1 DEF Interest
      <4>2. CASE events[c] = {}
        <5>1. PICK t \in {"NEW", "DELETED"} : channels' = [channels EXCEPT ![c] = t]
          BY <1>2, <4>2, AddEffect
        <5>2. kernel' = [kernel EXCEPT ![c] = Absent]
          BY <1>2, <4>2, AddEffect
        <5>3. QED
          BY <4>2, <5>1, <5>2 DEF Interest
      <4>3. QED
        BY <4>1, <4>2
    <3>2. QED
      BY <3>1 DEF interest
  <2>3. PICK ev \in SUBSET Abstract!Event : ev = events[c]
    BY <2>2 DEF Abstract!Event, Event
  <2>4. Abstract!AddChannel(c, ev) \/ Abstract!UpdateChannel(c, ev)
    BY <2>1, <2>2, <2>3 DEF Abstract!AddChannel, Abstract!UpdateChannel, Abstract!Known,
       interest, Interest
  <2>5. QED
    BY <2>4 DEF Abstract!Next
<1>3. ASSUME NEW c \in Channels, RemoveChannel(c), ~failed' PROVE Abstract!Next
  <2>1. active' = active /\ channels[c] # Absent
    BY <1>3 DEF RemoveChannel, Assert
  <2>2. interest' = [interest EXCEPT ![c] = Absent]
    <3>1. \A d \in Channels : Interest(d)' = IF d = c THEN Absent ELSE Interest(d)
      <4>1. channels' = [channels EXCEPT ![c] = Absent] /\ kernel' = [kernel EXCEPT ![c] = Absent]
        BY <1>3, RemoveEffect
      <4>2. QED
        BY <4>1 DEF Interest
    <3>2. QED
      BY <3>1 DEF interest
  <2>3. interest[c] # Absent
    BY <2>1 DEF interest, Interest
  <2>4. Abstract!RemoveChannel(c)
    BY <2>1, <2>2, <2>3 DEF Abstract!RemoveChannel, Abstract!Known, interest, Interest
  <2>5. QED
    BY <2>4 DEF Abstract!Next
<1>4. CASE Poll
  <2>1. UNCHANGED <<channels, kernel>> /\ active' \in SUBSET {c \in Channels : kernel[c] # Absent}
    BY <1>4 DEF Poll
  <2>2. \A c \in Channels : kernel[c] # Absent => interest[c] \notin {Absent, {}}
    BY DEF interest, Interest
  <2>3. Abstract!Poll
    BY <2>1, <2>2 DEF Abstract!Poll, interest, Interest
  <2>4. QED
    BY <2>3 DEF Abstract!Next
<1>5. CASE UNCHANGED vars
  BY <1>5 DEF vars, Abstract!vars, Interest
<1>6. ASSUME NEW c \in Channels, AddChannel(c) \/ UpdateChannel(c) \/ RemoveChannel(c), failed'
      PROVE  UNCHANGED Abstract!vars
  BY <1>6, AbortEffect DEF Abstract!vars, Interest
<1>7. QED
  BY <1>1, <1>2, <1>3, <1>4, <1>5, <1>6 DEF Next

\* EPollPoller implements Poller: poll() reports only channels that are known and
\* interested in something, whatever was queued, switched off or removed before.
THEOREM EPollImplementsPoller == Spec => ImplementsPoller
<1>1. Init => Abstract!Init
  BY DEF Init, Abstract!Init, Interest
<1>2. QED
  BY <1>1, InitIInv, StepIInv, StepRefines, PTL DEF Spec, ImplementsPoller, Abstract!Spec
=============================================================================
