----------------------------- MODULE EPollPoller -----------------------------
(***************************************************************************)
(* miniduo::EPollPoller (poller.cpp) with the Channel that calls it: the   *)
(* map channels_ mirrors what the kernel's epoll instance was told.        *)
(*                                                                         *)
(* Channel sets events_ first and then updates the poller through          *)
(* EventLoop::updateChannel; outside of the loop thread that call is       *)
(* queued, so the two are separate steps here.  Callers may break the      *)
(* assertions on them (a channel known already, not known, or removed with *)
(* events set, as conn.cpp:171 does), which ends the process.              *)
(***************************************************************************)
EXTENDS Naturals, FiniteSets

CONSTANTS
    Channels,
    Absent,
    kInitEventListSize,
    MaxListSize             \* bound on events_.size()

ASSUME SizeAssumption ==
    /\ IsFiniteSet(Channels)
    /\ kInitEventListSize \in Nat \ {0} /\ MaxListSize \in Nat

Event == {"read", "write"}

ASSUME AbsentAssumption ==
    /\ Absent \notin {"NEW", "ADDED", "DELETED"}
    /\ \A S \in SUBSET Event : Absent # S

VARIABLES
    events,         \* Channel::events_
    channels,       \* channels_: the state of a known channel, or Absent
    kernel,         \* the epoll instance: what each descriptor is registered for
    active,         \* activeChannels
    listSize,       \* events_.size()
    ctlFailed,      \* an epoll_ctl returned an error, which is only logged
    failed          \* an assertion on the caller failed

vars == <<events, channels, kernel, active, listSize, ctlFailed, failed>>

\* Types; the event list handed to epoll_wait never shrinks to nothing.
TypeOK ==
    /\ events \in [Channels -> SUBSET Event]
    /\ channels \in [Channels -> {"NEW", "ADDED", "DELETED", Absent}]
    /\ kernel \in [Channels -> (SUBSET Event) \cup {Absent}]
    /\ active \subseteq Channels
    /\ listSize \in Nat \ {0}
    /\ ctlFailed \in BOOLEAN /\ failed \in BOOLEAN

Init ==
    /\ events = [c \in Channels |-> {}]
    /\ channels = [c \in Channels |-> Absent]
    /\ kernel = [c \in Channels |-> Absent]
    /\ active = {}
    /\ listSize = kInitEventListSize
    /\ ctlFailed = FALSE /\ failed = FALSE

\* Channel::enableReading, enableWriting and disableAll, up to update()
SetEvents(c) ==
    /\ \E ev \in {events[c] \cup {"read"}, events[c] \ {"read"},
                  events[c] \cup {"write"}, events[c] \ {"write"}, {}} :
         events' = [events EXCEPT ![c] = ev]
    /\ UNCHANGED <<channels, kernel, active, listSize, ctlFailed, failed>>

(***************************************************************************)
(* epoll_ctl: ADD fails on a registered descriptor, MOD and DEL on one     *)
(* that is not registered.                                                 *)
(***************************************************************************)
Ctl(op, c) ==
    LET ok == (op = "ADD") <=> (kernel[c] = Absent) IN
    /\ ctlFailed' = (ctlFailed \/ ~ok)
    /\ kernel' = [kernel EXCEPT ![c] = IF ~ok THEN @ ELSE IF op = "DEL" THEN Absent ELSE events[c]]

SetState(c, s) == channels' = [channels EXCEPT ![c] = s]

\* updateChannel, for a channel that is known in the given state
\* Bug variant: a channel that is switched off stays ADDED.
UpdateKeepAdded(c, s) ==
    IF s \in {"NEW", "DELETED"}
      THEN IF events[c] # {}
             THEN SetState(c, "ADDED") /\ Ctl("ADD", c)
             ELSE SetState(c, s) /\ UNCHANGED <<kernel, ctlFailed>>
      ELSE IF events[c] # {}
             THEN Ctl("MOD", c) /\ UNCHANGED channels
             ELSE Ctl("DEL", c) /\ UNCHANGED channels

Update(c, s) ==
    IF s \in {"NEW", "DELETED"}
      THEN IF events[c] # {}
             THEN SetState(c, "ADDED") /\ Ctl("ADD", c)
             ELSE SetState(c, s) /\ UNCHANGED <<kernel, ctlFailed>>
      ELSE IF events[c] # {}
             THEN Ctl("MOD", c) /\ UNCHANGED channels
             ELSE SetState(c, "DELETED") /\ Ctl("DEL", c)

\* assert(): a call that breaks it does nothing else.
Assert(b) == failed' = ~b
Aborts == UNCHANGED <<channels, kernel, ctlFailed>>

AddChannel(c) ==
    /\ Assert(channels[c] = Absent)
    /\ IF failed' THEN Aborts ELSE Update(c, "NEW")
    /\ UNCHANGED <<events, active, listSize>>

UpdateChannel(c) ==
    /\ Assert(channels[c] # Absent)
    /\ IF failed' THEN Aborts ELSE Update(c, channels[c])
    /\ UNCHANGED <<events, active, listSize>>

\* Bug variant: DEL whatever the state.
EraseTwice(c) == Ctl("DEL", c) /\ SetState(c, Absent)

Erase(c) ==
    /\ IF channels[c] = "ADDED" THEN Ctl("DEL", c) ELSE UNCHANGED <<kernel, ctlFailed>>
    /\ SetState(c, Absent)

RemoveChannel(c) ==
    /\ Assert(channels[c] # Absent /\ events[c] = {})
    /\ IF failed' THEN Aborts ELSE Erase(c)
    /\ UNCHANGED <<events, active, listSize>>

\* A full list is doubled.
Grow(n) == IF n = listSize /\ listSize * 2 <= MaxListSize THEN listSize * 2 ELSE listSize

\* Bug variant: entries of the last call are taken for new ones.
PollStale ==
    /\ active' \in SUBSET (active \cup {c \in Channels : kernel[c] # Absent})
    /\ Cardinality(active') <= listSize
    /\ listSize' = Grow(Cardinality(active'))
    /\ UNCHANGED <<events, channels, kernel, ctlFailed, failed>>

\* epoll_wait fills the list with ready channels.  The kernel reports errors of
\* every registered channel, asked for or not.
Poll ==
    /\ active' \in SUBSET {c \in Channels : kernel[c] # Absent}
    /\ Cardinality(active') <= listSize
    /\ listSize' = Grow(Cardinality(active'))
    /\ UNCHANGED <<events, channels, kernel, ctlFailed, failed>>

Next ==
    \/ ~failed /\ \E c \in Channels :
         SetEvents(c) \/ AddChannel(c) \/ UpdateChannel(c) \/ RemoveChannel(c)
    \/ ~failed /\ Poll

Spec == Init /\ [][Next]_vars

-----------------------------------------------------------------------------
(***************************************************************************)
(* Properties                                                              *)
(***************************************************************************)

\* epoll_ctl never fails: the states of channels_ agree with the kernel, over
\* any sequence of adding, switching on and off and removing channels.
CtlNeverFails == ~ctlFailed

\* The inductive form: types, exactly the ADDED channels are in the epoll
\* instance, and none of them with an empty mask.
MirrorsKernel ==
    /\ TypeOK
    /\ \A c \in Channels :
         /\ channels[c] = "ADDED" <=> kernel[c] # Absent
         /\ kernel[c] # {}

\* With the kernel's mask as the interest of a channel, epoll implements Poller:
\* channels that are switched off are known but never reported.
Interest(c) ==
    IF channels[c] = Absent THEN Absent
    ELSE IF kernel[c] = Absent THEN {} ELSE kernel[c]

Abstract == INSTANCE Poller WITH interest <- [c \in Channels |-> Interest(c)]

ImplementsPoller == Abstract!Spec
=============================================================================
