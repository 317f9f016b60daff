----------------------------- MODULE PollPoller -----------------------------
(***************************************************************************)
(* miniduo::PollPoller (poller.cpp): the array pollfds_ that is passed to  *)
(* poll(2), and the map channels_ from descriptors to places in it.  A     *)
(* channel without events keeps its place with the descriptor -fd-1, which *)
(* poll ignores; a removed one swaps places with the last.                 *)
(*                                                                         *)
(* As in EPollPoller, Channel::events_ changes before the poller is told,  *)
(* and callers may break the assertions on them.  The other assertions are *)
(* about the poller's own data.  Places count from 1 here.                 *)
(***************************************************************************)
EXTENDS Integers, Sequences

CONSTANTS
    Fds,            \* the descriptors channels are made for
    Absent

Event == {"read", "write"}

ASSUME FdAssumption == Fds \subseteq Nat
ASSUME AbsentAssumption == \A S \in SUBSET Event : Absent # S

VARIABLES
    events,         \* Channel::events_
    place,          \* channels_: where in pollfds_; 0: not there
    pollfds,        \* pollfds_, its fd and events
    active,         \* activeChannels
    failed          \* "no", or the assertion that failed: on the "caller" or "own" data

vars == <<events, place, pollfds, active, failed>>

Pollfd == [fd : Int, events : SUBSET Event]

\* Types; a place in the array is never negative.
TypeOK ==
    /\ events \in [Fds -> SUBSET Event]
    /\ place \in [Fds -> Nat]
    /\ pollfds \in Seq(Pollfd)
    /\ active \subseteq Fds
    /\ failed \in {"no", "caller", "own"}

Init ==
    /\ events = [f \in Fds |-> {}]
    /\ place = [f \in Fds |-> 0]
    /\ pollfds = <<>>
    /\ active = {}
    /\ failed = "no"

\* The assertions of a call, those on the caller first; when one fails, the call
\* does nothing else.
Assert(caller, own) == failed' = IF ~caller THEN "caller" ELSE IF ~own THEN "own" ELSE "no"
IfAsserted(new, old) == IF failed' = "no" THEN new ELSE old

Hidden(f) == -f - 1

\* Bug variant: a channel without events is not hidden from poll(2).
EntryShown(f) == [fd |-> f, events |-> events[f]]

\* The entry of a channel as it is now
Entry(f) == [fd |-> IF events[f] = {} THEN Hidden(f) ELSE f, events |-> events[f]]

IsOf(p, f) == p.fd = f \/ p.fd = Hidden(f)
FdOf(p) == IF p.fd < 0 THEN -p.fd - 1 ELSE p.fd

SetEvents(f) ==
    /\ \E ev \in {events[f] \cup {"read"}, events[f] \ {"read"},
                  events[f] \cup {"write"}, events[f] \ {"write"}, {}} :
         events' = [events EXCEPT ![f] = ev]
    /\ UNCHANGED <<place, pollfds, active, failed>>

AddChannel(f) ==
    /\ Assert(place[f] = 0, TRUE)
    /\ place' = IfAsserted([place EXCEPT ![f] = Len(pollfds) + 1], place)
    /\ pollfds' = IfAsserted(Append(pollfds, Entry(f)), pollfds)
    /\ UNCHANGED <<events, active>>

UpdateChannel(f) ==
    /\ Assert(place[f] # 0, place[f] \in DOMAIN pollfds /\ IsOf(pollfds[place[f]], f))
    /\ pollfds' = IfAsserted([pollfds EXCEPT ![place[f]] = Entry(f)], pollfds)
    /\ UNCHANGED <<events, place, active>>

\* Bug variant: the place of the swapped channel is looked up with the
\* descriptor as it stands in the array.
MovedShown(f) ==
    [g \in Fds |-> IF g = f THEN 0
                   ELSE IF g = pollfds[Len(pollfds)].fd THEN place[f] ELSE place[g]]

\* channels_ after the removal: the last channel takes the place of f.
Moved(f) ==
    [g \in Fds |-> IF g = f THEN 0
                   ELSE IF g = FdOf(pollfds[Len(pollfds)]) THEN place[f] ELSE place[g]]

\* iter_swap with the last entry, then pop_back
CloseGap(i) ==
    [j \in 1..(Len(pollfds) - 1) |-> IF j = i THEN pollfds[Len(pollfds)] ELSE pollfds[j]]

RemoveChannel(f) ==
    /\ Assert(place[f] # 0 /\ events[f] = {}, place[f] \in DOMAIN pollfds)
    /\ place' = IfAsserted(Moved(f), place)
    /\ pollfds' = IfAsserted(CloseGap(place[f]), pollfds)
    /\ UNCHANGED <<events, active>>

\* fillActiveChannels: a reported descriptor is looked up in channels_.
Poll ==
    \E R \in SUBSET {i \in DOMAIN pollfds : pollfds[i].fd >= 0} :
      /\ Assert(TRUE, \A i \in R : pollfds[i].fd \in Fds /\ place[pollfds[i].fd] # 0)
      /\ active' = IfAsserted({pollfds[i].fd : i \in R}, active)
      /\ UNCHANGED <<events, place, pollfds>>

Next ==
    \/ failed = "no" /\ \E f \in Fds :
         SetEvents(f) \/ AddChannel(f) \/ UpdateChannel(f) \/ RemoveChannel(f)
    \/ failed = "no" /\ Poll

Spec == Init /\ [][Next]_vars

-----------------------------------------------------------------------------
(***************************************************************************)
(* Properties                                                              *)
(***************************************************************************)

\* The two structures are well typed and describe each other through every swap:
\* a known channel finds its own entry, shown or hidden, and every entry belongs
\* to a known channel that points back to it.  So whatever the calls, no assertion
\* on them (the index and the descriptor of an entry, the lookup of a reported
\* descriptor) fails.
PlacesAgree ==
    /\ TypeOK
    /\ \A f \in Fds : place[f] # 0 => place[f] \in DOMAIN pollfds /\ IsOf(pollfds[place[f]], f)
    /\ \A i \in DOMAIN pollfds :
         FdOf(pollfds[i]) \in Fds /\ place[FdOf(pollfds[i])] = i
    /\ failed # "own"

\* With the shown entries as interests, the array implements Poller.
Interest(f) ==
    IF place[f] = 0 THEN Absent
    ELSE IF pollfds[place[f]].fd < 0 THEN {} ELSE pollfds[place[f]].events

Abstract == INSTANCE Poller
              WITH Channels <- Fds, interest <- [f \in Fds |-> Interest(f)]

ImplementsPoller == Abstract!Spec
=============================================================================
