-------------------------- MODULE PollPollerProofs --------------------------
(***************************************************************************)
(* PollPoller's array and map describe each other through every swap, and  *)
(* with the shown entries as interests they implement Poller, for any set  *)
(* of descriptors.                                                         *)
(***************************************************************************)
EXTENDS PollPoller, TLAPS

USE FdAssumption, AbsentAssumption

\* Only descriptors with events are shown to poll(2).
ShownHasEvents == \A i \in DOMAIN pollfds : pollfds[i].fd >= 0 => pollfds[i].events # {}

IInv == PlacesAgree /\ ShownHasEvents

LEMMA InitIInv == Init => IInv
<1>1. <<>> \in Seq(Pollfd) /\ DOMAIN <<>> = {}
  OBVIOUS
<1> SUFFICES ASSUME Init PROVE IInv
  OBVIOUS
<1>2. TypeOK
  BY <1>1 DEF Init, TypeOK
<1>3. PlacesAgree /\ ShownHasEvents
  BY <1>1, <1>2 DEF Init, PlacesAgree, ShownHasEvents
<1>4. QED
  BY <1>3 DEF IInv

\* A descriptor is recovered from an entry, shown (fd) or hidden (-fd-1).
LEMMA FdOfEntry ==
    ASSUME NEW p \in Pollfd, NEW f \in Fds
    PROVE  IsOf(p, f) <=> FdOf(p) = f
  BY DEF Pollfd, IsOf, FdOf, Hidden

LEMMA EntryType ==
    ASSUME TypeOK, NEW f \in Fds
    PROVE  /\ Entry(f) \in Pollfd /\ FdOf(Entry(f)) = f
           /\ Entry(f).fd >= 0 <=> events[f] # {}
           /\ Entry(f).events = events[f]
           /\ (IF Entry(f).fd < 0 THEN {} ELSE Entry(f).events) = events[f]
  BY DEF TypeOK, Entry, Pollfd, FdOf, Hidden

\* PlacesAgree without the case distinction of IsOf, said of any map and array.
Describes(pl, p) ==
    /\ \A f \in Fds : pl[f] # 0 => pl[f] \in 1..Len(p) /\ FdOf(p[pl[f]]) = f
    /\ \A i \in 1..Len(p) : FdOf(p[i]) \in Fds /\ pl[FdOf(p[i])] = i

LEMMA AgreeIsDescribe ==
    ASSUME NEW pl \in [Fds -> Nat], NEW p \in Seq(Pollfd)
    PROVE  Describes(pl, p) <=>
             /\ \A f \in Fds : pl[f] # 0 => pl[f] \in DOMAIN p /\ IsOf(p[pl[f]], f)
             /\ \A i \in DOMAIN p : FdOf(p[i]) \in Fds /\ pl[FdOf(p[i])] = i
<1>1. DOMAIN p = 1..Len(p) /\ \A i \in 1..Len(p) : p[i] \in Pollfd
  OBVIOUS
<1>2. \A f \in Fds : pl[f] # 0 /\ pl[f] \in 1..Len(p) => (IsOf(p[pl[f]], f) <=> FdOf(p[pl[f]]) = f)
  BY <1>1, FdOfEntry
<1>3. QED
  BY <1>1, <1>2 DEF Describes

\* emplace_back at the end
LEMMA AppendDescribes ==
    ASSUME NEW pl \in [Fds -> Nat], NEW p \in Seq(Pollfd), Describes(pl, p),
           NEW f \in Fds, pl[f] = 0, NEW e \in Pollfd, FdOf(e) = f
    PROVE  Describes([pl EXCEPT ![f] = Len(p) + 1], Append(p, e))
<1> DEFINE q == Append(p, e)  ql == [pl EXCEPT ![f] = Len(p) + 1]
<1>1. /\ Len(p) \in Nat /\ Len(q) = Len(p) + 1 /\ q[Len(p) + 1] = e
      /\ \A i \in 1..Len(p) : q[i] = p[i]
  OBVIOUS
<1>2. ql[f] = Len(p) + 1 /\ \A g \in Fds : g # f => ql[g] = pl[g]
  OBVIOUS
<1> HIDE DEF q, ql
<1>3. ASSUME NEW g \in Fds, ql[g] # 0 PROVE ql[g] \in 1..Len(q) /\ FdOf(q[ql[g]]) = g
  BY <1>1, <1>2, <1>3 DEF Describes
<1>4. ASSUME NEW i \in 1..Len(q) PROVE FdOf(q[i]) \in Fds /\ ql[FdOf(q[i])] = i
  <2>1. CASE i = Len(p) + 1
    BY <1>1, <1>2, <2>1
  <2>2. CASE i # Len(p) + 1
    <3>1. i \in 1..Len(p) /\ i # 0 /\ q[i] = p[i]
      BY <1>1, <2>2
    <3>2. FdOf(p[i]) \in Fds /\ pl[FdOf(p[i])] = i
      BY <3>1 DEF Describes
    <3>3. QED
      BY <1>2, <3>1, <3>2
  <2>3. QED
    BY <2>1, <2>2
<1>5. Describes(ql, q)
  BY <1>3, <1>4 DEF Describes
<1>6. QED
  BY <1>5 DEF q, ql

\* Overwriting the entry of f
LEMMA ExceptDescribes ==
    ASSUME NEW pl \in [Fds -> Nat], NEW p \in Seq(Pollfd), Describes(pl, p),
           NEW f \in Fds, pl[f] # 0, NEW e \in Pollfd, FdOf(e) = f
    PROVE  Describes(pl, [p EXCEPT ![pl[f]] = e])
<1> DEFINE q == [p EXCEPT ![pl[f]] = e]
<1>1. pl[f] \in 1..Len(p) /\ FdOf(p[pl[f]]) = f
  BY DEF Describes
<1>2. /\ q \in Seq(Pollfd) /\ Len(q) = Len(p)
      /\ \A i \in 1..Len(p) : q[i] = IF i = pl[f] THEN e ELSE p[i]
  BY <1>1
<1> HIDE DEF q
<1>3. \A i \in 1..Len(p) : FdOf(q[i]) = FdOf(p[i])
  BY <1>1, <1>2
<1>4. QED
  BY <1>2, <1>3 DEF Describes, q

\* iter_swap with the last entry and pop_back: the last channel moves to the place
\* of f, and every other one keeps its own.
LEMMA SwapDescribes ==
    ASSUME NEW pl \in [Fds -> Nat], NEW p \in Seq(Pollfd), Describes(pl, p),
           NEW f \in Fds, pl[f] # 0
    PROVE  LET last == FdOf(p[Len(p)])
               q == [j \in 1..(Len(p) - 1) |-> IF j = pl[f] THEN p[Len(p)] ELSE p[j]]
               ql == [g \in Fds |-> IF g = f THEN 0 ELSE IF g = last THEN pl[f] ELSE pl[g]]
           IN  q \in Seq(Pollfd) /\ ql \in [Fds -> Nat] /\ Describes(ql, q)
<1> DEFINE n == Len(p)
           last == FdOf(p[n])
           q == [j \in 1..(n - 1) |-> IF j = pl[f] THEN p[n] ELSE p[j]]
           ql == [g \in Fds |-> IF g = f THEN 0 ELSE IF g = last THEN pl[f] ELSE pl[g]]
<1>1. /\ n \in Nat /\ pl[f] \in 1..n /\ FdOf(p[pl[f]]) = f
      /\ last \in Fds /\ pl[last] = n
  BY DEF Describes
<1>2. q \in Seq(Pollfd) /\ Len(q) = n - 1
  <2>1. q \in [1..(n - 1) -> Pollfd] /\ n - 1 \in Nat
    BY <1>1
  <2>2. QED
    BY <2>1
<1>3. \A j \in 1..(n - 1) : q[j] = IF j = pl[f] THEN p[n] ELSE p[j]
  OBVIOUS
<1>4. /\ ql \in [Fds -> Nat] /\ ql[f] = 0 /\ (last # f => ql[last] = pl[f])
      /\ \A g \in Fds : g # f /\ g # last => ql[g] = pl[g]
  BY <1>1
<1> HIDE DEF n, last, q, ql
<1>5. ASSUME NEW g \in Fds, ql[g] # 0 PROVE ql[g] \in 1..(n - 1) /\ FdOf(q[ql[g]]) = g
  <2>1. CASE g = last
    <3>1. g # f /\ ql[g] = pl[f] /\ pl[f] # n
      BY <1>1, <1>4, <1>5, <2>1 DEF last
    <3>2. QED
      BY <1>1, <1>3, <2>1, <3>1 DEF last
  <2>2. CASE g # last
    <3>1. g # f /\ ql[g] = pl[g] /\ pl[g] \in 1..n /\ FdOf(p[pl[g]]) = g
      BY <1>4, <1>5, <2>2 DEF Describes, n
    <3>2. pl[g] # n /\ pl[g] # pl[f]
      BY <1>1, <2>2, <3>1 DEF last
    <3>3. QED
      BY <1>1, <1>3, <3>1, <3>2
  <2>3. QED
    BY <2>1, <2>2
<1>6. ASSUME NEW i \in 1..(n - 1) PROVE FdOf(q[i]) \in Fds /\ ql[FdOf(q[i])] = i
  <2>1. CASE i = pl[f]
    <3>1. last # f
      BY <1>1, <2>1
    <3>2. QED
      BY <1>1, <1>3, <1>4, <2>1, <3>1 DEF last
  <2>2. CASE i # pl[f]
    <3>1. q[i] = p[i] /\ FdOf(p[i]) \in Fds /\ pl[FdOf(p[i])] = i
      BY <1>1, <1>3, <2>2 DEF Describes, n
    <3>2. FdOf(p[i]) # f /\ FdOf(p[i]) # last
      BY <1>1, <2>2, <3>1
    <3>3. QED
      BY <1>4, <3>1, <3>2
  <2>3. QED
    BY <2>1, <2>2
<1>7. Describes(ql, q)
  BY <1>2, <1>5, <1>6 DEF Describes
<1>8. QED
  BY <1>2, <1>4, <1>7 DEF n, last, q, ql

-----------------------------------------------------------------------------
\* IInv by its parts: types, the agreement of map and array, and the rest.
LEMMA IInvParts ==
    ASSUME IInv
    PROVE  /\ TypeOK /\ ShownHasEvents /\ Describes(place, pollfds)
           /\ pollfds \in Seq(Pollfd) /\ place \in [Fds -> Nat]
           /\ DOMAIN pollfds = 1..Len(pollfds)
<1>1. TypeOK /\ ShownHasEvents /\ pollfds \in Seq(Pollfd) /\ place \in [Fds -> Nat]
  BY DEF IInv, PlacesAgree, TypeOK
<1>2. Describes(place, pollfds)
  BY <1>1, AgreeIsDescribe DEF IInv, PlacesAgree
<1>3. QED
  BY <1>1, <1>2

\* A call fails no assertion but one on its caller, and then changes nothing.
LEMMA CallOutcome ==
    ASSUME IInv, NEW f \in Fds, AddChannel(f) \/ UpdateChannel(f) \/ RemoveChannel(f)
    PROVE  /\ failed' \in {"no", "caller"} /\ UNCHANGED <<events, active>>
           /\ failed' # "no" => UNCHANGED <<place, pollfds>>
<1>1. place[f] # 0 => place[f] \in DOMAIN pollfds /\ IsOf(pollfds[place[f]], f)
  BY DEF IInv, PlacesAgree
<1>2. QED
  BY <1>1 DEF AddChannel, UpdateChannel, RemoveChannel, Assert, IfAsserted

LEMMA StepIInv == IInv /\ [Next]_vars => IInv'
<1> SUFFICES ASSUME IInv, [Next]_vars PROVE IInv'
  OBVIOUS
<1>1. /\ TypeOK /\ ShownHasEvents /\ Describes(place, pollfds)
      /\ pollfds \in Seq(Pollfd) /\ place \in [Fds -> Nat] /\ DOMAIN pollfds = 1..Len(pollfds)
  BY IInvParts
\* What is left to show of a step
<1>2. ASSUME place' \in [Fds -> Nat], pollfds' \in Seq(Pollfd), Describes(place', pollfds'),
             events' \in [Fds -> SUBSET Event], active' \subseteq Fds, failed' \in {"no", "caller"},
             \A i \in 1..Len(pollfds') : pollfds'[i].fd >= 0 => pollfds'[i].events # {}
      PROVE  IInv'
  <2>1. DOMAIN pollfds' = 1..Len(pollfds')
    BY <1>2
  <2>2. PlacesAgree'
    BY <1>2, AgreeIsDescribe DEF PlacesAgree, TypeOK
  <2>3. QED
    BY <1>2, <2>1, <2>2 DEF IInv, ShownHasEvents
<1>3. ASSUME NEW f \in Fds, SetEvents(f) PROVE IInv'
  <2>1. events' \in [Fds -> SUBSET Event] /\ UNCHANGED <<place, pollfds, active, failed>>
    BY <1>1, <1>3 DEF SetEvents, TypeOK, Event
  <2>2. QED
    BY <1>1, <1>2, <2>1 DEF TypeOK, ShownHasEvents, IInv, PlacesAgree
<1>4. ASSUME NEW f \in Fds, AddChannel(f), failed' = "no" PROVE IInv'
  <2>1. /\ place[f] = 0 /\ place' = [place EXCEPT ![f] = Len(pollfds) + 1]
        /\ pollfds' = Append(pollfds, Entry(f)) /\ UNCHANGED <<events, active>>
    BY <1>4 DEF AddChannel, Assert, IfAsserted
  <2>2. /\ Entry(f) \in Pollfd /\ FdOf(Entry(f)) = f
        /\ Entry(f).fd >= 0 => Entry(f).events # {}
    BY <1>1, EntryType
  <2>3. Describes(place', pollfds')
    BY <1>1, <2>1, <2>2, AppendDescribes
  <2>4. place' \in [Fds -> Nat] /\ pollfds' \in Seq(Pollfd)
    BY <1>1, <2>1, <2>2
  <2>5. \A i \in 1..Len(pollfds') : pollfds'[i].fd >= 0 => pollfds'[i].events # {}
    BY <1>1, <2>1, <2>2 DEF ShownHasEvents
  <2>6. QED
    BY <1>1, <1>2, <1>4, <2>1, <2>3, <2>4, <2>5 DEF TypeOK
<1>5. ASSUME NEW f \in Fds, UpdateChannel(f), failed' = "no" PROVE IInv'
  <2>1. place[f] # 0 /\ pollfds' = [pollfds EXCEPT ![place[f]] = Entry(f)]
        /\ UNCHANGED <<events, place, active>>
    BY <1>5 DEF UpdateChannel, Assert, IfAsserted
  <2>2. /\ Entry(f) \in Pollfd /\ FdOf(Entry(f)) = f
        /\ Entry(f).fd >= 0 => Entry(f).events # {}
    BY <1>1, EntryType
  <2>3. place[f] \in 1..Len(pollfds) /\ IsOf(pollfds[place[f]], f)
    BY <1>1, <2>1 DEF IInv, PlacesAgree
  <2>5. Describes(place', pollfds')
    BY <1>1, <2>1, <2>2, ExceptDescribes
  <2>6. pollfds' \in Seq(Pollfd)
    BY <1>1, <2>1, <2>2, <2>3
  <2>7. \A i \in 1..Len(pollfds') : pollfds'[i].fd >= 0 => pollfds'[i].events # {}
    BY <1>1, <2>1, <2>2, <2>3 DEF ShownHasEvents
  <2>8. QED
    BY <1>1, <1>2, <1>5, <2>1, <2>5, <2>6, <2>7 DEF TypeOK
<1>6. ASSUME NEW f \in Fds, RemoveChannel(f), failed' = "no" PROVE IInv'
  <2>1. /\ place[f] # 0 /\ place' = Moved(f) /\ pollfds' = CloseGap(place[f])
        /\ UNCHANGED <<events, active>>
    BY <1>6 DEF RemoveChannel, Assert, IfAsserted
  <2>2. place[f] \in 1..Len(pollfds)
    BY <1>1, <2>1 DEF Describes
  <2>4. place' \in [Fds -> Nat] /\ pollfds' \in Seq(Pollfd) /\ Describes(place', pollfds')
    BY <1>1, <2>1, SwapDescribes DEF Moved, CloseGap
  <2>5. \A i \in 1..Len(pollfds') : pollfds'[i].fd >= 0 => pollfds'[i].events # {}
    <3>1. Len(pollfds') = Len(pollfds) - 1
      BY <1>1, <2>1, <2>2 DEF CloseGap
    <3>2. QED
      BY <1>1, <2>1, <2>2, <3>1 DEF ShownHasEvents, CloseGap
  <2>6. QED
    BY <1>1, <1>2, <1>6, <2>1, <2>4, <2>5 DEF TypeOK
<1>7. CASE Poll
  <2>1. PICK R \in SUBSET {i \in DOMAIN pollfds : pollfds[i].fd >= 0} :
               /\ Assert(TRUE, \A i \in R : pollfds[i].fd \in Fds /\ place[pollfds[i].fd] # 0)
               /\ active' = IfAsserted({pollfds[i].fd : i \in R}, active)
               /\ UNCHANGED <<events, place, pollfds>>
    BY <1>7 DEF Poll
  <2>2. \A i \in R : pollfds[i].fd \in Fds /\ place[pollfds[i].fd] # 0
    <3>1. ASSUME NEW i \in R PROVE pollfds[i].fd \in Fds /\ place[pollfds[i].fd] = i /\ i # 0
      <4>1. i \in 1..Len(pollfds) /\ pollfds[i] \in Pollfd /\ pollfds[i].fd >= 0
        BY <1>1
      <4>2. FdOf(pollfds[i]) = pollfds[i].fd
        BY <4>1 DEF FdOf, Pollfd
      <4>3. QED
        BY <1>1, <4>1, <4>2 DEF Describes
    <3>2. QED
      BY <3>1
  <2>3. failed' = "no" /\ active' \subseteq Fds
    BY <2>1, <2>2 DEF Assert, IfAsserted
  <2>4. QED
    BY <1>1, <1>2, <2>1, <2>3 DEF TypeOK, ShownHasEvents
<1>8. CASE UNCHANGED vars
  BY <1>1, <1>2, <1>8 DEF vars, TypeOK, ShownHasEvents, IInv, PlacesAgree
<1>9. ASSUME NEW f \in Fds, AddChannel(f) \/ UpdateChannel(f) \/ RemoveChannel(f), failed' # "no"
      PROVE  IInv'
  <2>1. failed' = "caller" /\ UNCHANGED <<events, active, place, pollfds>>
    BY <1>9, CallOutcome
  <2>2. QED
    BY <1>1, <1>2, <2>1 DEF TypeOK, ShownHasEvents
<1>10. QED
  BY <1>3, <1>4, <1>5, <1>6, <1>7, <1>8, <1>9 DEF Next

\* The map and the array of PollPoller describe each other through every addition,
\* update and swap, for any number of descriptors.
THEOREM PlacesAlwaysAgree == Spec => []PlacesAgree
<1>1. IInv => PlacesAgree
  BY DEF IInv
<1>2. QED
  BY <1>1, InitIInv, StepIInv, PTL DEF Spec

-----------------------------------------------------------------------------
(***************************************************************************)
(* Refinement: what the map finds in the array are the interests of Poller *)
(***************************************************************************)
interest == [f \in Fds |-> Interest(f)]

\* The interest of a known channel is the mask of its entry, shown or hidden.
LEMMA StepRefines == IInv /\ IInv' /\ [Next]_vars => [Abstract!Next]_(Abstract!vars)
<1> SUFFICES ASSUME IInv, IInv', [Next]_vars PROVE [Abstract!Next]_(Abstract!vars)
  OBVIOUS
<1>1. /\ TypeOK /\ ShownHasEvents /\ Describes(place, pollfds)
      /\ pollfds \in Seq(Pollfd) /\ place \in [Fds -> Nat] /\ DOMAIN pollfds = 1..Len(pollfds)
  BY IInvParts
<1>2. \A f \in Fds : place[f] # 0 => pollfds[place[f]].events \in SUBSET Event /\ Interest(f) # Absent
  <2> SUFFICES ASSUME NEW f \in Fds, place[f] # 0
               PROVE  pollfds[place[f]].events \in SUBSET Event /\ Interest(f) # Absent
    OBVIOUS
  <2>1. pollfds[place[f]] \in Pollfd
    BY <1>1 DEF Describes
  <2>2. QED
    BY <2>1 DEF Pollfd, Interest
<1>3. ASSUME NEW f \in Fds, SetEvents(f) PROVE UNCHANGED Abstract!vars
  BY <1>3 DEF SetEvents, Abstract!vars, Interest
\* AddChannel and UpdateChannel give f the interest in its events.
<1>4. ASSUME NEW f \in Fds, NEW ev, ev = events[f], active' = active,
             interest' = [interest EXCEPT ![f] = ev]
      PROVE  Abstract!Next
  <2>1. ev \in SUBSET Abstract!Event
    BY <1>1, <1>4 DEF TypeOK, Abstract!Event, Event
  <2>2. Abstract!AddChannel(f, ev) \/ Abstract!UpdateChannel(f, ev)
    BY <1>4 DEF Abstract!AddChannel, Abstract!UpdateChannel, Abstract!Known, interest
  <2>3. QED
    BY <2>1, <2>2 DEF Abstract!Next
<1>5. ASSUME NEW f \in Fds, AddChannel(f), failed' = "no" PROVE Abstract!Next
  <2>1. /\ place[f] = 0 /\ place' = [place EXCEPT ![f] = Len(pollfds) + 1]
        /\ pollfds' = Append(pollfds, Entry(f)) /\ active' = active
    BY <1>5 DEF AddChannel, Assert, IfAsserted
  <2>2. Entry(f) \in Pollfd /\ (IF Entry(f).fd < 0 THEN {} ELSE Entry(f).events) = events[f]
    BY <1>1, EntryType
  <2>3. ASSUME NEW g \in Fds PROVE Interest(g)' = IF g = f THEN events[f] ELSE Interest(g)
    <3>1. CASE g = f
      <4>1. place'[f] = Len(pollfds) + 1 /\ place'[f] # 0 /\ pollfds'[place'[f]] = Entry(f)
        BY <1>1, <2>1, <2>2
      <4>2. QED
        BY <2>2, <3>1, <4>1 DEF Interest
    <3>2. CASE g # f
      <4>1. place'[g] = place[g]
        BY <1>1, <2>1, <3>2
      <4>2. place[g] # 0 => pollfds'[place[g]] = pollfds[place[g]]
        BY <1>1, <2>1, <2>2 DEF Describes
      <4>3. QED
        BY <3>2, <4>1, <4>2 DEF Interest
    <3>3. QED
      BY <3>1, <3>2
  <2>4. interest' = [interest EXCEPT ![f] = events[f]]
    BY <2>3 DEF interest
  <2>5. QED
    BY <1>4, <2>1, <2>4
<1>6. ASSUME NEW f \in Fds, UpdateChannel(f), failed' = "no" PROVE Abstract!Next
  <2>1. /\ place[f] # 0 /\ pollfds' = [pollfds EXCEPT ![place[f]] = Entry(f)]
        /\ UNCHANGED <<place, active>>
    BY <1>6 DEF UpdateChannel, Assert, IfAsserted
  <2>2. Entry(f) \in Pollfd /\ (IF Entry(f).fd < 0 THEN {} ELSE Entry(f).events) = events[f]
    BY <1>1, EntryType
  <2>3. ASSUME NEW g \in Fds PROVE Interest(g)' = IF g = f THEN events[f] ELSE Interest(g)
    <3>1. place[f] \in 1..Len(pollfds) /\ place' = place
      BY <1>1, <2>1 DEF Describes
    <3>2. CASE g = f
      <4>1. pollfds'[place[f]] = Entry(f)
        BY <1>1, <2>1, <3>1
      <4>2. QED
        BY <2>1, <2>2, <3>1, <3>2, <4>1 DEF Interest
    <3>3. CASE g # f
      <4>1. place[g] # 0 => place[g] # place[f] /\ pollfds'[place[g]] = pollfds[place[g]]
        BY <1>1, <2>1, <3>1, <3>3 DEF Describes
      <4>2. QED
        BY <3>1, <3>3, <4>1 DEF Interest
    <3>4. QED
      BY <3>2, <3>3
  <2>4. interest' = [interest EXCEPT ![f] = events[f]]
    BY <2>3 DEF interest
  <2>5. QED
    BY <1>4, <2>1, <2>4
<1>7. ASSUME NEW f \in Fds, RemoveChannel(f), failed' = "no" PROVE Abstract!Next
  <2>1. place[f] # 0 /\ place' = Moved(f) /\ pollfds' = CloseGap(place[f]) /\ active' = active
    BY <1>7 DEF RemoveChannel, Assert, IfAsserted
  <2>2. ASSUME NEW g \in Fds PROVE Interest(g)' = IF g = f THEN Absent ELSE Interest(g)
    <3> DEFINE last == FdOf(pollfds[Len(pollfds)])
    <3>1. place[f] \in 1..Len(pollfds) /\ FdOf(pollfds[place[f]]) = f /\ place[last] = Len(pollfds)
      BY <1>1, <2>1 DEF Describes
    <3>2. CASE g = f
      BY <2>1, <3>2 DEF Interest, Moved
    <3>3. CASE g # f /\ g = last
      <4>1. place'[g] = place[f] /\ place[f] \in 1..(Len(pollfds) - 1)
        BY <2>1, <3>1, <3>3 DEF Moved
      <4>2. pollfds'[place'[g]] = pollfds[place[g]]
        BY <2>1, <3>1, <3>3, <4>1 DEF CloseGap
      <4>3. QED
        BY <3>1, <3>3, <4>1, <4>2 DEF Interest
    <3>4. CASE g # f /\ g # last
      <4>1. place'[g] = place[g]
        BY <2>1, <3>4 DEF Moved
      <4>2. ASSUME place[g] # 0 PROVE pollfds'[place[g]] = pollfds[place[g]]
        <5>1. place[g] \in 1..Len(pollfds) /\ FdOf(pollfds[place[g]]) = g
          BY <1>1, <4>2 DEF Describes
        <5>2. place[g] # place[f] /\ place[g] # Len(pollfds)
          BY <3>1, <3>4, <5>1
        <5>3. QED
          BY <2>1, <5>1, <5>2 DEF CloseGap
      <4>3. QED
        BY <3>4, <4>1, <4>2 DEF Interest
    <3>5. QED
      BY <3>2, <3>3, <3>4
  <2>3. interest' = [interest EXCEPT ![f] = Absent]
    BY <2>2 DEF interest
  <2>4. Abstract!RemoveChannel(f)
    BY <1>2, <2>1, <2>3 DEF Abstract!RemoveChannel, Abstract!Known, interest
  <2>5. QED
    BY <2>4 DEF Abstract!Next
<1>8. CASE Poll
  <2>1. PICK R \in SUBSET {i \in DOMAIN pollfds : pollfds[i].fd >= 0} :
               /\ active' = IfAsserted({pollfds[i].fd : i \in R}, active)
               /\ Assert(TRUE, \A i \in R : pollfds[i].fd \in Fds /\ place[pollfds[i].fd] # 0)
               /\ UNCHANGED <<events, place, pollfds>>
    BY <1>8 DEF Poll
  <2>2. ASSUME NEW i \in R
        PROVE  /\ pollfds[i].fd \in Fds /\ place[pollfds[i].fd] # 0
               /\ Interest(pollfds[i].fd) \notin {Absent, {}}
    <3>1. i \in 1..Len(pollfds) /\ pollfds[i] \in Pollfd /\ pollfds[i].fd >= 0 /\ pollfds[i].events # {}
      BY <1>1 DEF ShownHasEvents
    <3>2. FdOf(pollfds[i]) = pollfds[i].fd
      BY <3>1 DEF FdOf, Pollfd
    <3>3. pollfds[i].fd \in Fds /\ place[pollfds[i].fd] = i
      BY <1>1, <3>1, <3>2 DEF Describes
    <3>4. QED
      BY <3>1, <3>3 DEF Interest, Pollfd
  <2>3. active' \in SUBSET {f \in Fds : interest[f] \notin {Absent, {}}}
    BY <2>1, <2>2 DEF interest, Assert, IfAsserted
  <2>4. Abstract!Poll
    BY <2>1, <2>3 DEF Abstract!Poll, interest, Interest
  <2>5. QED
    BY <2>4 DEF Abstract!Next
<1>9. CASE UNCHANGED vars
  BY <1>9 DEF vars, Abstract!vars, Interest
<1>10. ASSUME NEW f \in Fds, AddChannel(f) \/ UpdateChannel(f) \/ RemoveChannel(f), failed' # "no"
       PROVE  UNCHANGED Abstract!vars
  BY <1>10, CallOutcome DEF Abstract!vars, Interest
<1>11. QED
  BY <1>3, <1>5, <1>6, <1>7, <1>8, <1>9, <1>10 DEF Next

\* PollPoller implements the same Poller as EPollPoller, so an EventLoop cannot
\* tell them apart: poll() reports only known channels that have events set.
THEOREM PollImplementsPoller == Spec => ImplementsPoller
<1>1. Init => Abstract!Init
  BY DEF Init, Abstract!Init, Interest
<1>2. QED
  BY <1>1, InitIInv, StepIInv, StepRefines, PTL DEF Spec, ImplementsPoller, Abstract!Spec
=============================================================================
