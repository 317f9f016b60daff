------------------------------- MODULE Poller -------------------------------
(***************************************************************************)
(* What miniduo::BasePoller promises its EventLoop: it knows a set of      *)
(* channels, each with the events it is interested in, and poll reports    *)
(* only channels it knows and which are interested in something.           *)
(***************************************************************************)
CONSTANTS Channels, Absent

VARIABLES interest, active

vars == <<interest, active>>

Event == {"read", "write"}

Known(c) == interest[c] # Absent

Init ==
    /\ interest = [c \in Channels |-> Absent]
    /\ active = {}

AddChannel(c, ev) ==
    /\ ~Known(c)
    /\ interest' = [interest EXCEPT ![c] = ev]
    /\ UNCHANGED active

UpdateChannel(c, ev) ==
    /\ Known(c)
    /\ interest' = [interest EXCEPT ![c] = ev]
    /\ UNCHANGED active

RemoveChannel(c) ==
    /\ Known(c)
    /\ interest' = [interest EXCEPT ![c] = Absent]
    /\ UNCHANGED active

Poll ==
    /\ active' \in SUBSET {c \in Channels : interest[c] \notin {Absent, {}}}
    /\ UNCHANGED interest

Next ==
    \/ \E c \in Channels, ev \in SUBSET Event : AddChannel(c, ev) \/ UpdateChannel(c, ev)
    \/ \E c \in Channels : RemoveChannel(c)
    \/ Poll

Spec == Init /\ [][Next]_vars
=============================================================================
