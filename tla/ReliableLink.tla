---------------------------- MODULE ReliableLink ----------------------------
(***************************************************************************)
(* What a BCSP link promises its two hosts while both ends are active:     *)
(* each direction takes one reliable packet at a time, hands it over       *)
(* exactly once and only then tells the sender that it was sent.           *)
(* Unreliable packets may arrive or not.  Nothing is promised while an end *)
(* is not active.                                                          *)
(***************************************************************************)
CONSTANTS End, Data, None

VARIABLES
    chan,  \* chan[e]: the reliable packet of e's host
    got    \* got[e]: the packet e's host has been handed and not taken yet
vars == <<chan, got>>

Packet == [reliable : BOOLEAN, data : Data]
Down == [st |-> "down", data |-> None]
Empty == [st |-> "empty", data |-> None]
Accepted(d) == [st |-> "accepted", data |-> d]
Delivered(d) == [st |-> "delivered", data |-> d]

Init ==
    /\ chan = [e \in End |-> Down]
    /\ got = [e \in End |-> None]

IsUp == \A e \in End : chan[e].st # "down"

\* Both ends become active, with or without packets waiting.
Up ==
    /\ ~IsUp
    /\ chan' \in [End -> {Empty} \cup {Accepted(d) : d \in Data}]
    /\ UNCHANGED got

\* An end starts again; its host may have lost what it was handed.
GoDown ==
    /\ chan' = [e \in End |-> Down]
    /\ got' \in {[e \in End |-> IF e \in lost THEN None ELSE got[e]] : lost \in SUBSET End}

Submit(e, d) ==
    /\ chan[e] = Empty
    /\ chan' = [chan EXCEPT ![e] = Accepted(d)]
    /\ UNCHANGED got

Confirm(e, d) ==
    /\ chan[e] = Delivered(d)
    /\ chan' = [chan EXCEPT ![e] = Empty]
    /\ UNCHANGED got

\* One arriving frame hands a packet over; the acknowledgement it carries may
\* confirm a packet of the other direction in the same step.
Deliver(e, o, d) ==
    /\ chan[e] = Accepted(d) /\ got[o] = None
    /\ got' = [got EXCEPT ![o] = [reliable |-> TRUE, data |-> d]]
    /\ \/ chan' = [chan EXCEPT ![e] = Delivered(d)]
       \/ /\ chan[o].st = "delivered"
          /\ chan' = [chan EXCEPT ![e] = Delivered(d), ![o] = Empty]

DeliverUnreliable(o, d) ==
    /\ got[o] = None
    /\ got' = [got EXCEPT ![o] = [reliable |-> FALSE, data |-> d]]
    /\ \/ UNCHANGED chan
       \/ chan[o].st = "delivered" /\ chan' = [chan EXCEPT ![o] = Empty]

Take(e) == got' = [got EXCEPT ![e] = None] /\ UNCHANGED chan

\* Packets of an earlier session may still arrive while the link is down, and
\* a host may restart.
WhileDown == ~IsUp /\ got' \in [End -> Packet \cup {None}] /\ UNCHANGED chan

Next ==
    \/ Up \/ GoDown \/ WhileDown
    \/ \E e \in End : Take(e)
    \/ \E e \in End, d \in Data : Submit(e, d) \/ Confirm(e, d) \/ DeliverUnreliable(e, d)
    \/ \E e \in End, o \in End, d \in Data : e # o /\ Deliver(e, o, d)

Spec == Init /\ [][Next]_vars
=============================================================================
