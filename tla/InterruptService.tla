-------------------------- MODULE InterruptService --------------------------
(***************************************************************************)
(* What the interrupt system promises the peripherals and the programs,    *)
(* without T-states, bus lines or controller states: requests are kept     *)
(* until they are acknowledged, the highest waiting request is the one     *)
(* granted, and one service runs at a time.                                *)
(***************************************************************************)
EXTENDS Integers

CONSTANT Sources            \* the request inputs, a set of naturals; 0 wins

VARIABLES
    request,                \* the sources that raise a request now
    pending,                \* requests raised and not yet acknowledged
    current,                \* the source being acknowledged or served
    phase                   \* open: no service; ack; service

vars == <<request, pending, current, phase>>

First(requests) == {i \in requests : \A j \in requests : i <= j}

Init ==
    /\ request = {}
    /\ pending = {}
    /\ current = {}
    /\ phase = "open"

\* Requests are remembered whatever else goes on.
Listen ==
    /\ pending' = pending \cup request
    /\ UNCHANGED <<current, phase>>

\* The CPU takes the interrupt: from now on its source is fixed.
Grant ==
    /\ phase = "open"
    /\ First(pending) # {}
    /\ current' = First(pending)
    /\ phase' = "ack"
    /\ pending' = pending \cup request

\* While the acknowledge lasts, and at its end, the granted request is taken.
Take ==
    /\ phase = "ack"
    /\ pending' = (pending \ current) \cup request
    /\ phase' \in {"ack", "service"}
    /\ UNCHANGED current

Complete ==
    /\ phase = "service"
    /\ phase' = "open"
    /\ current' = {}
    /\ pending' = pending \cup request

Reset == pending' = {} /\ current' = {} /\ phase' = "open"

Next ==
    /\ request' \in SUBSET Sources
    /\ Listen \/ Grant \/ Take \/ Complete \/ Reset

Spec == Init /\ [][Next]_vars
=============================================================================
