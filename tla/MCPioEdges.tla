----------------------------- MODULE MCPioEdges -----------------------------
(***************************************************************************)
(* Pio with a record of what was at the pins: the levels of the strobe and *)
(* the condition of the monitored lines on the last edges.                 *)
(***************************************************************************)
EXTENDS Pio

VARIABLES
    strobes,                \* strobe levels of the last five edges, latest first
    conditions,             \* conditions of the last three edges
    watched,                \* edges with the same lines monitored, at most 3
    armed                   \* the last edge looked for strobes

history == <<strobes, conditions, watched, armed>>

\* The latest of n values comes first.
Shift(record, value, n) ==
    [k \in 1 .. n |-> IF k = 1 THEN value ELSE record[k - 1]]

EInit ==
    /\ Init
    /\ strobes = [i \in Ports |-> [n \in 1 .. 5 |-> 1]]
    /\ conditions = [i \in Ports |-> [n \in 1 .. 3 |-> FALSE]]
    /\ watched = [i \in Ports |-> 0]
    /\ armed = [i \in Ports |-> FALSE]

Watches(p) == p.mode = 3 /\ Enabled(p) /\ Monitored(p) # {}

\* The port goes on monitoring the same lines for the same condition.
SameWatch(p, q) ==
    Watches(q) /\ q.irqCtrl = p.irqCtrl /\ q.irqMask = p.irqMask

ENext ==
    /\ Next
    /\ strobes' = [i \in Ports |-> Shift(strobes[i], pStb[i], 5)]
    /\ conditions' = [i \in Ports |->
           Shift(conditions[i], Watches(prog[i]) /\ Condition(prog[i], pIn[i]), 3)]
    /\ watched' = [i \in Ports |->
           IF ~Watches(prog[i]) \/ ~SameWatch(prog[i], prog'[i]) THEN 0
           ELSE IF watched[i] = 3 THEN 3 ELSE watched[i] + 1]
    /\ armed' = [i \in Ports |-> prog[i].mode = 0 /\ Enabled(prog[i])]

ESpec == EInit /\ [][ENext]_<<vars, history>>

-----------------------------------------------------------------------------
\* While a port monitors the same lines, it raises exactly one request for
\* every edge of the condition, however the pins move and whatever else is
\* written or acknowledged meanwhile.
OneRequestPerEdge ==
    \A i \in Ports :
        watched[i] = 3 =>
            (irq[i].int = 1 <=> conditions[i][2] /\ ~conditions[i][3])

\* A port in mode 0 raises exactly one request for every end of a strobe,
\* and none for the level, whatever is written meanwhile.
OneRequestPerStrobe ==
    \A i \in Ports :
        armed[i] => (irq[i].int = 1 <=> strobes[i][4] = 1 /\ strobes[i][5] = 0)
=============================================================================
