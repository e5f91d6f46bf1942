---------------------------- MODULE IntController ----------------------------
(***************************************************************************)
(* The interrupt controller of the KC87 (rtl/periph/simpleIntcontroller.vhd).*)
(*                                                                         *)
(* It latches the one-clock request pulses of the CTC and the two PIOs,    *)
(* offers the one of highest priority (input 0) to the CPU, and follows    *)
(* the CPU's M1, IORQ and RETI lines to learn when the request has been    *)
(* acknowledged and when its service routine has returned.                 *)
(*                                                                         *)
(* One action per branch of the clocked process; each is one rising edge   *)
(* of clk.  The CPU's lines and the request pulses are parameters, so that *)
(* KcInterrupt can connect them to the T80; levels are 0 and 1 as on the   *)
(* wire, vectors of requests are sets of input numbers.                    *)
(***************************************************************************)
EXTENDS Integers

CONSTANT numInts            \* request inputs (generic numInts, 8 in the KC87)

ASSUME NumIntsAssumption == numInts \in Nat \ {0}

Ints == 0 .. numInts - 1

Level == {0, 1}

ControllerStates ==
    {"idle", "intAccepted", "waitForRetiEnd", "waitForM1", "finishInt"}

VARIABLES
    intInternal,            \* requests latched and not yet acknowledged
    currentInt,             \* the request offered to, or served by, the CPU
    state,                  \* where the service of currentInt has got to
    int_n                   \* the CPU's interrupt line, low while offering

ctlVars == <<intInternal, currentInt, state, int_n>>

CtlTypeOK ==
    /\ intInternal \subseteq Ints
    /\ currentInt \subseteq Ints
    /\ state \in ControllerStates
    /\ int_n \in Level

\* A slip: the priority loop without its exit.
AllRequests(requests) == requests

\* The request of highest priority in a vector; empty when there is none.
Highest(requests) == {i \in requests : \A j \in requests : i <= j}

intMask == Highest(intInternal)

CtlInit ==
    /\ intInternal = {}
    /\ currentInt = {}
    /\ state = "idle"
    /\ int_n = 1

-----------------------------------------------------------------------------
(***************************************************************************)
(* Edges with M1 high.                                                     *)
(***************************************************************************)

\* A slip: the acknowledge clears every request.
LatchClearingAll(reset, pulses) ==
    intInternal' = (IF reset = {} THEN intInternal ELSE {}) \cup pulses

\* Pulses are latched on every edge, after the acknowledged one is removed.
Latch(reset, pulses) == intInternal' = (intInternal \ reset) \cup pulses

\* A slip: the first offer is kept when a higher request comes.
OfferKept(m1, pulses) ==
    /\ m1 = 1
    /\ state = "idle"
    /\ intMask # {}
    /\ int_n' = 0
    /\ currentInt' = IF int_n = 0 THEN currentInt ELSE intMask
    /\ Latch({}, pulses)
    /\ UNCHANGED state

\* Offer the highest request, and switch to a higher one until M1 falls.
Offer(m1, pulses) ==
    /\ m1 = 1
    /\ state = "idle"
    /\ intMask # {}
    /\ int_n' = 0
    /\ currentInt' = intMask
    /\ Latch({}, pulses)
    /\ UNCHANGED state

\* A slip: the service is taken for over as soon as it has begun.
RetiNotAwaited(m1, reti, pulses) ==
    /\ m1 = 1
    /\ state = "intAccepted"
    /\ state' = "waitForRetiEnd"
    /\ Latch({}, pulses)
    /\ UNCHANGED <<currentInt, int_n>>

\* A slip: the next offer is allowed while RETI still executes.
RetiFrees(m1, reti, pulses) ==
    /\ m1 = 1
    /\ state = "intAccepted"
    /\ reti = 0
    /\ state' = "idle"
    /\ Latch({}, pulses)
    /\ UNCHANGED <<currentInt, int_n>>

RetiSeen(m1, reti, pulses) ==
    /\ m1 = 1
    /\ state = "intAccepted"
    /\ reti = 0
    /\ state' = "waitForRetiEnd"
    /\ Latch({}, pulses)
    /\ UNCHANGED <<currentInt, int_n>>

\* A slip: no further M1 cycle is awaited.
RetiEndedEarly(m1, reti, pulses) ==
    /\ m1 = 1
    /\ state = "waitForRetiEnd"
    /\ reti = 1
    /\ state' = "finishInt"
    /\ Latch({}, pulses)
    /\ UNCHANGED <<currentInt, int_n>>

RetiEnded(m1, reti, pulses) ==
    /\ m1 = 1
    /\ state = "waitForRetiEnd"
    /\ reti = 1
    /\ state' = "waitForM1"
    /\ Latch({}, pulses)
    /\ UNCHANGED <<currentInt, int_n>>

Finish(m1, pulses) ==
    /\ m1 = 1
    /\ state = "finishInt"
    /\ currentInt' = {}
    /\ state' = "idle"
    /\ Latch({}, pulses)
    /\ UNCHANGED int_n

HoldHigh(m1, reti, pulses) ==
    /\ m1 = 1
    /\ \/ state = "idle" /\ intMask = {}
       \/ state = "intAccepted" /\ reti = 1
       \/ state = "waitForRetiEnd" /\ reti = 0
       \/ state = "waitForM1"
    /\ Latch({}, pulses)
    /\ UNCHANGED <<currentInt, state, int_n>>

-----------------------------------------------------------------------------
(***************************************************************************)
(* Edges with M1 low: opcode fetches, and acknowledges when IORQ is low.   *)
(***************************************************************************)

\* intAck: the vector the peripherals see while the CPU acknowledges.
intAck(m1, iorq) == IF m1 = 0 /\ iorq = 0 THEN currentInt ELSE {}

\* A slip: the acknowledged request stays latched.
AcknowledgeKept(m1, iorq, pulses) ==
    /\ m1 = 0
    /\ iorq = 0
    /\ state' = "intAccepted"
    /\ int_n' = 1
    /\ Latch({}, pulses)
    /\ UNCHANGED currentInt

\* The acknowledge repeats on every edge of the window the CPU opens.
Acknowledge(m1, iorq, pulses) ==
    /\ m1 = 0
    /\ iorq = 0
    /\ state' = "intAccepted"
    /\ int_n' = 1
    /\ Latch(currentInt, pulses)
    /\ UNCHANGED currentInt

\* The M1 cycle that follows the RETI, before the next offer.
ExtraM1(m1, iorq, pulses) ==
    /\ m1 = 0
    /\ iorq = 1
    /\ state = "waitForM1"
    /\ state' = "finishInt"
    /\ Latch({}, pulses)
    /\ UNCHANGED <<currentInt, int_n>>

HoldLow(m1, iorq, pulses) ==
    /\ m1 = 0
    /\ iorq = 1
    /\ state # "waitForM1"
    /\ Latch({}, pulses)
    /\ UNCHANGED <<currentInt, state, int_n>>

\* One rising edge outside reset.
CtlClock(m1, iorq, reti, pulses) ==
    \/ Offer(m1, pulses)
    \/ RetiSeen(m1, reti, pulses)
    \/ RetiEnded(m1, reti, pulses)
    \/ Finish(m1, pulses)
    \/ HoldHigh(m1, reti, pulses)
    \/ Acknowledge(m1, iorq, pulses)
    \/ ExtraM1(m1, iorq, pulses)
    \/ HoldLow(m1, iorq, pulses)

\* A rising edge with res_n low: the same values as at power-up.
CtlReset ==
    /\ intInternal' = {}
    /\ currentInt' = {}
    /\ state' = "idle"
    /\ int_n' = 1
=============================================================================
