----------------------------- MODULE KcInterrupt -----------------------------
(***************************************************************************)
(* The interrupt controller and the CPU wired together as in rtl/kc87.vhd. *)
(* Both are clocked by clk, so one step is one rising edge on which every  *)
(* register reads the others' values before the edge.  The CPU moves only  *)
(* on edges with CLKEN high: on every edge in turbo mode, on the fractional*)
(* ticks of kcSysClk otherwise.                                            *)
(***************************************************************************)
EXTENDS IntController, T80Int

VARIABLE intPeriph          \* the peripherals' request pulses, now

vars == <<intPeriph, intInternal, currentInt, state, int_n, mcycle, tstate, ir,
          intCycle, Auto_Wait_t1, Auto_Wait_t2, iff1, iff2, int_s, m1_n, iorq_n,
          RETI_n>>

Init == intPeriph = {} /\ CtlInit /\ CpuInit

\* What the controller does on an edge, with the lines as wired.
Controller ==
    /\ CtlClock(m1_n, iorq_n, RETI_n, intPeriph)
    /\ RegisterReti

\* An edge with CLKEN high, the program supplying the opcode op.
Tick(op) == Controller /\ CpuEdge(int_n, op)

\* An edge with CLKEN low.
Pause == Controller /\ UNCHANGED seqVars

\* resetInt, from the push button or the clock PLL, at any moment.
Reset == CtlReset /\ CpuReset

\* Peripherals pulse whenever they like.
Pulse == intPeriph' \in SUBSET Ints

Next == Pulse /\ (Pause \/ Reset \/ \E op \in Classes : Tick(op))

Spec == Init /\ [][Next]_vars

-----------------------------------------------------------------------------
\* The lines are in an interrupt acknowledge: the peripherals see intAck.
AckWindow == m1_n = 0 /\ iorq_n = 0

\* The next CPU edge latches the vector of an acknowledge (T2 of its M1).
LatchesVector == intCycle = 1 /\ mcycle = 1 /\ tstate = 2

\* The edge on which the CPU starts an interrupt cycle.
TakesInterrupt == m1_n = 1 /\ m1_n' = 0 /\ intCycle' = 1

TypeOK == intPeriph \subseteq Ints /\ CtlTypeOK /\ CpuTypeOK

\* Throughout an acknowledge, and on the edge that latches the vector,
\* exactly one source is told to drive it: the data mux of kc87.vhd would
\* otherwise pass on the vector of a source that is not served, or RAM.
AckHasOneSource ==
    AckWindow \/ LatchesVector => \E i \in Ints : intAck(m1_n, iorq_n) = {i}

\* At the edge on which the CPU takes the interrupt, the source is fixed to
\* the highest request latched then, even if it came after the offer.
GrantsHighest == [][TakesInterrupt => intMask # {} /\ currentInt' = intMask]_vars

\* A latched request leaves the latch only in its own acknowledge (or in a
\* reset): no edge of the CPU, stray RETI or I/O access loses it.
RequestsKept ==
    [][Reset \/ \A i \in intInternal \ intInternal' :
           AckWindow /\ currentInt = {i}]_vars

\* A CPU that has sampled an offer still finds it offered, or is already
\* acknowledging it: no interrupt is taken on a stale sample.
NoStaleSample ==
    int_s = 1 => int_n = 0 \/ (intCycle = 1 /\ mcycle = 1 /\ AckWindow)

\* The promises of InterruptService: the CPU's acknowledge cycle is the
\* abstract acknowledge, any other time with a controller not idle a service.
Phase ==
    IF intCycle = 1 /\ mcycle = 1 /\ m1_n = 0 THEN "ack"
    ELSE IF state = "idle" THEN "open" ELSE "service"

Served == IF Phase = "open" THEN {} ELSE currentInt

Abstract == INSTANCE InterruptService WITH
    Sources <- Ints, request <- intPeriph, pending <- intInternal,
    current <- Served, phase <- Phase

\* The wired controller and CPU implement InterruptService: one service at a
\* time, highest request first, no request lost or served twice.
ImplementsService == Abstract!Spec
=============================================================================
