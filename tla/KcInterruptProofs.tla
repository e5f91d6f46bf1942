-------------------------- MODULE KcInterruptProofs --------------------------
(***************************************************************************)
(* Theorems of KcInterrupt for every number of request inputs.             *)
(*                                                                         *)
(* The inductive invariant has three parts: what the controller keeps on   *)
(* any lines (CtlInv), what the CPU keeps on any interrupt line (CpuInv),  *)
(* and how the two are in step (Joint).                                    *)
(***************************************************************************)
EXTENDS MCInterruptHistory, WellFoundedInduction, TLAPS

\* The controller offers exactly while it is idle with a chosen source, and
\* never has more than one.
CtlInv ==
    /\ CtlTypeOK
    /\ int_n = 0 <=> state = "idle" /\ currentInt # {}
    /\ \A i, j \in currentInt : i = j
    /\ state = "idle" => currentInt \subseteq intInternal

\* Where the sequencer is decides M1, IORQ and the wait-state register.
CpuInv ==
    /\ CpuTypeOK
    /\ tstate <= TStates
    /\ mcycle > 1 => mcycle <= MCycles
    /\ m1_n = 0 <=> mcycle = 1 /\ tstate \in {1, 2}
    /\ tstate = 0 => mcycle = 1 /\ intCycle = 0 /\ iorq_n = 1
    /\ mcycle = 1 /\ iorq_n = 0 => intCycle = 1 /\ tstate \in {1, 2}
    /\ intCycle = 1 /\ mcycle = 1 /\ tstate = 1 => (iorq_n = 1 <=> Auto_Wait_t1 = 0)
    /\ intCycle = 1 /\ mcycle = 1 /\ tstate = 2 => iorq_n = 0
    /\ Auto_Wait_t1 = 1 => intCycle = 1 /\ (mcycle = 1 \/ (mcycle = 2 /\ tstate = 1))
    /\ Auto_Wait_t2 = 1 => intCycle = 1 /\ (mcycle = 1 \/ (mcycle = 2 /\ tstate \in {1, 2}))
    /\ intCycle = 1 /\ mcycle = 1 /\ Auto_Wait_t2 = 1 => Auto_Wait_t1 = 1
    /\ intCycle = 1 /\ mcycle = 1 /\ tstate >= 2 => Auto_Wait_t2 = 1

\* The CPU acknowledges only what is still offered, and the controller has
\* taken note of the acknowledge before the CPU's wait states are over.
Joint ==
    /\ int_s = 1 /\ int_n = 1 => intCycle = 1 /\ mcycle = 1 /\ tstate = 1 /\ iorq_n = 0
    /\ intCycle = 1 /\ mcycle = 1 /\ tstate = 1 /\ iorq_n = 1 => int_n = 0
    /\ intCycle = 1 /\ mcycle = 1 /\ m1_n = 0 =>
           currentInt # {} /\ state \in {"idle", "intAccepted"}
    /\ intCycle = 1 /\ mcycle = 1 /\ tstate = 1 /\ Auto_Wait_t2 = 1 =>
           state = "intAccepted"
    /\ intCycle = 1 /\ mcycle = 1 /\ tstate = 2 => state = "intAccepted"

IInv == intPeriph \subseteq Ints /\ CtlInv /\ CpuInv /\ Joint

-----------------------------------------------------------------------------
\* A non-empty vector of requests has a highest one: int_mask finds it.
LEMMA HighestExists ==
    ASSUME NEW requests, requests \subseteq Ints, requests # {}
    PROVE  Highest(requests) # {}
<1>1. Ints \subseteq Nat
  BY NumIntsAssumption DEF Ints
<1>2. PICK x \in requests : \A y \in requests : ~ (<<y, x>> \in OpToRel(<, Nat))
  BY <1>1, WFMin, NatLessThanWellFounded
<1>3. \A y \in requests : ~ (y < x)
  BY <1>1, <1>2 DEF OpToRel
<1>4. x \in Highest(requests)
  BY <1>1, <1>3 DEF Highest
<1> QED
  BY <1>4

\* ... and only one.
LEMMA HighestUnique ==
    ASSUME NEW requests, requests \subseteq Ints
    PROVE  /\ Highest(requests) \subseteq requests
           /\ \A i, j \in Highest(requests) : i = j
BY NumIntsAssumption DEF Highest, Ints

\* The controller keeps its part of the invariant whatever the lines do.
LEMMA CtlStep ==
    ASSUME CtlInv, NEW m1 \in Level, NEW iorq \in Level, NEW reti \in Level,
           NEW pulses \in SUBSET Ints, CtlClock(m1, iorq, reti, pulses)
    PROVE  CtlInv'
<1>1. CASE Offer(m1, pulses)
  <2>1. intMask \subseteq intInternal /\ \A i, j \in intMask : i = j
    BY HighestUnique DEF CtlInv, CtlTypeOK, intMask
  <2> QED
    BY <1>1, <2>1 DEF Offer, Latch, CtlInv, CtlTypeOK, Level
<1>2. CASE RetiSeen(m1, reti, pulses)
  BY <1>2 DEF RetiSeen, Latch, CtlInv, CtlTypeOK, ControllerStates
<1>3. CASE RetiEnded(m1, reti, pulses)
  BY <1>3 DEF RetiEnded, Latch, CtlInv, CtlTypeOK, ControllerStates
<1>4. CASE Finish(m1, pulses)
  BY <1>4 DEF Finish, Latch, CtlInv, CtlTypeOK, ControllerStates, Level
<1>5. CASE HoldHigh(m1, reti, pulses)
  BY <1>5 DEF HoldHigh, Latch, CtlInv, CtlTypeOK
<1>6. CASE Acknowledge(m1, iorq, pulses)
  BY <1>6 DEF Acknowledge, Latch, CtlInv, CtlTypeOK, ControllerStates, Level
<1>7. CASE ExtraM1(m1, iorq, pulses)
  BY <1>7 DEF ExtraM1, Latch, CtlInv, CtlTypeOK, ControllerStates
<1>8. CASE HoldLow(m1, iorq, pulses)
  BY <1>8 DEF HoldLow, Latch, CtlInv, CtlTypeOK
<1> QED
  BY <1>1, <1>2, <1>3, <1>4, <1>5, <1>6, <1>7, <1>8 DEF CtlClock

\* The CPU keeps its part whatever the interrupt line does.
LEMMA CpuStep ==
    ASSUME CpuInv, NEW line \in {0, 1}, NEW op \in Classes,
           RegisterReti, CpuEdge(line, op) \/ UNCHANGED seqVars
    PROVE  CpuInv'
<1> USE DEF CpuInv, CpuTypeOK, RegisterReti, Sample, MCycles, TStates, T_Res,
            Auto_Wait, BusIorq
<1>1. CASE LeaveReset(line)
  BY <1>1 DEF LeaveReset
<1>2. CASE WaitState(line)
  BY <1>2 DEF WaitState, Waiting
<1>3. CASE FetchOpcode(line, op)
  BY <1>3 DEF FetchOpcode, Waiting, Fetchable, Classes
<1>4. CASE NextTState(line)
  BY <1>4 DEF NextTState, Waiting
<1>5. CASE NextMCycle(line)
  BY <1>5 DEF NextMCycle
<1>6. CASE NextInstruction(line)
  BY <1>6 DEF NextInstruction, Boundary
<1>7. CASE AcceptInt(line)
  BY <1>7 DEF AcceptInt, Accepts, Boundary
<1>8. CASE UNCHANGED seqVars
  BY <1>8 DEF seqVars
<1> QED
  BY <1>1, <1>2, <1>3, <1>4, <1>5, <1>6, <1>7, <1>8 DEF CpuEdge

\* What the CPU can see of a controller edge.
LEMMA CtlSummary ==
    ASSUME CtlInv, CpuTypeOK, intPeriph \subseteq Ints,
           CtlClock(m1_n, iorq_n, RETI_n, intPeriph)
    PROVE  /\ m1_n = 0 => currentInt' = currentInt
           /\ AckWindow => state' = "intAccepted" /\ int_n' = 1
           /\ ~AckWindow /\ int_n = 0 =>
                  int_n' = 0 /\ state' = "idle" /\ currentInt' # {}
           /\ ~AckWindow /\ int_n = 1 /\ state = "intAccepted" /\ m1_n = 0 =>
                  state' = "intAccepted"
BY DEF CtlClock, Offer, RetiSeen, RetiEnded, Finish, HoldHigh, Acknowledge,
       ExtraM1, HoldLow, AckWindow, CtlInv, CpuTypeOK

\* The two keep in step.
LEMMA JointStep ==
    ASSUME IInv, CtlInv', CpuInv', NEW op \in Classes,
           Controller, CpuEdge(int_n, op) \/ UNCHANGED seqVars
    PROVE  Joint'
<1>1. /\ m1_n = 0 => currentInt' = currentInt
      /\ AckWindow => state' = "intAccepted" /\ int_n' = 1
      /\ ~AckWindow /\ int_n = 0 =>
             int_n' = 0 /\ state' = "idle" /\ currentInt' # {}
      /\ ~AckWindow /\ int_n = 1 /\ state = "intAccepted" /\ m1_n = 0 =>
             state' = "intAccepted"
  BY CtlSummary DEF IInv, CpuInv, Controller
<1> USE <1>1 DEF IInv, Joint, CpuInv, CpuTypeOK, CtlInv, CtlTypeOK, AckWindow,
                 Level, Sample, TStates, T_Res, Auto_Wait, BusIorq
<1>2. CASE LeaveReset(int_n)
  BY <1>2 DEF LeaveReset
<1>3. CASE WaitState(int_n)
  BY <1>3 DEF WaitState, Waiting
<1>4. CASE FetchOpcode(int_n, op)
  BY <1>4 DEF FetchOpcode, Waiting
<1>5. CASE NextTState(int_n)
  BY <1>5 DEF NextTState, Waiting
<1>6. CASE NextMCycle(int_n)
  BY <1>6 DEF NextMCycle
<1>7. CASE NextInstruction(int_n)
  BY <1>7 DEF NextInstruction, Boundary
<1>8. CASE AcceptInt(int_n)
  BY <1>8 DEF AcceptInt, Accepts, Boundary
<1>9. CASE UNCHANGED seqVars
  BY <1>9 DEF seqVars
<1> QED
  BY <1>2, <1>3, <1>4, <1>5, <1>6, <1>7, <1>8, <1>9 DEF CpuEdge

-----------------------------------------------------------------------------
LEMMA InitIInv == Init => IInv
BY DEF Init, CtlInit, CpuInit, IInv, CtlInv, CpuInv, Joint, CtlTypeOK,
       CpuTypeOK, Classes, ControllerStates, Level, TStates, MCycles

LEMMA ResetIInv == Pulse /\ Reset => IInv'
BY DEF Pulse, Reset, CtlReset, CpuReset, IInv, CtlInv, CpuInv, Joint, CtlTypeOK,
       CpuTypeOK, Classes, ControllerStates, Level, TStates, MCycles

LEMMA NextIInv == IInv /\ [Next]_vars => IInv'
<1> SUFFICES ASSUME IInv, [Next]_vars PROVE IInv'
  OBVIOUS
<1>1. ASSUME NEW op \in Classes, Pulse, Controller, 
             CpuEdge(int_n, op) \/ UNCHANGED seqVars
      PROVE  IInv'
  <2>1. m1_n \in Level /\ iorq_n \in Level /\ RETI_n \in Level /\ int_n \in {0, 1}
    BY DEF IInv, CtlInv, CpuInv, CtlTypeOK, CpuTypeOK, Level
  <2>2. CtlInv'
    BY <1>1, <2>1, CtlStep DEF Controller, IInv
  <2>3. CpuInv'
    BY <1>1, <2>1, CpuStep DEF Controller, IInv
  <2>4. Joint'
    BY <1>1, <2>2, <2>3, JointStep
  <2> QED
    BY <1>1, <2>2, <2>3, <2>4 DEF IInv, Pulse
<1>2. CASE UNCHANGED vars
  BY <1>2 DEF vars, IInv, CtlInv, CpuInv, Joint, CtlTypeOK, CpuTypeOK,
              TStates, MCycles
<1>3. CASE Pulse /\ Reset
  BY <1>3, ResetIInv
<1>4. ASSUME NEW op \in Classes, Pulse, Tick(op) PROVE IInv'
  BY <1>1, <1>4 DEF Tick
<1>5. CASE Pulse /\ Pause
  BY <1>1, <1>5 DEF Pause, Classes
<1> QED
  BY <1>2, <1>3, <1>4, <1>5 DEF Next

\* The invariant holds in every state the machine reaches.
THEOREM Invariant == Spec => []IInv
BY InitIInv, NextIInv, PTL DEF Spec

\* Every register stays in its range: the sequencer never leaves its
\* M cycles and T-states, the controller its states.
THEOREM TypeCorrect == Spec => []TypeOK
<1>1. IInv => TypeOK
  BY DEF IInv, CtlInv, CpuInv, TypeOK
<1> QED
  BY <1>1, Invariant, PTL

LEMMA OneSource == IInv => AckHasOneSource
<1> SUFFICES ASSUME IInv, AckWindow \/ LatchesVector
             PROVE  \E i \in Ints : intAck(m1_n, iorq_n) = {i}
  BY DEF AckHasOneSource
<1>1. AckWindow /\ intCycle = 1 /\ mcycle = 1
  BY DEF IInv, CpuInv, CpuTypeOK, AckWindow, LatchesVector
<1>2. PICK i \in currentInt : TRUE
  BY <1>1 DEF IInv, Joint, AckWindow
<1>3. currentInt = {i} /\ i \in Ints
  BY <1>2 DEF IInv, CtlInv, CtlTypeOK
<1> QED
  BY <1>1, <1>3 DEF intAck, AckWindow

\* For any number of inputs: exactly one source drives the vector during an
\* acknowledge and when the CPU latches it.
THEOREM AckVector == Spec => []AckHasOneSource
BY OneSource, Invariant, PTL

\* The CPU never acts on a sample of an offer that is gone.
THEOREM FreshSample == Spec => []NoStaleSample
<1>1. IInv => NoStaleSample
  BY DEF IInv, CpuInv, Joint, CtlInv, CtlTypeOK, CpuTypeOK, Level,
         NoStaleSample, AckWindow
<1> QED
  BY <1>1, Invariant, PTL

-----------------------------------------------------------------------------
\* The edge on which the CPU takes an interrupt finds the controller idle,
\* offering, and with a request to choose.
LEMMA TakesAtOffer ==
    ASSUME IInv, NEW op \in Classes, Tick(op), TakesInterrupt
    PROVE  /\ AcceptInt(int_n)
           /\ state = "idle" /\ state' = "idle"
           /\ intMask # {} /\ currentInt' = intMask
           /\ intInternal' = intInternal \cup intPeriph
<1>1. CASE LeaveReset(int_n)
  BY <1>1 DEF LeaveReset, TakesInterrupt, IInv, CpuInv
<1>2. CASE NextInstruction(int_n)
  BY <1>2 DEF NextInstruction, TakesInterrupt
<1>3. CASE AcceptInt(int_n)
  <2>1. int_n = 0 /\ state = "idle" /\ currentInt # {}
    BY <1>3 DEF AcceptInt, Accepts, Boundary, T_Res, TStates, IInv, Joint,
                CtlInv, CtlTypeOK, CpuInv, CpuTypeOK, Level
  <2>2. intMask # {}
    BY <2>1, HighestExists DEF IInv, CtlInv, CtlTypeOK, intMask
  <2>3. Offer(m1_n, intPeriph)
    BY <2>1, <2>2 DEF Tick, Controller, CtlClock, TakesInterrupt, RetiSeen,
                      RetiEnded, Finish, HoldHigh, Acknowledge, ExtraM1, HoldLow
  <2> QED
    BY <1>3, <2>1, <2>2, <2>3 DEF Offer, Latch
<1>4. ~WaitState(int_n) /\ ~NextTState(int_n) /\ ~NextMCycle(int_n)
  BY DEF WaitState, NextTState, NextMCycle, TakesInterrupt
<1>5. ~FetchOpcode(int_n, op)
  BY DEF FetchOpcode, TakesInterrupt
<1> QED
  BY <1>1, <1>2, <1>3, <1>4, <1>5 DEF Tick, CpuEdge

\* Without an edge of the CPU, or in reset, no interrupt is taken.
LEMMA TakesOnTick ==
    ASSUME TakesInterrupt, [Next]_vars
    PROVE  \E op \in Classes : Tick(op)
<1>1. ~UNCHANGED vars
  BY DEF TakesInterrupt, vars
<1>2. ~Reset
  BY DEF TakesInterrupt, Reset, CpuReset
<1>3. ~Pause
  BY DEF Pause, seqVars, TakesInterrupt
<1> QED
  BY <1>1, <1>2, <1>3 DEF Next

\* For any number of inputs the source taken is the highest one latched.
THEOREM HighestGranted == Spec => GrantsHighest
<1>1. IInv /\ [Next]_vars =>
        [TakesInterrupt => intMask # {} /\ currentInt' = intMask]_vars
  BY TakesAtOffer, TakesOnTick
<1> QED
  BY <1>1, Invariant, PTL DEF Spec, GrantsHighest

\* No latched request is lost: it leaves the latch in its own acknowledge.
THEOREM NoRequestLost == Spec => RequestsKept
<1> DEFINE Kept == \A i \in intInternal \ intInternal' :
                       AckWindow /\ currentInt = {i}
<1>1. ASSUME IInv, Controller PROVE Kept
  <2> SUFFICES ASSUME NEW i \in intInternal \ intInternal'
               PROVE  AckWindow /\ currentInt = {i}
    OBVIOUS
  <2>1. Acknowledge(m1_n, iorq_n, intPeriph)
    BY <1>1 DEF Controller, CtlClock, Offer, RetiSeen, RetiEnded, Finish,
                HoldHigh, ExtraM1, HoldLow, Latch
  <2>2. i \in currentInt
    BY <2>1 DEF Acknowledge, Latch
  <2> QED
    BY <1>1, <2>1, <2>2 DEF Acknowledge, AckWindow, IInv, CtlInv
<1>2. IInv /\ [Next]_vars => [Reset \/ Kept]_vars
  BY <1>1 DEF Next, Tick, Pause
<1> QED
  BY <1>2, Invariant, PTL DEF Spec, RequestsKept

-----------------------------------------------------------------------------
\* During the acknowledge the machine takes the granted request, or waits
\* for the CPU to open the window.
LEMMA AckRefines ==
    ASSUME IInv, IInv', Phase = "ack", NEW op \in Classes, Controller,
           CpuEdge(int_n, op) \/ UNCHANGED seqVars
    PROVE  Abstract!Next
<1>1. intCycle = 1 /\ mcycle = 1 /\ m1_n = 0 /\ tstate \in {1, 2}
  BY DEF Phase, IInv, CpuInv
<1>2. currentInt' = currentInt /\ CtlClock(m1_n, iorq_n, RETI_n, intPeriph)
  BY <1>1, CtlSummary DEF IInv, CpuInv, Controller
<1>3. \/ /\ intCycle' = 1 /\ mcycle' = 1 /\ m1_n' = 0
      \/ /\ m1_n' = 1 /\ mcycle' = 1 /\ tstate = 2 /\ iorq_n = 0
  BY <1>1 DEF IInv, CpuInv, CpuEdge, LeaveReset, WaitState, FetchOpcode,
              NextTState, NextMCycle, NextInstruction, AcceptInt, Accepts,
              Boundary, T_Res, TStates, seqVars
<1>4. CASE AckWindow
  <2>1. state' = "intAccepted" /\ intInternal' = (intInternal \ currentInt) \cup intPeriph
    BY <1>2, <1>4 DEF CtlClock, Offer, RetiSeen, RetiEnded, Finish, HoldHigh,
                      Acknowledge, ExtraM1, HoldLow, Latch, AckWindow
  <2>2. Served = currentInt /\ Phase' \in {"ack", "service"} /\ Served' = currentInt
    BY <1>2, <1>3, <2>1 DEF Phase, Served
  <2>3. Abstract!Take
    BY <2>1, <2>2 DEF Abstract!Take
  <2> QED
    BY <2>3 DEF IInv, Abstract!Next
<1>5. CASE ~AckWindow
  <2>1. Phase' = "ack" /\ Served = currentInt /\ Served' = currentInt
    BY <1>1, <1>2, <1>3, <1>5 DEF Phase, Served, AckWindow, IInv, CpuInv, CpuTypeOK
  <2>2. intInternal' = intInternal \cup intPeriph
    BY <1>1, <1>2, <1>5 DEF CtlClock, Offer, RetiSeen, RetiEnded, Finish, HoldHigh,
                      Acknowledge, ExtraM1, HoldLow, Latch, AckWindow
  <2>3. Abstract!Listen
    BY <2>1, <2>2 DEF Abstract!Listen
  <2> QED
    BY <2>3 DEF IInv, Abstract!Next
<1> QED
  BY <1>4, <1>5

\* Outside the acknowledge the machine grants, completes, or only listens.
LEMMA OpenRefines ==
    ASSUME IInv, IInv', Phase # "ack", NEW op \in Classes, Tick(op) \/ Pause
    PROVE  Abstract!Next
<1>1. CASE TakesInterrupt
  <2>1. Tick(op)
    BY <1>1 DEF TakesInterrupt, Pause, seqVars
  <2>2. /\ AcceptInt(int_n) /\ state = "idle" /\ state' = "idle"
        /\ intMask # {} /\ currentInt' = intMask
        /\ intInternal' = intInternal \cup intPeriph
    BY <1>1, <2>1, TakesAtOffer
  <2>3. Phase = "open" /\ Phase' = "ack" /\ Served' = intMask
    BY <2>2 DEF Phase, Served, AcceptInt
  <2>4. Abstract!Grant
    BY <2>2, <2>3 DEF Abstract!Grant, Abstract!First, intMask, Highest
  <2> QED
    BY <2>4 DEF IInv, Abstract!Next
<1>2. CASE ~TakesInterrupt
  <2>1. ~AckWindow
    BY DEF AckWindow, Phase, IInv, CpuInv
  <2>2. ~(intCycle' = 1 /\ mcycle' = 1 /\ m1_n' = 0)
    BY <1>2 DEF TakesInterrupt, Phase, IInv, CpuInv, CpuTypeOK, Tick, Pause,
              CpuEdge, LeaveReset, WaitState, FetchOpcode, NextTState, NextMCycle,
              NextInstruction, AcceptInt, Accepts, Boundary, T_Res, TStates, seqVars
  <2>3. CtlClock(m1_n, iorq_n, RETI_n, intPeriph) /\ m1_n \in Level /\ iorq_n \in Level
    BY DEF Tick, Pause, Controller, IInv, CpuInv, CpuTypeOK, Level
  <2>4. intInternal' = intInternal \cup intPeriph
    BY <2>1, <2>3 DEF CtlClock, Offer, RetiSeen, RetiEnded, Finish, HoldHigh,
                      Acknowledge, ExtraM1, HoldLow, Latch, AckWindow
  <2>5. CASE Finish(m1_n, intPeriph)
    <3>1. Phase = "service" /\ Phase' = "open" /\ Served' = {}
      BY <2>2, <2>5 DEF Finish, Phase, Served
    <3> QED
      BY <3>1, <2>4 DEF IInv, Abstract!Next, Abstract!Complete
  <2>6. CASE ~Finish(m1_n, intPeriph)
    <3>1. \/ state = "idle" /\ state' = "idle"
          \/ state # "idle" /\ state' # "idle" /\ currentInt' = currentInt
      BY <2>1, <2>3, <2>6 DEF CtlClock, Offer, RetiSeen, RetiEnded, HoldHigh,
                              Acknowledge, ExtraM1, HoldLow, AckWindow
    <3>2. Phase' = Phase /\ Served' = Served
      BY <2>2, <3>1 DEF Phase, Served
    <3> QED
      BY <2>4, <3>2 DEF IInv, Abstract!Next, Abstract!Listen
  <2> QED
    BY <2>5, <2>6
<1> QED
  BY <1>1, <1>2

\* The wired controller and CPU implement the interrupt service.
THEOREM Implementation == Spec => ImplementsService
<1>1. Init => Abstract!Init
  BY DEF Init, CtlInit, CpuInit, Abstract!Init, Phase, Served
<1>2. IInv /\ IInv' /\ [Next]_vars => [Abstract!Next]_Abstract!vars
  <2> SUFFICES ASSUME IInv, IInv', [Next]_vars
               PROVE  [Abstract!Next]_Abstract!vars
    OBVIOUS
  <2>1. CASE UNCHANGED vars
    BY <2>1 DEF vars, Abstract!vars, Phase, Served
  <2>2. CASE Reset
    BY <2>2 DEF IInv, Reset, CtlReset, CpuReset, Abstract!Next, Abstract!Reset, Phase, Served
  <2>3. ASSUME NEW op \in Classes, Tick(op) \/ Pause
        PROVE  Abstract!Next
    <3>1. CASE Phase = "ack"
      BY <2>3, <3>1, AckRefines DEF Tick, Pause
    <3>2. CASE Phase # "ack"
      BY <2>3, <3>2, OpenRefines
    <3> QED
      BY <3>1, <3>2
  <2> QED
    BY <2>1, <2>2, <2>3 DEF Next, Classes
<1> QED
  BY <1>1, <1>2, Invariant, PTL DEF Spec, ImplementsService, Abstract!Spec

-----------------------------------------------------------------------------
(***************************************************************************)
(* What the interrupt controller and the CPU together owe to the requests  *)
(* and to the interrupted program.                                         *)
(*                                                                         *)
(* To the invariant above the inductive one adds where RETI shows on its   *)
(* line (RetiInv), in which states of the controller the program can be in *)
(* a service (ServiceInv) or right behind one (BehindInv), and which       *)
(* requests still have their pulse to their credit (CreditInv).            *)
(***************************************************************************)

HistoryType ==
    /\ credit \in [Ints -> 0 .. 2]
    /\ serving \in BOOLEAN
    /\ executed \in 0 .. 2

\* The CPU has begun an acknowledge cycle; the controller may not know yet.
Acknowledging == intCycle = 1 /\ mcycle = 1 /\ m1_n = 0

\* RETI_n follows I_RETN one edge behind, and so is low before the third M
\* cycle of a RETI ends.
RetiInv ==
    /\ intCycle = 1 /\ (mcycle > 1 \/ tstate > 2) => ir = "nop"
    /\ RETI_n = 0 => ir = "reti" /\ (mcycle = 3 \/ m1_n = 0)
    /\ ir = "reti" /\ mcycle = 3 /\ tstate >= 2 => RETI_n = 0

\* The controller waits for the RETI of a service until it sees it, which it
\* does before the RETI has ended.
ServiceInv ==
    /\ intCycle = 1 => serving
    /\ state = "intAccepted" => serving
    /\ serving => \/ Acknowledging /\ state = "idle"
                  \/ state = "intAccepted"
                  \/ state = "waitForRetiEnd" /\ I_RETN /\ RETI_n = 0
    /\ serving /\ I_RETN /\ tstate = 3 => state = "waitForRetiEnd"

\* During the first instruction behind a service the controller does not see
\* the M1 cycle it waits for.
BehindInv ==
    executed = 0 =>
        /\ ~serving /\ tstate > 0
        /\ state = "waitForRetiEnd" \/ (state = "waitForM1" /\ m1_n = 1)

\* A request in the latch has a pulse to its credit, except the granted one
\* until the controller has cleared it.
CreditInv ==
    /\ \A i \in intPeriph : credit[i] >= 1
    /\ \A i \in intInternal :
           credit[i] >= 1 \/ (Acknowledging /\ state = "idle" /\ i \in currentInt)

HInv == IInv /\ HistoryType /\ RetiInv /\ ServiceInv /\ BehindInv /\ CreditInv

-----------------------------------------------------------------------------
\* An edge of the controller, by the lines it reads.
LEMMA CtlMoves ==
    ASSUME CtlInv, CpuTypeOK, CtlClock(m1_n, iorq_n, RETI_n, intPeriph)
    PROVE  /\ intInternal' = (IF AckWindow THEN intInternal \ currentInt
                              ELSE intInternal) \cup intPeriph
           /\ m1_n = 0 => currentInt' = currentInt
           /\ AckWindow => state' = "intAccepted"
           /\ m1_n = 0 /\ ~AckWindow =>
                  state' = IF state = "waitForM1" THEN "finishInt" ELSE state
           /\ m1_n = 1 /\ state # "intAccepted" => state' # "intAccepted"
           /\ m1_n = 1 /\ state = "intAccepted" =>
                  state' = IF RETI_n = 0 THEN "waitForRetiEnd" ELSE state
           /\ m1_n = 1 /\ state = "waitForRetiEnd" =>
                  state' = IF RETI_n = 1 THEN "waitForM1" ELSE state
           /\ m1_n = 1 /\ state = "waitForM1" => state' = state
BY DEF CtlClock, Offer, RetiSeen, RetiEnded, Finish, HoldHigh, Acknowledge, ExtraM1,
       HoldLow, Latch, AckWindow, CtlInv, CtlTypeOK, ControllerStates, CpuTypeOK, Level

\* The edge on which the CPU goes on to the next instruction or interrupt.
EndsInstruction == Boundary /\ m1_n = 1 /\ m1_n' = 0

\* An edge of the CPU either ends an instruction or goes on with it.
LEMMA CpuMoves ==
    ASSUME CpuInv, RetiInv, NEW line \in {0, 1}, NEW op \in Classes,
           CpuEdge(line, op) \/ UNCHANGED seqVars
    PROVE  \/ /\ EndsInstruction /\ mcycle' = 1 /\ tstate' = 1 /\ ir' = ir
              /\ \/ intCycle' = 0 /\ ~TakesInterrupt
                 \/ TakesInterrupt /\ Acknowledging'
           \/ /\ ~EndsInstruction /\ ~TakesInterrupt /\ intCycle' = intCycle
              /\ Acknowledging => Acknowledging' \/ tstate = 2
              /\ Acknowledging' => Acknowledging
              /\ I_RETN => I_RETN' /\ (tstate >= 2 => tstate' >= 2)
              /\ I_RETN' /\ tstate' = 3 => I_RETN /\ tstate \in {2, 3}
              /\ tstate > 0 => tstate' > 0 /\ (m1_n = 1 => m1_n' = 1)
<1> USE DEF CpuInv, CpuTypeOK, EndsInstruction, TakesInterrupt, Acknowledging, I_RETN,
            MCycles, TStates, T_Res, Boundary
<1>1. CASE LeaveReset(line)
  BY <1>1 DEF LeaveReset
<1>2. CASE WaitState(line)
  BY <1>2 DEF WaitState, Waiting
<1>3. CASE FetchOpcode(line, op)
  BY <1>3 DEF FetchOpcode, Waiting
<1>4. CASE NextTState(line)
  BY <1>4 DEF NextTState, Waiting
<1>5. CASE NextMCycle(line)
  BY <1>5 DEF NextMCycle, RetiInv
<1>6. CASE NextInstruction(line)
  BY <1>6 DEF NextInstruction
<1>7. CASE AcceptInt(line)
  BY <1>7 DEF AcceptInt, Accepts
<1>8. CASE UNCHANGED seqVars
  BY <1>8 DEF seqVars
<1> QED
  BY <1>1, <1>2, <1>3, <1>4, <1>5, <1>6, <1>7, <1>8 DEF CpuEdge

\* The CPU keeps RETI_n in step with its instruction on any interrupt line.
LEMMA RetiStep ==
    ASSUME CpuInv, RetiInv, NEW line \in {0, 1}, NEW op \in Classes,
           RegisterReti, CpuEdge(line, op) \/ UNCHANGED seqVars
    PROVE  RetiInv'
<1> USE DEF CpuInv, CpuTypeOK, RetiInv, RegisterReti, I_RETN, MCycles, TStates, T_Res
<1>1. CASE LeaveReset(line)
  BY <1>1 DEF LeaveReset
<1>2. CASE WaitState(line)
  BY <1>2 DEF WaitState, Waiting, Auto_Wait
<1>3. CASE FetchOpcode(line, op)
  BY <1>3 DEF FetchOpcode, Waiting, Fetchable, Classes
<1>4. CASE NextTState(line)
  BY <1>4 DEF NextTState, Waiting
<1>5. CASE NextMCycle(line)
  BY <1>5 DEF NextMCycle
<1>6. CASE NextInstruction(line)
  BY <1>6 DEF NextInstruction, Boundary
<1>7. CASE AcceptInt(line)
  BY <1>7 DEF AcceptInt, Accepts, Boundary
<1>8. CASE UNCHANGED seqVars
  BY <1>8 DEF seqVars
<1> QED
  BY <1>1, <1>2, <1>3, <1>4, <1>5, <1>6, <1>7, <1>8 DEF CpuEdge

-----------------------------------------------------------------------------
\* A RETI ends with the controller already waiting for its end; any other
\* instruction of a service ends with the controller waiting for the RETI.
LEMMA ServiceAtEnd ==
    ASSUME IInv, HistoryType, RetiInv, ServiceInv, EndsInstruction
    PROVE  /\ ir = "reti" => I_RETN /\ RETI_n = 0 /\ tstate = 3
           /\ serving /\ ir = "reti" => state = "waitForRetiEnd"
           /\ serving /\ ir # "reti" => state = "intAccepted" /\ RETI_n = 1
<1>1. ir = "reti" => I_RETN /\ RETI_n = 0 /\ tstate = 3
  BY DEF EndsInstruction, Boundary, T_Res, TStates, MCycles, IInv, CpuInv, CpuTypeOK,
         RetiInv, I_RETN
<1>2. ir # "reti" => RETI_n = 1 /\ ~I_RETN
  BY DEF RetiInv, IInv, CpuInv, CpuTypeOK, I_RETN
<1>3. ~Acknowledging
  BY DEF Acknowledging, EndsInstruction
<1> QED
  BY <1>1, <1>2, <1>3 DEF ServiceInv

\* A service begins at an acknowledge, which finds the controller idle, and
\* ends with its RETI.
LEMMA ServiceStep ==
    ASSUME IInv, HistoryType, RetiInv, RetiInv', ServiceInv, Follow,
           NEW op \in Classes, Tick(op) \/ Pause
    PROVE  ServiceInv' /\ (TakesInterrupt => ~serving)
<1>1. /\ CtlInv /\ CpuInv /\ CpuTypeOK /\ int_n \in {0, 1}
      /\ m1_n \in {0, 1} /\ RETI_n \in {0, 1}
      /\ CtlClock(m1_n, iorq_n, RETI_n, intPeriph)
      /\ RegisterReti
      /\ CpuEdge(int_n, op) \/ UNCHANGED seqVars
  BY DEF IInv, CtlInv, CtlTypeOK, CpuInv, CpuTypeOK, Level, Tick, Pause, Controller
<1>2. CASE TakesInterrupt
  <2>1. Tick(op)
    BY <1>2 DEF TakesInterrupt, Pause, seqVars
  <2>2. state = "idle" /\ state' = "idle"
    BY <1>2, <2>1, TakesAtOffer
  <2>3. EndsInstruction /\ Acknowledging' /\ mcycle' = 1
    BY <1>1, <1>2, CpuMoves
  <2>4. ~Acknowledging
    BY <1>2 DEF TakesInterrupt, Acknowledging
  <2>5. ~serving
    BY <2>2, <2>4 DEF ServiceInv
  <2>6. serving'
    BY <1>2, <2>3 DEF Follow, EndsInstruction, TakesInterrupt
  <2> QED
    BY <2>2, <2>3, <2>5, <2>6 DEF ServiceInv, I_RETN
<1>3. CASE EndsInstruction /\ ~TakesInterrupt
  <2>1. mcycle' = 1 /\ intCycle' = 0 /\ m1_n = 1
    BY <1>1, <1>3, CpuMoves DEF EndsInstruction
  <2>2. serving' <=> serving /\ ir # "reti"
    <3>1. intCycle' # 1
      BY <2>1
    <3> QED
      BY <1>3, <3>1, Zenon DEF Follow, EndsInstruction
  <2>3. CASE serving /\ ir = "reti"
    <3>1. state = "waitForRetiEnd"
      BY <1>3, <2>3, ServiceAtEnd
    <3>2. state' # "intAccepted"
      BY <1>1, <2>1, <3>1, CtlMoves
    <3> QED
      BY <1>3, <2>1, <2>2, <2>3, <3>2 DEF ServiceInv
  <2>4. CASE serving /\ ir # "reti"
    <3>1. state = "intAccepted" /\ RETI_n = 1
      BY <1>3, <2>4, ServiceAtEnd
    <3>2. state' = "intAccepted"
      BY <1>1, <2>1, <3>1, CtlMoves
    <3> QED
      BY <1>3, <2>1, <2>2, <2>4, <3>2 DEF ServiceInv, I_RETN
  <2>5. CASE ~serving
    <3>1. state' # "intAccepted"
      BY <1>1, <2>1, <2>5, CtlMoves DEF ServiceInv
    <3> QED
      BY <1>3, <2>1, <2>2, <2>5, <3>1 DEF ServiceInv
  <2> QED
    BY <2>3, <2>4, <2>5
<1>4. CASE ~EndsInstruction /\ ~TakesInterrupt
  <2>1. /\ intCycle' = intCycle
        /\ Acknowledging => Acknowledging' \/ tstate = 2
        /\ I_RETN => I_RETN' /\ (tstate >= 2 => tstate' >= 2)
        /\ I_RETN' /\ tstate' = 3 => I_RETN /\ tstate \in {2, 3}
    BY <1>1, <1>4, CpuMoves
  <2>2. serving' = serving
    BY <1>4 DEF Follow, EndsInstruction
  <2>3. AckWindow => intCycle = 1 /\ Acknowledging
    BY <1>1 DEF AckWindow, CpuInv, CpuTypeOK, Acknowledging
  <2>4. RETI_n = 0 /\ m1_n = 1 => I_RETN
    BY DEF RetiInv, I_RETN
  <2>5. I_RETN => m1_n = 1 /\ RETI_n' = 0 /\ ~Acknowledging
    BY <1>1 DEF RegisterReti, I_RETN, CpuInv, CpuTypeOK, Acknowledging
  <2>6. intCycle' = 1 => serving'
    BY <2>1, <2>2 DEF ServiceInv
  <2>7. state' = "intAccepted" => serving'
    <3>1. ASSUME state' = "intAccepted"
          PROVE  state = "intAccepted" \/ AckWindow
      BY <1>1, <3>1, CtlMoves
    <3> QED
      BY <2>2, <2>3, <3>1 DEF ServiceInv
  <2>8. ASSUME serving
        PROVE  \/ Acknowledging' /\ state' = "idle"
               \/ state' = "intAccepted"
               \/ state' = "waitForRetiEnd" /\ I_RETN' /\ RETI_n' = 0
    <3>1. CASE Acknowledging /\ state = "idle"
      <4>1. tstate # 2 /\ m1_n = 0
        BY <3>1 DEF IInv, Joint, Acknowledging
      <4> QED
        BY <1>1, <2>1, <3>1, <4>1, CtlMoves
    <3>2. CASE state = "intAccepted" /\ m1_n = 0
      BY <1>1, <3>2, CtlMoves
    <3>3. CASE state = "intAccepted" /\ m1_n = 1
      BY <1>1, <2>1, <2>4, <2>5, <3>3, CtlMoves
    <3>4. CASE state = "waitForRetiEnd" /\ I_RETN /\ RETI_n = 0
      BY <1>1, <2>1, <2>5, <3>4, CtlMoves
    <3> QED
      BY <1>1, <2>8, <3>1, <3>2, <3>3, <3>4 DEF ServiceInv
  <2>9. ASSUME serving, I_RETN', tstate' = 3
        PROVE  state' = "waitForRetiEnd"
    <3>1. I_RETN /\ tstate \in {2, 3}
      BY <2>1, <2>9
    <3>2. RETI_n = 0 /\ m1_n = 1 /\ ~Acknowledging
      BY <2>5, <3>1 DEF RetiInv, I_RETN
    <3>3. state \in {"intAccepted", "waitForRetiEnd"}
      BY <2>9, <3>2 DEF ServiceInv
    <3> QED
      BY <1>1, <3>2, <3>3, CtlMoves
  <2> QED
    BY <1>4, <2>2, <2>6, <2>7, <2>8, <2>9 DEF ServiceInv
<1> QED
  BY <1>2, <1>3, <1>4

\* Until the first instruction after a service has ended the controller
\* offers nothing, so an interrupt is taken after the second at the earliest.
LEMMA BehindStep ==
    ASSUME IInv, HistoryType, RetiInv, ServiceInv, BehindInv, Follow,
           NEW op \in Classes, Tick(op) \/ Pause
    PROVE  BehindInv' /\ (TakesInterrupt => executed' = 2)
<1>1. /\ CtlInv /\ CpuInv /\ CpuTypeOK /\ int_n \in {0, 1} /\ m1_n \in {0, 1}
      /\ CtlClock(m1_n, iorq_n, RETI_n, intPeriph)
      /\ CpuEdge(int_n, op) \/ UNCHANGED seqVars
      /\ executed \in 0 .. 2
  BY DEF IInv, CtlInv, CtlTypeOK, CpuInv, CpuTypeOK, Level, Tick, Pause, Controller,
         HistoryType
<1>2. CASE TakesInterrupt
  <2>1. Tick(op)
    BY <1>2 DEF TakesInterrupt, Pause, seqVars
  <2>2. state = "idle" /\ EndsInstruction
    BY <1>1, <1>2, <2>1, TakesAtOffer, CpuMoves
  <2>3. ~serving
    BY <1>2, <2>2 DEF ServiceInv, Acknowledging, TakesInterrupt
  <2>4. executed # 0 /\ intCycle # 1
    BY <2>2, <2>3 DEF BehindInv, ServiceInv
  <2>5. executed' = IF executed = 2 THEN executed ELSE executed + 1
    BY <2>2, <2>3, <2>4 DEF Follow, EndsInstruction
  <2> QED
    BY <1>1, <2>4, <2>5 DEF BehindInv
<1>3. CASE EndsInstruction /\ ~TakesInterrupt
  <2>1. intCycle' = 0 /\ m1_n = 1 /\ tstate' = 1
    BY <1>1, <1>3, CpuMoves DEF EndsInstruction
  <2>2. /\ serving' <=> serving /\ ir # "reti"
        /\ executed' = IF ir = "reti" /\ serving THEN 0
                       ELSE IF intCycle = 1 \/ executed = 2
                       THEN executed ELSE executed + 1
    <3>1. intCycle' # 1
      BY <2>1
    <3> QED
      BY <1>3, <3>1, Zenon DEF Follow, EndsInstruction
  <2>3. CASE ir = "reti" /\ serving
    <3>1. state = "waitForRetiEnd" /\ RETI_n = 0
      BY <1>3, <2>3, ServiceAtEnd
    <3>2. state' = "waitForRetiEnd"
      BY <1>1, <2>1, <3>1, CtlMoves
    <3> QED
      BY <1>3, <2>1, <2>2, <2>3, <3>2 DEF BehindInv
  <2>4. CASE ~(ir = "reti" /\ serving)
    <3>1. executed' # 0
      <4>1. intCycle = 1 => executed # 0
        BY DEF ServiceInv, BehindInv
      <4> QED
        BY <1>1, <2>2, <2>4, <4>1
    <3> QED
      BY <1>3, <3>1 DEF BehindInv
  <2> QED
    BY <2>3, <2>4
<1>4. CASE ~EndsInstruction /\ ~TakesInterrupt
  <2>1. serving' = serving /\ executed' = executed
    BY <1>4 DEF Follow, EndsInstruction
  <2>2. ASSUME executed = 0
        PROVE  /\ tstate' > 0
               /\ state' = "waitForRetiEnd" \/ (state' = "waitForM1" /\ m1_n' = 1)
    <3>1. ~AckWindow
      BY <2>2, <1>1 DEF BehindInv, ServiceInv, AckWindow, CpuInv, CpuTypeOK
    <3>2. tstate > 0 /\ tstate' > 0 /\ (m1_n = 1 => m1_n' = 1)
      BY <1>1, <1>4, <2>2, CpuMoves DEF BehindInv
    <3>3. CASE state = "waitForRetiEnd" /\ m1_n = 0
      BY <1>1, <3>1, <3>2, <3>3, CtlMoves
    <3>4. CASE state \in {"waitForRetiEnd", "waitForM1"} /\ m1_n = 1
      <4>1. state' \in {"waitForRetiEnd", "waitForM1"}
        BY <1>1, <3>4, CtlMoves
      <4> QED
        BY <3>2, <3>4, <4>1
    <3> QED
      BY <1>1, <2>2, <3>3, <3>4 DEF BehindInv
  <2> QED
    BY <1>4, <2>1, <2>2 DEF BehindInv
<1> QED
  BY <1>2, <1>3, <1>4

\* A source is granted only with a pulse to its credit, and the latch holds
\* nothing the pulses did not put there.
LEMMA CreditStep ==
    ASSUME IInv, HistoryType, CreditInv, Follow, Pulse,
           NEW op \in Classes, RetiInv, Tick(op) \/ Pause
    PROVE  CreditInv' /\ credit' \in [Ints -> 0 .. 2]
<1>1. /\ CtlInv /\ CpuInv /\ CpuTypeOK /\ int_n \in {0, 1} /\ m1_n \in {0, 1}
      /\ CtlClock(m1_n, iorq_n, RETI_n, intPeriph)
      /\ CpuEdge(int_n, op) \/ UNCHANGED seqVars
      /\ intPeriph \subseteq Ints /\ intPeriph' \subseteq Ints
      /\ intInternal \subseteq Ints
  BY DEF IInv, CtlInv, CtlTypeOK, CpuInv, CpuTypeOK, Level, Tick, Pause, Controller,
         Pulse
<1>2. ASSUME TakesInterrupt
      PROVE  /\ state = "idle" /\ state' = "idle" /\ Acknowledging'
             /\ currentInt' \subseteq intInternal
             /\ intInternal' = intInternal \cup intPeriph
             /\ ~Acknowledging
  <2>1. Tick(op)
    BY <1>2 DEF TakesInterrupt, Pause, seqVars
  <2>2. /\ state = "idle" /\ state' = "idle" /\ currentInt' = intMask
        /\ intInternal' = intInternal \cup intPeriph
    BY <1>2, <2>1, TakesAtOffer
  <2>3. Acknowledging' /\ ~Acknowledging
    BY <1>1, <1>2, CpuMoves DEF TakesInterrupt, Acknowledging
  <2> QED
    BY <2>2, <2>3 DEF intMask, Highest
<1>3. ASSUME NEW i \in Ints
      PROVE  /\ credit[i] \in 0 .. 2
             /\ credit'[i] = credit[i]
                     + (IF i \in intPeriph' /\ credit[i] < 2 THEN 1 ELSE 0)
                     - (IF TakesInterrupt /\ i \in currentInt' THEN 1 ELSE 0)
             /\ TakesInterrupt /\ i \in currentInt' => credit[i] >= 1
  BY <1>2 DEF HistoryType, Follow, CreditInv
<1>4. ASSUME NEW i \in Ints
      PROVE  /\ credit'[i] \in 0 .. 2
             /\ i \in intPeriph' => credit'[i] >= 1
             /\ ~(TakesInterrupt /\ i \in currentInt') => credit'[i] >= credit[i]
  BY <1>3
<1>5. credit' \in [Ints -> 0 .. 2]
  BY <1>4 DEF Follow
<1>6. ASSUME NEW i \in intInternal'
      PROVE  \/ credit'[i] >= 1
             \/ Acknowledging' /\ state' = "idle" /\ i \in currentInt'
  <2>1. i \in intInternal \/ i \in intPeriph
    BY <1>1, CtlMoves
  <2>2. i \in Ints
    BY <1>1, <2>1
  <2>3. CASE TakesInterrupt
    <3>1. credit[i] >= 1
      BY <1>2, <2>1, <2>3 DEF CreditInv
    <3> QED
      BY <1>2, <1>3, <1>4, <2>2, <2>3, <3>1
  <2>4. CASE ~TakesInterrupt /\ credit[i] >= 1
    BY <1>3, <1>4, <2>2, <2>4
  <2>5. CASE ~TakesInterrupt /\ ~(credit[i] >= 1)
    <3>1. i \in intInternal /\ i \notin intPeriph /\ Acknowledging
          /\ state = "idle" /\ i \in currentInt
      BY <2>1, <2>5 DEF CreditInv
    <3>2. ~AckWindow
      BY <1>1, <1>6, <3>1, CtlMoves
    <3>3. state' = "idle" /\ currentInt' = currentInt
      BY <1>1, <3>1, <3>2, CtlMoves DEF Acknowledging
    <3>4. tstate # 2
      BY <3>1 DEF IInv, Joint, Acknowledging
    <3>5. ~EndsInstruction
      BY <3>1 DEF EndsInstruction, Acknowledging
    <3>6. Acknowledging'
      BY <1>1, <3>1, <3>4, <3>5, CpuMoves
    <3> QED
      BY <3>1, <3>3, <3>6
  <2> QED
    BY <2>3, <2>4, <2>5
<1> QED
  BY <1>1, <1>4, <1>5, <1>6 DEF CreditInv

-----------------------------------------------------------------------------
LEMMA HStarted == HInit => HInv
<1> SUFFICES ASSUME HInit PROVE HInv
  OBVIOUS
<1>1. IInv
  BY InitIInv DEF HInit
<1>2. credit \in [Ints -> 0 .. 2] /\ serving = FALSE /\ executed = 2
  BY DEF HInit
<1>3. executed \in 0 .. 2
  BY <1>2
<1>4. HistoryType
  BY <1>2, <1>3, Zenon DEF HistoryType
<1> QED
  BY <1>1, <1>2, <1>4 DEF Init, CtlInit, CpuInit, HInv, HInit, RetiInv, ServiceInv,
              BehindInv, CreditInv, I_RETN, Acknowledging

LEMMA HResetStep ==
    ASSUME HInv, Pulse, HReset
    PROVE  HInv'
<1>1. IInv'
  BY ResetIInv DEF HReset
<1>2. HistoryType' /\ CreditInv'
  <2>1. credit' \in [Ints -> 0 .. 2] /\ intPeriph' \subseteq Ints
    BY DEF HReset, Pulse
  <2>2. serving' = FALSE /\ executed' = 2
    BY DEF HReset
  <2>3. executed' \in 0 .. 2
    BY <2>2
  <2>4. intInternal' = {} /\ \A i \in intPeriph' : credit'[i] >= 1
    BY <2>1 DEF HReset, Reset, CtlReset
  <2> QED
    BY <2>1, <2>2, <2>3, <2>4, Zenon DEF HistoryType, CreditInv
<1>3. RetiInv' /\ ServiceInv' /\ BehindInv'
  BY DEF HReset, Reset, CtlReset, CpuReset, RetiInv, ServiceInv, BehindInv, I_RETN
<1> QED
  BY <1>1, <1>2, <1>3 DEF HInv

LEMMA HClockStep ==
    ASSUME HInv, Pulse, NEW op \in Classes, Tick(op) \/ Pause, Follow
    PROVE  /\ HInv'
           /\ TakesInterrupt => ~serving /\ executed' = 2
<1>1. IInv'
  BY NextIInv DEF HInv, Next
<1>2. RetiInv'
  BY RetiStep DEF HInv, IInv, CtlInv, CtlTypeOK, Level, Tick, Pause, Controller
<1>3. ServiceInv' /\ (TakesInterrupt => ~serving)
  BY <1>2, ServiceStep DEF HInv
<1>4. BehindInv' /\ (TakesInterrupt => executed' = 2)
  BY BehindStep DEF HInv
<1>5. CreditInv' /\ credit' \in [Ints -> 0 .. 2]
  BY CreditStep DEF HInv
<1>6. serving' \in BOOLEAN
  BY DEF HInv, HistoryType, Follow
<1>7. executed' \in 0 .. 2
  BY DEF HInv, HistoryType, Follow
<1> QED
  BY <1>1, <1>2, <1>3, <1>4, <1>5, <1>6, <1>7 DEF HInv, HistoryType

LEMMA HStep ==
    HInv /\ [HNext]_<<vars, history>> =>
        /\ HInv'
        /\ TakesInterrupt => ~serving /\ executed' = 2
<1> SUFFICES ASSUME HInv, [HNext]_<<vars, history>>
             PROVE  HInv' /\ (TakesInterrupt => ~serving /\ executed' = 2)
  OBVIOUS
<1>1. CASE Pulse /\ HReset
  <2>1. ~TakesInterrupt
    BY <1>1 DEF HReset, Reset, CpuReset, TakesInterrupt
  <2> QED
    BY <1>1, <2>1, HResetStep
<1>2. CASE Pulse /\ (Pause \/ \E op \in Classes : Tick(op)) /\ Follow
  <2>1. PICK op \in Classes : Tick(op) \/ Pause
    BY <1>2 DEF Classes
  <2> QED
    BY <1>2, <2>1, HClockStep
<1>3. CASE UNCHANGED <<vars, history>>
  <2>1. IInv'
    BY <1>3, NextIInv DEF HInv
  <2>2. /\ credit' = credit /\ serving' = serving /\ executed' = executed
        /\ intPeriph' = intPeriph /\ intInternal' = intInternal
        /\ currentInt' = currentInt /\ state' = state
        /\ mcycle' = mcycle /\ tstate' = tstate /\ ir' = ir
        /\ intCycle' = intCycle /\ m1_n' = m1_n /\ RETI_n' = RETI_n
    BY <1>3 DEF vars, history
  <2>3. HistoryType' /\ RetiInv' /\ BehindInv'
    BY <2>2 DEF HInv, HistoryType, RetiInv, BehindInv
  <2>4. ServiceInv' /\ CreditInv'
    BY <2>2 DEF HInv, ServiceInv, CreditInv, I_RETN, Acknowledging
  <2>5. ~TakesInterrupt
    BY <2>2 DEF TakesInterrupt
  <2> QED
    BY <2>1, <2>3, <2>4, <2>5 DEF HInv
<1> QED
  BY <1>1, <1>2, <1>3 DEF HNext

\* Requests, services and RETIs of controller and CPU stay in step at any
\* moment of any run (simpleIntcontroller.vhd 59-117, T80.vhd 982-1094).
THEOREM HistoryInvariant == HSpec => []HInv
<1>1. HInv /\ [HNext]_<<vars, history>> => HInv'
  BY HStep
<1> QED
  BY <1>1, HStarted, PTL DEF HSpec

\* One pulse of a peripheral is served at most once, for every number of
\* inputs and however long acknowledge and service last (the comment "no
\* retriggering of ints after int acknowledge", simpleIntcontroller.vhd).
THEOREM ServedOnce == HSpec => []NoRetrigger
<1>1. HInv => NoRetrigger
  BY DEF HInv, HistoryType, NoRetrigger
<1> QED
  BY <1>1, HistoryInvariant, PTL

\* No interrupt is taken inside a service, although the routines execute EI
\* before their RETI (the states intAccepted to finishInt of
\* simpleIntcontroller.vhd).
THEOREM NeverNested == HSpec => NoNesting
<1>1. HInv /\ [HNext]_<<vars, history>> =>
          [TakesInterrupt => ~serving]_<<vars, history>>
  BY HStep
<1> QED
  BY <1>1, HistoryInvariant, PTL DEF HSpec, NoNesting

\* Between a service's RETI and the next interrupt the program gets two
\* opcodes, for every number of waiting requests ("allow int after 1
\* additional m1-cycle", simpleIntcontroller.vhd).
THEOREM ProgramGetsOn == HSpec => ProgramAdvances
<1>1. HInv /\ [HNext]_<<vars, history>> =>
          [TakesInterrupt => executed' >= 2]_<<vars, history>>
  BY HStep
<1> QED
  BY <1>1, HistoryInvariant, PTL DEF HSpec, ProgramAdvances
=============================================================================
