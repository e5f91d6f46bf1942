------------------------------ MODULE CtcProofs ------------------------------
(***************************************************************************)
(* Theorems of Ctc for every set of channels, clock ratio, prescaler, range*)
(* of time constants and length of an access.                              *)
(*                                                                         *)
(* The inductive invariant relates the access on the bus to the state of   *)
(* the channel it addresses: an access starts when every channel has       *)
(* settled (BusInv, BytesInv), and once taken it would be taken the same   *)
(* way again, which makes the further edges it lasts harmless (TakenInv).  *)
(***************************************************************************)
EXTENDS MCCtcPeriod, TLAPS

Settings ==
    [state : {"default", "setTimeConstant"},
     nextState : {"default", "setTimeConstant"},
     source : {"prescaler16", "prescaler256", "trigger"},
     irq : {0, 1},
     timeConstant : 1 .. Range,
     running : {0, 1}]

Counters ==
    [preDivider : 0 .. 2 * Tap256 - 1,
     edge0 : {0, 1}, edge1 : {0, 1},
     dCounter : 0 .. Range,
     triggerIrq : {0, 1}, startUp : {0, 1}, zc_to : {0, 1}]

DividerInv ==
    /\ clkCounter \in 0 .. sysclk + ctcclk - 1
    /\ ctcClkEn \in {0, 1}
    /\ ctcClkEn = 1 => clkCounter <= ctcclk - 1
    /\ clkCounter <= sysclk - 1

BusInv ==
    /\ bus = Idle \/ bus \in [en : {1}, cs : Channels, rd_n : {0, 1}, dIn : Nat]
    /\ held \in 0 .. MaxHold
    /\ bus = Idle => held = 0

\* The byte on the bus is of the kind the addressed channel waits for.
BytesInv ==
    bus # Idle /\ bus.rd_n = 1 =>
        bus.dIn \in IF prog[bus.cs].state = "setTimeConstant" THEN TimeConstants
                    ELSE Controls \cup Vectors

TakenInv ==
    bus # Idle =>
        /\ \A c \in Channels :
               c # bus.cs \/ held = 0 => prog[c].state = prog[c].nextState
        /\ held > 0 => ProgNext(bus.cs) = prog[bus.cs]
        /\ held > 0 /\ VectorWrite => irqVect = bus.dIn \div 8

CountInv ==
    /\ count \in [Channels -> Counters]
    /\ CountersLoaded
    /\ \A c \in Channels : count[c].triggerIrq = 1 => count[c].edge1 = 1

IInv ==
    /\ irqVect \in 0 .. 31
    /\ prog \in [Channels -> Settings]
    /\ DividerInv /\ BusInv /\ BytesInv /\ TakenInv /\ CountInv

-----------------------------------------------------------------------------
LEMMA BitType ==
    ASSUME NEW byte \in Nat, NEW n \in {0, 1, 2, 5, 6, 7}
    PROVE  Bit(byte, n) \in {0, 1}
BY DEF Bit

LEMMA ModRange ==
    ASSUME NEW a \in Int, NEW n \in Nat \ {0} PROVE a % n \in 0 .. n - 1
OBVIOUS

LEMMA ModSmall ==
    ASSUME NEW n \in Nat \ {0}, NEW a \in 0 .. n - 1 PROVE a % n = a
OBVIOUS

\* A tick leaves the divider less than one step above zero, and from there
\* the next edge cannot reach the threshold.
LEMMA DividerStep ==
    DividerInv /\ ClkGen => DividerInv' /\ (ctcClkEn = 1 => ctcClkEn' = 0)
BY CtcAssumption DEF DividerInv, ClkGen

\* An access drives en; the idle bus addresses no channel.
LEMMA Addressed ==
    ASSUME BusInv
    PROVE  /\ bus = Idle => bus.en = 0 /\ \A c \in Channels : ~cEn(c)
           /\ bus # Idle => /\ bus.en = 1 /\ bus.cs \in Channels
                            /\ bus.rd_n \in {0, 1} /\ bus.dIn \in Nat
                            /\ \A c \in Channels : cEn(c) <=> c = bus.cs
BY DEF BusInv, Idle, cEn

LEMMA SetTimeConstantType ==
    ASSUME NEW p \in Settings, NEW byte \in TimeConstants
    PROVE  SetTimeConstant(p, byte) \in Settings
<1>1. TimeConstant(byte) \in 1 .. Range
  BY CtcAssumption DEF TimeConstant
<1> QED
  BY <1>1 DEF Settings, SetTimeConstant

LEMMA SetControlType ==
    ASSUME NEW p \in Settings, NEW byte \in Nat
    PROVE  SetControl(p, byte) \in Settings
BY BitType DEF Settings, SetControl, Source

LEMMA ProgNextType ==
    ASSUME IInv, NEW c \in Channels
    PROVE  ProgNext(c) \in Settings
<1> DEFINE p == prog[c]
<1>1. p \in Settings
  BY DEF IInv
<1>2. CASE ~cEn(c)
  BY <1>1, <1>2 DEF ProgNext, Settings
<1>3. CASE cEn(c) /\ bus.rd_n = 0
  BY <1>1, <1>3 DEF ProgNext
<1>4. CASE cEn(c) /\ bus.rd_n # 0
  <2>1. c = bus.cs /\ bus # Idle /\ bus.rd_n = 1 /\ bus.dIn \in Nat
    BY <1>4, Addressed DEF IInv
  <2>2. p.state = "setTimeConstant" => bus.dIn \in TimeConstants
    BY <2>1 DEF IInv, BytesInv
  <2> QED
    BY <1>1, <1>4, <2>1, <2>2, SetTimeConstantType, SetControlType DEF ProgNext
<1> QED
  BY <1>2, <1>3, <1>4

\* Taking the same write twice is taking it once: this is why the edges an
\* access goes on for do no harm.
LEMMA WritesIdempotent ==
    ASSUME NEW p \in Settings, NEW byte \in Nat
    PROVE  /\ SetTimeConstant(p, byte).state = p.state
           /\ SetTimeConstant(SetTimeConstant(p, byte), byte) = SetTimeConstant(p, byte)
           /\ SetControl(p, byte).state = p.state
           /\ SetControl(SetControl(p, byte), byte) = SetControl(p, byte)
BY DEF Settings, SetTimeConstant, SetControl

-----------------------------------------------------------------------------
\* Between accesses every channel's state catches up with nextState and
\* nothing else of the settings moves.
LEMMA Settle ==
    ASSUME IInv, Clock, NEW c \in Channels, bus = Idle \/ c # bus.cs
    PROVE  /\ prog'[c] = [prog[c] EXCEPT !.state = prog[c].nextState]
           /\ prog'[c].state = prog'[c].nextState
<1>1. ~cEn(c)
  BY Addressed DEF IInv
<1>2. prog'[c] = ProgNext(c)
  BY DEF Clock, Programming
<1>3. prog'[c] = [prog[c] EXCEPT !.state = prog[c].nextState]
  BY <1>1, <1>2 DEF ProgNext
<1>4. prog[c] \in Settings
  BY DEF IInv
<1> QED
  BY <1>3, <1>4 DEF Settings

\* During an access the addressed channel's state stands still, and the
\* access has had its effect after the edge.
LEMMA Taken ==
    ASSUME IInv, Clock, bus # Idle
    PROVE  /\ prog'[bus.cs].state = prog[bus.cs].state
           /\ bus' = bus => ProgNext(bus.cs)' = prog'[bus.cs]
<1> DEFINE c == bus.cs
           p == prog[c]
<1>1. /\ c \in Channels /\ cEn(c) /\ bus.dIn \in Nat /\ p \in Settings
      /\ prog'[c] = ProgNext(c)
  BY Addressed DEF IInv, Clock, Programming
<1>2. bus' = bus => cEn(c)' /\ bus.cs' = c
  BY <1>1 DEF cEn
<1>3. CASE bus.rd_n = 0
  BY <1>1, <1>2, <1>3 DEF ProgNext
<1>4. CASE bus.rd_n # 0 /\ p.state = "setTimeConstant"
  <2>1. prog'[c] = SetTimeConstant(p, bus.dIn)
    BY <1>1, <1>4 DEF ProgNext
  <2>2. /\ prog'[c].state = p.state
        /\ SetTimeConstant(prog'[c], bus.dIn) = prog'[c]
    BY <1>1, <2>1, WritesIdempotent
  <2> QED
    BY <1>2, <1>4, <2>2 DEF ProgNext, SetTimeConstant, TimeConstant
<1>5. CASE bus.rd_n # 0 /\ p.state # "setTimeConstant" /\ Bit(bus.dIn, 0) = 1
  <2>1. prog'[c] = SetControl(p, bus.dIn)
    BY <1>1, <1>5 DEF ProgNext
  <2>2. /\ prog'[c].state = p.state
        /\ SetControl(prog'[c], bus.dIn) = prog'[c]
    BY <1>1, <2>1, WritesIdempotent
  <2> QED
    BY <1>2, <1>5, <2>2 DEF ProgNext, SetControl, Source, Bit
<1>6. CASE bus.rd_n # 0 /\ p.state # "setTimeConstant" /\ Bit(bus.dIn, 0) # 1
  BY <1>1, <1>2, <1>6 DEF ProgNext, Bit
<1> QED
  BY <1>3, <1>4, <1>5, <1>6

\* What an edge does to the bus.
LEMMA BusStep ==
    ASSUME IInv, BusEdge
    PROVE  \/ bus' = Idle /\ held' = 0
           \/ bus = Idle /\ bus' \in Accesses /\ held' = 0
           \/ bus # Idle /\ bus' = bus /\ held' = held + 1 /\ held < MaxHold
BY DEF BusEdge

LEMMA AccessType ==
    ASSUME NEW a \in Accesses
    PROVE  /\ a \in [en : {1}, cs : Channels, rd_n : {0, 1}, dIn : Nat]
           /\ a # Idle
           /\ a.rd_n = 1 => a.dIn \in Bytes(a.cs)
<1>1. TimeConstants \subseteq Nat /\ Controls \cup Vectors \subseteq Nat
  BY CtcAssumption
<1>2. \A c \in Channels : Bytes(c) \subseteq Nat
  BY <1>1 DEF Bytes
<1>3. CASE \E c \in Channels :
             a \in {[en |-> 1, cs |-> c, rd_n |-> 1, dIn |-> b] : b \in Bytes(c)}
  <2>1. PICK c \in Channels :
               a \in {[en |-> 1, cs |-> c, rd_n |-> 1, dIn |-> b] : b \in Bytes(c)}
    BY <1>3
  <2>2. PICK b \in Bytes(c) : a = [en |-> 1, cs |-> c, rd_n |-> 1, dIn |-> b]
    BY <2>1
  <2> QED
    BY <1>2, <2>2 DEF Idle
<1>4. CASE a \in {[en |-> 1, cs |-> c, rd_n |-> 0, dIn |-> 0] : c \in Channels}
  BY <1>4 DEF Idle
<1> QED
  BY <1>3, <1>4 DEF Accesses

LEMMA BusInvStep == IInv /\ Clock => BusInv'
<1> SUFFICES ASSUME IInv, Clock PROVE BusInv'
  OBVIOUS
<1>1. held \in 0 .. MaxHold
  BY DEF IInv, BusInv
<1>2. CASE bus' = Idle /\ held' = 0
  BY <1>2, CtcAssumption DEF BusInv, Idle
<1>3. CASE bus' \in Accesses /\ held' = 0
  BY <1>3, AccessType, CtcAssumption DEF BusInv
<1>4. CASE bus # Idle /\ bus' = bus /\ held' = held + 1 /\ held < MaxHold
  BY <1>1, <1>4, CtcAssumption DEF IInv, BusInv, Idle
<1> QED
  BY <1>2, <1>3, <1>4, BusStep DEF Clock

LEMMA ProgStep == IInv /\ Clock => prog' \in [Channels -> Settings]
BY ProgNextType DEF Clock, Programming

LEMMA VectorStep ==
    IInv /\ Clock => /\ irqVect' \in 0 .. 31
                     /\ VectorWrite => irqVect' = bus.dIn \div 8
<1> SUFFICES ASSUME IInv, Clock
             PROVE  irqVect' \in 0 .. 31 /\ (VectorWrite => irqVect' = bus.dIn \div 8)
  OBVIOUS
<1>1. irqVect' = IF VectorWrite THEN bus.dIn \div 8 ELSE irqVect
  BY DEF Clock, Programming
<1>2. ASSUME VectorWrite PROVE bus.dIn \in 0 .. 255
  BY <1>2, CtcAssumption DEF VectorWrite, IInv, BytesInv, Idle
<1> QED
  BY <1>1, <1>2 DEF IInv

LEMMA BytesStep == IInv /\ Clock => BytesInv'
<1> SUFFICES ASSUME IInv, Clock, (bus # Idle)', (bus.rd_n = 1)'
             PROVE  (bus.dIn \in IF prog[bus.cs].state = "setTimeConstant"
                                 THEN TimeConstants ELSE Controls \cup Vectors)'
  BY DEF BytesInv
<1>1. CASE bus = Idle /\ bus' \in Accesses
  <2>1. bus'.cs \in Channels
    BY <1>1, AccessType
  <2>2. prog'[bus'.cs].state = prog[bus'.cs].nextState
    <3>1. prog[bus'.cs] \in Settings
      BY <2>1 DEF IInv
    <3>2. prog'[bus'.cs] = [prog[bus'.cs] EXCEPT !.state = prog[bus'.cs].nextState]
      BY <1>1, <2>1, Settle
    <3> QED
      BY <3>1, <3>2 DEF Settings
  <2>3. bus'.dIn \in Bytes(bus'.cs)
    BY <1>1, AccessType
  <2> QED
    BY <2>2, <2>3 DEF Bytes
<1>2. CASE bus # Idle /\ bus' = bus
  BY <1>2, Taken DEF IInv, BytesInv
<1> QED
  BY <1>1, <1>2, BusStep DEF Clock

LEMMA TakenStep == IInv /\ Clock => TakenInv'
<1> SUFFICES ASSUME IInv, Clock, (bus # Idle)' PROVE TakenInv'
  BY DEF TakenInv
<1>1. CASE bus = Idle /\ held' = 0
  <2>1. \A c \in Channels : prog'[c].state = prog'[c].nextState
    BY <1>1, Settle
  <2> QED
    BY <1>1, <2>1 DEF TakenInv
<1>2. CASE bus # Idle /\ bus' = bus /\ held' = held + 1
  <2>1. \A c \in Channels : c # bus.cs => prog'[c].state = prog'[c].nextState
    BY Settle
  <2>2. held' > 0
    BY <1>2 DEF IInv, BusInv
  <2>3. prog'[bus.cs].state = prog[bus.cs].state /\ ProgNext(bus.cs)' = prog'[bus.cs]
    BY <1>2, Taken
  <2>4. VectorWrite' => VectorWrite
    BY <1>2, <2>3 DEF VectorWrite, Bit
  <2>5. VectorWrite => irqVect' = bus.dIn \div 8
    BY VectorStep
  <2> QED
    BY <1>2, <2>1, <2>2, <2>3, <2>4, <2>5 DEF TakenInv
<1> QED
  BY <1>1, <1>2, BusStep DEF Clock

\* A counter that runs is loaded on its first edge and reloaded at one, so
\* the count that remains to be taken off is at least two.
LEMMA ChannelStep ==
    ASSUME IInv, Counting, NEW c \in Channels
    PROVE  /\ count'[c] \in Counters
           /\ count'[c].startUp = 1 \/ count'[c].dCounter \in 1 .. Range
           /\ count'[c].triggerIrq = 1 => count'[c].edge1 = 1 /\ count[c].edge1 = 0
<1> DEFINE k == count[c]
<1>1. /\ k \in Counters /\ prog[c] \in Settings
      /\ k.startUp = 1 \/ k.dCounter \in 1 .. Range
      /\ ctcClkEn \in {0, 1}
  BY DEF IInv, CountInv, CountersLoaded, DividerInv
<1>2. count'[c] = IF prog[c].running = 1 THEN CountRunning(c) ELSE Stopped
  BY DEF Counting
<1>3. CASE prog[c].running # 1
  BY <1>2, <1>3, CtcAssumption DEF Stopped, Counters
<1>4. CASE prog[c].running = 1
  <2> DEFINE n == count'[c]
  <2>1. n = CountRunning(c)
    BY <1>2, <1>4
  <2>2. n.preDivider \in 0 .. 2 * Tap256 - 1
    <3>1. k.preDivider + ctcClkEn \in Int /\ 2 * Tap256 \in Nat \ {0}
      BY <1>1, CtcAssumption DEF Counters
    <3>2. n.preDivider = (k.preDivider + ctcClkEn) % (2 * Tap256)
      BY <2>1 DEF CountRunning
    <3> QED
      BY <3>1, <3>2, ModRange
  <2>3. n.edge0 \in {0, 1}
    <3>1. Level(c) \in {0, 1}
      <4>1. \A t \in Nat \ {0} : (k.preDivider \div t) % 2 \in {0, 1}
        BY <1>1, CtcAssumption DEF Counters
      <4>2. clk_trg(c) \in {0, 1}
        BY DEF clk_trg, IInv, CountInv, Counters
      <4>3. Tap16 \in Nat \ {0} /\ Tap256 \in Nat \ {0}
        BY CtcAssumption
      <4> QED
        BY <1>1, <4>1, <4>2, <4>3 DEF Level, Settings
    <3> QED
      BY <2>1, <3>1 DEF CountRunning
  <2>4. n.dCounter \in 1 .. Range
    <3>1. n.dCounter = IF k.startUp = 1 \/ ZeroCount(c) THEN prog[c].timeConstant
                       ELSE IF Event(c) THEN (k.dCounter - 1) % (2 * Range)
                       ELSE k.dCounter
      BY <2>1 DEF CountRunning
    <3>2. CASE k.startUp = 1 \/ ZeroCount(c)
      BY <1>1, <3>1, <3>2 DEF Settings
    <3>3. CASE k.startUp # 1 /\ ~ZeroCount(c) /\ Event(c)
      <4>1. k.dCounter \in 2 .. Range
        BY <1>1, <3>3, CtcAssumption DEF ZeroCount
      <4>2. k.dCounter - 1 \in 0 .. 2 * Range - 1 /\ 2 * Range \in Nat \ {0}
        BY <4>1, CtcAssumption
      <4>3. (k.dCounter - 1) % (2 * Range) = k.dCounter - 1
        BY <4>2, ModSmall
      <4> QED
        BY <3>1, <3>3, <4>1, <4>3, CtcAssumption
    <3>4. CASE k.startUp # 1 /\ ~Event(c)
      BY <1>1, <3>1, <3>4 DEF ZeroCount
    <3> QED
      BY <3>2, <3>3, <3>4
  <2>5. /\ n.edge1 \in {0, 1} /\ n.triggerIrq \in {0, 1}
        /\ n.startUp = 0 /\ n.zc_to \in {0, 1}
    BY <1>1, <2>1 DEF CountRunning, Counters
  <2>6. n = [preDivider |-> n.preDivider, edge0 |-> n.edge0, edge1 |-> n.edge1,
             dCounter |-> n.dCounter, triggerIrq |-> n.triggerIrq,
             startUp |-> n.startUp, zc_to |-> n.zc_to]
    BY <2>1 DEF CountRunning
  <2>7. n.dCounter \in 0 .. Range
    BY <2>4, CtcAssumption
  <2>8. n \in Counters
    BY <2>2, <2>3, <2>5, <2>6, <2>7 DEF Counters
  <2>9. n.triggerIrq = 1 => n.edge1 = 1 /\ k.edge1 = 0
    BY <2>1 DEF CountRunning, ZeroCount, Event
  <2> QED
    BY <2>4, <2>8, <2>9
<1> QED
  BY <1>3, <1>4

LEMMA CountStep == IInv /\ Counting => CountInv'
<1> SUFFICES ASSUME IInv, Counting PROVE CountInv'
  OBVIOUS
<1>1. count' = [c \in Channels |-> count'[c]]
  BY DEF Counting
<1> QED
  BY <1>1, ChannelStep DEF CountInv, CountersLoaded

LEMMA ClockStep == IInv /\ Clock => IInv'
<1> SUFFICES ASSUME IInv, Clock PROVE IInv'
  OBVIOUS
<1>1. DividerInv'
  BY DividerStep DEF IInv, Clock
<1>2. CountInv'
  BY CountStep DEF Clock
<1> QED
  BY <1>1, <1>2, VectorStep, ProgStep, BusInvStep, BytesStep, TakenStep DEF IInv

LEMMA ResetStep == IInv /\ Reset => IInv'
<1> SUFFICES ASSUME IInv, Reset PROVE IInv'
  OBVIOUS
<1>1. DividerInv' /\ CountInv'
  BY DividerStep, CountStep DEF IInv, Reset
<1>2. prog' \in [Channels -> Settings]
  <2>1. ASSUME NEW p \in Settings PROVE ResetProg(p) \in Settings
    <3>1. Range \in 1 .. Range
      BY CtcAssumption
    <3> QED
      BY <3>1 DEF Settings, ResetProg
  <2> QED
    BY <2>1 DEF IInv, Reset
<1>3. BusInv' /\ BytesInv' /\ TakenInv'
  BY CtcAssumption DEF Reset, BusInv, BytesInv, TakenInv
<1> QED
  BY <1>1, <1>2, <1>3 DEF IInv, Reset

LEMMA InitInv == Init => IInv
<1> SUFFICES ASSUME Init PROVE IInv
  OBVIOUS
<1>1. DividerInv
  BY CtcAssumption DEF Init, DividerInv
<1>2. prog \in [Channels -> Settings] /\ CountInv
  BY CtcAssumption DEF Init, Settings, CountInv, CountersLoaded, Counters, Stopped
<1>3. BusInv /\ BytesInv /\ TakenInv
  BY CtcAssumption DEF Init, BusInv, BytesInv, TakenInv
<1> QED
  BY <1>1, <1>2, <1>3 DEF IInv, Init

LEMMA Step == IInv /\ [Next]_vars => IInv'
<1> SUFFICES ASSUME IInv, [Next]_vars PROVE IInv'
  OBVIOUS
<1>1. CASE UNCHANGED vars
  BY <1>1 DEF vars, IInv, DividerInv, BusInv, BytesInv, TakenInv, CountInv,
              CountersLoaded, ProgNext, cEn, VectorWrite, SetTimeConstant,
              SetControl, TimeConstant, Source, Bit
<1> QED
  BY <1>1, ClockStep, ResetStep DEF Next

-----------------------------------------------------------------------------
\* The strengthened invariant holds for every set of channels, clock ratio,
\* range of time constants and length of an access.
THEOREM Invariant == Spec => []IInv
BY InitInv, Step, PTL DEF Spec

\* Every register of ctc.vhd and ctc_channel.vhd stays in its declared range.
THEOREM TypeCorrect == Spec => []TypeOK
<1>1. IInv => TypeOK
  BY DEF IInv, TypeOK, DividerInv, BusInv, CountInv, Counters, Settings, Idle
<1> QED
  BY <1>1, Invariant, PTL

\* The down counter of a channel never runs unloaded (ctc_channel.vhd 105-130).
THEOREM Loaded == Spec => []CountersLoaded
<1>1. IInv => CountersLoaded
  BY DEF IInv, CountInv
<1> QED
  BY <1>1, Invariant, PTL

\* kcSysClk is high for single clocks, for every ratio of at least two
\* (ctc.vhd 94-105).
THEOREM SingleTicks == Spec => TicksApart
<1>1. IInv /\ [Next]_vars => [ctcClkEn = 1 => ctcClkEn' = 0]_vars
  BY DividerStep DEF IInv, Next, Clock, Reset
<1> QED
  BY <1>1, Invariant, PTL DEF Spec, TicksApart

\* A channel's interrupt request is a pulse of one clock: the edge detector
\* has moved on when the request is up (ctc_channel.vhd 100-121).
THEOREM SinglePulse == Spec => RequestIsPulse
<1>1. ASSUME IInv, [Next]_vars
      PROVE  [\A c \in Channels : int(c) => ~int(c)']_vars
  <2>1. CASE UNCHANGED vars
    BY <2>1
  <2>2. CASE Next
    <3> SUFFICES ASSUME NEW c \in Channels, int(c) PROVE ~int(c)'
      OBVIOUS
    <3>1. Counting
      BY <2>2 DEF Next, Clock, Reset
    <3>2. count[c].edge1 = 1
      BY <1>1 DEF int, IInv, CountInv
    <3>3. count'[c].triggerIrq # 1
      BY <1>1, <3>1, <3>2, ChannelStep
    <3> QED
      BY <3>3 DEF int
  <2> QED
    BY <1>1, <2>1, <2>2
<1> QED
  BY <1>1, Invariant, PTL DEF Spec, RequestIsPulse

-----------------------------------------------------------------------------
\* A write changes a settled channel as the abstract interface has it.
LEMMA WriteMaps ==
    ASSUME NEW p \in Settings, NEW byte \in Nat, p.state = p.nextState
    PROVE  /\ Programmed(p).expects = 1 <=> p.state = "setTimeConstant"
           /\ Programmed(p).expects = 0 <=> p.state # "setTimeConstant"
           /\ Programmed(SetTimeConstant(p, byte)) = P!Load(Programmed(p), byte)
           /\ p.state # "setTimeConstant" =>
                  Programmed(SetControl(p, byte)) = P!Control(Programmed(p), byte)
<1>1. Bit(byte, 2) \in {0, 1} /\ \A n : P!Bit(byte, n) = Bit(byte, n)
  BY BitType DEF Bit, P!Bit
<1>2. p.state = "default" \/ p.state = "setTimeConstant"
  BY DEF Settings
<1>3. Programmed(SetTimeConstant(p, byte)) = P!Load(Programmed(p), byte)
  BY DEF Programmed, Settings, SetTimeConstant, TimeConstant, P!Load
<1>4. p.state # "setTimeConstant" =>
         Programmed(SetControl(p, byte)) = P!Control(Programmed(p), byte)
  BY <1>1, <1>2 DEF Programmed, Settings, SetControl, Source, P!Control
<1> QED
  BY <1>2, <1>3, <1>4 DEF Programmed

\* Where a channel only settles, the program sees no change.
LEMMA SettleMaps ==
    ASSUME IInv, Clock, NEW c \in Channels, bus = Idle \/ c # bus.cs
    PROVE  Programmed(prog'[c]) = Programmed(prog[c])
BY Settle DEF Programmed, IInv, Settings

\* An edge without access: nothing, or the start of one.
LEMMA IdleMaps ==
    ASSUME IInv, Clock, bus = Idle
    PROVE  P!Begin \/ UNCHANGED P!vars
<1>1. \A c \in Channels : Programmed(prog'[c]) = Programmed(prog[c])
  BY SettleMaps
<1>2. irqVect' = irqVect
  BY Addressed DEF IInv, Clock, Programming, VectorWrite
<1>3. held = 0 /\ held' = 0
  BY BusStep DEF IInv, BusInv, Clock
<1>4. [c \in Channels |-> Programmed(prog[c])]' = [c \in Channels |-> Programmed(prog[c])]
  BY <1>1
<1>5. CASE bus' = bus
  BY <1>2, <1>3, <1>4, <1>5 DEF P!vars
<1>6. CASE bus' # bus
  BY <1>2, <1>3, <1>4, <1>6 DEF P!Begin
<1> QED
  BY <1>5, <1>6

\* The further edges of an access, and its end.
LEMMA HeldMaps ==
    ASSUME IInv, Clock, bus # Idle, held > 0
    PROVE  P!End \/ UNCHANGED P!vars
<1>1. prog'[bus.cs] = prog[bus.cs] /\ bus.cs \in Channels
  BY Addressed DEF IInv, TakenInv, Clock, Programming
<1>2. \A c \in Channels : Programmed(prog'[c]) = Programmed(prog[c])
  BY <1>1, SettleMaps
<1>3. irqVect' = irqVect
  BY DEF IInv, TakenInv, Clock, Programming
<1>4. [c \in Channels |-> Programmed(prog[c])]' = [c \in Channels |-> Programmed(prog[c])]
  BY <1>2
<1>5. held \in Nat
  BY CtcAssumption DEF IInv, BusInv
<1>6. CASE bus' = Idle /\ held' = 0
  BY <1>3, <1>4, <1>5, <1>6 DEF P!End
<1>7. CASE bus' = bus /\ held' = held + 1
  BY <1>3, <1>4, <1>5, <1>7 DEF P!vars
<1> QED
  BY <1>6, <1>7, BusStep DEF Clock

\* The first edge of an access takes it.
LEMMA TakeMaps ==
    ASSUME IInv, Clock, bus # Idle, held = 0
    PROVE  P!Take
<1> DEFINE c == bus.cs
           p == prog[c]
           S == [d \in Channels |-> Programmed(prog[d])]
<1>1. /\ c \in Channels /\ cEn(c) /\ bus.en = 1 /\ bus.rd_n \in {0, 1}
      /\ bus.dIn \in Nat /\ p \in Settings /\ p.state = p.nextState
      /\ prog'[c] = ProgNext(c)
  BY Addressed DEF IInv, TakenInv, Clock, Programming
<1>2. \A d \in Channels : d # c => Programmed(prog'[d]) = Programmed(prog[d])
  BY SettleMaps
<1>3. S' = [S EXCEPT ![c] = Programmed(ProgNext(c))]
  BY <1>1, <1>2
<1>4. P!Continues
  BY BusStep DEF Clock, P!Continues
<1>5. irqVect' = IF VectorWrite THEN bus.dIn \div 8 ELSE irqVect
  BY DEF Clock, Programming
<1>6. S[c] = Programmed(p) /\ S = [S EXCEPT ![c] = Programmed(p)]
  BY <1>1
<1>7. CASE bus.rd_n = 0
  <2>1. ProgNext(c) = p /\ ~VectorWrite
    BY <1>1, <1>7 DEF ProgNext, VectorWrite
  <2>2. S' = S /\ irqVect' = irqVect
    BY <1>3, <1>5, <1>6, <2>1
  <2> QED
    BY <1>4, <1>7, <2>2 DEF P!Take, P!Read
<1>8. CASE bus.rd_n = 1 /\ p.state = "setTimeConstant"
  <2>1. ProgNext(c) = SetTimeConstant(p, bus.dIn) /\ ~VectorWrite
    BY <1>1, <1>8 DEF ProgNext, VectorWrite
  <2>2. Programmed(ProgNext(c)) = P!Load(Programmed(p), bus.dIn)
    BY <1>1, <2>1, WriteMaps
  <2>3. S' = [S EXCEPT ![c] = P!Load(S[c], bus.dIn)]
    BY <1>3, <1>6, <2>2
  <2>4. S[c].expects = 1 /\ irqVect' = irqVect
    BY <1>1, <1>5, <1>6, <1>8, <2>1, WriteMaps
  <2> QED
    BY <1>4, <1>8, <2>3, <2>4 DEF P!Take, P!Write
<1>9. CASE bus.rd_n = 1 /\ p.state # "setTimeConstant"
  <2>1. S[c].expects = 0
    BY <1>1, <1>6, <1>9, WriteMaps
  <2>2. CASE Bit(bus.dIn, 0) = 1
    <3>1. ProgNext(c) = SetControl(p, bus.dIn) /\ ~VectorWrite
      BY <1>1, <1>9, <2>2 DEF ProgNext, VectorWrite
    <3>2. Programmed(ProgNext(c)) = P!Control(Programmed(p), bus.dIn)
      BY <1>1, <1>9, <3>1, WriteMaps
    <3>3. irqVect' = irqVect /\ S' = [S EXCEPT ![c] = P!Control(S[c], bus.dIn)]
      BY <1>3, <1>5, <1>6, <3>1, <3>2
    <3> QED
      BY <1>4, <1>9, <2>1, <2>2, <3>3 DEF P!Take, P!Write, P!Bit, Bit
  <2>3. CASE Bit(bus.dIn, 0) = 0
    <3>1. ProgNext(c) = p /\ VectorWrite
      BY <1>1, <1>9, <2>3 DEF ProgNext, VectorWrite
    <3>2. irqVect' = bus.dIn \div 8 /\ S' = S
      BY <1>3, <1>5, <1>6, <3>1
    <3> QED
      BY <1>4, <1>9, <2>1, <2>3, <3>2 DEF P!Take, P!Write, P!Bit, Bit
  <2> QED
    BY <1>1, <2>2, <2>3, BitType
<1> QED
  BY <1>1, <1>7, <1>8, <1>9

LEMMA ResetMaps ==
    ASSUME IInv, Reset
    PROVE  P!Reset
<1> DEFINE S == [c \in Channels |-> Programmed(prog[c])]
<1>1. ASSUME NEW p \in Settings
      PROVE  Programmed(ResetProg(p)) = P!Stop(Programmed(p))
  BY DEF Programmed, Settings, ResetProg, P!Stop
<1>2. \A c \in Channels : prog[c] \in Settings /\ prog'[c] = ResetProg(prog[c])
  BY DEF IInv, Reset
<1>3. \A c \in Channels : S[c] = Programmed(prog[c])
  OBVIOUS
<1>4. \A c \in Channels : Programmed(prog'[c]) = P!Stop(S[c])
  BY <1>1, <1>2, <1>3
<1>5. S' = [c \in Channels |-> P!Stop(S[c])]
  BY <1>4
<1>6. bus' = Idle /\ held' = 0 /\ irqVect' = irqVect
  BY DEF Reset
<1> QED
  BY <1>5, <1>6 DEF P!Reset

\* Every register access acts exactly once, on its first edge, for every set
\* of channels and length of an access (ctc_channel.vhd 133-171): Ctc
\* implements CtcProgramming.
THEOREM Implementation == Spec => ImplementsProgramming
<1>1. Init => P!Init
  BY DEF Init, P!Init, Programmed
<1>2. IInv /\ [Next]_vars => [P!Next]_P!vars
  <2> SUFFICES ASSUME IInv, [Next]_vars PROVE P!Next \/ UNCHANGED P!vars
    OBVIOUS
  <2>1. CASE UNCHANGED vars
    BY <2>1 DEF vars, P!vars, Programmed
  <2>2. CASE Clock
    <3>1. held = 0 \/ held > 0
      BY DEF IInv, BusInv
    <3> QED
      BY <2>2, <3>1, IdleMaps, HeldMaps, TakeMaps DEF P!Next
  <2>3. CASE Reset
    BY <2>3, ResetMaps DEF P!Next
  <2> QED
    BY <2>1, <2>2, <2>3 DEF Next
<1> QED
  BY <1>1, <1>2, Invariant, PTL DEF Spec, ImplementsProgramming, P!Spec

-----------------------------------------------------------------------------
(***************************************************************************)
(* The period of the channels.                                             *)
(*                                                                         *)
(* A timer's stopwatch and its prescaler count the same ticks, so the      *)
(* watch tells how far the prescaler is since the load, and the remaining  *)
(* count how many of its periods are over (TimerInv).  Channel 3 sees a    *)
(* zero count of channel 2 two edges later, as a rise of zc_to; no zero    *)
(* count falls while zc_to is still up (CascadeInv).                       *)
(***************************************************************************)

Pulse == [tick : {0, 1}, zero : {0, 1}]

\* The edge detector has an edge, which the counter takes at the next clock.
Rising(c) == count[c].edge0 = 1 /\ count[c].edge1 = 0

\* m pulses of the divided clock have risen since the load, the last of which
\* may wait to be counted.
Counted(c, m) ==
    /\ m \in Nat /\ loaded[c] \in Nat
    /\ count[c].dCounter + m = loaded[c] + (IF Rising(c) THEN 1 ELSE 0)

Tap(c) == IF prog[c].source = "prescaler16" THEN Tap16 ELSE Tap256

\* The phase of a prescaler after t ticks, and the time since it last rose.
Bump(q, t, tap) == IF q + t = 2 * tap THEN 0 ELSE q + t
SinceRise(q, tap) == IF q >= tap THEN q - tap ELSE q + tap

\* q is the phase of which the edge detector has the level.
TimerInv(c) ==
    \E q \in 0 .. 2 * Tap(c) - 1 :
        /\ count[c].preDivider % (2 * Tap(c)) = Bump(q, late[1].tick, Tap(c))
        /\ count[c].edge0 = 1 <=> q >= Tap(c)
        /\ Rising(c) => q = Tap(c)
        /\ clean[c] =>
               \E m \in Nat :
                   Counted(c, m) /\ since[c] = (2 * Tap(c)) * m + SinceRise(q, Tap(c))

\* While the output is up the next count is not the last.
Apart == count[2].zc_to = 1 => count[2].dCounter # 1

CascadeInv(c) ==
    /\ count[c].edge0 = 0 /\ count[2].zc_to = 1 => Apart /\ late[1].zero = 1
    /\ Rising(c) => Apart /\ late[1].zero = 0
    /\ clean[c] =>
           /\ Apart /\ Counted(c, since[c])
           /\ late[1].zero = 1 <=> count[2].zc_to = 1 /\ count[c].edge0 = 0

ChannelInv(c) ==
    /\ clean[c] => settled[c]
    /\ settled[c] =>
           /\ prog[c].running = 1 /\ count[c].startUp = 0
           /\ prog[c].source # "trigger" => TimerInv(c)
           /\ Cascaded(c) => CascadeInv(c)
           /\ prog[c].source = "trigger" /\ ~Cascaded(c) => count[c].edge0 = 0 /\ ~clean[c]

PeriodInv ==
    /\ late[1] \in Pulse /\ late[2] \in Pulse
    /\ settled \in [Channels -> BOOLEAN] /\ clean \in [Channels -> BOOLEAN]
    /\ \A c \in Channels : ChannelInv(c)

-----------------------------------------------------------------------------
(***************************************************************************)
(* Taps of a counter.                                                      *)
(***************************************************************************)

LEMMA Division ==
    ASSUME NEW b \in Nat \ {0}, NEW x \in Int
    PROVE  x \div b \in Int /\ x % b \in 0 .. b - 1 /\ x = b * (x \div b) + (x % b)
OBVIOUS

LEMMA ProductsApart ==
    ASSUME NEW b \in Nat \ {0}, NEW p \in Int, NEW q \in Int, p < q
    PROVE  b * p + b <= b * q
<1>1. b * (q - p - 1) \in Nat
  OBVIOUS
<1>2. b * (q - p - 1) = b * q - b * p - b
  OBVIOUS
<1> QED
  BY <1>1, <1>2

LEMMA DivisionUnique ==
    ASSUME NEW b \in Nat \ {0}, NEW q \in Int, NEW r \in 0 .. b - 1, NEW x \in Int, x = b * q + r
    PROVE  x \div b = q /\ x % b = r
<1> DEFINE d == x \div b
<1> DEFINE m == x % b
<1>1. d \in Int /\ m \in 0 .. b - 1 /\ x = b * d + m
  BY Division
<1> HIDE DEF d, m
<1>2. b * d \in Int /\ b * q \in Int
  BY <1>1
<1>3. ~(d < q) /\ ~(q < d)
  BY <1>1, <1>2, ProductsApart
<1>4. d = q
  BY <1>1, <1>3
<1>5. m = r
  BY <1>1, <1>2, <1>4
<1> QED
  BY <1>4, <1>5 DEF d, m

\* The bit at a tap is the half of its period.
LEMMA TapLevel ==
    ASSUME NEW tap \in Nat \ {0}, NEW x \in Nat
    PROVE  (x \div tap) % 2 = 1 <=> x % (2 * tap) >= tap
<1> DEFINE p == 2 * tap
<1> DEFINE a == x \div p
<1> DEFINE b == x % p
<1>1. p \in Nat \ {0} /\ p = tap + tap /\ x \in Int
  OBVIOUS
<1> HIDE DEF p
<1>2. a \in Int /\ b \in 0 .. p - 1 /\ x = p * a + b
  BY <1>1, Division
<1>3. p * a = tap * (a + a) /\ p * a = tap * a + tap * a /\ tap * a \in Int
  BY <1>1, <1>2
<1> HIDE DEF a, b
<1> DEFINE e == a + a
<1>4. e \in Int /\ e % 2 = 0 /\ (e + 1) % 2 = 1
  BY <1>2
<1>5. tap * e \in Int /\ tap * (e + 1) = tap * e + tap /\ x = tap * e + b
  BY <1>2, <1>3
<1> HIDE DEF e
<1>6. CASE b < tap
  <2>1. b \in 0 .. tap - 1
    BY <1>1, <1>2, <1>6
  <2>2. x \div tap = e
    BY <1>4, <1>5, <2>1, DivisionUnique
  <2> QED
    BY <1>1, <1>2, <1>4, <1>6, <2>2 DEF b, p
<1>7. CASE b >= tap
  <2> DEFINE r == b - tap
  <2>1. r \in 0 .. tap - 1 /\ x = tap * (e + 1) + r /\ e + 1 \in Int
    BY <1>1, <1>2, <1>4, <1>5, <1>7
  <2> HIDE DEF r
  <2>2. x \div tap = e + 1
    BY <2>1, DivisionUnique, SMTT(30)
  <2> QED
    BY <1>1, <1>2, <1>4, <1>7, <2>2 DEF b, p
<1> QED
  BY <1>1, <1>2, <1>6, <1>7

Multiple(w, p) == \E m \in Nat \ {0} : w = p * m

PhaseMoves(x, t, w, p) ==
    /\ x % p \in 0 .. p - 1
    /\ ((x + t) % w) % p = IF (x % p) + t = p THEN 0 ELSE (x % p) + t

\* A counter that wraps around at a multiple of a period does not disturb it.
LEMMA PhaseStep ==
    ASSUME NEW p \in Nat \ {0}, NEW w \in Nat \ {0}, Multiple(w, p),
           NEW x \in 0 .. w - 1, NEW t \in {0, 1}
    PROVE  PhaseMoves(x, t, w, p)
<1> SUFFICES /\ x % p \in 0 .. p - 1
             /\ ((x + t) % w) % p = IF (x % p) + t = p THEN 0 ELSE (x % p) + t
  BY DEF PhaseMoves
<1> DEFINE a == x \div p
<1> DEFINE b == x % p
<1> DEFINE y == x + t
<1>m. PICK m \in Nat \ {0} : w = p * m
  BY DEF Multiple
<1>1. a \in Int /\ b \in 0 .. p - 1 /\ x = p * a + b
  BY Division, SMTT(30)
<1> HIDE DEF a, b
<1>2. /\ p * a \in Int /\ p * m \in Int /\ p * (a + 1) = p * a + p
      /\ y \in Int /\ y = p * a + (b + t) /\ y \in 0 .. w
  BY <1>1, <1>m
<1> HIDE DEF y
<1>3. CASE y < w
  <2>1. y % w = y
    BY <1>2, <1>3, ModSmall
  <2>2. CASE b + t # p
    <3> DEFINE r == b + t
    <3>1. r \in 0 .. p - 1 /\ y = p * a + r /\ y \in Int /\ a \in Int
      BY <1>1, <1>2, <2>2
    <3> HIDE DEF r
    <3>2. y % p = r
      BY <3>1, DivisionUnique
    <3> QED
      BY <1>1, <2>1, <2>2, <3>2 DEF b, y, r
  <2>3. CASE b + t = p
    <3> DEFINE e == a + 1
    <3>1. y = p * e + 0 /\ 0 \in 0 .. p - 1 /\ e \in Int /\ y \in Int
      BY <1>1, <1>2, <2>3
    <3> HIDE DEF e
    <3>2. y % p = 0
      BY <3>1, DivisionUnique
    <3> QED
      BY <1>1, <2>1, <2>3, <3>2 DEF b, y
  <2> QED
    BY <2>2, <2>3
<1>4. CASE ~(y < w)
  <2>1. y = w * 1 + 0 /\ 0 \in 0 .. w - 1 /\ y = w
    BY <1>2, <1>4
  <2>2. y % w = 0
    BY <1>2, <2>1, DivisionUnique
  <2>3. 0 = p * 0 + 0 /\ 0 \in 0 .. p - 1
    OBVIOUS
  <2>4. 0 % p = 0
    BY <2>3, DivisionUnique
  <2>5. b + t = p
    <3>1. p * a + (b + t) = p * m
      BY <1>1, <1>2, <2>1, <1>m
    <3>2. ~(m < a)
      <4>1. m < a => p * m + p <= p * a
        BY <1>1, ProductsApart
      <4> QED
        BY <1>1, <1>2, <3>1, <4>1
    <3>3. ~(a + 1 < m)
      <4>1. a + 1 < m => p * (a + 1) + p <= p * m
        BY <1>1, ProductsApart
      <4> QED
        BY <1>1, <1>2, <3>1, <4>1
    <3>4. a # m
      BY <1>1, <1>2, <2>1, <1>m
    <3>5. a + 1 = m
      BY <1>1, <3>2, <3>3, <3>4
    <3> QED
      BY <1>1, <1>2, <3>1, <3>5
  <2> QED
    BY <2>2, <2>4, <2>5 DEF b, y
<1> QED
  BY <1>1, <1>2, <1>3, <1>4 DEF b

LEMMA TapType ==
    ASSUME NEW c \in Channels
    PROVE  Tap(c) \in Nat \ {0} /\ \E m \in Nat \ {0} : Tap256 = m * Tap(c)
<1>1. Tap16 \in Nat \ {0} /\ Tap256 \in Nat \ {0} /\ Tap256 = 1 * Tap256
  BY CtcAssumption
<1>2. PICK m \in 1 .. Tap256 : Tap256 = m * Tap16
  BY TapAssumption
<1>3. m \in Nat \ {0} /\ 1 \in Nat \ {0}
  BY <1>1
<1> QED
  BY <1>1, <1>2, <1>3 DEF Tap

\* The divider of a channel: its phase, and its level.
LEMMA PrescalerStep ==
    ASSUME IInv, NEW c \in Channels, count'[c].preDivider = (count[c].preDivider + ctcClkEn) % (2 * Tap256)
    PROVE  LET q == count[c].preDivider % (2 * Tap(c)) IN
           /\ q \in 0 .. 2 * Tap(c) - 1
           /\ count'[c].preDivider % (2 * Tap(c)) = Bump(q, ctcClkEn, Tap(c))
           /\ (count[c].preDivider \div Tap(c)) % 2 = 1 <=> q >= Tap(c)
<1> DEFINE x == count[c].preDivider
<1> DEFINE tap == Tap(c)
<1>1. x \in 0 .. 2 * Tap256 - 1 /\ ctcClkEn \in {0, 1}
  BY DEF IInv, CountInv, Counters, DividerInv
<1>2. PICK m \in Nat \ {0} : tap \in Nat \ {0} /\ Tap256 = m * tap
  BY TapType
<1> HIDE DEF x, tap
<1> DEFINE p == 2 * tap
<1> DEFINE w == 2 * Tap256
<1>3. p \in Nat \ {0} /\ w \in Nat \ {0} /\ Multiple(w, p) /\ x \in 0 .. w - 1
  BY <1>1, <1>2, CtcAssumption DEF Multiple
<1> HIDE DEF p, w
<1> DEFINE t == ctcClkEn
<1>t. t \in {0, 1}
  BY <1>1
<1> HIDE DEF t
<1>4. PhaseMoves(x, t, w, p)
  BY <1>t, <1>3, PhaseStep
<1>5. x \in Nat
  BY <1>3
<1>6. (x \div tap) % 2 = 1 <=> x % (2 * tap) >= tap
  BY <1>2, <1>5, TapLevel
<1> QED
  BY <1>4, <1>6 DEF p, w, x, t, tap, Bump, PhaseMoves

\* One tick more since the last rise, or a rise.
LEMMA SinceStep ==
    ASSUME NEW tap \in Nat \ {0}, NEW q \in 0 .. 2 * tap - 1, NEW t \in {0, 1}
    PROVE  /\ q = tap - 1 /\ t = 1 =>
                  /\ SinceRise(q, tap) + t = 2 * tap /\ SinceRise(Bump(q, t, tap), tap) = 0
                  /\ Bump(q, t, tap) >= tap
           /\ ~(q = tap - 1 /\ t = 1) =>
                  /\ SinceRise(Bump(q, t, tap), tap) = SinceRise(q, tap) + t
                  /\ q < tap => Bump(q, t, tap) < tap
           /\ q < tap /\ Bump(q, t, tap) >= tap => Bump(q, t, tap) = tap
           /\ SinceRise(q, tap) \in Nat /\ SinceRise(tap, tap) = 0
BY DEF SinceRise, Bump

-----------------------------------------------------------------------------
(***************************************************************************)
(* What an edge does.                                                      *)
(***************************************************************************)

\* A channel that has run for more than one edge.
LEMMA CountMoves ==
    ASSUME IInv, Counting, NEW c \in Channels, prog[c].running = 1, count[c].startUp = 0
    PROVE  /\ count'[c].startUp = 0
           /\ count'[c].edge0 = Level(c) /\ count'[c].edge1 = count[c].edge0
           /\ count'[c].preDivider = (count[c].preDivider + ctcClkEn) % (2 * Tap256)
           /\ Event(c) <=> Rising(c)
           /\ ZeroCount(c) <=> Rising(c) /\ count[c].dCounter = 1
           /\ ZeroCount(c) => count'[c].dCounter = prog[c].timeConstant
           /\ ~Rising(c) => count'[c].dCounter = count[c].dCounter
           /\ Rising(c) /\ ~ZeroCount(c) => count'[c].dCounter = count[c].dCounter - 1
<1>1. count'[c] = CountRunning(c)
  BY DEF Counting
<1>2. Event(c) <=> Rising(c)
  BY DEF Event, Rising
<1>3. ZeroCount(c) <=> Rising(c) /\ count[c].dCounter = 1
  BY <1>2 DEF ZeroCount
<1>4. ASSUME Rising(c), ~ZeroCount(c) PROVE count'[c].dCounter = count[c].dCounter - 1
  <2>1. count[c].dCounter \in 2 .. Range
    BY <1>3, <1>4, CtcAssumption DEF IInv, CountInv, CountersLoaded
  <2>2. count[c].dCounter - 1 \in 0 .. 2 * Range - 1 /\ 2 * Range \in Nat \ {0}
    BY <2>1, CtcAssumption
  <2>3. (count[c].dCounter - 1) % (2 * Range) = count[c].dCounter - 1
    BY <2>2, ModSmall
  <2> QED
    BY <1>1, <1>2, <1>4, <2>3 DEF CountRunning
<1> QED
  BY <1>1, <1>2, <1>3, <1>4 DEF CountRunning

\* The output rises with a zero count, and no other falls while it is up.
LEMMA OutputMoves ==
    ASSUME IInv, Counting, 2 \in Channels, prog[2].timeConstant # 1
    PROVE  /\ ZeroCount(2) => count'[2].zc_to = 1 /\ count'[2].dCounter # 1
           /\ ~ZeroCount(2) /\ count'[2].zc_to = 1 => count[2].zc_to = 1
           /\ ~ZeroCount(2) /\ Apart => Apart'
           /\ Apart /\ ZeroCount(2) => count[2].zc_to = 0
<1>1. count[2] \in Counters
  BY DEF IInv, CountInv
<1>2. count'[2] = IF prog[2].running = 1 THEN CountRunning(2) ELSE Stopped
  BY DEF Counting
<1>3. CASE prog[2].running # 1
  BY <1>2, <1>3 DEF Stopped, ZeroCount, Event, Apart
<1>4. CASE prog[2].running = 1
  <2>1. /\ count'[2].zc_to = IF ZeroCount(2) THEN 1 ELSE IF Event(2) THEN 0 ELSE count[2].zc_to
        /\ count'[2].dCounter =
               IF count[2].startUp = 1 \/ ZeroCount(2) THEN prog[2].timeConstant
               ELSE IF Event(2) THEN (count[2].dCounter - 1) % (2 * Range)
               ELSE count[2].dCounter
    BY <1>2, <1>4 DEF CountRunning
  <2> QED
    BY <1>1, <2>1 DEF Apart, ZeroCount, Counters
<1> QED
  BY <1>3, <1>4

\* The stopwatch of a channel that goes on.
LEMMA WatchMoves ==
    ASSUME PNext, NEW c \in Channels
    PROVE  /\ Counting
           /\ late'[1] = Now /\ late'[2] = late[1]
           /\ settled'[c] = (Steady(c) /\ (settled[c] \/ Event(c)))
           /\ clean'[c] = (Steady(c) /\ (clean[c] \/ (settled[c] /\ ZeroCount(c))))
           /\ clean'[c] =>
                  /\ loaded'[c] = IF ZeroCount(c) THEN prog[c].timeConstant ELSE loaded[c]
                  /\ since'[c] = IF ZeroCount(c) THEN Arriving(c) ELSE since[c] + Arriving(c)
BY DEF PNext, Watch, Next, Clock, Reset

LEMMA NowType == ASSUME IInv PROVE Now \in Pulse
BY DEF IInv, DividerInv, Now, Pulse

\* A channel whose watch may run after this edge.
GoesOn(c) ==
    /\ IInv /\ PeriodInv /\ PNext /\ settled'[c]

LEMMA GoesOnMoves ==
    ASSUME NEW c \in Channels, GoesOn(c)
    PROVE  /\ Steady(c) /\ (settled[c] \/ (Rising(c) /\ ~settled[c]))
           /\ prog[c].running = 1 /\ count[c].startUp = 0
           /\ prog'[c].running = 1 /\ count'[c].startUp = 0 /\ prog'[c].source = prog[c].source
<1>1. Steady(c) /\ (settled[c] \/ Event(c))
  BY WatchMoves DEF GoesOn
<1>2. prog[c].running = 1 /\ prog'[c].running = 1 /\ prog'[c].source = prog[c].source
  BY <1>1 DEF Steady
<1>3. count[c].startUp = 0
  BY <1>1 DEF Event, GoesOn, PeriodInv, ChannelInv
<1>4. Event(c) => Rising(c)
  BY DEF Event, Rising
<1>5. count'[c].startUp = 0
  BY <1>2, <1>3, CountMoves, WatchMoves DEF GoesOn
<1> QED
  BY <1>1, <1>2, <1>3, <1>4, <1>5

LEMMA TimerStep ==
    ASSUME NEW c \in Channels, GoesOn(c), prog[c].source # "trigger"
    PROVE  TimerInv(c)'
<1> DEFINE T == Tap(c)
<1> DEFINE q1 == count[c].preDivider % (2 * T)
<1> DEFINE tick == late[1].tick
<1>1. /\ Steady(c) /\ (settled[c] \/ (Rising(c) /\ ~settled[c]))
      /\ prog[c].running = 1 /\ count[c].startUp = 0 /\ prog'[c].source = prog[c].source
  BY GoesOnMoves
<1>2. IInv /\ Counting /\ late'[1].tick = ctcClkEn /\ tick \in {0, 1}
  BY WatchMoves DEF GoesOn, Now, PeriodInv, Pulse
<1>3. T \in Nat \ {0} /\ Tap(c)' = T
  BY <1>1, TapType DEF Tap
<1>4. /\ q1 \in 0 .. 2 * T - 1
      /\ count'[c].preDivider % (2 * T) = Bump(q1, ctcClkEn, T)
      /\ count'[c].edge0 = 1 <=> q1 >= T
      /\ count'[c].edge1 = count[c].edge0
  <2>1. /\ count'[c].edge0 = Level(c) /\ count'[c].edge1 = count[c].edge0
        /\ count'[c].preDivider = (count[c].preDivider + ctcClkEn) % (2 * Tap256)
    BY <1>1, <1>2, CountMoves
  <2>2. Level(c) = (count[c].preDivider \div T) % 2
    <3>1. prog[c].source \in {"prescaler16", "prescaler256"}
      BY DEF GoesOn, IInv, Settings
    <3> QED
      BY <3>1 DEF Level, Tap
  <2> QED
    BY <1>2, <2>1, <2>2, PrescalerStep
<1>5. /\ count'[c].edge0 \in {0, 1} /\ count[c].edge0 \in {0, 1}
      /\ Rising(c)' <=> q1 >= T /\ count[c].edge0 = 0
  <2>1. count'[c].edge0 \in {0, 1} /\ count[c].edge0 \in {0, 1}
    BY <1>2, ChannelStep DEF IInv, CountInv, Counters
  <2> QED
    BY <1>4, <2>1 DEF Rising
<1> HIDE DEF T, q1, tick
<1>6. ASSUME settled[c]
      PROVE  \E q \in 0 .. 2 * T - 1 :
                 /\ q1 = Bump(q, tick, T)
                 /\ count[c].edge0 = 1 <=> q >= T
                 /\ Rising(c) => q = T
                 /\ clean[c] =>
                        \E m \in Nat : Counted(c, m) /\ since[c] = (2 * T) * m + SinceRise(q, T)
  BY <1>6 DEF GoesOn, PeriodInv, ChannelInv, TimerInv, T, q1, tick
<1>7. Rising(c)' => q1 = T
  <2> SUFFICES ASSUME q1 >= T, count[c].edge0 = 0 PROVE q1 = T
    BY <1>5
  <2>1. settled[c]
    BY <1>1 DEF Rising
  <2>2. PICK q \in 0 .. 2 * T - 1 : q1 = Bump(q, tick, T) /\ (count[c].edge0 = 1 <=> q >= T)
    BY <1>6, <2>1
  <2>3. q < T
    BY <1>3, <2>2
  <2> QED
    BY <1>2, <1>3, <2>2, <2>3, SinceStep, SMTT(30)
<1>8. ASSUME clean'[c]
      PROVE  \E m \in Nat : Counted(c, m)' /\ since'[c] = (2 * T) * m + SinceRise(q1, T)
  <2>1. /\ clean[c] \/ (settled[c] /\ ZeroCount(c))
        /\ loaded'[c] = IF ZeroCount(c) THEN prog[c].timeConstant ELSE loaded[c]
        /\ since'[c] = IF ZeroCount(c) THEN tick ELSE since[c] + tick
    BY <1>8, WatchMoves DEF GoesOn, Arriving, tick
  <2>2. settled[c]
    BY <2>1 DEF GoesOn, PeriodInv, ChannelInv
  <2>3. PICK q \in 0 .. 2 * T - 1 :
            /\ q1 = Bump(q, tick, T)
            /\ count[c].edge0 = 1 <=> q >= T
            /\ Rising(c) => q = T
            /\ clean[c] =>
                   \E m \in Nat : Counted(c, m) /\ since[c] = (2 * T) * m + SinceRise(q, T)
    BY <1>6, <2>2
  <2>4. /\ ZeroCount(c) => Rising(c) /\ count'[c].dCounter = prog[c].timeConstant
        /\ ~Rising(c) => count'[c].dCounter = count[c].dCounter
        /\ Rising(c) /\ ~ZeroCount(c) => count'[c].dCounter = count[c].dCounter - 1
    BY <1>1, <1>2, CountMoves
  <2>5. CASE ZeroCount(c)
    <3>1. prog[c].timeConstant \in Nat
      BY CtcAssumption DEF GoesOn, IInv, Settings
    <3>2. q = T /\ count[c].edge0 = 1 /\ ~Rising(c)'
      BY <1>5, <2>3, <2>4, <2>5 DEF Rising
    <3>3. Counted(c, 0)'
      BY <2>1, <2>4, <2>5, <3>1, <3>2 DEF Counted
    <3>4. SinceRise(q1, T) = tick
      BY <1>2, <1>3, <2>3, <3>2 DEF SinceRise, Bump
    <3>5. since'[c] = (2 * T) * 0 + SinceRise(q1, T)
      BY <1>2, <1>3, <2>1, <2>5, <3>4
    <3> QED
      BY <3>3, <3>5
  <2>6. CASE ~ZeroCount(c)
    <3>1. PICK m \in Nat : Counted(c, m) /\ since[c] = (2 * T) * m + SinceRise(q, T)
      BY <2>1, <2>3, <2>6
    <3>2. SinceRise(q, T) \in Nat /\ (2 * T) * m \in Nat /\ (2 * T) * (m + 1) = (2 * T) * m + 2 * T
      <4> DEFINE w == 2 * T
      <4>1. w \in Nat
        BY <1>3
      <4>2. SinceRise(q, T) \in Nat
        BY <1>2, <1>3, SinceStep
      <4> HIDE DEF w
      <4>3. w * m \in Nat /\ w * (m + 1) = w * m + w
        BY <4>1
      <4> QED
        BY <4>2, <4>3 DEF w
    <3>3. since'[c] = since[c] + tick /\ loaded'[c] = loaded[c]
      BY <2>1, <2>6
    <3>4. count[c].dCounter \in Nat
      BY CtcAssumption DEF GoesOn, IInv, CountInv, Counters
    <3>5. CASE q = T - 1 /\ tick = 1
      <4>1. q < T /\ q1 >= T /\ SinceRise(q1, T) = 0 /\ SinceRise(q, T) + tick = 2 * T
        BY <1>2, <1>3, <2>3, <3>5, SinceStep
      <4>2. ~Rising(c) /\ Rising(c)'
        BY <1>3, <1>5, <2>3, <4>1 DEF Rising
      <4>3. Counted(c, m + 1)'
        BY <2>4, <3>1, <3>3, <3>4, <4>2 DEF Counted
      <4>4. since'[c] = (2 * T) * (m + 1) + SinceRise(q1, T)
        BY <1>2, <3>1, <3>2, <3>3, <4>1
      <4> QED
        BY <4>3, <4>4
    <3>6. CASE ~(q = T - 1 /\ tick = 1)
      <4>1. SinceRise(q1, T) = SinceRise(q, T) + tick /\ (q < T => q1 < T)
        BY <1>2, <1>3, <2>3, <3>6, SinceStep
      <4>2. ~Rising(c)'
        BY <1>3, <1>4, <1>5, <2>3, <4>1
      <4>3. Counted(c, m)'
        BY <2>4, <2>6, <3>1, <3>3, <3>4, <4>2 DEF Counted
      <4>4. since'[c] = (2 * T) * m + SinceRise(q1, T)
        BY <1>2, <3>1, <3>2, <3>3, <4>1
      <4> QED
        BY <4>3, <4>4
    <3> QED
      BY <3>5, <3>6
  <2> QED
    BY <2>5, <2>6
<1> QED
  BY <1>2, <1>3, <1>4, <1>7, <1>8 DEF TimerInv

LEMMA CascadeStep ==
    ASSUME NEW c \in Channels, GoesOn(c), Cascaded(c)
    PROVE  CascadeInv(c)'
<1>1. /\ Steady(c) /\ (settled[c] \/ (Rising(c) /\ ~settled[c]))
      /\ prog[c].running = 1 /\ count[c].startUp = 0 /\ prog'[c].source = prog[c].source
  BY GoesOnMoves
<1>2. IInv /\ Counting /\ 2 \in Channels /\ prog[2].timeConstant # 1
  BY <1>1, WatchMoves DEF GoesOn, Steady, Cascaded
<1>3. late'[1].zero = 1 <=> ZeroCount(2)
  BY <1>2, WatchMoves DEF GoesOn, Now
<1>4. late'[1].zero \in {0, 1} /\ late[1].zero \in {0, 1}
  BY WatchMoves, NowType DEF GoesOn, PeriodInv, Pulse
<1>5. count'[c].edge0 = count[2].zc_to /\ count'[c].edge1 = count[c].edge0
  BY <1>1, <1>2, CountMoves DEF Level, Cascaded, clk_trg
<1>6. /\ count[2].zc_to \in {0, 1} /\ count'[2].zc_to \in {0, 1}
      /\ count[c].edge0 \in {0, 1} /\ count[c].dCounter \in Nat
  BY <1>2, ChannelStep, CtcAssumption DEF IInv, CountInv, Counters
<1>7. /\ ZeroCount(2) => count'[2].zc_to = 1 /\ count'[2].dCounter # 1
      /\ ~ZeroCount(2) /\ count'[2].zc_to = 1 => count[2].zc_to = 1
      /\ ~ZeroCount(2) /\ Apart => Apart'
      /\ Apart /\ ZeroCount(2) => count[2].zc_to = 0
  BY <1>2, OutputMoves
<1>8. settled[c] => CascadeInv(c)
  BY DEF GoesOn, PeriodInv, ChannelInv
<1>9. count'[c].edge0 = 0 /\ count'[2].zc_to = 1 => Apart' /\ late'[1].zero = 1
  BY <1>3, <1>5, <1>6, <1>7 DEF Apart
<1>10. Rising(c)' => Apart' /\ late'[1].zero = 0
  <2> SUFFICES ASSUME count[2].zc_to = 1, count[c].edge0 = 0
               PROVE  Apart' /\ late'[1].zero = 0
    BY <1>5 DEF Rising
  <2>1. settled[c] /\ Apart
    BY <1>1, <1>8 DEF Rising, CascadeInv
  <2> QED
    BY <1>3, <1>4, <1>7, <2>1
<1>11. ASSUME clean'[c]
       PROVE  /\ Apart' /\ Counted(c, since[c])'
              /\ late'[1].zero = 1 <=> count'[2].zc_to = 1 /\ count'[c].edge0 = 0
  <2>1. /\ clean[c] \/ (settled[c] /\ ZeroCount(c))
        /\ loaded'[c] = IF ZeroCount(c) THEN prog[c].timeConstant ELSE loaded[c]
        /\ since'[c] = IF ZeroCount(c) THEN late[1].zero ELSE since[c] + late[1].zero
    BY <1>11, WatchMoves DEF GoesOn, Arriving, Cascaded
  <2>2. settled[c] /\ CascadeInv(c)
    BY <1>8, <2>1 DEF GoesOn, PeriodInv, ChannelInv
  <2>3. /\ ZeroCount(c) => Rising(c) /\ count'[c].dCounter = prog[c].timeConstant
        /\ ~Rising(c) => count'[c].dCounter = count[c].dCounter
        /\ Rising(c) /\ ~ZeroCount(c) => count'[c].dCounter = count[c].dCounter - 1
    BY <1>1, <1>2, CountMoves
  <2>4. Apart
    BY <2>1, <2>2, <2>3 DEF CascadeInv
  <2>5. Apart' /\ (late'[1].zero = 1 <=> count'[2].zc_to = 1 /\ count'[c].edge0 = 0)
    BY <1>3, <1>5, <1>6, <1>7, <2>4 DEF Apart
  <2>6. Rising(c)' <=> count[2].zc_to = 1 /\ count[c].edge0 = 0
    BY <1>5 DEF Rising
  <2>7. CASE ZeroCount(c)
    <3>1. prog[c].timeConstant \in Nat
      BY CtcAssumption DEF GoesOn, IInv, Settings
    <3>2. late[1].zero = 0 /\ ~Rising(c)'
      BY <2>2, <2>3, <2>6, <2>7 DEF CascadeInv, Rising
    <3> QED
      BY <2>1, <2>3, <2>5, <2>7, <3>1, <3>2 DEF Counted
  <2>8. CASE ~ZeroCount(c)
    <3>1. Counted(c, since[c]) /\ (late[1].zero = 1 <=> count[2].zc_to = 1 /\ count[c].edge0 = 0)
      BY <2>1, <2>2, <2>8 DEF CascadeInv
    <3>2. late[1].zero = IF Rising(c)' THEN 1 ELSE 0
      BY <1>4, <2>6, <3>1
    <3>3. since'[c] = since[c] + late[1].zero /\ loaded'[c] = loaded[c]
      BY <2>1, <2>8
    <3>4. Counted(c, since[c])'
      BY <1>4, <1>6, <2>3, <2>8, <3>1, <3>2, <3>3 DEF Counted
    <3> QED
      BY <2>5, <3>4
  <2> QED
    BY <2>7, <2>8
<1> QED
  BY <1>9, <1>10, <1>11 DEF CascadeInv

LEMMA OpenStep ==
    ASSUME NEW c \in Channels, GoesOn(c), prog[c].source = "trigger", ~Cascaded(c)
    PROVE  count'[c].edge0 = 0 /\ ~clean'[c]
<1>1. prog[c].running = 1 /\ count[c].startUp = 0 /\ Counting
  BY GoesOnMoves, WatchMoves DEF GoesOn
<1>2. clk_trg(c) = 0
  BY DEF Cascaded, clk_trg
<1>3. count'[c].edge0 = 0
  BY <1>1, <1>2, CountMoves DEF Level, GoesOn
<1>4. settled[c] => count[c].edge0 = 0 /\ ~clean[c]
  BY DEF GoesOn, PeriodInv, ChannelInv
<1>5. ~clean[c] /\ (settled[c] => ~ZeroCount(c))
  BY <1>4 DEF GoesOn, PeriodInv, ChannelInv, ZeroCount, Event
<1>6. ~clean'[c]
  BY <1>5, WatchMoves DEF GoesOn
<1> QED
  BY <1>3, <1>6

LEMMA WatchStep == IInv /\ PeriodInv /\ PNext => PeriodInv'
<1> SUFFICES ASSUME IInv, PeriodInv, PNext PROVE PeriodInv'
  OBVIOUS
<1>1. late'[1] \in Pulse /\ late'[2] \in Pulse
  BY NowType DEF PNext, PeriodInv
<1>2. settled' \in [Channels -> BOOLEAN] /\ clean' \in [Channels -> BOOLEAN]
  <2>1. \A c \in Channels : settled[c] \in BOOLEAN /\ clean[c] \in BOOLEAN
    BY DEF PeriodInv
  <2> QED
    BY <2>1 DEF PNext, Watch, Steady, Event, ZeroCount
<1>3. ASSUME NEW c \in Channels PROVE ChannelInv(c)'
  <2>1. clean'[c] => settled'[c]
    BY WatchMoves DEF PeriodInv, ChannelInv
  <2>2. CASE ~settled'[c]
    BY <2>1, <2>2 DEF ChannelInv
  <2>3. CASE settled'[c]
    <3>1. GoesOn(c)
      BY <2>3 DEF GoesOn
    <3>2. prog'[c].running = 1 /\ count'[c].startUp = 0 /\ prog'[c].source = prog[c].source
      BY <3>1, GoesOnMoves
    <3>3. Cascaded(c)' <=> Cascaded(c)
      BY <3>2 DEF Cascaded
    <3> QED
      BY <2>1, <3>1, <3>2, <3>3, TimerStep, CascadeStep, OpenStep DEF ChannelInv
  <2> QED
    BY <2>2, <2>3
<1> QED
  BY <1>1, <1>2, <1>3 DEF PeriodInv

LEMMA PeriodStep ==
    IInv /\ PeriodInv /\ [PNext]_<<vars, history>> => (IInv /\ PeriodInv)'
<1> SUFFICES ASSUME IInv, PeriodInv, [PNext]_<<vars, history>> PROVE (IInv /\ PeriodInv)'
  OBVIOUS
<1>1. IInv'
  BY Step DEF PNext, vars
<1>2. CASE PNext
  BY <1>1, <1>2, WatchStep
<1>3. CASE UNCHANGED <<vars, history>>
  <2>1. UNCHANGED <<prog, count, late, since, loaded, settled, clean>>
    BY <1>3 DEF vars, history
  <2>2. PeriodInv'
    BY <2>1 DEF PeriodInv, ChannelInv, TimerInv, CascadeInv, Counted, Rising, Apart, Tap, Cascaded
  <2> QED
    BY <1>1, <2>2
<1> QED
  BY <1>2, <1>3

LEMMA PeriodStarted == PInit => IInv /\ PeriodInv
<1> SUFFICES ASSUME PInit PROVE IInv /\ PeriodInv
  OBVIOUS
<1>1. IInv
  BY InitInv DEF PInit
<1>2. late[1] \in Pulse /\ late[2] \in Pulse
  BY <1>1, NowType DEF PInit
<1> QED
  BY <1>1, <1>2 DEF PInit, PeriodInv, ChannelInv

-----------------------------------------------------------------------------
(***************************************************************************)
(* Results.                                                                *)
(***************************************************************************)

\* The prescaler, edge detector and down counter of a channel
\* (ctc_channel.vhd, process counter) are in step with a stopwatch that runs
\* since the last load.
THEOREM PeriodInvariant == PSpec => [](IInv /\ PeriodInv)
BY PeriodStarted, PeriodStep, PTL DEF PSpec

\* A channel divides by exactly its prescaler and time constant, and channel 3
\* counts each zero count of channel 2 once (ctc_channel.vhd 84-122, clk_trg
\* in kc87.vhd), whatever a program writes at any edge.
THEOREM PeriodIsExact == PSpec => []ExactPeriod
<1>1. ASSUME IInv, PeriodInv, NEW c \in Channels, ZeroCount(c), clean[c]
      PROVE  since[c] = Ratio(c) * loaded[c]
  <2>1. Rising(c) /\ count[c].dCounter = 1 /\ settled[c] /\ ChannelInv(c)
    BY <1>1 DEF ZeroCount, Event, Rising, PeriodInv, ChannelInv
  <2>2. CASE prog[c].source # "trigger"
    <3> DEFINE T == Tap(c)
    <3>1. TimerInv(c) /\ T \in Nat \ {0}
      BY <2>1, <2>2, TapType DEF ChannelInv
    <3>2. Ratio(c) = 2 * T
      <4>1. prog[c].source \in {"prescaler16", "prescaler256"}
        BY <1>1, <2>2 DEF IInv, Settings
      <4> QED
        BY <4>1 DEF Ratio, Tap
    <3>3. PICK q \in 0 .. 2 * T - 1, m \in Nat :
              q = T /\ Counted(c, m) /\ since[c] = (2 * T) * m + SinceRise(q, T)
      BY <1>1, <2>1, <3>1 DEF TimerInv
    <3> HIDE DEF T
    <3>4. m = loaded[c]
      BY <2>1, <3>3 DEF Counted
    <3>5. SinceRise(q, T) = 0
      BY <3>1, <3>3, SinceStep
    <3> QED
      BY <3>1, <3>2, <3>3, <3>4, <3>5
  <2>3. CASE Cascaded(c)
    <3>1. Counted(c, since[c]) /\ Ratio(c) = 1
      BY <1>1, <2>1, <2>3 DEF ChannelInv, CascadeInv, Ratio, Cascaded
    <3> QED
      BY <2>1, <3>1 DEF Counted
  <2>4. CASE prog[c].source = "trigger" /\ ~Cascaded(c)
    BY <1>1, <2>1, <2>4 DEF ChannelInv
  <2> QED
    BY <2>2, <2>3, <2>4
<1>2. IInv /\ PeriodInv => ExactPeriod
  BY <1>1 DEF ExactPeriod
<1> QED
  BY <1>2, PeriodInvariant, PTL

=============================================================================
