--------------------------------- MODULE Ctc ---------------------------------
(***************************************************************************)
(* The counter/timer circuit (rtl/periph/ctc.vhd, ctc_channel.vhd) with its*)
(* channels cascaded as in rtl/kc87.vhd: channel 3 counts the zero counts  *)
(* of channel 2.                                                           *)
(*                                                                         *)
(* One step is one rising edge of clk on which all processes of all        *)
(* channels run.  The CPU's access to a register is a window of one or more*)
(* edges with the same lines, then edges without access: one CPU clock is  *)
(* one edge in turbo mode and about twenty at the original speed.          *)
(*                                                                         *)
(* The registers of a channel are two records, one per clocked process:    *)
(* prog for the CPU interface, count for the counter.                      *)
(***************************************************************************)
EXTENDS Integers

CONSTANTS
    Channels,               \* channel numbers, 0..3 in the KC87
    sysclk, ctcclk,         \* generics: the two clock rates, same unit
    Tap16, Tap256,          \* clocks per half period of the prescalers: 8, 128
    Range,                  \* counts of time constant 0: 256
    MaxHold,                \* bound: edges of one register access
    Controls, Vectors, TimeConstants    \* the bytes the program writes

ASSUME CtcAssumption ==
    /\ Channels \subseteq 0 .. 3
    /\ sysclk \in Nat /\ ctcclk \in Nat \ {0} /\ 2 * ctcclk <= sysclk
    /\ Tap16 \in Nat \ {0} /\ Tap256 \in Nat \ {0}
    /\ Range \in Nat \ {0}
    /\ MaxHold \in Nat \ {0}
    /\ Controls \cup Vectors \subseteq 0 .. 255
    /\ TimeConstants \subseteq 0 .. Range - 1

VARIABLES
    bus,                    \* the register access on the bus, or Idle
    held,                   \* edges the access has lasted already
    clkCounter, ctcClkEn,   \* clkGen
    irqVect,                \* the interrupt vector, bits 7..3
    prog, count

vars == <<bus, held, clkCounter, ctcClkEn, irqVect, prog, count>>

Bit(byte, n) == (byte \div 2 ^ n) % 2

-----------------------------------------------------------------------------
(***************************************************************************)
(* The bus: reads and writes of channel registers.                         *)
(***************************************************************************)

Idle == [en |-> 0, cs |-> 0, rd_n |-> 1, dIn |-> 0]

\* A program writes a time constant when the channel waits for one.
Bytes(c) ==
    IF prog[c].nextState = "setTimeConstant" THEN TimeConstants
    ELSE Controls \cup Vectors

Accesses ==
    (UNION {{[en |-> 1, cs |-> c, rd_n |-> 1, dIn |-> b] : b \in Bytes(c)}
                : c \in Channels})
    \cup {[en |-> 1, cs |-> c, rd_n |-> 0, dIn |-> 0] : c \in Channels}

cEn(c) == bus.en = 1 /\ bus.cs = c

\* Between two accesses the lines are idle for at least one edge.
BusEdge ==
    IF bus = Idle
    THEN bus' \in {Idle} \cup Accesses /\ held' = 0
    ELSE \/ bus' = bus /\ held < MaxHold /\ held' = held + 1
         \/ bus' = Idle /\ held' = 0

-----------------------------------------------------------------------------
(***************************************************************************)
(* clkGen: the fractional divider.                                         *)
(***************************************************************************)

ClkGen ==
    IF clkCounter >= sysclk - ctcclk
    THEN clkCounter' = clkCounter - sysclk + ctcclk /\ ctcClkEn' = 1
    ELSE clkCounter' = clkCounter + ctcclk /\ ctcClkEn' = 0

-----------------------------------------------------------------------------
(***************************************************************************)
(* The CPU interface of a channel.                                         *)
(***************************************************************************)

ResetProg(p) ==
    [p EXCEPT !.nextState = "default", !.running = 0, !.timeConstant = Range]

\* A slip: time constant 0 is taken as it is.
PlainConstant(byte) == byte

\* A time constant of 0 counts Range.
TimeConstant(byte) == IF byte = 0 THEN Range ELSE byte

SetTimeConstant(p, byte) ==
    [p EXCEPT !.nextState = "default", !.running = 1,
              !.timeConstant = TimeConstant(byte)]

\* Bits 6..5 of a control word choose the source of the counted edges.
Source(byte) ==
    IF Bit(byte, 6) = 1 THEN "trigger"
    ELSE IF Bit(byte, 5) = 1 THEN "prescaler256" ELSE "prescaler16"

SetControl(p, byte) ==
    [p EXCEPT !.source = Source(byte),
              !.irq = Bit(byte, 7),
              !.nextState = IF Bit(byte, 2) = 1 THEN "setTimeConstant" ELSE @,
              !.running = IF Bit(byte, 1) = 1 THEN 0 ELSE @]

\* A slip: the state follows nextState during the access, too.
ImmediateNext(c) ==
    LET p == [prog[c] EXCEPT !.state = prog[c].nextState] IN
    IF ~cEn(c) \/ bus.rd_n = 0 THEN p
    ELSE IF p.state = "setTimeConstant" THEN SetTimeConstant(p, bus.dIn)
    ELSE IF Bit(bus.dIn, 0) = 1 THEN SetControl(p, bus.dIn)
    ELSE p

\* The state follows nextState only between accesses, so that a write that
\* lasts many edges is taken for one.
ProgNext(c) ==
    LET p == prog[c] IN
    IF ~cEn(c) THEN [p EXCEPT !.state = p.nextState]
    ELSE IF bus.rd_n = 0 THEN p
    ELSE IF p.state = "setTimeConstant" THEN SetTimeConstant(p, bus.dIn)
    ELSE IF Bit(bus.dIn, 0) = 1 THEN SetControl(p, bus.dIn)
    ELSE p

\* A byte with bit 0 clear is the vector, unless a time constant is due.
VectorWrite ==
    /\ bus.en = 1 /\ bus.rd_n = 1
    /\ Bit(bus.dIn, 0) = 0
    /\ prog[bus.cs].state # "setTimeConstant"

Programming ==
    /\ prog' = [c \in Channels |-> ProgNext(c)]
    /\ irqVect' = IF VectorWrite THEN bus.dIn \div 8 ELSE irqVect

-----------------------------------------------------------------------------
(***************************************************************************)
(* The counter of a channel.                                               *)
(***************************************************************************)

\* zc_to of channel 2 is clk_trg of channel 3; the other inputs are open.
clk_trg(c) == IF c = 3 /\ 2 \in Channels THEN count[2].zc_to ELSE 0

\* The level the edge detector looks at.
Level(c) ==
    CASE prog[c].source = "prescaler16"  -> (count[c].preDivider \div Tap16) % 2
      [] prog[c].source = "prescaler256" -> (count[c].preDivider \div Tap256) % 2
      [] prog[c].source = "trigger"      -> clk_trg(c)

\* A slip: a stopped channel is not marked for loading.
StoppedUnmarked ==
    [preDivider |-> 0, edge0 |-> 0, edge1 |-> 0, dCounter |-> 0,
     triggerIrq |-> 0, startUp |-> 0, zc_to |-> 0]

Stopped ==
    [preDivider |-> 0, edge0 |-> 0, edge1 |-> 0, dCounter |-> 0,
     triggerIrq |-> 0, startUp |-> 1, zc_to |-> 0]

\* A slip: the level counts, not its edge.
LevelEvent(c) == prog[c].running = 1 /\ count[c].edge0 = 1 /\ count[c].startUp = 0

\* cntrEvent: a rising edge, once the counter is loaded.
Event(c) ==
    /\ prog[c].running = 1 /\ count[c].startUp = 0
    /\ count[c].edge0 = 1 /\ count[c].edge1 = 0

ZeroCount(c) == Event(c) /\ count[c].dCounter = 1

\* A slip: a count after the zero count does not clear zc_to and triggerIrq.
OutputsKept(c) ==
    LET k == count[c] IN
    [preDivider |-> (k.preDivider + ctcClkEn) % (2 * Tap256),
     edge0      |-> Level(c),
     edge1      |-> k.edge0,
     dCounter   |-> IF k.startUp = 1 \/ ZeroCount(c) THEN prog[c].timeConstant
                    ELSE IF Event(c) THEN (k.dCounter - 1) % (2 * Range)
                    ELSE k.dCounter,
     triggerIrq |-> IF ZeroCount(c) THEN 1 ELSE k.triggerIrq,
     startUp    |-> 0,
     zc_to      |-> IF ZeroCount(c) THEN 1 ELSE k.zc_to]

CountRunning(c) ==
    LET k == count[c] IN
    [preDivider |-> (k.preDivider + ctcClkEn) % (2 * Tap256),
     edge0      |-> Level(c),
     edge1      |-> k.edge0,
     dCounter   |-> IF k.startUp = 1 \/ ZeroCount(c) THEN prog[c].timeConstant
                    ELSE IF Event(c) THEN (k.dCounter - 1) % (2 * Range)
                    ELSE k.dCounter,
     triggerIrq |-> IF ZeroCount(c) THEN 1 ELSE 0,
     startUp    |-> 0,
     zc_to      |-> IF ZeroCount(c) THEN 1 ELSE IF Event(c) THEN 0 ELSE k.zc_to]

Counting ==
    count' = [c \in Channels |->
                 IF prog[c].running = 1 THEN CountRunning(c) ELSE Stopped]

\* The interrupt request of a channel.
int(c) == count[c].triggerIrq = 1 /\ prog[c].irq = 1

-----------------------------------------------------------------------------
Init ==
    /\ bus = Idle /\ held = 0
    /\ clkCounter = 0 /\ ctcClkEn = 0
    /\ irqVect = 0
    /\ prog = [c \in Channels |->
                  [state |-> "default", nextState |-> "default",
                   source |-> "prescaler16", irq |-> 0,
                   timeConstant |-> Range, running |-> 0]]
    /\ count = [c \in Channels |-> Stopped]

Clock == BusEdge /\ ClkGen /\ Programming /\ Counting

\* An edge with res_n low: only the CPU interface of the channels has a
\* reset; the counters stop on the next edge, the divider runs on.
Reset ==
    /\ bus' = Idle /\ held' = 0
    /\ ClkGen
    /\ prog' = [c \in Channels |-> ResetProg(prog[c])]
    /\ Counting
    /\ UNCHANGED irqVect

Next == Clock \/ Reset

Spec == Init /\ [][Next]_vars

-----------------------------------------------------------------------------
TypeOK ==
    /\ bus.en \in {0, 1} /\ held \in 0 .. MaxHold
    /\ clkCounter \in 0 .. sysclk + ctcclk - 1
    /\ ctcClkEn \in {0, 1}
    /\ irqVect \in 0 .. 31
    /\ prog \in [Channels ->
           [state : {"default", "setTimeConstant"},
            nextState : {"default", "setTimeConstant"},
            source : {"prescaler16", "prescaler256", "trigger"},
            irq : {0, 1},
            timeConstant : 1 .. Range,
            running : {0, 1}]]
    /\ count \in [Channels ->
           [preDivider : 0 .. 2 * Tap256 - 1,
            edge0 : {0, 1}, edge1 : {0, 1},
            dCounter : 0 .. Range,
            triggerIrq : {0, 1}, startUp : {0, 1}, zc_to : {0, 1}]]

\* A channel that counts is loaded: stopping and starting it at any edge,
\* with any write in between, never lets it count down from zero.
CountersLoaded ==
    \A c \in Channels : count[c].startUp = 1 \/ count[c].dCounter \in 1 .. Range

\* A request lasts one edge, so the interrupt controller cannot latch it
\* again after the acknowledge.
RequestIsPulse == [][\A c \in Channels : int(c) => ~int(c)']_vars

\* kcSysClk is an enable of single edges, so that the CPU makes one T-state
\* per tick at the original speed.
TicksApart == [][ctcClkEn = 1 => ctcClkEn' = 0]_vars

\* A channel's registers as a program thinks of them.
Programmed(p) ==
    [expects |-> IF p.nextState = "setTimeConstant" THEN 1 ELSE 0,
     running |-> p.running, irq |-> p.irq,
     source |-> p.source, timeConstant |-> p.timeConstant]

\* Every register access is taken once, on its first edge, whatever its
\* length and the channel's state: CtcProgramming with the state between
\* accesses, nextState, as what the channel expects.
P == INSTANCE CtcProgramming WITH
         access <- bus,
         taken <- IF held > 0 THEN 1 ELSE 0,
         setting <- [c \in Channels |-> Programmed(prog[c])],
         vector <- irqVect

ImplementsProgramming == P!Spec
=============================================================================
