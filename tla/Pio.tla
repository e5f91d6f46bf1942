--------------------------------- MODULE Pio ---------------------------------
(***************************************************************************)
(* The parallel interface (rtl/periph/pio.vhd, pio_port.vhd).              *)
(*                                                                         *)
(* One step is one rising edge of clk on which the three processes of every*)
(* port run: strobe (strobe), irq (irq) and cpu_control (prog).  Register  *)
(* accesses and interrupt acknowledges are windows of one or more edges    *)
(* with idle edges between them.  The pins may change on every edge.       *)
(***************************************************************************)
EXTENDS Integers

CONSTANTS
    Ports,                  \* 0 is port A, 1 is port B
    Lines,                  \* the bits of a port: 0..7
    MaxHold,                \* bound: edges of one access or acknowledge
    Words, Masks, Data,     \* bytes the program writes
    Pins, Strobes           \* what the pins of a port can show

ASSUME PioAssumption ==
    /\ Ports \subseteq 0 .. 1
    /\ Lines \subseteq 0 .. 7
    /\ MaxHold \in Nat \ {0}
    /\ Words \cup Masks \cup Data \cup Pins \subseteq 0 .. 255
    /\ Strobes \subseteq {0, 1}

VARIABLES
    bus,                    \* the access or acknowledge on the bus, or Idle
    held,                   \* edges it has lasted already
    pIn, pStb,              \* the pins
    stbDebounce,            \* the last four strobe levels, the latest first
    irq,                    \* int and irqCond
    prog                    \* the registers of cpu_control

vars == <<bus, held, pIn, pStb, stbDebounce, irq, prog>>

Bit(byte, n) == (byte \div 2 ^ n) % 2

-----------------------------------------------------------------------------
(***************************************************************************)
(* The bus.                                                                *)
(***************************************************************************)

Idle == [en |-> 0, intAck |-> 0, port |-> 0, cdSel |-> 0, rd_n |-> 1, dIn |-> 0]

\* A program writes a mask when the port waits for one.
Bytes(i) == IF prog[i].nextState = "default" THEN Words ELSE Masks

ControlWrites ==
    {w \in [en : {1}, intAck : {0}, port : Ports, cdSel : {1}, rd_n : {1},
            dIn : Words \cup Masks] : w.dIn \in Bytes(w.port)}

DataWrites ==
    [en : {1}, intAck : {0}, port : Ports, cdSel : {0}, rd_n : {1}, dIn : Data]

Reads ==
    [en : {1}, intAck : {0}, port : Ports, cdSel : {0, 1}, rd_n : {0}, dIn : {0}]

Acknowledges ==
    [en : {0}, intAck : {1}, port : Ports, cdSel : {0}, rd_n : {1}, dIn : {0}]

\* Between two windows the lines are idle for at least one edge.
BusEdge ==
    IF bus = Idle
    THEN /\ bus' \in {Idle} \cup ControlWrites \cup DataWrites \cup Reads
                     \cup Acknowledges
         /\ held' = 0
    ELSE \/ bus' = bus /\ held < MaxHold /\ held' = held + 1
         \/ bus' = Idle /\ held' = 0

pioEn(i) == bus.en = 1 /\ bus.port = i
intAck(i) == bus.intAck = 1 /\ bus.port = i

PinsMove == pIn' \in [Ports -> Pins] /\ pStb' \in [Ports -> Strobes]

-----------------------------------------------------------------------------
(***************************************************************************)
(* strobe and irq.                                                         *)
(***************************************************************************)

Strobe ==
    stbDebounce' = [i \in Ports |->
        [n \in 1 .. 4 |-> IF n = 1 THEN pStb[i] ELSE stbDebounce[i][n - 1]]]

Enabled(p) == Bit(p.irqCtrl, 2) = 1

\* A mask bit of 0 monitors its line.
Monitored(p) == {n \in Lines : Bit(p.irqMask, n) = 0}

\* irqCtrl(1) asks for all monitored lines instead of any, irqCtrl(0) for
\* the high level.
Condition(p, pins) ==
    LET active(n) == Bit(pins, n) = Bit(p.irqCtrl, 0) IN
    IF Bit(p.irqCtrl, 1) = 1 THEN \A n \in Monitored(p) : active(n)
    ELSE \E n \in Monitored(p) : active(n)

\* A slip: the strobe's level counts, not the end of it.
StrobeHigh(i) == stbDebounce[i][3] = 1

StrobeRose(i) == stbDebounce[i][4] = 0 /\ stbDebounce[i][3] = 1

\* A slip: the condition's level counts, not its edge.
Holds(q) == q.irqCond0 = 1

Rose(q) == q.irqCond1 = 0 /\ q.irqCond0 = 1

\* irqCond stands still while the port does not look at its lines.
IrqNext(i) ==
    LET p == prog[i]  q == irq[i] IN
    IF p.mode = 0 /\ Enabled(p)
    THEN [q EXCEPT !.int = IF StrobeRose(i) THEN 1 ELSE 0]
    ELSE IF p.mode = 3 /\ Enabled(p) /\ Monitored(p) # {}
    THEN [int      |-> IF Rose(q) THEN 1 ELSE 0,
          irqCond0 |-> IF Condition(p, pIn[i]) THEN 1 ELSE 0,
          irqCond1 |-> q.irqCond0]
    ELSE [q EXCEPT !.int = 0]

-----------------------------------------------------------------------------
(***************************************************************************)
(* cpu_control.                                                            *)
(***************************************************************************)

ResetProg(p) ==
    [p EXCEPT !.mode = 1, !.portMask = 255, !.nextState = "default"]

\* A control byte in the default state, by its low bits.
Vector(p, byte) == [p EXCEPT !.irqVect = byte \div 2, !.nextState = "default"]

\* A slip: the flag is put in the control word's place without its fields.
FlagOnly(p, byte) ==
    [p EXCEPT !.irqCtrl = 8 * Bit(byte, 7), !.nextState = "default"]

EnableFlag(p, byte) ==
    [p EXCEPT !.irqCtrl = 4 * Bit(byte, 7) + (@ % 4), !.nextState = "default"]

ControlWord(p, byte) ==
    [p EXCEPT !.irqCtrl = 4 * Bit(byte, 7) + ((byte \div 32) % 4),
              !.nextState = IF Bit(byte, 4) = 1 THEN "setIrqMask" ELSE "default"]

OperationMode(p, byte) ==
    [p EXCEPT !.mode = byte \div 64,
              !.nextState = IF byte \div 64 = 3 THEN "setPortMask" ELSE "default"]

Word(p, byte) ==
    IF Bit(byte, 0) = 0 THEN Vector(p, byte)
    ELSE IF byte % 16 = 3 THEN EnableFlag(p, byte)
    ELSE IF byte % 16 = 7 THEN ControlWord(p, byte)
    ELSE IF byte % 16 = 15 THEN OperationMode(p, byte)
    ELSE [p EXCEPT !.nextState = "default"]

\* A slip: a mask does not lead back to the default state.
MaskForEver(p, byte) ==
    CASE p.state = "default"     -> Word(p, byte)
      [] p.state = "setPortMask" -> [p EXCEPT !.portMask = byte]
      [] p.state = "setIrqMask"  -> [p EXCEPT !.irqMask = byte]

ControlWrite(p, byte) ==
    CASE p.state = "default"     -> Word(p, byte)
      [] p.state = "setPortMask" -> [p EXCEPT !.portMask = byte, !.nextState = "default"]
      [] p.state = "setIrqMask"  -> [p EXCEPT !.irqMask = byte, !.nextState = "default"]

\* A slip: the state follows nextState on every edge.
AlwaysFollows(i) ==
    LET p == [prog[i] EXCEPT !.state = prog[i].nextState] IN
    IF intAck(i) \/ ~pioEn(i) \/ bus.rd_n = 0 THEN p
    ELSE IF bus.cdSel = 0 THEN [p EXCEPT !.pOutReg = bus.dIn]
    ELSE ControlWrite(p, bus.dIn)

\* The state follows nextState only on edges without access or acknowledge.
ProgNext(i) ==
    LET p == prog[i] IN
    IF intAck(i) THEN p
    ELSE IF ~pioEn(i) THEN [p EXCEPT !.state = p.nextState]
    ELSE IF bus.rd_n = 0 THEN p
    ELSE IF bus.cdSel = 0 THEN [p EXCEPT !.pOutReg = bus.dIn]
    ELSE ControlWrite(p, bus.dIn)

-----------------------------------------------------------------------------
\* pOutReg has no initial value.
Init ==
    /\ bus = Idle /\ held = 0
    /\ pIn \in [Ports -> Pins]
    /\ pStb \in [Ports -> Strobes]
    /\ stbDebounce = [i \in Ports |-> [n \in 1 .. 4 |-> 1]]
    /\ irq = [i \in Ports |-> [int |-> 0, irqCond0 |-> 0, irqCond1 |-> 0]]
    /\ \E d \in Data :
           prog = [i \in Ports |->
               [state |-> "default", nextState |-> "default", mode |-> 1,
                irqCtrl |-> 0, irqMask |-> 255, irqVect |-> 0,
                portMask |-> 255, pOutReg |-> d]]

Edge ==
    /\ Strobe
    /\ irq' = [i \in Ports |-> IrqNext(i)]
    /\ PinsMove

Clock == BusEdge /\ Edge /\ prog' = [i \in Ports |-> ProgNext(i)]

\* Only cpu_control has a reset: masks and the interrupt enable survive it.
Reset ==
    /\ bus' = Idle /\ held' = 0
    /\ Edge
    /\ prog' = [i \in Ports |-> ResetProg(prog[i])]

Next == Clock \/ Reset

Spec == Init /\ [][Next]_vars

-----------------------------------------------------------------------------
States == {"default", "setPortMask", "setIrqMask"}

TypeOK ==
    /\ held \in 0 .. MaxHold
    /\ pIn \in [Ports -> Pins] /\ pStb \in [Ports -> Strobes]
    /\ stbDebounce \in [Ports -> [1 .. 4 -> {0, 1}]]
    /\ irq \in [Ports -> [int : {0, 1}, irqCond0 : {0, 1}, irqCond1 : {0, 1}]]
    /\ prog \in [Ports ->
           [state : States, nextState : States, mode : 0 .. 3, irqCtrl : 0 .. 7,
            irqMask : 0 .. 255, irqVect : 0 .. 127, portMask : 0 .. 255,
            pOutReg : 0 .. 255]]

\* The registers of a port as a program thinks of them.
Programmed(p) ==
    [expects |-> p.nextState,
     mode |-> p.mode,
     enabled |-> p.irqCtrl \div 4, condition |-> p.irqCtrl % 4,
     irqMask |-> p.irqMask, portMask |-> p.portMask,
     vector |-> p.irqVect, output |-> p.pOutReg]

\* Every access is taken once, on its first edge, whatever its length and
\* the port's state: a mask never ends up as a control word, nor a control
\* word as a mask, and the other port is not touched.
P == INSTANCE PioProgramming WITH
         access <- bus,
         taken <- IF held > 0 THEN 1 ELSE 0,
         setting <- [i \in Ports |-> Programmed(prog[i])]

ImplementsProgramming == P!Spec
=============================================================================
