------------------------------ MODULE PioProofs ------------------------------
(***************************************************************************)
(* Theorems of Pio for every set of ports, bytes, pins and every length of *)
(* an access.                                                              *)
(*                                                                         *)
(* As in CtcProofs the inductive invariant says that an access begins when *)
(* every port has settled (state = nextState) and that, once taken, it     *)
(* would be taken the same way on every further edge.  Here an acknowledge *)
(* also suspends its port, while the other port settles.                   *)
(*                                                                         *)
(* For the requests it lines the record of the pins up with the flip-flops *)
(* of strobe and irq: which edge of the past each of them holds, for the   *)
(* lines as long as the same ones have been monitored (EInv).              *)
(***************************************************************************)
EXTENDS MCPioEdges, TLAPS

Byte == 0 .. 255

Settings ==
    [state : States, nextState : States, mode : 0 .. 3, irqCtrl : 0 .. 7,
     irqMask : Byte, irqVect : 0 .. 127, portMask : Byte, pOutReg : Byte]

BusInv ==
    /\ bus = Idle
       \/ bus \in [en : {1}, intAck : {0}, port : Ports, cdSel : {0, 1},
                   rd_n : {0, 1}, dIn : Byte]
       \/ bus \in [en : {0}, intAck : {1}, port : Ports, cdSel : {0},
                   rd_n : {1}, dIn : {0}]
    /\ held \in 0 .. MaxHold
    /\ bus = Idle => held = 0

TakenInv ==
    bus # Idle =>
        /\ \A i \in Ports :
               i # bus.port \/ held = 0 => prog[i].state = prog[i].nextState
        /\ held > 0 => ProgNext(bus.port) = prog[bus.port]

IInv == TypeOK /\ BusInv /\ TakenInv

-----------------------------------------------------------------------------
LEMMA BitType ==
    ASSUME NEW byte \in Byte, NEW n \in {0, 4, 7}
    PROVE  Bit(byte, n) \in {0, 1}
BY DEF Bit, Byte

LEMMA ProgType == TypeOK => prog \in [Ports -> Settings]
BY DEF TypeOK, Settings, Byte

\* What the lines tell each port.
LEMMA Addressed ==
    ASSUME BusInv
    PROVE  /\ bus = Idle => \A i \in Ports : ~pioEn(i) /\ ~intAck(i)
           /\ bus # Idle => /\ bus.port \in Ports
                            /\ bus.dIn \in Byte
                            /\ bus.rd_n \in {0, 1} /\ bus.cdSel \in {0, 1}
                            /\ \/ bus.en = 1 /\ bus.intAck = 0
                               \/ bus.en = 0 /\ bus.intAck = 1
BY DEF BusInv, Idle, pioEn, intAck, Byte

LEMMA ControlWriteType ==
    ASSUME NEW p \in Settings, NEW byte \in Byte
    PROVE  ControlWrite(p, byte) \in Settings
<1>0. /\ byte \div 2 \in 0 .. 127 /\ byte \div 64 \in 0 .. 3
      /\ \A c \in Int : 4 * Bit(byte, 7) + (c % 4) \in 0 .. 7
      /\ byte \div 32 \in Int
  BY BitType DEF Byte
<1>1. Vector(p, byte) \in Settings
  BY <1>0 DEF Settings, Vector, States
<1>2. EnableFlag(p, byte) \in Settings
  <2>1. p.irqCtrl \in Int
    BY DEF Settings
  <2>2. 4 * Bit(byte, 7) + (p.irqCtrl % 4) \in 0 .. 7
    BY <1>0, <2>1
  <2> QED
    BY <2>2 DEF Settings, EnableFlag, States
<1>3. ControlWord(p, byte) \in Settings
  BY <1>0, ZenonT(40) DEF Settings, ControlWord, States
<1>4. OperationMode(p, byte) \in Settings
  BY <1>0 DEF Settings, OperationMode, States
<1>5. Word(p, byte) \in Settings
  <2>1. [p EXCEPT !.nextState = "default"] \in Settings
    BY DEF Settings, States
  <2> QED
    BY <1>1, <1>2, <1>3, <1>4, <2>1 DEF Word
<1>6. /\ [p EXCEPT !.portMask = byte, !.nextState = "default"] \in Settings
      /\ [p EXCEPT !.irqMask = byte, !.nextState = "default"] \in Settings
      /\ p.state \in States
  BY DEF Settings, States
<1> QED
  BY <1>5, <1>6 DEF ControlWrite, States

LEMMA ProgNextType ==
    ASSUME IInv, NEW i \in Ports
    PROVE  ProgNext(i) \in Settings
<1>1. prog[i] \in Settings
  BY ProgType DEF IInv
<1>2. CASE bus = Idle
  BY <1>1, <1>2, Addressed DEF ProgNext, IInv, Settings
<1>3. CASE bus # Idle
  <2>1. bus.dIn \in Byte
    BY <1>3, Addressed DEF IInv
  <2>2. [prog[i] EXCEPT !.state = prog[i].nextState] \in Settings
    BY <1>1 DEF Settings
  <2>3. [prog[i] EXCEPT !.pOutReg = bus.dIn] \in Settings
    BY <1>1, <2>1 DEF Settings
  <2> QED
    BY <1>1, <2>1, <2>2, <2>3, ControlWriteType DEF ProgNext
<1> QED
  BY <1>2, <1>3

\* Taking a control byte a second time changes nothing.
LEMMA ControlTwice ==
    ASSUME NEW p \in Settings, NEW byte \in Byte
    PROVE  /\ ControlWrite(ControlWrite(p, byte), byte) = ControlWrite(p, byte)
           /\ ControlWrite(p, byte).state = p.state
<1> DEFINE q == ControlWrite(p, byte)
<1>1. q \in Settings /\ q.state = p.state
  <2>1. /\ Vector(p, byte).state = p.state
        /\ EnableFlag(p, byte).state = p.state
        /\ ControlWord(p, byte).state = p.state
        /\ OperationMode(p, byte).state = p.state
    BY DEF Vector, EnableFlag, ControlWord, OperationMode, Settings
  <2>2. Word(p, byte).state = p.state
    BY <2>1 DEF Word, Settings
  <2> QED
    BY <2>2, ControlWriteType DEF ControlWrite, Settings, States
<1>2. CASE p.state = "default"
  <2>1. Word(Word(p, byte), byte) = Word(p, byte)
    <3>1. Vector(Vector(p, byte), byte) = Vector(p, byte)
      BY DEF Vector, Settings
    <3>2. EnableFlag(EnableFlag(p, byte), byte) = EnableFlag(p, byte)
      <4>1. (4 * Bit(byte, 7) + (p.irqCtrl % 4)) % 4 = p.irqCtrl % 4
        BY BitType DEF Settings
      <4> QED
        BY <4>1 DEF EnableFlag, Settings
    <3>3. ControlWord(ControlWord(p, byte), byte) = ControlWord(p, byte)
      BY DEF ControlWord, Settings
    <3>4. OperationMode(OperationMode(p, byte), byte) = OperationMode(p, byte)
      BY DEF OperationMode, Settings
    <3> QED
      BY <3>1, <3>2, <3>3, <3>4 DEF Word, Settings
  <2>2. q = Word(p, byte) /\ ControlWrite(q, byte) = Word(q, byte)
    BY <1>1, <1>2 DEF ControlWrite
  <2> QED
    BY <1>1, <2>1, <2>2
<1>3. CASE p.state = "setPortMask"
  BY <1>1, <1>3 DEF ControlWrite, Settings
<1>4. CASE p.state = "setIrqMask"
  BY <1>1, <1>4 DEF ControlWrite, Settings
<1> QED
  BY <1>2, <1>3, <1>4 DEF Settings, States

\* The first edge of an access is taken like every further one.
LEMMA TakenTwice ==
    ASSUME IInv, bus # Idle
    PROVE  LET p == ProgNext(bus.port) IN
           /\ \/ intAck(bus.port) /\ p = prog[bus.port]
              \/ /\ pioEn(bus.port) /\ ~intAck(bus.port)
                 /\ p = IF bus.rd_n = 0 THEN p
                        ELSE IF bus.cdSel = 0 THEN [p EXCEPT !.pOutReg = bus.dIn]
                        ELSE ControlWrite(p, bus.dIn)
           /\ held = 0 => p.state = prog[bus.port].state
<1> DEFINE i == bus.port
<1>1. i \in Ports /\ bus.dIn \in Byte /\ prog[i] \in Settings
  BY Addressed, ProgType DEF IInv
<1>2. CASE bus.intAck = 1
  BY <1>1, <1>2 DEF ProgNext, intAck
<1>3. CASE bus.en = 1 /\ bus.intAck = 0
  <2>1. pioEn(i) /\ ~intAck(i)
    BY <1>3 DEF pioEn, intAck
  <2>2. CASE bus.rd_n = 0
    BY <2>1, <2>2 DEF ProgNext
  <2>3. CASE bus.rd_n # 0 /\ bus.cdSel = 0
    <3>1. ProgNext(i) = [prog[i] EXCEPT !.pOutReg = bus.dIn]
      BY <2>1, <2>3 DEF ProgNext
    <3> QED
      BY <1>1, <2>1, <2>3, <3>1 DEF Settings
  <2>4. CASE bus.rd_n # 0 /\ bus.cdSel # 0
    <3>1. ProgNext(i) = ControlWrite(prog[i], bus.dIn)
      BY <2>1, <2>4 DEF ProgNext
    <3> QED
      BY <1>1, <2>1, <2>4, <3>1, ControlTwice
  <2> QED
    BY <2>2, <2>3, <2>4
<1> QED
  BY <1>2, <1>3, Addressed DEF IInv

-----------------------------------------------------------------------------
LEMMA Initially == Init => IInv
<1> SUFFICES ASSUME Init PROVE IInv
  OBVIOUS
<1>1. TypeOK
  BY PioAssumption DEF Init, TypeOK, States
<1> QED
  BY <1>1, PioAssumption DEF Init, IInv, BusInv, TakenInv

LEMMA IrqType ==
    ASSUME TypeOK, NEW i \in Ports
    PROVE  IrqNext(i) \in [int : {0, 1}, irqCond0 : {0, 1}, irqCond1 : {0, 1}]
<1> DEFINE q == irq[i]
<1>1. q \in [int : {0, 1}, irqCond0 : {0, 1}, irqCond1 : {0, 1}]
  BY DEF TypeOK
<1>2. /\ [q EXCEPT !.int = IF StrobeRose(i) THEN 1 ELSE 0]
             \in [int : {0, 1}, irqCond0 : {0, 1}, irqCond1 : {0, 1}]
      /\ [q EXCEPT !.int = 0]
             \in [int : {0, 1}, irqCond0 : {0, 1}, irqCond1 : {0, 1}]
  BY <1>1
<1>3. q.irqCond0 \in {0, 1}
  BY <1>1
<1> QED
  BY <1>2, <1>3 DEF IrqNext

\* The processes without a reset, and the pins.
LEMMA EdgeType ==
    ASSUME TypeOK, Edge
    PROVE  /\ pIn' \in [Ports -> Pins] /\ pStb' \in [Ports -> Strobes]
           /\ stbDebounce' \in [Ports -> [1 .. 4 -> {0, 1}]]
           /\ irq' \in [Ports -> [int : {0, 1}, irqCond0 : {0, 1},
                                  irqCond1 : {0, 1}]]
<1>1. pIn' \in [Ports -> Pins] /\ pStb' \in [Ports -> Strobes]
  BY DEF Edge, PinsMove
<1>2. stbDebounce' \in [Ports -> [1 .. 4 -> {0, 1}]]
  <2>1. ASSUME NEW i \in Ports, NEW n \in 1 .. 4
        PROVE  (IF n = 1 THEN pStb[i] ELSE stbDebounce[i][n - 1]) \in {0, 1}
    <3>1. stbDebounce[i] \in [1 .. 4 -> {0, 1}] /\ pStb[i] \in {0, 1}
      BY PioAssumption, ZenonT(40) DEF TypeOK
    <3>2. CASE n = 1
      BY <3>1, <3>2
    <3>3. CASE n # 1
      <4>1. n - 1 \in 1 .. 4
        BY <2>1, <3>3
      <4> QED
        BY <3>1, <3>3, <4>1
    <3> QED
      BY <3>2, <3>3
  <2> QED
    BY <2>1 DEF Edge, Strobe
<1>3. irq' \in [Ports -> [int : {0, 1}, irqCond0 : {0, 1}, irqCond1 : {0, 1}]]
  BY IrqType DEF Edge
<1> QED
  BY <1>1, <1>2, <1>3

LEMMA BusStep ==
    ASSUME BusInv, BusEdge PROVE BusInv'
<1>1. CASE bus # Idle
  BY <1>1, PioAssumption DEF BusInv, BusEdge
<1>2. CASE bus = Idle
  <2>1. held' = 0 /\ MaxHold \in Nat
    BY <1>2, PioAssumption DEF BusEdge
  <2>2. CASE bus' = Idle
    BY <2>1, <2>2 DEF BusInv
  <2>3. CASE bus' \in ControlWrites \cup DataWrites \cup Reads
    <3>1. bus' \in [en : {1}, intAck : {0}, port : Ports, cdSel : {0, 1},
                    rd_n : {0, 1}, dIn : Byte]
      BY <2>3, PioAssumption DEF ControlWrites, DataWrites, Reads, Byte
    <3>2. bus' # Idle
      BY <3>1 DEF Idle
    <3> QED
      BY <2>1, <3>1, <3>2 DEF BusInv
  <2>4. CASE bus' \in Acknowledges
    <3>1. bus' \in [en : {0}, intAck : {1}, port : Ports, cdSel : {0},
                    rd_n : {1}, dIn : {0}]
      BY <2>4 DEF Acknowledges, Idle
    <3>2. bus' # Idle
      BY <3>1 DEF Idle
    <3> QED
      BY <2>1, <3>1, <3>2 DEF BusInv
  <2> QED
    BY <1>2, <2>2, <2>3, <2>4 DEF BusEdge
<1> QED
  BY <1>1, <1>2

LEMMA ClockStep ==
    ASSUME IInv, Clock PROVE IInv'
<1>1. prog' \in [Ports -> Settings] /\ prog' = [i \in Ports |-> ProgNext(i)]
  BY ProgNextType DEF Clock
<1>2. BusInv'
  BY BusStep DEF Clock, IInv
<1>3. TypeOK'
  BY <1>1, <1>2, EdgeType DEF TypeOK, Clock, IInv, BusInv, Settings, Byte
<1>4. TakenInv'
  <2>1. CASE bus = Idle
    <3>1. held' = 0 /\ \A i \in Ports : prog'[i].state = prog'[i].nextState
      BY <1>1, <2>1, Addressed, ProgType
      DEF Clock, BusEdge, IInv, ProgNext, Settings
    <3> QED
      BY <3>1 DEF TakenInv
  <2>2. CASE bus # Idle /\ bus' = Idle
    BY <2>2 DEF TakenInv
  <2>3. CASE bus # Idle /\ bus' = bus
    <3> DEFINE i == bus.port
    <3>1. i \in Ports /\ held' > 0 /\ prog[i] \in Settings
      BY <2>3, Addressed, ProgType DEF Clock, BusEdge, IInv, BusInv
    <3>2. \A j \in Ports : j # i => prog'[j].state = prog'[j].nextState
      BY <1>1, <2>3, ProgType
      DEF IInv, TakenInv, ProgNext, pioEn, intAck, Settings
    <3>3. ProgNext(i)' = prog'[i]
      BY <1>1, <2>3, <3>1, TakenTwice DEF ProgNext, pioEn, intAck
    <3> QED
      BY <2>3, <3>1, <3>2, <3>3 DEF TakenInv
  <2> QED
    BY <2>1, <2>2, <2>3 DEF Clock, BusEdge
<1> QED
  BY <1>2, <1>3, <1>4 DEF IInv

LEMMA ResetStep ==
    ASSUME IInv, Reset PROVE IInv'
<1>1. BusInv' /\ TakenInv'
  BY PioAssumption DEF Reset, BusInv, TakenInv
<1>2. prog' \in [Ports -> Settings]
  <2>1. ASSUME NEW i \in Ports PROVE ResetProg(prog[i]) \in Settings
    <3>1. prog[i] \in Settings /\ 255 \in Byte
      BY ProgType DEF IInv, Byte
    <3>2. 1 \in 0 .. 3 /\ "default" \in States
      BY DEF States
    <3> QED
      BY <3>1, <3>2, ZenonT(40) DEF ResetProg, Settings
  <2> QED
    BY <2>1 DEF Reset
<1>3. TypeOK'
  BY <1>1, <1>2, EdgeType DEF TypeOK, Reset, IInv, BusInv, Settings, Byte
<1> QED
  BY <1>1, <1>3 DEF IInv

LEMMA Step == IInv /\ [Next]_vars => IInv'
<1> SUFFICES ASSUME IInv, [Next]_vars PROVE IInv'
  OBVIOUS
<1>1. CASE UNCHANGED vars
  BY <1>1 DEF vars, IInv, TypeOK, BusInv, TakenInv, ProgNext, pioEn, intAck
<1> QED
  BY <1>1, ClockStep, ResetStep DEF Next

\* The registers of every port stay in their ranges, and an access acts on
\* its first edge only, at any moment of any run (cpu_control, pio_port.vhd
\* 158-215).
THEOREM Invariant == Spec => []IInv
BY Initially, Step, PTL DEF Spec

\* Every register of every port stays in its declared range (pio_port.vhd
\* 55-70).
THEOREM TypeCorrect == Spec => []TypeOK
<1>1. IInv => TypeOK
  BY DEF IInv
<1> QED
  BY <1>1, Invariant, PTL

-----------------------------------------------------------------------------
LEMMA DefaultMaps ==
    ASSUME NEW p \in Settings, NEW byte \in Byte,
           p.state = "default", p.nextState = "default"
    PROVE  Programmed(Word(p, byte)) = P!Word(Programmed(p), byte)
<1> DEFINE s == Programmed(p)
<1>1. /\ Bit(byte, 7) \in {0, 1} /\ byte \in Int
      /\ \A n : P!Bit(byte, n) = Bit(byte, n)
  BY BitType DEF Bit, P!Bit, Byte
<1>2. s.expects = "default"
  BY DEF Programmed
<1>3. CASE Bit(byte, 0) = 0
  <2>1. P!Word(s, byte) = [s EXCEPT !.vector = byte \div 2]
    BY <1>1, <1>2, <1>3 DEF P!Word
  <2>2. Programmed(Vector(p, byte)) = [s EXCEPT !.vector = byte \div 2]
    BY DEF Programmed, Vector, Settings
  <2> QED
    BY <1>3, <2>1, <2>2 DEF Word
<1>4. CASE Bit(byte, 0) # 0 /\ byte % 16 = 3
  <2>1. P!Word(s, byte) = [s EXCEPT !.enabled = Bit(byte, 7)]
    BY <1>1, <1>2, <1>4 DEF P!Word
  <2>2. /\ (4 * Bit(byte, 7) + (p.irqCtrl % 4)) \div 4 = Bit(byte, 7)
        /\ (4 * Bit(byte, 7) + (p.irqCtrl % 4)) % 4 = p.irqCtrl % 4
    <3>1. p.irqCtrl \in Int
      BY DEF Settings
    <3> QED
      BY <1>1, <3>1
  <2>3. Programmed(EnableFlag(p, byte)) = [s EXCEPT !.enabled = Bit(byte, 7)]
    BY <2>2 DEF Programmed, EnableFlag, Settings
  <2> QED
    BY <1>4, <2>1, <2>3 DEF Word
<1>5. CASE Bit(byte, 0) # 0 /\ byte % 16 = 7
  <2>1. P!Word(s, byte) = P!Condition(s, byte)
    BY <1>1, <1>2, <1>5 DEF P!Word
  <2>2. /\ (4 * Bit(byte, 7) + ((byte \div 32) % 4)) \div 4 = Bit(byte, 7)
        /\ (4 * Bit(byte, 7) + ((byte \div 32) % 4)) % 4 = (byte \div 32) % 4
    <3>1. byte \div 32 \in Int
      BY <1>1
    <3>2. \A b \in {0, 1}, c \in Int :
              (4 * b + (c % 4)) \div 4 = b /\ (4 * b + (c % 4)) % 4 = c % 4
      OBVIOUS
    <3> QED
      BY <1>1, <3>1, <3>2
  <2>3. Programmed(ControlWord(p, byte)) = P!Condition(s, byte)
    BY <1>1, <2>2 DEF P!Condition, Programmed, ControlWord, Settings
  <2> QED
    BY <1>5, <2>1, <2>3 DEF Word
<1>6. CASE Bit(byte, 0) # 0 /\ byte % 16 = 15
  <2>1. P!Word(s, byte) = P!Mode(s, byte)
    BY <1>1, <1>2, <1>6 DEF P!Word
  <2>2. Programmed(OperationMode(p, byte)) = P!Mode(s, byte)
    BY DEF P!Mode, Programmed, OperationMode, Settings
  <2> QED
    BY <1>6, <2>1, <2>2 DEF Word
<1>7. CASE Bit(byte, 0) # 0 /\ byte % 16 \notin {3, 7, 15}
  <2>1. P!Word(s, byte) = s
    BY <1>1, <1>2, <1>7 DEF P!Word
  <2>2. Word(p, byte) = p
    BY <1>7 DEF Word, Settings
  <2> QED
    BY <2>1, <2>2
<1> QED
  BY <1>3, <1>4, <1>5, <1>6, <1>7

\* A control byte changes a settled port as the abstract interface has it.
LEMMA WriteMaps ==
    ASSUME NEW p \in Settings, NEW byte \in Byte, p.state = p.nextState
    PROVE  Programmed(ControlWrite(p, byte)) = P!Word(Programmed(p), byte)
<1>1. CASE p.state = "default"
  BY <1>1, DefaultMaps DEF ControlWrite
<1>2. CASE p.state = "setPortMask"
  BY <1>2 DEF ControlWrite, Programmed, P!Word, Settings
<1>3. CASE p.state = "setIrqMask"
  BY <1>3 DEF ControlWrite, Programmed, P!Word, Settings
<1> QED
  BY <1>1, <1>2, <1>3 DEF Settings, States

\* Where a port only settles, the program sees no change.
LEMMA SettleMaps ==
    ASSUME IInv, Clock, NEW i \in Ports, bus = Idle \/ i # bus.port
    PROVE  Programmed(prog'[i]) = Programmed(prog[i])
<1>1. prog'[i] = [prog[i] EXCEPT !.state = prog[i].nextState]
  BY Addressed DEF Clock, ProgNext, pioEn, intAck, IInv
<1>2. prog[i] \in Settings
  BY ProgType DEF IInv
<1> QED
  BY <1>1, <1>2 DEF Programmed, Settings

LEMMA IdleMaps ==
    ASSUME IInv, Clock, bus = Idle
    PROVE  P!Begin \/ UNCHANGED P!vars
<1>1. \A i \in Ports : Programmed(prog'[i]) = Programmed(prog[i])
  BY SettleMaps
<1>2. [i \in Ports |-> Programmed(prog[i])]' = [i \in Ports |-> Programmed(prog[i])]
  BY <1>1
<1>3. held = 0 /\ held' = 0
  BY DEF IInv, BusInv, Clock, BusEdge
<1> QED
  BY <1>2, <1>3 DEF P!Begin, P!vars

\* The further edges of a window, and its end.
LEMMA HeldMaps ==
    ASSUME IInv, Clock, bus # Idle, held > 0
    PROVE  P!End \/ UNCHANGED P!vars
<1>1. bus.port \in Ports /\ prog'[bus.port] = prog[bus.port]
  BY Addressed DEF IInv, TakenInv, Clock
<1>2. \A i \in Ports : Programmed(prog'[i]) = Programmed(prog[i])
  BY <1>1, SettleMaps
<1>3. [i \in Ports |-> Programmed(prog[i])]' = [i \in Ports |-> Programmed(prog[i])]
  BY <1>2
<1>4. held \in Nat
  BY PioAssumption DEF IInv, BusInv
<1>5. CASE bus' = Idle /\ held' = 0
  BY <1>3, <1>4, <1>5 DEF P!End
<1>6. CASE bus' = bus /\ held' = held + 1
  BY <1>3, <1>4, <1>6 DEF P!vars
<1> QED
  BY <1>5, <1>6 DEF Clock, BusEdge

\* The first edge of a window.
LEMMA TakeMaps ==
    ASSUME IInv, Clock, bus # Idle, held = 0
    PROVE  P!Take
<1> DEFINE i == bus.port
           p == prog[i]
           S == [j \in Ports |-> Programmed(prog[j])]
<1>1. /\ i \in Ports /\ bus.dIn \in Byte /\ p \in Settings
      /\ p.state = p.nextState /\ prog'[i] = ProgNext(i)
      /\ bus.rd_n \in {0, 1} /\ bus.cdSel \in {0, 1}
  BY Addressed, ProgType DEF IInv, TakenInv, Clock
<1>2. \A j \in Ports : j # i => Programmed(prog'[j]) = Programmed(prog[j])
  BY SettleMaps
<1>3. S' = [S EXCEPT ![i] = Programmed(ProgNext(i))]
  BY <1>1, <1>2
<1>4. S[i] = Programmed(p) /\ S = [S EXCEPT ![i] = Programmed(p)]
  BY <1>1
<1>5. P!Continues
  BY DEF Clock, BusEdge, P!Continues
<1>6. CASE bus.intAck = 1
  <2>1. ProgNext(i) = p
    BY <1>6 DEF ProgNext, intAck
  <2>2. S' = S
    BY <1>3, <1>4, <2>1
  <2> QED
    BY <1>5, <1>6, <2>2 DEF P!Take, P!Acknowledge
<1>7. CASE bus.en = 1 /\ bus.intAck = 0
  <2>1. pioEn(i) /\ ~intAck(i)
    BY <1>7 DEF pioEn, intAck
  <2>2. CASE bus.rd_n = 0
    <3>1. S' = S
      BY <1>3, <1>4, <2>1, <2>2 DEF ProgNext
    <3> QED
      BY <1>5, <1>7, <2>2, <3>1 DEF P!Take, P!Read
  <2>3. CASE bus.rd_n = 1 /\ bus.cdSel = 0
    <3>1. Programmed([p EXCEPT !.pOutReg = bus.dIn])
            = [Programmed(p) EXCEPT !.output = bus.dIn]
      BY <1>1 DEF Programmed, Settings
    <3>2. ProgNext(i) = [p EXCEPT !.pOutReg = bus.dIn]
      BY <2>1, <2>3 DEF ProgNext
    <3>3. S' = [S EXCEPT ![i] = [S[i] EXCEPT !.output = bus.dIn]]
      BY <1>3, <1>4, <3>1, <3>2
    <3> QED
      BY <1>5, <1>7, <2>3, <3>3 DEF P!Take, P!WriteData
  <2>4. CASE bus.rd_n = 1 /\ bus.cdSel = 1
    <3>1. ProgNext(i) = ControlWrite(p, bus.dIn)
      BY <2>1, <2>4 DEF ProgNext
    <3>2. Programmed(ProgNext(i)) = P!Word(S[i], bus.dIn)
      BY <1>1, <1>4, <3>1, WriteMaps
    <3>3. S' = [S EXCEPT ![i] = P!Word(S[i], bus.dIn)]
      BY <1>3, <3>2
    <3> QED
      BY <1>5, <1>7, <2>4, <3>3 DEF P!Take, P!WriteControl
  <2> QED
    BY <1>1, <2>2, <2>3, <2>4
<1> QED
  BY <1>6, <1>7, Addressed DEF IInv

LEMMA ResetMaps ==
    ASSUME IInv, Reset
    PROVE  P!Reset
<1> DEFINE S == [i \in Ports |-> Programmed(prog[i])]
<1>1. ASSUME NEW p \in Settings
      PROVE  Programmed(ResetProg(p)) = P!Forget(Programmed(p))
  BY DEF P!Forget, Programmed, Settings, ResetProg
<1>2. \A i \in Ports : prog[i] \in Settings /\ prog'[i] = ResetProg(prog[i])
  BY ProgType DEF IInv, Reset
<1>3. \A i \in Ports : Programmed(prog'[i]) = P!Forget(S[i])
  BY <1>1, <1>2
<1>4. S' = [i \in Ports |-> P!Forget(S[i])]
  BY <1>3
<1> QED
  BY <1>4 DEF P!Reset, Reset

\* Every access acts exactly once, on its first edge, for every set of ports
\* and length of an access; masks and control words are never confused,
\* acknowledges in between change nothing (pio_port.vhd 158-215): Pio
\* implements PioProgramming.
THEOREM Implementation == Spec => ImplementsProgramming
<1>1. Init => P!Init
  BY DEF Init, P!Init, Programmed
<1>2. IInv /\ [Next]_vars => [P!Next]_P!vars
  <2> SUFFICES ASSUME IInv, [Next]_vars PROVE P!Next \/ UNCHANGED P!vars
    OBVIOUS
  <2>1. CASE UNCHANGED vars
    BY <2>1 DEF vars, P!vars, Programmed
  <2>2. CASE Clock
    <3>1. held = 0 \/ held > 0
      BY PioAssumption DEF IInv, BusInv
    <3> QED
      BY <2>2, <3>1, IdleMaps, HeldMaps, TakeMaps DEF P!Next
  <2>3. CASE Reset
    BY <2>3, ResetMaps DEF P!Next
  <2> QED
    BY <2>1, <2>2, <2>3 DEF Next
<1> QED
  BY <1>1, <1>2, Invariant, PTL DEF Spec, ImplementsProgramming, P!Spec

-----------------------------------------------------------------------------
(***************************************************************************)
(* The requests.                                                           *)
(***************************************************************************)

RecordType ==
    /\ strobes \in [Ports -> [1 .. 5 -> {0, 1}]]
    /\ conditions \in [Ports -> [1 .. 3 -> BOOLEAN]]
    /\ watched \in [Ports -> 0 .. 3]
    /\ armed \in [Ports -> BOOLEAN]

\* The shift register of strobe holds the last four levels.
StrobeInv ==
    \A i \in Ports, n \in 1 .. 4 : stbDebounce[i][n] = strobes[i][n]

\* irqCond holds the last two conditions once it has been clocked that often
\* with the same lines monitored.
WatchInv ==
    \A i \in Ports :
        /\ watched[i] >= 1 => (irq[i].irqCond0 = 1 <=> conditions[i][1])
        /\ watched[i] >= 2 => (irq[i].irqCond1 = 1 <=> conditions[i][2])

EInv ==
    /\ IInv
    /\ RecordType
    /\ StrobeInv
    /\ WatchInv
    /\ OneRequestPerEdge
    /\ OneRequestPerStrobe

-----------------------------------------------------------------------------
LEMMA Started == EInit => EInv
<1> SUFFICES ASSUME EInit PROVE EInv
  OBVIOUS
<1>1. IInv
  BY Initially DEF EInit
<1>2. RecordType
  BY DEF EInit, RecordType
<1>3. StrobeInv
  BY DEF EInit, Init, StrobeInv
<1> QED
  BY <1>1, <1>2, <1>3 DEF EInit, EInv, WatchInv, OneRequestPerEdge, OneRequestPerStrobe

\* One edge: what the records of a port become.
LEMMA Recorded ==
    ASSUME EInv, ENext, NEW i \in Ports
    PROVE  /\ strobes'[i] \in [1 .. 5 -> {0, 1}]
           /\ strobes'[i][1] = pStb[i]
           /\ \A n \in 1 .. 4 : strobes'[i][n + 1] = strobes[i][n]
           /\ conditions'[i] \in [1 .. 3 -> BOOLEAN]
           /\ conditions'[i][1] = (Watches(prog[i]) /\ Condition(prog[i], pIn[i]))
           /\ conditions'[i][2] = conditions[i][1]
           /\ conditions'[i][3] = conditions[i][2]
<1> DEFINE c == Watches(prog[i]) /\ Condition(prog[i], pIn[i])
<1>1. strobes'[i] = Shift(strobes[i], pStb[i], 5)
  BY DEF ENext
<1>2. strobes[i] \in [1 .. 5 -> {0, 1}] /\ pStb[i] \in {0, 1}
  <2>1. EInv
    OBVIOUS
  <2>2. strobes[i] \in [1 .. 5 -> {0, 1}]
    BY <2>1 DEF EInv, RecordType
  <2>3. pStb \in [Ports -> Strobes]
    BY <2>1 DEF EInv, IInv, TypeOK
  <2> QED
    BY <2>2, <2>3, PioAssumption
<1>3. strobes'[i][1] = pStb[i] /\ \A n \in 1 .. 4 : strobes'[i][n + 1] = strobes[i][n]
  BY <1>1 DEF Shift
<1>4. strobes'[i] \in [1 .. 5 -> {0, 1}]
  <2>1. ASSUME NEW n \in 1 .. 5
        PROVE  (IF n = 1 THEN pStb[i] ELSE strobes[i][n - 1]) \in {0, 1}
    BY <1>2
  <2> QED
    BY <1>1, <2>1 DEF Shift
<1>5. conditions'[i] = Shift(conditions[i], c, 3) /\ c \in BOOLEAN
  BY DEF ENext, Watches, Condition
<1>6. conditions[i] \in [1 .. 3 -> BOOLEAN]
  BY DEF EInv, RecordType
<1> HIDE DEF c
<1>7. /\ conditions'[i][1] = c
      /\ conditions'[i][2] = conditions[i][1]
      /\ conditions'[i][3] = conditions[i][2]
  BY <1>5 DEF Shift
<1>8. conditions'[i] \in [1 .. 3 -> BOOLEAN]
  <2>1. ASSUME NEW n \in 1 .. 3
        PROVE  (IF n = 1 THEN c ELSE conditions[i][n - 1]) \in BOOLEAN
    BY <1>5, <1>6
  <2> QED
    BY <1>5, <2>1 DEF Shift
<1> QED
  BY <1>3, <1>4, <1>7, <1>8 DEF c

\* The shift register moves with the record of the levels, and a port in
\* mode 0 raises its request from the two oldest bits.
LEMMA StrobeStep ==
    ASSUME EInv, ENext, Edge
    PROVE  StrobeInv' /\ OneRequestPerStrobe'
<1>1. StrobeInv'
  <2> SUFFICES ASSUME NEW i \in Ports, NEW n \in 1 .. 4
               PROVE  stbDebounce'[i][n] = strobes'[i][n]
    BY DEF StrobeInv
  <2>1. stbDebounce'[i][n] = IF n = 1 THEN pStb[i] ELSE stbDebounce[i][n - 1]
    BY DEF Edge, Strobe
  <2>2. CASE n = 1
    BY <2>1, <2>2, Recorded
  <2>3. CASE n # 1
    <3>1. n - 1 \in 1 .. 4 /\ (n - 1) + 1 = n
      BY <2>3
    <3> QED
      BY <2>1, <2>3, <3>1, Recorded DEF EInv, StrobeInv
  <2> QED
    BY <2>2, <2>3
<1>2. OneRequestPerStrobe'
  <2> SUFFICES ASSUME NEW i \in Ports, armed'[i]
               PROVE  irq'[i].int = 1 <=> strobes'[i][4] = 1 /\ strobes'[i][5] = 0
    BY DEF OneRequestPerStrobe
  <2>1. prog[i].mode = 0 /\ Enabled(prog[i])
    BY DEF ENext
  <2>2. irq'[i].int = IF StrobeRose(i) THEN 1 ELSE 0
    BY <2>1 DEF Edge, IrqNext, EInv, IInv, TypeOK
  <2>3. strobes'[i][4] = stbDebounce[i][3] /\ strobes'[i][5] = stbDebounce[i][4]
    <3>1. 3 \in 1 .. 4 /\ 4 \in 1 .. 4 /\ 3 + 1 = 4 /\ 4 + 1 = 5
      OBVIOUS
    <3> QED
      BY <3>1, Recorded DEF EInv, StrobeInv
  <2> QED
    BY <2>2, <2>3 DEF StrobeRose
<1> QED
  BY <1>1, <1>2

\* While the same lines are monitored irqCond moves with the record of the
\* conditions, and the request comes from the two conditions before.
LEMMA WatchStep ==
    ASSUME EInv, ENext, Edge
    PROVE  WatchInv' /\ OneRequestPerEdge'
<1> SUFFICES
      ASSUME NEW i \in Ports, watched'[i] >= 1
      PROVE  /\ irq'[i].irqCond0 = 1 <=> conditions'[i][1]
             /\ watched'[i] >= 2 => (irq'[i].irqCond1 = 1 <=> conditions'[i][2])
             /\ watched'[i] = 3 =>
                    (irq'[i].int = 1 <=> conditions'[i][2] /\ ~conditions'[i][3])
  <2>1. \A k \in Int : k >= 2 \/ k = 3 => k >= 1
    OBVIOUS
  <2>2. \A i \in Ports : watched'[i] \in 0 .. 3
    BY DEF EInv, RecordType, ENext
  <2> QED
    BY <2>1, <2>2 DEF WatchInv, OneRequestPerEdge
<1> DEFINE p == prog[i]  q == irq[i]
<1>1. /\ watched[i] \in 0 .. 3
      /\ watched'[i] = IF ~Watches(p) \/ ~SameWatch(p, prog'[i]) THEN 0
                       ELSE IF watched[i] = 3 THEN 3 ELSE watched[i] + 1
  BY DEF EInv, RecordType, ENext
<1>2. Watches(p) /\ (watched'[i] >= 2 => watched[i] >= 1)
      /\ (watched'[i] = 3 => watched[i] >= 2)
  BY <1>1
<1>3. irq'[i] = [int      |-> IF Rose(q) THEN 1 ELSE 0,
                 irqCond0 |-> IF Condition(p, pIn[i]) THEN 1 ELSE 0,
                 irqCond1 |-> q.irqCond0]
  BY <1>2 DEF Edge, IrqNext, Watches
<1>4. q.irqCond1 \in {0, 1}
  BY DEF EInv, IInv, TypeOK
<1>5. irq'[i].irqCond0 = 1 <=> conditions'[i][1]
  BY <1>2, <1>3, Recorded
<1>6. ASSUME watched'[i] >= 2
      PROVE  irq'[i].irqCond1 = 1 <=> conditions'[i][2]
  BY <1>2, <1>3, <1>6, Recorded DEF EInv, WatchInv
<1>7. ASSUME watched'[i] = 3
      PROVE  irq'[i].int = 1 <=> conditions'[i][2] /\ ~conditions'[i][3]
  <2>1. watched[i] >= 1 /\ watched[i] >= 2
    BY <1>1, <1>2, <1>7
  <2>2. irq'[i].int = 1 <=> q.irqCond0 = 1 /\ q.irqCond1 = 0
    BY <1>3 DEF Rose
  <2>3. q.irqCond0 = 1 <=> conditions[i][1]
    BY <2>1 DEF EInv, WatchInv
  <2>4. q.irqCond1 = 0 <=> ~conditions[i][2]
    <3>1. q.irqCond1 = 1 <=> conditions[i][2]
      BY <2>1 DEF EInv, WatchInv
    <3> QED
      BY <1>4, <3>1
  <2> QED
    BY <2>2, <2>3, <2>4, Recorded
<1> QED
  BY <1>5, <1>6, <1>7

LEMMA RecordTypeStep ==
    ASSUME EInv, ENext
    PROVE  RecordType'
<1>1. /\ \A i \in Ports : strobes'[i] \in [1 .. 5 -> {0, 1}]
      /\ \A i \in Ports : conditions'[i] \in [1 .. 3 -> BOOLEAN]
  BY Recorded
<1>2. /\ strobes' \in [Ports -> [1 .. 5 -> {0, 1}]]
      /\ conditions' \in [Ports -> [1 .. 3 -> BOOLEAN]]
  BY <1>1 DEF ENext
<1>3. watched' \in [Ports -> 0 .. 3]
  BY SMTT(30) DEF ENext, EInv, RecordType
<1>4. armed' \in [Ports -> BOOLEAN]
  BY DEF ENext, Enabled
<1> QED
  BY <1>2, <1>3, <1>4 DEF RecordType

LEMMA EdgesStep == EInv /\ [ENext]_<<vars, history>> => EInv'
<1> SUFFICES ASSUME EInv, [ENext]_<<vars, history>> PROVE EInv'
  OBVIOUS
<1>1. CASE ENext
  <2>1. Next /\ Edge
    BY <1>1 DEF ENext, Next, Clock, Reset
  <2>2. IInv'
    BY <2>1, Step DEF EInv
  <2> QED
    BY <1>1, <2>1, <2>2, StrobeStep, WatchStep, RecordTypeStep DEF EInv
<1>2. CASE UNCHANGED <<vars, history>>
  <2>1. IInv'
    BY <1>2, Step DEF EInv
  <2>2. /\ strobes' = strobes /\ conditions' = conditions
        /\ watched' = watched /\ armed' = armed
        /\ irq' = irq /\ stbDebounce' = stbDebounce
    BY <1>2 DEF vars, history
  <2>3. RecordType' /\ StrobeInv' /\ WatchInv'
    BY <2>2 DEF EInv, RecordType, StrobeInv, WatchInv
  <2>4. OneRequestPerEdge' /\ OneRequestPerStrobe'
    BY <2>2 DEF EInv, OneRequestPerEdge, OneRequestPerStrobe
  <2> QED
    BY <2>1, <2>3, <2>4 DEF EInv
<1> QED
  BY <1>1, <1>2

\* The flip-flops of every port hold the pins of known edges of the past, at
\* any moment of any run (strobe and irq, pio_port.vhd 85-156).
THEOREM EdgesInvariant == ESpec => []EInv
BY Started, EdgesStep, PTL DEF ESpec

\* A port that has monitored the same lines for three edges raises a request
\* exactly when their condition became true, one edge after it did, for
\* every set of ports, lines and pins and whatever is written or acknowledged
\* (irq, pio_port.vhd 101-156).
THEOREM RequestPerEdge == ESpec => []OneRequestPerEdge
<1>1. EInv => OneRequestPerEdge
  BY DEF EInv
<1> QED
  BY <1>1, EdgesInvariant, PTL

\* A port in mode 0 raises a request exactly once for the end of a strobe,
\* for every set of ports and pins and whatever is written or acknowledged
\* (strobe and irq, pio_port.vhd 85-156).
THEOREM RequestPerStrobe == ESpec => []OneRequestPerStrobe
<1>1. EInv => OneRequestPerStrobe
  BY DEF EInv
<1> QED
  BY <1>1, EdgesInvariant, PTL
=============================================================================
