--------------------------- MODULE PioProgramming ---------------------------
(***************************************************************************)
(* What the programming interface of the PIO promises a program, without   *)
(* clock edges: every access is taken exactly once however long it lasts;  *)
(* an acknowledge in between changes nothing; and a control byte is a mask *)
(* exactly if the previous control byte of that port announced one.        *)
(***************************************************************************)
EXTENDS Integers

CONSTANTS
    Ports,
    Data,                   \* what the output register may hold at first
    Idle                    \* the bus without access or acknowledge

VARIABLES
    access,                 \* the window on the bus: [en, intAck, port, ...]
    taken,                  \* it has taken effect
    setting                 \* how each port is programmed

vars == <<access, taken, setting>>

Bit(byte, n) == (byte \div 2 ^ n) % 2

Condition(s, byte) ==
    [expects |-> IF Bit(byte, 4) = 1 THEN "setIrqMask" ELSE "default",
     mode |-> s.mode, enabled |-> Bit(byte, 7), condition |-> (byte \div 32) % 4,
     irqMask |-> s.irqMask, portMask |-> s.portMask,
     vector |-> s.vector, output |-> s.output]

Mode(s, byte) ==
    [expects |-> IF byte \div 64 = 3 THEN "setPortMask" ELSE "default",
     mode |-> byte \div 64, enabled |-> s.enabled, condition |-> s.condition,
     irqMask |-> s.irqMask, portMask |-> s.portMask,
     vector |-> s.vector, output |-> s.output]

Forget(s) ==
    [expects |-> "default",
     mode |-> 1, enabled |-> s.enabled, condition |-> s.condition,
     irqMask |-> s.irqMask, portMask |-> 255,
     vector |-> s.vector, output |-> s.output]

\* A control byte, by what the port expects and by its low bits.
Word(s, byte) ==
    IF s.expects = "setPortMask"
    THEN [s EXCEPT !.portMask = byte, !.expects = "default"]
    ELSE IF s.expects = "setIrqMask"
    THEN [s EXCEPT !.irqMask = byte, !.expects = "default"]
    ELSE IF Bit(byte, 0) = 0 THEN [s EXCEPT !.vector = byte \div 2]
    ELSE IF byte % 16 = 3    THEN [s EXCEPT !.enabled = Bit(byte, 7)]
    ELSE IF byte % 16 = 7    THEN Condition(s, byte)
    ELSE IF byte % 16 = 15   THEN Mode(s, byte)
    ELSE s

Init ==
    /\ access = Idle /\ taken = 0
    /\ \E d \in Data :
           setting = [i \in Ports |->
               [expects |-> "default", mode |-> 1, enabled |-> 0, condition |-> 0,
                irqMask |-> 255, portMask |-> 255, vector |-> 0, output |-> d]]

Begin ==
    /\ access = Idle /\ access' # Idle
    /\ taken' = 0
    /\ UNCHANGED setting

\* The window may end on the edge that takes it, or last.
Continues ==
    \/ access' = access /\ taken' = 1
    \/ access' = Idle /\ taken' = 0

Acknowledge == access.intAck = 1 /\ UNCHANGED setting

Read == access.en = 1 /\ access.rd_n = 0 /\ UNCHANGED setting

WriteData ==
    /\ access.en = 1 /\ access.rd_n = 1 /\ access.cdSel = 0
    /\ setting' = [setting EXCEPT ![access.port].output = access.dIn]

WriteControl ==
    /\ access.en = 1 /\ access.rd_n = 1 /\ access.cdSel = 1
    /\ setting' = [setting EXCEPT ![access.port] = Word(@, access.dIn)]

Take ==
    /\ access # Idle /\ taken = 0
    /\ Continues
    /\ Acknowledge \/ Read \/ WriteData \/ WriteControl

End == taken = 1 /\ access' = Idle /\ taken' = 0 /\ UNCHANGED setting

\* A reset forgets what a port expects, its mode and its directions; the
\* interrupt setting and the output survive.
Reset ==
    /\ access' = Idle /\ taken' = 0
    /\ setting' = [i \in Ports |-> Forget(setting[i])]

Next == Begin \/ Take \/ End \/ Reset

Spec == Init /\ [][Next]_vars
=============================================================================
