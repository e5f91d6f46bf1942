--------------------------- MODULE CtcProgramming ---------------------------
(***************************************************************************)
(* What the programming interface of the CTC promises a program, without   *)
(* clock edges: every access is taken exactly once, in order, however many *)
(* edges it lasts, and its byte is a time constant exactly if the previous *)
(* control word of that channel announced one.                             *)
(***************************************************************************)
EXTENDS Integers

CONSTANTS
    Channels,
    Range,                  \* the counts of time constant 0
    Idle                    \* the bus without an access

VARIABLES
    access,                 \* the access on the bus: [en, cs, rd_n, dIn]
    taken,                  \* it has taken effect
    setting,                \* how each channel is programmed
    vector

vars == <<access, taken, setting, vector>>

Bit(byte, n) == (byte \div 2 ^ n) % 2

Load(s, byte) ==
    [expects |-> 0,
     running |-> 1,
     irq |-> s.irq,
     source |-> s.source,
     timeConstant |-> IF byte = 0 THEN Range ELSE byte]

Control(s, byte) ==
    [expects |-> Bit(byte, 2),
     running |-> IF Bit(byte, 1) = 1 THEN 0 ELSE s.running,
     irq |-> Bit(byte, 7),
     source |-> IF Bit(byte, 6) = 1 THEN "trigger"
                ELSE IF Bit(byte, 5) = 1 THEN "prescaler256" ELSE "prescaler16",
     timeConstant |-> s.timeConstant]

Stop(s) ==
    [expects |-> 0,
     running |-> 0,
     irq |-> s.irq,
     source |-> s.source,
     timeConstant |-> Range]

Init ==
    /\ access = Idle /\ taken = 0
    /\ setting = [c \in Channels |->
                     [expects |-> 0, running |-> 0, irq |-> 0,
                      source |-> "prescaler16", timeConstant |-> Range]]
    /\ vector = 0

Begin ==
    /\ access = Idle
    /\ access' # Idle
    /\ taken' = 0
    /\ UNCHANGED <<setting, vector>>

\* The access may end on the edge that takes it, or last.
Continues ==
    \/ access' = access /\ taken' = 1
    \/ access' = Idle /\ taken' = 0

Read ==
    /\ access.rd_n = 0
    /\ UNCHANGED <<setting, vector>>

Write ==
    LET s == setting[access.cs] IN
    /\ access.rd_n = 1
    /\ \/ s.expects = 1
          /\ setting' = [setting EXCEPT ![access.cs] = Load(s, access.dIn)]
          /\ UNCHANGED vector
       \/ s.expects = 0 /\ Bit(access.dIn, 0) = 1
          /\ setting' = [setting EXCEPT ![access.cs] = Control(s, access.dIn)]
          /\ UNCHANGED vector
       \/ s.expects = 0 /\ Bit(access.dIn, 0) = 0
          /\ vector' = access.dIn \div 8
          /\ UNCHANGED setting

Take == access # Idle /\ taken = 0 /\ Continues /\ (Read \/ Write)

End == taken = 1 /\ access' = Idle /\ taken' = 0 /\ UNCHANGED <<setting, vector>>

Reset ==
    /\ access' = Idle /\ taken' = 0
    /\ setting' = [c \in Channels |-> Stop(setting[c])]
    /\ UNCHANGED vector

Next == Begin \/ Take \/ End \/ Reset

Spec == Init /\ [][Next]_vars
=============================================================================
