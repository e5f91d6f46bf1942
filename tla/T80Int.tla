------------------------------- MODULE T80Int -------------------------------
(***************************************************************************)
(* What the interrupt controller sees of the T80 CPU: its machine-cycle    *)
(* and T-state sequencer, the interrupt-enable flip-flops, the interrupt   *)
(* acknowledge cycle and the M1, IORQ and RETI lines (rtl/t80/T80.vhd,      *)
(* T80se.vhd, T80_MCode.vhd, with the generics Mode = 1, T2Write = 1 and   *)
(* IOWait = 0 of rtl/kc87.vhd).                                            *)
(*                                                                         *)
(* An instruction is one of the classes that matter to this sequencing:    *)
(*   nop   a single M1 cycle, no effect on interrupts                      *)
(*   io    IN A,(n) or OUT (n),A: the third M cycle drives IORQ            *)
(*   ei/di the two that change the flip-flops                              *)
(*   ed    the ED prefix, after which no interrupt is taken                *)
(*   reti  RETI or RETN after the prefix                                   *)
(* WAIT, NMI and BUSRQ are tied high in the KC87 and are left out; the     *)
(* interrupt mode is IM 2, which every program of the KC87 selects.        *)
(***************************************************************************)
EXTENDS Integers

Classes == {"nop", "io", "ei", "di", "ed", "reti"}

\* What may be fetched after the opcode in the instruction register.
Fetchable(ir0) == IF ir0 = "ed" THEN {"nop", "reti"} ELSE Classes \ {"reti"}

VARIABLES
    mcycle, tstate,         \* MCycle and TState of the sequencer
    ir,                     \* instruction register
    intCycle,               \* the current M cycles acknowledge an interrupt
    Auto_Wait_t1, Auto_Wait_t2,     \* a shift register that counts wait states
    iff1, iff2,             \* IntE_FF1 and IntE_FF2
    int_s,                  \* INT_s: the interrupt line, sampled
    m1_n, iorq_n, RETI_n    \* the lines the interrupt controller follows

seqVars == <<mcycle, tstate, ir, intCycle, Auto_Wait_t1, Auto_Wait_t2, iff1, iff2,
             int_s, m1_n, iorq_n>>

cpuVars == <<seqVars, RETI_n>>

CpuTypeOK ==
    /\ mcycle \in 1 .. 5
    /\ tstate \in 0 .. 5
    /\ ir \in Classes
    /\ intCycle \in {0, 1}
    /\ Auto_Wait_t1 \in {0, 1} /\ Auto_Wait_t2 \in {0, 1}
    /\ iff1 \in {0, 1} /\ iff2 \in {0, 1}
    /\ int_s \in {0, 1}
    /\ m1_n \in {0, 1} /\ iorq_n \in {0, 1} /\ RETI_n \in {0, 1}

CpuInit ==
    /\ mcycle = 1 /\ tstate = 0
    /\ ir = "nop"
    /\ intCycle = 0
    /\ Auto_Wait_t1 = 0 /\ Auto_Wait_t2 = 0
    /\ iff1 = 0 /\ iff2 = 0
    /\ int_s = 0
    /\ m1_n = 1 /\ iorq_n = 1 /\ RETI_n = 1

-----------------------------------------------------------------------------
\* A slip: one M cycle too many.
MCyclesOneMore == IF intCycle = 1 THEN 6 ELSE IF ir \in {"io", "reti"} THEN 3 ELSE 1

\* MCycles of the microcode: the vector fetch of IM 2 takes five.
MCycles == IF intCycle = 1 THEN 5 ELSE IF ir \in {"io", "reti"} THEN 3 ELSE 1

\* TStates of the microcode in Mode 1.
TStates == IF mcycle # 1 THEN 3 ELSE IF intCycle = 1 THEN 5 ELSE 4

T_Res == tstate = TStates

\* A slip: an acknowledge without wait states.
NoAutoWait == 0

Auto_Wait == IF intCycle = 1 /\ mcycle = 1 THEN 1 ELSE 0

Waiting == Auto_Wait = 1 /\ Auto_Wait_t2 = 0

\* A slip: the strobe in an M cycle that RETI does not have.
RetnTooLate == ir = "reti" /\ mcycle = 4

I_RETN == ir = "reti" /\ mcycle = 3

\* IORQ is driven for the T-state after T1 of an I/O cycle, or while the
\* acknowledge cycle stays in T1.
BusIorq ==
    IF tstate = 1 /\ (IF mcycle = 1 THEN intCycle = 1
                                     ELSE ir = "io" /\ mcycle = 3)
    THEN 0 ELSE 1

\* Registers that every enabled edge loads.
Sample(int_n0) ==
    /\ int_s' = 1 - int_n0
    /\ Auto_Wait_t1' = Auto_Wait
    /\ Auto_Wait_t2' = Auto_Wait_t1
    /\ iorq_n' = BusIorq

-----------------------------------------------------------------------------
(***************************************************************************)
(* The edges of the sequencer with CLKEN high.                             *)
(***************************************************************************)

\* The first edge after reset.
LeaveReset(int_n0) ==
    /\ tstate = 0
    /\ tstate' = 1
    /\ m1_n' = 0
    /\ Sample(int_n0)
    /\ UNCHANGED <<mcycle, ir, intCycle, iff1, iff2>>

\* The two wait states of an acknowledge cycle, both in T1.
WaitState(int_n0) ==
    /\ tstate # 0 /\ ~T_Res
    /\ Waiting
    /\ Sample(int_n0)
    /\ UNCHANGED <<mcycle, tstate, ir, intCycle, iff1, iff2, m1_n>>

\* T2 of an M1 cycle loads the opcode; an EI in the register acts only now.
FetchOpcode(int_n0, op) ==
    /\ mcycle = 1 /\ tstate = 2
    /\ ~Waiting
    /\ op \in IF intCycle = 1 THEN {"nop"} ELSE Fetchable(ir)
    /\ ir' = op
    /\ IF ir = "ei" THEN iff1' = 1 /\ iff2' = 1 ELSE UNCHANGED <<iff1, iff2>>
    /\ m1_n' = 1
    /\ tstate' = 3
    /\ Sample(int_n0)
    /\ UNCHANGED <<mcycle, intCycle>>

\* The T-states inside an M cycle: RETN copies IFF2 in T2, DI acts in T3.
NextTState(int_n0) ==
    /\ tstate # 0 /\ ~T_Res
    /\ ~(mcycle = 1 /\ tstate = 2)
    /\ ~Waiting
    /\ tstate' = tstate + 1
    /\ iff1' = IF tstate = 3 /\ ir = "di" THEN 0
               ELSE IF tstate = 2 /\ I_RETN THEN iff2 ELSE iff1
    /\ iff2' = IF tstate = 3 /\ ir = "di" THEN 0 ELSE iff2
    /\ Sample(int_n0)
    /\ UNCHANGED <<mcycle, ir, intCycle, m1_n>>

\* The last T-state of an M cycle that is not the instruction's last.
NextMCycle(int_n0) ==
    /\ T_Res
    /\ mcycle # MCycles
    /\ mcycle' = mcycle + 1
    /\ tstate' = 1
    /\ Sample(int_n0)
    /\ UNCHANGED <<ir, intCycle, iff1, iff2, m1_n>>

\* The boundary at which the CPU looks at its sampled interrupt line.
Boundary == T_Res /\ mcycle = MCycles

Accepts == Boundary /\ iff1 = 1 /\ int_s = 1 /\ ir \notin {"ed", "ei"}

NextInstruction(int_n0) ==
    /\ Boundary /\ ~Accepts
    /\ mcycle' = 1 /\ tstate' = 1
    /\ m1_n' = 0
    /\ intCycle' = 0
    /\ Sample(int_n0)
    /\ UNCHANGED <<ir, iff1, iff2>>

AcceptInt(int_n0) ==
    /\ Accepts
    /\ mcycle' = 1 /\ tstate' = 1
    /\ m1_n' = 0
    /\ intCycle' = 1
    /\ iff1' = 0 /\ iff2' = 0
    /\ Sample(int_n0)
    /\ UNCHANGED ir

CpuEdge(int_n0, op) ==
    \/ LeaveReset(int_n0)
    \/ WaitState(int_n0)
    \/ FetchOpcode(int_n0, op)
    \/ NextTState(int_n0)
    \/ NextMCycle(int_n0)
    \/ NextInstruction(int_n0)
    \/ AcceptInt(int_n0)

\* RETI_n is registered on every edge of clk, with or without CLKEN.
RegisterReti == RETI_n' = IF I_RETN THEN 0 ELSE 1

\* RESET_n low sets the same values as power-up.
CpuReset ==
    /\ mcycle' = 1 /\ tstate' = 0
    /\ ir' = "nop"
    /\ intCycle' = 0
    /\ Auto_Wait_t1' = 0 /\ Auto_Wait_t2' = 0
    /\ iff1' = 0 /\ iff2' = 0
    /\ int_s' = 0
    /\ m1_n' = 1 /\ iorq_n' = 1 /\ RETI_n' = 1
=============================================================================
