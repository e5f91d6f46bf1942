------------------------- MODULE MCInterruptProgram -------------------------
(***************************************************************************)
(* KcInterrupt running a program shaped like sim/test/asm/ctc_test.asm: it *)
(* enables interrupts once, then loops; every interrupt runs a service     *)
(* routine that ends with EI and RETI.  Without resets, under the fairness *)
(* of a running clock, requests are eventually served.                     *)
(***************************************************************************)
EXTENDS KcInterrupt, Sequences

CONSTANT Bursts             \* how often a source other than 0 may pulse

ServiceRoutine == <<"nop", "io", "ei", "ed", "reti">>

MainLoop == {"nop", "io"}

VARIABLES
    todo,                   \* the opcodes the program has still to fetch
    left                    \* pulses the other sources may still give

pVars == <<vars, todo, left>>

PInit ==
    /\ Init
    /\ todo = <<"ei">>
    /\ left = [i \in Ints \ {0} |-> Bursts]

\* The opcode at the program counter; the main loop never ends.
AtPc(op) == IF todo = <<>> THEN op \in MainLoop ELSE op = Head(todo)

Fetches == mcycle = 1 /\ tstate = 2

\* An interrupt calls the service routine; the return finds the rest.
Jump ==
    todo' = IF Fetches /\ intCycle = 0 /\ todo # <<>> THEN Tail(todo)
            ELSE IF TakesInterrupt THEN ServiceRoutine \o todo
            ELSE todo

\* Source 0 pulses whenever it likes, each of the others a few times.
PPulse ==
    /\ Pulse
    /\ \A i \in intPeriph' \ {0} : left[i] > 0
    /\ left' = [i \in Ints \ {0} |-> left[i] - IF i \in intPeriph' THEN 1 ELSE 0]

PTick ==
    \E op \in Classes :
        /\ Fetches /\ intCycle = 0 => AtPc(op)
        /\ Tick(op)
        /\ PPulse
        /\ Jump

PPause == Pause /\ PPulse /\ UNCHANGED todo

PNext == PTick \/ PPause

\* clk never stops and CLKEN comes again: kcSysClk is a free-running divider.
PSpec == PInit /\ [][PNext]_pVars /\ WF_pVars(PTick)

\* A source is served once no higher one keeps asking; source 0 therefore
\* always.  The handshake of simpleIntcontroller.vhd with M1 and RETI never
\* gets stuck, however requests fall into a service.
RequestServed ==
    \A i \in Ints :
        <>[](\A j \in intInternal : i <= j)
            => (i \in intInternal ~> AckWindow /\ currentInt = {i})

\* Interrupts cannot keep the main loop from advancing.
MainAdvances == []<>(todo = <<>> /\ Boundary /\ intCycle = 0 /\ ir \in MainLoop)
=============================================================================
