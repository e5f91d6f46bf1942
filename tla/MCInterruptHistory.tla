------------------------- MODULE MCInterruptHistory -------------------------
(***************************************************************************)
(* KcInterrupt with history variables that remember what the registers     *)
(* forget: the pulses each source may still be granted for, whether the    *)
(* program is in a service, and what it has executed since the last one.   *)
(***************************************************************************)
EXTENDS KcInterrupt

VARIABLES
    credit,                 \* pulses less acknowledges of each source, at most 2
    serving,                \* the program is between an acknowledge and RETI
    executed                \* opcodes since the service's RETI, at most 2

history == <<credit, serving, executed>>

HInit ==
    /\ Init
    /\ credit = [i \in Ints |-> 0]
    /\ serving = FALSE
    /\ executed = 2

\* The program's view of an edge that ends an instruction.
Follow ==
    /\ credit' = [i \in Ints |->
           credit[i] + (IF i \in intPeriph' /\ credit[i] < 2 THEN 1 ELSE 0)
                     - (IF TakesInterrupt /\ i \in currentInt' THEN 1 ELSE 0)]
    /\ IF Boundary /\ m1_n = 1 /\ m1_n' = 0
       THEN /\ serving' = (intCycle' = 1 \/ (serving /\ ir # "reti"))
            /\ executed' = IF ir = "reti" /\ serving THEN 0
                           ELSE IF intCycle = 1 \/ executed = 2
                           THEN executed ELSE executed + 1
       ELSE UNCHANGED <<serving, executed>>

HReset ==
    /\ Reset
    /\ credit' = [i \in Ints |-> IF i \in intPeriph' THEN 1 ELSE 0]
    /\ serving' = FALSE
    /\ executed' = 2

HNext ==
    /\ Pulse
    /\ \/ HReset
       \/ (Pause \/ \E op \in Classes : Tick(op)) /\ Follow

HSpec == HInit /\ [][HNext]_<<vars, history>>

\* "no retriggering of ints after int acknowledge" (header of
\* simpleIntcontroller.vhd): one pulse is served at most once, however long
\* the acknowledge and the service last.
NoRetrigger == \A i \in Ints : credit[i] >= 0

\* Service routines are never nested, although they execute EI before RETI.
NoNesting == [][TakesInterrupt => ~serving]_<<vars, history>>

\* "allow int after 1 additional m1-cycle" (simpleIntcontroller.vhd): after a
\* RETI the interrupted program gets two opcodes, so at least one whole
\* instruction, before the next interrupt, however many requests are waiting.
ProgramAdvances == [][TakesInterrupt => executed' >= 2]_<<vars, history>>
=============================================================================
