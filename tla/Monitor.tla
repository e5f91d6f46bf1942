------------------------------- MODULE Monitor -------------------------------
(***************************************************************************)
(* The serial monitor (sw/monitor.c): one action per case of main's switch,*)
(* and per kind of digit.  A character is handled when all characters the  *)
(* one before it has put are with the transmitter (putchar of uart.c waits *)
(* for it).  Numbers are written to the base Base: a byte has two digits,  *)
(* an address two bytes.                                                   *)
(***************************************************************************)
EXTENDS Integers, Sequences

CONSTANTS
    Base,                   \* 16
    CounterRange,           \* 256: n is a byte and wraps around
    Bits,                   \* 15: bits of the shift registers; 2^Bits cells are tested
    Seed,                   \* 1234
    HelloLength,            \* characters of the greeting
    Faults                  \* what may be wrong with the memory

ByteRange == Base * Base
AddrRange == ByteRange * ByteRange
Cells == 2 ^ Bits

ASSUME MonitorAssumption ==
    /\ Base \in Nat \ {0, 1} /\ CounterRange \in Nat /\ CounterRange > 5
    /\ Bits \in Nat /\ Cells \in 1 .. AddrRange
    /\ Seed \in 0 .. Cells - 2
    /\ HelloLength \in Nat

VARIABLES
    pc,                     \* "readchar", "write" or "check" of the memory test,
                            \* or what the monitor has started
    syscontrol,
    rx, toWrite, txBusy,    \* rxBuff, characters still to put, the transmitter
    memPtr, dataVal, n,     \* the locals of main
    monState, iState, ihexN,
    stored,                 \* the byte stored by the latest step
    lfsr1, lfsr2, cells,    \* memory test: lfsrState1 and 2, the memory
    fault, report           \* what is wrong with it, and the latest report

parser == <<n, monState, iState, ihexN>>
locals == <<memPtr, dataVal, parser>>
test == <<lfsr1, lfsr2, cells, fault, report>>
line == <<rx, toWrite, txBusy>>
vars == <<pc, syscontrol, line, locals, stored, test>>

SYSCONTROL_DEFAULT == 1 + 4
SYSCONTROL_TURBO == 1 + 2

None == [key |-> "none", value |-> 0]
Char(key) == [key |-> key, value |-> 0]
Digit(value) == [key |-> "digit", value |-> value]

Nothing == [at |-> 0, value |-> 0, done |-> FALSE]
Byte(at, value) == [at |-> at, value |-> value, done |-> TRUE]

-----------------------------------------------------------------------------
(***************************************************************************)
(* putchar and readchar.                                                   *)
(***************************************************************************)

putchar ==
    /\ toWrite > 0 /\ txBusy = 0
    /\ toWrite' = toWrite - 1 /\ txBusy' = 1
    /\ stored' = Nothing
    /\ UNCHANGED <<pc, syscontrol, rx, locals, test>>

Sent ==
    /\ txBusy = 1 /\ txBusy' = 0
    /\ UNCHANGED <<pc, syscontrol, rx, toWrite, locals, stored, test>>

\* readchar has a character, and its handling puts so many.
readchar(key, puts) ==
    /\ pc = "readchar" /\ toWrite = 0
    /\ rx.key = key /\ rx' = None
    /\ toWrite' = puts
    /\ UNCHANGED txBusy

Stays == stored' = Nothing /\ UNCHANGED <<pc, syscontrol, test>>

\* Characters of printHex and printAddr.
HexLength == 2
AddrLength == 1 + 2 * HexLength + 1

-----------------------------------------------------------------------------
(***************************************************************************)
(* Commands.                                                               *)
(***************************************************************************)

SetAddress ==
    /\ readchar("t", 0) /\ Stays
    /\ monState' = "addr" /\ n' = 1
    /\ UNCHANGED <<memPtr, dataVal, iState, ihexN>>

ShowByte ==
    /\ readchar("s", HexLength) /\ Stays
    /\ memPtr' = (memPtr + 1) % AddrRange
    /\ UNCHANGED <<dataVal, parser>>

ShowAddress ==
    /\ readchar("p", AddrLength) /\ Stays
    /\ UNCHANGED locals

\* A slip: the states are left as they are.
LineGoesOn ==
    /\ readchar("newline", 1) /\ Stays
    /\ UNCHANGED locals

\* n is not reset.
Newline ==
    /\ readchar("newline", 1) /\ Stays
    /\ iState' = "none" /\ monState' = "none" /\ ihexN' = 0
    /\ UNCHANGED <<memPtr, dataVal, n>>

Colon ==
    /\ readchar(":", 0) /\ Stays
    /\ iState' = "ihexCount"
    /\ UNCHANGED <<memPtr, dataVal, n, monState, ihexN>>

\* Characters that decodeChar does not know.
Other ==
    /\ readchar("other", 0) /\ Stays
    /\ UNCHANGED locals

\* The commands that give the machine away: r to the address set, g to the
\* operating system, k to BASIC.
Leave(key, entry) ==
    /\ readchar(key, 0)
    /\ pc' = entry /\ syscontrol' = SYSCONTROL_DEFAULT
    /\ stored' = Nothing
    /\ UNCHANGED <<locals, test>>

\* The command MON of the operating system: main starts anew.
Enter ==
    /\ pc \in {"program", "F089", "C854"}
    /\ pc' = "readchar" /\ syscontrol' = SYSCONTROL_TURBO
    /\ toWrite' = HelloLength
    /\ memPtr' = 0 /\ dataVal' = 0 /\ n' = 1
    /\ monState' = "none" /\ iState' = "none" /\ ihexN' = 0
    /\ stored' = Nothing
    /\ UNCHANGED <<rx, txBusy, test>>

-----------------------------------------------------------------------------
(***************************************************************************)
(* Digits.                                                                 *)
(***************************************************************************)

Value == (dataVal * Base + rx.value) % ByteRange
NextN == (n + 1) % CounterRange

\* A digit that completes nothing.
FirstDigit ==
    /\ readchar("digit", 0) /\ Stays
    /\ IF monState = "addr" THEN n \notin {2, 4} ELSE n # 2
    /\ dataVal' = Value /\ n' = NextN
    /\ UNCHANGED <<memPtr, monState, iState, ihexN>>

AddressHigh ==
    /\ readchar("digit", 0) /\ Stays
    /\ monState = "addr" /\ n = 2
    /\ dataVal' = Value /\ n' = NextN
    /\ memPtr' = Value * ByteRange
    /\ UNCHANGED <<monState, iState, ihexN>>

SetAddressLow(puts) ==
    /\ readchar("digit", puts) /\ Stays
    /\ monState = "addr" /\ n = 4
    /\ dataVal' = Value /\ n' = 1
    /\ memPtr' = (memPtr + Value) % AddrRange
    /\ monState' = "none"
    /\ iState' = IF iState = "ihexAddr" THEN "ihexType" ELSE iState
    /\ UNCHANGED ihexN

\* A slip: the address is printed, as in the line commented out.
AddressPrinted == SetAddressLow(AddrLength)

AddressLow == SetAddressLow(1)

\* The second digit of a byte outside of an address.
SecondDigit(puts) ==
    /\ readchar("digit", puts)
    /\ UNCHANGED <<pc, syscontrol, test>>
    /\ monState # "addr" /\ n = 2
    /\ dataVal' = Value /\ n' = 1

Count ==
    /\ SecondDigit(1)
    /\ iState = "ihexCount"
    /\ ihexN' = Value /\ monState' = "addr" /\ iState' = "ihexAddr"
    /\ stored' = Nothing
    /\ UNCHANGED memPtr

Type ==
    /\ SecondDigit(0)
    /\ iState = "ihexType"
    /\ iState' = IF Value > 0 THEN "ihexSkip" ELSE "ihexData"
    /\ stored' = Nothing
    /\ UNCHANGED <<memPtr, monState, ihexN>>

\* A byte of a record that is not data, or the checksum, which nobody checks.
NotData ==
    /\ SecondDigit(1)
    /\ iState = "ihexSkip" \/ (iState = "ihexData" /\ ihexN = 0)
    /\ stored' = Nothing
    /\ UNCHANGED <<memPtr, monState, iState, ihexN>>

Store ==
    /\ memPtr' = (memPtr + 1) % AddrRange
    /\ stored' = Byte(memPtr, Value)
    /\ UNCHANGED <<monState, iState>>

Data ==
    /\ SecondDigit(1) /\ Store
    /\ iState = "ihexData" /\ ihexN > 0
    /\ ihexN' = ihexN - 1

\* Bytes typed without a record.
Typed ==
    /\ SecondDigit(1) /\ Store
    /\ iState \in {"none", "ihexAddr"}
    /\ UNCHANGED ihexN

-----------------------------------------------------------------------------
(***************************************************************************)
(* The memory test.  It runs until the machine is reset, so what main keeps*)
(* in its other variables no longer matters.                               *)
(***************************************************************************)

lfsr15(num) ==
    num \div 2 + IF num % 4 \in {0, 3} THEN 2 ^ (Bits - 1) ELSE 0

Low(num) == num % ByteRange

\* Address, space, byte, space, byte, newline; two bytes and " Ok\n".
ReportLength == AddrLength + 1 + HexLength + 1 + HexLength + 1
RoundLength == 2 * HexLength + 4

Sound == [kind |-> "none", cell |-> 0, bit |-> 1, level |-> 0, as |-> 0]

\* A memory is sound, has a bit that is stuck, or a cell that is another one.
Reached(addr) == IF fault.kind = "alias" /\ fault.cell = addr THEN fault.as ELSE addr

Kept(addr, byte) ==
    IF fault.kind = "stuck" /\ fault.cell = addr
    THEN byte + (fault.level - ((byte \div fault.bit) % 2)) * fault.bit
    ELSE byte

StartTest ==
    /\ readchar("m", 0)
    /\ pc' = "write" /\ memPtr' = 0
    /\ fault' \in Faults
    /\ dataVal' = 0 /\ n' = 1 /\ monState' = "none" /\ iState' = "none" /\ ihexN' = 0
    /\ stored' = Nothing
    /\ UNCHANGED <<syscontrol, lfsr1, lfsr2, cells, report>>

Testing(phase) ==
    /\ pc = phase /\ toWrite = 0
    /\ stored' = Nothing
    /\ UNCHANGED <<syscontrol, rx, txBusy, dataVal, parser, fault>>

WriteCell ==
    /\ Testing("write") /\ memPtr < Cells
    /\ lfsr1' = lfsr15(lfsr1)
    /\ cells' = [cells EXCEPT ![Reached(memPtr)] = Kept(Reached(memPtr), Low(lfsr1'))]
    /\ memPtr' = memPtr + 1
    /\ UNCHANGED <<pc, toWrite, lfsr2, report>>

Written ==
    /\ Testing("write") /\ memPtr = Cells
    /\ pc' = "check" /\ memPtr' = 0
    /\ UNCHANGED <<toWrite, lfsr1, lfsr2, cells, report>>

CheckCell ==
    /\ Testing("check") /\ memPtr < Cells
    /\ lfsr2' = lfsr15(lfsr2)
    /\ IF cells[Reached(memPtr)] # Low(lfsr2')
       THEN report' = Byte(memPtr, cells[Reached(memPtr)]) /\ toWrite' = ReportLength
       ELSE UNCHANGED <<report, toWrite>>
    /\ memPtr' = memPtr + 1
    /\ UNCHANGED <<pc, lfsr1, cells>>

\* A slip: every round begins with the same state.
SameRound ==
    /\ Testing("check") /\ memPtr = Cells
    /\ pc' = "write" /\ memPtr' = 0
    /\ lfsr1' = Seed /\ lfsr2' = Seed
    /\ toWrite' = RoundLength
    /\ UNCHANGED <<cells, report>>

\* A slip: the states of the writer and of the reader part.
WriterRestarts ==
    /\ Testing("check") /\ memPtr = Cells
    /\ pc' = "write" /\ memPtr' = 0
    /\ lfsr1' = Seed
    /\ toWrite' = RoundLength
    /\ UNCHANGED <<lfsr2, cells, report>>

\* The number of the round and Ok, whatever was reported.  Both states go on.
NextRound ==
    /\ Testing("check") /\ memPtr = Cells
    /\ pc' = "write" /\ memPtr' = 0
    /\ toWrite' = RoundLength
    /\ UNCHANGED <<lfsr1, lfsr2, cells, report>>

-----------------------------------------------------------------------------
Init ==
    /\ pc = "readchar" /\ syscontrol = SYSCONTROL_TURBO
    /\ rx = None /\ toWrite = HelloLength /\ txBusy = 0
    /\ memPtr = 0 /\ dataVal = 0 /\ n = 1
    /\ monState = "none" /\ iState = "none" /\ ihexN = 0
    /\ stored = Nothing
    /\ lfsr1 = Seed /\ lfsr2 = Seed /\ cells = [addr \in 0 .. Cells - 1 |-> 0]
    /\ fault = Sound /\ report = Nothing

Command ==
    \/ SetAddress
    \/ ShowByte
    \/ ShowAddress
    \/ Newline
    \/ Colon
    \/ Other
    \/ Leave("r", "program")
    \/ Leave("g", "F089")
    \/ Leave("k", "C854")
    \/ StartTest

DigitRead ==
    \/ FirstDigit
    \/ AddressHigh
    \/ AddressLow
    \/ Count
    \/ Type
    \/ NotData
    \/ Data
    \/ Typed

MemTest == WriteCell \/ Written \/ CheckCell \/ NextRound

\* What the CPU does in the monitor.
main == putchar \/ Command \/ DigitRead \/ MemTest
=============================================================================
