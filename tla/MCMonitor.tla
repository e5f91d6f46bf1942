------------------------------ MODULE MCMonitor ------------------------------
(***************************************************************************)
(* The monitor and a host on its serial line, which sends Intel HEX records*)
(* and commands.  Records go out character after character without a pause,*)
(* as with "more monitor.ihx >COM1" in sw/Makefile; for the answer to a    *)
(* command the host waits.  Any line may break off.                        *)
(***************************************************************************)
EXTENDS Monitor

CONSTANTS
    Records,                \* addr, type, data
    Addresses,              \* of the command t
    TypedBytes              \* bytes entered without a record

\* A record has at most as many bytes as two digits count.
ASSUME HostAssumption ==
    /\ Records \subseteq [addr : 0 .. AddrRange - 1, type : 0 .. ByteRange - 1,
                          data : Seq(0 .. ByteRange - 1)]
    /\ \A r \in Records : Len(r.data) < ByteRange
    /\ Addresses \subseteq 0 .. AddrRange - 1
    /\ TypedBytes \subseteq 0 .. ByteRange - 1

VARIABLES
    sending,                \* what the host still has to send of its line
    kind,                   \* what the line is
    during,                 \* characters that arrived during a transmission
    expected, landed,       \* the bytes the line should store and has stored
    where,                  \* memPtr after the line
    whole,                  \* nothing of the line was lost
    aligned,                \* nor of any line since the last address
    overrun                 \* a character was lost in the receive buffer

host == <<sending, kind, during, expected, landed, where, whole, aligned, overrun>>
mVars == <<vars, host>>

Streamed == {"record", "address", "bytes"}
Commands == {"s", "p", "r", "g", "k", "m", "other"}

Digits(byte) == <<Digit(byte \div Base), Digit(byte % Base)>>
AddrDigits(addr) == Digits(addr \div ByteRange) \o Digits(addr % ByteRange)
LineEnd == <<Char("newline"), Char("newline")>>

\* The digits of bytes, and the bytes in memory.
Text(bytes) == [i \in 1 .. 2 * Len(bytes) |-> Digits(bytes[(i + 1) \div 2])[2 - (i % 2)]]
At(addr, bytes) ==
    [i \in DOMAIN bytes |-> Byte((addr + i - 1) % AddrRange, bytes[i])]

\* The last byte stands for the checksum.
RecordText(r) ==
    <<Char(":")>> \o Digits(Len(r.data)) \o AddrDigits(r.addr) \o Digits(r.type)
        \o Text(r.data) \o Digits(r.type) \o LineEnd

\* Data is loaded from records of type 0 only.
Loads(r) == IF r.type = 0 THEN r.data ELSE <<>>

-----------------------------------------------------------------------------
(***************************************************************************)
(* The host.                                                               *)
(***************************************************************************)

\* Everything the monitor was told is done.
Quiet == pc = "readchar" /\ rx = None /\ toWrite = 0 /\ txBusy = 0

\* After a command, and after the greeting, the host waits.
Line(text, what, bytes, at, step) ==
    /\ sending = <<>> /\ pc = "readchar"
    /\ kind \notin Streamed => Quiet
    /\ sending' = text /\ kind' = what
    /\ expected' = bytes /\ landed' = <<>>
    /\ where' = IF step THEN at % AddrRange ELSE 0
    /\ whole' = TRUE /\ aligned' = step
    /\ UNCHANGED <<vars, during, overrun>>

SendRecord ==
    \E r \in Records :
        Line(RecordText(r), "record", At(r.addr, Loads(r)), r.addr + Len(Loads(r)), aligned)

SendAddress ==
    \E addr \in Addresses :
        Line(<<Char("t")>> \o AddrDigits(addr) \o LineEnd, "address", <<>>, addr, TRUE)

SendBytes ==
    \E byte \in TypedBytes :
        Line(Digits(byte) \o LineEnd, "bytes", At(where, <<byte>>), where + 1, aligned)

SendCommand ==
    \E key \in Commands :
        Line(<<Char(key)>>, key, <<>>, where + (IF key = "s" THEN 1 ELSE 0),
             aligned /\ key # "m")

\* A line is never sent to its end, or a character of it is lost.
Break ==
    /\ kind \in Streamed /\ whole /\ Len(sending) > Len(LineEnd)
    /\ sending' \in {LineEnd, Tail(sending)}
    /\ whole' = FALSE /\ aligned' = FALSE
    /\ expected' = <<>> /\ landed' = <<>> /\ where' = 0
    /\ UNCHANGED <<vars, kind, during, overrun>>

\* A frame lasts as long in one direction as in the other, and the CPU is
\* much faster: the next character arrives when the CPU waits for a character
\* or for the transmitter, and at most one arrives during a transmission.
Arrive ==
    /\ sending # <<>>
    /\ \/ toWrite = 0 /\ rx = None
       \/ toWrite > 0 /\ txBusy = 1
    /\ txBusy = 1 => during = 0
    /\ during' = txBusy
    /\ rx' = Head(sending) /\ sending' = Tail(sending)
    /\ overrun' = (overrun \/ rx # None)
    /\ UNCHANGED <<pc, syscontrol, toWrite, txBusy, locals, stored, test,
                   kind, expected, landed, where, whole, aligned>>

-----------------------------------------------------------------------------
HInit ==
    /\ Init
    /\ sending = <<>> /\ kind = "none" /\ during = 0
    /\ expected = <<>> /\ landed = <<>> /\ where = 0
    /\ whole = TRUE /\ aligned = TRUE /\ overrun = FALSE

Cpu ==
    /\ main
    /\ landed' = IF whole /\ ~stored.done /\ stored'.done THEN Append(landed, stored')
                 ELSE landed
    /\ during' = IF txBusy = 0 THEN 0 ELSE during
    /\ UNCHANGED <<sending, kind, expected, where, whole, aligned, overrun>>

Transmitter == Sent /\ UNCHANGED host

Restart ==
    /\ Enter
    /\ where' = 0 /\ aligned' = TRUE
    /\ UNCHANGED <<sending, kind, during, expected, landed, whole, overrun>>

HNext ==
    \/ Cpu
    \/ Transmitter
    \/ Restart
    \/ SendRecord
    \/ SendAddress
    \/ SendBytes
    \/ SendCommand
    \/ Break
    \/ Arrive

\* The CPU and the transmitter go on; the host sends what and when it likes.
HSpec == HInit /\ [][HNext]_mVars /\ WF_mVars(Cpu) /\ WF_mVars(Transmitter)

-----------------------------------------------------------------------------
\* All digits of the line have been handled.
Finished == sending = <<>> /\ rx.key \in {"none", "newline"} /\ pc \notin {"write", "check"}

\* Records, bytes and commands may follow each other in any order: each record
\* stores exactly its data, at its addresses and in their order, a record that
\* is not data and a checksum store nothing, and what comes next, a program
\* started by r included, is at the address after it.  After a line that broke
\* off or lost a character, an address puts the monitor in step again.
RecordsLand == Finished /\ aligned => landed = expected /\ memPtr = where

\* The echoes never keep the monitor from reading a character before the next
\* one overwrites it, though there is no handshake and only one buffer.
KeepsUp == ~overrun

\* The memory test reports only cells that are faulty.
NoFalseAlarm ==
    report.done =>
        \/ fault.kind = "stuck" /\ report.at = fault.cell
        \/ fault.kind = "alias" /\ report.at \in {fault.cell, fault.as}

\* It finds every bit that is stuck, and every cell that is another one, unless
\* they are the first and the last: the sequence is one byte shorter than the
\* memory, so these two hold the same byte in every round.
FirstIsLast == fault.kind = "alias" /\ fault.cell = Cells - 1 /\ fault.as = 0
FaultsReported == (pc = "write" /\ fault # Sound /\ ~FirstIsLast) ~> report.done

\* ":" is "intel hex start" (monitor.c 139): a record that begins a line lands,
\* whatever the lines before it were.
RecordStarts == Finished /\ whole /\ kind = "record" => landed = expected

-----------------------------------------------------------------------------
\* Constants.
MCRecords ==
    {[addr |-> 6, type |-> 0, data |-> <<1, 2>>],
     [addr |-> 13, type |-> 0, data |-> <<3>>],
     [addr |-> 9, type |-> 1, data |-> <<>>],
     [addr |-> 9, type |-> 2, data |-> <<3>>]}

StuckBits == [kind : {"stuck"}, cell : 0 .. Cells - 1, bit : {1, 2}, level : {0, 1}, as : {0}]
Aliases ==
    {f \in [kind : {"alias"}, cell : 0 .. Cells - 1, bit : {1}, level : {0}, as : 0 .. Cells - 1] :
        f.as < f.cell}
MCFaults == {Sound} \cup StuckBits \cup Aliases
=============================================================================
