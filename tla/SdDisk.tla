-------------------------------- MODULE SdDisk --------------------------------
(***************************************************************************)
(* The SD card driver (sw/pff/mmcbbp.c on sw/pff/hardware.c), the SPI      *)
(* master and a card.  The driver is a program of accesses to the SPI      *)
(* registers, the script; where a routine decides by what it has received, *)
(* a new script begins.  Exchanges of bytes end when they like, so a write *)
(* falls before or after the end of the exchange that is under way.        *)
(***************************************************************************)
EXTENDS Spi, SdCard

CONSTANTS
    Attempts,               \* 10: bytes a response is waited for
    DummyBytes,             \* 10: bytes clocked before the first command
    Tries,                  \* 10000: rounds of initialisation
    TokenTries,             \* 40000: bytes the data are waited for
    MaxResets               \* bound: resets in a behaviour

ASSUME SdDiskAssumption ==
    /\ \A n \in {Attempts, DummyBytes, Tries, TokenTries, SectorSize} :
           n \in Nat \ {0}
    /\ Sectors \cup Rounds \cup Latencies \cup {MaxResets} \subseteq Nat
    /\ Kinds \subseteq SdCards \cup {"MMC", "none"}
    \* Sizes and addresses fit into the four bytes of an argument; all cards but
    \* those of high capacity count bytes.
    /\ \A n \in {SectorSize} \cup Sectors : n \div 16777216 < 256
    /\ Kinds \subseteq {"SDHC", "none"}
       \/ \A s \in Sectors : (s * SectorSize) \div 16777216 < 256

\* A card wants ten bytes of clocks before its first command and answers within
\* eight bytes; of the attempts at a response the first may be lost.
ASSUME WaitsAssumption ==
    /\ DummyBytes >= 10
    /\ Delays \subseteq 0 .. Attempts - 2

VARIABLES
    pc,                     \* where the driver goes on after the script
    script,                 \* register accesses still to make
    cmd,                    \* send_cmd's parameters and attempts left
    res,                    \* the byte received last
    got,                    \* bytes received into ocr or buff
    tmr,                    \* tmr in disk_initialize, bc in disk_readp
    CardType,
    request,                \* disk_readp's parameters
    status,                 \* what the last call returned
    resets                  \* resets so far

drv == <<pc, script, cmd, res, got, tmr, CardType, request, status, resets>>
vars == <<spi, card, drv>>

-----------------------------------------------------------------------------
\* hardware.c: accesses made at once, or when spi_busy reads zero.
AtOnce(op, arg) == <<[op |-> op, arg |-> arg, wait |-> FALSE]>>
Wait(op, arg) == <<[op |-> op, arg |-> arg, wait |-> TRUE]>>

\* rcv_spi does not wait before it writes.  Its value is used, kept in ocr or
\* buff, or dropped.
rcv_spi(use) == AtOnce("write", 255) \o Wait(use, 0)
xmit_spi(byte) == Wait("write", byte)

deselect == Wait("cs", 1) \o rcv_spi("drop")
select == Wait("cs", 0)

Times(n, piece) ==
    [i \in 1 .. n * Len(piece) |-> piece[((i - 1) % Len(piece)) + 1]]

-----------------------------------------------------------------------------
Crc(command) == IF command = CMD0 THEN 149 ELSE IF command = CMD8 THEN 135 ELSE 1

\* The packet of one command, and the first attempt at its response.
PacketScript(command, arg) ==
    select \o xmit_spi(command) \o xmit_spi(arg[1]) \o xmit_spi(arg[2])
    \o xmit_spi(arg[3]) \o xmit_spi(arg[4]) \o xmit_spi(Crc(command)) \o rcv_spi("use")

Packet(command, arg) == script' = PacketScript(command, arg) /\ pc' = "response"

NoArg == <<0, 0, 0, 0>>

\* The argument, highest byte first.
Arg(n) == <<(n \div 16777216) % 256, (n \div 65536) % 256, (n \div 256) % 256, n % 256>>

\* ACMD<n> is CMD55 and then the command.
send_cmd(command, app, arg, deselct, caller) ==
    /\ cmd' = [command |-> command, app |-> app, arg |-> arg,
               deselct |-> deselct, caller |-> caller, n |-> Attempts]
    /\ IF app THEN Packet(CMD55, NoArg) ELSE Packet(command, arg)

\* What follows a response, or the last attempt at it.
Answered ==
    /\ script' = IF cmd.deselct THEN deselect \o select ELSE <<>>
    /\ pc' = IF cmd.app THEN "app" ELSE cmd.caller
    /\ cmd' = cmd

\* A slip: one attempt less.
OneAttemptLess ==
    /\ pc = "response"
    /\ IF res >= 128 /\ cmd.n > 2
       THEN /\ cmd' = [cmd EXCEPT !.n = @ - 1]
            /\ script' = rcv_spi("use") /\ pc' = pc
       ELSE Answered
    /\ UNCHANGED <<got, tmr, CardType, status, request>>

\* A slip: the attempts are not counted.
AttemptsNotCounted ==
    /\ pc = "response"
    /\ IF res >= 128 /\ cmd.n > 1
       THEN script' = rcv_spi("use") /\ UNCHANGED <<pc, cmd>>
       ELSE Answered
    /\ UNCHANGED <<got, tmr, CardType, status, request>>

Response ==
    /\ pc = "response"
    /\ IF res >= 128 /\ cmd.n > 1
       THEN /\ cmd' = [cmd EXCEPT !.n = @ - 1]
            /\ script' = rcv_spi("use") /\ pc' = pc
       ELSE Answered
    /\ UNCHANGED <<got, tmr, CardType, status, request>>

\* After CMD55.
App ==
    /\ pc = "app"
    /\ IF res > 1 THEN pc' = cmd.caller /\ UNCHANGED <<cmd, script>>
       ELSE send_cmd(cmd.command, FALSE, cmd.arg, cmd.deselct, cmd.caller)
    /\ UNCHANGED <<got, tmr, CardType, status, request>>

-----------------------------------------------------------------------------
\* disk_initialize: the state after each call is named for what it asked.
\* A slip: the bit that says the host knows high capacity cards is missing.
NoCapacityBit == NoArg

InitArg == <<64, 0, 0, 0>>                   \* 1UL << 30
LengthArg == Arg(SectorSize)

Begin ==
    /\ pc = "reset"
    /\ script' = Times(DummyBytes, deselect) /\ pc' = "dummies"
    /\ UNCHANGED <<cmd, got, tmr, CardType, status, request>>

\* ty is kept in CardType; the code assigns it at the end.
Finish(ty) ==
    /\ CardType' = ty
    /\ script' = deselect /\ pc' = "initialized"
    /\ UNCHANGED <<cmd, got, tmr>>

GoToIdle == pc = "dummies" /\ send_cmd(CMD0, FALSE, NoArg, TRUE, "idle")
            /\ UNCHANGED <<got, tmr, CardType>>

Idled ==
    /\ pc = "idle"
    /\ IF res # 1 THEN Finish("none")
       ELSE /\ script' = deselect \o select /\ pc' = "selected"
            /\ UNCHANGED <<cmd, got, tmr, CardType>>

AskIf == pc = "selected" /\ send_cmd(CMD8, FALSE, <<0, 0, 1, 170>>, FALSE, "if")
         /\ UNCHANGED <<got, tmr, CardType>>

If ==
    /\ pc = "if"
    /\ IF res = 1
       THEN /\ script' = Times(4, rcv_spi("keep")) \o deselect \o select
            /\ got' = <<>> /\ pc' = "range" /\ UNCHANGED cmd
       ELSE send_cmd(ACMD41, TRUE, NoArg, TRUE, "type") /\ UNCHANGED got
    /\ UNCHANGED <<tmr, CardType>>

InRange ==
    /\ pc = "range"
    /\ IF got[3] = 1 /\ got[4] = 170
       THEN /\ tmr' = Tries /\ send_cmd(ACMD41, TRUE, InitArg, TRUE, "leave2")
            /\ UNCHANGED <<got, CardType>>
       ELSE Finish("none")

\* A round of the loops that wait for the end of the idle state: one more,
\* given up, or the card is ready.
Leave(label, again, ready) ==
    /\ pc = label
    /\ IF res # 0
       THEN IF tmr > 1 THEN tmr' = tmr - 1 /\ again /\ UNCHANGED <<got, CardType>>
            ELSE Finish("none")
       ELSE ready /\ UNCHANGED <<got, tmr, CardType>>

Leave2 == Leave("leave2", send_cmd(ACMD41, TRUE, InitArg, TRUE, "leave2"),
                send_cmd(CMD58, FALSE, NoArg, FALSE, "ocr"))

Ocr ==
    /\ pc = "ocr"
    /\ IF res # 0 THEN Finish("none")
       ELSE /\ script' = Times(4, rcv_spi("keep")) /\ got' = <<>> /\ pc' = "ccs"
            /\ UNCHANGED <<cmd, tmr, CardType>>

Ccs == pc = "ccs" /\ Finish(IF (got[1] \div 64) % 2 = 1 THEN "SDHC" ELSE "SD2")

Type ==
    /\ pc = "type"
    /\ tmr' = Tries /\ UNCHANGED got
    /\ IF res <= 1
       THEN CardType' = "SD1" /\ send_cmd(ACMD41, TRUE, NoArg, TRUE, "leave1")
       ELSE CardType' = "MMC" /\ send_cmd(CMD1, FALSE, NoArg, TRUE, "leave1")

Leave1 == Leave("leave1",
                send_cmd(cmd.command, CardType = "SD1", NoArg, TRUE, "leave1"),
                send_cmd(CMD16, FALSE, LengthArg, TRUE, "length"))

Length == pc = "length" /\ Finish(IF res # 0 THEN "none" ELSE CardType)

Initialized ==
    /\ pc = "initialized"
    /\ status' = IF CardType = "none" THEN "noinit" ELSE "ok"
    /\ pc' = IF CardType = "none" THEN "failed" ELSE "ready"
    /\ UNCHANGED <<cmd, script, got, tmr, CardType, request>>

disk_initialize ==
    \/ Begin
    \/ /\ \/ GoToIdle \/ Idled \/ AskIf \/ If \/ InRange \/ Leave2 \/ Ocr \/ Ccs
          \/ Type \/ Leave1 \/ Length
       /\ UNCHANGED <<status, request>>
    \/ Initialized

-----------------------------------------------------------------------------
\* disk_readp.
Requests ==
    {r \in [sector : Sectors, offset : 0 .. SectorSize - 1, count : 1 .. SectorSize] :
        r.offset + r.count <= SectorSize}

\* A slip: every card gets the address of a byte.
ByteAddress(sector) == Arg(sector * SectorSize)

Address(sector) == Arg(IF CardType = "SDHC" THEN sector ELSE sector * SectorSize)

Call ==
    /\ pc = "ready"
    /\ \E r \in Requests :
           /\ request' = r
           /\ send_cmd(CMD17, FALSE, Address(r.sector), FALSE, "read")
    /\ status' = "running" /\ got' = <<>>
    /\ UNCHANGED <<tmr, CardType>>

Read ==
    /\ pc = "read"
    /\ IF res = 0 THEN tmr' = TokenTries /\ script' = rcv_spi("use") /\ pc' = "token"
       ELSE script' = deselect /\ pc' = "close" /\ UNCHANGED tmr
    /\ UNCHANGED <<cmd, got, CardType, status, request>>

\* A slip: the two bytes of the CRC are not counted.
SkipsNoCrc(offset, count) == SectorSize + 1 - offset - count

Trailing(offset, count) == SectorSize + 2 - offset - count

\* The bytes of a block and its CRC.
Copy(offset, count) ==
    Times(offset, rcv_spi("drop")) \o Times(count, rcv_spi("keep"))
    \o Times(Trailing(offset, count), rcv_spi("drop"))

Token ==
    /\ pc = "token"
    /\ IF res = 255 /\ tmr > 1
       THEN tmr' = tmr - 1 /\ script' = rcv_spi("use") /\ UNCHANGED <<pc, got>>
       ELSE /\ pc' = IF res = 254 THEN "copied" ELSE "close"
            /\ script' = IF res = 254 THEN Copy(request.offset, request.count)
                         ELSE deselect
            /\ got' = IF res = 254 THEN <<>> ELSE got
            /\ UNCHANGED tmr
    /\ UNCHANGED <<cmd, CardType, status, request>>

Copied ==
    /\ pc = "copied" /\ pc' = "close" /\ script' = deselect
    /\ status' = "ok"
    /\ UNCHANGED <<cmd, got, tmr, CardType, request>>

Close ==
    /\ pc = "close" /\ pc' = "ready"
    /\ status' = IF status = "ok" THEN "ok" ELSE "error"
    /\ UNCHANGED <<cmd, script, got, tmr, CardType, request>>

disk_readp == Call \/ Read \/ Token \/ Copied \/ Close

-----------------------------------------------------------------------------
\* The next access of the script.
Access ==
    /\ script # <<>> /\ script' = Tail(script)
    /\ LET a == Head(script) IN
       /\ a.wait => ~spi.busy
       /\ \/ a.op = "cs" /\ WriteCs(a.arg) /\ Selected(a.arg) /\ UNCHANGED <<res, got>>
          \/ a.op = "write" /\ WriteData(a.arg) /\ UNCHANGED <<card, res, got>>
          \/ a.op = "use" /\ res' = spi.data /\ UNCHANGED <<spi, card, got>>
          \/ a.op = "keep" /\ got' = Append(got, spi.data) /\ UNCHANGED <<spi, card, res>>
          \/ a.op = "drop" /\ UNCHANGED <<spi, card, res, got>>
    /\ UNCHANGED <<pc, cmd, tmr, CardType, request, status, resets>>

Decide ==
    /\ script = <<>>
    /\ Response \/ App \/ disk_initialize \/ disk_readp
    /\ UNCHANGED <<spi, card, res, resets>>

Driver == Access \/ Decide

\* A byte is over: the card has taken spi.out and given its own.
Byte ==
    /\ Exchange(MISO(spi.cs))
    /\ Takes(spi.out, spi.cs)
    /\ UNCHANGED drv

NoCmd == [command |-> CMD0, app |-> FALSE, arg |-> NoArg, deselct |-> TRUE,
          caller |-> "idle", n |-> Attempts]
NoRequest == [sector |-> 0, offset |-> 0, count |-> 1]

\* The reset button: the CPU starts again; spi.vhd has no reset, and the card
\* does not notice.  (RAM keeps its contents, but the program starts with
\* writing what it reads.)
Reset ==
    /\ resets < MaxResets /\ resets' = resets + 1
    /\ UNCHANGED <<spi, card>>
    /\ pc' = "reset" /\ script' = <<>> /\ status' = "running"
    /\ cmd' = NoCmd /\ request' = NoRequest
    /\ got' = <<>> /\ res' = 255 /\ tmr' = 0 /\ CardType' = "none"

Init ==
    /\ SpiInit /\ CardInit
    /\ pc = "reset" /\ script = <<>> /\ status = "running"
    /\ cmd = NoCmd /\ request = NoRequest
    /\ got = <<>> /\ res = 255 /\ tmr = 0 /\ CardType = "none"
    /\ resets = 0

Next == Driver \/ Byte \/ Reset

\* The CPU runs, and an exchange takes a fixed time.
Spec == Init /\ [][Next]_vars /\ WF_vars(Driver) /\ WF_vars(Byte)

-----------------------------------------------------------------------------
Ops == {"cs", "write", "use", "keep", "drop"}

TypeOK ==
    /\ spi.busy \in BOOLEAN /\ spi.cs \in {0, 1}
    /\ spi.out \in 0 .. 255 /\ spi.data \in 0 .. 255 \cup {Moving}
    /\ card.waking \in 0 .. 10 /\ Len(card.packet) < 6
    /\ \A i \in DOMAIN script : script[i].op \in Ops
    /\ cmd.n \in 1 .. Attempts /\ tmr \in 0 .. Tries + TokenTries
    /\ res \in 0 .. 255 /\ \A i \in DOMAIN got : got[i] \in 0 .. 255
    /\ CardType \in SdCards \cup {"MMC", "none"}

\* disk_initialize finds out what the card is, whatever a reset left in the
\* SPI master and the card, and leaves it ready for reads of SectorSize bytes;
\* it gives up only without a card or with one that is still busy.
CardRecognised ==
    /\ pc = "ready" => CardType = card.kind /\ ~card.idle /\ card.sized
    /\ pc = "failed" => card.kind = "none" \/ card.needs >= Tries

\* disk_readp that returns ok has put exactly the bytes asked for into the
\* buffer.
ReadsWhatWasAsked ==
    pc = "close" /\ status = "ok" =>
        got = SubSeq(Sector(request.sector), request.offset + 1,
                     request.offset + request.count)

\* It fails only if the card is late with its data or reports an error: a
\* card that answers within eight bytes is always heard, although the first
\* byte after a packet may not be clocked at all.
FailsForReason ==
    status = "error" => card.failed \/ card.late >= TokenTries

\* When a read has ended the card has nothing more to say, so the next packet
\* is understood.
LeavesNothing ==
    [][spi.cs = 0 /\ spi'.cs = 1 /\ status = "ok"
        => card.reply = <<>> /\ card.packet = <<>>]_vars

\* A call ends, whatever the card does or leaves undone.
Returns == pc \notin {"ready", "failed"} ~> pc \in {"ready", "failed"}
=============================================================================
