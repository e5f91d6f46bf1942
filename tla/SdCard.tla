------------------------------- MODULE SdCard -------------------------------
(***************************************************************************)
(* An SD or MMC card in SPI mode, as sw/pff/mmcbbp.c takes it to be: it    *)
(* collects packets of six bytes and answers them after some bytes.  It is *)
(* not part of the repository.                                             *)
(***************************************************************************)
EXTENDS Integers, Sequences

CONSTANTS
    Kinds,                  \* cards that may be in the slot, "none" for no card
    SectorSize,             \* 512
    Sectors,
    Delays,                 \* bytes before a response, at most 8
    Rounds,                 \* initialisation rounds a card may need
    Latencies               \* bytes between the response and the data

CMD0 == 64
CMD1 == 65
CMD8 == 72
CMD16 == 80
CMD17 == 81
ACMD41 == 64 + 41
CMD55 == 64 + 55
CMD58 == 64 + 58

VARIABLE
    card                    \* see CardInit

\* waking: bytes clocked with the card not selected, at least 10 for the 74
\* clocks it wants; spiMode: it has seen CMD0; needs, rounds: rounds of
\* initialisation it needs and still needs;
\* sized: blocks have SectorSize; late: its data come after that many bytes.
CardInit ==
    card \in [kind : Kinds, waking : {0}, spiMode : {FALSE}, idle : {TRUE},
              app : {FALSE}, needs : {0}, rounds : {0}, sized : {FALSE},
              packet : {<<>>}, reply : {<<>>}, late : {0}, failed : {FALSE}]

Data(sector, i) == (16 * sector + i) % 256
Sector(sector) == [i \in 1 .. SectorSize |-> Data(sector, i - 1)]
Fill(n) == [i \in 1 .. n |-> 255]

Number(arg) == ((arg[1] * 256 + arg[2]) * 256 + arg[3]) * 256 + arg[4]

Is(kinds) == card.kind \in kinds
SdCards == {"SD1", "SD2", "SDHC"}

\* The card as it is after a packet, with the bytes it answers.
Answer(c, bytes) ==
    {[c EXCEPT !.packet = <<>>, !.reply = Fill(d) \o bytes] : d \in Delays}

Illegal == Answer([card EXCEPT !.app = FALSE], <<IF card.idle THEN 5 ELSE 4>>)
Accept(c) == Answer(c, <<IF c.idle THEN 1 ELSE 0>>)
Ignore == {[card EXCEPT !.packet = <<>>]}

GoIdle(crc) ==
    IF crc # 149 THEN Ignore
    ELSE UNION {Accept([card EXCEPT !.spiMode = TRUE, !.idle = TRUE, !.app = FALSE,
                                    !.sized = Is({"SD2", "SDHC"}), !.needs = r,
                                    !.rounds = r]) :
                r \in Rounds}

IfCond(arg, crc) ==
    IF ~Is({"SD2", "SDHC"}) \/ crc # 135 THEN Illegal
    ELSE Answer([card EXCEPT !.app = FALSE], <<1, 0, 0, arg[3], arg[4]>>)

\* A round of initialisation; a high capacity card wants to be told that the
\* host knows them.
OpCond(arg) ==
    Accept(IF card.rounds > 0 THEN [card EXCEPT !.app = FALSE, !.rounds = @ - 1]
           ELSE IF Is({"SDHC"}) /\ arg[1] # 64 THEN [card EXCEPT !.app = FALSE]
           ELSE [card EXCEPT !.app = FALSE, !.idle = FALSE])

Block(sector) ==
    UNION {Answer([card EXCEPT !.app = FALSE, !.late = n, !.failed = FALSE],
                  <<0>> \o Fill(n) \o <<254>> \o Sector(sector) \o <<170, 187>>)
           \cup Answer([card EXCEPT !.app = FALSE, !.late = n, !.failed = TRUE],
                  <<0>> \o Fill(n) \o <<8>>) : n \in Latencies}

ReadBlock(arg) ==
    IF card.idle \/ ~card.sized THEN Illegal
    ELSE LET unit == IF Is({"SDHC"}) THEN 1 ELSE SectorSize IN
         IF Number(arg) % unit = 0 /\ Number(arg) \div unit \in Sectors
         THEN Block(Number(arg) \div unit)
         ELSE Answer([card EXCEPT !.app = FALSE], <<32>>)

Execute(packet) ==
    LET arg == SubSeq(packet, 2, 5)
        command == packet[1]
    IN  IF command = CMD0 THEN GoIdle(packet[6])
        ELSE IF ~card.spiMode THEN Ignore
        ELSE IF command = CMD8 THEN IfCond(arg, packet[6])
        ELSE IF command = CMD55 /\ Is(SdCards) THEN Accept([card EXCEPT !.app = TRUE])
        ELSE IF command = ACMD41 /\ card.app THEN OpCond(arg)
        ELSE IF command = CMD1 /\ Is({"MMC"}) THEN OpCond(arg)
        ELSE IF command = CMD16 /\ ~card.idle
        THEN Accept([card EXCEPT !.app = FALSE, !.sized = Number(arg) = SectorSize])
        ELSE IF command = CMD58 /\ Is(SdCards)
        THEN Answer([card EXCEPT !.app = FALSE],
                    <<IF card.idle THEN 1 ELSE 0,
                      IF Is({"SDHC"}) THEN 192 ELSE 128, 255, 128, 0>>)
        ELSE IF command = CMD17 THEN ReadBlock(arg)
        ELSE Illegal

-----------------------------------------------------------------------------
\* The byte the card puts on the line, and what the byte it gets does.
MISO(cs) == IF cs = 1 \/ card.reply = <<>> THEN 255 ELSE Head(card.reply)

Takes(byte, cs) ==
    card' \in
        IF Is({"none"}) THEN {card}
        ELSE IF cs = 1
        THEN {[card EXCEPT !.waking = IF @ < 10 THEN @ + 1 ELSE @]}
        ELSE IF card.waking < 10 THEN {card}
        ELSE IF card.reply # <<>> THEN {[card EXCEPT !.reply = Tail(@)]}
        ELSE IF card.packet = <<>> /\ byte \notin 64 .. 127 THEN {card}
        ELSE IF Len(card.packet) < 5
        THEN {[card EXCEPT !.packet = Append(@, byte)]}
        ELSE Execute(Append(card.packet, byte))

\* A card that is not selected forgets what it was doing.
Selected(cs) ==
    card' = IF cs = 1 THEN [card EXCEPT !.packet = <<>>, !.reply = <<>>] ELSE card
=============================================================================
