----------------------------- MODULE SdDiskProofs -----------------------------
(***************************************************************************)
(* Theorems about the SD card driver: for every kind of card, size and     *)
(* number of sectors, and whenever the card answers within its time.       *)
(*                                                                         *)
(* The inductive invariant relates what is left of the script to what is   *)
(* left of the card's reply.  Between them is the SPI master: an access    *)
(* that writes a byte leaves it busy, and the byte may be over at any time *)
(* before the next access that waits.                                      *)
(***************************************************************************)
EXTENDS SdDisk, SequenceTheorems, TLAPS

Char == 0 .. 255
Uses == {"use", "keep", "drop"}

\* The accesses of hardware.c: what has been received is never read early.
Accesses ==
    {a \in [op : Ops, arg : Char, wait : BOOLEAN] :
        (a.op = "cs" => a.arg \in {0, 1}) /\ (a.op \in Uses => a.wait)}

\* The card, in whatever state it is.
Cards ==
    {c \in [kind : Kinds, waking : 0 .. 10, spiMode : BOOLEAN, idle : BOOLEAN,
            app : BOOLEAN, needs : Nat, rounds : Nat, sized : BOOLEAN,
            packet : Seq(Char), reply : Seq(Char), late : Nat, failed : BOOLEAN] :
        Len(c.packet) < 6}

SpiOK ==
    /\ spi \in [busy : BOOLEAN, out : Char, data : Char \cup {Moving}, cs : {0, 1}]
    /\ ~spi.busy => spi.data \in Char

Free == ~spi.busy
Silent == card.packet = <<>> /\ card.reply = <<>>

\* A card that is not selected has nothing begun.
Deselected == spi.cs = 1 => Silent

\* k accesses of the script f have been made.
Rest(f, k) == script = SubSeq(f, k + 1, Len(f))

-----------------------------------------------------------------------------
(***************************************************************************)
(* What is known of the card before and after it has executed the command  *)
(* that is on its way, and what it answers then.                           *)
(***************************************************************************)

NoCard == card.kind = "none"
Version2 == Is({"SD2", "SDHC"})
Awake == ~NoCard /\ card.waking = 10 /\ card.spiMode

\* Just idle, with the rounds it needs before it.
Fresh == Awake /\ card.idle /\ (card.sized <=> Version2) /\ card.rounds = card.needs

\* Rounds that are over, at most as many as the card needs.
Waited(rounds) == card.needs >= card.rounds + rounds
Waiting(over) == tmr \in 1 .. Tries /\ Waited(Tries - tmr + over)

\* The driver knows the card, which is ready to be read from.
Known == Awake /\ ~card.idle /\ card.sized /\ CardType = card.kind

Callers == {"idle", "if", "type", "leave2", "ocr", "leave1", "length", "read"}

Before ==
    /\ cmd.caller = "idle" => NoCard \/ card.waking = 10
    /\ cmd.caller \in {"if", "type"} => Fresh
    /\ cmd.caller = "type" => ~Version2
    /\ cmd.caller = "leave2" => Awake /\ Version2 /\ card.sized /\ Waiting(0)
    /\ cmd.caller = "ocr" => Awake /\ Version2 /\ card.sized /\ ~card.idle
    /\ cmd.caller = "leave1" => Awake /\ ~Version2 /\ CardType = card.kind /\ Waiting(0)
    /\ cmd.caller = "length" => Awake /\ ~Version2 /\ CardType = card.kind /\ ~card.idle
    /\ cmd.caller = "read" => Known
    /\ cmd.command = ACMD41 /\ ~cmd.app => Is(SdCards) /\ card.app

\* Before the card has been told ACMD41 nothing but app is changed.
After ==
    /\ cmd.caller = "idle" => NoCard \/ Fresh
    /\ cmd.caller = "if" => Fresh
    /\ cmd.caller = "type" =>
        /\ Awake /\ ~Version2
        /\ IF cmd.app THEN Fresh ELSE card.kind = "SD1" /\ Waited(0)
    /\ cmd.caller = "leave2" =>
        /\ Awake /\ Version2 /\ card.sized /\ tmr \in 1 .. Tries
        /\ IF cmd.app THEN Waiting(0) ELSE card.idle => Waiting(1)
    /\ cmd.caller = "ocr" => Awake /\ Version2 /\ card.sized /\ ~card.idle
    /\ cmd.caller = "leave1" =>
        /\ Awake /\ ~Version2 /\ CardType = card.kind /\ tmr \in 1 .. Tries
        /\ IF cmd.app THEN Waiting(0) ELSE card.idle => Waiting(1)
    /\ cmd.caller = "length" => Known
    /\ cmd.caller = "read" => Known
    /\ cmd.app /\ Is(SdCards) => card.app

\* The bytes of a block, or of an error.
Frame(sector) ==
    IF card.failed THEN <<8>> ELSE <<254>> \o Sector(sector) \o <<170, 187>>

\* The first byte of the answer, and the others.
First ==
    IF (cmd.app /\ ~Is(SdCards)) \/ (cmd.caller = "if" /\ ~Version2)
    THEN IF card.idle THEN 5 ELSE 4
    ELSE IF card.idle THEN 1 ELSE 0

IfBytes == <<0, 0, 1, 170>>
OcrBytes == <<IF Is({"SDHC"}) THEN 192 ELSE 128, 255, 128, 0>>

Others ==
    CASE cmd.caller = "if" /\ Version2 -> IfBytes
      [] cmd.caller = "ocr" -> OcrBytes
      [] cmd.caller = "read" -> Fill(card.late) \o Frame(request.sector)
      [] OTHER -> <<>>

Answers == <<First>> \o Others

-----------------------------------------------------------------------------
(***************************************************************************)
(* send_cmd.                                                               *)
(***************************************************************************)

CommandOf(caller) ==
    CASE caller = "idle" -> CMD0
      [] caller = "if" -> CMD8
      [] caller = "leave1" -> IF CardType = "SD1" THEN ACMD41 ELSE CMD1
      [] caller = "ocr" -> CMD58
      [] caller = "length" -> CMD16
      [] caller = "read" -> CMD17
      [] OTHER -> ACMD41

ArgOf(caller) ==
    CASE caller = "if" -> <<0, 0, 1, 170>>
      [] caller = "leave2" -> InitArg
      [] caller = "length" -> LengthArg
      [] caller = "read" -> Address(request.sector)
      [] OTHER -> NoArg

Commanded ==
    /\ cmd \in [command : {CMD0, CMD1, CMD8, CMD16, CMD17, ACMD41, CMD58},
                app : BOOLEAN, arg : {ArgOf(cmd.caller)},
                deselct : {cmd.caller \notin {"if", "ocr", "read"}},
                caller : Callers, n : 1 .. Attempts]
    /\ cmd.command = CommandOf(cmd.caller)
    /\ cmd.app => cmd.command = ACMD41
    /\ cmd.caller = "read" => request \in Requests

Sending == IF cmd.app THEN CMD55 ELSE cmd.command
SendingArg == IF cmd.app THEN NoArg ELSE cmd.arg
PacketBytes ==
    <<Sending, SendingArg[1], SendingArg[2], SendingArg[3], SendingArg[4], Crc(Sending)>>

\* The card has so many bytes of the packet.
Heard(m) == card.packet = IF NoCard THEN <<>> ELSE SubSeq(PacketBytes, 1, m)

\* The packet is not complete: j bytes have been written.  The last one may
\* still be under way when the first attempt at the response is made.
Sent(k) ==
    /\ Before /\ cmd.n = Attempts /\ card.reply = <<>>
    /\ k > 0 => spi.cs = 0
    /\ IF Free THEN k \in 0 .. 6 /\ Heard(IF k = 0 THEN 0 ELSE k - 1)
       ELSE /\ k \in 2 .. 8
            /\ LET j == IF k = 8 THEN 6 ELSE k - 1
               IN  spi.out = PacketBytes[j] /\ Heard(j - 1)

\* The answer is still to come, and so many attempts are enough to hear it.
Pending(attempts) ==
    IF NoCard THEN card.reply = <<>>
    ELSE \E d \in 0 .. Attempts :
             card.reply = Fill(d) \o Answers /\ d + attempts <= cmd.n

Received(byte) ==
    \/ byte = 255 /\ Pending(IF NoCard THEN 0 ELSE 2)
    \/ ~NoCard /\ byte = First /\ card.reply = Others

Sounding(k) ==
    /\ After /\ card.packet = <<>> /\ spi.cs = 0
    /\ IF Free THEN \/ k = 7 /\ Pending(1)
                    \/ k = 8 /\ Received(spi.data)
                    \/ k = 9 /\ Received(res)
       ELSE k = 8 /\ Pending(1)

Asking ==
    /\ pc = "response" /\ Commanded
    /\ \E k \in 0 .. 9 : /\ Rest(PacketScript(Sending, SendingArg), k)
                         /\ Sent(k) \/ Sounding(k)

-----------------------------------------------------------------------------
(***************************************************************************)
(* The other scripts.                                                      *)
(***************************************************************************)

\* Deselecting the card, and selecting it again.
Parting(k) ==
    /\ k \in {0, 1, 3, 4} => Free
    /\ k \in {1, 2, 3} => spi.cs = 1
    /\ k = 4 => spi.cs = 0 /\ Silent

Parts(f) == \E k \in 0 .. Len(f) : Rest(f, k) /\ Parting(k)

\* A command has been answered.
Told ==
    /\ IF cmd.app THEN pc = "app" \/ (pc = cmd.caller /\ script = <<>> /\ ~Is(SdCards))
       ELSE pc = cmd.caller
    /\ Commanded /\ After
    /\ res = IF NoCard THEN 255 ELSE First
    /\ IF cmd.deselct THEN Parts(deselect \o select)
       ELSE script = <<>> /\ spi.cs = 0 /\ Free /\ card.packet = <<>> /\ card.reply = Others

\* k = 3 * q + r accesses of the dummy clocks.
Dummies ==
    /\ pc = "dummies"
    /\ \E q \in 0 .. DummyBytes, r \in 0 .. 2 :
        /\ 3 * q + r <= 3 * DummyBytes /\ Rest(Times(DummyBytes, deselect), 3 * q + r)
        /\ 3 * q + r > 0 => spi.cs = 1 /\ (r < 2 => Free)
        /\ LET clocked == IF r = 2 /\ Free THEN q + 1 ELSE q
           IN  NoCard \/ card.waking >= IF clocked < 10 THEN clocked ELSE 10

\* i of the bytes have been received, with k accesses.
Listening(bytes, i, k) ==
    /\ i \in 0 .. Len(bytes)
    /\ spi.cs = 0 /\ card.packet = <<>>
    /\ \/ k = 2 * i /\ Free /\ card.reply = SubSeq(bytes, i + 1, Len(bytes))
       \/ /\ k = 2 * i + 1 /\ i < Len(bytes)
          /\ \/ spi.busy /\ card.reply = SubSeq(bytes, i + 1, Len(bytes))
             \/ /\ Free /\ card.reply = SubSeq(bytes, i + 2, Len(bytes))
                /\ spi.data = bytes[i + 1]

\* Those of them that are kept.
Kept(bytes, i, from, to) == got = SubSeq(bytes, from + 1, IF i < to THEN i ELSE to)

Range2 ==
    /\ pc = "range" /\ Fresh /\ Version2
    /\ \E k \in 0 .. 12 :
        /\ Rest(Times(4, rcv_spi("keep")) \o deselect \o select, k)
        /\ \/ \E i \in 0 .. 4 : Listening(IfBytes, i, k) /\ Kept(IfBytes, i, 0, 4)
           \/ k >= 8 /\ Parting(k - 8) /\ got = IfBytes

Capacity ==
    /\ pc = "ccs" /\ Awake /\ Version2 /\ card.sized /\ ~card.idle
    /\ \E i \in 0 .. 4, k \in 0 .. 8 :
        /\ Rest(Times(4, rcv_spi("keep")), k)
        /\ Listening(OcrBytes, i, k) /\ Kept(OcrBytes, i, 0, 4)

\* The card has d more bytes to say before the token.
Hoping ==
    /\ pc = "token" /\ Known /\ tmr \in 1 .. TokenTries
    /\ \E d \in 0 .. card.late, i \in 0 .. 1, k \in 0 .. 2 :
        /\ card.late - d = TokenTries - tmr
        /\ Rest(rcv_spi("use"), k)
        /\ Listening(Fill(d) \o Frame(request.sector), i, k)
        /\ k = 2 => res = (Fill(d) \o Frame(request.sector))[1]

BlockBytes == Sector(request.sector) \o <<170, 187>>

Copying ==
    /\ pc = "copied" /\ Known
    /\ \E i \in 0 .. SectorSize + 2, k \in 0 .. 2 * (SectorSize + 2) :
        /\ Rest(Copy(request.offset, request.count), k)
        /\ Listening(BlockBytes, i, k)
        /\ Kept(BlockBytes, i, request.offset, request.offset + request.count)

Closing ==
    /\ pc = "close" /\ Known /\ Parts(deselect)
    /\ \/ status = "ok" /\ ReadsWhatWasAsked /\ Silent
       \/ status = "running" /\ (card.failed \/ card.late >= TokenTries)

GivenUp == NoCard \/ card.needs >= Tries

Starting == pc = "reset" /\ script = <<>>
Selecting == pc = "selected" /\ Fresh /\ Parts(deselect \o select)
Finishing ==
    /\ pc = "initialized" /\ Parts(deselect)
    /\ IF CardType = "none" THEN GivenUp ELSE Known
Resigned == pc = "failed" /\ script = <<>> /\ GivenUp /\ Free
Serving == pc = "ready" /\ script = <<>> /\ Known /\ spi.cs = 1 /\ Free

Phase ==
    \/ Starting \/ Dummies \/ Asking \/ Told \/ Selecting \/ Range2 \/ Capacity
    \/ Finishing \/ Resigned \/ Serving \/ Hoping \/ Copying \/ Closing

Statuses ==
    /\ status \in {"running", "noinit", "ok", "error"}
    /\ status = "ok" => pc \in {"ready", "close"}
    /\ status = "error" => pc = "ready" /\ (card.failed \/ card.late >= TokenTries)
    /\ status = "noinit" => pc = "failed"

Typed ==
    /\ card \in Cards /\ SpiOK /\ Deselected
    /\ request \in Requests \cup {NoRequest}
    /\ res \in Char /\ got \in Seq(Char)
    /\ CardType \in SdCards \cup {"MMC", "none"}
    /\ tmr \in 0 .. Tries + TokenTries /\ cmd.n \in 1 .. Attempts
    /\ script \in Seq(Accesses)

IInv == Typed /\ Phase /\ Statuses

-----------------------------------------------------------------------------
(***************************************************************************)
(* Sequences.                                                              *)
(***************************************************************************)

\* The first m elements, one by one.
LEMMA Grow ==
    ASSUME NEW S, NEW p \in Seq(S), NEW m \in 1 .. Len(p), NEW n, n = m - 1
    PROVE  SubSeq(p, 1, m) = SubSeq(p, 1, n) \o <<p[m]>>
<1>1. 1 \in 1 .. Len(p) /\ m \in 1 .. Len(p)
  BY LenProperties
<1> QED
  BY <1>1, SubSeqRecursiveSecond

LEMMA GrowFirst ==
    ASSUME NEW S, NEW p \in Seq(S), Len(p) > 0
    PROVE  SubSeq(p, 1, 1) = <<p[1]>>
<1>1. 1 \in 1 .. Len(p) /\ p[1] \in S
  BY LenProperties, ElementOfSeq
<1>2. SubSeq(p, 1, 0) = <<>>
  BY SubSeqEmpty
<1>3. SubSeq(p, 1, 1) = SubSeq(p, 1, 0) \o <<p[1]>>
  <2>1. 0 = 1 - 1
    OBVIOUS
  <2> QED
    BY <1>1, <2>1, Grow
<1>4. <<p[1]>> \in Seq(S)
  BY <1>1
<1>5. <<>> \o <<p[1]>> = <<p[1]>>
  BY <1>4, ConcatEmptySeq
<1> QED
  BY <1>2, <1>3, <1>5

\* What is left of a script after k accesses.
LEMMA RestOf ==
    ASSUME NEW S, NEW f \in Seq(S), NEW k \in 0 .. Len(f)
    PROVE  LET s == SubSeq(f, k + 1, Len(f)) IN
           /\ s \in Seq(S) /\ Len(s) = Len(f) - k
           /\ s = <<>> <=> k = Len(f)
           /\ k < Len(f) => Head(s) = f[k + 1] /\ Tail(s) = SubSeq(f, k + 2, Len(f))
<1> DEFINE s == SubSeq(f, k + 1, Len(f))
<1>1. Len(f) \in Nat /\ \A i \in 1 .. Len(f) : f[i] \in S
  BY ElementOfSeq, LenProperties
<1>2. s \in Seq(S) /\ Len(s) = Len(f) - k
  BY <1>1, SubSeqProperties
<1> HIDE DEF s
<1>3. s = <<>> <=> k = Len(f)
  <2>1. Len(<<>>) = 0 /\ (s # <<>> => Len(s) # 0)
    BY <1>2, EmptySeq
  <2> QED
    BY <1>1, <1>2, <2>1
<1> USE DEF s
<1>4. ASSUME k < Len(f)
      PROVE  Head(s) = f[k + 1] /\ Tail(s) = SubSeq(f, k + 2, Len(f))
  <2>1. k + 1 \in 1 .. Len(f) /\ Len(f) \in k + 1 .. Len(f)
    BY <1>1, <1>4
  <2>2. Head(s) = f[k + 1] /\ Tail(s) = SubSeq(f, (k + 1) + 1, Len(f))
    BY <2>1, HeadTailOfSubSeq
  <2>3. (k + 1) + 1 = k + 2
    OBVIOUS
  <2> QED
    BY <2>2, <2>3
<1> QED
  BY <1>2, <1>3, <1>4

\* A script that begins, or has ended.
LEMMA RestEnds ==
    ASSUME NEW S, NEW f \in Seq(S)
    PROVE  SubSeq(f, 0 + 1, Len(f)) = f /\ SubSeq(f, Len(f) + 1, Len(f)) = <<>>
<1>1. Len(f) \in Nat /\ 0 + 1 = 1
  BY LenProperties
<1> QED
  BY <1>1, SubSeqFull, SubSeqEmpty

\* The bytes before the first that is no 255.
LEMMA Filled ==
    ASSUME NEW d \in Nat, NEW s \in Seq(Char)
    PROVE  /\ Fill(d) \in Seq(Char) /\ Len(Fill(d)) = d
           /\ Fill(d) \o s \in Seq(Char) /\ Len(Fill(d) \o s) = d + Len(s)
           /\ Fill(0) \o s = s
           /\ d > 0 => /\ Fill(d) \o s # <<>> /\ Head(Fill(d) \o s) = 255
                       /\ (Fill(d) \o s)[1] = 255
                       /\ Tail(Fill(d) \o s) = Fill(d - 1) \o s
<1>1. \A n \in Nat : /\ Fill(n) \in Seq(Char) /\ Len(Fill(n)) = n
                     /\ \A i \in 1 .. n : Fill(n)[i] = 255
  <2> TAKE n \in Nat
  <2>1. \A i \in 1 .. n : 255 \in Char
    BY DEF Char
  <2>2. [i \in 1 .. n |-> 255] \in [1 .. n -> Char]
    BY <2>1
  <2>3. [i \in 1 .. n |-> 255] \in Seq(Char)
    BY <2>2, SeqDef
  <2> QED
    BY <2>3 DEF Fill
<1>2. \A n \in Nat : /\ Fill(n) \o s \in Seq(Char) /\ Len(Fill(n) \o s) = n + Len(s)
                     /\ \A i \in 1 .. n + Len(s) :
                            (Fill(n) \o s)[i] = IF i <= n THEN 255 ELSE s[i - n]
  <2> TAKE n \in Nat
  <2> DEFINE f == Fill(n)
  <2>1. f \in Seq(Char) /\ Len(f) = n /\ \A i \in 1 .. n : f[i] = 255
    BY <1>1
  <2> HIDE DEF f
  <2>2. /\ f \o s \in Seq(Char) /\ Len(f \o s) = n + Len(s)
        /\ \A i \in 1 .. n + Len(s) : (f \o s)[i] = IF i <= n THEN f[i] ELSE s[i - n]
    BY <2>1, ConcatProperties
  <2> QED
    BY <2>1, <2>2 DEF f
<1>3. Len(s) \in Nat
  BY LenProperties
<1>4. Fill(0) \o s = s
  <2> DEFINE f == Fill(0)
  <2>1. f \in Seq(Char) /\ Len(f) = 0
    BY <1>1
  <2> HIDE DEF f
  <2>2. f = <<>>
    BY <2>1, EmptySeq
  <2> QED
    BY <2>2, ConcatEmptySeq DEF f
<1>5. ASSUME d > 0
      PROVE  /\ Fill(d) \o s # <<>> /\ Head(Fill(d) \o s) = 255
             /\ (Fill(d) \o s)[1] = 255
             /\ Tail(Fill(d) \o s) = Fill(d - 1) \o s
  <2> DEFINE t == Fill(d) \o s
  <2> DEFINE u == Fill(d - 1) \o s
  <2>1. /\ t \in Seq(Char) /\ Len(t) = d + Len(s)
        /\ \A i \in 1 .. d + Len(s) : t[i] = IF i <= d THEN 255 ELSE s[i - d]
    BY <1>2
  <2>2. /\ u \in Seq(Char) /\ Len(u) = d - 1 + Len(s)
        /\ \A i \in 1 .. d - 1 + Len(s) : u[i] = IF i <= d - 1 THEN 255 ELSE s[i - (d - 1)]
    <3>1. d - 1 \in Nat
      BY <1>5
    <3> QED
      BY <1>2, <3>1
  <2> HIDE DEF t, u
  <2>3. t # <<>>
    BY <1>3, <1>5, <2>1, EmptySeq
  <2>4. t[1] = 255 /\ Head(t) = t[1]
    BY <1>3, <1>5, <2>1
  <2>5. /\ Tail(t) \in Seq(Char) /\ Len(Tail(t)) = Len(t) - 1
        /\ \A i \in 1 .. Len(Tail(t)) : Tail(t)[i] = t[i + 1]
    BY <2>1, <2>3, HeadTailProperties
  <2>6. \A i \in 1 .. Len(u) : Tail(t)[i] = u[i]
    <3> TAKE i \in 1 .. Len(u)
    <3>1. Tail(t)[i] = t[i + 1] /\ i + 1 \in 1 .. d + Len(s)
      BY <1>3, <1>5, <2>1, <2>2, <2>5
    <3>2. t[i + 1] = IF i + 1 <= d THEN 255 ELSE s[i + 1 - d]
      BY <2>1, <3>1
    <3>3. u[i] = IF i <= d - 1 THEN 255 ELSE s[i - (d - 1)]
      BY <2>2
    <3>4. i + 1 - d = i - (d - 1) /\ (i + 1 <= d <=> i <= d - 1)
      BY <1>3, <2>2
    <3> QED
      BY <3>1, <3>2, <3>3, <3>4
  <2>7. Tail(t) = u
    <3>1. Len(Tail(t)) = Len(u)
      BY <1>3, <1>5, <2>1, <2>2, <2>5
    <3> QED
      BY <2>2, <2>5, <2>6, <3>1, SeqEqual
  <2> QED
    BY <2>3, <2>4, <2>7 DEF t, u
<1> QED
  BY <1>1, <1>2, <1>4, <1>5

-----------------------------------------------------------------------------
(***************************************************************************)
(* The scripts, access by access.                                          *)
(***************************************************************************)

Cs(level) == [op |-> "cs", arg |-> level, wait |-> TRUE]
Write(byte) == [op |-> "write", arg |-> byte, wait |-> TRUE]
Clock == [op |-> "write", arg |-> 255, wait |-> FALSE]
Take(use) == [op |-> use, arg |-> 0, wait |-> TRUE]

LEMMA AccessTypes ==
    /\ \A level : level \in {0, 1} => Cs(level) \in Accesses
    /\ \A byte : byte \in Char => Write(byte) \in Accesses
    /\ \A use : use \in Uses => Take(use) \in Accesses
    /\ Clock \in Accesses
BY DEF Cs, Write, Clock, Take, Uses, Accesses, Ops, Char

\* hardware.c's routines.
LEMMA ReceiveScript ==
    ASSUME NEW use \in Uses
    PROVE  /\ rcv_spi(use) = <<Clock, Take(use)>>
           /\ rcv_spi(use) \in Seq(Accesses) /\ Len(rcv_spi(use)) = 2
           /\ rcv_spi(use)[1] = Clock /\ rcv_spi(use)[2] = Take(use)
<1> DEFINE p == <<Clock, Take(use)>>
<1>1. Clock \in Accesses /\ Take(use) \in Accesses
  BY AccessTypes
<1>2. p \in Seq(Accesses) /\ Len(p) = 2 /\ p[1] = Clock /\ p[2] = Take(use)
  BY <1>1
<1>3. rcv_spi(use) = <<Clock>> \o <<Take(use)>>
  BY DEF rcv_spi, AtOnce, Wait, Clock, Take
<1> HIDE DEF p
<1>4. SubSeq(p, 1, 1) = <<Clock>>
  BY <1>2, GrowFirst
<1>5. SubSeq(p, 1, 2) = SubSeq(p, 1, 1) \o <<p[2]>>
  BY <1>2, Grow
<1>6. SubSeq(p, 1, 2) = p
  BY <1>2, SubSeqFull
<1>7. rcv_spi(use) = p
  BY <1>2, <1>3, <1>4, <1>5, <1>6
<1> QED
  BY <1>2, <1>7 DEF p

LEMMA SelectScript ==
    LET f == deselect
        g == deselect \o select
    IN
    /\ f = <<Cs(1), Clock, Take("drop")>> /\ g = <<Cs(1), Clock, Take("drop"), Cs(0)>>
    /\ f \in Seq(Accesses) /\ Len(f) = 3
    /\ f[1] = Cs(1) /\ f[2] = Clock /\ f[3] = Take("drop")
    /\ g \in Seq(Accesses) /\ Len(g) = 4
    /\ g[1] = Cs(1) /\ g[2] = Clock /\ g[3] = Take("drop") /\ g[4] = Cs(0)
<1> DEFINE p == <<Cs(1), Clock, Take("drop"), Cs(0)>>
<1> DEFINE q == <<Cs(1), Clock, Take("drop")>>
<1>1. Cs(1) \in Accesses /\ Clock \in Accesses /\ Take("drop") \in Accesses /\ Cs(0) \in Accesses
  BY AccessTypes DEF Uses
<1>2. /\ p \in Seq(Accesses) /\ Len(p) = 4
      /\ p[1] = Cs(1) /\ p[2] = Clock /\ p[3] = Take("drop") /\ p[4] = Cs(0)
  BY <1>1
<1>3. /\ q \in Seq(Accesses) /\ Len(q) = 3
      /\ q[1] = Cs(1) /\ q[2] = Clock /\ q[3] = Take("drop")
  BY <1>1
<1>4. deselect = <<Cs(1)>> \o <<Clock, Take("drop")>> /\ select = <<Cs(0)>>
  BY ReceiveScript DEF deselect, select, Wait, Cs, Uses
<1> HIDE DEF p, q
<1>5. SubSeq(q, 1, 1) = <<Cs(1)>>
  BY <1>3, GrowFirst
<1>6. SubSeq(q, 1, 2) = SubSeq(q, 1, 1) \o <<Clock>>
  BY <1>3, Grow
<1>7. SubSeq(q, 1, 3) = SubSeq(q, 1, 2) \o <<Take("drop")>>
  BY <1>3, Grow
<1>8. SubSeq(q, 1, 3) = q
  BY <1>3, SubSeqFull
<1>9. q = (<<Cs(1)>> \o <<Clock>>) \o <<Take("drop")>>
  BY <1>5, <1>6, <1>7, <1>8
<1>10. <<Clock>> \o <<Take("drop")>> = <<Clock, Take("drop")>>
  BY ReceiveScript DEF Uses, rcv_spi, AtOnce, Wait, Clock, Take
<1>11. <<Cs(1)>> \in Seq(Accesses) /\ <<Clock>> \in Seq(Accesses) /\ <<Take("drop")>> \in Seq(Accesses)
  BY <1>1
<1>12. q = <<Cs(1)>> \o (<<Clock>> \o <<Take("drop")>>)
  BY <1>9, <1>11, ConcatAssociative
<1>13. deselect = q
  BY <1>4, <1>10, <1>12
<1>14. SubSeq(p, 1, 1) = <<Cs(1)>>
  BY <1>2, GrowFirst
<1>15. SubSeq(p, 1, 2) = SubSeq(p, 1, 1) \o <<Clock>>
  BY <1>2, Grow
<1>16. SubSeq(p, 1, 3) = SubSeq(p, 1, 2) \o <<Take("drop")>>
  BY <1>2, Grow
<1>17. SubSeq(p, 1, 4) = SubSeq(p, 1, 3) \o <<Cs(0)>>
  BY <1>2, Grow
<1>18. SubSeq(p, 1, 4) = p
  BY <1>2, SubSeqFull
<1>19. deselect \o select = p
  BY <1>4, <1>9, <1>13, <1>14, <1>15, <1>16, <1>17, <1>18
<1>20. q = <<Cs(1), Clock, Take("drop")>> /\ p = <<Cs(1), Clock, Take("drop"), Cs(0)>>
  BY DEF p, q
<1> QED
  BY <1>2, <1>3, <1>13, <1>19, <1>20

PacketTuple(command, arg) ==
    <<Cs(0), Write(command), Write(arg[1]), Write(arg[2]), Write(arg[3]), Write(arg[4]),
      Write(Crc(command)), Clock, Take("use")>>

LEMMA PacketAccesses ==
    ASSUME NEW command \in Char, NEW arg, arg[1] \in Char, arg[2] \in Char,
           arg[3] \in Char, arg[4] \in Char
    PROVE  LET f == PacketScript(command, arg) IN
           /\ f = PacketTuple(command, arg)
           /\ f \in Seq(Accesses) /\ Len(f) = 9
           /\ f[1] = Cs(0) /\ f[2] = Write(command)
           /\ f[3] = Write(arg[1]) /\ f[4] = Write(arg[2])
           /\ f[5] = Write(arg[3]) /\ f[6] = Write(arg[4])
           /\ f[7] = Write(Crc(command)) /\ f[8] = Clock /\ f[9] = Take("use")
           /\ SubSeq(f, 8, 9) = rcv_spi("use")
<1>1. Crc(command) \in Char
  BY DEF Crc, Char
<1> DEFINE p == PacketTuple(command, arg)
<1>2. /\ Cs(0) \in Accesses /\ Clock \in Accesses /\ Take("use") \in Accesses
      /\ Write(command) \in Accesses /\ Write(arg[1]) \in Accesses
      /\ Write(arg[2]) \in Accesses /\ Write(arg[3]) \in Accesses
      /\ Write(arg[4]) \in Accesses /\ Write(Crc(command)) \in Accesses
  BY <1>1, AccessTypes DEF Uses
<1>3. p \in Seq(Accesses) /\ Len(p) = 9
  BY <1>2 DEF PacketTuple
<1>4. /\ p[1] = Cs(0) /\ p[2] = Write(command)
      /\ p[3] = Write(arg[1]) /\ p[4] = Write(arg[2])
      /\ p[5] = Write(arg[3]) /\ p[6] = Write(arg[4])
      /\ p[7] = Write(Crc(command)) /\ p[8] = Clock /\ p[9] = Take("use")
  BY DEF PacketTuple
<1>5. PacketScript(command, arg) =
        (((((((<<p[1]>> \o <<p[2]>>) \o <<p[3]>>) \o <<p[4]>>) \o <<p[5]>>) \o <<p[6]>>)
         \o <<p[7]>>) \o rcv_spi("use"))
  BY <1>4 DEF PacketScript, select, xmit_spi, Wait, Write, Cs
<1> HIDE DEF p
<1>6. SubSeq(p, 1, 1) = <<p[1]>>
  BY <1>3, GrowFirst
<1>7. SubSeq(p, 1, 2) = SubSeq(p, 1, 1) \o <<p[2]>>
  BY <1>3, Grow
<1>8. SubSeq(p, 1, 3) = SubSeq(p, 1, 2) \o <<p[3]>>
  BY <1>3, Grow
<1>9. SubSeq(p, 1, 4) = SubSeq(p, 1, 3) \o <<p[4]>>
  BY <1>3, Grow
<1>10. SubSeq(p, 1, 5) = SubSeq(p, 1, 4) \o <<p[5]>>
  BY <1>3, Grow
<1>11. SubSeq(p, 1, 6) = SubSeq(p, 1, 5) \o <<p[6]>>
  BY <1>3, Grow
<1>12. SubSeq(p, 1, 7) = SubSeq(p, 1, 6) \o <<p[7]>>
  BY <1>3, Grow
<1>13. SubSeq(p, 8, 9) = rcv_spi("use")
  <2> DEFINE q == SubSeq(p, 8, 9)
  <2> DEFINE u == <<Clock, Take("use")>>
  <2>1. \A i \in 8 .. 9 : p[i] \in Accesses
    <3>1. \A i \in 1 .. 9 : p[i] \in Accesses
      BY <1>3, ElementOfSeq
    <3> QED
      BY <3>1
  <2>2. /\ q \in Seq(Accesses) /\ Len(q) = 2
        /\ \A i \in 1 .. 2 : q[i] = p[8 + i - 1]
    BY <2>1, SubSeqProperties
  <2>3. u \in Seq(Accesses) /\ Len(u) = 2 /\ u[1] = Clock /\ u[2] = Take("use")
    BY <1>2
  <2> HIDE DEF q, u
  <2>4. q[1] = p[8 + 1 - 1] /\ q[2] = p[8 + 2 - 1]
    BY <2>2
  <2>5. \A i \in 1 .. Len(q) : q[i] = u[i]
    BY <1>4, <2>2, <2>3, <2>4
  <2>6. q = u
    BY <2>2, <2>3, <2>5, SeqEqual
  <2> QED
    BY <2>6, ReceiveScript DEF q, u, Uses
<1>14. SubSeq(p, 1, 7) \o SubSeq(p, 7 + 1, 9) = SubSeq(p, 1, 9)
  BY <1>3, ConcatAdjacentSubSeq
<1>15. SubSeq(p, 1, 9) = p
  BY <1>3, SubSeqFull
<1>16. PacketScript(command, arg) = p
  <2>1. <<p[1]>> \o <<p[2]>> = SubSeq(p, 1, 2)
    BY <1>6, <1>7
  <2>2. (<<p[1]>> \o <<p[2]>>) \o <<p[3]>> = SubSeq(p, 1, 3)
    BY <2>1, <1>8
  <2>3. ((<<p[1]>> \o <<p[2]>>) \o <<p[3]>>) \o <<p[4]>> = SubSeq(p, 1, 4)
    BY <2>2, <1>9
  <2>4. (((<<p[1]>> \o <<p[2]>>) \o <<p[3]>>) \o <<p[4]>>) \o <<p[5]>> = SubSeq(p, 1, 5)
    BY <2>3, <1>10
  <2>5. ((((<<p[1]>> \o <<p[2]>>) \o <<p[3]>>) \o <<p[4]>>) \o <<p[5]>>) \o <<p[6]>> = SubSeq(p, 1, 6)
    BY <2>4, <1>11
  <2>6. (((((<<p[1]>> \o <<p[2]>>) \o <<p[3]>>) \o <<p[4]>>) \o <<p[5]>>) \o <<p[6]>>) \o <<p[7]>> = SubSeq(p, 1, 7)
    BY <2>5, <1>12
  <2> QED
    BY <1>5, <2>6, <1>13, <1>14, <1>15, 7 + 1 = 8
<1>17. p = PacketTuple(command, arg)
  BY DEF p
<1> QED
  BY <1>3, <1>4, <1>13, <1>16, <1>17

\* Two scripts in one.
LEMMA JoinedLength ==
    ASSUME NEW S, NEW s \in Seq(S), NEW t \in Seq(S), NEW m, NEW n, Len(s) = m, Len(t) = n
    PROVE  s \o t \in Seq(S) /\ Len(s \o t) = m + n
BY ConcatProperties

LEMMA JoinedFirst ==
    ASSUME NEW S, NEW s \in Seq(S), NEW t \in Seq(S), NEW m, Len(s) = m, NEW i \in 1 .. m
    PROVE  (s \o t)[i] = s[i]
<1>1. Len(s) \in Nat /\ Len(t) \in Nat
  BY LenProperties
<1>2. i \in 1 .. Len(s) + Len(t) /\ i <= Len(s)
  BY <1>1
<1> QED
  BY <1>2, ConcatProperties

LEMMA JoinedSecond ==
    ASSUME NEW S, NEW s \in Seq(S), NEW t \in Seq(S), NEW m, NEW n, Len(s) = m, Len(t) = n,
           NEW j \in 1 .. n, NEW i, i = m + j
    PROVE  (s \o t)[i] = t[j]
<1>1. Len(s) \in Nat /\ Len(t) \in Nat
  BY LenProperties
<1>2. i \in 1 .. Len(s) + Len(t) /\ ~(i <= Len(s)) /\ i - Len(s) = j
  BY <1>1
<1>3. (s \o t)[i] = t[i - Len(s)]
  BY <1>2, ConcatProperties
<1> QED
  BY <1>2, <1>3

\* A piece n times.
LEMMA TimesScript ==
    ASSUME NEW n \in Nat, NEW piece \in Seq(Accesses), NEW l \in Nat \ {0}, Len(piece) = l
    PROVE  LET f == Times(n, piece) IN
           /\ f \in Seq(Accesses) /\ Len(f) = n * l
           /\ \A i \in 1 .. n * l : f[i] = piece[((i - 1) % l) + 1]
<1> DEFINE f == Times(n, piece)
<1>1. n * l \in Nat
  OBVIOUS
<1>2. \A i \in 1 .. n * l : (i - 1) % l \in 0 .. l - 1
  OBVIOUS
<1>3. \A i \in 1 .. n * l : ((i - 1) % l) + 1 \in 1 .. Len(piece)
  BY <1>2
<1>4. \A i \in 1 .. n * l : piece[((i - 1) % l) + 1] \in Accesses
  BY <1>3, ElementOfSeq
<1>5. f = [i \in 1 .. n * l |-> piece[((i - 1) % l) + 1]]
  BY DEF Times
<1>6. f \in [1 .. n * l -> Accesses]
  BY <1>4, <1>5
<1>7. f \in Seq(Accesses)
  BY <1>1, <1>6, SeqDef
<1> HIDE DEF f
<1>8. DOMAIN f = 1 .. n * l /\ DOMAIN f = 1 .. Len(f) /\ Len(f) \in Nat
  BY <1>6, <1>7, LenProperties
<1>9. Len(f) = n * l
  BY <1>1, <1>8
<1>10. \A i \in 1 .. n * l : f[i] = piece[((i - 1) % l) + 1]
  BY <1>5
<1> QED
  BY <1>7, <1>9, <1>10 DEF f

\* n bytes received for one use.
LEMMA ReceivesScript ==
    ASSUME NEW n \in Nat, NEW use \in Uses
    PROVE  LET f == Times(n, rcv_spi(use)) IN
           /\ f \in Seq(Accesses) /\ Len(f) = 2 * n
           /\ \A i \in 0 .. n - 1 : f[2 * i + 1] = Clock /\ f[2 * i + 2] = Take(use)
<1> DEFINE piece == rcv_spi(use)
<1>1. piece \in Seq(Accesses) /\ Len(piece) = 2 /\ piece[1] = Clock /\ piece[2] = Take(use)
  BY ReceiveScript
<1> HIDE DEF piece
<1> DEFINE f == Times(n, piece)
<1>2. 2 \in Nat \ {0} /\ n * 2 = 2 * n
  OBVIOUS
<1>3. /\ f \in Seq(Accesses) /\ Len(f) = n * 2
      /\ \A i \in 1 .. n * 2 : f[i] = piece[((i - 1) % 2) + 1]
  BY <1>1, <1>2, TimesScript
<1> HIDE DEF f
<1>4. ASSUME NEW i \in 0 .. n - 1
      PROVE  f[2 * i + 1] = Clock /\ f[2 * i + 2] = Take(use)
  <2>1. /\ 2 * i + 1 \in 1 .. n * 2 /\ ((2 * i + 1 - 1) % 2) + 1 = 1
        /\ 2 * i + 2 \in 1 .. n * 2 /\ ((2 * i + 2 - 1) % 2) + 1 = 2
    OBVIOUS
  <2>2. f[2 * i + 1] = piece[((2 * i + 1 - 1) % 2) + 1]
    BY <1>3, <2>1
  <2>3. f[2 * i + 2] = piece[((2 * i + 2 - 1) % 2) + 1]
    BY <1>3, <2>1
  <2> QED
    BY <1>1, <2>1, <2>2, <2>3
<1> QED
  BY <1>2, <1>3, <1>4 DEF f, piece

LEMMA DummiesScript ==
    ASSUME NEW n \in Nat
    PROVE  LET f == Times(n, deselect) IN
           /\ f \in Seq(Accesses) /\ Len(f) = 3 * n
           /\ \A q \in 0 .. n - 1 : /\ f[3 * q + 1] = Cs(1) /\ f[3 * q + 2] = Clock
                                    /\ f[3 * q + 3] = Take("drop")
<1> DEFINE piece == deselect
<1>1. /\ piece \in Seq(Accesses) /\ Len(piece) = 3
      /\ piece[1] = Cs(1) /\ piece[2] = Clock /\ piece[3] = Take("drop")
  BY SelectScript
<1> HIDE DEF piece
<1> DEFINE f == Times(n, piece)
<1>2. 3 \in Nat \ {0} /\ n * 3 = 3 * n
  OBVIOUS
<1>3. /\ f \in Seq(Accesses) /\ Len(f) = n * 3
      /\ \A i \in 1 .. n * 3 : f[i] = piece[((i - 1) % 3) + 1]
  BY <1>1, <1>2, TimesScript
<1> HIDE DEF f
<1>4. ASSUME NEW q \in 0 .. n - 1
      PROVE  /\ f[3 * q + 1] = Cs(1) /\ f[3 * q + 2] = Clock /\ f[3 * q + 3] = Take("drop")
  <2>1. /\ 3 * q + 1 \in 1 .. n * 3 /\ ((3 * q + 1 - 1) % 3) + 1 = 1
        /\ 3 * q + 2 \in 1 .. n * 3 /\ ((3 * q + 2 - 1) % 3) + 1 = 2
        /\ 3 * q + 3 \in 1 .. n * 3 /\ ((3 * q + 3 - 1) % 3) + 1 = 3
    OBVIOUS
  <2>2. f[3 * q + 1] = piece[((3 * q + 1 - 1) % 3) + 1]
    <3>1. 3 * q + 1 \in 1 .. n * 3
      BY <2>1
    <3> QED
      BY <1>3, <3>1
  <2>3. f[3 * q + 2] = piece[((3 * q + 2 - 1) % 3) + 1]
    BY <1>3, <2>1
  <2>4. f[3 * q + 3] = piece[((3 * q + 3 - 1) % 3) + 1]
    BY <1>3, <2>1
  <2> QED
    BY <1>1, <2>1, <2>2, <2>3, <2>4
<1> QED
  BY <1>2, <1>3, <1>4 DEF f, piece

\* The four bytes behind a response.
LEMMA RangeScript ==
    LET f == Times(4, rcv_spi("keep")) \o deselect \o select IN
    /\ f \in Seq(Accesses) /\ Len(f) = 12
    /\ \A i \in 0 .. 3 : f[2 * i + 1] = Clock /\ f[2 * i + 2] = Take("keep")
    /\ f[9] = Cs(1) /\ f[10] = Clock /\ f[11] = Take("drop") /\ f[12] = Cs(0)
<1> DEFINE t == Times(4, rcv_spi("keep"))
<1> DEFINE d == deselect
<1> DEFINE s == select
<1> DEFINE g == d \o s
<1>1. /\ t \in Seq(Accesses) /\ Len(t) = 8
      /\ \A i \in 0 .. 3 : t[2 * i + 1] = Clock /\ t[2 * i + 2] = Take("keep")
  <2>1. "keep" \in Uses /\ 4 \in Nat /\ 2 * 4 = 8 /\ 4 - 1 = 3
    BY DEF Uses
  <2> QED
    BY <2>1, ReceivesScript
<1>2. /\ g \in Seq(Accesses) /\ Len(g) = 4
      /\ g[1] = Cs(1) /\ g[2] = Clock /\ g[3] = Take("drop") /\ g[4] = Cs(0)
      /\ d \in Seq(Accesses)
  BY SelectScript
<1>3. s \in Seq(Accesses)
  <2>1. s = <<Cs(0)>> /\ Cs(0) \in Accesses
    BY AccessTypes DEF select, Wait, Cs
  <2> QED
    BY <2>1
<1>4. (t \o d) \o s = t \o g
  <2>1. t \in Seq(Accesses) /\ d \in Seq(Accesses) /\ s \in Seq(Accesses)
    BY <1>1, <1>2, <1>3
  <2> HIDE DEF t, d, s
  <2> QED
    BY <2>1, ConcatAssociative
<1> HIDE DEF t, d, s, g
<1> DEFINE f == t \o g
<1> DEFINE m == 8
<1> DEFINE n == 4
<1>5. t \in Seq(Accesses) /\ g \in Seq(Accesses) /\ Len(t) = m /\ Len(g) = n
  BY <1>1, <1>2
<1>a. m = 8 /\ n = 4
  OBVIOUS
<1> HIDE DEF m, n
<1>6. f \in Seq(Accesses) /\ Len(f) = m + n
  BY <1>5, JoinedLength
<1>7. ASSUME NEW i \in 1 .. m
      PROVE  f[i] = t[i]
  BY <1>5, JoinedFirst
<1>b. ASSUME NEW j \in 1 .. n, NEW i, i = m + j
      PROVE  f[i] = g[j]
  BY <1>5, <1>b, JoinedSecond
<1> HIDE DEF f
<1>8. \A i \in 0 .. 3 : f[2 * i + 1] = Clock /\ f[2 * i + 2] = Take("keep")
  <2> TAKE i \in 0 .. 3
  <2>1. 2 * i + 1 \in 1 .. m /\ 2 * i + 2 \in 1 .. m
    BY <1>a
  <2>2. f[2 * i + 1] = t[2 * i + 1] /\ f[2 * i + 2] = t[2 * i + 2]
    BY <1>7, <2>1
  <2> QED
    BY <1>1, <2>2
<1>9. f[9] = g[1] /\ f[10] = g[2] /\ f[11] = g[3] /\ f[12] = g[4]
  BY <1>a, <1>b
<1>10. Times(4, rcv_spi("keep")) \o deselect \o select = f
  BY <1>4 DEF f, t, d, s
<1>11. Len(f) = 12
  BY <1>6, <1>a
<1>12. f[9] = Cs(1) /\ f[10] = Clock /\ f[11] = Take("drop") /\ f[12] = Cs(0)
  BY <1>2, <1>9
<1> QED
  BY <1>6, <1>8, <1>10, <1>11, <1>12

\* What becomes of the byte behind i others of a block.
UseOf(i) == IF request.offset <= i /\ i < request.offset + request.count THEN "keep" ELSE "drop"

LEMMA CopyScript ==
    ASSUME request \in Requests \cup {NoRequest}
    PROVE  LET f == Copy(request.offset, request.count) IN
           /\ f \in Seq(Accesses) /\ Len(f) = 2 * (SectorSize + 2)
           /\ \A i \in 0 .. SectorSize + 1 : f[2 * i + 1] = Clock /\ f[2 * i + 2] = Take(UseOf(i))
<1> DEFINE o == request.offset
<1> DEFINE c == request.count
<1> DEFINE w == SectorSize + 2 - o - c
<1> DEFINE t == Times(o, rcv_spi("drop"))
<1> DEFINE u == Times(c, rcv_spi("keep"))
<1> DEFINE v == Times(w, rcv_spi("drop"))
<1>1. o \in Nat /\ c \in Nat /\ w \in Nat /\ o + c + w = SectorSize + 2 /\ SectorSize \in Nat
  BY SdDiskAssumption DEF Requests, NoRequest
<1>2. /\ t \in Seq(Accesses) /\ Len(t) = 2 * o
      /\ \A i \in 0 .. o - 1 : t[2 * i + 1] = Clock /\ t[2 * i + 2] = Take("drop")
  BY <1>1, ReceivesScript DEF Uses
<1>3. /\ u \in Seq(Accesses) /\ Len(u) = 2 * c
      /\ \A i \in 0 .. c - 1 : u[2 * i + 1] = Clock /\ u[2 * i + 2] = Take("keep")
  BY <1>1, ReceivesScript DEF Uses
<1>4. /\ v \in Seq(Accesses) /\ Len(v) = 2 * w
      /\ \A i \in 0 .. w - 1 : v[2 * i + 1] = Clock /\ v[2 * i + 2] = Take("drop")
  BY <1>1, ReceivesScript DEF Uses
<1>5. Copy(request.offset, request.count) = (t \o u) \o v
  BY DEF Copy, Trailing
<1> HIDE DEF t, u, v, w, o, c
<1> DEFINE g == t \o u
<1> DEFINE f == g \o v
<1>6. g \in Seq(Accesses) /\ Len(g) = 2 * o + 2 * c
  BY <1>2, <1>3, JoinedLength
<1>7. f \in Seq(Accesses) /\ Len(f) = 2 * o + 2 * c + 2 * w
  <2> HIDE DEF g
  <2> QED
    BY <1>4, <1>6, JoinedLength
<1>8. ASSUME NEW i \in 1 .. 2 * o + 2 * c
      PROVE  f[i] = g[i]
  <2> HIDE DEF g
  <2>1. g \in Seq(Accesses) /\ v \in Seq(Accesses) /\ Len(g) = 2 * o + 2 * c
    BY <1>4, <1>6
  <2> QED
    BY <2>1, JoinedFirst
<1>9. ASSUME NEW i \in 1 .. 2 * o
      PROVE  g[i] = t[i]
  <2>1. t \in Seq(Accesses) /\ u \in Seq(Accesses) /\ Len(t) = 2 * o
    BY <1>2, <1>3
  <2> QED
    BY <2>1, JoinedFirst
<1>10. ASSUME NEW j \in 1 .. 2 * c
       PROVE  g[2 * o + j] = u[j]
  <2>1. /\ t \in Seq(Accesses) /\ u \in Seq(Accesses)
        /\ Len(t) = 2 * o /\ Len(u) = 2 * c
    BY <1>2, <1>3
  <2> QED
    BY <2>1, JoinedSecond
<1>11. ASSUME NEW j \in 1 .. 2 * w
       PROVE  f[2 * o + 2 * c + j] = v[j]
  <2> HIDE DEF g
  <2>1. /\ g \in Seq(Accesses) /\ v \in Seq(Accesses)
        /\ Len(g) = 2 * o + 2 * c /\ Len(v) = 2 * w
    BY <1>4, <1>6
  <2> QED
    BY <2>1, JoinedSecond
<1> HIDE DEF f, g
<1>12. ASSUME NEW i \in 0 .. SectorSize + 1
       PROVE  f[2 * i + 1] = Clock /\ f[2 * i + 2] = Take(UseOf(i))
  <2>1. UseOf(i) = IF o <= i /\ i < o + c THEN "keep" ELSE "drop"
    BY DEF UseOf, o, c
  <2>2. CASE i < o
    <3>1. /\ i \in 0 .. o - 1
          /\ 2 * i + 1 \in 1 .. 2 * o /\ 2 * i + 2 \in 1 .. 2 * o
          /\ 2 * i + 1 \in 1 .. 2 * o + 2 * c /\ 2 * i + 2 \in 1 .. 2 * o + 2 * c
      BY <1>1, <2>2
    <3>2. f[2 * i + 1] = t[2 * i + 1] /\ f[2 * i + 2] = t[2 * i + 2]
      BY <1>8, <1>9, <3>1
    <3>3. UseOf(i) = "drop"
      BY <1>1, <2>1, <3>1
    <3>4. t[2 * i + 1] = Clock /\ t[2 * i + 2] = Take("drop")
      BY <1>2, <3>1
    <3> QED
      BY <3>2, <3>3, <3>4
  <2>3. CASE o <= i /\ i < o + c
    <3> DEFINE j == i - o
    <3>1. /\ j \in 0 .. c - 1
          /\ 2 * j + 1 \in 1 .. 2 * c /\ 2 * j + 2 \in 1 .. 2 * c
          /\ 2 * i + 1 \in 1 .. 2 * o + 2 * c /\ 2 * i + 2 \in 1 .. 2 * o + 2 * c
          /\ 2 * i + 1 = 2 * o + (2 * j + 1) /\ 2 * i + 2 = 2 * o + (2 * j + 2)
      BY <1>1, <2>3
    <3> HIDE DEF j
    <3>2. f[2 * i + 1] = u[2 * j + 1] /\ f[2 * i + 2] = u[2 * j + 2]
      BY <1>8, <1>10, <3>1
    <3>3. UseOf(i) = "keep"
      BY <2>1, <2>3
    <3>4. u[2 * j + 1] = Clock /\ u[2 * j + 2] = Take("keep")
      BY <1>3, <3>1
    <3> QED
      BY <3>2, <3>3, <3>4
  <2>4. CASE i >= o + c
    <3> DEFINE j == i - (o + c)
    <3>1. /\ j \in 0 .. w - 1
          /\ 2 * j + 1 \in 1 .. 2 * w /\ 2 * j + 2 \in 1 .. 2 * w
          /\ 2 * i + 1 = 2 * o + 2 * c + (2 * j + 1)
          /\ 2 * i + 2 = 2 * o + 2 * c + (2 * j + 2)
      BY <1>1, <2>4
    <3> HIDE DEF j
    <3>2. f[2 * i + 1] = v[2 * j + 1] /\ f[2 * i + 2] = v[2 * j + 2]
      BY <1>11, <3>1
    <3>3. UseOf(i) = "drop"
      BY <1>1, <2>1, <2>4
    <3>4. v[2 * j + 1] = Clock /\ v[2 * j + 2] = Take("drop")
      BY <1>4, <3>1
    <3> QED
      BY <3>2, <3>3, <3>4
  <2> QED
    BY <1>1, <2>2, <2>3, <2>4
<1>13. 2 * o + 2 * c + 2 * w = 2 * (SectorSize + 2)
  BY <1>1
<1>14. Copy(request.offset, request.count) = f
  BY <1>5 DEF f, g
<1> QED
  BY <1>7, <1>12, <1>13, <1>14

-----------------------------------------------------------------------------
(***************************************************************************)
(* An access.                                                              *)
(***************************************************************************)

Does(a) ==
    /\ a.wait => Free
    /\ \/ a.op = "cs" /\ WriteCs(a.arg) /\ Selected(a.arg) /\ UNCHANGED <<res, got>>
       \/ a.op = "write" /\ WriteData(a.arg) /\ UNCHANGED <<card, res, got>>
       \/ a.op = "use" /\ res' = spi.data /\ UNCHANGED <<spi, card, got>>
       \/ a.op = "keep" /\ got' = Append(got, spi.data) /\ UNCHANGED <<spi, card, res>>
       \/ a.op = "drop" /\ UNCHANGED <<spi, card, res, got>>

Steady == UNCHANGED <<pc, cmd, tmr, CardType, request, status>>

\* An access is the next one of the script that is under way.
LEMMA AccessOf ==
    ASSUME NEW f \in Seq(Accesses), NEW k \in 0 .. Len(f), Rest(f, k), Access
    PROVE  /\ k + 1 \in 0 .. Len(f) /\ script' = SubSeq(f, (k + 1) + 1, Len(f))
           /\ Does(f[k + 1]) /\ Steady
<1>1. LET s == SubSeq(f, k + 1, Len(f)) IN
      /\ s = <<>> <=> k = Len(f)
      /\ k < Len(f) => Head(s) = f[k + 1] /\ Tail(s) = SubSeq(f, k + 2, Len(f))
  BY RestOf
<1>2. Len(f) \in Nat
  BY LenProperties
<1>3. script # <<>> /\ script = SubSeq(f, k + 1, Len(f))
  BY DEF Access, Rest
<1>4. k < Len(f)
  BY <1>1, <1>2, <1>3
<1>5. Head(script) = f[k + 1] /\ Tail(script) = SubSeq(f, k + 2, Len(f)) /\ k + 2 = (k + 1) + 1
  BY <1>1, <1>3, <1>4
<1>6. Does(Head(script)) /\ script' = Tail(script) /\ Steady
  BY DEF Access, Does, Free, Steady
<1> QED
  BY <1>2, <1>4, <1>5, <1>6

LEMMA Doings ==
    /\ \A level : Does(Cs(level)) =>
           Free /\ WriteCs(level) /\ Selected(level) /\ UNCHANGED <<res, got>>
    /\ \A byte : Does(Write(byte)) => Free /\ WriteData(byte) /\ UNCHANGED <<card, res, got>>
    /\ Does(Clock) => WriteData(255) /\ UNCHANGED <<card, res, got>>
    /\ Does(Take("use")) => Free /\ res' = spi.data /\ UNCHANGED <<spi, card, got>>
    /\ Does(Take("keep")) =>
           Free /\ got' = Append(got, spi.data) /\ UNCHANGED <<spi, card, res>>
    /\ Does(Take("drop")) => Free /\ UNCHANGED <<spi, card, res, got>>
BY DEF Does, Cs, Write, Clock, Take

\* A script has ended.
LEMMA EndOf ==
    ASSUME NEW f \in Seq(Accesses), NEW k \in 0 .. Len(f), Rest(f, k), script = <<>>
    PROVE  k = Len(f)
BY RestOf DEF Rest

-----------------------------------------------------------------------------
(***************************************************************************)
(* What the card executes leaves it a card.                                *)
(***************************************************************************)

\* The constants that the types of the card use.
LEMMA CardConstants ==
    /\ Rounds \subseteq Nat /\ Latencies \subseteq Nat /\ Sectors \subseteq Nat
    /\ SectorSize \in Nat /\ SectorSize > 0 /\ Delays \subseteq 0 .. Attempts - 2
    /\ Delays \subseteq Nat /\ Attempts \in Nat /\ Attempts > 0 /\ Tries \in Nat
    /\ Tries > 0 /\ TokenTries \in Nat /\ TokenTries > 0 /\ DummyBytes \in Nat
    /\ DummyBytes >= 10 /\ Kinds \subseteq SdCards \cup {"MMC", "none"}
BY SdDiskAssumption, WaitsAssumption

LEMMA SectorTypes ==
    ASSUME NEW sector \in Nat
    PROVE  Sector(sector) \in Seq(Char) /\ Len(Sector(sector)) = SectorSize
<1>1. SectorSize \in Nat
  BY CardConstants
<1>2. \A i \in 1 .. SectorSize : Data(sector, i - 1) \in Char
  BY <1>1 DEF Data, Char
<1>3. [i \in 1 .. SectorSize |-> Data(sector, i - 1)] \in [1 .. SectorSize -> Char]
  BY <1>2
<1>4. Sector(sector) \in Seq(Char) /\ Sector(sector) \in [1 .. SectorSize -> Char]
  BY <1>1, <1>3, SeqDef DEF Sector
<1> HIDE DEF Sector
<1> QED
  BY <1>1, <1>4, LenProperties

\* An answer comes after some bytes.
LEMMA AnswerOf ==
    ASSUME NEW c \in Cards, NEW bytes \in Seq(Char), NEW e \in Answer(c, bytes)
    PROVE  \E d \in Delays :
               /\ d \in Nat /\ d + 2 <= Attempts
               /\ e = [c EXCEPT !.packet = <<>>, !.reply = Fill(d) \o bytes]
               /\ e.packet = <<>> /\ e.reply = Fill(d) \o bytes
               /\ e \in Cards
<1>1. PICK d \in Delays : e = [c EXCEPT !.packet = <<>>, !.reply = Fill(d) \o bytes]
  BY DEF Answer
<1>2. d \in Nat /\ d + 2 <= Attempts
  BY CardConstants
<1>3. Fill(d) \o bytes \in Seq(Char)
  BY <1>2, Filled
<1> DEFINE r == Fill(d) \o bytes
<1>4. <<>> \in Seq(Char) /\ Len(<<>>) = 0 /\ r \in Seq(Char)
  BY <1>3
<1>5. e = [c EXCEPT !.packet = <<>>, !.reply = r]
  BY <1>1
<1> HIDE DEF r
<1>6. e.packet = <<>> /\ e.reply = r
  BY <1>5 DEF Cards
<1>7. e \in [kind : Kinds, waking : 0 .. 10, spiMode : BOOLEAN, idle : BOOLEAN,
             app : BOOLEAN, needs : Nat, rounds : Nat, sized : BOOLEAN,
             packet : Seq(Char), reply : Seq(Char), late : Nat, failed : BOOLEAN]
  BY <1>4, <1>5 DEF Cards
<1>8. e \in Cards
  BY <1>4, <1>6, <1>7 DEF Cards
<1>9. r = Fill(d) \o bytes
  BY DEF r
<1> QED
  BY <1>1, <1>2, <1>6, <1>8, <1>9

LEMMA ByteSequences ==
    /\ \A a : a \in Char => <<a>> \in Seq(Char)
    /\ \A a, b, c, d, e : /\ a \in Char /\ b \in Char /\ c \in Char /\ d \in Char /\ e \in Char
                          => <<a, b, c, d, e>> \in Seq(Char)
    /\ <<170, 187>> \in Seq(Char)
BY DEF Char

\* The bytes of a block and its CRC, and those of an answer with a block.
LEMMA BlockTypes ==
    ASSUME NEW sector \in Nat, NEW n \in Nat
    PROVE  /\ <<0>> \o Fill(n) \o <<254>> \o Sector(sector) \o <<170, 187>> \in Seq(Char)
           /\ <<0>> \o Fill(n) \o <<8>> \in Seq(Char)
<1>1. /\ <<0>> \in Seq(Char) /\ <<254>> \in Seq(Char) /\ <<8>> \in Seq(Char)
      /\ <<170, 187>> \in Seq(Char)
  BY ByteSequences DEF Char
<1>2. Fill(n) \in Seq(Char) /\ Sector(sector) \in Seq(Char)
  BY <1>1, Filled, SectorTypes
<1> DEFINE a == <<0>>
<1> DEFINE b == Fill(n)
<1> DEFINE c == <<254>>
<1> DEFINE d == Sector(sector)
<1> DEFINE e == <<170, 187>>
<1> DEFINE g == <<8>>
<1>3. /\ a \in Seq(Char) /\ b \in Seq(Char) /\ c \in Seq(Char) /\ d \in Seq(Char)
      /\ e \in Seq(Char) /\ g \in Seq(Char)
  BY <1>1, <1>2
<1> HIDE DEF a, b, c, d, e, g
<1>4. a \o b \o c \o d \o e \in Seq(Char) /\ a \o b \o g \in Seq(Char)
  BY <1>3, ConcatProperties
<1> QED
  BY <1>4 DEF a, b, c, d, e, g

LEMMA ExecuteTypes ==
    ASSUME card \in Cards, NEW p \in Seq(Char), Len(p) = 6, NEW e \in Execute(p)
    PROVE  e \in Cards
<1> DEFINE arg == SubSeq(p, 2, 5)
<1>1. \A i \in 1 .. 6 : p[i] \in Char
  BY ElementOfSeq
<1>2. arg[3] \in Char /\ arg[4] \in Char
  <2>1. \A i \in 2 .. 5 : p[i] \in Char
    BY <1>1
  <2>2. Len(arg) = 4 /\ \A i \in 1 .. 4 : arg[i] = p[2 + i - 1]
    BY <2>1, SubSeqProperties
  <2>3. 3 \in 1 .. 4 /\ 4 \in 1 .. 4 /\ 2 + 3 - 1 \in 1 .. 6 /\ 2 + 4 - 1 \in 1 .. 6
    OBVIOUS
  <2> QED
    BY <1>1, <2>2, <2>3
<1>3. \A c, bytes : c \in Cards /\ bytes \in Seq(Char) /\ e \in Answer(c, bytes) => e \in Cards
  BY AnswerOf
<1>4. \A b : b \in {0, 1, 4, 5, 32} => <<b>> \in Seq(Char)
  BY ByteSequences DEF Char
<1>5. <<>> \in Seq(Char) /\ Len(<<>>) = 0
  OBVIOUS
<1>6. ASSUME NEW c \in Cards, e \in Accept(c)
      PROVE  e \in Cards
  <2>1. (IF c.idle THEN 1 ELSE 0) \in {0, 1, 4, 5, 32}
    OBVIOUS
  <2> DEFINE b == <<IF c.idle THEN 1 ELSE 0>>
  <2>2. e \in Answer(c, b) /\ b \in Seq(Char)
    BY <1>4, <1>6, <2>1 DEF Accept
  <2> HIDE DEF b
  <2> QED
    BY <1>3, <2>2
<1>7. [card EXCEPT !.app = FALSE] \in Cards
  BY DEF Cards
<1>8. ASSUME e \in Illegal
      PROVE  e \in Cards
  <2>1. (IF card.idle THEN 5 ELSE 4) \in {0, 1, 4, 5, 32}
    OBVIOUS
  <2>2. <<IF card.idle THEN 5 ELSE 4>> \in Seq(Char)
    BY <1>4, <2>1
  <2> DEFINE b == <<IF card.idle THEN 5 ELSE 4>>
  <2> DEFINE c == [card EXCEPT !.app = FALSE]
  <2>3. e \in Answer(c, b) /\ b \in Seq(Char) /\ c \in Cards
    BY <1>7, <1>8, <2>2 DEF Illegal
  <2> HIDE DEF b, c
  <2> QED
    BY <1>3, <2>3
<1>9. ASSUME e \in Ignore
      PROVE  e \in Cards
  <2> DEFINE q == <<>>
  <2>1. e = [card EXCEPT !.packet = q] /\ q \in Seq(Char) /\ Len(q) < 6
    BY <1>5, <1>9 DEF Ignore
  <2> HIDE DEF q
  <2>2. e.packet = q
    BY <2>1 DEF Cards
  <2> QED
    BY <2>1, <2>2 DEF Cards
<1> HIDE DEF arg
<1>10. ASSUME e \in GoIdle(p[6])
       PROVE  e \in Cards
  <2>1. CASE e \in Ignore
    BY <1>9, <2>1
  <2>2. ASSUME NEW r \in Rounds,
               e \in Accept([card EXCEPT !.spiMode = TRUE, !.idle = TRUE, !.app = FALSE,
                                         !.sized = Is({"SD2", "SDHC"}), !.needs = r,
                                         !.rounds = r])
        PROVE  e \in Cards
    <3> DEFINE c == [card EXCEPT !.spiMode = TRUE, !.idle = TRUE, !.app = FALSE,
                                 !.sized = Is({"SD2", "SDHC"}), !.needs = r, !.rounds = r]
    <3>1. r \in Nat /\ Is({"SD2", "SDHC"}) \in BOOLEAN
      BY CardConstants DEF Is
    <3>2. c \in Cards
      BY <3>1 DEF Cards
    <3>3. e \in Accept(c)
      BY <2>2
    <3> HIDE DEF c
    <3> QED
      BY <1>6, <3>2, <3>3
  <2> QED
    BY <1>10, <2>1, <2>2, ZenonT(40) DEF GoIdle
<1>11. ASSUME e \in IfCond(arg, p[6])
       PROVE  e \in Cards
  <2>1. <<1, 0, 0, arg[3], arg[4]>> \in Seq(Char)
    BY <1>2, ByteSequences DEF Char
  <2> QED
    BY <1>3, <1>7, <1>8, <1>11, <2>1 DEF IfCond
<1>12. ASSUME e \in OpCond(arg)
       PROVE  e \in Cards
  <2>1. CASE card.rounds > 0
    <3> DEFINE r == card.rounds - 1
    <3>1. r \in Nat
      BY <2>1 DEF Cards
    <3>2. e \in Accept([card EXCEPT !.app = FALSE, !.rounds = r])
      BY <1>12, <2>1 DEF OpCond
    <3> HIDE DEF r
    <3>3. [card EXCEPT !.app = FALSE, !.rounds = r] \in Cards
      BY <3>1 DEF Cards
    <3> QED
      BY <1>6, <3>2, <3>3
  <2>2. [card EXCEPT !.app = FALSE, !.idle = FALSE] \in Cards
    BY DEF Cards
  <2>3. CASE ~(card.rounds > 0)
    <3>1. \/ e \in Accept([card EXCEPT !.app = FALSE])
          \/ e \in Accept([card EXCEPT !.app = FALSE, !.idle = FALSE])
      BY <1>12, <2>3 DEF OpCond
    <3> QED
      BY <1>6, <1>7, <2>2, <3>1
  <2> QED
    BY <2>1, <2>3
<1>13. ASSUME e \in ReadBlock(arg)
       PROVE  e \in Cards
  <2>1. CASE e \in Illegal
    BY <1>8, <2>1
  <2>2. CASE e \in Answer([card EXCEPT !.app = FALSE], <<32>>)
    BY <1>3, <1>4, <1>7, <2>2
  <2>3. ASSUME NEW sector \in Sectors, e \in Block(sector)
        PROVE  e \in Cards
    <3>1. PICK n \in Latencies :
              \/ e \in Answer([card EXCEPT !.app = FALSE, !.late = n, !.failed = FALSE],
                              <<0>> \o Fill(n) \o <<254>> \o Sector(sector) \o <<170, 187>>)
              \/ e \in Answer([card EXCEPT !.app = FALSE, !.late = n, !.failed = TRUE],
                              <<0>> \o Fill(n) \o <<8>>)
      BY <2>3, ZenonT(40) DEF Block
    <3>2. n \in Nat /\ sector \in Nat
      BY CardConstants
    <3> DEFINE b == <<0>> \o Fill(n) \o <<254>> \o Sector(sector) \o <<170, 187>>
    <3> DEFINE c == <<0>> \o Fill(n) \o <<8>>
    <3> DEFINE g == [card EXCEPT !.app = FALSE, !.late = n, !.failed = FALSE]
    <3> DEFINE h == [card EXCEPT !.app = FALSE, !.late = n, !.failed = TRUE]
    <3>3. g \in Cards /\ h \in Cards
      BY <3>2 DEF Cards
    <3>4. b \in Seq(Char) /\ c \in Seq(Char)
      BY <3>2, BlockTypes
    <3>5. e \in Answer(g, b) \/ e \in Answer(h, c)
      BY <3>1
    <3> HIDE DEF b, c, g, h
    <3> QED
      BY <1>3, <3>3, <3>4, <3>5
  <2> QED
    BY <1>13, <2>1, <2>2, <2>3 DEF ReadBlock
<1>14. ASSUME NEW b, e \in Accept([card EXCEPT !.app = FALSE, !.sized = b]), b \in BOOLEAN
       PROVE  e \in Cards
  <2>1. [card EXCEPT !.app = FALSE, !.sized = b] \in Cards
    BY <1>14 DEF Cards
  <2> QED
    BY <1>6, <1>14, <2>1
<1>15. [card EXCEPT !.app = TRUE] \in Cards
  BY DEF Cards
<1>16. ASSUME e \in Answer([card EXCEPT !.app = FALSE],
                           <<IF card.idle THEN 1 ELSE 0,
                             IF Is({"SDHC"}) THEN 192 ELSE 128, 255, 128, 0>>)
       PROVE  e \in Cards
  <2>1. <<IF card.idle THEN 1 ELSE 0, IF Is({"SDHC"}) THEN 192 ELSE 128, 255, 128, 0>>
        \in Seq(Char)
    BY ByteSequences DEF Char
  <2> DEFINE b == <<IF card.idle THEN 1 ELSE 0, IF Is({"SDHC"}) THEN 192 ELSE 128, 255, 128, 0>>
  <2> DEFINE c == [card EXCEPT !.app = FALSE]
  <2>2. e \in Answer(c, b) /\ b \in Seq(Char) /\ c \in Cards
    BY <1>7, <1>16, <2>1
  <2> HIDE DEF b, c
  <2> QED
    BY <1>3, <2>2
<1>17. (Number(arg) = SectorSize) \in BOOLEAN
  OBVIOUS
<1> QED
  BY <1>6, <1>8, <1>9, <1>10, <1>11, <1>12, <1>13, <1>14, <1>15, <1>16, <1>17 DEF Execute, arg

-----------------------------------------------------------------------------
(***************************************************************************)
(* Steps that change nothing of the card but what it has heard and has to  *)
(* say, and nothing the driver remembers.                                  *)
(***************************************************************************)

Gentle ==
    /\ card' \in Cards
    /\ card'.kind = card.kind /\ card'.spiMode = card.spiMode /\ card'.idle = card.idle
    /\ card'.app = card.app /\ card'.needs = card.needs /\ card'.rounds = card.rounds
    /\ card'.sized = card.sized /\ card'.late = card.late /\ card'.failed = card.failed
    /\ card'.waking >= card.waking
    /\ UNCHANGED <<cmd, tmr, CardType, request>>

LEMMA GentleStep ==
    ASSUME card \in Cards, Gentle
    PROVE  /\ (NoCard' <=> NoCard) /\ (Version2' <=> Version2)
           /\ Awake => Awake'
           /\ Fresh => Fresh'
           /\ Known => Known'
           /\ GivenUp => GivenUp'
           /\ Before => Before'
           /\ After => After'
           /\ Commanded => Commanded'
<1>1. /\ (NoCard' <=> NoCard) /\ (Version2' <=> Version2)
      /\ (Is({"SDHC"})' <=> Is({"SDHC"})) /\ (Is(SdCards)' <=> Is(SdCards))
  BY DEF Gentle, NoCard, Version2, Is
<1>2. card.waking = 10 => card'.waking = 10
  BY DEF Gentle, Cards
<1>3. Awake => Awake'
  BY <1>1, <1>2 DEF Gentle, Awake
<1>4. Fresh => Fresh'
  BY <1>1, <1>3 DEF Gentle, Fresh
<1>5. Known => Known'
  BY <1>3 DEF Gentle, Known
<1>6. GivenUp => GivenUp'
  BY <1>1 DEF Gentle, GivenUp
<1>7. \A n : Waiting(n) => Waiting(n)'
  BY DEF Gentle, Waiting, Waited
<1>8. \A n : Waited(n) => Waited(n)'
  BY DEF Gentle, Waited
<1>9. Before => Before'
  <2>1. cmd' = cmd /\ CardType' = CardType /\ card'.kind = card.kind /\ card'.app = card.app
        /\ card'.idle = card.idle /\ card'.sized = card.sized
    BY DEF Gentle
  <2>2. Waiting(0) => Waiting(0)'
    BY <1>7
  <2> QED
    BY <1>1, <1>2, <1>3, <1>4, <1>5, <2>1, <2>2 DEF Before
<1>10. After => After'
  <2>1. cmd' = cmd /\ CardType' = CardType /\ card'.kind = card.kind /\ card'.app = card.app
        /\ card'.idle = card.idle /\ card'.sized = card.sized /\ tmr' = tmr
    BY DEF Gentle
  <2>2. (Waiting(0) => Waiting(0)') /\ (Waiting(1) => Waiting(1)') /\ (Waited(0) => Waited(0)')
    BY <1>7, <1>8
  <2> QED
    BY <1>1, <1>3, <1>4, <1>5, <2>1, <2>2 DEF After
<1>11. Commanded => Commanded'
  BY DEF Gentle, Commanded, CommandOf, ArgOf, LengthArg, Address
<1> QED
  BY <1>1, <1>3, <1>4, <1>5, <1>6, <1>9, <1>10, <1>11

\* What the card says then is the same, too.
LEMMA GentleAnswers ==
    ASSUME card \in Cards, Gentle
    PROVE  /\ First' = First /\ Others' = Others /\ Answers' = Answers
           /\ OcrBytes' = OcrBytes /\ BlockBytes' = BlockBytes
           /\ \A sector : Frame(sector)' = Frame(sector)
           /\ Sending' = Sending /\ SendingArg' = SendingArg /\ PacketBytes' = PacketBytes
<1>1. /\ (Version2' <=> Version2)
      /\ (Is({"SDHC"})' <=> Is({"SDHC"})) /\ (Is(SdCards)' <=> Is(SdCards))
  BY DEF Gentle, Version2, Is
<1>2. First' = First /\ OcrBytes' = OcrBytes /\ BlockBytes' = BlockBytes
  BY <1>1 DEF Gentle, First, OcrBytes, BlockBytes, Sector, Data
<1>3. \A sector : Frame(sector)' = Frame(sector)
  BY DEF Gentle, Frame, Sector, Data
<1>4. Frame(request.sector)' = Frame(request.sector)
  BY DEF Gentle, Frame, Sector, Data
<1>5. Others' = Others
  BY <1>1, <1>2, <1>4 DEF Gentle, Others
<1>6. Sending' = Sending /\ SendingArg' = SendingArg /\ PacketBytes' = PacketBytes
  BY DEF Gentle, Sending, SendingArg, PacketBytes, Crc
<1> QED
  BY <1>2, <1>3, <1>5, <1>6 DEF Answers

\* Selecting the card, or not.
LEMMA SelectedCard ==
    ASSUME card \in Cards
    PROVE  /\ Steady /\ UNCHANGED card => Gentle
           /\ Steady /\ Selected(0) => Gentle /\ card' = card
           /\ Steady /\ Selected(1) => Gentle /\ Silent'
<1>1. \A q : q \in Seq(Char) /\ Len(q) < 6
             => [card EXCEPT !.packet = q, !.reply = q] \in Cards
  <2> TAKE q
  <2> DEFINE e == [card EXCEPT !.packet = q, !.reply = q]
  <2>1. e.packet = q
    BY DEF Cards
  <2> QED
    BY <2>1 DEF Cards
<1>2. <<>> \in Seq(Char) /\ Len(<<>>) < 6
  OBVIOUS
<1>3. [card EXCEPT !.packet = <<>>, !.reply = <<>>] \in Cards
  BY <1>1, <1>2
<1>4. ASSUME Steady, UNCHANGED card
      PROVE  Gentle
  BY <1>4 DEF Steady, Gentle, Cards
<1>5. ASSUME Steady, Selected(1)
      PROVE  Gentle /\ Silent'
  <2>1. card' = [card EXCEPT !.packet = <<>>, !.reply = <<>>]
    BY <1>5 DEF Selected
  <2>2. Silent'
    BY <2>1 DEF Silent, Cards
  <2>3. Gentle
    BY <1>3, <1>5, <2>1 DEF Gentle, Steady, Cards
  <2> QED
    BY <2>2, <2>3
<1>6. ASSUME Steady, Selected(0)
      PROVE  Gentle /\ card' = card
  BY <1>4, <1>6 DEF Selected
<1> QED
  BY <1>4, <1>5, <1>6

-----------------------------------------------------------------------------
(***************************************************************************)
(* A byte.                                                                 *)
(***************************************************************************)

LEMMA ByteEnds ==
    ASSUME SpiOK, Byte
    PROVE  /\ spi.busy /\ Free' /\ spi'.cs = spi.cs /\ spi'.data = MISO(spi.cs)
           /\ UNCHANGED drv /\ Takes(spi.out, spi.cs)
BY DEF SpiOK, Byte, Exchange, Free

\* No card takes no notice.
LEMMA ByteLost ==
    ASSUME SpiOK, card \in Cards, card.reply = <<>>, Byte, NoCard
    PROVE  card' = card /\ Gentle /\ spi'.data = 255
<1>1. card' = card
  BY ByteEnds DEF Takes, Is, NoCard
<1>2. Gentle
  BY <1>1, ByteEnds DEF Gentle, Cards, drv
<1> QED
  BY <1>1, <1>2, ByteEnds DEF MISO

\* One that is not selected wakes up.
LEMMA ByteWakes ==
    ASSUME SpiOK, card \in Cards, Byte, spi.cs = 1
    PROVE  /\ Gentle /\ card'.packet = card.packet /\ card'.reply = card.reply
           /\ NoCard \/ card'.waking >= IF card.waking < 10 THEN card.waking + 1 ELSE 10
<1>1. CASE NoCard
  <2>1. card' = card
    BY <1>1, ByteEnds DEF Takes, Is, NoCard
  <2> QED
    BY <1>1, <2>1, ByteEnds DEF Gentle, Cards, drv
<1>2. CASE ~NoCard
  <2> DEFINE w == IF card.waking < 10 THEN card.waking + 1 ELSE card.waking
  <2>1. card' = [card EXCEPT !.waking = w]
    BY <1>2, ByteEnds DEF Takes, Is, NoCard
  <2>2. w \in 0 .. 10 /\ w >= card.waking /\ w >= IF card.waking < 10 THEN card.waking + 1 ELSE 10
    BY DEF Cards
  <2> HIDE DEF w
  <2>3. card' \in Cards /\ card'.waking = w
    BY <2>1, <2>2 DEF Cards
  <2>4. Gentle
    BY <2>1, <2>2, <2>3, ByteEnds DEF Gentle, Cards, drv
  <2>5. card'.packet = card.packet /\ card'.reply = card.reply
    BY <2>1 DEF Cards
  <2> QED
    BY <2>2, <2>3, <2>4, <2>5
<1> QED
  BY <1>1, <1>2

\* One that has something to say says it.
LEMMA ByteSays ==
    ASSUME SpiOK, card \in Cards, Byte, spi.cs = 0, ~NoCard, card.waking = 10,
           card.reply # <<>>
    PROVE  /\ Gentle /\ card'.packet = card.packet /\ card'.reply = Tail(card.reply)
           /\ spi'.data = Head(card.reply)
<1> DEFINE r == Tail(card.reply)
<1>1. r \in Seq(Char)
  BY HeadTailProperties DEF Cards
<1>2. card' = [card EXCEPT !.reply = r]
  BY ByteEnds DEF Takes, Is, NoCard
<1>3. spi'.data = Head(card.reply)
  BY ByteEnds DEF MISO
<1> HIDE DEF r
<1>4. card' \in Cards /\ card'.packet = card.packet /\ card'.reply = r
  BY <1>1, <1>2 DEF Cards
<1>5. Gentle
  BY <1>2, <1>4, ByteEnds DEF Gentle, Cards, drv
<1> QED
  BY <1>3, <1>4, <1>5 DEF r

\* One that has not takes the byte into a packet,
LEMMA ByteHeard ==
    ASSUME SpiOK, card \in Cards, Byte, spi.cs = 0, ~NoCard, card.waking = 10,
           card.reply = <<>>, Len(card.packet) < 5,
           card.packet # <<>> \/ spi.out \in 64 .. 127
    PROVE  /\ Gentle /\ card'.packet = Append(card.packet, spi.out)
           /\ card'.reply = <<>> /\ spi'.data = 255
<1> DEFINE q == Append(card.packet, spi.out)
<1>1. q \in Seq(Char) /\ Len(q) < 6
  BY AppendProperties DEF Cards, SpiOK
<1>a. card.kind \notin {"none"} /\ spi.cs # 1 /\ ~(card.waking < 10)
  BY DEF NoCard
<1>c. ~(card.packet = <<>> /\ spi.out \notin 64 .. 127)
  BY ZenonT(40)
<1>b. Takes(spi.out, spi.cs)
  BY ByteEnds
<1>2. card' = [card EXCEPT !.packet = q]
  BY <1>a, <1>b, <1>c DEF Takes, Is
<1>3. spi'.data = 255
  BY ByteEnds DEF MISO
<1> HIDE DEF q
<1>4. card'.packet = q /\ card'.reply = <<>>
  BY <1>2 DEF Cards
<1>5. card' \in Cards
  BY <1>1, <1>2, <1>4, SMTT(30) DEF Cards
<1>6. Gentle
  BY <1>2, <1>5, ByteEnds DEF Gentle, Cards, drv
<1> QED
  BY <1>3, <1>4, <1>6 DEF q

\* and executes it when it is complete.
LEMMA ByteExecutes ==
    ASSUME SpiOK, card \in Cards, Byte, spi.cs = 0, ~NoCard, card.waking = 10,
           card.reply = <<>>, Len(card.packet) >= 5
    PROVE  /\ card' \in Execute(Append(card.packet, spi.out)) /\ card' \in Cards
           /\ spi'.data = 255
<1>a. card.packet \in Seq(Char) /\ Len(card.packet) < 6 /\ spi.out \in Char
  BY DEF Cards, SpiOK
<1>1. card.packet # <<>>
  BY <1>a, EmptySeq
<1>b. /\ Append(card.packet, spi.out) \in Seq(Char)
      /\ Len(Append(card.packet, spi.out)) = Len(card.packet) + 1
  BY <1>a, AppendProperties
<1>2. card' \in Execute(Append(card.packet, spi.out))
  BY <1>1, ByteEnds DEF Takes, Is, NoCard
<1>3. Append(card.packet, spi.out) \in Seq(Char) /\ Len(Append(card.packet, spi.out)) = 6
  BY <1>a, <1>b
<1>4. card' \in Cards
  BY <1>2, <1>3, ExecuteTypes
<1> QED
  BY <1>2, <1>4, ByteEnds DEF MISO

-----------------------------------------------------------------------------
(***************************************************************************)
(* Types, through a byte and an access.                                    *)
(***************************************************************************)

LEMMA ByteTyped ==
    ASSUME Typed, Byte
    PROVE  Typed'
<1>1. card \in Cards /\ SpiOK /\ Deselected
  BY DEF Typed
<1>2. /\ spi.busy /\ Free' /\ spi'.cs = spi.cs /\ spi'.data = MISO(spi.cs)
      /\ Takes(spi.out, spi.cs) /\ UNCHANGED drv
      /\ spi' = [spi EXCEPT !.busy = FALSE, !.data = MISO(spi.cs)]
  BY <1>1, ByteEnds DEF Byte, Exchange
<1>3. MISO(spi.cs) \in Char
  <2>1. card.reply \in Seq(Char)
    BY <1>1 DEF Cards
  <2>2. card.reply # <<>> => Head(card.reply) \in Char
    BY <2>1, HeadTailProperties
  <2>3. 255 \in Char
    BY DEF Char
  <2> QED
    BY <2>2, <2>3 DEF MISO
<1>4. SpiOK'
  BY <1>1, <1>2, <1>3 DEF SpiOK, Free
<1>5. CASE spi.cs = 1
  <2>1. card' \in Cards /\ Deselected'
    BY <1>1, <1>2, <1>5, ByteWakes DEF Gentle, Deselected, Silent
  <2> QED
    BY <1>2, <1>4, <2>1 DEF Typed, drv
<1>6. CASE spi.cs = 0
  <2>1. Deselected'
    BY <1>2, <1>6 DEF Deselected
  <2>2. card' \in Cards
    <3>1. CASE card' = card
      BY <1>1, <3>1
    <3>2. CASE /\ ~NoCard /\ ~(card.waking < 10) /\ card.reply # <<>>
      <4>1. card.waking = 10
        BY <1>1, <3>2 DEF Cards
      <4> QED
        BY <1>1, <1>6, <3>2, <4>1, ByteSays DEF Gentle
    <3>3. CASE /\ ~NoCard /\ ~(card.waking < 10) /\ card.reply = <<>>
               /\ ~(card.packet = <<>> /\ spi.out \notin 64 .. 127)
      <4>1. card.waking = 10 /\ Len(card.packet) \in Nat
        BY <1>1, <3>3, LenProperties DEF Cards
      <4>2. CASE Len(card.packet) < 5
        BY <1>1, <1>6, <3>3, <4>1, <4>2, ByteHeard DEF Gentle
      <4>3. CASE Len(card.packet) >= 5
        BY <1>1, <1>6, <3>3, <4>1, <4>3, ByteExecutes
      <4> QED
        BY <4>1, <4>2, <4>3
    <3> QED
      BY <1>2, <1>6, <3>1, <3>2, <3>3 DEF Takes, Is, NoCard
  <2> QED
    BY <1>2, <1>4, <2>1, <2>2 DEF Typed, drv
<1> QED
  BY <1>1, <1>5, <1>6 DEF SpiOK

LEMMA AccessTyped ==
    ASSUME Typed, Access
    PROVE  Typed'
<1> DEFINE a == Head(script)
<1>1. /\ card \in Cards /\ SpiOK /\ Deselected /\ script \in Seq(Accesses)
      /\ got \in Seq(Char) /\ res \in Char
  BY DEF Typed
<1>2. script # <<>> /\ script' = Tail(script) /\ Does(a) /\ Steady
  BY DEF Access, Does, Free, Steady
<1>3. a \in Accesses /\ script' \in Seq(Accesses)
  BY <1>1, <1>2, HeadTailProperties
<1> HIDE DEF a
<1>4. /\ a.op \in Ops /\ a.arg \in Char
      /\ a.op = "cs" => a.arg \in {0, 1}
      /\ a.op \in Uses => a.wait
  BY <1>3 DEF Accesses
<1>5. ASSUME a.op = "cs"
      PROVE  card' \in Cards /\ SpiOK' /\ Deselected' /\ res' \in Char /\ got' \in Seq(Char)
  <2>1. WriteCs(a.arg) /\ Selected(a.arg) /\ UNCHANGED <<res, got>>
    BY <1>2, <1>5 DEF Does
  <2>2. SpiOK' /\ spi'.cs = a.arg
    BY <1>1, <1>4, <1>5, <2>1 DEF SpiOK, WriteCs
  <2>3. CASE a.arg = 1
    <3>1. Gentle /\ Silent'
      BY <1>1, <1>2, <2>1, <2>3, SelectedCard
    <3> QED
      BY <1>1, <2>1, <2>2, <3>1 DEF Gentle, Deselected
  <2>4. CASE a.arg = 0
    <3>1. Gentle
      BY <1>1, <1>2, <2>1, <2>4, SelectedCard
    <3> QED
      BY <1>1, <2>1, <2>2, <2>4, <3>1 DEF Gentle, Deselected
  <2> QED
    BY <1>4, <1>5, <2>3, <2>4
<1>6. ASSUME a.op = "write"
      PROVE  card' \in Cards /\ SpiOK' /\ Deselected' /\ res' \in Char /\ got' \in Seq(Char)
  <2>1. WriteData(a.arg) /\ UNCHANGED <<card, res, got>>
    BY <1>2, <1>6 DEF Does
  <2>2. SpiOK' /\ spi'.cs = spi.cs
    BY <1>1, <1>4, <2>1 DEF SpiOK, WriteData
  <2> QED
    BY <1>1, <2>1, <2>2 DEF Deselected, Silent
<1>7. ASSUME a.op \in Uses
      PROVE  card' \in Cards /\ SpiOK' /\ Deselected' /\ res' \in Char /\ got' \in Seq(Char)
  <2>1. /\ UNCHANGED <<spi, card>> /\ Free
        /\ res' = res \/ res' = spi.data
        /\ got' = got \/ got' = Append(got, spi.data)
    BY <1>2, <1>4, <1>7 DEF Does, Uses
  <2>2. spi.data \in Char
    BY <1>1, <2>1 DEF SpiOK, Free
  <2>3. Append(got, spi.data) \in Seq(Char)
    BY <1>1, <2>2, AppendProperties
  <2> QED
    BY <1>1, <2>1, <2>2, <2>3 DEF SpiOK, Deselected, Silent
<1> QED
  BY <1>2, <1>3, <1>4, <1>5, <1>6, <1>7 DEF Typed, Steady, Ops, Uses

-----------------------------------------------------------------------------
(***************************************************************************)
(* Deselecting, and selecting again.                                       *)
(***************************************************************************)

Separations == {deselect, deselect \o select}

LEMMA Separating ==
    ASSUME NEW f \in Separations
    PROVE  /\ f \in Seq(Accesses) /\ Len(f) \in {3, 4}
           /\ f[1] = Cs(1) /\ f[2] = Clock /\ f[3] = Take("drop")
           /\ Len(f) = 4 => f[4] = Cs(0)
           /\ f = deselect => Len(f) = 3
           /\ f = deselect \o select => Len(f) = 4
<1> DEFINE g == deselect
<1> DEFINE h == deselect \o select
<1>1. /\ g \in Seq(Accesses) /\ Len(g) = 3
      /\ g[1] = Cs(1) /\ g[2] = Clock /\ g[3] = Take("drop")
      /\ h \in Seq(Accesses) /\ Len(h) = 4
      /\ h[1] = Cs(1) /\ h[2] = Clock /\ h[3] = Take("drop") /\ h[4] = Cs(0)
  BY SelectScript
<1>2. f = g \/ f = h
  BY DEF Separations
<1>3. f = deselect <=> f = g
  OBVIOUS
<1>4. f = deselect \o select <=> f = h
  OBVIOUS
<1> HIDE DEF g, h
<1>5. CASE f = g
  BY <1>1, <1>2, <1>3, <1>4, <1>5
<1>6. CASE f = h
  BY <1>1, <1>2, <1>3, <1>4, <1>6
<1> QED
  BY <1>2, <1>5, <1>6

LEMMA PartsAccess ==
    ASSUME Typed, NEW f \in Separations, Parts(f), Access
    PROVE  /\ \E k \in 0 .. Len(f) : script' = SubSeq(f, k + 1, Len(f)) /\ Parting(k)'
           /\ Gentle /\ Steady /\ res' = res /\ got' = got
           /\ Silent => Silent'
<1>1. PICK k \in 0 .. Len(f) : Rest(f, k) /\ Parting(k)
  BY DEF Parts
<1>2. f \in Seq(Accesses) /\ card \in Cards /\ SpiOK /\ Deselected
  BY Separating DEF Typed
<1>3. /\ k + 1 \in 0 .. Len(f) /\ script' = SubSeq(f, (k + 1) + 1, Len(f))
      /\ Does(f[k + 1]) /\ Steady
  BY <1>1, <1>2, AccessOf
<1>4. k \in 0 .. 3
  <2>1. Len(f) \in {3, 4}
    BY Separating
  <2> QED
    BY <1>3, <2>1
<1>5. CASE k = 0
  <2>1. Free /\ WriteCs(1) /\ Selected(1) /\ UNCHANGED <<res, got>>
    BY <1>3, <1>5, Separating, Doings
  <2>2. Gentle /\ Silent'
    BY <1>2, <1>3, <2>1, SelectedCard
  <2>3. Free' /\ spi'.cs = 1
    BY <1>2, <2>1 DEF SpiOK, WriteCs, Free
  <2>4. Parting(1)'
    BY <2>3 DEF Parting
  <2> QED
    BY <1>3, <1>5, <2>1, <2>2, <2>4
<1>6. CASE k = 1
  <2>1. WriteData(255) /\ UNCHANGED <<card, res, got>>
    BY <1>3, <1>6, Separating, Doings
  <2>2. Gentle /\ (Silent => Silent')
    BY <1>2, <1>3, <2>1, SelectedCard DEF Silent
  <2>3. spi'.cs = 1
    BY <1>1, <1>2, <1>6, <2>1 DEF SpiOK, WriteData, Parting
  <2>4. Parting(2)'
    BY <2>3 DEF Parting
  <2> QED
    BY <1>3, <1>6, <2>1, <2>2, <2>4
<1>7. CASE k = 2
  <2>1. Free /\ UNCHANGED <<spi, card, res, got>>
    BY <1>3, <1>7, Separating, Doings
  <2>2. Gentle /\ (Silent => Silent')
    BY <1>2, <1>3, <2>1, SelectedCard DEF Silent
  <2>3. Free' /\ spi'.cs = 1
    BY <1>1, <1>7, <2>1 DEF Free, Parting
  <2>4. Parting(3)'
    BY <2>3 DEF Parting
  <2> QED
    BY <1>3, <1>7, <2>1, <2>2, <2>4
<1>8. CASE k = 3
  <2>1. f[4] = Cs(0)
    BY <1>3, <1>8, Separating
  <2>2. Free /\ WriteCs(0) /\ Selected(0) /\ UNCHANGED <<res, got>>
    BY <1>3, <1>8, <2>1, Doings
  <2>3. Gentle /\ card' = card
    BY <1>2, <1>3, <2>2, SelectedCard
  <2>4. Silent
    BY <1>1, <1>2, <1>8 DEF Parting, Deselected
  <2>5. Free' /\ spi'.cs = 0
    BY <1>2, <2>2 DEF SpiOK, WriteCs, Free
  <2>6. Parting(4)' /\ Silent'
    BY <2>3, <2>4, <2>5 DEF Parting, Silent
  <2> QED
    BY <1>3, <1>8, <2>2, <2>3, <2>6
<1> QED
  BY <1>4, <1>5, <1>6, <1>7, <1>8

LEMMA PartsByte ==
    ASSUME Typed, NEW f \in Separations, Parts(f), Byte
    PROVE  /\ \E k \in 0 .. Len(f) : script' = SubSeq(f, k + 1, Len(f)) /\ Parting(k)'
           /\ Gentle /\ UNCHANGED drv
           /\ Silent => Silent'
<1>1. PICK k \in 0 .. Len(f) : Rest(f, k) /\ Parting(k)
  BY DEF Parts
<1>2. f \in Seq(Accesses) /\ card \in Cards /\ SpiOK
  BY Separating DEF Typed
<1>3. spi.busy /\ Free' /\ spi'.cs = spi.cs /\ UNCHANGED drv
  BY <1>2, ByteEnds
<1>4. k = 2 /\ spi.cs = 1
  <2>1. Len(f) \in {3, 4}
    BY Separating
  <2>2. k \in 0 .. 4
    BY <2>1
  <2>3. ~Free
    BY <1>3 DEF Free
  <2> QED
    BY <1>1, <2>2, <2>3 DEF Parting
<1>5. Gentle /\ card'.packet = card.packet /\ card'.reply = card.reply
  BY <1>2, <1>4, ByteWakes
<1>6. Parting(2)' /\ script' = SubSeq(f, 2 + 1, Len(f))
  BY <1>1, <1>3, <1>4 DEF Parting, Rest, drv
<1> QED
  BY <1>1, <1>3, <1>4, <1>5, <1>6 DEF Silent

\* When the script is over: the card has been deselected, or selected again.
LEMMA PartsEnd ==
    ASSUME script = <<>>
    PROVE  /\ Parts(deselect) => Parting(3)
           /\ Parts(deselect \o select) => Parting(4)
<1>1. \A f : f \in Separations /\ Parts(f) => Parting(Len(f))
  <2> SUFFICES ASSUME NEW f \in Separations, Parts(f)
               PROVE  Parting(Len(f))
    OBVIOUS
  <2>1. PICK k \in 0 .. Len(f) : Rest(f, k) /\ Parting(k)
    BY DEF Parts
  <2>2. f \in Seq(Accesses)
    BY Separating
  <2> QED
    BY <2>1, <2>2, EndOf
<1>2. /\ deselect \in Separations /\ (deselect \o select) \in Separations
      /\ Len(deselect) = 3 /\ Len(deselect \o select) = 4
  BY SelectScript DEF Separations
<1> QED
  BY <1>1, <1>2

LEMMA PartsBegin ==
    ASSUME NEW f \in Separations, script' = f, Free'
    PROVE  \E k \in 0 .. Len(f) : script' = SubSeq(f, k + 1, Len(f)) /\ Parting(k)'
<1>1. f \in Seq(Accesses) /\ 0 \in 0 .. Len(f)
  BY Separating
<1>2. script' = SubSeq(f, 0 + 1, Len(f))
  BY <1>1, RestEnds
<1>3. Parting(0)'
  BY DEF Parting
<1> QED
  BY <1>1, <1>2, <1>3

-----------------------------------------------------------------------------
(***************************************************************************)
(* Receiving.                                                              *)
(***************************************************************************)

\* One element more.
LEMMA Longer ==
    ASSUME NEW S, NEW p \in Seq(S), NEW a \in 1 .. Len(p), NEW n \in a - 1 .. Len(p) - 1
    PROVE  Append(SubSeq(p, a, n), p[n + 1]) = SubSeq(p, a, n + 1)
<1>1. Len(p) \in Nat
  BY LenProperties
<1>2. n + 1 \in a .. Len(p) /\ n + 1 - 1 = n /\ a \in Int /\ n \in Int
  BY <1>1
<1>3. SubSeq(p, a, n + 1) = SubSeq(p, a, n + 1 - 1) \o <<p[n + 1]>>
  BY <1>2, SubSeqRecursiveSecond
<1>4. \A i \in a .. n : p[i] \in S
  <2>1. \A i \in a .. n : i \in 1 .. Len(p)
    BY <1>1
  <2> QED
    BY <2>1, ElementOfSeq
<1>5. SubSeq(p, a, n) \in Seq(S)
  BY <1>2, <1>4, SubSeqProperties
<1>6. p[n + 1] \in S
  BY <1>1, <1>2, ElementOfSeq
<1> QED
  BY <1>2, <1>3, <1>5, <1>6, AppendIsConcat

LEMMA KeptNext ==
    ASSUME NEW bytes \in Seq(Char), NEW from \in 0 .. Len(bytes), NEW to \in from .. Len(bytes),
           NEW i \in 0 .. Len(bytes) - 1, Kept(bytes, i, from, to),
           got' = IF from <= i /\ i < to THEN Append(got, bytes[i + 1]) ELSE got
    PROVE  got' = SubSeq(bytes, from + 1, IF i + 1 < to THEN i + 1 ELSE to)
<1>1. Len(bytes) \in Nat
  BY LenProperties
<1>2. got = SubSeq(bytes, from + 1, IF i < to THEN i ELSE to)
  BY DEF Kept
<1>3. CASE from <= i /\ i < to
  <2>1. from + 1 \in 1 .. Len(bytes) /\ i \in (from + 1) - 1 .. Len(bytes) - 1
    BY <1>1, <1>3
  <2>2. Append(SubSeq(bytes, from + 1, i), bytes[i + 1]) = SubSeq(bytes, from + 1, i + 1)
    BY <2>1, Longer
  <2>3. (IF i + 1 < to THEN i + 1 ELSE to) = i + 1
    BY <1>1, <1>3
  <2> QED
    BY <1>2, <1>3, <2>2, <2>3
<1>4. CASE i < from
  <2> DEFINE n == IF i < to THEN i ELSE to
  <2> DEFINE m == IF i + 1 < to THEN i + 1 ELSE to
  <2>1. /\ n \in Int /\ n < from + 1 /\ m \in Int /\ m < from + 1 /\ from + 1 \in Int
    BY <1>1, <1>4
  <2>2. got = SubSeq(bytes, from + 1, n) /\ got' = got
    BY <1>1, <1>2, <1>4
  <2> HIDE DEF n, m
  <2>3. SubSeq(bytes, from + 1, n) = <<>> /\ SubSeq(bytes, from + 1, m) = <<>>
    BY <2>1, SubSeqEmpty
  <2> QED
    BY <2>2, <2>3 DEF m
<1>5. CASE i >= to
  <2>1. got' = got /\ (IF i < to THEN i ELSE to) = to /\ (IF i + 1 < to THEN i + 1 ELSE to) = to
    BY <1>1, <1>5
  <2> QED
    BY <1>2, <2>1
<1> QED
  BY <1>1, <1>3, <1>4, <1>5

LEMMA ListeningByte ==
    ASSUME Typed, Awake, NEW bytes \in Seq(Char), NEW i, NEW k, Listening(bytes, i, k), Byte
    PROVE  Listening(bytes, i, k)' /\ Gentle /\ UNCHANGED drv
<1>1. card \in Cards /\ SpiOK
  BY DEF Typed
<1>2. spi.busy /\ Free' /\ spi'.cs = spi.cs /\ UNCHANGED drv
  BY <1>1, ByteEnds
<1>3. /\ i \in 0 .. Len(bytes) /\ spi.cs = 0 /\ card.packet = <<>>
      /\ k = 2 * i + 1 /\ i < Len(bytes)
      /\ card.reply = SubSeq(bytes, i + 1, Len(bytes))
  BY <1>2 DEF Listening, Free
<1>4. /\ card.reply # <<>> /\ Head(card.reply) = bytes[i + 1]
      /\ Tail(card.reply) = SubSeq(bytes, i + 2, Len(bytes))
  <2> DEFINE r == SubSeq(bytes, i + 1, Len(bytes))
  <2>1. i \in 0 .. Len(bytes) /\ Len(bytes) \in Nat
    BY <1>3, LenProperties
  <2>2. /\ r = <<>> <=> i = Len(bytes)
        /\ i < Len(bytes) => Head(r) = bytes[i + 1] /\ Tail(r) = SubSeq(bytes, i + 2, Len(bytes))
    BY <2>1, RestOf
  <2> HIDE DEF r
  <2>3. r # <<>>
    BY <1>3, <2>1, <2>2
  <2>4. card.reply = r
    BY <1>3 DEF r
  <2> QED
    BY <1>3, <2>2, <2>3, <2>4
<1>5. ~NoCard /\ card.waking = 10
  BY DEF Awake
<1>6. /\ Gentle /\ card'.packet = <<>> /\ card'.reply = SubSeq(bytes, i + 2, Len(bytes))
      /\ spi'.data = bytes[i + 1]
  BY <1>1, <1>3, <1>4, <1>5, ByteSays
<1> QED
  BY <1>2, <1>3, <1>6 DEF Listening

\* The accesses of rcv_spi: the first begins a byte, the second takes it.
LEMMA ListeningClock ==
    ASSUME Typed, NEW bytes \in Seq(Char), NEW i \in 0 .. Len(bytes) - 1, NEW k, k = 2 * i,
           Listening(bytes, i, k), Does(Clock), Steady
    PROVE  Listening(bytes, i, k + 1)' /\ Gentle /\ res' = res /\ got' = got
<1>1. card \in Cards /\ SpiOK
  BY DEF Typed
<1>2. WriteData(255) /\ UNCHANGED <<card, res, got>>
  BY Doings
<1>3. Gentle
  BY <1>1, <1>2, SelectedCard
<1>4. Len(bytes) \in Nat
  BY LenProperties
<1>5. spi.cs = 0 /\ card.packet = <<>> /\ Free /\ card.reply = SubSeq(bytes, i + 1, Len(bytes))
  BY <1>4 DEF Listening
<1>6. spi'.cs = 0 /\ spi'.busy
  BY <1>1, <1>2, <1>5 DEF SpiOK, WriteData, Free
<1>7. /\ i \in 0 .. Len(bytes) /\ i < Len(bytes) /\ k + 1 = 2 * i + 1
      /\ card'.packet = <<>> /\ card'.reply = SubSeq(bytes, i + 1, Len(bytes))
  BY <1>2, <1>4, <1>5
<1> QED
  BY <1>2, <1>3, <1>6, <1>7 DEF Listening

LEMMA ListeningTake ==
    ASSUME Typed, NEW bytes \in Seq(Char), NEW i \in 0 .. Len(bytes) - 1, NEW k, k = 2 * i + 1,
           Listening(bytes, i, k), NEW use \in Uses, Does(Take(use)), Steady
    PROVE  /\ Listening(bytes, i + 1, k + 1)' /\ Gentle
           /\ res' = IF use = "use" THEN bytes[i + 1] ELSE res
           /\ got' = IF use = "keep" THEN Append(got, bytes[i + 1]) ELSE got
<1>1. card \in Cards /\ SpiOK
  BY DEF Typed
<1>2. /\ Free /\ UNCHANGED <<spi, card>>
      /\ res' = IF use = "use" THEN spi.data ELSE res
      /\ got' = IF use = "keep" THEN Append(got, spi.data) ELSE got
  BY Doings DEF Uses
<1>3. Gentle
  BY <1>1, <1>2, SelectedCard
<1>4. Len(bytes) \in Nat
  BY LenProperties
<1>5. /\ spi.cs = 0 /\ card.packet = <<>> /\ card.reply = SubSeq(bytes, i + 2, Len(bytes))
      /\ spi.data = bytes[i + 1]
  BY <1>2, <1>4 DEF Listening, Free
<1>6. Listening(bytes, i + 1, k + 1)'
  <2>1. i + 1 \in 0 .. Len(bytes) /\ k + 1 = 2 * (i + 1) /\ i + 2 = (i + 1) + 1
    BY <1>4
  <2>2. /\ spi'.cs = 0 /\ card'.packet = <<>> /\ Free'
        /\ card'.reply = SubSeq(bytes, (i + 1) + 1, Len(bytes))
    BY <1>2, <1>5, <2>1 DEF Free
  <2> QED
    BY <2>1, <2>2 DEF Listening
<1> QED
  BY <1>2, <1>3, <1>5, <1>6

-----------------------------------------------------------------------------
(***************************************************************************)
(* Each phase through an access and a byte.  First those that deselect the *)
(* card or make no access at all.                                          *)
(***************************************************************************)

LEMMA PartsStep ==
    ASSUME Typed, NEW f \in Separations, Parts(f), Access \/ Byte
    PROVE  /\ \E k \in 0 .. Len(f) : script' = SubSeq(f, k + 1, Len(f)) /\ Parting(k)'
           /\ Gentle /\ pc' = pc /\ status' = status /\ res' = res /\ got' = got
           /\ Silent => Silent'
<1>1. CASE Access
  BY <1>1, PartsAccess DEF Steady
<1>2. CASE Byte
  BY <1>2, PartsByte DEF drv
<1> QED
  BY <1>1, <1>2

LEMMA DeselectStep ==
    ASSUME Typed, Parts(deselect), Access \/ Byte
    PROVE  /\ Parts(deselect)'
           /\ Gentle /\ pc' = pc /\ status' = status /\ res' = res /\ got' = got
           /\ Silent => Silent'
<1>1. deselect \in Separations
  BY DEF Separations
<1> QED
  BY <1>1, PartsStep DEF Parts, Rest

LEMMA SelectStep ==
    ASSUME Typed, Parts(deselect \o select), Access \/ Byte
    PROVE  /\ Parts(deselect \o select)'
           /\ Gentle /\ pc' = pc /\ status' = status /\ res' = res /\ got' = got
<1>1. (deselect \o select) \in Separations
  BY DEF Separations
<1> QED
  BY <1>1, PartsStep DEF Parts, Rest

LEMMA SelectingStep ==
    ASSUME Typed, Selecting, Access \/ Byte
    PROVE  Selecting'
<1>1. card \in Cards
  BY DEF Typed
<1> QED
  BY <1>1, SelectStep, GentleStep DEF Selecting

LEMMA FinishingStep ==
    ASSUME Typed, Finishing, Access \/ Byte
    PROVE  Finishing'
<1>1. card \in Cards
  BY DEF Typed
<1>2. CardType' = CardType
  BY DeselectStep DEF Finishing, Gentle
<1> QED
  BY <1>1, <1>2, DeselectStep, GentleStep DEF Finishing

LEMMA ClosingStep ==
    ASSUME Typed, Closing, Access \/ Byte
    PROVE  Closing'
<1>1. card \in Cards
  BY DEF Typed
<1>2. /\ Parts(deselect)' /\ Gentle /\ pc' = pc /\ status' = status /\ got' = got
      /\ Silent => Silent'
  BY DeselectStep DEF Closing
<1>3. Known'
  BY <1>1, <1>2, GentleStep DEF Closing
<1>4. request' = request /\ card'.failed = card.failed /\ card'.late = card.late
  BY <1>2 DEF Gentle
<1>5. ReadsWhatWasAsked => ReadsWhatWasAsked'
  BY <1>2, <1>4 DEF ReadsWhatWasAsked, Sector, Data
<1> QED
  BY <1>2, <1>3, <1>4, <1>5 DEF Closing

LEMMA ToldStep ==
    ASSUME Typed, Told, Access \/ Byte
    PROVE  Told'
<1>1. card \in Cards /\ SpiOK
  BY DEF Typed
<1>2. ~cmd.deselct => script = <<>> /\ Free
  BY DEF Told
<1>3. cmd.deselct
  <2>1. Access => script # <<>>
    BY DEF Access
  <2>2. Byte => ~Free
    BY <1>1, ByteEnds DEF Free
  <2> QED
    BY <1>2, <2>1, <2>2
<1>4. Parts(deselect \o select)
  BY <1>3 DEF Told
<1>5. Parts(deselect \o select)' /\ Gentle /\ pc' = pc /\ res' = res
  BY <1>4, SelectStep
<1>6. Commanded' /\ After' /\ (NoCard' <=> NoCard) /\ First' = First
  BY <1>1, <1>5, GentleStep, GentleAnswers DEF Told
<1>7. cmd' = cmd /\ (Is(SdCards)' <=> Is(SdCards))
  BY <1>5 DEF Gentle, Is
<1>8. script # <<>> \/ Byte
  BY DEF Access
<1>9. IF cmd'.app THEN pc' = "app" \/ (pc' = cmd'.caller /\ script' = <<>> /\ ~Is(SdCards)')
      ELSE pc' = cmd'.caller
  <2>1. CASE Access
    BY <1>5, <1>7, <2>1 DEF Told, Access
  <2>2. CASE Byte
    <3>1. script' = script
      BY <1>1, <2>2, ByteEnds DEF drv
    <3> QED
      BY <1>5, <1>7, <3>1 DEF Told
  <2> QED
    BY <2>1, <2>2
<1> QED
  BY <1>3, <1>5, <1>6, <1>7, <1>9 DEF Told

LEMMA IdleSteps ==
    ASSUME Typed, Starting \/ Resigned \/ Serving, Access \/ Byte
    PROVE  Starting'
<1>1. script = <<>> /\ ~Access
  BY DEF Access, Starting, Resigned, Serving
<1>2. SpiOK /\ Byte
  BY <1>1 DEF Typed
<1>3. ~Free /\ UNCHANGED drv
  BY <1>2, ByteEnds DEF Free
<1>4. Starting
  BY <1>3 DEF Resigned, Serving
<1> QED
  BY <1>3, <1>4 DEF Starting, drv

-----------------------------------------------------------------------------
(***************************************************************************)
(* What the card says in a reply.                                          *)
(***************************************************************************)

\* One element before others.
LEMMA Before1 ==
    ASSUME NEW S, NEW a \in S, NEW s \in Seq(S)
    PROVE  LET f == <<a>> \o s IN
           /\ f \in Seq(S) /\ f # <<>> /\ Len(f) = Len(s) + 1
           /\ f[1] = a /\ Head(f) = a /\ Tail(f) = s
<1> DEFINE p == <<a>>
<1> DEFINE f == p \o s
<1> DEFINE m == 1
<1> DEFINE n == Len(s)
<1>1. p \in Seq(S) /\ Len(p) = m /\ p[1] = a
  OBVIOUS
<1>2. m = 1
  OBVIOUS
<1>3. Len(s) = n /\ n \in Nat
  BY LenProperties
<1> HIDE DEF p, m, n
<1>4. f \in Seq(S) /\ Len(f) = m + n
  BY <1>1, <1>3, JoinedLength
<1>5. \A i \in 1 .. m : f[i] = p[i]
  BY <1>1, JoinedFirst
<1>6. ASSUME NEW j \in 1 .. n
      PROVE  f[m + j] = s[j]
  BY <1>1, <1>3, JoinedSecond
<1> HIDE DEF f
<1>7. f # <<>> /\ Len(f) = n + 1
  BY <1>2, <1>3, <1>4, EmptySeq
<1>8. f[1] = a
  BY <1>1, <1>2, <1>5
<1>9. Head(f) = f[1]
  BY <1>4, <1>7
<1>10. /\ Tail(f) \in Seq(S) /\ Len(Tail(f)) = Len(f) - 1
       /\ \A i \in 1 .. Len(Tail(f)) : Tail(f)[i] = f[i + 1]
  BY <1>4, <1>7, HeadTailProperties
<1>11. Len(Tail(f)) = n
  BY <1>3, <1>7, <1>10
<1>12. ASSUME NEW i \in 1 .. n
       PROVE  Tail(f)[i] = s[i]
  <2>1. Tail(f)[i] = f[i + 1]
    BY <1>10, <1>11
  <2>2. i + 1 = m + i
    BY <1>2, <1>3
  <2> QED
    BY <1>6, <2>1, <2>2
<1>13. Tail(f) = s
  BY <1>3, <1>10, <1>11, <1>12, SeqEqual
<1> QED
  BY <1>3, <1>4, <1>7, <1>8, <1>9, <1>13 DEF f, p

LEMMA FrameTypes ==
    ASSUME NEW sector \in Nat
    PROVE  /\ Frame(sector) \in Seq(Char) /\ Frame(sector) # <<>>
           /\ Frame(sector)[1] = (IF card.failed THEN 8 ELSE 254)
           /\ ~card.failed => Tail(Frame(sector)) = Sector(sector) \o <<170, 187>>
<1> DEFINE a == 254
<1> DEFINE s == Sector(sector)
<1> DEFINE e == <<170, 187>>
<1>1. /\ a \in Char /\ s \in Seq(Char) /\ e \in Seq(Char)
      /\ <<a>> \in Seq(Char) /\ <<8>> \in Seq(Char)
  BY SectorTypes, ByteSequences DEF Char
<1>2. CASE card.failed
  <2>1. Frame(sector) = <<8>>
    BY <1>2 DEF Frame
  <2> QED
    BY <1>1, <1>2, <2>1
<1>3. CASE ~card.failed
  <2>1. Frame(sector) = (<<a>> \o s) \o e
    BY <1>3 DEF Frame
  <2>2. a = 254 /\ s = Sector(sector) /\ e = <<170, 187>>
    OBVIOUS
  <2> HIDE DEF a, s, e
  <2>3. Frame(sector) = <<a>> \o (s \o e) /\ s \o e \in Seq(Char)
    BY <1>1, <2>1, ConcatAssociative, ConcatProperties
  <2> DEFINE t == s \o e
  <2>4. t \in Seq(Char) /\ Frame(sector) = <<a>> \o t /\ t = Sector(sector) \o <<170, 187>>
    BY <2>2, <2>3
  <2> HIDE DEF t
  <2> QED
    BY <1>1, <1>3, <2>2, <2>4, Before1
<1> QED
  BY <1>2, <1>3

LEMMA BlockOf ==
    ASSUME request \in Requests \cup {NoRequest}
    PROVE  /\ BlockBytes \in Seq(Char) /\ Len(BlockBytes) = SectorSize + 2
           /\ SubSeq(BlockBytes, request.offset + 1, request.offset + request.count)
              = SubSeq(Sector(request.sector), request.offset + 1,
                       request.offset + request.count)
<1> DEFINE s == Sector(request.sector)
<1> DEFINE e == <<170, 187>>
<1> DEFINE m == request.offset + 1
<1> DEFINE n == request.offset + request.count
<1>1. request.sector \in Nat
  <2>1. \A r \in Requests : r.sector \in Sectors
    BY DEF Requests
  <2>2. NoRequest.sector = 0
    BY DEF NoRequest
  <2>3. \A i \in Sectors : i \in Nat
    BY CardConstants
  <2>4. request = NoRequest \/ request \in Requests
    OBVIOUS
  <2> QED
    BY <2>1, <2>2, <2>3, <2>4
<1>2. s \in Seq(Char) /\ Len(s) = SectorSize /\ SectorSize \in Nat
  BY <1>1, SectorTypes, CardConstants
<1> DEFINE two == 2
<1>3. e \in Seq(Char) /\ Len(e) = two
  BY ByteSequences
<1>a. two = 2
  OBVIOUS
<1>4. m \in 1 .. SectorSize /\ n \in 1 .. SectorSize
  BY CardConstants DEF Requests, NoRequest
<1>5. BlockBytes = s \o e
  BY DEF BlockBytes
<1> HIDE DEF s, e, m, n, two
<1>6. BlockBytes \in Seq(Char)
  BY <1>2, <1>3, <1>5, ConcatProperties
<1>7. Len(s \o e) = SectorSize + two
  BY <1>2, <1>3, JoinedLength
<1>8. SubSeq(s \o e, m, n) = SubSeq(s, m, n)
  BY <1>2, <1>3, <1>4, SubSeqOfConcat1
<1> QED
  BY <1>a, <1>5, <1>6, <1>7, <1>8 DEF s, m, n

-----------------------------------------------------------------------------
(***************************************************************************)
(* Those that receive.                                                     *)
(***************************************************************************)

\* Before an access of a script that only receives a byte is to come.
LEMMA ListeningMore ==
    ASSUME NEW bytes \in Seq(Char), NEW i, NEW k \in Nat, Listening(bytes, i, k),
           k < 2 * Len(bytes)
    PROVE  i \in 0 .. Len(bytes) - 1 /\ (k = 2 * i \/ k = 2 * i + 1)
<1>1. Len(bytes) \in Nat
  BY LenProperties
<1> QED
  BY <1>1 DEF Listening

LEMMA RequestedSector ==
    ASSUME Typed
    PROVE  request.sector \in Nat
<1>1. \A r \in Requests : r.sector \in Sectors
  BY DEF Requests
<1>2. NoRequest.sector = 0
  BY DEF NoRequest
<1>3. \A i \in Sectors : i \in Nat
  BY CardConstants
<1>4. request = NoRequest \/ request \in Requests
  BY DEF Typed
<1> QED
  BY <1>1, <1>2, <1>3, <1>4

LEMMA HopingBytes ==
    ASSUME NEW d \in Nat, NEW s \in Seq(Char)
    PROVE  LET f == Fill(d) \o s IN
           /\ f \in Seq(Char)
           /\ s # <<>> => Len(f) >= 1
           /\ d = 0 => f = s
           /\ d > 0 => f[1] = 255 /\ SubSeq(f, 2, Len(f)) = Fill(d - 1) \o s
<1> DEFINE f == Fill(d) \o s
<1> DEFINE g == Fill(d - 1) \o s
<1>a. f \in Seq(Char) /\ Len(f) = d + Len(s)
  BY Filled, ZenonT(40)
<1>b. Fill(0) \o s = s
  BY Filled
<1>c. ASSUME d > 0
      PROVE  f # <<>> /\ f[1] = 255 /\ Tail(f) = g
  <2>1. f # <<>>
    BY <1>c, Filled
  <2>2. Head(f) = 255
    BY <1>c, Filled, ZenonT(40)
  <2>3. Tail(f) = g
    BY <1>c, Filled, ZenonT(40)
  <2> HIDE DEF f
  <2>4. Head(f) = f[1]
    BY <1>a, <2>1
  <2> QED
    BY <2>1, <2>2, <2>3, <2>4
<1>2. d = 0 => f = s
  BY <1>b
<1>3. /\ f \in Seq(Char) /\ Len(f) = d + Len(s)
      /\ d > 0 => f # <<>> /\ f[1] = 255 /\ Tail(f) = g
  BY <1>a, <1>c
<1> HIDE DEF f, g
<1>4. Len(s) \in Nat /\ (s # <<>> => Len(s) > 0)
  BY EmptySeq
<1>5. s # <<>> => Len(f) >= 1
  BY <1>3, <1>4
<1>6. f # <<>> => Tail(f) = SubSeq(f, 2, Len(f))
  BY <1>3, TailIsSubSeq
<1>7. f \in Seq(Char) /\ (d > 0 => f[1] = 255 /\ SubSeq(f, 2, Len(f)) = g)
  BY <1>3, <1>6
<1> QED
  BY <1>2, <1>5, <1>7 DEF f, g

LEMMA HopingStep ==
    ASSUME Typed, Hoping, Access \/ Byte
    PROVE  Hoping'
<1> DEFINE f == rcv_spi("use")
<1>1. PICK d \in 0 .. card.late, i \in 0 .. 1, k \in 0 .. 2 :
          /\ card.late - d = TokenTries - tmr
          /\ Rest(f, k)
          /\ Listening(Fill(d) \o Frame(request.sector), i, k)
          /\ k = 2 => res = (Fill(d) \o Frame(request.sector))[1]
  BY DEF Hoping
<1>2. pc = "token" /\ Known /\ tmr \in 1 .. TokenTries
  BY DEF Hoping
<1>3. card \in Cards /\ SpiOK /\ card.late \in Nat
  BY DEF Typed, Cards
<1>4. d \in Nat
  BY <1>1, <1>3
<1>b. Frame(request.sector) \in Seq(Char) /\ Frame(request.sector) # <<>>
  BY RequestedSector, FrameTypes
<1>5. PICK b \in Seq(Char) : b = Fill(d) \o Frame(request.sector) /\ Len(b) >= 1
  BY <1>4, <1>b, HopingBytes
<1>6. /\ f \in Seq(Accesses) /\ Len(f) = 2 /\ f[1] = Clock /\ f[2] = Take("use")
  BY ReceiveScript DEF Uses
<1>a. /\ Rest(f, k) /\ Listening(b, i, k)
      /\ k = 2 => res = b[1]
  BY <1>1, <1>5
<1> HIDE DEF f
<1>7. ASSUME Gentle, pc' = pc, NEW j \in 0 .. 1, NEW l \in 0 .. 2,
             script' = SubSeq(f, l + 1, Len(f)), Listening(b, j, l)', l = 2 => res' = b[1]
      PROVE  Hoping'
  <2>1. Known'
    BY <1>2, <1>3, <1>7, GentleStep
  <2>2. card'.late = card.late /\ tmr' = tmr /\ request' = request
    BY <1>7 DEF Gentle
  <2>3. (Fill(d) \o Frame(request.sector))' = b
    BY <1>5, <1>7, <2>2 DEF Gentle, Frame, Sector, Data, Fill
  <2>4. /\ d \in 0 .. card'.late /\ card'.late - d = TokenTries - tmr'
        /\ script' = SubSeq(f, l + 1, Len(f)) /\ Listening(b, j, l)' /\ (l = 2 => res' = b[1])
    BY <1>1, <1>7, <2>2
  <2>5. Hoping' <=> (pc = "token" /\ Known /\ tmr \in 1 .. TokenTries /\
            \E dd \in 0 .. card.late, ii \in 0 .. 1, kk \in 0 .. 2 :
              /\ card.late - dd = TokenTries - tmr
              /\ Rest(f, kk)
              /\ Listening(Fill(dd) \o Frame(request.sector), ii, kk)
              /\ kk = 2 => res = (Fill(dd) \o Frame(request.sector))[1])'
    BY DEF Hoping, f
  <2> QED
    BY <1>2, <1>7, <2>1, <2>2, <2>3, <2>4, <2>5 DEF Rest
<1>8. CASE Byte
  <2>1. Listening(b, i, k)' /\ Gentle /\ UNCHANGED drv
    BY <1>a, <1>2, <1>8, ListeningByte DEF Known
  <2> QED
    BY <1>a, <1>7, <2>1 DEF drv, Rest
<1>9. CASE Access
  <2>1. k \in 0 .. Len(f)
    BY <1>6
  <2>2. /\ k + 1 \in 0 .. Len(f) /\ script' = SubSeq(f, (k + 1) + 1, Len(f))
        /\ Does(f[k + 1]) /\ Steady
    BY <1>6, <1>9, <1>a, <2>1, AccessOf
  <2>3. k \in 0 .. 1
    BY <1>6, <2>2
  <2>4. k < 2 * Len(b) /\ k \in Nat /\ Len(b) \in Nat
    BY <1>5, <2>3, LenProperties
  <2>5. i \in 0 .. Len(b) - 1 /\ (k = 2 * i \/ k = 2 * i + 1)
    BY <1>a, <2>4, ListeningMore
  <2>6. CASE k = 0
    <3>1. i = 0 /\ k = 2 * i
      BY <2>5, <2>6
    <3>2. Does(Clock)
      BY <1>6, <2>2, <2>6
    <3>3. Listening(b, i, k + 1)' /\ Gentle
      BY <1>a, <2>2, <2>5, <3>1, <3>2, ListeningClock
    <3>4. k + 1 \in 0 .. 2 /\ k + 1 # 2 /\ pc' = pc
      BY <2>2, <2>6 DEF Steady
    <3> QED
      BY <1>7, <2>2, <3>1, <3>3, <3>4
  <2>7. CASE k = 1
    <3>1. i = 0 /\ k = 2 * i + 1
      BY <2>5, <2>7
    <3>2. Does(Take("use"))
      BY <1>6, <2>2, <2>7
    <3>3. Listening(b, i + 1, k + 1)' /\ Gentle /\ res' = b[i + 1]
      BY <1>a, <2>2, <2>5, <3>1, <3>2, ListeningTake DEF Uses
    <3>4. k + 1 \in 0 .. 2 /\ i + 1 \in 0 .. 1 /\ i + 1 = 1 /\ pc' = pc
      BY <2>2, <2>7, <3>1 DEF Steady
    <3> QED
      BY <1>7, <2>2, <3>3, <3>4
  <2> QED
    BY <2>3, <2>6, <2>7
<1> QED
  BY <1>8, <1>9

\* A script that keeps some of the bytes it receives.
Keeps(f, b, from, to) ==
    \A j \in 0 .. Len(b) - 1 :
        /\ f[2 * j + 1] = Clock
        /\ f[2 * j + 2] = Take(IF from <= j /\ j < to THEN "keep" ELSE "drop")

LEMMA KeepingAccess ==
    ASSUME Typed, NEW b \in Seq(Char), NEW from \in 0 .. Len(b), NEW to \in from .. Len(b),
           NEW f \in Seq(Accesses), Keeps(f, b, from, to), NEW k \in 0 .. Len(f), Rest(f, k),
           NEW i, Listening(b, i, k), Kept(b, i, from, to), k < 2 * Len(b), Access
    PROVE  /\ k + 1 \in 0 .. Len(f) /\ script' = SubSeq(f, (k + 1) + 1, Len(f))
           /\ \E j \in 0 .. Len(b) : Listening(b, j, k + 1)' /\ Kept(b, j, from, to)'
           /\ Gentle /\ Steady
<1>1. /\ k + 1 \in 0 .. Len(f) /\ script' = SubSeq(f, (k + 1) + 1, Len(f))
      /\ Does(f[k + 1]) /\ Steady
  BY AccessOf
<1>2. k \in Nat /\ Len(b) \in Nat
  BY LenProperties
<1>3. i \in 0 .. Len(b) - 1 /\ (k = 2 * i \/ k = 2 * i + 1)
  BY <1>2, ListeningMore
<1>4. CASE k = 2 * i
  <2>1. f[2 * i + 1] = Clock
    BY <1>3 DEF Keeps
  <2>2. Does(Clock)
    BY <1>1, <1>4, <2>1
  <2>3. Listening(b, i, k + 1)' /\ Gentle /\ got' = got
    BY <1>1, <1>3, <1>4, <2>2, ListeningClock
  <2>4. i \in 0 .. Len(b) /\ Kept(b, i, from, to)'
    BY <1>2, <1>3, <2>3 DEF Kept
  <2> QED
    BY <1>1, <2>3, <2>4
<1>5. CASE k = 2 * i + 1
  <2> DEFINE use == IF from <= i /\ i < to THEN "keep" ELSE "drop"
  <2>1. f[2 * i + 2] = Take(use)
    BY <1>3 DEF Keeps
  <2>2. k + 1 = 2 * i + 2
    BY <1>3, <1>5
  <2>3. use \in Uses /\ (use = "keep" <=> from <= i /\ i < to)
    BY DEF Uses
  <2> HIDE DEF use
  <2>4. Does(Take(use))
    BY <1>1, <2>1, <2>2
  <2>5. /\ Listening(b, i + 1, k + 1)' /\ Gentle
        /\ got' = IF use = "keep" THEN Append(got, b[i + 1]) ELSE got
    BY <1>1, <1>3, <1>5, <2>3, <2>4, ListeningTake
  <2>6. got' = IF from <= i /\ i < to THEN Append(got, b[i + 1]) ELSE got
    BY <2>3, <2>5
  <2>7. got' = SubSeq(b, from + 1, IF i + 1 < to THEN i + 1 ELSE to)
    BY <1>3, <2>6, KeptNext
  <2>8. i + 1 \in 0 .. Len(b) /\ Kept(b, i + 1, from, to)'
    BY <1>2, <1>3, <2>7 DEF Kept
  <2> QED
    BY <1>1, <2>5, <2>8
<1> QED
  BY <1>3, <1>4, <1>5

LEMMA KeepingByte ==
    ASSUME Typed, Awake, NEW b \in Seq(Char), NEW from, NEW to, NEW i, NEW k,
           Listening(b, i, k), Kept(b, i, from, to), Byte
    PROVE  Listening(b, i, k)' /\ Kept(b, i, from, to)' /\ Gentle /\ UNCHANGED drv
<1>1. Listening(b, i, k)' /\ Gentle /\ UNCHANGED drv
  BY ListeningByte
<1> QED
  BY <1>1 DEF Kept, drv

\* The bytes that follow the response to CMD8, and those to CMD58.
LEMMA FourBytes ==
    /\ IfBytes \in Seq(Char) /\ Len(IfBytes) = 4 /\ IfBytes[3] = 1 /\ IfBytes[4] = 170
    /\ OcrBytes \in Seq(Char) /\ Len(OcrBytes) = 4
    /\ OcrBytes[1] = IF Is({"SDHC"}) THEN 192 ELSE 128
BY DEF IfBytes, OcrBytes, Char

LEMMA CapacityStep ==
    ASSUME Typed, Capacity, Access \/ Byte
    PROVE  Capacity'
<1> DEFINE f == Times(4, rcv_spi("keep"))
<1>1. PICK b \in Seq(Char) : b = OcrBytes /\ Len(b) = 4
  BY FourBytes
<1>2. PICK i \in 0 .. 4, k \in 0 .. 8 :
          Rest(f, k) /\ Listening(b, i, k) /\ Kept(b, i, 0, 4)
  BY <1>1 DEF Capacity
<1>3. pc = "ccs" /\ Awake /\ Version2 /\ card.sized /\ ~card.idle /\ card \in Cards
  BY DEF Capacity, Typed
<1>4. f \in Seq(Accesses) /\ Len(f) = 8
  <2>1. "keep" \in Uses /\ 4 \in Nat /\ 2 * 4 = 8 /\ 4 - 1 = 3
    BY DEF Uses
  <2> QED
    BY <2>1, ReceivesScript
<1>5. Keeps(f, b, 0, 4)
  <2>1. "keep" \in Uses /\ 4 \in Nat
    BY DEF Uses
  <2>2. \A i_1 \in 0 .. 4 - 1 : f[2 * i_1 + 1] = Clock /\ f[2 * i_1 + 2] = Take("keep")
    BY <2>1, ReceivesScript
  <2> HIDE DEF f
  <2> QED
    BY <1>1, <2>2 DEF Keeps
<1> HIDE DEF f
<1>6. ASSUME Gentle, pc' = pc, NEW j \in 0 .. 4, NEW l \in 0 .. 8,
             script' = SubSeq(f, l + 1, Len(f)), Listening(b, j, l)', Kept(b, j, 0, 4)'
      PROVE  Capacity'
  <2>1. Awake' /\ Version2' /\ card'.sized /\ ~card'.idle
    BY <1>3, <1>6, GentleStep DEF Gentle
  <2>2. OcrBytes' = b
    BY <1>1, <1>6 DEF OcrBytes, Gentle, Is
  <2> QED
    BY <1>3, <1>6, <2>1, <2>2 DEF Capacity, Rest, f
<1>7. CASE Byte
  <2>1. Listening(b, i, k)' /\ Kept(b, i, 0, 4)' /\ Gentle /\ UNCHANGED drv
    BY <1>2, <1>3, <1>7, KeepingByte
  <2> QED
    BY <1>2, <1>6, <2>1 DEF drv, Rest
<1>8. CASE Access
  <2>1. k \in 0 .. Len(f)
    BY <1>4
  <2>2. k + 1 \in 0 .. Len(f)
    BY <1>2, <1>4, <1>8, <2>1, AccessOf
  <2>3. k < 2 * Len(b) /\ k + 1 \in 0 .. 8
    BY <1>1, <1>4, <2>2
  <2> DEFINE z == 0
  <2> DEFINE m == 4
  <2>4. /\ z \in 0 .. Len(b) /\ m \in z .. Len(b) /\ Keeps(f, b, z, m) /\ Kept(b, i, z, m)
    BY <1>1, <1>2, <1>5
  <2> HIDE DEF z, m
  <2>5. /\ script' = SubSeq(f, (k + 1) + 1, Len(f))
        /\ \E j \in 0 .. Len(b) : Listening(b, j, k + 1)' /\ Kept(b, j, z, m)'
        /\ Gentle /\ Steady
    BY <1>2, <1>4, <1>8, <2>1, <2>3, <2>4, KeepingAccess
  <2>6. PICK j \in 0 .. Len(b) : Listening(b, j, k + 1)' /\ Kept(b, j, z, m)'
    BY <2>5
  <2>7. j \in 0 .. 4 /\ Kept(b, j, 0, 4)' /\ pc' = pc
    BY <1>1, <2>5, <2>6 DEF z, m, Steady
  <2> QED
    BY <1>6, <2>3, <2>5, <2>6, <2>7
<1> QED
  BY <1>7, <1>8

LEMMA CopyingStep ==
    ASSUME Typed, Copying, Access \/ Byte
    PROVE  Copying'
<1>1. request \in Requests \cup {NoRequest} /\ card \in Cards
  BY DEF Typed
<1>2. PICK b \in Seq(Char) : b = BlockBytes /\ Len(b) = SectorSize + 2
  BY <1>1, BlockOf
<1>3. PICK f \in Seq(Accesses) :
          /\ f = Copy(request.offset, request.count) /\ Len(f) = 2 * (SectorSize + 2)
          /\ \A i \in 0 .. SectorSize + 1 : f[2 * i + 1] = Clock /\ f[2 * i + 2] = Take(UseOf(i))
  BY <1>1, CopyScript
<1>4. PICK from \in Nat, to \in Nat :
          /\ from = request.offset /\ to = request.offset + request.count
          /\ from <= to /\ to <= SectorSize
  <2>1. request.offset \in Nat /\ request.count \in Nat
        /\ request.offset + request.count <= SectorSize
    BY <1>1, CardConstants DEF Requests, NoRequest
  <2> QED
    BY <2>1
<1>5. PICK i \in 0 .. SectorSize + 2, k \in 0 .. 2 * (SectorSize + 2) :
          Rest(f, k) /\ Listening(b, i, k) /\ Kept(b, i, from, to)
  BY <1>2, <1>3, <1>4 DEF Copying
<1>6. pc = "copied" /\ Known /\ Awake /\ SectorSize \in Nat
  BY CardConstants DEF Copying, Known
<1>7. Keeps(f, b, from, to)
  <2> SUFFICES ASSUME NEW j \in 0 .. Len(b) - 1
               PROVE  /\ f[2 * j + 1] = Clock
                      /\ f[2 * j + 2] = Take(IF from <= j /\ j < to THEN "keep" ELSE "drop")
    BY DEF Keeps
  <2>1. j \in 0 .. SectorSize + 1
    BY <1>2, <1>6
  <2>2. f[2 * j + 1] = Clock /\ f[2 * j + 2] = Take(UseOf(j))
    BY <1>3, <2>1
  <2>3. UseOf(j) = IF from <= j /\ j < to THEN "keep" ELSE "drop"
    BY <1>4 DEF UseOf
  <2> QED
    BY <2>2, <2>3
<1>8. ASSUME Gentle, pc' = pc, NEW j \in 0 .. SectorSize + 2, NEW l \in 0 .. 2 * (SectorSize + 2),
             script' = SubSeq(f, l + 1, Len(f)), Listening(b, j, l)', Kept(b, j, from, to)'
      PROVE  Copying'
  <2>1. Known'
    BY <1>1, <1>6, <1>8, GentleStep
  <2>2. request' = request
    BY <1>8 DEF Gentle
  <2>3. BlockBytes' = b /\ Copy(request.offset, request.count)' = f
        /\ request'.offset = from /\ request'.offset + request'.count = to
    BY <1>2, <1>3, <1>4, <2>2, ZenonT(40) DEF BlockBytes, Sector, Data, Copy, Trailing, Times, rcv_spi, AtOnce, Wait
  <2> QED
    BY <1>6, <1>8, <2>1, <2>3 DEF Copying, Rest
<1>9. CASE Byte
  <2>1. Listening(b, i, k)' /\ Kept(b, i, from, to)' /\ Gentle /\ UNCHANGED drv
    BY <1>5, <1>6, <1>9, KeepingByte
  <2> QED
    BY <1>5, <1>8, <2>1 DEF drv, Rest
<1>10. CASE Access
  <2>1. k \in 0 .. Len(f)
    BY <1>3
  <2>2. k + 1 \in 0 .. Len(f)
    BY <1>5, <1>10, <2>1, AccessOf
  <2>3. k < 2 * Len(b) /\ k + 1 \in 0 .. 2 * (SectorSize + 2)
    BY <1>2, <1>3, <1>6, <2>2
  <2>4. from \in 0 .. Len(b) /\ to \in from .. Len(b)
    BY <1>2, <1>4, <1>6
  <2>5. /\ script' = SubSeq(f, (k + 1) + 1, Len(f))
        /\ \E j \in 0 .. Len(b) : Listening(b, j, k + 1)' /\ Kept(b, j, from, to)'
        /\ Gentle /\ Steady
    BY <1>5, <1>7, <1>10, <2>1, <2>3, <2>4, KeepingAccess
  <2>6. PICK j \in 0 .. Len(b) : Listening(b, j, k + 1)' /\ Kept(b, j, from, to)'
    BY <2>5
  <2>7. j \in 0 .. SectorSize + 2 /\ pc' = pc
    BY <1>2, <2>5 DEF Steady
  <2> QED
    BY <1>8, <2>3, <2>5, <2>6, <2>7
<1> QED
  BY <1>9, <1>10

LEMMA Range2Step ==
    ASSUME Typed, Range2, Access \/ Byte
    PROVE  Range2'
<1> DEFINE f == Times(4, rcv_spi("keep")) \o deselect \o select
<1> DEFINE b == IfBytes
<1>1. b \in Seq(Char) /\ Len(b) = 4
  BY FourBytes
<1>2. PICK k \in 0 .. 12 :
          /\ Rest(f, k)
          /\ \/ \E i \in 0 .. 4 : Listening(b, i, k) /\ Kept(b, i, 0, 4)
             \/ k >= 8 /\ Parting(k - 8) /\ got = b
  BY DEF Range2
<1>3. pc = "range" /\ Fresh /\ Version2 /\ Awake /\ card \in Cards /\ SpiOK /\ Deselected
  BY DEF Range2, Typed, Fresh
<1>4. /\ f \in Seq(Accesses) /\ Len(f) = 12
      /\ f[9] = Cs(1) /\ f[10] = Clock /\ f[11] = Take("drop") /\ f[12] = Cs(0)
  BY RangeScript
<1>5. Keeps(f, b, 0, 4)
  <2>1. \A i \in 0 .. 3 : f[2 * i + 1] = Clock /\ f[2 * i + 2] = Take("keep")
    BY RangeScript
  <2> HIDE DEF f, b
  <2> QED
    BY <1>1, <2>1 DEF Keeps
<1> HIDE DEF f, b
<1>6. ASSUME Gentle, pc' = pc, NEW l \in 0 .. 12, script' = SubSeq(f, l + 1, Len(f)),
             \/ \E j \in 0 .. 4 : Listening(b, j, l)' /\ Kept(b, j, 0, 4)'
             \/ l >= 8 /\ Parting(l - 8)' /\ got' = b
      PROVE  Range2'
  <2>1. Fresh' /\ Version2'
    BY <1>3, <1>6, GentleStep
  <2> QED
    BY <1>3, <1>6, <2>1 DEF Range2, Rest, f, b
<1>a. ASSUME Gentle, pc' = pc, NEW l \in 8 .. 12, script' = SubSeq(f, l + 1, Len(f)),
             Parting(l - 8)', got' = b
      PROVE  Range2'
  <2>1. l \in 0 .. 12 /\ l >= 8
    OBVIOUS
  <2> QED
    BY <1>6, <1>a, <2>1
<1>7. CASE Byte
  <2>1. CASE \E i \in 0 .. 4 : Listening(b, i, k) /\ Kept(b, i, 0, 4)
    <3>1. PICK i \in 0 .. 4 : Listening(b, i, k) /\ Kept(b, i, 0, 4)
      BY <2>1
    <3>2. Listening(b, i, k)' /\ Kept(b, i, 0, 4)' /\ Gentle /\ UNCHANGED drv
      BY <1>1, <1>3, <1>7, <3>1, KeepingByte
    <3> QED
      BY <1>2, <1>6, <3>2 DEF drv, Rest
  <2>2. CASE k >= 8 /\ Parting(k - 8) /\ got = b
    <3>1. spi.busy /\ Free' /\ spi'.cs = spi.cs /\ UNCHANGED drv
      BY <1>3, <1>7, ByteEnds
    <3>2. k - 8 = 2 /\ spi.cs = 1
      BY <2>2, <3>1 DEF Parting, Free
    <3>3. Gentle
      BY <1>3, <1>7, <3>2, ByteWakes
    <3>4. Parting(k - 8)'
      BY <3>1, <3>2 DEF Parting
    <3> QED
      BY <1>2, <1>6, <2>2, <3>1, <3>3, <3>4 DEF drv, Rest
  <2> QED
    BY <1>2, <2>1, <2>2
<1>8. CASE Access
  <2>1. k \in 0 .. Len(f)
    BY <1>4
  <2>2. /\ k + 1 \in 0 .. Len(f) /\ script' = SubSeq(f, (k + 1) + 1, Len(f))
        /\ Does(f[k + 1]) /\ Steady
    BY <1>2, <1>4, <1>8, <2>1, AccessOf
  <2>3. k + 1 \in 0 .. 12 /\ pc' = pc
    BY <1>4, <2>2 DEF Steady
  <2>4. CASE k < 8
    <3>1. PICK i \in 0 .. 4 : Listening(b, i, k) /\ Kept(b, i, 0, 4)
      BY <1>2, <2>4
    <3>2. k < 2 * Len(b)
      BY <1>1, <2>4
    <3> DEFINE z == 0
    <3> DEFINE m == 4
    <3>3. /\ z \in 0 .. Len(b) /\ m \in z .. Len(b) /\ Keeps(f, b, z, m) /\ Kept(b, i, z, m)
      BY <1>1, <1>5, <3>1
    <3> HIDE DEF z, m
    <3>4. /\ \E j \in 0 .. Len(b) : Listening(b, j, k + 1)' /\ Kept(b, j, z, m)'
          /\ Gentle
      BY <1>1, <1>2, <1>4, <1>8, <2>1, <3>1, <3>2, <3>3, KeepingAccess
    <3>5. PICK j \in 0 .. Len(b) : Listening(b, j, k + 1)' /\ Kept(b, j, z, m)'
      BY <3>4
    <3>6. j \in 0 .. 4 /\ Kept(b, j, 0, 4)'
      BY <1>1, <3>5 DEF z, m
    <3> QED
      BY <1>6, <2>2, <2>3, <3>4, <3>5, <3>6
  <2>5. CASE k >= 8
    <3>1. Parting(k - 8) /\ got = b
      <4>1. CASE \E i \in 0 .. 4 : Listening(b, i, k) /\ Kept(b, i, 0, 4)
        <5>1. PICK i \in 0 .. 4 : Listening(b, i, k) /\ Kept(b, i, 0, 4)
          BY <4>1
        <5>2. k = 8 /\ i = 4 /\ Free
          BY <1>1, <2>5, <5>1 DEF Listening
        <5>3. got = SubSeq(b, 1, 4)
          BY <5>1, <5>2 DEF Kept
        <5>4. SubSeq(b, 1, Len(b)) = b
          BY <1>1, SubSeqFull
        <5>5. Parting(0)
          BY <5>2 DEF Parting
        <5> QED
          BY <1>1, <5>2, <5>3, <5>4, <5>5
      <4> QED
        BY <1>2, <4>1
    <3>2. k \in 8 .. 11 /\ k + 1 \in 8 .. 12
      BY <2>3, <2>5
    <3>7. PICK l \in 8 .. 12 : l = k + 1 /\ script' = SubSeq(f, l + 1, Len(f))
      BY <2>2, <3>2
    <3>3. CASE k = 8
      <4>1. Free /\ WriteCs(1) /\ Selected(1) /\ UNCHANGED <<res, got>>
        BY <1>4, <2>2, <3>3, Doings
      <4>2. Gentle
        BY <1>3, <2>2, <4>1, SelectedCard
      <4>3. Free' /\ spi'.cs = 1
        BY <1>3, <4>1 DEF SpiOK, WriteCs, Free
      <4>4. Parting(l - 8)' /\ got' = b
        BY <3>1, <3>3, <3>7, <4>1, <4>3 DEF Parting
      <4> QED
        BY <1>a, <2>3, <3>7, <4>2, <4>4
    <3>4. CASE k = 9
      <4>1. WriteData(255) /\ UNCHANGED <<card, res, got>>
        BY <1>4, <2>2, <3>4, Doings
      <4>2. Gentle
        BY <1>3, <2>2, <4>1, SelectedCard
      <4>3. spi'.cs = 1
        BY <1>3, <3>1, <3>4, <4>1 DEF SpiOK, WriteData, Parting
      <4>4. Parting(l - 8)' /\ got' = b
        BY <3>1, <3>4, <3>7, <4>1, <4>3 DEF Parting
      <4> QED
        BY <1>a, <2>3, <3>7, <4>2, <4>4
    <3>5. CASE k = 10
      <4>1. Free /\ UNCHANGED <<spi, card, res, got>>
        BY <1>4, <2>2, <3>5, Doings
      <4>2. Gentle
        BY <1>3, <2>2, <4>1, SelectedCard
      <4>3. Free' /\ spi'.cs = 1
        BY <3>1, <3>5, <4>1 DEF Free, Parting
      <4>4. Parting(l - 8)' /\ got' = b
        BY <3>1, <3>5, <3>7, <4>1, <4>3 DEF Parting
      <4> QED
        BY <1>a, <2>3, <3>7, <4>2, <4>4
    <3>6. CASE k = 11
      <4>1. Free /\ WriteCs(0) /\ Selected(0) /\ UNCHANGED <<res, got>>
        BY <1>4, <2>2, <3>6, Doings
      <4>2. Gentle /\ card' = card
        BY <1>3, <2>2, <4>1, SelectedCard
      <4>3. Silent
        BY <1>3, <3>1, <3>6 DEF Parting, Deselected
      <4>4. Free' /\ spi'.cs = 0 /\ Silent'
        BY <1>3, <4>1, <4>2, <4>3 DEF SpiOK, WriteCs, Free, Silent
      <4>5. Parting(l - 8)' /\ got' = b
        BY <3>1, <3>6, <3>7, <4>1, <4>4 DEF Parting
      <4> QED
        BY <1>a, <2>3, <3>7, <4>2, <4>5
    <3> QED
      BY <3>2, <3>3, <3>4, <3>5, <3>6
  <2> QED
    BY <1>2, <2>4, <2>5
<1> QED
  BY <1>7, <1>8

-----------------------------------------------------------------------------
(***************************************************************************)
(* The clocks before the first command.                                    *)
(***************************************************************************)

\* q * 3 + r accesses of them.
Clocking(q, r) ==
    /\ 3 * q + r > 0 => spi.cs = 1 /\ (r < 2 => Free)
    /\ LET clocked == IF r = 2 /\ Free THEN q + 1 ELSE q
       IN  NoCard \/ card.waking >= IF clocked < 10 THEN clocked ELSE 10

LEMMA DummiesStep ==
    ASSUME Typed, Dummies, Access \/ Byte
    PROVE  Dummies'
<1>1. PICK f \in Seq(Accesses) :
          /\ f = Times(DummyBytes, deselect) /\ Len(f) = 3 * DummyBytes
          /\ \A q \in 0 .. DummyBytes - 1 : /\ f[3 * q + 1] = Cs(1) /\ f[3 * q + 2] = Clock
                                            /\ f[3 * q + 3] = Take("drop")
  BY CardConstants, DummiesScript
<1>2. PICK q \in 0 .. DummyBytes, r \in 0 .. 2 :
          3 * q + r <= 3 * DummyBytes /\ Rest(f, 3 * q + r) /\ Clocking(q, r)
  BY <1>1 DEF Dummies, Clocking
<1>3. /\ pc = "dummies" /\ card \in Cards /\ SpiOK /\ DummyBytes \in Nat
  BY CardConstants DEF Dummies, Typed
<1>4. ASSUME pc' = pc, NEW qq \in 0 .. DummyBytes, NEW rr \in 0 .. 2,
             3 * qq + rr <= 3 * DummyBytes, script' = SubSeq(f, 3 * qq + rr + 1, Len(f)),
             Clocking(qq, rr)'
      PROVE  Dummies'
  BY <1>1, <1>3, <1>4 DEF Dummies, Clocking, Rest
<1>5. CASE Byte
  <2>1. /\ spi.busy /\ Free' /\ ~Free /\ spi'.cs = spi.cs /\ UNCHANGED drv
    BY <1>3, <1>5, ByteEnds DEF Free
  <2>2. CASE 3 * q + r = 0
    <3>1. q = 0 /\ r = 0
      BY <1>3, <2>2
    <3>2. card' \in Cards
      BY <1>5, ByteTyped DEF Typed
    <3>3. Clocking(q, r)'
      BY <3>1, <3>2 DEF Clocking, Cards
    <3> QED
      BY <1>2, <1>4, <2>1, <3>3 DEF drv, Rest
  <2>3. CASE 3 * q + r > 0
    <3>1. r = 2 /\ spi.cs = 1
      BY <1>2, <2>1, <2>3 DEF Clocking
    <3>2. Gentle /\ (NoCard \/ card'.waking >= IF card.waking < 10 THEN card.waking + 1 ELSE 10)
      BY <1>3, <1>5, <3>1, ByteWakes
    <3>3. NoCard \/ card.waking >= IF q < 10 THEN q ELSE 10
      BY <1>2, <2>1 DEF Clocking
    <3>4. card.waking \in 0 .. 10 /\ card'.waking \in 0 .. 10
      BY <1>3, <3>2 DEF Gentle, Cards
    <3>5. NoCard' \/ card'.waking >= IF q + 1 < 10 THEN q + 1 ELSE 10
      <4>1. NoCard' <=> NoCard
        BY <1>3, <3>2, GentleStep
      <4> QED
        BY <3>2, <3>3, <3>4, <4>1, SMTT(30)
    <3>6. Clocking(q, r)'
      BY <2>1, <3>1, <3>5 DEF Clocking
    <3> QED
      BY <1>2, <1>4, <2>1, <3>6 DEF drv, Rest
  <2> QED
    BY <1>3, <2>2, <2>3
<1>6. CASE Access
  <2>1. 3 * q + r \in 0 .. Len(f)
    BY <1>1, <1>2, <1>3
  <2>2. PICK k \in Nat : k = 3 * q + r
    BY <1>3
  <2>3. /\ k + 1 \in 0 .. Len(f) /\ script' = SubSeq(f, (k + 1) + 1, Len(f))
        /\ Does(f[k + 1]) /\ Steady
    BY <1>2, <1>6, <2>1, <2>2, AccessOf
  <2>4. q \in 0 .. DummyBytes - 1 /\ k + 1 <= 3 * DummyBytes /\ pc' = pc
    BY <1>1, <1>3, <2>2, <2>3 DEF Steady
  <2>5. f[3 * q + 1] = Cs(1) /\ f[3 * q + 2] = Clock /\ f[3 * q + 3] = Take("drop")
    BY <1>1, <2>4
  <2>6. CASE r = 0
    <3>1. k + 1 = 3 * q + 1
      BY <2>2, <2>6
    <3>2. Free /\ WriteCs(1) /\ Selected(1)
      BY <2>3, <2>5, <3>1, Doings
    <3>3. Gentle
      BY <1>3, <2>3, <3>2, SelectedCard
    <3>4. Free' /\ spi'.cs = 1
      BY <1>3, <3>2 DEF SpiOK, WriteCs, Free
    <3>5. NoCard' \/ card'.waking >= IF q < 10 THEN q ELSE 10
      <4>1. (NoCard' <=> NoCard) /\ card'.waking >= card.waking
        BY <1>3, <3>3, GentleStep DEF Gentle
      <4>2. NoCard \/ card.waking >= IF q < 10 THEN q ELSE 10
        BY <1>2, <2>6 DEF Clocking
      <4>3. card.waking \in 0 .. 10 /\ card'.waking \in 0 .. 10
        BY <1>3, <3>3 DEF Gentle, Cards
      <4> QED
        BY <4>1, <4>2, <4>3
    <3>6. Clocking(q, 1)'
      BY <3>4, <3>5 DEF Clocking
    <3>7. 3 * q + 1 <= 3 * DummyBytes /\ script' = SubSeq(f, 3 * q + 1 + 1, Len(f))
      BY <2>3, <2>4, <3>1
    <3> QED
      BY <1>4, <2>4, <3>6, <3>7
  <2>7. CASE r = 1
    <3>1. k + 1 = 3 * q + 2
      BY <2>2, <2>7
    <3>2. WriteData(255) /\ UNCHANGED card
      BY <2>3, <2>5, <3>1, Doings
    <3>3. Free /\ spi.cs = 1
      BY <1>2, <1>3, <2>7 DEF Clocking
    <3>4. ~Free' /\ spi'.cs = 1
      BY <1>3, <3>2, <3>3 DEF SpiOK, WriteData, Free
    <3>5. NoCard' \/ card'.waking >= IF q < 10 THEN q ELSE 10
      BY <1>2, <2>7, <3>2 DEF Clocking, NoCard
    <3>6. Clocking(q, 2)'
      BY <3>4, <3>5 DEF Clocking
    <3>7. 3 * q + 2 <= 3 * DummyBytes /\ script' = SubSeq(f, 3 * q + 2 + 1, Len(f))
      BY <2>3, <2>4, <3>1
    <3> QED
      BY <1>4, <2>4, <3>6, <3>7
  <2>8. CASE r = 2
    <3>1. k + 1 = 3 * q + 3 /\ k + 1 = 3 * (q + 1) + 0
      BY <2>2, <2>8
    <3>2. Free /\ UNCHANGED <<spi, card>>
      BY <2>3, <2>5, <3>1, Doings
    <3>3. Free' /\ spi'.cs = 1
      BY <1>2, <1>3, <2>8, <3>2 DEF Clocking, Free
    <3>4. NoCard' \/ card'.waking >= IF q + 1 < 10 THEN q + 1 ELSE 10
      BY <1>2, <2>8, <3>2 DEF Clocking, NoCard
    <3>5. Clocking(q + 1, 0)'
      BY <3>3, <3>4 DEF Clocking
    <3>6. 3 * (q + 1) + 0 <= 3 * DummyBytes /\ script' = SubSeq(f, 3 * (q + 1) + 0 + 1, Len(f))
      BY <2>3, <2>4, <3>1
    <3>7. q + 1 \in 0 .. DummyBytes
      BY <1>3, <2>4
    <3> QED
      BY <1>4, <2>4, <3>5, <3>6, <3>7
  <2> QED
    BY <2>6, <2>7, <2>8
<1> QED
  BY <1>5, <1>6

-----------------------------------------------------------------------------
(***************************************************************************)
(* The packet of a command, and the attempts at its response.              *)
(***************************************************************************)

LEMMA ArgTypes ==
    ASSUME NEW n \in Nat
    PROVE  /\ Arg(n)[1] \in Char /\ Arg(n)[2] \in Char /\ Arg(n)[3] \in Char
           /\ Arg(n)[4] \in Char
<1>1. \A m \in Nat : m % 256 \in Char
  BY DEF Char
<1>2. n \div 16777216 \in Nat /\ n \div 65536 \in Nat /\ n \div 256 \in Nat
  OBVIOUS
<1> QED
  BY <1>1, <1>2 DEF Arg

LEMMA PacketTypes ==
    ASSUME request.sector \in Nat, Commanded
    PROVE  /\ Sending \in 64 .. 127 /\ Sending \in Char
           /\ SendingArg[1] \in Char /\ SendingArg[2] \in Char
           /\ SendingArg[3] \in Char /\ SendingArg[4] \in Char
           /\ Crc(Sending) \in Char
<1>1. Sending \in 64 .. 127
  BY DEF Commanded, Sending, CMD0, CMD1, CMD8, CMD16, CMD17, ACMD41, CMD55, CMD58
<1>2. SendingArg \in {NoArg, <<0, 0, 1, 170>>, InitArg, LengthArg, Address(request.sector)}
  BY DEF Commanded, SendingArg, ArgOf
<1>3. \E n \in Nat : Address(request.sector) = Arg(n)
  <2>1. request.sector \in Nat /\ request.sector * SectorSize \in Nat
    BY CardConstants
  <2> QED
    BY <2>1 DEF Address
<1>4. SectorSize \in Nat
  BY CardConstants
<1>5. ASSUME NEW a \in {NoArg, <<0, 0, 1, 170>>, InitArg}
      PROVE  a[1] \in Char /\ a[2] \in Char /\ a[3] \in Char /\ a[4] \in Char
  BY DEF NoArg, InitArg, Char
<1>6. ASSUME NEW a \in {LengthArg, Address(request.sector)}
      PROVE  a[1] \in Char /\ a[2] \in Char /\ a[3] \in Char /\ a[4] \in Char
  <2>1. PICK n \in Nat : a = Arg(n)
    BY <1>3, <1>4 DEF LengthArg
  <2> QED
    BY <2>1, ArgTypes
<1>7. /\ SendingArg[1] \in Char /\ SendingArg[2] \in Char
      /\ SendingArg[3] \in Char /\ SendingArg[4] \in Char
  BY <1>2, <1>5, <1>6
<1>8. Sending \in Char
  BY <1>1 DEF Char
<1>9. Crc(Sending) \in Char
  BY DEF Char, Crc
<1> QED
  BY <1>1, <1>7, <1>8, <1>9

LEMMA PacketIs ==
    ASSUME request.sector \in Nat, Commanded
    PROVE  LET b == PacketBytes IN
           /\ b \in Seq(Char) /\ Len(b) = 6
           /\ b[1] = Sending /\ b[2] = SendingArg[1] /\ b[3] = SendingArg[2]
           /\ b[4] = SendingArg[3] /\ b[5] = SendingArg[4] /\ b[6] = Crc(Sending)
BY PacketTypes DEF PacketBytes

\* The accesses that send it.
LEMMA SendingScript ==
    ASSUME request.sector \in Nat, Commanded
    PROVE  LET f == PacketScript(Sending, SendingArg) IN
           /\ f \in Seq(Accesses) /\ Len(f) = 9
           /\ f[1] = Cs(0) /\ f[8] = Clock /\ f[9] = Take("use")
           /\ \A j \in 1 .. 6 : f[j + 1] = Write(PacketBytes[j])
           /\ SubSeq(f, 8, 9) = rcv_spi("use")
<1> DEFINE f == PacketScript(Sending, SendingArg)
<1> DEFINE b == PacketBytes
<1>1. /\ f \in Seq(Accesses) /\ Len(f) = 9
      /\ f[1] = Cs(0) /\ f[2] = Write(Sending)
      /\ f[3] = Write(SendingArg[1]) /\ f[4] = Write(SendingArg[2])
      /\ f[5] = Write(SendingArg[3]) /\ f[6] = Write(SendingArg[4])
      /\ f[7] = Write(Crc(Sending)) /\ f[8] = Clock /\ f[9] = Take("use")
      /\ SubSeq(f, 8, 9) = rcv_spi("use")
  BY PacketTypes, PacketAccesses
<1>2. /\ b[1] = Sending /\ b[2] = SendingArg[1] /\ b[3] = SendingArg[2]
      /\ b[4] = SendingArg[3] /\ b[5] = SendingArg[4] /\ b[6] = Crc(Sending)
  BY PacketIs
<1> HIDE DEF f, b
<1>3. \A j \in 1 .. 6 : f[j + 1] = Write(b[j])
  BY <1>1, <1>2
<1> QED
  BY <1>1, <1>3 DEF f, b

\* What has been heard and is to be said, through a step that changes neither.
LEMMA AskingSame ==
    ASSUME card \in Cards, Gentle
    PROVE  /\ card'.packet = card.packet => \A m : Heard(m) => Heard(m)'
           /\ card'.reply = card.reply =>
                  /\ \A n : Pending(n) => Pending(n)'
                  /\ \A byte : Received(byte) => Received(byte)'
<1>1. /\ (NoCard' <=> NoCard) /\ First' = First /\ Others' = Others /\ Answers' = Answers
      /\ PacketBytes' = PacketBytes /\ cmd' = cmd
  BY GentleStep, GentleAnswers DEF Gentle
<1>2. ASSUME card'.packet = card.packet, NEW m, Heard(m)
      PROVE  Heard(m)'
  BY <1>1, <1>2 DEF Heard
<1>3. ASSUME card'.reply = card.reply, NEW n, Pending(n)
      PROVE  Pending(n)'
  BY <1>1, <1>3 DEF Pending
<1>4. ASSUME card'.reply = card.reply, NEW byte, Received(byte)
      PROVE  Received(byte)'
  <2>1. CASE byte = 255 /\ Pending(IF NoCard THEN 0 ELSE 2)
    BY <1>1, <1>4, <2>1 DEF Received, Pending
  <2>2. CASE ~NoCard /\ byte = First /\ card.reply = Others
    BY <1>1, <1>4, <2>2 DEF Received
  <2> QED
    BY <1>4, <2>1, <2>2 DEF Received
<1> QED
  BY <1>2, <1>3, <1>4

\* A step of the driver or a byte that goes on with the packet.
LEMMA AskingNext ==
    ASSUME Typed, Asking, Gentle, pc' = pc, NEW l \in 0 .. 9,
           script' = SubSeq(PacketScript(Sending, SendingArg), l + 1,
                            Len(PacketScript(Sending, SendingArg))),
           Sent(l)' \/ Sounding(l)'
    PROVE  Asking'
<1>1. card \in Cards /\ Commanded /\ pc = "response"
  BY DEF Typed, Asking
<1>2. Commanded' /\ Sending' = Sending /\ SendingArg' = SendingArg
  BY <1>1, GentleStep, GentleAnswers
<1>3. PacketScript(Sending, SendingArg)' = PacketScript(Sending, SendingArg)
  BY <1>2 DEF PacketScript, Crc, select, xmit_spi, rcv_spi, AtOnce, Wait
<1> QED
  BY <1>1, <1>2, <1>3 DEF Asking, Rest

LEMMA AskingAccess ==
    ASSUME Typed, Asking, Access
    PROVE  Asking'
<1>1. card \in Cards /\ SpiOK /\ Commanded
  BY DEF Typed, Asking
<1>2. PICK f \in Seq(Accesses), b \in Seq(Char) :
          /\ f = PacketScript(Sending, SendingArg) /\ b = PacketBytes /\ Len(f) = 9
          /\ f[1] = Cs(0) /\ f[8] = Clock /\ f[9] = Take("use")
          /\ \A j \in 1 .. 6 : f[j + 1] = Write(b[j])
  BY <1>1, RequestedSector, SendingScript, PacketIs
<1>3. PICK k \in 0 .. 9 : Rest(f, k) /\ (Sent(k) \/ Sounding(k))
  BY <1>2 DEF Asking
<1>4. /\ k + 1 \in 0 .. Len(f) /\ script' = SubSeq(f, (k + 1) + 1, Len(f))
      /\ Does(f[k + 1]) /\ Steady
  BY <1>2, <1>3, AccessOf
<1>5. PICK l \in 0 .. 9 : l = k + 1 /\ script' = SubSeq(f, l + 1, Len(f))
  BY <1>2, <1>4
<1>6. ASSUME Gentle, Sent(l)' \/ Sounding(l)'
      PROVE  Asking'
  BY <1>2, <1>4, <1>5, <1>6, AskingNext DEF Steady
<1>7. Steady /\ UNCHANGED card => Gentle
  BY <1>1, SelectedCard
<1>8. CASE Sent(k) /\ Free /\ k = 0
  <2>1. Free /\ WriteCs(0) /\ Selected(0)
    BY <1>2, <1>4, <1>8, Doings
  <2>2. Gentle /\ card' = card
    BY <1>1, <1>4, <2>1, SelectedCard
  <2>3. Free' /\ spi'.cs = 0
    BY <1>1, <2>1 DEF SpiOK, WriteCs, Free
  <2>4. Before' /\ Heard(0)'
    BY <1>1, <1>8, <2>2, GentleStep, AskingSame DEF Sent
  <2>5. cmd'.n = Attempts /\ card'.reply = <<>>
    BY <1>8, <2>2 DEF Sent, Gentle
  <2>6. l = 1
    BY <1>5, <1>8
  <2>7. Sent(l)'
    BY <2>3, <2>4, <2>5, <2>6 DEF Sent
  <2> QED
    BY <1>6, <2>2, <2>7
<1>9. CASE Sent(k) /\ Free /\ k # 0
  <2>1. k \in 1 .. 6 /\ Before /\ cmd.n = Attempts /\ card.reply = <<>> /\ spi.cs = 0
        /\ Heard(k - 1)
    BY <1>9 DEF Sent
  <2>2. f[k + 1] = Write(b[k])
    BY <1>2, <2>1
  <2>3. WriteData(b[k]) /\ UNCHANGED card
    BY <1>4, <2>2, Doings
  <2>4. Gentle
    BY <1>4, <1>7, <2>3
  <2>5. ~Free' /\ spi'.cs = 0 /\ spi'.out = b[k]
    BY <1>1, <1>9, <2>1, <2>3 DEF SpiOK, WriteData, Free
  <2>6. Before' /\ Heard(k - 1)'
    BY <1>1, <2>1, <2>3, <2>4, GentleStep, AskingSame
  <2>7. cmd'.n = Attempts /\ card'.reply = <<>> /\ PacketBytes' = b
    BY <1>1, <1>2, <2>1, <2>3, <2>4, GentleAnswers DEF Gentle
  <2>8. l \in 2 .. 8 /\ (IF l = 8 THEN 6 ELSE l - 1) = k
    BY <1>5, <2>1
  <2>9. Sent(l)'
    BY <2>5, <2>6, <2>7, <2>8 DEF Sent
  <2> QED
    BY <1>6, <2>4, <2>9
<1>10. CASE Sent(k) /\ ~Free
  <2>1. /\ k \in 2 .. 8 /\ Before /\ cmd.n = Attempts /\ card.reply = <<>> /\ spi.cs = 0
        /\ spi.out = PacketBytes[IF k = 8 THEN 6 ELSE k - 1]
        /\ Heard((IF k = 8 THEN 6 ELSE k - 1) - 1)
    BY <1>10 DEF Sent
  <2>2. k = 7
    <3>1. ASSUME k # 7
          PROVE  FALSE
      <4>1. CASE k = 8
        BY <1>2, <1>4, <1>10, <4>1, Doings
      <4>2. CASE k \in 2 .. 6
        <5>1. f[k + 1] = Write(b[k])
          BY <1>2, <4>2
        <5> QED
          BY <1>4, <1>10, <5>1, Doings
      <4> QED
        BY <2>1, <3>1, <4>1, <4>2
    <3> QED
      BY <3>1
  <2>3. WriteData(255) /\ UNCHANGED card
    BY <1>2, <1>4, <2>2, Doings
  <2>4. Gentle
    BY <1>4, <1>7, <2>3
  <2>5. spi' = spi
    BY <1>10, <2>3 DEF WriteData, Free
  <2>6. spi.out = b[6] /\ Heard(5)
    BY <1>2, <2>1, <2>2
  <2>7. Before' /\ Heard(5)'
    BY <1>1, <2>1, <2>3, <2>4, <2>6, GentleStep, AskingSame
  <2>8. cmd'.n = Attempts /\ card'.reply = <<>> /\ PacketBytes' = b
    BY <1>1, <1>2, <2>1, <2>3, <2>4, GentleAnswers DEF Gentle
  <2>9. l = 8 /\ ~Free' /\ spi'.cs = 0 /\ spi'.out = b[6]
    BY <1>5, <1>10, <2>1, <2>2, <2>5, <2>6 DEF Free
  <2>10. Sent(l)'
    BY <2>7, <2>8, <2>9 DEF Sent
  <2> QED
    BY <1>6, <2>4, <2>10
<1>11. CASE Sounding(k)
  <2>1. After /\ card.packet = <<>> /\ spi.cs = 0
    BY <1>11 DEF Sounding
  <2>2. ~(k = 8 /\ ~Free)
    BY <1>2, <1>4, Doings
  <2>3. \/ Free /\ k = 7 /\ Pending(1)
        \/ Free /\ k = 8 /\ Received(spi.data)
    BY <1>2, <1>4, <1>11, <2>2 DEF Sounding
  <2>4. CASE Free /\ k = 7 /\ Pending(1)
    <3>1. WriteData(255) /\ UNCHANGED card
      BY <1>2, <1>4, <2>4, Doings
    <3>2. Gentle
      BY <1>4, <1>7, <3>1
    <3>3. ~Free' /\ spi'.cs = 0
      BY <1>1, <2>1, <2>4, <3>1 DEF SpiOK, WriteData, Free
    <3>4. After' /\ Pending(1)' /\ card'.packet = <<>>
      BY <1>1, <2>1, <2>4, <3>1, <3>2, GentleStep, AskingSame
    <3>5. l = 8
      BY <1>5, <2>4
    <3>6. Sounding(l)'
      BY <3>3, <3>4, <3>5 DEF Sounding
    <3> QED
      BY <1>6, <3>2, <3>6
  <2>5. CASE Free /\ k = 8 /\ Received(spi.data)
    <3>1. res' = spi.data /\ UNCHANGED <<spi, card>>
      BY <1>2, <1>4, <2>5, Doings
    <3>2. Gentle
      BY <1>4, <1>7, <3>1
    <3>3. PICK byte : byte = spi.data
      OBVIOUS
    <3>4. Received(byte)'
      BY <1>1, <2>5, <3>1, <3>2, <3>3, AskingSame
    <3>5. Received(res)'
      BY <3>1, <3>3, <3>4 DEF Received
    <3>6. After' /\ card'.packet = <<>> /\ Free' /\ spi'.cs = 0
      BY <1>1, <2>1, <2>5, <3>1, <3>2, GentleStep DEF Free
    <3>7. l = 9
      BY <1>5, <2>5
    <3>8. Sounding(l)'
      BY <3>5, <3>6, <3>7 DEF Sounding
    <3> QED
      BY <1>6, <3>2, <3>8
  <2> QED
    BY <2>3, <2>4, <2>5
<1> QED
  BY <1>3, <1>8, <1>9, <1>10, <1>11

-----------------------------------------------------------------------------
(***************************************************************************)
(* The last byte of a packet: the card executes the command.               *)
(***************************************************************************)

Executing ==
    /\ Typed /\ Commanded /\ Before /\ ~NoCard /\ card.waking = 10
    /\ card' \in Execute(PacketBytes) /\ UNCHANGED drv

\* The card is as c but for what it has to say.
Says(c, bytes) ==
    /\ card' \in Cards /\ card'.packet = <<>>
    /\ card'.kind = c.kind /\ card'.waking = c.waking /\ card'.spiMode = c.spiMode
    /\ card'.idle = c.idle /\ card'.app = c.app /\ card'.needs = c.needs
    /\ card'.rounds = c.rounds /\ card'.sized = c.sized /\ card'.late = c.late
    /\ card'.failed = c.failed
    /\ \E d \in Nat : d + 2 <= Attempts /\ card'.reply = Fill(d) \o bytes

Replied ==
    /\ After' /\ ~NoCard' /\ card'.packet = <<>>
    /\ \E d \in Nat : d + 2 <= Attempts /\ card'.reply = Fill(d) \o Answers'

LEMMA Answering ==
    ASSUME NEW c \in Cards, NEW bytes \in Seq(Char), card' \in Answer(c, bytes)
    PROVE  Says(c, bytes)
<1>1. PICK d \in Delays :
          /\ d \in Nat /\ d + 2 <= Attempts
          /\ card' = [c EXCEPT !.packet = <<>>, !.reply = Fill(d) \o bytes]
          /\ card'.packet = <<>> /\ card'.reply = Fill(d) \o bytes
          /\ card' \in Cards
  BY AnswerOf
<1> DEFINE r == Fill(d) \o bytes
<1>2. card' = [c EXCEPT !.packet = <<>>, !.reply = r]
  BY <1>1
<1> HIDE DEF r
<1>3. /\ card'.kind = c.kind /\ card'.waking = c.waking /\ card'.spiMode = c.spiMode
      /\ card'.idle = c.idle /\ card'.app = c.app /\ card'.needs = c.needs
      /\ card'.rounds = c.rounds /\ card'.sized = c.sized /\ card'.late = c.late
      /\ card'.failed = c.failed
  BY <1>2 DEF Cards
<1> QED
  BY <1>1, <1>3 DEF Says

\* The answer of one byte.
LEMMA OneByte ==
    ASSUME NEW a \in Char
    PROVE  <<a>> \in Seq(Char) /\ <<a>> \o <<>> = <<a>>
<1>1. <<a>> \in Seq(Char)
  BY ByteSequences
<1> QED
  BY <1>1, ConcatEmptySeq

\* The packet, as the card takes it to pieces.
LEMMA PacketParts ==
    ASSUME Typed, Commanded
    PROVE  LET a == SubSeq(PacketBytes, 2, 5) IN
           /\ PacketBytes[1] = Sending /\ PacketBytes[6] = Crc(Sending)
           /\ a[1] = SendingArg[1] /\ a[2] = SendingArg[2] /\ a[3] = SendingArg[3]
           /\ a[4] = SendingArg[4] /\ Number(a) = Number(SendingArg)
<1>1. PICK b \in Seq(Char) :
          /\ b = PacketBytes /\ Len(b) = 6
          /\ b[1] = Sending /\ b[2] = SendingArg[1] /\ b[3] = SendingArg[2]
          /\ b[4] = SendingArg[3] /\ b[5] = SendingArg[4] /\ b[6] = Crc(Sending)
  BY RequestedSector, PacketIs
<1> DEFINE a == SubSeq(b, 2, 5)
<1>2. \A i \in 2 .. 5 : b[i] \in Char
  <2>1. \A i \in 2 .. 5 : i \in 1 .. Len(b)
    BY <1>1
  <2> QED
    BY <2>1, ElementOfSeq
<1>3. \A i \in 1 .. 4 : a[i] = b[2 + i - 1]
  BY <1>2, SubSeqProperties
<1> HIDE DEF a
<1>4. a[1] = b[2] /\ a[2] = b[3] /\ a[3] = b[4] /\ a[4] = b[5]
  <2>1. /\ a[1] = b[2 + 1 - 1] /\ a[2] = b[2 + 2 - 1]
        /\ a[3] = b[2 + 3 - 1] /\ a[4] = b[2 + 4 - 1]
    BY <1>3
  <2> QED
    BY <2>1
<1>5. a = SubSeq(PacketBytes, 2, 5)
  BY <1>1 DEF a
<1> QED
  BY <1>1, <1>4, <1>5 DEF Number

LEMMA ExecutesIdle ==
    ASSUME Executing, cmd.caller = "idle"
    PROVE  Replied
<1>1. card \in Cards /\ cmd.command = CMD0 /\ ~cmd.app /\ Sending = CMD0
  BY DEF Executing, Typed, Commanded, CommandOf, Sending, CMD0, ACMD41
<1>2. card' \in GoIdle(149)
  BY <1>1, PacketParts DEF Executing, Execute, Crc
<1>3. PICK r \in Rounds :
          card' \in Accept([card EXCEPT !.spiMode = TRUE, !.idle = TRUE, !.app = FALSE,
                                        !.sized = Is({"SD2", "SDHC"}), !.needs = r,
                                        !.rounds = r])
  BY <1>2 DEF GoIdle
<1> DEFINE c == [card EXCEPT !.spiMode = TRUE, !.idle = TRUE, !.app = FALSE,
                             !.sized = Is({"SD2", "SDHC"}), !.needs = r, !.rounds = r]
<1>4. r \in Nat /\ Is({"SD2", "SDHC"}) \in BOOLEAN
  BY CardConstants DEF Is
<1>5. c \in Cards
  BY <1>1, <1>4 DEF Cards
<1>6. /\ c.kind = card.kind /\ c.waking = card.waking /\ c.spiMode /\ c.idle
      /\ c.needs = r /\ c.rounds = r /\ c.sized = Is({"SD2", "SDHC"})
  BY <1>1, <1>4 DEF Cards
<1>7. card' \in Answer(c, <<IF c.idle THEN 1 ELSE 0>>)
  BY <1>3 DEF Accept
<1> HIDE DEF c
<1>8. card' \in Answer(c, <<1>>)
  BY <1>6, <1>7
<1>9. <<1>> \in Seq(Char) /\ <<1>> \o <<>> = <<1>>
  BY OneByte DEF Char
<1>10. Says(c, <<1>>)
  BY <1>5, <1>8, <1>9, Answering
<1>11. card'.sized = Is({"SD2", "SDHC"})
  BY <1>6, <1>10 DEF Says
<1>12. card'.sized <=> Version2'
  BY <1>6, <1>10, <1>11 DEF Says, Version2, Is
<1>13. Fresh' /\ ~NoCard'
  BY <1>6, <1>10, <1>12 DEF Executing, Says, Fresh, Awake, NoCard
<1>14. cmd' = cmd /\ cmd.caller = "idle"
  BY DEF Executing, drv
<1>15. After'
  BY <1>1, <1>13, <1>14 DEF After
<1>16. Answers' = <<1>>
  BY <1>1, <1>6, <1>9, <1>10, <1>14 DEF Answers, First, Others, Says
<1> QED
  BY <1>10, <1>13, <1>15, <1>16 DEF Replied, Says

LEMMA FirstOfFive ==
    ASSUME NEW a \in Char, NEW b \in Char, NEW c \in Char, NEW d \in Char, NEW e \in Char
    PROVE  <<a>> \o <<b, c, d, e>> = <<a, b, c, d, e>>
<1> DEFINE s == <<b, c, d, e>>
<1> DEFINE p == <<a, b, c, d, e>>
<1> DEFINE f == <<a>> \o s
<1>1. s \in Seq(Char) /\ Len(s) = 4 /\ s[1] = b /\ s[2] = c /\ s[3] = d /\ s[4] = e
  OBVIOUS
<1>2. /\ p \in Seq(Char) /\ Len(p) = 5
      /\ p[1] = a /\ p[2] = b /\ p[3] = c /\ p[4] = d /\ p[5] = e
  OBVIOUS
<1> HIDE DEF s, p
<1>a. s \in Seq(Char)
  BY <1>1
<1>3. f \in Seq(Char) /\ f # <<>> /\ Len(f) = Len(s) + 1 /\ f[1] = a /\ Tail(f) = s
  BY <1>a, Before1
<1> HIDE DEF f
<1>4. Len(f) = 5
  BY <1>1, <1>3
<1>5. Len(Tail(f)) = 4 /\ \A i \in 1 .. Len(Tail(f)) : Tail(f)[i] = f[i + 1]
  BY <1>1, <1>3, HeadTailProperties
<1>6. f[2] = b /\ f[3] = c /\ f[4] = d /\ f[5] = e
  <2>1. /\ Tail(f)[1] = f[1 + 1] /\ Tail(f)[2] = f[2 + 1]
        /\ Tail(f)[3] = f[3 + 1] /\ Tail(f)[4] = f[4 + 1]
    BY <1>5
  <2> QED
    BY <1>1, <1>3, <2>1
<1>7. \A i \in 1 .. Len(f) : f[i] = p[i]
  BY <1>2, <1>3, <1>4, <1>6
<1>8. f = p
  BY <1>2, <1>3, <1>4, <1>7, SeqEqual
<1> QED
  BY <1>8 DEF f, p, s

LEMMA ExecutesIf ==
    ASSUME Executing, cmd.caller = "if"
    PROVE  Replied
<1>1. /\ card \in Cards /\ cmd.command = CMD8 /\ ~cmd.app /\ Sending = CMD8
      /\ SendingArg = <<0, 0, 1, 170>> /\ Fresh /\ card.idle /\ card.spiMode
  BY DEF Executing, Before, Fresh, Awake, Typed, Commanded, CommandOf, ArgOf, Sending,
         SendingArg, CMD8, ACMD41
<1>2. PICK a : a[3] = 1 /\ a[4] = 170 /\ card' \in IfCond(a, 135)
  <2> DEFINE a == SubSeq(PacketBytes, 2, 5)
  <2>1. a[3] = 1 /\ a[4] = 170 /\ PacketBytes[1] = CMD8 /\ PacketBytes[6] = 135
    BY <1>1, PacketParts DEF Executing, Crc, CMD0, CMD8
  <2>2. card' \in IfCond(a, 135)
    BY <1>1, <2>1 DEF Executing, Execute, CMD0, CMD8
  <2> HIDE DEF a
  <2> QED
    BY <2>1, <2>2
<1> DEFINE c == [card EXCEPT !.app = FALSE]
<1>3. c \in Cards
  BY <1>1 DEF Cards
<1>4. /\ c.kind = card.kind /\ c.waking = card.waking /\ c.spiMode = card.spiMode
      /\ c.idle = card.idle /\ c.needs = card.needs /\ c.rounds = card.rounds
      /\ c.sized = card.sized
  BY <1>1 DEF Cards
<1>5. /\ ~Version2 => card' \in Answer(c, <<5>>)
      /\ Version2 => card' \in Answer(c, <<1, 0, 0, 1, 170>>)
  BY <1>1, <1>2 DEF IfCond, Illegal, Version2
<1> HIDE DEF c
<1>6. cmd' = cmd /\ cmd.caller = "if"
  BY DEF Executing, drv
<1>7. ASSUME NEW bytes, Says(c, bytes)
      PROVE  /\ After' /\ ~NoCard' /\ (Version2' <=> Version2)
             /\ First' = IF Version2 THEN 1 ELSE 5
  <2>1. (Version2' <=> Version2) /\ (NoCard' <=> NoCard)
    BY <1>4, <1>7 DEF Says, Version2, Is, NoCard
  <2>2. (card'.sized <=> Version2') /\ card'.idle
    BY <1>1, <1>4, <1>7, <2>1 DEF Fresh, Says
  <2>3. Fresh'
    BY <1>1, <1>4, <1>7, <2>1, <2>2 DEF Fresh, Awake, Says
  <2>4. After'
    BY <1>1, <1>6, <2>3 DEF After
  <2>5. First' = IF Version2 THEN 1 ELSE 5
    BY <1>1, <1>6, <2>1, <2>2 DEF First
  <2> QED
    BY <2>1, <2>4, <2>5 DEF Executing
<1>8. CASE ~Version2
  <2>1. <<5>> \in Seq(Char) /\ <<5>> \o <<>> = <<5>>
    BY OneByte DEF Char
  <2>2. Says(c, <<5>>)
    BY <1>3, <1>5, <1>8, <2>1, Answering
  <2>3. After' /\ ~NoCard' /\ ~Version2' /\ First' = 5
    BY <1>7, <1>8, <2>2
  <2>4. Answers' = <<5>>
    BY <1>6, <2>1, <2>3 DEF Answers, Others
  <2> QED
    BY <2>2, <2>3, <2>4 DEF Replied, Says
<1>9. CASE Version2
  <2> DEFINE bytes == <<1, 0, 0, 1, 170>>
  <2>a. 0 \in Char /\ 1 \in Char /\ 170 \in Char
    BY DEF Char
  <2>b. bytes \in Seq(Char)
    BY <2>a, ByteSequences
  <2>c. <<1>> \o <<0, 0, 1, 170>> = bytes
    BY <2>a, FirstOfFive
  <2>1. bytes \in Seq(Char) /\ <<1>> \o <<0, 0, 1, 170>> = bytes
    BY <2>b, <2>c
  <2>2. card' \in Answer(c, bytes)
    BY <1>5, <1>9
  <2> HIDE DEF bytes
  <2>3. Says(c, bytes)
    BY <1>3, <2>1, <2>2, Answering
  <2>4. After' /\ ~NoCard' /\ Version2' /\ First' = 1
    BY <1>7, <1>9, <2>3
  <2>5. Answers' = bytes
    BY <1>6, <2>1, <2>4 DEF Answers, Others, IfBytes
  <2> QED
    BY <2>3, <2>4, <2>5 DEF Replied, Says
<1> QED
  BY <1>8, <1>9

\* CMD55, before ACMD41.
LEMMA ExecutesApp ==
    ASSUME Executing, cmd.app
    PROVE  Replied
<1>1. /\ card \in Cards /\ cmd.command = ACMD41 /\ Sending = CMD55
      /\ cmd.caller \in {"type", "leave2", "leave1"}
  BY DEF Executing, Typed, Commanded, CommandOf, Sending, CMD0, CMD1, CMD8, CMD16, CMD17, CMD58,
         ACMD41, Callers
<1>2. Awake /\ (cmd.caller = "type" => Fresh)
  BY <1>1 DEF Executing, Before, Fresh
<1>3. card.spiMode
  BY <1>2 DEF Awake
<1>4. cmd' = cmd /\ CardType' = CardType /\ tmr' = tmr
  BY DEF Executing, drv
<1>5. ASSUME NEW c \in Cards, NEW bytes, Says(c, bytes),
             c.kind = card.kind, c.waking = card.waking, c.spiMode = card.spiMode,
             c.idle = card.idle, c.needs = card.needs, c.rounds = card.rounds,
             c.sized = card.sized, Is(SdCards) => c.app
      PROVE  /\ After' /\ ~NoCard' /\ (Is(SdCards)' <=> Is(SdCards)) /\ Others' = <<>>
             /\ (card'.idle <=> card.idle)
  <2>1. /\ (Version2' <=> Version2) /\ (NoCard' <=> NoCard) /\ (Is(SdCards)' <=> Is(SdCards))
        /\ card'.kind = card.kind
    BY <1>5 DEF Says, Version2, Is, NoCard
  <2>2. (card'.sized <=> card.sized) /\ (card'.idle <=> card.idle)
    BY <1>5 DEF Says
  <2>3. Awake'
    BY <1>2, <1>5, <2>1 DEF Awake, Says
  <2>4. Fresh => Fresh'
    BY <1>5, <2>1, <2>2, <2>3 DEF Fresh, Says
  <2>5. Waiting(0) => Waiting(0)'
    BY <1>4, <1>5 DEF Waiting, Waited, Says
  <2>6. Waiting(0) => tmr \in 1 .. Tries
    BY DEF Waiting
  <2>7. Is(SdCards)' => card'.app
    BY <1>5, <2>1 DEF Says
  <2>8. /\ cmd.caller = "type" => Fresh /\ ~Version2
        /\ cmd.caller = "leave2" => Version2 /\ card.sized /\ Waiting(0)
        /\ cmd.caller = "leave1" => ~Version2 /\ CardType = card.kind /\ Waiting(0)
    BY DEF Executing, Before
  <2>9. After'
    BY <1>1, <1>4, <2>1, <2>2, <2>3, <2>4, <2>5, <2>6, <2>7, <2>8 DEF After
  <2>10. Others' = <<>>
    BY <1>1, <1>4 DEF Others
  <2> QED
    BY <2>1, <2>2, <2>9, <2>10 DEF Executing
<1>6. ASSUME NEW c \in Cards, NEW byte \in Char, card' \in Answer(c, <<byte>>),
             c.kind = card.kind, c.waking = card.waking, c.spiMode = card.spiMode,
             c.idle = card.idle, c.needs = card.needs, c.rounds = card.rounds,
             c.sized = card.sized, Is(SdCards) => c.app,
             byte = IF ~Is(SdCards) THEN IF card.idle THEN 5 ELSE 4
                    ELSE IF card.idle THEN 1 ELSE 0
      PROVE  Replied
  <2>1. <<byte>> \in Seq(Char) /\ <<byte>> \o <<>> = <<byte>>
    BY <1>6, OneByte
  <2>2. Says(c, <<byte>>)
    BY <1>6, <2>1, Answering
  <2>3. /\ After' /\ ~NoCard' /\ (Is(SdCards)' <=> Is(SdCards)) /\ Others' = <<>>
        /\ (card'.idle <=> card.idle)
    BY <1>5, <1>6, <2>2
  <2>4. First' = byte
    BY <1>1, <1>4, <1>6, <2>3 DEF First
  <2>5. Answers' = <<byte>>
    BY <2>1, <2>3, <2>4 DEF Answers
  <2> QED
    BY <2>2, <2>3, <2>5 DEF Replied, Says
<1>7. CASE Is(SdCards)
  <2> DEFINE c == [card EXCEPT !.app = TRUE]
  <2>1. /\ c \in Cards /\ c.kind = card.kind /\ c.waking = card.waking
        /\ c.spiMode = card.spiMode /\ c.idle = card.idle /\ c.needs = card.needs
        /\ c.rounds = card.rounds /\ c.sized = card.sized /\ c.app
    BY <1>1 DEF Cards
  <2>2. card' \in Accept(c)
    BY <1>1, <1>3, <1>7, PacketParts DEF Executing, Execute, CMD0, CMD8, CMD55
  <2> HIDE DEF c
  <2> DEFINE byte == IF c.idle THEN 1 ELSE 0
  <2>3. byte \in Char /\ card' \in Answer(c, <<byte>>)
    BY <2>2 DEF Accept, Char
  <2>4. byte = IF ~Is(SdCards) THEN IF card.idle THEN 5 ELSE 4
               ELSE IF card.idle THEN 1 ELSE 0
    BY <1>7, <2>1
  <2> HIDE DEF byte
  <2> QED
    BY <1>6, <2>1, <2>3, <2>4
<1>8. CASE ~Is(SdCards)
  <2> DEFINE c == [card EXCEPT !.app = FALSE]
  <2>1. /\ c \in Cards /\ c.kind = card.kind /\ c.waking = card.waking
        /\ c.spiMode = card.spiMode /\ c.idle = card.idle /\ c.needs = card.needs
        /\ c.rounds = card.rounds /\ c.sized = card.sized
    BY <1>1 DEF Cards
  <2> DEFINE byte == IF card.idle THEN 5 ELSE 4
  <2>2. card' \in Answer(c, <<byte>>)
    BY <1>1, <1>3, <1>8, PacketParts
       DEF Executing, Execute, Illegal, CMD0, CMD1, CMD8, CMD16, CMD17, CMD55, CMD58, ACMD41
  <2> HIDE DEF c
  <2>3. byte \in Char
    BY DEF Char
  <2>4. byte = IF ~Is(SdCards) THEN IF card.idle THEN 5 ELSE 4
               ELSE IF card.idle THEN 1 ELSE 0
    BY <1>8
  <2> HIDE DEF byte
  <2> QED
    BY <1>6, <1>8, <2>1, <2>2, <2>3, <2>4
<1> QED
  BY <1>7, <1>8

\* A round of initialisation.
LEMMA ExecutesOp ==
    ASSUME Executing, ~cmd.app, cmd.command \in {ACMD41, CMD1}
    PROVE  Replied
<1>1. /\ card \in Cards /\ Sending = cmd.command /\ SendingArg = cmd.arg
      /\ cmd.caller \in {"type", "leave2", "leave1"}
      /\ cmd.caller = "leave2" => cmd.arg = InitArg
      /\ cmd.command = CMD1 => cmd.caller = "leave1" /\ CardType # "SD1"
  BY DEF Executing, Typed, Commanded, CommandOf, ArgOf, Sending, SendingArg, CMD0, CMD1, CMD8,
         CMD16, CMD17, CMD58, ACMD41, Callers
<1>2. /\ cmd.caller = "type" => Fresh /\ ~Version2
      /\ cmd.caller = "leave2" => Awake /\ Version2 /\ card.sized /\ Waiting(0)
      /\ cmd.caller = "leave1" => Awake /\ ~Version2 /\ CardType = card.kind /\ Waiting(0)
      /\ cmd.command = ACMD41 => Is(SdCards) /\ card.app
  BY <1>1 DEF Executing, Before
<1>3. Awake /\ card.spiMode /\ cmd' = cmd /\ CardType' = CardType /\ tmr' = tmr
  BY <1>1, <1>2 DEF Fresh, Awake, Executing, drv
<1>4. cmd.command = CMD1 => Is({"MMC"})
  <2>1. card.kind \in SdCards \cup {"MMC", "none"} /\ card.kind # "none"
    BY <1>1, CardConstants DEF Cards, Executing, NoCard
  <2> QED
    BY <1>1, <1>2, <2>1 DEF Is, SdCards, Version2
<1>5. PICK a : a[1] = SendingArg[1] /\ card' \in OpCond(a)
  <2> DEFINE a == SubSeq(PacketBytes, 2, 5)
  <2>1. a[1] = SendingArg[1] /\ PacketBytes[1] = cmd.command
    BY <1>1, PacketParts DEF Executing
  <2>2. card' \in OpCond(a)
    BY <1>1, <1>2, <1>3, <1>4, <2>1 DEF Executing, Execute, CMD0, CMD1, CMD8, CMD55, ACMD41
  <2> HIDE DEF a
  <2> QED
    BY <2>1, <2>2
<1>6. ASSUME NEW c \in Cards, card' \in Accept(c),
             c.kind = card.kind, c.waking = card.waking, c.spiMode = card.spiMode,
             c.needs = card.needs, c.sized = card.sized,
             \/ card.rounds > 0 /\ c.rounds = card.rounds - 1
             \/ c.rounds = card.rounds /\ ~c.idle
      PROVE  Replied
  <2> DEFINE byte == IF c.idle THEN 1 ELSE 0
  <2>1. byte \in Char /\ card' \in Answer(c, <<byte>>)
    BY <1>6 DEF Accept, Char
  <2>2. byte = IF c.idle THEN 1 ELSE 0
    OBVIOUS
  <2> HIDE DEF byte
  <2>3. <<byte>> \in Seq(Char) /\ <<byte>> \o <<>> = <<byte>>
    BY <2>1, OneByte
  <2>4. Says(c, <<byte>>)
    BY <1>6, <2>1, <2>3, Answering
  <2>5. /\ (Version2' <=> Version2) /\ (NoCard' <=> NoCard) /\ card'.kind = card.kind
        /\ (card'.sized <=> card.sized) /\ (card'.idle <=> c.idle) /\ card'.needs = card.needs
        /\ card'.rounds = c.rounds
    BY <1>6, <2>4 DEF Says, Version2, Is, NoCard
  <2>6. Awake'
    BY <1>3, <1>6, <2>4, <2>5 DEF Awake, Says
  <2>7. card.rounds \in Nat /\ c.rounds \in Nat /\ card.needs \in Nat
    BY <1>1, <1>6 DEF Cards
  <2>8. cmd.caller = "type" => card'.kind = "SD1" /\ Waited(0)'
    <3>1. ASSUME cmd.caller = "type"
          PROVE  card'.kind = "SD1" /\ Waited(0)'
      <4>1. card.needs = card.rounds /\ ~Version2 /\ Is(SdCards)
        BY <1>1, <1>2, <3>1 DEF Fresh
      <4>2. card.kind = "SD1"
        BY <4>1 DEF Is, Version2, SdCards
      <4>3. Waited(0)'
        BY <1>6, <2>5, <2>7, <4>1 DEF Waited
      <4> QED
        BY <2>5, <4>2, <4>3
    <3> QED
      BY <3>1
  <2>9. ASSUME Waiting(0)
        PROVE  tmr' \in 1 .. Tries /\ (card'.idle => Waiting(1)')
    <3>1. tmr \in 1 .. Tries /\ card.needs >= card.rounds + (Tries - tmr + 0) /\ Tries \in Nat
      BY <2>9, CardConstants DEF Waiting, Waited
    <3>2. ASSUME card'.idle
          PROVE  Waiting(1)'
      <4>1. card'.rounds = card.rounds - 1
        BY <1>6, <2>5, <3>2
      <4>2. card'.needs >= card'.rounds + (Tries - tmr' + 1)
        BY <1>3, <2>5, <2>7, <3>1, <4>1
      <4> QED
        BY <1>3, <3>1, <4>2 DEF Waiting, Waited
    <3> QED
      BY <1>3, <3>1, <3>2
  <2>10. After'
    BY <1>1, <1>2, <1>3, <2>5, <2>6, <2>8, <2>9 DEF After
  <2>11. Others' = <<>> /\ First' = byte
    BY <1>1, <1>3, <2>2, <2>5 DEF Others, First
  <2>12. Answers' = <<byte>>
    BY <2>3, <2>11 DEF Answers
  <2> QED
    BY <2>4, <2>5, <2>10, <2>12 DEF Replied, Says, Executing
<1>7. CASE card.rounds > 0
  <2> DEFINE r == card.rounds - 1
  <2>1. r \in Nat /\ r = card.rounds - 1
    BY <1>1, <1>7 DEF Cards
  <2>2. card' \in Accept([card EXCEPT !.app = FALSE, !.rounds = r])
    BY <1>5, <1>7 DEF OpCond
  <2> HIDE DEF r
  <2> DEFINE c == [card EXCEPT !.app = FALSE, !.rounds = r]
  <2>3. /\ c \in Cards /\ c.kind = card.kind /\ c.waking = card.waking
        /\ c.spiMode = card.spiMode /\ c.needs = card.needs /\ c.sized = card.sized
        /\ c.rounds = r
    BY <1>1, <2>1 DEF Cards
  <2>4. card' \in Accept(c)
    BY <2>2
  <2> HIDE DEF c
  <2> QED
    BY <1>6, <1>7, <2>1, <2>3, <2>4
<1>8. CASE ~(card.rounds > 0)
  <2>1. ~(Is({"SDHC"}) /\ a[1] # 64)
    <3>1. cmd.caller = "leave2" => a[1] = 64
      BY <1>1, <1>5 DEF InitArg
    <3>2. cmd.caller # "leave2" => ~Version2
      BY <1>1, <1>2
    <3> QED
      BY <3>1, <3>2 DEF Is, Version2
  <2> DEFINE c == [card EXCEPT !.app = FALSE, !.idle = FALSE]
  <2>2. card' \in Accept(c)
    BY <1>5, <1>8, <2>1 DEF OpCond
  <2>3. /\ c \in Cards /\ c.kind = card.kind /\ c.waking = card.waking
        /\ c.spiMode = card.spiMode /\ c.needs = card.needs /\ c.sized = card.sized
        /\ c.rounds = card.rounds /\ ~c.idle
    BY <1>1 DEF Cards
  <2> HIDE DEF c
  <2> QED
    BY <1>6, <2>2, <2>3
<1> QED
  BY <1>7, <1>8

LEMMA ExecutesOcr ==
    ASSUME Executing, cmd.caller = "ocr"
    PROVE  Replied
<1>1. /\ card \in Cards /\ cmd.command = CMD58 /\ ~cmd.app /\ Sending = CMD58
      /\ Awake /\ Version2 /\ card.sized /\ ~card.idle /\ card.spiMode
  BY DEF Executing, Before, Awake, Typed, Commanded, CommandOf, Sending, CMD58, ACMD41
<1>2. Is(SdCards)
  BY <1>1 DEF Version2, Is, SdCards
<1> DEFINE c == [card EXCEPT !.app = FALSE]
<1> DEFINE ccs == IF Is({"SDHC"}) THEN 192 ELSE 128
<1>3. card' \in Answer(c, <<0, ccs, 255, 128, 0>>)
  BY <1>1, <1>2, PacketParts
     DEF Executing, Execute, CMD0, CMD1, CMD8, CMD16, CMD55, CMD58, ACMD41
<1>4. /\ c \in Cards /\ c.kind = card.kind /\ c.waking = card.waking
      /\ c.spiMode = card.spiMode /\ c.sized = card.sized /\ c.idle = card.idle
  BY <1>1 DEF Cards
<1>5. ccs \in Char /\ 0 \in Char /\ 255 \in Char /\ 128 \in Char
  BY DEF Char
<1>6. OcrBytes = <<ccs, 255, 128, 0>>
  BY DEF OcrBytes
<1> HIDE DEF c, ccs
<1>7. <<0, ccs, 255, 128, 0>> \in Seq(Char)
  BY <1>5, ByteSequences
<1>8. <<0>> \o <<ccs, 255, 128, 0>> = <<0, ccs, 255, 128, 0>>
  BY <1>5, FirstOfFive
<1> DEFINE bytes == <<0, ccs, 255, 128, 0>>
<1>9. bytes \in Seq(Char) /\ card' \in Answer(c, bytes) /\ bytes = <<0>> \o OcrBytes
  BY <1>3, <1>6, <1>7, <1>8
<1> HIDE DEF bytes
<1>10. Says(c, bytes)
  BY <1>4, <1>9, Answering
<1>11. /\ (Version2' <=> Version2) /\ (NoCard' <=> NoCard) /\ OcrBytes' = OcrBytes
       /\ (card'.sized <=> card.sized) /\ (card'.idle <=> card.idle)
  BY <1>4, <1>10 DEF Says, Version2, Is, NoCard, OcrBytes
<1>12. Awake' /\ cmd' = cmd
  BY <1>1, <1>4, <1>10, <1>11 DEF Awake, Says, Executing, drv
<1>13. After'
  BY <1>1, <1>11, <1>12 DEF After
<1>14. Answers' = bytes
  BY <1>1, <1>9, <1>11, <1>12 DEF Answers, First, Others
<1> QED
  BY <1>10, <1>11, <1>13, <1>14 DEF Replied, Says, Executing

\* Division.
LEMMA Division ==
    ASSUME NEW b \in Nat \ {0}, NEW x \in Int
    PROVE  x \div b \in Int /\ x % b \in 0 .. b - 1 /\ x = b * (x \div b) + (x % b)
OBVIOUS

LEMMA DivisionUnique ==
    ASSUME NEW b \in Nat \ {0}, NEW q \in Int, NEW r \in 0 .. b - 1, NEW x \in Int, x = b * q + r
    PROVE  x \div b = q /\ x % b = r
<1> DEFINE d == x \div b
<1> DEFINE m == x % b
<1>1. d \in Int /\ m \in 0 .. b - 1 /\ x = b * d + m
  BY Division
<1> HIDE DEF d, m
<1>2. b * d \in Int /\ b * q \in Int
  BY <1>1
<1>3. \A i, j \in Int : i < j => b * i + b <= b * j
  <2> TAKE i, j \in Int
  <2> HAVE i < j
  <2>1. b * (j - i - 1) \in Nat
    OBVIOUS
  <2>2. b * (j - i - 1) = b * j - b * i - b
    OBVIOUS
  <2> QED
    BY <2>1, <2>2
<1>4. ~(d < q) /\ ~(q < d)
  BY <1>1, <1>2, <1>3
<1>5. d = q
  BY <1>1, <1>4
<1>6. m = r
  BY <1>1, <1>2, <1>5
<1> QED
  BY <1>5, <1>6 DEF d, m

LEMMA DivisionTwice ==
    ASSUME NEW n \in Nat, NEW p \in Nat \ {0}, NEW q \in Nat \ {0}, NEW m, m = p * q
    PROVE  n \div m = (n \div p) \div q
<1> DEFINE a == n \div p
<1> DEFINE b == a \div q
<1> DEFINE u == n % p
<1> DEFINE v == a % q
<1>1. a \in Int /\ u \in 0 .. p - 1 /\ n = p * a + u
  BY Division
<1>2. b \in Int /\ v \in 0 .. q - 1 /\ a = q * b + v
  BY <1>1, Division
<1> HIDE DEF a, b, u, v
<1> DEFINE r == p * v + u
<1>3. m \in Nat \ {0}
  OBVIOUS
<1>4. p * (q - 1 - v) \in Nat /\ p * (q - 1 - v) = p * q - p - p * v /\ p * v \in Nat
  BY <1>2
<1>5. r \in 0 .. m - 1
  BY <1>1, <1>3, <1>4
<1>6. n = m * b + r
  <2>1. p * (q * b + v) = (p * q) * b + p * v
    BY <1>2
  <2> QED
    BY <1>1, <1>2, <2>1
<1> HIDE DEF r
<1>7. n \div m = b
  BY <1>2, <1>3, <1>5, <1>6, DivisionUnique
<1> QED
  BY <1>7 DEF a, b

\* Four bytes hold a number.
LEMMA NumberOf ==
    ASSUME NEW n \in Nat, n \div 16777216 < 256
    PROVE  Number(Arg(n)) = n
<1> DEFINE a == n \div 256
<1> DEFINE b == a \div 256
<1> DEFINE c == b \div 256
<1>1. a \in Nat /\ n % 256 \in 0 .. 255 /\ n = 256 * a + (n % 256)
  BY SMT, Division
<1>2. b \in Nat /\ a % 256 \in 0 .. 255 /\ a = 256 * b + (a % 256)
  BY SMT, Division
<1>3. c \in Nat /\ b % 256 \in 0 .. 255 /\ b = 256 * c + (b % 256)
  BY SMT, Division
<1>4. n \div 65536 = b
  <2>1. 65536 = 256 * 256 /\ 256 \in Nat \ {0}
    BY SMT
  <2> QED
    BY SMT, <2>1, DivisionTwice
<1>5. n \div 16777216 = c
  <2>1. 16777216 = 65536 * 256 /\ 256 \in Nat \ {0} /\ 65536 \in Nat \ {0}
    BY SMT
  <2>2. n \div 16777216 = (n \div 65536) \div 256
    BY SMT, <2>1, DivisionTwice
  <2> QED
    BY SMT, <1>4, <2>2
<1>6. c \in 0 .. 255
  BY SMT, <1>3, <1>5
<1> HIDE DEF a, b, c
<1>7. c % 256 = c
  BY SMT, <1>6
<1>8. n \div 256 = a
  BY SMT DEF a
<1>9. Arg(n) = <<c, b % 256, a % 256, n % 256>>
  BY SMT, <1>4, <1>5, <1>7, <1>8 DEF Arg
<1> DEFINE x == n % 256
<1> DEFINE y == a % 256
<1> DEFINE z == b % 256
<1>10. /\ x \in 0 .. 255 /\ y \in 0 .. 255 /\ z \in 0 .. 255
       /\ n = 256 * a + x /\ a = 256 * b + y /\ b = 256 * c + z
       /\ a \in Nat /\ b \in Nat /\ c \in Nat
  BY SMT, <1>1, <1>2, <1>3
<1>11. Number(Arg(n)) = ((c * 256 + z) * 256 + y) * 256 + x
  BY SMT, <1>9 DEF Number
<1> HIDE DEF x, y, z
<1> QED
  BY SMT, <1>10, <1>11

LEMMA DivisionMonotone ==
    ASSUME NEW b \in Nat \ {0}, NEW i \in Nat, NEW j \in Nat, i <= j
    PROVE  i \div b <= j \div b
<1> DEFINE p == i \div b
<1> DEFINE q == j \div b
<1>1. /\ p \in Int /\ i % b \in 0 .. b - 1 /\ i = b * p + (i % b)
      /\ q \in Int /\ j % b \in 0 .. b - 1 /\ j = b * q + (j % b)
  BY Division
<1> HIDE DEF p, q
<1>2. ASSUME q < p
      PROVE  FALSE
  <2>1. b * (p - q - 1) \in Nat /\ b * (p - q - 1) = b * p - b * q - b
    BY <1>1, <1>2
  <2>2. b * p \in Int /\ b * q \in Int
    BY <1>1
  <2> QED
    BY <1>1, <2>1, <2>2
<1> QED
  BY <1>1, <1>2 DEF p, q

\* The card and the driver agree on which sector is meant.
LEMMA AddressOf ==
    ASSUME request \in Requests, CardType \in Kinds \ {"none"},
           NEW unit, unit = IF CardType = "SDHC" THEN 1 ELSE SectorSize
    PROVE  LET n == Number(Address(request.sector)) IN
           n % unit = 0 /\ n \div unit = request.sector
<1> DEFINE s == request.sector
<1> DEFINE m == s * SectorSize
<1> DEFINE big == 16777216
<1>a. s \in Sectors
  BY DEF Requests
<1> HIDE DEF s
<1>1. s \in Sectors /\ s \in Nat /\ SectorSize \in Nat \ {0} /\ m \in Nat
  BY <1>a, CardConstants
<1>b. big \in Nat \ {0}
  BY SMT
<1>2. m = SectorSize * s + 0
  BY <1>1
<1>3. CardType # "SDHC" => m \div big < 256
  BY SMT, <1>1, SdDiskAssumption
<1>4. s \div big < 256
  BY SMT, <1>1, SdDiskAssumption
<1> HIDE DEF m, big
<1>5. CASE CardType = "SDHC"
  <2>1. Number(Address(s)) = s
    BY SMT, <1>1, <1>4, <1>5, NumberOf DEF Address, big
  <2>2. s % 1 = 0 /\ s \div 1 = s
    <3>1. 1 \in Nat \ {0} /\ 0 \in 0 .. 1 - 1 /\ s \in Int /\ s = 1 * s + 0
      BY <1>1
    <3> QED
      BY <3>1, DivisionUnique
  <2> QED
    BY <1>5, <2>1, <2>2 DEF s
<1>6. CASE CardType # "SDHC"
  <2>1. Number(Address(s)) = m
    <3>1. Address(s) = Arg(m)
      BY <1>6 DEF Address, m
    <3> QED
      BY SMT, <1>1, <1>3, <1>6, <3>1, NumberOf DEF big
  <2>2. m % SectorSize = 0 /\ m \div SectorSize = s
    <3>1. 0 \in 0 .. SectorSize - 1 /\ s \in Int /\ m \in Int
      BY <1>1
    <3> QED
      BY <1>1, <1>2, <3>1, DivisionUnique
  <2> QED
    BY <1>6, <2>1, <2>2 DEF s
<1> QED
  BY <1>5, <1>6 DEF s

LEMMA ExecutesLength ==
    ASSUME Executing, cmd.caller = "length"
    PROVE  Replied
<1>1. /\ card \in Cards /\ cmd.command = CMD16 /\ ~cmd.app /\ Sending = CMD16
      /\ SendingArg = LengthArg
      /\ Awake /\ ~Version2 /\ ~card.idle /\ card.spiMode /\ CardType = card.kind
  BY DEF Executing, Before, Awake, Typed, Commanded, CommandOf, ArgOf, Sending, SendingArg,
         CMD16, ACMD41
<1> DEFINE b == Number(SubSeq(PacketBytes, 2, 5)) = SectorSize
<1>2. b
  <2>1. SectorSize \in Nat /\ SectorSize \div 16777216 < 256
    BY CardConstants, SdDiskAssumption
  <2>2. Number(LengthArg) = SectorSize
    BY <2>1, NumberOf DEF LengthArg
  <2> QED
    BY <1>1, <2>2, PacketParts DEF Executing
<1> DEFINE c == [card EXCEPT !.app = FALSE, !.sized = b]
<1>3. card' \in Accept(c)
  BY <1>1, PacketParts
     DEF Executing, Execute, CMD0, CMD1, CMD8, CMD16, CMD55, ACMD41
<1>a. b \in BOOLEAN
  OBVIOUS
<1> HIDE DEF b
<1>4. /\ c \in Cards /\ c.kind = card.kind /\ c.waking = card.waking
      /\ c.spiMode = card.spiMode /\ c.idle = card.idle /\ c.sized
  BY <1>1, <1>2, <1>a DEF Cards
<1> HIDE DEF c
<1>5. card' \in Answer(c, <<0>>)
  BY <1>1, <1>3, <1>4 DEF Accept
<1>6. <<0>> \in Seq(Char) /\ <<0>> \o <<>> = <<0>>
  BY OneByte DEF Char
<1>7. Says(c, <<0>>)
  BY <1>4, <1>5, <1>6, Answering
<1>8. /\ (NoCard' <=> NoCard) /\ card'.kind = card.kind
      /\ card'.sized /\ (card'.idle <=> card.idle)
  BY <1>4, <1>7 DEF Says, NoCard
<1>9. Awake' /\ cmd' = cmd /\ CardType' = CardType
  BY <1>1, <1>4, <1>7, <1>8 DEF Awake, Says, Executing, drv
<1>10. Known'
  BY <1>1, <1>8, <1>9 DEF Known
<1>11. After'
  BY <1>1, <1>9, <1>10 DEF After
<1>12. Answers' = <<0>>
  BY <1>1, <1>6, <1>8, <1>9 DEF Answers, First, Others
<1> QED
  BY <1>7, <1>8, <1>11, <1>12 DEF Replied, Says, Executing

\* The parts of an answer with a block.
LEMMA Regroup ==
    ASSUME NEW S, NEW z \in Seq(S), NEW f \in Seq(S), NEW g \in Seq(S)
    PROVE  (z \o f) \o g = z \o (f \o g) /\ z \o (f \o g) \in Seq(S)
BY ConcatAssociative, ConcatProperties

LEMMA ExecutesRead ==
    ASSUME Executing, cmd.caller = "read"
    PROVE  Replied
<1>1. /\ card \in Cards /\ cmd.command = CMD17 /\ ~cmd.app /\ Sending = CMD17
      /\ SendingArg = Address(request.sector) /\ request \in Requests
      /\ Known /\ Awake /\ ~card.idle /\ card.sized /\ card.spiMode /\ CardType = card.kind
  BY DEF Executing, Before, Known, Awake, Typed, Commanded, CommandOf, ArgOf, Sending,
         SendingArg, CMD17, ACMD41
<1>2. PICK sector \in Nat : sector = request.sector /\ sector \in Sectors
  BY <1>1, CardConstants DEF Requests
<1>3. card' \in Block(sector)
  <2> DEFINE unit == IF CardType = "SDHC" THEN 1 ELSE SectorSize
  <2> DEFINE a == SubSeq(PacketBytes, 2, 5)
  <2>1. card' \in ReadBlock(a)
    BY <1>1, PacketParts
       DEF Executing, Execute, CMD0, CMD1, CMD8, CMD16, CMD17, CMD55, CMD58, ACMD41
  <2>2. Number(a) = Number(Address(request.sector))
    BY <1>1, PacketParts DEF Executing
  <2>3. Number(a) % unit = 0 /\ Number(a) \div unit = sector
    <3>1. CardType \in Kinds \ {"none"}
      BY <1>1 DEF Cards, Awake, NoCard
    <3> QED
      BY <1>1, <1>2, <2>2, <3>1, AddressOf
  <2>4. unit = IF Is({"SDHC"}) THEN 1 ELSE SectorSize
    BY <1>1 DEF Is
  <2> HIDE DEF a, unit
  <2> QED
    BY <1>1, <1>2, <2>1, <2>3, <2>4 DEF ReadBlock
<1>4. PICK n \in Latencies, failed \in BOOLEAN :
          /\ ~failed => card' \in Answer([card EXCEPT !.app = FALSE, !.late = n, !.failed = FALSE],
                              <<0>> \o Fill(n) \o <<254>> \o Sector(sector) \o <<170, 187>>)
          /\ failed => card' \in Answer([card EXCEPT !.app = FALSE, !.late = n, !.failed = TRUE],
                              <<0>> \o Fill(n) \o <<8>>)
  BY <1>3, ZenonT(40) DEF Block
<1>5. n \in Nat
  BY CardConstants
<1> DEFINE c == [card EXCEPT !.app = FALSE, !.late = n, !.failed = failed]
<1> DEFINE frame == IF failed THEN <<8>> ELSE <<254>> \o Sector(sector) \o <<170, 187>>
<1> DEFINE others == Fill(n) \o frame
<1> DEFINE bytes == <<0>> \o others
<1>6. /\ c \in Cards /\ c.kind = card.kind /\ c.waking = card.waking
      /\ c.spiMode = card.spiMode /\ c.idle = card.idle /\ c.sized = card.sized
      /\ c.late = n /\ c.failed = failed
  BY <1>1, <1>5 DEF Cards
<1>7. bytes \in Seq(Char) /\ card' \in Answer(c, bytes)
  <2> DEFINE z == <<0>>
  <2> DEFINE f == Fill(n)
  <2> DEFINE t == <<254>>
  <2> DEFINE b == Sector(sector)
  <2> DEFINE e == <<170, 187>>
  <2> DEFINE g == <<8>>
  <2>1. z \in Seq(Char) /\ g \in Seq(Char)
    BY ByteSequences DEF Char
  <2>a. t \in Seq(Char) /\ e \in Seq(Char)
    BY ByteSequences DEF Char
  <2>2. b \in Seq(Char)
    BY SectorTypes
  <2>3. f \in Seq(Char)
    <3>1. <<>> \in Seq(Char)
      OBVIOUS
    <3> QED
      BY <1>5, <3>1, Filled
  <2>4. CASE failed
    <3>1. card' \in Answer(c, (z \o f) \o g)
      BY <1>4, <2>4
    <3>2. bytes = z \o (f \o g)
      BY <2>4
    <3> HIDE DEF c, bytes, z, f, g
    <3>3. (z \o f) \o g = z \o (f \o g) /\ z \o (f \o g) \in Seq(Char)
      BY <2>1, <2>3, Regroup
    <3> QED
      BY <3>1, <3>2, <3>3
  <2>5. CASE ~failed
    <3>1. card' \in Answer(c, (((z \o f) \o t) \o b) \o e)
      BY <1>4, <2>5
    <3>2. bytes = z \o (f \o ((t \o b) \o e))
      BY <2>5
    <3> HIDE DEF c, bytes, z, f, t, b, e
    <3> DEFINE y == z \o f
    <3> DEFINE m == t \o b
    <3> DEFINE x == m \o e
    <3>3. y \in Seq(Char)
      BY <2>1, <2>3, ConcatProperties
    <3>a. t \in Seq(Char)
      BY <2>a
    <3>b. e \in Seq(Char)
      BY <2>a
    <3>c. m \in Seq(Char)
      BY <2>2, <3>a, ConcatProperties
    <3> HIDE DEF y
    <3>d. (y \o t) \o b = y \o m
      BY <2>2, <3>3, <3>a, Regroup
    <3> HIDE DEF m
    <3>e. (y \o m) \o e = y \o x
      BY <3>3, <3>b, <3>c, Regroup
    <3>4. x \in Seq(Char)
      BY <3>b, <3>c, ConcatProperties
    <3> HIDE DEF x
    <3>5. (z \o f) \o x = z \o (f \o x) /\ z \o (f \o x) \in Seq(Char)
      BY <2>1, <2>3, <3>4, Regroup
    <3> QED
      BY <3>1, <3>2, <3>5, <3>d, <3>e DEF x, y, m
  <2> QED
    BY <2>4, <2>5
<1>a. bytes = <<0>> \o others
  OBVIOUS
<1> HIDE DEF c, bytes
<1>8. Says(c, bytes)
  BY <1>6, <1>7, Answering
<1>9. /\ (NoCard' <=> NoCard) /\ card'.kind = card.kind /\ (card'.sized <=> card.sized)
      /\ (card'.idle <=> card.idle) /\ card'.late = n /\ (card'.failed <=> failed)
  BY <1>6, <1>8 DEF Says, NoCard
<1>10. Awake' /\ cmd' = cmd /\ CardType' = CardType /\ request' = request
  BY <1>1, <1>6, <1>8, <1>9 DEF Awake, Says, Executing, drv
<1>11. Known'
  BY <1>1, <1>9, <1>10 DEF Known
<1>12. After'
  BY <1>1, <1>10, <1>11 DEF After
<1>13. Others' = others
  <2>1. Others' = Fill(card'.late) \o Frame(request.sector)'
    BY <1>1, <1>10 DEF Others
  <2>2. Frame(request.sector)' = frame
    BY <1>2, <1>9, <1>10 DEF Frame, Sector, Data
  <2> QED
    BY <1>9, <2>1, <2>2
<1>14. First' = 0
  BY <1>1, <1>9, <1>10 DEF First
<1> HIDE DEF others
<1>15. Answers' = bytes
  BY <1>a, <1>13, <1>14 DEF Answers
<1> QED
  BY <1>8, <1>9, <1>12, <1>15 DEF Replied, Says, Executing

\* The bytes of an answer.
LEMMA AnswerBytes ==
    ASSUME Typed
    PROVE  /\ Answers \in Seq(Char) /\ Answers # <<>> /\ Head(Answers) = First
           /\ Tail(Answers) = Others /\ First \in Char /\ Others \in Seq(Char)
<1>1. First \in Char
  BY DEF First, Char
<1>2. IfBytes \in Seq(Char) /\ OcrBytes \in Seq(Char)
  BY FourBytes
<1>3. Fill(card.late) \o Frame(request.sector) \in Seq(Char)
  <2>1. card.late \in Nat
    BY DEF Typed, Cards
  <2>2. Frame(request.sector) \in Seq(Char)
    BY RequestedSector, FrameTypes
  <2> QED
    BY <2>1, <2>2, Filled
<1>4. <<>> \in Seq(Char)
  OBVIOUS
<1>5. Others \in Seq(Char)
  BY <1>2, <1>3, <1>4 DEF Others
<1>6. Answers = <<First>> \o Others
  BY DEF Answers
<1> QED
  BY <1>1, <1>5, <1>6, Before1

LEMMA Executes ==
    ASSUME Executing
    PROVE  Replied
<1>1. cmd.caller \in Callers /\ cmd.command = CommandOf(cmd.caller)
  BY DEF Executing, Commanded
<1>2. cmd.caller \in {"type", "leave2", "leave1"} => cmd.command \in {ACMD41, CMD1}
  BY <1>1 DEF CommandOf
<1>3. CASE cmd.caller \in {"type", "leave2", "leave1"}
  BY <1>2, <1>3, ExecutesApp, ExecutesOp
<1> QED
  BY <1>1, <1>3, ExecutesIdle, ExecutesIf, ExecutesOcr, ExecutesLength, ExecutesRead DEF Callers

\* The card can hear the driver.
LEMMA Heeding ==
    ASSUME Commanded, Before \/ After, ~NoCard
    PROVE  card.waking = 10
BY DEF Commanded, Callers, Before, After, Fresh, Known, Awake

\* Without a card there is no command but the first.
LEMMA NobodyHears ==
    ASSUME Commanded, Before, NoCard
    PROVE  After
<1>1. cmd.caller = "idle"
  BY DEF Commanded, Callers, Before, Fresh, Known, Awake
<1>2. ~cmd.app
  BY <1>1 DEF Commanded, CommandOf, CMD0, ACMD41
<1> QED
  BY <1>1, <1>2 DEF After

\* The bytes of a packet, as many as have been heard.
LEMMA HeardBytes ==
    ASSUME Typed, Commanded, ~NoCard, NEW j \in 1 .. 6, Heard(j - 1)
    PROVE  /\ Len(card.packet) = j - 1
           /\ j > 1 => card.packet # <<>>
           /\ j < 6 => Append(card.packet, PacketBytes[j]) = SubSeq(PacketBytes, 1, j)
           /\ j = 6 => Append(card.packet, PacketBytes[j]) = PacketBytes
<1>1. PICK b \in Seq(Char) : b = PacketBytes /\ Len(b) = 6
  BY RequestedSector, PacketIs
<1>2. card.packet = SubSeq(b, 1, j - 1)
  BY <1>1 DEF Heard
<1>3. \A i \in 1 .. j - 1 : b[i] \in Char
  <2>1. \A i \in 1 .. j - 1 : i \in 1 .. Len(b)
    BY <1>1
  <2> QED
    BY <2>1, ElementOfSeq
<1>4. card.packet \in Seq(Char) /\ Len(card.packet) = j - 1
  BY <1>2, <1>3, SubSeqProperties
<1>5. j > 1 => card.packet # <<>>
  BY <1>4, EmptySeq
<1>6. Append(SubSeq(b, 1, j - 1), b[j]) = SubSeq(b, 1, j)
  <2>1. 1 \in 1 .. Len(b) /\ j - 1 \in 1 - 1 .. Len(b) - 1 /\ (j - 1) + 1 = j
    BY <1>1
  <2> QED
    BY <2>1, Longer
<1>7. SubSeq(b, 1, Len(b)) = b
  BY SubSeqFull
<1>8. j = 6 => SubSeq(b, 1, j) = b
  BY <1>1, <1>7
<1> QED
  BY <1>1, <1>2, <1>4, <1>5, <1>6, <1>8

LEMMA AskingByte ==
    ASSUME Typed, Asking, Byte
    PROVE  Asking'
<1>1. card \in Cards /\ SpiOK /\ Commanded /\ pc = "response"
  BY DEF Typed, Asking
<1>2. PICK f \in Seq(Accesses), b \in Seq(Char) :
          /\ f = PacketScript(Sending, SendingArg) /\ b = PacketBytes /\ Len(f) = 9
          /\ b[1] = Sending /\ Len(b) = 6
  BY <1>1, RequestedSector, SendingScript, PacketIs
<1>3. PICK k \in 0 .. 9 : Rest(f, k) /\ (Sent(k) \/ Sounding(k))
  BY <1>2 DEF Asking
<1>4. /\ spi.busy /\ ~Free /\ Free' /\ spi'.cs = spi.cs /\ UNCHANGED drv
      /\ script' = SubSeq(f, k + 1, Len(f)) /\ pc' = pc
  BY <1>1, <1>3, ByteEnds DEF Free, drv, Rest
<1>5. ASSUME Gentle, Sent(k)' \/ Sounding(k)'
      PROVE  Asking'
  BY <1>2, <1>4, <1>5, AskingNext
<1>6. CASE Sent(k)
  <2> DEFINE j == IF k = 8 THEN 6 ELSE k - 1
  <2>1. /\ k \in 2 .. 8 /\ Before /\ cmd.n = Attempts /\ card.reply = <<>> /\ spi.cs = 0
        /\ j \in 1 .. 6 /\ spi.out = b[j] /\ Heard(j - 1)
        /\ (j = k - 1 \/ (k = 8 /\ j = 6))
    BY <1>2, <1>4, <1>6 DEF Sent
  <2> HIDE DEF j
  <2>2. CASE NoCard
    <3>1. card' = card /\ Gentle /\ spi'.data = 255
      BY <1>1, <2>1, <2>2, ByteLost
    <3>2. card.packet = <<>> /\ NoCard'
      BY <2>1, <2>2, <3>1 DEF Heard, NoCard
    <3>3. CASE k <= 6
      <4>1. Before' /\ cmd'.n = Attempts /\ card'.reply = <<>> /\ spi'.cs = 0
        BY <1>1, <1>4, <2>1, <3>1, GentleStep DEF Gentle
      <4>2. Heard(k - 1)'
        BY <3>1, <3>2 DEF Heard
      <4>3. Sent(k)'
        BY <1>4, <2>1, <3>3, <4>1, <4>2 DEF Sent
      <4> QED
        BY <1>5, <3>1, <4>3
    <3>4. CASE k > 6
      <4>1. After'
        BY <1>1, <2>1, <2>2, <3>1, NobodyHears, GentleStep
      <4>2. card'.packet = <<>> /\ card'.reply = <<>> /\ spi'.cs = 0
        BY <1>4, <2>1, <3>1, <3>2
      <4>3. Pending(1)' /\ Received(255)'
        BY <3>2, <4>2 DEF Pending, Received
      <4>4. Received(spi.data)'
        BY <3>1, <4>3 DEF Received
      <4>5. Sounding(k)'
        BY <1>4, <2>1, <3>4, <4>1, <4>2, <4>3, <4>4 DEF Sounding
      <4> QED
        BY <1>5, <3>1, <4>5
    <3> QED
      BY <2>1, <3>3, <3>4
  <2>3. CASE ~NoCard
    <3>1. card.waking = 10
      BY <1>1, <2>1, <2>3, Heeding
    <3>2. /\ Len(card.packet) = j - 1 /\ (j > 1 => card.packet # <<>>)
          /\ j < 6 => Append(card.packet, spi.out) = SubSeq(PacketBytes, 1, j)
          /\ j = 6 => Append(card.packet, spi.out) = PacketBytes
      BY <1>1, <1>2, <2>1, <2>3, HeardBytes
    <3>3. CASE j < 6
      <4>1. card.packet # <<>> \/ spi.out \in 64 .. 127
        <5>1. j = 1 => spi.out = Sending
          BY <1>2, <2>1
        <5>2. Sending \in 64 .. 127
          BY <1>1, RequestedSector, PacketTypes
        <5>3. j = 1 \/ j > 1
          BY <2>1
        <5>4. CASE j = 1
          BY <5>1, <5>2, <5>4
        <5>5. CASE j > 1
          BY <3>2, <5>5
        <5> QED
          BY <5>3, <5>4, <5>5
      <4>2. Len(card.packet) < 5
        BY <2>1, <3>2, <3>3
      <4>3. Gentle /\ card'.packet = Append(card.packet, spi.out) /\ card'.reply = <<>>
        BY <1>1, <2>1, <2>3, <3>1, <4>1, <4>2, ByteHeard
      <4>4. Before' /\ cmd'.n = Attempts /\ spi'.cs = 0 /\ PacketBytes' = PacketBytes
            /\ (NoCard' <=> NoCard)
        BY <1>1, <1>4, <2>1, <4>3, GentleStep, GentleAnswers DEF Gentle
      <4>5. j = k - 1 /\ k \in 2 .. 6
        BY <2>1, <3>3
      <4>6. Heard(j)'
        BY <2>3, <3>2, <3>3, <4>3, <4>4 DEF Heard
      <4>7. Heard(k - 1)'
        BY <4>5, <4>6 DEF Heard
      <4>8. Sent(k)'
        BY <1>4, <4>3, <4>4, <4>5, <4>7 DEF Sent
      <4> QED
        BY <1>5, <4>3, <4>8
    <3>4. CASE j = 6
      <4>1. k \in {7, 8} /\ Len(card.packet) >= 5
        BY <2>1, <3>2, <3>4
      <4>2. card' \in Execute(PacketBytes) /\ spi'.data = 255
        BY <1>1, <2>1, <2>3, <3>1, <3>2, <3>4, <4>1, ByteExecutes
      <4>3. Executing
        BY <1>1, <1>4, <2>1, <2>3, <3>1, <4>2 DEF Executing
      <4>4. Replied
        BY <4>3, Executes
      <4>5. cmd'.n = Attempts /\ spi'.cs = 0
        BY <1>4, <2>1 DEF drv
      <4>6. PICK d \in Nat : d + 2 <= Attempts /\ card'.reply = Fill(d) \o Answers'
        BY <4>4 DEF Replied
      <4>7. d \in 0 .. Attempts /\ d + 1 <= cmd'.n /\ d + 2 <= cmd'.n /\ ~NoCard'
        BY <4>4, <4>5, <4>6, CardConstants DEF Replied
      <4>8. Pending(1)' /\ Pending(2)'
        BY <4>6, <4>7 DEF Pending
      <4>9. Received(255)'
        BY <4>7, <4>8 DEF Received, Pending
      <4>10. Received(spi.data)'
        BY <4>2, <4>9 DEF Received
      <4>11. Sounding(k)'
        BY <1>4, <4>1, <4>4, <4>5, <4>8, <4>10 DEF Sounding, Replied
      <4>12. Commanded' /\ Sending' = Sending /\ SendingArg' = SendingArg
        BY <1>1, <1>4 DEF Commanded, CommandOf, ArgOf, LengthArg, Address, Sending, SendingArg,
                          drv
      <4>13. PacketScript(Sending, SendingArg)' = f
        BY <1>2, <4>12 DEF PacketScript, Crc, select, xmit_spi, rcv_spi, AtOnce, Wait
      <4> QED
        BY <1>1, <1>4, <4>11, <4>12, <4>13 DEF Asking, Rest
    <3> QED
      BY <2>1, <3>3, <3>4
  <2> QED
    BY <2>2, <2>3
<1>7. CASE Sounding(k)
  <2>1. k = 8 /\ Pending(1) /\ After /\ card.packet = <<>> /\ spi.cs = 0
    BY <1>4, <1>7 DEF Sounding
  <2>2. ASSUME Gentle, card'.packet = <<>>, Received(spi.data)'
        PROVE  Asking'
    <3>1. After'
      BY <1>1, <2>1, <2>2, GentleStep
    <3>2. Sounding(k)'
      BY <1>4, <2>1, <2>2, <3>1 DEF Sounding
    <3> QED
      BY <1>5, <2>2, <3>2
  <2>3. CASE NoCard
    <3>1. card.reply = <<>>
      BY <2>1, <2>3 DEF Pending
    <3>2. card' = card /\ Gentle /\ spi'.data = 255
      BY <1>1, <2>3, <3>1, ByteLost
    <3>3. NoCard'
      BY <2>3, <3>2 DEF NoCard
    <3>4. Received(255)'
      BY <3>1, <3>2, <3>3 DEF Received, Pending
    <3>5. Received(spi.data)'
      BY <3>2, <3>4 DEF Received
    <3> QED
      BY <2>1, <2>2, <3>2, <3>5
  <2>4. CASE ~NoCard
    <3>1. card.waking = 10
      BY <1>1, <2>1, <2>4, Heeding
    <3>2. PICK d \in 0 .. Attempts : card.reply = Fill(d) \o Answers /\ d + 1 <= cmd.n
      BY <2>1, <2>4 DEF Pending
    <3>3. d \in Nat /\ d + 1 <= cmd.n
      BY <3>2, CardConstants
    <3>4. PICK r \in Seq(Char) : r = card.reply
      BY <1>1 DEF Cards
    <3>5. /\ Answers \in Seq(Char) /\ Answers # <<>> /\ Head(Answers) = First
          /\ Tail(Answers) = Others
      BY <1>1, AnswerBytes
    <3>6. /\ r # <<>>
          /\ d = 0 => Head(r) = First /\ Tail(r) = Others
          /\ d > 0 => Head(r) = 255 /\ Tail(r) = Fill(d - 1) \o Answers
      <4>1. r = Fill(d) \o Answers
        BY <3>2, <3>4
      <4>2. CASE d = 0
        <5>1. r = Answers
          BY <3>3, <3>5, <4>1, <4>2, Filled
        <5>2. ~(d > 0)
          BY <4>2
        <5>3. r # <<>> /\ Head(r) = First /\ Tail(r) = Others
          BY <3>5, <5>1
        <5> QED
          BY <5>2, <5>3
      <4>3. CASE d > 0
        <5>1. Answers \in Seq(Char)
          BY <3>5
        <5>2. d # 0
          BY <3>3, <4>3
        <5>3. r # <<>>
          BY <3>3, <4>1, <4>3, <5>1, Filled
        <5>4. Head(r) = 255
          BY <3>3, <4>1, <4>3, <5>1, Filled
        <5>5. Tail(r) = Fill(d - 1) \o Answers
          BY <3>3, <4>1, <4>3, <5>1, Filled, ZenonT(40)
        <5> QED
          BY <5>2, <5>3, <5>4, <5>5
      <4> QED
        BY <3>3, <4>2, <4>3, SMTT(30)
    <3>7. /\ Gentle /\ card'.packet = <<>> /\ card'.reply = Tail(r) /\ spi'.data = Head(r)
      BY <1>1, <2>1, <2>4, <3>1, <3>4, <3>6, ByteSays
    <3>8. /\ ~NoCard' /\ First' = First /\ Others' = Others /\ Answers' = Answers /\ cmd' = cmd
      BY <1>1, <2>4, <3>7, GentleStep, GentleAnswers DEF Gentle
    <3>9. CASE d = 0
      <4>1. Received(spi.data)'
        BY <3>6, <3>7, <3>8, <3>9 DEF Received
      <4> QED
        BY <2>2, <3>7, <4>1
    <3>10. CASE d > 0
      <4> DEFINE e == d - 1
      <4>1. e \in 0 .. Attempts /\ e + 2 <= cmd'.n /\ card'.reply = Fill(e) \o Answers'
        <5>1. cmd.n \in Int
          BY <1>1, CardConstants DEF Typed
        <5>2. e \in 0 .. Attempts /\ e + 2 <= cmd.n
          BY <3>2, <3>3, <3>10, <5>1, CardConstants
        <5>3. card'.reply = Fill(d - 1) \o Answers
          BY <3>6, <3>7, <3>10
        <5>4. card'.reply = Fill(e) \o Answers'
          BY <3>8, <5>3
        <5> QED
          BY <3>8, <5>2, <5>4
      <4> HIDE DEF e
      <4>2. Received(255)'
        BY <3>8, <4>1 DEF Received, Pending
      <4>3. spi'.data = 255
        BY <3>6, <3>7, <3>10
      <4>4. Received(spi.data)'
        BY <4>2, <4>3 DEF Received
      <4> QED
        BY <2>2, <3>7, <4>4
    <3> QED
      BY <3>3, <3>9, <3>10
  <2> QED
    BY <2>3, <2>4
<1> QED
  BY <1>3, <1>6, <1>7

LEMMA AskingStep ==
    ASSUME Typed, Asking, Access \/ Byte
    PROVE  Asking'
BY AskingAccess, AskingByte

-----------------------------------------------------------------------------
(***************************************************************************)
(* Decisions.                                                              *)
(***************************************************************************)

\* A command that is sent.
Opening ==
    /\ pc = "response" /\ Commanded /\ Before /\ cmd.n = Attempts
    /\ Free /\ Silent /\ request.sector \in Nat
    /\ script = PacketScript(Sending, SendingArg)

LEMMA Opens ==
    ASSUME Opening
    PROVE  Asking /\ script \in Seq(Accesses)
<1> DEFINE f == PacketScript(Sending, SendingArg)
<1> DEFINE b == PacketBytes
<1>1. f \in Seq(Accesses) /\ Len(f) = 9 /\ script = f
  BY SendingScript DEF Opening
<1>2. b \in Seq(Char)
  BY PacketIs DEF Opening
<1> HIDE DEF f, b
<1>3. SubSeq(f, 0 + 1, Len(f)) = f
  BY <1>1, RestEnds
<1>4. Rest(f, 0)
  BY <1>1, <1>3 DEF Rest
<1>5. SubSeq(b, 1, 0) = <<>>
  BY <1>2, SubSeqEmpty
<1>6. Heard(0)
  BY <1>5 DEF Heard, Opening, Silent, b
<1>7. Sent(0)
  BY <1>6 DEF Sent, Opening, Silent
<1>8. Asking
  BY <1>4, <1>7 DEF Asking, Opening, f
<1> QED
  BY <1>1, <1>8

\* What a decision leaves alone.
Deciding == script = <<>> /\ UNCHANGED <<spi, card, res, resets>>

LEMMA Sends ==
    ASSUME Typed, Deciding, Free, Silent,
           pc' = "response", Commanded', Before', cmd'.n = Attempts, request'.sector \in Nat,
           script' = PacketScript(Sending', SendingArg')
    PROVE  Asking' /\ script' \in Seq(Accesses)
<1>1. PacketScript(Sending', SendingArg') = PacketScript(Sending, SendingArg)'
  BY DEF PacketScript, Crc, select, xmit_spi, rcv_spi, AtOnce, Wait
<1>2. Free' /\ Silent'
  BY DEF Deciding, Free, Silent
<1>3. Opening'
  BY <1>1, <1>2 DEF Opening
<1>4. (Opening => Asking /\ script \in Seq(Accesses))'
  BY Opens, PTL
<1> QED
  BY <1>3, <1>4

LEMMA Decided ==
    ASSUME Typed, Deciding, request' \in Requests \cup {NoRequest}, got' \in Seq(Char),
           CardType' \in SdCards \cup {"MMC", "none"}, tmr' \in 0 .. Tries + TokenTries,
           cmd'.n \in 1 .. Attempts, script' \in Seq(Accesses)
    PROVE  Typed'
<1>1. SpiOK' /\ Deselected' /\ card' \in Cards /\ res' \in Char
  BY DEF Typed, Deciding, SpiOK, Free, Deselected, Silent
<1> QED
  BY <1>1 DEF Typed

\* What of a step's invariants does not change.
LEMMA Same ==
    ASSUME Deciding
    PROVE  /\ (NoCard' <=> NoCard) /\ (Version2' <=> Version2) /\ (Awake' <=> Awake)
           /\ (Fresh' <=> Fresh) /\ (GivenUp' <=> GivenUp) /\ (Free' <=> Free)
           /\ (Silent' <=> Silent) /\ OcrBytes' = OcrBytes
           /\ CardType' = CardType => (Known' <=> Known)
BY DEF Deciding, NoCard, Version2, Is, Awake, Fresh, GivenUp, Free, Silent, OcrBytes, Known,
       Version2

LEMMA PhaseOf ==
    ASSUME Phase
    PROVE  /\ pc = "reset" => Starting
           /\ pc = "dummies" => Dummies
           /\ pc = "response" => Asking
           /\ pc = "app" => Told /\ cmd.app
           /\ pc \in Callers => Told /\ pc = cmd.caller
           /\ pc = "selected" => Selecting
           /\ pc = "range" => Range2
           /\ pc = "ccs" => Capacity
           /\ pc = "initialized" => Finishing
           /\ pc = "failed" => Resigned
           /\ pc = "ready" => Serving
           /\ pc = "token" => Hoping
           /\ pc = "copied" => Copying
           /\ pc = "close" => Closing
<1>1. Told => cmd.caller \in Callers /\ ((pc = "app" /\ cmd.app) \/ pc = cmd.caller)
  BY DEF Told, Commanded
<1> QED
  BY <1>1 DEF Phase, Starting, Dummies, Asking, Selecting, Range2, Capacity, Finishing,
              Resigned, Serving, Hoping, Copying, Closing, Callers

\* After an answer: what is still to be heard, and who may have answered.
LEMMA ToldOver ==
    ASSUME Typed, Told, script = <<>>
    PROVE  /\ Free /\ spi.cs = 0 /\ card.packet = <<>>
           /\ card.reply = IF cmd.deselct THEN <<>> ELSE Others
           /\ Commanded /\ After
           /\ res = IF NoCard THEN 255 ELSE First
<1>1. CASE cmd.deselct
  <2>1. Parting(4)
    BY <1>1, PartsEnd DEF Told
  <2> QED
    BY <1>1, <2>1 DEF Told, Parting, Silent
<1>2. CASE ~cmd.deselct
  BY <1>2 DEF Told
<1> QED
  BY <1>1, <1>2

LEMMA ResponseStep ==
    ASSUME Typed, Asking, Deciding, Response
    PROVE  Typed' /\ (Asking \/ Told)'
<1> DEFINE f == PacketScript(Sending, SendingArg)
<1>1. /\ card \in Cards /\ Commanded /\ request \in Requests \cup {NoRequest}
      /\ request.sector \in Nat
  BY RequestedSector DEF Typed, Asking
<1>2. f \in Seq(Accesses) /\ Len(f) = 9 /\ SubSeq(f, 8, 9) = rcv_spi("use")
  BY <1>1, SendingScript
<1> HIDE DEF f
<1>3. PICK k \in 0 .. 9 : Rest(f, k) /\ (Sent(k) \/ Sounding(k))
  BY DEF Asking, f
<1>4. k = 9
  BY <1>2, <1>3, EndOf DEF Deciding
<1>5. /\ Free /\ After /\ card.packet = <<>> /\ spi.cs = 0 /\ Received(res)
  BY <1>3, <1>4 DEF Sent, Sounding
<1>6. /\ UNCHANGED <<got, tmr, CardType, status, request, spi, card, res>>
      /\ (NoCard' <=> NoCard) /\ Free'
  BY <1>5, Same DEF Response, Deciding
<1>7. CASE res >= 128 /\ cmd.n > 1
  <2>1. /\ cmd' = [cmd EXCEPT !.n = @ - 1] /\ script' = rcv_spi("use") /\ pc' = "response"
    BY <1>7 DEF Response
  <2>2. /\ cmd'.command = cmd.command /\ cmd'.app = cmd.app /\ cmd'.arg = cmd.arg
        /\ cmd'.deselct = cmd.deselct /\ cmd'.caller = cmd.caller /\ cmd'.n = cmd.n - 1
    BY <1>1, <2>1 DEF Commanded
  <2>3. /\ Sending' = Sending /\ SendingArg' = SendingArg /\ Answers' = Answers
        /\ First' = First
    BY <1>6, <2>2 DEF Sending, SendingArg, Answers, First, Others, Version2, Is, IfBytes,
                      OcrBytes, Frame
  <2>4. After'
    BY <1>5, <1>6, <2>2 DEF After, NoCard, Fresh, Awake, Known, Version2, Is, Waiting, Waited
  <2>5. Commanded'
    <3>1. cmd.n - 1 \in 1 .. Attempts
      BY <1>1, <1>7, CardConstants DEF Commanded
    <3>2. CommandOf(cmd.caller)' = CommandOf(cmd.caller) /\ ArgOf(cmd.caller)' = ArgOf(cmd.caller)
      BY <1>6, <2>2 DEF CommandOf, ArgOf, Address
    <3> QED
      BY <1>1, <1>6, <2>1, <2>2, <3>1, <3>2 DEF Commanded
  <2>6. Pending(1)'
    <3>1. CASE NoCard
      BY <1>5, <1>6, <3>1 DEF Received, Pending
    <3>2. CASE ~NoCard
      <4>1. First \in 0 .. 127
        BY DEF First
      <4>2. Pending(2)
        BY <1>5, <1>7, <3>2, <4>1 DEF Received
      <4>3. PICK d \in 0 .. Attempts : card.reply = Fill(d) \o Answers /\ d + 2 <= cmd.n
        BY <3>2, <4>2 DEF Pending
      <4>4. d + 1 <= cmd'.n
        BY <1>1, <2>2, <4>3, CardConstants DEF Commanded
      <4>5. card'.reply = Fill(d) \o Answers'
        BY <1>6, <2>3, <4>3
      <4> QED
        BY <1>6, <3>2, <4>4, <4>5 DEF Pending
    <3> QED
      BY <3>1, <3>2
  <2>7. Sounding(7)'
    BY <1>5, <1>6, <2>4, <2>6 DEF Sounding
  <2>8. PacketScript(Sending', SendingArg') = f
    BY <2>3 DEF f
  <2>9. PacketScript(Sending, SendingArg)' = f
    BY <2>8 DEF PacketScript, Crc, select, xmit_spi, rcv_spi, AtOnce, Wait
  <2>10. Rest(PacketScript(Sending, SendingArg), 7)'
    <3>1. SubSeq(f, 7 + 1, Len(f)) = rcv_spi("use")
      BY <1>2
    <3> QED
      BY <2>1, <2>9, <3>1 DEF Rest
  <2>11. Asking'
    BY <2>1, <2>5, <2>7, <2>10 DEF Asking
  <2>12. rcv_spi("use") \in Seq(Accesses)
    BY ReceiveScript DEF Uses
  <2>13. Typed'
    BY <1>1, <1>6, <2>1, <2>5, <2>12, Decided DEF Typed, Commanded
  <2> QED
    BY <2>11, <2>13
<1>8. CASE ~(res >= 128 /\ cmd.n > 1)
  <2> DEFINE g == deselect \o select
  <2>1. /\ script' = IF cmd.deselct THEN g ELSE <<>>
        /\ pc' = IF cmd.app THEN "app" ELSE cmd.caller
        /\ cmd' = cmd
    BY <1>8 DEF Response, Answered
  <2>2. g \in Separations /\ g \in Seq(Accesses) /\ <<>> \in Seq(Accesses)
    BY SelectScript DEF Separations
  <2>3. Gentle
    BY <1>1, <1>6, <2>1, SMTT(30) DEF Gentle, Cards
  <2>4. After' /\ Commanded' /\ First' = First /\ Others' = Others
    BY <1>1, <1>5, <2>3, GentleStep, GentleAnswers
  <2>5. CASE NoCard
    <3>1. res = 255
      BY <1>5, <2>5 DEF Received
    <3>2. cmd.deselct
      BY <1>1, <1>5, <2>5 DEF Commanded, After, Fresh, Awake, Known, Callers
    <3>3. script' = g
      BY <2>1, <3>2
    <3> HIDE DEF g
    <3>4. Parts(g)'
      BY <1>6, <2>2, <3>3, PartsBegin DEF Parts, Rest
    <3>5. Told'
      BY <1>6, <2>1, <2>4, <2>5, <3>1, <3>2, <3>4 DEF Told, g
    <3>6. Typed'
      BY <1>1, <1>6, <2>1, <2>2, <3>3, Decided DEF Typed
    <3> QED
      BY <3>5, <3>6
  <2>6. CASE ~NoCard
    <3>1. res = First /\ card.reply = Others
      <4>1. ASSUME res = 255, Pending(2)
            PROVE  FALSE
        <5>1. PICK d \in 0 .. Attempts : d + 2 <= cmd.n
          BY <2>6, <4>1 DEF Pending
        <5> QED
          BY <1>1, <1>8, <4>1, <5>1, CardConstants DEF Commanded
      <4> QED
        BY <1>5, <2>6, <4>1 DEF Received
    <3>2. CASE cmd.deselct
      <4>1. script' = g
        BY <2>1, <3>2
      <4> HIDE DEF g
      <4>2. Parts(g)'
        BY <1>6, <2>2, <4>1, PartsBegin DEF Parts, Rest
      <4>3. Told'
        BY <1>6, <2>1, <2>4, <2>6, <3>1, <3>2, <4>2 DEF Told, g
      <4>4. Typed'
        BY <1>1, <1>6, <2>1, <2>2, <4>1, Decided DEF Typed
      <4> QED
        BY <4>3, <4>4
    <3>3. CASE ~cmd.deselct
      <4>1. script' = <<>>
        BY <2>1, <3>3
      <4>2. Told'
        BY <1>5, <1>6, <2>1, <2>4, <2>6, <3>1, <3>3, <4>1 DEF Told
      <4>3. Typed'
        BY <1>1, <1>6, <2>1, <2>2, <4>1, Decided DEF Typed
      <4> QED
        BY <4>2, <4>3
    <3> QED
      BY <3>2, <3>3
  <2> QED
    BY <2>5, <2>6
<1> QED
  BY <1>7, <1>8

\* Only ACMD41 has CMD55 before it.
LEMMA WithApp ==
    ASSUME Commanded, cmd.app
    PROVE  cmd.deselct /\ (\/ cmd.caller \in {"type", "leave2"}
                           \/ cmd.caller = "leave1" /\ CardType = "SD1")
<1>1. CommandOf(cmd.caller) = ACMD41 /\ cmd.caller \in Callers
  BY DEF Commanded
<1>2. \/ cmd.caller \in {"type", "leave2"}
      \/ cmd.caller = "leave1" /\ CardType = "SD1"
  BY <1>1 DEF CommandOf, Callers, CMD0, CMD1, CMD8, CMD16, CMD17, ACMD41, CMD58
<1>3. cmd.deselct = (cmd.caller \notin {"if", "ocr", "read"})
  BY DEF Commanded
<1> QED
  BY <1>2, <1>3

\* The caller of send_cmd has the response.
LEMMA ToldHere ==
    ASSUME Typed, Told, script = <<>>, pc = cmd.caller
    PROVE  /\ Commanded /\ After /\ Free /\ spi.cs = 0 /\ card.packet = <<>>
           /\ card.reply = IF cmd.caller \in {"if", "ocr", "read"} THEN Others ELSE <<>>
           /\ cmd.app => cmd.caller = "type" /\ ~Is(SdCards)
           /\ res = IF NoCard THEN 255 ELSE First
           /\ cmd.caller # "idle" => ~NoCard
<1>1. /\ Commanded /\ After /\ Free /\ spi.cs = 0 /\ card.packet = <<>>
      /\ card.reply = IF cmd.deselct THEN <<>> ELSE Others
      /\ res = IF NoCard THEN 255 ELSE First
  BY ToldOver
<1>2. cmd.deselct = (cmd.caller \notin {"if", "ocr", "read"}) /\ cmd.caller \in Callers
  BY <1>1 DEF Commanded
<1>3. cmd.app => ~Is(SdCards)
  BY <1>2 DEF Told, Callers
<1>4. cmd.app => cmd.caller = "type"
  BY <1>1, <1>3, WithApp DEF After, Version2, Is, SdCards
<1>5. cmd.caller # "idle" => ~NoCard
  BY <1>1, <1>2 DEF After, Callers, Fresh, Awake, Known
<1> QED
  BY <1>1, <1>2, <1>3, <1>4, <1>5

LEMMA AppStep ==
    ASSUME Typed, Told, cmd.app, pc = "app", Deciding, App
    PROVE  Typed' /\ (Asking \/ Told)'
<1>1. /\ card \in Cards /\ Commanded /\ After /\ request \in Requests \cup {NoRequest}
      /\ request.sector \in Nat /\ Free /\ card.packet = <<>>
      /\ res = (IF NoCard THEN 255 ELSE First)
  BY RequestedSector, ToldOver DEF Typed, Deciding
<1>2. /\ cmd.deselct
      /\ \/ cmd.caller \in {"type", "leave2"}
         \/ cmd.caller = "leave1" /\ CardType = "SD1"
  BY <1>1, WithApp
<1>3. card.reply = <<>> /\ Silent
  BY <1>1, <1>2, ToldOver DEF Deciding, Silent
<1>4. UNCHANGED <<got, tmr, CardType, status, request, spi, card, res>>
  BY DEF App, Deciding
<1>5. CASE res > 1
  <2>1. pc' = cmd.caller /\ cmd' = cmd /\ script' = <<>> /\ script = <<>>
    BY <1>5 DEF App, Deciding
  <2>2. ~Is(SdCards)
    BY <1>1, <1>2, <1>5 DEF First, NoCard, Is, SdCards
  <2>3. Gentle
    BY <1>1, <1>4, <2>1 DEF Gentle, Cards
  <2>4. After' /\ Commanded' /\ First' = First /\ (NoCard' <=> NoCard)
    BY <1>1, <2>3, GentleStep, GentleAnswers
  <2>5. PICK k \in 0 .. Len(deselect \o select) : Rest(deselect \o select, k) /\ Parting(k)
    BY <1>2 DEF Told, Parts
  <2>6. Parts(deselect \o select)'
    BY <1>4, <2>1, <2>5 DEF Parts, Rest, Parting, Free, Silent
  <2>7. Told'
    BY <1>1, <1>2, <1>4, <2>1, <2>2, <2>4, <2>6 DEF Told, Is
  <2>8. Typed'
    BY <1>1, <1>4, <2>1, Decided DEF Typed
  <2> QED
    BY <2>7, <2>8
<1>6. CASE ~(res > 1)
  <2>1. /\ cmd' = [command |-> cmd.command, app |-> FALSE, arg |-> cmd.arg,
                   deselct |-> cmd.deselct, caller |-> cmd.caller, n |-> Attempts]
        /\ script' = PacketScript(cmd.command, cmd.arg) /\ pc' = "response"
    BY <1>6 DEF App, send_cmd, Packet
  <2>2. /\ cmd'.command = cmd.command /\ cmd'.app = FALSE /\ cmd'.arg = cmd.arg
        /\ cmd'.deselct = cmd.deselct /\ cmd'.caller = cmd.caller /\ cmd'.n = Attempts
    BY <2>1
  <2>3. Sending' = cmd.command /\ SendingArg' = cmd.arg
    BY <2>2 DEF Sending, SendingArg
  <2>4. ~NoCard /\ Is(SdCards) /\ card.app
    BY <1>1, <1>6 DEF First, After
  <2>5. Before'
    <3>1. /\ cmd.caller = "type" => Fresh /\ ~Version2
          /\ cmd.caller = "leave2" => Awake /\ Version2 /\ card.sized /\ Waiting(0)
          /\ cmd.caller = "leave1" => Awake /\ ~Version2 /\ CardType = card.kind /\ Waiting(0)
      BY <1>1 DEF After
    <3>2. /\ (Fresh' <=> Fresh) /\ (Version2' <=> Version2) /\ (Awake' <=> Awake)
      BY Same
    <3>3. Waiting(0) => Waiting(0)'
      BY <1>4 DEF Waiting, Waited
    <3> QED
      BY <1>2, <1>4, <2>2, <2>4, <3>1, <3>2, <3>3 DEF Before, Is
  <2>6. Commanded'
    <3>1. CommandOf(cmd.caller)' = CommandOf(cmd.caller) /\ ArgOf(cmd.caller)' = ArgOf(cmd.caller)
      BY <1>4, <2>2 DEF CommandOf, ArgOf, Address
    <3>2. Attempts \in 1 .. Attempts
      BY CardConstants
    <3> QED
      BY <1>1, <1>4, <2>1, <2>2, <3>1, <3>2 DEF Commanded
  <2>7. Asking' /\ script' \in Seq(Accesses)
    BY <1>1, <1>3, <1>4, <2>1, <2>2, <2>3, <2>5, <2>6, Sends
  <2>8. Typed'
    BY <1>1, <1>4, <2>2, <2>6, <2>7, Decided DEF Typed, Commanded
  <2> QED
    BY <2>7, <2>8
<1> QED
  BY <1>5, <1>6

\* A command of disk_initialize or disk_readp.
LEMMA SendStep ==
    ASSUME Typed, Deciding, Free, Silent,
           NEW command \in {CMD0, CMD1, CMD8, CMD16, CMD17, ACMD41, CMD58},
           NEW app \in BOOLEAN, NEW arg, NEW deselct, NEW caller \in Callers,
           send_cmd(command, app, arg, deselct, caller),
           command = CommandOf(caller)', arg = ArgOf(caller)', app => command = ACMD41,
           deselct = (caller \notin {"if", "ocr", "read"}),
           Before', caller = "read" => request' \in Requests,
           request' \in Requests \cup {NoRequest}, got' \in Seq(Char),
           CardType' \in SdCards \cup {"MMC", "none"}, tmr' \in 0 .. Tries + TokenTries
    PROVE  Typed' /\ Asking' /\ pc' = "response"
<1>1. cmd' = [command |-> command, app |-> app, arg |-> arg, deselct |-> deselct,
              caller |-> caller, n |-> Attempts]
  BY DEF send_cmd
<1>2. /\ cmd'.command = command /\ cmd'.app = app /\ cmd'.arg = arg
      /\ cmd'.deselct = deselct /\ cmd'.caller = caller /\ cmd'.n = Attempts
  BY <1>1
<1>3. pc' = "response"
  BY DEF send_cmd, Packet
<1>4. script' = PacketScript(Sending', SendingArg')
  <2>1. CASE app
    <3>1. Sending' = CMD55 /\ SendingArg' = NoArg
      BY <1>2, <2>1 DEF Sending, SendingArg
    <3> QED
      BY <2>1, <3>1 DEF send_cmd, Packet
  <2>2. CASE ~app
    <3>1. Sending' = command /\ SendingArg' = arg
      BY <1>2, <2>2 DEF Sending, SendingArg
    <3> QED
      BY <2>2, <3>1 DEF send_cmd, Packet
  <2> QED
    BY <2>1, <2>2
<1>5. Attempts \in 1 .. Attempts
  BY CardConstants
<1>6. Commanded'
  <2>1. CommandOf(cmd.caller)' = command /\ ArgOf(cmd.caller)' = arg
    BY <1>2 DEF CommandOf, ArgOf, Address
  <2> QED
    BY <1>1, <1>2, <1>5, <2>1 DEF Commanded
<1>7. request'.sector \in Nat
  <2>1. \A r \in Requests : r.sector \in Sectors
    BY DEF Requests
  <2>2. NoRequest.sector = 0
    BY DEF NoRequest
  <2>3. \A i \in Sectors : i \in Nat
    BY CardConstants
  <2>4. request' = NoRequest \/ request' \in Requests
    OBVIOUS
  <2> QED
    BY <2>1, <2>2, <2>3, <2>4
<1>8. Asking' /\ script' \in Seq(Accesses)
  BY <1>2, <1>3, <1>4, <1>6, <1>7, Sends
<1>9. Typed'
  BY <1>2, <1>5, <1>8, Decided
<1> QED
  BY <1>3, <1>8, <1>9

\* The end of disk_initialize.
LEMMA FinishStep ==
    ASSUME Typed, Deciding, Free, NEW ty \in SdCards \cup {"MMC", "none"}, Finish(ty),
           request' = request, ty = "none" => GivenUp,
           ty # "none" => Awake /\ ~card.idle /\ card.sized /\ ty = card.kind
    PROVE  Typed' /\ Finishing'
<1> DEFINE f == deselect
<1>1. /\ CardType' = ty /\ script' = f /\ pc' = "initialized"
      /\ UNCHANGED <<cmd, got, tmr>>
  BY DEF Finish
<1>2. f \in Separations /\ f \in Seq(Accesses)
  BY SelectScript DEF Separations
<1> HIDE DEF f
<1>3. Free' /\ (GivenUp' <=> GivenUp) /\ (Awake' <=> Awake) /\ card' = card
  BY Same DEF Deciding
<1>4. Parts(f)'
  BY <1>1, <1>2, <1>3, PartsBegin DEF Parts, Rest
<1>5. Finishing'
  BY <1>1, <1>3, <1>4 DEF Finishing, Known, f
<1>6. Typed'
  BY <1>1, <1>2, Decided DEF Typed
<1> QED
  BY <1>5, <1>6

LEMMA BeginStep ==
    ASSUME Typed, Deciding, Begin
    PROVE  Typed' /\ Dummies'
<1> DEFINE f == Times(DummyBytes, deselect)
<1>1. /\ script' = f /\ pc' = "dummies"
      /\ UNCHANGED <<cmd, got, tmr, CardType, status, request>>
  BY DEF Begin
<1>2. f \in Seq(Accesses)
  BY CardConstants, DummiesScript
<1> HIDE DEF f
<1>3. SubSeq(f, 0 + 1, Len(f)) = f /\ 0 \in 0 .. DummyBytes /\ 0 \in 0 .. 2
  BY <1>2, RestEnds, CardConstants
<1>4. 3 * 0 + 0 = 0 /\ 3 * DummyBytes >= 0
  BY CardConstants
<1>5. card'.waking >= 0
  BY SMTT(30) DEF Typed, Deciding, Cards
<1>6. Rest(f, 3 * 0 + 0)'
  BY <1>1, <1>3, <1>4 DEF Rest
<1>7. Dummies'
  BY <1>1, <1>3, <1>4, <1>5, <1>6, CardConstants DEF Dummies, f
<1>8. Typed'
  BY <1>1, <1>2, Decided DEF Typed
<1> QED
  BY <1>7, <1>8

LEMMA GoToIdleStep ==
    ASSUME Typed, Dummies, Deciding, GoToIdle, request' = request
    PROVE  Typed' /\ Asking'
<1> DEFINE f == Times(DummyBytes, deselect)
<1>1. f \in Seq(Accesses) /\ Len(f) = 3 * DummyBytes
  BY CardConstants, DummiesScript
<1> HIDE DEF f
<1>2. PICK q \in 0 .. DummyBytes, r \in 0 .. 2 :
        /\ 3 * q + r <= 3 * DummyBytes /\ Rest(f, 3 * q + r)
        /\ 3 * q + r > 0 => spi.cs = 1 /\ (r < 2 => Free)
        /\ LET clocked == IF r = 2 /\ Free THEN q + 1 ELSE q
           IN  NoCard \/ card.waking >= IF clocked < 10 THEN clocked ELSE 10
  BY DEF Dummies, f
<1>3. 3 * q + r = 3 * DummyBytes
  <2>1. 3 * q + r \in 0 .. Len(f)
    BY <1>1, <1>2, CardConstants
  <2> QED
    BY <1>1, <1>2, <2>1, EndOf DEF Deciding
<1>4. q = DummyBytes /\ r = 0
  BY <1>2, <1>3, CardConstants
<1>5. spi.cs = 1 /\ Free /\ (NoCard \/ card.waking >= 10)
  BY <1>2, <1>3, <1>4, CardConstants
<1>6. Silent
  BY <1>5 DEF Typed, Deselected
<1>7. NoCard \/ card.waking = 10
  BY <1>5, SMTT(30) DEF Typed, Cards
<1>8. /\ send_cmd(CMD0, FALSE, NoArg, TRUE, "idle") /\ UNCHANGED <<got, tmr, CardType>>
  BY DEF GoToIdle
<1>9. cmd'.caller = "idle" /\ cmd'.command = CMD0
  BY <1>8 DEF send_cmd
<1>10. Before'
  BY <1>7, <1>9, Same DEF Before, Deciding, CMD0, ACMD41
<1>11. CMD0 = CommandOf("idle")' /\ NoArg = ArgOf("idle")' /\ "idle" \in Callers
  BY DEF CommandOf, ArgOf, Callers
<1> QED
  BY <1>5, <1>6, <1>8, <1>10, <1>11, SendStep DEF Typed

LEMMA IdledStep ==
    ASSUME Typed, Told, pc = "idle", pc = cmd.caller, Deciding, Idled, request' = request
    PROVE  Typed' /\ (Finishing \/ Selecting)'
<1> DEFINE g == deselect \o select
<1>1. /\ After /\ Free /\ ~cmd.app /\ cmd.caller = "idle" /\ pc = "idle"
      /\ res = (IF NoCard THEN 255 ELSE First)
  BY ToldHere DEF Deciding
<1>2. NoCard \/ Fresh
  BY <1>1 DEF After
<1>3. ~NoCard => res = 1
  BY <1>1, <1>2 DEF First, Fresh
<1>4. CASE res # 1
  <2>1. Finish("none") /\ NoCard
    BY <1>3, <1>4 DEF Idled
  <2>2. GivenUp
    BY <2>1 DEF GivenUp
  <2> QED
    BY <1>1, <2>1, <2>2, FinishStep
<1>5. CASE res = 1
  <2>1. script' = g /\ pc' = "selected" /\ UNCHANGED <<cmd, got, tmr, CardType>>
    BY <1>5 DEF Idled
  <2>2. g \in Separations /\ g \in Seq(Accesses)
    BY SelectScript DEF Separations
  <2> HIDE DEF g
  <2>3. Fresh' /\ Free'
    BY <1>1, <1>2, <1>5, Same
  <2>4. Parts(g)'
    BY <2>1, <2>2, <2>3, PartsBegin DEF Parts, Rest
  <2>5. Selecting'
    BY <2>1, <2>3, <2>4 DEF Selecting, g
  <2>6. Typed'
    BY <2>1, <2>2, Decided DEF Typed
  <2> QED
    BY <2>5, <2>6
<1> QED
  BY <1>4, <1>5

LEMMA AskIfStep ==
    ASSUME Typed, Selecting, Deciding, AskIf, request' = request
    PROVE  Typed' /\ Asking'
<1>1. Fresh /\ Free /\ Silent
  BY PartsEnd DEF Selecting, Deciding, Parting
<1> DEFINE a == <<0, 0, 1, 170>>
<1>2. send_cmd(CMD8, FALSE, a, FALSE, "if") /\ UNCHANGED <<got, tmr, CardType>>
  BY DEF AskIf
<1>3. cmd'.caller = "if" /\ cmd'.command = CMD8
  BY <1>2 DEF send_cmd
<1>4. Before'
  BY <1>1, <1>3, Same DEF Before, CMD8, ACMD41
<1>5. CMD8 = CommandOf("if")' /\ a = ArgOf("if")' /\ "if" \in Callers
  BY DEF CommandOf, ArgOf, Callers
<1> HIDE DEF a
<1> QED
  BY <1>1, <1>2, <1>4, <1>5, SendStep DEF Typed

LEMMA IfStep ==
    ASSUME Typed, Told, pc = "if", pc = cmd.caller, Deciding, If, request' = request
    PROVE  Typed' /\ (Range2 \/ Asking)'
<1>1. /\ After /\ Free /\ ~cmd.app /\ cmd.caller = "if" /\ ~NoCard /\ spi.cs = 0
      /\ card.packet = <<>> /\ card.reply = Others /\ res = First
  BY ToldHere DEF Deciding
<1>2. Fresh
  BY <1>1 DEF After
<1>3. res = IF Version2 THEN 1 ELSE 5
  BY <1>1, <1>2 DEF First, Fresh
<1>4. UNCHANGED <<spi, card, tmr, CardType>>
  BY DEF Deciding, If
<1>5. CASE res = 1
  <2> DEFINE f == Times(4, rcv_spi("keep")) \o deselect \o select
  <2>1. script' = f /\ got' = <<>> /\ pc' = "range" /\ UNCHANGED cmd
    BY <1>5 DEF If
  <2>2. f \in Seq(Accesses) /\ SubSeq(f, 0 + 1, Len(f)) = f
    BY RangeScript, RestEnds
  <2> HIDE DEF f
  <2>3. Fresh' /\ Version2'
    BY <1>2, <1>3, <1>5, Same
  <2>4. card'.reply = IfBytes
    BY <1>1, <1>3, <1>4, <1>5 DEF Others
  <2>5. /\ SubSeq(IfBytes, 0 + 1, Len(IfBytes)) = IfBytes /\ SubSeq(IfBytes, 0 + 1, 0) = <<>>
        /\ 0 \in 0 .. Len(IfBytes)
    BY FourBytes, RestEnds, SubSeqEmpty
  <2>6. Free' /\ spi'.cs = 0 /\ card'.packet = <<>>
    BY <1>1, <1>4 DEF Free
  <2>7. Listening(IfBytes, 0, 0)'
    BY <2>4, <2>5, <2>6 DEF Listening, IfBytes
  <2>8. Kept(IfBytes, 0, 0, 4)'
    BY <2>1, <2>5 DEF Kept, IfBytes
  <2>9. Rest(f, 0)'
    BY <2>1, <2>2 DEF Rest
  <2>10. Range2'
    BY <2>1, <2>3, <2>7, <2>8, <2>9 DEF Range2, f
  <2>11. Typed'
    BY <1>4, <2>1, <2>2, Decided DEF Typed
  <2> QED
    BY <2>10, <2>11
<1>6. CASE res # 1
  <2>1. ~Version2 /\ Silent
    BY <1>1, <1>3, <1>6 DEF Others, Silent
  <2>2. send_cmd(ACMD41, TRUE, NoArg, TRUE, "type") /\ UNCHANGED got
    BY <1>6 DEF If
  <2>3. cmd'.caller = "type" /\ cmd'.app
    BY <2>2 DEF send_cmd
  <2>4. Before'
    BY <1>2, <2>1, <2>3, Same DEF Before
  <2>5. ACMD41 = CommandOf("type")' /\ NoArg = ArgOf("type")' /\ "type" \in Callers
    BY DEF CommandOf, ArgOf, Callers
  <2> QED
    BY <1>1, <1>4, <2>1, <2>2, <2>4, <2>5, SendStep DEF Typed
<1> QED
  BY <1>5, <1>6

LEMMA InRangeStep ==
    ASSUME Typed, Range2, Deciding, InRange, request' = request
    PROVE  Typed' /\ Asking'
<1> DEFINE f == Times(4, rcv_spi("keep")) \o deselect \o select
<1>1. f \in Seq(Accesses) /\ Len(f) = 12
  BY RangeScript
<1> HIDE DEF f
<1>2. PICK k \in 0 .. 12 :
        /\ Rest(f, k)
        /\ \/ \E i \in 0 .. 4 : Listening(IfBytes, i, k) /\ Kept(IfBytes, i, 0, 4)
           \/ k >= 8 /\ Parting(k - 8) /\ got = IfBytes
  BY DEF Range2, f
<1>3. k = 12
  BY <1>1, <1>2, EndOf DEF Deciding
<1>4. \A i \in 0 .. 4 : ~Listening(IfBytes, i, k)
  <2> SUFFICES ASSUME NEW i \in 0 .. 4, Listening(IfBytes, i, k)
               PROVE  FALSE
    OBVIOUS
  <2>1. k = 2 * i \/ (k = 2 * i + 1 /\ i < Len(IfBytes))
    BY DEF Listening
  <2> QED
    BY <1>3, <2>1
<1>5. Parting(4) /\ got = IfBytes
  <2>1. k - 8 = 4
    BY <1>3
  <2> QED
    BY <1>2, <1>4, <2>1
<1>6. Free /\ Silent /\ Fresh /\ Version2
  BY <1>5 DEF Parting, Range2
<1>7. got[3] = 1 /\ got[4] = 170
  BY <1>5, FourBytes
<1>8. /\ tmr' = Tries /\ send_cmd(ACMD41, TRUE, InitArg, TRUE, "leave2")
      /\ UNCHANGED <<got, CardType>>
  BY <1>7 DEF InRange
<1>9. cmd'.caller = "leave2" /\ cmd'.app
  BY <1>8 DEF send_cmd
<1>10. /\ Awake' /\ Version2' /\ card'.sized
       /\ card'.needs = card'.rounds /\ card'.needs \in Nat
  BY <1>6, Same DEF Fresh, Deciding, Typed, Cards
<1>11. Waiting(0)'
  BY <1>8, <1>10, CardConstants DEF Waiting, Waited
<1>12. Before'
  BY <1>9, <1>10, <1>11 DEF Before
<1>13. ACMD41 = CommandOf("leave2")' /\ InitArg = ArgOf("leave2")' /\ "leave2" \in Callers
  BY DEF CommandOf, ArgOf, Callers
<1>14. tmr' \in 0 .. Tries + TokenTries
  BY <1>8, CardConstants
<1> QED
  BY <1>6, <1>8, <1>12, <1>13, <1>14, SendStep DEF Typed

LEMMA Leave2Step ==
    ASSUME Typed, Told, pc = "leave2", pc = cmd.caller, Deciding, Leave2, request' = request
    PROVE  Typed' /\ (Asking \/ Finishing)'
<1>1. /\ After /\ Free /\ Silent /\ ~cmd.app /\ cmd.caller = "leave2" /\ ~NoCard /\ res = First
  BY ToldHere DEF Deciding, Silent
<1>2. /\ Awake /\ Version2 /\ card.sized /\ tmr \in 1 .. Tries /\ (card.idle => Waiting(1))
  BY <1>1 DEF After
<1>3. res = IF card.idle THEN 1 ELSE 0
  BY <1>1 DEF First
<1>4. Awake' /\ Version2' /\ card'.sized
  BY <1>2, Same DEF Deciding
<1>5. /\ card.needs \in Nat /\ card.rounds \in Nat /\ Tries \in Nat
  BY CardConstants DEF Typed, Cards
<1>6. /\ ACMD41 = CommandOf("leave2")' /\ InitArg = ArgOf("leave2")' /\ "leave2" \in Callers
      /\ CMD58 = CommandOf("ocr")' /\ NoArg = ArgOf("ocr")' /\ "ocr" \in Callers
  BY DEF CommandOf, ArgOf, Callers
<1>7. CASE res # 0 /\ tmr > 1
  <2>1. /\ tmr' = tmr - 1 /\ send_cmd(ACMD41, TRUE, InitArg, TRUE, "leave2")
        /\ UNCHANGED <<got, CardType>>
    BY <1>7 DEF Leave2, Leave
  <2>2. cmd'.caller = "leave2" /\ cmd'.app
    BY <2>1 DEF send_cmd
  <2>3. Waiting(1) /\ UNCHANGED card
    BY <1>2, <1>3, <1>7 DEF Deciding
  <2>4. Waiting(0)'
    BY <1>2, <1>5, <1>7, <2>1, <2>3 DEF Waiting, Waited
  <2>5. Before'
    BY <1>4, <2>2, <2>4 DEF Before
  <2>6. tmr' \in 0 .. Tries + TokenTries
    BY <1>2, <1>7, <2>1, CardConstants
  <2> QED
    BY <1>1, <1>6, <2>1, <2>5, <2>6, SendStep DEF Typed
<1>8. CASE res # 0 /\ ~(tmr > 1)
  <2>1. Finish("none")
    BY <1>8 DEF Leave2, Leave
  <2>2. GivenUp
    BY <1>2, <1>3, <1>5, <1>8 DEF Waiting, Waited, GivenUp
  <2> QED
    BY <1>1, <2>1, <2>2, FinishStep
<1>9. CASE res = 0
  <2>1. send_cmd(CMD58, FALSE, NoArg, FALSE, "ocr") /\ UNCHANGED <<got, tmr, CardType>>
    BY <1>9 DEF Leave2, Leave
  <2>2. cmd'.caller = "ocr" /\ cmd'.command = CMD58
    BY <2>1 DEF send_cmd
  <2>3. ~card'.idle
    BY <1>3, <1>9 DEF Deciding
  <2>4. Before'
    BY <1>4, <2>2, <2>3 DEF Before, CMD58, ACMD41
  <2> QED
    BY <1>1, <1>6, <2>1, <2>4, SendStep DEF Typed
<1> QED
  BY <1>7, <1>8, <1>9

LEMMA OcrStep ==
    ASSUME Typed, Told, pc = "ocr", pc = cmd.caller, Deciding, Ocr, request' = request
    PROVE  Typed' /\ Capacity'
<1> DEFINE f == Times(4, rcv_spi("keep"))
<1>1. /\ After /\ Free /\ ~cmd.app /\ cmd.caller = "ocr" /\ ~NoCard /\ spi.cs = 0
      /\ card.packet = <<>> /\ card.reply = Others /\ res = First
  BY ToldHere DEF Deciding
<1>2. Awake /\ Version2 /\ card.sized /\ ~card.idle /\ res = 0
  BY <1>1 DEF After, First
<1>3. /\ script' = f /\ got' = <<>> /\ pc' = "ccs"
      /\ UNCHANGED <<cmd, tmr, CardType, spi, card>>
  BY <1>2 DEF Ocr, Deciding
<1>4. f \in Seq(Accesses) /\ SubSeq(f, 0 + 1, Len(f)) = f
  BY ReceivesScript, RestEnds DEF Uses
<1> HIDE DEF f
<1>5. /\ Awake' /\ Version2' /\ card'.sized /\ ~card'.idle /\ OcrBytes' = OcrBytes
      /\ Free' /\ spi'.cs = 0 /\ card'.packet = <<>>
  BY <1>1, <1>2, Same DEF Deciding
<1>6. card'.reply = OcrBytes
  BY <1>1, <1>3 DEF Others
<1>7. /\ OcrBytes \in Seq(Char) /\ SubSeq(OcrBytes, 0 + 1, Len(OcrBytes)) = OcrBytes
      /\ SubSeq(OcrBytes, 0 + 1, 0) = <<>> /\ 0 \in 0 .. Len(OcrBytes)
  BY FourBytes, RestEnds, SubSeqEmpty
<1>8. PICK b \in Seq(Char) : b = OcrBytes
  BY <1>7
<1>9. Listening(b, 0, 0)'
  BY <1>5, <1>6, <1>7, <1>8 DEF Listening
<1>10. Kept(b, 0, 0, 4)'
  BY <1>3, <1>7, <1>8 DEF Kept
<1>11. b = OcrBytes'
  BY <1>5, <1>8
<1>12. Rest(f, 0)'
  BY <1>3, <1>4 DEF Rest
<1>13. Capacity'
  BY <1>3, <1>5, <1>9, <1>10, <1>11, <1>12 DEF Capacity, Listening, Kept, f
<1>14. Typed'
  BY <1>3, <1>4, Decided DEF Typed
<1> QED
  BY <1>13, <1>14

LEMMA CcsStep ==
    ASSUME Typed, Capacity, Deciding, Ccs, request' = request
    PROVE  Typed' /\ Finishing'
<1> DEFINE f == Times(4, rcv_spi("keep"))
<1>1. f \in Seq(Accesses) /\ Len(f) = 8
  <2>1. 4 \in Nat /\ "keep" \in Uses /\ 2 * 4 = 8
    BY DEF Uses
  <2>2. f \in Seq(Accesses) /\ Len(f) = 2 * 4
    BY <2>1, ReceivesScript
  <2> QED
    BY <2>1, <2>2
<1> HIDE DEF f
<1>2. PICK i \in 0 .. 4, k \in 0 .. 8 :
        Rest(f, k) /\ Listening(OcrBytes, i, k) /\ Kept(OcrBytes, i, 0, 4)
  BY DEF Capacity, f
<1>3. k = 8
  BY <1>1, <1>2, EndOf DEF Deciding
<1>4. i = 4 /\ Free
  BY <1>2, <1>3 DEF Listening
<1>5. got = OcrBytes
  <2>1. OcrBytes \in Seq(Char) /\ Len(OcrBytes) = 4 /\ 0 + 1 = 1
    BY FourBytes
  <2>2. SubSeq(OcrBytes, 0 + 1, 4) = OcrBytes
    BY <2>1, SubSeqFull
  <2> QED
    BY <1>2, <1>4, <2>2 DEF Kept
<1>6. /\ Awake /\ Version2 /\ card.sized /\ ~card.idle
      /\ card.kind = IF Is({"SDHC"}) THEN "SDHC" ELSE "SD2"
  BY DEF Capacity, Version2, Is
<1>7. got[1] = IF Is({"SDHC"}) THEN 192 ELSE 128
  BY <1>5, FourBytes
<1>8. (IF (got[1] \div 64) % 2 = 1 THEN "SDHC" ELSE "SD2") = card.kind
  BY <1>6, <1>7
<1>9. Finish(card.kind)
  BY <1>8 DEF Ccs
<1>10. card.kind \in SdCards /\ card.kind # "none"
  BY <1>6 DEF SdCards
<1> QED
  BY <1>4, <1>6, <1>9, <1>10, FinishStep

LEMMA TypeStep ==
    ASSUME Typed, Told, pc = "type", pc = cmd.caller, Deciding, Type, request' = request
    PROVE  Typed' /\ Asking'
<1>1. /\ After /\ Free /\ Silent /\ cmd.caller = "type" /\ ~NoCard /\ res = First
      /\ cmd.app => ~Is(SdCards)
  BY ToldHere DEF Deciding, Silent
<1>2. /\ Awake /\ ~Version2
      /\ IF cmd.app THEN Fresh ELSE card.kind = "SD1" /\ Waited(0)
  BY <1>1 DEF After
<1>3. /\ Awake' /\ ~Version2' /\ card' = card
  BY <1>2, Same DEF Deciding
<1>4. /\ card.needs \in Nat /\ card.rounds \in Nat /\ Tries \in Nat /\ Tries > 0
      /\ card.kind \in SdCards \cup {"MMC", "none"} /\ tmr' = Tries /\ got' = got
  BY CardConstants DEF Typed, Cards, Type
<1>5. Waited(0)
  BY <1>2, <1>4 DEF Fresh, Waited
<1>6. Waiting(0)'
  BY <1>3, <1>4, <1>5 DEF Waiting, Waited
<1>7. tmr' \in 0 .. Tries + TokenTries
  BY <1>4, CardConstants
<1>8. NoArg = ArgOf("leave1")' /\ "leave1" \in Callers
  BY DEF ArgOf, Callers
<1>9. CASE res <= 1
  <2>1. ~cmd.app /\ card.kind = "SD1"
    BY <1>1, <1>2, <1>9 DEF First
  <2>2. CardType' = "SD1" /\ send_cmd(ACMD41, TRUE, NoArg, TRUE, "leave1")
    BY <1>9 DEF Type
  <2>3. cmd'.caller = "leave1" /\ cmd'.app
    BY <2>2 DEF send_cmd
  <2>4. Before'
    BY <1>3, <1>6, <2>1, <2>2, <2>3 DEF Before
  <2>5. ACMD41 = CommandOf("leave1")'
    BY <2>2 DEF CommandOf
  <2>6. CardType' \in SdCards \cup {"MMC", "none"}
    BY <2>2 DEF SdCards
  <2> QED
    BY <1>1, <1>4, <1>7, <1>8, <2>2, <2>4, <2>5, <2>6, SendStep DEF Typed
<1>10. CASE ~(res <= 1)
  <2>1. cmd.app
    BY <1>1, <1>10 DEF First
  <2>2. card.kind = "MMC"
    BY <1>1, <1>4, <2>1 DEF Is, NoCard
  <2>3. CardType' = "MMC" /\ send_cmd(CMD1, FALSE, NoArg, TRUE, "leave1")
    BY <1>10 DEF Type
  <2>4. cmd'.caller = "leave1" /\ cmd'.command = CMD1
    BY <2>3 DEF send_cmd
  <2>5. Before'
    BY <1>3, <1>6, <2>2, <2>3, <2>4 DEF Before, CMD1, ACMD41
  <2>6. CMD1 = CommandOf("leave1")'
    BY <2>3 DEF CommandOf
  <2> QED
    BY <1>1, <1>4, <1>7, <1>8, <2>3, <2>5, <2>6, SendStep DEF Typed
<1> QED
  BY <1>9, <1>10

LEMMA Leave1Step ==
    ASSUME Typed, Told, pc = "leave1", pc = cmd.caller, Deciding, Leave1, request' = request
    PROVE  Typed' /\ (Asking \/ Finishing)'
<1>1. /\ Commanded /\ After /\ Free /\ Silent /\ ~cmd.app /\ cmd.caller = "leave1"
      /\ ~NoCard /\ res = First
  BY ToldHere DEF Deciding, Silent
<1>2. /\ Awake /\ ~Version2 /\ CardType = card.kind /\ tmr \in 1 .. Tries
      /\ card.idle => Waiting(1)
  BY <1>1 DEF After
<1>3. res = IF card.idle THEN 1 ELSE 0
  BY <1>1 DEF First
<1>4. Awake' /\ ~Version2' /\ card' = card
  BY <1>2, Same DEF Deciding
<1>5. /\ card.needs \in Nat /\ card.rounds \in Nat /\ Tries \in Nat
  BY CardConstants DEF Typed, Cards
<1>6. /\ NoArg = ArgOf("leave1")' /\ "leave1" \in Callers
      /\ CMD16 = CommandOf("length")' /\ LengthArg = ArgOf("length")' /\ "length" \in Callers
  BY DEF CommandOf, ArgOf, Callers
<1>7. CASE res # 0 /\ tmr > 1
  <2> DEFINE app == CardType = "SD1"
  <2>1. /\ tmr' = tmr - 1 /\ send_cmd(cmd.command, app, NoArg, TRUE, "leave1")
        /\ UNCHANGED <<got, CardType>>
    BY <1>7 DEF Leave1, Leave
  <2>2. cmd.command = IF app THEN ACMD41 ELSE CMD1
    BY <1>1 DEF Commanded, CommandOf
  <2>3. /\ cmd.command = CommandOf("leave1")' /\ (app => cmd.command = ACMD41)
        /\ cmd.command \in {CMD0, CMD1, CMD8, CMD16, CMD17, ACMD41, CMD58}
    BY <2>1, <2>2 DEF CommandOf
  <2>4. cmd'.caller = "leave1" /\ cmd'.command = cmd.command /\ (app => cmd'.app)
    BY <2>1 DEF send_cmd
  <2>5. Waiting(1)
    BY <1>2, <1>3, <1>7
  <2>6. Waiting(0)'
    BY <1>2, <1>4, <1>5, <1>7, <2>1, <2>5 DEF Waiting, Waited
  <2>7. cmd'.command = ACMD41 => cmd'.app
    <3>1. CMD1 # ACMD41
      BY DEF CMD1, ACMD41
    <3> QED
      BY <2>2, <2>4, <3>1
  <2>8. Before'
    BY <1>2, <1>4, <2>1, <2>4, <2>6, <2>7 DEF Before
  <2>9. tmr' \in 0 .. Tries + TokenTries
    BY <1>2, <1>7, <2>1, CardConstants
  <2>10. app \in BOOLEAN
    OBVIOUS
  <2> HIDE DEF app
  <2> QED
    BY <1>1, <1>6, <2>1, <2>3, <2>8, <2>9, <2>10, SendStep DEF Typed
<1>8. CASE res # 0 /\ ~(tmr > 1)
  <2>1. Finish("none")
    BY <1>8 DEF Leave1, Leave
  <2>2. GivenUp
    BY <1>2, <1>3, <1>5, <1>8 DEF Waiting, Waited, GivenUp
  <2> QED
    BY <1>1, <2>1, <2>2, FinishStep
<1>9. CASE res = 0
  <2>1. send_cmd(CMD16, FALSE, LengthArg, TRUE, "length") /\ UNCHANGED <<got, tmr, CardType>>
    BY <1>9 DEF Leave1, Leave
  <2>2. cmd'.caller = "length" /\ cmd'.command = CMD16
    BY <2>1 DEF send_cmd
  <2>3. ~card'.idle /\ CardType' = card'.kind
    BY <1>2, <1>3, <1>4, <1>9, <2>1
  <2>4. Before'
    BY <1>4, <2>2, <2>3 DEF Before, CMD16, ACMD41
  <2> QED
    BY <1>1, <1>6, <2>1, <2>4, SendStep DEF Typed
<1> QED
  BY <1>7, <1>8, <1>9

LEMMA LengthStep ==
    ASSUME Typed, Told, pc = "length", pc = cmd.caller, Deciding, Length, request' = request
    PROVE  Typed' /\ Finishing'
<1>1. /\ After /\ Free /\ ~cmd.app /\ cmd.caller = "length" /\ ~NoCard /\ res = First
  BY ToldHere DEF Deciding
<1>2. Known /\ res = 0
  BY <1>1 DEF After, First, Known
<1>3. Finish(CardType)
  BY <1>2 DEF Length
<1>4. CardType \in SdCards \cup {"MMC", "none"} /\ CardType # "none"
  BY <1>1, <1>2 DEF Typed, Known, NoCard
<1> QED
  BY <1>1, <1>2, <1>3, <1>4, FinishStep DEF Known

LEMMA InitializedStep ==
    ASSUME Typed, Finishing, Deciding, Initialized
    PROVE  Typed' /\ (Resigned \/ Serving)'
           /\ \/ pc' = "ready" /\ status' = "ok"
              \/ pc' = "failed" /\ status' = "noinit"
<1>1. Free /\ spi.cs = 1
  BY PartsEnd DEF Finishing, Deciding, Parting
<1>2. UNCHANGED <<cmd, script, got, tmr, CardType, request, spi, card>> /\ script = <<>>
  BY DEF Initialized, Deciding
<1>3. /\ Free' /\ spi'.cs = 1 /\ (GivenUp' <=> GivenUp) /\ (Known' <=> Known)
  BY <1>1, <1>2, Same
<1>4. Typed'
  BY <1>2, Decided DEF Typed
<1>5. CASE CardType = "none"
  BY <1>2, <1>3, <1>4, <1>5 DEF Initialized, Finishing, Resigned
<1>6. CASE CardType # "none"
  BY <1>2, <1>3, <1>4, <1>6 DEF Initialized, Finishing, Serving
<1> QED
  BY <1>5, <1>6

LEMMA CallStep ==
    ASSUME Typed, Serving, Deciding, Call
    PROVE  Typed' /\ Asking' /\ status' = "running"
<1>1. Known /\ Free /\ Silent
  BY DEF Serving, Typed, Deselected
<1>2. PICK r \in Requests :
          /\ request' = r
          /\ send_cmd(CMD17, FALSE, Address(r.sector), FALSE, "read")
  BY DEF Call
<1>3. got' = <<>> /\ UNCHANGED <<tmr, CardType>> /\ status' = "running"
  BY DEF Call
<1>4. cmd'.caller = "read" /\ cmd'.command = CMD17
  BY <1>2 DEF send_cmd
<1>5. Known'
  BY <1>1, <1>3, Same
<1>6. Before'
  BY <1>4, <1>5 DEF Before, CMD17, ACMD41
<1>7. CMD17 = CommandOf("read")' /\ Address(r.sector) = ArgOf("read")' /\ "read" \in Callers
  BY <1>2, <1>3 DEF CommandOf, ArgOf, Callers, Address
<1>8. PICK a : a = Address(r.sector)
  OBVIOUS
<1>9. send_cmd(CMD17, FALSE, a, FALSE, "read") /\ a = ArgOf("read")'
  BY <1>2, <1>7, <1>8
<1>10. /\ request' \in Requests /\ request' \in Requests \cup {NoRequest} /\ got' \in Seq(Char)
       /\ CardType' \in SdCards \cup {"MMC", "none"} /\ tmr' \in 0 .. Tries + TokenTries
  BY <1>2, <1>3 DEF Typed
<1> QED
  BY <1>1, <1>3, <1>6, <1>7, <1>9, <1>10, SendStep

\* The token is waited for.
LEMMA HopingBegins ==
    ASSUME Typed, Deciding, Known, Free, spi.cs = 0, card.packet = <<>>, NEW d \in Nat,
           d <= card.late, card.reply = Fill(d) \o Frame(request.sector),
           tmr' \in 1 .. TokenTries, card.late - d = TokenTries - tmr',
           script' = rcv_spi("use"), pc' = "token", UNCHANGED <<request, CardType>>
    PROVE  Hoping'
<1> DEFINE f == rcv_spi("use")
<1>1. f \in Seq(Accesses) /\ Len(f) = 2 /\ SubSeq(f, 0 + 1, Len(f)) = f
  BY ReceiveScript, RestEnds DEF Uses
<1>2. Frame(request.sector) \in Seq(Char)
  BY RequestedSector, FrameTypes
<1>3. PICK b \in Seq(Char) : b = Fill(d) \o Frame(request.sector)
  BY <1>2, Filled, ZenonT(40)
<1>4. SubSeq(b, 0 + 1, Len(b)) = b /\ 0 \in 0 .. Len(b)
  BY RestEnds, LenProperties
<1>5. /\ Known' /\ Free' /\ spi'.cs = 0 /\ card' = card
  BY Same DEF Deciding
<1>6. Listening(b, 0, 0)'
  BY <1>3, <1>4, <1>5 DEF Listening
<1>7. (Fill(d) \o Frame(request.sector))' = b
  BY <1>3, <1>5 DEF Frame, Sector, Data, Fill
<1> HIDE DEF f
<1>8. Rest(f, 0)'
  BY <1>1 DEF Rest, f
<1>9. d \in 0 .. card'.late /\ card'.late - d = TokenTries - tmr'
  BY <1>5 DEF Typed, Cards
<1>10. Hoping' <=> (pc = "token" /\ Known /\ tmr \in 1 .. TokenTries /\
           \E dd \in 0 .. card.late, ii \in 0 .. 1, kk \in 0 .. 2 :
             /\ card.late - dd = TokenTries - tmr
             /\ Rest(f, kk)
             /\ Listening(Fill(dd) \o Frame(request.sector), ii, kk)
             /\ kk = 2 => res = (Fill(dd) \o Frame(request.sector))[1])'
  BY DEF Hoping, f
<1>11. Listening(Fill(d) \o Frame(request.sector), 0, 0)'
  BY <1>6, <1>7 DEF Listening
<1>12. 0 \in 0 .. 1 /\ 0 \in 0 .. 2 /\ 0 # 2
  OBVIOUS
<1> QED
  BY <1>5, <1>8, <1>9, <1>10, <1>11, <1>12

\* The end of disk_readp.
LEMMA ClosingBegins ==
    ASSUME Typed, Deciding, Known, Free, UNCHANGED <<cmd, tmr, request, CardType>>,
           script' = deselect, pc' = "close", got' = got,
           \/ status' = "ok" /\ ReadsWhatWasAsked' /\ Silent
           \/ status' = "running" /\ (card.failed \/ card.late >= TokenTries)
    PROVE  Typed' /\ Closing'
<1> DEFINE f == deselect
<1>1. f \in Separations /\ f \in Seq(Accesses) /\ script' = f
  BY SelectScript DEF Separations
<1> HIDE DEF f
<1>2. Known' /\ Free' /\ (Silent => Silent') /\ card' = card
  BY Same DEF Deciding
<1>3. Parts(f)'
  BY <1>1, <1>2, PartsBegin DEF Parts, Rest
<1>4. Closing'
  BY <1>2, <1>3 DEF Closing, f
<1>5. Typed'
  BY <1>1, Decided DEF Typed
<1> QED
  BY <1>4, <1>5

LEMMA ReadStep ==
    ASSUME Typed, Told, pc = "read", pc = cmd.caller, Deciding, Read
    PROVE  Typed' /\ Hoping'
<1>1. /\ After /\ Free /\ ~cmd.app /\ cmd.caller = "read" /\ ~NoCard /\ spi.cs = 0
      /\ card.packet = <<>> /\ card.reply = Others /\ res = First
  BY ToldHere DEF Deciding
<1>2. Known /\ res = 0
  BY <1>1 DEF After, First, Known
<1>3. /\ tmr' = TokenTries /\ script' = rcv_spi("use") /\ pc' = "token"
      /\ UNCHANGED <<cmd, got, CardType, status, request>>
  BY <1>2 DEF Read
<1>4. card.late \in Nat
  BY DEF Typed, Cards
<1>5. PICK d \in Nat : d = card.late
  BY <1>4
<1>6. card.reply = Fill(d) \o Frame(request.sector)
  BY <1>1, <1>5 DEF Others
<1>7. /\ tmr' \in 1 .. TokenTries /\ card.late - d = TokenTries - tmr' /\ d <= card.late
      /\ tmr' \in 0 .. Tries + TokenTries
  BY <1>3, <1>4, <1>5, CardConstants
<1>8. Hoping'
  BY <1>1, <1>2, <1>3, <1>6, <1>7, HopingBegins
<1>9. rcv_spi("use") \in Seq(Accesses)
  BY ReceiveScript DEF Uses
<1>10. Typed'
  BY <1>3, <1>7, <1>9, Decided DEF Typed
<1> QED
  BY <1>8, <1>10

LEMMA TokenStep ==
    ASSUME Typed, Hoping, status = "running", Deciding, Token
    PROVE  Typed' /\ (Hoping \/ Copying \/ Closing)'
<1> DEFINE f == rcv_spi("use")
<1>1. f \in Seq(Accesses) /\ Len(f) = 2
  BY ReceiveScript DEF Uses
<1> HIDE DEF f
<1>2. PICK d \in 0 .. card.late, i \in 0 .. 1, k \in 0 .. 2 :
          /\ card.late - d = TokenTries - tmr
          /\ Rest(f, k)
          /\ Listening(Fill(d) \o Frame(request.sector), i, k)
          /\ k = 2 => res = (Fill(d) \o Frame(request.sector))[1]
  BY DEF Hoping, f
<1>3. k = 2
  BY <1>1, <1>2, EndOf DEF Deciding
<1>4. card \in Cards /\ card.late \in Nat /\ d \in Nat /\ Known /\ tmr \in 1 .. TokenTries
  BY DEF Typed, Cards, Hoping
<1>5. Frame(request.sector) \in Seq(Char) /\ Frame(request.sector) # <<>>
  BY RequestedSector, FrameTypes
<1>6. PICK b \in Seq(Char) : b = Fill(d) \o Frame(request.sector) /\ Len(b) >= 1
  BY <1>4, <1>5, HopingBytes
<1>7. Listening(b, i, k) /\ res = b[1]
  BY <1>2, <1>3, <1>6
<1>8. i = 1
  BY <1>3, <1>7 DEF Listening
<1>9. /\ Free /\ spi.cs = 0 /\ card.packet = <<>> /\ card.reply = SubSeq(b, 2, Len(b))
  BY <1>3, <1>7, <1>8 DEF Listening
<1>10. UNCHANGED <<cmd, CardType, status, request, spi, card>>
  BY DEF Token, Deciding
<1>11. CASE d > 0
  <2>1. res = 255 /\ card.reply = Fill(d - 1) \o Frame(request.sector)
    <3>1. b[1] = 255 /\ SubSeq(b, 2, Len(b)) = Fill(d - 1) \o Frame(request.sector)
      <4>1. PICK s \in Seq(Char) : s = Frame(request.sector)
        BY <1>5
      <4>2. d \in Nat
        BY <1>4
      <4>3. /\ (Fill(d) \o s)[1] = 255
            /\ SubSeq(Fill(d) \o s, 2, Len(Fill(d) \o s)) = Fill(d - 1) \o s
        BY <1>11, <4>2, HopingBytes
      <4>4. b = Fill(d) \o s
        BY <1>6, <4>1
      <4> QED
        BY <4>1, <4>3, <4>4
    <3> QED
      BY <1>7, <1>9, <3>1
  <2>2. CASE tmr > 1
    <3>1. /\ tmr' = tmr - 1 /\ script' = rcv_spi("use") /\ pc' = "token" /\ got' = got
      BY <2>1, <2>2 DEF Token, Hoping
    <3>2. PICK e \in Nat : e = d - 1
      BY <1>4, <1>11
    <3>3. card.reply = Fill(e) \o Frame(request.sector)
      BY <2>1, <3>2
    <3>4. /\ e <= card.late /\ tmr' \in 1 .. TokenTries /\ card.late - e = TokenTries - tmr'
          /\ tmr' \in 0 .. Tries + TokenTries
      BY <1>2, <1>4, <2>2, <3>1, <3>2, CardConstants
    <3>5. Hoping'
      BY <1>4, <1>9, <1>10, <3>1, <3>3, <3>4, HopingBegins
    <3>6. rcv_spi("use") \in Seq(Accesses)
      BY ReceiveScript DEF Uses
    <3>7. Typed'
      BY <1>10, <3>1, <3>4, <3>6, Decided DEF Typed
    <3> QED
      BY <3>5, <3>7
  <2>3. CASE ~(tmr > 1)
    <3>1. script' = deselect /\ pc' = "close" /\ got' = got /\ tmr' = tmr
      BY <2>1, <2>3 DEF Token
    <3>2. card.late >= TokenTries
      BY <1>2, <1>4, <1>11, <2>3, CardConstants
    <3> QED
      BY <1>4, <1>9, <1>10, <3>1, <3>2, ClosingBegins
  <2> QED
    BY <2>2, <2>3
<1>12. CASE d = 0
  <2>1. b = Frame(request.sector)
    BY <1>4, <1>5, <1>6, <1>12, HopingBytes
  <2>2. /\ res = (IF card.failed THEN 8 ELSE 254)
        /\ ~card.failed => Tail(b) = BlockBytes
    <3>1. /\ Frame(request.sector)[1] = (IF card.failed THEN 8 ELSE 254)
          /\ ~card.failed => Tail(Frame(request.sector)) = BlockBytes
      <4>1. PICK n \in Nat : n = request.sector
        BY RequestedSector
      <4> DEFINE t == Sector(n) \o <<170, 187>>
      <4> DEFINE u == Frame(n)
      <4>2. u[1] = (IF card.failed THEN 8 ELSE 254)
        BY FrameTypes
      <4>3. ~card.failed => Tail(u) = t
        BY FrameTypes
      <4>4. t = BlockBytes /\ u = Frame(request.sector)
        BY <4>1 DEF BlockBytes
      <4> HIDE DEF t, u
      <4> QED
        BY <4>2, <4>3, <4>4
    <3> QED
      BY <1>7, <2>1, <3>1
  <2>3. CASE card.failed
    <3>1. script' = deselect /\ pc' = "close" /\ got' = got /\ tmr' = tmr
      BY <2>2, <2>3 DEF Token
    <3> QED
      BY <1>4, <1>9, <1>10, <2>3, <3>1, ClosingBegins
  <2>4. CASE ~card.failed
    <3>1. request \in Requests \cup {NoRequest}
      BY DEF Typed
    <3>2. PICK g \in Seq(Accesses) :
              g = Copy(request.offset, request.count) /\ SubSeq(g, 0 + 1, Len(g)) = g
      BY <3>1, CopyScript, RestEnds
    <3>3. script' = g /\ pc' = "copied" /\ got' = <<>> /\ tmr' = tmr
      BY <2>2, <2>4, <3>2 DEF Token
    <3>4. PICK c \in Seq(Char) : c = BlockBytes /\ Len(c) = SectorSize + 2
      BY <3>1, BlockOf
    <3>5. card.reply = c
      <4>1. 0 \in 0 .. Len(b) /\ 0 < Len(b) /\ 0 + 2 = 2 /\ SubSeq(b, 0 + 1, Len(b)) = b
        BY <1>6, RestEnds, LenProperties
      <4>2. SubSeq(b, 2, Len(b)) = Tail(b)
        BY <4>1, RestOf
      <4> QED
        BY <1>9, <2>2, <2>4, <3>4, <4>2
    <3>6. SubSeq(c, 0 + 1, Len(c)) = c /\ 0 \in 0 .. Len(c)
      BY RestEnds, LenProperties
    <3>7. Known' /\ Free'
      BY <1>4, <1>9, <1>10, Same
    <3>8. Listening(c, 0, 0)'
      BY <1>9, <1>10, <3>5, <3>6, <3>7 DEF Listening
    <3>9. request.offset \in Nat /\ request.count \in Nat
      BY <3>1, CardConstants DEF Requests, NoRequest
    <3>10. Kept(c, 0, request.offset, request.offset + request.count)'
      <4> DEFINE n == IF 0 < request.offset + request.count THEN 0
                      ELSE request.offset + request.count
      <4>1. n \in Int /\ n < request.offset + 1 /\ request.offset + 1 \in Int
        BY <3>9
      <4> HIDE DEF n
      <4>2. SubSeq(c, request.offset + 1, n) = <<>>
        BY <4>1, SubSeqEmpty
      <4> QED
        BY <1>10, <3>3, <4>2 DEF Kept, n
    <3>11. BlockBytes' = c
      BY <1>10, <3>4 DEF BlockBytes, Sector, Data
    <3>12. Copy(request.offset, request.count)' = g
      BY <1>10, <3>2 DEF Copy, Trailing, Times, rcv_spi, AtOnce, Wait
    <3>13. Rest(g, 0)'
      BY <3>2, <3>3 DEF Rest
    <3>14. 0 \in 0 .. SectorSize + 2 /\ 0 \in 0 .. 2 * (SectorSize + 2)
      BY CardConstants
    <3>15. Copying'
      BY <3>3, <3>7, <3>8, <3>10, <3>11, <3>12, <3>13, <3>14 DEF Copying, Rest, Listening, Kept
    <3>16. Typed'
      BY <1>10, <3>2, <3>3, Decided DEF Typed
    <3> QED
      BY <3>15, <3>16
  <2> QED
    BY <2>3, <2>4
<1> QED
  BY <1>4, <1>11, <1>12

LEMMA CopiedStep ==
    ASSUME Typed, Copying, Deciding, Copied
    PROVE  Typed' /\ Closing'
<1>1. request \in Requests \cup {NoRequest}
  BY DEF Typed
<1>2. PICK b \in Seq(Char) :
          /\ b = BlockBytes /\ Len(b) = SectorSize + 2
          /\ SubSeq(b, request.offset + 1, request.offset + request.count)
             = SubSeq(Sector(request.sector), request.offset + 1,
                      request.offset + request.count)
  BY <1>1, BlockOf
<1>3. PICK f \in Seq(Accesses) :
          f = Copy(request.offset, request.count) /\ Len(f) = 2 * (SectorSize + 2)
  BY <1>1, CopyScript
<1>4. /\ request.offset \in Nat /\ request.count \in Nat /\ SectorSize \in Nat
      /\ request.offset + request.count <= SectorSize
  BY <1>1, CardConstants DEF Requests, NoRequest
<1>5. PICK i \in 0 .. SectorSize + 2, k \in 0 .. 2 * (SectorSize + 2) :
          /\ Rest(f, k) /\ Listening(b, i, k)
          /\ Kept(b, i, request.offset, request.offset + request.count)
  BY <1>2, <1>3 DEF Copying
<1>6. k = 2 * (SectorSize + 2)
  <2>1. k \in 0 .. Len(f)
    BY <1>3
  <2>2. k = Len(f)
    BY <1>5, <2>1, EndOf DEF Deciding
  <2> QED
    BY <1>3, <2>2
<1>7. i = SectorSize + 2 /\ Free
  BY <1>2, <1>4, <1>5, <1>6 DEF Listening
<1>8. Silent
  <2>1. k # 2 * i + 1
    BY <1>4, <1>6, <1>7
  <2>2. card.packet = <<>> /\ card.reply = SubSeq(b, i + 1, Len(b))
    BY <1>5, <2>1 DEF Listening
  <2>3. SubSeq(b, Len(b) + 1, Len(b)) = <<>>
    BY RestEnds
  <2> QED
    BY <1>2, <1>7, <2>2, <2>3 DEF Silent
<1>9. got = SubSeq(Sector(request.sector), request.offset + 1, request.offset + request.count)
  <2>1. (IF i < request.offset + request.count THEN i ELSE request.offset + request.count)
        = request.offset + request.count
    BY <1>4, <1>7
  <2> QED
    BY <1>2, <1>5, <2>1 DEF Kept
<1>10. /\ pc' = "close" /\ script' = deselect /\ status' = "ok"
       /\ UNCHANGED <<cmd, got, tmr, CardType, request>>
  BY DEF Copied
<1>11. ReadsWhatWasAsked'
  BY <1>9, <1>10 DEF ReadsWhatWasAsked, Sector, Data
<1> QED
  BY <1>7, <1>8, <1>10, <1>11, ClosingBegins DEF Copying

LEMMA CloseStep ==
    ASSUME Typed, Closing, Deciding, Close
    PROVE  Typed' /\ Serving'
           /\ (status' = "ok"
               \/ (status' = "error" /\ (card'.failed \/ card'.late >= TokenTries)))
<1>1. Free /\ spi.cs = 1 /\ Known
  BY PartsEnd DEF Closing, Deciding, Parting
<1>2. /\ pc' = "ready" /\ script' = <<>> /\ script = <<>>
      /\ UNCHANGED <<cmd, got, tmr, CardType, request, spi, card>>
      /\ status' = IF status = "ok" THEN "ok" ELSE "error"
  BY DEF Close, Deciding
<1>3. Free' /\ spi'.cs = 1 /\ Known'
  BY <1>1, <1>2, Same
<1>4. Serving'
  BY <1>2, <1>3 DEF Serving
<1>5. Typed'
  BY <1>2, Decided DEF Typed
<1> QED
  BY <1>2, <1>4, <1>5 DEF Closing

-----------------------------------------------------------------------------
(***************************************************************************)
(* The invariant.                                                          *)
(***************************************************************************)

LEMMA InitInvariant ==
    ASSUME Init
    PROVE  IInv
<1>1. PICK kind \in Kinds :
          card = [kind |-> kind, waking |-> 0, spiMode |-> FALSE, idle |-> TRUE, app |-> FALSE,
                  needs |-> 0, rounds |-> 0, sized |-> FALSE, packet |-> <<>>, reply |-> <<>>,
                  late |-> 0, failed |-> FALSE]
  BY DEF Init, CardInit
<1>2. card \in Cards
  <2>1. <<>> \in Seq(Char) /\ Len(<<>>) < 6
    BY EmptySeq
  <2> QED
    BY <1>1, <2>1 DEF Cards
<1>3. card.packet = <<>> /\ card.reply = <<>>
  BY <1>1
<1>4. SpiOK /\ Deselected
  <2>1. spi \in [busy : {FALSE}, out : {255}, data : {255}, cs : {0, 1}]
    BY DEF Init, SpiInit
  <2>2. 255 \in Char
    BY DEF Char
  <2>3. spi \in [busy : BOOLEAN, out : Char, data : Char \cup {Moving}, cs : {0, 1}]
    BY <2>1, <2>2
  <2>4. spi.data \in Char
    BY <2>1, <2>2
  <2> QED
    BY <1>3, <2>3, <2>4 DEF SpiOK, Deselected, Silent
<1>5. Attempts \in 1 .. Attempts /\ 0 \in 0 .. Tries + TokenTries
  BY CardConstants
<1>6. Typed
  BY <1>2, <1>4, <1>5 DEF Init, Typed, NoCmd, Char
<1>7. Phase
  BY DEF Init, Phase, Starting
<1>8. Statuses
  BY DEF Init, Statuses
<1> QED
  BY <1>6, <1>7, <1>8 DEF IInv

LEMMA AccessStep ==
    ASSUME IInv, Access \/ Byte
    PROVE  IInv'
<1>1. Typed /\ Phase /\ Statuses
  BY DEF IInv
<1>2. Typed'
  BY <1>1, AccessTyped, ByteTyped
<1>3. pc' = pc /\ status' = status
  BY DEF Access, Byte, drv
<1>4. Phase'
  <2>1. CASE Starting \/ Resigned \/ Serving
    BY <1>1, <2>1, IdleSteps DEF Phase
  <2>2. CASE Asking
    BY <1>1, <2>2, AskingStep DEF Phase
  <2>3. CASE Told
    BY <1>1, <2>3, ToldStep DEF Phase
  <2>4. CASE Dummies
    BY <1>1, <2>4, DummiesStep DEF Phase
  <2>5. CASE Selecting
    BY <1>1, <2>5, SelectingStep DEF Phase
  <2>6. CASE Range2
    BY <1>1, <2>6, Range2Step DEF Phase
  <2>7. CASE Capacity
    BY <1>1, <2>7, CapacityStep DEF Phase
  <2>8. CASE Finishing
    BY <1>1, <2>8, FinishingStep DEF Phase
  <2>9. CASE Hoping
    BY <1>1, <2>9, HopingStep DEF Phase
  <2>10. CASE Copying
    BY <1>1, <2>10, CopyingStep DEF Phase
  <2>11. CASE Closing
    BY <1>1, <2>11, ClosingStep DEF Phase
  <2> QED
    BY <1>1, <2>1, <2>2, <2>3, <2>4, <2>5, <2>6, <2>7, <2>8, <2>9, <2>10, <2>11 DEF Phase
<1>5. status # "error"
  <2>1. status = "error" => Serving
    BY <1>1, PhaseOf DEF Statuses
  <2>2. ~Serving
    BY <1>1, <1>3, IdleSteps DEF Serving, Starting
  <2> QED
    BY <2>1, <2>2
<1>6. Statuses'
  BY <1>1, <1>3, <1>5 DEF Statuses
<1> QED
  BY <1>2, <1>4, <1>6 DEF IInv

\* The decisions of disk_initialize but the last leave the status alone.
LEMMA InitializeStep ==
    ASSUME Typed, Phase, Deciding, disk_initialize, ~Initialized
    PROVE  Typed' /\ Phase' /\ status' = status /\ pc \notin {"ready", "close", "failed"}
<1> USE DEF Callers
<1>1. CASE Begin
  <2>1. pc = "reset" /\ status' = status
    BY <1>1 DEF Begin
  <2> QED
    BY <1>1, <2>1, BeginStep DEF Phase
<1>2. ASSUME request' = request, status' = status, GoToIdle
      PROVE  Typed' /\ Phase' /\ pc \notin {"ready", "close", "failed"}
  <2>1. pc = "dummies" /\ Dummies
    BY <1>2, PhaseOf DEF GoToIdle
  <2> QED
    BY <1>2, <2>1, GoToIdleStep DEF Phase
<1>3. ASSUME request' = request, status' = status, Idled
      PROVE  Typed' /\ Phase' /\ pc \notin {"ready", "close", "failed"}
  <2>1. pc = "idle" /\ Told /\ pc = cmd.caller
    BY <1>3, PhaseOf DEF Idled
  <2> QED
    BY <1>3, <2>1, IdledStep DEF Phase
<1>4. ASSUME request' = request, status' = status, AskIf
      PROVE  Typed' /\ Phase' /\ pc \notin {"ready", "close", "failed"}
  <2>1. pc = "selected" /\ Selecting
    BY <1>4, PhaseOf DEF AskIf
  <2> QED
    BY <1>4, <2>1, AskIfStep DEF Phase
<1>5. ASSUME request' = request, status' = status, If
      PROVE  Typed' /\ Phase' /\ pc \notin {"ready", "close", "failed"}
  <2>1. pc = "if" /\ Told /\ pc = cmd.caller
    BY <1>5, PhaseOf DEF If
  <2> QED
    BY <1>5, <2>1, IfStep DEF Phase
<1>6. ASSUME request' = request, status' = status, InRange
      PROVE  Typed' /\ Phase' /\ pc \notin {"ready", "close", "failed"}
  <2>1. pc = "range" /\ Range2
    BY <1>6, PhaseOf DEF InRange
  <2> QED
    BY <1>6, <2>1, InRangeStep DEF Phase
<1>7. ASSUME request' = request, status' = status, Leave2
      PROVE  Typed' /\ Phase' /\ pc \notin {"ready", "close", "failed"}
  <2>1. pc = "leave2" /\ Told /\ pc = cmd.caller
    BY <1>7, PhaseOf DEF Leave2, Leave
  <2> QED
    BY <1>7, <2>1, Leave2Step DEF Phase
<1>8. ASSUME request' = request, status' = status, Ocr
      PROVE  Typed' /\ Phase' /\ pc \notin {"ready", "close", "failed"}
  <2>1. pc = "ocr" /\ Told /\ pc = cmd.caller
    BY <1>8, PhaseOf DEF Ocr
  <2> QED
    BY <1>8, <2>1, OcrStep DEF Phase
<1>9. ASSUME request' = request, status' = status, Ccs
      PROVE  Typed' /\ Phase' /\ pc \notin {"ready", "close", "failed"}
  <2>1. pc = "ccs" /\ Capacity
    BY <1>9, PhaseOf DEF Ccs
  <2> QED
    BY <1>9, <2>1, CcsStep DEF Phase
<1>10. ASSUME request' = request, status' = status, Type
       PROVE  Typed' /\ Phase' /\ pc \notin {"ready", "close", "failed"}
  <2>1. pc = "type" /\ Told /\ pc = cmd.caller
    BY <1>10, PhaseOf DEF Type
  <2> QED
    BY <1>10, <2>1, TypeStep DEF Phase
<1>11. ASSUME request' = request, status' = status, Leave1
       PROVE  Typed' /\ Phase' /\ pc \notin {"ready", "close", "failed"}
  <2>1. pc = "leave1" /\ Told /\ pc = cmd.caller
    BY <1>11, PhaseOf DEF Leave1, Leave
  <2> QED
    BY <1>11, <2>1, Leave1Step DEF Phase
<1>12. ASSUME request' = request, status' = status, Length
       PROVE  Typed' /\ Phase' /\ pc \notin {"ready", "close", "failed"}
  <2>1. pc = "length" /\ Told /\ pc = cmd.caller
    BY <1>12, PhaseOf DEF Length
  <2> QED
    BY <1>12, <2>1, LengthStep DEF Phase
<1> QED
  BY <1>1, <1>2, <1>3, <1>4, <1>5, <1>6, <1>7, <1>8, <1>9, <1>10, <1>11, <1>12
     DEF disk_initialize

LEMMA DecideStep ==
    ASSUME IInv, Decide
    PROVE  IInv'
<1>1. Typed /\ Phase /\ Statuses /\ Deciding
  BY DEF IInv, Decide, Deciding
<1>2. card' = card
  BY <1>1 DEF Deciding
<1>3. ASSUME Typed', Phase', status' = status, pc \notin {"ready", "close", "failed"}
      PROVE  IInv'
  BY <1>1, <1>3 DEF IInv, Statuses
<1>4. CASE Response
  <2>1. pc = "response" /\ Asking /\ status' = status
    BY <1>1, <1>4, PhaseOf DEF Response
  <2> QED
    BY <1>1, <1>3, <1>4, <2>1, ResponseStep DEF Phase
<1>5. CASE App
  <2>1. pc = "app" /\ Told /\ cmd.app /\ status' = status
    BY <1>1, <1>5, PhaseOf DEF App
  <2> QED
    BY <1>1, <1>3, <1>5, <2>1, AppStep DEF Phase
<1>6. CASE disk_initialize /\ ~Initialized
  BY <1>1, <1>3, <1>6, InitializeStep
<1>7. CASE Initialized
  <2>1. Finishing
    BY <1>1, <1>7, PhaseOf DEF Initialized
  <2>2. /\ Typed' /\ (Resigned \/ Serving)'
        /\ \/ pc' = "ready" /\ status' = "ok"
           \/ pc' = "failed" /\ status' = "noinit"
    BY <1>1, <1>7, <2>1, InitializedStep
  <2> QED
    BY <2>2 DEF IInv, Phase, Statuses
<1>8. CASE Call
  <2>1. pc = "ready" /\ Serving
    BY <1>1, <1>8, PhaseOf DEF Call
  <2>2. Typed' /\ Asking' /\ status' = "running"
    BY <1>1, <1>8, <2>1, CallStep
  <2> QED
    BY <2>2 DEF IInv, Phase, Statuses
<1>9. CASE Read
  <2>1. pc = "read" /\ Told /\ pc = cmd.caller /\ status' = status
    BY <1>1, <1>9, PhaseOf DEF Read, Callers
  <2> QED
    BY <1>1, <1>3, <1>9, <2>1, ReadStep DEF Phase
<1>10. CASE Token
  <2>1. pc = "token" /\ Hoping /\ status' = status
    BY <1>1, <1>10, PhaseOf DEF Token
  <2>2. status = "running"
    BY <1>1, <2>1 DEF Statuses
  <2>3. Typed' /\ (Hoping \/ Copying \/ Closing)'
    BY <1>1, <1>10, <2>1, <2>2, TokenStep
  <2> QED
    BY <1>3, <2>1, <2>3 DEF Phase
<1>11. CASE Copied
  <2>1. pc = "copied" /\ Copying /\ status' = "ok"
    BY <1>1, <1>11, PhaseOf DEF Copied
  <2>2. Typed' /\ Closing'
    BY <1>1, <1>11, <2>1, CopiedStep
  <2>3. Phase' /\ Statuses'
    BY <2>1, <2>2 DEF Phase, Statuses, Closing
  <2> QED
    BY <2>2, <2>3 DEF IInv
<1>12. CASE Close
  <2>1. pc = "close" /\ Closing
    BY <1>1, <1>12, PhaseOf DEF Close
  <2>2. /\ Typed' /\ Serving'
        /\ \/ status' = "ok"
           \/ status' = "error" /\ (card'.failed \/ card'.late >= TokenTries)
    BY <1>1, <1>12, <2>1, CloseStep
  <2>3. Phase' /\ Statuses'
    BY <2>2 DEF Phase, Statuses, Serving
  <2> QED
    BY <2>2, <2>3 DEF IInv
<1> QED
  BY <1>4, <1>5, <1>6, <1>7, <1>8, <1>9, <1>10, <1>11, <1>12 DEF Decide, disk_readp

LEMMA ResetStep ==
    ASSUME IInv, Reset
    PROVE  IInv'
<1>1. Typed
  BY DEF IInv
<1>2. SpiOK' /\ Deselected' /\ card' \in Cards
  BY <1>1 DEF Reset, Typed, SpiOK, Free, Deselected, Silent
<1>3. Attempts \in 1 .. Attempts /\ 0 \in 0 .. Tries + TokenTries
  BY CardConstants
<1>4. Typed'
  BY <1>2, <1>3 DEF Reset, Typed, NoCmd, Char
<1>5. Phase'
  BY DEF Reset, Phase, Starting
<1>6. Statuses'
  BY DEF Reset, Statuses
<1> QED
  BY <1>4, <1>5, <1>6 DEF IInv

LEMMA StutterStep ==
    ASSUME IInv, UNCHANGED vars
    PROVE  IInv'
<1>1. UNCHANGED <<spi, card, pc, script, cmd, res, got, tmr, CardType, request, status, resets>>
  BY DEF vars, drv
<1>2. Typed' /\ Statuses'
  BY <1>1 DEF IInv, Typed, Statuses, SpiOK, Free, Deselected, Silent
<1>3. card \in Cards /\ Gentle
  BY <1>1 DEF IInv, Typed, Gentle, Cards
<1>4. /\ (NoCard' <=> NoCard) /\ (Version2' <=> Version2) /\ (Awake' <=> Awake)
      /\ (Fresh' <=> Fresh) /\ (Known' <=> Known) /\ (GivenUp' <=> GivenUp)
      /\ (Free' <=> Free) /\ (Silent' <=> Silent)
  BY <1>1 DEF NoCard, Version2, Is, Awake, Fresh, Known, GivenUp, Free, Silent
<1>5. /\ First' = First /\ Others' = Others /\ Answers' = Answers
      /\ OcrBytes' = OcrBytes /\ BlockBytes' = BlockBytes
      /\ Sending' = Sending /\ SendingArg' = SendingArg /\ PacketBytes' = PacketBytes
  BY <1>3, GentleAnswers
<1>6. \A k : (Parting(k) => Parting(k)')
  BY <1>1, <1>4 DEF Parting
<1>7. \A f : Parts(f) => Parts(f)'
  BY <1>1, <1>6 DEF Parts, Rest
<1>8. \A b, i, k : Listening(b, i, k) => Listening(b, i, k)'
  BY <1>1, <1>4 DEF Listening
<1>9. Starting \/ Resigned \/ Serving => (Starting \/ Resigned \/ Serving)'
  BY <1>1, <1>4 DEF Starting, Resigned, Serving
<1>10. Selecting \/ Finishing \/ Closing => (Selecting \/ Finishing \/ Closing)'
  BY <1>1, <1>4, <1>7 DEF Selecting, Finishing, Closing, ReadsWhatWasAsked, Sector, Data
<1>11. Dummies => Dummies'
  BY <1>1, <1>4 DEF Dummies, Rest
<1>12. Told => Told'
  <2>1. Commanded /\ After => Commanded' /\ After'
    BY <1>3, GentleStep
  <2> QED
    BY <1>1, <1>4, <1>5, <1>7, <2>1 DEF Told, Is
<1>13. Asking => Asking'
  <2> SUFFICES ASSUME Asking
               PROVE  Asking'
    OBVIOUS
  <2>1. PICK k \in 0 .. 9 : /\ Rest(PacketScript(Sending, SendingArg), k)
                            /\ Sent(k) \/ Sounding(k)
    BY DEF Asking
  <2>2. /\ Commanded => Commanded'
        /\ Before => Before'
        /\ After => After'
    BY <1>3, GentleStep
  <2>3. /\ \A m : Heard(m) => Heard(m)'
        /\ \A n : Pending(n) => Pending(n)'
        /\ \A byte : Received(byte) => Received(byte)'
    BY <1>1, <1>3, AskingSame
  <2>4. Sent(k) => Sent(k)'
    BY <1>1, <1>4, <1>5, <2>2, <2>3 DEF Sent
  <2>5. Sounding(k) => Sounding(k)'
    BY <1>1, <1>4, <2>2, <2>3 DEF Sounding
  <2> QED
    BY <1>1, <1>3, <2>1, <2>4, <2>5, AskingNext DEF IInv, Rest
<1>14. Range2 => Range2'
  BY <1>1, <1>4, <1>6, <1>8 DEF Range2, Rest, Kept
<1>15. Capacity => Capacity'
  BY <1>1, <1>4, <1>5, <1>8 DEF Capacity, Rest, Kept
<1>16. Hoping => Hoping'
  <2>1. \A d : (Fill(d) \o Frame(request.sector))' = Fill(d) \o Frame(request.sector)
    BY <1>1 DEF Frame, Sector, Data, Fill
  <2>2. \A k : Rest(rcv_spi("use"), k) => Rest(rcv_spi("use"), k)'
    BY <1>1 DEF Rest, rcv_spi, AtOnce, Wait
  <2>3. \A d, i, k : Listening(Fill(d) \o Frame(request.sector), i, k)
                         => Listening(Fill(d) \o Frame(request.sector), i, k)'
    <3> SUFFICES ASSUME NEW d, NEW i, NEW k,
                        Listening(Fill(d) \o Frame(request.sector), i, k)
                 PROVE  Listening(Fill(d) \o Frame(request.sector), i, k)'
      OBVIOUS
    <3>1. PICK b : b = Fill(d) \o Frame(request.sector)
      OBVIOUS
    <3>2. Listening(b, i, k)'
      BY <1>8, <3>1
    <3>3. (Fill(d) \o Frame(request.sector))' = b
      BY <2>1, <3>1
    <3> QED
      BY <3>2, <3>3 DEF Listening
  <2> QED
    BY <1>1, <1>4, <2>1, <2>2, <2>3 DEF Hoping
<1>17. Copying => Copying'
  <2>1. Copy(request.offset, request.count)' = Copy(request.offset, request.count)
    BY <1>1 DEF Copy, Trailing, Times, rcv_spi, AtOnce, Wait
  <2> QED
    BY <1>1, <1>4, <1>5, <1>8, <2>1 DEF Copying, Rest, Kept
<1>18. Phase'
  BY <1>9, <1>10, <1>11, <1>12, <1>13, <1>14, <1>15, <1>16, <1>17 DEF IInv, Phase
<1> QED
  BY <1>2, <1>18 DEF IInv

LEMMA NextInvariant ==
    ASSUME IInv, [Next]_vars
    PROVE  IInv'
BY AccessStep, DecideStep, ResetStep, StutterStep DEF Next, Driver

\* The invariant holds in every state.
THEOREM Invariant == Spec => []IInv
<1>1. Init => IInv
  BY InitInvariant
<1>2. IInv /\ [Next]_vars => IInv'
  BY NextInvariant
<1> QED
  BY <1>1, <1>2, PTL DEF Spec

-----------------------------------------------------------------------------
(***************************************************************************)
(* What the driver promises.                                               *)
(***************************************************************************)

\* Every variable has its type in every state: of the bytes in the registers, in
\* the script and in the buffer, of the attempts that are left and of the timers.
THEOREM TypeCorrect == Spec => []TypeOK
<1>1. IInv => TypeOK
  <2> SUFFICES ASSUME IInv
               PROVE  TypeOK
    OBVIOUS
  <2>1. /\ card \in Cards /\ SpiOK /\ res \in Char /\ got \in Seq(Char)
        /\ script \in Seq(Accesses) /\ cmd.n \in 1 .. Attempts
        /\ tmr \in 0 .. Tries + TokenTries /\ CardType \in SdCards \cup {"MMC", "none"}
    BY DEF IInv, Typed
  <2>2. /\ spi.busy \in BOOLEAN /\ spi.cs \in {0, 1}
        /\ spi.out \in 0 .. 255 /\ spi.data \in 0 .. 255 \cup {Moving}
    BY <2>1 DEF SpiOK, Char
  <2>3. card.waking \in 0 .. 10 /\ Len(card.packet) < 6
    BY <2>1 DEF Cards
  <2>4. \A i \in DOMAIN script : script[i].op \in Ops
    <3>1. \A i \in DOMAIN script : script[i] \in Accesses
      BY <2>1, ElementOfSeq, LenProperties
    <3> QED
      BY <3>1 DEF Accesses
  <2>5. \A i \in DOMAIN got : got[i] \in 0 .. 255
    BY <2>1, ElementOfSeq, LenProperties, ZenonT(40) DEF Char
  <2> QED
    BY <2>1, <2>2, <2>3, <2>4, <2>5 DEF TypeOK, Char
<1> QED
  BY Invariant, <1>1, PTL

\* disk_initialize ends with the type of the card that is in the slot, out of its
\* idle state and with blocks of SectorSize bytes, or gives up because there is no
\* card or one that needs Tries rounds: whatever a reset has interrupted.
THEOREM Recognises == Spec => []CardRecognised
<1>1. IInv => CardRecognised
  <2> SUFFICES ASSUME IInv
               PROVE  CardRecognised
    OBVIOUS
  <2>1. /\ pc = "ready" => Serving
        /\ pc = "failed" => Resigned
    BY PhaseOf DEF IInv
  <2> QED
    BY <2>1 DEF CardRecognised, Serving, Resigned, Known, GivenUp, NoCard
<1> QED
  BY Invariant, <1>1, PTL

\* When disk_readp returns RES_OK the buffer has the bytes of the sector that were
\* asked for, no others and all of them, however the bytes on the bus and the
\* accesses of the driver were interleaved.
THEOREM Reads == Spec => []ReadsWhatWasAsked
<1>1. IInv => ReadsWhatWasAsked
  <2>1. IInv /\ pc = "close" => Closing
    BY PhaseOf DEF IInv
  <2>2. Closing /\ status = "ok" => ReadsWhatWasAsked
    BY DEF Closing
  <2> QED
    BY <2>1, <2>2 DEF ReadsWhatWasAsked
<1> QED
  BY Invariant, <1>1, PTL

\* disk_readp returns RES_ERROR only for what the card did: it reported an error, or
\* its data came later than TokenTries bytes after the response.
THEOREM Fails == Spec => []FailsForReason
<1>1. IInv => FailsForReason
  BY DEF IInv, Statuses, FailsForReason
<1> QED
  BY Invariant, <1>1, PTL

\* A read that has put its bytes into the buffer has taken the whole block: when the
\* card is deselected it has nothing more to say and no packet is begun.
THEOREM Leaves == Spec => LeavesNothing
<1> DEFINE A == spi.cs = 0 /\ spi'.cs = 1 /\ status = "ok"
                => card.reply = <<>> /\ card.packet = <<>>
<1>1. IInv /\ [Next]_vars => [A]_vars
  <2> SUFFICES ASSUME IInv, Next, spi.cs = 0, spi'.cs = 1, status = "ok"
               PROVE  card.reply = <<>> /\ card.packet = <<>>
    OBVIOUS
  <2>1. pc \in {"ready", "close"}
    BY DEF IInv, Statuses
  <2>2. (pc = "ready" => Serving) /\ (pc = "close" => Closing)
    BY PhaseOf DEF IInv
  <2>3. pc = "close"
    BY <2>1, <2>2 DEF Serving
  <2> QED
    BY <2>2, <2>3 DEF Closing, Silent
<1>2. [][A]_vars => LeavesNothing
  BY DEF LeavesNothing
<1> QED
  BY Invariant, <1>1, PTL DEF Spec, LeavesNothing

=============================================================================
