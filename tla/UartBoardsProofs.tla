--------------------------- MODULE UartBoardsProofs ---------------------------
(***************************************************************************)
(* Theorems of MCUartBoards for every length of a bit on either board, of  *)
(* the bytes and of the accesses within BoardsAssumption.                  *)
(*                                                                         *)
(* The inductive invariant places the receiver in the frame that the far   *)
(* board sends or in the one before it (Position), and bounds the time to  *)
(* the end of the frame (Remaining), against which readchar has to be done *)
(* (ReaderInv).                                                            *)
(***************************************************************************)
EXTENDS MCUartBoards, WellFoundedInduction, TLAPS

\* Clocks of n bits, and since the far board's frame began.
Edge(length, n) == n * length
sentBits == FrameBits - ftx.txCnt
E == Edge(bitLength, sentBits) + ftx.preScaler

\* Bit j of the frame of a byte; behind the frame the line is high.
Bit(byte, j) == IF j = 0 THEN 0 ELSE IF j <= DataBits THEN byte[j] ELSE 1

\* What the far transmitter has still to send.
Sending(byte) == \A i \in 1 .. FrameBits : ftx.txShift[i] = Bit(byte, sentBits + i - 1)
Quiet == \A i \in 1 .. FrameBits : ftx.txShift[i] = 1

\* What the four samples are of: of a high line, of the start of a frame, or
\* of any of its bits.
High == \A i \in 1 .. 4 : rx.rxInShift[i] = 1
Rising(n) == \A i, j \in 1 .. n : i < j => rx.rxInShift[i] <= rx.rxInShift[j]
Early ==
    /\ E <= 3 /\ rx.rxInShift[4 - E] = 1 /\ Rising(4 - E)
    /\ \A i \in 1 .. 4 : i > 4 - E => rx.rxInShift[i] = 0
Samples(byte) ==
    \A i \in 1 .. 4, j \in 0 .. FrameBits - 1 :
        Edge(bitLength, j) <= E - 5 + i /\ E - 5 + i < Edge(bitLength, j + 1)
            => rx.rxInShift[i] = Bit(byte, j)

\* The receiver has sampled k bits of a frame; the samples in its last place
\* are of the time U(k) of that frame.
U(k) == Sampled(k + 1) - (maxPreScaler - rx.preScaler)
Received(byte, k) ==
    /\ rx.receiving /\ (k = 0 => rx.preScaler >= halfBitCnt)
    /\ \A i \in 1 .. DataBits + 1 :
           rx.rxShift[i] = IF i < FrameBits - k THEN 1 ELSE Bit(byte, i - (FrameBits - k))

\* Where the receiver can be: there is nothing to receive; it has not yet seen
\* the frame; it is in the frame; still in the last bit of a frame that is over;
\* and the next one has begun; it is done with a frame that is not over.
Nothing == ~rx.receiving /\ ftx.txCnt = 0 /\ pending = <<>> /\ Quiet /\ Rising(4)
Unseen ==
    ~rx.receiving /\ ftx.txCnt > 0 /\ Len(pending) = 1 /\ Sending(pending[1]) /\ Early
Inside(k) ==
    /\ ftx.txCnt > 0 /\ Len(pending) = 1 /\ Sending(pending[1])
    /\ Received(pending[1], k) /\ E = 4 + U(k) /\ Samples(pending[1])
Over(k) ==
    /\ ftx.txCnt = 0 /\ Len(pending) = 1 /\ Quiet
    /\ k = FrameBits - 1 /\ Received(pending[1], k) /\ 4 + U(k) >= Edge(bitLength, FrameBits) /\ High
Behind(k) ==
    /\ ftx.txCnt > 0 /\ Len(pending) = 2 /\ Sending(pending[2])
    /\ k = FrameBits - 1 /\ Received(pending[1], k)
    /\ 4 + U(k) >= Edge(bitLength, FrameBits) + 1 + E /\ Early
Ahead ==
    /\ ~rx.receiving /\ ftx.txCnt > 0 /\ pending = <<>> /\ Quiet
    /\ E >= 5 + Sampled(FrameBits) /\ High

Position(k) ==
    Nothing \/ Unseen \/ Inside(k) \/ Over(k) \/ Behind(k) \/ Ahead

\* Clocks until the next byte can be complete.
Remaining(k) ==
    IF rx.receiving THEN Sampled(FrameBits) - U(k)
    ELSE Sampled(FrameBits) +
         IF ftx.txCnt = 0 THEN 5 ELSE IF E <= 3 THEN 4 - E ELSE Edge(bitLength, FrameBits) - E + 5

\* Clocks readchar may still need for its clear.
Needs == IF bus = Idle THEN MaxGap - held + MaxHold + 1 ELSE MaxHold - held

ReaderInv(k) ==
    /\ unread # Zero /\ age < Shortest => age + Remaining(k) >= Edge(bitLength, FrameBits)
    /\ pc # "clear" => /\ bus = Idle /\ rx.rxBuff \in {Zero, unread}
                       /\ unread # Zero /\ rx.rxBuff = Zero => late
    /\ pc = "clear" /\ ~late => unread = Zero /\ Remaining(k) >= Needs

TypeInv ==
    /\ bitLength \in BitLengths
    /\ ftx \in [txCnt : 0 .. FrameBits, txShift : [1 .. FrameBits -> {0, 1}], preScaler : Nat]
    /\ ftx.preScaler < bitLength /\ (ftx.txCnt = 0 => ftx.preScaler = 0)
    /\ rxd = ftx.txShift[1]
    /\ fbus = Idle \/ (fbus.addr = "tx" /\ fbus.dIn \in Sent)
    /\ rx \in [receiving : BOOLEAN, rxShift : [1 .. DataBits + 1 -> {0, 1}],
               rxInShift : [1 .. 4 -> {0, 1}], preScaler : 0 .. maxPreScaler, rxBuff : Bytes]
    /\ pending \in Seq(Sent) /\ unread \in Bytes /\ late \in BOOLEAN
    /\ age \in 0 .. Shortest
    /\ pc \in {"poll", "read", "clear"} /\ held \in Nat /\ c \in Bytes
    /\ bus = Idle \/ bus = [addr |-> "rx", dIn |-> c]
    /\ pc = "clear" => held <= (IF bus = Idle THEN MaxGap ELSE MaxHold)

BInv == TypeInv /\ \E k \in 0 .. FrameBits - 1 : Position(k) /\ ReaderInv(k)

-----------------------------------------------------------------------------
(***************************************************************************)
(* Numbers: the bits of a frame and the times at which they are sampled.   *)
(***************************************************************************)
LEMMA Sizes ==
    /\ DataBits \in Nat /\ DataBits >= 1 /\ FrameBits = DataBits + 2
    /\ maxPreScaler \in Nat /\ maxPreScaler > 3
    /\ halfBitCnt \in 0 .. maxPreScaler
    /\ MaxHold \in Nat /\ MaxGap \in Nat /\ Sent \subseteq Bytes /\ Zero \notin Sent
BY UartAssumption, BoardsAssumption DEF FrameBits, halfBitCnt

LEMMA Multiples ==
    ASSUME NEW length \in Nat
    PROVE  /\ Edge(length, 0) = 0 /\ Edge(length, 1) = length
           /\ \A n \in Nat : /\ Edge(length, n) \in Nat
                             /\ Edge(length, n + 1) = Edge(length, n) + length
           /\ \A m, n \in Nat : m <= n => Edge(length, m) <= Edge(length, n)
<1>1. Edge(length, 0) = 0 /\ Edge(length, 1) = length
  BY DEF Edge
<1>2. ASSUME NEW n \in Nat
      PROVE  Edge(length, n) \in Nat /\ Edge(length, n + 1) = Edge(length, n) + length
  BY SMTT(30) DEF Edge
<1>3. ASSUME NEW m \in Nat, NEW n \in Nat, m <= n
      PROVE  Edge(length, m) <= Edge(length, n)
  <2>1. PICK d \in Nat : n = m + d
    BY <1>3
  <2>2. Edge(length, d) \in Nat /\ Edge(length, m) \in Nat
    BY <1>2
  <2>3. Edge(length, n) = Edge(length, m) + Edge(length, d)
    BY <2>1, SMTT(30) DEF Edge
  <2> QED BY <2>2, <2>3
<1> QED BY <1>1, <1>2, <1>3

\* A time within a frame is in one of its bits.
LEMMA OneBit ==
    ASSUME NEW length \in Nat, NEW j \in Nat, NEW n \in Nat, NEW q \in Nat, q < length,
           Edge(length, j) <= Edge(length, n) + q, Edge(length, n) + q < Edge(length, j + 1)
    PROVE  j = n
<1>1. j < n => Edge(length, j + 1) <= Edge(length, n)
  BY Multiples
<1>2. n < j => Edge(length, n + 1) <= Edge(length, j)
  BY Multiples
<1>3. Edge(length, n) \in Nat /\ Edge(length, j) \in Nat /\ Edge(length, j + 1) \in Nat
      /\ Edge(length, n + 1) = Edge(length, n) + length
  BY Multiples
<1> QED BY <1>1, <1>2, <1>3

LEMMA SampleTimes ==
    /\ Sampled(1) = maxPreScaler - halfBitCnt
    /\ \A k \in 1 .. FrameBits : Sampled(k) \in Nat
    /\ \A k \in 1 .. FrameBits - 1 : Sampled(k + 1) = Sampled(k) + maxPreScaler + 1
    /\ \A j, k \in 1 .. FrameBits : j <= k => Sampled(j) <= Sampled(k)
<1> DEFINE first == maxPreScaler - (maxPreScaler * 2) \div 3
           M == maxPreScaler + 1
<1>1. first \in Nat /\ M \in Nat /\ first = maxPreScaler - halfBitCnt
  BY Sizes DEF halfBitCnt
<1> HIDE DEF first
<1>2. \A k \in Nat : Sampled(k + 1) = first + Edge(M, k)
  BY Sizes DEF Sampled, Edge, first
<1> HIDE DEF M
<1>3. ASSUME NEW k \in 1 .. FrameBits PROVE k - 1 \in Nat /\ Sampled(k) = first + Edge(M, k - 1)
  <2>1. k - 1 \in Nat /\ (k - 1) + 1 = k
    BY Sizes
  <2>2. Sampled((k - 1) + 1) = first + Edge(M, k - 1)
    BY <1>2, <2>1
  <2> QED BY <2>1, <2>2
<1>4. Sampled(1) = maxPreScaler - halfBitCnt
  BY <1>1, <1>3, Multiples, Sizes
<1>5. ASSUME NEW k \in 1 .. FrameBits PROVE Sampled(k) \in Nat
  <2>1. k - 1 \in Nat /\ Sampled(k) = first + Edge(M, k - 1)
    BY <1>3
  <2>2. Edge(M, k - 1) \in Nat
    BY <1>1, <2>1, Multiples
  <2> QED BY <1>1, <2>1, <2>2
<1>6. ASSUME NEW k \in 1 .. FrameBits - 1
      PROVE  Sampled(k + 1) = Sampled(k) + maxPreScaler + 1
  <2>1. k \in 1 .. FrameBits /\ k \in Nat /\ k - 1 \in Nat /\ (k - 1) + 1 = k
    BY Sizes
  <2>2. Sampled(k) = first + Edge(M, k - 1) /\ Sampled(k + 1) = first + Edge(M, k)
    BY <1>2, <1>3, <2>1
  <2>3. Edge(M, (k - 1) + 1) = Edge(M, k - 1) + M /\ Edge(M, k - 1) \in Nat
    BY <1>1, <2>1, Multiples
  <2> QED BY <1>1, <2>1, <2>2, <2>3, Sizes DEF M
<1>7. ASSUME NEW j \in 1 .. FrameBits, NEW k \in 1 .. FrameBits, j <= k
      PROVE  Sampled(j) <= Sampled(k)
  <2>1. /\ j - 1 \in Nat /\ k - 1 \in Nat /\ j - 1 <= k - 1
        /\ Sampled(j) = first + Edge(M, j - 1) /\ Sampled(k) = first + Edge(M, k - 1)
    BY <1>3, <1>7
  <2>2. Edge(M, j - 1) <= Edge(M, k - 1) /\ Edge(M, j - 1) \in Nat /\ Edge(M, k - 1) \in Nat
    BY <1>1, <2>1, Multiples
  <2> QED BY <1>1, <2>1, <2>2
<1> QED BY <1>4, <1>5, <1>6, <1>7

\* Every bit is sampled while it is on the line.
LEMMA Tolerance ==
    ASSUME NEW length \in BitLengths
    PROVE  /\ length \in Nat /\ length > 4
           /\ \A k \in 0 .. FrameBits - 1 :
                  Edge(length, k) <= Sampled(k + 1) /\ Sampled(k + 1) < Edge(length, k + 1)
           /\ MaxGap + MaxHold + 1 <= Edge(length, FrameBits)
<1>1. /\ length \in Nat /\ length > 4
      /\ \A k \in 1 .. FrameBits : Sampled(k) \in (k - 1) * length .. k * length - 1
      /\ MaxGap + MaxHold + 1 <= FrameBits * length
  BY BoardsAssumption
<1>2. ASSUME NEW k \in 0 .. FrameBits - 1
      PROVE  Edge(length, k) <= Sampled(k + 1) /\ Sampled(k + 1) < Edge(length, k + 1)
  <2>1. k + 1 \in 1 .. FrameBits /\ (k + 1) - 1 = k /\ k \in Nat
    BY Sizes
  <2>2. Sampled(k + 1) \in ((k + 1) - 1) * length .. (k + 1) * length - 1
    BY <1>1, <2>1
  <2>3. Sampled(k + 1) \in Edge(length, k) .. Edge(length, k + 1) - 1
    BY <2>1, <2>2 DEF Edge
  <2>4. Edge(length, k) \in Nat /\ Edge(length, k + 1) \in Nat
    BY <1>1, <2>1, Multiples
  <2> QED BY <2>3, <2>4
<1> QED BY <1>1, <1>2 DEF Edge

-----------------------------------------------------------------------------
(***************************************************************************)
(* Registers, frames and the steps of each part, field by field.           *)
(***************************************************************************)
LEMMA ShiftedBits ==
    ASSUME NEW n \in Nat, n >= 1, NEW w \in [1 .. n -> {0, 1}], NEW b \in {0, 1}
    PROVE  /\ Shifted(w, b) \in [1 .. n -> {0, 1}] /\ Shifted(w, b)[n] = b
           /\ \A i \in 1 .. n - 1 : Shifted(w, b)[i] = w[i + 1]
<1>1. w \in Seq({0, 1}) /\ Len(w) = n /\ w # <<>>
  OBVIOUS
<1>2. /\ Tail(w) \in Seq({0, 1}) /\ Len(Tail(w)) = n - 1
      /\ \A i \in 1 .. n - 1 : Tail(w)[i] = w[i + 1]
  BY <1>1
<1> DEFINE x == Append(Tail(w), b)
<1>3. /\ x \in Seq({0, 1}) /\ Len(x) = n /\ x[n] = b
      /\ \A i \in 1 .. n - 1 : x[i] = Tail(w)[i]
  BY <1>2
<1>4. Shifted(w, b) = x
  BY DEF Shifted
<1> HIDE DEF x
<1>5. x \in [1 .. Len(x) -> {0, 1}]
  BY <1>3
<1> QED BY <1>2, <1>3, <1>4, <1>5

LEMMA Bits ==
    ASSUME NEW byte \in Bytes, NEW j \in Nat
    PROVE  /\ Bit(byte, j) \in {0, 1} /\ Bit(byte, 0) = 0
           /\ j > DataBits => Bit(byte, j) = 1
           /\ j \in 1 .. DataBits => Bit(byte, j) = byte[j]
BY Sizes DEF Bit, Bytes

\* The frame that a transmitter takes.
LEMMA FrameOf ==
    ASSUME NEW byte \in Bytes
    PROVE  /\ <<0>> \o byte \o <<1>> \in [1 .. FrameBits -> {0, 1}]
           /\ \A i \in 1 .. FrameBits : (<<0>> \o byte \o <<1>>)[i] = Bit(byte, i - 1)
<1>1. byte \in Seq({0, 1}) /\ Len(byte) = DataBits
  BY Sizes DEF Bytes
<1> DEFINE g == <<0>> \o byte
<1>2. /\ g \in Seq({0, 1}) /\ Len(g) = DataBits + 1 /\ g[1] = 0
      /\ \A i \in 1 .. DataBits : g[i + 1] = byte[i]
  BY <1>1, Sizes
<1> DEFINE w == g \o <<1>>
<1>3. w = g \o <<1>> /\ <<0>> \o byte \o <<1>> = w
  OBVIOUS
<1> HIDE DEF g, w
<1>4. <<1>> \in Seq({0, 1}) /\ Len(<<1>>) = 1 /\ <<1>>[1] = 1
  OBVIOUS
<1>5. /\ w \in Seq({0, 1}) /\ Len(w) = DataBits + 2
      /\ \A i \in 1 .. DataBits + 1 : w[i] = g[i]
      /\ w[DataBits + 2] = 1
  BY <1>2, <1>3, <1>4, Sizes
<1>6. w \in [1 .. Len(w) -> {0, 1}]
  BY <1>5
<1>7. ASSUME NEW i \in 1 .. FrameBits PROVE w[i] = Bit(byte, i - 1)
  <2>1. CASE i = 1
    BY <2>1, <1>2, <1>5, Sizes DEF Bit
  <2>2. CASE i \in 2 .. DataBits + 1
    <3>1. i - 1 \in 1 .. DataBits /\ (i - 1) + 1 = i
      BY <2>2, Sizes
    <3>2. w[i] = byte[i - 1]
      BY <2>2, <3>1, <1>2, <1>5
    <3> QED BY <3>1, <3>2 DEF Bit
  <2>3. CASE i = DataBits + 2
    BY <2>3, <1>5, Sizes DEF Bit
  <2> QED BY <2>1, <2>2, <2>3, Sizes
<1> QED BY <1>3, <1>5, <1>6, <1>7, Sizes

Registers == [txCnt : 0 .. FrameBits, txShift : [1 .. FrameBits -> {0, 1}], preScaler : Nat]

\* The far transmitter: it takes a byte, or goes on with its bit or its frame.
LEMMA FarStep ==
    ASSUME TypeInv, FarBoard
    PROVE  /\ bitLength' = bitLength /\ rxd' = ftx'.txShift[1]
           /\ (fbus = Idle \/ (fbus.addr = "tx" /\ fbus.dIn \in Sent))'
           /\ ftx' \in Registers
           /\ ftx.txCnt = 0 =>
                  IF fbus.addr = "tx"
                  THEN /\ fbus.dIn \in Sent /\ ftx'.txCnt = FrameBits /\ ftx'.preScaler = 0
                       /\ \A i \in 1 .. FrameBits : ftx'.txShift[i] = Bit(fbus.dIn, i - 1)
                  ELSE ftx' = ftx
           /\ ftx.txCnt # 0 =>
                  IF ftx.preScaler = bitLength - 1
                  THEN /\ ftx'.txCnt = ftx.txCnt - 1 /\ ftx'.preScaler = 0
                       /\ ftx'.txShift[FrameBits] = 1
                       /\ \A i \in 1 .. FrameBits - 1 : ftx'.txShift[i] = ftx.txShift[i + 1]
                  ELSE /\ ftx'.txCnt = ftx.txCnt /\ ftx'.preScaler = ftx.preScaler + 1
                       /\ ftx'.txShift = ftx.txShift
<1>1. bitLength' = bitLength /\ rxd' = ftx'.txShift[1]
  BY DEF FarBoard
<1>2. (fbus = Idle \/ (fbus.addr = "tx" /\ fbus.dIn \in Sent))'
  BY DEF FarBoard, FarCpu
<1>3. ftx \in Registers /\ bitLength \in BitLengths
  BY DEF TypeInv, Registers
<1>4. PICK length \in BitLengths : length = bitLength /\ Far(length - 1)!Transmit
  BY DEF FarBoard
<1>5. ftx' = IF fbus.addr = "tx" /\ ftx.txCnt = 0
             THEN [txCnt |-> FrameBits, preScaler |-> 0, txShift |-> <<0>> \o fbus.dIn \o <<1>>]
             ELSE IF ftx.txCnt = 0 THEN ftx
             ELSE IF ftx.preScaler = bitLength - 1
             THEN [txCnt |-> ftx.txCnt - 1, preScaler |-> 0, txShift |-> Shifted(ftx.txShift, 1)]
             ELSE [ftx EXCEPT !.preScaler = @ + 1]
  BY <1>4 DEF Far!Transmit, Far!Writes, Far!FrameBits, Far!Shifted, FrameBits, Shifted
<1>6. ftx.txCnt = 0 /\ fbus.addr # "tx" => ftx' = ftx
  BY <1>5
<1>7. ASSUME ftx.txCnt = 0, fbus.addr = "tx"
      PROVE  /\ fbus.dIn \in Sent /\ ftx' \in Registers
             /\ ftx'.txCnt = FrameBits /\ ftx'.preScaler = 0
             /\ \A i \in 1 .. FrameBits : ftx'.txShift[i] = Bit(fbus.dIn, i - 1)
  <2>1. fbus.dIn \in Sent /\ fbus.dIn \in Bytes
    BY <1>7, Sizes DEF TypeInv, Idle
  <2> DEFINE w == <<0>> \o fbus.dIn \o <<1>>
  <2>2. w \in [1 .. FrameBits -> {0, 1}] /\ \A i \in 1 .. FrameBits : w[i] = Bit(fbus.dIn, i - 1)
    BY <2>1, FrameOf
  <2>3. ftx' = [txCnt |-> FrameBits, preScaler |-> 0, txShift |-> w]
    BY <1>5, <1>7
  <2> HIDE DEF w
  <2> QED BY <2>1, <2>2, <2>3, Sizes DEF Registers
<1>8. ASSUME ftx.txCnt # 0, ftx.preScaler = bitLength - 1
      PROVE  /\ ftx' \in Registers
             /\ ftx'.txCnt = ftx.txCnt - 1 /\ ftx'.preScaler = 0
             /\ ftx'.txShift[FrameBits] = 1
             /\ \A i \in 1 .. FrameBits - 1 : ftx'.txShift[i] = ftx.txShift[i + 1]
  <2> DEFINE w == Shifted(ftx.txShift, 1)
  <2>0. ftx.txShift \in [1 .. FrameBits -> {0, 1}] /\ FrameBits \in Nat /\ FrameBits >= 1
    BY <1>3, Sizes DEF Registers
  <2>1. /\ w \in [1 .. FrameBits -> {0, 1}] /\ w[FrameBits] = 1
        /\ \A i \in 1 .. FrameBits - 1 : w[i] = ftx.txShift[i + 1]
    BY <2>0, ShiftedBits
  <2>2. ftx' = [txCnt |-> ftx.txCnt - 1, preScaler |-> 0, txShift |-> w]
    BY <1>5, <1>8
  <2> HIDE DEF w
  <2> QED BY <1>3, <1>8, <2>1, <2>2, Sizes DEF Registers
<1>9. ASSUME ftx.txCnt # 0, ftx.preScaler # bitLength - 1
      PROVE  /\ ftx' \in Registers
             /\ ftx'.txCnt = ftx.txCnt /\ ftx'.preScaler = ftx.preScaler + 1
             /\ ftx'.txShift = ftx.txShift
  BY <1>3, <1>5, <1>9 DEF Registers
<1>10. ftx' \in Registers
  BY <1>3, <1>6, <1>7, <1>8, <1>9
<1> QED BY <1>1, <1>2, <1>6, <1>7, <1>8, <1>9, <1>10

\* The data bits in the receiver's register.
LEMMA DataOf ==
    ASSUME NEW w \in [1 .. DataBits + 1 -> {0, 1}]
    PROVE  /\ Tail(w) \in Bytes /\ \A i \in 1 .. DataBits : Tail(w)[i] = w[i + 1]
<1>1. w \in Seq({0, 1}) /\ Len(w) = DataBits + 1 /\ w # <<>>
  BY Sizes
<1> DEFINE x == Tail(w)
<1>2. /\ x \in Seq({0, 1}) /\ Len(x) = DataBits
      /\ \A i \in 1 .. DataBits : x[i] = w[i + 1]
  BY <1>1, Sizes
<1> HIDE DEF x
<1>3. x \in [1 .. Len(x) -> {0, 1}]
  BY <1>2
<1>4. x \in Bytes
  BY <1>2, <1>3 DEF Bytes
<1> QED BY <1>2, <1>4 DEF x

RxFields ==
    [receiving : BOOLEAN, rxShift : [1 .. DataBits + 1 -> {0, 1}],
     rxInShift : [1 .. 4 -> {0, 1}], preScaler : 0 .. maxPreScaler, rxBuff : Bytes]

\* The receiver: it waits for a falling edge, counts, or samples a bit.
LEMMA RxStep ==
    ASSUME TypeInv, Receive
    PROVE  /\ rx' \in RxFields /\ rx'.rxBuff = rxBuff
           /\ rx'.rxInShift[4] = rxd /\ \A i \in 1 .. 3 : rx'.rxInShift[i] = rx.rxInShift[i + 1]
           /\ ~rx.receiving /\ ~Falls => ~rx'.receiving
           /\ ~rx.receiving /\ Falls =>
                  /\ rx'.receiving /\ rx'.preScaler = halfBitCnt
                  /\ \A i \in 1 .. DataBits + 1 : rx'.rxShift[i] = 1
           /\ rx.receiving /\ rx.preScaler # maxPreScaler =>
                  /\ rx'.receiving /\ rx'.preScaler = rx.preScaler + 1
                  /\ rx'.rxShift = rx.rxShift
           /\ rx.receiving /\ rx.preScaler = maxPreScaler =>
                  /\ rx'.preScaler = 0
                  /\ IF rx.rxShift[1] = 0 THEN ~rx'.receiving ELSE rx'.receiving
                  /\ rx'.rxShift[DataBits + 1] = rx.rxInShift[1]
                  /\ \A i \in 1 .. DataBits : rx'.rxShift[i] = rx.rxShift[i + 1]
<1>1. rx \in RxFields /\ rxd \in {0, 1}
  <2>1. rx \in RxFields /\ ftx \in Registers /\ rxd = ftx.txShift[1]
    BY DEF TypeInv, RxFields, Registers
  <2> QED BY <2>1, Sizes DEF Registers
<1> DEFINE inShift == Shifted(rx.rxInShift, rxd)
           shift == Shifted(rx.rxShift, latest)
           on == ~Complete
           buff == rxBuff
           full == Ones(DataBits + 1)
<1>2. /\ inShift \in [1 .. 4 -> {0, 1}] /\ inShift[4] = rxd
      /\ \A i \in 1 .. 3 : inShift[i] = rx.rxInShift[i + 1]
  <2>1. rx.rxInShift \in [1 .. 4 -> {0, 1}] /\ 4 \in Nat /\ 4 >= 1
    BY <1>1 DEF RxFields
  <2>2. /\ inShift \in [1 .. 4 -> {0, 1}] /\ inShift[4] = rxd
        /\ \A i \in 1 .. 4 - 1 : inShift[i] = rx.rxInShift[i + 1]
    BY ONLY <1>1, <2>1, ShiftedBits, ZenonT(40)
  <2> HIDE DEF inShift
  <2> QED BY <2>2
<1>3. rx.rxShift \in [1 .. DataBits + 1 -> {0, 1}] /\ latest \in {0, 1}
  BY <1>1, Sizes DEF RxFields, latest
<1>4. /\ shift \in [1 .. DataBits + 1 -> {0, 1}] /\ shift[DataBits + 1] = rx.rxInShift[1]
      /\ \A i \in 1 .. DataBits : shift[i] = rx.rxShift[i + 1]
  <2>1. DataBits + 1 \in Nat /\ DataBits + 1 >= 1 /\ (DataBits + 1) - 1 = DataBits
    BY Sizes
  <2>2. /\ shift \in [1 .. DataBits + 1 -> {0, 1}] /\ shift[DataBits + 1] = latest
        /\ \A i \in 1 .. DataBits : shift[i] = rx.rxShift[i + 1]
    BY <1>3, <2>1, ShiftedBits
  <2> QED BY <2>2 DEF latest
<1>5. buff \in Bytes
  <2>1. Tail(rx.rxShift) \in Bytes /\ Zero \in Bytes /\ rx.rxBuff \in Bytes
    BY <1>1, <1>3, DataOf DEF Zero, Bytes, RxFields
  <2> QED BY <2>1 DEF rxBuff
<1>6. full \in [1 .. DataBits + 1 -> {0, 1}] /\ \A i \in 1 .. DataBits + 1 : full[i] = 1
  BY DEF Ones
<1>7. on \in BOOLEAN
  OBVIOUS
<1>8. rx.receiving /\ Tick => (on <=> rx.rxShift[1] # 0)
  BY DEF Complete
<1>9. rx' = IF rx.receiving
            THEN IF rx.preScaler = maxPreScaler
                 THEN [rx EXCEPT !.rxInShift = inShift, !.rxBuff = buff, !.preScaler = 0,
                                 !.rxShift = shift, !.receiving = on]
                 ELSE [rx EXCEPT !.rxInShift = inShift, !.rxBuff = buff,
                                 !.preScaler = rx.preScaler + 1]
            ELSE IF Falls
            THEN [rx EXCEPT !.rxInShift = inShift, !.rxBuff = buff, !.receiving = TRUE,
                            !.preScaler = halfBitCnt, !.rxShift = full]
            ELSE [rx EXCEPT !.rxInShift = inShift, !.rxBuff = buff]
  <2>1. rx' = Sampling([rx EXCEPT !.rxInShift = inShift, !.rxBuff = buff])
    BY DEF Receive
  <2> HIDE DEF inShift, buff, on, full
  <2>2. Shifted([rx EXCEPT !.rxInShift = inShift, !.rxBuff = buff].rxShift, latest) = shift
    BY <1>1 DEF RxFields
  <2> HIDE DEF shift
  <2> QED BY <1>1, <2>1, <2>2 DEF Sampling, Tick, RxFields, on, full
<1> HIDE DEF inShift, shift, on, buff, full
<1> USE DEF RxFields
<1>10. ASSUME ~rx.receiving, ~Falls
       PROVE  /\ rx' \in RxFields /\ rx'.rxBuff = buff /\ rx'.rxInShift = inShift
              /\ ~rx'.receiving
  BY <1>1, <1>2, <1>5, <1>9, <1>10
<1>11. ASSUME ~rx.receiving, Falls
       PROVE  /\ rx' \in RxFields /\ rx'.rxBuff = buff /\ rx'.rxInShift = inShift
              /\ rx'.receiving /\ rx'.preScaler = halfBitCnt /\ rx'.rxShift = full
  BY <1>1, <1>2, <1>5, <1>6, <1>9, <1>11, Sizes
<1>12. ASSUME rx.receiving, rx.preScaler # maxPreScaler
       PROVE  /\ rx' \in RxFields /\ rx'.rxBuff = buff /\ rx'.rxInShift = inShift
              /\ rx'.receiving /\ rx'.preScaler = rx.preScaler + 1
              /\ rx'.rxShift = rx.rxShift
  <2>1. rx' = [rx EXCEPT !.rxInShift = inShift, !.rxBuff = buff, !.preScaler = rx.preScaler + 1]
    BY <1>9, <1>12
  <2>2. rx.preScaler + 1 \in 0 .. maxPreScaler
    BY <1>1, <1>12, Sizes
  <2> QED BY <1>1, <1>2, <1>5, <1>12, <2>1, <2>2
<1>13. ASSUME rx.receiving, rx.preScaler = maxPreScaler
       PROVE  /\ rx' \in RxFields /\ rx'.rxBuff = buff /\ rx'.rxInShift = inShift
              /\ rx'.receiving = on /\ rx'.preScaler = 0 /\ rx'.rxShift = shift
  <2>1. rx' = [rx EXCEPT !.rxInShift = inShift, !.rxBuff = buff, !.preScaler = 0,
                         !.rxShift = shift, !.receiving = on]
    BY <1>9, <1>13, Zenon
  <2>2. 0 \in 0 .. maxPreScaler
    BY Sizes
  <2>3. rx'.receiving = on
    BY <1>1, <2>1, Zenon DEF RxFields
  <2>4. /\ rx'.rxBuff = buff /\ rx'.rxInShift = inShift
        /\ rx'.preScaler = 0 /\ rx'.rxShift = shift
    BY <1>1, <2>1
  <2>5. rx' \in RxFields
    BY <1>1, <1>2, <1>4, <1>5, <1>7, <2>1, <2>2, Zenon
  <2> QED BY <2>3, <2>4, <2>5, Zenon
<1>14. rx' \in RxFields /\ rx'.rxBuff = rxBuff /\ rx'.rxInShift = inShift
  BY <1>10, <1>11, <1>12, <1>13 DEF buff
<1>15. rx.receiving /\ rx.preScaler = maxPreScaler =>
           IF rx.rxShift[1] = 0 THEN ~rx'.receiving ELSE rx'.receiving
  BY <1>8, <1>13 DEF Tick
<1> HIDE DEF RxFields
<1>16. /\ rx'.rxInShift[4] = rxd /\ \A i \in 1 .. 3 : rx'.rxInShift[i] = rx.rxInShift[i + 1]
  BY <1>2, <1>14
<1>17. rx.receiving /\ rx.preScaler = maxPreScaler =>
           /\ rx'.preScaler = 0 /\ rx'.rxShift[DataBits + 1] = rx.rxInShift[1]
           /\ \A i \in 1 .. DataBits : rx'.rxShift[i] = rx.rxShift[i + 1]
  BY <1>4, <1>13
<1> QED BY <1>6, <1>10, <1>11, <1>12, <1>14, <1>15, <1>16, <1>17, ZenonT(60)

-----------------------------------------------------------------------------
(***************************************************************************)
(* The far board's frame and what the samples are of.                      *)
(***************************************************************************)
LEMMA FarType ==
    ASSUME TypeInv
    PROVE  /\ bitLength \in BitLengths /\ bitLength \in Nat /\ bitLength > 4
           /\ ftx.txCnt \in 0 .. FrameBits /\ sentBits \in Nat /\ sentBits <= FrameBits
           /\ ftx.preScaler \in Nat /\ ftx.preScaler < bitLength
           /\ (ftx.txCnt = 0 => ftx.preScaler = 0)
           /\ ftx.txShift \in [1 .. FrameBits -> {0, 1}] /\ rxd = ftx.txShift[1]
           /\ Edge(bitLength, sentBits) \in Nat /\ Edge(bitLength, FrameBits) \in Nat /\ E \in Nat
           /\ Edge(bitLength, sentBits + 1) = Edge(bitLength, sentBits) + bitLength
           /\ ftx.txCnt # 0 => E < Edge(bitLength, FrameBits)
<1>1. bitLength \in BitLengths /\ bitLength \in Nat /\ bitLength > 4
  BY Tolerance DEF TypeInv
<1>2. /\ ftx.txCnt \in 0 .. FrameBits /\ ftx.preScaler \in Nat /\ ftx.preScaler < bitLength
      /\ (ftx.txCnt = 0 => ftx.preScaler = 0)
      /\ ftx.txShift \in [1 .. FrameBits -> {0, 1}] /\ rxd = ftx.txShift[1]
  BY DEF TypeInv
<1>3. sentBits \in Nat /\ sentBits <= FrameBits /\ (ftx.txCnt # 0 => sentBits + 1 <= FrameBits)
  BY <1>2, Sizes DEF sentBits
<1>4. \A n \in Nat : /\ Edge(bitLength, n) \in Nat
                     /\ Edge(bitLength, n + 1) = Edge(bitLength, n) + bitLength
  BY <1>1, Multiples
<1>5. ftx.txCnt # 0 => Edge(bitLength, sentBits + 1) <= Edge(bitLength, FrameBits)
  BY <1>1, <1>3, Multiples, Sizes
<1>6. Edge(bitLength, sentBits) \in Nat /\ Edge(bitLength, FrameBits) \in Nat
      /\ Edge(bitLength, sentBits + 1) = Edge(bitLength, sentBits) + bitLength
  BY <1>3, <1>4, Sizes
<1>7. E \in Nat /\ (ftx.txCnt # 0 => E < Edge(bitLength, FrameBits))
  BY <1>1, <1>2, <1>5, <1>6 DEF E
<1> QED BY <1>1, <1>2, <1>3, <1>4, <1>6, <1>7

\* While a frame is on the line its time goes on, to its end.
LEMMA FarBusy ==
    ASSUME TypeInv, FarBoard, ftx.txCnt # 0
    PROVE  /\ ~Taken /\ bitLength' = bitLength
           /\ IF ftx'.txCnt = 0 THEN E + 1 = Edge(bitLength, FrameBits) ELSE E' = E + 1
           /\ Quiet => Quiet'
           /\ \A byte \in Bytes : Sending(byte) => Sending(byte)' /\ (ftx'.txCnt = 0 => Quiet')
<1> DEFINE L == bitLength
<1>0. L \in Nat /\ L' = L
  BY FarType, FarStep
<1>1. ~Taken
  BY DEF Taken
<1>2. CASE ftx.preScaler = bitLength - 1
  <2>1. /\ ftx'.txCnt = ftx.txCnt - 1 /\ ftx'.preScaler = 0
        /\ ftx'.txShift[FrameBits] = 1
        /\ \A i \in 1 .. FrameBits - 1 : ftx'.txShift[i] = ftx.txShift[i + 1]
    BY <1>2, FarStep
  <2>2. sentBits' = sentBits + 1 /\ (ftx'.txCnt = 0 => sentBits + 1 = FrameBits)
    <3>1. ftx.txCnt \in Nat /\ FrameBits \in Nat
      BY FarType, Sizes
    <3> QED BY <2>1, <3>1 DEF sentBits
  <2>3. E' = Edge(L, sentBits + 1)
    <3>1. E' = Edge(L', sentBits') + ftx'.preScaler
      BY DEF E
    <3> QED BY <1>0, <2>1, <2>2, <3>1, FarType
  <2>4. E + 1 = Edge(L, sentBits + 1)
    BY <1>2, FarType DEF E
  <2>5. Quiet => Quiet'
    BY <2>1, Sizes DEF Quiet
  <2>6. ASSUME NEW byte \in Bytes, Sending(byte)
        PROVE  Sending(byte)' /\ (ftx'.txCnt = 0 => Quiet')
    <3>1. ASSUME NEW i \in 1 .. FrameBits
          PROVE  ftx'.txShift[i] = Bit(byte, sentBits' + i - 1)
      <4>1. CASE i = FrameBits
        <5>0. sentBits \in Nat
          BY FarType
        <5>1. sentBits' + i - 1 \in Nat /\ sentBits' + i - 1 > DataBits
          BY <2>2, <4>1, <5>0, Sizes
        <5> QED BY <2>1, <4>1, <5>1, Bits
      <4>2. CASE i # FrameBits
        <5>1. i \in 1 .. FrameBits - 1 /\ i + 1 \in 1 .. FrameBits
          BY <4>2, Sizes
        <5>2. ftx'.txShift[i] = Bit(byte, sentBits + (i + 1) - 1)
          BY <2>1, <2>6, <5>1 DEF Sending
        <5>3. sentBits' + i - 1 = sentBits + (i + 1) - 1
          BY <2>2, <5>1, FarType, Sizes
        <5> QED BY <5>2, <5>3
      <4> QED BY <4>1, <4>2
    <3>2. Sending(byte)'
      BY <3>1 DEF Sending
    <3>3. ASSUME ftx'.txCnt = 0, NEW i \in 1 .. FrameBits PROVE ftx'.txShift[i] = 1
      <4>0. sentBits' = FrameBits
        BY <2>2, <3>3
      <4>1. sentBits' + i - 1 \in Nat /\ sentBits' + i - 1 > DataBits
        BY <4>0, Sizes
      <4> QED BY <3>1, <4>1, Bits
    <3> QED BY <3>2, <3>3 DEF Quiet
  <2> QED BY <1>0, <1>1, <2>2, <2>3, <2>4, <2>5, <2>6
<1>3. CASE ftx.preScaler # bitLength - 1
  <2>1. /\ ftx'.txCnt = ftx.txCnt /\ ftx'.preScaler = ftx.preScaler + 1
        /\ ftx'.txShift = ftx.txShift
    BY <1>3, FarStep
  <2>2. sentBits' = sentBits
    BY <2>1 DEF sentBits
  <2>3. E' = E + 1
    <3>1. E' = Edge(L', sentBits') + ftx'.preScaler
      BY DEF E
    <3> QED BY <1>0, <2>1, <2>2, <3>1, FarType DEF E
  <2>4. (Quiet => Quiet') /\ \A byte \in Bytes : Sending(byte) => Sending(byte)'
    BY <2>1, <2>2 DEF Quiet, Sending
  <2> QED BY <1>0, <1>1, <2>1, <2>3, <2>4
<1> QED BY <1>2, <1>3

LEMMA FarIdle ==
    ASSUME TypeInv, FarBoard, ftx.txCnt = 0
    PROVE  /\ bitLength' = bitLength
           /\ IF Taken THEN /\ fbus.dIn \in Sent /\ ftx'.txCnt = FrameBits
                            /\ (\A byte : byte = fbus.dIn => Sending(byte)') /\ E' = 0
              ELSE ftx'.txCnt = 0 /\ (Quiet => Quiet')
<1>1. CASE fbus.addr = "tx"
  <2>1. /\ fbus.dIn \in Sent /\ ftx'.txCnt = FrameBits /\ ftx'.preScaler = 0
        /\ \A i \in 1 .. FrameBits : ftx'.txShift[i] = Bit(fbus.dIn, i - 1)
    BY <1>1, FarStep
  <2>2. Taken
    BY <2>1, Sizes DEF Taken
  <2>3. sentBits' = 0
    BY <2>1, Sizes DEF sentBits
  <2>4. E' = 0
    <3>1. E' = Edge(bitLength', sentBits') + ftx'.preScaler
      BY DEF E
    <3>2. Edge(bitLength', 0) = 0
      BY FarType, FarStep, Multiples
    <3> QED BY <2>1, <2>3, <3>1, <3>2
  <2>5. ASSUME NEW byte, byte = fbus.dIn PROVE Sending(byte)'
    <3>1. \A i \in 1 .. FrameBits : sentBits' + i - 1 = i - 1
      BY <2>3, Sizes
    <3> QED BY <2>1, <2>5, <3>1 DEF Sending
  <2> QED BY <2>1, <2>2, <2>4, <2>5, FarStep
<1>2. CASE fbus.addr # "tx"
  BY <1>2, FarStep DEF Taken, Quiet
<1> QED BY <1>1, <1>2, FarStep

\* What is on the line.
LEMMA Line ==
    ASSUME TypeInv
    PROVE  /\ rxd \in {0, 1} /\ (Quiet => rxd = 1)
           /\ \A byte \in Bytes, j \in 0 .. FrameBits - 1 :
                  Sending(byte) /\ Edge(bitLength, j) <= E /\ E < Edge(bitLength, j + 1)
                      => rxd = Bit(byte, j)
<1>1. 1 \in 1 .. FrameBits
  BY Sizes
<1>2. rxd \in {0, 1} /\ (Quiet => rxd = 1)
  BY <1>1, FarType DEF Quiet
<1>3. ASSUME NEW byte \in Bytes, NEW j \in 0 .. FrameBits - 1, Sending(byte),
             Edge(bitLength, j) <= E, E < Edge(bitLength, j + 1)
      PROVE  rxd = Bit(byte, j)
  <2>1. j = sentBits
    BY <1>3, FarType, OneBit DEF E
  <2>2. ftx.txShift[1] = Bit(byte, sentBits + 1 - 1) /\ sentBits + 1 - 1 = sentBits
    BY <1>1, <1>3, FarType DEF Sending
  <2> QED BY <2>1, <2>2, FarType
<1> QED BY <1>2, <1>3

\* The samples move on with the frame.
LEMMA SamplesKept ==
    ASSUME TypeInv, FarBoard, Receive, ftx.txCnt # 0, ftx'.txCnt # 0,
           NEW byte \in Bytes, Sending(byte), Samples(byte)
    PROVE  Samples(byte)'
<1>1. E' = E + 1 /\ bitLength' = bitLength /\ E \in Nat
  BY FarBusy, FarType
<1>2. ASSUME NEW i \in 1 .. 4, NEW j \in 0 .. FrameBits - 1,
             Edge(bitLength, j) <= E' - 5 + i, E' - 5 + i < Edge(bitLength, j + 1)
      PROVE  rx'.rxInShift[i] = Bit(byte, j)
  <2>1. CASE i = 4
    <3>1. rxd = Bit(byte, j)
      BY <1>1, <1>2, <2>1, Line
    <3> QED BY <2>1, <3>1, RxStep
  <2>2. CASE i \in 1 .. 3
    <3>1. i + 1 \in 1 .. 4 /\ E' - 5 + i = E - 5 + (i + 1)
      BY <1>1, <2>2
    <3>2. rx.rxInShift[i + 1] = Bit(byte, j)
      BY <1>2, <3>1 DEF Samples
    <3> QED BY <2>2, <3>2, RxStep
  <2> QED BY <2>1, <2>2
<1> QED BY <1>1, <1>2 DEF Samples

\* Behind the first samples of the last bit the line and all samples are high.
LEMMA LastBit ==
    ASSUME TypeInv, FarBoard, Receive, ftx.txCnt # 0,
           NEW byte \in Bytes, Sending(byte), Samples(byte),
           Edge(bitLength, FrameBits - 1) + 3 <= E
    PROVE  High' /\ Quiet'
<1> DEFINE n == FrameBits - 1
<1>1. n \in 0 .. FrameBits - 1 /\ n \in Nat /\ n + 1 = FrameBits /\ n > DataBits
  BY Sizes
<1>2. /\ E \in Nat /\ E < Edge(bitLength, n + 1) /\ Edge(bitLength, n) \in Nat
      /\ Edge(bitLength, n) + 3 <= E
  BY <1>1, FarType, Multiples
<1> HIDE DEF n
<1>3. Bit(byte, n) = 1
  BY <1>1, Bits
<1>4. rxd = 1
  BY <1>1, <1>2, <1>3, Line
<1>5. ASSUME NEW i \in 1 .. 3 PROVE rx.rxInShift[i + 1] = 1
  <2>1. i + 1 \in 1 .. 4 /\ Edge(bitLength, n) <= E - 5 + (i + 1)
        /\ E - 5 + (i + 1) < Edge(bitLength, n + 1)
    <3>1. Edge(bitLength, n + 1) \in Nat
      BY <1>1, FarType
    <3> QED BY <1>2, <3>1
  <2> QED BY <1>1, <1>3, <2>1 DEF Samples
<1>6. High'
  <2>1. ASSUME NEW i \in 1 .. 4 PROVE rx'.rxInShift[i] = 1
    <3>1. CASE i = 4
      BY <1>4, <3>1, RxStep
    <3>2. CASE i \in 1 .. 3
      BY <1>5, <3>2, RxStep
    <3> QED BY <3>1, <3>2
  <2> QED BY <2>1 DEF High
<1>7. sentBits \in Nat /\ sentBits >= n
  <2>1. Edge(bitLength, n) <= E /\ n \in Nat /\ sentBits \in Nat
    BY <1>1, <1>2, FarType
  <2>2. sentBits + 1 <= n => Edge(bitLength, sentBits + 1) <= Edge(bitLength, n)
    <3>1. sentBits + 1 \in Nat /\ bitLength \in Nat
      BY <2>1, FarType
    <3> QED BY <2>1, <3>1, Multiples
  <2>3. E < Edge(bitLength, sentBits + 1) /\ Edge(bitLength, sentBits + 1) \in Nat
    BY FarType DEF E
  <2> QED BY <1>2, <2>1, <2>2, <2>3
<1>8. ASSUME NEW i \in 1 .. FrameBits PROVE ftx.txShift[i] = 1
  <2>1. sentBits + i - 1 \in Nat /\ sentBits + i - 1 > DataBits
    BY <1>1, <1>7, Sizes
  <2>2. ftx.txShift[i] = Bit(byte, sentBits + i - 1)
    BY DEF Sending
  <2> QED BY <2>1, <2>2, Bits
<1>9. Quiet
  BY <1>8 DEF Quiet
<1> QED BY <1>6, <1>9, FarBusy

\* While nothing or the start bit is seen.
LEMMA HighKept ==
    ASSUME TypeInv, Receive, Quiet
    PROVE  (High => High') /\ (Rising(4) => Rising(4)') /\ (Rising(4) => ~Falls)
           /\ rx'.rxInShift[4] = 1
<1>1. /\ rx'.rxInShift[4] = 1 /\ \A i \in 1 .. 3 : rx'.rxInShift[i] = rx.rxInShift[i + 1]
      /\ rx.rxInShift \in [1 .. 4 -> {0, 1}]
  BY RxStep, Line DEF TypeInv
<1>2. High => High'
  BY <1>1 DEF High
<1>3. Rising(4) => Rising(4)'
  BY <1>1 DEF Rising
<1>4. Rising(4) => ~Falls
  BY <1>1 DEF Rising, Falls
<1> QED BY <1>1, <1>2, <1>3, <1>4

LEMMA EarlyKept ==
    ASSUME TypeInv, FarBoard, Receive, ftx.txCnt # 0, NEW byte \in Bytes, Sending(byte),
           Early, E <= 2
    PROVE  /\ ftx'.txCnt # 0 /\ E' = E + 1
           /\ Early' /\ ~Falls
<1>1. E \in Nat /\ bitLength \in Nat /\ bitLength > 4 /\ bitLength <= Edge(bitLength, FrameBits)
      /\ Edge(bitLength, 0) = 0 /\ Edge(bitLength, 0 + 1) = bitLength
  <2>1. 1 \in Nat /\ FrameBits \in Nat /\ 1 <= FrameBits /\ bitLength \in Nat
    BY Sizes, FarType
  <2> QED BY <2>1, FarType, Multiples
<1>2. ftx'.txCnt # 0 /\ E' = E + 1
  BY <1>1, FarBusy
<1>3. rxd = 0
  <2>1. 0 \in 0 .. FrameBits - 1
    BY Sizes
  <2>2. rxd = Bit(byte, 0)
    BY <1>1, <2>1, Line
  <2> QED BY <2>2, Bits
<1>4. /\ rx'.rxInShift[4] = 0 /\ \A i \in 1 .. 3 : rx'.rxInShift[i] = rx.rxInShift[i + 1]
      /\ rx.rxInShift \in [1 .. 4 -> {0, 1}]
  BY <1>3, RxStep DEF TypeInv
<1>5. ~Falls
  <2>1. CASE E = 0
    BY <2>1, <1>4 DEF Early, Rising, Falls
  <2>2. CASE E = 1
    BY <2>2, <1>4 DEF Early, Rising, Falls
  <2>3. CASE E = 2
    BY <2>3, <1>4 DEF Early, Rising, Falls
  <2> QED BY <1>1, <2>1, <2>2, <2>3
<1>6. Early'
  <2>1. E' <= 3
    BY <1>1, <1>2
  <2>2. rx'.rxInShift[4 - E'] = 1
    <3>1. 4 - E' \in 1 .. 3 /\ (4 - E') + 1 = 4 - E
      BY <1>1, <1>2
    <3> QED BY <1>4, <3>1 DEF Early
  <2>3. ASSUME NEW i \in 1 .. 4 - E', NEW j \in 1 .. 4 - E', i < j
        PROVE  rx'.rxInShift[i] <= rx'.rxInShift[j]
    <3>1. i \in 1 .. 3 /\ j \in 1 .. 3 /\ i + 1 \in 1 .. 4 - E /\ j + 1 \in 1 .. 4 - E
          /\ i + 1 < j + 1
      BY <1>1, <1>2, <2>3
    <3>2. rx.rxInShift[i + 1] <= rx.rxInShift[j + 1]
      BY <3>1 DEF Early, Rising
    <3> QED BY <1>4, <3>1, <3>2
  <2>4. ASSUME NEW i \in 1 .. 4, i > 4 - E' PROVE rx'.rxInShift[i] = 0
    <3>1. CASE i = 4
      BY <1>4, <3>1
    <3>2. CASE i # 4
      <4>1. i \in 1 .. 3 /\ i + 1 \in 1 .. 4 /\ i + 1 > 4 - E
        BY <1>1, <1>2, <2>4, <3>2
      <4> QED BY <1>4, <4>1 DEF Early
    <3> QED BY <3>1, <3>2
  <2> QED BY <2>1, <2>2, <2>3, <2>4 DEF Early, Rising
<1> QED BY <1>2, <1>5, <1>6

-----------------------------------------------------------------------------
(***************************************************************************)
(* The receiver in its frame.                                              *)
(***************************************************************************)
LEMMA Times ==
    ASSUME TypeInv, NEW k \in 0 .. FrameBits - 1, NEW byte \in Bytes, Received(byte, k)
    PROVE  /\ U(k) \in Nat /\ U(k) <= Sampled(k + 1) /\ Sampled(k + 1) \in Nat
           /\ (rx.preScaler = maxPreScaler <=> U(k) = Sampled(k + 1))
           /\ Sampled(k + 1) <= Sampled(FrameBits) /\ Sampled(FrameBits) \in Nat
           /\ k < FrameBits - 1 => U(k) <= Sampled(FrameBits - 1)
           /\ Sampled(FrameBits - 1) \in Nat
<1>1. rx.preScaler \in 0 .. maxPreScaler /\ maxPreScaler \in Nat /\ halfBitCnt \in 0 .. maxPreScaler
  BY Sizes DEF TypeInv
<1>2. /\ k + 1 \in 1 .. FrameBits /\ FrameBits \in 1 .. FrameBits /\ k + 1 <= FrameBits
      /\ FrameBits - 1 \in 1 .. FrameBits
      /\ k < FrameBits - 1 => k + 1 <= FrameBits - 1
  BY Sizes
<1>3. /\ Sampled(k + 1) \in Nat /\ Sampled(k + 1) <= Sampled(FrameBits)
      /\ Sampled(FrameBits) \in Nat /\ Sampled(FrameBits - 1) \in Nat
      /\ k < FrameBits - 1 => Sampled(k + 1) <= Sampled(FrameBits - 1)
  BY <1>2, SampleTimes
<1>4. U(k) \in Nat
  <2>1. CASE k = 0
    <3>1. rx.preScaler >= halfBitCnt /\ Sampled(k + 1) = maxPreScaler - halfBitCnt
      BY <2>1, SampleTimes DEF Received
    <3> QED BY <1>1, <3>1 DEF U
  <2>2. CASE k # 0
    <3>1. k \in 1 .. FrameBits - 1 /\ k \in 1 .. FrameBits
      BY <2>2, Sizes
    <3>2. Sampled(k + 1) = Sampled(k) + maxPreScaler + 1 /\ Sampled(k) \in Nat
      BY <3>1, SampleTimes
    <3> QED BY <1>1, <3>2 DEF U
  <2> QED BY <2>1, <2>2
<1>5. U(k) <= Sampled(k + 1) /\ (rx.preScaler = maxPreScaler <=> U(k) = Sampled(k + 1))
  BY <1>1, <1>3 DEF U
<1> QED BY <1>3, <1>4, <1>5

LEMMA Counts ==
    ASSUME TypeInv, Receive, NEW k \in 0 .. FrameBits - 1, NEW byte \in Bytes,
           Received(byte, k), rx.preScaler # maxPreScaler
    PROVE  ~Complete /\ Received(byte, k)' /\ U(k)' = U(k) + 1
<1>1. /\ rx'.receiving /\ rx'.preScaler = rx.preScaler + 1 /\ rx'.rxShift = rx.rxShift
  BY RxStep DEF Received
<1>2. ~Complete
  BY DEF Complete, Tick
<1>3. rx.preScaler \in 0 .. maxPreScaler /\ maxPreScaler \in Nat /\ halfBitCnt \in 0 .. maxPreScaler
  BY Sizes DEF TypeInv
<1>4. Sampled(k + 1) \in Nat
  BY Times
<1>5. U(k)' = U(k) + 1
  BY <1>1, <1>3, <1>4 DEF U
<1>6. Received(byte, k)'
  BY <1>1, <1>3 DEF Received
<1> QED BY <1>2, <1>5, <1>6

LEMMA SamplesBit ==
    ASSUME TypeInv, Receive, NEW k \in 0 .. FrameBits - 1, NEW byte \in Bytes,
           Received(byte, k), rx.preScaler = maxPreScaler, k # FrameBits - 1,
           rx.rxInShift[1] = Bit(byte, k)
    PROVE  /\ ~Complete /\ Received(byte, k + 1)' /\ U(k + 1)' = U(k) + 1
           /\ k + 1 \in 0 .. FrameBits - 1
<1>1. k \in Nat /\ k + 1 \in 0 .. FrameBits - 1 /\ k + 1 \in 1 .. FrameBits - 1 /\ k + 1 # 0
      /\ FrameBits \in Nat /\ FrameBits = DataBits + 2 /\ 1 \in 1 .. DataBits + 1 /\ 1 < FrameBits - k
  BY Sizes
<1>2. rx.rxShift[1] = 1
  BY <1>1 DEF Received
<1>3. ~Complete
  BY <1>2 DEF Complete
<1>4. /\ rx'.receiving /\ rx'.preScaler = 0
      /\ rx'.rxShift[DataBits + 1] = rx.rxInShift[1]
      /\ \A i \in 1 .. DataBits : rx'.rxShift[i] = rx.rxShift[i + 1]
  BY <1>2, RxStep DEF Received
<1>5. U(k + 1)' = U(k) + 1
  <2>1. Sampled((k + 1) + 1) = Sampled(k + 1) + maxPreScaler + 1 /\ Sampled(k + 1) \in Nat
    BY <1>1, SampleTimes, Times
  <2> QED BY <1>4, <2>1, Sizes DEF U
<1>6. ASSUME NEW i \in 1 .. DataBits + 1
      PROVE  rx'.rxShift[i] = IF i < FrameBits - (k + 1) THEN 1 ELSE Bit(byte, i - (FrameBits - (k + 1)))
  <2>1. CASE i = DataBits + 1
    <3>1. ~(i < FrameBits - (k + 1)) /\ i - (FrameBits - (k + 1)) = k
      BY <1>1, <2>1, Sizes
    <3> QED BY <1>4, <2>1, <3>1
  <2>2. CASE i # DataBits + 1
    <3>1. /\ i \in 1 .. DataBits /\ i + 1 \in 1 .. DataBits + 1
          /\ (i < FrameBits - (k + 1) <=> i + 1 < FrameBits - k)
          /\ i - (FrameBits - (k + 1)) = (i + 1) - (FrameBits - k)
      BY <1>1, <2>2, Sizes
    <3>2. rx.rxShift[i + 1] = IF i + 1 < FrameBits - k THEN 1 ELSE Bit(byte, (i + 1) - (FrameBits - k))
      BY <3>1 DEF Received
    <3> QED BY <1>4, <3>1, <3>2
  <2> QED BY <2>1, <2>2
<1>7. Received(byte, k + 1)'
  BY <1>1, <1>4, <1>6 DEF Received
<1> QED BY <1>1, <1>3, <1>5, <1>7

LEMMA Whole ==
    ASSUME TypeInv, NEW byte \in Bytes, Received(byte, FrameBits - 1)
    PROVE  rx.rxShift[1] = 0 /\ Tail(rx.rxShift) = byte
<1>1. FrameBits - (FrameBits - 1) = 1 /\ 1 \in 1 .. DataBits + 1
  BY Sizes
<1>2. \A i \in 1 .. DataBits + 1 : rx.rxShift[i] = Bit(byte, i - 1)
  <2>1. \A i \in 1 .. DataBits + 1 : ~(i < 1)
    BY Sizes
  <2> QED BY <1>1, <2>1 DEF Received
<1>3. rx.rxShift[1] = 0
  BY <1>1, <1>2, Bits
<1> DEFINE t == Tail(rx.rxShift)
<1>4. t \in Bytes /\ \A i \in 1 .. DataBits : t[i] = rx.rxShift[i + 1]
  BY DataOf DEF TypeInv
<1> HIDE DEF t
<1>5. ASSUME NEW i \in 1 .. DataBits PROVE t[i] = byte[i]
  <2>1. i + 1 \in 1 .. DataBits + 1 /\ (i + 1) - 1 = i /\ i \in Nat
    BY Sizes
  <2> QED BY <1>2, <1>4, <2>1, Bits
<1>6. t = [i \in 1 .. DataBits |-> t[i]] /\ byte = [i \in 1 .. DataBits |-> byte[i]]
  BY <1>4 DEF Bytes
<1>7. t = byte
  BY <1>5, <1>6, ZenonT(40)
<1> QED BY <1>3, <1>7 DEF t

\* The register shows when all bits are in.
LEMMA WholeOnly ==
    ASSUME TypeInv, NEW k \in 0 .. FrameBits - 1, NEW byte \in Bytes, Received(byte, k),
           rx.rxShift[1] = 0
    PROVE  k = FrameBits - 1
<1>1. 1 \in 1 .. DataBits + 1 /\ FrameBits \in Nat
  BY Sizes
<1>2. ~(1 < FrameBits - k)
  BY <1>1 DEF Received
<1> QED BY <1>1, <1>2

LEMMA Ends ==
    ASSUME TypeInv, Receive, NEW byte \in Bytes,
           Received(byte, FrameBits - 1), rx.preScaler = maxPreScaler
    PROVE  /\ Complete /\ Tail(rx.rxShift) = byte /\ ~rx'.receiving
           /\ U(FrameBits - 1) = Sampled(FrameBits)
<1>1. (FrameBits - 1) + 1 = FrameBits /\ FrameBits - 1 \in 0 .. FrameBits - 1
  BY Sizes
<1>2. rx.receiving
  BY DEF Received
<1>3. Complete /\ ~rx'.receiving
  BY <1>2, Whole, RxStep DEF Complete, Tick
<1>4. U(FrameBits - 1) = Sampled(FrameBits)
  BY <1>1, Times
<1> QED BY <1>3, <1>4, Whole

-----------------------------------------------------------------------------
(***************************************************************************)
(* A step from each position leads to one, and the time to the end of the  *)
(* frame runs down; a frame that ends leaves a whole one.                  *)
(***************************************************************************)
LEMMA Appended ==
    ASSUME NEW S, NEW s \in Seq(S), NEW x \in S
    PROVE  /\ s \o <<x>> \in Seq(S) /\ Len(s \o <<x>>) = Len(s) + 1
           /\ (s \o <<x>>)[Len(s) + 1] = x /\ \A i \in 1 .. Len(s) : (s \o <<x>>)[i] = s[i]
OBVIOUS

LEMMA PendingStep ==
    ASSUME TypeInv, FarBoard, Follow
    PROVE  /\ pending' \in Seq(Sent) \/ (Complete /\ pending = <<>>)
           /\ ~Complete /\ ~Taken => pending' = pending
           /\ ~Complete /\ Taken =>
                  /\ Len(pending') = Len(pending) + 1 /\ pending'[Len(pending) + 1] = fbus.dIn
                  /\ \A i \in 1 .. Len(pending) : pending'[i] = pending[i]
           /\ Complete /\ pending # <<>> /\ ~Taken =>
                  /\ Len(pending') = Len(pending) - 1
                  /\ \A i \in 1 .. Len(pending) - 1 : pending'[i] = pending[i + 1]
           /\ Complete /\ pending # <<>> /\ Taken =>
                  /\ Len(pending') = Len(pending) /\ pending'[Len(pending)] = fbus.dIn
                  /\ \A i \in 1 .. Len(pending) - 1 : pending'[i] = pending[i + 1]
<1> DEFINE rest == IF Complete THEN Tail(pending) ELSE pending
           new == IF Taken THEN <<fbus.dIn>> ELSE <<>>
<1>1. pending' = rest \o new
  BY DEF Follow
<1>2. pending \in Seq(Sent)
  BY DEF TypeInv
<1>3. Taken => fbus.dIn \in Sent
  BY FarIdle DEF Taken
<1>4. ~Complete => rest = pending
  OBVIOUS
<1>5. Complete /\ pending # <<>> =>
          /\ rest \in Seq(Sent) /\ Len(rest) = Len(pending) - 1
          /\ \A i \in 1 .. Len(pending) - 1 : rest[i] = pending[i + 1]
  BY <1>2
<1>6. new \in Seq(Sent) /\ (~Taken => new = <<>>)
      /\ (Taken => Len(new) = 1 /\ new[1] = fbus.dIn)
  BY <1>3
<1> HIDE DEF rest, new
<1>7. ASSUME rest \in Seq(Sent), ~Taken PROVE pending' \in Seq(Sent) /\ pending' = rest
  BY <1>1, <1>6, <1>7
<1>8. ASSUME rest \in Seq(Sent), Taken
      PROVE  /\ pending' \in Seq(Sent) /\ Len(pending') = Len(rest) + 1
             /\ pending'[Len(rest) + 1] = fbus.dIn
             /\ \A i \in 1 .. Len(rest) : pending'[i] = rest[i]
  <2>1. fbus.dIn \in Sent /\ pending' = rest \o <<fbus.dIn>>
    BY <1>1, <1>3, <1>8 DEF new
  <2>2. PICK x : x = fbus.dIn
    OBVIOUS
  <2>3. x \in Sent /\ pending' = rest \o <<x>>
    BY <2>1, <2>2
  <2>4. PICK p : p = rest \o <<x>>
    OBVIOUS
  <2>5. /\ p \in Seq(Sent) /\ Len(p) = Len(rest) + 1
        /\ p[Len(rest) + 1] = x /\ \A i \in 1 .. Len(rest) : p[i] = rest[i]
    BY <1>8, <2>3, <2>4, Appended, ZenonT(60)
  <2> QED BY <2>2, <2>3, <2>4, <2>5, Zenon
<1>9. pending # <<>> => Len(pending) \in Nat /\ Len(pending) - 1 + 1 = Len(pending)
  BY <1>2
<1> QED BY <1>2, <1>4, <1>5, <1>7, <1>8, <1>9

Arrives == pending # <<>> /\ Tail(rx.rxShift) = Head(pending)

\* What a step from a position with k bits does.
Moves(k) ==
    /\ pending' \in Seq(Sent) /\ (Complete => Arrives)
    /\ \E n \in 0 .. FrameBits - 1 :
           /\ Position(n)'
           /\ IF Complete THEN Remaining(k) = 0 /\ Remaining(n)' >= Edge(bitLength, FrameBits)
              ELSE Remaining(n)' >= Remaining(k) - 1

\* The numbers of a step.
LEMMA Numbers ==
    ASSUME TypeInv
    PROVE  /\ Edge(bitLength, FrameBits) \in Nat /\ bitLength \in Nat /\ bitLength > 4 /\ E \in Nat
           /\ Sampled(FrameBits) \in Nat /\ FrameBits \in Nat /\ FrameBits >= 3
           /\ Sampled(FrameBits) < Edge(bitLength, FrameBits)
           /\ Edge(bitLength, FrameBits - 1) <= Sampled(FrameBits)
           /\ Sampled(FrameBits - 1) < Edge(bitLength, FrameBits - 1)
           /\ Edge(bitLength, FrameBits - 1) \in Nat /\ Sampled(FrameBits - 1) \in Nat
           /\ Edge(bitLength, FrameBits) = Edge(bitLength, FrameBits - 1) + bitLength
           /\ 0 \in 0 .. FrameBits - 1 /\ FrameBits - 1 \in 0 .. FrameBits - 1
<1>1. /\ FrameBits \in Nat /\ FrameBits >= 3 /\ FrameBits - 1 \in 0 .. FrameBits - 1
      /\ FrameBits - 2 \in 0 .. FrameBits - 1 /\ (FrameBits - 1) + 1 = FrameBits
      /\ (FrameBits - 2) + 1 = FrameBits - 1 /\ FrameBits - 1 \in Nat
      /\ FrameBits \in 1 .. FrameBits /\ FrameBits - 1 \in 1 .. FrameBits
      /\ 0 \in 0 .. FrameBits - 1
  BY Sizes
<1>2. /\ bitLength \in BitLengths /\ bitLength \in Nat /\ bitLength > 4 /\ E \in Nat
      /\ Edge(bitLength, FrameBits) \in Nat
  BY FarType
<1>3. /\ Sampled(FrameBits) < Edge(bitLength, FrameBits)
      /\ Edge(bitLength, FrameBits - 1) <= Sampled(FrameBits)
  BY <1>1, <1>2, Tolerance
<1>4. Sampled(FrameBits - 1) < Edge(bitLength, FrameBits - 1)
  BY <1>1, <1>2, Tolerance
<1>5. Sampled(FrameBits) \in Nat /\ Sampled(FrameBits - 1) \in Nat
  BY <1>1, SampleTimes
<1>6. /\ Edge(bitLength, FrameBits - 1) \in Nat
      /\ Edge(bitLength, FrameBits) = Edge(bitLength, FrameBits - 1) + bitLength
  BY <1>1, <1>2, Multiples
<1> QED BY <1>1, <1>2, <1>3, <1>4, <1>5, <1>6

\* A frame begins while the receiver waits.
LEMMA Begins ==
    ASSUME TypeInv, FarBoard, Receive, Follow, ftx.txCnt = 0, Taken,
           ~rx'.receiving, Rising(4)', rx'.rxInShift[4] = 1,
           Len(pending') = 1, pending'[1] = fbus.dIn
    PROVE  Unseen' /\ E' = 0
<1>1. /\ ftx'.txCnt = FrameBits /\ E' = 0 /\ \A byte : byte = fbus.dIn => Sending(byte)'
  BY FarIdle
<1>2. Sending(pending[1])'
  BY <1>1 DEF Sending
<1>3. Early'
  <2>1. 4 - E' = 4
    BY <1>1
  <2>2. E' <= 3 /\ rx'.rxInShift[4 - E'] = 1 /\ Rising(4 - E)'
    BY <1>1, <2>1 DEF Rising
  <2>3. \A i \in 1 .. 4 : ~(i > 4 - E')
    BY <2>1
  <2> QED BY <2>2, <2>3 DEF Early
<1>4. ftx'.txCnt > 0
  BY <1>1, Sizes
<1> QED BY <1>1, <1>2, <1>3, <1>4 DEF Unseen

LEMMA FromNothing ==
    ASSUME TypeInv, FarBoard, Receive, Follow, NEW k \in 0 .. FrameBits - 1, Nothing
    PROVE  Moves(k)
<1>1. /\ ~rx.receiving /\ ftx.txCnt = 0 /\ pending = <<>> /\ Quiet /\ Rising(4)
      /\ Len(pending) = 0
  BY DEF Nothing
<1>2. Rising(4)' /\ rx'.rxInShift[4] = 1 /\ ~rx'.receiving /\ ~Complete
  BY <1>1, HighKept, RxStep DEF Complete
<1>3. pending' \in Seq(Sent)
  BY <1>2, PendingStep
<1>4. Remaining(k) = Sampled(FrameBits) + 5
  BY <1>1 DEF Remaining
<1>5. CASE Taken
  <2>1. Len(pending') = 1 /\ pending'[1] = fbus.dIn
    BY <1>1, <1>2, <1>5, PendingStep
  <2>2. Unseen' /\ E' = 0
    BY <1>1, <1>2, <1>5, <2>1, Begins
  <2>3. Remaining(k)' = Sampled(FrameBits) + 4
    BY <2>2 DEF Remaining, Unseen
  <2>4. Remaining(k)' >= Remaining(k) - 1
    BY <1>4, <2>3, Numbers
  <2> QED BY <1>2, <1>3, <2>2, <2>4 DEF Moves, Position
<1>6. CASE ~Taken
  <2>1. ftx'.txCnt = 0 /\ Quiet' /\ pending' = <<>>
    BY <1>1, <1>2, <1>6, FarIdle, PendingStep
  <2>2. Nothing'
    BY <1>2, <2>1 DEF Nothing
  <2>3. Remaining(k)' = Sampled(FrameBits) + 5
    BY <1>2, <2>1 DEF Remaining
  <2>4. Remaining(k)' >= Remaining(k) - 1
    BY <1>4, <2>3, Numbers
  <2> QED BY <1>2, <1>3, <2>2, <2>4 DEF Moves, Position
<1> QED BY <1>5, <1>6

\* The bytes on their way, one step later.
LEMMA OnePending ==
    ASSUME TypeInv, Len(pending) >= 1
    PROVE  /\ pending # <<>> /\ Head(pending) = pending[1] /\ Len(pending) \in Nat
           /\ pending[1] \in Sent /\ pending[1] \in Bytes
           /\ Len(pending) = 2 => pending[2] \in Sent /\ pending[2] \in Bytes
<1>1. pending \in Seq(Sent)
  BY DEF TypeInv
<1>2. /\ pending # <<>> /\ Head(pending) = pending[1] /\ Len(pending) \in Nat
      /\ pending[1] \in Sent /\ (Len(pending) = 2 => pending[2] \in Sent)
  BY <1>1
<1> QED BY <1>2, Sizes

LEMMA FromUnseen ==
    ASSUME TypeInv, FarBoard, Receive, Follow, NEW k \in 0 .. FrameBits - 1, Unseen
    PROVE  Moves(k)
<1>1. /\ ~rx.receiving /\ ftx.txCnt # 0 /\ Len(pending) = 1 /\ Sending(pending[1]) /\ Early
  BY DEF Unseen
<1>2. ~Complete /\ ~Taken
  BY <1>1, FarBusy DEF Complete
<1>3. PICK byte \in Bytes : byte = pending[1]
  BY <1>1, OnePending
<1>4. pending' = pending /\ pending' \in Seq(Sent) /\ pending'[1] = byte
  BY <1>2, <1>3, PendingStep DEF TypeInv
<1>5. Sending(byte) /\ Sending(byte)'
  BY <1>1, <1>3, FarBusy
<1>6. E \in Nat /\ E <= 3
  BY <1>1, FarType DEF Early
<1>7. Remaining(k) = Sampled(FrameBits) + 4 - E
  BY <1>1, <1>6, Numbers DEF Remaining
<1>8. Sending(pending[1])'
  BY <1>4, <1>5 DEF Sending
<1>9. CASE E <= 2
  <2>1. ftx'.txCnt # 0 /\ E' = E + 1 /\ Early' /\ ~Falls
    BY <1>1, <1>5, <1>9, EarlyKept
  <2>2. ~rx'.receiving
    BY <1>1, <2>1, RxStep
  <2>3. ftx'.txCnt > 0
    BY <2>1, FarStep, Sizes DEF Registers
  <2>4. Unseen'
    BY <1>1, <1>4, <1>8, <2>1, <2>2, <2>3 DEF Unseen
  <2>5. Remaining(k)' = Sampled(FrameBits) + 4 - E'
    BY <1>6, <1>9, <2>1, <2>2, Numbers DEF Remaining
  <2>6. Remaining(k)' >= Remaining(k) - 1
    BY <1>6, <1>7, <2>1, <2>5, Numbers
  <2> QED BY <1>2, <1>4, <2>4, <2>6 DEF Moves, Position
<1>10. CASE E = 3
  <2>1. rx.rxInShift[1] = 1 /\ \A i \in 2 .. 4 : rx.rxInShift[i] = 0
    BY <1>1, <1>10 DEF Early
  <2>2. Falls
    BY <2>1 DEF Falls
  <2>3. /\ rx'.receiving /\ rx'.preScaler = halfBitCnt
        /\ \A i \in 1 .. DataBits + 1 : rx'.rxShift[i] = 1
    BY <1>1, <2>2, RxStep
  <2>4. /\ Edge(bitLength, 0) = 0 /\ Edge(bitLength, 0 + 1) = bitLength
        /\ bitLength <= Edge(bitLength, FrameBits)
    <3>1. 1 \in Nat /\ FrameBits \in Nat /\ 1 <= FrameBits /\ bitLength \in Nat
      BY Sizes, FarType
    <3> QED BY <3>1, Multiples
  <2>5. ftx'.txCnt # 0 /\ E' = 4
    BY <1>1, <1>10, <2>4, FarBusy, FarType
  <2>6. rxd = 0
    <3>1. rxd = Bit(byte, 0)
      BY <1>5, <1>10, <2>4, Line, Numbers
    <3> QED BY <3>1, Bits
  <2>7. Received(byte, 0)'
    <3>1. \A i \in 1 .. DataBits + 1 : i < FrameBits - 0
      BY Sizes
    <3>2. rx'.preScaler >= halfBitCnt
      BY <2>3, Sizes
    <3> QED BY <2>3, <3>1, <3>2 DEF Received
  <2>8. U(0)' = 0
    <3>1. Sampled(0 + 1) = maxPreScaler - halfBitCnt
      BY SampleTimes
    <3> QED BY <2>3, <3>1, Sizes DEF U
  <2>9. Samples(byte)'
    <3>1. ASSUME NEW i \in 1 .. 4, NEW j \in 0 .. FrameBits - 1,
                 Edge(bitLength, j) <= E' - 5 + i, E' - 5 + i < Edge(bitLength, j + 1)
          PROVE  rx'.rxInShift[i] = Bit(byte, j)
      <4>1. /\ E' - 5 + i = Edge(bitLength, 0) + (i - 1) /\ i - 1 \in Nat /\ i - 1 < bitLength
            /\ bitLength \in Nat /\ j \in Nat
        BY <2>4, <2>5, Numbers
      <4>2. j = 0
        BY <3>1, <4>1, OneBit
      <4>3. rx'.rxInShift[i] = 0
        <5>1. CASE i = 4
          BY <2>6, <5>1, RxStep
        <5>2. CASE i \in 1 .. 3
          <6>1. i + 1 \in 2 .. 4
            BY <5>2
          <6> QED BY <2>1, <5>2, <6>1, RxStep
        <5> QED BY <5>1, <5>2
      <4> QED BY <4>2, <4>3, Bits
    <3> QED BY <3>1, FarStep DEF Samples
  <2>10. Inside(0)'
    <3>1. ftx'.txCnt > 0
      BY <2>5, FarStep, Sizes DEF Registers
    <3>2. Received(pending[1], 0)' /\ Samples(pending[1])'
      BY <1>4, <2>7, <2>9 DEF Received, Samples
    <3>3. E' = 4 + U(0)'
      BY <2>5, <2>8
    <3> QED BY <1>1, <1>4, <1>8, <3>1, <3>2, <3>3 DEF Inside
  <2>11. Remaining(0)' >= Remaining(k) - 1
    <3>1. Remaining(0)' = Sampled(FrameBits) - U(0)'
      BY <2>3 DEF Remaining
    <3> QED BY <1>7, <1>10, <2>8, <3>1, Numbers
  <2> QED BY <1>2, <1>4, <2>10, <2>11, Numbers DEF Moves, Position
<1> QED BY <1>6, <1>9, <1>10

\* The receiver goes on with its frame, by a clock or a bit.
LEMMA GoesOn ==
    ASSUME TypeInv, Receive, NEW k \in 0 .. FrameBits - 1, NEW byte \in Bytes, Received(byte, k),
           rx.preScaler = maxPreScaler => k # FrameBits - 1 /\ rx.rxInShift[1] = Bit(byte, k)
    PROVE  /\ ~Complete /\ rx'.receiving
           /\ \E n \in 0 .. FrameBits - 1 :
                  /\ k <= n /\ Received(byte, n)' /\ U(n)' = U(k) + 1
<1>1. CASE rx.preScaler # maxPreScaler
  BY <1>1, Counts DEF Received
<1>2. CASE rx.preScaler = maxPreScaler
  BY <1>2, SamplesBit DEF Received
<1> QED BY <1>1, <1>2

LEMMA FromInside ==
    ASSUME TypeInv, FarBoard, Receive, Follow, NEW k \in 0 .. FrameBits - 1, Inside(k)
    PROVE  Moves(k)
<1> DEFINE L == Edge(bitLength, FrameBits)
           S == Sampled(FrameBits)
<1>1. /\ rx.receiving /\ ftx.txCnt # 0 /\ Len(pending) = 1 /\ Sending(pending[1])
      /\ Received(pending[1], k) /\ E = 4 + U(k) /\ Samples(pending[1])
  BY DEF Inside, Received
<1>2. ~Taken
  BY <1>1, FarBusy
<1>3. PICK byte \in Bytes : byte = pending[1]
  BY <1>1, OnePending
<1>4. Received(byte, k) /\ Sending(byte) /\ Samples(byte)
  BY <1>1, <1>3
<1>5. U(k) \in Nat /\ U(k) <= S /\ S < L /\ L \in Nat /\ S \in Nat /\ E \in Nat /\ E < L
  <2>1. S < L /\ L \in Nat /\ S \in Nat /\ E \in Nat /\ E < L
    BY <1>1, Numbers, FarType
  <2>2. U(k) \in Nat /\ U(k) <= Sampled(k + 1) /\ Sampled(k + 1) \in Nat /\ Sampled(k + 1) <= S
    BY <1>4, Times
  <2> HIDE DEF S, L
  <2> QED BY <2>1, <2>2
<1>6. Remaining(k) = S - U(k)
  BY <1>1 DEF Remaining
<1>7. ASSUME E >= Edge(bitLength, FrameBits - 1) + 3 PROVE High' /\ Quiet' /\ Rising(4)'
  <2>1. High' /\ Quiet'
    BY <1>1, <1>4, <1>7, LastBit, Numbers
  <2>2. Rising(4)'
    BY <2>1 DEF High, Rising
  <2> QED BY <2>1, <2>2
<1>8. bitLength' = bitLength /\ L' = L
  BY FarStep
<1> HIDE DEF L, S
<1>9. CASE rx.preScaler = maxPreScaler /\ k = FrameBits - 1
  <2>1. Complete /\ Tail(rx.rxShift) = byte /\ ~rx'.receiving /\ U(k) = S
    BY <1>4, <1>9, Ends DEF S
  <2>2. Complete => Arrives
    BY <1>1, <1>3, <2>1, OnePending DEF Arrives
  <2>3. pending' = <<>> /\ pending' \in Seq(Sent)
    <3>1. Len(pending') = 0 /\ pending' \in Seq(Sent)
      BY <1>1, <1>2, <2>1, OnePending, PendingStep
    <3> QED BY <3>1
  <2>4. E >= Edge(bitLength, FrameBits - 1) + 3
    BY <1>1, <2>1, Numbers DEF S
  <2>5. High' /\ Quiet' /\ Rising(4)'
    BY <1>7, <2>4
  <2>6. Remaining(k) = 0
    BY <1>5, <1>6, <2>1
  <2>7. CASE ftx'.txCnt = 0
    <3>1. Nothing'
      BY <2>1, <2>3, <2>5, <2>7 DEF Nothing
    <3>2. E + 1 = L
      BY <1>1, <2>7, FarBusy DEF L
    <3>3. Remaining(k)' = S + 5
      BY <2>1, <2>7 DEF Remaining, S
    <3>4. Remaining(k)' >= L
      BY <1>1, <1>5, <2>1, <3>2, <3>3
    <3> QED BY <2>1, <2>2, <2>3, <2>6, <3>1, <3>4 DEF Moves, Position, L
  <2>8. CASE ftx'.txCnt # 0
    <3>1. E' = E + 1 /\ ftx'.txCnt > 0
      BY <1>1, <2>8, FarBusy, FarStep, Sizes DEF Registers
    <3>2. E' = 5 + S
      BY <1>1, <1>5, <2>1, <3>1
    <3>3. Ahead'
      BY <1>5, <2>1, <2>3, <2>5, <3>1, <3>2 DEF Ahead, S
    <3>4. ~(E' <= 3)
      BY <1>5, <3>2
    <3>5. Remaining(k)' = S + (L - E' + 5)
      BY <1>8, <2>1, <2>8, <3>4 DEF Remaining, S, L
    <3>6. Remaining(k)' >= L
      BY <1>5, <3>2, <3>5
    <3> QED BY <2>1, <2>2, <2>3, <2>6, <3>3, <3>6 DEF Moves, Position, L
  <2> QED BY <2>7, <2>8
<1>10. CASE ~(rx.preScaler = maxPreScaler /\ k = FrameBits - 1)
  <2>1. ASSUME rx.preScaler = maxPreScaler PROVE rx.rxInShift[1] = Bit(byte, k)
    <3>1. U(k) = Sampled(k + 1)
      BY <1>4, <2>1, Times
    <3>2. Edge(bitLength, k) <= U(k) /\ U(k) < Edge(bitLength, k + 1)
      BY <3>1, FarType, Tolerance
    <3>3. E - 5 + 1 = U(k) /\ 1 \in 1 .. 4
      BY <1>1, <1>5
    <3> QED BY <1>4, <3>2, <3>3 DEF Samples
  <2>2. ~Complete /\ rx'.receiving
    BY <1>4, <1>10, <2>1, GoesOn
  <2>3. PICK n \in 0 .. FrameBits - 1 : k <= n /\ Received(byte, n)' /\ U(n)' = U(k) + 1
    BY <1>4, <1>10, <2>1, GoesOn
  <2>4. pending' = pending /\ pending' \in Seq(Sent)
    BY <1>2, <2>2, PendingStep DEF TypeInv
  <2>5. Received(pending[1], n)'
    BY <1>3, <2>3, <2>4 DEF Received
  <2>6. Remaining(n)' = S - U(n)'
    BY <2>2 DEF Remaining, S
  <2>7. Remaining(n)' >= Remaining(k) - 1
    BY <1>5, <1>6, <2>3, <2>6
  <2>8. CASE ftx'.txCnt # 0
    <3>1. E' = E + 1 /\ ftx'.txCnt > 0
      BY <1>1, <2>8, FarBusy, FarStep, Sizes DEF Registers
    <3>2. Samples(byte)' /\ Sending(byte)'
      BY <1>1, <1>4, <2>8, SamplesKept, FarBusy
    <3>3. Samples(pending[1])' /\ Sending(pending[1])'
      BY <1>3, <2>4, <3>2 DEF Samples, Sending
    <3>4. E' = 4 + U(n)'
      BY <1>1, <1>5, <2>3, <3>1
    <3>5. Inside(n)'
      BY <1>1, <2>4, <2>5, <3>1, <3>3, <3>4 DEF Inside
    <3> QED BY <2>2, <2>4, <2>7, <3>5 DEF Moves, Position
  <2>9. CASE ftx'.txCnt = 0
    <3>1. E + 1 = L
      BY <1>1, <2>9, FarBusy DEF L
    <3>2. E >= Edge(bitLength, FrameBits - 1) + 3
      BY <1>5, <3>1, Numbers DEF L
    <3>3. High' /\ Quiet'
      BY <1>7, <3>2
    <3>4. k = FrameBits - 1
      <4>1. k < FrameBits - 1 => U(k) <= Sampled(FrameBits - 1)
        BY <1>4, Times
      <4>2. U(k) > Sampled(FrameBits - 1)
        BY <1>1, <1>5, <3>1, Numbers DEF L
      <4> QED BY <1>5, <4>1, <4>2, Numbers
    <3>5. n = FrameBits - 1
      BY <2>3, <3>4, Numbers
    <3>6. 4 + U(n)' >= L
      BY <1>1, <1>5, <2>3, <3>1
    <3>7. Over(n)'
      BY <1>1, <1>8, <2>4, <2>5, <2>9, <3>3, <3>5, <3>6 DEF Over, L
    <3> QED BY <2>2, <2>4, <2>7, <3>7 DEF Moves, Position
  <2> QED BY <2>8, <2>9
<1> QED BY <1>9, <1>10

LEMMA FromOver ==
    ASSUME TypeInv, FarBoard, Receive, Follow, NEW k \in 0 .. FrameBits - 1, Over(k)
    PROVE  Moves(k)
<1> DEFINE L == Edge(bitLength, FrameBits)
           S == Sampled(FrameBits)
<1>1. /\ rx.receiving /\ ftx.txCnt = 0 /\ Len(pending) = 1 /\ Quiet /\ k = FrameBits - 1
      /\ Received(pending[1], k) /\ 4 + U(k) >= L /\ High
  BY DEF Over, Received
<1>2. PICK byte \in Bytes : byte = pending[1]
  BY <1>1, OnePending
<1>3. Received(byte, k)
  BY <1>1, <1>2
<1>4. U(k) \in Nat /\ S \in Nat /\ L \in Nat
  BY <1>3, Times, Numbers
<1>5. Remaining(k) = S - U(k)
  BY <1>1 DEF Remaining
<1>6. High' /\ Rising(4)' /\ rx'.rxInShift[4] = 1
  <2>1. High' /\ rx'.rxInShift[4] = 1
    BY <1>1, HighKept
  <2>2. Rising(4)'
    BY <2>1 DEF High, Rising
  <2> QED BY <2>1, <2>2
<1>7. bitLength' = bitLength /\ L' = L
  BY FarStep
<1> HIDE DEF L, S
<1>8. CASE rx.preScaler = maxPreScaler
  <2>1. Complete /\ Tail(rx.rxShift) = byte /\ ~rx'.receiving /\ U(k) = S
    BY <1>1, <1>3, <1>8, Ends DEF S
  <2>2. Complete => Arrives
    BY <1>1, <1>2, <2>1, OnePending DEF Arrives
  <2>3. Remaining(k) = 0
    BY <1>4, <1>5, <2>1
  <2>4. pending' \in Seq(Sent)
    BY <1>1, <2>1, OnePending, PendingStep
  <2>5. CASE Taken
    <3>1. Len(pending') = 1 /\ pending'[1] = fbus.dIn
      BY <1>1, <2>1, <2>5, OnePending, PendingStep
    <3>2. Unseen' /\ E' = 0
      BY <1>1, <1>6, <2>1, <2>5, <3>1, Begins
    <3>3. Remaining(k)' = S + 4
      BY <3>2 DEF Remaining, Unseen, S
    <3>4. Remaining(k)' >= L
      BY <1>1, <1>4, <2>1, <3>3
    <3> QED BY <2>1, <2>2, <2>3, <2>4, <3>2, <3>4 DEF Moves, Position, L
  <2>6. CASE ~Taken
    <3>1. Len(pending') = 0
      BY <1>1, <2>1, <2>6, OnePending, PendingStep
    <3>2. ftx'.txCnt = 0 /\ Quiet' /\ pending' = <<>>
      BY <1>1, <2>4, <2>6, <3>1, FarIdle
    <3>3. Nothing'
      BY <1>6, <2>1, <3>2 DEF Nothing
    <3>4. Remaining(k)' = S + 5
      BY <2>1, <3>2 DEF Remaining, S
    <3>5. Remaining(k)' >= L
      BY <1>1, <1>4, <2>1, <3>4
    <3> QED BY <2>1, <2>2, <2>3, <2>4, <3>3, <3>5 DEF Moves, Position, L
  <2> QED BY <2>5, <2>6
<1>9. CASE rx.preScaler # maxPreScaler
  <2>1. ~Complete /\ Received(byte, k)' /\ U(k)' = U(k) + 1
    BY <1>3, <1>9, Counts
  <2>2. rx'.receiving
    BY <2>1 DEF Received
  <2>3. Remaining(k)' >= Remaining(k) - 1
    <3>1. Remaining(k)' = S - U(k)'
      BY <2>2 DEF Remaining, S
    <3> QED BY <1>4, <1>5, <2>1, <3>1
  <2>4. pending' \in Seq(Sent)
    BY <2>1, PendingStep
  <2>5. CASE Taken
    <3>1. Len(pending') = 2 /\ pending'[1] = pending[1] /\ pending'[2] = fbus.dIn
      BY <1>1, <2>1, <2>5, PendingStep
    <3>2. /\ ftx'.txCnt = FrameBits /\ E' = 0 /\ \A b : b = fbus.dIn => Sending(b)'
      BY <1>1, <2>5, FarIdle
    <3>3. Sending(pending[2])' /\ Received(pending[1], k)'
      BY <1>2, <2>1, <3>1, <3>2 DEF Sending, Received
    <3>4. Early'
      <4>1. 4 - E' = 4 /\ E' <= 3 /\ rx'.rxInShift[4 - E'] = 1 /\ Rising(4 - E)'
        BY <1>6, <3>2 DEF Rising
      <4>2. \A i \in 1 .. 4 : ~(i > 4 - E')
        BY <3>2
      <4> QED BY <4>1, <4>2 DEF Early
    <3>5. ftx'.txCnt > 0
      BY <3>2, Sizes
    <3>6. 4 + U(k)' >= Edge(bitLength', FrameBits) + 1 + E'
      BY <1>1, <1>4, <1>7, <2>1, <3>2 DEF L
    <3>7. Behind(k)'
      BY <1>1, <3>1, <3>3, <3>4, <3>5, <3>6 DEF Behind
    <3> QED BY <2>1, <2>3, <2>4, <3>7 DEF Moves, Position
  <2>6. CASE ~Taken
    <3>1. pending' = pending /\ ftx'.txCnt = 0 /\ Quiet'
      BY <1>1, <2>1, <2>6, FarIdle, PendingStep
    <3>2. Received(pending[1], k)'
      BY <1>2, <2>1, <3>1 DEF Received
    <3>3. 4 + U(k)' >= Edge(bitLength', FrameBits)
      BY <1>1, <1>4, <1>7, <2>1 DEF L
    <3>4. Over(k)'
      BY <1>1, <1>6, <3>1, <3>2, <3>3 DEF Over
    <3> QED BY <2>1, <2>3, <2>4, <3>4 DEF Moves, Position
  <2> QED BY <2>5, <2>6
<1> QED BY <1>8, <1>9

LEMMA FromBehind ==
    ASSUME TypeInv, FarBoard, Receive, Follow, NEW k \in 0 .. FrameBits - 1, Behind(k)
    PROVE  Moves(k)
<1> DEFINE L == Edge(bitLength, FrameBits)
           S == Sampled(FrameBits)
<1>1. /\ rx.receiving /\ ftx.txCnt # 0 /\ Len(pending) = 2 /\ Sending(pending[2])
      /\ k = FrameBits - 1 /\ Received(pending[1], k) /\ 4 + U(k) >= L + 1 + E /\ Early
  BY DEF Behind, Received
<1>2. ~Taken
  BY <1>1, FarBusy
<1>3. PICK byte \in Bytes : byte = pending[1]
  BY <1>1, OnePending
<1>4. PICK next \in Bytes : next = pending[2]
  BY <1>1, OnePending
<1>5. Received(byte, k) /\ Sending(next)
  BY <1>1, <1>3, <1>4
<1>6. U(k) \in Nat /\ S \in Nat /\ L \in Nat /\ S < L /\ E \in Nat
  BY <1>5, Times, Numbers
<1>7. U(k) <= S
  BY <1>1, <1>5, Times, Numbers
<1>8. Remaining(k) = S - U(k)
  BY <1>1 DEF Remaining
<1>9. bitLength' = bitLength /\ L' = L
  BY FarStep
<1> HIDE DEF L, S
<1>10. E <= 2
  BY <1>1, <1>6, <1>7
<1>11. ftx'.txCnt # 0 /\ E' = E + 1 /\ Early' /\ Sending(next)'
  BY <1>1, <1>5, <1>10, EarlyKept, FarBusy
<1>12. ftx'.txCnt > 0
  BY <1>11, FarStep, Sizes DEF Registers
<1>13. CASE rx.preScaler = maxPreScaler
  <2>1. Complete /\ Tail(rx.rxShift) = byte /\ ~rx'.receiving /\ U(k) = S
    BY <1>1, <1>5, <1>13, Ends DEF S
  <2>2. Complete => Arrives
    BY <1>1, <1>3, <2>1, OnePending DEF Arrives
  <2>3. Len(pending') = 1 /\ pending'[1] = pending[2] /\ pending' \in Seq(Sent)
    BY <1>1, <1>2, <2>1, OnePending, PendingStep
  <2>4. Sending(pending[1])'
    BY <1>4, <1>11, <2>3 DEF Sending
  <2>5. Unseen'
    BY <1>11, <1>12, <2>1, <2>3, <2>4 DEF Unseen
  <2>6. Remaining(k)' = S + (4 - E')
    BY <1>6, <1>10, <1>11, <2>1 DEF Remaining, S
  <2>7. Remaining(k) = 0 /\ Remaining(k)' >= L
    BY <1>1, <1>6, <1>8, <1>11, <2>1, <2>6
  <2> QED BY <2>1, <2>2, <2>3, <2>5, <2>7 DEF Moves, Position, L
<1>14. CASE rx.preScaler # maxPreScaler
  <2>1. ~Complete /\ Received(byte, k)' /\ U(k)' = U(k) + 1
    BY <1>5, <1>14, Counts
  <2>2. rx'.receiving
    BY <2>1 DEF Received
  <2>3. Remaining(k)' >= Remaining(k) - 1
    <3>1. Remaining(k)' = S - U(k)'
      BY <2>2 DEF Remaining, S
    <3> QED BY <1>6, <1>8, <2>1, <3>1
  <2>4. pending' = pending /\ pending' \in Seq(Sent)
    BY <1>2, <2>1, PendingStep DEF TypeInv
  <2>5. Received(pending[1], k)' /\ Sending(pending[2])'
    BY <1>3, <1>4, <1>11, <2>1, <2>4 DEF Received, Sending
  <2>6. 4 + U(k)' >= Edge(bitLength', FrameBits) + 1 + E'
    BY <1>1, <1>6, <1>9, <1>11, <2>1 DEF L
  <2>7. Behind(k)'
    BY <1>1, <1>11, <1>12, <2>4, <2>5, <2>6 DEF Behind
  <2> QED BY <2>1, <2>3, <2>4, <2>7 DEF Moves, Position
<1> QED BY <1>13, <1>14

LEMMA FromAhead ==
    ASSUME TypeInv, FarBoard, Receive, Follow, NEW k \in 0 .. FrameBits - 1, Ahead
    PROVE  Moves(k)
<1> DEFINE L == Edge(bitLength, FrameBits)
           S == Sampled(FrameBits)
<1>1. /\ ~rx.receiving /\ ftx.txCnt # 0 /\ pending = <<>> /\ Quiet /\ E >= 5 + S /\ High
  BY DEF Ahead
<1>2. ~Taken /\ Quiet' /\ bitLength' = bitLength /\ L' = L
  BY <1>1, FarBusy
<1>3. S \in Nat /\ L \in Nat /\ E \in Nat /\ E < L
  BY <1>1, Numbers, FarType
<1>4. Rising(4) /\ High' /\ ~Falls
  <2>1. Rising(4)
    BY <1>1 DEF High, Rising
  <2> QED BY <1>1, <2>1, HighKept
<1>5. Rising(4)'
  BY <1>4 DEF High, Rising
<1>6. ~rx'.receiving /\ ~Complete
  BY <1>1, <1>4, RxStep DEF Complete
<1>7. pending' = <<>> /\ pending' \in Seq(Sent)
  BY <1>1, <1>2, <1>6, PendingStep DEF TypeInv
<1> HIDE DEF L, S
<1>8. ~(E <= 3)
  BY <1>1, <1>3
<1>9. Remaining(k) = S + (L - E + 5)
  BY <1>1, <1>8 DEF Remaining, S, L
<1>10. CASE ftx'.txCnt = 0
  <2>1. Nothing'
    BY <1>2, <1>5, <1>6, <1>7, <1>10 DEF Nothing
  <2>2. E + 1 = L
    BY <1>1, <1>10, FarBusy DEF L
  <2>3. Remaining(k)' = S + 5
    BY <1>6, <1>10 DEF Remaining, S
  <2>4. Remaining(k)' >= Remaining(k) - 1
    BY <1>3, <1>9, <2>2, <2>3
  <2> QED BY <1>6, <1>7, <2>1, <2>4 DEF Moves, Position
<1>11. CASE ftx'.txCnt # 0
  <2>1. E' = E + 1 /\ ftx'.txCnt > 0
    BY <1>1, <1>11, FarBusy, FarStep, Sizes DEF Registers
  <2>2. E' >= 5 + S /\ ~(E' <= 3)
    BY <1>1, <1>3, <2>1
  <2>3. Ahead'
    BY <1>2, <1>4, <1>6, <1>7, <2>1, <2>2 DEF Ahead, S
  <2>4. Remaining(k)' = S + (L - E' + 5)
    BY <1>2, <1>6, <1>11, <2>2 DEF Remaining, S, L
  <2>5. Remaining(k)' >= Remaining(k) - 1
    BY <1>3, <1>9, <2>1, <2>4
  <2> QED BY <1>6, <1>7, <2>3, <2>5 DEF Moves, Position
<1> QED BY <1>10, <1>11

\* Every position is left by one of these.
LEMMA EveryMove ==
    ASSUME TypeInv, FarBoard, Receive, Follow, NEW k \in 0 .. FrameBits - 1, Position(k)
    PROVE  Moves(k)
BY FromNothing, FromUnseen, FromInside, FromOver, FromBehind, FromAhead DEF Position

-----------------------------------------------------------------------------
(***************************************************************************)
(* readchar, in the time that the frames leave it.                         *)
(***************************************************************************)
LEMMA ShortestFrame ==
    ASSUME NEW length \in BitLengths
    PROVE  Shortest \in Nat /\ Shortest <= Edge(length, FrameBits) - (MaxGap + MaxHold + 1)
<1>1. BitLengths \subseteq Nat
  BY BoardsAssumption
<1>2. \E l \in BitLengths : \A m \in BitLengths : l <= m
  <2>1. PICK l \in BitLengths : \A m \in BitLengths : ~(<<m, l>> \in OpToRel(<, Nat))
    BY <1>1, WFMin, NatLessThanWellFounded
  <2>2. ASSUME NEW m \in BitLengths PROVE l <= m
    <3>1. l \in Nat /\ m \in Nat
      BY <1>1
    <3>2. ~(m < l)
      BY <2>1, <3>1 DEF OpToRel
    <3> QED BY <3>1, <3>2
  <2> QED BY <2>2
<1> DEFINE least == CHOOSE l \in BitLengths : \A m \in BitLengths : l <= m
<1>3. least \in BitLengths /\ least \in Nat /\ length \in Nat /\ least <= length
  BY <1>1, <1>2
<1>4. Shortest = FrameBits * least - (MaxGap + MaxHold + 1)
  BY DEF Shortest
<1> HIDE DEF least
<1>5. MaxGap + MaxHold + 1 <= Edge(least, FrameBits) /\ Edge(least, FrameBits) \in Nat
  BY <1>3, Tolerance, Multiples, Sizes
<1>6. FrameBits * least = Edge(least, FrameBits)
  BY DEF Edge
<1>7. Edge(least, FrameBits) <= Edge(length, FrameBits)
  <2>1. PICK d \in Nat : length = least + d
    BY <1>3
  <2>2. FrameBits \in Nat /\ Edge(d, FrameBits) \in Nat
    <3>1. FrameBits \in Nat
      BY Sizes
    <3> QED BY <3>1, Multiples
  <2>3. Edge(length, FrameBits) = Edge(least, FrameBits) + Edge(d, FrameBits)
    BY <1>3, <2>1, <2>2, SMTT(30) DEF Edge
  <2> QED BY <1>5, <2>2, <2>3
<1>8. MaxGap + MaxHold + 1 \in Nat /\ Edge(length, FrameBits) \in Nat
  <2>1. FrameBits \in Nat /\ MaxGap + MaxHold + 1 \in Nat
    BY Sizes
  <2> QED BY <1>3, <2>1, Multiples
<1> QED BY <1>4, <1>5, <1>6, <1>7, <1>8

\* What rxBuff and the history become.
LEMMA BufferStep ==
    ASSUME TypeInv, Receive, Follow
    PROVE  /\ Complete => /\ rx'.rxBuff = Tail(rx.rxShift) /\ unread' = Tail(rx.rxShift)
                          /\ age' = 0
           /\ ~Complete => /\ rx'.rxBuff = IF bus.addr = "rx" THEN Zero ELSE rx.rxBuff
                           /\ unread' = IF Returns THEN Zero ELSE unread
                           /\ unread' # Zero => age' = IF age < Shortest THEN age + 1 ELSE age
                           /\ unread' = Zero => age' = 0
           /\ late' = IF Returns THEN age = Shortest ELSE late
           /\ Tail(rx.rxShift) \in Bytes
<1>1. rx'.rxBuff = IF Complete THEN Tail(rx.rxShift) ELSE IF bus.addr = "rx" THEN Zero ELSE rx.rxBuff
  BY RxStep DEF rxBuff, Writes
<1>2. Tail(rx.rxShift) \in Bytes
  BY DataOf DEF TypeInv
<1> QED BY <1>1, <1>2 DEF Follow

LEMMA TypeKept ==
    ASSUME TypeInv, Receive, FarBoard, Follow, readchar, pending' \in Seq(Sent),
           pc # "clear" => bus = Idle
    PROVE  TypeInv'
<1>1. bitLength' \in BitLengths
  BY FarStep, FarType
<1>2. /\ ftx' \in Registers
      /\ ftx'.preScaler < bitLength' /\ (ftx'.txCnt = 0 => ftx'.preScaler = 0)
      /\ rxd' = ftx'.txShift[1] /\ (fbus = Idle \/ (fbus.addr = "tx" /\ fbus.dIn \in Sent))'
  <2>1. /\ ftx' \in Registers /\ bitLength' = bitLength /\ rxd' = ftx'.txShift[1]
        /\ (fbus = Idle \/ (fbus.addr = "tx" /\ fbus.dIn \in Sent))'
    BY FarStep
  <2>2. /\ bitLength \in Nat /\ bitLength > 4 /\ ftx.preScaler \in Nat /\ ftx.preScaler < bitLength
        /\ (ftx.txCnt = 0 => ftx.preScaler = 0) /\ FrameBits # 0
    BY FarType, Sizes
  <2>3. CASE ftx.txCnt = 0
    <3>1. ftx'.preScaler = 0
      BY <2>2, <2>3, FarStep
    <3> QED BY <2>1, <2>2, <3>1
  <2>4. CASE ftx.txCnt # 0 /\ ftx.preScaler = bitLength - 1
    <3>1. ftx'.preScaler = 0
      BY <2>4, FarStep
    <3> QED BY <2>1, <2>2, <3>1
  <2>5. CASE ftx.txCnt # 0 /\ ftx.preScaler # bitLength - 1
    <3>1. ftx'.preScaler = ftx.preScaler + 1 /\ ftx'.txCnt # 0
      BY <2>5, FarStep
    <3> QED BY <2>1, <2>2, <2>5, <3>1
  <2> QED BY <2>3, <2>4, <2>5
<1>3. rx' \in RxFields
  BY RxStep
<1>4. unread' \in Bytes /\ late' \in BOOLEAN /\ age' \in 0 .. Shortest
  <2>1. Shortest \in Nat
    BY FarType, ShortestFrame
  <2>2. Zero \in Bytes
    BY DEF Zero, Bytes
  <2>3. unread \in Bytes /\ late \in BOOLEAN /\ age \in 0 .. Shortest
    BY DEF TypeInv
  <2>4. unread' \in Bytes
    BY <2>2, <2>3, BufferStep
  <2>5. age' \in 0 .. Shortest
    BY <2>1, <2>3, BufferStep
  <2>6. late' \in BOOLEAN
    BY <2>3, BufferStep
  <2> QED BY <2>4, <2>5, <2>6
<1>5. /\ pc' \in {"poll", "read", "clear"} /\ held' \in Nat /\ c' \in Bytes
      /\ (bus = Idle \/ bus = [addr |-> "rx", dIn |-> c])'
      /\ pc' = "clear" => held' <= (IF bus' = Idle THEN MaxGap ELSE MaxHold)
  <2>1. /\ pc \in {"poll", "read", "clear"} /\ held \in Nat /\ c \in Bytes
        /\ bus = Idle \/ bus = [addr |-> "rx", dIn |-> c]
        /\ pc = "clear" => held <= (IF bus = Idle THEN MaxGap ELSE MaxHold)
        /\ rx.rxBuff \in Bytes
    BY DEF TypeInv
  <2>2. CASE Poll
    BY <2>1, <2>2 DEF Poll
  <2>3. CASE Read
    BY <2>1, <2>3, Sizes DEF Read
  <2>4. CASE Clear
    BY <2>1, <2>4, Sizes DEF Clear
  <2> QED BY <2>2, <2>3, <2>4 DEF readchar
<1> QED BY <1>1, <1>2, <1>3, <1>4, <1>5 DEF TypeInv, Registers, RxFields

\* A whole number of clocks.
LEMMA Clocks ==
    ASSUME NEW length \in Nat, NEW n \in Nat, NEW p \in Nat, NEW q \in Nat,
           NEW k \in 0 .. FrameBits - 1
    PROVE  /\ Sampled(FrameBits) - (Sampled(k + 1) - (maxPreScaler - q)) \in Int
           /\ Sampled(FrameBits) + 5 \in Int
           /\ Sampled(FrameBits) + (4 - (Edge(length, n) + p)) \in Int
           /\ Sampled(FrameBits) + (Edge(length, FrameBits) - (Edge(length, n) + p) + 5) \in Int
<1>1. k + 1 \in 1 .. FrameBits /\ FrameBits \in 1 .. FrameBits /\ FrameBits \in Nat
  BY Sizes
<1>2. Sampled(k + 1) \in Nat /\ Sampled(FrameBits) \in Nat
  BY <1>1, SampleTimes
<1>3. Edge(length, n) \in Nat /\ Edge(length, FrameBits) \in Nat
  BY <1>1, Multiples
<1> QED BY <1>2, <1>3, Sizes

LEMMA RemainingInt == TypeInv => \A k \in 0 .. FrameBits - 1 : Remaining(k) \in Int
<1> SUFFICES ASSUME TypeInv, NEW k \in 0 .. FrameBits - 1 PROVE Remaining(k) \in Int
  OBVIOUS
<1>1. bitLength \in Nat /\ sentBits \in Nat /\ ftx.preScaler \in Nat /\ rx.preScaler \in Nat
  BY FarType, Sizes DEF TypeInv
<1> QED BY <1>1, Clocks DEF Remaining, U, E

LEMMA RemainingIntNext == TypeInv' => \A k \in 0 .. FrameBits - 1 : Remaining(k)' \in Int
<1>1. (TypeInv => \A k \in 0 .. FrameBits - 1 : Remaining(k) \in Int)'
  BY RemainingInt, PTL
<1> QED BY <1>1

LEMMA ReaderKept ==
    ASSUME TypeInv, Receive, FarBoard, Follow, readchar,
           NEW k \in 0 .. FrameBits - 1, NEW n \in 0 .. FrameBits - 1,
           ReaderInv(k), Remaining(k) \in Int, Remaining(n)' \in Int,
           IF Complete THEN Remaining(k) = 0 /\ Remaining(n)' >= Edge(bitLength, FrameBits)
           ELSE Remaining(n)' >= Remaining(k) - 1,
           Complete => Tail(rx.rxShift) # Zero
    PROVE  ReaderInv(n)'
<1> DEFINE L == Edge(bitLength, FrameBits)
           R == Remaining(k)
           after == Remaining(n)'
<1>1. /\ unread # Zero /\ age < Shortest => age + R >= L
      /\ pc # "clear" => /\ bus = Idle /\ rx.rxBuff \in {Zero, unread}
                         /\ unread # Zero /\ rx.rxBuff = Zero => late
      /\ pc = "clear" /\ ~late => unread = Zero /\ R >= Needs
  BY DEF ReaderInv
<1>2. /\ R \in Int /\ after \in Int
      /\ Complete => R = 0 /\ after >= L /\ Tail(rx.rxShift) # Zero
      /\ ~Complete => after >= R - 1
  OBVIOUS
<1>3. /\ L \in Nat /\ L' = L /\ Shortest \in Nat /\ Shortest <= L - (MaxGap + MaxHold + 1)
      /\ MaxGap \in Nat /\ MaxHold \in Nat
  BY FarStep, FarType, ShortestFrame, Sizes
<1>4. /\ pc \in {"poll", "read", "clear"} /\ held \in Nat /\ age \in 0 .. Shortest
      /\ bus = Idle \/ bus = [addr |-> "rx", dIn |-> c]
      /\ pc = "clear" => held <= (IF bus = Idle THEN MaxGap ELSE MaxHold)
  BY DEF TypeInv
<1> HIDE DEF L, R, after
<1>5. unread' # Zero /\ age' < Shortest => age' + after >= L'
  <2>1. CASE Complete
    BY <1>2, <1>3, <2>1, BufferStep
  <2>2. CASE ~Complete
    <3>1. SUFFICES ASSUME unread' # Zero, age' < Shortest PROVE age' + after >= L
      BY <1>3
    <3>2. unread' = unread /\ age' = age + 1 /\ age < Shortest
      BY <1>4, <2>2, <3>1, BufferStep
    <3> QED BY <1>1, <1>2, <1>3, <1>4, <2>2, <3>1, <3>2
  <2> QED BY <2>1, <2>2
<1>6. CASE pc \in {"poll", "read"} /\ ~Returns
  <2>1. bus' = Idle /\ pc' # "clear" /\ late' = late
    <3>1. pc' # "clear" /\ bus' = bus
      BY <1>6 DEF Returns, readchar, Poll, Read, Clear
    <3> QED BY <1>1, <1>6, <3>1, BufferStep
  <2>2. rx'.rxBuff \in {Zero, unread'} /\ (unread' # Zero /\ rx'.rxBuff = Zero => late')
    <3>1. CASE Complete
      BY <1>2, <3>1, BufferStep
    <3>2. CASE ~Complete
      <4>1. bus.addr # "rx"
        BY <1>1, <1>6 DEF Idle
      <4>2. rx'.rxBuff = rx.rxBuff /\ unread' = unread
        BY <1>6, <3>2, <4>1, BufferStep
      <4> QED BY <1>1, <1>6, <2>1, <4>2
    <3> QED BY <3>1, <3>2
  <2> QED BY <1>5, <2>1, <2>2 DEF ReaderInv, L, after
<1>7. CASE Returns
  <2>1. pc = "read" /\ pc' = "clear" /\ bus' = Idle /\ held' = 0 /\ rx.rxBuff # Zero
    <3>1. pc = "read" /\ pc' = "clear"
      BY <1>7 DEF Returns
    <3>2. Read
      BY <3>1 DEF readchar, Poll, Clear
    <3>3. bus' = bus /\ held' = 0 /\ rx.rxBuff # Zero
      BY <3>1, <3>2 DEF Read
    <3> QED BY <1>1, <3>1, <3>3
  <2>2. ASSUME ~late' PROVE unread' = Zero /\ after >= Needs'
    <3>1. age < Shortest
      <4>1. late' = (age = Shortest)
        BY <1>7, BufferStep
      <4>2. age # Shortest
        BY <2>2, <4>1, Zenon
      <4> QED BY <1>3, <1>4, <4>2
    <3>2. unread # Zero
      BY <1>1, <2>1
    <3>3. R >= MaxGap + MaxHold + 2
      BY <1>1, <1>2, <1>3, <1>4, <3>1, <3>2
    <3>4. ~Complete
      BY <1>2, <1>3, <3>3
    <3>5. unread' = Zero
      BY <1>7, <3>4, BufferStep
    <3>6. Needs' = MaxGap - 0 + MaxHold + 1
      BY <2>1 DEF Needs
    <3> QED BY <1>2, <1>3, <3>3, <3>4, <3>5, <3>6
  <2> QED BY <1>5, <2>1, <2>2 DEF ReaderInv, L, after
<1>8. CASE pc = "clear"
  <2>1. Clear /\ ~Returns
    BY <1>8 DEF readchar, Poll, Read, Returns
  <2>2. late' = late
    BY <2>1, BufferStep
  <2>3. CASE bus # Idle /\ held' = 0 /\ bus' = Idle /\ pc' = "poll"
    <3>1. bus.addr = "rx"
      BY <1>4, <2>3
    <3>2. CASE Complete
      <4>1. rx'.rxBuff = unread' /\ unread' # Zero
        BY <1>2, <3>2, BufferStep
      <4> QED BY <1>5, <2>3, <4>1 DEF ReaderInv, L, after
    <3>3. CASE ~Complete
      <4>1. rx'.rxBuff = Zero /\ unread' = unread
        BY <2>1, <3>1, <3>3, BufferStep
      <4>2. unread' # Zero => late'
        BY <1>1, <1>8, <2>2, <4>1
      <4> QED BY <1>5, <2>3, <4>1, <4>2 DEF ReaderInv, L, after
    <3> QED BY <3>2, <3>3
  <2>4. CASE ~(bus # Idle /\ held' = 0 /\ bus' = Idle /\ pc' = "poll")
    <3>1. pc' = "clear"
      BY <1>8, <2>1, <2>4 DEF Clear
    <3>2. ASSUME ~late' PROVE unread' = Zero /\ after >= Needs'
      <4>1. unread = Zero /\ R >= Needs
        BY <1>1, <1>8, <2>2, <3>2
      <4>2. Needs \in Int /\ Needs' <= Needs - 1 /\ Needs >= 1 /\ Needs' \in Int
        <5>1. CASE bus = Idle /\ held < MaxGap /\ held' = held + 1 /\ bus' = bus
          BY <1>3, <1>4, <5>1 DEF Needs
        <5>2. CASE bus = Idle /\ held' = 0 /\ bus' = [addr |-> "rx", dIn |-> c]
          <6>1. bus' # Idle
            BY <5>2 DEF Idle
          <6>2. held <= MaxGap
            BY <1>4, <1>8, <5>2
          <6> QED BY <1>3, <1>4, <5>2, <6>1, <6>2 DEF Needs
        <5>3. CASE bus # Idle /\ held < MaxHold /\ held' = held + 1 /\ bus' = bus
          BY <1>3, <1>4, <5>3 DEF Needs
        <5> QED BY <2>1, <2>4, <5>1, <5>2, <5>3 DEF Clear
      <4>3. ~Complete
        BY <1>2, <4>1, <4>2
      <4>4. unread' = Zero
        BY <2>1, <4>1, <4>3, BufferStep
      <4> QED BY <1>2, <4>1, <4>2, <4>3, <4>4
    <3> QED BY <1>5, <3>1, <3>2 DEF ReaderInv, L, after
  <2> QED BY <2>3, <2>4
<1> QED BY <1>4, <1>6, <1>7, <1>8

-----------------------------------------------------------------------------
LEMMA BInvInit == BInit => BInv
<1> SUFFICES ASSUME BInit PROVE BInv
  OBVIOUS
<1>1. /\ tx = [txCnt |-> 0, txShift |-> Ones(FrameBits), preScaler |-> 0]
      /\ rx = [receiving |-> FALSE, rxShift |-> Ones(DataBits + 1),
               rxInShift |-> <<0, 0, 0, 0>>, preScaler |-> 0, rxBuff |-> Zero]
      /\ rxd = 1 /\ bus = Idle
      /\ bitLength \in BitLengths /\ ftx = tx /\ fbus = Idle
      /\ pc = "poll" /\ held = 0 /\ c = Zero
      /\ pending = <<>> /\ unread = Zero /\ age = 0 /\ late = FALSE
  BY DEF BInit, Init
<1>2. /\ Zero \in Bytes /\ Ones(FrameBits) \in [1 .. FrameBits -> {0, 1}]
      /\ Ones(DataBits + 1) \in [1 .. DataBits + 1 -> {0, 1}]
      /\ \A i \in 1 .. FrameBits : Ones(FrameBits)[i] = 1
  BY DEF Zero, Bytes, Ones
<1>3. /\ bitLength \in Nat /\ bitLength > 4 /\ Shortest \in Nat
      /\ FrameBits \in Nat /\ 1 \in 1 .. FrameBits /\ 0 \in 0 .. FrameBits - 1
      /\ 0 \in 0 .. maxPreScaler
  BY <1>1, Tolerance, ShortestFrame, Sizes
<1>4. ftx.txCnt = 0 /\ ftx.txShift = Ones(FrameBits) /\ ftx.preScaler = 0
  BY <1>1
<1>5. rx.receiving = FALSE /\ rx.rxBuff = Zero /\ rx.rxInShift = <<0, 0, 0, 0>>
  BY <1>1
<1>6. TypeInv
  <2>1. ftx \in [txCnt : 0 .. FrameBits, txShift : [1 .. FrameBits -> {0, 1}], preScaler : Nat]
    BY <1>1, <1>2, <1>3
  <2>2. <<0, 0, 0, 0>> \in [1 .. 4 -> {0, 1}]
    OBVIOUS
  <2>3. rx \in [receiving : BOOLEAN, rxShift : [1 .. DataBits + 1 -> {0, 1}],
                rxInShift : [1 .. 4 -> {0, 1}], preScaler : 0 .. maxPreScaler, rxBuff : Bytes]
    BY <1>1, <1>2, <1>3, <2>2, Zenon
  <2>4. ftx.preScaler < bitLength /\ rxd = ftx.txShift[1]
    BY <1>1, <1>2, <1>3, <1>4
  <2>5. pending \in Seq(Sent) /\ unread \in Bytes /\ late \in BOOLEAN /\ age \in 0 .. Shortest
    <3>1. <<>> \in Seq(Sent)
      OBVIOUS
    <3>2. 0 \in 0 .. Shortest
      BY <1>3
    <3> QED BY <1>1, <1>2, <3>1, <3>2, Zenon
  <2>6. /\ pc \in {"poll", "read", "clear"} /\ pc # "clear" /\ held \in Nat /\ c \in Bytes
        /\ bus = Idle /\ fbus = Idle
    BY <1>1, <1>2
  <2> QED BY <1>1, <1>4, <2>1, <2>3, <2>4, <2>5, <2>6, Zenon DEF TypeInv
<1>7. Nothing
  BY <1>1, <1>2, <1>4, <1>5 DEF Nothing, Quiet, Rising
<1>8. ReaderInv(0)
  BY <1>1, <1>5 DEF ReaderInv
<1> QED BY <1>3, <1>6, <1>7, <1>8 DEF BInv, Position

LEMMA BInvNext == BInv /\ [BNext]_bVars => BInv'
<1> SUFFICES ASSUME BInv, [BNext]_bVars PROVE BInv'
  OBVIOUS
<1>1. CASE BNext
  <2>1. TypeInv /\ FarBoard /\ Receive /\ Follow /\ readchar
    BY <1>1 DEF BNext, Clock, BInv
  <2>2. PICK k \in 0 .. FrameBits - 1 : Position(k) /\ ReaderInv(k)
    BY DEF BInv
  <2>3. Moves(k)
    BY <2>1, <2>2, EveryMove
  <2>4. pending' \in Seq(Sent) /\ (Complete => Arrives)
    BY <2>3 DEF Moves
  <2>5. PICK n \in 0 .. FrameBits - 1 :
            /\ Position(n)'
            /\ IF Complete THEN Remaining(k) = 0 /\ Remaining(n)' >= Edge(bitLength, FrameBits)
               ELSE Remaining(n)' >= Remaining(k) - 1
    BY <2>3 DEF Moves
  <2>6. TypeInv'
    <3>1. pc # "clear" => bus = Idle
      BY <2>2 DEF ReaderInv
    <3> QED BY <2>1, <2>4, <3>1, TypeKept
  <2>7. Remaining(k) \in Int /\ Remaining(n)' \in Int
    BY <2>1, <2>6, RemainingInt, RemainingIntNext
  <2>8. Complete => Tail(rx.rxShift) # Zero
    <3>1. pending \in Seq(Sent) /\ Zero \notin Sent
      BY <2>1, Sizes DEF TypeInv
    <3>2. pending # <<>> => Head(pending) \in Sent
      BY <3>1
    <3> QED BY <2>4, <3>1, <3>2 DEF Arrives
  <2>9. ReaderInv(n)'
    BY <2>1, <2>2, <2>5, <2>7, <2>8, ReaderKept
  <2> QED BY <2>5, <2>6, <2>9 DEF BInv
<1>2. CASE UNCHANGED bVars
  <2>1. /\ rx' = rx /\ rxd' = rxd /\ bus' = bus /\ bitLength' = bitLength /\ ftx' = ftx
        /\ fbus' = fbus /\ pc' = pc /\ held' = held /\ c' = c /\ pending' = pending
        /\ unread' = unread /\ age' = age /\ late' = late
    BY <1>2 DEF bVars, far, history
  <2>2. sentBits' = sentBits /\ E' = E /\ Needs' = Needs
    BY <2>1 DEF sentBits, E, Needs
  <2>3. TypeInv'
    BY <2>1 DEF BInv, TypeInv
  <2>4. PICK k \in 0 .. FrameBits - 1 : Position(k) /\ ReaderInv(k)
    BY DEF BInv
  <2>5. U(k)' = U(k)
    BY <2>1 DEF U
  <2>6. Remaining(k)' = Remaining(k)
    BY <2>1, <2>2, <2>5 DEF Remaining
  <2>7. ReaderInv(k)'
    BY <2>1, <2>2, <2>4, <2>6 DEF ReaderInv
  <2>8. (Nothing => Nothing') /\ (Ahead => Ahead') /\ (Unseen => Unseen')
    BY <2>1, <2>2 DEF Nothing, Ahead, Unseen, Quiet, High, Rising, Early, Sending
  <2>9. (Inside(k) => Inside(k)') /\ (Over(k) => Over(k)') /\ (Behind(k) => Behind(k)')
    BY <2>1, <2>2, <2>5 DEF Inside, Over, Behind, Quiet, High, Rising, Early, Sending, Received, Samples
  <2> QED BY <2>3, <2>4, <2>7, <2>8, <2>9 DEF BInv, Position
<1> QED BY <1>1, <1>2

\* The receiver of uart.vhd is always at one of these positions of the frame
\* that the far board's transmitter shifts out, however its clock differs
\* within the tolerance, and readchar of sw/uart/uart.c has the time it needs.
THEOREM BoardsInvariant == BSpec => []BInv
<1>1. BInit => BInv
  BY BInvInit
<1>2. BInv /\ [BNext]_bVars => BInv'
  BY BInvNext
<1> QED BY <1>1, <1>2, PTL DEF BSpec

\* When the rx process of uart.vhd completes a byte it is the oldest one that
\* the far transmitter has taken and that is not received: every byte arrives
\* once, in order and unharmed, for every length of a bit within the tolerance
\* and any byte of any number of bits.
THEOREM BytesArrive == BSpec => []TakenBytesArrive
<1>1. BInv => TakenBytesArrive
  <2> SUFFICES ASSUME BInv, Complete PROVE Arrives
    BY DEF TakenBytesArrive, Arrives
  <2>1. PICK k \in 0 .. FrameBits - 1 : Position(k)
    BY DEF BInv
  <2>2. TypeInv /\ rx.receiving /\ rx.rxShift[1] = 0
    BY DEF BInv, Complete
  <2>3. Len(pending) >= 1 /\ Received(pending[1], k)
    BY <2>1, <2>2 DEF Position, Nothing, Unseen, Ahead, Inside, Over, Behind
  <2>4. PICK byte \in Bytes : byte = pending[1]
    BY <2>2, <2>3, OnePending
  <2>5. Received(byte, k)
    BY <2>3, <2>4
  <2>6. k = FrameBits - 1
    BY <2>2, <2>5, WholeOnly
  <2>7. Tail(rx.rxShift) = byte
    BY <2>2, <2>5, <2>6, Whole
  <2> QED BY <2>2, <2>3, <2>4, <2>7, OnePending DEF Arrives
<1> QED BY <1>1, BoardsInvariant, PTL

\* The byte in rxBuff is lost to readchar's own clear only if readchar let the
\* byte before it wait for a frame less the time of its read and clear.
THEOREM OnlyLatePolling == BSpec => []LostOnlyByLatePolling
<1>1. BInv => LostOnlyByLatePolling
  <2> SUFFICES ASSUME BInv, unread # Zero, rx.rxBuff # unread PROVE late
    BY DEF LostOnlyByLatePolling
  <2>1. PICK k \in 0 .. FrameBits - 1 : ReaderInv(k)
    BY DEF BInv
  <2> QED BY <2>1 DEF ReaderInv
<1> QED BY <1>1, BoardsInvariant, PTL
=============================================================================
