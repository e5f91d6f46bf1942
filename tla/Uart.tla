-------------------------------- MODULE Uart --------------------------------
(***************************************************************************)
(* The serial interface (rtl/periph/uart.vhd).  One step is one rising edge*)
(* of clk: the tx and the rx process run, while a write of the CPU lasts   *)
(* one or more edges.  What drives rxd, and which writes the CPU makes, is *)
(* said by the modules that EXTEND this one.                               *)
(* Bytes are sequences of bits, the first bit on the line first.           *)
(***************************************************************************)
EXTENDS Integers, Sequences

CONSTANTS
    maxPreScaler,           \* clocks of a bit less one: sysclk / baudrate - 1
    DataBits                \* 8

ASSUME UartAssumption == maxPreScaler \in Nat /\ maxPreScaler > 3 /\ DataBits \in Nat \ {0}

VARIABLES
    tx,                     \* txCnt, txShift and preScalerTx
    rx,                     \* receiving, rxShift, rxInShift, preScalerRx, rxBuff
    rxd,                    \* the input line
    bus                     \* the write on the bus: its address and byte, or Idle

Bytes == [1 .. DataBits -> {0, 1}]
Zero == [n \in 1 .. DataBits |-> 0]
Ones(n) == [i \in 1 .. n |-> 1]

Idle == [addr |-> "none", dIn |-> Zero]
Writes(addr) == bus.addr = addr

\* A register shifted by one place, with a new last bit.
Shifted(register, bit) == Append(Tail(register), bit)

-----------------------------------------------------------------------------
FrameBits == DataBits + 2

txd == tx.txShift[1]

\* A byte is taken only when nothing is on the line.
Transmit ==
    tx' = IF Writes("tx") /\ tx.txCnt = 0
          THEN [txCnt |-> FrameBits, preScaler |-> 0,
                txShift |-> <<0>> \o bus.dIn \o <<1>>]
          ELSE IF tx.txCnt = 0 THEN tx
          ELSE IF tx.preScaler = maxPreScaler
          THEN [txCnt |-> tx.txCnt - 1, preScaler |-> 0,
                txShift |-> Shifted(tx.txShift, 1)]
          ELSE [tx EXCEPT !.preScaler = @ + 1]

-----------------------------------------------------------------------------
\* rxInShift, the latest sample last.
latest == rx.rxInShift[1]
Falls == rx.rxInShift[1] = 1 /\ rx.rxInShift[2] = 0

\* A slip: the first sample is taken a whole bit after the edge.
halfBitCntZero == 0

\* Two thirds: the bits are sampled a third of a bit after their edges.
halfBitCnt == (maxPreScaler * 2) \div 3

Tick == rx.preScaler = maxPreScaler

\* The start bit has reached the last place: all data bits are in.
Complete == rx.receiving /\ Tick /\ rx.rxShift[1] = 0

\* A slip: the start of a frame empties the buffer.
EmptiedByStart ==
    IF Complete THEN Tail(rx.rxShift)
    ELSE IF Writes("rx") \/ (~rx.receiving /\ Falls) THEN Zero
    ELSE rx.rxBuff

\* A byte that is completed on the edge of a clear wins.
rxBuff ==
    IF Complete THEN Tail(rx.rxShift)
    ELSE IF Writes("rx") THEN Zero
    ELSE rx.rxBuff

Sampling(r) ==
    IF rx.receiving
    THEN IF Tick
         THEN [r EXCEPT !.preScaler = 0, !.rxShift = Shifted(@, latest),
                        !.receiving = ~Complete]
         ELSE [r EXCEPT !.preScaler = @ + 1]
    ELSE IF Falls
    THEN [r EXCEPT !.receiving = TRUE, !.preScaler = halfBitCnt,
                   !.rxShift = Ones(DataBits + 1)]
    ELSE r

Receive ==
    rx' = Sampling([rx EXCEPT !.rxInShift = Shifted(@, rxd), !.rxBuff = rxBuff])

-----------------------------------------------------------------------------
\* The prescalers start at their lowest value, rxInShift at zero.
Init ==
    /\ tx = [txCnt |-> 0, txShift |-> Ones(FrameBits), preScaler |-> 0]
    /\ rx = [receiving |-> FALSE, rxShift |-> Ones(DataBits + 1),
             rxInShift |-> <<0, 0, 0, 0>>, preScaler |-> 0, rxBuff |-> Zero]
    /\ rxd = 1
    /\ bus = Idle

Clock == Transmit /\ Receive

TypeOK ==
    /\ tx.txCnt \in 0 .. FrameBits /\ tx.preScaler \in 0 .. maxPreScaler
    /\ tx.txShift \in [1 .. FrameBits -> {0, 1}]
    /\ rx.receiving \in BOOLEAN /\ rx.preScaler \in 0 .. maxPreScaler
    /\ rx.rxShift \in [1 .. DataBits + 1 -> {0, 1}]
    /\ rx.rxInShift \in [1 .. 4 -> {0, 1}]
    /\ rx.rxBuff \in Bytes
    /\ rxd \in {0, 1}
=============================================================================
