---------------------------- MODULE MCUartBoards ----------------------------
(***************************************************************************)
(* Two boards on a line.  The CPU of the far one, whose clock is a little  *)
(* off, writes bytes to its transmitter whenever it likes, busy or not;    *)
(* the program of the near one polls with readchar of sw/uart/uart.c: it   *)
(* reads rxBuff and, if that is not zero, clears it with a write some      *)
(* clocks later.                                                           *)
(***************************************************************************)
EXTENDS Uart

CONSTANTS
    Sent,                   \* the bytes the far CPU writes, none of them zero
    BitLengths,             \* near clocks in which the far board sends a bit
    MaxHold,                \* bound: edges of one access
    MaxGap                  \* bound: clocks from readchar's read to its clear

\* Clocks from the start of a frame to the sample of its k-th bit.
Sampled(k) ==
    maxPreScaler - (maxPreScaler * 2) \div 3 + (k - 1) * (maxPreScaler + 1)

\* The far clock is near enough that every bit is sampled while it is on the
\* line, and readchar is done with a byte before the next one can be complete.
ASSUME BoardsAssumption ==
    /\ Sent \subseteq Bytes \ {Zero} /\ MaxHold \in Nat /\ MaxGap \in Nat
    /\ \A length \in BitLengths :
           /\ length \in Nat /\ length > 4
           /\ \A k \in 1 .. FrameBits :
                  Sampled(k) \in (k - 1) * length .. k * length - 1
           /\ MaxGap + MaxHold + 1 <= FrameBits * length

VARIABLES
    bitLength, ftx, fbus,   \* the far board
    pc, held, c,            \* where readchar is, for how long, what it has read
    pending,                \* bytes ftx has taken and rx has not received
    unread,                 \* the byte in rxBuff that readchar has not read
    age,                    \* clocks since it arrived
    late                    \* the last byte was read when it was Shortest old

far == <<bitLength, ftx, fbus>>
history == <<pending, unread, age, late>>
bVars == <<tx, rx, rxd, bus, far, pc, held, c, history>>

Far(prescaler) ==
    INSTANCE Uart WITH maxPreScaler <- prescaler, tx <- ftx, bus <- fbus

SomeBytes ==
    {[n \in 1 .. DataBits |-> n % 2], [n \in 1 .. DataBits |-> n \div DataBits]}

BInit ==
    /\ Init
    /\ bitLength \in BitLengths /\ ftx = tx /\ fbus = Idle
    /\ pc = "poll" /\ held = 0 /\ c = Zero
    /\ pending = <<>> /\ unread = Zero /\ age = 0 /\ late = FALSE

-----------------------------------------------------------------------------
\* A write lasts any number of edges: it starts a frame only once unless it
\* outlasts the frame.
FarCpu == fbus' \in {Idle} \cup {[addr |-> "tx", dIn |-> byte] : byte \in Sent}

FarBoard ==
    /\ \E length \in BitLengths :
           length = bitLength /\ Far(length - 1)!Transmit
    /\ FarCpu
    /\ rxd' = ftx'.txShift[1]
    /\ UNCHANGED bitLength

Poll == pc = "poll" /\ pc' \in {"poll", "read"} /\ held' = 0 /\ UNCHANGED <<c, bus>>

\* The CPU takes the byte on the last edge of the read.
Read ==
    /\ pc = "read" /\ UNCHANGED bus
    /\ \/ held < MaxHold /\ held' = held + 1 /\ UNCHANGED <<pc, c>>
       \/ /\ c' = rx.rxBuff /\ held' = 0
          /\ pc' = IF rx.rxBuff # Zero THEN "clear" ELSE "poll"

Clear ==
    /\ pc = "clear" /\ UNCHANGED c
    /\ \/ bus = Idle /\ held < MaxGap /\ held' = held + 1 /\ UNCHANGED <<pc, bus>>
       \/ bus = Idle /\ held' = 0 /\ bus' = [addr |-> "rx", dIn |-> c] /\ UNCHANGED pc
       \/ bus # Idle /\ held < MaxHold /\ held' = held + 1 /\ UNCHANGED <<pc, bus>>
       \/ bus # Idle /\ held' = 0 /\ bus' = Idle /\ pc' = "poll"

readchar == Poll \/ Read \/ Clear

Returns == pc = "read" /\ pc' = "clear"

-----------------------------------------------------------------------------
\* A byte that waits this long has the next one complete before its clear:
\* the shortest time between two bytes, less the time of readchar.
Shortest ==
    FrameBits * (CHOOSE l \in BitLengths : \A m \in BitLengths : l <= m)
        - (MaxGap + MaxHold + 1)

Taken == ftx.txCnt = 0 /\ ftx'.txCnt # 0

Follow ==
    /\ pending' = (IF Complete THEN Tail(pending) ELSE pending)
                  \o (IF Taken THEN <<fbus.dIn>> ELSE <<>>)
    /\ unread' = IF Complete THEN Tail(rx.rxShift)
                 ELSE IF Returns THEN Zero ELSE unread
    /\ age' = IF Complete \/ unread' = Zero THEN 0
              ELSE IF age < Shortest THEN age + 1 ELSE age
    /\ late' = IF Returns THEN age = Shortest ELSE late

BNext == Clock /\ FarBoard /\ readchar /\ Follow

BSpec == BInit /\ [][BNext]_bVars

-----------------------------------------------------------------------------
\* The near board receives exactly the bytes the far transmitter has taken,
\* each once, in order and with its value, wherever in its tolerance the far
\* clock is; a write to the busy transmitter neither disturbs the byte on the
\* line nor sends anything.
TakenBytesArrive ==
    Complete => pending # <<>> /\ Tail(rx.rxShift) = Head(pending)

\* An unread byte stays in rxBuff: readchar, which reads and then clears,
\* destroys one only if it had let the byte before it wait for almost a
\* whole frame.
LostOnlyByLatePolling == unread # Zero /\ rx.rxBuff # unread => late
=============================================================================
