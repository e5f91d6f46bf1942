-------------------------------- MODULE Ps2If --------------------------------
(***************************************************************************)
(* The PS/2 receiver (rtl/periph/ps2if.vhd) and a keyboard on its two wires.*)
(*                                                                         *)
(* One step is one rising edge of clk: the debounce registers shift, the   *)
(* receiver takes one step of its state machine, and the keyboard goes on  *)
(* with its frame.  The clock wire is low when either side pulls it down.  *)
(***************************************************************************)
EXTENDS Integers, Sequences, FiniteSets

CONSTANTS
    DebounceLen,            \* bits of a debounce register: 8
    DataBits,               \* bits of a code: 8
    maxTimeout,             \* clocks without a bit that end a frame
    Codes,                  \* codes the keyboard sends, sequences of bits
    MinPhase, MaxPhase,     \* clocks the keyboard holds its clock low, or high
    MinGap, MaxGap          \* clocks of high clock before it starts a frame

ASSUME Ps2Assumption ==
    /\ DebounceLen \in Nat \ {0} /\ DataBits \in Nat \ {0}
    /\ maxTimeout \in Nat /\ maxTimeout > 1
    /\ Codes \subseteq [1 .. DataBits -> {0, 1}]
    /\ MinPhase \in Nat \ {0} /\ MaxPhase \in Nat /\ MinPhase <= MaxPhase
    /\ MinGap \in Nat \ {0} /\ MaxGap \in Nat /\ MinGap <= MaxGap

VARIABLES
    clkLine, dataLine,      \* ps2clkDebounce, ps2dataDebounce: [level, run]
    rx,                     \* the receiver's registers
    kbd                     \* the keyboard: its frame, phase and age of it

vars == <<clkLine, dataLine, rx, kbd>>

FrameBits == DataBits + 3
Start == 0
ParityBit == DataBits + 1
StopBit == DataBits + 2

Xor(a, b) == (a + b) % 2

-----------------------------------------------------------------------------
(***************************************************************************)
(* The wires and the debounce registers, of which the receiver sees only   *)
(* whether all bits agree: the latest level and how many samples had it.   *)
(***************************************************************************)

\* The receiver holds the clock low to stop the keyboard after a frame.
Inhibits == rx.timeout < maxTimeout \div 2 /\ rx.bitCount = FrameBits

ps2clk == IF Inhibits \/ kbd.phase = "low" THEN 0 ELSE 1
ps2data == kbd.bit

Sample(line, level) ==
    IF line.level # level THEN [level |-> level, run |-> 1]
    ELSE IF line.run = DebounceLen THEN line
    ELSE [line EXCEPT !.run = @ + 1]

Stable(line) == line.run = DebounceLen
ps2clkL == Stable(clkLine) /\ clkLine.level = 0
ps2clkH == Stable(clkLine) /\ clkLine.level = 1

Debounce ==
    /\ clkLine' = Sample(clkLine, ps2clk)
    /\ dataLine' = Sample(dataLine, ps2data)

-----------------------------------------------------------------------------
(***************************************************************************)
(* The receiver.  intData(7) is the bit taken last.                        *)
(***************************************************************************)
lastBit == rx.intData[DataBits]

\* A slip: only a complete frame is ended by the timeout.
PartKept ==
    LET r == [rx EXCEPT !.rcvd = 0,
                  !.state = IF ps2clkL /\ rx.bitCount # FrameBits THEN "low" ELSE @]
    IN IF rx.timeout # 0 THEN [r EXCEPT !.timeout = @ - 1]
       ELSE IF rx.bitCount = FrameBits THEN [r EXCEPT !.bitCount = 0, !.parity = 1]
       ELSE r

\* A slip: the timeout ends only a frame that was cut off.
CompleteKept ==
    LET r == [rx EXCEPT !.rcvd = 0,
                  !.state = IF ps2clkL /\ rx.bitCount # FrameBits THEN "low" ELSE @]
    IN IF rx.timeout # 0 THEN [r EXCEPT !.timeout = @ - 1]
       ELSE IF rx.bitCount = FrameBits THEN r
       ELSE [r EXCEPT !.bitCount = 0, !.parity = 1]

WaitLow ==
    LET r == [rx EXCEPT !.rcvd = 0,
                  !.state = IF ps2clkL /\ rx.bitCount # FrameBits THEN "low" ELSE @]
    IN IF rx.timeout # 0 THEN [r EXCEPT !.timeout = @ - 1]
       ELSE [r EXCEPT !.bitCount = 0, !.parity = 1]

\* A slip: the timeout is not started again by a bit.
LowTimeoutKept ==
    IF Stable(dataLine)
    THEN [rx EXCEPT !.rcvd = 0, !.state = "waitHigh",
                    !.intData = Append(Tail(@), dataLine.level)]
    ELSE [rx EXCEPT !.rcvd = 0]

Low ==
    LET r == [rx EXCEPT !.rcvd = 0, !.timeout = maxTimeout]
    IN IF Stable(dataLine)
       THEN [r EXCEPT !.state = "waitHigh",
                      !.intData = Append(Tail(@), dataLine.level)]
       ELSE r

WaitHigh ==
    [rx EXCEPT !.rcvd = 0, !.state = IF ps2clkH THEN "high" ELSE @]

\* A bit is taken: the start bit opens the frame, the last data bit completes
\* the code, parity and stop bits are checked, and the stop bit reports.
High ==
    [rx EXCEPT !.state = "waitLow",
        !.parity = Xor(@, lastBit),
        !.rcvd = IF rx.bitCount = StopBit THEN 1 ELSE 0,
        !.bitCount = IF @ < FrameBits THEN @ + 1 ELSE @,
        !.data = IF rx.bitCount = DataBits THEN rx.intData ELSE @,
        !.error = CASE rx.bitCount = Start     -> lastBit
                    [] rx.bitCount = ParityBit -> IF rx.parity # lastBit THEN 1 ELSE @
                    [] rx.bitCount = StopBit   -> IF lastBit = 0 THEN 1 ELSE @
                    [] OTHER                   -> @]

Receive ==
    rx' = CASE rx.state = "waitLow"  -> WaitLow
            [] rx.state = "low"      -> Low
            [] rx.state = "waitHigh" -> WaitHigh
            [] rx.state = "high"     -> High

-----------------------------------------------------------------------------
(***************************************************************************)
(* The keyboard: start bit, data, odd parity, stop bit, each on the wire   *)
(* while it holds the clock low.  It starts a frame only after the clock   *)
(* has been high for MinGap; when it finds the clock held low before the   *)
(* next bit it gives the frame up and sends it again.                      *)
(***************************************************************************)
Parity(code) == (1 + Cardinality({n \in 1 .. DataBits : code[n] = 1})) % 2

\* The bits of a frame; a disturbance on the wire flips the parity bit.
Frame(code, flip) == <<0>> \o code \o <<Xor(Parity(code), flip), 1>>

Capped(n, bound) == IF n < bound THEN n + 1 ELSE n

Quiet ==
    /\ kbd.phase = "idle"
    /\ kbd' = [kbd EXCEPT !.age = IF ps2clk = 0 THEN 0 ELSE Capped(@, MaxGap)]

\* A frame given up is sent again.
StartFrame ==
    /\ kbd.phase = "idle" /\ ps2clk = 1 /\ kbd.age >= MinGap
    /\ \E code \in Codes, flip \in {0, 1} :
           LET f == IF kbd.frame = <<>> THEN Frame(code, flip) ELSE kbd.frame IN
           kbd' = [phase |-> "low", age |-> 1, frame |-> f, sent |-> 1, bit |-> f[1]]

HoldLow ==
    /\ kbd.phase = "low" /\ kbd.age < MaxPhase
    /\ kbd' = [kbd EXCEPT !.age = @ + 1]

\* The clock rises; after the stop bit the frame is complete.
Rise ==
    /\ kbd.phase = "low" /\ kbd.age >= MinPhase
    /\ kbd' = IF kbd.sent < FrameBits
              THEN [kbd EXCEPT !.phase = "high", !.age = 1]
              ELSE [kbd EXCEPT !.phase = "idle", !.age = 0, !.frame = <<>>, !.bit = 1]

HoldHigh ==
    /\ kbd.phase = "high" /\ kbd.age < MaxPhase
    /\ kbd' = [kbd EXCEPT !.age = @ + 1]

NextBit ==
    /\ kbd.phase = "high" /\ kbd.age >= MinPhase /\ ps2clk = 1
    /\ kbd' = [kbd EXCEPT !.phase = "low", !.age = 1, !.sent = @ + 1,
                          !.bit = kbd.frame[kbd.sent + 1]]

GiveUp ==
    /\ kbd.phase = "high" /\ ps2clk = 0
    /\ kbd' = [kbd EXCEPT !.phase = "idle", !.age = 0, !.bit = 1]

Keyboard ==
    Quiet \/ StartFrame \/ HoldLow \/ Rise \/ HoldHigh \/ NextBit \/ GiveUp

-----------------------------------------------------------------------------
\* parity, intData, data and error have no initial value; the clock wire is
\* idle, and the debounce registers start at zero.
Init ==
    /\ clkLine = [level |-> 0, run |-> DebounceLen]
    /\ dataLine = [level |-> 0, run |-> DebounceLen]
    /\ \E parity \in {0, 1} :
           rx = [state |-> "waitLow", bitCount |-> 0, timeout |-> maxTimeout,
                 intData |-> [n \in 1 .. DataBits |-> 0], parity |-> parity,
                 data |-> [n \in 1 .. DataBits |-> 0], error |-> 0, rcvd |-> 0]
    /\ kbd = [phase |-> "idle", age |-> 0, frame |-> <<>>, sent |-> 0, bit |-> 1]

Next == Debounce /\ Receive /\ Keyboard

Spec == Init /\ [][Next]_vars
=============================================================================
