--------------------------- MODULE Ps2FramesProofs ---------------------------
(***************************************************************************)
(* Theorems of MCPs2Frames for every length of the debounce registers, of  *)
(* the codes and of the keyboard's times within ResyncAssumption.          *)
(*                                                                         *)
(* The inductive invariant says where the receiver can be while the        *)
(* keyboard is idle (QuietInv), after each clock of a clean frame (LowInv, *)
(* HighInv), between the end of a clean frame and its report (PendingInv), *)
(* and behind the report (SettledInv).                                     *)
(***************************************************************************)
EXTENDS MCPs2Frames, FiniteSetTheorems, TLAPS

Levels == {0, 1}
Lines == [level : Levels, run : 1 .. DebounceLen]
Words == [1 .. DataBits -> Levels]
Frames == {Frame(code, flip) : code \in Codes, flip \in Levels}

TypeOK ==
    /\ clkLine \in Lines /\ dataLine \in Lines
    /\ rx \in [state : {"waitLow", "low", "waitHigh", "high"},
               bitCount : 0 .. FrameBits, timeout : 0 .. maxTimeout,
               intData : Words, parity : Levels, data : Words,
               error : Levels, rcvd : Levels]
    /\ rx.state # "waitLow" => rx.rcvd = 0
    /\ clean \in BOOLEAN /\ dirty \in BOOLEAN
    /\ waited \in Nat /\ expected \in Frames \cup {None}

KbdInv ==
    /\ kbd \in [phase : {"idle", "low", "high"}, age : Nat, frame : Frames \cup {<<>>},
                sent : 0 .. FrameBits, bit : Levels]
    /\ IF kbd.phase = "idle" THEN kbd.bit = 1
       ELSE /\ kbd.frame # <<>> /\ kbd.sent >= 1 /\ kbd.bit = kbd.frame[kbd.sent]
            /\ kbd.age \in 1 .. MaxPhase
    /\ kbd.phase = "high" => kbd.sent < FrameBits

-----------------------------------------------------------------------------
\* The last n samples of a line were v; and the sample before them was not.
Held(line, v, n) == n >= 1 => line.level = v /\ (line.run >= n \/ Stable(line))
Since(line, v, n) ==
    IF n = 0 THEN Stable(line) /\ line.level = 1 - v
    ELSE line.level = v /\ line.run = IF n < DebounceLen THEN n ELSE DebounceLen

\* The first k bits of a frame are in intData, or accounted for, in registers r.
Stored(r, f, k) ==
    \A i \in 1 .. DataBits : k + i > DataBits => r.intData[i] = f[k + i - DataBits]

Ones(f, k) == {n \in 1 .. DataBits : n < k /\ f[n + 1] = 1}
Flip(f) == IF Disturbed(f) THEN 1 ELSE 0

Taken(r, f, k) ==
    /\ k <= DataBits + 1 => r.parity = (1 + Cardinality(Ones(f, k))) % 2
    /\ k > DataBits => r.data = Code(f)
    /\ k > 0 => r.error = IF k <= ParityBit THEN 0 ELSE Flip(f)

\* While the clock is high and nothing comes the receiver comes to rest.
QuietInv ==
    kbd.phase = "idle" =>
        /\ Held(clkLine, 1, kbd.age) /\ Held(dataLine, 1, kbd.age)
        /\ kbd.age > DebounceLen => rx.state # "low"
        /\ kbd.age > DebounceLen + 1 => rx.state # "waitHigh"
        /\ kbd.age > DebounceLen + 2 =>
               /\ rx.state = "waitLow"
               /\ rx.timeout + kbd.age <= maxTimeout + DebounceLen + 3 \/ rx.timeout = 0

LowInv ==
    LET a == kbd.age
        n == kbd.sent
    IN  clean /\ kbd.phase = "low" =>
            /\ Since(clkLine, 0, a - 1) /\ Held(dataLine, kbd.bit, a - 1)
            /\ rx.rcvd = 0
            /\ a <= DebounceLen + 1 =>
                   /\ rx.state = "waitLow"
                   /\ n = 1 => rx.bitCount # FrameBits
                               /\ (rx.timeout + a <= DebounceLen + 1 \/ rx.timeout = 0)
                   /\ n > 1 => rx.timeout + a > DebounceLen + 2
            /\ a = DebounceLen + 2 => rx.state = "low"
            /\ a > DebounceLen + 2 => rx.state = "waitHigh" /\ rx.timeout = maxTimeout
            /\ n > 1 \/ a > DebounceLen + 1 =>
                   /\ rx.bitCount = n - 1
                   /\ Taken(rx, kbd.frame, n - 1)
                   /\ Stored(rx, kbd.frame, IF a > DebounceLen + 2 THEN n ELSE n - 1)

HighInv ==
    LET b == kbd.age
        n == kbd.sent
    IN  clean /\ kbd.phase = "high" =>
            /\ Since(clkLine, 1, b - 1)
            /\ rx.rcvd = 0 /\ Stored(rx, kbd.frame, n)
            /\ IF b <= DebounceLen + 2
               THEN /\ rx.state = IF b <= DebounceLen + 1 THEN "waitHigh" ELSE "high"
                    /\ rx.bitCount = n - 1 /\ rx.timeout = maxTimeout
                    /\ Taken(rx, kbd.frame, n - 1)
               ELSE /\ rx.state = "waitLow"
                    /\ rx.bitCount = n /\ rx.timeout = maxTimeout + DebounceLen + 3 - b
                    /\ Taken(rx, kbd.frame, n)

PendingInv ==
    expected # None =>
        /\ kbd.phase = "idle" /\ kbd.age = waited /\ waited <= DebounceLen + 2
        /\ ~dirty
        /\ IF waited <= DebounceLen + 1
           THEN /\ rx.state = IF waited <= DebounceLen THEN "waitHigh" ELSE "high"
                /\ Since(clkLine, 1, waited)
                /\ rx.bitCount = StopBit
                /\ Stored(rx, expected, FrameBits) /\ Taken(rx, expected, StopBit)
           ELSE /\ rx.state = "waitLow" /\ rx.rcvd = 1
                /\ rx.bitCount = FrameBits /\ Taken(rx, expected, FrameBits)

\* A bit that the receiver has taken from its own hold stays the only one.
SettledInv ==
    kbd.phase = "idle" /\ ~dirty /\ expected = None =>
        /\ rx.rcvd = 0 /\ rx.bitCount \in {0, 1, FrameBits}
        /\ rx.bitCount # 0 => rx.state = "waitLow"
        /\ rx.bitCount = 1 \/ rx.state = "high" => clkLine.level = 1

HistoryInv ==
    /\ clean => kbd.phase # "idle" /\ ~dirty /\ expected = None
    /\ kbd.phase # "idle" /\ ~clean => dirty

Inv ==
    /\ TypeOK /\ KbdInv /\ QuietInv /\ LowInv /\ HighInv
    /\ PendingInv /\ SettledInv /\ HistoryInv

-----------------------------------------------------------------------------
(***************************************************************************)
(* Numbers, lines and frames.                                              *)
(***************************************************************************)
LEMMA Times ==
    /\ DebounceLen \in Nat /\ DebounceLen >= 1
    /\ DataBits \in Nat /\ DataBits >= 1
    /\ FrameBits = DataBits + 3 /\ Start = 0 /\ ParityBit = DataBits + 1
    /\ StopBit = DataBits + 2
    /\ maxTimeout \in Nat /\ maxTimeout \div 2 \in Nat
    /\ MinPhase \in Nat /\ MaxPhase \in Nat /\ MinGap \in Nat /\ MaxGap \in Nat
    /\ Resync \in Nat /\ Resync <= MaxGap
    /\ DebounceLen + 2 <= MinPhase /\ DebounceLen + 2 <= MinGap /\ MinGap <= MaxGap
    /\ MaxPhase <= maxTimeout /\ DebounceLen + 1 < maxTimeout \div 2
    /\ maxTimeout + 2 <= Resync /\ MinPhase <= MaxPhase
BY Ps2Assumption, ResyncAssumption DEF FrameBits, Start, ParityBit, StopBit

\* What a sample does to a line that has had its level for n samples.
LEMMA Sampled ==
    ASSUME NEW line \in Lines, NEW v \in Levels, NEW n \in Nat
    PROVE  /\ Sample(line, v) \in Lines /\ Sample(line, v).level = v
           /\ Held(line, v, n) => Held(Sample(line, v), v, n + 1)
           /\ Since(line, v, n) => Since(Sample(line, v), v, n + 1)
           /\ Since(line, v, n) /\ n >= DebounceLen => Since(Sample(line, v), 1 - v, 0)
<1> USE DEF Lines, Levels, Stable
<1>1. Sample(line, v) \in Lines /\ Sample(line, v).level = v
  BY Times DEF Sample
<1>2. Sample(line, v).run = IF line.level # v THEN 1
                            ELSE IF line.run = DebounceLen THEN DebounceLen ELSE line.run + 1
  BY Times DEF Sample
<1>3. Held(line, v, n) => Held(Sample(line, v), v, n + 1)
  BY <1>1, <1>2, Times DEF Held
<1>4. Since(line, v, n) => Since(Sample(line, v), v, n + 1)
  BY <1>1, <1>2, Times DEF Since
<1>5. Since(line, v, n) /\ n >= DebounceLen => Since(Sample(line, v), 1 - v, 0)
  BY <1>1, <1>2, Times DEF Since
<1> QED BY <1>1, <1>3, <1>4, <1>5

\* A line is stable once it has had its level for long enough, and not before.
LEMMA Stability ==
    ASSUME NEW line \in Lines, NEW v \in Levels, NEW n \in Nat
    PROVE  /\ Held(line, v, n) /\ n >= DebounceLen => Stable(line) /\ line.level = v
           /\ Since(line, v, n) /\ n >= DebounceLen => Stable(line) /\ line.level = v
           /\ Since(line, v, n) /\ n < DebounceLen => ~(Stable(line) /\ line.level = v)
BY Times DEF Lines, Levels, Stable, Held, Since

\* The bits of a frame.
LEMMA FrameShape ==
    ASSUME NEW f \in Frames
    PROVE  /\ \A k \in 1 .. FrameBits : f[k] \in Levels
           /\ f # <<>> /\ f[1] = 0 /\ f[FrameBits] = 1
           /\ Code(f) \in Words /\ \A i \in 1 .. DataBits : Code(f)[i] = f[i + 1]
<1>1. PICK code \in Codes, flip \in Levels : f = Frame(code, flip)
  BY DEF Frames
<1>2. code \in Seq({0, 1}) /\ Len(code) = DataBits /\ \A i \in 1 .. DataBits : code[i] \in {0, 1}
  BY Ps2Assumption, Times
<1>3. Parity(code) \in {0, 1}
  <2>0. IsFiniteSet(1 .. DataBits)
    BY FS_Interval, Times
  <2>1. IsFiniteSet({n \in 1 .. DataBits : code[n] = 1})
    BY <2>0, FS_Subset
  <2>2. Cardinality({n \in 1 .. DataBits : code[n] = 1}) \in Nat
    BY <2>1, FS_CardinalityType
  <2> QED BY <2>2 DEF Parity
<1>4. Xor(Parity(code), flip) \in {0, 1}
  BY <1>3 DEF Xor, Levels
<1> DEFINE p == Xor(Parity(code), flip)
<1>5. f = <<0>> \o code \o <<p, 1>>
  BY <1>1 DEF Frame
<1>6. /\ f \in Seq({0, 1}) /\ Len(f) = FrameBits /\ f[1] = 0 /\ f[FrameBits] = 1
      /\ f[DataBits + 2] = p /\ \A i \in 1 .. DataBits : f[i + 1] = code[i]
  <2> HIDE DEF p
  <2>1. p \in {0, 1}
    BY <1>4 DEF p
  <2> DEFINE g == <<0>> \o code
  <2>2. /\ g \in Seq({0, 1}) /\ Len(g) = DataBits + 1 /\ g[1] = 0
        /\ \A i \in 1 .. DataBits : g[i + 1] = code[i]
    BY <1>2, Times
  <2>3. f = g \o <<p, 1>>
    BY <1>5
  <2> HIDE DEF g
  <2>4. <<p, 1>> \in Seq({0, 1}) /\ Len(<<p, 1>>) = 2 /\ <<p, 1>>[1] = p /\ <<p, 1>>[2] = 1
    BY <2>1
  <2>5. /\ f \in Seq({0, 1}) /\ Len(f) = DataBits + 3
        /\ \A i \in 1 .. DataBits + 1 : f[i] = g[i]
        /\ f[DataBits + 2] = p /\ f[DataBits + 3] = 1
    BY <2>2, <2>3, <2>4, Times
  <2> QED BY <2>2, <2>5, Times
<1>7. \A k \in 1 .. FrameBits : f[k] \in Levels
  BY <1>6 DEF Levels
<1>8. f # <<>>
  BY <1>6, Times
<1>9. /\ Code(f) \in Words /\ \A i \in 1 .. DataBits : Code(f)[i] = f[i + 1]
  <2>1. Code(f) = [i \in 1 .. DataBits |-> f[i + 1]]
    BY <1>6, Times DEF Code
  <2>2. \A i \in 1 .. DataBits : f[i + 1] \in Levels
    BY <1>7, Times
  <2> QED BY <2>1, <2>2 DEF Words
<1> QED BY <1>6, <1>7, <1>8, <1>9

\* Ones counts the data bits among the first k bits; with all of them it is
\* what the parity is made from.
LEMMA OnesCounted ==
    ASSUME NEW f \in Frames
    PROVE  /\ \A k \in Nat : Cardinality(Ones(f, k)) \in Nat
           /\ Cardinality(Ones(f, 0)) = 0 /\ Cardinality(Ones(f, 1)) = 0
           /\ \A k \in 1 .. DataBits :
                  Cardinality(Ones(f, k + 1)) = Cardinality(Ones(f, k)) + f[k + 1]
           /\ Parity(Code(f)) = (1 + Cardinality(Ones(f, DataBits + 1))) % 2
<1>1. \A k \in Nat : IsFiniteSet(Ones(f, k))
  BY FS_Interval, FS_Subset, Times DEF Ones
<1>2. \A k \in Nat : Cardinality(Ones(f, k)) \in Nat
  BY <1>1, FS_CardinalityType
<1>3. Ones(f, 0) = {} /\ Ones(f, 1) = {}
  BY Times DEF Ones
<1>4. Cardinality(Ones(f, 0)) = 0 /\ Cardinality(Ones(f, 1)) = 0
  BY <1>3, FS_EmptySet
<1>5. ASSUME NEW k \in 1 .. DataBits
      PROVE  Cardinality(Ones(f, k + 1)) = Cardinality(Ones(f, k)) + f[k + 1]
  <2>1. k \notin Ones(f, k) /\ IsFiniteSet(Ones(f, k)) /\ Cardinality(Ones(f, k)) \in Nat
    BY <1>1, <1>2, Times DEF Ones
  <2>2. f[k + 1] \in {0, 1}
    BY FrameShape, Times DEF Levels
  <2>3. CASE f[k + 1] = 1
    <3>1. Ones(f, k + 1) = Ones(f, k) \cup {k}
      BY <2>3, Times DEF Ones
    <3> QED BY <3>1, <2>1, <2>3, FS_AddElement
  <2>4. CASE f[k + 1] = 0
    <3>1. Ones(f, k + 1) = Ones(f, k)
      BY <2>4, Times DEF Ones
    <3> QED BY <3>1, <2>1, <2>4
  <2> QED BY <2>2, <2>3, <2>4
<1>6. Ones(f, DataBits + 1) = {n \in 1 .. DataBits : Code(f)[n] = 1}
  BY FrameShape, Times DEF Ones
<1> QED BY <1>2, <1>4, <1>5, <1>6 DEF Parity

-----------------------------------------------------------------------------
(***************************************************************************)
(* One step of each actor, field by field.                                 *)
(***************************************************************************)
\* Shifting a bit into intData.
LEMMA Shifted ==
    ASSUME NEW w \in Words, NEW b \in Levels
    PROVE  /\ Append(Tail(w), b) \in Words
           /\ Append(Tail(w), b)[DataBits] = b
           /\ \A i \in 1 .. DataBits - 1 : Append(Tail(w), b)[i] = w[i + 1]
<1>1. w \in Seq({0, 1}) /\ Len(w) = DataBits /\ w # <<>>
  BY Times DEF Words, Levels
<1>2. /\ Tail(w) \in Seq({0, 1}) /\ Len(Tail(w)) = DataBits - 1
      /\ \A i \in 1 .. DataBits - 1 : Tail(w)[i] = w[i + 1]
  BY <1>1, Times
<1>3. /\ Append(Tail(w), b) \in Seq({0, 1}) /\ Len(Append(Tail(w), b)) = DataBits
      /\ Append(Tail(w), b)[DataBits] = b
      /\ \A i \in 1 .. DataBits - 1 : Append(Tail(w), b)[i] = Tail(w)[i]
  BY <1>2, Times DEF Levels
<1>4. Append(Tail(w), b) \in Words
  <2> DEFINE x == Append(Tail(w), b)
  <2>1. x \in Seq({0, 1}) /\ Len(x) = DataBits
    BY <1>3
  <2> HIDE DEF x
  <2>2. x \in [1 .. Len(x) -> {0, 1}]
    BY <2>1
  <2>3. x \in Words
    BY <2>1, <2>2 DEF Words, Levels
  <2> QED BY <2>3 DEF x
<1> QED BY <1>2, <1>3, <1>4

RxFields ==
    [state : {"waitLow", "low", "waitHigh", "high"},
     bitCount : 0 .. FrameBits, timeout : 0 .. maxTimeout,
     intData : Words, parity : Levels, data : Words, error : Levels, rcvd : Levels]

LEMMA WaitLowStep ==
    ASSUME TypeOK, Receive, rx.state = "waitLow"
    PROVE  /\ rx' \in RxFields /\ rx'.rcvd = 0
           /\ rx'.state = IF ps2clkL /\ rx.bitCount # FrameBits THEN "low" ELSE "waitLow"
           /\ rx'.intData = rx.intData /\ rx'.data = rx.data /\ rx'.error = rx.error
           /\ rx.timeout # 0 => /\ rx'.timeout = rx.timeout - 1
                                /\ rx'.bitCount = rx.bitCount /\ rx'.parity = rx.parity
           /\ rx.timeout = 0 => rx'.timeout = 0 /\ rx'.bitCount = 0 /\ rx'.parity = 1
<1>1. rx \in RxFields
  BY DEF TypeOK, RxFields
<1>2. rx' = WaitLow
  BY DEF Receive
<1> DEFINE s == IF ps2clkL /\ rx.bitCount # FrameBits THEN "low" ELSE "waitLow"
<1>3. rx' = IF rx.timeout # 0
            THEN [rx EXCEPT !.rcvd = 0, !.state = s, !.timeout = rx.timeout - 1]
            ELSE [rx EXCEPT !.rcvd = 0, !.state = s, !.bitCount = 0, !.parity = 1]
  BY <1>1, <1>2 DEF WaitLow, RxFields
<1>4. s \in {"waitLow", "low"}
  OBVIOUS
<1> HIDE DEF s
<1>5. rx.timeout # 0 => rx.timeout - 1 \in 0 .. maxTimeout
  BY <1>1, Times DEF RxFields
<1>6. 0 \in 0 .. FrameBits /\ 0 \in Levels /\ 1 \in Levels
  BY Times DEF Levels
<1>7. rx' \in RxFields /\ rx'.rcvd = 0 /\ rx'.state = s
  BY <1>1, <1>3, <1>4, <1>5, <1>6 DEF RxFields
<1>8. rx'.intData = rx.intData /\ rx'.data = rx.data /\ rx'.error = rx.error
  BY <1>1, <1>3 DEF RxFields
<1>9. /\ rx.timeout # 0 => /\ rx'.timeout = rx.timeout - 1
                           /\ rx'.bitCount = rx.bitCount /\ rx'.parity = rx.parity
      /\ rx.timeout = 0 => rx'.timeout = 0 /\ rx'.bitCount = 0 /\ rx'.parity = 1
  BY <1>1, <1>3 DEF RxFields
<1> QED BY <1>7, <1>8, <1>9 DEF s

LEMMA LowStep ==
    ASSUME TypeOK, Receive, rx.state = "low"
    PROVE  /\ rx' \in RxFields /\ rx'.rcvd = 0
           /\ rx'.bitCount = rx.bitCount /\ rx'.timeout = maxTimeout
           /\ rx'.parity = rx.parity /\ rx'.data = rx.data /\ rx'.error = rx.error
           /\ rx'.state \in {"low", "waitHigh"}
           /\ Stable(dataLine) => rx'.state = "waitHigh"
                                  /\ rx'.intData = Append(Tail(rx.intData), dataLine.level)
<1>1. rx \in RxFields
  BY DEF TypeOK, RxFields
<1>2. rx' = Low
  BY DEF Receive
<1> DEFINE w == Append(Tail(rx.intData), dataLine.level)
<1>3. w \in Words
  BY <1>1, Shifted DEF RxFields, TypeOK, Lines
<1>4. rx' = IF Stable(dataLine)
            THEN [rx EXCEPT !.rcvd = 0, !.timeout = maxTimeout, !.state = "waitHigh",
                            !.intData = w]
            ELSE [rx EXCEPT !.rcvd = 0, !.timeout = maxTimeout]
  BY <1>1, <1>2 DEF Low, RxFields
<1> HIDE DEF w
<1>5. maxTimeout \in 0 .. maxTimeout /\ 0 \in Levels
  BY Times DEF Levels
<1>6. rx' \in RxFields /\ rx'.rcvd = 0
  BY <1>1, <1>3, <1>4, <1>5 DEF RxFields
<1>7. /\ rx'.bitCount = rx.bitCount /\ rx'.timeout = maxTimeout
      /\ rx'.parity = rx.parity /\ rx'.data = rx.data /\ rx'.error = rx.error
      /\ rx'.state \in {"low", "waitHigh"}
      /\ Stable(dataLine) => rx'.state = "waitHigh" /\ rx'.intData = w
  BY <1>1, <1>4 DEF RxFields
<1> QED BY <1>6, <1>7 DEF w

LEMMA WaitHighStep ==
    ASSUME TypeOK, Receive, rx.state = "waitHigh"
    PROVE  /\ rx' \in RxFields /\ rx'.rcvd = 0
           /\ rx'.state = IF ps2clkH THEN "high" ELSE "waitHigh"
           /\ rx'.bitCount = rx.bitCount /\ rx'.timeout = rx.timeout
           /\ rx'.parity = rx.parity /\ rx'.data = rx.data /\ rx'.error = rx.error
           /\ rx'.intData = rx.intData
<1>1. rx \in RxFields
  BY DEF TypeOK, RxFields
<1>2. rx' = WaitHigh
  BY DEF Receive
<1>3. 0 \in Levels
  BY DEF Levels
<1> QED BY <1>1, <1>2, <1>3 DEF WaitHigh, RxFields

LEMMA HighStep ==
    ASSUME TypeOK, Receive, rx.state = "high"
    PROVE  /\ rx' \in RxFields
           /\ rx'.state = "waitLow" /\ rx'.timeout = rx.timeout
           /\ rx'.intData = rx.intData
           /\ rx'.parity = (rx.parity + lastBit) % 2
           /\ rx'.rcvd = IF rx.bitCount = StopBit THEN 1 ELSE 0
           /\ rx'.bitCount = IF rx.bitCount < FrameBits THEN rx.bitCount + 1 ELSE rx.bitCount
           /\ rx'.data = IF rx.bitCount = DataBits THEN rx.intData ELSE rx.data
           /\ rx.bitCount = Start => rx'.error = lastBit
           /\ rx.bitCount = ParityBit =>
                  rx'.error = IF rx.parity # lastBit THEN 1 ELSE rx.error
           /\ rx.bitCount = StopBit => rx'.error = IF lastBit = 0 THEN 1 ELSE rx.error
           /\ rx.bitCount \notin {Start, ParityBit, StopBit} => rx'.error = rx.error
<1>1. rx \in RxFields
  BY DEF TypeOK, RxFields
<1>2. rx' = High
  BY DEF Receive
<1>3. lastBit \in Levels
  BY <1>1, Times DEF lastBit, RxFields, Words
<1> DEFINE p == (rx.parity + lastBit) % 2
           r == IF rx.bitCount = StopBit THEN 1 ELSE 0
           c == IF rx.bitCount < FrameBits THEN rx.bitCount + 1 ELSE rx.bitCount
           d == IF rx.bitCount = DataBits THEN rx.intData ELSE rx.data
           e == CASE rx.bitCount = Start     -> lastBit
                  [] rx.bitCount = ParityBit -> IF rx.parity # lastBit THEN 1 ELSE rx.error
                  [] rx.bitCount = StopBit   -> IF lastBit = 0 THEN 1 ELSE rx.error
                  [] OTHER                   -> rx.error
<1>4. rx' = [rx EXCEPT !.state = "waitLow", !.parity = p, !.rcvd = r, !.bitCount = c,
                       !.data = d, !.error = e]
  BY <1>1, <1>2 DEF High, Xor, RxFields
<1>5. Start # ParityBit /\ Start # StopBit /\ ParityBit # StopBit
  BY Times
<1>6. /\ rx.bitCount = Start => e = lastBit
      /\ rx.bitCount = ParityBit => e = IF rx.parity # lastBit THEN 1 ELSE rx.error
      /\ rx.bitCount = StopBit => e = IF lastBit = 0 THEN 1 ELSE rx.error
      /\ rx.bitCount \notin {Start, ParityBit, StopBit} => e = rx.error
  BY <1>5
<1>7. p \in Levels
  BY <1>1, <1>3 DEF RxFields, Levels
<1>8. r \in Levels /\ c \in 0 .. FrameBits /\ d \in Words
  BY <1>1, Times DEF RxFields, Levels
<1>9. e \in Levels
  BY <1>1, <1>3, <1>6 DEF RxFields, Levels
<1> HIDE DEF p, r, c, d, e
<1>10. /\ rx' \in RxFields
       /\ rx'.state = "waitLow" /\ rx'.timeout = rx.timeout /\ rx'.intData = rx.intData
       /\ rx'.parity = p /\ rx'.rcvd = r /\ rx'.bitCount = c /\ rx'.data = d /\ rx'.error = e
  BY <1>1, <1>4, <1>7, <1>8, <1>9 DEF RxFields
<1> QED BY <1>6, <1>10 DEF p, r, c, d

\* The keyboard goes on with its frame, field by field.
KbdFields ==
    [phase : {"idle", "low", "high"}, age : Nat, frame : Frames \cup {<<>>},
     sent : 0 .. FrameBits, bit : Levels]

LEMMA QuietStep ==
    ASSUME KbdInv, Quiet
    PROVE  /\ kbd.phase = "idle" /\ kbd' \in KbdFields /\ kbd'.phase = "idle"
           /\ kbd'.bit = 1
           /\ kbd'.age = IF ps2clk = 0 THEN 0
                         ELSE IF kbd.age < MaxGap THEN kbd.age + 1 ELSE kbd.age
BY DEF KbdInv, KbdFields, Quiet, Capped

LEMMA StartStep ==
    ASSUME KbdInv, StartFrame
    PROVE  /\ kbd.phase = "idle" /\ ps2clk = 1 /\ kbd.age >= MinGap
           /\ kbd' \in KbdFields /\ kbd'.phase = "low" /\ kbd'.age = 1
           /\ kbd'.sent = 1 /\ kbd'.frame \in Frames /\ kbd'.bit = kbd'.frame[1]
<1>1. PICK code \in Codes, flip \in {0, 1} :
          LET f == IF kbd.frame = <<>> THEN Frame(code, flip) ELSE kbd.frame IN
          kbd' = [phase |-> "low", age |-> 1, frame |-> f, sent |-> 1, bit |-> f[1]]
  BY DEF StartFrame
<1> DEFINE f == IF kbd.frame = <<>> THEN Frame(code, flip) ELSE kbd.frame
<1>2. f \in Frames
  BY DEF Frames, Levels, KbdInv
<1> HIDE DEF f
<1>3. f[1] \in Levels /\ 1 \in 0 .. FrameBits
  BY <1>2, FrameShape, Times
<1>4. kbd' = [phase |-> "low", age |-> 1, frame |-> f, sent |-> 1, bit |-> f[1]]
  BY <1>1 DEF f
<1> QED BY <1>2, <1>3, <1>4 DEF KbdFields, StartFrame

LEMMA HoldStep ==
    ASSUME KbdInv, HoldLow \/ HoldHigh
    PROVE  /\ kbd.phase \in {"low", "high"} /\ kbd.age < MaxPhase
           /\ kbd' \in KbdFields /\ kbd'.phase = kbd.phase /\ kbd'.age = kbd.age + 1
           /\ kbd'.sent = kbd.sent /\ kbd'.frame = kbd.frame /\ kbd'.bit = kbd.bit
BY DEF KbdInv, KbdFields, HoldLow, HoldHigh

LEMMA RiseStep ==
    ASSUME KbdInv, Rise
    PROVE  /\ kbd.phase = "low" /\ kbd.age >= MinPhase /\ kbd' \in KbdFields
           /\ kbd.sent < FrameBits =>
                  /\ kbd'.phase = "high" /\ kbd'.age = 1 /\ kbd'.sent = kbd.sent
                  /\ kbd'.frame = kbd.frame /\ kbd'.bit = kbd.bit
           /\ kbd.sent >= FrameBits =>
                  /\ kbd.sent = FrameBits
                  /\ kbd'.phase = "idle" /\ kbd'.age = 0 /\ kbd'.bit = 1
<1>1. kbd \in KbdFields
  BY DEF KbdInv, KbdFields
<1>2. kbd.phase = "low" /\ kbd.age >= MinPhase
  BY DEF Rise
<1>3. CASE kbd.sent < FrameBits
  <2>1. kbd' = [kbd EXCEPT !.phase = "high", !.age = 1]
    BY <1>3 DEF Rise
  <2>2. ~(kbd.sent >= FrameBits)
    BY <1>1, <1>3, Times DEF KbdFields
  <2>3. /\ kbd' \in KbdFields
        /\ kbd'.phase = "high" /\ kbd'.age = 1 /\ kbd'.sent = kbd.sent
        /\ kbd'.frame = kbd.frame /\ kbd'.bit = kbd.bit
    BY <1>1, <2>1 DEF KbdFields
  <2> QED BY <1>2, <2>2, <2>3
<1>4. CASE ~(kbd.sent < FrameBits)
  <2>1. kbd' = [kbd EXCEPT !.phase = "idle", !.age = 0, !.frame = <<>>, !.bit = 1]
    BY <1>4 DEF Rise
  <2>2. kbd.sent = FrameBits
    BY <1>1, <1>4, Times DEF KbdFields
  <2>3. /\ kbd' \in KbdFields
        /\ kbd'.phase = "idle" /\ kbd'.age = 0 /\ kbd'.bit = 1
    BY <1>1, <2>1 DEF KbdFields, Levels
  <2> QED BY <1>2, <1>4, <2>2, <2>3
<1> QED BY <1>3, <1>4

LEMMA NextBitStep ==
    ASSUME KbdInv, NextBit
    PROVE  /\ kbd.phase = "high" /\ kbd.age >= MinPhase /\ kbd' \in KbdFields
           /\ kbd'.phase = "low" /\ kbd'.age = 1 /\ kbd'.sent = kbd.sent + 1
           /\ kbd.sent < FrameBits
           /\ kbd'.frame = kbd.frame /\ kbd'.bit = kbd.frame[kbd.sent + 1]
<1>1. kbd \in KbdFields /\ kbd.sent < FrameBits /\ kbd.sent >= 1 /\ kbd.frame \in Frames
  BY DEF KbdInv, KbdFields, NextBit
<1>2. kbd.frame[kbd.sent + 1] \in Levels /\ kbd.sent + 1 \in 0 .. FrameBits
  BY <1>1, FrameShape, Times DEF KbdFields
<1> QED BY <1>1, <1>2 DEF NextBit, KbdFields

LEMMA GiveUpStep ==
    ASSUME KbdInv, GiveUp
    PROVE  /\ kbd.phase = "high" /\ ps2clk = 0 /\ kbd' \in KbdFields
           /\ kbd'.phase = "idle" /\ kbd'.age = 0 /\ kbd'.bit = 1
BY DEF KbdInv, KbdFields, GiveUp, Levels

\* The keyboard's part of the invariant needs nothing of the receiver.
LEMMA KbdStep ==
    ASSUME KbdInv, Keyboard
    PROVE  KbdInv'
<1> USE DEF KbdFields
<1>1. CASE Quiet
  BY <1>1, QuietStep DEF KbdInv
<1>2. CASE StartFrame
  BY <1>2, StartStep, FrameShape, Times DEF KbdInv
<1>3. CASE HoldLow \/ HoldHigh
  BY <1>3, HoldStep, Times DEF KbdInv
<1>4. CASE Rise
  BY <1>4, RiseStep, Times DEF KbdInv
<1>5. CASE NextBit
  BY <1>5, NextBitStep, FrameShape, Times DEF KbdInv
<1>6. CASE GiveUp
  BY <1>6, GiveUpStep DEF KbdInv
<1> QED BY <1>1, <1>2, <1>3, <1>4, <1>5, <1>6 DEF Keyboard

\* The wires and the receiver keep their types, whatever the keyboard does.
LEMMA Rx ==
    ASSUME TypeOK, Receive
    PROVE  rx' \in RxFields /\ (rx'.state # "waitLow" => rx'.rcvd = 0)
<1>1. rx.state \in {"waitLow", "low", "waitHigh", "high"}
  BY DEF TypeOK
<1> QED BY <1>1, WaitLowStep, LowStep, WaitHighStep, HighStep

LEMMA Wires ==
    ASSUME KbdInv
    PROVE  /\ ps2clk \in Levels /\ ps2data \in Levels
           /\ kbd.phase = "low" => ps2clk = 0
           /\ kbd.phase # "low" => (ps2clk = 0 <=> Inhibits)
           /\ rx.bitCount # FrameBits => ~Inhibits
           /\ ps2data = kbd.bit
BY DEF ps2clk, ps2data, KbdInv, Levels, Inhibits

LEMMA TypeStep ==
    ASSUME TypeOK, KbdInv, HNext
    PROVE  TypeOK'
<1>1. rx' \in RxFields /\ (rx'.state # "waitLow" => rx'.rcvd = 0)
  BY Rx DEF HNext, Next
<1>2. clkLine' \in Lines /\ dataLine' \in Lines
  BY Wires, Sampled DEF HNext, Next, Debounce, TypeOK
<1>3. expected' \in Frames \cup {None}
  <2>1. Complete => kbd.frame \in Frames
    BY DEF Complete, KbdInv
  <2> QED BY <2>1 DEF HNext, TypeOK
<1>4. waited' \in Nat /\ clean' \in BOOLEAN /\ dirty' \in BOOLEAN
  <2>1. waited' \in Nat
    BY DEF HNext, TypeOK
  <2>2. (kbd.age >= Resync) \in BOOLEAN /\ (clean /\ kbd'.phase # "idle") \in BOOLEAN
    OBVIOUS
  <2>3. clean' \in BOOLEAN
    BY <2>2, ZenonT(40) DEF HNext
  <2>4. (dirty \/ (kbd'.phase # "idle" /\ ~clean')) \in BOOLEAN
    OBVIOUS
  <2>5. dirty' \in BOOLEAN
    BY <2>4, ZenonT(40) DEF HNext
  <2> QED BY <2>1, <2>3, <2>5
<1> QED BY <1>1, <1>2, <1>3, <1>4 DEF TypeOK, RxFields

-----------------------------------------------------------------------------
(***************************************************************************)
(* The bits of a frame, one after the other.                               *)
(***************************************************************************)
LEMMA BitStored ==
    ASSUME NEW f \in Frames, NEW k \in 0 .. StopBit, NEW r, NEW s, r.intData \in Words,
           Stored(r, f, k), s.intData = Append(Tail(r.intData), f[k + 1])
    PROVE  Stored(s, f, k + 1)
<1>1. f[k + 1] \in Levels
  BY FrameShape, Times
<1>2. /\ s.intData[DataBits] = f[k + 1]
      /\ \A i \in 1 .. DataBits - 1 : s.intData[i] = r.intData[i + 1]
  <2> DEFINE w == r.intData
             b == f[k + 1]
             x == s.intData
  <2>1. w \in Words /\ b \in Levels /\ x = Append(Tail(w), b)
    BY <1>1
  <2> HIDE DEF w, b, x
  <2>2. /\ Append(Tail(w), b)[DataBits] = b
        /\ \A i \in 1 .. DataBits - 1 : Append(Tail(w), b)[i] = w[i + 1]
    BY <2>1, Shifted
  <2>3. x[DataBits] = b /\ \A i \in 1 .. DataBits - 1 : x[i] = w[i + 1]
    BY <2>1, <2>2
  <2> QED BY <2>3 DEF w, b, x
<1>3. ASSUME NEW i \in 1 .. DataBits, k + 1 + i > DataBits
      PROVE  s.intData[i] = f[k + 1 + i - DataBits]
  <2>1. CASE i = DataBits
    <3>1. k + 1 + i - DataBits = k + 1
      BY <2>1, Times
    <3> QED BY <2>1, <3>1, <1>2
  <2>2. CASE i # DataBits
    <3>1. i \in 1 .. DataBits - 1 /\ i + 1 \in 1 .. DataBits /\ k + (i + 1) > DataBits
      BY <2>2, <1>3, Times
    <3>2. r.intData[i + 1] = f[k + (i + 1) - DataBits]
      BY <3>1 DEF Stored
    <3>3. k + (i + 1) - DataBits = k + 1 + i - DataBits
      BY Times
    <3> QED BY <1>2, <3>1, <3>2, <3>3
  <2> QED BY <2>1, <2>2
<1> QED BY <1>3 DEF Stored

\* The bit that is taken is the bit of the frame whose turn it is, and the
\* registers say of k + 1 bits what they have said of k.
LEMMA BitTaken ==
    ASSUME TypeOK, Receive, rx.state = "high",
           NEW f \in Frames, NEW k \in 0 .. StopBit, rx.bitCount = k,
           Stored(rx, f, k + 1), Taken(rx, f, k)
    PROVE  Taken(rx', f, k + 1)
<1> DEFINE C(j) == Cardinality(Ones(f, j))
<1>1. lastBit = f[k + 1] /\ f[k + 1] \in {0, 1}
  <2>1. (k + 1) + DataBits > DataBits /\ (k + 1) + DataBits - DataBits = k + 1
        /\ DataBits \in 1 .. DataBits /\ k + 1 \in 1 .. FrameBits
    BY Times
  <2>2. rx.intData[DataBits] = f[k + 1]
    BY <2>1 DEF Stored
  <2> QED BY <2>1, <2>2, FrameShape DEF lastBit, Levels
<1>2. k + 1 <= DataBits + 1 => rx'.parity = (1 + C(k + 1)) % 2
  <2> SUFFICES ASSUME k + 1 <= DataBits + 1 PROVE rx'.parity = (1 + C(k + 1)) % 2
    OBVIOUS
  <2>1. rx.parity = (1 + C(k)) % 2 /\ rx'.parity = (rx.parity + f[k + 1]) % 2
    BY HighStep, <1>1, Times DEF Taken
  <2>2. C(k) \in Nat
    BY OnesCounted, Times
  <2>3. C(k + 1) = C(k) + f[k + 1]
    <3>1. CASE k = 0
      <4>1. C(0) = 0 /\ C(1) = 0 /\ f[1] = 0
        BY OnesCounted, FrameShape
      <4> QED BY <3>1, <4>1
    <3>2. CASE k # 0
      BY <3>2, OnesCounted, Times
    <3> QED BY <3>1, <3>2
  <2> HIDE DEF C
  <2>4. (((1 + C(k)) % 2) + f[k + 1]) % 2 = (1 + (C(k) + f[k + 1])) % 2
    BY <1>1, <2>2, SMTT(30)
  <2> QED BY <2>1, <2>3, <2>4
<1>3. k + 1 > DataBits => rx'.data = Code(f)
  <2>1. CASE k = DataBits
    <3>1. rx'.data = rx.intData /\ rx.intData \in Words
      BY <2>1, HighStep DEF TypeOK
    <3>2. ASSUME NEW i \in 1 .. DataBits PROVE rx.intData[i] = Code(f)[i]
      <4>1. (k + 1) + i > DataBits /\ (k + 1) + i - DataBits = i + 1
        BY <2>1, Times
      <4>2. rx.intData[i] = f[i + 1]
        BY <4>1 DEF Stored
      <4> QED BY <4>2, FrameShape
    <3>3. Code(f) \in Words
      BY FrameShape
    <3>4. rx.intData = Code(f)
      <4> DEFINE w == rx.intData
                 c == Code(f)
      <4>1. w \in Words /\ c \in Words /\ \A i \in 1 .. DataBits : w[i] = c[i]
        BY <3>1, <3>2, <3>3
      <4> HIDE DEF w, c
      <4>2. w = c
        <5>1. w = [i \in 1 .. DataBits |-> w[i]] /\ c = [i \in 1 .. DataBits |-> c[i]]
          BY <4>1 DEF Words
        <5> QED BY <4>1, <5>1, ZenonT(40)
      <4> QED BY <4>2 DEF w, c
    <3> QED BY <3>1, <3>4
  <2>2. CASE k # DataBits
    BY <2>2, HighStep, Times DEF Taken
  <2> QED BY <2>1, <2>2
<1>4. rx'.error = IF k + 1 <= ParityBit THEN 0 ELSE Flip(f)
  <2>1. CASE k = Start
    BY <2>1, <1>1, FrameShape, HighStep, Times
  <2>2. CASE k \in 1 .. DataBits
    BY <2>2, HighStep, Times DEF Taken
  <2>3. CASE k = ParityBit
    <3>1. rx.parity = Parity(Code(f)) /\ rx.error = 0
      BY <2>3, OnesCounted, Times DEF Taken
    <3>2. rx'.error = IF rx.parity # f[DataBits + 2] THEN 1 ELSE 0
      BY <2>3, <1>1, <3>1, HighStep, Times
    <3>3. rx'.error = Flip(f)
      BY <3>1, <3>2 DEF Flip, Disturbed
    <3> QED BY <2>3, <3>3, Times
  <2>4. CASE k = StopBit
    <3>1. lastBit = 1 /\ rx.error = Flip(f)
      BY <2>4, <1>1, FrameShape, Times DEF Taken
    <3> QED BY <2>4, <3>1, HighStep, Times
  <2> QED BY <2>1, <2>2, <2>3, <2>4, Times
<1> QED BY <1>2, <1>3, <1>4 DEF Taken

\* Nothing has been taken before the start bit.
LEMMA NoneTaken ==
    ASSUME NEW f \in Frames, NEW r, r.parity = 1
    PROVE  Taken(r, f, 0) /\ Stored(r, f, 0)
<1>1. (1 + Cardinality(Ones(f, 0))) % 2 = 1
  BY OnesCounted
<1> QED BY <1>1, Times DEF Taken, Stored

LEMMA SameTaken ==
    ASSUME NEW f, NEW k, NEW r, NEW s, Taken(r, f, k),
           s.parity = r.parity, s.data = r.data, s.error = r.error
    PROVE  Taken(s, f, k)
BY DEF Taken

LEMMA SameStored ==
    ASSUME NEW f, NEW k, NEW r, NEW s, Stored(r, f, k), s.intData = r.intData
    PROVE  Stored(s, f, k)
BY DEF Stored

-----------------------------------------------------------------------------
(***************************************************************************)
(* The parts of the invariant that a step may disturb.                     *)
(***************************************************************************)
\* What the keyboard does in each of its phases.
LEMMA Phases ==
    ASSUME KbdInv, HNext
    PROVE  /\ kbd.phase = "idle" => Quiet \/ StartFrame
           /\ kbd.phase = "low" => HoldLow \/ Rise
           /\ kbd.phase = "high" => HoldHigh \/ NextBit \/ GiveUp
BY DEF HNext, Next, Keyboard, Quiet, StartFrame, HoldLow, Rise, HoldHigh, NextBit, GiveUp

\* The samples of a step, and what the receiver sees of the ones before.
LEMMA Samples ==
    ASSUME TypeOK, KbdInv, HNext, NEW n \in Nat
    PROVE  /\ clkLine'.level = ps2clk
           /\ \A v \in Levels : ps2clk = v =>
                  /\ Held(clkLine, v, n) => Held(clkLine', v, n + 1)
                  /\ Since(clkLine, v, n) => Since(clkLine', v, n + 1)
                  /\ Since(clkLine, v, n) /\ n >= DebounceLen => Since(clkLine', 1 - v, 0)
           /\ Held(dataLine, kbd.bit, n) => Held(dataLine', kbd.bit, n + 1)
<1>1. clkLine \in Lines /\ dataLine \in Lines /\ ps2clk \in Levels /\ kbd.bit \in Levels
  BY Wires DEF TypeOK
<1>2. clkLine' = Sample(clkLine, ps2clk) /\ dataLine' = Sample(dataLine, kbd.bit)
  BY Wires DEF HNext, Next, Debounce
<1> QED BY <1>1, <1>2, Sampled

\* An idle keyboard and a high clock bring the receiver to rest.
LEMMA QuietKept ==
    ASSUME Inv, HNext
    PROVE  QuietInv'
<1> USE DEF Inv
<1>0. kbd.age \in Nat /\ Receive
  BY DEF KbdInv, HNext, Next
<1>1. CASE Quiet /\ ps2clk = 1
  <2> DEFINE a == kbd.age
  <2>1. /\ kbd.phase = "idle" /\ kbd'.phase = "idle" /\ kbd.bit = 1
        /\ kbd'.age = IF a < MaxGap THEN a + 1 ELSE a
    BY <1>1, QuietStep DEF KbdInv
  <2>2. /\ Held(clkLine, 1, a) /\ Held(dataLine, 1, a)
        /\ a > DebounceLen => rx.state # "low"
        /\ a > DebounceLen + 1 => rx.state # "waitHigh"
        /\ a > DebounceLen + 2 =>
               /\ rx.state = "waitLow"
               /\ rx.timeout + a <= maxTimeout + DebounceLen + 3 \/ rx.timeout = 0
    BY <2>1 DEF QuietInv
  <2>3. Held(clkLine', 1, a + 1) /\ Held(dataLine', 1, a + 1)
    BY <1>0, <1>1, <2>1, <2>2, Samples DEF Levels
  <2>4. Held(clkLine', 1, kbd'.age) /\ Held(dataLine', 1, kbd'.age)
    <3>1. clkLine' \in Lines /\ dataLine' \in Lines
      BY TypeStep DEF TypeOK
    <3> QED BY <1>0, <2>1, <2>3, <3>1, Times DEF Held, Lines
  <2>5. a >= DebounceLen => ps2clkH /\ ~ps2clkL /\ Stable(dataLine)
    BY <1>0, <2>2, Stability DEF TypeOK, ps2clkH, ps2clkL, Levels
  <2>6. rx.state \in {"waitLow", "low", "waitHigh", "high"} /\ rx.timeout \in 0 .. maxTimeout
    BY DEF TypeOK
  <2>7. kbd'.age \in Nat /\ kbd'.age <= a + 1 /\ (kbd'.age > DebounceLen + 3 => a > DebounceLen + 2)
        /\ (kbd'.age > DebounceLen + 2 => a > DebounceLen + 1)
        /\ (kbd'.age > DebounceLen + 1 => a > DebounceLen)
        /\ (kbd'.age > DebounceLen => a >= DebounceLen)
    BY <1>0, <2>1, Times
  <2>8. a >= DebounceLen => rx'.state # "low"
    BY <1>0, <2>5, <2>6, WaitLowStep, LowStep, WaitHighStep, HighStep
  <2>9. a > DebounceLen => rx'.state # "waitHigh"
    BY <1>0, <2>2, <2>5, <2>6, WaitLowStep, WaitHighStep, HighStep, Times
  <2>10. ASSUME kbd'.age > DebounceLen + 2
         PROVE  /\ rx'.state = "waitLow"
                /\ rx'.timeout + kbd'.age <= maxTimeout + DebounceLen + 3 \/ rx'.timeout = 0
    <3>1. a > DebounceLen + 1 /\ rx.state \in {"waitLow", "high"}
      BY <1>0, <2>2, <2>6, <2>7, <2>10, Times
    <3>2. rx'.state = "waitLow"
      BY <1>0, <2>5, <3>1, WaitLowStep, HighStep, Times
    <3>3. rx'.timeout <= maxTimeout /\ rx'.timeout \in Nat
      BY Rx, <1>0 DEF RxFields
    <3>4. CASE a = DebounceLen + 2
      BY <2>7, <3>2, <3>3, <3>4, Times
    <3>5. CASE a > DebounceLen + 2
      <4>1. rx.state = "waitLow"
            /\ (rx.timeout + a <= maxTimeout + DebounceLen + 3 \/ rx.timeout = 0)
        BY <2>2, <3>5
      <4>2. rx'.timeout = IF rx.timeout # 0 THEN rx.timeout - 1 ELSE 0
        BY <1>0, <4>1, WaitLowStep
      <4> QED BY <1>0, <2>6, <2>7, <3>2, <4>1, <4>2, Times
    <3> QED BY <1>0, <3>1, <3>4, <3>5, Times
  <2> HIDE DEF a
  <2> QED BY <2>4, <2>7, <2>8, <2>9, <2>10, <1>0, Times DEF QuietInv, a
<1>2. CASE kbd'.phase = "idle" => kbd'.age = 0
  BY <1>2, Times DEF QuietInv, Held
<1>3. Quiet /\ ps2clk # 1 => kbd'.age = 0
  BY QuietStep, Wires DEF Levels
<1>4. kbd.phase \in {"idle", "low", "high"} /\ kbd.sent \in 0 .. FrameBits
  BY DEF KbdInv
<1>5. HoldLow \/ HoldHigh => kbd'.phase # "idle"
  BY HoldStep
<1> QED BY <1>1, <1>2, <1>3, <1>4, <1>5, Phases, StartStep, RiseStep, NextBitStep, GiveUpStep, Times

\* A clean frame finds the receiver at rest, with its timeout all but over.
LEMMA CleanStart ==
    ASSUME Inv, HNext, StartFrame, kbd.age >= Resync
    PROVE  LowInv'
<1> USE DEF Inv
<1>0. kbd.age \in Nat /\ Receive /\ rx.timeout \in 0 .. maxTimeout
  BY DEF KbdInv, HNext, Next, TypeOK
<1>1. /\ kbd.phase = "idle" /\ ps2clk = 1
      /\ kbd'.phase = "low" /\ kbd'.age = 1 /\ kbd'.sent = 1
  BY StartStep
<1>2. /\ Held(clkLine, 1, kbd.age) /\ rx.state = "waitLow"
      /\ rx.timeout <= DebounceLen + 1
  BY <1>0, <1>1, Times DEF QuietInv
<1>3. rx.bitCount # FrameBits
  BY <1>0, <1>1, <1>2, Wires, Times DEF Inhibits
<1>4. Held(clkLine', 1, kbd.age + 1)
  BY <1>0, <1>1, <1>2, Samples DEF Levels
<1>5. Since(clkLine', 0, 0) /\ Held(dataLine', kbd'.bit, 0)
  <2>1. clkLine' \in Lines
    BY TypeStep DEF TypeOK
  <2> QED BY <1>0, <1>4, <2>1, Stability, Times DEF Since, Held, Levels
<1>6. ~ps2clkL
  BY <1>0, <1>2, Stability, Times DEF TypeOK, ps2clkL, Levels
<1>7. /\ rx'.state = "waitLow" /\ rx'.rcvd = 0
      /\ rx'.bitCount # FrameBits
      /\ rx'.timeout + 1 <= DebounceLen + 1 \/ rx'.timeout = 0
  BY <1>0, <1>2, <1>3, <1>6, WaitLowStep, Times
<1> QED BY <1>1, <1>5, <1>7, Times DEF LowInv

\* While the clock is low the receiver sees it, and the bit, and waits.
LEMMA CleanHoldLow ==
    ASSUME Inv, HNext, HoldLow, clean
    PROVE  LowInv'
<1> USE DEF Inv
<1> DEFINE a == kbd.age
           n == kbd.sent
<1>0. /\ a \in Nat /\ a >= 1 /\ Receive /\ rx.timeout \in 0 .. maxTimeout
      /\ n \in 1 .. FrameBits /\ rx \in RxFields
  BY DEF KbdInv, HNext, Next, TypeOK, HoldLow, RxFields
<1>1. PICK f \in Frames : f = kbd.frame
  BY DEF KbdInv, HoldLow
<1>2. /\ kbd.phase = "low" /\ ps2clk = 0 /\ kbd'.phase = "low"
      /\ kbd'.age = a + 1 /\ kbd'.sent = n /\ kbd'.frame = f /\ kbd'.bit = kbd.bit
      /\ kbd.bit = f[n]
  BY <1>1, HoldStep, Wires DEF HoldLow, KbdInv
<1>3. /\ Since(clkLine, 0, a - 1) /\ Held(dataLine, kbd.bit, a - 1)
      /\ a <= DebounceLen + 1 =>
             /\ rx.state = "waitLow"
             /\ n = 1 => rx.bitCount # FrameBits
                         /\ (rx.timeout + a <= DebounceLen + 1 \/ rx.timeout = 0)
             /\ n > 1 => rx.timeout + a > DebounceLen + 2
      /\ a = DebounceLen + 2 => rx.state = "low"
      /\ a > DebounceLen + 2 => rx.state = "waitHigh" /\ rx.timeout = maxTimeout
      /\ n > 1 \/ a > DebounceLen + 1 =>
             /\ rx.bitCount = n - 1 /\ Taken(rx, f, n - 1)
             /\ Stored(rx, f, IF a > DebounceLen + 2 THEN n ELSE n - 1)
  BY <1>1, <1>2 DEF LowInv
<1>4. Since(clkLine', 0, a) /\ Held(dataLine', kbd.bit, a)
  <2>1. a - 1 \in Nat /\ (a - 1) + 1 = a
    BY <1>0
  <2> HIDE DEF a
  <2> QED BY <1>2, <1>3, <2>1, Samples DEF Levels
<1>5. /\ a - 1 < DebounceLen => ~ps2clkL
      /\ a - 1 >= DebounceLen => ps2clkL /\ ~ps2clkH
                                 /\ Stable(dataLine) /\ dataLine.level = kbd.bit
  <2>1. a - 1 \in Nat /\ kbd.bit \in Levels
    BY <1>0 DEF KbdInv
  <2> QED BY <1>3, <2>1, Stability DEF TypeOK, ps2clkL, ps2clkH, Levels
<1>6. CASE a <= DebounceLen
  <2>1. rx'.state = "waitLow" /\ rx'.rcvd = 0
    BY <1>0, <1>3, <1>5, <1>6, WaitLowStep, Times
  <2>2. n = 1 => rx'.bitCount # FrameBits
                 /\ (rx'.timeout + (a + 1) <= DebounceLen + 1 \/ rx'.timeout = 0)
    BY <1>0, <1>3, <1>6, WaitLowStep, Times
  <2>3. n > 1 => rx.timeout # 0 /\ rx'.timeout + (a + 1) > DebounceLen + 2
    BY <1>0, <1>3, <1>6, WaitLowStep, Times
  <2>4. n > 1 => rx'.bitCount = n - 1 /\ Taken(rx', f, n - 1) /\ Stored(rx', f, n - 1)
    BY <1>0, <1>3, <1>6, <2>3, WaitLowStep, SameTaken, SameStored, Times
  <2> QED BY <1>0, <1>2, <1>4, <1>6, <2>1, <2>2, <2>3, <2>4, Times DEF LowInv
<1>7. CASE a = DebounceLen + 1
  <2>1. rx'.state = "low" /\ rx'.rcvd = 0
    <3>1. rx.bitCount # FrameBits
      BY <1>0, <1>3, <1>7, Times
    <3> QED BY <1>0, <1>3, <1>5, <1>7, <3>1, WaitLowStep, Times
  <2>2. rx'.bitCount = n - 1 /\ Taken(rx', f, n - 1) /\ Stored(rx', f, n - 1)
    <3>1. CASE n = 1
      <4>1. rx.timeout = 0
        BY <1>0, <1>3, <1>7, <3>1, Times
      <4> QED BY <1>0, <1>3, <1>7, <3>1, <4>1, WaitLowStep, NoneTaken, Times
    <3>2. CASE n > 1
      <4>1. rx.timeout # 0
        BY <1>0, <1>3, <1>7, <3>2, Times
      <4> QED BY <1>0, <1>3, <1>7, <3>2, <4>1, WaitLowStep, SameTaken, SameStored, Times
    <3> QED BY <1>0, <3>1, <3>2
  <2> QED BY <1>0, <1>2, <1>4, <1>7, <2>1, <2>2, Times DEF LowInv
<1>8. CASE a = DebounceLen + 2
  <2>1. /\ rx'.state = "waitHigh" /\ rx'.rcvd = 0 /\ rx'.timeout = maxTimeout
        /\ rx'.bitCount = n - 1 /\ Taken(rx', f, n - 1)
        /\ rx'.intData = Append(Tail(rx.intData), f[(n - 1) + 1])
    <3>1. Stable(dataLine) /\ dataLine.level = f[n] /\ f[n] = f[(n - 1) + 1]
      BY <1>0, <1>2, <1>5, <1>8, Times
    <3>2. rx.state = "low" /\ rx.bitCount = n - 1 /\ Taken(rx, f, n - 1)
      BY <1>0, <1>3, <1>8, Times
    <3>3. /\ rx'.state = "waitHigh" /\ rx'.rcvd = 0 /\ rx'.timeout = maxTimeout
          /\ rx'.bitCount = n - 1
          /\ rx'.intData = Append(Tail(rx.intData), dataLine.level)
          /\ rx'.parity = rx.parity /\ rx'.data = rx.data /\ rx'.error = rx.error
      BY <1>0, <3>1, <3>2, LowStep
    <3>4. Taken(rx', f, n - 1)
      BY <3>2, <3>3, SameTaken
    <3> QED BY <3>1, <3>3, <3>4
  <2>2. Stored(rx', f, n)
    <3>1. n - 1 \in 0 .. StopBit /\ (n - 1) + 1 = n /\ rx.intData \in Words
          /\ Stored(rx, f, n - 1)
      BY <1>0, <1>3, <1>8, Times DEF RxFields
    <3> HIDE DEF n
    <3> QED BY <2>1, <3>1, BitStored
  <2> QED BY <1>0, <1>2, <1>4, <1>8, <2>1, <2>2, Times DEF LowInv
<1>9. CASE a > DebounceLen + 2
  <2>1. /\ rx'.state = "waitHigh" /\ rx'.rcvd = 0 /\ rx'.timeout = maxTimeout
        /\ rx'.bitCount = n - 1 /\ Taken(rx', f, n - 1) /\ Stored(rx', f, n)
    BY <1>0, <1>3, <1>5, <1>9, WaitHighStep, SameTaken, SameStored, Times
  <2> QED BY <1>0, <1>2, <1>4, <1>9, <2>1, Times DEF LowInv
<1> QED BY <1>0, <1>6, <1>7, <1>8, <1>9, Times

\* The next bit finds the receiver waiting for it, with its timeout running.
LEMMA CleanNextBit ==
    ASSUME Inv, HNext, NextBit, clean
    PROVE  LowInv'
<1> USE DEF Inv
<1> DEFINE b == kbd.age
           n == kbd.sent
<1>0. /\ b \in 1 .. MaxPhase /\ Receive /\ n \in 1 .. FrameBits - 1 /\ rx \in RxFields
  <2>1. /\ b \in 1 .. MaxPhase /\ n \in 0 .. FrameBits /\ n >= 1 /\ n < FrameBits
        /\ Receive /\ rx \in RxFields
    BY DEF KbdInv, HNext, Next, TypeOK, NextBit, RxFields
  <2> QED BY <2>1, Times
<1>1. PICK f \in Frames : f = kbd.frame
  BY DEF KbdInv, NextBit
<1>2. /\ kbd.phase = "high" /\ ps2clk = 1 /\ kbd'.phase = "low" /\ b >= DebounceLen + 2
      /\ kbd'.age = 1 /\ kbd'.sent = n + 1 /\ kbd'.frame = f
  <2>1. /\ kbd.phase = "high" /\ kbd'.phase = "low" /\ b >= MinPhase
        /\ kbd'.age = 1 /\ kbd'.sent = n + 1 /\ kbd'.frame = f
    BY <1>1, NextBitStep
  <2>2. ps2clk = 1
    BY DEF NextBit
  <2> QED BY <1>0, <2>1, <2>2, Times
<1>3. /\ Since(clkLine, 1, b - 1)
      /\ Stored(rx, f, n)
      /\ IF b = DebounceLen + 2
         THEN /\ rx.state = "high" /\ rx.bitCount = n - 1 /\ rx.timeout = maxTimeout
              /\ Taken(rx, f, n - 1)
         ELSE /\ rx.state = "waitLow" /\ rx.bitCount = n
              /\ rx.timeout = maxTimeout + DebounceLen + 3 - b /\ Taken(rx, f, n)
  BY <1>0, <1>1, <1>2, Times DEF HighInv
<1>4. Since(clkLine', 0, 0) /\ Held(dataLine', kbd'.bit, 0)
  <2>1. b - 1 \in Nat /\ b - 1 >= DebounceLen
    BY <1>0, <1>2, Times
  <2>2. Since(clkLine', 1 - 1, 0)
    BY <1>2, <1>3, <2>1, Samples DEF Levels
  <2> QED BY <2>2 DEF Held
<1>5. ~ps2clkL
  BY <1>0, <1>2, <1>3, Stability, Times DEF TypeOK, ps2clkL, Levels
<1>6. /\ rx'.state = "waitLow" /\ rx'.rcvd = 0 /\ rx'.bitCount = n
      /\ rx'.timeout >= DebounceLen + 2
      /\ Taken(rx', f, n) /\ Stored(rx', f, n)
  <2>1. CASE b = DebounceLen + 2
    <3>1. n - 1 \in 0 .. StopBit /\ (n - 1) + 1 = n /\ n - 1 # StopBit
      BY <1>0, Times
    <3>2. /\ rx'.state = "waitLow" /\ rx'.rcvd = 0 /\ rx'.bitCount = n
          /\ rx'.timeout = maxTimeout /\ rx'.intData = rx.intData
      <4>1. rx.state = "high" /\ rx.bitCount = n - 1 /\ rx.timeout = maxTimeout
        BY <1>3, <2>1
      <4>2. n - 1 < FrameBits
        BY <1>0, Times
      <4> QED BY <1>0, <3>1, <4>1, <4>2, HighStep
    <3>3. Taken(rx', f, n)
      <4> HIDE DEF n
      <4>1. Stored(rx, f, (n - 1) + 1) /\ Taken(rx, f, n - 1)
            /\ rx.state = "high" /\ rx.bitCount = n - 1
        BY <1>3, <2>1, <3>1
      <4>2. Taken(rx', f, (n - 1) + 1)
        BY <1>0, <3>1, <4>1, BitTaken
      <4> QED BY <3>1, <4>2
    <3> QED BY <1>3, <3>2, <3>3, SameStored, Times
  <2>2. CASE b # DebounceLen + 2
    <3>1. /\ rx.state = "waitLow" /\ rx.bitCount = n /\ rx.timeout # 0
          /\ rx.timeout = maxTimeout + DebounceLen + 3 - b /\ Taken(rx, f, n)
      BY <1>0, <1>3, <2>2, Times
    <3> QED BY <1>0, <1>3, <1>5, <3>1, WaitLowStep, SameTaken, SameStored, Times
  <2> QED BY <2>1, <2>2
<1>7. (n + 1) - 1 = n /\ n + 1 > 1 /\ 1 <= DebounceLen + 1 /\ 1 - 1 = 0
      /\ ~(1 > DebounceLen + 1) /\ 1 # DebounceLen + 2 /\ ~(1 > DebounceLen + 2)
      /\ rx'.timeout + 1 > DebounceLen + 2
  <2>1. rx'.timeout \in Nat
    BY Rx, <1>0 DEF RxFields
  <2> QED BY <1>0, <1>6, <2>1, Times
<1> HIDE DEF n
<1> QED BY <1>2, <1>4, <1>6, <1>7 DEF LowInv

\* When the clock rises the receiver has the bit and waits for the rise.
LEMMA CleanRise ==
    ASSUME Inv, HNext, Rise, clean
    PROVE  /\ Since(clkLine', 1, 0) /\ rx'.state = "waitHigh" /\ rx'.rcvd = 0
           /\ rx'.bitCount = kbd.sent - 1 /\ rx'.timeout = maxTimeout
           /\ Stored(rx', kbd.frame, kbd.sent) /\ Taken(rx', kbd.frame, kbd.sent - 1)
<1> USE DEF Inv
<1> DEFINE a == kbd.age
           n == kbd.sent
<1>0. /\ a \in Nat /\ a >= MinPhase /\ kbd.phase = "low" /\ ps2clk = 0 /\ Receive
      /\ n \in 1 .. FrameBits /\ rx \in RxFields
  BY Wires DEF KbdInv, HNext, Next, TypeOK, Rise, RxFields
<1>1. PICK f \in Frames : f = kbd.frame
  BY DEF KbdInv, Rise
<1>2. a > DebounceLen + 1 /\ a - 1 \in Nat /\ a - 1 >= DebounceLen
  BY <1>0, Times
<1>3. /\ Since(clkLine, 0, a - 1) /\ Held(dataLine, kbd.bit, a - 1)
      /\ kbd.bit = f[n]
      /\ rx.bitCount = n - 1 /\ Taken(rx, f, n - 1)
      /\ IF a > DebounceLen + 2
         THEN rx.state = "waitHigh" /\ rx.timeout = maxTimeout /\ Stored(rx, f, n)
         ELSE rx.state = "low" /\ Stored(rx, f, n - 1)
  <2>1. kbd.bit = f[n]
    BY <1>0, <1>1 DEF KbdInv
  <2>2. a > DebounceLen + 2 \/ a = DebounceLen + 2
    BY <1>0, <1>2, Times
  <2> QED BY <1>0, <1>1, <1>2, <2>1, <2>2 DEF LowInv
<1>4. Since(clkLine', 1, 0)
  <2>1. Since(clkLine', 1 - 0, 0)
    BY <1>0, <1>2, <1>3, Samples DEF Levels
  <2> QED BY <2>1
<1>5. ~ps2clkH /\ Stable(dataLine) /\ dataLine.level = f[n]
  <2>1. kbd.bit \in Levels
    BY DEF KbdInv
  <2> QED BY <1>2, <1>3, <2>1, Stability DEF TypeOK, ps2clkH, Levels
<1>6. CASE a > DebounceLen + 2
  <2>1. rx.state = "waitHigh" /\ rx.timeout = maxTimeout /\ Stored(rx, f, n)
    BY <1>3, <1>6
  <2>2. /\ rx'.state = "waitHigh" /\ rx'.rcvd = 0 /\ rx'.timeout = maxTimeout
        /\ rx'.bitCount = n - 1
        /\ rx'.parity = rx.parity /\ rx'.data = rx.data /\ rx'.error = rx.error
        /\ rx'.intData = rx.intData
    BY <1>0, <1>3, <1>5, <2>1, WaitHighStep
  <2>3. Taken(rx', f, n - 1) /\ Stored(rx', f, n)
    BY <1>3, <2>1, <2>2, SameTaken, SameStored
  <2> QED BY <1>1, <1>4, <2>2, <2>3
<1>7. CASE ~(a > DebounceLen + 2)
  <2>1. rx.state = "low" /\ Stored(rx, f, n - 1)
    BY <1>3, <1>7
  <2>2. /\ rx'.state = "waitHigh" /\ rx'.rcvd = 0 /\ rx'.timeout = maxTimeout
        /\ rx'.bitCount = n - 1
        /\ rx'.parity = rx.parity /\ rx'.data = rx.data /\ rx'.error = rx.error
        /\ rx'.intData = Append(Tail(rx.intData), dataLine.level)
    BY <1>0, <1>3, <1>5, <2>1, LowStep
  <2>3. Taken(rx', f, n - 1)
    BY <1>3, <2>2, SameTaken
  <2>4. n - 1 \in 0 .. StopBit /\ (n - 1) + 1 = n /\ rx.intData \in Words
        /\ rx'.intData = Append(Tail(rx.intData), f[(n - 1) + 1])
    BY <1>0, <1>5, <2>2, Times DEF RxFields
  <2>5. Stored(rx', f, n)
    <3> HIDE DEF n
    <3> QED BY <2>1, <2>4, BitStored
  <2> QED BY <1>1, <1>4, <2>2, <2>3, <2>5
<1> QED BY <1>6, <1>7

\* While the clock is high the receiver sees it and takes the bit.
LEMMA CleanHoldHigh ==
    ASSUME Inv, HNext, HoldHigh, clean
    PROVE  HighInv'
<1> USE DEF Inv
<1> DEFINE b == kbd.age
           n == kbd.sent
<1>0. /\ b \in Nat /\ b >= 1 /\ b < MaxPhase /\ Receive /\ kbd.phase = "high"
      /\ n \in 1 .. FrameBits - 1 /\ rx \in RxFields
  <2>1. /\ b \in Nat /\ b >= 1 /\ b < MaxPhase /\ Receive /\ kbd.phase = "high"
        /\ n \in 0 .. FrameBits /\ n >= 1 /\ n < FrameBits /\ rx \in RxFields
    BY DEF KbdInv, HNext, Next, TypeOK, HoldHigh, RxFields
  <2> QED BY <2>1, Times
<1>1. PICK f \in Frames : f = kbd.frame
  BY DEF KbdInv, HoldHigh
<1>2. /\ Since(clkLine, 1, b - 1) /\ rx.rcvd = 0 /\ Stored(rx, f, n)
      /\ IF b <= DebounceLen + 2
         THEN /\ rx.state = IF b <= DebounceLen + 1 THEN "waitHigh" ELSE "high"
              /\ rx.bitCount = n - 1 /\ rx.timeout = maxTimeout /\ Taken(rx, f, n - 1)
         ELSE /\ rx.state = "waitLow" /\ rx.bitCount = n
              /\ rx.timeout = maxTimeout + DebounceLen + 3 - b /\ Taken(rx, f, n)
  BY <1>0, <1>1 DEF HighInv
<1>3. rx.bitCount # FrameBits
  BY <1>0, <1>2, Times
<1>4. /\ ps2clk = 1 /\ kbd'.phase = "high" /\ kbd'.age = b + 1 /\ kbd'.sent = n
      /\ kbd'.frame = f
  BY <1>0, <1>1, <1>3, HoldStep, Wires DEF Levels
<1>5. Since(clkLine', 1, b)
  <2>1. b - 1 \in Nat /\ (b - 1) + 1 = b
    BY <1>0
  <2> HIDE DEF b
  <2> QED BY <1>2, <1>4, <2>1, Samples DEF Levels
<1>6. /\ b - 1 < DebounceLen => ~ps2clkH
      /\ b - 1 >= DebounceLen => ps2clkH /\ ~ps2clkL
  <2>1. b - 1 \in Nat
    BY <1>0
  <2> QED BY <1>2, <2>1, Stability DEF TypeOK, ps2clkL, ps2clkH, Levels
<1>7. CASE b <= DebounceLen + 1
  <2>1. /\ rx.state = "waitHigh" /\ rx.bitCount = n - 1 /\ rx.timeout = maxTimeout
        /\ Taken(rx, f, n - 1)
    BY <1>0, <1>2, <1>7, Times
  <2>2. /\ rx'.state = IF b <= DebounceLen THEN "waitHigh" ELSE "high"
        /\ rx'.bitCount = n - 1 /\ rx'.timeout = maxTimeout /\ rx'.rcvd = 0
    BY <1>0, <1>6, <1>7, <2>1, WaitHighStep, Times
  <2>3. Taken(rx', f, n - 1) /\ Stored(rx', f, n)
    BY <1>0, <1>2, <2>1, WaitHighStep, SameTaken, SameStored
  <2>4. b + 1 <= DebounceLen + 2 /\ (b + 1 <= DebounceLen + 1 <=> b <= DebounceLen)
        /\ (b + 1) - 1 = b
    BY <1>0, <1>7, Times
  <2> HIDE DEF b, n
  <2> QED BY <1>4, <1>5, <2>2, <2>3, <2>4 DEF HighInv
<1>8. CASE b = DebounceLen + 2
  <2>1. /\ rx.state = "high" /\ rx.bitCount = n - 1 /\ rx.timeout = maxTimeout
        /\ Taken(rx, f, n - 1)
    BY <1>0, <1>2, <1>8, Times
  <2>2. n - 1 \in 0 .. StopBit /\ (n - 1) + 1 = n /\ n - 1 # StopBit /\ n - 1 < FrameBits
    BY <1>0, Times
  <2>3. /\ rx'.state = "waitLow" /\ rx'.bitCount = n /\ rx'.timeout = maxTimeout
        /\ rx'.rcvd = 0 /\ rx'.intData = rx.intData
    BY <1>0, <2>1, <2>2, HighStep
  <2>4. Stored(rx', f, n)
    BY <1>2, <2>3, SameStored
  <2>5. (b + 1) - 1 = b /\ ~(b + 1 <= DebounceLen + 2)
        /\ maxTimeout = maxTimeout + DebounceLen + 3 - (b + 1)
    BY <1>8, Times
  <2> HIDE DEF b, n
  <2>6. Taken(rx', f, (n - 1) + 1)
    BY <1>0, <1>2, <2>1, <2>2, BitTaken
  <2> QED BY <1>4, <1>5, <2>2, <2>3, <2>4, <2>5, <2>6 DEF HighInv
<1>9. CASE b > DebounceLen + 2
  <2>1. /\ rx.state = "waitLow" /\ rx.bitCount = n /\ rx.timeout # 0
        /\ rx.timeout = maxTimeout + DebounceLen + 3 - b /\ Taken(rx, f, n)
        /\ ~ps2clkL
    BY <1>0, <1>2, <1>6, <1>9, Times
  <2>2. /\ rx'.state = "waitLow" /\ rx'.bitCount = n /\ rx'.rcvd = 0
        /\ rx'.timeout = rx.timeout - 1 /\ rx'.intData = rx.intData
        /\ rx'.parity = rx.parity /\ rx'.data = rx.data /\ rx'.error = rx.error
    BY <1>0, <2>1, WaitLowStep
  <2>3. Taken(rx', f, n) /\ Stored(rx', f, n)
    BY <1>2, <2>1, <2>2, SameTaken, SameStored
  <2>4. (b + 1) - 1 = b /\ ~(b + 1 <= DebounceLen + 2)
        /\ rx'.timeout = maxTimeout + DebounceLen + 3 - (b + 1)
    BY <1>0, <1>9, <2>1, <2>2, Times
  <2> HIDE DEF b, n
  <2> QED BY <1>4, <1>5, <2>2, <2>3, <2>4 DEF HighInv
<1> QED BY <1>0, <1>7, <1>8, <1>9, Times

LEMMA LowKept ==
    ASSUME Inv, HNext
    PROVE  LowInv'
<1> SUFFICES ASSUME clean', kbd'.phase = "low" PROVE LowInv'
  BY DEF LowInv
<1>1. KbdInv /\ kbd.phase \in {"idle", "low", "high"} /\ kbd.sent \in 0 .. FrameBits
  BY DEF Inv, KbdInv
<1>2. CASE StartFrame
  <2>1. kbd.age >= Resync
    BY <1>1, <1>2, StartStep DEF HNext
  <2> QED BY <1>2, <2>1, CleanStart
<1>3. CASE HoldLow
  <2>1. clean
    BY <1>3 DEF HNext, HoldLow
  <2> QED BY <1>3, <2>1, CleanHoldLow
<1>4. CASE NextBit
  <2>1. clean
    BY <1>4 DEF HNext, NextBit
  <2> QED BY <1>4, <2>1, CleanNextBit
<1>5. ~Quiet /\ ~Rise /\ ~HoldHigh /\ ~GiveUp
  BY <1>1, QuietStep, RiseStep, HoldStep, GiveUpStep, Times DEF HoldHigh
<1> QED BY <1>2, <1>3, <1>4, <1>5 DEF HNext, Next, Keyboard

LEMMA HighKept ==
    ASSUME Inv, HNext
    PROVE  HighInv'
<1> SUFFICES ASSUME clean', kbd'.phase = "high" PROVE HighInv'
  BY DEF HighInv
<1>1. KbdInv /\ kbd.phase \in {"idle", "low", "high"} /\ kbd.sent \in 0 .. FrameBits
  BY DEF Inv, KbdInv
<1>2. clean
  BY DEF HNext
<1>3. CASE Rise
  <2>1. /\ kbd'.age = 1 /\ kbd'.sent = kbd.sent /\ kbd'.frame = kbd.frame
    BY <1>1, <1>3, RiseStep, Times
  <2>2. 1 <= DebounceLen + 2 /\ 1 <= DebounceLen + 1 /\ 1 - 1 = 0
    BY Times
  <2> QED BY <1>2, <1>3, <2>1, <2>2, CleanRise DEF HighInv
<1>4. CASE HoldHigh
  BY <1>2, <1>4, CleanHoldHigh
<1>5. ~Quiet /\ ~StartFrame /\ ~HoldLow /\ ~NextBit /\ ~GiveUp
  BY <1>1, QuietStep, StartStep, HoldStep, NextBitStep, GiveUpStep DEF HoldLow
<1> QED BY <1>3, <1>4, <1>5 DEF HNext, Next, Keyboard

\* Behind the last bit of a clean frame nothing is missing but the report.
LEMMA PendingKept ==
    ASSUME Inv, HNext
    PROVE  PendingInv'
<1> USE DEF Inv
<1> SUFFICES ASSUME expected' # None PROVE PendingInv'
  BY DEF PendingInv
<1>0. KbdInv /\ TypeOK /\ Receive /\ kbd.phase \in {"idle", "low", "high"}
  BY DEF HNext, Next, KbdInv
<1>1. CASE Complete /\ clean
  <2>1. Rise /\ kbd.sent = FrameBits /\ kbd.frame \in Frames
    <3>1. kbd.phase = "low" /\ kbd'.phase = "idle"
      BY <1>1 DEF Complete
    <3>2. Rise
      BY <1>0, <3>1, Phases, HoldStep
    <3>3. kbd.sent \in 0 .. FrameBits /\ kbd.frame \in Frames
      BY <3>1 DEF KbdInv
    <3> QED BY <1>0, <3>1, <3>2, <3>3, RiseStep, Times
  <2>2. expected' = kbd.frame /\ expected = None /\ waited' = 0 /\ ~dirty'
    <3>1. expected = None /\ ~dirty
      BY <1>1 DEF HistoryInv
    <3>2. kbd'.phase = "idle"
      BY <1>1 DEF Complete
    <3> QED BY <1>1, <3>1, <3>2 DEF HNext
  <2>3. kbd'.phase = "idle" /\ kbd'.age = 0
    BY <2>1, RiseStep, Times
  <2>4. /\ Since(clkLine', 1, 0) /\ rx'.state = "waitHigh"
        /\ rx'.bitCount = FrameBits - 1
        /\ Stored(rx', expected', FrameBits) /\ Taken(rx', expected', FrameBits - 1)
    BY <1>1, <2>1, <2>2, CleanRise
  <2>5. FrameBits - 1 = StopBit /\ 0 <= DebounceLen + 2 /\ 0 <= DebounceLen + 1
        /\ 0 <= DebounceLen
    BY Times
  <2> QED BY <2>2, <2>3, <2>4, <2>5 DEF PendingInv
<1>2. CASE ~(Complete /\ clean)
  <2>1. rx.rcvd # 1 /\ expected' = expected /\ expected # None
    BY <1>2 DEF HNext
  <2>2. PICK f \in Frames : f = expected
    BY <2>1 DEF TypeOK
  <2> DEFINE g == waited
  <2>3. /\ kbd.phase = "idle" /\ kbd.age = g /\ g \in Nat /\ g <= DebounceLen + 1 /\ ~dirty
        /\ rx.state = IF g <= DebounceLen THEN "waitHigh" ELSE "high"
        /\ Since(clkLine, 1, g) /\ rx.bitCount = StopBit
        /\ Stored(rx, f, FrameBits) /\ Taken(rx, f, StopBit)
    BY <2>1, <2>2 DEF PendingInv, TypeOK
  <2>4. Quiet /\ ps2clk = 1
    <3>1. ~StartFrame
      BY <2>3, StartStep, Times
    <3>2. rx.bitCount # FrameBits
      BY <2>3, Times
    <3> QED BY <2>3, <3>1, <3>2, Phases, Wires DEF Levels
  <2>5. kbd'.phase = "idle" /\ kbd'.age = g + 1
    BY <2>3, <2>4, QuietStep, Times
  <2>6. waited' = g + 1 /\ ~dirty' /\ expected' = f
    BY <2>1, <2>2, <2>3, <2>5 DEF HNext
  <2>7. Since(clkLine', 1, g + 1)
    BY <2>3, <2>4, Samples DEF Levels
  <2>8. CASE g <= DebounceLen
    <3>1. rx.state = "waitHigh" /\ (g < DebounceLen => ~ps2clkH) /\ (g = DebounceLen => ps2clkH)
      BY <2>3, <2>8, Stability, Times DEF TypeOK, ps2clkH, Levels
    <3>2. /\ rx'.state = IF g + 1 <= DebounceLen THEN "waitHigh" ELSE "high"
          /\ rx'.bitCount = StopBit /\ rx'.intData = rx.intData
          /\ rx'.parity = rx.parity /\ rx'.data = rx.data /\ rx'.error = rx.error
      BY <1>0, <2>3, <2>8, <3>1, WaitHighStep, Times
    <3>3. Stored(rx', f, FrameBits) /\ Taken(rx', f, StopBit)
      BY <2>3, <3>2, SameTaken, SameStored
    <3>4. g + 1 <= DebounceLen + 2 /\ g + 1 <= DebounceLen + 1
      BY <2>3, <2>8, Times
    <3> HIDE DEF g
    <3> QED BY <2>5, <2>6, <2>7, <3>2, <3>3, <3>4 DEF PendingInv
  <2>9. CASE g = DebounceLen + 1
    <3>1. rx.state = "high"
      BY <2>3, <2>9, Times
    <3>2. StopBit \in 0 .. StopBit /\ StopBit + 1 = FrameBits /\ StopBit < FrameBits
      BY Times
    <3>3. rx'.state = "waitLow" /\ rx'.rcvd = 1 /\ rx'.bitCount = FrameBits
      BY <1>0, <2>3, <3>1, <3>2, HighStep
    <3>4. Taken(rx', f, StopBit + 1)
      BY <1>0, <2>3, <3>1, <3>2, BitTaken
    <3>5. g + 1 <= DebounceLen + 2 /\ ~(g + 1 <= DebounceLen + 1)
      BY <2>9, Times
    <3> HIDE DEF g
    <3> QED BY <2>5, <2>6, <3>2, <3>3, <3>4, <3>5 DEF PendingInv
  <2> QED BY <2>3, <2>8, <2>9, Times
<1> QED BY <1>1, <1>2

LEMMA HistoryKept ==
    ASSUME Inv, HNext
    PROVE  HistoryInv'
<1> USE DEF Inv
<1>0. KbdInv /\ kbd.phase \in {"idle", "low", "high"}
  BY DEF KbdInv
<1>1. clean' => kbd'.phase # "idle"
  BY DEF HNext
<1>2. clean' => ~dirty'
  BY DEF HNext
<1>3. clean' => expected' = None
  <2> SUFFICES ASSUME clean', expected' # None PROVE FALSE
    OBVIOUS
  <2>1. ~Complete /\ rx.rcvd # 1 /\ expected # None
    BY <1>1 DEF HNext, Complete
  <2>2. kbd.phase = "idle" /\ kbd.age = waited /\ waited <= DebounceLen + 1
        /\ kbd.age \in Nat
    BY <2>1 DEF PendingInv, TypeOK, KbdInv
  <2>3. ~StartFrame
    BY <2>2, StartStep, Times
  <2>4. Quiet
    BY <1>0, <2>2, <2>3, Phases
  <2> QED BY <1>1, <2>4, QuietStep
<1>4. kbd'.phase # "idle" /\ ~clean' => dirty'
  BY DEF HNext
<1> QED BY <1>1, <1>2, <1>3, <1>4 DEF HistoryInv

\* When everything is reported, a bit of the receiver's own is the only one it
\* can take while the keyboard is idle.
LEMMA SettledKept ==
    ASSUME Inv, HNext
    PROVE  SettledInv'
<1> USE DEF Inv
<1> SUFFICES ASSUME kbd'.phase = "idle", ~dirty', expected' = None
             PROVE  /\ rx'.rcvd = 0 /\ rx'.bitCount \in {0, 1, FrameBits}
                    /\ rx'.bitCount # 0 => rx'.state = "waitLow"
                    /\ rx'.bitCount = 1 \/ rx'.state = "high" => clkLine'.level = 1
  BY DEF SettledInv
<1>0. KbdInv /\ TypeOK /\ Receive /\ kbd.phase \in {"idle", "low", "high"}
      /\ rx.state \in {"waitLow", "low", "waitHigh", "high"} /\ rx.rcvd \in {0, 1}
      /\ kbd.sent \in 0 .. FrameBits
  BY DEF HNext, Next, KbdInv, TypeOK, Levels
<1>1. ~clean' /\ ~dirty
  BY DEF HNext
<1>2. kbd.phase = "idle" /\ Quiet
  <2>1. CASE kbd.phase = "low"
    <3>1. clean
      BY <1>1, <2>1 DEF HistoryInv
    <3>2. kbd.frame # <<>> /\ Complete
      BY <2>1 DEF KbdInv, Complete
    <3> QED BY <3>1, <3>2 DEF HNext, None
  <2>2. CASE kbd.phase = "high"
    <3>1. clean
      BY <1>1, <2>2 DEF HistoryInv
    <3>2. GiveUp /\ ps2clk = 0
      BY <1>0, <2>2, Phases, HoldStep, NextBitStep, GiveUpStep
    <3>3. rx.bitCount # FrameBits
      <4>1. kbd.sent < FrameBits /\ kbd.sent \in Nat
        BY <1>0, <2>2, Times DEF KbdInv
      <4>2. rx.bitCount = kbd.sent - 1 \/ rx.bitCount = kbd.sent
        BY <2>2, <3>1 DEF HighInv
      <4> QED BY <4>1, <4>2, Times
    <3> QED BY <1>0, <2>2, <3>2, <3>3, Wires
  <2>3. CASE kbd.phase = "idle"
    BY <1>0, <2>3, Phases, StartStep
  <2> QED BY <1>0, <2>1, <2>2, <2>3
<1>3. CASE expected # None
  <2>1. rx.rcvd = 1
    BY <1>2, <1>3 DEF HNext, Complete
  <2>2. rx.state = "waitLow" /\ rx.bitCount = FrameBits
    BY <1>3, <2>1 DEF PendingInv, TypeOK
  <2> QED BY <1>0, <2>2, WaitLowStep, Times
<1>4. CASE expected = None
  <2>1. /\ rx.rcvd = 0 /\ rx.bitCount \in {0, 1, FrameBits}
        /\ rx.bitCount # 0 => rx.state = "waitLow"
        /\ rx.bitCount = 1 \/ rx.state = "high" => clkLine.level = 1
    BY <1>1, <1>2, <1>4 DEF SettledInv
  <2>2. rx.bitCount # FrameBits => clkLine'.level = 1
    BY <1>0, <1>2, Wires, Samples DEF Levels
  <2>3. FrameBits \in Nat /\ FrameBits > 1 /\ StopBit # 0
    BY Times
  <2>4. CASE rx.state = "waitLow"
    <3>1. rx.bitCount = 1 => ~ps2clkL
      BY <2>1 DEF ps2clkL
    <3> QED BY <1>0, <2>1, <2>2, <2>3, <2>4, <3>1, WaitLowStep
  <2>5. CASE rx.state = "low"
    BY <1>0, <2>1, <2>2, <2>3, <2>5, LowStep
  <2>6. CASE rx.state = "waitHigh"
    BY <1>0, <2>1, <2>2, <2>3, <2>6, WaitHighStep
  <2>7. CASE rx.state = "high"
    BY <1>0, <2>1, <2>2, <2>3, <2>7, HighStep
  <2> QED BY <1>0, <2>4, <2>5, <2>6, <2>7
<1> QED BY <1>3, <1>4

-----------------------------------------------------------------------------
LEMMA InvInit ==
    HInit => Inv
<1> SUFFICES ASSUME HInit PROVE Inv
  OBVIOUS
<1>1. /\ clkLine = [level |-> 0, run |-> DebounceLen]
      /\ dataLine = [level |-> 0, run |-> DebounceLen]
      /\ kbd = [phase |-> "idle", age |-> 0, frame |-> <<>>, sent |-> 0, bit |-> 1]
      /\ clean = FALSE /\ expected = None /\ waited = 0 /\ dirty = FALSE
  BY DEF HInit, Init
<1>2. PICK parity \in {0, 1} :
          rx = [state |-> "waitLow", bitCount |-> 0, timeout |-> maxTimeout,
                intData |-> [n \in 1 .. DataBits |-> 0], parity |-> parity,
                data |-> [n \in 1 .. DataBits |-> 0], error |-> 0, rcvd |-> 0]
  BY DEF HInit, Init
<1>3. [n \in 1 .. DataBits |-> 0] \in Words
  BY DEF Words, Levels
<1>4. TypeOK
  <2>1. clkLine \in Lines /\ dataLine \in Lines
    BY <1>1, Times DEF Lines, Levels
  <2>2. maxTimeout \in 0 .. maxTimeout /\ 0 \in 0 .. FrameBits
    BY Times
  <2>3. rx \in RxFields /\ rx.state = "waitLow"
    BY <1>2, <1>3, <2>2 DEF RxFields, Levels
  <2> QED BY <1>1, <2>1, <2>3 DEF TypeOK, RxFields
<1>5. KbdInv
  BY <1>1, Times DEF KbdInv, Levels
<1>6. QuietInv /\ LowInv /\ HighInv
  BY <1>1, Times DEF QuietInv, LowInv, HighInv, Held
<1>7. PendingInv /\ SettledInv /\ HistoryInv
  BY <1>1, <1>2 DEF PendingInv, SettledInv, HistoryInv
<1> QED BY <1>4, <1>5, <1>6, <1>7 DEF Inv

\* The receiver (ps2if.vhd) and the frames on its wires are in step: at every
\* clock of a frame that began after enough silence it is where it has to be,
\* whatever was on the wires before.
THEOREM FramesInvariant == HSpec => []Inv
<1>1. HInit => Inv
  BY InvInit
<1>2. Inv /\ [HNext]_<<vars, history>> => Inv'
  <2> SUFFICES ASSUME Inv, [HNext]_<<vars, history>> PROVE Inv'
    OBVIOUS
  <2>1. CASE HNext
    <3>1. TypeOK' /\ KbdInv'
      BY <2>1, TypeStep, KbdStep DEF Inv, HNext, Next
    <3> QED BY <2>1, <3>1, QuietKept, LowKept, HighKept, PendingKept, SettledKept,
               HistoryKept DEF Inv
  <2>2. CASE UNCHANGED <<vars, history>>
    BY <2>2 DEF Inv, TypeOK, KbdInv, QuietInv, LowInv, HighInv, PendingInv, SettledInv,
                HistoryInv, vars, history
  <2> QED BY <2>1, <2>2
<1> QED BY <1>1, <1>2, PTL DEF HSpec

\* A frame that began after enough silence is reported within the delay of the
\* debounce register and the state machine (ps2if.vhd), with its code and with
\* error set exactly if its parity was disturbed, whatever came before it.
THEOREM CleanFrames == HSpec => []CleanFrameReported
<1>1. Inv => CleanFrameReported
  <2> SUFFICES ASSUME Inv, expected # None PROVE
          /\ waited <= Deadline
          /\ rx.rcvd = 1 => /\ rx.data = Code(expected)
                            /\ rx.error = IF Disturbed(expected) THEN 1 ELSE 0
    BY DEF CleanFrameReported
  <2>1. waited <= Deadline
    BY DEF Inv, PendingInv, Deadline
  <2>2. rx.rcvd = 1 => Taken(rx, expected, FrameBits)
    BY DEF Inv, PendingInv, TypeOK
  <2>3. FrameBits > DataBits /\ FrameBits > 0 /\ ~(FrameBits <= ParityBit)
    BY Times
  <2> QED BY <2>1, <2>2, <2>3 DEF Taken, Flip
<1> QED BY <1>1, FramesInvariant, PTL

\* The receiver (ps2if.vhd) reports nothing but frames of the keyboard: while
\* no frame was cut off or came too soon, the bit that it takes from its own
\* hold of the clock never completes a report.
THEOREM OnlyFrames == HSpec => []OnlyFramesReported
<1>1. Inv => OnlyFramesReported
  <2> SUFFICES ASSUME Inv, rx.rcvd = 1, expected = None PROVE dirty
    BY DEF OnlyFramesReported
  <2>1. CASE kbd.phase = "idle"
    BY <2>1 DEF Inv, SettledInv
  <2>2. CASE kbd.phase # "idle"
    <3>1. ~clean
      BY <2>2 DEF Inv, KbdInv, LowInv, HighInv
    <3> QED BY <2>2, <3>1 DEF Inv, HistoryInv
  <2> QED BY <2>1, <2>2
<1> QED BY <1>1, FramesInvariant, PTL
=============================================================================
