---------------------------- MODULE MonitorProofs ----------------------------
(***************************************************************************)
(* Theorems about the serial monitor and a host that streams to it: for    *)
(* every base, size of memory and fault, and whatever the host sends.      *)
(***************************************************************************)
EXTENDS MCMonitor, SequenceTheorems, TLAPS

-----------------------------------------------------------------------------
(***************************************************************************)
(* The memory test.  In a round the reader goes through the same states of *)
(* the shift register as the writer did, run, and a sound cell holds the   *)
(* low byte of the state it was written from.                              *)
(***************************************************************************)

SoundCell(addr) ==
    /\ fault.kind = "stuck" => addr # fault.cell
    /\ fault.kind = "alias" => addr \notin {fault.cell, fault.as}

\* The states of one round up to the one after so many cells.
RunOf(run, last) == \A k \in 0 .. last - 1 : run[k + 1] = lfsr15(run[k])

Holds(run, last) ==
    \A addr \in 0 .. last - 1 : SoundCell(addr) => cells[addr] = Low(run[addr + 1])

Writing ==
    /\ memPtr \in 0 .. Cells
    /\ \E run : /\ RunOf(run, memPtr) /\ Holds(run, memPtr)
                /\ run[0] = lfsr2 /\ run[memPtr] = lfsr1

Checking ==
    /\ memPtr \in 0 .. Cells
    /\ \E run : /\ RunOf(run, Cells) /\ Holds(run, Cells)
                /\ run[memPtr] = lfsr2 /\ run[Cells] = lfsr1

TestInv ==
    /\ cells = [addr \in 0 .. Cells - 1 |-> cells[addr]]
    /\ pc = "write" => Writing
    /\ pc = "check" => Checking
    /\ pc \notin {"write", "check"} => lfsr1 = lfsr2 /\ report = Nothing
    /\ NoFalseAlarm

LEMMA AlarmIsFault ==
    report.done /\ NoFalseAlarm => ~SoundCell(report.at)
BY DEF NoFalseAlarm, SoundCell

LEMMA TestStarted == HInit => TestInv
<1> SUFFICES ASSUME HInit PROVE TestInv
  OBVIOUS
<1>1. cells = [addr \in 0 .. Cells - 1 |-> cells[addr]]
  BY DEF HInit, Init
<1>2. pc = "readchar" /\ lfsr1 = lfsr2 /\ report = Nothing
  BY DEF HInit, Init
<1> QED
  BY <1>1, <1>2 DEF TestInv, NoFalseAlarm, Nothing

LEMMA WriteStep ==
    ASSUME TestInv, WriteCell
    PROVE  TestInv'
<1>1. /\ pc = "write" /\ memPtr \in 0 .. Cells - 1 /\ Cells \in Nat
      /\ pc' = pc /\ memPtr' = memPtr + 1 /\ lfsr1' = lfsr15(lfsr1)
      /\ lfsr2' = lfsr2 /\ fault' = fault /\ report' = report
      /\ cells' = [cells EXCEPT ![Reached(memPtr)] = Kept(Reached(memPtr), Low(lfsr1'))]
  BY MonitorAssumption DEF TestInv, Writing, WriteCell, Testing
<1>2. cells' = [addr \in 0 .. Cells - 1 |-> cells'[addr]]
  BY <1>1 DEF TestInv
<1>3. PICK run : /\ RunOf(run, memPtr) /\ Holds(run, memPtr)
                 /\ run[0] = lfsr2 /\ run[memPtr] = lfsr1
  BY <1>1 DEF TestInv, Writing
<1> DEFINE longer == [k \in 0 .. memPtr + 1 |-> IF k <= memPtr THEN run[k] ELSE lfsr1']
<1>4. /\ \A k \in 0 .. memPtr : longer[k] = run[k]
      /\ longer[memPtr + 1] = lfsr1'
  BY <1>1
<1> HIDE DEF longer
<1>5. ASSUME NEW k \in 0 .. memPtr PROVE longer[k + 1] = lfsr15(longer[k])
  <2>1. CASE k = memPtr
    BY <1>1, <1>3, <1>4, <2>1
  <2>2. CASE k # memPtr
    <3>1. k \in 0 .. memPtr - 1 /\ k + 1 \in 0 .. memPtr
      BY <1>1, <2>2
    <3> QED
      BY <1>3, <1>4, <3>1 DEF RunOf
  <2> QED
    BY <2>1, <2>2
<1>6. ASSUME NEW addr \in 0 .. memPtr, SoundCell(addr)
      PROVE  cells'[addr] = Low(longer[addr + 1])
  <2>1. addr \in 0 .. Cells - 1
    BY <1>1
  <2>2. CASE addr = memPtr
    <3>1. Reached(addr) = addr /\ Kept(addr, Low(lfsr1')) = Low(lfsr1')
      BY <1>6 DEF Reached, Kept, SoundCell
    <3> QED
      BY <1>1, <1>4, <2>1, <2>2, <3>1 DEF TestInv
  <2>3. CASE addr # memPtr
    <3>1. Reached(memPtr) # addr
      BY <1>6, <2>3 DEF Reached, SoundCell
    <3>2. cells'[addr] = cells[addr]
      BY <1>1, <2>1, <3>1 DEF TestInv
    <3>3. addr \in 0 .. memPtr - 1 /\ addr + 1 \in 0 .. memPtr
      BY <1>1, <2>3
    <3> QED
      BY <1>3, <1>4, <1>6, <3>2, <3>3 DEF Holds
  <2> QED
    BY <2>2, <2>3
<1>7. Writing'
  <2>1. memPtr' \in 0 .. Cells /\ memPtr' - 1 = memPtr
    BY <1>1
  <2>2. longer[0] = lfsr2' /\ longer[memPtr'] = lfsr1'
    BY <1>1, <1>3, <1>4
  <2>3. \A k \in 0 .. memPtr' - 1 : longer[k + 1] = lfsr15(longer[k])
    BY <1>5, <2>1
  <2>4. \A addr \in 0 .. memPtr' - 1 :
            SoundCell(addr)' => cells'[addr] = Low(longer[addr + 1])
    BY <1>1, <1>6, <2>1 DEF SoundCell
  <2> QED
    BY <2>1, <2>2, <2>3, <2>4 DEF Writing, RunOf, Holds
<1>8. NoFalseAlarm'
  BY <1>1 DEF TestInv, NoFalseAlarm
<1> QED
  BY <1>1, <1>2, <1>7, <1>8 DEF TestInv

LEMMA WrittenStep ==
    ASSUME TestInv, Written
    PROVE  TestInv'
<1>1. /\ pc = "write" /\ memPtr = Cells /\ Cells \in Nat
      /\ pc' = "check" /\ memPtr' = 0
      /\ UNCHANGED <<lfsr1, lfsr2, cells, fault, report>>
  BY MonitorAssumption DEF Written, Testing
<1>2. PICK run : /\ RunOf(run, Cells) /\ Holds(run, Cells)
                 /\ run[0] = lfsr2 /\ run[Cells] = lfsr1
  BY <1>1 DEF TestInv, Writing
<1>3. Holds(run, Cells)'
  BY <1>1, <1>2 DEF Holds, SoundCell
<1>4. Checking'
  BY <1>1, <1>2, <1>3 DEF Checking, RunOf, lfsr15
<1> QED
  BY <1>1, <1>4 DEF TestInv, NoFalseAlarm

\* A sound cell holds what the reader expects.
LEMMA CheckStep ==
    ASSUME TestInv, CheckCell
    PROVE  TestInv'
<1>1. /\ pc = "check" /\ memPtr \in 0 .. Cells - 1 /\ Cells \in Nat
      /\ pc' = pc /\ memPtr' = memPtr + 1 /\ lfsr2' = lfsr15(lfsr2)
      /\ UNCHANGED <<lfsr1, cells, fault>>
  BY MonitorAssumption DEF TestInv, Checking, CheckCell, Testing
<1>2. PICK run : /\ RunOf(run, Cells) /\ Holds(run, Cells)
                 /\ run[memPtr] = lfsr2 /\ run[Cells] = lfsr1
  BY <1>1 DEF TestInv, Checking
<1>3. run[memPtr + 1] = lfsr2'
  BY <1>1, <1>2 DEF RunOf
<1>4. Checking'
  <2>1. Holds(run, Cells)'
    BY <1>1, <1>2 DEF Holds, SoundCell
  <2> QED
    BY <1>1, <1>2, <1>3, <2>1 DEF Checking, RunOf, lfsr15
<1>5. NoFalseAlarm'
  <2>1. CASE cells[Reached(memPtr)] = Low(lfsr2')
    BY <1>1, <2>1 DEF CheckCell, TestInv, NoFalseAlarm
  <2>2. CASE cells[Reached(memPtr)] # Low(lfsr2')
    <3>1. report'.at = memPtr
      BY <2>2 DEF CheckCell, Byte
    <3>2. ~SoundCell(memPtr)
      <4>1. SoundCell(memPtr) => Reached(memPtr) = memPtr
        BY DEF SoundCell, Reached
      <4> QED
        BY <1>1, <1>2, <1>3, <2>2, <4>1 DEF Holds
    <3> QED
      BY <1>1, <3>1, <3>2 DEF NoFalseAlarm, SoundCell
  <2> QED
    BY <2>1, <2>2
<1> QED
  BY <1>1, <1>4, <1>5 DEF TestInv

\* Writer and reader are in the same state at the end of a round.
LEMMA RoundStep ==
    ASSUME TestInv, NextRound
    PROVE  TestInv'
<1>1. /\ pc = "check" /\ memPtr = Cells /\ Cells \in Nat
      /\ pc' = "write" /\ memPtr' = 0
      /\ UNCHANGED <<lfsr1, lfsr2, cells, fault, report>>
  BY MonitorAssumption DEF NextRound, Testing
<1>2. lfsr1 = lfsr2
  BY <1>1 DEF TestInv, Checking
<1>3. Writing'
  <2> DEFINE run == [k \in {0} |-> lfsr2]
  <2>1. run[0] = lfsr2
    OBVIOUS
  <2> HIDE DEF run
  <2> QED
    BY <1>1, <1>2, <2>1 DEF Writing, RunOf, Holds
<1> QED
  BY <1>1, <1>3 DEF TestInv, NoFalseAlarm

LEMMA StartStep ==
    ASSUME TestInv, StartTest
    PROVE  TestInv'
<1>1. /\ pc' = "write" /\ memPtr' = 0 /\ Cells \in Nat
      /\ pc = "readchar" /\ UNCHANGED <<lfsr1, lfsr2, cells, report>>
  BY MonitorAssumption DEF StartTest, readchar
<1>2. lfsr1 = lfsr2 /\ report = Nothing
  BY <1>1 DEF TestInv
<1>3. Writing'
  <2> DEFINE run == [k \in {0} |-> lfsr2]
  <2>1. run[0] = lfsr2
    OBVIOUS
  <2> HIDE DEF run
  <2> QED
    BY <1>1, <1>2, <2>1 DEF Writing, RunOf, Holds
<1> QED
  BY <1>1, <1>2, <1>3 DEF TestInv, NoFalseAlarm, Nothing

-----------------------------------------------------------------------------
(***************************************************************************)
(* The line.  While the host streams, no character puts more than one, so  *)
(* that a transmission is the last one when a character is waiting.        *)
(***************************************************************************)

StreamChars == [key : {":", "t", "digit", "newline"}, value : 0 .. Base - 1]
CommandChars == {Char(key) : key \in Commands}

PlaceType ==
    pc \in {"readchar", "write", "check", "program", "F089", "C854"}

LineType ==
    /\ PlaceType
    /\ toWrite \in Nat /\ txBusy \in {0, 1} /\ during \in {0, 1}
    /\ kind \in Streamed \cup Commands \cup {"none"}
    /\ rx \in StreamChars \cup CommandChars \cup {None}

\* A line of characters that put at most one each.
Streaming ==
    /\ sending \in Seq(StreamChars)
    /\ rx \in StreamChars \cup {None}
    /\ toWrite <= 1
    /\ pc = "readchar"

\* The host sends a command when what it streamed before has been handled, up
\* to the end of the last line.
Commanding ==
    \/ sending = <<>>
    \/ /\ sending = <<Char(kind)>> /\ kind \in Commands
       /\ rx \in StreamChars \cup {None}
       /\ toWrite <= 1
       /\ pc = "readchar"

\* A character that waits while another is transmitted, the last one to be
\* put, is the one that may arrive during a transmission.
Pending == (kind \in Streamed \/ sending # <<>>) /\ rx # None /\ toWrite > 0 /\ txBusy = 1

LineInv ==
    /\ LineType
    /\ IF kind \in Streamed THEN Streaming ELSE Commanding
    /\ Pending => during = 1
    /\ KeepsUp

-----------------------------------------------------------------------------
(***************************************************************************)
(* Numbers to a base, and the text of a line.                              *)
(***************************************************************************)

LEMMA DivMod ==
    ASSUME NEW b \in Nat \ {0}, NEW x \in Int
    PROVE  x \div b \in Int /\ x % b \in 0 .. b - 1 /\ x = b * (x \div b) + (x % b)
OBVIOUS

LEMMA MulMono ==
    ASSUME NEW b \in Nat \ {0}, NEW p \in Int, NEW q \in Int, p < q
    PROVE  b * p + b <= b * q
<1>1. q - p - 1 \in Nat
  OBVIOUS
<1>2. b * (q - p - 1) \in Nat
  BY <1>1
<1>3. b * (q - p - 1) = b * q - b * p - b
  OBVIOUS
<1> QED
  BY <1>2, <1>3

LEMMA DivModUnique ==
    ASSUME NEW b \in Nat \ {0}, NEW q \in Int, NEW r \in 0 .. b - 1, NEW x \in Int, x = b * q + r
    PROVE  x \div b = q /\ x % b = r
<1> DEFINE d == x \div b
<1> DEFINE m == x % b
<1>1. d \in Int /\ m \in 0 .. b - 1 /\ x = b * d + m
  BY DivMod
<1> HIDE DEF d, m
<1>2. b * d \in Int /\ b * q \in Int
  BY <1>1
<1>3. ~(d < q)
  BY <1>1, <1>2, MulMono
<1>4. ~(q < d)
  BY <1>1, <1>2, MulMono
<1>5. d = q
  BY <1>1, <1>3, <1>4
<1>6. m = r
  BY <1>1, <1>2, <1>5
<1> QED
  BY <1>5, <1>6 DEF d, m
  
LEMMA Halves ==
    ASSUME NEW b \in Nat \ {0}, NEW x \in 0 .. b * b - 1
    PROVE  /\ x \div b \in 0 .. b - 1 /\ x % b \in 0 .. b - 1
           /\ x = b * (x \div b) + (x % b)
<1> DEFINE d == x \div b
<1>1. d \in Int /\ x % b \in 0 .. b - 1 /\ x = b * d + (x % b)
  BY DivMod
<1> HIDE DEF d
<1>2. b * d \in Int /\ b * b \in Int
  BY <1>1
<1>3. ASSUME b - 1 < d PROVE FALSE
  <2>1. b * (b - 1) + b <= b * d
    BY <1>1, <1>3, MulMono
  <2>2. b * (b - 1) + b = b * b
    OBVIOUS
  <2> QED
    BY <1>1, <1>2, <2>1, <2>2
<1>4. ASSUME d < 0 PROVE FALSE
  <2>1. b * d + b <= b * 0
    BY <1>1, <1>4, MulMono
  <2>2. b * 0 = 0
    OBVIOUS
  <2> QED
    BY <1>1, <1>2, <2>1, <2>2
<1> QED
  BY <1>1, <1>3, <1>4 DEF d

LEMMA ByteDigits ==
    ASSUME NEW byte \in 0 .. ByteRange - 1
    PROVE  byte \div Base \in 0 .. Base - 1 /\ byte % Base \in 0 .. Base - 1
BY MonitorAssumption, Halves DEF ByteRange

LEMMA AddrBytes ==
    ASSUME NEW addr \in 0 .. AddrRange - 1
    PROVE  addr \div ByteRange \in 0 .. ByteRange - 1 /\ addr % ByteRange \in 0 .. ByteRange - 1
<1>1. ByteRange \in Nat \ {0}
  BY MonitorAssumption DEF ByteRange
<1> QED
  BY <1>1, Halves DEF AddrRange

LEMMA CharType ==
    /\ \A key \in {":", "t", "digit", "newline"} : Char(key) \in StreamChars
    /\ \A value \in 0 .. Base - 1 : Digit(value) \in StreamChars
BY MonitorAssumption DEF StreamChars, Char, Digit

LEMMA PairType ==
    ASSUME NEW S, NEW a \in S, NEW b \in S
    PROVE  /\ <<a>> \in Seq(S) /\ Len(<<a>>) = 1 /\ <<a>>[1] = a
           /\ <<a, b>> \in Seq(S) /\ Len(<<a, b>>) = 2
           /\ <<a, b>>[1] = a /\ <<a, b>>[2] = b
OBVIOUS

LEMMA DigitsType ==
    ASSUME NEW byte \in 0 .. ByteRange - 1
    PROVE  /\ Digits(byte) \in Seq(StreamChars) /\ Len(Digits(byte)) = 2
           /\ Digits(byte)[1] = Digit(byte \div Base)
           /\ Digits(byte)[2] = Digit(byte % Base)
BY ByteDigits, CharType, PairType DEF Digits

LEMMA LineEndType ==
    /\ LineEnd \in Seq(StreamChars) /\ Len(LineEnd) = 2
    /\ LineEnd[1] = Char("newline") /\ LineEnd[2] = Char("newline")
BY CharType, PairType DEF LineEnd

LEMMA TextType ==
    ASSUME NEW bytes \in Seq(0 .. ByteRange - 1)
    PROVE  /\ Text(bytes) \in Seq(StreamChars) /\ Len(Text(bytes)) = 2 * Len(bytes)
           /\ \A i \in 1 .. Len(bytes) :
                  /\ Text(bytes)[2 * i - 1] = Digit(bytes[i] \div Base)
                  /\ Text(bytes)[2 * i] = Digit(bytes[i] % Base)
<1>1. Len(bytes) \in Nat /\ \A i \in 1 .. Len(bytes) : bytes[i] \in 0 .. ByteRange - 1
  <2> DEFINE S == 0 .. ByteRange - 1
  <2>1. bytes \in Seq(S)
    OBVIOUS
  <2> HIDE DEF S
  <2>2. Len(bytes) \in Nat /\ \A i \in 1 .. Len(bytes) : bytes[i] \in S
    BY <2>1
  <2> QED
    BY <2>2 DEF S
<1> DEFINE char(i) == Digits(bytes[(i + 1) \div 2])[2 - (i % 2)]
<1>2. ASSUME NEW i \in 1 .. 2 * Len(bytes) PROVE char(i) \in StreamChars
  <2>1. (i + 1) \div 2 \in 1 .. Len(bytes) /\ 2 - (i % 2) \in 1 .. 2
    BY <1>1
  <2> QED
    BY <1>1, <2>1, DigitsType, ElementOfSeq
<1>3. Text(bytes) = [i \in 1 .. 2 * Len(bytes) |-> char(i)]
  BY DEF Text
<1>4. Text(bytes) \in Seq(StreamChars) /\ Len(Text(bytes)) = 2 * Len(bytes)
  BY <1>1, <1>2, <1>3
<1>5. ASSUME NEW i \in 1 .. Len(bytes)
      PROVE  /\ Text(bytes)[2 * i - 1] = Digit(bytes[i] \div Base)
             /\ Text(bytes)[2 * i] = Digit(bytes[i] % Base)
  <2>1. /\ (2 * i - 1 + 1) \div 2 = i /\ 2 - ((2 * i - 1) % 2) = 1
        /\ (2 * i + 1) \div 2 = i /\ 2 - ((2 * i) % 2) = 2
        /\ 2 * i - 1 \in 1 .. 2 * Len(bytes) /\ 2 * i \in 1 .. 2 * Len(bytes)
    BY <1>1
  <2>2. Text(bytes)[2 * i - 1] = char(2 * i - 1) /\ Text(bytes)[2 * i] = char(2 * i)
    BY <1>3, <2>1
  <2> QED
    BY <1>1, <2>1, <2>2, DigitsType
<1> QED
  BY <1>4, <1>5

\* A text begins with one of length a and ends with one of length b.
Joins(S, u, s, a, t, b) ==
    /\ u \in Seq(S) /\ Len(u) = a + b
    /\ \A i \in 1 .. a : u[i] = s[i]
    /\ \A i \in 1 .. b : u[a + i] = t[i]

LEMMA Joined ==
    ASSUME NEW S, NEW s \in Seq(S), NEW t \in Seq(S), NEW u, u = s \o t,
           NEW a, a = Len(s), NEW b, b = Len(t)
    PROVE  Joins(S, u, s, a, t, b)
<1>1. a \in Nat /\ b \in Nat
  OBVIOUS
<1>2. /\ u \in Seq(S) /\ Len(u) = a + b
      /\ \A i \in 1 .. a + b : u[i] = IF i <= a THEN s[i] ELSE t[i - a]
  BY ConcatProperties
<1>3. ASSUME NEW i \in 1 .. b PROVE u[a + i] = t[i]
  <2>1. a + i \in 1 .. a + b /\ ~(a + i <= a) /\ a + i - a = i
    BY <1>1
  <2> QED
    BY <1>2, <2>1
<1>4. ASSUME NEW i \in 1 .. a PROVE u[i] = s[i]
  BY <1>1, <1>2
<1> QED
  BY <1>2, <1>3, <1>4 DEF Joins

LEMMA AddrDigitsType ==
    ASSUME NEW addr \in 0 .. AddrRange - 1
    PROVE  LET hi == addr \div ByteRange  lo == addr % ByteRange IN
           /\ AddrDigits(addr) \in Seq(StreamChars) /\ Len(AddrDigits(addr)) = 4
           /\ AddrDigits(addr)[1] = Digit(hi \div Base)
           /\ AddrDigits(addr)[2] = Digit(hi % Base)
           /\ AddrDigits(addr)[3] = Digit(lo \div Base)
           /\ AddrDigits(addr)[4] = Digit(lo % Base)
<1> DEFINE hi == addr \div ByteRange
<1> DEFINE lo == addr % ByteRange
<1>1. /\ Digits(hi) \in Seq(StreamChars) /\ Len(Digits(hi)) = 2
      /\ Digits(hi)[1] = Digit(hi \div Base) /\ Digits(hi)[2] = Digit(hi % Base)
      /\ Digits(lo) \in Seq(StreamChars) /\ Len(Digits(lo)) = 2
      /\ Digits(lo)[1] = Digit(lo \div Base) /\ Digits(lo)[2] = Digit(lo % Base)
  BY AddrBytes, DigitsType
<1>2. AddrDigits(addr) = Digits(hi) \o Digits(lo)
  BY DEF AddrDigits
<1> HIDE DEF hi, lo
<1>3. Joins(StreamChars, AddrDigits(addr), Digits(hi), 2, Digits(lo), 2)
  BY <1>1, <1>2, Joined
<1> QED
  BY <1>1, <1>3 DEF Joins, hi, lo

\* The bytes a record is made of, and its characters.
BytesIn(r) == Len(r.data) + 5

ByteOf(r, k) ==
    CASE k = 1 -> Len(r.data)
      [] k = 2 -> r.addr \div ByteRange
      [] k = 3 -> r.addr % ByteRange
      [] k \in 5 .. BytesIn(r) - 1 -> r.data[k - 4]
      [] OTHER -> r.type

RecordTyped(r) ==
    /\ r.addr \in 0 .. AddrRange - 1 /\ r.type \in 0 .. ByteRange - 1
    /\ r.data \in Seq(0 .. ByteRange - 1) /\ Len(r.data) \in 0 .. ByteRange - 1
    /\ \A i \in 1 .. Len(r.data) : r.data[i] \in 0 .. ByteRange - 1

LEMMA RecordIsTyped ==
    ASSUME NEW r \in Records
    PROVE  RecordTyped(r)
<1> DEFINE S == 0 .. ByteRange - 1
<1>1. /\ r.addr \in 0 .. AddrRange - 1 /\ r.type \in S
      /\ r.data \in Seq(S) /\ Len(r.data) < ByteRange
  BY HostAssumption
<1>2. ByteRange \in Nat
  BY MonitorAssumption DEF ByteRange
<1> HIDE DEF S
<1>3. Len(r.data) \in Nat /\ \A i \in 1 .. Len(r.data) : r.data[i] \in S
  BY <1>1
<1> QED
  BY <1>1, <1>2, <1>3 DEF S, RecordTyped

LEMMA RecordTextType ==
    ASSUME NEW r \in Records
    PROVE  /\ RecordText(r) \in Seq(StreamChars)
           /\ Len(RecordText(r)) = 2 * BytesIn(r) + 3
           /\ RecordText(r)[1] = Char(":")
           /\ \A k \in 1 .. BytesIn(r) :
                  /\ ByteOf(r, k) \in 0 .. ByteRange - 1
                  /\ RecordText(r)[2 * k] = Digit(ByteOf(r, k) \div Base)
                  /\ RecordText(r)[2 * k + 1] = Digit(ByteOf(r, k) % Base)
           /\ RecordText(r)[2 * BytesIn(r) + 2] = Char("newline")
           /\ RecordText(r)[2 * BytesIn(r) + 3] = Char("newline")
<1> DEFINE S == StreamChars
<1> DEFINE t1 == <<Char(":")>>
<1> DEFINE t2 == t1 \o Digits(Len(r.data))
<1> DEFINE t3 == t2 \o AddrDigits(r.addr)
<1> DEFINE t4 == t3 \o Digits(r.type)
<1> DEFINE t5 == t4 \o Text(r.data)
<1> DEFINE t6 == t5 \o Digits(r.type)
<1> DEFINE t7 == t6 \o LineEnd
<1> DEFINE d == Len(r.data)
<1>0. RecordTyped(r) /\ d \in Nat
  BY RecordIsTyped DEF RecordTyped
<1>a. /\ Digits(d) \in Seq(S) /\ Len(Digits(d)) = 2
      /\ AddrDigits(r.addr) \in Seq(S) /\ Len(AddrDigits(r.addr)) = 4
      /\ Digits(r.type) \in Seq(S) /\ Len(Digits(r.type)) = 2
      /\ Text(r.data) \in Seq(S) /\ Len(Text(r.data)) = 2 * d
      /\ LineEnd \in Seq(S) /\ Len(LineEnd) = 2
  BY <1>0, DigitsType, AddrDigitsType, TextType, LineEndType DEF RecordTyped
<1>1. t1 \in Seq(S) /\ Len(t1) = 1 /\ t1[1] = Char(":")
  BY CharType, PairType
<1>b. RecordText(r) = t7
  BY DEF RecordText
<1>2. t2 = t1 \o Digits(d)
  BY DEF d
<1>3. t3 = t2 \o AddrDigits(r.addr)
  OBVIOUS
<1>4. t4 = t3 \o Digits(r.type)
  OBVIOUS
<1>5. t5 = t4 \o Text(r.data)
  OBVIOUS
<1>6. t6 = t5 \o Digits(r.type)
  OBVIOUS
<1>7. t7 = t6 \o LineEnd
  OBVIOUS
<1> HIDE DEF S, d, t1, t2, t3, t4, t5, t6, t7
<1>c. Joins(S, t2, t1, 1, Digits(d), 2) /\ t2 \in Seq(S) /\ Len(t2) = 3
  <2>1. Joins(S, t2, t1, 1, Digits(d), 2)
    BY <1>1, <1>2, <1>a, Joined
  <2> QED
    BY <2>1 DEF Joins
<1>d. Joins(S, t3, t2, 3, AddrDigits(r.addr), 4) /\ t3 \in Seq(S) /\ Len(t3) = 7
  <2>1. Joins(S, t3, t2, 3, AddrDigits(r.addr), 4)
    BY <1>3, <1>a, <1>c, Joined
  <2> QED
    BY <2>1 DEF Joins
<1>e. Joins(S, t4, t3, 7, Digits(r.type), 2) /\ t4 \in Seq(S) /\ Len(t4) = 9
  <2>1. Joins(S, t4, t3, 7, Digits(r.type), 2)
    BY <1>4, <1>a, <1>d, Joined
  <2> QED
    BY <2>1 DEF Joins
<1>f. Joins(S, t5, t4, 9, Text(r.data), 2 * d) /\ t5 \in Seq(S) /\ Len(t5) = 9 + 2 * d
  <2>1. Joins(S, t5, t4, 9, Text(r.data), 2 * d)
    BY <1>5, <1>a, <1>e, Joined
  <2> QED
    BY <2>1 DEF Joins
<1>g. Joins(S, t6, t5, 9 + 2 * d, Digits(r.type), 2) /\ t6 \in Seq(S) /\ Len(t6) = 9 + 2 * d + 2
  <2>1. Joins(S, t6, t5, 9 + 2 * d, Digits(r.type), 2)
    BY <1>6, <1>a, <1>f, Joined
  <2> QED
    BY <2>1 DEF Joins
<1>h. Joins(S, t7, t6, 9 + 2 * d + 2, LineEnd, 2) /\ t7 \in Seq(S) /\ Len(t7) = 9 + 2 * d + 2 + 2
  <2>1. Joins(S, t7, t6, 9 + 2 * d + 2, LineEnd, 2)
    BY <1>7, <1>a, <1>g, Joined
  <2> QED
    BY <2>1 DEF Joins
<1>i. /\ t7[1] = t1[1]
      /\ \A i \in 1 .. 2 : t7[1 + i] = Digits(d)[i]
      /\ \A i \in 1 .. 4 : t7[3 + i] = AddrDigits(r.addr)[i]
      /\ \A i \in 1 .. 2 : t7[7 + i] = Digits(r.type)[i]
      /\ \A i \in 1 .. 2 * d : t7[9 + i] = Text(r.data)[i]
      /\ \A i \in 1 .. 2 : t7[9 + 2 * d + i] = Digits(r.type)[i]
  <2>1. \A i \in 1 .. 9 + 2 * d : t7[i] = t5[i]
    BY <1>0, <1>g, <1>h DEF Joins
  <2>2. \A i \in 1 .. 7 : t7[i] = t3[i]
    BY <1>0, <1>e, <1>f, <2>1 DEF Joins
  <2>3. \A i \in 1 .. 3 : t7[i] = t2[i]
    BY <1>d, <2>2 DEF Joins
  <2>4. \A i \in 1 .. 4 : 3 + i \in 1 .. 7
    OBVIOUS
  <2>5. \A i \in 1 .. 2 : 7 + i \in 1 .. 9 /\ 7 + i \in 1 .. 9 + 2 * d
    BY <1>0
  <2>6. \A i \in 1 .. 2 * d : 9 + i \in 1 .. 9 + 2 * d
    BY <1>0
  <2>7. \A i \in 1 .. 2 : 9 + 2 * d + i \in 1 .. 9 + 2 * d + 2
    BY <1>0
  <2> QED
    BY <1>0, <1>c, <1>d, <1>e, <1>f, <1>g, <1>h, <2>1, <2>2, <2>3, <2>4, <2>5, <2>6, <2>7,
       SMTT(30) DEF Joins
<1>8. ASSUME NEW k \in 1 .. BytesIn(r)
      PROVE  /\ ByteOf(r, k) \in 0 .. ByteRange - 1
             /\ t7[2 * k] = Digit(ByteOf(r, k) \div Base)
             /\ t7[2 * k + 1] = Digit(ByteOf(r, k) % Base)
  <2>0. k \in 1 .. d + 5 /\ BytesIn(r) = d + 5 /\ 2 * k \in 1 .. 11 + 2 * d
        /\ 2 * k + 1 \in 1 .. 11 + 2 * d
    BY <1>0 DEF BytesIn, d
  <2>1. CASE k = 1
    <3>1. ByteOf(r, k) = d /\ d \in 0 .. ByteRange - 1
      BY <1>0, <2>1 DEF ByteOf, RecordTyped, d
    <3>2. t7[2] = Digits(d)[1] /\ t7[3] = Digits(d)[2]
      BY <1>i
    <3> QED
      BY <2>1, <3>1, <3>2, DigitsType
  <2>2. CASE k = 2
    <3>1. ByteOf(r, k) = r.addr \div ByteRange
      BY <1>0, <2>0, <2>2 DEF ByteOf
    <3>2. t7[4] = AddrDigits(r.addr)[1] /\ t7[5] = AddrDigits(r.addr)[2]
      BY <1>i
    <3> QED
      BY <1>0, <2>2, <3>1, <3>2, AddrDigitsType, AddrBytes DEF RecordTyped
  <2>3. CASE k = 3
    <3>1. ByteOf(r, k) = r.addr % ByteRange
      BY <1>0, <2>0, <2>3 DEF ByteOf
    <3>2. t7[6] = AddrDigits(r.addr)[3] /\ t7[7] = AddrDigits(r.addr)[4]
      BY <1>i
    <3> QED
      BY <1>0, <2>3, <3>1, <3>2, AddrDigitsType, AddrBytes DEF RecordTyped
  <2>4. CASE k = 4
    <3>1. ByteOf(r, k) = r.type
      BY <1>0, <2>0, <2>4 DEF ByteOf
    <3>2. t7[8] = Digits(r.type)[1] /\ t7[9] = Digits(r.type)[2]
      BY <1>i
    <3> QED
      BY <1>0, <2>4, <3>1, <3>2, DigitsType DEF RecordTyped
  <2>5. CASE k \in 5 .. d + 4
    <3>1. ByteOf(r, k) = r.data[k - 4] /\ k - 4 \in 1 .. d
      BY <1>0, <2>0, <2>5 DEF ByteOf
    <3>2. /\ t7[2 * k] = Text(r.data)[2 * (k - 4) - 1]
          /\ t7[2 * k + 1] = Text(r.data)[2 * (k - 4)]
      <4>1. /\ 2 * k = 9 + (2 * (k - 4) - 1) /\ 2 * k + 1 = 9 + 2 * (k - 4)
            /\ 2 * (k - 4) - 1 \in 1 .. 2 * d /\ 2 * (k - 4) \in 1 .. 2 * d
        BY <1>0, <2>5
      <4> QED
        BY <1>i, <4>1
    <3> QED
      BY <1>0, <3>1, <3>2, TextType DEF RecordTyped, d
  <2>6. CASE k = d + 5
    <3>1. ByteOf(r, k) = r.type
      BY <1>0, <2>0, <2>6 DEF ByteOf
    <3>2. /\ t7[2 * k] = Digits(r.type)[1]
          /\ t7[2 * k + 1] = Digits(r.type)[2]
      <4>1. 2 * k = 9 + 2 * d + 1 /\ 2 * k + 1 = 9 + 2 * d + 2
        BY <1>0, <2>6
      <4> QED
        BY <1>i, <4>1
    <3> QED
      BY <1>0, <3>1, <3>2, DigitsType DEF RecordTyped
  <2> QED
    BY <1>0, <2>0, <2>1, <2>2, <2>3, <2>4, <2>5, <2>6
<1>9. /\ 2 * BytesIn(r) + 3 = 9 + 2 * d + 2 + 2 /\ t7[1] = Char(":")
      /\ t7[2 * BytesIn(r) + 2] = Char("newline") /\ t7[2 * BytesIn(r) + 3] = Char("newline")
  <2>1. /\ 2 * BytesIn(r) + 3 = 9 + 2 * d + 2 + 2
        /\ 2 * BytesIn(r) + 2 = 9 + 2 * d + 2 + 1
    BY <1>0 DEF BytesIn, d
  <2> QED
    BY <1>1, <1>h, <1>i, <2>1, LineEndType DEF Joins
<1> QED
  BY <1>h, <1>8, <1>9, <1>b DEF S

AddressText(addr) == <<Char("t")>> \o AddrDigits(addr) \o LineEnd

LEMMA AddressTextType ==
    ASSUME NEW addr \in Addresses
    PROVE  LET hi == addr \div ByteRange  lo == addr % ByteRange IN
           /\ AddressText(addr) \in Seq(StreamChars) /\ Len(AddressText(addr)) = 7
           /\ AddressText(addr)[1] = Char("t")
           /\ hi \in 0 .. ByteRange - 1 /\ lo \in 0 .. ByteRange - 1
           /\ AddressText(addr)[2] = Digit(hi \div Base)
           /\ AddressText(addr)[3] = Digit(hi % Base)
           /\ AddressText(addr)[4] = Digit(lo \div Base)
           /\ AddressText(addr)[5] = Digit(lo % Base)
           /\ AddressText(addr)[6] = Char("newline") /\ AddressText(addr)[7] = Char("newline")
<1> DEFINE hi == addr \div ByteRange
<1> DEFINE lo == addr % ByteRange
<1> DEFINE S == StreamChars
<1> DEFINE t1 == <<Char("t")>>
<1> DEFINE t2 == t1 \o AddrDigits(addr)
<1> DEFINE t3 == t2 \o LineEnd
<1>1. addr \in 0 .. AddrRange - 1
  BY HostAssumption
<1>2. hi \in 0 .. ByteRange - 1 /\ lo \in 0 .. ByteRange - 1
  BY <1>1, AddrBytes
<1>3. /\ AddrDigits(addr) \in Seq(S) /\ Len(AddrDigits(addr)) = 4
      /\ AddrDigits(addr)[1] = Digit(hi \div Base) /\ AddrDigits(addr)[2] = Digit(hi % Base)
      /\ AddrDigits(addr)[3] = Digit(lo \div Base) /\ AddrDigits(addr)[4] = Digit(lo % Base)
      /\ LineEnd \in Seq(S) /\ Len(LineEnd) = 2
      /\ LineEnd[1] = Char("newline") /\ LineEnd[2] = Char("newline")
  BY <1>1, AddrDigitsType, LineEndType
<1>4. t1 \in Seq(S) /\ Len(t1) = 1 /\ t1[1] = Char("t")
  BY CharType, PairType
<1>5. t2 = t1 \o AddrDigits(addr) /\ t3 = t2 \o LineEnd
  OBVIOUS
<1>6. AddressText(addr) = t3
  BY DEF AddressText
<1> HIDE DEF hi, lo, S, t1, t2, t3
<1>7. Joins(S, t2, t1, 1, AddrDigits(addr), 4) /\ t2 \in Seq(S) /\ Len(t2) = 5
  <2>1. Joins(S, t2, t1, 1, AddrDigits(addr), 4)
    BY <1>3, <1>4, <1>5, Joined
  <2> QED
    BY <2>1 DEF Joins
<1>8. Joins(S, t3, t2, 5, LineEnd, 2)
  BY <1>3, <1>5, <1>7, Joined
<1>9. /\ AddressText(addr) \in Seq(S) /\ Len(AddressText(addr)) = 7
      /\ AddressText(addr)[1] = t1[1]
      /\ \A i \in 1 .. 4 : AddressText(addr)[1 + i] = AddrDigits(addr)[i]
      /\ \A i \in 1 .. 2 : AddressText(addr)[5 + i] = LineEnd[i]
  <2>1. \A i \in 1 .. 4 : 1 + i \in 1 .. 5
    OBVIOUS
  <2> QED
    BY <1>6, <1>7, <1>8, <2>1 DEF Joins
<1> QED
  BY <1>2, <1>3, <1>4, <1>9 DEF hi, lo, S

BytesText(byte) == Digits(byte) \o LineEnd

LEMMA BytesTextType ==
    ASSUME NEW byte \in TypedBytes
    PROVE  /\ BytesText(byte) \in Seq(StreamChars) /\ Len(BytesText(byte)) = 4
           /\ byte \in 0 .. ByteRange - 1
           /\ BytesText(byte)[1] = Digit(byte \div Base)
           /\ BytesText(byte)[2] = Digit(byte % Base)
           /\ BytesText(byte)[3] = Char("newline") /\ BytesText(byte)[4] = Char("newline")
<1> DEFINE S == StreamChars
<1>1. byte \in 0 .. ByteRange - 1
  BY HostAssumption
<1>2. /\ Digits(byte) \in Seq(S) /\ Len(Digits(byte)) = 2
      /\ Digits(byte)[1] = Digit(byte \div Base) /\ Digits(byte)[2] = Digit(byte % Base)
      /\ LineEnd \in Seq(S) /\ Len(LineEnd) = 2
      /\ LineEnd[1] = Char("newline") /\ LineEnd[2] = Char("newline")
  BY <1>1, DigitsType, LineEndType
<1>3. BytesText(byte) = Digits(byte) \o LineEnd
  BY DEF BytesText
<1> HIDE DEF S
<1>4. Joins(S, BytesText(byte), Digits(byte), 2, LineEnd, 2)
  BY <1>2, <1>3, Joined
<1> QED
  BY <1>1, <1>2, <1>4 DEF Joins, S

-----------------------------------------------------------------------------
(***************************************************************************)
(* Every step keeps the line invariant.                                    *)
(***************************************************************************)

Keys == {":", "t", "digit", "newline"}

LEMMA ElementKeys ==
    /\ \A char \in StreamChars : char.key \in Keys /\ char # None
    /\ \A char \in CommandChars :
           char.key \in Commands /\ char.key \notin Keys /\ char # None
    /\ \A key \in Commands : Char(key).key = key /\ Char(key) \notin StreamChars
    /\ None.key = "none"
BY DEF StreamChars, CommandChars, Char, Commands, Keys, None

\* What the CPU does: put a character, take one, or go on with the test.
LEMMA CpuMoves ==
    ASSUME LineType, main
    PROVE  \/ /\ toWrite > 0 /\ txBusy = 0 /\ toWrite' = toWrite - 1 /\ txBusy' = 1
              /\ UNCHANGED <<pc, rx>>
           \/ /\ pc = "readchar" /\ toWrite = 0 /\ rx # None
              /\ rx' = None /\ toWrite' \in Nat /\ txBusy' = txBusy
              /\ PlaceType'
              /\ rx.key \in Keys => pc' = pc /\ toWrite' <= 1
           \/ /\ pc \in {"write", "check"} /\ pc' \in {"write", "check"}
              /\ toWrite' \in Nat /\ UNCHANGED <<rx, txBusy>>
<1> USE DEF LineType, PlaceType, Keys, None, readchar, Stays
<1>1. CASE putchar
  BY <1>1 DEF putchar
<1>2. CASE Command
  BY <1>2 DEF Command, SetAddress, ShowByte, ShowAddress, Newline, Colon, Other, Leave,
              StartTest, HexLength, AddrLength
<1>3. CASE DigitRead
  <2>1. pc' = pc /\ (readchar("digit", 0) \/ readchar("digit", 1))
    <3> HIDE DEF readchar, LineType
    <3> QED
      BY <1>3 DEF DigitRead, FirstDigit, AddressHigh, AddressLow, SetAddressLow,
                  SecondDigit, Count, Type, NotData, Data, Typed
  <2> QED
    BY <2>1
<1>4. CASE MemTest
  BY <1>4 DEF MemTest, WriteCell, Written, CheckCell, NextRound, Testing, ReportLength,
              RoundLength, HexLength, AddrLength
<1> QED
  BY <1>1, <1>2, <1>3, <1>4 DEF main

LEMMA LineCpu == ASSUME LineInv, Cpu PROVE LineInv'
<1>1. /\ main /\ LineType
      /\ during' = IF txBusy = 0 THEN 0 ELSE during
      /\ UNCHANGED <<sending, kind, overrun>>
  BY DEF Cpu, LineInv
<1>2. CASE /\ toWrite > 0 /\ txBusy = 0 /\ toWrite' = toWrite - 1 /\ txBusy' = 1
           /\ UNCHANGED <<pc, rx>>
  BY <1>1, <1>2 DEF LineInv, LineType, PlaceType, Streaming, Commanding, Pending, KeepsUp
<1>3. CASE /\ pc = "readchar" /\ toWrite = 0 /\ rx # None
           /\ rx' = None /\ toWrite' \in Nat /\ txBusy' = txBusy
           /\ PlaceType'
           /\ rx.key \in Keys => pc' = pc /\ toWrite' <= 1
  <2>1. kind \in Streamed \/ sending # <<>> => rx.key \in Keys
    BY <1>3, ElementKeys DEF LineInv, Streaming, Commanding
  <2> QED
    BY <1>1, <1>3, <2>1 DEF LineInv, LineType, Streaming, Commanding, Pending, KeepsUp
<1>4. CASE /\ pc \in {"write", "check"} /\ pc' \in {"write", "check"}
           /\ toWrite' \in Nat /\ UNCHANGED <<rx, txBusy>>
  BY <1>1, <1>4 DEF LineInv, LineType, PlaceType, Streaming, Commanding, Pending, KeepsUp
<1> QED
  BY <1>1, <1>2, <1>3, <1>4, CpuMoves

\* A line is begun when the one before has been sent, and the monitor has put
\* everything unless it puts one character at a time anyway.
LEMMA LineBegun ==
    ASSUME LineInv, sending = <<>>, pc = "readchar", kind \notin Streamed => Quiet,
           UNCHANGED <<vars, during, overrun>>,
           \/ kind' \in Streamed /\ sending' \in Seq(StreamChars)
           \/ kind' \in Commands /\ sending' = <<Char(kind')>>
    PROVE  LineInv'
<1>1. /\ LineType /\ pc = "readchar" /\ toWrite <= 1 /\ rx \in StreamChars \cup {None}
      /\ rx # None /\ toWrite > 0 /\ txBusy = 1 => during = 1
      /\ KeepsUp
  BY DEF LineInv, Streaming, Pending, Quiet
<1>2. UNCHANGED <<pc, rx, toWrite, txBusy, during, overrun>>
  BY DEF vars, line
<1>3. kind' \in Commands => kind' \notin Streamed
  BY DEF Commands, Streamed
<1> QED
  BY <1>1, <1>2, <1>3 DEF LineInv, LineType, PlaceType, Streaming, Commanding, Pending, KeepsUp

LEMMA LineArrive == ASSUME LineInv, Arrive PROVE LineInv'
<1>1. /\ sending # <<>> /\ rx' = Head(sending) /\ sending' = Tail(sending)
      /\ (toWrite = 0 /\ rx = None) \/ (toWrite > 0 /\ txBusy = 1)
      /\ txBusy = 1 => during = 0
      /\ during' = txBusy /\ overrun' = (overrun \/ rx # None)
      /\ UNCHANGED <<pc, toWrite, txBusy, kind>>
      /\ LineType
  BY DEF Arrive, LineInv
<1>2. rx = None
  BY <1>1 DEF LineInv, Pending
<1>3. KeepsUp'
  BY <1>1, <1>2 DEF LineInv, KeepsUp
<1>4. CASE kind \in Streamed
  <2>1. rx' \in StreamChars /\ sending' \in Seq(StreamChars)
    BY <1>1, <1>4, HeadTailProperties DEF LineInv, Streaming
  <2> QED
    BY <1>1, <1>3, <1>4, <2>1 DEF LineInv, LineType, PlaceType, Streaming, Pending
<1>5. CASE kind \notin Streamed
  <2>1. sending = <<Char(kind)>> /\ kind \in Commands
    BY <1>1, <1>5 DEF LineInv, Commanding
  <2>2. rx' = Char(kind) /\ sending' = <<>>
    BY <1>1, <2>1
  <2>3. rx' \in CommandChars
    BY <2>1, <2>2 DEF CommandChars
  <2> QED
    BY <1>1, <1>3, <1>5, <2>2, <2>3 DEF LineInv, LineType, PlaceType, Commanding, Pending
<1> QED
  BY <1>4, <1>5

LEMMA LineBreak == ASSUME LineInv, Break PROVE LineInv'
<1>1. /\ kind \in Streamed /\ Len(sending) > 2 /\ sending \in Seq(StreamChars)
      /\ sending' \in {LineEnd, Tail(sending)}
      /\ UNCHANGED <<vars, kind, during, overrun>>
  BY LineEndType DEF Break, LineInv, Streaming
<1>2. sending # <<>>
  BY <1>1
<1>3. sending' \in Seq(StreamChars)
  BY <1>1, <1>2, LineEndType, HeadTailProperties
<1> QED
  BY <1>1, <1>2, <1>3 DEF LineInv, LineType, PlaceType, Streaming, Pending, KeepsUp, vars, line

LEMMA LineStarted == HInit => LineInv
<1> SUFFICES ASSUME HInit PROVE LineInv
  OBVIOUS
<1>1. HelloLength \in Nat
  BY MonitorAssumption
<1>2. kind = "none" /\ kind \notin Streamed
  BY DEF HInit, Streamed
<1> QED
  BY <1>1, <1>2 DEF HInit, Init, LineInv, LineType, PlaceType, Commanding, Pending, KeepsUp

MonInv ==
    /\ LineInv
    /\ TestInv

\* What does not touch the test keeps its invariant.
LEMMA TestKept ==
    ASSUME TestInv, UNCHANGED test,
           \/ UNCHANGED <<pc, memPtr>>
           \/ pc \notin {"write", "check"} /\ pc' \notin {"write", "check"}
    PROVE  TestInv'
<1>1. UNCHANGED <<lfsr1, lfsr2, cells, fault, report>>
  BY DEF test
<1> QED
  BY <1>1 DEF TestInv, Writing, Checking, Holds, SoundCell, NoFalseAlarm

LEMMA TestCpu == ASSUME LineInv, TestInv, main PROVE TestInv'
<1>1. CASE MemTest
  BY <1>1, WriteStep, WrittenStep, CheckStep, RoundStep DEF MemTest
<1>2. CASE StartTest
  BY <1>2, StartStep
<1>3. CASE putchar
  BY <1>3, TestKept DEF putchar, locals
<1>4. CASE Command /\ ~StartTest
  <2>1. UNCHANGED test /\ pc = "readchar" /\ pc' \notin {"write", "check"}
    BY <1>4 DEF Command, SetAddress, ShowByte, ShowAddress, Newline, Colon, Other, Leave,
                readchar, Stays
  <2> QED
    BY <2>1, TestKept
<1>5. CASE DigitRead
  <2>1. UNCHANGED test /\ pc = "readchar" /\ pc' = pc
    BY <1>5 DEF DigitRead, FirstDigit, AddressHigh, AddressLow, SetAddressLow, SecondDigit,
                Count, Type, NotData, Data, Typed, readchar, Stays
  <2> QED
    BY <2>1, TestKept
<1> QED
  BY <1>1, <1>2, <1>3, <1>4, <1>5 DEF main

\* Whatever the host begins to send, the monitor's state is left alone.
Sends == SendRecord \/ SendAddress \/ SendBytes \/ SendCommand

LEMMA SendMoves ==
    ASSUME Sends
    PROVE  /\ sending = <<>> /\ pc = "readchar" /\ (kind \notin Streamed => Quiet)
           /\ UNCHANGED <<vars, during, overrun>>
           /\ \/ kind' \in Streamed /\ sending' \in Seq(StreamChars)
              \/ kind' \in Commands /\ sending' = <<Char(kind')>>
<1>1. CASE SendRecord
  BY <1>1, RecordTextType DEF SendRecord, Line, Streamed
<1>2. CASE SendAddress
  BY <1>2, AddressTextType DEF SendAddress, Line, Streamed, AddressText
<1>3. CASE SendBytes
  BY <1>3, BytesTextType DEF SendBytes, Line, Streamed, BytesText
<1>4. CASE SendCommand
  BY <1>4 DEF SendCommand, Line
<1> QED
  BY <1>1, <1>2, <1>3, <1>4 DEF Sends

LEMMA MonStep == MonInv /\ [HNext]_mVars => MonInv'
<1> SUFFICES ASSUME MonInv, [HNext]_mVars PROVE MonInv'
  OBVIOUS
<1> USE DEF MonInv
<1>1. CASE Cpu
  BY <1>1, LineCpu, TestCpu DEF Cpu
<1>2. CASE Transmitter
  <2>1. LineInv'
    BY <1>2 DEF Transmitter, Sent, host, LineInv, LineType, PlaceType, Streaming,
                Commanding, Pending, KeepsUp
  <2> QED
    BY <1>2, <2>1, TestKept DEF Transmitter, Sent, locals
<1>3. CASE Restart
  <2>1. LineInv'
    BY <1>3, MonitorAssumption DEF Restart, Enter, LineInv, LineType, PlaceType, Streaming,
                Commanding, Pending, KeepsUp
  <2> QED
    BY <1>3, <2>1, TestKept DEF Restart, Enter
<1>4. CASE Sends
  <2>1. UNCHANGED vars
    BY <1>4, SendMoves
  <2> QED
    BY <1>4, <2>1, SendMoves, LineBegun, TestKept DEF vars, locals
<1>5. CASE Break
  BY <1>5, LineBreak, TestKept DEF Break, vars, locals
<1>6. CASE Arrive
  BY <1>6, LineArrive, TestKept DEF Arrive, locals
<1>7. CASE UNCHANGED mVars
  <2>1. LineInv'
    BY <1>7 DEF mVars, vars, host, line, LineInv, LineType, PlaceType, Streaming,
                Commanding, Pending, KeepsUp
  <2> QED
    BY <1>7, <2>1, TestKept DEF mVars, vars, locals
<1> QED
  BY <1>1, <1>2, <1>3, <1>4, <1>5, <1>6, <1>7 DEF HNext, Sends

\* Line and memory test keep their invariants, whatever the host sends.
THEOREM MonitorInvariant == HSpec => []MonInv
<1>1. HInit => MonInv
  BY LineStarted, TestStarted DEF MonInv
<1> QED
  BY <1>1, MonStep, PTL DEF HSpec

\* The monitor has one character of buffer and no handshake (rxBuff, readchar
\* of uart.c): none is ever overwritten, for every length of the greeting and
\* every set of records, addresses and bytes that a host streams.
THEOREM NothingOverwritten == HSpec => []KeepsUp
<1>1. MonInv => KeepsUp
  BY DEF MonInv, LineInv
<1> QED
  BY <1>1, MonitorInvariant, PTL

\* The test of monitor.c (case 'm') reports only cells that are stuck or
\* another one, for every size of memory, state of the shift register and
\* number of rounds.
THEOREM TestIsRight == HSpec => []NoFalseAlarm
<1>1. MonInv => NoFalseAlarm
  BY DEF MonInv, TestInv
<1> QED
  BY <1>1, MonitorInvariant, PTL

-----------------------------------------------------------------------------
(***************************************************************************)
(* What is stored: every record, address and byte of every line that       *)
(* reaches the monitor whole.                                              *)
(*                                                                         *)
(* The inductive invariant says how far the monitor is in the line.  A line*)
(* has three parts, one handled, one in the receive buffer, one still with *)
(* the host; the states, the digits and the bytes stored so far are those  *)
(* of the part that is handled.                                            *)
(***************************************************************************)

NewlineChar == Char("newline")

\* Between two lines.
Settled == monState = "none" /\ iState = "none"

\* p characters of text are handled.  A newline of the line before may still
\* wait to be handled.
Handled(text, p) ==
    /\ Len(sending) <= Len(text)
    /\ Len(text) - Len(sending) = IF rx = None THEN p ELSE p + 1
    /\ rx # None => rx = IF p = -1 THEN NewlineChar ELSE text[p + 1]
    /\ \A j \in 1 .. Len(sending) : sending[j] = text[Len(text) - Len(sending) + j]

\* The first digit of byte is in dataVal, over which the second one shifts
\* whatever it held before.
HalfRead(byte) ==
    \A low \in 0 .. Base - 1 :
        (dataVal * Base + low) % ByteRange = (byte \div Base) * Base + low

\* The first so many of the bytes are stored.
StoredChars == {Byte(at, value) : at \in 0 .. AddrRange - 1, value \in 0 .. ByteRange - 1}

Landed(addr, bytes, count) ==
    /\ landed \in Seq(StoredChars) /\ Len(landed) = count
    /\ \A i \in 1 .. count : landed[i] = Byte((addr + i - 1) % AddrRange, bytes[i])

-----------------------------------------------------------------------------
(***************************************************************************)
(* A record, by the bytes and digits handled.                              *)
(***************************************************************************)

Stores(r, k) ==
    IF r.type # 0 \/ k < 4 THEN 0
    ELSE IF k - 4 <= Len(r.data) THEN k - 4 ELSE Len(r.data)

\* The state that k bytes lead to.
StateAfter(r, k) ==
    CASE k = 0      -> "ihexCount"
      [] k \in 1 .. 2 -> "ihexAddr"
      [] k = 3      -> "ihexType"
      [] OTHER      -> IF r.type = 0 THEN "ihexData" ELSE "ihexSkip"

BytesRead(r, k) ==
    /\ iState = StateAfter(r, k)
    /\ monState = IF k \in 1 .. 2 THEN "addr" ELSE "none"
    /\ k >= 1 => ihexN = Len(r.data) - Stores(r, k)
    /\ k = 2 => memPtr = (r.addr \div ByteRange) * ByteRange
    /\ k >= 3 => memPtr = (r.addr + Stores(r, k)) % AddrRange
    /\ Landed(r.addr, r.data, Stores(r, k))

\* n is 1 before a byte, except before the second one of an address.
Start(k) == IF k = 2 THEN 3 ELSE 1

InRecord(r, p) ==
    \/ p \in -1 .. 0 /\ Settled /\ n = 1 /\ landed = <<>>
    \/ \E k \in 0 .. BytesIn(r) :
           p = 2 * k + 1 /\ BytesRead(r, k) /\ n = Start(k)
    \/ \E k \in 0 .. BytesIn(r) - 1 :
           p = 2 * k + 2 /\ BytesRead(r, k) /\ n = Start(k) + 1 /\ HalfRead(ByteOf(r, k + 1))
    \/ /\ p \in 2 * BytesIn(r) + 2 .. 2 * BytesIn(r) + 3 /\ Settled /\ n = 1
       /\ memPtr = (r.addr + Len(Loads(r))) % AddrRange
       /\ Landed(r.addr, r.data, Len(Loads(r)))

RecordOnLine(r) ==
    /\ expected = At(r.addr, Loads(r))
    /\ where = (r.addr + Len(Loads(r))) % AddrRange
    /\ \E p \in -1 .. 2 * BytesIn(r) + 3 : Handled(RecordText(r), p) /\ InRecord(r, p)

-----------------------------------------------------------------------------
(***************************************************************************)
(* An address and a byte.                                                  *)
(***************************************************************************)

InAddress(addr, p) ==
    LET hi == addr \div ByteRange  lo == addr % ByteRange IN
    \/ p \in -1 .. 0 /\ Settled
    \/ p = 1 /\ monState = "addr" /\ iState = "none" /\ n = 1
    \/ p = 2 /\ monState = "addr" /\ iState = "none" /\ n = 2 /\ HalfRead(hi)
    \/ p = 3 /\ monState = "addr" /\ iState = "none" /\ n = 3 /\ memPtr = hi * ByteRange
    \/ p = 4 /\ monState = "addr" /\ iState = "none" /\ n = 4 /\ memPtr = hi * ByteRange /\ HalfRead(lo)
    \/ p \in 5 .. 7 /\ Settled /\ n = 1 /\ memPtr = addr

AddressOnLine(addr) ==
    /\ expected = <<>> /\ landed = <<>> /\ where = addr
    /\ \E p \in -1 .. 7 : Handled(AddressText(addr), p) /\ InAddress(addr, p)

InBytes(byte, at, p) ==
    \/ p \in -1 .. 0 /\ Settled /\ n = 1 /\ memPtr = at /\ landed = <<>>
    \/ p = 1 /\ Settled /\ n = 2 /\ memPtr = at /\ landed = <<>> /\ HalfRead(byte)
    \/ /\ p \in 2 .. 4 /\ Settled /\ n = 1
       /\ memPtr = (at + 1) % AddrRange /\ landed = <<Byte(at, byte)>>

BytesOnLine(byte, at) ==
    /\ expected = At(at, <<byte>>)
    /\ where = (at + 1) % AddrRange
    /\ \E p \in -1 .. 4 : Handled(BytesText(byte), p) /\ InBytes(byte, at, p)

OnLine ==
    /\ kind = "record" => \E r \in Records : RecordOnLine(r)
    /\ kind = "address" => \E addr \in Addresses : AddressOnLine(addr)
    /\ kind = "bytes" => \E byte \in TypedBytes, at \in 0 .. AddrRange - 1 : BytesOnLine(byte, at)

-----------------------------------------------------------------------------
\* Every line, broken off or not, ends with two newlines, and the first of them
\* settles the monitor.
EndInv ==
    /\ Len(sending) >= 1 => sending[Len(sending)] = NewlineChar
    /\ Len(sending) >= 2 => sending[Len(sending) - 1] = NewlineChar
    /\ Len(sending) <= 1 => rx \in {None, NewlineChar}
    /\ Len(sending) = 0 \/ (Len(sending) = 1 /\ rx = None) => Settled

\* The command that has been sent, if not yet handled.
CommandInv ==
    /\ Settled
    /\ sending = <<>> => rx \in {None, Char(kind)}
    /\ sending # <<>> => rx \in {None, NewlineChar}
    /\ expected = <<>> /\ landed = <<>> /\ whole
    /\ pc \notin {"readchar", "write", "check"} => kind \in {"r", "g", "k"}
    /\ aligned =>
           /\ kind # "m" /\ pc \notin {"write", "check"} /\ n = 1
           /\ where = IF kind = "s" /\ (sending # <<>> \/ rx # None)
                      THEN (memPtr + 1) % AddrRange ELSE memPtr

RecordInv ==
    /\ dataVal \in Nat
    /\ where \in 0 .. AddrRange - 1
    /\ stored.done => toWrite > 0
    /\ aligned => whole
    /\ IF kind \in Streamed THEN EndInv ELSE CommandInv
    /\ kind \in Streamed /\ aligned => OnLine

-----------------------------------------------------------------------------
(***************************************************************************)
(* What the monitor does with a character.                                 *)
(***************************************************************************)

\* A digit shifts into dataVal; n, monState and iState choose what else it does.
LEMMA DigitMoves ==
    ASSUME DigitRead
    PROVE  /\ dataVal' = Value
           /\ IF monState = "addr"
              THEN CASE n = 2 ->
                          /\ n' = NextN /\ memPtr' = Value * ByteRange
                          /\ UNCHANGED <<monState, iState, ihexN>>
                     [] n = 4 ->
                          /\ n' = 1 /\ memPtr' = (memPtr + Value) % AddrRange
                          /\ monState' = "none" /\ ihexN' = ihexN
                          /\ iState' = IF iState = "ihexAddr" THEN "ihexType" ELSE iState
                     [] OTHER -> n' = NextN /\ UNCHANGED <<memPtr, monState, iState, ihexN>>
              ELSE n # 2 => n' = NextN /\ UNCHANGED <<memPtr, monState, iState, ihexN>>
           /\ monState = "addr" \/ n # 2 => stored' = Nothing
BY DEF DigitRead, FirstDigit, AddressHigh, AddressLow, SetAddressLow, SecondDigit,
       Count, Type, NotData, Data, Typed, Stays, parser

\* The second digit of a byte outside of an address.
LEMMA ByteMoves ==
    ASSUME DigitRead, monState # "addr", n = 2
    PROVE  /\ n' = 1
           /\ iState = "ihexCount" =>
                  /\ ihexN' = Value /\ monState' = "addr" /\ iState' = "ihexAddr"
                  /\ memPtr' = memPtr /\ stored' = Nothing
           /\ iState # "ihexCount" => monState' = monState
           /\ iState = "ihexType" =>
                  /\ iState' = IF Value > 0 THEN "ihexSkip" ELSE "ihexData"
                  /\ UNCHANGED <<memPtr, ihexN>> /\ stored' = Nothing
           /\ iState = "ihexSkip" \/ (iState = "ihexData" /\ ihexN = 0) =>
                  UNCHANGED <<memPtr, iState, ihexN>> /\ stored' = Nothing
           /\ iState = "ihexData" /\ ihexN # 0 =>
                  /\ memPtr' = (memPtr + 1) % AddrRange /\ stored' = Byte(memPtr, Value)
                  /\ iState' = iState /\ ihexN' = ihexN - 1
           /\ iState \in {"none", "ihexAddr"} =>
                  /\ memPtr' = (memPtr + 1) % AddrRange /\ stored' = Byte(memPtr, Value)
                  /\ UNCHANGED <<iState, ihexN>>
BY DEF DigitRead, FirstDigit, AddressHigh, AddressLow, SetAddressLow, SecondDigit,
       Count, Type, NotData, Data, Typed, Store, Stays, parser

\* Characters that are not digits.
LEMMA KeyMoves ==
    ASSUME Command
    PROVE  /\ rx.key = "newline" =>
                  /\ Settled' /\ ihexN' = 0 /\ pc' = pc /\ UNCHANGED <<memPtr, n>>
           /\ rx.key = ":" =>
                  /\ iState' = "ihexCount" /\ pc' = pc
                  /\ UNCHANGED <<memPtr, n, monState, ihexN>>
           /\ rx.key = "t" =>
                  /\ monState' = "addr" /\ n' = 1 /\ pc' = pc
                  /\ UNCHANGED <<memPtr, iState, ihexN>>
           /\ stored' = Nothing /\ (dataVal' = dataVal \/ dataVal' = 0)
           /\ rx.key # "digit"
<1> USE DEF Settled, Stays, readchar, parser, locals
<1>1. CASE SetAddress \/ ShowByte \/ ShowAddress
  BY <1>1 DEF SetAddress, ShowByte, ShowAddress
<1>2. CASE Newline
  BY <1>2 DEF Newline
<1>3. CASE Colon \/ Other
  BY <1>3 DEF Colon, Other
<1>4. CASE Leave("r", "program") \/ Leave("g", "F089") \/ Leave("k", "C854")
  BY <1>4 DEF Leave
<1>5. CASE StartTest
  BY <1>5 DEF StartTest
<1> QED
  BY <1>1, <1>2, <1>3, <1>4, <1>5 DEF Command

\* A command is one of the characters that neither a record nor an address has.
LEMMA CommandMoves ==
    ASSUME Command, rx.key \notin Keys
    PROVE  /\ rx.key # "m" => UNCHANGED <<monState, iState, n>>
           /\ rx.key = "m" => Settled'
           /\ rx.key = "s" => memPtr' = (memPtr + 1) % AddrRange
           /\ rx.key \notin {"s", "m"} => memPtr' = memPtr
           /\ rx.key \in {"s", "p", "other"} => pc' = pc
           /\ rx.key \notin {"s", "p", "other", "m"} =>
                  rx.key \in {"r", "g", "k"} /\ pc' \notin {"write", "check"}
           /\ rx.key = "m" => pc' = "write"
<1> USE DEF Settled, Stays, readchar, parser, locals, Keys
<1>1. CASE SetAddress \/ ShowByte \/ ShowAddress
  BY <1>1 DEF SetAddress, ShowByte, ShowAddress
<1>2. CASE Newline
  BY <1>2 DEF Newline
<1>3. CASE Colon \/ Other
  BY <1>3 DEF Colon, Other
<1>4. CASE Leave("r", "program") \/ Leave("g", "F089") \/ Leave("k", "C854")
  BY <1>4 DEF Leave
<1>5. CASE StartTest
  BY <1>5 DEF StartTest
<1> QED
  BY <1>1, <1>2, <1>3, <1>4, <1>5 DEF Command

\* A step of the CPU takes a character or leaves the line's states as they are.
LEMMA MainMoves ==
    ASSUME main
    PROVE  \/ /\ putchar /\ UNCHANGED <<pc, rx, memPtr, dataVal, n, monState, iState, ihexN>>
              /\ stored' = Nothing
           \/ /\ DigitRead \/ Command
              /\ pc = "readchar" /\ toWrite = 0 /\ rx # None /\ rx' = None
              /\ DigitRead <=> rx.key = "digit"
              /\ DigitRead => pc' = pc
           \/ /\ pc \in {"write", "check"} /\ pc' \in {"write", "check"}
              /\ UNCHANGED <<rx, dataVal, n, monState, iState, ihexN>>
              /\ stored' = Nothing
<1> USE DEF readchar, Stays, parser, locals, None
<1>1. CASE putchar
  BY <1>1 DEF putchar
<1>2. CASE Command
  <2>1. pc = "readchar" /\ toWrite = 0 /\ rx' = None /\ rx # None /\ rx.key # "digit"
    BY <1>2, KeyMoves DEF Command, SetAddress, ShowByte, ShowAddress, Newline, Colon, Other,
                Leave, StartTest
  <2>2. DigitRead => rx.key = "digit"
    BY DEF DigitRead, FirstDigit, AddressHigh, AddressLow, SetAddressLow, SecondDigit,
           Count, Type, NotData, Data, Typed
  <2> QED
    BY <1>2, <2>1, <2>2
<1>3. CASE DigitRead
  <2>1. pc' = pc /\ \E puts : readchar("digit", puts)
    <3> HIDE DEF readchar
    <3> QED
      BY <1>3 DEF DigitRead, FirstDigit, AddressHigh, AddressLow, SetAddressLow,
                  SecondDigit, Count, Type, NotData, Data, Typed
  <2> QED
    BY <1>3, <2>1
<1>4. CASE MemTest
  BY <1>4 DEF MemTest, WriteCell, Written, CheckCell, NextRound, Testing
<1> QED
  BY <1>1, <1>2, <1>3, <1>4 DEF main

\* A byte is stored with a character to put.
LEMMA StoredMoves == main => (stored'.done => toWrite' > 0)
<1> SUFFICES ASSUME main, stored' # Nothing PROVE toWrite' > 0
  BY DEF Nothing
<1>1. CASE DigitRead
  <2>1. \E puts \in {1} : SecondDigit(puts)
    BY <1>1 DEF DigitRead, FirstDigit, AddressHigh, AddressLow, SetAddressLow,
                Count, Type, NotData, Data, Typed, Stays
  <2> QED
    BY <2>1 DEF SecondDigit, readchar
<1>2. CASE ~DigitRead
  BY <1>2, KeyMoves, MainMoves DEF main
<1> QED
  BY <1>1, <1>2

-----------------------------------------------------------------------------
(***************************************************************************)
(* Digits.                                                                 *)
(***************************************************************************)

LEMMA Ranges ==
    /\ Base \in Nat \ {0, 1} /\ ByteRange \in Nat \ {0} /\ AddrRange \in Nat \ {0}
    /\ CounterRange \in Nat /\ CounterRange > 5 /\ Cells \in 1 .. AddrRange
<1>1. Base \in Nat \ {0, 1}
  BY MonitorAssumption
<1>2. ByteRange \in Nat \ {0}
  BY <1>1 DEF ByteRange
<1>3. AddrRange \in Nat \ {0}
  BY <1>2 DEF AddrRange
<1> QED
  BY <1>1, <1>2, <1>3, MonitorAssumption DEF ByteRange, AddrRange

LEMMA SmallMod ==
    ASSUME NEW b \in Nat \ {0}, NEW x \in 0 .. b - 1
    PROVE  x % b = x
<1>1. x = b * 0 + x
  OBVIOUS
<1> QED
  BY <1>1, DivModUnique

LEMMA ValueType ==
    ASSUME dataVal \in Nat, rx.value \in Nat
    PROVE  Value \in 0 .. ByteRange - 1
<1>1. dataVal * Base + rx.value \in Int
  BY Ranges
<1> QED
  BY <1>1, Ranges, DivMod DEF Value

LEMMA FirstHalf ==
    ASSUME dataVal \in Nat, NEW byte \in 0 .. ByteRange - 1,
           rx.value = byte \div Base, dataVal' = Value
    PROVE  HalfRead(byte)'
<1> DEFINE hi == byte \div Base
<1> DEFINE x == dataVal * Base + hi
<1>1. hi \in 0 .. Base - 1
  BY ByteDigits
<1> HIDE DEF hi
<1>2. x \in Int
  BY <1>1, Ranges
<1>3. dataVal' = x % ByteRange
  BY DEF Value, hi
<1> HIDE DEF x
<1>4. /\ x % ByteRange \in Int /\ x \div ByteRange \in Int
      /\ x = ByteRange * (x \div ByteRange) + (x % ByteRange)
  BY <1>2, DivMod, Ranges
<1> DEFINE q == x \div ByteRange
<1> DEFINE m == x % ByteRange
<1> HIDE DEF q, m
<1>5. m \in Int /\ q \in Int /\ dataVal * Base + hi = (Base * Base) * q + m /\ dataVal' = m
  BY <1>3, <1>4 DEF q, m, x, ByteRange
<1>6. ASSUME NEW low \in 0 .. Base - 1
      PROVE  (m * Base + low) % ByteRange = hi * Base + low
  <2>1. m = dataVal * Base + hi - (Base * Base) * q
    BY <1>1, <1>5, Ranges
  <2>2. m * Base + low = (Base * Base) * (dataVal - Base * q) + (hi * Base + low)
    BY <1>1, <1>5, <2>1, Ranges
  <2>3. hi * Base + low \in 0 .. Base * Base - 1
    <3>1. Base * hi + Base <= Base * Base
      BY <1>1, Ranges, MulMono
    <3>2. Base * hi \in Nat /\ hi * Base = Base * hi
      BY <1>1, Ranges
    <3> QED
      BY <3>1, <3>2, Ranges
  <2>4. dataVal - Base * q \in Int /\ m * Base + low \in Int
    BY <1>5, Ranges
  <2> DEFINE r == hi * Base + low
  <2> DEFINE y == m * Base + low
  <2> DEFINE d == dataVal - Base * q
  <2>5. y = ByteRange * d + r /\ r \in 0 .. ByteRange - 1 /\ y \in Int /\ d \in Int
    BY <2>2, <2>3, <2>4 DEF ByteRange
  <2> HIDE DEF r, y, d
  <2>6. y % ByteRange = r
    BY <2>5, Ranges, DivModUnique
  <2> QED
    BY <2>6 DEF r, y
<1> QED
  BY <1>5, <1>6 DEF HalfRead, hi

LEMMA SecondHalf ==
    ASSUME NEW byte \in 0 .. ByteRange - 1, HalfRead(byte), rx.value = byte % Base
    PROVE  Value = byte
<1>1. byte \div Base \in 0 .. Base - 1 /\ byte % Base \in 0 .. Base - 1
  BY ByteDigits
<1>2. byte = Base * (byte \div Base) + (byte % Base)
  BY Ranges, DivMod
<1>3. (byte \div Base) * Base = Base * (byte \div Base)
  BY <1>1, Ranges
<1> QED
  BY <1>1, <1>2, <1>3 DEF HalfRead, Value

\* The bytes of an address.
LEMMA AddressSum ==
    ASSUME NEW addr \in 0 .. AddrRange - 1
    PROVE  ((addr \div ByteRange) * ByteRange + (addr % ByteRange)) % AddrRange = addr
<1>1. addr = ByteRange * (addr \div ByteRange) + (addr % ByteRange)
  BY Ranges, DivMod
<1>2. (addr \div ByteRange) * ByteRange = ByteRange * (addr \div ByteRange)
  BY Ranges, AddrBytes
<1> QED
  BY <1>1, <1>2, Ranges, SmallMod

\* The byte after the ones counted.
LEMMA NextAddress ==
    ASSUME NEW addr \in Nat, NEW count \in Nat
    PROVE  (((addr + count) % AddrRange) + 1) % AddrRange = (addr + (count + 1)) % AddrRange
<1> DEFINE x == addr + count
<1> DEFINE q == x \div AddrRange
<1> DEFINE m == x % AddrRange
<1> DEFINE q1 == (m + 1) \div AddrRange
<1> DEFINE m1 == (m + 1) % AddrRange
<1>3. x \in Nat
  OBVIOUS
<1> HIDE DEF x
<1>1. q \in Int /\ m \in 0 .. AddrRange - 1 /\ x = AddrRange * q + m
  BY <1>3, Ranges, DivMod
<1> HIDE DEF q, m
<1>2. q1 \in Int /\ m1 \in 0 .. AddrRange - 1 /\ m + 1 = AddrRange * q1 + m1
  BY <1>1, Ranges, DivMod
<1> HIDE DEF q1, m1
<1>4. x + 1 = AddrRange * (q + q1) + m1
  BY <1>1, <1>2, <1>3, Ranges
<1>5. (x + 1) % AddrRange = m1
  BY <1>1, <1>2, <1>3, <1>4, Ranges, DivModUnique
<1>6. x + 1 = addr + (count + 1)
  BY DEF x
<1> QED
  BY <1>5, <1>6 DEF m1, m, x

-----------------------------------------------------------------------------
(***************************************************************************)
(* The line moves on.                                                      *)
(***************************************************************************)

LEMMA HandledKept ==
    ASSUME NEW text, NEW p, Handled(text, p), UNCHANGED <<rx, sending>>
    PROVE  Handled(text, p)'
BY DEF Handled

LEMMA HandledRead ==
    ASSUME NEW text, NEW p \in Int, Handled(text, p), rx # None, rx' = None, sending' = sending
    PROVE  Handled(text, p + 1)'
BY DEF Handled

LEMMA HandledArrive ==
    ASSUME NEW S, NEW text \in Seq(S), NEW p \in Int, Handled(text, p), sending \in Seq(S),
           sending # <<>>, rx = None, rx' = Head(sending), sending' = Tail(sending), rx' # None
    PROVE  Handled(text, p)'
<1>1. /\ Len(text) \in Nat /\ Len(sending) \in Nat \ {0} /\ Len(sending') = Len(sending) - 1
      /\ rx' = sending[1] /\ \A i \in 1 .. Len(sending') : sending'[i] = sending[i + 1]
  BY HeadTailProperties
<1>2. /\ Len(sending) <= Len(text) /\ Len(text) - Len(sending) = p
      /\ \A j \in 1 .. Len(sending) : sending[j] = text[Len(text) - Len(sending) + j]
  BY DEF Handled
<1>3. p >= 0 /\ rx' = text[p + 1]
  BY <1>1, <1>2
<1>4. ASSUME NEW j \in 1 .. Len(sending')
      PROVE  sending'[j] = text[Len(text) - Len(sending') + j]
  <2>1. j + 1 \in 1 .. Len(sending)
    BY <1>1
  <2>2. Len(text) - Len(sending) + (j + 1) = Len(text) - Len(sending') + j
    BY <1>1
  <2> QED
    BY <1>1, <1>2, <2>1, <2>2
<1>5. /\ Len(sending') <= Len(text) /\ Len(text) - Len(sending') = p + 1 /\ p # -1
  <2>2. Len(sending') \in Nat
    BY <1>1
  <2>3. Len(sending') <= Len(text)
    BY <1>1, <1>2, <2>2
  <2>4. Len(text) - Len(sending') = p + 1
    <3> DEFINE a == Len(text)
    <3> DEFINE b == Len(sending)
    <3> DEFINE c == Len(sending')
    <3>1. a \in Int /\ b \in Int /\ c \in Int /\ a - b = p /\ c = b - 1
      BY <1>1, <1>2
    <3> HIDE DEF a, b, c
    <3>2. a - c = p + 1
      BY ONLY p \in Int, <3>1
    <3> QED
      BY <3>2 DEF a, c
  <2>5. p # -1
    BY <1>3
  <2> QED
    BY <2>3, <2>4, <2>5
<1>6. /\ Len(text) - Len(sending') = IF rx' = None THEN p ELSE p + 1
      /\ rx' # None => rx' = IF p = -1 THEN NewlineChar ELSE text[p + 1]
  BY <1>3, <1>5
<1> QED
  BY <1>4, <1>5, <1>6 DEF Handled

\* A line as the host begins it.
LEMMA HandledBegun ==
    ASSUME NEW S, NEW text \in Seq(S), sending' = text, rx' \in {None, NewlineChar}
    PROVE  /\ rx' = None => Handled(text, 0)'
           /\ rx' # None => Handled(text, -1)'
<1>1. /\ Len(text) \in Nat /\ Len(sending') = Len(text) /\ Len(sending') <= Len(text)
      /\ Len(text) - Len(sending') = 0 /\ -1 + 1 = 0
  OBVIOUS
<1>2. \A j \in 1 .. Len(sending') : sending'[j] = text[Len(text) - Len(sending') + j]
  BY <1>1
<1> QED
  BY <1>1, <1>2 DEF Handled

LEMMA LandedNone ==
    ASSUME NEW addr, NEW bytes
    PROVE  landed = <<>> <=> Landed(addr, bytes, 0)
<1>1. landed = <<>> => Landed(addr, bytes, 0)
  BY EmptySeq DEF Landed
<1>2. Landed(addr, bytes, 0) => landed = <<>>
  BY EmptySeq DEF Landed
<1> QED
  BY <1>1, <1>2

LEMMA LandedNext ==
    ASSUME NEW addr \in 0 .. AddrRange - 1, NEW bytes, NEW count \in Nat,
           bytes[count + 1] \in 0 .. ByteRange - 1,
           Landed(addr, bytes, count),
           landed' = Append(landed, Byte((addr + count) % AddrRange, bytes[count + 1]))
    PROVE  Landed(addr, bytes, count + 1)'
<1> DEFINE char == Byte((addr + count) % AddrRange, bytes[count + 1])
<1>1. (addr + count) % AddrRange \in 0 .. AddrRange - 1
  <2> DEFINE x == addr + count
  <2>1. x \in Int
    OBVIOUS
  <2> HIDE DEF x
  <2>2. x % AddrRange \in 0 .. AddrRange - 1
    BY <2>1, Ranges, DivMod
  <2> QED
    BY <2>2 DEF x
<1>2. char \in StoredChars
  BY <1>1 DEF StoredChars
<1>3. landed' = Append(landed, char)
  OBVIOUS
<1>a. addr + (count + 1) - 1 = addr + count
  OBVIOUS
<1>b. char = Byte((addr + (count + 1) - 1) % AddrRange, bytes[count + 1])
  BY <1>a
<1> HIDE DEF char
<1>4. landed \in Seq(StoredChars) /\ Len(landed) = count
  BY DEF Landed
<1>5. /\ landed' \in Seq(StoredChars) /\ Len(landed') = count + 1
      /\ \A i \in 1 .. count : landed'[i] = landed[i]
      /\ landed'[count + 1] = char
  BY <1>2, <1>3, <1>4, AppendProperties
<1>6. ASSUME NEW i \in 1 .. count + 1
      PROVE  landed'[i] = Byte((addr + i - 1) % AddrRange, bytes[i])
  <2>1. CASE i = count + 1
    BY <1>5, <1>b, <2>1
  <2>2. CASE i # count + 1
    <3>1. i \in 1 .. count
      BY <2>2
    <3> QED
      BY <1>5, <3>1 DEF Landed
  <2> QED
    BY <2>1, <2>2
<1> QED
  BY <1>5, <1>6 DEF Landed

\* All that was to be stored.
LEMMA LandedAll ==
    ASSUME NEW addr, NEW bytes \in Seq(0 .. ByteRange - 1), Landed(addr, bytes, Len(bytes))
    PROVE  landed = At(addr, bytes)
<1>1. Len(bytes) \in Nat /\ DOMAIN bytes = 1 .. Len(bytes)
  OBVIOUS
<1>2. landed \in Seq(StoredChars) /\ Len(landed) = Len(bytes)
  BY DEF Landed
<1>3. landed = [i \in 1 .. Len(bytes) |-> landed[i]]
  BY <1>1, <1>2
<1>4. At(addr, bytes) = [i \in 1 .. Len(bytes) |-> Byte((addr + i - 1) % AddrRange, bytes[i])]
  BY <1>1 DEF At
<1> QED
  BY <1>3, <1>4 DEF Landed

-----------------------------------------------------------------------------
(***************************************************************************)
(* A character of a record is handled.                                     *)
(***************************************************************************)

\* A character of a line that counts: what it stores lands.
Reads ==
    /\ DigitRead \/ Command
    /\ DigitRead <=> rx.key = "digit"
    /\ rx # None /\ rx' = None
    /\ dataVal \in Nat /\ rx \in StreamChars
    /\ landed' = IF stored'.done THEN Append(landed, stored') ELSE landed
    /\ UNCHANGED <<sending, expected, where>>

LEMMA NewlineRead ==
    ASSUME Reads, rx = NewlineChar
    PROVE  Settled' /\ UNCHANGED <<memPtr, n, landed>>
BY KeyMoves DEF Reads, NewlineChar, Char, Nothing

LEMMA FirstDigitRead ==
    ASSUME Reads, NEW byte \in 0 .. ByteRange - 1, rx = Digit(byte \div Base),
           n \in 1 .. 3, n # 2
    PROVE  /\ n' = n + 1 /\ HalfRead(byte)'
           /\ UNCHANGED <<memPtr, monState, iState, ihexN, landed>>
<1>1. DigitRead /\ rx.value = byte \div Base
  BY DEF Reads, Digit
<1>2. NextN = n + 1
  <2>1. n + 1 \in 0 .. CounterRange - 1 /\ CounterRange \in Nat \ {0}
    BY Ranges
  <2> QED
    BY <2>1, SmallMod DEF NextN
<1>3. HalfRead(byte)'
  BY <1>1, DigitMoves, FirstHalf DEF Reads
<1> QED
  BY <1>1, <1>2, <1>3, DigitMoves DEF Reads, Nothing

LEMMA SecondDigitRead ==
    ASSUME Reads, NEW byte \in 0 .. ByteRange - 1, rx = Digit(byte % Base), HalfRead(byte)
    PROVE  DigitRead /\ Value = byte
<1>1. DigitRead /\ rx.value = byte % Base
  BY DEF Reads, Digit
<1> QED
  BY <1>1, SecondHalf

LEMMA StoresType ==
    ASSUME NEW r \in Records
    PROVE  /\ \A k \in Int : Stores(r, k) \in 0 .. Len(r.data)
           /\ \A k \in 0 .. 4 : Stores(r, k) = 0
           /\ BytesIn(r) \in Nat /\ BytesIn(r) >= 5 /\ Len(r.data) \in Nat
           /\ Stores(r, BytesIn(r)) = Len(Loads(r))
<1>1. Len(r.data) \in Nat /\ BytesIn(r) = Len(r.data) + 5
  BY RecordIsTyped DEF RecordTyped, BytesIn
<1>2. Len(<<>>) = 0
  BY EmptySeq
<1> QED
  BY <1>1, <1>2 DEF Stores, Loads

\* Before its data a record stores nothing.
LEMMA StoresNothing ==
    ASSUME NEW r \in Records, NEW k \in 0 .. 3
    PROVE  Stores(r, k) = 0 /\ Stores(r, k + 1) = 0 /\ Len(r.data) \in Nat
<1>1. k \in 0 .. 4 /\ k + 1 \in 0 .. 4
  OBVIOUS
<1> QED
  BY <1>1, StoresType

\* The byte after the first k of a record.
LEMMA ByteRead ==
    ASSUME NEW r \in Records, NEW k \in 0 .. BytesIn(r) - 1, Reads, BytesRead(r, k),
           n = Start(k) + 1, HalfRead(ByteOf(r, k + 1)), rx = Digit(ByteOf(r, k + 1) % Base)
    PROVE  BytesRead(r, k + 1)' /\ n' = Start(k + 1)
<1> DEFINE byte == ByteOf(r, k + 1)
<1>1. byte \in 0 .. ByteRange - 1
  <2>1. k + 1 \in 1 .. BytesIn(r)
    BY StoresType
  <2> QED
    BY <2>1, RecordTextType
<1>2. DigitRead /\ Value = byte
  BY <1>1, SecondDigitRead
<1>3. RecordTyped(r) /\ Len(r.data) \in Nat /\ BytesIn(r) = Len(r.data) + 5
  BY RecordIsTyped DEF RecordTyped, BytesIn
<1>4. CASE k = 0
  <2>1. byte = Len(r.data) /\ iState = "ihexCount" /\ monState = "none" /\ n = 2
    BY <1>4 DEF ByteOf, BytesRead, StateAfter, Start
  <2>2. /\ ihexN' = Len(r.data) /\ monState' = "addr" /\ iState' = "ihexAddr"
        /\ landed' = landed /\ n' = 1
    BY <1>2, <2>1, ByteMoves DEF Reads, Nothing
  <2>3. Stores(r, k) = 0 /\ Stores(r, k + 1) = 0 /\ Len(r.data) \in Nat
    BY <1>4, StoresNothing
  <2>4. Landed(r.addr, r.data, 0)'
    BY <2>2, <2>3 DEF BytesRead, Landed
  <2> QED
    BY <1>4, <2>2, <2>3, <2>4 DEF BytesRead, StateAfter, Start
<1>5. CASE k = 1
  <2>1. byte = r.addr \div ByteRange /\ iState = "ihexAddr" /\ monState = "addr" /\ n = 2
    BY <1>5 DEF ByteOf, BytesRead, StateAfter, Start
  <2>2. NextN = 3
    <3>1. 3 \in 0 .. CounterRange - 1 /\ CounterRange \in Nat \ {0}
      BY Ranges
    <3> QED
      BY <2>1, <3>1, SmallMod DEF NextN
  <2>3. /\ memPtr' = (r.addr \div ByteRange) * ByteRange /\ n' = 3
        /\ UNCHANGED <<monState, iState, ihexN, landed>>
    BY <1>2, <2>1, <2>2, DigitMoves DEF Reads, Nothing
  <2>4. Stores(r, k) = 0 /\ Stores(r, k + 1) = 0 /\ Len(r.data) \in Nat
    BY <1>5, StoresNothing
  <2>5. Landed(r.addr, r.data, 0)'
    BY <2>3, <2>4 DEF BytesRead, Landed
  <2> QED
    BY <1>5, <2>1, <2>3, <2>4, <2>5 DEF BytesRead, StateAfter, Start
<1>6. CASE k = 2
  <2>1. /\ byte = r.addr % ByteRange /\ iState = "ihexAddr" /\ monState = "addr" /\ n = 4
        /\ memPtr = (r.addr \div ByteRange) * ByteRange
    BY <1>6 DEF ByteOf, BytesRead, StateAfter, Start
  <2>2. (memPtr + byte) % AddrRange = r.addr
    BY <1>3, <2>1, AddressSum DEF RecordTyped
  <2>3. /\ memPtr' = r.addr /\ n' = 1 /\ monState' = "none" /\ iState' = "ihexType"
        /\ UNCHANGED <<ihexN, landed>>
    BY <1>2, <2>1, <2>2, DigitMoves DEF Reads, Nothing
  <2>4. /\ Stores(r, k) = 0 /\ Stores(r, k + 1) = 0 /\ Len(r.data) \in Nat
        /\ (r.addr + 0) % AddrRange = r.addr
    <3>1. r.addr + 0 = r.addr /\ r.addr % AddrRange = r.addr
      BY <1>3, Ranges, SmallMod DEF RecordTyped
    <3>2. Stores(r, k) = 0 /\ Stores(r, k + 1) = 0 /\ Len(r.data) \in Nat
      BY <1>6, StoresNothing
    <3> QED
      BY <3>1, <3>2
  <2>5. Landed(r.addr, r.data, 0)'
    BY <2>3, <2>4 DEF BytesRead, Landed
  <2> QED
    BY <1>6, <2>3, <2>4, <2>5 DEF BytesRead, StateAfter, Start
<1>7. CASE k = 3
  <2>1. byte = r.type /\ iState = "ihexType" /\ monState = "none" /\ n = 2
    BY <1>3, <1>7, StoresType DEF ByteOf, BytesRead, StateAfter, Start
  <2>2. /\ iState' = IF r.type = 0 THEN "ihexData" ELSE "ihexSkip"
        /\ n' = 1 /\ UNCHANGED <<memPtr, monState, ihexN, landed>>
    BY <1>1, <1>2, <2>1, ByteMoves DEF Reads, Nothing
  <2>3. Stores(r, k) = 0 /\ Stores(r, k + 1) = 0 /\ Len(r.data) \in Nat
    BY <1>7, StoresNothing
  <2>4. Landed(r.addr, r.data, 0)'
    BY <2>2, <2>3 DEF BytesRead, Landed
  <2> QED
    BY <1>7, <2>1, <2>2, <2>3, <2>4 DEF BytesRead, StateAfter, Start
<1>8. CASE k >= 4 /\ (r.type # 0 \/ k = BytesIn(r) - 1)
  <2>1. /\ monState = "none" /\ n = 2
        /\ iState = "ihexSkip" \/ (iState = "ihexData" /\ ihexN = 0)
        /\ Stores(r, k + 1) = Stores(r, k)
    BY <1>3, <1>8, StoresType DEF BytesIn, BytesRead, StateAfter, Start, Stores
  <2>2. n' = 1 /\ UNCHANGED <<memPtr, monState, iState, ihexN, landed>>
    BY <1>2, <2>1, ByteMoves DEF Reads, Nothing
  <2>3. Landed(r.addr, r.data, Stores(r, k + 1))'
    BY <2>1, <2>2 DEF BytesRead, Landed
  <2> QED
    BY <1>8, <2>1, <2>2, <2>3 DEF BytesRead, StateAfter, Start
<1>9. CASE k >= 4 /\ r.type = 0 /\ k # BytesIn(r) - 1
  <2> DEFINE count == k - 4
  <2>0. /\ Len(r.data) \in Nat /\ BytesIn(r) = Len(r.data) + 5
        /\ count \in 0 .. Len(r.data) - 1
    BY <1>3, <1>9
  <2>1. /\ Stores(r, k) = count /\ Stores(r, k + 1) = count + 1
        /\ byte = r.data[count + 1]
    BY <1>9, <2>0, SMTT(30) DEF Stores, ByteOf
  <2>2. /\ monState = "none" /\ n = 2 /\ iState = "ihexData"
        /\ ihexN = Len(r.data) - count /\ ihexN # 0
        /\ memPtr = (r.addr + count) % AddrRange /\ Landed(r.addr, r.data, count)
    BY <1>9, <2>0, <2>1, SMTT(30) DEF BytesRead, StateAfter, Start
  <2>3. /\ n' = 1 /\ memPtr' = (memPtr + 1) % AddrRange
        /\ stored' = Byte(memPtr, byte) /\ ihexN' = ihexN - 1
        /\ UNCHANGED <<monState, iState>>
    BY <1>2, <2>2, ByteMoves
  <2>4. landed' = Append(landed, Byte((r.addr + count) % AddrRange, r.data[count + 1]))
    BY <2>1, <2>2, <2>3 DEF Reads, Byte
  <2>5. ihexN' = Len(r.data) - (count + 1)
    BY <2>0, <2>2, <2>3
  <2>6. count \in Nat /\ count + 1 \in 1 .. Len(r.data)
    BY <2>0
  <2> HIDE DEF count
  <2>7. /\ r.addr \in 0 .. AddrRange - 1 /\ r.addr \in Nat
        /\ r.data[count + 1] \in 0 .. ByteRange - 1
    BY <1>3, <2>6, Ranges DEF RecordTyped
  <2>8. Landed(r.addr, r.data, count + 1)'
    BY <2>2, <2>4, <2>6, <2>7, LandedNext
  <2>9. memPtr' = (r.addr + (count + 1)) % AddrRange
    BY <2>2, <2>3, <2>6, <2>7, NextAddress
  <2> QED
    BY <1>9, <2>1, <2>2, <2>3, <2>5, <2>8, <2>9 DEF BytesRead, StateAfter, Start
<1> QED
  BY <1>3, <1>4, <1>5, <1>6, <1>7, <1>8, <1>9

\* The character at the head of the line, and where it leads.
LEMMA NextRead ==
    ASSUME NEW text \in Seq(StreamChars), sending \in Seq(StreamChars),
           NEW p \in Int, Handled(text, p), Reads
    PROVE  /\ p + 1 <= Len(text) /\ rx = IF p = -1 THEN NewlineChar ELSE text[p + 1]
           /\ Handled(text, p + 1)'
<1>1. Len(text) \in Nat /\ Len(sending) \in Nat
  OBVIOUS
<1> QED
  BY <1>1, HandledRead, SMTT(30) DEF Handled, Reads

LEMMA RecordRead ==
    ASSUME NEW r \in Records, RecordOnLine(r), sending \in Seq(StreamChars), Reads
    PROVE  RecordOnLine(r)'
<1> DEFINE c == BytesIn(r)
<1> DEFINE text == RecordText(r)
<1>1. PICK p \in -1 .. 2 * c + 3 : Handled(text, p) /\ InRecord(r, p)
  BY DEF RecordOnLine
<1>2. /\ c \in Nat /\ c >= 5 /\ text \in Seq(StreamChars) /\ Len(text) = 2 * c + 3
      /\ text[1] = Char(":")
      /\ \A k \in 1 .. c : /\ ByteOf(r, k) \in 0 .. ByteRange - 1
                            /\ text[2 * k] = Digit(ByteOf(r, k) \div Base)
                            /\ text[2 * k + 1] = Digit(ByteOf(r, k) % Base)
      /\ text[2 * c + 2] = NewlineChar /\ text[2 * c + 3] = NewlineChar
  BY RecordTextType, StoresType DEF NewlineChar
<1>a. p \in Int
  BY <1>1
<1> HIDE DEF c, text
<1>3. /\ p + 1 <= 2 * c + 3 /\ rx = IF p = -1 THEN NewlineChar ELSE text[p + 1]
      /\ Handled(text, p + 1)'
  BY <1>1, <1>2, <1>a, NextRead
<1>4. InRecord(r, p + 1)'
  <2>1. CASE p = -1 /\ Settled /\ n = 1 /\ landed = <<>>
    <3>1. Settled' /\ n' = 1 /\ landed' = <<>>
      BY <1>3, <2>1, NewlineRead
    <3> QED
      BY <2>1, <3>1 DEF InRecord
  <2>2. CASE p = 0 /\ Settled /\ n = 1 /\ landed = <<>>
    <3>1. rx = Char(":")
      BY <1>2, <1>3, <2>2
    <3>2. iState' = "ihexCount" /\ UNCHANGED <<monState, n, landed>>
      BY <3>1, KeyMoves DEF Reads, Char, Nothing
    <3>3. Stores(r, 0) = 0
      BY DEF Stores
    <3>4. Landed(r.addr, r.data, 0)'
      <4>1. landed' = <<>>
        BY <2>2, <3>2
      <4> QED
        BY <4>1, EmptySeq DEF Landed
    <3>5. BytesRead(r, 0)' /\ n' = Start(0)
      BY <2>2, <3>2, <3>3, <3>4 DEF BytesRead, StateAfter, Start, Settled
    <3> QED
      BY <1>2, <2>2, <3>5 DEF InRecord, c
  <2>3. ASSUME NEW k \in 0 .. c, p = 2 * k + 1, BytesRead(r, k), n = Start(k)
        PROVE  InRecord(r, p + 1)'
    <3>1. CASE k = c
      <4>1. rx = NewlineChar
        BY <1>2, <1>3, <2>3, <3>1
      <4>2. Settled' /\ UNCHANGED <<memPtr, n, landed>>
        BY <4>1, NewlineRead
      <4>3. Stores(r, k) = Len(Loads(r)) /\ k >= 3 /\ Start(k) = 1
        <5>1. Stores(r, k) = Len(Loads(r))
          BY <3>1, StoresType DEF c
        <5>2. k >= 3
          BY <1>2, <3>1
        <5> QED
          BY <5>1, <5>2 DEF Start
      <4>4. /\ memPtr' = (r.addr + Len(Loads(r))) % AddrRange
            /\ Landed(r.addr, r.data, Len(Loads(r)))'
        BY <2>3, <4>2, <4>3 DEF BytesRead, Landed
      <4>5. p + 1 \in 2 * c + 2 .. 2 * c + 3
        BY <1>2, <2>3, <3>1
      <4> QED
        BY <2>3, <4>2, <4>3, <4>4, <4>5 DEF InRecord, c
    <3>2. CASE k # c
      <4>1. k \in 0 .. c - 1 /\ k + 1 \in 1 .. c /\ p + 1 = 2 * (k + 1) /\ p # -1
        BY <1>2, <2>3, <3>2
      <4>2. rx = Digit(ByteOf(r, k + 1) \div Base) /\ ByteOf(r, k + 1) \in 0 .. ByteRange - 1
        <5>1. rx = text[2 * (k + 1)]
          BY <1>3, <4>1
        <5> QED
          BY <1>2, <4>1, <5>1
      <4>3. n \in 1 .. 3 /\ n # 2
        BY <2>3 DEF Start
      <4>4. /\ n' = n + 1 /\ HalfRead(ByteOf(r, k + 1))'
            /\ UNCHANGED <<memPtr, monState, iState, ihexN, landed>>
        BY <4>2, <4>3, FirstDigitRead
      <4>5. BytesRead(r, k)'
        BY <2>3, <4>4 DEF BytesRead, Landed
      <4>6. p + 1 = 2 * k + 2
        BY <2>3
      <4> QED
        BY <2>3, <4>1, <4>4, <4>5, <4>6 DEF InRecord, c
    <3> QED
      BY <3>1, <3>2
  <2>4. ASSUME NEW k \in 0 .. c - 1, p = 2 * k + 2, BytesRead(r, k), n = Start(k) + 1,
               HalfRead(ByteOf(r, k + 1))
        PROVE  InRecord(r, p + 1)'
    <3>1. k + 1 \in 1 .. c /\ p + 1 = 2 * (k + 1) + 1 /\ p # -1
      BY <1>2, <2>4
    <3>2. rx = Digit(ByteOf(r, k + 1) % Base)
      BY <1>2, <1>3, <3>1
    <3>3. BytesRead(r, k + 1)' /\ n' = Start(k + 1)
      BY <2>4, <3>2, ByteRead DEF c
    <3>4. k + 1 \in 0 .. c
      BY <3>1
    <3> QED
      BY <3>1, <3>3, <3>4 DEF InRecord, c
  <2>5. CASE /\ p \in 2 * c + 2 .. 2 * c + 3 /\ Settled /\ n = 1
             /\ memPtr = (r.addr + Len(Loads(r))) % AddrRange
             /\ Landed(r.addr, r.data, Len(Loads(r)))
    <3>1. p = 2 * c + 2 /\ p # -1 /\ p + 1 = 2 * c + 3
      BY <1>2, <1>3, <2>5
    <3>2. rx = NewlineChar
      BY <1>2, <1>3, <3>1
    <3>3. Settled' /\ UNCHANGED <<memPtr, n, landed>>
      BY <3>2, NewlineRead
    <3>4. Landed(r.addr, r.data, Len(Loads(r)))'
      BY <2>5, <3>3 DEF Landed
    <3>5. p + 1 \in 2 * c + 2 .. 2 * c + 3
      BY <1>2, <3>1
    <3> QED
      BY <2>5, <3>3, <3>4, <3>5 DEF InRecord, c
  <2>6. p \in -1 .. 0 => p = -1 \/ p = 0
    OBVIOUS
  <2> QED
    BY <1>1, <2>1, <2>2, <2>3, <2>4, <2>5, <2>6 DEF InRecord, c
<1>5. p + 1 \in -1 .. 2 * c + 3
  BY <1>1, <1>2, <1>3
<1>6. expected' = At(r.addr, Loads(r)) /\ where' = (r.addr + Len(Loads(r))) % AddrRange
  BY DEF RecordOnLine, Reads
<1> QED
  BY <1>3, <1>4, <1>5, <1>6 DEF RecordOnLine, c, text

-----------------------------------------------------------------------------
(***************************************************************************)
(* A character of an address or of a byte is handled.                      *)
(***************************************************************************)

LEMMA AddressRead ==
    ASSUME NEW addr \in Addresses, AddressOnLine(addr), sending \in Seq(StreamChars), Reads
    PROVE  AddressOnLine(addr)'
<1> DEFINE text == AddressText(addr)
<1> DEFINE hi == addr \div ByteRange
<1> DEFINE lo == addr % ByteRange
<1>1. PICK p \in -1 .. 7 : Handled(text, p) /\ InAddress(addr, p)
  BY DEF AddressOnLine
<1>2. /\ text \in Seq(StreamChars) /\ Len(text) = 7 /\ text[1] = Char("t")
      /\ hi \in 0 .. ByteRange - 1 /\ lo \in 0 .. ByteRange - 1
      /\ text[2] = Digit(hi \div Base) /\ text[3] = Digit(hi % Base)
      /\ text[4] = Digit(lo \div Base) /\ text[5] = Digit(lo % Base)
      /\ text[6] = NewlineChar /\ text[7] = NewlineChar
  BY AddressTextType DEF NewlineChar
<1>a. p \in Int
  BY <1>1
<1>b. addr \in 0 .. AddrRange - 1
  BY HostAssumption
<1>c. (hi * ByteRange + lo) % AddrRange = addr
  BY <1>b, AddressSum
<1>d. /\ \/ p \in -1 .. 0 /\ Settled
         \/ p = 1 /\ monState = "addr" /\ iState = "none" /\ n = 1
         \/ p = 2 /\ monState = "addr" /\ iState = "none" /\ n = 2 /\ HalfRead(hi)
         \/ p = 3 /\ monState = "addr" /\ iState = "none" /\ n = 3 /\ memPtr = hi * ByteRange
         \/ p = 4 /\ monState = "addr" /\ iState = "none" /\ n = 4 /\ memPtr = hi * ByteRange
            /\ HalfRead(lo)
         \/ p \in 5 .. 7 /\ Settled /\ n = 1 /\ memPtr = addr
  BY <1>1 DEF InAddress
<1> HIDE DEF text, hi, lo
<1>3. /\ p + 1 <= 7 /\ rx = IF p = -1 THEN NewlineChar ELSE text[p + 1]
      /\ Handled(text, p + 1)'
  BY <1>1, <1>2, <1>a, NextRead
<1>4. InAddress(addr, p + 1)' /\ landed' = landed
  <2>1. CASE p = -1 /\ Settled
    <3>1. Settled' /\ landed' = landed
      BY <1>3, <2>1, NewlineRead
    <3> QED
      BY <2>1, <3>1 DEF InAddress
  <2>2. CASE p = 0 /\ Settled
    <3>1. rx = Char("t")
      BY <1>2, <1>3, <2>2
    <3>2. monState' = "addr" /\ n' = 1 /\ UNCHANGED <<iState, landed>>
      BY <3>1, KeyMoves DEF Reads, Char, Nothing
    <3> QED
      BY <2>2, <3>2 DEF InAddress, Settled
  <2>3. CASE p = 1 /\ monState = "addr" /\ iState = "none" /\ n = 1
    <3>1. rx = Digit(hi \div Base)
      BY <1>2, <1>3, <2>3
    <3>2. n' = 2 /\ HalfRead(hi)' /\ UNCHANGED <<monState, iState, landed>>
      BY <1>2, <2>3, <3>1, FirstDigitRead
    <3> QED
      BY <2>3, <3>2 DEF InAddress, hi
  <2>4. CASE p = 2 /\ monState = "addr" /\ iState = "none" /\ n = 2 /\ HalfRead(hi)
    <3>1. rx = Digit(hi % Base)
      BY <1>2, <1>3, <2>4
    <3>2. DigitRead /\ Value = hi
      BY <1>2, <2>4, <3>1, SecondDigitRead
    <3>3. NextN = 3
      <4>1. 3 \in 0 .. CounterRange - 1 /\ CounterRange \in Nat \ {0}
        BY Ranges
      <4> QED
        BY <2>4, <4>1, SmallMod DEF NextN
    <3>4. n' = 3 /\ memPtr' = hi * ByteRange /\ UNCHANGED <<monState, iState, landed>>
      BY <2>4, <3>2, <3>3, DigitMoves DEF Reads, Nothing
    <3> QED
      BY <2>4, <3>4 DEF InAddress, hi
  <2>5. CASE p = 3 /\ monState = "addr" /\ iState = "none" /\ n = 3 /\ memPtr = hi * ByteRange
    <3>1. rx = Digit(lo \div Base)
      BY <1>2, <1>3, <2>5
    <3>2. n' = 4 /\ HalfRead(lo)' /\ UNCHANGED <<memPtr, monState, iState, landed>>
      BY <1>2, <2>5, <3>1, FirstDigitRead
    <3> QED
      BY <2>5, <3>2 DEF InAddress, hi, lo
  <2>6. CASE /\ p = 4 /\ monState = "addr" /\ iState = "none" /\ n = 4
             /\ memPtr = hi * ByteRange /\ HalfRead(lo)
    <3>1. rx = Digit(lo % Base)
      BY <1>2, <1>3, <2>6
    <3>2. DigitRead /\ Value = lo
      BY <1>2, <2>6, <3>1, SecondDigitRead
    <3>3. /\ n' = 1 /\ memPtr' = addr /\ monState' = "none" /\ iState' = "none"
          /\ landed' = landed
      BY <1>c, <2>6, <3>2, DigitMoves DEF Reads, Nothing
    <3> QED
      BY <2>6, <3>3 DEF InAddress, Settled
  <2>7. CASE p \in 5 .. 7 /\ Settled /\ n = 1 /\ memPtr = addr
    <3>1. rx = NewlineChar /\ p + 1 \in 5 .. 7
      <4>1. p = 5 \/ p = 6
        BY <1>3, <2>7
      <4> QED
        BY <1>2, <1>3, <4>1
    <3>2. Settled' /\ UNCHANGED <<memPtr, n, landed>>
      BY <3>1, NewlineRead
    <3> QED
      BY <2>7, <3>1, <3>2 DEF InAddress
  <2> QED
    BY <1>d, <2>1, <2>2, <2>3, <2>4, <2>5, <2>6, <2>7
<1>5. p + 1 \in -1 .. 7
  BY <1>1, <1>3
<1>6. expected' = <<>> /\ landed' = <<>> /\ where' = addr
  BY <1>4 DEF AddressOnLine, Reads
<1> QED
  BY <1>3, <1>4, <1>5, <1>6 DEF AddressOnLine, text

LEMMA BytesReadOn ==
    ASSUME NEW byte \in TypedBytes, NEW at \in 0 .. AddrRange - 1, BytesOnLine(byte, at),
           sending \in Seq(StreamChars), Reads
    PROVE  BytesOnLine(byte, at)'
<1> DEFINE text == BytesText(byte)
<1>1. PICK p \in -1 .. 4 : Handled(text, p) /\ InBytes(byte, at, p)
  BY DEF BytesOnLine
<1>2. /\ text \in Seq(StreamChars) /\ Len(text) = 4 /\ byte \in 0 .. ByteRange - 1
      /\ text[1] = Digit(byte \div Base) /\ text[2] = Digit(byte % Base)
      /\ text[3] = NewlineChar /\ text[4] = NewlineChar
  BY BytesTextType DEF NewlineChar
<1>a. p \in Int
  BY <1>1
<1> HIDE DEF text
<1>3. /\ p + 1 <= 4 /\ rx = IF p = -1 THEN NewlineChar ELSE text[p + 1]
      /\ Handled(text, p + 1)'
  BY <1>1, <1>2, <1>a, NextRead
<1>4. InBytes(byte, at, p + 1)'
  <2>1. CASE p = -1 /\ Settled /\ n = 1 /\ memPtr = at /\ landed = <<>>
    <3>1. Settled' /\ UNCHANGED <<memPtr, n, landed>>
      BY <1>3, <2>1, NewlineRead
    <3> QED
      BY <2>1, <3>1 DEF InBytes
  <2>2. CASE p = 0 /\ Settled /\ n = 1 /\ memPtr = at /\ landed = <<>>
    <3>1. rx = Digit(byte \div Base)
      BY <1>2, <1>3, <2>2
    <3>2. n' = 2 /\ HalfRead(byte)' /\ UNCHANGED <<memPtr, monState, iState, landed>>
      BY <1>2, <2>2, <3>1, FirstDigitRead
    <3> QED
      BY <2>2, <3>2 DEF InBytes, Settled
  <2>3. CASE p = 1 /\ Settled /\ n = 2 /\ memPtr = at /\ landed = <<>> /\ HalfRead(byte)
    <3>1. rx = Digit(byte % Base)
      BY <1>2, <1>3, <2>3
    <3>2. DigitRead /\ Value = byte
      BY <1>2, <2>3, <3>1, SecondDigitRead
    <3>3. /\ n' = 1 /\ memPtr' = (at + 1) % AddrRange /\ stored' = Byte(at, byte)
          /\ UNCHANGED <<monState, iState>>
      BY <2>3, <3>2, ByteMoves DEF Settled
    <3>4. landed' = <<Byte(at, byte)>>
      <4>1. landed' = Append(landed, stored')
        BY <3>3 DEF Reads, Byte
      <4>2. \A e : Append(<<>>, e) = <<e>>
        OBVIOUS
      <4> QED
        BY <2>3, <3>3, <4>1, <4>2
    <3> QED
      BY <2>3, <3>3, <3>4 DEF InBytes, Settled
  <2>4. CASE /\ p \in 2 .. 4 /\ Settled /\ n = 1
             /\ memPtr = (at + 1) % AddrRange /\ landed = <<Byte(at, byte)>>
    <3>1. rx = NewlineChar /\ p + 1 \in 2 .. 4
      <4>1. p = 2 \/ p = 3
        BY <1>3, <2>4
      <4> QED
        BY <1>2, <1>3, <4>1
    <3>2. Settled' /\ UNCHANGED <<memPtr, n, landed>>
      BY <3>1, NewlineRead
    <3> QED
      BY <2>4, <3>1, <3>2 DEF InBytes
  <2>5. p \in -1 .. 0 => p = -1 \/ p = 0
    OBVIOUS
  <2> QED
    BY <1>1, <2>1, <2>2, <2>3, <2>4, <2>5 DEF InBytes
<1>5. p + 1 \in -1 .. 4
  BY <1>1, <1>3
<1>6. expected' = At(at, <<byte>>) /\ where' = (at + 1) % AddrRange
  BY DEF BytesOnLine, Reads
<1> QED
  BY <1>3, <1>4, <1>5, <1>6 DEF BytesOnLine, text

-----------------------------------------------------------------------------
(***************************************************************************)
(* The line as a whole.                                                    *)
(***************************************************************************)

LEMMA OnLineRead ==
    ASSUME OnLine, sending \in Seq(StreamChars), Reads, kind' = kind
    PROVE  OnLine'
<1>1. CASE kind = "record"
  BY <1>1, RecordRead DEF OnLine
<1>2. CASE kind = "address"
  BY <1>2, AddressRead DEF OnLine
<1>3. CASE kind = "bytes"
  BY <1>3, BytesReadOn DEF OnLine
<1> QED
  BY <1>1, <1>2, <1>3 DEF OnLine

LEMMA OnLineKept ==
    ASSUME OnLine, UNCHANGED <<kind, locals, landed, expected, where>>,
           \A text \in Seq(StreamChars), p \in Int : Handled(text, p) => Handled(text, p)'
    PROVE  OnLine'
<1> USE DEF locals, parser
<1>1. \A byte : HalfRead(byte) => HalfRead(byte)'
  BY DEF HalfRead
<1>2. ASSUME NEW r \in Records, RecordOnLine(r) PROVE RecordOnLine(r)'
  <2>1. PICK p \in -1 .. 2 * BytesIn(r) + 3 : Handled(RecordText(r), p) /\ InRecord(r, p)
    BY <1>2 DEF RecordOnLine
  <2>2. p \in Int
    BY <2>1
  <2>3. Handled(RecordText(r), p)'
    BY <2>1, <2>2, RecordTextType
  <2>4. InRecord(r, p)'
    BY <1>1, <2>1 DEF InRecord, BytesRead, Landed, Settled
  <2> QED
    BY <1>2, <2>1, <2>3, <2>4 DEF RecordOnLine
<1>3. ASSUME NEW addr \in Addresses, AddressOnLine(addr) PROVE AddressOnLine(addr)'
  <2>1. PICK p \in -1 .. 7 : Handled(AddressText(addr), p) /\ InAddress(addr, p)
    BY <1>3 DEF AddressOnLine
  <2>2. p \in Int
    BY <2>1
  <2>3. Handled(AddressText(addr), p)'
    BY <2>1, <2>2, AddressTextType
  <2>4. InAddress(addr, p)'
    BY <1>1, <2>1 DEF InAddress, Settled
  <2> QED
    BY <1>3, <2>1, <2>3, <2>4 DEF AddressOnLine
<1>4. ASSUME NEW byte \in TypedBytes, NEW at \in 0 .. AddrRange - 1, BytesOnLine(byte, at)
      PROVE  BytesOnLine(byte, at)'
  <2>1. PICK p \in -1 .. 4 : Handled(BytesText(byte), p) /\ InBytes(byte, at, p)
    BY <1>4 DEF BytesOnLine
  <2>2. p \in Int
    BY <2>1
  <2>3. Handled(BytesText(byte), p)'
    BY <2>1, <2>2, BytesTextType
  <2>4. InBytes(byte, at, p)'
    BY <1>1, <2>1 DEF InBytes, Settled
  <2> QED
    BY <1>4, <2>1, <2>3, <2>4 DEF BytesOnLine
<1> QED
  BY <1>2, <1>3, <1>4 DEF OnLine

\* A line that has been sent and whose digits are all handled.
LEMMA OnLineDone ==
    ASSUME OnLine, kind \in Streamed, sending = <<>>
    PROVE  n = 1 /\ memPtr = where /\ landed = expected
<1>1. Len(sending) = 0
  BY EmptySeq
<1>2. CASE kind = "record"
  <2>1. PICK r \in Records : RecordOnLine(r)
    BY <1>2 DEF OnLine
  <2> DEFINE c == BytesIn(r)
  <2>2. PICK p \in -1 .. 2 * c + 3 : Handled(RecordText(r), p) /\ InRecord(r, p)
    BY <2>1 DEF RecordOnLine
  <2>3. c \in Nat /\ Len(RecordText(r)) = 2 * c + 3
    BY RecordTextType, StoresType
  <2> HIDE DEF c
  <2>4. p \in 2 * c + 2 .. 2 * c + 3
    BY <1>1, <2>2, <2>3 DEF Handled
  <2>5. /\ n = 1 /\ memPtr = (r.addr + Len(Loads(r))) % AddrRange
        /\ Landed(r.addr, r.data, Len(Loads(r)))
    <3>1. p \notin -1 .. 0
      BY <2>3, <2>4
    <3>2. \A k \in 0 .. c : p # 2 * k + 1
      BY <2>3, <2>4
    <3>3. \A k \in 0 .. c - 1 : p # 2 * k + 2
      BY <2>3, <2>4
    <3> QED
      BY <2>2, <3>1, <3>2, <3>3 DEF InRecord, c
  <2>6. landed = At(r.addr, Loads(r))
    <3>1. CASE r.type = 0
      BY <2>5, <3>1, LandedAll, HostAssumption DEF Loads
    <3>2. CASE r.type # 0
      <4>1. Loads(r) = <<>> /\ landed = <<>>
        BY <2>5, <3>2, EmptySeq, LandedNone DEF Loads
      <4>2. Landed(r.addr, <<>>, 0)
        BY <4>1, LandedNone
      <4>3. <<>> \in Seq(0 .. ByteRange - 1) /\ Len(<<>>) = 0
        BY EmptySeq
      <4> QED
        BY <4>1, <4>2, <4>3, LandedAll
    <3> QED
      BY <3>1, <3>2
  <2> QED
    BY <2>1, <2>5, <2>6 DEF RecordOnLine
<1>3. CASE kind = "address"
  <2>1. PICK addr \in Addresses : AddressOnLine(addr)
    BY <1>3 DEF OnLine
  <2>2. PICK p \in -1 .. 7 : Handled(AddressText(addr), p) /\ InAddress(addr, p)
    BY <2>1 DEF AddressOnLine
  <2>3. p \in 6 .. 7
    BY <1>1, <2>2, AddressTextType, SMTT(30) DEF Handled
  <2> QED
    BY <2>1, <2>2, <2>3 DEF InAddress, AddressOnLine
<1>4. CASE kind = "bytes"
  <2>1. PICK byte \in TypedBytes, at \in 0 .. AddrRange - 1 : BytesOnLine(byte, at)
    BY <1>4 DEF OnLine
  <2>2. PICK p \in -1 .. 4 : Handled(BytesText(byte), p) /\ InBytes(byte, at, p)
    BY <2>1 DEF BytesOnLine
  <2>3. p \in 3 .. 4
    BY <1>1, <2>2, BytesTextType DEF Handled
  <2>4. n = 1 /\ memPtr = (at + 1) % AddrRange /\ landed = <<Byte(at, byte)>>
    BY <2>2, <2>3 DEF InBytes
  <2>5. At(at, <<byte>>) = <<Byte(at, byte)>>
    <3>1. at + 1 - 1 = at /\ at % AddrRange = at
      BY Ranges, SmallMod
    <3> QED
      BY <3>1 DEF At
  <2> QED
    BY <2>1, <2>4, <2>5 DEF BytesOnLine
<1> QED
  BY <1>2, <1>3, <1>4 DEF Streamed

-----------------------------------------------------------------------------
(***************************************************************************)
(* Every step keeps the invariant.                                         *)
(***************************************************************************)

LEMMA RecordStarted == HInit => RecordInv
<1> SUFFICES ASSUME HInit PROVE RecordInv
  OBVIOUS
<1>1. 0 \in 0 .. AddrRange - 1
  BY Ranges
<1>2. kind = "none" /\ kind \notin Streamed
  BY DEF HInit, Streamed
<1>3. CommandInv
  BY <1>2 DEF HInit, Init, CommandInv, Settled
<1> QED
  BY <1>1, <1>2, <1>3 DEF HInit, Init, RecordInv, Nothing

\* A step of the CPU in a streamed line.
LEMMA StreamCpu ==
    ASSUME LineInv, RecordInv, Cpu, kind \in Streamed
    PROVE  EndInv' /\ (aligned => OnLine')
<1>1. /\ EndInv /\ sending \in Seq(StreamChars) /\ rx \in StreamChars \cup {None}
      /\ pc = "readchar" /\ main /\ dataVal \in Nat
      /\ stored.done => toWrite > 0
      /\ aligned => whole /\ OnLine
      /\ landed' = IF whole /\ ~stored.done /\ stored'.done THEN Append(landed, stored')
                   ELSE landed
      /\ UNCHANGED <<sending, kind, expected, where>>
  BY DEF LineInv, RecordInv, Streaming, Cpu
<1>2. CASE /\ putchar /\ UNCHANGED <<pc, rx, memPtr, dataVal, n, monState, iState, ihexN>>
           /\ stored' = Nothing
  <2>1. EndInv'
    BY <1>1, <1>2 DEF EndInv, Settled
  <2>2. landed' = landed
    BY <1>1, <1>2 DEF Nothing
  <2>3. \A text \in Seq(StreamChars), p \in Int : Handled(text, p) => Handled(text, p)'
    BY <1>1, <1>2, HandledKept
  <2> QED
    BY <1>1, <1>2, <2>1, <2>2, <2>3, OnLineKept DEF locals, parser
<1>3. CASE /\ DigitRead \/ Command
           /\ pc = "readchar" /\ toWrite = 0 /\ rx # None /\ rx' = None
           /\ DigitRead <=> rx.key = "digit"
           /\ DigitRead => pc' = pc
  <2>1. EndInv'
    <3>1. CASE Len(sending) <= 1
      <4>1. rx = NewlineChar /\ ~DigitRead
        BY <1>1, <1>3, <3>1 DEF EndInv, NewlineChar, Char
      <4>2. Settled'
        BY <1>3, <4>1, KeyMoves DEF NewlineChar, Char
      <4> QED
        BY <1>1, <1>3, <4>2 DEF EndInv
    <3>2. CASE ~(Len(sending) <= 1)
      <4>1. 0 <= 1 /\ 1 <= 1
        OBVIOUS
      <4>2. ~(Len(sending) = 0) /\ ~(Len(sending) = 1)
        BY <3>2, <4>1, Zenon
      <4> QED
        BY <1>1, <1>3, <3>2, <4>2 DEF EndInv
    <3> QED
      BY <3>1, <3>2
  <2>2. aligned => Reads
    BY <1>1, <1>3 DEF Reads
  <2> QED
    BY <1>1, <2>1, <2>2, OnLineRead
<1> QED
  BY <1>1, <1>2, <1>3, MainMoves

\* A step of the CPU when the host has sent a command.
LEMMA CommandCpu ==
    ASSUME LineInv, RecordInv, Cpu, kind \notin Streamed
    PROVE  CommandInv'
<1>1. /\ CommandInv /\ main /\ LineType /\ Commanding
      /\ landed' = IF whole /\ ~stored.done /\ stored'.done THEN Append(landed, stored')
                   ELSE landed
      /\ UNCHANGED <<sending, kind, expected, where, whole, aligned>>
  BY DEF LineInv, RecordInv, Cpu
<1>2. CASE /\ putchar /\ UNCHANGED <<pc, rx, memPtr, dataVal, n, monState, iState, ihexN>>
           /\ stored' = Nothing
  <2>1. landed' = landed
    BY <1>1, <1>2 DEF Nothing
  <2> QED
    BY <1>1, <1>2, <2>1 DEF CommandInv, Settled
<1>3. CASE /\ DigitRead \/ Command
           /\ pc = "readchar" /\ toWrite = 0 /\ rx # None /\ rx' = None
           /\ DigitRead <=> rx.key = "digit"
           /\ DigitRead => pc' = pc
  <2>1. CASE sending # <<>>
    <3>1. rx = NewlineChar /\ rx.key = "newline"
      BY <1>1, <1>3, <2>1 DEF CommandInv, NewlineChar, Char
    <3>2. Settled' /\ pc' = pc /\ UNCHANGED <<memPtr, n>> /\ stored' = Nothing
      BY <1>3, <3>1, KeyMoves
    <3>3. landed' = landed
      BY <1>1, <3>2 DEF Nothing
    <3> QED
      BY <1>1, <1>3, <2>1, <3>2, <3>3 DEF CommandInv
  <2>2. CASE sending = <<>>
    <3>1. rx = Char(kind) /\ rx.key = kind /\ kind \in Commands
      <4>1. rx = Char(kind)
        BY <1>1, <1>3, <2>2 DEF CommandInv
      <4>2. kind # "none"
        BY <1>3, <4>1 DEF Char, None
      <4>3. kind \in Commands
        BY <1>1, <4>2 DEF LineType
      <4> QED
        BY <4>1, <4>3 DEF Char
    <3>2. rx.key \notin Keys /\ rx.key # "digit" /\ Command
      BY <1>3, <3>1 DEF Commands, Keys
    <3>3. stored' = Nothing /\ landed' = landed
      BY <1>1, <3>2, KeyMoves DEF Nothing
    <3>4. Settled'
      BY <1>1, <3>2, CommandMoves DEF CommandInv, Settled
    <3>5. pc' \notin {"readchar", "write", "check"} => kind \in {"r", "g", "k"}
      BY <1>3, <3>1, <3>2, CommandMoves
    <3>6. aligned => /\ kind # "m" /\ pc' \notin {"write", "check"} /\ n' = 1
                     /\ where = memPtr'
      BY <1>1, <1>3, <2>2, <3>1, <3>2, CommandMoves DEF CommandInv
    <3> QED
      BY <1>1, <1>3, <2>2, <3>3, <3>4, <3>5, <3>6 DEF CommandInv
  <2> QED
    BY <2>1, <2>2
<1>4. CASE /\ pc \in {"write", "check"} /\ pc' \in {"write", "check"}
           /\ UNCHANGED <<rx, dataVal, n, monState, iState, ihexN>>
           /\ stored' = Nothing
  <2>1. landed' = landed
    BY <1>1, <1>4 DEF Nothing
  <2> QED
    BY <1>1, <1>4, <2>1 DEF CommandInv, Settled
<1> QED
  BY <1>1, <1>2, <1>3, <1>4, MainMoves

LEMMA RecordCpu == ASSUME LineInv, RecordInv, Cpu PROVE RecordInv'
<1>1. dataVal' \in Nat
  <2>1. CASE DigitRead
    <3>1. rx.key = "digit" /\ rx # None
      BY <2>1, MainMoves DEF main, DigitRead, FirstDigit, AddressHigh, AddressLow,
         SetAddressLow, SecondDigit, Count, Type, NotData, Data, Typed, readchar, None
    <3>2. rx.value \in Nat
      BY <3>1, Ranges, ElementKeys DEF LineInv, LineType, StreamChars, Commands, Keys
    <3>3. Value \in 0 .. ByteRange - 1
      BY <3>2, ValueType DEF RecordInv
    <3>4. Value \in Nat
      BY <3>3, Ranges
    <3> QED
      BY <2>1, <3>4, DigitMoves
  <2>2. CASE Command
    BY <2>2, KeyMoves DEF RecordInv
  <2>3. CASE putchar \/ MemTest
    BY <2>3 DEF putchar, MemTest, WriteCell, Written, CheckCell, NextRound, Testing,
                locals, RecordInv
  <2> QED
    BY <2>1, <2>2, <2>3 DEF Cpu, main
<1>2. stored'.done => toWrite' > 0
  BY StoredMoves DEF Cpu
<1>3. UNCHANGED <<kind, where, whole, aligned>>
  BY DEF Cpu
<1> QED
  BY <1>1, <1>2, <1>3, StreamCpu, CommandCpu DEF RecordInv

LEMMA RecordArrive == ASSUME LineInv, LineInv', RecordInv, Arrive PROVE RecordInv'
<1>1. /\ sending # <<>> /\ rx = None /\ rx' = Head(sending) /\ sending' = Tail(sending)
      /\ UNCHANGED <<pc, toWrite, locals, stored, kind, expected, landed, where, whole, aligned>>
  <2>1. ~overrun'
    BY DEF LineInv, KeepsUp
  <2> QED
    BY <2>1 DEF Arrive
<1>2. CASE kind \in Streamed
  <2>1. sending \in Seq(StreamChars) /\ rx' \in StreamChars /\ rx' # None
    BY <1>1, <1>2, HeadTailProperties, ElementKeys DEF LineInv, Streaming
  <2>2. /\ Len(sending) \in Nat \ {0} /\ Len(sending') = Len(sending) - 1
        /\ rx' = sending[1] /\ \A i \in 1 .. Len(sending') : sending'[i] = sending[i + 1]
    BY <1>1, <2>1, HeadTailProperties
  <2>3. EndInv'
    <3> DEFINE m == Len(sending)
    <3>0. /\ m \in Nat \ {0} /\ Len(sending') = m - 1 /\ rx' = sending[1]
          /\ \A i \in 1 .. m - 1 : sending'[i] = sending[i + 1]
      BY <2>2
    <3>1. /\ sending[m] = NewlineChar
          /\ m >= 2 => sending[m - 1] = NewlineChar
          /\ m = 1 => Settled
      BY <1>1, <1>2, <3>0 DEF RecordInv, EndInv
    <3> HIDE DEF m
    <3>2. m - 1 >= 1 => sending'[m - 1] = NewlineChar
      BY <3>0, <3>1
    <3>3. m - 1 >= 2 => sending'[m - 1 - 1] = NewlineChar
      <4>1. m - 1 >= 2 => m - 1 - 1 \in 1 .. m - 1 /\ m - 1 - 1 + 1 = m - 1 /\ m >= 2
        BY <3>0
      <4> QED
        BY <3>0, <3>1, <4>1
    <3>4. m - 1 <= 1 => rx' \in {None, NewlineChar}
      <4>1. m - 1 <= 1 => m = 1 \/ (m = 2 /\ m >= 2 /\ m - 1 = 1)
        BY <3>0
      <4> QED
        BY <3>0, <3>1, <4>1
    <3>5. m - 1 = 0 \/ (m - 1 = 1 /\ rx' = None) => Settled'
      <4>1. m - 1 = 0 => m = 1
        BY <3>0
      <4> QED
        BY <1>1, <2>1, <3>1, <4>1 DEF Settled, locals, parser
    <3> QED
      BY <3>0, <3>2, <3>3, <3>4, <3>5 DEF EndInv
  <2>4. ASSUME aligned PROVE OnLine'
    <3>1. ASSUME NEW text \in Seq(StreamChars), NEW p \in Int, Handled(text, p)
          PROVE  Handled(text, p)'
      BY <1>1, <2>1, <3>1, HandledArrive
    <3> QED
      BY <1>1, <1>2, <2>4, <3>1, OnLineKept DEF RecordInv
  <2> QED
    BY <1>1, <1>2, <2>3, <2>4 DEF RecordInv, locals
<1>3. CASE kind \notin Streamed
  <2>1. sending = <<Char(kind)>> /\ kind \in Commands /\ pc = "readchar"
    BY <1>1, <1>3 DEF LineInv, Commanding
  <2>2. rx' = Char(kind) /\ sending' = <<>> /\ rx' # None
    BY <1>1, <2>1 DEF Char, None, Commands
  <2>3. CommandInv'
    BY <1>1, <1>3, <2>1, <2>2 DEF RecordInv, CommandInv, Settled, locals, parser
  <2> QED
    BY <1>1, <1>3, <2>3 DEF RecordInv, locals
<1> QED
  BY <1>2, <1>3

\* Before a line the monitor is settled; in step, it is where the host thinks.
LEMMA AtRest ==
    ASSUME LineInv, RecordInv, sending = <<>>, kind \notin Streamed => Quiet
    PROVE  /\ Settled /\ rx \in {None, NewlineChar}
           /\ aligned => n = 1 /\ memPtr = where
<1>1. Len(sending) = 0 /\ 0 <= 1
  BY EmptySeq
<1>2. CASE kind \in Streamed
  <2>1. Settled /\ rx \in {None, NewlineChar}
    BY <1>1, <1>2 DEF RecordInv, EndInv
  <2> QED
    BY <1>2, <2>1, OnLineDone DEF RecordInv
<1>3. CASE kind \notin Streamed
  BY <1>3 DEF RecordInv, CommandInv, Quiet
<1> QED
  BY <1>2, <1>3

LEMMA EndOfLine ==
    ASSUME NEW text \in Seq(StreamChars), Len(text) >= 4, sending' = text,
           text[Len(text)] = NewlineChar, text[Len(text) - 1] = NewlineChar
    PROVE  EndInv'
BY DEF EndInv

LEMMA WhereType ==
    ASSUME NEW at \in Nat, NEW step, where' = IF step THEN at % AddrRange ELSE 0
    PROVE  where' \in 0 .. AddrRange - 1
<1>1. at % AddrRange \in 0 .. AddrRange - 1
  BY Ranges, DivMod
<1>2. 0 \in 0 .. AddrRange - 1
  BY Ranges
<1>3. CASE step
  BY <1>1, <1>3
<1>4. CASE ~step
  BY <1>2, <1>4
<1> QED
  BY <1>3, <1>4

\* What Line does to the host's record of the line.
Begins(text, what, bytes, at, step) ==
    /\ sending' = text /\ kind' = what
    /\ expected' = bytes /\ landed' = <<>>
    /\ where' = IF step THEN at % AddrRange ELSE 0
    /\ whole' = TRUE /\ aligned' = step
    /\ UNCHANGED <<pc, rx, toWrite, locals, stored>>
    /\ Settled /\ rx \in {None, NewlineChar}
    /\ aligned => n = 1 /\ memPtr = where

LEMMA LineBegins ==
    ASSUME LineInv, RecordInv, NEW text, NEW what, NEW bytes, NEW at, NEW step,
           Line(text, what, bytes, at, step)
    PROVE  Begins(text, what, bytes, at, step)
<1>1. /\ sending = <<>> /\ (kind \notin Streamed => Quiet)
      /\ UNCHANGED <<pc, rx, toWrite, locals, stored>>
  BY DEF Line, vars, line
<1> QED
  BY <1>1, AtRest DEF Line, Begins

LEMMA RecordSent == ASSUME LineInv, RecordInv, SendRecord PROVE RecordInv'
<1>1. PICK r \in Records :
          Line(RecordText(r), "record", At(r.addr, Loads(r)), r.addr + Len(Loads(r)), aligned)
  BY DEF SendRecord
<1>2. Begins(RecordText(r), "record", At(r.addr, Loads(r)), r.addr + Len(Loads(r)), aligned)
  BY <1>1, LineBegins
<1> DEFINE c == BytesIn(r)
<1> DEFINE text == RecordText(r)
<1>3. /\ c \in Nat /\ text \in Seq(StreamChars) /\ Len(text) = 2 * c + 3
      /\ text[2 * c + 2] = NewlineChar /\ text[2 * c + 3] = NewlineChar /\ c >= 5
  BY RecordTextType, StoresType DEF NewlineChar
<1>4. r.addr + Len(Loads(r)) \in Nat
  <2>1. r.addr \in Nat /\ Len(r.data) \in Nat /\ Len(<<>>) = 0
    BY RecordIsTyped, Ranges, EmptySeq DEF RecordTyped
  <2> QED
    BY <2>1 DEF Loads
<1>5. EndInv'
  <2>1. sending' = text
    BY <1>2 DEF Begins
  <2> HIDE DEF text, c
  <2>2. Len(text) - 1 = 2 * c + 2 /\ Len(text) >= 4
    BY <1>3
  <2> QED
    BY <1>3, <2>1, <2>2, EndOfLine
<1>6. where' \in 0 .. AddrRange - 1
  BY <1>2, <1>4, WhereType DEF Begins
<1>7. ASSUME aligned PROVE RecordOnLine(r)'
  <2>1. sending' = text /\ rx' \in {None, NewlineChar}
    BY <1>2 DEF Begins
  <2>2. (rx' = None => Handled(text, 0)') /\ (rx' # None => Handled(text, -1)')
    BY <1>3, <2>1, HandledBegun
  <2>3. InRecord(r, 0)' /\ InRecord(r, -1)'
    BY <1>2, <1>7 DEF Begins, InRecord, Settled, locals, parser
  <2>4. 0 \in -1 .. 2 * c + 3 /\ -1 \in -1 .. 2 * c + 3
    BY <1>3
  <2>5. \E p \in -1 .. 2 * c + 3 : Handled(text, p)' /\ InRecord(r, p)'
    BY <2>2, <2>3, <2>4
  <2> QED
    BY <1>2, <1>7, <2>5 DEF Begins, RecordOnLine
<1> QED
  BY <1>2, <1>5, <1>6, <1>7 DEF Begins, RecordInv, OnLine, Streamed, locals

LEMMA AddressSent == ASSUME LineInv, RecordInv, SendAddress PROVE RecordInv'
<1>1. PICK addr \in Addresses : Line(AddressText(addr), "address", <<>>, addr, TRUE)
  BY DEF SendAddress, AddressText
<1>2. Begins(AddressText(addr), "address", <<>>, addr, TRUE)
  BY <1>1, LineBegins
<1> DEFINE text == AddressText(addr)
<1>3. /\ text \in Seq(StreamChars) /\ Len(text) = 7
      /\ text[6] = NewlineChar /\ text[7] = NewlineChar
  BY AddressTextType DEF NewlineChar
<1>4. addr \in 0 .. AddrRange - 1 /\ addr % AddrRange = addr
  BY HostAssumption, Ranges, SmallMod
<1>5. EndInv'
  <2>1. sending' = text
    BY <1>2 DEF Begins
  <2> HIDE DEF text
  <2>2. Len(text) - 1 = 6 /\ Len(text) >= 4
    BY <1>3
  <2> QED
    BY <1>3, <2>1, <2>2, EndOfLine
<1>6. where' = addr
  BY <1>2, <1>4 DEF Begins
<1>7. AddressOnLine(addr)'
  <2>1. sending' = text /\ rx' \in {None, NewlineChar}
    BY <1>2 DEF Begins
  <2>2. (rx' = None => Handled(text, 0)') /\ (rx' # None => Handled(text, -1)')
    BY <1>3, <2>1, HandledBegun
  <2>3. InAddress(addr, 0)' /\ InAddress(addr, -1)'
    BY <1>2 DEF Begins, InAddress, Settled, locals, parser
  <2>4. \E p \in -1 .. 7 : Handled(text, p)' /\ InAddress(addr, p)'
    BY <2>2, <2>3
  <2> QED
    BY <1>2, <1>6, <2>4 DEF Begins, AddressOnLine
<1> QED
  BY <1>2, <1>4, <1>5, <1>6, <1>7 DEF Begins, RecordInv, OnLine, Streamed, locals

LEMMA BytesSent == ASSUME LineInv, RecordInv, SendBytes PROVE RecordInv'
<1>1. PICK byte \in TypedBytes :
          Line(BytesText(byte), "bytes", At(where, <<byte>>), where + 1, aligned)
  BY DEF SendBytes, BytesText
<1> DEFINE at == where
<1> DEFINE text == BytesText(byte)
<1>2. /\ sending' = text /\ kind' = "bytes" /\ landed' = <<>>
      /\ expected' = At(where, <<byte>>)
      /\ where' = IF aligned THEN (where + 1) % AddrRange ELSE 0
      /\ whole' = TRUE /\ aligned' = aligned
      /\ UNCHANGED <<pc, rx, toWrite, locals, stored>>
      /\ Settled /\ rx \in {None, NewlineChar} /\ (aligned => n = 1 /\ memPtr = where)
  <2>1. /\ sending = <<>> /\ (kind \notin Streamed => Quiet)
        /\ UNCHANGED <<pc, rx, toWrite, locals, stored>>
    BY <1>1 DEF Line, vars, line
  <2> QED
    BY <1>1, <2>1, AtRest DEF Line
<1>3. /\ text \in Seq(StreamChars) /\ Len(text) = 4
      /\ text[3] = NewlineChar /\ text[4] = NewlineChar
  BY BytesTextType DEF NewlineChar
<1>4. where \in 0 .. AddrRange - 1 /\ where + 1 \in Nat
  BY Ranges DEF RecordInv
<1>5. EndInv'
  <2>1. sending' = text
    BY <1>2
  <2> HIDE DEF text
  <2>2. Len(text) - 1 = 3 /\ Len(text) >= 4
    BY <1>3
  <2> QED
    BY <1>3, <2>1, <2>2, EndOfLine
<1>6. where' \in 0 .. AddrRange - 1
  BY <1>2, <1>4, WhereType
<1>7. ASSUME aligned PROVE \E a \in 0 .. AddrRange - 1 : BytesOnLine(byte, a)'
  <2>2. (rx' = None => Handled(text, 0)') /\ (rx' # None => Handled(text, -1)')
    BY <1>2, <1>3, HandledBegun
  <2>3. PICK a \in 0 .. AddrRange - 1 : a = where
    BY <1>4
  <2>4. InBytes(byte, a, 0)' /\ InBytes(byte, a, -1)'
    BY <1>2, <1>7, <2>3 DEF InBytes, Settled, locals, parser
  <2>5. \E p \in -1 .. 4 : Handled(text, p)' /\ InBytes(byte, a, p)'
    BY <2>2, <2>4
  <2>6. expected' = At(a, <<byte>>) /\ where' = (a + 1) % AddrRange
    BY <1>2, <1>7, <2>3
  <2>7. BytesOnLine(byte, a)'
    BY <2>5, <2>6 DEF BytesOnLine
  <2> QED
    BY <2>7
<1> QED
  BY <1>2, <1>5, <1>6, <1>7 DEF RecordInv, OnLine, Streamed, locals

LEMMA CommandSent == ASSUME LineInv, RecordInv, SendCommand PROVE RecordInv'
<1>1. PICK key \in Commands :
          Line(<<Char(key)>>, key, <<>>, where + (IF key = "s" THEN 1 ELSE 0),
               aligned /\ key # "m")
  BY DEF SendCommand
<1>2. /\ sending' = <<Char(key)>> /\ sending' # <<>> /\ kind' = key
      /\ expected' = <<>> /\ landed' = <<>>
      /\ where' = IF aligned /\ key # "m"
                  THEN (where + (IF key = "s" THEN 1 ELSE 0)) % AddrRange ELSE 0
      /\ whole' = TRUE /\ aligned' = (aligned /\ key # "m") /\ pc = "readchar"
      /\ UNCHANGED <<pc, rx, toWrite, locals, stored>>
      /\ Settled /\ rx \in {None, NewlineChar} /\ (aligned => n = 1 /\ memPtr = where)
  <2>1. /\ sending = <<>> /\ (kind \notin Streamed => Quiet)
        /\ UNCHANGED <<pc, rx, toWrite, locals, stored>>
    BY <1>1 DEF Line, vars, line
  <2> QED
    BY <1>1, <2>1, AtRest DEF Line
<1>3. where \in 0 .. AddrRange - 1 /\ where + 1 \in Nat /\ where + 0 = where
  BY Ranges DEF RecordInv
<1>4. where % AddrRange = where
  BY <1>3, Ranges, SmallMod
<1>5. where' \in 0 .. AddrRange - 1
  <2>1. where + (IF key = "s" THEN 1 ELSE 0) \in Nat
    BY <1>3, Ranges
  <2> QED
    BY <1>2, <2>1, WhereType
<1>6. CommandInv'
  BY <1>2, <1>3, <1>4 DEF CommandInv, Settled, locals, parser
<1> QED
  BY <1>2, <1>5, <1>6 DEF RecordInv, Commands, Streamed, locals

LEMMA RecordBreak == ASSUME LineInv, RecordInv, Break PROVE RecordInv'
<1>1. /\ kind \in Streamed /\ Len(sending) > 2 /\ sending \in Seq(StreamChars)
      /\ sending' \in {LineEnd, Tail(sending)}
      /\ whole' = FALSE /\ aligned' = FALSE /\ where' = 0
      /\ UNCHANGED <<pc, rx, toWrite, locals, stored, kind>>
  BY LineEndType DEF Break, LineInv, Streaming, vars, line
<1>2. /\ Len(sending') >= 2
      /\ sending'[Len(sending')] = NewlineChar /\ sending'[Len(sending') - 1] = NewlineChar
  <2>1. CASE sending' = LineEnd
    BY <2>1, LineEndType DEF NewlineChar
  <2>2. CASE sending' = Tail(sending)
    <3> DEFINE m == Len(sending)
    <3>1. m \in Nat /\ m > 2 /\ sending # <<>>
      BY <1>1, EmptySeq
    <3>2. /\ Len(sending') = m - 1
          /\ \A i \in 1 .. m - 1 : sending'[i] = sending[i + 1]
      BY <1>1, <2>2, <3>1, HeadTailProperties
    <3>3. sending[m] = NewlineChar /\ sending[m - 1] = NewlineChar
      BY <1>1, <3>1 DEF RecordInv, EndInv
    <3> HIDE DEF m
    <3>4. /\ m - 1 \in 1 .. m - 1 /\ m - 1 - 1 \in 1 .. m - 1
          /\ m - 1 + 1 = m /\ m - 1 - 1 + 1 = m - 1
      BY <3>1
    <3> QED
      BY <3>1, <3>2, <3>3, <3>4
  <2> QED
    BY <1>1, <2>1, <2>2
<1>3. EndInv'
  BY <1>2 DEF EndInv
<1>4. 0 \in 0 .. AddrRange - 1
  BY Ranges
<1> QED
  BY <1>1, <1>3, <1>4 DEF RecordInv, locals

LEMMA RecordTransmitter == ASSUME RecordInv, Transmitter PROVE RecordInv'
<1>1. UNCHANGED <<pc, rx, toWrite, locals, stored, sending, kind, expected, landed, where,
                  whole, aligned>>
  BY DEF Transmitter, Sent, host
<1>2. EndInv => EndInv'
  BY <1>1 DEF EndInv, Settled, locals, parser
<1>3. CommandInv => CommandInv'
  BY <1>1 DEF CommandInv, Settled, locals, parser
<1>4. OnLine => OnLine'
  BY <1>1, HandledKept, OnLineKept
<1> QED
  BY <1>1, <1>2, <1>3, <1>4 DEF RecordInv, locals

\* After what r, g or k started, main begins anew, at address 0.
LEMMA RecordRestart == ASSUME LineInv, RecordInv, Restart PROVE RecordInv'
<1>1. /\ pc \notin {"readchar", "write", "check"} /\ pc' = "readchar"
      /\ memPtr' = 0 /\ dataVal' = 0 /\ n' = 1 /\ Settled' /\ stored' = Nothing
      /\ where' = 0 /\ aligned' = TRUE
      /\ UNCHANGED <<rx, sending, kind, expected, landed, whole>>
  BY DEF Restart, Enter, Settled
<1>2. kind \notin Streamed /\ sending = <<>>
  BY <1>1 DEF LineInv, Streaming, Commanding
<1>3. CommandInv'
  BY <1>1, <1>2 DEF RecordInv, CommandInv
<1>4. 0 \in 0 .. AddrRange - 1
  BY Ranges
<1> QED
  BY <1>1, <1>2, <1>3, <1>4 DEF RecordInv, CommandInv, Nothing

LEMMA RecordStep ==
    ASSUME LineInv, LineInv', RecordInv, [HNext]_mVars
    PROVE  RecordInv'
<1>1. CASE Cpu
  BY <1>1, RecordCpu
<1>2. CASE Transmitter
  BY <1>2, RecordTransmitter
<1>3. CASE Restart
  BY <1>3, RecordRestart
<1>4. CASE SendRecord
  BY <1>4, RecordSent
<1>5. CASE SendAddress
  BY <1>5, AddressSent
<1>6. CASE SendBytes
  BY <1>6, BytesSent
<1>7. CASE SendCommand
  BY <1>7, CommandSent
<1>8. CASE Break
  BY <1>8, RecordBreak
<1>9. CASE Arrive
  BY <1>9, RecordArrive
<1>10. CASE UNCHANGED mVars
  <2>1. UNCHANGED <<pc, rx, toWrite, locals, stored, sending, kind, expected, landed, where,
                    whole, aligned>>
    BY <1>10 DEF mVars, vars, line, host
  <2>2. EndInv => EndInv'
    BY <2>1 DEF EndInv, Settled, locals, parser
  <2>3. CommandInv => CommandInv'
    BY <2>1 DEF CommandInv, Settled, locals, parser
  <2>4. OnLine => OnLine'
    BY <2>1, HandledKept, OnLineKept
  <2> QED
    BY <2>1, <2>2, <2>3, <2>4 DEF RecordInv, locals
<1> QED
  BY <1>1, <1>2, <1>3, <1>4, <1>5, <1>6, <1>7, <1>8, <1>9, <1>10 DEF HNext

-----------------------------------------------------------------------------
(***************************************************************************)
(* Results.                                                                *)
(***************************************************************************)

\* In every state the switch of main (monitor.c) is where the characters of
\* the line handled so far have brought it, and has stored the bytes they hold.
THEOREM RecordInvariant == HSpec => [](MonInv /\ RecordInv)
<1>1. HInit => MonInv /\ RecordInv
  BY LineStarted, TestStarted, RecordStarted DEF MonInv
<1>2. MonInv /\ RecordInv /\ [HNext]_mVars => (MonInv /\ RecordInv)'
  BY MonStep, RecordStep DEF MonInv
<1> QED
  BY <1>1, <1>2, PTL DEF HSpec

LEMMA InvariantLands == ASSUME MonInv, RecordInv PROVE RecordsLand
<1> SUFFICES ASSUME Finished, aligned PROVE landed = expected /\ memPtr = where
  BY DEF RecordsLand
<1>1. sending = <<>> /\ rx.key \in {"none", "newline"}
  BY DEF Finished
<1>2. CASE kind \in Streamed
  BY <1>1, <1>2, OnLineDone DEF RecordInv
<1>3. CASE kind \notin Streamed
  <2>1. rx = None
    <3>1. kind \in Commands \cup {"none"} /\ rx \in {None, Char(kind)}
      BY <1>1, <1>3 DEF MonInv, LineInv, LineType, RecordInv, CommandInv, Streamed
    <3> QED
      BY <1>1, <3>1 DEF Commands, Char, None
  <2> QED
    BY <1>1, <1>3, <2>1 DEF RecordInv, CommandInv
<1> QED
  BY <1>2, <1>3

\* The switch of main (monitor.c), with its three state variables and n, which
\* "newline" does not reset: whatever lines came before, broken off ones
\* included, after an address each record stores exactly its data at its
\* addresses, and memPtr is where the next bytes belong.
THEOREM EveryRecordLands == HSpec => []RecordsLand
<1>1. MonInv /\ RecordInv => RecordsLand
  BY InvariantLands
<1> QED
  BY <1>1, RecordInvariant, PTL

=============================================================================
