---------------------------- MODULE Ps2KeysProofs ----------------------------
(***************************************************************************)
(* Theorems of Ps2Keys for every set of keys and any number of keys held.  *)
(*                                                                         *)
(* While the codes of a key are on the wire nothing is certain of that key *)
(* alone: what is on belongs to a key that is held or to this one, and what*)
(* is held is on unless it is this one.  Of a shift that is held it is     *)
(* certain only while no key is held or sent that hides it: such a key     *)
(* takes it off with its make, and behind its break the shifts come back   *)
(* one after the other (Sure).  The prefixes are those of the last two     *)
(* codes (SendInv).                                                        *)
(***************************************************************************)
EXTENDS Ps2Keys, SequenceTheorems, TLAPS

Cells == {Cell[code] : code \in DOMAIN Cell}

\* The keys of lo are on, the shifts only if no key of hi hides them, and
\* nothing but the keys of hi is on.
Seen(lo, hi) ==
    /\ \A cell \in Cells : \A key \in lo : KeysOf(cell) = {key} => cell \in keyMatrix
    /\ "altgr" \in lo => altGr
    /\ "lshift" \in lo /\ hi \cap Grey = {} => lshift
    /\ "rshift" \in lo /\ hi \cap Grey = {} => rshift

Only(hi) ==
    /\ \A cell \in keyMatrix : KeysOf(cell) \cap hi # {}
    /\ lshift => hi \cap {"lshift", "print"} # {}
    /\ rshift => "rshift" \in hi
    /\ altGr => "altgr" \in hi

Right(lo, hi) == Seen(lo, hi) /\ Only(hi)

\* What is sent of a key: it is up only while its break codes are sent.
CodesOf(key) == IF key \in held THEN Make(key) ELSE Break(key)

\* The prefixes behind the codes before the i-th.
PrefixesAfter(codes, i) ==
    /\ noBreak <=> ~(i > 1 /\ codes[i - 1] = "F0")
    /\ extE0 <=> \/ i > 1 /\ codes[i - 1] = "E0"
                 \/ i > 2 /\ codes[i - 2] = "E0" /\ codes[i - 1] = "F0"

\* The codes of Pause press and release Ctrl.
Suspects(key, i) ==
    IF key # "pause" THEN {key}
    ELSE IF "ctrl" \notin held /\ i \in 3 .. 6 THEN {"ctrl"} ELSE {}

\* Behind the break of a key that hid the shifts, one shift comes back after
\* the other.
Restoring(key, i) == key \in Grey /\ key \notin held /\ i > 3

\* The keys that are on for certain, and those that may be.
Sure(key, i) ==
    IF Restoring(key, i) THEN held \ (IF i <= 5 THEN {"lshift", "rshift"} ELSE {"rshift"})
    ELSE held \ Suspects(key, i)

Perhaps(key, i) == IF Restoring(key, i) THEN held ELSE held \cup Suspects(key, i)

SendInv(key) ==
    LET codes == CodesOf(key) IN
    \E i \in 1 .. Len(codes) :
        /\ wire = SubSeq(codes, i, Len(codes))
        /\ PrefixesAfter(codes, i)
        /\ Right(Sure(key, i), Perhaps(key, i))

KeysType ==
    /\ held \subseteq Keys
    /\ {noBreak, extE0, altGr, lshift, rshift} \subseteq BOOLEAN
    /\ keyMatrix \subseteq Cells

KeysInv ==
    /\ KeysType
    /\ wire = <<>> => noBreak /\ ~extE0 /\ Right(held, held)
    /\ wire # <<>> => \E key \in Keys : SendInv(key)

-----------------------------------------------------------------------------
(***************************************************************************)
(* The tables.                                                             *)
(***************************************************************************)

CodeFacts(key) ==
    /\ ScanCode[key] \in MatrixCodes \cup {"12", "59", "11"}
    /\ ScanCode[key] \notin {"E0", "F0", "E1", "77", "7E", "7C"}
    /\ ScanCode[key] = "12" <=> key = "lshift"
    /\ ScanCode[key] = "59" <=> key = "rshift"
    /\ ScanCode[key] = "11" <=> key \in {"alt", "altgr"}
    /\ key \in {"lshift", "rshift", "altgr"} => ScanCode[key] \notin MatrixCodes

LEMMA KeyCodes == \A key \in PlainKeys : CodeFacts(key)
<1> USE DEF CodeFacts, ScanCode, MatrixCodes
<1>1. ASSUME NEW key \in {"0", "3", "7", "8", "<", "+"} PROVE CodeFacts(key)
  BY DEF PlainKeys
<1>2. ASSUME NEW key \in {",", "-", ".", "sz", "#", "q"} PROVE CodeFacts(key)
  BY DEF PlainKeys
<1>3. ASSUME NEW key \in {"a", "insert", "delete", "backspace", "left"} PROVE CodeFacts(key)
  BY DEF PlainKeys
<1>4. ASSUME NEW key \in {"enter", "keypadEnter", "ctrl"} PROVE CodeFacts(key)
  BY DEF PlainKeys
<1>5. ASSUME NEW key \in {"lshift", "rshift", "alt", "altgr"} PROVE CodeFacts(key)
  BY DEF PlainKeys
<1> HIDE DEF CodeFacts, ScanCode, MatrixCodes
<1> QED
  BY <1>1, <1>2, <1>3, <1>4, <1>5 DEF PlainKeys

LEMMA ControlCode ==
    /\ ScanCode["ctrl"] = "14" /\ "14" \in MatrixCodes
    /\ MatrixCodes \cap {"E0", "F0", "E1", "77", "7E", "7C", "12", "59", "11"} = {}
    /\ "ctrl" \in PlainKeys /\ PlainKeys \cap {"pause", "print"} = {}
    /\ Grey \subseteq PlainKeys \cap Extended
    /\ Grey \cap {"pause", "print", "ctrl", "lshift", "rshift", "altgr"} = {}
BY DEF ScanCode, MatrixCodes, PlainKeys, Grey, Extended

LEMMA Tables == DOMAIN ScanCode = PlainKeys /\ DOMAIN Cell = MatrixCodes
BY DEF ScanCode, Cell

LEMMA KeysOfCell ==
    ASSUME NEW key
    PROVE  /\ \A cell : key \in KeysOf(cell) =>
                  key \in PlainKeys /\ ScanCode[key] \in MatrixCodes /\ cell = Cell[ScanCode[key]]
           /\ key \in PlainKeys /\ ScanCode[key] \in MatrixCodes =>
                  key \in KeysOf(Cell[ScanCode[key]])
BY Tables DEF KeysOf

-----------------------------------------------------------------------------
(***************************************************************************)
(* A code is taken.                                                        *)
(***************************************************************************)

WireCodes == MatrixCodes \cup {"E0", "F0", "E1", "77", "7E", "7C", "12", "59", "11"}

Position(codes, i) == wire = SubSeq(codes, i, Len(codes)) /\ PrefixesAfter(codes, i)

LEMMA Advance ==
    ASSUME NEW codes \in Seq(WireCodes), NEW i \in 1 .. Len(codes), Position(codes, i),
           Receive(Head(wire)),
           codes[i] \in {"E0", "F0"} /\ i > 1 => codes[i - 1] # "F0"
    PROVE  /\ Position(codes, i + 1)' /\ Head(wire) = codes[i]
           /\ i < Len(codes) => wire' # <<>>
           /\ i = Len(codes) => wire' = <<>>
<1>1. Head(wire) = codes[i] /\ Tail(wire) = SubSeq(codes, i + 1, Len(codes))
  BY HeadTailOfSubSeq DEF Position
<1>2. wire' = SubSeq(codes, i + 1, Len(codes))
  BY <1>1 DEF Receive
<1>3. (i + 1) - 1 = i /\ (i + 1) - 2 = i - 1 /\ i + 1 > 1 /\ (i + 1 > 2 <=> i > 1)
  OBVIOUS
<1>4. PrefixesAfter(codes, i + 1)'
  <2>1. CASE codes[i] = "F0"
    <3>1. noBreak' = FALSE /\ extE0' = extE0
      BY <1>1, <2>1 DEF Receive
    <3> QED
      BY <1>3, <2>1, <3>1 DEF PrefixesAfter, Position
  <2>2. CASE codes[i] = "E0"
    <3>1. noBreak' = noBreak /\ extE0' = TRUE
      BY <1>1, <2>2 DEF Receive
    <3> QED
      BY <1>3, <2>2, <3>1 DEF PrefixesAfter, Position
  <2>3. CASE codes[i] \notin {"E0", "F0"}
    <3>1. noBreak' = TRUE /\ extE0' = FALSE
      BY <1>1, <2>3 DEF Receive
    <3> QED
      BY <1>3, <2>3, <3>1 DEF PrefixesAfter, Position
  <2> QED
    BY <2>1, <2>2, <2>3
<1>5. i < Len(codes) => wire' # <<>>
  <2>1. SUFFICES ASSUME i < Len(codes) PROVE Len(wire') # 0
    BY EmptySeq
  <2>2. i + 1 \in 1 .. Len(codes) /\ Len(codes) \in 0 .. Len(codes)
    BY <2>1
  <2> QED
    BY <1>2, <2>1, <2>2, SubSeqProperties
<1>6. i = Len(codes) => wire' = <<>>
  BY <1>2, SubSeqProperties, EmptySeq
<1> QED
  BY <1>1, <1>2, <1>4, <1>5, <1>6 DEF Position

Flags == <<altGr, lshift, rshift, keyMatrix>>

LEMMA CodeMoves ==
    ASSUME NEW code, Receive(code)
    PROVE  /\ held' = held
           /\ code \in {"E0", "F0"} => UNCHANGED Flags
           /\ code \notin {"E0", "F0"} => ScanCodeTaken(code)
BY DEF Receive, Flags

LEMMA OtherCode ==
    ASSUME NEW code, code \notin MatrixCodes \cup {"12", "59", "11"}, ScanCodeTaken(code)
    PROVE  UNCHANGED Flags
BY Tables DEF ScanCodeTaken, Flags

\* Right speaks of keys only that have a code, and of Print.
LEMMA RightWeaker ==
    ASSUME NEW lo, NEW hi, NEW lo2, NEW hi2, Right(lo, hi),
           lo2 \cap PlainKeys \subseteq lo,
           hi \cap (PlainKeys \cup {"print"}) \subseteq hi2
    PROVE  Right(lo2, hi2)
<1>1. {"lshift", "rshift", "altgr"} \subseteq PlainKeys /\ Grey \subseteq PlainKeys
  BY ControlCode DEF PlainKeys
<1>2. Seen(lo2, hi2)
  <2>1. ASSUME NEW cell \in Cells, NEW key \in lo2, KeysOf(cell) = {key}
        PROVE  cell \in keyMatrix
    BY <2>1, KeysOfCell DEF Right, Seen
  <2> QED
    BY <1>1, <2>1 DEF Right, Seen
<1>3. Only(hi2)
  <2>1. ASSUME NEW cell \in keyMatrix PROVE KeysOf(cell) \cap hi2 # {}
    BY <2>1, KeysOfCell DEF Right, Only
  <2> QED
    BY <1>1, <2>1 DEF Right, Only
<1> QED
  BY <1>2, <1>3 DEF Right

LEMMA KeyDown ==
    ASSUME NEW key \in PlainKeys, key \in held, held' = held, noBreak,
           extE0 <=> key \in Extended, ScanCodeTaken(ScanCode[key]),
           Right(held \ {key}, held \cup {key})
    PROVE  Right(held, held)'
<1>1. CodeFacts(key)
  BY KeyCodes
<1>2. held \cup {key} = held
  OBVIOUS
<1>3. /\ lshift' = IF key = "lshift" THEN TRUE ELSE lshift
      /\ rshift' = IF key = "rshift" THEN TRUE ELSE rshift
      /\ altGr' = IF key = "altgr" THEN TRUE ELSE altGr
  BY <1>1 DEF CodeFacts, ScanCodeTaken, Extended
<1>4. keyMatrix' = IF ScanCode[key] \in MatrixCodes THEN keyMatrix \cup {Cell[ScanCode[key]]}
                   ELSE keyMatrix
  BY Tables DEF ScanCodeTaken
<1>5. ASSUME NEW cell \in Cells, NEW k \in held, KeysOf(cell) = {k}
      PROVE  cell \in keyMatrix'
  <2>1. CASE k = key
    BY <1>4, <1>5, <2>1, KeysOfCell
  <2>2. CASE k # key
    BY <1>4, <1>5, <2>2 DEF Right, Seen
  <2> QED
    BY <2>1, <2>2
<1>6. ASSUME NEW cell \in keyMatrix' PROVE KeysOf(cell) \cap held # {}
  <2>1. CASE cell \in keyMatrix
    BY <1>2, <2>1 DEF Right, Only
  <2>2. CASE ScanCode[key] \in MatrixCodes /\ cell = Cell[ScanCode[key]]
    BY <2>2, KeysOfCell
  <2> QED
    BY <1>4, <2>1, <2>2
<1>7. Seen(held, held)'
  BY <1>3, <1>5 DEF Seen, Right
<1>8. Only(held)'
  BY <1>2, <1>3, <1>6 DEF Only, Right
<1> QED
  BY <1>7, <1>8 DEF Right

\* Behind a key that hid the shifts they are still off.
LEMMA KeyUp ==
    ASSUME NEW key \in PlainKeys, key \notin held, held' = held, ~noBreak,
           extE0 <=> key \in Extended, ScanCodeTaken(ScanCode[key]),
           Right(held \ {key}, held \cup {key}),
           NEW hidden, key \in Grey => {"lshift", "rshift"} \subseteq hidden
    PROVE  Right(held \ hidden, held)'
<1>1. CodeFacts(key) /\ key # "print"
  BY KeyCodes, ControlCode
<1>2. held \ {key} = held
  OBVIOUS
<1>3. /\ lshift' = IF key = "lshift" THEN noBreak ELSE lshift
      /\ rshift' = IF key = "rshift" THEN noBreak ELSE rshift
      /\ altGr' = IF key = "altgr" THEN noBreak ELSE altGr
  BY <1>1 DEF CodeFacts, ScanCodeTaken, Extended
<1>4. keyMatrix' = IF ScanCode[key] \in MatrixCodes THEN keyMatrix \ {Cell[ScanCode[key]]}
                   ELSE keyMatrix
  BY Tables DEF ScanCodeTaken
<1>5. ASSUME NEW cell \in Cells, NEW k \in held, KeysOf(cell) = {k}
      PROVE  cell \in keyMatrix'
  <2>1. cell \in keyMatrix /\ k # key
    BY <1>2, <1>5 DEF Right, Seen
  <2>2. ScanCode[key] \in MatrixCodes => cell # Cell[ScanCode[key]]
    BY <1>5, <2>1, KeysOfCell
  <2> QED
    BY <1>4, <2>1, <2>2
<1>6. ASSUME NEW cell \in keyMatrix' PROVE KeysOf(cell) \cap held # {}
  <2>1. cell \in keyMatrix
    BY <1>4, <1>6
  <2>2. PICK k \in KeysOf(cell) : k \in held \cup {key}
    BY <2>1 DEF Right, Only
  <2>3. k # key
    BY <1>4, <1>6, <2>2, KeysOfCell
  <2> QED
    BY <2>2, <2>3
<1>7. Seen(held \ hidden, held)'
  <2>1. key \in Grey \/ (held \cup {key}) \cap Grey = held \cap Grey
    OBVIOUS
  <2> QED
    BY <1>1, <1>2, <1>3, <1>5, <2>1 DEF Seen, Right
<1>8. Only(held)'
  BY <1>1, <1>3, <1>6 DEF Only, Right
<1> QED
  BY <1>7, <1>8 DEF Right

-----------------------------------------------------------------------------
(***************************************************************************)
(* The codes of a key, one after the other.                                *)
(***************************************************************************)

\* The i-th code of the key is taken.
SendStep(key, codes, i) ==
    /\ held' = held /\ CodesOf(key) = codes /\ CodesOf(key)' = codes
    /\ Right(Sure(key, i), Perhaps(key, i))
    /\ PrefixesAfter(codes, i)
    /\ codes[i] \in {"E0", "F0"} => UNCHANGED Flags
    /\ codes[i] \notin {"E0", "F0"} => ScanCodeTaken(codes[i])

\* What it leads to.
Kept(key, codes, i) ==
    /\ codes[i] \in {"E0", "F0"} =>
           i < Len(codes) /\ (i > 1 => codes[i - 1] # "F0")
    /\ IF i = Len(codes) THEN Right(held, held)'
       ELSE Right(Sure(key, i + 1), Perhaps(key, i + 1))'

\* While a key itself is in doubt.
InDoubt(key) == Right(held \ {key}, held \cup {key})

LEMMA Doubt ==
    ASSUME NEW key, key # "pause", NEW i, ~Restoring(key, i)
    PROVE  Right(Sure(key, i), Perhaps(key, i)) <=> InDoubt(key)
<1>1. Sure(key, i) = held \ {key} /\ Perhaps(key, i) = held \cup {key}
  BY DEF Sure, Perhaps, Suspects
<1> QED
  BY <1>1 DEF InDoubt

LEMMA DoubtNext ==
    ASSUME NEW key, key # "pause", NEW i, ~Restoring(key, i)'
    PROVE  Right(Sure(key, i), Perhaps(key, i))' <=> InDoubt(key)'
<1>1. (Sure(key, i))' = (held \ {key})' /\ (Perhaps(key, i))' = (held \cup {key})'
  BY DEF Sure, Perhaps, Suspects
<1> QED
  BY <1>1 DEF InDoubt, Right, Seen, Only

LEMMA PrintCodes ==
    /\ Make("print") = IF "lshift" \in held THEN <<"E0", "7C">> ELSE <<"E0", "12", "E0", "7C">>
    /\ Break("print") = IF "lshift" \in held THEN <<"E0", "F0", "7C">>
                        ELSE <<"E0", "F0", "7C", "E0", "F0", "12">>
<1>1. PICK key : key = "print"
  OBVIOUS
<1>2. key # "pause"
  BY <1>1
<1>3. CASE "lshift" \in held
  BY <1>1, <1>2, <1>3 DEF Make, Break, Grey, Extended
<1>4. CASE "lshift" \notin held
  BY <1>1, <1>2, <1>4 DEF Make, Break, Grey, Extended
<1> QED
  BY <1>3, <1>4

LEMMA PauseCodes ==
    /\ Make("pause") = IF "ctrl" \in held THEN <<"E0", "7E", "E0", "F0", "7E">>
                       ELSE <<"E1", "14", "77", "E1", "F0", "14", "F0", "77">>
    /\ Break("pause") = <<>>
<1>1. PICK key : key = "pause"
  OBVIOUS
<1>3. CASE "ctrl" \in held
  BY <1>1, <1>3 DEF Make, Break, Grey, Extended
<1>4. CASE "ctrl" \notin held
  BY <1>1, <1>4 DEF Make, Break, Grey, Extended
<1> QED
  BY <1>3, <1>4

LEMMA PlainStep ==
    ASSUME NEW key \in PlainKeys \ Grey, NEW codes, NEW i \in 1 .. Len(codes), SendStep(key, codes, i)
    PROVE  Kept(key, codes, i)
<1> DEFINE c == ScanCode[key]
<1> DEFINE x == key \in Extended
<1>1. key # "pause" /\ key # "print" /\ c \notin {"E0", "F0"}
  BY ControlCode, KeyCodes DEF CodeFacts
<1>2. codes = IF key \in held THEN IF x THEN <<"E0", c>> ELSE <<c>>
              ELSE IF x THEN <<"E0", "F0", c>> ELSE <<"F0", c>>
  BY <1>1 DEF SendStep, CodesOf, Make, Break
<1>3. Right(held \ {key}, held \cup {key}) /\ held' = held
  BY <1>1, Doubt DEF SendStep, Restoring, InDoubt
<1> HIDE DEF c
<1>4. /\ codes[Len(codes)] = c
      /\ i < Len(codes) => codes[i] \in {"E0", "F0"} /\ (i > 1 => codes[i - 1] # "F0")
  BY <1>1, <1>2
<1>5. CASE i < Len(codes)
  <2>1. Right(held \ {key}, held \cup {key})'
    BY <1>3, <1>4, <1>5 DEF SendStep, Flags, Right, Seen, Only
  <2> QED
    BY <1>1, <1>4, <1>5, <2>1, DoubtNext DEF Kept, Restoring, InDoubt
<1>6. CASE i = Len(codes)
  <2>1. (extE0 <=> x) /\ (noBreak <=> key \in held)
    BY <1>1, <1>2, <1>6 DEF SendStep, PrefixesAfter
  <2>2. ScanCodeTaken(ScanCode[key])
    BY <1>1, <1>4, <1>6 DEF SendStep, c
  <2>3. CASE key \in held
    BY <1>1, <1>3, <1>4, <1>6, <2>1, <2>2, <2>3, KeyDown DEF Kept
  <2>4. CASE key \notin held
    <3>1. Right(held \ {}, held)'
      BY <1>3, <2>1, <2>2, <2>4, KeyUp
    <3>2. Right(held, held)'
      BY <3>1 DEF Right, Seen
    <3> QED
      BY <1>1, <1>4, <1>6, <3>2 DEF Kept
  <2> QED
    BY <2>3, <2>4
<1> QED
  BY <1>5, <1>6

\* A key that hides the shifts goes down: the shifts that are down go off.
LEMMA GreyDown ==
    ASSUME NEW key \in Grey, key \in held, NEW codes, NEW i \in 1 .. Len(codes),
           SendStep(key, codes, i)
    PROVE  Kept(key, codes, i)
<1> DEFINE c == ScanCode[key]
<1>1. /\ key \notin {"pause", "print"} /\ c \notin {"E0", "F0", "12", "59"}
      /\ key \in PlainKeys /\ key \in Extended
  BY ControlCode, KeyCodes DEF CodeFacts
<1>2. codes = GreyMake(c)
  BY <1>1 DEF SendStep, CodesOf, Make
<1>3. Right(held \ {key}, held \cup {key}) /\ held' = held
  BY <1>1, Doubt DEF SendStep, Restoring, InDoubt
<1> HIDE DEF c
<1>4. /\ codes[i] \in {"E0", "F0", "12", "59", c}
      /\ codes[i] \in {"E0", "F0"} => i < Len(codes) /\ (i > 1 => codes[i - 1] # "F0")
      /\ codes[i] \in {"12", "59"} => i < Len(codes) /\ i > 1 /\ codes[i - 1] = "F0"
      /\ codes[i] = c => i = Len(codes) /\ i > 1 /\ codes[i - 1] = "E0"
  <2>1. CASE "lshift" \in held /\ "rshift" \in held
    BY <1>1, <1>2, <2>1 DEF GreyMake
  <2>2. CASE "lshift" \in held /\ "rshift" \notin held
    BY <1>1, <1>2, <2>2 DEF GreyMake
  <2>3. CASE "lshift" \notin held /\ "rshift" \in held
    BY <1>1, <1>2, <2>3 DEF GreyMake
  <2>4. CASE "lshift" \notin held /\ "rshift" \notin held
    BY <1>1, <1>2, <2>4 DEF GreyMake
  <2> QED
    BY <2>1, <2>2, <2>3, <2>4
<1>5. CASE codes[i] = c
  <2>1. extE0 /\ noBreak /\ ScanCodeTaken(ScanCode[key])
    BY <1>1, <1>4, <1>5 DEF SendStep, PrefixesAfter, c
  <2>2. Right(held, held)'
    BY <1>1, <1>3, <2>1, KeyDown
  <2> QED
    BY <1>1, <1>4, <1>5, <2>2 DEF Kept
<1>6. CASE codes[i] # c
  <2>1. /\ UNCHANGED <<altGr, keyMatrix>>
        /\ lshift' = lshift \/ ~lshift'
        /\ rshift' = rshift \/ ~rshift'
    <3>1. CASE codes[i] \in {"E0", "F0"}
      BY <3>1 DEF SendStep, Flags
    <3>2. CASE codes[i] \in {"12", "59"}
      <4>1. ~noBreak /\ ScanCodeTaken(codes[i]) /\ codes[i] \notin MatrixCodes
        BY <1>4, <3>2, ControlCode DEF SendStep, PrefixesAfter
      <4> QED
        BY <3>2, <4>1, Tables DEF ScanCodeTaken
    <3> QED
      BY <1>4, <1>6, <3>1, <3>2
  <2>2. Right(held \ {key}, held \cup {key})'
    BY <1>3, <2>1 DEF Right, Seen, Only
  <2> QED
    BY <1>1, <1>3, <1>4, <1>6, <2>2, DoubtNext DEF Kept, Restoring, InDoubt
<1> QED
  BY <1>5, <1>6

LEMMA ShiftsNoCell == \A cell : KeysOf(cell) \cap {"lshift", "rshift"} = {}
<1>1. CodeFacts("lshift") /\ CodeFacts("rshift")
  BY KeyCodes DEF PlainKeys
<1>2. ScanCode["lshift"] \notin MatrixCodes /\ ScanCode["rshift"] \notin MatrixCodes
  BY <1>1 DEF CodeFacts
<1> QED
  BY <1>2, KeysOfCell

\* It goes up, and the shifts come back.
LEMMA GreyUp ==
    ASSUME NEW key \in Grey, key \notin held, NEW codes, NEW i \in 1 .. Len(codes),
           SendStep(key, codes, i)
    PROVE  Kept(key, codes, i)
<1> DEFINE c == ScanCode[key]
           first == IF "lshift" \in held THEN "12" ELSE "59"
<1>1. /\ key \notin {"pause", "print"} /\ c \notin {"E0", "F0"}
      /\ key \in PlainKeys /\ key \in Extended
  BY ControlCode, KeyCodes DEF CodeFacts
<1>2. codes = GreyBreak(c) /\ held' = held
  BY <1>1 DEF SendStep, CodesOf, Break
<1> HIDE DEF c
<1>3. /\ codes[1] = "E0" /\ codes[2] = "F0" /\ codes[3] = c
      /\ \/ Len(codes) = 3 /\ "lshift" \notin held /\ "rshift" \notin held
         \/ Len(codes) = 5 /\ ("lshift" \in held <=> "rshift" \notin held)
         \/ Len(codes) = 7 /\ "lshift" \in held /\ "rshift" \in held
      /\ Len(codes) > 3 => codes[4] = "E0" /\ codes[5] = first
      /\ Len(codes) = 7 => codes[6] = "E0" /\ codes[7] = "59"
  <2>1. CASE "lshift" \in held /\ "rshift" \in held
    BY <1>2, <2>1 DEF GreyBreak
  <2>2. CASE "lshift" \in held /\ "rshift" \notin held
    BY <1>2, <2>2 DEF GreyBreak
  <2>3. CASE "lshift" \notin held /\ "rshift" \in held
    BY <1>2, <2>3 DEF GreyBreak
  <2>4. CASE "lshift" \notin held /\ "rshift" \notin held
    BY <1>2, <2>4 DEF GreyBreak
  <2> QED
    BY <2>1, <2>2, <2>3, <2>4
<1>4. CASE i \in {1, 2}
  <2>1. UNCHANGED Flags
    BY <1>3, <1>4 DEF SendStep
  <2>2. Right(held \ {key}, held \cup {key})
    BY <1>1, <1>4, Doubt DEF SendStep, Restoring, InDoubt
  <2>3. Right(held \ {key}, held \cup {key})'
    BY <1>2, <2>1, <2>2 DEF Flags, Right, Seen, Only
  <2>4. ~Restoring(key, i + 1)'
    BY <1>4 DEF Restoring
  <2>5. Right(Sure(key, i + 1), Perhaps(key, i + 1))'
    BY <1>1, <2>3, <2>4, DoubtNext DEF InDoubt
  <2>6. i < Len(codes) /\ (i > 1 => codes[i - 1] # "F0")
    BY <1>3, <1>4
  <2> QED
    BY <2>5, <2>6 DEF Kept
<1>5. CASE i = 3
  <2>1. extE0 /\ ~noBreak /\ ScanCodeTaken(ScanCode[key])
    BY <1>1, <1>3, <1>5 DEF SendStep, PrefixesAfter, c
  <2>2. Right(held \ {key}, held \cup {key})
    BY <1>1, <1>5, Doubt DEF SendStep, Restoring, InDoubt
  <2>3. Right(held \ {"lshift", "rshift"}, held)'
    BY <1>1, <1>2, <2>1, <2>2, KeyUp
  <2>4. Len(codes) = 3 => Right(held, held)'
    BY <1>2, <1>3, <2>3 DEF Right, Seen
  <2> QED
    BY <1>1, <1>2, <1>3, <1>5, <2>3, <2>4 DEF Kept, Sure, Perhaps, Restoring
<1>6. CASE i \in {4, 6}
  <2>1. UNCHANGED Flags /\ codes[i] = "E0" /\ codes[i - 1] # "F0" /\ i < Len(codes)
    BY <1>1, <1>3, <1>6, ControlCode DEF SendStep
  <2>2. Right(Sure(key, i), held)
    BY <1>6 DEF SendStep, Perhaps, Restoring
  <2>3. (Sure(key, i + 1))' = Sure(key, i) /\ (Perhaps(key, i + 1))' = held
    <3>1. Restoring(key, i) /\ Restoring(key, i + 1)' /\ (i + 1 <= 5 <=> i <= 5)
      BY <1>2, <1>6 DEF Restoring
    <3> QED
      BY <1>2, <3>1 DEF Sure, Perhaps
  <2>4. Right(Sure(key, i + 1), Perhaps(key, i + 1))'
    BY <1>2, <2>1, <2>2, <2>3 DEF Flags, Right, Seen, Only
  <2> QED
    BY <2>1, <2>4 DEF Kept
<1>7. CASE i = 5
  <2>1. noBreak /\ codes[i] = first /\ Len(codes) > 3 /\ codes[i - 1] = "E0"
    BY <1>3, <1>7 DEF SendStep, PrefixesAfter
  <2>2. ScanCodeTaken(first) /\ first \notin MatrixCodes
    BY <2>1, ControlCode DEF SendStep
  <2>3. /\ UNCHANGED <<altGr, keyMatrix>>
        /\ "lshift" \in held => lshift' /\ rshift' = rshift
        /\ "lshift" \notin held => rshift' /\ lshift' = lshift
    BY <2>1, <2>2, Tables DEF ScanCodeTaken
  <2>4. Right(held \ {"lshift", "rshift"}, held)
    BY <1>7 DEF SendStep, Sure, Perhaps, Restoring
  <2>5. Only(held)'
    BY <1>2, <1>3, <2>1, <2>3, <2>4 DEF Right, Only
  <2>6. Seen(held \ {"rshift"}, held)'
    BY <1>2, <2>3, <2>4, ShiftsNoCell DEF Right, Seen
  <2>7. Len(codes) = 5 => Seen(held, held)'
    BY <1>2, <1>3, <2>3, <2>4, ShiftsNoCell DEF Right, Seen
  <2>8. Right(held \ {"rshift"}, held)' /\ (Len(codes) = 5 => Right(held, held)')
    BY <2>5, <2>6, <2>7 DEF Right
  <2> QED
    BY <1>2, <1>3, <1>7, <2>1, <2>8 DEF Kept, Sure, Perhaps, Restoring
<1>8. CASE i = 7
  <2>1. /\ noBreak /\ codes[i] = "59" /\ Len(codes) = 7
        /\ "lshift" \in held /\ "rshift" \in held
    BY <1>3, <1>8 DEF SendStep, PrefixesAfter
  <2>2. rshift' /\ UNCHANGED <<lshift, altGr, keyMatrix>>
    BY <2>1, Tables, ControlCode DEF SendStep, ScanCodeTaken
  <2>3. Right(held \ {"rshift"}, held)
    BY <1>8 DEF SendStep, Sure, Perhaps, Restoring
  <2>4. Seen(held, held)'
    BY <1>2, <2>2, <2>3, ShiftsNoCell DEF Right, Seen
  <2>5. Only(held)'
    BY <1>2, <2>1, <2>2, <2>3 DEF Right, Only
  <2>6. Right(held, held)'
    BY <2>4, <2>5 DEF Right
  <2> QED
    BY <1>8, <2>1, <2>6 DEF Kept
<1>9. Len(codes) \in {3, 5, 7}
  BY <1>3
<1>10. \A len \in {3, 5, 7} : \A n \in 1 .. len :
           n \in {1, 2} \/ n = 3 \/ n \in {4, 6} \/ n = 5 \/ n = 7
  OBVIOUS
<1> QED
  BY <1>4, <1>5, <1>6, <1>7, <1>8, <1>9, <1>10

LEMMA PrintStep ==
    ASSUME NEW codes, NEW i \in 1 .. Len(codes), SendStep("print", codes, i)
    PROVE  Kept("print", codes, i)
<1>1. codes = IF "print" \in held
              THEN IF "lshift" \in held THEN <<"E0", "7C">> ELSE <<"E0", "12", "E0", "7C">>
              ELSE IF "lshift" \in held THEN <<"E0", "F0", "7C">>
                   ELSE <<"E0", "F0", "7C", "E0", "F0", "12">>
  BY PrintCodes DEF SendStep, CodesOf
<1>2. Right(held \ {"print"}, held \cup {"print"}) /\ held' = held
  BY ControlCode, Doubt DEF SendStep, Restoring, InDoubt
<1>3. /\ codes[i] \in {"E0", "F0", "7C", "12"}
      /\ codes[i] \in {"E0", "F0"} => i < Len(codes) /\ (i > 1 => codes[i - 1] # "F0")
      /\ codes[i] = "12" => "lshift" \notin held
      /\ codes[i] = "12" /\ "print" \notin held => i = Len(codes) /\ codes[i - 1] = "F0" /\ i > 1
      /\ codes[i] = "12" /\ "print" \in held => i < Len(codes) /\ codes[i - 1] = "E0" /\ i > 1
      /\ i = Len(codes) /\ "print" \notin held /\ codes[i] # "12" => "lshift" \in held
  BY <1>1
<1>4. CASE codes[i] # "12"
  <2>1. UNCHANGED Flags
    BY <1>3, <1>4, OtherCode, ControlCode DEF SendStep
  <2>2. Right(held \ {"print"}, held \cup {"print"})'
    BY <1>2, <2>1 DEF Flags, Right, Seen, Only
  <2>3. ASSUME i = Len(codes) PROVE Right(held, held)'
    <3>1. "print" \in held \/ "lshift" \in held
      BY <1>3, <1>4, <2>3
    <3>2. Seen(held, held)'
      BY <2>2, ControlCode, KeysOfCell DEF Right, Seen
    <3>3. Only(held)'
      <4>1. \A cell \in keyMatrix : KeysOf(cell) \cap (held \cup {"print"}) # {}
        BY <1>2 DEF Right, Only
      <4>2. \A cell \in keyMatrix : KeysOf(cell) \cap held # {}
        BY <4>1, ControlCode, KeysOfCell
      <4> QED
        BY <1>2, <2>1, <3>1, <4>2 DEF Flags, Right, Only
    <3> QED
      BY <3>2, <3>3 DEF Right
  <2> QED
    BY <1>3, <2>2, <2>3, ControlCode, DoubtNext DEF Kept, Restoring, InDoubt
<1>5. CASE codes[i] = "12"
  <2>1. ScanCodeTaken("12") /\ (noBreak <=> "print" \in held)
    BY <1>3, <1>5 DEF SendStep, PrefixesAfter
  <2>2. lshift' = noBreak /\ UNCHANGED <<rshift, altGr, keyMatrix>>
    BY <2>1, ControlCode, Tables DEF ScanCodeTaken
  <2>3. CASE "print" \in held
    <3>1. Right(held \ {"print"}, held \cup {"print"})'
      BY <1>2, <2>1, <2>2, <2>3 DEF Right, Seen, Only
    <3>2. Right(Sure("print", i + 1), Perhaps("print", i + 1))'
      BY <3>1, ControlCode, DoubtNext DEF Restoring, InDoubt
    <3> QED
      BY <1>3, <1>5, <2>3, <3>2 DEF Kept
  <2>4. CASE "print" \notin held
    <3>1. Seen(held, held)'
      BY <1>2, <1>3, <1>5, <2>2, <2>4, ControlCode DEF Right, Seen
    <3>2. Only(held)'
      BY <1>2, <2>1, <2>2, <2>4, ControlCode, KeysOfCell DEF Right, Only
    <3> QED
      BY <1>3, <1>5, <2>4, <3>1, <3>2 DEF Kept, Right
  <2> QED
    BY <2>3, <2>4
<1> QED
  BY <1>4, <1>5

LEMMA PauseStep ==
    ASSUME NEW codes, NEW i \in 1 .. Len(codes), SendStep("pause", codes, i)
    PROVE  Kept("pause", codes, i)
<1>1. /\ codes = IF "ctrl" \in held THEN <<"E0", "7E", "E0", "F0", "7E">>
                 ELSE <<"E1", "14", "77", "E1", "F0", "14", "F0", "77">>
      /\ held' = held
  BY PauseCodes DEF SendStep, CodesOf
<1>4. /\ Right(held \ Suspects("pause", i), held \cup Suspects("pause", i))
      /\ (Sure("pause", i + 1))' = (held \ Suspects("pause", i + 1))'
      /\ (Perhaps("pause", i + 1))' = (held \cup Suspects("pause", i + 1))'
  BY ControlCode DEF SendStep, Sure, Perhaps, Restoring
<1>2. CASE "ctrl" \in held
  <2>1. Suspects("pause", i) = {} /\ Suspects("pause", i + 1)' = {}
    BY <1>1, <1>2 DEF Suspects
  <2>2. UNCHANGED Flags
    BY <1>1, <1>2, OtherCode, ControlCode DEF SendStep
  <2>3. Right(held, held)'
    BY <1>1, <1>4, <2>1, <2>2 DEF Flags, Right, Seen, Only
  <2>4. Right(Sure("pause", i + 1), Perhaps("pause", i + 1))'
    BY <1>4, <2>1, <2>3 DEF Right, Seen, Only
  <2> QED
    BY <1>1, <1>2, <2>3, <2>4 DEF Kept
<1>3. CASE "ctrl" \notin held
  <2>1. codes = <<"E1", "14", "77", "E1", "F0", "14", "F0", "77">> /\ Len(codes) = 8
    BY <1>1, <1>3
  <2>2. CASE i \notin {2, 6}
    <3>1. Suspects("pause", i + 1)' = Suspects("pause", i)
      BY <1>1, <2>1, <2>2 DEF Suspects
    <3>2. codes[i] \in {"E1", "77", "F0"} /\ (codes[i] = "F0" => i < 8 /\ codes[i - 1] # "F0")
      BY <2>1, <2>2
    <3>3. UNCHANGED Flags
      BY <3>2, OtherCode, ControlCode DEF SendStep
    <3>4. Right(Sure("pause", i + 1), Perhaps("pause", i + 1))'
      BY <1>1, <1>4, <3>1, <3>3 DEF Flags, Right, Seen, Only
    <3>5. i = 8 => Suspects("pause", i) = {}
      BY DEF Suspects
    <3>6. i = 8 => Right(held, held)'
      BY <1>1, <1>4, <3>1, <3>4, <3>5 DEF Right, Seen, Only
    <3> QED
      BY <2>1, <3>2, <3>4, <3>6 DEF Kept
  <2>3. CASE i = 2
    <3>1. Suspects("pause", i + 1)' = {"ctrl"} /\ Suspects("pause", i) = {}
      BY <1>1, <1>3, <2>3 DEF Suspects
    <3>2. codes[i] = "14" /\ noBreak
      BY <2>1, <2>3 DEF SendStep, PrefixesAfter
    <3>3. /\ keyMatrix' = keyMatrix \cup {Cell["14"]} /\ UNCHANGED <<altGr, lshift, rshift>>
      BY <3>2, ControlCode, Tables DEF SendStep, ScanCodeTaken
    <3>4. "ctrl" \in KeysOf(Cell["14"])
      BY ControlCode, KeysOfCell
    <3>5. Right(held, held)
      BY <1>4, <3>1 DEF Right, Seen, Only
    <3>6. Right(held \ {"ctrl"}, held \cup {"ctrl"})'
      BY <1>1, <1>3, <3>3, <3>4, <3>5 DEF Right, Seen, Only
    <3>7. Right(Sure("pause", i + 1), Perhaps("pause", i + 1))'
      BY <1>4, <3>1, <3>6 DEF Right, Seen, Only
    <3> QED
      BY <2>1, <2>3, <3>2, <3>7 DEF Kept
  <2>4. CASE i = 6
    <3>1. Suspects("pause", i + 1)' = {} /\ Suspects("pause", i) = {"ctrl"}
      BY <1>1, <1>3, <2>4 DEF Suspects
    <3>2. codes[i] = "14" /\ ~noBreak /\ ~extE0
      BY <2>1, <2>4 DEF SendStep, PrefixesAfter
    <3>3. Right(held \ {}, held)'
      <4>1. "ctrl" \in PlainKeys \ (Extended \cup Grey) /\ ScanCodeTaken(ScanCode["ctrl"])
        BY <3>2, ControlCode DEF SendStep, Extended
      <4>2. Right(held \ {"ctrl"}, held \cup {"ctrl"})
        BY <1>4, <3>1
      <4> QED
        BY <1>1, <1>3, <3>2, <4>1, <4>2, KeyUp
    <3>4. Right(Sure("pause", i + 1), Perhaps("pause", i + 1))'
      BY <1>4, <3>1, <3>3 DEF Right, Seen, Only
    <3> QED
      BY <2>1, <2>4, <3>2, <3>4 DEF Kept
  <2> QED
    BY <2>2, <2>3, <2>4
<1> QED
  BY <1>2, <1>3
-----------------------------------------------------------------------------
(***************************************************************************)
(* The invariant.                                                          *)
(***************************************************************************)

LEMMA Tuples ==
    ASSUME NEW S, NEW a \in S, NEW b \in S, NEW c \in S
    PROVE  /\ <<a>> \in Seq(S) /\ <<a, b>> \in Seq(S) /\ <<a, b, c>> \in Seq(S)
           /\ <<a>> # <<>> /\ <<a, b>> # <<>> /\ <<a, b, c>> # <<>>
OBVIOUS

LEMMA GreyTuples ==
    ASSUME NEW c \in WireCodes
    PROVE  /\ GreyMake(c) \in Seq(WireCodes) /\ GreyBreak(c) \in Seq(WireCodes)
           /\ GreyMake(c) # <<>> /\ GreyBreak(c) # <<>>
<1>1. {"E0", "F0", "12", "59"} \subseteq WireCodes
  BY DEF WireCodes
<1>2. CASE "lshift" \in held /\ "rshift" \in held
  BY <1>1, <1>2 DEF GreyMake, GreyBreak
<1>3. CASE "lshift" \in held /\ "rshift" \notin held
  BY <1>1, <1>3 DEF GreyMake, GreyBreak
<1>4. CASE "lshift" \notin held /\ "rshift" \in held
  BY <1>1, <1>4 DEF GreyMake, GreyBreak
<1>5. CASE "lshift" \notin held /\ "rshift" \notin held
  BY <1>1, <1>5 DEF GreyMake, GreyBreak
<1> QED
  BY <1>2, <1>3, <1>4, <1>5

LEMMA CodesType ==
    ASSUME NEW key \in Keys
    PROVE  /\ Make(key) \in Seq(WireCodes) /\ Break(key) \in Seq(WireCodes)
           /\ Make(key) # <<>> /\ (Break(key) = <<>> <=> key = "pause")
<1>1. CASE key \in PlainKeys \ Grey
  <2> DEFINE c == ScanCode[key]
  <2>1. key # "pause" /\ key # "print" /\ c \in WireCodes /\ {"E0", "F0"} \subseteq WireCodes
    BY <1>1, ControlCode, KeyCodes DEF CodeFacts, WireCodes
  <2>2. /\ Make(key) = <<"E0", c>> \/ Make(key) = <<c>>
        /\ Break(key) = <<"E0", "F0", c>> \/ Break(key) = <<"F0", c>>
    BY <1>1, <2>1 DEF Make, Break
  <2> HIDE DEF c
  <2> QED
    BY <2>1, <2>2, Tuples
<1>2. CASE key = "print"
  <2>1. {"E0", "F0", "7C", "12"} \subseteq WireCodes
    BY DEF WireCodes
  <2>2. <<"E0", "7C">> \in Seq(WireCodes) /\ <<"E0", "12", "E0", "7C">> \in Seq(WireCodes)
    BY <2>1
  <2>3. /\ <<"E0", "F0", "7C">> \in Seq(WireCodes)
        /\ <<"E0", "F0", "7C", "E0", "F0", "12">> \in Seq(WireCodes)
    BY <2>1
  <2>4. Make(key) # <<>> /\ Break(key) # <<>>
    BY <1>2, PrintCodes
  <2> QED
    BY <1>2, <2>2, <2>3, <2>4, PrintCodes
<1>3. CASE key = "pause"
  <2>1. {"E0", "F0", "E1", "77", "7E", "14"} \subseteq WireCodes
    BY ControlCode DEF WireCodes
  <2>2. <<"E0", "7E", "E0", "F0", "7E">> \in Seq(WireCodes) /\ <<>> \in Seq(WireCodes)
    BY <2>1
  <2>3. <<"E1", "14", "77", "E1", "F0", "14", "F0", "77">> \in Seq(WireCodes)
    BY <2>1
  <2>4. Make(key) # <<>> /\ Break(key) = <<>>
    BY <1>3, PauseCodes, SMTT(30)
  <2> QED
    BY <1>3, <2>2, <2>3, <2>4, PauseCodes
<1>4. CASE key \in Grey
  <2>1. key \notin {"pause", "print"} /\ ScanCode[key] \in WireCodes
    BY <1>4, ControlCode, KeyCodes DEF CodeFacts, WireCodes
  <2>2. Make(key) = GreyMake(ScanCode[key]) /\ Break(key) = GreyBreak(ScanCode[key])
    BY <1>4, <2>1 DEF Make, Break
  <2> QED
    BY <2>1, <2>2, GreyTuples
<1> QED
  BY <1>1, <1>2, <1>3, <1>4, KeysAssumption

LEMMA FirstCode ==
    ASSUME NEW codes \in Seq(WireCodes), codes # <<>>, wire' = codes, noBreak', ~extE0'
    PROVE  1 \in 1 .. Len(codes) /\ Position(codes, 1)'
<1>1. Len(codes) \in Nat /\ Len(codes) # 0
  BY EmptySeq
<1>2. SubSeq(codes, 1, Len(codes)) = codes
  BY SubSeqFull
<1> QED
  BY <1>1, <1>2 DEF Position, PrefixesAfter

\* A key whose codes are sent from their beginning.
LEMMA KeySends ==
    ASSUME NEW key \in Keys, NEW codes \in Seq(WireCodes), codes # <<>>,
           wire' = codes, CodesOf(key)' = codes, noBreak', ~extE0',
           Right(Sure(key, 1), Perhaps(key, 1))'
    PROVE  SendInv(key)'
<1>1. 1 \in 1 .. Len(codes) /\ Position(codes, 1)'
  BY FirstCode
<1> QED
  BY <1>1 DEF SendInv, Position

LEMMA TypeKept ==
    ASSUME KeysType, NEW code, Receive(code)
    PROVE  KeysType'
<1>1. CASE code \in {"E0", "F0"}
  BY <1>1 DEF KeysType, Receive
<1>2. CASE code \notin {"E0", "F0"}
  <2>1. held' = held /\ noBreak' = TRUE /\ extE0' = FALSE /\ ScanCodeTaken(code)
    BY <1>2 DEF Receive
  <2>2. {altGr', lshift', rshift'} \subseteq BOOLEAN
    BY <2>1 DEF KeysType, ScanCodeTaken
  <2>3. keyMatrix' \subseteq Cells
    BY <2>1 DEF KeysType, ScanCodeTaken, Cells
  <2> QED
    BY <2>1, <2>2, <2>3 DEF KeysType
<1> QED
  BY <1>1, <1>2

LEMMA ReceiveStep ==
    ASSUME KeysInv, wire # <<>>, Receive(Head(wire))
    PROVE  KeysInv'
<1>1. PICK key \in Keys : SendInv(key)
  BY DEF KeysInv
<1>2. PICK codes : codes = CodesOf(key)
  OBVIOUS
<1>3. codes \in Seq(WireCodes)
  BY <1>2, CodesType DEF CodesOf
<1>4. PICK i \in 1 .. Len(codes) :
          /\ Position(codes, i)
          /\ Right(Sure(key, i), Perhaps(key, i))
  BY <1>1, <1>2 DEF SendInv, Position
<1>5. held' = held
  BY DEF Receive
<1>6. CodesOf(key)' = codes
  BY <1>2, <1>5 DEF CodesOf, Make, Break, GreyMake, GreyBreak
<1>7. Head(wire) = codes[i]
  BY <1>3, <1>4, HeadTailOfSubSeq DEF Position
<1>8. SendStep(key, codes, i)
  BY <1>2, <1>4, <1>5, <1>6, <1>7, CodeMoves DEF SendStep, Position
<1>9. Kept(key, codes, i)
  BY <1>8, PlainStep, GreyDown, GreyUp, PrintStep, PauseStep, KeysAssumption
<1>10. /\ Position(codes, i + 1)'
       /\ i < Len(codes) => wire' # <<>>
       /\ i = Len(codes) => wire' = <<>>
  BY <1>3, <1>4, <1>9, Advance DEF Kept
<1>13. KeysType'
  BY TypeKept DEF KeysInv
<1>11. CASE i < Len(codes)
  <2>1. i + 1 \in 1 .. Len(codes)
    BY <1>11
  <2>2. Right(Sure(key, i + 1), Perhaps(key, i + 1))'
    BY <1>9, <1>11 DEF Kept
  <2>3. SendInv(key)'
    BY <1>6, <1>10, <2>1, <2>2 DEF SendInv, Position
  <2> QED
    BY <1>5, <1>10, <1>11, <1>13, <2>3 DEF KeysInv
<1>12. CASE i = Len(codes)
  <2>1. codes[i] \notin {"E0", "F0"} /\ wire' = <<>> /\ Right(held, held)'
    BY <1>9, <1>10, <1>12 DEF Kept
  <2>2. noBreak' /\ ~extE0'
    BY <1>7, <2>1 DEF Receive
  <2> QED
    BY <1>5, <1>13, <2>1, <2>2 DEF KeysInv
<1> QED
  BY <1>11, <1>12
LEMMA PressStep ==
    ASSUME KeysInv, NEW key \in Keys, Press(key)
    PROVE  KeysInv'
<1>1. /\ key \notin held /\ held' = held \cup {key} /\ wire' = Make(key)
      /\ UNCHANGED kc /\ noBreak /\ ~extE0 /\ Right(held, held)
  BY DEF Press, Idle, KeysInv
<1>2. KeysType'
  BY <1>1 DEF KeysInv, KeysType, kc
<1>3. CodesOf(key)' = Make(key)
  <2>1. /\ key = "pause" => ("ctrl" \in held <=> "ctrl" \in held')
        /\ key \in Grey \cup {"print"} => ("lshift" \in held <=> "lshift" \in held')
        /\ key \in Grey => ("rshift" \in held <=> "rshift" \in held')
    BY <1>1, ControlCode
  <2> QED
    BY <1>1, <2>1 DEF CodesOf, Make, GreyMake, Extended
<1>4. Right(Sure(key, 1), Perhaps(key, 1))'
  <2>1. (Suspects(key, 1))' = IF key = "pause" THEN {} ELSE {key}
    BY DEF Suspects
  <2>2. Right(held' \ (Suspects(key, 1))', held' \cup (Suspects(key, 1))')
    BY <1>1, <2>1, RightWeaker, ControlCode
  <2>3. /\ (Sure(key, 1))' = held' \ (Suspects(key, 1))'
        /\ (Perhaps(key, 1))' = held' \cup (Suspects(key, 1))'
    BY DEF Sure, Perhaps, Restoring
  <2> QED
    BY <1>1, <2>2, <2>3 DEF Right, Seen, Only, kc
<1>5. SendInv(key)' /\ wire' # <<>>
  BY <1>1, <1>3, <1>4, CodesType, KeySends DEF kc
<1> QED
  BY <1>2, <1>5 DEF KeysInv

LEMMA RepeatStep ==
    ASSUME KeysInv, NEW key \in Keys, Repeat(key)
    PROVE  KeysInv'
<1>1. /\ key \in held /\ held' = held /\ wire' = Make(key) /\ key # "pause"
      /\ UNCHANGED kc /\ noBreak /\ ~extE0 /\ Right(held, held)
  BY DEF Repeat, Idle, KeysInv
<1>2. KeysType'
  BY <1>1 DEF KeysInv, KeysType, kc
<1>3. CodesOf(key)' = Make(key)
  BY <1>1 DEF CodesOf, Make, GreyMake
<1>4. Right(Sure(key, 1), Perhaps(key, 1))'
  <2>1. (Sure(key, 1))' = held' \ {key} /\ (Perhaps(key, 1))' = held' \cup {key}
    BY <1>1 DEF Sure, Perhaps, Restoring, Suspects
  <2>2. Right(held' \ {key}, held' \cup {key})
    BY <1>1, RightWeaker
  <2> QED
    BY <1>1, <2>1, <2>2 DEF Right, Seen, Only, kc
<1>5. SendInv(key)' /\ wire' # <<>>
  BY <1>1, <1>3, <1>4, CodesType, KeySends DEF kc
<1> QED
  BY <1>2, <1>5 DEF KeysInv

LEMMA ReleaseStep ==
    ASSUME KeysInv, NEW key \in Keys, Release(key)
    PROVE  KeysInv'
<1>1. /\ key \in held /\ held' = held \ {key} /\ wire' = Break(key)
      /\ UNCHANGED kc /\ noBreak /\ ~extE0 /\ Right(held, held)
  BY DEF Release, Idle, KeysInv
<1>2. KeysType'
  BY <1>1 DEF KeysInv, KeysType, kc
<1>3. Right(held \ {key}, held \cup {key})'
  <2>1. Right(held' \ {key}, held' \cup {key})
    BY <1>1, RightWeaker
  <2> QED
    BY <1>1, <2>1 DEF Right, Seen, Only, kc
<1>4. CASE key = "pause"
  <2>1. wire' = <<>>
    BY <1>1, <1>4, CodesType
  <2>2. Right(held', held')
    BY <1>1, <1>4, RightWeaker, ControlCode
  <2>3. Right(held, held)'
    BY <1>1, <2>2 DEF Right, Seen, Only, kc
  <2> QED
    BY <1>1, <1>2, <2>1, <2>3 DEF KeysInv, kc
<1>5. CASE key # "pause"
  <2>1. CodesOf(key)' = Break(key)
    <3>1. /\ key \in Grey \cup {"print"} => ("lshift" \in held <=> "lshift" \in held')
          /\ key \in Grey => ("rshift" \in held <=> "rshift" \in held')
      BY <1>1, ControlCode
    <3> QED
      BY <1>1, <1>5, <3>1 DEF CodesOf, Break, GreyBreak, Extended
  <2>2. (Sure(key, 1))' = (held \ {key})' /\ (Perhaps(key, 1))' = (held \cup {key})'
    BY <1>5 DEF Sure, Perhaps, Restoring, Suspects
  <2>3. Right(Sure(key, 1), Perhaps(key, 1))'
    BY <1>1, <1>3, <2>2 DEF Right, Seen, Only
  <2>4. SendInv(key)' /\ wire' # <<>>
    BY <1>1, <1>5, <2>1, <2>3, CodesType, KeySends DEF kc
  <2> QED
    BY <1>2, <2>4 DEF KeysInv
<1> QED
  BY <1>4, <1>5

LEMMA KeysStep == KeysInv /\ [Next]_vars => KeysInv'
<1> SUFFICES ASSUME KeysInv, [Next]_vars PROVE KeysInv'
  OBVIOUS
<1>1. CASE ~Idle /\ Receive(Head(wire))
  BY <1>1, ReceiveStep DEF Idle
<1>2. ASSUME NEW key \in Keys, Press(key) \/ Repeat(key) \/ Release(key) PROVE KeysInv'
  BY <1>2, PressStep, RepeatStep, ReleaseStep
<1>3. CASE UNCHANGED vars
  <2>1. KeysType' /\ UNCHANGED <<held, wire, noBreak, extE0>>
    BY <1>3 DEF vars, kc, KeysInv, KeysType
  <2>2. ASSUME NEW lo, NEW hi, NEW lo2, NEW hi2, Right(lo, hi), lo2' = lo, hi2' = hi
        PROVE  Right(lo2, hi2)'
    BY <1>3, <2>2 DEF vars, kc, Right, Seen, Only
  <2>3. ASSUME wire = <<>> PROVE (noBreak /\ ~extE0 /\ Right(held, held))'
    BY <2>1, <2>2, <2>3 DEF KeysInv
  <2>4. ASSUME NEW key \in Keys, SendInv(key) PROVE SendInv(key)'
    <3>1. CodesOf(key)' = CodesOf(key)
      BY <2>1 DEF CodesOf, Make, Break, GreyMake, GreyBreak
    <3>2. \A i : (Sure(key, i))' = Sure(key, i) /\ (Perhaps(key, i))' = Perhaps(key, i)
      BY <2>1 DEF Sure, Perhaps, Restoring, Suspects
    <3>3. \A codes, i : PrefixesAfter(codes, i) => PrefixesAfter(codes, i)'
      BY <2>1 DEF PrefixesAfter
    <3> QED
      BY <1>3, <2>1, <2>4, <3>1, <3>2, <3>3 DEF vars, kc, SendInv, Right, Seen, Only
  <2> QED
    BY <2>1, <2>3, <2>4 DEF KeysInv
<1> QED
  BY <1>1, <1>2, <1>3 DEF Next

LEMMA KeysStarted == Init => KeysInv
<1> SUFFICES ASSUME Init PROVE KeysInv
  OBVIOUS
<1>1. KeysType
  BY DEF Init, KeysType
<1>2. Right(held, held)
  BY DEF Init, Right, Seen, Only
<1> QED
  BY <1>1, <1>2 DEF Init, KeysInv

-----------------------------------------------------------------------------
(***************************************************************************)
(* Results.                                                                *)
(***************************************************************************)

\* The process of ps2kc.vhd that takes the codes keeps what it knows of all
\* keys but the one whose codes are just sent, and of a shift that is held
\* unless a held key has hidden it with the codes 12 and 59, which the process
\* takes with and without E0.
THEOREM KeysInvariant == Spec => []KeysInv
BY KeysStarted, KeysStep, PTL DEF Spec

\* However many keys are pressed, repeated and released, in whatever order, no
\* cell of the matrix, shift or AltGr stays on without its key (ps2kc.vhd, the
\* flip-flops noBreak and extE0 and the table of codes).
THEOREM NoKeySticks == Spec => []NothingSticks
<1>1. KeysInv => NothingSticks
  BY DEF KeysInv, Right, Only, NothingSticks, Idle
<1> QED
  BY <1>1, KeysInvariant, PTL

\* A held key that has its cell for itself is on, and so is AltGr, whatever
\* else is pressed and released meanwhile; a held shift is on again as soon as
\* no key is held that hides it, in whatever order shifts and keys were pressed
\* and released (ps2kc.vhd, the table of codes).
THEOREM NoKeyMissed == Spec => []HeldKeysSeen
<1>1. KeysInv => HeldKeysSeen
  BY DEF KeysInv, Right, Seen, HeldKeysSeen, Idle, Cells
<1> QED
  BY <1>1, KeysInvariant, PTL
-----------------------------------------------------------------------------
(***************************************************************************)
(* What a key types.                                                       *)
(***************************************************************************)

LEMMA UpTo17 ==
    ASSUME NEW S, 1 \in S, \A k \in 1 .. 16 : k \in S => k + 1 \in S
    PROVE  17 \in S
<1>1. \A k \in 1 .. 13 : k \in S => k + 4 \in S
  <2> TAKE k \in 1 .. 13
  <2> HAVE k \in S
  <2>1. k + 1 \in S
    OBVIOUS
  <2>2. k + 1 + 1 \in S
    BY <2>1
  <2>3. k + 1 + 1 + 1 \in S
    BY <2>2
  <2>4. k + 1 + 1 + 1 + 1 \in S
    BY <2>3
  <2> QED
    BY <2>4
<1>2. 5 \in S
  BY <1>1
<1>3. 9 \in S
  BY <1>1, <1>2
<1>4. 13 \in S
  BY <1>1, <1>3
<1> QED
  BY <1>1, <1>4

LEMMA MovesCount == Len(Moves) = 17
BY DEF Moves

\* The cells before the first move and after each of them.
LEMMA MovesMade ==
    \E a : /\ a[0] = keyMatrix /\ tmpKeyMatrix = a[17]
           /\ \A n \in 1 .. 17 : a[n] = Moved(a[n - 1], Moves[n])
<1> DEFINE N == 17
           F(a, k) == [n \in 0 .. k |-> IF n = 0 THEN keyMatrix ELSE Moved(a[n - 1], Moves[n])]
           Made == {k \in Nat : \E a : a = F(a, k)}
<1>1. 0 \in Made
  <2>1. [n \in 0 .. 0 |-> keyMatrix] = F([n \in 0 .. 0 |-> keyMatrix], 0)
    OBVIOUS
  <2> QED
    BY <2>1
<1>2. ASSUME NEW k \in Made
      PROVE  k + 1 \in Made
  <2>1. PICK a : a = F(a, k)
    OBVIOUS
  <2> DEFINE b == [n \in 0 .. k + 1 |-> IF n <= k THEN a[n] ELSE Moved(a[k], Moves[k + 1])]
  <2>2. ASSUME NEW n \in 0 .. k + 1
        PROVE  b[n] = IF n = 0 THEN keyMatrix ELSE Moved(b[n - 1], Moves[n])
    <3>1. k \in Nat /\ n \in Nat
      OBVIOUS
    <3>2. CASE n = 0
      BY <2>1, <3>1, <3>2
    <3>3. CASE n \in 1 .. k
      <4>1. n \in 0 .. k /\ n - 1 \in 0 .. k /\ n # 0
        BY <3>1, <3>3
      <4>2. b[n] = a[n] /\ b[n - 1] = a[n - 1]
        BY <3>1, <3>3
      <4>3. a[n] = Moved(a[n - 1], Moves[n])
        BY <2>1, <4>1
      <4> QED
        BY <4>1, <4>2, <4>3
    <3>4. CASE n = k + 1
      <4>1. n # 0 /\ n - 1 = k
        BY <3>1, <3>4
      <4>2. b[n] = Moved(a[k], Moves[k + 1]) /\ b[k] = a[k]
        BY <3>1, <3>4
      <4> QED
        BY <3>4, <4>1, <4>2
    <3> QED
      BY <3>1, <3>2, <3>3, <3>4
  <2>3. b = F(b, k + 1)
    BY <2>2
  <2>4. k + 1 \in Nat
    OBVIOUS
  <2> HIDE DEF b
  <2> QED
    BY <2>3, <2>4
<1>3. N \in Made
  <2> HIDE DEF Made
  <2>1. 0 + 1 \in Made
    BY <1>1, <1>2
  <2>2. 1 \in Made
    BY <2>1
  <2>3. \A k \in 1 .. 16 : k \in Made => k + 1 \in Made
    BY <1>2
  <2>4. 17 \in Made
    BY <2>2, <2>3, UpTo17
  <2> QED
    BY <2>4
<1>4. PICK a : a = F(a, N)
  BY <1>3
<1> DEFINE c == CHOOSE f :
                    f = [n \in 0 .. N |-> IF n = 0 THEN keyMatrix ELSE Moved(f[n - 1], Moves[n])]
<1>5. c = F(c, N)
  BY <1>4
<1>6. tmpKeyMatrix = c[N]
  BY MovesCount DEF tmpKeyMatrix
<1> HIDE DEF c
<1>7. c[0] = keyMatrix
  BY <1>5
<1>8. ASSUME NEW n \in 1 .. N
      PROVE  c[n] = Moved(c[n - 1], Moves[n])
  <2>1. n \in 0 .. N /\ n # 0
    OBVIOUS
  <2> QED
    BY <1>5, <2>1
<1> QED
  BY <1>6, <1>7, <1>8

\* Only move m is made, and the shift.
Only1(m) == \A n \in 2 .. 17 : n # m => ~Moves[n].when

LEMMA OneMove ==
    ASSUME NEW m \in 2 .. 17, Only1(m)
    PROVE  tmpKeyMatrix = Moved(Moved(keyMatrix, Moves[1]), Moves[m])
<1>1. PICK a : /\ a[0] = keyMatrix /\ tmpKeyMatrix = a[17]
               /\ \A n \in 1 .. 17 : a[n] = Moved(a[n - 1], Moves[n])
  BY MovesMade
<1> DEFINE first == Moved(keyMatrix, Moves[1])
           D == {k \in 1 .. 17 : a[k] = IF k < m THEN first ELSE Moved(first, Moves[m])}
<1>2. a[1] = first
  BY <1>1
<1> HIDE DEF first
<1>3. 1 \in D
  BY <1>2
<1>4. ASSUME NEW k \in 1 .. 16, k \in D
      PROVE  k + 1 \in D
  <2>1. a[k + 1] = Moved(a[k], Moves[k + 1])
    BY <1>1
  <2>2. CASE k + 1 = m
    BY <1>4, <2>1, <2>2
  <2>3. CASE k + 1 # m
    <3>1. ~Moves[k + 1].when
      BY <2>3 DEF Only1
    <3>2. a[k + 1] = a[k]
      BY <2>1, <3>1 DEF Moved
    <3> QED
      BY <1>4, <2>3, <3>2
  <2> QED
    BY <2>2, <2>3
<1>5. 17 \in D
  <2> HIDE DEF D
  <2> QED
    BY <1>3, <1>4, UpTo17
<1>6. ~(17 < m)
  OBVIOUS
<1> QED
  BY <1>1, <1>5, <1>6 DEF first

LEMMA MoveTable ==
    /\ Moves[1].when <=> shift
    /\ Moves[1].up = {} /\ Moves[1].down = {ShiftCell}
    /\ Moves[2].when <=> 52 \in keyMatrix /\ altGr
    /\ Moves[2].up = {52} /\ Moves[2].down = {31}
    /\ Moves[3].when <=> 68 \in keyMatrix
    /\ Moves[3].up = {68} /\ Moves[3].down = {66, ShiftCell}
    /\ Moves[4].when <=> 11 \in keyMatrix /\ shift
    /\ Moves[4].up = {11, ShiftCell} /\ Moves[4].down = {26}
    /\ Moves[5].when <=> 14 \in keyMatrix /\ shift
    /\ Moves[5].up = {14} /\ Moves[5].down = {}
    /\ Moves[6].when <=> 18 \in keyMatrix /\ shift
    /\ Moves[6].up = {18} /\ Moves[6].down = {28}
    /\ Moves[7].when <=> 23 \in keyMatrix /\ shift
    /\ Moves[7].up = {23} /\ Moves[7].down = {27}
    /\ Moves[8].when <=> 23 \in keyMatrix /\ ~shift
    /\ Moves[8].up = {23} /\ Moves[8].down = {25, ShiftCell}
    /\ Moves[9].when <=> 24 \in keyMatrix /\ shift
    /\ Moves[9].up = {24} /\ Moves[9].down = {23}
    /\ Moves[10].when <=> 24 \in keyMatrix /\ ~shift
    /\ Moves[10].up = {} /\ Moves[10].down = {ShiftCell}
    /\ Moves[11].when <=> 25 \in keyMatrix /\ shift
    /\ Moves[11].up = {25, ShiftCell} /\ Moves[11].down = {24}
    /\ Moves[12].when <=> 26 \in keyMatrix /\ shift
    /\ Moves[12].up = {26} /\ Moves[12].down = {11}
    /\ Moves[13].when <=> 26 \in keyMatrix /\ ~shift
    /\ Moves[13].up = {} /\ Moves[13].down = {ShiftCell}
    /\ Moves[14].when <=> 27 \in keyMatrix /\ shift
    /\ Moves[14].up = {27, ShiftCell} /\ Moves[14].down = {23}
    /\ Moves[15].when <=> 28 \in keyMatrix /\ shift
    /\ Moves[15].up = {ShiftCell} /\ Moves[15].down = {}
    /\ Moves[16].when <=> 88 \in keyMatrix /\ shift
    /\ Moves[16].up = {88} /\ Moves[16].down = {18, ShiftCell}
    /\ Moves[17].when <=> 88 \in keyMatrix /\ ~shift
    /\ Moves[17].up = {88} /\ Moves[17].down = {14, ShiftCell}
BY DEF Moves, Move

\* What makes a move.
LEMMA MadeFor ==
    ASSUME NEW n \in 2 .. 17, Moves[n].when
    PROVE  \/ n = 2 /\ 52 \in keyMatrix /\ altGr
           \/ n = 3 /\ 68 \in keyMatrix
           \/ n = 4 /\ 11 \in keyMatrix /\ shift
           \/ n = 5 /\ 14 \in keyMatrix /\ shift
           \/ n = 6 /\ 18 \in keyMatrix /\ shift
           \/ n = 7 /\ 23 \in keyMatrix /\ shift
           \/ n = 8 /\ 23 \in keyMatrix /\ ~shift
           \/ n = 9 /\ 24 \in keyMatrix /\ shift
           \/ n = 10 /\ 24 \in keyMatrix /\ ~shift
           \/ n = 11 /\ 25 \in keyMatrix /\ shift
           \/ n = 12 /\ 26 \in keyMatrix /\ shift
           \/ n = 13 /\ 26 \in keyMatrix /\ ~shift
           \/ n = 14 /\ 27 \in keyMatrix /\ shift
           \/ n = 15 /\ 28 \in keyMatrix /\ shift
           \/ n = 16 /\ 88 \in keyMatrix /\ shift
           \/ n = 17 /\ 88 \in keyMatrix /\ ~shift
<1>1. \/ n = 2 \/ n = 3 \/ n = 4 \/ n = 5 \/ n = 6 \/ n = 7 \/ n = 8 \/ n = 9 \/ n = 10 \/ n = 11
      \/ n = 12 \/ n = 13 \/ n = 14 \/ n = 15 \/ n = 16 \/ n = 17
  OBVIOUS
<1> QED
  BY <1>1, MoveTable

\* With one cell on, at most one move is made besides the shift.
LEMMA MadeOnce ==
    ASSUME NEW m \in 2 .. 17, Only1(m)
    PROVE  LET shifted == IF shift THEN keyMatrix \cup {81} ELSE keyMatrix
           IN  tmpKeyMatrix = IF Moves[m].when
                              THEN (shifted \ Moves[m].up) \cup Moves[m].down ELSE shifted
<1>1. Moved(keyMatrix, Moves[1]) = IF shift THEN keyMatrix \cup {81} ELSE keyMatrix
  BY MoveTable DEF Moved, ShiftCell
<1> QED
  BY <1>1, OneMove DEF Moved

LEMMA OneCell ==
    /\ keyMatrix = {11} => tmpKeyMatrix = IF shift THEN {26} ELSE {11}
    /\ keyMatrix = {14} => tmpKeyMatrix = IF shift THEN {81} ELSE {14}
    /\ keyMatrix = {18} => tmpKeyMatrix = IF shift THEN {28, 81} ELSE {18}
    /\ keyMatrix = {21} => tmpKeyMatrix = IF shift THEN {21, 81} ELSE {21}
    /\ keyMatrix = {23} => tmpKeyMatrix = IF shift THEN {27, 81} ELSE {25, 81}
    /\ keyMatrix = {24} => tmpKeyMatrix = IF shift THEN {23, 81} ELSE {24, 81}
    /\ keyMatrix = {25} => tmpKeyMatrix = IF shift THEN {24} ELSE {25}
    /\ keyMatrix = {26} => tmpKeyMatrix = IF shift THEN {11, 81} ELSE {26, 81}
    /\ keyMatrix = {27} => tmpKeyMatrix = IF shift THEN {23} ELSE {27}
    /\ keyMatrix = {28} => tmpKeyMatrix = IF shift THEN {28} ELSE {28}
    /\ keyMatrix = {32} => tmpKeyMatrix = IF shift THEN {32, 81} ELSE {32}
    /\ keyMatrix = {66} => tmpKeyMatrix = IF shift THEN {66, 81} ELSE {66}
    /\ keyMatrix = {68} => tmpKeyMatrix = IF shift THEN {66, 81} ELSE {66, 81}
    /\ keyMatrix = {88} => tmpKeyMatrix = IF shift THEN {18, 81} ELSE {14, 81}
    /\ keyMatrix = {52} =>
           tmpKeyMatrix = IF altGr THEN IF shift THEN {31, 81} ELSE {31}
                          ELSE IF shift THEN {52, 81} ELSE {52}
<1>1. ASSUME keyMatrix = {11}
      PROVE  tmpKeyMatrix = IF shift THEN {26} ELSE {11}
  <2>1. Only1(4)
    BY <1>1, MadeFor DEF Only1
  <2> QED
    BY <1>1, <2>1, MadeOnce, MoveTable DEF ShiftCell
<1>2. ASSUME keyMatrix = {14}
      PROVE  tmpKeyMatrix = IF shift THEN {81} ELSE {14}
  <2>1. Only1(5)
    BY <1>2, MadeFor DEF Only1
  <2> QED
    BY <1>2, <2>1, MadeOnce, MoveTable DEF ShiftCell
<1>3. ASSUME keyMatrix = {18}
      PROVE  tmpKeyMatrix = IF shift THEN {28, 81} ELSE {18}
  <2>1. Only1(6)
    BY <1>3, MadeFor DEF Only1
  <2> QED
    BY <1>3, <2>1, MadeOnce, MoveTable DEF ShiftCell
<1>4. ASSUME keyMatrix = {21}
      PROVE  tmpKeyMatrix = IF shift THEN {21, 81} ELSE {21}
  <2>1. Only1(2)
    BY <1>4, MadeFor DEF Only1
  <2> QED
    BY <1>4, <2>1, MadeOnce, MoveTable DEF ShiftCell
<1>5. ASSUME keyMatrix = {23}
      PROVE  tmpKeyMatrix = IF shift THEN {27, 81} ELSE {25, 81}
  <2>1. CASE shift
    <3>1. Only1(7)
      BY <1>5, <2>1, MadeFor DEF Only1
    <3> QED
      BY <1>5, <2>1, <3>1, MadeOnce, MoveTable DEF ShiftCell
  <2>2. CASE ~shift
    <3>1. Only1(8)
      BY <1>5, <2>2, MadeFor DEF Only1
    <3> QED
      BY <1>5, <2>2, <3>1, MadeOnce, MoveTable DEF ShiftCell
  <2> QED
    BY <2>1, <2>2
<1>6. ASSUME keyMatrix = {24}
      PROVE  tmpKeyMatrix = IF shift THEN {23, 81} ELSE {24, 81}
  <2>1. CASE shift
    <3>1. Only1(9)
      BY <1>6, <2>1, MadeFor DEF Only1
    <3> QED
      BY <1>6, <2>1, <3>1, MadeOnce, MoveTable DEF ShiftCell
  <2>2. CASE ~shift
    <3>1. Only1(10)
      BY <1>6, <2>2, MadeFor DEF Only1
    <3> QED
      BY <1>6, <2>2, <3>1, MadeOnce, MoveTable DEF ShiftCell
  <2> QED
    BY <2>1, <2>2
<1>7. ASSUME keyMatrix = {25}
      PROVE  tmpKeyMatrix = IF shift THEN {24} ELSE {25}
  <2>1. Only1(11)
    BY <1>7, MadeFor DEF Only1
  <2> QED
    BY <1>7, <2>1, MadeOnce, MoveTable DEF ShiftCell
<1>8. ASSUME keyMatrix = {26}
      PROVE  tmpKeyMatrix = IF shift THEN {11, 81} ELSE {26, 81}
  <2>1. CASE shift
    <3>1. Only1(12)
      BY <1>8, <2>1, MadeFor DEF Only1
    <3> QED
      BY <1>8, <2>1, <3>1, MadeOnce, MoveTable DEF ShiftCell
  <2>2. CASE ~shift
    <3>1. Only1(13)
      BY <1>8, <2>2, MadeFor DEF Only1
    <3> QED
      BY <1>8, <2>2, <3>1, MadeOnce, MoveTable DEF ShiftCell
  <2> QED
    BY <2>1, <2>2
<1>9. ASSUME keyMatrix = {27}
      PROVE  tmpKeyMatrix = IF shift THEN {23} ELSE {27}
  <2>1. Only1(14)
    BY <1>9, MadeFor DEF Only1
  <2> QED
    BY <1>9, <2>1, MadeOnce, MoveTable DEF ShiftCell
<1>10. ASSUME keyMatrix = {28}
      PROVE  tmpKeyMatrix = IF shift THEN {28} ELSE {28}
  <2>1. Only1(15)
    BY <1>10, MadeFor DEF Only1
  <2> QED
    BY <1>10, <2>1, MadeOnce, MoveTable DEF ShiftCell
<1>11. ASSUME keyMatrix = {32}
      PROVE  tmpKeyMatrix = IF shift THEN {32, 81} ELSE {32}
  <2>1. Only1(2)
    BY <1>11, MadeFor DEF Only1
  <2> QED
    BY <1>11, <2>1, MadeOnce, MoveTable DEF ShiftCell
<1>12. ASSUME keyMatrix = {66}
      PROVE  tmpKeyMatrix = IF shift THEN {66, 81} ELSE {66}
  <2>1. Only1(2)
    BY <1>12, MadeFor DEF Only1
  <2> QED
    BY <1>12, <2>1, MadeOnce, MoveTable DEF ShiftCell
<1>13. ASSUME keyMatrix = {68}
      PROVE  tmpKeyMatrix = IF shift THEN {66, 81} ELSE {66, 81}
  <2>1. Only1(3)
    BY <1>13, MadeFor DEF Only1
  <2> QED
    BY <1>13, <2>1, MadeOnce, MoveTable DEF ShiftCell
<1>14. ASSUME keyMatrix = {88}
      PROVE  tmpKeyMatrix = IF shift THEN {18, 81} ELSE {14, 81}
  <2>1. CASE shift
    <3>1. Only1(16)
      BY <1>14, <2>1, MadeFor DEF Only1
    <3> QED
      BY <1>14, <2>1, <3>1, MadeOnce, MoveTable DEF ShiftCell
  <2>2. CASE ~shift
    <3>1. Only1(17)
      BY <1>14, <2>2, MadeFor DEF Only1
    <3> QED
      BY <1>14, <2>2, <3>1, MadeOnce, MoveTable DEF ShiftCell
  <2> QED
    BY <2>1, <2>2
<1>15. ASSUME keyMatrix = {52}
      PROVE  tmpKeyMatrix = IF altGr THEN IF shift THEN {31, 81} ELSE {31}
                            ELSE IF shift THEN {52, 81} ELSE {52}
  <2>1. Only1(2)
    BY <1>15, MadeFor DEF Only1
  <2> QED
    BY <1>15, <2>1, MadeOnce, MoveTable DEF ShiftCell
<1> QED
  BY <1>1, <1>2, <1>3, <1>4, <1>5, <1>6, <1>7, <1>8, <1>9, <1>10, <1>11, <1>12, <1>13, <1>14, <1>15

\* A scan finds all cells that are on, by rows as well as by columns.
Positions == {10 * r + c : r \in 1 .. 8, c \in 1 .. 8}

LEMMA Scanned ==
    ASSUME tmpKeyMatrix \subseteq Positions
    PROVE  ByRows = tmpKeyMatrix /\ ByColumns = tmpKeyMatrix
<1>1. ByRows \subseteq tmpKeyMatrix /\ ByColumns \subseteq tmpKeyMatrix
  BY DEF ByRows, ByColumns, matrixXout, matrixYout
<1>2. ASSUME NEW x \in tmpKeyMatrix
      PROVE  x \in ByRows /\ x \in ByColumns
  <2>1. PICK r \in 1 .. 8, c \in 1 .. 8 : x = 10 * r + c
    BY DEF Positions
  <2>2. c \in matrixXout({r}) /\ r \in matrixYout({c})
    BY <2>1 DEF matrixXout, matrixYout
  <2>3. x \in {10 * r + d : d \in matrixXout({r})}
    BY <2>1, <2>2
  <2>4. x \in {10 * d + c : d \in matrixYout({c})}
    BY <2>1, <2>2
  <2> QED
    BY <2>3, <2>4 DEF ByRows, ByColumns
<1> QED
  BY <1>1, <1>2

KcCells == {11, 14, 18, 21, 23, 24, 25, 26, 27, 28, 31, 32, 52, 66}

LEMMA CellPositions ==
    /\ \A cell \in KcCells : cell \in Positions /\ cell # 81
    /\ 81 \in Positions
<1>1. \A r \in 1 .. 8 : \A c \in 1 .. 8 : 10 * r + c \in Positions
  BY DEF Positions
<1> HIDE DEF Positions
<1>2. 10 * 1 + 1 \in Positions /\ 10 * 1 + 4 \in Positions /\ 10 * 1 + 8 \in Positions
  BY <1>1
<1>3. /\ 10 * 2 + 1 \in Positions /\ 10 * 2 + 3 \in Positions
      /\ 10 * 2 + 4 \in Positions /\ 10 * 2 + 5 \in Positions
  BY <1>1
<1>4. 10 * 2 + 6 \in Positions /\ 10 * 2 + 7 \in Positions /\ 10 * 2 + 8 \in Positions
  BY <1>1
<1>5. 10 * 3 + 1 \in Positions /\ 10 * 3 + 2 \in Positions
  BY <1>1
<1>6. 10 * 5 + 2 \in Positions /\ 10 * 6 + 6 \in Positions /\ 10 * 8 + 1 \in Positions
  BY <1>1
<1> QED
  BY <1>2, <1>3, <1>4, <1>5, <1>6 DEF KcCells

KcHas(cell, plain, shifted) ==
    /\ cell \in KcCells
    /\ KcLegend[cell][1] = plain /\ KcLegend[cell][2] = shifted

LEMMA KcTable ==
    /\ KcHas(11, "0", "_")
    /\ KcHas(14, "3", "#")
    /\ KcHas(18, "7", "'")
    /\ KcHas(21, "8", "(")
    /\ KcHas(23, ":", "*")
    /\ KcHas(24, ";", "+")
    /\ KcHas(25, ",", "<")
    /\ KcHas(26, "=", "-")
    /\ KcHas(27, ".", ">")
    /\ KcHas(28, "?", "/")
    /\ KcHas(31, "@", "@")
    /\ KcHas(32, "A", "A")
    /\ KcHas(52, "Q", "Q")
    /\ KcHas(66, "INS", "DEL")
<1>1. KcHas(11, "0", "_")
  BY DEF KcHas, KcCells, KcLegend
<1>2. KcHas(14, "3", "#")
  BY DEF KcHas, KcCells, KcLegend
<1>3. KcHas(18, "7", "'")
  BY DEF KcHas, KcCells, KcLegend
<1>4. KcHas(21, "8", "(")
  BY DEF KcHas, KcCells, KcLegend
<1>5. KcHas(23, ":", "*")
  BY DEF KcHas, KcCells, KcLegend
<1>6. KcHas(24, ";", "+")
  BY DEF KcHas, KcCells, KcLegend
<1>7. KcHas(25, ",", "<")
  BY DEF KcHas, KcCells, KcLegend
<1>8. KcHas(26, "=", "-")
  BY DEF KcHas, KcCells, KcLegend
<1>9. KcHas(27, ".", ">")
  BY DEF KcHas, KcCells, KcLegend
<1>10. KcHas(28, "?", "/")
  BY DEF KcHas, KcCells, KcLegend
<1>11. KcHas(31, "@", "@")
  BY DEF KcHas, KcCells, KcLegend
<1>12. KcHas(32, "A", "A")
  BY DEF KcHas, KcCells, KcLegend
<1>13. KcHas(52, "Q", "Q")
  BY DEF KcHas, KcCells, KcLegend
<1>14. KcHas(66, "INS", "DEL")
  BY DEF KcHas, KcCells, KcLegend
<1> QED
  BY <1>1, <1>2, <1>3, <1>4, <1>5, <1>6, <1>7, <1>8,
     <1>9, <1>10, <1>11, <1>12, <1>13, <1>14

\* Where the key is, and what is on it.
KeyHas(key, cell, plain, shifted) ==
    /\ Cell[ScanCode[key]] = cell
    /\ GermanLegend[key][1] = plain /\ GermanLegend[key][2] = shifted

LEMMA KeyTable ==
    /\ KeyHas("0", 11, "0", "=")
    /\ KeyHas("3", 14, "3", "")
    /\ KeyHas("7", 18, "7", "/")
    /\ KeyHas("8", 21, "8", "(")
    /\ KeyHas("<", 23, "<", ">")
    /\ KeyHas("+", 24, "+", "*")
    /\ KeyHas(",", 25, ",", ";")
    /\ KeyHas("-", 26, "-", "_")
    /\ KeyHas(".", 27, ".", ":")
    /\ KeyHas("sz", 28, "?", "?")
    /\ KeyHas("#", 88, "#", "'")
    /\ KeyHas("q", 52, "Q", "Q")
    /\ KeyHas("a", 32, "A", "A")
    /\ KeyHas("insert", 66, "INS", "DEL")
    /\ KeyHas("delete", 68, "DEL", "DEL")
    /\ KeyHas("backspace", 68, "DEL", "DEL")
<1>1. KeyHas("0", 11, "0", "=")
  BY DEF KeyHas, Cell, MatrixCodes, ScanCode, PlainKeys, GermanLegend, Characters
<1>2. KeyHas("3", 14, "3", "")
  BY DEF KeyHas, Cell, MatrixCodes, ScanCode, PlainKeys, GermanLegend, Characters
<1>3. KeyHas("7", 18, "7", "/")
  BY DEF KeyHas, Cell, MatrixCodes, ScanCode, PlainKeys, GermanLegend, Characters
<1>4. KeyHas("8", 21, "8", "(")
  BY DEF KeyHas, Cell, MatrixCodes, ScanCode, PlainKeys, GermanLegend, Characters
<1>5. KeyHas("<", 23, "<", ">")
  BY DEF KeyHas, Cell, MatrixCodes, ScanCode, PlainKeys, GermanLegend, Characters
<1>6. KeyHas("+", 24, "+", "*")
  BY DEF KeyHas, Cell, MatrixCodes, ScanCode, PlainKeys, GermanLegend, Characters
<1>7. KeyHas(",", 25, ",", ";")
  BY DEF KeyHas, Cell, MatrixCodes, ScanCode, PlainKeys, GermanLegend, Characters
<1>8. KeyHas("-", 26, "-", "_")
  BY DEF KeyHas, Cell, MatrixCodes, ScanCode, PlainKeys, GermanLegend, Characters
<1>9. KeyHas(".", 27, ".", ":")
  BY DEF KeyHas, Cell, MatrixCodes, ScanCode, PlainKeys, GermanLegend, Characters
<1>10. KeyHas("sz", 28, "?", "?")
  BY DEF KeyHas, Cell, MatrixCodes, ScanCode, PlainKeys, GermanLegend, Characters
<1>11. KeyHas("#", 88, "#", "'")
  BY DEF KeyHas, Cell, MatrixCodes, ScanCode, PlainKeys, GermanLegend, Characters
<1>12. KeyHas("q", 52, "Q", "Q")
  BY DEF KeyHas, Cell, MatrixCodes, ScanCode, PlainKeys, GermanLegend, Characters
<1>13. KeyHas("a", 32, "A", "A")
  BY DEF KeyHas, Cell, MatrixCodes, ScanCode, PlainKeys, GermanLegend, Characters
<1>14. KeyHas("insert", 66, "INS", "DEL")
  BY DEF KeyHas, Cell, MatrixCodes, ScanCode, PlainKeys, GermanLegend, Characters
<1>15. KeyHas("delete", 68, "DEL", "DEL")
  BY DEF KeyHas, Cell, MatrixCodes, ScanCode, PlainKeys, GermanLegend, Characters
<1>16. KeyHas("backspace", 68, "DEL", "DEL")
  BY DEF KeyHas, Cell, MatrixCodes, ScanCode, PlainKeys, GermanLegend, Characters
<1> QED
  BY <1>1, <1>2, <1>3, <1>4, <1>5, <1>6, <1>7, <1>8,
     <1>9, <1>10, <1>11, <1>12, <1>13, <1>14, <1>15, <1>16

\* The KC87 has no such character.
Unmarked == ""

\* What LegendTyped wants of the cells a scan finds.
Legible(cells, key) ==
    LET typed == cells \ {81}
        n == IF 81 \in cells THEN 2 ELSE 1
    IN  IF Wanted(key) = Unmarked THEN typed = {}
        ELSE \E cell \in typed : typed = {cell} /\ KcLegend[cell][n] = Wanted(key)

LEMMA OneKey ==
    ASSUME KeysInv, NEW key \in Characters, key \in held, Idle, Cell[ScanCode[key]] \in keyMatrix,
           held \subseteq {key, "lshift", "rshift", "altgr"}
    PROVE  keyMatrix = {Cell[ScanCode[key]]}
<1>1. \A cell \in keyMatrix : KeysOf(cell) \cap held # {}
  BY DEF KeysInv, Idle, Right, Only
<1>2. ASSUME NEW cell \in keyMatrix
      PROVE  cell = Cell[ScanCode[key]]
  <2>1. PICK other \in held : other \in KeysOf(cell)
    BY <1>1
  <2>2. other \in PlainKeys /\ ScanCode[other] \in MatrixCodes /\ cell = Cell[ScanCode[other]]
    BY <2>1, KeysOfCell
  <2>3. other \notin {"lshift", "rshift", "altgr"}
    BY <2>2, KeyCodes DEF CodeFacts
  <2> QED
    BY <2>2, <2>3
<1> QED
  BY <1>2

\* One cell is left, with the KC87's shift or without it.
Types(key, cell, n) ==
    /\ cell \in KcCells /\ n \in {1, 2}
    /\ tmpKeyMatrix = IF n = 2 THEN {cell, 81} ELSE {cell}
    /\ KcLegend[cell][n] = Wanted(key)

LEMMA Found ==
    ASSUME NEW key, NEW n, NEW cell, Types(key, cell, n), Wanted(key) # Unmarked
    PROVE  tmpKeyMatrix \subseteq Positions /\ Legible(tmpKeyMatrix, key)
<1>1. cell \in Positions /\ 81 \in Positions /\ cell # 81
  BY CellPositions DEF Types
<1>2. CASE n = 1
  <2>1. n # 2
    BY <1>2
  <2>2. tmpKeyMatrix = {cell} /\ KcLegend[cell][1] = Wanted(key)
    BY <1>2, <2>1 DEF Types
  <2>3. tmpKeyMatrix \ {81} = {cell} /\ 81 \notin tmpKeyMatrix
    BY <1>1, <2>2
  <2> QED
    BY <1>1, <2>2, <2>3 DEF Legible
<1>3. CASE n = 2
  <2>1. tmpKeyMatrix = {cell, 81} /\ KcLegend[cell][2] = Wanted(key)
    BY <1>3 DEF Types
  <2>2. tmpKeyMatrix \ {81} = {cell} /\ 81 \in tmpKeyMatrix
    BY <1>1, <2>1
  <2> QED
    BY <1>1, <2>1, <2>2 DEF Legible
<1> QED
  BY <1>2, <1>3 DEF Types

LEMMA KeyLegible ==
    ASSUME NEW key \in Characters, keyMatrix = {Cell[ScanCode[key]]}
    PROVE  tmpKeyMatrix \subseteq Positions /\ Legible(tmpKeyMatrix, key)
<1>1. CASE key = "0"
  <2>1. KeyHas("0", 11, "0", "=")
    BY KeyTable
  <2>2. keyMatrix = {11}
    BY <1>1, <2>1 DEF KeyHas
  <2>3. CASE shift
    <3>1. tmpKeyMatrix = {26} /\ Wanted(key) = "="
      BY <1>1, <2>1, <2>2, <2>3, OneCell DEF KeyHas, Wanted
    <3>2. KcHas(26, "=", "-")
      BY KcTable
    <3>3. Types(key, 26, 1)
      BY <3>1, <3>2 DEF KcHas, Types
    <3>4. Wanted(key) # Unmarked
      BY <3>1 DEF Unmarked
    <3> QED
      BY <3>3, <3>4, Found
  <2>4. CASE ~shift
    <3>1. tmpKeyMatrix = {11} /\ Wanted(key) = "0"
      BY <1>1, <2>1, <2>2, <2>4, OneCell DEF KeyHas, Wanted
    <3>2. KcHas(11, "0", "_")
      BY KcTable
    <3>3. Types(key, 11, 1)
      BY <3>1, <3>2 DEF KcHas, Types
    <3>4. Wanted(key) # Unmarked
      BY <3>1 DEF Unmarked
    <3> QED
      BY <3>3, <3>4, Found
  <2> QED
    BY <2>3, <2>4
<1>2. CASE key = "3"
  <2>1. KeyHas("3", 14, "3", "")
    BY KeyTable
  <2>2. keyMatrix = {14}
    BY <1>2, <2>1 DEF KeyHas
  <2>3. CASE shift
    <3>1. tmpKeyMatrix = {81} /\ Wanted(key) = ""
      BY <1>2, <2>1, <2>2, <2>3, OneCell DEF KeyHas, Wanted
    <3> QED
      BY <3>1, CellPositions DEF Legible, Unmarked
  <2>4. CASE ~shift
    <3>1. tmpKeyMatrix = {14} /\ Wanted(key) = "3"
      BY <1>2, <2>1, <2>2, <2>4, OneCell DEF KeyHas, Wanted
    <3>2. KcHas(14, "3", "#")
      BY KcTable
    <3>3. Types(key, 14, 1)
      BY <3>1, <3>2 DEF KcHas, Types
    <3>4. Wanted(key) # Unmarked
      BY <3>1 DEF Unmarked
    <3> QED
      BY <3>3, <3>4, Found
  <2> QED
    BY <2>3, <2>4
<1>3. CASE key = "7"
  <2>1. KeyHas("7", 18, "7", "/")
    BY KeyTable
  <2>2. keyMatrix = {18}
    BY <1>3, <2>1 DEF KeyHas
  <2>3. CASE shift
    <3>1. tmpKeyMatrix = {28, 81} /\ Wanted(key) = "/"
      BY <1>3, <2>1, <2>2, <2>3, OneCell DEF KeyHas, Wanted
    <3>2. KcHas(28, "?", "/")
      BY KcTable
    <3>3. Types(key, 28, 2)
      BY <3>1, <3>2 DEF KcHas, Types
    <3>4. Wanted(key) # Unmarked
      BY <3>1 DEF Unmarked
    <3> QED
      BY <3>3, <3>4, Found
  <2>4. CASE ~shift
    <3>1. tmpKeyMatrix = {18} /\ Wanted(key) = "7"
      BY <1>3, <2>1, <2>2, <2>4, OneCell DEF KeyHas, Wanted
    <3>2. KcHas(18, "7", "'")
      BY KcTable
    <3>3. Types(key, 18, 1)
      BY <3>1, <3>2 DEF KcHas, Types
    <3>4. Wanted(key) # Unmarked
      BY <3>1 DEF Unmarked
    <3> QED
      BY <3>3, <3>4, Found
  <2> QED
    BY <2>3, <2>4
<1>4. CASE key = "8"
  <2>1. KeyHas("8", 21, "8", "(")
    BY KeyTable
  <2>2. keyMatrix = {21}
    BY <1>4, <2>1 DEF KeyHas
  <2>3. CASE shift
    <3>1. tmpKeyMatrix = {21, 81} /\ Wanted(key) = "("
      BY <1>4, <2>1, <2>2, <2>3, OneCell DEF KeyHas, Wanted
    <3>2. KcHas(21, "8", "(")
      BY KcTable
    <3>3. Types(key, 21, 2)
      BY <3>1, <3>2 DEF KcHas, Types
    <3>4. Wanted(key) # Unmarked
      BY <3>1 DEF Unmarked
    <3> QED
      BY <3>3, <3>4, Found
  <2>4. CASE ~shift
    <3>1. tmpKeyMatrix = {21} /\ Wanted(key) = "8"
      BY <1>4, <2>1, <2>2, <2>4, OneCell DEF KeyHas, Wanted
    <3>2. KcHas(21, "8", "(")
      BY KcTable
    <3>3. Types(key, 21, 1)
      BY <3>1, <3>2 DEF KcHas, Types
    <3>4. Wanted(key) # Unmarked
      BY <3>1 DEF Unmarked
    <3> QED
      BY <3>3, <3>4, Found
  <2> QED
    BY <2>3, <2>4
<1>5. CASE key = "<"
  <2>1. KeyHas("<", 23, "<", ">")
    BY KeyTable
  <2>2. keyMatrix = {23}
    BY <1>5, <2>1 DEF KeyHas
  <2>3. CASE shift
    <3>1. tmpKeyMatrix = {27, 81} /\ Wanted(key) = ">"
      BY <1>5, <2>1, <2>2, <2>3, OneCell DEF KeyHas, Wanted
    <3>2. KcHas(27, ".", ">")
      BY KcTable
    <3>3. Types(key, 27, 2)
      BY <3>1, <3>2 DEF KcHas, Types
    <3>4. Wanted(key) # Unmarked
      BY <3>1 DEF Unmarked
    <3> QED
      BY <3>3, <3>4, Found
  <2>4. CASE ~shift
    <3>1. tmpKeyMatrix = {25, 81} /\ Wanted(key) = "<"
      BY <1>5, <2>1, <2>2, <2>4, OneCell DEF KeyHas, Wanted
    <3>2. KcHas(25, ",", "<")
      BY KcTable
    <3>3. Types(key, 25, 2)
      BY <3>1, <3>2 DEF KcHas, Types
    <3>4. Wanted(key) # Unmarked
      BY <3>1 DEF Unmarked
    <3> QED
      BY <3>3, <3>4, Found
  <2> QED
    BY <2>3, <2>4
<1>6. CASE key = "+"
  <2>1. KeyHas("+", 24, "+", "*")
    BY KeyTable
  <2>2. keyMatrix = {24}
    BY <1>6, <2>1 DEF KeyHas
  <2>3. CASE shift
    <3>1. tmpKeyMatrix = {23, 81} /\ Wanted(key) = "*"
      BY <1>6, <2>1, <2>2, <2>3, OneCell DEF KeyHas, Wanted
    <3>2. KcHas(23, ":", "*")
      BY KcTable
    <3>3. Types(key, 23, 2)
      BY <3>1, <3>2 DEF KcHas, Types
    <3>4. Wanted(key) # Unmarked
      BY <3>1 DEF Unmarked
    <3> QED
      BY <3>3, <3>4, Found
  <2>4. CASE ~shift
    <3>1. tmpKeyMatrix = {24, 81} /\ Wanted(key) = "+"
      BY <1>6, <2>1, <2>2, <2>4, OneCell DEF KeyHas, Wanted
    <3>2. KcHas(24, ";", "+")
      BY KcTable
    <3>3. Types(key, 24, 2)
      BY <3>1, <3>2 DEF KcHas, Types
    <3>4. Wanted(key) # Unmarked
      BY <3>1 DEF Unmarked
    <3> QED
      BY <3>3, <3>4, Found
  <2> QED
    BY <2>3, <2>4
<1>7. CASE key = ","
  <2>1. KeyHas(",", 25, ",", ";")
    BY KeyTable
  <2>2. keyMatrix = {25}
    BY <1>7, <2>1 DEF KeyHas
  <2>3. CASE shift
    <3>1. tmpKeyMatrix = {24} /\ Wanted(key) = ";"
      BY <1>7, <2>1, <2>2, <2>3, OneCell DEF KeyHas, Wanted
    <3>2. KcHas(24, ";", "+")
      BY KcTable
    <3>3. Types(key, 24, 1)
      BY <3>1, <3>2 DEF KcHas, Types
    <3>4. Wanted(key) # Unmarked
      BY <3>1 DEF Unmarked
    <3> QED
      BY <3>3, <3>4, Found
  <2>4. CASE ~shift
    <3>1. tmpKeyMatrix = {25} /\ Wanted(key) = ","
      BY <1>7, <2>1, <2>2, <2>4, OneCell DEF KeyHas, Wanted
    <3>2. KcHas(25, ",", "<")
      BY KcTable
    <3>3. Types(key, 25, 1)
      BY <3>1, <3>2 DEF KcHas, Types
    <3>4. Wanted(key) # Unmarked
      BY <3>1 DEF Unmarked
    <3> QED
      BY <3>3, <3>4, Found
  <2> QED
    BY <2>3, <2>4
<1>8. CASE key = "-"
  <2>1. KeyHas("-", 26, "-", "_")
    BY KeyTable
  <2>2. keyMatrix = {26}
    BY <1>8, <2>1 DEF KeyHas
  <2>3. CASE shift
    <3>1. tmpKeyMatrix = {11, 81} /\ Wanted(key) = "_"
      BY <1>8, <2>1, <2>2, <2>3, OneCell DEF KeyHas, Wanted
    <3>2. KcHas(11, "0", "_")
      BY KcTable
    <3>3. Types(key, 11, 2)
      BY <3>1, <3>2 DEF KcHas, Types
    <3>4. Wanted(key) # Unmarked
      BY <3>1 DEF Unmarked
    <3> QED
      BY <3>3, <3>4, Found
  <2>4. CASE ~shift
    <3>1. tmpKeyMatrix = {26, 81} /\ Wanted(key) = "-"
      BY <1>8, <2>1, <2>2, <2>4, OneCell DEF KeyHas, Wanted
    <3>2. KcHas(26, "=", "-")
      BY KcTable
    <3>3. Types(key, 26, 2)
      BY <3>1, <3>2 DEF KcHas, Types
    <3>4. Wanted(key) # Unmarked
      BY <3>1 DEF Unmarked
    <3> QED
      BY <3>3, <3>4, Found
  <2> QED
    BY <2>3, <2>4
<1>9. CASE key = "."
  <2>1. KeyHas(".", 27, ".", ":")
    BY KeyTable
  <2>2. keyMatrix = {27}
    BY <1>9, <2>1 DEF KeyHas
  <2>3. CASE shift
    <3>1. tmpKeyMatrix = {23} /\ Wanted(key) = ":"
      BY <1>9, <2>1, <2>2, <2>3, OneCell DEF KeyHas, Wanted
    <3>2. KcHas(23, ":", "*")
      BY KcTable
    <3>3. Types(key, 23, 1)
      BY <3>1, <3>2 DEF KcHas, Types
    <3>4. Wanted(key) # Unmarked
      BY <3>1 DEF Unmarked
    <3> QED
      BY <3>3, <3>4, Found
  <2>4. CASE ~shift
    <3>1. tmpKeyMatrix = {27} /\ Wanted(key) = "."
      BY <1>9, <2>1, <2>2, <2>4, OneCell DEF KeyHas, Wanted
    <3>2. KcHas(27, ".", ">")
      BY KcTable
    <3>3. Types(key, 27, 1)
      BY <3>1, <3>2 DEF KcHas, Types
    <3>4. Wanted(key) # Unmarked
      BY <3>1 DEF Unmarked
    <3> QED
      BY <3>3, <3>4, Found
  <2> QED
    BY <2>3, <2>4
<1>10. CASE key = "sz"
  <2>1. KeyHas("sz", 28, "?", "?")
    BY KeyTable
  <2>2. keyMatrix = {28}
    BY <1>10, <2>1 DEF KeyHas
  <2>3. CASE shift
    <3>1. tmpKeyMatrix = {28} /\ Wanted(key) = "?"
      BY <1>10, <2>1, <2>2, <2>3, OneCell DEF KeyHas, Wanted
    <3>2. KcHas(28, "?", "/")
      BY KcTable
    <3>3. Types(key, 28, 1)
      BY <3>1, <3>2 DEF KcHas, Types
    <3>4. Wanted(key) # Unmarked
      BY <3>1 DEF Unmarked
    <3> QED
      BY <3>3, <3>4, Found
  <2>4. CASE ~shift
    <3>1. tmpKeyMatrix = {28} /\ Wanted(key) = "?"
      BY <1>10, <2>1, <2>2, <2>4, OneCell DEF KeyHas, Wanted
    <3>2. KcHas(28, "?", "/")
      BY KcTable
    <3>3. Types(key, 28, 1)
      BY <3>1, <3>2 DEF KcHas, Types
    <3>4. Wanted(key) # Unmarked
      BY <3>1 DEF Unmarked
    <3> QED
      BY <3>3, <3>4, Found
  <2> QED
    BY <2>3, <2>4
<1>11. CASE key = "#"
  <2>1. KeyHas("#", 88, "#", "'")
    BY KeyTable
  <2>2. keyMatrix = {88}
    BY <1>11, <2>1 DEF KeyHas
  <2>3. CASE shift
    <3>1. tmpKeyMatrix = {18, 81} /\ Wanted(key) = "'"
      BY <1>11, <2>1, <2>2, <2>3, OneCell DEF KeyHas, Wanted
    <3>2. KcHas(18, "7", "'")
      BY KcTable
    <3>3. Types(key, 18, 2)
      BY <3>1, <3>2 DEF KcHas, Types
    <3>4. Wanted(key) # Unmarked
      BY <3>1 DEF Unmarked
    <3> QED
      BY <3>3, <3>4, Found
  <2>4. CASE ~shift
    <3>1. tmpKeyMatrix = {14, 81} /\ Wanted(key) = "#"
      BY <1>11, <2>1, <2>2, <2>4, OneCell DEF KeyHas, Wanted
    <3>2. KcHas(14, "3", "#")
      BY KcTable
    <3>3. Types(key, 14, 2)
      BY <3>1, <3>2 DEF KcHas, Types
    <3>4. Wanted(key) # Unmarked
      BY <3>1 DEF Unmarked
    <3> QED
      BY <3>3, <3>4, Found
  <2> QED
    BY <2>3, <2>4
<1>12. CASE key = "q"
  <2>1. KeyHas("q", 52, "Q", "Q")
    BY KeyTable
  <2>2. keyMatrix = {52}
    BY <1>12, <2>1 DEF KeyHas
  <2>3. CASE altGr /\ shift
    <3>1. tmpKeyMatrix = {31, 81} /\ Wanted(key) = "@"
      BY <1>12, <2>1, <2>2, <2>3, OneCell DEF KeyHas, Wanted
    <3>2. KcHas(31, "@", "@")
      BY KcTable
    <3>3. Types(key, 31, 2)
      BY <3>1, <3>2 DEF KcHas, Types
    <3>4. Wanted(key) # Unmarked
      BY <3>1 DEF Unmarked
    <3> QED
      BY <3>3, <3>4, Found
  <2>4. CASE altGr /\ ~shift
    <3>1. tmpKeyMatrix = {31} /\ Wanted(key) = "@"
      BY <1>12, <2>1, <2>2, <2>4, OneCell DEF KeyHas, Wanted
    <3>2. KcHas(31, "@", "@")
      BY KcTable
    <3>3. Types(key, 31, 1)
      BY <3>1, <3>2 DEF KcHas, Types
    <3>4. Wanted(key) # Unmarked
      BY <3>1 DEF Unmarked
    <3> QED
      BY <3>3, <3>4, Found
  <2>5. CASE ~altGr /\ shift
    <3>1. tmpKeyMatrix = {52, 81} /\ Wanted(key) = "Q"
      BY <1>12, <2>1, <2>2, <2>5, OneCell DEF KeyHas, Wanted
    <3>2. KcHas(52, "Q", "Q")
      BY KcTable
    <3>3. Types(key, 52, 2)
      BY <3>1, <3>2 DEF KcHas, Types
    <3>4. Wanted(key) # Unmarked
      BY <3>1 DEF Unmarked
    <3> QED
      BY <3>3, <3>4, Found
  <2>6. CASE ~altGr /\ ~shift
    <3>1. tmpKeyMatrix = {52} /\ Wanted(key) = "Q"
      BY <1>12, <2>1, <2>2, <2>6, OneCell DEF KeyHas, Wanted
    <3>2. KcHas(52, "Q", "Q")
      BY KcTable
    <3>3. Types(key, 52, 1)
      BY <3>1, <3>2 DEF KcHas, Types
    <3>4. Wanted(key) # Unmarked
      BY <3>1 DEF Unmarked
    <3> QED
      BY <3>3, <3>4, Found
  <2> QED
    BY <2>3, <2>4, <2>5, <2>6
<1>13. CASE key = "a"
  <2>1. KeyHas("a", 32, "A", "A")
    BY KeyTable
  <2>2. keyMatrix = {32}
    BY <1>13, <2>1 DEF KeyHas
  <2>3. CASE shift
    <3>1. tmpKeyMatrix = {32, 81} /\ Wanted(key) = "A"
      BY <1>13, <2>1, <2>2, <2>3, OneCell DEF KeyHas, Wanted
    <3>2. KcHas(32, "A", "A")
      BY KcTable
    <3>3. Types(key, 32, 2)
      BY <3>1, <3>2 DEF KcHas, Types
    <3>4. Wanted(key) # Unmarked
      BY <3>1 DEF Unmarked
    <3> QED
      BY <3>3, <3>4, Found
  <2>4. CASE ~shift
    <3>1. tmpKeyMatrix = {32} /\ Wanted(key) = "A"
      BY <1>13, <2>1, <2>2, <2>4, OneCell DEF KeyHas, Wanted
    <3>2. KcHas(32, "A", "A")
      BY KcTable
    <3>3. Types(key, 32, 1)
      BY <3>1, <3>2 DEF KcHas, Types
    <3>4. Wanted(key) # Unmarked
      BY <3>1 DEF Unmarked
    <3> QED
      BY <3>3, <3>4, Found
  <2> QED
    BY <2>3, <2>4
<1>14. CASE key = "insert"
  <2>1. KeyHas("insert", 66, "INS", "DEL")
    BY KeyTable
  <2>2. keyMatrix = {66}
    BY <1>14, <2>1 DEF KeyHas
  <2>3. CASE shift
    <3>1. tmpKeyMatrix = {66, 81} /\ Wanted(key) = "DEL"
      BY <1>14, <2>1, <2>2, <2>3, OneCell DEF KeyHas, Wanted
    <3>2. KcHas(66, "INS", "DEL")
      BY KcTable
    <3>3. Types(key, 66, 2)
      BY <3>1, <3>2 DEF KcHas, Types
    <3>4. Wanted(key) # Unmarked
      BY <3>1 DEF Unmarked
    <3> QED
      BY <3>3, <3>4, Found
  <2>4. CASE ~shift
    <3>1. tmpKeyMatrix = {66} /\ Wanted(key) = "INS"
      BY <1>14, <2>1, <2>2, <2>4, OneCell DEF KeyHas, Wanted
    <3>2. KcHas(66, "INS", "DEL")
      BY KcTable
    <3>3. Types(key, 66, 1)
      BY <3>1, <3>2 DEF KcHas, Types
    <3>4. Wanted(key) # Unmarked
      BY <3>1 DEF Unmarked
    <3> QED
      BY <3>3, <3>4, Found
  <2> QED
    BY <2>3, <2>4
<1>15. CASE key = "delete"
  <2>1. KeyHas("delete", 68, "DEL", "DEL")
    BY KeyTable
  <2>2. keyMatrix = {68}
    BY <1>15, <2>1 DEF KeyHas
  <2>3. CASE shift
    <3>1. tmpKeyMatrix = {66, 81} /\ Wanted(key) = "DEL"
      BY <1>15, <2>1, <2>2, <2>3, OneCell DEF KeyHas, Wanted
    <3>2. KcHas(66, "INS", "DEL")
      BY KcTable
    <3>3. Types(key, 66, 2)
      BY <3>1, <3>2 DEF KcHas, Types
    <3>4. Wanted(key) # Unmarked
      BY <3>1 DEF Unmarked
    <3> QED
      BY <3>3, <3>4, Found
  <2>4. CASE ~shift
    <3>1. tmpKeyMatrix = {66, 81} /\ Wanted(key) = "DEL"
      BY <1>15, <2>1, <2>2, <2>4, OneCell DEF KeyHas, Wanted
    <3>2. KcHas(66, "INS", "DEL")
      BY KcTable
    <3>3. Types(key, 66, 2)
      BY <3>1, <3>2 DEF KcHas, Types
    <3>4. Wanted(key) # Unmarked
      BY <3>1 DEF Unmarked
    <3> QED
      BY <3>3, <3>4, Found
  <2> QED
    BY <2>3, <2>4
<1>16. CASE key = "backspace"
  <2>1. KeyHas("backspace", 68, "DEL", "DEL")
    BY KeyTable
  <2>2. keyMatrix = {68}
    BY <1>16, <2>1 DEF KeyHas
  <2>3. CASE shift
    <3>1. tmpKeyMatrix = {66, 81} /\ Wanted(key) = "DEL"
      BY <1>16, <2>1, <2>2, <2>3, OneCell DEF KeyHas, Wanted
    <3>2. KcHas(66, "INS", "DEL")
      BY KcTable
    <3>3. Types(key, 66, 2)
      BY <3>1, <3>2 DEF KcHas, Types
    <3>4. Wanted(key) # Unmarked
      BY <3>1 DEF Unmarked
    <3> QED
      BY <3>3, <3>4, Found
  <2>4. CASE ~shift
    <3>1. tmpKeyMatrix = {66, 81} /\ Wanted(key) = "DEL"
      BY <1>16, <2>1, <2>2, <2>4, OneCell DEF KeyHas, Wanted
    <3>2. KcHas(66, "INS", "DEL")
      BY KcTable
    <3>3. Types(key, 66, 2)
      BY <3>1, <3>2 DEF KcHas, Types
    <3>4. Wanted(key) # Unmarked
      BY <3>1 DEF Unmarked
    <3> QED
      BY <3>3, <3>4, Found
  <2> QED
    BY <2>3, <2>4
<1> QED
  BY <1>1, <1>2, <1>3, <1>4, <1>5, <1>6, <1>7, <1>8,
     <1>9, <1>10, <1>11, <1>12, <1>13, <1>14, <1>15, <1>16 DEF Characters

\* A character key alone, with or without shift and AltGr, puts on the cell of
\* the KC87, with or without its shift, that has the character printed on the
\* key, and a scan finds it by rows and by columns (ps2kc.vhd, the moves in
\* tmpKeyMatrix and the answer to a scan).
THEOREM KeysTypeTheirLegend == Spec => []LegendTyped
<1>1. KeysInv => LegendTyped
  <2> SUFFICES ASSUME KeysInv, NEW key \in held, Idle, key \in Characters,
                      Cell[ScanCode[key]] \in keyMatrix,
                      held \subseteq {key, "lshift", "rshift", "altgr"}
               PROVE  /\ ByColumns = ByRows
                      /\ Legible(ByRows, key)
    BY DEF LegendTyped, Legible, Unmarked, ShiftCell
  <2>1. keyMatrix = {Cell[ScanCode[key]]}
    BY OneKey
  <2>2. tmpKeyMatrix \subseteq Positions /\ Legible(tmpKeyMatrix, key)
    BY <2>1, KeyLegible
  <2>3. ByRows = tmpKeyMatrix /\ ByColumns = tmpKeyMatrix
    BY <2>2, Scanned
  <2> QED
    BY <2>2, <2>3
<1> QED
  BY <1>1, KeysInvariant, PTL
===============================================================================
