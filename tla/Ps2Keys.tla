------------------------------- MODULE Ps2Keys -------------------------------
(***************************************************************************)
(* From PS/2 codes to the key matrix of the KC87 (rtl/periph/ps2kc.vhd),   *)
(* and the keys of the keyboard that sends the codes.  One step takes one  *)
(* received code, or is a key event that makes the keyboard send some.     *)
(* The cell in row r and column c of the matrix is written 10 * r + c.     *)
(***************************************************************************)
EXTENDS Integers, FiniteSets, Sequences

CONSTANTS
    Keys,                   \* the keys a user presses
    MaxHeld                 \* bound: keys held at once

VARIABLES
    held,                   \* the keys that are down
    wire,                   \* the codes the keyboard has still to send
    noBreak, extE0,         \* the prefixes seen
    altGr, lshift, rshift,
    keyMatrix               \* the cells that are '1'

kc == <<noBreak, extE0, altGr, lshift, rshift, keyMatrix>>
vars == <<held, wire, kc>>

-----------------------------------------------------------------------------
(***************************************************************************)
(* The keyboard: what it sends when a key goes down, repeats and goes up.  *)
(***************************************************************************)
Extended == {"altgr", "insert", "delete", "left", "keypadEnter"}

PlainKeys ==
    {"0", "3", "7", "8", "<", "+", ",", "-", ".", "sz", "#", "q", "a", "insert",
     "delete", "backspace", "left", "enter", "keypadEnter", "ctrl", "lshift",
     "rshift", "alt", "altgr"}

ASSUME KeysAssumption == Keys \subseteq PlainKeys \cup {"pause", "print"}

ScanCode == [key \in PlainKeys |->
    CASE key = "0" -> "45" [] key = "3" -> "26" [] key = "7" -> "3D" [] key = "8" -> "3E"
      [] key = "<" -> "61" [] key = "+" -> "5B" [] key = "," -> "41" [] key = "-" -> "4A"
      [] key = "." -> "49" [] key = "sz" -> "4E" [] key = "#" -> "5D" [] key = "q" -> "15"
      [] key = "a" -> "1C" [] key = "insert" -> "70" [] key = "delete" -> "71"
      [] key = "backspace" -> "66" [] key = "left" -> "6B"
      [] key \in {"enter", "keypadEnter"} -> "5A" [] key = "ctrl" -> "14"
      [] key = "lshift" -> "12" [] key = "rshift" -> "59"
      [] key \in {"alt", "altgr"} -> "11"]

\* Insert, Delete and the arrows hide the shift keys that are down: their
\* breaks go before the make, their makes behind the break (NumLock is off:
\* the computer never writes to the keyboard).
Grey == {"insert", "delete", "left"}

GreyMake(code) ==
    CASE "lshift" \in held /\ "rshift" \in held ->
             <<"E0", "F0", "12", "E0", "F0", "59", "E0", code>>
      [] "lshift" \in held /\ "rshift" \notin held -> <<"E0", "F0", "12", "E0", code>>
      [] "lshift" \notin held /\ "rshift" \in held -> <<"E0", "F0", "59", "E0", code>>
      [] OTHER -> <<"E0", code>>

GreyBreak(code) ==
    CASE "lshift" \in held /\ "rshift" \in held ->
             <<"E0", "F0", code, "E0", "12", "E0", "59">>
      [] "lshift" \in held /\ "rshift" \notin held -> <<"E0", "F0", code, "E0", "12">>
      [] "lshift" \notin held /\ "rshift" \in held -> <<"E0", "F0", code, "E0", "59">>
      [] OTHER -> <<"E0", "F0", code>>

\* With the left shift down Print sends no shift of its own, with Ctrl down
\* Pause is another key.
Make(key) ==
    CASE key = "pause" /\ "ctrl" \in held -> <<"E0", "7E", "E0", "F0", "7E">>
      [] key = "pause" /\ "ctrl" \notin held ->
             <<"E1", "14", "77", "E1", "F0", "14", "F0", "77">>
      [] key = "print" /\ "lshift" \in held -> <<"E0", "7C">>
      [] key = "print" /\ "lshift" \notin held -> <<"E0", "12", "E0", "7C">>
      [] key \in Grey -> GreyMake(ScanCode[key])
      [] key \in Extended \ Grey -> <<"E0", ScanCode[key]>>
      [] OTHER -> <<ScanCode[key]>>

Break(key) ==
    CASE key = "pause" -> <<>>
      [] key = "print" /\ "lshift" \in held -> <<"E0", "F0", "7C">>
      [] key = "print" /\ "lshift" \notin held -> <<"E0", "F0", "7C", "E0", "F0", "12">>
      [] key \in Grey -> GreyBreak(ScanCode[key])
      [] key \in Extended \ Grey -> <<"E0", "F0", ScanCode[key]>>
      [] OTHER -> <<"F0", ScanCode[key]>>

Idle == wire = <<>>

Press(key) ==
    /\ Idle /\ key \notin held /\ Cardinality(held) < MaxHeld
    /\ held' = held \cup {key} /\ wire' = Make(key)
    /\ UNCHANGED kc

Repeat(key) ==
    /\ Idle /\ key \in held /\ key # "pause"
    /\ wire' = Make(key)
    /\ UNCHANGED <<held, kc>>

Release(key) ==
    /\ Idle /\ key \in held
    /\ held' = held \ {key} /\ wire' = Break(key)
    /\ UNCHANGED kc

-----------------------------------------------------------------------------
(***************************************************************************)
(* The process that takes the codes.                                       *)
(***************************************************************************)
MatrixCodes ==
    {"45", "26", "3D", "3E", "61", "5B", "41", "4A", "49", "4E", "1C", "15", "70", "71",
     "66", "6B", "5A", "14", "5D"}

Cell == [code \in MatrixCodes |->
    CASE code = "45" -> 11 [] code = "26" -> 14 [] code = "3D" -> 18 [] code = "3E" -> 21
      [] code = "61" -> 23 [] code = "5B" -> 24 [] code = "41" -> 25 [] code = "4A" -> 26
      [] code = "49" -> 27 [] code = "4E" -> 28 [] code = "1C" -> 32 [] code = "15" -> 52
      [] code = "70" -> 66 [] code \in {"71", "66"} -> 68 [] code = "6B" -> 71
      [] code = "5A" -> 76 [] code = "14" -> 83 [] code = "5D" -> 88]

\* A slip: both Alt keys are AltGr.
AltIsAltGr(code) ==
    /\ rshift' = IF code = "59" THEN noBreak ELSE rshift
    /\ lshift' = IF code = "12" THEN noBreak ELSE lshift
    /\ altGr' = IF code = "11" THEN noBreak ELSE altGr
    /\ keyMatrix' = IF code \notin DOMAIN Cell THEN keyMatrix
                    ELSE IF noBreak THEN keyMatrix \cup {Cell[code]}
                    ELSE keyMatrix \ {Cell[code]}

ScanCodeTaken(code) ==
    /\ rshift' = IF code = "59" THEN noBreak ELSE rshift
    /\ lshift' = IF code = "12" THEN noBreak ELSE lshift
    /\ altGr' = IF code = "11" /\ extE0 THEN noBreak ELSE altGr
    /\ keyMatrix' = IF code \notin DOMAIN Cell THEN keyMatrix
                    ELSE IF noBreak THEN keyMatrix \cup {Cell[code]}
                    ELSE keyMatrix \ {Cell[code]}

\* A slip: the break prefix ends only with the code of a matrix key.
BreakKept(code) ==
    /\ wire' = Tail(wire) /\ UNCHANGED held
    /\ CASE code = "F0" -> /\ noBreak' = FALSE
                           /\ UNCHANGED <<extE0, altGr, lshift, rshift, keyMatrix>>
         [] code = "E0" -> /\ extE0' = TRUE
                           /\ UNCHANGED <<noBreak, altGr, lshift, rshift, keyMatrix>>
         [] OTHER -> /\ noBreak' = (noBreak \/ code \in DOMAIN Cell)
                     /\ extE0' = FALSE /\ ScanCodeTaken(code)

Receive(code) ==
    /\ wire' = Tail(wire) /\ UNCHANGED held
    /\ CASE code = "F0" -> /\ noBreak' = FALSE
                           /\ UNCHANGED <<extE0, altGr, lshift, rshift, keyMatrix>>
         [] code = "E0" -> /\ extE0' = TRUE
                           /\ UNCHANGED <<noBreak, altGr, lshift, rshift, keyMatrix>>
         [] OTHER -> /\ noBreak' = TRUE
                     /\ extE0' = FALSE /\ ScanCodeTaken(code)

Init ==
    /\ held = {} /\ wire = <<>>
    /\ noBreak = TRUE /\ extE0 = FALSE
    /\ altGr = FALSE /\ lshift = FALSE /\ rshift = FALSE
    /\ keyMatrix = {}

Next ==
    \/ ~Idle /\ Receive(Head(wire))
    \/ \E key \in Keys : Press(key) \/ Repeat(key) \/ Release(key)

Spec == Init /\ [][Next]_vars

-----------------------------------------------------------------------------
(***************************************************************************)
(* What the PIO sees: the cells of the matrix moved to where the KC87 has  *)
(* the character that is printed on the key.                               *)
(***************************************************************************)
shift == lshift \/ rshift

ShiftCell == 81

Move(when, up, down) == [when |-> when, up |-> up, down |-> down]

Moves ==
    LET key(cell) == cell \in keyMatrix IN
    << Move(shift, {}, {ShiftCell}),
       Move(key(52) /\ altGr,  {52}, {31}),
       Move(key(68),           {68}, {66, ShiftCell}),
       Move(key(11) /\ shift,  {11, ShiftCell}, {26}),
       Move(key(14) /\ shift,  {14}, {}),
       Move(key(18) /\ shift,  {18}, {28}),
       Move(key(23) /\ shift,  {23}, {27}),
       Move(key(23) /\ ~shift, {23}, {25, ShiftCell}),
       Move(key(24) /\ shift,  {24}, {23}),
       Move(key(24) /\ ~shift, {}, {ShiftCell}),
       Move(key(25) /\ shift,  {25, ShiftCell}, {24}),
       Move(key(26) /\ shift,  {26}, {11}),
       Move(key(26) /\ ~shift, {}, {ShiftCell}),
       Move(key(27) /\ shift,  {27, ShiftCell}, {23}),
       Move(key(28) /\ shift,  {ShiftCell}, {}),
       Move(key(88) /\ shift,  {88}, {18, ShiftCell}),
       Move(key(88) /\ ~shift, {88}, {14, ShiftCell}) >>

\* A slip: the key that was moved stays down where it was.
NotLifted(cells, move) == IF move.when THEN cells \cup move.down ELSE cells

Moved(cells, move) ==
    IF move.when THEN (cells \ move.up) \cup move.down ELSE cells

\* The moves are made one after another, each in what the one before has left.
tmpKeyMatrix ==
    LET moves == Moves
        after[n \in 0 .. Len(moves)] ==
            IF n = 0 THEN keyMatrix ELSE Moved(after[n - 1], moves[n])
    IN after[Len(moves)]

\* A column is low if a pressed cell joins it to a low row, and conversely.
matrixXout(lowRows) == {c \in 1 .. 8 : \E r \in lowRows : 10 * r + c \in tmpKeyMatrix}
matrixYout(lowColumns) == {r \in 1 .. 8 : \E c \in lowColumns : 10 * r + c \in tmpKeyMatrix}

-----------------------------------------------------------------------------
TypeOK ==
    /\ held \subseteq Keys
    /\ {noBreak, extE0, altGr, lshift, rshift} \subseteq BOOLEAN
    /\ keyMatrix \subseteq {Cell[code] : code \in DOMAIN Cell} \ {ShiftCell}

KeysOf(cell) ==
    {key \in DOMAIN ScanCode :
        ScanCode[key] \in DOMAIN Cell /\ Cell[ScanCode[key]] = cell}

\* Between two codes sequences no key is stuck: a cell is pressed only while
\* one of its keys is held, no prefix is pending, and shift and AltGr are on
\* only with their keys; whatever mixture of prefixes came before.
NothingSticks ==
    Idle =>
        /\ noBreak /\ ~extE0
        /\ \A cell \in keyMatrix : KeysOf(cell) \cap held # {}
        /\ lshift => held \cap {"lshift", "print"} # {}
        /\ rshift => "rshift" \in held
        /\ altGr => "altgr" \in held

\* A held key is seen, unless it shares its cell with another one.  A shift
\* goes off while a key is held that hides it from the computer (the codes 12
\* and 59 are taken with and without E0), and is on again behind the last of
\* these keys.
HeldKeysSeen ==
    Idle =>
        /\ \A cell \in {Cell[code] : code \in DOMAIN Cell} :
               \A key \in held :
                   KeysOf(cell) = {key} => cell \in keyMatrix
        /\ "altgr" \in held => altGr
        /\ "lshift" \in held /\ held \cap Grey = {} => lshift
        /\ "rshift" \in held /\ held \cap Grey = {} => rshift

-----------------------------------------------------------------------------
\* The characters on the keys, without and with shift, as the comments of
\* the table and of the moves have them: of the KC87, by cell, and of the
\* German keyboard.
KcLegend == [cell \in {11, 14, 18, 21, 23, 24, 25, 26, 27, 28, 31, 32, 52, 66} |->
    CASE cell = 11 -> <<"0", "_">> [] cell = 14 -> <<"3", "#">> [] cell = 18 -> <<"7", "'">>
      [] cell = 21 -> <<"8", "(">> [] cell = 23 -> <<":", "*">> [] cell = 24 -> <<";", "+">>
      [] cell = 25 -> <<",", "<">> [] cell = 26 -> <<"=", "-">> [] cell = 27 -> <<".", ">">>
      [] cell = 28 -> <<"?", "/">> [] cell = 31 -> <<"@", "@">> [] cell = 32 -> <<"A", "A">>
      [] cell = 52 -> <<"Q", "Q">> [] cell = 66 -> <<"INS", "DEL">>]

Characters ==
    {"0", "3", "7", "8", "<", "+", ",", "-", ".", "sz", "#", "q", "a", "insert",
     "delete", "backspace"}

GermanLegend == [key \in Characters |->
    CASE key = "0" -> <<"0", "=">> [] key = "3" -> <<"3", "">> [] key = "7" -> <<"7", "/">>
      [] key = "8" -> <<"8", "(">> [] key = "<" -> <<"<", ">">> [] key = "+" -> <<"+", "*">>
      [] key = "," -> <<",", ";">> [] key = "-" -> <<"-", "_">> [] key = "." -> <<".", ":">>
      [] key = "sz" -> <<"?", "?">> [] key = "#" -> <<"#", "'">> [] key = "q" -> <<"Q", "Q">>
      [] key = "a" -> <<"A", "A">> [] key = "insert" -> <<"INS", "DEL">>
      [] key \in {"delete", "backspace"} -> <<"DEL", "DEL">>]

Wanted(key) ==
    IF key = "q" /\ altGr THEN "@"
    ELSE GermanLegend[key][IF shift THEN 2 ELSE 1]

\* The cells the operating system finds when it pulls one row after another
\* low, and when it pulls one column after another low.
ByRows == UNION {{10 * r + c : c \in matrixXout({r})} : r \in 1 .. 8}
ByColumns == UNION {{10 * r + c : r \in matrixYout({c})} : c \in 1 .. 8}

\* A character key seen alone, with any of shift and AltGr, shows the KC87
\* one key, with or without shift, that has the character of the German key;
\* where the KC87 has no such character it shows none.
LegendTyped ==
    \A key \in held :
        Idle /\ key \in Characters /\ Cell[ScanCode[key]] \in keyMatrix
             /\ held \subseteq {key, "lshift", "rshift", "altgr"} =>
            LET typed == ByRows \ {ShiftCell}
                n == IF ShiftCell \in ByRows THEN 2 ELSE 1
            IN /\ ByColumns = ByRows
               /\ IF Wanted(key) = "" THEN typed = {}
                  ELSE \E cell \in typed :
                           typed = {cell} /\ KcLegend[cell][n] = Wanted(key)
=============================================================================
