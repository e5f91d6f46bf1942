------------------------------- MODULE SdMenu -------------------------------
(***************************************************************************)
(* The program in the boot ROM (sw/sdcard.c, sw/kc/kc87.c, crt/crt0_sd.s): *)
(* after a reset it loads BASIC and the operating system from the card;    *)
(* called by the operating system as the command SD it shows directories   *)
(* and loads programs.  A key is handled in one step, and the card may     *)
(* fail or recover between two of them.                                    *)
(***************************************************************************)
EXTENDS Pff

CONSTANTS
    Volumes,                \* cards that may be inserted
    MENU_SIZE,              \* 14 lines
    TapHeader,              \* the first bytes of a tap file
    BlockSize,              \* 129 = BUFF_SIZE: number and data of a block
    BasicFirst,             \* 14: where the data of the first BASIC block begin
    BasicMark,              \* 0xD3
    BasicBase,              \* 0x0401
    BasicRom, BasicRomSize, \* 0xC000, 10240
    OsRom, OsRomSize,       \* 0xF000, 4096
    RomsBasic, RomsOs,      \* /ROMS/BASIC_C0.87B, /ROMS/OS____F0.87B
    Upper,                  \* 0x8000: from here memory can be protected
    Pokes,                  \* addresses that programs write to
    MaxFailures             \* bound: times the card fails

ASSUME SdMenuAssumption ==
    /\ MENU_SIZE \in Nat \ {0} /\ BlockSize \in Nat \ {0}
    /\ BasicFirst \in 3 .. BlockSize - 1
    /\ TapHeader # <<>>

VARIABLES
    pc,                     \* what the CPU executes
    syscontrol,             \* 0 after a reset: the boot ROM is visible
    keybu,                  \* KEYBU: "empty", "stale", or filled by the "live" system
    path, dir,
    menuPage, menuCursor, menuMaxCursor, menuEntries,
    endAdr,                 \* the end of the program, for BASIC
    memory,                 \* what was loaded: a function of the addresses written
    failures                \* times the card has failed

menu == <<path, dir, menuPage, menuCursor, menuMaxCursor, menuEntries>>
card == <<volume, bad, mounted, failures>>
vars == <<card, pc, syscontrol, keybu, menu, endAdr, memory>>

\* A slip: the protection is left off.
SYSCONTROL_WPOFF == 1

SYSCONTROL_DEFAULT == 1 + 4
SYSCONTROL_TURBO == 1 + 2

\* Entry points of the operating system and of BASIC.
Running == {"F000", "F089", "C854"}

Write(mem, base, bytes) ==
    LET new == base .. base + Len(bytes) - 1
    IN  [a \in DOMAIN mem \cup new |-> IF a \in new THEN bytes[a - base + 1] ELSE mem[a]]

-----------------------------------------------------------------------------
(***************************************************************************)
(* Files.                                                                  *)
(***************************************************************************)

\* A slip: whatever could be read is taken for the whole file.
AnyLength(r, target, size, mem) ==
    [ok |-> r.res = "OK", mem |-> Write(mem, target, r.bytes)]

\* What was read before an error stays in memory.
Copied(r, target, size, mem) ==
    [ok |-> r.res = "OK" /\ Len(r.bytes) = size, mem |-> Write(mem, target, r.bytes)]

loadFile(name, target, size, mem) ==
    Copied(pf_read(pf_open(name), size), target, size, mem)

\* The system is started even if there is no BASIC.
loadRoms(mem) ==
    LET basic == loadFile(RomsBasic, BasicRom, BasicRomSize, mem)
    IN  loadFile(RomsOs, OsRom, OsRomSize, basic.mem)

\* Further blocks, to the one with the number 255 or the end of the file.
RECURSIVE Blocks(_, _, _)
Blocks(fs, loadPtr, mem) ==
    LET r == pf_read(fs, BlockSize)
        copied == Write(mem, loadPtr, Tail(r.bytes))
    IN  IF r.res # "OK" \/ Len(r.bytes) # BlockSize THEN mem
        ELSE IF Head(r.bytes) = 255 THEN copied
        ELSE Blocks(r.fs, loadPtr + BlockSize - 1, copied)

\* buff holds the file name until it is read into.
Overlay(bytes, buff) == bytes \o SubSeq(buff, Len(bytes) + 1, Len(buff))
NameInBuff == [i \in 1 .. BlockSize |-> 47]

\* The first block of a BASIC program: its number, the mark, the length at
\* the end of the head, data.  Of a machine program: number 0, and the load
\* and end addresses.  A short first block is taken with what buff had before.
FirstBlock(tap, fs, buff, infoOnly) ==
    LET basic == tap /\ buff[1] = 1 /\ buff[2] = BasicMark
        mc == tap /\ buff[1] = 0
        data == SubSeq(buff, BasicFirst + 1, BlockSize)
    IN  /\ endAdr' = IF basic THEN BasicBase + buff[BasicFirst]
                     ELSE IF mc THEN buff[3] ELSE 0
        /\ memory' =
               IF infoOnly \/ endAdr' = 0 THEN memory
               ELSE IF mc THEN Blocks(fs, buff[2], memory)
               ELSE Blocks(fs, BasicBase + Len(data), Write(memory, BasicBase, data))

Headed(head, first, infoOnly) ==
    FirstBlock(head.res = "OK" /\ head.bytes = TapHeader, first.fs,
               Overlay(first.bytes, Overlay(head.bytes, NameInBuff)), infoOnly)

HeaderRead(head, infoOnly) == Headed(head, pf_read(head.fs, BlockSize), infoOnly)

loadTapFile(name, infoOnly) ==
    HeaderRead(pf_read(pf_open(name), Len(TapHeader)), infoOnly)

-----------------------------------------------------------------------------
(***************************************************************************)
(* Directories.                                                            *)
(***************************************************************************)

RECURSIVE ReadEntries(_, _)
OneMore(r, rest) ==
    [dj |-> rest.dj,
     entries |-> <<IF r.res = "OK" THEN r.entry ELSE NoEntry>> \o rest.entries]

EntriesFrom(r, n) == OneMore(r, ReadEntries(r.dj, n - 1))

ReadEntries(dj, n) ==
    IF n = 0 THEN [dj |-> dj, entries |-> <<>>] ELSE EntriesFrom(pf_readdir(dj), n)

\* menuMaxCursor is the index of the last entry, counted from 0.
Display(page) ==
    LET shown == {i \in 1 .. MENU_SIZE : page.entries[i] # NoEntry}
    IN  /\ dir' = page.dj
        /\ menuEntries' = page.entries
        /\ menuMaxCursor' = IF shown = {} THEN 0
                            ELSE (CHOOSE i \in shown : \A j \in shown : j <= i) - 1

dirForward(dj) == Display(ReadEntries(dj, MENU_SIZE))

\* A slip: one page too many is skipped.
OnePageMore(p, page) == ReadEntries(pf_opendir(dir, p).dj, (page + 1) * MENU_SIZE).dj

\* An error of pf_opendir is not noticed.
dirRewind(p, page) == ReadEntries(pf_opendir(dir, p).dj, page * MENU_SIZE).dj

Show(p, page, cursor) ==
    /\ path' = p /\ menuPage' = page /\ menuCursor' = cursor
    /\ dirForward(dirRewind(p, page))

-----------------------------------------------------------------------------
(***************************************************************************)
(* From reset or the command SD to the menu.                               *)
(***************************************************************************)

Init ==
    /\ volume \in Volumes /\ bad = {} /\ mounted = FALSE
    /\ pc = "boot" /\ syscontrol = 0 /\ keybu = "stale"
    /\ path = <<>> /\ dir = NewObject
    /\ menuPage = 0 /\ menuCursor = 1 /\ menuMaxCursor = 0 /\ menuEntries = <<>>
    /\ endAdr = 0 /\ memory = <<>> /\ failures = 0

\* At any time.  The boot ROM jumps past the instruction at init that writes
\* syscontrol; the memory, and with it KEYBU, keeps what it holds.
Reset ==
    /\ pc' = "boot" /\ syscontrol' = 0 /\ keybu' = "stale"
    /\ UNCHANGED <<card, menu, endAdr, memory>>

OsLoaded == \A a \in 0 .. OsRomSize - 1 :
    OsRom + a \in DOMAIN memory /\ memory[OsRom + a] = volume.os[a + 1]

\* The system finds the command in memory and enters at init.
Command ==
    /\ pc \in Running /\ OsLoaded
    /\ pc' = "boot" /\ syscontrol' = 1 /\ keybu' = "live"
    /\ UNCHANGED <<card, menu, endAdr, memory>>

\* main up to the test of syscontrol.
Mount ==
    /\ pc = "boot"
    /\ pf_mount
    /\ pc' = IF syscontrol = 0 THEN "loadRoms" ELSE "opendir"
    /\ syscontrol' = SYSCONTROL_TURBO
    /\ endAdr' = 0
    /\ UNCHANGED <<volume, bad, failures, keybu, menu, memory>>

\* coldBoot when there is a system, and back to the caller when there is none.
coldBootOr(os, back) ==
    /\ memory' = os.mem
    /\ pc' = IF os.ok THEN "F000" ELSE back
    /\ syscontrol' = IF os.ok THEN SYSCONTROL_DEFAULT ELSE SYSCONTROL_TURBO
    /\ UNCHANGED <<card, menu, endAdr>>

Roms(back) == coldBootOr(loadRoms(memory), back)

LoadRoms == pc = "loadRoms" /\ Roms("opendir") /\ UNCHANGED keybu

\* main to the loop; without a directory it stops.
Opened(r) ==
    IF r.res = "OK" THEN pc' = "menu" /\ dirForward(r.dj)
    ELSE /\ pc' = "dead"
         /\ dir' = r.dj /\ menuMaxCursor' = 0 /\ UNCHANGED menuEntries

Open ==
    /\ pc = "opendir"
    /\ path' = <<>> /\ menuPage' = 0 /\ menuCursor' = 1
    /\ Opened(pf_opendir(dir, <<>>))
    /\ UNCHANGED <<card, syscontrol, keybu, endAdr, memory>>

-----------------------------------------------------------------------------
(***************************************************************************)
(* The loop of main.  Without a running system KEYBU gives one key at most. *)
(***************************************************************************)

readKey ==
    /\ pc = "menu" /\ keybu # "empty"
    /\ keybu' = IF keybu = "live" THEN "live" ELSE "empty"

Selected == menuEntries[menuCursor]
SelectedPath == Append(path, Selected.name)

OnlyMenu == UNCHANGED <<card, pc, syscontrol, endAdr, memory>>

Down ==
    /\ readKey /\ OnlyMenu
    /\ UNCHANGED path
    /\ IF menuCursor < MENU_SIZE
       THEN /\ menuCursor' = IF menuCursor <= menuMaxCursor THEN menuCursor + 1
                             ELSE menuCursor
            /\ UNCHANGED <<dir, menuPage, menuMaxCursor, menuEntries>>
       ELSE /\ dirForward(dir)
            /\ menuCursor' = 1 /\ menuPage' = menuPage + 1

Up ==
    /\ readKey /\ OnlyMenu
    /\ IF menuCursor > 1
       THEN menuCursor' = menuCursor - 1
            /\ UNCHANGED <<path, dir, menuPage, menuMaxCursor, menuEntries>>
       ELSE IF menuPage > 0 THEN Show(path, menuPage - 1, MENU_SIZE)
       ELSE UNCHANGED menu

Change ==
    /\ readKey /\ OnlyMenu
    /\ Selected.isDir
    /\ Show(SelectedPath, 0, 1)

Load(infoOnly) ==
    /\ readKey
    /\ ~Selected.isDir
    /\ loadTapFile(SelectedPath, infoOnly)
    /\ UNCHANGED <<card, pc, syscontrol, menu>>

\* In the root directory the loop that looks for the last slash ends only if
\* char is signed; otherwise it wipes its own data for ever.
Backspace ==
    \/ /\ readKey /\ OnlyMenu
       /\ Show(IF path = <<>> THEN <<>> ELSE SubSeq(path, 1, Len(path) - 1), 0, 1)
    \/ /\ readKey /\ path = <<>> /\ pc' = "dead"
       /\ UNCHANGED <<card, syscontrol, menu, endAdr, memory>>

LoadRomsKey == readKey /\ Roms("menu")

\* warmBoot and startBasic ask nobody whether there is anything to start.
Leave(entry) ==
    /\ readKey
    /\ pc' = entry /\ syscontrol' = SYSCONTROL_DEFAULT
    /\ UNCHANGED <<card, menu, endAdr, memory>>

Key ==
    \/ Down
    \/ Up
    \/ Change
    \/ Load(FALSE)
    \/ Load(TRUE)
    \/ Backspace
    \/ LoadRomsKey
    \/ Leave("F089")
    \/ Leave("C854")

-----------------------------------------------------------------------------
\* SRAM_WE_N: bit 2 of syscontrol keeps writes from the upper half.
Protected(addr) == (syscontrol \div 4) % 2 = 1 /\ addr >= Upper

\* A program that was started writes where it likes.
Poke ==
    /\ pc \in Running
    /\ \E addr \in Pokes :
           memory' = IF Protected(addr) THEN memory ELSE Write(memory, addr, <<255>>)
    /\ UNCHANGED <<card, pc, syscontrol, keybu, menu, endAdr>>

\* Bound: one sector at a time, a few times.
Fail ==
    /\ bad = {} /\ failures < MaxFailures
    /\ \E s \in volume.sectors : bad' = {s}
    /\ failures' = failures + 1
    /\ UNCHANGED <<volume, mounted, pc, syscontrol, keybu, menu, endAdr, memory>>

Recover ==
    /\ bad # {} /\ bad' = {}
    /\ UNCHANGED <<volume, mounted, failures, pc, syscontrol, keybu, menu, endAdr, memory>>

Next == Reset \/ Command \/ Mount \/ LoadRoms \/ Open \/ Key \/ Poke \/ Fail \/ Recover

Spec == Init /\ [][Next]_vars
=============================================================================
