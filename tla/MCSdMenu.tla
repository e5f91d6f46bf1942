------------------------------ MODULE MCSdMenu ------------------------------
(***************************************************************************)
(* SdMenu on volumes built from lists of files and directories.  The       *)
(* clusters of a file or directory descend, so that no two of them follow  *)
(* each other on the disk.                                                 *)
(***************************************************************************)
EXTENDS SdMenu, FiniteSets

CONSTANTS
    Layouts                 \* csize, fat32, bsect, the layout's name

VARIABLE
    hurt                    \* the page shown is not what a sound read gave

(***************************************************************************)
(* What is on the cards.                                                   *)
(***************************************************************************)
MCTapHeader == <<195, 75>>

Basic == [kind |-> "basic", load |-> 4, end |-> 14, first |-> <<11, 12>>,
          blocks |-> <<<<13, 14, 15, 16>>, <<17, 18, 19, 20>>>>]
Machine == [kind |-> "mc", load |-> 12, end |-> 24,
            blocks |-> <<<<21, 22, 23, 24>>, <<25, 26, 27, 28>>, <<29, 30, 31, 32>>>>]
BasicImage == <<41, 42, 43>>
OsImage == <<51, 52, 53, 54, 55>>

\* The bytes of a tape file; the last block has the number 255.
Numbered(blocks, i) == <<IF i = Len(blocks) THEN 255 ELSE i + 1>> \o blocks[i]

BasicTap ==
    MCTapHeader \o <<1, BasicMark, Basic.end - Basic.load>> \o Basic.first
        \o Numbered(Basic.blocks, 1) \o Numbered(Basic.blocks, 2)

\* The last block is missing.
MachineTap ==
    MCTapHeader \o <<0, Machine.load, Machine.end, 0, 0>>
        \o Numbered(Machine.blocks, 1) \o Numbered(Machine.blocks, 2)

Name(body, ext) == [body |-> body, ext |-> ext]

\* Names as they are shown and typed, and as they are stored.
Shown(name) == name.body \o (IF name.ext = <<>> THEN <<>> ELSE <<".">> \o name.ext)
Blank(k) == [i \in 1 .. k |-> " "]
Stored(name) ==
    name.body \o Blank(BodyLength - Len(name.body))
        \o name.ext \o Blank(ExtLength - Len(name.ext))

ROMS == Name(<<"R">>, <<>>)
BASICROM == Name(<<"B", "A">>, <<"7">>)
OSROM == Name(<<"O", "S">>, <<"7">>)
BASICTAP == Name(<<"B">>, <<"T">>)
MCTAP == Name(<<"M", "C">>, <<>>)
MC2 == Name(<<"M", "C">>, <<"2">>)
TEXT == Name(<<"T">>, <<"X">>)
D == Name(<<"D">>, <<>>)
EMPTY == Name(<<"E">>, <<>>)

MCRomsBasic == <<Shown(ROMS), Shown(BASICROM)>>
MCRomsOs == <<Shown(ROMS), Shown(OSROM)>>

\* A deleted entry has lost its first character.
Marks == [volume |-> "V", deleted |-> "deleted", dot |-> "."]

Item(kind, name, object) == [kind |-> kind, name |-> name, object |-> object]
Ignored(kind) == Item(kind, Name(<<Marks[kind]>>, <<>>), 0)

\* Objects of a layout by number: directories with items, files with bytes.
\* Object 1 is the root.  The images may be cut short.
Objects(os) ==
    << [dir |-> TRUE, items |-> <<Ignored("volume"), Item("dir", ROMS, 2),
                                  Item("file", BASICTAP, 6), Ignored("deleted"),
                                  Item("dir", D, 3), Item("file", MCTAP, 7),
                                  Ignored("deleted")>>],
       [dir |-> TRUE, items |-> <<Ignored("dot"), Item("file", BASICROM, 4),
                                  Item("file", OSROM, 5)>>],
       [dir |-> TRUE, items |-> <<Ignored("dot"), Item("file", TEXT, 8),
                                  Ignored("deleted"), Item("dir", EMPTY, 9),
                                  Item("file", MC2, 7)>>],
       [dir |-> FALSE, items |-> BasicImage],
       [dir |-> FALSE, items |-> os],
       [dir |-> FALSE, items |-> BasicTap],
       [dir |-> FALSE, items |-> MachineTap],
       [dir |-> FALSE, items |-> <<MCTapHeader[1], 9, 9>>],
       [dir |-> TRUE, items |-> <<Ignored("dot")>>] >>

\* D has no slot to spare.
FullDirectory ==
    [Objects(OsImage) EXCEPT
        ![3].items = <<Ignored("dot"), Item("file", TEXT, 8), Ignored("deleted"),
                       Item("file", MC2, 7)>>]

ObjectsOf(layout) ==
    CASE layout.name = "complete" -> Objects(OsImage)
      [] layout.name = "shortOs"  -> Objects(SubSeq(OsImage, 1, 4))
      [] layout.name = "full"     -> FullDirectory

\* Without a partition table, and with one.
MCLayouts ==
    [name : {"complete", "shortOs"}, csize : {1}, fat32 : {FALSE}, bsect : {0}]
        \cup [name : {"complete"}, csize : {2}, fat32 : {TRUE}, bsect : {1}]
MCFull == [name : {"full"}, csize : {1}, fat32 : {FALSE}, bsect : {0}]

(***************************************************************************)
(* From a layout to a volume.                                              *)
(***************************************************************************)
\* Two entries of a FAT12 are three bytes.
Packed(entries, size) ==
    [k \in 0 .. size - 1 |->
        LET even == entries[2 * (k \div 3)]
            odd == entries[2 * (k \div 3) + 1]
        IN  CASE k % 3 = 0 -> even % 256
              [] k % 3 = 1 -> even \div 256 + 16 * (odd % 16)
              [] k % 3 = 2 -> odd \div 16]

Volume(layout, files) ==
    LET static == ~layout.fat32
        per(o) == IF files[o].dir THEN SlotsPerSector ELSE SectorSize
        sectors(o) == (Len(files[o].items) + per(o) - 1) \div per(o)
        clusters(o) == IF o = 1 /\ static THEN 0
                       ELSE (sectors(o) + layout.csize - 1) \div layout.csize
        before[o \in 1 .. Len(files) + 1] ==
            IF o = 1 THEN 0 ELSE before[o - 1] + clusters(o - 1)
        total == before[Len(files) + 1]
        n_fatent == total + 2
        Cluster(p) == n_fatent - 1 - p
        Start(o) == IF o = 0 \/ (o = 1 /\ static) THEN 0 ELSE Cluster(before[o])
        Owner(p) == CHOOSE o \in 1 .. Len(files) : before[o] <= p /\ p < before[o + 1]
        Last(p) == p + 1 = before[Owner(p) + 1]
        n_rootdir == IF static THEN SlotsPerSector * sectors(1) ELSE 0
        fatsize == IF static THEN (n_fatent + n_fatent \div 2) \div SectorSize + 1
                   ELSE (n_fatent - 1) \div EntriesPerSector + 1
        first == layout.bsect + 1 + fatsize
        data == first + n_rootdir \div SlotsPerSector
        place(s) == total - 1 - ((s - data) \div layout.csize)
        owner(s) == IF s < data THEN 1 ELSE Owner(place(s))
        index(s) == IF s < data THEN s - first
                    ELSE (place(s) - before[owner(s)]) * layout.csize
                         + ((s - data) % layout.csize)
        all == first .. data + total * layout.csize - 1
        \* The next cluster.
        entry(c) ==
            IF c \notin 2 .. n_fatent - 1 \/ Last(n_fatent - 1 - c) THEN 4095 ELSE c - 1
        item(s, i) == index(s) * per(owner(s)) + i
        Decoded(it) == [kind |-> it.kind, name |-> Stored(it.name), clust |-> Start(it.object),
                        size |-> IF it.kind = "file" THEN Len(files[it.object].items)
                                 ELSE 0]
    IN  [bsect |-> layout.bsect, fatsize |-> fatsize,
         csize |-> layout.csize, n_rootdir |-> n_rootdir, n_fatent |-> n_fatent,
         root |-> IF static THEN 0 ELSE Start(1),
         fat |-> IF static THEN Packed([c \in 0 .. fatsize * SectorSize |-> entry(c)],
                                      fatsize * SectorSize)
                 ELSE [c \in 2 .. n_fatent - 1 |-> entry(c)],
         slots |-> [s \in {s \in all : files[owner(s)].dir} |->
                      [i \in 1 .. SlotsPerSector |->
                          IF item(s, i) <= Len(files[owner(s)].items)
                          THEN Decoded(files[owner(s)].items[item(s, i)])
                          ELSE NoSlot]],
         bytes |-> [s \in {s \in all : ~files[owner(s)].dir} |->
                      [i \in 1 .. SectorSize |->
                          IF item(s, i) <= Len(files[owner(s)].items)
                          THEN files[owner(s)].items[item(s, i)] ELSE 0]],
         stray |-> [kind |-> "file", name |-> Stored(TEXT), clust |-> 0, size |-> 0],
         objects |-> files, os |-> files[5].items,
         sectors |-> 0 .. first - 1 \cup all]

MCVolumes == {Volume(l, ObjectsOf(l)) : l \in Layouts}

-----------------------------------------------------------------------------
(***************************************************************************)
(* What a page should show.                                                *)
(***************************************************************************)
objects == volume.objects

\* The object at a path, 0 if there is none.
RECURSIVE ObjectAt(_, _)
ObjectAt(o, p) ==
    LET found == {i \in 1 .. Len(objects[o].items) : Shown(objects[o].items[i].name) = Head(p)}
    IN  IF p = <<>> THEN o
        ELSE IF ~objects[o].dir \/ found = {} THEN 0
        ELSE ObjectAt(objects[o].items[CHOOSE i \in found : TRUE].object, Tail(p))

IsDirectory(p) == ObjectAt(1, p) # 0 /\ objects[ObjectAt(1, p)].dir

Listing(p) ==
    SelectSeq(objects[ObjectAt(1, p)].items, LAMBDA it : it.kind \in {"file", "dir"})

Page(p, page) ==
    [i \in 1 .. MENU_SIZE |->
        LET k == page * MENU_SIZE + i
        IN  IF k > Len(Listing(p)) THEN NoEntry
            ELSE [name |-> Shown(Listing(p)[k].name), isDir |-> Listing(p)[k].kind = "dir"]]

\* Pages are sound again when the first page is shown anew, from the path of
\* a directory and with a card that can be read.
Reopened == pc = "opendir" \/ path' # path \/ (menuPage' = 0 /\ menuPage # 0)

HInit == Init /\ hurt = FALSE

HNext ==
    /\ Next
    /\ hurt' = CASE pc' # "menu" -> FALSE
                 [] pc' = "menu" /\ Reopened -> bad # {} \/ (hurt /\ ~IsDirectory(path'))
                 [] OTHER -> hurt \/ (bad # {} /\ <<dir, menuEntries>>' # <<dir, menuEntries>>)

HSpec == HInit /\ [][HNext]_<<vars, hurt>>

-----------------------------------------------------------------------------
\* Whatever keys were pressed, the lines show the entries of the directory in
\* the path that belong to the page, deleted entries, labels and dots left
\* out, and the cursor stands on an entry unless the page has none.
MenuShowsPage ==
    pc = "menu" /\ ~hurt =>
        /\ IsDirectory(path)
        /\ menuEntries = Page(path, menuPage)
        /\ menuCursor = 1 \/ Selected # NoEntry

\* The addresses and the data of a program, after k of its blocks.
Programs(mem) == [a \in {a \in DOMAIN mem : a < BasicRom} |-> mem[a]]

Loaded(program, k) ==
    LET data == (IF program = Basic THEN <<Basic.first>> ELSE <<>>) \o program.blocks
        bytes[i \in 0 .. k] == IF i = 0 THEN <<>> ELSE bytes[i - 1] \o data[i]
    IN  Write(Programs(memory), program.load, bytes[k])

\* The program of a file, as far as the file has it.
ProgramOf(p) ==
    CASE ObjectAt(1, p) = 6 -> Basic
      [] ObjectAt(1, p) = 7 -> [Machine EXCEPT !.blocks = SubSeq(@, 1, 2)]
      [] OTHER -> [kind |-> "none", load |-> 0, end |-> 0, blocks |-> <<>>]

BlocksOf(program) == Len(program.blocks) + (IF program = Basic THEN 1 ELSE 0)

\* Enter brings exactly the blocks of the program under the cursor to its
\* addresses and its end to endAdr, however the clusters of the file lie; if a sector cannot be
\* read it brings the blocks before it.  Only the first block of a BASIC
\* program is taken without being complete.
LoadsProgram ==
    [][Load(FALSE) /\ ~hurt =>
        LET program == ProgramOf(SelectedPath)
            n == BlocksOf(program)
            prefixes == {Loaded(program, k) : k \in 0 .. n}
        IN  \/ Programs(memory') = Loaded(program, n) /\ endAdr' = program.end
            \/ bad # {} /\ Programs(memory') \in prefixes
            \/ /\ bad # {} /\ program = Basic
               /\ \A a \in DOMAIN Programs(memory') :
                     \/ a \in Basic.load .. Basic.load + Len(Basic.first) - 1
                     \/ a \in DOMAIN memory /\ memory'[a] = memory[a]]_vars

\* The system is started from its entry only when all of its image is in
\* memory, whatever became of BASIC, and whatever it or a program then writes,
\* the image stays as it is.
OsComplete == pc = "F000" => Len(volume.os) = OsRomSize /\ OsLoaded

\* "Report EOT when end of table" (pff.c 481): the pages end with the last
\* entry of the directory.
EndReported ==
    pc = "menu" /\ ~hurt =>
        \A i \in 1 .. MENU_SIZE :
            menuPage * MENU_SIZE + i > Len(Listing(path)) => menuEntries[i] = NoEntry
=============================================================================
