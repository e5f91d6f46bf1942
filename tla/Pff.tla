--------------------------------- MODULE Pff ---------------------------------
(***************************************************************************)
(* The FAT reader (sw/pff/pff.c) on a volume.  Its functions change the    *)
(* directory or file object they are given and return a result; here they  *)
(* are operators that return both.  The FAT of a FAT12 is a sequence of    *)
(* bytes; the entries of a FAT32 and the fields of slots are decoded.  A   *)
(* read of a sector in bad fails; what disk_readp returns otherwise is     *)
(* right, as SdDisk shows.                                                 *)
(***************************************************************************)
EXTENDS Integers, Sequences

CONSTANTS
    SectorSize,             \* 512
    SlotsPerSector,         \* 16 directory slots
    EntriesPerSector,       \* 128 entries of a FAT32
    BodyLength, ExtLength   \* 8 and 3 characters of a name

ASSUME PffAssumption ==
    /\ SectorSize \in Nat \ {0} /\ SlotsPerSector \in Nat \ {0}
    /\ EntriesPerSector \in Nat \ {0}
    /\ BodyLength \in Nat \ {0} /\ ExtLength \in Nat \ {0}

VARIABLES
    volume,                 \* bsect: the boot sector of the partition, 0 without a
                            \* partition table; csize, fatsize, n_rootdir, n_fatent,
                            \* root; fat: the bytes of a FAT12 or the entries of a
                            \* FAT32; the slots of directory sectors, the bytes of
                            \* file sectors, and stray: what a file sector shows as
                            \* a slot
    bad,                    \* sectors that cannot be read at present
    mounted                 \* FatFs is set

\* The static root directory, if there is one, follows the FAT.
fatbase == volume.bsect + 1
dirbase == IF volume.n_rootdir = 0 THEN volume.root ELSE fatbase + volume.fatsize
database == fatbase + volume.fatsize + volume.n_rootdir \div SlotsPerSector

Lesser(a, b) == IF a <= b THEN a ELSE b

-----------------------------------------------------------------------------
\* A FAT12 entry has twelve bits, the upper or the lower ones of two bytes
\* that may lie in two sectors; only a FAT32 has its root directory in clusters.
EntryByte(clst) == clst + clst \div 2

EntrySectors(clst) ==
    IF volume.n_rootdir = 0 THEN {fatbase + clst \div EntriesPerSector}
    ELSE {fatbase + k \div SectorSize : k \in EntryByte(clst) .. EntryByte(clst) + 1}

\* 1 stands for an error of the disk, as in the code.
get_fat(clst) ==
    LET wc == volume.fat[EntryByte(clst)] + 256 * volume.fat[EntryByte(clst) + 1]
    IN  IF clst < 2 \/ clst >= volume.n_fatent \/ EntrySectors(clst) \cap bad # {} THEN 1
        ELSE IF volume.n_rootdir = 0 THEN volume.fat[clst]
        ELSE IF clst % 2 = 1 THEN wc \div 16 ELSE wc % 4096

\* 0: no such cluster.
clust2sect(clst) ==
    IF clst < 2 \/ clst >= volume.n_fatent THEN 0
    ELSE (clst - 2) * volume.csize + database

Result(res, dj) == [res |-> res, dj |-> dj]

dir_rewind(dj) ==
    LET clst == IF dj.sclust = 0 /\ volume.n_rootdir = 0 THEN dirbase ELSE dj.sclust
        sect == IF clst = 0 THEN dirbase ELSE clust2sect(clst)
    IN  IF dj.sclust = 1 \/ dj.sclust >= volume.n_fatent
        THEN Result("DISK_ERR", [dj EXCEPT !.index = 0])
        ELSE Result("OK", [index |-> 0, sclust |-> dj.sclust, clust |-> clst,
                           sect |-> sect])

\* The next slot.  At the end of a table the sector has already moved on.
dir_next(dj) ==
    LET i == dj.index + 1
        moved == [dj EXCEPT !.sect = @ + 1]
        clst == get_fat(dj.clust)
    IN  IF dj.sect = 0 THEN Result("NO_FILE", dj)
        ELSE IF i % SlotsPerSector # 0 THEN Result("OK", [dj EXCEPT !.index = i])
        ELSE IF dj.clust = 0 /\ i >= volume.n_rootdir THEN Result("NO_FILE", moved)
        ELSE IF dj.clust = 0 \/ (i \div SlotsPerSector) % volume.csize # 0
        THEN Result("OK", [moved EXCEPT !.index = i])
        ELSE IF clst <= 1 THEN Result("DISK_ERR", moved)
        ELSE IF clst >= volume.n_fatent THEN Result("NO_FILE", moved)
        ELSE Result("OK", [dj EXCEPT !.index = i, !.clust = clst,
                                     !.sect = clust2sect(clst)])

\* A sector that holds no directory shows whatever is there.
Slot(dj) ==
    IF dj.sect \in DOMAIN volume.slots
    THEN volume.slots[dj.sect][(dj.index % SlotsPerSector) + 1]
    ELSE volume.stray

NoSlot == [kind |-> "end", name |-> <<>>, clust |-> 0, size |-> 0]

Found(dj) == [res |-> "OK", dj |-> dj, slot |-> Slot(dj)]
NotFound(res, dj) == [res |-> res, dj |-> dj, slot |-> NoSlot]

\* The loops over slots that look for a name, and for the next valid entry.
RECURSIVE FindFrom(_, _)
FindFrom(dj, name) ==
    LET next == dir_next(dj)
    IN  IF dj.sect \in bad THEN NotFound("DISK_ERR", dj)
        ELSE IF Slot(dj).kind = "end" THEN NotFound("NO_FILE", dj)
        ELSE IF Slot(dj).kind # "volume" /\ Slot(dj).name = name THEN Found(dj)
        ELSE IF next.res # "OK" THEN NotFound(next.res, next.dj)
        ELSE FindFrom(next.dj, name)

dir_find(dj, name) ==
    LET r == dir_rewind(dj)
    IN  IF r.res # "OK" THEN NotFound(r.res, r.dj) ELSE FindFrom(r.dj, name)

RECURSIVE dir_read(_)
dir_read(dj) ==
    LET next == dir_next(dj)
        over == [dj EXCEPT !.sect = 0]
    IN  IF dj.sect = 0 THEN NotFound("NO_FILE", dj)
        ELSE IF dj.sect \in bad THEN NotFound("DISK_ERR", over)
        ELSE IF Slot(dj).kind = "end" THEN NotFound("NO_FILE", over)
        ELSE IF Slot(dj).kind \in {"file", "dir"} THEN Found(dj)
        ELSE IF next.res # "OK" THEN NotFound(next.res, [next.dj EXCEPT !.sect = 0])
        ELSE dir_read(next.dj)

\* The characters before the first c.
Before(s, c) ==
    LET ends == {i \in DOMAIN s : s[i] = c}
    IN  SubSeq(s, 1, IF ends = {} THEN Len(s)
                     ELSE (CHOOSE i \in ends : \A j \in ends : i <= j) - 1)

Padded(s, length) == [i \in 1 .. length |-> IF i \in DOMAIN s THEN s[i] ELSE " "]

\* A name of a path as it is in a slot: body and extension padded with blanks.
create_name(name) ==
    LET body == Before(name, ".")
        ext == SubSeq(name, Len(body) + 2, Len(name))
    IN  Padded(body, BodyLength)
            \o Padded(IF Len(body) > BodyLength THEN <<>> ELSE ext, ExtLength)

\* A slip: the extension is left out.
BodyOnly(slotName) == Before(SubSeq(slotName, 1, BodyLength), " ")

\* The name of a slot as it is shown.
get_fileinfo(slotName) ==
    LET ext == Before(SubSeq(slotName, BodyLength + 1, Len(slotName)), " ")
    IN  Before(SubSeq(slotName, 1, BodyLength), " ")
            \o IF ext = <<>> THEN <<>> ELSE <<".">> \o ext

\* A path is a sequence of names, one after the other is looked for.
RECURSIVE Follow(_, _)
Followed(r, path) ==
    IF r.res # "OK" \/ Len(path) = 1 THEN r
    ELSE IF r.slot.kind # "dir" THEN NotFound("NO_FILE", r.dj)
    ELSE Follow([r.dj EXCEPT !.sclust = r.slot.clust], Tail(path))

Follow(dj, path) == Followed(dir_find(dj, create_name(Head(path))), path)

\* The null path finds no slot, but the root directory.
follow_path(dj, path) ==
    LET root == [dj EXCEPT !.sclust = 0]
        r == dir_rewind(root)
    IN  IF path = <<>> THEN [res |-> r.res, dj |-> r.dj, slot |-> NoSlot]
        ELSE Follow(root, path)

-----------------------------------------------------------------------------
(***************************************************************************)
(* The calls a program makes.  The open file fs: whether it is open        *)
(* (FA_OPENED), fsize, fptr, org_clust, curr_clust, dsect.                 *)
(***************************************************************************)
Closed == [opened |-> FALSE, fsize |-> 0, fptr |-> 0, org_clust |-> 0,
           curr_clust |-> 0, dsect |-> 0]

\* 0: a FAT boot record, 1: another one, 3: an error.
check_fs(sect) == IF sect \in bad THEN 3 ELSE IF sect = volume.bsect THEN 0 ELSE 1

\* Sector 0 is the boot record, or lists the partition that has it.
pf_mount ==
    mounted' = (check_fs(0) = 0 \/ (check_fs(0) = 1 /\ check_fs(volume.bsect) = 0))

NewObject == [index |-> 0, sclust |-> 0, clust |-> 0, sect |-> 0]

File(r) ==
    IF r.res # "OK" \/ r.slot.kind # "file" THEN Closed
    ELSE [Closed EXCEPT !.opened = TRUE, !.fsize = r.slot.size,
                        !.org_clust = r.slot.clust]

\* The result is FR_OK if the file is open.
pf_open(path) == IF mounted THEN File(follow_path(NewObject, path)) ELSE Closed

RECURSIVE Pieces(_, _, _)

\* A slip: the sectors of a file are taken to follow each other on the disk.
ContiguousPieces(fs, btr, got) ==
    LET ofs == fs.fptr % SectorSize
        sect == IF fs.fptr = 0 THEN clust2sect(fs.org_clust)
                ELSE IF ofs = 0 THEN fs.dsect + 1 ELSE fs.dsect
        rcnt == Lesser(SectorSize - ofs, btr)
    IN  IF btr = 0 THEN [res |-> "OK", fs |-> fs, bytes |-> got]
        ELSE IF sect \in bad \/ sect \notin DOMAIN volume.bytes
        THEN [res |-> "DISK_ERR", fs |-> Closed, bytes |-> got]
        ELSE Pieces([fs EXCEPT !.dsect = sect, !.fptr = @ + rcnt], btr - rcnt,
                    got \o SubSeq(volume.bytes[sect], ofs + 1, ofs + rcnt))

\* One piece after the other, each within a sector.
Pieces(fs, btr, got) ==
    LET ofs == fs.fptr % SectorSize
        cs == (fs.fptr \div SectorSize) % volume.csize
        clst == IF ofs # 0 \/ cs # 0 THEN fs.curr_clust
                ELSE IF fs.fptr = 0 THEN fs.org_clust
                ELSE get_fat(fs.curr_clust)
        sect == IF ofs # 0 THEN fs.dsect ELSE clust2sect(clst) + cs
        rcnt == Lesser(SectorSize - ofs, btr)
    IN  IF btr = 0 THEN [res |-> "OK", fs |-> fs, bytes |-> got]
        ELSE IF (ofs = 0 /\ clust2sect(clst) = 0) \/ sect \in bad
        THEN [res |-> "DISK_ERR", fs |-> Closed, bytes |-> got]
        ELSE Pieces([fs EXCEPT !.curr_clust = clst, !.dsect = sect, !.fptr = @ + rcnt],
                    btr - rcnt,
                    got \o SubSeq(volume.bytes[sect], ofs + 1, ofs + rcnt))

\* bytes also holds what was read before an error.
pf_read(fs, btr) ==
    IF ~fs.opened THEN [res |-> "NOT_OPENED", fs |-> fs, bytes |-> <<>>]
    ELSE Pieces(fs, Lesser(btr, fs.fsize - fs.fptr), <<>>)

Directory(r, path) ==
    IF r.res # "OK" THEN Result(r.res, r.dj)
    ELSE IF path = <<>> THEN dir_rewind(r.dj)
    ELSE IF r.slot.kind # "dir" THEN Result("NO_FILE", r.dj)
    ELSE dir_rewind([r.dj EXCEPT !.sclust = r.slot.clust])

pf_opendir(dj, path) ==
    IF mounted THEN Directory(follow_path(dj, path), path)
    ELSE Result("NOT_ENABLED", dj)

NoEntry == [name |-> <<>>, isDir |-> FALSE]

\* The entry at the object's slot; at the end of the directory an empty one.
Entry(r) ==
    LET next == dir_next(r.dj)
    IN  IF r.res = "DISK_ERR" THEN [res |-> r.res, dj |-> r.dj, entry |-> NoEntry]
        ELSE [res |-> IF next.res = "NO_FILE" THEN "OK" ELSE next.res,
              dj |-> next.dj,
              entry |-> IF r.res = "NO_FILE" THEN NoEntry
                        ELSE [name |-> get_fileinfo(r.slot.name), isDir |-> r.slot.kind = "dir"]]

pf_readdir(dj) ==
    IF mounted THEN Entry(dir_read(dj))
    ELSE [res |-> "NOT_ENABLED", dj |-> dj, entry |-> NoEntry]
=============================================================================
