# Verification of the KC87 FPGA core

TLA+ models of the KC87 home computer, the TLC configurations that check them
on small instances, and TLAPS proofs of the properties that matter most. The
system is a Z80 machine in VHDL (`src/rtl`, top level `rtl/kc87.vhd`, build
list `kc87.qsf`) with firmware in C and assembler (`src/sw`) that boots it from
an SD card.

Contents: 1 inventory, 2 modules and plan, 3 correspondence to the code,
4 runs, 5 fairness, 6 proofs, 7 what the work brought to light, 8 what is not
modelled.

## 1. Inventory

Everything on the FPGA is clocked by one clock, `clk` (about 50 MHz). The CPU
alone has an enable, `CLKEN`: every edge in turbo mode, otherwise the
fractional tick `kcSysClk` (2.4576 MHz) of the CTC's divider. A bus access of
the CPU therefore lasts one `clk` edge or about twenty, and every peripheral
sees it on each of them. That, the processes that share registers inside one
entity, and the two-wire and serial lines with a partner on another clock are
where the difficulty lies; the C programs are sequential, but they work on
hardware that moves on between two of their accesses.

| component | source | state | operations | talks to | correct when |
|---|---|---|---|---|---|
| interrupt controller | rtl/periph/simpleIntcontroller.vhd | latched requests, offered or served request, state of the service, INT line | latch a pulse, offer, switch to a higher one, acknowledge, follow RETI, reset | CPU (INT, M1, IORQ, RETI lines), CTC and PIO (request pulses, acknowledge vector) | highest request first, no request lost or served twice, services not nested, the program gets on |
| T80 CPU | rtl/t80 | M cycle, T state, flip-flops, registers | instructions; acknowledge cycle; RETI | everything, through its bus | accepts an interrupt only while it is offered, one source gives the vector |
| CTC | rtl/periph/ctc.vhd, ctc_channel.vhd | divider; per channel control word, time constant, prescaler, down counter, edge detector, output | program, count, reload, request, cascade 2 -> 3 | CPU (registers), controller (requests), CPU clock enable | each access acts once, exact periods, never counts unloaded, never stops by itself |
| PIO | rtl/periph/pio.vhd, pio_port.vhd | per port mode, masks, vector, strobe register, interrupt condition | program, read, write, strobe, watch lines | CPU, controller, keyboard matrix (second PIO) | each access acts once, one request per edge |
| PS/2 receiver | rtl/periph/ps2if.vhd | debounce registers, bit count, timeout, shift register | take bits, hold the clock, time out, report | keyboard, ps2kc | a frame is reported with its code, whatever came before |
| keyboard matrix | rtl/periph/ps2kc.vhd | prefixes, modifiers, 8x8 matrix | take a code, map to KC87 keys, answer a scan | ps2if, second PIO | no key sticks, held keys are seen, keys type what is printed on them |
| serial interface | rtl/periph/uart.vhd, sw/uart/uart.c | transmitter and receiver shift registers, receive buffer | write, read, clear, shift; readchar, putchar | CPU, the other end of the line | bytes arrive once, in order, with their values |
| SPI master | rtl/periph/spi.vhd | shift register, bit count, divider, chip select | write, read, exchange | CPU, SD card | a byte for a byte |
| SD card driver | sw/pff/mmcbbp.c, hardware.c | card type, command and response, counters | disk_initialize, disk_readp, send_cmd | SPI master, FAT reader | card recognised, reads return what was asked for, calls end |
| FAT reader | sw/pff/pff.c (Petit FatFs) | file and directory objects | mount, open, read, open and read directory | driver, menu | files and directories are read as they are on the volume, wherever their clusters lie |
| menu and loaders | sw/sdcard.c | page, cursor, path, load addresses | keys, load ROMs, load tap files | FAT reader, OS keyboard buffer, screen | cursor, page and directory agree; only complete images start |
| boot and memory map | rtl/kc87.vhd, pport.vhd, sw/crt, sw/asm, sw/kc | system control port, RAM contents | reset, ROM over RAM, write protection, cold and warm start | CPU, SRAM | a reset at any time leads to a running system |
| serial monitor | sw/monitor.c, crt/crt0_mon.s | address, byte and digit count, states of address and record, the two shift registers of the memory test | commands, digits, Intel HEX records, memory test | serial routines, a host on the line, memory | records land where they say, echoes keep up with the line, the test finds faults and nothing else |
| video | rtl/vga/video.vhd | line and pixel counters | sync, fetch, output | video and colour RAM | timing |
| rest | seg7dec, sysclock, ROM images, tools, test benches, the Spartan 3 port, modules outside the build | | | | see `components` in PROJECT.json |

Hard behaviours, with their lines, are the `hazards` of PROJECT.json; each names
the property that would catch it going wrong or says why there is none.

## 2. Modules and plan

| step | modules | abstract specification | status |
|---|---|---|---|
| 1 interrupt system | IntController, T80Int, composed in KcInterrupt; MCInterruptHistory, MCInterruptProgram; KcInterruptProofs | InterruptService | modelled, checked, proved |
| 2 CTC | Ctc; MCCtcPeriod; CtcProofs | CtcProgramming | modelled, checked, proved |
| 3 PIO | Pio; MCPioEdges; PioProofs | PioProgramming | modelled, checked, proved |
| 4 keyboard | Ps2If, MCPs2Frames; Ps2Keys; Ps2FramesProofs, Ps2KeysProofs | the keyboard's legends (in Ps2Keys) | modelled, checked, proved |
| 5 serial line | Uart, MCUartBoards (two boards, readchar); UartBoardsProofs | a queue of bytes (history of MCUartBoards) | modelled, checked, proved |
| 6 SD card | Spi, SdCard (external), composed in SdDisk; SdDiskProofs | sectors (in SdDisk) | modelled, checked, proved |
| 7 FAT reader, menu, loaders, boot | Pff, SdMenu, composed on volumes in MCSdMenu | directories as lists, programs as lists of blocks (in MCSdMenu) | modelled, checked |
| 8 monitor | Monitor, composed with a host and the line in MCMonitor; MonitorProofs | what records store, as lists of bytes (in MCMonitor) | modelled, checked, proved |
| 9 deeper proofs | page and cursor of SdMenu on an abstract directory; Spi bit by bit refined to Spi, with the length of a write | | planned |

Order of importance: what all programs stand on first (interrupts, timers,
ports), then input and output, then the programs of the boot ROM. Where a
component promises something that can be said without clock edges, that promise
is a module of its own and the component is checked, and for 1 to 3 proved, to
implement it. Modules that are proved about use no recursive operators, take
their sizes as CONSTANTS with named assumptions, and have one action or one
named next-value operator per operation.

A definition that begins with the comment "A slip" is a variant of the one that
follows it, wrong in the way the comment says. It is not part of the model;
`mutants` in PROJECT.json says which property of which run would find it.

## 3. Correspondence to the code

PROJECT.json `map` gives the lines of every definition. In all hardware modules
one step is one rising edge of `clk` on which every register takes its next
value from the values before the edge, as in a VHDL process; levels are 0 and 1,
vectors are sets or numbers, active-low names end in `_n` as in the source.

**IntController** has one action for every branch of the clocked process of
simpleIntcontroller.vhd (`Offer`, `RetiSeen`, `RetiEnded`, `Finish`,
`Acknowledge`, `ExtraM1`, and `HoldHigh`/`HoldLow` where no branch is taken);
every one of them ends with `Latch`, since the request pulses are or-ed in on
every edge. `Highest` is the priority loop `int_mask`.

**T80Int** is the CPU as the controller sees it: M cycle and T state, wait
states of an acknowledge, the interrupt flip-flops with the delay of EI, the
sampled line `int_s`, and M1, IORQ and RETI. An action is one kind of enabled
edge. Instructions are classes: single M1 cycle, I/O, EI, DI, the ED prefix,
RETI. WAIT, NMI and BUSRQ are tied high in kc87.vhd and left out; IM 2 is what
all programs here select; RETN and RETI are the same class because the core
raises RETI_n for both.

**KcInterrupt** wires both as kc87.vhd does. `Tick` is an edge with CLKEN,
`Pause` one without; turbo and normal mode are behaviours with few or many
pauses, so any ratio and any switching between them is covered. `Reset` may come
on any edge. Peripherals pulse whenever they like.

**Ctc** contains the divider (`ClkGen`), the vector, and per channel two
records, `prog` for the `cpu` process and `count` for the `counter` process.
A bus access is a window of 1 to MaxHold edges. The time constant range, the
prescaler taps and the divider's ratio are constants. Programs follow the
protocol of the chip: a time constant is written when one is expected.
`Source = "trigger"` counts `clk_trg`, which kc87.vhd connects for channel 3 to
zc_to of channel 2 and ties low for the others.

**Pio** has the three clocked processes of a port: `Strobe`, `IrqNext`,
`ProgNext`. Acknowledge windows of the controller take precedence over accesses,
as in `cpu_control`. The pins move on every edge, the strobe too, although
kc87.vhd (472, 475, 499, 503) ties the strobes of both chips high: what is shown of it is
shown of the component, and nothing in this build depends on it.

**Ps2If** has the debounce registers, abstracted to the latest level and the
length of its run (the receiver looks only at all-ones and all-zeros), the four
states of the receiver, one operator each, and a keyboard (external) on an
open-collector clock: it waits for a quiet clock, gives up a frame that is
interrupted and sends it again. **Ps2Keys** has the process that takes codes and
the combinational moves of German keys to KC87 cells, with a keyboard (external)
that sends scan code set 2: typematic repeats, the Pause sequence, and the fake
shifts of Print and of Insert, Delete and the arrows, which hide a held shift from
the computer (`GreyMake`, `GreyBreak`; NumLock is off, since the computer never
writes to the keyboard and cannot light it). Of the letters, which differ by their cell only, A and Q are in the
model (Q because AltGr-Q is @).

**Uart** has both processes of uart.vhd; MCUartBoards adds the far board, whose
transmitter is another instance of the same module, and `readchar` of uart.c with
its two bus windows.

**Spi** is byte by byte: `Exchange` is eight periods of the SPI clock; the
divider only sets the pace. **SdDisk** is the driver. Each C function is
translated into the accesses it makes to the SPI registers, in the form of a
script of `AtOnce` and `Wait` accesses (hardware.c waits for spi_busy before
some of them and not before others), and a decision where the code looks at what
it received; the decision starts the next script. Names of `pc` say what was
asked last. Bytes end at any moment between two accesses, so a write that is not
waited for is lost or taken. **SdCard** (external) is a card as the driver takes
it to be: SD version 1 and 2, high capacity, MMC, or none; it answers after 0 to
8 bytes, needs some rounds of initialisation, is late with data or reports an
error, and forgets what it was doing when it is deselected.

**Pff** is Petit FatFs on a volume. A C function changes the directory or file
object it is given and returns a result; here it is an operator that returns
both. A FAT12 is kept by its bytes, from which `get_fat` takes the twelve bits of an
entry, in one sector or two (`EntryByte`, `EntrySectors`); FAT32 entries and the
fields of slots are decoded. A name in a slot is a
body and an extension padded with blanks, in a path it is the characters with a dot
(`create_name`, `get_fileinfo`). The volume begins at sector 0 or in a partition
(`check_fs`, `pf_mount`). A read of a sector in `bad` fails: what a disk read
does below that is SdDisk's subject. **SdMenu** is the program of the boot ROM from reset (`Mount`,
`LoadRoms`, `Open`) or from the command SD (`Command`, which enters at `init` and
so writes syscontrol, as the boot ROM, which jumps past that, does not) to the
loop of main with one action for each key. A key is handled in one step; between
two steps the card may fail (`Fail`), recover, or the machine be reset. `memory`
holds what the loaders have written; a program that was started writes to it, too
(`Poke`), as far as bit 2 of the system control port lets it (`Protected`). KEYBU is filled by the operating system's
interrupt routine only; after a reset it gives at most the one key left in it.
**MCSdMenu** builds volumes from lists of files and directories, with clusters in
descending order, and says what a page and a program are in terms of these lists.

**Monitor** has one action for each case of the switch in main of monitor.c, and
for a digit one for each place it can have: in an address, and in a byte the one
or two digits of which are a count, a type, data, something skipped or the
checksum. A character is handled in one step, but what it prints takes time:
`toWrite` characters have to go through putchar, which waits until the transmitter
is free (`txBusy`), before the next is read from the receive buffer `rx`. The
memory test is cell by cell, on a memory that may have a stuck bit or a cell that
is another one (external). Digits are to the base `Base` and the shift registers
have `Bits` bits; both are 2 and 3 in the run and 16 and 15 in the code.
**MCMonitor** adds the host. `Line` is anything it sends; records, addresses and
bytes stream without a pause, as `make upload` sends a file, and `Break` cuts a line
off or loses a character of it. `Arrive` says how fast: a frame lasts as long in
one direction as in the other, so at most one character arrives while one is sent.

## 4. Runs

Bounds are the CONSTANTs of the .cfg files; every run explores its whole state
space, no run has a state constraint or symmetry.

| run | question | bounds, and why they are enough | properties |
|---|---|---|---|
| interrupt | do controller and CPU keep the promises on every interleaving of CPU edges, pulses and resets? | 2 inputs: each of two sources can precede, overtake, repeat during the service of the other; the theorems of section 6 hold for any number | TypeOK, AckHasOneSource, NoStaleSample, NoRetrigger, GrantsHighest, RequestsKept, NoNesting, ProgramAdvances, ImplementsService |
| interrupt_program | with service routines that end EI, RETI: is every request served, is the main loop not starved? | source 0 unbounded, source 1 once (what matters for it is only that the higher one comes first) | RequestServed, MainAdvances |
| ctc_period | is each access taken once whatever its length, do counters never run unloaded, is the period exact, does nothing stop? | 2 cascaded channels, accesses of 1 or 2 edges (the second edge is any further edge), control words with and without time constant, with reset, as timer and counter; Range 2, constants 1 and 0 (= Range), so a divider that divides and one that does not, ratio 2:1, prescaler tap 1 (the theorems of section 6 hold for any range, ratio, taps and access length) | TypeOK, CountersLoaded, ExactPeriod, KeepsCounting, ImplementsProgramming |
| pio_edges | is each access taken once, are masks never confused with words, is there one request per edge of the condition and per end of a strobe? | one port (the theorems of section 6 hold for both), two lines ("and" of two lines is the only condition that needs more than one), every kind of control word, modes 0 and 3, any pin movement | TypeOK, OneRequestPerEdge, OneRequestPerStrobe, ImplementsProgramming |
| ps2_frames | is a frame after enough silence always received? | codes of 2 bits, debounce of 2, timeout 12, phases 4 to 6 clocks, 14 clocks of silence: the shortest level and the shortest silence that ResyncAssumption allows (the theorems of section 6 hold for all other times) | CleanFrameReported, OnlyFramesReported, Recovers |
| ps2_keys | can a key stick, does each key type its legend? | 26 keys, up to 4 held: every pair of keys under two modifiers, and both shifts with two keys that hide them | NothingSticks, HeldKeysSeen, LegendTyped |
| uart | do bytes arrive, once and in order, and when can one be lost? | bit of 12 clocks, far clock off by a twelfth, 2 data bits: with fewer bits the drift per bit is larger in proportion, so the tolerance of the sample point is used to the same degree; accesses of 1 or 2 clocks, gaps of up to 3 (the theorems of section 6 hold for any number of bits and all times within BoardsAssumption) | TakenBytesArrive, LostOnlyByLatePolling |
| sd_disk | does the driver recognise every card, read what was asked, and end? | sectors of 3 bytes with all parts (offset, count) of them, 2 rounds of initialisation, 3 tries for data, answers after 0 or 8 bytes, 1 reset at any access; the counts 10 of attempts and dummy bytes are the real ones, since they meet the card's 8 bytes and 74 clocks | CardRecognised, ReadsWhatWasAsked, FailsForReason, LeavesNothing, Returns |
| sd_menu | do page, cursor, directory and path agree after any keys, are programs and images loaded as they are on the card? | sectors of 4 bytes or 2 slots, pages of 2 lines, blocks of 5 bytes: files and directories span sectors and clusters, pages end inside and with a directory, there is an empty directory; a static root and clusters of 1 sector, a root in clusters of 2 sectors in a partition, a short image of the system; FATs of several sectors, with FAT12 entries, even and odd, taken from their bytes, some across two; names of one and two characters, with and without an extension, two that differ in it only; any one sector, boot and FAT sectors included, fails once, for any time; programs write to one address below and one in the protected half | MenuShowsPage, LoadsProgram, OsComplete |
| full_directory | does the listing of a directory without a free slot end? It does not | two clusters, all slots used | EndReported, violated |
| monitor | do records land where they say whatever came before, do echoes keep up with the line, what does the memory test find? | digits to the base 2 (an address of four digits, bytes of two, as in the code), a digit count to 8, records with 2, 1 and no data bytes and of three types, an address, a typed byte, all commands, in any order and number, each line broken off or short of a character at any place; shift registers of 3 bits and 8 cells with every stuck bit and every pair of doubled cells | RecordsLand, KeepsUp, NoFalseAlarm, FaultsReported |
| monitor_sync | does a colon start a record, whatever the lines before it were? It does not | the same | RecordStarts, violated |

What they show, in words:

- *interrupt*: the INT line, a registered sample of it in the CPU, and the
  controller's registers are three copies of one fact that are never up to date
  together. The run shows that no combination of pulses, pauses and resets makes
  the CPU take an interrupt nobody offers, read a vector of another source than
  the one cleared, or take one while a service runs. After a RETI at least one
  whole instruction of the interrupted program is executed before the next
  interrupt, as the comment "allow int after 1 additional m1-cycle" says.
- *ctc_period*, *pio_edges*: the pairs `state`/`nextState` of both chips make an access of any
  length act once, because `state` follows only when the access has ended; the
  abstract modules have no edges at all.
- *ctc_period*: between two loads a channel divides by exactly prescaler times
  time constant, wherever writes fall; a constant written meanwhile waits. Only
  what channel 3 counts of a channel 2 with time constant 1 is left open, see 7.
- *ps2_frames*: the receiver's own hold of the clock is seen by its debounce
  register as a bit. The next timeout removes it, and no code is ever reported
  from it alone.
- *uart*: readchar reads and then clears; a byte that is completed between the two
  is lost. That happens only if the byte before it had waited for a whole frame less
  the time of the read and the clear (`Shortest`; with one clock more the run finds a
  byte lost sooner).
- *sd_disk*: the first write of rcv_spi after a packet is not waited for. If it is
  lost, nine instead of ten bytes are clocked for the response, which is just
  enough for a card that answers after eight.
- *sd_menu*: the directory object, the page number and the cursor are kept in step
  by paging forward only from a full page. After a failed read the page shown may
  be anything, and the code does not notice (`hurt` in MCSdMenu remembers it);
  showing the first page again with a card that can be read puts it right. A
  program is copied block by block, so after an error the blocks before it are in
  memory. What is shown for a slot always leads back to it. A system that was
  started stays whole while programs run, because every way out of the boot
  program sets the protection.
- *monitor*: count, address, type, data and checksum of a record are told apart by
  two states and a count of digits that addresses and bytes share. After a
  line that broke off an address typed with `t` is enough to bring everything
  in step again. No character has more than one echo, and of a record's digits at
  most one in two has any, so the monitor reads a character before the next one is in the buffer; printing the
  address, as the line commented out (monitor.c 192) did, would be too much.
  Writer and reader of the memory test stay in step over rounds, reports and
  starts from different places of the sequence in each round, by which it finds
  what one round does not show.

## 5. Fairness

- *interrupt_program*: WF of an enabled CPU edge. kcSysClk comes from a
  free-running divider (proved in CtcProofs, `SingleTicks`, and running without
  any enable), turbo means every edge. No fairness for requests or resets; this
  program is not reset.
- *ctc_period*, *ps2_frames*: WF of the next step: the clock runs. Accesses, pins
  and the keyboard choose freely, including never.
- *sd_disk*: WF of the driver's step (the CPU runs) and of the end of a byte (the
  divider counts). None for the card or the reset.

- *monitor*: WF of the monitor's step (the CPU runs, turbo and interrupts only
  change its pace) and of the end of a transmission (the transmitter counts).
  None for the host.

`Recovers` needs no assumption about the keyboard: the receiver's timeout brings
it back.

## 6. Proofs

All are for every value of the constants that the named ASSUMEs allow, from
nothing but these ASSUMEs.

**KcInterruptProofs.** `IInv` has three parts. `CtlInv`: the controller offers
exactly while it is idle with a source, has at most one, and that one is latched.
`CpuInv`: the place in the sequence decides M1, IORQ and the wait-state register.
`Joint`: what ties the two together, which TypeOK and the safety properties alone
do not give: a sampled offer that is withdrawn means the CPU is already in the
acknowledge, and before the two wait states are over the controller has noted
it. `CtlStep`, `CpuStep` and the step of `Joint` are proved action by action;
from `IInv` follow `TypeCorrect`, `AckVector`, `FreshSample`, and with it the
action properties `HighestGranted` and `NoRequestLost`; `Implementation` maps
each step to a step of InterruptService or a stutter.

Its second part adds the history of MCInterruptHistory: which source
still has a pulse to its credit, whether a service runs, how many instructions of
the interrupted program have been executed behind it. The three properties about
it are not inductive with `IInv`, because the two state machines meet on a line
that is a register itself: `RETI_n` is low one edge after the CPU has decoded the
instruction and one edge before it leaves it. `RetiInv` says when; with it
`ServiceInv` says in which states the controller can be during a service (before it
has seen the acknowledge, in `intAccepted`, or between both edges of RETI), `BehindInv`
why the controller is deaf for one instruction afterwards, and `CreditInv` that
every latched request has its own pulse, except the granted one, until it is
cleared. Proved: `HistoryInvariant`, `ServedOnce` (NoRetrigger), `NeverNested`
(NoNesting), `ProgramGetsOn` (ProgramAdvances).

**CtcProofs.** `IInv` says that an access begins when every channel has settled
(`state = nextState`), that once it has been taken the channel would take it the
same way again (`ProgNext(bus.cs) = prog[bus.cs]`), that counters are loaded
whenever they run, and that the divider is below one tick. Proved: `TypeCorrect`,
`Loaded`, `SingleTicks` (a tick of kcSysClk lasts one clock for any ratio of at
least two), `SinglePulse` (a request lasts one clock, so the controller does not
latch it a second time; it has no run of its own), `Implementation`.

The second part is about the period. A period is a product, prescaler times time constant, of which
no single state shows more than the two remainders. `TimerInv` says that there
are a phase q of the prescaler's tap and a number m of edges counted since the
load such that the stopwatch is exactly m whole periods of the tap and what q
stands for, while the counter shows the loaded constant less m; an edge on its way
through the edge detector belongs to m already. `CascadeInv` is the same for a
channel 3 that counts channel 2: a zero count of channel 2, its rise of zc_to and
the count of channel 3 are two edges apart, and no second zero count falls
between them unless the time constant is 1 (`Apart`), which is where the exception of
section 7 comes from. The prescaler wraps
around without a jump of the phase because both periods divide its range
(`PhaseStep`), for which `TapAssumption` is needed: the longer period is a multiple
of the shorter. Proved:
`PeriodInvariant`, `PeriodIsExact` (ExactPeriod).

**PioProofs.** For the programming the same idea; an acknowledge suspends its port
while the other settles. For the requests `EInv` lines the record of the pins up with
the flip-flops: the shift register of a strobe holds its last four levels, and
irqCond the last two conditions, as soon as it has been clocked that often with the
lines that are monitored now. Proved: `TypeCorrect`, `Implementation`,
`EdgesInvariant`, `RequestPerEdge` (OneRequestPerEdge), `RequestPerStrobe`
(OneRequestPerStrobe).

**Ps2KeysProofs.** The run holds up to four keys; here their number and the set of
keys are arbitrary. NothingSticks and HeldKeysSeen speak of the moments between two
sequences of codes, so the invariant has to say what holds within one: what is
on belongs to a held key or to the one whose codes are being sent, what is held is
on unless it is that one or hidden by it (`Right`, `Sure`, `Perhaps`, `Suspects`),
and the prefixes are determined by the last two codes (`PrefixesAfter`). Print, Pause
and the keys with fake shifts are the reason for the details: Print sends a left shift
of its own, unless the real one is held when it is pressed, released or repeated;
Pause presses and releases Ctrl; and the codes of Insert, Delete or an arrow switch
off the shifts that are held when it goes down and on those that are held when it goes up,
which need not be the same, so a shift that is held is certain only while no such
key is (`Seen`), and behind the last of them because its own codes bring it back
(`Restoring`).
What a key types follows from it: with one character key held only the cell of this key
is on (`OneKey`), so besides the shift at most one of the moves is made, whatever
the others would undo (`MadeFor`, `OneMove`); the cells left after it are compared with both
legends key by key (`KeyLegible`), and a scan finds just these (`Scanned`).
`MovesMade` shows that the recursive function in `tmpKeyMatrix` exists, by
adding one move after the other up to the last.
Proved: `KeysInvariant`, `NoKeySticks` (NothingSticks), `NoKeyMissed`
(HeldKeysSeen), `KeysTypeTheirLegend` (LegendTyped).

**Ps2FramesProofs.** Receiver and keyboard have no clock in common: the keyboard
changes a level any time between MinPhase and MaxPhase after the last change, and the
receiver answers it through a debounce register, three states and a timeout. The
invariant says where the receiver is as a function of the age of the level: while
nothing comes (`QuietInv`, at rest soon after, and its timeout run down before Resync
is over), in each half of each bit of a clean frame (`LowInv`, `HighInv`), between
the end of the frame and its report (`PendingInv`), and behind it (`SettledInv`,
which allows the one phantom bit from the receiver's own hold of the clock). `Stored`
and `Taken` say what the first k bits of a frame have left in the shift register, the
parity, the code and the error. For any code, number of bits, debounce length and
times within `ResyncAssumption`, which says of them what the receiver needs: a level
outlasts the debounce register by two clocks, the timeout a level, and half of it,
during which the clock is held, the debounce register. Proved: `FramesInvariant`,
`CleanFrames` (CleanFrameReported), `OnlyFrames` (OnlyFramesReported).

**UartBoardsProofs.** The receiver has only the falling edge of the start bit to find
nine further bits by, with a clock that is not the sender's. `E` is the time since the
far board's frame began, `U(k)` the time of that frame of which the sample in the last place
of rxInShift is when k bits are taken; while the receiver is in the frame that is
being sent (`Inside`) they are always four apart. The difficulty is that the two ends of a
frame differ: a far board that is fast is done with a frame before the last bit is
sampled, and may have begun the next one (`Over`, `Behind`); with a slow one it is
the receiver that is done first (`Ahead`) and has to wait for the edge of the next
without taking anything else for it (`Early`, `Rising`). `Remaining` is the time to the
next complete byte: it runs down by one clock at most, and starts anew with
a whole frame of the far board, which gives readchar its time (`ReaderInv`).
`BoardsAssumption`: a bit is longer than the input register, every sample falls into its
bit, and readchar's read and clear take no longer than a frame. The constants of the
run meet the last of these far from equality; the code does too (a frame lasts 4340 clocks).
Proved: `BoardsInvariant`, `BytesArrive` (TakenBytesArrive), `OnlyLatePolling`
(LostOnlyByLatePolling).

**SdDiskProofs.** Kinds of cards, sizes and numbers of sectors, the rounds a card
needs, the tries of the driver and the number of resets are arbitrary. Two things are
assumed of the card and the driver's constants, `WaitsAssumption`: ten dummy bytes
are what a card wants to be woken with, and its answer comes within two bytes less than
the attempts at it, eight of ten; and `SdDiskAssumption` says that the size and the
numbers of sectors fit into the four bytes of an argument, and so do their byte addresses
unless all cards are of high capacity. `IInv` has a disjunct for each place the driver
can be at (`Phase`). In each the rest of the script is known by how many of its accesses
are done (`Rest`), and with that how much of the packet the card has got (`Heard`,
`Sent`), how many bytes it still lets pass before its answer (`Pending`), or which bytes
of its reply are left (`Listening`); between an access that writes and the next one that waits
the byte may be over or not, which is why each of them has two forms, with the SPI
master busy and with it free. The attempts suffice because in `Pending` the attempts
left always exceed the bytes left, by two if the attempt under way is one that may still be
lost behind the last byte of the packet, by one otherwise. What the driver knows of the card
after each command, before and after the card has executed it, are `Before` and
`After`; the lemmas `Executes...` show for each command that the card's execution leads from one to
the other with the answer (`Answers`) the driver then decides by, and for it that the
bytes of an argument, taken together again by the card, are the number they
were made of (`NumberOf`). `Waiting` counts
the rounds of initialisation: those that are over are those the card no longer needs,
so a driver that gives up has met a card that needs as many. A reset may
come anywhere and leaves the card as it is: the dummy bytes, with the card
deselected, are what makes it forget (`Deselected`). The proof does not look at what the bytes
of a sector are. Proved: `Invariant`, `TypeCorrect`, `Recognises` (CardRecognised),
`Reads` (ReadsWhatWasAsked), `Fails` (FailsForReason), `Leaves` (LeavesNothing).

**MonitorProofs.** The base of the digits, the sizes of shift register and memory,
the faults, and all that a host may send are arbitrary; `MonitorAssumption` wants no
more than that the cells tested are addresses. `TestInv`: there is a run of states
of the shift register, as long as the memory, which the writer is at the end of and
the reader somewhere in, and sound cells hold the low bytes of its states; so a
cell found wrong is a faulty one, in every round and from any start. `LineInv`:
while the host streams at most one character waits to be put out, longer answers
come to commands only, behind which the host has nothing more to send, and a
character that waits in the buffer while another is transmitted is the one that
could arrive in that time. Proved: `MonitorInvariant`, `NothingOverwritten` (KeepsUp),
`TestIsRight` (NoFalseAlarm).

Its second part is about what is stored. A line has three parts, one handled, one character in the
receive buffer, one still with the host. `RecordInv` says for records, addresses
and typed bytes what state, digit count, memPtr and the bytes in memory are after
each number of handled characters (`Handled`, `InRecord`); for lines that broke
off it says only what is left of them: two newlines, behind which the monitor is
settled whatever the digits before were (`EndInv`). `HalfRead` is how a first
digit waits for the second one while the older ones are shifted out of dataVal.
`HostAssumption`: a record has no more bytes than two digits count. Proved:
`RecordInvariant`, `EveryRecordLands` (RecordsLand).

Only model-checked, and why:

- the liveness properties RequestServed, MainAdvances, KeepsCounting, Recovers,
  FaultsReported and Returns: liveness under fairness is out of the prover's reach;
- MenuShowsPage, OsComplete and LoadsProgram: Pff and SdMenu follow chains of
  clusters and take directories apart with recursive operators, which the prover
  does not take.

## 7. What the work brought to light

- *A colon does not start a record* (monitor.c 131-141, finding `monitor_sync`):
  the count of digits n is reset neither by ':' nor by the end of a line. After a
  line with an odd number of digits, say because one was lost, every later
  record is read half a byte off and its data is stored elsewhere; nothing is
  reported, since no checksum is looked at. After an address that broke off
  behind its second digit n runs on to 255 before it means anything again. Only `t`
  sets it.
- *The memory test cannot tell the first cell from the last.* The sequence of
  bytes has the period 2^15 - 1 and the memory tested 2^15 cells, so these two hold
  the same byte in every round, and a memory in which they are one cell passes
  (`FirstIsLast` is left out of `FaultsReported`). The word Ok at the end of a round
  is printed whatever the round has reported.
- *An upload ends at address 0*: the record of type 1 at the end of a file sets the
  address like any other, so the `r` that `make upload` sends starts there, which is
  what its comment, "reset", means.
- *The strobe register filters nothing* (pio_port.vhd 76-83 and 123): the comment
  says debouncing, but the interrupt fires on the last two stages alone, so a
  strobe high for one clock raises a request. In this build the strobes are tied high.
- *Time constant 1 stops the cascade.* zc_to falls at a count that is not the
  last; with constant 1 every count is, so zc_to of channel 2 stays high and
  channel 3 counts nothing. No document forbids or promises it.
- *The first count after a choice of source may be short*: changing the source
  while its level is high looks like an edge.
- *An old edge in the PIO*: irqCond stands still while a port is disabled or in
  another mode, so an edge sampled just before raises a request when the port is
  enabled again. A reset leaves irqCtrl and irqMask as they are.
- *The keyboard must be quiet for maxTimeout + 2 clocks* (about 100 us) between
  two frames; PS/2 lets it send 50 us after the clock is released. A frame that
  comes earlier is read one bit off and reported as an error or as another code,
  and ps2kc does not look at the error line.
- *Shift is not seen while Insert, Delete or an arrow is held* (ps2kc.vhd 120-121):
  such a key sends E0 F0 12 or E0 F0 59 before its code if a shift key is held, and 12
  and 59 are taken with and without E0. So Shift with Insert types INS, not DEL, and
  a character typed meanwhile is the one without shift. The key's own break brings the
  shift back. `HeldKeysSeen` says so; `LegendTyped` is about the shift that has been
  taken, not about the key that is held.
- *Delete and Backspace share a cell* of the matrix: releasing one releases both.
- *rcv_spi's first byte may not be clocked* (section 4); the comment "10 attempts"
  in mmcbbp.c means at least nine.
- *A byte is sent once because the exchange outlasts the write*: spi.vhd takes a
  write on every edge on which nothing is being sent. A write lasts one T-state, 20
  or 21 clocks outside of turbo mode, in which main mounts the card, and an exchange
  16 * (divider + 1), which is 48 with the divider 2 that disk_initialize leaves. With
  divider 0 every byte would be sent twice there. Spi takes this for granted.
- *A full directory does not end* (pff.c 478 and 1099, finding `full_directory`):
  if the last slot of the last cluster, or of a static root, holds an entry,
  dir_next reports the end after it has moved to the next sector, and pf_readdir
  drops the report. The next page shows slot 15 of sectors that do not belong to
  the directory. The directories of `sd_menu` have a free slot, or a deleted
  entry, behind their last entry.
- *A first block that is cut short is taken* (sdcard.c 118 has `||` where a
  complete block calls for `&&`): of a BASIC program whose first block cannot be
  read the bytes left in the buffer are copied. `LoadsProgram` leaves this out.
- *B and Esc start what is not there*: B starts BASIC with the end address of the
  last file looked at, loaded or not, and Esc enters the system even if none was
  loaded, for which the key left in KEYBU at a reset is enough.
- *Backspace in the root directory may never end* (sdcard.c 467): the loop counts a
  `char` down to below zero. If char is unsigned, as it is by default in newer
  versions of SDCC, it wipes its own memory for ever (`Backspace` in SdMenu has
  both outcomes).
- *Names with a blank inside or a first character 0xE5* are shown in a form that
  create_name does not lead back to their slot; the names in `sd_menu` have
  neither.
- *A service routine that returns with RET* instead of RETI leaves the controller
  waiting: no interrupt is offered until a reset. All routines here use RETI.
- *The CRC of a block is skipped*: a card pulled out while it sends reads as a
  block of 255 with RES_OK.

## 8. Not modelled

Of the PS/2 keyboard: the forms that Print takes with the right shift, Ctrl or Alt.
Of the boot program: screen output, key D, the sizes of the path and file name
buffers, and the values of the fields of a boot record (they are given decoded).
Of the memory map: address decoding, which is combinational; the boot ROM over the
RAM is present only as the bit of the system control port that shows it. Of the
serial monitor: what it prints, and the time its own instructions take, which
`Arrive` takes to be shorter than a frame (10 bits at 115200 baud, 4340 clocks in
turbo mode, in which the monitor runs). The serial boot ROM unpacks the
same images with a third-party routine.

Left out for good: the arithmetic and the rest of the microcode of the T80
(third-party code taken over), the video counters, which run freely and wait for
nobody, the SRAM's analogue timing, the generated PLL and ROM tables, combinational
displays, modules outside the build (intcontroller.vhd, rs232tx.vhd, tape.vhd), the
test benches and the older Spartan 3 port. Bit timing of the SPI master and the
delay loops of the driver, which take no step here, are abstracted.
