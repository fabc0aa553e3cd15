# Specifications of Novo7Tools

Novo7Tools is a collection of programs for tablets with the Allwinner A10. Its
core is **allwindisk**: a tool on a host computer that loads a small program,
*diskboot*, into a tablet through its boot ROM (FEL), and then reads, writes and
exposes the tablet's NAND flash over USB. The flash driver, the USB device code
and the mass storage function inside diskboot are what can destroy data, run
concurrently with a host, and are hard to test on the device. The repository also
holds two versions of *boot.axf*, the stage that detects a charger, shows a boot
menu and offers the flash as a USB disk, and *adbd_emu*, a replacement for Android's
adbd. All of this is specified here in TLA+, model-checked with TLC, and in part
proved with TLAPS.

Contents: [inventory](#inventory), [modules](#modules), [runs](#runs),
[fairness](#fairness), [properties](#properties), [proofs](#proofs),
[deviations of the models](#deviations), [flaws of the code](#flaws-of-the-code),
[what is not modelled](#not-modelled), [plan](#plan).

## Inventory

The path of a sector, from top to bottom:

    allwindisk tool  --command protocol-->  main.c          host's mass storage driver
                                               |                     |
                                               |      masstorage.c <-+ (bulk-only transport)
                                               v            v
                          NAND_LogicRead/Write/CacheFlush (nand_for_uboot.c)
                          LML_Read/LML_Write + one-page write cache (logic_ctl.c)
                          logical block -> data block + log block (mapping_base.c, merge.c, bad_manage.c)
                          map tables in RAM and on flash (mapping.c), found or rebuilt at the start (nand_format.c)
                          super pages in banks and planes (nand_phy.c, nand_simple_*.c)
                          chips found at the start (nand_scan.c, nand_id.c)
                          registers of the NAND controller (nfc_r.c, nfc_w.c)

diskboot has one thread: `main_loop` polls the USB controller. Whatever arrives is
handled to its end, with blocking waits for the flash and for the host.

| component | state | operations | hard behaviours | what makes it correct |
|---|---|---|---|---|
| tool (`allwindisk.c`, `usbcomm.c`) | the command under way, bytes transferred | the subcommands, each a sequence of device commands: header, data, response, response data | device in an unknown phase at start | an answer belongs to its command; an acknowledged write is on the flash; every run ends |
| command layer (`main.c`) | `cur_cmd`, `cur_cmd_bytes_written`, `transfer_buffer`, exit request | `diskboot_rx_handler`, `dispatch_cmd` | tells header from data by counts only | as above; does not leave without trying to flush the caches |
| USB polling (`usbdcomm.c`) | interrupt registers, `deferred_rx` | `usbdcomm_poll`, transmission | packets between reading and clearing the registers; reset, suspend, disconnect | no packet forgotten |
| control endpoint (`usbdcomm.c`) | `udc`, `set_address` | the standard and class requests | the address is set a frame later; a reset in between; a host that gives up | the device has the address its host gave it; answers fit the request; every request ends |
| mass storage (`masstorage.c`) | `lun`, `cur_cmd`, `cur_cmd_bytes_written`, `masstorage_buffer` | `masstorage_rx_handler`, the SCSI commands, `masstorage_mount` | sizes of transport and command disagree; partition mounted between packets | in step with the host; truthful status, residue and sense; only the mounted partition changes |
| logic control (`logic_ctl.c`, `read_reclaim.c`) | `CachePage`, its buffer, the open write page | `LML_Read`, `LML_Write`, `LML_FlushPageCache`, `LML_ReadReclaim`, `LML_Init`, `LML_Exit` | unaligned ranges; failure and power loss in the middle of a call; reclaim borrows the cache's buffer | a disk: reads see the latest write, a flush is durable |
| block mapping, merge, bad blocks | data block, log block, page map, free blocks | `LML_PageWrite`, `LML_PageRead`, the swap, move and simple merge, `LML_BadBlkManage` | power loss between any two programs or erases; failing programs; banks | every page reads back; no block lost or used twice; ages tell generations apart |
| map caches (`mapping.c`) | four zone tables, four page maps, dirty flags | switch, post, write back, exit | a slot shared by several zones; failed fetch or write-back; power cut between dirty flag and tables | the slots hold what the flash holds; tables accepted at a start are current |
| start of the driver (`nand_format.c`) | the tables being filled, table blocks, free and bad blocks | search for saved tables, rebuild, choice of table blocks, distribution, writing, second try | power loss and failures in each of them | written blocks survive; saved tables agree with the flash and are found again; it ends |
| physical layer (`nand_phy.c`, `nand_simple_*.c`) | reference voltage levels, the pages of the chips | erase, program, read with retry, copy-back, boot areas | levels that stay set between reads; planes; writes of part of a block | what is stored is where it belongs; a readable page is read |
| chip identification (`nand_scan.c`, `nand_id.c`) | the board, the row found, chips and ready/busy lines | `SCN_AnalyzeNandSystem` | chips missing, mixed or unreadable | chips counted are there, of one kind, and reached by the banks |
| NAND controller (`nfc_r.c`, `nfc_w.c`) | ECC mode, page size, randomizer, DMA and repeat bits | reads and writes in three modes, erase, status | each wait may time out; registers changed for one command | registers are put back; a page decodes as it was written |
| memory allocator (`malloc.c`) | the area with its chunk headers | `malloc`, `free` | splitting and merging of twins | chunks tile the area, allocated ones do not overlap |
| boot.axf: charger (`power.c`, `usb_device.c`) | detection, its timers, interrupt masks | the detection, the interrupt of the power chip, timers | an interrupt at any point of the main program | no timer of a finished detection runs; the detection ends |
| boot.axf: menu (`bootmain.c`, `bootos.c`, `script.c`) | scripts, the choice, images in memory | script parsing, menu, loading | broken scripts; images that do not fit; a key or a timeout | the system chosen is the one started, wholly loaded; without a key one is started |
| original boot.axf: USB disk (`boot-axf-org/usb_device.c`) | transfer states, `intusb`, endpoints' FIFOs, one shared buffer | main loop, bus events, control requests, SCSI commands | interrupt handler and main loop share `intusb`; a transfer given up; requests between command and status | good statuses are true, tags match, commands are answered |
| adbd emulation (`adbd_emu.c`) | one shell, a reader thread, a mutex | packets of adb, thread cancellation | cancellation with the mutex held; the channel fails and is opened again | streams are not mixed up; handling goes on |
| FEL loader, eGON embedding | - | fixed request sequences, image layout | - | layout arithmetic |
| usbtest, Debian helpers, image dump, disassembler | - | - | - | - |

Components talk by calls (everything inside diskboot), by USB packets (host and
diskboot), and through shared state (`lun` is mounted by the command layer and
used by the mass storage function; the write cache is shared by both).

`PROJECT.json` lists every component with its status, the hazards at their lines,
and for each definition the source lines it stands for.

## Modules

| module | models | state and actions |
|---|---|---|
| `SectorDisk` | the abstract specification of the driver's sector interface | `disk` (what a read returns), `media` (what the flash holds), the pages under programming, one write call carried out page by page |
| `LogicCtl` | `logic_ctl.c`, `read_reclaim.c` | the page loop of `LML_Write` (`WriteHit`, `WriteEvict`, `WriteFull`, `WritePart`) and `LML_Read` (`ReadPage`, `ReadAtLimit`, `Reclaim`), flush and close, init, exit, `PowerCut`; the mapping `Disk == INSTANCE SectorDisk` is part of the module |
| `LogicCtlProofs` | - | theorems about `LogicCtl`, the refinement included, see [proofs](#proofs) |
| `LogBlock` | `mapping_base.c`, `merge.c`, `bad_manage.c`, the page map part of `mapping.c`, the repair of one logical block in `nand_format.c` | one logical block: the flash page by page, the tables in RAM, every program and erase a step, the bank a program is under way in, power cuts, scan and repair |
| `LogBlockProofs`, `LogBlockAccounts`, `LogBlockData` | - | theorems about `LogBlock`: types and the room after a merge; the roles of blocks, free blocks are erased; what the pages contain, now and after a rebuild, and the order of programs |
| `MapCache` | `mapping.c` | slots of zone tables and page maps with access counts, the tables on the flash in page groups, the dirty flag, programs, erases and reads that fail, `BMM_WriteBackAllMapTbl` at the exit, power cuts and starts |
| `MapCacheProofs` | - | theorems about `MapCache` |
| `ZoneTables` | `nand_format.c` | `flash` block by block, `die` (`__ScanDieInfo_t`), `pst` (the table blocks), `step`: the place in `FMT_FormatNand`; an action per step of the search, the rebuild, `_GetMapTblBlock`, `_DistributeFreeBlk`, `_WriteBlkMapTbl`; `PowerCut` |
| `NandPhy` | `nand_phy.c`, `nand_simple_r.c`, `nand_simple_w.c` | banks, planes and chips, the level of each chip's reference voltage and the driver's count of it; a read goes plane by plane and attempt by attempt |
| `BootArea` | the boot area functions of `nand_phy.c` | a write to a boot area: whole blocks read, merged, erased and programmed |
| `NandScan` | `nand_scan.c`, `NFC_GetId` | the search in the tables, the probing of the chip selects, the ready/busy mode |
| `NandController` | `nfc_r.c`, `nfc_w.c` and their single-page callers | `ctl`, the fields of the control and ECC registers; a page is the registers it was written with |
| `DiskBoot` | `allwindisk.c`, `usbcomm.c`, `main.c`, the polling of `usbdcomm.c` | tool runs as command sequences, endpoints with their FIFOs, interrupt registers, the snapshot the poll works with, deferred packets, the blocking response |
| `DiskBootProofs` | - | theorems about `DiskBoot` and `MassStorage`, and about both functions of diskboot together |
| `MassStorage` | `masstorage.c` | the logical unit, the command under way, the buffer, the disk; `RxCbw` and `RxData` are the two branches of `masstorage_rx_handler`, with `do_scsi_command`, `finish_reply` and `send_status` in the same step |
| `ControlEndpoint` | `usbdcomm.c`: `usbdcomm_poll_h`, the control requests, reset and resume | `udc`, the endpoint's packet and stall, the host's port with its enumeration |
| `UsbStorage` | `boot-axf-org/usb_device.c` | the main loop's place, transfer and endpoint states, `intusb` and the copy of it in a register, FIFOs, the host |
| `ChargeDetect` | `power.c`, `usb_device.c` of boot-axf | mask registers of the power chip, each access of which may fail, timers with their handlers, the main program step by step |
| `BootMenu` | `bootmain.c`, `bootos.c`, `script.c` | the lines of a script still to parse, the section the parser takes them for and the record they are written to, the menu, the images in memory |
| `AdbdEmu` | `adbd_emu.c` | the two threads' places, the mutex, the channel's stream packet by packet |
| `Malloc` | `malloc.c` | the words of the area, headers included |
| `ProgramsProofs`, `BootMenuProofs` | - | theorems about `ControlEndpoint`, `AdbdEmu`, `ChargeDetect`; about `BootMenu` |
| `MCLogicCtl`, `MCLogBlock`, `MCMapCache` | - | constants for TLC; MCLogicCtl and MCLogBlock also tell sound from worn flash |
| `MCDiskBoot`, `MCPrograms`, `MCDisks` | - | put components that share no state into one run each: a variable that never changes says which of them a behaviour is about |

Operators named in a comment `Mutant` are wrong variants of the definition beside
them. No specification uses them; each is known to violate the property it is listed
with in `PROJECT.json`.

Interfaces between the modules. `LogicCtl` sees the layer below as a volume of
logical pages whose reads and programs may fail, and whose programs end some time
after the call; `LogBlock` is that layer for one logical block, `MapCache` for the
choice of the zone and the log block, `NandPhy` under both. They are not composed:
what one guarantees (`ReadsBack`, `SurvivesPowerCut`, `Coherent`, `Placed`) is what
the one above assumes. `ZoneTables` starts from every state that a use ended by a
power cut can leave, and `MapCache` from tables that were found.

## Runs

Every run is `tlc -config X.cfg M`. All but `mapcache` allow the system to stop
(`CHECK_DEADLOCK FALSE`) because the number of calls, runs or commands is bounded;
`MapCache` can always be shut down and started again.

| run | bounds | shows |
|---|---|---|
| `logic_calls` | 2 sectors per page, 3 pages, 32-bit sums as 16. Sound flash: 2 calls of any range up to one sector beyond the volume; ageing flash: 3 calls of overlapping ranges, with `ECC_LIMIT` | `TypeOK`, `BufferInBounds`, `FlushIsDurable`, `ReclaimOwnsBuffer`, `ImplementsDisk`, `ReadsLatestIfSound`, `CallReturns` |
| `logic_ecc_limit` | the same | expected violation of `ReadsLatest` |
| `block_cuts` | 4 pages, 4 blocks, 5 writes, 2 power cuts | `SurvivesPowerCut`, `FreeBlocksUsable`: the second cut anywhere in the recovery from the first |
| `block_resume` | the same with 1 cut, 1 failing program, writes after the cut | `ReadsBack`, `BlocksAccounted` |
| `block_banks` | 6 pages in 2 banks, 5 blocks; 4 writes to sound flash, 4 to worn flash with 2 failing programs | `ReadsBack`, `BlocksAccounted`, `RoomAfterMerge`, `SoundSurvives`, `ProgramRules` |
| `block_worn` | 3 blocks, 4 writes, a failing program, a failing erase, a cut that may tear copies, too | `TypeOK`, `Returns` |
| `block_redo` | 7 writes, 1 failing program in a move merge | expected violation of `ReadsBack` |
| `mapcache` | 3 zones with 2 slots, 3 logical blocks with 2 log blocks and 2 slots of page maps, tables of 2 groups, 1 spare block, 4 accesses, 1 power cut, 1 failure; zones and blocks symmetric | `Coherent`, `AcceptedTrue`, `ExitSaves` |
| `diskboot` | 2 tool runs of every kind, 1 bus event, 1 mass storage packet between them; and 3 of 26 SCSI commands with 2 mounts of 3 partitions, 2 units per sector, 3 sectors | `AnswersOwnCommand`, `WritesStored`, `LeavesCleanly`, `InStep`, `ResidueTruthful`, `SenseExplains`, `VolumeKept`, `Ends`, `TypeOK` |
| `programs` | boot.axf's charger with 2 timers, 2 mask registers and 3 events, each an interrupt of the power chip or a failing access to it; 6 boot scripts, 10 system scripts, 2 images and 4 keys; adbd_emu with 4 packets, 2 outputs of the shell, 1 channel error; an area of 91 bytes with requests for 5 and 13; 6 control requests, 2 bus resets, 1 late answer | `DetectionSafe`, `BootsWhatIsChosen`, `LinksSound`, `AreaSound`, `Ends` |
| `disks` | 2 zones, 6 blocks (2 of them for tables), 4 slots, 2 failing operations, 1 power cut, every layout a use can leave; 2 SCSI commands with 1 event; 1 boot area write with every range of 4 blocks; 2 operations and 1 fault on 5 kinds of chips with 2 banks; 1 unreadable identification on 60 boards; 3 operations and 1 timeout on 3 settings of the controller | `DataKept`, `TablesSound`, `StatusTrue`, `FlashSound`, `Ends` |
| `boot_area` | 1 write of every range of 3 blocks | expected violation of `WriteExact` |

Why the bounds are enough for what the runs are after. A page of two sectors has
a head, a whole and a tail part; three pages have all three in one call; two calls make
one page cached and another one evict it, three add a flush or a reclaim. A log
block of four pages fills within five writes, so that each merge happens, and it is
cut in each of its steps; four blocks are data, log, merge target and one to spare. With
two banks and six pages the alignment skips pages, page 0 among them. Three zones
for two slots make a switch write a table back and fetch it again, and four accesses
do it twice. Six blocks are two tables, two data blocks and two that are free, bad,
unknown or unfinished copies; two failures hit the first and the second try. Two tool
runs are needed for what one leaves to the next. Three SCSI commands are failure,
repetition and REQUEST SENSE, or prevent, eject and access. Two commands to the disk
of the original boot.axf are a transfer given up and the next one. Three events are
plug, a failing access and unplug; two mask registers are one before and one behind the access
that fails. Two images are a script that fits and, with three segments, one that writes to the record
of `script_info` behind `images[16]`; the scripts have unknown sections, parameters before the
first section, a ninth system, sizes before and behind addresses, and lines that end the parser. Six requests are an enumeration with
a reset in the middle. Three operations of the controller are a write in one mode, an
operation in another one, and the read of what was written.

## Fairness

* `LogicCtl`, `LogBlock`: weak fairness of the driver's steps. It has one thread, and a
  call runs to its end. Calls and power cuts are not fair.
* `DiskBoot`: weak fairness of the tool and of the device, and strong fairness of
  `PollFrame`: the controller signals start of frame every 125 us on an active bus, so
  that a poll sees one again and again.
* `MassStorage`: weak fairness of the receive handler and of the host's transfer.
* `ControlEndpoint`: weak fairness of the polling main loop and of the host's end of a
  request. The host gives up a request only a bounded number of times.
* `ChargeDetect`: the main program, and a timer that is set expires. `BootMenu`: the
  menu's loop. `AdbdEmu`: the main thread, and the reader, whose shell always has output
  or ends.
* `ZoneTables`: the start of the driver, one thread. `UsbStorage`: the main loop, and
  a host that goes on with a transfer it began.
* `MapCache`, `NandPhy`, `NandScan`, `NandController`, `BootArea` and `Malloc`: none.
  `MapCache` is checked with symmetry, which leaves no room for liveness; its loops are
  over the slots and the pages of a table.

Bus events, interrupts, keys, resets, mounts, failures, new commands and power cuts are
never fair. In the modules that put several components into one run, fairness and
liveness are stated once for all of them, guarded by the variable that says which
component runs; as this variable never changes, this is the same as a formula for each.

## Properties

Many invariants are conjunctions of named parts, which the modules state and comment.

* `ImplementsDisk`: `LogicCtl` implements `SectorDisk`. A write call writes its
  sectors and no others, page by page; failures and power cuts affect no page but
  the one being programmed; what is lost by a power cut is exactly the write cache
  and the pages in flight.
* `ReadsLatestIfSound`: a read that returns 0 returns the cached sectors over the flash,
  as long as no page read reported `ECC_LIMIT` since the last flush. `FlushIsDurable`: after a flush that returned 0
  the cache is written out and the program of its page has ended; programs of other banks may still be under way,
  and `ImplementsDisk` says what a power cut does to them. `ReclaimOwnsBuffer`: `LML_ReadReclaim` finds the write
  cache's buffer empty.
* `SurvivesPowerCut` is stated at every state, not only after a cut: if the power
  failed now, the rebuild would give every finished page back. `SoundSurvives` is the
  same for two banks. `RoomAfterMerge` is the comment of `PMM_GetLogPage` about its
  second mode. `ProgramRules` is what the flash demands of its user. `Returns`: every
  operation and every start ends on a worn device.
* `Coherent` (`OneCopy`, `SlotsCurrent`, `MapsHaveZone`, `CurrentTables`): no table is in two
  slots, clean slots are what the flash holds, page maps belong to a zone that can
  find them, and the driver's layers agree on the zone in use. `AcceptedTrue`: whenever
  the power fails, tables that the next start would accept are those of the blocks on
  the flash. `ExitSaves`: after an exit without errors they are accepted.
* `DataKept`: a logical block that was written is complete in some block throughout the start
  of the driver. `TablesSound` (`TablesAgree`, `FoundAgain`, `NoBlockForgotten`): the tables
  saved name every block with its use, and the next start finds them.
* `Placed`, `ReadsAtSomeLevel`: no two super pages share a page of a chip, a read gives
  up only after every level of the reference voltage. `ChipsFound`: the row found fits
  the identification, the chips counted are of one kind and all reached by the banks.
  `RegistersKept`, `Decodes`: the controller's registers come back to what
  `PHY_ChangeMode` set, and a page decodes as it was written whatever kinds of pages
  are used in between. `RangeOnly`: a write to a boot area changes no other block.
  Together they are `FlashSound`.
* `AnswersOwnCommand`, `WritesStored` (`OkMeansStored`, `StoresWholeWrites`):
  see the comments in `DiskBoot.tla`; each takes steps of tool, bus and device to violate.
  `LeavesCleanly`: whatever ended `main_loop`, the page cache was written out or the device tried to
  (whether it succeeded nobody looks at, see the flaws), and a requested exit takes no mounted volume away.
* `InStep`: both sides of the bulk-only transport agree on what the next packet is,
  although the device knows only lengths. `ResidueTruthful`: the announced
  length minus `dCSWDataResidue` is the data that really reached the disk or
  came from it. `SenseExplains`: a failed command's sense data is there for REQUEST SENSE
  and gone afterwards. `VolumeKept` (`WithinVolume`, `MediumStays`): action properties about
  the disk and the unit that two actors, host and tool, use.
* `ControlSound` (`AddressOfHost`, `AddressSettles`, `EndpointsReady`, `AnswersFit`): the device's
  address is one its host gave it since the last bus reset, and is set before the next
  request; the bulk endpoints have the packet size of the speed; an answer is never longer than
  asked for. `StreamsSound` (`PacketsWhole`, `OutputToOwner`): the packets of two threads of
  adbd_emu do not mix, and no output of an old shell reaches a new login. Together
  `LinksSound`.
* `DetectionSafe` (`QuietWhenLeft`, `MasksRestored`, `TimersKnown`): no interrupt and no clock of the
  detection is on, and no timer armed, when a system takes over, whichever interrupts and failing
  accesses came; a mask register that was read has its value back unless the write of it failed.
  `BootsWhatIsChosen`: in a plain script every image is where its address and size say
  (`ImagesAtAddress`); in any script as many images are loaded as there are segments, or nothing
  is started (`StartsComplete`, but for the line that is too long); `MiscMatches`, `CursorInMenu`.
* `AreaSound` (`ChunksTile`,
  `BlocksApart`, `DeniedWhenFull`, `FreedIsWhole`), `StatusTrue` (`OkMeansMoved`, `TagsMatch`):
  stated at the end of their modules.
* `Ends` of each of the three combined modules: every run of the tool and every SCSI
  command ends (`RunEnds`, `StatusSent`); a detection ends, a system is started without a
  key, adbd_emu gets back to reading, every control request ends; the start of the driver
  ends, every command to the original boot.axf's disk is answered (`FormatEnds`, `Answered`).

## Proofs

TLC checks small instances; the theorems hold for every value of the constants that
satisfies the assumptions of the modules (`...Assumption`), which bound nothing: sizes
are positive, contents and commands are of their type, and what stands for "none" is not a
member of what it is told from. The bounds on calls, cuts and failures are constants,
too, so that the theorems hold for any number of them. Where a theorem assumes more, the
statement says so (`ASSUME ... PROVE Spec => ...`) and the reason is below.

Every proof has the same form: an inductive invariant, one lemma per action, one step
per conjunct that the action can disturb, and a temporal step. None of the properties is
inductive by itself. The invariants were checked with TLC first, on the runs' bounds.

### Sector interface: `LogicCtlProofs`

* `TypeCorrect`, `BuffersRespected`, `FlushDurable`, `ReclaimSafe`: the invariants
  of the run `logic_calls`. No assumption bounds a call to the volume: ranges that end
  beyond it are included.
* `ReadsHold`: `Spec => ReadsLatestIfSound`. A read returns the latest content of every
  sector, the cached one included.
* `DriverImplementsDisk`: `Spec => ImplementsDisk`, the refinement of `SectorDisk`.

The inductive invariant is `Inv == TypeOK /\ Consistent`. `TypeOK` alone is not
inductive: that a step of the page loop stays in its types needs that the loop
index is below the number of pages, that the sectors of a pass lie within the
call, and that the reclaimed page is a page of the volume; and that a flush
leaves nothing behind needs that the cache is empty where its buffer is
borrowed. `Consistent` says these things about the control state. `StepInv` has one
step per action. `ReadsHold` adds `Fresh`: the passes so far have delivered what a read sees
now, which holds because no pass changes the flash or the cache.

Under it lies the arithmetic of `_CalculateSectPar`. `HeadGap`, `PageCount` and `Passes`
show, for every page size, that the passes of the loop cover exactly the sectors of
the call, in order; `PassInBuffer` and `DeliveredIs` follow, and in the refinement `WrittenIs`:
what a pass writes is what `SectorDisk` writes to that page.

The refinement is shown step by step: `InitDisk`, and `StepDisk` with a lemma per
kind of step (`ProgramDisk`, `WriteBackDisk`, `AdvanceDisk`, `CloseDisk`, ...).

### One logical block: `LogBlockProofs`, `LogBlockAccounts`, `LogBlockData`

For every number of pages, banks and blocks, every load, and power cuts anywhere.

* `Types`, `RoomForTheWrite` (`RoomAfterMerge`). The invariant `TypeInv` adds to the types that
  every record under way names blocks and pages that exist (`BlocksNamed`, `PagesNamed`) and that
  a move merge is as far in the new block as the pages it has moved (`Moving`). That the binary
  search of `_GetLastUsedPage`, a recursive function over pairs, ends at a page that is in use is
  shown by a smallest counterexample (`Smallest`, from the well-founded order of finite sets).
* `NoBlockLost` (`BlocksAccounted`) and `NoWriteRefused` (`pc # "fail"`). The invariant
  `AccInv` gives every block exactly one role also inside an operation: free, bad, data, log, the
  block a merge fills, the one that replaces a bad block, or one waiting to be erased;
  says which block is being replaced, by where control goes on afterwards; and counts
  the failures against the bad blocks.
* `FreeBlocksReady` (`FreeBlocksUsable`). The invariant `UseInv` says that a block whose page 0
  carries no logical information holds nothing, which is what the rebuild relies on: page 0 is
  programmed first, and no program after it is under way when page 0 may still be torn.
* `PagesReadBack` (`ReadsBack`), as long as no program has failed and the power has not been cut
  (`Sound`). `ReadsBack` speaks of the states between calls; the invariant `DataInv` follows each
  page through the calls. Outside a merge a page is in the log page that names it last, or
  in its place in the data block (`WantKept`); the page map, cached or saved in the log
  block, finds that log page (`MapCached`, `MapSaved`); and behind `lastUsed` the log block is erased
  (`LogFilled`), without which a page found there could hide a newer one. In a merge
  `SwapHalf`, `SimpleHalf` and `MoveHalf` say what has been copied and that the rest is still where it
  was; in the move merge, which goes through the pages of a bank and fills one bank of the new
  block at a time, by the order `MoveRank` of the pages moved.
* `ProgrammedInOrder` (`ProgramRules`), up to the first power cut and with any number of failing
  programs. The invariant `RoomInv` names the pages still erased in every block being
  filled: the log block behind the last page in use, the target of each merge behind the page it
  copies, and the block that replaces a bad one, whose copy stops before the page that failed.
* `FirstCutSurvived` (`SurvivesPowerCut`), under `Sound` and `Heads`: no page 0 that only carries
  logical information has the age 0xaa, which would make it a page map page (the flaw at
  `mapping.c:394`). The rebuild is taken apart first. `FamilyFound` says what the
  scan makes of a data block, a log block and a block that a merge fills, in whatever order it
  meets them: ages one and two apart, or two blocks of one age of which one is fuller.
  `LastPageFound` says that the binary search ends at the last page in use if no page line
  before it is empty. The invariant `CutInv` says that the driver leaves the flash like this at every
  step: page lines in use up to `lastUsed` (`LogLines`), page maps only in the log block and true
  in its last page (`TableLast`, `Plain`), ages in a row (`Ages`), and during the erases
  of a merge old blocks that still hold what the new ones hold, as long as the scan prefers
  them (`Erasing`). After the first erase of a simple merge the scan takes the old log block for the
  data block and the merged one for its log block, in which it finds every page.

The last three stop at the first power cut. After it `lastUsed` is what the binary search of
`_GetLastUsedPage` finds, and that it is the last page in use depends on which pages the cut
has left torn in each bank; the runs `block_cuts`, `block_resume` and `block_banks` check that part.
`PagesReadBack` also stops at the first failing program: with one inside a move merge it is false,
the flaw at `merge.c:211` that `block_redo` shows.

They assume

* `MaxEraseFails = 0` (all but the first): a block whose erase fails is flagged bad and then put into the
  free table, the flaw at `merge.c:123`. It has two roles then, so that the theorem is
  false without the assumption;
* `EnoughSpares` (all but the first): three blocks remain beside those that are or turn bad, for
  the data block, the log block and the one a merge fills. The driver keeps 49 to
  105 of the 1024 blocks of a zone beside its data blocks (`FREE_BLK_CNT_OF_ZONE`), for 16 log
  blocks and one merge at a time. With fewer `_CreateNewLogBlk` gives up and the block stays
  as it is. The loads of `block_cuts`, `block_resume` and `block_banks` satisfy it, the last
  with no block to spare;
* `ErasesWhole` (`FreeBlocksReady`): a cut does not leave a block erased in one of its banks only, the
  flaw at `nand_format.c:1000`.

### Map tables: `MapCacheProofs`

For every number of zones, slots of both kinds, log blocks, pages and groups, with failures,
power cuts and starts.

* `SlotsCoherent` (`Coherent`), `AcceptedTablesTrue` (`AcceptedTrue`), `ExitSavesTables`
  (`ExitSaves`), all from `MapInvariance`.

`CtlInv` is about control: the slot in use is the one of the zone accessed, or the one
remembered while the page map of another zone is written back (`AccessAt`, `PageAt`); a table is
saved only when no page map of its zone is dirty (`SaveAt`); no zone and no log block
has two slots (`SlotsNamed`). `HoldInv` is about contents: the slots and the page map
tables are current (`VersHold`, `PagesHold`, `EntriesHold`); the groups of a table block
are used one after the other, and the last one is either valid and current or
flagged, unless its pages are being programmed (`TablesHold`, `GroupWritten`); and the same of
what is left when the device is off (`TablesLeft`). `AcceptedTrue` says nothing
about how far a group has been written, and so is not inductive: a cut that tears the
group's last page must leave one whose checksum does not hold. The bisection of the start finds the
last group because used groups come first (`SearchLast`, by the same kind of argument, for every number
of groups). Zones whose dirty flag could not be programmed (`mapping.c:981`) or whose
table carries an old checksum (`mapping.c:723`) are exceptions of the properties
themselves, as in the runs.

### Command protocol and mass storage: `DiskBootProofs`

For every packet size, number of packets buffered, set of tool runs, size of sectors, disk and buffer,
set of SCSI commands and partitions, and with bus events anywhere.

* `CommandTypes`, `OwnAnswers` (`AnswersOwnCommand`), `WritesHold` (`WritesStored`), `CleanExit`
  (`LeavesCleanly`, with a flush on the way out that may fail), from `CommandInvariance`. The device sees packets only; `CommandInv`
  follows the one command under way: its packets are in the endpoint or deferred, in order,
  its data is being collected, or its answer waits to be read, and in each phase the device's
  count is the one the host believes. `SafeEnds` carries the tool's mount check to
  the exit command that relies on it. These theorems assume `Interrupts = {}`, as the run does: no tool
  run is killed or hit by a bus reset inside a command. Without it they are false, the flaw at
  `main.c:250`. `ProgramsAssumption` says that a tool run asks `checkIsMounted` before it ends
  diskboot, as `allwindisk.c` does.
* `MassTypes`, `NeverOutOfStep` (`InStep`), `ResidueHolds` (`ResidueTruthful`), `SenseHolds`
  (`SenseExplains`), `VolumeHolds` (`VolumeKept`, an action property), from `MassInvariance`.
  `MassInv` says how far both sides have come with the one command: what the driver has sent
  is what the device has taken and what is in the queue (`DataFrom`), and whether a reply waits.
  The device tells command blocks from data by counting, so that `InStep` depends on both.
  `CommandsAssumption` keeps transfers above 16 MB out, the flaw at `masstorage.c:1122`.
* `FunctionsTogether`: all of these of the specification of the run `diskboot`, which has both
  functions; `TypeOK` of that run is its first conjunct.

### Control endpoint, adbd emulation, detection of the charger: `ProgramsProofs`

For every set of requests and addresses, streams, timers, and any number of bus resets, packets,
failures of the channel, interrupts and failing accesses to the power chip.

* `HostReadsWhatWasMeant` (`LinksSound`). For the control endpoint `ControlInv` follows an address
  from the request to the controller: where the device listens and which address it has noted,
  by what the host is doing (`AddressOnItsWay`), with what a bus reset leaves of it before the
  device has seen the reset (`ResetPending`). That the endpoints are ready follows from the order
  the host keeps, an address before a configuration (`SpeedKnown`). For adbd_emu `AdbdInv` says what
  each thread still has to do and in which order (`WellFormed`), that the holder of the mutex is the
  one between its lock and its unlock (`Excluded`), also when the reader was cancelled there, and that
  the channel expects a payload only of a thread about to send one (`Framed`). No login is opened
  or closed beside a reader (`ReaderJoined`), so that its stream is the one it sends to
  (`ReaderOfShell`).
* `NothingOfTheDetectionIsLeft` (`DetectionSafe`), for every number of mask registers and of timers,
  and whichever accesses to the power chip fail. `ChargeInv` has for every place of the main
  program the calls that can still come and what those behind it have switched off (`Planned`,
  `SwitchedOff`). `MasksKept` goes register by register: as long as every write of
  `boot_power_int_disable` was made, what is saved is never a mask of the detection, and one that has been
  read is back when the interrupt is given up. A timer belongs to a detection that is on, or to one answered within
  `usb_detect_enter`, which `usb_detect_exit` follows (`TimerOfDetection`, `LeftOn`); what is half
  set up when an interrupt comes is told apart by whether a handler has changed the detection inside a call
  (`HalfEntered`, `vbus.astray`), the exception of the properties themselves.

They assume `RequestsKnown` (the requests that `usbdcomm.c` tells apart, and none for data of no
length), `StreamNumbers` (adb counts its streams from 1; 0 is no stream in `shell_open`),
`TimerHandles` (0 is no timer, the test of `usb_detect_enter`) and `MaskRegisters` (there is one).

### Boot menu: `BootMenuProofs`

* `StartedAsTheScriptSays` (`BootsWhatIsChosen`), for all scripts, files, sizes and keys. `BootInv`
  says at every line what the parser has understood of the lines before it. For every script
  it has counted the segments, and has not written behind their records (`Parsed`). For a plain script
  `Understood` adds that the record of every segment has the address and the size
  given in its section (`ImageRead`), that it is in the section of the last line it knows (`InSection`),
  and that an address that names the end of its image waits for a size given later
  (`Waiting`, the flag of `script.c:254`). Behind it is that a parameter that places an image stands
  in the section that its segment begins (`ParamElsewhere`, `StartsBound`), so that what an unknown section does to the
  image before it stays out. The images in memory are a prefix of those (`ImagesLoaded`), also after a start
  that failed and came back to the menu, and misc belongs to the entry chosen (`Chosen`).

It assumes `ScriptsWritten`: lines are those that `GetScriptLine` tells apart, a parameter that takes a
number or a name has one, sections of boot.ini are systems, and there are at most 17
segments (the eighteenth lies over `segmentSectionCount` and the logo). `Plain` is not assumed of the
scripts: it is the condition of `ImagesAtAddress`, the part about addresses. It excludes what the parser does
otherwise than the script says, see the flaws (unknown sections with parameters of an image, more than 16
segments), and a section that gives `img_base` or `img_size` twice: of two the parser takes the last,
but the address of an image's end is worked out with the first size after it, and what such a
script means nothing says. `MemoryKnown`: files that can be opened are not empty.

### Only model-checked

* Liveness, which needs fairness and ENABLED: `CallReturns`, `Returns`, `Ends`.
* `AreaSound`: `malloc.c` is recursive, as are its chunks; what recursive operators compute for
  every input is out of the prover's reach.
* `SurvivesPowerCut` after a first power cut, whose torn pages the theorem does not
  follow, and after a failing program; `SoundSurvives`, which is `FirstCutSurvived` for loads without
  failing programs and without `Heads`, at ages that the run's few merges reach. `ReadsBack` and
  `ProgramRules` after a power cut, `ReadsBack` also after a failing program. The runs bound pages
  and failures such that the move merge that starts over (`merge.c:211`) does no harm.
* `DataKept`, `TablesSound`, `StatusTrue`, `FlashSound`: the modules of the run `disks`.

## Deviations

What the models leave out or simplify, beyond the bounds.

* **Everywhere.** Contents are model values or versions; junk is content that nobody
  wrote, as torn and failed programs leave it. Wording and logging are left out.
* **LogBlock** has the driver with pages aligned to banks (`SUPPORT_ALIGN_NAND_BNK`), as the
  configuration sets it. The rows of `nand_id.c` with the option 0x0400 (`NAND_PAGE_ADR_NO_SKIP`) switch it
  off; the branch of the move merge for them, which copies page by page (`merge.c:248`), their choice of log
  pages and the search for the last one (`nand_format.c:810`) are not modelled. It takes any free block where the code takes one by erase count, and lets
  the environment choose when the oldest of 16 log blocks is merged and when a page
  map is evicted, because those depend on other logical blocks.
* **MapCache.** Tables are versions. The bank alignment and the merges are one step each.
  Nothing is accessed after a switch that failed; the device is then shut down or loses
  its power. No power cut follows a failed operation (a bound). A start and the rebuild
  are one step.
* **ZoneTables.** One die whose zones start at block 0; a data block has a part only when a
  copy of it was cut. Log blocks and the choice by age are in LogBlock. An erase that
  fails and then succeeds when it is repeated is not modelled; the flag of a bad block
  is written with the failure that makes it bad. A table block is full or it is not,
  by the layout. The blocks reserved for booting are left out.
* **NandPhy.** An attempt of a read, an erase and a program of all planes are one step
  each. Reads of several planes at once and internal interleaving are switched off by the
  configuration and left out. The reads of spare bytes alone do not repeat with other
  levels here.
* **NandScan.** A few rows of each shape stand for the tables of `nand_id.c`.
* **NandController.** What a page decodes to is the registers it was written with.
  Commands, addresses and command lists are left out, and so is the test for the
  pattern of an erased page in the spare bytes.
  The status of the sectors that a read does not check may be that of an earlier read.
* **BootArea.** A call works on whole blocks of a few pages; the two areas have the same
  shape.
* **DiskBoot** counts data in units: a header is one, a packet is `PKT`. Units carry the
  command they belong to, so that a header taken for data is visible. Runs are
  interrupted between commands only (see the flaws). Nothing comes near the limit of
  16 MB.
* **MassStorage** counts data in units, too: `SECT` of them make a sector, so that
  transfers that end within a sector are included. The argument set `arg` stands for
  the bits of the command block that a command tests. `CommandsAssumption` keeps
  transfers above 16 MB out.
* **ControlEndpoint.** Requests for data of no length are left out. The host waits
  some frames after SET_ADDRESS, as hosts do. Reading and answering a request is one step.
* **UsbStorage.** The private mode is never started and left out. A bounded number of
  events on the bus.
* **Malloc.** An area as `malloc_init` makes it, in words; an area whose size is a power of
  two doubles it there, which the bounds avoid.
* **ChargeDetect.** Registers of the power chip that are read hold their value in the buffer up to the
  first access that fails; an access that fails changes nothing in the chip or the buffer. A failing
  access and an interrupt of the power chip count against the same bound. The two flags that
  `power_int_reg` clears and sets, and the masks it sets, are one step: its interrupt is off there.
* **BootMenu.** Lines are what `GetScriptLine` gives for lines that are not empty, with a value
  of the kind that the parameter has; the record written before the first image is never read.
  The mark of a first image is any of the values that the stack may have. Sections of
  boot.ini are systems.
* **ChargeDetect, BootMenu, AdbdEmu.** The display, the pictures and the contents of files
  and packets are left out.

## Flaws of the code

Where the code does not do what it says of itself, or what its callers rely on. The
runs that expect a violation show the first three. Properties that the others would
violate name the case as an exception, in their comment. They were found while
modelling, by changing the constants of a run, or by reading.

Driver, logical layer:

* `logic_ctl.c:1167`: on `ECC_LIMIT` the read path empties the write cache before
  it overlays the cached sectors; the caller gets the older sectors of the page
  (`logic_ecc_limit`).
* `merge.c:211`: a program failure in a move merge starts it over with a page map
  that is already rewritten for the pages moved before (`block_redo`).
* `nand_phy.c:1620`: a write to a boot area within one block reads the end of the
  block from a wrong place (`boot_area`). An `ECC_LIMIT` from a read, which is no
  error, makes reads and writes of the boot areas fail.
* `logic_ctl.c:1410`: `LML_Exit` goes on when the flush of the page cache fails, and `main.c:289`
  does not look at the result of `NAND_Exit` (`nand_for_uboot.c:343`): diskboot leaves, and data of
  the disk's last write or of mass storage is lost without a word. `Leave` of `DiskBoot` has this
  outcome (`dirty = "lost"`), and `LeavesCleanly` promises the attempt only.
* `logic_ctl.c:1236`: a write beyond the volume wedges the write cache: every later
  write to another page fails.
* `merge.c:406` with `nand_format.c:1217`: after a power cut between the two erases of a
  simple merge the old log block becomes the data block, and the next merge copies its
  pages under wrong numbers.
* `mapping.c:394`: a page without a logical page is taken for a page map page if its status is 0xaa.
  Page 0 of a log block that only carries logical information has the log age there, so that at age
  0xaa only the check sum tells it from a map; `mapping_base.c:594` programs it with whatever the
  temporary buffer holds, and zeros have the check sum of zeros. A start after a power cut that
  leaves it the last page in use may read a wrong page map.
* `merge.c:101`: a page copy that is torn by a power cut in a swap merge is found valid
  by the rebuild. `nand_format.c:1000`: a block that is erased in one bank only
  counts as free.
* `merge.c:123` and three like it: a block whose erase failed is flagged bad and
  then put into the free block table.
* `mapping.c:884`: a fetch of a zone's tables that fails leaves parts of it in the slot, under
  the number of the zone before; written back, they are accepted at the next start.
  `mapping.c:981`: the result of programming the dirty flag is ignored.
  `mapping.c:723`: a table written again after a failed program carries the checksum of
  the one before.
* `nand_format.c:1434`, `1436`: when a table block is made room for, the wrong zone is
  given up. `1370`/`1437` and `1729`: the number of free blocks is decremented twice,
  and the loop until 0 may wrap around. `1505`: in the second try the table
  blocks chosen in the first one are free blocks, and still the ones of their zones. `2030`: a table block that was flagged
  bad stays the table block of its zone.

Driver, physical layer:

* `nand_phy.c:1442`: `_multi_copy_back` addresses the page of the source's number in the
  destination. `nand_phy.c` joins the codes of several planes or steps by `|=`, which
  makes other codes of two.
* `nand_simple_r.c:398`: when `NFC_ReadRetry` fails, the driver's count is a level ahead
  of the chip. `read_retry_val` has 10 rows, the Samsung chips of type 0x200e04 take up to
  14 steps.
* `nfc_w.c`: `_read_in_page_mode_1K` and `_seq` return after a timeout without putting the
  ECC mode and the page size back: later pages are decoded with the wrong ones until
  `PHY_ChangeMode`. `set pagesize to 1K` ORs the code of 8K pages into the register.
  `_check_ecc(pagesize/1024)` after a read of one sector takes the status of sectors read
  before. The writes ignore the timeouts of the command phase.
* `nand_phy.c:140`, `216`: pages of the boot areas read with `ECC_LIMIT` are read again
  without the randomizer, and fail. `_read_single_page_spare` tests bytes of the spare
  buffer that nothing has written.
* `nfc_r.c`: the waits report a timeout when the condition comes true in the last
  round; `NFC_GetStatus` leaves the repeat mode on after a timeout; `NFC_GetId` reads 5
  of the 6 bytes compared.
* `nand_scan.c:401`, `404`: results are ignored, so that a chip select that cannot be read
  is compared by the bytes of the one before. `nand_scan.c:227`: the rows of `nand_id.c`
  with three known bytes are never found.

USB and mass storage:

* `main.c:250`: a tool run killed in the data of a write leaves the device in the data
  phase; the next run's header becomes data of that write. With `Interrupts = {"kill"}`
  the run `diskboot` finds it.
* `masstorage.c:316`: SYNCHRONIZE CACHE and FUA writes pass without writing out the
  page cache of the driver. `masstorage.c:252`: a failed read counts as processed in the
  residue. `masstorage.c:1122`: a command that announces more than 16 MB is dropped
  without a status, and the next packet is taken for its data.
* `usbdcomm.c`: a refused SET_CONFIGURATION or SET_INTERFACE looks successful;
  the mass storage reset does nothing (709); lengths are kept in a byte; the address is
  set in the next frame, before the status stage may have ended.
  `usbc_dev.c:895`: `USBC_Dev_IsEpStall` always returns 0, and a stall of endpoint 0 is
  never cleared by `usbdcomm_resume`.
* `boot-axf-org/usb_device.c`: one buffer for control requests and the command in
  progress (1661), an endpoint state kept after a read that was given up (651), bits of
  `intusb` cleared that the interrupt handler has just set (1749).

Other programs:

* `adbd_emu.c:224`: a cancelled reader thread can take the send mutex with it.
* `script.c:322`: a line that is too long ends the parser with the result of the line before.
  `script.c:221`: there is no branch for an unknown section, which leaves the parser in the section
  before it: its `img_base` and `img_size` move the last image. `section` and `adjustBaseAddr` are
  not initialised: parameters before the first section are written to the record of `script_info`, or
  before the first image. Segments are not counted against `images[16]`: the seventeenth is
  the record of `script_info` (`bootos.h:23`), the eighteenth lies over `segmentSectionCount` and
  the logo, later ones on the stack of the caller.
  `ImagesAtAddress` is about scripts in which none of this moves an image of a segment (`Plain`).
  A text where a number is expected leaves the parser with the signs of an earlier line, and a name that is a
  number is copied with four times that number as its length. `GetScriptLine` joins an empty line
  to the next one and reads on behind a last line of one byte.
  `script.c:409`: without `start_os_name` the empty name matches the first unused entry of the
  table of systems.
* `power.c:54`, `66`, `81`: the masks are saved, set and restored one after the other up to the first access
  that fails, and lines 155 and 164 do not look at the result: masks that were never
  saved are restored as zeros, and those behind a failing write not at all. `power.c:128`: nor does
  the handler look at the result of the query, and goes by bytes of its stack. An interrupt or a removal seen
  there while the main program is inside `usb_detect_enter` or `usb_detect_exit` leaves a timer.
  `MasksRestored`, `QuietWhenLeft` and `TimersKnown` except exactly these (`saved`, `failed`, `astray`).
  `power.c:132`, `usb_device.c:1917`: handles of timers are overwritten, until boot1 has none.
* `egon.c`: fills the size rounded up instead of the rest of the last sector, past the
  buffer for large images. `fel.c`: the result of the first part is overwritten by that
  of the second, and a read error ends the loop like the end of the file.

## Not modelled

* Register access (`usbc.c`, `usbc_dev.c`), DMA channels, clocks, pins and DRAM timing,
  formatting and library functions: hardware access or data without state. What the
  controller does is in the environment actions of the models.
* `wear_levelling.c` is compiled out by the configuration, `logic_cache.c` is not built.
  Most of `nand_for_uboot.c` (bad block scan, erase of a chip, version check: lines 367-1133)
  is under `#if 0`.
* `fel.c` and `egon.c`: a fixed sequence of requests to the boot ROM, and the layout of
  an image; DiskBoot has loading as one step and the write of the image as a disk write.
* `usbtest`, and the USB device code of boot-axf that nothing calls (`usb_start`,
  `usb_run`), are copies of code that is modelled elsewhere. The menu and the loader
  of the original boot.axf are an earlier form of boot-axf's.
* `arm-dis` is GNU binutils code. Most of `fbprint.c`, `fbexec.c` and `fbecho.c` is
  a font; the rest draws it. `fastboot_img_dump.c` and the other Debian helpers are straight
  lines of system calls.

This leaves more than half of the repository's lines out: fonts about 14000, the
disassembler 5800, copies of modelled code about 10000, headers 8000, the rest
register definitions, accessors and tables.

## Plan

Done: the driver from the sector interface to the controller's registers, the start of
the driver, the command protocol, mass storage, the control endpoint, the disk and
the menu of boot.axf, adbd emulation, the allocator. Proved: the sector interface with its
refinement, the roles of blocks, the state of free ones, the contents of all up to the first
cut and what a rebuild would find there, the map caches, the command
protocol and mass storage, the control endpoint, adbd emulation, the detection of the
charger and the boot menu.

Left, in this order:

1. `LogBlock`: `CutInv` with the pages that a cut leaves torn, for `SurvivesPowerCut` at the second
   cut; with what the binary search then finds, `ReadsBack` and `ProgramRules` after a cut.
2. `UsbStorage`: `StatusTrue`. `NandController`: `RegistersKept`. `BootArea`: the part of
   `RangeOnly` about other blocks.
3. `ZoneTables`: `DataKept`.
