# A verification model of BetterCP/M

BetterCP/M is a CP/M 2.2 compatible operating system in Z80 assembly language.
This directory holds TLA+ modules that model its core, TLC configurations that
check them on small instances, and proofs of theorems about them for TLAPS.
Source paths below are relative to the repository.

The system that runs is the assembly language under `src`. The Python in the
repository builds it, qualifies it on an emulator and prototypes file formats; it
is no part of the running system and is not modelled (section 7).

## 1. The system

BetterCP/M runs one program at a time. There are no threads; what makes it hard
is that state lives in very few bytes and is shared by everything: one cached
directory record, one allocation vector and one drive context for all drives,
one private stack, one FCB for every loader. A call may leave by a long jump
(`UB_RETA`, `BIO_WBOOT`) from any depth and whatever it has left in those bytes
is what the next call finds. Between two calls the program and the operator do
what they like: they keep FCBs, change drives, exchange discs, stop without
closing anything.

| Component | Source | State | Operations | What is hard |
| --- | --- | --- | --- | --- |
| Unified BDOS: files and records | `src/bdos/unified.mac` 736-2300 | directories and data of the discs, allocation vector, the callers' FCBs | Open, Close, Make, Delete, Rename, Attributes, Size, Search, Read/Write sequential and random, zero fill | FCBs survive drive changes that rebuild the vector; calls fail half way through rollover; the FCB carries private state (clean bit, EX inside a group) that programs can bring out of step |
| Unified BDOS: directory cache and protection | `src/bdos/unified.mac` 40-90, 560-830, 2305-2570 | cached record, dirty bit, context, login and read-only vectors, checksums | login, load, flush, checksum, protect, reset, Bad Sector dialogue | disc changes, failed transfers, long jumps with a changed record in the cache |
| Unified BDOS: console | `src/bdos/unified.mac` 125-560 | column, pause and printer toggles, one character of look-ahead | functions 1-11 | look-ahead against ^S, ^C and ^P |
| BIOS core | `src/bios/bios.mac`, `tables.mac` | host buffer of 1K, selected drive, DPHs | the CP/M BIOS vector | every record write reads its sector first, in the same buffer |
| BIOS disk engine | `src/bios/disk.mac` | head position, polarity of the buffer | map, seek, read, write | three attempts; the buffer is inverted during a write and must come back |
| Disk configuration | `src/bios/config.mac` | drive profiles, DPBs, CPX table | F181 requests, F176 | all or nothing validation before the commit |
| Gateway | `src/system/gateway.mac` | extension control block, page zero | cold and warm boot | a warm boot calls the BDOS it was called from |
| Command reloader, carriers | `src/system/command-stage1.mac`, `command-stage2.mac`, `fileload.mac` | CPX table, chain being built | load CCP and CPXs | failure in the middle of the chain |
| Extension dispatcher | `src/system/extens.mac` | active loader | F176-F183, F200, F201, command loading | an aborted load must give the caller's context back |
| RSX lifecycle manager | `src/system/rsxplan.mac`, `rsxsched.mac`, `rsxmover.mac`, `r3comit.mac`, `r3pst.mac` | chain of resident images, generation | plan, schedule, move, commit | images move over each other within the memory they share, and nothing can be undone once the first byte has moved |
| RSX preparation, carriers and cache | `src/system/r3entry.mac`, `r3coord.mac`, `r3prof.mac`, `r3drop.mac`, `r3keep.mac`, `r3kpre.mac`, `r3final.mac`, `r3carr.mac`, `r3cache.mac` | carrier files on A0, snapshots in scratch memory | load, unload, retire, reclaim files | which files are in use is known only from the footers of the images in memory; a disk error or ^C at any call |
| RSXs | `src/rsx/` | private | BDOS filters and services | BATCHIO input stream |
| CCP | `src/ccp/ccp.mac` | history ring, SUBMIT stream on disc, startup command | command loop, line editor | the stream survives a warm boot per command |
| CPX/RCP commands, codecs, archives, utilities | `src/cpx`, `src/codec`, `src/archive`, `src/utilities` | none that others share | applications | |
| Platforms | `src/platform` | hardware | drivers, boot | |
| Tools and tests | `tools`, `tests` | host side | build and conformance | |

Interaction is by calls downwards (program, RSX chain, gateway, BDOS, BIOS) and
by shared memory: the CCP and the loaders share `LY_FCB`, the BDOS and the BIOS
share the directory buffer, all drives share the allocation vector. The only
upward flows are the warm boot and the Bad Sector dialogue.

What makes each component correct:

- files and records: a file is a set of numbered records; no block has two
  owners; what was published stays; a call that fails takes nothing away;
- directory cache: a directory changes only where the call in progress says so,
  and only on the disc that was read; nothing changed is left behind;
- console: no character is lost or duplicated by look-ahead;
- disk engine: the caller's buffer is as it was after every outcome of a write;
- RSX manager: a change takes effect as a whole or not at all; every image
  arrives whole, and its pointers point where they did; a module's carrier stays
  as long as the module, or no later change could be prepared;
- CCP and BATCHIO: every line of a command stream is delivered at most once, in
  order, and none after the code has given up its batch; a program that has
  chosen a transfer address finds it unchanged.

## 2. The modules

| Module | Models |
| --- | --- |
| `FilePosition` | The arithmetic of record numbers, extents, extent groups and allocation maps, with all sizes as constants. |
| `RecordBytes` | The same arithmetic as the Z80 code does it, in bytes with carries, at full width, as a machine that steps, seeks and calls function 36. |
| `FileServices` | The file services over several drives: one action per public call. |
| `RecordFiles` | What they promise: files as sets of numbered records. |
| `FileServicesRefine` | The refinement mapping from the first to the second, and the properties that read both. |
| `DirectoryCache` | The directory cache, login, checksums, protection and warm boot: one action per stretch of code between two transfers. |
| `SteadyDiscs` | The same with one fact about the past: whether discs have been exchanged at all. |
| `DiskEngine` | Records in the host buffer, and the floppy engine under it: one action per controller command. |
| `RecordDisc` | What it promises: a disc of records, of which a call changes one. |
| `ResidentCommit` | The disk-free half of a profile change: validation, scheduling, moving word by word, copying, relinking, publishing. |
| `CarrierCache` | The carrier files on A0 and the worker that reserves, finds and reclaims them. |
| `ResidentChange` | The whole change, composed of the two: request, cleaning, planning, preparation, commit, return; disk errors and ^C on the way. |
| `ResidentProfile` | What it promises: a list of modules with private contents that changes in one step. |
| `CommandStream` | Batches: SUBMIT, the command loop, warm boots, XSUB and BATCHIO, with the operator's keys and resets. |
| `CancelledBatches` | The same with a history of three events that should end a batch and do not (section 4). |
| `MCFiles`, `MCDirectory`, `MCSteady`, `MCDisk`, `MCResident`, `MCCommands`, `MCCancelled` | Constants, views and symmetry for TLC. |
| `*_proofs` | Theorems about `FilePosition`, `RecordBytes`, `FileServices`, `DirectoryCache`, `DiskEngine`, `ResidentCommit`, `ResidentChange` and `CommandStream`. |

`FileServices` extends `FilePosition`; `RecordBytes` instantiates it with the
widths of the code, which ties the small sizes TLC uses to the real ones.
`DirectoryCache` stands beside `FileServices`: it opens up the calls that the
latter takes as atomic, and keeps of a directory entry only a name and a
version. `DiskEngine` opens up one transfer of `DirectoryCache` in turn.
`ResidentChange` extends `CarrierCache`, which extends `ResidentCommit`, and the
commit's own specification `CommitSpec`, with arbitrary sound requests, is the one
that is proved about first; that the composition only ever hands it such requests
(`PlansAreSound`) is what carries those proofs over to whole changes.

Operators whose comment begins with "Mistake" are not part of the models. Each is
a plausible error in the code of the definition after it, and puts to the test
that the properties would notice.

### FileServices and the code

An operator of the model stands for the routine whose label its comment names.
The part of the state a routine works on travels through them as a record `m`;
`code` and `quit` of `m` are the carry result of a routine and the long jump to
`UB_RETA`. A public call picks the FCB and the drive (`Start`), runs the
composition, and stores the result (`Finish`). The position of a file is EX, S2
and CR; the clean bit is bit 7 of S2; the map holds one element per block. `out`
is what the last call has returned, with the record that a read has delivered or
a write was given, so that the refinement ties the contents of the files to the
calls: `RecordFiles` stores the record given, and delivers the record stored.
Random numbers have three bytes, and the code refuses those whose third byte is
not zero, although sequential calls make files of up to 262144 records; that
limit, 65536 in the code, is `RandomEnd`, and the records of a file from it on are
reached by sequential calls only. What is left out: user numbers, attributes and
wildcards, Search First and Next, the DMA address, the order of bytes in an entry.

Programs: a file has at most one FCB in use; Delete, Rename, Open and Make are
called for files without one. The code does not check this and its documents
leave it to programs. With `Cautious = TRUE` programs also avoid two sequences
that the code gets wrong (section 4): they reopen a file after a random call
that failed to activate its extent, and close before they read on into the next
extent. With `FALSE` they do as they please.

### DirectoryCache and the code

`pc` says which scan of the directory is under way, `pos` is the iterator
(`UB_ITPOS`), `todo` the BDOS calls a warm boot still has to make. `Fill` and
`Flush` are the two transfers; each of them may fail, and then the operator
ignores the error or answers ^C. Discs are exchanged only between two calls.
The checksum of a record is taken to be injective; the real one is a sum
modulo 256, and collisions are outside the model. Data transfers do not appear:
the code makes no check before them that could be modelled. `SteadyDiscs` adds
one bit about the past, whether discs have been exchanged at all, for the property
that holds only while they have not.

### DiskEngine and the code

`pc` follows `DC_IO`, `DC_RETRY`, `DC_PHYS`, `DC_SEEK` and the transfer; `last`
and `lastCyl` are `DC_LAST` and `DC_LASTCYL`, `track` is the controller's track
register, `head` where the heads really are, `buf` the host buffer `BIO_PHYBF`.
`Call` and `Deliver` are `BIOREAD` and `BIOWRITE`, which read a sector before they
write a record of it. A step may lose its way, a seek may report an error, a
transfer may fail or time out; each of these is a fault, and the faults of a call
are counted for `FailureNeedsFaults` only. The controller is external code: after
a failed read the buffer holds a damaged sector, a failed write may or may not
have destroyed the sector on the disc. A protected disc asks for no data at all,
so that the wait for a data request may run out before the status with the
protection bit is looked at; both outcomes are modelled. `Slots` are the records
of a sector. `DC_MAP`'s arithmetic, formatting (`DC_FORMAT`) and raw transfers
(`DC_RAW`) are not modelled.

### The resident modules and the code

Memory is a function from addresses to words, one address for each word that
matters. A module's image has two chain words that the loader owns, the offset of
its descriptors (which end the allocation), one pointer into itself, data, and a
footer with the number of its cache file and the checksum of its carrier.

`ResidentCommit`: `Check` is the validation of `R3COMIT` (`RC_VLOOP` and what it
calls), one record per step; `Schedule` is `RSXSCHED`; `MoveCell` moves one word
as `RSXMOVER` does, upward moves from the end and downward moves from the
beginning; `Repair` relocates its pointers; `CopySnapshot`, `Link` and
`Publish` are the rest of `R3COMIT` and `R3PST`. `slots` of a record is the list
of its pointer slots. It is looked at twice: `Schedule` refuses a list that does
not fit the scratch memory (`Room`) before anything moves; `MoveCell` checks the
order and range of a list as `RM_VLOOP` does, when the turn of its image comes. If
it refuses (`RM_BAD`), the images moved before stay where they were moved to and
nothing links them: from the first move on there is a way out, but none back, in
the code as in the model. `SlotsSound` is what `RSXSLOTS` makes and the mover
accepts; `PlansAreSound` says that the preparation never hands over anything else.
A slot is two bytes of the image and an address of the model stands for one word,
so that `o \in Pointers(r)` needs no second address.

`CarrierCache`: `files` says of each cache file whether it is missing, someone
else's, empty (made but not closed), or a carrier, whole or cut short. The worker
knows which files are in use only by walking the chain in memory (`Walk`), as
`ISLIVE` does, with the assumption about the entry's place that the code makes.

`ResidentChange`: the stages are those of a request. `clean` and `sweep` are the
two calls of `CLEAN`; `reserve` is `R3COORD` with `RESERVE`; `scan` reads the
headers (`PF_SCAN`, `RD_SCAN`) and ends in the planner (`RPL_ENTRY`); `keep` is
`R3KEEP` and `R3KPRE`; then `RF_BOUND` and the commit. A disk call may fail at
any of them, or the operator may answer ^C, which abandons the change in a warm
boot and may leave an empty file behind. Between changes the modules work: they
write their data and set their pointer. The user may build another version of a
carrier at any time. What is left out: how a name becomes a request (`rsxresol`),
how lists of pointer slots are validated and merged (`rsxslots`; an image of the
model has one pointer, so that there is one list to take over), the loading of
overlays, byte formats.

### CommandStream and the code

The file `A0:$$$.SUB` is its batch, its number of records and the record count of
its directory entry, which is what the command processor takes lines by. `pc`
follows `CCP_READLN` and the `CS_` routines, SUBMIT's `SU_` routines, a program
that asks for lines with function 10, and BATCHIO's handling of such a call.
`active` is `CCP_SUBACTIVE` in page zero; it survives warm boots and after a cold
boot it is whatever memory held. `con` is the keyboard with BDOS's one-character
look-ahead, through which every output may take a key or end in a warm boot.
`Reset` is a cold boot at any time. Calls on the file may fail, and then report
the error or are aborted. `Code` is what the processor does by itself, `Users`
what programs, the operator and the power supply do when they like. The history
variables `got`, `lost` and `cancelled` say which line was delivered last, how many
were lost since, and which batches the code has given up. `cancelled` follows the
code: ^C in the echo of a line, a cold boot and a command file that does not fit
are not in it, because the code goes on with the batch after each of them, against
its own comments and the manual. `CancelledBatches` records these three by
themselves, for the run that shows what becomes of their batches.

## 3. What the runs show

| Run | Question | Distinct states |
| --- | --- | --- |
| `record_bytes` | Do stepping, function 36 and random decoding agree on all 262144 records of the largest file? (full width) | 524 294 |
| `two_drives` | Two drives with an open file each, whose extents share directory entries in pairs: can the shared vector give a block two owners, or a block that only an FCB knows? | 109 965 |
| `records` | Two files on a disc, with sequential and random calls, function 40 and Rename mixed, and disc and directory filling up in the middle of a call: sets of records with the contents that were written; random transfers touch only the record they name; nothing published is lost; no failed write lengthens a file. | 43 744 |
| `swaps` | The operator exchanges discs between any two calls, transfers fail and are aborted: no directory is damaged by an entry nobody named, nothing half done is left for a later call, Delete and Rename reach every entry of a name, and control comes back although transfers are aborted and protected drives end calls in warm boots. | 1 675 466 |
| `swap_drives` | Two drives share the cache, and their discs change places: no record is overwritten that the drive has not seen, and while they have not, no drive is protected for nothing. | 3 435 984 |
| `disk_engine` | Do buffer, head position and disc come back right after steps, seeks and transfers that fail, on drives with inverted data and renumbered tracks, and does it take three faults to fail a call? | 522 463 |
| `resident_change` | Modules are loaded, unloaded and retired while carriers are rebuilt and a disk call fails: is every change all or nothing, and does everything stay that later changes need? | 371 080 |
| `command_stream` | Batches run through warm boots, resets, keys and failing calls: does every line run at most once, in order and not after the code has given up its batch, and does every batch end? | 593 824 |
| `stale_fcb`, `kept_dirty`, `cold_kept`, `cancelled_batch` | Four runs that end in a violation: places where the code does not do what its documents say; see section 4. | |

Bounds.

- Files: in `records` two files of up to two extents of four records, in blocks of
  two, share a drive with a directory of two entries and two data blocks. The
  directory is full when a file goes into its second extent or both files exist,
  the disc when two blocks are taken, so that either can come first and in the
  middle of a call; Rename succeeds and fails. One random number lies beyond
  `RandomEnd` but within the file, and sequential calls reach that record. Two
  records have names of their own: what was written, and what function 40 and a
  format leave. `two_drives` has two files on one drive and one on another, enough
  for the shared vector to be rebuilt for another drive and back while two files
  of a drive compete for blocks, and EXM = 1, so that extents share entries and
  maps; there an extent is one record and one block. `stale_fcb` is one file whose
  programs are not cautious.
- Directory: two records with one entry each make every pass replace the cached
  record; `kept_dirty` needs two entries in one record. Two discs are enough for
  the disc in a drive to be another one. In the runs a transfer that fails is
  aborted. The model also has the operator who ignores it; a lost read or write
  then falsifies `OnlyNamedEntriesChange` and `PassesAreComplete`, as it must, while
  `TypeOK`, `IdleIsClean` and `ControlReturns` go on to hold (`MCDirectorySwaps.cfg`
  with these three, `Names = {"a"}` and `Answers = {"abort", "ignore"}`: 801 668
  states).
- Disk engine: one drive with inverted data, one with inverted data and a
  protected disc, one whose track IDs are not the cylinder numbers; three
  cylinders, so that a seek can miss in both directions; two calls, so that the
  second meets what the first has left (another drive's position, a lost one).
  `CHECK_DEADLOCK FALSE`, only because `MaxCalls` bounds the calls; an engine that
  hangs within a call would violate `CallsReturn`.
- Resident modules: three names of 6, 7 or 6 (by version) and 8 words in 20, so
  that all three fit only with the smaller version, and moves are shorter than
  the image moved, which then overlaps itself; four cache files, one of which is
  someone else's, for three modules; one failing call. In the whole change modules
  only move upward: a load adds below the others, a removal lets those below it
  move up, and no retained module changes its size. That a request may move images
  down, which the scheduler and the mover provide for, is covered by the proofs.
- Batches: three, one that feeds a program, one that submits another batch, one
  with a command file that does not fit and a command that does not exist; three
  failures, keys and resets together. `cancelled_batch` needs only one batch, one
  key and one reset.

Values are two where contents matter and one where only ownership does. The views
`WithoutResult` and `LiveState` hide what no later step reads before it is
overwritten: the result of the last call, a buffer no longer valid, the plan of a
change that has ended. `records` takes its two file names as symmetric; it has no
liveness property, and no definition tells the names apart. No other run uses
symmetry.

Except for `disk_engine` no run turns off the deadlock check: in every state some
call is possible.

Fairness. `DirectoryCache` assumes weak fairness of the steps of the code
(`Code`): the processor keeps running. `DiskEngine` assumes it of `Engine`: every
wait for the controller has a bound. `CommandStream` assumes it of `Code`, the steps
of the command processor, SUBMIT, BATCHIO and the boots. Nothing is assumed of
`Users`: a program need not end, nor ask for another line, and the operator need
not finish one. That is why `StreamEnds` has two outcomes: the stream is empty
again and again, or from some time on the machine waits for a program or for a
line (`Waiting`). It also rests on the failures being finitely many (`MaxEvents`):
if every close and every delete of the stream failed, the command loop would read
the same line, fail to take it, fail to delete the stream and prompt again
forever. That a Bad Sector prompt is answered is part of the step that fails. The
other modules have only safety properties.

## 4. Where code and documents differ

Shown by runs:

- `stale_fcb`: after a random call that found no extent (for example a read
  beyond the end) the FCB names the target extent but holds count and map of the
  old one. The next random call to the same extent believes it is there
  (`UB_RVALID`) and transfers the wrong record with result 0.
- `kept_dirty`: Delete or Rename stopped by a read-only entry leaves entries it
  has already changed in the cache, marked changed; a later call writes them to
  whatever disc is in the drive.
- `cold_kept`: for a resident `COLD_ONLY` module `KP_ENTRY` skips the call that
  notes its entry, and `RC_VLOOP` refuses every record without one: every later
  change that keeps the module is refused.
- `cancelled_batch`: three events should end a batch, and a line of it is delivered
  after each of them. ^C while a command is echoed is taken by the echo itself and
  ends in a warm boot; that command is lost, and the batch goes on
  (`ccp.mac` 511-515 and the manual,
  `docs/manuals/Command-and-Utilities-Reference.md`:7969, say that it is cancelled).
  A command file that is too large ends in a warm boot too, after which the batch
  goes on (`ccp.mac`:126 says that a bad command aborts the whole stream). A cold
  boot goes on with whatever batch it finds (the manual, line 7980, says that it
  does not). The property asks only that at least one of the three ends its
  batches, so that one behaviour shows all three; the other runs do not count
  these batches as given up.

Met while modelling, each reproduced with the constants given, but without a run
of its own:

- Reading on sequentially out of an extent with unclosed random writes forgets
  its new record count, because `UB_NEXTEX` closes only when it is called to
  write (`Cautious = FALSE`). Closing an FCB that has gone back to an earlier
  extent of its group (EXM > 0) ends the file there.
- A module may have its entry later than offset 8 (`r3carr.mac` 156-168;
  `docs/programmers/BETTERCPM-API.md`:261), but `ADVANCE` and `ISLIVE` of
  `r3cache.mac` take the entry's offset to be 8. The walk then misses the modules
  below, and their files are reclaimed (`EntryAt <- LaterEntries` in
  `MCResident.cfg` violates `LiveCarriersKept`).
- A batch of more than 128 commands fills a second extent; the command processor
  opens the first only (`Extent = 2` in `MCCommands.cfg` violates
  `LinesInOrder`). The manual's line 7966 bounds a batch by the bytes of its
  commands only.
- A stream whose Delete fails stays, and the batch goes on if its lines can be read
  later; `cancelled` counts a batch only when its file is gone.
- Function 13 does not tell BATCHIO, which later restores the address selected
  before (`batchio.mac` 102-104 promises the program's). An idle BATCHIO retires at
  the function 0 of the SUBMIT that has just written a new batch. `AddressKept`
  excludes the first: after function 13 a program wants no particular address.

The passing runs exclude the first file sequence by `Cautious`; the second needs
EXM > 0, and `two_drives`, the passing run with EXM > 0, does not ask for record
counts; `kept_dirty` needs a read-only entry beside another of the same call, and
the passing runs of the directory have no read-only file.

## 5. What is proved

`RecordBytes_proofs`: the byte arithmetic is exact for every set of seeks
(`TypeCorrect`, `PositionExact`, `RandomExact`). The invariant says that the
position fields are in range and denote the record meant, and that a reported
random record is the conversion of the current position. Two lemmas carry it:
`ExtRecExact`, the carries add up, and `DecodeExact`, shifts and masks invert
the conversion.

`FilePosition_proofs`: for every geometry the BIOS accepts, decoding a record
number inverts the conversion (`DecodeExact`), counts and indexes stay in range,
and two records of one extent group, which share an entry and its map, never have
the same place (`OneRecordPerPlace`). Products and quotients of variables are beyond linear
arithmetic, so the module begins with the few facts about them it needs
(`DivMod`, `Monotone`, `QuotientBelow`).

`FileServices_proofs`: for every geometry and any number of drives, files, entries
and blocks, and programs that are cautious (section 2), the five invariants of
`two_drives` hold in every state: `TypeCorrect`, `BlocksHaveOneOwner`,
`VectorIsSafe`, `OpenFilesKeepTheirBlocks`, `ExtentsAreUnique`. They hold each
other up, so that only their conjunction `IInv` is inductive: a block taken from
the vector is nobody's because the vector covers the directory; the vector may be
rebuilt because every block an FCB knows is in the directory; the FCB's entry is
the one that a call publishes to because there is only one of its extent group.
Each routine has a lemma over the record `m` of the call (`Sound`, `Bound`,
`Keeps`, `Stays`), the calls compose them, and `FinishSafe` carries the result
back to the state of all drives. In these five `Cautious` is needed for
`OpenMapsPublished` alone: the FCB of `stale_fcb` has no entry.

Two action properties need no more than `IInv`. `RandomAddressed`: the way to a
record ends at its extent (`PositionThere`), and no transfer leaves it.
`FailedWritesKeepSize`: a write that fails has at most closed the FCB (`Closes`),
because an extent is made only while a block is free, and the one call that makes
an extent is also the one that would take the block (`Reaches`).

`RecordFilesImplemented` is the refinement: every step of the file services is a
step of `RecordFiles` or changes nothing of it; `PublishedStay` comes with it. The
contents are part of it: `out` is mapped as it is, so that a write which stores
anything but the record given, or a read which delivers anything but the record
stored, is no step of `RecordFiles`; and a random call is refused exactly from
`RandomEnd` on or where there is no record. The lemmas of the routines follow each
record: whether it is `Saved`, so that a fresh Open would show it, and whether it is
`Seen` by the program, through its FCB where the FCB is. Reads and moves to other
extents leave both as they are, closing makes saved what is seen, a transfer changes
the one record addressed, and a new block was nobody's (`OwnedBlock`), so that it
shows nobody's record anew. Between calls this needs two facts that `IInv` does not
have, and `RInv` adds: an FCB counts no fewer records than its entry and as many if
it is clean (`CountsCurrent`), or closing it would take records away; and a file
that has an extent has its first (`FilesBegin`), or Make could find no entry of a
file that exists. Each call then has one lemma (`ReadRefined`, `WriteAtRefined`,
...). Both theorems assume `EXM = 0`, one extent in an entry, besides `Cautious`:
with more, closing an FCB that has gone back ends the file there (section 4) and the
properties are false. What holds of records in that case is not stated anywhere.

`DirectoryCache_proofs`: for any drives, discs, names and directory sizes,
`TypeCorrect` without further assumptions; the next four assume that no name is
read-only, because of `kept_dirty`, and that a directory has more than one record.
`NothingLeftBehind` rests on `CleanInv`: a changed record exists only while a pass
or its flush is under way, or (`Refused`) after a write was refused because the
drive had become protected, and then only until the warm boot's login of drive A
replaces it. With a directory of a single record nothing would replace it, and
`IdleIsClean` is indeed violated; no disk format has such a directory.
`OnlyNamedChange` and `OnlyKnownOverwritten` also assume that the operator does
not ignore failed transfers, and the second that all records are checksummed.
They rest on `CacheInv`: the cached record is the one on the disc but for the
entries that the call names (`Near`), and its checksum is the one last taken.
`PassesComplete`, that Delete and Rename leave no entry of a name behind, rests on
`Seen`: what a pass has passed is done, where the cached record counts before the
disc, and neither a fill nor a flush changes that. `NoneProtectedForNothing` needs
none of this but that failures are not ignored; it rests on `SumsInv`: as long as
discs stay where they are, every checksum taken is that of the record on the disc,
or of the changed one in the cache.

`DiskEngine_proofs`: for any drives, requests and faults, `TypeCorrect`,
`BufferComesBack`, `PositionIsReal` and `ThreeFaults`, and `DiscImplemented`: the
engine implements `RecordDisc`. The invariant has four parts: what `pc` says of
position, of the count of attempts and of the data, and that the engine's
remembered cylinder is the head's while it is trusted. The mapping shows the
sectors through the polarity of the drive (`Logical`).

`ResidentCommit_proofs`: for every memory and every request that the planner can
make (`RequestSound`), `CommitTypes`, `NothingBeforeAllChecks`, `ImagesArrive`,
`ChainLeadsToCore` and `NothingElseChanges`. The lists of pointer slots are
arbitrary here. `NothingBeforeAllChecks` therefore says two things: what the commit
and the scheduler refuse has changed nothing, and what the mover refuses, after
other images may have moved, is a list that `RSXSLOTS` does not make
(`SlotsSound`). The invariant says of each image where it is: those already
moved are at their new place, the one in progress is there in part and the rest of
it is unharmed at the old place, those still to be moved are untouched. That no
move touches another image follows from the packing that the checks establish
(`Packed`) and from the order of the moves, in either direction; within an image
it is the order of words that saves the overlap.

`CommandStream_proofs`: for all batches, failures, keys and resets, `TypeCorrect`,
`AddressComesBack` and `NoneAfterGivingUp`, and `InOrder` for batches that fit into
one extent (`Fit`; section 4 shows that it is needed). Batches with commands that do
not exist or do not fit are included. `NoneAfterGivingUp` is about what the code
gives up; of the events of `CancelledBatches` it says nothing. `ControlInv` says
which file and which line belong to which `pc`; `QueueInv` that the record the file
is about to give is the line after the last one delivered or given up; `GoneInv`
that no file of a cancelled batch remains.

`ResidentChange_proofs`: for any modules, sizes, cache files and failures, the
invariants of `resident_change` (`ChangeTypes`, `PlanFeedsCommit`,
`PreparedIsAccepted`, `CarriersStay`, `NoSlotLost`), three properties of the commit
carried through whole changes (`ImagesStayWhole`, `ChangesStayInPlace`,
`ChangesLinkToCore`), `OrphansOnly`, and `ProfileImplemented`: a change of the
profile looks to everybody else like one step of `ResidentProfile`, of which only
`RunModule` and `Publish` are seen. `ChangeInv` follows a change through its stages:
between changes memory is a layout, which has a base, a version and a file for each
resident module (`Resident`); while the cache is cleaned (`Scanned`) and the change
planned (`Planned`, `Passed`, `Requested`) it stays that layout; then the commit's
own invariant holds, and its publication yields the next layout (`PublishChange`).
`PlanFeedsCommit` includes the lists of pointer slots, so that the mover's refusal
never happens in a whole change, and `ImagesStayWhole` and `ProfileImplemented` need
no assumption about it. `Regular` says that every module has its entry at offset 8,
as `r3cache.mac` assumes, and `Movable`, which only `PreparedIsAccepted` needs, that
none is `COLD_ONLY`; section 4 shows what happens otherwise. Where the planner walks
a list recursively, the proof takes the least place at which the claim fails
(`LeastNat`): the induction theorems of the library cannot be applied here.

The proofs assume of the constants what the modules' `ASSUME`s say, which TLC
evaluates on every run, and what the theorems name.

Model-checked only: liveness (`ControlReturns`, `StreamEnds`, `CallsReturn`), which
is out of the prover's reach. Every other property of a passing run is proved, under
the assumptions named here.

## 6. Plan

Done: the file services and their refinement, the directory cache, the disk engine
and its refinement, the change of the resident profile and its refinement, the
command stream. Worth doing next, in this order:

1. `FileServices`: a call abandoned between the publication of a block and its
   transfer; Search First and Next with the iterator that other calls overwrite;
   two FCBs on one file.
2. The command loader of `extens.mac` and the reloader: the CPX table, a chain of
   loads that fails in the middle, the resolver lost after ^C during its reload.
3. `DirectoryCache`: function 40, which clears blocks through the directory buffer.
4. `ConsoleInput`: look-ahead, ^S, ^C, ^P; abstract specification: a queue.
   `History`: the ring of the line editor.
5. The disk configuration service: validation before commit.

Theorems worth proving next: what remains of `RecordFiles` for `EXM > 0`, once it
is stated which calls on an earlier extent of an entry end a file; and the
properties of the modules to come.

## 7. Not modelled

- Console functions beyond look-ahead and ^C, the line editor, the resident
  commands and CPXs, disk configuration, the BIOS character devices and tables,
  the reloader and the extension dispatcher: modelling them is possible and
  planned as above.
- Data transfers after a disc was exchanged: the code makes no check before
  them, so there is nothing to say but that it does not.
- Byte formats of carriers, overlays and relocation tables, codecs, archives and
  the applications: their correctness is a matter of data and not of state.
- Device drivers and boot code of the platforms: hardware.
- The Python under `tools` and `tests`, which is host-side: it builds images,
  measures codecs and runs conformance tests under an emulator.
