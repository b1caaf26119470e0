# sflasher in TLA+

sflasher flashes Samsung Swift phones over a serial line. A program on the PC,
the *host* (`src/src`), loads a small program, the *preloader*
(`src/preloader/src`), into the phone and then drives it: it dumps, erases and
programs the phone's NOR flash, and it builds and updates the TFS4 file system
in it. This directory holds TLA+ models of both programs, of the file system's
sectors and entries, and of the conversions in between, TLC configurations that check them on small
instances, and proofs that hold for every instance. Paths below are relative
to the repository's copy under `src/`; line numbers are those of `PROJECT.json`.

## 1. Inventory

### The parts and the state they keep

| Part | Code | State | Operations |
| --- | --- | --- | --- |
| Preloader loop | `preloader/src/main.c`, `preloader_start` | none between commands; the command being served; `block_buf` | 15 commands: opcode, status, operands, perhaps a checksum and ACK/NAK, work, perhaps EOT or data |
| Flash driver | `preloader/src/flash.c` | the chip: contents, block locks | erase block or chip, buffered program, program a word, lock, unlock, read, OTP |
| UARTs | `preloader/src/uart.c`, a tty on the host | bytes on the way | blocking read and write of a byte, flush of unread input |
| Host jobs | `src/main.c` | menu, the job's position, flags, files | ID, dump, OTP, BIN/TFS/CSC flashing, erase blocks, erase chip, reboot, baud rate |
| Sector allocation | `src/tfs.c`, `create_file`, `patch_start`, `flash_clean`, ... | `sect_tbl`, free list, `free_ctrl_sect`, `sect_marks`, the action list | create or update a file, invalidate the control, place and link the new one, clean blocks |
| Control codec | `src/tfs.c`, `parse_`, `build_ctrl_header`, `update_ctrl_sizes` | the raw control | parse, size, build |
| Control ordering | `src/tfs.c`, `tfs4_ctrl_fix_sect_order` | | put sectors read in numeric order into chain order |
| Entry table | `src/tfs.c`, `create_dir`, `add_entry`, part of `create_file` | tree of directory, file and common entries | add, find, update |
| Configuration parser | `src/tfs.c`, `cfg_next_command`, `tfs4_patch` | position, tables | parse, check MD5 and version |
| Boot | `src/main.c` 456-532, `src/ihex.c`, `start_kernel` | port, active UART | SYN, image as Intel HEX, ENQ/ACK |
| Image and binaries | `src/ihex.c`, `src/main.c` 794-940, 979-1003 | offset, upper half of the address; `blk_last`, `block_buf`; packed marks | write records, count and program blocks, pack and unpack marks |
| Change of speed | `src/main.c` 1246-1283, `uart_set_baud` | the two speeds | choose, send the divider, wait, switch |
| Menu | `src/menu.c`, `src/menu_layout.h` | selected entry, enabled entries | draw, move, choose |

Host and preloader share nothing but the line. The host sends an opcode and
waits for `PL_VALID`; sends the operands; then waits for ACK and EOT, for EOT,
for data, or for nothing, depending on the command. `tfs.c` and the host share
a list of sector actions (write, erase and write, mark) that `flash_tfs` sends
one after the other, and the array of sector marks. The phone's flash is the
only state that outlives a session, and the file system in it is the input of
the next CSC flash.

### What is hard

* The protocol has no framing. Opcode bytes and data bytes look alike, nothing
  resynchronizes the two sides, reads block for ever.
* Some commands complete without a reply (locks, unlocks, marks), and
  `SECT_WRITE` is acknowledged before the flash is touched. The host runs ahead
  of the phone; what keeps it from running further is the next command's
  `PL_VALID`.
* A page of NOR flash can be burnt once between two erases. Locked blocks
  ignore commands silently. Every sector write and mark locks its block again.
* A flash operation takes several steps, and power may fail between any two.
* The host ignores some failures and goes on.
* The free list is cut by three parties (files, control area, cleaning) in one
  patch and goes through an encoding that forgets what is in no list.
* The entry table is reused entry by entry, grows into memory that held another
  table, and is read as files where it holds none.
* Before the two programs can talk, stale SYNs and answers to them are under way;
  when they change their speed, four bytes must be through in a tenth of a second.

`PROJECT.json` lists these as hazards at the lines where they bite.

### What makes the parts correct

* Protocol: commands stay framed, no one waits for ever, at most one opcode
  waits at a busy preloader, a command the host takes for done is done.
* Flash operations: atomic but for crashes; no page is burnt twice; a half
  written sector does not look used; after a TFS flash the area is locked.
* Sector allocation: the free list is exact, what is free is blank as long as no
  `.csc` was cut before its first mark, all files of the control can be read,
  before and after a flash and after a flash that was cut short early enough; the
  words of a control read back.
* Entries: after every flash the volume has the directories and files that were
  listed, once each and with their data, and the lists of each directory are whole.
* Link: when a button can be pressed, the preloader is there and both ends have
  one speed; a download that can end does.
* Conversions: what arrives is what was sent, in its place, and nothing else is
  touched.

## 2. Modules

```
NorChip        the chip: pages, marks, locks, what programming and erasing do
  Commands     the command set and the three phases of a flash operation
    Wire       the two FIFO streams between host and device
      Preloader    the device: one action per step of preloader_start
    FlashJobs  what each menu entry sends: jobs, stages, commands
      FlashHost    the host: one action per read, write and decision (and Wire)
  FlashService the abstract service: whole commands, one after the other
FlashSession   Preloader + FlashHost, faults, users, the properties
  MCFlashSession       instances for TLC
  FlashSessionProofs   types, framing, who waits for what; the refinement of FlashService
    FlashDeliveryProofs  what the host takes for done is done
      FlashOutcomeProofs   the area locked again, the erased chip blank, pages whole,
                           marks on written sectors, controls replaced

SerialSpeed    the line before a speed is agreed on
  PhoneBoot    boot ROM, start_kernel, the BAUD command
  HostMenu     menus, download, choice of a speed
LinkSession    PhoneBoot + HostMenu, time, power cuts, the properties
  LinkSessionProofs    its three invariants proved

TfsTable       the sector table, the free list, cleaning, taking a block
  TfsCodec     the table as words of a control header, and back
  CtrlOrder    putting the control sectors of a phone in order
TfsSectors     TfsCodec + CtrlOrder: tfs4_patch and flash_tfs on sectors
  MCTfsSectors         instances for TLC
  TfsProofs    with TfsPointers: the free list in order, what it holds blank, links kept
    TfsCodecProofs     a header is read back as it was written, flash after flash
      TfsFilesProofs   files kept on the phone, control chains found in order

TfsConfig      the .cfg parser
TfsPointers    links between entries as words of a control header
  TfsEntries   the entry table: add_entry, create_dir, create_file
TfsTree        TfsConfig + TfsEntries: the volume across flashes
  MCTfsTree            .cfg files for TLC

IntelHex       create_ihex, and the boot ROM that loads what it writes
BinBlocks      a binary on the chip, word by word
MarksCodec     sector marks, four to a byte
Conversions    the three, and what each must preserve
  ConversionsProofs    its five invariants proved
```

### The session

*Tokens.* The line carries tokens, one for all the bytes a side writes in a
row: an opcode, the operands of a command, a status byte, a control symbol, a
block of data with its checksum. Noise makes an opcode unknown, a payload or
data fail its checksum.

*Device.* `dst` says where `preloader_start` is. `ReadOpcode` is the switch on
`uart_read8()`; `ReadOperands` and `ReadPayload` the operands without and with
a checksum; `WipeStep`, `BurnStep` and `StampStep` the three phases of a flash
operation: erase (or lock, or unlock), program all but the last buffer, program
the last buffer and lock again. `SECT_WRITE` goes through all three,
`MARK_SECT` is the last alone. A page is one sector: data and the mark byte at
its end.

*Host.* A job is a sequence of stages, a stage a sequence of commands; `si` and
`ci` say where the host is. `told`, `failed` and `skipped` record what it
reported, gave up and left out. A refused mark is skipped, a failed TFS or CSC
stage is ignored, as are failures to lock or unlock the whole chip; any other
failure ends the job. `StopLocally` stands for `q' at a block, files that
cannot be read, a patch that fails, and a control chain that cannot be ordered;
`Quit` for Ctrl-C at any point. After a hangup a read returns any reply at
all: the byte is uninitialized in the code.

*Jobs* come with the actions of their TFS and CSC stages fixed. A `.csc` starts
only on a phone whose control sectors are those its patch marks (`FromMarks`),
as `patch_start` goes through all the marks it was given. Where it writes is
another matter: `create_file` takes the free sectors the control lists and looks
at neither the page nor its mark, so nothing keeps a `.csc` off written pages.
`fitting` records whether every job so far was one that `Fits`, that is, writes
without an erase to blank pages only, or to pages that hold the same already.

*Faults*: `NoiseToDevice`, `NoiseToHost`, `Hangup`, `PowerCut`, and `Restart`,
which begins a new session with a freshly booted preloader and blocks all
locked or all unlocked.

### The link

*Line.* `txq` is the host's tty, `rx` what the phone has received, `back` what
the host has. A byte that goes over the line while the two ends differ in speed
arrives as junk; one that arrives at a phone that is off, or on a UART that is
disabled, is lost. The phone's answers arrive at once.

*Phone.* From `off`, `PowerOn` (the end key) leads to the boot ROM, which is
external: it answers SYN, takes one image and says `'0'` or an error. A SYN
that comes while it waits for the image may be answered or not. `StartKernel`,
`FindUart` and `KernelIgnores` are `start_kernel`; `cable` is the UART the host
is on. In the command loop there are `BAUD`, one other command for all those of
`FlashSession`, and the unknown. Junk may be an unknown command or any known one
(`astray`, where nothing is expected of the phone any more).

*Host.* `Download`, then `SendSyn`/`CheckSyn` until a SYN comes back,
`SendImage`, `ReadStatus`, `ReadEnq`. `loaded` is what enables the buttons;
`Toggle` and `FlashStart` are the three flags and the button that needs one of
them. `PickBaud`, `ReadBaudStatus` and `SetSpeed` change the speed. `Close` is
Ctrl-C anywhere or leaving the menu, `Reopen` the program started again.

*Time* passes only in `usleep(100000)` of the change of speed. A tick is the
time of a byte at 600 baud, of which 100 ms hold six; while the host sleeps,
`Tick` carries a byte per tick at the slow speed. At the fast speed all four
bytes of the divider are through at once. Elsewhere the two programs wait for
each other or for as long as it takes.

### The sectors

`TfsSectors` follows one `.tfs` or `.csc` after the other. `BeginTfs` and
`BeginCsc` set up what `patch_start` gets; `Store` is a turn of `create_file`'s
loop, `EndFile` the rest of it; `Invalidate`, `Place`, `Placed`, `Pop` and
`Seal` are `patch_start`; `NoSpace`, `Fragmented` and `NothingToPop` its
failures, before anything is sent. `Act` is one action of `flash_tfs`, with the
lock that makes a later erase in the same block ineffective. A page of the
phone (`cell`) is the set of all that was burnt into it since it was erased.
`disk` is what the control chain on the phone says: the words of the sector
table that `Encoded` wrote, which `BeginCsc` reads with `Decoded`, and the files.
`InOrder` runs `tfs4_ctrl_fix_sect_order` on the sectors that are marked.

The length of the control chain is chosen freely: it comes from the entries,
which are not here. `Rooms` is the room `ctrl_size` may leave for the words of
the table, given that length; a control for which it is too small is not
`whole`. Where the code indexes `sect_tbl` outside its bounds, or follows a list
that never ends or meets its block, the model stops in `lost`: the code does
nothing defined from there.

`hit` records which of these paths has been taken since the start:

| Path | Code |
| --- | --- |
| `clean` | `flash_clean` was called |
| `head` | the control area took the block at the head of the free list |
| `recycled` | `sect_marks` came back from `malloc` with control marks in it |
| `full` | the last free sector was taken when the control was sized or built |
| `stray` | the free block is in no list, or `free_ctrl_sect` is past the end |
| `empty` | a file that was there has been made empty, or was empty |
| `short` | a control without its end has been read |
| `cut` | a flash was cut short |
| `torn` | a `.csc` was, before its first mark: the old control is there, and some of the sectors it lists as free are written |
| `retry` | a `.csc` was flashed after that |

Properties name the paths under which they are claimed, so that each defect
found is isolated and all the rest is still checked.

Restrictions. A `.csc` begins only with a control chain that can be read; marks
of one that is not all there lead to data the code would parse as they come. A control chain is
at most a block long. Memory never runs out. `/a/tfsVersionCode.tfs` is a file
like the others.

### The files and directories

`TfsTree` is the same patch seen from the entries. `TfsConfig` reads a `.cfg`
line by line: one action per key and loop, one per refusal. `CreateDir`,
`CreateVersionCode` and `CreateFile` are the loops of `patch_start`, over
`create_dir` and `create_file` of `TfsEntries`, both built from `Located` (the
walk along a path, which looks at directories only for the one, and takes all
that is no directory for a file for the other) and `add_entry` (the first empty
entry, or a longer table; links to it removed). `Flash` stores the table through
`convert_from_ptr`, a `.csc` loads it through `convert_to_ptr`, and an empty
entry comes back holding whatever its memory held: nothing, or the table that
was freed last (`heap`). `PhoneRemoves` is the phone between two flashes.

`want` is the volume as the `.cfg` files describe it, computed from their lines
without tables or entries (`Meant`); it is what the properties compare with.
`Orderly` tells the `.cfg` files that describe a volume at all: counts before
their tables and right, directories before what is in them. `odd` and `ghost`
record a `.cfg` that is not, and an empty entry that was taken for a file.
`at = "lost"` is the code reading beyond a table, or an entry that is none.

### The conversions

`Conversions` runs one of three jobs on data in full. `IntelHex` writes records
and the ROM loads them as they come. `BinBlocks` counts the blocks of a binary,
then does for each what the host and `BLK_PROGRAM` do to the words of the chip;
`block_buf` keeps its words from block to block and from binary to binary.
`ToInt` is what `ftell`'s value goes through, a `uint32_t` and then the `int`
that the blocks are counted with: from 2 GiB on it is negative or too small.
`MarksCodec` packs on the phone and unpacks on the host.

## 3. Runs

`MCFlashSession` has three blocks of two pages, 1 and 2 being the TFS area, and
two contents. Two pages tell a control sector from a data sector in one block,
two TFS blocks tell a range from its last block, block 0 is the program. Jobs
cover every menu entry, with one or two commands of a kind in each loop. One
or two faults suffice: each leaves the session either recovered, which is a
state reached without it, or ended. At most two jobs and one restart. `power` has
three `.csc` jobs: two for the used phone, with the same sectors and other data,
so that one comes behind the other cut short, and one for what `TfsJob` leaves.

| Run | What it shows |
| --- | --- |
| `session` | every job, two in a row, on an empty and a used phone: `Delivered`, `ChipErased`, and `Serves`, the refinement of `FlashService` |
| `faults` | noise and hangup: `TypeOK`, `InStep`, `Framing`, `BusyBacklog`, `Delivered`, `LockedAfterTfs`, `Serves`, and `JobEnds` under fairness |
| `power` | power cuts and another session, damaged payloads, a `.csc` over what a `.tfs` or a cut `.csc` has left: `Delivered`, `NoMixedPage`, `MarkedIsWritten`, `ControlReplaced`, `Serves` |
| `sectors` | four flashes with power cuts: `SectorsTypeOK`, `FreeListSound`, `FreeIsBlank`, `FilesKept`, `ReadBack`, `Reorderable` |
| `patch` | three flashes and a removal: `TreeTypeOK`, `TreeRight`, `ListsSound`, `InTables` |
| `link` | download, commands, changes of speed: `LinkTypeOK`, `ReadyToTalk`, `Answered`, and `DownloadEnds`, `CommandEnds` under fairness |
| `image` | the conversions, with sizes over the range of an `int`: `ImageLoaded`, `FileBurned`, `OthersKept`, `RefusedRight`, `MarksArrive` |

`Delivered` is in three runs because it is another claim in each: with jobs that
follow each other, with noise, and with damage and power cuts between flash
operations. `ControlReplaced` and `ChipErased` are claimed without noise on an
opcode: with it they are false, as the host goes on after a mark or an unlock
that was refused (`main.c` 362, 1188) and reports the flash as done.

Some properties name what they leave out, because the code does not keep them
there:

* `NoMixedPage` is about phones on which every job so far fitted (`fitting`), and
  `FreeIsBlank` about areas in which no `.csc` was cut before its first mark
  (`torn`). Such a `.csc` leaves written sectors in the free list of the old
  control, and the next one burns over them (`tfs.c` 847). Both models take the
  path; `Delivered` then says what the pages hold, and `Serves`, `MarkedIsWritten`
  and `FreeListSound` hold on it too.
* `Delivered` is about jobs of which nothing failed and nothing was skipped.
  "Flashing complete!" behind a TFS flash that failed (`main.c` 951) is a hazard
  that no property covers.
* `FileBurned` is about files of less than half the range of an `int` (2 GiB), and
  `RefusedRight` asks for a refusal only of those. A longer file may go through,
  and "0 block(s) have been successfully reflashed" be reported of it.
* `ReadBack` compares the words as built with what is read from them. Whether all
  of them reach the phone (`whole`) is `ControlFits`, which the run `sizes` refutes.
* `TreeRight` and `ListsSound` are about volumes that only orderly `.cfg` files have
  built, and `InTables` about an orderly one, on such a volume if it is a `.csc`;
  all three leave out a flash in which an empty entry was taken for a file
  (`ghost`), and the volume it leaves.

*Bounds.*

* `sectors`: five blocks of three sectors, control chains of one to three, four
  flashes of one or two files. A file of seven sectors takes most of what a
  `.tfs` leaves to files, so the area runs full and every failure of a patch
  occurs; the chain fills its block and crosses into the next one both at the
  end of a patch and in the middle, and a `.csc` is flashed after either. Four
  flashes are enough to build an area, fill it, and flash twice more. Three
  sectors to a block are the least with a sector that is neither first nor last.
  The violation runs on sectors use the same area and at most as many flashes.
* `patch`: a table that grows by three entries instead of twenty, so that it
  grows in the middle of a pair of entries; a volume with a directory in a
  directory and a file in each, one that adds to it and repeats a file, one
  without either, and eleven `.cfg` files that are wrong in one way each. Three
  flashes: one to build, one to free a table, one that gets it back.
* `link`: one power cut and one further run of the program, since each ends in a
  state of the start or in one nothing is claimed of. Two unanswered SYNs are on
  their way at most: one that is answered and one that is stale.
* `image`: segments of 8 bytes and records of 4, images of 1 to 18 bytes that
  begin at the first or second record of a segment; two large blocks of four words and
  two small ones of two, a buffer of two words, two binaries
  one after the other, from every block on, the whole chip being 24 bytes: of 0 to
  26 bytes, and of sizes about one half, one and one and a half times an `int`'s
  range of 64; eight marks, each of four values. As in the program, records divide a segment,
  buffers the small blocks, and those the large ones.

Deadlock is not checked: sessions end, and the number of jobs, flashes and runs
is bounded (`MaxJobs`, `MaxFaults`, `MaxSessions`, `MaxPatches`, `MaxFlashes`,
`MaxRemovals`, `MaxCuts`, `MaxRuns`, `MaxFlashings`).

*Fairness.* `FairSpec` of `FlashSession`, which the run `faults` uses, asks weak
fairness of the host as a whole and of the device as a whole: both are
sequential programs that run whenever they are not waiting for a byte. The user
and the faults are not fair. No byte is lost in this model but by hangup, after
which reads return; with a byte lost on a line that stays up the code does wait
for ever, as its reads have no timeout.

`FairSpec` of `LinkSession` adds that the line carries what is on it, that time
passes, and that the user presses the end key when the program asks for it and
waits. Nothing makes the user choose an entry, leave, or cut the power.
`DownloadEnds` is about a phone that is off when the host begins to call, and
`CommandEnds` about a phone that has not lost power since it was loaded: neither
program has a timeout.

### Disagreements found

Five runs end in a counterexample, each against a comment or the README of the
repository:

| Run | Property | The code |
| --- | --- | --- |
| `clean` | `ErasedWhenAsked` | `SECT_WRITE` erases before it unlocks; a block written or marked in the same flash is locked, and not erased |
| `dirty` | `CleanKeeps` | any sector marked 0 makes a block dirty, and every file's sectors are |
| `reflash` | `Reflashable` | a chain that ends at the end of a block has no link there, `tfs4_ctrl_fix_sect_order` wants one, and no `.csc` can be flashed from then on |
| `empty` | `EmptyKeeps` | a file updated to be empty gets the first free sector as its own, which the next file takes; another update of it takes that sector out of the other file's list |
| `sizes` | `ControlFits` | `ctrl_size` leaves one word for each sector and two; the end of the lists, the checksum and the links may need more, and the control is written or read without its end |

`clean` needs a `.csc` that writes the last free sector of a block and then
cleans that block; `RewriteActs` is such a list of actions. In `sizes` the room
`ctrl_size` leaves depends on how close to the end of a sector the lists end,
which `Rooms` leaves open within what the arithmetic of `update_ctrl_sizes`
allows.

More paths do harm. No text of the repository says otherwise in so many words,
so they are recorded as hazards only: a block taken at the head of the free list
(`head`), a `sect_marks` that came back from `malloc` (`recycled`), a refused
mark or unlock, a `.csc` behind one that was cut short (`torn`, `retry`), a
failed TFS flash that is reported as complete, a binary of 2 GiB and more.

## 4. Proofs

TLC shows a property on the instances of section 3; the theorems below hold for
every number of blocks, pages and words, every content, every set of jobs and
faults and every bound, under the assumptions listed behind them.

### What is proved

| Theorem | Property | In words |
| --- | --- | --- |
| `TypeCorrect`, `AlwaysInStep` | `TypeOK`, `InStep` | each waits for what the other is about to send, or has sent |
| `AlwaysFramed` | `Framing` | an operand is never read as an opcode, nor an opcode as an operand |
| `BoundedBacklog` | `BusyBacklog` | at most one opcode waits at a preloader at work |
| `ServesWhole` | `Serves` | the session implements `FlashService` |
| `DeliveredAsMeant`, `MenuDelivers` | `Delivered` | the flash holds what the host takes for done |
| `AreaRelocked` | `LockedAfterTfs` | the area is locked behind a TFS or CSC stage that was not given up |
| `ChipErasedWhole` | `ChipErased` | an erase that is reported has left nothing |
| `NeverMixed` | `NoMixedPage` | no page mixes two contents, as long as every job fitted what it found |
| `MarkedAreWritten`, `PagesWhole` | `MarkedIsWritten`; both | what is marked is written, whether or not a job fitted |
| `ControlsReplaced` | `ControlReplaced` | behind a `.csc` the control sectors are the new ones |
| `LinkTyped`, `AlwaysReady`, `AlwaysAnswered` | `LinkTypeOK`, `ReadyToTalk`, `Answered` | a button that can be pressed finds the preloader there, at its speed |
| `DownloadLoads` | `ImageLoaded` | the records load as the image they were made from |
| `FileInOnePiece`, `NothingBeside`, `RefusedIfTooLong` | `FileBurned`, `OthersKept`, `RefusedRight` | a binary of less than 2 GiB is on the chip in one piece, or refused just if too long; nothing else is touched by any |
| `MarksUnpacked` | `MarksArrive` | marks arrive as they were packed |
| `TableRegained` | | `parse_ctrl_header` undoes `build_ctrl_header`, on lists of any length in any runs |
| `ReadBackKept` | `ReadBack` | the words of a control, as built, are read as the lists they were made from |
| `ListsKept` | `FreeListSound` | the free list ends and holds exactly the free sectors, behind power cuts and retries too |
| `BlankKept` | `FreeIsBlank` | what the next flash may write to is blank on the phone, until a `.csc` is cut before its first mark |
| `FilesAreKept` | `FilesKept` | the control is found by its marks, and every file it lists is there, whole |
| `ChainsReordered` | `Reorderable` | the sectors that are marked are put in the order of the chain |
| `PointersKept` | | a link between entries survives the round trip through a control header |

### From which assumptions

*Constants.* The named ASSUMEs next to them. Those that are more than types:
`TfsFirst <= TfsLast` (128 and 247); `SmallWords <= BigWords`, since
`block_buf` has the size of a large block, and `BufferWords` divides both;
`NumMarks % 4 = 0`, as there are `TFS_SECTS`, 0x7800, of them and the flush of a
byte that is filled in part never happens; `Run` (0xfffe) is neither a sector
nor `Nil` (0xfffc), there being 0x7800 sectors; `NapTicks > 4`, as the
host sleeps 100 ms, six bytes at 600 baud, while the four bytes of the divider
go over the line; `NoEnt` is no place. `"ctrl"` is how the model names what is
in a control sector, so no file has that name.

*Jobs.* `Jobs` is any set of sequences of stages. Some theorems ask more of it,
and ask it in their statements:

* `Planned` (`Delivered` and all below): each command comes behind the commands
  of its own stage that unlock its block or erase its page; for `CHIP_ERASE`,
  behind the unlocking of the whole chip; a mark is burnt as 0. `MenuPlanned`
  proves it of every job made of the stages `main.c` has (`StageOf`), with
  images of any length and any actions for `.tfs` and `.csc`, so `MenuDelivers`
  asks of those actions only that a `.tfs` writes no sector twice (`FreshActs`)
  and a `.csc` erases a block before it writes to it (`CleanActs`). The second
  is what the run `clean` shows the code not to keep: for such a `.csc`
  `Delivered` would be false.
* `Relocks` (`AreaRelocked`): a stage called `tfs` or `csc` is one that
  `flash_tfs` does, and no later stage of another kind unlocks blocks. `main`
  flashes the image first and reboots last.
* `ChipErasedWhole` asks that only `EraseChipJob` erases the chip.
* `Sectors`, `MemOK`, `Unshielded` (`NeverMixed`, `MarkedAreWritten`): sectors
  are written with data; an image that goes into the area has no page that is
  marked and blank, and neither has the phone; no sector is written behind a
  stage whose failure the host ignores. `PagesWhole` does without the last for
  as long as no such stage has failed and no mark was refused (`Undisturbed`).
  None of the three asks that a job fits: `NoMixedPage` says so itself, and
  `MarkedIsWritten` holds either way, as burning makes no page blank.
* `ImageFirst` and `[]CtrlRead` (`ControlsReplaced`): the image comes before the
  `.csc`, and when the host comes to the first command of a `.csc`, the patch
  drops or rewrites every control sector there is. `patch_start` goes through all
  marks it was given, so this holds unless the marks changed on the line, where
  they carry no checksum, or `sect_marks` was not filled (hazard `main.c:944`).
* `"opcode" \notin Faults` (the chip, the pages, the controls): a mark or unlock
  that is refused is left out without a word, `main.c` 362 and 1188.

*Sectors.* `ReadBackKept`, `ListsKept` and `BlankKept` ask nothing of what is
flashed: any files of any length, any number of flashes, any length of the
control chain in `CtrlLens`. All three leave out the paths they do not name in
`hit`. Behind a cleaned block, a block taken at the head of the list or a full
area they are false, as the run `dirty` and the hazards say, and so is
`FreeIsBlank` behind a torn `.csc` (`Untorn` is what its proof goes by).
`TableRegained` is about a header, not a run of the program; that the headers
of a flash are as it asks is part of what the other three prove.

`MCFlashSession` has the jobs of the runs checked by the assumption
`JobsAreAsProved`: `FreshActs` and `CleanActs` of the actions their stages are
made of, hence `Planned`, and `Sectors`, `ImageFirst`, `Unshielded` and `MemOK`. Only
`FullJob`, which flashes a `.tfs` and then a `.csc`, is not `Unshielded`. There
the model has more behaviours than the code: it fixes the actions of the `.csc`
when the job begins, while the code makes them from the marks it reads after
the `.tfs`, failed or not.

### Along which argument

*Framing.* `Framing` is not inductive: whether the next token is an opcode
depends on how many commands the host is ahead, hence on the replies on their
way back. `InStep` says for every point the host can wait at which tokens are on
the two streams and where the device is: at rest, behind with one command that
sends no reply, at the opcode sent last, at its operands, at work, or done with
its reply on the line. `LineOK` is the part that still holds when host, phone or
line has gone. With `TypeOK` it is `IInv`, and every other proof of the session
rests on `SessionInvariant`.

*Refinement.* A command is submitted when its operands are on the line and the
device will accept them (`Pending`), open while the device is in one of its
three phases, and `Underway` is the flash when that phase and those behind it
are done. `Wipe`, `Burn` and `Stamp` leave `Underway` as it is, a power cut is a
crash of the service, everything else is a stutter or a submission.

*Delivery.* `Expected` is about the host's place in the job, which runs ahead of
the flash by whatever is on the line. `Behind(g)` says that `g` is the flash
without the command the host is at; `Moves(g, h)` lists the ways a step changes
`g` and the host's place together, and `Advance` proves that every step of a
connected session is one of them. So what is true of the host's place is proved
over six cases instead of one for every action: `OnCourse` (for `Delivered`, with
what the stage has unlocked and blanked so far), `LocksKept`, `ChipCourse`,
`CtrlKept`. `Replay` and `AfterStages` are recursive functions. What they
compute is proved by induction over the natural numbers, in its form for sets
(`NatSets`, `UptoSets`, from `WFMin`), which needs no operator as a parameter.

*Pages.* `NoMixedPage` and `MarkedIsWritten` are about the flash in the middle of
a command too. `PagesInv` says of each phase what makes the next one safe:
`SafeToWipe`, `SafeToBurn`, `SafeToStamp`. That operands are safe when they are
sent follows from `OnCourse` and, for the mixing of contents, from `fitting`
(`FitsInv`), as long as the host has given nothing up; `Persists` shows
that it has not while it sends sectors.

*Chip, locks, controls.* `LockedBy` follows the locks a stage has set;
`EraseEnded` that a host past the erase has seen its end; `LocksOnly` that
behind the report nothing but locks is on the line. `CtrlBy` splits the control
sectors of the phone into those the job writes and those still to be dropped.

*Link.* `Loading` says that before the preloader is loaded nothing but a
download is on the line, at the one speed the boot ROM knows; `Asked` that an
ENQ comes from a phone that now waits for the ACK; `Talk` what is on the streams
and which speed each end has at every point of the menu, of a command and of a
change of speed, where `Changing` counts the bytes of the divider against the
ticks the host still sleeps. SYNs of before may be still ahead of the ACK, and
`Acked` is what makes them harmless.

*Conversions.* `HexInv`: the memory of the ROM is the image up to the offset.
`BinInv`: the words below the position are burnt, the blocks not come to are as
before; it rests on `flash_blk_addr` being increasing. `MarksInv`: the bytes
sent are the marks read, four by four.

*Sectors.* `FreeListSound` is not inductive. To unlink a block, `occupy_free_block`
looks for it from the head on and then takes the sectors up to the end of the
block; that these are the whole block, and nothing else, follows only if the
list has its sectors in ascending order. `Ascends` says so: every free sector
points to the least free one above it. It holds of a fresh table, and keeps
holding when the head or a whole block is taken (`HeadTaken`, `BlockTaken`). `Sound` adds what the free
sectors must keep away from: the control chain, the rest of its block, the first
sectors of the files, all of which are written or marked before the table is
saved. `DiskSound` is the same for the control on the phone. A chain
that `tfs4_ctrl_fix_sect_order` can put in order does not end with its block
(`EndsInside`), so a `.csc` begins its control in the same block, which `Sound`
has kept out of the list.

*Codec.* `Reading` is a recursive function of the number of words read, so what
it computes is proved by the same induction as `Replay`. The words of a list are
those of its sectors, none, one or two for each, laid end to end. While
the words of a sector are read the reader is in one of few states (`State`), and
what has been put in the table is `Part(h, T, L)`: the types of the sectors
before, the links of those before the last. One lemma for each kind of word
gives the next state (`FreeEndRead` and on), one induction over the sectors the
words of a list, one over the lists those of the table. The types are where it could go
wrong: `parse_ctrl_header` makes the first sector of a list *first* and the
others *cont*, whatever they were, so that a list which ran into another, or
into a first sector, would come back as something else. `Woven` rules it out:
what is in use goes on with a *cont* sector, or ends.

*Weave.* That headers are woven does not follow from `Sound`, which says nothing
of lists other than the free one. In the middle of a file (`Storing`) its list is
open: the sector stored last still points to the head of the free list, which
`Woven` allows for (`GoesOn`). The control chain is linked last, so until then
`Woven` leaves it out, and `Strung` says what types its sectors have. `Knit`
keeps the first sectors that something refers to out of every other list, those
that no entry names yet among them (`Begun`), and the rest of the control's block
unused. `WeaveInv`
adds the same of the control on the phone, and `ReadBack` itself, since the next
flash begins with what was read. `TableInv` is `ListInv`, `WeaveInv` and
`BlankInv` together, as each needs the others: `ListNext` carries the free list
through `ReadBack`, and `WeaveNext` needs the free list to know that what is
taken was in no other list.

*Blank.* `Spare` is what a flash may still write to: the free sectors and the rest of the
control's block. Through a patch it only shrinks, and every action on the list is
about a sector outside it (`Away`), so that what is spare at the end was spare,
and blank, at the beginning. For a `.tfs`, whose blocks are all erased, the
sectors in `Spare` are those that no action comes to.

*Files.* While a patch is made nothing is sent: the phone as it will be, `Will`,
is what is there (`Base`, an erased area for a `.tfs`) with what the actions to
come burn into each page (`Burnt`). `InWork` says that in these pages every entry
of the table has its file (`Held`, `Laid`), that what is spare is blank and where
control is; each action of `flash_tfs` then leaves `Will` as it is (`DoneHead`).
A step of the patch changes links, types and pages of sectors that were spare, or
marked, or first sectors no entry names any more; none of them holds a piece of a
file (`Keeps`, `HeldStays`). `Filing` is the file in progress: what has been
stored of it is laid out already, and its walk has come to the head of the free
list. That no two files share a sector is not said anywhere: pages know whose
they are. For a `.csc` there is a second file system to keep, the old one.
`InPlace` says that writes go to what was spare in it and marks to its chain,
each once and before any control is written (`Once`, `MarksFirst`); so the pages
of its files (`Kept`) stay, and until the first mark its control does. The marks
on the phone are the chain's at the end because pages with nothing but control
in them are exactly those of the chain (`Ctrl`).

*Order.* `InRuns`: the control chain goes on sector by sector, and at the end of a
block to a block further on; `Ahead`, that the blocks still free are all further
on, since `find_free_block` takes the least. So the chain climbs (`RunsClimb`),
sorting its sectors gives it back (`AscendingIs`), its first sector is the first
that is tried, and the link at the end of each block but the last leads on
(`RunsInOrder`).

### Only model-checked

* Of `TfsSectors`: `SectorsTypeOK`. It holds behind the wrong paths of the code
  too, `flash_clean` among them, where nothing is known of the lists a control is
  read back as.
* Everything `TfsTree` claims, but for the links: what the folds over the entry
  table compute for every input takes an induction that is not done.
* What a page holds behind a job that does not fit: `Delivered` says it of jobs the
  host has come to the end of, and nothing is proved of those cut short, but for
  the service's own crash (`Serves`).
* Liveness (`JobEnds`, `DownloadEnds`, `CommandEnds`): it rests on fairness and
  ENABLED, which the prover does not handle.
* `NoMixedPage`, `MarkedIsWritten` and `ControlReplaced` for jobs and noise the
  theorems leave out are not claimed at all: there they are false, or the model
  is coarser than the code, as said above.

## 5. Not modelled, and why

* Corrupted operands of commands without a checksum, opcodes changed into other
  opcodes, lost or inserted bytes: the protocol has no defence, so nothing
  could hold.
* The word-level command sequences of the chip and its toggle bit: hardware.
  An erase or a program that never ends hangs the preloader; nothing handles it.
* The wear table, times, file numbers and attributes in a control header: the
  code writes them and reads them back, and decides nothing by them.
* In the session, a `.csc` that cleans several blocks while a control is in one it
  does not erase: the actions of the jobs are examples, and `TfsSectors` is where
  a patch makes its own.
* Lengths of files and of entries in bytes, hence the length of the control
  chain, which `TfsSectors` chooses; the sum of the `FILE_SIZE`s against the size
  of the image, which the code does not compare.
* An ioctl that fails in the middle of a change of speed; memory that runs out.
* A host started again while the preloader is in its loop: it calls SYN for ever.
* Drawing, key decoding, prompts, `ansi` colours, the digits and checksums of
  Intel HEX records, start-up code and the embedding of the image.

## 6. Plan

Done are the protocol and its faults, the abstract service and the refinement,
sector allocation with codec and control ordering, configuration and entries,
boot, menu and change of speed, the conversions, and proofs of all invariants
of the session, the link and the conversions, and of the codec, the free list
and the files of the sectors. Left:

1. `TfsTree`: `TreeTypeOK` and `InTables`, then `ListsSound`, with lemmas about
   `add_entry` and `Located` over a table of any size.
2. The actions of a `.csc` chosen when the host comes to it instead of when the
   job begins, so that `Unshielded` and `[]CtrlRead` can go.
3. Entry lengths in `TfsSectors`, so that the length of the control chain and
   `Rooms` come from one computation.
