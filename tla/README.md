# Verification of DuinoCube

DuinoCube is an Arduino shield with an FPGA graphics core and a coprocessor (an
ATmega running `src/firmware`).  A sketch on the Arduino (the client) links
`src/DuinoCube` and calls the coprocessor for files, memory and USB gamepads.
This directory holds TLA+ models of the library and the firmware, the TLC
configurations that check them on small instances, and proofs that TLAPS checks
for every value of the constants.

Contents: [parts](#the-system) - [modules](#modules) - [runs and bounds](#runs) -
[fairness](#fairness) - [proofs](#proofs) - [findings](#findings) -
[limits](#what-is-not-covered) - [plan](#plan)

To repeat a check: `tlc -config MCRpc.cfg MCRpc`, `tlapm RpcProofs.tla`, and so on.
`PROJECT.json` lists runs, mutants (a plausible bug for each property, which TLC
must find), theorems, hazards, and the source lines each definition stands for.

## The system

Two processors without a common clock, one thread each; interrupts only count
milliseconds.  They share

* a serial RAM (one SPI port; who may transfer is settled by the wires alone),
* a command wire (client drives, LOW = a command was issued), a status wire (server
  drives, HIGH = busy), and two reset lines: the client can reset the coprocessor
  (`RPC::begin`), the coprocessor can hold the Arduino in reset (boot menu).

| Part | Source | State it keeps | Operations | Correct when |
|---|---|---|---|---|
| RPC client | `DuinoCube/rpc.cpp`, `mem.cpp`, `DuinoCube.cpp` | where it is in a call | `begin`, `exec` (under every call), RAM transfers | a call that returns was executed exactly once, with its arguments, and brings its own answer |
| RPC server | `firmware/rpc.cpp`, `main.cpp` | command, status wire | `rpc_init`, `rpc_server_loop`, dispatch | the same; never on the RAM while the client is |
| Shared memory heap | `firmware/shmem.cpp`, `rpc_mem.cpp` | table of blocks: length of the region at its first block, allocated flag | `shmem_init/alloc/free/stat` | regions handed out are disjoint, freed ones are merged, double frees do no harm |
| File service | `firmware/file.cpp`, `rpc_file.cpp`, `DuinoCube/file.cpp` | four FatFs objects and their flags | open, close, read, write, size, seek; chunk loops through a 256-byte buffer | a read delivers the next bytes of its file and counts them; no handle is lost |
| Target programming | `firmware/isp.cpp` | none between calls; drives reset and select of the Arduino | `isp_program` | success means the flash holds the file; the bus is shared in turns |
| Boot menu | `firmware/boot.cpp`, `main.cpp` | menu option, file list, cursor, question pending | `boot_run`, `run_file_operation`, `read_usb_gamepad`, `program_file` | the Arduino is held meanwhile; one press is one input; only what was selected and confirmed is programmed |
| Core client, display | `DuinoCube/core.cpp`, `DuinoCube/DuinoCube.cpp`, `firmware/display.cpp` | registers, banks and VRAM of the FPGA, cached tile registers, VRAM in use | register and VRAM access, `waitForEvent`, loads across banks, the boot screen | what was loaded stays where it was wanted; registers are as asked although they are written from a cache; waits and loads end |
| FatFs | `firmware/fatfs/ff.cpp`, `ff.h`, `ffconf.h` | one window of a sector for FAT, directories and data; free count; file and directory objects; current directory | all of its API that is compiled in | what was acknowledged survives a loss of power; no cluster has two owners or none; answers are true |
| USB host, joystick | `firmware/usb*.cpp`, `firmware/usb/` | enumeration state, deadlines, pipe toggles, stick and buttons | `Task`, transfers, callbacks | only a configured gamepad is polled; each report is taken once; every `usb_update` returns |
| SD card driver | `firmware/fatfs/mmc.cpp` | card type, status, two countdown timers | initialization, read, write, ioctl, the timer procedure | a transfer reported as done has moved the sectors asked for, and no others; every call returns |
| Timer | `firmware/timer.cpp` | millisecond counter, written by interrupts | init, reset, get | reads are whole |
| FPGA flash | `firmware/flash.cpp` | - | `flash_reprogram`, called from nowhere | - |

FatFs is a library that came with the firmware; its configuration, and the sector
window it shares with everything, make it this system's own, and it is modelled.
The Arduino core is external; SPI, UART, printf, Esplora controls, sketches and
desktop tools keep no state worth a model.

How the parts hang together: a sketch calls `core.cpp`, `file.cpp` or `mem.cpp`,
which issue an RPC; the server dispatches it to the heap, to the file service or to
USB; the file service calls FatFs, FatFs the card driver, and the driver waits on
counters that the interrupt of the timer decrements.  A read into the graphics core
is done by the coprocessor while the sketch waits.  At power on, and after each
reset, the boot menu draws on the same core, programs the Arduino over the same SPI
bus, and holds the Arduino in reset meanwhile.

What is hard here: the handshake against asynchronous resets of either side; an
undriven wire while a processor boots; answers written over the command byte;
loops with unsigned arithmetic over a table that double frees and bad addresses
reach; a card that fails between two chunks; one SPI bus for card and target;
polling a gamepad that changes under the code; the sketch that resets the
coprocessor which holds it in reset; one sector window for FAT, directories and
data, and a power switch that may be turned at any of its writes; a card whose
answers are lost, late or contradict each other, against counters that an interrupt
takes down; images that cross banks while a reset goes on.  `hazards` in `PROJECT.json` gives them line
by line with the properties that watch them.

## Modules

| Module | Models | Composition |
|---|---|---|
| `RpcCall` | abstract: what `exec` promises a sketch | instantiated by `Rpc` |
| `Rpc`, `MCRpc` | client and server of the handshake, both resets, boot menu as a detour | implements `RpcCall` |
| `Heap` | abstract: what the heap promises | instantiated by `Shmem` |
| `Shmem`, `MCShmem` | the block table and the loops over it | implements `Heap` |
| `FileStore` | abstract: what the file service promises | instantiated by `RpcFile` |
| `RpcFile`, `MCRpcFile` | handle table and chunk loops over FatFs and a card that fails | implements `FileStore` |
| `Isp`, `MCIsp` | `isp_program` and its target | - |
| `Boot`, `MCBoot` | boot menu, player, sketch | `isp_program` is one step |
| `UsbHost`, `MCUsbHost` | enumeration, transfers, joystick state; the gamepad and lossy tokens | - |
| `FatVolume`, `FatDir`, `FatFile`, `FatPath` | FatFs, from the window and the FAT up to the calls on paths | each extends the one before |
| `Fat`, `MCFat` | FatFs in use, with faults, loss of power and what was promised | extends `FatPath` |
| `Timer` | the millisecond counter, byte by byte, and its interrupt | extended by `Mmc` |
| `Mmc`, `MCMmc` | card driver, timer procedure and the card | beside `Timer` |
| `Display` | the graphics core, and the boot screen the coprocessor draws | extended by `Core` |
| `Core`, `MCCore` | the library of the sketch, and the server that reads files for it | composed with `Display` |
| `TakeoverProofs` | theorems about `Boot` and `Isp` | extends both |
| `DriverProofs` | theorems about `UsbHost`, `Timer` and `Mmc` | extends them |
| `FatVolumeProofs`, `FatProofs` | a lemma for each function of FatFs; the theorems about `Fat` | the second extends the first |
| `RpcProofs`, `ShmemProofs`, `RpcFileProofs`, `CoreProofs` | theorems | extend the models |

### Rpc

Every access to a wire and every RAM transfer is a step, so all interleavings of
client and server are explored.  `cpc` and `spc` say where the two are;
`commandPin` and `statusPin` are the wires, "FLOAT" when their driver is in reset;
`ramCommand`, `ramInput`, `ramOutput` are the RAM.  `answer` over `command` (both
are at RAM address 0) is kept: `Reply` may leave any byte in `ramCommand`.
Client: `BeginOutput .. BeginRelease` are `RPC::begin`; `Exec`, `AwaitIdle`,
`WriteArgs`, `WriteCommand`, `AssertCommand`, `AwaitBusy`, `ClearCommand`,
`AwaitDone`, `ReadOutput` are `RPC::exec` in order; `MemAccess` is a `Mem` transfer
between calls.  Server: `PollPin`, `PollRam`, `RereadPin`, `LatchCommand` are the
double read of `rpc_server_loop`, `Acknowledge`, `DrainPin`, `DrainRam`, `FetchArgs`,
`Execute`, `Reply`, `Finish` the rest of a round.  `ClientRestart` is a reset of the
Arduino at any step.  A call is a command code and an argument; the answer to a
call is represented by the call, so a mixed-up answer shows.  The commands of a
model are of three kinds (with input, with output, with both), which is all that
the protocol tells apart.

Properties: `BusExclusion` (one user of the RAM), `Acknowledged` (BUSY means that
exactly this command was latched), `ImplementsRpcCall` (exactly once, right
arguments, right answer), `CallReturns`.  `IInv` is the inductive invariant.

### Shmem

`num` and `allocated` are the fields of `heap_blocks`; each turn of a loop of
`shmem_alloc` (`AllocSkip`, `AllocTake`, `AllocFail`), of the backward search of
`shmem_free` (`MergeBack`, `MergePrevious`) and of `shmem_stat` (`StatStep`, `StatEnd`)
is a step.  Sizes and addresses are words modulo `Word`.  `Free` takes every address
in the heap: first blocks, blocks inside regions, regions that are free already.
`live` is a history variable, the regions sketches hold.

Properties: `HeapInv` (regions tile the heap, are uniform, coalesced and just those
that are held), `LiveDisjoint`, `NoFragments`, `StatTruthful`, `ImplementsHeap` (in
particular first fit refuses only if no run of free blocks is long enough),
`LoopsEnd`.

### RpcFile

`active` and `fil` are `file_handle_active` and `file_handles`.  `FRead`, `FClose` and
`FSeek` say what `file.cpp` uses of FatFs: a read may come up short at the end of the
file or because the card fails, which aborts the object.  `ReadChunk` and
`WriteChunk` are one turn of the loops of `rpc_file.cpp`.  A byte is represented by
the file and position it comes from, so bytes out of order or from another file
show in `memory`.  Handles may be used after they were closed: size and seek do not
check them, the model does what the code does.  `rpc_file_write` is modelled as it
is, with the read it does in place of a write (see findings).

Properties: `HandleInv` (table and FatFs agree, no handle is lost),
`ImplementsFileStore`, `TransfersEnd`.

### Isp

`pc` follows `isp_program`: signature, erase, poll, then for each page read,
program, poll, verify.  The target is external: `expected`, `flash`, `busy`, and the
two lines `reset` and `selected`.  A byte is represented by one of its bits, since
erase, program and XOR act on bits one by one; `Lanes` is the number of bytes of a
checksum.  A page write may spoil one byte of its page; a file read may come up
short.

Properties: `Programmed` (success means the flash holds the file as far as it fits
and is empty behind it, but for the byte that pads a file of odd length),
`BusShared`, `NotWhileBusy`, `WrongDeviceUntouched`, `ProgramReturns`.

### Boot

`place` says where the coprocessor is, `phase` where it is inside `read_usb_gamepad`
when `place` is one of its three callers.  The pad changes at any time, the code sees
what it polls.  `ArduinoBegin` is the `DC.begin()` of the sketch: it resets the
coprocessor wherever it is, menu included.  `picked` and `fresh` are history: the
file SELECT was last pressed on, and whether the pad was released since the last
input.

Properties: `HoldsArduino` (display and card belong to one processor at a time, and
the Arduino does not stay in reset outside of the menu), `ListSound` (the cursor stays
on the list, and the program file is not left open), `PressOnce`, `RunRuns`.

### UsbHost

`usb_update` runs to its end before the coprocessor does anything else, but a
transfer takes time and both ends of the cable can fail: a step is a token and its
outcome.  `state` is `usb_task_state`; each run of `USB::Task` is one action per case
of its switch (`Attach` to `AskAddress`, `Sit` for the cases that wait); `Configure`
and `Poll` are the rest of `USBJoystick::run`.  `request` and `stage` say which call of
`dispatchPkt` the host is in, `naks`, `retries` and `sinceStart` are its three ways to
give up.  `Nak`, `Silence`, `OtherResult`, `Expire` are the results that do not bring a
token through; `NextStage` and `Complete` take a control request to its next stage
and its end, `TakeReport` and `DropReport` end a poll.  `Silence` may hide a setup
packet that arrived; `Complete` and `TakeReport` may lose the acknowledgment to the
gamepad.  Time stamps are kept as the time since, counted up to the deadline they
are compared with, which is exact as long as two runs are less than 2^16 ms apart
(the limit that `Usb.h:17` names).  `timer_reset`, called while an Arduino is being
programmed, only lets the next poll come early or up to an interval late: at that
time a gamepad is running, since the menu was operated with it.

The gamepad (external) obeys USB: it hears its own address only, resets its toggle
when configured, sends a report again until it is acknowledged.  It may start in any
state, because the coprocessor can be reset without it.  It sends whole reports of
eight bytes.  `vbusState` is constant after power-on: that is what the code does (see
findings).

Properties: `PolledDeviceConfigured`, `InOrder` (`ahead` counts what the host took less
what the gamepad knows to be taken), `JoystickFollows`, `UpdateReturns`,
`EnumerationEnds`.

### FatVolume, FatDir, FatFile, FatPath, Fat

FatFs runs to the end of a call without interruption, so a call is one step; what can
come in between is a card that stops to answer, and the power.  The work area, the
card and the locals of the call under way are one record `m`; a function of `ff.cpp`
is an operator of the same name that takes `m` and returns it changed, its result
in `m.res`.  Every access to the card goes through `disk_read` and `disk_write`, which
count down `m.left` to the one that fails; from then on nothing reaches the card
(`m.cut`).  Loops are folds with a bound; one that does not end by then yields "HANG",
which `Truthful` excludes.  `FatVolume` has window, FAT and FSInfo (`move_window`,
`sync_fs`, `create_chain`, `remove_chain`), `FatDir` the directory functions,
`follow_path` and mounting, `FatFile` open, read, write, seek, truncate, sync, close,
`FatPath` the rest of the API.  A sector is what was written to it last: FAT entries,
directory entries, data, a boot record or FSInfo, so that a sector read as something
else shows.  `FatPath!f_mkfs` and the calls themselves prepare the cards of `MCFat`.

`Fat` adds the application: it opens files by handle, uses each one at a time (the
library does not lock), and remembers in `kept` what calls have promised about each
path.  `Table`, `Chain`, `Bytewise` read a card by the definition of the format, not by
the code, and are what `kept` is compared with.  `PowerOff` loses everything that is
not on the card.  Since a call the card did not finish may be followed by `PowerOff`,
power that goes in the middle of a call is covered.  `doubt`, `suspect` and `clean` take
out of the promises what failed calls were changing; the comments at the properties
say what that leaves.

Properties: `Durable`, `NoCrossLink`, `Accounted`, `Truthful`; `TypeOK`, the coherence of
the window with the card; `Mirrored`, the second FAT against the first; and
`QuestionsOnlyLook`: a call that only reads or asks changes nothing of what the volume
shows, although it may write the window back on its way.

### Timer, Mmc

`Timer` reads and clears the counter byte by byte; `ints` is the interrupt flag,
`interrupts_enabled` the flag of the module, `clock` the values the counter has had
since the call began.  `Mmc` has a step for each command, block and wait: `select`
(`Select`, `Ready`, `NotReady`), `send_cmd` (`Command`, `Synced`), `rcvr_datablock`
(`AwaitToken`, `Received`, `ErrorToken`, `TokenLate`), `xmit_datablock` (`WaitFree`,
`Accepted`, `Refused`, `Stopped`, `SendLate`), and one `CASE` per place where a function
goes on behind a command (`EnterIdle`, `ContinueInit`, `Continue`).  `run` is the call
under way, `run.k` where it goes on.  `disk_timerproc` may come between any two steps.
The card (`React`) is external and of one of the four kinds; it may take as long as it
likes, and a fault loses a command, its answer or a block, refuses a block, or pulls
the card out and puts it back.

Properties: `Faithful` (with `healthy`: no initialization has failed since the first
that succeeded, see findings), `CallsReturn`, `ReadWhole`.

### Display, Core

VRAM is counted in cells of 256 bytes, what both sides read from a file at a time; a
window shows one bank and takes writes while a bit of `SYS_CTRL` is set (`Poke`).
`Display` draws the boot screen: `display_init` with its sprites one by one
(`ResetSprite`), `display_text_init`, the loops that load palette and image bank by
bank (a file may be missing without the card having failed), and the menu's text.
`Core` is the library of the sketch: `begin`, which resets the core, then reads and
writes back each sprite's control word (`DisableRead`, `DisableWrite`), loads (`Prepare`,
`SelectBank`, `readToCore`, `NextBank`, `Finish`), layer and sprite calls over the cache
`s_tile_regs`, `waitForEvent` (`Poll`, `Woken`) against a screen that scans (`Scan`), and
the coprocessor that serves a read (`rpc_file_read`, `ReadFails`, `ReadsNothing`).  The
handshake of `Rpc` and the whole of `isp_program` are one step each way here.

The two meet at the graphics core like this.  `Main` reads the boot switch, at power-up
and after every reset of the coprocessor: on, the Arduino is held and the screen is
drawn over whatever the last sketch left; off, the coprocessor serves.  `Release` lets
the Arduino go and then runs `display_init` once more, while the started sketch is in
`begin` at the same registers; the sketch's `RPC_begin` resets the coprocessor wherever
it is.  Programming lets the Arduino run for a moment (`programmed`) before `isp_reset`.
A sketch that gets as far as resetting the core in that moment clears the screen, and
the menu goes on without: `alone` is history that tells this case.  `ResetArduino` may
come at any point; `begin` resets the graphics core first and the coprocessor last, so
that a read for the sketch before may still be going on.  `asked` and `want` are history:
what registers were set to, what was loaded.

Properties: `BootScreen`, `Loaded`, `AsAsked`, `MenuComes`, `SketchGoesOn`.

## Runs

| Run | Question | Bounds | Distinct states |
|---|---|---|---|
| `rpc` | is the handshake right under resets? | 3 commands (one per kind), 2 arguments, status wire pulled up or down, 2 Arduino resets | 25 596 |
| `shmem` | does the table implement the heap? | 5 blocks of 2 bytes, 4-bit words, sizes to 14 | 311 366 |
| `rpc_file` | do the chunk loops implement the service? | 2 handles, 2 files of 2 or 7 bytes, buffer 2, 3-bit words, requests of 0, 3, 7 | 760 532 |
| `fat` | does FatFs keep its promises when the card or the power fails? | 5 cards of 6 clusters of 2 sectors, FAT16 and FAT32, 2 calls, 1 fault at any of 12 accesses | 19 139 |
| `fat_glitch` | and when one access fails and the next succeeds? (violation) | same | - |
| `sd_card` | is what is reported as transferred transferred, and does every call return? | 4 kinds of card of 4 sectors, transfers of 1 and 2 blocks, 2 calls, 1 fault, timeouts of 1 tick, bytes of 2 values | 218 640 |
| `isp` | is success success? | 2 pages of 4 bytes, files of 0 to 9 bytes, 2 checksum lanes, 2 flawed writes | 871 863 |
| `boot` | who is in charge, and is input taken once? | directories of 0 to 2 files, cursor of 2 bits, 1 reset from outside | 88 256 |
| `boot_ask` | is the question about what was selected? (violation) | same, no reset | - |
| `usb` | does polling follow the gamepad through losses? | 3 stick positions, 2 buttons, 3 NAKs, deadlines of 1 to 3 ticks | 14 020 |
| `graphics` | does the screen show what was loaded and asked for? | 2 layers, 1 sprite, 3 banks of 2 cells, images of 3 cells, 1 text, 2 calls, 1 reset | 1 089 737 |
| `core_wait` | does a wait for the end of the blank end there? (violation) | same | - |

Four more configurations can be run by hand and end in a violation that a finding
describes: `MCRpcFloating` (nothing pulls the status wire), `MCShmemWrap` (sizes that
wrap when they are rounded), `MCRpcFileWrite` (a write counts what it did not write),
`MCUsbHostCentre` (the joystick's state before its first report).  `KindKnown` of `Mmc`
fails in the configuration of `sd_card`, `AsksAboutSelected` of `Boot` in `boot_ask`.
Properties that are defined but in no run are either proved (`HeapInv`, `IInv`,
`WrongDeviceUntouched`, the `TypeOK` of other modules than `FatVolume`'s) or those.

Why the bounds are enough to meet the cases that matter.  *rpc*: one kind of
command each; two arguments tell a stale one from a right one; two resets let one
hit a call and a second the recovery from the first.  *shmem*: five blocks allow
used/free/used/free/used, so merging on both, one or neither side happens, exact
fits and splits too; 4-bit words put the top of the heap near the top of the
address space.  *rpc_file*: a file of one chunk that is full, one of three chunks
and a rest; requests of nothing, a chunk and a half, and one whose count wraps.
*isp*: files that end on and off a page, a word and a byte pair, and one that does
not fit.  *boot*: none, one and two lines; a cursor byte that can wrap.  *usb*: a
stick at rest on both sides of the middle and pushed; a request can reach the limit
of NAKs, of retries or its deadline first; the gamepad can be replaced in every
state.  *fat*: directories and files of one to three clusters, a root directory and
a volume that fill up, FSInfo, one and two FATs, files half written at the start
(so two calls are enough to meet a long history), and twelve accesses, more than any
single call here makes.  *sd_card*: two blocks tell the first, a middle and the last
turn of the block loops apart (the invariant of the proof does the rest); a card of
four sectors lets a wrong address still find one; timeouts of one tick may run out
between any two steps, which is all that longer ones can do.  *graphics*: an image
of three cells crosses a bank from its beginning and from its middle; one sprite is
enough for `display_init` to come between the read and the write of its control word,
and the boot switch is read anew each time, so that menus follow sketches and sketches
menus without a bound.

With three calls instead of two: `fat` on three of its cards 135 000 states, `sd_card`
2.7 million, without a violation.  `graphics` with two texts (2.1 million) and with two
sprites and one call (180 000) finds none either.  `Faithful` owes its form to
such a run: with `healthy` reset by each success, four calls find a sector written
through a wrong address while an initialization had failed, and a later one
succeeded.  The proofs
below remove most of these bounds.

The three refinements (`ImplementsRpcCall`, `ImplementsHeap`, `ImplementsFileStore`) are
checked by TLC and proved.

## Fairness

Weak fairness of a processor's steps: the code is a loop without blocking calls,
and a processor that is powered and not in reset goes on (`ClientStep`, `ServerStep`,
`Loop`, `Program`, `Coprocessor`).  In `Isp` also the target: an erase or page write
takes a bounded time.  In `Boot` also `ArduinoBegin`: an Arduino that is let go gets
through its bootloader to `DC.begin()`.  Nothing is assumed of the user: neither that
the menu is left, nor that calls are made, nor that a button is pressed or
released.  In `UsbHost`: runs, the deadline of `dispatchPkt` (a busy loop that reads
the clock), the clock interrupt, and the MAX3421E's bus reset and frames; nothing of
the gamepad or of tokens, which may never be completed.  A card never has to recover.
In `Mmc`: the program (`Host`), the two interrupts' handlers that the program does not
turn off for good (`disk_timerproc`, `TimerStep`); the card need not do anything.  In
`Core`: the coprocessor's booting and drawing (`BootRun`) and its serving, the sketch
(`GoOn`) and the scan of the screen; resets, calls and the user's choices in the menu need
not come.  `Fat` needs none: a call is one step, and
"HANG" stands for a loop that does not end.

## Proofs

TLAPS checks each of these for all values of the constants; each rests on an
inductive invariant because the property alone is not preserved by the steps.

| Theorem | States | Assumption beyond the ASSUMEs of the module |
|---|---|---|
| `RpcProofs!HandshakeInvariant` | `IInv` always | `Pulled`: every board's status wire reads as one level when undriven |
| `RpcProofs!RamBusIsExclusive` | `BusExclusion` | `Pulled` |
| `RpcProofs!BusyAcknowledges` | `Acknowledged` | `Pulled` |
| `RpcProofs!HandshakeRefinesCall` | `Spec => ImplementsRpcCall` | `Pulled` |
| `ShmemProofs!TableStaysWellFormed` | `TypeOK /\ HeapInv` | `NoWrap`: no size wraps when it is rounded up |
| `ShmemProofs!RegionsAreDisjoint` | `LiveDisjoint` | `NoWrap` |
| `ShmemProofs!HeapBecomesWhole` | `NoFragments` | `NoWrap` |
| `ShmemProofs!TableImplementsHeap` | `Spec => ImplementsHeap` | `NoWrap` |
| `ShmemProofs!StatTellsTheTruth` | `StatTruthful` | `NoWrap` |
| `RpcFileProofs!HandlesAccountedFor` | `TypeOK /\ HandleInv` | - |
| `RpcFileProofs!CopyLoopsImplementFileStore` | `Spec => ImplementsFileStore` | - |
| `TakeoverProofs!ProgrammingIsOrderly` | `TypeOK`, `BusShared`, `NotWhileBusy` | - |
| `TakeoverProofs!NeverSpokenToWhileBusy` | `NotWhileBusy` by itself | - |
| `TakeoverProofs!SuccessMeansProgrammed` | `Programmed` | - |
| `TakeoverProofs!OnlyTheExpectedDevice` | `WrongDeviceUntouched` | - |
| `TakeoverProofs!MenuIsSafe` | `BootTypeOK`, `HoldsArduino`, `FileClosed`, `OnList` | - |
| `TakeoverProofs!ListStaysSound` | `ListSound` | - |
| `TakeoverProofs!HeldButtonCountsOnce` | `PressOnce` | - |
| `DriverProofs!HostInvariant` | `HostInv` always | - |
| `DriverProofs!OnlyConfiguredIsPolled` | `PolledDeviceConfigured` | - |
| `DriverProofs!ReportsInOrder` | `InOrder` | - |
| `DriverProofs!JoystickIsLastReport` | `JoystickFollows` | - |
| `DriverProofs!TransfersAreFaithful` | `Faithful` | - |
| `DriverProofs!MillisecondsReadWhole` | `ReadWhole` | - |
| `CoreProofs!CoreIsAsAsked` | `AsAsked` | - |
| `CoreProofs!BootScreenIsWhole` | `BootScreen` | - |
| `CoreProofs!LoadsStay` | `Loaded` | - |
| `FatProofs!SectorsKeepTheirKind` | `TypeOK` | `CSize > 1`, `DirPer > 1` |
| `FatProofs!SecondFatRepeatsFirst` | `Mirrored` | `CSize > 1`, `DirPer > 1` |
| `FatProofs!LookingChangesNothing` | `QuestionsOnlyLook` | `CSize > 1`, `DirPer > 1` |

The arguments in short.

* *Rpc.*  The two program counters advance in lockstep (`Lockstep`): given where the
  client is, only a few places are left for the server, because each waits for the
  other's wire.  `WiresFollow` ties the levels to the counters, `CallCarried` follows
  command and arguments through the RAM, `ExecutedOnce` the number of executions.
  Without `Pulled` the invariant fails at its first step after `begin`; the run
  `rpc_floating` shows how.
* *Shmem.*  `HeapInv` says of the table what the comment on `HeapBlock` promises, plus
  what the loops know halfway: they stand on the head of a region, everything they
  passed does not suit, and while `shmem_free` searches backwards there is no head
  between the index and the freed block.  `ImplementsHeap` needs no more than that:
  because neighbouring free regions are one, every run of free blocks lies in a single
  region (`RunInOneRegion`), so that a search that met no region large enough may refuse;
  all steps but the last of a call are stutters.  `StatTruthful` is about a loop over the
  whole table: `Tallying` says what it has counted when it stands on block `i` (free
  blocks so far, the run that ends there, the longest of all), one region after the
  other (`CountRegion`).
* *RpcFile.*  Flags, FatFs objects and the handles in the hands of sketches change
  together; a failing card only ever aborts an object, and closing it still works.
  The file service is refined with the position a transfer began at standing for the
  file's own until the answer comes.  `Transferring` ties the three together: memory
  holds the bytes from `from` on, as many as `total` says (`Brought`), the file stands at
  `from + total`, and a loop that stopped early met the end of the file or a fault.  A
  write is promised less (it reads, see findings), but it moves no other file.
* *Isp.*  Pages in front of `offset` are good, those behind are empty
  (`Behind`, `Ahead`).  A page just written differs from the buffer in at most one
  byte; that byte is in one lane, where the number of set bits changes its parity
  (`FlawChangesChecksum`), so verification fails.  Multiples of the page size are a
  page apart (`MultiplesApart`), so a page that starts in the memory ends in it; pages
  start at even addresses (`SameParity`), so only a file of odd length leaves a
  padding byte.
* *Boot.*  A file is open only between `file_open` and `file_close` of `program_file`;
  outside of `run_file_operation` its variables are fresh; a reader that awaits a
  press has seen a release.
* *UsbHost.*  `RightlyAddressed`: each request belongs to one state, so the address in the
  chip is right although `poll` does not set it, and a bus reset never meets a
  running gamepad.  `Prepared` follows what a gamepad that was not replaced has gone
  through.  `Alternating`: until polling starts both toggles are 0, `device_init`
  repeated or not; from then on they differ just while one acknowledgment is
  missing.  `JoystickFollows` is inductive by itself.

* *Mmc.*  `MInv`: where a call may be and which command it has sent there (`Steps`); a
  card whose kind is known is addressed right (`Known`, `AddressFound`: a sector number
  comes back from the byte address, whatever the size of a block); and how much has
  been moved so far (`Reading`, `Writing`: the first `count - left` sectors, with the card
  at the next one or stopped).  A large card cannot pass the initialization of the
  older kinds, because without the HCS bit it stays idle (`InitSteps`): that is why
  the kind found is right even if answers were lost on the way.
* *Timer.*  Interrupts are on only while the flag of the module is (`Guarded`), so
  that the counter stands still between the two bytes (`Halfway`).
* *Core.*  `AsAsked` speaks of the time from the end of `begin` on, when only the sketch
  writes registers; that is not so before.  `OneMaster` says who may be where: a sketch
  in `begin` meets a coprocessor that boots, serves, has just programmed or is in its
  second `display_init` (`Clearing`), and one past `begin` meets none that draws, because
  `RPC::begin` has reset it.  `Begun` says what `begin` has established although the
  coprocessor resets the same registers meanwhile: layers are off, and the sprites done
  so far stay disabled, whichever of the two writes them last.  `CInv`, `BInv` and `LInv`
  rest on each other and are proved as one invariant (`AllInv`).  `Loaded` rests on
  `LInv`.  Of a load under way, what has been read of the file is in its places
  (`Progress`), window and bank are those of the next place as long as the card has not
  failed (`Selected`, `Answering`, `NextPart`), and none of its places is wanted of an
  earlier load.  A part is written to its own place only (`StoredAt`, `PlacesDistinct`).
  A transfer for a sketch that was reset may still write, but only until `RPC::begin`,
  and nothing is wanted before that (`OwnTransfer`).
* *Display.*  `Drawn` follows the boot screen cell by cell, starting from any contents of
  the memory: the image is there up to the
  place where loading is (`ImageUpTo`), with the font before it; offsets are split into
  bank and place uniquely (`Banked`), so no cell is written twice.  `Screen`
  adds when this holds: until the menu is up no sketch has run since the reset (`alone`).
* *Fat.*  A call is one step, but one in which a whole function of `ff.cpp` runs, with its
  loops and with an access that fails anywhere.  So there is a lemma for every
  function: `Work(g)` are the records `m` that a call may be in on a card of the shape
  `g` (where its boot record and FATs are, whether all accesses were answered, what a
  call that only looks has to keep), and the function leads from `Work(g)` to
  `Work(g)`, or from the narrower set it needs, such as `Live(g)`, a volume that is
  mounted, or `OnEntry`, a directory object on a sector of its directory.  `Card` is what
  the three theorems come from: FATs and boot records in their places (`Layout`), the
  second FAT the first's copy while no access has failed (`Mirrors`), the window never
  on a sector of the second FAT and true to its sector (`WindowOk`), the volume as it
  was seen (`Seen`).  `WindowOk` is what breaks and has to be repaired within a call: by
  `sync_fs`, which renames the window to sector 0, and by the loops of `dir_next` and
  `f_mkdir` that take one cleared window from sector to sector; in between, `Loose(g)` is
  `Work(g)` without it.  That a file's `dsect` lies in the data region and a directory's
  sector in its own (`FileOk`, `DirOk`, `ClusterSectors`) keeps direct writes off the FATs.
  Loops are folds over a bounded number of turns; `SetInduction` (a set of numbers that
  has 0 and the successor of each member has all numbers) is induction with a set in
  place of an operator, so that `Runs`, `Repeated` and `ManyTurns` may say that turns
  which stay in a set each, stay in it together.  `IInv` says that some shape `g` fits
  the volume and the open files; for `QuestionsOnlyLook` a call is run on the same card
  with its view before the call as the one to keep (`Watched`).  The cards at the start,
  made by `f_mkfs` and filled by calls (`FormattedOk`, `FilledOk`), are covered as well.

The ASSUMEs of the modules are about their constants, and TLC evaluates each of them.
Most give sizes their range; two say more.  `NilAssumption` (`Rpc`, `RpcFile`): the value
for "no call" is not a call.  `LoadAssumption` (`Core`): a sketch loads a palette into a
palette, a tile map into its window and an image into the VRAM, to offsets that do not
wrap, which the library leaves to its callers.

The theorems of `FatProofs` are about directory sectors of more than one entry (16 on
any card) and clusters of more than one sector.  With clusters of one sector `TypeOK` is
wrong: `f_mkdir` clears the window behind its last write to prepare the next sector of
the cluster, there is none, and if the next access fails the call returns with a window
that shows zeros under the number of the sector that holds "." and "..".  TLC finds
this in the configuration of `fat` with `CSize = 1` and `NFatEnt = 16`, where all the
other properties hold: no entry leads to that cluster, so nothing reads the window.

Only model-checked: liveness (`CallReturns`, `LoopsEnd`, `TransfersEnd`,
`ProgramReturns`, `RunRuns`, `UpdateReturns`, `EnumerationEnds`, `CallsReturn`, `MenuComes`,
`SketchGoesOn`), which the prover does not reach, like ENABLED; and of `Fat`, `Durable`,
`NoCrossLink`, `Accounted` and `Truthful`.  These four say what chains and tables hold:
they need, for each function, what it does to every chain of the volume (that chains
end, that they are disjoint, how many clusters are in none), by induction along chains
that the function is changing.  Every other safety property and refinement of a passing
run is proved.

## Findings

| Where | What | Shown by |
|---|---|---|
| `DuinoCube/rpc.cpp:120` | `RPC::begin` returns while the coprocessor boots with an undriven status wire; without a pull towards BUSY noise passes for an acknowledgment and the call is lost | `MCRpcFloating` |
| `firmware/shmem.cpp:148` | a size close to 2^16 wraps to 0 blocks and damages the table | `MCShmemWrap` |
| `firmware/rpc_file.cpp:107` | `rpc_file_write` reads instead of writing and counts whole buffers | `MCRpcFileWrite` |
| `firmware/boot.cpp:313` | `file_selected` is never reset: after a refusal any button asks again, about another file | run `boot_ask` |
| `firmware/fatfs/ff.cpp:1015` | `create_chain` takes a disk error for the end of the chain: one passing read error, and the rest of a file is cut off with success reported | run `fat_glitch` |
| `DuinoCube/core.cpp:94` | `waitForEvent` compares the mask of bits that should be 0 with the bits that are 1: a wait for the end of the blank ends inside it | run `core_wait` |
| `firmware/usb.cpp:120` | the stick is initialized to 127, which reads as pushed; a stick resting at 0x80 is reported without a callback, and the boot menu waits for its release | `MCUsbHostCentre` |
| `firmware/usb/Usb.cpp:325` | the bus is looked at once, at power-on: a gamepad plugged in later is never found, a replaced one never enumerated, `ERROR` never left | reading; `vbusState` of `UsbHost` is constant |
| `firmware/fatfs/mmc.cpp:360` | a second initialization that fails clears the kind of the card but leaves it marked as initialized: a block addressed card then gets byte addresses, other sectors than asked for, and answers with success | `KindKnown` of `Mmc` |
| `firmware/display.cpp:135` | the loops that load palette and image have no other end than the size of the file: a card that fails keeps the menu from coming up | the exception in `MenuComes` |
| `firmware/fatfs/ff.cpp:2689` | `f_sync` forgets that the file was written before its entry is: tried again after a failure, it succeeds without writing | the exception of `clean` in `Durable` |
| `firmware/fatfs/ff.cpp:2573` | `f_write` stores an error of `create_chain` as the first cluster of the file, and `f_close` writes it into the entry | the exception of `doubt` in `NoCrossLink` |
| `firmware/fatfs/ff.cpp:3209` | `f_getfree` keeps a count that a disk error has cut short | the premise of `Accounted` |
| `firmware/boot.cpp:293` | an empty directory lets the cursor run to 255, behind the array of names | reading; `ListSound` is about directories with files |
| `firmware/boot.cpp:347` | Run program leads back to the menu as long as the boot switch is on | reading; the premise of `RunRuns` |
| `DuinoCube/pins.h:37` | the status pin is documented active low, used active high | reading |

Noted while reading, of less weight: `sync_fs` leaves FSInfo in the window under the
number 0, so `f_getlabel` reads the serial number of an unpartitioned FAT32 volume
from the wrong sector; `f_truncate` to 0 frees a chain that the entry still names until
the next sync; results of writing the second FAT are not looked at; a stale FSInfo
after a loss of power lets the free count wrap; `display_text_init` puts the font at
the start of the VRAM whatever is in use there; the guard of `file_write`
(`firmware/file.cpp:135`) is inverted; `firmware/flash.cpp:222` subtracts the wrong way
round, in a function that nothing calls; `DuinoCube.begin` uses the graphics core and
the RAM before it has brought the coprocessor back in step (`DuinoCube.cpp:67`), which
the comments at `Core!Loaded` and `Rpc!MemAccess` are about.

## What is not covered

* Electrical timing, SPI bytes on the wire, formatting, drawing, debug output.
* The Arduino's own reset of the coprocessor takes effect at once.
* `RpcFile`: names (a file is a model value; one of more than 255 characters would run
  past the string buffer of `DuinoCube/file.cpp:42`), writing (nothing on the coprocessor
  writes), addresses that wrap around the shared RAM.
* `Shmem`: addresses past the end of the heap, which `shmem_free` does not refuse and
  whose effect is undefined.
* `Isp`: a target that never finishes (the code has no timeout); more than one
  spoiled byte per page, which a 32-bit XOR need not find.
* `Boot`: what the menu does with names; uninitialized memory behind the name array.
* `Boot` lets the pad be released; with a stick that rests at 0x80 it never reads as
  released (see findings).
* `UsbHost`: `outTransfer` and `newInTransfer`, which nothing reaches; reports of other
  lengths than eight bytes; the hat, which is discarded.
* `Fat`: files past 4 GB, which `f_write` stops at (`ff.cpp:2563`); FAT12, whose entries are split over two sectors; long names, fast seek,
  `f_forward` and file locks, which `ffconf.h` turns off; `f_fdisk`, `f_gets`, `f_printf`, which
  nothing calls; the backups that `f_mkfs` makes; the time in an entry.
* `Mmc`: the bytes of a command, `CTRL_POWER` (its functions are empty), the contents of
  CSD, CID and SD status (a block of other data is delivered as one sector); the
  write protection and socket switches, which the board does not have.
* `Display`, `Core`: the layout of tile maps and lines of text (a tile map is one cell),
  `font.cpp`, `readByte`, `readWord` and `readData`, horizontal blanks (same path).  The
  palette of the background is one cell, read in one piece and not 64 bytes at a time; its
  size is kept in 16 bits (`display.cpp:189`), which truncates that of a file of 64 KB and
  more.  The boot screen after a sketch has reset the core while programming let it run.
* `firmware/flash.cpp`: `flash_reprogram` is called from nowhere.
* SPI, UART and printf: register access that waits for a byte; who may use the bus is
  a property of the models of its users.  Esplora controls: analog inputs of another
  board, without state.  Examples and desktop tools: no part of the system.

## Plan

Done, in this order: the core path of a call (`Rpc`), what calls do (`Shmem`,
`RpcFile`), the two ways the coprocessor takes over (`Boot`, `Isp`), the gamepad
(`UsbHost`), what lies under the file service (`Fat`, `Mmc`, `Timer`), the screen
(`Display`, `Core`), and the proofs of the safety properties of all of them, of `Fat` as
far as they are about sectors and not about chains.  Left:

1. Proofs about the chains of `Fat`: `NoCrossLink` first, on which the others rest, with
   what each function of the FAT does to the chains as its lemma.
2. `System`: one sketch that allocates, reads a file and frees, with `RpcCall`, `Heap`
   and `FileStore` composed: the buffers of calls are never handed out twice.
3. FAT12 in `FatVolume`; `flash_reprogram`, should it ever be called.
