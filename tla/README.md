# Verification of the Daisy bootloader

TLA+ specifications of the bootloader in `shared/` and `bootloader/main.cpp`,
the TLC configurations that check them, and TLAPS proofs of what matters most.
Everything is translated from the source; `PROJECT.json` names the lines behind
each definition. File and line references below are to `src/`.

## 1. The system

The bootloader runs bare-metal on one STM32H750 core. Concurrency comes from
interrupts, and persistence from the QSPI flash and the backup SRAM.

| Actor | Code | Runs |
|---|---|---|
| main loop | `main`, `Bootloader::LoopProcess` | for ever, until it resets the device |
| USB interrupt | ST DFU class driver → `MEM_If_*_FS`, `enable_jump` | preempts the loop anywhere, runs to completion |
| audio interrupt | `AudioProcess` → `ManageLed`, button | preempts the loop at a fixed rate |
| clock | `System::GetNow`, wraps at 2^32 ms | always |
| outside | DFU host, drives, reset, power, application | at any time |

### Components

**DFU handle** (`shared/dfu.cpp`). State: `io_state` (busy, type, address),
`io_buffer`, `dfu_initiated`, `dfu_complete`, the flash. The interrupt places a
request (`MemoryErase`, `MemoryWrite`) when `busy` is down and answers an error
otherwise; the main loop performs it (`ProcessIoRequests`) and lowers `busy`.
Hard: no lock but the flag, refused commands that must be retried, a leave request
that overtakes the last write, a host that goes away with a request pending,
a device that fails to come up. Correct when: a request is done once, whole and
in order; a running one is left alone; none waits for ever; the flash holds the
image when it is booted.

**Start-up and hand-over** (`startup_process`, `Init`, `FillTargetMemory`, end of
`LoadProgramAndJump`). State: `boot_info` (status, data) in the backup SRAM, the
program copied to the SRAM; both survive a reset and neither survives a power
loss. The bootloader writes JUMP and resets, so that the program starts from a
clean device; the application writes a mode and resets to come back. Hard:
a reset between any two stores. Correct when: one jump per hand-over, one
grant per mode, no start-up that resets for ever, no jump to something that is
no program.

**Main loop** (`LoopProcess`, `LoadProgramAndJump`, `InitDFU`, `DeinitDFU`). State:
`state_`, the two skip flags, `dfu_initialized_`, the timeout, `do_error_`,
`boot_button_pressed_`. Polls SD, USB, DFU and the timeout in turn. Hard: flags
written by two interrupts and read one after the other, attempts to boot that
fail and return, devices taken down on the way. Correct when: a finished download
is what is booted, an unfinished one is not, the timeout is kept, sources go on
being polled, errors end.

**File loader** (`SearchBin`, `EnsureValidBinary`, `LoadFAT`, `UpdateLog`). Finds the
first `.bin`, compares it with the flash buffer by buffer, copies it page by page, writes a
log. State: the flash, the file and its position, the skip flag. Hard: results of reads and
flash operations are ignored, so a failing read looks like the end of the file; lengths at a
page boundary; resets in the middle of a page. Correct when: an answer or a log line says
what is true of the flash, and nothing but the file's pages changes.

**Status LED and button** (`ManageLed`, `TriggerError`, `ErrorLed`, `HappyLed`,
`AudioProcess`). State: flag, level, tick and step of two sequences. Hard: `TriggerError` in the
loop against `ErrorLed` in the interrupt; errors and presses on top of each other; a clock
that wraps; a board without an LED. Correct when: an error blinks its code, sequences end,
an idle bootloader breathes.

**Mux button** (`mux_button.cpp`). State: locals of one call. Samples the encoder behind
an analog multiplexer for a second at start-up. Hard: a bouncing line, a clock that
wraps. Correct when: a held encoder gives the infinite mode, one that was let go does not.

**USB descriptors** (`usbd_desc.c`). State: the buffer of the serial number. Correct when:
a host can tell boards apart, and recognises the old serial number in the new one.

**DFU log** (`dfu_log.h`), and what is not the bootloader: utilities, examples, build files.

libDaisy (QSPI driver, memory regions, `ResetToBootloader`), the ST USB stack,
FatFs and the DFU host are external: modelled from how `src/` uses them.

## 2. Modules

| Module | Models | Uses |
|---|---|---|
| `QspiFlash` | the NOR flash and requests to it, as operators | |
| `BlockStore` | abstract: a store with a mailbox of one request | `QspiFlash` |
| `DfuIo` | the DFU handle, all interleavings | `QspiFlash`, refines `BlockStore` |
| `DfuIo_proofs` | theorems about `DfuIo` | |
| `DfuSession` | abstract: a download as the main loop sees it | |
| `DfuDownload` | host + handle + poll and test of the loop + power loss | extends `DfuIo`, refines `DfuSession` |
| `DfuDownload_proofs` | theorems about `DfuDownload` | extends `DfuIo_proofs` |
| `BootHandoff` | `boot_info` across resets | |
| `BootHandoff_proofs` | theorems about `BootHandoff` | |
| `MuxButton` | the sampling of the encoder | |
| `BootRun` | abstract: what one run of the main loop may do to the flash | |
| `BootSystem` | hand-over + encoder + timeout + downloads that take time | extends `BootHandoff` and `MuxButton`; built from the actions of `BootHandoff` and `BootRun` |
| `BootSystem_proofs` | theorems about `BootSystem` | extends `BootHandoff_proofs` |
| `BootLoop` | the main loop against both interrupts, clock and drives | refines `DfuSession` and `BootRun` |
| `BootLoop_proofs` | theorems about `BootLoop` | |
| `FatLoader` | search, compare and copy of a file, on a failing drive | `QspiFlash` |
| `FatLoader_proofs` | theorems about `FatLoader` | |
| `StatusLed` | LED sequences and button, store by store | |
| `StatusLed_proofs` | theorems about `StatusLed` | |
| `UsbDescriptors` | descriptors and serial number, as operators | |
| `UsbDescriptors_proofs` | theorems about `UsbDescriptors` | |
| `MC*` | constants for TLC; `MCDfuIo` also evaluates `UsbDescriptors` | |

How the modules meet. Two abstract specifications lie between them, and what one side assumes
of the other is in each case a refinement that the other side is proved to satisfy:

- `DfuSession` is the download at the grain of the main loop: erase, write, last write, leave, the two
  flags, and whether the image is whole. `DfuDownload` implements it with the host, the handle and the
  flash in detail and a loop that only polls; `BootLoop` implements it with the loop in
  detail and a host that goes its way. So the host of `BootLoop` may do what that of
  `DfuDownload` does, and both jump under the condition of `Jump`.
- `BootRun` says what a run of the main loop may write, and when it may hand over what is in the flash.
  `BootLoop` implements it, and `BootSystem` takes its actions as the main loop of each start.

Less formally, `BootLoop` takes `ProcessIoRequests` as one step because `DfuIo`
proves that the handlers leave a running request alone; `FatLoader` takes the decision to load
as one step because `BootLoop` looks at what comes between the test of `dfu_initiated` and
`DeinitDFU`; of an error sequence `BootLoop` keeps only the count of its steps, whose
details are those of `StatusLed`.

Two sides are simpler than the code allows. `BootLoop` lets a host go silent once it has left, and takes a
flash operation of a download as one that succeeds; `FatLoader` is where flash operations fail.

Each module that is checked also holds a few variants of its actions
(`MemoryWriteNoCopy`, `ConsumeJumpLate`, ...). They are plausible bugs, in no
next-state relation; replacing the action by its variant breaks the property it is
paired with in `PROJECT.json`, which shows that the property would notice.

### `DfuIo`: state and actions

A handler is one action, since nothing preempts the interrupt.
`ProcessIoRequests` is cut where the interrupt can come: `BeginIo` (reads the
request), `EraseUnit` once per unit, `EraseReturns`, `WriteUnit` (reads `io_buffer`
when it programs), `ClearBusy`. `InitDFU` zeroes the USB handle, may fail, and
leaves `io_state` alone; `DeinitDFU` takes the device down. A unit is 4 kB: a DFU
transfer and a small segment; an erase is `SectorUnits` of them (64 kB). Units
programmed over other content become `Garbled`. `request` is the command the
class driver holds in dfuDNBUSY: a refused handler call changes nothing and is made
again when the host polls.

`BlockStore` has two actions, `Accept` and `Perform`. The mapping empties the mailbox
and applies the request when `ProcessIoRequests` begins it, and presents the flash
as it will be when the running operation is over; unit steps and `ClearBusy`
stutter.

### `DfuDownload`

Adds a host that erases each page (as the layout string gives them) before it
writes into it, writes the image in order, and leaves; cut-offs and power losses
at any time, up to `Interruptions`; and the two lines of `LoopProcess` that
matter: the poll (`PollNothing`, `PollIo`) and the test of `dfu_complete`
(`CheckDfu`). Between the two lie a few instructions. `WindowEvents` = 1 is the
assumption that at most one USB event falls into them: with two, a host could get its last write
accepted and leave between them, and the loop would boot an image that is not
written. A power loss leaves the unit that the flash is at work on (`AtWork`) reading as
anything, the payload that should get there and the erased state included.

`ImplementsSession` maps this to `DfuSession`. The host of the abstraction begins with the first
erase that is placed and has sent everything when its last write is placed (`HostSeen`), so a
refused command stutters until it is placed; `IoSeen` tells the write of the last unit from the others.

### `BootHandoff`

`place` is where the processor is. A reset can come at every place. `handed`,
`asked` and `torn` are history: a JUMP written and not consumed, a mode asked for
and not granted, a JUMP separated from its data by a reset. `BufferFile`: the files of
drives go through a buffer in the SRAM, so comparing one, too, overwrites the copy of the program there.

### `MuxButton` and `BootSystem`

`MuxChannelHeldLow` is cut at each of its delays: the line may change at every tick and
between them. `System::Delay(n)` of libDaisy lasts `n` or `n + 1` ticks. `high` and `gap`
remember what the line did during the call, which the code does not know: a release shorter
than the distance of two samples can be missed, so `EncoderDecides` speaks of a line that
was never high and of one that was high for `Long` (three) ticks.

`BootSystem` conjoins each action of `BootHandoff` with what happens to the encoder (which is
sampled in the place `init`), to what this start has written (`session`) and to the content of the
flash. `WriteProgram` and `LoadProgram` are the actions `Write` and `Load` of `BootRun`, so an incomplete
download is not loaded by the run that began it and the infinite mode loads only what was
received in it; `Forget` is what any reset does. By this construction each step is one of
`BootHandoff` or leaves its variables alone (lemma `SysHandoff` carries `HandoffInv` over), and the
run keeps to `BootRun`; what is checked is what the parts do together. `cut` is history: a download was cut off by
a reset, or a file was not read in full, and no program was completed since.

### `BootLoop`

The loop is cut at each read of a variable that an interrupt writes:
`dfu_complete` (504), the clock, `timeout_start_` (519), `dfu_initiated` (520, 676),
`do_error_` (522). `LoadFAT`/`FatDeinitDFU`, and `FillTargetMemory`/`DeInitAndReset`,
are apart because the device stays up in between. `program` says what the flash
holds: nothing bootable (`none`, `bad`), a part of something, or a program named
after its origin; at the start it may be any of these but a download of this run, also the
program of one of the drives. The programs on the two drives differ. A write from a drive may go
wrong unnoticed; `fat_failed` remembers it. The flash may hold an incomplete program from the start, left by
an earlier run; `written` is history and says that this run has changed it. With `UsbInitFails`
every call of `USBInit_FS` may fail, the first one included.

`ImplementsSession` maps `jumped` to the place after the reset and "whole" to a flash that holds what the
host has sent (`dfu`, or `bad` when that was no program). `ImplementsRun` maps `fill`, `deinit` and `jumped`
to a run that has passed the tests of `LoadProgramAndJump`.

### `FatLoader`

One action for each call of FatFs or of the QSPI driver: `Mount`, `OpenDir`, `ReadDir`, `OpenFile`,
`ReadHeader`, `Compare` (one round of the loop), `CheckDfu`, `ErasePage`, `ReadPage`,
`WritePage`, `CloseFile`, and `Return` to the loop, which skips the drive or boots. A call of FatFs
succeeds, or fails because the drive is gone or by a fault. `ReadsUnits` is `f_read`: a failing
one delivers any part of what is left and leaves the file in error until it is opened again,
as FatFs does. An erase or a write (`Operation`) is done, or fails and leaves anything between
the old flash and the new one (`Torn`), as it does when a reset stops it; the code goes on in the same
way, and `flash_err` is history. `HeaderIs` is what the header is taken for: it is that of the file
when eight bytes were read (`WholeHeader`), and any when the read failed, when the file is empty, and
when it has one to seven bytes (`Stubs`), since the two variables are then uninitialised in whole or in
part. A unit is a part of a page, and the last payload of a file stands for the bytes it has, however
few; a program is recognised by its first unit.

### `StatusLed`

The audio interrupt is one action. `TriggerError` is cut at each store: the three fields
before the call of `GetNow` in any order (the compiler may choose), then the tick, the LED, the code. `Fail`
starts one call, or the two that `FillTargetMemory` and its caller make. `blinks` and `raced`
are history. The race at line 342 is in the model: `raced` says that the
interrupt stepped the sequence while it was being set up. `CodeBlinks` excepts that
case only: the comment in `bootloader.h:85-86` ("the number of times the LED will
blink") is true but for the race, and for the code 1, which its caller overwrites.

### `UsbDescriptors`

Operators only. `IntToUnicode` gives the eight digits of a word by division;
`Get_SerialNum` writes three words of them, or leaves the buffer when the first and the last
word of the unique ID cancel out. The radix is a constant, 16 in the code; TLC evaluates with 2, so
that `WordSize` is small.

## 3. Runs

| Run | Instance | Shows |
|---|---|---|
| `dfu_io` | 3 units, erases of 2, 2 payloads | `IoInv`, `RequestStable`, `ImplementsFairStore`, `RequestServed` |
| `dfu_download` | 7 units, image of 3 across a sector boundary, 2 interruptions | `DlInv`, `DownloadWhole`, `NeighboursIntact`, `NeverGarbled`, `ImplementsSession`, `DownloadEnds` |
| `boot_system` | hold of 4 ticks, settling of 1, clock modulo 7 started at 0 and at 5 | `SysInv`, `HandoffInv`, `ResetLeadsToBootloader`, `FaultOnlyTorn`, `TornBootsOnlyAfterCut`, `JumpOncePerHandoff`, `ModeGrantedOnce`, `EncoderDecides`, `StartupEnds` |
| `boot_loop` | timeouts 0 and infinite, clock modulo 3, 2 error steps, 1 change of media | `LoopInv`, `DownloadedBoots`, `PartialNeverBoots`, `DfuKeptUp`, `InfiniteWaits`, `ImplementsSession`, `ImplementsRun` |
| `boot_loop_live` | timeout 0, clock modulo 2, 2 error steps, fixed media, USB may fail to come up | `SourcesPolled`, `ErrorEnds`, `BootsWhenLeftAlone` |
| `fat_loader` | 4 units in pages of 2, 7 drives, 3 faults | `LoaderInv`, `FlashedWhole`, `SkippedEqual`, `OnlyFilePages`, `OnlyPrograms`, `LogTruth`, `Installs` |
| `status_led` | clock modulo 3, periods of 2 and 1, 1 blink, code 2 (and 1), 2 errors, 2 presses | `LedInv`, `CodeBlinks`, `SequencesEnd` |

Why the bounds are enough. In `dfu_io` one erase is whole, one is cut by the end
of the chip and two overlap; two payloads tell a stale buffer from a fresh one,
and addresses outside the region exist. In `dfu_download` the image fills one sector
and part of the next, with foreign units on both sides; two interruptions are a
cut-off in each of two attempts, so that a request of the first meets the second. In
`boot_system` the number of starts, resets and downloads has no bound; the hold has four
samples and more, is long enough for a release that cannot be missed, and the clock wraps before,
in or after it. In `boot_loop` the wait can be shorter or longer than the
timeout, the infinite timeout is the largest value of the clock as in the code, the difference
at line 519 can be negative, and `Horizon` (the loop comes round before the clock has gone that
far) keeps one wait for a finite timeout below a full turn of the clock, while in the infinite mode
the clock goes round and round within one wait; an error sequence of two steps can be started
over half-way. In `fat_loader` the drives hold an empty file, one too short for a header, a part of
a page, exactly one page, one that ends in the second page, a file that is no program, and entries to
be passed over; three faults are, say, a read and a write that fail and a reset on top of them, on
every initial flash. In `status_led` a second error and a second press meet every stage of the first,
and each period is shorter than a turn of the clock. All runs
are of the build with the internal USB port: `DSY_DFU_USE_EXT_USB` (`ExtUsb`) only takes
CHECK_USB out of the round.

`ImplementsStore` is a theorem and has no place in a run: it is the safety part of `ImplementsFairStore`.

`MCDfuIo` carries two assumptions that TLC evaluates before it starts: what `UsbDescriptors`
says of serial numbers, for unique IDs whose words are at the boundaries of a digit, of half a word and of
a word.

### Disagreements found

Five runs check a sentence of the documentation, or a comment of the code, and end in a
counterexample. `PROJECT.json` quotes the lines.

| Run | Sentence | What the code does |
|---|---|---|
| `full_timeout` | the timeout is waited for (README.md:154) | the end of an error sequence between lines 519 and 522 of `bootloader.cpp` boots at once |
| `jump_waits` | no jump once a download has begun (dfu.cpp:159) | an erase accepted after the flag was read (676, 520) is lost in the jump |
| `segments` | 4 kB segments can be rewritten (dfu.cpp:403) | every erase covers 64 kB |
| `sd_precedence` | SD cards take precedence (CHANGELOG.md:57) | not when the card's program is in the flash already |
| `hot_plug` | drives can be plugged in at any time (CHANGELOG.md:56) | not after a failed attempt to boot, which takes the USB host down |

Seven more have no run of their own: the property in the last column holds, and names what the sentence
leaves out.

| Sentence | What the code does | Property |
|---|---|---|
| the infinite timeout is about 50 days (README.md:155), or 1000 hours (bootloader.cpp:91; "permanently", it says too) | no 32-bit difference is greater than `UINT32_MAX` (519): the wait never ends by itself, and the clock wraps around in it | `InfiniteWaits` |
| SD and USB are checked in a loop (CHANGELOG.md:31) | not when the USB peripheral does not come up again after a bad download: `InitDFU` fails unnoticed (511), `dfu_complete` stays up (dfu.cpp:108), and the loop stays in `CHECK_DFU` | `SourcesPolled` |
| an invalid binary gives an SOS and is ignored (CHANGELOG.md:49) | the header of a file of one to seven bytes is in part uninitialised (585); with the right values there the file is copied over the program | `OnlyPrograms` |
| the same | an invalid binary that the flash begins with already is ALREADY_LOADED (646): no SOS | `SkippedEqual` |
| "Successfully flashed file" (bootloader.cpp:566) | logged also after a read, an erase or a write that failed (696, 698, 716) | `LogTruth` |
| an error blinks as often as its code says (bootloader.h:86) | less, when the audio interrupt runs between the stores of `TriggerError` (342) | `CodeBlinks` |
| an idle bootloader breathes (bootloader.h:32) | the LED freezes once the clock has reached its largest value (327) | none: the clock always gets there |

What nobody promises is excepted without more: `SequencesEnd` leaves out the board without an LED, where a press
of the button stops the error sequence, and `DfuKeptUp` a write from a drive that failed. The comment at
bootloader.cpp:434-435 counts a drive that fails to mount as an error; `SearchBin` answers ABSENT,
as `Mount` does.

### Fairness

- `DfuIo`: weak fairness of `ProcessIoRequests` (the loop calls it on every round and
  flash operations end) and of the class driver's calls (a connected host polls
  GETSTATUS until the command is placed).
- `DfuDownload`: weak fairness of the loop; strong fairness of the host's next
  step and of its polls, since the window and the busy flag disable them again and
  again and a host retries. `DownloadEnds` further rests on finitely many interruptions.
- `BootSystem`: weak fairness of what the processor does next, the clock it waits for
  included; nothing is assumed of downloads, applications, encoders or resets.
- `BootLoop`: weak fairness of the loop, of `ErrorLed` (the audio interrupt fires
  at a fixed rate, and the LED is configured, as in `main.cpp`) and of the clock. Nothing
  is assumed of hosts, buttons or drives.

- `FatLoader`: weak fairness of the loop, whose calls return. `Installs` speaks of what follows
  when the bound on faults is used up, that is, once nothing goes wrong any more.
- `StatusLed`: weak fairness of the audio interrupt, of the stores of `TriggerError` and of
  the clock. Two named assumptions are in the guard of `Tick`: the interrupt comes at least once a
  millisecond (libDaisy's block is 48 samples at 48 kHz), and `TriggerError` is over within one.

Deadlock is not checked where the model ends in the jump or in a boot
(`DfuDownload`, `BootLoop`), or rests with the drive ruled out and no fault left (`FatLoader`); it is
checked in `DfuIo`, `BootSystem` and `StatusLed`.

## 4. Proofs

For every flash and sector size, set of payloads, image, page layout, drive, clock size, period, hold time
and bound that satisfies the assumptions stated beside the constants:

| Theorem | Statement |
|---|---|
| `IoInvariant` | `Spec => []IoInv` |
| `RequestStability` | `Spec => RequestStable` |
| `Refinement` | `Spec => ImplementsStore` |
| `DownloadInvariant` | `DlSpec => []DlInv` |
| `DownloadIsWhole` | `DlSpec => []DownloadWhole` |
| `NothingIsGarbled` | `DlSpec => []NeverGarbled` |
| `NeighboursStayIntact` | `DlSpec => []NeighboursIntact`, when `ErasesInPages` |
| `DownloadImplementsSession` | `DlSpec => ImplementsSession` |
| `HandoffInvariant` | `Spec => []HandoffInv` (of `BootHandoff`) |
| `ResetsLeadToBootloader`, `FaultsAreTorn` | the two safety properties, from it |
| `JumpsAreHanded`, `ModesAreGrantedOnce` | the two action properties, from it |
| `SysInvariant`, `TornBootsAreCut`, `EncoderIsObeyed` | `SysInv`, `TornBootsOnlyAfterCut`, `EncoderDecides` of `BootSystem` |
| `LoopInvariant`, `DownloadsBoot`, `PartialsNeverBoot`, `DfuIsKeptUp`, `InfiniteModeWaits` | the invariants of run `boot_loop` |
| `LoopImplementsSession`, `LoopImplementsRun` | `Spec => ImplementsSession`, `Spec => ImplementsRun` (of `BootLoop`) |
| `LoaderInvariant`, `FlashedIsWhole`, `SkippedIsEqual` | the invariants of run `fat_loader` |
| `LoadsKeepToTheirPages`, `LoadsOnlyPrograms`, `LogIsTrue` | its action properties |
| `LedInvariant`, `ErrorsBlinkTheirCode` | `LedInv`, `CodeBlinks` |
| `SerialsTellChips`, `SerialsAreCompatible` | `SerialTells`, `LegacyPrefix` for every unique ID |

*DFU handle.* Types alone are not inductive: that a write has its payload needs
`PayloadReady`, and that the running step is the one of the request needs
`BusyDuringIo`; both hold because handlers act only while `busy` is down.
`RequestStability` is then immediate for the loop and contradictory for the handlers.
`Refinement` maps `BeginIo` to `Perform` and the handlers to `Accept`. The
erase is the hard step: wiping one unit does not change what the whole erase will make
of the flash (`EraseAbsorbsUnit`), and at its end `ErasedSoFar` says that nothing is
left to wipe (`EraseComplete`, `ErasedAtEnd`).

*Download.* `DownloadWhole` speaks of the flash, but between commands the image is
spread over the flash, `io_state` and `request`. The invariant therefore speaks of
`Final`, the flash once all three are done: no step of the handle changes it
(`IoKeepsAccepted`, `ServeKeepsFinal`), an erase or a write of the host extends it
(`ErasesOnTrack`, `WritesOnTrack`), and an interruption starts it over (`FreshStart`).
`LeaveInOrder` gives that at the boot `Final` is the flash.

`NeverGarbled` looks one step further back: a write must find its unit erased, also when it belongs to a
session that was cut off and a new session has begun. `WritesFindErased` says so of the write that
waits for its place and of the one that is placed; in a new session the first page is erased again before
anything is written, so that a unit torn by a power loss (`TornUnit`) is erased too, and `NextUnitErased` takes the rest of the page from `DownloadOnTrack`. `NeighboursIntact` is inductive
with `OfImage`, given that an erase stays in the pages of the host. That hypothesis is `ErasesInPages`: it is true
of the 64 kB pages of the layout string and false of its 4 kB segments, which is what run `segments` shows.
For the refinement the hard step is the end of the last write: `SessionInOrder` keeps that whoever writes the
last unit, a session that was cut off included, finds all the others done (`LastPlaced`, `LastMakesWhole`),
and that the host is never seen to go back (`PlacingSeen`, `SendingUnseen`).

*Hand-over.* `FaultOnlyTorn` is not inductive: that the jump finds a program depends
on what was stored two resets before. `HandedRuns` follows it from the copy through
the stores to the entry, `JumpHanded` and `ModeKept` tie the history to `boot_info`.

*System.* Each step of `BootSystem` is a step of `BootHandoff` or leaves its variables alone
(`SysStep`), so the invariant of the hand-over can be used (`SysHandoff`). `EncoderDecides` needs what the sampling
loop knows between samples: a line that is high at a sample ends the hold, so it is never high
for `Long` ticks in it (`SampledInTime`), and a press that was there from the call on is in every sample
(`PressSeen`); `HeldInFull` is the test of the wrapping difference.
`TornBootsOnlyAfterCut` follows from `SessionLocal`: a start that is not in the main loop has received nothing.

*Main loop.* What the loop decides it decides on variables it has read before; `LoopIInv`
says what an old value is still worth. A host that has left is silent and its last page is
stored or waits (`LeftForGood`, `LastSent`, `Polled`, which use that few USB events fit between two reads); on a flag
that was read down a download can have begun, but not have come further than its first erase
(`Decided`); the place of the loop tells which case of the switch it is in and what was tested
(`InCase`, `FromDrive`, `FromDfu`, `Tested`); the device is down only on the way to the reset,
failures excepted (`DownToJump`); a part of a program is marked by the flag of its download, or is one
of a failed write from a drive (`PartialMarked`). `NeverElapsed` is
`InfiniteWaits` at the cut before: no difference of two times exceeds the largest one.

The two refinements need what the loop does with the device down: after a download was
finished, `attached` is false only after the jump, or when what was downloaded is no program and nothing of it
waits (`DownAfterDfu`), so there is nothing to hand over on the flag of a host that is gone. `WrittenHere` ties
the flash to this run: a downloaded program, or a file that failed, means `written`, and the old program its
absence. Most
steps of the loop change nothing that the abstractions see (`Unseen`, `UnseenSteps`); those that do are taken one by one in
`SessionStep` and `RunStep`, and `LoadsWhatItMay` shows the guard of `Load` from `Decided` and `PartialMarked`.

*File loader.* `LoopsAgree` is the loop invariant of both loops: up to `data_written` the
flash equals the file, and the page that is being written is erased, so that programming gives the
payload, all unless `flash_err` is up. `LastPage` turns a short read into the end of the file, unless
`file_err` is up. `ProgramCopied` needs the compare for a header that could not be read: what follows it
reads nothing, which is equal to everything. A header that is only too short has no such second line.

*LED.* `CallSteps` counts the stores that `TriggerError` has made, in whatever order;
`ErrorSteps` relates the step counter to the blinks seen.

*Serial numbers.* Eight divisions by the radix use a word up (`DropDigit`), and equal
quotients with equal remainders are equal numbers (`DigitsTell`), so the digits determine the word;
the last word then gives the first one from the sum.

Only model-checked is liveness (`ImplementsFairStore`, `RequestServed`, `DownloadEnds`, `StartupEnds`,
`SourcesPolled`, `ErrorEnds`, `BootsWhenLeftAlone`, `Installs`, `SequencesEnd`): fairness
and ENABLED are beyond the prover. Every other property of a passing run is a theorem.

## 5. Not modelled

Reads and status answers of the DFU handle change no state. The DFU log is written and never
read. Of the boot log only the last line is kept, of the breathing only when it steps, of the
descriptors not their headers and lengths. The flash operations of a download (dfu.cpp:363, 378) succeed
or are cut off by a power loss: the code ignores their results and `MemoryStatus` answers OK whatever
happened, so a host cannot know. After a power loss a torn unit of `DfuDownload` is never `Garbled`, which is kept for
what is programmed over. That `Init` zeroes the first words of the copy in the SRAM (bootloader.cpp:128) is in
`BootHandoff`, but nothing that is checked depends on it. `happy_step_`, which no press resets, the
code that a second `TriggerError` overwrites, the LED after a load that failed, and the device that `LoadFAT` takes down and
nobody brings up again (684) are as in the code; no document says how they should be, so no property
does. A file larger than the chip is left out: what
the driver does beyond its end is not in this repository. An image that a power loss cuts off
mid-way is booted by the next start, because nothing in the flash marks it as
incomplete: `PartialNeverBoots` speaks of what the same run has written, and
`TornBootsOnlyAfterCut` says that only such a reset, or a file that was not read in full, leads there. Board configuration in
`main.cpp`, utilities, examples and build files are no part of the bootloader's logic.

## 6. Plan

Done, in this order: `QspiFlash`, `BlockStore`, `DfuIo` with its refinement and
proofs; `DfuDownload` with proofs; `BootHandoff` with proofs; `BootLoop`; `FatLoader` and
`StatusLed` with proofs; the proofs of `BootLoop`; `MuxButton` and `BootSystem` with refinement and
proofs; `UsbDescriptors` with proofs; the proofs of `NeighboursIntact` and `NeverGarbled`;
`DfuSession` and `BootRun`, with proofs; failing flash operations and short files in `FatLoader`, torn units in
`DfuDownload`.

Next:

1. A flash operation of a download that fails, as an outcome of `EraseUnit` and `WriteUnit`, with the answers of
   `MemoryStatus`; `BlockStore` would have to allow a request that is performed in part.
2. What `BootLoop` takes from `FatLoader` and `StatusLed` as refinements too: an abstract drive (absent, error,
   loaded already, loaded, loaded with an error unnoticed) and an abstract error sequence.
3. The DFU log as a bounded queue with two producers, if something comes to read it.
