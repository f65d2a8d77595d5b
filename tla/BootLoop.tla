------------------------------ MODULE BootLoop ------------------------------
(***************************************************************************)
(* The main loop of the bootloader (Bootloader::LoopProcess and            *)
(* LoadProgramAndJump in shared/bootloader.cpp) with everything that       *)
(* preempts it: the USB interrupt (the handlers of shared/dfu.cpp), the    *)
(* audio interrupt (ErrorLed, the boot button) and the millisecond clock.  *)
(*                                                                         *)
(* An interrupt handler is one action.  The main loop is cut at every read *)
(* of a variable that an interrupt writes.  ProcessIoRequests is one step  *)
(* here: DfuIo shows that the handlers leave a running request alone.      *)
(*                                                                         *)
(* NextStateOnce, SourceErrorRetried, LoadFATAnyway, ReinitForgotten,      *)
(* TimedOutDuringDfu, ReadTimeoutStartInclusive and MemoryEraseUnannounced *)
(* are plausible bugs in the definition they are named after; no Next has  *)
(* them.                                                                   *)
(***************************************************************************)
EXTENDS Integers

CONSTANTS Timeouts,     \* what startup_process may return
          Wrap,         \* the clock counts modulo Wrap (2^32 in the code)
          Horizon,      \* bound: a finite wait is looked at within Horizon ticks
          ExtUsb,       \* DSY_DFU_USE_EXT_USB: no USB drives
          ErrorSteps,   \* 2 * error_code_ + 1, the steps of an error sequence
          MediaChanges, \* bound on insertions and removals of media
          UsbInitFails  \* USBInit_FS may fail

ASSUME ClockAssumption ==
  /\ Wrap \in Nat /\ Timeouts \subseteq 0 .. Wrap - 1 /\ Horizon \in 1 .. Wrap - 1
  /\ MediaChanges \in Nat /\ ErrorSteps \in Nat \ {0}
  /\ ExtUsb \in BOOLEAN /\ UsbInitFails \in BOOLEAN

State == {"CHECK_SD", "CHECK_USB", "CHECK_DFU", "CHECK_TIMEOUT"}
Source == {"CHECK_SD", "CHECK_USB"}

(* What SearchBin meets on a medium: no drive or one that does not mount, one
   that it cannot read or whose first .bin file is no program, a program. *)
Medium == {"absent", "broken", "good"}

(* What is in the QSPI flash: no valid stack pointer, a valid one with an
   invalid entry point, a program cut off after its start, or a whole program,
   named after where it came from. *)
Program == {"none", "bad", "partial", "old", "CHECK_SD", "CHECK_USB", "dfu"}
Bootable == Program \ {"none", "bad"}

Pc == {"poll", "dispatch", "fatdeinit", "fatwrite", "load", "fill", "deinit",
       "return", "reinit", "start", "ongoing", "test", "jumped"}

VARIABLES
  state_, pc,
  code,                 \* error code of the running LoadProgramAndJump
  skip, media, changes, \* sd_skip_ and usb_skip_; the drives
  usb_host,             \* the USB host stack msd_ is up
  program, fat_failed,  \* the flash; a write from a drive went wrong
  written,              \* history: this run has changed the flash
  io,                   \* the pending request of the DFU handle
  dfu_initiated, dfu_complete,
  attached,             \* dfu_initialized_, and USBInit succeeded
  host, events,         \* where the DFU host is; its events since the poll
  do_error_, error_step_, boot_button_pressed_,
  now, timeout_, timeout_start_,
  local_now, elapsed, ongoing  \* locals of CHECK_TIMEOUT, reset when they die

ctl == <<state_, pc, code>>
fat == <<skip, media, changes, usb_host, fat_failed>>
flash == <<program, written>>
dfu == <<dfu_initiated, dfu_complete, attached>>
led == <<do_error_, error_step_>>
timer == <<timeout_, timeout_start_>>
loc == <<local_now, elapsed, ongoing>>
vars == <<ctl, fat, flash, io, dfu, host, events, led, boot_button_pressed_,
          now, timer, loc>>

Init ==
  /\ state_ = "CHECK_SD" /\ pc = "poll" /\ code = 0
  /\ skip = [s \in Source |-> FALSE]
  /\ media \in [Source -> Medium]
  /\ changes = 0
  /\ usb_host = ~ExtUsb
  /\ program \in {"none", "bad", "partial", "old", "CHECK_SD", "CHECK_USB"}
  /\ fat_failed = FALSE /\ written = FALSE
  /\ io = "idle"
  /\ dfu_initiated = FALSE /\ dfu_complete = FALSE
  /\ attached \in IF UsbInitFails THEN BOOLEAN ELSE {TRUE}
  /\ host = "idle" /\ events = 0
  /\ do_error_ = FALSE /\ error_step_ = 0
  /\ boot_button_pressed_ = FALSE
  /\ now = 0 /\ timeout_ \in Timeouts /\ timeout_start_ = 0
  /\ local_now = 0 /\ elapsed = FALSE /\ ongoing = FALSE
-----------------------------------------------------------------------------
(* Main loop: ProcessIoRequests and the switch. *)

Poll ==
  /\ pc = "poll"
  /\ pc' = "dispatch"
  /\ events' = 0
  /\ io' = "idle"
  /\ program' \in CASE io = "idle" -> {program}
                    [] io = "erase" -> {"none", "partial"}
                    [] io = "write" -> {"partial"}
                    [] io = "last" -> {"dfu", "bad"}
  /\ written' = (written \/ io # "idle")
  /\ UNCHANGED <<state_, code, fat, dfu, host, led, boot_button_pressed_, now,
                 timer, loc>>

NextStateOnce == CASE state_ = "CHECK_SD" -> IF ExtUsb THEN "CHECK_DFU" ELSE "CHECK_USB"
                   [] state_ = "CHECK_USB" -> "CHECK_DFU"
                   [] state_ = "CHECK_DFU" -> "CHECK_TIMEOUT"
                   [] state_ = "CHECK_TIMEOUT" -> "CHECK_DFU"

NextState == CASE state_ = "CHECK_SD" -> IF ExtUsb THEN "CHECK_DFU" ELSE "CHECK_USB"
               [] state_ = "CHECK_USB" -> "CHECK_DFU"
               [] state_ = "CHECK_DFU" -> "CHECK_TIMEOUT"
               [] state_ = "CHECK_TIMEOUT" -> "CHECK_SD"

GoOn == pc' = "poll" /\ state_' = NextState

(* TriggerError: the LED sequence starts over. *)
TriggerError == do_error_' = TRUE /\ error_step_' = 0

(* A source that was ruled out before, or where no file is found. *)
NothingThere == \/ skip[state_]
                \/ media[state_] = "absent"
                \/ state_ = "CHECK_USB" /\ ~usb_host

(* EnsureValidBinary finds the flash identical to the file.  It compares files
   that are no program too.  The programs on the two drives differ. *)
AlreadyLoaded == \/ media[state_] = "good" /\ program = state_
                 \/ media[state_] = "broken" /\ program = "bad"

SourceAbsent ==
  /\ pc = "dispatch" /\ state_ \in Source
  /\ \/ NothingThere
     \/ media[state_] = "good" /\ ~AlreadyLoaded /\ dfu_initiated
  /\ GoOn
  /\ UNCHANGED <<code, fat, flash, io, dfu, host, events, led,
                 boot_button_pressed_, now, timer, loc>>

SourceErrorRetried ==
  /\ pc = "dispatch" /\ state_ \in Source
  /\ ~NothingThere /\ media[state_] = "broken"
  /\ TriggerError
  /\ GoOn
  /\ UNCHANGED <<code, fat, flash, io, dfu, host,
                 events, boot_button_pressed_, now, timer, loc>>

SourceError ==
  /\ pc = "dispatch" /\ state_ \in Source
  /\ ~NothingThere /\ media[state_] = "broken"
  /\ TriggerError
  /\ skip' = [skip EXCEPT ![state_] = TRUE]
  /\ GoOn
  /\ UNCHANGED <<code, media, changes, usb_host, fat_failed, flash, io, dfu, host,
                 events, boot_button_pressed_, now, timer, loc>>

SourceAlreadyLoaded ==
  /\ pc = "dispatch" /\ state_ \in Source
  /\ ~NothingThere /\ AlreadyLoaded
  /\ skip' = [skip EXCEPT ![state_] = TRUE]
  /\ GoOn
  /\ UNCHANGED <<code, media, changes, usb_host, fat_failed, flash, io, dfu, host,
                 events, led, boot_button_pressed_, now, timer, loc>>

(* LoadFAT finds another program and no DFU download under way: it takes the
   USB device down, ... *)
LoadFATAnyway ==
  /\ pc = "dispatch" /\ state_ \in Source
  /\ ~NothingThere /\ media[state_] = "good" /\ ~AlreadyLoaded
  /\ pc' = "fatdeinit"
  /\ UNCHANGED <<state_, code, fat, flash, io, dfu, host, events, led,
                 boot_button_pressed_, now, timer, loc>>

LoadFAT ==
  /\ pc = "dispatch" /\ state_ \in Source
  /\ ~NothingThere /\ media[state_] = "good" /\ ~AlreadyLoaded /\ ~dfu_initiated
  /\ pc' = "fatdeinit"
  /\ UNCHANGED <<state_, code, fat, flash, io, dfu, host, events, led,
                 boot_button_pressed_, now, timer, loc>>

(* DeinitDFU: the host loses the device, io_state stays as it is. *)
DeinitDFU == /\ attached' = FALSE
             /\ host' = "idle"
             /\ UNCHANGED <<dfu_initiated, dfu_complete>>

FatDeinitDFU ==
  /\ pc = "fatdeinit"
  /\ DeinitDFU
  /\ pc' = "fatwrite"
  /\ UNCHANGED <<state_, code, fat, flash, io, events, led,
                 boot_button_pressed_, now, timer, loc>>

(* ... and writes the file to the flash.  The results of f_read and of the
   flash operations are not looked at. *)
FatWrite ==
  /\ pc = "fatwrite"
  /\ \/ program' = state_ /\ UNCHANGED fat_failed
     \/ program' \in {"none", "partial"} /\ fat_failed' = TRUE
  /\ written' = TRUE
  /\ pc' = "load"
  /\ code' = IF state_ = "CHECK_SD" THEN 4 ELSE 6
  /\ UNCHANGED <<state_, skip, media, changes, usb_host, io, dfu, host, events,
                 led, boot_button_pressed_, now, timer, loc>>
-----------------------------------------------------------------------------
(* Main loop: LoadProgramAndJump. *)

(* DeinitFatfs, the test of the stack pointer and the one of the entry point
   that FillTargetMemory starts with. *)
CheckProgram ==
  /\ pc = "load"
  /\ usb_host' = FALSE
  /\ IF program \in Bootable
     THEN pc' = "fill" /\ UNCHANGED led
     ELSE pc' = "return" /\ TriggerError
  /\ UNCHANGED <<state_, code, skip, media, changes, fat_failed, flash, io, dfu,
                 host, events, boot_button_pressed_, now, timer, loc>>

(* The copy, with the USB device still up. *)
FillTargetMemory ==
  /\ pc = "fill"
  /\ pc' = "deinit"
  /\ UNCHANGED <<state_, code, fat, flash, io, dfu, host, events, led,
                 boot_button_pressed_, now, timer, loc>>

(* DeInit takes the USB device and the audio down; the reset follows. *)
DeInitAndReset ==
  /\ pc = "deinit"
  /\ DeinitDFU
  /\ pc' = "jumped"
  /\ UNCHANGED <<state_, code, fat, flash, io, events, led,
                 boot_button_pressed_, now, timer, loc>>

(* A failed LoadProgramAndJump returns to its case of the switch. *)
Return ==
  /\ pc = "return"
  /\ IF state_ = "CHECK_DFU" THEN pc' = "reinit" /\ UNCHANGED state_ ELSE GoOn
  /\ code' = 0
  /\ UNCHANGED <<fat, flash, io, dfu, host, events, led,
                 boot_button_pressed_, now, timer, loc>>
-----------------------------------------------------------------------------
(* Main loop: CHECK_DFU and CHECK_TIMEOUT. *)

CheckDfu ==
  /\ pc = "dispatch" /\ state_ = "CHECK_DFU"
  /\ IF dfu_complete
     THEN pc' = "load" /\ code' = 7 /\ UNCHANGED state_
     ELSE GoOn /\ UNCHANGED code
  /\ events' = 0
  /\ UNCHANGED <<fat, flash, io, dfu, host, led, boot_button_pressed_,
                 now, timer, loc>>

(* After a download that is no program: DeinitDFU and InitDFU, which clears
   the flags unless USBInit fails. *)
ReinitForgotten ==
  /\ pc = "reinit"
  /\ DeinitDFU
  /\ pc' = "poll"
  /\ UNCHANGED <<state_, code, fat, flash, io, events, led,
                 boot_button_pressed_, now, timer, loc>>

Reinit ==
  /\ pc = "reinit"
  /\ \E ok \in IF UsbInitFails THEN BOOLEAN ELSE {TRUE} :
       /\ attached' = ok
       /\ dfu_complete' = (dfu_complete /\ ~ok)
       /\ dfu_initiated' = (dfu_initiated /\ ~ok)
  /\ host' = "idle"
  /\ pc' = "poll"
  /\ UNCHANGED <<state_, code, fat, flash, io, events, led,
                 boot_button_pressed_, now, timer, loc>>

ReadNow ==
  /\ pc = "dispatch" /\ state_ = "CHECK_TIMEOUT"
  /\ local_now' = now
  /\ pc' = "start"
  /\ UNCHANGED <<state_, code, fat, flash, io, dfu, host, events, led,
                 boot_button_pressed_, now, timer, elapsed, ongoing>>

ReadTimeoutStartInclusive ==
  /\ pc = "start"
  /\ elapsed' = ((local_now - timeout_start_) % Wrap >= timeout_)
  /\ local_now' = 0
  /\ pc' = "ongoing"
  /\ UNCHANGED <<state_, code, fat, flash, io, dfu, host, events, led,
                 boot_button_pressed_, now, timer, ongoing>>

ReadTimeoutStart ==
  /\ pc = "start"
  /\ elapsed' = ((local_now - timeout_start_) % Wrap > timeout_)
  /\ local_now' = 0
  /\ pc' = "ongoing"
  /\ UNCHANGED <<state_, code, fat, flash, io, dfu, host, events, led,
                 boot_button_pressed_, now, timer, ongoing>>

ReadOngoing ==
  /\ pc = "ongoing"
  /\ ongoing' = dfu_initiated
  /\ pc' = "test"
  /\ UNCHANGED <<state_, code, fat, flash, io, dfu, host, events, led,
                 boot_button_pressed_, now, timer, local_now, elapsed>>

TimedOutDuringDfu == elapsed /\ ~do_error_ /\ ~boot_button_pressed_
TimedOut == elapsed /\ ~do_error_ /\ ~boot_button_pressed_ /\ ~ongoing

TestTimeout ==
  /\ pc = "test"
  /\ IF TimedOut
     THEN pc' = "load" /\ code' = 8 /\ UNCHANGED state_
     ELSE GoOn /\ UNCHANGED code
  /\ elapsed' = FALSE /\ ongoing' = FALSE
  /\ UNCHANGED <<fat, flash, io, dfu, host, events, led, boot_button_pressed_,
                 now, timer, local_now>>
-----------------------------------------------------------------------------
(* USB interrupt: a DFU host that erases, writes, writes the last page and
   leaves, or gives up.  Named bound as in DfuDownload: at most one event
   between the poll and the test of dfu_complete. *)

WindowEvents == 1
UsbEvent ==
  /\ attached /\ pc # "jumped"
  /\ events' = IF pc = "dispatch" /\ state_ = "CHECK_DFU" THEN events + 1 ELSE 0
  /\ events' <= WindowEvents
  /\ UNCHANGED <<ctl, fat, flash, attached, led,
                 boot_button_pressed_, now, timer, loc>>

MemoryEraseUnannounced ==
  /\ UsbEvent
  /\ host \in {"idle", "writing"} /\ io = "idle"
  /\ io' = "erase" /\ host' = "writing"
  /\ UNCHANGED <<dfu_initiated, dfu_complete>>

MemoryErase ==
  /\ UsbEvent
  /\ host \in {"idle", "writing"} /\ io = "idle"
  /\ io' = "erase" /\ host' = "writing" /\ dfu_initiated' = TRUE
  /\ UNCHANGED dfu_complete

MemoryWrite ==
  /\ UsbEvent
  /\ host = "writing" /\ io = "idle"
  /\ \/ io' = "write" /\ UNCHANGED host
     \/ io' = "last" /\ host' = "sent"
  /\ UNCHANGED <<dfu_initiated, dfu_complete>>

EnableJump ==
  /\ UsbEvent
  /\ host = "sent"
  /\ host' = "left" /\ dfu_complete' = TRUE
  /\ UNCHANGED <<io, dfu_initiated>>

HostGivesUp ==
  /\ UsbEvent
  /\ host \in {"writing", "sent"}
  /\ host' = "idle"
  /\ UNCHANGED <<io, dfu_initiated, dfu_complete>>
-----------------------------------------------------------------------------
(* Audio interrupt, clock and drives. *)

(* A step of the error sequence is due.  The last one ends it, with
   ResetTimeout. *)
ErrorLed ==
  /\ pc # "jumped"
  /\ do_error_
  /\ IF error_step_ + 1 >= ErrorSteps
     THEN do_error_' = FALSE /\ error_step_' = 0 /\ timeout_start_' = now
     ELSE error_step_' = error_step_ + 1 /\ UNCHANGED <<do_error_, timeout_start_>>
  /\ UNCHANGED <<ctl, fat, flash, io, dfu, host, events, boot_button_pressed_,
                 now, timeout_, loc>>

PressButton ==
  /\ pc # "jumped"
  /\ ~boot_button_pressed_
  /\ boot_button_pressed_' = TRUE
  /\ UNCHANGED <<ctl, fat, flash, io, dfu, host, events, led, now,
                 timer, loc>>

(* The timeout of the infinite mode, UINT32_MAX. *)
Infinite == Wrap - 1

(* Named bound: the loop is quick against the clock, so no more than Horizon
   ticks pass between the start of a timeout and the next look at it.  In the
   infinite mode the clock is free to wrap around. *)
Tick ==
  /\ pc # "jumped"
  /\ timeout_ = Infinite \/ (now - timeout_start_) % Wrap < Horizon
  /\ now' = (now + 1) % Wrap
  /\ UNCHANGED <<ctl, fat, flash, io, dfu, host, events, led,
                 boot_button_pressed_, timer, loc>>

ChangeMedium ==
  /\ pc # "jumped"
  /\ changes < MediaChanges
  /\ changes' = changes + 1
  /\ \E s \in Source, m \in Medium : media' = [media EXCEPT ![s] = m]
  /\ UNCHANGED <<ctl, skip, usb_host, fat_failed, flash, io, dfu, host, events,
                 led, boot_button_pressed_, now, timer, loc>>

Main == \/ Poll \/ SourceAbsent \/ SourceError \/ SourceAlreadyLoaded
        \/ LoadFAT \/ FatDeinitDFU \/ FatWrite
        \/ CheckProgram \/ FillTargetMemory \/ DeInitAndReset \/ Return
        \/ CheckDfu \/ Reinit
        \/ ReadNow \/ ReadTimeoutStart \/ ReadOngoing \/ TestTimeout
Usb == MemoryErase \/ MemoryWrite \/ EnableJump \/ HostGivesUp
Next == Main \/ Usb \/ ErrorLed \/ PressButton \/ Tick \/ ChangeMedium

Spec == Init /\ [][Next]_vars

(* The main loop is never blocked for good, the audio interrupt fires at a
   fixed rate and the clock runs. *)
FairSpec == Spec /\ WF_vars(Main) /\ WF_vars(ErrorLed) /\ WF_vars(Tick)
-----------------------------------------------------------------------------
(* Every variable has its type. *)
TypeOK ==
  /\ state_ \in State /\ pc \in Pc /\ code \in {0, 4, 6, 7, 8}
  /\ skip \in [Source -> BOOLEAN] /\ media \in [Source -> Medium]
  /\ changes \in 0 .. MediaChanges
  /\ usb_host \in BOOLEAN /\ fat_failed \in BOOLEAN /\ written \in BOOLEAN
  /\ program \in Program
  /\ io \in {"idle", "erase", "write", "last"}
  /\ dfu_initiated \in BOOLEAN /\ dfu_complete \in BOOLEAN
  /\ attached \in BOOLEAN
  /\ host \in {"idle", "writing", "sent", "left"} /\ events \in 0 .. WindowEvents
  /\ do_error_ \in BOOLEAN /\ error_step_ \in 0 .. ErrorSteps - 1
  /\ boot_button_pressed_ \in BOOLEAN
  /\ now \in 0 .. Wrap - 1 /\ timeout_ \in Timeouts /\ timeout_start_ \in 0 .. Wrap - 1
  /\ local_now \in 0 .. Wrap - 1 /\ elapsed \in BOOLEAN /\ ongoing \in BOOLEAN

(* A DFU host that has begun, or a request of its that waits, is known to the
   loop as a download under way (dfu.cpp:168-171). *)
DfuAnnounced ==
  /\ host # "idle" => attached
  /\ host # "idle" \/ io # "idle" => dfu_initiated
  /\ host = "left" => dfu_complete

(* The program that is tried, and the error that is shown when it fails, come
   from the state of the loop. *)
CodeOfCaller ==
  /\ pc \in {"load", "fill", "deinit", "jumped", "return"} <=> code # 0
  /\ code # 0 => code = CASE state_ = "CHECK_SD" -> 4 [] state_ = "CHECK_USB" -> 6
                         [] state_ = "CHECK_DFU" -> 7 [] state_ = "CHECK_TIMEOUT" -> 8

(* What holds at every step of the loop: the types, and that the loop, the USB
   interrupt and the DFU flags agree (bootloader.cpp:405-531, dfu.cpp:157-177). *)
LoopInv == TypeOK /\ DfuAnnounced /\ CodeOfCaller

(* A download that was left by its host is what is booted next, whole and with
   nothing pending: no drive, timeout or error comes between the leave request
   and CHECK_DFU with another program (bootloader.cpp:502-516, 676). *)
DownloadedBoots ==
  pc = "jumped" /\ dfu_complete => code = 7 /\ program = "dfu" /\ io = "idle"

(* A download that is cut off is not booted before the next reset, however
   long the device is left alone and whatever else happens: dfu_initiated stays
   up and holds the timeout and the drives off.  Only a file that was read or written with
   an error that nobody noticed can be booted in part, and what another run has
   left in the flash, on which BootSystem has more to say. *)
PartialNeverBoots == pc = "jumped" /\ program = "partial" => fat_failed \/ ~written

(* Whenever the loop comes round the USB device is up, so a host can always
   start a download: each path that takes it down jumps or brings it up
   again, the one of a failed write from a drive excepted. *)
DfuKeptUp == pc = "poll" /\ ~fat_failed /\ ~UsbInitFails => attached

(* The infinite mode is permanent: the loop never times out in it, not when the
   clock wraps around, and not when timeout_start_ is moved behind the time that
   the loop has read (bootloader.cpp:91 "permanently", 368, 519).  The same
   comment, "or 1000+ hours", and README.md:155, "~50 days", give the wait a length,
   which it has not: no difference is greater than UINT32_MAX. *)
InfiniteWaits == timeout_ = Infinite => code # 8

(* The timeout is awaited in full after the last error sequence: README.md:154
   "The `timeout` param controls how long the LoopProcess method will continue
   to wait for updates, before automatically resetting and jumping", and
   ErrorLed restarts the wait (bootloader.cpp:368). *)
FullTimeout ==
  pc = "load" /\ code = 8 => (now - timeout_start_) % Wrap > timeout_

(* dfu.cpp:159-160, in MemoryErase: "DFU download has begun, so we shouldn't
   allow a jump to happen before it completes". *)
JumpWaitsForDfu == pc = "jumped" /\ dfu_initiated => dfu_complete

(* CHANGELOG.md, v4.0.0: "SD cards take precedence if both an SD card and USB
   drive are present". *)
SdPrecedence ==
  pc = "jumped" /\ ~fat_failed /\ (\A s \in Source : media[s] = "good")
    => program # "CHECK_USB"

(* CHANGELOG.md, v4.0.0, of USB drives: "Drives can be hot-plugged at any
   time".  A drive with a program that stays plugged in is loaded. *)
HotPluggable ==
  <>[](media["CHECK_USB"] = "good" /\ ~dfu_initiated)
    => <>(program = "CHECK_USB" \/ skip["CHECK_USB"] \/ fat_failed \/ pc = "jumped")

(* The download of this module, in which a host goes its way between any two
   steps of the loop, is the one that DfuDownload gives the loop, and drives,
   timeouts and failed boots touch it only as DfuSession allows: they take the
   device down first, and a jump after a download finds it finished. *)
Session == INSTANCE DfuSession WITH
             whole <- program \in {"dfu", "bad"},
             jumped <- pc = "jumped"
ImplementsSession == Session!Spec

(* Whatever the drives, the hosts and the interrupts do, the loop treats the
   flash as one run of BootSystem does: it hands over no program of which a
   download is still missing something, and in the infinite mode only one that
   it has received itself. *)
Run == INSTANCE BootRun WITH
         run <- IF pc \in {"fill", "deinit", "jumped"} THEN "load" ELSE "loop",
         infinite <- timeout_ = Infinite,
         content <- IF program \notin Bootable THEN "empty"
                    ELSE IF program = "partial" THEN "part" ELSE "whole",
         session <- IF ~written THEN "none"
                    ELSE IF fat_failed THEN "unread"
                    ELSE IF program \in Source \cup {"dfu"} THEN "done"
                    ELSE "writing"
ImplementsRun == Run!Spec

(* The loop goes on looking at the drives until it jumps: v5.3.0 "Adjusts
   state machine to check SD and USB sources in a loop".  One path leaves it in
   CHECK_DFU for good: a download that was no program, after which USBInit
   fails, so that Impl::Init returns before it clears dfu_complete (dfu.cpp:108)
   and the loop, which ignores the result of InitDFU (bootloader.cpp:506-513),
   tries the same program for ever. *)
SourcesPolled ==
  []<>(state_ = "CHECK_SD" \/ pc = "jumped" \/ (dfu_complete /\ ~attached))

(* An error sequence ends, also when both drives are in error: each error starts
   the sequence over, and skip keeps the loop from raising it again on its next
   round (bootloader.cpp:432-439, 479-484).  A host that downloads one bad
   program after the other may keep it going. *)
ErrorEnds ==
  do_error_ ~> (~do_error_ \/ dfu_initiated \/ fat_failed \/ pc = "jumped")

(* Left alone with a program in the flash, the device boots it: errors of the
   drives delay the boot only once each. *)
BootsWhenLeftAlone ==
  <>[](/\ ~dfu_initiated /\ ~boot_button_pressed_ /\ ~fat_failed
       /\ program \in Bootable /\ timeout_ # Infinite)
    => <>(pc = "jumped")
=============================================================================
