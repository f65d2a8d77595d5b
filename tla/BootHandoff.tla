----------------------------- MODULE BootHandoff -----------------------------
(***************************************************************************)
(* How the bootloader and the application hand over to each other through  *)
(* a reset (startup_process, Bootloader::Init, FillTargetMemory and the    *)
(* end of LoadProgramAndJump in shared/bootloader.cpp).                    *)
(*                                                                         *)
(* boot_info lives in the backup SRAM and survives a reset, as the program *)
(* copied to the SRAM does; a power loss wipes both.  A reset (button,     *)
(* watchdog, debugger) can come between any two steps.  The application    *)
(* and System::ResetToBootloader of libDaisy are external.                 *)
(*                                                                         *)
(* ConsumeJumpLate, RecoverRetry, ReadModeKeep and StoreDataWrong are      *)
(* plausible bugs in the action they are named after; no Next has them.    *)
(***************************************************************************)
EXTENDS Naturals

(* boot_info.status, and the program starts boot_info.data can hold. *)
Status == {"INVALID", "JUMP", "SKIP_TIMEOUT", "INF_TIMEOUT"}
Start == {"sram", "qspi", "none"}
(* Where the program in the QSPI flash is linked to run. *)
Kind == {"sram", "qspi"}
(* The execution SRAM: a whole copy of a program, the copy after the
   program ran in it, a part of a copy, or something else. *)
Sram == {"copy", "used", "part", "zeroed"}

CONSTANTS SKIP, INF, DEFAULT   \* timeouts: 100, UINT32_MAX, DSY_BOOT_TIMEOUT_MS
Timeout == {SKIP, INF, DEFAULT}
ASSUME TimeoutAssumption == SKIP # INF /\ SKIP # DEFAULT /\ INF # DEFAULT

Place == {"startup", "jump", "ready", "fail", "init", "boot", "copy", "mark",
          "data", "reset", "app", "fault"}

VARIABLES status, data,  \* boot_info
          place,         \* what the processor executes
          program,       \* kind of the program in the QSPI flash
          sram,          \* what the execution SRAM holds
          timeout_ms,    \* what startup_process returned
          asked,         \* mode the application asked for, not granted yet
          handed,        \* a JUMP was written and not consumed yet
          torn           \* that JUMP was cut off from its data by a reset

vars == <<status, data, place, program, sram, timeout_ms, asked, handed, torn>>

(* Power-up: the backup SRAM holds no valid status. *)
Init ==
  /\ status = "INVALID"
  /\ data \in Start
  /\ place = "startup"
  /\ program \in Kind
  /\ sram = "part"
  /\ timeout_ms = DEFAULT
  /\ asked = "INVALID"
  /\ handed = FALSE
  /\ torn = FALSE
-----------------------------------------------------------------------------
(* startup_process. *)

ConsumeJumpLate ==
  /\ place = "startup"
  /\ status = "JUMP"
  /\ place' = "jump"
  /\ handed' = FALSE
  /\ UNCHANGED <<status, data, program, sram, timeout_ms, asked, torn>>

(* A JUMP is consumed before anything is done about it. *)
ConsumeJump ==
  /\ place = "startup"
  /\ status = "JUMP"
  /\ status' = "INVALID"
  /\ place' = "jump"
  /\ handed' = FALSE
  /\ UNCHANGED <<data, program, sram, timeout_ms, asked, torn>>

(* A program that runs from the QSPI flash needs the flash mapped; the
   initialisation of the flash can fail. *)
PrepareMemory ==
  /\ place = "jump"
  /\ IF data = "qspi" THEN place' \in {"ready", "fail"} ELSE place' = "ready"
  /\ UNCHANGED <<status, data, program, sram, timeout_ms, asked, handed, torn>>

(* What the processor finds behind the vector table at data: a program in
   the QSPI flash linked to the SRAM has its entry point there. *)
Runs == \/ data = "qspi" /\ program = "qspi"
        \/ data \in {"sram", "qspi"} /\ program = "sram" /\ sram = "copy"
        \/ data = "sram" /\ sram = "copy"

(* The jump itself: the code tests nothing here. *)
Enter ==
  /\ place = "ready"
  /\ place' = IF Runs THEN "app" ELSE "fault"
  /\ sram' = IF sram = "copy" THEN "used" ELSE sram
  /\ UNCHANGED <<status, data, program, timeout_ms, asked, handed, torn>>

RecoverRetry ==
  /\ place = "fail"
  /\ status' = "JUMP"
  /\ data' = data
  /\ place' = "startup"
  /\ UNCHANGED <<program, sram, timeout_ms, asked, handed, torn>>

Recover ==
  /\ place = "fail"
  /\ status' = "INVALID"
  /\ data' = "none"
  /\ place' = "startup"
  /\ UNCHANGED <<program, sram, timeout_ms, asked, handed, torn>>

TimeoutFor(mode) == CASE mode = "SKIP_TIMEOUT" -> SKIP
                      [] mode = "INF_TIMEOUT" -> INF
                      [] OTHER -> DEFAULT

ReadModeKeep ==
  /\ place = "startup"
  /\ status # "JUMP"
  /\ timeout_ms' = TimeoutFor(status)
  /\ place' = "init"
  /\ asked' = "INVALID"
  /\ UNCHANGED <<status, data, program, sram, handed, torn>>

(* The requested mode is granted once: the status is cleared. *)
ReadMode ==
  /\ place = "startup"
  /\ status # "JUMP"
  /\ timeout_ms' = TimeoutFor(status)
  /\ status' = IF status \in {"SKIP_TIMEOUT", "INF_TIMEOUT"} THEN "INVALID" ELSE status
  /\ place' = "init"
  /\ asked' = "INVALID"
  /\ UNCHANGED <<data, program, sram, handed, torn>>
-----------------------------------------------------------------------------
(* The bootloader. *)

(* main of bootloader/main.cpp: an encoder held down overrides the timeout;
   Bootloader::Init zeroes the first words of the execution SRAM. *)
InitBootloader ==
  /\ place = "init"
  /\ place' = "boot"
  /\ \E held \in BOOLEAN : timeout_ms' = IF held THEN INF ELSE timeout_ms
  /\ sram' = "zeroed"
  /\ UNCHANGED <<status, data, program, asked, handed, torn>>

(* A file of a drive goes through the execution SRAM buffer by buffer; a small
   one is there as a whole. *)
BufferFile ==
  /\ place = "boot"
  /\ sram' \in {"part", "copy"}
  /\ UNCHANGED <<status, data, place, program, timeout_ms, asked, handed, torn>>

(* A download replaces the program. *)
Install ==
  /\ place = "boot"
  /\ program' \in Kind
  /\ UNCHANGED <<status, data, place, sram, timeout_ms, asked, handed, torn>>

(* LoadProgramAndJump with a valid stack pointer and entry point. *)
BeginLoad ==
  /\ place = "boot"
  /\ place' = IF program = "sram" THEN "copy" ELSE "mark"
  /\ sram' = IF program = "sram" THEN "part" ELSE sram
  /\ UNCHANGED <<status, data, program, timeout_ms, asked, handed, torn>>

(* FillTargetMemory has copied the program. *)
FillTargetMemory ==
  /\ place = "copy"
  /\ place' = "mark"
  /\ sram' = "copy"
  /\ UNCHANGED <<status, data, program, timeout_ms, asked, handed, torn>>

(* boot_info.status = JUMP, and in a second store boot_info.data. *)
MarkJump ==
  /\ place = "mark"
  /\ status' = "JUMP"
  /\ place' = "data"
  /\ handed' = TRUE
  /\ UNCHANGED <<data, program, sram, timeout_ms, asked, torn>>

(* FillTargetMemory returned the address the program is linked to. *)
StoreDataWrong ==
  /\ place = "data"
  /\ data' = "sram"
  /\ place' = "reset"
  /\ UNCHANGED <<status, program, sram, timeout_ms, asked, handed, torn>>
StoreData ==
  /\ place = "data"
  /\ data' = program
  /\ place' = "reset"
  /\ UNCHANGED <<status, program, sram, timeout_ms, asked, handed, torn>>

SystemReset ==
  /\ place = "reset"
  /\ place' = "startup"
  /\ UNCHANGED <<status, data, program, sram, timeout_ms, asked, handed, torn>>
-----------------------------------------------------------------------------
(* The outside. *)

(* System::ResetToBootloader: the application asks for a mode. *)
ResetToBootloader ==
  /\ place = "app"
  /\ \E mode \in Status \ {"JUMP"} : status' = mode /\ asked' = mode
  /\ place' = "startup"
  /\ UNCHANGED <<data, program, sram, timeout_ms, handed, torn>>

(* A reset at any time.  It finds the JUMP without its data only between two
   stores of LoadProgramAndJump. *)
Reset ==
  /\ place' = "startup"
  /\ torn' = (place = "data" \/ (torn /\ status = "JUMP"))
  /\ UNCHANGED <<status, data, program, sram, timeout_ms, asked, handed>>

PowerLoss ==
  /\ status' = "INVALID"
  /\ data' \in Start
  /\ place' = "startup"
  /\ sram' = "part"
  /\ asked' = "INVALID"
  /\ handed' = FALSE
  /\ torn' = FALSE
  /\ UNCHANGED <<program, timeout_ms>>

Interrupt == Reset \/ PowerLoss
Startup == ConsumeJump \/ PrepareMemory \/ Enter \/ Recover \/ ReadMode \/ InitBootloader
Load == BeginLoad \/ FillTargetMemory \/ MarkJump \/ StoreData \/ SystemReset
Next == Startup \/ BufferFile \/ Install \/ Load \/ ResetToBootloader \/ Interrupt

Spec == Init /\ [][Next]_vars

(* The processor executes: what it has begun to do goes on. *)
FairSpec == Spec /\ WF_vars(Startup) /\ WF_vars(Load)
-----------------------------------------------------------------------------
(* Every variable has its type. *)
TypeOK ==
  /\ status \in Status /\ data \in Start /\ place \in Place
  /\ program \in Kind /\ sram \in Sram /\ timeout_ms \in Timeout
  /\ asked \in Status \ {"JUMP"} /\ handed \in BOOLEAN /\ torn \in BOOLEAN

(* Whatever executes past startup_process finds no JUMP in boot_info: a reset
   of the application or of the bootloader always leads to the bootloader,
   never straight into a program (bootloader.cpp:29). *)
ResetLeadsToBootloader ==
  place \in {"jump", "ready", "fail", "init", "boot", "copy", "mark", "app", "fault"}
    => status # "JUMP"

(* A jump that hits no program comes only from a reset between the two stores
   of LoadProgramAndJump (bootloader.cpp:300-301); every other reset, power
   loss or failure on the way from the copy to the entry is harmless. *)
FaultOnlyTorn == place = "fault" => torn

(* A JUMP outlives its hand-over only in boot_info, and until its data is
   stored nothing else is known about it. *)
JumpHanded == status = "JUMP" => handed /\ place \in {"startup", "data", "reset"}

(* A requested mode is in boot_info until it is granted. *)
ModeKept == status \in {"SKIP_TIMEOUT", "INF_TIMEOUT"} \/ asked # "INVALID"
              => status = asked /\ place = "startup"

(* Once the data is stored, the hand-over leads to a program. *)
HandedRuns ==
  /\ place \in {"mark", "data", "reset"} /\ program = "sram" => sram = "copy"
  /\ place = "reset" => data = program
  /\ \/ place = "reset" /\ status = "JUMP"
     \/ place = "startup" /\ status = "JUMP" /\ ~torn
     \/ place \in {"jump", "ready"} /\ ~torn
     => Runs
  /\ place = "data" => status = "JUMP"

(* The inductive invariant. *)
HandoffInv == TypeOK /\ ResetLeadsToBootloader /\ FaultOnlyTorn /\ JumpHanded
                     /\ ModeKept /\ HandedRuns

(* startup_process jumps only for a hand-over of the bootloader, and once for
   each: entering a program takes the bootloader's decision with it. *)
JumpOncePerHandoff ==
  [][place = "startup" /\ place' = "jump" => handed]_vars

(* startup_process returns the timeout the application asked for, and the
   default when it asked for none: a request survives resets until it is
   granted, and is granted once (bootloader.cpp:85-96). *)
ModeGrantedOnce ==
  [][place = "startup" /\ place' = "init" => timeout_ms' = TimeoutFor(asked)]_vars

(* If resets stop, every start-up ends in the bootloader or in a program:
   a failing QSPI flash cannot make the device reset for ever. *)
StartupEnds ==
  <>[][~Interrupt]_vars
    => (place = "startup" ~> place \in {"boot", "app", "fault"})
=============================================================================
