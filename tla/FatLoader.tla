------------------------------ MODULE FatLoader ------------------------------
(***************************************************************************)
(* Loading a program from an SD card or a USB drive (SearchBin, LoadFAT,   *)
(* EnsureValidBinary and UpdateLog in shared/bootloader.cpp) with a drive  *)
(* that fails or is pulled out, flash operations that fail, and resets and *)
(* power losses in the middle of it.  One drive; the loop looks at it      *)
(* again and again.                                                        *)
(*                                                                         *)
(* The compare and the copy go buffer by buffer, and the results of        *)
(* f_read, Erase and Write are never looked at: a read that fails returns  *)
(* fewer units, which looks like the end of the file, and a flash          *)
(* operation that fails is taken for done.  FatFs (external) keeps a file  *)
(* failed until it is opened again.  A program boots when its first unit,  *)
(* with the stack pointer and the entry point, is one of Programs.         *)
(*                                                                         *)
(* ClassNoEntry, IdenticalLast and WrittenAtStart are plausible bugs in    *)
(* the definition they are named after; no Next uses them.                 *)
(***************************************************************************)
EXTENDS QspiFlash, Sequences

CONSTANTS Programs,    \* payloads with a valid stack pointer and entry point
          BadEntries,  \* payloads with a valid stack pointer only
          Stubs,       \* files of 1 to 7 bytes: a part of the header
          Drives,      \* directories: what the drive may hold
          MaxFaults    \* bound on failed calls and events from outside

(* 64 kB both. *)
PAGE_SIZE == SectorUnits
FILE_BUFF_LEN == SectorUnits

(* Named bound: a file fits the chip.  The code does not look at its size.
   Named abstraction: the last payload of a file stands for its bytes, few as
   they may be, and is equal to itself only. *)
File == [size : 0 .. FlashUnits - 1, unit : [Units -> Data]]
(* skip: a directory or a hidden file; bin: the name contains .bin or .BIN. *)
Entry == [skip : BOOLEAN, bin : BOOLEAN, file : File]
Header == {"program", "entry", "stack"}

ASSUME LoaderAssumption ==
  /\ Programs \subseteq Data /\ BadEntries \subseteq Data /\ Stubs \subseteq Data
  /\ Programs \cap BadEntries = {} /\ Stubs \cap (Programs \cup BadEntries) = {}
  /\ Drives \subseteq Seq(Entry)
  /\ MaxFaults \in Nat

FatfsResult == {"ABSENT", "PRESENT", "ALREADY_LOADED", "ERROR"}
Pc == {"idle", "opendir", "readdir", "open", "header", "compare", "check",
       "erase", "read", "write", "close", "return"}

VARIABLES
  flash, drive, pulled,
  log,                          \* last line of daisy_boot_log.txt
  pc, result, skip,             \* skip: sd_skip_ or usb_skip_
  at,                           \* directory entry
  file_err,                     \* error state of FatfsFile_
  flash_err,                    \* history: a flash operation of this load failed
  valid, data_written, data_read,
  attached, dfu_initiated,
  faults                        \* failed calls and events so far

caller == <<skip, drive, pulled>>
dfu == <<attached, dfu_initiated>>
copy == <<valid, data_written, data_read>>
vars == <<flash, caller, log, pc, result, at, file_err, flash_err, copy, dfu, faults>>

Init ==
  /\ flash \in [Units -> Data \cup {Erased}]
  /\ drive \in Drives /\ pulled \in BOOLEAN
  /\ log = "none"
  /\ pc = "idle" /\ result = "ABSENT" /\ skip = FALSE
  /\ at = 1 /\ file_err = FALSE /\ flash_err = FALSE
  /\ valid = FALSE /\ data_written = 0 /\ data_read = 0
  /\ attached = TRUE /\ dfu_initiated = FALSE
  /\ faults = 0
-----------------------------------------------------------------------------
(* FatFs and the QSPI driver. *)

(* What comes from outside, and what goes wrong. *)
Event == faults < MaxFaults /\ faults' = faults + 1

IsBin(e) == e.bin /\ ~e.skip
TheFile == drive[at].file

(* A call succeeds, or fails because the drive is gone or by a fault. *)
Succeeds == ~pulled /\ UNCHANGED faults
Fails == \/ pulled /\ UNCHANGED faults
         \/ Event

(* f_read at data_written: n units, fewer than there are when it fails. *)
Left == IF TheFile.size - data_written < FILE_BUFF_LEN
        THEN TheFile.size - data_written ELSE FILE_BUFF_LEN
ReadsUnits(n) ==
  \/ n = 0 /\ file_err /\ UNCHANGED <<file_err, faults>>
  \/ n = Left /\ ~file_err /\ Succeeds /\ UNCHANGED file_err
  \/ n \in 0 .. Left /\ ~file_err /\ Fails /\ file_err' = TRUE

(* An erase or a write at data_written that is cut off has done k units, and may
   have spoiled the next. *)
Cut(done, k, spoiled) ==
  [u \in Units |-> IF u < data_written + k THEN done[u]
                   ELSE IF spoiled /\ u = data_written + k THEN Garbled ELSE flash[u]]
Torn(done, n) == {flash} \cup {Cut(done, k, s) : k \in 0 .. n - 1, s \in BOOLEAN}

(* An operation on n units is done, or fails and leaves anything between. *)
Operation(done, n) ==
  \/ flash' = done /\ UNCHANGED <<flash_err, faults>>
  \/ Event /\ flash' \in Torn(done, n) /\ flash_err' = TRUE

ClassNoEntry(d) == IF d \in Programs \cup BadEntries THEN "program" ELSE "stack"
Class(d) == IF d \in Programs THEN "program"
            ELSE IF d \in BadEntries THEN "entry" ELSE "stack"

(* UpdateLog: the line gets there if the drive does. *)
UpdateLog(success) ==
  log' \in {log} \cup IF pulled THEN {} ELSE {IF success THEN "success" ELSE "error"}
-----------------------------------------------------------------------------
(* SearchBin. *)

Answer(r) == result' = r /\ pc' = "return"

Mount ==
  /\ pc = "idle" /\ ~skip
  /\ \/ Succeeds /\ pc' = "opendir" /\ UNCHANGED result
     \/ Fails /\ Answer("ABSENT")
  /\ at' = 1
  /\ UNCHANGED <<flash, caller, log, file_err, flash_err, copy, dfu>>

OpenDir ==
  /\ pc = "opendir"
  /\ \/ Succeeds /\ pc' = "readdir" /\ UNCHANGED result
     \/ Fails /\ Answer("ERROR")
  /\ UNCHANGED <<flash, caller, log, at, file_err, flash_err, copy, dfu>>

ReadDir ==
  /\ pc = "readdir"
  /\ \/ /\ Succeeds /\ at <= Len(drive)
        /\ IF IsBin(drive[at]) THEN pc' = "open" /\ UNCHANGED at
           ELSE at' = at + 1 /\ UNCHANGED pc
        /\ UNCHANGED result
     \/ Succeeds /\ at > Len(drive) /\ Answer("ABSENT") /\ UNCHANGED at
     \/ Fails /\ Answer("ABSENT") /\ UNCHANGED at
  /\ UNCHANGED <<flash, caller, log, file_err, flash_err, copy, dfu>>
-----------------------------------------------------------------------------
(* LoadFAT and EnsureValidBinary. *)

OpenFile ==
  /\ pc = "open"
  /\ file_err' = FALSE /\ flash_err' = FALSE
  /\ \/ Succeeds /\ pc' = "header" /\ UNCHANGED <<result, log>>
     \/ Fails /\ UpdateLog(FALSE) /\ Answer("ERROR")
  /\ UNCHANGED <<flash, caller, at, copy, dfu>>

(* What EnsureValidBinary takes the header for.  A read that fails, or finds less
   than eight bytes, leaves stack_ptr and entry_point uninitialised, in part. *)
WholeHeader == TheFile.size > 0 /\ TheFile.unit[0] \notin Stubs
HeaderIs(c) ==
  \/ Succeeds /\ UNCHANGED file_err /\ (WholeHeader => c = Class(TheFile.unit[0]))
  \/ Fails /\ file_err' = TRUE

NotAProgram == UpdateLog(FALSE) /\ Answer("ERROR")

ReadHeader ==
  /\ pc = "header"
  /\ \E c \in Header :
       /\ HeaderIs(c)
       /\ \/ c = "stack" /\ NotAProgram /\ UNCHANGED valid
          \/ c # "stack" /\ valid' = (c = "program") /\ pc' = "compare"
             /\ UNCHANGED <<log, result>>
  /\ UNCHANGED <<flash, caller, at, flash_err, data_written, data_read, dfu>>

IdenticalLast(n) ==
  n > 0 => flash[data_written + n - 1] = TheFile.unit[data_written + n - 1]
Identical(n) ==
  \A i \in Units : i < n => flash[data_written + i] = TheFile.unit[data_written + i]

(* One round of the compare; identical files are not tested for valid. *)
Compare ==
  /\ pc = "compare"
  /\ \E n \in 0 .. FILE_BUFF_LEN :
       /\ ReadsUnits(n)
       /\ \/ /\ Identical(n) /\ n = FILE_BUFF_LEN
             /\ data_written' = data_written + n
             /\ UNCHANGED <<log, result, pc>>
          \/ /\ Identical(n) /\ n < FILE_BUFF_LEN
             /\ Answer("ALREADY_LOADED") /\ data_written' = 0 /\ UNCHANGED log
          \/ /\ ~Identical(n) /\ data_written' = 0
             /\ \/ valid /\ pc' = "check" /\ UNCHANGED <<log, result>>
                \/ ~valid /\ NotAProgram
  /\ UNCHANGED <<flash, caller, at, flash_err, valid, data_read, dfu>>

(* A DFU download that is under way is left alone; otherwise the device is
   taken down.  BootLoop looks between the two. *)
CheckDfu ==
  /\ pc = "check"
  /\ IF dfu_initiated
     THEN Answer("ABSENT") /\ UNCHANGED attached
     ELSE attached' = FALSE /\ pc' = "erase" /\ UNCHANGED result
  /\ UNCHANGED <<flash, caller, log, at, file_err, flash_err, copy, dfu_initiated, faults>>
-----------------------------------------------------------------------------
(* The copy loop of LoadFAT. *)

ErasePage ==
  /\ pc = "erase"
  /\ IF data_written % PAGE_SIZE = 0
     THEN Operation(Erase(flash, data_written), PAGE_SIZE)
     ELSE UNCHANGED <<flash, flash_err, faults>>
  /\ pc' = "read"
  /\ UNCHANGED <<caller, log, result, at, file_err, copy, dfu>>

ReadPage ==
  /\ pc = "read"
  /\ \E n \in 0 .. FILE_BUFF_LEN : ReadsUnits(n) /\ data_read' = n
  /\ pc' = "write"
  /\ UNCHANGED <<flash, caller, log, result, at, flash_err, valid, data_written, dfu>>

(* The flash with data_read units of the file written at data_written. *)
WrittenAtStart == [u \in Units |->
              IF u < data_read
              THEN Programmed(flash[u], TheFile.unit[data_written + u]) ELSE flash[u]]
Written == [u \in Units |->
              IF data_written <= u /\ u < data_written + data_read
              THEN Programmed(flash[u], TheFile.unit[u]) ELSE flash[u]]

WritePage ==
  /\ pc = "write"
  /\ Operation(Written, data_read)
  /\ pc' = IF data_read = FILE_BUFF_LEN THEN "erase" ELSE "close"
  /\ data_written' = data_written + data_read
  /\ data_read' = 0
  /\ UNCHANGED <<caller, log, result, at, file_err, valid, dfu>>

CloseFile ==
  /\ pc = "close"
  /\ UpdateLog(TRUE)
  /\ Answer("PRESENT")
  /\ UNCHANGED <<flash, caller, at, file_err, flash_err, copy, dfu, faults>>
-----------------------------------------------------------------------------
(* The loop acts on the answer: a program that boots resets the device.  A first
   unit that was spoiled may pass for one. *)

Restarted == /\ pc' = "idle" /\ result' = "ABSENT" /\ skip' = FALSE
             /\ at' = 1 /\ file_err' = FALSE /\ flash_err' = FALSE
             /\ valid' = FALSE /\ data_written' = 0 /\ data_read' = 0
             /\ attached' = TRUE /\ dfu_initiated' = FALSE

Return ==
  /\ pc = "return"
  /\ \/ result = "PRESENT" /\ flash[0] \in Programs \cup {Garbled} /\ Restarted
     \/ /\ ~(result = "PRESENT" /\ flash[0] \in Programs)
        /\ pc' = "idle"
        /\ skip' = (skip \/ result \in {"ERROR", "ALREADY_LOADED"})
        /\ valid' = FALSE /\ data_written' = 0 /\ data_read' = 0
        /\ UNCHANGED <<result, at, file_err, flash_err, dfu>>
  /\ UNCHANGED <<flash, drive, pulled, log, faults>>
-----------------------------------------------------------------------------
(* The outside.  Every event counts as a fault. *)

PullDrive ==
  /\ Event
  /\ pulled' = TRUE
  /\ UNCHANGED <<flash, drive, log, pc, result, skip, at, file_err, flash_err, copy, dfu>>

PlugDrive ==
  /\ Event /\ pc = "idle"
  /\ drive' \in Drives /\ pulled' = FALSE
  /\ UNCHANGED <<flash, log, pc, result, skip, at, file_err, flash_err, copy, dfu>>

(* A DFU host begins: an erase is accepted while the device is up. *)
StartDownload ==
  /\ Event /\ attached
  /\ dfu_initiated' = TRUE
  /\ UNCHANGED <<flash, caller, log, pc, result, at, file_err, flash_err, copy, attached>>

(* A reset or a loss of power, also in the middle of a flash operation. *)
Reset ==
  /\ Event
  /\ Restarted
  /\ \/ UNCHANGED flash
     \/ pc = "erase" /\ flash' \in Torn(Erase(flash, data_written), PAGE_SIZE)
     \/ pc = "write" /\ flash' \in Torn(Written, data_read)
  /\ UNCHANGED <<drive, pulled, log>>

SearchBin == Mount \/ OpenDir \/ ReadDir
LoadFAT == OpenFile \/ ReadHeader \/ Compare \/ CheckDfu
           \/ ErasePage \/ ReadPage \/ WritePage \/ CloseFile
Loop == SearchBin \/ LoadFAT \/ Return
Outside == PullDrive \/ PlugDrive \/ StartDownload \/ Reset
Next == Loop \/ Outside

Spec == Init /\ [][Next]_vars

(* The main loop runs. *)
FairSpec == Spec /\ WF_vars(Loop)
-----------------------------------------------------------------------------
(* The flash begins with file f. *)
Holds(f) == \A u \in Units : u < f.size => flash[u] = f.unit[u]

(* Every variable has its type. *)
TypeOK ==
  /\ flash \in Flash /\ drive \in Drives /\ pulled \in BOOLEAN
  /\ log \in {"none", "success", "error"}
  /\ pc \in Pc /\ result \in FatfsResult /\ skip \in BOOLEAN
  /\ at \in Nat \ {0} /\ file_err \in BOOLEAN /\ flash_err \in BOOLEAN
  /\ valid \in BOOLEAN
  /\ data_written \in 0 .. FlashUnits /\ data_read \in 0 .. FILE_BUFF_LEN
  /\ attached \in BOOLEAN /\ dfu_initiated \in BOOLEAN
  /\ faults \in 0 .. MaxFaults

Copying == pc \in {"erase", "read", "write"}

Opened ==
  \/ pc \in {"open", "header", "compare", "check", "close"} \/ Copying
  \/ pc = "return" /\ result \in {"PRESENT", "ALREADY_LOADED"}

(* The file that is open is the first plain .bin file of the drive. *)
FileOpen ==
  /\ pc = "opendir" => at = 1
  /\ pc = "readdir" \/ Opened => \A i \in 1 .. at - 1 : ~IsBin(drive[i])
  /\ Opened => at <= Len(drive) /\ IsBin(drive[at])

(* Up to data_written the flash equals the file, in the compare loop and in
   the copy loop, and behind it the page that is written is erased, unless a flash
   operation has failed. *)
LoopsAgree ==
  /\ pc = "compare" \/ Copying =>
       /\ data_written <= TheFile.size
       /\ data_written % PAGE_SIZE = 0
       /\ ~flash_err => \A u \in Units : u < data_written => flash[u] = TheFile.unit[u]
  /\ pc \in {"header", "compare"} => ~flash_err
  /\ pc # "compare" /\ ~Copying /\ pc \notin {"close", "return"} => data_written = 0
  /\ pc \in {"read", "write"} /\ ~flash_err =>
       \A u \in EraseRange(data_written) : flash[u] = Erased
  /\ pc = "write" => /\ data_written + data_read <= TheFile.size
                     /\ data_read = Left \/ file_err

(* Only a file that starts with a program, or is too short for a header, reaches
   the copy: a read of the header that fails is followed by a compare that reads
   nothing, and an empty file by one that finds nothing. *)
ProgramCopied ==
  /\ pc \in {"check", "close"} \/ Copying
       => TheFile.size > 0 /\ TheFile.unit[0] \in Programs \cup Stubs
  /\ pc = "compare" /\ valid /\ ~file_err /\ TheFile.size > 0
       => TheFile.unit[0] \in Programs \cup Stubs

(* PRESENT means that the whole file is in the flash, unless a read or a flash
   operation failed unnoticed, and so is it before the log says so
   (bootloader.cpp:690-723). *)
FlashedWhole ==
  pc = "close" \/ (pc = "return" /\ result = "PRESENT")
    => Holds(TheFile) \/ file_err \/ flash_err

(* ALREADY_LOADED, which rules the drive out until the next reset, without a
   read error means that the flash begins with the file (bootloader.cpp:620-649). *)
SkippedEqual ==
  pc = "return" /\ result = "ALREADY_LOADED" /\ ~file_err => Holds(TheFile)

(* The inductive invariant. *)
LoaderInv == TypeOK /\ FileOpen /\ LoopsAgree /\ ProgramCopied /\ FlashedWhole /\ SkippedEqual

(* A load touches the pages of its file, and the one behind it when the length
   is a multiple of the page: nothing else in the flash changes, also when it is
   cut off or a flash operation fails (bootloader.cpp:693-718). *)
Touched == (TheFile.size \div PAGE_SIZE + 1) * PAGE_SIZE
OnlyFilePages ==
  [][\A u \in Units : flash'[u] # flash[u] => u < Touched]_vars

(* The flash changes only for a file that starts with a valid stack pointer and
   entry point, also when a read of its header failed.  A file of less than eight
   bytes is the exception: its header is in part uninitialised, and it may be copied
   although it is no program (bootloader.cpp:581-646). *)
OnlyPrograms ==
  [][flash' # flash => TheFile.size > 0 /\ TheFile.unit[0] \in Programs \cup Stubs]_vars

(* The log says "Successfully flashed" only when the file is in the flash, or
   when a read or a flash operation failed unnoticed (bootloader.cpp:721). *)
LogTruth ==
  [][log' # log /\ log' = "success" => Holds(TheFile) \/ file_err \/ flash_err]_vars

(* The first plain .bin file of the drive. *)
HasBin == \E i \in DOMAIN drive : IsBin(drive[i])
FirstBin == drive[CHOOSE i \in DOMAIN drive :
                    IsBin(drive[i]) /\ \A j \in 1 .. i - 1 : ~IsBin(drive[j])].file

(* Once nothing goes wrong any more, a drive that has not been ruled out since
   the last reset gets its program into the flash, whatever an earlier power loss
   has left there. *)
Installs ==
  (/\ faults = MaxFaults /\ pc = "idle"
   /\ ~pulled /\ ~skip /\ ~dfu_initiated
   /\ HasBin /\ FirstBin.size > 0 /\ FirstBin.unit[0] \in Programs)
    ~> (HasBin /\ Holds(FirstBin))
=============================================================================
