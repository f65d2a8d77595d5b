--------------------------- MODULE BootLoop_proofs ---------------------------
(***************************************************************************)
(* The safety properties of BootLoop, proved for every clock width,        *)
(* timeout and number of media changes.                                    *)
(*                                                                         *)
(* What the loop decides it decides on variables that it has read before.  *)
(* The inductive invariant says what an old value is still worth: which    *)
(* steps of a DFU host fit in between the read and the use of it.          *)
(***************************************************************************)
EXTENDS BootLoop, TLAPS

LastKept == \/ io = "last"
            \/ io = "idle" /\ program \in {"dfu", "bad"}

(* A host that has left is silent, and its last page is stored or waits. *)
LeftForGood ==
  dfu_complete => dfu_initiated /\ LastKept /\ (host = "left" \/ ~attached)

(* So is the last page of a host that has sent it. *)
LastSent == host = "sent" => LastKept

(* Of the events between the poll and the test of dfu_complete one may be the
   last page or the leave request, not both. *)
Polled ==
  pc = "dispatch" /\ state_ = "CHECK_DFU" /\ (events = 0 \/ dfu_complete) => io = "idle"

(* The decision for a drive or for the timeout was made when no download was
   under way.  One may have begun since, but not have come further than its
   first erase. *)
OnOldFlag == \/ pc \in {"fatdeinit", "fatwrite"}
             \/ pc = "test" /\ ~ongoing
             \/ code \in {4, 6, 8}
OnlyBegun == /\ ~dfu_complete
             /\ host \in {"idle", "writing"} /\ io \in {"idle", "erase"}
             /\ host = "writing" => io = "erase"
Decided == OnOldFlag => OnlyBegun /\ (program = "partial" => fat_failed \/ ~written)

(* The steps that belong to one case of the switch. *)
InCase == /\ pc \in {"fatdeinit", "fatwrite"} => state_ \in Source
          /\ pc \in {"start", "ongoing", "test"} => state_ = "CHECK_TIMEOUT"

(* LoadFAT has taken the device down; what it has written it boots. *)
FromDrive == /\ pc = "fatwrite" => ~attached
             /\ code \in {4, 6} => ~attached /\ (program = state_ \/ fat_failed) /\ written

(* LoadProgramAndJump after a download, and the way back from it. *)
FromDfu == code = 7 \/ pc = "reinit" => dfu_complete /\ io = "idle"

(* The tests of LoadProgramAndJump. *)
Tested == /\ pc \in {"fill", "deinit", "jumped"} => program \in Bootable
          /\ pc \in {"return", "reinit"} => program \notin Bootable

(* The device is down only on the way to the reset, but for failures. *)
DownToJump ==
  ~attached /\ ~fat_failed /\ ~UsbInitFails
    => \/ pc \in {"fatwrite", "jumped"}
       \/ pc \in {"load", "fill", "deinit"} /\ code \in {4, 6}

(* A program cut off in this run is marked by the flag of its download. *)
PartialMarked == program = "partial" => fat_failed \/ dfu_initiated \/ ~written

(* After a download that is no program the device may fail to come up again;
   then the loop tries the same program for ever. *)
DownAfterDfu ==
  dfu_complete /\ ~attached
    => pc = "jumped" \/ (io = "idle" /\ program \notin Bootable)

(* What only this run can have put into the flash, or spoiled, and what it
   cannot. *)
WrittenHere == /\ fat_failed \/ program = "dfu" => written
               /\ program = "old" => ~written

(* A difference modulo Wrap is never above the timeout of the infinite mode. *)
NeverElapsed == timeout_ = Infinite => ~elapsed /\ code # 8

LoopIInv == /\ LoopInv
            /\ LeftForGood /\ LastSent /\ Polled
            /\ Decided /\ InCase /\ FromDrive /\ FromDfu
            /\ Tested /\ DownToJump /\ PartialMarked
            /\ NeverElapsed /\ WrittenHere /\ DownAfterDfu
-----------------------------------------------------------------------------
(* The invariant holds at first and is kept by every step.  The types come
   first: the rest of the step reads them. *)
LEMMA InitInv == ASSUME Init PROVE LoopIInv
<1> USE ClockAssumption DEF Init, Source, Program, Bootable
<1>1. TypeOK
  <2>1. /\ usb_host \in BOOLEAN /\ fat_failed \in BOOLEAN
        /\ written \in BOOLEAN /\ dfu_initiated \in BOOLEAN /\ dfu_complete \in BOOLEAN
        /\ attached \in BOOLEAN /\ do_error_ \in BOOLEAN
        /\ boot_button_pressed_ \in BOOLEAN
        /\ elapsed \in BOOLEAN /\ ongoing \in BOOLEAN
    BY Zenon
  <2>2. QED
    BY <2>1 DEF TypeOK, Medium, State, Pc, WindowEvents
<1>2. DfuAnnounced /\ CodeOfCaller
  BY DEF DfuAnnounced, CodeOfCaller
<1>3. LeftForGood /\ LastSent /\ Polled /\ Decided /\ InCase /\ FromDrive /\ FromDfu
  BY DEF LeftForGood, LastSent, Polled, Decided, OnOldFlag, OnlyBegun, InCase,
         FromDrive, FromDfu
<1>4. Tested /\ DownToJump /\ PartialMarked /\ NeverElapsed /\ WrittenHere /\ DownAfterDfu
  <2>1. ~UsbInitFails => attached
    OBVIOUS
  <2>2. QED
    BY <2>1 DEF Tested, DownToJump, PartialMarked, NeverElapsed, WrittenHere, DownAfterDfu
<1>5. QED
  BY <1>1, <1>2, <1>3, <1>4 DEF LoopIInv, LoopInv

LEMMA NextInv == ASSUME LoopIInv, [Next]_vars PROVE LoopIInv'
<1> USE ClockAssumption
    DEF ctl, fat, flash, dfu, led, timer, loc,
        Source, Medium, Program, Bootable, State, Pc, WindowEvents
<1> DEFINE Rest == /\ DfuAnnounced /\ CodeOfCaller
                   /\ LeftForGood /\ LastSent /\ Polled
                   /\ Decided /\ InCase /\ FromDrive /\ FromDfu
                   /\ Tested /\ DownToJump /\ PartialMarked
                   /\ NeverElapsed /\ WrittenHere /\ DownAfterDfu
<1>a. TypeOK /\ Rest
  BY DEF LoopIInv, LoopInv
<1>b. ASSUME TypeOK', Rest' PROVE LoopIInv'
  BY <1>b DEF LoopIInv, LoopInv
<1> USE DEF DfuAnnounced, CodeOfCaller, LeftForGood, LastKept, LastSent, Polled,
            Decided, OnOldFlag, OnlyBegun, InCase, FromDrive, FromDfu, Tested,
            DownToJump, PartialMarked, NeverElapsed, WrittenHere, DownAfterDfu, Infinite
<1> HIDE DEF LoopIInv
<1>1. CASE Poll
  <2>0. written' \in BOOLEAN
    BY <1>1, Zenon DEF Poll
  <2>1. TypeOK'
    BY <1>1, <1>a, <2>0 DEF Poll, TypeOK
  <2>2. Rest'
    BY <1>1, <1>a, <2>1 DEF Poll, TypeOK
  <2>3. QED
    BY <2>1, <2>2, <1>b
<1>2. CASE SourceAbsent
  <2>1. TypeOK'
    BY <1>2, <1>a DEF SourceAbsent, GoOn, AlreadyLoaded, NothingThere, NextState, TypeOK
  <2>2. Rest'
    BY <1>2, <1>a, <2>1 DEF SourceAbsent, GoOn, AlreadyLoaded, NothingThere, NextState, TypeOK
  <2>3. QED
    BY <2>1, <2>2, <1>b
<1>3. CASE SourceError
  <2>1. TypeOK'
    BY <1>3, <1>a DEF SourceError, GoOn, TriggerError, NothingThere, NextState, TypeOK
  <2>2. Rest'
    BY <1>3, <1>a, <2>1 DEF SourceError, GoOn, TriggerError, NothingThere, NextState, TypeOK
  <2>3. QED
    BY <2>1, <2>2, <1>b
<1>4. CASE SourceAlreadyLoaded
  <2>1. TypeOK'
    BY <1>4, <1>a DEF SourceAlreadyLoaded, GoOn, AlreadyLoaded, NothingThere, NextState, TypeOK
  <2>2. Rest'
    BY <1>4, <1>a, <2>1 DEF SourceAlreadyLoaded, GoOn, AlreadyLoaded, NothingThere, NextState, TypeOK
  <2>3. QED
    BY <2>1, <2>2, <1>b
<1>5. CASE LoadFAT
  <2>1. TypeOK'
    BY <1>5, <1>a DEF LoadFAT, AlreadyLoaded, NothingThere, TypeOK
  <2>2. Rest'
    BY <1>5, <1>a, <2>1 DEF LoadFAT, AlreadyLoaded, NothingThere, TypeOK
  <2>3. QED
    BY <2>1, <2>2, <1>b
<1>6. CASE FatDeinitDFU
  <2>0. attached' \in BOOLEAN
    BY <1>6, Zenon DEF FatDeinitDFU, DeinitDFU
  <2>1. TypeOK'
    BY <1>6, <1>a, <2>0 DEF FatDeinitDFU, DeinitDFU, TypeOK
  <2>2. Rest'
    BY <1>6, <1>a, <2>1 DEF FatDeinitDFU, DeinitDFU, TypeOK
  <2>3. QED
    BY <2>1, <2>2, <1>b
<1>7. CASE FatWrite
  <2>0. fat_failed' \in BOOLEAN /\ written' \in BOOLEAN
    BY <1>7, <1>a, Zenon DEF FatWrite, TypeOK
  <2>1. TypeOK'
    BY <1>7, <1>a, <2>0 DEF FatWrite, TypeOK
  <2>2. Rest'
    BY <1>7, <1>a, <2>1 DEF FatWrite, TypeOK
  <2>3. QED
    BY <2>1, <2>2, <1>b
<1>8. CASE CheckProgram
  <2>0. usb_host' \in BOOLEAN /\ do_error_' \in BOOLEAN
    BY <1>8, <1>a, Zenon DEF CheckProgram, TriggerError, TypeOK
  <2>1. TypeOK'
    BY <1>8, <1>a, <2>0 DEF CheckProgram, TriggerError, TypeOK
  <2>2. Rest'
    BY <1>8, <1>a, <2>1 DEF CheckProgram, TriggerError, TypeOK
  <2>3. QED
    BY <2>1, <2>2, <1>b
<1>9. CASE FillTargetMemory
  <2>1. TypeOK'
    BY <1>9, <1>a DEF FillTargetMemory, TypeOK
  <2>2. Rest'
    BY <1>9, <1>a, <2>1 DEF FillTargetMemory, TypeOK
  <2>3. QED
    BY <2>1, <2>2, <1>b
<1>10. CASE DeInitAndReset
  <2>0. attached' \in BOOLEAN
    BY <1>10, Zenon DEF DeInitAndReset, DeinitDFU
  <2>1. TypeOK'
    BY <1>10, <1>a, <2>0 DEF DeInitAndReset, DeinitDFU, TypeOK
  <2>2. Rest'
    BY <1>10, <1>a, <2>1 DEF DeInitAndReset, DeinitDFU, TypeOK
  <2>3. QED
    BY <2>1, <2>2, <1>b
<1>11. CASE Return
  <2>1. TypeOK'
    BY <1>11, <1>a DEF Return, GoOn, NextState, TypeOK
  <2>2. Rest'
    BY <1>11, <1>a, <2>1 DEF Return, GoOn, NextState, TypeOK
  <2>3. QED
    BY <2>1, <2>2, <1>b
<1>12. CASE CheckDfu
  <2>1. TypeOK'
    BY <1>12, <1>a DEF CheckDfu, GoOn, NextState, TypeOK
  <2>2. Rest'
    BY <1>12, <1>a, <2>1 DEF CheckDfu, GoOn, NextState, TypeOK
  <2>3. QED
    BY <2>1, <2>2, <1>b
<1>13. CASE Reinit
  <2>0. PICK ok \in BOOLEAN :
          /\ ok \/ UsbInitFails
          /\ attached' = ok
          /\ dfu_complete' = (dfu_complete /\ ~ok)
          /\ dfu_initiated' = (dfu_initiated /\ ~ok)
    BY <1>13, Zenon DEF Reinit
  <2>01. /\ attached' \in BOOLEAN /\ dfu_complete' \in BOOLEAN
         /\ dfu_initiated' \in BOOLEAN
         /\ attached' <=> ok
         /\ dfu_complete' <=> dfu_complete /\ ~ok
         /\ dfu_initiated' <=> dfu_initiated /\ ~ok
    <3>1. \A x, y \in BOOLEAN : (x /\ ~y) \in BOOLEAN
      BY Zenon
    <3>2. dfu_complete \in BOOLEAN /\ dfu_initiated \in BOOLEAN
      BY <1>a DEF TypeOK
    <3>3. QED
      BY <2>0, <3>1, <3>2, Zenon
  <2>02. /\ pc = "reinit" /\ pc' = "poll" /\ host' = "idle"
         /\ UNCHANGED <<state_, code, fat, flash, io, events, led,
                        boot_button_pressed_, now, timer, loc>>
    BY <1>13 DEF Reinit
  <2>1. TypeOK'
    BY <2>01, <2>02, <1>a DEF TypeOK
  <2>2. Rest'
    BY <2>0, <2>01, <2>02, <2>1, <1>a DEF TypeOK
  <2>3. QED
    BY <2>1, <2>2, <1>b
<1>14. CASE ReadNow
  <2>1. TypeOK'
    BY <1>14, <1>a DEF ReadNow, TypeOK
  <2>2. Rest'
    BY <1>14, <1>a, <2>1 DEF ReadNow, TypeOK
  <2>3. QED
    BY <2>1, <2>2, <1>b
<1>15. CASE ReadTimeoutStart
  <2>1. TypeOK'
    BY <1>15, <1>a DEF ReadTimeoutStart, TypeOK
  <2>2. Rest'
    BY <1>15, <1>a, <2>1 DEF ReadTimeoutStart, TypeOK
  <2>3. QED
    BY <2>1, <2>2, <1>b
<1>16. CASE ReadOngoing
  <2>1. TypeOK'
    BY <1>16, <1>a DEF ReadOngoing, TypeOK
  <2>2. Rest'
    BY <1>16, <1>a, <2>1 DEF ReadOngoing, TypeOK
  <2>3. QED
    BY <2>1, <2>2, <1>b
<1>17. CASE TestTimeout
  <2>0. elapsed' \in BOOLEAN /\ ongoing' \in BOOLEAN
    BY <1>17, Zenon DEF TestTimeout, GoOn, TimedOut, NextState
  <2>1. TypeOK'
    BY <1>17, <1>a, <2>0 DEF TestTimeout, GoOn, TimedOut, NextState, TypeOK
  <2>2. Rest'
    <3>1. CASE TimedOut
      <4>1. elapsed /\ ~ongoing
        BY <3>1 DEF TimedOut
      <4>2. pc = "test" /\ pc' = "load" /\ code' = 8 /\ UNCHANGED state_
        BY <1>17, <3>1 DEF TestTimeout
      <4>3. /\ ~elapsed'
            /\ UNCHANGED <<fat, flash, io, dfu, host, events, led, timer>>
        BY <1>17 DEF TestTimeout
      <4> HIDE DEF TimedOut
      <4>4. QED
        BY <1>a, <2>1, <4>1, <4>2, <4>3 DEF TypeOK
    <3>2. CASE ~TimedOut
      <4> HIDE DEF TimedOut
      <4>1. QED
        BY <1>17, <1>a, <2>1, <3>2 DEF TestTimeout, GoOn, NextState, TypeOK
    <3>3. QED
      BY <3>1, <3>2
  <2>3. QED
    BY <2>1, <2>2, <1>b
<1>18. CASE MemoryErase
  <2>1. TypeOK'
    BY <1>18, <1>a DEF MemoryErase, UsbEvent, TypeOK
  <2>2. Rest'
    BY <1>18, <1>a, <2>1 DEF MemoryErase, UsbEvent, TypeOK
  <2>3. QED
    BY <2>1, <2>2, <1>b
<1>19. CASE MemoryWrite
  <2>1. TypeOK'
    BY <1>19, <1>a DEF MemoryWrite, UsbEvent, TypeOK
  <2>2. Rest'
    BY <1>19, <1>a, <2>1 DEF MemoryWrite, UsbEvent, TypeOK
  <2>3. QED
    BY <2>1, <2>2, <1>b
<1>20. CASE EnableJump
  <2>1. TypeOK'
    BY <1>20, <1>a DEF EnableJump, UsbEvent, TypeOK
  <2>2. Rest'
    BY <1>20, <1>a, <2>1 DEF EnableJump, UsbEvent, TypeOK
  <2>3. QED
    BY <2>1, <2>2, <1>b
<1>21. CASE HostGivesUp
  <2>1. TypeOK'
    BY <1>21, <1>a DEF HostGivesUp, UsbEvent, TypeOK
  <2>2. Rest'
    BY <1>21, <1>a, <2>1 DEF HostGivesUp, UsbEvent, TypeOK
  <2>3. QED
    BY <2>1, <2>2, <1>b
<1>22. CASE ErrorLed
  <2>0. do_error_' \in BOOLEAN
    BY <1>22, <1>a, Zenon DEF ErrorLed, TypeOK
  <2>01. error_step_' \in 0 .. ErrorSteps - 1 /\ timeout_start_' \in 0 .. Wrap - 1
    <3>1. /\ error_step_ \in 0 .. ErrorSteps - 1 /\ timeout_start_ \in 0 .. Wrap - 1
          /\ now \in 0 .. Wrap - 1
      BY <1>a DEF TypeOK
    <3>2. CASE error_step_ + 1 >= ErrorSteps
      BY <1>22, <3>1, <3>2 DEF ErrorLed
    <3>3. CASE ~(error_step_ + 1 >= ErrorSteps)
      <4>1. error_step_' = error_step_ + 1 /\ timeout_start_' = timeout_start_
        BY <1>22, <3>3 DEF ErrorLed
      <4>2. QED
        BY <3>1, <3>3, <4>1
    <3>4. QED
      BY <3>2, <3>3
  <2>1. TypeOK'
    BY <1>22, <1>a, <2>0, <2>01 DEF ErrorLed, TypeOK
  <2>2. Rest'
    BY <1>22, <1>a, <2>1 DEF ErrorLed, TypeOK
  <2>3. QED
    BY <2>1, <2>2, <1>b
<1>23. CASE PressButton
  <2>1. TypeOK'
    BY <1>23, <1>a DEF PressButton, TypeOK
  <2>2. Rest'
    BY <1>23, <1>a, <2>1 DEF PressButton, TypeOK
  <2>3. QED
    BY <2>1, <2>2, <1>b
<1>24. CASE Tick
  <2>1. TypeOK'
    BY <1>24, <1>a DEF Tick, TypeOK
  <2>2. Rest'
    BY <1>24, <1>a, <2>1 DEF Tick, TypeOK
  <2>3. QED
    BY <2>1, <2>2, <1>b
<1>25. CASE ChangeMedium
  <2>1. TypeOK'
    BY <1>25, <1>a DEF ChangeMedium, TypeOK
  <2>2. Rest'
    BY <1>25, <1>a, <2>1 DEF ChangeMedium, TypeOK
  <2>3. QED
    BY <2>1, <2>2, <1>b
<1>26. CASE UNCHANGED vars
  <2>1. TypeOK'
    BY <1>26, <1>a DEF vars, TypeOK
  <2>2. Rest'
    BY <1>26, <1>a, <2>1 DEF vars, TypeOK
  <2>3. QED
    BY <2>1, <2>2, <1>b
<1>27. QED
  BY <1>1, <1>2, <1>3, <1>4, <1>5, <1>6, <1>7, <1>8, <1>9, <1>10, <1>11, <1>12, <1>13, <1>14, <1>15, <1>16, <1>17, <1>18, <1>19, <1>20, <1>21, <1>22, <1>23, <1>24, <1>25, <1>26 DEF Next, Main, Usb

LEMMA IInvariant == Spec => []LoopIInv
  BY InitInv, NextInv, PTL DEF Spec

(* LoopInv holds at every step (bootloader.cpp:405-531, dfu.cpp:157-177). *)
THEOREM LoopInvariant == Spec => []LoopInv
<1>1. LoopIInv => LoopInv
  BY DEF LoopIInv
<1>2. QED
  BY <1>1, IInvariant, PTL

(* A download that its host has left is what is booted next
   (bootloader.cpp:502-516, 676): FromDfu and Tested, with the other error codes
   ruled out by Decided. *)
THEOREM DownloadsBoot == Spec => []DownloadedBoots
<1>1. LoopIInv => DownloadedBoots
  BY DEF LoopIInv, LoopInv, TypeOK, CodeOfCaller, LeftForGood, LastKept, Decided,
         OnOldFlag, OnlyBegun, FromDfu, Tested, Bootable, DownloadedBoots
<1>2. QED
  BY <1>1, IInvariant, PTL

(* A download that was cut off is not booted before the next reset
   (bootloader.cpp:520-522, 676). *)
THEOREM PartialsNeverBoot == Spec => []PartialNeverBoots
<1>1. LoopIInv => PartialNeverBoots
  BY DEF LoopIInv, LoopInv, TypeOK, CodeOfCaller, LeftForGood, LastKept, Decided,
         OnOldFlag, FromDfu, PartialNeverBoots
<1>2. QED
  BY <1>1, IInvariant, PTL

(* Whenever the loop comes round, a host can start a download
   (bootloader.cpp:506-513, 684). *)
THEOREM DfuIsKeptUp == Spec => []DfuKeptUp
<1>1. LoopIInv => DfuKeptUp
  BY DEF LoopIInv, DownToJump, DfuKeptUp
<1>2. QED
  BY <1>1, IInvariant, PTL

(* The infinite mode never times out, for every width of the clock
   (bootloader.cpp:519-522). *)
THEOREM InfiniteModeWaits == Spec => []InfiniteWaits
<1>1. LoopIInv => InfiniteWaits
  BY DEF LoopIInv, NeverElapsed, InfiniteWaits
<1>2. QED
  BY <1>1, IInvariant, PTL
-----------------------------------------------------------------------------
(* The refinements.  Most steps of the loop touch neither the DFU device nor
   the flash. *)

Unseen == \/ SourceAbsent \/ SourceError \/ SourceAlreadyLoaded \/ LoadFAT
          \/ FillTargetMemory \/ Return \/ CheckDfu
          \/ ReadNow \/ ReadTimeoutStart \/ ReadOngoing \/ TestTimeout
          \/ ErrorLed \/ PressButton \/ Tick \/ ChangeMedium

LEMMA UnseenSteps ==
  ASSUME Unseen \/ UNCHANGED vars
  PROVE  /\ UNCHANGED <<program, written, fat_failed, io, host, timeout_>>
         /\ UNCHANGED <<dfu_initiated, dfu_complete, attached>>
         /\ pc' = "jumped" <=> pc = "jumped"
         /\ pc' \in {"fill", "deinit", "jumped"} <=> pc \in {"fill", "deinit", "jumped"}
<1> USE DEF ctl, fat, flash, dfu, led, timer, loc
<1>1. CASE SourceAbsent \/ SourceError \/ SourceAlreadyLoaded \/ LoadFAT
  BY <1>1 DEF SourceAbsent, SourceError, SourceAlreadyLoaded, LoadFAT, GoOn
<1>2. CASE FillTargetMemory \/ Return \/ CheckDfu
  BY <1>2 DEF FillTargetMemory, Return, CheckDfu, GoOn
<1>3. CASE ReadNow \/ ReadTimeoutStart \/ ReadOngoing
  BY <1>3 DEF ReadNow, ReadTimeoutStart, ReadOngoing
<1>4. CASE TestTimeout
  BY <1>4 DEF TestTimeout, GoOn
<1>5. CASE ErrorLed \/ PressButton \/ Tick \/ ChangeMedium \/ UNCHANGED vars
  BY <1>5 DEF ErrorLed, PressButton, Tick, ChangeMedium, vars
<1>6. QED
  BY <1>1, <1>2, <1>3, <1>4, <1>5 DEF Unseen

LEMMA SessionStep ==
  ASSUME LoopIInv, [Next]_vars
  PROVE  [Session!Next]_Session!sessionVars
<1> USE DEF Session!Next, Session!Host, Session!Device, Session!Up, ctl, fat, flash, dfu
<1>0. /\ TypeOK /\ DfuAnnounced /\ FromDrive /\ FromDfu /\ LeftForGood /\ Decided
      /\ CodeOfCaller /\ DownAfterDfu /\ Tested
  BY DEF LoopIInv, LoopInv
<1>1. CASE Unseen \/ UNCHANGED vars
  BY <1>1, UnseenSteps DEF Session!sessionVars
<1>2. CASE CheckProgram
  BY <1>2 DEF CheckProgram, Session!sessionVars
<1>3. CASE Poll
  <2>1. /\ pc # "jumped" /\ pc' # "jumped" /\ io' = "idle" /\ host' = host
        /\ UNCHANGED <<dfu_initiated, dfu_complete, attached>>
    BY <1>3 DEF Poll
  <2>2. CASE io = "idle"
    <3>1. program' = program
      BY <1>3, <2>2 DEF Poll
    <3>2. QED
      BY <2>1, <2>2, <3>1 DEF Session!sessionVars
  <2>3. CASE io # "idle"
    <3>1. io = "last" => program' \in {"dfu", "bad"}
      BY <1>3 DEF Poll
    <3>2. (program' \in {"dfu", "bad"}) \in BOOLEAN
      OBVIOUS
    <3>3. Session!Work
      BY <2>1, <2>3, <3>1, <3>2 DEF Session!Work
    <3>4. QED
      BY <3>3
  <2>4. QED
    BY <2>2, <2>3
<1>4. CASE FatDeinitDFU
  BY <1>4 DEF FatDeinitDFU, DeinitDFU, Session!Detach
<1>5. CASE FatWrite
  <2>1. pc = "fatwrite" /\ pc' = "load" /\ ~attached /\ UNCHANGED <<host, io, dfu>>
    BY <1>0, <1>5 DEF FatWrite, FromDrive
  <2>2. (program' \in {"dfu", "bad"}) \in BOOLEAN
    OBVIOUS
  <2>3. Session!Overwrite
    BY <2>1, <2>2 DEF Session!Overwrite
  <2>4. QED
    BY <2>3
<1>6. CASE DeInitAndReset
  <2>1. /\ pc = "deinit" /\ pc' = "jumped" /\ attached' = FALSE /\ host' = "idle"
        /\ UNCHANGED <<program, io, dfu_initiated, dfu_complete>>
    BY <1>6 DEF DeInitAndReset, DeinitDFU
  <2>2. dfu_complete => host = "left" /\ io = "idle" /\ program \in {"dfu", "bad"}
    <3> SUFFICES ASSUME dfu_complete
                 PROVE  host = "left" /\ io = "idle" /\ program \in {"dfu", "bad"}
      OBVIOUS
    <3>1. code = 7
      BY <1>0, <2>1 DEF CodeOfCaller, TypeOK, State, Decided, OnOldFlag, OnlyBegun
    <3>2. io = "idle" /\ program \in {"dfu", "bad"}
      BY <1>0, <3>1 DEF FromDfu, LeftForGood, LastKept
    <3>3. attached
      BY <1>0, <2>1 DEF DownAfterDfu, Tested
    <3>4. QED
      BY <1>0, <3>2, <3>3 DEF LeftForGood
  <2>3. Session!Jump
    BY <2>1, <2>2 DEF Session!Jump
  <2>4. QED
    BY <2>3
<1>7. CASE Reinit
  <2>1. /\ attached' \in BOOLEAN
        /\ dfu_complete' = (dfu_complete /\ ~attached')
        /\ dfu_initiated' = (dfu_initiated /\ ~attached')
    <3>1. PICK ok \in BOOLEAN : /\ attached' = ok
                               /\ dfu_complete' = (dfu_complete /\ ~ok)
                               /\ dfu_initiated' = (dfu_initiated /\ ~ok)
      BY <1>7, Zenon DEF Reinit
    <3>2. QED
      BY <3>1, Zenon
  <2>2. pc = "reinit" /\ pc' = "poll" /\ host' = "idle" /\ UNCHANGED <<program, io>>
    BY <1>7 DEF Reinit
  <2>3. Session!Reattach
    BY <2>1, <2>2, Zenon DEF Session!Reattach
  <2>4. QED
    BY <2>3
<1>8. CASE MemoryErase
  BY <1>8 DEF MemoryErase, UsbEvent, Session!AcceptErase
<1>9. CASE MemoryWrite
  BY <1>9 DEF MemoryWrite, UsbEvent, Session!AcceptWrite
<1>10. CASE EnableJump
  BY <1>10 DEF EnableJump, UsbEvent, Session!Leave
<1>11. CASE HostGivesUp
  BY <1>11 DEF HostGivesUp, UsbEvent, Session!GiveUp
<1>12. QED
  BY <1>1, <1>2, <1>3, <1>4, <1>5, <1>6, <1>7, <1>8, <1>9, <1>10, <1>11
  DEF Next, Main, Usb, Unseen

(* The DFU side of the loop is the session that DfuDownload implements too:
   neither assumes of the download what the other does not grant
   (bootloader.cpp:405-413, 502-516, 676; dfu.cpp:157-233). *)
THEOREM LoopImplementsSession == Spec => ImplementsSession
<1>1. Init => Session!Init
  <2> SUFFICES ASSUME Init PROVE Session!Init
    OBVIOUS
  <2>1. (program \in {"dfu", "bad"}) \in BOOLEAN /\ (pc = "jumped") = FALSE
    BY DEF Init
  <2>2. QED
    BY <2>1 DEF Init, Session!Init
<1>2. LoopIInv /\ [Next]_vars => [Session!Next]_Session!sessionVars
  BY SessionStep
<1>3. QED
  BY <1>1, <1>2, IInvariant, PTL DEF Spec, Session!Spec, ImplementsSession
-----------------------------------------------------------------------------
(* The tests of LoadProgramAndJump are passed only by what may be loaded. *)
LEMMA LoadsWhatItMay ==
  ASSUME LoopIInv, CheckProgram, program \in Bootable PROVE Run!MayLoad
<1>0. /\ TypeOK /\ CodeOfCaller /\ Decided /\ FromDrive /\ FromDfu /\ LeftForGood
      /\ NeverElapsed /\ WrittenHere
  BY DEF LoopIInv, LoopInv
<1>1. pc = "load" /\ code \in {4, 6, 7, 8} /\ program \notin {"none", "bad"}
  BY <1>0 DEF CheckProgram, CodeOfCaller, TypeOK, Bootable
<1>2. CASE code = 8
  <2>1. timeout_ # Infinite
    BY <1>0, <1>2 DEF NeverElapsed
  <2>2. program = "partial" => fat_failed \/ ~written
    BY <1>0, <1>2 DEF Decided, OnOldFlag
  <2>3. program = "old" => ~written
    BY <1>0 DEF WrittenHere
  <2>4. QED
    BY <1>0, <1>1, <2>1, <2>2, <2>3 DEF Run!MayLoad, TypeOK, Program, Bootable, Source
<1>3. CASE code \in {4, 6}
  <2>1. written /\ (program = state_ \/ fat_failed) /\ state_ \in Source
    BY <1>0, <1>3 DEF FromDrive, CodeOfCaller, TypeOK, State, Source
  <2>2. QED
    BY <1>0, <1>1, <2>1 DEF Run!MayLoad, Bootable, Source
<1>4. CASE code = 7
  <2>1. program = "dfu" /\ written
    BY <1>0, <1>1, <1>4 DEF FromDfu, LeftForGood, LastKept, WrittenHere
  <2>2. QED
    BY <1>1, <2>1 DEF Run!MayLoad, Bootable
<1>5. QED
  BY <1>1, <1>2, <1>3, <1>4

LEMMA RunStep ==
  ASSUME LoopIInv, [Next]_vars
  PROVE  [Run!Next]_Run!runVars
<1> USE DEF ctl, fat, flash, dfu, timer
<1>0. TypeOK /\ FromDrive /\ InCase
  BY DEF LoopIInv, LoopInv
<1>1. CASE \/ Unseen \/ UNCHANGED vars
           \/ FatDeinitDFU \/ DeInitAndReset \/ Reinit
           \/ MemoryErase \/ MemoryWrite \/ EnableJump \/ HostGivesUp
  <2>1. /\ UNCHANGED <<program, written, fat_failed, timeout_>>
        /\ pc' \in {"fill", "deinit", "jumped"} <=> pc \in {"fill", "deinit", "jumped"}
    BY <1>1, UnseenSteps
    DEF FatDeinitDFU, DeInitAndReset, DeinitDFU, Reinit, MemoryErase, MemoryWrite,
        EnableJump, HostGivesUp, UsbEvent
  <2>2. QED
    BY <2>1 DEF Run!runVars
<1>2. CASE Poll
  <2>1. pc = "poll" /\ pc' = "dispatch" /\ UNCHANGED <<timeout_, fat_failed>>
    BY <1>2 DEF Poll
  <2>2. CASE io = "idle"
    <3>1. program' = program
      BY <1>2, <2>2 DEF Poll
    <3>2. written' = written
      <4>1. written' = (written \/ FALSE)
        BY <1>2, <2>2, Zenon DEF Poll
      <4>2. QED
        BY <1>0, <4>1, Zenon DEF TypeOK
    <3>3. QED
      BY <2>1, <3>1, <3>2 DEF Run!runVars
  <2>3. CASE io # "idle"
    <3>1. written'
      BY <1>2, <2>3 DEF Poll
    <3>2. Run!Write
      BY <2>1, <3>1 DEF Run!Write, Run!Session, Run!Content, Bootable, Program, Source
    <3>3. QED
      BY <3>2 DEF Run!Next
  <2>4. QED
    BY <2>2, <2>3
<1>3. CASE FatWrite
  <2>1. pc = "fatwrite" /\ pc' = "load" /\ written' /\ timeout_' = timeout_
    BY <1>3 DEF FatWrite
  <2>2. program' \in Program
    BY <1>0, <1>3 DEF FatWrite, InCase, Source, Program
  <2>3. Run!Write
    BY <2>1, <2>2 DEF Run!Write, Run!Session, Run!Content, Bootable, Program, Source
  <2>4. QED
    BY <2>3 DEF Run!Next
<1>4. CASE CheckProgram
  <2>1. pc = "load" /\ UNCHANGED <<program, written, fat_failed, timeout_>>
    BY <1>4 DEF CheckProgram
  <2>2. CASE program \in Bootable
    <3>1. pc' = "fill"
      BY <1>4, <2>2 DEF CheckProgram
    <3>2. Run!Load
      BY <1>4, <2>1, <2>2, <3>1, LoadsWhatItMay DEF Run!Load
    <3>3. QED
      BY <3>2 DEF Run!Next
  <2>3. CASE program \notin Bootable
    <3>1. pc' = "return"
      BY <1>4, <2>3 DEF CheckProgram
    <3>2. QED
      BY <2>1, <3>1 DEF Run!runVars
  <2>4. QED
    BY <2>2, <2>3
<1>5. QED
  BY <1>1, <1>2, <1>3, <1>4 DEF Next, Main, Usb, Unseen

(* One run of the loop treats the flash as BootSystem, which is built from
   BootRun, takes for granted: nothing incomplete of this run is handed over
   unless a read or write failed unnoticed, and in the infinite mode nothing
   that was there before (bootloader.cpp:405-531, 607-693). *)
THEOREM LoopImplementsRun == Spec => ImplementsRun
<1>1. Init => Run!Init
  <2> SUFFICES ASSUME Init PROVE Run!Init
    OBVIOUS
  <2>1. pc = "poll" /\ ~written
    BY DEF Init
  <2>2. (timeout_ = Infinite) \in BOOLEAN
    OBVIOUS
  <2>3. QED
    BY <2>1, <2>2 DEF Run!Init, Run!Content
<1>2. LoopIInv /\ [Next]_vars => [Run!Next]_Run!runVars
  BY RunStep
<1>3. QED
  BY <1>1, <1>2, IInvariant, PTL DEF Spec, Run!Spec, ImplementsRun
=============================================================================
