------------------------- MODULE BootHandoff_proofs -------------------------
(***************************************************************************)
(* Proofs about BootHandoff: what a reset at any moment can and cannot do  *)
(* to the hand-over, for runs of any length.                               *)
(***************************************************************************)
EXTENDS BootHandoff, TLAPS

USE DEF Status, Start, Kind, Sram, Timeout, Place

(* Every mode has its timeout. *)
LEMMA TimeoutForTyped == \A mode : TimeoutFor(mode) \in Timeout
  BY DEF TimeoutFor

(* Power-up satisfies the invariant. *)
LEMMA InitHandoffInv == Init => HandoffInv
  BY DEF Init, HandoffInv, TypeOK, ResetLeadsToBootloader, FaultOnlyTorn,
         JumpHanded, ModeKept, HandedRuns

(* No step breaks the invariant: the marker is consumed before it is acted
   on, and it is followed by its data unless a reset comes in between. *)
LEMMA NextHandoffInv == HandoffInv /\ [Next]_vars => HandoffInv'
<1> SUFFICES ASSUME HandoffInv, [Next]_vars PROVE HandoffInv'
  OBVIOUS
<1> USE DEF HandoffInv, TypeOK, ResetLeadsToBootloader, FaultOnlyTorn,
            JumpHanded, ModeKept, HandedRuns, Runs
<1>1. CASE ConsumeJump
  BY <1>1 DEF ConsumeJump
<1>2. CASE PrepareMemory
  BY <1>2 DEF PrepareMemory
<1>3. CASE Enter
  BY <1>3 DEF Enter
<1>4. CASE Recover
  BY <1>4 DEF Recover
<1>5. CASE ReadMode
  BY <1>5, TimeoutForTyped DEF ReadMode
<1>6. CASE InitBootloader
  BY <1>6 DEF InitBootloader
<1>7. CASE Install
  BY <1>7 DEF Install
<1>8. CASE BeginLoad
  BY <1>8 DEF BeginLoad
<1>9. CASE FillTargetMemory
  BY <1>9 DEF FillTargetMemory
<1>10. CASE MarkJump
  BY <1>10 DEF MarkJump
<1>11. CASE StoreData
  BY <1>11 DEF StoreData
<1>12. CASE SystemReset
  BY <1>12 DEF SystemReset
<1>13. CASE ResetToBootloader
  BY <1>13 DEF ResetToBootloader
<1>14. CASE Reset
  BY <1>14 DEF Reset
<1>15. CASE PowerLoss
  BY <1>15 DEF PowerLoss
<1>16. CASE BufferFile
  BY <1>16 DEF BufferFile
<1>17. CASE UNCHANGED vars
  BY <1>17 DEF vars
<1>18. QED
  BY <1>1, <1>2, <1>3, <1>4, <1>5, <1>6, <1>7, <1>8, <1>9, <1>10, <1>11,
     <1>12, <1>13, <1>14, <1>15, <1>16, <1>17
  DEF Next, Startup, Load, Interrupt

(* The invariant holds in every reachable state. *)
THEOREM HandoffInvariant == Spec => []HandoffInv
<1>1. Init => HandoffInv
  BY InitHandoffInv
<1>2. HandoffInv /\ [Next]_vars => HandoffInv'
  BY NextHandoffInv
<1>3. QED
  BY <1>1, <1>2, PTL DEF Spec

(* Past startup_process no JUMP is left in boot_info: a reset of whatever
   executes then ends in the bootloader. *)
THEOREM ResetsLeadToBootloader == Spec => []ResetLeadsToBootloader
<1>1. HandoffInv => ResetLeadsToBootloader
  BY DEF HandoffInv
<1>2. QED
  BY <1>1, HandoffInvariant, PTL

(* Only a reset between the store of the status and the store of the data can
   send the processor where no program is. *)
THEOREM FaultsAreTorn == Spec => []FaultOnlyTorn
<1>1. HandoffInv => FaultOnlyTorn
  BY DEF HandoffInv
<1>2. QED
  BY <1>1, HandoffInvariant, PTL

(* Every jump of startup_process uses up one decision of the bootloader. *)
THEOREM JumpsAreHanded == Spec => JumpOncePerHandoff
<1>1. HandoffInv /\ [Next]_vars
      => [place = "startup" /\ place' = "jump" => handed]_vars
  BY DEF HandoffInv, JumpHanded, Next, Startup, Load, Interrupt, ConsumeJump,
         PrepareMemory, Enter, Recover, ReadMode, InitBootloader, BufferFile,
         Install, BeginLoad, FillTargetMemory, MarkJump, StoreData, SystemReset,
         ResetToBootloader, Reset, PowerLoss
<1>2. QED
  BY <1>1, HandoffInvariant, PTL DEF Spec, JumpOncePerHandoff

(* The timeout of the bootloader is the one that was asked for, once. *)
THEOREM ModesAreGrantedOnce == Spec => ModeGrantedOnce
<1>1. HandoffInv /\ [Next]_vars
      => [place = "startup" /\ place' = "init" => timeout_ms' = TimeoutFor(asked)]_vars
  <2> SUFFICES ASSUME HandoffInv, Next, place = "startup", place' = "init"
               PROVE  timeout_ms' = TimeoutFor(asked)
    OBVIOUS
  <2>1. ReadMode
    BY DEF Next, Startup, Load, Interrupt, ConsumeJump, PrepareMemory, Enter,
           Recover, InitBootloader, BufferFile, Install, BeginLoad, FillTargetMemory,
           MarkJump, StoreData, SystemReset, ResetToBootloader, Reset, PowerLoss
  <2>2. CASE asked = status
    BY <2>1, <2>2 DEF ReadMode
  <2>3. CASE asked # status
    BY <2>1, <2>3 DEF ReadMode, HandoffInv, TypeOK, ModeKept, TimeoutFor
  <2>4. QED
    BY <2>2, <2>3
<1>2. QED
  BY <1>1, HandoffInvariant, PTL DEF Spec, ModeGrantedOnce
=============================================================================
