-------------------------- MODULE BootSystem_proofs --------------------------
(***************************************************************************)
(* Proofs about BootSystem: what a start knows of a download, and that the *)
(* encoder decides the mode, for every hold time, settling time and clock  *)
(* width with room for the hold.                                           *)
(***************************************************************************)
EXTENDS BootSystem, BootHandoff_proofs

(* The loop looks at the line at least every two ticks: with delay ticks to go
   until the next sample, the line cannot have been high for longer. *)
SampledInTime ==
  /\ high <= 2 /\ gap # "long"
  /\ low \/ muxStep \in {"off", "settle"} => high = 0
  /\ muxStep = "hold" => high + delay <= 2
  /\ muxStep \in {"off", "return"} => delay = 0

(* A press that was there from the call on is in the samples. *)
PressSeen ==
  /\ muxStep # "off" /\ gap = "never" => low
  /\ muxStep = "hold" => held
  /\ muxStep = "return" /\ gap = "never" => held

(* The hold is over when the wrapping clock says so. *)
HeldInFull == muxStep = "return" /\ held => (now - start) % ClockMod >= HoldMs

MuxInv == MuxTypeOK /\ SampledInTime /\ PressSeen /\ HeldInFull
-----------------------------------------------------------------------------
(* A step of the system is one of BootHandoff, whose actions it is made of, or
   none: what is proved of the hand-over can be used here. *)

LEMMA SysStep == ASSUME [SysNext]_sysVars PROVE [Next]_vars
<1>1. CASE SysStartup
  <2>1. CASE StartProcess
    BY <2>1 DEF StartProcess, Next, Startup
  <2>2. CASE StartMain
    BY <2>2 DEF StartMain, Next, Startup
  <2>3. CASE ReadEncoder
    BY <2>3 DEF ReadEncoder
  <2>4. CASE InitWithEncoder
    BY <2>4 DEF InitWithEncoder, Next, Startup
  <2>5. QED
    BY <1>1, <2>1, <2>2, <2>3, <2>4 DEF SysStartup
<1>2. CASE BounceEncoder
  BY <1>2 DEF BounceEncoder
<1>3. CASE ReadFile \/ WriteProgram
  BY <1>3 DEF ReadFile, WriteProgram, Next
<1>4. CASE SysLoad
  BY <1>4 DEF SysLoad, LoadProgram, HandOver, JumpReset, Next, Load
<1>5. CASE AskForMode
  BY <1>5 DEF AskForMode, Next
<1>6. CASE Interrupted
  BY <1>6 DEF Interrupted, Next
<1>7. CASE UNCHANGED sysVars
  BY <1>7 DEF sysVars
<1>8. QED
  BY <1>1, <1>2, <1>3, <1>4, <1>5, <1>6, <1>7 DEF SysNext

LEMMA SysHandoff == SysSpec => []HandoffInv
<1>1. SysInit => HandoffInv
  BY InitHandoffInv DEF SysInit
<1>2. HandoffInv /\ [SysNext]_sysVars => HandoffInv'
  BY SysStep, NextHandoffInv
<1>3. QED
  BY <1>1, <1>2, PTL DEF SysSpec
-----------------------------------------------------------------------------
(* The invariant of the sampling. *)

LEMMA MuxOffInv == MuxOff => MuxInv
<1> USE MuxAssumption DEF MuxOff
<1>1. MuxOff => low \in BOOLEAN /\ held \in BOOLEAN
  BY Zenon
<1>2. MuxOff => MuxTypeOK
  BY <1>1 DEF MuxTypeOK, MuxStep, Gap, Long
<1>3. QED
  BY <1>2 DEF MuxInv, SampledInTime, PressSeen, HeldInFull

LEMMA MuxGoneInv == MuxGone => MuxInv'
<1> USE MuxAssumption DEF MuxGone
<1>1. MuxGone => low' \in BOOLEAN /\ held' \in BOOLEAN
  BY Zenon
<1>2. MuxGone => MuxTypeOK'
  BY <1>1 DEF MuxTypeOK, MuxStep, Gap, Long
<1>3. QED
  BY <1>2 DEF MuxInv, SampledInTime, PressSeen, HeldInFull

LEMMA MuxCallInv == ASSUME MuxInv, MuxCall PROVE MuxInv'
<1> USE MuxAssumption DEF MuxInv, MuxCall, Delayed
<1>1. MuxTypeOK'
  BY DEF MuxTypeOK, MuxStep, Gap, Long
<1>2. low' \/ gap' = "brief"
  OBVIOUS
<1>3. high = 0
  BY DEF MuxTypeOK, SampledInTime, Long
<1>4. QED
  BY <1>1, <1>2, <1>3 DEF MuxTypeOK, SampledInTime, PressSeen, HeldInFull

LEMMA FirstSampleInv == ASSUME MuxInv, FirstSample PROVE MuxInv'
<1> USE MuxAssumption DEF MuxInv, FirstSample
<1>1. MuxTypeOK'
  BY DEF MuxTypeOK, MuxStep
<1>2. SampledInTime'
  BY DEF MuxTypeOK, SampledInTime
<1>3. PressSeen' /\ HeldInFull'
  BY DEF MuxTypeOK, PressSeen, HeldInFull
<1>4. QED
  BY <1>1, <1>2, <1>3

LEMMA HoldLoopInv == ASSUME MuxInv, HoldLoop PROVE MuxInv'
<1> USE MuxAssumption DEF MuxInv, HoldLoop, Delayed
<1>0. held' \in BOOLEAN
  BY Zenon DEF MuxTypeOK
<1>1. MuxTypeOK'
  BY <1>0 DEF MuxTypeOK, MuxStep
<1>2. SampledInTime'
  BY DEF MuxTypeOK, SampledInTime
<1>3. PressSeen'
  BY DEF MuxTypeOK, PressSeen
<1>4. HeldInFull'
  BY DEF MuxTypeOK, HeldInFull, Waiting
<1>5. QED
  BY <1>1, <1>2, <1>3, <1>4

LEMMA MuxTickInv == ASSUME MuxInv, MuxTick PROVE MuxInv'
<1> USE MuxAssumption DEF MuxInv, MuxTick, Long
<1>1. muxStep \in {"settle", "hold"}
  BY DEF MuxTypeOK, MuxStep, SampledInTime
<1>2. high' <= 2 /\ high' \in Nat /\ gap' = gap
  BY <1>1 DEF MuxTypeOK, SampledInTime
<1>3. MuxTypeOK'
  BY <1>2 DEF MuxTypeOK
<1>4. SampledInTime'
  BY <1>1, <1>2 DEF MuxTypeOK, SampledInTime
<1>5. PressSeen' /\ HeldInFull'
  BY <1>1, <1>2 DEF PressSeen, HeldInFull
<1>6. QED
  BY <1>3, <1>4, <1>5

LEMMA BounceInv == ASSUME MuxInv, Bounce PROVE MuxInv'
<1> USE MuxAssumption DEF MuxInv, Bounce
<1>0. low' \in BOOLEAN
  BY Zenon
<1>1. MuxTypeOK' /\ gap' \in {"brief", "long"}
  BY <1>0 DEF MuxTypeOK, Gap, Long
<1>2. SampledInTime'
  BY <1>1 DEF MuxTypeOK, SampledInTime
<1>3. PressSeen' /\ HeldInFull'
  BY <1>1 DEF MuxTypeOK, PressSeen, HeldInFull
<1>4. QED
  BY <1>1, <1>2, <1>3
-----------------------------------------------------------------------------
(* The invariant of the whole: the line is sampled on the way to Init, and a
   download belongs to one run. *)

Placed == muxStep # "off" <=> place = "init"
SysIInv == TypeOK /\ MuxInv /\ Placed /\ SysTypeOK /\ SessionLocal

LEMMA SysIInvInv == SysIInv => SysInv
  BY DEF SysIInv, SysInv, Sampled, MuxInv, SampledInTime, PressSeen, HeldInFull, Placed

LEMMA SysInitInv == SysInit => SysIInv
<1> SUFFICES ASSUME SysInit PROVE SysIInv
  OBVIOUS
<1>1. TypeOK
  BY InitHandoffInv DEF SysInit, HandoffInv
<1>2. MuxInv
  BY MuxOffInv DEF SysInit
<1>3. cut \in BOOLEAN
  BY Zenon DEF SysInit
<1>4. Placed /\ SysTypeOK /\ SessionLocal
  BY <1>1, <1>2, <1>3
  DEF SysInit, Init, MuxOff, MuxInv, Placed, SysTypeOK, Run!Content, Run!Session, SessionLocal
<1>5. QED
  BY <1>1, <1>2, <1>4 DEF SysIInv

LEMMA SysNextInv == ASSUME HandoffInv, HandoffInv', SysIInv, [SysNext]_sysVars
                    PROVE  SysIInv'
<1>a. TypeOK /\ TypeOK' /\ MuxInv
  BY DEF HandoffInv, SysIInv
<1>b. ASSUME MuxInv', Placed', content' \in Run!Content, session' \in Run!Session,
             cut' \in BOOLEAN, SessionLocal'
      PROVE  SysIInv'
  BY <1>a, <1>b DEF SysIInv, SysTypeOK, MuxInv
<1>c. ASSUME UNCHANGED muxVars PROVE MuxInv'
  BY <1>a, <1>c DEF muxVars, MuxInv, MuxTypeOK, SampledInTime, PressSeen, HeldInFull
<1> USE DEF SysIInv, SysTypeOK, Run!Content, Run!Session
<1>1. CASE StartProcess
  <2>1. MuxInv'
    BY <1>1, <1>c DEF StartProcess, Keep
  <2>2. Placed'
    BY <1>1 DEF StartProcess, Keep, muxVars, Placed, ConsumeJump, PrepareMemory, Enter, Recover
  <2>3. SessionLocal'
    BY <1>1 DEF StartProcess, Keep, SessionLocal, ConsumeJump, PrepareMemory, Enter, Recover
  <2>4. QED
    BY <1>1, <1>b, <2>1, <2>2, <2>3 DEF StartProcess, Keep
<1>2. CASE StartMain
  <2>1. MuxInv'
    BY <1>2, <1>a, MuxCallInv DEF StartMain
  <2>2. Placed'
    BY <1>2 DEF StartMain, ReadMode, MuxCall, Placed
  <2>3. SessionLocal'
    BY <1>2 DEF StartMain, ReadMode, SessionLocal
  <2>4. QED
    BY <1>2, <1>b, <2>1, <2>2, <2>3 DEF StartMain
<1>3. CASE ReadEncoder \/ BounceEncoder
  <2>1. MuxInv'
    BY <1>3, <1>a, FirstSampleInv, HoldLoopInv, MuxTickInv, BounceInv
    DEF ReadEncoder, BounceEncoder, MuxCode
  <2>2. Placed'
    BY <1>3 DEF ReadEncoder, BounceEncoder, MuxCode, FirstSample, HoldLoop, MuxTick,
                Bounce, Placed, vars
  <2>3. SessionLocal'
    BY <1>3 DEF ReadEncoder, BounceEncoder, SessionLocal, vars
  <2>4. QED
    BY <1>3, <1>b, <2>1, <2>2, <2>3 DEF ReadEncoder, BounceEncoder
<1>4. CASE InitWithEncoder
  <2>1. MuxInv'
    BY <1>4, MuxGoneInv DEF InitWithEncoder, MuxReturn
  <2>2. Placed'
    BY <1>4 DEF InitWithEncoder, InitBootloader, MuxReturn, MuxGone, Placed
  <2>3. SessionLocal'
    BY <1>4 DEF InitWithEncoder, InitBootloader, SessionLocal
  <2>4. QED
    BY <1>4, <1>b, <2>1, <2>2, <2>3 DEF InitWithEncoder
<1>5. CASE WriteProgram
  <2>1. MuxInv'
    BY <1>5, <1>c DEF WriteProgram
  <2>2. Placed'
    BY <1>5 DEF WriteProgram, Install, muxVars, Placed
  <2>3. content' \in Run!Content /\ session' \in Run!Session /\ place = "boot" /\ place' = "boot"
    BY <1>5 DEF WriteProgram, Install, Run!Write
  <2>4. cut' \in BOOLEAN
    BY <1>5, Zenon DEF WriteProgram
  <2>5. SessionLocal'
    BY <1>5, <2>3 DEF WriteProgram, Run!Write, SessionLocal
  <2>6. QED
    BY <1>5, <1>b, <2>1, <2>2, <2>3, <2>4, <2>5
<1>7. CASE ReadFile \/ LoadProgram \/ HandOver \/ AskForMode
  <2>1. MuxInv'
    BY <1>7, <1>c DEF ReadFile, BufferFile, LoadProgram, HandOver, AskForMode, Keep
  <2>2. Placed'
    BY <1>7 DEF ReadFile, BufferFile, LoadProgram, HandOver, AskForMode, Keep, BeginLoad,
                FillTargetMemory, MarkJump, StoreData, ResetToBootloader, muxVars, Placed
  <2>3. SessionLocal'
    BY <1>7 DEF ReadFile, BufferFile, LoadProgram, HandOver, AskForMode, Keep, BeginLoad,
                FillTargetMemory, MarkJump, StoreData, ResetToBootloader, SessionLocal,
                Run!Load, Run!MayLoad
  <2>4. QED
    BY <1>7, <1>b, <2>1, <2>2, <2>3
    DEF ReadFile, BufferFile, LoadProgram, HandOver, AskForMode, Keep
<1>8. CASE JumpReset
  <2>1. MuxInv'
    BY <1>8, MuxGoneInv DEF JumpReset, Forget
  <2>2. Placed'
    BY <1>8 DEF JumpReset, Forget, SystemReset, MuxGone, Placed
  <2>3. SessionLocal'
    BY <1>8 DEF JumpReset, Forget, SystemReset, SessionLocal
  <2>4. QED
    BY <1>8, <1>b, <2>1, <2>2, <2>3 DEF JumpReset, Forget
<1>9. CASE Interrupted
  <2>1. MuxInv'
    BY <1>9, MuxGoneInv DEF Interrupted, Forget
  <2>2. Placed'
    BY <1>9 DEF Interrupted, Interrupt, Reset, PowerLoss, Forget, MuxGone, Placed
  <2>3. cut' \in BOOLEAN
    BY <1>9, Zenon DEF Interrupted
  <2>4. SessionLocal'
    BY <1>9 DEF Interrupted, Interrupt, Reset, PowerLoss, Forget, SessionLocal
  <2>5. QED
    BY <1>9, <1>b, <2>1, <2>2, <2>3, <2>4 DEF Interrupted, Forget
<1>10. CASE UNCHANGED sysVars
  BY <1>10, <1>b, <1>c DEF sysVars, vars, muxVars, Placed, SessionLocal
<1>11. QED
  BY <1>1, <1>2, <1>3, <1>4, <1>5, <1>7, <1>8, <1>9, <1>10
  DEF SysNext, SysStartup, SysLoad

LEMMA SysIInvariant == SysSpec => []SysIInv
<1>1. SysInit => SysIInv
  BY SysInitInv
<1>2. SysSpec => []HandoffInv
  BY SysHandoff
<1>3. HandoffInv /\ HandoffInv' /\ SysIInv /\ [SysNext]_sysVars => SysIInv'
  BY SysNextInv
<1>4. QED
  BY <1>1, <1>2, <1>3, PTL DEF SysSpec

(* Types, sampling and downloads, at every step from one start to the next
   (main.cpp:52-80, mux_button.cpp:35-52). *)
THEOREM SysInvariant == SysSpec => []SysInv
  BY SysIInvariant, SysIInvInv, PTL

(* Only a cut-off lets an incomplete program start (bootloader.cpp:520-522). *)
THEOREM TornBootsAreCut == SysSpec => []TornBootsOnlyAfterCut
<1>1. SysIInv => TornBootsOnlyAfterCut
  BY DEF SysIInv, SessionLocal, TornBootsOnlyAfterCut
<1>2. QED
  BY <1>1, SysIInvariant, PTL

(* An encoder held through the start leads into the infinite mode, a shorter
   press changes nothing (main.cpp:61-74). *)
THEOREM EncoderIsObeyed == SysSpec => EncoderDecides
<1>1. ASSUME SysIInv, [SysNext]_sysVars
      PROVE  [place = "init" /\ place' = "boot"
                => /\ gap = "never" => timeout_ms' = INF
                   /\ timeout_ms' # timeout_ms
                        => gap # "long" /\ (now - start) % ClockMod >= HoldMs]_sysVars
  <2> SUFFICES ASSUME SysNext, place = "init", place' = "boot"
               PROVE  /\ gap = "never" => timeout_ms' = INF
                      /\ timeout_ms' # timeout_ms
                           => gap # "long" /\ (now - start) % ClockMod >= HoldMs
    BY <1>1
  <2>1. InitWithEncoder
    BY DEF SysNext, SysStartup, StartProcess, StartMain, ReadEncoder, BounceEncoder,
           ReadFile, BufferFile, WriteProgram, SysLoad, LoadProgram, HandOver,
           JumpReset, AskForMode, Interrupted, ConsumeJump, PrepareMemory, Enter,
           Recover, ReadMode, Install, BeginLoad, FillTargetMemory, MarkJump,
           StoreData, SystemReset, ResetToBootloader, Interrupt, Reset, PowerLoss, vars
  <2>2. muxStep = "return" /\ timeout_ms' = IF held THEN INF ELSE timeout_ms
    BY <2>1 DEF InitWithEncoder, MuxReturn
  <2>3. /\ gap # "long"
        /\ gap = "never" => held
        /\ held => (now - start) % ClockMod >= HoldMs
    BY <1>1, <2>2 DEF SysIInv, MuxInv, SampledInTime, PressSeen, HeldInFull
  <2>4. QED
    BY <2>2, <2>3
<1>2. QED
  BY <1>1, SysIInvariant, PTL DEF SysSpec, EncoderDecides
=============================================================================
