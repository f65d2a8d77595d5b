----------------------------- MODULE BootSystem -----------------------------
(***************************************************************************)
(* From one start to the next: the hand-over of BootHandoff, with the      *)
(* encoder read by MuxButton, the timeout it decides, and a download that  *)
(* takes time, so that a reset or a power loss can cut it off.             *)
(*                                                                         *)
(* When LoadProgramAndJump is called, and what the flash holds then, is    *)
(* taken from BootRun, which BootLoop implements.  Nothing in the flash    *)
(* says that a program in it is whole: what a start knows of the download  *)
(* before it is nothing.                                                   *)
(*                                                                         *)
(* LoadProgramAnyway is a plausible bug in LoadProgram; no Next has it.    *)
(***************************************************************************)
EXTENDS BootHandoff, MuxButton

VARIABLES content, session,  \* those of BootRun
          cut                \* a download was cut off, or a file not read in
                             \* full, and none was completed since

sysVars == <<vars, muxVars, content, session, cut>>

(* The run of the main loop in a start. *)
Run == INSTANCE BootRun WITH
         run <- IF place = "boot" THEN "loop"
                ELSE IF place \in {"copy", "mark", "data", "reset"} THEN "load"
                ELSE "off",
         infinite <- timeout_ms = INF

SysInit ==
  /\ Init /\ MuxOff
  /\ content \in {"empty", "whole"}
  /\ session = "none" /\ cut = FALSE

Keep == UNCHANGED <<muxVars, content, session, cut>>
-----------------------------------------------------------------------------
(* Start-up, with the call of MuxChannelHeldLow in main. *)

StartProcess == (ConsumeJump \/ PrepareMemory \/ Enter \/ Recover) /\ Keep

StartMain == ReadMode /\ MuxCall /\ UNCHANGED <<content, session, cut>>

ReadEncoder == MuxCode /\ UNCHANGED <<vars, content, session, cut>>
BounceEncoder == Bounce /\ UNCHANGED <<vars, content, session, cut>>

InitWithEncoder ==
  /\ InitBootloader
  /\ timeout_ms' = IF held THEN INF ELSE timeout_ms
  /\ MuxReturn
  /\ UNCHANGED <<content, session, cut>>
-----------------------------------------------------------------------------
(* The main loop: a download or a file of a drive takes a while, and may end
   before it is complete. *)
ReadFile == BufferFile /\ Keep

WriteProgram ==
  /\ Install
  /\ Run!Write
  /\ cut' = CASE session' = "done" -> FALSE
              [] session' = "unread" -> TRUE
              [] OTHER -> cut
  /\ UNCHANGED muxVars

LoadProgramAnyway == BeginLoad /\ content # "empty" /\ Keep
LoadProgram == BeginLoad /\ Run!Load /\ Keep

HandOver == (FillTargetMemory \/ MarkJump \/ StoreData) /\ Keep

(* A reset forgets the download; one from outside cuts it off. *)
Forget == /\ session' = "none"
          /\ MuxGone
          /\ UNCHANGED content

JumpReset == SystemReset /\ Forget /\ UNCHANGED cut
AskForMode == ResetToBootloader /\ Keep
Interrupted == Interrupt /\ Forget /\ cut' = (cut \/ session = "writing")

SysStartup == StartProcess \/ StartMain \/ ReadEncoder \/ InitWithEncoder
SysLoad == LoadProgram \/ HandOver \/ JumpReset
SysNext == \/ SysStartup \/ BounceEncoder \/ ReadFile \/ WriteProgram
           \/ SysLoad \/ AskForMode \/ Interrupted

SysSpec == SysInit /\ [][SysNext]_sysVars

(* The processor executes, and the clock runs. *)
SysFairSpec == SysSpec /\ WF_sysVars(SysStartup) /\ WF_sysVars(SysLoad)
-----------------------------------------------------------------------------
SysTypeOK == /\ TypeOK /\ MuxTypeOK
             /\ content \in Run!Content /\ session \in Run!Session /\ cut \in BOOLEAN

(* The encoder is read only on the way to Init, and nobody who samples the
   line misses it being high for Long ticks. *)
Sampled ==
  /\ muxStep # "off" <=> place = "init"
  /\ gap # "long"
  /\ muxStep \in {"hold", "return"} /\ gap = "never" => held
  /\ muxStep = "hold" => held
  /\ muxStep = "return" /\ held => (now - start) % ClockMod >= HoldMs

(* A download belongs to one run of the main loop. *)
SessionLocal ==
  /\ session # "none" => place \in {"boot", "copy", "mark", "data", "reset"}
  /\ session = "writing" => place = "boot"
  /\ session = "done" => content = "whole"
  /\ session = "unread" => cut
  /\ place \in {"copy", "mark", "data", "reset"} => content # "empty"
  /\ content = "part" => cut \/ session = "writing"

SysInv == SysTypeOK /\ Sampled /\ SessionLocal

(* An incomplete program is started only after a reset that cut its download
   off, and not in the run that began the download, or when a file was not read
   in full; no hand-over, other drive, or mode leads to it otherwise
   (bootloader.cpp:268, 520-522). *)
TornBootsOnlyAfterCut == place = "app" /\ content = "part" => cut

(* Whatever boot_info asked for, an encoder that is held from the reset on
   leads into the infinite mode, so a device whose program is broken can be
   recovered; one that was let go for Long ticks, or held for less than HoldMs,
   leaves the timeout as it was (main.cpp:61-74, mux_button.h). *)
EncoderDecides ==
  [][place = "init" /\ place' = "boot"
       => /\ gap = "never" => timeout_ms' = INF
          /\ timeout_ms' # timeout_ms => /\ gap # "long"
                                         /\ (now - start) % ClockMod >= HoldMs]_sysVars
=============================================================================
