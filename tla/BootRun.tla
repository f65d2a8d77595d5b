------------------------------ MODULE BootRun ------------------------------
(***************************************************************************)
(* What one run of the main loop may do to the program in the QSPI flash,  *)
(* and when it may hand that program over.  BootLoop, with its states,     *)
(* interrupts and drives, implements it; BootSystem is built from it and   *)
(* adds the starts, resets and power losses between the runs.              *)
(***************************************************************************)

(* What the QSPI flash holds: no valid stack pointer and entry point, those of
   a program that was cut off behind them, a whole program. *)
Content == {"empty", "part", "whole"}

(* What this run has written: nothing, something that is not complete, a
   complete program, or a file of which not everything could be read or written,
   which nobody noticed. *)
Session == {"none", "writing", "done", "unread"}

VARIABLES run,       \* off, in the loop, or past the tests of LoadProgramAndJump
          infinite,  \* the timeout is that of the infinite mode
          content, session

runVars == <<run, infinite, content, session>>

Init ==
  /\ run \in {"off", "loop"} /\ infinite \in BOOLEAN
  /\ content \in Content /\ session = "none"

Begin ==
  /\ run = "off"
  /\ run' = "loop" /\ infinite' \in BOOLEAN
  /\ UNCHANGED <<content, session>>

Write ==
  /\ run = "loop"
  /\ session' \in Session \ {"none"} /\ content' \in Content
  /\ session' = "done" => content' = "whole"
  /\ UNCHANGED <<run, infinite>>

(* Nothing is loaded while a download is not complete, and in the infinite mode
   nothing that was there before. *)
MayLoad ==
  /\ content # "empty"
  /\ session # "writing"
  /\ infinite => session # "none"

Load ==
  /\ run = "loop"
  /\ MayLoad
  /\ run' = "load"
  /\ UNCHANGED <<infinite, content, session>>

(* A reset, at any time, and the start-up after it. *)
End ==
  /\ run' = "off" /\ session' = "none" /\ infinite' \in BOOLEAN
  /\ UNCHANGED content

Next == Begin \/ Write \/ Load \/ End

Spec == Init /\ [][Next]_runVars
=============================================================================
