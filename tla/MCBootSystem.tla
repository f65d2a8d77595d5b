---------------------------- MODULE MCBootSystem ----------------------------
(* BootSystem for TLC.  The clock starts at 0 or two ticks before it wraps
   around, in the middle of the hold. *)
EXTENDS BootSystem

MCClockStarts == {0, ClockMod - 2}
=============================================================================
