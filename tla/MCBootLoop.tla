----------------------------- MODULE MCBootLoop -----------------------------
(* BootLoop for TLC.  A timeout of no tick, which is looked at within one, and the
   infinite one, in which the clock goes round and round, and error sequences of
   two steps. *)
EXTENDS BootLoop
=============================================================================
