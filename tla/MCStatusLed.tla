----------------------------- MODULE MCStatusLed -----------------------------
(* StatusLed for TLC.  A clock that wraps after a few periods, one error code
   besides the code 1, and a second error and press on top of the first. *)
EXTENDS StatusLed
=============================================================================
