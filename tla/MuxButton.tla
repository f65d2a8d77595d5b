------------------------------ MODULE MuxButton ------------------------------
(***************************************************************************)
(* MuxChannelHeldLow (shared/mux_button.cpp): a button behind an analog    *)
(* multiplexer, sampled about once a millisecond by a loop that waits for  *)
(* a difference of the wrapping clock, while the line does what it likes.  *)
(*                                                                         *)
(* System::Delay(n) of libDaisy (external) lasts n or n + 1 ticks of the   *)
(* clock: the tick under way when it is called may count or not.  The      *)
(* clock ticks only in a delay: a tick among the few instructions between  *)
(* two delays counts to the next one.                                      *)
(*                                                                         *)
(* HoldLoopEdge and WaitingAbsolute are plausible bugs in HoldLoop and     *)
(* Waiting; no Next has them.                                              *)
(***************************************************************************)
EXTENDS Naturals

CONSTANTS HoldMs,      \* hold_ms
          SettleMs,    \* settle_ms
          ClockMod,    \* GetNow() counts modulo ClockMod (2^32 in the code)
          ClockStarts  \* bound: the time of the call

ASSUME MuxAssumption ==
  /\ HoldMs \in Nat /\ SettleMs \in Nat
  /\ ClockMod \in Nat /\ HoldMs + 2 < ClockMod
  /\ ClockStarts \subseteq 0 .. ClockMod - 1

MuxStep == {"off", "settle", "hold", "return"}

VARIABLES muxStep,
          low,    \* the common line is low: the button is pressed
          now,    \* GetNow()
          delay,  \* ticks left of a System::Delay
          start,  \* of the hold, reset when it dies
          held,   \* what is returned
          high,   \* ticks since the line went high, in the hold
          gap     \* the line has been high since the call: not at all, or so long

muxVars == <<muxStep, low, now, delay, start, held, high, gap>>

Delayed(n) == {n, n + 1}

(* A release that no two samples can miss. *)
Long == 3
Gap == {"never", "brief", "long"}

MuxOff == /\ muxStep = "off"
          /\ low = FALSE /\ now = 0 /\ delay = 0 /\ start = 0
          /\ held = FALSE /\ high = 0 /\ gap = "never"

(* The call is over, or a reset ends it: its locals die. *)
MuxGone == /\ muxStep' = "off"
           /\ low' = FALSE /\ now' = 0 /\ delay' = 0 /\ start' = 0
           /\ held' = FALSE /\ high' = 0 /\ gap' = "never"

(* The call: the address lines select the channel, and the line settles. *)
MuxCall ==
  /\ muxStep = "off"
  /\ muxStep' = "settle"
  /\ low' \in BOOLEAN
  /\ gap' = IF low' THEN "never" ELSE "brief"
  /\ now' \in ClockStarts
  /\ delay' \in Delayed(SettleMs)
  /\ UNCHANGED <<start, held, high>>

(* The first sample: only a press is worth the wait. *)
FirstSample ==
  /\ muxStep = "settle" /\ delay = 0
  /\ \/ low /\ muxStep' = "hold" /\ start' = now
     \/ ~low /\ muxStep' = "return" /\ UNCHANGED start
  /\ held' = low
  /\ UNCHANGED <<low, now, delay, high, gap>>

WaitingAbsolute == now < (start + HoldMs) % ClockMod
Waiting == (now - start) % ClockMod < HoldMs

(* A round of the loop: test of the time, sample, Delay(1). *)
HoldLoopEdge ==
  /\ muxStep = "hold" /\ delay = 0
  /\ \/ ~Waiting /\ muxStep' = "return" /\ held' = low /\ UNCHANGED delay
     \/ Waiting /\ delay' \in Delayed(1) /\ UNCHANGED <<muxStep, held>>
  /\ UNCHANGED <<low, now, start, high, gap>>

HoldLoop ==
  /\ muxStep = "hold" /\ delay = 0
  /\ \/ ~Waiting /\ muxStep' = "return" /\ UNCHANGED <<held, delay>>
     \/ Waiting /\ ~low /\ muxStep' = "return" /\ held' = FALSE /\ UNCHANGED delay
     \/ Waiting /\ low /\ delay' \in Delayed(1) /\ UNCHANGED <<muxStep, held>>
  /\ UNCHANGED <<low, now, start, high, gap>>

(* The pins are given back. *)
MuxReturn == muxStep = "return" /\ MuxGone

MuxTick ==
  /\ delay > 0
  /\ delay' = delay - 1
  /\ now' = (now + 1) % ClockMod
  /\ high' = IF muxStep = "hold" /\ ~low /\ high < Long THEN high + 1 ELSE high
  /\ gap' = IF high' = Long THEN "long" ELSE gap
  /\ UNCHANGED <<muxStep, low, start, held>>

(* The button, or its contacts. *)
Bounce ==
  /\ muxStep \in {"settle", "hold"}
  /\ low' = ~low
  /\ high' = 0
  /\ gap' = IF gap = "never" THEN "brief" ELSE gap
  /\ UNCHANGED <<muxStep, now, delay, start, held>>

MuxCode == FirstSample \/ HoldLoop \/ MuxTick
-----------------------------------------------------------------------------
MuxTypeOK ==
  /\ muxStep \in MuxStep /\ low \in BOOLEAN /\ held \in BOOLEAN
  /\ now \in 0 .. ClockMod - 1 /\ start \in 0 .. ClockMod - 1
  /\ delay \in 0 .. SettleMs + 2 /\ high \in 0 .. Long /\ gap \in Gap
=============================================================================
