------------------------------ MODULE StatusLed ------------------------------
(***************************************************************************)
(* The user LED and the boot button (ManageLed, TriggerError, ErrorLed,    *)
(* HappyLed and AudioProcess in shared/bootloader.cpp).                    *)
(*                                                                         *)
(* The audio interrupt is one action.  TriggerError, in the main loop, is  *)
(* cut at each store, since the interrupt can come between any two: the    *)
(* compiler may order those that precede a call as it likes.               *)
(*                                                                         *)
(* StoreKeepsStep and HappyTogglesAlone are plausible bugs in Store and    *)
(* HappyToggles; no Next has them.                                         *)
(***************************************************************************)
EXTENDS Integers, Sequences

CONSTANTS Wrap,             \* the clock counts modulo Wrap (2^32 in the code)
          ERROR_PERIOD_MS, HAPPY_PERIOD_MS, HAPPY_BLINKS,
          Codes,            \* error codes of the callers (4, 6, 7, 8, ...)
          MaxErrors, MaxPresses   \* bounds on errors and presses

ASSUME LedAssumption ==
  /\ Wrap \in Nat \ {0}
  /\ ERROR_PERIOD_MS \in 1 .. Wrap - 1 /\ HAPPY_PERIOD_MS \in 1 .. Wrap - 1
  /\ HAPPY_BLINKS \in Nat \ {0}
  /\ Codes \subseteq Nat \ {0, 1}
  /\ MaxErrors \in Nat /\ MaxPresses \in Nat

Field == {"do_error_", "error_led_", "error_step_"}

VARIABLES
  has_led_, led,                  \* there is an LED; its level, or the sine
  do_error_, error_led_, error_tick_, error_step_, error_code_,
  do_happy_, happy_led_, happy_tick_, happy_step_,
  download,                       \* what keeps the LED lit
  pwm_tick_, timeout_start_,
  calls,                          \* error codes of the TriggerError calls under way
  at, left,                       \* where the first of them is; its stores to come
  now, heard,                     \* clock; the interrupt came in this millisecond
  errors, presses,                \* so far
  raced,                          \* ErrorLed stepped inside TriggerError
  blinks                          \* of the error sequence

error == <<do_error_, error_led_, error_tick_, error_step_, error_code_>>
pattern == <<happy_led_, happy_tick_, happy_step_>>
happy == <<do_happy_, pattern>>
call == <<calls, at, left>>
history == <<errors, presses>>
vars == <<has_led_, led, error, happy, download, pwm_tick_,
          timeout_start_, call, now, heard, history, raced, blinks>>

Init ==
  /\ has_led_ \in BOOLEAN /\ led = "off"
  /\ do_error_ = FALSE /\ error_led_ = FALSE /\ error_tick_ = 0 /\ error_step_ = 0
  /\ error_code_ = 0
  /\ do_happy_ = FALSE /\ happy_led_ = FALSE /\ happy_tick_ = 0 /\ happy_step_ = 0
  /\ download = "none"
  /\ pwm_tick_ = 0 /\ timeout_start_ = 0
  /\ calls = <<>> /\ at = "idle" /\ left = {}
  /\ now = 0 /\ heard = FALSE
  /\ errors = 0 /\ presses = 0
  /\ raced = FALSE /\ blinks = 0

Since(tick) == (now - tick) % Wrap
Level(on) == IF on THEN "on" ELSE "off"
Write(on) == led' = IF has_led_ THEN Level(on) ELSE led
-----------------------------------------------------------------------------
(* Main loop: TriggerError, store by store. *)

(* One error, or the one of FillTargetMemory and at once the one of its caller. *)
Fail ==
  /\ calls = <<>> /\ errors < MaxErrors
  /\ \E c \in Codes : calls' \in {<<c>>, <<1, c>>}
  /\ at' = "stores" /\ left' = Field
  /\ errors' = errors + 1
  /\ raced' = FALSE /\ blinks' = 0
  /\ UNCHANGED <<has_led_, led, error, happy, download,
                 pwm_tick_, timeout_start_, now, heard, presses>>

StoreKeepsStep(f) ==
  /\ do_error_' = (do_error_ \/ f = "do_error_")
  /\ error_led_' = (error_led_ /\ f # "error_led_")
  /\ UNCHANGED error_step_
Store(f) ==
  /\ do_error_' = (do_error_ \/ f = "do_error_")
  /\ error_led_' = (error_led_ /\ f # "error_led_")
  /\ error_step_' = IF f = "error_step_" THEN 0 ELSE error_step_

StoreField ==
  /\ at = "stores"
  /\ \E f \in left : Store(f) /\ left' = left \ {f}
  /\ at' = IF left' = {} THEN "tick" ELSE "stores"
  /\ UNCHANGED <<has_led_, led, error_tick_, error_code_, happy, download, pwm_tick_, timeout_start_, calls, now, heard, history, raced, blinks>>

StoreTick ==
  /\ at = "tick"
  /\ error_tick_' = now
  /\ at' = "write"
  /\ UNCHANGED <<has_led_, led, do_error_, error_led_, error_step_, error_code_, happy,
                 download, pwm_tick_, timeout_start_, calls, left,
                 now, heard, history, raced, blinks>>

WriteLed ==
  /\ at = "write"
  /\ Write(error_led_)
  /\ at' = "code"
  /\ UNCHANGED <<has_led_, error, happy, download, pwm_tick_,
                 timeout_start_, calls, left, now, heard, history, raced, blinks>>

StoreCode ==
  /\ at = "code"
  /\ error_code_' = Head(calls)
  /\ calls' = Tail(calls)
  /\ IF calls' = <<>> THEN at' = "idle" /\ left' = {} ELSE at' = "stores" /\ left' = Field
  /\ UNCHANGED <<has_led_, led, do_error_, error_led_, error_tick_, error_step_, happy,
                 download, pwm_tick_, timeout_start_,
                 now, heard, history, raced, blinks>>

Main == StoreField \/ StoreTick \/ WriteLed \/ StoreCode
-----------------------------------------------------------------------------
(* Audio interrupt: ManageLed and the button. *)

HappyTogglesAlone ==
  do_happy_ /\ ~do_error_ /\ has_led_ /\ Since(happy_tick_) >= HAPPY_PERIOD_MS
HappyToggles == do_happy_ /\ has_led_ /\ Since(happy_tick_) >= HAPPY_PERIOD_MS
HappyEnds == HappyToggles /\ happy_step_ + 1 > HAPPY_BLINKS

HappyLed ==
  /\ IF HappyToggles
     THEN /\ happy_step_' = happy_step_ + 1
          /\ happy_tick_' = now
          /\ happy_led_' = ~happy_led_
          /\ led' = Level(happy_led_')
     ELSE UNCHANGED <<happy_step_, happy_tick_, happy_led_, led>>
  /\ UNCHANGED <<error, pwm_tick_, timeout_start_, raced, blinks>>

ErrorLed ==
  /\ IF Since(error_tick_) >= ERROR_PERIOD_MS
     THEN /\ error_step_' = error_step_ + 1
          /\ error_tick_' = now
          /\ error_led_' = ~error_led_
          /\ Write(error_led_')
          /\ blinks' = IF error_led_ THEN blinks + 1 ELSE blinks
          /\ raced' = (raced \/ at # "idle")
          /\ IF error_step_' >= error_code_ * 2 + 1
             THEN do_error_' = FALSE /\ timeout_start_' = now
             ELSE UNCHANGED <<do_error_, timeout_start_>>
     ELSE UNCHANGED <<led, do_error_, error_led_, error_tick_, error_step_,
                      timeout_start_, raced, blinks>>
  /\ UNCHANGED <<error_code_, pattern, pwm_tick_>>

Solid ==
  /\ Write(TRUE)
  /\ UNCHANGED <<error, pattern, pwm_tick_, timeout_start_, raced, blinks>>

(* The test does not wrap with the clock. *)
Breathe ==
  /\ IF now > pwm_tick_ /\ has_led_
     THEN pwm_tick_' = now /\ led' = "breathing"
     ELSE UNCHANGED <<pwm_tick_, led>>
  /\ UNCHANGED <<error, pattern, timeout_start_, raced, blinks>>

ManageLed == CASE do_happy_ -> HappyLed
               [] ~do_happy_ /\ do_error_ -> ErrorLed
               [] ~do_happy_ /\ ~do_error_ /\ download # "none" -> Solid
               [] OTHER -> Breathe

(* A rising edge of the button starts the happy sequence where the last one
   left happy_step_. *)
AudioProcess(pressed) ==
  /\ ManageLed
  /\ do_happy_' = (pressed \/ (do_happy_ /\ ~HappyEnds))
  /\ heard' = TRUE
  /\ UNCHANGED <<has_led_, download, call, now, errors>>

Audio == AudioProcess(FALSE) /\ UNCHANGED presses
AudioPressed == presses < MaxPresses /\ AudioProcess(TRUE) /\ presses' = presses + 1

(* LoadFAT begins to copy: nothing resets downloading_binary_.  A DFU download
   lights the LED too, until the device is taken down. *)
Download ==
  /\ \/ calls = <<>> /\ download' = "binary"
     \/ download = "none" /\ download' = "dfu"
     \/ download = "dfu" /\ download' = "none"
  /\ UNCHANGED <<has_led_, led, error, happy, pwm_tick_, timeout_start_, call,
                 now, heard, history, raced, blinks>>

(* Named assumptions: the audio interrupt comes at least once a millisecond, and
   TriggerError, which reads the clock once, is over within one. *)
Tick ==
  /\ calls = <<>>
  /\ heard /\ heard' = FALSE
  /\ now' = (now + 1) % Wrap
  /\ UNCHANGED <<has_led_, led, error, happy, download, pwm_tick_,
                 timeout_start_, call, history, raced, blinks>>

Next == Fail \/ Main \/ Audio \/ AudioPressed \/ Download \/ Tick

Spec == Init /\ [][Next]_vars
FairSpec == Spec /\ WF_vars(Main) /\ WF_vars(Audio) /\ WF_vars(Tick)
-----------------------------------------------------------------------------
(* Every variable has its type; a call of TriggerError is somewhere. *)
TypeOK ==
  /\ has_led_ \in BOOLEAN /\ led \in {"off", "on", "breathing"}
  /\ do_error_ \in BOOLEAN /\ error_led_ \in BOOLEAN
  /\ error_tick_ \in 0 .. Wrap - 1 /\ error_step_ \in Nat
  /\ error_code_ \in Codes \cup {0, 1}
  /\ do_happy_ \in BOOLEAN /\ happy_led_ \in BOOLEAN
  /\ happy_tick_ \in 0 .. Wrap - 1 /\ happy_step_ \in Nat
  /\ download \in {"none", "dfu", "binary"}
  /\ pwm_tick_ \in 0 .. Wrap - 1 /\ timeout_start_ \in 0 .. Wrap - 1
  /\ calls \in Seq(Codes \cup {1}) /\ Len(calls) <= 2
  /\ at \in {"idle", "stores", "tick", "write", "code"} /\ left \subseteq Field
  /\ (calls = <<>> <=> at = "idle") /\ (left # {} <=> at = "stores")
  /\ now \in 0 .. Wrap - 1 /\ heard \in BOOLEAN
  /\ errors \in 0 .. MaxErrors /\ presses \in 0 .. MaxPresses
  /\ raced \in BOOLEAN /\ blinks \in Nat

(* What TriggerError has stored so far is there, if nothing stepped on it. *)
CallSteps ==
  calls # <<>> /\ ~raced =>
    /\ blinks = 0
    /\ calls[Len(calls)] \in Codes
    /\ "do_error_" \notin left => do_error_
    /\ "error_led_" \notin left => ~error_led_
    /\ "error_step_" \notin left => error_step_ = 0

(* The steps of an error sequence, its blinks and the level of the LED agree. *)
ErrorSteps ==
  at = "idle" /\ do_error_ /\ ~raced =>
    /\ error_code_ \in Codes
    /\ error_step_ <= error_code_ * 2
    /\ error_step_ = 2 * blinks + IF error_led_ THEN 1 ELSE 0

(* The inductive invariant: the counters of the error sequence mean what they are read
   as, whatever the order of the stores of TriggerError (bootloader.cpp:340-371). *)
LedInv == TypeOK /\ CallSteps /\ ErrorSteps

(* An error blinks as often as its code says, a press of the button in the middle
   of it included, unless the interrupt stepped the sequence while TriggerError was
   setting it up (bootloader.h:85: "the number of times the LED will blink").  The
   code 1 of FillTargetMemory is never shown: its caller overwrites it. *)
CodeBlinks ==
  [][do_error_ /\ ~do_error_' => raced' \/ (blinks' = error_code_ /\ error_code_ # 1)]_vars

(* Both sequences come to an end, errors and presses on top of each other included.
   Without an LED a press stops the error sequence for ever: then do_error_ stays up
   (bootloader.cpp:310-317, 375). *)
SequencesEnd ==
  /\ do_error_ ~> (~do_error_ \/ (do_happy_ /\ ~has_led_))
  /\ (do_happy_ /\ has_led_) ~> ~do_happy_
=============================================================================
