-------------------------- MODULE StatusLed_proofs --------------------------
(***************************************************************************)
(* Proofs about StatusLed: the blinks of an error, for every clock,        *)
(* period, code and number of errors and presses.                          *)
(***************************************************************************)
EXTENDS StatusLed, TLAPS

USE LedAssumption

(* The first state satisfies the invariant. *)
LEMMA InitLedInv == Init => LedInv
<1> SUFFICES ASSUME Init PROVE LedInv
  OBVIOUS
<1>1. /\ error_tick_ \in 0 .. Wrap - 1 /\ happy_tick_ \in 0 .. Wrap - 1
      /\ pwm_tick_ \in 0 .. Wrap - 1 /\ timeout_start_ \in 0 .. Wrap - 1
      /\ now \in 0 .. Wrap - 1 /\ errors \in 0 .. MaxErrors /\ presses \in 0 .. MaxPresses
      /\ error_step_ \in Nat /\ happy_step_ \in Nat /\ blinks \in Nat
  BY DEF Init
<1>2. calls \in Seq(Codes \cup {1}) /\ Len(calls) <= 2
  BY DEF Init
<1>3. /\ at \in {"idle", "stores", "tick", "write", "code"} /\ left \subseteq Field
      /\ (calls = <<>> <=> at = "idle") /\ (left # {} <=> at = "stores")
  BY DEF Init
<1>4. TypeOK
  BY <1>1, <1>2, <1>3, Zenon DEF Init, TypeOK
<1>5. CallSteps /\ ErrorSteps
  BY DEF Init, CallSteps, ErrorSteps
<1>6. QED
  BY <1>4, <1>5 DEF LedInv

(* TriggerError. *)
LEMMA FailLedInv == LedInv /\ Fail => LedInv'
<1> SUFFICES ASSUME LedInv, Fail PROVE LedInv'
  OBVIOUS
<1> USE DEF LedInv, Fail
<1>1. PICK c \in Codes : calls' \in {<<c>>, <<1, c>>}
  OBVIOUS
<1>2. calls' \in Seq(Codes \cup {1}) /\ Len(calls') <= 2 /\ calls' # <<>>
      /\ calls'[Len(calls')] \in Codes
  <2>1. CASE calls' = <<c>>
    BY <2>1
  <2>2. CASE calls' = <<1, c>>
    BY <2>2
  <2>3. QED
    BY <1>1, <2>1, <2>2
<1>3. at' = "stores" /\ left' = Field /\ Field # {} /\ raced' = FALSE /\ blinks' = 0
      /\ errors' \in 0 .. MaxErrors
  BY DEF TypeOK, Field
<1>4. UNCHANGED <<has_led_, led, do_error_, error_led_, error_tick_, error_step_, error_code_,
                  do_happy_, happy_led_, happy_tick_, happy_step_>>
      /\ UNCHANGED <<download, pwm_tick_, timeout_start_, now, heard, presses>>
  BY DEF error, happy, pattern
<1>5. TypeOK'
  <2>1. /\ calls' \in Seq(Codes \cup {1}) /\ Len(calls') <= 2
        /\ at' \in {"idle", "stores", "tick", "write", "code"} /\ left' \subseteq Field
        /\ calls' = <<>> <=> at' = "idle"
        /\ left' # {} <=> at' = "stores"
    BY <1>2, <1>3
  <2>2. blinks' \in Nat /\ errors' \in 0 .. MaxErrors
    BY <1>3
  <2>3. raced' \in BOOLEAN
    BY <1>3, Zenon
  <2>4. QED
    BY <2>1, <2>2, <2>3, <1>4 DEF TypeOK
<1>6. CallSteps' /\ ErrorSteps'
  BY <1>2, <1>3, <1>4 DEF CallSteps, ErrorSteps, Field
<1>7. QED
  BY <1>5, <1>6

LEMMA StoreFieldLedInv == LedInv /\ StoreField => LedInv'
<1> SUFFICES ASSUME LedInv, StoreField PROVE LedInv'
  OBVIOUS
<1> USE DEF LedInv, StoreField
<1>1. PICK f \in left : Store(f) /\ left' = left \ {f}
  OBVIOUS
<1>2. UNCHANGED <<has_led_, led, error_tick_, error_code_, do_happy_, happy_led_,
                  happy_tick_, happy_step_>>
      /\ UNCHANGED <<download, pwm_tick_, timeout_start_, calls, now, heard, errors, presses,
                     raced, blinks>>
  BY DEF happy, pattern, history
<1>3. do_error_' \in BOOLEAN /\ error_led_' \in BOOLEAN
  BY <1>1, Zenon DEF Store
<1>4. error_step_' \in Nat
  BY <1>1 DEF Store, TypeOK
<1>5. at' \in {"stores", "tick"} /\ left' \subseteq Field /\ (left' # {} <=> at' = "stores")
      /\ at = "stores"
  BY <1>1 DEF TypeOK
<1>6. TypeOK'
  BY <1>2, <1>3, <1>4, <1>5 DEF TypeOK
<1>7. CallSteps' /\ ErrorSteps'
  <2>1. CallSteps'
    <3> SUFFICES ASSUME ~raced PROVE CallSteps'
      BY <1>2 DEF CallSteps
    <3>1. CallSteps /\ calls # <<>>
      BY <1>5 DEF TypeOK
    <3>2. /\ "do_error_" \notin left' => do_error_'
          /\ "error_led_" \notin left' => ~error_led_'
          /\ "error_step_" \notin left' => error_step_' = 0
      BY <1>1, <3>1 DEF CallSteps, Store
    <3>3. QED
      BY <1>2, <3>1, <3>2 DEF CallSteps
  <2>2. ErrorSteps'
    BY <1>5 DEF ErrorSteps
  <2>3. QED
    BY <2>1, <2>2
<1>8. QED
  BY <1>6, <1>7

LEMMA StoreTickLedInv == LedInv /\ StoreTick => LedInv'
<1> SUFFICES ASSUME LedInv, StoreTick PROVE LedInv'
  OBVIOUS
<1>1. UNCHANGED <<has_led_, led, do_error_, error_led_, error_step_, error_code_, do_happy_,
                  happy_led_, happy_tick_, happy_step_>>
      /\ UNCHANGED <<download, pwm_tick_, timeout_start_, calls, left, now, heard, errors,
                     presses, raced, blinks>>
      /\ error_tick_' = now /\ at' = "write" /\ at = "tick"
  BY DEF StoreTick, happy, pattern, history
<1>2. QED
  BY <1>1 DEF LedInv, TypeOK, CallSteps, ErrorSteps

LEMMA WriteLedInv == LedInv /\ WriteLed => LedInv'
<1> SUFFICES ASSUME LedInv, WriteLed PROVE LedInv'
  OBVIOUS
<1>1. UNCHANGED <<has_led_, do_error_, error_led_, error_tick_, error_step_, error_code_,
                  do_happy_, happy_led_, happy_tick_, happy_step_>>
      /\ UNCHANGED <<download, pwm_tick_, timeout_start_, calls, left, now, heard, errors,
                     presses, raced, blinks>>
      /\ at' = "code" /\ at = "write"
  BY DEF WriteLed, error, happy, pattern, history
<1>2. led' \in {"off", "on", "breathing"}
  BY DEF WriteLed, Write, Level, LedInv, TypeOK
<1>3. QED
  BY <1>1, <1>2 DEF LedInv, TypeOK, CallSteps, ErrorSteps

LEMMA StoreCodeLedInv == LedInv /\ StoreCode => LedInv'
<1> SUFFICES ASSUME LedInv, StoreCode PROVE LedInv'
  OBVIOUS
<1>1. UNCHANGED <<has_led_, led, do_error_, error_led_, error_tick_, error_step_,
                  do_happy_, happy_led_, happy_tick_, happy_step_>>
      /\ UNCHANGED <<download, pwm_tick_, timeout_start_, now, heard, errors, presses,
                     raced, blinks>>
      /\ error_code_' = Head(calls) /\ calls' = Tail(calls)
      /\ at = "code" /\ left = {} /\ calls # <<>>
      /\ IF calls' = <<>> THEN at' = "idle" /\ left' = {} ELSE at' = "stores" /\ left' = Field
  BY DEF StoreCode, happy, pattern, history, LedInv, TypeOK
<1>2. calls \in Seq(Codes \cup {1}) /\ Len(calls) \in Nat /\ Len(calls) <= 2 /\ Len(calls) # 0
  <2>1. calls \in Seq(Codes \cup {1}) /\ Len(calls) <= 2
    BY DEF LedInv, TypeOK
  <2>2. QED
    BY <1>1, <2>1
<1>3. /\ calls' \in Seq(Codes \cup {1}) /\ Len(calls') <= 2
      /\ error_code_' \in Codes \cup {1}
      /\ calls' = <<>> => error_code_' = calls[Len(calls)]
      /\ calls' # <<>> => calls'[Len(calls')] = calls[Len(calls)]
  <2>1. CASE Len(calls) = 1
    BY <1>1, <1>2, <2>1
  <2>2. CASE Len(calls) = 2
    <3>1. calls' \in Seq(Codes \cup {1}) /\ Len(calls') = 1
      BY <1>1, <1>2, <2>2
    <3>2. calls'[1] = calls[2] /\ error_code_' = calls[1]
      BY <1>1, <1>2, <2>2
    <3>3. QED
      BY <1>2, <2>2, <3>1, <3>2
  <2>3. Len(calls) = 1 \/ Len(calls) = 2
    <3>1. \A n \in Nat : n <= 2 /\ n # 0 => n = 1 \/ n = 2
      OBVIOUS
    <3>2. QED
      BY <1>2, <3>1, Zenon
  <2>4. QED
    BY <2>1, <2>2, <2>3
<1>4. TypeOK'
  <2>1. /\ has_led_' \in BOOLEAN /\ do_error_' \in BOOLEAN /\ error_led_' \in BOOLEAN
        /\ do_happy_' \in BOOLEAN /\ happy_led_' \in BOOLEAN /\ heard' \in BOOLEAN
        /\ raced' \in BOOLEAN
    BY <1>1, Zenon DEF LedInv, TypeOK
  <2>2. /\ led' \in {"off", "on", "breathing"} /\ download' \in {"none", "dfu", "binary"}
        /\ error_tick_' \in 0 .. Wrap - 1 /\ happy_tick_' \in 0 .. Wrap - 1
        /\ pwm_tick_' \in 0 .. Wrap - 1 /\ timeout_start_' \in 0 .. Wrap - 1
        /\ now' \in 0 .. Wrap - 1
        /\ error_step_' \in Nat /\ happy_step_' \in Nat /\ blinks' \in Nat
        /\ errors' \in 0 .. MaxErrors /\ presses' \in 0 .. MaxPresses
    BY <1>1, Zenon DEF LedInv, TypeOK
  <2>3. /\ at' \in {"idle", "stores", "tick", "write", "code"} /\ left' \subseteq Field
        /\ (calls' = <<>> <=> at' = "idle") /\ (left' # {} <=> at' = "stores")
    BY <1>1 DEF Field
  <2>4. error_code_' \in Codes \cup {0, 1} /\ calls' \in Seq(Codes \cup {1}) /\ Len(calls') <= 2
    BY <1>3
  <2>5. QED
    BY <2>1, <2>2, <2>3, <2>4 DEF TypeOK
<1>5. CallSteps' /\ ErrorSteps'
  BY <1>1, <1>3 DEF LedInv, TypeOK, CallSteps, ErrorSteps, Field
<1>6. QED
  BY <1>4, <1>5 DEF LedInv

(* Each part of ManageLed: what it leaves, and what it keeps of the invariant. *)
ErrorTyped ==
  /\ do_error_ \in BOOLEAN /\ error_led_ \in BOOLEAN
  /\ error_tick_ \in 0 .. Wrap - 1 /\ error_step_ \in Nat
  /\ error_code_ \in Codes \cup {0, 1} /\ timeout_start_ \in 0 .. Wrap - 1
  /\ raced \in BOOLEAN /\ blinks \in Nat

LEMMA LedTyped == ASSUME led \in {"off", "on", "breathing"}, NEW on, Write(on)
                  PROVE  led' \in {"off", "on", "breathing"}
  BY DEF Write, Level

LEMMA ErrorLedInv ==
  ASSUME LedInv, do_error_, ErrorLed, UNCHANGED call
  PROVE  ErrorTyped' /\ CallSteps' /\ ErrorSteps'
<1> USE DEF ErrorLed, LedInv
<1>1. CASE Since(error_tick_) >= ERROR_PERIOD_MS
  <2>1. /\ error_step_' = error_step_ + 1 /\ error_tick_' = now /\ error_led_' = ~error_led_
        /\ blinks' = IF error_led_ THEN blinks + 1 ELSE blinks
        /\ raced' = (raced \/ at # "idle") /\ error_code_' = error_code_
        /\ at' = at /\ calls' = calls
        /\ IF error_step_' >= error_code_ * 2 + 1
           THEN do_error_' = FALSE /\ timeout_start_' = now
           ELSE UNCHANGED <<do_error_, timeout_start_>>
    BY <1>1 DEF call
  <2>2. /\ error_step_ \in Nat /\ blinks \in Nat /\ now \in 0 .. Wrap - 1
        /\ error_code_ \in Codes \cup {0, 1} /\ error_code_ \in Nat
        /\ timeout_start_ \in 0 .. Wrap - 1
        /\ do_error_ \in BOOLEAN /\ error_led_ \in BOOLEAN /\ raced \in BOOLEAN
    BY DEF TypeOK
  <2>3. do_error_' \in BOOLEAN /\ error_led_' \in BOOLEAN /\ raced' \in BOOLEAN
    BY <2>1, <2>2, Zenon
  <2>4. ErrorTyped'
    <3>1. timeout_start_' \in 0 .. Wrap - 1
      BY <2>1, <2>2
    <3>2. blinks' \in Nat /\ error_step_' \in Nat
      BY <2>1, <2>2
    <3>3. QED
      BY <2>1, <2>2, <2>3, <3>1, <3>2 DEF ErrorTyped
  <2>5. CallSteps'
    BY <2>1 DEF CallSteps, TypeOK
  <2>6. ErrorSteps'
    <3> SUFFICES ASSUME at = "idle", do_error_', ~raced'
                 PROVE  /\ error_code_ \in Codes /\ error_step_' <= error_code_ * 2
                        /\ error_step_' = 2 * blinks' + IF error_led_' THEN 1 ELSE 0
      BY <2>1 DEF ErrorSteps
    <3>1. /\ error_code_ \in Codes /\ error_step_ <= error_code_ * 2
          /\ error_step_ = 2 * blinks + IF error_led_ THEN 1 ELSE 0
      BY <2>1 DEF ErrorSteps
    <3>2. error_step_' <= error_code_ * 2
      BY <2>1, <2>2
    <3>3. error_step_' = 2 * blinks' + IF error_led_' THEN 1 ELSE 0
      <4>1. CASE error_led_
        BY <2>1, <2>2, <3>1, <4>1
      <4>2. CASE ~error_led_
        <5>1. error_led_'
          BY <2>1, <4>2, Zenon
        <5>2. blinks' = blinks /\ error_step_' = error_step_ + 1 /\ error_step_ = 2 * blinks
          BY <2>1, <3>1, <4>2
        <5>3. QED
          BY <5>1, <5>2
      <4>3. QED
        BY <4>1, <4>2
    <3>4. QED
      BY <3>1, <3>2, <3>3
  <2>7. QED
    BY <2>4, <2>5, <2>6
<1>2. CASE ~(Since(error_tick_) >= ERROR_PERIOD_MS)
  <2>1. /\ UNCHANGED <<error, timeout_start_, raced, blinks, calls, at, left>>
    BY <1>2 DEF call, error
  <2>2. QED
    BY <2>1 DEF error, ErrorTyped, CallSteps, ErrorSteps, TypeOK
<1>3. QED
  BY <1>1, <1>2

(* Nothing but ErrorLed touches the error sequence. *)
LEMMA ErrorLeft ==
  ASSUME LedInv, UNCHANGED <<error, timeout_start_, raced, blinks>>, UNCHANGED call
  PROVE  ErrorTyped' /\ CallSteps' /\ ErrorSteps'
<1>1. /\ UNCHANGED <<do_error_, error_led_, error_tick_, error_step_, error_code_>>
      /\ UNCHANGED <<timeout_start_, raced, blinks, calls, at, left>>
  BY DEF error, call
<1>2. QED
  BY <1>1 DEF LedInv, TypeOK, ErrorTyped, CallSteps, ErrorSteps

LEMMA ManageLedInv ==
  ASSUME LedInv, ManageLed, UNCHANGED call
  PROVE  /\ ErrorTyped' /\ CallSteps' /\ ErrorSteps'
         /\ led' \in {"off", "on", "breathing"} /\ pwm_tick_' \in 0 .. Wrap - 1
         /\ IF HappyToggles
            THEN happy_step_' = happy_step_ + 1 /\ happy_tick_' = now /\ happy_led_' = ~happy_led_
            ELSE UNCHANGED pattern
<1>1. TypeOK
  BY DEF LedInv
<1>2. CASE do_happy_ /\ HappyLed
  <2>1. UNCHANGED <<error, timeout_start_, raced, blinks>>
    BY <1>2 DEF HappyLed
  <2>2. led' \in {"off", "on", "breathing"}
    BY <1>1, <1>2 DEF HappyLed, Level, TypeOK
  <2>3. ErrorTyped' /\ CallSteps' /\ ErrorSteps'
    BY <2>1, ErrorLeft
  <2>4. pwm_tick_' \in 0 .. Wrap - 1
    BY <1>1, <1>2 DEF HappyLed, TypeOK
  <2>5. IF HappyToggles
        THEN happy_step_' = happy_step_ + 1 /\ happy_tick_' = now /\ happy_led_' = ~happy_led_
        ELSE UNCHANGED pattern
    <3>1. CASE HappyToggles
      BY <1>2, <3>1, Zenon DEF HappyLed
    <3>2. CASE ~HappyToggles
      BY <1>2, <3>2 DEF HappyLed, pattern
    <3>3. QED
      BY <3>1, <3>2
  <2>6. QED
    BY <2>2, <2>3, <2>4, <2>5
<1>3. CASE ~do_happy_ /\ do_error_ /\ ErrorLed
  <2>1. led' \in {"off", "on", "breathing"}
    BY <1>1, <1>3, LedTyped DEF ErrorLed, TypeOK
  <2>2. UNCHANGED <<pattern, pwm_tick_>> /\ ~HappyToggles
    BY <1>3 DEF ErrorLed, HappyToggles
  <2>3. QED
    BY <1>1, <1>3, <2>1, <2>2, ErrorLedInv DEF TypeOK
<1>4. CASE ~do_happy_ /\ (Solid \/ Breathe)
  <2>1. led' \in {"off", "on", "breathing"}
    BY <1>1, <1>4, LedTyped DEF Solid, Breathe, TypeOK
  <2>2. UNCHANGED <<error, timeout_start_, raced, blinks, pattern>> /\ ~HappyToggles
    BY <1>4 DEF Solid, Breathe, HappyToggles
  <2>3. pwm_tick_' \in 0 .. Wrap - 1
    BY <1>1, <1>4 DEF Solid, Breathe, TypeOK
  <2>4. QED
    BY <2>1, <2>2, <2>3, ErrorLeft
<1>5. QED
  BY <1>2, <1>3, <1>4, Zenon DEF ManageLed

(* The interrupt, with or without a press. *)
LEMMA AudioLedInv ==
  ASSUME LedInv, NEW pressed \in BOOLEAN, AudioProcess(pressed), presses' \in 0 .. MaxPresses
  PROVE  LedInv'
<1> USE DEF AudioProcess
<1>1. TypeOK
  BY DEF LedInv
<1>2. /\ ErrorTyped' /\ CallSteps' /\ ErrorSteps'
      /\ led' \in {"off", "on", "breathing"} /\ pwm_tick_' \in 0 .. Wrap - 1
      /\ IF HappyToggles
         THEN happy_step_' = happy_step_ + 1 /\ happy_tick_' = now /\ happy_led_' = ~happy_led_
         ELSE UNCHANGED <<happy_step_, happy_tick_, happy_led_>>
  BY ManageLedInv DEF pattern
<1>3. do_happy_' \in BOOLEAN /\ happy_led_' \in BOOLEAN /\ heard' \in BOOLEAN
  BY <1>1, <1>2, Zenon DEF TypeOK, HappyEnds
<1>4. happy_step_' \in Nat /\ happy_tick_' \in 0 .. Wrap - 1
  BY <1>1, <1>2 DEF TypeOK
<1>5. UNCHANGED <<has_led_, download, calls, at, left, now, errors>>
  BY DEF call
<1>6. TypeOK'
  BY <1>1, <1>2, <1>3, <1>4, <1>5 DEF TypeOK, ErrorTyped
<1>7. QED
  BY <1>2, <1>6 DEF LedInv

(* No step breaks the invariant. *)
LEMMA NextLedInv == LedInv /\ [Next]_vars => LedInv'
<1> SUFFICES ASSUME LedInv, [Next]_vars PROVE LedInv'
  OBVIOUS
<1>1. CASE Audio
  BY <1>1, AudioLedInv DEF Audio, LedInv, TypeOK
<1>2. CASE AudioPressed
  <2>1. presses' \in 0 .. MaxPresses
    BY <1>2 DEF AudioPressed, LedInv, TypeOK
  <2>2. QED
    BY <1>2, <2>1, AudioLedInv DEF AudioPressed
<1>3. CASE Download \/ Tick \/ UNCHANGED vars
  <2>1. /\ UNCHANGED <<has_led_, led, do_error_, error_led_, error_tick_, error_step_, error_code_,
                       do_happy_, happy_led_, happy_tick_, happy_step_>>
        /\ UNCHANGED <<pwm_tick_, timeout_start_, calls, at, left, errors, presses, raced, blinks>>
    BY <1>3 DEF Download, Tick, vars, error, happy, pattern, call, history
  <2>2. download' \in {"none", "dfu", "binary"} /\ now' \in 0 .. Wrap - 1
    BY <1>3 DEF Download, Tick, vars, LedInv, TypeOK
  <2>3. heard' \in BOOLEAN
    BY <1>3, Zenon DEF Download, Tick, vars, LedInv, TypeOK
  <2>4. TypeOK'
    BY <2>1, <2>2, <2>3 DEF LedInv, TypeOK
  <2>5. QED
    BY <2>1, <2>4 DEF LedInv, CallSteps, ErrorSteps
<1>4. QED
  BY <1>1, <1>2, <1>3, FailLedInv, StoreFieldLedInv, StoreTickLedInv, WriteLedInv, StoreCodeLedInv
  DEF Next, Main

(* The invariant holds in every reachable state. *)
THEOREM LedInvariant == Spec => []LedInv
<1>1. LedInv /\ [Next]_vars => LedInv'
  BY NextLedInv
<1>2. QED
  BY <1>1, InitLedInv, PTL DEF Spec

(* An error that is not raced with blinks as often as its code says. *)
THEOREM ErrorsBlinkTheirCode == Spec => CodeBlinks
<1>1. LedInv /\ [Next]_vars
      => [do_error_ /\ ~do_error_' => raced' \/ (blinks' = error_code_ /\ error_code_ # 1)]_vars
  <2> SUFFICES ASSUME LedInv, Next, do_error_, ~do_error_', ~raced'
               PROVE  blinks' = error_code_ /\ error_code_ # 1
    OBVIOUS
  <2>1. ErrorLed
    BY DEF Next, Main, Fail, StoreField, Store, StoreTick, WriteLed, StoreCode, Audio,
           AudioPressed, AudioProcess, ManageLed, HappyLed, Solid, Breathe, Download, Tick, error
  <2>2. /\ error_step_' = error_step_ + 1
        /\ blinks' = IF error_led_ THEN blinks + 1 ELSE blinks
        /\ raced' = (raced \/ at # "idle")
        /\ error_step_' >= error_code_ * 2 + 1
    BY <2>1 DEF ErrorLed
  <2>3. /\ error_code_ \in Codes /\ error_step_ <= error_code_ * 2
        /\ error_step_ = 2 * blinks + IF error_led_ THEN 1 ELSE 0
    BY <2>2 DEF LedInv, ErrorSteps
  <2>4. blinks \in Nat /\ error_code_ \in Nat /\ error_code_ # 1 /\ error_step_ \in Nat
    BY <2>3 DEF LedInv, TypeOK
  <2>5. QED
    BY <2>2, <2>3, <2>4
<1>2. QED
  BY <1>1, LedInvariant, PTL DEF Spec, CodeBlinks
=============================================================================
