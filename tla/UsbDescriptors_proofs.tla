----------------------- MODULE UsbDescriptors_proofs -----------------------
(***************************************************************************)
(* Proofs about UsbDescriptors: what a serial number says of the chip, for *)
(* every value of the unique ID.                                           *)
(***************************************************************************)
EXTENDS UsbDescriptors, TLAPS

(* Division with remainder, by a positive number. *)
LEMMA DivMod == ASSUME NEW n \in Nat, NEW m \in Nat \ {0}
                PROVE  /\ n \div m \in Nat /\ n % m \in 0 .. m - 1
                       /\ n = m * (n \div m) + (n % m)
  OBVIOUS

(* A number is its quotient and its last digit. *)
LEMMA DigitsTell == ASSUME NEW x \in Nat, NEW y \in Nat,
                           x \div Radix = y \div Radix, x % Radix = y % Radix
                    PROVE  x = y
<1>1. Radix \in Nat \ {0}
  BY RadixAssumption
<1>2. x = Radix * (x \div Radix) + (x % Radix)
  BY <1>1, DivMod
<1>3. y = Radix * (y \div Radix) + (y % Radix)
  BY <1>1, DivMod
<1>4. QED
  BY <1>2, <1>3

(* Dropping the last digit of a number below Radix * k leaves one below k. *)
LEMMA DropDigit == ASSUME NEW k \in Nat, NEW x \in Nat, x < Radix * k
                   PROVE  x \div Radix \in Nat /\ x \div Radix < k
<1> DEFINE q == x \div Radix
<1>1. q \in Nat /\ x % Radix \in Nat /\ x = Radix * q + (x % Radix)
  BY DivMod, RadixAssumption
<1> HIDE DEF q
<1>2. ASSUME q >= k PROVE FALSE
  <2>1. PICK d \in Nat : q = k + d
    BY <1>1, <1>2
  <2>2. Radix * q = Radix * k + Radix * d
    BY <2>1, RadixAssumption
  <2>3. Radix * d \in Nat /\ Radix * k \in Nat
    BY <2>1, RadixAssumption
  <2>4. QED
    BY <1>1, <2>2, <2>3
<1>3. QED
  BY <1>1, <1>2 DEF q

(* Dividing twice is dividing by the square. *)
LEMMA DropTwo == ASSUME NEW r \in Nat \ {0}, NEW x \in Nat
                 PROVE  (x \div r) \div r = x \div (r * r)
<1> DEFINE q == x \div r
           p == q \div r
           a == x % r
           b == q % r
<1>1. /\ q \in Nat /\ a \in 0 .. r - 1 /\ x = r * q + a
      /\ p \in Nat /\ b \in 0 .. r - 1 /\ q = r * p + b
  BY DivMod
<1>2. r * r \in Nat \ {0} /\ r * b \in Nat
  BY <1>1
<1> HIDE DEF q, p, a, b
<1>3. r * q = r * (r * p) + r * b
  BY <1>1
<1>4. r * (r * p) = (r * r) * p
  BY <1>1
<1>5. r * b <= r * (r - 1)
  BY <1>1
<1>6. r * (r - 1) = r * r - r
  OBVIOUS
<1>7. x = (r * r) * p + (r * b + a) /\ r * b + a \in 0 .. (r * r) - 1
  BY <1>1, <1>2, <1>3, <1>4, <1>5, <1>6
<1>8. \A n, m, k, d \in Nat : m > 0 /\ n = m * k + d /\ d < m => n \div m = k
  <2> SUFFICES ASSUME NEW n \in Nat, NEW m \in Nat, NEW k \in Nat, NEW d \in Nat,
                      m > 0, n = m * k + d, d < m
               PROVE  n \div m = k
    OBVIOUS
  <2>1. PICK j \in Nat, e \in 0 .. m - 1 : j = n \div m /\ n = m * j + e
    BY DivMod
  <2>2. CASE j > k
    <3>1. PICK i \in Nat : j = k + 1 + i
      BY <2>2
    <3>2. m * j = m * k + m + m * i /\ m * i \in Nat /\ m * k \in Nat
      BY <3>1
    <3>3. QED
      BY <2>1, <3>2
  <2>3. CASE j < k
    <3>1. PICK i \in Nat : k = j + 1 + i
      BY <2>3
    <3>2. m * k = m * j + m + m * i /\ m * i \in Nat /\ m * j \in Nat
      BY <3>1
    <3>3. QED
      BY <2>1, <3>2
  <2>4. QED
    BY <2>1, <2>2, <2>3
<1>9. x \div (r * r) = p
  <2>1. r * b + a \in Nat /\ r * b + a < r * r
    BY <1>1, <1>2, <1>7
  <2>2. QED
    BY <1>1, <1>2, <1>7, <1>8, <2>1
<1>10. QED
  BY <1>9 DEF p, q

(* The eight digits of a word say which word it is. *)
LEMMA IntToUnicodeTells ==
  ASSUME NEW x \in Word, NEW y \in Word, IntToUnicode(x) = IntToUnicode(y)
  PROVE  x = y
<1> DEFINE q1(v) == v \div Radix
           q2(v) == q1(v) \div Radix
           q3(v) == q2(v) \div Radix
           q4(v) == q3(v) \div Radix
           q5(v) == q4(v) \div Radix
           q6(v) == q5(v) \div Radix
           q7(v) == q6(v) \div Radix
<1>1. /\ q7(x) % Radix = q7(y) % Radix /\ q6(x) % Radix = q6(y) % Radix
      /\ q5(x) % Radix = q5(y) % Radix /\ q4(x) % Radix = q4(y) % Radix
      /\ q3(x) % Radix = q3(y) % Radix /\ q2(x) % Radix = q2(y) % Radix
      /\ q1(x) % Radix = q1(y) % Radix /\ x % Radix = y % Radix
  BY DEF IntToUnicode
<1>2. \A v \in Word : q7(v) \in 0 .. Radix - 1 /\ \A z \in {v, q1(v), q2(v), q3(v), q4(v), q5(v), q6(v)} : z \in Nat
  <2> DEFINE r2 == Radix * Radix
             r3 == Radix * r2
             r4 == Radix * r3
             r5 == Radix * r4
             r6 == Radix * r5
             r7 == Radix * r6
  <2>1. /\ Radix \in Nat /\ r2 \in Nat /\ r3 \in Nat /\ r4 \in Nat
        /\ r5 \in Nat /\ r6 \in Nat /\ r7 \in Nat
    BY RadixAssumption
  <2>2. WordSize = Radix * r7
    BY RadixAssumption DEF WordSize, Radix4, Radix2
  <2> SUFFICES ASSUME NEW v \in Word
               PROVE  /\ q7(v) \in 0 .. Radix - 1
                      /\ \A z \in {v, q1(v), q2(v), q3(v), q4(v), q5(v), q6(v)} : z \in Nat
    OBVIOUS
  <2>3. v \in Nat /\ v < Radix * r7
    BY <2>1, <2>2 DEF Word
  <2> HIDE DEF r2, r3, r4, r5, r6, r7
  <2>4. q1(v) \in Nat /\ q1(v) < Radix * r6
    BY <2>1, <2>3, DropDigit DEF r7
  <2> HIDE DEF q1
  <2>5. q2(v) \in Nat /\ q2(v) < Radix * r5
    BY <2>1, <2>4, DropDigit DEF r6
  <2> HIDE DEF q2
  <2>6. q3(v) \in Nat /\ q3(v) < Radix * r4
    BY <2>1, <2>5, DropDigit DEF r5
  <2> HIDE DEF q3
  <2>7. q4(v) \in Nat /\ q4(v) < Radix * r3
    BY <2>1, <2>6, DropDigit DEF r4
  <2> HIDE DEF q4
  <2>8. q5(v) \in Nat /\ q5(v) < Radix * r2
    BY <2>1, <2>7, DropDigit DEF r3
  <2> HIDE DEF q5
  <2>9. q6(v) \in Nat /\ q6(v) < Radix * Radix
    BY <2>1, <2>8, DropDigit DEF r2
  <2> HIDE DEF q6
  <2>10. q7(v) \in Nat /\ q7(v) < Radix
    BY <2>1, <2>9, DropDigit
  <2>11. QED
    BY <2>1, <2>3, <2>4, <2>5, <2>6, <2>7, <2>8, <2>9, <2>10
<1>3. \A n \in 0 .. Radix - 1 : n % Radix = n
  BY RadixAssumption
<1> HIDE DEF q7
<1>4. q7(x) = q7(y)
  BY <1>1, <1>2, <1>3
<1>5. q6(x) = q6(y)
  BY <1>1, <1>2, <1>4, DigitsTell DEF q7
<1> HIDE DEF q6
<1>6. q5(x) = q5(y)
  BY <1>1, <1>2, <1>5, DigitsTell DEF q6
<1> HIDE DEF q5
<1>7. q4(x) = q4(y)
  BY <1>1, <1>2, <1>6, DigitsTell DEF q5
<1> HIDE DEF q4
<1>8. q3(x) = q3(y)
  BY <1>1, <1>2, <1>7, DigitsTell DEF q4
<1> HIDE DEF q3
<1>9. q2(x) = q2(y)
  BY <1>1, <1>2, <1>8, DigitsTell DEF q3
<1> HIDE DEF q2
<1>10. q1(x) = q1(y)
  BY <1>1, <1>2, <1>9, DigitsTell DEF q2
<1> HIDE DEF q1
<1>11. QED
  BY <1>1, <1>2, <1>10, DigitsTell DEF q1
-----------------------------------------------------------------------------
(* Serial numbers. *)

LEMMA WordSizeTyped == WordSize \in Nat \ {0} /\ Radix4 \in Nat \ {0} /\ Radix \in Nat \ {0}
<1>1. \A a \in Nat \ {0} : a * a \in Nat \ {0}
  OBVIOUS
<1>2. QED
  BY <1>1, RadixAssumption DEF WordSize, Radix4, Radix2

(* A word has eight digits, the first of them no blank. *)
LEMMA DigitsTyped == ASSUME NEW v \in Nat
                     PROVE  /\ IntToUnicode(v)[1] \in Nat
                            /\ IntToUnicode(v) = [i \in 1 .. 8 |-> IntToUnicode(v)[i]]
<1>1. \A n \in Nat : n \div Radix \in Nat /\ n % Radix \in Nat
  BY RadixAssumption
<1>2. IntToUnicode(v)[1] \in Nat
  BY <1>1 DEF IntToUnicode
<1>3. IntToUnicode(v) = [i \in 1 .. 8 |-> IntToUnicode(v)[i]]
  BY DEF IntToUnicode
<1>4. QED
  BY <1>2, <1>3

LEMMA WordsTyped == ASSUME NEW u \in UID
                    PROVE  /\ u.w0 \in Word /\ u.w1 \in Word /\ u.w2 \in Word
                           /\ Legacy(u) \in Word
<1>1. u.w0 \in Word /\ u.w1 \in Word /\ u.w2 \in Word
  BY DEF UID
<1>2. u.w0 + u.w2 \in Nat
  BY <1>1 DEF Word
<1>3. Legacy(u) \in Word
  BY <1>2, WordSizeTyped, DivMod DEF Legacy, Word
<1>4. QED
  BY <1>1, <1>3

(* The three words of a serial number that is shown, digit by digit. *)
LEMMA SerialDigits ==
  ASSUME NEW u \in UID, Legacy(u) # 0, NEW i \in 1 .. 8
  PROVE  /\ SerialNum(u)[i] = IntToUnicode(Legacy(u))[i]
         /\ SerialNum(u)[i + 8] = IntToUnicode(u.w1)[i]
         /\ SerialNum(u)[i + 16] = IntToUnicode(u.w2)[i]
<1>1. SerialNum(u) = [k \in 1 .. 24 |-> CASE k <= 8 -> IntToUnicode(Legacy(u))[k]
                                     [] k \in 9 .. 16 -> IntToUnicode(u.w1)[k - 8]
                                     [] k > 16 -> IntToUnicode(u.w2)[k - 16]]
  BY DEF SerialNum, Get_SerialNum
<1> DEFINE at(k) == CASE k <= 8 -> IntToUnicode(Legacy(u))[k]
                      [] k \in 9 .. 16 -> IntToUnicode(u.w1)[k - 8]
                      [] k > 16 -> IntToUnicode(u.w2)[k - 16]
<1>2. at(i) = IntToUnicode(Legacy(u))[i]
  <2>1. i <= 8 /\ ~(i \in 9 .. 16) /\ ~(i > 16)
    OBVIOUS
  <2>2. QED
    BY <2>1
<1>3. at(i + 8) = IntToUnicode(u.w1)[i]
  <2>1. ~(i + 8 <= 8) /\ i + 8 \in 9 .. 16 /\ ~(i + 8 > 16) /\ i + 8 - 8 = i
    OBVIOUS
  <2>2. QED
    BY <2>1
<1>4. at(i + 16) = IntToUnicode(u.w2)[i]
  <2>1. ~(i + 16 <= 8) /\ ~(i + 16 \in 9 .. 16) /\ i + 16 > 16 /\ i + 16 - 16 = i
    OBVIOUS
  <2>2. QED
    BY <2>1
<1>5. \A k \in 1 .. 24 : SerialNum(u)[k] = at(k)
  BY <1>1
<1> HIDE DEF at
<1>6. i \in 1 .. 24 /\ i + 8 \in 1 .. 24 /\ i + 16 \in 1 .. 24
  OBVIOUS
<1>7. QED
  BY <1>2, <1>3, <1>4, <1>5, <1>6

(* Boards that look the same are one board, unless they show no serial number
   (Get_SerialNum, usbd_desc.c:540-561). *)
THEOREM SerialsTellChips == \A u, v \in UID : SerialTells(u, v)
<1> SUFFICES ASSUME NEW u \in UID, NEW v \in UID, SerialNum(u) = SerialNum(v)
             PROVE  u = v \/ (Legacy(u) = 0 /\ Legacy(v) = 0)
  <2>1. \A w \in UID : \A d \in Descriptions(w) : d.serial = SerialNum(w)
    BY DEF Descriptions, FS_Desc, HS_Desc
  <2>2. \A x, y \in UID : Descriptions(x) \cap Descriptions(y) # {} => SerialNum(x) = SerialNum(y)
    BY <2>1
  <2>3. QED
    BY <2>2 DEF SerialTells
<1>1. \A n \in Word : n \in Nat
  BY DEF Word
<1>2. \A w \in UID : Legacy(w) # 0 => SerialNum(w)[1] \in Nat
  BY <1>1, WordsTyped, DigitsTyped, SerialDigits
<1>3. \A w \in UID : Legacy(w) = 0 => SerialNum(w)[1] = -1
  BY DEF SerialNum, Get_SerialNum, Blank
<1>4. CASE Legacy(u) = 0 \/ Legacy(v) = 0
  BY <1>2, <1>3, <1>4
<1>5. CASE Legacy(u) # 0 /\ Legacy(v) # 0
  <2>1. \A i \in 1 .. 8 : /\ IntToUnicode(Legacy(u))[i] = IntToUnicode(Legacy(v))[i]
                          /\ IntToUnicode(u.w1)[i] = IntToUnicode(v.w1)[i]
                          /\ IntToUnicode(u.w2)[i] = IntToUnicode(v.w2)[i]
    BY <1>5, SerialDigits
  <2>2. \A x, y \in Word : (\A i \in 1 .. 8 : IntToUnicode(x)[i] = IntToUnicode(y)[i]) => x = y
    <3> SUFFICES ASSUME NEW x \in Word, NEW y \in Word,
                        \A i \in 1 .. 8 : IntToUnicode(x)[i] = IntToUnicode(y)[i]
                 PROVE  IntToUnicode(x) = IntToUnicode(y)
      BY IntToUnicodeTells
    <3>1. [i \in 1 .. 8 |-> IntToUnicode(x)[i]] = [i \in 1 .. 8 |-> IntToUnicode(y)[i]]
      OBVIOUS
    <3>2. QED
      BY <3>1, <1>1, DigitsTyped
  <2>3. Legacy(u) = Legacy(v) /\ u.w1 = v.w1 /\ u.w2 = v.w2
    BY <2>1, <2>2, WordsTyped
  <2>4. u.w0 = v.w0
    <3>1. \A m \in Nat \ {0} : \A x, y, z \in 0 .. m - 1 :
            (x + z) % m = (y + z) % m => x = y
      <4> SUFFICES ASSUME NEW m \in Nat \ {0}, NEW x \in 0 .. m - 1,
                          NEW y \in 0 .. m - 1, NEW z \in 0 .. m - 1,
                          (x + z) % m = (y + z) % m
                   PROVE  x = y
        OBVIOUS
      <4>1. \A n \in 0 .. 2 * m - 1 : n % m = IF n < m THEN n ELSE n - m
        OBVIOUS
      <4>2. QED
        BY <4>1
    <3>2. QED
      BY <2>3, <3>1, WordsTyped, WordSizeTyped DEF Legacy, Word
  <2>5. QED
    BY <2>3, <2>4 DEF UID
<1>6. QED
  BY <1>4, <1>5

(* The old serial number is the beginning of the new one (usbd_desc.c:542-543). *)
THEOREM SerialsAreCompatible == \A u \in UID : LegacyPrefix(u)
<1> SUFFICES ASSUME NEW u \in UID, Legacy(u) # 0
             PROVE  /\ \A i \in 1 .. 8 : SerialNum(u)[i] = IntToUnicode(Legacy(u))[i]
                    /\ \A i \in 1 .. 4 : SerialNum(u)[i + 8]
                                           = IntToUnicode(u.w1 \div Radix4)[i + 4]
  BY DEF LegacyPrefix
<1> DEFINE h == u.w1 \div Radix4
<1>1. u.w1 \in Nat
  BY WordsTyped DEF Word
<1>2. h = (((u.w1 \div Radix) \div Radix) \div Radix) \div Radix
  <2> DEFINE x == u.w1
  <2>1. (x \div Radix) \div Radix = x \div Radix2
    BY <1>1, DropTwo, WordSizeTyped DEF Radix2
  <2>2. x \div Radix2 \in Nat /\ Radix2 \in Nat \ {0}
    <3>1. \A r \in Nat \ {0} : r * r \in Nat \ {0}
      OBVIOUS
    <3>2. Radix2 \in Nat \ {0}
      BY <3>1, WordSizeTyped DEF Radix2
    <3>3. QED
      BY <1>1, <3>2, DivMod
  <2>3. ((x \div Radix2) \div Radix) \div Radix = (x \div Radix2) \div Radix2
    BY <2>2, DropTwo, WordSizeTyped DEF Radix2
  <2>4. (x \div Radix2) \div Radix2 = x \div Radix4
    BY <1>1, <2>2, DropTwo DEF Radix4
  <2>5. QED
    BY <2>1, <2>3, <2>4
<1>3. \A i \in 1 .. 4 : IntToUnicode(u.w1)[i] = IntToUnicode(h)[i + 4]
  BY <1>2 DEF IntToUnicode
<1> HIDE DEF h
<1>4. \A i \in 1 .. 4 : SerialNum(u)[i + 8] = IntToUnicode(h)[i + 4]
  BY <1>3, SerialDigits
<1>5. QED
  BY <1>4, SerialDigits DEF h
=============================================================================
