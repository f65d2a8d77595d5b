--------------------------- MODULE UsbDescriptors ---------------------------
(***************************************************************************)
(* What the DFU device tells a USB host about itself (shared/usbd_desc.c): *)
(* its descriptors, and the serial number that is made from the 96 bits of *)
(* the chip's unique ID.  The functions compute; the one state they keep,  *)
(* the buffer of the serial number, is a parameter here.                   *)
(*                                                                         *)
(* A word has eight digits, of four bits each in the code.  A code unit of *)
(* a string descriptor is the digit it shows.                              *)
(***************************************************************************)
EXTENDS Integers

CONSTANTS Radix,         \* values of a digit: 16
          Manufacturer, Product, ConfigString, InterfaceString  \* the strings

ASSUME RadixAssumption == Radix \in Nat /\ Radix > 1

Radix2 == Radix * Radix
Radix4 == Radix2 * Radix2
WordSize == Radix4 * Radix4
Word == 0 .. WordSize - 1
UID == [w0 : Word, w1 : Word, w2 : Word]

(* The eight digits of a word, the highest first. *)
IntToUnicode(value) ==
  LET q1 == value \div Radix
      q2 == q1 \div Radix
      q3 == q2 \div Radix
      q4 == q3 \div Radix
      q5 == q4 \div Radix
      q6 == q5 \div Radix
      q7 == q6 \div Radix
  IN <<q7 % Radix, q6 % Radix, q5 % Radix, q4 % Radix,
       q3 % Radix, q2 % Radix, q1 % Radix, value % Radix>>

(* The first word of the serial number, and the test of Get_SerialNum. *)
Legacy(uid) == (uid.w0 + uid.w2) % WordSize

(* The buffer before the first request: zeros behind its header, no digits. *)
Blank == [i \in 1 .. 24 |-> -1]

Get_SerialNum(uid, buffer) ==
  IF Legacy(uid) = 0
  THEN buffer
  ELSE [i \in 1 .. 24 |-> CASE i <= 8 -> IntToUnicode(Legacy(uid))[i]
                          [] i \in 9 .. 16 -> IntToUnicode(uid.w1)[i - 8]
                          [] i > 16 -> IntToUnicode(uid.w2)[i - 16]]

SerialNum(uid) == Get_SerialNum(uid, Blank)

(* The device descriptor, but for what it says of the protocol. *)
FS_DeviceDesc == [idVendor |-> 1155, idProduct |-> 57105]
HS_DeviceDesc == [idVendor |-> 1155, idProduct |-> 57105]
LangIDDesc == 1033

FS_Desc(uid) == [device |-> FS_DeviceDesc, langid |-> LangIDDesc,
                 manufacturer |-> Manufacturer, product |-> Product,
                 serial |-> SerialNum(uid),
                 config |-> ConfigString, interface |-> InterfaceString]
HS_Desc(uid) == [device |-> HS_DeviceDesc, langid |-> LangIDDesc,
                 manufacturer |-> Manufacturer, product |-> Product,
                 serial |-> SerialNum(uid),
                 config |-> ConfigString, interface |-> InterfaceString]
-----------------------------------------------------------------------------
(* What one board may show: the build decides the port (DSY_DFU_USE_EXT_USB). *)
Descriptions(uid) == {FS_Desc(uid), HS_Desc(uid)}

(* Two boards that a host cannot tell apart, whichever of their ports they use, are
   one, but for those whose first and last word add up to zero: these show no serial
   number at all, however many they are (usbd_desc.c:555).  Its first word is a sum:
   only the last one makes it say which board it is. *)
SerialTells(u, v) ==
  Descriptions(u) \cap Descriptions(v) # {}
    => u = v \/ (Legacy(u) = 0 /\ Legacy(v) = 0)

(* "laid out so that the first 12 are byte-identical to the legacy 48-bit serial
   (hex8(w0 + w2) . hex4(w1[31:16]))" (usbd_desc.c:542-543): tools that know the
   old serial number find it at the start of the new one. *)
LegacyPrefix(u) ==
  Legacy(u) # 0 =>
    /\ \A i \in 1 .. 8 : SerialNum(u)[i] = IntToUnicode(Legacy(u))[i]
    /\ \A i \in 1 .. 4 : SerialNum(u)[i + 8] = IntToUnicode(u.w1 \div Radix4)[i + 4]
=============================================================================
