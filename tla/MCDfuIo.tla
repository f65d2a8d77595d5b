------------------------------- MODULE MCDfuIo -------------------------------
(* DfuIo for TLC: a chip of three units with erases of two, so that one erase
   is whole, one is cut by the end of the chip and two overlap; and what
   UsbDescriptors says of the serial numbers, for words of eight bits at their
   boundaries. *)
EXTENDS DfuIo, UsbDescriptors

Boundary == {0, 1, Radix4 - 1, Radix4, WordSize - 1}
SampleUID == [w0 : Boundary, w1 : Boundary, w2 : Boundary]

ASSUME SerialsTell == \A u, v \in SampleUID : SerialTells(u, v)
ASSUME SerialsCompatible == \A u \in SampleUID : LegacyPrefix(u)
=============================================================================
