----------------------------- MODULE QspiFlash -----------------------------
(***************************************************************************)
(* The external QSPI NOR flash as the bootloader drives it through         *)
(* QSPIHandle::Erase and QSPIHandle::Write of libDaisy (a submodule, so    *)
(* external: modelled from the calls in shared/dfu.cpp and                 *)
(* shared/bootloader.cpp).                                                 *)
(*                                                                         *)
(* A unit is 4 kB, the small segment of the DFU layout string and one DFU  *)
(* transfer; an erase covers SectorUnits of them (64 kB in the code).      *)
(* Addresses are unit numbers; FlashUnits stands for every address that    *)
(* System::GetMemoryRegion does not place in the QSPI region.              *)
(***************************************************************************)
EXTENDS Integers

CONSTANTS FlashUnits,   \* units of the chip
          SectorUnits,  \* units that one erase request covers
          Data,         \* payloads of a write
          Erased,       \* content of a unit after an erase
          Garbled,      \* content of a unit programmed over other content
          NoRequest     \* where there could be a request and is none

ASSUME FlashAssumption == /\ FlashUnits \in Nat \ {0}
                          /\ SectorUnits \in Nat \ {0}
ASSUME ContentAssumption == /\ Erased \notin Data
                            /\ Garbled \notin Data
                            /\ Erased # Garbled

Units == 0 .. FlashUnits - 1
Address == 0 .. FlashUnits
Content == Data \cup {Erased, Garbled}
Flash == [Units -> Content]

(* System::GetMemoryRegion(a) == MemoryRegion::QSPI *)
InQspi(a) == a \in Units

(* The units an erase request that starts at a covers. *)
EraseRangeInclusive(a) == {u \in Units : a <= u /\ u <= a + SectorUnits}
EraseRange(a) == {u \in Units : a <= u /\ u < a + SectorUnits}

(* Programming NOR flash only clears bits, so it stores the payload in an
   erased unit and spoils a unit that holds something else. *)
Programmed(old, d) == IF old \in {Erased, d} THEN d ELSE Garbled

Erase(f, a) == [u \in Units |-> IF u \in EraseRange(a) THEN Erased ELSE f[u]]
Program(f, a, d) == [f EXCEPT ![a] = Programmed(@, d)]

(* What a DFU request asks for.  An erase carries no payload. *)
EraseRequest == [type : {"Erase"}, start_address : Address]
WriteRequest == [type : {"Write"}, start_address : Address, data : Data]
Request == EraseRequest \cup WriteRequest
ASSUME NoRequestAssumption == NoRequest \notin Request

(* The flash after the whole of request r. *)
Applied(r, f) == IF r.type = "Erase"
                 THEN Erase(f, r.start_address)
                 ELSE Program(f, r.start_address, r.data)
=============================================================================
