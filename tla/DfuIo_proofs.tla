---------------------------- MODULE DfuIo_proofs ----------------------------
(***************************************************************************)
(* Proofs about DfuIo, for every size of the chip and of an erase and for  *)
(* every set of payloads: the inductive invariant, the stability of the    *)
(* request that ProcessIoRequests works on, and that the handle implements *)
(* BlockStore.                                                             *)
(***************************************************************************)
EXTENDS DfuIo, TLAPS

USE DEF Units, Address, Content, Flash, InQspi, EraseRange, Payload, IoType,
        IoStatus, Step, EraseRequest, WriteRequest, Request

(* An erase, whole or unit by unit, and a write leave a chip-sized function
   of contents: what QSPIHandle does keeps the flash well-formed. *)
LEMMA FlashOpsTyped ==
  ASSUME NEW f \in Flash, NEW a \in Units, NEW d \in Data
  PROVE  /\ [f EXCEPT ![a] = Erased] \in Flash
         /\ Program(f, a, d) \in Flash
         /\ Erase(f, a) \in Flash
  BY DEF Program, Programmed, Erase

(* The power-up state satisfies the invariant. *)
LEMMA InitIoInv == Init => IoInv
<1> SUFFICES ASSUME Init PROVE IoInv
  OBVIOUS
<1>1. 0 \in Units /\ 0 \in Address
  BY FlashAssumption
<1>2. TypeOK
  BY <1>1 DEF Init, TypeOK
<1>3. BusyDuringIo /\ PayloadReady /\ BusyHasRequest /\ ErasedSoFar
  BY DEF Init, BusyDuringIo, PayloadReady, BusyHasRequest, ErasedSoFar
<1>4. QED
  BY <1>2, <1>3 DEF IoInv

(* No handler and no step of the main loop breaks the invariant: the busy flag
   keeps the handlers out of io_state from BeginIo to ClearBusy. *)
LEMMA NextIoInv == IoInv /\ [Next]_vars => IoInv'
<1> SUFFICES ASSUME IoInv, [Next]_vars PROVE IoInv'
  OBVIOUS
<1> USE FlashAssumption, NoRequestAssumption
<1> USE DEF IoInv, TypeOK, BusyDuringIo, PayloadReady, BusyHasRequest,
            ErasedSoFar, ioVars, flagVars, linkVars
<1>1. ASSUME NEW r \in Request, HostDownloads(r) PROVE IoInv'
  BY <1>1 DEF HostDownloads
<1>2. CASE MemoryErase
  BY <1>2 DEF MemoryErase, Placeable
<1>3. CASE MemoryWrite
  BY <1>3 DEF MemoryWrite, Placeable
<1>4. CASE HostAborts
  BY <1>4 DEF HostAborts
<1>5. CASE EnableJump
  BY <1>5 DEF EnableJump
<1>6. CASE BeginIo
  BY <1>6 DEF BeginIo
<1>7. CASE EraseUnit
  <2>1. flash' \in Flash
    BY <1>7, FlashOpsTyped DEF EraseUnit
  <2>2. QED
    BY <1>7, <2>1 DEF EraseUnit
<1>8. CASE EraseReturns
  BY <1>8 DEF EraseReturns
<1>9. CASE WriteUnit
  <2>1. flash' \in Flash
    BY <1>9, FlashOpsTyped DEF WriteUnit
  <2>2. QED
    BY <1>9, <2>1 DEF WriteUnit
<1>10. CASE ClearBusy
  BY <1>10 DEF ClearBusy
<1>11. CASE InitDFU
  BY <1>11 DEF InitDFU
<1>12. CASE DeinitDFU
  BY <1>12 DEF DeinitDFU
<1>13. CASE UNCHANGED vars
  BY <1>13 DEF vars
<1>14. QED
  BY <1>1, <1>2, <1>3, <1>4, <1>5, <1>6, <1>7, <1>8, <1>9, <1>10, <1>11,
     <1>12, <1>13
  DEF Next, Usb, Serve, ProcessIoRequests

(* In every reachable state the busy flag is the lock of io_state, a pending
   write has its payload, only QSPI addresses are pending, and a running
   erase has wiped all it has passed. *)
THEOREM IoInvariant == Spec => []IoInv
<1>1. Init => IoInv
  BY InitIoInv
<1>2. IoInv /\ [Next]_vars => IoInv'
  BY NextIoInv
<1>3. QED
  BY <1>1, <1>2, PTL DEF Spec
-----------------------------------------------------------------------------
(* A handler never touches the request that ProcessIoRequests works on: all
   of them find the busy flag up. *)
THEOREM RequestStability == Spec => RequestStable
<1>1. IoInv /\ [Next]_vars
      => [pc # "loop" => /\ io_buffer' = io_buffer
                         /\ io_state'.start_address = io_state.start_address
                         /\ io_state'.type = io_state.type]_vars
  <2> SUFFICES ASSUME IoInv, Next, pc # "loop"
               PROVE  /\ io_buffer' = io_buffer
                      /\ io_state'.start_address = io_state.start_address
                      /\ io_state'.type = io_state.type
    OBVIOUS
  <2>1. io_state.busy
    BY DEF IoInv, BusyDuringIo
  <2>2. CASE Usb
    BY <2>1, <2>2 DEF Usb, Serve, HostDownloads, MemoryErase, MemoryWrite,
                      Placeable, HostAborts, EnableJump
  <2>3. CASE ProcessIoRequests
    BY <2>3 DEF ProcessIoRequests, BeginIo, EraseUnit, EraseReturns, WriteUnit,
                ClearBusy, IoInv, TypeOK
  <2>4. CASE InitDFU \/ DeinitDFU
    BY <2>4 DEF InitDFU, DeinitDFU
  <2>5. QED
    BY <2>2, <2>3, <2>4 DEF Next
<1>2. QED
  BY <1>1, IoInvariant, PTL DEF Spec, RequestStable
-----------------------------------------------------------------------------
(* The mailbox and the store of the refinement mapping. *)
Box == IF io_state.busy /\ pc = "loop" THEN Pending ELSE NoRequest
Contents == IF pc \in {"erase", "write"} THEN Applied(Pending, flash) ELSE flash

(* What is pending is a request of the class driver for the QSPI region. *)
LEMMA PendingIsRequest ==
  ASSUME IoInv, io_state.busy
  PROVE  Pending \in Request /\ Pending # NoRequest
  BY NoRequestAssumption
  DEF IoInv, TypeOK, PayloadReady, BusyHasRequest, Pending

(* One more unit wiped does not change what the whole erase will leave. *)
LEMMA EraseAbsorbsUnit ==
  ASSUME NEW f \in Flash, NEW a \in Units, NEW u \in EraseRange(a)
  PROVE  Erase([f EXCEPT ![u] = Erased], a) = Erase(f, a)
  BY DEF Erase

(* An erase that has wiped its whole range has nothing left to do. *)
LEMMA EraseComplete ==
  ASSUME NEW f \in Flash, NEW a \in Units,
         \A u \in EraseRange(a) : f[u] = Erased
  PROVE  Erase(f, a) = f
  BY DEF Erase

(* When the erase is past its range, the whole range is wiped. *)
LEMMA ErasedAtEnd ==
  ASSUME IoInv, EraseReturns
  PROVE  \A u \in EraseRange(io_state.start_address) : flash[u] = Erased
<1> DEFINE a == io_state.start_address
<1>1. /\ a \in Units /\ cursor \in 0 .. FlashUnits
      /\ a <= cursor /\ cursor <= a + SectorUnits
      /\ ~(cursor \in Units /\ a <= cursor /\ cursor < a + SectorUnits)
  BY DEF EraseReturns, IoInv, TypeOK, ErasedSoFar
<1>2. \A u \in EraseRange(a) : u < cursor
  BY <1>1, FlashAssumption
<1>3. QED
  BY <1>2 DEF EraseReturns, IoInv, ErasedSoFar

(* Every step of the handle is a step of the store or leaves it alone. *)
LEMMA StepRefines ==
  IoInv /\ [Next]_vars => [Store!Next]_(Store!bsVars)
<1> SUFFICES ASSUME IoInv, [Next]_vars
             PROVE  Store!Next \/ (Box' = Box /\ Contents' = Contents)
  BY DEF Store!bsVars, Box, Contents
<1> USE DEF ioVars, flagVars, linkVars
<1>0. /\ flash \in Flash
      /\ io_state \in IoStatus
      /\ io_state.start_address \in Units
  BY DEF IoInv, TypeOK
<1>1. ASSUME NEW r \in Request, HostDownloads(r)
      PROVE  Box' = Box /\ Contents' = Contents
  BY <1>1 DEF HostDownloads, Box, Contents, Pending, Applied
<1>2. ASSUME MemoryErase \/ MemoryWrite
      PROVE  Store!Next
  <2>1. pc = "loop" /\ ~io_state.busy
    BY <1>2 DEF MemoryErase, MemoryWrite, Placeable, IoInv, BusyDuringIo
  <2>2. request \in Request /\ request # NoRequest
    BY <1>2, NoRequestAssumption DEF MemoryErase, MemoryWrite
  <2>3. Box = NoRequest /\ Box' = request
    <3>1. CASE MemoryErase
      BY <2>1, <3>1 DEF MemoryErase, Box, Pending
    <3>2. CASE MemoryWrite
      BY <2>1, <3>2 DEF MemoryWrite, Box, Pending
    <3>3. QED
      BY <1>2, <3>1, <3>2
  <2>4. Contents' = Contents
    BY <1>2, <2>1 DEF MemoryErase, MemoryWrite, Contents
  <2>5. Store!Accept(request)
    BY <1>2, <2>3, <2>4
    DEF Store!Accept, Box, Contents, MemoryErase, MemoryWrite, Placeable, Store!InQspi, Store!Units
  <2>6. QED
    BY <2>2, <2>5 DEF Store!Next, Store!Request, Store!EraseRequest,
                      Store!WriteRequest, Store!Address
<1>3. CASE HostAborts \/ EnableJump \/ InitDFU \/ DeinitDFU
  BY <1>3 DEF HostAborts, EnableJump, InitDFU, DeinitDFU, Box, Contents, Pending
<1>4. ASSUME BeginIo
      PROVE  Store!Next
  <2>1. Box = Pending /\ Pending # NoRequest /\ Pending' = Pending
    BY <1>4, PendingIsRequest DEF BeginIo, Box, Pending
  <2>2. Box' = NoRequest /\ pc' \in {"erase", "write"}
    BY <1>4 DEF BeginIo, Box, IoInv, TypeOK, BusyHasRequest
  <2>3. Contents = flash /\ Contents' = Applied(Pending, flash)
    BY <1>4, <2>1, <2>2 DEF BeginIo, Contents, Applied
  <2>4. Store!Perform
    BY <2>1, <2>2, <2>3
    DEF Store!Perform, Box, Contents, Store!Applied, Store!Erase, Store!Program,
        Store!Programmed, Store!EraseRange, Store!Units,
        Applied, Erase, Program, Programmed
  <2>5. QED
    BY <2>4 DEF Store!Next
<1>5. ASSUME EraseUnit
      PROVE  Box' = Box /\ Contents' = Contents
  <2>1. Pending' = Pending /\ io_state.type = "Erase"
    BY <1>5 DEF EraseUnit, Pending, IoInv, BusyDuringIo
  <2>2. Erase(flash', io_state.start_address) = Erase(flash, io_state.start_address)
    BY <1>0, <1>5, EraseAbsorbsUnit DEF EraseUnit
  <2>3. Box' = Box
    BY <1>5 DEF EraseUnit, Box
  <2>4. QED
    BY <1>5, <2>1, <2>2, <2>3 DEF EraseUnit, Contents, Applied, Pending
<1>6. ASSUME EraseReturns
      PROVE  Box' = Box /\ Contents' = Contents
  <2>1. io_state.type = "Erase"
    BY <1>6 DEF EraseReturns, IoInv, BusyDuringIo
  <2>2. \A u \in EraseRange(io_state.start_address) : flash[u] = Erased
    BY <1>6, ErasedAtEnd
  <2>3. Erase(flash, io_state.start_address) = flash
    BY <1>0, <2>2, EraseComplete
  <2>4. QED
    BY <1>6, <2>1, <2>3 DEF EraseReturns, Box, Contents, Applied, Pending
<1>7. ASSUME WriteUnit
      PROVE  Box' = Box /\ Contents' = Contents
  BY <1>7 DEF WriteUnit, Box, Contents, Applied, Pending, IoInv, BusyDuringIo
<1>8. ASSUME ClearBusy
      PROVE  Box' = Box /\ Contents' = Contents
  BY <1>8 DEF ClearBusy, Box, Contents, IoInv, TypeOK
<1>9. CASE UNCHANGED vars
  BY <1>9 DEF vars, Box, Contents, Pending, Applied
<1>10. QED
  BY <1>1, <1>2, <1>3, <1>4, <1>5, <1>6, <1>7, <1>8, <1>9
  DEF Next, Usb, Serve, ProcessIoRequests

(* The handle implements the store with a mailbox: every accepted request
   takes effect exactly once, whole, before the next is accepted. *)
THEOREM Refinement == Spec => ImplementsStore
<1>1. Init => Store!Init
  BY DEF Init, Store!Init, Store!Flash, Store!Units, Store!Content
<1>2. IoInv /\ [Next]_vars => [Store!Next]_(Store!bsVars)
  BY StepRefines
<1>3. QED
  BY <1>1, <1>2, IoInvariant, PTL DEF Spec, ImplementsStore, Store!Spec
=============================================================================
