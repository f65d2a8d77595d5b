-------------------------------- MODULE DfuIo --------------------------------
(***************************************************************************)
(* The DFU handle of the bootloader (shared/dfu.cpp).                      *)
(*                                                                         *)
(* Two actors share io_state, io_buffer and the two progress flags without *)
(* a lock.  The USB interrupt runs the class driver and through it the     *)
(* handlers MEM_If_*_FS and enable_jump; it preempts the main loop         *)
(* anywhere and runs to completion, so each handler is one action.  The    *)
(* main loop runs ProcessIoRequests, InitDFU and DeinitDFU;                *)
(* ProcessIoRequests takes up to a second per erase, so it is one step per *)
(* flash unit, and an interrupt can come between any two of them.          *)
(***************************************************************************)
EXTENDS QspiFlash

Payload == Data \cup {Erased}   \* io_buffer is zero-filled or holds a payload

VARIABLES io_state,          \* the one pending I/O request
          io_buffer,         \* copy of the payload of a write request
          dfu_initiated,     \* an erase was accepted
          dfu_complete,      \* the host told the device to leave DFU mode
          dfu_initialized_,  \* the bootloader brought the USB device up
          attached,          \* the USB device really is up
          request,           \* command the class driver still has to place
          pc,                \* where the main loop is in ProcessIoRequests
          cursor,            \* next unit of the running erase
          flash

ioVars == <<pc, cursor, flash>>
flagVars == <<dfu_initiated, dfu_complete>>
linkVars == <<dfu_initialized_, attached>>
vars == <<io_state, io_buffer, flagVars, linkVars, request, ioVars>>

IoType == {"Idle", "Erase", "Write"}
IoStatus == [busy : BOOLEAN, type : IoType, start_address : Address]
Step == {"loop", "erase", "write", "finish"}

(* The IoStatus constructor, the flags cleared by Impl::Init, and the call
   of IoInit that brings the device up. *)
Init ==
  /\ io_state = [busy |-> FALSE, type |-> "Idle", start_address |-> 0]
  /\ io_buffer = Erased
  /\ dfu_initiated = FALSE
  /\ dfu_complete = FALSE
  /\ dfu_initialized_ = TRUE
  /\ attached = TRUE
  /\ request = NoRequest
  /\ pc = "loop"
  /\ cursor = 0
  /\ flash \in Flash
-----------------------------------------------------------------------------
(* USB interrupt. *)

(* The host downloads a command; the class driver holds it in the state
   dfuDNBUSY until a handler takes it. *)
HostDownloads(r) ==
  /\ attached
  /\ request = NoRequest
  /\ request' = r
  /\ UNCHANGED <<io_state, io_buffer, flagVars, linkVars, ioVars>>

(* Definitions named after another one with a suffix (PlaceableUnlocked,
   MemoryWriteNoCopy, BeginIoIfAttached) are mutants of it:
   plausible bugs, used only to show that a property would notice them. *)

(* What MemoryErase and MemoryWrite test before they take a request.  When
   the test fails they return ERR and change nothing; the class driver stays
   busy and calls the same handler again at the host's next GETSTATUS. *)
PlaceableUnlocked(r) == InQspi(r.start_address)
PlaceableWhenIdle(r) == io_state.type = "Idle" /\ InQspi(r.start_address)
Placeable(r) == ~io_state.busy /\ InQspi(r.start_address)

MemoryErase ==
  /\ attached
  /\ request \in EraseRequest
  /\ Placeable(request)
  /\ dfu_initiated' = TRUE
  /\ io_state' = [busy |-> TRUE, type |-> "Erase",
                  start_address |-> request.start_address]
  /\ request' = NoRequest
  /\ UNCHANGED <<io_buffer, dfu_complete, linkVars, ioVars>>

MemoryWriteNoCopy ==
  /\ attached
  /\ request \in WriteRequest
  /\ Placeable(request)
  /\ io_state' = [busy |-> TRUE, type |-> "Write",
                  start_address |-> request.start_address]
  /\ request' = NoRequest
  /\ UNCHANGED <<io_buffer, flagVars, linkVars, ioVars>>

MemoryWrite ==
  /\ attached
  /\ request \in WriteRequest
  /\ Placeable(request)
  /\ io_buffer' = request.data
  /\ io_state' = [busy |-> TRUE, type |-> "Write",
                  start_address |-> request.start_address]
  /\ request' = NoRequest
  /\ UNCHANGED <<flagVars, linkVars, ioVars>>

(* The host aborts the transfer, resets the bus or is unplugged: the class
   driver forgets the command, the handle learns nothing. *)
HostAborts ==
  /\ request # NoRequest
  /\ request' = NoRequest
  /\ UNCHANGED <<io_state, io_buffer, flagVars, linkVars, ioVars>>

(* The leave request: the class driver calls enable_jump. *)
EnableJump ==
  /\ attached
  /\ request = NoRequest
  /\ dfu_complete' = TRUE
  /\ UNCHANGED <<io_state, io_buffer, dfu_initiated, linkVars, request, ioVars>>
-----------------------------------------------------------------------------
(* Main loop. *)

(* ProcessIoRequests finds a request: it reads the type and the address. *)
BeginIoIfAttached ==
  /\ pc = "loop"
  /\ io_state.busy
  /\ attached
  /\ pc' = IF io_state.type = "Erase" THEN "erase" ELSE "write"
  /\ cursor' = io_state.start_address
  /\ UNCHANGED <<io_state, io_buffer, flagVars, linkVars, request, flash>>

BeginIo ==
  /\ pc = "loop"
  /\ io_state.busy
  /\ pc' = CASE io_state.type = "Erase" -> "erase"
             [] io_state.type = "Write" -> "write"
             [] OTHER -> "finish"
  /\ cursor' = io_state.start_address
  /\ UNCHANGED <<io_state, io_buffer, flagVars, linkVars, request, flash>>

EraseUnit ==
  /\ pc = "erase"
  /\ cursor \in EraseRange(io_state.start_address)
  /\ flash' = [flash EXCEPT ![cursor] = Erased]
  /\ cursor' = cursor + 1
  /\ UNCHANGED <<pc, io_state, io_buffer, flagVars, linkVars, request>>

EraseReturns ==
  /\ pc = "erase"
  /\ cursor \notin EraseRange(io_state.start_address)
  /\ pc' = "finish"
  /\ UNCHANGED <<cursor, flash, io_state, io_buffer, flagVars, linkVars, request>>

(* qspi_->Write from io_buffer, which the handlers can reach all the while. *)
WriteUnit ==
  /\ pc = "write"
  /\ flash' = Program(flash, io_state.start_address, io_buffer)
  /\ pc' = "finish"
  /\ UNCHANGED <<cursor, io_state, io_buffer, flagVars, linkVars, request>>

(* Only now can the handlers place the next request. *)
ClearBusy ==
  /\ pc = "finish"
  /\ io_state' = [io_state EXCEPT !.busy = FALSE]
  /\ pc' = "loop"
  /\ UNCHANGED <<cursor, flash, io_buffer, flagVars, linkVars, request>>

(* InitDFU and Impl::Init.  The USB handle is zeroed first, so the class
   driver forgets its command; the flags are reset only if USBInit succeeds,
   and io_state is not touched. *)
InitDFU ==
  /\ pc = "loop"
  /\ ~dfu_initialized_
  /\ dfu_initialized_' = TRUE
  /\ request' = NoRequest
  /\ \E ok \in BOOLEAN :
       /\ attached' = ok
       /\ dfu_complete' = (dfu_complete /\ ~ok)
       /\ dfu_initiated' = (dfu_initiated /\ ~ok)
  /\ UNCHANGED <<io_state, io_buffer, ioVars>>

DeinitDFU ==
  /\ pc = "loop"
  /\ dfu_initialized_
  /\ dfu_initialized_' = FALSE
  /\ attached' = FALSE
  /\ request' = NoRequest
  /\ UNCHANGED <<io_state, io_buffer, flagVars, ioVars>>
-----------------------------------------------------------------------------
Serve == MemoryErase \/ MemoryWrite
Usb == \/ \E r \in Request : HostDownloads(r)
       \/ Serve
       \/ HostAborts
       \/ EnableJump
ProcessIoRequests == BeginIo \/ EraseUnit \/ EraseReturns \/ WriteUnit \/ ClearBusy
Next == Usb \/ ProcessIoRequests \/ InitDFU \/ DeinitDFU

Spec == Init /\ [][Next]_vars

(* The main loop never blocks, so ProcessIoRequests is called again and
   again and the flash operation it runs ends: weak fairness.  A host that
   stays connected keeps polling GETSTATUS: weak fairness of Serve. *)
FairSpec == Spec /\ WF_vars(ProcessIoRequests) /\ WF_vars(Serve)
-----------------------------------------------------------------------------
(* Every variable has its type, and in particular only an address inside the
   QSPI region ever reaches io_state: the region test of the two handlers
   (dfu.cpp:169, 206) keeps every other one out. *)
TypeOK ==
  /\ io_state \in IoStatus
  /\ InQspi(io_state.start_address)
  /\ io_buffer \in Payload
  /\ dfu_initiated \in BOOLEAN
  /\ dfu_complete \in BOOLEAN
  /\ dfu_initialized_ \in BOOLEAN
  /\ attached \in BOOLEAN
  /\ request \in Request \cup {NoRequest}
  /\ pc \in Step
  /\ cursor \in Address
  /\ flash \in Flash

(* Inside ProcessIoRequests the busy flag is up and the step is that of the
   request: the flag is the lock of io_state. *)
BusyDuringIo ==
  pc # "loop" => /\ io_state.busy
                 /\ pc = "erase" => io_state.type = "Erase"
                 /\ pc = "write" => io_state.type = "Write"

(* A pending write has its payload in io_buffer. *)
PayloadReady == io_state.type = "Write" => io_buffer \in Data

(* The busy flag is up only with a request in io_state. *)
BusyHasRequest == io_state.busy => io_state.type # "Idle"

(* The running erase has wiped every unit it has passed. *)
ErasedSoFar ==
  pc = "erase" => /\ io_state.start_address <= cursor
                  /\ cursor <= io_state.start_address + SectorUnits
                  /\ \A u \in EraseRange(io_state.start_address) :
                       u < cursor => flash[u] = Erased

(* The inductive invariant. *)
IoInv == TypeOK /\ BusyDuringIo /\ PayloadReady /\ BusyHasRequest /\ ErasedSoFar

(* While ProcessIoRequests works on a request, no handler replaces the
   address, the length or the payload it works on, whatever the host sends
   in the meantime (dfu.cpp:347-399 against 157-233). *)
RequestStable ==
  [][pc # "loop" => /\ io_buffer' = io_buffer
                    /\ io_state'.start_address = io_state.start_address
                    /\ io_state'.type = io_state.type]_vars

(* The pending request, as the mailbox of BlockStore sees it. *)
Pending == IF io_state.type = "Erase"
           THEN [type |-> "Erase", start_address |-> io_state.start_address]
           ELSE [type |-> "Write", start_address |-> io_state.start_address,
                 data |-> io_buffer]

(* The handle implements BlockStore: a request takes effect when
   ProcessIoRequests begins it, although its units change one by one. *)
Store == INSTANCE BlockStore WITH
           mailbox <- IF io_state.busy /\ pc = "loop" THEN Pending ELSE NoRequest,
           store <- IF pc \in {"erase", "write"} THEN Applied(Pending, flash)
                    ELSE flash

(* Every accepted request takes effect exactly once, whole, and before the
   next one is accepted. *)
ImplementsStore == Store!Spec

(* Under the fairness above an accepted request is performed. *)
ImplementsFairStore == Store!FairSpec

(* A command for the QSPI region does not wait for ever: a handler takes it,
   or the host or the main loop gives it up, however often it was refused
   because the handle was busy. *)
RequestServed ==
  \A r \in Request : InQspi(r.start_address) =>
    ((request = r /\ attached) ~> (request # r \/ ~attached))
=============================================================================
