------------------------- MODULE DfuDownload_proofs -------------------------
(***************************************************************************)
(* A download that reaches the jump is whole, for every chip, page layout, *)
(* image and number of interruptions that the assumptions allow.           *)
(***************************************************************************)
EXTENDS DfuDownload, DfuIo_proofs

USE DEF WindowEvents, NoPage, Target

(* The parameters in the form the provers use. *)
LEMMA Sizes ==
  /\ FlashUnits \in Nat /\ SectorUnits \in Nat /\ SectorUnits > 0
  /\ ImageLen \in Nat /\ ImageLen > 0 /\ ImageBase \in Nat
  /\ Interruptions \in Nat
  /\ \A i \in 0 .. ImageLen - 1 : ImageBase + i \in Units /\ Image[i] \in Data
BY FlashAssumption, ImageAssumption, InterruptionsAssumption DEF Units

(* The initial state satisfies the invariant: nothing is sent. *)
LEMMA InitDlInv == DlInit => DlInv
<1> SUFFICES ASSUME DlInit PROVE DlInv
  OBVIOUS
<1>1. IoInv
  BY InitIoInv DEF DlInit
<1>2. DlTypeOK
  <2>1. /\ 0 \in 0 .. ImageLen /\ FlashUnits \in Address
        /\ 0 \in 0 .. WindowEvents /\ 0 \in 0 .. Interruptions
    BY Sizes DEF Address
  <2>2. QED
    BY <2>1 DEF DlInit, Init, DlTypeOK
<1>3. DownloadOnTrack
  BY PageAssumption DEF DlInit, Init, DownloadOnTrack, Units
<1>4. LeaveInOrder
  BY DEF DlInit, Init, LeaveInOrder
<1>5. WritesFindErased
  BY DEF DlInit, Init, WritesFindErased
<1>6. SessionInOrder
  BY Zenon DEF DlInit, Init, SessionInOrder
<1>7. QED
  BY <1>1, <1>2, <1>3, <1>4, <1>5, <1>6 DEF DlInv
-----------------------------------------------------------------------------
(* An interruption leaves nothing to hold about the download. *)
LEMMA FreshStart ==
  ASSUME sent' = 0, lastErased' = NoPage, request' = NoRequest
  PROVE  DownloadOnTrack'
  BY PageAssumption DEF DownloadOnTrack, Units

(* What the host sends next is in the QSPI region, and so is its page. *)
LEMMA TargetInQspi ==
  ASSUME sent \in 0 .. ImageLen, sent < ImageLen
  PROVE  /\ Target \in Units /\ PageStart[Target] \in Units /\ Image[sent] \in Data
         /\ Target \in Address /\ PageStart[Target] \in Address
<1>1. Target \in Units /\ PageStart[Target] \in Units /\ Image[sent] \in Data
  BY Sizes, PageAssumption
<1>2. QED
  BY <1>1, Sizes DEF Units, Address

(* A power loss spoils no more than the unit of a running request. *)
LEMMA TornUnit ==
  ASSUME IoInv, PowerLoss, flash' # flash
  PROVE  /\ io_state.busy
         /\ \E u \in AtWork, c \in Data \cup {Erased} : flash' = [flash EXCEPT ![u] = c]
         /\ \A u \in AtWork :
              /\ u \in Units
              /\ io_state.type = "Erase" => u \in EraseRange(io_state.start_address)
              /\ io_state.type = "Write" => u = io_state.start_address
<1>1. PICK u \in AtWork, c \in Data \cup {Erased} : flash' = [flash EXCEPT ![u] = c]
  BY DEF PowerLoss
<1>2. io_state.busy
  BY <1>1 DEF AtWork, IoInv, BusyDuringIo
<1>3. QED
  BY <1>1, <1>2 DEF AtWork, IoInv, BusyDuringIo

(* The steps of the handle, and a power loss, keep the handle's invariant. *)
LEMMA DlKeepsIoInv == IoInv /\ DlTypeOK /\ [DlNext]_dlVars => IoInv'
<1> SUFFICES ASSUME IoInv, DlTypeOK, [DlNext]_dlVars PROVE IoInv'
  OBVIOUS
<1>0. sent \in 0 .. ImageLen
  BY DEF DlTypeOK
<1>1. CASE PowerLoss
  <2>1. 0 \in Units /\ 0 \in Address
    BY FlashAssumption DEF Units, Address
  <2>2. TypeOK'
    <3>1. flash' \in Flash
      <4>1. CASE flash' = flash
        BY <4>1 DEF IoInv, TypeOK
      <4>2. CASE flash' # flash
        BY <1>1, <4>2, TornUnit DEF IoInv, TypeOK, Flash, Content
      <4>3. QED
        BY <4>1, <4>2
    <3>2. QED
      BY <1>1, <2>1, <3>1 DEF PowerLoss, linkVars, IoInv, TypeOK, IoStatus, IoType,
                              Payload, Step, InQspi
  <2>3. (BusyDuringIo /\ PayloadReady /\ BusyHasRequest /\ ErasedSoFar)'
    BY <1>1 DEF PowerLoss, BusyDuringIo, PayloadReady, BusyHasRequest, ErasedSoFar
  <2>4. QED
    BY <2>2, <2>3 DEF IoInv
<1>2. CASE HostSteps
  <2>1. CASE HostErases
    <3> DEFINE r == [type |-> "Erase", start_address |-> PageStart[Target]]
    <3>1. r \in Request
      BY <1>0, <2>1, TargetInQspi DEF HostErases, Request, EraseRequest
    <3>2. HostDownloads(r)
      BY <2>1 DEF HostErases
    <3>3. Next
      BY <3>1, <3>2 DEF Next, Usb
    <3>4. QED
      BY <3>3, NextIoInv
  <2>2. CASE HostWrites
    <3> DEFINE r == [type |-> "Write", start_address |-> Target, data |-> Image[sent]]
    <3>1. r \in Request
      BY <1>0, <2>2, TargetInQspi
      DEF HostWrites, Request, WriteRequest
    <3>2. HostDownloads(r)
      BY <2>2 DEF HostWrites
    <3>3. Next
      BY <3>1, <3>2 DEF Next, Usb
    <3>4. QED
      BY <3>3, NextIoInv
  <2>3. CASE HostLeaves
    BY <2>3, NextIoInv DEF HostLeaves, Next, Usb
  <2>4. QED
    BY <1>2, <2>1, <2>2, <2>3 DEF HostSteps
<1>3. CASE HostPolls
  BY <1>3, NextIoInv DEF HostPolls, Next, Usb
<1>4. CASE HostCutOff
  <2>1. CASE request = NoRequest
    BY <1>4, <2>1, NextIoInv DEF HostCutOff, vars
  <2>2. CASE request # NoRequest
    BY <1>4, <2>2, NextIoInv DEF HostCutOff, HostAborts, Next, Usb
  <2>3. QED
    BY <2>1, <2>2
<1>5. CASE PollIo
  BY <1>5, NextIoInv DEF PollIo, Next
<1>6. CASE PollNothing \/ CheckDfu \/ UNCHANGED dlVars
  BY <1>6, NextIoInv DEF PollNothing, CheckDfu, dlVars
<1>7. QED
  BY <1>1, <1>2, <1>3, <1>4, <1>5, <1>6 DEF DlNext, Host, Loop
-----------------------------------------------------------------------------
(* The flash to come is a flash. *)
LEMMA AcceptedTyped == IoInv => Accepted \in Flash
<1> SUFFICES ASSUME IoInv PROVE Accepted \in Flash
  OBVIOUS
<1>1. /\ flash \in Flash /\ io_state.start_address \in Units
      /\ io_state \in IoStatus
  BY DEF IoInv, TypeOK, InQspi
<1>2. ASSUME NEW f \in Flash, io_state.busy PROVE Applied(Pending, f) \in Flash
  <2>1. io_state.type = "Write" \/ io_state.type = "Erase"
    BY <1>1, <1>2 DEF IoInv, BusyHasRequest, IoStatus, IoType
  <2>2. CASE io_state.type = "Write"
    <3>1. io_buffer \in Data
      BY <2>2 DEF IoInv, PayloadReady
    <3>2. Program(f, io_state.start_address, io_buffer) \in Flash
      BY <1>1, <1>2, <3>1, FlashOpsTyped
    <3>3. QED
      BY <2>2, <3>2 DEF Pending, Applied
  <2>3. CASE io_state.type = "Erase"
    BY <1>1, <1>2, <2>3 DEF Pending, Applied, Erase, Flash, Content
  <2>4. QED
    BY <2>1, <2>2, <2>3
<1>3. Running \in Flash
  <2>1. pc \in {"erase", "write"} => io_state.busy
    BY DEF IoInv, BusyDuringIo
  <2>2. QED
    BY <1>1, <1>2, <2>1 DEF Running
<1>4. QED
  BY <1>2, <1>3 DEF Accepted

(* ProcessIoRequests brings the flash nearer to what was asked for without
   changing where it will end: from beginning a request to clearing the busy
   flag, the outcome is the same. *)
LEMMA IoKeepsAccepted ==
  IoInv /\ ProcessIoRequests => Accepted' = Accepted /\ request' = request
<1> SUFFICES ASSUME IoInv, ProcessIoRequests
             PROVE  Accepted' = Accepted /\ request' = request
  OBVIOUS
<1>0. /\ flash \in Flash /\ io_state.start_address \in Units
      /\ io_state \in IoStatus /\ pc \in Step
  BY DEF IoInv, TypeOK, InQspi
<1>1. request' = request
  BY DEF ProcessIoRequests, BeginIo, EraseUnit, EraseReturns, WriteUnit, ClearBusy
<1>2. CASE BeginIo
  <2>1. pc' \in {"erase", "write"} /\ Pending' = Pending /\ flash' = flash
    BY <1>0, <1>2 DEF BeginIo, Pending, IoInv, BusyHasRequest, IoStatus, IoType
  <2>2. QED
    BY <1>1, <1>2, <2>1 DEF BeginIo, Accepted, Running, Applied
<1>3. CASE EraseUnit
  <2>1. Pending' = Pending /\ io_state.type = "Erase"
    BY <1>3 DEF EraseUnit, Pending, IoInv, BusyDuringIo
  <2>2. Erase(flash', io_state.start_address) = Erase(flash, io_state.start_address)
    BY <1>0, <1>3, EraseAbsorbsUnit DEF EraseUnit
  <2>3. QED
    BY <1>1, <1>3, <2>1, <2>2 DEF EraseUnit, Accepted, Running, Applied, Pending
<1>4. CASE EraseReturns
  <2>1. io_state.type = "Erase"
    BY <1>4 DEF EraseReturns, IoInv, BusyDuringIo
  <2>2. \A u \in EraseRange(io_state.start_address) : flash[u] = Erased
    BY <1>4, ErasedAtEnd
  <2>3. Erase(flash, io_state.start_address) = flash
    BY <1>0, <2>2, EraseComplete
  <2>4. QED
    BY <1>1, <1>4, <2>1, <2>3
    DEF EraseReturns, Accepted, Running, Applied, Pending
<1>5. CASE WriteUnit
  BY <1>1, <1>5 DEF WriteUnit, Accepted, Running, Applied, Pending, IoInv, BusyDuringIo
<1>6. CASE ClearBusy
  BY <1>0, <1>1, <1>6 DEF ClearBusy, Accepted, Running, IoStatus
<1>7. QED
  BY <1>2, <1>3, <1>4, <1>5, <1>6 DEF ProcessIoRequests

(* Placing a command moves it from the class driver to io_state. *)
LEMMA ServeKeepsFinal == IoInv /\ Serve => Final' = Final
<1> SUFFICES ASSUME IoInv, Serve PROVE Final' = Final
  OBVIOUS
<1>1. pc = "loop" /\ ~io_state.busy /\ request # NoRequest
  BY NoRequestAssumption
  DEF Serve, MemoryErase, MemoryWrite, Placeable, IoInv, BusyDuringIo, Request
<1>2. pc' = "loop" /\ io_state'.busy /\ request' = NoRequest /\ flash' = flash
  BY <1>1 DEF Serve, MemoryErase, MemoryWrite, ioVars
<1>3. Pending' = request
  <2>1. CASE MemoryErase
    BY <2>1 DEF MemoryErase, Pending, EraseRequest
  <2>2. CASE MemoryWrite
    BY <2>2 DEF MemoryWrite, Pending, WriteRequest
  <2>3. QED
    BY <2>1, <2>2 DEF Serve
<1>4. QED
  BY <1>1, <1>2, <1>3 DEF Final, Accepted, Running, Applied
-----------------------------------------------------------------------------
(* Steps that neither send a command nor change the flash to come keep the
   download on track. *)
LEMMA SameFinal ==
  ASSUME DownloadOnTrack, Final' = Final, UNCHANGED <<sent, lastErased>>,
         request' = request \/ request' = NoRequest
  PROVE  DownloadOnTrack'
  BY DEF DownloadOnTrack

(* Erasing the next page spares everything sent so far. *)
LEMMA ErasesOnTrack ==
  ASSUME DlInv, HostErases PROVE DownloadOnTrack'
<1> DEFINE p == PageStart[Target]
           r == [type |-> "Erase", start_address |-> p]
<1>0. sent \in 0 .. ImageLen /\ sent < ImageLen /\ lastErased # p
  BY DEF DlInv, DlTypeOK, HostErases
<1>1. Target \in Units /\ p \in Units /\ p <= Target
  BY <1>0, TargetInQspi, PageAssumption
<1>2. /\ request = NoRequest /\ request' = r
      /\ Accepted' = Accepted /\ sent' = sent /\ lastErased' = p
  BY DEF HostErases, HostDownloads, Accepted, Running, Applied, Pending, ioVars
<1>3. r # NoRequest
  BY <1>0, TargetInQspi, NoRequestAssumption DEF Request, EraseRequest
<1>4. Final = Accepted /\ Final' = Erase(Accepted, p)
  BY <1>2, <1>3 DEF Final, Applied
<1>5. \A i \in 0 .. sent - 1 : ImageBase + i \in Units /\ ImageBase + i < p
  <2> SUFFICES ASSUME NEW i \in 0 .. sent - 1
               PROVE  ImageBase + i \in Units /\ ImageBase + i < p
    OBVIOUS
  <2>1. Target - 1 \in Units /\ ImageBase + i \in Units /\ sent > 0
    BY <1>0, <1>1, Sizes DEF Units
  <2>2. lastErased = PageStart[Target - 1]
    BY <1>0, <2>1 DEF DlInv, DownloadOnTrack
  <2>3. ~(p <= Target - 1)
    BY <1>0, <1>1, <2>1, <2>2, PageAssumption DEF Units
  <2>4. QED
    BY <1>0, <1>1, <2>1, <2>3, Sizes DEF Units
<1>6. \A i \in 0 .. sent - 1 : Final'[ImageBase + i] = Image[i]
  BY <1>0, <1>1, <1>4, <1>5 DEF Erase, EraseRange, Units, DlInv, DownloadOnTrack
<1>7. \A u \in Units : Target <= u /\ PageStart[u] = p => Final'[u] = Erased
  BY <1>1, <1>4, PageAssumption DEF Erase, EraseRange
<1>8. QED
  BY <1>1, <1>2, <1>3, <1>6, <1>7 DEF DownloadOnTrack, InQspi, Units

(* The unit the host is about to write is erased once all it sent before is
   done: it lies in the page whose erase came last. *)
LEMMA NextUnitErased ==
  ASSUME DlInv, HostWrites PROVE Accepted[Target] = Erased
<1>1. sent \in 0 .. ImageLen /\ sent < ImageLen /\ lastErased = PageStart[Target]
  BY DEF DlInv, DlTypeOK, HostWrites
<1>2. Target \in Units
  BY <1>1, TargetInQspi
<1>3. Final = Accepted
  BY DEF HostWrites, HostDownloads, Final
<1>4. QED
  BY <1>1, <1>2, <1>3 DEF DlInv, DownloadOnTrack, Units

(* Writing the next unit finds it erased and spares the others. *)
LEMMA WritesOnTrack ==
  ASSUME DlInv, HostWrites PROVE DownloadOnTrack'
<1> DEFINE r == [type |-> "Write", start_address |-> Target, data |-> Image[sent]]
<1>0. sent \in 0 .. ImageLen /\ sent < ImageLen /\ lastErased = PageStart[Target]
  BY DEF DlInv, DlTypeOK, HostWrites
<1>1. /\ Target \in Units /\ Image[sent] \in Data /\ PageStart[Target] <= Target
      /\ PageStart[Target] \in Units
  BY <1>0, TargetInQspi, PageAssumption
<1>2. /\ request = NoRequest /\ request' = r
      /\ Accepted' = Accepted /\ sent' = sent + 1 /\ lastErased' = lastErased
  BY DEF HostWrites, HostDownloads, Accepted, Running, Applied, Pending, ioVars
<1>3. r # NoRequest
  BY <1>0, TargetInQspi, NoRequestAssumption DEF Request, WriteRequest
<1>4. Final = Accepted /\ Final' = Program(Accepted, Target, Image[sent])
  BY <1>2, <1>3 DEF Final, Applied
<1>5. Accepted \in Flash /\ Accepted[Target] = Erased
  BY AcceptedTyped, NextUnitErased DEF DlInv
<1>6. /\ Final'[Target] = Image[sent]
      /\ \A u \in Units : u # Target => Final'[u] = Accepted[u]
  BY <1>1, <1>4, <1>5 DEF Program, Programmed, Flash
<1>7. \A i \in 0 .. sent : Final'[ImageBase + i] = Image[i]
  <2> SUFFICES ASSUME NEW i \in 0 .. sent
               PROVE  Final'[ImageBase + i] = Image[i]
    OBVIOUS
  <2>1. CASE i = sent
    BY <1>6, <2>1
  <2>2. CASE i # sent
    <3>1. i \in 0 .. sent - 1 /\ ImageBase + i \in Units /\ ImageBase + i # Target
      BY <1>0, <2>2, Sizes
    <3>2. QED
      BY <1>4, <1>6, <3>1 DEF DlInv, DownloadOnTrack
  <2>3. QED
    BY <2>1, <2>2
<1>8. \A u \in Units : Target + 1 <= u /\ PageStart[u] = lastErased
                      => Final'[u] = Erased
  BY <1>1, <1>4, <1>6 DEF DlInv, DownloadOnTrack, Units
<1>9. QED
  BY <1>0, <1>1, <1>2, <1>3, <1>7, <1>8, Sizes DEF DownloadOnTrack, InQspi, Units
-----------------------------------------------------------------------------
(* Every step keeps the download on track. *)
LEMMA StaysOnTrack ==
  ASSUME DlInv, [DlNext]_dlVars PROVE DownloadOnTrack'
<1>1. CASE PowerLoss
  BY <1>1, FreshStart DEF PowerLoss
<1>2. CASE HostErases
  BY <1>2, ErasesOnTrack
<1>3. CASE HostWrites
  BY <1>3, WritesOnTrack
<1>4. CASE HostLeaves
  BY <1>4, SameFinal
  DEF HostLeaves, EnableJump, Final, Accepted, Running, Applied, Pending, ioVars, DlInv
<1>5. CASE HostPolls
  <2>1. Final' = Final /\ request' = NoRequest
    BY <1>5, ServeKeepsFinal DEF HostPolls, DlInv, Serve, MemoryErase, MemoryWrite
  <2>2. QED
    BY <1>5, <2>1, SameFinal DEF HostPolls, hostVars, DlInv
<1>6. CASE HostCutOff
  BY <1>6, FreshStart DEF HostCutOff
<1>7. CASE PollIo
  <2>1. Accepted' = Accepted /\ request' = request
    BY <1>7, IoKeepsAccepted DEF PollIo, DlInv
  <2>2. Final' = Final
    BY <2>1 DEF Final, Applied
  <2>3. QED
    BY <1>7, <2>1, <2>2, SameFinal DEF PollIo, hostVars, DlInv
<1>8. CASE PollNothing \/ CheckDfu \/ UNCHANGED dlVars
  <2>1. UNCHANGED <<vars, hostVars>>
    BY <1>8 DEF PollNothing, CheckDfu, dlVars
  <2>2. QED
    BY <2>1, SameFinal
    DEF vars, hostVars, ioVars, Final, Accepted, Running, Applied, Pending, DlInv
<1>9. QED
  BY <1>1, <1>2, <1>3, <1>4, <1>5, <1>6, <1>7, <1>8
  DEF DlNext, Host, HostSteps, Loop

(* The window between the poll and the test of dfu_complete is too short for
   the last write and the leave request, so nothing is pending when the
   download is found complete. *)
LEMMA LeavesInOrder ==
  ASSUME DlInv, [DlNext]_dlVars PROVE LeaveInOrder'
<1> USE DEF LeaveInOrder, DlInv, ioVars, flagVars, linkVars, hostVars
<1>0. pc \in Step /\ events \in 0 .. 1 /\ sent \in 0 .. ImageLen
  BY DEF IoInv, TypeOK, DlTypeOK
<1>1. CASE PowerLoss
  BY <1>1 DEF PowerLoss
<1>2. ASSUME UsbEvent, HostErases \/ HostWrites
      PROVE  LeaveInOrder'
  BY <1>0, <1>2, Sizes DEF UsbEvent, HostErases, HostWrites, HostDownloads
<1>3. ASSUME UsbEvent, HostLeaves
      PROVE  LeaveInOrder'
  BY <1>0, <1>3 DEF UsbEvent, HostLeaves, EnableJump
<1>4. CASE HostPolls
  <2>1. ~left /\ dfu_complete' = dfu_complete /\ pc' = pc /\ request' = NoRequest
    BY <1>4, NoRequestAssumption
    DEF HostPolls, Serve, MemoryErase, MemoryWrite, Request
  <2>2. window => events' = 1
    BY <1>0, <1>4 DEF HostPolls, UsbEvent
  <2>3. QED
    BY <1>4, <2>1, <2>2 DEF HostPolls, UsbEvent
<1>5. ASSUME UsbEvent, HostCutOff
      PROVE  LeaveInOrder'
  BY <1>0, <1>5 DEF UsbEvent, HostCutOff
<1>6. CASE PollNothing
  BY <1>6 DEF PollNothing, vars
<1>7. CASE PollIo
  <2>1. ~booted /\ ~booted' /\ ~window
    BY <1>7 DEF PollIo
  <2>2. pc = "finish" => pc' = "loop" /\ ~io_state'.busy
    BY <1>7 DEF PollIo, ProcessIoRequests, BeginIo, EraseUnit, EraseReturns,
                WriteUnit, ClearBusy, IoInv, TypeOK, IoStatus
  <2>3. dfu_complete' = dfu_complete /\ request' = request
    BY <1>7 DEF PollIo, ProcessIoRequests, BeginIo, EraseUnit, EraseReturns,
                WriteUnit, ClearBusy
  <2>4. QED
    BY <1>7, <2>1, <2>2, <2>3 DEF PollIo
<1>8. CASE CheckDfu
  BY <1>8 DEF CheckDfu, vars
<1>9. CASE UNCHANGED dlVars
  BY <1>9 DEF dlVars, vars, loopVars
<1>10. QED
  BY <1>1, <1>2, <1>3, <1>4, <1>5, <1>6, <1>7, <1>8, <1>9
  DEF DlNext, Host, HostSteps, Loop

(* The variables of the host and of the loop keep their types. *)
LEMMA TypesStay ==
  ASSUME DlInv, [DlNext]_dlVars PROVE DlTypeOK'
<1>0. DlTypeOK /\ 0 \in 0 .. ImageLen /\ NoPage \in Address
  BY Sizes DEF DlInv, Address
<1>1. CASE PowerLoss
  <2>1. interrupted' \in 0 .. Interruptions
    BY <1>0, <1>1, Sizes DEF PowerLoss, DlTypeOK
  <2>2. events' \in 0 .. WindowEvents
    BY <1>1 DEF PowerLoss
  <2>3. QED
    BY <1>0, <1>1, <2>1, <2>2 DEF PowerLoss, DlTypeOK
<1>2. CASE Host
  <2>1. UsbEvent
    BY <1>2 DEF Host, HostSteps, HostPolls
  <2>2. events' \in 0 .. WindowEvents
    BY <1>0, <2>1 DEF UsbEvent, DlTypeOK
  <2>3. interrupted' \in 0 .. Interruptions
    BY <1>0, <1>2, Sizes DEF Host, HostSteps, HostPolls, HostErases, HostWrites,
                             HostLeaves, HostCutOff, DlTypeOK
  <2>4. /\ sent' \in 0 .. ImageLen
        /\ lastErased' \in Address
        /\ left' \in BOOLEAN
    <3>1. CASE HostErases \/ HostWrites
      <4>1. sent \in 0 .. ImageLen /\ sent < ImageLen
        BY <1>0, <3>1 DEF DlTypeOK, HostErases, HostWrites
      <4>2. sent + 1 \in 0 .. ImageLen
        BY <4>1, Sizes
      <4>3. PageStart[Target] \in Address
        BY <4>1, TargetInQspi
      <4>4. QED
        BY <1>0, <3>1, <4>2, <4>3 DEF DlTypeOK, HostErases, HostWrites
    <3>2. CASE HostLeaves \/ HostCutOff \/ HostPolls
      BY <1>0, <3>2 DEF DlTypeOK, HostLeaves, HostCutOff, HostPolls, hostVars
    <3>3. QED
      BY <1>2, <3>1, <3>2 DEF Host, HostSteps
  <2>5. QED
    BY <1>0, <2>1, <2>2, <2>3, <2>4 DEF UsbEvent, DlTypeOK
<1>3. CASE Loop
  <2>1. UNCHANGED <<hostVars, interrupted, before>> /\ events' \in 0 .. WindowEvents
    BY <1>0, <1>3 DEF Loop, PollNothing, PollIo, CheckDfu, DlTypeOK
  <2>2. window' \in BOOLEAN
    BY <1>3, Zenon DEF Loop, PollNothing, PollIo, CheckDfu
  <2>3. booted' \in BOOLEAN
    BY <1>0, <1>3, Zenon
    DEF Loop, PollNothing, PollIo, CheckDfu, DlInv, IoInv, TypeOK, DlTypeOK
  <2>4. QED
    BY <1>0, <2>1, <2>2, <2>3 DEF hostVars, DlTypeOK
<1>4. CASE UNCHANGED dlVars
  BY <1>0, <1>4 DEF dlVars, hostVars, loopVars, DlTypeOK
<1>5. QED
  BY <1>1, <1>2, <1>3, <1>4 DEF DlNext

(* What is asked for stays inside the image, and a write finds its unit erased
   from the moment it is sent until it is done. *)
LEMMA WritesStayErased ==
  ASSUME DlInv, [DlNext]_dlVars PROVE WritesFindErased'
<1>0. WritesFindErased /\ IoInv
  BY DEF DlInv
<1>1. CASE PowerLoss
  BY <1>1 DEF PowerLoss, WritesFindErased
<1>2. ASSUME request' = NoRequest, UNCHANGED <<io_state, io_buffer, ioVars>>
      PROVE  WritesFindErased'
  BY <1>0, <1>2 DEF WritesFindErased, Pending, OfImage, ioVars
<1>3. CASE HostErases \/ HostWrites
  <2>1. sent \in 0 .. ImageLen /\ sent < ImageLen
    BY <1>3 DEF DlInv, DlTypeOK, HostErases, HostWrites
  <2>2. Target \in ImageUnits
    BY <2>1, Sizes DEF ImageUnits
  <2>3. OfImage(request')
    BY <1>3, <2>2 DEF HostErases, HostWrites, HostDownloads, OfImage
  <2>4. request'.type = "Write" => Accepted[request'.start_address] = Erased
    BY <1>3, NextUnitErased DEF HostErases, HostWrites, HostDownloads
  <2>5. UNCHANGED <<io_state, io_buffer, ioVars>>
    BY <1>3 DEF HostErases, HostWrites, HostDownloads
  <2>6. Accepted' = Accepted /\ Pending' = Pending
    BY <2>5 DEF Accepted, Running, Applied, Pending, ioVars
  <2>7. QED
    BY <1>0, <2>3, <2>4, <2>5, <2>6 DEF WritesFindErased, OfImage, ioVars
<1>4. CASE HostLeaves
  BY <1>2, <1>4 DEF HostLeaves, EnableJump
<1>5. CASE HostPolls
  <2>1. pc = "loop" /\ ~io_state.busy /\ request # NoRequest /\ request' = NoRequest
    BY <1>0, <1>5, NoRequestAssumption
    DEF HostPolls, Serve, MemoryErase, MemoryWrite, Placeable, IoInv, BusyDuringIo, Request
  <2>2. Accepted = flash /\ flash' = flash
    BY <1>5, <2>1 DEF Accepted, Running, HostPolls, Serve, MemoryErase, MemoryWrite, ioVars
  <2>3. Pending' = request
    BY <1>5 DEF HostPolls, Serve, MemoryErase, MemoryWrite, Pending, EraseRequest, WriteRequest
  <2>4. /\ OfImage(Pending')
        /\ io_state'.type = "Write" => flash'[io_state'.start_address] = Erased
    <3>1. OfImage(request)
      BY <1>0, <2>1 DEF WritesFindErased
    <3>2. CASE MemoryErase
      BY <2>3, <3>1, <3>2 DEF MemoryErase
    <3>3. CASE MemoryWrite
      <4>1. request.type = "Write" /\ io_state'.start_address = request.start_address
        BY <3>3 DEF MemoryWrite, WriteRequest
      <4>2. flash[request.start_address] = Erased
        BY <1>0, <2>1, <2>2, <4>1 DEF WritesFindErased
      <4>3. QED
        BY <2>2, <2>3, <3>1, <4>1, <4>2
    <3>4. QED
      BY <1>5, <3>2, <3>3 DEF HostPolls, Serve
  <2>5. QED
    BY <2>1, <2>4 DEF WritesFindErased, OfImage
<1>6. CASE HostCutOff
  BY <1>2, <1>6 DEF HostCutOff
<1>7. CASE PollIo
  <2>1. Accepted' = Accepted /\ request' = request
    BY <1>0, <1>7, IoKeepsAccepted DEF PollIo
  <2>2. io_state'.busy => /\ OfImage(Pending')
                          /\ io_state'.type = "Write" /\ pc' # "finish"
                               => flash'[io_state'.start_address] = Erased
    <3>1. CASE BeginIo \/ EraseReturns
      BY <1>0, <3>1 DEF BeginIo, EraseReturns, Pending, WritesFindErased, OfImage,
                        IoInv, BusyDuringIo
    <3>2. CASE EraseUnit
      BY <1>0, <3>2 DEF EraseUnit, Pending, WritesFindErased, OfImage, IoInv, BusyDuringIo
    <3>3. CASE WriteUnit
      BY <1>0, <3>3 DEF WriteUnit, Pending, WritesFindErased, OfImage, IoInv, BusyDuringIo
    <3>4. CASE ClearBusy
      BY <1>0, <3>4 DEF ClearBusy, IoInv, TypeOK, IoStatus
    <3>5. QED
      BY <1>7, <3>1, <3>2, <3>3, <3>4 DEF PollIo, ProcessIoRequests
  <2>3. QED
    BY <1>0, <2>1, <2>2 DEF WritesFindErased, OfImage
<1>8. CASE PollNothing \/ CheckDfu \/ UNCHANGED dlVars
  <2>1. UNCHANGED vars
    BY <1>8 DEF PollNothing, CheckDfu, dlVars
  <2>2. QED
    BY <1>0, <2>1 DEF vars, ioVars, WritesFindErased, OfImage, Pending, Accepted, Running, Applied
<1>9. QED
  BY <1>1, <1>3, <1>4, <1>5, <1>6, <1>7, <1>8
  DEF DlNext, Host, HostSteps, Loop

(* The write of the last unit, when it is placed, finds the rest of the image
   in the flash to come: it is the last of what the host has sent. *)
LEMMA LastPlaced ==
  ASSUME DlInv, Serve, request.type = "Write", request.start_address = LastUnit
  PROVE  Whole(Accepted')
<1>1. request # NoRequest
  BY NoRequestAssumption DEF Serve, MemoryErase, MemoryWrite, Request
<1>2. sent \in 0 .. ImageLen /\ LastUnit = Target - 1
  BY <1>1 DEF DlInv, DlTypeOK, SessionInOrder
<1>3. sent = ImageLen
  BY <1>2, Sizes DEF LastUnit
<1>4. Final' = Final /\ request' = NoRequest
  BY ServeKeepsFinal DEF DlInv, Serve, MemoryErase, MemoryWrite
<1>5. Accepted' = Final
  BY <1>4 DEF Final
<1>6. QED
  BY <1>3, <1>5, ImageAssumption DEF Whole, DlInv, DownloadOnTrack

(* The host goes through the image in order. *)
LEMMA OrderStays ==
  ASSUME DlInv, [DlNext]_dlVars PROVE SessionInOrder'
<1>0. SessionInOrder /\ IoInv /\ sent \in 0 .. ImageLen
  BY DEF DlInv, DlTypeOK
<1>1. CASE PowerLoss
  BY <1>0, <1>1 DEF PowerLoss, linkVars, SessionInOrder
<1>2. ASSUME UNCHANGED <<sent, lastErased, io_state, io_buffer, linkVars, ioVars>>,
             request' \in {request, NoRequest}
      PROVE  SessionInOrder'
  BY <1>0, <1>2 DEF SessionInOrder, Accepted, Running, Applied, Pending, ioVars, linkVars
<1>3. CASE HostErases \/ HostWrites
  <2>1. sent < ImageLen /\ Target \in Units /\ PageStart[Target] \in Units
    BY <1>0, <1>3, TargetInQspi DEF HostErases, HostWrites
  <2>2. UNCHANGED <<attached, io_state, Accepted>>
    BY <1>3 DEF HostErases, HostWrites, HostDownloads, Accepted, Running, Applied,
                Pending, ioVars, linkVars
  <2>3. lastErased' = PageStart[Target] /\ lastErased' # NoPage
    BY <1>3, <2>1 DEF HostErases, HostWrites, Units
  <2>4. CASE HostErases
    <3>1. sent' = sent /\ request'.type = "Erase"
      BY <2>4 DEF HostErases, HostDownloads
    <3>2. sent = 0 => Target = ImageBase
      BY Sizes
    <3>3. QED
      BY <1>0, <2>1, <2>2, <2>3, <3>1, <3>2 DEF SessionInOrder
  <2>5. CASE HostWrites
    <3>1. sent' = sent + 1 /\ request'.type = "Write" /\ request'.start_address = Target
      BY <2>5 DEF HostWrites, HostDownloads
    <3>2. sent' # 0 /\ sent' > 0 /\ Target' - 1 = Target
      BY <1>0, <3>1, Sizes
    <3>3. QED
      BY <1>0, <2>2, <2>3, <3>1, <3>2 DEF SessionInOrder
  <2>6. QED
    BY <1>3, <2>4, <2>5
<1>4. CASE HostLeaves
  BY <1>2, <1>4 DEF HostLeaves, EnableJump
<1>5. CASE HostPolls
  <2>1. request' = NoRequest /\ UNCHANGED <<attached, sent, lastErased>>
    BY <1>5 DEF HostPolls, Serve, MemoryErase, MemoryWrite, linkVars, hostVars
  <2>2. io_state'.type = request.type /\ io_state'.start_address = request.start_address
    BY <1>5 DEF HostPolls, Serve, MemoryErase, MemoryWrite, EraseRequest, WriteRequest
  <2>3. io_state'.type = "Write" /\ io_state'.start_address = LastUnit => Whole(Accepted')
    BY <1>5, <2>2, LastPlaced DEF HostPolls
  <2>4. QED
    BY <1>0, <2>1, <2>3 DEF SessionInOrder, Whole
<1>6. CASE HostCutOff
  BY <1>0, <1>6 DEF HostCutOff, SessionInOrder, Accepted, Running, Applied, Pending,
                    ioVars, linkVars
<1>7. CASE PollIo
  <2>1. Accepted' = Accepted /\ request' = request
    BY <1>0, <1>7, IoKeepsAccepted DEF PollIo
  <2>2. /\ UNCHANGED <<attached, sent, lastErased>>
        /\ io_state'.busy => io_state' = io_state
    BY <1>0, <1>7 DEF PollIo, ProcessIoRequests, BeginIo, EraseUnit, EraseReturns,
                      WriteUnit, ClearBusy, linkVars, hostVars, IoInv, TypeOK, IoStatus
  <2>3. ~io_state'.busy \/ io_state.busy
    BY <2>2, Zenon
  <2>4. QED
    BY <1>0, <2>1, <2>2, <2>3 DEF SessionInOrder, Whole
<1>8. CASE PollNothing \/ CheckDfu \/ UNCHANGED dlVars
  BY <1>2, <1>8 DEF PollNothing, CheckDfu, dlVars, vars, hostVars
<1>9. QED
  BY <1>1, <1>3, <1>4, <1>5, <1>6, <1>7, <1>8
  DEF DlNext, Host, HostSteps, Loop

(* The invariant of the whole download holds in every reachable state. *)
THEOREM DownloadInvariant == DlSpec => []DlInv
<1>1. DlInit => DlInv
  BY InitDlInv
<1>2. DlInv /\ [DlNext]_dlVars => DlInv'
  BY DlKeepsIoInv, StaysOnTrack, LeavesInOrder, TypesStay, WritesStayErased, OrderStays
  DEF DlInv
<1>3. QED
  BY <1>1, <1>2, PTL DEF DlSpec

(* Once the host has left and no request runs or waits, the image is whole. *)
LEMMA WholeOnceLeft ==
  ASSUME DlInv, left, pc = "loop", ~io_state.busy PROVE Whole(flash)
<1>1. sent = ImageLen /\ request = NoRequest
  BY DEF DlInv, LeaveInOrder
<1>2. Final = flash
  BY <1>1 DEF Final, Accepted, Running
<1>3. DOMAIN Image = 0 .. sent - 1
  BY <1>1, ImageAssumption
<1>4. QED
  BY <1>2, <1>3 DEF DlInv, DownloadOnTrack, Whole

(* A download that reaches LoadProgramAndJump is whole: every unit of the
   image is in the flash and no request is pending, whatever was refused, cut
   off or torn by a power loss before. *)
THEOREM DownloadIsWhole == DlSpec => []DownloadWhole
<1>1. DlInv => DownloadWhole
  BY WholeOnceLeft DEF DlInv, LeaveInOrder, DownloadWhole
<1>2. QED
  BY <1>1, DownloadInvariant, PTL
-----------------------------------------------------------------------------
(* Only the units of a running request change: the next one of an erase, the
   one of a write, also when they are torn.  What the flash held before the first
   command is history. *)
LEMMA FlashSteps ==
  ASSUME DlInv, [DlNext]_dlVars
  PROVE  /\ before' = before
         /\ flash' = flash \/ EraseUnit \/ WriteUnit \/ (PowerLoss /\ flash' # flash)
<1>1. CASE PollIo
  BY <1>1 DEF PollIo, ProcessIoRequests, BeginIo, EraseReturns, ClearBusy
<1>2. CASE UsbEvent /\ (HostErases \/ HostWrites \/ HostLeaves \/ HostCutOff)
  BY <1>2 DEF UsbEvent, HostErases, HostWrites, HostDownloads, HostLeaves, EnableJump,
              HostCutOff, ioVars
<1>3. CASE HostPolls
  BY <1>3 DEF UsbEvent, HostPolls, Serve, MemoryErase, MemoryWrite, ioVars
<1>4. CASE PollNothing \/ CheckDfu \/ UNCHANGED dlVars
  BY <1>4 DEF PollNothing, CheckDfu, dlVars, vars, ioVars
<1>5. CASE PowerLoss
  BY <1>5 DEF PowerLoss
<1>6. QED
  BY <1>1, <1>2, <1>3, <1>4, <1>5 DEF DlNext, Host, HostSteps, Loop

(* No unit is ever programmed over older content, also when a download starts
   again with a request of the one before it still pending. *)
THEOREM NothingIsGarbled == DlSpec => []NeverGarbled
<1>1. DlInit => NeverGarbled
  BY DEF DlInit, NeverGarbled
<1>2. DlInv /\ NeverGarbled /\ [DlNext]_dlVars => NeverGarbled'
  <2> SUFFICES ASSUME DlInv, NeverGarbled, [DlNext]_dlVars PROVE NeverGarbled'
    OBVIOUS
  <2>1. /\ before' = before
        /\ flash' = flash \/ EraseUnit \/ WriteUnit \/ (PowerLoss /\ flash' # flash)
    BY FlashSteps
  <2>2. flash \in Flash /\ io_state.start_address \in Units
    BY DEF DlInv, IoInv, TypeOK, InQspi
  <2>3. CASE flash' = flash
    BY <2>1, <2>3 DEF NeverGarbled
  <2>4. CASE EraseUnit
    <3>1. \A u \in Units : flash'[u] = flash[u] \/ flash'[u] = Erased
      BY <2>2, <2>4 DEF EraseUnit, Flash
    <3>2. ImageUnits \subseteq Units
      BY Sizes, ImageAssumption DEF ImageUnits, Units
    <3>3. QED
      BY <2>1, <3>1, <3>2, ContentAssumption DEF NeverGarbled
  <2>5. CASE WriteUnit
    <3>1. flash[io_state.start_address] = Erased /\ io_buffer \in Data
      BY <2>5 DEF WriteUnit, DlInv, IoInv, BusyDuringIo, PayloadReady, WritesFindErased
    <3>2. \A u \in Units : flash'[u] = flash[u] \/ flash'[u] = io_buffer
      BY <2>2, <2>5, <3>1 DEF WriteUnit, Program, Programmed, Flash
    <3>3. ImageUnits \subseteq Units
      BY Sizes, ImageAssumption DEF ImageUnits, Units
    <3>4. QED
      BY <2>1, <3>1, <3>2, <3>3, ContentAssumption DEF NeverGarbled
  <2>6. CASE PowerLoss /\ flash' # flash
    <3>1. PICK v \in AtWork, c \in Data \cup {Erased} : flash' = [flash EXCEPT ![v] = c]
      BY <2>6, TornUnit DEF DlInv
    <3>2. \A u \in Units : flash'[u] = flash[u] \/ flash'[u] # Garbled
      BY <2>2, <3>1, ContentAssumption DEF Flash
    <3>3. ImageUnits \subseteq Units
      BY Sizes, ImageAssumption DEF ImageUnits, Units
    <3>4. QED
      BY <2>1, <3>2, <3>3 DEF NeverGarbled
  <2>7. QED
    BY <2>1, <2>3, <2>4, <2>5, <2>6
<1>3. QED
  BY <1>1, <1>2, DownloadInvariant, PTL DEF DlSpec

(* Where the erases of a download stay within the pages that hold its image, as
   those of 64 kB pages do, nothing else in the flash changes; with pages
   of one unit the run "segments" shows what happens instead. *)
THEOREM NeighboursStayIntact ==
  ASSUME ErasesInPages PROVE DlSpec => []NeighboursIntact
<1>1. DlInit => NeighboursIntact
  BY DEF DlInit, NeighboursIntact
<1>2. DlInv /\ NeighboursIntact /\ [DlNext]_dlVars => NeighboursIntact'
  <2> SUFFICES ASSUME DlInv, NeighboursIntact, [DlNext]_dlVars PROVE NeighboursIntact'
    OBVIOUS
  <2>1. /\ before' = before
        /\ flash' = flash \/ EraseUnit \/ WriteUnit \/ (PowerLoss /\ flash' # flash)
    BY FlashSteps
  <2>2. flash \in Flash /\ io_state.start_address \in Units
    BY DEF DlInv, IoInv, TypeOK, InQspi
  <2>3. CASE flash' = flash
    BY <2>1, <2>3 DEF NeighboursIntact
  <2>4. CASE EraseUnit
    <3>1. io_state.busy /\ io_state.type = "Erase"
      BY <2>4 DEF EraseUnit, DlInv, IoInv, BusyDuringIo
    <3>2. PICK v \in ImageUnits : io_state.start_address = PageStart[v]
      BY <3>1 DEF DlInv, WritesFindErased, OfImage, Pending
    <3>3. cursor \in HostPages
      BY <2>4, <3>2 DEF EraseUnit, ErasesInPages
    <3>4. \A u \in Units \ HostPages : flash'[u] = flash[u]
      BY <2>2, <2>4, <3>3 DEF EraseUnit, Flash
    <3>5. QED
      BY <2>1, <3>4 DEF NeighboursIntact
  <2>5. CASE WriteUnit
    <3>1. io_state.busy /\ io_state.type = "Write"
      BY <2>5 DEF WriteUnit, DlInv, IoInv, BusyDuringIo
    <3>2. io_state.start_address \in ImageUnits
      BY <3>1 DEF DlInv, WritesFindErased, OfImage, Pending
    <3>3. io_state.start_address \in HostPages
      BY <2>2, <3>2 DEF HostPages
    <3>4. \A u \in Units \ HostPages : flash'[u] = flash[u]
      BY <2>2, <2>5, <3>3 DEF WriteUnit, Program, Flash
    <3>5. QED
      BY <2>1, <3>4 DEF NeighboursIntact
  <2>6. CASE PowerLoss /\ flash' # flash
    <3>1. PICK v \in AtWork, c \in Data \cup {Erased} : flash' = [flash EXCEPT ![v] = c]
      BY <2>6, TornUnit DEF DlInv
    <3>2. io_state.busy /\ OfImage(Pending)
      BY <2>6, TornUnit DEF DlInv, WritesFindErased
    <3>3. v \in HostPages
      <4>1. CASE io_state.type = "Erase"
        <5>1. PICK w \in ImageUnits : io_state.start_address = PageStart[w]
          BY <3>2, <4>1 DEF OfImage, Pending
        <5>2. v \in EraseRange(PageStart[w])
          BY <2>6, <4>1, <5>1, TornUnit DEF DlInv
        <5>3. QED
          BY <5>2 DEF ErasesInPages
      <4>2. CASE io_state.type = "Write"
        <5>1. v = io_state.start_address /\ v \in ImageUnits
          BY <2>6, <3>2, <4>2, TornUnit DEF DlInv, OfImage, Pending
        <5>2. QED
          BY <2>2, <5>1 DEF HostPages
      <4>3. QED
        BY <3>2, <4>1, <4>2 DEF DlInv, IoInv, BusyHasRequest, TypeOK, IoStatus, IoType
    <3>4. \A u \in Units \ HostPages : flash'[u] = flash[u]
      BY <2>2, <3>1, <3>3 DEF Flash
    <3>5. QED
      BY <2>1, <3>4 DEF NeighboursIntact
  <2>7. QED
    BY <2>1, <2>3, <2>4, <2>5, <2>6
<1>3. QED
  BY <1>1, <1>2, DownloadInvariant, PTL DEF DlSpec
-----------------------------------------------------------------------------
(* The refinement of DfuSession: what the main loop sees of each step. *)

(* Only the last write of an image makes it whole, and it does so for good:
   once it is done, the rest was done before. *)
LEMMA LastMakesWhole ==
  ASSUME DlInv, ClearBusy, IoSeen = "last" PROVE Whole(flash')
<1>1. io_state.busy /\ io_state.type = "Write" /\ io_state.start_address = LastUnit
  BY DEF IoSeen, ClearBusy, DlInv, IoInv, BusyDuringIo, BusyHasRequest, TypeOK,
         IoStatus, IoType
<1>2. Accepted = flash /\ flash' = flash
  BY DEF ClearBusy, Accepted, Running
<1>3. QED
  BY <1>1, <1>2 DEF DlInv, SessionInOrder

(* Placing a command: an erase, a write, or the last write. *)
LEMMA PlacingSeen ==
  ASSUME DlInv, HostPolls
  PROVE  Session!AcceptErase \/ Session!AcceptWrite
<1>0. /\ attached /\ ~booted /\ ~io_state.busy /\ io_state'.busy
      /\ request' = NoRequest /\ flash' = flash
      /\ UNCHANGED <<booted, attached, dfu_complete, left, sent, lastErased>>
  BY DEF HostPolls, UsbEvent, Serve, MemoryErase, MemoryWrite, Placeable,
         linkVars, flagVars, hostVars, ioVars
<1>1. request # NoRequest /\ ~left
  BY NoRequestAssumption
  DEF HostPolls, Serve, MemoryErase, MemoryWrite, DlInv, LeaveInOrder, Request
<1>2. sent \in 0 .. ImageLen /\ lastErased # NoPage
  BY <1>0, <1>1 DEF DlInv, DlTypeOK, SessionInOrder
<1>3. IoSeen = "idle" /\ Whole(flash)' = Whole(flash)
  BY <1>0, <1>1 DEF IoSeen, Whole
<1>4. CASE MemoryErase
  <2>1. request.type = "Erase" /\ io_state'.type = "Erase" /\ dfu_initiated' = TRUE
    BY <1>4 DEF MemoryErase, EraseRequest
  <2>2. sent # ImageLen
    BY <1>0, <1>1, <1>2, <2>1 DEF DlInv, SessionInOrder
  <2>3. HostSeen \in {"idle", "writing"} /\ HostSeen' = "writing"
    BY <1>0, <1>1, <1>2, <2>2 DEF HostSeen
  <2>4. IoSeen' = "erase"
    BY <1>0, <1>1, <2>1 DEF IoSeen
  <2>5. QED
    BY <1>0, <1>1, <1>3, <2>1, <2>3, <2>4 DEF Session!AcceptErase, Session!Up
<1>5. CASE MemoryWrite
  <2>1. /\ request.type = "Write" /\ io_state'.type = "Write"
        /\ io_state'.start_address = request.start_address
        /\ dfu_initiated' = dfu_initiated
    BY <1>5 DEF MemoryWrite, WriteRequest, flagVars
  <2>2. sent > 0 /\ request.start_address = Target - 1
    BY <1>0, <1>1, <2>1 DEF DlInv, SessionInOrder
  <2>3. HostSeen = "writing"
    BY <1>0, <1>1, <1>2, <2>2 DEF HostSeen
  <2>4. request.start_address = LastUnit <=> sent = ImageLen
    BY <1>2, <2>2, Sizes DEF LastUnit
  <2>5. CASE sent = ImageLen
    <3>1. IoSeen' = "last" /\ HostSeen' = "sent"
      BY <1>0, <1>1, <2>1, <2>4, <2>5 DEF IoSeen, HostSeen
    <3>2. QED
      BY <1>0, <1>1, <1>3, <2>1, <2>3, <3>1 DEF Session!AcceptWrite, Session!Up
  <2>6. CASE sent # ImageLen
    <3>1. IoSeen' = "write" /\ HostSeen' = HostSeen
      BY <1>0, <1>1, <1>2, <2>1, <2>2, <2>3, <2>4, <2>6 DEF IoSeen, HostSeen
    <3>2. QED
      BY <1>0, <1>1, <1>3, <2>1, <2>3, <3>1 DEF Session!AcceptWrite, Session!Up
  <2>7. QED
    BY <2>5, <2>6
<1>6. QED
  BY <1>4, <1>5 DEF HostPolls, Serve

(* Sending a command is not seen until the command is placed. *)
LEMMA SendingUnseen ==
  ASSUME DlInv, UsbEvent, HostErases \/ HostWrites
  PROVE  HostSeen' = HostSeen
<1>1. /\ ~booted /\ booted' = booted /\ left' = left /\ request = NoRequest
      /\ sent \in 0 .. ImageLen /\ sent < ImageLen
  BY DEF UsbEvent, HostErases, HostWrites, HostDownloads, DlInv, DlTypeOK
<1>2. Target \in Units /\ PageStart[Target] # NoPage
  BY <1>1, TargetInQspi DEF Units
<1>3. ~left /\ request' # NoRequest
  BY <1>1, TargetInQspi, NoRequestAssumption
  DEF DlInv, LeaveInOrder, HostErases, HostWrites, HostDownloads, Request,
      EraseRequest, WriteRequest
<1>4. CASE HostErases
  <2>1. sent' = sent /\ lastErased' = PageStart[Target] /\ lastErased # PageStart[Target]
    BY <1>4 DEF HostErases
  <2>2. CASE sent = 0
    <3>1. lastErased = NoPage
      BY <2>1, <2>2, Sizes DEF DlInv, SessionInOrder
    <3>2. QED
      BY <1>1, <1>3, <2>1, <2>2, <3>1 DEF HostSeen
  <2>3. CASE sent # 0
    <3>1. Target - 1 \in Units /\ PageStart[Target - 1] \in Units
      <4>1. Target - 1 \in Units
        BY <1>1, <2>3, Sizes DEF Units
      <4>2. PageStart[Target - 1] \in Units
        BY <4>1, PageAssumption
      <4>3. QED
        BY <4>1, <4>2
    <3>2. lastErased # NoPage
      BY <1>1, <2>1, <2>3, <3>1 DEF DlInv, DownloadOnTrack, Units
    <3>3. QED
      BY <1>1, <1>2, <1>3, <2>1, <2>3, <3>2 DEF HostSeen
  <2>4. QED
    BY <2>2, <2>3
<1>5. CASE HostWrites
  <2>1. sent' = sent + 1 /\ lastErased' = lastErased /\ lastErased = PageStart[Target]
    BY <1>5 DEF HostWrites
  <2>2. QED
    BY <1>1, <1>2, <1>3, <2>1 DEF HostSeen
<1>6. QED
  BY <1>4, <1>5

LEMMA SessionStep ==
  ASSUME DlInv, DlInv', [DlNext]_dlVars
  PROVE  [Session!Next]_Session!sessionVars
<1> USE DEF Session!Next, Session!Host, Session!Device
<1>1. CASE PowerLoss
  <2>1. /\ IoSeen' = "idle" /\ HostSeen' = "idle" /\ ~booted /\ booted' = booted
        /\ dfu_initiated' = FALSE /\ dfu_complete' = FALSE
        /\ attached' = attached
    BY <1>1, Sizes DEF PowerLoss, linkVars, IoSeen, HostSeen
  <2>2. attached /\ Whole(flash)' \in BOOLEAN /\ (IoSeen = "idle" => Whole(flash)' = Whole(flash))
    <3>1. IoSeen = "idle" => flash' = flash
      BY <1>1, TornUnit DEF IoSeen, DlInv
    <3>2. QED
      BY <3>1 DEF DlInv, SessionInOrder, Whole
  <2>3. Session!PowerLoss
    BY <2>1, <2>2, Zenon DEF Session!PowerLoss
  <2>4. QED
    BY <2>3
<1>2. CASE UsbEvent /\ (HostErases \/ HostWrites)
  <2>1. HostSeen' = HostSeen
    BY <1>2, SendingUnseen
  <2>2. /\ IoSeen' = IoSeen /\ Whole(flash)' = Whole(flash)
        /\ UNCHANGED <<dfu_initiated, dfu_complete, attached, booted>>
    BY <1>2 DEF UsbEvent, HostErases, HostWrites, HostDownloads, ioVars, flagVars,
                linkVars, IoSeen, Whole
  <2>3. QED
    BY <2>1, <2>2 DEF Session!sessionVars
<1>3. CASE UsbEvent /\ HostLeaves
  <2>1. /\ ~booted /\ booted' = booted /\ attached /\ attached' = attached
        /\ IoSeen' = IoSeen /\ Whole(flash)' = Whole(flash)
        /\ dfu_complete' = TRUE /\ dfu_initiated' = dfu_initiated
    BY <1>3 DEF UsbEvent, HostLeaves, EnableJump, linkVars, ioVars, IoSeen, Whole
  <2>2. HostSeen = "sent" /\ HostSeen' = "left"
    BY <1>3, <2>1 DEF HostLeaves, EnableJump, HostSeen
  <2>3. Session!Leave
    BY <2>1, <2>2 DEF Session!Leave, Session!Up
  <2>4. QED
    BY <2>3
<1>4. CASE HostPolls
  BY <1>4, PlacingSeen
<1>5. CASE UsbEvent /\ HostCutOff
  <2>1. /\ ~booted /\ booted' = booted /\ attached /\ attached' = attached
        /\ IoSeen' = IoSeen /\ Whole(flash)' = Whole(flash)
        /\ UNCHANGED <<dfu_initiated, dfu_complete>>
    BY <1>5 DEF UsbEvent, HostCutOff, linkVars, flagVars, ioVars, IoSeen, Whole, DlInv,
                SessionInOrder
  <2>2. HostSeen \in {"idle", "writing", "sent"} /\ HostSeen' = "idle"
    BY <1>5, <2>1, Sizes DEF HostCutOff, HostSeen
  <2>3. Session!GiveUp \/ UNCHANGED Session!sessionVars
    BY <2>1, <2>2 DEF Session!GiveUp, Session!Up, Session!sessionVars
  <2>4. QED
    BY <2>3
<1>6. CASE PollIo
  <2>1. /\ ~booted /\ booted' = booted /\ HostSeen' = HostSeen /\ io_state.busy
        /\ UNCHANGED <<dfu_initiated, dfu_complete, attached>>
    BY <1>6 DEF PollIo, ProcessIoRequests, BeginIo, EraseUnit, EraseReturns, WriteUnit,
                ClearBusy, linkVars, flagVars, hostVars, HostSeen, DlInv, IoInv,
                BusyDuringIo
  <2>2. IoSeen # "idle"
    BY <2>1 DEF IoSeen
  <2>3. IoSeen' = IoSeen \/ (IoSeen' = "idle" /\ ClearBusy)
    <3>1. CASE ClearBusy
      BY <3>1 DEF ClearBusy, IoSeen, DlInv, IoInv, TypeOK, IoStatus
    <3>2. CASE ~ClearBusy
      BY <1>6, <3>2 DEF PollIo, ProcessIoRequests, BeginIo, EraseUnit, EraseReturns,
                        WriteUnit, IoSeen
    <3>3. QED
      BY <3>1, <3>2
  <2>4. IoSeen' = "idle" /\ IoSeen = "last" => Whole(flash)'
    BY <2>2, <2>3, LastMakesWhole DEF Whole
  <2>5. Whole(flash)' \in BOOLEAN
    BY DEF Whole
  <2>6. Session!Work
    BY <2>1, <2>2, <2>3, <2>4, <2>5 DEF Session!Work
  <2>7. QED
    BY <2>6
<1>7. CASE CheckDfu
  <2>1. /\ ~booted /\ booted' = dfu_complete /\ IoSeen' = IoSeen
        /\ Whole(flash)' = Whole(flash)
        /\ UNCHANGED <<dfu_initiated, dfu_complete, attached>>
    BY <1>7 DEF CheckDfu, vars, flagVars, linkVars, ioVars, IoSeen, Whole
  <2>2. CASE dfu_complete
    <3>1. left /\ ~io_state.busy
      BY <1>7, <2>2 DEF CheckDfu, DlInv, LeaveInOrder
    <3>2. HostSeen = "left" /\ IoSeen = "idle" /\ HostSeen' = "idle"
      BY <2>1, <2>2, <3>1 DEF HostSeen, IoSeen
    <3>3. Whole(flash)
      BY <1>7, <3>1, WholeOnceLeft DEF CheckDfu, DlInv, LeaveInOrder
    <3>4. Session!Jump
      BY <2>1, <2>2, <3>2, <3>3, Zenon DEF Session!Jump
    <3>5. QED
      BY <3>4
  <2>3. CASE ~dfu_complete
    <3>1. HostSeen' = HostSeen /\ booted' = booted
      BY <1>7, <2>1, <2>3 DEF CheckDfu, vars, hostVars, HostSeen, DlInv, DlTypeOK
    <3>2. QED
      BY <2>1, <3>1 DEF Session!sessionVars
  <2>4. QED
    BY <2>2, <2>3
<1>8. CASE PollNothing \/ UNCHANGED dlVars
  BY <1>8 DEF PollNothing, dlVars, vars, hostVars, loopVars, flagVars, linkVars, ioVars,
              HostSeen, IoSeen, Whole, Session!sessionVars
<1>9. QED
  BY <1>1, <1>2, <1>3, <1>4, <1>5, <1>6, <1>7, <1>8
  DEF DlNext, Host, HostSteps, Loop

(* A download, seen from the main loop, is one of DfuSession: the units, the
   pages, the refused commands and the power losses in the middle of an erase
   make no difference to it (dfu.cpp:157-233, 347-399; bootloader.cpp:405-413,
   502-516). *)
THEOREM DownloadImplementsSession == DlSpec => ImplementsSession
<1>1. DlInit => Session!Init
  <2> SUFFICES ASSUME DlInit PROVE Session!Init
    OBVIOUS
  <2>1. /\ ~booted /\ attached /\ HostSeen = "idle" /\ IoSeen = "idle"
        /\ dfu_initiated = FALSE /\ dfu_complete = FALSE /\ booted = FALSE
    BY Sizes DEF DlInit, Init, HostSeen, IoSeen
  <2>2. Whole(flash) \in BOOLEAN /\ (attached /\ ~booted) = TRUE
    BY <2>1, Zenon DEF Whole
  <2>3. QED
    BY <2>1, <2>2 DEF Session!Init
<1>2. DlInv /\ DlInv' /\ [DlNext]_dlVars => [Session!Next]_Session!sessionVars
  BY SessionStep
<1>3. QED
  BY <1>1, <1>2, DownloadInvariant, PTL DEF DlSpec, Session!Spec, ImplementsSession
=============================================================================
