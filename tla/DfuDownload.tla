----------------------------- MODULE DfuDownload -----------------------------
(***************************************************************************)
(* A whole DFU download: the DFU handle of DfuIo, a host that downloads an *)
(* image and leaves DFU mode, and the part of LoopProcess that polls the   *)
(* pending I/O and then looks for the end of the download.                 *)
(*                                                                         *)
(* The host is dfu-util (external).  It reads the page size from the       *)
(* layout string FLASH_INT_STR, erases each page before the first write    *)
(* into it, writes one unit at a time and sends the next command when the  *)
(* class driver has placed the last one.  It can be cut off at any time    *)
(* and start over, and the device can lose power at any time.              *)
(* CheckDfuUnpolled is a plausible bug in CheckDfu; no Next has it.        *)
(***************************************************************************)
EXTENDS DfuIo

CONSTANTS PageStart,     \* first unit of the page of a unit, for the host
          ImageBase,     \* unit where the image starts
          ImageLen,      \* units of the image
          Image,         \* payloads of the image, from 0
          Interruptions  \* bound on cut-offs and power losses

(* Pages follow each other and none is longer than an erase; the layout string
   has pages of one unit up to 0x90040000 and of sixteen, a sector, above. *)
ASSUME PageAssumption ==
  /\ PageStart \in [Units -> Units]
  /\ \A u \in Units : /\ PageStart[u] <= u
                      /\ u < PageStart[u] + SectorUnits
                      /\ \A v \in Units : PageStart[u] <= v /\ v <= u
                                           => PageStart[v] = PageStart[u]
ASSUME ImageAssumption ==
  /\ ImageBase \in Units
  /\ PageStart[ImageBase] = ImageBase
  /\ ImageLen \in Nat \ {0}
  /\ Image \in [0 .. ImageLen - 1 -> Data]
  /\ ImageBase + ImageLen <= FlashUnits
ASSUME InterruptionsAssumption == Interruptions \in Nat

NoPage == FlashUnits

VARIABLES sent,         \* units the host has sent a write for
          lastErased,   \* last page the host has sent an erase for
          left,         \* the host has sent the leave request
          window,       \* the main loop is past the poll of this iteration
          events,       \* USB events since that poll
          booted,       \* LoadProgramAndJump(7) was reached
          interrupted,  \* cut-offs and power losses so far
          before        \* the flash before the first command

hostVars == <<sent, lastErased, left>>
loopVars == <<window, events, booted>>
dlVars == <<vars, hostVars, loopVars, interrupted, before>>

DlInit ==
  /\ Init
  /\ sent = 0 /\ lastErased = NoPage /\ left = FALSE
  /\ window = FALSE /\ events = 0 /\ booted = FALSE
  /\ interrupted = 0
  /\ before = flash
-----------------------------------------------------------------------------
(* Host. *)

Target == ImageBase + sent

(* Named bound: between the poll of io_state and the test of dfu_complete
   the main loop executes a few instructions, less than one control transfer
   takes on the bus, so at most one USB event falls in between. *)
WindowEvents == 1
UsbEvent == /\ ~booted
            /\ window => events < WindowEvents
            /\ events' = IF window THEN events + 1 ELSE events
            /\ UNCHANGED <<window, booted, before>>

HostErases ==
  /\ sent < ImageLen
  /\ PageStart[Target] # lastErased
  /\ HostDownloads([type |-> "Erase", start_address |-> PageStart[Target]])
  /\ lastErased' = PageStart[Target]
  /\ UNCHANGED <<sent, left, interrupted>>

HostWrites ==
  /\ sent < ImageLen
  /\ PageStart[Target] = lastErased
  /\ HostDownloads([type |-> "Write", start_address |-> Target, data |-> Image[sent]])
  /\ sent' = sent + 1
  /\ UNCHANGED <<lastErased, left, interrupted>>

HostLeaves ==
  /\ sent = ImageLen
  /\ ~left
  /\ EnableJump
  /\ left' = TRUE
  /\ UNCHANGED <<sent, lastErased, interrupted>>

(* The cable is pulled or dfu-util is killed; the next run starts over. *)
HostCutOff ==
  /\ interrupted < Interruptions
  /\ ~left
  /\ request' = NoRequest
  /\ sent' = 0 /\ lastErased' = NoPage /\ left' = FALSE
  /\ interrupted' = interrupted + 1
  /\ UNCHANGED <<io_state, io_buffer, flagVars, linkVars, ioVars>>

HostSteps == UsbEvent /\ (HostErases \/ HostWrites \/ HostLeaves)
HostPolls == UsbEvent /\ Serve /\ UNCHANGED <<hostVars, interrupted>>
Host == HostSteps \/ HostPolls \/ (UsbEvent /\ HostCutOff)
-----------------------------------------------------------------------------
(* Main loop. *)

(* LoopProcess starts with ProcessIoRequests; when that returns, the window
   to the test of dfu_complete opens. *)
PollNothing ==
  /\ ~booted /\ ~window
  /\ pc = "loop" /\ ~io_state.busy
  /\ window' = TRUE
  /\ events' = 0
  /\ UNCHANGED <<vars, hostVars, booted, interrupted, before>>

PollIo ==
  /\ ~booted /\ ~window
  /\ ProcessIoRequests
  /\ window' = (pc = "finish")
  /\ events' = 0
  /\ UNCHANGED <<hostVars, booted, interrupted, before>>

(* CHECK_DFU: a complete download is handed to LoadProgramAndJump, which
   boots it (the image of this module has a valid stack pointer); the other
   states of the loop are left out, the next iteration polls again. *)
CheckDfuUnpolled ==
  /\ ~booted
  /\ pc = "loop"
  /\ window' = FALSE
  /\ booted' = dfu_complete
  /\ UNCHANGED <<vars, hostVars, events, interrupted, before>>

CheckDfu ==
  /\ ~booted /\ window
  /\ window' = FALSE
  /\ booted' = dfu_complete
  /\ UNCHANGED <<vars, hostVars, events, interrupted, before>>

(* The unit that the flash is at work on: the next one of an erase, the one of a
   write. *)
AtWork == {u \in Units : \/ pc = "erase" /\ u = cursor
                            /\ u \in EraseRange(io_state.start_address)
                         \/ pc = "write" /\ u = io_state.start_address}

(* Power is lost and comes back: the RAM starts over, the flash keeps what
   had been done of the running request, and the unit it was at work on may read
   as anything. *)
PowerLoss ==
  /\ ~booted
  /\ interrupted < Interruptions
  /\ interrupted' = interrupted + 1
  /\ io_state' = [busy |-> FALSE, type |-> "Idle", start_address |-> 0]
  /\ io_buffer' = Erased
  /\ dfu_initiated' = FALSE /\ dfu_complete' = FALSE
  /\ request' = NoRequest
  /\ pc' = "loop" /\ cursor' = 0
  /\ sent' = 0 /\ lastErased' = NoPage /\ left' = FALSE
  /\ window' = FALSE /\ events' = 0
  /\ \/ UNCHANGED flash
     \/ \E u \in AtWork, c \in Data \cup {Erased} : flash' = [flash EXCEPT ![u] = c]
  /\ UNCHANGED <<linkVars, booted, before>>

Loop == PollNothing \/ PollIo \/ CheckDfu
DlNext == Host \/ Loop \/ PowerLoss

DlSpec == DlInit /\ [][DlNext]_dlVars

(* The main loop runs for ever; the host goes on as long as it is not cut
   off, and each of its commands is polled for until it is placed. *)
DlFairSpec ==
  /\ DlSpec
  /\ WF_dlVars(Loop)
  /\ SF_dlVars(HostSteps)
  /\ SF_dlVars(HostPolls)
-----------------------------------------------------------------------------
ImageUnits == ImageBase .. ImageBase + ImageLen - 1

(* The pages the host believes it erases. *)
HostPages == {u \in Units : \E v \in ImageUnits : PageStart[u] = PageStart[v]}

(* The variables of the host and of the loop have their types. *)
DlTypeOK ==
  /\ sent \in 0 .. ImageLen
  /\ lastErased \in Address
  /\ left \in BOOLEAN /\ window \in BOOLEAN /\ booted \in BOOLEAN
  /\ events \in 0 .. WindowEvents
  /\ interrupted \in 0 .. Interruptions
  /\ before \in Flash

(* The flash once everything that was asked for is done: the operation that
   runs, then the accepted request, then the command not placed yet. *)
Running == IF pc \in {"erase", "write"} THEN Applied(Pending, flash) ELSE flash
Accepted == IF io_state.busy /\ pc = "loop" THEN Applied(Pending, Running)
            ELSE Running
Final == IF request = NoRequest THEN Accepted ELSE Applied(request, Accepted)

(* The flash will hold what the host has sent so far, and the rest of the
   page the host is in will be erased. *)
DownloadOnTrack ==
  /\ request # NoRequest => InQspi(request.start_address)
  /\ sent > 0 => \/ lastErased = PageStart[Target - 1]
                 \/ Target \in Units /\ lastErased = PageStart[Target]
  /\ lastErased # NoPage => lastErased <= Target
  /\ \A i \in 0 .. sent - 1 : Final[ImageBase + i] = Image[i]
  /\ \A u \in Units : Target <= u /\ PageStart[u] = lastErased => Final[u] = Erased

(* The host leaves once, with nothing left to place, and nothing is pending
   when the loop sees it: a poll found nothing or has just finished, and one
   event after it cannot be both the last write and the leave request. *)
LeaveInOrder ==
  /\ dfu_complete => left
  /\ left => sent = ImageLen /\ request = NoRequest
  /\ window => pc = "loop"
  /\ window /\ (events = 0 \/ left) => ~io_state.busy
  /\ booted => left /\ pc = "loop" /\ ~io_state.busy

(* A command is for the image: it erases a page of it or writes a unit of it. *)
OfImage(r) == \E v \in ImageUnits :
                r.start_address = IF r.type = "Erase" THEN PageStart[v] ELSE v

(* What waits is for the image, that of a session which was cut off included,
   and a write that is still to be done finds its unit erased. *)
WritesFindErased ==
  /\ request # NoRequest =>
       /\ OfImage(request)
       /\ request.type = "Write" => Accepted[request.start_address] = Erased
  /\ io_state.busy =>
       /\ OfImage(Pending)
       /\ io_state.type = "Write" /\ pc # "finish" => flash[io_state.start_address] = Erased

LastUnit == ImageBase + ImageLen - 1
Whole(f) == \A i \in DOMAIN Image : f[ImageBase + i] = Image[i]

(* A session starts with the erase of the image's first page, a write that
   waits is the last one sent, and the write of the last unit, also one that is
   left over from a session that was cut off, finds all the others done. *)
SessionInOrder ==
  /\ attached
  /\ sent = 0 => lastErased \in {NoPage, PageStart[ImageBase]}
  /\ request # NoRequest =>
       /\ lastErased # NoPage
       /\ IF request.type = "Erase" THEN sent < ImageLen
          ELSE sent > 0 /\ request.start_address = Target - 1
  /\ io_state.busy /\ io_state.type = "Write" /\ io_state.start_address = LastUnit
       => Whole(Accepted)

(* The inductive invariant. *)
DlInv == IoInv /\ DlTypeOK /\ DownloadOnTrack /\ LeaveInOrder /\ WritesFindErased
           /\ SessionInOrder

(* Whatever an erase of a page of the image covers is in pages of the image. *)
ErasesInPages == \A v \in ImageUnits : EraseRange(PageStart[v]) \subseteq HostPages

(* When the bootloader hands a finished download to LoadProgramAndJump, the
   whole image is in the flash and no request is pending, whatever requests
   were refused, cut off or torn by a power loss on the way.  The last write
   is only accepted, not done, when the host leaves: the order of the poll
   and the test in LoopProcess (bootloader.cpp:408, 504) makes the difference. *)
DownloadWhole ==
  booted => Whole(flash) /\ ~io_state.busy

(* What the host has neither erased nor written keeps its content: the
   comment on FLASH_INT_STR promises 4 kB segments in the first 256 kB "so
   smaller portions can be rewritten" (dfu.cpp:403-405). *)
NeighboursIntact == \A u \in Units \ HostPages : flash[u] = before[u]

(* No unit is programmed over older content, not even when a download
   starts again after a cut-off with a request of the old one pending. *)
NeverGarbled == \A u \in ImageUnits : flash[u] = Garbled => before[u] = Garbled

(* The download as the main loop sees it.  The host counts as writing from the
   first erase that is placed on, and has sent everything when its last write
   is placed. *)
HostSeen ==
  IF booted THEN "idle"
  ELSE IF left THEN "left"
  ELSE IF sent = ImageLen /\ request = NoRequest THEN "sent"
  ELSE IF lastErased = NoPage \/ (sent = 0 /\ request # NoRequest) THEN "idle"
  ELSE "writing"
IoSeen ==
  IF ~io_state.busy THEN "idle"
  ELSE IF io_state.type = "Erase" THEN "erase"
  ELSE IF io_state.start_address = LastUnit THEN "last"
  ELSE "write"
Session == INSTANCE DfuSession WITH
             host <- HostSeen, io <- IoSeen, whole <- Whole(flash),
             attached <- attached /\ ~booted, jumped <- booted

(* Units, pages, refused commands and the steps of an erase make no difference
   to the loop: what it sees of a download is a session of DfuSession, which
   BootLoop's host is too.  So the jump after a download finds the host gone
   and nothing waiting, and a last write that is done leaves a whole image. *)
ImplementsSession == Session!Spec

(* A download that is cut off only finitely often ends in the jump. *)
DownloadEnds == <>booted
=============================================================================
