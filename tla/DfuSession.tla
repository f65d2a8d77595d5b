----------------------------- MODULE DfuSession -----------------------------
(***************************************************************************)
(* A DFU download as the main loop sees it: what the host has got accepted *)
(* so far, the one request that waits, the two progress flags, and whether *)
(* the image is in the flash.  DfuDownload, with its units, pages and      *)
(* refused commands, implements it, and so does BootLoop, with its drives, *)
(* timeouts and failed boots: each stands for the other's half.            *)
(***************************************************************************)

VARIABLES host,           \* the host: idle, writing, sent it all, left
          io,             \* the accepted request
          whole,          \* the flash holds all of the last image that was sent whole
          dfu_initiated, dfu_complete,
          attached,       \* the USB device is up
          jumped          \* the device is on its way to the reset

sessionVars == <<host, io, whole, dfu_initiated, dfu_complete, attached, jumped>>

Init ==
  /\ host = "idle" /\ io = "idle" /\ whole \in BOOLEAN
  /\ dfu_initiated = FALSE /\ dfu_complete = FALSE
  /\ attached \in BOOLEAN /\ jumped = FALSE
-----------------------------------------------------------------------------
(* The host.  It starts with an erase, and has sent everything when its last
   write is accepted. *)
Up == attached /\ ~jumped

AcceptErase ==
  /\ Up /\ io = "idle" /\ host \in {"idle", "writing"}
  /\ io' = "erase" /\ host' = "writing" /\ dfu_initiated' = TRUE
  /\ UNCHANGED <<whole, dfu_complete, attached, jumped>>

AcceptWrite ==
  /\ Up /\ io = "idle" /\ host = "writing"
  /\ \/ io' = "write" /\ UNCHANGED host
     \/ io' = "last" /\ host' = "sent"
  /\ UNCHANGED <<whole, dfu_initiated, dfu_complete, attached, jumped>>

Leave ==
  /\ Up /\ host = "sent"
  /\ host' = "left" /\ dfu_complete' = TRUE
  /\ UNCHANGED <<io, whole, dfu_initiated, attached, jumped>>

GiveUp ==
  /\ Up /\ host \in {"writing", "sent"}
  /\ host' = "idle"
  /\ UNCHANGED <<io, whole, dfu_initiated, dfu_complete, attached, jumped>>
-----------------------------------------------------------------------------
(* The device.  While a request is done the image may be whole or not, and
   after the last write of a session it is whole. *)
Work ==
  /\ ~jumped /\ io # "idle"
  /\ whole' \in BOOLEAN
  /\ \/ UNCHANGED io
     \/ io' = "idle" /\ (io = "last" => whole')
  /\ UNCHANGED <<host, dfu_initiated, dfu_complete, attached, jumped>>

(* The main loop takes the device down and up again, or only tries to. *)
Detach ==
  /\ ~jumped
  /\ attached' = FALSE /\ host' = "idle"
  /\ UNCHANGED <<io, whole, dfu_initiated, dfu_complete, jumped>>

Reattach ==
  /\ ~jumped
  /\ attached' \in BOOLEAN /\ host' = "idle"
  /\ dfu_initiated' = (dfu_initiated /\ ~attached')
  /\ dfu_complete' = (dfu_complete /\ ~attached')
  /\ UNCHANGED <<io, whole, jumped>>

(* With the device down something else is written to the flash. *)
Overwrite ==
  /\ ~jumped /\ ~attached
  /\ whole' \in BOOLEAN
  /\ UNCHANGED <<host, io, dfu_initiated, dfu_complete, attached, jumped>>

(* The program in the flash is handed over.  After a download nothing came in
   between: the host of the download is the one that has left, nothing of it
   waits, and the image it sent is whole. *)
Jump ==
  /\ ~jumped
  /\ dfu_complete => host = "left" /\ io = "idle" /\ whole
  /\ jumped' = TRUE /\ attached' = FALSE /\ host' = "idle"
  /\ UNCHANGED <<io, whole, dfu_initiated, dfu_complete>>

(* A request that is being done leaves the image whole or not. *)
PowerLoss ==
  /\ ~jumped
  /\ host' = "idle" /\ io' = "idle"
  /\ dfu_initiated' = FALSE /\ dfu_complete' = FALSE /\ attached' = TRUE
  /\ whole' \in BOOLEAN /\ (io = "idle" => UNCHANGED whole)
  /\ UNCHANGED jumped

Host == AcceptErase \/ AcceptWrite \/ Leave \/ GiveUp
Device == Work \/ Detach \/ Reattach \/ Overwrite \/ Jump \/ PowerLoss
Next == Host \/ Device

Spec == Init /\ [][Next]_sessionVars
=============================================================================
