----------------------------- MODULE BlockStore -----------------------------
(***************************************************************************)
(* What the DFU side of the bootloader promises to the USB class driver: a *)
(* store with a mailbox of one request.  A request is accepted only while  *)
(* the mailbox is empty, and an accepted one takes effect exactly once, as *)
(* a whole, before the next one can be accepted.                           *)
(***************************************************************************)
EXTENDS QspiFlash

VARIABLES mailbox, store

bsVars == <<mailbox, store>>

Init == /\ mailbox = NoRequest
        /\ store \in Flash

Accept(r) == /\ mailbox = NoRequest
             /\ InQspi(r.start_address)
             /\ mailbox' = r
             /\ UNCHANGED store

Perform == /\ mailbox # NoRequest
           /\ mailbox' = NoRequest
           /\ store' = Applied(mailbox, store)

Next == Perform \/ \E r \in Request : Accept(r)

Spec == Init /\ [][Next]_bsVars
FairSpec == Spec /\ WF_bsVars(Perform)
=============================================================================
