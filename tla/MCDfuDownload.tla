---------------------------- MODULE MCDfuDownload ----------------------------
(* DfuDownload for TLC: a chip of seven units in sectors of two, full of other
   content, and an image of three units in units 2 to 4, that is one whole
   sector and a part of the next; units 0, 1 and 6 belong to somebody else. *)
EXTENDS DfuDownload

CONSTANTS d1, d2, d3, other

MCImage == [i \in 0 .. 2 |-> CASE i = 0 -> d1 [] i = 1 -> d2 [] i = 2 -> d3]

(* Pages as large as a sector, and the pages of one unit that the layout
   string announces for the first 256 kB. *)
SectorPages == [u \in Units |-> u - (u % SectorUnits)]
SmallPages == [u \in Units |-> u]

MCInit == DlInit /\ \A u \in Units : flash[u] = other
MCSpec == /\ MCInit /\ [][DlNext]_dlVars
          /\ WF_dlVars(Loop)
          /\ SF_dlVars(HostSteps) /\ SF_dlVars(HostPolls)

(* An image of one unit, for the host with small pages. *)
MCShortImage == [i \in {0} |-> d1]
=============================================================================
