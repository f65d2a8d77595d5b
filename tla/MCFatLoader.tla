----------------------------- MODULE MCFatLoader -----------------------------
(* FatLoader for TLC.  Pages of two units on a chip of four, and drives with an
   empty file, one that is shorter than a header, files of a part of a page and of exactly
   one, one that ends in the middle of the second page, one that is no program, and entries
   to be passed over. *)
EXTENDS FatLoader

CONSTANTS p, b, s

Plain(q) == [size |-> Len(q), unit |-> [u \in Units |-> IF u < Len(q) THEN q[u + 1] ELSE b]]
Bin(q) == [skip |-> FALSE, bin |-> TRUE, file |-> Plain(q)]
Hidden == [skip |-> TRUE, bin |-> TRUE, file |-> Plain(<<p, p, p>>)]
Text == [skip |-> FALSE, bin |-> FALSE, file |-> Plain(<<b>>)]

MCData == {p, b, s}
MCPrograms == {p}
MCBadEntries == {b}
MCStubs == {s}
MCDrives == {<<Text, Hidden>>,
             <<Bin(<<>>)>>,
             <<Bin(<<s>>)>>,
             <<Bin(<<p>>)>>,
             <<Bin(<<b>>), Bin(<<p, p>>)>>,
             <<Hidden, Bin(<<p, b>>)>>,
             <<Bin(<<p, b, p>>)>>}
=============================================================================
