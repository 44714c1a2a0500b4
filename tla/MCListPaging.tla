---------------------------- MODULE MCListPaging ----------------------------
(***************************************************************************)
(* Instances of ListPaging for TLC: five servers to a packet, bytes of 3   *)
(* and words of 6 bits.  The lists have every length that fits a word;     *)
(* from 35 servers on, the number of packets does not fit a byte.          *)
(***************************************************************************)
EXTENDS ListPaging

MCListing == {[i \in 1 .. n |-> i] : n \in 0 .. WordSize - 1}
=============================================================================
