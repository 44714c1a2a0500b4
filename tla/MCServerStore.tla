---------------------------- MODULE MCServerStore ----------------------------
(***************************************************************************)
(* Instances of ServerStore for TLC.  An address has two halves of 2 bits  *)
(* and a port has 2 bits.                                                  *)
(***************************************************************************)
EXTENDS ServerStore, TLC

MCServer(address, port) == [address |-> address, port |-> port]

\* Three servers on two hosts, each with its own slot.
MCDistinct == {MCServer(1, 1), MCServer(1, 2), MCServer(2, 1)}

\* Two hosts whose addresses agree in the half that AddrToSlot keeps.
MCColliding == {MCServer(1, 1), MCServer(5, 1)}

Symmetry == Permutations(Pointer) \cup Permutations(GameType) \cup Permutations(MissionType)
=============================================================================
