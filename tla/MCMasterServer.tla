--------------------------- MODULE MCMasterServer ---------------------------
(***************************************************************************)
(* An instance of MasterServer for TLC: two hosts with a server each, one  *)
(* record to a call of either sweep.                                       *)
(***************************************************************************)
EXTENDS MasterServer

MCServer(address, port) == [address |-> address, port |-> port]

MCServers == {MCServer(1, 1), MCServer(2, 1)}

=============================================================================
