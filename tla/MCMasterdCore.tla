---------------------------- MODULE MCMasterdCore ----------------------------
(***************************************************************************)
(* An instance of MasterdCore for TLC.  The preferences files: one with    *)
(* settings out of range, one that is oddly written, one with a blank      *)
(* behind its value, and one with a name that is unknown.                  *)
(***************************************************************************)
EXTENDS MasterdCore

MCDecimal == [n \in {0, 1, 2, 12} |->
                CASE n = 0 -> <<"0">> [] n = 1 -> <<"1">> [] n = 2 -> <<"2">>
                  [] n = 12 -> <<"1", "2">>]

MCDefault == [s \in Setting |-> 1]

MCFile == {
    << <<"$", "port", " ", "1", "2">>, <<"$", "heartbeat", " ", "1", "2">> >>,
    << <<"#", " ", "$", "port", " ", "1">>, <<>>, <<"$", "port", " ", "2">>,
       <<" ", "$", "port", " ", " ", "\"", "0", "\"", " ", " ">> >>,
    << <<"$", "port", " ", "2", " ">> >>,
    << <<"$", "prot", " ", "2">> >> }
=============================================================================
