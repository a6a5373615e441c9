---------------------------- MODULE MCPokerTable ----------------------------
(* Street list for the model-checked instances of PokerTable. *)
EXTENDS PokerTable

TwoStreets == <<TRUE, TRUE>>
=============================================================================
