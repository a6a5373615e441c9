---------------------------- MODULE MCTableSeats ----------------------------
(* A table of two seats, for its owner and a player. *)
EXTENDS TableSeats

CONSTANTS olga, vera, nobody
=============================================================================
