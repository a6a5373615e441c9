-------------------------- MODULE MCCardFlipTable --------------------------
(* A small deck for the model-checked tables of Card Flip: two ranks, of which *)
(* there are enough for pairs, two pairs, threes and fours of a kind.          *)
EXTENDS CardFlipReplay

SixOfEach == [r \in Ranks |-> 6]
=============================================================================
