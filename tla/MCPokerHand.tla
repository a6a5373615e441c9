----------------------------- MODULE MCPokerHand -----------------------------
(* Game definitions, scaled down, for the model-checked instances of PokerHand. *)
EXTENDS PokerReplay

\* Hold'em with one street of board cards, without a redraw.
TwoStreets == <<TRUE, TRUE>>
FlopOnly == <<0, 1>>
NoRedraw == <<0, 0>>

\* The same with a street nobody bets on in between.
ThreeStreets == <<TRUE, FALSE, TRUE>>
FlopThenTurn == <<0, 1, 1>>
NoRedraws == <<0, 0, 0>>

\* ESG: redraws toward a growing target on every street after the first.
EsgStreets == <<TRUE, TRUE, TRUE>>
EsgCommunity == <<0, 1, 1>>
EsgRedraw == <<0, 5, 7>>
=============================================================================
