---------------------------- MODULE MCClangRound ----------------------------
(* Small decks for the model-checked rounds of Clang. *)
EXTENDS ClangReplay

\* Three ranks worth 1, 2 and 4 points, dealt from:
SmallPoints == [r \in {1, 2, 3} |-> IF r = 3 THEN 4 ELSE r]
\* Ten cards: enough for three players to go round the table more than once.
WiderDeck == [r \in {1, 2, 3} |-> IF r = 3 THEN 2 ELSE 4]
=============================================================================
