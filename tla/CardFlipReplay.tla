---------------------------- MODULE CardFlipReplay ---------------------------
(***************************************************************************)
(* The replay of a round of Card Flip (buildCardFlipReplay in              *)
(* apps/server/src/tables/replay/cardflip-replay.ts) beside the round it   *)
(* is about.  The replay knows the players, the cap and the log of draws,  *)
(* and works the frames out from those: it is folded here over the log as  *)
(* the engine writes it, so that every frame can be compared with the      *)
(* table it claims to show.                                                *)
(***************************************************************************)
EXTENDS CardFlipTable

VARIABLES
  frame,    \* the last step of the replay: hands, pile counts and leader
  drawer    \* the seat of the last entry of the log when that is a draw, or NoPlayer

replayVars == <<vars2, frame, drawer>>

\* pileCounts: the deck shared out evenly, the first piles taking what is left over.
pileCounts(total) ==
  [i \in Piles |-> total \div 3 + (IF i < total % 3 THEN 1 ELSE 0)]

\* "Round begins"
FirstFrame ==
  [hand |-> [p \in Players |-> NoCards], piles |-> pileCounts(Size(Deck)), leader |-> NoPlayer]

\* Mutant: a hand as good as the leader's takes the lead in the replay.
replayDraw_TieLeads(f, p, i, r) ==
  LET hands == [f.hand EXCEPT ![p][r] = @ + 1]
  IN  [hand |-> hands, piles |-> [f.piles EXCEPT ![i] = @ - 1],
       leader |-> IF f.leader = NoPlayer \/ ~beats(hands[f.leader], hands[p])
                  THEN p ELSE f.leader]

\* The step for an entry "p draws card r from pile i" of the log.
replayDraw(f, p, i, r) ==
  LET hands == [f.hand EXCEPT ![p][r] = @ + 1]
  IN  [hand |-> hands, piles |-> [f.piles EXCEPT ![i] = @ - 1],
       leader |-> IF f.leader = NoPlayer \/ beats(hands[p], hands[f.leader])
                  THEN p ELSE f.leader]

\* The engine logs the draw of the player at turn, from pile i, of rank r.
LoggedDraw(i, r) == piles'[i] # piles[i] /\ rest'[r] # rest[r]

ReplayInit == TableInit /\ frame = FirstFrame /\ drawer = NoPlayer

\* A draw that ends the round is followed by the entry "complete" in the same step.
ReplayNext ==
  /\ TableNext
  /\ \/ hand' = hand /\ UNCHANGED <<frame, drawer>>
     \/ \E i \in Piles, r \in Ranks :
          /\ LoggedDraw(i, r)
          /\ frame' = replayDraw(frame, turn, i, r)
          /\ drawer' = IF phase' = "complete" THEN NoPlayer ELSE turn

ReplaySpec == ReplayInit /\ [][ReplayNext]_replayVars /\ WF_vars2(finish)

-----------------------------------------------------------------------------
\* canDraw in the snapshot of player p (buildCardFlipRoundView).
canDraw(p) == phase = "turn" /\ turn = p

\* justDrewLastCard in the snapshot: the last card of p's hand has just been drawn.
justDrewLastCard(p) == p = drawer

\* The piles that can be clicked in CardFlipActionPanel, at one's turn or not.
pileButtons == {i \in Piles : piles[i] # 0}

\* What is shown of a round is what there is.  The replay has, at every draw, the
\* hands, the piles and the leader of the table, although it works the leader and the
\* piles out again from the cards alone.  A snapshot offers the draw to the one player
\* the engine accepts it from, who has a pile to click; and the card it marks as just
\* drawn is of that player, or decided that player's predecessor's turn: it took the
\* lead or filled the hand.
ViewsShowTheRound ==
  /\ frame = [hand |-> hand, piles |-> piles, leader |-> leader]
  /\ phase = "turn" => \E p \in Players : canDraw(p) /\ ~Full(hand, p) /\ pileButtons # {}
  /\ \A p \in Players :
       justDrewLastCard(p) => /\ hand[p] # NoCards
                              /\ ~canDraw(p) => p = leader \/ Full(hand, p)
=============================================================================
