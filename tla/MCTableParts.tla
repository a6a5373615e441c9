---------------------------- MODULE MCTableParts ----------------------------
(***************************************************************************)
(* The parts of the system that do not act on each other while they run:   *)
(* seats, the choice of game, the record of a hand, settlement, the        *)
(* ranking of hands, and the page of one player.  Every behaviour is one   *)
(* of one part; the others stay as they are at the start.                  *)
(*                                                                         *)
(* The owner and a player, at a table of two seats, which are alike.       *)
(* Stacks may fall below zero, as they do in Clang and Card Flip.  Of the  *)
(* games, two play poker with two cards each, with and without a bounty;   *)
(* Card Flip is left out, as its settings are handled like Clang's.        *)
(* The ten cards of the showdowns make a hand of every kind but five of a  *)
(* suit without a straight.                                                *)
(***************************************************************************)
EXTENDS TableSeats, Settlement, HandRank, GameConfig, HandRecord, TableClient, TLC

CONSTANTS olga, vera, nobody, east, west

MinusOne == -1
SeatSymmetry == Permutations(SeatIndexes)

CardRanks == <<6, 6, 6, 6, 5, 5, 4, 3, 2, 14>>
CardSuits == <<1, 2, 3, 4, 1, 2, 1, 1, 1, 1>>

gameRowOf(engine, bet, bounty, visibility, mine, granted) ==
  [engine |-> engine, bet |-> bet, bounty |-> bounty, twoCards |-> bounty # Unset,
   visibility |-> visibility, mine |-> mine, granted |-> granted]

GameRows ==
  [nlh |-> [gameRowOf("poker", 1, Unset, "PUBLIC", FALSE, FALSE) EXCEPT !.twoCards = TRUE],
   bounty |-> gameRowOf("poker", 1, 3, "PRIVATE", TRUE, FALSE),
   omaha |-> gameRowOf("poker", 2, Unset, "PREMIUM_HOST", FALSE, FALSE),
   clang |-> gameRowOf("clang", 2, Unset, "PRIVATE", FALSE, TRUE)]

\* No limit and, where the pot is smaller than the stack, pot limit.
RaiseRanges == {[min |-> 1, max |-> 2, allIn |-> 2], [min |-> 2, max |-> 3, allIn |-> 4]}

VARIABLE part   \* the part that runs

pageAndDeal == <<clientVars, deal>>

PartInit ==
  \/ /\ part \in {"seats", "games", "record", "sounds", "raises"}
     /\ NoSettlement /\ deal = NoDeal
  \/ part = "settlement" /\ SettlementInit /\ deal = NoDeal
  \/ part = "showdown" /\ NoSettlement /\ DealInit

PartsInit == Init /\ GamesInit /\ RecordInit /\ ClientInit /\ PartInit

\* The page is watched through two rounds of one game, where one player at most is away
\* and comes or goes while the page is behind; and, apart from that, with the raise panel.
Listening ==
  /\ TableMoves \/ Render \/ WinSound
  /\ current'.range = {} /\ (current.number > 0 => current'.kind = current.kind)
  /\ Len(current'.log) <= (IF GameOn /\ current'.over THEN 4 ELSE 3) - current'.number
  /\ (current # current' /\ current'.log # <<>>) =>
       LET type == current'.log[Len(current'.log)].type
       IN  current'.over => type # "dealCommunityCards"
  /\ Cardinality(awayNow') <= 1
  /\ awayNow' # awayNow => current.log # <<>> /\ screen # current /\ GameOn /\ current.number = 1
Raising ==
  /\ TableMoves \/ Render \/ ReminderSound \/ Controls
  /\ current'.kind \in {"none", "poker"} /\ current'.number <= 1 /\ ~current'.over
  /\ awayNow' = {}

PartsNext ==
  /\ UNCHANGED part
  /\ \/ part = "seats" /\ Next /\ UNCHANGED <<gameVars, recordVars, settleVars, pageAndDeal>>
     \/ part = "games" /\ GamesNext /\ UNCHANGED <<vars, recordVars, settleVars, pageAndDeal>>
     \/ part = "record" /\ RecordNext /\ UNCHANGED <<vars, gameVars, settleVars, pageAndDeal>>
     \/ part = "showdown" /\ DealHands /\ UNCHANGED <<vars, gameVars, recordVars, settleVars, clientVars>>
     \/ part = "settlement" /\ Settle /\ UNCHANGED <<vars, gameVars, recordVars, pageAndDeal>>
     \/ part = "sounds" /\ Listening /\ UNCHANGED <<vars, gameVars, recordVars, settleVars, deal>>
     \/ part = "raises" /\ Raising /\ UNCHANGED <<vars, gameVars, recordVars, settleVars, deal>>

PartsSpec ==
  PartsInit /\ [][PartsNext]_<<vars, gameVars, recordVars, settleVars, clientVars, deal, part>>
=============================================================================
