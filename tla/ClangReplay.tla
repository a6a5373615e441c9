----------------------------- MODULE ClangReplay -----------------------------
(***************************************************************************)
(* The replay of a stored round of Clang (buildClangReplay in              *)
(* apps/server/src/tables/replay/clang-replay.ts) beside the round it is   *)
(* about.  It only has the log of actions and the number of players; it is *)
(* folded here over the log while the engine writes it, so that the last   *)
(* frame of what would be stored now can be compared with the table.       *)
(*                                                                         *)
(* The "deal" entry of the log holds the very arrays that are the players' *)
(* hands, not copies of them.  A draw pushes onto the array, a throw puts a*)
(* new array in its place: `shared` are the seats whose hand still is the  *)
(* array in the log.                                                       *)
(***************************************************************************)
EXTENDS ClangRound

VARIABLES
  frame,    \* the last step of the replay: hands and the sizes of the two piles
  shared,   \* players whose hand is the array the "deal" entry refers to
  last      \* the last entry of the log that is a draw, a play or an eat, or another

replayVars == <<vars, frame, shared, last>>

-----------------------------------------------------------------------------
(* What the engine appended to round.actions in a step, seen from its      *)
(* effects: a draw that brought a card, or cards thrown by playRank or eat.*)

LoggedDraw(p, r) == hand'[p][r] > hand[p][r]
LoggedThrow(p, r) == hand'[p][r] < hand[p][r]

\* The frame after the "deal" entry: the pile is one deck, or two from six players
\* on, less five cards for everybody.
DealFrame(hands) ==
  [hand |-> hands, pile |-> Size(Deck) - NumPlayers * HandSize, discarded |-> 0]

\* Entry "draw": the card joins the hand.  It joined the "deal" entry as well when
\* that shares the hand's array, and is then in the replayed hand twice.
DrawFrame(f, p, r) ==
  [f EXCEPT !.hand[p][r] = @ + (IF p \in shared THEN 2 ELSE 1),
            !.pile = IF @ > 0 THEN @ - 1 ELSE 0]

\* Mutant: one card more than was drawn leaves the hand with every throw.
ThrowFrame_WholeHand(f, p, r, cards) ==
  [f EXCEPT !.hand[p] = NoCards, !.discarded = @ + cards]

\* Entries "play" and "eat": all cards of the rank leave the hand; the entry has
\* the cards themselves, which is where the number of discards comes from.
ThrowFrame(f, p, r, cards) ==
  [f EXCEPT !.hand[p][r] = 0, !.discarded = @ + cards]

Entry(type, p) == [type |-> type, seat |-> p]
OtherEntry == Entry("other", NoPlayer)

\* An eat is a throw made while one was awaited.
ThrowEntry(p) == Entry(IF phase = "awaiting-eat" THEN "eat" ELSE "play", p)

ReplayInit == Init /\ frame = DealFrame(hand) /\ shared = Players /\ last = OtherEntry

\* A round that ends appends an entry of its own.
Logged ==
  \/ hand' = hand /\ last' = OtherEntry /\ UNCHANGED <<frame, shared>>
  \/ \E p \in Players, r \in Ranks :
       \/ /\ LoggedDraw(p, r)
          /\ frame' = DrawFrame(frame, p, r) /\ last' = Entry("draw", p)
          /\ UNCHANGED shared
       \/ /\ LoggedThrow(p, r)
          /\ frame' = ThrowFrame(frame, p, r, hand[p][r])
          /\ last' = IF phase' = "complete" THEN OtherEntry ELSE ThrowEntry(p)
          /\ shared' = shared \ {p}

ReplayNext == Next /\ Logged

ReplaySpec == ReplayInit /\ [][ReplayNext]_replayVars /\ WF_vars(Next)

-----------------------------------------------------------------------------
(* What the snapshot of a player offers it to do (buildClangRoundView in   *)
(* table-snapshot.ts), worked out apart from the engine's own checks.      *)

turnSeatIndex == IF phase = "complete" THEN NoPlayer ELSE turn

\* canCallClangNormal is canDraw.
legalActions(p) ==
  LET isMyTurn == turnSeatIndex = p
      isEater == phase = "awaiting-eat" /\ pendingEat.eater = p
  IN  [canDraw |-> isMyTurn /\ phase \in {"turn", "instant-window"},
       canPlay |-> isMyTurn /\ phase = "awaiting-discard",
       canCallInstantClang |-> p \notin closed /\ handValue(hand[p]) = InstantValue,
       canEat |-> isEater /\ Holds(p, pendingEat.rank),
       canPassEat |-> isEater]

\* What the engine accepts from p, for every kind of request.
Accepted(p) ==
  [canDraw |-> MayTakeTurn(p),
   canPlay |-> phase = "awaiting-discard" /\ turn = p,
   canCallInstantClang |-> p \notin closed /\ handValue(hand[p]) = InstantValue,
   canEat |-> MayEat(p) /\ Holds(p, pendingEat.rank),
   canPassEat |-> MayEat(p)]

\* groupByRank: a button for every rank in the hand.
groupByRank(h) == {r \in Ranks : h[r] > 0}

\* The buttons of ClangActionPanel.  A draw and a Clang can be clicked at any time, for
\* the server to refuse, but the draw gives way to the ranks that can be thrown.
panelButtons(p) ==
  LET a == legalActions(p)
  IN  UNION {IF a.canEat THEN {<<"eat">>} ELSE {},
             IF a.canPassEat THEN {<<"passEat">>} ELSE {},
             IF a.canCallInstantClang THEN {<<"callClangInstant">>} ELSE {},
             IF a.canPlay THEN {<<"play", r>> : r \in groupByRank(hand[p])} ELSE {<<"draw">>},
             {<<"callClang">>}}

\* The requests the engine accepts from p.
AcceptedRequests(p) ==
  LET a == Accepted(p)
  IN  UNION {IF a.canDraw THEN {<<"draw">>, <<"callClang">>} ELSE {},
             IF a.canPlay THEN {<<"play", r>> : r \in {x \in Ranks : Holds(p, x)}} ELSE {},
             IF a.canCallInstantClang THEN {<<"callClangInstant">>} ELSE {},
             IF a.canEat THEN {<<"eat">>} ELSE {},
             IF a.canPassEat THEN {<<"passEat">>} ELSE {}}

\* lastDraw, lastPlay and lastEat are there when the last entry of all is of their kind.
lastDraw == IF last.type = "draw" THEN {last} ELSE {}
lastThrow == IF last.type \in {"play", "eat"} THEN {last} ELSE {}

\* What is shown of a round is what there is.  The replay never loses a card: through
\* eat chains and up to the draw that takes the last card, the piles it shows are those
\* of the table and every card a player has is in its replayed hand.  The table says who
\* has just drawn exactly while that player has to throw, and beside every eat on offer
\* the throw it is about, that of the player before.  And the buttons a player has
\* are the requests the engine accepts from it, except that a draw is offered, and
\* refused, while somebody holds an uncalled instant Clang; no request that would be
\* accepted lacks a button, and until the round is over somebody has one that works.
ViewsShowTheRound ==
  /\ frame.pile = Size(pile) /\ frame.discarded = Size(discards)
  /\ \A p \in Players : /\ \A r \in Ranks : frame.hand[p][r] >= hand[p][r]
                         /\ Size(frame.hand[p]) <= Size(hand[p]) + 1
  /\ lastDraw # {} <=> phase = "awaiting-discard"
  /\ \A e \in lastDraw : e.seat = turn
  /\ phase = "awaiting-eat" => \E e \in lastThrow : NextInOrder(e.seat) = turn
  /\ phase # "complete" =>
       /\ \A p \in Players :
            /\ AcceptedRequests(p) \subseteq panelButtons(p)
            /\ IF outstandingInstantClangSeats = {} THEN legalActions(p) = Accepted(p)
               ELSE Accepted(p) = [legalActions(p) EXCEPT !.canDraw = FALSE]
       /\ \E p \in Players : AcceptedRequests(p) \cap panelButtons(p) # {}

\* "the reconstructed `hand` per seat is always the real cards" (the comment on
\* buildClangReplay).
ReplayShowsTheHands == frame.hand = hand
=============================================================================
