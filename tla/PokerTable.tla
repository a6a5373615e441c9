----------------------------- MODULE PokerTable -----------------------------
(***************************************************************************)
(* The server around one poker hand: TablesService in                      *)
(* apps/server/src/tables/tables.service.ts.  A request (start, action,    *)
(* away) runs under the table's lock and ends in advanceHand, which plays  *)
(* for the seats that are away, deals the streets nobody bets on, and      *)
(* settles the hand.                                                       *)
(*                                                                         *)
(* The engine's actions are those of PokerBetting; a seat is away when its *)
(* status is not "active".  advanceHand pauses between its steps, but the  *)
(* lock keeps every other request waiting: `handler` is where the request  *)
(* that holds the lock has got to.                                         *)
(***************************************************************************)
EXTENDS PokerBetting

VARIABLES
  handler,      \* "idle", or where the request holding the lock stands in advanceHand
  leaving,      \* runtime.awayAfterHandSeats
  handsSaved    \* how often the hand has been persisted

vars == <<bettingVars, handler, leaving, handsSaved>>
tableVars == <<leaving, handsSaved>>

\* shouldAutoPlay
Away(s) == s \notin active

\* The first loop of advanceHand goes on: the seat to act is away.
AwayToAct == phase = "betting" /\ inRound /\ Away(turn)

\* Seats somebody sits in: nobody comes or leaves while the hand is played.
Occupied == {s \in Seats : startStack[s] > 0}

-----------------------------------------------------------------------------
(* Requests.                                                               *)

StartHand ==
  /\ handler = "idle"
  /\ InitHand
  /\ handler' = "away"
  /\ UNCHANGED tableVars

\* hand:action, sent by the player in seat s, away or not.
PlayerAction(s) ==
  /\ handler = "idle"
  /\ ApplyAction(s)
  /\ handler' = "away"
  /\ UNCHANGED tableVars

\* Mutant: the hand is not advanced when a seat goes away.
GoAway_Only(s) ==
  /\ handler = "idle"
  /\ active' = active \ {s}
  /\ leaving' = leaving \ {s}
  /\ UNCHANGED <<stack, button, handVars, startStack, handler, handsSaved>>

\* setSeatAway with away = true.
GoAway(s) ==
  /\ handler = "idle"
  /\ active' = active \ {s}
  /\ leaving' = leaving \ {s}
  /\ handler' = "away"
  /\ UNCHANGED <<stack, button, handVars, startStack, handsSaved>>

\* setSeatAway with away = false.
ComeBack(s) ==
  /\ handler = "idle"
  /\ active' = active \cup {s}
  /\ leaving' = leaving \ {s}
  /\ UNCHANGED <<stack, button, handVars, startStack, handler, handsSaved>>

\* setSeatAwayAfterHand, with away = true or false.
QueueAway(s) ==
  /\ handler = "idle"
  /\ leaving' \in {leaving \cup {s}, leaving \ {s}}
  /\ UNCHANGED <<bettingVars, handler, handsSaved>>

-----------------------------------------------------------------------------
(* advanceHand, one turn of a loop at a time.                              *)

\* An away seat checks when it is offered a check, and folds otherwise.  If the
\* engine refuses the check it throws: the request fails and gives the lock back.
AutoPlay ==
  /\ handler = "away"
  /\ AwayToAct
  /\ IF getLegalActions(turn).canCheck /\ ~CheckAccepted(turn)
       THEN handler' = "idle" /\ UNCHANGED bettingVars
       ELSE /\ IF getLegalActions(turn).canCheck THEN Check(turn) ELSE Fold(turn)
            /\ UNCHANGED handler
  /\ UNCHANGED tableVars

\* Mutant: one away seat is played for, not all of them in a row.
LeaveAwayLoop_AtOnce ==
  /\ handler = "away"
  /\ handler' = "deal"
  /\ UNCHANGED <<bettingVars, tableVars>>

LeaveAwayLoop ==
  /\ handler = "away"
  /\ ~AwayToAct
  /\ handler' = "deal"
  /\ UNCHANGED <<bettingVars, tableVars>>

DealStreet ==
  /\ handler = "deal"
  /\ ContinueDealing
  /\ UNCHANGED <<handler, tableVars>>

\* Mutant: a hand that has been settled is settled again.
Settle_Again ==
  /\ handler = "deal"
  /\ phase \in {"showdown", "complete"}
  /\ phase' = "complete"
  /\ active' = active \ leaving
  /\ leaving' = {}
  /\ handsSaved' = handsSaved + 1
  /\ handler' = "idle"
  /\ UNCHANGED <<stack, button, street, dealt, folded, allIn, committed, contributed, acted,
                 roundVars, startStack>>

\* evaluateShowdown completes the hand (PokerHand models what it pays), and
\* persistHandResult first lets the seats queued for it go away.
Settle ==
  /\ handler = "deal"
  /\ phase = "showdown"
  /\ phase' = "complete"
  /\ active' = active \ leaving
  /\ leaving' = {}
  /\ handsSaved' = handsSaved + 1
  /\ handler' = "idle"
  /\ UNCHANGED <<stack, button, street, dealt, folded, allIn, committed, contributed, acted,
                 roundVars, startStack>>

\* The request is done: the hand waits for its next player, or there is none.
Release ==
  /\ handler = "deal"
  /\ ~hasMoreDealing
  /\ phase # "showdown"
  /\ handler' = "idle"
  /\ UNCHANGED <<bettingVars, tableVars>>

-----------------------------------------------------------------------------
\* A table with enough players for a hand.
TableInit == Init /\ ~AtMostOne(active) /\ handler = "idle" /\ leaving = {} /\ handsSaved = 0

Request ==
  \/ StartHand
  \/ \E s \in Seats : PlayerAction(s)
  \/ \E s \in Occupied : (GoAway(s) \/ ComeBack(s) \/ QueueAway(s))

advanceHand == AutoPlay \/ LeaveAwayLoop \/ DealStreet \/ Settle \/ Release

TableNext == Request \/ advanceHand

\* A request that holds the lock is never abandoned: its pauses end by themselves.
TableSpec == TableInit /\ [][TableNext]_vars /\ WF_vars(advanceHand)

-----------------------------------------------------------------------------
(* Properties.                                                             *)

TableTypeOK ==
  /\ handler \in {"idle", "away", "deal"}
  /\ leaving \subseteq Seats /\ handsSaved \in 0 .. 1
  /\ phase \in {"none", "betting", "showdown", "complete"}

\* Whenever no request is running, a hand that is not over waits for the action
\* of a seat that is not away: no away player can stall the table, whoever left,
\* came back or acted before.
AwayNeverStalls ==
  handler = "idle" /\ phase \notin {"none", "complete"} => inRound /\ turn \in CanAct /\ ~Away(turn)

\* A hand is persisted exactly when it completes, though advanceHand runs again on
\* every later change of a seat.
SavedOnce == handsSaved = (IF phase = "complete" THEN 1 ELSE 0)

\* A hand everybody has walked away from is played out to its end.
DesertedHandEnds ==
  (phase = "betting" /\ handler = "away" /\ active \cap CanAct = {}) ~> (phase = "complete")
=============================================================================
