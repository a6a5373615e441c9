----------------------------- MODULE GameConfig -----------------------------
(***************************************************************************)
(* Which game a table plays, and at what stakes: the choice of the next    *)
(* game, the owner's settings, and the start of a round of any engine in   *)
(* TablesService, ClangService and CardFlipService, with a server that may *)
(* be restarted between any two requests.                                  *)
(*                                                                         *)
(* Settings are kept per engine and laid over the defaults of a game twice *)
(* by separate code: for the form (getGameConfig) and for the round.  They *)
(* are abstracted to `bet`, which stands for the blinds, ante, stake and   *)
(* bonuses, all handled alike, and to the 2-7 bounty of poker.  The form   *)
(* is taken to be of the engine it is saved for.                           *)
(***************************************************************************)
EXTENDS Integers, FiniteSetsExt

CONSTANTS
  Games,        \* ids of game definitions
  gameRow,      \* gameRow[g]: [engine, bet, bounty, twoCards, visibility, mine, granted]
  FirstGame,    \* the game the table was created with
  NoGame,
  Bets,         \* values the owner may enter
  MaxRounds     \* bound of the model: rounds started, those that fail included

Unset == 0      \* undefined
Engines == {"poker", "clang", "cardflip"}

ASSUME GamesAssumption ==
  /\ FirstGame \in Games /\ NoGame \notin Games
  /\ Bets \subseteq Nat \ {Unset} /\ MaxRounds \in Nat
  /\ \A g \in Games : gameRow[g].bounty # Unset => gameRow[g].twoCards

\* The columns of a GameDefinition row.
ASSUME GameRowAssumption ==
  \A g \in Games : /\ gameRow[g].engine \in Engines
                   /\ gameRow[g].bet \in Nat /\ gameRow[g].bounty \in Nat
                   /\ gameRow[g].mine \in BOOLEAN /\ gameRow[g].granted \in BOOLEAN

VARIABLES
  gameDefinitionId,     \* the game of the table
  gameKind,             \* its engine
  nextGameOverride,     \* the game queued for the next round, NoGame for null
  gameConfigOverrides,  \* the owner's settings, for each engine
  rounds,               \* hand, clangRound and cardFlipRound, by engine
  gameCounter,
  dbTable,              \* the Table row: gameDefinitionId and gameConfigOverrides
  dbRounds              \* the Hand, ClangRound and CardFlipRound rows

gameVars == <<gameDefinitionId, gameKind, nextGameOverride, gameConfigOverrides, rounds,
              gameCounter, dbTable, dbRounds>>

NoOverride == [bet |-> Unset, bounty |-> "unset", payout |-> Unset]
NoRound == [number |-> 0, live |-> FALSE, plays |-> [bet |-> Unset, bounty |-> Unset]]

orElse(value, default) == IF value = Unset THEN default ELSE value

isRoundInProgress == rounds[gameKind].live

targetGameDefinitionId ==
  IF nextGameOverride = NoGame THEN gameDefinitionId ELSE nextGameOverride

-----------------------------------------------------------------------------
(* Who may host what.                                                      *)

canAccessGameDefinition(row, premium) ==
  \/ row.visibility = "PUBLIC"
  \/ row.mine /\ premium
  \/ ~row.mine /\ row.granted
  \/ ~row.mine /\ row.visibility = "PREMIUM_HOST" /\ premium

\* Shown with a lock in the list of games.
locked(row, premium) ==
  CASE row.visibility = "PUBLIC" -> FALSE
    [] row.visibility # "PUBLIC" /\ row.mine -> ~premium
    [] row.visibility # "PUBLIC" /\ ~row.mine /\ row.granted -> FALSE
    [] OTHER -> row.visibility = "PREMIUM_HOST" => ~premium

-----------------------------------------------------------------------------
(* Settings.                                                               *)

\* What the form shows for game g: 0 as the bounty stands for one that is off or hidden.
getGameConfig(g) ==
  LET row == gameRow[g]
      o == gameConfigOverrides[row.engine]
      bet == orElse(o.bet, row.bet)
      bountyEnabled == o.bounty = "on" \/ (o.bounty = "unset" /\ row.bounty # Unset)
  IN  [bet |-> bet,
       bounty |-> IF row.twoCards /\ bountyEnabled
                  THEN orElse(o.payout, orElse(row.bounty, bet)) ELSE Unset]

\* Mutant: a bounty chosen for one game is played in games that do not deal two cards.
applyOverride_AnyGame(row, o) ==
  LET bet == orElse(o.bet, row.bet)
  IN  [bet |-> bet,
       bounty |-> CASE o.bounty = "unset" -> row.bounty
                    [] o.bounty = "off" -> Unset
                    [] OTHER -> orElse(o.payout, orElse(row.bounty, bet))]

\* applyPokerOverride, and the merge of the settings in the other two services.
applyOverride(row, o) ==
  LET bet == orElse(o.bet, row.bet)
  IN  [bet |-> bet,
       bounty |-> CASE o.bounty = "unset" -> row.bounty
                    [] o.bounty # "unset" /\ (o.bounty = "off" \/ ~row.twoCards) -> Unset
                    [] OTHER -> orElse(o.payout, orElse(row.bounty, bet))]

\* What the form sends for a game: the bounty only when the game can have one, and its
\* payout only while it is on.
FormPayloads(row) ==
  IF row.twoCards
  THEN [bet : Bets, bounty : {"on"}, payout : Bets] \cup [bet : Bets, bounty : {"off"}, payout : {Unset}]
  ELSE [bet : Bets, bounty : {"unset"}, payout : {Unset}]

setGameConfig(payload) ==
  LET engine == gameRow[targetGameDefinitionId].engine
  IN  /\ ~isRoundInProgress
      /\ payload \in FormPayloads(gameRow[targetGameDefinitionId])
      /\ gameConfigOverrides' = [gameConfigOverrides EXCEPT ![engine] = payload]
      /\ dbTable' = [dbTable EXCEPT !.overrides = gameConfigOverrides']
      /\ UNCHANGED <<gameDefinitionId, gameKind, nextGameOverride, rounds, gameCounter, dbRounds>>

\* Also while a round is live; Premium may have come or gone since the game was queued.
setNextGame(g) ==
  /\ \E premium \in BOOLEAN : canAccessGameDefinition(gameRow[g], premium)
  /\ nextGameOverride' = g
  /\ UNCHANGED <<gameDefinitionId, gameKind, gameConfigOverrides, rounds, gameCounter,
                 dbTable, dbRounds>>

-----------------------------------------------------------------------------
(* Rounds.                                                                 *)

\* startHand of TablesService, startRound of the other services: onStartHand takes the
\* one for the engine of the game that is next.  `dealt` is FALSE when the engine
\* throws, having too few players: all that comes before it stays done.
startRound(dealt) ==
  LET g == targetGameDefinitionId
      engine == gameRow[g].engine
      switched == engine # gameKind \/ g # gameDefinitionId
  IN  /\ ~isRoundInProgress
      /\ gameCounter < MaxRounds
      /\ nextGameOverride' = NoGame
      /\ gameKind' = engine /\ gameDefinitionId' = g
      /\ dbTable' = [dbTable EXCEPT !.game = g]
      /\ gameCounter' = gameCounter + 1
      /\ rounds' = [e \in Engines |->
           IF e = engine /\ dealt
           THEN [number |-> gameCounter', live |-> TRUE,
                 plays |-> applyOverride(gameRow[g], gameConfigOverrides[engine])]
           ELSE IF e # engine /\ switched THEN NoRound ELSE rounds[e]]
      /\ UNCHANGED <<gameConfigOverrides, dbRounds>>

\* The round is played out and its row written.
finishRound ==
  /\ isRoundInProgress
  /\ rounds' = [rounds EXCEPT ![gameKind].live = FALSE]
  /\ dbRounds' = dbRounds \cup {[engine |-> gameKind, number |-> rounds[gameKind].number]}
  /\ UNCHANGED <<gameDefinitionId, gameKind, nextGameOverride, gameConfigOverrides,
                 gameCounter, dbTable>>

\* Mutant: the counter is resumed from the rounds of the table's own engine.
ResumedCounter_OneEngine ==
  Max({0} \cup {r.number : r \in {d \in dbRounds : d.engine = gameKind'}})

\* onModuleInit takes the highest number of all three engines.
ResumedCounter == Max({0} \cup {r.number : r \in dbRounds})

RestartGames ==
  /\ gameDefinitionId' = dbTable.game
  /\ gameKind' = gameRow[dbTable.game].engine
  /\ nextGameOverride' = NoGame
  /\ gameConfigOverrides' = dbTable.overrides
  /\ rounds' = [e \in Engines |-> NoRound]
  /\ gameCounter' = ResumedCounter
  /\ UNCHANGED <<dbTable, dbRounds>>

-----------------------------------------------------------------------------
\* createTable
GamesInit ==
  /\ gameDefinitionId = FirstGame
  /\ gameKind = gameRow[FirstGame].engine
  /\ nextGameOverride = NoGame
  /\ gameConfigOverrides = [e \in Engines |-> NoOverride]
  /\ rounds = [e \in Engines |-> NoRound]
  /\ gameCounter = 0
  /\ dbTable = [game |-> FirstGame, overrides |-> gameConfigOverrides]
  /\ dbRounds = {}

GamesNext ==
  \/ \E payload \in FormPayloads(gameRow[targetGameDefinitionId]) : setGameConfig(payload)
  \/ \E g \in Games : setNextGame(g)
  \/ \E dealt \in BOOLEAN : startRound(dealt)
  \/ finishRound
  \/ RestartGames

-----------------------------------------------------------------------------
(* Properties.                                                             *)

\* A round is dealt with the settings the form showed for it, whichever game they were
\* entered for, whether a round was started, failed or lost in between; and the
\* settings of a round that is live never change under it.
SettingsHold ==
  [][\A e \in Engines : rounds'[e].live =>
       rounds'[e].plays = IF rounds[e].live THEN rounds[e].plays
                          ELSE getGameConfig(targetGameDefinitionId)]_gameVars

\* The rounds of a table form one timeline across its engines: no number is given twice
\* to rounds that are kept, whatever failed to start or was lost in a restart; only the
\* engine of the table's game has a round to show, and the database names that game.
\* The games the owner is refused are those shown with a lock.
OneTimeline ==
  /\ \A r, s \in dbRounds : r.number = s.number => r = s
  /\ isRoundInProgress => \A r \in dbRounds : r.number < rounds[gameKind].number
  /\ \A e \in Engines : rounds[e] # NoRound => e = gameRow[dbTable.game].engine
  /\ gameKind = gameRow[dbTable.game].engine /\ gameConfigOverrides = dbTable.overrides
  /\ \A g \in Games, premium \in BOOLEAN :
       locked(gameRow[g], premium) = ~canAccessGameDefinition(gameRow[g], premium)
=============================================================================
