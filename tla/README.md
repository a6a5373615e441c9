# 5LAPnow in TLA+

5LAPnow lets friends play poker (several variants), Clang and Card Flip at tables
of up to ten seats. A NestJS server holds every live table in memory, a Next.js
client draws what the server sends, and Postgres keeps users, tables, seats, the
results of rounds and the movements of chips. This directory models the rules of
the three games and the server around them, checks the models with TLC and proves
some of the results for every value of the constants with TLAPS.

Paths below are relative to the repository; `tables.service.ts` and its like are
in `apps/server/src/`.

## 1. The system

| Part | State | Operations | Talks to |
|---|---|---|---|
| Poker hand (`packages/game-engine/src/shared`: `table.ts`, `handState.ts`, `bettingRound.ts`, `engine.ts`) | seats and stacks, button, `HandState`: players, bets of the street, betting round, deck, boards | `initHand`, `applyAction`, `continueDealing`, `evaluateShowdown`, `getLegalActions` | called by `TablesService` |
| Pots (`pots.ts`) | none | `settleShowdown`, `settleBounty`, `splitAmountEvenly` | called at showdown |
| Clang (`packages/clang-engine`) | `ClangRoundState`: hands, draw and discard piles, turn, pending eat, closed instant-Clang windows | `startRound`, `draw`, `playRank`, `eat`, `passEat`, `callInstantClang`, `callClang` | called by `ClangService` |
| Card Flip (`packages/card-flip-engine`) | `CardFlipRoundState`: piles, hands, turn, leader | `startRound`, `draw` | called by `CardFlipService` |
| Table lock (`withTableLock`, `TablesGateway.guard`) | a promise per table: the end of its chain | append a request | every mutating message of a socket |
| Tables (`TablesService`) | `RuntimeTable`: game, round, owner, requests, queued corrections, queued game, who leaves after the hand, stacks before the round, hand counter | seat requests and approval, removal, transfer, away now or later, corrections, start, action, settings, rabbit hunt, showing cards, ledger, replay, chat | engines, database, gateway (`emitChanged`) |
| Clang and Card Flip services | the round in the `RuntimeTable` | start, the game's actions, playing for away seats, settling | engine, `TablesService`, database |
| Restart (`onModuleInit`) | rows of tables, seats, users, highest round number | rebuilds the runtime | database |
| Game and settings (`TablesService`, `GamesService`, settings dialog) | game of the table, the queued game, overrides per engine, one counter for the rounds of all engines | choose, set, start, fail to start, restart | engines, database |
| Record of a hand (`revealRabbit`, `showCards`, replay) | row of the hand, shown cards, seats that hunted the rabbit | show, hunt, replay | database, snapshots |
| Snapshots (`table-snapshot.ts`), replays (`replay/*`) | none | build what one viewer may see, now or later | gateway, controller |
| Gateway (`TablesGateway`), users, chat | rooms, sockets with a user; rows | connect, join, broadcast, send and list messages, guest sessions | `TablesService`, page |
| Cards (`packages/cards`) | deck | shuffle, draw, put back; ranking of hands | engines |
| Web client (`page.tsx`, its hooks and panels) | stored session, socket, last snapshot, chat, references and timers of the effects | sends messages, draws, makes sounds | gateway |

What makes the code hard to get right:

* A request pauses many times, in timers that pace the play and at every database
  call, while others arrive for the same table. Only the chain of promises keeps
  them apart; there are no other locks and no database transactions.
* A player can go away, come back or ask to leave after the hand at any moment. The
  server then plays for the absent, from whatever point the game is at, and must
  neither stall nor settle twice.
* The engines mutate the table as they go. If one throws half way, nothing is rolled
  back.
* Chips are integers split many ways: side pots, boards, high and low, ties, side
  payments, bonuses. Chips in Clang and Card Flip may go below zero.
* The server may be restarted at any time; live rounds are then dropped and the
  stacks of the database count.
* A page sees only the newest snapshot. It misses others, is sent the same again, loses
  its connection and its session, and reads the history of the chat while messages are
  being sent.
* The same thing is worked out twice by separate code in many places: what is offered
  and what is accepted, settings for the dialog and for the engine, a round and its
  replay, the row of a hand and the hand at the table.

What makes each part correct is stated as properties in section 3. The hazards behind
them, each at its line of the code, are listed in `PROJECT.json`.

## 2. Modules

```
PokerBetting --> PokerHand (with PokerPots) --> PokerReplay    chips; cards and payout; the log replayed
       \-------> PokerTable                                    the server around a hand
PokerPots -----> Settlement, PokerHand, ClangRound (splitAmountEvenly)
ClangRound ----> ClangReplay                                   the log replayed, views and panel
       \-------> ClangTable                                    the server around a round
CardFlipRound -> CardFlipTable -> CardFlipReplay               the same for Card Flip
TableLock -----> TableQueue (abstract)                         one request at a time
       \-------> Gateway                                       sockets, sessions, rooms, chat
TableSeats  GameConfig  HandRecord  HandRank  TableClient      parts on their own
Sums                                                           lemmas about sums over finite sets
PokerBetting_proofs --> PokerHand_proofs, PokerTable_proofs    theorems
Clang_proofs  CardFlip_proofs  TableLock_proofs  TableParts_proofs
```

**PokerBetting.** One hand seen from its chips. `InitHand`, `Fold`, `Check`, `Call`,
`Raise` and `ContinueDealing` are the engine's operations, each with everything
the call does: after an action the round is closed if it can be, the hand ends or the
next street is dealt and its betting opened. `startStack` is the only history variable.
No decision of the betting reads a card, so there are none here.

**PokerPots.** The settlement as pure operators. A showdown is the strength of each
seat's hand per board, of its own cards, and of its low hand. **Settlement** applies it
once to every hand of a bounded set, in all four ways to score it, and states what the payout
should be without side pots.

**PokerHand** extends both: a deck that is counted, redraws, folded cards going back,
the showdown (every outcome of it is a choice) and the side payments. `StartHandThrows`
is `initHand` running out of cards after it has taken the blinds. **PokerReplay** folds
the log of the hand as the engine writes it, the way `buildPokerReplay` does later.

**HandRank.** `handEvaluator.ts`: the score of five cards, the three rankings, the best
five of a player's cards, with or without a fixed number from its own, and the low hand.
The property compares it with the rules, which are stated without scores. Ranks are
ordered by how many come before them, where the code sorts; scores, merits and places are
tables (`Tabulated`, the identity), so that TLC works each out once.

**PokerTable.** `TablesService` around the betting. `handler` says where the request
holding the lock stands in `advanceHand`, which is split where the code awaits. Away
means the seat's status is not `active`.

**ClangRound.** The engine's operations over bags of ranks. Suits do not matter to the
play; the bonus for a starting hand is a payment some player may get at the deal.
**ClangTable** is `ClangService` around it: `resolveAwayTurns` split where the code
pauses, `settleIfComplete` with its `settled` flag, the stacks in the database.
**ClangReplay** follows the replay, the snapshot of the round and the buttons of
`ClangActionPanel` step by step beside the engine.

**CardFlipRound.** The engine with hands of up to four cards. `partialHandScore` is
translated; suits play no part below five cards. **CardFlipTable** and
**CardFlipReplay** are to it what the modules above are to Clang.

**TableLock** is the chain of promises as written; **TableQueue** is what its comment
promises, a queue per table of which only the head is served. `Queue` in TableLock is
the refinement mapping: what has come to a table after the requests it has served
(`Served`, `Unserved`).

**Gateway** extends TableLock with one browser at one table: the stored session and the
cookie, the handshake (`Connect`), the refusal and its healing, joining a room, the
snapshot taken then, broadcasts, the history of the chat and its messages. A change of
the table is a new `version` of it. `wire` is what is on its way to the page.

**TableSeats.** Seats, requests, owner, corrections, away flags, with the seat rows and
chip transactions of the database, around rounds of any game, and restarts; and the
controls the page has for a seat. A round only moves chips among the seats dealt in.
Requests are single steps, which is what TableLock shows them to be. The names of its
actions are those of the methods.

**GameConfig.** The choice of the next game and its settings, for the three engines, with
starts that fail and restarts. The settings are abstracted to one bet and the 2-7 bounty,
which are all merged the same way.

**HandRecord.** A finished hand at the table and its row, as cards are shown and the
rabbit hunted, at the table under the lock and in the replay without it.

**TableClient.** The effects of the page: what it remembers of what it has drawn, the
sounds, the timers, the raise panel. Rounds come and go at the server as they may; the
page draws the newest snapshot whenever it does. `heard`, `twice`, `seen` and `mute` are
history variables.

`MC*` modules give values to constants. MCTables plays a hand of poker or a round of
Clang, MCSockets the lock alone or with a page, MCTableParts one of the parts that do
not act on each other; a variable says which, and the others stay as they are at the
start. Definitions that end in an underscore and a word (`MayRemove_Anytime`) are variants
of the definition they stand next to, each with one plausible mistake; a property is
trusted only because TLC finds it violated when the variant takes the place of the
original.

## 3. What is checked

| Run | Instance | Shows |
|---|---|---|
| `hand_nl` | 3 seats with 0, 1, 2, 3 or 5 chips, blinds 1 and 2, a street without betting, side payment 1 | Chips stay with their seat until paid out; the turn is always with somebody who can act; no round closes on an unmatched bet; nobody wins more from a player than it put in itself, and the payout makes no chip and loses none but those of a pot everybody folded away from; the replay shows the chips, cards and folds of the hand |
| `betting_alone` | the same blinds | *violated:* the last player with chips is asked before streets are dealt out |
| `hand_esg` | 4 seats with 0, 2 or 7 chips, 15 cards, pot limit, redraws, folded cards return | No card is lost or doubled, everybody holds equally many, every offered play is accepted and every accepted raise offered |
| `hand_dead` | 3 seats with 0, 1, 2 or 4 chips | *violated:* no chips leave the table |
| `clang_three` | 3 players, hands of 2, 10 cards of three ranks, bonus 2 for one player at most, stake 3 | Turns are with whoever has to decide, instant Clang is never late, payments add up and the winner is right, rounds end; the replay loses no card; the table says who drew and threw; the buttons are the requests the engine accepts |
| `clang_replay` | 2 players, the same cards | *violated:* the replayed hands are the real cards |
| `cardflip_three` | 3 players, hands of up to 4, 12 cards of two ranks, one seat queued to leave at most | The lead is with the strongest hand and the turn with a challenger who can draw; the round never waits for somebody away, is written once and whole, and a deserted one is drawn to its end; replay, views and buttons follow the round |
| `tables` | poker: 3 seats with 0, 2 or 4 chips, two streets; Clang: 2 players, 7 cards of three ranks | A hand or a round never waits for somebody who is away, is stored once (in Clang with all its stacks), and ends although everybody has left |
| `table_ante` | an ante of 1 on top of blinds 1 and 2 | *violated:* a hand never waits for a seat that is away |
| `sockets` | 5 requests for 2 tables; one page, 2 changes, 2 messages, 2 mishaps, a history of 1 | Mutual exclusion, order, every request ends although others fail, the queue is implemented; a page comes to show what is announced and lists the chat whole |
| `seats_back` | the owner and a player, 2 seats | *violated:* a player who is away has the button to come back |
| `table_parts`, seats | the owner and a player, 2 seats, buy-in 1, corrections of 1, stacks -1 to 2, results up to 2 either way | One place each and seats on offer can be had, the ledger counts only what was won, the database holds what a restart must return to, corrections find their player, nobody leaves a live round |
| , games | 4 games, of poker and of Clang (Card Flip settings are handled like those of Clang), public, private and premium; 2 rounds started | Rounds are dealt with the settings shown and keep them, numbers are not given twice, what is locked is refused |
| , record | 2 users and 2 seats, a hand of three streets | The row of a hand and the table tell the same of shown cards and the rabbit, whoever looks |
| , settlement | contributions 0, 1, 4 of three seats, every fold, every order of hands: two boards with three strengths, high-low, point races over two boards and with the hole cards alone | The payout is what a definition without side pots says, to the odd chip |
| , showdown | every deal of ten cards to two players and a board of four | The better hand wins under the rules, the low is found exactly when there is one |
| , page | 2 rounds of any game, 2 and 1 actions and their ends, one player away at most; or the raise panel with two ranges | Each action shown is heard once, starts and wins as well, reminders come only at one's turn, and what is sent was in the range on show |

**Why the bounds are enough.** Three seats give a button, two blinds, a player between
an all-in and a raiser, and two side pots. The stacks are smaller than the blinds, equal
to them, and deep enough for a raise, a re-raise and a short all-in. The deck of
`hand_esg` is too small for four players and just large enough for three, so that starts
fail, redraws run short and folded cards matter. The contributions settled differ
by odd amounts. Ten cards let three players of Clang go round the table more than once
and eat back to the discarder. Two users are enough for a place to be taken between
request and approval, handed over and given back. Two tables show that chains do not
wait for each other. Two mishaps let a connection break while a page rejoins, or its
session die after it has reconnected; a history of one message is cut as soon as there
are two. The ten cards of the showdowns make every kind of hand but a flush that is no
straight. A second round shows what a page remembers of the first.

The bounds in guards are `MinStack`, `MaxStack` and `MaxWinnings` of TableSeats,
`MaxHits` (players with a starting bonus in Clang), `MaxQueued` (seats queued to leave in
Card Flip), `MaxRounds` of GameConfig, `MaxHands` of HandRecord (a number is used again
after a restart that lost it), `MaxChanges` and `MaxMishaps` of Gateway, `MaxGames` and
`MaxLog` of TableClient; all others are constants of the instance. The states of
`table_parts` are symmetric in the seats, which no definition orders.

**Deadlock** is checked in every run but `table_parts`, where a settled pot and a dealt
showdown have no next step. A hand or a round that is over stutters explicitly.

**Fairness.** In PokerTable, ClangTable and CardFlipTable the steps of a request that has
begun are weakly fair: its continuation is a timer or a settled promise, which the event
loop runs. Nothing obliges a player to act, so nothing is said of hands whose players
stay and think. In TableLock a chained request starts once its predecessor has settled
and a started one ends, with success or not: every handler is a finite sequence of engine
and database calls. In `sockets`, what was emitted over a connection that holds is
delivered, callbacks that are due run, and the client goes on connecting (socket.io
retries without end); breaks, expiries and requests are never obliged to happen or not
to. `RoundEnds` of Clang supposes that players keep playing.

`SnapshotsCatchUp` excuses a page that is closed, has given up, or is `Stuck`: its stored
session is dead, the handshake is refused, and healing sets only the cookie, which the
stored session goes before (`useTableSocket.ts:56-68`, `tables.gateway.ts:80-83`), so
that it is refused again.

## 4. What is proved

The theorems hold for every value of the constants that the assumptions named in the
modules allow: any number of seats, players, users, chips, cards, requests, messages and
rounds, where a run has two or three. Those assumptions are that sizes are natural numbers
and sets of seats are finite, that a request belongs to a table and the start of a chain is
not a request, that a game has a row (`GameRowAssumption`), that a raise is offered with a
least amount that is not above the greatest (`RangesAssumption`: `getLegalActions` takes
the lower of the two), that the strengths of hands are positive (`SettlementAssumption`; 0
is a hand that does not exist), and that a deck has four suits, every card once and, with
the board, cards enough for a hand each (`HandRankAssumption`). Every module with an
assumption is part of a run, which evaluates it.

| Module | Theorems |
|---|---|
| `PokerBetting_proofs` | `TypeCorrect`; `ChipsConserved` (a seat has, in front of it and in the pot, what it came with, and is all-in exactly when it has nothing left); `TurnAlwaysAnswerable`; `StakesAreMatched`; `OffersAreHonoured` |
| `PokerHand_proofs` | `HandInvariantHolds`, `HandTypesHold`; `DealsAreFair` (cards); `PayoutsAreFair` (side pots, boards, high and low, points, odd chips, side payments); `SettlementsPayByTheRules`; `ReplaysShowTheHand` |
| `PokerTable_proofs` | `HandIsSavedOnce`; `NobodyAwayIsAwaited`; `AutoPlayNeverThrows` |
| `Clang_proofs` | `RoundInOrder`, `DeciderCanDecide`, `InstantClangIsEarly`, `SettlementAddsUp`; with the server `TableInOrder`, `NobodyAwayIsAwaited`, `RoundIsSavedWhole`; `RoundIsShown` |
| `CardFlip_proofs` | `RoundInOrder`, `BeatTheLeader`; `TableInOrder`, `NobodyAwayIsAwaited`, `RoundIsSavedWhole`; `RoundIsShown` |
| `TableLock_proofs` | `LockTypeCorrect`, `LockExcludes`, `LockIsFair`; `LockIsAQueue` (TableLock implements TableQueue); `PagesListTheChat` |
| `TableParts_proofs` | seats: `TableInOrder`, `NobodySitsTwice`, `LedgerIsRight`, `DatabaseHoldsTheTable`, `CorrectionsAreNotInherited`, `PlayersStay`; games: `GamesInOrder`, `TimelineIsOne`, `SettingsAreKept`; records: `RecordIsTheTable`; the page: `PageFollows`; the evaluator: `BetterHandsWin` |

**Hypotheses.** Four conditions on a game definition are hypotheses of the theorems that
need them, and not assumptions of the modules, since an owner may set up a game that does
not meet them. All are true of every definition in `packages/game-engine/src/games`.

* `BlindsAreCalled` (`StakesAreMatched`, `OffersAreHonoured`): the first street is bet on,
  or there are no blinds but only an ante. Otherwise blinds would lie in the pot that nobody
  has to match.
* `BlindsFitTheBet` (`OffersAreHonoured`, and both theorems of PokerTable about players who
  are away): where the first street is bet on there is no ante and no small blind above the
  bet. Run `table_ante` shows what happens to a game that breaks it.
* `BettingOnceBegun` (the same two): streets after one that is bet on are bet on.
* `StreetsShow` (`ReplaysShowTheHand`): a later street that is bet on deals cards to the
  board. The log has no other entry for the start of a street.

**Inductive invariants**, and why the properties alone are not enough:

* *Betting*, `IInv`: that the next player exists when a street opens rests on two players
  being able to act, that the first is found from the button rests on the button being a
  seat, and that what is committed fits the stack rests on the types. `StakesInv` adds that
  players with chips are even but for the street being bet on (`EvenStakes`), that nobody has
  put in more than the bet (`NoOverpay`) and that the least raise can be called
  (`RaiseCovered`): a round closes on matched bets only because it opened on even ones.
* *A hand with cards*, `HandIInv`: the betting's invariant until the chips are paid, the cards
  counted throughout, and the accounts of the payout after it. The payout is summed pot by
  pot: the levels telescope (`GapsAddUp`), each way of scoring pays a pot in full
  (`PotPaysOut`), and what a level pays a seat comes from those who reached it
  (`WinningsAreFair`).
* *Settlement*, `SettleInv`: the payout, once there is one, is what `Winnings` says of hands that
  can be compared. The first half of `PaidByTheRules` follows from the payout of whole pots and
  from what dead pots hold. For the second, the best hand among those eligible takes a pot in
  every way of scoring (`PotGoesToTheBest`), so that a seat wins just the levels above the
  highest contribution of a better hand and up to its own (`SomeoneTops`, `TakenFirstIs`). The
  pots up to a level add up to what each player put in up to it (`BestCollectFirst`): that
  turns the sum over pots into the one over players which the property states.
* *Its replay*, `ReplayIInv`: the street the replay shows is never ahead of the hand's, and
  what it shows of commitments counts only when it is the street bet on (`FrameFollows`).
* *Players away*, `AwayInv`: where the request that holds the lock stands in `advanceHand`
  says how the hand may look (`Waits`), and a hand nobody is asked in has at most one player
  with chips or a street without betting.
* *Clang*, `RoundInv`: the player who threw has closed its chance of an instant Clang, the
  deck is exhausted exactly when the pile is empty, and a first emptied hand is remembered
  until the round ends. *Card Flip*, `RoundInv`: the seats passed over since the leader led
  are full, cards are somewhere, stakes only move. Around both, `TableInv`: the database is
  behind by the round until it is settled, and whoever decides is there unless the server is
  about to play for it.
* *Seats*, `IInv`: places are single, corrections and dealt seats have their players, the rows
  are the seats and the ledger balances against the stacks. *Games*, `GamesInv`: the row of
  the table is current, one round is live at most and numbers are below the counter.
* *Lock*, `IInv`: the chain of a table is linked in the order of arrival, its end is the last
  to have come, and a request that has started has an ended predecessor. Order and exclusion
  follow because all that came before are before it; the refinement because those ended are
  therefore the first. *Chat*, `ChatInv`: by the lock at most one message is stored and not
  emitted, and what is on the wire after the history is just what the history lacks.
* *Record*, `RecordInv`: one request at most is under way, it belongs to the hand on the table,
  and the row lacks only what it is going to write. That the replay's rabbit cards are the
  table's rests on the log naming the last street that dealt cards (`SameRabbit`).
* *The evaluator*, `DealInv`: both players have cards enough, off the board. The rest is about
  its functions. Counting the cards group by group leaves six shapes of a hand
  (`ShapesAre`), which with straights and flushes decide both its kind and the first number
  of its score (`KindIs`, `ScoreIs`); hands of one kind share their shape, so that the groups
  compare rank by rank as the fours, threes, pairs and singles do (`GroupsCompare`). Scores
  are therefore ordered as the rules order hands (`ScoresCompare`), the place of a hand is
  that order (`PlacesAre`), and a hand no worse than a low that qualifies qualifies
  (`LowerQualifies`).
* *Page*, `PageInv`: what is on the screen was at the server before, each reference is the
  screen's action or one shown earlier, and nothing is heard ahead of the screen. A key that
  is new to its reference is new to the page because an equal one would be of the same
  snapshot.

**Sums.** `Sums` proves what the others need of sums over finite sets, which the library
defines by recursion on sets: that the recursion has a solution (by counterexample of least
size), that a sum does not depend on the order, splits, is monotone, and of permutations
and orderings by rank. Induction is done over subsets of one set, since a theorem with an
operator as a parameter cannot be used here.

**Only model-checked.** All liveness, `SnapshotsCatchUp` included (the prover has no rules for
fairness), and the runs that expect a violation. In MCTables the properties of Clang appear
under other names (`ClangNeverStalls`, `ClangSavedOnceAndWhole`); the theorems are about
those of ClangTable that they instantiate.

## 5. Where the code and its words differ

* **An ante on top of blinds** (`table_ante`). The settings allow both. A blind has then
  put in more than `currentBet`; it is offered a check, since what is left to call is
  cut off at zero (`bettingRound.ts`, `getLegalActions`), and the check is refused, since
  it compares for equality (line 135). For a player who is away the server makes that
  play, the request throws, and the hand waits for somebody who is not there.
* **The last player with chips** (`betting_alone`). Streets are dealt without betting
  once fewer than two players can act, although the one who can may face an all-in
  bet it has not matched. It neither calls nor folds.
* **Chips of a dead pot** (`hand_dead`). A level only folded players paid into has
  nobody to go to, and its chips leave the table. It takes a fold by a player who is
  not facing a bet.
* **Replayed hands of Clang** (`clang_replay`). The "deal" entry of the log holds the
  array that is the hand, and a draw pushes onto it: the card drawn first is in the
  replayed hand from the start, and twice after the draw.
* **No way back for the owner** (`seats_back`). The page shows the button to come back
  only to players who do not own the table; the owner's menu can only send away.

Smaller things met on the way; the weightier ones are hazards in `PROJECT.json`, at their
lines. A call of
nothing is accepted where a check is meant (`bettingRound.ts:142`). Turns of Card Flip
come round again, unlike a comment in `state.ts` of that package suggests. The queue of
players leaving after the hand is kept by seat number and survives the player. New blinds
reach the first street of a hand but not the minimum bet of the later ones. Settings
saved from the dialog of one engine for a game of another put undefined values over the
defaults, and blinds saved for a game of four cards drop a bounty stored before. Of two
users who asked for one seat, the one who did not get it can neither take the request
back nor make another. Whoever takes a seat after a hand sees the cards its last player
held. The banner of an eat, the card on a pile and the chat toast may stay on the screen,
since the effect that would set their timer anew returns before it does. Two turns in a
row of one player are one to the chime and the reminders. The draw or throw that ends a
round of Clang or Card Flip is never the last entry of a snapshot, and is not heard.

## 6. What is not modelled

A crash between two writes of one request, and writes of the database that fail; display
names; Google sign-in; the parsing of messages and paging of lists; the drawing of the
page, its animations and timed displays other than sounds; pages without a table. The
card shuffle is every outcome. Names of hands are left out. What is modelled in part, or
not, and why, is in `PROJECT.json` part by part.

## 7. Plan

1. Recovery: TableSeats with a crash between the writes of a request; its abstract
   specification is TableSeats itself, where a request happens at once.
2. The queue of leaving players, and names after a restart, in TableSeats; timed displays
   in TableClient.
