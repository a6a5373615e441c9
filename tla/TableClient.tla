---------------------------- MODULE TableClient ----------------------------
(***************************************************************************)
(* The page of one player at a table (page.tsx, its sound hooks and the    *)
(* raise panel of ActionControls) against the snapshots it is sent.  The   *)
(* page draws the newest snapshot and may skip any number of older ones;   *)
(* an effect compares what it drew with the references it has kept, so     *)
(* that a broadcast about something else repeats no sound.                 *)
(***************************************************************************)
EXTENDS Integers, Sequences, FiniteSets

CONSTANTS
  PagePlayers,  \* the seats
  Me,           \* the viewer's seat
  Ranges,       \* what getLegalActions may offer: [min, max, allIn]
  MaxGames, MaxLog    \* bounds

ASSUME MeAssumption == Me \in PagePlayers
\* getLegalActions lowers the least raise to what the stack allows.
ASSUME RangesAssumption == \A r \in Ranges : r.min \in Int /\ r.max \in Int /\ r.min <= r.max

Nobody == 0
NothingOn == [kind |-> "none", number |-> 0, log |-> <<>>, turn |-> Nobody,
              range |-> {}, over |-> FALSE, called |-> FALSE, net |-> 0]

VARIABLES
  current,      \* the hand or round at the server
  awayNow,      \* who is away
  screen,       \* the hand or round the page shows
  ref,          \* the references of the hooks
  winTimer,     \* the round whose win sound is due, or 0
  reminders,    \* the reminders that are due
  panel,        \* the raise panel: [open, input]
  heard, twice, \* history: the sounds that were played, and played again
  seen, mute,   \* history: the actions shown as the latest, and those that are silent
  sent          \* history: the last bet sent and the range then shown

serverSide == <<current, awayNow>>
clientHistory == <<heard, twice, seen, mute>>
clientVars == <<serverSide, screen, ref, winTimer, reminders, panel, clientHistory, sent>>

Kinds == {"poker", "clang", "cardflip"}
\* Cards dealt have nobody behind them; a redraw makes no sound.  "other" stands for the
\* entries a view of Clang or Card Flip does not show, such as a pass or the end.
ActionTypes == [poker |-> {"check", "dealCommunityCards", "redraw"},
                clang |-> {"draw", "play", "eat", "other"}, cardflip |-> {"draw"}]

-----------------------------------------------------------------------------
(* The table, as the page may come to see it.                              *)

GameOn == current.kind # "none" /\ ~current.over
RangesFor(kind, s) == IF kind = "poker" /\ s = Me THEN {{}} \cup {{r} : r \in Ranges} ELSE {{}}

\* The next hand or round of any game (bound MaxRounds).
BeginGame ==
  /\ ~GameOn /\ current.number < MaxGames
  /\ \E kind \in Kinds, s \in PagePlayers : \E r \in RangesFor(kind, s) :
       current' = [NothingOn EXCEPT !.kind = kind, !.number = current.number + 1,
                              !.turn = s, !.range = r]
  /\ UNCHANGED awayNow

Logged(type) ==
  Append(current.log,
         [type |-> type, seat |-> IF type = "dealCommunityCards" THEN Nobody ELSE current.turn])

\* Somebody acts, or cards are dealt, and it is anybody's turn (bound MaxLog).
ActionLogged ==
  /\ GameOn /\ Len(current.log) < MaxLog
  /\ \E type \in ActionTypes[current.kind], s \in PagePlayers : \E r \in RangesFor(current.kind, s) :
       current' = [current EXCEPT !.log = Logged(type), !.turn = s, !.range = r]
  /\ UNCHANGED awayNow

\* A hand of poker ends with an action or with cards dealt; a round of the other games
\* logs its end in the step of the last action, which no view shows therefore.
EndGame ==
  /\ GameOn
  /\ \E called \in BOOLEAN, net \in {-1, 1},
        type \in IF current.kind = "poker" THEN ActionTypes["poker"] \ {"redraw"} ELSE {"other"} :
       current' = [current EXCEPT !.over = TRUE, !.turn = Nobody, !.range = {}, !.net = net,
                            !.log = Logged(type), !.called = called /\ current.kind = "clang"]
  /\ UNCHANGED awayNow

AwayChanges == \E s \in PagePlayers : awayNow' = (awayNow \ {s}) \cup ({s} \ awayNow) /\ UNCHANGED current

TableMoves ==
  /\ BeginGame \/ ActionLogged \/ EndGame \/ AwayChanges
  /\ UNCHANGED <<screen, ref, winTimer, reminders, panel, clientHistory, sent>>

-----------------------------------------------------------------------------
(* What a render does (the effects of the hooks, in one pass).             *)

\* isMyTurnForSound
MyTurn(g) == g.turn = Me

\* The reference each hook keeps: one for poker, one for each kind of Clang action.
Hook(g) == IF g.kind = "clang" THEN g.log[Len(g.log)].type ELSE g.kind

\* Mutant: the reference is the number of the action alone.
ActionKey_IndexOnly(g) == <<0, Len(g.log)>>

ActionKey(g) == <<g.number, Len(g.log)>>

\* lastAction, lastPlay, lastDraw, lastEat or lastDrawnCard is there.
ActionShown(g) == g.log # <<>> /\ g.log[Len(g.log)].type # "other"

NewAction(g) == ActionShown(g) /\ ref[Hook(g)] # ActionKey(g)

ActorIsAway(g, a) == g.log[Len(g.log)].seat \in a

\* useHandActionSounds
PokerSounds(g, a) == g.log[Len(g.log)].type # "redraw" /\ ~ActorIsAway(g, a)
\* useClangDrawSound, useClangPlaySound, useEatSound
ClangDrawSounds(g, a) == g.log[Len(g.log)].seat = Me /\ ~ActorIsAway(g, a)
ClangPlaySounds(g, a) == ~ActorIsAway(g, a)
EatSounds(g, a) == TRUE
\* useCardFlipDrawSound
CardFlipDrawSounds(g, a) == ~ActorIsAway(g, a)

Sounds(g, a) ==
  CASE g.kind = "poker" -> PokerSounds(g, a)
    [] Hook(g) = "draw" -> ClangDrawSounds(g, a)
    [] Hook(g) = "play" -> ClangPlaySounds(g, a)
    [] Hook(g) = "eat" -> EatSounds(g, a)
    [] OTHER -> CardFlipDrawSounds(g, a)

\* useGameStartSound
Starts(g) == g.kind # "none" /\ ref.start # g.number
\* useClangCalledSound: a round that was called, and not only ran out
ClangCalled(g) == g.called /\ ref.called # g.number
\* netForSeat; a hand or round that was won is the key of useWinSound
Won(g) == g.over /\ g.net > 0
WinKey(g) == IF Won(g) THEN g.number ELSE 0

\* The timer of useWinSound: cleared when what it depends on changes, set for a new win.
WinTimer(g) ==
  IF WinKey(g) = WinKey(screen) THEN winTimer
  ELSE IF Won(g) /\ ref.win # g.number THEN g.number ELSE 0

\* useTurnReminderSound: both are set when the turn comes, and cleared when it goes.
Reminders(g) ==
  IF ~MyTurn(g) THEN {} ELSE IF MyTurn(screen) THEN reminders ELSE {1, 2}

Hear(events) == heard' = heard \cup events /\ twice' = twice \cup (heard \cap events)

\* The newest snapshot is drawn, once more if nothing is new in it.
Render ==
  LET g == current
      sounds == NewAction(g) /\ Sounds(g, awayNow)
  IN  /\ screen' = g
      /\ ref' = [h \in DOMAIN ref |->
                   CASE h = "start" -> IF g.kind = "none" THEN 0 ELSE g.number
                     [] h = "called" /\ g.called -> g.number
                     [] h = "win" /\ Won(g) -> g.number
                     [] NewAction(g) /\ h = Hook(g) -> ActionKey(g)
                     [] OTHER -> ref[h]]
      /\ Hear((IF sounds THEN {<<"action", g.number, Len(g.log)>>} ELSE {})
                \cup (IF Starts(g) THEN {<<"start", g.number, 0>>} ELSE {})
                \cup (IF ClangCalled(g) THEN {<<"called", g.number, 0>>} ELSE {}))
      /\ winTimer' = WinTimer(g)
      /\ reminders' = Reminders(g)
      /\ panel' = IF MyTurn(g) /\ g.kind = "poker" THEN panel ELSE [panel EXCEPT !.open = FALSE]
      /\ seen' = seen \cup (IF ~ActionShown(g) THEN {} ELSE {<<g.number, Len(g.log)>>})
      /\ mute' = IF NewAction(g) /\ ~sounds THEN mute \cup {<<g.number, Len(g.log)>>} ELSE mute
      /\ UNCHANGED <<serverSide, sent>>

\* A timer runs out.
WinSound ==
  /\ winTimer # 0
  /\ Hear({<<"win", winTimer, 0>>})
  /\ winTimer' = 0
  /\ UNCHANGED <<serverSide, screen, ref, reminders, panel, seen, mute, sent>>

ReminderSound ==
  /\ reminders # {}
  /\ reminders' = IF 1 \in reminders THEN reminders \ {1} ELSE {}
  /\ UNCHANGED <<serverSide, screen, ref, winTimer, panel, clientHistory, sent>>

-----------------------------------------------------------------------------
(* The raise panel of ActionControls.                                      *)

\* What the viewer is offered on the screen: a range when a bet or raise is.
Offer == IF screen.kind = "poker" /\ MyTurn(screen) THEN screen.range ELSE {}
PanelOnly == UNCHANGED <<serverSide, screen, ref, winTimer, reminders, clientHistory>>

\* toggleRaise, also by its key: opened with the least amount.
ToggleRaise ==
  \E r \in Offer :
    /\ panel' = [open |-> ~panel.open, input |-> IF panel.open THEN panel.input ELSE r.min]
    /\ PanelOnly /\ UNCHANGED sent

\* A tap outside closes it.
TapOutside ==
  panel.open /\ panel' = [panel EXCEPT !.open = FALSE] /\ PanelOnly /\ UNCHANGED sent

\* An amount is typed, or chosen as a fraction of the pot, which is clamped to the range.
EnterAmount ==
  /\ panel.open
  /\ \E to \in UNION {r.min .. r.max + 1 : r \in Ranges} : panel' = [panel EXCEPT !.input = to]
  /\ PanelOnly /\ UNCHANGED sent

IsValidRaise(r) == panel.input \in r.min .. r.max

SubmitRaise ==
  \E r \in Offer :
    /\ panel.open /\ IsValidRaise(r)
    /\ sent' = [to |-> panel.input, range |-> r]
    /\ panel' = [panel EXCEPT !.open = FALSE]
    /\ PanelOnly

\* All-in is offered only where the greatest raise is all-in.
SubmitAllIn ==
  \E r \in Offer :
    /\ panel.open /\ r.max >= r.allIn
    /\ sent' = [to |-> r.max, range |-> r]
    /\ panel' = [panel EXCEPT !.open = FALSE]
    /\ PanelOnly

-----------------------------------------------------------------------------
\* What the page starts from.
NoRange == [min |-> 0, max |-> 0, allIn |-> 0]

ClientInit ==
  /\ current = NothingOn /\ awayNow = {}
  /\ screen = NothingOn
  /\ ref = [h \in {"poker", "draw", "play", "eat", "cardflip", "start", "called", "win"} |->
              IF h \in {"start", "called", "win"} THEN 0 ELSE <<0, 0>>]
  /\ winTimer = 0 /\ reminders = {}
  /\ panel = [open |-> FALSE, input |-> 0]
  /\ heard = {} /\ twice = {} /\ seen = {} /\ mute = {}
  /\ sent = [to |-> 0, range |-> NoRange]

Controls == ToggleRaise \/ TapOutside \/ EnterAmount \/ SubmitRaise \/ SubmitAllIn

ClientNext == TableMoves \/ Render \/ WinSound \/ ReminderSound \/ Controls

-----------------------------------------------------------------------------
(* Properties.                                                             *)

\* However many snapshots a page skips or is sent again: an action it comes to show is
\* heard exactly once, and never when it was made for somebody away or is a draw of
\* another's; a hand or round starts once; a round that was called is heard to be; a win
\* on the screen is heard or about to be, once, and no loss ever is; a reminder is due
\* only in one's turn; and what the raise panel sends lies in the range it was shown.
PageFollowsTable ==
  /\ twice = {}
  /\ {<<e[2], e[3]>> : e \in {x \in heard : x[1] = "action"}} = seen \ mute
  /\ screen.called => <<"called", screen.number, 0>> \in heard
  /\ LET n == screen.number IN
       IF Won(screen) THEN (winTimer = n) # (<<"win", n, 0>> \in heard)
                           ELSE winTimer = 0 /\ <<"win", n, 0>> \notin heard
  /\ (reminders # {} \/ panel.open) => MyTurn(screen)
  /\ sent.to \in sent.range.min .. sent.range.max
=============================================================================
