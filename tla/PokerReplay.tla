----------------------------- MODULE PokerReplay -----------------------------
(***************************************************************************)
(* The replay of a stored hand (buildPokerReplay in                        *)
(* apps/server/src/tables/replay/poker-replay.ts) beside the hand it is    *)
(* about.  Neither stacks nor commitments are stored per action: the replay*)
(* starts from the stacks before the hand and works everything out from the*)
(* log, where a post or a call has the chips added and a bet or a raise the*)
(* total it is to.  It is folded here over the entries while the engine    *)
(* writes them.                                                            *)
(***************************************************************************)
EXTENDS PokerHand

VARIABLE frame    \* the accumulators of the replay after the last entry so far

replayVars == <<vars, frame>>

Nothing == [s \in Seats |-> 0]

\* "Hand begins": the players' stacks from before the hand, captured in startHand.
FirstFrame(before) ==
  [street |-> 1, committed |-> Nothing, contributed |-> Nothing, hole |-> Nothing,
   stack |-> before, folded |-> {}]

AddChips(f, s, amount) ==
  [f EXCEPT !.committed[s] = @ + amount, !.contributed[s] = @ + amount, !.stack[s] = @ - amount]

\* Entries "post", one or two for a seat, and "dealHoleCards".
PostsAndDeal(f, posted) ==
  [f EXCEPT !.committed = posted, !.contributed = posted,
            !.stack = [s \in Seats |-> @[s] - posted[s]],
            !.hole = [s \in Seats |-> IF s \in dealt' THEN HoleCards ELSE 0]]

CallEntry(f, s, amount) == AddChips(f, s, amount)

\* The entry has the total a bet or raise is to; what it added is worked out.
RaiseEntry(f, s, to) == AddChips(f, s, to - f.committed[s])

FoldEntry(f, s) == [f EXCEPT !.folded = @ \cup {s}]

\* Mutant: the commitments of the street before are kept.
NewStreet_KeepsBets(f, k) == [f EXCEPT !.street = k]

\* The first entry that names another street starts that street's commitments.
NewStreet(f, k) == IF f.street = k THEN f ELSE [f EXCEPT !.street = k, !.committed = Nothing]

\* What dealing the next street logs, if anything: its board cards, then a redraw for the
\* seats that drew cards.
StreetEntries(f) ==
  LET drawn == [s \in Seats |-> Most(0, hole'[s] - hole[s])]
      quiet == street' = street \/ street' > Len(StreetBets)
                 \/ (Community[street'] = 0 /\ drawn = Nothing)
  IN  IF quiet THEN f
      ELSE [NewStreet(f, street') EXCEPT !.hole = [s \in Seats |-> @[s] + drawn[s]]]

-----------------------------------------------------------------------------
\* applyAction logs the action of s first, which names the street bet on, then the street
\* it may lead to.
ActionEntry(s) ==
  LET added == contributed'[s] - contributed[s]
      owed == currentBet - committed[s]
      f == NewStreet(frame, street)
  IN  IF added > owed THEN RaiseEntry(f, s, committed[s] + added)
                      ELSE CallEntry(f, s, added)

ReplayInit == HandInit /\ frame = FirstFrame(startStack)

ReplayNext ==
  \/ StartHand /\ frame' = PostsAndDeal(FirstFrame(startStack'), contributed')
  \/ StartHandThrows /\ UNCHANGED frame
  \/ \E s \in Seats : \/ FoldHand(s) /\ frame' = StreetEntries(FoldEntry(NewStreet(frame, street), s))
                      \/ OtherAction(s) /\ frame' = StreetEntries(ActionEntry(s))
  \/ DealNextStreet /\ frame' = StreetEntries(frame)
  \/ (EvaluateShowdown \/ HandRest) /\ UNCHANGED frame

ReplaySpec == ReplayInit /\ [][ReplayNext]_replayVars

-----------------------------------------------------------------------------
\* At every step the replay shows what the table showed: who had folded, what each
\* seat had put in, its stack, whether it was all-in and how many cards an unfolded
\* seat held; and, as long as somebody was to act, what was committed on the street.
ReplayShowsTheHand ==
  phase # "none" =>
    /\ frame.folded = folded
    /\ allIn = {s \in dealt : frame.stack[s] <= 0 /\ frame.contributed[s] > 0}
    /\ \A s \in dealt :
         /\ frame.contributed[s] = contributed[s]
         /\ phase # "complete" => frame.stack[s] = stack[s]
         /\ inRound => frame.committed[s] = committed[s]
         /\ s \notin folded => frame.hole[s] = hole[s]
=============================================================================
