----------------------------- MODULE HandRecord -----------------------------
(***************************************************************************)
(* A finished poker hand, at the table and in the database: its row is     *)
(* written when it ends, and patched when a player shows cards or looks at *)
(* the board cards that did not come (rabbit hunt), by requests that hold  *)
(* the table's lock, and by the replay page, which does not.  Players may  *)
(* leave and their seats be taken before the next hand, and the server may *)
(* be restarted between any two steps.                                     *)
(*                                                                         *)
(* Cards are abstracted to whose they are, board cards to the street they  *)
(* are dealt on.                                                           *)
(***************************************************************************)
EXTENDS Integers, FiniteSetsExt

CONSTANTS
  RecordSeats,
  Viewers,      \* users
  NoViewer,
  BoardStreets, \* the streets that deal board cards
  LastStreet,
  MaxHands      \* bound of the model: hand numbers

ASSUME RecordAssumption ==
  /\ NoViewer \notin Viewers
  /\ LastStreet \in Nat \ {0} /\ BoardStreets \subseteq 1 .. LastStreet
  /\ MaxHands \in Nat

VARIABLES
  occupant,     \* table.seats[s].playerId
  hand,         \* RuntimeTable.hand; its field unsaved is history: a request about it threw
  counter,      \* gameCounter
  rows,         \* the Hand rows, by hand number
  requested,    \* requested[v]: the request of v that is under way and holds the lock
  looking       \* looking[v]: the hand v's replay page has found without its rabbit cards

recordVars == <<occupant, hand, counter, rows, requested, looking>>

NoHand == [number |-> 0, phase |-> "none", dealt |-> {}, pots |-> {}, street |-> 0,
           named |-> {}, shown |-> {}, rabbit |-> {}, revealed |-> {}, unsaved |-> FALSE]
NoRow == [stored |-> FALSE]
Nothing == [step |-> "none"]

SeatOf(v) == {s \in RecordSeats : occupant[s] = v}
Complete == hand.phase = "complete"

\* Mutant: requests are not served one at a time.
LockFree_Always == TRUE

\* withTableLock: a request is served when no other is under way.
LockFree == \A v \in Viewers : requested[v] = Nothing

\* The board cards of the streets after k.
computeRabbitReveal(k) == {street \in BoardStreets : street > k}

\* mustShowSeats of the table, and mustShowSeatsFromResults for a row.
mustShowSeats(pots) == UNION {pot \in pots : Cardinality(pot) > 1}

\* The last street an entry of the log names.
deriveFinalStreetIndex(named) == Max({1} \cup named)

-----------------------------------------------------------------------------
(* Seats and hands.                                                        *)

SitDown(v, s) ==
  /\ LockFree /\ SeatOf(v) = {} /\ occupant[s] = NoViewer
  /\ occupant' = [occupant EXCEPT ![s] = v]
  /\ UNCHANGED <<hand, counter, rows, requested, looking>>

StandUp(s) ==
  /\ LockFree /\ occupant[s] # NoViewer /\ hand.phase # "live"
  /\ occupant' = [occupant EXCEPT ![s] = NoViewer]
  /\ UNCHANGED <<hand, counter, rows, requested, looking>>

DealHand ==
  /\ LockFree /\ hand.phase # "live" /\ counter < MaxHands
  /\ \E dealt \in SUBSET {s \in RecordSeats : occupant[s] # NoViewer} :
       /\ Cardinality(dealt) >= 2
       /\ hand' = [NoHand EXCEPT !.number = counter + 1, !.phase = "live", !.dealt = dealt]
  /\ counter' = counter + 1
  /\ UNCHANGED <<occupant, rows, requested, looking>>

\* The hand ends on a street, or with everything dealt; the log names the streets that
\* dealt cards or were bet on.  A deeper pot is for fewer seats, perhaps for one alone.
FinishHand(v) ==
  /\ LockFree /\ hand.phase = "live"
  /\ \E street \in 1 .. LastStreet, pots \in SUBSET (SUBSET hand.dealt \ {{}}),
        named \in SUBSET (1 .. LastStreet) :
       /\ pots # {} /\ (\A p, q \in pots : p \subseteq q \/ q \subseteq p)
       /\ {1} \cup (BoardStreets \cap 1 .. street) \subseteq named
       /\ named \subseteq 1 .. street
       /\ hand' = [hand EXCEPT !.phase = "complete", !.pots = pots, !.street = street, !.named = named]
  /\ requested' = [requested EXCEPT ![v] = [step |-> "persist"]]
  /\ UNCHANGED <<occupant, counter, rows, looking>>

\* persistHandResult: Hand.create, with the players who sit in the seats now.
persistHandResult(v) ==
  /\ requested[v].step = "persist"
  /\ rows' = [rows EXCEPT ![hand.number] =
       [stored |-> TRUE, players |-> [s \in hand.dealt |-> occupant[s]],
        results |-> hand.pots, named |-> hand.named, shown |-> {}, rabbit |-> {}]]
  /\ requested' = [requested EXCEPT ![v] = Nothing]
  /\ UNCHANGED <<occupant, hand, counter, looking>>

\* A request throws, the database having refused a read or a write.
RequestThrows(v) ==
  /\ requested[v] # Nothing
  /\ hand' = [hand EXCEPT !.unsaved = TRUE]
  /\ requested' = [requested EXCEPT ![v] = Nothing]
  /\ UNCHANGED <<occupant, counter, rows, looking>>

-----------------------------------------------------------------------------
(* Showing cards.                                                          *)

\* showCards sets the flag of the player, ...
ShowCards(v, s) ==
  /\ LockFree /\ Complete
  /\ s \in SeatOf(v) \cap hand.dealt /\ s \notin hand.shown
  /\ hand' = [hand EXCEPT !.shown = @ \cup {s}]
  /\ requested' = [requested EXCEPT ![v] = [step |-> "read", seat |-> s]]
  /\ UNCHANGED <<occupant, counter, rows, looking>>

\* ... reads the row, if there is one, ...
ReadPlayers(v) ==
  /\ requested[v].step = "read"
  /\ requested' = [requested EXCEPT ![v] =
       IF rows[hand.number].stored
       THEN [step |-> "write", players |-> rows[hand.number].shown \cup {requested[v].seat}]
       ELSE Nothing]
  /\ UNCHANGED <<occupant, hand, counter, rows, looking>>

\* ... and writes all its players back.
WritePlayers(v) ==
  /\ requested[v].step = "write"
  /\ rows' = [rows EXCEPT ![hand.number].shown = requested[v].players]
  /\ requested' = [requested EXCEPT ![v] = Nothing]
  /\ UNCHANGED <<occupant, hand, counter, looking>>

-----------------------------------------------------------------------------
(* Rabbit hunt.                                                            *)

\* The cards are worked out once, and then shown to each seat that asks.
revealRabbit(v, s) ==
  LET cards == computeRabbitReveal(hand.street)
  IN  /\ LockFree /\ Complete
      /\ s \in SeatOf(v) /\ s \notin hand.revealed /\ cards # {}
      /\ hand' = [hand EXCEPT !.rabbit = cards, !.revealed = @ \cup {s}]
      /\ requested' = IF hand.rabbit = {} THEN [requested EXCEPT ![v] = [step |-> "rabbit"]]
                      ELSE requested
      /\ UNCHANGED <<occupant, counter, rows, looking>>

\* updateMany, which finds no row when the hand was not stored.
WriteRabbit(v) ==
  /\ requested[v].step = "rabbit"
  /\ rows' = IF rows[hand.number].stored THEN [rows EXCEPT ![hand.number].rabbit = hand.rabbit]
             ELSE rows
  /\ requested' = [requested EXCEPT ![v] = Nothing]
  /\ UNCHANGED <<occupant, hand, counter, looking>>

\* Mutant: the replay reveals the cards of every street after the first.
ReplayedRabbit_All(row) == computeRabbitReveal(1)

ReplayedRabbit(row) == computeRabbitReveal(deriveFinalStreetIndex(row.named))

\* replayRevealRabbit takes no lock: it reads the row, ...
LookAtReplay(v, n) ==
  /\ looking[v] = 0 /\ rows[n].stored /\ rows[n].rabbit = {}
  /\ ReplayedRabbit(rows[n]) # {}
  /\ looking' = [looking EXCEPT ![v] = n]
  /\ UNCHANGED <<occupant, hand, counter, rows, requested>>

\* ... and writes the cards it has worked out into it.
replayRevealRabbit(v) ==
  /\ looking[v] # 0
  /\ rows' = [rows EXCEPT ![looking[v]].rabbit = ReplayedRabbit(rows[looking[v]])]
  /\ looking' = [looking EXCEPT ![v] = 0]
  /\ UNCHANGED <<occupant, hand, counter, requested>>

-----------------------------------------------------------------------------
RestartHands ==
  /\ hand' = NoHand
  /\ counter' = Max({0} \cup {n \in 1 .. MaxHands : rows[n].stored})
  /\ requested' = [v \in Viewers |-> Nothing] /\ looking' = [v \in Viewers |-> 0]
  /\ UNCHANGED <<occupant, rows>>

RecordInit ==
  /\ occupant = [s \in RecordSeats |-> NoViewer]
  /\ hand = NoHand /\ counter = 0
  /\ rows = [n \in 1 .. MaxHands |-> NoRow]
  /\ requested = [v \in Viewers |-> Nothing] /\ looking = [v \in Viewers |-> 0]

RecordNext ==
  \/ \E v \in Viewers :
       \/ \E s \in RecordSeats : SitDown(v, s) \/ ShowCards(v, s) \/ revealRabbit(v, s)
       \/ FinishHand(v) \/ persistHandResult(v) \/ RequestThrows(v)
       \/ ReadPlayers(v) \/ WritePlayers(v) \/ WriteRabbit(v)
       \/ \E n \in 1 .. MaxHands : LookAtReplay(v, n)
       \/ replayRevealRabbit(v)
  \/ \E s \in RecordSeats : StandUp(s)
  \/ DealHand
  \/ RestartHands

-----------------------------------------------------------------------------
(* What a viewer sees of the cards of seat s.                              *)

\* buildTableSnapshot asks who sits there now, ...
SeenAtTable(v, s) == occupant[s] = v \/ (Complete /\ s \in mustShowSeats(hand.pots) \cup hand.shown)

\* ... getLedger and the replays who sat there then.
SeenInLog(v, s, row) == row.players[s] = v \/ s \in mustShowSeats(row.results) \cup row.shown

\* When no request is under way, the log of the hand on the table says what the table
\* says, unless the database refused a patch: it shows the same cards to all
\* viewers, to those of the seats whose players have stayed, and the rabbit cards, whether
\* they were asked for at the table or in the replay, are the same, the ones that would
\* have come after the street the hand ended on.
RecordMatchesTable ==
  LET row == rows[hand.number]
  IN  Complete /\ LockFree /\ row.stored /\ ~hand.unsaved =>
        /\ \A s \in hand.dealt, v \in Viewers :
             occupant[s] = row.players[s] => SeenAtTable(v, s) = SeenInLog(v, s, row)
        /\ hand.rabbit # {} => row.rabbit = hand.rabbit
        /\ row.rabbit \in {{}, computeRabbitReveal(hand.street)}
=============================================================================
