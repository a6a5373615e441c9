--------------------------- MODULE CardFlip_proofs ---------------------------
(* Proofs about CardFlipRound, CardFlipTable and CardFlipReplay, for every number of players, *)
(* deck, cap on a hand and stake.                                                             *)
EXTENDS CardFlipReplay, Sums

-----------------------------------------------------------------------------
(* The invariant of a round.                                               *)

\* The cards of everybody's hand.
CardsHeld(h) == SumFunctionOnSet([p \in Players |-> Size(h[p])], Players)

\* The seat so many places after p.
SeatAfter(p, step) == (p + step) % NumPlayers

\* The lead passes over nobody: whoever sits between the leader and the turn has no more to draw.
PassedAreFull(h, lead, p) ==
  \A s \in 1 .. NumPlayers - 1 :
    SeatAfter(lead, s) = p => \A t \in 1 .. s - 1 : Full(h, SeatAfter(lead, t))

\* The cards are where they can be found again: in the piles, and in hands under the cap.
CardsAreSomewhere ==
  /\ piles[0] + piles[1] + piles[2] = Size(rest)
  /\ Size(rest) + CardsHeld(hand) = Size(Deck)
  /\ \A p \in Players : Size(hand[p]) <= CardsPerPlayer

\* Stakes and bonuses move chips once, when the round is over.
StakesOnlyMove ==
  /\ phase = "turn" => stack = [p \in Players |-> StartStack]
  /\ SumFunction(stack) = NumPlayers * StartStack

\* The whole of it; before anybody leads nobody has drawn.
RoundInv ==
  /\ TypeOK
  /\ LeadIsFair
  /\ leader = NoPlayer => phase = "turn" /\ \A p \in Players : hand[p] = NoCards
  /\ leader # NoPlayer /\ phase = "turn" => PassedAreFull(hand, leader, turn)
  /\ CardsAreSomewhere
  /\ StakesOnlyMove

-----------------------------------------------------------------------------
(* Scores.                                                                 *)

\* A score is six naturals.
IsScore(s) == \A i \in 0 .. 5 : s[i] \in Nat

\* No hand is stronger than itself.
LEMMA HigherIsStrict ==
  ASSUME NEW s, IsScore(s)
  PROVE  ~Higher(s, s)
BY DEF Higher, IsScore

\* What is higher than a higher score is higher still.
LEMMA HigherIsTransitive ==
  ASSUME NEW s, NEW t, NEW u, IsScore(s), IsScore(t), IsScore(u), Higher(s, t), Higher(t, u)
  PROVE  Higher(s, u)
<1>1. PICK i \in 0 .. 5 : s[i] > t[i] /\ \A j \in 0 .. i - 1 : s[j] = t[j]
  BY DEF Higher
<1>2. PICK k \in 0 .. 5 : t[k] > u[k] /\ \A j \in 0 .. k - 1 : t[j] = u[j]
  BY DEF Higher
<1> DEFINE m == IF i <= k THEN i ELSE k
<1>3. m \in 0 .. 5 /\ m <= i /\ m <= k
  OBVIOUS
<1>4. \A j \in 0 .. m - 1 : s[j] = t[j] /\ t[j] = u[j]
  BY <1>1, <1>2, <1>3
<1>5. s[m] > u[m]
  <2>1. s[m] \in Int /\ t[m] \in Int /\ u[m] \in Int
    BY <1>3 DEF IsScore
  <2>2. CASE i < k
    BY <1>1, <1>2, <2>1, <2>2
  <2>3. CASE i = k
    BY <1>1, <1>2, <2>1, <2>3
  <2>4. CASE k < i
    BY <1>1, <1>2, <2>1, <2>4
  <2>5. QED
    BY <2>2, <2>3, <2>4
<1>6. QED
  BY <1>3, <1>4, <1>5 DEF Higher

\* What partialHandScore returns is a score, whatever the hand.
LEMMA PartialScoresAreScores ==
  \A h : IsScore(partialHandScore(h))
<1> SUFFICES ASSUME NEW h, NEW i \in 0 .. 5 PROVE partialHandScore(h)[i] \in Nat
  BY DEF IsScore
<1> DEFINE At == {g.rank : g \in {k \in Groups(h) : k.place = i}}
           rank == CHOOSE r \in At : TRUE
<1>1. partialHandScore(h)[i] = IF i = 0 THEN Category(h) ELSE IF At = {} THEN 0 ELSE rank
  BY Zenon DEF partialHandScore
<1>2. Category(h) \in Nat
  BY DEF Category
<1>3. At \subseteq Ranks
  <2> SUFFICES ASSUME NEW x \in At PROVE x \in Ranks
    OBVIOUS
  <2>1. PICK g \in Groups(h) : x = g.rank
    OBVIOUS
  <2>2. PICK r \in RanksWith(h, 1) :
          g = [rank |-> r,
               place |-> 1 + Cardinality({q \in Ranks : h[q] > h[r] \/ (h[q] = h[r] /\ q > r)})]
    BY Zenon DEF Groups
  <2>3. g.rank = r
    BY <2>2, Zenon
  <2>4. QED
    BY <2>1, <2>2, <2>3 DEF RanksWith
<1>4. At # {} => rank \in Ranks
  BY <1>3
<1>5. QED
  BY <1>1, <1>2, <1>4 DEF Ranks

-----------------------------------------------------------------------------
(* Seats in turn order.                                                    *)

\* Counting seats around the table goes past the last one at most once.
LEMMA SeatAfterIs ==
  ASSUME NEW p \in Players, NEW s \in 0 .. NumPlayers - 1
  PROVE  SeatAfter(p, s) = IF p + s < NumPlayers THEN p + s ELSE p + s - NumPlayers
BY PlayersAssumption DEF SeatAfter, Players

\* Every seat is so many places after p, and p itself after a whole round.
LEMMA SeatsAreInARing ==
  ASSUME NEW p \in Players
  PROVE  /\ \A s \in 0 .. NumPlayers - 1 : SeatAfter(p, s) \in Players
         /\ \A s, t \in 0 .. NumPlayers - 1 : SeatAfter(p, s) = SeatAfter(p, t) => s = t
         /\ SeatAfter(p, 0) = p
         /\ \A q \in Players \ {p} : \E s \in 1 .. NumPlayers - 1 : q = SeatAfter(p, s)
<1>1. NumPlayers \in Nat /\ NumPlayers >= 2 /\ p \in Int /\ 0 <= p /\ p < NumPlayers
  BY PlayersAssumption DEF Players
<1>2. \A s \in 0 .. NumPlayers - 1 :
        SeatAfter(p, s) = IF p + s < NumPlayers THEN p + s ELSE p + s - NumPlayers
  BY SeatAfterIs
<1>3. \A s \in 0 .. NumPlayers - 1 : SeatAfter(p, s) \in Players
  BY <1>1, <1>2 DEF Players
<1>4. \A s, t \in 0 .. NumPlayers - 1 : SeatAfter(p, s) = SeatAfter(p, t) => s = t
  BY <1>1, <1>2
<1>5. SeatAfter(p, 0) = p
  BY <1>1, <1>2
<1>6. ASSUME NEW q \in Players \ {p} PROVE \E s \in 1 .. NumPlayers - 1 : q = SeatAfter(p, s)
  <2>1. q \in Int /\ 0 <= q /\ q < NumPlayers /\ q # p
    BY <1>1 DEF Players
  <2>2. CASE q > p
    <3>1. q - p \in 1 .. NumPlayers - 1 /\ q = SeatAfter(p, q - p)
      BY <1>1, <1>2, <2>1, <2>2
    <3>2. QED
      BY <3>1
  <2>3. CASE q < p
    <3>1. q - p + NumPlayers \in 1 .. NumPlayers - 1 /\ q = SeatAfter(p, q - p + NumPlayers)
      BY <1>1, <1>2, <2>1, <2>3
    <3>2. QED
      BY <3>1
  <2>4. QED
    BY <2>1, <2>2, <2>3
<1>7. QED
  BY <1>3, <1>4, <1>5, <1>6

\* Places add up, as long as they do not come round again.
LEMMA SeatAfterSeat ==
  ASSUME NEW p \in Players, NEW a \in Nat, NEW b \in Nat, a + b < NumPlayers
  PROVE  SeatAfter(SeatAfter(p, a), b) = SeatAfter(p, a + b)
<1>1. NumPlayers \in Nat /\ NumPlayers >= 2 /\ p \in Int /\ 0 <= p /\ p < NumPlayers
      /\ a \in 0 .. NumPlayers - 1 /\ b \in 0 .. NumPlayers - 1 /\ a + b \in 0 .. NumPlayers - 1
  BY PlayersAssumption DEF Players
<1>2. SeatAfter(p, a) \in Players
  BY <1>1, SeatsAreInARing
<1>3. /\ SeatAfter(p, a) = IF p + a < NumPlayers THEN p + a ELSE p + a - NumPlayers
      /\ SeatAfter(p, a + b) = IF p + (a + b) < NumPlayers THEN p + (a + b)
                               ELSE p + (a + b) - NumPlayers
      /\ SeatAfter(SeatAfter(p, a), b) = IF SeatAfter(p, a) + b < NumPlayers
                                         THEN SeatAfter(p, a) + b
                                         ELSE SeatAfter(p, a) + b - NumPlayers
  BY <1>1, <1>2, SeatAfterIs
<1>4. QED
  BY <1>1, <1>3

\* The turn passes to the first seat after p with cards to draw, if another than p has any.
LEMMA NextToDrawIsFirst ==
  ASSUME NEW hands, NEW p \in Players, NEW e \in 1 .. NumPlayers - 1,
         ~Full(hands, SeatAfter(p, e))
  PROVE  \E s \in 1 .. e :
           /\ NextToDraw(hands, p) = SeatAfter(p, s)
           /\ ~Full(hands, SeatAfter(p, s))
           /\ \A t \in 1 .. s - 1 : Full(hands, SeatAfter(p, t))
<1> DEFINE Free == {s \in 1 .. e : ~Full(hands, SeatAfter(p, s))}
           IsFirst(s) == /\ ~Full(hands, SeatAfter(p, s))
                         /\ \A t \in 1 .. s - 1 : Full(hands, SeatAfter(p, t))
           step == CHOOSE s \in 1 .. NumPlayers : IsFirst(s)
<1>1. NumPlayers \in Nat /\ e \in Nat /\ e >= 1 /\ e < NumPlayers
  BY PlayersAssumption
<1>2. Free \subseteq Nat /\ e \in Free
  BY <1>1
<1>3. PICK m \in Free : \A n \in Free : m <= n
  BY <1>2, LeastNatural
<1>4. m \in 1 .. NumPlayers /\ m <= e /\ IsFirst(m)
  <2>1. \A t \in 1 .. m - 1 : t \in 1 .. e /\ t < m
    BY <1>1, <1>3
  <2>2. \A t \in 1 .. m - 1 : t \notin Free
    BY <1>3, <2>1
  <2>3. \A t \in 1 .. m - 1 : Full(hands, SeatAfter(p, t))
    BY <2>1, <2>2
  <2>4. QED
    BY <1>1, <1>3, <2>3
<1>5. step \in 1 .. NumPlayers /\ IsFirst(step)
  <2> HIDE DEF IsFirst
  <2>1. QED
    BY <1>4, Zenon
<1>6. step <= e
  <2>1. ~(e < step)
    BY <1>1, <1>5
  <2>2. QED
    BY <1>1, <1>5, <2>1
<1>7. NextToDraw(hands, p) = SeatAfter(p, step)
  BY Zenon DEF NextToDraw, SeatAfter
<1> HIDE DEF step
<1>8. step \in 1 .. e
  BY <1>1, <1>5, <1>6
<1>9. QED
  BY <1>5, <1>7, <1>8

\* When p can draw no more the turn passes over nobody who can, to a seat before the leader's.
LEMMA TurnPassesOverTheFull ==
  ASSUME NEW hands, NEW lead \in Players, NEW p \in Players,
         p # lead => PassedAreFull(hands, lead, p) /\ Full(hands, p),
         othersStillInPlay(hands, lead)
  PROVE  LET next == NextToDraw(hands, p)
         IN  /\ next \in Players \ {lead} /\ ~Full(hands, next)
             /\ PassedAreFull(hands, lead, next)
<1> DEFINE next == NextToDraw(hands, p)
<1>1. NumPlayers \in Nat /\ NumPlayers >= 2
  BY PlayersAssumption
<1>2. PICK d \in 0 .. NumPlayers - 1 : p = SeatAfter(lead, d) /\ (d = 0 <=> p = lead)
  <2>1. CASE p = lead
    BY <1>1, <2>1, SeatsAreInARing
  <2>2. CASE p # lead
    <3>1. PICK d \in 1 .. NumPlayers - 1 : p = SeatAfter(lead, d)
      BY <2>2, SeatsAreInARing
    <3>2. QED
      BY <1>1, <2>2, <3>1
  <2>3. QED
    BY <2>1, <2>2
<1>3. PICK k \in 1 .. NumPlayers - 1 : ~Full(hands, SeatAfter(lead, k))
  <2>1. PICK q \in Players \ {lead} : ~Full(hands, q)
    BY DEF othersStillInPlay
  <2>2. PICK k \in 1 .. NumPlayers - 1 : q = SeatAfter(lead, k)
    BY <2>1, SeatsAreInARing
  <2>3. QED
    BY <2>1, <2>2
<1>4. \A t \in 1 .. d : Full(hands, SeatAfter(lead, t))
  <2>1. CASE d = 0
    BY <2>1
  <2>2. CASE d # 0
    <3>1. d \in 1 .. NumPlayers - 1
      BY <1>1, <2>2
    <3>2. \A t \in 1 .. d - 1 : Full(hands, SeatAfter(lead, t))
      BY <1>2, <2>2, <3>1, Zenon DEF PassedAreFull
    <3>3. Full(hands, SeatAfter(lead, d))
      BY <1>2, <2>2
    <3>4. \A t \in 1 .. d : t = d \/ t \in 1 .. d - 1
      BY <3>1
    <3>5. QED
      BY <3>2, <3>3, <3>4, Zenon
  <2>3. QED
    BY <2>1, <2>2
<1>5. k > d
  BY <1>3, <1>4
<1>6. k - d \in 1 .. NumPlayers - 1
  BY <1>1, <1>5
<1>7. \A b \in Nat : d + b < NumPlayers => SeatAfter(p, b) = SeatAfter(lead, d + b)
  BY <1>2, SeatAfterSeat
<1>8. SeatAfter(p, k - d) = SeatAfter(lead, k)
  <2>1. k - d \in Nat /\ d + (k - d) = k /\ k < NumPlayers
    BY <1>1, <1>5
  <2>2. SeatAfter(p, k - d) = SeatAfter(lead, d + (k - d))
    BY <1>7, <2>1
  <2>3. QED
    BY <2>1, <2>2
<1>9. PICK s \in 1 .. k - d :
        /\ next = SeatAfter(p, s)
        /\ ~Full(hands, SeatAfter(p, s))
        /\ \A t \in 1 .. s - 1 : Full(hands, SeatAfter(p, t))
  BY <1>3, <1>6, <1>8, NextToDrawIsFirst
<1>10. d + s \in 1 .. NumPlayers - 1 /\ next = SeatAfter(lead, d + s)
  BY <1>1, <1>5, <1>7, <1>9
<1>11. next \in Players \ {lead}
  <2>1. d + s \in 0 .. NumPlayers - 1 /\ 0 \in 0 .. NumPlayers - 1 /\ d + s # 0
    BY <1>1, <1>10
  <2>2. next \in Players /\ SeatAfter(lead, 0) = lead
    BY <1>10, <2>1, SeatsAreInARing
  <2>3. SeatAfter(lead, d + s) # SeatAfter(lead, 0)
    BY <2>1, SeatsAreInARing
  <2>4. QED
    BY <1>10, <2>2, <2>3
<1>12. \A t \in 1 .. d + s - 1 : Full(hands, SeatAfter(lead, t))
  <2> SUFFICES ASSUME NEW t \in 1 .. d + s - 1 PROVE Full(hands, SeatAfter(lead, t))
    OBVIOUS
  <2>1. CASE t <= d
    BY <1>4, <2>1
  <2>2. CASE t > d
    <3>1. t - d \in 1 .. s - 1 /\ t - d \in Nat /\ d + (t - d) = t /\ t < NumPlayers
      <4>1. d \in Nat /\ s \in Nat /\ t \in Nat /\ t <= d + s - 1 /\ d + s < NumPlayers
        BY <1>1, <1>6, <1>10
      <4>2. QED
        BY <1>1, <2>2, <4>1
    <3>2. SeatAfter(p, t - d) = SeatAfter(lead, d + (t - d))
      BY <1>7, <3>1
    <3>3. QED
      BY <1>9, <3>1, <3>2
  <2>3. QED
    BY <2>1, <2>2
<1>13. PassedAreFull(hands, lead, next)
  <2> SUFFICES ASSUME NEW u \in 1 .. NumPlayers - 1, SeatAfter(lead, u) = next
               PROVE  \A t \in 1 .. u - 1 : Full(hands, SeatAfter(lead, t))
    BY Zenon DEF PassedAreFull
  <2>1. u = d + s
    <3>1. u \in 0 .. NumPlayers - 1 /\ d + s \in 0 .. NumPlayers - 1
      BY <1>10
    <3>2. QED
      BY <1>10, <3>1, SeatsAreInARing
  <2>2. QED
    BY <1>12, <2>1
<1>14. ~Full(hands, next)
  BY <1>9
<1>15. QED
  BY <1>11, <1>13, <1>14

-----------------------------------------------------------------------------
(* Cards.                                                                  *)

\* There are finitely many ranks.
LEMMA RanksAreFinite == IsFiniteSet(Ranks)
BY CardsAssumption, FS_Interval DEF Ranks

\* As many seats as players.
LEMMA PlayersAreFinite == IsFiniteSet(Players) /\ Cardinality(Players) = NumPlayers
BY PlayersAssumption, FS_Interval DEF Players

\* A hand of cards has a natural number of them.
LEMMA SizeIsNatural ==
  ASSUME NEW h \in Bag
  PROVE  Size(h) = SumFunctionOnSet(h, Ranks) /\ Size(h) \in Nat
<1>1. \A r \in Ranks : h[r] \in Nat
  BY DEF Bag
<1>2. SumFunctionOnSet(h, Ranks) \in Nat
  BY <1>1, RanksAreFinite, SumCoversTerms
<1>3. Size(h) = SumFunctionOnSet(h, Ranks)
  BY DEF Size, SumFunction, Bag
<1>4. QED
  BY <1>2, <1>3

\* A card that comes or goes counts for one.
LEMMA SizeAfterCard ==
  ASSUME NEW h \in Bag, NEW g \in Bag, NEW r \in Ranks, NEW d \in Int,
         g[r] = h[r] + d, \A q \in Ranks \ {r} : g[q] = h[q]
  PROVE  Size(g) = Size(h) + d
<1>1. \A q \in Ranks : h[q] \in Int
  BY DEF Bag
<1>2. SumFunctionOnSet(g, Ranks) = SumFunctionOnSet(h, Ranks) + d
  BY <1>1, RanksAreFinite, SumAfterChange
<1>3. QED
  BY <1>2, SizeIsNatural

\* Hands are of natural size, and so are all of them together.
LEMMA CardsHeldIsSum ==
  ASSUME NEW h \in [Players -> Bag]
  PROVE  /\ \A p \in Players : Size(h[p]) \in Nat
         /\ CardsHeld(h) \in Nat
<1>1. \A p \in Players : Size(h[p]) \in Nat
  BY SizeIsNatural
<1> DEFINE sizes == [p \in Players |-> Size(h[p])]
<1>2. \A p \in Players : sizes[p] \in Nat
  BY <1>1
<1> HIDE DEF sizes
<1>3. SumFunctionOnSet(sizes, Players) \in Nat
  BY <1>2, PlayersAreFinite, SumCoversTerms
<1>4. QED
  BY <1>1, <1>3 DEF CardsHeld, sizes

\* A card drawn goes from a pile to a hand.
LEMMA TakeMovesACard ==
  ASSUME TypeOK, CardsAreSomewhere, NEW p \in Players, NEW i \in Piles, NEW r \in Ranks,
         Take(p, i, r), ~Full(hand, p)
  PROVE  /\ piles' \in [Piles -> Nat] /\ rest' \in Bag /\ hand' \in [Players -> Bag]
         /\ Size(hand'[p]) = Size(hand[p]) + 1
         /\ \A q \in Players \ {p} : hand'[q] = hand[q]
         /\ CardsAreSomewhere'
<1>1. /\ piles \in [Piles -> Nat] /\ rest \in Bag /\ hand \in [Players -> Bag]
      /\ piles[i] > 0 /\ rest[r] > 0
      /\ piles' = [piles EXCEPT ![i] = @ - 1]
      /\ rest' = [rest EXCEPT ![r] = @ - 1]
      /\ hand' = [hand EXCEPT ![p][r] = @ + 1]
  BY DEF TypeOK, Take
<1>2. /\ piles' \in [Piles -> Nat] /\ piles'[i] = piles[i] - 1
      /\ \A j \in Piles \ {i} : piles'[j] = piles[j]
  BY <1>1
<1>3. /\ rest' \in Bag /\ rest'[r] = rest[r] - 1
      /\ \A q \in Ranks \ {r} : rest'[q] = rest[q]
  BY <1>1 DEF Bag
<1>4. /\ hand' \in [Players -> Bag] /\ hand'[p][r] = hand[p][r] + 1
      /\ \A q \in Ranks \ {r} : hand'[p][q] = hand[p][q]
      /\ \A q \in Players \ {p} : hand'[q] = hand[q]
  BY <1>1 DEF Bag
<1>5. Size(rest') = Size(rest) - 1
  <2>1. rest'[r] = rest[r] + (-1)
    BY <1>1, <1>3 DEF Bag
  <2>2. -1 \in Int
    OBVIOUS
  <2>3. Size(rest') = Size(rest) + (-1)
    BY <1>1, <1>3, <2>1, <2>2, SizeAfterCard, ZenonT(60)
  <2>4. QED
    BY <1>1, <2>3, SizeIsNatural
<1>6. Size(hand'[p]) = Size(hand[p]) + 1
  <2>1. hand[p] \in Bag /\ hand'[p] \in Bag
    BY <1>1, <1>4
  <2>2. QED
    BY <1>4, <2>1, SizeAfterCard
<1>7. CardsHeld(hand') = CardsHeld(hand) + 1
  <2> DEFINE sizes == [q \in Players |-> Size(hand[q])]
             after == [q \in Players |-> Size(hand'[q])]
  <2>1. \A q \in Players : sizes[q] \in Int
    BY <1>1, CardsHeldIsSum
  <2>2. after[p] = sizes[p] + 1 /\ \A q \in Players \ {p} : after[q] = sizes[q]
    BY <1>4, <1>6
  <2> HIDE DEF sizes, after
  <2>3. SumFunctionOnSet(after, Players) = SumFunctionOnSet(sizes, Players) + 1
    BY <2>1, <2>2, PlayersAreFinite, SumAfterChange
  <2>4. QED
    BY <2>3 DEF CardsHeld, sizes, after
<1>8. /\ CardsHeld(hand) \in Nat /\ Size(rest) \in Nat
      /\ \A q \in Players : Size(hand[q]) \in Nat
  BY <1>1, CardsHeldIsSum, SizeIsNatural
<1>9. piles'[0] + piles'[1] + piles'[2] = Size(rest')
  <2>1. piles[0] + piles[1] + piles[2] = Size(rest)
    BY DEF CardsAreSomewhere
  <2>2. piles[0] \in Nat /\ piles[1] \in Nat /\ piles[2] \in Nat
    BY <1>1 DEF Piles
  <2>3. QED
    BY <1>2, <1>5, <1>8, <2>1, <2>2 DEF Piles
<1>10. Size(rest') + CardsHeld(hand') = Size(Deck)
  BY <1>5, <1>7, <1>8 DEF CardsAreSomewhere
<1>11. \A q \in Players : Size(hand'[q]) <= CardsPerPlayer
  <2>1. Size(hand[p]) < CardsPerPlayer
    BY <1>8, CardsAssumption DEF Full
  <2>2. Size(hand'[p]) <= CardsPerPlayer
    BY <1>6, <1>8, <2>1, CardsAssumption
  <2>3. QED
    BY <1>4, <2>2 DEF CardsAreSomewhere
<1>12. QED
  BY <1>2, <1>3, <1>4, <1>6, <1>9, <1>10, <1>11 DEF CardsAreSomewhere

\* While somebody may draw there is a card to be drawn.
LEMMA SomePileHasCards ==
  ASSUME NEW ps \in [Piles -> Nat], NEW rs \in Bag, NEW h \in [Players -> Bag],
         ps[0] + ps[1] + ps[2] = Size(rs),
         Size(rs) + CardsHeld(h) = Size(Deck),
         \A p \in Players : Size(h[p]) <= CardsPerPlayer,
         NEW p \in Players, ~Full(h, p)
  PROVE  \E i \in Piles : ps[i] > 0
<1> DEFINE sizes == [q \in Players |-> Size(h[q])]
           caps == [q \in Players |-> CardsPerPlayer]
           most == [q \in Players |-> IF q = p THEN CardsPerPlayer - 1 ELSE CardsPerPlayer]
<1>1. \A q \in Players : Size(h[q]) \in Nat
  BY CardsHeldIsSum
<1>2. CardsPerPlayer \in Int /\ -1 \in Int /\ NumPlayers \in Nat
  BY CardsAssumption, PlayersAssumption
<1>3. /\ \A q \in Players : caps[q] = CardsPerPlayer /\ caps[q] \in Int
      /\ most[p] = caps[p] + (-1)
      /\ \A q \in Players \ {p} : most[q] = caps[q]
  BY <1>2
<1>4. \A q \in Players : sizes[q] \in Int /\ most[q] \in Int /\ sizes[q] <= most[q]
  BY <1>1, <1>2 DEF Full
<1>5. CardsHeld(h) = SumFunctionOnSet(sizes, Players)
  BY DEF CardsHeld
<1> HIDE DEF sizes, caps, most
<1>6. SumFunctionOnSet(caps, Players) = CardsPerPlayer * NumPlayers
  BY <1>2, <1>3, PlayersAreFinite, SumOfConstant
<1>7. SumFunctionOnSet(most, Players) = SumFunctionOnSet(caps, Players) + (-1)
  <2>1. \A q \in Players : caps[q] \in Int
    BY <1>3
  <2>2. \A d \in Int : most[p] = caps[p] + d
          => SumFunctionOnSet(most, Players) = SumFunctionOnSet(caps, Players) + d
    BY <1>3, <2>1, PlayersAreFinite, SumAfterChange
  <2>3. QED
    BY <1>2, <1>3, <2>2
<1>8. CardsHeld(h) <= SumFunctionOnSet(most, Players)
  BY <1>4, <1>5, PlayersAreFinite, SumIsMonotonic
<1>9. Deck \in Bag /\ Size(Deck) \in Nat /\ Size(rs) \in Nat /\ CardsHeld(h) \in Nat
  BY CardsAssumption, SizeIsNatural, CardsHeldIsSum
<1>10. Size(rs) > 0
  <2> DEFINE all == CardsPerPlayer * NumPlayers
  <2>1. all \in Int /\ Size(Deck) >= all /\ CardsHeld(h) <= all + (-1)
    BY <1>2, <1>6, <1>7, <1>8, DeckAssumption
  <2> HIDE DEF all
  <2>2. QED
    BY <1>9, <2>1
<1>11. 0 \in Piles /\ 1 \in Piles /\ 2 \in Piles
  BY DEF Piles
<1>12. ps[0] \in Nat /\ ps[1] \in Nat /\ ps[2] \in Nat
  BY <1>11
<1>13. ps[0] > 0 \/ ps[1] > 0 \/ ps[2] > 0
  BY <1>10, <1>12
<1>14. QED
  BY <1>11, <1>13

\* No hand is weaker than none.
LEMMA NoCardsBeatNothing ==
  ASSUME NEW h
  PROVE  ~beats(NoCards, h)
<1>1. \A n \in 1 .. 4 : RanksWith(NoCards, n) = {}
  BY DEF RanksWith, NoCards
<1>2. Category(NoCards) = 0
  <2>1. Cardinality({}) = 0
    BY FS_EmptySet
  <2>2. RanksWith(NoCards, 4) = {} /\ RanksWith(NoCards, 3) = {} /\ RanksWith(NoCards, 2) = {}
    BY <1>1
  <2>3. QED
    BY <2>1, <2>2 DEF Category
<1>3. \A i \in 0 .. 5 : partialHandScore(NoCards)[i] = 0
  <2> SUFFICES ASSUME NEW i \in 0 .. 5 PROVE partialHandScore(NoCards)[i] = 0
    OBVIOUS
  <2> DEFINE At == {g.rank : g \in {k \in Groups(NoCards) : k.place = i}}
  <2>1. partialHandScore(NoCards)[i] = IF i = 0 THEN Category(NoCards)
                                       ELSE IF At = {} THEN 0 ELSE CHOOSE r \in At : TRUE
    BY Zenon DEF partialHandScore
  <2>2. RanksWith(NoCards, 1) = {}
    BY <1>1
  <2>3. Groups(NoCards) = {}
    BY <2>2, Zenon DEF Groups
  <2>4. At = {}
    BY <2>3, Zenon
  <2> HIDE DEF At
  <2>5. QED
    BY <1>2, <2>1, <2>4
<1>4. \A i \in 0 .. 5 : partialHandScore(h)[i] >= 0
  BY PartialScoresAreScores DEF IsScore
<1>5. QED
  BY <1>3, <1>4, PartialScoresAreScores DEF beats, Higher, IsScore

-----------------------------------------------------------------------------
(* A draw.                                                                 *)

\* What the invariant says of a round that waits for a player.
LEMMA RoundInvParts ==
  ASSUME RoundInv, phase = "turn", turn \in Players
  PROVE  /\ turn # leader /\ ~Full(hand, turn)
         /\ leader = NoPlayer => \A p \in Players : hand[p] = NoCards
         /\ leader # NoPlayer => PassedAreFull(hand, leader, turn)
         /\ TypeOK /\ CardsAreSomewhere
BY DEF RoundInv, LeadIsFair

\* Whoever takes the lead holds a hand nobody beats, and whoever does not leaves it so.
LEMMA LeadStaysFair ==
  ASSUME RoundInv, NEW p \in Players, p # leader, NEW hands \in [Players -> Bag],
         \A q \in Players \ {p} : hands[q] = hand[q],
         NEW lead, lead = IF TakesLead(p, hands) THEN p ELSE leader
  PROVE  /\ lead \in Players
         /\ \A q \in Players : ~beats(hands[q], hands[lead])
<1>1. leader \in Players \cup {NoPlayer}
  BY DEF RoundInv, TypeOK
<1>2. \A q \in Players : leader # NoPlayer => ~beats(hand[q], hand[leader])
  BY DEF RoundInv, LeadIsFair
<1>3. TakesLead(p, hands) <=> (leader # NoPlayer => beats(hands[p], hand[leader]))
  BY DEF TakesLead
<1>4. CASE TakesLead(p, hands)
  <2> SUFFICES ASSUME NEW q \in Players PROVE ~beats(hands[q], hands[p])
    BY <1>4
  <2>1. CASE q = p
    BY <2>1, HigherIsStrict, PartialScoresAreScores DEF beats
  <2>2. CASE q # p /\ leader = NoPlayer
    <3>1. hands[q] = NoCards
      BY <2>2 DEF RoundInv
    <3>2. QED
      BY <3>1, NoCardsBeatNothing
  <2>3. CASE q # p /\ leader # NoPlayer
    <3>1. ~beats(hands[q], hand[leader]) /\ beats(hands[p], hand[leader])
      BY <1>2, <1>3, <1>4, <2>3
    <3>2. QED
      BY <3>1, HigherIsTransitive, PartialScoresAreScores DEF beats
  <2>4. QED
    BY <2>1, <2>2, <2>3
<1>5. CASE ~TakesLead(p, hands)
  <2>1. lead = leader /\ leader \in Players /\ hands[leader] = hand[leader]
        /\ ~beats(hands[p], hand[leader])
    BY <1>1, <1>3, <1>5
  <2>2. \A q \in Players \ {p} : ~beats(hands[q], hands[lead])
    BY <1>2, <1>3, <1>5, <2>1
  <2>3. QED
    BY <2>1, <2>2
<1>6. QED
  BY <1>4, <1>5

\* What the others pay the leader.
LEMMA SettlementKeepsChips ==
  ASSUME RoundInv, phase = "turn", NEW lead \in Players, NEW hands \in [Players -> Bag],
         settle(hands, lead)
  PROVE  /\ phase' = "complete" /\ stack' \in [Players -> Int]
         /\ SumFunction(stack') = NumPlayers * StartStack
<1> DEFINE amount == Stake + (CardsPerPlayer - Size(hands[lead])) * UnopenedBonus
                       + (IF Category(hands[lead]) = 7 THEN FourBonus ELSE 0)
<1>1. /\ phase' = "complete"
      /\ stack' = [p \in Players |-> IF p = lead THEN stack[p] + amount * (NumPlayers - 1)
                                     ELSE stack[p] - amount]
  BY Zenon DEF settle
<1>2. stack \in [Players -> Int] /\ SumFunction(stack) = NumPlayers * StartStack
  BY DEF RoundInv, TypeOK, StakesOnlyMove
<1>3. amount \in Int
  <2> DEFINE unopened == CardsPerPlayer - Size(hands[lead])
  <2>1. unopened \in Int
    BY CardsAssumption, SizeIsNatural
  <2> HIDE DEF unopened
  <2>2. unopened * UnopenedBonus \in Int
    BY <2>1, MoneyAssumption
  <2>3. QED
    BY <2>2, MoneyAssumption DEF unopened
<1> HIDE DEF amount
<1>4. NumPlayers - 1 \in Int /\ amount * (NumPlayers - 1) \in Int
  BY <1>3, PlayersAssumption
<1>5. /\ stack' \in [Players -> Int]
      /\ stack'[lead] = stack[lead] + amount * (Cardinality(Players) - 1)
      /\ \A p \in Players \ {lead} : stack'[p] = stack[p] - amount
      /\ \A p \in Players : stack[p] \in Int
  BY <1>1, <1>2, <1>3, <1>4, PlayersAreFinite
<1>6. SumFunctionOnSet(stack', Players) = SumFunctionOnSet(stack, Players)
  BY <1>3, <1>5, PlayersAreFinite, PaymentsToOneCancel
<1>7. QED
  BY <1>1, <1>2, <1>5, <1>6 DEF SumFunction

\* A draw keeps the invariant of the round: the one that finds the winner and settles as
\* well.
LEMMA DrawKeeps ==
  ASSUME RoundInv, NEW p \in Players, NEW i \in Piles, NEW r \in Ranks, draw(p, i, r)
  PROVE  RoundInv'
<1>1. /\ phase = "turn" /\ turn = p /\ Take(p, i, r)
      /\ leader' = IF TakesLead(p, hand') THEN p ELSE leader
      /\ \/ /\ ~TakesLead(p, hand') /\ ~Full(hand', p)
            /\ UNCHANGED <<phase, turn, stack>>
         \/ /\ ~othersStillInPlay(hand', leader')
            /\ settle(hand', leader')
            /\ UNCHANGED turn
         \/ /\ TakesLead(p, hand') \/ Full(hand', p)
            /\ othersStillInPlay(hand', leader')
            /\ turn' = NextToDraw(hand', p)
            /\ UNCHANGED <<phase, stack>>
  BY Zenon DEF draw
<1>2. /\ p # leader /\ ~Full(hand, p) /\ TypeOK /\ CardsAreSomewhere
      /\ leader # NoPlayer => PassedAreFull(hand, leader, p)
  BY <1>1, RoundInvParts
<1>3. /\ piles' \in [Piles -> Nat] /\ rest' \in Bag /\ hand' \in [Players -> Bag]
      /\ Size(hand'[p]) = Size(hand[p]) + 1
      /\ \A q \in Players \ {p} : hand'[q] = hand[q]
      /\ CardsAreSomewhere'
  BY <1>1, <1>2, TakeMovesACard
<1>4. leader' \in Players /\ \A q \in Players : ~beats(hand'[q], hand'[leader'])
  BY <1>1, <1>2, <1>3, LeadStaysFair
<1>5. leader' # NoPlayer
  BY <1>4 DEF Players, NoPlayer
<1>6. \A q \in Players : ~Full(hand', q) => \E j \in Piles : piles'[j] > 0
  BY <1>3, SomePileHasCards DEF CardsAreSomewhere
<1>7. p # leader' => /\ ~TakesLead(p, hand') /\ leader' = leader
                     /\ PassedAreFull(hand', leader', p)
  <2> SUFFICES ASSUME p # leader'
               PROVE  /\ ~TakesLead(p, hand') /\ leader' = leader
                      /\ PassedAreFull(hand', leader', p)
    OBVIOUS
  <2>1. ~TakesLead(p, hand') /\ leader' = leader
    BY <1>1
  <2>2. PassedAreFull(hand, leader, p) /\ leader \in Players
    BY <1>2, <1>4, <1>5, <2>1
  <2>3. \A q \in Players : Full(hand, q) => Full(hand', q)
    BY <1>2, <1>3 DEF Full
  <2>4. \A s \in 0 .. NumPlayers - 1 : SeatAfter(leader, s) \in Players
    BY <2>2, SeatsAreInARing
  <2>5. ASSUME NEW s \in 1 .. NumPlayers - 1, SeatAfter(leader, s) = p, NEW t \in 1 .. s - 1
        PROVE  Full(hand', SeatAfter(leader, t))
    <3>1. t \in 0 .. NumPlayers - 1
      BY <2>5, PlayersAssumption
    <3>2. Full(hand, SeatAfter(leader, t))
      BY <2>2, <2>5, Zenon DEF PassedAreFull
    <3>3. QED
      BY <2>3, <2>4, <3>1, <3>2
  <2>6. PassedAreFull(hand', leader, p)
    BY <2>5, Zenon DEF PassedAreFull
  <2>7. QED
    BY <2>1, <2>6
<1>8. stack \in [Players -> Int] /\ phase \in {"turn", "complete"} /\ turn \in Players
      /\ StakesOnlyMove
  BY <1>2 DEF TypeOK, RoundInv
<1>9. CASE /\ ~TakesLead(p, hand') /\ ~Full(hand', p)
           /\ UNCHANGED <<phase, turn, stack>>
  <2>1. p # leader'
    BY <1>1, <1>2, <1>9
  <2>2. \E j \in Piles : piles'[j] > 0
    BY <1>6, <1>9
  <2>3. LeadIsFair'
    BY <1>1, <1>4, <1>9, <2>1, <2>2 DEF LeadIsFair
  <2>4. TypeOK'
    BY <1>3, <1>4, <1>8, <1>9 DEF TypeOK
  <2>5. StakesOnlyMove'
    BY <1>8, <1>9 DEF StakesOnlyMove
  <2>6. PassedAreFull(hand, leader, turn)'
    BY <1>1, <1>7, <1>9, <2>1
  <2>7. QED
    BY <1>3, <1>5, <2>3, <2>4, <2>5, <2>6 DEF RoundInv
<1>10. CASE settle(hand', leader') /\ UNCHANGED turn
  <2>1. /\ phase' = "complete" /\ stack' \in [Players -> Int]
        /\ SumFunction(stack') = NumPlayers * StartStack
    BY <1>1, <1>3, <1>4, <1>10, SettlementKeepsChips
  <2>2. LeadIsFair'
    BY <1>4, <2>1 DEF LeadIsFair
  <2>3. TypeOK'
    BY <1>3, <1>4, <1>8, <1>10, <2>1 DEF TypeOK
  <2>4. StakesOnlyMove'
    BY <2>1 DEF StakesOnlyMove
  <2>5. QED
    BY <1>3, <1>5, <2>1, <2>2, <2>3, <2>4 DEF RoundInv
<1>11. CASE /\ TakesLead(p, hand') \/ Full(hand', p)
            /\ othersStillInPlay(hand', leader')
            /\ turn' = NextToDraw(hand', p)
            /\ UNCHANGED <<phase, stack>>
  <2>1. p # leader' => PassedAreFull(hand', leader', p) /\ Full(hand', p)
    BY <1>7, <1>11
  <2>2. /\ turn' \in Players \ {leader'} /\ ~Full(hand', turn')
        /\ PassedAreFull(hand', leader', turn')
    BY <1>4, <1>11, <2>1, TurnPassesOverTheFull
  <2>3. \E j \in Piles : piles'[j] > 0
    BY <1>6, <2>2
  <2>4. LeadIsFair'
    BY <1>4, <2>2, <2>3 DEF LeadIsFair
  <2>5. TypeOK'
    BY <1>3, <1>4, <1>8, <1>11, <2>2 DEF TypeOK
  <2>6. StakesOnlyMove'
    BY <1>8, <1>11 DEF StakesOnlyMove
  <2>7. QED
    BY <1>3, <1>5, <2>2, <2>4, <2>5, <2>6 DEF RoundInv
<1>12. QED
  BY <1>1, <1>9, <1>10, <1>11

\* At the deal the cards are all in the piles.
LEMMA DealInv == Init => RoundInv
<1> SUFFICES ASSUME Init PROVE RoundInv
  OBVIOUS
<1>1. /\ phase = "turn" /\ turn = 0 /\ leader = NoPlayer
      /\ piles = [i \in Piles |-> (Size(Deck) + 2 - i) \div 3]
      /\ rest = Deck
      /\ hand = [p \in Players |-> NoCards]
      /\ stack = [p \in Players |-> StartStack]
  BY Zenon DEF Init
<1>2. NoCards \in Bag /\ Size(NoCards) = 0
  <2>1. NoCards \in Bag /\ \A r \in Ranks : NoCards[r] = 0
    BY DEF NoCards, Bag
  <2>2. SumFunctionOnSet(NoCards, Ranks) = 0 * Cardinality(Ranks)
    BY <2>1, RanksAreFinite, SumOfConstant
  <2>3. Cardinality(Ranks) \in Nat
    BY RanksAreFinite, FS_CardinalityType
  <2>4. QED
    BY <2>1, <2>2, <2>3, SizeIsNatural
<1>3. Deck \in Bag /\ Size(Deck) \in Nat
  BY CardsAssumption, SizeIsNatural
<1>4. 0 \in Players /\ StartStack \in Int /\ NumPlayers \in Nat /\ CardsPerPlayer >= 1
      /\ CardsPerPlayer \in Nat
  BY PlayersAssumption, MoneyAssumption, CardsAssumption DEF Players
<1>5. piles \in [Piles -> Nat] /\ piles[0] + piles[1] + piles[2] = Size(Deck)
  <2> DEFINE n == Size(Deck)
  <2>1. \A i \in 0 .. 2 : (n + 2 - i) \div 3 \in Nat
    BY <1>3
  <2>2. (n + 2 - 0) \div 3 + (n + 2 - 1) \div 3 + (n + 2 - 2) \div 3 = n
    BY <1>3
  <2>3. piles[0] = (n + 2 - 0) \div 3 /\ piles[1] = (n + 2 - 1) \div 3
        /\ piles[2] = (n + 2 - 2) \div 3
    BY <1>1 DEF Piles
  <2>4. piles \in [Piles -> Nat]
    BY <1>1, <2>1 DEF Piles
  <2>5. QED
    BY <2>2, <2>3, <2>4
<1>6. hand \in [Players -> Bag] /\ \A p \in Players : hand[p] = NoCards
  BY <1>1, <1>2
<1>7. CardsHeld(hand) = 0
  <2> DEFINE sizes == [p \in Players |-> Size(hand[p])]
  <2>1. \A p \in Players : sizes[p] = 0
    BY <1>2, <1>6
  <2> HIDE DEF sizes
  <2>2. SumFunctionOnSet(sizes, Players) = 0 * Cardinality(Players)
    BY <2>1, PlayersAreFinite, SumOfConstant
  <2>3. QED
    BY <1>4, <2>2, PlayersAreFinite DEF CardsHeld, sizes
<1>8. CardsAreSomewhere
  BY <1>1, <1>2, <1>3, <1>4, <1>5, <1>6, <1>7 DEF CardsAreSomewhere
<1>9. TypeOK
  BY <1>1, <1>3, <1>4, <1>5, <1>6 DEF TypeOK
<1>10. LeadIsFair
  <2>1. ~Full(hand, turn)
    BY <1>1, <1>2, <1>4, <1>6 DEF Full
  <2>2. \E i \in Piles : piles[i] > 0
    BY <1>1, <1>4, <1>5, <1>6, <1>8, <1>3, <2>1, SomePileHasCards DEF CardsAreSomewhere
  <2>3. turn # leader
    BY <1>1 DEF NoPlayer
  <2>4. QED
    BY <1>1, <2>1, <2>2, <2>3 DEF LeadIsFair
<1>11. StakesOnlyMove
  <2>1. /\ \A p \in Players : stack[p] = StartStack
        /\ DOMAIN stack = Players
    BY <1>1
  <2>2. SumFunctionOnSet(stack, Players) = StartStack * Cardinality(Players)
    BY <1>4, <2>1, PlayersAreFinite, SumOfConstant
  <2>3. SumFunction(stack) = NumPlayers * StartStack
    BY <1>4, <2>1, <2>2, PlayersAreFinite DEF SumFunction
  <2>4. QED
    BY <1>1, <2>3 DEF StakesOnlyMove
<1>12. QED
  BY <1>1, <1>6, <1>8, <1>9, <1>10, <1>11 DEF RoundInv

\* Every step of the round keeps its invariant.
LEMMA RoundKeeps ==
  ASSUME RoundInv, [Next]_vars
  PROVE  RoundInv'
<1>1. CASE UNCHANGED vars
  BY <1>1 DEF vars, RoundInv, TypeOK, LeadIsFair, CardsAreSomewhere, StakesOnlyMove,
     PassedAreFull, Full, SeatAfter, CardsHeld
<1>2. CASE \E p \in Players, i \in Piles, r \in Ranks : draw(p, i, r)
  BY <1>2, DrawKeeps
<1>3. QED
  BY <1>1, <1>2, Zenon DEF Next, Done

\* The whole invariant of a round of Card Flip.
THEOREM RoundInOrder == Spec => []RoundInv
BY DealInv, RoundKeeps, PTL DEF Spec

\* Beat the leader: however the piles are chosen and the lead changes hands, the leader holds a
\* strongest hand, and the turn is with another player who is under the cap and finds a card.
THEOREM BeatTheLeader == Spec => []LeadIsFair
<1>1. RoundInv => LeadIsFair
  BY DEF RoundInv
<1>2. QED
  BY <1>1, RoundInOrder, PTL

-----------------------------------------------------------------------------
(* The server around the round.                                            *)

\* The database is behind by one round until the round is settled, which happens in the
\* request that completes it, after the away seats have drawn.
TableInv ==
  /\ RoundInv
  /\ handler \in {"idle", "resolve", "settle"} /\ settled \in BOOLEAN
  /\ settled => phase = "complete" /\ handler = "idle"
  /\ rows = IF settled THEN 1 ELSE 0
  /\ saved = IF settled THEN stack ELSE [p \in Players |-> StartStack]
  /\ handler = "idle" /\ phase = "complete" => settled
  /\ handler # "resolve" /\ phase = "turn" => turn \notin away

\* A draw, by a player or for one who is away.
EngineStep == \E p \in Players, i \in Piles, r \in Ranks : draw(p, i, r)

\* A round that is over is not played on.
LEMMA EngineStepIsLive ==
  ASSUME EngineStep
  PROVE  phase = "turn" /\ [Next]_vars
BY Zenon DEF EngineStep, Next, draw

\* resolveAwayTurns stops with somebody to draw only if that one is there: a pile is never missing.
LEMMA NobodyAwayToDraw ==
  ASSUME RoundInv, phase = "turn", ~AwayToDraw
  PROVE  turn \notin away
<1>1. PICK i \in Piles : piles[i] > 0
  BY DEF RoundInv, LeadIsFair
<1>2. piles \in [Piles -> Nat]
  BY DEF RoundInv, TypeOK
<1>3. FirstPile # {}
  <2>1. 0 \in Piles /\ 1 \in Piles /\ 2 \in Piles /\ i \in {0, 1, 2}
    BY DEF Piles
  <2>2. piles[0] \in Nat /\ piles[1] \in Nat /\ piles[2] \in Nat
    BY <1>2, <2>1
  <2>3. CASE piles[0] > 0
    <3>1. 0 \in FirstPile
      BY <2>1, <2>3 DEF FirstPile
    <3>2. QED
      BY <3>1
  <2>4. CASE piles[0] = 0 /\ piles[1] > 0
    <3>1. 1 \in FirstPile
      BY <2>1, <2>4 DEF FirstPile
    <3>2. QED
      BY <3>1
  <2>5. CASE piles[0] = 0 /\ piles[1] = 0
    <3>1. i = 2
      BY <1>1, <2>1, <2>5
    <3>2. 2 \in FirstPile
      BY <1>1, <2>1, <2>5, <3>1 DEF FirstPile
    <3>3. QED
      BY <3>2
  <2>6. QED
    BY <2>2, <2>3, <2>4, <2>5
<1>4. QED
  BY <1>3 DEF AwayToDraw

\* Every request, and every step of one, keeps the invariant of the table.
LEMMA TableKeeps ==
  ASSUME TableInv, [TableNext]_vars2
  PROVE  TableInv'
<1>1. RoundInv
  BY DEF TableInv
<1>2. ASSUME EngineStep, handler' = "resolve", UNCHANGED tableVars PROVE TableInv'
  <2>1. phase = "turn" /\ RoundInv'
    BY <1>1, <1>2, EngineStepIsLive, RoundKeeps
  <2>2. QED
    BY <1>2, <2>1 DEF TableInv, tableVars, seatVars
<1>3. ASSUME UNCHANGED vars
      PROVE  RoundInv' /\ UNCHANGED <<phase, turn, stack>>
  BY <1>1, <1>3, RoundKeeps DEF vars
<1>4. ASSUME NEW p \in Players, PlayerDraw(p) PROVE TableInv'
  BY <1>2, <1>4, Zenon DEF PlayerDraw, EngineStep
<1>5. ASSUME NEW p \in Players, GoAway(p) PROVE TableInv'
  <2>1. /\ handler = "idle" /\ handler' = (IF settled THEN "idle" ELSE "resolve")
        /\ UNCHANGED <<vars, seatVars>>
    BY <1>5 DEF GoAway
  <2>2. RoundInv' /\ UNCHANGED <<phase, stack, settled, rows, saved>>
    BY <1>3, <2>1 DEF seatVars
  <2>3. QED
    BY <2>1, <2>2 DEF TableInv
<1>6. ASSUME NEW p \in Players, ComeBack(p) \/ QueueAway(p) PROVE TableInv'
  <2>1. /\ handler = "idle" /\ handler' = "idle" /\ away' \subseteq away
        /\ UNCHANGED <<vars, seatVars>>
    BY <1>6 DEF ComeBack, QueueAway
  <2>2. RoundInv' /\ UNCHANGED <<phase, turn, stack, settled, rows, saved>>
    BY <1>3, <2>1 DEF seatVars
  <2>3. QED
    BY <2>1, <2>2 DEF TableInv
<1>7. CASE resolveAwayTurns
  <2>1. handler = "resolve" /\ UNCHANGED tableVars
        /\ \/ /\ AwayToDraw /\ UNCHANGED handler
              /\ \E i \in FirstPile, r \in Ranks : draw(turn, i, r)
           \/ ~AwayToDraw /\ handler' = "settle" /\ UNCHANGED vars
    BY <1>7, Zenon DEF resolveAwayTurns
  <2>2. CASE UNCHANGED handler /\ \E i \in FirstPile, r \in Ranks : draw(turn, i, r)
    <3>1. turn \in Players /\ FirstPile \subseteq Piles
      BY <1>1 DEF RoundInv, TypeOK, FirstPile
    <3>2. EngineStep
      BY <2>2, <3>1, Zenon DEF EngineStep
    <3>3. QED
      BY <1>2, <2>1, <2>2, <3>2
  <2>3. CASE ~AwayToDraw /\ handler' = "settle" /\ UNCHANGED vars
    <3>1. RoundInv' /\ UNCHANGED <<phase, turn, stack>>
      BY <1>3, <2>3
    <3>2. phase = "turn" => turn \notin away
      BY <1>1, <2>3, NobodyAwayToDraw
    <3>3. QED
      BY <2>1, <2>3, <3>1, <3>2 DEF TableInv, tableVars, seatVars
  <2>4. QED
    BY <2>1, <2>2, <2>3
<1>8. CASE settleIfComplete
  <2>1. /\ handler = "settle" /\ handler' = "idle" /\ UNCHANGED vars
        /\ \/ /\ Unsettled /\ settled' = TRUE /\ rows' = rows + 1 /\ saved' = stack
           \/ ~Unsettled /\ UNCHANGED tableVars
    BY <1>8, Zenon DEF settleIfComplete, SavedStacks
  <2>2. RoundInv' /\ UNCHANGED <<phase, turn, stack>>
    BY <1>3, <2>1
  <2>3. CASE Unsettled /\ settled' = TRUE /\ rows' = rows + 1 /\ saved' = stack
    <3>1. ~settled /\ phase = "complete"
      BY <2>3 DEF Unsettled
    <3>2. QED
      BY <2>1, <2>2, <2>3, <3>1 DEF TableInv
  <2>4. CASE ~Unsettled /\ UNCHANGED tableVars
    <3>1. ~settled /\ phase # "complete"
      BY <2>1, <2>4 DEF TableInv, Unsettled
    <3>2. QED
      BY <2>1, <2>2, <2>4, <3>1 DEF TableInv, tableVars, seatVars
  <2>5. QED
    BY <2>1, <2>3, <2>4
<1>9. CASE UNCHANGED vars2
  <2>1. RoundInv' /\ UNCHANGED <<phase, turn, stack>>
    BY <1>3, <1>9 DEF vars2
  <2>2. QED
    BY <1>9, <2>1 DEF TableInv, vars2, tableVars, seatVars
<1>10. QED
  BY <1>4, <1>5, <1>6, <1>7, <1>8, <1>9, Zenon DEF TableNext, finish

\* A round that has just been dealt has not been settled.
LEMMA DealTableInv == TableInit => TableInv
<1> SUFFICES ASSUME TableInit PROVE TableInv
  OBVIOUS
<1>1. RoundInv /\ stack = [p \in Players |-> StartStack] /\ phase = "turn"
  BY DealInv DEF TableInit, Init
<1>2. QED
  BY <1>1 DEF TableInit, TableInv

\* The whole invariant of a table of Card Flip.
THEOREM TableInOrder == TableSpec => []TableInv
BY DealTableInv, TableKeeps, PTL DEF TableSpec

\* However players come and go, and however many draws an away seat owes from piles that run out,
\* between two requests a round waits for somebody who is there.
THEOREM NobodyAwayIsAwaited == TableSpec => []AwayNeverStalls
<1>1. TableInv => AwayNeverStalls
  BY DEF TableInv, AwayNeverStalls
<1>2. QED
  BY <1>1, TableInOrder, PTL

\* Between two requests the database holds the stacks from before the round or, once it is
\* over, the final ones, adding up to what everybody sat down with, and its row once.
THEOREM RoundIsSavedWhole == TableSpec => []SavedOnceAndWhole
<1>1. ASSUME TableInv, handler = "idle" PROVE SavedOnceAndWhole
  <2>1. phase \in {"turn", "complete"} /\ StakesOnlyMove
    BY <1>1 DEF TableInv, RoundInv, TypeOK
  <2>2. settled <=> phase = "complete"
    BY <1>1 DEF TableInv
  <2>3. saved = (IF phase = "complete" THEN stack ELSE [p \in Players |-> StartStack])
        /\ rows = (IF phase = "complete" THEN 1 ELSE 0)
    BY <1>1, <2>2 DEF TableInv
  <2>4. saved = stack
    BY <2>1, <2>3 DEF StakesOnlyMove
  <2>5. SumFunction(saved) = NumPlayers * StartStack
    BY <2>1, <2>4 DEF StakesOnlyMove
  <2>6. QED
    BY <2>3, <2>5 DEF SavedOnceAndWhole
<1>2. TableInv => SavedOnceAndWhole
  BY <1>1 DEF SavedOnceAndWhole
<1>3. QED
  BY <1>2, TableInOrder, PTL

-----------------------------------------------------------------------------
(* The replay and the snapshots.                                           *)

\* The replay is where the table is, and a card is marked as just drawn until the round is over.
ReplayInv ==
  /\ TableInv
  /\ frame = [hand |-> hand, piles |-> piles, leader |-> leader]
  /\ drawer \in Players =>
       /\ phase = "turn" /\ hand[drawer] # NoCards
       /\ turn # drawer => drawer = leader \/ Full(hand, drawer)

\* A step of the table is a draw by the player whose turn it is, or does not touch the round.
LEMMA TableStepIsDrawOrNone ==
  ASSUME TableInv, [TableNext]_vars2
  PROVE  EngineStep \/ UNCHANGED vars
<1>1. ASSUME NEW p \in Players, PlayerDraw(p) PROVE EngineStep
  BY <1>1, Zenon DEF PlayerDraw, EngineStep
<1>2. ASSUME NEW p \in Players, GoAway(p) \/ ComeBack(p) \/ QueueAway(p) PROVE UNCHANGED vars
  BY <1>2, Zenon DEF GoAway, ComeBack, QueueAway
<1>3. CASE resolveAwayTurns
  <2>1. turn \in Players /\ FirstPile \subseteq Piles
    BY DEF TableInv, RoundInv, TypeOK, FirstPile
  <2>2. (\E i \in FirstPile, r \in Ranks : draw(turn, i, r)) \/ UNCHANGED vars
    BY <1>3, Zenon DEF resolveAwayTurns
  <2>3. QED
    BY <2>1, <2>2, Zenon DEF EngineStep
<1>4. CASE settleIfComplete
  BY <1>4, Zenon DEF settleIfComplete
<1>5. CASE UNCHANGED vars2
  BY <1>5, Zenon DEF vars2
<1>6. QED
  BY <1>1, <1>2, <1>3, <1>4, <1>5, Zenon DEF TableNext, finish

\* While there is a turn the snapshot of one player offers a draw the engine accepts.
LEMMA SomebodyIsOfferedADraw ==
  ASSUME RoundInv, phase = "turn"
  PROVE  \E p \in Players : canDraw(p) /\ ~Full(hand, p) /\ pileButtons # {}
<1>1. turn \in Players /\ ~Full(hand, turn)
  BY DEF RoundInv, TypeOK, LeadIsFair
<1>2. PICK i \in Piles : piles[i] > 0
  BY DEF RoundInv, LeadIsFair
<1>3. i \in pileButtons
  BY <1>2 DEF pileButtons
<1>4. QED
  BY <1>1, <1>3 DEF canDraw

\* The frame and the marked card are as right after a draw as they were before.
LEMMA DrawIsShown ==
  ASSUME RoundInv, NEW p \in Players, NEW i \in Piles, NEW r \in Ranks, draw(p, i, r),
         frame = [hand |-> hand, piles |-> piles, leader |-> leader],
         NEW j \in Piles, NEW q \in Ranks, LoggedDraw(j, q),
         frame' = replayDraw(frame, turn, j, q),
         drawer' = IF phase' = "complete" THEN NoPlayer ELSE turn
  PROVE  /\ frame' = [hand |-> hand', piles |-> piles', leader |-> leader']
         /\ drawer' \in Players => drawer' = p /\ hand'[p] # NoCards
         /\ drawer' \in Players => phase' = "turn" /\ (turn' # p => p = leader' \/ Full(hand', p))
<1>1. /\ phase = "turn" /\ turn = p /\ Take(p, i, r)
      /\ leader' = IF TakesLead(p, hand') THEN p ELSE leader
      /\ \/ ~TakesLead(p, hand') /\ ~Full(hand', p) /\ turn' = turn
         \/ TakesLead(p, hand') \/ Full(hand', p)
  BY Zenon DEF draw
<1>2. /\ p # leader /\ TypeOK /\ leader \in Players \cup {NoPlayer}
  BY <1>1 DEF RoundInv, LeadIsFair, TypeOK
<1>3. /\ piles \in [Piles -> Nat] /\ rest \in Bag /\ hand \in [Players -> Bag]
      /\ piles' = [piles EXCEPT ![i] = @ - 1]
      /\ rest' = [rest EXCEPT ![r] = @ - 1]
      /\ hand' = [hand EXCEPT ![p][r] = @ + 1]
  BY <1>1, <1>2 DEF TypeOK, Take
<1>4. j = i /\ q = r
  BY <1>3 DEF LoggedDraw, Bag
<1>5. frame' = [hand |-> hand', piles |-> piles',
                leader |-> IF leader = NoPlayer \/ beats(hand'[p], hand'[leader])
                           THEN p ELSE leader]
  BY <1>1, <1>3, <1>4, Zenon DEF replayDraw
<1>6. TakesLead(p, hand') <=> leader = NoPlayer \/ beats(hand'[p], hand'[leader])
  <2>1. leader # NoPlayer => hand'[leader] = hand[leader]
    BY <1>2, <1>3
  <2>2. QED
    BY <2>1 DEF TakesLead
<1>7. hand'[p] # NoCards
  <2>1. hand'[p][r] = hand[p][r] + 1 /\ hand[p][r] \in Nat
    BY <1>3 DEF Bag
  <2>2. NoCards[r] = 0
    BY DEF NoCards
  <2>3. QED
    BY <2>1, <2>2
<1>8. NoPlayer \notin Players
  BY DEF NoPlayer, Players
<1>9. phase' \in {"turn", "complete"}
  BY <1>1 DEF draw, settle
<1>10. turn' # p => p = leader' \/ Full(hand', p)
  BY <1>1
<1>11. frame' = [hand |-> hand', piles |-> piles', leader |-> leader']
  <2>1. leader' = IF leader = NoPlayer \/ beats(hand'[p], hand'[leader]) THEN p ELSE leader
    BY <1>1, <1>6, Zenon
  <2>2. QED
    BY <1>5, <2>1, Zenon
<1>12. QED
  BY <1>1, <1>7, <1>8, <1>9, <1>10, <1>11

\* Every entry of the log, and every step without one, keeps the views right.
LEMMA ReplayKeeps ==
  ASSUME ReplayInv, [ReplayNext]_replayVars
  PROVE  ReplayInv'
<1>1. [TableNext]_vars2
  BY DEF ReplayNext, replayVars
<1>2. TableInv' /\ RoundInv' /\ RoundInv
  BY <1>1, TableKeeps DEF ReplayInv, TableInv
<1>3. \/ hand' = hand /\ UNCHANGED <<frame, drawer>>
      \/ \E j \in Piles, q \in Ranks :
           /\ LoggedDraw(j, q)
           /\ frame' = replayDraw(frame, turn, j, q)
           /\ drawer' = IF phase' = "complete" THEN NoPlayer ELSE turn
  BY Zenon DEF ReplayNext, replayVars, vars2, vars
<1>4. EngineStep \/ UNCHANGED vars
  BY <1>1, TableStepIsDrawOrNone DEF ReplayInv
<1>5. CASE UNCHANGED vars
  <2>1. UNCHANGED <<frame, drawer>>
    BY <1>3, <1>5 DEF LoggedDraw, vars
  <2>2. QED
    BY <1>2, <1>5, <2>1 DEF ReplayInv, vars, Full
<1>6. CASE EngineStep
  <2>1. PICK p \in Players, i \in Piles, r \in Ranks : draw(p, i, r)
    BY <1>6, Zenon DEF EngineStep
  <2>2. hand' # hand
    <3>1. hand \in [Players -> Bag] /\ hand' = [hand EXCEPT ![p][r] = @ + 1]
      BY <1>2, <2>1, Zenon DEF draw, Take, RoundInv, TypeOK
    <3>2. hand'[p][r] # hand[p][r]
      BY <3>1 DEF Bag
    <3>3. QED
      BY <3>2
  <2>3. PICK j \in Piles, q \in Ranks :
          /\ LoggedDraw(j, q)
          /\ frame' = replayDraw(frame, turn, j, q)
          /\ drawer' = IF phase' = "complete" THEN NoPlayer ELSE turn
    BY <1>3, <2>2
  <2>4. frame = [hand |-> hand, piles |-> piles, leader |-> leader]
    BY DEF ReplayInv
  <2>5. /\ frame' = [hand |-> hand', piles |-> piles', leader |-> leader']
        /\ drawer' \in Players => drawer' = p /\ hand'[p] # NoCards
        /\ drawer' \in Players => phase' = "turn" /\ (turn' # p => p = leader' \/ Full(hand', p))
    BY <1>2, <2>1, <2>3, <2>4, DrawIsShown
  <2>6. QED
    BY <1>2, <2>5 DEF ReplayInv
<1>7. QED
  BY <1>4, <1>5, <1>6

\* What is shown of a round of Card Flip is what there is: the replay, which works piles and leader
\* out again from the cards, has those of the table after every draw; the draw is offered to the
\* one player it is accepted from; and the card marked as just drawn is of that player or
\* decided the turn before.
THEOREM RoundIsShown == ReplaySpec => []ViewsShowTheRound
<1>1. ReplayInit => ReplayInv
  <2> SUFFICES ASSUME ReplayInit PROVE ReplayInv
    OBVIOUS
  <2>1. TableInit /\ TableInv /\ frame = FirstFrame /\ drawer = NoPlayer
    BY DealTableInv DEF ReplayInit
  <2>2. hand = [p \in Players |-> NoCards] /\ leader = NoPlayer
        /\ piles = [i \in Piles |-> (Size(Deck) + 2 - i) \div 3]
    BY <2>1, Zenon DEF TableInit, Init
  <2>3. \A i \in Piles :
          (Size(Deck) + 2 - i) \div 3 = Size(Deck) \div 3 + (IF i < (Size(Deck) % 3) THEN 1 ELSE 0)
    <3> DEFINE n == Size(Deck)
    <3>1. n \in Nat
      BY CardsAssumption, SizeIsNatural
    <3> HIDE DEF n
    <3>2. \A i \in 0 .. 2 : (n + 2 - i) \div 3 = n \div 3 + (IF i < (n % 3) THEN 1 ELSE 0)
      BY <3>1
    <3>3. QED
      BY <3>2 DEF n, Piles
  <2>4. piles = pileCounts(Size(Deck))
    BY <2>2, <2>3 DEF pileCounts
  <2>5. drawer \notin Players
    BY <2>1 DEF NoPlayer, Players
  <2>6. QED
    BY <2>1, <2>2, <2>4, <2>5 DEF ReplayInv, FirstFrame
<1>2. ReplayInv => ViewsShowTheRound
  <2> SUFFICES ASSUME ReplayInv PROVE ViewsShowTheRound
    OBVIOUS
  <2>1. phase = "turn" => \E p \in Players : canDraw(p) /\ ~Full(hand, p) /\ pileButtons # {}
    BY SomebodyIsOfferedADraw DEF ReplayInv, TableInv
  <2>2. \A p \in Players :
          justDrewLastCard(p) => /\ hand[p] # NoCards
                                 /\ ~canDraw(p) => p = leader \/ Full(hand, p)
    BY DEF ReplayInv, justDrewLastCard, canDraw
  <2>3. QED
    BY <2>1, <2>2 DEF ReplayInv, ViewsShowTheRound
<1>3. QED
  BY <1>1, <1>2, ReplayKeeps, PTL DEF ReplaySpec
=============================================================================
