--------------------------- MODULE PokerHand_proofs ---------------------------
(***************************************************************************)
(* Proofs about whole poker hands (PokerPots, PokerHand and PokerReplay):  *)
(* for every number of seats and boards, every stack, deck, list of        *)
(* streets, way of scoring and bounty, and however the hands compare.      *)
(***************************************************************************)
EXTENDS PokerReplay, Settlement, PokerBetting_proofs

\* The sums of the model are those of the lemmas of Sums.
LEMMA TotalIsSum ==
  ASSUME NEW f, NEW S
  PROVE  TotalOver(f, S) = SumFunctionOnSet(f, S)
BY Zenon DEF TotalOver, MapThenSumSet, MapThenFoldSet, SumFunctionOnSet, FoldFunctionOnSet

\* The largest of some naturals is one of them.
LEMMA MaxIs ==
  ASSUME NEW S \in SUBSET Nat, IsFiniteSet(S), S # {}
  PROVE  Max(S) \in S /\ Max(S) \in Nat /\ \A y \in S : y <= Max(S)
<1>1. \E x \in S : \A y \in S : y <= x
  BY GreatestNatural
<1>2. \E x \in S : \A y \in S : x >= y
  BY <1>1
<1>3. Max(S) \in S /\ \A y \in S : Max(S) >= y
  BY <1>2 DEF Max
<1>4. QED
  BY <1>3

-----------------------------------------------------------------------------
(* Side pots, for contributions c of a finite set of players P.            *)

Bets(c, P) == IsFiniteSet(P) /\ \A q \in P : c[q] \in Nat

\* The level a pot begins at, and how much each contributor has in that pot.
LevelBelow(l, c, P) == Max({m \in Levels(c, P) : m < l} \cup {0})
Gaps(c, P) == [l \in Levels(c, P) |-> l - LevelBelow(l, c, P)]
LevelsTo(x, c, P) == {l \in Levels(c, P) : l <= x}
Contributing(l, c, P) == {q \in P : c[q] >= l}

\* Levels are finitely many positive numbers.
LEMMA LevelsAre ==
  ASSUME NEW c, NEW P, Bets(c, P)
  PROVE  /\ IsFiniteSet(Levels(c, P)) /\ Levels(c, P) \in SUBSET (Nat \ {0})
         /\ \A x : IsFiniteSet(LevelsTo(x, c, P)) /\ LevelsTo(x, c, P) \in SUBSET Levels(c, P)
<1> DEFINE S == {c[q] : q \in P}
<1>1. IsFiniteSet(P) /\ S \in SUBSET Nat
  BY DEF Bets
<1> DEFINE k == [q \in P |-> c[q]]
<1>2. k \in [P -> S] /\ \A u \in S : \E q \in P : k[q] = u
  OBVIOUS
<1>3. Levels(c, P) = S \ {0}
  BY DEF Levels
<1> HIDE DEF S, k
<1>4. k \in Surjection(P, S)
  BY <1>2, Zenon DEF Surjection
<1>5. IsFiniteSet(S)
  BY <1>1, <1>4, FS_Surjection, Zenon
<1>6. IsFiniteSet(Levels(c, P)) /\ Levels(c, P) \in SUBSET (Nat \ {0})
  BY <1>1, <1>3, <1>5, FS_Subset
<1>7. \A x : LevelsTo(x, c, P) \in SUBSET Levels(c, P)
  BY DEF LevelsTo
<1>8. QED
  BY <1>6, <1>7, FS_Subset

\* A pot begins where the one below it ends.
LEMMA LevelBelowIs ==
  ASSUME NEW c, NEW P, Bets(c, P), NEW l \in Levels(c, P)
  PROVE  /\ LevelBelow(l, c, P) \in Levels(c, P) \cup {0}
         /\ LevelBelow(l, c, P) \in Nat /\ LevelBelow(l, c, P) < l
         /\ \A m \in Levels(c, P) : m < l => m <= LevelBelow(l, c, P)
<1> DEFINE lower == {m \in Levels(c, P) : m < l}
           S == lower \cup {0}
<1>1. IsFiniteSet(Levels(c, P)) /\ Levels(c, P) \in SUBSET (Nat \ {0})
  BY LevelsAre
<1>2. IsFiniteSet(lower)
  BY <1>1, FS_Subset
<1>3. IsFiniteSet(S) /\ S \in SUBSET Nat /\ S # {}
  BY <1>1, <1>2, FS_AddElement, SMTT(30)
<1>4. Max(S) \in S /\ Max(S) \in Nat /\ \A y \in S : y <= Max(S)
  <2> HIDE DEF S
  <2>1. QED
    BY <1>3, MaxIs
<1>5. LevelBelow(l, c, P) = Max(S)
  BY DEF LevelBelow
<1> HIDE DEF LevelBelow
<1>6. QED
  BY <1>1, <1>4, <1>5

\* Up to any level, the pots take from a contributor what it has put in up to that level.
LEMMA GapsAddUp ==
  ASSUME NEW c, NEW P, Bets(c, P), NEW x \in Levels(c, P) \cup {0}
  PROVE  SumFunctionOnSet(Gaps(c, P), LevelsTo(x, c, P)) = x
<1> DEFINE L == Levels(c, P)
           g == Gaps(c, P)
           upTo(y) == LevelsTo(y, c, P)
           Wrong == {y \in L \cup {0} : SumFunctionOnSet(g, upTo(y)) # y}
<1>1. /\ L \in SUBSET (Nat \ {0})
      /\ \A y : IsFiniteSet(upTo(y)) /\ upTo(y) \in SUBSET L
  BY LevelsAre
<1>2. SUFFICES ASSUME Wrong # {} PROVE FALSE
  OBVIOUS
<1>3. Wrong \in SUBSET Nat
  BY <1>1
<1>4. PICK y \in Wrong : \A z \in Wrong : y <= z
  BY <1>2, <1>3, LeastNatural, Zenon
<1>5. y # 0
  <2>1. upTo(0) = {}
    BY <1>1 DEF LevelsTo
  <2>2. SumFunctionOnSet(g, upTo(0)) = 0
    BY <2>1, SumOfNone
  <2>3. QED
    BY <2>2
<1>6. y \in L
  BY <1>5
<1> DEFINE b == LevelBelow(y, c, P)
<1>7. b \in L \cup {0} /\ b \in Nat /\ b < y /\ \A m \in L : m < y => m <= b
  BY <1>6, LevelBelowIs
<1>8. SumFunctionOnSet(g, upTo(b)) = b
  <2>1. b \notin Wrong
    BY <1>1, <1>4, <1>6, <1>7
  <2>2. QED
    BY <1>7, <2>1
<1>9. upTo(y) \ {y} = upTo(b) /\ y \in upTo(y)
  BY <1>1, <1>6, <1>7 DEF LevelsTo
<1>10. \A l \in L : g[l] \in Int
  BY <1>1, LevelBelowIs DEF Gaps
<1>11. g[y] = y - b
  BY <1>6 DEF Gaps
<1>12. SumFunctionOnSet(g, upTo(y)) = g[y] + SumFunctionOnSet(g, upTo(y) \ {y})
  BY <1>1, <1>9, <1>10, SumWithout
<1>13. SumFunctionOnSet(g, upTo(y)) = y
  BY <1>1, <1>6, <1>7, <1>8, <1>9, <1>11, <1>12
<1>14. QED
  BY <1>13

\* The pots up to any level hold what everybody has put in up to that level.
LEMMA PotsUpTo ==
  ASSUME NEW c, NEW P, Bets(c, P), NEW x \in Levels(c, P) \cup {0}, NEW a,
         \A l \in Levels(c, P) : a[l] = Gaps(c, P)[l] * Cardinality(Contributing(l, c, P))
  PROVE  SumFunctionOnSet(a, LevelsTo(x, c, P))
           = SumFunctionOnSet([q \in P |-> Least(c[q], x)], P)
<1> DEFINE L == Levels(c, P)
           g == Gaps(c, P)
           U == LevelsTo(x, c, P)
           f == [l \in U |-> [q \in P |-> IF c[q] >= l THEN g[l] ELSE 0]]
           row == [l \in U |-> SumFunctionOnSet(f[l], P)]
           col(q) == [l \in U |-> f[l][q]]
           column == [q \in P |-> SumFunctionOnSet(col(q), U)]
           up == [q \in P |-> Least(c[q], x)]
<1>1. /\ L \in SUBSET (Nat \ {0}) /\ IsFiniteSet(U) /\ U \in SUBSET L
      /\ IsFiniteSet(P) /\ \A q \in P : c[q] \in Nat
  BY LevelsAre DEF Bets
<1>2. \A l \in L : g[l] \in Int
  BY <1>1, LevelBelowIs DEF Gaps
<1>3. \A l \in U, q \in P : /\ f[l][q] \in Int
                            /\ f[l][q] = IF c[q] >= l THEN g[l] ELSE 0
  BY <1>1, <1>2
<1>4. \A l \in U : row[l] = a[l] /\ row[l] \in Int
  <2> SUFFICES ASSUME NEW l \in U PROVE row[l] = a[l] /\ row[l] \in Int
    OBVIOUS
  <2> DEFINE A == {q \in P : c[q] >= l}
             r == f[l]
  <2>1. IsFiniteSet(A) /\ A \in SUBSET P
    BY <1>1, FS_Subset
  <2>2. /\ \A q \in P : r[q] \in Int
        /\ \A q \in P \ A : r[q] = 0
        /\ \A q \in A : r[q] = g[l]
    BY <1>3
  <2>3. row[l] = SumFunctionOnSet(r, P)
    OBVIOUS
  <2>4. a[l] = g[l] * Cardinality(A) /\ g[l] \in Int
    BY <1>1, <1>2 DEF Contributing
  <2>5. Cardinality(A) \in Nat
    BY <2>1, FS_CardinalityType
  <2> HIDE DEF r, row, A, g
  <2>6. SumFunctionOnSet(r, P) = SumFunctionOnSet(r, A)
    BY <1>1, <2>1, <2>2, SumOverPart
  <2>7. SumFunctionOnSet(r, A) = g[l] * Cardinality(A)
    BY <2>1, <2>2, <2>4, SumOfConstant
  <2>8. QED
    BY <2>3, <2>4, <2>5, <2>6, <2>7
<1>5. \A q \in P : column[q] = up[q] /\ column[q] \in Int
  <2> SUFFICES ASSUME NEW q \in P PROVE column[q] = up[q] /\ column[q] \in Int
    OBVIOUS
  <2> DEFINE y == Least(c[q], x)
             A == LevelsTo(y, c, P)
             w == col(q)
  <2>1. y \in L \cup {0} /\ y \in Int /\ y <= x /\ up[q] = y
    BY <1>1 DEF Levels, Least
  <2>2. A \in SUBSET U
    BY <1>1, <2>1 DEF LevelsTo
  <2>3. \A l \in U : l \in A <=> c[q] >= l
    BY <1>1 DEF LevelsTo, Least
  <2>4. /\ \A l \in U : w[l] \in Int
        /\ \A l \in U \ A : w[l] = 0
        /\ \A l \in A : w[l] \in Int /\ w[l] = g[l]
    BY <1>3, <2>2, <2>3
  <2>5. IsFiniteSet(A)
    BY LevelsAre
  <2>6. column[q] = SumFunctionOnSet(w, U)
    OBVIOUS
  <2> HIDE DEF w, column, g
  <2>7. SumFunctionOnSet(w, U) = SumFunctionOnSet(w, A)
    BY <1>1, <2>2, <2>4, SumOverPart
  <2>8. SumFunctionOnSet(w, A) = SumFunctionOnSet(g, A)
    BY <2>4, <2>5, SumOfEqual
  <2>9. SumFunctionOnSet(g, A) = y
    BY <2>1, GapsAddUp DEF g
  <2>10. QED
    BY <2>1, <2>6, <2>7, <2>8, <2>9
<1>6. SumFunctionOnSet(row, U) = SumFunctionOnSet(column, P)
  <2>1. \A l \in U, q \in P : f[l][q] \in Int
    BY <1>3
  <2>2. IsFiniteSet(U) /\ IsFiniteSet(P)
    BY <1>1
  <2> HIDE DEF f, U
  <2>3. QED
    BY <2>1, <2>2, SumOfRows, Zenon
<1> HIDE DEF row, column, up
<1>7. SumFunctionOnSet(row, U) = SumFunctionOnSet(a, U)
  BY <1>1, <1>4, SumOfEqual
<1>8. SumFunctionOnSet(column, P) = SumFunctionOnSet(up, P)
  BY <1>1, <1>5, SumOfEqual
<1>9. QED
  BY <1>6, <1>7, <1>8 DEF up

-----------------------------------------------------------------------------
(* What a pot pays.                                                        *)

\* Winners in an order without ties.
Ranked(rank, W) ==
  /\ \A x \in W : rank[x] \in Nat
  /\ \A x, y \in W : rank[x] = rank[y] => x = y

\* Nothing is lost in a split: the odd chips make up for what does not divide.
LEMMA SplitAddsUp ==
  ASSUME NEW T, IsFiniteSet(T), NEW W \in SUBSET T, W # {}, NEW rank, Ranked(rank, W),
         NEW amount \in Nat
  PROVE  /\ \A s \in T : splitAmountEvenly(amount, W, rank, s) \in Nat
         /\ SumFunctionOnSet([s \in T |-> splitAmountEvenly(amount, W, rank, s)], T) = amount
<1> DEFINE n == Cardinality(W)
           odd == {x \in W : Cardinality({y \in W : rank[y] < rank[x]}) < amount % n}
           base == [s \in T |-> IF s \in W THEN amount \div n ELSE 0]
           extra == [s \in T |-> IF s \in odd THEN 1 ELSE 0]
           share == [s \in T |-> splitAmountEvenly(amount, W, rank, s)]
<1>1. IsFiniteSet(W) /\ n \in Nat \ {0}
  <2>1. IsFiniteSet(W)
    BY FS_Subset
  <2>2. Cardinality(W) \in Nat /\ Cardinality(W) # 0
    BY <2>1, FS_CardinalityType, FS_EmptySet
  <2>3. QED
    BY <2>1, <2>2
<1>2. /\ amount \div n \in Nat /\ amount % n \in 0 .. n - 1 /\ amount % n \in 0 .. n
      /\ amount = n * (amount \div n) + (amount % n)
  <2> HIDE DEF n
  <2>1. QED
    BY <1>1
<1>3. Cardinality(odd) = amount % n
  <2> DEFINE k == amount % n
  <2>1. k \in 0 .. Cardinality(W)
    BY <1>2
  <2> HIDE DEF k
  <2>2. Cardinality({x \in W : Cardinality({y \in W : rank[y] < rank[x]}) < k}) = k
    BY <1>1, <2>1, FirstAreAsMany DEF Ranked
  <2>3. QED
    BY <2>2 DEF k
<1>4. \A s \in T : share[s] = base[s] + extra[s]
  <2> SUFFICES ASSUME NEW s \in T PROVE share[s] = base[s] + extra[s]
    OBVIOUS
  <2>1. base[s] = (IF s \in W THEN amount \div n ELSE 0) /\ extra[s] = (IF s \in odd THEN 1 ELSE 0)
    OBVIOUS
  <2>2. CASE s \in W
    <3>1. share[s] = amount \div n + (IF s \in odd THEN 1 ELSE 0)
      BY <2>2, Zenon DEF splitAmountEvenly
    <3>2. QED
      BY <2>1, <2>2, <3>1, Zenon
  <2>3. CASE s \notin W
    <3>1. share[s] = 0 /\ base[s] = 0 /\ extra[s] = 0
      BY <2>1, <2>3 DEF splitAmountEvenly
    <3>2. QED
      BY <3>1
  <2>4. QED
    BY <2>2, <2>3
<1>5. \A s \in T : /\ base[s] \in Nat /\ extra[s] \in Nat
                   /\ share[s] = splitAmountEvenly(amount, W, rank, s)
  BY <1>2
<1>6. /\ \A s \in W : base[s] = amount \div n
      /\ \A s \in T \ W : base[s] = 0
      /\ \A s \in odd : extra[s] = 1
      /\ \A s \in T \ odd : extra[s] = 0
      /\ odd \in SUBSET T /\ odd \in SUBSET W
  OBVIOUS
<1>7. IsFiniteSet(odd)
  BY <1>1, <1>6, FS_Subset
<1> HIDE DEF base, extra, share, odd, n
<1>8. SumFunctionOnSet(base, T) = (amount \div n) * n
  <2>1. SumFunctionOnSet(base, T) = SumFunctionOnSet(base, W)
    BY <1>5, <1>6, SumOverPart
  <2>2. SumFunctionOnSet(base, W) = (amount \div n) * Cardinality(W)
    <3>1. amount \div n \in Int
      BY <1>2
    <3>2. QED
      BY <1>1, <1>6, <3>1, SumOfConstant
  <2>3. QED
    BY <2>1, <2>2 DEF n
<1>9. SumFunctionOnSet(extra, T) = amount % n
  <2>1. SumFunctionOnSet(extra, T) = SumFunctionOnSet(extra, odd)
    BY <1>5, <1>6, SumOverPart
  <2>2. SumFunctionOnSet(extra, odd) = 1 * Cardinality(odd)
    BY <1>6, <1>7, SumOfConstant
  <2>3. QED
    BY <1>2, <1>3, <2>1, <2>2
<1>10. SumFunctionOnSet(share, T) = SumFunctionOnSet(base, T) + SumFunctionOnSet(extra, T)
  BY <1>4, <1>5, SumOfSum
<1>11. SumFunctionOnSet(share, T) = amount
  BY <1>1, <1>2, <1>8, <1>9, <1>10
<1>12. \A s \in T : splitAmountEvenly(amount, W, rank, s) \in Nat
  BY <1>4, <1>5
<1>13. QED
  BY <1>11, <1>12 DEF share

\* Somebody has the best hand.
LEMMA BestIs ==
  ASSUME NEW E, IsFiniteSet(E), E # {}, NEW strength, \A s \in E : strength[s] \in Nat
  PROVE  Best(strength, E) \in SUBSET E /\ Best(strength, E) # {}
<1> DEFINE S == {strength[s] : s \in E}
           k == [s \in E |-> strength[s]]
<1>1. k \in [E -> S] /\ (\A u \in S : \E s \in E : k[s] = u) /\ S \subseteq Nat /\ S # {}
  OBVIOUS
<1>2. IsFiniteSet(S)
  <2> HIDE DEF k, S
  <2>1. k \in Surjection(E, S)
    BY <1>1, Zenon DEF Surjection
  <2>2. QED
    BY <2>1, FS_Surjection, Zenon
<1>3. \E x \in S : \A y \in S : y <= x
  <2> HIDE DEF S
  <2>1. QED
    BY <1>1, <1>2, GreatestNatural
<1>4. QED
  BY <1>3 DEF Best

\* The boards' shares make up the pot.
LEMMA BoardSharesAddUp ==
  ASSUME NEW n \in Nat \ {0}, NEW amount \in Nat
  PROVE  /\ \A b \in 1 .. n : BoardShare(amount, n, b) \in Nat
         /\ SumFunctionOnSet([b \in 1 .. n |-> BoardShare(amount, n, b)], 1 .. n) = amount
<1> DEFINE each == amount \div n
           even == [b \in 1 .. n |-> each]
           share == [b \in 1 .. n |-> BoardShare(amount, n, b)]
<1>1. n \in Nat \ {0}
  OBVIOUS
<1>2. each \in Nat /\ amount % n \in Nat /\ amount = n * each + (amount % n)
  BY <1>1
<1>3. IsFiniteSet(1 .. n) /\ Cardinality(1 .. n) = n
  BY <1>1, FS_Interval
<1>4. \A b \in 1 .. n : even[b] = each /\ even[b] \in Int
  BY <1>2
<1>5. share[1] = amount - each * (n - 1) /\ \A b \in (1 .. n) \ {1} : share[b] = each
  BY <1>1 DEF BoardShare
<1>6. each * (n - 1) = n * each - each /\ each * n = n * each
  <2> HIDE DEF each
  <2>1. QED
    BY <1>1, <1>2
<1>7. \A b \in 1 .. n : share[b] = BoardShare(amount, n, b)
  OBVIOUS
<1> HIDE DEF each, even, share
<1>8. SumFunctionOnSet(even, 1 .. n) = n * each
  <2>1. SumFunctionOnSet(even, 1 .. n) = each * Cardinality(1 .. n)
    <3> DEFINE D == 1 .. n
    <3>1. IsFiniteSet(D) /\ each \in Int /\ \A b \in D : even[b] = each
      BY <1>2, <1>3, <1>4
    <3> HIDE DEF D
    <3>2. SumFunctionOnSet(even, D) = each * Cardinality(D)
      BY <3>1, SumOfConstant
    <3>3. QED
      BY <3>2 DEF D
  <2>2. QED
    BY <1>3, <1>6, <2>1
<1>9. SumFunctionOnSet(share, 1 .. n) = n * each + (amount - n * each)
  <2>1. n * each \in Int
    BY <1>1, <1>2
  <2>2. 1 \in 1 .. n /\ share[1] = even[1] + (amount - n * each)
    BY <1>1, <1>2, <1>4, <1>5, <1>6, <2>1
  <2>3. \A b \in (1 .. n) \ {1} : share[b] = even[b]
    BY <1>4, <1>5
  <2>4. amount - n * each \in Int
    BY <2>1
  <2>5. SumFunctionOnSet(share, 1 .. n)
          = SumFunctionOnSet(even, 1 .. n) + (amount - n * each)
    <3> DEFINE D == 1 .. n
               d == amount - n * each
    <3>1. /\ IsFiniteSet(D) /\ \A b \in D : even[b] \in Int
          /\ 1 \in D /\ d \in Int /\ share[1] = even[1] + d
          /\ \A b \in D \ {1} : share[b] = even[b]
      BY <1>3, <1>4, <2>2, <2>3, <2>4
    <3> HIDE DEF D, d
    <3>2. SumFunctionOnSet(share, D) = SumFunctionOnSet(even, D) + d
      BY <3>1, SumAfterChange
    <3>3. QED
      BY <3>2 DEF D, d
  <2>6. QED
    BY <1>8, <2>5
<1>10. SumFunctionOnSet(share, 1 .. n) = amount
  <2>1. n * each \in Int
    BY <1>1, <1>2
  <2>2. QED
    BY <1>9, <2>1
<1>11. \A b \in 1 .. n : share[b] \in Nat
  <2>1. share[1] = amount - n * each + each
    BY <1>1, <1>2, <1>5, <1>6
  <2>2. share[1] \in Nat
    BY <1>1, <1>2, <2>1
  <2>3. QED
    BY <1>2, <1>5, <2>2
<1>12. QED
  BY <1>7, <1>10, <1>11 DEF share

\* How the hands of H may compare at a showdown.
ShowdownOf(showdown, H) ==
  /\ \E n \in Nat \ {0} : DOMAIN showdown.board = 1 .. n
  /\ \A s \in H : /\ \A b \in DOMAIN showdown.board : showdown.board[b][s] \in Nat
                  /\ showdown.own[s] \in Nat /\ showdown.low[s] \in Nat

\* Best hands of all boards together take the pot.
LEMMA BestHandSplits ==
  ASSUME NEW T, IsFiniteSet(T), NEW rank, Ranked(rank, T), NEW showdown,
         NEW pot, ShowdownOf(showdown, pot.eligible), pot.amount \in Nat, pot.eligible \in SUBSET T, pot.eligible # {}
  PROVE  /\ \A s \in T : BestHandShare(pot, showdown, rank, s) \in Nat
         /\ SumFunctionOnSet([s \in T |-> BestHandShare(pot, showdown, rank, s)], T) = pot.amount
<1> PICK n \in Nat \ {0} : DOMAIN showdown.board = 1 .. n
  BY DEF ShowdownOf
<1> DEFINE D == 1 .. n
           won(b) == BoardShare(pot.amount, n, b)
           best(b) == Best(showdown.board[b], pot.eligible)
           f == [s \in T |-> [b \in D |-> splitAmountEvenly(won(b), best(b), rank, s)]]
           row == [s \in T |-> SumFunctionOnSet(f[s], D)]
           column == [b \in D |-> SumFunctionOnSet([s \in T |-> f[s][b]], T)]
           boards == [b \in D |-> won(b)]
<1>1. /\ \A b \in D : won(b) \in Nat
      /\ SumFunctionOnSet(boards, D) = pot.amount
      /\ IsFiniteSet(D) /\ Cardinality(D) = n /\ DOMAIN showdown.board = D
  <2>1. IsFiniteSet(D) /\ Cardinality(D) = n
    <3>1. 1 \in Int /\ n \in Int /\ ~(1 > n) /\ n - 1 + 1 = n
      OBVIOUS
    <3>2. QED
      BY <3>1, FS_Interval
  <2>2. DOMAIN showdown.board = D
    BY DEF ShowdownOf
  <2>3. (\A b \in D : won(b) \in Nat) /\ SumFunctionOnSet(boards, D) = pot.amount
    BY BoardSharesAddUp, Zenon
  <2>4. QED
    BY <2>1, <2>2, <2>3
<1>2. \A b \in D : best(b) \in SUBSET T /\ best(b) # {} /\ Ranked(rank, best(b))
  <2> SUFFICES ASSUME NEW b \in D
               PROVE  best(b) \in SUBSET T /\ best(b) # {} /\ Ranked(rank, best(b))
    OBVIOUS
  <2>1. IsFiniteSet(pot.eligible)
    BY FS_Subset
  <2>2. \A s \in pot.eligible : showdown.board[b][s] \in Nat
    BY DEF ShowdownOf
  <2>3. best(b) \in SUBSET pot.eligible /\ best(b) # {}
    BY <2>1, <2>2, BestIs
  <2>4. QED
    BY <2>3 DEF Ranked
<1>3. \A b \in D : /\ \A s \in T : splitAmountEvenly(won(b), best(b), rank, s) \in Nat
                   /\ SumFunctionOnSet([s \in T |-> splitAmountEvenly(won(b), best(b), rank, s)], T)
                        = won(b)
  <2> SUFFICES ASSUME NEW b \in D
               PROVE  /\ \A s \in T : splitAmountEvenly(won(b), best(b), rank, s) \in Nat
                      /\ SumFunctionOnSet([s \in T |-> splitAmountEvenly(won(b), best(b), rank, s)], T)
                           = won(b)
    OBVIOUS
  <2> DEFINE W == best(b)
             amount == won(b)
  <2>1. amount \in Nat /\ W \in SUBSET T /\ W # {} /\ Ranked(rank, W)
    BY <1>1, <1>2
  <2> HIDE DEF W, amount
  <2>2. /\ \A s \in T : splitAmountEvenly(amount, W, rank, s) \in Nat
        /\ SumFunctionOnSet([s \in T |-> splitAmountEvenly(amount, W, rank, s)], T) = amount
    BY <2>1, SplitAddsUp
  <2>3. QED
    BY <2>2 DEF W, amount
<1>4. \A s \in T, b \in D : f[s][b] = splitAmountEvenly(won(b), best(b), rank, s)
  OBVIOUS
<1>5. \A s \in T, b \in D : f[s][b] \in Nat
  <2> HIDE DEF f, won, best, D
  <2>1. QED
    BY <1>3, <1>4, Zenon
<1>6. \A b \in D : column[b] = won(b)
  <2> SUFFICES ASSUME NEW b \in D PROVE column[b] = won(b)
    OBVIOUS
  <2>1. [s \in T |-> f[s][b]] = [s \in T |-> splitAmountEvenly(won(b), best(b), rank, s)]
    BY <1>4, Zenon
  <2>2. column[b] = SumFunctionOnSet([s \in T |-> f[s][b]], T)
    OBVIOUS
  <2> HIDE DEF f, won, best, D, column
  <2>3. QED
    BY <1>3, <2>1, <2>2
<1>7. \A s \in T : row[s] = BestHandShare(pot, showdown, rank, s)
  <2> SUFFICES ASSUME NEW s \in T PROVE row[s] = BestHandShare(pot, showdown, rank, s)
    OBVIOUS
  <2>1. f[s] = [b \in D |-> splitAmountEvenly(won(b), best(b), rank, s)] /\ row[s] = SumFunctionOnSet(f[s], D)
    OBVIOUS
  <2> DEFINE C == DOMAIN showdown.board
             part(b) == splitAmountEvenly(BoardShare(pot.amount, Cardinality(C), b), best(b), rank, s)
  <2>2. BestHandShare(pot, showdown, rank, s) = MapThenSumSet(LAMBDA b : part(b), C)
    BY Zenon DEF BestHandShare
  <2>3. MapThenSumSet(LAMBDA b : part(b), C) = SumFunctionOnSet([b \in C |-> part(b)], C)
    <3> HIDE DEF C, part
    <3>1. QED
      BY ZenonT(60) DEF MapThenSumSet, MapThenFoldSet, SumFunctionOnSet, FoldFunctionOnSet
  <2>4. C = D /\ \A b : part(b) = splitAmountEvenly(won(b), best(b), rank, s)
    BY <1>1
  <2> HIDE DEF C, part, D
  <2>5. [b \in C |-> part(b)] = [b \in D |-> splitAmountEvenly(won(b), best(b), rank, s)]
    BY <2>4, Zenon
  <2>6. QED
    BY <2>1, <2>2, <2>3, <2>4, <2>5, Zenon
<1>8. \A s \in T : row[s] \in Nat
  <2> SUFFICES ASSUME NEW s \in T PROVE row[s] \in Nat
    OBVIOUS
  <2> DEFINE r == f[s]
  <2>1. row[s] = SumFunctionOnSet(r, D) /\ \A b \in D : r[b] \in Nat
    BY <1>5
  <2> HIDE DEF r, row, D
  <2>2. QED
    BY <1>1, <2>1, SumCoversTerms
<1>9. SumFunctionOnSet(row, T) = SumFunctionOnSet(column, D)
  <2>1. IsFiniteSet(D) /\ \A s \in T, b \in D : f[s][b] \in Int
    BY <1>1, <1>5
  <2> HIDE DEF f, D
  <2>2. QED
    BY <2>1, SumOfRows, ZenonT(60)
<1>10. SumFunctionOnSet(column, D) = SumFunctionOnSet(boards, D)
  <2>1. \A b \in D : column[b] = boards[b] /\ column[b] \in Int
    BY <1>1, <1>6
  <2> HIDE DEF column, boards, D
  <2>2. QED
    BY <1>1, <2>1, SumOfEqual
<1>11. SumFunctionOnSet(row, T) = pot.amount
  BY <1>1, <1>9, <1>10
<1>12. row = [s \in T |-> BestHandShare(pot, showdown, rank, s)]
  BY <1>7
<1> HIDE DEF row
<1>13. QED
  BY <1>7, <1>8, <1>11, <1>12

\* What is split among the best of some players, they win.
LEMMA BestSplits ==
  ASSUME NEW T, IsFiniteSet(T), NEW E \in SUBSET T, E # {}, NEW rank, Ranked(rank, T),
         NEW strength, \A s \in E : strength[s] \in Nat, NEW amount \in Nat
  PROVE  /\ \A s \in T : splitAmountEvenly(amount, Best(strength, E), rank, s) \in Nat
         /\ SumFunctionOnSet([s \in T |-> splitAmountEvenly(amount, Best(strength, E), rank, s)], T)
              = amount
<1> DEFINE W == Best(strength, E)
<1>1. W \in SUBSET E /\ W # {}
  BY BestIs, FS_Subset
<1>2. W \in SUBSET T /\ Ranked(rank, W)
  BY <1>1 DEF Ranked
<1> HIDE DEF W
<1>3. /\ \A s \in T : splitAmountEvenly(amount, W, rank, s) \in Nat
      /\ SumFunctionOnSet([s \in T |-> splitAmountEvenly(amount, W, rank, s)], T) = amount
  BY <1>1, <1>2, SplitAddsUp
<1>4. QED
  BY <1>3 DEF W

\* The best high hand and the best low hand together take the pot.
LEMMA HiLoSplits ==
  ASSUME NEW T, IsFiniteSet(T), NEW rank, Ranked(rank, T), NEW showdown,
         NEW pot, ShowdownOf(showdown, pot.eligible), pot.amount \in Nat, pot.eligible \in SUBSET T, pot.eligible # {}
  PROVE  /\ \A s \in T : HiLoShare(pot, showdown, rank, s) \in Nat
         /\ SumFunctionOnSet([s \in T |-> HiLoShare(pot, showdown, rank, s)], T) = pot.amount
<1> DEFINE E == pot.eligible
           lows == {t \in E : showdown.low[t] > 0}
           half == pot.amount \div 2
           highs(amount) == [s \in T |-> splitAmountEvenly(amount, Best(showdown.board[1], E), rank, s)]
           low == [s \in T |-> splitAmountEvenly(half, Best(showdown.low, lows), rank, s)]
           share == [s \in T |-> HiLoShare(pot, showdown, rank, s)]
<1>1. half \in Nat /\ pot.amount - half \in Nat /\ half + (pot.amount - half) = pot.amount
  OBVIOUS
<1>2. E \in SUBSET T /\ lows \in SUBSET T
  OBVIOUS
<1>3. /\ \A s \in E : showdown.board[1][s] \in Nat
      /\ \A s \in lows : showdown.low[s] \in Nat
  BY DEF ShowdownOf
<1>4. ASSUME NEW amount \in Nat
      PROVE  /\ \A s \in T : highs(amount)[s] \in Nat
             /\ SumFunctionOnSet(highs(amount), T) = amount
  BY <1>2, <1>3, BestSplits
<1>5. CASE lows = {}
  <2>1. \A s \in T : share[s] = highs(pot.amount)[s]
    BY <1>5 DEF HiLoShare
  <2>2. share = highs(pot.amount)
    BY <2>1
  <2> HIDE DEF share, highs
  <2>3. (\A s \in T : share[s] \in Nat) /\ SumFunctionOnSet(share, T) = pot.amount
    BY <1>4, <2>2
  <2>4. QED
    BY <2>3 DEF share
<1>6. CASE lows # {}
  <2> DEFINE rest == pot.amount - half
             high == highs(rest)
  <2>1. \A s \in T : share[s] = high[s] + low[s]
    BY <1>6 DEF HiLoShare
  <2>2. (\A s \in T : low[s] \in Nat) /\ SumFunctionOnSet(low, T) = half
    <3> HIDE DEF half, lows
    <3>1. QED
      BY <1>1, <1>2, <1>3, <1>6, BestSplits
  <2>3. (\A s \in T : high[s] \in Nat) /\ SumFunctionOnSet(high, T) = rest
    <3>1. rest \in Nat
      BY <1>1
    <3> HIDE DEF rest, highs
    <3>2. QED
      BY <1>4, <3>1
  <2> HIDE DEF share, low, high, rest, half
  <2>4. \A s \in T : high[s] \in Int /\ low[s] \in Int /\ share[s] = high[s] + low[s] /\ share[s] \in Nat
    BY <2>1, <2>2, <2>3
  <2>5. SumFunctionOnSet(share, T) = SumFunctionOnSet(high, T) + SumFunctionOnSet(low, T)
    BY <2>4, SumOfSum
  <2>6. SumFunctionOnSet(share, T) = pot.amount
    BY <1>1, <2>2, <2>3, <2>5 DEF rest
  <2>7. (\A s \in T : share[s] \in Nat) /\ SumFunctionOnSet(share, T) = pot.amount
    BY <2>4, <2>6
  <2>8. QED
    BY <2>7 DEF share
<1>7. QED
  BY <1>5, <1>6

\* Points are natural numbers, however often a point is split.
LEMMA PointsAreNaturals ==
  ASSUME NEW pot, IsFiniteSet(pot.eligible), NEW H, NEW showdown, ShowdownOf(showdown, H),
         NEW own, NEW s
  PROVE  Points(pot, showdown, own, s) \in Nat
<1> DEFINE winners(strength) == Best(strength, pot.eligible)
           point(strength) == IF s \in winners(strength) THEN POINT_SCALE \div Cardinality(winners(strength))
                              ELSE 0
           D == DOMAIN showdown.board
           scored == [b \in D |-> point(showdown.board[b])]
<1>1. ASSUME NEW strength PROVE point(strength) \in Nat
  <2> DEFINE W == winners(strength)
             n == Cardinality(W)
  <2>1. IsFiniteSet(W)
    BY FS_Subset DEF Best
  <2>2. s \in W => n \in Nat \ {0}
    BY <2>1, FS_CardinalityType, FS_EmptySet
  <2>3. \A k \in Nat \ {0} : 2520 \div k \in Nat
    OBVIOUS
  <2>4. point(strength) = IF s \in W THEN 2520 \div n ELSE 0
    BY DEF POINT_SCALE
  <2> HIDE DEF W, n
  <2>5. QED
    BY <2>2, <2>3, <2>4
<1>2. IsFiniteSet(D)
  <2>1. \E n \in Int : 1 \in Int /\ D = 1 .. n
    BY DEF ShowdownOf
  <2> HIDE DEF D
  <2>2. QED
    BY <2>1, FS_Interval
<1> HIDE DEF point, winners
<1>3. \A b \in D : scored[b] \in Nat
  BY <1>1
<1>4. MapThenSumSet(LAMBDA b : point(showdown.board[b]), D) = SumFunctionOnSet(scored, D)
  <2> DEFINE part(b) == point(showdown.board[b])
  <2>1. scored = [b \in D |-> part(b)]
    OBVIOUS
  <2> HIDE DEF D, part
  <2>2. MapThenSumSet(LAMBDA b : part(b), D) = SumFunctionOnSet([b \in D |-> part(b)], D)
    BY Zenon DEF MapThenSumSet, MapThenFoldSet, SumFunctionOnSet, FoldFunctionOnSet
  <2>3. QED
    BY <2>1, <2>2, Zenon DEF part
<1>5. SumFunctionOnSet(scored, D) \in Nat
  <2> HIDE DEF D, scored
  <2>1. QED
    BY <1>2, <1>3, SumCoversTerms
<1>6. Points(pot, showdown, own, s)
        = MapThenSumSet(LAMBDA b : point(showdown.board[b]), D) + IF own THEN point(showdown.own) ELSE 0
  BY Zenon DEF Points, point, winners
<1>7. point(showdown.own) \in Nat
  BY <1>1
<1> HIDE DEF D, scored
<1>8. QED
  BY <1>4, <1>5, <1>6, <1>7

\* The most points take the pot.
LEMMA PointRaceSplits ==
  ASSUME NEW T, IsFiniteSet(T), NEW rank, Ranked(rank, T), NEW showdown, NEW own,
         NEW pot, ShowdownOf(showdown, pot.eligible), pot.amount \in Nat, pot.eligible \in SUBSET T, pot.eligible # {}
  PROVE  /\ \A s \in T : PointRaceShare(pot, showdown, own, rank, s) \in Nat
         /\ SumFunctionOnSet([s \in T |-> PointRaceShare(pot, showdown, own, rank, s)], T) = pot.amount
<1> DEFINE points == [t \in pot.eligible |-> Points(pot, showdown, own, t)]
           share == [s \in T |-> PointRaceShare(pot, showdown, own, rank, s)]
           split == [s \in T |-> splitAmountEvenly(pot.amount, Best(points, pot.eligible), rank, s)]
<1>1. IsFiniteSet(pot.eligible) /\ pot.eligible \in SUBSET T
  BY FS_Subset
<1>2. \A t \in pot.eligible : points[t] \in Nat
  BY <1>1, PointsAreNaturals
<1>3. \A s \in T : share[s] = split[s]
  BY DEF PointRaceShare
<1>4. (\A s \in T : split[s] \in Nat) /\ SumFunctionOnSet(split, T) = pot.amount
  <2> HIDE DEF points
  <2>1. QED
    BY <1>1, <1>2, BestSplits
<1>5. share = split
  BY <1>3
<1> HIDE DEF share, split
<1>6. (\A s \in T : share[s] \in Nat) /\ SumFunctionOnSet(share, T) = pot.amount
  BY <1>4, <1>5
<1>7. QED
  BY <1>6 DEF share

\* How a game may score a showdown.
Scorings == {"best-hand", "hi-lo", "point-race", "point-race-own"}

\* A pot is paid out in full, to players who may win it, if anybody may.
PaysOut(pot, showdown, mode, rank, T) ==
  /\ \A s \in T : PotShare(pot, showdown, mode, rank, s) \in Nat
  /\ \A s \in T \ pot.eligible : PotShare(pot, showdown, mode, rank, s) = 0
  /\ \A s \in T : pot.eligible = {s} => PotShare(pot, showdown, mode, rank, s) = pot.amount
  /\ SumFunctionOnSet([s \in T |-> PotShare(pot, showdown, mode, rank, s)], T)
       = IF pot.eligible = {} THEN 0 ELSE pot.amount

\* So every pot is paid, in all four ways of scoring.
LEMMA PotPaysOut ==
  ASSUME NEW mode \in Scorings, NEW T, IsFiniteSet(T), NEW rank, Ranked(rank, T), NEW showdown,
         NEW pot, ShowdownOf(showdown, pot.eligible), pot.amount \in Nat, pot.eligible \in SUBSET T
  PROVE  PaysOut(pot, showdown, mode, rank, T)
<1> DEFINE E == pot.eligible
           share == [s \in T |-> PotShare(pot, showdown, mode, rank, s)]
           Whole(f) == (\A s \in E : f[s] \in Nat) /\ SumFunctionOnSet(f, E) = pot.amount
<1>1. \A s \in T \ E : share[s] = 0
  BY DEF PotShare
<1>2. \A s \in T : E = {s} => share[s] = pot.amount
  BY DEF PotShare
<1>3. CASE \E t \in T : E = {t}
  <2>1. PICK t \in T : E = {t}
    BY <1>3
  <2>2. \A s \in T : share[s] = IF s = t THEN pot.amount ELSE 0
    BY <1>1, <1>2, <2>1
  <2>3. /\ \A s \in T : share[s] \in Nat /\ share[s] \in Int
        /\ \A s \in T \ {t} : share[s] = 0
        /\ {t} \in SUBSET T /\ share[t] \in Int /\ share[t] = pot.amount
    BY <2>2
  <2> HIDE DEF share
  <2>4. SumFunctionOnSet(share, T) = SumFunctionOnSet(share, {t})
    BY <2>3, SumOverPart
  <2>5. SumFunctionOnSet(share, {t}) = pot.amount
    BY <2>3, SumOfOne
  <2>6. QED
    BY <1>1, <1>2, <2>1, <2>3, <2>4, <2>5 DEF share, PaysOut
<1>4. CASE E = {}
  <2>1. \A s \in T : share[s] = 0 /\ share[s] \in Int
    BY <1>1, <1>4
  <2>2. {} \in SUBSET T /\ \A s \in T \ {} : share[s] = 0
    BY <2>1
  <2> HIDE DEF share
  <2>3. SumFunctionOnSet(share, T) = SumFunctionOnSet(share, {})
    BY <2>1, <2>2, SumOverPart
  <2>4. SumFunctionOnSet(share, T) = 0
    BY <2>3, SumOfNone
  <2>5. QED
    BY <1>1, <1>2, <1>4, <2>1, <2>4 DEF share, PaysOut
<1>5. CASE E # {} /\ ~\E t \in T : E = {t}
  <2> DEFINE best == [s \in E |-> BestHandShare(pot, showdown, rank, s)]
             hiLo == [s \in E |-> HiLoShare(pot, showdown, rank, s)]
             race(own) == [s \in E |-> PointRaceShare(pot, showdown, own, rank, s)]
             any == CASE mode = "hi-lo" -> hiLo
                      [] mode = "point-race" -> race(FALSE)
                      [] mode = "point-race-own" -> race(TRUE)
                      [] mode = "best-hand" -> best
  <2>1. IsFiniteSet(E) /\ Ranked(rank, E)
    BY FS_Subset DEF Ranked
  <2>2. Whole(best)
    <3>1. pot.eligible \in SUBSET pot.eligible /\ pot.eligible # {}
      BY <1>5
    <3>2. QED
      BY <2>1, <3>1, BestHandSplits, Zenon
  <2>3. Whole(hiLo)
    <3>1. pot.eligible \in SUBSET pot.eligible /\ pot.eligible # {}
      BY <1>5
    <3>2. QED
      BY <2>1, <3>1, HiLoSplits, Zenon
  <2>4. \A own \in BOOLEAN : Whole(race(own))
    BY <1>5, <2>1, PointRaceSplits, SMTT(30)
  <2>5. \/ mode = "hi-lo" /\ any = hiLo
        \/ mode = "point-race" /\ any = race(FALSE)
        \/ mode = "point-race-own" /\ any = race(TRUE)
        \/ mode = "best-hand" /\ any = best
    <3> HIDE DEF hiLo, race, best
    <3>1. QED
      BY DEF Scorings
  <2>6. Whole(any)
    <3> HIDE DEF Whole, hiLo, race, best, any
    <3>1. QED
      BY <2>2, <2>3, <2>4, <2>5
  <2>7. \A s \in E : share[s] = any[s]
    <3> SUFFICES ASSUME NEW s \in E PROVE share[s] = any[s]
      OBVIOUS
    <3>1. s \in T /\ E # {s} /\ s \in E
      BY <1>5
    <3>2. QED
      BY <2>5, <3>1 DEF PotShare
  <2> HIDE DEF share, any
  <2>8. \A s \in E : share[s] \in Nat /\ share[s] \in Int /\ share[s] = any[s]
    BY <2>6, <2>7
  <2>9. \A s \in T : share[s] \in Nat /\ share[s] \in Int
    BY <1>1, <2>8
  <2>10. SumFunctionOnSet(share, T) = SumFunctionOnSet(share, E)
    BY <1>1, <2>9, SumOverPart
  <2>11. SumFunctionOnSet(share, E) = SumFunctionOnSet(any, E)
    BY <2>1, <2>8, SumOfEqual
  <2>12. QED
    BY <1>1, <1>2, <1>5, <2>6, <2>9, <2>10, <2>11 DEF share, PaysOut
<1>6. QED
  BY <1>3, <1>4, <1>5

-----------------------------------------------------------------------------
(* All pots together.                                                      *)

PotOf(c, P, F) == [l \in Levels(c, P) |-> PotAt(l, c, P, F)]
Amounts(c, P, F) == [l \in Levels(c, P) |-> PotAt(l, c, P, F).amount]

\* The pot of a level, and who may win it.
LEMMA PotIs ==
  ASSUME NEW c, NEW P, Bets(c, P), NEW F, NEW l \in Levels(c, P)
  PROVE  /\ PotOf(c, P, F)[l].level = l
         /\ PotOf(c, P, F)[l].amount = Amounts(c, P, F)[l]
         /\ PotOf(c, P, F)[l].eligible = Contributing(l, c, P) \ F
         /\ Amounts(c, P, F)[l] = Gaps(c, P)[l] * Cardinality(Contributing(l, c, P))
         /\ Amounts(c, P, F)[l] \in Nat
<1> DEFINE n == Cardinality(Contributing(l, c, P))
           gap == Gaps(c, P)[l]
<1>1. l \in Nat
  BY LevelsAre
<1>2. gap = l - LevelBelow(l, c, P) /\ gap \in Nat
  BY <1>1, LevelBelowIs DEF Gaps
<1>3. n \in Nat
  <2>1. IsFiniteSet(Contributing(l, c, P))
    BY FS_Subset DEF Bets, Contributing
  <2>2. QED
    BY <2>1, FS_CardinalityType
<1>4. gap * n \in Nat
  BY <1>2, <1>3
<1>5. PotAt(l, c, P, F) = [level |-> l, amount |-> (l - LevelBelow(l, c, P)) * n,
                           eligible |-> Contributing(l, c, P) \ F]
  BY Zenon DEF PotAt, LevelBelow, Contributing
<1> HIDE DEF n, gap
<1>6. /\ PotAt(l, c, P, F).level = l
      /\ PotAt(l, c, P, F).amount = (l - LevelBelow(l, c, P)) * n
      /\ PotAt(l, c, P, F).eligible = Contributing(l, c, P) \ F
  BY <1>5
<1>7. Amounts(c, P, F)[l] = gap * n
  BY <1>2, <1>6 DEF Amounts
<1>8. PotOf(c, P, F)[l] = PotAt(l, c, P, F) /\ Amounts(c, P, F)[l] = PotAt(l, c, P, F).amount
  BY DEF PotOf, Amounts
<1>9. QED
  BY <1>4, <1>6, <1>7, <1>8 DEF n, gap

\* A sum over pots is a sum over their levels.
LEMMA SumOverPots ==
  ASSUME NEW c, NEW P, Bets(c, P), NEW F, NEW K \in SUBSET Levels(c, P), NEW U,
         \A l \in K : PotOf(c, P, F)[l] \in U, \A u \in U : \E l \in K : PotOf(c, P, F)[l] = u,
         NEW f, NEW g, \A l \in K : g[l] \in Int /\ f[PotOf(c, P, F)[l]] = g[l]
  PROVE  SumFunctionOnSet(f, U) = SumFunctionOnSet(g, K)
<1> DEFINE h == PotOf(c, P, F)
<1>1. IsFiniteSet(K)
  BY LevelsAre, FS_Subset
<1>2. \A l, m \in K : h[l] = h[m] => l = m
  <2> SUFFICES ASSUME NEW l \in K, NEW m \in K, h[l] = h[m] PROVE l = m
    OBVIOUS
  <2>1. PotOf(c, P, F)[l].level = l /\ PotOf(c, P, F)[m].level = m
    <3>1. l \in Levels(c, P) /\ m \in Levels(c, P)
      OBVIOUS
    <3>2. QED
      BY <3>1, PotIs
  <2>2. QED
    BY <2>1, Zenon
<1> HIDE DEF h
<1>3. \A l \in K : h[l] \in U
  BY Zenon DEF h
<1>4. \A u \in U : \E l \in K : h[l] = u
  BY Zenon DEF h
<1>5. \A l \in K : g[l] \in Int /\ f[h[l]] = g[l]
  BY Zenon DEF h
<1>6. QED
  BY <1>1, <1>2, <1>3, <1>4, <1>5, SumOverNames, SMTT(30)

\* The pots hold what was put in.
LEMMA PotsHoldAll ==
  ASSUME NEW c, NEW P, Bets(c, P), NEW F
  PROVE  SumFunctionOnSet(Amounts(c, P, F), Levels(c, P)) = SumFunctionOnSet(c, P)
<1> DEFINE L == Levels(c, P)
           S == L \cup {0}
<1>1. IsFiniteSet(L) /\ L \in SUBSET (Nat \ {0})
  BY LevelsAre
<1>2. IsFiniteSet(S) /\ S \in SUBSET Nat /\ S # {}
  BY <1>1, FS_AddElement
<1>3. PICK x \in S : \A y \in S : y <= x
  <2> HIDE DEF S
  <2>1. QED
    BY <1>2, GreatestNatural
<1>4. LevelsTo(x, c, P) = L
  BY <1>3 DEF LevelsTo
<1> DEFINE up == [q \in P |-> Least(c[q], x)]
           a == Amounts(c, P, F)
<1>5. \A l \in L : a[l] = Gaps(c, P)[l] * Cardinality(Contributing(l, c, P))
  BY PotIs
<1>6. SumFunctionOnSet(a, L) = SumFunctionOnSet(up, P)
  <2> HIDE DEF a
  <2>1. QED
    BY <1>4, <1>5, PotsUpTo
<1>7. \A q \in P : up[q] \in Int /\ up[q] = c[q]
  <2> SUFFICES ASSUME NEW q \in P PROVE Least(c[q], x) = c[q] /\ c[q] \in Int
    OBVIOUS
  <2>1. c[q] \in S /\ c[q] \in Nat /\ x \in Nat
    BY <1>2 DEF Levels, Bets
  <2>2. QED
    BY <1>3, <2>1 DEF Least
<1> HIDE DEF up
<1>8. SumFunctionOnSet(up, P) = SumFunctionOnSet(c, P)
  BY <1>7, SumOfEqual DEF Bets
<1>9. QED
  BY <1>6, <1>8

\* What each pot pays, when the unfolded hands are compared.
LEMMA LevelPaysOut ==
  ASSUME NEW mode \in Scorings, NEW T, IsFiniteSet(T), NEW c, NEW P \in SUBSET T, Bets(c, P), NEW F,
         NEW rank, Ranked(rank, T), NEW showdown, ShowdownOf(showdown, P \ F), NEW l \in Levels(c, P)
  PROVE  PaysOut(PotOf(c, P, F)[l], showdown, mode, rank, T)
<1> DEFINE pot == PotOf(c, P, F)[l]
<1>1. pot.amount \in Nat /\ pot.eligible = Contributing(l, c, P) \ F
  BY PotIs
<1>2. pot.eligible \in SUBSET (P \ F) /\ pot.eligible \in SUBSET T
  BY <1>1 DEF Contributing
<1>3. ShowdownOf(showdown, pot.eligible)
  BY <1>2 DEF ShowdownOf
<1> HIDE DEF pot
<1>4. QED
  BY <1>1, <1>2, <1>3, PotPaysOut DEF pot

\* Winnings are what the pots of all levels pay.
LEMMA WinningsByLevel ==
  ASSUME NEW mode \in Scorings, NEW T, IsFiniteSet(T), NEW c, NEW P \in SUBSET T, Bets(c, P), NEW F,
         NEW rank, Ranked(rank, T), NEW showdown, ShowdownOf(showdown, P \ F), NEW s \in T
  PROVE  Winnings(Pots(c, P, F), showdown, mode, rank, s)
           = SumFunctionOnSet([l \in Levels(c, P) |->
                                 PotShare(PotOf(c, P, F)[l], showdown, mode, rank, s)], Levels(c, P))
<1> DEFINE L == Levels(c, P)
           U == Pots(c, P, F)
           f == [pot \in U |-> PotShare(pot, showdown, mode, rank, s)]
           g == [l \in L |-> PotShare(PotOf(c, P, F)[l], showdown, mode, rank, s)]
<1>1. /\ \A l \in L : PotOf(c, P, F)[l] \in U
      /\ \A u \in U : \E l \in L : PotOf(c, P, F)[l] = u
  BY DEF Pots, PotOf
<1>2. \A l \in L : g[l] \in Int
  <2> SUFFICES ASSUME NEW l \in L PROVE g[l] \in Int
    OBVIOUS
  <2> DEFINE pot == PotOf(c, P, F)[l]
  <2>1. g[l] = PotShare(pot, showdown, mode, rank, s)
    OBVIOUS
  <2> HIDE DEF pot, g
  <2>2. PotShare(pot, showdown, mode, rank, s) \in Nat
    BY LevelPaysOut DEF pot, PaysOut
  <2>3. QED
    BY <2>1, <2>2
<1>3. \A l \in L : f[PotOf(c, P, F)[l]] = g[l]
  <2> HIDE DEF U
  <2>1. QED
    BY <1>1
<1>4. Winnings(U, showdown, mode, rank, s) = SumFunctionOnSet(f, U)
  <2> HIDE DEF U
  <2>1. QED
    BY ZenonT(60) DEF Winnings, MapThenSumSet, MapThenFoldSet, SumFunctionOnSet, FoldFunctionOnSet
<1>5. L \in SUBSET Levels(c, P)
  OBVIOUS
<1> HIDE DEF f, g, U, L
<1>6. SumFunctionOnSet(f, U) = SumFunctionOnSet(g, L)
  <2>1. \A l \in L : g[l] \in Int /\ f[PotOf(c, P, F)[l]] = g[l]
    BY <1>2, <1>3
  <2>2. QED
    BY <1>1, <1>5, <2>1, SumOverPots
<1>7. QED
  BY <1>4, <1>6 DEF g, U, L

\* A showdown among seats T, and winnings it pays.
ShowdownAmong(T, c, P, F, mode, rank, showdown) ==
  /\ mode \in Scorings
  /\ IsFiniteSet(T) /\ P \in SUBSET T /\ Bets(c, P) /\ Ranked(rank, T) /\ ShowdownOf(showdown, P \ F)
PaidTo(won, T, c, P, F, mode, rank, showdown) ==
  \A s \in T : won[s] = Winnings(Pots(c, P, F), showdown, mode, rank, s)

\* The pots everybody in them has folded away from.
DeadChips(c, P, F) == MapThenSumSet(LAMBDA pot : pot.amount, {pot \in Pots(c, P, F) : pot.eligible = {}})

DeadLevels(c, P, F) == {l \in Levels(c, P) : PotOf(c, P, F)[l].eligible = {}}

\* What some pots hold together.
LEMMA SumOfAmounts ==
  ASSUME NEW U
  PROVE  MapThenSumSet(LAMBDA p : p.amount, U) = SumFunctionOnSet([p \in U |-> p.amount], U)
BY Zenon DEF MapThenSumSet, MapThenFoldSet, SumFunctionOnSet, FoldFunctionOnSet

\* What those pots hold, level by level.
LEMMA DeadChipsByLevel ==
  ASSUME NEW c, NEW P, Bets(c, P), NEW F
  PROVE  DeadChips(c, P, F) = SumFunctionOnSet(Amounts(c, P, F), DeadLevels(c, P, F))
<1> DEFINE U == {p \in Pots(c, P, F) : p.eligible = {}}
           amount == [p \in U |-> p.amount]
           dead == DeadLevels(c, P, F)
           a == Amounts(c, P, F)
<1>1. dead \in SUBSET Levels(c, P)
  BY DEF DeadLevels
<1>2. /\ \A l \in dead : PotOf(c, P, F)[l] \in U
      /\ \A u \in U : \E l \in dead : PotOf(c, P, F)[l] = u
  BY DEF Pots, PotOf, DeadLevels
<1>3. \A l \in dead : a[l] \in Int /\ amount[PotOf(c, P, F)[l]] = a[l]
  <2> SUFFICES ASSUME NEW l \in dead PROVE a[l] \in Int /\ amount[PotOf(c, P, F)[l]] = a[l]
    OBVIOUS
  <2>1. a[l] \in Int /\ PotOf(c, P, F)[l].amount = a[l]
    BY <1>1, PotIs
  <2>2. amount[PotOf(c, P, F)[l]] = PotOf(c, P, F)[l].amount
    <3> HIDE DEF U
    <3>1. QED
      BY <1>2
  <2>3. QED
    BY <2>1, <2>2
<1>4. DeadChips(c, P, F) = SumFunctionOnSet(amount, U)
  <2>1. DeadChips(c, P, F) = MapThenSumSet(LAMBDA p : p.amount, U)
    BY Zenon DEF DeadChips
  <2> HIDE DEF U
  <2>2. QED
    BY <2>1, SumOfAmounts
<1> HIDE DEF U, amount, dead, a
<1>5. SumFunctionOnSet(amount, U) = SumFunctionOnSet(a, dead)
  BY <1>1, <1>2, <1>3, SumOverPots, SMTT(30)
<1>6. QED
  BY <1>4, <1>5 DEF a, dead

\* All winnings, and the pots nobody may win, are what was put in.
LEMMA WinningsAddUp ==
  ASSUME NEW T, NEW c, NEW P, NEW F, NEW mode, NEW rank, NEW showdown,
         ShowdownAmong(T, c, P, F, mode, rank, showdown),
         NEW won, PaidTo(won, T, c, P, F, mode, rank, showdown)
  PROVE  /\ \A s \in T : won[s] \in Nat
         /\ DeadChips(c, P, F) \in Int
         /\ SumFunctionOnSet(won, T) + DeadChips(c, P, F) = SumFunctionOnSet(c, P)
<1> IsFiniteSet(T) /\ P \in SUBSET T /\ Bets(c, P) /\ Ranked(rank, T)
    /\ ShowdownOf(showdown, P \ F) /\ mode \in Scorings
  BY DEF ShowdownAmong
<1> \A s \in T : won[s] = Winnings(Pots(c, P, F), showdown, mode, rank, s)
  BY DEF PaidTo
<1> DEFINE L == Levels(c, P)
           pot(l) == PotOf(c, P, F)[l]
           f == [s \in T |-> [l \in L |-> PotShare(pot(l), showdown, mode, rank, s)]]
           row == [s \in T |-> SumFunctionOnSet(f[s], L)]
           column == [l \in L |-> SumFunctionOnSet([s \in T |-> f[s][l]], T)]
           a == Amounts(c, P, F)
           dead == DeadLevels(c, P, F)
           paid == [l \in L |-> IF l \in dead THEN 0 ELSE a[l]]
           left == [l \in L |-> IF l \in dead THEN a[l] ELSE 0]
<1>1. IsFiniteSet(L)
  BY LevelsAre
<1>2. \A l \in L : PaysOut(pot(l), showdown, mode, rank, T) /\ pot(l).amount = a[l] /\ a[l] \in Nat
  <2> SUFFICES ASSUME NEW l \in L
               PROVE  PaysOut(pot(l), showdown, mode, rank, T) /\ pot(l).amount = a[l] /\ a[l] \in Nat
    OBVIOUS
  <2>1. PaysOut(PotOf(c, P, F)[l], showdown, mode, rank, T)
    BY LevelPaysOut
  <2>2. PotOf(c, P, F)[l].amount = Amounts(c, P, F)[l] /\ Amounts(c, P, F)[l] \in Nat
    BY PotIs
  <2>3. QED
    BY <2>1, <2>2
<1>3. \A s \in T, l \in L : f[s][l] = PotShare(pot(l), showdown, mode, rank, s)
  OBVIOUS
<1>4. \A s \in T, l \in L : f[s][l] \in Nat
  <2> HIDE DEF f, pot, L
  <2>1. QED
    BY <1>2, <1>3, Zenon DEF PaysOut
<1>5. \A s \in T : row[s] = won[s] /\ row[s] \in Nat
  <2> SUFFICES ASSUME NEW s \in T PROVE row[s] = won[s] /\ row[s] \in Nat
    OBVIOUS
  <2> DEFINE r == f[s]
  <2>1. row[s] = SumFunctionOnSet(r, L) /\ r = [l \in L |-> PotShare(pot(l), showdown, mode, rank, s)]
    OBVIOUS
  <2>2. won[s] = SumFunctionOnSet(r, L)
    BY <2>1, WinningsByLevel
  <2>3. \A l \in L : r[l] \in Nat
    BY <1>4
  <2> HIDE DEF r, row, L
  <2>4. SumFunctionOnSet(r, L) \in Nat
    BY <1>1, <2>3, SumCoversTerms
  <2>5. QED
    BY <2>1, <2>2, <2>4
<1>6. \A l \in L : column[l] = paid[l] /\ column[l] \in Int
  <2> SUFFICES ASSUME NEW l \in L PROVE column[l] = paid[l] /\ column[l] \in Int
    OBVIOUS
  <2>1. [s \in T |-> f[s][l]] = [s \in T |-> PotShare(pot(l), showdown, mode, rank, s)]
    BY <1>3, Zenon
  <2>2. column[l] = SumFunctionOnSet([s \in T |-> f[s][l]], T)
    OBVIOUS
  <2>3. SumFunctionOnSet([s \in T |-> PotShare(pot(l), showdown, mode, rank, s)], T)
          = IF pot(l).eligible = {} THEN 0 ELSE pot(l).amount
    <3> HIDE DEF pot, L
    <3>1. QED
      BY <1>2, Zenon DEF PaysOut
  <2>4. paid[l] = (IF pot(l).eligible = {} THEN 0 ELSE a[l]) /\ pot(l).amount = a[l] /\ a[l] \in Nat
    <3>1. paid[l] = IF pot(l).eligible = {} THEN 0 ELSE a[l]
      BY DEF DeadLevels
    <3>2. QED
      BY <1>2, <3>1
  <2> HIDE DEF column, paid, pot, a, f
  <2>5. column[l] = IF pot(l).eligible = {} THEN 0 ELSE pot(l).amount
    BY <2>1, <2>2, <2>3
  <2>6. QED
    BY <2>4, <2>5
<1>7. SumFunctionOnSet(row, T) = SumFunctionOnSet(column, L)
  <2>1. \A s \in T, l \in L : f[s][l] \in Int
    BY <1>4
  <2> HIDE DEF f, L
  <2>2. QED
    BY <1>1, <2>1, SumOfRows, Zenon
<1>8. SumFunctionOnSet(row, T) = SumFunctionOnSet(won, T)
  <2>1. \A s \in T : row[s] \in Int /\ row[s] = won[s]
    BY <1>5
  <2> HIDE DEF row
  <2>2. QED
    BY <2>1, SumOfEqual
<1>9. SumFunctionOnSet(column, L) = SumFunctionOnSet(paid, L)
  <2> HIDE DEF column, paid, L
  <2>1. QED
    BY <1>1, <1>6, SumOfEqual
<1>10. \A l \in L : /\ paid[l] \in Int /\ left[l] \in Int /\ a[l] = paid[l] + left[l]
                    /\ l \notin dead => left[l] = 0
                    /\ l \in dead => left[l] = a[l]
  <2>1. \A l \in L : a[l] \in Nat
    BY <1>2
  <2> HIDE DEF a, dead
  <2>2. QED
    BY <2>1
<1>11. SumFunctionOnSet(a, L) = SumFunctionOnSet(paid, L) + SumFunctionOnSet(left, L)
  <2> HIDE DEF a, paid, left, L, dead
  <2>1. QED
    BY <1>1, <1>10, SumOfSum
<1>12. SumFunctionOnSet(left, L) = SumFunctionOnSet(left, dead)
  <2>1. dead \in SUBSET L
    BY DEF DeadLevels
  <2> HIDE DEF left, L, dead
  <2>2. QED
    BY <1>1, <1>10, <2>1, SumOverPart
<1>13. DeadChips(c, P, F) = SumFunctionOnSet(left, dead)
  <2>1. /\ IsFiniteSet(dead)
        /\ \A l \in dead : left[l] \in Int /\ left[l] = a[l]
    <3>1. dead \in SUBSET L
      BY DEF DeadLevels
    <3> HIDE DEF left, L, dead, a
    <3>2. QED
      BY <1>1, <1>10, <3>1, FS_Subset
  <2>2. DeadChips(c, P, F) = SumFunctionOnSet(a, dead)
    BY DeadChipsByLevel
  <2> HIDE DEF left, dead, a
  <2>3. SumFunctionOnSet(left, dead) = SumFunctionOnSet(a, dead)
    BY <2>1, SumOfEqual
  <2>4. QED
    BY <2>2, <2>3
<1>14. SumFunctionOnSet(a, L) = SumFunctionOnSet(c, P)
  BY PotsHoldAll
<1>15. \A s \in T : won[s] \in Nat
  <2> HIDE DEF row
  <2>1. QED
    BY <1>5
<1>16. SumFunctionOnSet(left, dead) \in Int
  <2>1. IsFiniteSet(dead) /\ \A l \in dead : left[l] \in Int
    <3>1. dead \in SUBSET L
      BY DEF DeadLevels
    <3> HIDE DEF left, L, dead
    <3>2. QED
      BY <1>1, <1>10, <3>1, FS_Subset
  <2> HIDE DEF left, dead
  <2>2. QED
    BY <2>1, SumIsInteger
<1> HIDE DEF row, column, a, paid, left
<1>17. SumFunctionOnSet(won, T) + DeadChips(c, P, F) = SumFunctionOnSet(c, P) /\ DeadChips(c, P, F) \in Int
  BY <1>7, <1>8, <1>9, <1>11, <1>12, <1>13, <1>14, <1>16
<1>18. QED
  BY <1>15, <1>17, Zenon

\* What is fair of winnings w to player s, in the contributions c of players P.
FairTo(s, w, c, P, F) ==
  LET cover == TotalOver([q \in P |-> Least(c[q], c[s])], P)
  IN  /\ w[s] <= (IF s \in F THEN 0 ELSE cover)
      /\ P \ F = {s} => w[s] = cover
      /\ s \notin F => w[s] >= c[s] - Max({c[q] : q \in P \ {s}})
FairPots(w, c, P, F) == \A s \in P : FairTo(s, w, c, P, F)

\* A folded player wins nothing, and nobody more from another than it put in itself; the
\* last player standing wins all of that; what nobody matched comes back.
LEMMA WinningsAreFair ==
  ASSUME NEW T, NEW c, NEW P, NEW F, NEW mode, NEW rank, NEW showdown,
         ShowdownAmong(T, c, P, F, mode, rank, showdown),
         NEW won, PaidTo(won, T, c, P, F, mode, rank, showdown),
         NEW s \in P, \E q \in P : q # s
  PROVE  FairTo(s, won, c, P, F)
<1> DEFINE cover == TotalOver([q \in P |-> Least(c[q], c[s])], P)
<1> SUFFICES /\ won[s] <= (IF s \in F THEN 0 ELSE cover)
             /\ P \ F = {s} => won[s] = cover
             /\ s \notin F => won[s] >= c[s] - Max({c[q] : q \in P \ {s}})
  BY Zenon DEF FairTo
<1> cover = SumFunctionOnSet([q \in P |-> Least(c[q], c[s])], P)
  BY TotalIsSum
<1> HIDE DEF cover
<1> IsFiniteSet(T) /\ P \in SUBSET T /\ Bets(c, P) /\ Ranked(rank, T)
    /\ ShowdownOf(showdown, P \ F) /\ mode \in Scorings
  BY DEF ShowdownAmong
<1> DEFINE w == won[s]
<1> w = Winnings(Pots(c, P, F), showdown, mode, rank, s)
  BY DEF PaidTo
<1> HIDE DEF w
<1> DEFINE L == Levels(c, P)
           x == c[s]
           U == LevelsTo(x, c, P)
           pot(l) == PotOf(c, P, F)[l]
           g == [l \in L |-> PotShare(pot(l), showdown, mode, rank, s)]
           a == Amounts(c, P, F)
<1>1. /\ IsFiniteSet(L) /\ IsFiniteSet(U) /\ U \in SUBSET L /\ L \in SUBSET (Nat \ {0})
      /\ x \in Nat /\ x \in L \cup {0}
  BY LevelsAre DEF Bets, Levels
<1>2. w = SumFunctionOnSet(g, L)
  BY WinningsByLevel
<1>3. \A l \in L : /\ a[l] \in Nat
                   /\ a[l] = Gaps(c, P)[l] * Cardinality(Contributing(l, c, P))
                   /\ g[l] \in Nat /\ g[l] <= a[l]
                   /\ pot(l).eligible = Contributing(l, c, P) \ F
                   /\ s \notin pot(l).eligible => g[l] = 0
                   /\ pot(l).eligible = {s} => g[l] = a[l]
  <2> SUFFICES ASSUME NEW l \in L
               PROVE  /\ a[l] \in Nat
                      /\ a[l] = Gaps(c, P)[l] * Cardinality(Contributing(l, c, P))
                      /\ g[l] \in Nat /\ g[l] <= a[l]
                      /\ pot(l).eligible = Contributing(l, c, P) \ F
                      /\ s \notin pot(l).eligible => g[l] = 0
                      /\ pot(l).eligible = {s} => g[l] = a[l]
    BY Zenon
  <2> DEFINE share == [t \in T |-> PotShare(pot(l), showdown, mode, rank, t)]
  <2>1. /\ pot(l).amount = a[l] /\ a[l] \in Nat /\ pot(l).eligible = Contributing(l, c, P) \ F
        /\ a[l] = Gaps(c, P)[l] * Cardinality(Contributing(l, c, P))
    BY PotIs
  <2>2. PaysOut(PotOf(c, P, F)[l], showdown, mode, rank, T)
    BY LevelPaysOut
  <2>3. s \in T /\ g[l] = share[s]
    OBVIOUS
  <2>4. /\ \A t \in T : share[t] \in Nat
        /\ \A t \in T \ pot(l).eligible : share[t] = 0
        /\ \A t \in T : pot(l).eligible = {t} => share[t] = pot(l).amount
        /\ SumFunctionOnSet(share, T) = IF pot(l).eligible = {} THEN 0 ELSE pot(l).amount
    <3> HIDE DEF a, g
    <3>1. QED
      BY <2>2 DEF PaysOut
  <2> HIDE DEF share, g, pot, a
  <2>5. share[s] <= SumFunctionOnSet(share, T)
    BY <2>3, <2>4, SumCoversTerms
  <2>6. QED
    BY <2>1, <2>3, <2>4, <2>5
<1>4. \A l \in L : l \notin U => g[l] = 0
  <2> SUFFICES ASSUME NEW l \in L, l \notin U PROVE g[l] = 0
    OBVIOUS
  <2>1. s \notin Contributing(l, c, P)
    BY <1>1 DEF LevelsTo, Contributing
  <2> HIDE DEF g, pot
  <2>2. QED
    BY <1>3, <2>1
<1>5. SumFunctionOnSet(g, L) = SumFunctionOnSet(g, U)
  <2>1. (\A l \in L : g[l] \in Int) /\ (\A l \in L \ U : g[l] = 0)
    BY <1>3, <1>4
  <2> HIDE DEF g, L, U
  <2>2. QED
    BY <1>1, <2>1, SumOverPart
<1>6. SumFunctionOnSet(a, U) = cover
  <2>1. \A l \in L : a[l] = Gaps(c, P)[l] * Cardinality(Contributing(l, c, P))
    BY <1>3
  <2> HIDE DEF a
  <2>2. QED
    BY <1>1, <2>1, PotsUpTo
<1> HIDE DEF g, a, pot
<1>7. \A l \in U : g[l] \in Int /\ a[l] \in Int /\ g[l] <= a[l]
  BY <1>1, <1>3
<1>8. w <= cover
  <2> HIDE DEF U
  <2>1. SumFunctionOnSet(g, U) <= SumFunctionOnSet(a, U)
    BY <1>1, <1>7, SumIsMonotonic
  <2>2. QED
    BY <1>2, <1>5, <1>6, <2>1
<1>9. s \in F => w = 0
  <2> SUFFICES ASSUME s \in F PROVE w = 0
    OBVIOUS
  <2>1. /\ \A l \in L : g[l] \in Int
        /\ \A l \in L \ {} : g[l] = 0
        /\ {} \in SUBSET L
    BY <1>3
  <2> HIDE DEF L
  <2>2. SumFunctionOnSet(g, L) = SumFunctionOnSet(g, {})
    BY <1>1, <2>1, SumOverPart
  <2>3. QED
    BY <1>2, <2>2, SumOfNone
<1>10. P \ F = {s} => w = cover
  <2> SUFFICES ASSUME P \ F = {s} PROVE w = cover
    OBVIOUS
  <2>1. \A l \in U : g[l] = a[l]
    <3> SUFFICES ASSUME NEW l \in U PROVE g[l] = a[l]
      OBVIOUS
    <3>1. l \in L /\ s \in Contributing(l, c, P)
      BY <1>1 DEF LevelsTo, Contributing
    <3>2. Contributing(l, c, P) \ F = {s}
      BY <3>1 DEF Contributing
    <3>3. QED
      BY <1>3, <3>1, <3>2
  <2> HIDE DEF U
  <2>2. SumFunctionOnSet(g, U) = SumFunctionOnSet(a, U)
    BY <1>1, <1>7, <2>1, SumOfEqual
  <2>3. QED
    BY <1>2, <1>5, <1>6, <2>2
<1>11. ASSUME s \notin F, \E q \in P : q # s
       PROVE  w >= c[s] - Max({c[q] : q \in P \ {s}})
  <2> DEFINE Others == {c[q] : q \in P \ {s}}
             k == [q \in P \ {s} |-> c[q]]
  <2>1. /\ k \in [P \ {s} -> Others]
        /\ \A u \in Others : \E q \in P \ {s} : k[q] = u
        /\ Others \in SUBSET Nat /\ Others # {}
    BY <1>11 DEF Bets
  <2>2. IsFiniteSet(P \ {s})
    BY FS_Subset DEF Bets
  <2>3. IsFiniteSet(Others)
    <3> HIDE DEF k, Others
    <3>1. k \in Surjection(P \ {s}, Others)
      BY <2>1, Zenon DEF Surjection
    <3>2. QED
      BY <2>2, <3>1, FS_Surjection, Zenon
  <2> DEFINE m == Max(Others)
  <2>4. m \in Nat /\ \A y \in Others : y <= m
    <3> HIDE DEF Others
    <3>1. QED
      BY <2>1, <2>3, MaxIs
  <2> HIDE DEF m
  <2>5. \A q \in P : q # s => c[q] <= m
    BY <2>4
  <2>6. w \in Nat /\ \A l \in L : g[l] <= w
    <3>1. \A l \in L : g[l] \in Nat
      BY <1>3
    <3> HIDE DEF L
    <3>2. QED
      BY <1>1, <1>2, <3>1, SumCoversTerms
  <2>7. CASE x <= m
    BY <1>1, <2>4, <2>6, <2>7 DEF m
  <2>8. CASE x > m
    <3>1. x \in L /\ x \in Nat
      BY <1>1, <2>4, <2>8
    <3>2. Contributing(x, c, P) = {s}
      BY <1>1, <2>4, <2>5, <2>8 DEF Contributing, Bets
    <3>3. Contributing(x, c, P) \ F = {s}
      BY <1>11, <3>2
    <3>4. a[x] = Gaps(c, P)[x] * 1 /\ g[x] = a[x]
      <4>1. Cardinality(Contributing(x, c, P)) = 1
        BY <3>2, FS_Singleton
      <4>2. QED
        BY <1>3, <3>1, <3>3, <4>1
    <3> DEFINE b == LevelBelow(x, c, P)
    <3>5. b \in L \cup {0} /\ b \in Nat /\ b < x
      BY <3>1, LevelBelowIs
    <3>6. b <= m
      <4>1. CASE b = 0
        BY <2>4, <4>1
      <4>2. CASE b \in L
        <5>1. PICK q \in P : c[q] = b
          BY <4>2 DEF Levels
        <5>2. q # s
          BY <3>1, <3>5, <5>1
        <5>3. QED
          BY <2>5, <5>1, <5>2
      <4>3. QED
        BY <3>5, <4>1, <4>2
    <3>7. Gaps(c, P)[x] = x - b
      BY <3>1 DEF Gaps
    <3>8. g[x] <= w
      BY <2>6, <3>1
    <3> HIDE DEF b, x
    <3>9. w >= x - m
      BY <2>4, <2>6, <3>1, <3>4, <3>5, <3>6, <3>7, <3>8
    <3>10. QED
      BY <3>9 DEF m, x
  <2>9. QED
    BY <1>1, <2>4, <2>7, <2>8
<1>12. QED
  BY <1>8, <1>9, <1>10, <1>11 DEF w

-----------------------------------------------------------------------------
(* The deal, and the showdown of a hand.                                   *)

\* Seats can be counted and summed over.
LEMMA SeatsAreFinite == IsFiniteSet(Seats) /\ \A S \in SUBSET Seats : IsFiniteSet(S)
<1>1. IsFiniteSet(Seats)
  BY NumSeatsAssumption, FS_Interval DEF Seats
<1>2. QED
  BY <1>1, FS_Subset

\* Odd chips go in an order without ties.
LEMMA SeatRankIs ==
  ASSUME button \in Seats
  PROVE  Ranked(SeatRank, Seats)
BY NumSeatsAssumption DEF Ranked, SeatRank, Seats, Clockwise

\* The bounty only moves chips, and no more of them than a player has.
LEMMA BountyCancels ==
  ASSUME dealt \subseteq Seats, NEW winners, NEW holders \in SUBSET dealt, NEW st \in [Seats -> Nat],
         NEW moves, moves = BountyMoves(winners, holders, st)
  PROVE  /\ moves \in [Seats -> Int]
         /\ \A s \in Seats : st[s] + moves[s] \in Nat
         /\ SumFunctionOnSet(moves, Seats) = 0
<1>1. CASE winners \cap holders = {}
  <2>1. moves = [s \in Seats |-> 0]
    BY <1>1, Zenon DEF BountyMoves
  <2>2. \A s \in Seats : moves[s] = 0
    BY <2>1
  <2>3. SumFunctionOnSet(moves, Seats) = 0 * Cardinality(Seats)
    BY <2>2, SeatsAreFinite, SumOfConstant
  <2>4. Cardinality(Seats) \in Nat
    BY SeatsAreFinite, FS_CardinalityType
  <2>5. QED
    BY <2>1, <2>2, <2>3, <2>4
<1>2. CASE winners \cap holders # {}
  <2> DEFINE S == winners \cap holders
             winner == Min(S)
             Payers == dealt \ {winner}
             pays == [s \in Payers |-> Least(Bounty, st[s])]
             won == SumFunctionOnSet(pays, Payers)
  <2>1. winner \in dealt /\ winner \in Seats
    <3>0. Seats \subseteq Nat
      BY NumSeatsAssumption DEF Seats
    <3>1. S \in SUBSET Nat /\ S # {} /\ S \in SUBSET dealt
      BY <1>2, <3>0
    <3> HIDE DEF S
    <3>2. \E x \in S : \A y \in S : x <= y
      BY <3>1, LeastNatural
    <3>3. Min(S) \in S
      BY <3>2 DEF Min
    <3>4. QED
      BY <3>1, <3>3
  <2>2. /\ IsFiniteSet(Payers) /\ Payers \in SUBSET Seats /\ Payers \in SUBSET (Seats \ {winner})
        /\ IsFiniteSet(Seats \ {winner})
    BY SeatsAreFinite
  <2>3. \A s \in Payers : pays[s] \in Nat /\ pays[s] <= st[s] /\ st[s] \in Nat
    BY CardsAssumption, <2>2 DEF Least
  <2>4. won \in Nat
    <3> HIDE DEF pays, Payers
    <3>1. QED
      BY <2>2, <2>3, SumCoversTerms
  <2>5. moves = [s \in Seats |-> IF s = winner THEN won ELSE IF s \in dealt THEN -pays[s] ELSE 0]
    <3>1. TotalOver(pays, Payers) = won
      BY TotalIsSum
    <3>2. moves = [s \in Seats |-> IF s = winner THEN TotalOver(pays, Payers)
                                   ELSE IF s \in dealt THEN -pays[s] ELSE 0]
      BY <1>2, Zenon DEF BountyMoves
    <3>3. QED
      BY <3>1, <3>2, Zenon
  <2>6. /\ moves[winner] = won
        /\ \A s \in Payers : moves[s] = -pays[s]
        /\ \A s \in (Seats \ {winner}) \ Payers : moves[s] = 0
    <3> HIDE DEF won, pays, winner
    <3>1. QED
      BY <2>1, <2>2, <2>5
  <2> HIDE DEF pays, won, Payers, winner
  <2>7. \A s \in Seats : /\ moves[s] \in Int /\ st[s] + moves[s] \in Nat
                         /\ s \in Payers => moves[s] = (-1) * pays[s] /\ pays[s] \in Int
    <3> SUFFICES ASSUME NEW s \in Seats
                 PROVE  /\ moves[s] \in Int /\ st[s] + moves[s] \in Nat
                        /\ s \in Payers => moves[s] = (-1) * pays[s] /\ pays[s] \in Int
      OBVIOUS
    <3>1. st[s] \in Nat
      OBVIOUS
    <3>2. CASE s = winner
      BY <2>4, <2>6, <3>1, <3>2 DEF Payers
    <3>3. CASE s \in Payers
      BY <2>3, <2>6, <3>1, <3>3
    <3>4. CASE s # winner /\ s \notin Payers
      BY <2>6, <3>1, <3>4
    <3>5. QED
      BY <3>2, <3>3, <3>4
  <2>8. SumFunctionOnSet(moves, Seats) = moves[winner] + SumFunctionOnSet(moves, Seats \ {winner})
    BY <2>1, <2>7, SeatsAreFinite, SumWithout
  <2>9. SumFunctionOnSet(moves, Seats \ {winner}) = SumFunctionOnSet(moves, Payers)
    BY <2>2, <2>6, <2>7, SumOverPart
  <2>10. SumFunctionOnSet(moves, Payers) = (-1) * won
    <3>1. \A s \in Payers : pays[s] \in Int /\ moves[s] = (-1) * pays[s]
      BY <2>2, <2>7
    <3>2. QED
      BY <2>2, <3>1, SumOfMultiples DEF won
  <2>11. SumFunctionOnSet(moves, Seats) = 0
    BY <2>4, <2>6, <2>8, <2>9, <2>10
  <2>12. moves \in [Seats -> Int]
    BY <2>5, <2>7
  <2>13. QED
    BY <2>7, <2>11, <2>12
<1>3. QED
  BY <1>1, <1>2

\* The cards in an unfolded hand: as many as in any other, and no more than a street deals to.
MostCards == Max({HoleCards} \cup {Redraw[k] : k \in DOMAIN Redraw})
HeldEvenly(h, live) == \A s, t \in live : h[s] = h[t] /\ h[s] <= MostCards

\* No street deals more hole cards than the target of some street.
LEMMA MostCardsIs ==
  /\ MostCards \in Nat /\ HoleCards <= MostCards
  /\ \A k \in DOMAIN StreetBets : Redraw[k] \in Nat /\ Redraw[k] <= MostCards
<1> DEFINE D == 1 .. Len(StreetBets)
           R == {Redraw[k] : k \in D}
           S == {HoleCards} \cup R
<1>1. DOMAIN StreetBets = D /\ Len(StreetBets) \in Nat
  BY StructureAssumption
<1>2. DOMAIN Redraw = D /\ \A k \in D : Redraw[k] \in Nat
  BY <1>1, CardsAssumption
<1>3. IsFiniteSet(D)
  BY <1>1, FS_Interval
<1>4. IsFiniteSet(R)
  <2> DEFINE f == [k \in D |-> Redraw[k]]
  <2>1. f \in [D -> R] /\ \A u \in R : \E k \in D : f[k] = u
    OBVIOUS
  <2> HIDE DEF f, R, D
  <2>2. f \in Surjection(D, R)
    BY <2>1, Zenon DEF Surjection
  <2>3. QED
    BY <1>3, <2>2, FS_Surjection, Zenon
<1>5. IsFiniteSet(S) /\ S \in SUBSET Nat /\ S # {}
  <2>1. R \in SUBSET Nat
    BY <1>2
  <2>2. S = R \cup {HoleCards}
    OBVIOUS
  <2> HIDE DEF R
  <2>3. IsFiniteSet(R \cup {HoleCards})
    BY <1>4, FS_AddElement
  <2>4. QED
    BY <2>1, <2>2, <2>3, CardsAssumption
<1>6. MostCards = Max(S)
  BY <1>2 DEF MostCards
<1>7. HoleCards \in S /\ \A k \in D : Redraw[k] \in S
  OBVIOUS
<1> HIDE DEF S, D
<1>8. Max(S) \in Nat /\ \A y \in S : y <= Max(S)
  BY <1>5, MaxIs
<1>9. QED
  BY <1>1, <1>2, <1>6, <1>7, <1>8

\* A redraw gives every unfolded hand equally many cards, none beyond the target and no more
\* than the deck has.
LEMMA RedrawIsEven ==
  ASSUME NEW target \in Nat, NEW live \in SUBSET Seats, NEW h \in [Seats -> Nat], NEW d \in Nat,
         \A s, t \in live : h[s] = h[t]
  PROVE  \E each \in Nat :
           /\ \A s \in live : /\ DrawnInRedraw(target, live, h, d)[s] = each
                              /\ each = 0 \/ h[s] + each <= target
           /\ each * Cardinality(live) <= d
<1> DEFINE n == Cardinality(live)
           owed == [s \in live |-> Most(0, target - h[s])]
           drawn == DrawnInRedraw(target, live, h, d)
<1>1. IsFiniteSet(live) /\ n \in Nat
  BY SeatsAreFinite, FS_CardinalityType
<1>2. CASE live = {}
  <2>1. n = 0
    BY <1>2, FS_EmptySet
  <2>2. QED
    BY <1>2, <2>1
<1>3. CASE live # {}
  <2> PICK x \in live : TRUE
    BY <1>3
  <2> DEFINE w == Most(0, target - h[x])
  <2>1. w \in Nat /\ (w = 0 \/ h[x] + w = target) /\ \A s \in live : owed[s] = w
    BY DEF Most
  <2>2. n # 0
    BY <1>1, <1>3, FS_EmptySet
  <2>3. TotalOver(owed, live) = w * n
    <3> HIDE DEF owed, w
    <3>1. SumFunctionOnSet(owed, live) = w * n
      BY <1>1, <2>1, SumOfConstant
    <3>2. QED
      BY <3>1, TotalIsSum
  <2> HIDE DEF w, n
  <2>4. drawn = IF d >= w * n THEN owed ELSE [s \in live |-> d \div n]
    BY <2>3, Zenon DEF DrawnInRedraw, n
  <2>5. CASE d >= w * n
    BY <1>1, <2>1, <2>4, <2>5 DEF n
  <2>6. CASE ~(d >= w * n)
    <3> DEFINE q == d \div n
    <3>1. q \in Nat /\ d % n \in Nat /\ d = n * q + (d % n)
      BY <1>1, <2>2
    <3> HIDE DEF q
    <3>2. q * n <= d
      BY <1>1, <3>1
    <3>3. q < w
      <4> SUFFICES ASSUME q >= w PROVE FALSE
        BY <2>1, <3>1
      <4> DEFINE r == q - w
      <4>1. r \in Nat /\ q = w + r
        BY <2>1, <3>1
      <4> HIDE DEF r
      <4> DEFINE qn == q * n
                 wn == w * n
                 rn == r * n
      <4>2. qn = wn + rn /\ rn \in Nat /\ wn \in Nat /\ qn <= d /\ ~(d >= wn)
        BY <1>1, <2>1, <2>6, <3>2, <4>1
      <4> HIDE DEF qn, wn, rn
      <4>3. QED
        BY <4>2
    <3>4. \A s \in live : drawn[s] = q /\ h[s] = h[x]
      BY <2>4, <2>6 DEF q
    <3>5. \A s \in live : h[s] + q <= target
      <4>1. h[x] \in Nat
        OBVIOUS
      <4>2. QED
        BY <2>1, <3>1, <3>3, <3>4, <4>1
    <3>6. QED
      BY <3>1, <3>2, <3>4, <3>5 DEF n
  <2>7. QED
    BY <2>5, <2>6
<1>4. QED
  BY <1>2, <1>3

\* Whatever a street deals comes from the deck and goes to the unfolded hands alike.
LEMMA DealKeepsCards ==
  ASSUME NEW h \in [Seats -> Nat], NEW d \in Nat, DealStreetCards(h, d),
         dealt \subseteq Seats, dealt' = dealt, street' \in Nat \ {0},
         HeldEvenly(h, dealt \ folded')
  PROVE  /\ hole' \in [Seats -> Nat] /\ deck' \in Nat
         /\ deck' + SumFunctionOnSet(hole', Seats) = d + SumFunctionOnSet(h, Seats)
         /\ HeldEvenly(hole', dealt \ folded')
         /\ \A s \in dealt \ folded' : hole'[s] >= h[s]
<1> DEFINE k == street'
           live == dealt \ folded'
           drawn == DrawnInRedraw(Redraw[k], live, h, d)
           n == Cardinality(live)
<1>1. CASE ~(k # street /\ k <= Len(StreetBets))
  <2>1. hole' = h /\ deck' = d
    BY <1>1 DEF DealStreetCards
  <2>2. QED
    BY <2>1
<1>2. CASE k # street /\ k <= Len(StreetBets)
  <2>1. /\ hole' = [s \in Seats |-> IF s \in live THEN h[s] + drawn[s] ELSE h[s]]
        /\ deck' = d - TotalOver(drawn, live)
    BY <1>2 DEF DealStreetCards
  <2>2. Redraw[k] \in Nat /\ Redraw[k] <= MostCards /\ MostCards \in Nat
    <3>1. k \in DOMAIN StreetBets
      BY <1>2, StructureAssumption
    <3>2. QED
      BY <3>1, MostCardsIs
  <2>3. live \in SUBSET Seats /\ IsFiniteSet(live) /\ n \in Nat /\ \A s, t \in live : h[s] = h[t]
    <3>1. live \in SUBSET Seats
      OBVIOUS
    <3>2. QED
      BY <3>1, SeatsAreFinite, FS_CardinalityType DEF HeldEvenly
  <2>4. PICK each \in Nat : /\ \A s \in live : /\ drawn[s] = each
                                               /\ each = 0 \/ h[s] + each <= Redraw[k]
                            /\ each * n <= d
    <3> HIDE DEF live
    <3>1. QED
      BY <2>2, <2>3, RedrawIsEven
  <2> HIDE DEF drawn
  <2>5. TotalOver(drawn, live) = each * n
    BY <2>3, <2>4, SumOfConstant, TotalIsSum
  <2>6. each * n \in Nat
    BY <2>3
  <2> HIDE DEF n, live, k
  <2>7. \A s \in Seats : hole'[s] = IF s \in live THEN h[s] + each ELSE h[s]
    BY <2>1, <2>4
  <2>8. hole' \in [Seats -> Nat] /\ deck' \in Nat
    BY <2>1, <2>4, <2>5, <2>6
  <2>9. SumFunctionOnSet(hole', Seats) = SumFunctionOnSet(h, Seats) + each * n
    <3> DEFINE more == [s \in Seats |-> IF s \in live THEN each ELSE 0]
    <3>1. /\ \A s \in Seats : h[s] \in Int /\ more[s] \in Int /\ hole'[s] = h[s] + more[s]
          /\ \A s \in live : more[s] = each
          /\ \A s \in Seats \ live : more[s] = 0
      BY <2>3, <2>7
    <3> HIDE DEF more
    <3>2. SumFunctionOnSet(hole', Seats) = SumFunctionOnSet(h, Seats) + SumFunctionOnSet(more, Seats)
      BY <3>1, SeatsAreFinite, SumOfSum
    <3>3. SumFunctionOnSet(more, Seats) = SumFunctionOnSet(more, live)
      BY <2>3, <3>1, SeatsAreFinite, SumOverPart
    <3>4. SumFunctionOnSet(more, live) = each * n
      BY <2>3, <3>1, SumOfConstant DEF n
    <3>5. QED
      BY <3>2, <3>3, <3>4
  <2>10. SumFunctionOnSet(h, Seats) \in Int
    BY SeatsAreFinite, SumIsInteger
  <2>11. HeldEvenly(hole', live)
    <3> SUFFICES ASSUME NEW s \in live, NEW t \in live
                 PROVE  hole'[s] = hole'[t] /\ hole'[s] <= MostCards
      BY DEF HeldEvenly
    <3>1. h[s] = h[t] /\ h[s] <= MostCards /\ h[s] \in Nat
      BY <2>3 DEF HeldEvenly, live
    <3>2. hole'[s] = h[s] + each /\ hole'[t] = h[t] + each
      BY <2>3, <2>7
    <3>3. each = 0 \/ h[s] + each <= Redraw[k]
      BY <2>4
    <3>4. QED
      BY <2>2, <3>1, <3>2, <3>3
  <2>12. QED
    <3>1. \A s \in live : hole'[s] >= h[s]
      BY <2>3, <2>7
    <3>2. QED
      BY <2>1, <2>5, <2>6, <2>8, <2>9, <2>10, <2>11, <3>1 DEF live
<1>3. QED
  BY <1>1, <1>2

\* The boards take a number of cards.
LEMMA ReservedIsNatural == Reserved \in Nat
<1> DEFINE need == [k \in DOMAIN Community |-> IF Community[k] > 0 THEN 1 + Boards * Community[k] ELSE 0]
           D == DOMAIN Community
<1>1. D = 1 .. Len(StreetBets) /\ Len(StreetBets) \in Nat /\ \A k \in D : Community[k] \in Nat
  BY StructureAssumption, CardsAssumption
<1>2. IsFiniteSet(D)
  BY <1>1, FS_Interval
<1>3. \A k \in D : need[k] \in Nat
  BY <1>1, CardsAssumption
<1>4. Reserved = SumFunctionOnSet(need, D)
  BY Zenon DEF Reserved, MapThenSumSet, MapThenFoldSet, SumFunctionOnSet, FoldFunctionOnSet
<1> HIDE DEF need, D
<1>5. QED
  BY <1>2, <1>3, <1>4, SumCoversTerms

\* Everybody in the hand brought chips to it, and nobody else pays.
OnlyDealtPay ==
  /\ ~AtMostOne(dealt)
  /\ \A s \in Seats : IF s \in dealt THEN startStack[s] > 0 ELSE contributed[s] = 0

\* The invariant of a whole hand: the chips are those of the betting until they are paid
\* out, the cards are counted throughout, and a finished hand has been paid out right.
HandIInv ==
  /\ TypeOK /\ HandTypeOK
  /\ phase \in {"betting", "showdown"} => IInv
  /\ phase # "none" => /\ button \in Seats
                       /\ CardsAccounted /\ HoleCardsEven /\ OnlyDealtPay
  /\ phase = "complete" => ChipsAccounted /\ SidePotsAreFair

\* The counts of cards in the words of the lemmas.
LEMMA CountOfCards ==
  /\ CardsAccounted <=> deck + SumFunctionOnSet(hole, Seats) + Reserved = DeckSize
  /\ HoleCardsEven <=> HeldEvenly(hole, dealt \ folded)
<1>1. TotalOver(hole, Seats) = SumFunctionOnSet(hole, Seats)
  BY TotalIsSum
<1>2. QED
  BY <1>1 DEF CardsAccounted, HoleCardsEven, HeldEvenly, MostCards, activeHandPlayers

\* The invariant holds before the hand.
LEMMA HandInitInv == HandInit => HandIInv
<1> SUFFICES ASSUME HandInit PROVE HandIInv
  OBVIOUS
<1>1. IInv /\ phase = "none"
  BY InitInv DEF HandInit, Init
<1>2. HandTypeOK
  BY CardsAssumption DEF HandInit, HandTypeOK, NoResult
<1>3. QED
  BY <1>1, <1>2 DEF HandIInv, IInv

\* A hand that is dealt has all its cards.
LEMMA StartHandInv ==
  ASSUME HandIInv, StartHand
  PROVE  HandIInv'
<1> DEFINE n == Cardinality(dealt')
           D == dealt'
<1>1. TypeOK /\ InitHand /\ result' = result /\ HandTypeOK
  BY DEF HandIInv, StartHand
<1>2. IInv'
  BY <1>1, InitHandInv
<1>3. /\ D = activeSeats /\ startStack' = stack /\ ~AtMostOne(activeSeats) /\ folded' = {}
      /\ phase' \in {"betting", "showdown"}
      /\ \A s \in Seats : s \notin D => contributed'[s] = 0
  BY <1>1 DEF InitHand, dealAndMaybeStartRound, Posted
<1>4. D \in SUBSET Seats /\ IsFiniteSet(D) /\ n \in Nat /\ \A s \in D : stack[s] > 0
  <2>1. D \in SUBSET Seats /\ \A s \in D : stack[s] > 0
    BY <1>1, <1>3 DEF activeSeats, TypeOK
  <2>2. QED
    BY <2>1, SeatsAreFinite, FS_CardinalityType
<1>5. OnlyDealtPay'
  BY <1>3, <1>4 DEF OnlyDealtPay, AtMostOne
<1>6. /\ hole' = [s \in Seats |-> IF s \in D THEN HoleCards ELSE 0]
      /\ n * HoleCards <= DeckSize - Reserved
      /\ deck' = DeckSize - Reserved - n * HoleCards
  BY <1>3, Zenon DEF StartHand, DealFits
<1>7. HoleCards \in Nat /\ DeckSize \in Nat /\ Reserved \in Nat
  BY CardsAssumption, ReservedIsNatural
<1>8. n * HoleCards \in Nat
  BY <1>4, <1>7
<1> HIDE DEF n
<1>9. hole' \in [Seats -> Nat] /\ deck' \in Nat
  BY <1>6, <1>7, <1>8
<1>10. SumFunctionOnSet(hole', Seats) = n * HoleCards
  <2>1. /\ \A s \in Seats : hole'[s] \in Int
        /\ \A s \in Seats \ D : hole'[s] = 0
        /\ \A s \in D : hole'[s] = HoleCards
    BY <1>4, <1>6, <1>7
  <2>2. SumFunctionOnSet(hole', Seats) = SumFunctionOnSet(hole', D)
    BY <1>4, <2>1, SeatsAreFinite, SumOverPart
  <2>3. SumFunctionOnSet(hole', D) = HoleCards * n
    BY <1>4, <1>7, <2>1, SumOfConstant DEF n
  <2>4. QED
    BY <1>4, <1>7, <2>2, <2>3
<1>11. CardsAccounted'
  <2>1. TotalOver(hole', Seats) = SumFunctionOnSet(hole', Seats)
    BY TotalIsSum
  <2>2. QED
    BY <1>6, <1>7, <1>8, <1>10, <2>1 DEF CardsAccounted
<1>12. HoleCardsEven'
  <2>1. \A s \in D : hole'[s] = HoleCards
    BY <1>4, <1>6
  <2>2. QED
    BY <2>1, MostCardsIs DEF HoleCardsEven, activeHandPlayers, MostCards
<1>13. HandTypeOK'
  BY <1>1, <1>9 DEF HandTypeOK
<1>14. TypeOK' /\ (phase # "none" => button \in Seats)'
  BY <1>2 DEF IInv
<1>15. QED
  BY <1>2, <1>3, <1>5, <1>11, <1>12, <1>13, <1>14 DEF HandIInv

\* A deal that fails takes the blinds and leaves no hand.
LEMMA StartHandThrowsInv ==
  ASSUME HandIInv, StartHandThrows
  PROVE  HandIInv'
<1> DEFINE btn == nextButtonSeatIndex
           sb == SmallBlindSeat(activeSeats, btn)
           bb == FirstAfter(sb, activeSeats)
<1>1. TypeOK /\ HandTypeOK
  BY DEF HandIInv
<1>2. /\ phase = "none" /\ ~AtMostOne(activeSeats) /\ button' = btn
      /\ stack' = [s \in Seats |-> stack[s] - Posted(s, activeSeats, sb, bb)]
      /\ UNCHANGED <<active, handVars, startStack, cardVars, result>>
  BY DEF StartHandThrows
<1>3. btn \in Seats
  <2>1. activeSeats \in SUBSET Seats /\ activeSeats # {}
    BY <1>1, <1>2 DEF activeSeats, TypeOK, AtMostOne
  <2>2. NumSeats - 1 \in Seats
    BY NumSeatsAssumption DEF Seats
  <2>3. button \in Seats \cup {NoSeat}
    BY <1>1 DEF TypeOK
  <2>4. QED
    BY <2>1, <2>2, <2>3, FirstAfterIn DEF nextButtonSeatIndex
<1>4. stack' \in [Seats -> Nat]
  <2>1. \A s \in Seats : stack[s] - Posted(s, activeSeats, sb, bb) \in Nat
    <3> TAKE s \in Seats
    <3>1. Posted(s, activeSeats, sb, bb) \in Nat /\ Posted(s, activeSeats, sb, bb) <= stack[s]
      BY <1>1, PostedIsCovered
    <3>2. stack[s] \in Nat
      BY <1>1 DEF TypeOK
    <3>3. QED
      BY <3>1, <3>2
  <2>2. QED
    BY <1>2, <2>1
<1>5. TypeOK' /\ phase' = "none"
  BY <1>1, <1>2, <1>3, <1>4 DEF TypeOK, handVars, roundVars
<1>6. HandTypeOK'
  BY <1>1, <1>2 DEF HandTypeOK, cardVars
<1>7. QED
  BY <1>5, <1>6 DEF HandIInv

\* Who plays, and with what, does not change while the hand is bet.
SamePlayers ==
  /\ dealt' = dealt /\ startStack' = startStack /\ button' = button /\ active' = active
  /\ folded \subseteq folded' /\ phase' \in {"betting", "showdown"}
  /\ \A p \in Seats : p \notin dealt => contributed'[p] = contributed[p]

\* So it is for each action of a player.
LEMMA ActionKeepsPlayers ==
  ASSUME IInv, NEW s \in Seats, ApplyAction(s)
  PROVE  SamePlayers
<1>1. contributed \in [Seats -> Nat]
  BY DEF IInv, TypeOK
<1>2. HasTurn(s)
  BY DEF ApplyAction, Fold, Check, Call, Raise
<1>3. s \in dealt /\ phase = "betting"
  BY <1>2, TurnSeat
<1>4. /\ UNCHANGED <<active, button, dealt, startStack>> /\ folded \subseteq folded'
      /\ \A p \in Seats : p \notin dealt => contributed'[p] = contributed[p]
  BY <1>1, <1>3 DEF ApplyAction, Fold, Check, Call, Raise, commitChips
<1>5. \E com, act, bet, increment : FinishAction(s, com, act, bet, increment)
  BY DEF ApplyAction, Fold, Check, Call, Raise
<1>6. phase' \in {"betting", "showdown"}
  BY <1>3, <1>5 DEF FinishAction, dealAndMaybeStartRound
<1>7. QED
  BY <1>4, <1>6 DEF SamePlayers

\* Unfolded hands only grow, and as the street deals them.
DealsOn ==
  \E h, d : /\ DealStreetCards(h, d)
            /\ \A s \in dealt \ folded' : h[s] = hole[s] /\ hole'[s] >= hole[s]

\* A step of the betting with what it deals, from the hands as a fold leaves them.
LEMMA DealKeepsHand ==
  ASSUME HandIInv, phase = "betting", IInv', SamePlayers, result' = result,
         NEW h \in [Seats -> Nat], NEW d \in Nat, DealStreetCards(h, d),
         d + SumFunctionOnSet(h, Seats) = deck + SumFunctionOnSet(hole, Seats),
         \A s \in dealt \ folded' : h[s] = hole[s]
  PROVE  HandIInv' /\ DealsOn
<1>1. /\ TypeOK /\ HandTypeOK /\ button \in Seats
      /\ deck + SumFunctionOnSet(hole, Seats) + Reserved = DeckSize
      /\ HeldEvenly(hole, dealt \ folded) /\ OnlyDealtPay
  BY CountOfCards DEF HandIInv
<1>2. dealt \subseteq Seats
  BY <1>1 DEF TypeOK
<1>3. TypeOK' /\ street' \in Nat \ {0}
  <2>1. TypeOK' /\ (phase # "none" => street >= 1)' /\ phase' # "none"
    BY DEF IInv, SamePlayers
  <2>2. street' \in Nat
    BY <2>1 DEF TypeOK
  <2>3. QED
    BY <2>1, <2>2
<1>4. HeldEvenly(h, dealt \ folded')
  <2>1. dealt \ folded' \subseteq dealt \ folded
    BY DEF SamePlayers
  <2>2. QED
    BY <1>1, <2>1 DEF HeldEvenly
<1>5. dealt' = dealt
  BY DEF SamePlayers
<1>6. /\ hole' \in [Seats -> Nat] /\ deck' \in Nat
      /\ deck' + SumFunctionOnSet(hole', Seats) = d + SumFunctionOnSet(h, Seats)
      /\ HeldEvenly(hole', dealt \ folded')
      /\ \A s \in dealt \ folded' : hole'[s] >= h[s]
  BY <1>2, <1>3, <1>4, <1>5, DealKeepsCards
<1>7. CardsAccounted'
  <2>1. TotalOver(hole', Seats) = SumFunctionOnSet(hole', Seats)
    BY TotalIsSum
  <2>2. QED
    BY <1>1, <1>6, <2>1 DEF CardsAccounted
<1>8. HoleCardsEven'
  BY <1>5, <1>6 DEF HoleCardsEven, HeldEvenly, MostCards, activeHandPlayers
<1>9. OnlyDealtPay'
  BY <1>1 DEF OnlyDealtPay, SamePlayers, AtMostOne
<1>10. HandTypeOK'
  BY <1>1, <1>6 DEF HandTypeOK
<1>11. button' \in Seats /\ phase' \in {"betting", "showdown"}
  BY <1>1 DEF SamePlayers
<1>12. HandIInv'
  BY <1>3, <1>7, <1>8, <1>9, <1>10, <1>11 DEF HandIInv
<1>13. DealsOn
  BY <1>6 DEF DealsOn
<1>14. QED
  BY <1>12, <1>13

\* A fold returns its cards to the deck, in the games that reshuffle them.
LEMMA FoldHandInv ==
  ASSUME HandIInv, NEW s \in Seats, FoldHand(s)
  PROVE  HandIInv' /\ SamePlayers /\ DealsOn
<1>1. Fold(s) /\ result' = result
  BY DEF FoldHand
<1>2. phase = "betting"
  BY <1>1 DEF Fold, HasTurn
<1>3. IInv /\ hole \in [Seats -> Nat] /\ deck \in Nat
  BY <1>2 DEF HandIInv, HandTypeOK
<1>4. IInv'
  BY <1>1, <1>3, FoldInv
<1>5. SamePlayers /\ folded' = folded \cup {s}
  <2>1. ApplyAction(s)
    BY <1>1 DEF ApplyAction
  <2>2. QED
    BY <1>1, <1>3, <2>1, ActionKeepsPlayers DEF Fold
<1>6. CASE ~Reshuffle
  <2>1. DealStreetCards(hole, deck)
    BY <1>6 DEF FoldHand
  <2>2. QED
    BY <1>1, <1>2, <1>3, <1>4, <1>5, <2>1, DealKeepsHand
<1>7. CASE Reshuffle
  <2> DEFINE h == [hole EXCEPT ![s] = 0]
             d == deck + hole[s]
  <2>1. DealStreetCards(h, d)
    BY <1>7 DEF FoldHand
  <2>2. /\ h \in [Seats -> Nat] /\ d \in Nat /\ hole[s] \in Nat /\ -hole[s] \in Int
        /\ h[s] = hole[s] + (-hole[s]) /\ \A p \in Seats \ {s} : h[p] = hole[p]
        /\ \A p \in Seats : hole[p] \in Int
    BY <1>3
  <2>3. \A p \in dealt \ folded' : h[p] = hole[p]
    <3>1. dealt \subseteq Seats
      BY <1>3 DEF IInv, TypeOK
    <3>2. QED
      BY <1>5, <2>2, <3>1
  <2> HIDE DEF h
  <2>4. SumFunctionOnSet(h, Seats) = SumFunctionOnSet(hole, Seats) + (-hole[s])
    BY <2>2, SeatsAreFinite, SumAfterChange
  <2>5. SumFunctionOnSet(hole, Seats) \in Int
    BY <2>2, SeatsAreFinite, SumIsInteger
  <2>6. d + SumFunctionOnSet(h, Seats) = deck + SumFunctionOnSet(hole, Seats)
    BY <1>3, <2>2, <2>4, <2>5
  <2> HIDE DEF d
  <2>7. QED
    BY <1>1, <1>2, <1>4, <1>5, <2>1, <2>2, <2>3, <2>6, DealKeepsHand
<1>8. QED
  BY <1>6, <1>7

\* The other actions, and a street dealt without one.
LEMMA OtherActionInv ==
  ASSUME HandIInv, (\E s \in Seats : OtherAction(s)) \/ DealNextStreet
  PROVE  HandIInv' /\ SamePlayers /\ DealsOn
<1>1. DealStreetCards(hole, deck) /\ result' = result /\ phase = "betting"
  BY DEF OtherAction, DealNextStreet, Check, Call, Raise, HasTurn, ContinueDealing, hasMoreDealing
<1>2. IInv /\ hole \in [Seats -> Nat] /\ deck \in Nat
  BY <1>1 DEF HandIInv, HandTypeOK
<1>3. IInv' /\ SamePlayers
  <2>1. CASE \E s \in Seats : OtherAction(s)
    <3> PICK s \in Seats : OtherAction(s)
      BY <2>1
    <3>1. \/ Check(s) \/ Call(s)
          \/ \E to \in 1 .. committed[s] + stack[s] : Raise(s, to)
      BY DEF OtherAction
    <3>2. ApplyAction(s)
      BY <3>1 DEF ApplyAction
    <3>3. IInv'
      BY <1>2, <3>1, CheckInv, CallInv, RaiseInv
    <3>4. QED
      BY <1>2, <3>2, <3>3, ActionKeepsPlayers
  <2>2. CASE DealNextStreet
    <3>1. ContinueDealing
      BY <2>2 DEF DealNextStreet
    <3>2. IInv'
      BY <1>2, <3>1, ContinueDealingInv
    <3>3. SamePlayers
      BY <3>1 DEF ContinueDealing, SamePlayers, dealAndMaybeStartRound
    <3>4. QED
      BY <3>2, <3>3
  <2>3. QED
    BY <2>1, <2>2
<1>4. QED
  BY <1>1, <1>2, <1>3, DealKeepsHand

\* However hands are compared, each of them has a strength on every board.
LEMMA ShowdownsHaveStrengths ==
  ASSUME TypeOK, NEW showdown \in Showdowns
  PROVE  ShowdownOf(showdown, dealt \ folded)
<1> DEFINE H == activeHandPlayers
           strengths == [H -> 1 .. Cardinality(H)]
           idle == {[s \in H |-> 0]}
<1>1. H = dealt \ folded
  BY DEF activeHandPlayers
<1>2. Cardinality(H) \in Nat
  <2>1. H \in SUBSET Seats
    BY <1>1 DEF TypeOK
  <2> HIDE DEF H
  <2>2. QED
    BY <2>1, SeatsAreFinite, FS_CardinalityType
<1>3. /\ showdown.board \in [1 .. Boards -> strengths]
      /\ showdown.own \in strengths \cup idle
      /\ showdown.low \in [H -> 0 .. 2] \cup idle
  BY DEF Showdowns
<1>4. \A f \in strengths \cup idle : \A s \in H : f[s] \in Nat
  <2> HIDE DEF H
  <2>1. QED
    BY <1>2
<1>5. /\ DOMAIN showdown.board = 1 .. Boards
      /\ \A b \in 1 .. Boards : showdown.board[b] \in strengths
  <2> HIDE DEF strengths
  <2>1. QED
    BY <1>3
<1>6. \A s \in H : showdown.low[s] \in Nat
  <2> HIDE DEF H
  <2>1. QED
    BY <1>3
<1> HIDE DEF strengths, idle, H
<1>7. QED
  BY <1>1, <1>3, <1>4, <1>5, <1>6, CardsAssumption DEF ShowdownOf

\* What the lemmas about side pots say of a showdown.
LEMMA ShowdownPays ==
  ASSUME NEW T, NEW c, NEW P, NEW F, NEW mode, NEW rank, NEW showdown,
         ShowdownAmong(T, c, P, F, mode, rank, showdown), \A s \in P : \E q \in P : q # s,
         NEW won, PaidTo(won, T, c, P, F, mode, rank, showdown)
  PROVE  /\ \A s \in T : won[s] \in Nat
         /\ DeadChips(c, P, F) \in Int
         /\ SumFunctionOnSet(won, T) + DeadChips(c, P, F) = SumFunctionOnSet(c, P)
         /\ FairPots(won, c, P, F)
BY WinningsAreFair, WinningsAddUp DEF FairPots

\* The accounts of a finished hand in the words of the lemmas.
ChipsAddUp ==
  SumFunctionOnSet(stack, Seats) + DeadChips(contributed, dealt, folded) = SumFunctionOnSet(startStack, Seats)
PotsAreFair == FairPots(result.pots, contributed, dealt, folded)

\* They say the same.
LEMMA AccountsAre == (ChipsAccounted <=> ChipsAddUp) /\ (SidePotsAreFair <=> PotsAreFair)
<1>1. /\ TotalOver(stack, Seats) = SumFunctionOnSet(stack, Seats)
      /\ TotalOver(startStack, Seats) = SumFunctionOnSet(startStack, Seats)
  BY TotalIsSum
<1>2. ChipsAccounted <=> ChipsAddUp
  BY <1>1, Zenon DEF ChipsAccounted, ChipsAddUp, HandPots, DeadChips
<1>3. SidePotsAreFair <=> PotsAreFair
  BY Zenon DEF SidePotsAreFair, PotsAreFair, FairPots, FairTo, Cover, activeHandPlayers
<1>4. QED
  BY <1>2, <1>3

\* After a step too.
LEMMA AccountsStayAre == (ChipsAccounted' <=> ChipsAddUp') /\ (SidePotsAreFair' <=> PotsAreFair')
BY AccountsAre, PTL

\* The payout of a hand accounts for every chip and follows the side pots.
LEMMA EvaluateShowdownInv ==
  ASSUME HandIInv, EvaluateShowdown
  PROVE  HandIInv'
<1>1. /\ phase = "showdown" /\ phase' = "complete"
      /\ UNCHANGED <<active, button, street, dealt, folded, allIn, committed, contributed, acted,
                     inRound, currentBet, minRaise, turn, startStack, deck, hole>>
  BY DEF EvaluateShowdown, roundVars, cardVars
<1>2. PICK showdown \in Showdowns, holders \in (IF Bounty > 0 THEN SUBSET dealt ELSE {{}}) :
       LET won == [s \in Seats |-> Winnings(HandPots, showdown, Scoring, SeatRank, s)]
           winners == UNION {HighWinners(pot, showdown, Scoring) : pot \in HandPots}
           moves == BountyMoves(winners, holders, [s \in Seats |-> stack[s] + won[s]])
       IN  /\ stack' = [s \in Seats |-> stack[s] + won[s] + moves[s]]
           /\ result' = [pots |-> won, bounty |-> moves]
  BY Zenon DEF EvaluateShowdown
<1> DEFINE won == [s \in Seats |-> Winnings(HandPots, showdown, Scoring, SeatRank, s)]
           winners == UNION {HighWinners(pot, showdown, Scoring) : pot \in HandPots}
           richer == [s \in Seats |-> stack[s] + won[s]]
           moves == BountyMoves(winners, holders, richer)
           dead == DeadChips(contributed, dealt, folded)
<1>3. /\ stack' = [s \in Seats |-> stack[s] + won[s] + moves[s]]
      /\ result' = [pots |-> won, bounty |-> moves]
  BY <1>2, Zenon
<1>4. /\ IInv /\ TypeOK /\ HandTypeOK /\ button \in Seats
      /\ CardsAccounted /\ HoleCardsEven /\ OnlyDealtPay
  BY <1>1 DEF HandIInv
<1>5. /\ dealt \in SUBSET Seats /\ folded \subseteq dealt
      /\ stack \in [Seats -> Nat] /\ startStack \in [Seats -> Nat] /\ contributed \in [Seats -> Nat]
      /\ \A s \in Seats : stack[s] + contributed[s] = startStack[s]
  BY <1>4 DEF IInv, TypeOK, ChipsBalance
<1>6. Bets(contributed, dealt) /\ Ranked(SeatRank, Seats) /\ ShowdownOf(showdown, dealt \ folded)
  <2>1. IsFiniteSet(dealt)
    BY <1>5, SeatsAreFinite
  <2>2. QED
    BY <1>2, <1>4, <1>5, <2>1, SeatRankIs, ShowdownsHaveStrengths DEF Bets
<1>7. HandPots = Pots(contributed, dealt, folded)
  BY DEF HandPots
<1>8. holders \in SUBSET dealt
  BY <1>2
<1> HIDE DEF dead, won, moves
<1>9. \A s \in Seats : won[s] = Winnings(Pots(contributed, dealt, folded), showdown, Scoring, SeatRank, s)
  BY <1>7 DEF won
<1>10. /\ \A s \in Seats : won[s] \in Nat
       /\ dead \in Int /\ SumFunctionOnSet(won, Seats) + dead = SumFunctionOnSet(contributed, dealt)
       /\ FairPots(won, contributed, dealt, folded)
  <2>1. ShowdownAmong(Seats, contributed, dealt, folded, Scoring, SeatRank, showdown)
    BY <1>5, <1>6, SeatsAreFinite, CardsAssumption DEF ShowdownAmong, Scorings
  <2>2. PaidTo(won, Seats, contributed, dealt, folded, Scoring, SeatRank, showdown)
    BY <1>9 DEF PaidTo
  <2>3. \A s \in dealt : \E q \in dealt : q # s
    BY <1>4 DEF OnlyDealtPay, AtMostOne
  <2>4. QED
    BY <2>1, <2>2, <2>3, ShowdownPays DEF dead
<1>11. /\ moves \in [Seats -> Int]
       /\ \A s \in Seats : stack[s] + won[s] + moves[s] \in Nat
       /\ SumFunctionOnSet(moves, Seats) = 0
  <2>1. richer \in [Seats -> Nat] /\ \A s \in Seats : richer[s] = stack[s] + won[s]
    BY <1>5, <1>10
  <2> HIDE DEF richer, winners
  <2>2. moves = BountyMoves(winners, holders, richer)
    BY DEF moves
  <2>3. QED
    BY <1>5, <1>8, <2>1, <2>2, BountyCancels
<1>12. stack' \in [Seats -> Nat]
  BY <1>3, <1>11
<1>13. SumFunctionOnSet(stack', Seats) + dead = SumFunctionOnSet(startStack, Seats)
  <2>1. SumFunctionOnSet(startStack, Seats)
          = SumFunctionOnSet(stack, Seats) + SumFunctionOnSet(contributed, Seats)
    <3>1. \A s \in Seats : stack[s] \in Int /\ contributed[s] \in Int
                           /\ startStack[s] = stack[s] + contributed[s]
      BY <1>5
    <3>2. QED
      BY <3>1, SeatsAreFinite, SumOfSum
  <2>2. SumFunctionOnSet(contributed, Seats) = SumFunctionOnSet(contributed, dealt)
    <3>1. /\ \A s \in Seats : contributed[s] \in Int
          /\ \A s \in Seats \ dealt : contributed[s] = 0
      BY <1>4, <1>5 DEF OnlyDealtPay
    <3>2. QED
      BY <1>5, <3>1, SeatsAreFinite, SumOverPart
  <2> DEFINE paid == [s \in Seats |-> won[s] + moves[s]]
  <2>3. \A s \in Seats : /\ stack[s] \in Int /\ won[s] \in Int /\ moves[s] \in Int
                         /\ paid[s] \in Int /\ paid[s] = won[s] + moves[s]
                         /\ stack'[s] = stack[s] + paid[s]
    BY <1>3, <1>5, <1>10, <1>11
  <2> HIDE DEF paid
  <2>4. SumFunctionOnSet(paid, Seats) = SumFunctionOnSet(won, Seats) + SumFunctionOnSet(moves, Seats)
    BY <2>3, SeatsAreFinite, SumOfSum
  <2>5. SumFunctionOnSet(stack', Seats) = SumFunctionOnSet(stack, Seats) + SumFunctionOnSet(paid, Seats)
    BY <2>3, SeatsAreFinite, SumOfSum
  <2>6. /\ SumFunctionOnSet(stack, Seats) \in Int /\ SumFunctionOnSet(won, Seats) \in Int
        /\ SumFunctionOnSet(contributed, dealt) \in Int
    <3>1. \A s \in dealt : contributed[s] \in Int
      BY <1>5
    <3>2. IsFiniteSet(dealt)
      BY <1>5, SeatsAreFinite
    <3>3. QED
      BY <2>3, <3>1, <3>2, SeatsAreFinite, SumIsInteger
  <2>7. QED
    BY <1>10, <1>11, <2>1, <2>2, <2>4, <2>5, <2>6
<1>14. ChipsAccounted'
  BY <1>1, <1>13, AccountsStayAre DEF dead, ChipsAddUp
<1>15. SidePotsAreFair'
  <2>1. result'.pots = won
    BY <1>3
  <2>2. QED
    BY <1>1, <1>10, <2>1, AccountsStayAre DEF PotsAreFair
<1>16. TypeOK'
  BY <1>1, <1>4, <1>12 DEF TypeOK
<1>17. HandTypeOK'
  <2>1. result'.pots = won /\ result'.bounty = moves
    BY <1>3
  <2>2. won \in [Seats -> Nat]
    BY <1>10 DEF won
  <2>3. QED
    BY <1>1, <1>4, <1>11, <2>1, <2>2 DEF HandTypeOK
<1>18. CardsAccounted' /\ HoleCardsEven' /\ OnlyDealtPay'
  BY <1>1, <1>4 DEF CardsAccounted, HoleCardsEven, OnlyDealtPay, AtMostOne, activeHandPlayers
<1>19. QED
  BY <1>1, <1>4, <1>14, <1>15, <1>16, <1>17, <1>18 DEF HandIInv

\* Every step of a hand keeps the invariant.
LEMMA HandNextInv ==
  ASSUME HandIInv, [HandNext]_vars
  PROVE  HandIInv'
<1>1. CASE UNCHANGED vars
  <2>1. UNCHANGED <<active, stack, button, phase, street, dealt, folded, allIn, committed, contributed,
                    acted, inRound, currentBet, minRaise, turn, startStack, deck, hole, result>>
    BY <1>1 DEF vars, bettingVars, handVars, roundVars, cardVars
  <2>2. TypeOK => TypeOK'
    BY <2>1 DEF TypeOK
  <2>3. IInv => IInv'
    BY <2>1, <2>2 DEF IInv, ChipsBalance, TurnCanAct, CanAct, activeHandPlayers
  <2>4. HandTypeOK => HandTypeOK'
    BY <2>1 DEF HandTypeOK
  <2>5. CardsAccounted /\ HoleCardsEven /\ OnlyDealtPay => (CardsAccounted /\ HoleCardsEven /\ OnlyDealtPay)'
    BY <2>1 DEF CardsAccounted, HoleCardsEven, OnlyDealtPay, AtMostOne, activeHandPlayers
  <2>6. ChipsAccounted /\ SidePotsAreFair => ChipsAccounted' /\ SidePotsAreFair'
    BY <2>1, AccountsAre, AccountsStayAre DEF ChipsAddUp, PotsAreFair
  <2>7. QED
    BY <2>1, <2>2, <2>3, <2>4, <2>5, <2>6 DEF HandIInv
<1>2. CASE HandRest
  BY <1>1, <1>2 DEF HandRest
<1>3. CASE StartHand
  BY <1>3, StartHandInv
<1>4. CASE StartHandThrows
  BY <1>4, StartHandThrowsInv
<1>5. CASE \E s \in Seats : FoldHand(s)
  BY <1>5, FoldHandInv
<1>6. CASE (\E s \in Seats : OtherAction(s)) \/ DealNextStreet
  BY <1>6, OtherActionInv
<1>7. CASE EvaluateShowdown
  BY <1>7, EvaluateShowdownInv
<1>8. QED
  BY <1>1, <1>2, <1>3, <1>4, <1>5, <1>6, <1>7 DEF HandNext

\* The invariant holds throughout every hand.
THEOREM HandInvariantHolds == HandSpec => []HandIInv
<1>1. HandIInv /\ [HandNext]_vars => HandIInv'
  BY HandNextInv
<1>2. QED
  BY <1>1, HandInitInv, PTL DEF HandSpec

\* Every variable keeps its type: the deck never runs below zero, whatever is redrawn, and
\* no stack does, whatever is bet, won or paid as a bounty.
THEOREM HandTypesHold == HandSpec => [](TypeOK /\ HandTypeOK)
<1>1. HandIInv => TypeOK /\ HandTypeOK
  BY DEF HandIInv
<1>2. QED
  BY <1>1, HandInvariantHolds, PTL

\* Dealing loses no card and deals unfolded players equally many, in every game: folds that
\* return cards, redraws toward any targets, and decks that run short.
THEOREM DealsAreFair == HandSpec => []DealIsFair
<1>1. HandIInv => DealIsFair
  BY DEF HandIInv, DealIsFair
<1>2. QED
  BY <1>1, HandInvariantHolds, PTL

\* A finished hand has paid what it should, whatever was bet by however many players, however
\* their hands compare, on any number of boards, and with any bounty.
THEOREM PayoutsAreFair == HandSpec => []PayoutIsFair
<1>1. HandIInv => PayoutIsFair
  BY DEF HandIInv, PayoutIsFair
<1>2. QED
  BY <1>1, HandInvariantHolds, PTL

-----------------------------------------------------------------------------
(* The replay.                                                             *)

\* A street that is bet on after the first begins with board cards, which the log shows.  So
\* it is in every game definition of packages/game-engine.
StreetsShow == \A k \in DOMAIN StreetBets : k > 1 /\ StreetBets[k] => Community[k] > 0

Frames == [street : Nat, committed : [Seats -> Int], contributed : [Seats -> Int],
           hole : [Seats -> Int], stack : [Seats -> Int], folded : SUBSET Seats]

\* The accumulators follow the hand: the street they show is never ahead of it, and is the
\* one that is bet on.
FrameFollows ==
  /\ frame \in Frames /\ frame.street <= street
  /\ frame.folded = folded
  /\ frame.contributed = contributed
  /\ phase # "complete" => frame.stack = stack
  /\ inRound => frame.street = street /\ frame.committed = committed
  /\ \A s \in dealt \ folded : frame.hole[s] = hole[s]
  /\ allIn = {s \in dealt : frame.stack[s] <= 0 /\ frame.contributed[s] > 0}

ReplayIInv == HandIInv /\ (phase # "none" => FrameFollows)

\* A flag that is exact can be read off the replay.
LEMMA AllInShows ==
  ASSUME IInv', OnlyDealtPay', phase' # "none", NEW f, f.stack = stack', f.contributed = contributed'
  PROVE  allIn' = {s \in dealt' : f.stack[s] <= 0 /\ f.contributed[s] > 0}
<1>1. /\ dealt' \subseteq Seats /\ stack' \in [Seats -> Nat] /\ contributed' \in [Seats -> Nat]
      /\ startStack' \in [Seats -> Nat] /\ \A s \in Seats : stack'[s] + contributed'[s] = startStack'[s]
      /\ allIn' = {s \in dealt' : stack'[s] = 0} /\ \A s \in dealt' : startStack'[s] > 0
  BY DEF IInv, TypeOK, ChipsBalance, OnlyDealtPay
<1>2. \A s \in dealt' : stack'[s] = 0 <=> stack'[s] <= 0 /\ contributed'[s] > 0
  <2> SUFFICES ASSUME NEW s \in dealt' PROVE stack'[s] = 0 <=> stack'[s] <= 0 /\ contributed'[s] > 0
    OBVIOUS
  <2>1. /\ stack'[s] \in Nat /\ contributed'[s] \in Nat /\ startStack'[s] \in Nat
        /\ stack'[s] + contributed'[s] = startStack'[s] /\ startStack'[s] > 0
    BY <1>1
  <2>2. QED
    BY <2>1
<1>3. QED
  BY <1>1, <1>2

\* The next street is the one after, and a round on it starts from nothing committed.
StreetStep ==
  /\ street' \in {street, street + 1}
  /\ inRound' /\ street' # street =>
       /\ street' <= Len(StreetBets) /\ StreetBets[street'] /\ committed' = [s \in Seats |-> 0]

\* So it is after every action.
LEMMA FinishStepsStreet ==
  ASSUME street \in Nat \ {0}, NEW s, NEW com, NEW act, NEW bet, NEW increment,
         FinishAction(s, com, act, bet, increment)
  PROVE  StreetStep /\ (inRound' /\ street' = street => committed' = com)
<1>1. street + 1 # 1 /\ street + 1 # street
  OBVIOUS
<1>2. CASE dealAndMaybeStartRound(street + 1, dealt \ folded', allIn', com, act, NoSeat)
  BY <1>1, <1>2 DEF dealAndMaybeStartRound, StreetStep, startBettingRound, NoRound, resetStreetContributions
<1>3. CASE ~dealAndMaybeStartRound(street + 1, dealt \ folded', allIn', com, act, NoSeat)
  BY <1>3 DEF FinishAction, StreetStep, NoRound
<1>4. QED
  BY <1>2, <1>3

\* The accumulators after an entry, before the street it may lead to.
EntryFollows(f) ==
  /\ f \in Frames /\ f.street <= street
  /\ f.folded = folded' /\ f.contributed = contributed' /\ f.stack = stack'
  /\ \A s \in dealt \ folded' : f.hole[s] = hole[s]
  /\ inRound' /\ street' = street => f.street = street /\ f.committed = committed'

\* What the street logs keeps the replay with the hand.
LEMMA StreetFollows ==
  ASSUME StreetsShow, HandIInv, HandIInv', phase = "betting", SamePlayers, StreetStep,
         DealsOn, NEW f, EntryFollows(f), frame' = StreetEntries(f)
  PROVE  FrameFollows'
<1> DEFINE drawn == [s \in Seats |-> Most(0, hole'[s] - hole[s])]
           quiet == street' = street \/ street' > Len(StreetBets)
                      \/ (Community[street'] = 0 /\ drawn = Nothing)
           n == NewStreet(f, street')
           live == dealt \ folded'
<1> PICK h, d : /\ DealStreetCards(h, d)
                /\ \A s \in live : h[s] = hole[s] /\ hole'[s] >= hole[s]
  BY DEF DealsOn
<1>1. /\ f \in Frames /\ f.street <= street /\ f.street \in Nat
      /\ f.folded = folded' /\ f.contributed = contributed' /\ f.stack = stack'
      /\ \A s \in live : f.hole[s] = hole[s]
      /\ inRound' /\ street' = street => f.street = street /\ f.committed = committed'
      /\ f.hole \in [Seats -> Int]
  BY DEF EntryFollows, Frames
<1>2. /\ street \in Nat \ {0} /\ street' \in Nat \ {0} /\ hole \in [Seats -> Nat] /\ hole' \in [Seats -> Nat]
      /\ IInv' /\ OnlyDealtPay' /\ phase' # "none" /\ phase' # "complete"
      /\ dealt' = dealt /\ live \in SUBSET Seats
  <2>1. phase' \in {"betting", "showdown"} /\ dealt' = dealt
    BY DEF SamePlayers
  <2>2. IInv /\ IInv' /\ OnlyDealtPay' /\ hole \in [Seats -> Nat] /\ hole' \in [Seats -> Nat]
    BY <2>1 DEF HandIInv, HandTypeOK
  <2>3. street \in Nat \ {0} /\ live \in SUBSET Seats
    BY <2>2 DEF IInv, TypeOK
  <2>4. street' \in Nat \ {0}
    BY <2>3 DEF StreetStep
  <2>5. QED
    BY <2>1, <2>2, <2>3, <2>4
<1>3. /\ street' = street \/ street' = street + 1
      /\ inRound' /\ street' # street =>
           /\ street' <= Len(StreetBets) /\ StreetBets[street'] /\ committed' = [s \in Seats |-> 0]
  BY DEF StreetStep
<1>4. frame' = IF quiet THEN f ELSE [n EXCEPT !.hole = [s \in Seats |-> @[s] + drawn[s]]]
  BY Zenon DEF StreetEntries
<1>5. \A s \in live : hole'[s] = hole[s] + drawn[s] /\ drawn[s] \in Nat
  BY <1>2 DEF Most
<1>6. /\ frame' \in Frames /\ frame'.street <= street' /\ frame'.folded = folded'
      /\ frame'.contributed = contributed' /\ frame'.stack = stack'
      /\ inRound' => frame'.street = street' /\ frame'.committed = committed'
      /\ \A s \in live : frame'.hole[s] = hole'[s]
  <2>1. CASE quiet
    <3>1. frame' = f
      BY <1>4, <2>1
    <3>2. inRound' => street' = street
      <4> SUFFICES ASSUME inRound', street' # street PROVE FALSE
        OBVIOUS
      <4>1. street' <= Len(StreetBets) /\ StreetBets[street'] /\ street' > 1
        BY <1>2, <1>3
      <4>2. street' \in DOMAIN StreetBets
        BY <1>2, <4>1, StructureAssumption
      <4>3. Community[street'] > 0
        BY <4>1, <4>2 DEF StreetsShow
      <4>4. Len(StreetBets) \in Nat
        BY StructureAssumption
      <4>5. QED
        BY <1>2, <2>1, <4>1, <4>3, <4>4
    <3>3. \A s \in live : hole'[s] = hole[s]
      <4>1. CASE street' = street \/ street' > Len(StreetBets)
        <5>1. hole' = h
          <6>1. Len(StreetBets) \in Nat
            BY StructureAssumption
          <6>2. ~(street' # street /\ street' <= Len(StreetBets))
            BY <1>2, <4>1, <6>1
          <6>3. QED
            BY <6>2 DEF DealStreetCards
        <5>2. QED
          BY <5>1
      <4>2. CASE drawn = Nothing
        <5>1. \A s \in live : drawn[s] = 0
          BY <1>2, <4>2 DEF Nothing
        <5> HIDE DEF drawn
        <5>2. QED
          BY <1>2, <1>5, <5>1
      <4>3. QED
        BY <2>1, <4>1, <4>2
    <3>4. frame'.street <= street'
      BY <1>1, <1>2, <1>3, <3>1
    <3>5. QED
      BY <1>1, <3>1, <3>2, <3>3, <3>4
  <2>2. CASE ~quiet
    <3> HIDE DEF drawn
    <3>1. street' = street + 1 /\ f.street # street'
      BY <1>1, <1>2, <1>3, <2>2
    <3>2. n = [f EXCEPT !.street = street', !.committed = Nothing]
      BY <3>1 DEF NewStreet
    <3>3. /\ n \in Frames /\ n.street = street' /\ n.committed = Nothing /\ n.folded = f.folded
          /\ n.contributed = f.contributed /\ n.stack = f.stack /\ n.hole = f.hole
      <4>1. street' \in Nat /\ Nothing \in [Seats -> Int]
        BY <1>2 DEF Nothing
      <4> DEFINE k == street'
                 m == [f EXCEPT !.street = k]
      <4>2. k \in Nat /\ n = [m EXCEPT !.committed = Nothing]
        BY <3>2, <4>1
      <4> HIDE DEF k
      <4>3. /\ m \in Frames /\ m.street = k /\ m.folded = f.folded
            /\ m.contributed = f.contributed /\ m.stack = f.stack /\ m.hole = f.hole
        BY <1>1, <4>2 DEF Frames
      <4> HIDE DEF m, n
      <4>4. /\ n \in Frames /\ n.street = m.street /\ n.committed = Nothing /\ n.folded = m.folded
            /\ n.contributed = m.contributed /\ n.stack = m.stack /\ n.hole = m.hole
        BY <4>1, <4>2, <4>3 DEF Frames
      <4>5. QED
        BY <4>3, <4>4 DEF k
    <3>4. \A s \in Seats : drawn[s] \in Int
      BY <1>2 DEF drawn, Most
    <3> HIDE DEF n, quiet
    <3>5. frame' = [n EXCEPT !.hole = [s \in Seats |-> n.hole[s] + drawn[s]]]
      BY <1>4, <2>2
    <3>6. [s \in Seats |-> n.hole[s] + drawn[s]] \in [Seats -> Int]
      BY <1>1, <3>3, <3>4
    <3>7. /\ frame' \in Frames /\ frame'.street = n.street /\ frame'.committed = n.committed
          /\ frame'.folded = n.folded /\ frame'.contributed = n.contributed /\ frame'.stack = n.stack
          /\ frame'.hole = [s \in Seats |-> n.hole[s] + drawn[s]]
      BY <3>3, <3>5, <3>6 DEF Frames
    <3>8. \A s \in live : frame'.hole[s] = hole'[s]
      BY <1>1, <1>2, <1>5, <3>3, <3>7
    <3>9. inRound' => committed' = Nothing
      BY <1>2, <1>3, <3>1 DEF Nothing
    <3>10. QED
      BY <1>1, <1>2, <3>3, <3>7, <3>8, <3>9
  <2>3. QED
    BY <2>1, <2>2
<1>7. (allIn = {s \in dealt : frame.stack[s] <= 0 /\ frame.contributed[s] > 0})'
  BY <1>2, <1>6, AllInShows
<1>8. QED
  BY <1>2, <1>6, <1>7 DEF FrameFollows

\* The replay begins as the hand does.
LEMMA StartHandFollows ==
  ASSUME HandIInv, StartHand, frame' = PostsAndDeal(FirstFrame(startStack'), contributed')
  PROVE  FrameFollows'
<1> DEFINE start == FirstFrame(startStack')
<1>1. HandIInv' /\ InitHand
  BY StartHandInv DEF StartHand
<1>2. /\ phase' \in {"betting", "showdown"} /\ street' = 1 /\ folded' = {}
      /\ inRound' => committed' = contributed'
  BY <1>1 DEF InitHand, dealAndMaybeStartRound, NoRound, startBettingRound
<1>3. /\ IInv' /\ OnlyDealtPay' /\ HandTypeOK'
  BY <1>1, <1>2 DEF HandIInv
<1>4. /\ startStack' \in [Seats -> Nat] /\ stack' \in [Seats -> Nat] /\ contributed' \in [Seats -> Nat]
      /\ \A s \in Seats : stack'[s] + contributed'[s] = startStack'[s]
      /\ hole' = [s \in Seats |-> IF s \in dealt' THEN HoleCards ELSE 0]
      /\ hole' \in [Seats -> Nat]
  BY <1>3 DEF IInv, TypeOK, ChipsBalance, HandTypeOK, StartHand
<1>5. frame' = [start EXCEPT !.committed = contributed', !.contributed = contributed',
                             !.stack = [s \in Seats |-> @[s] - contributed'[s]],
                             !.hole = hole']
  BY <1>4, Zenon DEF PostsAndDeal
<1>6. start = [street |-> 1, committed |-> Nothing, contributed |-> Nothing, hole |-> Nothing,
               stack |-> startStack', folded |-> {}]
  BY DEF FirstFrame
<1> DEFINE c == contributed'
           held == hole'
           left == [s \in Seats |-> startStack'[s] - c[s]]
<1>7. frame' = [street |-> 1, committed |-> c, contributed |-> c, hole |-> held,
                stack |-> left, folded |-> {}]
  <2>1. start.stack = startStack'
    BY <1>6
  <2> HIDE DEF start, held, c
  <2>2. frame' = [start EXCEPT !.committed = c, !.contributed = c, !.stack = left, !.hole = held]
    BY <1>5, <2>1 DEF held, c
  <2> HIDE DEF left
  <2>3. QED
    BY <1>6, <2>2
<1>8. [s \in Seats |-> startStack'[s] - contributed'[s]] = stack'
  BY <1>4
<1>9. /\ frame' \in Frames /\ frame'.street = 1 /\ frame'.committed = contributed'
      /\ frame'.contributed = contributed' /\ frame'.hole = hole' /\ frame'.stack = stack'
      /\ frame'.folded = {}
  BY <1>4, <1>7, <1>8 DEF Frames
<1>10. (allIn = {s \in dealt : frame.stack[s] <= 0 /\ frame.contributed[s] > 0})'
  BY <1>2, <1>3, <1>9, AllInShows
<1>11. QED
  BY <1>2, <1>9, <1>10 DEF FrameFollows

\* A fold is logged with the street that was bet on.
LEMMA FoldFollows ==
  ASSUME StreetsShow, HandIInv, FrameFollows, NEW s \in Seats, FoldHand(s),
         frame' = StreetEntries(FoldEntry(NewStreet(frame, street), s))
  PROVE  FrameFollows'
<1>1. HandIInv' /\ SamePlayers /\ DealsOn
  BY FoldHandInv
<1>2. Fold(s) /\ phase = "betting" /\ inRound
  BY DEF FoldHand, Fold, HasTurn
<1>3. IInv /\ street \in Nat \ {0} /\ s \in dealt /\ dealt \subseteq Seats
  <2>1. IInv
    BY <1>2 DEF HandIInv
  <2>2. HasTurn(s)
    BY <1>2 DEF Fold
  <2>3. QED
    BY <1>2, <2>1, <2>2, TurnSeat DEF IInv, TypeOK
<1>4. /\ folded' = folded \cup {s} /\ stack' = stack /\ contributed' = contributed
      /\ FinishAction(s, committed, acted \cup {s}, currentBet, minRaise)
  BY <1>2 DEF Fold
<1>5. StreetStep /\ (inRound' /\ street' = street => committed' = committed)
  BY <1>3, <1>4, FinishStepsStreet
<1> DEFINE f == [frame EXCEPT !.folded = @ \cup {s}]
<1>6. FoldEntry(NewStreet(frame, street), s) = f
  BY <1>2 DEF FoldEntry, NewStreet, FrameFollows
<1>7. frame \in Frames /\ frame.folded \cup {s} \in SUBSET Seats
  BY DEF FrameFollows, Frames
<1>8. /\ f \in Frames /\ f.street = frame.street /\ f.committed = frame.committed
      /\ f.contributed = frame.contributed /\ f.hole = frame.hole /\ f.stack = frame.stack
      /\ f.folded = frame.folded \cup {s}
  BY <1>7 DEF Frames
<1> HIDE DEF f
<1>9. EntryFollows(f)
  BY <1>2, <1>4, <1>5, <1>8 DEF EntryFollows, FrameFollows
<1>10. QED
  BY <1>1, <1>2, <1>5, <1>6, <1>9, StreetFollows

\* What an action adds is what the log lets the replay work out: a call by the chips it adds,
\* a bet or raise by the total it is to.
LEMMA EntryAdds ==
  ASSUME FrameFollows, inRound, NEW s \in Seats, committed \in [Seats -> Nat],
         contributed'[s] - contributed[s] \in Int
  PROVE  ActionEntry(s) = AddChips(frame, s, contributed'[s] - contributed[s])
<1> DEFINE added == contributed'[s] - contributed[s]
           owed == currentBet - committed[s]
           f == NewStreet(frame, street)
<1>1. f = frame /\ f.committed = committed
  BY DEF FrameFollows, NewStreet
<1>2. ActionEntry(s) = IF added > owed THEN RaiseEntry(f, s, committed[s] + added) ELSE CallEntry(f, s, added)
  BY Zenon DEF ActionEntry
<1>3. (committed[s] + added) - f.committed[s] = added
  BY <1>1
<1> HIDE DEF f, added, owed
<1>4. RaiseEntry(f, s, committed[s] + added) = AddChips(f, s, added) /\ CallEntry(f, s, added) = AddChips(f, s, added)
  BY <1>3, Zenon DEF RaiseEntry, CallEntry
<1>5. ActionEntry(s) = AddChips(f, s, added)
  BY <1>2, <1>4
<1>6. QED
  BY <1>1, <1>5 DEF added

\* A check, call, bet or raise is logged with what it adds.
LEMMA ActionFollows ==
  ASSUME StreetsShow, HandIInv, FrameFollows, NEW s \in Seats, OtherAction(s),
         frame' = StreetEntries(ActionEntry(s))
  PROVE  FrameFollows'
<1>1. HandIInv' /\ SamePlayers /\ DealsOn
  BY OtherActionInv
<1>2. ApplyAction(s) /\ folded' = folded /\ HasTurn(s)
  BY DEF OtherAction, ApplyAction, Check, Call, Raise
<1>3. phase = "betting" /\ inRound
  BY <1>2 DEF HasTurn
<1>4. /\ IInv /\ IInv' /\ street \in Nat \ {0} /\ dealt \subseteq Seats
      /\ committed \in [Seats -> Nat] /\ contributed \in [Seats -> Nat] /\ contributed' \in [Seats -> Nat]
      /\ stack \in [Seats -> Nat] /\ stack' \in [Seats -> Nat] /\ startStack' = startStack
      /\ \A p \in Seats : stack[p] + contributed[p] = startStack[p]
      /\ \A p \in Seats : stack'[p] + contributed'[p] = startStack'[p]
  <2>1. phase' \in {"betting", "showdown"} /\ startStack' = startStack
    BY <1>1 DEF SamePlayers
  <2>2. IInv /\ IInv'
    BY <1>1, <1>3, <2>1 DEF HandIInv
  <2>3. /\ street \in Nat \ {0} /\ dealt \subseteq Seats
        /\ committed \in [Seats -> Nat] /\ contributed \in [Seats -> Nat]
        /\ stack \in [Seats -> Nat] /\ \A p \in Seats : stack[p] + contributed[p] = startStack[p]
    BY <1>3, <2>2 DEF IInv, TypeOK, ChipsBalance
  <2>4. /\ contributed' \in [Seats -> Nat] /\ stack' \in [Seats -> Nat]
        /\ \A p \in Seats : stack'[p] + contributed'[p] = startStack'[p]
    BY <2>2 DEF IInv, TypeOK, ChipsBalance
  <2>5. QED
    BY <2>1, <2>2, <2>3, <2>4
<1>5. PICK com, act, bet, increment : Commits(s, com, act, bet, increment)
  BY <1>2, <1>4, ActionCommits
<1>6. /\ FinishAction(s, com, act, bet, increment) /\ com \in [Seats -> Nat]
      /\ \A p \in Seats : contributed'[p] - com[p] = contributed[p] - committed[p]
  BY <1>5 DEF Commits
<1>7. StreetStep /\ (inRound' /\ street' = street => committed' = com)
  BY <1>4, <1>6, FinishStepsStreet
<1>8. \A p \in Seats : p # s => contributed'[p] = contributed[p]
  BY <1>2, <1>4 DEF OtherAction, Check, Call, Raise, commitChips
<1> DEFINE added == contributed'[s] - contributed[s]
           f == AddChips(frame, s, added)
           in == [frame.committed EXCEPT ![s] = @ + added]
           paid == [frame.contributed EXCEPT ![s] = @ + added]
           left == [frame.stack EXCEPT ![s] = @ - added]
<1>9. added \in Int
  BY <1>4
<1>10. ActionEntry(s) = f
  BY <1>3, <1>4, <1>9, EntryAdds
<1>11. /\ frame \in Frames /\ frame.street = street /\ frame.committed = committed
       /\ frame.contributed = contributed /\ frame.stack = stack /\ frame.folded = folded
       /\ \A p \in dealt \ folded : frame.hole[p] = hole[p]
  BY <1>3 DEF FrameFollows
<1>12. in = com /\ paid = contributed' /\ left = stack'
  <2>1. in = com
    <3>1. \A p \in Seats : in[p] = com[p]
      <4> SUFFICES ASSUME NEW p \in Seats PROVE in[p] = com[p]
        OBVIOUS
      <4>1. in[p] = IF p = s THEN committed[s] + added ELSE committed[p]
        BY <1>4, <1>11
      <4>2. /\ contributed'[p] - com[p] = contributed[p] - committed[p]
            /\ com[p] \in Nat /\ committed[p] \in Nat /\ contributed[p] \in Nat /\ contributed'[p] \in Nat
            /\ p # s => contributed'[p] = contributed[p]
        BY <1>4, <1>6, <1>8
      <4> HIDE DEF in
      <4>3. QED
        BY <4>1, <4>2
    <3>2. QED
      BY <1>4, <1>6, <1>11, <3>1
  <2>2. paid = contributed'
    <3>1. \A p \in Seats : paid[p] = contributed'[p]
      BY <1>4, <1>8, <1>11
    <3>2. QED
      BY <1>4, <1>11, <3>1
  <2>3. left = stack'
    <3>1. \A p \in Seats : left[p] = stack'[p]
      <4> SUFFICES ASSUME NEW p \in Seats PROVE left[p] = stack'[p]
        OBVIOUS
      <4>1. left[p] = IF p = s THEN stack[s] - added ELSE stack[p]
        BY <1>4, <1>11
      <4>2. /\ stack[p] + contributed[p] = stack'[p] + contributed'[p]
            /\ stack[p] \in Nat /\ stack'[p] \in Nat /\ contributed[p] \in Nat /\ contributed'[p] \in Nat
            /\ p # s => contributed'[p] = contributed[p]
        BY <1>4, <1>8
      <4> HIDE DEF left
      <4>3. QED
        BY <4>1, <4>2
    <3>2. QED
      BY <1>4, <1>11, <3>1
  <2>4. QED
    BY <2>1, <2>2, <2>3
<1>13. f = [frame EXCEPT !.committed = in, !.contributed = paid, !.stack = left]
  <2> HIDE DEF added
  <2>1. QED
    BY <1>11 DEF AddChips, Frames
<1>14. /\ f \in Frames /\ f.street = street /\ f.committed = com /\ f.contributed = contributed'
       /\ f.stack = stack' /\ f.folded = folded /\ f.hole = frame.hole
  <2>1. in \in [Seats -> Int] /\ paid \in [Seats -> Int] /\ left \in [Seats -> Int]
    <3> HIDE DEF in, paid, left
    <3>1. QED
      BY <1>4, <1>6, <1>12
  <2> HIDE DEF in, paid, left, f
  <2>2. /\ f \in Frames /\ f.street = frame.street /\ f.committed = in /\ f.contributed = paid
        /\ f.stack = left /\ f.folded = frame.folded /\ f.hole = frame.hole
    BY <1>11, <1>13, <2>1 DEF Frames
  <2>3. QED
    BY <1>11, <1>12, <2>2
<1> HIDE DEF f
<1>15. EntryFollows(f)
  BY <1>2, <1>4, <1>7, <1>11, <1>14 DEF EntryFollows
<1>16. QED
  BY <1>1, <1>3, <1>7, <1>10, <1>15, StreetFollows

\* A street that is dealt without an action logs its cards alone.
LEMMA StreetDealtFollows ==
  ASSUME StreetsShow, HandIInv, FrameFollows, DealNextStreet, frame' = StreetEntries(frame)
  PROVE  FrameFollows'
<1>1. HandIInv' /\ SamePlayers /\ DealsOn
  BY OtherActionInv
<1>2. /\ phase = "betting" /\ ~inRound
      /\ UNCHANGED <<stack, folded, contributed>>
      /\ dealAndMaybeStartRound(street + 1, activeHandPlayers, allIn, committed, acted, NoSeat)
  BY DEF DealNextStreet, ContinueDealing, hasMoreDealing
<1>3. IInv /\ street \in Nat \ {0}
  <2>1. IInv
    BY <1>2 DEF HandIInv
  <2>2. QED
    BY <1>2, <2>1 DEF IInv, TypeOK
<1>4. StreetStep /\ street' # street
  <2>1. street + 1 # 1 /\ street + 1 # street
    BY <1>3
  <2>2. QED
    BY <1>2, <2>1 DEF dealAndMaybeStartRound, StreetStep, startBettingRound, NoRound, resetStreetContributions
<1>5. EntryFollows(frame)
  BY <1>2, <1>4 DEF EntryFollows, FrameFollows
<1>6. QED
  BY <1>1, <1>2, <1>4, <1>5, StreetFollows

\* Every step keeps the replay with the hand.
LEMMA ReplayNextInv ==
  ASSUME StreetsShow, ReplayIInv, [ReplayNext]_replayVars
  PROVE  ReplayIInv'
<1>1. HandIInv /\ (phase # "none" => FrameFollows)
  BY DEF ReplayIInv
<1>2. HandIInv'
  <2>1. [HandNext]_vars
    BY DEF ReplayNext, HandNext, replayVars
  <2>2. QED
    BY <1>1, <2>1, HandNextInv
<1>3. CASE StartHand /\ frame' = PostsAndDeal(FirstFrame(startStack'), contributed')
  BY <1>1, <1>2, <1>3, StartHandFollows DEF ReplayIInv
<1>4. CASE StartHandThrows
  <2>1. phase' = "none"
    BY <1>4 DEF StartHandThrows, handVars
  <2>2. QED
    BY <1>2, <2>1 DEF ReplayIInv
<1>5. CASE \E s \in Seats : \/ FoldHand(s) /\ frame' = StreetEntries(FoldEntry(NewStreet(frame, street), s))
                            \/ OtherAction(s) /\ frame' = StreetEntries(ActionEntry(s))
  <2>1. phase = "betting"
    BY <1>5 DEF FoldHand, OtherAction, Fold, Check, Call, Raise, HasTurn
  <2>2. FrameFollows
    BY <1>1, <2>1
  <2>3. FrameFollows'
    BY <1>1, <1>5, <2>2, FoldFollows, ActionFollows
  <2>4. QED
    BY <1>2, <2>3 DEF ReplayIInv
<1>6. CASE DealNextStreet /\ frame' = StreetEntries(frame)
  <2>1. phase = "betting"
    BY <1>6 DEF DealNextStreet, ContinueDealing, hasMoreDealing
  <2>2. FrameFollows'
    BY <1>1, <1>6, <2>1, StreetDealtFollows
  <2>3. QED
    BY <1>2, <2>2 DEF ReplayIInv
<1>7. CASE EvaluateShowdown /\ UNCHANGED frame
  <2>1. /\ phase = "showdown" /\ phase' = "complete"
        /\ UNCHANGED <<street, folded, dealt, allIn, committed, contributed, inRound, hole, frame>>
    BY <1>7 DEF EvaluateShowdown, roundVars, cardVars
  <2>2. FrameFollows
    BY <1>1, <2>1
  <2>3. FrameFollows'
    BY <2>1, <2>2 DEF FrameFollows
  <2>4. QED
    BY <1>2, <2>3 DEF ReplayIInv
<1>8. CASE UNCHANGED vars /\ UNCHANGED frame
  <2>1. UNCHANGED <<phase, street, folded, dealt, allIn, committed, contributed, stack, inRound, hole, frame>>
    BY <1>8 DEF vars, bettingVars, handVars, roundVars, cardVars
  <2>2. FrameFollows => FrameFollows'
    BY <2>1 DEF FrameFollows
  <2>3. QED
    BY <1>1, <1>2, <2>1, <2>2 DEF ReplayIInv
<1>9. CASE HandRest /\ UNCHANGED frame
  BY <1>8, <1>9 DEF HandRest
<1>10. QED
  BY <1>3, <1>4, <1>5, <1>6, <1>7, <1>8, <1>9 DEF ReplayNext, replayVars

\* At every step of every hand, and when it is over, the replay shows the chips, flags and
\* numbers of cards the table showed, in every game whose streets show.
THEOREM ReplaysShowTheHand ==
  ASSUME StreetsShow
  PROVE  ReplaySpec => []ReplayShowsTheHand
<1>1. ReplayInit => ReplayIInv
  BY HandInitInv DEF ReplayInit, ReplayIInv, HandInit, Init
<1>2. ReplayIInv /\ [ReplayNext]_replayVars => ReplayIInv'
  BY ReplayNextInv
<1>3. ReplayIInv => ReplayShowsTheHand
  <2> SUFFICES ASSUME ReplayIInv, phase # "none" PROVE ReplayShowsTheHand
    BY DEF ReplayShowsTheHand
  <2>1. FrameFollows /\ dealt \subseteq Seats
    BY DEF ReplayIInv, HandIInv, TypeOK
  <2>2. QED
    BY <2>1 DEF FrameFollows, ReplayShowsTheHand
<1>4. QED
  BY <1>1, <1>2, <1>3, PTL DEF ReplaySpec

-----------------------------------------------------------------------------
(* Settlement: what the best hands collect.                                *)

\* Whoever is not among the winners of a split gets nothing, the only winner all of it.
LEMMA LoserOfSplit ==
  ASSUME NEW amount, NEW W, NEW rank, NEW s, s \notin W
  PROVE  splitAmountEvenly(amount, W, rank, s) = 0
BY DEF splitAmountEvenly

\* w has the best hand of E, and nobody else has as good a one.
Tops(w, strength, E) == w \in E /\ \A t \in E \ {w} : strength[t] < strength[w]

\* Then w is the only best.
LEMMA TopIsBest ==
  ASSUME NEW E, NEW strength, \A t \in E : strength[t] \in Nat, NEW w, Tops(w, strength, E)
  PROVE  Best(strength, E) = {w}
<1>1. w \in E /\ strength[w] \in Nat /\ \A t \in E \ {w} : strength[t] < strength[w]
  BY DEF Tops
<1>2. \A t \in E : strength[t] <= strength[w]
  BY <1>1
<1>3. \A t \in E \ {w} : ~(strength[w] <= strength[t])
  BY <1>1
<1>4. QED
  BY <1>1, <1>2, <1>3 DEF Best

\* Every category of a showdown compares the hands as `strength` does.
AllLike(showdown, mode, strength) ==
  /\ \A b \in DOMAIN showdown.board : showdown.board[b] = strength
  /\ mode = "hi-lo" => showdown.low = strength
  /\ mode = "point-race-own" => showdown.own = strength

\* Nothing comes together from boards that all pay nothing.
LEMMA NothingFromBoards ==
  ASSUME NEW D, IsFiniteSet(D), NEW f, \A b \in D : f[b] = 0
  PROVE  SumFunctionOnSet(f, D) = 0
<1>1. {} \in SUBSET D /\ (\A b \in D : f[b] \in Int) /\ \A b \in D \ {} : f[b] = 0
  OBVIOUS
<1>2. SumFunctionOnSet(f, D) = SumFunctionOnSet(f, {})
  BY <1>1, SumOverPart
<1>3. QED
  BY <1>2, SumOfNone

\* Boards are finitely many, the first among them.
LEMMA BoardsAreFinite ==
  ASSUME NEW showdown, NEW H, ShowdownOf(showdown, H)
  PROVE  IsFiniteSet(DOMAIN showdown.board) /\ 1 \in DOMAIN showdown.board
<1>1. PICK n \in Nat \ {0} : DOMAIN showdown.board = 1 .. n
  BY DEF ShowdownOf
<1>2. IsFiniteSet(1 .. n) /\ 1 \in 1 .. n
  BY FS_Interval
<1>3. QED
  BY <1>1, <1>2

\* The points of a player are those of the boards and, where they count, of the hole cards.
PointOf(strength, E, s) ==
  IF s \in Best(strength, E) THEN POINT_SCALE \div Cardinality(Best(strength, E)) ELSE 0

LEMMA PointsAre ==
  ASSUME NEW pot, NEW showdown, NEW own, NEW s
  PROVE  Points(pot, showdown, own, s)
           = SumFunctionOnSet([b \in DOMAIN showdown.board |-> PointOf(showdown.board[b], pot.eligible, s)],
                              DOMAIN showdown.board)
             + IF own THEN PointOf(showdown.own, pot.eligible, s) ELSE 0
<1> DEFINE D == DOMAIN showdown.board
           part(b) == PointOf(showdown.board[b], pot.eligible, s)
<1>1. Points(pot, showdown, own, s)
        = MapThenSumSet(LAMBDA b : part(b), D) + IF own THEN PointOf(showdown.own, pot.eligible, s) ELSE 0
  BY Zenon DEF Points, PointOf
<1>2. MapThenSumSet(LAMBDA b : part(b), D) = SumFunctionOnSet([b \in D |-> part(b)], D)
  <2> HIDE DEF D, part
  <2>1. QED
    BY Zenon DEF MapThenSumSet, MapThenFoldSet, SumFunctionOnSet, FoldFunctionOnSet
<1>3. QED
  BY <1>1, <1>2, Zenon

\* In a point race the only best hand has points, and nobody else has.
LEMMA TopHasThePoints ==
  ASSUME NEW pot, IsFiniteSet(pot.eligible), NEW showdown, ShowdownOf(showdown, pot.eligible),
         NEW own, NEW strength, \A b \in DOMAIN showdown.board : showdown.board[b] = strength,
         own = FALSE \/ showdown.own = strength, NEW w, Tops(w, strength, pot.eligible)
  PROVE  /\ Points(pot, showdown, own, w) > 0
         /\ \A s \in pot.eligible \ {w} : Points(pot, showdown, own, s) = 0
<1> DEFINE D == DOMAIN showdown.board
           E == pot.eligible
           scored(s) == [b \in D |-> PointOf(showdown.board[b], E, s)]
           extra(s) == IF own THEN PointOf(showdown.own, E, s) ELSE 0
<1>1. IsFiniteSet(D) /\ 1 \in D
  BY BoardsAreFinite
<1>2. \A t \in E : strength[t] \in Nat
  BY <1>1 DEF ShowdownOf
<1>3. Best(strength, E) = {w} /\ w \in E
  BY <1>2, TopIsBest DEF Tops
<1>4. Cardinality({w}) = 1
  BY FS_Singleton
<1>5. \A s : PointOf(strength, E, s) = IF s = w THEN 2520 ELSE 0
  <2>1. 2520 \div 1 = 2520
    OBVIOUS
  <2>2. QED
    BY <1>3, <1>4, <2>1 DEF PointOf, POINT_SCALE
<1>6. \A s : Points(pot, showdown, own, s) = SumFunctionOnSet(scored(s), D) + extra(s)
  BY PointsAre, Zenon
<1>7. \A s : /\ \A b \in D : scored(s)[b] = IF s = w THEN 2520 ELSE 0
             /\ extra(s) = IF own /\ s = w THEN 2520 ELSE 0
  <2> HIDE DEF E
  <2>1. \A s : \A b \in D : scored(s)[b] = PointOf(strength, E, s)
    OBVIOUS
  <2>2. \A s : extra(s) = IF own THEN PointOf(strength, E, s) ELSE 0
    OBVIOUS
  <2> HIDE DEF scored, extra, D
  <2>3. QED
    BY <1>5, <2>1, <2>2
<1> HIDE DEF D, scored, extra
<1>8. SumFunctionOnSet(scored(w), D) \in Nat /\ SumFunctionOnSet(scored(w), D) >= 2520
  <2> DEFINE f == scored(w)
  <2>1. \A b \in D : f[b] \in Nat /\ f[b] = 2520
    BY <1>7
  <2> HIDE DEF f
  <2>2. SumFunctionOnSet(f, D) \in Nat /\ \A b \in D : f[b] <= SumFunctionOnSet(f, D)
    BY <1>1, <2>1, SumCoversTerms
  <2>3. QED
    BY <1>1, <2>1, <2>2 DEF f
<1>9. ASSUME NEW s \in E \ {w}
      PROVE  SumFunctionOnSet(scored(s), D) = 0
  <2> DEFINE f == scored(s)
  <2>1. \A b \in D : f[b] = 0
    BY <1>7
  <2> HIDE DEF f
  <2>2. SumFunctionOnSet(f, D) = 0
    BY <1>1, <2>1, NothingFromBoards
  <2>3. QED
    BY <2>2 DEF f
<1>10. Points(pot, showdown, own, w) > 0
  BY <1>6, <1>7, <1>8
<1>11. \A s \in E \ {w} : Points(pot, showdown, own, s) = 0
  BY <1>6, <1>7, <1>9
<1>12. QED
  BY <1>10, <1>11

\* A player with a worse hand gets nothing of a pot, however the showdown is scored.
LEMMA OthersGetNothing ==
  ASSUME NEW mode \in Scorings, NEW rank, NEW showdown, NEW pot, IsFiniteSet(pot.eligible),
         ShowdownOf(showdown, pot.eligible), NEW strength, AllLike(showdown, mode, strength),
         NEW w, Tops(w, strength, pot.eligible), NEW s \in pot.eligible \ {w}
  PROVE  PotShare(pot, showdown, mode, rank, s) = 0
<1> DEFINE E == pot.eligible
           D == DOMAIN showdown.board
<1>1. IsFiniteSet(D) /\ 1 \in D /\ \A b \in D : showdown.board[b] = strength
  BY BoardsAreFinite DEF AllLike
<1>2. \A t \in E : strength[t] \in Nat
  BY <1>1 DEF ShowdownOf
<1>3. Best(strength, E) = {w} /\ w \in E /\ s \in E /\ E # {s} /\ s \notin {w}
  BY <1>2, TopIsBest DEF Tops
<1>4. BestHandShare(pot, showdown, rank, s) = 0
  <2> DEFINE part(b) == splitAmountEvenly(BoardShare(pot.amount, Cardinality(D), b),
                                          Best(showdown.board[b], E), rank, s)
             f == [b \in D |-> part(b)]
  <2>1. BestHandShare(pot, showdown, rank, s) = MapThenSumSet(LAMBDA b : part(b), D)
    BY Zenon DEF BestHandShare
  <2>2. MapThenSumSet(LAMBDA b : part(b), D) = SumFunctionOnSet([b \in D |-> part(b)], D)
    <3> HIDE DEF D, part
    <3>1. QED
      BY ZenonT(60) DEF MapThenSumSet, MapThenFoldSet, SumFunctionOnSet, FoldFunctionOnSet
  <2>3. \A b \in D : part(b) = 0
    <3> SUFFICES ASSUME NEW b \in D PROVE part(b) = 0
      OBVIOUS
    <3>1. Best(showdown.board[b], E) = {w}
      BY <1>1, <1>3
    <3>2. s \notin Best(showdown.board[b], E)
      BY <1>3, <3>1
    <3>3. QED
      BY <3>2, LoserOfSplit, Zenon
  <2> HIDE DEF part, D
  <2>4. \A b \in D : f[b] = 0
    BY <2>3
  <2> HIDE DEF f
  <2>5. SumFunctionOnSet(f, D) = 0
    BY <1>1, <2>4, NothingFromBoards
  <2>6. QED
    BY <2>1, <2>2, <2>5, Zenon DEF f
<1>5. ASSUME mode = "hi-lo" PROVE HiLoShare(pot, showdown, rank, s) = 0
  <2> DEFINE lows == {t \in E : showdown.low[t] > 0}
             high == Best(showdown.board[1], E)
             low == Best(showdown.low, lows)
             half == pot.amount \div 2
  <2>1. s \notin high
    BY <1>1, <1>3
  <2>2. s \notin low
    <3> SUFFICES ASSUME s \in low PROVE FALSE
      OBVIOUS
    <3>1. showdown.low = strength
      BY <1>5 DEF AllLike
    <3>2. s \in lows /\ \A t \in lows : strength[t] <= strength[s]
      BY <3>1 DEF Best
    <3>3. strength[s] < strength[w] /\ strength[s] > 0 /\ strength[s] \in Nat /\ strength[w] \in Nat
      BY <1>2, <1>3, <3>1, <3>2 DEF Tops
    <3>4. w \in lows
      BY <1>3, <3>1, <3>3
    <3>5. QED
      BY <3>2, <3>3, <3>4
  <2>3. \A amount : splitAmountEvenly(amount, high, rank, s) = 0
    <3> HIDE DEF high
    <3>1. QED
      BY <2>1, LoserOfSplit, Zenon
  <2>4. splitAmountEvenly(half, low, rank, s) = 0
    <3> HIDE DEF low, half
    <3>1. QED
      BY <2>2, LoserOfSplit, Zenon
  <2>5. HiLoShare(pot, showdown, rank, s)
          = IF lows = {} THEN splitAmountEvenly(pot.amount, high, rank, s)
            ELSE splitAmountEvenly(pot.amount - half, high, rank, s) + splitAmountEvenly(half, low, rank, s)
    BY Zenon DEF HiLoShare
  <2> HIDE DEF lows, high, low, half
  <2>6. QED
    BY <2>3, <2>4, <2>5
<1>6. ASSUME NEW own, own = FALSE \/ showdown.own = strength
      PROVE  PointRaceShare(pot, showdown, own, rank, s) = 0
  <2> DEFINE points == [t \in E |-> Points(pot, showdown, own, t)]
  <2>1. Points(pot, showdown, own, w) > 0 /\ Points(pot, showdown, own, s) = 0
    <3>1. /\ Points(pot, showdown, own, w) > 0
          /\ \A t \in pot.eligible \ {w} : Points(pot, showdown, own, t) = 0
      <4>1. \A b \in DOMAIN showdown.board : showdown.board[b] = strength
        BY <1>1
      <4>2. QED
        BY <1>6, <4>1, TopHasThePoints, Zenon
    <3>2. QED
      BY <3>1
  <2>2. Points(pot, showdown, own, w) \in Nat
    BY PointsAreNaturals
  <2>3. points[w] > 0 /\ points[s] = 0 /\ points[w] \in Nat
    BY <1>3, <2>1, <2>2
  <2> HIDE DEF points
  <2>4. s \notin Best(points, E)
    BY <1>3, <2>3 DEF Best
  <2>5. PointRaceShare(pot, showdown, own, rank, s) = splitAmountEvenly(pot.amount, Best(points, E), rank, s)
    BY Zenon DEF PointRaceShare, points
  <2>6. QED
    BY <2>4, <2>5, LoserOfSplit, Zenon
<1>7. CASE mode = "best-hand"
  BY <1>3, <1>4, <1>7 DEF PotShare
<1>8. CASE mode = "hi-lo"
  BY <1>3, <1>5, <1>8 DEF PotShare
<1>9. CASE mode = "point-race"
  <2>1. PointRaceShare(pot, showdown, FALSE, rank, s) = 0
    BY <1>6
  <2>2. QED
    BY <1>3, <1>9, <2>1 DEF PotShare
<1>10. CASE mode = "point-race-own"
  <2>1. PointRaceShare(pot, showdown, TRUE, rank, s) = 0
    BY <1>6, <1>10 DEF AllLike
  <2>2. QED
    BY <1>3, <1>10, <2>1 DEF PotShare
<1>11. QED
  BY <1>7, <1>8, <1>9, <1>10 DEF Scorings

\* Where one category compares the hands like every other, the best takes the whole pot.
TopTakes(w, strength, pot, showdown, mode, rank, T) ==
  AllLike(showdown, mode, strength) /\ Tops(w, strength, pot.eligible) =>
    \A s \in T : PotShare(pot, showdown, mode, rank, s) = IF s = w THEN pot.amount ELSE 0

\* So it does.
LEMMA TopTakesThePot ==
  ASSUME NEW mode \in Scorings, NEW T, IsFiniteSet(T), NEW rank, Ranked(rank, T), NEW showdown,
         NEW pot, ShowdownOf(showdown, pot.eligible), pot.amount \in Nat, pot.eligible \in SUBSET T,
         NEW strength, NEW w
  PROVE  TopTakes(w, strength, pot, showdown, mode, rank, T)
<1> SUFFICES ASSUME AllLike(showdown, mode, strength), Tops(w, strength, pot.eligible)
             PROVE  \A s \in T : PotShare(pot, showdown, mode, rank, s) = IF s = w THEN pot.amount ELSE 0
  BY Zenon DEF TopTakes
<1> DEFINE share == [s \in T |-> PotShare(pot, showdown, mode, rank, s)]
<1>1. IsFiniteSet(pot.eligible) /\ w \in pot.eligible /\ w \in T
  BY FS_Subset DEF Tops
<1>2. \A s \in T : share[s] = PotShare(pot, showdown, mode, rank, s)
  OBVIOUS
<1>3. PaysOut(pot, showdown, mode, rank, T)
  BY PotPaysOut
<1>4. /\ \A s \in T : PotShare(pot, showdown, mode, rank, s) \in Nat
      /\ \A s \in T \ pot.eligible : PotShare(pot, showdown, mode, rank, s) = 0
      /\ SumFunctionOnSet(share, T) = pot.amount
  BY <1>1, <1>3 DEF PaysOut
<1>5. \A s \in pot.eligible \ {w} : PotShare(pot, showdown, mode, rank, s) = 0
  BY <1>1, OthersGetNothing
<1> HIDE DEF share
<1>6. \A s \in T : share[s] \in Int
  BY <1>2, <1>4
<1>7. \A s \in T \ {w} : share[s] = 0
  BY <1>2, <1>4, <1>5
<1>8. SumFunctionOnSet(share, T) = SumFunctionOnSet(share, {w})
  <2>1. {w} \in SUBSET T
    BY <1>1
  <2>2. QED
    BY <1>6, <1>7, <2>1, SumOverPart
<1>9. SumFunctionOnSet(share, {w}) = share[w]
  BY <1>1, <1>6, SumOfOne
<1>10. share[w] = pot.amount
  BY <1>4, <1>8, <1>9
<1>11. QED
  BY <1>1, <1>2, <1>7, <1>10

\* The most that hands better than that of s, among those of H, have put in.
BetterThan(s, strength, H) == {t \in H : strength[t] > strength[s]}
TakenFirst(s, strength, c, H) == Max({0} \cup {c[t] : t \in BetterThan(s, strength, H)})

\* No two hands are equally good.
Strict(strength, H) == \A s, t \in H : strength[s] = strength[t] => s = t

\* It is what one of them has put in, or nothing, and all of them have put in less or as much.
LEMMA TakenFirstIs ==
  ASSUME NEW c, NEW P, Bets(c, P), NEW H \in SUBSET P, NEW strength, NEW s
  PROVE  LET M == TakenFirst(s, strength, c, H)
         IN  /\ M \in Nat /\ M \in Levels(c, P) \cup {0}
             /\ M # 0 => \E t \in BetterThan(s, strength, H) : M = c[t]
             /\ \A t \in BetterThan(s, strength, H) : c[t] <= M
<1> DEFINE B == BetterThan(s, strength, H)
           C == {c[t] : t \in B}
           S == {0} \cup C
           M == TakenFirst(s, strength, c, H)
<1>1. B \in SUBSET P
  BY DEF BetterThan
<1>2. C \subseteq Levels(c, P) \cup {0}
  BY <1>1 DEF Levels
<1>3. IsFiniteSet(Levels(c, P)) /\ Levels(c, P) \in SUBSET (Nat \ {0})
  BY LevelsAre
<1>4. S \subseteq Levels(c, P) \cup {0} /\ S \in SUBSET Nat /\ S # {}
  BY <1>2, <1>3
<1>5. IsFiniteSet(S)
  <2>1. IsFiniteSet(Levels(c, P) \cup {0})
    BY <1>3, FS_AddElement
  <2> HIDE DEF S
  <2>2. QED
    BY <1>4, <2>1, FS_Subset
<1>6. M \in S /\ M \in Nat /\ \A y \in S : y <= M
  <2>1. M = Max(S)
    BY DEF TakenFirst
  <2> HIDE DEF S, M
  <2>2. QED
    BY <1>4, <1>5, <2>1, MaxIs
<1> HIDE DEF M
<1>7. M # 0 => \E t \in B : M = c[t]
  BY <1>6
<1>8. \A t \in B : c[t] <= M
  BY <1>6
<1>9. QED
  BY <1>4, <1>6, <1>7, <1>8 DEF M

\* One of finitely many strictly ordered hands is the best.
LEMMA SomeoneTops ==
  ASSUME NEW E, IsFiniteSet(E), E # {}, NEW strength, \A t \in E : strength[t] \in Nat, Strict(strength, E)
  PROVE  \E w \in E : Tops(w, strength, E)
<1>1. PICK w \in Best(strength, E) : TRUE
  BY BestIs
<1>2. w \in E /\ \A t \in E : strength[t] <= strength[w]
  BY <1>1 DEF Best
<1>3. \A t \in E \ {w} : strength[t] < strength[w]
  BY <1>2 DEF Strict
<1>4. QED
  BY <1>2, <1>3 DEF Tops

\* The best hands first: of the levels it reaches, a hand takes those no better hand does.
LEMMA PotGoesToTheBest ==
  ASSUME NEW mode \in Scorings, NEW T, IsFiniteSet(T), NEW c, NEW P \in SUBSET T, Bets(c, P), NEW F,
         NEW rank, Ranked(rank, T), NEW showdown, ShowdownOf(showdown, P \ F), NEW strength,
         AllLike(showdown, mode, strength), Strict(strength, P \ F), NEW s \in P \ F, NEW l \in Levels(c, P)
  PROVE  PotShare(PotOf(c, P, F)[l], showdown, mode, rank, s)
           = IF TakenFirst(s, strength, c, P \ F) < l /\ l <= c[s] THEN Amounts(c, P, F)[l] ELSE 0
<1> DEFINE pot == PotOf(c, P, F)[l]
           H == P \ F
           M == TakenFirst(s, strength, c, H)
           share == PotShare(pot, showdown, mode, rank, s)
<1>1. /\ pot.amount = Amounts(c, P, F)[l] /\ pot.amount \in Nat
      /\ pot.eligible = {q \in H : c[q] >= l}
  <2>1. /\ pot.amount = Amounts(c, P, F)[l] /\ Amounts(c, P, F)[l] \in Nat
        /\ pot.eligible = Contributing(l, c, P) \ F
    BY PotIs
  <2> HIDE DEF pot
  <2>2. QED
    BY <2>1 DEF Contributing
<1>2. pot.eligible \in SUBSET H /\ pot.eligible \in SUBSET T /\ IsFiniteSet(pot.eligible)
  BY <1>1, FS_Subset
<1>3. ShowdownOf(showdown, pot.eligible)
  BY <1>2 DEF ShowdownOf
<1>4. \A t \in H : strength[t] \in Nat
  BY BoardsAreFinite DEF ShowdownOf, AllLike
<1>5. l \in Nat \ {0} /\ \A q \in P : c[q] \in Nat
  BY LevelsAre DEF Bets
<1>6. /\ M \in Nat
      /\ M # 0 => \E t \in BetterThan(s, strength, H) : M = c[t]
      /\ \A t \in BetterThan(s, strength, H) : c[t] <= M
  <2>1. H \in SUBSET P
    OBVIOUS
  <2> HIDE DEF H
  <2>2. QED
    BY <2>1, TakenFirstIs
<1>7. ASSUME NEW w, Tops(w, strength, pot.eligible)
      PROVE  share = IF s = w THEN pot.amount ELSE 0
  <2>1. s \in T
    OBVIOUS
  <2>2. pot.amount \in Nat
    BY <1>1
  <2>3. pot.eligible \in SUBSET T /\ Tops(w, strength, pot.eligible)
    BY <1>2, <1>7
  <2> HIDE DEF pot, share, H, M
  <2>4. TopTakes(w, strength, pot, showdown, mode, rank, T)
    BY <1>3, <2>2, <2>3, TopTakesThePot
  <2>5. QED
    BY <2>1, <2>3, <2>4, Zenon DEF share, TopTakes
<1> HIDE DEF pot, M, H, share
<1>8. s \in H /\ s \in P /\ Strict(strength, H)
  BY DEF H
<1>9. CASE c[s] < l
  <2>1. s \notin pot.eligible
    BY <1>1, <1>5, <1>8, <1>9
  <2>2. share = 0
    BY <2>1 DEF PotShare, share
  <2>3. ~(l <= c[s])
    BY <1>5, <1>8, <1>9
  <2>4. QED
    BY <2>2, <2>3 DEF share, pot, M, H
<1>10. CASE l <= c[s] /\ l <= M
  <2>1. PICK t \in BetterThan(s, strength, H) : M = c[t]
    BY <1>5, <1>6, <1>10
  <2>2. t \in H /\ strength[t] > strength[s] /\ c[t] >= l
    BY <1>5, <1>6, <1>10, <2>1 DEF BetterThan
  <2>3. t \in pot.eligible
    BY <1>1, <2>2
  <2>4. Strict(strength, pot.eligible) /\ \A u \in pot.eligible : strength[u] \in Nat
    BY <1>2, <1>4, <1>8 DEF Strict
  <2>5. PICK w \in pot.eligible : Tops(w, strength, pot.eligible)
    BY <1>2, <2>3, <2>4, SomeoneTops
  <2>6. w # s
    BY <1>4, <1>8, <2>2, <2>3, <2>5 DEF Tops
  <2>7. share = 0
    BY <1>7, <2>5, <2>6
  <2>8. ~(M < l)
    BY <1>5, <1>6, <1>10
  <2>9. QED
    BY <2>7, <2>8 DEF share, pot, M, H
<1>11. CASE l <= c[s] /\ M < l
  <2>1. s \in pot.eligible
    BY <1>1, <1>5, <1>8, <1>11
  <2>2. ASSUME NEW t \in pot.eligible \ {s} PROVE strength[t] < strength[s]
    <3>1. t \in H /\ c[t] >= l /\ c[t] \in Nat
      BY <1>1, <1>5 DEF H
    <3>2. t \notin BetterThan(s, strength, H)
      BY <1>5, <1>6, <1>11, <3>1
    <3>3. ~(strength[t] > strength[s]) /\ strength[t] # strength[s]
      BY <1>8, <3>1, <3>2 DEF BetterThan, Strict
    <3>4. QED
      BY <1>4, <1>8, <3>1, <3>3
  <2>3. Tops(s, strength, pot.eligible)
    BY <2>1, <2>2 DEF Tops
  <2>4. share = pot.amount
    BY <1>7, <2>3
  <2>5. QED
    BY <1>1, <1>11, <2>4 DEF share, pot, M, H
<1>12. QED
  BY <1>5, <1>6, <1>8, <1>9, <1>10, <1>11

\* What the hand of s collects from q: what it covers of q's chips, less what better hands took.
Collected(q, s, strength, c, H) ==
  LET left == Least(c[q], c[s]) - Least(c[q], TakenFirst(s, strength, c, H))
  IN  IF left > 0 THEN left ELSE 0

\* All levels together, each hand collects from every player what better hands left.
LEMMA BestCollectFirst ==
  ASSUME NEW mode \in Scorings, NEW T, IsFiniteSet(T), NEW c, NEW P \in SUBSET T, Bets(c, P), NEW F,
         NEW rank, Ranked(rank, T), NEW showdown, ShowdownOf(showdown, P \ F), NEW strength,
         AllLike(showdown, mode, strength), Strict(strength, P \ F), NEW s \in P \ F
  PROVE  Winnings(Pots(c, P, F), showdown, mode, rank, s)
           = SumFunctionOnSet([q \in P |-> Collected(q, s, strength, c, P \ F)], P)
<1> DEFINE L == Levels(c, P)
           M == TakenFirst(s, strength, c, P \ F)
           x == c[s]
           a == Amounts(c, P, F)
           g == [l \in L |-> PotShare(PotOf(c, P, F)[l], showdown, mode, rank, s)]
           U == LevelsTo(x, c, P)
           V == LevelsTo(M, c, P)
           below == [l \in L |-> IF l <= M THEN a[l] ELSE 0]
           upTo(y) == [q \in P |-> Least(c[q], y)]
           collected == [q \in P |-> Collected(q, s, strength, c, P \ F)]
           won == Winnings(Pots(c, P, F), showdown, mode, rank, s)
<1>1. /\ IsFiniteSet(L) /\ L \in SUBSET (Nat \ {0}) /\ IsFiniteSet(U) /\ U \in SUBSET L
      /\ IsFiniteSet(V) /\ V \in SUBSET L
  BY LevelsAre
<1>2. /\ IsFiniteSet(P) /\ \A q \in P : c[q] \in Nat
      /\ x \in Nat /\ x \in L \cup {0} /\ M \in Nat /\ M \in L \cup {0}
  <2>1. IsFiniteSet(P) /\ (\A q \in P : c[q] \in Nat) /\ x \in Nat /\ x \in L \cup {0}
    BY DEF Bets, Levels
  <2>2. P \ F \in SUBSET P
    OBVIOUS
  <2>3. M \in Nat /\ M \in L \cup {0}
    BY <2>2, TakenFirstIs
  <2>4. QED
    BY <2>1, <2>3
<1>3. \A l \in L : a[l] \in Nat /\ a[l] = Gaps(c, P)[l] * Cardinality(Contributing(l, c, P))
  BY PotIs
<1>4. \A l \in L : g[l] = IF M < l /\ l <= x THEN a[l] ELSE 0
  <2> SUFFICES ASSUME NEW l \in L PROVE g[l] = IF M < l /\ l <= x THEN a[l] ELSE 0
    OBVIOUS
  <2>1. g[l] = PotShare(PotOf(c, P, F)[l], showdown, mode, rank, s)
    OBVIOUS
  <2> HIDE DEF g, a
  <2>2. PotShare(PotOf(c, P, F)[l], showdown, mode, rank, s)
          = IF M < l /\ l <= x THEN Amounts(c, P, F)[l] ELSE 0
    BY PotGoesToTheBest
  <2>3. QED
    BY <2>1, <2>2 DEF a
<1>5. won = SumFunctionOnSet(g, L)
  <2>1. s \in T
    OBVIOUS
  <2>2. QED
    BY <2>1, WinningsByLevel
<1>6. \A q \in P : collected[q] = Collected(q, s, strength, c, P \ F)
  OBVIOUS
<1>7. \A l \in L : below[l] = IF l <= M THEN a[l] ELSE 0
  OBVIOUS
<1>8. (\A l \in U : l <= x) /\ (\A l \in L \ U : ~(l <= x)) /\ (\A l \in L : l \in V <=> l <= M)
  BY DEF LevelsTo
<1> HIDE DEF L, M, x, a, g, U, V, below, collected, won
<1>9. CASE x <= M
  <2>1. \A l \in L : g[l] = 0
    BY <1>1, <1>2, <1>4, <1>9
  <2>2. won = 0
    BY <1>1, <1>5, <2>1, NothingFromBoards
  <2>3. \A q \in P : collected[q] = 0
    <3> SUFFICES ASSUME NEW q \in P PROVE collected[q] = 0
      OBVIOUS
    <3>1. c[q] \in Nat /\ Least(c[q], x) <= Least(c[q], M) /\ Least(c[q], x) \in Nat /\ Least(c[q], M) \in Nat
      BY <1>2, <1>9 DEF Least
    <3>2. ~(Least(c[q], x) - Least(c[q], M) > 0)
      BY <3>1
    <3>3. Collected(q, s, strength, c, P \ F)
            = IF Least(c[q], x) - Least(c[q], M) > 0 THEN Least(c[q], x) - Least(c[q], M) ELSE 0
      BY DEF Collected, x, M
    <3>4. QED
      BY <1>6, <3>2, <3>3
  <2>4. SumFunctionOnSet(collected, P) = 0
    BY <1>2, <2>3, NothingFromBoards
  <2>5. QED
    BY <2>2, <2>4 DEF won, collected
<1>10. CASE M < x
  <2>1. V \in SUBSET U
    BY <1>1, <1>2, <1>8, <1>10
  <2>2. \A l \in U : g[l] \in Int /\ below[l] \in Int /\ a[l] \in Int /\ a[l] = g[l] + below[l]
    BY <1>1, <1>2, <1>3, <1>4, <1>7, <1>8
  <2>3. SumFunctionOnSet(a, U) = SumFunctionOnSet(g, U) + SumFunctionOnSet(below, U)
    BY <1>1, <2>2, SumOfSum
  <2>4. SumFunctionOnSet(g, L) = SumFunctionOnSet(g, U)
    <3>1. (\A l \in L : g[l] \in Int) /\ \A l \in L \ U : g[l] = 0
      BY <1>3, <1>4, <1>8
    <3>2. QED
      BY <1>1, <3>1, SumOverPart
  <2>5. SumFunctionOnSet(below, U) = SumFunctionOnSet(a, V)
    <3>1. (\A l \in U : below[l] \in Int) /\ \A l \in U \ V : below[l] = 0
      BY <1>1, <1>7, <1>8, <2>2
    <3>2. SumFunctionOnSet(below, U) = SumFunctionOnSet(below, V)
      BY <1>1, <2>1, <3>1, SumOverPart
    <3>3. \A l \in V : below[l] \in Int /\ below[l] = a[l]
      BY <1>1, <1>3, <1>7, <1>8
    <3>4. SumFunctionOnSet(below, V) = SumFunctionOnSet(a, V)
      BY <1>1, <3>3, SumOfEqual
    <3>5. QED
      BY <3>2, <3>4
  <2>6. /\ SumFunctionOnSet(a, U) = SumFunctionOnSet(upTo(x), P)
        /\ SumFunctionOnSet(a, V) = SumFunctionOnSet(upTo(M), P)
    <3>1. \A y \in L \cup {0} : SumFunctionOnSet(a, LevelsTo(y, c, P)) = SumFunctionOnSet(upTo(y), P)
      BY <1>3, PotsUpTo DEF L
    <3>2. QED
      BY <1>2, <3>1 DEF U, V
  <2>7. SumFunctionOnSet(upTo(x), P) = SumFunctionOnSet(collected, P) + SumFunctionOnSet(upTo(M), P)
    <3> DEFINE high == upTo(x)
               low == upTo(M)
    <3>1. \A q \in P : collected[q] \in Int /\ low[q] \in Int /\ high[q] = collected[q] + low[q]
      <4> SUFFICES ASSUME NEW q \in P
                   PROVE  collected[q] \in Int /\ low[q] \in Int /\ high[q] = collected[q] + low[q]
        OBVIOUS
      <4>1. high[q] = Least(c[q], x) /\ low[q] = Least(c[q], M)
        OBVIOUS
      <4>2. c[q] \in Nat /\ Least(c[q], M) <= Least(c[q], x) /\ Least(c[q], x) \in Nat /\ Least(c[q], M) \in Nat
        BY <1>2, <1>10 DEF Least
      <4>3. Collected(q, s, strength, c, P \ F)
              = IF Least(c[q], x) - Least(c[q], M) > 0 THEN Least(c[q], x) - Least(c[q], M) ELSE 0
        BY DEF Collected, x, M
      <4>4. collected[q] = Least(c[q], x) - Least(c[q], M)
        BY <1>6, <4>2, <4>3
      <4> HIDE DEF high, low
      <4>5. QED
        BY <4>1, <4>2, <4>4
    <3> HIDE DEF high, low
    <3>2. SumFunctionOnSet(high, P) = SumFunctionOnSet(collected, P) + SumFunctionOnSet(low, P)
      BY <1>2, <3>1, SumOfSum
    <3>3. QED
      BY <3>2 DEF high, low
  <2>8. /\ SumFunctionOnSet(g, U) \in Int /\ SumFunctionOnSet(collected, P) \in Int
        /\ SumFunctionOnSet(upTo(M), P) \in Int
    <3>1. SumFunctionOnSet(g, U) \in Int
      BY <1>1, <2>2, SumIsInteger
    <3>2. \A q \in P : collected[q] \in Int
      <4> SUFFICES ASSUME NEW q \in P PROVE Collected(q, s, strength, c, P \ F) \in Int
        BY <1>6
      <4>1. Least(c[q], c[s]) - Least(c[q], TakenFirst(s, strength, c, P \ F)) \in Int
        BY <1>2 DEF Least, M, x
      <4>2. QED
        BY <4>1 DEF Collected
    <3>3. SumFunctionOnSet(collected, P) \in Int
      BY <1>2, <3>2, SumIsInteger
    <3>4. SumFunctionOnSet(upTo(M), P) \in Int
      <4> DEFINE low == upTo(M)
      <4>1. \A q \in P : low[q] \in Int
        BY <1>2 DEF Least
      <4> HIDE DEF low
      <4>2. SumFunctionOnSet(low, P) \in Int
        BY <1>2, <4>1, SumIsInteger
      <4>3. QED
        BY <4>2 DEF low
    <3>5. QED
      BY <3>1, <3>3, <3>4
  <2>9. won = SumFunctionOnSet(collected, P)
    <3> DEFINE first == SumFunctionOnSet(upTo(M), P)
    <3>1. SumFunctionOnSet(collected, P) + first = SumFunctionOnSet(g, U) + first
      BY <2>3, <2>5, <2>6, <2>7, Zenon
    <3>2. first \in Int
      BY <2>8
    <3>3. SumFunctionOnSet(collected, P) = SumFunctionOnSet(g, U)
      <4> DEFINE got == SumFunctionOnSet(collected, P)
                 due == SumFunctionOnSet(g, U)
      <4>1. got \in Int /\ due \in Int /\ got + first = due + first
        BY <2>8, <3>1
      <4> HIDE DEF first, got, due
      <4>2. got = due
        BY <3>2, <4>1
      <4>3. QED
        BY <4>2 DEF got, due
    <3>4. QED
      BY <1>5, <2>4, <3>3
  <2>10. QED
    BY <2>9 DEF won, collected
<1>11. QED
  BY <1>2, <1>9, <1>10

\* The pots somebody may win.
LivePots(c, P, F) == {pot \in Pots(c, P, F) : pot.eligible # {}}
LiveLevels(c, P, F) == {l \in Levels(c, P) : PotOf(c, P, F)[l].eligible # {}}
LiveChips(c, P, F) == MapThenSumSet(LAMBDA pot : pot.amount, LivePots(c, P, F))

\* What those pots hold, level by level.
LEMMA LiveChipsByLevel ==
  ASSUME NEW c, NEW P, Bets(c, P), NEW F
  PROVE  LiveChips(c, P, F) = SumFunctionOnSet(Amounts(c, P, F), LiveLevels(c, P, F))
<1> DEFINE U == LivePots(c, P, F)
           amount == [p \in U |-> p.amount]
           live == LiveLevels(c, P, F)
           a == Amounts(c, P, F)
<1>1. live \in SUBSET Levels(c, P)
  BY DEF LiveLevels
<1>2. /\ \A l \in live : PotOf(c, P, F)[l] \in U
      /\ \A u \in U : \E l \in live : PotOf(c, P, F)[l] = u
  BY DEF LivePots, Pots, PotOf, LiveLevels
<1>3. \A l \in live : a[l] \in Int /\ amount[PotOf(c, P, F)[l]] = a[l]
  <2> SUFFICES ASSUME NEW l \in live PROVE a[l] \in Int /\ amount[PotOf(c, P, F)[l]] = a[l]
    OBVIOUS
  <2>1. a[l] \in Int /\ PotOf(c, P, F)[l].amount = a[l]
    BY <1>1, PotIs
  <2>2. amount[PotOf(c, P, F)[l]] = PotOf(c, P, F)[l].amount
    <3> HIDE DEF U
    <3>1. QED
      BY <1>2
  <2>3. QED
    BY <2>1, <2>2
<1>4. LiveChips(c, P, F) = SumFunctionOnSet(amount, U)
  <2>1. LiveChips(c, P, F) = MapThenSumSet(LAMBDA p : p.amount, U)
    BY Zenon DEF LiveChips
  <2> HIDE DEF U
  <2>2. QED
    BY <2>1, SumOfAmounts
<1> HIDE DEF U, amount, live, a
<1>5. SumFunctionOnSet(amount, U) = SumFunctionOnSet(a, live)
  BY <1>1, <1>2, <1>3, SumOverPots, SMTT(30)
<1>6. QED
  BY <1>4, <1>5 DEF a, live

\* What was put in lies in pots somebody may win, or in pots nobody may.
LEMMA LiveAndDead ==
  ASSUME NEW c, NEW P, Bets(c, P), NEW F
  PROVE  /\ LiveChips(c, P, F) \in Int /\ DeadChips(c, P, F) \in Int
         /\ LiveChips(c, P, F) + DeadChips(c, P, F) = SumFunctionOnSet(c, P)
<1> DEFINE L == Levels(c, P)
           a == Amounts(c, P, F)
           live == LiveLevels(c, P, F)
           dead == DeadLevels(c, P, F)
           won == [l \in L |-> IF l \in live THEN a[l] ELSE 0]
           lost == [l \in L |-> IF l \in dead THEN a[l] ELSE 0]
<1>1. IsFiniteSet(L) /\ live \in SUBSET L /\ dead \in SUBSET L /\ \A l \in L : l \in dead <=> l \notin live
  BY LevelsAre DEF LiveLevels, DeadLevels
<1>2. \A l \in L : a[l] \in Nat
  BY PotIs
<1>3. \A l \in L : won[l] = (IF l \in live THEN a[l] ELSE 0) /\ lost[l] = (IF l \in dead THEN a[l] ELSE 0)
  OBVIOUS
<1>4. /\ LiveChips(c, P, F) = SumFunctionOnSet(a, live)
      /\ DeadChips(c, P, F) = SumFunctionOnSet(a, dead)
      /\ SumFunctionOnSet(a, L) = SumFunctionOnSet(c, P)
  BY LiveChipsByLevel, DeadChipsByLevel, PotsHoldAll
<1> HIDE DEF L, a, live, dead, won, lost
<1>5. \A l \in L : won[l] \in Int /\ lost[l] \in Int /\ a[l] = won[l] + lost[l]
  BY <1>1, <1>2, <1>3
<1>6. SumFunctionOnSet(a, L) = SumFunctionOnSet(won, L) + SumFunctionOnSet(lost, L)
  BY <1>1, <1>5, SumOfSum
<1>7. SumFunctionOnSet(won, L) = SumFunctionOnSet(a, live)
  <2>1. \A l \in L \ live : won[l] = 0
    BY <1>3
  <2>2. SumFunctionOnSet(won, L) = SumFunctionOnSet(won, live)
    BY <1>1, <1>5, <2>1, SumOverPart
  <2>3. IsFiniteSet(live) /\ \A l \in live : won[l] \in Int /\ won[l] = a[l]
    BY <1>1, <1>3, <1>5, FS_Subset
  <2>4. SumFunctionOnSet(won, live) = SumFunctionOnSet(a, live)
    BY <2>3, SumOfEqual
  <2>5. QED
    BY <2>2, <2>4
<1>8. SumFunctionOnSet(lost, L) = SumFunctionOnSet(a, dead)
  <2>1. \A l \in L \ dead : lost[l] = 0
    BY <1>3
  <2>2. SumFunctionOnSet(lost, L) = SumFunctionOnSet(lost, dead)
    BY <1>1, <1>5, <2>1, SumOverPart
  <2>3. IsFiniteSet(dead) /\ \A l \in dead : lost[l] \in Int /\ lost[l] = a[l]
    BY <1>1, <1>3, <1>5, FS_Subset
  <2>4. SumFunctionOnSet(lost, dead) = SumFunctionOnSet(a, dead)
    BY <2>3, SumOfEqual
  <2>5. QED
    BY <2>2, <2>4
<1>9. SumFunctionOnSet(won, L) \in Int /\ SumFunctionOnSet(lost, L) \in Int
  BY <1>1, <1>5, SumIsInteger
<1>10. QED
  BY <1>4, <1>6, <1>7, <1>8, <1>9

-----------------------------------------------------------------------------
(* Every settlement pays by the rules.                                     *)

\* What holds of every settlement: it is of a showdown, and pays its winnings.
SettleInv ==
  /\ contribution \in [PotSeats -> Contributions] /\ foldedSeats \in SUBSET PotSeats
  /\ scoring \in Scorings /\ hands \in ShowdownsOf(scoring, Standing)
  /\ PaidOut => payout = [s \in PotSeats |-> Winnings(AllPots, hands, scoring, PotRank, s)]

\* It is chosen so, and paid so.
LEMMA SettleInvHolds == SettlementSpec => []SettleInv
<1>1. SettlementInit => SettleInv
  BY DEF SettlementInit, SettleInv, Scorings, PaidOut
<1>2. SettleInv /\ [Settle]_settleVars => SettleInv'
  <2> SUFFICES ASSUME SettleInv, [Settle]_settleVars PROVE SettleInv'
    OBVIOUS
  <2>1. CASE Settle
    <3>1. /\ contribution' = contribution /\ foldedSeats' = foldedSeats /\ scoring' = scoring /\ hands' = hands
          /\ payout' = [s \in PotSeats |-> Winnings(AllPots, hands, scoring, PotRank, s)]
      BY <2>1 DEF Settle
    <3>2. AllPots' = AllPots /\ Standing' = Standing /\ PotRank' = PotRank
      BY <3>1 DEF AllPots, Standing, PotRank
    <3>3. QED
      BY <3>1, <3>2 DEF SettleInv
  <2>2. CASE UNCHANGED settleVars
    <3>1. AllPots' = AllPots /\ Standing' = Standing /\ PotRank' = PotRank
      BY <2>2 DEF AllPots, Standing, PotRank, settleVars
    <3>2. QED
      BY <2>2, <3>1 DEF SettleInv, settleVars, PaidOut
  <2>3. QED
    BY <2>1, <2>2
<1>3. QED
  BY <1>1, <1>2, PTL DEF SettlementSpec

\* A chosen showdown gives every hand a strength in every category.
LEMMA ChosenShowdowns ==
  ASSUME SettleInv
  PROVE  ShowdownOf(hands, Standing)
<1> DEFINE Of(n, strengths) == [1 .. n -> [Standing -> strengths]]
           none == {[s \in Standing |-> 0]}
           Natural(f) == \A s \in Standing : f[s] \in Nat
<1>1. hands \in ShowdownsOf(scoring, Standing) /\ scoring \in Scorings
  BY DEF SettleInv
<1>2. \A f \in none \cup [Standing -> HandStrengths] \cup [Standing -> RaceStrengths]
              \cup [Standing -> {0} \cup RaceStrengths] : Natural(f)
  <2>1. HandStrengths \subseteq Nat /\ RaceStrengths \subseteq Nat /\ {0} \cup RaceStrengths \subseteq Nat
    BY SettlementAssumption
  <2>2. \A f \in none : Natural(f)
    OBVIOUS
  <2>3. \A S \in SUBSET Nat : \A f \in [Standing -> S] : Natural(f)
    OBVIOUS
  <2> HIDE DEF none, Natural
  <2>4. QED
    BY <2>1, <2>2, <2>3
<1>3. /\ \E n \in Nat \ {0} : hands.board \in Of(n, HandStrengths) \cup Of(n, RaceStrengths)
      /\ hands.own \in none \cup [Standing -> RaceStrengths]
      /\ hands.low \in none \cup [Standing -> {0} \cup RaceStrengths]
  <2>0. PotBoards \in Nat \ {0} /\ 1 \in Nat \ {0}
    BY SettlementAssumption
  <2>1. CASE scoring = "best-hand"
    <3>1. hands \in [board : Of(PotBoards, HandStrengths), own : none, low : none]
      BY <1>1, <2>1 DEF ShowdownsOf
    <3> HIDE DEF none, Of
    <3>2. QED
      BY <2>0, <3>1
  <2>2. CASE scoring = "hi-lo"
    <3>1. hands \in [board : Of(1, HandStrengths), own : none, low : [Standing -> {0} \cup RaceStrengths]]
      BY <1>1, <2>2 DEF ShowdownsOf
    <3> HIDE DEF none, Of
    <3>2. QED
      BY <2>0, <3>1
  <2>3. CASE scoring = "point-race"
    <3>1. hands \in [board : Of(PotBoards, RaceStrengths), own : none, low : none]
      BY <1>1, <2>3 DEF ShowdownsOf
    <3> HIDE DEF none, Of
    <3>2. QED
      BY <2>0, <3>1
  <2>4. CASE scoring = "point-race-own"
    <3>1. hands \in [board : Of(PotBoards, RaceStrengths), own : [Standing -> RaceStrengths], low : none]
      BY <1>1, <2>4 DEF ShowdownsOf
    <3> HIDE DEF none, Of
    <3>2. QED
      BY <2>0, <3>1
  <2>5. QED
    BY <1>1, <2>1, <2>2, <2>3, <2>4 DEF Scorings
<1>4. PICK n \in Nat \ {0} : hands.board \in Of(n, HandStrengths) \cup Of(n, RaceStrengths)
  BY <1>3
<1>5. DOMAIN hands.board = 1 .. n
      /\ \A b \in 1 .. n : hands.board[b] \in [Standing -> HandStrengths] \cup [Standing -> RaceStrengths]
  BY <1>4
<1> HIDE DEF none
<1>6. Natural(hands.own) /\ Natural(hands.low) /\ \A b \in 1 .. n : Natural(hands.board[b])
  <2> HIDE DEF Natural
  <2>1. QED
    BY <1>2, <1>3, <1>5
<1>7. QED
  BY <1>4, <1>5, <1>6 DEF ShowdownOf

\* Sums over the seats, in the words of the lemmas.
LEMMA SumOfIs ==
  ASSUME NEW f
  PROVE  SumOf(f) = SumFunctionOnSet([s \in PotSeats |-> f[s]], PotSeats)
BY Zenon DEF SumOf, MapThenSumSet, MapThenFoldSet, SumFunctionOnSet, FoldFunctionOnSet

\* A settlement is a showdown in the sense of the lemmas about pots.
LEMMA SettlementIsShowdown ==
  ASSUME SettleInv, PaidOut
  PROVE  /\ ShowdownAmong(PotSeats, contribution, PotSeats, foldedSeats, scoring, PotRank, hands)
         /\ PaidTo(payout, PotSeats, contribution, PotSeats, foldedSeats, scoring, PotRank, hands)
<1>1. IsFiniteSet(PotSeats) /\ PotSeats \in SUBSET PotSeats /\ Bets(contribution, PotSeats)
  BY SettlementAssumption DEF Bets, SettleInv
<1>2. Ranked(PotRank, PotSeats)
  BY SettlementAssumption DEF Ranked, PotRank
<1>3. ShowdownOf(hands, PotSeats \ foldedSeats)
  BY ChosenShowdowns DEF Standing
<1>4. \A s \in PotSeats :
        payout[s] = Winnings(Pots(contribution, PotSeats, foldedSeats), hands, scoring, PotRank, s)
  <2>1. payout = [s \in PotSeats |-> Winnings(AllPots, hands, scoring, PotRank, s)]
    BY DEF SettleInv
  <2>2. AllPots = Pots(contribution, PotSeats, foldedSeats)
    BY DEF AllPots
  <2>3. QED
    BY <2>1, <2>2
<1>5. scoring \in Scorings
  BY DEF SettleInv
<1>6. QED
  BY <1>1, <1>2, <1>3, <1>4, <1>5 DEF ShowdownAmong, PaidTo

\* All pots that somebody can win are paid out, to the chip.
LEMMA PotsArePaid == SettleInv => PotsPaidExactly
<1> SUFFICES ASSUME SettleInv, PaidOut
             PROVE  SumOf(payout) = LiveChips(contribution, PotSeats, foldedSeats)
  BY Zenon DEF PotsPaidExactly, LiveChips, LivePots, AllPots
<1> DEFINE live == LiveChips(contribution, PotSeats, foldedSeats)
           dead == DeadChips(contribution, PotSeats, foldedSeats)
           total == SumFunctionOnSet(payout, PotSeats)
           all == SumFunctionOnSet(contribution, PotSeats)
<1>1. (\A s \in PotSeats : payout[s] \in Nat) /\ dead \in Int /\ total + dead = all
  BY SettlementIsShowdown, WinningsAddUp
<1>2. Bets(contribution, PotSeats) /\ IsFiniteSet(PotSeats)
  BY SettlementIsShowdown DEF ShowdownAmong
<1>3. live \in Int /\ live + dead = all
  BY <1>2, LiveAndDead
<1>4. SumOf(payout) = total
  <2>1. payout = [s \in PotSeats |-> payout[s]]
    BY DEF SettleInv
  <2>2. QED
    BY <2>1, SumOfIs
<1>5. total \in Int
  BY <1>1, <1>2, SumIsInteger
<1> HIDE DEF live, dead, total, all
<1>6. total = live
  BY <1>1, <1>3, <1>5
<1>7. QED
  BY <1>4, <1>6 DEF live

\* What better hands leave, in the words of the lemmas.
LEMMA LeftIsCollected ==
  ASSUME SettleInv, NEW strength, NEW s \in Standing, NEW q \in PotSeats
  PROVE  Max({0, LeftBy(strength, q, s)}) = Collected(q, s, strength, contribution, Standing)
<1> DEFINE B == BetterThan(s, strength, Standing)
           M == TakenFirst(s, strength, contribution, Standing)
           C == {Covered(q, t) : t \in B}
           S == {0} \cup C
           left == Least(contribution[q], contribution[s]) - Least(contribution[q], M)
<1>1. /\ \A t \in PotSeats : contribution[t] \in Nat
      /\ Bets(contribution, PotSeats) /\ Standing \in SUBSET PotSeats
  BY SettlementAssumption DEF Bets, SettleInv, Standing
<1>2. /\ M \in Nat
      /\ M # 0 => \E t \in B : M = contribution[t]
      /\ \A t \in B : contribution[t] <= M
  BY <1>1, TakenFirstIs
<1>3. B \in SUBSET PotSeats /\ \A t \in PotSeats : Covered(q, t) = Least(contribution[q], contribution[t])
  BY <1>1 DEF BetterThan, Covered, Least
<1>4. LeftBy(strength, q, s) = Covered(q, s) - Max(S)
  BY Zenon DEF LeftBy, BetterThan
<1> HIDE DEF B, M
<1>5. Least(contribution[q], M) \in S
  <2>1. CASE M = 0
    BY <1>1, <2>1 DEF Least
  <2>2. CASE M # 0
    <3>1. PICK t \in B : M = contribution[t]
      BY <1>2, <2>2
    <3>2. Covered(q, t) = Least(contribution[q], M)
      BY <1>3, <3>1
    <3>3. QED
      BY <3>2
  <2>3. QED
    BY <2>1, <2>2
<1>6. \A y \in S : y \in Nat /\ y <= Least(contribution[q], M)
  <2> SUFFICES ASSUME NEW y \in S PROVE y \in Nat /\ y <= Least(contribution[q], M)
    OBVIOUS
  <2>1. CASE y = 0
    BY <1>1, <1>2, <2>1 DEF Least
  <2>2. CASE y # 0
    <3>1. PICK t \in B : y = Covered(q, t)
      BY <2>2
    <3>2. contribution[t] <= M /\ y = Least(contribution[q], contribution[t]) /\ contribution[t] \in Nat
      BY <1>1, <1>2, <1>3, <3>1
    <3>3. QED
      BY <1>1, <1>2, <3>2 DEF Least
  <2>3. QED
    BY <2>1, <2>2
<1> HIDE DEF S
<1>7. Max(S) = Least(contribution[q], M)
  <2>1. \E x \in S : \A y \in S : x >= y
    BY <1>5, <1>6
  <2>2. Max(S) \in S /\ \A y \in S : Max(S) >= y
    BY <2>1 DEF Max
  <2>3. QED
    BY <1>5, <1>6, <2>2
<1>8. left \in Int /\ LeftBy(strength, q, s) = left
  BY <1>1, <1>2, <1>3, <1>4, <1>7 DEF Least
<1>9. Collected(q, s, strength, contribution, Standing) = IF left > 0 THEN left ELSE 0
  BY DEF Collected, M
<1> HIDE DEF left
<1>10. Max({0, left}) = IF left > 0 THEN left ELSE 0
  <2> DEFINE Q == {0, left}
  <2>1. \E x \in Q : \A y \in Q : x >= y
    BY <1>8
  <2>2. Max(Q) \in Q /\ \A y \in Q : Max(Q) >= y
    <3> HIDE DEF Q
    <3>1. QED
      BY <2>1 DEF Max
  <2>3. QED
    BY <1>8, <2>2
<1>11. QED
  BY <1>8, <1>9, <1>10

\* BestCollectFirst with its conclusion under one name, to be used for the hand on the table.
CollectsFirst(mode, T, c, P, F, rank, showdown, strength, s) ==
  Winnings(Pots(c, P, F), showdown, mode, rank, s)
    = SumFunctionOnSet([q \in P |-> Collected(q, s, strength, c, P \ F)], P)

LEMMA BestCollectsFirst ==
  ASSUME NEW mode \in Scorings, NEW T, IsFiniteSet(T), NEW c, NEW P \in SUBSET T, Bets(c, P), NEW F,
         NEW rank, Ranked(rank, T), NEW showdown, ShowdownOf(showdown, P \ F), NEW strength,
         AllLike(showdown, mode, strength), Strict(strength, P \ F), NEW s \in P \ F
  PROVE  CollectsFirst(mode, T, c, P, F, rank, showdown, strength, s)
<1>1. Winnings(Pots(c, P, F), showdown, mode, rank, s)
        = SumFunctionOnSet([q \in P |-> Collected(q, s, strength, c, P \ F)], P)
  BY BestCollectFirst
<1>2. QED
  BY <1>1 DEF CollectsFirst

\* What better hands leave s of the chips of all players, and that as the sum of a function.
LeftByAll(strength, s) == MapThenSumSet(LAMBDA q : Max({0, LeftBy(strength, q, s)}), PotSeats)

LEMMA LeftByAllIs ==
  ASSUME NEW strength, NEW s
  PROVE  LeftByAll(strength, s)
           = SumFunctionOnSet([q \in PotSeats |-> Max({0, LeftBy(strength, q, s)})], PotSeats)
<1> DEFINE part(q) == Max({0, LeftBy(strength, q, s)})
<1>1. LeftByAll(strength, s) = MapThenSumSet(LAMBDA q : part(q), PotSeats)
  BY Zenon DEF LeftByAll
<1>2. MapThenSumSet(LAMBDA q : part(q), PotSeats) = SumFunctionOnSet([q \in PotSeats |-> part(q)], PotSeats)
  <2> HIDE DEF part
  <2>1. QED
    BY Zenon DEF MapThenSumSet, MapThenFoldSet, SumFunctionOnSet, FoldFunctionOnSet
<1>3. QED
  BY <1>1, <1>2, Zenon

\* The best hands collect first.
LEMMA BestHandsAreFirst == SettleInv => BestHandsCollectFirst
<1> SUFFICES ASSUME SettleInv, PaidOut, \A c, d \in Categories : c = d, NEW strength \in Categories,
                    \A s, t \in Standing : strength[s] = strength[t] => s = t, NEW s \in Standing
             PROVE  payout[s] = LeftByAll(strength, s)
  BY Zenon DEF BestHandsCollectFirst, LeftByAll
<1> DEFINE c == contribution
           P == PotSeats
           F == foldedSeats
           part(q) == Max({0, LeftBy(strength, q, s)})
<1>1. /\ IsFiniteSet(P) /\ P \in SUBSET P /\ Bets(c, P) /\ Ranked(PotRank, P)
      /\ ShowdownOf(hands, P \ F) /\ scoring \in Scorings
      /\ payout[s] = Winnings(Pots(c, P, F), hands, scoring, PotRank, s)
  BY SettlementIsShowdown DEF ShowdownAmong, PaidTo, Standing
<1>2. AllLike(hands, scoring, strength)
  BY DEF AllLike, Categories
<1>3. Strict(strength, P \ F) /\ s \in P \ F /\ P \ F = Standing
  BY DEF Strict, Standing
<1>4. payout[s] = SumFunctionOnSet([q \in P |-> Collected(q, s, strength, c, P \ F)], P)
  <2> HIDE DEF c, P, F
  <2>1. CollectsFirst(scoring, P, c, P, F, PotRank, hands, strength, s)
    BY <1>1, <1>2, <1>3, BestCollectsFirst
  <2>2. QED
    BY <1>1, <2>1 DEF CollectsFirst
<1>5. \A q \in P : part(q) = Collected(q, s, strength, c, P \ F)
  BY <1>3, LeftIsCollected
<1>6. LeftByAll(strength, s) = SumFunctionOnSet([q \in P |-> part(q)], P)
  BY LeftByAllIs
<1>7. [q \in P |-> part(q)] = [q \in P |-> Collected(q, s, strength, c, P \ F)]
  <2> HIDE DEF part
  <2>1. QED
    BY <1>5
<1>8. QED
  BY <1>4, <1>6, <1>7, Zenon

\* Whatever was put in, whoever has folded, however the hands of those who have not compare
\* on however many boards, and in all four ways to score them, settleShowdown pays every pot
\* that somebody can win to the chip, and the best hands first.
THEOREM SettlementsPayByTheRules == SettlementSpec => []PaidByTheRules
<1>1. SettleInv => PaidByTheRules
  BY PotsArePaid, BestHandsAreFirst DEF PaidByTheRules
<1>2. QED
  BY <1>1, SettleInvHolds, PTL
=============================================================================
