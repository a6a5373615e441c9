-------------------------- MODULE TableLock_proofs --------------------------
(***************************************************************************)
(* The table lock for any number of requests and tables: requests of one   *)
(* table are carried out one at a time and in the order they came, as by   *)
(* the queue it promises; and what a page lists of the chat, which rests   *)
(* on it.                                                                  *)
(***************************************************************************)
EXTENDS Gateway, Sums, SequenceTheorems

Came(o) == state[o] # "new"

\* The tickets of a table are 0, 1, 2, ... in the order of the chain.
TailHasLastTicket ==
  \A t \in Tables : tail[t] # NoOp =>
    /\ Came(tail[t]) /\ TableOf[tail[t]] = t
    /\ Len(arrived[t]) = ticket[tail[t]] + 1

TicketsBelowLength == \A o \in Ops : Came(o) => ticket[o] < Len(arrived[TableOf[o]])

TicketsDiffer ==
  \A o, p \in Ops :
    Came(o) /\ Came(p) /\ TableOf[o] = TableOf[p] /\ ticket[o] = ticket[p] => o = p

\* A request waits for the one with the ticket before its own.
AfterTheOneBefore ==
  \A o \in Ops : Came(o) =>
    IF after[o] = NoOp THEN ticket[o] = 0
    ELSE /\ Came(after[o]) /\ TableOf[after[o]] = TableOf[o]
         /\ ticket[o] = ticket[after[o]] + 1

\* FirstComeFirstServed alone is not inductive: that the request a new one waits
\* for is the one just before it comes from the rest.
IInv ==
  /\ TypeOK
  /\ TailHasLastTicket
  /\ TicketsBelowLength
  /\ TicketsDiffer
  /\ AfterTheOneBefore
  /\ FirstComeFirstServed

\* The invariant holds at the start.
LEMMA InitIInv == Init => IInv
BY TableOfAssumption, NoOpAssumption DEF Init, IInv, TypeOK, TailHasLastTicket, TicketsBelowLength, TicketsDiffer,
     AfterTheOneBefore, FirstComeFirstServed, Came, Started, Ended

\* A request that joins the chain gets a ticket higher than all before it.
LEMMA SubmitIInv == ASSUME IInv, NEW o \in Ops, Submit(o) PROVE IInv'
<1> DEFINE t == TableOf[o]
<1>0. /\ t \in Tables /\ o # NoOp /\ NoOp \notin Ops
  BY TableOfAssumption, NoOpAssumption
<1>1. /\ state' = [state EXCEPT ![o] = "waiting"]
      /\ after' = [after EXCEPT ![o] = tail[t]]
      /\ tail' = [tail EXCEPT ![t] = o]
      /\ ticket' = [ticket EXCEPT ![o] = Len(arrived[t])]
      /\ arrived' = [arrived EXCEPT ![t] = Append(@, o)]
      /\ state[o] = "new"
  BY DEF Submit
<1>2. TypeOK
  BY DEF IInv
<1>3. /\ arrived[t] \in Seq(Ops) /\ Len(arrived[t]) \in Nat
      /\ arrived'[t] = Append(arrived[t], o) /\ Len(arrived'[t]) = Len(arrived[t]) + 1
      /\ \A u \in Tables : u # t => arrived'[u] = arrived[u] /\ tail'[u] = tail[u]
      /\ arrived'[t] # <<>> /\ tail'[t] = o
      /\ ticket'[o] = Len(arrived[t]) /\ after'[o] = tail[t] /\ state'[o] = "waiting"
  <2>1. arrived[t] \in Seq(Ops) /\ Len(arrived[t]) \in Nat
    BY <1>0, <1>2 DEF TypeOK
  <2>2. arrived'[t] = Append(arrived[t], o) /\ tail'[t] = o
    BY <1>0, <1>1, <1>2 DEF TypeOK
  <2>3. Len(Append(arrived[t], o)) = Len(arrived[t]) + 1 /\ Append(arrived[t], o) # <<>>
    BY <2>1, SMTT(30)
  <2>4. \A u \in Tables : u # t => arrived'[u] = arrived[u] /\ tail'[u] = tail[u]
    BY <1>0, <1>1, <1>2 DEF TypeOK
  <2>5. ticket'[o] = Len(arrived[t]) /\ after'[o] = tail[t] /\ state'[o] = "waiting"
    BY <1>0, <1>1, <1>2 DEF TypeOK
  <2> QED
    BY <2>1, <2>2, <2>3, <2>4, <2>5
<1>4. /\ \A p \in Ops : p # o => /\ state'[p] = state[p] /\ after'[p] = after[p]
                                 /\ ticket'[p] = ticket[p]
      /\ \A p \in Ops : ticket[p] \in Nat
  BY <1>1, <1>2 DEF TypeOK
<1>5. TypeOK'
  <2>1. \A u \in Tables : IF arrived'[u] = <<>> THEN tail'[u] = NoOp
                          ELSE tail'[u] \in Ops /\ TableOf[tail'[u]] = u
    BY <1>0, <1>2, <1>3 DEF TypeOK
  <2>2. arrived' \in [Tables -> Seq(Ops)]
    <3>1. Append(arrived[t], o) \in Seq(Ops)
      BY <1>3
    <3> QED
      BY <3>1, <1>0, <1>1, <1>2 DEF TypeOK
  <2>3. ticket' \in [Ops -> Nat]
    BY <1>0, <1>1, <1>2, <1>3 DEF TypeOK
  <2>4. /\ state' \in [Ops -> {"new", "waiting", "running", "done", "failed"}]
        /\ tail' \in [Tables -> Ops \cup {NoOp}] /\ after' \in [Ops -> Ops \cup {NoOp}]
    BY <1>0, <1>1, <1>2 DEF TypeOK
  <2> QED
    BY <2>1, <2>2, <2>3, <2>4 DEF TypeOK
<1>6. /\ \A p \in Ops : p # o => (Came(p)' <=> Came(p)) /\ (Started(p)' <=> Started(p))
                                 /\ (Ended(p)' <=> Ended(p))
      /\ Came(o)' /\ ~Started(o)' /\ ~Came(o)
  BY <1>1, <1>3, <1>4 DEF Came, Started, Ended
<1>7. \A p \in Ops : Came(p) /\ TableOf[p] = t => ticket[p] < Len(arrived[t])
  BY DEF IInv, TicketsBelowLength
<1>8. TailHasLastTicket'
  <2> SUFFICES ASSUME NEW u \in Tables, tail'[u] # NoOp
               PROVE /\ Came(tail[u])' /\ TableOf[tail'[u]] = u
                     /\ Len(arrived'[u]) = ticket'[tail'[u]] + 1
    BY DEF TailHasLastTicket
  <2>1. CASE u = t
    BY <2>1, <1>3 DEF Came
  <2>2. CASE u # t
    <3>1. tail'[u] = tail[u] /\ arrived'[u] = arrived[u]
      BY <2>2, <1>3
    <3>2. /\ tail[u] \in Ops /\ Came(tail[u]) /\ TableOf[tail[u]] = u
          /\ Len(arrived[u]) = ticket[tail[u]] + 1
      BY <3>1, <1>2 DEF IInv, TypeOK, TailHasLastTicket
    <3>3. tail[u] # o
      BY <3>2, <2>2
    <3> QED
      BY <3>1, <3>2, <3>3, <1>4 DEF Came
  <2> QED
    BY <2>1, <2>2
<1>9. TicketsBelowLength'
  <2> SUFFICES ASSUME NEW p \in Ops, Came(p)'
               PROVE ticket'[p] < Len(arrived'[TableOf[p]])
    BY DEF TicketsBelowLength
  <2>1. CASE p = o
    BY <2>1, <1>3
  <2>2. CASE p # o /\ TableOf[p] = t
    BY <2>2, <1>3, <1>4, <1>6, <1>7
  <2>3. CASE p # o /\ TableOf[p] # t
    BY <2>3, <1>3, <1>4, <1>6, TableOfAssumption DEF IInv, TicketsBelowLength
  <2> QED
    BY <2>1, <2>2, <2>3
<1>10. TicketsDiffer'
  <2> SUFFICES ASSUME NEW p \in Ops, NEW q \in Ops, Came(p)', Came(q)',
                      TableOf[p] = TableOf[q], ticket'[p] = ticket'[q], p # q
               PROVE FALSE
    BY DEF TicketsDiffer
  <2>1. CASE p = o
    BY <2>1, <1>3, <1>4, <1>6, <1>7
  <2>2. CASE q = o
    BY <2>2, <1>3, <1>4, <1>6, <1>7
  <2>3. CASE p # o /\ q # o
    BY <2>3, <1>4, <1>6 DEF IInv, TicketsDiffer
  <2> QED
    BY <2>1, <2>2, <2>3
<1>11. AfterTheOneBefore'
  <2> SUFFICES ASSUME NEW p \in Ops, Came(p)'
               PROVE IF after'[p] = NoOp THEN ticket'[p] = 0
                     ELSE /\ Came(after[p])' /\ TableOf[after'[p]] = TableOf[p]
                          /\ ticket'[p] = ticket'[after'[p]] + 1
    BY DEF AfterTheOneBefore
  <2>1. CASE p # o
    <3>1. after'[p] = after[p] /\ ticket'[p] = ticket[p] /\ Came(p)
      BY <2>1, <1>4, <1>6
    <3>2. CASE after[p] = NoOp
      BY <3>1, <3>2 DEF IInv, AfterTheOneBefore
    <3>3. CASE after[p] # NoOp
      <4>1. /\ after[p] \in Ops /\ Came(after[p]) /\ TableOf[after[p]] = TableOf[p]
            /\ ticket[p] = ticket[after[p]] + 1
        BY <3>1, <3>3, <1>2 DEF IInv, AfterTheOneBefore, TypeOK
      <4>2. after[p] # o
        BY <4>1, <1>6
      <4> QED
        BY <4>1, <4>2, <3>1, <3>3, <1>4, <1>6 DEF Came
    <3> QED
      BY <3>2, <3>3
  <2>2. CASE p = o /\ tail[t] = NoOp
    <3>1. arrived[t] = <<>>
      BY <2>2, <1>0, <1>2 DEF TypeOK
    <3> QED
      BY <2>2, <3>1, <1>3
  <2>3. CASE p = o /\ tail[t] # NoOp
    <3>1. /\ tail[t] \in Ops /\ Came(tail[t]) /\ TableOf[tail[t]] = t
          /\ Len(arrived[t]) = ticket[tail[t]] + 1
      BY <2>3, <1>0, <1>2 DEF TypeOK, IInv, TailHasLastTicket
    <3>2. tail[t] # o
      BY <3>1, <1>6
    <3> QED
      BY <2>3, <3>1, <3>2, <1>3, <1>4, <1>6 DEF Came
  <2> QED
    BY <2>1, <2>2, <2>3
<1>12. FirstComeFirstServed'
  <2> SUFFICES ASSUME NEW p \in Ops, NEW q \in Ops, TableOf[p] = TableOf[q],
                      Started(q)', Came(p)', ticket'[p] < ticket'[q]
               PROVE Ended(p)'
    BY DEF FirstComeFirstServed, Came
  <2>1. q # o /\ Started(q) /\ Came(q)
    BY <1>6 DEF Started, Came
  <2>2. p # o
    BY <2>1, <1>3, <1>4, <1>7
  <2> QED
    BY <2>1, <2>2, <1>4, <1>6 DEF IInv, FirstComeFirstServed, Came
<1> QED
  BY <1>5, <1>8, <1>9, <1>10, <1>11, <1>12 DEF IInv

\* A request that starts does so after every request with a lower ticket.
LEMMA StartIInv == ASSUME IInv, NEW o \in Ops, Start(o) PROVE IInv'
<1>1. /\ state[o] = "waiting" /\ Settled(after[o])
      /\ state' = [state EXCEPT ![o] = "running"]
      /\ UNCHANGED <<tail, after, ticket, arrived>>
  BY DEF Start
<1>2. TypeOK /\ NoOp \notin Ops
  BY NoOpAssumption DEF IInv
<1>3. /\ \A p \in Ops : p # o => state'[p] = state[p]
      /\ \A p \in Ops : (Came(p)' <=> Came(p)) /\ (Ended(p)' <=> Ended(p))
      /\ Came(o) /\ ~Ended(o)
  BY <1>1, <1>2 DEF TypeOK, Came, Ended
<1>4. TypeOK'
  BY <1>1, <1>2 DEF TypeOK
<1>5. TailHasLastTicket'
  BY <1>1, <1>2, <1>3 DEF IInv, TypeOK, TailHasLastTicket, Came
<1>6. TicketsBelowLength' /\ TicketsDiffer'
  BY <1>1, <1>3 DEF IInv, TicketsBelowLength, TicketsDiffer
<1>7. AfterTheOneBefore'
  BY <1>1, <1>2, <1>3 DEF IInv, TypeOK, AfterTheOneBefore, Came
<1>8. FirstComeFirstServed'
  <2> SUFFICES ASSUME NEW p \in Ops, NEW q \in Ops, TableOf[p] = TableOf[q],
                      Started(q)', Came(p), ticket[p] < ticket[q]
               PROVE Ended(p)
    BY <1>1, <1>3 DEF FirstComeFirstServed, Came
  <2>1. CASE q # o
    BY <2>1, <1>3 DEF IInv, FirstComeFirstServed, Started, Came
  <2>2. CASE q = o
    <3>1. ticket[p] \in Nat /\ ticket[o] \in Nat /\ after[o] \in Ops \cup {NoOp}
      BY <1>2 DEF TypeOK
    <3>2. after[o] # NoOp
      BY <2>2, <3>1, <1>3 DEF IInv, AfterTheOneBefore
    <3>3. /\ after[o] \in Ops /\ Ended(after[o]) /\ Came(after[o])
          /\ TableOf[after[o]] = TableOf[p] /\ ticket[o] = ticket[after[o]] + 1
      BY <2>2, <3>1, <3>2, <1>1, <1>3 DEF IInv, AfterTheOneBefore, Settled
    <3>4. ticket[after[o]] \in Nat
      BY <3>3, <1>2 DEF TypeOK
    <3>5. ticket[p] = ticket[after[o]] \/ ticket[p] < ticket[after[o]]
      BY <2>2, <3>1, <3>3, <3>4
    <3>6. CASE ticket[p] = ticket[after[o]]
      BY <3>3, <3>6 DEF IInv, TicketsDiffer
    <3>7. CASE ticket[p] < ticket[after[o]]
      BY <3>3, <3>7 DEF IInv, FirstComeFirstServed, Started, Ended, Came
    <3> QED
      BY <3>5, <3>6, <3>7
  <2> QED
    BY <2>1, <2>2
<1> QED
  BY <1>4, <1>5, <1>6, <1>7, <1>8 DEF IInv

\* A request that ends keeps the invariant.
LEMMA FinishIInv == ASSUME IInv, NEW o \in Ops, Finish(o) PROVE IInv'
<1>1. PICK outcome \in {"done", "failed"} :
        /\ state[o] = "running" /\ state' = [state EXCEPT ![o] = outcome]
        /\ UNCHANGED <<tail, after, ticket, arrived>>
  BY DEF Finish
<1>2. TypeOK /\ NoOp \notin Ops
  BY NoOpAssumption DEF IInv
<1>3. \A p \in Ops : /\ (Came(p)' <=> Came(p)) /\ (Started(p)' <=> Started(p))
                     /\ (Ended(p) => Ended(p)')
  BY <1>1, <1>2 DEF TypeOK, Came, Started, Ended
<1>4. TypeOK'
  BY <1>1, <1>2 DEF TypeOK
<1>5. TailHasLastTicket'
  BY <1>1, <1>2, <1>3 DEF IInv, TypeOK, TailHasLastTicket, Came
<1>6. TicketsBelowLength' /\ TicketsDiffer'
  BY <1>1, <1>3 DEF IInv, TicketsBelowLength, TicketsDiffer
<1>7. AfterTheOneBefore'
  BY <1>1, <1>2, <1>3 DEF IInv, TypeOK, AfterTheOneBefore, Came
<1>8. FirstComeFirstServed'
  BY <1>1, <1>3 DEF IInv, FirstComeFirstServed, Came
<1> QED
  BY <1>4, <1>5, <1>6, <1>7, <1>8 DEF IInv

\* Nothing happening keeps the invariant.
LEMMA UnchangedIInv == ASSUME IInv, UNCHANGED vars PROVE IInv'
BY DEF vars, IInv, TypeOK, TailHasLastTicket, TicketsBelowLength, TicketsDiffer,
       AfterTheOneBefore, FirstComeFirstServed, Came, Started, Ended

\* Every step keeps the invariant.
LEMMA NextIInv == IInv /\ [Next]_vars => IInv'
<1> SUFFICES ASSUME IInv, [Next]_vars PROVE IInv'
  OBVIOUS
<1>1. ASSUME NEW o \in Ops, Submit(o) PROVE IInv'
  BY <1>1, SubmitIInv
<1>2. ASSUME NEW o \in Ops, Start(o) PROVE IInv'
  BY <1>2, StartIInv
<1>3. ASSUME NEW o \in Ops, Finish(o) PROVE IInv'
  BY <1>3, FinishIInv
<1>4. CASE UNCHANGED vars
  BY <1>4, UnchangedIInv
<1> QED
  BY <1>1, <1>2, <1>3, <1>4 DEF Next, NoMoreRequests

\* The inductive invariant holds throughout every behaviour.
THEOREM LockInvariant == Spec => []IInv
BY InitIInv, NextIInv, PTL DEF Spec

\* Types, and every chain ends in a request for its own table (withTableLock).
THEOREM LockTypeCorrect == Spec => []TypeOK
<1>1. IInv => TypeOK
  BY DEF IInv
<1> QED
  BY <1>1, LockInvariant, PTL

\* Requests of one table are carried out in the order they reached the server.
THEOREM LockIsFair == Spec => []FirstComeFirstServed
<1>1. IInv => FirstComeFirstServed
  BY DEF IInv
<1> QED
  BY <1>1, LockInvariant, PTL

\* Order and tickets exclude each other's requests.
LEMMA OneRuns == IInv => MutualExclusion
<1> SUFFICES ASSUME IInv, NEW o \in Ops, NEW p \in Ops, state[o] = "running",
                    state[p] = "running", TableOf[o] = TableOf[p]
             PROVE o = p
  BY DEF MutualExclusion
<1>1. /\ Came(o) /\ Came(p) /\ Started(o) /\ Started(p) /\ ~Ended(o) /\ ~Ended(p)
      /\ ticket[o] \in Nat /\ ticket[p] \in Nat
  BY DEF Came, Started, Ended, IInv, TypeOK
<1>2. ~(ticket[o] < ticket[p]) /\ ~(ticket[p] < ticket[o])
  BY <1>1 DEF IInv, FirstComeFirstServed, Came
<1>3. ticket[o] = ticket[p]
  BY <1>1, <1>2
<1> QED
  BY <1>1, <1>3 DEF IInv, TicketsDiffer

\* Two requests for one table never run at the same time, however many arrive and
\* whichever of them throw.
THEOREM LockExcludes == Spec => []MutualExclusion
BY OneRuns, LockInvariant, PTL

-----------------------------------------------------------------------------
(* The queue of a table.                                                   *)

\* The chain lists the requests of its table by their tickets, which begin at 0.
ListedByTicket ==
  /\ \A o \in Ops : Came(o) => /\ ticket[o] + 1 \in 1 .. Len(arrived[TableOf[o]])
                               /\ arrived[TableOf[o]][ticket[o] + 1] = o
  /\ \A t \in Tables : \A i \in 1 .. Len(arrived[t]) :
       /\ Came(arrived[t][i]) /\ TableOf[arrived[t][i]] = t
       /\ ticket[arrived[t][i]] = i - 1

\* Places that are taken from the front are numbered up to how many they are.
LEMMA FrontIsCounted ==
  ASSUME NEW n \in Nat, NEW S \in SUBSET (1 .. n),
         \A i \in S : \A j \in 1 .. n : j < i => j \in S
  PROVE  Cardinality(S) \in 0 .. n /\ S = 1 .. Cardinality(S)
<1>1. IsFiniteSet(S)
  <2>1. 0 \in Int /\ 1 \in Int /\ n \in Int
    OBVIOUS
  <2>2. IsFiniteSet(1 .. n)
    BY <2>1, FS_Interval, Zenon
  <2>3. QED
    BY <2>2, FS_Subset, Zenon
<1>2. CASE S = {}
  BY <1>2, FS_EmptySet
<1>3. CASE S # {}
  <2>1. PICK m \in S : \A i \in S : i <= m
    <3>1. S \subseteq Nat
      OBVIOUS
    <3>2. QED
      BY <3>1, <1>1, <1>3, GreatestNatural, Zenon
  <2>2. S = 1 .. m /\ m \in 1 .. n
    <3>1. m \in 1 .. n /\ m \in S
      OBVIOUS
    <3>2. \A i \in 1 .. m : i \in S
      <4> SUFFICES ASSUME NEW i \in 1 .. m PROVE i \in S
        OBVIOUS
      <4>1. i = m \/ (i \in 1 .. n /\ i < m)
        BY <3>1
      <4>2. QED
        BY <3>1, <4>1
    <3>3. \A i \in S : i \in 1 .. m
      BY <2>1
    <3>4. QED
      BY <3>1, <3>2, <3>3
  <2>3. Cardinality(S) = m
    BY <2>2, FS_Interval
  <2>4. QED
    BY <2>2, <2>3
<1>4. QED
  BY <1>2, <1>3

\* Those that have ended are the first of the chain.
ServedAreFirst ==
  \A t \in Tables :
    /\ Served(t) \in 0 .. Len(arrived[t])
    /\ \A i \in 1 .. Len(arrived[t]) : Ended(arrived[t][i]) <=> i <= Served(t)

\* That follows from the order in which requests are carried out.
LEMMA ServedFirst == IInv /\ ListedByTicket => ServedAreFirst
<1> SUFFICES ASSUME IInv, ListedByTicket, NEW t \in Tables
             PROVE  /\ Served(t) \in 0 .. Len(arrived[t])
                    /\ \A i \in 1 .. Len(arrived[t]) : Ended(arrived[t][i]) <=> i <= Served(t)
  BY DEF ServedAreFirst
<1> DEFINE n == Len(arrived[t])
           S == {i \in DOMAIN arrived[t] : Ended(arrived[t][i])}
<1>1. arrived[t] \in Seq(Ops) /\ n \in Nat /\ DOMAIN arrived[t] = 1 .. n
  BY DEF IInv, TypeOK
<1>2. \A i \in S : \A j \in 1 .. n : j < i => j \in S
  <2> SUFFICES ASSUME NEW i \in S, NEW j \in 1 .. n, j < i PROVE Ended(arrived[t][j])
    BY <1>1
  <2>1. i \in 1 .. n /\ Ended(arrived[t][i]) /\ arrived[t][i] \in Ops /\ arrived[t][j] \in Ops
    BY <1>1
  <2>2. /\ TableOf[arrived[t][i]] = t /\ ticket[arrived[t][i]] = i - 1
        /\ TableOf[arrived[t][j]] = t /\ ticket[arrived[t][j]] = j - 1 /\ Came(arrived[t][j])
    BY <2>1, Zenon DEF ListedByTicket
  <2>3. ticket[arrived[t][j]] < ticket[arrived[t][i]]
    BY <2>1, <2>2
  <2>4. QED
    BY <2>1, <2>2, <2>3 DEF IInv, FirstComeFirstServed, Started, Ended, Came
<1>3. S \in SUBSET (1 .. n)
  BY <1>1
<1>4. Served(t) = Cardinality(S)
  BY DEF Served
<1>5. \A i \in 1 .. n : Ended(arrived[t][i]) <=> i \in S
  BY <1>1
<1> HIDE DEF S
<1>6. Cardinality(S) \in 0 .. n /\ S = 1 .. Cardinality(S)
  BY <1>1, <1>2, <1>3, FrontIsCounted
<1>7. QED
  BY <1>1, <1>4, <1>5, <1>6

\* The list is kept: a request goes to the end of it with the ticket of its place.
LEMMA SubmitListed ==
  ASSUME IInv, ListedByTicket, NEW o \in Ops, Submit(o)
  PROVE  ListedByTicket'
<1> DEFINE t == TableOf[o]
<1>1. /\ state[o] = "new" /\ t \in Tables
      /\ state' = [state EXCEPT ![o] = "waiting"]
      /\ ticket' = [ticket EXCEPT ![o] = Len(arrived[t])]
      /\ arrived' = [arrived EXCEPT ![t] = Append(@, o)]
  BY TableOfAssumption DEF Submit
<1>2. /\ state \in [Ops -> {"new", "waiting", "running", "done", "failed"}]
      /\ ticket \in [Ops -> Nat] /\ arrived \in [Tables -> Seq(Ops)]
      /\ TableOf \in [Ops -> Tables]
  BY TableOfAssumption DEF IInv, TypeOK
<1>3. /\ arrived[t] \in Seq(Ops) /\ arrived'[t] = Append(arrived[t], o)
      /\ \A u \in Tables : u # t => arrived'[u] = arrived[u]
  BY <1>1, <1>2
<1>4. /\ Len(arrived[t]) \in Nat /\ Len(arrived'[t]) = Len(arrived[t]) + 1
      /\ arrived'[t][Len(arrived[t]) + 1] = o
      /\ \A i \in 1 .. Len(arrived[t]) : arrived'[t][i] = arrived[t][i]
  BY <1>3
<1>5. /\ Came(o)' /\ ticket'[o] = Len(arrived[t]) /\ ~Came(o)
      /\ \A p \in Ops : p # o => (Came(p)' <=> Came(p)) /\ ticket'[p] = ticket[p]
  BY <1>1, <1>2 DEF Came
<1>6. ASSUME NEW p \in Ops, Came(p)'
      PROVE  /\ ticket'[p] + 1 \in 1 .. Len(arrived'[TableOf[p]])
             /\ arrived'[TableOf[p]][ticket'[p] + 1] = p
  <2>1. CASE p = o
    BY <2>1, <1>4, <1>5
  <2>2. CASE p # o
    <3>1. /\ ticket[p] + 1 \in 1 .. Len(arrived[TableOf[p]]) /\ ticket'[p] = ticket[p]
          /\ arrived[TableOf[p]][ticket[p] + 1] = p /\ TableOf[p] \in Tables
      BY <1>2, <1>5, <1>6, <2>2 DEF ListedByTicket
    <3>2. QED
      BY <3>1, <1>3, <1>4, SMTT(30)
  <2>3. QED
    BY <2>1, <2>2
<1>7. ASSUME NEW u \in Tables, NEW i \in 1 .. Len(arrived'[u])
      PROVE  /\ Came(arrived[u][i])' /\ TableOf[arrived'[u][i]] = u
             /\ ticket'[arrived'[u][i]] = i - 1
  <2>1. CASE u = t /\ i = Len(arrived[t]) + 1
    <3>1. arrived'[u][i] = o
      BY <2>1, <1>4
    <3>2. QED
      BY <2>1, <3>1, <1>4, <1>5 DEF Came
  <2>2. CASE ~(u = t /\ i = Len(arrived[t]) + 1)
    <3>1. i \in 1 .. Len(arrived[u]) /\ arrived'[u][i] = arrived[u][i] /\ arrived[u] \in Seq(Ops)
      <4>1. CASE u = t
        BY <4>1, <2>2, <1>3, <1>4
      <4>2. CASE u # t
        BY <4>2, <1>2, <1>3
      <4>3. QED
        BY <4>1, <4>2
    <3>2. /\ Came(arrived[u][i]) /\ TableOf[arrived[u][i]] = u /\ ticket[arrived[u][i]] = i - 1
          /\ arrived[u][i] \in Ops
      BY <3>1 DEF ListedByTicket
    <3>3. arrived[u][i] # o
      BY <3>2, <1>5
    <3>4. /\ state'[arrived[u][i]] # "new" /\ ticket'[arrived[u][i]] = ticket[arrived[u][i]]
          /\ TableOf[arrived[u][i]] = u
      BY <3>2, <3>3, <1>5 DEF Came
    <3>5. QED
      BY <3>1, <3>2, <3>4 DEF Came
  <2>3. QED
    BY <2>1, <2>2
<1>8. QED
  BY <1>6, <1>7, Zenon DEF ListedByTicket

\* It is kept by every step of the lock.
LEMMA StepListed ==
  ASSUME IInv, ListedByTicket, [Next]_vars
  PROVE  ListedByTicket'
<1>1. ASSUME NEW o \in Ops, Start(o) \/ Finish(o) PROVE ListedByTicket'
  <2>1. /\ ticket' = ticket /\ arrived' = arrived
        /\ \A p \in Ops : Came(p)' <=> Came(p)
    <3>1. state \in [Ops -> {"new", "waiting", "running", "done", "failed"}]
      BY DEF IInv, TypeOK
    <3>2. QED
      BY <1>1, <3>1 DEF Start, Finish, Came
  <2>2. \A t \in Tables : \A i \in 1 .. Len(arrived[t]) : arrived[t][i] \in Ops
    BY DEF IInv, TypeOK
  <2>3. QED
    BY <2>1, <2>2 DEF ListedByTicket, Came
<1>2. CASE UNCHANGED vars
  BY <1>2 DEF vars, ListedByTicket, Came
<1>3. QED
  BY <1>1, <1>2, SubmitListed DEF Next, NoMoreRequests

\* The invariant of the chain with its list.
ListInv == IInv /\ ListedByTicket /\ ServedAreFirst

\* It holds throughout.
LEMMA ListInvariant == Spec => []ListInv
<1>1. Init => ListedByTicket
  BY TableOfAssumption DEF Init, ListedByTicket, Came
<1>2. IInv /\ ListedByTicket /\ [Next]_vars => IInv' /\ ListedByTicket'
  BY NextIInv, StepListed
<1>3. QED
  BY <1>1, <1>2, InitIInv, ServedFirst, PTL DEF Spec, ListInv

\* How many have been served of a list that has got no shorter, when nobody has ended.
LEMMA ServedStays ==
  ASSUME ListInv, ListInv', NEW t \in Tables, Len(arrived[t]) <= Len(arrived'[t]),
         \A i \in 1 .. Len(arrived'[t]) :
           Ended(arrived[t][i])' <=> i <= Len(arrived[t]) /\ Ended(arrived[t][i])
  PROVE  Served(t)' = Served(t)
<1>1. /\ Served(t) \in 0 .. Len(arrived[t])
      /\ \A i \in 1 .. Len(arrived[t]) : Ended(arrived[t][i]) <=> i <= Served(t)
  BY DEF ListInv, ServedAreFirst
<1>2. /\ Served(t)' \in 0 .. Len(arrived'[t])
      /\ \A i \in 1 .. Len(arrived'[t]) : Ended(arrived[t][i])' <=> i <= Served(t)'
  BY DEF ListInv, ServedAreFirst
<1>3. Len(arrived[t]) \in Nat /\ Len(arrived'[t]) \in Nat
  <2>1. arrived[t] \in Seq(Ops) /\ arrived'[t] \in Seq(Ops)
    BY DEF ListInv, IInv, TypeOK
  <2>2. QED
    BY <2>1
<1>4. \A i \in 1 .. Len(arrived'[t]) : i <= Served(t)' <=> i <= Served(t)
  BY <1>1, <1>2, <1>3
<1> DEFINE n == Served(t)
           m == Served(t)'
<1> HIDE DEF n, m
<1>5. n \in Nat /\ m \in Nat /\ n <= Len(arrived'[t]) /\ m <= Len(arrived'[t])
  BY <1>1, <1>2, <1>3 DEF n, m
<1>6. \A i \in 1 .. Len(arrived'[t]) : i <= m <=> i <= n
  BY <1>4 DEF n, m
<1>7. m = n
  BY <1>3, <1>5, <1>6
<1>8. QED
  BY <1>7 DEF n, m

\* A queue is a sequence of requests, as long as what is left of the list.
LEMMA UnservedIs ==
  ASSUME NEW s \in Seq(Ops), NEW n \in 0 .. Len(s)
  PROVE  LET q == SubSeq(s, n + 1, Len(s))
         IN  /\ q \in Seq(Ops) /\ Len(q) = Len(s) - n
             /\ \A i \in 1 .. Len(q) : q[i] = s[n + i]
<1> DEFINE q == SubSeq(s, n + 1, Len(s))
<1>1. Len(s) \in Nat /\ n + 1 \in Int /\ Len(s) \in Int
  OBVIOUS
<1>2. \A i \in n + 1 .. Len(s) : s[i] \in Ops
  BY ElementOfSeq
<1>3. /\ q \in Seq(Ops) /\ Len(q) = IF n + 1 <= Len(s) THEN Len(s) - (n + 1) + 1 ELSE 0
      /\ \A i \in 1 .. Len(s) - (n + 1) + 1 : q[i] = s[n + 1 + i - 1]
  BY <1>1, <1>2, SubSeqProperties
<1> HIDE DEF q
<1>4. Len(q) = Len(s) - n
  BY <1>1, <1>3
<1>5. \A i \in 1 .. Len(q) : q[i] = s[n + i]
  <2> SUFFICES ASSUME NEW i \in 1 .. Len(q) PROVE q[i] = s[n + i]
    OBVIOUS
  <2>1. i \in 1 .. Len(s) - (n + 1) + 1 /\ n + 1 + i - 1 = n + i
    BY <1>1, <1>4
  <2>2. QED
    BY <1>3, <2>1
<1>6. QED
  BY <1>3, <1>4, <1>5 DEF q

\* What comes to the end of the list comes to the end of the queue.
LEMMA UnservedGrows ==
  ASSUME NEW s \in Seq(Ops), NEW n \in 0 .. Len(s), NEW o \in Ops
  PROVE  SubSeq(Append(s, o), n + 1, Len(Append(s, o))) = Append(SubSeq(s, n + 1, Len(s)), o)
<1> DEFINE w == Append(s, o)
           p == SubSeq(w, n + 1, Len(w))
           q == SubSeq(s, n + 1, Len(s))
<1>1. /\ w \in Seq(Ops) /\ Len(w) = Len(s) + 1 /\ Len(s) \in Nat /\ w[Len(s) + 1] = o
      /\ \A i \in 1 .. Len(s) : w[i] = s[i]
  OBVIOUS
<1> HIDE DEF w
<1>2. n \in 0 .. Len(w)
  BY <1>1
<1>3. /\ p \in Seq(Ops) /\ Len(p) = Len(w) - n
      /\ \A i \in 1 .. Len(p) : p[i] = w[n + i]
  BY <1>1, <1>2, UnservedIs
<1>4. /\ q \in Seq(Ops) /\ Len(q) = Len(s) - n
      /\ \A i \in 1 .. Len(q) : q[i] = s[n + i]
  BY UnservedIs
<1> HIDE DEF p, q
<1>5. /\ Append(q, o) \in Seq(Ops) /\ Len(Append(q, o)) = Len(q) + 1
      /\ Append(q, o)[Len(q) + 1] = o /\ \A i \in 1 .. Len(q) : Append(q, o)[i] = q[i]
  BY <1>4
<1>6. Len(p) = Len(Append(q, o)) /\ Len(q) \in Nat
  BY <1>1, <1>3, <1>4, <1>5
<1>7. \A i \in 1 .. Len(p) : p[i] = Append(q, o)[i]
  <2> SUFFICES ASSUME NEW i \in 1 .. Len(p) PROVE p[i] = Append(q, o)[i]
    OBVIOUS
  <2>1. CASE i \in 1 .. Len(q)
    <3>1. n + i \in 1 .. Len(s)
      BY <2>1, <1>1, <1>4
    <3>2. QED
      BY <2>1, <3>1, <1>1, <1>3, <1>4, <1>5
  <2>2. CASE i = Len(q) + 1
    <3>1. n + i = Len(s) + 1
      BY <2>2, <1>1, <1>4
    <3>2. QED
      BY <2>2, <3>1, <1>1, <1>3, <1>5
  <2>3. QED
    BY <2>1, <2>2, <1>5, <1>6
<1>8. p = Append(q, o)
  BY <1>3, <1>5, <1>6, <1>7, SeqEqual
<1>9. QED
  BY <1>8 DEF p, q, w

\* Next in the queue is the request after those that were served; when it ends too, the
\* queue is one shorter.
LEMMA UnservedHead ==
  ASSUME NEW s \in Seq(Ops), NEW n \in 0 .. Len(s), n < Len(s)
  PROVE  LET q == SubSeq(s, n + 1, Len(s))
         IN  q # <<>> /\ Head(q) = s[n + 1] /\ Tail(q) = SubSeq(s, n + 1 + 1, Len(s))
<1>1. n + 1 \in 1 .. Len(s) /\ Len(s) \in n + 1 .. Len(s) /\ Len(s) - n >= 1
  OBVIOUS
<1> DEFINE q == SubSeq(s, n + 1, Len(s))
<1>2. Len(q) >= 1 /\ q \in Seq(Ops)
  BY <1>1, UnservedIs
<1>3. Head(q) = s[n + 1] /\ Tail(q) = SubSeq(s, n + 1 + 1, Len(s))
  BY <1>1, HeadTailOfSubSeq
<1> HIDE DEF q
<1>4. q # <<>>
  BY <1>2
<1>5. QED
  BY <1>3, <1>4 DEF q

\* The request that is carried out is next in its queue.
LEMMA RunningIsNext ==
  ASSUME ListInv, NEW o \in Ops, Came(o), ~Ended(o),
         \A p \in Ops : Came(p) /\ TableOf[p] = TableOf[o] /\ ticket[p] < ticket[o] => Ended(p)
  PROVE  Served(TableOf[o]) = ticket[o] /\ ticket[o] < Len(arrived[TableOf[o]])
<1> DEFINE t == TableOf[o]
           n == Served(t)
<1>1. /\ t \in Tables /\ arrived[t] \in Seq(Ops) /\ Len(arrived[t]) \in Nat /\ ticket[o] \in Nat
  BY TableOfAssumption DEF ListInv, IInv, TypeOK
<1>2. ticket[o] + 1 \in 1 .. Len(arrived[t]) /\ arrived[t][ticket[o] + 1] = o
  BY DEF ListInv, ListedByTicket
<1>3. /\ n \in 0 .. Len(arrived[t])
      /\ \A i \in 1 .. Len(arrived[t]) : Ended(arrived[t][i]) <=> i <= n
  BY <1>1 DEF ListInv, ServedAreFirst
<1> HIDE DEF n
<1>4. ~(ticket[o] + 1 <= n)
  BY <1>2, <1>3
<1>5. CASE ticket[o] = 0
  BY <1>3, <1>4, <1>5, <1>2, <1>1 DEF n
<1>6. CASE ticket[o] > 0
  <2>1. ticket[o] \in 1 .. Len(arrived[t])
    BY <1>1, <1>2, <1>6
  <2>2. /\ Came(arrived[t][ticket[o]]) /\ TableOf[arrived[t][ticket[o]]] = t
        /\ ticket[arrived[t][ticket[o]]] = ticket[o] - 1 /\ arrived[t][ticket[o]] \in Ops
    BY <1>1, <2>1 DEF ListInv, ListedByTicket
  <2>3. Ended(arrived[t][ticket[o]])
    BY <1>1, <2>2
  <2>4. ticket[o] <= n
    BY <1>3, <2>1, <2>3
  <2>5. QED
    BY <1>1, <1>2, <1>3, <1>4, <2>4 DEF n
<1>7. QED
  BY <1>1, <1>5, <1>6

\* A request that comes goes to the end of its queue.
LEMMA SubmitArrives ==
  ASSUME ListInv, ListInv', NEW o \in Ops, Submit(o)
  PROVE  Queue!Arrive(o)
<1> DEFINE t == TableOf[o]
<1>1. /\ state[o] = "new" /\ t \in Tables
      /\ state' = [state EXCEPT ![o] = "waiting"]
      /\ arrived' = [arrived EXCEPT ![t] = Append(@, o)]
  BY TableOfAssumption DEF Submit
<1>2. /\ state \in [Ops -> {"new", "waiting", "running", "done", "failed"}]
      /\ arrived \in [Tables -> Seq(Ops)] /\ arrived' \in [Tables -> Seq(Ops)]
  BY DEF ListInv, IInv, TypeOK
<1>3. /\ arrived'[t] = Append(arrived[t], o) /\ arrived[t] \in Seq(Ops)
      /\ \A u \in Tables : u # t => arrived'[u] = arrived[u]
  BY <1>1, <1>2
<1>4. \A p \in Ops : /\ (state'[p] \in {"done", "failed"}) <=> (state[p] \in {"done", "failed"})
                     /\ state'[p] = "running" <=> state[p] = "running"
  BY <1>1, <1>2
<1>5. state'[o] \notin {"done", "failed"}
  BY <1>1, <1>2
<1>6. ASSUME NEW u \in Tables PROVE Served(u)' = Served(u)
  <2>1. arrived[u] \in Seq(Ops) /\ Len(arrived[u]) \in Nat
    BY <1>2
  <2>2. /\ Len(arrived[u]) <= Len(arrived'[u])
        /\ \A i \in 1 .. Len(arrived[u]) : arrived'[u][i] = arrived[u][i] /\ arrived[u][i] \in Ops
        /\ \A i \in 1 .. Len(arrived'[u]) : i \in 1 .. Len(arrived[u]) \/ arrived'[u][i] = o
    <3>1. CASE u = t
      BY <3>1, <2>1, <1>3
    <3>2. CASE u # t
      BY <3>2, <2>1, <1>3
    <3>3. QED
      BY <3>1, <3>2
  <2>3. ASSUME NEW i \in 1 .. Len(arrived'[u])
        PROVE  Ended(arrived[u][i])' <=> i <= Len(arrived[u]) /\ Ended(arrived[u][i])
    <3>1. CASE i \in 1 .. Len(arrived[u])
      BY <3>1, <2>1, <2>2, <1>4 DEF Ended
    <3>2. CASE i \notin 1 .. Len(arrived[u])
      BY <3>2, <2>1, <2>2, <1>5 DEF Ended
    <3>3. QED
      BY <3>1, <3>2
  <2>4. QED
    BY <2>2, <2>3, ServedStays
<1>7. ASSUME NEW u \in Tables
      PROVE  Unserved(u)' = IF u = t THEN Append(Unserved(u), o) ELSE Unserved(u)
  <2>1. CASE u = t
    <3>1. Served(u) \in 0 .. Len(arrived[u]) /\ arrived[u] \in Seq(Ops)
      BY <1>2 DEF ListInv, ServedAreFirst
    <3>2. SubSeq(Append(arrived[u], o), Served(u) + 1, Len(Append(arrived[u], o)))
            = Append(SubSeq(arrived[u], Served(u) + 1, Len(arrived[u])), o)
      BY <3>1, UnservedGrows
    <3>3. QED
      BY <2>1, <3>2, <1>3, <1>6 DEF Unserved
  <2>2. CASE u # t
    BY <2>2, <1>3, <1>6 DEF Unserved
  <2>3. QED
    BY <2>1, <2>2
<1>8. [u \in Tables |-> Unserved(u)]' = [[u \in Tables |-> Unserved(u)] EXCEPT ![t] = Append(@, o)]
  BY <1>1, <1>7
<1>9. {p \in Ops : state[p] = "running"}' = {p \in Ops : state[p] = "running"}
  BY <1>4
<1>10. QED
  BY <1>8, <1>9 DEF Queue!Arrive

\* A request starts when it is next in its queue.
LEMMA StartBegins ==
  ASSUME ListInv, ListInv', NEW o \in Ops, Start(o)
  PROVE  Queue!Begin(o)
<1> DEFINE t == TableOf[o]
<1>1. /\ state[o] = "waiting" /\ t \in Tables /\ arrived' = arrived /\ ticket' = ticket
      /\ state' = [state EXCEPT ![o] = "running"]
  BY TableOfAssumption DEF Start
<1>2. /\ state \in [Ops -> {"new", "waiting", "running", "done", "failed"}]
      /\ arrived \in [Tables -> Seq(Ops)]
  BY DEF ListInv, IInv, TypeOK
<1>3. /\ Came(o) /\ ~Ended(o) /\ state'[o] = "running"
      /\ \A p \in Ops : (Ended(p)' <=> Ended(p)) /\ (Came(p)' <=> Came(p))
  BY <1>1, <1>2 DEF Came, Ended
<1>4. \A p \in Ops : Came(p) /\ TableOf[p] = t /\ ticket[p] < ticket[o] => Ended(p)
  <2> SUFFICES ASSUME NEW p \in Ops, Came(p), TableOf[p] = t, ticket[p] < ticket[o] PROVE Ended(p)
    OBVIOUS
  <2>1. FirstComeFirstServed'
    BY DEF ListInv, IInv
  <2>2. state'[p] # "new" /\ state'[o] = "running" /\ ticket'[p] < ticket'[o]
    BY <1>1, <1>3 DEF Came
  <2>3. Ended(p)'
    BY <2>1, <2>2 DEF FirstComeFirstServed, Started
  <2>4. QED
    BY <2>3, <1>3
<1>5. Served(t) = ticket[o] /\ ticket[o] < Len(arrived[t])
  BY <1>3, <1>4, RunningIsNext
<1>6. arrived[t][ticket[o] + 1] = o /\ Served(t) \in 0 .. Len(arrived[t]) /\ arrived[t] \in Seq(Ops)
  BY <1>1, <1>2, <1>3 DEF ListInv, ListedByTicket, ServedAreFirst
<1>7. Unserved(t) # <<>> /\ Head(Unserved(t)) = o
  <2>1. /\ SubSeq(arrived[t], Served(t) + 1, Len(arrived[t])) # <<>>
        /\ Head(SubSeq(arrived[t], Served(t) + 1, Len(arrived[t]))) = arrived[t][Served(t) + 1]
    BY <1>5, <1>6, UnservedHead
  <2>2. QED
    BY <2>1, <1>5, <1>6 DEF Unserved
<1>8. ASSUME NEW u \in Tables PROVE Unserved(u)' = Unserved(u)
  <2>1. /\ Len(arrived[u]) <= Len(arrived'[u])
        /\ \A i \in 1 .. Len(arrived'[u]) :
             Ended(arrived[u][i])' <=> i <= Len(arrived[u]) /\ Ended(arrived[u][i])
    <3>1. /\ arrived[u] \in Seq(Ops) /\ Len(arrived[u]) \in Nat /\ arrived'[u] = arrived[u]
          /\ \A i \in 1 .. Len(arrived[u]) : arrived[u][i] \in Ops
      <4>1. arrived[u] \in Seq(Ops) /\ arrived'[u] = arrived[u]
        BY <1>1, <1>2
      <4>2. QED
        BY <4>1, ElementOfSeq
    <3>2. \A p \in Ops : state'[p] \in {"done", "failed"} <=> state[p] \in {"done", "failed"}
      BY <1>3 DEF Ended
    <3>3. QED
      BY <3>1, <3>2 DEF Ended
  <2>2. Served(u)' = Served(u)
    BY <2>1, ServedStays
  <2>3. QED
    BY <2>2, <1>1 DEF Unserved
<1>9. [u \in Tables |-> Unserved(u)]' = [u \in Tables |-> Unserved(u)]
  BY <1>8
<1>10. /\ {p \in Ops : state[p] = "running"}' = {p \in Ops : state[p] = "running"} \cup {o}
       /\ o \notin {p \in Ops : state[p] = "running"}
  BY <1>1, <1>2
<1>11. [u \in Tables |-> Unserved(u)][t] = Unserved(t)
  BY <1>1
<1>12. QED
  BY <1>7, <1>9, <1>10, <1>11 DEF Queue!Begin

\* A request that ends, however it does, leaves the head of its queue.
LEMMA FinishEnds ==
  ASSUME ListInv, ListInv', NEW o \in Ops, Finish(o)
  PROVE  Queue!End(o)
<1> DEFINE t == TableOf[o]
<1>1. PICK outcome \in {"done", "failed"} :
        /\ state[o] = "running" /\ state' = [state EXCEPT ![o] = outcome]
        /\ arrived' = arrived /\ ticket' = ticket
  BY DEF Finish
<1>2. /\ state \in [Ops -> {"new", "waiting", "running", "done", "failed"}]
      /\ arrived \in [Tables -> Seq(Ops)] /\ ticket \in [Ops -> Nat] /\ t \in Tables
  BY TableOfAssumption DEF ListInv, IInv, TypeOK
<1>3. /\ Came(o) /\ ~Ended(o)
      /\ state'[o] \in {"done", "failed"}
      /\ \A p \in Ops : p # o => state'[p] = state[p]
  BY <1>1, <1>2 DEF Came, Ended
<1>4. \A p \in Ops : Came(p) /\ TableOf[p] = t /\ ticket[p] < ticket[o] => Ended(p)
  BY <1>1 DEF ListInv, IInv, FirstComeFirstServed, Started, Came
<1>5. Served(t) = ticket[o] /\ ticket[o] < Len(arrived[t])
  BY <1>3, <1>4, RunningIsNext
<1>6. /\ arrived[t][ticket[o] + 1] = o /\ arrived[t] \in Seq(Ops) /\ Len(arrived[t]) \in Nat
      /\ ticket[o] \in Nat
      /\ \A i \in 1 .. Len(arrived[t]) : Ended(arrived[t][i]) <=> i <= ticket[o]
  BY <1>2, <1>3, <1>5 DEF ListInv, ListedByTicket, ServedAreFirst
<1>7. \A u \in Tables : \A i \in 1 .. Len(arrived[u]) :
        arrived[u][i] \in Ops /\ TableOf[arrived[u][i]] = u /\ ticket[arrived[u][i]] = i - 1
  BY <1>2 DEF ListInv, ListedByTicket
<1>8. Served(t)' = ticket[o] + 1
  <2>1. \A i \in 1 .. Len(arrived[t]) : state'[arrived[t][i]] \in {"done", "failed"} <=> i <= ticket[o] + 1
    <3> SUFFICES ASSUME NEW i \in 1 .. Len(arrived[t])
                 PROVE  state'[arrived[t][i]] \in {"done", "failed"} <=> i <= ticket[o] + 1
      OBVIOUS
    <3>1. CASE i = ticket[o] + 1
      BY <3>1, <1>3, <1>6
    <3>2. CASE i # ticket[o] + 1
      <4>1. arrived[t][i] # o /\ arrived[t][i] \in Ops
        BY <3>2, <1>2, <1>6, <1>7
      <4>2. state'[arrived[t][i]] \in {"done", "failed"} <=> i <= ticket[o]
        BY <4>1, <1>3, <1>6 DEF Ended
      <4>3. QED
        BY <4>2, <3>2, <1>6
    <3>3. QED
      BY <3>1, <3>2
  <2>2. /\ Served(t)' \in 0 .. Len(arrived[t])
        /\ \A i \in 1 .. Len(arrived[t]) : state'[arrived[t][i]] \in {"done", "failed"} <=> i <= Served(t)'
    BY <1>1, <1>2 DEF ListInv, ServedAreFirst, Ended
  <2> DEFINE m == Served(t)'
             n == ticket[o]
  <2>3. /\ m \in 0 .. Len(arrived[t]) /\ n \in Nat /\ n < Len(arrived[t])
        /\ \A i \in 1 .. Len(arrived[t]) : i <= n + 1 <=> i <= m
    BY <2>1, <2>2, <1>5, <1>6
  <2> HIDE DEF m, n
  <2>4. m = n + 1
    BY <2>3, <1>6
  <2>5. QED
    BY <2>4 DEF m, n
<1>9. Unserved(t)' = Tail(Unserved(t))
  <2>1. Tail(SubSeq(arrived[t], ticket[o] + 1, Len(arrived[t])))
          = SubSeq(arrived[t], ticket[o] + 1 + 1, Len(arrived[t]))
    <3> DEFINE s == arrived[t]
               n == ticket[o]
    <3>1. s \in Seq(Ops) /\ n \in 0 .. Len(s) /\ n < Len(s)
      BY <1>5, <1>6
    <3> HIDE DEF s, n
    <3>2. Tail(SubSeq(s, n + 1, Len(s))) = SubSeq(s, n + 1 + 1, Len(s))
      BY <3>1, UnservedHead
    <3>3. QED
      BY <3>2 DEF s, n
  <2>2. QED
    BY <2>1, <1>1, <1>5, <1>8 DEF Unserved
<1>10. ASSUME NEW u \in Tables, u # t PROVE Unserved(u)' = Unserved(u)
  <2>1. /\ Len(arrived[u]) <= Len(arrived'[u])
        /\ \A i \in 1 .. Len(arrived'[u]) :
             Ended(arrived[u][i])' <=> i <= Len(arrived[u]) /\ Ended(arrived[u][i])
    <3>1. /\ arrived[u] \in Seq(Ops) /\ Len(arrived[u]) \in Nat /\ arrived'[u] = arrived[u]
          /\ \A i \in 1 .. Len(arrived[u]) : arrived[u][i] \in Ops \ {o}
      <4>1. arrived[u] \in Seq(Ops) /\ arrived'[u] = arrived[u]
        BY <1>1, <1>2
      <4>2. Len(arrived[u]) \in Nat
        BY <4>1
      <4>3. ASSUME NEW i \in 1 .. Len(arrived[u]) PROVE arrived[u][i] \in Ops \ {o}
        <5>1. arrived[u][i] \in Ops /\ TableOf[arrived[u][i]] = u
          BY <1>7
        <5>2. arrived[u][i] # o
          BY <1>10, <5>1
        <5>3. QED
          BY <5>1, <5>2
      <4>4. QED
        BY <4>1, <4>2, <4>3
    <3>2. QED
      BY <3>1, <1>3 DEF Ended
  <2>2. Served(u)' = Served(u)
    BY <2>1, ServedStays
  <2>3. QED
    BY <2>2, <1>1 DEF Unserved
<1>11. [u \in Tables |-> Unserved(u)]' = [[u \in Tables |-> Unserved(u)] EXCEPT ![t] = Tail(@)]
  BY <1>2, <1>9, <1>10
<1>12. /\ {p \in Ops : state[p] = "running"}' = {p \in Ops : state[p] = "running"} \ {o}
       /\ o \in {p \in Ops : state[p] = "running"}
  BY <1>1, <1>2
<1>13. QED
  BY <1>11, <1>12 DEF Queue!End

\* The chain of promises is a queue per table of which only the head is carried out, what
\* the comment on withTableLock promises.
THEOREM LockIsAQueue == Spec => ImplementsQueue
<1>1. Init => Queue!Init
  <2> SUFFICES ASSUME Init PROVE Queue!Init
    OBVIOUS
  <2>1. \A t \in Tables : Unserved(t) = <<>>
    <3> SUFFICES ASSUME NEW t \in Tables PROVE Unserved(t) = <<>>
      OBVIOUS
    <3>1. arrived[t] = <<>> /\ DOMAIN arrived[t] = {}
      BY DEF Init
    <3>2. {i \in DOMAIN arrived[t] : Ended(arrived[t][i])} = {}
      BY <3>1
    <3>3. Served(t) = 0
      BY <3>2, FS_EmptySet DEF Served
    <3>4. SubSeq(arrived[t], 1, 0) = <<>>
      BY SubSeqEmpty
    <3>5. QED
      BY <3>1, <3>3, <3>4 DEF Unserved
  <2>2. {o \in Ops : state[o] = "running"} = {}
    BY DEF Init
  <2>3. QED
    BY <2>1, <2>2 DEF Queue!Init
<1>2. ListInv /\ ListInv' /\ [Next]_vars => [Queue!Next]_(Queue!vars)
  <2> SUFFICES ASSUME ListInv, ListInv', [Next]_vars PROVE [Queue!Next]_(Queue!vars)
    OBVIOUS
  <2>1. ASSUME NEW o \in Ops, Submit(o) \/ Start(o) \/ Finish(o) PROVE Queue!Next
    BY <2>1, SubmitArrives, StartBegins, FinishEnds DEF Queue!Next
  <2>2. CASE UNCHANGED vars
    <3>1. \A t : Unserved(t)' = Unserved(t)
      BY <2>2 DEF vars, Unserved, Served, Ended
    <3>2. QED
      BY <2>2, <3>1 DEF vars, Queue!vars
  <2>3. QED
    BY <2>1, <2>2 DEF Next, NoMoreRequests
<1>3. QED
  BY <1>1, <1>2, ListInvariant, PTL DEF Spec, ImplementsQueue, Queue!Spec

-----------------------------------------------------------------------------
(* The chat of a page.                                                     *)

\* Requests under the lock, and one page.
GatewaySpec == Init /\ GatewayInit /\ [][GatewayNext]_<<vars, gatewayVars>>

\* At most one message is stored and not emitted, by the request that holds the lock.
OneToEmit ==
  /\ said \subseteq Ops /\ IsFiniteSet(said) /\ emitted \in Nat
  /\ emitted <= rows /\ rows <= emitted + 1
  /\ emitted < rows => \E o \in said \cap ChatOps : TableOf[o] = Home /\ state[o] = "running"

\* A page that is about to join is connected, and in the room.
Joins ==
  /\ join \in {"none", "asked", "entered", "reading", "read", "joined"}
  /\ join # "none" => link = "up"
  /\ join \in {"entered", "reading", "read", "joined"} => inRoom = TRUE

Items == [kind : {"snapshot"}, version : Int] \cup [kind : {"history"}, list : Seq(Int)]
           \cup [kind : {"message"}, message : Int]

\* What is on its way, and when the history was read.
WireOK ==
  /\ wire \in Seq(Items) /\ version \in Int
  /\ window.from \in Nat /\ window.read \in Nat
  /\ join \in {"read", "joined"} => window.from <= window.read /\ window.from <= emitted
  /\ join = "read" => window.read <= rows

HistoryLength == IF window.read < HistoryLimit THEN window.read ELSE HistoryLimit

\* The list of a page that got the history when e messages had been emitted, and after it
\* the messages up to c.
ListUpTo(e, c) ==
  [i \in 1 .. HistoryLength + (c - e) |->
     IF i <= HistoryLength THEN i + (window.read - HistoryLength) ELSE e + (i - HistoryLength)]

IsMessage(i) == wire[i].kind = "message"

\* After place k of the wire come the messages from c + 1 on, in order, and no history.
OnTheWay(k, c) ==
  /\ \A i \in 1 .. Len(wire) : i > k => wire[i].kind # "history"
  /\ \A i \in 1 .. Len(wire) : i > k /\ IsMessage(i) => wire[i].message \in c + 1 .. emitted
  /\ \A m \in c + 1 .. emitted : \E i \in 1 .. Len(wire) :
       i > k /\ IsMessage(i) /\ wire[i].message = m
  /\ \A i, j \in 1 .. Len(wire) :
       k < i /\ i < j /\ IsMessage(i) /\ IsMessage(j) => wire[i].message < wire[j].message

\* The history is on its way, or listed.
HistoryAtPlace(k) == k \in 1 .. Len(wire) /\ wire[k] = [kind |-> "history", list |-> LastMessages(window.read)]

Lists(e) ==
  \/ \E k \in 1 .. Len(wire) : HistoryAtPlace(k) /\ OnTheWay(k, e)
  \/ \E c \in e .. emitted : chat = ListUpTo(e, c) /\ OnTheWay(0, c)

\* e messages had been emitted when the history was.
EmittedThen(e) ==
  /\ window.from <= e /\ e <= emitted /\ window.to \in Nat
  /\ window.read <= window.to /\ e <= window.to /\ window.to <= e + 1

ChatFollows == join = "joined" => \E e \in Nat : EmittedThen(e) /\ Lists(e)

ChatInv == IInv /\ OneToEmit /\ Joins /\ WireOK /\ ChatFollows

\* The invariant of the chat holds at the start.
LEMMA InitChat == Init /\ GatewayInit => ChatInv
<1> SUFFICES ASSUME Init, GatewayInit PROVE ChatInv
  OBVIOUS
<1>1. OneToEmit
  <2>1. rows = 0 /\ IsFiniteSet(said)
    BY FS_EmptySet DEF GatewayInit, rows
  <2>2. QED
    BY <2>1 DEF OneToEmit, GatewayInit
<1>2. Joins /\ WireOK /\ ChatFollows
  <2>1. /\ join = "none" /\ wire = <<>> /\ version = 0
        /\ window = [from |-> 0, read |-> 0, to |-> 0]
    BY DEF GatewayInit
  <2>2. QED
    BY <2>1 DEF Joins, WireOK, ChatFollows
<1>3. QED
  BY <1>1, <1>2, InitIInv DEF ChatInv

\* A step that leaves the page's messages alone keeps the list.
LEMMA ChatStays ==
  ASSUME ChatFollows, UNCHANGED <<wire, chat, window, emitted>>, join' = join \/ join' # "joined"
  PROVE  ChatFollows'
<1> SUFFICES ASSUME join' = "joined" PROVE ChatFollows'
  BY DEF ChatFollows
<1>1. wire' = wire /\ chat' = chat /\ window' = window /\ emitted' = emitted /\ join = "joined"
  OBVIOUS
<1>2. PICK e \in Nat : EmittedThen(e) /\ Lists(e)
  BY <1>1 DEF ChatFollows
<1>3. EmittedThen(e)'
  BY <1>1, <1>2 DEF EmittedThen
<1>4. \A k, c : OnTheWay(k, c)' <=> OnTheWay(k, c)
  BY <1>1, Zenon DEF OnTheWay, IsMessage
<1>5. \A k, c : (HistoryAtPlace(k)' <=> HistoryAtPlace(k)) /\ ListUpTo(e, c)' = ListUpTo(e, c)
  BY <1>1, Zenon DEF HistoryAtPlace, ListUpTo, HistoryLength
<1>6. Lists(e)'
  BY <1>1, <1>2, <1>4, <1>5, Zenon DEF Lists
<1>7. QED
  BY <1>2, <1>3, <1>6 DEF ChatFollows

\* Steps of the lock leave everything else alone; a request that sends a message does not
\* end before it has emitted it.
LEMMA LockedChat ==
  ASSUME ChatInv, Locked, UNCHANGED gatewayVars
  PROVE  ChatInv'
<1>1. UNCHANGED <<wire, chat, window, emitted, join, link, inRoom, said, version>>
  BY DEF gatewayVars, table, messages, socket, page
<1>2. PICK o \in Requests : Submit(o) \/ Start(o) \/ EndRequest(o)
  BY DEF Locked
<1>3. o \in Ops /\ TableOf[o] = Home
  BY DEF Requests
<1>4. IInv'
  BY <1>2, <1>3, NextIInv DEF Next, EndRequest, ChatInv
<1>5. OneToEmit'
  <2>1. rows' = rows
    BY <1>1 DEF rows
  <2>2. ASSUME emitted < rows
        PROVE  \E p \in said \cap ChatOps : TableOf[p] = Home /\ state'[p] = "running"
    <3>1. PICK p \in said \cap ChatOps : TableOf[p] = Home /\ state[p] = "running"
      BY <2>2 DEF ChatInv, OneToEmit
    <3>2. p \in Ops /\ state \in [Ops -> {"new", "waiting", "running", "done", "failed"}]
      BY DEF ChatInv, OneToEmit, IInv, TypeOK
    <3>3. o # p \/ ~EndRequest(o)
      BY <2>2, <3>1 DEF EndRequest, ChatInv, OneToEmit
    <3>4. state'[p] = "running"
      BY <1>2, <3>1, <3>2, <3>3 DEF Submit, Start, EndRequest, Finish
    <3>5. QED
      BY <3>1, <3>4
  <2>3. QED
    BY <1>1, <2>1, <2>2 DEF ChatInv, OneToEmit
<1>6. Joins' /\ WireOK'
  <2>1. rows' = rows
    BY <1>1 DEF rows
  <2>2. QED
    BY <1>1, <2>1 DEF ChatInv, Joins, WireOK
<1>7. ChatFollows'
  BY <1>1, ChatStays DEF ChatInv
<1>8. QED
  BY <1>4, <1>5, <1>6, <1>7 DEF ChatInv

\* A message is stored only when the one before has been emitted.
LEMMA StoreChat ==
  ASSUME ChatInv, UNCHANGED vars, NEW o \in Requests, StoreMessage(o)
  PROVE  ChatInv'
<1>1. /\ state[o] = "running" /\ o \in ChatOps /\ o \notin said /\ said' = said \cup {o}
      /\ UNCHANGED <<wire, chat, window, emitted, join, link, inRoom, version>>
  BY DEF StoreMessage, table, socket, page
<1>2. IInv'
  BY UnchangedIInv DEF ChatInv
<1>3. o \in Ops /\ TableOf[o] = Home
  BY DEF Requests
<1>4. emitted = rows
  <2>1. ~(emitted < rows)
    <3> SUFFICES ASSUME emitted < rows PROVE FALSE
      OBVIOUS
    <3>1. PICK p \in said \cap ChatOps : TableOf[p] = Home /\ state[p] = "running"
      BY DEF ChatInv, OneToEmit
    <3>2. p \in Ops
      BY DEF ChatInv, OneToEmit
    <3>3. p = o
      BY <1>1, <1>3, <3>1, <3>2, OneRuns DEF ChatInv, MutualExclusion
    <3>4. QED
      BY <1>1, <3>1, <3>3
  <2>2. rows \in Nat /\ emitted \in Nat /\ emitted <= rows
    BY FS_CardinalityType DEF ChatInv, OneToEmit, rows
  <2>3. QED
    BY <2>1, <2>2
<1>5. rows' = rows + 1 /\ rows \in Nat /\ IsFiniteSet(said')
  BY <1>1, FS_AddElement, FS_CardinalityType DEF ChatInv, OneToEmit, rows
<1>6. OneToEmit'
  BY <1>1, <1>3, <1>4, <1>5 DEF ChatInv, OneToEmit, vars
<1>7. Joins' /\ WireOK'
  BY <1>1, <1>5 DEF ChatInv, Joins, WireOK
<1>8. ChatFollows'
  BY <1>1, ChatStays DEF ChatInv
<1>9. QED
  BY <1>2, <1>6, <1>7, <1>8 DEF ChatInv

\* The other steps of a request leave the page's messages alone.
LEMMA HandleChat ==
  ASSUME ChatInv, UNCHANGED vars, NEW o \in Requests, Manage(o) \/ Play(o) \/ Announce(o)
  PROVE  ChatInv'
<1>1. /\ UNCHANGED <<wire, chat, window, emitted, said, join, link, inRoom>>
      /\ version' \in Int
  BY DEF Manage, Play, Announce, Changed, messages, socket, page, ChatInv, WireOK
<1>2. IInv'
  BY UnchangedIInv DEF ChatInv
<1>3. rows' = rows
  BY <1>1 DEF rows
<1>4. OneToEmit' /\ Joins' /\ WireOK'
  BY <1>1, <1>3 DEF ChatInv, OneToEmit, Joins, WireOK, vars
<1>5. ChatFollows'
  BY <1>1, ChatStays DEF ChatInv
<1>6. QED
  BY <1>2, <1>4, <1>5 DEF ChatInv

\* A connection comes without messages, and goes with those on their way.
LEMMA ConnectionChat ==
  ASSUME ChatInv, UNCHANGED vars, Connection
  PROVE  ChatInv'
<1>1. UNCHANGED <<version, emitted, said, window>>
  BY DEF Connection, Bootstrap, Connect, Heal, Retry, Drop, Close, Open, LoseSession, table,
         messages, socket, Unplugged
<1>2. IInv'
  BY UnchangedIInv DEF ChatInv
<1>3. rows' = rows
  BY <1>1 DEF rows
<1>4. \/ UNCHANGED <<wire, chat, inRoom>> /\ join' = join /\ (join # "none" => link' = "up")
      \/ UNCHANGED <<wire, chat, inRoom>> /\ join' = "asked" /\ link' = "up"
      \/ join' = "none" /\ wire' = <<>>
      \/ join' = join /\ join = "none" /\ UNCHANGED <<wire, inRoom>>
  BY DEF Connection, Bootstrap, Connect, Heal, Retry, Drop, Close, Open, LoseSession,
         socket, page, Unplugged, Accepted, Refused, ChatInv, Joins
<1>5. OneToEmit'
  BY <1>1, <1>3 DEF ChatInv, OneToEmit, vars
<1>6. Joins'
  BY <1>4 DEF ChatInv, Joins
<1>7. WireOK'
  <2>1. wire' = wire \/ wire' = <<>>
    BY <1>4
  <2>2. wire' \in Seq(Items)
    BY <2>1, EmptySeq DEF ChatInv, WireOK
  <2>3. join' \in {"read", "joined"} => join' = join
    BY <1>4
  <2>4. QED
    BY <1>1, <1>3, <2>2, <2>3 DEF ChatInv, WireOK
<1>8. ChatFollows'
  <2>1. CASE UNCHANGED <<wire, chat, inRoom>> /\ (join' = join \/ join' = "asked")
    BY <2>1, <1>1, ChatStays DEF ChatInv
  <2>2. CASE join' # "joined"
    BY <2>2 DEF ChatFollows
  <2>3. QED
    BY <1>4, <2>1, <2>2
<1>9. QED
  BY <1>2, <1>5, <1>6, <1>7, <1>8 DEF ChatInv

\* A snapshot appended to the wire changes nothing of the list.
LEMMA SnapshotKeepsPlace ==
  ASSUME wire \in Seq(Items), NEW v \in Int, NEW k \in Nat, NEW c \in Int, OnTheWay(k, c),
         wire' = Append(wire, [kind |-> "snapshot", version |-> v]), emitted' = emitted
  PROVE  OnTheWay(k, c)'
<1>1. /\ Len(wire) \in Nat /\ Len(wire') = Len(wire) + 1
      /\ wire'[Len(wire) + 1].kind = "snapshot"
      /\ \A i \in 1 .. Len(wire) : wire'[i] = wire[i]
  OBVIOUS
<1>2. \A i \in 1 .. Len(wire') : i \in 1 .. Len(wire) \/ wire'[i].kind = "snapshot"
  BY <1>1
<1>3. \A i \in 1 .. Len(wire) : i \in 1 .. Len(wire')
  BY <1>1
<1>4. QED
  BY <1>1, <1>2, <1>3, SMTT(30) DEF OnTheWay, IsMessage

\* Nor does what is appended afterwards move what is on the wire.
LEMMA PlacesStay ==
  ASSUME wire \in Seq(Items), NEW it, wire' = Append(wire, it), window' = window,
         NEW k, HistoryAtPlace(k)
  PROVE  HistoryAtPlace(k)'
BY DEF HistoryAtPlace, LastMessages

\* A broadcast.
LEMMA BroadcastChat ==
  ASSUME ChatInv, UNCHANGED vars, Broadcast
  PROVE  ChatInv'
<1>1. /\ UNCHANGED <<chat, window, emitted, said, join, link, inRoom, version>>
      /\ wire' = Append(wire, [kind |-> "snapshot", version |-> version])
  BY DEF Broadcast, TakeSnapshot, table, messages, page
<1>2. /\ IInv' /\ rows' = rows /\ wire \in Seq(Items) /\ version \in Int
  BY <1>1, UnchangedIInv DEF ChatInv, rows, WireOK
<1>3. wire' \in Seq(Items)
  <2>1. [kind |-> "snapshot", version |-> version] \in Items
    BY <1>2 DEF Items
  <2>2. QED
    BY <1>1, <1>2, <2>1
<1>4. OneToEmit' /\ Joins' /\ WireOK'
  BY <1>1, <1>2, <1>3 DEF ChatInv, OneToEmit, Joins, WireOK, vars
<1>5. ChatFollows'
  <2> SUFFICES ASSUME join' = "joined" PROVE \E e \in Nat : EmittedThen(e)' /\ Lists(e)'
    BY DEF ChatFollows
  <2>1. PICK e \in Nat : EmittedThen(e) /\ Lists(e)
    BY <1>1 DEF ChatInv, ChatFollows
  <2>2. EmittedThen(e)'
    BY <1>1, <2>1 DEF EmittedThen
  <2>3. ASSUME NEW k \in 1 .. Len(wire), HistoryAtPlace(k), OnTheWay(k, e) PROVE Lists(e)'
    <3>1. HistoryAtPlace(k)'
      BY <1>1, <1>2, <2>3, PlacesStay
    <3>2. OnTheWay(k, e)'
      BY <1>1, <1>2, <2>3, SnapshotKeepsPlace
    <3>3. QED
      BY <3>1, <3>2 DEF Lists, HistoryAtPlace
  <2>4. ASSUME NEW c \in e .. emitted, chat = ListUpTo(e, c), OnTheWay(0, c) PROVE Lists(e)'
    <3>1. OnTheWay(0, c)'
      BY <1>1, <1>2, <2>4, SnapshotKeepsPlace
    <3>2. ListUpTo(e, c)' = ListUpTo(e, c)
      BY <1>1, Zenon DEF ListUpTo, HistoryLength
    <3>3. QED
      BY <1>1, <2>4, <3>1, <3>2 DEF Lists
  <2>5. QED
    BY <2>1, <2>2, <2>3, <2>4 DEF Lists
<1>6. QED
  BY <1>2, <1>4, <1>5 DEF ChatInv

\* The next message goes after the ones before it.
LEMMA MessageKeepsPlace ==
  ASSUME wire \in Seq(Items), emitted \in Nat, NEW k \in Nat, k <= Len(wire),
         NEW c \in Nat, c <= emitted, OnTheWay(k, c),
         wire' = Append(wire, [kind |-> "message", message |-> emitted + 1]), emitted' = emitted + 1
  PROVE  OnTheWay(k, c)'
<1> DEFINE n == Len(wire)
<1>1. /\ n \in Nat /\ Len(wire') = n + 1
      /\ wire'[n + 1].kind = "message" /\ wire'[n + 1].message = emitted + 1
      /\ \A i \in 1 .. n : wire'[i] = wire[i]
  OBVIOUS
<1>2. \A i \in 1 .. Len(wire') : i \in 1 .. n \/ i = n + 1
  BY <1>1
<1>3. \A i \in 1 .. Len(wire') : i > k => wire'[i].kind # "history"
  BY <1>1, <1>2 DEF OnTheWay
<1>4. \A i \in 1 .. Len(wire') : i > k /\ wire'[i].kind = "message" => wire'[i].message \in c + 1 .. emitted'
  <2> SUFFICES ASSUME NEW i \in 1 .. Len(wire'), i > k, wire'[i].kind = "message"
               PROVE  wire'[i].message \in c + 1 .. emitted'
    OBVIOUS
  <2>1. CASE i \in 1 .. n
    <3>1. wire[i].message \in c + 1 .. emitted /\ wire'[i] = wire[i]
      BY <2>1, <1>1 DEF OnTheWay, IsMessage
    <3>2. QED
      BY <3>1
  <2>2. CASE i = n + 1
    BY <2>2, <1>1
  <2>3. QED
    BY <1>2, <2>1, <2>2
<1>5. \A m \in c + 1 .. emitted' : \E i \in 1 .. Len(wire') :
        i > k /\ wire'[i].kind = "message" /\ wire'[i].message = m
  <2> SUFFICES ASSUME NEW m \in c + 1 .. emitted'
               PROVE  \E i \in 1 .. Len(wire') : i > k /\ wire'[i].kind = "message" /\ wire'[i].message = m
    OBVIOUS
  <2>1. CASE m = emitted + 1
    <3>1. n + 1 \in 1 .. Len(wire') /\ n + 1 > k
      BY <1>1
    <3>2. QED
      BY <2>1, <3>1, <1>1
  <2>2. CASE m \in c + 1 .. emitted
    <3>1. PICK i \in 1 .. n : i > k /\ wire[i].kind = "message" /\ wire[i].message = m
      BY <2>2 DEF OnTheWay, IsMessage
    <3>2. i \in 1 .. Len(wire') /\ wire'[i] = wire[i]
      BY <1>1
    <3>3. QED
      BY <3>1, <3>2
  <2>3. QED
    BY <2>1, <2>2
<1>6. \A i, j \in 1 .. Len(wire') :
        k < i /\ i < j /\ wire'[i].kind = "message" /\ wire'[j].kind = "message"
          => wire'[i].message < wire'[j].message
  <2> SUFFICES ASSUME NEW i \in 1 .. Len(wire'), NEW j \in 1 .. Len(wire'), k < i, i < j,
                      wire'[i].kind = "message", wire'[j].kind = "message"
               PROVE  wire'[i].message < wire'[j].message
    OBVIOUS
  <2>1. i \in 1 .. n
    BY <1>1, <1>2
  <2>2. wire'[i] = wire[i] /\ wire[i].message \in c + 1 .. emitted
    BY <2>1, <1>1 DEF OnTheWay, IsMessage
  <2>3. CASE j \in 1 .. n
    BY <2>1, <2>2, <2>3, <1>1 DEF OnTheWay, IsMessage
  <2>4. CASE j = n + 1
    BY <2>2, <2>4, <1>1
  <2>5. QED
    BY <1>2, <2>3, <2>4
<1>7. QED
  BY <1>3, <1>4, <1>5, <1>6 DEF OnTheWay, IsMessage

\* A message is emitted to a page in the room, if it is there.
LEMMA EmitChat ==
  ASSUME ChatInv, UNCHANGED vars, EmitMessage
  PROVE  ChatInv'
<1>1. /\ UNCHANGED <<chat, window, said, join, link, inRoom, version>>
      /\ emitted < rows /\ emitted' = emitted + 1
      /\ wire' = IF inRoom THEN Append(wire, [kind |-> "message", message |-> emitted + 1]) ELSE wire
  BY DEF EmitMessage, table, page
<1>2. /\ IInv' /\ rows' = rows /\ wire \in Seq(Items) /\ emitted \in Nat /\ rows \in Nat
      /\ rows <= emitted + 1
  BY <1>1, UnchangedIInv, FS_CardinalityType DEF ChatInv, OneToEmit, rows, WireOK
<1>3. wire' \in Seq(Items)
  <2>1. [kind |-> "message", message |-> emitted + 1] \in Items
    BY <1>2 DEF Items
  <2>2. QED
    BY <1>1, <1>2, <2>1
<1>4. OneToEmit' /\ Joins' /\ WireOK'
  BY <1>1, <1>2, <1>3 DEF ChatInv, OneToEmit, Joins, WireOK
<1>5. ChatFollows'
  <2> SUFFICES ASSUME join' = "joined" PROVE \E e \in Nat : EmittedThen(e)' /\ Lists(e)'
    BY DEF ChatFollows
  <2>1. PICK e \in Nat : EmittedThen(e) /\ Lists(e)
    BY <1>1 DEF ChatInv, ChatFollows
  <2>2. EmittedThen(e)' /\ e <= emitted
    BY <1>1, <1>2, <2>1 DEF EmittedThen
  <2>3. wire' = Append(wire, [kind |-> "message", message |-> emitted + 1])
    BY <1>1 DEF ChatInv, Joins
  <2>4. ASSUME NEW k \in 1 .. Len(wire), HistoryAtPlace(k), OnTheWay(k, e) PROVE Lists(e)'
    <3>1. HistoryAtPlace(k)'
      BY <1>1, <1>2, <2>3, <2>4, PlacesStay
    <3>2. k \in Nat /\ k <= Len(wire)
      BY <1>2
    <3>3. OnTheWay(k, e)'
      BY <1>1, <1>2, <2>2, <2>3, <2>4, <3>2, MessageKeepsPlace
    <3>4. QED
      BY <3>1, <3>3 DEF Lists, HistoryAtPlace
  <2>5. ASSUME NEW c \in e .. emitted, chat = ListUpTo(e, c), OnTheWay(0, c) PROVE Lists(e)'
    <3>1. c \in Nat /\ c <= emitted /\ 0 <= Len(wire) /\ c \in e .. emitted'
      BY <1>1, <1>2, <2>5
    <3>2. OnTheWay(0, c)'
      BY <1>1, <1>2, <2>3, <2>5, <3>1, MessageKeepsPlace
    <3>3. ListUpTo(e, c)' = ListUpTo(e, c)
      BY <1>1, Zenon DEF ListUpTo, HistoryLength
    <3>4. QED
      BY <1>1, <2>5, <3>1, <3>2, <3>3 DEF Lists
  <2>6. QED
    BY <2>1, <2>2, <2>4, <2>5 DEF Lists
<1>6. QED
  BY <1>2, <1>4, <1>5 DEF ChatInv

\* Joining: from the history on, the list of the page is known.
LEMMA JoiningChat ==
  ASSUME ChatInv, UNCHANGED vars, Joining
  PROVE  ChatInv'
<1>1. UNCHANGED <<chat, emitted, said, link, version>> /\ UNCHANGED rows
  BY DEF Joining, JoinRoom, JoinSnapshot, ReadHistory, JoinHistory, table, messages, page, rows
<1>2. /\ IInv' /\ wire \in Seq(Items) /\ emitted \in Nat /\ rows \in Nat /\ version \in Int
      /\ emitted <= rows /\ rows <= emitted + 1
  BY UnchangedIInv, FS_CardinalityType DEF ChatInv, OneToEmit, rows, WireOK
<1>3. OneToEmit'
  BY <1>1 DEF ChatInv, OneToEmit, vars
<1>4. Joins'
  BY <1>1 DEF ChatInv, Joins, Joining, JoinRoom, JoinSnapshot, ReadHistory, JoinHistory
<1>5. CASE JoinRoom \/ JoinSnapshot
  <2>1. join' \notin {"read", "joined"} /\ window' = window
        /\ (wire' = wire \/ wire' = Append(wire, [kind |-> "snapshot", version |-> version]))
    BY <1>5 DEF JoinRoom, JoinSnapshot, TakeSnapshot
  <2>2. [kind |-> "snapshot", version |-> version] \in Items
    BY <1>2 DEF Items
  <2>3. wire' \in Seq(Items)
    BY <1>2, <2>1, <2>2
  <2>4. WireOK' /\ ChatFollows'
    BY <1>1, <2>1, <2>3 DEF ChatInv, WireOK, ChatFollows
  <2>5. QED
    BY <1>2, <1>3, <1>4, <2>4 DEF ChatInv
<1>6. CASE ReadHistory
  <2>1. join' = "read" /\ wire' = wire /\ window' = [from |-> emitted, read |-> rows, to |-> rows]
    BY <1>6 DEF ReadHistory
  <2>2. WireOK' /\ ChatFollows'
    BY <1>1, <1>2, <2>1 DEF ChatInv, WireOK, ChatFollows
  <2>3. QED
    BY <1>2, <1>3, <1>4, <2>2 DEF ChatInv
<1>7. CASE JoinHistory
  <2> DEFINE it == [kind |-> "history", list |-> LastMessages(window.read)]
  <2>0. PICK n \in Nat, e \in Nat : n = Len(wire) + 1 /\ e = emitted
    BY <1>2
  <2>1. /\ join = "read" /\ join' = "joined" /\ wire' = Append(wire, it)
        /\ window' = [window EXCEPT !.to = rows]
    BY <1>7 DEF JoinHistory
  <2>2. it \in Items
    <3>1. LastMessages(window.read) \in Seq(Int)
      BY LimitAssumption DEF LastMessages, ChatInv, WireOK
    <3>2. QED
      BY <3>1 DEF Items
  <2>3. wire' \in Seq(Items) /\ Len(wire') = n /\ wire'[n] = it /\ n \in 1 .. Len(wire')
    BY <1>2, <2>0, <2>1, <2>2
  <2>4. window'.from = window.from /\ window'.read = window.read /\ window'.to = rows
    BY <2>1 DEF ChatInv, WireOK
  <2>5. WireOK'
    BY <1>1, <1>2, <2>1, <2>3, <2>4 DEF ChatInv, WireOK
  <2>6. EmittedThen(e)'
    BY <1>1, <1>2, <2>0, <2>1, <2>4 DEF EmittedThen, ChatInv, WireOK
  <2>7. HistoryAtPlace(n)'
    BY <2>3, <2>4 DEF HistoryAtPlace, LastMessages
  <2>8. OnTheWay(n, e)'
    BY <1>1, <1>2, <2>0, <2>3 DEF OnTheWay
  <2>9. Lists(e)'
    BY <2>3, <2>7, <2>8 DEF Lists
  <2>10. ChatFollows'
    BY <2>6, <2>9 DEF ChatFollows
  <2>11. QED
    BY <1>2, <1>3, <1>4, <2>5, <2>10 DEF ChatInv
<1>8. QED
  BY <1>5, <1>6, <1>7 DEF Joining

\* The wire without its first item.
LEMMA WireMovesOn ==
  ASSUME wire \in Seq(Items), wire # <<>>, wire' = Tail(wire)
  PROVE  /\ Len(wire) \in Nat /\ Len(wire') = Len(wire) - 1 /\ wire' \in Seq(Items)
         /\ Head(wire) = wire[1] /\ wire[1] \in Items
         /\ \A i \in 1 .. Len(wire') : wire'[i] = wire[i + 1]
<1>1. /\ Tail(wire) \in Seq(Items) /\ Len(Tail(wire)) = Len(wire) - 1
      /\ \A i \in 1 .. Len(Tail(wire)) : Tail(wire)[i] = wire[i + 1]
  BY HeadTailProperties
<1>2. Len(wire) \in Nat /\ Head(wire) = wire[1] /\ wire[1] \in Items
  OBVIOUS
<1>3. QED
  BY <1>1, <1>2

\* Items behind the first come one place nearer.
LEMMA ComesNearer ==
  ASSUME wire \in Seq(Items), wire # <<>>, wire' = Tail(wire), emitted' = emitted,
         NEW k \in Nat, NEW l \in Nat, k = l + 1, NEW c \in Nat, OnTheWay(k, c)
  PROVE  OnTheWay(l, c)'
<1>1. /\ Len(wire) \in Nat /\ Len(wire') = Len(wire) - 1
      /\ \A i \in 1 .. Len(wire') : wire'[i] = wire[i + 1] /\ i + 1 \in 1 .. Len(wire)
  BY WireMovesOn
<1>2. \A i \in 1 .. Len(wire') : i > l => wire'[i].kind # "history"
  BY <1>1 DEF OnTheWay
<1>3. \A i \in 1 .. Len(wire') : i > l /\ wire'[i].kind = "message" => wire'[i].message \in c + 1 .. emitted
  BY <1>1 DEF OnTheWay, IsMessage
<1>4. \A m \in c + 1 .. emitted : \E i \in 1 .. Len(wire') :
        i > l /\ wire'[i].kind = "message" /\ wire'[i].message = m
  <2> SUFFICES ASSUME NEW m \in c + 1 .. emitted
               PROVE  \E i \in 1 .. Len(wire') : i > l /\ wire'[i].kind = "message" /\ wire'[i].message = m
    OBVIOUS
  <2>1. PICK i \in 1 .. Len(wire) : i > k /\ wire[i].kind = "message" /\ wire[i].message = m
    BY DEF OnTheWay, IsMessage
  <2>2. i - 1 \in 1 .. Len(wire') /\ i - 1 > l /\ wire'[i - 1] = wire[i]
    BY <1>1, <2>1
  <2>3. QED
    BY <2>1, <2>2
<1>5. \A i, j \in 1 .. Len(wire') :
        l < i /\ i < j /\ wire'[i].kind = "message" /\ wire'[j].kind = "message"
          => wire'[i].message < wire'[j].message
  <2> SUFFICES ASSUME NEW i \in 1 .. Len(wire'), NEW j \in 1 .. Len(wire'), l < i, i < j,
                      wire'[i].kind = "message", wire'[j].kind = "message"
               PROVE  wire'[i].message < wire'[j].message
    OBVIOUS
  <2>1. /\ i + 1 \in 1 .. Len(wire) /\ j + 1 \in 1 .. Len(wire) /\ k < i + 1 /\ i + 1 < j + 1
        /\ wire[i + 1].kind = "message" /\ wire[j + 1].kind = "message"
    BY <1>1
  <2>2. wire[i + 1].message < wire[j + 1].message
    BY <2>1, Zenon DEF OnTheWay, IsMessage
  <2>3. QED
    BY <2>2, <1>1
<1>6. QED
  BY <1>2, <1>3, <1>4, <1>5 DEF OnTheWay, IsMessage

\* The first item, when no history is to come: a snapshot, or the next message.
LEMMA FirstOnTheWay ==
  ASSUME wire \in Seq(Items), wire # <<>>, emitted \in Nat, NEW c \in Nat, OnTheWay(0, c)
  PROVE  /\ wire[1].kind # "history"
         /\ wire[1].kind # "message" => OnTheWay(1, c)
         /\ wire[1].kind = "message" => /\ wire[1].message = c + 1 /\ c + 1 <= emitted
                                        /\ OnTheWay(1, c + 1)
<1>1. Len(wire) \in Nat /\ 1 \in 1 .. Len(wire)
  OBVIOUS
<1>2. /\ \A i \in 1 .. Len(wire) : wire[i].kind # "history"
      /\ \A i \in 1 .. Len(wire) : wire[i].kind = "message" => wire[i].message \in c + 1 .. emitted
      /\ \A m \in c + 1 .. emitted : \E i \in 1 .. Len(wire) : wire[i].kind = "message" /\ wire[i].message = m
      /\ \A i, j \in 1 .. Len(wire) :
           i < j /\ wire[i].kind = "message" /\ wire[j].kind = "message" => wire[i].message < wire[j].message
  BY <1>1 DEF OnTheWay, IsMessage
<1>3. ASSUME wire[1].kind # "message" PROVE OnTheWay(1, c)
  <2>1. ASSUME NEW m \in c + 1 .. emitted
        PROVE  \E i \in 1 .. Len(wire) : i > 1 /\ wire[i].kind = "message" /\ wire[i].message = m
    <3>1. PICK i \in 1 .. Len(wire) : wire[i].kind = "message" /\ wire[i].message = m
      BY <1>2
    <3>2. i > 1
      BY <1>3, <3>1
    <3>3. QED
      BY <3>1, <3>2
  <2>2. QED
    BY <1>1, <1>2, <2>1 DEF OnTheWay, IsMessage
<1>4. ASSUME wire[1].kind = "message"
      PROVE  wire[1].message = c + 1 /\ c + 1 <= emitted /\ OnTheWay(1, c + 1)
  <2>1. wire[1].message \in c + 1 .. emitted
    BY <1>1, <1>2, <1>4
  <2>2. wire[1].message = c + 1
    <3>1. PICK i \in 1 .. Len(wire) : wire[i].kind = "message" /\ wire[i].message = c + 1
      BY <1>2, <2>1
    <3>2. i = 1 \/ wire[1].message < c + 1
      BY <1>1, <1>2, <1>4, <3>1
    <3>3. QED
      BY <2>1, <3>1, <3>2
  <2>3. \A i \in 1 .. Len(wire) : i > 1 /\ wire[i].kind = "message" => wire[i].message \in c + 1 + 1 .. emitted
    <3> SUFFICES ASSUME NEW i \in 1 .. Len(wire), i > 1, wire[i].kind = "message"
                 PROVE  wire[i].message \in c + 1 + 1 .. emitted
      OBVIOUS
    <3>1. wire[1].message < wire[i].message /\ wire[i].message \in c + 1 .. emitted
      BY <1>1, <1>2, <1>4
    <3>2. QED
      BY <2>2, <3>1
  <2>4. ASSUME NEW m \in c + 1 + 1 .. emitted
        PROVE  \E i \in 1 .. Len(wire) : i > 1 /\ wire[i].kind = "message" /\ wire[i].message = m
    <3>1. PICK i \in 1 .. Len(wire) : wire[i].kind = "message" /\ wire[i].message = m
      BY <1>2
    <3>2. i > 1
      BY <2>2, <3>1
    <3>3. QED
      BY <3>1, <3>2
  <2>5. OnTheWay(1, c + 1)
    BY <1>1, <1>2, <2>3, <2>4 DEF OnTheWay, IsMessage
  <2>6. QED
    BY <2>1, <2>2, <2>5
<1>5. QED
  BY <1>1, <1>2, <1>3, <1>4

\* The list has a place for each message of the history and each one after it.
LEMMA ListIs ==
  ASSUME window.read \in Nat, NEW e \in Nat, NEW c \in Nat, e <= c
  PROVE  /\ HistoryLength \in 0 .. window.read
         /\ ListUpTo(e, c) \in Seq(Int) /\ Len(ListUpTo(e, c)) = HistoryLength + (c - e)
         /\ \A i \in 1 .. HistoryLength + (c - e) :
              ListUpTo(e, c)[i] = IF i <= HistoryLength THEN i + (window.read - HistoryLength)
                                                        ELSE e + (i - HistoryLength)
<1>1. HistoryLength \in 0 .. window.read
  BY LimitAssumption DEF HistoryLength
<1> DEFINE h == HistoryLength
           r == window.read
<1>2. h \in Nat /\ r \in Int /\ h + (c - e) \in Nat
  BY <1>1
<1>3. ListUpTo(e, c) = [i \in 1 .. h + (c - e) |-> IF i <= h THEN i + (r - h) ELSE e + (i - h)]
  BY DEF ListUpTo
<1> HIDE DEF h, r
<1>4. /\ ListUpTo(e, c) \in Seq(Int) /\ Len(ListUpTo(e, c)) = h + (c - e)
      /\ \A i \in 1 .. h + (c - e) :
           ListUpTo(e, c)[i] = IF i <= h THEN i + (r - h) ELSE e + (i - h)
  BY <1>2, <1>3
<1>5. QED
  BY <1>1, <1>4 DEF h, r

\* The next message makes the list one longer.
LEMMA ListGrows ==
  ASSUME window.read \in Nat, NEW e \in Nat, NEW c \in Nat, e <= c
  PROVE  Append(ListUpTo(e, c), c + 1) = ListUpTo(e, c + 1)
<1> DEFINE h == HistoryLength
           r == window.read
           s == ListUpTo(e, c)
           l == ListUpTo(e, c + 1)
<1>1. /\ h \in Nat /\ r \in Nat /\ s \in Seq(Int) /\ Len(s) = h + (c - e)
      /\ \A i \in 1 .. h + (c - e) : s[i] = IF i <= h THEN i + (r - h) ELSE e + (i - h)
  BY ListIs
<1>0. PICK d \in Nat : d = c + 1 /\ e <= d
  OBVIOUS
<1>2. /\ l \in Seq(Int) /\ Len(l) = h + (c + 1 - e)
      /\ \A i \in 1 .. h + (c + 1 - e) : l[i] = IF i <= h THEN i + (r - h) ELSE e + (i - h)
  <2>1. /\ ListUpTo(e, d) \in Seq(Int) /\ Len(ListUpTo(e, d)) = HistoryLength + (d - e)
        /\ \A i \in 1 .. HistoryLength + (d - e) :
             ListUpTo(e, d)[i] = IF i <= HistoryLength THEN i + (window.read - HistoryLength)
                                                       ELSE e + (i - HistoryLength)
    BY <1>0, ListIs
  <2>2. QED
    BY <1>0, <2>1
<1> HIDE DEF h, r, s, l
<1>3. /\ Append(s, c + 1) \in Seq(Int) /\ Len(Append(s, c + 1)) = Len(s) + 1
      /\ Append(s, c + 1)[Len(s) + 1] = c + 1
      /\ \A i \in 1 .. Len(s) : Append(s, c + 1)[i] = s[i]
  BY <1>1
<1>4. Len(Append(s, c + 1)) = Len(l)
  BY <1>1, <1>2, <1>3
<1>5. \A i \in 1 .. Len(l) : Append(s, c + 1)[i] = l[i]
  <2> SUFFICES ASSUME NEW i \in 1 .. Len(l) PROVE Append(s, c + 1)[i] = l[i]
    OBVIOUS
  <2>1. CASE i \in 1 .. Len(s)
    BY <2>1, <1>1, <1>2, <1>3
  <2>2. CASE i = Len(s) + 1
    <3>1. l[i] = c + 1
      BY <2>2, <1>1, <1>2
    <3>2. QED
      BY <2>2, <3>1, <1>3
  <2>3. QED
    BY <2>1, <2>2, <1>1, <1>2
<1>6. Append(s, c + 1) = l
  BY <1>1, <1>2, <1>3, <1>4, <1>5, SeqEqual
<1>7. QED
  BY <1>6 DEF s, l

\* What arrives at the page.
LEMMA DeliverChat ==
  ASSUME ChatInv, UNCHANGED vars, Deliver
  PROVE  ChatInv'
<1>1. /\ UNCHANGED <<emitted, said, join, link, inRoom, version, window>>
      /\ wire # <<>> /\ wire' = Tail(wire)
      /\ chat' = CASE Head(wire).kind = "history" -> Head(wire).list
                   [] Head(wire).kind = "message" -> Append(chat, Head(wire).message)
                   [] OTHER -> chat
  BY DEF Deliver, table, messages
<1>2. /\ IInv' /\ rows' = rows /\ wire \in Seq(Items) /\ emitted \in Nat /\ window.read \in Nat
  BY <1>1, UnchangedIInv DEF ChatInv, OneToEmit, rows, WireOK
<1>3. /\ Len(wire) \in Nat /\ Len(wire') = Len(wire) - 1 /\ wire' \in Seq(Items)
      /\ Head(wire) = wire[1] /\ \A i \in 1 .. Len(wire') : wire'[i] = wire[i + 1]
  BY <1>1, <1>2, WireMovesOn
<1>4. OneToEmit' /\ Joins' /\ WireOK'
  BY <1>1, <1>2, <1>3 DEF ChatInv, OneToEmit, Joins, WireOK, vars
<1>5. ChatFollows'
  <2> SUFFICES ASSUME join' = "joined" PROVE \E e \in Nat : EmittedThen(e)' /\ Lists(e)'
    BY DEF ChatFollows
  <2>1. PICK e \in Nat : EmittedThen(e) /\ Lists(e)
    BY <1>1 DEF ChatInv, ChatFollows
  <2>2. EmittedThen(e)' /\ e <= emitted
    BY <1>1, <2>1 DEF EmittedThen
  <2>3. \A c : ListUpTo(e, c)' = ListUpTo(e, c)
    BY <1>1, Zenon DEF ListUpTo, HistoryLength
  <2>4. ASSUME NEW k \in 1 .. Len(wire), HistoryAtPlace(k), OnTheWay(k, e) PROVE Lists(e)'
    <3>0. PICK l \in Nat : k = l + 1 /\ k \in Nat
      <4>1. k - 1 \in Nat /\ k = (k - 1) + 1 /\ k \in Nat
        BY <1>3
      <4>2. QED
        BY <4>1
    <3>1. OnTheWay(l, e)'
      BY <1>1, <1>2, <2>4, <3>0, ComesNearer
    <3>2. CASE k = 1
      <4>1. chat' = LastMessages(window.read)
        BY <1>1, <1>3, <2>4, <3>2 DEF HistoryAtPlace
      <4>2. LastMessages(window.read) = ListUpTo(e, e)
        BY <1>2, LimitAssumption DEF LastMessages, ListUpTo, HistoryLength
      <4>3. e \in e .. emitted' /\ l = 0
        BY <1>1, <1>2, <2>2, <3>0, <3>2
      <4>4. QED
        BY <2>3, <3>1, <4>1, <4>2, <4>3 DEF Lists
    <3>3. CASE k # 1
      <4>1. l \in 1 .. Len(wire') /\ wire'[l] = wire[k]
        BY <1>3, <3>0, <3>3
      <4>2. HistoryAtPlace(l)'
        BY <1>1, <2>4, <4>1 DEF HistoryAtPlace, LastMessages
      <4>3. QED
        BY <3>1, <4>1, <4>2 DEF Lists
    <3>4. QED
      BY <3>2, <3>3
  <2>5. ASSUME NEW c \in e .. emitted, chat = ListUpTo(e, c), OnTheWay(0, c) PROVE Lists(e)'
    <3>0. c \in Nat /\ e <= c
      BY <2>5
    <3>1. /\ wire[1].kind # "history"
          /\ wire[1].kind # "message" => OnTheWay(1, c)
          /\ wire[1].kind = "message" => /\ wire[1].message = c + 1 /\ c + 1 <= emitted
                                         /\ OnTheWay(1, c + 1)
      BY <1>1, <1>2, <2>5, <3>0, FirstOnTheWay
    <3>2. CASE wire[1].kind = "message"
      <4>1. chat' = Append(chat, c + 1)
        BY <1>1, <1>3, <3>1, <3>2
      <4>2. chat' = ListUpTo(e, c + 1)
        BY <1>2, <2>5, <3>0, <4>1, ListGrows
      <4>3. OnTheWay(0, c + 1)'
        <5>1. PICK d \in Nat : d = c + 1
          BY <3>0
        <5>2. OnTheWay(1, d)
          BY <3>1, <3>2, <5>1
        <5>3. 1 = 0 + 1 /\ 1 \in Nat /\ 0 \in Nat
          OBVIOUS
        <5>4. OnTheWay(0, d)'
          BY <1>1, <1>2, <5>2, <5>3, ComesNearer
        <5>5. QED
          BY <5>1, <5>4
      <4>4. c + 1 \in e .. emitted'
        BY <1>1, <1>2, <3>0, <3>1, <3>2
      <4>5. QED
        BY <2>3, <4>2, <4>3, <4>4 DEF Lists
    <3>3. CASE wire[1].kind # "message"
      <4>1. chat' = chat
        BY <1>1, <1>3, <3>1, <3>3
      <4>2. OnTheWay(0, c)'
        <5>1. 1 = 0 + 1 /\ 1 \in Nat /\ 0 \in Nat
          OBVIOUS
        <5>2. QED
          BY <1>1, <1>2, <3>0, <3>1, <3>3, <5>1, ComesNearer
      <4>3. QED
        BY <1>1, <2>3, <2>5, <4>1, <4>2 DEF Lists
    <3>4. QED
      BY <3>2, <3>3
  <2>6. QED
    BY <2>1, <2>2, <2>4, <2>5 DEF Lists
<1>6. QED
  BY <1>2, <1>4, <1>5 DEF ChatInv

\* Every step of the server and the page keeps the invariant of the chat.
LEMMA NextChat == ChatInv /\ [GatewayNext]_<<vars, gatewayVars>> => ChatInv'
<1> SUFFICES ASSUME ChatInv, [GatewayNext]_<<vars, gatewayVars>> PROVE ChatInv'
  OBVIOUS
<1>1. CASE Locked /\ UNCHANGED gatewayVars
  BY <1>1, LockedChat
<1>2. CASE (Handled \/ Joining \/ Connection \/ Broadcast \/ EmitMessage \/ Deliver) /\ UNCHANGED vars
  BY <1>2, HandleChat, StoreChat, JoiningChat, ConnectionChat, BroadcastChat, EmitChat, DeliverChat
  DEF Handled
<1>3. CASE UNCHANGED <<vars, gatewayVars>>
  <2>1. UNCHANGED vars /\ UNCHANGED <<wire, chat, window, emitted, join, link, inRoom, said, version>>
    BY <1>3 DEF gatewayVars, table, messages, socket, page
  <2>2. IInv' /\ rows' = rows
    BY <2>1, UnchangedIInv DEF ChatInv, rows
  <2>3. OneToEmit' /\ Joins' /\ WireOK'
    BY <2>1, <2>2 DEF ChatInv, OneToEmit, Joins, WireOK, vars
  <2>4. ChatFollows'
    BY <2>1, ChatStays DEF ChatInv
  <2>5. QED
    BY <2>2, <2>3, <2>4 DEF ChatInv
<1>4. QED
  BY <1>1, <1>2, <1>3 DEF GatewayNext, NothingLeft

\* A message listed at one place only is counted once.
LEMMA ListedOnce ==
  ASSUME NEW s, NEW m, NEW i \in DOMAIN s, s[i] = m, \A j \in DOMAIN s : s[j] = m => j = i
  PROVE  Times(m, s) = 1
<1>1. {j \in DOMAIN s : s[j] = m} = {i}
  OBVIOUS
<1>2. QED
  BY <1>1, FS_Singleton DEF Times

\* One that is not listed is not.
LEMMA NotListed ==
  ASSUME NEW s, NEW m, \A j \in DOMAIN s : s[j] # m
  PROVE  Times(m, s) = 0
<1>1. {j \in DOMAIN s : s[j] = m} = {}
  OBVIOUS
<1>2. QED
  BY <1>1, FS_EmptySet DEF Times

\* However a page joins while messages are sent, whatever connections break and requests
\* throw, it lists the chat whole, for any number of requests and any length of the history.
THEOREM PagesListTheChat == GatewaySpec => []ChatIsWhole
<1>1. ChatInv => ChatIsWhole
  <2> SUFFICES ASSUME ChatInv, join = "joined", wire = <<>>
               PROVE  /\ \A m \in 1 .. emitted :
                           m <= window.from \/ m > window.to =>
                             Times(m, chat) = IF m > window.read - HistoryLimit THEN 1 ELSE 0
                      /\ \A i, k \in DOMAIN chat : i < k => chat[i] <= chat[k]
    BY DEF ChatIsWhole
  <2>1. PICK e \in Nat : EmittedThen(e) /\ Lists(e)
    BY DEF ChatInv, ChatFollows
  <2>2. Len(wire) = 0
    OBVIOUS
  <2>3. PICK c \in e .. emitted : chat = ListUpTo(e, c) /\ OnTheWay(0, c)
    BY <2>1, <2>2 DEF Lists
  <2>4. emitted \in Nat /\ window.read \in Nat /\ window.from \in Nat /\ window.from <= window.read
    BY DEF ChatInv, OneToEmit, WireOK
  <2>5. c = emitted /\ c \in Nat /\ e <= c
    <3>1. ~(c < emitted)
      <4> SUFFICES ASSUME c < emitted PROVE FALSE
        OBVIOUS
      <4>1. c + 1 \in c + 1 .. emitted
        BY <2>4
      <4>2. QED
        BY <2>2, <2>3, <4>1 DEF OnTheWay
    <3>2. QED
      BY <2>4, <3>1
  <2> DEFINE h == HistoryLength
             r == window.read
             L == HistoryLimit
             n == h + (c - e)
  <2>6. /\ h \in 0 .. r /\ chat \in Seq(Int) /\ Len(chat) = n /\ DOMAIN chat = 1 .. n
        /\ \A i \in 1 .. n : chat[i] = IF i <= h THEN i + (r - h) ELSE e + (i - h)
    <3>1. DOMAIN ListUpTo(e, c) = 1 .. n
      BY DEF ListUpTo
    <3>2. QED
      BY <3>1, <2>3, <2>4, <2>5, ListIs
  <2>7. L \in Nat \ {0} /\ h = IF r < L THEN r ELSE L
    BY LimitAssumption DEF HistoryLength
  <2>8. window.from <= e /\ r <= window.to /\ e <= window.to /\ window.to <= e + 1 /\ window.to \in Nat
    BY <2>1 DEF EmittedThen
  <2> HIDE DEF h, r, L, n
  <2>h. h \in Nat /\ r \in Nat /\ n \in Nat /\ n = h + (c - e) /\ h <= r
    BY <2>4, <2>5, <2>6 DEF n, r
  <2>v. \A j \in 1 .. n : j \in Nat /\ chat[j] \in Int /\ (j <= h => chat[j] = j + (r - h))
                           /\ (j > h => chat[j] = e + (j - h))
    BY <2>6, <2>h
  <2>L. L \in Nat \ {0} /\ h = IF r < L THEN r ELSE L
    BY <2>7
  <2>w. /\ window.from \in Nat /\ window.from <= r /\ window.from <= e /\ r <= window.to
        /\ e <= window.to /\ window.to <= e + 1 /\ window.to \in Nat
    BY <2>4, <2>8 DEF r
  <2>9. ASSUME NEW m \in 1 .. emitted, m <= window.from \/ m > window.to
        PROVE  Times(m, chat) = IF m > r - L THEN 1 ELSE 0
    <3>1. CASE m <= window.from /\ m > r - L
      <4>1. PICK i \in Int : i = m - (r - h)
        BY <2>h
      <4>2. i \in 1 .. h /\ i \in 1 .. n
        BY <3>1, <4>1, <2>h, <2>L, <2>w, <2>5
      <4>3. chat[i] = m
        BY <4>1, <4>2, <2>h, <2>v
      <4>4. ASSUME NEW j \in 1 .. n, chat[j] = m PROVE j = i
        BY <3>1, <4>1, <4>4, <2>h, <2>v, <2>w
      <4>5. Times(m, chat) = 1
        BY <4>2, <4>3, <4>4, <2>6, ListedOnce
      <4>6. QED
        BY <3>1, <4>5
    <3>2. CASE m > window.to
      <4>1. PICK i \in Int : i = (m - e) + h
        BY <2>h
      <4>2. i \in 1 .. n /\ i > h
        BY <3>2, <4>1, <2>4, <2>5, <2>h, <2>w
      <4>3. chat[i] = m
        BY <4>1, <4>2, <2>h, <2>v
      <4>4. ASSUME NEW j \in 1 .. n, chat[j] = m PROVE j = i
        BY <3>2, <4>1, <4>4, <2>h, <2>v, <2>w
      <4>5. Times(m, chat) = 1
        BY <4>2, <4>3, <4>4, <2>6, ListedOnce
      <4>6. m > r - L
        BY <3>2, <2>h, <2>L, <2>w
      <4>7. QED
        BY <4>5, <4>6
    <3>3. CASE m <= window.from /\ ~(m > r - L)
      <4>1. ASSUME NEW j \in 1 .. n, chat[j] = m PROVE FALSE
        BY <3>3, <4>1, <2>h, <2>v, <2>L, <2>w
      <4>2. Times(m, chat) = 0
        BY <4>1, <2>6, NotListed
      <4>3. QED
        BY <3>3, <4>2
    <3>4. QED
      BY <2>9, <3>1, <3>2, <3>3
  <2>10. ASSUME NEW i \in DOMAIN chat, NEW k \in DOMAIN chat, i < k PROVE chat[i] <= chat[k]
    <3>1. i \in 1 .. n /\ k \in 1 .. n
      BY <2>6
    <3>2. CASE k <= h
      BY <3>1, <3>2, <2>10, <2>h, <2>v
    <3>3. CASE i <= h /\ k > h
      <4>1. chat[i] <= r /\ e + 1 <= chat[k] /\ r <= e + 1
        BY <3>1, <3>3, <2>h, <2>v, <2>w, SMTT(30)
      <4>2. QED
        BY <3>1, <4>1, <2>h, <2>v
    <3>4. CASE i > h /\ k > h
      BY <3>1, <3>4, <2>10, <2>h, <2>v
    <3>5. QED
      BY <3>1, <3>2, <3>3, <3>4, <2>10, <2>h, <2>v
  <2>11. QED
    BY <2>9, <2>10 DEF r, L
<1>2. QED
  BY <1>1, InitChat, NextChat, PTL DEF GatewaySpec
=============================================================================
