------------------------------ MODULE TableLock -----------------------------
(***************************************************************************)
(* The lock of a table (TablesService.withTableLock, taken by              *)
(* TablesGateway.guard for every request): a chain of promises per table.  *)
(* A request is carried out when the promise it found at the end of the    *)
(* chain has settled, whether that request succeeded or threw.             *)
(***************************************************************************)
EXTENDS Integers, Sequences, FiniteSets

CONSTANTS
  Tables,
  Ops,          \* requests
  TableOf,      \* TableOf[o]: the table request o is for
  NoOp          \* Promise.resolve(), at the start of every chain

ASSUME TableOfAssumption == TableOf \in [Ops -> Tables]
ASSUME NoOpAssumption == NoOp \notin Ops

VARIABLES
  state,        \* state[o]: how far request o has got
  tail,         \* tail[t]: whose promise is at the end of t's chain (tableLocks)
  after,        \* after[o]: whose promise o waits for
  ticket,       \* history: how many requests for its table came before o
  arrived       \* history: the requests for each table in the order they came

vars == <<state, tail, after, ticket, arrived>>

Ended(o) == state[o] \in {"done", "failed"}
Started(o) == state[o] \in {"running", "done", "failed"}

\* Mutant: a promise that is rejected carries nobody on (tail.then(fn)).
SettledForThen(o) == o # NoOp => state[o] = "done"

\* tail.then(fn, fn) runs fn once tail has settled either way.
Settled(o) == o # NoOp => Ended(o)

\* Mutant: the chain is not extended.
Submit_Unchained(o) ==
  /\ state[o] = "new"
  /\ state' = [state EXCEPT ![o] = "waiting"]
  /\ after' = [after EXCEPT ![o] = tail[TableOf[o]]]
  /\ ticket' = [ticket EXCEPT ![o] = Len(arrived[TableOf[o]])]
  /\ arrived' = [arrived EXCEPT ![TableOf[o]] = Append(@, o)]
  /\ UNCHANGED tail

\* A request arrives: it is chained to the tail, and becomes the tail.
Submit(o) ==
  /\ state[o] = "new"
  /\ state' = [state EXCEPT ![o] = "waiting"]
  /\ after' = [after EXCEPT ![o] = tail[TableOf[o]]]
  /\ tail' = [tail EXCEPT ![TableOf[o]] = o]
  /\ ticket' = [ticket EXCEPT ![o] = Len(arrived[TableOf[o]])]
  /\ arrived' = [arrived EXCEPT ![TableOf[o]] = Append(@, o)]

\* Mutant: a request only looks whether its table's tail has settled.
Start_AtTail(o) ==
  /\ state[o] = "waiting"
  /\ tail[TableOf[o]] = o
  /\ state' = [state EXCEPT ![o] = "running"]
  /\ UNCHANGED <<tail, after, ticket, arrived>>

Start(o) ==
  /\ state[o] = "waiting"
  /\ Settled(after[o])
  /\ state' = [state EXCEPT ![o] = "running"]
  /\ UNCHANGED <<tail, after, ticket, arrived>>

\* fn resolves or throws; guard reports what it threw to the socket.
Finish(o) ==
  /\ state[o] = "running"
  /\ \E outcome \in {"done", "failed"} : state' = [state EXCEPT ![o] = outcome]
  /\ UNCHANGED <<tail, after, ticket, arrived>>

\* No request is left that could still come.
NoMoreRequests == (\A o \in Ops : state[o] # "new") /\ UNCHANGED vars

Init ==
  /\ state = [o \in Ops |-> "new"]
  /\ tail = [t \in Tables |-> NoOp]
  /\ after = [o \in Ops |-> NoOp]
  /\ ticket = [o \in Ops |-> 0]
  /\ arrived = [t \in Tables |-> <<>>]

Next == (\E o \in Ops : Submit(o) \/ Start(o) \/ Finish(o)) \/ NoMoreRequests

Spec == Init /\ [][Next]_vars

\* The event loop runs every callback that is due, and no request runs for ever.
FairSpec == Spec /\ \A o \in Ops : WF_vars(Start(o)) /\ WF_vars(Finish(o))

-----------------------------------------------------------------------------
(* Properties.                                                             *)

\* Types; a chain that was ever used ends in a request for its own table.
TypeOK ==
  /\ state \in [Ops -> {"new", "waiting", "running", "done", "failed"}]
  /\ tail \in [Tables -> Ops \cup {NoOp}]
  /\ \A t \in Tables : IF arrived[t] = <<>> THEN tail[t] = NoOp
                       ELSE tail[t] \in Ops /\ TableOf[tail[t]] = t
  /\ after \in [Ops -> Ops \cup {NoOp}]
  /\ ticket \in [Ops -> Nat] /\ arrived \in [Tables -> Seq(Ops)]

\* Two requests for the same table never interleave their reads and writes of its
\* live state (the comment on withTableLock).
MutualExclusion ==
  \A o, p \in Ops :
    state[o] = "running" /\ state[p] = "running" /\ TableOf[o] = TableOf[p] => o = p

\* Requests of a table are carried out in the order they came.
FirstComeFirstServed ==
  \A o, p \in Ops :
    TableOf[o] = TableOf[p] /\ Started(p) /\ state[o] # "new" /\ ticket[o] < ticket[p]
      => Ended(o)

\* Every request is carried out in the end, whatever those before it threw.
EveryRequestEnds == \A o \in Ops : (state[o] = "waiting") ~> Ended(o)

\* How many of the requests for t have ended.
Served(t) == Cardinality({i \in DOMAIN arrived[t] : Ended(arrived[t][i])})

\* Those that have come after them.
Unserved(t) == SubSeq(arrived[t], Served(t) + 1, Len(arrived[t]))

\* The chain implements a queue per table of which only the head is served.
Queue == INSTANCE TableQueue
           WITH queue <- [t \in Tables |-> Unserved(t)],
                running <- {o \in Ops : state[o] = "running"}
ImplementsQueue == Queue!Spec
=============================================================================
