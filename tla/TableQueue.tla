----------------------------- MODULE TableQueue -----------------------------
(***************************************************************************)
(* What the table lock promises (the comment on withTableLock in           *)
(* apps/server/src/tables/tables.service.ts): the requests of one table    *)
(* run one at a time and in the order they came; tables do not wait for    *)
(* each other.                                                             *)
(***************************************************************************)
EXTENDS Sequences

CONSTANTS
  Tables,
  Ops,          \* requests
  TableOf       \* TableOf[o]: the table request o is for

VARIABLES
  queue,        \* queue[t]: the requests for t that have not ended, oldest first
  running       \* the requests being carried out

vars == <<queue, running>>

Init == queue = [t \in Tables |-> <<>>] /\ running = {}

Arrive(o) ==
  /\ queue' = [queue EXCEPT ![TableOf[o]] = Append(@, o)]
  /\ UNCHANGED running

Begin(o) ==
  /\ queue[TableOf[o]] # <<>> /\ Head(queue[TableOf[o]]) = o
  /\ o \notin running
  /\ running' = running \cup {o}
  /\ UNCHANGED queue

End(o) ==
  /\ o \in running
  /\ running' = running \ {o}
  /\ queue' = [queue EXCEPT ![TableOf[o]] = Tail(@)]

Next == \E o \in Ops : Arrive(o) \/ Begin(o) \/ End(o)
Spec == Init /\ [][Next]_vars
=============================================================================
