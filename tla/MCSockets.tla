----------------------------- MODULE MCSockets -----------------------------
(* The lock alone, with four requests for one table and one for another; and  *)
(* a page at the first table, while requests change the table or send chat.   *)
EXTENDS Gateway

CONSTANTS a, b
FiveOps == 1 .. 5
TableOfFive == [o \in FiveOps |-> IF o <= 4 THEN a ELSE b]

VARIABLE part

socketsVars == <<vars, gatewayVars, part>>

SocketsInit ==
  /\ Init /\ GatewayInit
  /\ \/ part = "lock" /\ stored = "none" /\ cookie = "none"
     \/ part = "changes" /\ (stored = "none" \/ cookie = "none")
     \/ part = "messages" /\ stored = "live" /\ cookie = "live"

\* How a request ends makes no difference to the page.  The two requests that change the
\* table come one after the other; chat is watched with at most one mishap.
SocketsNext ==
  /\ UNCHANGED part
  /\ \/ part = "lock" /\ Next /\ UNCHANGED gatewayVars
     \/ /\ part = "changes" /\ GatewayNext
        /\ \A o \in ChatOps : state'[o] = "new"
        /\ \A o \in PlayOps : state'[o] # "new" => state[1] = "done"
     \/ /\ part = "messages" /\ GatewayNext
        /\ \A o \in Ops \ ChatOps : state'[o] = "new"
        /\ mishaps' < MaxMishaps
  /\ part # "lock" => \A o \in Ops : state'[o] # "failed"

LockStep(A) == A /\ UNCHANGED <<gatewayVars, part>>
PageStep(A) == part # "lock" /\ A /\ UNCHANGED <<vars, part>>

\* The event loop runs every callback that is due, no request runs for ever, what was
\* emitted over a connection that holds arrives, and the client goes on connecting.
SocketsSpec ==
  /\ SocketsInit /\ [][SocketsNext]_socketsVars
  /\ \A o \in Ops : /\ WF_socketsVars(LockStep(Start(o)))
                    /\ WF_socketsVars(LockStep(EndRequest(o)))
  /\ WF_socketsVars(PageStep(Bootstrap \/ Connect \/ Heal))
  /\ WF_socketsVars(PageStep(Joining))
  /\ WF_socketsVars(PageStep(Broadcast))
  /\ WF_socketsVars(PageStep(EmitMessage))
  /\ WF_socketsVars(PageStep(Deliver))
=============================================================================
