------------------------------ MODULE Gateway ------------------------------
(***************************************************************************)
(* What happens between the server and the page of one browser at the      *)
(* table Home: the page gets a session and connects (page.tsx, session.ts, *)
(* api.ts, useTableSocket.ts, TablesGateway.afterInit), joins the room of  *)
(* its table, and from then on is sent the table after every change and    *)
(* every chat message (TablesGateway).  Requests for Home are carried out  *)
(* one at a time (TableLock); what they do to the table is the subject of  *)
(* the other modules, here every change is a new version of it.            *)
(***************************************************************************)
EXTENDS TableLock

CONSTANTS
  Home,
  ChatOps,      \* the requests for Home that send a chat message
  PlayOps,      \* those that act for the seat of their sender
  HistoryLimit, \* CHAT_HISTORY_LIMIT
  MaxChanges, MaxMishaps   \* bounds

ASSUME HomeAssumption == Home \in Tables /\ ChatOps \subseteq Ops /\ PlayOps \subseteq Ops
ASSUME LimitAssumption == HistoryLimit \in Nat \ {0}

VARIABLES
  version,      \* of the table's live state
  announced,    \* the version that listeners were last told of (emitChanged)
  seated,       \* whether the user of the page has a seat
  said,         \* the requests whose chat message is stored
  emitted,      \* how many of them were emitted to the room
  stored,       \* the session in localStorage: "none", "live" or "dead" (its user is gone)
  cookie,       \* the guest cookie, likewise
  link,         \* the page's connection
  join,         \* how far the server is with its table:join
  inRoom,       \* whether its socket is in the room
  sending,      \* broadcasts that collected its socket and have yet to send
  wire,         \* what was emitted to the socket and has not arrived
  shown,        \* the version the page shows
  chat,         \* the messages the page lists
  window,       \* history: how many messages were emitted and stored when the
                \* chat history was read, and stored when it was emitted
  mishaps       \* history: connections broken, pages reopened, sessions lost

table == <<version, announced, seated>>
messages == <<said, emitted>>
session == <<stored, cookie>>
socket == <<join, inRoom, sending, wire, window>>
page == <<shown, chat>>
gatewayVars == <<table, messages, session, link, socket, page, mishaps>>

\* What the pages at Home emit: the senders of useTableSocket.
Requests == {o \in Ops : TableOf[o] = Home}
rows == Cardinality(said)
Mishap == mishaps < MaxMishaps /\ mishaps' = mishaps + 1

\* Whom a request or a handshake comes from: its bearer token, or else its cookie.
Token == IF stored # "none" THEN stored ELSE cookie

-----------------------------------------------------------------------------
(* The session and the connection.                                         *)

FindUser(token) == token = "live"
GetOrCreateGuest(token) == IF FindUser(token) THEN token ELSE "live"

\* POST auth/guest-session: the cookie names the guest from then on.
CreateGuestSession == cookie' = GetOrCreateGuest(Token)

\* GET auth/me knows who asks.
Me == FindUser(Token)

\* The page loads: auth/me, or a new guest when that knows nobody; either is saved.
Bootstrap ==
  /\ link = "loading"
  /\ link' = "connecting"
  /\ stored' = "live"
  /\ IF Me THEN UNCHANGED cookie ELSE CreateGuestSession
  /\ UNCHANGED <<table, messages, socket, page, mishaps>>

\* A page that is connected asks to join; one that is refused heals (Heal).
Accepted == link' = "up" /\ join' = "asked"
Refused == link' = "refused" /\ UNCHANGED join

\* Mutant: the page asks to join only when it connects for the first time.
Connect_JoinsOnce ==
  /\ link = "connecting"
  /\ IF FindUser(Token) THEN link' = "up" /\ join' = IF shown = 0 THEN "asked" ELSE join
                        ELSE Refused
  /\ UNCHANGED <<table, messages, session, inRoom, sending, wire, window, page, mishaps>>

\* The handshake: a token without a user is refused.
Connect ==
  /\ link = "connecting"
  /\ IF FindUser(Token) THEN Accepted ELSE Refused
  /\ UNCHANGED <<table, messages, session, inRoom, sending, wire, window, page, mishaps>>

\* heal: a guest session for whoever the token names, or for a new guest.  It sets the
\* cookie, and the page connects again; the stored session is left as it was.
Heal ==
  /\ link = "refused"
  /\ \/ link' = "connecting" /\ CreateGuestSession
     \/ link' = "failed" /\ UNCHANGED cookie
  /\ UNCHANGED <<table, messages, stored, socket, page, mishaps>>

\* The button that tries to heal once more.
Retry ==
  /\ link = "failed"
  /\ link' = "refused"
  /\ UNCHANGED <<table, messages, session, socket, page, mishaps>>

\* table:leave, or a lost connection: nothing more reaches the socket.
Unplugged == join' = "none" /\ inRoom' = FALSE /\ sending' = 0 /\ wire' = <<>> /\ UNCHANGED window

\* The connection breaks (bound MaxMishaps): what was on its way is lost, and the
\* client connects again by itself.
Drop ==
  /\ link = "up"
  /\ Mishap
  /\ link' = "connecting"
  /\ Unplugged
  /\ UNCHANGED <<table, messages, session, page>>

\* The page goes away: table:leave, and the socket is closed.
Close ==
  /\ link # "closed"
  /\ link' = "closed"
  /\ Unplugged
  /\ UNCHANGED <<table, messages, session, page, mishaps>>

\* It is opened again (bound MaxMishaps), with nothing on it.
Open ==
  /\ link = "closed"
  /\ Mishap
  /\ link' = "loading"
  /\ shown' = 0 /\ chat' = <<>>
  /\ UNCHANGED <<table, messages, session, socket>>

Dead(token) == IF token = "live" THEN "dead" ELSE token

\* The users are gone from the database, or the browser's data is cleared (bound MaxMishaps).
LoseSession ==
  /\ Mishap
  /\ \/ stored' = Dead(stored) /\ cookie' = Dead(cookie)
     \/ stored' = "none" /\ cookie' = "none"
  /\ UNCHANGED <<table, messages, link, socket, page>>

-----------------------------------------------------------------------------
(* table:join.                                                             *)

TakeSnapshot == wire' = Append(wire, [kind |-> "snapshot", version |-> version])

\* The socket enters the room first, so that no announcement is missed from here on.
JoinRoom ==
  /\ join = "asked"
  /\ join' = "entered" /\ inRoom' = TRUE
  /\ UNCHANGED <<sending, wire, window>>
  /\ UNCHANGED <<table, messages, session, link, page, mishaps>>

\* The snapshot is emitted and the chat history is asked for.
JoinSnapshot ==
  /\ join = "entered"
  /\ join' = "reading" /\ TakeSnapshot
  /\ UNCHANGED <<inRoom, sending, window>>
  /\ UNCHANGED <<table, messages, session, link, page, mishaps>>

\* The database answers with the last HistoryLimit messages (in the order they came).
ReadHistory ==
  /\ join = "reading"
  /\ join' = "read"
  /\ window' = [from |-> emitted, read |-> rows, to |-> rows]
  /\ UNCHANGED <<inRoom, sending, wire>>
  /\ UNCHANGED <<table, messages, session, link, page, mishaps>>

LastMessages(n) == [i \in 1 .. (IF n < HistoryLimit THEN n ELSE HistoryLimit) |->
                      i + (IF n < HistoryLimit THEN 0 ELSE n - HistoryLimit)]

JoinHistory ==
  /\ join = "read"
  /\ join' = "joined"
  /\ wire' = Append(wire, [kind |-> "history", list |-> LastMessages(window.read)])
  /\ window' = [window EXCEPT !.to = rows]
  /\ UNCHANGED <<inRoom, sending>>
  /\ UNCHANGED <<table, messages, session, link, page, mishaps>>

-----------------------------------------------------------------------------
(* What requests do, and what the page hears of it.                        *)

Changed == version < MaxChanges /\ version' = version + 1   \* bound MaxChanges

\* A request that manages the table: seats, stacks, owner, settings, starts, reveals.
Manage(o) ==
  /\ state[o] = "running" /\ o \notin ChatOps \cup PlayOps
  /\ Changed
  /\ seated' \in BOOLEAN
  /\ UNCHANGED <<announced, messages, session, link, socket, page, mishaps>>

RequireSeat == seated

\* A request to act in the game, for the seat its sender has.
Play(o) ==
  /\ state[o] = "running" /\ o \in PlayOps
  /\ RequireSeat
  /\ Changed
  /\ UNCHANGED <<announced, seated, messages, session, link, socket, page, mishaps>>

\* emitChanged, once a request's changes are made: a broadcast finds who is in the room.
Announce(o) ==
  /\ state[o] = "running"
  /\ announced # version
  /\ announced' = version
  /\ sending' = IF inRoom THEN sending + 1 ELSE sending
  /\ UNCHANGED <<version, seated, messages, session, link, join, inRoom, wire, window,
                 page, mishaps>>

\* The broadcast goes on: everyone it found is sent the table as it is now.
Broadcast ==
  /\ sending > 0
  /\ sending' = sending - 1
  /\ TakeSnapshot
  /\ UNCHANGED <<table, messages, session, link, join, inRoom, window, page, mishaps>>

\* chat:send stores the message ...
StoreMessage(o) ==
  /\ state[o] = "running" /\ o \in ChatOps
  /\ o \notin said
  /\ said' = said \cup {o}
  /\ UNCHANGED <<table, emitted, session, link, socket, page, mishaps>>

\* ... and then emits it to the room.
EmitMessage ==
  /\ emitted < rows
  /\ emitted' = emitted + 1
  /\ wire' = IF inRoom THEN Append(wire, [kind |-> "message", message |-> emitted + 1]) ELSE wire
  /\ UNCHANGED <<table, said, session, link, join, inRoom, sending, window, page, mishaps>>

\* Mutant: the history is added to the messages that are listed.
Deliver_HistoryAdded ==
  /\ wire # <<>>
  /\ wire' = Tail(wire)
  /\ LET it == Head(wire) IN
       /\ shown' = IF it.kind = "snapshot" THEN it.version ELSE shown
       /\ chat' = CASE it.kind = "history" -> chat \o it.list
                    [] it.kind = "message" -> Append(chat, it.message)
                    [] OTHER -> chat
  /\ UNCHANGED <<table, messages, session, link, join, inRoom, sending, window, mishaps>>

\* Something arrives at the page.
Deliver ==
  /\ wire # <<>>
  /\ wire' = Tail(wire)
  /\ LET it == Head(wire) IN
       /\ shown' = IF it.kind = "snapshot" THEN it.version ELSE shown
       /\ chat' = CASE it.kind = "history" -> it.list
                    [] it.kind = "message" -> Append(chat, it.message)
                    [] OTHER -> chat
  /\ UNCHANGED <<table, messages, session, link, join, inRoom, sending, window, mishaps>>

\* A request ends; one that stored a message emits it first.
EndRequest(o) == Finish(o) /\ (o \in ChatOps => emitted = rows)

-----------------------------------------------------------------------------
GatewayInit ==
  /\ version = 0 /\ announced = 0 /\ seated = FALSE
  /\ said = {} /\ emitted = 0
  /\ stored \in {"none", "live", "dead"} /\ cookie \in {"none", "live", "dead"}
  /\ link = "loading" /\ join = "none" /\ inRoom = FALSE /\ sending = 0 /\ wire = <<>>
  /\ shown = 0 /\ chat = <<>>
  /\ window = [from |-> 0, read |-> 0, to |-> 0]
  /\ mishaps = 0

Locked == \E o \in Requests : Submit(o) \/ Start(o) \/ EndRequest(o)

Handled == \E o \in Requests : Manage(o) \/ Play(o) \/ Announce(o) \/ StoreMessage(o)

Joining == JoinRoom \/ JoinSnapshot \/ ReadHistory \/ JoinHistory

Connection == Bootstrap \/ Connect \/ Heal \/ Retry \/ Drop \/ Close \/ Open \/ LoseSession

\* The page may stay closed, with no request under way.
NothingLeft ==
  /\ link = "closed"
  /\ \A o \in Requests : state[o] = "new" \/ Ended(o)
  /\ UNCHANGED <<vars, gatewayVars>>

GatewayNext ==
  \/ Locked /\ UNCHANGED gatewayVars
  \/ (Handled \/ Joining \/ Connection \/ Broadcast \/ EmitMessage \/ Deliver) /\ UNCHANGED vars
  \/ NothingLeft

-----------------------------------------------------------------------------
(* Properties.                                                             *)

\* The session the page keeps is dead and every handshake is refused for it; heal
\* only sets the cookie, which a stored session goes before (see the README).
Stuck == stored = "dead" /\ link \in {"connecting", "refused"}

\* Whatever is announced reaches every page: one that is open, and can get a session,
\* comes to show that version of the table or a later one, though its connection breaks,
\* it joins while requests are carried out, or broadcasts are under way.
SnapshotsCatchUp ==
  \A v \in 1 .. MaxChanges :
    announced >= v ~> (shown >= v \/ link \in {"closed", "failed"} \/ Stuck)

Times(m, s) == Cardinality({i \in DOMAIN s : s[i] = m})

\* A page that has joined and has nothing on its way lists each message once and in the
\* order they were sent, as far back as the history went: all but those that were being
\* sent while the history was, which may be missing or listed twice.
ChatIsWhole ==
  join = "joined" /\ wire = <<>> =>
    /\ \A m \in 1 .. emitted :
         m <= window.from \/ m > window.to =>
           Times(m, chat) = IF m > window.read - HistoryLimit THEN 1 ELSE 0
    /\ \A i, k \in DOMAIN chat : i < k => chat[i] <= chat[k]
=============================================================================
