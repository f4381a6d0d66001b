------------------------------- MODULE GatewayClient -------------------------------
(***************************************************************************)
(* The dashboard's client of the agent gateway (server/src/gateway.ts): a  *)
(* websocket that is opened when a request needs it, the requests waiting  *)
(* for it or for an answer, and the residents' feeds attached through it.  *)
(*                                                                         *)
(* The client replaces a socket that is no longer open without waiting for *)
(* its close event, so several exist at a time and their events come in    *)
(* any order.  A handler runs to its end before the next event.            *)
(***************************************************************************)
EXTENDS Naturals, FiniteSets

CONSTANTS
  Sockets,       \* bound: websockets that exist at one time
  Lists,         \* list_residents requests
  Residents,     \* each has at most one attach request: attachingResidents
  MaxLosses,     \* bound: open sockets the gateway or the network closes
  NoSocket

Requests == Lists \cup Residents

ASSUME LossBound == MaxLosses \in Nat

ASSUME NoSocketIsApart == NoSocket \notin Sockets

VARIABLES
  socket,        \* each websocket: free, connecting, open, closing
  ws,            \* the field: the socket made last
  connected,     \* the field
  request,       \* each request: none, connect, pending, ok, failed
  on,            \* the socket each pending request was sent on
  attached,      \* residentFeeds: the feeds marked attached
  stale,         \* feeds that had no message yet, or none for 15 s
  via,           \* the socket whose message marked an attached feed
  losses

gatewayVars == <<socket, ws, connected, request, on, attached, stale, via, losses>>

GatewayTypeOK ==
  /\ socket \in [Sockets -> {"free", "connecting", "open", "closing"}]
  /\ ws \in Sockets \cup {NoSocket}
  /\ connected \in BOOLEAN
  /\ request \in [Requests -> {"none", "connect", "pending", "ok", "failed"}]
  /\ on \in [Requests -> Sockets \cup {NoSocket}]
  /\ attached \subseteq Residents
  /\ stale \subseteq Residents
  /\ via \in [Residents -> Sockets \cup {NoSocket}]
  /\ losses \in 0..MaxLosses

GatewayInit ==
  /\ socket = [s \in Sockets |-> "free"]
  /\ ws = NoSocket
  /\ connected = FALSE
  /\ request = [q \in Requests |-> "none"]
  /\ on = [q \in Requests |-> NoSocket]
  /\ attached = {}
  /\ stale = Residents
  /\ via = [r \in Residents |-> NoSocket]
  /\ losses = 0

-----------------------------------------------------------------------------
WsIs(state) == ws # NoSocket /\ socket[ws] = state

Wait(qs) ==
  /\ request' = [q \in Requests |-> IF q \in qs THEN "connect" ELSE request[q]]
  /\ UNCHANGED on

\* Requests are sent on the socket ws.
SendAll(qs) ==
  /\ request' = [q \in Requests |-> IF q \in qs THEN "pending" ELSE request[q]]
  /\ on' = [q \in Requests |-> IF q \in qs THEN ws ELSE on[q]]

\* ensureConnected and request: what is asked for is sent on the socket if that is
\* open, waits for it if it is connecting, and opens another one otherwise.
Ask(qs) ==
  /\ \/ connected /\ WsIs("open") /\ SendAll(qs) /\ UNCHANGED <<socket, ws>>
     \/ WsIs("connecting") /\ Wait(qs) /\ UNCHANGED <<socket, ws>>
     \/ /\ ~WsIs("connecting") /\ ~(connected /\ WsIs("open"))
        /\ Wait(qs)
        /\ \E s \in Sockets : socket[s] = "free"
        /\ ws' = CHOOSE s \in Sockets : socket[s] = "free"
        /\ socket' = [socket EXCEPT ![ws'] = "connecting"]
  /\ UNCHANGED <<connected, attached, stale, via, losses>>

NeedsAttach(r) == r \notin attached \/ r \in stale

\* subscribeResidentFeed: one attach request a resident at a time.
ToAttach(rs) == {r \in rs : NeedsAttach(r) /\ request[r] = "none"}

\* The open event: whoever waited for the socket, which is ws, sends on it.
Open(s) ==
  /\ socket[s] = "connecting"
  /\ socket' = [socket EXCEPT ![s] = "open"]
  /\ connected' = TRUE
  /\ SendAll({q \in Requests : request[q] = "connect"})
  /\ UNCHANGED <<ws, attached, stale, via, losses>>

\* markResidentFeedsDetached and rejectAll; with "connect", the promise of the
\* socket that requests wait for is rejected too.
Disconnect(states) ==
  /\ connected' = FALSE
  /\ attached' = {}
  /\ via' = [r \in Residents |-> NoSocket]
  /\ request' = [q \in Requests |-> IF request[q] \in states THEN "failed" ELSE request[q]]
  /\ on' = [q \in Requests |-> NoSocket]
  /\ UNCHANGED <<ws, stale>>

\* The error event of a handshake; the close event follows.
Refuse(s) ==
  /\ socket[s] = "connecting"
  /\ socket' = [socket EXCEPT ![s] = "closing"]
  /\ Disconnect({"connect", "pending"})
  /\ UNCHANGED losses

\* The error event of an open socket.
Error(s) ==
  /\ socket[s] = "open"
  /\ losses < MaxLosses
  /\ losses' = losses + 1
  /\ socket' = [socket EXCEPT ![s] = "closing"]
  /\ Disconnect({"pending"})

\* Slip: the lost socket is taken for one that had its close event.
LoseSilently(s) ==
  /\ socket[s] = "open"
  /\ losses < MaxLosses
  /\ losses' = losses + 1
  /\ socket' = [socket EXCEPT ![s] = "closed"]
  /\ UNCHANGED <<ws, connected, request, on, attached, stale, via>>

\* The other side closes: the socket is not open any more, and no event yet.
Lose(s) ==
  /\ socket[s] = "open"
  /\ losses < MaxLosses
  /\ losses' = losses + 1
  /\ socket' = [socket EXCEPT ![s] = "closing"]
  /\ UNCHANGED <<ws, connected, request, on, attached, stale, via>>

\* Slip: only the close of the current socket counts.
CloseOfCurrent(s) ==
  /\ socket[s] = "closing"
  /\ socket' = [socket EXCEPT ![s] = "free"]
  /\ IF ws = s THEN Disconnect({"pending"})
     ELSE UNCHANGED <<ws, connected, request, on, attached, stale, via>>
  /\ UNCHANGED losses

\* The close event, of any socket: everything pending fails, every feed detaches.
Close(s) ==
  /\ socket[s] = "closing"
  /\ socket' = [socket EXCEPT ![s] = "free"]
  /\ Disconnect({"pending"})
  /\ UNCHANGED losses

\* A request's answer on the socket it was sent on.
Fulfil(q) ==
  /\ request[q] = "pending"
  /\ socket[on[q]] = "open"
  /\ request' = [request EXCEPT ![q] = "ok"]
  /\ on' = [on EXCEPT ![q] = NoSocket]
  /\ IF q \in Residents
     THEN attached' = attached \cup {q} /\ via' = [via EXCEPT ![q] = on[q]]
     ELSE UNCHANGED <<attached, via>>
  /\ UNCHANGED <<socket, ws, connected, stale, losses>>

\* Slip: the timer drops the request and rejects nothing.
DropRequest(q) ==
  /\ request[q] = "pending"
  /\ request' = [request EXCEPT ![q] = "none"]
  /\ UNCHANGED <<socket, ws, connected, on, attached, stale, via, losses>>

\* The gateway answers with an error, or the request's timer fires.
FailRequest(q) ==
  /\ request[q] = "pending"
  /\ request' = [request EXCEPT ![q] = "failed"]
  /\ on' = [on EXCEPT ![q] = NoSocket]
  /\ attached' = attached \ {q}
  /\ via' = [r \in Residents |-> IF r = q THEN NoSocket ELSE via[r]]
  /\ UNCHANGED <<socket, ws, connected, stale, losses>>

\* resident_connected and the spectator's messages: the feed counts as attached.
Push(r, s) ==
  /\ socket[s] = "open"
  /\ attached' = attached \cup {r}
  /\ via' = [via EXCEPT ![r] = s]
  /\ stale' = stale \ {r}
  /\ UNCHANGED <<socket, ws, connected, request, on, losses>>

GoStale(r) ==
  /\ stale' = stale \cup {r}
  /\ UNCHANGED <<socket, ws, connected, request, on, attached, via, losses>>

\* subscribeResidentFeed's finally: the next subscriber may attach again.
ForgetAttach(r) ==
  /\ request[r] \in {"ok", "failed"}
  /\ request' = [request EXCEPT ![r] = "none"]
  /\ UNCHANGED <<socket, ws, connected, on, attached, stale, via, losses>>

-----------------------------------------------------------------------------
\* A feed that counts as attached is one the gateway can still send: no close event
\* of the socket it was attached through has come.  Nobody attaches such a feed
\* again before it has been silent for 15 s, so this is what a page relies on.
AttachedFeedIsLive ==
  \A r \in attached : via[r] # NoSocket /\ socket[via[r]] \in {"open", "closing"}
=============================================================================
