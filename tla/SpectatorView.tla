------------------------------- MODULE SpectatorView -------------------------------
(***************************************************************************)
(* Watching a resident: the gateway client keeps a window of a session's   *)
(* packets (server/src/gateway.ts), the session's stream brings every      *)
(* change of it to the page (index.ts, App.svelte), and the page's bridge  *)
(* (observer/src/index.ts) posts new packets to the game client in an      *)
(* iframe (web/src/spectator.ts), which comes and goes with the page.      *)
(*                                                                         *)
(* Packets are numbered as they come.  The iframe's document says ready    *)
(* when it listens and its load event comes when it pleases; a message     *)
(* that reaches a document which does not listen yet is lost, and a ready  *)
(* message may outlive the document that posted it.                        *)
(***************************************************************************)
EXTENDS Naturals, SequencesExt

CONSTANTS
  PacketLimit,    \* SPECTATOR_PACKET_LIMIT
  MaxPackets,     \* bound: packets of the session
  MaxEvents,      \* bound: stream events and ready messages in flight
  Opcodes         \* the kinds of packets the gateway sends

ASSUME PacketBounds == PacketLimit \in Nat \ {0, 1} /\ MaxPackets \in Nat /\ MaxEvents \in Nat
ASSUME KnownOpcodes == Opcodes \subseteq {"map", "delta", "other"}

VARIABLES
  opcode,      \* the kind of each packet received, in order
  known,       \* sessions has an entry: the session was observed once
  session,     \* that entry: connected, packets (the window)
  streaming,   \* sessionStream is open
  events,      \* session events under way to the page
  pending,     \* the bridge's pendingSession; not connected: none
  started,
  loaded,
  sent,        \* sentPackets
  document,    \* of the iframe: none, loading, ready (it listens)
  loadDue,     \* its load event is still to come
  toFrame,     \* packets posted to it
  readies,     \* ready messages under way to the page
  pushed       \* packets the document's client was given or may leave out

viewVars == <<opcode, known, session, streaming, events, pending, started, loaded, sent,
              document, loadDue, toFrame, readies, pushed>>
gatewaySide == <<opcode, known, session, streaming, events>>
frameSide == <<document, loadDue, toFrame, readies, pushed>>

Packets == 1..MaxPackets
Sessions == [connected : BOOLEAN, packets : SeqOf(Packets, PacketLimit)]
NoSession == [connected |-> FALSE, packets |-> <<>>]

ViewTypeOK ==
  /\ opcode \in SeqOf(Opcodes, MaxPackets)
  /\ session \in Sessions /\ pending \in Sessions
  /\ known \in BOOLEAN /\ streaming \in BOOLEAN
  /\ started \in BOOLEAN /\ loaded \in BOOLEAN /\ loadDue \in BOOLEAN
  /\ events \in Seq(Sessions) /\ toFrame \in Seq(Packets)
  /\ sent \subseteq Packets /\ pushed \subseteq Packets
  /\ document \in {"none", "loading", "ready"}
  /\ readies \in 0..MaxEvents

ViewInit ==
  /\ opcode = <<>>
  /\ known = FALSE /\ session = NoSession
  /\ streaming = FALSE /\ events = <<>>
  /\ pending = NoSession
  /\ started = FALSE /\ loaded = FALSE /\ sent = {}
  /\ document = "none" /\ loadDue = FALSE /\ toFrame = <<>> /\ readies = 0 /\ pushed = {}

-----------------------------------------------------------------------------
Newest(s, k) == SubSeq(s, IF Len(s) > k THEN Len(s) - k + 1 ELSE 1, Len(s))

\* Where the maps of a window are; newestMapBootstrap searches from its end.
MapsIn(packets, opcodes) == {i \in DOMAIN packets : opcodes[packets[i]] = "map"}

NewestMapBootstrap(packets, opcodes) == Max(MapsIn(packets, opcodes))

\* Slip: the window is the newest packets, whatever they are.
AppendPlainly(packets, n, opcodes) == Newest(Append(packets, n), PacketLimit)

\* appendSpectatorPacket: a window that overflows puts the bootstrap it found in
\* front of the newest of the others.
AppendSpectatorPacket(packets, n, opcodes) ==
  LET next == Append(packets, n)
      at == NewestMapBootstrap(next, opcodes)
  IN IF Len(next) <= PacketLimit THEN next
     ELSE IF MapsIn(next, opcodes) = {} THEN Newest(next, PacketLimit)
     ELSE <<next[at]>> \o Newest(RemoveAt(next, at), PacketLimit - 1)

\* streamSession: the listener of an open stream sends the page what it is given.
StreamSession(s) ==
  IF streaming THEN Len(events) < MaxEvents /\ events' = Append(events, s)
  ELSE UNCHANGED events

\* setSession of the gateway client.
SetSession(s) == session' = s /\ StreamSession(s)

\* spectator_packet: of a session that was observed, connected or not.
SpectatorPacket(kind) ==
  /\ known
  /\ Len(opcode) < MaxPackets
  /\ opcode' = Append(opcode, kind)
  /\ SetSession([session EXCEPT !.packets = AppendSpectatorPacket(@, Len(opcode'), opcode')])
  /\ UNCHANGED <<known, streaming, pending, started, loaded, sent, frameSide>>

\* spectator_disconnected; the window stays, for the next observe.
SpectatorDisconnected ==
  /\ known
  /\ SetSession([session EXCEPT !.connected = FALSE])
  /\ UNCHANGED <<opcode, known, streaming, pending, started, loaded, sent, frameSide>>

-----------------------------------------------------------------------------
\* What a flush posts: the packets of the window that were not sent, in its order.
New(p, s) ==
  LET posted[i \in 0..Len(p.packets)] ==
        IF i = 0 THEN <<>>
        ELSE IF p.packets[i] \in s THEN posted[i - 1]
        ELSE Append(posted[i - 1], p.packets[i])
  IN  posted[Len(p.packets)]

\* stopClient: the iframe is taken off the page, with all that is under way to it.
StopClient ==
  /\ started' = FALSE
  /\ loaded' = FALSE
  /\ document' = "none" /\ loadDue' = FALSE /\ toFrame' = <<>> /\ pushed' = {}

\* Slip: the document is taken for one that listens already.
StartListening ==
  /\ started' = TRUE
  /\ loaded' = TRUE
  /\ document' = "listening" /\ loadDue' = TRUE /\ toFrame' = <<>> /\ pushed' = {}

\* startClient: a new document begins to load.
StartClient ==
  /\ started' = TRUE
  /\ loaded' = FALSE
  /\ document' = "loading" /\ loadDue' = TRUE /\ toFrame' = <<>> /\ pushed' = {}

\* flush, with the pendingSession, loaded and sentPackets it finds.
Flush(p, l, s) ==
  \/ ~p.connected /\ started /\ StopClient /\ sent' = s
  \/ ~p.connected /\ ~started /\ sent' = s /\ loaded' = l
     /\ UNCHANGED <<started, document, loadDue, toFrame, pushed>>
  \/ p.connected /\ ~started /\ StartClient /\ sent' = s
  \/ /\ p.connected /\ started
     /\ loaded' = l
     /\ IF l THEN /\ toFrame' = toFrame \o New(p, s)
                  /\ sent' = s \cup ToSet(p.packets)
        ELSE sent' = s /\ UNCHANGED toFrame
     /\ UNCHANGED <<started, document, loadDue, pushed>>

\* setSession of the bridge; the page has no session to show but a connected one.
Show(s) ==
  /\ pending' = IF s.connected THEN s ELSE NoSession
  /\ Flush(pending', loaded, IF s.connected = pending.connected THEN sent ELSE {})
  /\ UNCHANGED readies

\* observe and openSessionStream: the page shows the session and listens to it; a
\* stream that is open stays and brings it too.  The answer comes after the events
\* that were sent before it.
Observe ==
  /\ streaming => ~pending.connected /\ events = <<>>
  /\ known' = TRUE
  /\ streaming' = TRUE
  /\ session' = [session EXCEPT !.connected = TRUE]
  /\ events' = <<session'>>
  /\ Show(session')
  /\ UNCHANGED opcode

\* openSessionStream of a session found connected, without observing it again: the
\* page's own copy first, then the gateway's.
Reopen ==
  /\ ~streaming
  /\ pending.connected \/ session.connected
  /\ streaming' = TRUE
  /\ events' = <<session>>
  /\ Show(IF pending.connected THEN pending ELSE session)
  /\ UNCHANGED <<opcode, known, session>>

\* A session event of the stream.
SessionEvent ==
  /\ events # <<>>
  /\ events' = Tail(events)
  /\ Show(Head(events))
  /\ UNCHANGED <<opcode, known, session, streaming>>

\* The stream's error: it is closed, and the last session stays visible.
StreamError ==
  /\ streaming
  /\ streaming' = FALSE /\ events' = <<>>
  /\ UNCHANGED <<opcode, known, session, pending, started, loaded, sent, frameSide>>

\* Another route: the stream is closed, the bridge destroyed.
Leave ==
  /\ pending.connected
  /\ streaming' = FALSE /\ events' = <<>>
  /\ Show(NoSession)
  /\ UNCHANGED <<opcode, known, session>>

-----------------------------------------------------------------------------
\* Slip: what was sent counts as sent, whichever document it was sent to.
ReadyKeepingSent ==
  /\ readies > 0
  /\ readies' = readies - 1
  /\ Flush(pending, TRUE, sent)
  /\ UNCHANGED <<gatewaySide, pending>>

\* The bridge's listener hears that a document is ready: everything is sent again.
SpectatorReady ==
  /\ readies > 0
  /\ readies' = readies - 1
  /\ Flush(pending, TRUE, {})
  /\ UNCHANGED <<gatewaySide, pending>>

\* The load event of the iframe.
Load ==
  /\ loadDue
  /\ loadDue' = FALSE
  /\ loaded' = FALSE
  /\ UNCHANGED <<gatewaySide, pending, started, sent, document, toFrame, readies, pushed>>

\* The document's script listens and says so.
Listen ==
  /\ document = "loading"
  /\ readies < MaxEvents
  /\ document' = "ready"
  /\ readies' = readies + 1
  /\ UNCHANGED <<gatewaySide, pending, started, loaded, sent, loadDue, toFrame, pushed>>

\* A posted packet arrives; shouldReplaySpectatorPacket leaves the deltas out.
PostedPacket ==
  /\ toFrame # <<>>
  /\ toFrame' = Tail(toFrame)
  /\ pushed' = IF document = "ready" THEN pushed \cup {Head(toFrame)} ELSE pushed
  /\ UNCHANGED <<gatewaySide, pending, started, loaded, sent, document, loadDue, readies>>

-----------------------------------------------------------------------------
ViewNext ==
  \/ \E kind \in Opcodes : SpectatorPacket(kind)
  \/ SpectatorDisconnected \/ StreamError
  \/ Observe \/ Reopen \/ SessionEvent \/ Leave
  \/ SpectatorReady \/ Load \/ Listen \/ PostedPacket

ViewSpec == ViewInit /\ [][ViewNext]_viewVars

\* Documents load and listen, and messages and events arrive.
ViewFairSpec ==
  /\ ViewSpec
  /\ WF_viewVars(SessionEvent) /\ WF_viewVars(SpectatorReady)
  /\ WF_viewVars(Load) /\ WF_viewVars(Listen) /\ WF_viewVars(PostedPacket)

-----------------------------------------------------------------------------
\* "Retains a spectator map bootstrap packet for late iframe replays": however late
\* a document starts and however often it is replaced, once what was posted has
\* arrived it was given a map, if one came before the packets it was given.
ReplayHasMap ==
  readies = 0 /\ toFrame = <<>> /\ (\E n \in 1..Len(opcode) : opcode[n] = "map" /\ \E k \in pushed : n <= k)
    => \E n \in pushed : opcode[n] = "map"

\* The load event came after the document's ready message was heard: loaded stays
\* FALSE until the page leaves the session.
LoadWasLate == document = "ready" /\ readies = 0 /\ ~loaded

Wanted(n) == pending.connected /\ n \in ToSet(pending.packets) /\ ~LoadWasLate

\* A packet the page holds reaches the document that is shown, though packets were
\* lost on a document that did not listen, on the word of one that is gone: unless
\* it leaves the window, the page leaves the session, or the load event is late.
ViewCatchesUp == \A n \in Packets : Wanted(n) ~> (n \in pushed \/ ~Wanted(n))
=============================================================================
