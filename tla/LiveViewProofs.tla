--------------------------- MODULE LiveViewProofs ---------------------------
(***************************************************************************)
(* Proofs about what a page shows of the residents as it happens.  First   *)
(* the rows, for any pages, residents, computations, sockets and number of *)
(* losses: what the cache serves, and what a feed marked attached is       *)
(* worth.  Then the spectator's view, for any limit of packets, packets,   *)
(* events and ready messages: what the document in the iframe was given.   *)
(***************************************************************************)
EXTENDS ResidentRows, SpectatorView, WellFoundedInduction, TLAPS

-----------------------------------------------------------------------------
(* The cache.                                                               *)

\* A computation that runs or has a value, in its window, is the one in the map.
CacheInv ==
  /\ CacheTypeOK
  /\ entry # NoEntry => outcome[entry] \in {"running", "ok"}
  /\ \A i \in Computations :
       outcome[i] \in {"running", "ok"} /\ i \notin expired => entry = i /\ fresh

\* A computation whose stages are under way has not settled its promise.
StagesRun ==
  /\ rows \in [Computations -> [pc : {"none", "list", "attach", "done"}, awaits : SUBSET Residents]]
  /\ \A i \in Computations : rows[i].pc \in {"list", "attach"} => outcome[i] = "running"

RowsInv == CacheInv /\ StagesRun

\* getOrCompute starts a computation only when the map holds none in its window.
LEMMA ComputeKeepsCacheInv ==
  ASSUME CacheInv, NEW c \in Callers, NEW i \in Computations, Compute(c, i)
  PROVE  CacheInv'
  <1> USE DEF Compute, Await
  <1>1. CacheTypeOK'
    BY DEF CacheInv, CacheTypeOK
  <1>2. outcome' = [outcome EXCEPT ![i] = "running"] /\ entry' = i /\ fresh' = TRUE
    OBVIOUS
  <1>3. outcome'[entry'] = "running"
    BY <1>2 DEF CacheInv, CacheTypeOK
  <1>4. ASSUME NEW k \in Computations, outcome'[k] \in {"running", "ok"}, k \notin expired'
        PROVE  entry' = k /\ fresh'
    <2>1. CASE k = i
      BY <1>2, <2>1
    <2>2. CASE k # i
      <3>1. outcome[k] \in {"running", "ok"} /\ k \notin expired
        BY <1>2, <1>4, <2>2 DEF CacheInv, CacheTypeOK
      <3>2. entry = k /\ fresh
        BY <3>1 DEF CacheInv
      <3>3. entry = NoEntry \/ ~fresh
        OBVIOUS
      <3> QED
        BY <3>2, <3>3, NoEntryIsApart
    <2> QED
      BY <2>1, <2>2
  <1> QED
    BY <1>1, <1>3, <1>4 DEF CacheInv

\* A promise settles once: only the computation that runs it does so.
LEMMA SettleKeepsCacheInv ==
  ASSUME CacheInv, NEW i \in Computations, outcome[i] = "running", Resolve(i) \/ Reject(i)
  PROVE  CacheInv'
  <1>1. CASE Resolve(i)
    BY <1>1 DEF CacheInv, CacheTypeOK, Resolve
  <1>2. CASE Reject(i)
    BY <1>2 DEF CacheInv, CacheTypeOK, Reject
  <1> QED
    BY <1>1, <1>2

\* What callers and the clock do to the cache.
LEMMA OthersKeepCacheInv ==
  ASSUME CacheInv, (\E c \in Callers : Join(c) \/ Answer(c)) \/ Expire \/ UNCHANGED cacheVars
  PROVE  CacheInv'
  <1>1. ASSUME NEW c \in Callers, Join(c)
        PROVE  CacheInv'
    BY <1>1 DEF CacheInv, CacheTypeOK, Join, Await
  <1>2. ASSUME NEW c \in Callers, Answer(c)
        PROVE  CacheInv'
    BY <1>2 DEF CacheInv, CacheTypeOK, Answer, Await
  <1>3. CASE Expire
    BY <1>3 DEF CacheInv, CacheTypeOK, Expire
  <1>4. CASE UNCHANGED cacheVars
    BY <1>4 DEF CacheInv, CacheTypeOK, cacheVars
  <1> QED
    BY <1>1, <1>2, <1>3, <1>4

\* Each step of the rows keeps the cache's invariant and the stages in order.
LEMMA RowsInvIsInductive ==
  ASSUME RowsInv, [RowsNext]_rowsVars
  PROVE  RowsInv'
  <1> USE DEF RowsInv
  <1>1. ASSUME NEW c \in Callers, Join(c), UNCHANGED <<gatewayVars, rows>>
        PROVE  RowsInv'
    BY <1>1, OthersKeepCacheInv DEF Join, StagesRun
  <1>2. ASSUME NEW c \in Callers, NEW i \in Computations, Compute(c, i),
               rows' = [rows EXCEPT ![i].pc = "list"]
        PROVE  RowsInv'
    <2>1. CacheInv'
      BY <1>2, ComputeKeepsCacheInv
    <2>2. StagesRun'
      BY <1>2 DEF StagesRun, Compute, CacheInv, CacheTypeOK
    <2> QED
      BY <2>1, <2>2
  <1>3. ASSUME NEW c \in Callers, Answer(c), UNCHANGED <<gatewayVars, rows>>
        PROVE  RowsInv'
    BY <1>3, OthersKeepCacheInv DEF Answer, StagesRun
  <1>4. CASE Expire /\ UNCHANGED <<gatewayVars, rows>>
    BY <1>4, OthersKeepCacheInv DEF Expire, StagesRun
  <1>5. ASSUME NEW i \in Computations, Listed(i)
        PROVE  RowsInv'
    <2>1. CacheInv'
      BY <1>5, OthersKeepCacheInv DEF Listed
    <2>2. StagesRun'
      BY <1>5 DEF StagesRun, Listed, cacheVars
    <2> QED
      BY <2>1, <2>2
  <1>6. ASSUME NEW i \in Computations, Enriched(i)
        PROVE  RowsInv'
    <2>1. outcome[i] = "running" /\ (Resolve(i) \/ Reject(i)) /\ rows' = [rows EXCEPT ![i].pc = "done"]
      BY <1>6 DEF Enriched, StagesRun
    <2>2. CacheInv'
      BY <2>1, SettleKeepsCacheInv
    <2>3. StagesRun'
      BY <2>1 DEF StagesRun, Resolve, Reject, CacheInv, CacheTypeOK
    <2> QED
      BY <2>2, <2>3
  <1>7. ASSUME NEW r \in Residents, AttachDone(r)
        PROVE  RowsInv'
    <2>1. CacheInv'
      BY <1>7, OthersKeepCacheInv DEF AttachDone
    <2>2. StagesRun'
      BY <1>7 DEF StagesRun, AttachDone, cacheVars
    <2> QED
      BY <2>1, <2>2
  <1>8. CASE UNCHANGED <<cacheVars, rows>>
    BY <1>8, OthersKeepCacheInv DEF StagesRun, cacheVars
  <1> QED
    BY <1>1, <1>2, <1>3, <1>4, <1>5, <1>6, <1>7, <1>8
    DEF RowsNext, CachedResidentRows, rowsVars

\* The two steps by which a caller begins to await a computation.
LEMMA JoinShares ==
  ASSUME CacheInv, NEW c \in Callers, Join(c)
  PROVE  Sharing
  BY DEF CacheInv, CacheTypeOK, Join, Await, Sharing

LEMMA ComputeShares ==
  ASSUME CacheInv, NEW c \in Callers, NEW i \in Computations, Compute(c, i)
  PROVE  Sharing
  <1> USE DEF Compute, Await
  <1>1. ASSUME NEW k \in Computations, outcome[k] \in {"running", "ok"}
        PROVE  k \in expired
    BY <1>1, NoEntryIsApart DEF CacheInv
  <1>2. ASSUME NEW d \in Callers, awaiting[d] = NoEntry, awaiting'[d] # NoEntry
        PROVE  outcome[awaiting'[d]] # "failed"
    BY <1>2 DEF CacheInv, CacheTypeOK
  <1> QED
    BY <1>1, <1>2 DEF Sharing

\* No other step starts a computation or lets a caller await one.
LEMMA NextShares ==
  ASSUME RowsInv, [RowsNext]_rowsVars
  PROVE  [Sharing]_cacheVars
  <1> USE DEF RowsInv
  <1>1. ASSUME NEW c \in Callers, CachedResidentRows(c)
        PROVE  Sharing
    BY <1>1, JoinShares, ComputeShares DEF CachedResidentRows
  <1>2. ASSUME NEW c \in Callers, Answer(c)
        PROVE  Sharing
    BY <1>2 DEF CacheInv, CacheTypeOK, Answer, Await, Sharing
  <1>3. ASSUME NEW i \in Computations, Enriched(i)
        PROVE  Sharing
    <2>1. outcome[i] = "running" /\ awaiting' = awaiting
      BY <1>3 DEF Enriched, StagesRun, Resolve, Reject
    <2>2. outcome' = [outcome EXCEPT ![i] = "ok"] \/ outcome' = [outcome EXCEPT ![i] = "failed"]
      BY <1>3 DEF Enriched, Resolve, Reject
    <2> QED
      BY <2>1, <2>2 DEF CacheInv, CacheTypeOK, Sharing
  <1>4. CASE Expire
    BY <1>4 DEF CacheInv, CacheTypeOK, Expire, Sharing
  <1>5. ASSUME NEW i \in Computations, Listed(i)
        PROVE  UNCHANGED cacheVars
    BY <1>5 DEF Listed
  <1>6. ASSUME NEW r \in Residents, AttachDone(r)
        PROVE  UNCHANGED cacheVars
    BY <1>6 DEF AttachDone
  <1> QED
    BY <1>1, <1>2, <1>3, <1>4, <1>5, <1>6 DEF RowsNext, rowsVars, cacheVars

\* Callers share the computation in the map, and none joins a failed one
\* (TtlCache.getOrCompute), whatever the gateway does to the computations.
THEOREM CacheIsSharedAndNeverFailed == RowsSpec => SharedAndNeverFailed
  <1>1. RowsInit => RowsInv
    <2>1. CacheInit => CacheInv
      BY DEF CacheInit, CacheInv, CacheTypeOK
    <2>2. RowsInit => StagesRun
      BY DEF RowsInit, StagesRun
    <2> QED
      BY <2>1, <2>2 DEF RowsInit, RowsInv
  <1>2. RowsInv /\ [RowsNext]_rowsVars => RowsInv'
    BY RowsInvIsInductive
  <1>3. RowsInv /\ [RowsNext]_rowsVars => [Sharing]_cacheVars
    BY NextShares
  <1> QED
    BY <1>1, <1>2, <1>3, PTL DEF RowsSpec, SharedAndNeverFailed

-----------------------------------------------------------------------------
(* The gateway's client.                                                    *)

\* A request under way was sent on some socket, and no socket exists before the
\* field ws names one.
SentOnSockets ==
  /\ ws = NoSocket => \A s \in Sockets : socket[s] = "free"
  /\ \A q \in Requests : request[q] = "pending" => on[q] \in Sockets

GatewayInv == GatewayTypeOK /\ SentOnSockets /\ AttachedFeedIsLive

\* A new client has no socket, no request and no feed.
LEMMA GatewayInvInitially ==
  ASSUME GatewayInit
  PROVE  GatewayInv
  <1> USE DEF GatewayInit
  <1>1. GatewayTypeOK
    <2>1. socket \in [Sockets -> {"free", "connecting", "open", "closing"}]
      OBVIOUS
    <2>2. ws \in Sockets \cup {NoSocket} /\ connected \in BOOLEAN
      OBVIOUS
    <2>3. request \in [Requests -> {"none", "connect", "pending", "ok", "failed"}]
      OBVIOUS
    <2>4. /\ on \in [Requests -> Sockets \cup {NoSocket}]
          /\ via \in [Residents -> Sockets \cup {NoSocket}]
      OBVIOUS
    <2>5. attached \subseteq Residents /\ stale \subseteq Residents
      OBVIOUS
    <2>6. losses \in 0..MaxLosses
      BY LossBound
    <2> QED
      BY ONLY <2>1, <2>2, <2>3, <2>4, <2>5, <2>6 DEF GatewayTypeOK
  <1>2. SentOnSockets
    BY DEF SentOnSockets
  <1>3. AttachedFeedIsLive
    BY DEF AttachedFeedIsLive
  <1> QED
    BY <1>1, <1>2, <1>3 DEF GatewayInv

\* What requests do: ensureConnected and request, whoever asks.
LEMMA AskKeepsGatewayInv ==
  ASSUME GatewayInv, NEW qs \in SUBSET Requests, Ask(qs)
  PROVE  GatewayInv'
  <1> USE DEF GatewayInv
  <1>1. CASE connected /\ WsIs("open") /\ SendAll(qs) /\ UNCHANGED <<socket, ws>>
    <2>1. GatewayTypeOK'
      BY <1>1 DEF GatewayTypeOK, Ask, SendAll
    <2>2. SentOnSockets'
      BY <1>1 DEF GatewayTypeOK, Ask, SendAll, WsIs, SentOnSockets
    <2>3. AttachedFeedIsLive'
      BY <1>1 DEF Ask, AttachedFeedIsLive
    <2> QED
      BY <2>1, <2>2, <2>3
  <1>2. CASE Wait(qs) /\ UNCHANGED <<socket, ws>>
    <2>1. GatewayTypeOK'
      BY <1>2 DEF GatewayTypeOK, Ask, Wait
    <2>2. SentOnSockets'
      BY <1>2 DEF GatewayTypeOK, Ask, Wait, SentOnSockets
    <2>3. AttachedFeedIsLive'
      BY <1>2 DEF Ask, AttachedFeedIsLive
    <2> QED
      BY <2>1, <2>2, <2>3
  <1>3. CASE /\ Wait(qs)
             /\ \E s \in Sockets : socket[s] = "free"
             /\ ws' = CHOOSE s \in Sockets : socket[s] = "free"
             /\ socket' = [socket EXCEPT ![ws'] = "connecting"]
    <2>1. ws' \in Sockets /\ socket[ws'] = "free"
      BY <1>3
    <2>2. GatewayTypeOK'
      BY <1>3, <2>1 DEF GatewayTypeOK, Ask, Wait
    <2>3. SentOnSockets'
      BY <1>3, <2>1, NoSocketIsApart DEF GatewayTypeOK, Ask, Wait, SentOnSockets
    <2>4. AttachedFeedIsLive'
      BY <1>3, <2>1 DEF GatewayTypeOK, Ask, AttachedFeedIsLive
    <2> QED
      BY <2>2, <2>3, <2>4
  <1> QED
    BY <1>1, <1>2, <1>3 DEF Ask

\* Whatever socket fails or closes: every feed is detached, every request that was
\* sent is settled.
LEMMA DisconnectKeepsGatewayInv ==
  ASSUME GatewayInv, NEW s \in Sockets, Refuse(s) \/ Error(s) \/ Close(s)
  PROVE  GatewayInv'
  <1> USE DEF GatewayInv
  <1>1. PICK states \in {{"connect", "pending"}, {"pending"}} : Disconnect(states)
    BY DEF Refuse, Error, Close
  <1>2. PICK to \in {"closing", "free"} : socket' = [socket EXCEPT ![s] = to]
    BY DEF Refuse, Error, Close
  <1>3. losses' \in 0..MaxLosses
    BY LossBound DEF Refuse, Error, Close, GatewayTypeOK
  <1>4. GatewayTypeOK'
    BY <1>1, <1>2, <1>3 DEF GatewayTypeOK, Disconnect
  <1>5. SentOnSockets'
    BY <1>1, <1>2 DEF GatewayTypeOK, Disconnect, SentOnSockets, Refuse, Error, Close
  <1>6. AttachedFeedIsLive'
    BY <1>1 DEF Disconnect, AttachedFeedIsLive
  <1> QED
    BY <1>4, <1>5, <1>6

\* A handshake that ends, and a close whose event is still to come.
LEMMA SocketKeepsGatewayInv ==
  ASSUME GatewayInv, NEW s \in Sockets, Open(s) \/ Lose(s)
  PROVE  GatewayInv'
  <1> USE DEF GatewayInv
  <1>1. CASE Open(s)
    <2>1. ws \in Sockets
      BY <1>1 DEF Open, SentOnSockets, GatewayTypeOK
    <2>2. GatewayTypeOK'
      BY <1>1 DEF Open, SendAll, GatewayTypeOK
    <2>3. SentOnSockets'
      BY <1>1, <2>1, NoSocketIsApart DEF Open, SendAll, GatewayTypeOK, SentOnSockets
    <2>4. AttachedFeedIsLive'
      BY <1>1 DEF Open, AttachedFeedIsLive, GatewayTypeOK
    <2> QED
      BY <2>2, <2>3, <2>4
  <1>2. CASE Lose(s)
    <2>1. GatewayTypeOK'
      BY <1>2, LossBound DEF Lose, GatewayTypeOK
    <2>2. SentOnSockets'
      BY <1>2 DEF Lose, SentOnSockets, GatewayTypeOK
    <2>3. AttachedFeedIsLive'
      BY <1>2 DEF Lose, AttachedFeedIsLive, GatewayTypeOK
    <2> QED
      BY <2>1, <2>2, <2>3
  <1> QED
    BY <1>1, <1>2

\* An answer, in time or not, marks a feed on the socket it comes from.
LEMMA AnswersKeepGatewayInv ==
  ASSUME GatewayInv, NEW q \in Requests, Fulfil(q) \/ FailRequest(q)
  PROVE  GatewayInv'
  <1> USE DEF GatewayInv
  <1>1. CASE Fulfil(q)
    <2>1. on[q] \in Sockets /\ socket[on[q]] = "open"
      BY <1>1 DEF Fulfil, SentOnSockets
    <2>2. GatewayTypeOK'
      BY <1>1, <2>1 DEF Fulfil, GatewayTypeOK
    <2>3. SentOnSockets'
      BY <1>1 DEF Fulfil, SentOnSockets, GatewayTypeOK
    <2>4. AttachedFeedIsLive'
      BY <1>1, <2>1, NoSocketIsApart DEF Fulfil, AttachedFeedIsLive, GatewayTypeOK
    <2> QED
      BY <2>2, <2>3, <2>4
  <1>2. CASE FailRequest(q)
    <2>1. GatewayTypeOK'
      BY <1>2 DEF FailRequest, GatewayTypeOK
    <2>2. SentOnSockets'
      BY <1>2 DEF FailRequest, SentOnSockets, GatewayTypeOK
    <2>3. AttachedFeedIsLive'
      BY <1>2 DEF FailRequest, AttachedFeedIsLive, GatewayTypeOK
    <2> QED
      BY <2>1, <2>2, <2>3
  <1> QED
    BY <1>1, <1>2

\* Messages of a feed, their absence, and the end of an attach.
LEMMA FeedsKeepGatewayInv ==
  ASSUME GatewayInv, NEW r \in Residents,
         GoStale(r) \/ ForgetAttach(r) \/ \E s \in Sockets : Push(r, s)
  PROVE  GatewayInv'
  <1> USE DEF GatewayInv
  <1>1. CASE GoStale(r)
    BY <1>1 DEF GoStale, GatewayTypeOK, SentOnSockets, AttachedFeedIsLive
  <1>2. CASE ForgetAttach(r)
    BY <1>2 DEF ForgetAttach, GatewayTypeOK, SentOnSockets, AttachedFeedIsLive
  <1>3. ASSUME NEW s \in Sockets, Push(r, s)
        PROVE  GatewayInv'
    <2>1. GatewayTypeOK' /\ SentOnSockets'
      BY <1>3 DEF Push, GatewayTypeOK, SentOnSockets
    <2>2. AttachedFeedIsLive'
      BY <1>3, NoSocketIsApart DEF Push, GatewayTypeOK, AttachedFeedIsLive
    <2> QED
      BY <2>1, <2>2
  <1> QED
    BY <1>1, <1>2, <1>3

\* Pages and computations reach the client through Ask and ForgetAttach alone.
LEMMA GatewayInvIsInductive ==
  ASSUME GatewayInv, [RowsNext]_rowsVars
  PROVE  GatewayInv'
  <1>1. ASSUME UNCHANGED gatewayVars
        PROVE  GatewayInv'
    BY <1>1 DEF gatewayVars, GatewayInv, GatewayTypeOK, SentOnSockets, AttachedFeedIsLive
  <1>2. ASSUME NEW c \in Callers, CachedResidentRows(c)
        PROVE  GatewayInv'
    <2>1. ASSUME NEW i \in Computations, Ask({i})
          PROVE  GatewayInv'
      BY <2>1, AskKeepsGatewayInv, OneListEach DEF Requests
    <2> QED
      BY <1>1, <1>2, <2>1 DEF CachedResidentRows
  <1>3. ASSUME NEW i \in Computations, Listed(i)
        PROVE  GatewayInv'
    <2>1. PICK online \in SUBSET Residents :
            UNCHANGED gatewayVars \/ Ask(ToAttach(online))
      BY <1>3 DEF Listed
    <2>2. ToAttach(online) \in SUBSET Requests
      BY DEF ToAttach, Requests
    <2> QED
      BY <1>1, <2>1, <2>2, AskKeepsGatewayInv
  <1>4. ASSUME NEW i \in Computations, Enriched(i)
        PROVE  GatewayInv'
    BY <1>1, <1>4 DEF Enriched
  <1>5. ASSUME NEW r \in Residents, AttachDone(r)
        PROVE  GatewayInv'
    BY <1>5, FeedsKeepGatewayInv DEF AttachDone
  <1>6. CASE GatewayEvent
    BY <1>6, SocketKeepsGatewayInv, DisconnectKeepsGatewayInv, AnswersKeepGatewayInv,
       FeedsKeepGatewayInv DEF GatewayEvent
  <1> QED
    BY <1>1, <1>2, <1>3, <1>4, <1>5, <1>6 DEF RowsNext, rowsVars

\* A feed that counts as attached was attached through a socket that has had no
\* close event (GatewayClient.markResidentFeedsDetached), however many sockets were
\* refused, lost and replaced and in whatever order their events came.
THEOREM AttachedFeedsAreLive == RowsSpec => []AttachedFeedIsLive
  <1>1. RowsInit => GatewayInv
    BY GatewayInvInitially DEF RowsInit
  <1>2. GatewayInv /\ [RowsNext]_rowsVars => GatewayInv'
    BY GatewayInvIsInductive
  <1>3. GatewayInv => AttachedFeedIsLive
    BY DEF GatewayInv
  <1> QED
    BY <1>1, <1>2, <1>3, PTL DEF RowsSpec

\* The type invariant of the rows, the cache and the client together.
THEOREM RowsTypeCorrect == RowsSpec => []RowsTypeOK
  <1>1. RowsInit => RowsInv /\ GatewayInv
    <2>1. CacheInit => CacheInv
      BY DEF CacheInit, CacheInv, CacheTypeOK
    <2>2. RowsInit => StagesRun
      BY DEF RowsInit, StagesRun
    <2>3. GatewayInit => GatewayInv
      BY GatewayInvInitially
    <2> QED
      BY <2>1, <2>2, <2>3 DEF RowsInit, RowsInv
  <1>2. RowsInv /\ GatewayInv /\ [RowsNext]_rowsVars => (RowsInv /\ GatewayInv)'
    BY RowsInvIsInductive, GatewayInvIsInductive
  <1>3. RowsInv /\ GatewayInv => RowsTypeOK
    BY DEF RowsInv, CacheInv, StagesRun, GatewayInv, RowsTypeOK
  <1> QED
    BY <1>1, <1>2, <1>3, PTL DEF RowsSpec

-----------------------------------------------------------------------------
(* The window.                                                              *)

\* Of the numbers of a set there is a smallest one, and below a bound a largest one.
LEMMA SmallestNumber ==
  ASSUME NEW S, S \subseteq Nat, S # {}
  PROVE  \E n \in S : \A m \in S : n <= m
  <1>1. PICK n \in S : \A m \in S : ~(<<m, n>> \in OpToRel(<, Nat))
    BY NatLessThanWellFounded, WFMin
  <1>2. ASSUME NEW m \in S, m < n
        PROVE  FALSE
    <2>1. <<m, n>> \in {ss \in Nat \X Nat : ss[1] < ss[2]}
      BY <1>2
    <2>2. OpToRel(<, Nat) = {ss \in Nat \X Nat : ss[1] < ss[2]}
      BY DEF OpToRel
    <2> QED
      BY <1>1, <2>1, <2>2
  <1> QED
    BY <1>2

LEMMA LargestNumber ==
  ASSUME NEW n \in Nat, NEW S, S \subseteq 1..n, S # {}
  PROVE  Max(S) \in S /\ \A y \in S : Max(S) >= y
  <1> DEFINE T == {n - i : i \in S}
  <1>1. \A i \in S : i \in Int /\ n - i \in Nat
    OBVIOUS
  <1>2. T \subseteq Nat /\ T # {}
    BY <1>1
  <1>3. PICK m \in T : \A k \in T : m <= k
    <2> HIDE DEF T
    <2> QED
      BY <1>2, SmallestNumber
  <1>4. PICK x \in S : m = n - x
    OBVIOUS
  <1>5. ASSUME NEW y \in S
        PROVE  x >= y
    <2>1. n - y \in T
      OBVIOUS
    <2>2. n - x <= n - y
      BY <1>3, <1>4, <2>1
    <2> QED
      BY <1>1, <2>2
  <1> QED
    BY <1>5 DEF Max

\* The bounded sequences of the types.
LEMMA SeqOfIs ==
  ASSUME NEW S, NEW n \in Nat, NEW q
  PROVE  q \in SeqOf(S, n) <=> q \in Seq(S) /\ Len(q) <= n
  <1>1. ASSUME q \in SeqOf(S, n)
        PROVE  q \in Seq(S) /\ Len(q) <= n
    <2>1. PICK m \in 0..n : q \in [1..m -> S]
      BY <1>1 DEF SeqOf
    <2> QED
      BY <2>1
  <1>2. ASSUME q \in Seq(S), Len(q) <= n
        PROVE  q \in SeqOf(S, n)
    <2>1. Len(q) \in 0..n /\ q \in [1..Len(q) -> S]
      BY <1>2
    <2> QED
      BY <2>1 DEF SeqOf
  <1> QED
    BY <1>1, <1>2

\* The newest of a sequence are some of it, its last element among them.
LEMMA NewestAreOfIt ==
  ASSUME NEW S, NEW q \in Seq(S), NEW k \in Nat
  PROVE  /\ Newest(q, k) \in Seq(S) /\ Len(Newest(q, k)) <= k
         /\ ToSet(Newest(q, k)) \subseteq ToSet(q)
         /\ k > 0 /\ q # <<>> => q[Len(q)] \in ToSet(Newest(q, k))
  <1> DEFINE a == IF Len(q) > k THEN Len(q) - k + 1 ELSE 1
             w == SubSeq(q, a, Len(q))
  <1>1. a \in 1..(Len(q) + 1) /\ Len(q) \in Nat /\ Newest(q, k) = w
    BY DEF Newest
  <1>2. w \in Seq(S) /\ Len(w) = Len(q) - a + 1 /\ \A i \in 1..Len(w) : w[i] = q[a + i - 1]
    <2> HIDE DEF a
    <2>1. w \in Seq(S) /\ Len(w) = Len(q) - a + 1
      BY <1>1
    <2> QED
      BY <1>1, <2>1
  <1>3. Len(q) - a + 1 <= k
    OBVIOUS
  <1>4. k > 0 /\ q # <<>> => Len(w) > 0
    <2>1. q # <<>> => Len(q) > 0
      BY <1>1
    <2>2. ASSUME k > 0, Len(q) > 0
          PROVE  Len(q) - a + 1 > 0
      <3>1. a = Len(q) - k + 1 \/ a = 1
        OBVIOUS
      <3> HIDE DEF a
      <3> QED
        BY <1>1, <2>2, <3>1
    <2> HIDE DEF w, a
    <2> QED
      BY <1>2, <2>1, <2>2
  <1> HIDE DEF w, a
  <1>5. DOMAIN w = 1..Len(w) /\ DOMAIN q = 1..Len(q)
    BY <1>2
  <1>6. \A i \in 1..Len(w) : a + i - 1 \in 1..Len(q)
    BY <1>1, <1>2
  <1>7. ToSet(w) \subseteq ToSet(q)
    BY <1>2, <1>5, <1>6 DEF ToSet
  <1>8. Len(w) > 0 => q[Len(q)] \in ToSet(w)
    <2>1. Len(w) > 0 => Len(w) \in 1..Len(w) /\ a + Len(w) - 1 = Len(q)
      BY <1>1, <1>2
    <2> QED
      BY <1>2, <1>5, <2>1 DEF ToSet
  <1> QED
    BY <1>1, <1>2, <1>3, <1>4, <1>7, <1>8

\* A sequence without one of its elements.
LEMMA RemovedAt ==
  ASSUME NEW S, NEW q \in Seq(S), NEW i \in 1..Len(q)
  PROVE  /\ RemoveAt(q, i) \in Seq(S) /\ Len(RemoveAt(q, i)) = Len(q) - 1
         /\ ToSet(RemoveAt(q, i)) \subseteq ToSet(q)
         /\ i < Len(q) => RemoveAt(q, i)[Len(q) - 1] = q[Len(q)]
  <1> DEFINE f == SubSeq(q, 1, i - 1)
             b == SubSeq(q, i + 1, Len(q))
             w == f \o b
  <1>1. f \in Seq(S) /\ Len(f) = i - 1 /\ \A k \in 1..Len(f) : f[k] = q[k]
    OBVIOUS
  <1>2. b \in Seq(S) /\ Len(b) = Len(q) - i /\ \A k \in 1..Len(b) : b[k] = q[i + k]
    OBVIOUS
  <1> HIDE DEF f, b
  <1>3. w \in Seq(S) /\ Len(w) = Len(f) + Len(b)
        /\ \A k \in 1..Len(w) : w[k] = IF k <= Len(f) THEN f[k] ELSE b[k - Len(f)]
    <2>1. f \in Seq(S) /\ b \in Seq(S)
      BY <1>1, <1>2
    <2>2. f \o b \in Seq(S) /\ Len(f \o b) = Len(f) + Len(b)
      BY <2>1
    <2>3. \A k \in 1..Len(f \o b) : (f \o b)[k] = IF k <= Len(f) THEN f[k] ELSE b[k - Len(f)]
      BY <2>1
    <2> QED
      BY <2>2, <2>3
  <1> HIDE DEF w
  <1>4. ASSUME NEW k \in 1..Len(w)
        PROVE  w[k] = q[IF k < i THEN k ELSE k + 1] /\ (IF k < i THEN k ELSE k + 1) \in 1..Len(q)
    <2>1. CASE k < i
      BY <1>1, <1>2, <1>3, <2>1
    <2>2. CASE ~(k < i)
      <3>1. k - Len(f) \in 1..Len(b) /\ i + (k - Len(f)) = k + 1 /\ k + 1 \in 1..Len(q)
        BY <1>1, <1>2, <1>3, <2>2
      <3> QED
        BY <1>1, <1>2, <1>3, <2>2, <3>1
    <2> QED
      BY <2>1, <2>2
  <1>5. RemoveAt(q, i) = w
    BY DEF RemoveAt, w, f, b
  <1>6. ToSet(w) \subseteq ToSet(q)
    <2>1. DOMAIN w = 1..Len(w) /\ DOMAIN q = 1..Len(q)
      BY <1>3
    <2> QED
      BY <1>4, <2>1 DEF ToSet
  <1>7. Len(w) = Len(q) - 1
    BY <1>1, <1>2, <1>3
  <1> QED
    BY <1>3, <1>4, <1>5, <1>6, <1>7

\* What sequences hold once they are appended to, joined and shortened.
LEMMA AppendedSet ==
  ASSUME NEW S, NEW q \in Seq(S), NEW x \in S
  PROVE  Append(q, x) \in Seq(S) /\ ToSet(Append(q, x)) = ToSet(q) \cup {x}
  <1>1. /\ Append(q, x) \in Seq(S) /\ Len(Append(q, x)) = Len(q) + 1 /\ Append(q, x)[Len(q) + 1] = x
        /\ \A i \in 1..Len(q) : Append(q, x)[i] = q[i]
    OBVIOUS
  <1>2. PICK w : w = Append(q, x)
    OBVIOUS
  <1>3. w \in Seq(S) /\ Len(w) = Len(q) + 1 /\ w[Len(q) + 1] = x /\ \A i \in 1..Len(q) : w[i] = q[i]
    BY <1>1, <1>2
  <1>4. DOMAIN w = 1..Len(w) /\ DOMAIN q = 1..Len(q) /\ Len(q) \in Nat
    BY <1>3
  <1>5. \A k : k \in ToSet(w) <=> \E i \in 1..Len(w) : k = w[i]
    BY <1>4 DEF ToSet
  <1>6. \A k : k \in ToSet(q) <=> \E i \in 1..Len(q) : k = q[i]
    BY <1>4 DEF ToSet
  <1>7. 1..Len(w) = 1..Len(q) \cup {Len(q) + 1}
    BY <1>3, <1>4
  <1>8. ToSet(w) = ToSet(q) \cup {x}
    BY <1>3, <1>5, <1>6, <1>7
  <1> QED
    BY <1>1, <1>2, <1>8

\* A window with one packet more: it fits, holds the packet, and has a map if the
\* old one had or the packet is one.
LEMMA WindowAppends ==
  ASSUME NEW n \in Nat \ {0}, NEW ops,
         NEW q \in Seq(1..n), Len(q) <= PacketLimit,
         NEW w, w = AppendSpectatorPacket(q, n, ops)
  PROVE  /\ w \in Seq(1..n) /\ Len(w) <= PacketLimit
         /\ n \in ToSet(w) /\ ToSet(w) \subseteq ToSet(q) \cup {n}
         /\ (\E k \in ToSet(q) \cup {n} : ops[k] = "map") => \E k \in ToSet(w) : ops[k] = "map"
  <1> DEFINE next == Append(q, n)
             maps == MapsIn(next, ops)
             at == Max(maps)
  <1>1. /\ next \in Seq(1..n) /\ Len(next) = Len(q) + 1 /\ next[Len(next)] = n
        /\ \A i \in 1..Len(q) : next[i] = q[i]
    OBVIOUS
  <1>2. PacketLimit \in Nat /\ PacketLimit - 1 \in Nat /\ PacketLimit - 1 > 0
    BY PacketBounds
  <1>3. w = IF Len(next) <= PacketLimit THEN next
            ELSE IF maps = {} THEN Newest(next, PacketLimit)
            ELSE <<next[at]>> \o Newest(RemoveAt(next, at), PacketLimit - 1)
    BY DEF AppendSpectatorPacket, NewestMapBootstrap
  <1>4. maps \subseteq 1..Len(next) /\ DOMAIN next = 1..Len(next) /\ DOMAIN q = 1..Len(q)
    BY <1>1 DEF MapsIn
  <1>5. maps # {} => at \in 1..Len(next) /\ ops[next[at]] = "map"
    <2>1. Len(next) \in Nat
      BY <1>1
    <2>2. ASSUME maps # {}
          PROVE  at \in maps
      <3> HIDE DEF maps
      <3> QED
        BY <1>4, <2>1, <2>2, LargestNumber
    <2> QED
      BY <1>4, <2>2 DEF MapsIn
  <1> HIDE DEF next
  <1>6. ToSet(next) = ToSet(q) \cup {n}
    <2>1. n \in 1..n
      OBVIOUS
    <2> QED
      BY <2>1, AppendedSet DEF next
  <1>7. (\E k \in ToSet(next) : ops[k] = "map") => maps # {}
    <2>1. ASSUME NEW k \in ToSet(next), ops[k] = "map"
          PROVE  maps # {}
      <3>1. PICK i \in DOMAIN next : k = next[i]
        BY <2>1 DEF ToSet
      <3> QED
        BY <2>1, <3>1 DEF MapsIn
    <2> QED
      BY <2>1
  <1> HIDE DEF maps, at
  <1>8. CASE Len(next) <= PacketLimit
    <2>1. w = next
      BY <1>3, <1>8
    <2> QED
      BY <1>1, <1>6, <1>8, <2>1
  <1>9. CASE ~(Len(next) <= PacketLimit) /\ maps = {}
    <2>1. w = Newest(next, PacketLimit)
      BY <1>3, <1>9
    <2>2. next # <<>> /\ PacketLimit > 0
      BY <1>1, <1>2
    <2> QED
      BY <1>1, <1>2, <1>6, <1>7, <1>9, <2>1, <2>2, NewestAreOfIt
  <1>10. CASE ~(Len(next) <= PacketLimit) /\ maps # {}
    <2> DEFINE others == RemoveAt(next, at)
               tail == Newest(others, PacketLimit - 1)
    <2>1. w = <<next[at]>> \o tail
      BY <1>3, <1>10
    <2>2. at \in 1..Len(next) /\ ops[next[at]] = "map" /\ next[at] \in 1..n
      BY <1>1, <1>5, <1>10
    <2>3. /\ others \in Seq(1..n) /\ Len(others) = Len(next) - 1
          /\ ToSet(others) \subseteq ToSet(next)
          /\ at < Len(next) => others[Len(next) - 1] = n
      BY <1>1, <2>2, RemovedAt
    <2>4. others # <<>>
      BY <1>1, <1>2, <1>10, <2>3
    <2> HIDE DEF others
    <2>5. /\ tail \in Seq(1..n) /\ Len(tail) <= PacketLimit - 1 /\ ToSet(tail) \subseteq ToSet(others)
          /\ others[Len(others)] \in ToSet(tail)
      BY <1>2, <2>3, <2>4, NewestAreOfIt
    <2> HIDE DEF tail
    <2>6. w \in Seq(1..n) /\ Len(w) = Len(tail) + 1 /\ ToSet(w) = {next[at]} \cup ToSet(tail)
      <3>1. w \in Seq(1..n) /\ Len(w) = Len(tail) + 1
        BY <2>1, <2>2, <2>5
      <3>2. w[1] = next[at] /\ \A i \in 1..Len(tail) : w[i + 1] = tail[i]
        BY <2>1, <2>2, <2>5
      <3>3. DOMAIN w = 1..Len(w) /\ DOMAIN tail = 1..Len(tail) /\ Len(tail) \in Nat
        BY <2>5, <3>1
      <3>4. \A k : k \in ToSet(w) <=> \E i \in 1..Len(w) : k = w[i]
        BY <3>3 DEF ToSet
      <3>5. \A k : k \in ToSet(tail) <=> \E i \in 1..Len(tail) : k = tail[i]
        BY <3>3 DEF ToSet
      <3>6. \A i \in 1..Len(w) : i = 1 \/ (i - 1 \in 1..Len(tail) /\ w[i] = tail[i - 1])
        BY <3>1, <3>2, <3>3
      <3>7. 1 \in 1..Len(w) /\ \A i \in 1..Len(tail) : i + 1 \in 1..Len(w)
        BY <3>1, <3>3
      <3>8. ASSUME NEW k \in ToSet(w)
            PROVE  k \in {next[at]} \cup ToSet(tail)
        <4>1. PICK i \in 1..Len(w) : k = w[i]
          BY <3>4, <3>8
        <4>2. CASE i = 1
          BY <3>2, <4>1, <4>2
        <4>3. CASE i # 1
          <5>1. i - 1 \in 1..Len(tail) /\ k = tail[i - 1]
            BY <3>6, <4>1, <4>3
          <5> QED
            BY <3>5, <5>1
        <4> QED
          BY <4>2, <4>3
      <3>9. ASSUME NEW k \in {next[at]} \cup ToSet(tail)
            PROVE  k \in ToSet(w)
        BY <3>2, <3>4, <3>5, <3>7
      <3> QED
        BY <3>1, <3>8, <3>9
    <2>7. next[at] \in ToSet(next)
      BY <1>4, <2>2 DEF ToSet
    <2>8. n \in ToSet(w)
      <3>1. CASE at < Len(next)
        BY <2>3, <2>5, <2>6, <3>1
      <3>2. CASE ~(at < Len(next))
        <4>1. at = Len(next)
          BY <1>1, <2>2, <3>2
        <4> QED
          BY <1>1, <2>6, <4>1
      <3> QED
        BY <3>1, <3>2
    <2>9. ToSet(w) \subseteq ToSet(q) \cup {n}
      BY <1>6, <2>3, <2>5, <2>6, <2>7
    <2>10. Len(w) <= PacketLimit
      BY <1>2, <2>5, <2>6
    <2> QED
      BY <2>2, <2>6, <2>8, <2>9, <2>10
  <1> QED
    BY <1>8, <1>9, <1>10

-----------------------------------------------------------------------------
(* What a flush posts.                                                      *)

\* The loop of a flush over the first n packets of a window.
Loop(F, q, s, n) ==
  F = [i \in 0..n |-> IF i = 0 THEN <<>>
                      ELSE IF q[i] \in s THEN F[i - 1] ELSE Append(F[i - 1], q[i])]

\* The loop runs over every window: the smallest one it did not would have one more
\* step than one it did.
LEMMA LoopsExist ==
  ASSUME NEW q, NEW s, NEW n \in Nat
  PROVE  \E F : Loop(F, q, s, n)
  <1> DEFINE Bad == {m \in Nat : ~\E F : Loop(F, q, s, m)}
  <1> SUFFICES ASSUME Bad # {} PROVE FALSE
    OBVIOUS
  <1>1. PICK m \in Bad : \A k \in Bad : m <= k
    <2>1. Bad \subseteq Nat
      OBVIOUS
    <2> HIDE DEF Bad
    <2> QED
      BY <2>1, SmallestNumber
  <1>2. m \in Nat /\ ~\E F : Loop(F, q, s, m)
    OBVIOUS
  <1>3. CASE m = 0
    <2>1. Loop([i \in 0..0 |-> <<>>], q, s, 0)
      BY DEF Loop
    <2> QED
      BY <1>2, <1>3, <2>1
  <1>4. CASE m # 0
    <2>1. m - 1 \in Nat /\ ~(m <= m - 1)
      BY <1>2, <1>4
    <2>2. PICK F : Loop(F, q, s, m - 1)
      BY <1>1, <2>1
    <2> DEFINE step(i, before) == IF q[i] \in s THEN before ELSE Append(before, q[i])
               G == [i \in 0..m |-> IF i = m THEN step(m, F[m - 1]) ELSE F[i]]
               R == [i \in 0..m |-> IF i = 0 THEN <<>> ELSE step(i, G[i - 1])]
    <2>3. ASSUME NEW i \in 0..m
          PROVE  G[i] = R[i]
      <3>1. CASE i = m
        <4>1. m \in 0..m /\ m - 1 \in 0..m /\ m - 1 # m /\ m # 0
          BY <1>2, <1>4
        <4>2. G[m] = step(m, F[m - 1]) /\ G[m - 1] = F[m - 1] /\ R[m] = step(m, G[m - 1])
          BY <4>1
        <4> QED
          BY <3>1, <4>2
      <3>2. CASE i # m
        <4>1. i \in 0..(m - 1)
          BY <1>2, <3>2
        <4>2. F[i] = IF i = 0 THEN <<>> ELSE step(i, F[i - 1])
          BY <2>2, <4>1 DEF Loop
        <4>3. i # 0 => i - 1 \in 0..m /\ i - 1 # m
          BY <1>2, <4>1
        <4>4. i # 0 => G[i - 1] = F[i - 1]
          BY <4>3
        <4>5. G[i] = F[i]
          BY <3>2
        <4>6. R[i] = IF i = 0 THEN <<>> ELSE step(i, G[i - 1])
          OBVIOUS
        <4> HIDE DEF G, R, step
        <4> QED
          BY <4>2, <4>4, <4>5, <4>6
      <3> QED
        BY <3>1, <3>2
    <2>4. G = R
      <3>1. DOMAIN G = 0..m /\ DOMAIN R = 0..m /\ G = [i \in 0..m |-> G[i]] /\ R = [i \in 0..m |-> R[i]]
        OBVIOUS
      <3> HIDE DEF G, R
      <3> QED
        BY <2>3, <3>1
    <2>5. Loop(G, q, s, m)
      <3> HIDE DEF G
      <3> QED
        BY <2>4 DEF Loop
    <2> QED
      BY <1>2, <2>5
  <1> QED
    BY <1>3, <1>4

\* A flush posts exactly the packets of the window that were not sent.
LEMMA PostsUnsent ==
  ASSUME NEW S, NEW p, p.packets \in Seq(S), NEW s
  PROVE  New(p, s) \in Seq(S) /\ ToSet(New(p, s)) = ToSet(p.packets) \ s
  <1> DEFINE q == p.packets
             n == Len(q)
             F == CHOOSE G : Loop(G, q, s, n)
  <1>1. n \in Nat /\ DOMAIN q = 1..n /\ \A i \in 1..n : q[i] \in S
    OBVIOUS
  <1>2. New(p, s) = F[n]
    BY DEF New, Loop
  <1>3. Loop(F, q, s, n)
    BY <1>1, LoopsExist
  <1> DEFINE Posts(i) == /\ F[i] \in Seq(S)
                         /\ ToSet(F[i]) = {q[j] : j \in 1..i} \ s
             Bad == {i \in 0..n : ~Posts(i)}
  <1> HIDE DEF F, q, n
  <1>4. Bad = {}
    <2> SUFFICES ASSUME Bad # {} PROVE FALSE
      OBVIOUS
    <2>1. PICK m \in Bad : \A k \in Bad : m <= k
      <3>1. Bad \subseteq Nat
        BY <1>1
      <3> HIDE DEF Bad
      <3> QED
        BY <3>1, SmallestNumber
    <2>2. m \in 0..n /\ ~Posts(m) /\ m \in Nat
      BY <1>1
    <2>3. F[m] = IF m = 0 THEN <<>> ELSE IF q[m] \in s THEN F[m - 1] ELSE Append(F[m - 1], q[m])
      BY <1>3, <2>2 DEF Loop
    <2>4. CASE m = 0
      BY <2>2, <2>3, <2>4 DEF ToSet
    <2>5. CASE m # 0
      <3>1. m - 1 \in 0..n /\ ~(m <= m - 1) /\ m \in 1..n
        BY <1>1, <2>2, <2>5
      <3>2. F[m - 1] \in Seq(S) /\ ToSet(F[m - 1]) = {q[j] : j \in 1..(m - 1)} \ s
        BY <2>1, <3>1
      <3>3. {q[j] : j \in 1..m} = {q[j] : j \in 1..(m - 1)} \cup {q[m]}
        <4>1. 1..m = 1..(m - 1) \cup {m}
          BY <2>2, <3>1
        <4> QED
          BY <4>1
      <3>4. CASE q[m] \in s
        BY <2>2, <2>3, <2>5, <3>2, <3>3, <3>4
      <3>5. CASE q[m] \notin s
        <4>1. F[m] = Append(F[m - 1], q[m]) /\ q[m] \in S
          BY <1>1, <2>3, <2>5, <3>1, <3>5
        <4>2. F[m] \in Seq(S) /\ ToSet(F[m]) = ToSet(F[m - 1]) \cup {q[m]}
          BY <3>2, <4>1, AppendedSet
        <4> QED
          BY <2>2, <3>2, <3>3, <3>5, <4>2
      <3> QED
        BY <3>4, <3>5
    <2> QED
      BY <2>4, <2>5
  <1>5. Posts(n)
    <2>1. n \in 0..n
      BY <1>1
    <2> HIDE DEF Posts
    <2> QED
      BY <1>4, <2>1
  <1>6. {q[j] : j \in 1..n} = ToSet(q)
    BY <1>1 DEF ToSet
  <1> QED
    BY <1>2, <1>5, <1>6 DEF q

LEMMA JoinedSet ==
  ASSUME NEW S, NEW q \in Seq(S), NEW r \in Seq(S)
  PROVE  q \o r \in Seq(S) /\ ToSet(q \o r) = ToSet(q) \cup ToSet(r)
  <1>1. PICK w : w = q \o r
    OBVIOUS
  <1>2. w \in Seq(S) /\ Len(w) = Len(q) + Len(r) /\ Len(q) \in Nat /\ Len(r) \in Nat
    BY <1>1
  <1>3. \A i \in 1..Len(w) : w[i] = IF i <= Len(q) THEN q[i] ELSE r[i - Len(q)]
    BY <1>1
  <1>4. DOMAIN w = 1..Len(w) /\ DOMAIN q = 1..Len(q) /\ DOMAIN r = 1..Len(r)
    BY <1>2
  <1>5. ASSUME NEW k \in ToSet(w)
        PROVE  k \in ToSet(q) \cup ToSet(r)
    <2>1. PICK i \in 1..Len(w) : k = w[i]
      BY <1>4 DEF ToSet
    <2>2. CASE i <= Len(q)
      <3>1. i \in 1..Len(q) /\ k = q[i]
        BY <1>2, <1>3, <2>1, <2>2
      <3> QED
        BY <1>4, <3>1 DEF ToSet
    <2>3. CASE ~(i <= Len(q))
      <3>1. i - Len(q) \in 1..Len(r) /\ k = r[i - Len(q)]
        BY <1>2, <1>3, <2>1, <2>3
      <3> QED
        BY <1>4, <3>1 DEF ToSet
    <2> QED
      BY <2>2, <2>3
  <1>6. ASSUME NEW k \in ToSet(q)
        PROVE  k \in ToSet(w)
    <2>1. PICK i \in 1..Len(q) : k = q[i]
      BY <1>4 DEF ToSet
    <2>2. i \in 1..Len(w) /\ w[i] = k
      BY <1>2, <1>3, <2>1
    <2> QED
      BY <1>4, <2>2 DEF ToSet
  <1>7. ASSUME NEW k \in ToSet(r)
        PROVE  k \in ToSet(w)
    <2>1. PICK i \in 1..Len(r) : k = r[i]
      BY <1>4 DEF ToSet
    <2>2. Len(q) + i \in 1..Len(w) /\ ~(Len(q) + i <= Len(q)) /\ (Len(q) + i) - Len(q) = i
      BY <1>2, <2>1
    <2>3. w[Len(q) + i] = k
      BY <1>3, <2>1, <2>2
    <2> QED
      BY <1>4, <2>2, <2>3 DEF ToSet
  <1> QED
    BY <1>1, <1>2, <1>5, <1>6, <1>7

LEMMA TailSet ==
  ASSUME NEW S, NEW q \in Seq(S), q # <<>>
  PROVE  /\ Tail(q) \in Seq(S) /\ Len(Tail(q)) = Len(q) - 1 /\ Len(q) \in Nat \ {0}
         /\ \A i \in 1..(Len(q) - 1) : Tail(q)[i] = q[i + 1]
         /\ Head(q) = q[1] /\ ToSet(q) = {Head(q)} \cup ToSet(Tail(q))
  <1>1. /\ Tail(q) \in Seq(S) /\ Len(Tail(q)) = Len(q) - 1 /\ Len(q) \in Nat \ {0}
        /\ \A i \in 1..(Len(q) - 1) : Tail(q)[i] = q[i + 1]
        /\ Head(q) = q[1]
    OBVIOUS
  <1>2. PICK w : w = Tail(q)
    OBVIOUS
  <1>3. DOMAIN w = 1..Len(w) /\ DOMAIN q = 1..Len(q) /\ Len(w) = Len(q) - 1
    BY <1>1, <1>2
  <1>4. ASSUME NEW k \in ToSet(q)
        PROVE  k = q[1] \/ k \in ToSet(w)
    <2>1. PICK i \in 1..Len(q) : k = q[i]
      BY <1>3 DEF ToSet
    <2>2. CASE i # 1
      <3>1. i - 1 \in 1..Len(w) /\ w[i - 1] = k
        BY <1>1, <1>2, <1>3, <2>1, <2>2
      <3> QED
        BY <1>3, <3>1 DEF ToSet
    <2> QED
      BY <2>1, <2>2
  <1>5. ASSUME NEW k \in ToSet(w)
        PROVE  k \in ToSet(q)
    <2>1. PICK i \in 1..Len(w) : k = w[i]
      BY <1>3 DEF ToSet
    <2>2. i + 1 \in 1..Len(q) /\ q[i + 1] = k
      BY <1>1, <1>2, <1>3, <2>1
    <2> QED
      BY <1>3, <2>2 DEF ToSet
  <1>6. q[1] \in ToSet(q)
    <2>1. 1 \in 1..Len(q)
      BY <1>1
    <2> QED
      BY <1>3, <2>1 DEF ToSet
  <1> QED
    BY <1>1, <1>2, <1>4, <1>5, <1>6

LEMMA ElementsAreOf ==
  ASSUME NEW S, NEW q \in Seq(S)
  PROVE  ToSet(q) \subseteq S /\ (ToSet(q) = {} => q = <<>>) /\ ToSet(<<>>) = {}
  <1>1. DOMAIN q = 1..Len(q) /\ Len(q) \in Nat
    OBVIOUS
  <1>2. q # <<>> => 1 \in 1..Len(q)
    OBVIOUS
  <1>3. q # <<>> => q[1] \in ToSet(q)
    BY <1>1, <1>2 DEF ToSet
  <1>4. ToSet(<<>>) = {}
    BY DEF ToSet
  <1>5. ToSet(q) \subseteq S
    BY <1>1 DEF ToSet
  <1>6. ToSet(q) = {} => q = <<>>
    BY <1>3
  <1> QED
    BY <1>4, <1>5, <1>6

-----------------------------------------------------------------------------
(* The invariant of a session that is watched.                              *)

\* A set of packets with one that came after a map has a map.
HasBootstrap(S) ==
  \A n \in 1..Len(opcode), k \in S : opcode[n] = "map" /\ n <= k => \E m \in S : opcode[m] = "map"

Windows ==
  {s \in [connected : BOOLEAN, packets : Seq(1..Len(opcode))] :
     Len(s.packets) <= PacketLimit /\ HasBootstrap(ToSet(s.packets))}

\* No packet of one window is newer than all of another.
Before(s, t) == \A j \in ToSet(s.packets) : \E k \in ToSet(t.packets) : j <= k

WindowsInv ==
  /\ opcode \in Seq(Opcodes) /\ Len(opcode) <= MaxPackets
  /\ session \in Windows /\ pending \in Windows /\ events \in Seq(Windows)
  /\ opcode # <<>> => Len(opcode) \in ToSet(session.packets)

\* The page's session, the events under way and the gateway's session get newer in
\* this order.
StreamInv ==
  /\ known \in BOOLEAN /\ streaming \in BOOLEAN
  /\ ~streaming => events = <<>>
  /\ events # <<>> => events[Len(events)] = session
  /\ Before(pending, session)
  /\ \A i \in 1..Len(events) : Before(pending, events[i]) /\ Before(events[i], session)
  /\ \A i, j \in 1..Len(events) : i < j => Before(events[i], events[j])
  /\ ~pending.connected => pending = NoSession

\* What the document was given or is being given.
Given == pushed \cup ToSet(toFrame)

FrameTypes ==
  /\ toFrame \in Seq(1..Len(opcode)) /\ pushed \subseteq 1..Len(opcode) /\ sent \subseteq 1..Len(opcode)
  /\ started \in BOOLEAN /\ loaded \in BOOLEAN /\ loadDue \in BOOLEAN
  /\ document \in {"none", "loading", "ready"}
  /\ readies \in 0..MaxEvents

BridgeInv ==
  /\ started = pending.connected
  /\ ~started => document = "none"
  /\ document # "ready" => pushed = {}
  /\ \A k \in Given : \E j \in ToSet(pending.packets) : k <= j
  /\ document = "ready" /\ readies = 0 => sent \subseteq Given /\ HasBootstrap(Given)

ViewInv == WindowsInv /\ StreamInv /\ FrameTypes /\ BridgeInv

\* What a window is, in the parts the steps use.
LEMMA WindowIs ==
  ASSUME NEW s \in Windows
  PROVE  /\ s.connected \in BOOLEAN /\ s.packets \in Seq(1..Len(opcode))
         /\ ToSet(s.packets) \subseteq 1..Len(opcode) /\ HasBootstrap(ToSet(s.packets))
  BY ElementsAreOf DEF Windows

LEMMA NoSessionIsWindow == NoSession \in Windows /\ ToSet(NoSession.packets) = {} /\ ~NoSession.connected
  <1>1. ToSet(<<>>) = {}
    BY DEF ToSet
  <1>2. Len(<<>>) = 0 /\ <<>> \in Seq(1..Len(opcode)) /\ 0 <= PacketLimit
    BY PacketBounds
  <1> QED
    BY <1>1, <1>2 DEF NoSession, Windows, HasBootstrap

\* Nothing came, nothing is shown.
LEMMA ViewStarts ==
  ASSUME ViewInit
  PROVE  ViewInv
  <1>1. opcode = <<>> /\ Len(opcode) = 0 /\ opcode \in Seq(Opcodes) /\ Len(opcode) <= MaxPackets
    BY PacketBounds DEF ViewInit
  <1>2. WindowsInv
    BY <1>1, NoSessionIsWindow DEF ViewInit, WindowsInv
  <1>3. StreamInv
    <2>1. Before(pending, session)
      BY NoSessionIsWindow DEF ViewInit, Before
    <2>2. events = <<>> /\ Len(events) = 0
      BY DEF ViewInit
    <2>3. /\ \A i \in 1..Len(events) : Before(pending, events[i]) /\ Before(events[i], session)
          /\ \A i, j \in 1..Len(events) : i < j => Before(events[i], events[j])
      BY <2>2
    <2>4. known = FALSE /\ streaming = FALSE /\ pending = NoSession
      BY DEF ViewInit
    <2> QED
      BY <2>1, <2>2, <2>3, <2>4 DEF StreamInv
  <1>4. FrameTypes
    <2>1. toFrame \in Seq(1..Len(opcode)) /\ 0 \in 0..MaxEvents
      BY PacketBounds DEF ViewInit
    <2> QED
      BY <2>1 DEF ViewInit, FrameTypes
  <1>5. BridgeInv
    <2>1. Given = {}
      BY DEF ViewInit, Given, ToSet
    <2> QED
      BY <2>1 DEF ViewInit, BridgeInv, NoSession
  <1> QED
    BY <1>2, <1>3, <1>4, <1>5 DEF ViewInv

-----------------------------------------------------------------------------
(* The bridge.                                                              *)

\* A flush that posts a window to a listening document.
LEMMA FlushPosts ==
  ASSUME FrameTypes, NEW p \in Windows, NEW s, toFrame' = toFrame \o New(p, s)
  PROVE  /\ toFrame' \in Seq(1..Len(opcode))
         /\ ToSet(toFrame') = ToSet(toFrame) \cup (ToSet(p.packets) \ s)
  <1>1. New(p, s) \in Seq(1..Len(opcode)) /\ ToSet(New(p, s)) = ToSet(p.packets) \ s
    BY WindowIs, PostsUnsent
  <1>2. toFrame \in Seq(1..Len(opcode))
    BY DEF FrameTypes
  <1> QED
    BY <1>1, <1>2, JoinedSet

\* The page shows another session or a newer window of the one it shows.
LEMMA ShowKeepsBridge ==
  ASSUME WindowsInv, FrameTypes, BridgeInv, UNCHANGED opcode, NEW s \in Windows,
         s.connected => Before(pending, s), ~pending.connected => pending = NoSession, Show(s)
  PROVE  /\ FrameTypes' /\ BridgeInv' /\ pending' \in Windows'
         /\ pending' = IF s.connected THEN s ELSE NoSession
  <1> DEFINE f == IF s.connected = pending.connected THEN sent ELSE {}
  <1>1. /\ pending' = IF s.connected THEN s ELSE NoSession
        /\ UNCHANGED readies /\ Flush(pending', loaded, f)
    BY DEF Show
  <1>2. s.connected \in BOOLEAN /\ pending.connected \in BOOLEAN /\ pending'.connected = s.connected
    BY <1>1, WindowIs, NoSessionIsWindow DEF WindowsInv
  <1>3. pending' \in Windows /\ Windows' = Windows
    BY <1>1, NoSessionIsWindow DEF Windows, HasBootstrap
  <1>4. f \subseteq 1..Len(opcode)
    BY DEF FrameTypes
  <1>5. Len(opcode') = Len(opcode) /\ \A S : HasBootstrap(S)' <=> HasBootstrap(S)
    BY DEF HasBootstrap
  <1>fresh. ASSUME toFrame' = <<>>, pushed' = {}, sent' = f, started' \in BOOLEAN, loaded' = FALSE,
                loadDue' \in BOOLEAN, document' \in {"none", "loading"}
         PROVE  FrameTypes'
    <2>1. toFrame' \in Seq(1..Len(opcode'))
      BY <1>fresh
    <2>2. sent' \subseteq 1..Len(opcode')
      BY <1>4, <1>5, <1>fresh
    <2>3. readies' \in 0..MaxEvents
      BY <1>1 DEF FrameTypes
    <2> QED
      BY <1>fresh, <2>1, <2>2, <2>3 DEF FrameTypes
  <1>6. CASE ~s.connected /\ started
    <2>1. StopClient /\ sent' = f
      BY <1>1, <1>2, <1>6 DEF Flush
    <2>2. Given' = {}
      BY <2>1 DEF StopClient, Given, ToSet
    <2>3. toFrame' = <<>> /\ pushed' = {} /\ sent' = f /\ started' \in BOOLEAN
          /\ loaded' = FALSE /\ loadDue' \in BOOLEAN /\ document' \in {"none", "loading"}
      BY <2>1 DEF StopClient
    <2>4. FrameTypes'
      BY <1>fresh, <2>3
    <2>5. BridgeInv'
      BY <1>2, <1>6, <2>1, <2>2 DEF BridgeInv, StopClient
    <2> QED
      BY <1>1, <1>3, <2>4, <2>5
  <1>7. CASE ~s.connected /\ ~started
    <2>1. sent' = f /\ UNCHANGED <<loaded, started, document, loadDue, toFrame, pushed>>
      BY <1>1, <1>2, <1>7 DEF Flush
    <2>2. ~pending.connected /\ pending = NoSession
      BY <1>2, <1>7 DEF BridgeInv
    <2>3. Given = {} /\ Given' = Given
      BY <2>1, <2>2, NoSessionIsWindow DEF BridgeInv, Given
    <2>4. FrameTypes'
      BY <1>1, <1>4, <1>5, <2>1 DEF FrameTypes
    <2>5. BridgeInv'
      BY <1>2, <1>7, <2>1, <2>3 DEF BridgeInv
    <2> QED
      BY <1>1, <1>3, <2>4, <2>5
  <1>8. CASE s.connected /\ ~started
    <2>1. StartClient /\ sent' = f
      BY <1>1, <1>2, <1>8 DEF Flush
    <2>2. Given' = {}
      BY <2>1 DEF StartClient, Given, ToSet
    <2>3. toFrame' = <<>> /\ pushed' = {} /\ sent' = f /\ started' \in BOOLEAN
          /\ loaded' = FALSE /\ loadDue' \in BOOLEAN /\ document' \in {"none", "loading"}
      BY <2>1 DEF StartClient
    <2>4. FrameTypes'
      BY <1>fresh, <2>3
    <2>5. BridgeInv'
      BY <1>2, <1>8, <2>1, <2>2 DEF BridgeInv, StartClient
    <2> QED
      BY <1>1, <1>3, <2>4, <2>5
  <1>9. CASE s.connected /\ started
    <2>1. pending' = s /\ f = sent /\ pending.connected
      BY <1>1, <1>2, <1>9 DEF BridgeInv
    <2>2. /\ UNCHANGED <<loaded, started, document, loadDue, pushed>>
          /\ IF loaded THEN toFrame' = toFrame \o New(s, sent) /\ sent' = sent \cup ToSet(s.packets)
             ELSE UNCHANGED <<sent, toFrame>>
      BY <1>1, <1>2, <1>9, <2>1 DEF Flush
    <2>3. ToSet(s.packets) \subseteq 1..Len(opcode) /\ HasBootstrap(ToSet(s.packets))
      BY WindowIs
    <2>4. Given \subseteq 1..Len(opcode) /\ ToSet(pending.packets) \subseteq 1..Len(opcode)
      BY WindowIs, ElementsAreOf DEF Given, FrameTypes, WindowsInv
    <2>5. \A k \in Given : \E j \in ToSet(s.packets) : k <= j
      <3> SUFFICES ASSUME NEW k \in Given PROVE \E j \in ToSet(s.packets) : k <= j
        OBVIOUS
      <3>1. PICK i \in ToSet(pending.packets) : k <= i
        BY DEF BridgeInv
      <3>2. PICK j \in ToSet(s.packets) : i <= j
        BY <1>9, <3>1 DEF Before
      <3>3. k \in Nat /\ i \in Nat /\ j \in Nat
        BY <2>3, <2>4
      <3> QED
        BY <3>1, <3>2, <3>3
    <2>6. CASE ~loaded
      <3>1. Given' = Given /\ UNCHANGED <<sent, toFrame, pushed, started, document, readies>>
        BY <1>1, <2>2, <2>6 DEF Given
      <3>2. FrameTypes'
        BY <1>1, <1>5, <2>2, <3>1 DEF FrameTypes
      <3>3. BridgeInv'
        BY <1>2, <1>5, <1>9, <2>1, <2>5, <3>1 DEF BridgeInv
      <3> QED
        BY <1>1, <1>3, <3>2, <3>3
    <2>7. CASE loaded
      <3>1. /\ toFrame' \in Seq(1..Len(opcode)) /\ sent' = sent \cup ToSet(s.packets)
            /\ ToSet(toFrame') = ToSet(toFrame) \cup (ToSet(s.packets) \ sent)
        BY <2>2, <2>7, FlushPosts
      <3>2. Given' = Given \cup (ToSet(s.packets) \ sent)
        BY <2>2, <3>1 DEF Given
      <3>3. FrameTypes'
        BY <1>1, <1>5, <2>2, <2>3, <3>1 DEF FrameTypes
      <3>4. \A k \in Given' : \E j \in ToSet(s.packets) : k <= j
        <4>1. \A k \in ToSet(s.packets) : k <= k
          BY <2>3
        <4> QED
          BY <2>5, <3>2, <4>1
      <3>5. ASSUME document = "ready", readies = 0
            PROVE  sent' \subseteq Given' /\ HasBootstrap(Given')
        <4>1. sent \subseteq Given /\ HasBootstrap(Given)
          BY <3>5 DEF BridgeInv
        <4>2. sent' \subseteq Given' /\ Given' = Given \cup ToSet(s.packets)
          BY <3>1, <3>2, <4>1
        <4>3. HasBootstrap(Given \cup ToSet(s.packets))
          BY <2>3, <4>1 DEF HasBootstrap
        <4> QED
          BY <4>2, <4>3
      <3>6. BridgeInv'
        BY <1>1, <1>2, <1>5, <1>9, <2>1, <2>2, <3>4, <3>5 DEF BridgeInv
      <3> QED
        BY <1>1, <1>3, <3>3, <3>6
    <2> QED
      BY <2>6, <2>7 DEF FrameTypes
  <1> QED
    BY <1>2, <1>6, <1>7, <1>8, <1>9 DEF FrameTypes

-----------------------------------------------------------------------------
(* The session's stream.                                                    *)

LEMMA SeqWidens ==
  ASSUME NEW A, NEW B, A \subseteq B, NEW q \in Seq(A)
  PROVE  q \in Seq(B)
  OBVIOUS

LEMMA WindowsStay ==
  ASSUME UNCHANGED opcode
  PROVE  Windows' = Windows /\ \A S : HasBootstrap(S)' <=> HasBootstrap(S)
  BY DEF Windows, HasBootstrap

\* What was bootstrapped stays so when a packet comes.
LEMMA WindowsWiden ==
  ASSUME WindowsInv, NEW kind \in Opcodes, opcode' = Append(opcode, kind)
  PROVE  /\ Len(opcode') = Len(opcode) + 1 /\ Len(opcode) \in Nat
         /\ \A n \in 1..Len(opcode) : opcode'[n] = opcode[n]
         /\ \A S : S \subseteq 1..Len(opcode) /\ HasBootstrap(S) => HasBootstrap(S)'
         /\ Windows \subseteq Windows'
  <1>1. Len(opcode') = Len(opcode) + 1 /\ Len(opcode) \in Nat
        /\ \A n \in 1..Len(opcode) : opcode'[n] = opcode[n]
    BY DEF WindowsInv
  <1>2. ASSUME NEW S, S \subseteq 1..Len(opcode), HasBootstrap(S)
        PROVE  HasBootstrap(S)'
    <2> SUFFICES ASSUME NEW n \in 1..Len(opcode'), NEW k \in S, opcode'[n] = "map", n <= k
                 PROVE  \E m \in S : opcode'[m] = "map"
      BY DEF HasBootstrap
    <2>1. n \in 1..Len(opcode) /\ opcode[n] = "map"
      <3>1. k \in 1..Len(opcode)
        BY <1>2
      <3>2. n \in 1..Len(opcode)
        BY <1>1, <3>1
      <3> QED
        BY <1>1, <3>2
    <2>2. PICK m \in S : opcode[m] = "map"
      BY <1>2, <2>1 DEF HasBootstrap
    <2> QED
      BY <1>1, <1>2, <2>2
  <1>3. ASSUME NEW s \in Windows
        PROVE  s \in Windows'
    <2>1. /\ s \in [connected : BOOLEAN, packets : Seq(1..Len(opcode))]
          /\ Len(s.packets) <= PacketLimit
          /\ ToSet(s.packets) \subseteq 1..Len(opcode) /\ HasBootstrap(ToSet(s.packets))
      BY WindowIs DEF Windows
    <2>2. 1..Len(opcode) \subseteq 1..Len(opcode')
      BY <1>1
    <2>3. s.packets \in Seq(1..Len(opcode'))
      <3>1. s.packets \in Seq(1..Len(opcode))
        BY <2>1
      <3> QED
        BY <2>2, <3>1, SeqWidens
    <2>4. s \in [connected : BOOLEAN, packets : Seq(1..Len(opcode'))]
      BY <2>1, <2>3
    <2>5. PICK S : S = ToSet(s.packets)
      OBVIOUS
    <2>6. HasBootstrap(S)'
      BY <1>2, <2>1, <2>5
    <2> QED
      BY <2>1, <2>4, <2>5, <2>6 DEF Windows
  <1> QED
    BY <1>1, <1>2, <1>3

\* The page is sent the session as it changes.
LEMMA StreamGrows ==
  ASSUME WindowsInv, StreamInv, NEW s, session' = s, StreamSession(s),
         UNCHANGED <<known, streaming, pending>>, Before(s, s),
         \A t \in Windows : Before(t, session) => Before(t, s)
  PROVE  StreamInv'
  <1>1. \A i \in 1..Len(events) : events[i] \in Windows
    BY DEF WindowsInv
  <1>2. Before(pending, s) /\ \A i \in 1..Len(events) : Before(events[i], s)
    BY <1>1 DEF StreamInv, WindowsInv
  <1>3. CASE streaming
    <2>1. PICK e : e = events'
      OBVIOUS
    <2>2. e = Append(events, s) /\ events \in Seq(Windows)
      BY <1>3, <2>1 DEF StreamSession, WindowsInv
    <2>3. /\ Len(e) = Len(events) + 1 /\ Len(events) \in Nat /\ e[Len(e)] = s
          /\ \A i \in 1..Len(events) : e[i] = events[i]
      BY <2>2
    <2>4. ASSUME NEW i \in 1..Len(e)
          PROVE  Before(pending, e[i]) /\ Before(e[i], s)
      <3>1. CASE i \in 1..Len(events)
        BY <1>2, <2>3, <3>1 DEF StreamInv
      <3>2. CASE i \notin 1..Len(events)
        <4>1. e[i] = s
          BY <2>3, <3>2
        <4> QED
          BY <1>2, <4>1
      <3> QED
        BY <3>1, <3>2
    <2>5. ASSUME NEW i \in 1..Len(e), NEW j \in 1..Len(e), i < j
          PROVE  Before(e[i], e[j])
      <3>1. i \in 1..Len(events)
        BY <2>3, <2>5
      <3>2. CASE j \in 1..Len(events)
        BY <2>3, <2>5, <3>1, <3>2 DEF StreamInv
      <3>3. CASE j \notin 1..Len(events)
        <4>1. e[j] = s
          BY <2>3, <3>3
        <4> QED
          BY <1>2, <2>3, <3>1, <4>1
      <3> QED
        BY <3>2, <3>3
    <2>6. e # <<>> => e[Len(e)] = s
      BY <2>3
    <2> QED
      BY <1>2, <1>3, <2>1, <2>4, <2>5, <2>6 DEF StreamInv
  <1>4. CASE ~streaming
    <2>1. events' = events /\ events = <<>>
      BY <1>4 DEF StreamSession, StreamInv
    <2>2. /\ \A i \in 1..Len(events) : Before(pending, events[i]) /\ Before(events[i], s)
          /\ \A i, j \in 1..Len(events) : i < j => Before(events[i], events[j])
      BY <2>1
    <2> QED
      BY <1>2, <1>4, <2>1, <2>2 DEF StreamInv
  <1> QED
    BY <1>3, <1>4 DEF StreamInv

-----------------------------------------------------------------------------
(* The steps.                                                               *)

\* Of an unchanged stream the page shows the same.
LEMMA StreamStays ==
  ASSUME StreamInv, UNCHANGED <<gatewaySide, pending>>
  PROVE  StreamInv'
  BY DEF StreamInv, gatewaySide

LEMMA WindowsInvStays ==
  ASSUME WindowsInv, UNCHANGED <<gatewaySide, pending>>
  PROVE  WindowsInv'
  BY WindowsStay DEF WindowsInv, gatewaySide

LEMMA BeforeItself ==
  ASSUME NEW s, ToSet(s.packets) \subseteq Nat
  PROVE  Before(s, s)
  BY DEF Before

\* A packet: the new window follows all others and needs a map only if they did.
LEMMA PacketKeeps ==
  ASSUME ViewInv, NEW kind \in Opcodes, SpectatorPacket(kind)
  PROVE  ViewInv'
  <1> USE DEF ViewInv
  <1> DEFINE n == Len(opcode) + 1
  <1>1. /\ Len(opcode) < MaxPackets /\ opcode' = Append(opcode, kind)
        /\ StreamSession(session')
        /\ session' = [session EXCEPT !.packets = AppendSpectatorPacket(@, Len(opcode'), opcode')]
        /\ UNCHANGED <<known, streaming, pending, started, loaded, sent, frameSide>>
    BY DEF SpectatorPacket, SetSession
  <1>2. /\ Len(opcode') = n /\ Len(opcode) \in Nat
        /\ \A i \in 1..Len(opcode) : opcode'[i] = opcode[i]
        /\ \A S : S \subseteq 1..Len(opcode) /\ HasBootstrap(S) => HasBootstrap(S)'
        /\ Windows \subseteq Windows'
    BY <1>1, WindowsWiden
  <1>3. PICK ops : ops = opcode'
    OBVIOUS
  <1>4. PICK w : w = AppendSpectatorPacket(session.packets, n, ops)
    OBVIOUS
  <1>5. PICK q : q = session.packets
    OBVIOUS
  <1>6. session \in Windows /\ q \in Seq(1..Len(opcode)) /\ Len(q) <= PacketLimit
        /\ ToSet(q) \subseteq 1..Len(opcode) /\ HasBootstrap(ToSet(q))
    BY <1>5, WindowIs DEF WindowsInv, Windows
  <1>7. PICK s : s = session'
    OBVIOUS
  <1>8. s = [connected |-> session.connected, packets |-> w] /\ session.connected \in BOOLEAN
    <2>1. s = [session EXCEPT !.packets = w]
      BY <1>1, <1>2, <1>3, <1>4, <1>7
    <2>2. /\ session = [connected |-> session.connected, packets |-> session.packets]
          /\ session.connected \in BOOLEAN
      BY <1>6 DEF Windows
    <2> QED
      BY <2>1, <2>2
  <1>9. /\ w \in Seq(1..n) /\ Len(w) <= PacketLimit
        /\ n \in ToSet(w) /\ ToSet(w) \subseteq ToSet(q) \cup {n}
        /\ (\E k \in ToSet(q) \cup {n} : ops[k] = "map") => \E k \in ToSet(w) : ops[k] = "map"
    <2>1. n \in Nat \ {0} /\ 1..Len(opcode) \subseteq 1..n
      BY <1>2
    <2>2. q \in Seq(1..n)
      BY <1>6, <2>1, SeqWidens
    <2> HIDE DEF n
    <2> QED
      BY <1>4, <1>5, <1>6, <2>1, <2>2, WindowAppends
  <1>10. PICK W : W = ToSet(w)
    OBVIOUS
  <1>11. HasBootstrap(W)'
    <2> SUFFICES ASSUME NEW i \in 1..Len(opcode'), NEW k \in W, opcode'[i] = "map", i <= k
                 PROVE  \E m \in W : opcode'[m] = "map"
      BY DEF HasBootstrap
    <2>1. i = n \/ i \in 1..Len(opcode)
      BY <1>2
    <2>2. CASE i = n
      BY <1>9, <1>10, <2>2
    <2>3. CASE i \in 1..Len(opcode)
      <3>1. Len(opcode) \in ToSet(q) /\ i <= Len(opcode)
        <4>1. opcode # <<>>
          BY <1>2, <2>3 DEF WindowsInv
        <4> QED
          BY <1>2, <1>5, <2>3, <4>1 DEF WindowsInv
      <3>2. PICK m \in ToSet(q) : opcode[m] = "map"
        BY <1>2, <1>6, <2>3, <3>1 DEF HasBootstrap
      <3>3. ops[m] = "map"
        BY <1>2, <1>3, <1>6, <3>2
      <3> QED
        BY <1>3, <1>9, <1>10, <3>3
    <2> QED
      BY <2>1, <2>2, <2>3
  <1>12. s.packets = w
    BY <1>8
  <1>13. s \in Windows'
    <2>1. s \in [connected : BOOLEAN, packets : Seq(1..Len(opcode'))]
      BY <1>2, <1>8, <1>9
    <2> QED
      BY <1>9, <1>10, <1>11, <1>12, <2>1 DEF Windows
  <1>14. ToSet(w) \subseteq 1..n
    BY <1>9, ElementsAreOf
  <1>15. Before(s, s)
    BY <1>2, <1>12, <1>14 DEF Before
  <1>16. \A t \in Windows : Before(t, s)
    <2> SUFFICES ASSUME NEW t \in Windows, NEW j \in ToSet(t.packets)
                 PROVE  \E k \in ToSet(w) : j <= k
      BY <1>12 DEF Before
    <2>1. j \in 1..Len(opcode)
      BY WindowIs
    <2> QED
      BY <1>2, <1>9, <2>1
  <1>17. StreamInv'
    BY <1>1, <1>7, <1>15, <1>16, StreamGrows
  <1>18. WindowsInv'
    <2>1. opcode' \in Seq(Opcodes) /\ Len(opcode') <= MaxPackets
      <3>1. MaxPackets \in Nat
        BY PacketBounds
      <3> QED
        BY <1>1, <1>2, <3>1 DEF WindowsInv
    <2>2. session' \in Windows' /\ pending' \in Windows'
      BY <1>1, <1>2, <1>7, <1>13 DEF WindowsInv
    <2>3. events' \in Seq(Windows')
      <3>1. events \in Seq(Windows')
        BY <1>2, SeqWidens DEF WindowsInv
      <3>2. events' = events \/ events' = Append(events, s)
        BY <1>1, <1>7 DEF StreamSession
      <3> QED
        BY <1>13, <3>1, <3>2
    <2>4. Len(opcode') \in ToSet(session'.packets)
      BY <1>2, <1>7, <1>9, <1>12
    <2> QED
      BY <2>1, <2>2, <2>3, <2>4 DEF WindowsInv
  <1>19. /\ 1..Len(opcode) \subseteq 1..Len(opcode')
         /\ UNCHANGED <<pending, started, loaded, sent, document, loadDue, toFrame, readies, pushed>>
    BY <1>1, <1>2 DEF frameSide
  <1>20. FrameTypes'
    <2>1. toFrame \in Seq(1..Len(opcode'))
      BY <1>19, SeqWidens DEF FrameTypes
    <2> QED
      BY <1>19, <2>1 DEF FrameTypes
  <1>21. BridgeInv'
    <2>1. Given' = Given
      BY <1>19 DEF Given
    <2>2. PICK G : G = Given
      OBVIOUS
    <2>3. G \subseteq 1..Len(opcode)
      BY <2>2, ElementsAreOf DEF Given, FrameTypes
    <2>4. HasBootstrap(Given) => HasBootstrap(G)'
      BY <1>2, <2>2, <2>3
    <2>5. HasBootstrap(G)' => HasBootstrap(Given)'
      BY <2>1, <2>2 DEF HasBootstrap
    <2> QED
      BY <1>19, <2>1, <2>4, <2>5 DEF BridgeInv
  <1> QED
    BY <1>17, <1>18, <1>20, <1>21

LEMMA DisconnectKeeps ==
  ASSUME ViewInv, SpectatorDisconnected
  PROVE  ViewInv'
  <1> USE DEF ViewInv
  <1>1. /\ StreamSession(session') /\ session' = [session EXCEPT !.connected = FALSE]
        /\ UNCHANGED <<opcode, known, streaming, pending, started, loaded, sent, frameSide>>
    BY DEF SpectatorDisconnected, SetSession
  <1>2. Windows' = Windows /\ \A S : HasBootstrap(S)' <=> HasBootstrap(S)
    BY <1>1, WindowsStay
  <1>3. PICK s : s = session'
    OBVIOUS
  <1>4. session \in Windows /\ s \in Windows /\ s.packets = session.packets
    BY <1>1, <1>3 DEF WindowsInv, Windows
  <1>5. Before(s, s)
    <2>1. ToSet(s.packets) \subseteq 1..Len(opcode)
      BY <1>4, WindowIs
    <2>2. ToSet(s.packets) \subseteq Nat
      BY <2>1
    <2> QED
      BY <2>2, BeforeItself
  <1>6. \A t \in Windows : Before(t, session) => Before(t, s)
    BY <1>4 DEF Before
  <1>7. StreamInv'
    BY <1>1, <1>3, <1>5, <1>6, StreamGrows
  <1>8. WindowsInv'
    <2>1. events' \in Seq(Windows)
      <3>1. events \in Seq(Windows)
        BY DEF WindowsInv
      <3>2. events' = events \/ events' = Append(events, s)
        BY <1>1, <1>3 DEF StreamSession
      <3> QED
        BY <1>4, <3>1, <3>2
    <2> QED
      BY <1>1, <1>2, <1>3, <1>4, <2>1 DEF WindowsInv
  <1>9. UNCHANGED <<opcode, pending, started, loaded, sent, document, loadDue, toFrame, readies, pushed>>
    BY <1>1 DEF frameSide
  <1>10. FrameTypes'
    BY <1>9 DEF FrameTypes
  <1>11. BridgeInv'
    BY <1>9 DEF BridgeInv, HasBootstrap, Given
  <1> QED
    BY <1>7, <1>8, <1>10, <1>11

\* Observing begins with nothing under way, so the page shows the newest window.
LEMMA ObserveKeeps ==
  ASSUME ViewInv, Observe
  PROVE  ViewInv'
  <1> USE DEF ViewInv
  <1>1. /\ known' = TRUE /\ streaming' = TRUE
        /\ session' = [session EXCEPT !.connected = TRUE]
        /\ events' = <<session'>> /\ Show(session') /\ UNCHANGED opcode
    BY DEF Observe
  <1>2. Windows' = Windows
    BY <1>1, WindowsStay
  <1>3. PICK s : s = session'
    OBVIOUS
  <1>4. session \in Windows /\ s \in Windows /\ s.packets = session.packets /\ s.connected
    BY <1>1, <1>3 DEF WindowsInv, Windows
  <1>5. Before(s, s) /\ Before(pending, s)
    <2>1. Before(s, s)
      <3>1. ToSet(s.packets) \subseteq 1..Len(opcode)
        BY <1>4, WindowIs
      <3>2. ToSet(s.packets) \subseteq Nat
        BY <3>1
      <3> QED
        BY <3>2, BeforeItself
    <2>2. Before(pending, session)
      BY DEF StreamInv
    <2> QED
      BY <1>4, <2>1, <2>2 DEF Before
  <1>6. FrameTypes' /\ BridgeInv' /\ pending' \in Windows' /\ pending' = s
    <2>1. ~pending.connected => pending = NoSession
      BY DEF StreamInv
    <2>2. Show(s)
      BY <1>1, <1>3
    <2> QED
      BY <1>1, <1>4, <1>5, <2>1, <2>2, ShowKeepsBridge
  <1>7. events' = <<s>> /\ Len(events') = 1 /\ events'[1] = s
    BY <1>1, <1>3
  <1>8. WindowsInv'
    <2>1. events' \in Seq(Windows)
      BY <1>4, <1>7
    <2> QED
      BY <1>1, <1>2, <1>3, <1>4, <1>6, <2>1 DEF WindowsInv
  <1>9. StreamInv'
    <2>1. \A i \in 1..Len(events') : i = 1
      BY <1>7
    <2>2. \A i, j \in 1..Len(events') : ~(i < j)
      BY <1>7
    <2>3. pending' = s /\ session' = s /\ pending'.connected
      BY <1>3, <1>4, <1>6
    <2> QED
      BY <1>1, <1>5, <1>7, <2>1, <2>2, <2>3 DEF StreamInv
  <1> QED
    BY <1>6, <1>8, <1>9

\* Reopened, the stream brings the gateway's window, no older than the page's copy.
LEMMA ReopenKeeps ==
  ASSUME ViewInv, Reopen
  PROVE  ViewInv'
  <1> USE DEF ViewInv
  <1>1. /\ pending.connected \/ session.connected
        /\ streaming' = TRUE /\ events' = <<session>>
        /\ Show(IF pending.connected THEN pending ELSE session)
        /\ UNCHANGED <<opcode, known, session>>
    BY DEF Reopen
  <1>2. Windows' = Windows
    BY <1>1, WindowsStay
  <1>3. PICK s : s = IF pending.connected THEN pending ELSE session
    OBVIOUS
  <1>4. s \in Windows /\ s.connected /\ Show(s) /\ session \in Windows
    BY <1>1, <1>3 DEF WindowsInv
  <1>5. Before(pending, session) /\ Before(pending, pending) /\ Before(session, session)
    <2>1. ToSet(pending.packets) \subseteq 1..Len(opcode) /\ ToSet(session.packets) \subseteq 1..Len(opcode)
      BY WindowIs DEF WindowsInv
    <2>2. ToSet(pending.packets) \subseteq Nat /\ ToSet(session.packets) \subseteq Nat
      BY <2>1
    <2> QED
      BY <2>2, BeforeItself DEF StreamInv
  <1>6. Before(pending, s) /\ Before(s, session)
    BY <1>3, <1>5
  <1>7. FrameTypes' /\ BridgeInv' /\ pending' \in Windows' /\ pending' = s
    <2>1. ~pending.connected => pending = NoSession
      BY DEF StreamInv
    <2> QED
      BY <1>1, <1>4, <1>6, <2>1, ShowKeepsBridge
  <1>8. Len(events') = 1 /\ events'[1] = session
    BY <1>1
  <1>9. WindowsInv'
    <2>1. events' \in Seq(Windows)
      BY <1>1, <1>4
    <2> QED
      BY <1>1, <1>2, <1>7, <2>1 DEF WindowsInv
  <1>10. StreamInv'
    <2>1. \A i \in 1..Len(events') : i = 1
      BY <1>8
    <2>2. \A i, j \in 1..Len(events') : ~(i < j)
      BY <1>8
    <2>3. pending' = s /\ session' = session /\ pending'.connected
      BY <1>1, <1>4, <1>7
    <2> QED
      BY <1>1, <1>5, <1>6, <1>8, <2>1, <2>2, <2>3 DEF StreamInv
  <1> QED
    BY <1>7, <1>9, <1>10

\* An event under way is at least as new as what the page shows.
LEMMA EventKeeps ==
  ASSUME ViewInv, SessionEvent
  PROVE  ViewInv'
  <1> USE DEF ViewInv
  <1>1. /\ events # <<>> /\ events' = Tail(events) /\ Show(Head(events))
        /\ UNCHANGED <<opcode, known, session, streaming>>
    BY DEF SessionEvent
  <1>2. Windows' = Windows
    BY <1>1, WindowsStay
  <1>3. PICK e : e = events
    OBVIOUS
  <1>4. PICK f : f = events'
    OBVIOUS
  <1>5. /\ f \in Seq(Windows) /\ Len(f) = Len(e) - 1 /\ Len(e) \in Nat \ {0}
        /\ \A i \in 1..(Len(e) - 1) : f[i] = e[i + 1]
        /\ Head(e) = e[1]
    <2>1. e \in Seq(Windows) /\ e # <<>> /\ f = Tail(e)
      BY <1>1, <1>3, <1>4 DEF WindowsInv
    <2> QED
      BY <2>1, TailSet
  <1>6. PICK s : s = e[1]
    OBVIOUS
  <1>7. s \in Windows /\ Show(s) /\ 1 \in 1..Len(e) /\ streaming
    <2>1. 1 \in 1..Len(e) /\ e \in Seq(Windows)
      BY <1>3, <1>5 DEF WindowsInv
    <2>2. s \in Windows
      BY <1>6, <2>1
    <2>3. streaming
      BY <1>1 DEF StreamInv
    <2> QED
      BY <1>1, <1>3, <1>5, <1>6, <2>1, <2>2, <2>3
  <1>8. FrameTypes' /\ BridgeInv' /\ pending' \in Windows' /\ pending' = IF s.connected THEN s ELSE NoSession
    <2>1. (~pending.connected => pending = NoSession) /\ Before(pending, s)
      BY <1>3, <1>6, <1>7 DEF StreamInv
    <2> QED
      BY <1>1, <1>7, <2>1, ShowKeepsBridge
  <1>9. WindowsInv'
    BY <1>1, <1>2, <1>4, <1>5, <1>8 DEF WindowsInv
  <1>10. \A i \in 1..Len(f) : i + 1 \in 1..Len(e) /\ f[i] = e[i + 1] /\ 1 < i + 1
    BY <1>5
  <1>11. /\ e[Len(e)] = session /\ Before(s, session)
         /\ \A i \in 1..Len(e) : Before(e[i], session)
         /\ \A i, j \in 1..Len(e) : i < j => Before(e[i], e[j])
    BY <1>1, <1>3, <1>6, <1>7 DEF StreamInv
  <1>12. /\ f # <<>> => f[Len(f)] = session
         /\ \A i \in 1..Len(f) : Before(f[i], session)
         /\ \A i, j \in 1..Len(f) : i < j => Before(f[i], f[j])
    <2>1. f # <<>> => Len(f) \in 1..Len(f) /\ Len(f) + 1 = Len(e)
      BY <1>5
    <2>2. f # <<>> => f[Len(f)] = session
      BY <1>10, <1>11, <2>1
    <2>3. \A i \in 1..Len(f) : Before(f[i], session)
      BY <1>10, <1>11
    <2>4. ASSUME NEW i \in 1..Len(f), NEW j \in 1..Len(f), i < j
          PROVE  Before(f[i], f[j])
      <3>1. i + 1 < j + 1
        BY <2>4
      <3> QED
        BY <1>10, <1>11, <3>1
    <2> QED
      BY <2>2, <2>3, <2>4
  <1>13. CASE s.connected
    <2>1. pending' = s /\ pending'.connected
      BY <1>8, <1>13
    <2>2. \A i \in 1..Len(f) : Before(s, f[i])
      BY <1>6, <1>7, <1>10, <1>11
    <2>3. StreamInv'
      BY <1>1, <1>4, <1>7, <1>11, <1>12, <2>1, <2>2 DEF StreamInv
    <2> QED
      BY <1>8, <1>9, <2>3
  <1>14. CASE ~s.connected
    <2>1. pending' = NoSession
      BY <1>8, <1>14
    <2>2. \A t : Before(NoSession, t)
      BY NoSessionIsWindow DEF Before
    <2>3. StreamInv'
      BY <1>1, <1>4, <1>7, <1>11, <1>12, <2>1, <2>2 DEF StreamInv
    <2> QED
      BY <1>8, <1>9, <2>3
  <1> QED
    BY <1>13, <1>14

LEMMA ErrorKeeps ==
  ASSUME ViewInv, StreamError
  PROVE  ViewInv'
  <1> USE DEF ViewInv
  <1>1. /\ streaming' = FALSE /\ events' = <<>>
        /\ UNCHANGED <<opcode, known, session, pending, started, loaded, sent>>
        /\ UNCHANGED <<document, loadDue, toFrame, readies, pushed>>
    BY DEF StreamError, frameSide
  <1>2. WindowsInv'
    <2>1. events' \in Seq(Windows)
      BY <1>1
    <2> QED
      BY <1>1, <2>1, WindowsStay DEF WindowsInv
  <1>3. StreamInv'
    <2>1. Len(events') = 0
      BY <1>1
    <2>2. 1..Len(events') = {}
      BY <2>1
    <2> QED
      BY <1>1, <2>2 DEF StreamInv
  <1>4. FrameTypes'
    BY <1>1 DEF FrameTypes
  <1>5. BridgeInv'
    BY <1>1 DEF BridgeInv, HasBootstrap, Given
  <1> QED
    BY <1>2, <1>3, <1>4, <1>5

LEMMA LeaveKeeps ==
  ASSUME ViewInv, Leave
  PROVE  ViewInv'
  <1> USE DEF ViewInv
  <1>1. streaming' = FALSE /\ events' = <<>> /\ Show(NoSession) /\ UNCHANGED <<opcode, known, session>>
    BY DEF Leave
  <1>2. FrameTypes' /\ BridgeInv' /\ pending' \in Windows' /\ pending' = NoSession
    <2>1. ~pending.connected => pending = NoSession
      BY DEF StreamInv
    <2> QED
      BY <1>1, <2>1, NoSessionIsWindow, ShowKeepsBridge
  <1>3. WindowsInv'
    <2>1. events' \in Seq(Windows)
      BY <1>1
    <2> QED
      BY <1>1, <1>2, <2>1, WindowsStay DEF WindowsInv
  <1>4. StreamInv'
    <2>1. 1..Len(events') = {}
      <3>1. Len(events') = 0
        BY <1>1
      <3> QED
        BY <3>1
    <2>2. Before(pending', session')
      BY <1>2, NoSessionIsWindow DEF Before
    <2> QED
      BY <1>1, <1>2, <2>1, <2>2 DEF StreamInv
  <1> QED
    BY <1>2, <1>3, <1>4

\* The whole window is sent, and what is under way already is no newer.
LEMMA ReadyKeeps ==
  ASSUME ViewInv, SpectatorReady
  PROVE  ViewInv'
  <1> USE DEF ViewInv
  <1>1. /\ readies > 0 /\ readies' = readies - 1 /\ Flush(pending, TRUE, {})
        /\ UNCHANGED <<gatewaySide, pending>>
    BY DEF SpectatorReady
  <1>2. WindowsInv' /\ StreamInv'
    BY <1>1, StreamStays, WindowsInvStays
  <1>3. UNCHANGED opcode /\ readies' \in 0..MaxEvents
    <2>1. readies \in 0..MaxEvents /\ MaxEvents \in Nat
      BY PacketBounds DEF FrameTypes
    <2> QED
      BY <1>1, <2>1 DEF gatewaySide
  <1>4. pending \in Windows /\ started = pending.connected /\ pending.connected \in BOOLEAN
    BY WindowIs DEF WindowsInv, BridgeInv
  <1>5. CASE ~pending.connected
    <2>1. sent' = {} /\ loaded' = TRUE /\ UNCHANGED <<started, document, loadDue, toFrame, pushed>>
      BY <1>1, <1>4, <1>5 DEF Flush
    <2>2. FrameTypes'
      BY <1>3, <2>1 DEF FrameTypes
    <2>3. BridgeInv'
      BY <1>1, <1>4, <1>5, <2>1 DEF BridgeInv, Given
    <2> QED
      BY <1>2, <2>2, <2>3
  <1>6. CASE pending.connected
    <2>1. /\ loaded' = TRUE /\ UNCHANGED <<started, document, loadDue, pushed>>
          /\ toFrame' = toFrame \o New(pending, {}) /\ sent' = {} \cup ToSet(pending.packets)
      BY <1>1, <1>4, <1>6 DEF Flush
    <2>2. /\ toFrame' \in Seq(1..Len(opcode))
          /\ ToSet(toFrame') = ToSet(toFrame) \cup (ToSet(pending.packets) \ {})
      BY <1>4, <2>1, FlushPosts
    <2>3. Given' = Given \cup ToSet(pending.packets) /\ sent' = ToSet(pending.packets)
      BY <2>1, <2>2 DEF Given
    <2>4. ToSet(pending.packets) \subseteq 1..Len(opcode) /\ HasBootstrap(ToSet(pending.packets))
      BY <1>4, WindowIs
    <2>5. Given \subseteq 1..Len(opcode)
      BY ElementsAreOf DEF Given, FrameTypes
    <2>6. \A k \in Given' : \E j \in ToSet(pending.packets) : k <= j
      <3>1. \A k \in ToSet(pending.packets) : k <= k
        BY <2>4
      <3> QED
        BY <2>3, <3>1 DEF BridgeInv
    <2>7. HasBootstrap(Given')
      <3> SUFFICES ASSUME NEW n \in 1..Len(opcode), NEW k \in Given', opcode[n] = "map", n <= k
                   PROVE  \E m \in Given' : opcode[m] = "map"
        BY DEF HasBootstrap
      <3>1. PICK j \in ToSet(pending.packets) : k <= j
        BY <2>6
      <3>2. n <= j
        <4>1. k \in Nat /\ j \in Nat
          BY <2>3, <2>4, <2>5
        <4> QED
          BY <3>1, <4>1
      <3>3. PICK m \in ToSet(pending.packets) : opcode[m] = "map"
        BY <2>4, <3>2 DEF HasBootstrap
      <3> QED
        BY <2>3, <3>3
    <2>8. FrameTypes'
      BY <1>3, <2>1, <2>2, <2>3, <2>4 DEF FrameTypes
    <2>9. BridgeInv'
      <3>1. HasBootstrap(Given)'
        BY <1>3, <2>7 DEF HasBootstrap
      <3>2. sent' \subseteq Given'
        BY <2>3
      <3>3. \A k \in Given' : \E j \in ToSet(pending'.packets) : k <= j
        BY <1>1, <2>6
      <3> QED
        BY <1>1, <1>4, <1>6, <2>1, <3>1, <3>2, <3>3 DEF BridgeInv
    <2> QED
      BY <1>2, <2>8, <2>9
  <1> QED
    BY <1>5, <1>6

LEMMA LoadKeeps ==
  ASSUME ViewInv, Load
  PROVE  ViewInv'
  <1> USE DEF ViewInv
  <1>1. /\ loadDue' = FALSE /\ loaded' = FALSE
        /\ UNCHANGED <<gatewaySide, pending>> /\ UNCHANGED opcode
        /\ UNCHANGED <<started, sent, document, toFrame, readies, pushed>>
    BY DEF Load, gatewaySide
  <1>2. WindowsInv' /\ StreamInv'
    BY <1>1, StreamStays, WindowsInvStays
  <1>3. FrameTypes'
    BY <1>1 DEF FrameTypes
  <1>4. BridgeInv'
    BY <1>1 DEF BridgeInv, HasBootstrap, Given
  <1> QED
    BY <1>2, <1>3, <1>4

LEMMA ListenKeeps ==
  ASSUME ViewInv, Listen
  PROVE  ViewInv'
  <1> USE DEF ViewInv
  <1>1. /\ document = "loading" /\ document' = "ready" /\ readies < MaxEvents /\ readies' = readies + 1
        /\ UNCHANGED <<gatewaySide, pending>> /\ UNCHANGED opcode
        /\ UNCHANGED <<started, loaded, sent, loadDue, toFrame, pushed>>
    BY DEF Listen, gatewaySide
  <1>2. WindowsInv' /\ StreamInv'
    BY <1>1, StreamStays, WindowsInvStays
  <1>3. readies' \in 0..MaxEvents /\ readies' # 0
    <2>1. readies \in 0..MaxEvents /\ MaxEvents \in Nat
      BY PacketBounds DEF FrameTypes
    <2> QED
      BY <1>1, <2>1
  <1>4. FrameTypes'
    BY <1>1, <1>3 DEF FrameTypes
  <1>5. BridgeInv'
    BY <1>1, <1>3 DEF BridgeInv, Given
  <1> QED
    BY <1>2, <1>4, <1>5

LEMMA PostedKeeps ==
  ASSUME ViewInv, PostedPacket
  PROVE  ViewInv'
  <1> USE DEF ViewInv
  <1>1. /\ toFrame # <<>> /\ toFrame' = Tail(toFrame)
        /\ pushed' = IF document = "ready" THEN pushed \cup {Head(toFrame)} ELSE pushed
        /\ UNCHANGED <<gatewaySide, pending>> /\ UNCHANGED opcode
        /\ UNCHANGED <<started, loaded, sent, document, loadDue, readies>>
    BY DEF PostedPacket, gatewaySide
  <1>2. WindowsInv' /\ StreamInv'
    BY <1>1, StreamStays, WindowsInvStays
  <1>3. /\ toFrame' \in Seq(1..Len(opcode))
        /\ ToSet(toFrame) = {Head(toFrame)} \cup ToSet(toFrame')
    BY <1>1, TailSet DEF FrameTypes
  <1>4. Head(toFrame) \in 1..Len(opcode)
    BY <1>3, ElementsAreOf DEF FrameTypes
  <1>5. FrameTypes'
    BY <1>1, <1>3, <1>4 DEF FrameTypes
  <1>6. Given' \subseteq Given /\ (document = "ready" => Given' = Given)
    BY <1>1, <1>3 DEF Given
  <1>7. BridgeInv'
    BY <1>1, <1>6 DEF BridgeInv, HasBootstrap
  <1> QED
    BY <1>2, <1>5, <1>7

LEMMA StutterKeeps ==
  ASSUME ViewInv, UNCHANGED viewVars
  PROVE  ViewInv'
  <1> USE DEF ViewInv
  <1>1. /\ UNCHANGED <<gatewaySide, pending>> /\ UNCHANGED opcode
        /\ UNCHANGED <<started, loaded, sent, document, loadDue, toFrame, readies, pushed>>
    BY DEF viewVars, gatewaySide
  <1>2. WindowsInv' /\ StreamInv'
    BY <1>1, StreamStays, WindowsInvStays
  <1>3. FrameTypes'
    BY <1>1 DEF FrameTypes
  <1>4. BridgeInv'
    BY <1>1 DEF BridgeInv, HasBootstrap, Given
  <1> QED
    BY <1>2, <1>3, <1>4

LEMMA ViewInvariant == ViewSpec => []ViewInv
  <1>1. ViewInit => ViewInv
    BY ViewStarts
  <1>2. ASSUME ViewInv, [ViewNext]_viewVars
        PROVE  ViewInv'
    <2>1. ASSUME NEW kind \in Opcodes, SpectatorPacket(kind)
          PROVE  ViewInv'
      BY <1>2, <2>1, PacketKeeps
    <2>2. CASE SpectatorDisconnected
      BY <1>2, <2>2, DisconnectKeeps
    <2>3. CASE StreamError
      BY <1>2, <2>3, ErrorKeeps
    <2>4. CASE Observe
      BY <1>2, <2>4, ObserveKeeps
    <2>12. CASE Reopen
      BY <1>2, <2>12, ReopenKeeps
    <2>5. CASE SessionEvent
      BY <1>2, <2>5, EventKeeps
    <2>6. CASE Leave
      BY <1>2, <2>6, LeaveKeeps
    <2>7. CASE SpectatorReady
      BY <1>2, <2>7, ReadyKeeps
    <2>8. CASE Load
      BY <1>2, <2>8, LoadKeeps
    <2>9. CASE Listen
      BY <1>2, <2>9, ListenKeeps
    <2>10. CASE PostedPacket
      BY <1>2, <2>10, PostedKeeps
    <2>11. CASE UNCHANGED viewVars
      BY <1>2, <2>11, StutterKeeps
    <2> QED
      BY <1>2, <2>1, <2>2, <2>3, <2>4, <2>5, <2>6, <2>7, <2>8, <2>9, <2>10, <2>11, <2>12 DEF ViewNext
  <1> QED
    BY <1>1, <1>2, PTL DEF ViewSpec

\* The variables of the gateway's session, the page, its bridge and the iframe have
\* their types, and no window grows beyond the limit of packets.
THEOREM ViewTypeCorrect == ViewSpec => []ViewTypeOK
  <1>1. ViewInv => ViewTypeOK
    <2> SUFFICES ASSUME ViewInv PROVE ViewTypeOK
      OBVIOUS
    <2>1. WindowsInv /\ StreamInv /\ FrameTypes
      BY DEF ViewInv
    <2>2. 1..Len(opcode) \subseteq Packets /\ MaxPackets \in Nat /\ PacketLimit \in Nat
      BY <2>1, PacketBounds DEF WindowsInv, Packets
    <2>3. opcode \in SeqOf(Opcodes, MaxPackets)
      BY <2>1, <2>2, SeqOfIs DEF WindowsInv
    <2>4. ASSUME NEW s \in Windows
          PROVE  s \in Sessions
      <3>1. s.packets \in Seq(Packets)
        BY <2>2, <2>4, WindowIs, SeqWidens
      <3>2. s.packets \in SeqOf(Packets, PacketLimit)
        BY <2>2, <3>1, SeqOfIs DEF Windows
      <3> QED
        BY <3>2 DEF Windows, Sessions
    <2>5. session \in Sessions /\ pending \in Sessions
      BY <2>1, <2>4 DEF WindowsInv
    <2>6. events \in Seq(Sessions)
      <3>1. Windows \subseteq Sessions /\ events \in Seq(Windows)
        BY <2>1, <2>4 DEF WindowsInv
      <3> QED
        BY <3>1, SeqWidens
    <2>7. toFrame \in Seq(Packets)
      BY <2>1, <2>2, SeqWidens DEF FrameTypes
    <2> QED
      BY <2>1, <2>2, <2>3, <2>5, <2>6, <2>7 DEF FrameTypes, StreamInv, ViewTypeOK
  <1> QED
    BY <1>1, ViewInvariant, PTL

\* "Retains a spectator map bootstrap packet for late iframe replays": whatever the
\* limit, the packets and the order of ready, load, stream and route changes, once
\* what was posted arrived, the document holds a map if one came before what it holds.
THEOREM LateReplaysHaveMap == ViewSpec => []ReplayHasMap
  <1>1. ViewInv => ReplayHasMap
    <2> SUFFICES ASSUME ViewInv, readies = 0, toFrame = <<>>,
                        NEW n \in 1..Len(opcode), opcode[n] = "map", NEW k \in pushed, n <= k
                 PROVE  \E m \in pushed : opcode[m] = "map"
      BY DEF ReplayHasMap
    <2>1. document = "ready"
      BY DEF ViewInv, BridgeInv
    <2>2. HasBootstrap(Given)
      BY <2>1 DEF ViewInv, BridgeInv
    <2>3. Given = pushed
      BY DEF Given, ToSet
    <2> QED
      BY <2>2, <2>3 DEF HasBootstrap
  <1> QED
    BY <1>1, ViewInvariant, PTL
=============================================================================
