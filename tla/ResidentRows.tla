------------------------------- MODULE ResidentRows -------------------------------
(***************************************************************************)
(* The residents' rows of the dashboard's polled pages (server/src/        *)
(* index.ts): cachedResidentRows asks the cache; a computation lists the   *)
(* residents through the gateway, or falls back on the controllers' files, *)
(* attaches the feeds of those online, and reads the rest from files.      *)
(***************************************************************************)
EXTENDS TtlCache, GatewayClient

\* A computation's list request has the computation's name.
ASSUME OneListEach == Lists = Computations

VARIABLE rows    \* each computation: its stage, the residents it awaits

rowsVars == <<cacheVars, gatewayVars, rows>>

RowsTypeOK ==
  /\ CacheTypeOK /\ GatewayTypeOK
  /\ rows \in [Computations -> [pc : {"none", "list", "attach", "done"}, awaits : SUBSET Residents]]

RowsInit ==
  /\ CacheInit /\ GatewayInit
  /\ rows = [i \in Computations |-> [pc |-> "none", awaits |-> {}]]

-----------------------------------------------------------------------------
Unused == CHOOSE i \in Computations : outcome[i] = "none"

\* A page asks for the rows.
CachedResidentRows(c) ==
  \/ Join(c) /\ UNCHANGED <<gatewayVars, rows>>
  \/ \E i \in Computations :
       /\ outcome[i] = "none" /\ i = Unused
       /\ Compute(c, i)
       /\ Ask({i})
       /\ rows' = [rows EXCEPT ![i].pc = "list"]

\* safeResidents has its roster, the gateway's or the files'; the feeds of those
\* online that need it are attached.
Listed(i) ==
  \E online \in SUBSET Residents :
    /\ rows[i].pc = "list"
    /\ request[i] \in {"ok", "failed"}
    /\ rows' = [rows EXCEPT ![i] = [pc |-> "attach", awaits |-> {r \in online : NeedsAttach(r)}]]
    /\ IF ToAttach(online) = {} THEN UNCHANGED gatewayVars ELSE Ask(ToAttach(online))
    /\ UNCHANGED cacheVars

\* Every computation that awaits the resident's attach goes on, attached or not.
AttachDone(r) ==
  /\ ForgetAttach(r)
  /\ rows' = [i \in Computations |-> [rows[i] EXCEPT !.awaits = @ \ {r}]]
  /\ UNCHANGED cacheVars

\* enrichResidents reads the files; it may throw.
Enriched(i) ==
  /\ rows[i].pc = "attach"
  /\ rows[i].awaits = {}
  /\ Resolve(i) \/ Reject(i)
  /\ rows' = [rows EXCEPT ![i].pc = "done"]
  /\ UNCHANGED gatewayVars

GatewayEvent ==
  \/ \E s \in Sockets : Open(s) \/ Refuse(s) \/ Error(s) \/ Lose(s) \/ Close(s)
  \/ \E q \in Requests : Fulfil(q) \/ FailRequest(q)
  \/ \E r \in Residents : GoStale(r) \/ \E s \in Sockets : Push(r, s)

RowsNext ==
  \/ \E c \in Callers : CachedResidentRows(c)
  \/ \E c \in Callers : Answer(c) /\ UNCHANGED <<gatewayVars, rows>>
  \/ Expire /\ UNCHANGED <<gatewayVars, rows>>
  \/ \E i \in Computations : Listed(i) \/ Enriched(i)
  \/ \E r \in Residents : AttachDone(r)
  \/ GatewayEvent /\ UNCHANGED <<cacheVars, rows>>

RowsSpec == RowsInit /\ [][RowsNext]_rowsVars

\* A handshake ends, a closed socket says so, a request is answered or timed out,
\* and continuations run.  A page need not be asked for, nor a window end.
RowsFairSpec ==
  /\ RowsSpec
  /\ \A s \in Sockets :
       /\ WF_rowsVars((Open(s) \/ Refuse(s)) /\ UNCHANGED <<cacheVars, rows>>)
       /\ WF_rowsVars(Close(s) /\ UNCHANGED <<cacheVars, rows>>)
  /\ \A q \in Requests :
       WF_rowsVars((Fulfil(q) \/ FailRequest(q)) /\ UNCHANGED <<cacheVars, rows>>)
  /\ \A i \in Computations : WF_rowsVars(Listed(i)) /\ WF_rowsVars(Enriched(i))
  /\ \A r \in Residents : WF_rowsVars(AttachDone(r))
  /\ \A c \in Callers : WF_rowsVars(Answer(c) /\ UNCHANGED <<gatewayVars, rows>>)

-----------------------------------------------------------------------------
\* A page that asked gets rows or an error, whatever becomes of the sockets, the
\* requests and the computation it shares: no rejected, replaced or timed out
\* request leaves a computation waiting.
PageIsAnswered == \A c \in Callers : awaiting[c] # NoEntry ~> awaiting[c] = NoEntry
=============================================================================
