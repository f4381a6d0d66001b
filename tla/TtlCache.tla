--------------------------------- MODULE TtlCache ---------------------------------
(***************************************************************************)
(* TtlCache.getOrCompute (server/src/ttl-cache.ts), for one key: callers   *)
(* share the promise of the computation the entry holds until its window   *)
(* is over.  A computation may take longer than its window, and may fail.  *)
(***************************************************************************)
EXTENDS Naturals

CONSTANTS
  Callers,          \* requests that ask for the key's value
  Computations,     \* bound: the computations ever started
  NoEntry

ASSUME NoEntryIsApart == NoEntry \notin Computations

VARIABLES
  entry,       \* the computation the map's entry holds
  fresh,       \* whether now() is before the entry's expiresAt
  outcome,     \* each computation: none, running, ok or failed
  expired,     \* computations whose window has passed
  awaiting     \* the computation each caller awaits

cacheVars == <<entry, fresh, outcome, expired, awaiting>>

CacheTypeOK ==
  /\ entry \in Computations \cup {NoEntry}
  /\ fresh \in BOOLEAN
  /\ outcome \in [Computations -> {"none", "running", "ok", "failed"}]
  /\ expired \subseteq Computations
  /\ awaiting \in [Callers -> Computations \cup {NoEntry}]

CacheInit ==
  /\ entry = NoEntry
  /\ fresh = FALSE
  /\ outcome = [i \in Computations |-> "none"]
  /\ expired = {}
  /\ awaiting = [c \in Callers |-> NoEntry]

Await(c, i) == awaiting' = [awaiting EXCEPT ![c] = i]

\* A caller joins the computation of an entry that is not expired.
Join(c) ==
  /\ awaiting[c] = NoEntry
  /\ entry # NoEntry /\ fresh
  /\ Await(c, entry)
  /\ UNCHANGED <<entry, fresh, outcome, expired>>

\* Otherwise it starts one and puts it into the map.
Compute(c, i) ==
  /\ awaiting[c] = NoEntry
  /\ entry = NoEntry \/ ~fresh
  /\ outcome[i] = "none"
  /\ outcome' = [outcome EXCEPT ![i] = "running"]
  /\ entry' = i
  /\ fresh' = TRUE
  /\ Await(c, i)
  /\ UNCHANGED expired

\* ttlMs pass.
Expire ==
  /\ entry # NoEntry /\ fresh
  /\ fresh' = FALSE
  /\ expired' = expired \cup {entry}
  /\ UNCHANGED <<entry, outcome, awaiting>>

Resolve(i) ==
  /\ outcome' = [outcome EXCEPT ![i] = "ok"]
  /\ UNCHANGED <<entry, fresh, expired, awaiting>>

\* Slip: the failed computation stays in the map until its window is over.
RejectKeeping(i) ==
  /\ outcome' = [outcome EXCEPT ![i] = "failed"]
  /\ UNCHANGED <<entry, fresh, expired, awaiting>>

\* The failed computation takes its own entry out of the map, not a later one.
Reject(i) ==
  /\ outcome' = [outcome EXCEPT ![i] = "failed"]
  /\ entry' = IF entry = i THEN NoEntry ELSE entry
  /\ UNCHANGED <<fresh, expired, awaiting>>

\* A caller is answered with the value or with the error.
Answer(c) ==
  /\ awaiting[c] # NoEntry
  /\ outcome[awaiting[c]] \in {"ok", "failed"}
  /\ Await(c, NoEntry)
  /\ UNCHANGED <<entry, fresh, outcome, expired>>

-----------------------------------------------------------------------------
\* "Concurrent callers share a single in-flight computation": a second one starts
\* only when the window of the one before is over or that one failed; and "failed
\* computations are evicted so errors are never served from cache": who joins,
\* joins one that has not failed.
Sharing ==
  /\ \A i, k \in Computations :
       outcome[i] = "none" /\ outcome'[i] = "running" /\ outcome[k] \in {"running", "ok"} =>
         k \in expired
  /\ \A c \in Callers :
       awaiting[c] = NoEntry /\ awaiting'[c] # NoEntry => outcome[awaiting'[c]] # "failed"

SharedAndNeverFailed == [][Sharing]_cacheVars
=============================================================================
