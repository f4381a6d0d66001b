----------------------------- MODULE RequestHandlers -----------------------------
(***************************************************************************)
(* The server's side of a city request: the promise chain that runs one    *)
(* POST of /api (city/routes.ts) against the store.  Each store call is a  *)
(* statement of its own, so the chains of concurrent requests interleave   *)
(* between calls, and a crash leaves what the finished calls have stored.  *)
(*                                                                         *)
(* A handler is a client of the point ledger.  What it debits is a step of *)
(* PointLedger, which PostgresLedger shows the exclusive store to take.    *)
(***************************************************************************)
EXTENDS PointLedger, FiniteSets, FiniteSetsExt

CONSTANTS
  Handlers,      \* requests the server works on at one time
  MaxCrashes,    \* bound: crashes of the server and store calls that throw
  NoOrder

ASSUME HandlersAreClients == Handlers \subseteq Clients /\ IsFiniteSet(Handlers)

ASSUME CrashBound == MaxCrashes \in Nat

VARIABLES
  handlers,   \* where each handler is, with what order, and the amount it read
  crashes

handlerVars == <<handlers, crashes>>

ledgerVars == <<balance, ledger, reply>>

Idle == [pc |-> "idle", order |-> NoOrder, amount |-> 0]

IsAt(h, pc) == handlers[h].pc = pc

OrderOf(h) == handlers[h].order

Enter(h, pc, o, n) ==
  /\ IsAt(h, "idle")
  /\ handlers' = [handlers EXCEPT ![h] = [pc |-> pc, order |-> o, amount |-> n]]
  /\ UNCHANGED crashes

GoTo(h, pc) == handlers' = [handlers EXCEPT ![h].pc = pc]

Leave(h) == handlers' = [handlers EXCEPT ![h] = Idle]

\* A posting ends the request with an error when it is refused.
PostThen(h, pc, a, s, d) ==
  /\ AppendPointLedger(h, a, s, d)
  /\ handlers' = [handlers EXCEPT ![h] =
                    IF reply'[h].status = "ok" THEN [@ EXCEPT !.pc = pc] ELSE Idle]

\* The server dies, or one handler's store call throws.
Crash ==
  /\ crashes < MaxCrashes
  /\ crashes' = crashes + 1
  /\ \/ handlers' = [h \in Handlers |-> Idle]
     \/ \E h \in Handlers : ~IsAt(h, "idle") /\ Leave(h)
  /\ UNCHANGED ledgerVars

\* An entry is in an account's ledger, as it is.
InLedger(a, e) == e # NoEntry /\ Recorded(a, e.source) /\ RecordedEntry(a, e.source) = e
=============================================================================
