------------------------------ MODULE StandInGrant ------------------------------
(***************************************************************************)
(* Supporting a resident with the stand-in debit: runAttentionGrant        *)
(* (attention-grant.ts) over the point ledger.  The handler checks the     *)
(* balance, credits City, debits the ledger, and marks the intent settled, *)
(* each a call of its own.  Other handlers, other postings to the same     *)
(* account, City's failures and the server's crash come in between.        *)
(*                                                                         *)
(* The ledger is PointLedger's: a debit is one of its steps.  A handler is *)
(* one of its clients, a grant's idempotency key is the source of its      *)
(* debit.                                                                  *)
(***************************************************************************)
EXTENDS PointLedger, FiniteSets

CONSTANTS
  Handlers,      \* clients of the ledger that run grants
  Keys,          \* idempotency keys: sources of stand-in debits
  OrdersOf,      \* the grants each handler's callers ask for
  MaxFaults,     \* bound: credits that fail or whose answer is lost
  MaxCrashes,    \* bound: crashes of the server and store calls that throw
  NoIntent, NoOrder

\* What a caller asks for: spend an amount of an account's points under a key.
Order == [account : Accounts, key : Keys, amount : Nat \ {0}]

IntentIds == Accounts \X Keys

ASSUME HandlersAreClients == Handlers \subseteq Clients

ASSUME KeysAreSources == Keys \subseteq Sources

ASSUME OrdersOfType == OrdersOf \in [Handlers -> SUBSET Order]

ASSUME GrantBounds == MaxFaults \in Nat /\ MaxCrashes \in Nat

ASSUME NoIntentIsApart == NoIntent \notin {"created", "sent_to_city", "settled", "failed"}

VARIABLES
  intents,    \* attention_grant_intents: their state, by account and key
  credited,   \* City: the amount credited under each key, zero before that
  handlers,   \* where each handler is, and with what
  faults, crashes

grantVars == <<balance, ledger, reply, intents, credited, handlers, faults, crashes>>

IntentStates == {"created", "sent_to_city", "settled", "failed"}

Steps == {"idle", "replay", "preflight", "reject", "send", "credit", "debit", "settle", "fail"}

GrantTypeOK ==
  /\ TypeOK
  /\ intents \in [IntentIds -> IntentStates \cup {NoIntent}]
  /\ credited \in [IntentIds -> Nat]
  /\ handlers \in [Handlers -> [pc : Steps, order : Order \cup {NoOrder}]]
  /\ faults \in 0..MaxFaults
  /\ crashes \in 0..MaxCrashes

Idle == [pc |-> "idle", order |-> NoOrder]

GrantInit ==
  /\ Init
  /\ intents = [i \in IntentIds |-> NoIntent]
  /\ credited = [i \in IntentIds |-> 0]
  /\ handlers = [h \in Handlers |-> Idle]
  /\ faults = 0
  /\ crashes = 0

-----------------------------------------------------------------------------
IntentOf(o) == <<o.account, o.key>>

\* A key names one amount: the key made up for a grant that has none contains it
\* (`residentId:apAmount`), a caller that brings its own has to keep to it.
KeysNameAmounts ==
  \A g, h \in Handlers : \A o \in OrdersOf[g], x \in OrdersOf[h] :
    IntentOf(o) = IntentOf(x) => o.amount = x.amount

\* No key is in flight twice: a caller retries a key after its last POST of it was
\* answered or died, and no two callers share one.
KeysAreExclusive ==
  \A g, h \in Handlers : g # h =>
    \A o \in OrdersOf[g], x \in OrdersOf[h] : IntentOf(o) # IntentOf(x)

IsAt(h, pc) == handlers[h].pc = pc

GoTo(h, pc) == handlers' = [handlers EXCEPT ![h].pc = pc]

Leave(h) == handlers' = [handlers EXCEPT ![h] = Idle]

Mark(h, state) == intents' = [intents EXCEPT ![IntentOf(handlers[h].order)] = state]

LedgerUnchanged == UNCHANGED <<balance, ledger, reply>>

\* Slip: a settled key is not short-circuited.
StartOver(h, o) ==
  LET i == IntentOf(o)
  IN  /\ IsAt(h, "idle")
      /\ o \in OrdersOf[h]
      /\ intents' = IF intents[i] = NoIntent THEN [intents EXCEPT ![i] = "created"] ELSE intents
      /\ handlers' = [handlers EXCEPT ![h] = [pc |-> "preflight", order |-> o]]
      /\ LedgerUnchanged /\ UNCHANGED <<credited, faults, crashes>>

\* createAttentionGrantIntent, and the replay of a settled key.
Start(h, o) ==
  LET i == IntentOf(o)
  IN  /\ IsAt(h, "idle")
      /\ o \in OrdersOf[h]
      /\ intents' = IF intents[i] = NoIntent THEN [intents EXCEPT ![i] = "created"] ELSE intents
      /\ handlers' = [handlers EXCEPT ![h] =
           [pc |-> IF intents[i] = "settled" THEN "replay" ELSE "preflight", order |-> o]]
      /\ LedgerUnchanged /\ UNCHANGED <<credited, faults, crashes>>

\* apBalance: the grant goes on only if the account can cover it now.
Preflight(h) ==
  LET o == handlers[h].order
  IN  /\ IsAt(h, "preflight")
      /\ GoTo(h, IF balance[o.account] < o.amount THEN "reject" ELSE "send")
      /\ LedgerUnchanged /\ UNCHANGED <<intents, credited, faults, crashes>>

\* The intent fails, whatever it is by now, and the caller is told 409.
Reject(h) ==
  /\ IsAt(h, "reject")
  /\ Mark(h, "failed")
  /\ Leave(h)
  /\ LedgerUnchanged /\ UNCHANGED <<credited, faults, crashes>>

Send(h) ==
  /\ IsAt(h, "send")
  /\ Mark(h, "sent_to_city")
  /\ GoTo(h, "credit")
  /\ LedgerUnchanged /\ UNCHANGED <<credited, faults, crashes>>

\* City credits a key once.
CityCredits(o) ==
  credited' = IF credited[IntentOf(o)] = 0
              THEN [credited EXCEPT ![IntentOf(o)] = o.amount]
              ELSE credited

Credit(h) ==
  /\ IsAt(h, "credit")
  /\ CityCredits(handlers[h].order)
  /\ GoTo(h, "debit")
  /\ LedgerUnchanged /\ UNCHANGED <<intents, faults, crashes>>

\* Slip: the error of the credit call is swallowed.
CreditErrorSwallowed(h) ==
  /\ IsAt(h, "credit")
  /\ faults < MaxFaults
  /\ faults' = faults + 1
  /\ CityCredits(handlers[h].order) \/ UNCHANGED credited
  /\ GoTo(h, "debit")
  /\ LedgerUnchanged /\ UNCHANGED <<intents, crashes>>

\* City refuses, or credits and the answer is lost.
CreditFails(h) ==
  /\ IsAt(h, "credit")
  /\ faults < MaxFaults
  /\ faults' = faults + 1
  /\ CityCredits(handlers[h].order) \/ UNCHANGED credited
  /\ GoTo(h, "fail")
  /\ LedgerUnchanged /\ UNCHANGED <<intents, crashes>>

\* debitStandIn is a posting of the ledger: it may be refused.
DebitStandIn(h) ==
  LET o == handlers[h].order
  IN  AppendPointLedger(h, o.account, o.key, -o.amount)

\* Slip: a refused debit goes unnoticed.
DebitUnchecked(h) ==
  /\ IsAt(h, "debit")
  /\ DebitStandIn(h)
  /\ GoTo(h, "settle")
  /\ UNCHANGED <<intents, credited, faults, crashes>>

Debit(h) ==
  /\ IsAt(h, "debit")
  /\ DebitStandIn(h)
  /\ GoTo(h, IF reply'[h].status = "ok" THEN "settle" ELSE "fail")
  /\ UNCHANGED <<intents, credited, faults, crashes>>

Replayed(h) ==
  /\ IsAt(h, "replay")
  /\ DebitStandIn(h)
  /\ Leave(h)
  /\ UNCHANGED <<intents, credited, faults, crashes>>

\* Slip: the intent gets landing's word for a finished request.
SettleAsCompleted(h) ==
  /\ IsAt(h, "settle")
  /\ Mark(h, "completed")
  /\ Leave(h)
  /\ LedgerUnchanged /\ UNCHANGED <<credited, faults, crashes>>

Settle(h) ==
  /\ IsAt(h, "settle")
  /\ Mark(h, "settled")
  /\ Leave(h)
  /\ LedgerUnchanged /\ UNCHANGED <<credited, faults, crashes>>

\* Slip: the error is rethrown with the intent left as it is.
FailUnmarked(h) ==
  /\ IsAt(h, "fail")
  /\ Leave(h)
  /\ LedgerUnchanged /\ UNCHANGED <<intents, credited, faults, crashes>>

Fail(h) ==
  /\ IsAt(h, "fail")
  /\ Mark(h, "failed")
  /\ Leave(h)
  /\ LedgerUnchanged /\ UNCHANGED <<credited, faults, crashes>>

-----------------------------------------------------------------------------
\* The account's other movements: check-in awards, prints, trades, contributions.
OtherPosting(c, a, s, d) ==
  /\ c \notin Handlers
  /\ s \notin Keys
  /\ AppendPointLedger(c, a, s, d)
  /\ UNCHANGED <<intents, credited, handlers, faults, crashes>>

\* The server dies, or one handler's store call throws: what is stored stays.
Crash ==
  /\ crashes < MaxCrashes
  /\ crashes' = crashes + 1
  /\ \/ handlers' = [h \in Handlers |-> Idle]
     \/ \E h \in Handlers : ~IsAt(h, "idle") /\ Leave(h)
  /\ LedgerUnchanged /\ UNCHANGED <<intents, credited, faults>>

Run(h) ==
  \/ Preflight(h) \/ Reject(h)
  \/ Send(h)
  \/ Credit(h) \/ CreditFails(h)
  \/ Debit(h) \/ Replayed(h)
  \/ Settle(h) \/ Fail(h)

GrantNext ==
  \/ \E h \in Handlers : Run(h) \/ \E o \in OrdersOf[h] : Start(h, o)
  \/ \E c \in Clients, a \in Accounts, s \in Sources, d \in Deltas : OtherPosting(c, a, s, d)
  \/ Crash

GrantSpec == GrantInit /\ [][GrantNext]_grantVars

\* A handler that was entered runs on.  Nobody has to ask for a grant.
GrantFairSpec == GrantSpec /\ \A h \in Handlers : WF_grantVars(Run(h))

-----------------------------------------------------------------------------
\* The user pays only for attention that was credited, and exactly that much,
\* however often the grant is retried and wherever it was cut off: "a City
\* failure never strands the user's AP" (attention-grant.ts).
PaidMeansCredited ==
  \A a \in Accounts, k \in Keys :
    Recorded(a, k) => credited[<<a, k>>] = -RecordedEntry(a, k).delta

\* A settled grant was paid for: "a retry can never grant free attention".
SettledMeansPaid ==
  \A a \in Accounts, k \in Keys : intents[<<a, k>>] = "settled" => Recorded(a, k)

\* A settled grant is never reopened by a handler that runs late.
SettledStaysSettled ==
  [][\A i \in IntentIds : intents[i] = "settled" => intents'[i] = "settled"]_grantVars

\* A grant that was begun ends settled or failed, if the server does not crash:
\* the intent "is NOT left stuck in `sent_to_city`".
GrantEnds ==
  \A i \in IntentIds :
    (intents[i] \in {"created", "sent_to_city"}) ~> (intents[i] \in {"settled", "failed"} \/ crashes > 0)
=============================================================================
