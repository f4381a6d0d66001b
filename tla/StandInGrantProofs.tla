--------------------------- MODULE StandInGrantProofs ---------------------------
(***************************************************************************)
(* Proofs about StandInGrant for any handlers, accounts, keys and orders,  *)
(* any number of City's faults and of crashes.  Whatever a grant does to   *)
(* the ledger is a call of PointLedger, so the ledger's promises hold here *)
(* too; what the grants add to them is an order among the records: the     *)
(* credit is City's before the debit is the ledger's, and the debit is the *)
(* ledger's before the intent says settled.                                *)
(***************************************************************************)
EXTENDS StandInGrant, PointLedgerProofs

\* A handler under way works for one of its own orders.
WorksForItsOrder == \A h \in Handlers : ~IsAt(h, "idle") => handlers[h].order \in OrdersOf[h]

\* A handler that settles, or answers for a settled key, has its debit recorded.
DebitComesFirst ==
  \A h \in Handlers :
    handlers[h].pc \in {"settle", "replay"} =>
      Recorded(handlers[h].order.account, handlers[h].order.key)

GrantInv ==
  GrantTypeOK /\ LedgerInv /\ WorksForItsOrder /\ DebitComesFirst /\ SettledMeansPaid

\* City holds nothing, or what the orders of the key ask for.
CreditsAreOrdered ==
  \A h \in Handlers : \A o \in OrdersOf[h] : credited[IntentOf(o)] \in {0, o.amount}

\* A handler that debits has its credit.
CreditComesFirst ==
  \A h \in Handlers :
    IsAt(h, "debit") => credited[IntentOf(handlers[h].order)] = handlers[h].order.amount

\* A debited key has its credit, which therefore never changes again.
RecordedIsCredited ==
  \A a \in Accounts, k \in Keys : Recorded(a, k) => credited[<<a, k>>] # 0

CreditInv == CreditsAreOrdered /\ CreditComesFirst /\ RecordedIsCredited /\ PaidMeansCredited

\* The intent a handler works on is not settled yet.
UnderwayIsOpen ==
  \A h \in Handlers :
    handlers[h].pc \notin {"idle", "replay"} => intents[IntentOf(handlers[h].order)] # "settled"

-----------------------------------------------------------------------------
(* The handlers and the ledger.                                             *)

\* An order's account, key and amount are ones the ledger takes.
LEMMA OrderTypes ==
  ASSUME NEW h \in Handlers, NEW o \in OrdersOf[h]
  PROVE  /\ o \in Order
         /\ o.account \in Accounts /\ o.key \in Keys /\ o.key \in Sources
         /\ o.amount \in Nat \ {0} /\ -o.amount \in Int
         /\ IntentOf(o) \in IntentIds
  BY OrdersOfType, KeysAreSources DEF Order, IntentOf, IntentIds

\* What a step does to the ledger: nothing, a grant's debit, or another's call.
LEMMA StepIsLedgerCall ==
  ASSUME WorksForItsOrder, GrantNext
  PROVE  \/ UNCHANGED <<balance, ledger, reply>>
         \/ \E h \in Handlers :
              /\ handlers[h].pc \in {"debit", "replay"}
              /\ handlers[h].order \in OrdersOf[h]
              /\ DebitStandIn(h)
         \/ \E c \in Clients, a \in Accounts, s \in Sources, d \in Deltas : OtherPosting(c, a, s, d)
  BY DEF GrantNext, Run, Start, Preflight, Reject, Send, Credit, CreditFails, Debit, Replayed,
         Settle, Fail, Crash, LedgerUnchanged, IsAt, WorksForItsOrder

\* The ledger's invariant survives every step, and so does every record.
LEMMA GrantsKeepLedger ==
  ASSUME LedgerInv, WorksForItsOrder, [GrantNext]_grantVars
  PROVE  /\ LedgerInv'
         /\ \A a \in Accounts, s \in Sources :
              Recorded(a, s) => Recorded(a, s)' /\ RecordedEntry(a, s)' = RecordedEntry(a, s)
  <1>1. CASE UNCHANGED <<balance, ledger, reply>>
    <2>1. LedgerInv'
      BY <1>1, InvPreserved DEF vars
    <2> QED
      BY <1>1, <2>1, SameLedgerSameRecords
  <1>2. ASSUME NEW h \in Handlers, handlers[h].order \in OrdersOf[h], DebitStandIn(h)
        PROVE  /\ LedgerInv'
               /\ \A a \in Accounts, s \in Sources :
                    Recorded(a, s) => Recorded(a, s)' /\ RecordedEntry(a, s)' = RecordedEntry(a, s)
    <2> DEFINE o == handlers[h].order
    <2>1. h \in Clients /\ o.account \in Accounts /\ o.key \in Sources /\ -o.amount \in Int
      BY <1>2, HandlersAreClients, OrderTypes
    <2>2. AppendPointLedger(h, o.account, o.key, -o.amount)
      BY <1>2 DEF DebitStandIn
    <2> HIDE DEF o
    <2> QED
      BY <2>1, <2>2, CallKeepsInv, RecordsStay
  <1>3. ASSUME NEW c \in Clients, NEW a \in Accounts, NEW s \in Sources, NEW d \in Deltas,
               OtherPosting(c, a, s, d)
        PROVE  /\ LedgerInv'
               /\ \A b \in Accounts, x \in Sources :
                    Recorded(b, x) => Recorded(b, x)' /\ RecordedEntry(b, x)' = RecordedEntry(b, x)
    <2>1. d \in Int /\ AppendPointLedger(c, a, s, d)
      BY <1>3, DeltasAreIntegers DEF OtherPosting
    <2> QED
      BY <2>1, CallKeepsInv, RecordsStay
  <1>4. CASE UNCHANGED grantVars
    BY <1>1, <1>4 DEF grantVars
  <1> QED
    BY <1>1, <1>2, <1>3, <1>4, StepIsLedgerCall

-----------------------------------------------------------------------------
(* Types, and the debit before the settlement.                              *)

\* A handler under way has an order, with its types.
LEMMA UnderwayHasOrder ==
  ASSUME WorksForItsOrder, NEW h \in Handlers, ~IsAt(h, "idle")
  PROVE  /\ handlers[h].order \in OrdersOf[h] /\ handlers[h].order \in Order
         /\ IntentOf(handlers[h].order) \in IntentIds
  BY OrderTypes DEF WorksForItsOrder

\* Whatever a step does, handlers work for their own orders.
LEMMA StepKeepsOrders ==
  ASSUME GrantTypeOK, WorksForItsOrder, [GrantNext]_grantVars
  PROVE  WorksForItsOrder'
  <1>1. ASSUME NEW h \in Handlers, Run(h)
        PROVE  WorksForItsOrder'
    BY <1>1 DEF GrantTypeOK, WorksForItsOrder, Run, Preflight, Reject, Send, Credit, CreditFails,
                Debit, Replayed, Settle, Fail, GoTo, Leave, Idle, IsAt
  <1>2. ASSUME NEW h \in Handlers, NEW o \in OrdersOf[h], Start(h, o)
        PROVE  WorksForItsOrder'
    BY <1>2 DEF GrantTypeOK, WorksForItsOrder, Start, IsAt
  <1>3. CASE Crash
    BY <1>3 DEF GrantTypeOK, WorksForItsOrder, Crash, Leave, Idle, IsAt
  <1>4. CASE UNCHANGED handlers
    BY <1>4 DEF WorksForItsOrder, IsAt
  <1> QED
    BY <1>1, <1>2, <1>3, <1>4 DEF GrantNext, OtherPosting, grantVars

\* City's credits stay amounts.
LEMMA CityKeepsTypes ==
  ASSUME credited \in [IntentIds -> Nat], NEW h \in Handlers, NEW o \in OrdersOf[h],
         CityCredits(o)
  PROVE  credited' \in [IntentIds -> Nat]
  BY OrderTypes DEF CityCredits

\* Types are invariant.
LEMMA StepKeepsTypes ==
  ASSUME GrantTypeOK, LedgerInv, WorksForItsOrder, [GrantNext]_grantVars
  PROVE  GrantTypeOK'
  <1> USE DEF IsAt
  <1>1. TypeOK'
    BY GrantsKeepLedger DEF LedgerInv
  <1>2. intents' \in [IntentIds -> IntentStates \cup {NoIntent}]
    <2>1. ASSUME NEW h \in Handlers, Run(h)
          PROVE  intents' \in [IntentIds -> IntentStates \cup {NoIntent}]
      BY <2>1 DEF GrantTypeOK, Run, Preflight, Reject, Send, Credit, CreditFails, Debit,
                  Replayed, Settle, Fail, Mark, IntentStates
    <2>2. ASSUME NEW h \in Handlers, NEW o \in OrdersOf[h], Start(h, o)
          PROVE  intents' \in [IntentIds -> IntentStates \cup {NoIntent}]
      BY <2>2 DEF GrantTypeOK, Start, IntentStates
    <2>3. CASE UNCHANGED intents
      BY <2>3 DEF GrantTypeOK
    <2> QED
      BY <2>1, <2>2, <2>3 DEF GrantNext, OtherPosting, Crash, grantVars
  <1>3. credited' \in [IntentIds -> Nat]
    <2>1. CASE UNCHANGED credited
      BY <2>1 DEF GrantTypeOK
    <2>2. ASSUME NEW h \in Handlers, Credit(h) \/ CreditFails(h)
          PROVE  credited' \in [IntentIds -> Nat]
      <3>1. handlers[h].order \in OrdersOf[h]
        BY <2>2, UnderwayHasOrder DEF Credit, CreditFails
      <3>2. CityCredits(handlers[h].order) \/ UNCHANGED credited
        BY <2>2 DEF Credit, CreditFails
      <3> QED
        BY <2>1, <3>1, <3>2, CityKeepsTypes DEF GrantTypeOK
    <2> QED
      BY <2>1, <2>2 DEF GrantNext, Run, Start, Preflight, Reject, Send, Debit, Replayed, Settle,
                        Fail, OtherPosting, Crash, grantVars
  <1>4. handlers' \in [Handlers -> [pc : Steps, order : Order \cup {NoOrder}]]
    <2>1. ASSUME NEW h \in Handlers, Run(h)
          PROVE  handlers' \in [Handlers -> [pc : Steps, order : Order \cup {NoOrder}]]
      <3>1. CASE Leave(h)
        BY <3>1 DEF GrantTypeOK, Leave, Idle, Steps
      <3>2. ASSUME NEW pc \in Steps, GoTo(h, pc)
            PROVE  handlers' \in [Handlers -> [pc : Steps, order : Order \cup {NoOrder}]]
        BY <3>2 DEF GrantTypeOK, GoTo
      <3> QED
        BY <2>1, <3>1, <3>2 DEF Run, Preflight, Reject, Send, Credit, CreditFails, Debit,
                                Replayed, Settle, Fail, Steps
    <2>2. ASSUME NEW h \in Handlers, NEW o \in OrdersOf[h], Start(h, o)
          PROVE  handlers' \in [Handlers -> [pc : Steps, order : Order \cup {NoOrder}]]
      BY <2>2, OrderTypes DEF GrantTypeOK, Start, Steps
    <2>3. CASE Crash
      BY <2>3 DEF GrantTypeOK, Crash, Leave, Idle, Steps
    <2>4. CASE UNCHANGED handlers
      BY <2>4 DEF GrantTypeOK
    <2> QED
      BY <2>1, <2>2, <2>3, <2>4 DEF GrantNext, OtherPosting, grantVars
  <1>5. faults' \in 0..MaxFaults /\ crashes' \in 0..MaxCrashes
    BY GrantBounds DEF GrantTypeOK, GrantNext, Run, Start, Preflight, Reject, Send, Credit,
                       CreditFails, Debit, Replayed, Settle, Fail, OtherPosting, Crash, grantVars
  <1> QED
    BY <1>1, <1>2, <1>3, <1>4, <1>5 DEF GrantTypeOK

\* A handler comes to settle by a debit that was not refused, and answers for a
\* settled key whose debit is recorded.
LEMMA StepKeepsDebitFirst ==
  ASSUME GrantInv, [GrantNext]_grantVars
  PROVE  DebitComesFirst'
  <1> USE DEF GrantInv, IsAt
  <1> SUFFICES ASSUME NEW h \in Handlers, handlers'[h].pc \in {"settle", "replay"}
               PROVE  Recorded(handlers[h].order.account, handlers[h].order.key)'
    BY DEF DebitComesFirst
  <1>1. WorksForItsOrder' /\ GrantTypeOK'
    BY StepKeepsOrders, StepKeepsTypes
  <1>2. /\ handlers'[h].order.account \in Accounts
        /\ handlers'[h].order.key \in Sources /\ handlers'[h].order.key \in Keys
    <2>1. handlers'[h].order \in OrdersOf[h]
      BY <1>1 DEF WorksForItsOrder
    <2> QED
      BY <2>1, OrderTypes
  <1>3. CASE handlers'[h] = handlers[h]
    BY <1>2, <1>3, GrantsKeepLedger DEF DebitComesFirst
  <1>4. CASE Debit(h)
    <2>1. reply'[h].status = "ok" /\ handlers'[h].order = handlers[h].order
      BY <1>4 DEF Debit, GoTo, GrantTypeOK
    <2>2. h \in Clients /\ handlers[h].order \in OrdersOf[h]
      BY <1>4, HandlersAreClients DEF Debit, WorksForItsOrder
    <2>3. -handlers[h].order.amount \in Int
      BY <2>2, OrderTypes
    <2>4. AppendPointLedger(h, handlers[h].order.account, handlers[h].order.key,
                            -handlers[h].order.amount)
      BY <1>4 DEF Debit, DebitStandIn
    <2> QED
      BY <1>2, <2>1, <2>2, <2>3, <2>4, OkIsRecorded
  <1>5. ASSUME NEW o \in OrdersOf[h], Start(h, o)
        PROVE  Recorded(handlers[h].order.account, handlers[h].order.key)'
    <2>1. handlers'[h].order = o /\ intents[IntentOf(o)] = "settled"
      BY <1>5 DEF Start, GrantTypeOK
    <2>2. Recorded(o.account, o.key)
      BY <2>1, OrderTypes DEF SettledMeansPaid, IntentOf
    <2> QED
      BY <1>2, <2>1, <2>2, GrantsKeepLedger
  <1>6. \/ handlers'[h] = handlers[h]
        \/ Debit(h)
        \/ \E o \in OrdersOf[h] : Start(h, o)
    <2>1. ASSUME NEW g \in Handlers, Run(g), g # h
          PROVE  handlers'[h] = handlers[h]
      BY <2>1 DEF GrantTypeOK, Run, Preflight, Reject, Send, Credit, CreditFails, Debit, Replayed,
                  Settle, Fail, GoTo, Leave
    <2>2. ASSUME Run(h)
          PROVE  Debit(h)
      BY <2>2 DEF GrantTypeOK, Run, Preflight, Reject, Send, Credit, CreditFails, Replayed,
                  Settle, Fail, GoTo, Leave, Idle
    <2>3. ASSUME NEW g \in Handlers, NEW o \in OrdersOf[g], Start(g, o), g # h
          PROVE  handlers'[h] = handlers[h]
      BY <2>3 DEF GrantTypeOK, Start
    <2>4. CASE Crash
      BY <2>4 DEF GrantTypeOK, Crash, Leave, Idle
    <2> QED
      BY <2>1, <2>2, <2>3, <2>4 DEF GrantNext, OtherPosting, grantVars
  <1> QED
    BY <1>3, <1>4, <1>5, <1>6

\* An intent becomes settled by a handler whose debit is recorded.
LEMMA StepKeepsSettledPaid ==
  ASSUME GrantInv, [GrantNext]_grantVars
  PROVE  SettledMeansPaid'
  <1> USE DEF GrantInv, IsAt
  <1> SUFFICES ASSUME NEW a \in Accounts, NEW k \in Keys, intents'[<<a, k>>] = "settled"
               PROVE  Recorded(a, k)'
    BY DEF SettledMeansPaid
  <1>1. Recorded(a, k) => Recorded(a, k)'
    BY KeysAreSources, GrantsKeepLedger
  <1>2. CASE intents[<<a, k>>] = "settled"
    BY <1>1, <1>2 DEF SettledMeansPaid
  <1>3. ASSUME NEW h \in Handlers, Settle(h), <<a, k>> = IntentOf(handlers[h].order)
        PROVE  Recorded(a, k)'
    BY <1>1, <1>3 DEF Settle, DebitComesFirst, IntentOf
  <1>4. \/ intents[<<a, k>>] = "settled"
        \/ \E h \in Handlers : Settle(h) /\ <<a, k>> = IntentOf(handlers[h].order)
    <2> DEFINE i == <<a, k>>
    <2>1. i \in IntentIds
      BY DEF IntentIds
    <2> HIDE DEF i
    <2>2. ASSUME NEW h \in Handlers, Run(h), ~Settle(h)
          PROVE  intents'[i] = "settled" => intents[i] = "settled"
      BY <2>1, <2>2 DEF GrantTypeOK, Run, Preflight, Reject, Send, Credit, CreditFails, Debit,
                        Replayed, Fail, Mark
    <2>3. ASSUME NEW h \in Handlers, Settle(h), i # IntentOf(handlers[h].order)
          PROVE  intents'[i] = intents[i]
      BY <2>1, <2>3 DEF GrantTypeOK, Settle, Mark
    <2>4. ASSUME NEW h \in Handlers, NEW o \in OrdersOf[h], Start(h, o)
          PROVE  intents'[i] = "settled" => intents[i] = "settled"
      BY <2>1, <2>4 DEF GrantTypeOK, Start
    <2>5. intents'[i] = "settled"
      BY DEF i
    <2>6. intents[i] = "settled" \/ \E h \in Handlers : Settle(h) /\ i = IntentOf(handlers[h].order)
      BY <2>2, <2>3, <2>4, <2>5 DEF GrantNext, OtherPosting, Crash, grantVars
    <2> QED
      BY <2>6 DEF i
  <1> QED
    BY <1>2, <1>3, <1>4

LEMMA GrantInvPreserved ==
  ASSUME GrantInv, [GrantNext]_grantVars
  PROVE  GrantInv'
  BY StepKeepsTypes, GrantsKeepLedger, StepKeepsOrders, StepKeepsDebitFirst, StepKeepsSettledPaid
  DEF GrantInv

LEMMA GrantInvInitial ==
  ASSUME GrantInit
  PROVE  GrantInv
  <1>1. LedgerInv
    BY InvInitial DEF GrantInit
  <1>2. GrantTypeOK
    BY <1>1, GrantBounds DEF GrantInit, GrantTypeOK, LedgerInv, Idle, Steps
  <1>3. WorksForItsOrder /\ DebitComesFirst
    BY DEF GrantInit, WorksForItsOrder, DebitComesFirst, Idle, IsAt
  <1>4. SettledMeansPaid
    BY NoIntentIsApart DEF GrantInit, SettledMeansPaid, IntentIds
  <1> QED
    BY <1>1, <1>2, <1>3, <1>4 DEF GrantInv

\* In every behaviour of the grants: types hold, the ledger keeps its promises,
\* and no handler settles or answers without a recorded debit.
THEOREM GrantsAreSound == GrantSpec => []GrantInv
  <1>1. GrantInit => GrantInv
    BY GrantInvInitial
  <1>2. GrantInv /\ [GrantNext]_grantVars => GrantInv'
    BY GrantInvPreserved
  <1> QED
    BY <1>1, <1>2, PTL DEF GrantSpec

\* Type correctness of the grants.
THEOREM GrantTypeCorrect == GrantSpec => []GrantTypeOK
  <1>1. GrantInv => GrantTypeOK
    BY DEF GrantInv
  <1> QED
    BY <1>1, GrantsAreSound, PTL

\* A settled grant was paid for, however handlers, failures and crashes interleave
\* and even if two handlers run under one key (runAttentionGrant).
THEOREM GrantsSettledArePaid == GrantSpec => []SettledMeansPaid
  <1>1. GrantInv => SettledMeansPaid
    BY DEF GrantInv
  <1> QED
    BY <1>1, GrantsAreSound, PTL
-----------------------------------------------------------------------------
(* The credit before the debit.                                             *)

\* What City holds for a key changes only when a handler credits it, from nothing
\* to that handler's amount.
LEMMA CreditsChange ==
  ASSUME GrantInv, [GrantNext]_grantVars
  PROVE  \/ UNCHANGED credited
         \/ \E h \in Handlers :
              /\ handlers[h].order \in OrdersOf[h]
              /\ credited[IntentOf(handlers[h].order)] = 0
              /\ credited' = [credited EXCEPT ![IntentOf(handlers[h].order)] =
                                                handlers[h].order.amount]
  <1> USE DEF GrantInv
  <1>1. ASSUME NEW h \in Handlers, Credit(h) \/ CreditFails(h), ~UNCHANGED credited
        PROVE  /\ handlers[h].order \in OrdersOf[h]
               /\ credited[IntentOf(handlers[h].order)] = 0
               /\ credited' = [credited EXCEPT ![IntentOf(handlers[h].order)] =
                                                 handlers[h].order.amount]
    BY <1>1 DEF Credit, CreditFails, CityCredits, WorksForItsOrder, IsAt
  <1> QED
    BY <1>1 DEF GrantNext, Run, Start, Preflight, Reject, Send, Debit, Replayed, Settle, Fail,
                OtherPosting, Crash, grantVars

\* City credits a key with the one amount of its orders.
LEMMA StepKeepsCreditsOrdered ==
  ASSUME KeysNameAmounts, GrantInv, CreditsAreOrdered, [GrantNext]_grantVars
  PROVE  CreditsAreOrdered'
  <1> SUFFICES ASSUME NEW h \in Handlers, NEW o \in OrdersOf[h]
               PROVE  credited'[IntentOf(o)] \in {0, o.amount}
    BY DEF CreditsAreOrdered
  <1>1. IntentOf(o) \in IntentIds
    BY OrderTypes
  <1>2. CASE UNCHANGED credited
    BY <1>2 DEF CreditsAreOrdered
  <1>3. ASSUME NEW g \in Handlers, handlers[g].order \in OrdersOf[g],
               credited' = [credited EXCEPT ![IntentOf(handlers[g].order)] =
                                             handlers[g].order.amount]
        PROVE  credited'[IntentOf(o)] \in {0, o.amount}
    <2>1. CASE IntentOf(o) = IntentOf(handlers[g].order)
      <3>1. handlers[g].order.amount = o.amount
        BY <1>3, <2>1 DEF KeysNameAmounts
      <3> QED
        BY <1>1, <1>3, <2>1, <3>1 DEF GrantInv, GrantTypeOK
    <2>2. CASE IntentOf(o) # IntentOf(handlers[g].order)
      BY <1>1, <1>3, <2>2 DEF GrantInv, GrantTypeOK, CreditsAreOrdered
    <2> QED
      BY <2>1, <2>2
  <1> QED
    BY <1>2, <1>3, CreditsChange

\* A credit once given stays as it is.
LEMMA CreditsStay ==
  ASSUME GrantInv, [GrantNext]_grantVars, NEW i \in IntentIds, credited[i] # 0
  PROVE  credited'[i] = credited[i]
  BY CreditsChange DEF GrantInv, GrantTypeOK

\* Only a credit that City confirmed takes a handler to its debit.
LEMMA StepKeepsCreditFirst ==
  ASSUME GrantInv, CreditInv, CreditsAreOrdered', [GrantNext]_grantVars
  PROVE  CreditComesFirst'
  <1> USE DEF GrantInv, IsAt
  <1> SUFFICES ASSUME NEW h \in Handlers, handlers'[h].pc = "debit"
               PROVE  credited'[IntentOf(handlers'[h].order)] = handlers'[h].order.amount
    BY DEF CreditComesFirst, IntentOf
  <1>1. CASE handlers'[h] = handlers[h]
    <2> DEFINE o == handlers[h].order
    <2>1. o \in OrdersOf[h] /\ credited[IntentOf(o)] = o.amount
      BY <1>1 DEF CreditInv, CreditComesFirst, WorksForItsOrder
    <2>2. IntentOf(o) \in IntentIds /\ o.amount # 0
      BY <2>1, OrderTypes
    <2> HIDE DEF o
    <2>3. credited'[IntentOf(o)] = o.amount
      BY <2>1, <2>2, CreditsStay
    <2> QED
      BY <1>1, <2>3 DEF o
  <1>2. CASE Credit(h)
    <2> DEFINE o == handlers[h].order
    <2>1. handlers'[h].order = o
      BY <1>2 DEF Credit, GoTo, GrantTypeOK
    <2>2. o \in OrdersOf[h]
      BY <1>2 DEF Credit, WorksForItsOrder
    <2>3. IntentOf(o) \in IntentIds /\ o.amount # 0
      BY <2>2, OrderTypes
    <2>4. CityCredits(o)
      BY <1>2 DEF Credit
    <2> HIDE DEF o
    <2>5. credited[IntentOf(o)] \in {0, o.amount}
      BY <2>2 DEF CreditInv, CreditsAreOrdered
    <2>6. credited'[IntentOf(o)] = o.amount
      BY <2>3, <2>4, <2>5 DEF CityCredits, GrantTypeOK
    <2> QED
      BY <2>1, <2>6
  <1>3. handlers'[h] = handlers[h] \/ Credit(h)
    <2>1. ASSUME NEW g \in Handlers, Run(g), g # h
          PROVE  handlers'[h] = handlers[h]
      BY <2>1 DEF GrantTypeOK, Run, Preflight, Reject, Send, Credit, CreditFails, Debit, Replayed,
                  Settle, Fail, GoTo, Leave
    <2>2. ASSUME Run(h)
          PROVE  Credit(h)
      BY <2>2 DEF GrantTypeOK, Run, Preflight, Reject, Send, CreditFails, Debit, Replayed,
                  Settle, Fail, GoTo, Leave, Idle
    <2>3. ASSUME NEW g \in Handlers, NEW o \in OrdersOf[g], Start(g, o)
          PROVE  handlers'[h] = handlers[h]
      BY <2>3 DEF GrantTypeOK, Start
    <2>4. CASE Crash
      BY <2>4 DEF GrantTypeOK, Crash, Leave, Idle
    <2> QED
      BY <2>1, <2>2, <2>3, <2>4 DEF GrantNext, OtherPosting, grantVars
  <1> QED
    BY <1>1, <1>2, <1>3

\* A key's record appears by the debit of a handler of that key, which has its
\* credit: no other posting uses a grant's key, and a settled key has its record.
LEMMA StepKeepsPaidCredited ==
  ASSUME GrantInv, CreditInv, [GrantNext]_grantVars
  PROVE  RecordedIsCredited' /\ PaidMeansCredited'
  <1> SUFFICES ASSUME NEW a \in Accounts, NEW k \in Keys, Recorded(a, k)'
               PROVE  credited'[<<a, k>>] # 0 /\ credited'[<<a, k>>] = -RecordedEntry(a, k)'.delta
    BY DEF RecordedIsCredited, PaidMeansCredited
  <1>1. k \in Sources /\ <<a, k>> \in IntentIds
    BY KeysAreSources DEF IntentIds
  <1>2. CASE Recorded(a, k)
    <2>1. RecordedEntry(a, k)' = RecordedEntry(a, k)
      BY <1>1, <1>2, GrantsKeepLedger DEF GrantInv
    <2>2. credited[<<a, k>>] # 0 /\ credited[<<a, k>>] = -RecordedEntry(a, k).delta
      BY <1>2 DEF CreditInv, RecordedIsCredited, PaidMeansCredited
    <2>3. credited'[<<a, k>>] = credited[<<a, k>>]
      BY <1>1, <2>2, CreditsStay
    <2> QED
      BY <2>1, <2>2, <2>3
  <1>3. CASE ~Recorded(a, k)
    <2>1. ~UNCHANGED <<balance, ledger, reply>>
      BY <1>3, SameLedgerSameRecords
    <2>2. ASSUME NEW c \in Clients, NEW b \in Accounts, NEW s \in Sources, NEW d \in Deltas,
                 OtherPosting(c, b, s, d)
          PROVE  FALSE
      <3>1. s \notin Keys /\ AppendPointLedger(c, b, s, d) /\ d \in Int
        BY <2>2, DeltasAreIntegers DEF OtherPosting
      <3>2. k = s
        BY <1>1, <1>3, <3>1, OnlyItsOwnRecord DEF GrantInv
      <3> QED
        BY <3>1, <3>2
    <2>3. PICK h \in Handlers :
            /\ handlers[h].pc \in {"debit", "replay"}
            /\ handlers[h].order \in OrdersOf[h]
            /\ DebitStandIn(h)
      BY <2>1, <2>2, StepIsLedgerCall DEF GrantInv, grantVars
    <2> DEFINE o == handlers[h].order
    <2>4. /\ h \in Clients /\ o.account \in Accounts /\ o.key \in Sources
          /\ -o.amount \in Int /\ o.amount \in Nat \ {0} /\ o \in OrdersOf[h]
      BY <2>3, HandlersAreClients, OrderTypes
    <2>5. AppendPointLedger(h, o.account, o.key, -o.amount)
      BY <2>3 DEF DebitStandIn
    <2> HIDE DEF o
    <2>6. a = o.account /\ k = o.key /\ RecordedEntry(a, k)'.delta = -o.amount
      BY <1>1, <1>3, <2>4, <2>5, OnlyItsOwnRecord DEF GrantInv
    <2>7. handlers[h].pc = "debit"
      BY <1>3, <2>3, <2>6 DEF GrantInv, DebitComesFirst, o
    <2>8. credited[<<a, k>>] = o.amount
      BY <2>6, <2>7 DEF CreditInv, CreditComesFirst, IsAt, IntentOf, o
    <2>9. credited'[<<a, k>>] = credited[<<a, k>>]
      BY <1>1, <2>4, <2>8, CreditsStay
    <2> QED
      BY <2>4, <2>6, <2>8, <2>9
  <1> QED
    BY <1>2, <1>3

\* The user pays only for attention that was credited, and exactly that much
\* (runAttentionGrant), if a key names one amount.
THEOREM GrantsPaidAreCredited ==
  ASSUME KeysNameAmounts
  PROVE  GrantSpec => []PaidMeansCredited
  <1>1. GrantInit => CreditInv
    BY OrderTypes DEF GrantInit, Init, CreditInv, CreditsAreOrdered, CreditComesFirst,
       RecordedIsCredited, PaidMeansCredited, Recorded, Idle, IsAt
  <1>2. GrantInv /\ CreditInv /\ [GrantNext]_grantVars => CreditInv'
    BY StepKeepsCreditsOrdered, StepKeepsCreditFirst, StepKeepsPaidCredited DEF CreditInv
  <1>3. CreditInv => PaidMeansCredited
    BY DEF CreditInv
  <1> QED
    BY <1>1, <1>2, <1>3, GrantsAreSound, PTL DEF GrantSpec

-----------------------------------------------------------------------------
(* Settled for good.                                                        *)

\* If no key is in flight twice, nobody settles an intent behind the back of a
\* handler that works on it.
LEMMA StepKeepsUnderwayOpen ==
  ASSUME KeysAreExclusive, GrantInv, UnderwayIsOpen, [GrantNext]_grantVars
  PROVE  UnderwayIsOpen'
  <1> USE DEF GrantInv, IsAt
  <1> SUFFICES ASSUME NEW h \in Handlers, handlers'[h].pc \notin {"idle", "replay"}
               PROVE  intents'[IntentOf(handlers'[h].order)] # "settled"
    BY DEF UnderwayIsOpen, IntentOf
  <1>1. handlers'[h].order \in OrdersOf[h]
    BY StepKeepsOrders DEF WorksForItsOrder
  <1>2. PICK i \in IntentIds : i = IntentOf(handlers'[h].order)
    BY <1>1, OrderTypes
  <1> SUFFICES intents'[i] # "settled"
    BY <1>2
  <1>3. ASSUME NEW g \in Handlers, g # h, ~IsAt(g, "idle")
        PROVE  IntentOf(handlers[g].order) # i
    BY <1>1, <1>2, <1>3 DEF KeysAreExclusive, WorksForItsOrder
  <1>4. CASE handlers'[h] = handlers[h]
    <2>1. intents[i] # "settled"
      BY <1>2, <1>4 DEF UnderwayIsOpen
    <2>2. ASSUME NEW g \in Handlers, Run(g), g # h
          PROVE  intents'[i] = intents[i]
      BY <1>2, <1>3, <2>2 DEF GrantTypeOK, Run, Preflight, Reject, Send, Credit, CreditFails, Debit,
                              Replayed, Settle, Fail, Mark
    <2>3. ASSUME NEW g \in Handlers, NEW o \in OrdersOf[g], Start(g, o)
          PROVE  intents'[i] # "settled"
      BY <1>2, <2>1, <2>3 DEF GrantTypeOK, Start
    <2>4. CASE Run(h)
      BY <1>4, <2>4 DEF GrantTypeOK, Run, Preflight, Reject, Send, Credit, CreditFails, Debit,
                        Replayed, Settle, Fail, Mark, GoTo, Leave, Idle
    <2>5. ASSUME NEW g \in Handlers, Run(g)
          PROVE  intents'[i] # "settled"
      BY <2>1, <2>2, <2>4, <2>5
    <2>6. CASE UNCHANGED intents
      BY <2>1, <2>6
    <2> QED
      BY <2>3, <2>5, <2>6 DEF GrantNext, OtherPosting, Crash, grantVars
  <1>5. CASE Run(h)
    <2>1. i = IntentOf(handlers[h].order) /\ intents[i] # "settled"
      <3>1. handlers'[h].order = handlers[h].order /\ handlers[h].pc \notin {"idle", "replay"}
        BY <1>5 DEF GrantTypeOK, Run, Preflight, Reject, Send, Credit, CreditFails, Debit, Replayed,
                    Settle, Fail, GoTo, Leave, Idle
      <3> QED
        BY <1>2, <3>1 DEF UnderwayIsOpen
    <2> QED
      BY <1>2, <1>5, <2>1 DEF GrantTypeOK, Run, Preflight, Reject, Send, Credit, CreditFails, Debit,
                              Replayed, Settle, Fail, Mark, Leave, Idle
  <1>6. ASSUME NEW o \in OrdersOf[h], Start(h, o)
        PROVE  intents'[i] # "settled"
    <2>1. handlers'[h].order = o /\ intents[IntentOf(o)] # "settled"
      BY <1>6 DEF Start, GrantTypeOK
    <2> QED
      BY <1>2, <1>6, <2>1, OrderTypes DEF Start, GrantTypeOK
  <1>7. handlers'[h] = handlers[h] \/ Run(h) \/ \E o \in OrdersOf[h] : Start(h, o)
    <2>1. ASSUME NEW g \in Handlers, Run(g), g # h
          PROVE  handlers'[h] = handlers[h]
      BY <2>1 DEF GrantTypeOK, Run, Preflight, Reject, Send, Credit, CreditFails, Debit, Replayed,
                  Settle, Fail, GoTo, Leave
    <2>2. ASSUME NEW g \in Handlers, NEW o \in OrdersOf[g], Start(g, o), g # h
          PROVE  handlers'[h] = handlers[h]
      BY <2>2 DEF GrantTypeOK, Start
    <2>3. CASE Crash
      BY <2>3 DEF GrantTypeOK, Crash, Leave, Idle
    <2> QED
      BY <2>1, <2>2, <2>3 DEF GrantNext, OtherPosting, grantVars
  <1> QED
    BY <1>4, <1>5, <1>6, <1>7

\* A settled intent is never marked again.
LEMMA NoStepReopens ==
  ASSUME GrantInv, UnderwayIsOpen, [GrantNext]_grantVars,
         NEW i \in IntentIds, intents[i] = "settled"
  PROVE  intents'[i] = "settled"
  <1>1. ASSUME NEW h \in Handlers, Run(h)
        PROVE  intents'[i] = "settled"
    BY <1>1 DEF GrantInv, GrantTypeOK, UnderwayIsOpen, Run, Preflight, Reject, Send, Credit,
                CreditFails, Debit, Replayed, Settle, Fail, Mark, IsAt
  <1>2. ASSUME NEW h \in Handlers, NEW o \in OrdersOf[h], Start(h, o)
        PROVE  intents'[i] = "settled"
    BY <1>2, NoIntentIsApart DEF GrantInv, GrantTypeOK, Start
  <1> QED
    BY <1>1, <1>2 DEF GrantNext, OtherPosting, Crash, grantVars

\* A settled grant is never reopened by a handler that runs late, if no key is in
\* flight twice.
THEOREM GrantsStaySettled ==
  ASSUME KeysAreExclusive
  PROVE  GrantSpec => SettledStaysSettled
  <1>1. GrantInit => UnderwayIsOpen
    BY DEF GrantInit, UnderwayIsOpen, Idle
  <1>2. GrantInv /\ UnderwayIsOpen /\ [GrantNext]_grantVars => UnderwayIsOpen'
    BY StepKeepsUnderwayOpen
  <1>3. GrantInv /\ UnderwayIsOpen /\ [GrantNext]_grantVars =>
          [\A i \in IntentIds : intents[i] = "settled" => intents'[i] = "settled"]_grantVars
    BY NoStepReopens
  <1> QED
    BY <1>1, <1>2, <1>3, GrantsAreSound, PTL DEF GrantSpec, SettledStaysSettled
=============================================================================
