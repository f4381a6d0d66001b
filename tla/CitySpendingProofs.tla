--------------------------- MODULE CitySpendingProofs ---------------------------
(***************************************************************************)
(* Proofs about CitySpending for any handlers, accounts, orders and        *)
(* check-ins, and any number of crashes.  A request posts to the ledger    *)
(* first and stores its row afterwards, from the answer: a handler between *)
(* the two holds the ledger's own entry of its order, which nothing takes  *)
(* back.                                                                   *)
(***************************************************************************)
EXTENDS CitySpending, PointLedgerProofs, FiniteSetTheorems, WellFoundedInduction

AnyOrder == Contributions \cup Trades \cup SyncOrder \cup {NoOrder}

Job == [pc : Steps, order : AnyOrder, amount : Nat]

\* Whoever holds an answer of the ledger holds an entry.
HoldsEntry == {"contribute_record", "trade_record", "audit"}

\* A handler works on an order of its kind.
OfItsKind(job) ==
  /\ job.pc = "idle" <=> job.order = NoOrder
  /\ job.pc \in {"contribute_debit", "contribute_record", "contribute_count"} => job.order \in Contributions
  /\ job.pc \in {"trade_debit", "trade_record"} => job.order \in Trades
  /\ job.pc \in {"award", "audit"} => job.order \in SyncOrder

HandlersHaveOrders ==
  /\ handlers \in [Handlers -> Job]
  /\ \A h \in Handlers :
       /\ OfItsKind(handlers[h])
       /\ handlers[h].pc \in HoldsEntry => reply[h].entry \in Entry
       /\ IsAt(h, "audit") => reply[h].source \in Todo(h)

SpendingInv ==
  HandlersHaveOrders /\ LedgerInv /\ crashes \in 0..MaxCrashes /\ FundingTypeOK /\ TradesTypeOK /\ AwardsTypeOK

\* What is recorded under an order's source moved the account by the order's amount.
EntriesAreOrdered ==
  /\ \A o \in Contributions :
       Recorded(o.account, ContributionSource(o)) =>
         RecordedEntry(o.account, ContributionSource(o)).delta = -o.amount
  /\ \A o \in Trades :
       Recorded(o.account, TradeSource(o)) => RecordedEntry(o.account, TradeSource(o)).delta = -o.amount
  /\ \A a \in Accounts, k \in Checkins : Recorded(a, k) => RecordedEntry(a, k).delta = Award[k]

\* The source of what a handler last posted, from its job and its last answer.
SourceAt(job, answer) ==
  IF job.pc = "contribute_record" THEN ContributionSource(job.order)
  ELSE IF job.pc = "trade_record" THEN TradeSource(job.order)
  ELSE answer.source

SourceOf(h) == SourceAt(handlers[h], reply[h])

\* A handler about to store a row holds the ledger's entry of its order.
EntriesAreAnswered ==
  \A h \in Handlers :
    handlers[h].pc \in HoldsEntry =>
      /\ Recorded(OrderOf(h).account, SourceOf(h))
      /\ reply[h].entry = RecordedEntry(OrderOf(h).account, SourceOf(h))

\* A sync has awarded and audited what it listed and no longer has to do.
ListsAreDone ==
  \A h \in Handlers :
    handlers[h].pc \in {"award", "audit"} =>
      \A k \in OrderOf(h).listed \ Todo(h) :
        Recorded(OrderOf(h).account, k) /\ \E row \in audited : row.checkin = k

-----------------------------------------------------------------------------
(* The handlers and the ledger.                                             *)

\* A handler posts for its order.
Posts(h, a, s, d) ==
  /\ AppendPointLedger(h, a, s, d)
  /\ a = OrderOf(h).account
  /\ \/ IsAt(h, "contribute_debit") /\ s = ContributionSource(OrderOf(h)) /\ d = -OrderOf(h).amount
     \/ IsAt(h, "trade_debit") /\ s = TradeSource(OrderOf(h)) /\ d = -OrderOf(h).amount
     \/ IsAt(h, "award") /\ s \in Todo(h) /\ d = Award[s]
  /\ UNCHANGED <<crashes, fundingVars, trades, awardVars>>

Holding == [contribute_debit |-> "contribute_record", trade_debit |-> "trade_record", award |-> "audit"]

\* What a posting does to its handler.
Posted(h) ==
  \/ reply'[h].status # "ok" /\ handlers' = [handlers EXCEPT ![h] = Idle]
  \/ /\ reply'[h].status = "ok"
     /\ handlers' = [handlers EXCEPT ![h] = [handlers[h] EXCEPT !.pc = Holding[handlers[h].pc]]]

LEMMA PostThenPosts ==
  ASSUME NEW h, NEW pc, NEW a, NEW s, NEW d, PostThen(h, pc, a, s, d), Holding[handlers[h].pc] = pc
  PROVE  Posted(h)
  <1>1. \/ reply'[h].status = "ok" /\ handlers' = [handlers EXCEPT ![h] = [handlers[h] EXCEPT !.pc = pc]]
        \/ reply'[h].status # "ok" /\ handlers' = [handlers EXCEPT ![h] = Idle]
    BY DEF PostThen
  <1> QED
    BY <1>1 DEF Posted

LEMMA PostingIsForOrder ==
  ASSUME SpendingInv, NEW h \in Handlers, ContributionDebit(h) \/ TradeDebit(h) \/ AwardCheckin(h),
         UNCHANGED <<crashes, fundingVars, trades, awardVars>>
  PROVE  /\ h \in Clients
         /\ \E a \in Accounts, s \in Sources, d \in Int : Posts(h, a, s, d)
         /\ Posted(h)
  <1>1. h \in Clients
    BY HandlersAreClients
  <1>2. OfItsKind(handlers[h]) /\ handlers[h] \in Job
    BY DEF SpendingInv, HandlersHaveOrders
  <1>3. CASE ContributionDebit(h)
    <2>1. PICK o \in Contributions : o = OrderOf(h)
      BY <1>2, <1>3 DEF ContributionDebit, IsAt, OfItsKind, OrderOf
    <2>2. o.account \in Accounts /\ ContributionSource(o) \in Sources /\ -o.amount \in Int
      BY ContributionTypes
    <2>3. IsAt(h, "contribute_debit") /\ AppendPointLedger(h, o.account, ContributionSource(o), -o.amount)
      BY <1>3, <2>1 DEF ContributionDebit, PostThen
    <2>4. Posts(h, o.account, ContributionSource(o), -o.amount)
      BY <2>1, <2>3 DEF Posts
    <2>5. Posted(h)
      <3>1. Holding[handlers[h].pc] = "contribute_record"
        BY <2>3 DEF Holding, IsAt
      <3> QED
        BY <1>3, <3>1, PostThenPosts DEF ContributionDebit
    <2> QED
      BY <1>1, <2>2, <2>4, <2>5
  <1>4. CASE TradeDebit(h)
    <2>1. PICK o \in Trades : o = OrderOf(h)
      BY <1>2, <1>4 DEF TradeDebit, IsAt, OfItsKind, OrderOf
    <2>2. o.account \in Accounts /\ TradeSource(o) \in Sources /\ -o.amount \in Int
      BY TradeTypes
    <2>3. IsAt(h, "trade_debit") /\ AppendPointLedger(h, o.account, TradeSource(o), -o.amount)
      BY <1>4, <2>1 DEF TradeDebit, PostThen
    <2>4. Posts(h, o.account, TradeSource(o), -o.amount)
      BY <2>1, <2>3 DEF Posts
    <2>5. Posted(h)
      <3>1. Holding[handlers[h].pc] = "trade_record"
        BY <2>3 DEF Holding, IsAt
      <3> QED
        BY <1>4, <3>1, PostThenPosts DEF TradeDebit
    <2> QED
      BY <1>1, <2>2, <2>4, <2>5
  <1>5. CASE AwardCheckin(h)
    <2>1. PICK o \in SyncOrder : o = OrderOf(h)
      BY <1>2, <1>5 DEF AwardCheckin, IsAt, OfItsKind, OrderOf
    <2>2. PICK k \in Checkins :
            IsAt(h, "award") /\ k \in Todo(h) /\ PostThen(h, "audit", OrderOf(h).account, k, Award[k])
      BY <1>5 DEF AwardCheckin
    <2>3. o.account \in Accounts /\ k \in Sources /\ Award[k] \in Int
      BY CheckinTypes, AwardType DEF SyncOrder
    <2>4. AppendPointLedger(h, o.account, k, Award[k])
      BY <2>1, <2>2 DEF PostThen
    <2>5. Posts(h, o.account, k, Award[k])
      BY <2>1, <2>2, <2>4 DEF Posts
    <2>6. Posted(h)
      <3>1. Holding[handlers[h].pc] = "audit"
        BY <2>2 DEF Holding, IsAt
      <3> QED
        BY <2>2, <3>1, PostThenPosts
    <2> QED
      BY <1>1, <2>3, <2>5, <2>6
  <1> QED
    BY <1>3, <1>4, <1>5

\* A step posts for a handler's order, is an admin's posting, or leaves the ledger.
LEMMA StepIsLedgerCall ==
  ASSUME SpendingInv, [SpendingNext]_spendingVars
  PROVE  \/ UNCHANGED <<balance, ledger, reply>>
         \/ \E h \in Handlers, a \in Accounts, s \in Sources, d \in Int :
              h \in Clients /\ Posts(h, a, s, d) /\ Posted(h)
         \/ \E c \in Clients, a \in Accounts, s \in Sources, d \in Deltas : AdminPosting(c, a, s, d)
  <1>1. ASSUME NEW h \in Handlers, Run(h)
        PROVE  \/ UNCHANGED <<balance, ledger, reply>>
               \/ \E a \in Accounts, s \in Sources, d \in Int :
                    h \in Clients /\ Posts(h, a, s, d) /\ Posted(h)
    <2>1. CASE ContributionDebit(h) \/ TradeDebit(h) \/ AwardCheckin(h)
      BY <1>1, <2>1, PostingIsForOrder DEF Run, BesidesFunding, BesidesTrades, BesidesAwards, fundingVars,
         awardVars, RunContribution, RunTrade, RunSync, ContributionDebit, TradeDebit, AwardCheckin,
         RecordContribution, CountContribution, RecordTrade, RecordAward, IsAt
    <2>2. CASE ~(ContributionDebit(h) \/ TradeDebit(h) \/ AwardCheckin(h))
      BY <1>1, <2>2 DEF Run, RunContribution, RunTrade, RunSync, RecordContribution, CountContribution,
         RecordTrade, RecordAward, ledgerVars
    <2> QED
      BY <2>1, <2>2
  <1>2. CASE UNCHANGED <<balance, ledger, reply>>
    BY <1>2
  <1> QED
    BY <1>1, <1>2 DEF SpendingNext, Request, Contribute, Trade, SyncLandingCheckins, OneStep,
       CreateSoulProposal, CheckIn, ServerCrash, Crash, ledgerVars, spendingVars

\* The ledger's invariant survives every step, and so does every record.
LEMMA SpendingKeepsLedger ==
  ASSUME SpendingInv, [SpendingNext]_spendingVars
  PROVE  /\ LedgerInv'
         /\ \A a \in Accounts, s \in Sources :
              Recorded(a, s) => Recorded(a, s)' /\ RecordedEntry(a, s)' = RecordedEntry(a, s)
  <1>1. LedgerInv
    BY DEF SpendingInv
  <1>2. CASE UNCHANGED <<balance, ledger, reply>>
    <2>1. LedgerInv'
      BY <1>1, <1>2, InvPreserved DEF vars
    <2> QED
      BY <1>2, <2>1, SameLedgerSameRecords
  <1>3. ASSUME NEW c \in Clients, NEW a \in Accounts, NEW s \in Sources, NEW d \in Int,
               AppendPointLedger(c, a, s, d)
        PROVE  /\ LedgerInv'
               /\ \A b \in Accounts, x \in Sources :
                    Recorded(b, x) => Recorded(b, x)' /\ RecordedEntry(b, x)' = RecordedEntry(b, x)
    BY <1>1, <1>3, CallKeepsInv, RecordsStay
  <1> QED
    BY <1>2, <1>3, StepIsLedgerCall, DeltasAreIntegers DEF Posts, AdminPosting

\* What is newly recorded, a handler posted for its order, or an admin under a source
\* of no order.
LEMMA NewRecords ==
  ASSUME SpendingInv, [SpendingNext]_spendingVars, NEW b \in Accounts, NEW x \in Sources,
         ~Recorded(b, x), Recorded(b, x)', x \in OrderSources
  PROVE  \E h \in Handlers, d \in Int :
           /\ Posts(h, b, x, d) /\ Posted(h) /\ reply'[h].status = "ok"
           /\ RecordedEntry(b, x)'.delta = d
  <1>1. LedgerInv
    BY DEF SpendingInv
  <1>2. ~UNCHANGED <<balance, ledger, reply>>
    BY SameLedgerSameRecords
  <1>3. ASSUME NEW c \in Clients, NEW a \in Accounts, NEW s \in Sources, NEW d \in Deltas,
               AdminPosting(c, a, s, d)
        PROVE  FALSE
    <2>1. x = s
      BY <1>1, <1>3, OnlyItsOwnRecord, DeltasAreIntegers DEF AdminPosting
    <2> QED
      BY <1>3, <2>1 DEF AdminPosting
  <1>4. PICK h \in Handlers, a \in Accounts, s \in Sources, d \in Int :
          h \in Clients /\ Posts(h, a, s, d) /\ Posted(h)
    BY <1>2, <1>3, StepIsLedgerCall
  <1>5. b = a /\ x = s /\ RecordedEntry(b, x)'.delta = d
    BY <1>1, <1>4, OnlyItsOwnRecord DEF Posts
  <1>6. ~UNCHANGED ledger
    BY SameLedgerSameRecords
  <1>7. reply'[h].status = "ok"
    BY <1>1, <1>4, <1>6, WrittenIsOk DEF Posts, LedgerInv
  <1> QED
    BY <1>4, <1>5, <1>7

-----------------------------------------------------------------------------
(* The handlers.                                                            *)

\* What a step does to one handler.
HandlerMove(h) ==
  \/ handlers'[h] = handlers[h]
  \/ handlers'[h] = Idle
  \/ \E o \in Contributions :
       /\ proposals[o.proposal].status # "none" /\ o \in OrdersOf[h] /\ ~HasRow(o)
       /\ handlers'[h] = [pc |-> "contribute_debit", order |-> o, amount |-> o.amount]
  \/ \E o \in Trades : handlers'[h] = [pc |-> "trade_debit", order |-> o, amount |-> o.amount]
  \/ \E o \in SyncOrder :
       o.todo = o.listed /\ handlers'[h] = [pc |-> "award", order |-> o, amount |-> 0]
  \/ /\ \E a \in Accounts, s \in Sources, d \in Int : Posts(h, a, s, d)
     /\ reply'[h].status = "ok"
     /\ handlers'[h] = [handlers[h] EXCEPT !.pc = Holding[handlers[h].pc]]
  \/ RecordContribution(h) /\ handlers'[h] = [handlers[h] EXCEPT !.pc = "contribute_count"]
  \/ /\ RecordAward(h)
     /\ handlers'[h] = [pc |-> "award", order |-> [OrderOf(h) EXCEPT !.todo = @ \ {reply[h].source}],
                        amount |-> 0]

\* Every other handler stays where it is.
OneMoves(h) ==
  /\ handlers' = [handlers EXCEPT ![h] = handlers'[h]]
  /\ HandlerMove(h)

LEMMA OneMovesAll ==
  ASSUME SpendingInv, NEW g \in Handlers, OneMoves(g)
  PROVE  handlers' = [h \in Handlers |-> handlers'[h]] /\ \A h \in Handlers : HandlerMove(h)
  <1>1. handlers \in [Handlers -> Job]
    BY DEF SpendingInv, HandlersHaveOrders
  <1>2. handlers' = [h \in Handlers |-> handlers'[h]]
    BY <1>1 DEF OneMoves
  <1>3. ASSUME NEW h \in Handlers, h # g
        PROVE  handlers'[h] = handlers[h]
    BY <1>1, <1>3 DEF OneMoves
  <1>4. ASSUME NEW h \in Handlers
        PROVE  HandlerMove(h)
    <2>1. CASE h = g
      BY <2>1 DEF OneMoves
    <2>2. CASE h # g
      BY <1>3, <2>2 DEF HandlerMove
    <2> QED
      BY <2>1, <2>2
  <1> QED
    BY <1>2, <1>4

LEMMA RequestMoves ==
  ASSUME SpendingInv, NEW h \in Handlers, Request(h)
  PROVE  OneMoves(h)
  <1> USE DEF OneMoves, HandlerMove
  <1>1. handlers \in [Handlers -> Job]
    BY DEF SpendingInv, HandlersHaveOrders
  <1>2. ASSUME NEW o \in Contributions, o \in OrdersOf[h], Contribute(h, o)
        PROVE  OneMoves(h)
    <2>1. proposals[o.proposal].status # "none" /\ ~HasRow(o)
      BY <1>2 DEF Contribute
    <2>2. handlers' = [handlers EXCEPT ![h] = [pc |-> "contribute_debit", order |-> o, amount |-> o.amount]]
      BY <1>2 DEF Contribute, Enter
    <2> QED
      BY <1>1, <1>2, <2>1, <2>2
  <1>3. ASSUME NEW o \in Trades, Trade(h, o)
        PROVE  OneMoves(h)
    <2>1. handlers' = [handlers EXCEPT ![h] = [pc |-> "trade_debit", order |-> o, amount |-> o.amount]]
      BY <1>3 DEF Trade, Enter
    <2> QED
      BY <1>1, <2>1
  <1>4. ASSUME NEW o \in Syncs, SyncLandingCheckins(h, o)
        PROVE  OneMoves(h)
    <2>1. PICK x \in SyncOrder : x = [o EXCEPT !.listed = attended, !.todo = attended]
      BY CheckinTypes DEF SpendingInv, AwardsTypeOK, SyncOrder
    <2>2. x.todo = x.listed
      BY <2>1, CheckinTypes DEF SyncOrder
    <2>3. handlers' = [handlers EXCEPT ![h] = [pc |-> "award", order |-> x, amount |-> 0]]
      BY <1>4, <2>1 DEF SyncLandingCheckins, Enter
    <2> QED
      BY <1>1, <2>2, <2>3
  <1> QED
    BY <1>2, <1>3, <1>4 DEF Request

LEMMA RunMoves ==
  ASSUME SpendingInv, NEW h \in Handlers, Run(h)
  PROVE  OneMoves(h)
  <1>1. handlers \in [Handlers -> Job] /\ handlers[h] \in Job
    BY DEF SpendingInv, HandlersHaveOrders
  <1>2. CASE ContributionDebit(h) \/ TradeDebit(h) \/ AwardCheckin(h)
    <2>1. UNCHANGED <<crashes, fundingVars, trades, awardVars>>
      BY <1>1, <1>2 DEF Run, RunContribution, RunTrade, RunSync, ContributionDebit, TradeDebit, AwardCheckin,
         RecordContribution, CountContribution, RecordTrade, RecordAward, IsAt, BesidesFunding, BesidesTrades,
         BesidesAwards, fundingVars, awardVars
    <2>2. Posted(h) /\ \E a \in Accounts, s \in Sources, d \in Int : Posts(h, a, s, d)
      BY <1>2, <2>1, PostingIsForOrder
    <2> QED
      BY <1>1, <2>2 DEF Posted, OneMoves, HandlerMove
  <1>3. CASE RecordContribution(h)
    BY <1>1, <1>3 DEF RecordContribution, GoTo, OneMoves, HandlerMove
  <1>4. CASE CountContribution(h) \/ RecordTrade(h)
    BY <1>1, <1>4 DEF CountContribution, RecordTrade, Leave, OneMoves, HandlerMove
  <1>5. CASE RecordAward(h)
    <2> DEFINE k == reply[h].source
    <2>1. NextCheckin(h, k)
      BY <1>5 DEF RecordAward
    <2>2. CASE handlers' = [handlers EXCEPT ![h] = Idle]
      BY <1>1, <2>2 DEF OneMoves, HandlerMove
    <2>3. CASE handlers' = [handlers EXCEPT ![h] =
                 [pc |-> "award", order |-> [OrderOf(h) EXCEPT !.todo = @ \ {k}], amount |-> 0]]
      BY <1>1, <1>5, <2>3 DEF OneMoves, HandlerMove
    <2> QED
      BY <2>1, <2>2, <2>3 DEF NextCheckin
  <1> QED
    BY <1>2, <1>3, <1>4, <1>5 DEF Run, RunContribution, RunTrade, RunSync

LEMMA HandlersMove ==
  ASSUME SpendingInv, [SpendingNext]_spendingVars
  PROVE  handlers' = [h \in Handlers |-> handlers'[h]] /\ \A h \in Handlers : HandlerMove(h)
  <1>1. handlers \in [Handlers -> Job]
    BY DEF SpendingInv, HandlersHaveOrders
  <1>2. CASE Crash
    BY <1>1, <1>2 DEF Crash, Leave, HandlerMove
  <1>3. CASE UNCHANGED handlers
    BY <1>1, <1>3 DEF HandlerMove
  <1>4. ASSUME NEW g \in Handlers, Request(g) \/ Run(g)
        PROVE  handlers' = [h \in Handlers |-> handlers'[h]] /\ \A h \in Handlers : HandlerMove(h)
    BY <1>4, RequestMoves, RunMoves, OneMovesAll
  <1> QED
    BY <1>2, <1>3, <1>4 DEF SpendingNext, OneStep, CreateSoulProposal, CheckIn, AdminPosting, ServerCrash,
       handlerVars, spendingVars

\* A posting that succeeds hands its entry to the handler that posted; nobody
\* else's call changes what a handler was answered.
LEMMA PostingIsAnswered ==
  ASSUME SpendingInv, NEW h \in Handlers, NEW a \in Accounts, NEW s \in Sources, NEW d \in Int,
         Posts(h, a, s, d), reply'[h].status = "ok"
  PROVE  /\ Recorded(a, s)' /\ reply'[h].source = s
         /\ reply'[h].entry = RecordedEntry(a, s)' /\ reply'[h].entry \in Entry
  BY OkIsRecorded, HandlersAreClients DEF SpendingInv, Posts

LEMMA AnswersStay ==
  ASSUME SpendingInv, [SpendingNext]_spendingVars, NEW h \in Handlers, handlers[h].pc \in HoldsEntry
  PROVE  reply'[h] = reply[h]
  <1>1. TypeOK /\ h \in Clients
    BY HandlersAreClients DEF SpendingInv, LedgerInv
  <1>2. ASSUME NEW g \in Handlers, NEW a \in Accounts, NEW s \in Sources, NEW d \in Int, Posts(g, a, s, d)
        PROVE  reply'[h] = reply[h]
    <2>1. g # h
      BY <1>2 DEF Posts, IsAt, HoldsEntry
    <2> QED
      BY <1>1, <1>2, <2>1, OthersKeepReplies DEF Posts
  <1>3. ASSUME NEW c \in Clients, NEW a \in Accounts, NEW s \in Sources, NEW d \in Deltas,
               AdminPosting(c, a, s, d)
        PROVE  reply'[h] = reply[h]
    <2>1. c # h
      BY <1>3 DEF AdminPosting
    <2> QED
      BY <1>1, <1>3, <2>1, OthersKeepReplies DEF AdminPosting
  <1> QED
    BY <1>2, <1>3, StepIsLedgerCall

-----------------------------------------------------------------------------
(* Rows and types.                                                          *)

\* Rows are only added, each by a handler that holds the answer to its posting.
LEMMA RowsAreAdded ==
  ASSUME [SpendingNext]_spendingVars
  PROVE  /\ contributions \subseteq contributions' /\ trades \subseteq trades' /\ audited \subseteq audited'
         /\ attended \subseteq attended'
         /\ \A row \in contributions' \ contributions :
              \E h \in Handlers : /\ IsAt(h, "contribute_record")
                                  /\ row = [order |-> OrderOf(h), entry |-> reply[h].entry]
         /\ \A row \in trades' \ trades :
              \E h \in Handlers : /\ IsAt(h, "trade_record")
                                  /\ row = [order |-> OrderOf(h), entry |-> reply[h].entry]
         /\ \A row \in audited' \ audited :
              \E h \in Handlers : /\ IsAt(h, "audit")
                                  /\ row = [checkin |-> reply[h].source, entry |-> reply[h].entry]
  <1> DEFINE Same == UNCHANGED <<contributions, trades, audited>> /\ attended \subseteq attended'
  <1>1. ASSUME NEW h \in Handlers, RecordContribution(h), BesidesFunding
        PROVE  /\ contributions \subseteq contributions' /\ UNCHANGED <<trades, awardVars>>
               /\ \A row \in contributions' \ contributions :
                    /\ IsAt(h, "contribute_record")
                    /\ row = [order |-> OrderOf(h), entry |-> reply[h].entry]
    BY <1>1 DEF RecordContribution, BesidesFunding
  <1>2. ASSUME NEW h \in Handlers, RecordTrade(h), BesidesTrades
        PROVE  /\ trades \subseteq trades' /\ UNCHANGED <<contributions, awardVars>>
               /\ \A row \in trades' \ trades :
                    IsAt(h, "trade_record") /\ row = [order |-> OrderOf(h), entry |-> reply[h].entry]
    BY <1>2 DEF RecordTrade, BesidesTrades, fundingVars
  <1>3. ASSUME NEW h \in Handlers, RecordAward(h), BesidesAwards
        PROVE  /\ audited \subseteq audited' /\ UNCHANGED <<contributions, trades, attended>>
               /\ \A row \in audited' \ audited :
                    IsAt(h, "audit") /\ row = [checkin |-> reply[h].source, entry |-> reply[h].entry]
    BY <1>3 DEF RecordAward, AuditRows, BesidesAwards, fundingVars
  <1>4. ASSUME NEW h \in Handlers, Run(h)
        PROVE  \/ Same
               \/ RecordContribution(h) /\ BesidesFunding
               \/ RecordTrade(h) /\ BesidesTrades
               \/ RecordAward(h) /\ BesidesAwards
    BY <1>4 DEF Run, RunContribution, RunTrade, RunSync, ContributionDebit, CountContribution, TradeDebit,
       AwardCheckin, BesidesFunding, BesidesTrades, BesidesAwards, fundingVars, awardVars
  <1>5. ASSUME NEW h \in Handlers, Request(h)
        PROVE  Same
    BY <1>5 DEF Request, Contribute, Trade, SyncLandingCheckins, BesidesFunding, BesidesTrades,
       BesidesAwards, fundingVars, awardVars
  <1>6. [SpendingNext]_spendingVars => Same \/ \E h \in Handlers : Run(h)
    BY <1>5 DEF SpendingNext, OneStep, CreateSoulProposal, CheckIn, AdminPosting, ServerCrash,
       BesidesFunding, BesidesAwards, fundingVars, awardVars, spendingVars
  <1>7. CASE Same
    BY <1>7
  <1>8. ASSUME NEW h \in Handlers, Run(h), ~Same
        PROVE  \/ RecordContribution(h) /\ BesidesFunding
               \/ RecordTrade(h) /\ BesidesTrades
               \/ RecordAward(h) /\ BesidesAwards
    BY <1>4, <1>8
  <1> HIDE DEF Same
  <1>9. CASE \E h \in Handlers : RecordContribution(h) /\ BesidesFunding
    BY <1>1, <1>9 DEF awardVars
  <1>10. CASE \E h \in Handlers : RecordTrade(h) /\ BesidesTrades
    BY <1>2, <1>10 DEF awardVars
  <1>11. CASE \E h \in Handlers : RecordAward(h) /\ BesidesAwards
    BY <1>3, <1>11
  <1> QED
    BY <1>6, <1>7, <1>8, <1>9, <1>10, <1>11

\* What a step does to the proposals: one starts to collect, or one counts a contribution.
LEMMA ProposalsMove ==
  ASSUME [SpendingNext]_spendingVars
  PROVE  \/ UNCHANGED proposals
         \/ \E p \in Proposals : CreateSoulProposal(p)
         \/ \E h \in Handlers : CountContribution(h)
  BY DEF SpendingNext, Request, Run, OneStep, Contribute, RunContribution, ContributionDebit,
     RecordContribution, BesidesTrades, BesidesAwards, CheckIn, AdminPosting, ServerCrash, fundingVars,
     spendingVars

LEMMA StepKeepsRows ==
  ASSUME SpendingInv, [SpendingNext]_spendingVars
  PROVE  FundingTypeOK' /\ TradesTypeOK' /\ AwardsTypeOK'
  <1>1. ASSUME NEW h \in Handlers
        PROVE  /\ handlers[h].pc = "contribute_record" => OrderOf(h) \in Contributions /\ reply[h].entry \in Entry
               /\ handlers[h].pc = "contribute_count" => OrderOf(h) \in Contributions
               /\ handlers[h].pc = "trade_record" => OrderOf(h) \in Trades /\ reply[h].entry \in Entry
               /\ handlers[h].pc = "audit" => reply[h].source \in Checkins /\ reply[h].entry \in Entry
    <2>1. OfItsKind(handlers[h])
      BY DEF SpendingInv, HandlersHaveOrders
    <2>2. handlers[h].pc \in HoldsEntry => reply[h].entry \in Entry
      BY DEF SpendingInv, HandlersHaveOrders
    <2>3. handlers[h].pc = "audit" => reply[h].source \in Todo(h)
      BY DEF SpendingInv, HandlersHaveOrders, IsAt
    <2>4. handlers[h].order \in SyncOrder => Todo(h) \subseteq Checkins
      BY DEF Todo, OrderOf, SyncOrder
    <2> QED
      BY <2>1, <2>2, <2>3, <2>4 DEF OfItsKind, HoldsEntry, OrderOf
  <1>2. proposals' \in [Proposals -> [status : {"none", "funding", "ready_to_birth"}, contributed : Nat]]
    <2>1. proposals \in [Proposals -> [status : {"none", "funding", "ready_to_birth"}, contributed : Nat]]
      BY DEF SpendingInv, FundingTypeOK
    <2>2. ASSUME NEW p \in Proposals, CreateSoulProposal(p)
          PROVE  proposals' \in [Proposals -> [status : {"none", "funding", "ready_to_birth"}, contributed : Nat]]
      BY <2>1, <2>2 DEF CreateSoulProposal
    <2>3. ASSUME NEW h \in Handlers, CountContribution(h)
          PROVE  proposals' \in [Proposals -> [status : {"none", "funding", "ready_to_birth"}, contributed : Nat]]
      <3>1. PICK o \in Contributions : o = OrderOf(h)
        BY <1>1, <2>3 DEF CountContribution, IsAt
      <3>2. o.proposal \in Proposals /\ o.amount \in Nat
        BY ContributionTypes
      <3> QED
        BY <2>1, <2>3, <3>1, <3>2 DEF CountContribution, Funded
    <2> QED
      BY <2>1, <2>2, <2>3, ProposalsMove
  <1>3. \A row \in contributions' : row.order \in Contributions /\ row.entry \in Entry
    BY <1>1, RowsAreAdded DEF SpendingInv, FundingTypeOK, IsAt
  <1>4. \A row \in trades' : row.order \in Trades /\ row.entry \in Entry
    BY <1>1, RowsAreAdded DEF SpendingInv, TradesTypeOK, IsAt
  <1>5. \A row \in audited' : row.checkin \in Checkins /\ row.entry \in Entry
    BY <1>1, RowsAreAdded DEF SpendingInv, AwardsTypeOK, IsAt
  <1>6. attended' \subseteq Checkins
    BY DEF SpendingInv, AwardsTypeOK, SpendingNext, Request, Run, OneStep, CheckIn, SyncLandingCheckins,
       RunSync, AwardCheckin, RecordAward, BesidesFunding, BesidesTrades, AdminPosting, ServerCrash, awardVars,
       spendingVars
  <1> QED
    BY <1>2, <1>3, <1>4, <1>5, <1>6 DEF FundingTypeOK, TradesTypeOK, AwardsTypeOK

LEMMA StepKeepsJobs ==
  ASSUME SpendingInv, [SpendingNext]_spendingVars
  PROVE  handlers' \in [Handlers -> Job]
  <1>1. \A h \in Handlers : handlers'[h] \in Job
    <2> SUFFICES ASSUME NEW h \in Handlers PROVE handlers'[h] \in Job
      OBVIOUS
    <2>1. handlers[h] \in Job /\ OfItsKind(handlers[h])
      BY DEF SpendingInv, HandlersHaveOrders
    <2>2. HandlerMove(h)
      BY HandlersMove
    <2>3. CASE handlers'[h] = handlers[h]
      BY <2>1, <2>3
    <2>4. CASE handlers'[h] = Idle
      BY <2>4 DEF Idle, Job, Steps, AnyOrder
    <2>5. ASSUME NEW o \in Contributions,
                 handlers'[h] = [pc |-> "contribute_debit", order |-> o, amount |-> o.amount]
          PROVE  handlers'[h] \in Job
      BY <2>5, ContributionTypes DEF Job, Steps, AnyOrder
    <2>6. ASSUME NEW o \in Trades, handlers'[h] = [pc |-> "trade_debit", order |-> o, amount |-> o.amount]
          PROVE  handlers'[h] \in Job
      BY <2>6, TradeTypes DEF Job, Steps, AnyOrder
    <2>7. ASSUME NEW o \in SyncOrder, handlers'[h] = [pc |-> "award", order |-> o, amount |-> 0]
          PROVE  handlers'[h] \in Job
      BY <2>7 DEF Job, Steps, AnyOrder
    <2>8. ASSUME NEW a \in Accounts, NEW s \in Sources, NEW d \in Int, Posts(h, a, s, d),
                 handlers'[h] = [handlers[h] EXCEPT !.pc = Holding[handlers[h].pc]]
          PROVE  handlers'[h] \in Job
      <3>1. Holding[handlers[h].pc] \in Steps
        BY <2>8 DEF Posts, IsAt, Holding, Steps
      <3> QED
        BY <2>1, <2>8, <3>1 DEF Job
    <2>9. CASE handlers'[h] = [handlers[h] EXCEPT !.pc = "contribute_count"]
      BY <2>1, <2>9 DEF Job, Steps
    <2>10. ASSUME RecordAward(h),
                  handlers'[h] = [pc |-> "award", order |-> [OrderOf(h) EXCEPT !.todo = @ \ {reply[h].source}],
                                  amount |-> 0]
           PROVE  handlers'[h] \in Job
      <3>1. PICK o \in SyncOrder : o = OrderOf(h)
        BY <2>1, <2>10 DEF RecordAward, IsAt, OfItsKind, OrderOf
      <3>2. PICK x \in SyncOrder : x = [o EXCEPT !.todo = o.todo \ {reply[h].source}]
        BY DEF SyncOrder
      <3> QED
        BY <2>10, <3>1, <3>2 DEF Job, Steps, AnyOrder
    <2> QED
      BY <2>2, <2>3, <2>4, <2>5, <2>6, <2>7, <2>8, <2>9, <2>10 DEF HandlerMove
  <1> QED
    BY <1>1, HandlersMove

\* A handler keeps to its kind of order, and holds an entry once it is answered.
LEMMA StepKeepsHandlers ==
  ASSUME SpendingInv, [SpendingNext]_spendingVars
  PROVE  HandlersHaveOrders'
  <1> SUFFICES ASSUME NEW h \in Handlers
               PROVE  /\ OfItsKind(handlers'[h])
                      /\ handlers'[h].pc \in HoldsEntry => reply'[h].entry \in Entry
                      /\ handlers'[h].pc = "audit" => reply'[h].source \in handlers'[h].order.todo
    BY StepKeepsJobs DEF HandlersHaveOrders, OfItsKind, IsAt, Todo, OrderOf
  <1> DEFINE Good == /\ OfItsKind(handlers'[h])
                     /\ handlers'[h].pc \in HoldsEntry => reply'[h].entry \in Entry
                     /\ handlers'[h].pc = "audit" => reply'[h].source \in handlers'[h].order.todo
  <1>1. /\ handlers[h] \in Job /\ OfItsKind(handlers[h])
        /\ handlers[h].pc \in HoldsEntry => reply[h].entry \in Entry
        /\ handlers[h].pc = "audit" => reply[h].source \in handlers[h].order.todo
    BY DEF SpendingInv, HandlersHaveOrders, IsAt, Todo, OrderOf
  <1>2. NoOrder \notin Contributions /\ NoOrder \notin Trades /\ NoOrder \notin SyncOrder
    BY OrdersAreApart
  <1>3. HandlerMove(h)
    BY HandlersMove
  <1>4. ASSUME handlers'[h] = handlers[h]
        PROVE  Good
    <2>1. handlers[h].pc = "audit" => handlers[h].pc \in HoldsEntry
      BY DEF HoldsEntry
    <2> QED
      BY <1>1, <1>4, <2>1, AnswersStay DEF OfItsKind
  <1>5. ASSUME handlers'[h] = Idle
        PROVE  Good
    BY <1>5 DEF Idle, OfItsKind, HoldsEntry
  <1>6. ASSUME NEW o \in Contributions,
               handlers'[h] = [pc |-> "contribute_debit", order |-> o, amount |-> o.amount]
        PROVE  Good
    BY <1>2, <1>6 DEF OfItsKind, HoldsEntry
  <1>7. ASSUME NEW o \in Trades, handlers'[h] = [pc |-> "trade_debit", order |-> o, amount |-> o.amount]
        PROVE  Good
    BY <1>2, <1>7 DEF OfItsKind, HoldsEntry
  <1>8. ASSUME NEW o \in SyncOrder, handlers'[h] = [pc |-> "award", order |-> o, amount |-> 0]
        PROVE  Good
    BY <1>2, <1>8 DEF OfItsKind, HoldsEntry
  <1>9. ASSUME NEW a \in Accounts, NEW s \in Sources, NEW d \in Int, Posts(h, a, s, d),
               reply'[h].status = "ok", handlers'[h] = [handlers[h] EXCEPT !.pc = Holding[handlers[h].pc]]
        PROVE  Good
    <2>1. reply'[h].source = s /\ reply'[h].entry \in Entry
      BY <1>9, PostingIsAnswered
    <2>2. handlers'[h].pc = Holding[handlers[h].pc] /\ handlers'[h].order = handlers[h].order
      BY <1>1, <1>9 DEF Job
    <2>3. \/ handlers[h].pc = "contribute_debit" /\ handlers'[h].pc = "contribute_record"
          \/ handlers[h].pc = "trade_debit" /\ handlers'[h].pc = "trade_record"
          \/ handlers[h].pc = "award" /\ handlers'[h].pc = "audit" /\ s \in handlers[h].order.todo
      BY <1>9, <2>2 DEF Posts, IsAt, Holding, Todo, OrderOf
    <2> QED
      BY <1>1, <1>2, <2>1, <2>2, <2>3 DEF OfItsKind
  <1>10. ASSUME RecordContribution(h), handlers'[h] = [handlers[h] EXCEPT !.pc = "contribute_count"]
         PROVE  Good
    <2>1. handlers'[h].pc = "contribute_count" /\ handlers'[h].order = handlers[h].order
      BY <1>1, <1>10 DEF Job
    <2>2. handlers[h].pc = "contribute_record"
      BY <1>10 DEF RecordContribution, IsAt
    <2> QED
      BY <1>1, <1>2, <2>1, <2>2 DEF OfItsKind, HoldsEntry
  <1>11. ASSUME RecordAward(h),
                handlers'[h] = [pc |-> "award", order |-> [OrderOf(h) EXCEPT !.todo = @ \ {reply[h].source}],
                                amount |-> 0]
         PROVE  Good
    <2>1. PICK o \in SyncOrder : o = OrderOf(h)
      BY <1>1, <1>11 DEF RecordAward, IsAt, OfItsKind, OrderOf
    <2>2. PICK x \in SyncOrder : x = [o EXCEPT !.todo = o.todo \ {reply[h].source}]
      BY DEF SyncOrder
    <2> QED
      BY <1>2, <1>11, <2>1, <2>2 DEF OfItsKind, HoldsEntry
  <1> HIDE DEF Good
  <1>12. Good
    BY <1>3, <1>4, <1>5, <1>6, <1>7, <1>8, <1>9, <1>10, <1>11 DEF HandlerMove
  <1> QED
    BY <1>12 DEF Good

LEMMA CrashesAreCounted ==
  ASSUME [SpendingNext]_spendingVars
  PROVE  UNCHANGED crashes \/ ServerCrash
  BY DEF SpendingNext, Request, Run, OneStep, Contribute, Trade, SyncLandingCheckins, Enter, RunContribution,
     RunTrade, RunSync, ContributionDebit, RecordContribution, CountContribution, TradeDebit, RecordTrade,
     AwardCheckin, RecordAward, CreateSoulProposal, CheckIn, AdminPosting, ServerCrash, handlerVars,
     spendingVars

LEMMA SpendingStarts ==
  ASSUME SpendingInit
  PROVE  SpendingInv
  <1>1. LedgerInv /\ crashes \in 0..MaxCrashes
    BY InvInitial, CrashBound DEF SpendingInit
  <1>2. Idle \in Job /\ OfItsKind(Idle)
    BY OrdersAreApart DEF Idle, Job, Steps, AnyOrder, OfItsKind
  <1>3. HandlersHaveOrders
    BY <1>2 DEF SpendingInit, HandlersHaveOrders, Idle, IsAt, HoldsEntry
  <1>4. FundingTypeOK /\ TradesTypeOK /\ AwardsTypeOK
    BY DEF SpendingInit, FundingInit, FundingTypeOK, TradesInit, TradesTypeOK, AwardsInit, AwardsTypeOK
  <1> QED
    BY <1>1, <1>3, <1>4 DEF SpendingInv

LEMMA SpendingInvariant == SpendingSpec => []SpendingInv
  <1>1. SpendingInv /\ [SpendingNext]_spendingVars => SpendingInv'
    <2> SUFFICES ASSUME SpendingInv, [SpendingNext]_spendingVars PROVE SpendingInv'
      OBVIOUS
    <2>1. crashes' \in 0..MaxCrashes
      BY CrashesAreCounted, CrashBound DEF SpendingInv, ServerCrash, Crash
    <2> QED
      BY <2>1, SpendingKeepsLedger, StepKeepsHandlers, StepKeepsRows DEF SpendingInv
  <1> QED
    BY <1>1, SpendingStarts, PTL DEF SpendingSpec

\* Types hold in every behaviour of the city's requests.
THEOREM SpendingTypeCorrect == SpendingSpec => []SpendingTypeOK
  <1>1. SpendingInv => SpendingTypeOK
    BY DEF SpendingInv, SpendingTypeOK, LedgerInv, HandlersHaveOrders, HandlersTypeOK, OfItsKind, Job, IsAt, OrderOf
  <1> QED
    BY <1>1, SpendingInvariant, PTL

-----------------------------------------------------------------------------
(* Proposals.                                                               *)

\* Only a proposal that collects is contributed to.
CollectingIsCounted ==
  /\ \A p \in Proposals : proposals[p].status = "none" => proposals[p].contributed = 0
  /\ \A h \in Handlers :
       handlers[h].pc \in {"contribute_debit", "contribute_record", "contribute_count"} =>
         proposals[OrderOf(h).proposal].status # "none"

ReadyInv == CollectingIsCounted /\ ReadyExactlyAtThreshold

\* What counting a contribution does to its proposal.
LEMMA CountingCounts ==
  ASSUME SpendingInv, NEW h \in Handlers, CountContribution(h)
  PROVE  \E o \in Contributions :
           /\ o = OrderOf(h) /\ handlers[h].pc = "contribute_count"
           /\ o.proposal \in Proposals /\ o.amount \in Nat \ {0}
           /\ proposals' = [proposals EXCEPT ![o.proposal] =
                              Funded(o.proposal, proposals[o.proposal].contributed + o.amount)]
  <1>1. OfItsKind(handlers[h])
    BY DEF SpendingInv, HandlersHaveOrders
  <1>2. PICK o \in Contributions : o = OrderOf(h)
    BY <1>1 DEF CountContribution, IsAt, OfItsKind, OrderOf
  <1> QED
    BY <1>2, ContributionTypes DEF CountContribution, IsAt

\* A proposal that collects goes on collecting.
LEMMA CollectingStays ==
  ASSUME SpendingInv, [SpendingNext]_spendingVars, NEW p \in Proposals, proposals[p].status # "none"
  PROVE  proposals'[p].status # "none"
  <1>1. proposals \in [Proposals -> [status : {"none", "funding", "ready_to_birth"}, contributed : Nat]]
    BY DEF SpendingInv, FundingTypeOK
  <1>2. ASSUME NEW x \in Proposals, CreateSoulProposal(x)
        PROVE  proposals'[p].status # "none"
    BY <1>1, <1>2 DEF CreateSoulProposal
  <1>3. ASSUME NEW h \in Handlers, CountContribution(h)
        PROVE  proposals'[p].status # "none"
    <2>1. PICK x \in Proposals, n \in Nat :
            proposals' = [proposals EXCEPT ![x] = Funded(x, proposals[x].contributed + n)]
      BY <1>3, CountingCounts
    <2>2. CASE x # p
      BY <1>1, <2>1, <2>2
    <2>3. CASE x = p
      <3>1. proposals'[p] = Funded(p, proposals[p].contributed + n)
        BY <1>1, <2>1, <2>3
      <3> QED
        BY <3>1 DEF Funded
    <2> QED
      BY <2>2, <2>3
  <1> QED
    BY <1>2, <1>3, ProposalsMove

LEMMA StepKeepsReady ==
  ASSUME SpendingInv, ReadyInv, [SpendingNext]_spendingVars
  PROVE  ReadyInv'
  <1>1. proposals \in [Proposals -> [status : {"none", "funding", "ready_to_birth"}, contributed : Nat]]
    BY DEF SpendingInv, FundingTypeOK
  <1>2. \A h \in Handlers :
          handlers'[h].pc \in {"contribute_debit", "contribute_record", "contribute_count"} =>
            proposals'[handlers'[h].order.proposal].status # "none"
    <2> SUFFICES ASSUME NEW h \in Handlers,
                        handlers'[h].pc \in {"contribute_debit", "contribute_record", "contribute_count"}
                 PROVE  proposals'[handlers'[h].order.proposal].status # "none"
      OBVIOUS
    <2>1. handlers[h] \in Job /\ OfItsKind(handlers[h])
      BY DEF SpendingInv, HandlersHaveOrders
    <2>2. HandlerMove(h)
      BY HandlersMove
    <2>3. ASSUME handlers[h].pc \in {"contribute_debit", "contribute_record", "contribute_count"},
                 handlers'[h].order = handlers[h].order
          PROVE  proposals'[handlers'[h].order.proposal].status # "none"
      <3>1. PICK p \in Proposals : p = handlers[h].order.proposal
        BY <2>1, <2>3, ContributionTypes DEF OfItsKind
      <3>2. proposals[p].status # "none"
        BY <2>3, <3>1 DEF ReadyInv, CollectingIsCounted, OrderOf
      <3> QED
        BY <2>3, <3>1, <3>2, CollectingStays
    <2>4. CASE handlers'[h] = Idle
      BY <2>4 DEF Idle
    <2>5. ASSUME NEW o \in Contributions, proposals[o.proposal].status # "none",
                 handlers'[h] = [pc |-> "contribute_debit", order |-> o, amount |-> o.amount]
          PROVE  proposals'[handlers'[h].order.proposal].status # "none"
      BY <2>5, CollectingStays, ContributionTypes
    <2>6. CASE \E o \in Trades : handlers'[h] = [pc |-> "trade_debit", order |-> o, amount |-> o.amount]
      BY <2>6
    <2>7. CASE \E o \in SyncOrder : handlers'[h] = [pc |-> "award", order |-> o, amount |-> 0]
      BY <2>7
    <2>8. ASSUME NEW a \in Accounts, NEW s \in Sources, NEW d \in Int, Posts(h, a, s, d),
                 handlers'[h] = [handlers[h] EXCEPT !.pc = Holding[handlers[h].pc]]
          PROVE  /\ handlers[h].pc \in {"contribute_debit", "contribute_record", "contribute_count"}
                 /\ handlers'[h].order = handlers[h].order
      <3>1. handlers'[h].pc = Holding[handlers[h].pc] /\ handlers'[h].order = handlers[h].order
        BY <2>1, <2>8 DEF Job
      <3> QED
        BY <2>8, <3>1 DEF Posts, Holding, IsAt
    <2>9. ASSUME RecordContribution(h), handlers'[h] = [handlers[h] EXCEPT !.pc = "contribute_count"]
          PROVE  /\ handlers[h].pc \in {"contribute_debit", "contribute_record", "contribute_count"}
                 /\ handlers'[h].order = handlers[h].order
      BY <2>1, <2>9 DEF Job, RecordContribution, IsAt
    <2>10. CASE handlers'[h] = [pc |-> "award", order |-> [OrderOf(h) EXCEPT !.todo = @ \ {reply[h].source}],
                                amount |-> 0]
      BY <2>10
    <2> QED
      BY <2>2, <2>3, <2>4, <2>5, <2>6, <2>7, <2>8, <2>9, <2>10 DEF HandlerMove
  <1>3. \A p \in Proposals :
          /\ proposals'[p].status = "none" => proposals'[p].contributed = 0
          /\ proposals'[p].status # "none" =>
               (proposals'[p].status = "ready_to_birth" <=> proposals'[p].contributed >= Threshold[p])
    <2> SUFFICES ASSUME NEW p \in Proposals
                 PROVE  /\ proposals'[p].status = "none" => proposals'[p].contributed = 0
                        /\ proposals'[p].status # "none" =>
                             (proposals'[p].status = "ready_to_birth" <=> proposals'[p].contributed >= Threshold[p])
      OBVIOUS
    <2>1. /\ proposals[p] \in [status : {"none", "funding", "ready_to_birth"}, contributed : Nat]
          /\ Threshold[p] \in Nat \ {0}
      BY <1>1, ThresholdType
    <2>2. /\ proposals[p].status = "none" => proposals[p].contributed = 0
          /\ proposals[p].status # "none" =>
               (proposals[p].status = "ready_to_birth" <=> proposals[p].contributed >= Threshold[p])
      BY DEF ReadyInv, CollectingIsCounted, ReadyExactlyAtThreshold
    <2>3. CASE proposals'[p] = proposals[p]
      BY <2>2, <2>3
    <2>4. ASSUME NEW x \in Proposals, CreateSoulProposal(x), proposals'[p] # proposals[p]
          PROVE  proposals'[p].status = "funding" /\ proposals'[p].contributed = 0
      BY <1>1, <2>2, <2>4 DEF CreateSoulProposal
    <2>5. ASSUME NEW h \in Handlers, CountContribution(h), proposals'[p] # proposals[p]
          PROVE  \E n \in Nat : proposals'[p] = Funded(p, proposals[p].contributed + n)
                                /\ proposals[p].status # "none"
      <3>1. PICK o \in Contributions :
              /\ o = OrderOf(h) /\ handlers[h].pc = "contribute_count"
              /\ o.proposal \in Proposals /\ o.amount \in Nat \ {0}
              /\ proposals' = [proposals EXCEPT ![o.proposal] =
                                 Funded(o.proposal, proposals[o.proposal].contributed + o.amount)]
        BY <2>5, CountingCounts
      <3>2. p = o.proposal
        BY <1>1, <2>5, <3>1
      <3>3. proposals[p].status # "none"
        BY <3>1, <3>2 DEF ReadyInv, CollectingIsCounted
      <3> QED
        BY <1>1, <3>1, <3>2, <3>3
    <2>6. ASSUME NEW n \in Nat, proposals[p].status # "none",
                 proposals'[p] = Funded(p, proposals[p].contributed + n)
          PROVE  /\ proposals'[p].status # "none"
                 /\ proposals'[p].status = "ready_to_birth" <=> proposals'[p].contributed >= Threshold[p]
      BY <2>1, <2>2, <2>6 DEF Funded
    <2> QED
      BY <2>1, <2>3, <2>4, <2>5, <2>6, ProposalsMove
  <1> QED
    BY <1>2, <1>3 DEF ReadyInv, CollectingIsCounted, ReadyExactlyAtThreshold, OrderOf

\* A proposal is ready exactly when the counted contributions reach its threshold,
\* whoever contributes at the same time and wherever the server dies.
THEOREM ProposalsAreReadyInTime == SpendingSpec => []ReadyExactlyAtThreshold
  <1>1. SpendingInit => ReadyInv
    BY DEF SpendingInit, FundingInit, Idle, ReadyInv, CollectingIsCounted, ReadyExactlyAtThreshold
  <1>2. SpendingInv /\ ReadyInv /\ [SpendingNext]_spendingVars => ReadyInv'
    BY StepKeepsReady
  <1>3. ReadyInv => ReadyExactlyAtThreshold
    BY DEF ReadyInv
  <1> QED
    BY <1>1, <1>2, <1>3, SpendingInvariant, PTL DEF SpendingSpec

-----------------------------------------------------------------------------
(* The ledger's answers.                                                    *)

\* The account and source of what a handler holds are ones the ledger knows.
LEMMA AnswersHaveSources ==
  ASSUME SpendingInv, NEW h \in Handlers, handlers[h].pc \in HoldsEntry
  PROVE  OrderOf(h).account \in Accounts /\ SourceOf(h) \in Sources
  <1>1. OfItsKind(handlers[h])
    BY DEF SpendingInv, HandlersHaveOrders
  <1>2. CASE handlers[h].pc = "contribute_record"
    BY <1>1, <1>2, ContributionTypes DEF OfItsKind, OrderOf, SourceOf, SourceAt
  <1>3. CASE handlers[h].pc = "trade_record"
    BY <1>1, <1>3, TradeTypes DEF OfItsKind, OrderOf, SourceOf, SourceAt
  <1>4. CASE handlers[h].pc = "audit"
    <2>1. PICK o \in SyncOrder : o = handlers[h].order
      BY <1>1, <1>4 DEF OfItsKind
    <2>2. reply[h].source \in o.todo
      BY <1>4, <2>1 DEF SpendingInv, HandlersHaveOrders, IsAt, Todo, OrderOf
    <2>3. SourceOf(h) = reply[h].source
      BY <1>4 DEF SourceOf, SourceAt
    <2> QED
      BY <2>1, <2>2, <2>3, CheckinTypes DEF SyncOrder, OrderOf
  <1> QED
    BY <1>2, <1>3, <1>4 DEF HoldsEntry

\* A handler comes to hold an entry by its own posting only.
LEMMA HoldersPosted ==
  ASSUME SpendingInv, [SpendingNext]_spendingVars, NEW h \in Handlers, handlers'[h].pc \in HoldsEntry
  PROVE  \/ handlers'[h] = handlers[h]
         \/ \E a \in Accounts, s \in Sources, d \in Int :
              /\ Posts(h, a, s, d) /\ reply'[h].status = "ok"
              /\ handlers'[h].order = handlers[h].order /\ handlers'[h].pc = Holding[handlers[h].pc]
  <1>1. handlers[h] \in Job
    BY DEF SpendingInv, HandlersHaveOrders
  <1>2. HandlerMove(h)
    BY HandlersMove
  <1>3. ~(handlers'[h] = Idle)
    BY DEF Idle, HoldsEntry
  <1>4. ASSUME NEW o \in Contributions, handlers'[h] = [pc |-> "contribute_debit", order |-> o, amount |-> o.amount]
        PROVE  FALSE
    BY <1>4 DEF HoldsEntry
  <1>5. ASSUME NEW o \in Trades, handlers'[h] = [pc |-> "trade_debit", order |-> o, amount |-> o.amount]
        PROVE  FALSE
    BY <1>5 DEF HoldsEntry
  <1>6. ASSUME NEW o \in SyncOrder, handlers'[h] = [pc |-> "award", order |-> o, amount |-> 0]
        PROVE  FALSE
    BY <1>6 DEF HoldsEntry
  <1>7. ~(handlers'[h] = [handlers[h] EXCEPT !.pc = "contribute_count"])
    BY <1>1 DEF HoldsEntry, Job
  <1>8. ~(handlers'[h] = [pc |-> "award", order |-> [OrderOf(h) EXCEPT !.todo = @ \ {reply[h].source}],
                          amount |-> 0])
    BY DEF HoldsEntry
  <1>9. handlers'[h] = [handlers[h] EXCEPT !.pc = Holding[handlers[h].pc]]
          => handlers'[h].order = handlers[h].order /\ handlers'[h].pc = Holding[handlers[h].pc]
    BY <1>1 DEF Job
  <1> QED
    BY <1>2, <1>3, <1>4, <1>5, <1>6, <1>7, <1>8, <1>9 DEF HandlerMove

LEMMA StepKeepsAnswers ==
  ASSUME SpendingInv, EntriesAreAnswered, [SpendingNext]_spendingVars
  PROVE  EntriesAreAnswered'
  <1> SUFFICES ASSUME NEW h \in Handlers, handlers'[h].pc \in HoldsEntry,
                      NEW a, a = handlers'[h].order.account,
                      NEW s, s = SourceAt(handlers'[h], reply'[h])
               PROVE  Recorded(a, s)' /\ reply'[h].entry = RecordedEntry(a, s)'
    BY DEF EntriesAreAnswered, SourceOf, OrderOf
  <1>1. CASE handlers'[h] = handlers[h]
    <2>1. handlers[h].pc \in HoldsEntry /\ reply'[h] = reply[h]
      BY <1>1, AnswersStay
    <2>2. a = OrderOf(h).account /\ s = SourceOf(h) /\ a \in Accounts /\ s \in Sources
      BY <1>1, <2>1, AnswersHaveSources DEF OrderOf, SourceOf
    <2>3. Recorded(a, s) /\ reply[h].entry = RecordedEntry(a, s)
      BY <2>1, <2>2 DEF EntriesAreAnswered
    <2> QED
      BY <2>1, <2>2, <2>3, SpendingKeepsLedger
  <1>2. ASSUME NEW b \in Accounts, NEW x \in Sources, NEW d \in Int,
               Posts(h, b, x, d), reply'[h].status = "ok",
               handlers'[h].order = handlers[h].order, handlers'[h].pc = Holding[handlers[h].pc]
        PROVE  Recorded(a, s)' /\ reply'[h].entry = RecordedEntry(a, s)'
    <2>1. Recorded(b, x)' /\ reply'[h].source = x /\ reply'[h].entry = RecordedEntry(b, x)'
      BY <1>2, PostingIsAnswered
    <2>2. a = b
      BY <1>2 DEF Posts, OrderOf
    <2>3. s = x
      BY <1>2, <2>1 DEF Posts, IsAt, OrderOf, Holding, SourceAt
    <2> QED
      BY <2>1, <2>2, <2>3
  <1> QED
    BY <1>1, <1>2, HoldersPosted

LEMMA EntriesAnswered == SpendingSpec => []EntriesAreAnswered
  <1>1. SpendingInit => EntriesAreAnswered
    BY DEF SpendingInit, Idle, EntriesAreAnswered, HoldsEntry
  <1>2. SpendingInv /\ EntriesAreAnswered /\ [SpendingNext]_spendingVars => EntriesAreAnswered'
    BY StepKeepsAnswers
  <1> QED
    BY <1>1, <1>2, SpendingInvariant, PTL DEF SpendingSpec

-----------------------------------------------------------------------------
(* Rows are paid, if a key of an account names one amount.                  *)

\* An entry found under a source is that source's, and in the ledger.
LEMMA RecordedIsInLedger ==
  ASSUME LedgerInv, NEW a \in Accounts, NEW s \in Sources, Recorded(a, s)
  PROVE  InLedger(a, RecordedEntry(a, s)) /\ RecordedEntry(a, s).source = s
  <1>1. TypeOK
    BY DEF LedgerInv
  <1>2. RecordedEntry(a, s).source = s
    BY <1>1, RecordedEntryIsInLedger
  <1>3. RecordedEntry(a, s) # NoEntry
    BY <1>1, RecordedEntryType, MarkersAreNotData
  <1> QED
    BY <1>2, <1>3 DEF InLedger

\* An entry in the ledger stays in it as it is.
LEMMA InLedgerStays ==
  ASSUME SpendingInv, [SpendingNext]_spendingVars, NEW a \in Accounts, NEW e \in Entry, InLedger(a, e)
  PROVE  InLedger(a, e)'
  <1>1. e.source \in Sources
    BY DEF Entry
  <1>2. Recorded(a, e.source)' /\ RecordedEntry(a, e.source)' = RecordedEntry(a, e.source)
    BY <1>1, SpendingKeepsLedger DEF InLedger
  <1> QED
    BY <1>2 DEF InLedger

\* A contribution's record is new only by a handler that contributes under the
\* same account and key.
LEMMA NewContribution ==
  ASSUME SpendingInv, [SpendingNext]_spendingVars, NEW o \in Contributions,
         ~Recorded(o.account, ContributionSource(o)), Recorded(o.account, ContributionSource(o))'
  PROVE  \E h \in Handlers, x \in Contributions :
           /\ x = OrderOf(h) /\ x.account = o.account /\ x.key = o.key
           /\ IsAt(h, "contribute_debit") /\ Posted(h) /\ reply'[h].status = "ok"
           /\ RecordedEntry(o.account, ContributionSource(o))'.delta = -x.amount
  <1>1. PICK a \in Accounts, s \in Sources : a = o.account /\ s = ContributionSource(o)
    BY ContributionTypes
  <1>2. s \in OrderSources
    BY <1>1 DEF OrderSources
  <1>3. PICK h \in Handlers, d \in Int :
          /\ Posts(h, a, s, d) /\ Posted(h) /\ reply'[h].status = "ok"
          /\ RecordedEntry(a, s)'.delta = d
    BY <1>1, <1>2, NewRecords
  <1>4. OfItsKind(handlers[h])
    BY DEF SpendingInv, HandlersHaveOrders
  <1>5. CASE IsAt(h, "contribute_debit") /\ s = ContributionSource(OrderOf(h)) /\ d = -OrderOf(h).amount
    <2>1. PICK x \in Contributions : x = OrderOf(h)
      BY <1>4, <1>5 DEF OfItsKind, IsAt, OrderOf
    <2>2. x.account = o.account /\ x.key = o.key
      BY <1>1, <1>3, <1>5, <2>1 DEF Posts, ContributionSource
    <2> QED
      BY <1>1, <1>3, <1>5, <2>1, <2>2
  <1>6. CASE IsAt(h, "trade_debit") /\ s = TradeSource(OrderOf(h))
    BY <1>1, <1>6 DEF TradeSource, ContributionSource
  <1>7. CASE IsAt(h, "award") /\ s \in Todo(h)
    <2>1. s \in Checkins
      BY <1>4, <1>7 DEF OfItsKind, IsAt, Todo, OrderOf, SyncOrder
    <2> QED
      BY <1>1, <2>1, OrdersAreApart
  <1> QED
    BY <1>3, <1>5, <1>6, <1>7 DEF Posts

\* A trade's record is new only by a handler that trades under the same
\* account and key.
LEMMA NewTrade ==
  ASSUME SpendingInv, [SpendingNext]_spendingVars, NEW o \in Trades,
         ~Recorded(o.account, TradeSource(o)), Recorded(o.account, TradeSource(o))'
  PROVE  \E h \in Handlers, x \in Trades :
           /\ x = OrderOf(h) /\ x.account = o.account /\ x.key = o.key
           /\ IsAt(h, "trade_debit") /\ Posted(h) /\ reply'[h].status = "ok"
           /\ RecordedEntry(o.account, TradeSource(o))'.delta = -x.amount
  <1>1. PICK a \in Accounts, s \in Sources : a = o.account /\ s = TradeSource(o)
    BY TradeTypes
  <1>2. s \in OrderSources
    BY <1>1 DEF OrderSources
  <1>3. PICK h \in Handlers, d \in Int :
          /\ Posts(h, a, s, d) /\ Posted(h) /\ reply'[h].status = "ok"
          /\ RecordedEntry(a, s)'.delta = d
    BY <1>1, <1>2, NewRecords
  <1>4. OfItsKind(handlers[h])
    BY DEF SpendingInv, HandlersHaveOrders
  <1>5. CASE IsAt(h, "trade_debit") /\ s = TradeSource(OrderOf(h)) /\ d = -OrderOf(h).amount
    <2>1. PICK x \in Trades : x = OrderOf(h)
      BY <1>4, <1>5 DEF OfItsKind, IsAt, OrderOf
    <2>2. x.account = o.account /\ x.key = o.key
      BY <1>1, <1>3, <1>5, <2>1 DEF Posts, TradeSource
    <2> QED
      BY <1>1, <1>3, <1>5, <2>1, <2>2
  <1>6. CASE IsAt(h, "contribute_debit") /\ s = ContributionSource(OrderOf(h))
    BY <1>1, <1>6 DEF TradeSource, ContributionSource
  <1>7. CASE IsAt(h, "award") /\ s \in Todo(h)
    <2>1. s \in Checkins
      BY <1>4, <1>7 DEF OfItsKind, IsAt, Todo, OrderOf, SyncOrder
    <2> QED
      BY <1>1, <2>1, OrdersAreApart
  <1> QED
    BY <1>3, <1>5, <1>6, <1>7 DEF Posts

LEMMA StepKeepsOrdered ==
  ASSUME KeysNameAmounts, SpendingInv, EntriesAreOrdered, [SpendingNext]_spendingVars
  PROVE  EntriesAreOrdered'
  <1>1. ASSUME NEW o \in Contributions, Recorded(o.account, ContributionSource(o))'
        PROVE  RecordedEntry(o.account, ContributionSource(o))'.delta = -o.amount
    <2>1. CASE Recorded(o.account, ContributionSource(o))
      BY <2>1, SpendingKeepsLedger, ContributionTypes DEF EntriesAreOrdered
    <2>2. CASE ~Recorded(o.account, ContributionSource(o))
      <3>1. PICK x \in Contributions :
              /\ x.account = o.account /\ x.key = o.key
              /\ RecordedEntry(o.account, ContributionSource(o))'.delta = -x.amount
        BY <1>1, <2>2, NewContribution
      <3>2. x.amount = o.amount
        BY <3>1 DEF KeysNameAmounts
      <3> QED
        BY <3>1, <3>2
    <2> QED
      BY <2>1, <2>2
  <1>2. ASSUME NEW o \in Trades, Recorded(o.account, TradeSource(o))'
        PROVE  RecordedEntry(o.account, TradeSource(o))'.delta = -o.amount
    <2>1. CASE Recorded(o.account, TradeSource(o))
      BY <2>1, SpendingKeepsLedger, TradeTypes DEF EntriesAreOrdered
    <2>2. CASE ~Recorded(o.account, TradeSource(o))
      <3>1. PICK x \in Trades :
              /\ x.account = o.account /\ x.key = o.key
              /\ RecordedEntry(o.account, TradeSource(o))'.delta = -x.amount
        BY <1>2, <2>2, NewTrade
      <3>2. x.amount = o.amount
        BY <3>1 DEF KeysNameAmounts
      <3> QED
        BY <3>1, <3>2
    <2> QED
      BY <2>1, <2>2
  <1>3. ASSUME NEW a \in Accounts, NEW k \in Checkins, Recorded(a, k)'
        PROVE  RecordedEntry(a, k)'.delta = Award[k]
    <2>1. k \in Sources /\ k \in OrderSources
      BY CheckinTypes DEF OrderSources
    <2>2. CASE Recorded(a, k)
      BY <2>1, <2>2, SpendingKeepsLedger DEF EntriesAreOrdered
    <2>3. CASE ~Recorded(a, k)
      <3>1. PICK h \in Handlers, d \in Int : Posts(h, a, k, d) /\ RecordedEntry(a, k)'.delta = d
        BY <1>3, <2>1, <2>3, NewRecords
      <3>2. OfItsKind(handlers[h])
        BY DEF SpendingInv, HandlersHaveOrders
      <3>3. IsAt(h, "contribute_debit") => k # ContributionSource(OrderOf(h))
        BY <3>2, OrdersAreApart DEF OfItsKind, IsAt, OrderOf
      <3>4. IsAt(h, "trade_debit") => k # TradeSource(OrderOf(h))
        BY <3>2, OrdersAreApart DEF OfItsKind, IsAt, OrderOf
      <3> QED
        BY <3>1, <3>3, <3>4 DEF Posts
    <2> QED
      BY <2>2, <2>3
  <1> QED
    BY <1>1, <1>2, <1>3 DEF EntriesAreOrdered

LEMMA StepKeepsPaid ==
  ASSUME SpendingInv, EntriesAreOrdered, EntriesAreAnswered, RowsArePaid, [SpendingNext]_spendingVars
  PROVE  RowsArePaid'
  <1>1. ASSUME NEW h \in Handlers, handlers[h].pc \in HoldsEntry
        PROVE  /\ OrderOf(h).account \in Accounts
               /\ reply[h].entry \in Entry /\ InLedger(OrderOf(h).account, reply[h].entry)
    <2>1. PICK a \in Accounts, s \in Sources : a = OrderOf(h).account /\ s = SourceOf(h)
      BY <1>1, AnswersHaveSources
    <2>2. Recorded(a, s) /\ reply[h].entry = RecordedEntry(a, s)
      BY <1>1, <2>1 DEF EntriesAreAnswered
    <2>3. reply[h].entry \in Entry
      BY <1>1 DEF SpendingInv, HandlersHaveOrders
    <2> QED
      BY <2>1, <2>2, <2>3, RecordedIsInLedger DEF SpendingInv
  <1>2. \A row \in contributions' \cup trades' :
          InLedger(row.order.account, row.entry)' /\ row.entry.delta = -row.order.amount
    <2> SUFFICES ASSUME NEW row \in contributions' \cup trades'
                 PROVE  InLedger(row.order.account, row.entry)' /\ row.entry.delta = -row.order.amount
      OBVIOUS
    <2>1. ASSUME NEW a \in Accounts, a = row.order.account, row.entry \in Entry, InLedger(a, row.entry),
                 row.entry.delta = -row.order.amount
          PROVE  InLedger(row.order.account, row.entry)' /\ row.entry.delta = -row.order.amount
      BY <2>1, InLedgerStays
    <2>2. CASE row \in contributions \cup trades
      <3>1. row.order \in Contributions \cup Trades /\ row.entry \in Entry
        BY <2>2 DEF SpendingInv, FundingTypeOK, TradesTypeOK
      <3>2. row.order.account \in Accounts
        BY <3>1, ContributionTypes, TradeTypes
      <3> QED
        BY <2>1, <2>2, <3>1, <3>2 DEF RowsArePaid
    <2>3. ASSUME NEW h \in Handlers, IsAt(h, "contribute_record") \/ IsAt(h, "trade_record"),
                 row = [order |-> OrderOf(h), entry |-> reply[h].entry]
          PROVE  InLedger(row.order.account, row.entry)' /\ row.entry.delta = -row.order.amount
      <3>1. handlers[h].pc \in HoldsEntry /\ OfItsKind(handlers[h])
        BY <2>3 DEF IsAt, HoldsEntry, SpendingInv, HandlersHaveOrders
      <3>2. row.order = OrderOf(h) /\ row.entry = reply[h].entry
        BY <2>3
      <3>3. reply[h].entry = RecordedEntry(OrderOf(h).account, SourceOf(h))
            /\ Recorded(OrderOf(h).account, SourceOf(h))
        BY <3>1 DEF EntriesAreAnswered
      <3>4. CASE IsAt(h, "contribute_record")
        <4>1. OrderOf(h) \in Contributions /\ SourceOf(h) = ContributionSource(OrderOf(h))
          BY <3>1, <3>4 DEF OfItsKind, IsAt, OrderOf, SourceOf, SourceAt
        <4>2. reply[h].entry.delta = -OrderOf(h).amount
          BY <3>3, <4>1 DEF EntriesAreOrdered
        <4> QED
          BY <1>1, <2>1, <3>1, <3>2, <4>2
      <3>5. CASE IsAt(h, "trade_record")
        <4>1. OrderOf(h) \in Trades /\ SourceOf(h) = TradeSource(OrderOf(h))
          BY <3>1, <3>5 DEF OfItsKind, IsAt, OrderOf, SourceOf, SourceAt
        <4>2. reply[h].entry.delta = -OrderOf(h).amount
          BY <3>3, <4>1 DEF EntriesAreOrdered
        <4> QED
          BY <1>1, <2>1, <3>1, <3>2, <4>2
      <3> QED
        BY <2>3, <3>4, <3>5
    <2> QED
      BY <2>2, <2>3, RowsAreAdded
  <1>3. \A row \in audited' : \E a \in Accounts : InLedger(a, row.entry)' /\ row.entry.delta = Award[row.checkin]
    <2> SUFFICES ASSUME NEW row \in audited'
                 PROVE  \E a \in Accounts : InLedger(a, row.entry)' /\ row.entry.delta = Award[row.checkin]
      OBVIOUS
    <2>1. CASE row \in audited
      <3>1. row.entry \in Entry
        BY <2>1 DEF SpendingInv, AwardsTypeOK
      <3>2. PICK a \in Accounts : InLedger(a, row.entry) /\ row.entry.delta = Award[row.checkin]
        BY <2>1 DEF RowsArePaid
      <3> QED
        BY <3>1, <3>2, InLedgerStays
    <2>2. ASSUME NEW h \in Handlers, IsAt(h, "audit"),
                 row = [checkin |-> reply[h].source, entry |-> reply[h].entry]
          PROVE  \E a \in Accounts : InLedger(a, row.entry)' /\ row.entry.delta = Award[row.checkin]
      <3>1. handlers[h].pc \in HoldsEntry /\ OfItsKind(handlers[h]) /\ reply[h].source \in Todo(h)
        BY <2>2 DEF IsAt, HoldsEntry, SpendingInv, HandlersHaveOrders
      <3>2. SourceOf(h) = reply[h].source /\ reply[h].source \in Checkins
        BY <2>2, <3>1 DEF IsAt, OfItsKind, SourceOf, SourceAt, Todo, OrderOf, SyncOrder
      <3>3. PICK a \in Accounts : a = OrderOf(h).account
        BY <1>1, <3>1
      <3>4. reply[h].entry = RecordedEntry(a, reply[h].source) /\ Recorded(a, reply[h].source)
        BY <3>1, <3>2, <3>3 DEF EntriesAreAnswered
      <3>5. reply[h].entry.delta = Award[reply[h].source]
        BY <3>2, <3>4 DEF EntriesAreOrdered
      <3>6. PICK e \in Entry : e = reply[h].entry
        BY <1>1, <3>1
      <3>7. InLedger(a, e)'
        BY <1>1, <3>1, <3>3, <3>6, InLedgerStays
      <3> QED
        BY <2>2, <3>5, <3>6, <3>7
    <2> QED
      BY <2>1, <2>2, RowsAreAdded
  <1> QED
    BY <1>2, <1>3 DEF RowsArePaid

\* Whatever the city gives or takes in was paid for by an entry of its account and
\* amount, if a key names one amount: a key used again with another amount, after a
\* crash between debit and row, would store the new amount against the old entry.
THEOREM RowsHaveEntries ==
  ASSUME KeysNameAmounts
  PROVE  SpendingSpec => []RowsArePaid
  <1>1. SpendingInit => EntriesAreOrdered /\ RowsArePaid
    <2> SUFFICES ASSUME SpendingInit PROVE EntriesAreOrdered /\ RowsArePaid
      OBVIOUS
    <2>1. \A a \in Accounts, s \in Sources : ~Recorded(a, s)
      BY DEF SpendingInit, Init, Recorded
    <2>2. EntriesAreOrdered
      BY <2>1, ContributionTypes, TradeTypes, CheckinTypes DEF EntriesAreOrdered
    <2>3. RowsArePaid
      BY DEF SpendingInit, FundingInit, TradesInit, AwardsInit, RowsArePaid
    <2> QED
      BY <2>2, <2>3
  <1>2. SpendingInv /\ EntriesAreOrdered /\ [SpendingNext]_spendingVars => EntriesAreOrdered'
    BY StepKeepsOrdered
  <1>3. SpendingInv /\ EntriesAreOrdered /\ EntriesAreAnswered /\ RowsArePaid /\ [SpendingNext]_spendingVars
          => RowsArePaid'
    BY StepKeepsPaid
  <1> QED
    BY <1>1, <1>2, <1>3, SpendingInvariant, EntriesAnswered, PTL DEF SpendingSpec

-----------------------------------------------------------------------------
(* Syncs.                                                                   *)

\* A sync that records an award has it recorded and audited.
LEMMA AuditedIsDone ==
  ASSUME SpendingInv, EntriesAreAnswered, NEW h \in Handlers, RecordAward(h)
  PROVE  \E o \in SyncOrder, k \in Checkins :
           /\ o = OrderOf(h) /\ k = reply[h].source /\ k \in o.todo
           /\ Recorded(o.account, k) /\ \E row \in audited' : row.checkin = k
  <1>1. IsAt(h, "audit") /\ handlers[h].pc \in HoldsEntry /\ OfItsKind(handlers[h])
    BY DEF RecordAward, IsAt, HoldsEntry, SpendingInv, HandlersHaveOrders
  <1>2. PICK o \in SyncOrder : o = OrderOf(h)
    BY <1>1 DEF OfItsKind, IsAt, OrderOf
  <1>3. PICK k \in Checkins : k = reply[h].source /\ k \in o.todo
    BY <1>1, <1>2 DEF SpendingInv, HandlersHaveOrders, Todo, SyncOrder
  <1>4. Recorded(o.account, k)
    BY <1>1, <1>2, <1>3 DEF EntriesAreAnswered, SourceOf, SourceAt, IsAt
  <1>5. \E row \in audited' : row.checkin = k
    <2>1. audited' = AuditRows(k, reply[h].entry)
      BY <1>3 DEF RecordAward
    <2>2. CASE \E row \in audited : row.checkin = k
      BY <2>1, <2>2 DEF AuditRows
    <2>3. CASE ~\E row \in audited : row.checkin = k
      <3>1. [checkin |-> k, entry |-> reply[h].entry] \in audited'
        BY <2>1, <2>3 DEF AuditRows
      <3> QED
        BY <3>1
    <2> QED
      BY <2>2, <2>3
  <1> QED
    BY <1>2, <1>3, <1>4, <1>5

LEMMA StepKeepsLists ==
  ASSUME SpendingInv, EntriesAreAnswered, ListsAreDone, [SpendingNext]_spendingVars
  PROVE  ListsAreDone'
  <1> SUFFICES ASSUME NEW h \in Handlers, handlers'[h].pc \in {"award", "audit"},
                      NEW x, x = handlers'[h].order, NEW k \in x.listed \ x.todo
               PROVE  Recorded(x.account, k)' /\ \E row \in audited' : row.checkin = k
    BY DEF ListsAreDone, Todo, OrderOf
  <1> DEFINE Done == Recorded(x.account, k)' /\ \E row \in audited' : row.checkin = k
  <1>1. handlers[h] \in Job /\ OfItsKind(handlers[h])
    BY DEF SpendingInv, HandlersHaveOrders
  <1>2. HandlerMove(h)
    BY HandlersMove
  <1>3. ASSUME NEW a \in Accounts, a = x.account, NEW s \in Checkins, s = k,
               Recorded(a, s), (\E row \in audited : row.checkin = k) \/ (\E row \in audited' : row.checkin = k)
        PROVE  Done
    <2>1. Recorded(a, s)'
      BY <1>3, SpendingKeepsLedger, CheckinTypes
    <2> QED
      BY <1>3, <2>1, RowsAreAdded
  <1>4. ASSUME handlers[h].pc \in {"award", "audit"}, handlers'[h].order = handlers[h].order
        PROVE  Done
    <2>1. x \in SyncOrder /\ x = OrderOf(h)
      BY <1>1, <1>4 DEF OfItsKind, OrderOf
    <2>2. Recorded(x.account, k) /\ \E row \in audited : row.checkin = k
      BY <1>4, <2>1 DEF ListsAreDone, Todo
    <2> QED
      BY <1>3, <2>1, <2>2 DEF SyncOrder
  <1>5. ASSUME handlers'[h] = Idle PROVE Done
    BY <1>5 DEF Idle
  <1>6. ASSUME NEW o \in Contributions,
               handlers'[h] = [pc |-> "contribute_debit", order |-> o, amount |-> o.amount]
        PROVE  Done
    BY <1>6
  <1>7. ASSUME NEW o \in Trades, handlers'[h] = [pc |-> "trade_debit", order |-> o, amount |-> o.amount]
        PROVE  Done
    BY <1>7
  <1>8. ASSUME NEW o \in SyncOrder, o.todo = o.listed,
               handlers'[h] = [pc |-> "award", order |-> o, amount |-> 0]
        PROVE  Done
    BY <1>8
  <1>9. ASSUME NEW a \in Accounts, NEW s \in Sources, NEW d \in Int, Posts(h, a, s, d),
               handlers'[h] = [handlers[h] EXCEPT !.pc = Holding[handlers[h].pc]]
        PROVE  Done
    <2>1. handlers'[h].pc = Holding[handlers[h].pc] /\ handlers'[h].order = handlers[h].order
      BY <1>1, <1>9 DEF Job
    <2>2. handlers[h].pc = "award"
      BY <1>9, <2>1 DEF Posts, IsAt, Holding
    <2> QED
      BY <1>4, <2>1, <2>2
  <1>10. ASSUME handlers'[h] = [handlers[h] EXCEPT !.pc = "contribute_count"] PROVE Done
    BY <1>1, <1>10 DEF Job
  <1>11. ASSUME RecordAward(h),
                handlers'[h] = [pc |-> "award", order |-> [OrderOf(h) EXCEPT !.todo = @ \ {reply[h].source}],
                                amount |-> 0]
         PROVE  Done
    <2>1. PICK o \in SyncOrder, c \in Checkins :
            /\ o = OrderOf(h) /\ c = reply[h].source /\ c \in o.todo
            /\ Recorded(o.account, c) /\ \E row \in audited' : row.checkin = c
      BY <1>11, AuditedIsDone
    <2>2. x = [o EXCEPT !.todo = o.todo \ {c}]
      BY <1>11, <2>1
    <2>3. x.account = o.account /\ x.listed = o.listed /\ x.todo = o.todo \ {c} /\ o.account \in Accounts
          /\ o.listed \subseteq Checkins
      BY <2>2 DEF SyncOrder
    <2>4. CASE k = c
      BY <1>3, <2>1, <2>3, <2>4
    <2>5. CASE k # c
      <3>1. handlers[h].pc \in {"award", "audit"} /\ k \in OrderOf(h).listed \ Todo(h)
        BY <1>11, <2>1, <2>3, <2>5 DEF RecordAward, IsAt, Todo
      <3>2. Recorded(o.account, k) /\ \E row \in audited : row.checkin = k
        BY <2>1, <3>1 DEF ListsAreDone
      <3> QED
        BY <1>3, <2>3, <3>2
    <2> QED
      BY <2>4, <2>5
  <1>12. ASSUME handlers'[h] = handlers[h] PROVE Done
    BY <1>4, <1>12
  <1> HIDE DEF Done
  <1>13. Done
    BY <1>2, <1>5, <1>6, <1>7, <1>8, <1>9, <1>10, <1>11, <1>12 DEF HandlerMove
  <1> QED
    BY <1>13 DEF Done

\* A handler leaves its audit without a crash by its own step only.
LEMMA AuditEnds ==
  ASSUME SpendingInv, [SpendingNext]_spendingVars, NEW h \in Handlers,
         IsAt(h, "audit"), handlers'[h].pc = "idle", crashes' = crashes
  PROVE  RecordAward(h) /\ Todo(h) = {reply[h].source}
  <1>1. ~Crash
    BY CrashBound DEF Crash, SpendingInv
  <1>2. handlers'[h] # handlers[h]
    BY DEF IsAt
  <1>3. ASSUME NEW g \in Handlers, g # h, OneMoves(g)
        PROVE  FALSE
    BY <1>2, <1>3 DEF OneMoves, SpendingInv, HandlersHaveOrders
  <1>4. ~Request(h)
    BY DEF Request, Contribute, Trade, SyncLandingCheckins, Enter, IsAt
  <1>5. Run(h)
    BY <1>1, <1>2, <1>3, <1>4, RequestMoves, RunMoves DEF SpendingNext, OneStep, CreateSoulProposal, CheckIn,
       AdminPosting, ServerCrash, handlerVars, spendingVars
  <1>6. RecordAward(h)
    BY <1>5 DEF Run, RunContribution, RunTrade, RunSync, ContributionDebit, RecordContribution,
       CountContribution, TradeDebit, RecordTrade, AwardCheckin, IsAt
  <1>7. Todo(h) = {reply[h].source}
    <2> SUFFICES ASSUME Todo(h) # {reply[h].source} PROVE FALSE
      OBVIOUS
    <2>1. handlers' = [handlers EXCEPT ![h] =
             [pc |-> "award", order |-> [OrderOf(h) EXCEPT !.todo = @ \ {reply[h].source}], amount |-> 0]]
      BY <1>6 DEF RecordAward, NextCheckin
    <2> QED
      BY <2>1 DEF SpendingInv, HandlersHaveOrders
  <1> QED
    BY <1>6, <1>7

\* A sync that comes to its end has the points and the audit row of every check-in
\* it listed, whatever other syncs, crashes and failed calls happened meanwhile.
THEOREM SyncsRepair == SpendingSpec => SyncRepairs
  <1>1. SpendingInit => ListsAreDone
    BY DEF SpendingInit, Idle, ListsAreDone
  <1>2. SpendingInv /\ EntriesAreAnswered /\ ListsAreDone /\ [SpendingNext]_spendingVars => ListsAreDone'
    BY StepKeepsLists
  <1>3. SpendingInv /\ EntriesAreAnswered /\ ListsAreDone /\ [SpendingNext]_spendingVars =>
          [\A h \in Handlers :
             IsAt(h, "audit") /\ handlers'[h].pc = "idle" /\ crashes' = crashes =>
               \A k \in OrderOf(h).listed :
                 Recorded(OrderOf(h).account, k) /\ \E row \in audited' : row.checkin = k]_spendingVars
    <2> SUFFICES ASSUME SpendingInv, EntriesAreAnswered, ListsAreDone, [SpendingNext]_spendingVars,
                        NEW h \in Handlers, IsAt(h, "audit"), handlers'[h].pc = "idle", crashes' = crashes,
                        NEW k \in OrderOf(h).listed
                 PROVE  Recorded(OrderOf(h).account, k) /\ \E row \in audited' : row.checkin = k
      OBVIOUS
    <2>1. RecordAward(h) /\ Todo(h) = {reply[h].source}
      BY AuditEnds
    <2>2. PICK o \in SyncOrder, c \in Checkins :
            /\ o = OrderOf(h) /\ c = reply[h].source /\ c \in o.todo
            /\ Recorded(o.account, c) /\ \E row \in audited' : row.checkin = c
      BY <2>1, AuditedIsDone
    <2>3. CASE k = c
      BY <2>2, <2>3
    <2>4. CASE k # c
      <3>1. k \in OrderOf(h).listed \ Todo(h)
        BY <2>1, <2>2, <2>4
      <3>2. Recorded(OrderOf(h).account, k) /\ \E row \in audited : row.checkin = k
        BY <3>1 DEF ListsAreDone, IsAt
      <3> QED
        BY <3>2, RowsAreAdded
    <2> QED
      BY <2>3, <2>4
  <1> QED
    BY <1>1, <1>2, <1>3, SpendingInvariant, EntriesAnswered, PTL DEF SpendingSpec, SyncRepairs

-----------------------------------------------------------------------------
(* What a crash can lose, if a key names one order.                         *)

\* A handler holding the answer to a debit keeps it, or stores its row, unless
\* there is a crash.
LEMMA HoldersStore ==
  ASSUME SpendingInv, [SpendingNext]_spendingVars, ~Crash, NEW h \in Handlers,
         handlers[h].pc \in {"contribute_record", "trade_record"}
  PROVE  \/ handlers'[h] = handlers[h]
         \/ IsAt(h, "contribute_record") /\ RecordContribution(h)
         \/ IsAt(h, "trade_record") /\ RecordTrade(h)
  <1>1. ASSUME NEW g \in Handlers, g # h, OneMoves(g)
        PROVE  handlers'[h] = handlers[h]
    BY <1>1 DEF OneMoves, SpendingInv, HandlersHaveOrders
  <1>2. ~Request(h)
    BY DEF Request, Contribute, Trade, SyncLandingCheckins, Enter, IsAt
  <1>3. handlers'[h] = handlers[h] \/ Run(h)
    BY <1>1, <1>2, RequestMoves, RunMoves DEF SpendingNext, OneStep, CreateSoulProposal, CheckIn,
       AdminPosting, ServerCrash, handlerVars, spendingVars
  <1>4. Run(h) => RecordContribution(h) \/ RecordTrade(h)
    BY DEF Run, RunContribution, RunTrade, RunSync, ContributionDebit, CountContribution, TradeDebit,
       AwardCheckin, RecordAward, IsAt
  <1> QED
    BY <1>3, <1>4 DEF RecordContribution, RecordTrade

\* A contribution or trade about to be stored is stored by the step that stores it:
\* a row kept in its place under the same key is its own.
LEMMA RecordingStores ==
  ASSUME KeysNameOrders, SpendingInv, NEW h \in Handlers,
         RecordContribution(h) \/ RecordTrade(h), NEW o, o = OrderOf(h)
  PROVE  \E row \in contributions' \cup trades' : row.order = o
  <1>1. OfItsKind(handlers[h])
    BY DEF SpendingInv, HandlersHaveOrders
  <1>2. CASE RecordContribution(h)
    <2>1. o \in Contributions
      BY <1>1, <1>2 DEF RecordContribution, IsAt, OfItsKind, OrderOf
    <2>2. CASE HasRow(o)
      <3>1. PICK row \in contributions : SameRow(row, o)
        BY <2>2 DEF HasRow
      <3>2. row.order \in Contributions
        BY DEF SpendingInv, FundingTypeOK
      <3>3. row.order = o
        BY <2>1, <3>1, <3>2 DEF SameRow, KeysNameOrders
      <3>4. contributions' = contributions
        BY <1>2, <2>2 DEF RecordContribution
      <3> QED
        BY <3>3, <3>4
    <2>3. CASE ~HasRow(o)
      <3>1. [order |-> o, entry |-> reply[h].entry] \in contributions'
        BY <1>2, <2>3 DEF RecordContribution
      <3> QED
        BY <3>1
    <2> QED
      BY <2>2, <2>3
  <1>3. CASE RecordTrade(h)
    <2>1. o \in Trades
      BY <1>1, <1>3 DEF RecordTrade, IsAt, OfItsKind, OrderOf
    <2>2. CASE HasTrade(o)
      <3>1. PICK row \in trades : row.order.user = o.user /\ row.order.key = o.key
        BY <2>2 DEF HasTrade
      <3>2. row.order \in Trades
        BY DEF SpendingInv, TradesTypeOK
      <3>3. row.order = o
        BY <2>1, <3>1, <3>2 DEF KeysNameOrders
      <3>4. trades' = trades
        BY <1>3, <2>2 DEF RecordTrade
      <3> QED
        BY <3>3, <3>4
    <2>3. CASE ~HasTrade(o)
      <3>1. [order |-> o, entry |-> reply[h].entry] \in trades'
        BY <1>3, <2>3 DEF RecordTrade
      <3> QED
        BY <3>1
    <2> QED
      BY <2>2, <2>3
  <1> QED
    BY <1>2, <1>3

\* What is being stored is still being stored or stored, unless there is a crash.
LEMMA StoringIsStored ==
  ASSUME KeysNameOrders, SpendingInv, [SpendingNext]_spendingVars, ~Crash, NEW o, Storing(o)
  PROVE  Storing(o)' \/ Stored(o)'
  <1>1. PICK h \in Handlers : OrderOf(h) = o /\ handlers[h].pc \in {"contribute_record", "trade_record"}
    BY DEF Storing
  <1>2. CASE handlers'[h] = handlers[h]
    BY <1>1, <1>2 DEF Storing, OrderOf
  <1>3. CASE RecordContribution(h) \/ RecordTrade(h)
    <2>1. \E row \in contributions' \cup trades' : row.order = o
      BY <1>1, <1>3, RecordingStores
    <2> QED
      BY <2>1 DEF Stored
  <1> QED
    BY <1>1, <1>2, <1>3, HoldersStore

LEMMA StoredStays ==
  ASSUME [SpendingNext]_spendingVars, NEW o, Stored(o)
  PROVE  Stored(o)'
  <1>1. contributions \subseteq contributions' /\ trades \subseteq trades'
    BY RowsAreAdded
  <1> QED
    BY <1>1 DEF Stored

\* A handler whose debit has just succeeded is about to store its order.
LEMMA PostedIsStoring ==
  ASSUME SpendingInv, NEW h \in Handlers, IsAt(h, "contribute_debit") \/ IsAt(h, "trade_debit"),
         Posted(h), reply'[h].status = "ok", NEW o, o = OrderOf(h)
  PROVE  Storing(o)'
  <1>1. handlers \in [Handlers -> Job] /\ handlers[h] \in Job
    BY DEF SpendingInv, HandlersHaveOrders
  <1>2. handlers' = [handlers EXCEPT ![h] = [handlers[h] EXCEPT !.pc = Holding[handlers[h].pc]]]
    BY DEF Posted
  <1>3. handlers'[h].order = o /\ handlers'[h].pc = Holding[handlers[h].pc]
    BY <1>1, <1>2 DEF Job, OrderOf
  <1>4. handlers'[h].pc \in {"contribute_record", "trade_record"}
    BY <1>3 DEF IsAt, Holding
  <1> QED
    BY <1>3, <1>4 DEF Storing, OrderOf

\* Without a crash no step loses an order.
LEMMA NothingIsLost ==
  ASSUME KeysNameOrders, SpendingInv, [SpendingNext]_spendingVars, ~Crash
  PROVE  Lost' \subseteq Lost
  <1>1. ASSUME NEW o \in Contributions, Recorded(o.account, ContributionSource(o))', ~Stored(o)', ~Storing(o)'
        PROVE  Recorded(o.account, ContributionSource(o)) /\ ~Stored(o) /\ ~Storing(o)
    <2>1. ~Stored(o) /\ ~Storing(o)
      BY <1>1, StoredStays, StoringIsStored
    <2>2. ASSUME ~Recorded(o.account, ContributionSource(o))
          PROVE  FALSE
      <3>1. PICK h \in Handlers, x \in Contributions :
              /\ x = OrderOf(h) /\ x.account = o.account /\ x.key = o.key
              /\ IsAt(h, "contribute_debit") /\ Posted(h) /\ reply'[h].status = "ok"
        BY <1>1, <2>2, NewContribution
      <3>2. x = o
        BY <3>1 DEF KeysNameOrders
      <3> QED
        BY <1>1, <3>1, <3>2, PostedIsStoring
    <2> QED
      BY <2>1, <2>2
  <1>2. ASSUME NEW o \in Trades, Recorded(o.account, TradeSource(o))', ~Stored(o)', ~Storing(o)'
        PROVE  Recorded(o.account, TradeSource(o)) /\ ~Stored(o) /\ ~Storing(o)
    <2>1. ~Stored(o) /\ ~Storing(o)
      BY <1>2, StoredStays, StoringIsStored
    <2>2. ASSUME ~Recorded(o.account, TradeSource(o))
          PROVE  FALSE
      <3>1. PICK h \in Handlers, x \in Trades :
              /\ x = OrderOf(h) /\ x.account = o.account /\ x.key = o.key
              /\ IsAt(h, "trade_debit") /\ Posted(h) /\ reply'[h].status = "ok"
        BY <1>2, <2>2, NewTrade
      <3>2. x = o
        BY <3>1 DEF KeysNameOrders
      <3> QED
        BY <1>2, <3>1, <3>2, PostedIsStoring
    <2> QED
      BY <2>1, <2>2
  <1> QED
    BY <1>1, <1>2 DEF Lost

\* A crash loses at most what the handlers were working on.
Running == {OrderOf(h) : h \in Handlers}

LEMMA CrashLosesTheRunning ==
  ASSUME Crash, UNCHANGED <<fundingVars, trades>>
  PROVE  Lost' \subseteq Lost \cup Running
  <1>1. \A a, s : Recorded(a, s)' = Recorded(a, s)
    BY SameLedgerSameRecords DEF Crash, ledgerVars
  <1>2. \A o : Stored(o)' = Stored(o)
    BY DEF Stored, fundingVars
  <1>3. \A o : Storing(o) => o \in Running
    BY DEF Storing, Running
  <1> QED
    BY <1>1, <1>2, <1>3 DEF Lost

LEMMA RunningIsFinite == IsFiniteSet(Running) /\ Cardinality(Running) <= Cardinality(Handlers)
  <1> DEFINE f == [h \in Handlers |-> OrderOf(h)]
  <1>1. f \in Surjection(Handlers, Running)
    BY DEF Surjection, Running
  <1> QED
    BY <1>1, FS_Surjection, HandlersAreClients

LossIsBounded == IsFiniteSet(Lost) /\ DebitsHaveRows

LEMMA StepKeepsLossBound ==
  ASSUME KeysNameOrders, SpendingInv, LossIsBounded, [SpendingNext]_spendingVars
  PROVE  LossIsBounded'
  <1>1. PICK n \in Nat : n = Cardinality(Handlers)
    BY HandlersAreClients, FS_CardinalityType
  <1>2. IsFiniteSet(Lost) /\ Cardinality(Lost) \in Nat /\ crashes \in Nat /\ Cardinality(Lost) <= crashes * n
    BY <1>1, FS_CardinalityType, CrashBound DEF LossIsBounded, DebitsHaveRows, SpendingInv
  <1>3. CASE UNCHANGED crashes
    <2>1. ~Crash
      BY <1>2, <1>3 DEF Crash
    <2>2. Lost' \subseteq Lost
      BY <2>1, NothingIsLost
    <2>3. IsFiniteSet(Lost') /\ Cardinality(Lost') <= Cardinality(Lost) /\ Cardinality(Lost') \in Nat
      BY <1>2, <2>2, FS_Subset, FS_CardinalityType
    <2>4. Cardinality(Lost') <= crashes * n
      <3>1. crashes * n \in Nat
        BY <1>1, <1>2
      <3> QED
        BY <1>2, <2>3, <3>1
    <2> QED
      BY <1>1, <1>3, <2>3, <2>4 DEF LossIsBounded, DebitsHaveRows
  <1>4. CASE ServerCrash
    <2>1. Lost' \subseteq Lost \cup Running /\ crashes' = crashes + 1
      BY <1>4, CrashLosesTheRunning DEF ServerCrash, Crash
    <2>2. IsFiniteSet(Running) /\ Cardinality(Running) \in Nat /\ Cardinality(Running) <= n
      BY <1>1, RunningIsFinite, FS_CardinalityType
    <2>3. /\ IsFiniteSet(Lost \cup Running)
          /\ Cardinality(Lost \cup Running) =
               Cardinality(Lost) + Cardinality(Running) - Cardinality(Lost \cap Running)
      BY <1>2, <2>2, FS_Union
    <2>4. Cardinality(Lost \cap Running) \in Nat
      BY <1>2, FS_Subset, FS_CardinalityType
    <2>5. IsFiniteSet(Lost') /\ Cardinality(Lost') <= Cardinality(Lost \cup Running) /\ Cardinality(Lost') \in Nat
      BY <2>1, <2>3, FS_Subset, FS_CardinalityType
    <2>6. PICK m \in Nat : m = crashes * n
      BY <1>1, <1>2
    <2>7. (crashes + 1) * n = m + n
      BY <1>1, <1>2, <2>6
    <2>8. Cardinality(Lost') <= m + n
      BY <1>1, <1>2, <2>2, <2>3, <2>4, <2>5, <2>6
    <2> QED
      BY <1>1, <2>1, <2>5, <2>7, <2>8 DEF LossIsBounded, DebitsHaveRows
  <1> QED
    BY <1>3, <1>4, CrashesAreCounted

\* Points leave an account only for what is stored or being stored, if a key names
\* one order: every crash loses at most the orders the handlers were working on.
THEOREM CrashesLoseOnlyTheRunning ==
  ASSUME KeysNameOrders
  PROVE  SpendingSpec => []DebitsHaveRows
  <1>1. SpendingInit => LossIsBounded
    <2> SUFFICES ASSUME SpendingInit PROVE LossIsBounded
      OBVIOUS
    <2>1. \A a \in Accounts, s \in Sources : ~Recorded(a, s)
      BY DEF SpendingInit, Init, Recorded
    <2>2. Lost = {}
      BY <2>1, ContributionTypes, TradeTypes DEF Lost
    <2>3. IsFiniteSet(Lost) /\ Cardinality(Lost) = 0 /\ crashes = 0
      BY <2>2, FS_EmptySet DEF SpendingInit
    <2>4. Cardinality(Handlers) \in Nat
      BY HandlersAreClients, FS_CardinalityType
    <2> QED
      BY <2>3, <2>4 DEF LossIsBounded, DebitsHaveRows
  <1>2. SpendingInv /\ LossIsBounded /\ [SpendingNext]_spendingVars => LossIsBounded'
    BY StepKeepsLossBound
  <1>3. LossIsBounded => DebitsHaveRows
    BY DEF LossIsBounded
  <1> QED
    BY <1>1, <1>2, <1>3, SpendingInvariant, PTL DEF SpendingSpec

-----------------------------------------------------------------------------
(* Sums over finite sets.                                                   *)

Chosen(s) == CHOOSE x \in s : TRUE

SumsOver(g, f, S) ==
  g = [s \in SUBSET S |-> IF s = {} THEN 0 ELSE f[Chosen(s)] + g[s \ {Chosen(s)}]]

LEMMA SumIsChosen ==
  ASSUME NEW f, NEW S
  PROVE  SumFunctionOnSet(f, S) = (CHOOSE g : SumsOver(g, f, S))[S]
  BY DEF SumFunctionOnSet, FoldFunctionOnSet, MapThenFoldSet, SumsOver, Chosen

LEMMA ChosenIsIn ==
  ASSUME NEW s, s # {}
  PROVE  Chosen(s) \in s
  BY DEF Chosen

\* Among the finite subsets of a set there is one without a smaller one.
LEMMA SmallestSubset ==
  ASSUME NEW S, IsFiniteSet(S), NEW Bad, Bad \subseteq SUBSET S, Bad # {}
  PROVE  \E T \in Bad : \A U \in Bad : U \subseteq T => U = T
  <1>1. IsWellFoundedOn(StrictSubsetOrdering(S), SUBSET S)
    BY FS_StrictSubsetOrderingWellFounded, FS_FiniteSubsetsOfFinite
  <1>2. PICK T \in Bad : \A U \in Bad : ~(<<U, T>> \in StrictSubsetOrdering(S))
    BY <1>1, WFMin
  <1> QED
    BY <1>2 DEF StrictSubsetOrdering

LEMMA SumsUnfold ==
  ASSUME NEW f, NEW S, NEW g, SumsOver(g, f, S), NEW s \in SUBSET S
  PROVE  /\ s = {} => g[s] = 0
         /\ s # {} => Chosen(s) \in s /\ g[s] = f[Chosen(s)] + g[s \ {Chosen(s)}]
  BY ChosenIsIn DEF SumsOver

LEMMA SumsAgree ==
  ASSUME NEW f, NEW S, NEW T, IsFiniteSet(S), T \subseteq S, NEW g, NEW h,
         SumsOver(g, f, S), SumsOver(h, f, T)
  PROVE  \A U \in SUBSET T : g[U] = h[U]
  <1> DEFINE Bad == {U \in SUBSET T : g[U] # h[U]}
  <1> SUFFICES ASSUME Bad # {} PROVE FALSE
    OBVIOUS
  <1>1. IsFiniteSet(T)
    BY FS_Subset
  <1>2. PICK U \in Bad : \A V \in Bad : V \subseteq U => V = U
    <2> HIDE DEF Bad
    <2>1. Bad \subseteq SUBSET T
      BY DEF Bad
    <2> QED
      BY <1>1, <2>1, SmallestSubset
  <1>3. U \in SUBSET T /\ U \in SUBSET S /\ g[U] # h[U]
    OBVIOUS
  <1>4. U # {}
    BY <1>3, SumsUnfold
  <1>5. PICK c \in U : c = Chosen(U)
    BY <1>4, ChosenIsIn
  <1>6. g[U \ {c}] = h[U \ {c}]
    BY <1>2, <1>3, <1>5
  <1>7. g[U] = f[c] + g[U \ {c}] /\ h[U] = f[c] + h[U \ {c}]
    BY <1>3, <1>4, <1>5, SumsUnfold
  <1> QED
    BY <1>3, <1>6, <1>7

LEMMA SumsExist ==
  ASSUME NEW f, NEW S, IsFiniteSet(S)
  PROVE  \E g : SumsOver(g, f, S)
  <1> DEFINE Bad == {T \in SUBSET S : ~\E g : SumsOver(g, f, T)}
  <1> SUFFICES ASSUME Bad # {} PROVE FALSE
    OBVIOUS
  <1>1. PICK T \in Bad : \A U \in Bad : U \subseteq T => U = T
    <2> HIDE DEF Bad
    <2>1. Bad \subseteq SUBSET S
      BY DEF Bad
    <2> QED
      BY <2>1, SmallestSubset
  <1> DEFINE G(U) == CHOOSE g : SumsOver(g, f, U)
             H == [s \in SUBSET T |-> IF s = {} THEN 0
                                      ELSE IF s = T THEN f[Chosen(T)] + G(T \ {Chosen(T)})[T \ {Chosen(T)}]
                                      ELSE G(s)[s]]
  <1>2. ASSUME NEW U \in SUBSET T, U # T
        PROVE  SumsOver(G(U), f, U) /\ IsFiniteSet(U)
    <2>1. U \notin Bad /\ U \in SUBSET S
      BY <1>1, <1>2
    <2>2. \E g : SumsOver(g, f, U)
      BY <2>1
    <2> QED
      BY <2>1, <2>2, FS_Subset
  <1>3. ASSUME NEW s \in SUBSET T, s # {}
        PROVE  H[s] = f[Chosen(s)] + H[s \ {Chosen(s)}]
    <2> DEFINE r == s \ {Chosen(s)}
    <2>1. Chosen(s) \in s
      BY <1>3, ChosenIsIn
    <2>2. r \in SUBSET T /\ r # T /\ r \in SUBSET s
      BY <2>1
    <2>3. SumsOver(G(r), f, r)
      BY <1>2, <2>2
    <2>4. H[r] = G(r)[r]
      <3>1. r = {} => G(r)[r] = 0
        <4> HIDE DEF G
        <4> QED
          BY <2>3, SumsUnfold
      <3> QED
        BY <2>2, <3>1
    <2>5. CASE s = T
      <3>1. H[s] = f[Chosen(s)] + G(r)[r]
        BY <2>5, <1>3
      <3> QED
        BY <2>4, <3>1
    <2>6. CASE s # T
      <3>1. SumsOver(G(s), f, s) /\ IsFiniteSet(s)
        BY <1>2, <2>6
      <3>2. H[s] = G(s)[s]
        BY <1>3, <2>6
      <3> HIDE DEF G, H
      <3>3. G(s)[s] = f[Chosen(s)] + G(s)[r]
        BY <3>1, <1>3, SumsUnfold
      <3>4. G(s)[r] = G(r)[r]
        <4> HIDE DEF r
        <4>1. r \subseteq s /\ r \in SUBSET r
          BY <2>2
        <4>2. \A U \in SUBSET r : G(s)[U] = G(r)[U]
          BY <2>3, <3>1, <4>1, SumsAgree
        <4> QED
          BY <4>1, <4>2
      <3> QED
        BY <2>4, <3>2, <3>3, <3>4
    <2> QED
      BY <2>5, <2>6
  <1>4. H = [s \in SUBSET T |-> IF s = {} THEN 0 ELSE f[Chosen(s)] + H[s \ {Chosen(s)}]]
    <2>1. ASSUME NEW s \in SUBSET T
          PROVE  H[s] = IF s = {} THEN 0 ELSE f[Chosen(s)] + H[s \ {Chosen(s)}]
      <3>1. CASE s = {}
        BY <3>1
      <3>2. CASE s # {}
        <4> HIDE DEF H
        <4> QED
          BY <3>2, <1>3
      <3> QED
        BY <3>1, <3>2
    <2>2. DOMAIN H = SUBSET T /\ H = [s \in DOMAIN H |-> H[s]]
      OBVIOUS
    <2> HIDE DEF H
    <2> QED
      BY <2>1, <2>2
  <1>5. SumsOver(H, f, T)
    <2> HIDE DEF H
    <2> QED
      BY <1>4 DEF SumsOver
  <1> QED
    BY <1>5

\* What a sum over a finite set is: one summand and the sum of the rest.
LEMMA SumEquation ==
  ASSUME NEW f, NEW S, IsFiniteSet(S)
  PROVE  /\ S = {} => SumFunctionOnSet(f, S) = 0
         /\ S # {} => /\ Chosen(S) \in S
                      /\ SumFunctionOnSet(f, S) = f[Chosen(S)] + SumFunctionOnSet(f, S \ {Chosen(S)})
  <1> DEFINE G(U) == CHOOSE g : SumsOver(g, f, U)
             r == S \ {Chosen(S)}
  <1>1. IsFiniteSet(r) /\ r \subseteq S
    BY FS_Subset
  <1>2. SumsOver(G(S), f, S) /\ SumsOver(G(r), f, r)
    <2>1. (\E g : SumsOver(g, f, S)) /\ (\E g : SumsOver(g, f, r))
      BY <1>1, SumsExist
    <2> QED
      BY <2>1
  <1>3. SumFunctionOnSet(f, S) = G(S)[S] /\ SumFunctionOnSet(f, r) = G(r)[r]
    BY SumIsChosen
  <1> HIDE DEF G, r
  <1>4. G(S)[r] = G(r)[r]
    BY <1>1, <1>2, SumsAgree
  <1> QED
    BY <1>2, <1>3, <1>4, SumsUnfold DEF r

LEMMA SumIsInt ==
  ASSUME NEW S, IsFiniteSet(S), NEW f, \A x \in S : f[x] \in Int
  PROVE  SumFunctionOnSet(f, S) \in Int
  <1> DEFINE Bad == {T \in SUBSET S : SumFunctionOnSet(f, T) \notin Int}
  <1> SUFFICES ASSUME Bad # {} PROVE FALSE
    OBVIOUS
  <1>1. PICK T \in Bad : \A U \in Bad : U \subseteq T => U = T
    <2>1. Bad \subseteq SUBSET S
      OBVIOUS
    <2> HIDE DEF Bad
    <2> QED
      BY <2>1, SmallestSubset
  <1>2. T \subseteq S /\ IsFiniteSet(T) /\ SumFunctionOnSet(f, T) \notin Int
    BY FS_Subset
  <1>3. T # {} /\ Chosen(T) \in T
        /\ SumFunctionOnSet(f, T) = f[Chosen(T)] + SumFunctionOnSet(f, T \ {Chosen(T)})
    <2>1. IsFiniteSet(T)
      BY <1>2
    <2>2. /\ T = {} => SumFunctionOnSet(f, T) = 0
          /\ T # {} => /\ Chosen(T) \in T
                       /\ SumFunctionOnSet(f, T) = f[Chosen(T)] + SumFunctionOnSet(f, T \ {Chosen(T)})
      BY <2>1, SumEquation
    <2> QED
      BY <1>2, <2>2
  <1>4. SumFunctionOnSet(f, T \ {Chosen(T)}) \in Int
    BY <1>1, <1>2, <1>3
  <1> QED
    BY <1>2, <1>3, <1>4

LEMMA SumIsNat ==
  ASSUME NEW S, IsFiniteSet(S), NEW f, \A x \in S : f[x] \in Nat
  PROVE  SumFunctionOnSet(f, S) \in Nat
  <1> DEFINE Bad == {T \in SUBSET S : SumFunctionOnSet(f, T) \notin Nat}
  <1> SUFFICES ASSUME Bad # {} PROVE FALSE
    OBVIOUS
  <1>1. PICK T \in Bad : \A U \in Bad : U \subseteq T => U = T
    <2>1. Bad \subseteq SUBSET S
      OBVIOUS
    <2> HIDE DEF Bad
    <2> QED
      BY <2>1, SmallestSubset
  <1>2. T \subseteq S /\ IsFiniteSet(T) /\ SumFunctionOnSet(f, T) \notin Nat
    BY FS_Subset
  <1>3. T # {} /\ Chosen(T) \in T
        /\ SumFunctionOnSet(f, T) = f[Chosen(T)] + SumFunctionOnSet(f, T \ {Chosen(T)})
    <2>1. IsFiniteSet(T)
      BY <1>2
    <2>2. /\ T = {} => SumFunctionOnSet(f, T) = 0
          /\ T # {} => /\ Chosen(T) \in T
                       /\ SumFunctionOnSet(f, T) = f[Chosen(T)] + SumFunctionOnSet(f, T \ {Chosen(T)})
      BY <2>1, SumEquation
    <2> QED
      BY <1>2, <2>2
  <1>4. SumFunctionOnSet(f, T \ {Chosen(T)}) \in Nat
    BY <1>1, <1>2, <1>3
  <1> QED
    BY <1>2, <1>3, <1>4

LEMMA SameSum ==
  ASSUME NEW S, IsFiniteSet(S), NEW f, NEW g, \A x \in S : f[x] = g[x]
  PROVE  SumFunctionOnSet(f, S) = SumFunctionOnSet(g, S)
  <1> DEFINE Bad == {T \in SUBSET S : SumFunctionOnSet(f, T) # SumFunctionOnSet(g, T)}
  <1> SUFFICES ASSUME Bad # {} PROVE FALSE
    OBVIOUS
  <1>1. PICK T \in Bad : \A U \in Bad : U \subseteq T => U = T
    <2>1. Bad \subseteq SUBSET S
      OBVIOUS
    <2> HIDE DEF Bad
    <2> QED
      BY <2>1, SmallestSubset
  <1>2. T \subseteq S /\ IsFiniteSet(T) /\ SumFunctionOnSet(f, T) # SumFunctionOnSet(g, T)
    BY FS_Subset
  <1>3. T # {} /\ Chosen(T) \in T
        /\ SumFunctionOnSet(f, T) = f[Chosen(T)] + SumFunctionOnSet(f, T \ {Chosen(T)})
        /\ SumFunctionOnSet(g, T) = g[Chosen(T)] + SumFunctionOnSet(g, T \ {Chosen(T)})
    BY <1>2, SumEquation
  <1>4. SumFunctionOnSet(f, T \ {Chosen(T)}) = SumFunctionOnSet(g, T \ {Chosen(T)})
    BY <1>1, <1>2, <1>3
  <1> QED
    BY <1>2, <1>3, <1>4

LEMMA AnySummandFirst ==
  ASSUME NEW S, IsFiniteSet(S), NEW f, \A x \in S : f[x] \in Int, NEW x \in S
  PROVE  SumFunctionOnSet(f, S) = f[x] + SumFunctionOnSet(f, S \ {x})
  <1> DEFINE Sum(T) == SumFunctionOnSet(f, T)
             Bad == {T \in SUBSET S : \E y \in T : Sum(T) # f[y] + Sum(T \ {y})}
  <1> SUFFICES ASSUME Bad # {} PROVE FALSE
    OBVIOUS
  <1>1. PICK T \in Bad : \A U \in Bad : U \subseteq T => U = T
    <2>1. Bad \subseteq SUBSET S
      OBVIOUS
    <2> HIDE DEF Bad
    <2> QED
      BY <2>1, SmallestSubset
  <1>2. PICK y \in T : Sum(T) # f[y] + Sum(T \ {y})
    OBVIOUS
  <1>3. T \subseteq S /\ \A U \in SUBSET T : U # T => \A z \in U : Sum(U) = f[z] + Sum(U \ {z})
    BY <1>1
  <1>4. \A U \in SUBSET T : IsFiniteSet(U) /\ Sum(U) \in Int
    <2>1. \A U \in SUBSET T : IsFiniteSet(U)
      BY <1>3, FS_Subset
    <2> QED
      BY <1>3, <2>1, SumIsInt
  <1>5. PICK c \in T : c = Chosen(T) /\ Sum(T) = f[c] + Sum(T \ {c})
    BY <1>4, SumEquation
  <1> HIDE DEF Sum
  <1>6. c # y
    BY <1>2, <1>5
  <1>7. PICK D \in SUBSET T : D = (T \ {c}) \ {y} /\ D = (T \ {y}) \ {c}
    OBVIOUS
  <1>8. Sum(T \ {c}) = f[y] + Sum(D)
    BY <1>3, <1>6, <1>7
  <1>9. Sum(T \ {y}) = f[c] + Sum(D)
    BY <1>3, <1>6, <1>7
  <1>10. Sum(D) \in Int /\ f[c] \in Int /\ f[y] \in Int
    BY <1>3, <1>4
  <1>11. Sum(T) = f[c] + (f[y] + Sum(D))
    BY <1>5, <1>8
  <1>12. Sum(T) # f[y] + (f[c] + Sum(D))
    BY <1>2, <1>9
  <1> QED
    BY <1>10, <1>11, <1>12

LEMMA SumsGrow ==
  ASSUME NEW S, IsFiniteSet(S), NEW f, \A x \in S : f[x] \in Nat, NEW R \in SUBSET S
  PROVE  SumFunctionOnSet(f, R) <= SumFunctionOnSet(f, S)
  <1> DEFINE Sum(T) == SumFunctionOnSet(f, T)
             Bad == {T \in SUBSET S : R \subseteq T /\ ~(Sum(R) <= Sum(T))}
  <1> SUFFICES ASSUME Bad # {} PROVE FALSE
    OBVIOUS
  <1>1. PICK T \in Bad : \A U \in Bad : U \subseteq T => U = T
    <2>1. Bad \subseteq SUBSET S
      OBVIOUS
    <2> HIDE DEF Bad
    <2> QED
      BY <2>1, SmallestSubset
  <1>2. T \in SUBSET S /\ R \subseteq T /\ ~(Sum(R) <= Sum(T)) /\ IsFiniteSet(T)
    BY FS_Subset
  <1>3. Sum(T) \in Nat /\ \A U \in SUBSET S : IsFiniteSet(U) /\ Sum(U) \in Nat
    <2>1. \A U \in SUBSET S : IsFiniteSet(U)
      BY FS_Subset
    <2> QED
      BY <1>2, <2>1, SumIsNat
  <1>4. PICK c \in T : c \notin R
    <2> HIDE DEF Sum
    <2> QED
      BY <1>2, <1>3
  <1>5. Sum(T) = f[c] + Sum(T \ {c})
    <2>1. \A x \in T : f[x] \in Int
      BY <1>2
    <2> QED
      BY <1>2, <2>1, AnySummandFirst
  <1>6. Sum(R) <= Sum(T \ {c})
    <2>1. T \ {c} \notin Bad
      BY <1>1
    <2> QED
      BY <1>2, <1>4, <2>1
  <1> HIDE DEF Sum
  <1>7. f[c] \in Nat /\ Sum(T \ {c}) \in Nat /\ Sum(R) \in Nat
    BY <1>2, <1>3
  <1> QED
    BY <1>2, <1>3, <1>5, <1>6, <1>7

\* A function with one more argument sums to one more summand.
LEMMA OneMoreSummand ==
  ASSUME NEW D, IsFiniteSet(D), NEW x, x \notin D,
         NEW f, NEW g, DOMAIN f = D \cup {x}, DOMAIN g = D,
         \A y \in D : f[y] = g[y] /\ g[y] \in Int, f[x] \in Int
  PROVE  SumFunction(f) = f[x] + SumFunction(g) /\ SumFunction(g) \in Int
  <1>1. IsFiniteSet(D \cup {x}) /\ x \in D \cup {x} /\ (D \cup {x}) \ {x} = D
    BY FS_AddElement
  <1>2. \A y \in D \cup {x} : f[y] \in Int
    OBVIOUS
  <1>3. SumFunctionOnSet(f, D \cup {x}) = f[x] + SumFunctionOnSet(f, D)
    BY <1>1, <1>2, AnySummandFirst
  <1>4. SumFunctionOnSet(f, D) = SumFunctionOnSet(g, D)
    BY SameSum
  <1>5. SumFunctionOnSet(g, D) \in Int
    BY SumIsInt
  <1> QED
    BY <1>3, <1>4, <1>5 DEF SumFunction

\* A function with fewer arguments sums to no more, where no summand is negative.
LEMMA FewerSummands ==
  ASSUME NEW f, NEW g, IsFiniteSet(DOMAIN f), DOMAIN g \subseteq DOMAIN f,
         \A y \in DOMAIN f : f[y] \in Nat, \A y \in DOMAIN g : f[y] = g[y]
  PROVE  SumFunction(g) <= SumFunction(f) /\ SumFunction(g) \in Nat /\ SumFunction(f) \in Nat
  <1>1. IsFiniteSet(DOMAIN g)
    BY FS_Subset
  <1>2. SumFunctionOnSet(f, DOMAIN g) = SumFunctionOnSet(g, DOMAIN g)
    BY <1>1, SameSum
  <1>3. SumFunctionOnSet(f, DOMAIN g) <= SumFunctionOnSet(f, DOMAIN f)
    BY SumsGrow
  <1>4. SumFunctionOnSet(f, DOMAIN f) \in Nat
    BY SumIsNat
  <1>5. SumFunctionOnSet(g, DOMAIN g) \in Nat
    <2>1. \A y \in DOMAIN g : g[y] \in Nat
      OBVIOUS
    <2> QED
      BY <1>1, <2>1, SumIsNat
  <1> QED
    BY <1>2, <1>3, <1>4, <1>5 DEF SumFunction

-----------------------------------------------------------------------------
(* Funding is backed, if a key is one handler's.                            *)

Contributing == {"contribute_debit", "contribute_record", "contribute_count"}

\* A handler contributes for an order of its callers, and until it has stored the
\* row nobody has.
ContributesAlone ==
  \A h \in Handlers :
    /\ handlers[h].pc \in Contributing => OrderOf(h) \in OrdersOf[h]
    /\ handlers[h].pc \in {"contribute_debit", "contribute_record"} => ~HasRow(OrderOf(h))

FundingInv == IsFiniteSet(contributions) /\ ContributesAlone /\ FundingIsBacked

\* A step that counts nothing, stores no row and leaves alone what waits to be counted.
Quiet ==
  /\ UNCHANGED <<contributions, crashes>>
  /\ \A p \in Proposals : proposals'[p].contributed = proposals[p].contributed
  /\ \A h \in Handlers :
       handlers[h].pc = "contribute_count" \/ handlers'[h].pc = "contribute_count" =>
         handlers'[h] = handlers[h]

\* Two handlers contribute under different keys.
LEMMA KeysAreApart ==
  ASSUME KeysAreExclusive, SpendingInv, ContributesAlone,
         NEW g \in Handlers, NEW h \in Handlers, g # h,
         handlers[g].pc \in Contributing, NEW o \in Contributions, o \in OrdersOf[h]
  PROVE  /\ OrderOf(g).proposal = o.proposal /\ OrderOf(g).account = o.account
            => OrderOf(g).key # o.key
         /\ OrderOf(g) \in Contributions
  <1>1. OrderOf(g) \in Contributions
    BY DEF SpendingInv, HandlersHaveOrders, OfItsKind, Contributing, OrderOf
  <1>2. OrderOf(g) \in OrdersOf[g]
    BY DEF ContributesAlone
  <1> QED
    BY <1>1, <1>2 DEF KeysAreExclusive

\* Only the handler at work moves: it stores a row, counts one, crashes, or does
\* neither.
LEMMA FundingSteps ==
  ASSUME SpendingInv, [SpendingNext]_spendingVars
  PROVE  \/ \E h \in Handlers : RecordContribution(h) /\ UNCHANGED <<proposals, crashes>>
         \/ \E h \in Handlers : CountContribution(h) /\ UNCHANGED <<contributions, crashes>>
         \/ ServerCrash
         \/ Quiet
  <1>1. /\ handlers \in [Handlers -> Job]
        /\ proposals \in [Proposals -> [status : {"none", "funding", "ready_to_birth"}, contributed : Nat]]
    BY DEF SpendingInv, HandlersHaveOrders, FundingTypeOK
  <1>2. ASSUME NEW g \in Handlers, NEW j, handlers' = [handlers EXCEPT ![g] = j],
               handlers[g].pc # "contribute_count", j.pc # "contribute_count",
               UNCHANGED <<crashes, fundingVars>>
        PROVE  Quiet
    <2>1. ASSUME NEW h \in Handlers,
                 handlers[h].pc = "contribute_count" \/ handlers'[h].pc = "contribute_count"
          PROVE  handlers'[h] = handlers[h]
      BY <1>1, <1>2, <2>1
    <2> QED
      BY <1>2, <2>1 DEF Quiet, fundingVars
  <1>3. ASSUME NEW g \in Handlers, Request(g)
        PROVE  Quiet
    <2>1. PICK j : /\ handlers' = [handlers EXCEPT ![g] = j]
                   /\ handlers[g].pc = "idle" /\ j.pc # "contribute_count"
                   /\ UNCHANGED <<crashes, fundingVars>>
      BY <1>3 DEF Request, Contribute, Trade, SyncLandingCheckins, Enter, IsAt, BesidesTrades, BesidesAwards
    <2> QED
      BY <1>2, <2>1
  <1>4. ASSUME NEW g \in Handlers, Run(g), ContributionDebit(g) \/ TradeDebit(g) \/ AwardCheckin(g)
        PROVE  Quiet
    <2>1. UNCHANGED <<crashes, fundingVars, trades, awardVars>>
      BY <1>1, <1>4 DEF Run, RunContribution, RunTrade, RunSync, ContributionDebit, TradeDebit, AwardCheckin,
         RecordContribution, CountContribution, RecordTrade, RecordAward, IsAt, BesidesFunding, BesidesTrades,
         BesidesAwards, fundingVars, awardVars
    <2>2. Posted(g) /\ handlers[g].pc \in {"contribute_debit", "trade_debit", "award"}
      BY <1>4, <2>1, PostingIsForOrder DEF ContributionDebit, TradeDebit, AwardCheckin, IsAt
    <2>3. handlers[g] \in Job
      BY <1>1
    <2>4. PICK j : handlers' = [handlers EXCEPT ![g] = j] /\ j.pc # "contribute_count"
      <3>1. Idle.pc # "contribute_count"
        BY DEF Idle
      <3>2. [handlers[g] EXCEPT !.pc = Holding[handlers[g].pc]].pc # "contribute_count"
        BY <2>2, <2>3 DEF Job, Holding
      <3> QED
        BY <2>2, <3>1, <3>2 DEF Posted
    <2> QED
      BY <1>2, <2>1, <2>2, <2>4
  <1>5. ASSUME NEW g \in Handlers, RecordTrade(g), BesidesTrades
        PROVE  Quiet
    <2>1. /\ handlers' = [handlers EXCEPT ![g] = Idle] /\ handlers[g].pc = "trade_record"
          /\ UNCHANGED <<crashes, fundingVars>>
      BY <1>5 DEF RecordTrade, Leave, IsAt, BesidesTrades
    <2>2. Idle.pc # "contribute_count"
      BY DEF Idle
    <2> QED
      BY <1>2, <2>1, <2>2
  <1>6. ASSUME NEW g \in Handlers, RecordAward(g), BesidesAwards
        PROVE  Quiet
    <2> DEFINE k == reply[g].source
               next == [pc |-> "award", order |-> [OrderOf(g) EXCEPT !.todo = @ \ {k}], amount |-> 0]
    <2>1. PICK j : handlers' = [handlers EXCEPT ![g] = j] /\ j.pc # "contribute_count"
      <3>1. NextCheckin(g, k)
        BY <1>6 DEF RecordAward
      <3>2. handlers' = [handlers EXCEPT ![g] = Idle] \/ handlers' = [handlers EXCEPT ![g] = next]
        BY <3>1 DEF NextCheckin
      <3>3. Idle.pc # "contribute_count" /\ next.pc # "contribute_count"
        BY DEF Idle
      <3> HIDE DEF next
      <3> QED
        BY <3>2, <3>3
    <2>2. handlers[g].pc = "audit" /\ UNCHANGED <<crashes, fundingVars>>
      BY <1>6 DEF RecordAward, IsAt, BesidesAwards
    <2> QED
      BY <1>2, <2>1, <2>2
  <1>7. CASE UNCHANGED <<handlers, crashes, contributions>> /\ ~\E h \in Handlers : Request(h) \/ Run(h)
    <2>1. \A p \in Proposals : proposals'[p].contributed = proposals[p].contributed
      BY <1>1, <1>7 DEF SpendingNext, OneStep, CreateSoulProposal, CheckIn, BesidesAwards, AdminPosting,
         ServerCrash, fundingVars, spendingVars
    <2> QED
      BY <1>7, <2>1 DEF Quiet
  <1>8. \/ \E h \in Handlers : Request(h) \/ Run(h)
        \/ ServerCrash
        \/ UNCHANGED <<handlers, crashes, contributions>>
    BY DEF SpendingNext, OneStep, CreateSoulProposal, CheckIn, BesidesAwards, AdminPosting, handlerVars,
       fundingVars, spendingVars
  <1>9. ASSUME NEW g \in Handlers, Run(g)
        PROVE  \/ ContributionDebit(g) \/ TradeDebit(g) \/ AwardCheckin(g)
               \/ RecordTrade(g) /\ BesidesTrades
               \/ RecordAward(g) /\ BesidesAwards
               \/ RecordContribution(g) /\ UNCHANGED <<proposals, crashes>>
               \/ CountContribution(g) /\ UNCHANGED <<contributions, crashes>>
    BY <1>9 DEF Run, RunContribution, RunTrade, RunSync, RecordContribution, CountContribution
  <1> QED
    BY <1>3, <1>4, <1>5, <1>6, <1>7, <1>8, <1>9

\* No row of a handler's order is stored but by the handler, which then goes on to count.
LEMMA OthersStoreOthers ==
  ASSUME KeysAreExclusive, SpendingInv, ContributesAlone, [SpendingNext]_spendingVars,
         NEW h \in Handlers, NEW o \in Contributions, o \in OrdersOf[h], ~HasRow(o),
         handlers'[h].pc # "contribute_count"
  PROVE  ~HasRow(o)'
  <1>1. ASSUME NEW g \in Handlers, RecordContribution(g)
        PROVE  ~HasRow(o)'
    <2>1. handlers[g].pc = "contribute_record" /\ handlers[g] \in Job /\ handlers \in [Handlers -> Job]
      BY <1>1 DEF RecordContribution, IsAt, SpendingInv, HandlersHaveOrders
    <2>2. handlers'[g].pc = "contribute_count"
      BY <1>1, <2>1 DEF RecordContribution, GoTo, Job
    <2>3. g # h
      BY <2>2
    <2>4. ~(/\ OrderOf(g).proposal = o.proposal /\ OrderOf(g).account = o.account
            /\ OrderOf(g).key = o.key)
      BY <2>1, <2>3, KeysAreApart DEF Contributing
    <2>5. \A row \in contributions' : row \in contributions \/ row.order = OrderOf(g)
      BY <1>1 DEF RecordContribution
    <2> QED
      BY <2>4, <2>5 DEF HasRow, SameRow
  <1>2. CASE UNCHANGED contributions
    BY <1>2 DEF HasRow, SameRow
  <1> QED
    BY <1>1, <1>2, FundingSteps DEF ServerCrash, fundingVars, Quiet

LEMMA StepKeepsAlone ==
  ASSUME KeysAreExclusive, SpendingInv, ContributesAlone, [SpendingNext]_spendingVars
  PROVE  ContributesAlone'
  <1> SUFFICES ASSUME NEW h \in Handlers, handlers'[h].pc \in Contributing, NEW x, x = handlers'[h].order
               PROVE  /\ x \in OrdersOf[h]
                      /\ handlers'[h].pc # "contribute_count" => ~HasRow(x)'
    BY DEF ContributesAlone, Contributing, HasRow, SameRow, OrderOf
  <1>1. handlers[h] \in Job /\ OfItsKind(handlers[h])
    BY DEF SpendingInv, HandlersHaveOrders
  <1>2. \/ \E o \in Contributions : o \in OrdersOf[h] /\ ~HasRow(o) /\ handlers'[h].order = o
        \/ /\ handlers'[h].order \in Contributions /\ handlers'[h].order \in OrdersOf[h]
           /\ handlers'[h].pc # "contribute_count" => ~HasRow(handlers'[h].order)
    <2>1. HandlerMove(h)
      BY HandlersMove
    <2>2. handlers[h].pc \in Contributing =>
            /\ handlers[h].order \in Contributions /\ handlers[h].order \in OrdersOf[h]
            /\ handlers[h].pc # "contribute_count" => ~HasRow(handlers[h].order)
      BY <1>1 DEF OfItsKind, Contributing, ContributesAlone, OrderOf
    <2>3. CASE handlers'[h] = handlers[h]
      BY <2>2, <2>3
    <2>4. CASE handlers'[h] = Idle
      BY <2>4 DEF Idle, Contributing
    <2>5. ASSUME NEW o \in Contributions, o \in OrdersOf[h], ~HasRow(o),
                 handlers'[h] = [pc |-> "contribute_debit", order |-> o, amount |-> o.amount]
          PROVE  handlers'[h].order = o
      BY <2>5
    <2>6. CASE \E o \in Trades : handlers'[h] = [pc |-> "trade_debit", order |-> o, amount |-> o.amount]
      BY <2>6 DEF Contributing
    <2>7. CASE \E o \in SyncOrder : handlers'[h] = [pc |-> "award", order |-> o, amount |-> 0]
      BY <2>7 DEF Contributing
    <2>8. ASSUME NEW a \in Accounts, NEW s \in Sources, NEW d \in Int, Posts(h, a, s, d),
                 handlers'[h] = [handlers[h] EXCEPT !.pc = Holding[handlers[h].pc]]
          PROVE  /\ handlers[h].pc \in {"contribute_debit", "contribute_record"}
                 /\ handlers'[h].order = handlers[h].order
      <3>1. handlers'[h].pc = Holding[handlers[h].pc] /\ handlers'[h].order = handlers[h].order
        BY <1>1, <2>8 DEF Job
      <3> QED
        BY <2>8, <3>1 DEF Posts, Holding, IsAt, Contributing
    <2>9. ASSUME RecordContribution(h), handlers'[h] = [handlers[h] EXCEPT !.pc = "contribute_count"]
          PROVE  /\ handlers[h].pc \in {"contribute_debit", "contribute_record"}
                 /\ handlers'[h].order = handlers[h].order
      BY <1>1, <2>9 DEF Job, RecordContribution, IsAt
    <2>10. CASE handlers'[h] = [pc |-> "award", order |-> [OrderOf(h) EXCEPT !.todo = @ \ {reply[h].source}],
                                amount |-> 0]
      BY <2>10 DEF Contributing
    <2>11. ASSUME handlers[h].pc \in {"contribute_debit", "contribute_record"},
                  handlers'[h].order = handlers[h].order
           PROVE  /\ handlers'[h].order \in Contributions /\ handlers'[h].order \in OrdersOf[h]
                  /\ ~HasRow(handlers'[h].order)
      BY <2>2, <2>11 DEF Contributing
    <2> QED
      BY <2>1, <2>3, <2>4, <2>5, <2>6, <2>7, <2>8, <2>9, <2>10, <2>11 DEF HandlerMove
  <1> QED
    BY <1>2, OthersStoreOthers

-----------------------------------------------------------------------------
(* What a step does to the sums of a proposal.                              *)

\* The sums are over finite sets of numbers.
LEMMA SummandsAreNumbers ==
  ASSUME SpendingInv, IsFiniteSet(contributions), NEW p \in Proposals
  PROVE  /\ IsFiniteSet(RowsOf(p)) /\ \A row \in RowsOf(p) : -row.entry.delta \in Int
         /\ IsFiniteSet(Uncounted(p)) /\ \A h \in Uncounted(p) : OrderOf(h).amount \in Nat
         /\ Backing(p) \in Int /\ Pending(p) \in Nat
  <1>1. IsFiniteSet(RowsOf(p))
    BY FS_Subset DEF RowsOf
  <1>2. \A row \in RowsOf(p) : -row.entry.delta \in Int
    BY DEF RowsOf, SpendingInv, FundingTypeOK, Entry
  <1>3. IsFiniteSet(Uncounted(p))
    BY HandlersAreClients, FS_Subset DEF Uncounted
  <1>4. \A h \in Uncounted(p) : OrderOf(h).amount \in Nat
    <2>1. \A h \in Uncounted(p) : OrderOf(h) \in Contributions
      BY DEF Uncounted, SpendingInv, HandlersHaveOrders, OfItsKind, IsAt, OrderOf
    <2> QED
      BY <2>1, ContributionTypes
  <1> DEFINE f == [row \in RowsOf(p) |-> -row.entry.delta]
             g == [h \in Uncounted(p) |-> OrderOf(h).amount]
  <1>5. SumFunctionOnSet(f, RowsOf(p)) \in Int
    <2>1. \A row \in RowsOf(p) : f[row] \in Int
      BY <1>2
    <2> HIDE DEF f
    <2> QED
      BY <1>1, <2>1, SumIsInt
  <1>6. SumFunctionOnSet(g, Uncounted(p)) \in Nat
    <2>1. \A h \in Uncounted(p) : g[h] \in Nat
      BY <1>4
    <2> HIDE DEF g
    <2> QED
      BY <1>3, <2>1, SumIsNat
  <1> QED
    BY <1>1, <1>2, <1>3, <1>4, <1>5, <1>6 DEF Backing, Pending, SumFunction

\* Handlers that wait to count go on waiting, and no other begins: the sum is the same.
LEMMA SamePending ==
  ASSUME NEW p, \A h \in Uncounted(p) : handlers'[h] = handlers[h], Uncounted(p)' = Uncounted(p)
  PROVE  Pending(p)' = Pending(p)
  <1>1. [h \in Uncounted(p)' |-> handlers'[h].order.amount] = [h \in Uncounted(p) |-> handlers[h].order.amount]
    OBVIOUS
  <1> QED
    BY <1>1 DEF Pending, OrderOf

\* A step that leaves the contributions alone leaves their sums alone.
LEMMA SameBacking ==
  ASSUME NEW p, UNCHANGED contributions
  PROVE  Backing(p)' = Backing(p)
  <1>1. RowsOf(p)' = RowsOf(p)
    BY DEF RowsOf
  <1> QED
    BY <1>1 DEF Backing

\* One more handler waits to count.
LEMMA PendingGrows ==
  ASSUME SpendingInv, IsFiniteSet(contributions), NEW p \in Proposals, NEW h \in Handlers,
         h \notin Uncounted(p), Uncounted(p)' = Uncounted(p) \cup {h},
         \A g \in Uncounted(p) : handlers'[g] = handlers[g],
         handlers'[h].order = OrderOf(h), OrderOf(h).amount \in Nat
  PROVE  Pending(p)' = Pending(p) + OrderOf(h).amount
  <1> DEFINE f == [g \in Uncounted(p)' |-> handlers'[g].order.amount]
             e == [g \in Uncounted(p) |-> handlers[g].order.amount]
  <1>1. IsFiniteSet(Uncounted(p)) /\ (\A g \in Uncounted(p) : OrderOf(g).amount \in Nat) /\ Pending(p) \in Nat
    BY SummandsAreNumbers
  <1>2. /\ DOMAIN f = Uncounted(p) \cup {h} /\ DOMAIN e = Uncounted(p)
        /\ \A g \in Uncounted(p) : f[g] = e[g] /\ e[g] \in Int
        /\ f[h] = OrderOf(h).amount /\ f[h] \in Int
    BY <1>1 DEF OrderOf
  <1>3. Pending(p)' = SumFunction(f) /\ Pending(p) = SumFunction(e)
    BY DEF Pending, OrderOf
  <1> HIDE DEF f, e
  <1>4. SumFunction(f) = f[h] + SumFunction(e)
    <2>1. PICK D : D = Uncounted(p)
      OBVIOUS
    <2>2. /\ IsFiniteSet(D) /\ h \notin D /\ DOMAIN f = D \cup {h} /\ DOMAIN e = D
          /\ \A g \in D : f[g] = e[g] /\ e[g] \in Int
      BY <1>1, <1>2, <2>1
    <2> QED
      BY <1>2, <2>2, OneMoreSummand
  <1> QED
    BY <1>1, <1>2, <1>3, <1>4

\* A handler that waited has counted.
LEMMA PendingShrinks ==
  ASSUME SpendingInv, IsFiniteSet(contributions), NEW p \in Proposals, NEW h \in Uncounted(p),
         Uncounted(p)' = Uncounted(p) \ {h}, \A g \in Uncounted(p)' : handlers'[g] = handlers[g]
  PROVE  Pending(p) = Pending(p)' + OrderOf(h).amount /\ Pending(p)' \in Int
  <1> DEFINE f == [g \in Uncounted(p) |-> handlers[g].order.amount]
             e == [g \in Uncounted(p)' |-> handlers'[g].order.amount]
  <1>1. IsFiniteSet(Uncounted(p)') /\ \A g \in Uncounted(p) : OrderOf(g).amount \in Nat
    BY SummandsAreNumbers, FS_Subset
  <1>2. /\ DOMAIN f = Uncounted(p)' \cup {h} /\ DOMAIN e = Uncounted(p)' /\ h \notin Uncounted(p)'
        /\ \A g \in Uncounted(p)' : f[g] = e[g] /\ e[g] \in Int
        /\ f[h] = OrderOf(h).amount /\ f[h] \in Int
    BY <1>1 DEF OrderOf
  <1>3. Pending(p)' = SumFunction(e) /\ Pending(p) = SumFunction(f)
    BY DEF Pending, OrderOf
  <1>4. PICK D : D = Uncounted(p)'
    OBVIOUS
  <1> HIDE DEF f, e
  <1>5. SumFunction(f) = f[h] + SumFunction(e) /\ SumFunction(e) \in Int
    BY <1>1, <1>2, <1>4, OneMoreSummand
  <1> QED
    BY <1>2, <1>3, <1>5

\* Some handlers that waited will not count.
LEMMA PendingDrops ==
  ASSUME SpendingInv, IsFiniteSet(contributions), NEW p \in Proposals,
         Uncounted(p)' \subseteq Uncounted(p), \A g \in Uncounted(p)' : handlers'[g] = handlers[g]
  PROVE  Pending(p)' <= Pending(p) /\ Pending(p)' \in Nat
  <1> DEFINE f == [g \in Uncounted(p) |-> handlers[g].order.amount]
             e == [g \in Uncounted(p)' |-> handlers'[g].order.amount]
  <1>1. IsFiniteSet(Uncounted(p)) /\ \A g \in Uncounted(p) : OrderOf(g).amount \in Nat
    BY SummandsAreNumbers
  <1>2. /\ DOMAIN f = Uncounted(p) /\ DOMAIN e = Uncounted(p)'
        /\ \A g \in DOMAIN f : f[g] \in Nat
        /\ \A g \in DOMAIN e : f[g] = e[g]
    BY <1>1 DEF OrderOf
  <1>3. Pending(p)' = SumFunction(e) /\ Pending(p) = SumFunction(f)
    BY DEF Pending, OrderOf
  <1> HIDE DEF f, e
  <1>4. SumFunction(e) <= SumFunction(f) /\ SumFunction(e) \in Nat
    BY <1>1, <1>2, FewerSummands
  <1> QED
    BY <1>3, <1>4

\* A new row of a proposal backs it with what its entry was debited.
LEMMA BackingGrows ==
  ASSUME SpendingInv, IsFiniteSet(contributions), NEW p \in Proposals, NEW row, row \notin contributions,
         contributions' = contributions \cup {row}, row.entry.delta \in Int
  PROVE  /\ Backing(p) \in Int
         /\ row.order.proposal = p => Backing(p)' = Backing(p) + (-row.entry.delta)
         /\ row.order.proposal # p => Backing(p)' = Backing(p)
  <1> DEFINE f == [r \in RowsOf(p)' |-> -r.entry.delta]
             e == [r \in RowsOf(p) |-> -r.entry.delta]
  <1>1. IsFiniteSet(RowsOf(p)) /\ (\A r \in RowsOf(p) : -r.entry.delta \in Int) /\ Backing(p) \in Int
    BY SummandsAreNumbers
  <1>2. Backing(p)' = SumFunction(f) /\ Backing(p) = SumFunction(e)
    BY DEF Backing
  <1>3. CASE row.order.proposal = p
    <2>1. RowsOf(p)' = RowsOf(p) \cup {row} /\ row \notin RowsOf(p)
      BY <1>3 DEF RowsOf
    <2>2. /\ DOMAIN f = RowsOf(p) \cup {row} /\ DOMAIN e = RowsOf(p)
          /\ \A r \in RowsOf(p) : f[r] = e[r] /\ e[r] \in Int
          /\ f[row] = -row.entry.delta /\ f[row] \in Int
      BY <1>1, <2>1
    <2> HIDE DEF f, e
    <2>3. SumFunction(f) = f[row] + SumFunction(e)
      <3>1. PICK D, x, k, m : D = RowsOf(p) /\ x = row /\ k = f /\ m = e
        OBVIOUS
      <3>2. /\ IsFiniteSet(D) /\ x \notin D /\ DOMAIN k = D \cup {x} /\ DOMAIN m = D
            /\ k[x] \in Int
        BY <1>1, <2>1, <2>2, <3>1
      <3>3. \A y \in D : k[y] = m[y] /\ m[y] \in Int
        BY <2>2, <3>1
      <3>4. SumFunction(k) = k[x] + SumFunction(m)
        BY <3>2, <3>3, OneMoreSummand
      <3> QED
        BY <3>1, <3>4
    <2> QED
      BY <1>1, <1>2, <1>3, <2>2, <2>3
  <1>4. CASE row.order.proposal # p
    <2>1. RowsOf(p)' = RowsOf(p)
      BY <1>4 DEF RowsOf
    <2>2. f = e
      BY <2>1
    <2> QED
      BY <1>1, <1>2, <1>4, <2>2
  <1> QED
    BY <1>3, <1>4

-----------------------------------------------------------------------------
(* The counter and its backing.                                             *)

\* A handler that stores its row backs its proposal with the amount it will count.
LEMMA StoringBacks ==
  ASSUME SpendingInv, EntriesAreOrdered, EntriesAreAnswered, FundingInv, [SpendingNext]_spendingVars,
         NEW h \in Handlers, RecordContribution(h), NEW p \in Proposals
  PROVE  /\ IsFiniteSet(contributions')
         /\ OrderOf(h).proposal = p =>
              /\ Pending(p)' = Pending(p) + OrderOf(h).amount
              /\ Backing(p)' = Backing(p) + OrderOf(h).amount
              /\ OrderOf(h).amount \in Nat
         /\ OrderOf(h).proposal # p => Pending(p)' = Pending(p) /\ Backing(p)' = Backing(p)
  <1>1. handlers[h].pc = "contribute_record" /\ handlers \in [Handlers -> Job] /\ OfItsKind(handlers[h])
    BY DEF RecordContribution, IsAt, SpendingInv, HandlersHaveOrders
  <1>2. PICK o \in Contributions : o = OrderOf(h)
    BY <1>1 DEF OfItsKind, OrderOf
  <1>3. o.amount \in Nat
    BY ContributionTypes
  <1>4. reply[h].entry.delta = -o.amount
    <2>1. SourceOf(h) = ContributionSource(o)
      BY <1>1, <1>2 DEF SourceOf, SourceAt, OrderOf
    <2>2. Recorded(o.account, ContributionSource(o))
          /\ reply[h].entry = RecordedEntry(o.account, ContributionSource(o))
      BY <1>1, <1>2, <2>1 DEF EntriesAreAnswered, HoldsEntry
    <2> QED
      BY <2>2 DEF EntriesAreOrdered
  <1>5. PICK row : row = [order |-> o, entry |-> reply[h].entry]
    OBVIOUS
  <1>6. row \notin contributions /\ contributions' = contributions \cup {row}
    <2>1. ~HasRow(o)
      BY <1>1, <1>2 DEF FundingInv, ContributesAlone
    <2> QED
      BY <1>2, <1>5, <2>1 DEF RecordContribution, HasRow, SameRow
  <1>7. row.order = o /\ row.entry.delta = -o.amount /\ row.entry.delta \in Int /\ -row.entry.delta = o.amount
    BY <1>3, <1>4, <1>5
  <1>8. IsFiniteSet(contributions) /\ IsFiniteSet(contributions')
    BY <1>6, FS_AddElement DEF FundingInv
  <1>9. handlers' = [handlers EXCEPT ![h].pc = "contribute_count"]
    BY DEF RecordContribution, GoTo
  <1>10. /\ handlers'[h].pc = "contribute_count" /\ handlers'[h].order = o
         /\ \A g \in Handlers : g # h => handlers'[g] = handlers[g]
    BY <1>1, <1>2, <1>9 DEF Job, OrderOf
  <1>11. CASE o.proposal = p
    <2>1. h \notin Uncounted(p) /\ Uncounted(p)' = Uncounted(p) \cup {h}
      BY <1>1, <1>10, <1>11 DEF Uncounted, IsAt, OrderOf
    <2>2. \A g \in Uncounted(p) : handlers'[g] = handlers[g]
      BY <1>10, <2>1 DEF Uncounted
    <2>3. Pending(p)' = Pending(p) + o.amount
      BY <1>2, <1>3, <1>8, <1>10, <2>1, <2>2, PendingGrows
    <2>4. Backing(p)' = Backing(p) + o.amount
      BY <1>6, <1>7, <1>8, <1>11, BackingGrows
    <2> QED
      BY <1>2, <1>3, <1>8, <1>11, <2>3, <2>4
  <1>12. CASE o.proposal # p
    <2>1. Uncounted(p)' = Uncounted(p) /\ \A g \in Uncounted(p) : handlers'[g] = handlers[g]
      BY <1>1, <1>10, <1>12 DEF Uncounted, IsAt, OrderOf
    <2>2. Pending(p)' = Pending(p)
      BY <2>1, SamePending
    <2>3. Backing(p)' = Backing(p)
      BY <1>6, <1>7, <1>8, <1>12, BackingGrows
    <2> QED
      BY <1>2, <1>8, <1>12, <2>2, <2>3
  <1> QED
    BY <1>11, <1>12

\* A handler that counts moves its amount to the counter.
LEMMA CountingMoves ==
  ASSUME SpendingInv, IsFiniteSet(contributions),
         NEW h \in Handlers, CountContribution(h), NEW p \in Proposals
  PROVE  \/ proposals'[p].contributed = proposals[p].contributed /\ Pending(p)' = Pending(p)
         \/ \E n \in Nat : /\ proposals'[p].contributed = proposals[p].contributed + n
                           /\ Pending(p) = Pending(p)' + n /\ Pending(p)' \in Int
  <1>1. PICK o \in Contributions :
          /\ o = OrderOf(h) /\ handlers[h].pc = "contribute_count"
          /\ o.proposal \in Proposals /\ o.amount \in Nat \ {0}
          /\ proposals' = [proposals EXCEPT ![o.proposal] =
                             Funded(o.proposal, proposals[o.proposal].contributed + o.amount)]
    BY CountingCounts
  <1>2. /\ handlers \in [Handlers -> Job] /\ handlers' = [handlers EXCEPT ![h] = Idle]
        /\ proposals \in [Proposals -> [status : {"none", "funding", "ready_to_birth"}, contributed : Nat]]
    BY DEF CountContribution, Leave, SpendingInv, HandlersHaveOrders, FundingTypeOK
  <1>3. handlers'[h].pc = "idle" /\ \A g \in Handlers : g # h => handlers'[g] = handlers[g]
    BY <1>2 DEF Idle
  <1>4. CASE o.proposal = p
    <2>1. h \in Uncounted(p) /\ Uncounted(p)' = Uncounted(p) \ {h}
          /\ \A g \in Uncounted(p)' : handlers'[g] = handlers[g]
      BY <1>1, <1>3, <1>4 DEF Uncounted, IsAt, OrderOf
    <2>2. Pending(p) = Pending(p)' + o.amount /\ Pending(p)' \in Int
      BY <1>1, <2>1, PendingShrinks
    <2>3. proposals'[p].contributed = proposals[p].contributed + o.amount
      BY <1>1, <1>2, <1>4 DEF Funded
    <2> QED
      BY <1>1, <2>2, <2>3
  <1>5. CASE o.proposal # p
    <2>1. Uncounted(p)' = Uncounted(p) /\ \A g \in Uncounted(p) : handlers'[g] = handlers[g]
      BY <1>1, <1>3, <1>5 DEF Uncounted, IsAt, OrderOf
    <2>2. proposals'[p] = proposals[p]
      BY <1>1, <1>2, <1>5
    <2> QED
      BY <2>1, <2>2, SamePending
  <1> QED
    BY <1>4, <1>5

LEMMA StepKeepsFunding ==
  ASSUME KeysAreExclusive, SpendingInv, EntriesAreOrdered, EntriesAreAnswered, FundingInv,
         [SpendingNext]_spendingVars
  PROVE  FundingInv'
  <1>1. IsFiniteSet(contributions) /\ crashes \in Nat /\ ContributesAlone'
    BY StepKeepsAlone, CrashBound DEF FundingInv, SpendingInv
  <1>2. ASSUME NEW p \in Proposals
        PROVE  /\ proposals[p].contributed \in Nat /\ Backing(p) \in Int /\ Pending(p) \in Nat
               /\ proposals[p].contributed + Pending(p) <= Backing(p)
               /\ crashes = 0 => proposals[p].contributed + Pending(p) = Backing(p)
    BY <1>1, SummandsAreNumbers DEF FundingInv, FundingIsBacked, SpendingInv, FundingTypeOK
  <1> DEFINE Kept(p) == /\ proposals'[p].contributed + Pending(p)' <= Backing(p)'
                        /\ crashes' = 0 => proposals'[p].contributed + Pending(p)' = Backing(p)'
  <1>3. ASSUME NEW h \in Handlers, RecordContribution(h), UNCHANGED <<proposals, crashes>>
        PROVE  IsFiniteSet(contributions') /\ \A p \in Proposals : Kept(p)
    <2>1. IsFiniteSet(contributions') \/ Proposals = {}
      BY <1>3, StoringBacks
    <2>2. Proposals # {}
      BY <1>3, ContributionTypes DEF RecordContribution, SpendingInv, HandlersHaveOrders, OfItsKind, IsAt
    <2>3. ASSUME NEW p \in Proposals
          PROVE  Kept(p)
      <3>1. CASE OrderOf(h).proposal = p
        <4>1. PICK n \in Nat : Pending(p)' = Pending(p) + n /\ Backing(p)' = Backing(p) + n
          BY <1>3, <3>1, StoringBacks
        <4> QED
          BY <1>2, <1>3, <4>1
      <3>2. CASE OrderOf(h).proposal # p
        <4>1. Pending(p)' = Pending(p) /\ Backing(p)' = Backing(p)
          BY <1>3, <3>2, StoringBacks
        <4> QED
          BY <1>2, <1>3, <4>1
      <3> QED
        BY <3>1, <3>2
    <2> QED
      BY <2>1, <2>2, <2>3
  <1>4. ASSUME NEW h \in Handlers, CountContribution(h), UNCHANGED <<contributions, crashes>>, NEW p \in Proposals
        PROVE  Kept(p)
    <2>1. Backing(p)' = Backing(p)
      BY <1>4, SameBacking
    <2>2. CASE proposals'[p].contributed = proposals[p].contributed /\ Pending(p)' = Pending(p)
      BY <1>2, <1>4, <2>1, <2>2
    <2>3. ASSUME NEW n \in Nat, proposals'[p].contributed = proposals[p].contributed + n,
                 Pending(p) = Pending(p)' + n, Pending(p)' \in Int
          PROVE  Kept(p)
      <3>1. proposals'[p].contributed + Pending(p)' = proposals[p].contributed + Pending(p)
        BY <1>2, <2>3
      <3> QED
        BY <1>2, <1>4, <2>1, <3>1
    <2> QED
      BY <1>1, <1>4, <2>2, <2>3, CountingMoves
  <1>5. ASSUME ServerCrash, NEW p \in Proposals
        PROVE  Kept(p)
    <2>1. handlers \in [Handlers -> Job] /\ UNCHANGED fundingVars
          /\ \A g \in Handlers : handlers'[g] = handlers[g] \/ handlers'[g] = Idle
      BY <1>5 DEF ServerCrash, Crash, Leave, SpendingInv, HandlersHaveOrders
    <2>2. Idle.pc # "contribute_count"
      BY DEF Idle
    <2>3. Uncounted(p)' \subseteq Uncounted(p) /\ \A g \in Uncounted(p)' : handlers'[g] = handlers[g]
      BY <2>1, <2>2 DEF Uncounted, IsAt, OrderOf
    <2>4. Pending(p)' <= Pending(p) /\ Pending(p)' \in Nat
      BY <1>1, <2>3, PendingDrops
    <2>5. Backing(p)' = Backing(p) /\ UNCHANGED proposals
      BY <2>1, SameBacking DEF fundingVars
    <2>6. crashes' # 0
      BY <1>1, <1>5 DEF ServerCrash, Crash
    <2> QED
      BY <1>2, <2>4, <2>5, <2>6
  <1>6. ASSUME Quiet, NEW p \in Proposals
        PROVE  Kept(p)
    <2>1. Uncounted(p)' = Uncounted(p) /\ \A g \in Uncounted(p) : handlers'[g] = handlers[g]
      BY <1>6 DEF Quiet, Uncounted, IsAt, OrderOf
    <2>2. Pending(p)' = Pending(p) /\ Backing(p)' = Backing(p)
      BY <1>6, <2>1, SamePending, SameBacking DEF Quiet
    <2> QED
      BY <1>2, <1>6, <2>2 DEF Quiet
  <1>7. IsFiniteSet(contributions') /\ \A p \in Proposals : Kept(p)
    <2>1. CASE UNCHANGED contributions
      BY <1>1, <1>3, <1>4, <1>5, <1>6, <2>1, FundingSteps
    <2>2. CASE ~UNCHANGED contributions
      BY <1>3, <2>2, FundingSteps DEF ServerCrash, fundingVars, Quiet
    <2> QED
      BY <2>1, <2>2
  <1> QED
    BY <1>1, <1>7 DEF FundingInv, FundingIsBacked

\* A proposal's counter, with what is about to be counted, is what its rows were
\* debited, and less only after a crash: if a key names one amount, and no two
\* handlers work for one key of a proposal at a time.
THEOREM CountersAreBacked ==
  ASSUME KeysNameAmounts, KeysAreExclusive
  PROVE  SpendingSpec => []FundingIsBacked
  <1>1. SpendingInit => FundingInv
    <2> SUFFICES ASSUME SpendingInit PROVE FundingInv
      OBVIOUS
    <2>1. contributions = {} /\ \A h \in Handlers : handlers[h].pc = "idle"
      BY DEF SpendingInit, FundingInit, Idle
    <2>2. IsFiniteSet(contributions) /\ ContributesAlone
      BY <2>1, FS_EmptySet DEF ContributesAlone, Contributing
    <2>3. ASSUME NEW p \in Proposals
          PROVE  proposals[p].contributed = 0 /\ Backing(p) = 0 /\ Pending(p) = 0
      <3>1. RowsOf(p) = {} /\ Uncounted(p) = {}
        BY <2>1 DEF RowsOf, Uncounted, IsAt
      <3>2. \A f : DOMAIN f = {} => SumFunction(f) = 0
        BY FS_EmptySet, SumEquation DEF SumFunction
      <3> QED
        BY <3>1, <3>2 DEF Backing, Pending, SpendingInit, FundingInit
    <2> QED
      BY <2>2, <2>3 DEF FundingInv, FundingIsBacked
  <1>2. SpendingInv /\ EntriesAreOrdered /\ EntriesAreAnswered /\ FundingInv /\ [SpendingNext]_spendingVars
          => FundingInv'
    BY StepKeepsFunding
  <1>3. FundingInv => FundingIsBacked
    BY DEF FundingInv
  <1>4. SpendingInit => EntriesAreOrdered
    <2> SUFFICES ASSUME SpendingInit PROVE EntriesAreOrdered
      OBVIOUS
    <2>1. \A a \in Accounts, s \in Sources : ~Recorded(a, s)
      BY DEF SpendingInit, Init, Recorded
    <2> QED
      BY <2>1, ContributionTypes, TradeTypes, CheckinTypes DEF EntriesAreOrdered
  <1>5. SpendingInv /\ EntriesAreOrdered /\ [SpendingNext]_spendingVars => EntriesAreOrdered'
    BY StepKeepsOrdered
  <1> QED
    BY <1>1, <1>2, <1>3, <1>4, <1>5, SpendingInvariant, EntriesAnswered, PTL DEF SpendingSpec
=============================================================================
