------------------------------- MODULE CitySpending -------------------------------
(***************************************************************************)
(* Earning and spending points in one city: check-in awards, admin grants, *)
(* soul contributions and trades run as concurrent requests over one point *)
(* ledger, and the server may crash between any two of their store calls.  *)
(***************************************************************************)
EXTENDS SoulFunding, ResidentTrades, CheckinAwards

CONSTANT OrdersOf    \* the orders the callers of each handler post

spendingVars == <<ledgerVars, handlerVars, fundingVars, trades, awardVars>>

Steps == {"idle", "contribute_debit", "contribute_record", "contribute_count",
          "trade_debit", "trade_record", "award", "audit"}

HandlersTypeOK ==
  \A h \in Handlers :
    /\ handlers[h].pc \in Steps
    /\ handlers[h].amount \in Nat
    /\ IsAt(h, "idle") <=> OrderOf(h) = NoOrder

SpendingTypeOK ==
  /\ TypeOK
  /\ HandlersTypeOK
  /\ crashes \in 0..MaxCrashes
  /\ FundingTypeOK /\ TradesTypeOK /\ AwardsTypeOK

SpendingInit ==
  /\ Init
  /\ handlers = [h \in Handlers |-> Idle]
  /\ crashes = 0
  /\ FundingInit /\ TradesInit /\ AwardsInit

-----------------------------------------------------------------------------
\* What the requests of one component leave alone.
BesidesFunding == UNCHANGED <<trades, awardVars>>
BesidesTrades == UNCHANGED <<fundingVars, awardVars>>
BesidesAwards == UNCHANGED <<fundingVars, trades>>

Request(h) ==
  \/ \E o \in OrdersOf[h] \cap Contributions : Contribute(h, o) /\ BesidesFunding
  \/ \E o \in OrdersOf[h] \cap Trades : Trade(h, o) /\ BesidesTrades
  \/ \E o \in OrdersOf[h] \cap Syncs : SyncLandingCheckins(h, o) /\ BesidesAwards

Run(h) ==
  \/ RunContribution(h) /\ BesidesFunding
  \/ RunTrade(h) /\ BesidesTrades
  \/ RunSync(h) /\ BesidesAwards

\* Requests of one store call, and what happens outside the server.
OneStep ==
  \/ \E p \in Proposals : CreateSoulProposal(p) /\ BesidesFunding
  \/ \E k \in Checkins : CheckIn(k) /\ BesidesAwards

OrderSources ==
  {ContributionSource(o) : o \in Contributions} \cup {TradeSource(o) : o \in Trades} \cup Checkins

ASSUME OrdersAreApart ==
  /\ Contributions \cap Trades = {}
  /\ NoOrder \notin Contributions \cup Trades \cup SyncOrder
  /\ \A o \in Contributions : ContributionSource(o) \notin Checkins
  /\ \A o \in Trades : TradeSource(o) \notin Checkins

\* A key of an account names one amount of a contribution, and one of a trade.
KeysNameAmounts ==
  /\ \A o, x \in Contributions : o.account = x.account /\ o.key = x.key => o.amount = x.amount
  /\ \A o, x \in Trades : o.account = x.account /\ o.key = x.key => o.amount = x.amount

\* A key names one order of its account and its user: a retry repeats the whole
\* request.
KeysNameOrders ==
  /\ \A o, x \in Contributions : o.account = x.account /\ o.key = x.key => o = x
  /\ \A o, x \in Trades :
       (o.account = x.account \/ o.user = x.user) /\ o.key = x.key => o = x

\* No two handlers work for one key of a proposal and its account at a time.
KeysAreExclusive ==
  \A g, h \in Handlers :
    g # h => \A o \in OrdersOf[g] \cap Contributions, x \in OrdersOf[h] \cap Contributions :
               ~(o.proposal = x.proposal /\ o.account = x.account /\ o.key = x.key)

\* The admin's grants and adjustments: one posting, under a source of its own.
AdminPosting(c, a, s, d) ==
  /\ c \notin Handlers
  /\ s \notin OrderSources
  /\ AppendPointLedger(c, a, s, d)
  /\ UNCHANGED <<handlerVars, fundingVars, trades, awardVars>>

ServerCrash == Crash /\ UNCHANGED <<fundingVars, trades, awardVars>>

SpendingNext ==
  \/ \E h \in Handlers : Request(h) \/ Run(h)
  \/ OneStep
  \/ \E c \in Clients, a \in Accounts, s \in Sources, d \in Deltas : AdminPosting(c, a, s, d)
  \/ ServerCrash

SpendingSpec == SpendingInit /\ [][SpendingNext]_spendingVars

-----------------------------------------------------------------------------
\* Whatever the city gives or takes in has an entry of the ledger that paid for
\* it: the row of a contribution, a trade or a check-in names an entry
\* of that order's account and amount, and stays true for good.
RowsArePaid ==
  /\ \A row \in contributions \cup trades :
       InLedger(row.order.account, row.entry) /\ row.entry.delta = -row.order.amount
  /\ \A row \in audited :
       \E a \in Accounts : InLedger(a, row.entry) /\ row.entry.delta = Award[row.checkin]

Stored(o) == \E row \in contributions \cup trades : row.order = o

Storing(o) ==
  \E h \in Handlers : OrderOf(h) = o /\ handlers[h].pc \in {"contribute_record", "trade_record"}

\* Orders of contributions and trades that were debited and not stored, with no
\* handler on its way to store them.
Lost ==
  {o \in Contributions : Recorded(o.account, ContributionSource(o)) /\ ~Stored(o) /\ ~Storing(o)}
    \cup {o \in Trades : Recorded(o.account, TradeSource(o)) /\ ~Stored(o) /\ ~Storing(o)}

\* Points leave an account only for something that is recorded: unless the server
\* died between a debit and its row, every debited contribution and trade is
\* stored or being stored, and a crash loses at most what was running.
DebitsHaveRows == Cardinality(Lost) <= crashes * Cardinality(Handlers)

\* A sync repairs what earlier ones left undone: when one comes to its end, every
\* check-in landing listed for it has its points and its audit row, the ones
\* included that a crash cut off between the two, whatever other syncs do meanwhile.
SyncRepairs ==
  [][\A h \in Handlers :
       IsAt(h, "audit") /\ handlers'[h].pc = "idle" /\ crashes' = crashes =>
         \A k \in OrderOf(h).listed :
           Recorded(OrderOf(h).account, k) /\ \E row \in audited' : row.checkin = k]_spendingVars
=============================================================================
