------------------------------ MODULE ResidentTrades ------------------------------
(***************************************************************************)
(* Offers to residents: createResidentTrade of the Postgres store.  The    *)
(* trade's row is looked up by key, the offer debited, the row stored.     *)
(***************************************************************************)
EXTENDS RequestHandlers

CONSTANT Trades    \* orders: [user, account, key, amount]; AP or GP

VARIABLE trades    \* resident_trades: the rows, each with its ledger entry

TradesTypeOK == \A row \in trades : row.order \in Trades /\ row.entry \in Entry

TradesInit == trades = {}

TradeSource(o) == <<"resident_trade", o.key>>

ASSUME TradeTypes ==
  \A o \in Trades :
    o.account \in Accounts /\ o.amount \in Nat \ {0} /\ TradeSource(o) \in Sources

\* The unique index on (city_user_id, idempotency_key), whatever the resource.
HasTrade(o) ==
  \E row \in trades : row.order.user = o.user /\ row.order.key = o.key

Trade(h, o) ==
  /\ ~HasTrade(o)
  /\ Enter(h, "trade_debit", o, o.amount)
  /\ UNCHANGED <<ledgerVars, trades>>

\* Slip: a refused offer is stored all the same, on whatever entry there is.
TradeDebitUnchecked(h) ==
  /\ IsAt(h, "trade_debit")
  /\ AppendPointLedger(h, OrderOf(h).account, TradeSource(OrderOf(h)), -OrderOf(h).amount)
  /\ GoTo(h, "trade_record")
  /\ UNCHANGED <<crashes, trades>>

TradeDebit(h) ==
  /\ IsAt(h, "trade_debit")
  /\ PostThen(h, "trade_record", OrderOf(h).account, TradeSource(OrderOf(h)), -OrderOf(h).amount)
  /\ UNCHANGED <<crashes, trades>>

RecordTrade(h) ==
  /\ IsAt(h, "trade_record")
  /\ trades' = IF HasTrade(OrderOf(h)) THEN trades
               ELSE trades \cup {[order |-> OrderOf(h), entry |-> reply[h].entry]}
  /\ Leave(h)
  /\ UNCHANGED <<ledgerVars, crashes>>

RunTrade(h) == TradeDebit(h) \/ RecordTrade(h)
=============================================================================
