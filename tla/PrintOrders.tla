------------------------------- MODULE PrintOrders -------------------------------
(***************************************************************************)
(* 3D print requests up to the queue: createPrintRequest, the admin's      *)
(* updatePrintQuote and enqueuePrintRequest, and the owner's               *)
(* confirmPrintGp, of the Postgres store.  A confirmation reads the        *)
(* request, debits the quote it read, and stores the entry, one statement  *)
(* each; an admin's statements come in between.                            *)
(***************************************************************************)
EXTENDS RequestHandlers

CONSTANTS
  PrintRequests,
  Quotes,            \* GP prices the admin sets
  Confirmations,     \* orders: [account, request, key]
  Enqueues,          \* orders: [request]
  OrdersOf,          \* the orders the callers of each handler post
  MaxJobs,           \* bound: jobs of a request
  NoQuote

VARIABLES
  prints,      \* print_requests: status, quote_gp, gp_ledger_entry_id
  offered,     \* every quote a request has had
  jobs         \* print_queue: how many jobs were inserted for each request

printVars == <<prints, offered, jobs>>

PrintStatuses == {"none", "draft", "quoted", "paid", "queued"}

PrintsTypeOK ==
  /\ prints \in [PrintRequests -> [status : PrintStatuses,
                                   quote : Quotes \cup {NoQuote},
                                   entry : Entry \cup {NoEntry}]]
  /\ offered \in [PrintRequests -> SUBSET Quotes]
  /\ jobs \in [PrintRequests -> 0..MaxJobs]

PrintsInit ==
  /\ prints = [r \in PrintRequests |-> [status |-> "none", quote |-> NoQuote, entry |-> NoEntry]]
  /\ offered = [r \in PrintRequests |-> {}]
  /\ jobs = [r \in PrintRequests |-> 0]

PrintSource(o) == <<"print_request", o.key>>

ASSUME PrintOrderTypes ==
  /\ \A o \in Confirmations :
       o.account \in Accounts /\ o.request \in PrintRequests /\ PrintSource(o) \in Sources
  /\ \A o \in Enqueues : o.request \in PrintRequests

ASSUME PrintNumbers == Quotes \subseteq Nat \ {0} /\ MaxJobs \in Nat

ASSUME PrintMarkersAreApart == NoOrder \notin Confirmations \cup Enqueues /\ NoQuote \notin Quotes

\* A user's key is used for one request: the dashboard makes up a key for every
\* confirmation, and the key of one that has none names the request.
KeysNameRequests ==
  \A o, x \in Confirmations :
    o.account = x.account /\ o.key = x.key => o.request = x.request

CreatePrintRequest(r) ==
  /\ prints[r].status = "none"
  /\ prints' = [prints EXCEPT ![r].status = "draft"]
  /\ UNCHANGED <<ledgerVars, handlerVars, offered, jobs>>

\* The admin may quote at any time, a paid or queued request too.
UpdatePrintQuote(r, q) ==
  /\ prints[r].status # "none"
  /\ prints' = [prints EXCEPT ![r].quote = q, ![r].status = "quoted"]
  /\ offered' = [offered EXCEPT ![r] = @ \cup {q}]
  /\ UNCHANGED <<ledgerVars, handlerVars, jobs>>

\* Slip: the payment stored for the request is not looked at.
ConfirmAgain(h, o) ==
  /\ prints[o.request].quote # NoQuote
  /\ Enter(h, "print_debit", o, prints[o.request].quote)
  /\ UNCHANGED <<ledgerVars, printVars>>

\* Slip: the status changes before the debit that can still be refused.
ConfirmPaid(h, o) ==
  /\ prints[o.request].quote # NoQuote
  /\ prints[o.request].entry = NoEntry
  /\ prints' = [prints EXCEPT ![o.request].status = "paid"]
  /\ Enter(h, "print_debit", o, prints[o.request].quote)
  /\ UNCHANGED <<ledgerVars, offered, jobs>>

\* A request without a quote is refused; a paid one answers with its entry.
ConfirmPrintGp(h, o) ==
  /\ prints[o.request].quote # NoQuote
  /\ prints[o.request].entry = NoEntry
  /\ Enter(h, "print_debit", o, prints[o.request].quote)
  /\ UNCHANGED <<ledgerVars, printVars>>

PrintDebit(h) ==
  /\ IsAt(h, "print_debit")
  /\ PostThen(h, "print_record", OrderOf(h).account, PrintSource(OrderOf(h)), -handlers[h].amount)
  /\ UNCHANGED <<crashes, printVars>>

\* Slip: the payment is stored on a request that is still quoted.
RecordIfQuoted(h) ==
  LET r == OrderOf(h).request
  IN  /\ IsAt(h, "print_record")
      /\ prints' = IF prints[r].status = "quoted"
                   THEN [prints EXCEPT ![r].entry = reply[h].entry, ![r].status = "paid"]
                   ELSE prints
      /\ Leave(h)
      /\ UNCHANGED <<ledgerVars, crashes, offered, jobs>>

\* The payment's entry replaces whatever is stored, and so does its status.
RecordPayment(h) ==
  LET r == OrderOf(h).request
  IN  /\ IsAt(h, "print_record")
      /\ prints' = [prints EXCEPT ![r].entry = reply[h].entry, ![r].status = "paid"]
      /\ Leave(h)
      /\ UNCHANGED <<ledgerVars, crashes, offered, jobs>>

\* The admin queues a request, whatever its status and as often as he likes:
\* the job, then the request's status.
EnqueuePrintRequest(h, o) ==
  /\ prints[o.request].status # "none"
  /\ jobs[o.request] < MaxJobs
  /\ jobs' = [jobs EXCEPT ![o.request] = @ + 1]
  /\ Enter(h, "mark_queued", o, 0)
  /\ UNCHANGED <<ledgerVars, prints, offered>>

\* Slip: the request is given the status of its job.
MarkClaimed(h) ==
  /\ IsAt(h, "mark_queued")
  /\ prints' = [prints EXCEPT ![OrderOf(h).request].status = "claimed"]
  /\ Leave(h)
  /\ UNCHANGED <<ledgerVars, crashes, offered, jobs>>

MarkQueued(h) ==
  /\ IsAt(h, "mark_queued")
  /\ prints' = [prints EXCEPT ![OrderOf(h).request].status = "queued"]
  /\ Leave(h)
  /\ UNCHANGED <<ledgerVars, crashes, offered, jobs>>

RunPrint(h) == PrintDebit(h) \/ RecordPayment(h) \/ MarkQueued(h)

-----------------------------------------------------------------------------
ordersVars == <<ledgerVars, handlerVars, printVars>>

OrdersTypeOK ==
  /\ TypeOK
  /\ \A h \in Handlers :
       /\ handlers[h].pc \in {"idle", "print_debit", "print_record", "mark_queued"}
       /\ handlers[h].amount \in Nat
       /\ IsAt(h, "idle") <=> OrderOf(h) = NoOrder
  /\ crashes \in 0..MaxCrashes
  /\ PrintsTypeOK

OrdersInit ==
  /\ Init
  /\ handlers = [h \in Handlers |-> Idle]
  /\ crashes = 0
  /\ PrintsInit

\* The admin's grants and whatever else moves the owner's GP.
OtherPosting(c, a, s, d) ==
  /\ c \notin Handlers
  /\ s \notin {PrintSource(o) : o \in Confirmations}
  /\ AppendPointLedger(c, a, s, d)
  /\ UNCHANGED <<handlerVars, printVars>>

OrdersNext ==
  \/ \E r \in PrintRequests : CreatePrintRequest(r) \/ \E q \in Quotes : UpdatePrintQuote(r, q)
  \/ \E h \in Handlers :
       \/ \E o \in OrdersOf[h] \cap Confirmations : ConfirmPrintGp(h, o)
       \/ \E o \in OrdersOf[h] \cap Enqueues : EnqueuePrintRequest(h, o)
       \/ RunPrint(h)
  \/ \E c \in Clients, a \in Accounts, s \in Sources, d \in Deltas : OtherPosting(c, a, s, d)
  \/ Crash /\ UNCHANGED printVars

OrdersSpec == OrdersInit /\ [][OrdersNext]_ordersVars

\* A request the server took on runs until it is answered.
OrdersFairSpec == OrdersSpec /\ \A h \in Handlers : WF_ordersVars(RunPrint(h))

-----------------------------------------------------------------------------
\* A request shows a payment only when the ledger has it: a debit of one of the
\* request's own confirmations, of a price it was offered at some time.  A request
\* in status paid has one.
PaymentsAreReal ==
  \A r \in PrintRequests :
    /\ prints[r].status = "paid" => prints[r].entry # NoEntry
    /\ prints[r].entry # NoEntry =>
         \E o \in Confirmations :
           /\ o.request = r
           /\ InLedger(o.account, prints[r].entry)
           /\ prints[r].entry.source = PrintSource(o)
           /\ -prints[r].entry.delta \in offered[r]

Debits(r) == {o \in Confirmations : o.request = r /\ Recorded(o.account, PrintSource(o))}

Paying(r) == {h \in Handlers : IsAt(h, "print_debit") /\ OrderOf(h).request = r}

\* A paid request is never charged again: once a payment is stored and no debit is
\* under way, no confirmation of any tab, requote or enqueueing leads to another.
PaidForGood ==
  [][\A r \in PrintRequests :
       prints[r].entry # NoEntry /\ Paying(r) = {} =>
         prints'[r].entry # NoEntry /\ Paying(r)' = {} /\ Debits(r)' = Debits(r)]_ordersVars

\* A debited confirmation ends with a payment shown on the request, whatever the
\* admin quotes or queues meanwhile, unless the server dies in between.
DebitIsShown ==
  \A o \in Confirmations :
    Recorded(o.account, PrintSource(o)) ~> (prints[o.request].entry # NoEntry \/ crashes > 0)
=============================================================================
