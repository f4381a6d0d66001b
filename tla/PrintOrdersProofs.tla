--------------------------- MODULE PrintOrdersProofs ---------------------------
(***************************************************************************)
(* Proofs about PrintOrders for any handlers, requests, quotes and orders, *)
(* and any number of crashes.  A payment a request shows is an entry of    *)
(* the ledger that was posted for it: a price travels from the quote into  *)
(* the handler that confirms, from there into the ledger, and from the     *)
(* ledger's answer into the request, while admins quote and queue.         *)
(***************************************************************************)
EXTENDS PrintOrders, PointLedgerProofs

\* A handler, and what the work it is at says of its order.
PrintHandler ==
  [pc : {"idle", "print_debit", "print_record", "mark_queued"},
   order : Confirmations \cup Enqueues \cup {NoOrder}, amount : Nat]

HandlersHaveOrders ==
  /\ handlers \in [Handlers -> PrintHandler]
  /\ \A h \in Handlers :
       /\ IsAt(h, "idle") <=> OrderOf(h) = NoOrder
       /\ handlers[h].pc \in {"print_debit", "print_record"} => OrderOf(h) \in Confirmations
       /\ IsAt(h, "mark_queued") => OrderOf(h) \in Enqueues
       /\ IsAt(h, "print_record") => reply[h].entry \in Entry

OrdersInv ==
  HandlersHaveOrders /\ LedgerInv /\ crashes \in 0..MaxCrashes /\ PrintsTypeOK

\* A price is one the request was offered: on the request, in the handler that is
\* about to debit it, and in the ledger.
QuotesAreOffered ==
  \A r \in PrintRequests : prints[r].quote # NoQuote => prints[r].quote \in offered[r]

AmountsAreOffered ==
  \A h \in Handlers : IsAt(h, "print_debit") => handlers[h].amount \in offered[OrderOf(h).request]

ChargesAreOffered ==
  \A o \in Confirmations :
    Recorded(o.account, PrintSource(o)) =>
      -RecordedEntry(o.account, PrintSource(o)).delta \in offered[o.request]

\* A handler about to store a payment holds the ledger's entry of its order.
EntriesAreAnswered ==
  \A h \in Handlers :
    IsAt(h, "print_record") =>
      /\ Recorded(OrderOf(h).account, PrintSource(OrderOf(h)))
      /\ reply[h].entry = RecordedEntry(OrderOf(h).account, PrintSource(OrderOf(h)))

PaidInv ==
  QuotesAreOffered /\ AmountsAreOffered /\ ChargesAreOffered /\ EntriesAreAnswered /\ PaymentsAreReal

-----------------------------------------------------------------------------
(* The handlers and the ledger.                                             *)

\* What a step does to one handler.
HandlerMove(h) ==
  \/ handlers'[h] = handlers[h]
  \/ handlers'[h] = Idle
  \/ \E o \in Confirmations :
       /\ prints[o.request].quote # NoQuote /\ prints[o.request].entry = NoEntry
       /\ handlers'[h] = [pc |-> "print_debit", order |-> o, amount |-> prints[o.request].quote]
       /\ UNCHANGED <<ledgerVars, printVars>>
  \/ \E o \in Enqueues : handlers'[h] = [pc |-> "mark_queued", order |-> o, amount |-> 0]
  \/ /\ PrintDebit(h) /\ reply'[h].status = "ok"
     /\ handlers'[h] = [handlers[h] EXCEPT !.pc = "print_record"]

LEMMA HandlersMove ==
  ASSUME OrdersInv, [OrdersNext]_ordersVars
  PROVE  handlers' = [h \in Handlers |-> handlers'[h]] /\ \A h \in Handlers : HandlerMove(h)
  <1> DEFINE Rows == handlers' = [x \in Handlers |-> handlers'[x]]
  <1> SUFFICES Rows /\ \A h \in Handlers : HandlerMove(h)
    OBVIOUS
  <1>1. handlers \in [Handlers -> PrintHandler]
    BY DEF OrdersInv, HandlersHaveOrders
  <1>2. ASSUME NEW g \in Handlers, NEW o \in Confirmations, ConfirmPrintGp(g, o)
        PROVE  Rows /\ \A h \in Handlers : HandlerMove(h)
    BY <1>1, <1>2 DEF ConfirmPrintGp, Enter, HandlerMove
  <1>3. ASSUME NEW g \in Handlers, NEW o \in Enqueues, EnqueuePrintRequest(g, o)
        PROVE  Rows /\ \A h \in Handlers : HandlerMove(h)
    BY <1>1, <1>3 DEF EnqueuePrintRequest, Enter, HandlerMove
  <1>4. ASSUME NEW g \in Handlers, PrintDebit(g)
        PROVE  Rows /\ \A h \in Handlers : HandlerMove(h)
    <2>1. \/ reply'[g].status = "ok"
             /\ handlers' = [handlers EXCEPT ![g] = [handlers[g] EXCEPT !.pc = "print_record"]]
          \/ handlers' = [handlers EXCEPT ![g] = Idle]
      BY <1>4 DEF PrintDebit, PostThen
    <2> QED
      BY <1>1, <1>4, <2>1 DEF HandlerMove
  <1>5. ASSUME NEW g \in Handlers, RecordPayment(g) \/ MarkQueued(g)
        PROVE  Rows /\ \A h \in Handlers : HandlerMove(h)
    BY <1>1, <1>5 DEF RecordPayment, MarkQueued, Leave, HandlerMove
  <1>6. CASE Crash
    BY <1>1, <1>6 DEF Crash, Leave, HandlerMove
  <1>7. CASE UNCHANGED handlers
    BY <1>1, <1>7 DEF HandlerMove
  <1> HIDE DEF Rows
  <1> QED
    BY <1>2, <1>3, <1>4, <1>5, <1>6, <1>7
    DEF OrdersNext, RunPrint, CreatePrintRequest, UpdatePrintQuote, OtherPosting, handlerVars, ordersVars

\* What a step does to the ledger: nothing, a confirmation's debit, or another's call.
LEMMA StepIsLedgerCall ==
  ASSUME [OrdersNext]_ordersVars
  PROVE  \/ UNCHANGED <<balance, ledger, reply>>
         \/ \E h \in Handlers : PrintDebit(h)
         \/ \E c \in Clients, a \in Accounts, s \in Sources, d \in Deltas : OtherPosting(c, a, s, d)
  BY DEF OrdersNext, CreatePrintRequest, UpdatePrintQuote, ConfirmPrintGp, EnqueuePrintRequest, RunPrint,
         RecordPayment, MarkQueued, Crash, ledgerVars, ordersVars

\* A debit is a call of the ledger for the handler's confirmation.
LEMMA DebitIsCall ==
  ASSUME OrdersInv, NEW h \in Handlers, PrintDebit(h)
  PROVE  /\ OrderOf(h) \in Confirmations /\ h \in Clients
         /\ OrderOf(h).account \in Accounts /\ OrderOf(h).request \in PrintRequests
         /\ PrintSource(OrderOf(h)) \in Sources
         /\ handlers[h].amount \in Nat /\ -handlers[h].amount \in Int
         /\ AppendPointLedger(h, OrderOf(h).account, PrintSource(OrderOf(h)), -handlers[h].amount)
         /\ IsAt(h, "print_debit")
         /\ UNCHANGED printVars
  BY PrintOrderTypes, HandlersAreClients
  DEF OrdersInv, HandlersHaveOrders, PrintHandler, PrintDebit, PostThen, IsAt, OrderOf

\* The ledger's invariant survives every step, and so does every record.
LEMMA OrdersKeepLedger ==
  ASSUME OrdersInv, [OrdersNext]_ordersVars
  PROVE  /\ LedgerInv'
         /\ \A a \in Accounts, s \in Sources :
              Recorded(a, s) => Recorded(a, s)' /\ RecordedEntry(a, s)' = RecordedEntry(a, s)
  <1>1. LedgerInv
    BY DEF OrdersInv
  <1>2. CASE UNCHANGED <<balance, ledger, reply>>
    <2>1. LedgerInv'
      BY <1>1, <1>2, InvPreserved DEF vars
    <2> QED
      BY <1>2, <2>1, SameLedgerSameRecords
  <1>3. ASSUME NEW c \in Clients, NEW a \in Accounts, NEW s \in Sources, NEW d \in Int,
               AppendPointLedger(c, a, s, d)
        PROVE  /\ LedgerInv'
               /\ \A b \in Accounts, x \in Sources :
                    Recorded(b, x) => Recorded(b, x)' /\ RecordedEntry(b, x)' = RecordedEntry(b, x)
    BY <1>1, <1>3, CallKeepsInv, RecordsStay
  <1>4. ASSUME NEW h \in Handlers, PrintDebit(h)
        PROVE  \E c \in Clients, a \in Accounts, s \in Sources, d \in Int : AppendPointLedger(c, a, s, d)
    BY <1>4, DebitIsCall
  <1>5. ASSUME NEW c \in Clients, NEW a \in Accounts, NEW s \in Sources, NEW d \in Deltas,
               OtherPosting(c, a, s, d)
        PROVE  d \in Int /\ AppendPointLedger(c, a, s, d)
    BY <1>5, DeltasAreIntegers DEF OtherPosting
  <1> QED
    BY <1>2, <1>3, <1>4, <1>5, StepIsLedgerCall

\* A confirmation's record is new only by the debit of a handler that confirms under
\* the same account and key, at the price that handler read.
LEMMA NewChargeIsADebit ==
  ASSUME OrdersInv, [OrdersNext]_ordersVars, NEW o \in Confirmations,
         ~Recorded(o.account, PrintSource(o)), Recorded(o.account, PrintSource(o))'
  PROVE  \E h \in Handlers :
           /\ PrintDebit(h)
           /\ OrderOf(h).account = o.account /\ OrderOf(h).key = o.key
           /\ RecordedEntry(o.account, PrintSource(o))'.delta = -handlers[h].amount
  <1>1. PICK b \in Accounts, x \in Sources : b = o.account /\ x = PrintSource(o)
    BY PrintOrderTypes
  <1>2. LedgerInv /\ ~Recorded(b, x) /\ Recorded(b, x)'
    BY <1>1 DEF OrdersInv
  <1>3. ~UNCHANGED <<balance, ledger, reply>>
    BY <1>2, SameLedgerSameRecords
  <1>4. ASSUME NEW c \in Clients, NEW a \in Accounts, NEW s \in Sources, NEW d \in Deltas,
               OtherPosting(c, a, s, d)
        PROVE  FALSE
    <2>1. x = s
      BY <1>2, <1>4, OnlyItsOwnRecord, DeltasAreIntegers DEF OtherPosting
    <2> QED
      BY <1>1, <1>4, <2>1 DEF OtherPosting
  <1>5. PICK h \in Handlers : PrintDebit(h)
    BY <1>3, <1>4, StepIsLedgerCall
  <1>6. PICK a \in Accounts, s \in Sources, d \in Int :
          /\ a = OrderOf(h).account /\ s = PrintSource(OrderOf(h)) /\ d = -handlers[h].amount
          /\ h \in Clients /\ AppendPointLedger(h, a, s, d)
    BY <1>5, DebitIsCall
  <1>7. b = a /\ x = s /\ RecordedEntry(b, x)'.delta = d
    BY <1>2, <1>6, OnlyItsOwnRecord
  <1>8. OrderOf(h).key = o.key
    BY <1>1, <1>6, <1>7 DEF PrintSource
  <1> QED
    BY <1>1, <1>5, <1>6, <1>7, <1>8

\* A debit that succeeds hands out the entry of its order; nobody else's call
\* changes what a handler was answered.
LEMMA DebitIsAnswered ==
  ASSUME OrdersInv, NEW h \in Handlers, PrintDebit(h), reply'[h].status = "ok",
         NEW o, o = OrderOf(h)
  PROVE  /\ Recorded(o.account, PrintSource(o))'
         /\ reply'[h].entry = RecordedEntry(o.account, PrintSource(o))'
         /\ reply'[h].entry \in Entry
  <1>1. PICK a \in Accounts, x \in Sources, d \in Int :
          /\ a = o.account /\ x = PrintSource(o)
          /\ h \in Clients /\ AppendPointLedger(h, a, x, d)
    BY DebitIsCall
  <1>2. Recorded(a, x)' /\ reply'[h].entry = RecordedEntry(a, x)' /\ reply'[h].entry \in Entry
    BY <1>1, OkIsRecorded DEF OrdersInv
  <1> QED
    BY <1>1, <1>2

LEMMA AnswersStay ==
  ASSUME OrdersInv, [OrdersNext]_ordersVars, NEW h \in Handlers, ~IsAt(h, "print_debit")
  PROVE  reply'[h] = reply[h]
  <1>1. TypeOK /\ h \in Clients
    BY HandlersAreClients DEF OrdersInv, LedgerInv
  <1>2. ASSUME NEW g \in Handlers, PrintDebit(g)
        PROVE  reply'[h] = reply[h]
    <2>1. g # h
      BY <1>2, DebitIsCall
    <2>2. PICK a, s, d : AppendPointLedger(g, a, s, d)
      BY <1>2, DebitIsCall
    <2> QED
      BY <1>1, <2>1, <2>2, OthersKeepReplies
  <1>3. ASSUME NEW c \in Clients, NEW a \in Accounts, NEW s \in Sources, NEW d \in Deltas,
               OtherPosting(c, a, s, d)
        PROVE  reply'[h] = reply[h]
    BY <1>1, <1>3, OthersKeepReplies DEF OtherPosting
  <1> QED
    BY <1>2, <1>3, StepIsLedgerCall

-----------------------------------------------------------------------------
(* Types.                                                                   *)

LEMMA StepKeepsHandlers ==
  ASSUME OrdersInv, [OrdersNext]_ordersVars
  PROVE  HandlersHaveOrders'
  <1>1. handlers' \in [Handlers -> PrintHandler]
    <2>1. \A h \in Handlers : handlers'[h] \in PrintHandler
      <3> SUFFICES ASSUME NEW h \in Handlers PROVE handlers'[h] \in PrintHandler
        OBVIOUS
      <3>1. handlers[h] \in PrintHandler
        BY DEF OrdersInv, HandlersHaveOrders
      <3>2. Idle \in PrintHandler
        BY DEF Idle, PrintHandler
      <3>3. ASSUME NEW o \in Confirmations, prints[o.request].quote # NoQuote
            PROVE  [pc |-> "print_debit", order |-> o, amount |-> prints[o.request].quote] \in PrintHandler
        BY <3>3, PrintOrderTypes, PrintNumbers DEF OrdersInv, PrintsTypeOK, PrintHandler
      <3>4. ASSUME NEW o \in Enqueues
            PROVE  [pc |-> "mark_queued", order |-> o, amount |-> 0] \in PrintHandler
        BY DEF PrintHandler
      <3>5. [handlers[h] EXCEPT !.pc = "print_record"] \in PrintHandler
        BY <3>1 DEF PrintHandler
      <3>6. HandlerMove(h)
        BY HandlersMove
      <3> QED
        BY <3>1, <3>2, <3>3, <3>4, <3>5, <3>6 DEF HandlerMove
    <2>2. handlers' = [h \in Handlers |-> handlers'[h]]
      BY HandlersMove
    <2> QED
      BY <2>1, <2>2
  <1>2. ASSUME NEW h \in Handlers
        PROVE  /\ handlers'[h].pc = "idle" <=> handlers'[h].order = NoOrder
               /\ handlers'[h].pc \in {"print_debit", "print_record"} => handlers'[h].order \in Confirmations
               /\ handlers'[h].pc = "mark_queued" => handlers'[h].order \in Enqueues
               /\ handlers'[h].pc = "print_record" => reply'[h].entry \in Entry
    <2>1. /\ handlers[h] \in PrintHandler
          /\ handlers[h].pc = "idle" <=> handlers[h].order = NoOrder
          /\ handlers[h].pc \in {"print_debit", "print_record"} => handlers[h].order \in Confirmations
          /\ handlers[h].pc = "mark_queued" => handlers[h].order \in Enqueues
          /\ handlers[h].pc = "print_record" => reply[h].entry \in Entry
      BY DEF OrdersInv, HandlersHaveOrders, IsAt, OrderOf
    <2>2. PrintDebit(h) => handlers[h].pc = "print_debit"
      BY DEF PrintDebit, IsAt
    <2>3. HandlerMove(h)
      BY HandlersMove
    <2>4. PrintDebit(h) /\ reply'[h].status = "ok" => reply'[h].entry \in Entry
      BY DebitIsAnswered
    <2>5. handlers[h].pc = "print_record" => reply'[h] = reply[h]
      BY AnswersStay DEF IsAt
    <2>6. NoOrder \notin Confirmations /\ NoOrder \notin Enqueues
      BY PrintMarkersAreApart
    <2>7. CASE handlers'[h] = handlers[h]
      BY <2>1, <2>5, <2>7
    <2>8. CASE handlers'[h] = Idle
      BY <2>8 DEF Idle
    <2>9. CASE \E o \in Confirmations :
                 handlers'[h] = [pc |-> "print_debit", order |-> o, amount |-> prints[o.request].quote]
      BY <2>6, <2>9
    <2>10. CASE \E o \in Enqueues : handlers'[h] = [pc |-> "mark_queued", order |-> o, amount |-> 0]
      BY <2>6, <2>10
    <2>11. CASE /\ PrintDebit(h) /\ reply'[h].status = "ok"
                /\ handlers'[h] = [handlers[h] EXCEPT !.pc = "print_record"]
      <3>1. handlers'[h].pc = "print_record" /\ handlers'[h].order = handlers[h].order
        BY <2>1, <2>11 DEF PrintHandler
      <3> QED
        BY <2>1, <2>2, <2>4, <2>11, <3>1
    <2> QED
      BY <2>3, <2>7, <2>8, <2>9, <2>10, <2>11 DEF HandlerMove
  <1> QED
    BY <1>1, <1>2 DEF HandlersHaveOrders, IsAt, OrderOf

LEMMA StepKeepsPrints ==
  ASSUME OrdersInv, [OrdersNext]_ordersVars
  PROVE  PrintsTypeOK' /\ \A r \in PrintRequests : offered[r] \subseteq offered'[r]
  <1> USE DEF OrdersInv, PrintsTypeOK
  <1>1. ASSUME NEW r \in PrintRequests, NEW q \in Quotes, UpdatePrintQuote(r, q)
        PROVE  PrintsTypeOK' /\ \A x \in PrintRequests : offered[x] \subseteq offered'[x]
    BY <1>1 DEF UpdatePrintQuote, PrintStatuses
  <1>2. ASSUME NEW r \in PrintRequests, CreatePrintRequest(r)
        PROVE  PrintsTypeOK' /\ UNCHANGED offered
    BY <1>2 DEF CreatePrintRequest, PrintStatuses
  <1>3. ASSUME NEW h \in Handlers, RecordPayment(h)
        PROVE  PrintsTypeOK' /\ UNCHANGED offered
    <2>1. OrderOf(h) \in Confirmations
      BY <1>3 DEF RecordPayment, HandlersHaveOrders, IsAt
    <2>2. PICK r \in PrintRequests : r = OrderOf(h).request
      BY <2>1, PrintOrderTypes
    <2>3. PICK e \in Entry : e = reply[h].entry
      BY <1>3 DEF RecordPayment, HandlersHaveOrders
    <2> QED
      BY <1>3, <2>2, <2>3 DEF RecordPayment, PrintStatuses
  <1>4. ASSUME NEW h \in Handlers, MarkQueued(h)
        PROVE  PrintsTypeOK' /\ UNCHANGED offered
    <2>1. PICK r \in PrintRequests : r = OrderOf(h).request
      BY <1>4, PrintOrderTypes DEF MarkQueued, HandlersHaveOrders
    <2> QED
      BY <1>4, <2>1 DEF MarkQueued, PrintStatuses
  <1>5. ASSUME NEW h \in Handlers, NEW o \in Enqueues, EnqueuePrintRequest(h, o)
        PROVE  PrintsTypeOK' /\ UNCHANGED offered
    <2>1. PICK r \in PrintRequests : r = o.request
      BY PrintOrderTypes
    <2>2. jobs[r] + 1 \in 0..MaxJobs
      BY <1>5, <2>1, PrintNumbers DEF EnqueuePrintRequest
    <2> QED
      BY <1>5, <2>1, <2>2 DEF EnqueuePrintRequest
  <1>6. CASE UNCHANGED printVars
    BY <1>6 DEF printVars
  <1> HIDE DEF OrdersInv, PrintsTypeOK
  <1> QED
    BY <1>1, <1>2, <1>3, <1>4, <1>5, <1>6
    DEF OrdersNext, RunPrint, ConfirmPrintGp, PrintDebit, OtherPosting, ordersVars

LEMMA OrdersInvariant == OrdersSpec => []OrdersInv
  <1>1. OrdersInit => OrdersInv
    <2> SUFFICES ASSUME OrdersInit PROVE OrdersInv
      OBVIOUS
    <2>1. LedgerInv /\ crashes \in 0..MaxCrashes
      BY InvInitial, CrashBound DEF OrdersInit
    <2>2. HandlersHaveOrders
      BY PrintMarkersAreApart DEF OrdersInit, HandlersHaveOrders, PrintHandler, Idle, IsAt, OrderOf
    <2>3. PrintsTypeOK
      BY PrintNumbers DEF OrdersInit, PrintsInit, PrintsTypeOK, PrintStatuses
    <2> QED
      BY <2>1, <2>2, <2>3 DEF OrdersInv
  <1>2. OrdersInv /\ [OrdersNext]_ordersVars => OrdersInv'
    <2> SUFFICES ASSUME OrdersInv, [OrdersNext]_ordersVars PROVE OrdersInv'
      OBVIOUS
    <2>1. crashes' \in 0..MaxCrashes
      <3>1. UNCHANGED crashes \/ (crashes < MaxCrashes /\ crashes' = crashes + 1)
        BY DEF OrdersNext, CreatePrintRequest, UpdatePrintQuote, ConfirmPrintGp, EnqueuePrintRequest, Enter,
           RunPrint, PrintDebit, RecordPayment, MarkQueued, Crash, OtherPosting, handlerVars, ordersVars
      <3> QED
        BY <3>1, CrashBound DEF OrdersInv
    <2> QED
      BY <2>1, OrdersKeepLedger, StepKeepsHandlers, StepKeepsPrints DEF OrdersInv
  <1> QED
    BY <1>1, <1>2, PTL DEF OrdersSpec

\* Types hold in every behaviour of the print requests.
THEOREM OrdersTypeCorrect == OrdersSpec => []OrdersTypeOK
  <1>1. OrdersInv => OrdersTypeOK
    BY DEF OrdersInv, OrdersTypeOK, LedgerInv, HandlersHaveOrders, PrintHandler
  <1> QED
    BY <1>1, OrdersInvariant, PTL

-----------------------------------------------------------------------------
(* Payments, if a key names one request.                                    *)

LEMMA StepKeepsOffers ==
  ASSUME OrdersInv, PaidInv, [OrdersNext]_ordersVars
  PROVE  QuotesAreOffered' /\ AmountsAreOffered'
  <1>1. \A r \in PrintRequests : offered[r] \subseteq offered'[r]
    BY StepKeepsPrints
  <1>2. QuotesAreOffered'
    <2> SUFFICES ASSUME NEW r \in PrintRequests, prints'[r].quote # NoQuote
                 PROVE  prints'[r].quote \in offered'[r]
      BY DEF QuotesAreOffered
    <2>1. prints \in [PrintRequests -> [status : PrintStatuses, quote : Quotes \cup {NoQuote},
                                        entry : Entry \cup {NoEntry}]]
      BY DEF OrdersInv, PrintsTypeOK
    <2>2. ASSUME NEW x \in PrintRequests, NEW q \in Quotes, UpdatePrintQuote(x, q)
          PROVE  prints'[r].quote = prints[r].quote \/ prints'[r].quote \in offered'[r]
      BY <2>1, <2>2 DEF UpdatePrintQuote, OrdersInv, PrintsTypeOK
    <2>3. ASSUME NEW h \in Handlers, RecordPayment(h) \/ MarkQueued(h)
          PROVE  prints'[r].quote = prints[r].quote
      BY <2>1, <2>3 DEF RecordPayment, MarkQueued
    <2>4. ASSUME NEW x \in PrintRequests, CreatePrintRequest(x)
          PROVE  prints'[r].quote = prints[r].quote
      BY <2>1, <2>4 DEF CreatePrintRequest
    <2>5. prints'[r].quote = prints[r].quote \/ prints'[r].quote \in offered'[r]
      BY <2>2, <2>3, <2>4 DEF OrdersNext, RunPrint, ConfirmPrintGp, EnqueuePrintRequest, PrintDebit, Crash,
         OtherPosting, printVars, ordersVars
    <2> QED
      BY <1>1, <2>5 DEF PaidInv, QuotesAreOffered
  <1>3. AmountsAreOffered'
    <2> SUFFICES ASSUME NEW h \in Handlers, handlers'[h].pc = "print_debit"
                 PROVE  handlers'[h].amount \in offered'[handlers'[h].order.request]
      BY DEF AmountsAreOffered, IsAt, OrderOf
    <2>1. CASE handlers'[h] = handlers[h]
      <3>1. handlers[h].amount \in offered[handlers[h].order.request] /\ handlers[h].order \in Confirmations
        BY <2>1 DEF PaidInv, AmountsAreOffered, OrdersInv, HandlersHaveOrders, IsAt, OrderOf
      <3> QED
        BY <1>1, <2>1, <3>1, PrintOrderTypes
    <2>2. ASSUME NEW o \in Confirmations, prints[o.request].quote # NoQuote, UNCHANGED printVars,
                 handlers'[h] = [pc |-> "print_debit", order |-> o, amount |-> prints[o.request].quote]
          PROVE  handlers'[h].amount \in offered'[handlers'[h].order.request]
      BY <2>2, PrintOrderTypes DEF PaidInv, QuotesAreOffered, printVars
    <2>3. handlers[h] \in PrintHandler
      BY DEF OrdersInv, HandlersHaveOrders
    <2>4. HandlerMove(h)
      BY HandlersMove
    <2>5. CASE handlers'[h] = Idle
      BY <2>5 DEF Idle
    <2>6. CASE \E o \in Enqueues : handlers'[h] = [pc |-> "mark_queued", order |-> o, amount |-> 0]
      BY <2>6
    <2>7. CASE /\ PrintDebit(h) /\ reply'[h].status = "ok"
               /\ handlers'[h] = [handlers[h] EXCEPT !.pc = "print_record"]
      BY <2>3, <2>7 DEF PrintHandler
    <2> QED
      BY <2>1, <2>2, <2>4, <2>5, <2>6, <2>7 DEF HandlerMove
  <1> QED
    BY <1>2, <1>3

LEMMA StepKeepsCharges ==
  ASSUME KeysNameRequests, OrdersInv, PaidInv, [OrdersNext]_ordersVars
  PROVE  ChargesAreOffered'
  <1> SUFFICES ASSUME NEW o \in Confirmations, Recorded(o.account, PrintSource(o))'
               PROVE  -RecordedEntry(o.account, PrintSource(o))'.delta \in offered'[o.request]
    BY DEF ChargesAreOffered, PrintSource
  <1>1. offered[o.request] \subseteq offered'[o.request] /\ o.account \in Accounts /\ PrintSource(o) \in Sources
    BY StepKeepsPrints, PrintOrderTypes
  <1>2. CASE Recorded(o.account, PrintSource(o))
    <2>1. -RecordedEntry(o.account, PrintSource(o)).delta \in offered[o.request]
      BY <1>2 DEF PaidInv, ChargesAreOffered
    <2>2. RecordedEntry(o.account, PrintSource(o))' = RecordedEntry(o.account, PrintSource(o))
      BY <1>1, <1>2, OrdersKeepLedger
    <2> QED
      BY <1>1, <2>1, <2>2
  <1>3. CASE ~Recorded(o.account, PrintSource(o))
    <2>1. PICK h \in Handlers :
            /\ PrintDebit(h)
            /\ OrderOf(h).account = o.account /\ OrderOf(h).key = o.key
            /\ RecordedEntry(o.account, PrintSource(o))'.delta = -handlers[h].amount
      BY <1>3, NewChargeIsADebit
    <2>2. OrderOf(h) \in Confirmations /\ handlers[h].amount \in Nat /\ IsAt(h, "print_debit")
      BY <2>1, DebitIsCall
    <2>3. OrderOf(h).request = o.request
      BY <2>1, <2>2 DEF KeysNameRequests
    <2>4. handlers[h].amount \in offered[o.request]
      BY <2>2, <2>3 DEF PaidInv, AmountsAreOffered
    <2>5. -(-handlers[h].amount) = handlers[h].amount
      BY <2>2
    <2> QED
      BY <1>1, <2>1, <2>4, <2>5
  <1> QED
    BY <1>2, <1>3

LEMMA StepKeepsAnswers ==
  ASSUME OrdersInv, PaidInv, [OrdersNext]_ordersVars
  PROVE  EntriesAreAnswered'
  <1> SUFFICES ASSUME NEW h \in Handlers, handlers'[h].pc = "print_record", NEW o, o = handlers'[h].order
               PROVE  /\ Recorded(o.account, PrintSource(o))'
                      /\ reply'[h].entry = RecordedEntry(o.account, PrintSource(o))'
    BY DEF EntriesAreAnswered, IsAt, OrderOf, PrintSource
  <1>1. handlers[h] \in PrintHandler
    BY DEF OrdersInv, HandlersHaveOrders
  <1>2. CASE handlers'[h] = handlers[h]
    <2>1. /\ o \in Confirmations
          /\ Recorded(o.account, PrintSource(o)) /\ reply[h].entry = RecordedEntry(o.account, PrintSource(o))
      BY <1>2 DEF PaidInv, EntriesAreAnswered, OrdersInv, HandlersHaveOrders, IsAt, OrderOf
    <2>2. reply'[h] = reply[h]
      BY <1>2, AnswersStay DEF IsAt
    <2> QED
      BY <2>1, <2>2, OrdersKeepLedger, PrintOrderTypes
  <1>3. CASE /\ PrintDebit(h) /\ reply'[h].status = "ok"
             /\ handlers'[h] = [handlers[h] EXCEPT !.pc = "print_record"]
    <2>1. o = OrderOf(h)
      BY <1>1, <1>3 DEF OrderOf, PrintHandler
    <2> QED
      BY <1>3, <2>1, DebitIsAnswered
  <1>4. HandlerMove(h)
    BY HandlersMove
  <1>5. CASE handlers'[h] = Idle
    BY <1>5 DEF Idle
  <1>6. ASSUME NEW x, NEW n, handlers'[h] = [pc |-> "print_debit", order |-> x, amount |-> n]
        PROVE  FALSE
    BY <1>6
  <1>7. ASSUME NEW x, handlers'[h] = [pc |-> "mark_queued", order |-> x, amount |-> 0]
        PROVE  FALSE
    BY <1>7
  <1> QED
    BY <1>2, <1>3, <1>4, <1>5, <1>6, <1>7 DEF HandlerMove

\* What a step does to the payment a request shows: nothing, or it stores the entry
\* its handler was answered.
LEMMA PaymentsMove ==
  ASSUME OrdersInv, [OrdersNext]_ordersVars, NEW r \in PrintRequests
  PROVE  \/ /\ prints'[r].entry = prints[r].entry
            /\ prints'[r].status = "paid" => prints[r].status = "paid"
         \/ \E h \in Handlers :
              /\ IsAt(h, "print_record") /\ OrderOf(h).request = r
              /\ prints'[r].entry = reply[h].entry /\ UNCHANGED <<ledgerVars, offered>>
  <1>1. prints \in [PrintRequests -> [status : PrintStatuses, quote : Quotes \cup {NoQuote},
                                      entry : Entry \cup {NoEntry}]]
    BY DEF OrdersInv, PrintsTypeOK
  <1>2. ASSUME NEW x \in PrintRequests, NEW q \in Quotes, UpdatePrintQuote(x, q)
        PROVE  /\ prints'[r].entry = prints[r].entry
               /\ prints'[r].status = "paid" => prints[r].status = "paid"
    BY <1>1, <1>2 DEF UpdatePrintQuote
  <1>3. ASSUME NEW x \in PrintRequests, CreatePrintRequest(x)
        PROVE  /\ prints'[r].entry = prints[r].entry
               /\ prints'[r].status = "paid" => prints[r].status = "paid"
    BY <1>1, <1>3 DEF CreatePrintRequest
  <1>4. ASSUME NEW h \in Handlers, MarkQueued(h)
        PROVE  /\ prints'[r].entry = prints[r].entry
               /\ prints'[r].status = "paid" => prints[r].status = "paid"
    BY <1>1, <1>4 DEF MarkQueued
  <1>5. ASSUME NEW h \in Handlers, RecordPayment(h)
        PROVE  \/ prints'[r] = prints[r]
               \/ /\ IsAt(h, "print_record") /\ OrderOf(h).request = r
                  /\ prints'[r].entry = reply[h].entry /\ UNCHANGED <<ledgerVars, offered>>
    <2>1. PICK x \in PrintRequests : x = OrderOf(h).request
      BY <1>5, PrintOrderTypes DEF RecordPayment, OrdersInv, HandlersHaveOrders, IsAt
    <2> QED
      BY <1>1, <1>5, <2>1 DEF RecordPayment
  <1>6. CASE UNCHANGED prints
    BY <1>6
  <1> QED
    BY <1>2, <1>3, <1>4, <1>5, <1>6 DEF OrdersNext, RunPrint, ConfirmPrintGp, EnqueuePrintRequest, PrintDebit,
       Crash, OtherPosting, printVars, ordersVars

\* A handler about to store a payment has one that is the request's.
LEMMA AnswerIsReal ==
  ASSUME OrdersInv, PaidInv, NEW h \in Handlers, IsAt(h, "print_record")
  PROVE  LET o == OrderOf(h)
             e == reply[h].entry
         IN  /\ o \in Confirmations
             /\ InLedger(o.account, e) /\ e # NoEntry
             /\ e.source = PrintSource(o) /\ -e.delta \in offered[o.request]
  <1>1. PICK o \in Confirmations : o = OrderOf(h)
    BY DEF OrdersInv, HandlersHaveOrders, IsAt
  <1>2. PICK e \in Entry : e = reply[h].entry
    BY DEF OrdersInv, HandlersHaveOrders
  <1>3. Recorded(o.account, PrintSource(o)) /\ e = RecordedEntry(o.account, PrintSource(o))
    BY <1>1, <1>2 DEF PaidInv, EntriesAreAnswered
  <1>4. e.source = PrintSource(o)
    BY <1>3, RecordedEntryHasSource, PrintOrderTypes DEF OrdersInv
  <1>5. -e.delta \in offered[o.request]
    BY <1>3 DEF PaidInv, ChargesAreOffered
  <1> QED
    BY <1>1, <1>2, <1>3, <1>4, <1>5, MarkersAreNotData DEF InLedger

\* An entry pays for a request.
Pays(r, e, o) ==
  /\ o.request = r
  /\ InLedger(o.account, e)
  /\ e.source = PrintSource(o)
  /\ -e.delta \in offered[r]

\* What pays for a request does so for good.
LEMMA PaymentsLast ==
  ASSUME OrdersInv, [OrdersNext]_ordersVars, NEW r \in PrintRequests, NEW e, NEW o \in Confirmations,
         Pays(r, e, o)
  PROVE  Pays(r, e, o)'
  <1>1. o.account \in Accounts /\ e.source \in Sources
    BY PrintOrderTypes DEF Pays
  <1>2. Recorded(o.account, e.source)' /\ RecordedEntry(o.account, e.source)' = e
    BY <1>1, OrdersKeepLedger DEF Pays, InLedger
  <1>3. offered[r] \subseteq offered'[r]
    BY StepKeepsPrints
  <1> QED
    BY <1>2, <1>3 DEF Pays, InLedger, PrintSource

LEMMA StepKeepsPayments ==
  ASSUME OrdersInv, PaidInv, [OrdersNext]_ordersVars
  PROVE  PaymentsAreReal'
  <1> SUFFICES ASSUME NEW r \in PrintRequests, NEW e, e = prints'[r].entry
               PROVE  /\ prints'[r].status = "paid" => e # NoEntry
                      /\ e # NoEntry => \E o \in Confirmations : Pays(r, e, o)'
    BY DEF PaymentsAreReal, Pays
  <1>1. CASE /\ prints'[r].entry = prints[r].entry
             /\ prints'[r].status = "paid" => prints[r].status = "paid"
    <2>1. e = prints[r].entry
      BY <1>1
    <2>2. /\ prints[r].status = "paid" => e # NoEntry
          /\ e # NoEntry => \E o \in Confirmations : Pays(r, e, o)
      BY <2>1 DEF PaidInv, PaymentsAreReal, Pays
    <2> QED
      BY <1>1, <2>2, PaymentsLast
  <1>2. ASSUME NEW h \in Handlers, IsAt(h, "print_record"), OrderOf(h).request = r,
               prints'[r].entry = reply[h].entry
        PROVE  e # NoEntry /\ \E o \in Confirmations : Pays(r, e, o)'
    <2>1. PICK o \in Confirmations : o = OrderOf(h)
      BY <1>2, AnswerIsReal
    <2>2. e # NoEntry /\ Pays(r, e, o)
      BY <1>2, <2>1, AnswerIsReal DEF Pays
    <2> QED
      BY <2>2, PaymentsLast
  <1> QED
    BY <1>1, <1>2, PaymentsMove

LEMMA PaidInvariant ==
  ASSUME KeysNameRequests
  PROVE  OrdersSpec => []PaidInv
  <1>1. OrdersInit => PaidInv
    <2> SUFFICES ASSUME OrdersInit PROVE PaidInv
      OBVIOUS
    <2>1. /\ \A h \in Handlers : handlers[h].pc = "idle"
          /\ \A r \in PrintRequests : /\ prints[r].quote = NoQuote /\ prints[r].entry = NoEntry
                                      /\ prints[r].status = "none"
      BY DEF OrdersInit, PrintsInit, Idle
    <2>2. \A o \in Confirmations : ~Recorded(o.account, PrintSource(o))
      BY PrintOrderTypes DEF OrdersInit, Init, Recorded
    <2> QED
      BY <2>1, <2>2 DEF PaidInv, QuotesAreOffered, AmountsAreOffered, ChargesAreOffered, EntriesAreAnswered,
                        PaymentsAreReal, IsAt
  <1>2. OrdersInv /\ PaidInv /\ [OrdersNext]_ordersVars => PaidInv'
    BY StepKeepsOffers, StepKeepsCharges, StepKeepsAnswers, StepKeepsPayments DEF PaidInv
  <1> QED
    BY <1>1, <1>2, OrdersInvariant, PTL DEF OrdersSpec

\* A request shows a payment only when the ledger has it, at a price it was offered,
\* if no two requests are confirmed under one key of one account.
THEOREM PaymentsShownAreReal ==
  ASSUME KeysNameRequests
  PROVE  OrdersSpec => []PaymentsAreReal
  <1>1. PaidInv => PaymentsAreReal
    BY DEF PaidInv
  <1> QED
    BY <1>1, PaidInvariant, PTL

\* A paid request is never charged again, under the same condition on keys.
THEOREM PaidRequestsArePaidForGood ==
  ASSUME KeysNameRequests
  PROVE  OrdersSpec => PaidForGood
  <1>1. ASSUME OrdersInv, PaidInv, OrdersNext, NEW r \in PrintRequests, prints[r].entry # NoEntry, Paying(r) = {}
        PROVE  prints'[r].entry # NoEntry /\ Paying(r)' = {} /\ Debits(r)' = Debits(r)
    <2>1. prints'[r].entry # NoEntry
      BY <1>1, PaymentsMove, AnswerIsReal
    <2>2. Paying(r)' = {}
      <3> SUFFICES ASSUME NEW h \in Handlers, handlers'[h].pc = "print_debit", handlers'[h].order.request = r
                   PROVE  FALSE
        BY DEF Paying, IsAt, OrderOf
      <3>1. HandlerMove(h) /\ handlers[h] \in PrintHandler
        BY <1>1, HandlersMove DEF OrdersInv, HandlersHaveOrders
      <3>2. handlers'[h] # handlers[h]
        BY <1>1 DEF Paying, IsAt, OrderOf
      <3>3. handlers'[h] # Idle
        BY DEF Idle
      <3>4. ASSUME NEW o \in Confirmations, prints[o.request].entry = NoEntry, NEW n,
                   handlers'[h] = [pc |-> "print_debit", order |-> o, amount |-> n]
            PROVE  FALSE
        BY <1>1, <3>4
      <3>5. ASSUME NEW o, handlers'[h] = [pc |-> "mark_queued", order |-> o, amount |-> 0]
            PROVE  FALSE
        BY <3>5
      <3>6. ASSUME handlers'[h] = [handlers[h] EXCEPT !.pc = "print_record"]
            PROVE  FALSE
        BY <3>1, <3>6 DEF PrintHandler
      <3> QED
        BY <3>1, <3>2, <3>3, <3>4, <3>5, <3>6 DEF HandlerMove
    <2>3. Debits(r)' = Debits(r)
      <3> SUFFICES ASSUME NEW o \in Confirmations, o.request = r
                   PROVE  Recorded(o.account, PrintSource(o))' <=> Recorded(o.account, PrintSource(o))
        BY DEF Debits, PrintSource
      <3>1. ASSUME ~Recorded(o.account, PrintSource(o)), Recorded(o.account, PrintSource(o))'
            PROVE  FALSE
        <4>1. PICK h \in Handlers : PrintDebit(h) /\ OrderOf(h).account = o.account /\ OrderOf(h).key = o.key
          BY <1>1, <3>1, NewChargeIsADebit
        <4>2. IsAt(h, "print_debit") /\ OrderOf(h).request = r
          BY <1>1, <4>1, DebitIsCall DEF KeysNameRequests
        <4> QED
          BY <1>1, <4>2 DEF Paying
      <3> QED
        BY <1>1, <3>1, OrdersKeepLedger, PrintOrderTypes
    <2> QED
      BY <2>1, <2>2, <2>3
  <1>2. OrdersInv /\ PaidInv /\ [OrdersNext]_ordersVars =>
          [\A r \in PrintRequests :
             prints[r].entry # NoEntry /\ Paying(r) = {} =>
               prints'[r].entry # NoEntry /\ Paying(r)' = {} /\ Debits(r)' = Debits(r)]_ordersVars
    BY <1>1
  <1> QED
    BY <1>2, OrdersInvariant, PaidInvariant, PTL DEF OrdersSpec, PaidForGood
=============================================================================
