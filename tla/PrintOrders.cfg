SPECIFICATION OrdersFairSpec
CONSTANTS
  h1 = h1
  h2 = h2
  gp = gp
  r1 = r1
  Clients = {h1, h2, admin}
  Handlers = {h1, h2}
  Accounts = {gp}
  Sources <- MCSources
  Deltas <- MCDeltas
  PrintRequests = {r1}
  Quotes = {1, 2}
  Confirmations <- MCConfirmations
  Enqueues <- MCEnqueues
  OrdersOf <- MCOrdersOf
  MaxJobs = 2
  MaxCrashes = 1
  NoEntry = NoEntry
  NoReply = NoReply
  NoOrder = NoOrder
  NoQuote = NoQuote
INVARIANTS
  OrdersTypeOK
  PaymentsAreReal
PROPERTIES
  PaidForGood
  DebitIsShown
