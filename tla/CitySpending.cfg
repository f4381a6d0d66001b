SPECIFICATION SpendingSpec
CONSTANTS
  h1 = h1
  h2 = h2
  ap = ap
  p1 = p1
  Clients = {h1, h2, admin}
  Handlers = {h1, h2}
  Accounts = {ap}
  Sources <- MCSources
  Deltas <- MCDeltas
  Proposals = {p1}
  Threshold <- MCThreshold
  Contributions <- MCContributions
  Trades <- MCTrades
  Checkins <- MCCheckins
  Award <- MCAward
  Syncs <- MCSyncs
  OrdersOf <- MCOrdersOf
  MaxCrashes = 1
  NoEntry = NoEntry
  NoReply = NoReply
  NoOrder = NoOrder
INVARIANTS
  SpendingTypeOK
  FundingIsBacked
  ReadyExactlyAtThreshold
  RowsArePaid
  DebitsHaveRows
PROPERTIES
  SyncRepairs
