SPECIFICATION GrantFairSpec
CONSTANTS
  ap = ap
  h1 = h1
  h2 = h2
  k1 = k1
  k2 = k2
  Clients = {h1, h2, other}
  Accounts = {ap}
  Sources = {k1, k2, s1, s2}
  Keys = {k1, k2}
  Deltas <- MCDeltas
  Handlers = {h1, h2}
  OrdersOf <- MCOrders
  MaxFaults = 1
  MaxCrashes = 1
  NoEntry = NoEntry
  NoReply = NoReply
  NoIntent = NoIntent
  NoOrder = NoOrder
INVARIANTS
  GrantTypeOK
  PaidMeansCredited
  SettledMeansPaid
PROPERTIES
  SettledStaysSettled
  GrantEnds
