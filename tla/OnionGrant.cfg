SPECIFICATION FairSpec
CONSTANTS
  u1 = u1
  u2 = u2
  r1 = r1
  k1 = k1
  k2 = k2
  p1 = p1
  p2 = p2
  c1 = c1
  Users = {u1, u2}
  Residents = {r1}
  Keys = {k1}
  Posters = {p1, p2}
  PostsOf <- MCPosts
  RouteOf <- MCRoutes
  Callbacks = {c1}
  MaxFaults = 1
  MaxCrashes = 1
  None = None
INVARIANTS
  TypeOK
  CreditOnlyAfterBurn
  CreditedAtMostOnce
  ClaimIsExclusive
  OutcomesAreTrue
PROPERTIES
  FinishedStaysFinished
  BurnIsSettled
