SPECIFICATION FairSpec
CONSTANTS
  u1 = u1
  u2 = u2
  r1 = r1
  k1 = k1
  k2 = k2
  p1 = p1
  p2 = p2
  c1 = c1
  Users = {u1}
  Residents = {r1}
  Keys = {k1, k2}
  Posters = {p1, p2}
  PostsOf <- MCTwoKeys
  RouteOf <- MCConsentRoutes
  Callbacks = {c1}
  MaxFaults = 0
  MaxCrashes = 0
  None = None
INVARIANT NoSecondBurn
