SPECIFICATION BridgeFairSpec
CONSTANTS
  b1 = b1
  b2 = b2
  t1 = t1
  t2 = t2
  c1 = c1
  j1 = j1
  j2 = j2
  Bridges = {b1}
  Ticks = {t1, t2}
  Commands = {}
  Jobs = {j1, j2}
  PrintersOf <- MCPrintersOf
  BridgeOf <- MCOneBridge
  MaxFaults = 0
  MaxCrashes = 0
  Nobody = Nobody
  NoJob = NoJob
INVARIANT
  StartedJobIsWatched
