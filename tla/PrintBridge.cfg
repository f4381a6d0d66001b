SPECIFICATION BridgeFairSpec
CONSTANTS
  b1 = b1
  b2 = b2
  t1 = t1
  t2 = t2
  c1 = c1
  j1 = j1
  j2 = j2
  Bridges = {b1, b2}
  Ticks = {t1, t2}
  Commands = {c1}
  Jobs = {j1, j2}
  PrintersOf <- MCPrintersOf
  BridgeOf <- MCBridgeOf
  MaxFaults = 1
  MaxCrashes = 1
  Nobody = Nobody
  NoJob = NoJob
INVARIANTS
  BridgeTypeOK
  StartedJobIsWatched
PROPERTIES
  ImplementsPrintJobs
  NothingIsBumped
  StartedJobEnds
