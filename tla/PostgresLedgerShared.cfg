SPECIFICATION PgSpec
CONSTANTS
  c1 = c1
  c2 = c2
  s1 = s1
  s2 = s2
  s3 = s3
  Clients = {c1, c2}
  Accounts = {ap}
  Sources = {s1, s2, s3}
  SourcesOf <- MCShared
  Deltas <- MCDeltas
  NoEntry = NoEntry
  NoReply = NoReply
  NoStatement = NoStatement
SYMMETRY MCSymmetry
INVARIANTS
  PgTypeOK
  Solvent
  OnePostingPerSource
  ReceiptsAreHonoured
