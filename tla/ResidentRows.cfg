SPECIFICATION RowsFairSpec
CONSTANTS
  Callers = {c1, c2}
  Computations = {i1, i2}
  Lists = {i1, i2}
  Residents = {r1}
  Sockets = {s1, s2, s3}
  MaxLosses = 1
  NoEntry = NoEntry
  NoSocket = NoSocket
INVARIANTS
  RowsTypeOK
  AttachedFeedIsLive
PROPERTIES
  SharedAndNeverFailed
  PageIsAnswered
