SPECIFICATION ViewFairSpec
CONSTANTS
  PacketLimit = 2
  MaxPackets = 4
  MaxEvents = 2
  Opcodes = {"map", "delta"}
INVARIANTS
  ViewTypeOK
  ReplayHasMap
PROPERTIES
  ViewCatchesUp
