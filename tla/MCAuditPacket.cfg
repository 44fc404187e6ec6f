SPECIFICATION Spec
CONSTANTS
  Corr <- MCCorr
  Want = "want"
  Absent = Absent
  Empty = Empty
  MaxTraces = 2
  MaxEvidence = 2
  MaxEdits = 1
  MaxExports = 2
INVARIANTS
  ExportedPacketIsWhole
  PacketHoldsCheckedRecords
  ChainBreaksOnlyOnLoss
  PacketHoldsFirstRecords
  PacketPolicyIsRecent
PROPERTIES
  ExportEnds
CHECK_DEADLOCK FALSE
