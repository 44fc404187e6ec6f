SPECIFICATION SafeSpec
CONSTANTS
  Corr <- MCCorr
  Want = "want"
  Absent = Absent
  Empty = Empty
  MaxTraces = 2
  MaxEvidence = 2
  MaxEdits = 1
  MaxExports = 1
INVARIANTS
  PacketIsOneChain
CHECK_DEADLOCK FALSE
