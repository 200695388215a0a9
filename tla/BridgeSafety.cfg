\* Two clients in turn, the second may be turned away or take over.
SPECIFICATION BridgeSpec
CONSTANTS
  Session = {s1, s2}
  ClientId = {q1, q2}
  Main = main
  None = none
  MaxTurns = 1
  MaxSeq = 4
  PipeCapacity = 2
  Warnings = FALSE
  MaxBatch = 2
  Stops = FALSE
SYMMETRY Symmetry
INVARIANTS
  BridgeTypeOK
  OneOwner
  HandoffClean
