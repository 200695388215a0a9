\* A client that stalls and leaves as it likes, while KataGo may exit and the
\* service may stop.
SPECIFICATION BridgeLiveSpec
CONSTANTS
  Session = {s1}
  ClientId = {q1}
  Main = main
  None = none
  MaxTurns = 2
  MaxSeq = 2
  PipeCapacity = 1
  Warnings = TRUE
  MaxBatch = 1
  Stops = TRUE
INVARIANTS
  RoutesCanEnd
PROPERTIES
  SlotIsFreed
  ReaderGoesOn
