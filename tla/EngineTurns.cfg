\* One session against Main for writeMu; queries of one or two turns, whose id
\* is used again and again.
SPECIFICATION LiveSpec
CONSTANTS
  Session = {s1}
  ClientId = {q1}
  Main = main
  None = none
  MaxTurns = 2
  MaxSeq = 3
  PipeCapacity = 1
  Warnings = FALSE
INVARIANTS
  TypeOK
  RouteCountsFinals
  ResultsHaveRoutes
PROPERTIES
  KeepsPromise
  EveryQueryEnds
  CancelEnds
  ShutdownEnds
