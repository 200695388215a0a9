SPECIFICATION Spec
CONSTANTS
  Session = {s1}
  ClientId = {q1, q2}
  Main = main
  None = none
  MaxTurns = 2
  MaxSeq = 2
  PipeCapacity = 1
  Warnings = TRUE
SYMMETRY Symmetry
INVARIANTS
  ResultsHaveRoutes
