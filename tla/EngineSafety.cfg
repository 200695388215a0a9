\* Two sessions at once, one query id more than one of them may reuse.
SPECIFICATION Spec
CONSTANTS
  Session = {s1, s2}
  ClientId = {q1, q2}
  Main = main
  None = none
  MaxTurns = 1
  MaxSeq = 3
  PipeCapacity = 1
  Warnings = FALSE
SYMMETRY Symmetry
INVARIANTS
  TablesAgree
  RepliesGoHome
  CancelReachesWork
PROPERTIES
  StopsOwnWorkOnly
