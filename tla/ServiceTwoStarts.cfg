\* Two commands at once.
SPECIFICATION Spec
CONSTANTS
  Command = {1, 2}
  Process = {1, 2}
  None = none
  Overlap = TRUE
  Crashes = FALSE
INVARIANTS
  ServingIsReported
