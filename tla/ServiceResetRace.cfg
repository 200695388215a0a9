\* A reset-link and another command at once.
SPECIFICATION Spec
CONSTANTS
  Command = {1, 2}
  Process = {1, 2}
  None = none
  Overlap = TRUE
  Crashes = FALSE
INVARIANTS
  OldTokenIsRevoked
