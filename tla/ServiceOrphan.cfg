\* Commands one after the other; the service process may be killed.
SPECIFICATION Spec
CONSTANTS
  Command = {1, 2}
  Process = {1, 2}
  None = none
  Overlap = FALSE
  Crashes = TRUE
PROPERTIES
  StopsTheTunnel
