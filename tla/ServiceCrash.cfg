\* Three commands, one after the other; the service may crash at any time.
SPECIFICATION LiveSpec
CONSTANTS
  Command = {1, 2, 3}
  Process = {1, 2, 3}
  None = none
  Overlap = FALSE
  Crashes = TRUE
INVARIANTS
  TypeOK
  StatusIsTrue
  OldTokenIsRevoked
PROPERTIES
  StopsTheService
  StopsItsTunnel
  ProcessesKeepLifecycle
  SignalledEnds
