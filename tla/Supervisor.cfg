\* One process, any of whose parts may hang, end or be signalled.
SPECIFICATION LiveSpec
CONSTANTS
  EventCapacity = 2
  MaxLines = 3
INVARIANTS
  TypeOK
  NothingLeftRunning
  NoEventLost
PROPERTIES
  KataGoIsAsked
  RunKeepsLifecycle
  SignalEndsRun
  RunEnds
