\* A log of six lines, up to four of them asked for; codes of up to 3 x 3.
SPECIFICATION Spec
CONSTANTS
  MaxLine = 6
  MaxAsked = 4
  MaxSide = 3
  DefaultLines = 3
INVARIANTS
  TypeOK
  LogsShowTheEnd
  QRShowsTheCode
