\* Four processes, which may overlap, be killed or run out of space.
SPECIFICATION Spec
CONSTANTS
  Process = {p1, p2, p3, p4}
  Old = old
  None = none
  Torn = torn
  Cut = cut
SYMMETRY Symmetry
INVARIANTS
  TypeOK
  OneWriterWins
PROPERTIES
  WriteIsAtomic
  ReadersAreServed
  FileIsARegister
