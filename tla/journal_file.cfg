\* Two processes that open, write, close and die; up to three records and a header.
SPECIFICATION Spec
CONSTANTS
  None = None
  Writers = {w1, w2}
  MaxPieces = 10
  MaxBuffer = 3
CHECK_DEADLOCK FALSE
INVARIANTS
  TypeOK
  FileIsOneJournal
  LockIsHeldByAWriter
  SummaryIsTrue
