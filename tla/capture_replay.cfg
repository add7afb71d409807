\* Replay does not see the statuses that reset the book.
SPECIFICATION Spec
CONSTANTS
  None = None
  Modes = {"ForDuration"}
  Capacity = 1
  MaxSessions = 1
  MaxFrames = 1
  MockEvents = 0
CHECK_DEADLOCK FALSE
INVARIANTS
  ReplayRebuildsState
