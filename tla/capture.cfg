\* Every mode, two connections, an event channel that fills up.  A run ends.
SPECIFICATION AnsweringSpec
CONSTANTS
  None = None
  Modes = {"UntilSourceStops", "UntilInterrupted", "ForDuration", "Mcp"}
  Capacity = 2
  MaxSessions = 2
  MaxFrames = 3
  MockEvents = 2
CHECK_DEADLOCK FALSE
INVARIANTS
  TypeOK
  NoMixedBooks
  NoBookOffline
  CompleteOnReturn
  MockRunIsComplete
  LastBookIsReplayed
PROPERTIES
  ImplementsWriteAhead
  StopIsHonoured
  MockRunEnds
