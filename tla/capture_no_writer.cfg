\* A source without a writer reconnects for ever.  The second connection is one
\* that it opens after an append has failed; further attempts fail.
SPECIFICATION AnsweringSpec
CONSTANTS
  None = None
  Modes = {"UntilInterrupted"}
  Capacity = 1
  MaxSessions = 2
  MaxFrames = 1
  MockEvents = 0
CHECK_DEADLOCK FALSE
PROPERTIES
  WriterFailureStopsCapture
