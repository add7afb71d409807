\* Two ids, one line per pipe, two calls per window of two ticks.
SPECIFICATION FairSpec
CONSTANTS
  None = None
  Ids = {i1, i2}
  Limit = 2
  Window = 2
  PipeSize = 1
  MaxTime = 3
CHECK_DEADLOCK FALSE
INVARIANTS
  TypeOK
  RateBounded
  AnswersMatchRequests
  KillSwitchIsDeliberate
PROPERTIES
  RefusedOnlyWhenFull
  EveryRequestIsAnswered
