\* A crash leaves a journal whose flushed records no reader returns.
SPECIFICATION Spec
CONSTANTS
  None = None
  Clients = {source}
  Records = {r1, r2}
  Capacity = 1
CHECK_DEADLOCK FALSE
INVARIANTS
  SafeIsReplayable
