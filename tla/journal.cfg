\* Two callers, three records, failures and crashes anywhere.  A torn journal
\* cannot be opened again, so the system may stop.
SPECIFICATION FairSpec
CONSTANTS
  None = None
  Clients = {source, supervisor}
  Records = {r1, r2, r3}
  Capacity = 1
CHECK_DEADLOCK FALSE
INVARIANTS
  TypeOK
  SafeSurvives
  AcceptedIsWhole
  RecordsAreAligned
PROPERTIES
  ImplementsDurableLog
  EveryCallReturns
