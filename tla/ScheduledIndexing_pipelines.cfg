SPECIFICATION ScheduledSpec
CONSTANTS
  Book = {1}
  NoBook = NoBook
  Unavailable = {1}
  Runner = {r1, r2}
  Replica = {r1, r2}
  None = None
  Limit = 1
  MaxContent = 2
  MaxCrashes = 1
  MaxAttempts = 3
INVARIANTS PipelinesApart
PROPERTIES LockComesFree
