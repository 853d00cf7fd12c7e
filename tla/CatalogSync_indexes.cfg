SPECIFICATION Spec
CONSTANTS
  w1 = w1
  w2 = w2
  w3 = w3
  admin = admin
  scheduler = scheduler
  Work = {w1, w2, w3}
  None = None
  Caller = {admin, scheduler}
  First <- MCFirst
  News <- MCNews
  ArxivId <- MCArxivId
  MaxPublished = 1
  Asks <- MCAsks
  BatchSize = 1
  Migrated = TRUE
INVARIANT RefusedAreDuplicates
