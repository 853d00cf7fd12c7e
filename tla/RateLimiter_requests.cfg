SPECIFICATION LimiterSpec
CONSTANTS
  Client = {c1, c2}
  Gateway = {g1, g2}
  None = None
  Rps = 2
  Burst = 3
  MaxLimiters = 1
  Hour = 3
  Counted = {c1}
  MaxCount = 5
SYMMETRY Symmetry
INVARIANTS WindowKept LetInAgain
PROPERTY ImplementsMeter
CHECK_DEADLOCK FALSE
