SPECIFICATION Spec
CONSTANTS
  Call = {c1, c2, c3, c4, c5, c6}
  Guarded = {c1, c2, c3, c4, c5}
  HasRetry = TRUE
  Outcome = {"ok", "timeout"}
  MaxRequests = 2
  FailureThreshold = 2
  MaxRetries = 2
INVARIANTS NeverWedged ClosedByProbes OpenedByFailures RetriedUntilExhausted
PROPERTIES Answered
CHECK_DEADLOCK FALSE
