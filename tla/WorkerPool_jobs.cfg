\* Two submissions compete for one slot of the channel and two workers.
SPECIFICATION Spec
CONSTANTS
  d1 = d1
  p1 = p1
  NoJob = NoJob
  Job = {j1, j2}
  Worker = {w1, w2}
  Project = {p1}
  Capacity = 1
  MaxAttempts = 2
  WebhookEnabled = TRUE
  ProjectOf <- MCProjectOf
  DocumentOf <- MCDocumentOf
INVARIANTS
  NothingLost
  RejectedLeavesNoTrace
  NotificationsAgree
  StopLeavesOnlyWaiting
PROPERTIES
  ImplementsLifecycle
  AcceptedGetsOutcome
  StopReturns
CHECK_DEADLOCK FALSE
