\* Two runs of one document, the second of a PDF without text; a run that was
\* given up goes on beside the next.
SPECIFICATION PipelineSpec
CONSTANTS
  d1 = d1
  p1 = p1
  NoJob = NoJob
  Job = {j1, j2}
  Worker = {w1}
  Project = {p1}
  Observed = p1
  Capacity = 1
  MaxAttempts = 1
  WebhookEnabled = TRUE
  Textless = {j2}
  ProjectOf <- MCProjectOf
  DocumentOf <- MCDocumentOf
INVARIANTS NotifiedIsSearchable ReadyIsBacked DisagreementsExplained
PROPERTY DrivesCache
CHECK_DEADLOCK FALSE
