SPECIFICATION Spec
CONSTANTS
  Request = {r1, r2, r3, r4}
  Session = {s1, s2}
  None = None
  Public = {r4}
  Enabled = FALSE
  History = 3
INVARIANTS PromptIsPast RepliedIsRecorded
CHECK_DEADLOCK FALSE
