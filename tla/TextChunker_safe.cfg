\* All texts of up to 10 characters under the settings that make progress.
SPECIFICATION ChunkerSpec
CONSTANTS
  MaxLen = 10
  MaxSize = 6
  MaxOverlap = 6
  Settings <- MCSafeSettings
INVARIANTS
  DoneCovers
  IndexKeepsText
PROPERTY
  Terminates
CHECK_DEADLOCK FALSE
