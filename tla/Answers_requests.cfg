SPECIFICATION Spec
CONSTANTS
  Text = {t1, t2, t3}
  Document = {d1, d2}
  ChatTopK = 2
  WideTopK = 3
  MinScore = 0
  Top = 2
  Projects <- MCProjects
  MaxWorks = 2
  PerWork = 2
  MaxTotal = 2
  MaxPieces = 2
  Room = 2
  MaxGaps = 2
  MaxCited = 1
  MaxItems = 3
SYMMETRY Symmetry
INVARIANTS ContextIsBest NothingLeftUntried ScoresComparable InsufficientIsTrue GapsFollowReply
CHECK_DEADLOCK FALSE
