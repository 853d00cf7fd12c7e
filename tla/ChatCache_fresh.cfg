\* Three chat requests for one question race with two document runs.
SPECIFICATION Spec
CONSTANTS
  q1 = q1
  Question = {q1}
  Request = {r1, r2, r3}
  Update = {u1, u2}
  QuestionOf <- MCQuestionOf
SYMMETRY Symmetry
INVARIANTS
  FreshAnswer
CHECK_DEADLOCK FALSE
