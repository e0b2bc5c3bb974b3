SPECIFICATION Spec
CONSTANTS
  q1 = q1  q2 = q2
  Requests = {q1, q2}
  Handlers <- Everything
  Faulty = TRUE
  MaxServed = 4
  MaxAttempts = 2
INVARIANTS
  TypeOK
  AttemptsCapped
  LatestCodeWorks
  Onboarded
SYMMETRY Symmetry
CHECK_DEADLOCK FALSE
