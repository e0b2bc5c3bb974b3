SPECIFICATION Spec
CONSTANTS
  q1 = q1  q2 = q2
  DaysInWeek = 2
  YearLength = 5
  FirstDate = 1
  NewStarts = {2}
  Patterns <- SomePatterns
  LastToday = 2
  MaxRows = 12
  Requests = {q1, q2}
  Handlers <- Everything
  Faulty = TRUE
  MaxServed = 3
INVARIANTS
  TypeOK
  WeeksAgree
PROPERTIES
  DaysKept
SYMMETRY Symmetry
CHECK_DEADLOCK FALSE
