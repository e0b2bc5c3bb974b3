SPECIFICATION Spec
CONSTANTS
  q1 = q1  q2 = q2
  Requests = {q1, q2}
  Handlers <- Everything
  Faulty = TRUE
  MaxServed = 4
  Kinds <- AllKinds
  MaxIssues = 3
INVARIANTS
  TypeOK
  StaysForgotten
  StatusTrue
PROPERTIES
  SyncTells
SYMMETRY Symmetry
CHECK_DEADLOCK FALSE
