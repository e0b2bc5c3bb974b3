SPECIFICATION Spec
CONSTANTS
  q1 = q1  q2 = q2  p1 = p1  p2 = p2
  Requests = {q1, q2}
  Handlers <- Everything
  Faulty = TRUE
  Consumer = q2
  MaxServed = 2
  People = {p1, p2}
  Nobody = Nobody
  Creator = p1
  Participants = {p2}
  Starts <- SixStarts
  Actors = {p2}
  RuleBook <- TwoRules
INVARIANTS
  TypeOK
  SentOnce
  Addressed
  AllTold
  CleanedUp
CHECK_DEADLOCK FALSE
