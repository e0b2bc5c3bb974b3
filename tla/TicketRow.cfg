SPECIFICATION FairSpec
CONSTANTS
  q1 = q1  q2 = q2
  NoRequest = NoRequest  NoEntity = NoEntity
  Requests <- TwoRequests
  Handlers <- All
  StartStatuses <- Open
  SlaTimes = {0, 2, 3}
  Texts = {1}
  Faulty = TRUE
  MaxServed = 2
INVARIANTS
  TypeOK
  LogAddsUp
  Settled
PROPERTIES
  AllAnswered
CHECK_DEADLOCK FALSE
