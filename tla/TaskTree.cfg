SPECIFICATION FairSpec
CONSTANTS
  t1 = t1  t2 = t2  t3 = t3  t4 = t4
  q1 = q1  q2 = q2
  NoTask = NoTask
  Tasks = {t1, t2, t3, t4}
  Requests = {q1, q2}
  Handlers <- Everything
  Named = {t1, t4}
  Tree <- Chain
  Efforts = {1}
  NewBases = {"Finished"}
  Dues = {0, 1}
  MaxServed = 2
  MaxEffort = 2
INVARIANTS
  TypeOK
  ParentsExist
  SumsRight
PROPERTIES
  RequestEnds
CHECK_DEADLOCK FALSE
