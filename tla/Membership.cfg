SPECIFICATION Spec
CONSTANTS
  k1 = k1  k2 = k2  r1 = r1  r2 = r2
  q1 = q1  q2 = q2  p1 = p1
  Companies = {k1, k2}
  Roles = {r1, r2}
  HomeOf <- OwnRole
  Privileges = {p1}
  First = k1
  NoCompany = NoCompany
  Absent = Absent
  Requests = {q1, q2}
  Handlers <- Everything
  Faulty = TRUE
  MaxServed = 2
INVARIANTS
  TypeOK
  
  CachesFresh
SYMMETRY Symmetry
CHECK_DEADLOCK FALSE
