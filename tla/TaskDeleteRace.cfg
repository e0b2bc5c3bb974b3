SPECIFICATION Spec
CONSTANTS
  c1 = c1  c2 = c2
  s1 = s1  s2 = s2
  r1 = r1  r2 = r2
  i1 = i1  i2 = i2  i3 = i3
  NoClient = NoClient  NoSpace = NoSpace  NoCode = NoCode  NoId = NoId
  Clients <- TwoClients
  Spaces <- OneSpace
  Prefix <- OwnPrefix
  RowIds = {r1}
  Ids = {i1, i2, i3}
  UniqueCode = FALSE
  AtomicDelete = FALSE
  Requests <- Backend
  Seed <- OneRow
  Batches <- OneItem
  MaxInt = 4
SYMMETRY Symmetry
INVARIANTS
  CodesUnique
