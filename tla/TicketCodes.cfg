SPECIFICATION FairSpec
CONSTANTS
  c1 = c1  c2 = c2
  s1 = s1  s2 = s2
  r1 = r1  r2 = r2
  i1 = i1  i2 = i2  i3 = i3
  NoClient = NoClient  NoSpace = NoSpace  NoCode = NoCode  NoId = NoId
  Clients <- TwoClients
  Spaces <- TwoSpaces
  Prefix <- OwnPrefix
  RowIds = {r1, r2}
  Ids = {i1, i2}
  UniqueCode = TRUE
  AtomicDelete = TRUE
  Requests <- Backend
  Seed <- OneRowEach
  Batches <- AnySpaces
  MaxInt = 3
INVARIANTS
  TypeOK
  AutoCodeFresh
  CounterAhead
PROPERTIES
  DenseCodes
  RequestEnds
