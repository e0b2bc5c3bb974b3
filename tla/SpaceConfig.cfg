SPECIFICATION ConfigSpec
CONSTANTS
  c1 = c1  c2 = c2
  Requests <- TwoRequests
  Handlers <- AnyWork
  Faulty = TRUE
  MaxServed = 2
  Names = {"New", "Doing", "Done", "Review"}
  LevelNames = {"Epic", "Story"}
  Masters <- FourMasters
  Tasks = {"t1"}
  Rests = {0, 1}
  DefaultLevels = 0
  NamedLists <- OneNamed
  NoName = NoName
  Absent = Absent
SYMMETRY Symmetry
CHECK_DEADLOCK FALSE
INVARIANTS
  ConfigTypes
  BlobFresh
  InBaseOrder
