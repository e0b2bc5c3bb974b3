SPECIFICATION PulseSpec
CONSTANTS
  u1 = u1  u2 = u2  q1 = q1  q2 = q2
  Users = {u1, u2}
  Linked = {u1, u2}
  ChunkSize = 1
  Callers = {q1, q2}
  Operations <- Everything
  Periods = {1, 2}
  MaxWeeks = 6
  Hours = {1}
  ClientStatuses = {"DRAFT"}
  MaxCalls = 3
INVARIANTS
  PulseTypes
  SnapshotsRight
PROPERTIES
  SubmittedStays
  CronCovers
SYMMETRY Symmetry
CHECK_DEADLOCK FALSE
