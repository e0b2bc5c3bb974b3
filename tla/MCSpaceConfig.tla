--------------------------- MODULE MCSpaceConfig ---------------------------
(***************************************************************************)
(* Instances of SpaceConfig for TLC: three primary statuses and a fourth   *)
(* master, two default levels; a ticket space may be made with one status  *)
(* named, a primary one or the fourth.                                     *)
(***************************************************************************)
EXTENDS SpaceConfig

CONSTANTS c1, c2

TwoRequests == {c1, c2}
Master(n, b, p) == [name |-> n, base |-> b, isPrimaryBase |-> p]
FourMasters == {Master("New", 1, TRUE), Master("Doing", 2, TRUE), Master("Done", 3, TRUE),
                Master("Review", 2, FALSE)}
OneNamed == {<<Master("Done", 3, TRUE)>>, <<Master("Review", 2, FALSE)>>}

StatusWork == {"addStatus", "addExistingStatus", "updateSpaceStatus", "removeStatus",
               "updateStatusSequence"}
LevelWork == {"addHierarchyLevel", "updateHierarchyLevel", "patchHierarchyLevel",
              "saveAllHierarchyLevels", "removeHierarchyLevel"}
TaskWork == {"createTask", "patchStatus"}
Reading == {"getStatusConfig", "getHierarchyLevelConfig", "look", "seedAll"}
RestWork == {"change", "toggle", "unseen"}
AnyWork == StatusWork \cup LevelWork \cup TaskWork \cup Reading \cup RestWork

Symmetry == Permutations(Requests)
=============================================================================
