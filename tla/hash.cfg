SPECIFICATION Spec
CONSTANTS
  k1 = k1
  k2 = k2
  k3 = k3
  k4 = k4
  Key = {k1, k2, k3, k4}
  Data = {d1, d2}
  Absent = Absent
  NBuckets = 3
  Word = 4
  hash_index_gen <- MCIndex
  MaxCount = 4
  Requests <- MCAligned
  Align = 4
  Strays = {0, 1, 3, 4}
  Deletes = TRUE
  MaxPools = 2
CHECK_DEADLOCK FALSE
INVARIANTS Accounted BlocksDisjoint EntriesAreBlocksInUse WalkMatchesLookup
PROPERTIES TableIsMap
