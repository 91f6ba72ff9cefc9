SPECIFICATION WatchedSpec
CONSTANTS
  Items = {sword, core}
  Levels = {few, many}
  None = None
  Workers = {w1, w2}
  Tabs = {t1}
  MaxEdits = 1
  MaxPushes = 1
SYMMETRY Symmetry
INVARIANTS
  NoDuplicates
  SyncRepairs
