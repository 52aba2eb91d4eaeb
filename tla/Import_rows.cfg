SPECIFICATION Spec
CONSTANTS
  t1 = t1  t2 = t2  rc0 = rc0  dc1 = dc1  dc2 = dc2  rack = rack  ups = ups  far = far  new = new  group = group
  None = None
  RC0 = 1
  Names = {rc0, dc1, dc2, rack, ups, far, new, group}
  Serials = {"serial"}
  Threads = {t1, t2}
  Databases <- MCDatabases
  Calls <- MCCalls
  MaxActive = 1
  MaxFaults = 1
  MaxDeletions = 1
INVARIANTS TypeOK NamesAreUnique PlacedApart ResultsAreTrue
PROPERTIES ImportReturns
CHECK_DEADLOCK FALSE
