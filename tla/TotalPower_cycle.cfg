SPECIFICATION FairSpec
CONSTANTS
  d1 = d1  d2 = d2  d3 = d3  d4 = d4
  Devices = {d1, d2, d3}
  Subtypes <- MCSubtypes
  Feeds <- MCLoop
  MaxChanges = 0
PROPERTIES WalkEnds
CHECK_DEADLOCK FALSE
