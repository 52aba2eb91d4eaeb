SPECIFICATION WalkSpec
CONSTANTS
  d1 = d1  d2 = d2  d3 = d3  d4 = d4
  Devices = {d1, d2, d3, d4}
  Subtypes <- MCSubtypes
  Feeds <- MCForward
  MaxChanges = 1
INVARIANTS ListedAreFirst AnswerIsComplete
PROPERTIES WalkEnds
CHECK_DEADLOCK FALSE
