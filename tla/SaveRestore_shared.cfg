SPECIFICATION SharedSpec
CONSTANTS
  dc1 = dc1  rack = rack  dev1 = dev1  dev2 = dev2  vm = vm
  None = None
  Assets = {dc1, rack, dev1, dev2}
  Kind <- MCKind
  MaxActive = 1
  Inside <- MCInside
  Wires <- MCWires
  NameOrder <- MCOrder
  MaxRequests = 2
  MaxChanges = 1
INVARIANTS CreditsAgreeAfterRestore CalmRequestIsAnswered
PROPERTIES RestoredAsSaved
CHECK_DEADLOCK FALSE
