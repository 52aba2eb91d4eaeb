SPECIFICATION OneSpec
CONSTANTS
  dc1 = dc1  dc2 = dc2  rack = rack  grp = grp
  dev1 = dev1  dev2 = dev2  vm = vm  rc0 = rc0  ng = ng  old = old  srr = srr
  None = None
  Assets = {dc1, dc2, rack, dev1, dev2}
  Kind <- MCKind
  RC0 = None
  Threads = {ng}
  Legacy = {}
  Srr = {}
  MaxActive = 1
  LicenceFaults = FALSE
  Inside <- MCDeep
  Wires <- MCWires
  Overlap = FALSE
  MaxRequests = 2
INVARIANTS TypeOK CreditsAgree SubscribersKnowAssets
PROPERTIES RefusalsAreExplained Answered ImplementsRegistry
CHECK_DEADLOCK FALSE
