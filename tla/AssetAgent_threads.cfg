SPECIFICATION ThreadsSpec
CONSTANTS
  dc1 = dc1  dc2 = dc2  rack = rack  grp = grp
  dev1 = dev1  dev2 = dev2  vm = vm  rc0 = rc0  ng = ng  old = old  srr = srr
  None = None
  Assets = {dc1, dc2, rack, dev1}
  Kind <- MCKind
  RC0 = None
  Threads = {ng, old, srr}
  Legacy = {old}
  Srr = {srr}
  MaxActive = 1
  LicenceFaults = TRUE
  Inside <- MCDeep
  Wires <- MCNoWires
  Overlap = TRUE
  MaxRequests = 3
INVARIANTS NoDanglingReference
PROPERTIES LastDatacenterStays ImplementsRegistry
SYMMETRY Datacenters
CHECK_DEADLOCK FALSE
