SPECIFICATION AddressesSpec
CONSTANTS
  rc1 = rc1  rc2 = rc2  room = room  dev = dev
  v1 = v1  v2 = v2  v6 = v6  u1 = u1  u2 = u2  u3 = u3  u4 = u4
  None = None  All = All
  Assets = {rc1, rc2}
  RackControllers = {rc1, rc2}
  Container <- MCFlat
  Keys <- MCKeys
  Values = {v1, v2, v6}
  Ipv6 = {v6}
  Uuids = {u1}
  Identity <- MCAlike
  Interfaces <- MCInterfaces
  DnsName <- MCDns
  Clients = {"library"}
  Questions <- MCNoQuestions
  Activities = {"report", "create", "update", "delete", "address", "wake"}
  Reports <- MCReports
  Edits <- MCEdits
  MaxQueue = 2
  MaxFaults = 1
  MaxChanges = 2
INVARIANTS CacheIsTrue VacuumedWhenAnnounced
PROPERTIES AddressesArrive
