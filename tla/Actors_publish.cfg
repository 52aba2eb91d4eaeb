SPECIFICATION PublishSpec
CONSTANTS
  rc1 = rc1  rc2 = rc2  room = room  dev = dev
  v1 = v1  v2 = v2  v6 = v6  u1 = u1  u2 = u2  u3 = u3  u4 = u4
  None = None  All = All
  Assets = {room, dev}
  RackControllers = {}
  Container <- MCRoom
  Keys <- MCKey
  Values = {v1}
  Ipv6 = {}
  Uuids = {u1, u2, u3, u4}
  Identity <- MCIdentified
  Interfaces <- MCInterfaces
  DnsName <- MCDns
  Clients = {"library", "client"}
  Questions <- MCQuestions
  Activities = {"create", "update", "delete", "ask", "repeat"}
  Reports <- MCNoReports
  Edits <- MCEdit
  MaxQueue = 2
  MaxFaults = 1
  MaxChanges = 1
INVARIANTS PublishedUuidIsStored
PROPERTIES RepublishCovers RequestsAreAnswered UuidsSettle
