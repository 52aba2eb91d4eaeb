SPECIFICATION CallsSpec
CONSTANTS
  dc1 = dc1  dc2 = dc2  rack = rack  ups = ups  epdu = epdu  sensor = sensor  feed1 = feed1  feed2 = feed2
  None = None
  RC0 = None
  Assets = {dc1, dc2, rack, ups, epdu, sensor, feed1, feed2}
  Kind <- MCKind
  MaxActive = 1
  Sensors <- MCSensors
  Feeds <- MCFeeds
  FastTrack <- MCFastTrack
  ById <- MCById
  SendNotify = TRUE
  Threads = {t1, t2}
  LicenceFaults = TRUE
  CamFaults = TRUE
  Inside <- MCInside
  Wires <- MCWires
  Credentials <- MCCredentials
  Refs <- MCRefs
  Lists <- MCLists
  Ones <- MCOnes
  Moves <- MCMoves
  MaxEvents = 2
INVARIANTS LogicalAssetsExist DeletedAreGone CreditsAgree MappingsFollowAssets
PROPERTIES RefusalsAreExplained LastOnesStay CallReturns
CHECK_DEADLOCK FALSE
