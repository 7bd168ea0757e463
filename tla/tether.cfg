SPECIFICATION Spec
CONSTANTS
  MaxSubnets = 2
  MaxClients = 2
  MaxV6 = 2
  Cats = {"lan", "odu", "odub", "wlan"}
  Macs <- MCMacs
  V4Addrs <- MCV4
  V6Addrs <- MCV6
  OwnV6 <- MCOwn
  Refusable <- MCRefuse
  MaxStray = 0
  MaxFailures = 1
  MaxLinks <- MCLinks
  MaxWan <- MCWan
  MaxQueue = 2
  MaxExtra <- MCExtra
INVARIANTS NothingOrphaned RulesFollow OthersKnow
CHECK_DEADLOCK FALSE
