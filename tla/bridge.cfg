SPECIFICATION Spec
CONSTANTS
  Kinds <- MCKinds
  L2Types <- MCL2Types
  NoObj = NoObj
  MaxIface = 3
  MaxPeers = 2
  MaxCached = 2
  Virtual = "bridge0"
  LinkLocal = 169
  MaxNeighbors = 2
  Ptrs = {o1, o2, o3}
  MaxWaiting = 3
  Macs = {"c1", "c2", "c3"}
  MaxTable = 2
  Addresses <- MCAddresses
  Scenes <- MCScenes
  Cast <- MCCast
  Crowd <- MCCrowd
  Bridged <- MCBridged
  Plays <- MCPlays
  MaxPlays <- MCMaxPlays
INVARIANTS NothingLeaked Offloaded ClientsKnown
CHECK_DEADLOCK FALSE
