SPECIFICATION Spec
CONSTANTS
  MaxSubnets = 2
  MaxNeighbours = 1
  Scenes <- MCScenes
  Owns <- MCOwns
  Peers <- MCPeers
  Gateways <- MCGateways
  MaxOdd = 1
  Initial = "off"
  Firewalls <- MCFirewalls
  AlgPorts <- MCAlgPorts
  Packets <- MCPackets
INVARIANTS OneDefault EveryoneKnows DownlinkFollows NothingLeaked
CHECK_DEADLOCK FALSE
