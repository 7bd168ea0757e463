--------------------------- MODULE MCIpacmBridge ----------------------------
(* IpacmBridge for TLC. *)
EXTENDS IpacmBridge

MCKinds == [i \in {"usb0", "wlan0", "wlan1"} |->
  CASE i = "usb0" -> [l2 |-> "eth", wlan |-> FALSE] [] i = "wlan0" -> [l2 |-> "eth", wlan |-> TRUE]
    [] OTHER -> [l2 |-> "802_3", wlan |-> TRUE]]
MCL2Types == {"eth", "802_3"}
MCAddresses == {1, 2, 169}
MCScenes == {"wifi", "roam", "guest", "channel", "crowd", "cable", "six", "three", "lodgers"}
MCCast == [s \in MCScenes |->
  CASE s \in {"wifi", "cable"} -> {"usb0", "wlan0"} [] s \in {"roam", "guest", "channel"} -> {"wlan0", "wlan1"}
    [] s = "crowd" -> {"wlan0"} [] s \in {"six", "lodgers"} -> {"usb0"} [] OTHER -> {"usb0", "wlan0", "wlan1"}]
MCCrowd == [s \in MCScenes |-> CASE s \in {"crowd", "lodgers"} -> {"c1", "c2", "c3"} [] s = "three" -> {"c1", "c2"} [] OTHER -> {"c1"}]
MCBridged == [s \in MCScenes |->
  CASE s = "roam" -> {"wlan0", "wlan1"} [] s \in {"cable", "lodgers"} -> {"usb0", "wlan0"} [] OTHER -> {}]
MCPlays == [s \in MCScenes |->
  CASE s = "wifi" -> {"address", "client", "link"} [] s \in {"roam", "lodgers"} -> {"client", "neighbour"}
    [] s = "guest" -> {"address", "client", "guest"} [] s = "channel" -> {"address", "client", "channel"}
    [] s = "crowd" -> {"address", "client"} [] s = "cable" -> {"address", "client", "neighbour"}
    [] s = "six" -> {"client", "neighbour", "six"} [] OTHER -> {"address", "client", "link"}]
MCMaxPlays == [s \in MCScenes |->
  CASE s = "roam" -> 8 [] s \in {"six", "lodgers"} -> 7 [] s \in {"crowd", "cable"} -> 6 [] s = "three" -> 4 [] OTHER -> 5]
=============================================================================
