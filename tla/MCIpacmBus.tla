----------------------------- MODULE MCIpacmBus -----------------------------
(* IpacmBus for TLC. *)
EXTENDS IpacmBus

MCIfaces == {"rmnet0", "usb0", "eth0", "odu0", "wlan0", "wlan1", "wlan2"}
MCKinds == [i \in MCIfaces |-> CASE i = "rmnet0" -> "modem" [] i = "usb0" -> "usb"
                                 [] i = "eth0" -> "eth" [] i = "odu0" -> "odu"
                                 [] OTHER -> "wlan"]

MCScenes == {"cradle", "replug", "wifi", "three", "uplink", "multicast", "signals", "ether", "both"}
MCCast == [s \in MCScenes |->
  CASE s \in {"cradle", "replug"} -> {"usb0"} [] s = "wifi" -> {"wlan0"}
    [] s = "three" -> {"wlan0", "wlan1", "wlan2"} [] s \in {"uplink", "multicast"} -> {"rmnet0"}
    [] s = "signals" -> {"odu0"} [] s = "ether" -> {"eth0"} [] OTHER -> {"usb0", "rmnet0"}]
MCPlays == [s \in MCScenes |->
  CASE s = "cradle" -> {"edit", "cable"}
    [] s = "replug" -> {"unregister", "register", "address"}
    [] s = "wifi" -> {"wifi", "edit", "address"}
    [] s = "three" -> {"wifi"}
    [] s = "uplink" -> {"up", "route", "WAN_XLAT_CONNECT"}
    [] s = "multicast" -> {"up", "address", "WAN_EMBMS_CONNECT"}
    [] s = "signals" -> {"up", "cable", "signal"}
    [] s = "ether" -> {"up", "cable", "address"}
    [] OTHER -> {"up", "cable", "address"}]
MCMaxPlays == [s \in MCScenes |-> IF s \in {"replug", "multicast", "uplink"} THEN 4
                             ELSE IF s = "both" THEN 2 ELSE 3]
=============================================================================
