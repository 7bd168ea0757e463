--------------------------- MODULE MCIpacmTether ----------------------------
(* IpacmTether for TLC: addresses are <<prefix, host>>.  Each kind of       *)
(* interface has what its own code makes interesting: a LAN a WAN that      *)
(* comes up twice, an ODU clients with two IPv6 addresses, an access point  *)
(* a driver that refuses a route.                                           *)
EXTENDS IpacmTether

By(lan, odu, wlan) == [kind \in {"lan", "odu", "odub", "wlan"} |->
  IF kind = "lan" THEN lan ELSE IF kind = "wlan" THEN wlan ELSE odu]

MCMacs   == By({"m1"}, {"m1"}, {"m1"})
MCV4     == By({1}, {}, {1})
MCV6     == By({}, {<<0, 1>>, <<1, 1>>}, {<<1, 1>>})
MCOwn    == By({<<0, 9>>, <<1, 9>>}, {<<0, 9>>}, {<<0, 9>>})
MCRefuse == By({}, {}, {"crt6"})
MCWan    == By(2, 1, 1)
MCExtra  == By(0, 1, 1)
MCLinks  == [By(1, 1, 1) EXCEPT !["odub"] = 2]
=============================================================================
