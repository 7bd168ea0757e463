---------------------------- MODULE IpacmNetlink ----------------------------
(* What IPACM makes of the kernel's notifications: the messages of the      *)
(* netlink socket (ipacm/src/IPACM_Netlink.cpp) and of /dev/ipa             *)
(* (ipacm/src/IPACM_Main.cpp), as sequences of events to post.  Addresses   *)
(* and masks are reduced to "is it the default route".  An interface is     *)
(* known to the kernel by an index that changes when it is registered anew. *)
EXTENDS Naturals, Sequences

Evt(ev, m) == [ev |-> ev, i |-> m.i, x |-> m.x]

\* RTM_NEWLINK: the IFF_UP flag when it has changed; then up when the interface runs
\* (IFF_RUNNING and IFF_LOWER_UP), down when it has no carrier, and nothing for a carrier
\* whose interface does not run yet.  The name is looked up while the message is decoded.
NewLinkEvents(m) ==
  (IF m.change THEN <<Evt(IF m.up THEN "LINK_UP" ELSE "LINK_DOWN", m)>> ELSE <<>>)
  \o (IF m.lower /\ m.runs THEN <<Evt("USB_LINK_UP", m)>> ELSE <<>>)
  \o (IF ~m.lower THEN <<Evt("LINK_DOWN", m)>> ELSE <<>>)

DelLinkEvents(m) == <<Evt("LINK_DOWN", m)>>

NewAddrEvents(m) == <<Evt("ADDR_ADD", m)>>

\* Routes of the main table.  A message that names a destination is taken for a host
\* route; one that does not, for a default route.
FromRouter(m) == m.proto \in {"boot", "ra"}
FromKernel(m) == m.proto = "kernel" /\ m.fam = "v6"

NewRouteEvents(m) ==
  (IF FromRouter(m) THEN <<Evt(IF m.dst THEN "ROUTE_ADD" ELSE "DEFAULT_ADD", m)>> ELSE <<>>)
  \o (IF FromKernel(m) /\ m.dst THEN <<Evt("ROUTE_ADD", m)>> ELSE <<>>)
  \o (IF FromKernel(m) /\ m.gw
      THEN <<Evt(IF m.dst THEN "ROUTE_ADD" ELSE "DEFAULT_ADD", m)>> ELSE <<>>)

DelRouteEvents(m) ==
  (IF FromRouter(m) THEN <<Evt(IF m.dst THEN "ROUTE_DEL" ELSE "DEFAULT_DEL", m)>> ELSE <<>>)
  \o (IF FromKernel(m) /\ m.dst THEN <<Evt("ROUTE_DEL", m)>> ELSE <<>>)

\* ipa_nl_decode_nlmsg: nothing is posted for an interface whose name is not found,
\* except for an address.
Decode(m, named) ==
  CASE m.type = "NEWLINK" /\ named -> NewLinkEvents(m)
    [] m.type = "DELLINK" /\ named -> DelLinkEvents(m)
    [] m.type = "NEWADDR" -> NewAddrEvents(m)
    [] m.type = "NEWROUTE" /\ named -> NewRouteEvents(m)
    [] m.type = "DELROUTE" /\ named -> DelRouteEvents(m)
    [] OTHER -> <<>>

\* ipa_driver_msg_notifier.
WlanMessages == {"WLAN_AP_CONNECT", "WLAN_STA_CONNECT", "WLAN_AP_DISCONNECT", "WLAN_STA_DISCONNECT"}
WlanEvents(m) ==
  CASE m.type = "WLAN_AP_CONNECT" -> <<Evt("WLAN_AP_LINK_UP", m)>>
    [] m.type = "WLAN_STA_CONNECT" -> <<Evt("WLAN_STA_LINK_UP", m)>>
    [] OTHER -> <<Evt("WLAN_LINK_DOWN", m)>>

EcmEvents(m) ==
  <<Evt(IF m.type = "ECM_CONNECT" THEN "USB_LINK_UP" ELSE "LINK_DOWN", m)>>

\* The link of an XLAT connection is announced first: there may be no object yet.
WanEvents(m) ==
  CASE m.type = "WAN_EMBMS_CONNECT" -> <<Evt("WAN_EMBMS_LINK_UP", m)>>
    [] m.type = "WAN_XLAT_CONNECT" -> <<Evt("LINK_UP", m), Evt("WAN_XLAT_CONNECT", m)>>

Notifier(m) ==
  CASE m.type \in WlanMessages -> WlanEvents(m)
    [] m.type \in {"ECM_CONNECT", "ECM_DISCONNECT"} -> EcmEvents(m)
    [] OTHER -> WanEvents(m)

\* firewall_monitor: the configuration file was written.
MonitorEvents(m) == <<Evt("CFG_CHANGE", m)>>
=============================================================================
