-------------------------- MODULE MCIpacmBackhaul ---------------------------
(* IpacmBackhaul for TLC. *)
EXTENDS IpacmBackhaul

Scene(kinds, fams, tethers, refusable, nlinks, nroutes, extra) ==
  [kinds |-> kinds, fams |-> fams, tethers |-> tethers, refusable |-> refusable,
   links |-> nlinks, routes |-> nroutes, extra |-> extra]

MCScenes == {
  \* two uplinks, one family, two tethered interfaces
  Scene(<<"q6", "wlan">>, {"v4"}, {"usb", "ap"}, {}, 2, 2, 0),
  Scene(<<"q6", "ecm">>, {"v6"}, {"usb"}, {}, 2, 2, 0),
  \* two PDNs of the modem
  Scene(<<"q6", "q6">>, {"v4", "v6"}, {"usb"}, {}, 2, 2, 0),
  Scene(<<"q6", "embms">>, {"v4"}, {"usb"}, {}, 2, 2, 2),
  \* one uplink, everything
  Scene(<<"q6">>, {"v4", "v6"}, {"usb"}, {}, 2, 2, 1),
  Scene(<<"wlan">>, {"v4", "v6"}, {"usb"}, {"wr4", "a5", "nrt6"}, 2, 2, 0),
  Scene(<<"ecm">>, {"v4"}, {"usb"}, {}, 1, 2, 3),
  Scene(<<"ecm">>, {"v6"}, {"usb"}, {}, 1, 2, 2),
  Scene(<<"ecm">>, {"v4", "v6"}, {"usb"}, {}, 1, 2, 1)}

MCOwns == [f \in {"v4", "v6"} |-> IF f = "v4" THEN {1, 2} ELSE {9, 25}]
ByKind(modem, sta) == [k \in {"q6", "embms", "wlan", "ecm"} |->
                         IF k \in {"q6", "embms"} THEN modem ELSE sta]
MCPeers == ByKind({}, {<<"m1", "v4", 7>>, <<"m1", "v6", 7>>})
MCGateways == ByKind({6}, {7})

\* One that is off, one that accepts what its entries say, one that accepts all but them.
Entry(fam, proto, port) == [fam |-> fam, proto |-> proto, port |-> port]
MCFirewalls == [f \in {"off", "accept", "deny"} |->
  CASE f = "off" -> [enable |-> FALSE, accept |-> FALSE, entries |-> <<Entry("v6", "tcp", "web")>>]
    [] f = "accept" -> [enable |-> TRUE, accept |-> TRUE,
         entries |-> <<Entry("v4", "tcpudp", "web"), Entry("v6", "tcp", "web")>>]
    [] f = "deny" -> [enable |-> TRUE, accept |-> FALSE,
         entries |-> <<Entry("v6", "udp", "any"), Entry("v4", "tcp", "web")>>]]

MCAlgPorts == <<[proto |-> "tcp", port |-> "ftp"]>>

\* A plain packet, and some that differ from it.
Plain == [dst |-> "client", addr |-> 0, proto |-> "tcp", port |-> "web", sport |-> "any", flag |-> "none",
          frag |-> FALSE]
MCPackets == [fam \in {"v4", "v6"} |->
  { Plain, [Plain EXCEPT !.proto = "udp"], [Plain EXCEPT !.port = "other"],
    [Plain EXCEPT !.proto = "icmp"], [Plain EXCEPT !.frag = TRUE, !.port = "none", !.proto = "udp"],
    [Plain EXCEPT !.dst = "multicast"] }
  \cup IF fam = "v4" THEN {[Plain EXCEPT !.sport = "ftp"], [Plain EXCEPT !.dst = "broadcast"]}
       ELSE {[Plain EXCEPT !.flag = "syn"], [Plain EXCEPT !.dst = "linklocal"], [Plain EXCEPT !.addr = 25]}]
=============================================================================
