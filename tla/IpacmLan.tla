------------------------------ MODULE IpacmLan ------------------------------
(* IPACM_Lan: the interface object of a tethered USB or ODU network.  The  *)
(* object w.i of IpacmIface also has                                       *)
(*   pfx     ipv6_prefix (0 when unset)                                    *)
(*   ul      the families whose modem_ul_*_set flag is set                 *)
(*   odu     the header flags of the ODU (ipv4_header_set, ipv6_header_set)*)
(*   sub     if_ipv4_subnet, priv the subnets in its private-subnet rules  *)
(*   cl      its clients, in table order                                   *)
(* and the step record                                                     *)
(*   w.q     the event queue                                               *)
(*   w.ct    the client addresses handed to the conntrack listener         *)
(*   w.psif  the addresses the NAT application holds in power save       *)
(*   w.told  what IPACM_LanToLan has been told of: families and clients    *)
(*   w.modem the families whose uplink filters the modem was last told of  *)
(*   w.wan   the static state of IPACM_Wan                                 *)
EXTENDS IpacmIface

CONSTANTS
  MaxClients,   \* IPA_MAX_NUM_ETH_CLIENTS, IPA_MAX_NUM_WIFI_CLIENTS
  MaxV6         \* IPV6_NUM_ADDR

MaxDftV6 == 2   \* MAX_DEFAULT_v6_ROUTE_RULES

\* An IPv6 address is a pair <<prefix, host>>; link-local ones have prefix 0.

(***************************************************************************)
(* Posts to IPACM_LanToLan.                                                *)
(***************************************************************************)
eth_bridge_post_event(w, ev, x) ==
  [w EXCEPT !.told =
     CASE ev = "IFACE_DOWN" -> {}
       [] ev = "CLIENT_DEL" -> @ \ {x}
       [] OTHER             -> @ \cup {x}]

\* The conntrack listener serves the clients of NAT interfaces; an address
\* that comes or goes is no longer asleep.
HandleNeighIpAddrAddEvt(w, a) ==
  IF "dev" \in w.cfg.nat THEN [w EXCEPT !.ct = @ \cup {a}, !.psif = @ \ {a}] ELSE w
HandleNeighIpAddrDelEvt(w, a) ==
  IF a \in w.ct THEN [w EXCEPT !.ct = @ \ {a}, !.psif = @ \ {a}] ELSE w

(***************************************************************************)
(* The uplink rules, while a WAN is up.                                    *)
(***************************************************************************)
install_ipv6_prefix_flt_rule(w) == Filter(w, "pfx6")
delete_ipv6_prefix_flt_rule(w)  == Unfilter(w, "pfx6")

UplinkKind(fam)  == IF fam = "v4" THEN "ul4" ELSE "ul6"
StationKind(fam) == IF fam = "v4" THEN "lanwan4" ELSE "lanwan6"

\* Station backhaul: one rule to the WAN routing table.
handle_wan_up(w, fam) == Filter(w, StationKind(fam))

SendFilteringRuleIndex(w, fam) == [w EXCEPT !.modem = @ \cup {fam}]

\* The handles are kept for the family.
UplinkFilter(w, fam) == Filter(w, UplinkKind(fam))

\* The modem is told of the rules before they are in the driver.
handle_uplink_filter_rule(w, fam) == UplinkFilter(SendFilteringRuleIndex(w, fam), fam)

\* Modem backhaul.  The flag is set whatever the result.
handle_wan_up_ex(w, fam) ==
  IF fam \in w.i.ul \/ (fam = "v6" /\ Len(w.i.v6) # 1) THEN [w EXCEPT !.ok = TRUE]
  ELSE [handle_uplink_filter_rule(w, fam) EXCEPT !.i.ul = @ \cup {fam}]

handle_wan_down(w, sta) ==
  IF sta THEN Unfilter(w, "lanwan4")
  ELSE LET r == Unfilter(w, "ul4")
       IN  IF ~r.ok THEN r
           ELSE [r EXCEPT !.i.h["ul4"] = None, !.i.ul = @ \ {"v4"},
                          !.modem = @ \ {"v4"}]

handle_wan_down_v6Untold(w, sta) ==
  LET p == [delete_ipv6_prefix_flt_rule(w) EXCEPT !.i.pfx = 0]
      r == Unfilter(p, IF sta THEN "lanwan6" ELSE "ul6")
  IN  IF sta \/ ~r.ok THEN r
      ELSE [r EXCEPT !.i.h["ul6"] = None, !.i.ul = @ \ {"v6"}]

handle_wan_down_v6(w, sta) ==
  LET p == [delete_ipv6_prefix_flt_rule(w) EXCEPT !.i.pfx = 0]
      r == Unfilter(p, "ul6")
  IN  IF sta THEN Unfilter(p, "lanwan6")
      ELSE IF p.i.h["ul6"] = None THEN [p EXCEPT !.ok = FALSE]
      ELSE IF ~r.ok THEN r
      ELSE [r EXCEPT !.i.h["ul6"] = None, !.i.ul = @ \ {"v6"},
                     !.modem = @ \ {"v6"}]

WanUp(w, fam, sta) ==
  IF sta THEN handle_wan_up(w, fam) ELSE handle_wan_up_ex(w, fam)

\* The prefix rule goes in first, and whatever is there already.
WanUpV6(w, prefix, sta) ==
  WanUp(install_ipv6_prefix_flt_rule([w EXCEPT !.i.pfx = prefix]), "v6", sta)

\* IPACM_Wan::isWanUP, isWanUP_V6 of this interface.
isWanUP(w, fam) == fam \in w.wan.up /\ fam \in w.wan.tether

(***************************************************************************)
(* The addresses of the interface itself.                                  *)
(***************************************************************************)
install_ipv4_icmp_flt_rule(w) == Filter(w, "icmp4")
install_ipv6_icmp_flt_rule(w) == Filter(w, "icmp6")

\* The results of the filters are not looked at.
handle_addr_evt_v4(w, a) ==
  LET t == config_ip_type(AddPrivateSubnet([w EXCEPT !.i.sub = a], a, "own"), "v4")
      r == Route(t, "rt4")
      f == install_ipv4_icmp_flt_rule(init_fl_rule(r, "v4"))
  IN  IF ~r.ok THEN r
      ELSE [eth_bridge_post_event(f, "IFACE_UP", "v4") EXCEPT !.ok = TRUE]

handle_addr_evt_v6(w, a) ==
  LET s == config_ip_type(w, "v6")
      g == Route(s, IF Len(w.i.v6) = 0 THEN "rt6a" ELSE "rt6b")
      e == IF Len(w.i.v6) > 0 THEN g
           ELSE init_fl_rule(eth_bridge_post_event(install_ipv6_icmp_flt_rule(g),
                                                   "IFACE_UP", "v6"), "v6")
  IN  IF a \in ToSet(w.i.v6) THEN [w EXCEPT !.ok = FALSE]
      ELSE IF ~g.ok THEN g
      ELSE [e EXCEPT !.ok = TRUE, !.i.v6 = Append(@, a)]

handle_addr_evt(w, fam, a) ==
  IF fam = "v4" THEN handle_addr_evt_v4(w, a) ELSE handle_addr_evt_v6(w, a)

add_dummy_private_subnet_flt_rule(w, fam) ==
  IF fam = "v6" THEN w ELSE [Filter(w, "priv4") EXCEPT !.i.priv = {}]

\* One of the rules, which are changed together.
reset_to_dummy_flt_rule(w) ==
  IF ModifyFilteringRule(w, w.i.h["priv4"]).ok THEN [w EXCEPT !.i.priv = {}] ELSE w

\* The three rules are reset to dummies and set to the subnets of the table.
handle_private_subnet_android(w, fam) ==
  LET r == reset_to_dummy_flt_rule(w)
  IN  IF fam = "v6" THEN w
      ELSE IF ~ModifyFilteringRule(r, r.i.h["priv4"]).ok THEN r
      ELSE [r EXCEPT !.i.priv = ToSet(r.cfg.subs)]

(***************************************************************************)
(* Clients.                                                                *)
(***************************************************************************)
\* v4, v6 its addresses; r4, n6 route_rule_set_v4 and _v6; rt4, rt6 and hdr4,
\* hdr6 its handle fields; ps power_save_set; m4, m6 the pipe of its routes.
NewClient(mac, h4, h6) ==
  [mac |-> mac, v4 |-> 0, v6 |-> <<>>, r4 |-> FALSE, n6 |-> 0,
   hdr4 |-> h4, hdr6 |-> h6, rt4 |-> None, ps |-> FALSE, m4 |-> "scc",
   rt6 |-> [j \in 1 .. MaxV6 |-> None], m6 |-> [j \in 1 .. MaxV6 |-> "scc"]]

\* The first entry with that address, 0 (IPACM_INVALID_INDEX) if there is none.
get_eth_client_index(i, mac) ==
  SelectInSeq(i.cl, LAMBDA c : c.mac = mac)

delete_eth_rtrules(w, n, fam) ==
  LET c == w.i.cl[n]
      gone == IF fam = "v4" THEN IF c.r4 THEN {c.rt4} ELSE {}
              ELSE {c.rt6[j] : j \in 1 .. c.n6}
      cleared == IF fam = "v4" THEN [c EXCEPT !.r4 = FALSE] ELSE [c EXCEPT !.n6 = 0]
  IN  [w EXCEPT !.ok = TRUE, !.d = @ \ gone, !.i.cl[n] = cleared]

\* The partial header of the interface, filled in and added for each family.
ClientHeader_v4(w) == AddHeader(w, "chdr4")
ClientHeader_v6(w) == AddHeader(w, "chdr6")

\* A failure between the two forgets the first one.
AddClientHeaders(w, mac) ==
  LET a == ClientHeader_v4(w)
      b == ClientHeader_v6(a)
  IN  IF ~a.ok THEN a
      ELSE IF ~b.ok THEN b
      ELSE [b EXCEPT !.i.cl = Append(@, NewClient(mac, a.new, b.new))]

handle_eth_hdr_init(w, mac) ==
  IF get_eth_client_index(w.i, mac) # 0 \/ Len(w.i.cl) >= MaxClients
  THEN [w EXCEPT !.ok = FALSE]
  ELSE AddClientHeaders(w, mac)

\* A new or changed address of client n; ok says whether routes are to follow.
handle_eth_client_ipaddr(w, n, fam, a) ==
  IF n = 0 THEN [w EXCEPT !.ok = FALSE]
  ELSE LET c == w.i.cl[n]
           moved == delete_eth_rtrules(HandleNeighIpAddrDelEvt(w, c.v4), n, "v4")
       IN  IF fam = "v4"
           THEN IF a = 0 \/ a = c.v4 THEN [w EXCEPT !.ok = FALSE]
                ELSE IF c.v4 = 0 THEN [w EXCEPT !.ok = TRUE, !.i.cl[n].v4 = a]
                ELSE [moved EXCEPT !.i.cl[n].v4 = a]
           ELSE IF \/ a[1] \notin {0, w.i.pfx}
                   \/ Len(c.v6) >= MaxV6
                   \/ a \in ToSet(c.v6)
                THEN [w EXCEPT !.ok = FALSE]
                ELSE [w EXCEPT !.ok = TRUE, !.i.cl[n].v6 = Append(@, a)]

\* One route for the IPv4 address, one for each IPv6 address without a route.
\* n6 moves only when all of them are in.
AddClientRoutes(w, n, fam) ==
  LET c == w.i.cl[n]
      Six(r, j) == LET x == AddRoutingRule(r, "crt6")
                   IN  IF x.ok THEN [x EXCEPT !.i.cl[n].rt6[j] = x.new,
                                              !.i.cl[n].m6[j] = w.cfg.mode]
                       ELSE x
      four == AddRoutingRule(w, "crt4")
      six  == UntilFailure(Six, w, [j \in 1 .. Len(c.v6) - c.n6 |-> c.n6 + j])
  IN  IF fam = "v4"
      THEN IF four.ok THEN [four EXCEPT !.i.cl[n].rt4 = four.new,
                                        !.i.cl[n].r4 = TRUE,
                                        !.i.cl[n].m4 = w.cfg.mode]
           ELSE four
      ELSE IF six.ok THEN [six EXCEPT !.i.cl[n].n6 = Len(c.v6)] ELSE six

LacksRoute(c, fam) ==
  IF fam = "v4" THEN ~c.r4 /\ c.v4 # 0 ELSE c.n6 < Len(c.v6)

handle_eth_client_route_rule(w, n, fam) ==
  IF n # 0 /\ LacksRoute(w.i.cl[n], fam)
  THEN AddClientRoutes(AddRmDepend(w, w.i.tx), n, fam)
  ELSE [w EXCEPT !.ok = TRUE]

\* The address is looked up; one that is not there counts as the entry after
\* the last, unless the table is full.
handle_del_ipv6_addr(w, n, a) ==
  LET c == w.i.cl[n]
      m == Len(c.v6)
      k == IF a \in ToSet(c.v6) THEN CHOOSE j \in 1 .. m : c.v6[j] = a ELSE m + 1
      left == [j \in 1 .. m - 1 |-> IF j < k THEN c.v6[j] ELSE c.v6[j + 1]]
      hdls == [j \in 1 .. MaxV6 |-> IF j \in k .. m - 1 THEN c.rt6[j + 1] ELSE c.rt6[j]]
  IN  IF n = 0 \/ k > MaxV6 THEN [w EXCEPT !.ok = FALSE]
      ELSE IF c.n6 = 0 THEN [w EXCEPT !.ok = TRUE]
      ELSE [DeleteRoutingHdl(w, c.rt6[k]) EXCEPT
              !.i.cl[n] = [c EXCEPT !.v6 = left, !.n6 = @ - 1, !.rt6 = hdls]]

RemoveClientOneHeader(w, n) ==
  DeleteHeaderHdl(delete_eth_rtrules(delete_eth_rtrules(
    HandleNeighIpAddrDelEvt(w, w.i.cl[n].v4), n, "v4"), n, "v6"), w.i.cl[n].hdr4)
\* Everything client n has: its NAT connections, its routes, its headers.
RemoveClient(w, n) ==
  LET c == w.i.cl[n]
      r == delete_eth_rtrules(delete_eth_rtrules(
             HandleNeighIpAddrDelEvt(w, c.v4), n, "v4"), n, "v6")
  IN  DeleteHeaderHdl(DeleteHeaderHdl(r, c.hdr4), c.hdr6)

handle_eth_client_down_evt(w, n) ==
  IF n = 0 THEN [w EXCEPT !.ok = TRUE]
  ELSE LET r == [RemoveClient(w, n) EXCEPT !.i.cl = RemoveAt(@, n)]
       IN  IF Len(r.i.cl) = 0 THEN DelRmDepend(r, w.i.tx) ELSE r

handle_lan_client_reset_rt(w, fam) ==
  LET Reset(r, n) == [delete_eth_rtrules(r, n, fam) EXCEPT !.i.cl[n].v6 = <<>>]
  IN  FoldLeft(Reset, w, [n \in DOMAIN w.i.cl |-> n])

(***************************************************************************)
(* ODU.                                                                    *)
(***************************************************************************)
OduHeader_v4(w) ==
  LET r == Header(w, "ohdr4") IN [r EXCEPT !.i.odu = IF r.ok THEN @ \cup {"v4"} ELSE @]
OduHeader_v6(w) ==
  LET r == Header(w, "ohdr6") IN [r EXCEPT !.i.odu = IF r.ok THEN @ \cup {"v6"} ELSE @]

handle_odu_hdr_init(w) ==
  LET a == OduHeader_v4(w) IN IF a.ok THEN OduHeader_v6(a) ELSE a

handle_odu_route_add(w) == UntilFailure(Route, w, <<"ort4", "ort6">>)
handle_odu_route_del(w) == UntilFailure(Unroute, w, <<"ort4", "ort6">>)

\* Bridge mode: only the first IPv6 address is handed to the ODU driver.
handle_addr_evt_odu_bridge(w, a) == [w EXCEPT !.i.v6 = Append(@, a)]

(***************************************************************************)
(* The interface goes down.  Rules whose deletion fails stop the deletion   *)
(* of the rest; the clients, the software routing rules and the rx side go  *)
(* in any case, and the object asks to be deleted.                         *)
(***************************************************************************)
OduDown(w) ==
  LET r == IF w.cfg.embms THEN handle_odu_route_del(w) ELSE w
      Drop(x, fam) == DeleteHeaderHdl(x, x.i.h[IF fam = "v4" THEN "ohdr4" ELSE "ohdr6"])
  IN  IF w.i.cat # "odu" THEN [w EXCEPT !.ok = TRUE]
      ELSE UntilFailure(Drop, r, SelectSeq(<<"v4", "v6">>, LAMBDA f : f \in w.i.odu))

UplinksDown(w) ==
  LET a == IF isWanUP(w, "v4") THEN handle_wan_down(w, w.wan.sta) ELSE w
  IN  IF isWanUP(w, "v6") THEN handle_wan_down_v6(a, w.wan.sta) ELSE a

OwnRulesDown(w) ==
  LET four == IF HasV4(w.i) THEN <<"icmp4", "dft4", "priv4">> ELSE <<>>
      six  == IF HasV6(w.i) THEN <<"icmp6", "dft6">> ELSE <<>>
      gone == UntilFailure(Unfilter, w, four \o six)
      rts  == (IF HasV4(w.i) THEN {"rt4"} ELSE {})
              \cup (IF Len(w.i.v6) > 0 /\ HasV6(w.i) THEN {"rt6a"} ELSE {})
              \cup (IF Len(w.i.v6) > 1 /\ HasV6(w.i) THEN {"rt6b"} ELSE {})
  IN  IF gone.ok THEN [gone EXCEPT !.d = @ \ {w.i.h[k] : k \in rts}] ELSE gone

PeersTold(w) ==
  LET b == eth_bridge_post_event(w, "IFACE_DOWN", "all")
  IN  IF HasV4(w.i) THEN DelPrivateSubnet(b, w.i.sub, "own") ELSE b

\* The object is to go only when the event comes back to it.
post_del_self_evt(w) == [w EXCEPT !.q = Append(@, [ev |-> "delete_self"])]

\* The label "fail", which every path reaches.
Finish(w) ==
  LET gone == FoldLeft(RemoveClient, w, [n \in DOMAIN w.i.cl |-> n])
      soft == DelRmDepend(handle_software_routing_disable(gone), w.i.rx)
  IN  post_del_self_evt([soft EXCEPT !.i.cl = <<>>, !.i.act = FALSE])

handle_down_evt(w) ==
  LET o == OduDown(w)
      r == OwnRulesDown(UplinksDown(o))
  IN  IF ~o.ok \/ w.i.ip = "null" THEN Finish(o)
      ELSE IF ~r.ok THEN Finish(r)
      ELSE Finish(PeersTold(DelRmDepend(r, w.i.tx)))
=============================================================================
