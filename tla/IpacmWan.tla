------------------------------ MODULE IpacmWan ------------------------------
(* IPACM_Wan: the interface object of an uplink.  Its kind w.i.kind is "q6" *)
(* (the modem), "embms" (the modem's broadcast), "wlan" (a station) or      *)
(* "ecm" (a USB dongle).  The object also has                               *)
(*   a4      wan_v4_addr, 0 until wan_v4_addr_set                           *)
(*   pfx     ipv6_prefix                                                    *)
(*   gw      wan_v4_addr_gw and wan_v6_addr_gw, 0 until their flag is set   *)
(*   act     the families whose active_v* flag is set                       *)
(*   hset    header_set_v4, header_set_v6                                   *)
(*   part    header_partial_default_wan_v4, _v6: route adds put off         *)
(*   dgw     is_default_gateway                                             *)
(*   dest    num_ipv6_dest_flt_rule                                         *)
(*   conf    firewall_config, frag the flag of the fragment rule            *)
(*   fw      the rules made from it, for each family                        *)
(*   pipe    the filters of a station in the order of its pipe              *)
(*   cl      its neighbours in table order                                  *)
(* and the step record                                                      *)
(*   w.s     the static members of the class                                *)
(*   w.modem the downlink tables the modem was last given                   *)
(*   w.told  what the events posted so far say: the address the NAT         *)
(*           application has, the prefix, the tethered interfaces told      *)
(*   w.sta   the neighbours the conntrack listener knows of                 *)
EXTENDS IpacmIface, IpacmFirewall

CONSTANTS MaxNeighbours    \* IPA_MAX_NUM_WAN_CLIENTS

MaxDftV6 == 2              \* MAX_DEFAULT_v6_ROUTE_RULES
MaxClientV6 == 3           \* IPV6_NUM_ADDR

Modem(i) == i.kind \in {"q6", "embms"}     \* m_is_sta_mode == Q6_WAN

(***************************************************************************)
(* The downlink filters of the modem: flt_rule_v4 and _v6 up to the number *)
(* of rules.                                                               *)
(***************************************************************************)
DownlinkTable(w, fam) ==
  (IF w.s.embms THEN config_dft_embms_rules(w.i.slot) ELSE <<>>) \o w.s.rules[fam]

install_wan_filtering_rule(w, on) ==
  IF on \/ w.cfg.swrt
  THEN IF w.i.sw THEN w
       ELSE [w EXCEPT !.modem = [fam \in DOMAIN @ |-> SoftwareRoutingRule(w.i.slot)],
                      !.i.sw = TRUE]
  ELSE [w EXCEPT !.modem = [fam \in DOMAIN @ |-> DownlinkTable(w, fam)]]

\* Only the first PDN of a family brings the default rules.
init_fl_rule_ex(w, fam, index) ==
  install_wan_filtering_rule(
    IF index = 0 THEN [w EXCEPT !.s.rules[fam] = add_dft_filtering_rule(fam)] ELSE w, FALSE)

\* The number of rules is set to that of the default rules, whether they are there or not:
\* a rule of zeros fits everything.
Zeros == Rule(<<>>, "table 0")
KeptRules(w, fam) ==
  [k \in DOMAIN add_dft_filtering_rule(fam) |->
     IF k \in DOMAIN w.s.rules[fam] THEN w.s.rules[fam][k] ELSE Zeros]

config_wan_firewall_rule(w, fam) ==
  [w EXCEPT !.i.conf = w.cfg.fw,
            !.s.rules[fam] = KeptRules(w, fam) \o add_icmp_alg_rules(fam, w.i.slot)
              \o config_dft_firewall_rules_ex(w.cfg.fw, fam, w.i.slot, w.s.bridge)]
del_wan_firewall_rule(w, fam) == [w EXCEPT !.s.rules[fam] = KeptRules(w, fam)]

(***************************************************************************)
(* The firewall of a station, in the driver.  The configuration is read     *)
(* anew for each family and kept for both.  What is added goes to the rear  *)
(* of the pipe, and its configured rules and the default that follows them  *)
(* go in and out together.                                                  *)
(***************************************************************************)
ToRear(w, k) ==
  LET r == Filter(w, k) IN [r EXCEPT !.i.pipe = IF r.ok THEN Append(@, k) ELSE @]
FromPipe(w, k) ==
  LET r == Unfilter(w, k) IN [r EXCEPT !.i.pipe = Remove(@, k)]

FragmentRule(w) ==
  IF NeedsFragmentRule(w.i.conf)
  THEN LET r == ToRear(w, "frag") IN [r EXCEPT !.i.frag = @ \/ r.ok]
  ELSE [w EXCEPT !.ok = TRUE]

FirewallRules(w, fam, k) ==
  LET r == ToRear(w, k)
  IN  [r EXCEPT !.i.fw[fam] =
         IF r.ok THEN StationRules(w.i.conf, fam, w.i.slot, w.cfg.bridge) ELSE @]

config_dft_firewall_rules(w, fam) ==
  LET Add(r, k) == IF k = "frag" THEN FragmentRule(r) ELSE FirewallRules(r, fam, k)
  IN  UntilFailure(Add, [w EXCEPT !.i.conf = w.cfg.fw],
                   IF fam = "v4" THEN <<"fw4">> ELSE <<"frag", "fw6">>)

del_dft_firewall_rules(w, fam) ==
  LET r == FromPipe(w, IF fam = "v4" THEN "fw4" ELSE "fw6")
      g == FromPipe(r, "frag")
  IN  IF fam \notin w.i.act THEN [w EXCEPT !.ok = TRUE]
      ELSE IF r.ok /\ fam = "v6" /\ r.i.frag /\ check_dft_firewall_rules_attr_mask(r.i.conf)
      THEN IF g.ok THEN [g EXCEPT !.i.frag = FALSE] ELSE g
      ELSE r

Refirewall(w, fam) == config_dft_firewall_rules(del_dft_firewall_rules(w, fam), fam)

\* What the filters of a station say.  Its own addresses are destinations of packets.
PipeRules(i, fam) ==
  LET Of(k) == CASE fam = "v4" /\ k = "dft4" -> IfaceRules_v4
                 [] fam = "v4" /\ k = "fw4"  -> i.fw[fam]
                 [] fam = "v6" /\ k = "dft6" -> IfaceRules_v6
                 [] fam = "v6" /\ k = "fw6"  -> i.fw[fam]
                 [] fam = "v6" /\ k = "frag" -> <<Rule([frag |-> TRUE], "host")>>
                 [] fam = "v6" /\ k \in {"dest1", "dest2"} -> OwnAddressRule(i.own[k])
                 [] OTHER -> <<>>
  IN  IF i.sw THEN <<Rule(<<>>, "host")>>
      ELSE FoldLeft(LAMBDA rules, k : rules \o Of(k), <<>>, i.pipe)

(***************************************************************************)
(* The events it posts, as those who get them take them: the NAT            *)
(* application drops its table only for the address it was given.           *)
(***************************************************************************)
PostWanUp(w, fam) ==
  [w EXCEPT !.told.wan[fam] = IF fam = "v4" THEN w.i.a4 ELSE w.i.pfx]
\* Mutant: IPv6 forgotten.
PostWanDown_v4(w, fam) ==
  [w EXCEPT !.told.wan[fam] = IF fam = "v4" /\ @ = w.i.a4 THEN 0 ELSE @]
PostWanDown(w, fam) ==
  [w EXCEPT !.told.wan[fam] = IF fam = "v6" \/ @ = w.i.a4 THEN 0 ELSE @]

post_wan_up_tether_evt(w, fam, t) ==
  [w EXCEPT !.s.tether[fam] = Append(@, t), !.told.tether[fam] = @ \cup {t}]

\* Nothing is posted for an interface that is not in the list.
post_wan_down_tether_evt(w, fam, t) ==
  IF t \in ToSet(w.s.tether[fam])
  THEN [w EXCEPT !.s.tether[fam] = Remove(@, t), !.told.tether[fam] = @ \ {t}]
  ELSE w

(***************************************************************************)
(* The default route.                                                       *)
(***************************************************************************)
\* Two entries, made anew every time.
add_dummy_rx_hdr(w) ==
  LET h == Header(w, "dhdr")
      p == AddHeaderProcCtx(h, "dctx")
  IN  IF h.ok /\ p.ok THEN [p EXCEPT !.i.h["dctx"] = p.new] ELSE IF h.ok THEN p ELSE h

RouteKind(fam) == IF fam = "v4" THEN "wr4" ELSE "wr6"

\* A station has a route of its own, and IPv6 needs one to the host as well.
WanRoutes(w, fam) ==
  LET Do(r, k) == IF k = "dummy" THEN add_dummy_rx_hdr(r) ELSE Route(r, k)
  IN  UntilFailure(Do, w,
        (IF Modem(w.i) THEN <<>> ELSE <<RouteKind(fam)>>)
        \o (IF fam = "v6" /\ ~Modem(w.i) THEN <<"dummy">> ELSE <<>>)
        \o (IF fam = "v6" THEN <<"a5">> ELSE <<>>))

\* The interface carries the family from here on; the result of the firewall
\* is not looked at.
WanIsUp(w, fam) ==
  LET u == [w EXCEPT !.s.up = @ \cup {fam}, !.s.dev = w.i.slot, !.i.act = @ \cup {fam}]
      f == IF Modem(w.i)
           THEN install_wan_filtering_rule(config_wan_firewall_rule(u, fam), FALSE)
           ELSE config_dft_firewall_rules(u, fam)
  IN  AddRmDepend(PostWanUp(f, fam), w.i.tx)

handle_route_add_evt(w, fam) ==
  LET g == [w EXCEPT !.i.dgw = TRUE, !.s.bridge = w.cfg.bridge /\ w.i.kind = "ecm",
                     !.s.sta = ~Modem(w.i)]
      Up(r) == IF r.ok THEN [WanIsUp(r, fam) EXCEPT !.ok = TRUE] ELSE r
  IN  IF ~Modem(w.i) /\ fam \notin w.i.hset
      THEN [g EXCEPT !.i.part = @ \cup {fam}, !.ok = TRUE]
      ELSE Up(WanRoutes(g, fam))

\* The gateway's headers are known: the routes that were put off go in.  The
\* flags that say so stay set.
handle_sta_header_add_evt(w) ==
  LET Knows(fam) == \E n \in DOMAIN w.i.cl :
                      IF fam = "v4" THEN w.i.cl[n].v4 = w.i.gw["v4"]
                      ELSE w.i.gw["v6"] \in ToSet(w.i.cl[n].v6)
      miss == \E fam \in {"v4", "v6"} : w.i.gw[fam] # 0 /\ ~Knows(fam)
      h == IF \E fam \in {"v4", "v6"} : w.i.gw[fam] # 0 /\ Knows(fam)
           THEN [w EXCEPT !.i.hset = {"v4", "v6"}] ELSE w
      \* The one that is looked up first decides when it is not known.
      first == w.i.gw["v4"] # 0 /\ ~Knows("v4")
      Late(r, fam) == IF fam \in r.i.part THEN handle_route_add_evt(r, fam) ELSE r
  IN  IF w.i.hset # {} \/ first THEN w
      ELSE IF miss THEN h
      ELSE FoldLeft(Late, h, <<"v4", "v6">>)

\* Mutant: the flag all objects share stays set.
RouteDel_flag(w, fam, own) ==
  LET d == DelRmDepend(w, w.i.tx)
      r == IF own THEN Unroute(d, RouteKind(fam)) ELSE d
      a == IF fam = "v6" THEN Unroute(r, "a5") ELSE r
  IN  IF fam \notin w.i.act THEN [w EXCEPT !.i.dgw = FALSE]
      ELSE [PostWanDown(a, fam) EXCEPT !.i.dgw = FALSE, !.i.act = @ \ {fam}]

\* WAN down, for the family if it is active; the flag goes in any case.
RouteDel(w, fam, own) ==
  LET d == DelRmDepend(w, w.i.tx)
      r == IF own THEN Unroute(d, RouteKind(fam)) ELSE d
      a == IF fam = "v6" THEN Unroute(r, "a5") ELSE r
      p == PostWanDown(a, fam)
  IN  IF fam \notin w.i.act THEN [w EXCEPT !.i.dgw = FALSE]
      ELSE [p EXCEPT !.i.dgw = FALSE, !.i.act = @ \ {fam}, !.s.up = @ \ {fam},
                     !.s.dev = IF p.s.up \ {fam} = {} THEN 0 ELSE @]

handle_route_del_evt(w, fam)    == RouteDel(w, fam, TRUE)
handle_route_del_evt_ex(w, fam) == RouteDel(w, fam, FALSE)

\* What every event that ends a default route does.
TearDown(w, fam) ==
  IF Modem(w.i)
  THEN handle_route_del_evt_ex(
         install_wan_filtering_rule(del_wan_firewall_rule(w, fam), FALSE), fam)
  ELSE handle_route_del_evt(del_dft_firewall_rules(w, fam), fam)

(***************************************************************************)
(* Its own addresses.                                                       *)
(***************************************************************************)
\* An IPv6 address is 16 * prefix + host; prefix 0 is link-local.
Prefix(a) == a \div 16
is_global_ipv6_addr(a) == Prefix(a) # 0

\* A station takes what is meant for a global address of its own to the host.
OwnAddressFilter(w, a) ==
  LET k == IF w.i.dest = 0 THEN "dest1" ELSE "dest2"
      r == ToRear(w, k)
  IN  IF Modem(w.i) \/ ~is_global_ipv6_addr(a) \/ w.i.dest >= MaxDftV6
      THEN [w EXCEPT !.ok = TRUE]
      ELSE IF r.ok THEN [r EXCEPT !.i.dest = @ + 1, !.i.own[k] = a] ELSE r

\* The first address of IPv4, the second of IPv6, counts as a PDN of the
\* modem and brings the default filters.
FirstFilters(w, fam) ==
  IF Modem(w.i)
  THEN init_fl_rule_ex([w EXCEPT !.s.pdn[fam] = @ + 1], fam, w.s.pdn[fam])
  ELSE LET r == init_fl_rule(w, fam) IN
       IF r.ok THEN [r EXCEPT !.i.pipe = Append(@, IF fam = "v4" THEN "dft4" ELSE "dft6")] ELSE r

handle_addr_evt_v6(w, a) ==
  LET r == Route(config_ip_type(w, "v6"), IF w.i.v6 = <<>> THEN "rt6a" ELSE "rt6b")
      f == IF Len(w.i.v6) = 1 THEN FirstFilters(r, "v6") ELSE r
      o == OwnAddressFilter(f, a)
  IN  IF a \in ToSet(w.i.v6) THEN [config_ip_type(w, "v6") EXCEPT !.ok = TRUE]
      ELSE IF ~r.ok THEN r
      ELSE IF ~o.ok THEN o
      ELSE [o EXCEPT !.i.v6 = Append(@, a),
                     !.i.pfx = IF is_global_ipv6_addr(a) THEN Prefix(a) ELSE @]

\* A new IPv4 address replaces the route; whoever was told of the old one is
\* not told of the change.
handle_addr_evt_v4(w, a) ==
  LET t == config_ip_type(w, "v4")
      r == Route(IF t.i.a4 = 0 THEN t ELSE Unroute(t, "rt4"), "rt4")
      f == IF w.i.a4 = 0 THEN FirstFilters(r, "v4") ELSE r
  IN  IF a = w.i.a4 THEN [t EXCEPT !.ok = TRUE]
      ELSE IF ~r.ok THEN r
      ELSE [f EXCEPT !.ok = TRUE, !.i.a4 = a]

handle_addr_evt(w, fam, a) ==
  IF fam = "v4" THEN handle_addr_evt_v4(w, a) ELSE handle_addr_evt_v6(w, a)

(***************************************************************************)
(* Neighbours on the link: v4, v6 addresses; r4, n6 the routes made for     *)
(* them; hdr the two headers, rt4 and rt6 the routes.                       *)
(***************************************************************************)
get_wan_client_index(i, mac) == SelectInSeq(i.cl, LAMBDA c : c.mac = mac)

NeighbourHeader_v4(w) == AddHeader(w, "nhdr4")
NeighbourHeader_v6(w) == AddHeader(w, "nhdr6")

NewNeighbour(mac, h4, h6) ==
  [mac |-> mac, v4 |-> 0, v6 |-> <<>>, r4 |-> FALSE, n6 |-> 0, hdr |-> {h4, h6},
   rt4 |-> None, rt6 |-> <<>>]

handle_wan_hdr_init(w, mac) ==
  LET a == NeighbourHeader_v4(w)
      b == NeighbourHeader_v6(a)
  IN  IF get_wan_client_index(w.i, mac) # 0 \/ Len(w.i.cl) >= MaxNeighbours \/ ~a.ok THEN w
      ELSE IF ~b.ok THEN a
      ELSE [b EXCEPT !.i.cl = Append(@, NewNeighbour(mac, a.new, b.new))]

\* Mutant: the last route of a neighbour is left.
delete_wan_rtrules_last(w, n, fam) ==
  IF fam = "v4"
  THEN [w EXCEPT !.d = IF w.i.cl[n].r4 THEN @ \ {w.i.cl[n].rt4} ELSE @, !.i.cl[n].r4 = FALSE]
  ELSE [w EXCEPT !.d = @ \ {w.i.cl[n].rt6[j] : j \in 1 .. w.i.cl[n].n6 - 1},
               !.i.cl[n].n6 = 0]
delete_wan_rtrules(w, n, fam) ==
  IF fam = "v4"
  THEN [w EXCEPT !.d = IF w.i.cl[n].r4 THEN @ \ {w.i.cl[n].rt4} ELSE @, !.i.cl[n].r4 = FALSE]
  ELSE [w EXCEPT !.d = @ \ {w.i.cl[n].rt6[j] : j \in 1 .. w.i.cl[n].n6},
               !.i.cl[n].n6 = 0]

\* ok says whether routes are to follow.
handle_wan_client_ipaddr(w, n, fam, a) ==
  LET c == w.i.cl[n]
      moved == [delete_wan_rtrules(w, n, "v4") EXCEPT !.sta = (@ \ {c.v4}) \cup {a}]
  IN  IF n = 0 THEN [w EXCEPT !.ok = FALSE]
      ELSE IF fam = "v6"
      THEN IF Len(c.v6) >= MaxClientV6 \/ a \in ToSet(c.v6) THEN [w EXCEPT !.ok = FALSE]
           ELSE [w EXCEPT !.ok = TRUE, !.i.cl[n].v6 = Append(@, a)]
      ELSE IF a = c.v4 THEN [w EXCEPT !.ok = FALSE]
      ELSE [(IF c.v4 = 0 THEN [w EXCEPT !.sta = @ \cup {a}] ELSE moved)
              EXCEPT !.ok = TRUE, !.i.cl[n].v4 = a]

NeighbourRoute_v4(w, n) ==
  LET r == AddRoutingRule(w, "nrt4")
  IN  IF r.ok THEN [r EXCEPT !.i.cl[n].rt4 = r.new, !.i.cl[n].r4 = TRUE] ELSE r

\* A route for every address that has none; n6 moves when all are in.
NeighbourRoutes_v6(w, n) ==
  LET c == w.i.cl[n]
      Put(q, j, x) == IF j <= Len(q) THEN [q EXCEPT ![j] = x] ELSE Append(q, x)
      Six(r, j) == LET x == AddRoutingRule(r, "nrt6")
                   IN  IF x.ok THEN [x EXCEPT !.i.cl[n].rt6 = Put(@, j, x.new)] ELSE x
      all == UntilFailure(Six, w, [j \in 1 .. Len(c.v6) - c.n6 |-> c.n6 + j])
  IN  [all EXCEPT !.i.cl[n].n6 = IF all.ok THEN Len(c.v6) ELSE @]

handle_wan_client_route_rule(w, n, fam) ==
  CASE fam = "v4" /\ ~w.i.cl[n].r4 -> NeighbourRoute_v4(AddRmDepend(w, w.i.tx), n)
    [] fam = "v6" /\ w.i.cl[n].n6 < Len(w.i.cl[n].v6) ->
         NeighbourRoutes_v6(AddRmDepend(w, w.i.tx), n)
    [] OTHER -> w

(***************************************************************************)
(* The interface goes down.                                                 *)
(***************************************************************************)
Families(i) == CASE i.ip = "null" -> <<>> [] i.ip = "max" -> <<"v4", "v6">> [] OTHER -> <<i.ip>>

DeleteDefaultRoutes(w) ==
  [w EXCEPT !.d = @ \ {w.i.h[k] : k \in
      (IF HasV4(w.i) THEN {"rt4"} ELSE {})
      \cup (IF HasV6(w.i) /\ Len(w.i.v6) > 0 THEN {"rt6a"} ELSE {})
      \cup (IF HasV6(w.i) /\ Len(w.i.v6) > 1 THEN {"rt6b"} ELSE {})}]

DropNeighbour(w, n) ==
  LET r == delete_wan_rtrules(delete_wan_rtrules(w, n, "v4"), n, "v6")
  IN  [r EXCEPT !.d = @ \ w.i.cl[n].hdr, !.sta = @ \ {w.i.cl[n].v4}]

\* The filters and the dummy header; one that it cannot delete ends the clearing.
StationRulesDown(w) ==
  LET Drop(r, k) == CASE k \in {"dctx", "dhdr"} /\ r.i.h[k] = None -> r
                      [] k = "dctx" -> DeleteHeaderProcCtx(r, r.i.h[k])
                      [] k = "dhdr" -> DeleteHeaderHdl(r, r.i.h[k])
                      [] OTHER -> Unfilter(r, k)
  IN  UntilFailure(Drop, handle_software_routing_disable(w),
        (IF HasV4(w.i) THEN <<"dft4">> ELSE <<>>)
        \o (IF HasV6(w.i) THEN <<"dft6">> ELSE <<>>)
        \o (IF HasV6(w.i) /\ w.i.dest > 0 THEN <<"dest1">> ELSE <<>>)
        \o (IF HasV6(w.i) /\ w.i.dest > 1 THEN <<"dest2">> ELSE <<>>)
        \o <<"dctx", "dhdr">>)

\* A station or a dongle.  The interfaces tethered to it are not told.
handle_down_evt(w) ==
  LET n == DelRmDepend(w, w.i.tx)
      GiveUp(r, f) == IF f \in r.i.act
                      THEN handle_route_del_evt(del_dft_firewall_rules(r, f), f) ELSE r
      t == FoldLeft(GiveUp, n, <<"v4", "v6">>)
  IN  IF w.i.ip = "null" THEN n
      ELSE StationRulesDown(FoldLeft(DropNeighbour, DeleteDefaultRoutes(t),
                                     [k \in DOMAIN w.i.cl |-> k]))

\* A family of a modem interface: the static flag goes if the interface is the
\* default gateway, whoever has set it.
DefaultDown(w, fam) ==
  LET a == [del_wan_firewall_rule(w, fam) EXCEPT !.s.up = @ \ {fam}]
      b == handle_route_del_evt_ex(a, fam)
      c == FoldLeft(LAMBDA r, t : post_wan_down_tether_evt(r, fam, t), b, b.s.tether[fam])
  IN  [c EXCEPT !.s.dev = IF c.s.up = {} THEN 0 ELSE @]

\* The last PDN of a family takes the rules of the modem along.
LastPdn(w, fam) ==
  IF w.s.pdn[fam] = 0
  THEN install_wan_filtering_rule([w EXCEPT !.s.rules[fam] = <<>>], FALSE) ELSE w

EmbmsDown(w) ==
  install_wan_filtering_rule(DelRmDepend([w EXCEPT !.s.embms = FALSE], w.i.tx), FALSE)

ModemRoutesDown(w) == handle_software_routing_disable(DeleteDefaultRoutes(w))

handle_down_evt_ex(w) ==
  LET fams == Families(w.i)
      Pdn(r, f) == [r EXCEPT !.s.pdn[f] =
                      IF f = "v4" \/ Len(w.i.v6) > 1 THEN @ - 1 ELSE @]
      p == FoldLeft(Pdn, w, fams)
      t == IF w.i.dgw
           THEN install_wan_filtering_rule(FoldLeft(DefaultDown, p, fams), FALSE) ELSE p
  IN  IF w.i.kind = "embms" THEN EmbmsDown(w)
      ELSE IF fams = <<>> THEN w
      ELSE ModemRoutesDown(FoldLeft(LastPdn, t, fams))
=============================================================================
