---------------------------- MODULE IpacmBackhaul ----------------------------
(* Two uplinks of IPACM at work: objects of IPACM_Wan that come and go, get  *)
(* addresses, neighbours and upstream routes for the tethered interfaces.    *)
(* The event thread hands an event to one listener after the other, in the   *)
(* order in which they were registered; all share the static members of the  *)
(* class.  The upstream routes are set by the connectivity service for one   *)
(* tethered interface and one family at a time; the firewall file changes    *)
(* before the event that says so is handled.                                 *)
EXTENDS IpacmWan

CONSTANTS
  Scenes,       \* what is explored together: [kinds |-> kinds of the uplinks, fams |->
                \* families, tethers |-> tethered interfaces, refusable |-> kinds of entry
                \* the driver may refuse, links, routes, extra |-> bounds of the objects made,
                \* of the upstream routes added, of the changes of firewall, software routing
                \* and configuration]
  Owns,         \* family -> addresses an uplink may get
  Peers,        \* kind of uplink -> neighbours <<MAC, family, address>>
  Gateways,     \* kind of uplink -> gateways of a default route
  Initial,      \* the firewall at the beginning
  Packets,      \* family -> packets that may come down
  MaxOdd        \* bound: kinds of events the properties name as exceptions

VARIABLES
  obj,      \* the uplinks
  order,    \* the listeners, in the order of their registration
  drv, cfg, \* as in IpacmTables
  stat,     \* static members of IPACM_Wan
  out,      \* what the modem, the listeners and the conntrack listener have
  routes,   \* upstream routes that are set: <<uplink, family, tethered interface>>
  seen      \* the scene, counts of the bounded events, and what happened so far

vars == <<obj, order, drv, cfg, stat, out, routes, seen>>

Fams  == {"v4", "v6"}
Slots == DOMAIN obj
Kinds == {"rt4", "rt6a", "rt6b", "dft4", "dft6", "dest1", "dest2", "fw4", "fw6", "frag",
          "wr4", "wr6", "a5", "dhdr", "dctx", "sw4", "sw6"}

\* Fields the constructors leave uninitialised.
Uninit == {"rt4", "rt6a", "rt6b", "dft4", "dft6", "sw4", "sw6"}

NewObject(kind, slot, junk, dgw) ==
  [kind |-> kind, slot |-> slot, exists |-> TRUE, ip |-> "null", a4 |-> 0, v6 |-> <<>>, pfx |-> 0,
   gw |-> [f \in Fams |-> 0], act |-> {}, hset |-> {}, part |-> {}, dgw |-> dgw, dest |-> 0,
   conf |-> Initial, frag |-> FALSE, fw |-> [f \in Fams |-> <<>>], pipe |-> <<>>,
   own |-> [k \in {"dest1", "dest2"} |-> 0], sw |-> FALSE, cl |-> <<>>,
   rx |-> IF kind \in {"q6", "embms"} THEN "q6_prod" ELSE "wlan_prod",
   tx |-> IF kind \in {"q6", "embms"} THEN "q6_cons" ELSE "wlan_cons",
   h |-> [k \in Kinds |-> IF k \in Uninit THEN junk ELSE None]]

(***************************************************************************)
(* Steps.                                                                  *)
(***************************************************************************)
Step(bad) ==
  [i |-> obj[1], o |-> obj, d |-> drv, cfg |-> cfg, s |-> stat, modem |-> out.modem,
   told |-> out.told, sta |-> out.sta, bad |-> bad, new |-> None, ok |-> TRUE, q |-> <<>>]

Becomes(w) ==
  /\ obj' = w.o /\ drv' = w.d /\ cfg' = w.cfg /\ stat' = w.s
  /\ out' = [modem |-> w.modem, told |-> w.told, sta |-> w.sta]

\* Op of one object, and of every listener in turn.
At(w, s, Op(_)) ==
  LET r == Op([w EXCEPT !.i = w.o[s]]) IN [r EXCEPT !.o[s] = r.i]
Broadcast(w, Op(_)) == FoldLeft(LAMBDA r, s : At(r, s, Op), w, order)

\* A handler in which the driver may refuse one kind of entry.
Handle(Op(_), why) ==
  /\ "extra" \in why => seen.extra < seen.scene.extra
  /\ "route" \in why => seen.routes < seen.scene.routes
  /\ \E bad \in {{}} \cup {{k} : k \in seen.scene.refusable} :
       LET odd == seen.odd \cup (why \ {"extra", "route"})
                  \cup (IF bad = {} THEN {} ELSE {"failed"})
       IN  /\ Cardinality(odd) <= MaxOdd
           /\ \E w \in {Op(Step(bad))} :
                /\ bad = {} \/ "refused" \in w.bad
                /\ Becomes(w)
           /\ seen' = [seen EXCEPT !.odd = odd,
                                   !.extra = @ + Cardinality(why \cap {"extra"}),
                                   !.routes = @ + Cardinality(why \cap {"route"})]

Listens(s) == \E n \in DOMAIN order : order[n] = s
\* eMBMS registers for nothing but the end of its link.
Hears(s) == Listens(s) /\ obj[s].kind # "embms"
Has(i, fam) == IF fam = "v4" THEN HasV4(i) ELSE HasV6(i)
If(c, x) == IF c THEN {x} ELSE {}

(***************************************************************************)
(* Link up and down.                                                       *)
(***************************************************************************)
\* IPACM_IfaceManager makes the object; is_default_gateway of a station is
\* not initialised.
LinkUp(s) ==
  /\ ~Listens(s) /\ seen.links < seen.scene.links
  /\ \E junk \in IF Modem(obj[s]) THEN {None} ELSE {None, Junk}, dgw \in IF Modem(obj[s]) THEN {FALSE} ELSE BOOLEAN :
       LET Made(w) == [w EXCEPT !.i = NewObject(obj[s].kind, s, junk, dgw)]
           Op(w) == At(w, s, LAMBDA x :
                      IF obj[s].kind = "embms"
                      THEN AddRmDepend(install_wan_filtering_rule(
                             [Made(x) EXCEPT !.s.embms = TRUE], FALSE), Made(x).i.tx)
                      ELSE Made(x))
       IN  Becomes(Op(Step({})))
  /\ order' = Append(order, s)
  /\ seen' = [seen EXCEPT !.links = @ + 1]
  /\ UNCHANGED routes

\* IPA_LINK_DOWN_EVENT, IPA_WLAN_LINK_DOWN_EVENT; a dongle whose category
\* changes goes the same way.
LinkDown(s) ==
  LET i == obj[s]
      Op(w) == At(w, s, LAMBDA x :
                 LET r == IF Modem(x.i) THEN handle_down_evt_ex(x) ELSE handle_down_evt(x)
                 IN  [r EXCEPT !.i = [kind |-> x.i.kind, exists |-> FALSE]])
      others == \E t \in Slots \ {s} : Listens(t) /\ obj[t].act \cup obj[t].part # {}
  IN  /\ Listens(s)
      /\ Handle(Op, If(Modem(i) /\ ~i.dgw /\ i.act # {}, "half")
                    \cup If(Modem(i) /\ i.dgw /\ others, "stolen")
                    \cup If(~Modem(i) /\ i.act \cup i.part # {}, "untold")
                    \cup If(~Modem(i) /\ (Len(i.v6) = 1 \/ i.ip = "null"), "short"))
      /\ order' = SelectSeq(order, LAMBDA t : t # s)
      /\ routes' = {r \in routes : r[1] # s}

(***************************************************************************)
(* Addresses and neighbours.                                               *)
(***************************************************************************)
\* IPA_ADDR_ADD_EVENT.
AddressAdded(s, fam, a) ==
  LET Op(w) == At(w, s, LAMBDA x :
                 LET r == handle_addr_evt(x, fam, a)
                 IN  IF r.cfg.swrt /\ ~Modem(r.i) THEN handle_software_routing_enable(r) ELSE r)
  IN  /\ Hears(s) /\ (fam = "v6" => Len(obj[s].v6) # MaxDftV6)
      /\ Handle(Op, If(fam = "v4" /\ "v4" \in obj[s].act /\ a # obj[s].a4, "moved"))
      /\ UNCHANGED <<order, routes>>

\* IPA_NEIGH_CLIENT_IP_ADDR_ADD_EVENT: a station passes over its own address.
NeighbourAdded(s, mac, fam, a) ==
  LET Index(w) == get_wan_client_index(w.i, mac)
      Op(w) == At(w, s, LAMBDA x :
                 LET h == handle_wan_hdr_init(x, mac)
                     r == handle_wan_client_ipaddr(h, Index(h), fam, a)
                 IN  IF r.ok THEN handle_sta_header_add_evt(
                                    handle_wan_client_route_rule(r, Index(r), fam))
                     ELSE r)
      own == IF fam = "v4" THEN a = obj[s].a4 ELSE a \in ToSet(obj[s].v6)
  IN  /\ Hears(s) /\ ~(obj[s].kind = "wlan" /\ own)
      /\ Handle(Op, {})
      /\ UNCHANGED <<order, routes>>

(***************************************************************************)
(* Upstream routes.                                                        *)
(***************************************************************************)
\* An uplink the new route does not lead to gives up the family.
GivesUp(w, fam) ==
  IF fam \notin w.i.act THEN w
  ELSE TearDown(IF fam = "v4" THEN [w EXCEPT !.i.gw["v4"] = 0] ELSE w, fam)

TakesRoute(w, fam, t, g) ==
  LET h == handle_sta_header_add_evt([w EXCEPT !.i.gw[fam] = g])
      r == IF fam \in w.i.act THEN w ELSE handle_route_add_evt(h, fam)
  IN  IF ~Has(w.i, fam) \/ (fam = "v6" /\ w.i.pfx = 0) THEN w
      ELSE post_wan_up_tether_evt(r, fam, t)

\* IPA_WAN_UPSTREAM_ROUTE_ADD_EVENT.
UpstreamRouteAdded(s, fam, t, g) ==
  LET Op(w) == Broadcast(w, LAMBDA x :
                 IF x.i.kind = "embms" THEN x
                 ELSE IF x.i.slot = s THEN TakesRoute(x, fam, t, g) ELSE GivesUp(x, fam))
      other == \E u \in Slots \ {s} : Hears(u) /\ fam \in obj[u].act
      later == \E n \in DOMAIN order : order[n] # s /\ fam \in obj[order[n]].act
                                       /\ \E m \in 1 .. n : order[m] = s
      deferred == \E u \in Slots \ {s} : Hears(u) /\ fam \in obj[u].part
      again == ~Modem(obj[s]) /\ fam = "v6" /\ fam \notin obj[s].act /\ obj[s].h["dctx"] # None
      reread == fam = "v4" /\ obj[s].frag /\ cfg.fw # obj[s].conf
      ignored == ~Has(obj[s], fam) \/ (fam = "v6" /\ obj[s].pfx = 0)
  IN  /\ Hears(s) /\ <<s, fam, t>> \notin routes
      /\ Handle(Op, {"route"} \cup If(other, "taken") \cup If(later, "crossed")
                    \cup If(deferred, "late") \cup If(ignored, "ignored")
                    \cup If(fam = "v6" /\ Len(obj[s].v6) = 1, "early")
                    \cup If(again, "again") \cup If(reread, "reread"))
      /\ routes' = routes \cup {<<s, fam, t>>}
      /\ UNCHANGED order

\* IPA_WAN_UPSTREAM_ROUTE_DEL_EVENT: the uplink goes on while it is still
\* used for another tethered interface.
UpstreamRouteDeleted(s, fam, t) ==
  LET Op(w) == At(w, s, LAMBDA x :
                 LET g == IF fam = "v4" THEN [x EXCEPT !.i.gw["v4"] = 0] ELSE x
                     p == post_wan_down_tether_evt(g, fam, t)
                 IN  IF fam \notin x.i.act THEN x
                     ELSE IF p.s.tether[fam] # <<>> THEN p
                     ELSE TearDown(p, fam))
  IN  /\ <<s, fam, t>> \in routes /\ Hears(s)
      /\ Handle(Op, If(fam \in obj[s].part \ obj[s].act, "late"))
      /\ routes' = routes \ {<<s, fam, t>>}
      /\ UNCHANGED order

(***************************************************************************)
(* Configuration.                                                          *)
(***************************************************************************)
FirewallFileChanged(c) ==
  /\ c # cfg.fw /\ seen.extra < seen.scene.extra
  /\ cfg' = [cfg EXCEPT !.fw = c, !.changed = TRUE]
  /\ seen' = [seen EXCEPT !.extra = @ + 1]
  /\ UNCHANGED <<obj, order, drv, stat, out, routes>>

\* IPA_FIREWALL_CHANGE_EVENT.
FirewallChange ==
  LET Six(w, fam) == config_wan_firewall_rule(del_wan_firewall_rule(w, fam), fam)
      Sta(w, fam) == IF fam \in w.i.act THEN Refirewall(w, fam) ELSE w
      Op(x) == IF x.i.kind = "embms" THEN x
               ELSE IF ~Modem(x.i) THEN Sta(Sta(x, "v4"), "v6")
               ELSE IF ~x.i.dgw \/ Families(x.i) = <<>> THEN x
               ELSE install_wan_filtering_rule(FoldLeft(Six, x, Families(x.i)), FALSE)
      Done(w) == Broadcast([w EXCEPT !.cfg.changed = FALSE], Op)
      half == \E s \in Slots : Hears(s) /\ Modem(obj[s]) /\ ~obj[s].dgw /\ obj[s].act # {}
      both == \E s \in Slots : /\ Hears(s) /\ Modem(obj[s]) /\ obj[s].dgw
                              /\ ToSet(Families(obj[s])) # obj[s].act
      reread == \E s \in Slots : Listens(s) /\ obj[s].frag /\ obj[s].act = Fams
                               /\ cfg.fw # obj[s].conf
  IN  /\ cfg.changed
      /\ Handle(Done, If(half, "half") \cup If(both, "both") \cup If(reread, "reread"))
      /\ UNCHANGED <<order, routes>>

\* IPA_SW_ROUTING_ENABLE and _DISABLE, with the flag of the configuration.
SoftwareRouting(on) ==
  LET Op(x) == CASE x.i.kind = "embms" -> x
                 [] Modem(x.i) /\ on -> install_wan_filtering_rule(x, TRUE)
                 [] Modem(x.i) -> [install_wan_filtering_rule(x, FALSE) EXCEPT !.i.sw = FALSE]
                 [] on -> handle_software_routing_enable(x)
                 [] OTHER -> handle_software_routing_disable(x)
      Done(w) == Broadcast([w EXCEPT !.cfg.swrt = on], Op)
  IN  /\ cfg.swrt # on
      /\ Handle(Done, {"extra"} \cup If(\E s \in Slots : Listens(s) /\ ~Hears(s), "deaf"))
      /\ UNCHANGED <<order, routes>>

\* IPA_CFG_CHANGE_EVENT with the category unchanged: a dongle that is the
\* default gateway switches between bridge and router, and is firewalled anew.
ModeChanged(s) ==
  LET Op(w) == At([w EXCEPT !.cfg.bridge = ~@], s, LAMBDA x :
                 LET b == [x EXCEPT !.s.bridge = x.cfg.bridge]
                     Sta(r, fam) == IF fam \in r.i.act THEN Refirewall(r, fam) ELSE r
                 IN  IF x.i.dgw /\ x.s.bridge # x.cfg.bridge
                     THEN Sta(Sta(b, "v4"), "v6") ELSE x)
      i == obj[s]
  IN  /\ Hears(s) /\ i.kind = "ecm"
      /\ Handle(Op, {"extra"} \cup If(~i.dgw /\ i.act # {}, "half"))
      /\ UNCHANGED <<order, routes>>

(***************************************************************************)
(* Specification.                                                          *)
(***************************************************************************)
Init ==
  /\ \E scene \in Scenes :
       /\ obj = [s \in DOMAIN scene.kinds |-> [kind |-> scene.kinds[s], exists |-> FALSE]]
       /\ seen = [scene |-> scene, links |-> 0, routes |-> 0, extra |-> 0, odd |-> {}]
  /\ order = <<>> /\ drv = {} /\ routes = {}
  /\ cfg = [up |-> {}, a2 |-> 0, swrt |-> FALSE, fw |-> Initial, changed |-> FALSE, bridge |-> FALSE]
  /\ stat = [up |-> {}, dev |-> 0, sta |-> FALSE, bridge |-> FALSE, embms |-> FALSE,
             pdn |-> [f \in Fams |-> 0], rules |-> [f \in Fams |-> <<>>],
             tether |-> [f \in Fams |-> <<>>]]
  /\ out = [modem |-> [f \in Fams |-> <<>>],
            told |-> [wan |-> [f \in Fams |-> 0], tether |-> [f \in Fams |-> {}]], sta |-> {}]

Next ==
  \/ \E s \in Slots :
       \/ LinkUp(s)
       \/ LinkDown(s)
       \/ \E fam \in seen.scene.fams :
            \/ \E a \in Owns[fam] : AddressAdded(s, fam, a)
            \/ \E p \in Peers[obj[s].kind] : p[2] = fam /\ NeighbourAdded(s, p[1], fam, p[3])
            \/ \E t \in seen.scene.tethers :
                 \/ \E g \in Gateways[obj[s].kind] : UpstreamRouteAdded(s, fam, t, g)
                 \/ UpstreamRouteDeleted(s, fam, t)
       \/ ModeChanged(s)
  \/ \E c \in DOMAIN Firewalls : FirewallFileChanged(c)
  \/ FirewallChange
  \/ \E on \in BOOLEAN : SoftwareRouting(on)

Spec == Init /\ [][Next]_vars

(***************************************************************************)
(* Properties.  An exception names an event after which the code does not  *)
(* keep its promise; README tells the story of each.                       *)
(*   half     an uplink that has given up one family is no default gateway *)
(*            any more, but still carries the other one                    *)
(*   stolen   a modem uplink goes down while another one is in use         *)
(*   crossed  a route is taken over by an uplink that was registered       *)
(*            before the one that loses it                                 *)
(*   taken    a route is taken over at all                                 *)
(*   late     a route that was put off is deleted or taken over            *)
(*   untold   a station in use goes down                                   *)
(*   ignored  a route is added before the address, or prefix, it needs     *)
(*   early    an IPv6 route is added while there is only one address       *)
(*   moved    the IPv4 address changes in use                              *)
(*   again    a station gets an IPv6 route for the second time             *)
(*   short    a station goes down with one IPv6 address, or none at all    *)
(*   reread   the firewall changes while the fragment rule is in           *)
(*   both     it changes while a modem uplink carries one of its families  *)
(*   deaf     software routing changes while eMBMS is there                *)
(*   failed   the driver refused something                                 *)
(***************************************************************************)
Unless(odd) == seen.odd \cap odd # {}
ActiveIn(fam) == {s \in Slots : Listens(s) /\ fam \in obj[s].act}

\* What the object has in the driver: the fields in use of those that hold
\* handles.
Holds(i) ==
  {i.h[k] : k \in (IF HasV4(i) THEN {"rt4"} ELSE {})
               \cup (IF i.v6 # <<>> THEN {"rt6a"} ELSE {})
               \cup (IF Len(i.v6) > 1 THEN {"rt6b"} ELSE {})
               \cup (IF Modem(i) THEN {}
                     ELSE (IF HasV4(i) THEN {"dft4"} ELSE {})
                          \cup (IF Len(i.v6) > 1 THEN {"dft6"} ELSE {})
                          \cup (IF i.dest > 0 THEN {"dest1"} ELSE {})
                          \cup (IF i.dest > 1 THEN {"dest2"} ELSE {})
                          \cup (IF i.frag THEN {"frag"} ELSE {})
                          \cup (IF "v4" \in i.act THEN {"fw4", "wr4"} ELSE {})
                          \cup (IF "v6" \in i.act THEN {"fw6", "wr6"} ELSE {})
                          \cup (IF i.sw THEN {"sw4", "sw6"} ELSE {}))
               \cup (IF "v6" \in i.act THEN {"a5"} ELSE {})}
  \cup ({i.h["dhdr"], i.h["dctx"]} \ {None})
  \cup UNION {c.hdr \cup (IF c.r4 THEN {c.rt4} ELSE {}) \cup {c.rt6[j] : j \in 1 .. c.n6} :
              c \in ToSet(i.cl)}

\* The flag that all uplinks share (wan_up, wan_up_v6) says of a family that
\* exactly one uplink carries it: a takeover, a deleted route and a link that
\* goes down leave neither two uplinks nor a flag without an uplink.
OneDefault ==
  \A fam \in Fams :
    \/ Unless({"half", "stolen", "crossed", "late"})
    \/ Cardinality(ActiveIn(fam)) = IF fam \in stat.up THEN 1 ELSE 0

\* The events posted so far (IPA_HANDLE_WAN_UP and _DOWN) add up: NAT has the
\* address, the tethered interfaces the prefix, of the uplink that carries the
\* family now, and nothing while there is none.
ListenersKnow ==
  \A fam \in Fams :
    \/ Unless({"half", "stolen", "crossed", "moved", "late"})
    \/ out.told.wan[fam] = IF fam \in stat.up
                          THEN LET i == obj[CHOOSE s \in ActiveIn(fam) : TRUE]
                               IN  IF fam = "v4" THEN i.a4 ELSE i.pfx
                          ELSE 0

\* IPA_HANDLE_WAN_UP_TETHER and _DOWN_TETHER add up: the tethered interfaces
\* that offload are those an upstream route is set for.
TethersKnow ==
  \A fam \in Fams :
    \/ Unless({"taken", "untold", "ignored", "half", "late", "stolen", "failed"})
    \/ out.told.tether[fam] = {r[3] : r \in {x \in routes : x[2] = fam}}

\* What should become of a packet that comes down an uplink that carries the family: what
\* Linux has to see goes there, the rest as the firewall of the file says.
ForLinux(fam, p) ==
  \/ p.dst # "client"
  \/ fam = "v6" /\ p.proto = "icmp"
  \/ fam = "v6" /\ p.flag # "none"
  \/ fam = "v6" /\ p.frag /\ NeedsFragmentRule(cfg.fw)

Wanted(fam, p, pass) ==
  LET fw == Firewalls[cfg.fw]
      matched == \E k \in DOMAIN fw.entries :
                   LET e == fw.entries[k] IN
                   /\ e.fam = fam /\ e.port \in {"any", p.port}
                   /\ p.proto \in (IF e.proto = "tcpudp" THEN {"tcp", "udp"} ELSE {e.proto})
  IN  IF ForLinux(fam, p) \/ (fw.enable /\ matched # fw.accept) THEN "host" ELSE pass

ForAlg(fam, p) ==
  fam = "v4" /\ \E k \in DOMAIN AlgPorts :
                  AlgPorts[k].proto = p.proto /\ AlgPorts[k].port \in {p.port, p.sport}

\* The table of the modem decides over each of its uplinks as it should: over the one that
\* carries the family by the firewall, over eMBMS for the outdoor unit, and over all
\* others, and while software routing is on, for Linux.
ModemFollows(fam) ==
  LET diverted == \E r \in ToSet(out.modem[fam]) : r.to = "odu" /\ obj[r.match.mux].kind # "embms"
      pass == IF fam = "v6" THEN "clients" ELSE IF stat.bridge THEN "host" ELSE "nat"
      Firewalled(p) == IF ForAlg(fam, p) \/ p.proto = "icmp" THEN "host" ELSE Wanted(fam, p, pass)
      Want(i, p) == IF cfg.swrt THEN "host"
                    ELSE IF i.kind = "embms" THEN "odu"
                    ELSE IF fam \in i.act THEN Firewalled(p) ELSE "host"
  IN  \/ Unless({"half", "stolen", "crossed", "early", "both", "deaf"})
      \/ cfg.changed \/ diverted
      \/ \A s \in {t \in Slots : Listens(t) /\ Modem(obj[t])}, p \in Packets[fam] :
           Verdict(out.modem[fam], p @@ [mux |-> s]) = Want(obj[s], p)

\* So do the filters of a station, for the family that it carries and to its own address.
StationFollows(fam) ==
  LET Want(i, p) ==
        IF i.sw \/ p.addr \in ToSet(i.v6) \/ (fam = "v4" /\ p.frag) THEN "host"
        ELSE Wanted(fam, p, IF fam = "v6" THEN "clients" ELSE IF cfg.bridge THEN "bridge" ELSE "nat")
  IN  \/ Unless({"early", "half", "failed", "reread"}) \/ cfg.changed
      \/ \A s \in ActiveIn(fam), p \in Packets[fam] :
           ~Modem(obj[s]) => Verdict(PipeRules(obj[s], fam), p @@ [mux |-> s]) = Want(obj[s], p)

DownlinkFollows == \A fam \in seen.scene.fams : ModemFollows(fam) /\ StationFollows(fam)

\* Everything the uplinks put into the driver is held by an uplink that is
\* there, and everything held is in the driver: nothing is lost when routes,
\* addresses and links come and go.
NothingLeaked ==
  \/ Unless({"short", "again", "half", "reread", "failed"})
  \/ drv = UNION {Holds(obj[s]) : s \in {t \in Slots : Listens(t)}}

\* The events posted so far add up to where the default routes are, for the
\* listeners of the WAN events and for the tethered interfaces.
EveryoneKnows == ListenersKnow /\ TethersKnow
=============================================================================
