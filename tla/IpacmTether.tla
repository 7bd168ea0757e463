---------------------------- MODULE IpacmTether -----------------------------
(* One tethered interface of IPACM at work: an IPACM_Lan (USB or ODU) or an *)
(* IPACM_Wlan object, created at link-up and deleted by its own event, with *)
(* the driver's tables, the shared configuration and the static state of   *)
(* the WAN.  All handlers run on the one event thread.  What a WAN handler  *)
(* posts waits in the queue while the static state it has set is already   *)
(* visible; the other events come from outside at any time.                *)
EXTENDS IpacmWlan

CONSTANTS
  Cats,          \* kinds of interface: "lan", "odu" (router), "odub" (bridge), "wlan"
  \* For each kind of interface:
  Macs, V4Addrs, V6Addrs,   \* its clients and their addresses
  OwnV6,         \* the IPv6 addresses of the interface itself
  Refusable,     \* the kinds of entry the driver may refuse
  MaxFailures,   \* bound: handlers in which the driver refuses something
  MaxStray,      \* bound: lost IPv6 addresses the table does not hold
  MaxLinks,      \* bound: objects created
  MaxExtra,      \* bound: changes of configuration, subnets, channel mode, software routing
  MaxWan,        \* bound: times a WAN comes up, for each kind of interface
  MaxQueue       \* bound: events waiting

VARIABLES
  iface,     \* the object
  drv,       \* handles installed in the driver
  cfg,       \* IPACM_Config
  wan,       \* static state of IPACM_Wan
  queue,     \* events posted and not yet handled
  peers,     \* what the other components have been told
  seen       \* counts of the bounded events, and what went wrong so far

vars == <<iface, drv, cfg, wan, queue, peers, seen>>

Kinds == {"rt4", "rt6a", "rt6b", "dft4", "dft6", "icmp4", "icmp6", "priv4",
          "pfx6", "ul4", "ul6", "lanwan4", "lanwan6", "sw4", "sw6",
          "ohdr4", "ohdr6", "ort4", "ort6"}

\* Fields the constructors leave uninitialised.
Uninit == {"rt4", "rt6a", "rt6b", "dft4", "dft6", "lanwan4", "lanwan6", "sw4", "sw6"}

NewObject(cat, junk, ap) ==
  [cat |-> IF cat = "odub" THEN "odu" ELSE cat, kind |-> cat, act |-> TRUE, exists |-> TRUE,
   ip |-> "null", v6 |-> <<>>, sw |-> FALSE, pfx |-> 0, ul |-> {}, odu |-> {},
   sub |-> 0, priv |-> {}, cl |-> <<>>, ap |-> ap, guest |-> FALSE, again |-> FALSE,
   rx |-> IF cat = "wlan" THEN "wlan_prod" ELSE "usb_prod",
   tx |-> IF cat = "wlan" THEN "wlan_cons" ELSE "usb_cons",
   h |-> [k \in Kinds |-> IF k \in Uninit THEN junk ELSE None]]

(***************************************************************************)
(* Steps.                                                                  *)
(***************************************************************************)
Step(bad) ==
  [i |-> iface, d |-> drv, cfg |-> cfg, wan |-> wan, q |-> queue, bad |-> bad,
   new |-> None, ok |-> TRUE, ct |-> peers.ct, told |-> peers.told,
   modem |-> peers.modem, total |-> peers.total, psif |-> peers.psif]

Becomes(w) ==
  /\ iface' = w.i /\ drv' = w.d /\ cfg' = w.cfg /\ queue' = w.q
  /\ peers' = [ct |-> w.ct, told |-> w.told, modem |-> w.modem,
               total |-> w.total, psif |-> w.psif]

\* The circumstances the properties tell apart: the interface changes while a
\* WAN event still waits ("race"); it goes down without ever having had an
\* address ("bare"); a client has an address of a family it has none of
\* ("early"), or the address of another client ("shared"); the client table is
\* full ("full").
Oddities(why) ==
  (why \cap {"early", "shared", "full"})
  \cup (IF /\ why \cap {"down", "address"} # {}
           /\ \E n \in DOMAIN queue : queue[n].ev \in {"up", "down"} THEN {"race"} ELSE {})
  \cup (IF "down" \in why /\ iface.ip = "null" THEN {"bare"} ELSE {})

\* A handler of the object in which the driver may refuse one kind of entry.
Handle(Op(_), why) ==
  /\ "extra" \in why => seen.extra < MaxExtra[iface.kind]
  /\ "stray" \in why => seen.stray < MaxStray
  /\ \E bad \in {{}} \cup {{k} : k \in Refusable[iface.kind]} :
       /\ bad = {} \/ seen.failed < MaxFailures
       /\ LET w == Op(Step(bad))
          IN  /\ bad = {} \/ "refused" \in w.bad
              /\ Becomes(w)
       /\ seen' = [seen EXCEPT !.failed = @ + (IF bad = {} THEN 0 ELSE 1),
                               !.extra = @ + Cardinality(why \cap {"extra"}),
                               !.stray = @ + Cardinality(why \cap {"stray"}),
                               !.odd = @ \cup Oddities(why)]
  /\ UNCHANGED wan

Wlan == iface.kind = "wlan"
Lan  == ~Wlan
\* The ODU in bridge mode: IPACM only hands the ODU driver its address.
Bridge == iface.kind = "odub"
\* An object that has gone down ignores everything but its own deletion.
Active == iface.exists /\ iface.act /\ Len(queue) < MaxQueue

Post(w, e) == [w EXCEPT !.q = Append(@, e)]

(***************************************************************************)
(* Events from outside: the kernel, the driver, the configuration.         *)
(***************************************************************************)
\* IPA_LINK_DOWN_EVENT, IPA_WLAN_LINK_DOWN_EVENT.
LinkDown ==
  LET Op(w) == DelNatIfaces(IF Wlan THEN WlanDown(w) ELSE handle_down_evt(w), "dev")
  IN  Active /\ Handle(Op, {"down"})

\* IPA_CFG_CHANGE_EVENT, the category of the interface has changed.
CategoryChanged ==
  LET Op(w) == [DelNatIfaces(handle_down_evt(w), "dev") EXCEPT !.i.again = TRUE]
  IN  Active /\ Lan /\ Handle(Op, {"down"})

\* IPA_CFG_CHANGE_EVENT, the category has not changed.
ConfigChanged ==
  LET Op(w) == AddNatIfaces(w, "dev")
      Guest(w) == eth_bridge_handle_wlan_mode_switch(
                    [AddNatIfaces(w, "dev") EXCEPT !.i.guest = ~@])
  IN  Active /\ (Handle(Op, {"extra"}) \/ (Wlan /\ Handle(Guest, {"extra"})))

\* What both interfaces do once they have taken a new address of their own.
AfterAddress(w, fam) ==
  LET Subnets(r) == handle_private_subnet_android(add_dummy_private_subnet_flt_rule(r, fam), fam)
      Up(r) == CASE fam = "v4" /\ isWanUP(r, "v4") -> WanUp(r, "v4", r.wan.sta)
                 [] fam = "v6" /\ isWanUP(r, "v6") /\ Len(r.i.v6) = 1 -> WanUpV6(r, 1, r.wan.sta)
                 [] OTHER -> r
      Sw(r) == IF r.cfg.swrt THEN handle_software_routing_enable(r) ELSE r
  IN  Sw(Up(Subnets(w)))

\* IPA_ADDR_ADD_EVENT: one address of IPv4, as many of IPv6 as there are routes.
TakesAddress(fam) ==
  iface.ip \notin {fam, "max"} \/ (fam = "v6" /\ Len(iface.v6) # MaxDftV6)

AddressAdded(fam, a) ==
  LET Then(w) == IF w.ok THEN AfterAddress(w, fam) ELSE w
      Op(w)   == Then(handle_addr_evt(w, fam, a))
      Bridged(w) ==
        LET b == IF fam = "v6" /\ w.i.v6 = <<>> THEN handle_addr_evt_odu_bridge(w, a) ELSE w
        IN  handle_private_subnet_android(add_dummy_private_subnet_flt_rule(b, fam), fam)
  IN  /\ Active
      /\ IF Bridge THEN Handle(Bridged, {"extra"})
         ELSE TakesAddress(fam) /\ Handle(Op, {"address"})

\* IPA_NEIGH_CLIENT_IP_ADDR_ADD_EVENT: a LAN client enters with its first
\* address, a WLAN client is in the table already.
OduHeaders(w) ==
  LET Embms(r) == IF r.cfg.embms THEN handle_odu_route_add(r) ELSE r
  IN  IF w.i.cat = "odu" /\ w.i.odu = {} THEN Embms(handle_odu_hdr_init(w)) ELSE w

Track(w, fam, a) == IF fam = "v4" THEN HandleNeighIpAddrAddEvt(w, a) ELSE w

WlanNeighbour(w, mac, fam, a) ==
  LET n == get_wlan_client_index(w.i, mac)
      r == handle_wlan_client_ipaddr(w, n, fam, a)
  IN  IF r.ok THEN Track(handle_wlan_client_route_rule(r, n, fam), fam, a) ELSE r

LanNeighbour(w, mac, fam, a) ==
  LET h == handle_eth_hdr_init(OduHeaders(w), mac)
      n == get_eth_client_index(h.i, mac)
      r == handle_eth_client_ipaddr(h, n, fam, a)
  IN  IF r.ok
      THEN eth_bridge_post_event(Track(handle_eth_client_route_rule(r, n, fam), fam, a),
                                 "CLIENT_ADD", mac)
      ELSE r

NeighbourAdded(mac, fam, a) ==
  LET Op(w) == CASE Bridge -> OduHeaders(w)
                 [] Wlan   -> WlanNeighbour(w, mac, fam, a)
                 [] OTHER  -> LanNeighbour(w, mac, fam, a)
      early  == IF iface.ip \in {fam, "max"} THEN {} ELSE {"early"}
      shared == IF fam = "v4" /\ \E c \in ToSet(iface.cl) : c.v4 = a /\ c.mac # mac THEN {"shared"} ELSE {}
  IN  Active /\ Handle(Op, early \cup shared)

\* IPA_NEIGH_CLIENT_IP_ADDR_DEL_EVENT; IPACM_Wlan has no such handler.
NeighbourLostV4(mac) ==
  LET Op(w) == handle_eth_client_down_evt(
                 eth_bridge_post_event(w, "CLIENT_DEL", mac),
                 get_eth_client_index(w.i, mac))
  IN  Active /\ Lan /\ ~Bridge /\ Handle(Op, {})

NeighbourLostV6(mac, a) ==
  LET n == get_eth_client_index(iface, mac)
      Op(w) == handle_del_ipv6_addr(w, n, a)
      known == n # 0 /\ a \in ToSet(iface.cl[n].v6)
  IN  Active /\ Lan /\ ~Bridge /\ Handle(Op, IF known THEN {} ELSE {"stray"})

\* IPA_SW_ROUTING_ENABLE and _DISABLE, with the flag of the configuration.
SoftwareRouting(on) ==
  LET Op(w) == LET c == [w EXCEPT !.cfg.swrt = on]
               IN  IF on THEN handle_software_routing_enable(c)
                   ELSE handle_software_routing_disable(c)
  IN  Active /\ cfg.swrt # on /\ Handle(Op, {"extra"})

\* IPA_WLAN_CLIENT_ADD_EVENT_EX: announced whether or not there is room.
WlanClientAdded(mac) ==
  LET Op(w) == handle_wlan_client_init_ex(
                 eth_bridge_post_event(w, "CLIENT_ADD", mac), mac)
      again == get_wlan_client_index(iface, mac) # 0
      full  == Len(iface.cl) >= MaxClients \/ peers.total >= MaxClients
  IN  Active /\ Wlan /\ Handle(Op, (IF again THEN {"extra"} ELSE {})
                                 \cup (IF full THEN {"full"} ELSE {}))

\* IPA_WLAN_CLIENT_DEL_EVENT.
WlanClientGone(mac) ==
  LET Op(w) == handle_wlan_client_down_evt(
                 eth_bridge_post_event(w, "CLIENT_DEL", mac),
                 get_wlan_client_index(w.i, mac))
  IN  Active /\ Wlan /\ Handle(Op, {})

\* IPA_WLAN_CLIENT_POWER_SAVE_EVENT and IPA_WLAN_CLIENT_RECOVER_EVENT.
WlanClientSleeps(mac) ==
  LET Op(w) == handle_wlan_client_pwrsave(w, get_wlan_client_index(w.i, mac))
  IN  Active /\ Wlan /\ Handle(Op, {})

WlanClientWakes(mac) ==
  LET Op(w) == WlanClientRecover(w, get_wlan_client_index(w.i, mac))
  IN  Active /\ Wlan /\ Handle(Op, {})

\* IPA_WLAN_SWITCH_TO_SCC and IPA_WLAN_SWITCH_TO_MCC.
ChannelSwitched(mode) ==
  LET Op(w) ==
        LET c == [w EXCEPT !.cfg.mode = mode]
            Fam(fam, x) == IF fam \in {"v4", "v6"} THEN handle_SCC_MCC_switch(x, fam) ELSE x
        IN  IF w.i.ip = "max" THEN Fam("v6", Fam("v4", c)) ELSE Fam(w.i.ip, c)
  IN  Active /\ Wlan /\ cfg.mode # mode /\ Handle(Op, {"extra"})

\* Another interface enters its subnet into the table or takes it out.
OtherSubnet ==
  LET Op(w) == IF "other" \in ToSet(w.cfg.subs)
               THEN DelPrivateSubnet(w, "other", "other")
               ELSE AddPrivateSubnet(w, "other", "other")
  IN  Len(queue) < MaxQueue /\ Handle(Op, {"extra"})

\* IPACM_IfaceManager makes an object at link-up, if there is none.
LinkUp ==
  /\ ~iface.exists /\ seen.links < MaxLinks[iface.kind]
  /\ \E junk \in {None, Junk} :
       iface' = NewObject(iface.kind, junk, iface.ap)
  /\ queue' = SelectSeq(queue, LAMBDA e : e.ev # "linkup")
  /\ seen' = [seen EXCEPT !.links = @ + 1]
  /\ cfg' = [cfg EXCEPT !.nat = @ \cup {"dev"}]
  /\ UNCHANGED <<drv, wan, peers>>

(***************************************************************************)
(* The WAN: the static state changes at once, the event waits.             *)
(***************************************************************************)
WanComesUp(fam) ==
  /\ fam \notin wan.up /\ seen.wan < MaxWan[iface.kind] /\ Len(queue) < MaxQueue
  /\ \E sta \in IF wan.up = {} THEN BOOLEAN ELSE {wan.sta} :
       /\ wan' = [wan EXCEPT !.up = @ \cup {fam}, !.tether = @ \cup {fam}, !.sta = sta]
       /\ queue' = Append(queue, [ev |-> "up", fam |-> fam, sta |-> sta])
  /\ seen' = [seen EXCEPT !.wan = @ + 1]
  /\ UNCHANGED <<iface, drv, cfg, peers>>

WanGoesDown(fam) ==
  /\ fam \in wan.up /\ Len(queue) < MaxQueue
  /\ wan' = [wan EXCEPT !.up = @ \ {fam}, !.tether = @ \ {fam}]
  /\ queue' = Append(queue, [ev |-> "down", fam |-> fam, sta |-> wan.sta])
  /\ UNCHANGED <<iface, drv, cfg, peers, seen>>

(***************************************************************************)
(* Events that waited in the queue.                                        *)
(***************************************************************************)
Has(w, fam) == IF fam = "v4" THEN HasV4(w.i) ELSE HasV6(w.i)

\* IPA_HANDLE_WAN_UP_TETHER, IPA_HANDLE_WAN_UP_V6_TETHER.
OnWanUp(w, e) ==
  IF ~Has(w, e.fam) THEN w
  ELSE IF e.fam = "v4" THEN WanUp(w, "v4", e.sta) ELSE WanUpV6(w, 1, e.sta)

\* IPA_HANDLE_WAN_DOWN_TETHER, IPA_HANDLE_WAN_DOWN_V6_TETHER: without IPv6 the clients lose
\* their addresses, whether or not the interface has one.
LanWanDown(w, e) ==
  LET r == handle_lan_client_reset_rt(w, "v6") IN
  CASE e.fam = "v4" -> IF Has(w, "v4") THEN handle_wan_down(w, e.sta) ELSE w
    [] e.fam = "v6" -> IF Has(r, "v6") THEN handle_wan_down_v6(r, e.sta) ELSE r

\* The IPv4 rules of a modem are left to the first access point.
WlanWanDown(w, e) ==
  LET r == handle_wlan_client_reset_rt(w, "v6") IN
  CASE e.fam = "v4" -> IF Has(w, "v4") /\ (e.sta \/ w.i.ap = 0) THEN handle_wan_down(w, e.sta)
                       ELSE w
    [] e.fam = "v6" -> IF Has(r, "v6") THEN handle_wan_down_v6(r, e.sta) ELSE r

OnWanDown(w, e) == IF Wlan THEN WlanWanDown(w, e) ELSE LanWanDown(w, e)

\* IPA_PRIVATE_SUBNET_CHANGE_EVENT.
OnSubnet(w, e) == IF e.from = "own" THEN w ELSE handle_private_subnet_android(w, "v4")

\* IPA_LAN_DELETE_SELF: the object goes; after a change of its category the
\* interface comes up again.
DeleteSelf(w) ==
  LET gone == [w EXCEPT !.i = [exists |-> FALSE, kind |-> w.i.kind, ap |-> w.i.ap]]
  IN  IF w.i.again THEN Post(gone, [ev |-> "linkup"]) ELSE gone

Dispatch ==
  LET e == Head(queue)
      Op(w) ==
        LET r == [w EXCEPT !.q = Tail(@)]
        IN  CASE ~w.i.exists -> r
              [] e.ev = "delete_self" -> DeleteSelf(r)
              [] ~w.i.act -> r
              [] e.ev = "up" -> OnWanUp(r, e)
              [] e.ev = "down" -> OnWanDown(r, e)
              [] OTHER -> OnSubnet(r, e)
  IN  /\ queue # <<>> /\ e.ev # "linkup"
      /\ Handle(Op, {})

(***************************************************************************)
(* Specification.                                                          *)
(***************************************************************************)
Init ==
  /\ \E kind \in Cats, junk \in {None, Junk}, ap \in 0 .. 1 :
       /\ ap = 0 \/ kind = "wlan"
       /\ iface = NewObject(kind, junk, ap)
  /\ \E embms \in BOOLEAN :
       /\ embms => iface.cat = "odu"
       /\ cfg = [up |-> {"q6_cons"}, a2 |-> 1, subs |-> <<>>, nat |-> {"dev"},
                 swrt |-> FALSE, embms |-> embms, router |-> iface.kind # "odub",
                 mode |-> "scc"]
  /\ drv = {} /\ queue = <<>>
  /\ wan = [up |-> {}, tether |-> {}, sta |-> FALSE]
  /\ peers = [ct |-> {}, told |-> {}, modem |-> {}, total |-> 0, psif |-> {}]
  /\ seen = [failed |-> 0, links |-> 1, wan |-> 0, extra |-> 0, stray |-> 0, odd |-> {}]

ClientEvents ==
  \E mac \in Macs[iface.kind] :
    \/ \E a \in V4Addrs[iface.kind] : NeighbourAdded(mac, "v4", a)
    \/ \E a \in V6Addrs[iface.kind] : NeighbourAdded(mac, "v6", a)
    \/ NeighbourLostV4(mac)
    \/ \E a \in V6Addrs[iface.kind] : NeighbourLostV6(mac, a)
    \/ WlanClientAdded(mac)
    \/ WlanClientGone(mac)
    \/ WlanClientSleeps(mac)
    \/ WlanClientWakes(mac)

Next ==
  \/ ClientEvents
  \/ LinkUp
  \/ LinkDown
  \/ CategoryChanged
  \/ ConfigChanged
  \/ AddressAdded("v4", "own")
  \/ \E a \in OwnV6[iface.kind] : AddressAdded("v6", a)
  \/ \E on \in BOOLEAN : SoftwareRouting(on)
  \/ \E mode \in {"scc", "mcc"} : ChannelSwitched(mode)
  \/ OtherSubnet
  \/ \E fam \in {"v4", "v6"} : WanComesUp(fam) \/ WanGoesDown(fam)
  \/ Dispatch

Spec == Init /\ [][Next]_vars

(***************************************************************************)
(* Properties.                                                             *)
(***************************************************************************)
Faultless == seen.failed = 0 /\ seen.stray = 0 /\ "race" \notin seen.odd
Working   == iface.exists /\ iface.act
Waits(evs) == \E n \in DOMAIN queue : queue[n].ev \in evs

\* What the object can still delete of what it has put into the driver.
Held ==
  IF ~iface.exists THEN {}
  ELSE {iface.h[k] : k \in Kinds} \cup
       UNION {{c.hdr4, c.hdr6} \cup (IF c.r4 THEN {c.rt4} ELSE {})
                \cup {c.rt6[j] : j \in 1 .. c.n6} : c \in ToSet(iface.cl)}

\* Nothing stays in the driver that nobody can delete any more, whatever the
\* order of addresses, clients, WAN and link events (handle_down_evt).  The
\* code does lose the private-subnet rules of a bridge, and the uplink rules
\* of the second access point, which ignores that a modem WAN is down.
NothingOrphaned ==
  Faultless => \A x \in drv \ Held :
                 \/ iface.kind = "odub" /\ x[1] = "priv4"
                 \/ iface.ap > 0 /\ x[1] = "ul4"

UplinkOf(fam) == {UplinkKind(fam), StationKind(fam)}
InDriver(kinds) == {x[1] : x \in drv} \cap kinds

\* Once the WAN events are handled the interface has the uplink rule of a
\* family exactly while the WAN is up for it, the one of its kind, and the
\* modem knows of its own.  Left out: IPv6 with two addresses, which
\* handle_wan_up_ex turns away, and the second access point, which ignores
\* that a modem WAN is down.
UplinksFollowWan ==
  (Faultless /\ Working /\ ~Waits({"up", "down"})) =>
    \A fam \in {"v4", "v6"} :
      \/ fam = "v6" /\ Len(iface.v6) = 2
      \/ fam = "v4" /\ iface.ap > 0
      \/ InDriver(UplinkOf(fam)) =
           IF isWanUP([wan |-> wan], fam) /\ Has([i |-> iface], fam)
           THEN {IF wan.sta THEN StationKind(fam) ELSE UplinkKind(fam)} ELSE {}

\* The modem and the driver agree on the uplink filters; a new object has
\* told the modem nothing.
ModemAgrees ==
  Faultless => peers.modem = {fam \in {"v4", "v6"} : UplinkKind(fam) \in InDriver(Kinds)}

\* Nobody is told of a client that has gone: IPACM_LanToLan knows families
\* and clients the interface has, the conntrack listener addresses of its
\* clients, the NAT application sleeping ones of theirs.  An interface that
\* goes down without an address takes its clients along untold and leaves its
\* consumer pipe up, a client that found the table full is announced all the same, and of two clients with one
\* address the second stays asleep for the NAT application.  The resource manager
\* has the consumer pipe of an interface up only while it has clients.
PeersKnow ==
  LET cl == IF iface.exists THEN ToSet(iface.cl) ELSE {}
      fams == {fam \in {"v4", "v6"} : iface.exists /\ Has([i |-> iface], fam)}
  IN  /\ Faultless /\ seen.odd \cap {"bare", "full"} = {} => peers.told \subseteq fams \cup {c.mac : c \in cl}
      /\ peers.ct \subseteq {c.v4 : c \in cl}
      /\ "shared" \notin seen.odd => peers.psif \subseteq {c.v4 : c \in {x \in cl : x.ps}}
      /\ peers.total = IF iface.kind = "wlan" THEN Cardinality(cl) ELSE 0
      /\ Faultless /\ Lan /\ Working /\ cl = {} /\ "bare" \notin seen.odd => iface.tx \notin cfg.up

\* The private-subnet rules are those of the shared table, unless another
\* interface's change still waits (handle_private_subnet_android).
SubnetsFollow ==
  (Faultless /\ Working /\ "priv4" \in InDriver(Kinds)
    /\ ~\E n \in DOMAIN queue : queue[n].ev = "subnet" /\ queue[n].from = "other")
  => iface.priv = ToSet(cfg.subs)

\* The IPv4 routes of an access point lead to the pipe of the channel mode,
\* those a sleeping client gets back too (handle_SCC_MCC_switch), if the
\* clients came after its own address.
RoutesFollowMode ==
  (Working /\ iface.kind = "wlan" /\ "early" \notin seen.odd) =>
    \A c \in ToSet(iface.cl) : c.r4 => c.m4 = cfg.mode

\* Clients keep only IPv6 addresses of the prefix the WAN has now.
PrefixFollows ==
  (Working /\ ~Waits({"up", "down"})) =>
    \A c \in ToSet(iface.cl) : \A a \in ToSet(c.v6) : a[1] \in {0, iface.pfx}

\* The rules of an interface follow the events that change what they depend
\* on: the WAN, the table of private subnets, the channel mode, the prefix.
RulesFollow == UplinksFollowWan /\ SubnetsFollow /\ RoutesFollowMode /\ PrefixFollows

\* What the modem, IPACM_LanToLan, the conntrack listener, the NAT application
\* and the resource manager were told agrees with what the interface has.
OthersKnow == ModemAgrees /\ PeersKnow
=============================================================================
