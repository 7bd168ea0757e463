---------------------------- MODULE IpacmBridge -----------------------------
(* Clients come, get addresses and leave behind the tethered interfaces: by *)
(* the WLAN driver (associations) and by netlink (neighbours, most of them  *)
(* seen on the bridge interface only).  IPACM_Neighbor turns neighbour      *)
(* events into client events, the interface objects tell IPACM_LanToLan of  *)
(* their clients and of themselves.  Events from outside wait in one queue, *)
(* the objects' own in another, which is served first (IpacmBus).           *)
EXTENDS IpacmLanToLan, IpacmNeighbor

CONSTANTS
  Ptrs,         \* addresses of interface objects in memory
  Macs,
  MaxTable,     \* IPA_MAX_NUM_WIFI_CLIENTS, IPA_MAX_NUM_ETH_CLIENTS
  Addresses,    \* IPv4 addresses, LinkLocal among them
  Scenes,       \* names of the scenes
  Cast,         \* the interfaces of each scene
  Crowd,        \* and its clients
  Bridged,      \* those behind the bridge interface
  Plays,        \* what may happen in each scene
  MaxPlays,     \* bound: happenings, for each scene
  MaxWaiting    \* bound: the world waits while so many events do

ASSUME LinkLocal \in Addresses /\ Virtual \notin DOMAIN Kinds

VARIABLES
  net,      \* per interface up; per client at (where it is), port (where the
            \* kernel has seen its MAC address), arp (where its IPv4 address), v4
  file,     \* the access points that are for guests
  nb,       \* IPACM_Neighbor: tab, circ
  bridge,   \* IPACM_LanToLan: ifs, cache, drv
  ext, int, \* the two queues
  seen      \* scene, count of happenings, and what went the odd way

vars == <<obj, mode, net, file, nb, bridge, ext, int, seen>>
world == <<net, file>>

Ifaces == DOMAIN Kinds
Object(i, kept) == [i |-> i, fam |-> {}, guest |-> kept, cl |-> <<>>]

\* Where the first objects are does not matter.
Place0 == CHOOSE f \in [Ifaces -> Ptrs] :
            \A s \in Scenes : \A i, j \in Cast[s] : i # j => f[i] # f[j]

Init ==
  /\ \E s \in Scenes :
       /\ seen = [scene |-> s, n |-> 0, odd |-> {}]
       /\ obj = [o \in Ptrs |-> IF \E i \in Cast[s] : Place0[i] = o
                                THEN Object(CHOOSE i \in Cast[s] : Place0[i] = o, FALSE)
                                ELSE NoObj]
       /\ net = [up |-> Cast[s], at |-> [c \in Macs |-> "none"], port |-> [c \in Macs |-> "none"],
                 arp |-> [c \in Macs |-> "none"], six |-> {}, v4 |-> [c \in Macs |-> 0]]
  /\ mode = "scc" /\ file = {}
  /\ nb = [tab |-> <<>>, circ |-> 1]
  /\ bridge = [ifs |-> <<>>, cache |-> <<>>, drv |-> EmptyBag]
  /\ ext = <<>> /\ int = <<>>

-----------------------------------------------------------------------------
(* The world: kernel, WLAN driver, configuration file.                      *)

MayOdd(what, odd) ==
  /\ what \in Plays[seen.scene] /\ seen.n < MaxPlays[seen.scene] /\ Len(ext) < MaxWaiting
  /\ seen' = [seen EXCEPT !.n = @ + 1, !.odd = @ \cup odd]
  /\ UNCHANGED <<obj, nb, bridge, int>>
May(what) == MayOdd(what, {})
Event(ev, i, mac, fam, a) == [ev |-> ev, i |-> i, mac |-> mac, fam |-> fam, a |-> a]
Tell(evs) == ext' = ext \o evs
Wlan(i) == Kinds[i].wlan
ArpPort(i) == IF i \in Bridged[seen.scene] THEN Virtual ELSE i

\* The interface gets an address of its own.
Address(i, fam) ==
  /\ May("address") /\ i \in net.up
  /\ Tell(<<Event("ADDR", i, "none", fam, 1)>>)
  /\ UNCHANGED <<mode, world>>

\* A link goes, and with it the clients behind it; the kernel's entries go on their own.
LinkDown(i) ==
  /\ May("link") /\ i \in net.up
  /\ net' = [net EXCEPT !.up = @ \ {i}, !.at = [c \in Macs |-> IF @[c] = i THEN "none" ELSE @[c]]]
  /\ Tell(<<Event("DOWN", i, "none", "v4", 0)>>)
  /\ UNCHANGED <<mode, file>>

LinkUp(i) ==
  /\ May("link") /\ i \in Cast[seen.scene] \ net.up
  /\ net' = [net EXCEPT !.up = @ \cup {i}]
  /\ Tell(<<Event("UP", i, "none", "v4", 0)>>)
  /\ UNCHANGED <<mode, file>>

\* WLAN_CLIENT_CONNECT_EX also counts as a neighbour.
Associate(c, i) ==
  /\ May("client") /\ i \in net.up /\ Wlan(i) /\ net.at[c] = "none"
  /\ net' = [net EXCEPT !.at[c] = i]
  /\ Tell(<<Event("ASSOC", i, c, "v6", 0), Event("NEW", i, c, "v6", 0)>>)
  /\ UNCHANGED <<mode, file>>

Disassociate(c) ==
  /\ MayOdd("client", IF net.at[c] \in Bridged[seen.scene] /\ net.port[c] # net.at[c]
                      THEN {<<"brief", c>>} ELSE {})
  /\ net.at[c] # "none" /\ Wlan(net.at[c])
  /\ net' = [net EXCEPT !.at[c] = "none"]
  /\ Tell(<<Event("LEAVE", net.at[c], c, "v6", 0)>>)
  /\ UNCHANGED <<mode, file>>

\* A cable is a matter of the kernel only.
Plug(c, i) ==
  /\ May("client") /\ i \in net.up /\ ~Wlan(i)
  /\ \/ net.at[c] = "none" /\ net' = [net EXCEPT !.at[c] = i]
     \/ net.at[c] = i /\ net' = [net EXCEPT !.at[c] = "none"]
  /\ UNCHANGED <<mode, file, ext>>

\* The bridge learns on which port a MAC address is, and forgets it.
Learn(c) ==
  /\ May("neighbour") /\ net.at[c] \in Bridged[seen.scene] /\ net.port[c] # net.at[c]
  /\ net' = [net EXCEPT !.port[c] = net.at[c]]
  /\ Tell(<<Event("NEW", net.at[c], c, "v6", 0)>>)
  /\ UNCHANGED <<mode, file>>

Unlearn(c) ==
  /\ May("neighbour") /\ net.port[c] # "none" /\ net.at[c] # net.port[c]
  /\ net' = [net EXCEPT !.port[c] = "none"]
  /\ Tell(<<Event("DEL", net.port[c], c, "v6", 0)>>)
  /\ UNCHANGED <<mode, file>>

\* The neighbour tables, for IPv4 and for IPv6.  The answer of a client has come through
\* its port.
Placed(c) == net.at[c] # "none" /\ (net.at[c] \in Bridged[seen.scene] => net.port[c] = net.at[c])

Resolve(c, a) ==
  /\ May("neighbour") /\ Placed(c)
  /\ <<net.arp[c], net.v4[c]>> # <<ArpPort(net.at[c]), a>>
  /\ net' = [net EXCEPT !.arp[c] = ArpPort(net.at[c]), !.v4[c] = a]
  /\ Tell(<<Event("NEW", ArpPort(net.at[c]), c, "v4", a)>>)
  /\ UNCHANGED <<mode, file>>

Expire(c) ==
  /\ May("neighbour") /\ net.arp[c] # "none" /\ net.at[c] = "none"
  /\ net' = [net EXCEPT !.arp[c] = "none"]
  /\ Tell(<<Event("DEL", net.arp[c], c, "v4", net.v4[c])>>)
  /\ UNCHANGED <<mode, file>>

Resolve6(c) ==
  /\ May("six") /\ Placed(c) /\ c \notin net.six
  /\ net' = [net EXCEPT !.six = @ \cup {c}]
  /\ Tell(<<Event("NEW", ArpPort(net.at[c]), c, "v6", 1)>>)
  /\ UNCHANGED <<mode, file>>

Expire6(c) ==
  /\ May("six") /\ c \in net.six /\ net.at[c] # "none"
  /\ net' = [net EXCEPT !.six = @ \ {c}]
  /\ Tell(<<Event("DEL", ArpPort(net.at[c]), c, "v6", 1)>>)
  /\ UNCHANGED <<mode, file>>

\* The driver thread changes isMCC_Mode itself, before it posts the event.
Channel ==
  /\ May("channel")
  /\ mode' = IF mode = "scc" THEN "mcc" ELSE "scc"
  /\ Tell(<<Event("MODE", Virtual, "none", "v4", 0)>>)
  /\ UNCHANGED world

\* The configuration file makes an access point one for guests, or for all.
Configure(i) ==
  /\ May("guest") /\ Wlan(i) /\ i \in Cast[seen.scene]
  /\ file' = (file \cup {i}) \ (file \cap {i})
  /\ Tell(<<Event("CFG", Virtual, "none", "v4", 0)>>)
  /\ UNCHANGED <<mode, net>>

-----------------------------------------------------------------------------
(* Events from outside.                                                     *)

Next_external(evs) ==
  /\ int = <<>> /\ ext # <<>> /\ Head(ext).ev \in evs
  /\ UNCHANGED <<mode, world>>
Take(posts) == ext' = Tail(ext) \o posts
Own(i) == {o \in Ptrs : obj[o] # NoObj /\ obj[o].i = i}
Odd(what) == [seen EXCEPT !.odd = @ \cup what]
Posts(ev, o, fam, mac) == [ev |-> ev, o |-> o, fam |-> fam, mac |-> mac]

\* The manager makes an object for the interface, wherever there is memory for it.
MakeObject ==
  /\ Next_external({"UP"})
  /\ LET i == Head(ext).i IN
     IF Own(i) # {} THEN UNCHANGED obj
     ELSE \E o \in {p \in Ptrs : obj[p] = NoObj} :
            obj' = [obj EXCEPT ![o] = Object(i, i \in file)]
  /\ Take(<<>>) /\ UNCHANGED <<nb, bridge, int, seen>>

\* handle_addr_evt: the first IPv6 address, and every IPv4 address.
OwnAddress ==
  /\ Next_external({"ADDR"})
  /\ LET e == Head(ext)
         news == {o \in Own(e.i) : e.fam = "v4" \/ "v6" \notin obj[o].fam}
     IN /\ obj' = [o \in Ptrs |-> IF o \in Own(e.i) THEN [obj[o] EXCEPT !.fam = @ \cup {e.fam}]
                                  ELSE obj[o]]
        /\ int' = SetToSeq({Posts("IFACE_UP", o, e.fam, "none") : o \in news})
  /\ Take(<<>>) /\ UNCHANGED <<nb, bridge, seen>>

\* handle_down_evt: an interface without address says nothing to IPACM_LanToLan.
Down ==
  /\ Next_external({"DOWN"})
  /\ LET mine == Own(Head(ext).i) IN
     /\ obj' = [o \in Ptrs |-> IF o \in mine THEN [obj[o] EXCEPT !.cl = <<>>] ELSE obj[o]]
     /\ int' = SetToSeq({Posts("IFACE_DOWN", o, "v4", "none") : o \in {p \in mine : obj[p].fam # {}}})
               \o SetToSeq({Posts("DELETE_SELF", o, "v4", "none") : o \in mine})
  /\ Take(<<>>) /\ UNCHANGED <<nb, bridge, seen>>

NewClient(mac, v4, v6) == [mac |-> mac, v4 |-> v4, v6 |-> v6]
Place(o, mac) == SelectInSeq(obj[o].cl, LAMBDA c : c.mac = mac)
AllWlan == {o \in Ptrs : obj[o] # NoObj /\ IsWlan(o)}
Total == FoldSet(LAMBDA o, n : n + Len(obj[o].cl), 0, AllWlan)

\* IPA_WLAN_CLIENT_ADD_EVENT_EX: IPACM_LanToLan is told before the tables are looked at.
Associated ==
  /\ Next_external({"ASSOC"})
  /\ LET e == Head(ext)
         n == Neighbour(nb @@ [out |-> <<>>], e)
         full == Total >= MaxTable
     IN /\ nb' = [tab |-> n.tab, circ |-> n.circ]
        /\ int' = SetToSeq({Posts("CLIENT_ADD", o, "v4", e.mac) : o \in Own(e.i)})
        /\ obj' = [o \in Ptrs |-> IF o \in Own(e.i) /\ ~full
                                  THEN [obj[o] EXCEPT !.cl = Append(@, NewClient(e.mac, 0, FALSE))]
                                  ELSE obj[o]]
        /\ seen' = IF full THEN Odd({<<"full", e.mac>>}) ELSE seen
        /\ Take(n.out)
  /\ UNCHANGED bridge

RemoveEntry(cl, k) == IF k = 0 THEN cl ELSE RemoveAt(cl, k)

Left ==
  /\ Next_external({"LEAVE"})
  /\ LET e == Head(ext) IN
     /\ int' = SetToSeq({Posts("CLIENT_DEL", o, "v4", e.mac) : o \in Own(e.i)})
     /\ obj' = [o \in Ptrs |-> IF o \in Own(e.i)
                               THEN [obj[o] EXCEPT !.cl = RemoveEntry(@, Place(o, e.mac))]
                               ELSE obj[o]]
  /\ Take(<<>>) /\ UNCHANGED <<nb, bridge, seen>>

\* The port goes from the cache, and the address with it, which the kernel keeps.
LosesAddress(e) ==
  e.ev = "DEL" /\ e.a = 0 /\ Entry(nb, e.mac) # 0 /\ net.arp[e.mac] = Virtual
Replaced(old, new) == IF old.circ = new.circ THEN {}
                      ELSE {old.tab[k].mac : k \in {j \in DOMAIN old.tab : j = old.circ}}

NeighbourEvent ==
  /\ Next_external({"NEW", "DEL"})
  /\ LET n == Neighbour(nb @@ [out |-> <<>>], Head(ext)) IN
     /\ nb' = [tab |-> n.tab, circ |-> n.circ]
     /\ seen' = Odd((IF LosesAddress(Head(ext)) THEN {<<"forgotten", Head(ext).mac>>} ELSE {})
                    \cup {<<"recycled", c>> : c \in Replaced(nb, n)})
     /\ Take(n.out)
  /\ UNCHANGED <<obj, bridge, int>>

\* handle_eth_hdr_init, handle_eth_client_ipaddr: a cabled client gets its entry with its
\* first address; an address it has already is an error.  The result: the client table
\* and whether IPACM_LanToLan is told.
ClientAddress(o, e) ==
  LET room == ~IsWlan(o) /\ Place(o, e.mac) = 0 /\ Len(obj[o].cl) < MaxTable
      cl == IF room THEN Append(obj[o].cl, NewClient(e.mac, 0, FALSE)) ELSE obj[o].cl
      k == SelectInSeq(cl, LAMBDA c : c.mac = e.mac)
      fresh == k # 0 /\ (IF e.fam = "v4" THEN cl[k].v4 # e.a ELSE ~cl[k].v6)
  IN  IF ~fresh THEN [cl |-> cl, tell |-> FALSE]
      ELSE [cl |-> IF e.fam = "v4" THEN [cl EXCEPT ![k].v4 = e.a] ELSE [cl EXCEPT ![k].v6 = TRUE],
            tell |-> ~IsWlan(o)]

ClientComes ==
  /\ Next_external({"CLIENT"})
  /\ LET e == Head(ext) IN
     /\ obj' = [o \in Ptrs |-> IF o \in Own(e.i) THEN [obj[o] EXCEPT !.cl = ClientAddress(o, e).cl]
                               ELSE obj[o]]
     /\ int' = SetToSeq({Posts("CLIENT_ADD", o, "v4", e.mac) :
                           o \in {p \in Own(e.i) : ClientAddress(p, e).tell}})
  /\ Take(<<>>) /\ UNCHANGED <<nb, bridge, seen>>

\* Only IPACM_Lan listens: an IPv6 address goes, or the client with its IPv4 address.
ClientGoes ==
  /\ Next_external({"GONE"})
  /\ LET e == Head(ext)
         mine == {o \in Own(e.i) : ~IsWlan(o)}
         Left4(o) == RemoveEntry(obj[o].cl, Place(o, e.mac))
         Left6(o) == [k \in DOMAIN obj[o].cl |->
                        [obj[o].cl[k] EXCEPT !.v6 = @ /\ k # Place(o, e.mac)]]
     IN /\ obj' = [o \in Ptrs |-> IF o \notin mine THEN obj[o]
                                  ELSE [obj[o] EXCEPT !.cl = IF e.fam = "v4" THEN Left4(o) ELSE Left6(o)]]
        /\ int' = IF e.fam = "v6" THEN <<>>
                  ELSE SetToSeq({Posts("CLIENT_DEL", o, "v4", e.mac) : o \in mine})
  /\ Take(<<>>) /\ UNCHANGED <<nb, bridge, seen>>

ModeChange ==
  /\ Next_external({"MODE"})
  /\ int' = SetToSeq({Posts("SWITCH", o, "v4", "none") : o \in AllWlan})
  /\ Take(<<>>) /\ UNCHANGED <<obj, nb, bridge, seen>>

\* eth_bridge_handle_wlan_mode_switch: down, up and all the clients again.
Renew(o) ==
  <<Posts("IFACE_DOWN", o, "v4", "none")>>
  \o SetToSeq({Posts("IFACE_UP", o, f, "none") : f \in obj[o].fam})
  \o [k \in DOMAIN obj[o].cl |-> Posts("CLIENT_ADD", o, "v4", obj[o].cl[k].mac)]

ConfigChange ==
  /\ Next_external({"CFG"})
  /\ LET changed == {o \in AllWlan : obj[o].guest # (obj[o].i \in file)} IN
     /\ obj' = [o \in Ptrs |-> IF o \in changed THEN [obj[o] EXCEPT !.guest = ~@] ELSE obj[o]]
     /\ int' = FlattenSeq([k \in 1 .. Cardinality(changed) |-> Renew(SetToSeq(changed)[k])])
  /\ Take(<<>>) /\ UNCHANGED <<nb, bridge, seen>>

-----------------------------------------------------------------------------
(* Events from the objects, to IPACM_LanToLan and to the dispatcher.        *)

Next_internal(ev) ==
  /\ int # <<>> /\ Head(int).ev = ev
  /\ int' = Tail(int)
  /\ UNCHANGED <<mode, world, nb, ext>>
Told == Head(int)

Cached(l, o, mac) == [o |-> o, mac |-> mac] \in ToSet(l.cache)
Knows(l, o, mac) == (o \in DOMAIN l.ifs /\ mac \in Clients(l, o)) \/ Cached(l, o, mac)
\* Those whom a full table leaves out, without a word.
Dropped(o) ==
  LET full == IF o \in DOMAIN bridge'.ifs THEN Cardinality(Clients(bridge', o)) = MaxPeers
              ELSE Len(bridge'.cache) = MaxCached
  IN  {<<"dropped", c>> : c \in {d \in Macs : full /\ ~Knows(bridge', o, d)}}

IfaceUp ==
  /\ Next_internal("IFACE_UP")
  /\ bridge' = handle_iface_up(bridge, Told.o, Told.fam)
  /\ seen' = Odd({x \in Dropped(Told.o) : Knows(bridge, Told.o, x[2])})
  /\ UNCHANGED obj

IfaceDown ==
  /\ Next_internal("IFACE_DOWN")
  /\ bridge' = handle_iface_down(bridge, Told.o)
  /\ UNCHANGED <<obj, seen>>

ClientAdd ==
  /\ Next_internal("CLIENT_ADD")
  /\ bridge' = handle_client_add(bridge, Told.o, Told.mac)
  /\ seen' = Odd({x \in Dropped(Told.o) : x[2] = Told.mac})
  /\ UNCHANGED obj

ClientDel ==
  /\ Next_internal("CLIENT_DEL")
  /\ bridge' = handle_client_del(bridge, Told.o, Told.mac)
  /\ seen' = IF Cached(bridge, Told.o, Told.mac) THEN Odd({<<"ghost", Told.mac>>}) ELSE seen
  /\ UNCHANGED obj

SwitchMode ==
  /\ Next_internal("SWITCH")
  /\ bridge' = handle_wlan_scc_mcc_switch(bridge, Told.o)
  /\ UNCHANGED <<obj, seen>>

DeleteSelf ==
  /\ Next_internal("DELETE_SELF")
  /\ obj' = [obj EXCEPT ![Told.o] = NoObj]
  /\ seen' = Odd({<<"left", x.mac>> : x \in {y \in ToSet(bridge.cache) : y.o = Told.o}})
  /\ UNCHANGED bridge

World ==
  \/ Channel
  \/ \E i \in Ifaces : \/ LinkUp(i) \/ LinkDown(i) \/ Configure(i)
                       \/ \E fam \in Families : Address(i, fam)
                       \/ \E c \in Crowd[seen.scene] : Associate(c, i) \/ Plug(c, i)
  \/ \E c \in Macs : \/ Disassociate(c) \/ Learn(c) \/ Unlearn(c) \/ Expire(c)
                     \/ Resolve6(c) \/ Expire6(c)
                     \/ \E a \in Addresses : Resolve(c, a)

External == MakeObject \/ OwnAddress \/ Down \/ Associated \/ Left \/ NeighbourEvent
            \/ ClientComes \/ ClientGoes \/ ModeChange \/ ConfigChange
Internal == IfaceUp \/ IfaceDown \/ ClientAdd \/ ClientDel \/ SwitchMode \/ DeleteSelf

Next == World \/ External \/ Internal
Spec == Init /\ [][Next]_vars

-----------------------------------------------------------------------------
(* Properties.                                                              *)

Quiet == ext = <<>> /\ int = <<>>
Is(what, mac) == <<what, mac>> \in seen.odd

Held(o) ==
  LET f == bridge.ifs[o] IN
  UNION {{RtRule(o, t, c) : t \in {u \in DOMAIN f.cl[c] : f.cl[c][u] # "none"}} : c \in DOMAIN f.cl}
  \cup UNION {{FltRule(o, p, x[1], x[2]) : x \in f.flt[p]} : p \in DOMAIN f.flt}
  \cup {Context(o, t) : t \in f.ctx}

\* The driver has exactly the rules and contexts that IPACM_LanToLan holds, each once, none
\* of an interface that is down, and none is held for an object that has been deleted.
NothingLeaked ==
  /\ bridge.drv = SetToBag(UNION {Held(o) : o \in DOMAIN bridge.ifs})
  /\ \A o \in DOMAIN bridge.ifs : obj[o] # NoObj

\* A packet from interface i finds its way to client c of o, in family fam.
Reaches(i, o, c, fam) ==
  /\ BagIn(FltRule(i, o, c, fam), bridge.drv)
  /\ \E x \in DOMAIN bridge.drv : x.k = "rt" /\ x.o = o /\ x.mac = c /\ x.t = FltTable(i, o)

\* Routes to WLAN clients use the pipe of the channel mode.
PipesFollowMode(o) ==
  \A c \in DOMAIN bridge.ifs[o].cl :
    \A t \in DOMAIN bridge.ifs[o].cl[c] : bridge.ifs[o].cl[c][t] \in {"none", Pipe(o)}

\* When all events are handled, whoever can be bridged is: from each interface with an
\* address to each client of another, and within one access point, over the pipe of the
\* channel mode.
Offloaded ==
  Quiet => \A o \in DOMAIN bridge.ifs :
    /\ PipesFollowMode(o)
    /\ \A i \in DOMAIN bridge.ifs : \A c \in DOMAIN bridge.ifs[o].cl : \A fam \in bridge.ifs[i].fam :
         IF i = o THEN IsWlan(o) => /\ BagIn(FltRule(o, "intra", c, fam), bridge.drv)
                                    /\ BagIn(RtRule(o, "intra", c), bridge.drv)
         ELSE bridge.ifs[i].inter /\ bridge.ifs[o].inter => Reaches(i, o, c, fam)

\* When all events are handled, IPACM_LanToLan's clients are those of the interface
\* objects.  Except: a client that left while its arrival was cached (ghost), one cached
\* for an object that was deleted and whose place in memory is taken (left), one announced
\* though the object had no room for it (full), and one there was no room for (dropped).
SameClients ==
  Quiet => \A o \in DOMAIN bridge.ifs : \A c \in Macs :
    /\ c \in DOMAIN bridge.ifs[o].cl => Place(o, c) # 0 \/ Is("ghost", c) \/ Is("left", c) \/ Is("full", c)
    /\ Place(o, c) # 0 => c \in DOMAIN bridge.ifs[o].cl \/ Is("dropped", c)

\* When all events are handled, each client whose address the kernel knows, and which is
\* where the kernel saw it, has that address in the object of its interface.  Except:
\* the cache lost the address with the port (forgotten), the client stayed so briefly on
\* an access point that the kernel did not see it move (brief), or a full cache gave its
\* entry to another client (recycled).
AddressKnown ==
  Quiet => \A c \in Macs : \A o \in Own(net.at[c]) :
    /\ Placed(c) /\ net.arp[c] = ArpPort(net.at[c]) /\ net.v4[c] \notin {0, LinkLocal}
    => \/ \E k \in DOMAIN obj[o].cl : obj[o].cl[k].mac = c /\ obj[o].cl[k].v4 = net.v4[c]
       \/ Is("forgotten", c) \/ Is("brief", c) \/ Is("recycled", c)

\* When all events are handled, bridge and interfaces know the same clients,
\* and the addresses the kernel has for them.
ClientsKnown == SameClients /\ AddressKnown
=============================================================================
