--------------------------- MODULE IpacmLanToLan ----------------------------
(* IPACM_LanToLan: traffic between two tethered clients is bridged by the   *)
(* hardware.  A packet that comes in on interface p for a client of         *)
(* interface o meets a filter of p, which sends it to the routing table     *)
(* <<type of p, type of o>> (types of layer 2 header), where the client has *)
(* a route; clients of one access point use the table "intra".             *)
(*   obj     the interface objects, by their address in memory              *)
(*   mode    isMCC_Mode, as "scc" or "mcc"                                  *)
(* The operators take and return                                            *)
(*   l.ifs    m_iface, by interface object                                  *)
(*   l.cache  m_cached_client_add_event                                     *)
(*   l.drv    the bag of rules and contexts in the IPA driver               *)
(* and an interface of l.ifs has                                            *)
(*   fam      m_is_ip_addr_assigned     inter, intra  m_support_*_offload   *)
(*   cnt      ref_cnt_peer_l2_hdr_type  ctx  the hdr_proc_ctx it has added  *)
(*   cl       by client, the pipe of its routes for each type and "intra"   *)
(*   flt      by peer and "intra", the client and family of each filter     *)
EXTENDS Naturals, Sequences, FiniteSets, FiniteSetsExt, SequencesExt, BagsExt, Functions

CONSTANTS
  Kinds,       \* the interfaces: [l2 |-> header type, wlan |-> BOOLEAN]
  L2Types,
  NoObj,       \* no object lives at this address
  MaxIface,    \* MAX_NUM_IFACE
  MaxPeers,    \* MAX_NUM_CLIENT
  MaxCached    \* MAX_NUM_CACHED_CLIENT_ADD_EVENT

VARIABLES obj, mode

Families == {"v4", "v6"}
L2(o) == Kinds[obj[o].i].l2
IsWlan(o) == Kinds[obj[o].i].wlan

(***************************************************************************)
(* IPACM_Lan::eth_bridge_*: the interface object's calls of the driver.     *)
(***************************************************************************)
RtTable(o, p) == IF p = "intra" THEN <<p>> ELSE <<p, L2(o)>>
FltTable(o, p) == IF p = "intra" THEN <<p>> ELSE <<L2(o), L2(p)>>
RtRule(o, p, mac) == [k |-> "rt", o |-> o, t |-> RtTable(o, p), mac |-> mac]
FltRule(o, p, mac, fam) == [k |-> "flt", o |-> o, t |-> p, mac |-> mac, fam |-> fam]
Context(o, p) == [k |-> "ctx", o |-> o, t |-> p]

Install(l, items) == [l EXCEPT !.drv = @ (+) SetToBag(items)]
Uninstall(l, items) == [l EXCEPT !.drv = @ (-) SetToBag(items)]
AddFilteringRuleAfter(l, rule) == Install(l, {rule})
GetRoutingTable(l, t) == \E x \in DOMAIN l.drv : x.k = "rt" /\ x.t = t

Pipe(o) == IF IsWlan(o) THEN mode ELSE "scc"

add_hdr_proc_ctx(l, o, p) ==
  IF p # "intra" /\ l.ifs[o].cnt[p] # 1 THEN l
  ELSE [Install(l, {Context(o, p)}) EXCEPT !.ifs[o].ctx = @ \cup {p}]

del_hdr_proc_ctx(l, o, p) ==
  IF p # "intra" /\ l.ifs[o].cnt[p] # 0 THEN l
  ELSE [Uninstall(l, {Context(o, p)}) EXCEPT !.ifs[o].ctx = @ \ {p}]

\* One rule for each family; p is the type of header of the peer.
add_client_rt_rule(l, o, p, mac) ==
  [Install(l, {RtRule(o, p, mac)}) EXCEPT !.ifs[o].cl[mac][p] = Pipe(o)]

del_client_rt_rule(l, o, p, mac) ==
  IF l.ifs[o].cl[mac][p] = "none" THEN l
  ELSE [Uninstall(l, {RtRule(o, p, mac)}) EXCEPT !.ifs[o].cl[mac][p] = "none"]

add_client_flt_rule(l, o, p, mac, fam) ==
  IF ~GetRoutingTable(l, FltTable(o, p)) THEN l
  ELSE [AddFilteringRuleAfter(l, FltRule(o, p, mac, fam)) EXCEPT !.ifs[o].flt[p] = @ \cup {<<mac, fam>>}]

\* The entry of each client goes; its handles, for the families assigned now.
DropFilters(l, o, p, macs) ==
  LET mine == {x \in l.ifs[o].flt[p] : x[1] \in macs}
      gone == {FltRule(o, p, x[1], x[2]) : x \in {y \in mine : y[2] \in l.ifs[o].fam}}
  IN  [Uninstall(l, gone) EXCEPT !.ifs[o].flt[p] = @ \ mine]

(***************************************************************************)
(* IPACM_LanToLan_Iface.                                                    *)
(***************************************************************************)
Peers(l, o) == DOMAIN l.ifs[o].flt \ {"intra"}
Clients(l, o) == DOMAIN l.ifs[o].cl
Each(Op(_, _), l, S) == FoldLeft(Op, l, SetToSeq(S))

add_all_inter_interface_client_flt_rule(l, o, fam) ==
  LET Peer(m, p) == Each(LAMBDA k, c : add_client_flt_rule(k, o, p, c, fam), m, Clients(m, p))
  IN  Each(Peer, l, Peers(l, o))

add_all_intra_interface_client_flt_rule(l, o, fam) ==
  Each(LAMBDA m, c : add_client_flt_rule(m, o, "intra", c, fam), l, Clients(l, o))

add_one_client_flt_rule(l, o, p, mac) ==
  Each(LAMBDA m, f : add_client_flt_rule(m, o, p, mac, f), l, l.ifs[o].fam)

\* The new interface p becomes a peer of o.
handle_new_iface_up(l, o, p) ==
  add_hdr_proc_ctx([l EXCEPT !.ifs[o].cnt[L2(p)] = @ + 1,
                             !.ifs[o].flt = @ @@ (p :> {})], o, L2(p))

\* The first peer of its type: the clients get their routes for it.
add_client_rt_rule_for_new_iface(l, o, p) ==
  IF l.ifs[o].cnt[L2(p)] # 1 THEN l
  ELSE Each(LAMBDA m, c : add_client_rt_rule(m, o, L2(p), c), l, Clients(l, o))

PeerTypes(l, o) == {L2(p) : p \in Peers(l, o)}

Iface_handle_client_addForgetful(l, o, mac) ==
  IF mac \in Clients(l, o) \/ Cardinality(Clients(l, o)) = MaxPeers THEN l
  ELSE LET known == [l EXCEPT !.ifs[o].cl = @ @@ (mac :> [t \in L2Types \cup {"intra"} |-> "none"])]
       IN Each(LAMBDA m, t : add_client_rt_rule(m, o, t, mac), known, PeerTypes(known, o))

Iface_handle_client_add(l, o, mac) ==
  LET new == [t \in L2Types \cup {"intra"} |-> "none"]
      known == [l EXCEPT !.ifs[o].cl = @ @@ (mac :> new)]
      routed == Each(LAMBDA m, t : add_client_rt_rule(m, o, t, mac), known, PeerTypes(l, o))
      inter == IF ~l.ifs[o].inter THEN known
               ELSE Each(LAMBDA m, p : add_one_client_flt_rule(m, p, o, mac), routed, Peers(l, o))
      intra == add_one_client_flt_rule(add_client_rt_rule(inter, o, "intra", mac), o, "intra", mac)
  IN  IF mac \in Clients(l, o) \/ Cardinality(Clients(l, o)) = MaxPeers THEN l
      ELSE IF l.ifs[o].intra THEN intra ELSE inter

Iface_handle_client_delKeepsFilters(l, o, mac) ==
  IF mac \notin Clients(l, o) THEN l
  ELSE [Each(LAMBDA m, t : del_client_rt_rule(m, o, t, mac), l, PeerTypes(l, o) \cup {"intra"})
          EXCEPT !.ifs[o].cl = Restrict(@, DOMAIN @ \ {mac})]

Iface_handle_client_del(l, o, mac) ==
  LET inter == Each(LAMBDA m, p : DropFilters(m, p, o, {mac}), l, Peers(l, o))
      routes == Each(LAMBDA m, t : del_client_rt_rule(m, o, t, mac), inter, PeerTypes(l, o))
      intra == del_client_rt_rule(DropFilters(routes, o, "intra", {mac}), o, "intra", mac)
      left == IF l.ifs[o].intra THEN intra ELSE routes
  IN  IF mac \notin Clients(l, o) THEN l
      ELSE [left EXCEPT !.ifs[o].cl = Restrict(@, DOMAIN @ \ {mac})]

\* The routes for a type of header go with the last peer of that type.
clear_all_rt_rule_for_one_peer_iface(l, o, p, type) ==
  IF l.ifs[o].cnt[type] # 0 THEN l
  ELSE Each(LAMBDA m, c : del_client_rt_rule(m, o, p, c), l, Clients(l, o))

\* o and its peer p part.
Part(l, o, p) ==
  LET fewer == [l EXCEPT !.ifs[o].cnt[L2(p)] = @ - 1, !.ifs[p].cnt[L2(o)] = @ - 1]
      deaf == DropFilters(DropFilters(fewer, o, p, Clients(l, p)), p, o, Clients(l, o))
      theirs == clear_all_rt_rule_for_one_peer_iface(deaf, p, L2(o), L2(o))
      gone == [theirs EXCEPT !.ifs[p].flt = Restrict(@, DOMAIN @ \ {o})]
      own == clear_all_rt_rule_for_one_peer_iface(del_hdr_proc_ctx(gone, p, L2(o)), o, L2(p), L2(p))
  IN  del_hdr_proc_ctx(own, o, L2(p))

handle_down_event(l, o) ==
  LET inter == Each(LAMBDA m, p : Part(m, o, p), l, Peers(l, o))
      deaf == DropFilters(inter, o, "intra", Clients(l, o))
      intra == del_hdr_proc_ctx(clear_all_rt_rule_for_one_peer_iface(deaf, o, "intra", L2(o)), o, "intra")
  IN  IF l.ifs[o].intra THEN intra ELSE inter

Iface_handle_wlan_scc_mcc_switch(l, o) ==
  LET types == PeerTypes(l, o) \cup {"intra"}
      Moved(r) == [t \in DOMAIN r |-> IF t \in types /\ r[t] # "none" THEN Pipe(o) ELSE r[t]]
  IN  [l EXCEPT !.ifs[o].cl = [c \in DOMAIN @ |-> Moved(@[c])]]

(***************************************************************************)
(* IPACM_LanToLan.                                                          *)
(***************************************************************************)
handle_client_add(l, o, mac) ==
  IF o \in DOMAIN l.ifs THEN Iface_handle_client_add(l, o, mac)
  ELSE IF Len(l.cache) < MaxCached THEN [l EXCEPT !.cache = <<[o |-> o, mac |-> mac]>> \o @]
  ELSE l

\* A client that is still in the cache stays there.
handle_client_del(l, o, mac) ==
  IF o \in DOMAIN l.ifs THEN Iface_handle_client_del(l, o, mac) ELSE l

clear_cached_client_add_event(l, o) ==
  [l EXCEPT !.cache = SelectSeq(@, LAMBDA x : x.o # o)]

handle_cached_client_add_event(l, o) ==
  FoldLeft(LAMBDA m, x : Iface_handle_client_add(m, o, x.mac), clear_cached_client_add_event(l, o),
           SelectSeq(l.cache, LAMBDA x : x.o = o))

NewIface(o, fam) ==
  [fam |-> {fam}, inter |-> ~(IsWlan(o) /\ obj[o].guest), intra |-> IsWlan(o), ctx |-> {},
   cnt |-> [t \in L2Types |-> 0], cl |-> <<>>, flt |-> ("intra" :> {})]

handle_iface_up(l, o, fam) ==
  LET more == [l EXCEPT !.ifs[o].fam = @ \cup {fam}]
      heard == IF l.ifs[o].inter THEN add_all_inter_interface_client_flt_rule(more, o, fam) ELSE more
      new == [l EXCEPT !.ifs = @ @@ (o :> NewIface(o, fam))]
      others == {p \in DOMAIN l.ifs : l.ifs[p].inter}
      Meet(m, p) == add_client_rt_rule_for_new_iface(
                      handle_new_iface_up(handle_new_iface_up(m, p, o), o, p), p, o)
      met == IF ~new.ifs[o].inter THEN new
             ELSE add_all_inter_interface_client_flt_rule(Each(Meet, new, others), o, fam)
      own == IF met.ifs[o].intra THEN add_hdr_proc_ctx(met, o, "intra") ELSE met
  IN  IF o \in DOMAIN l.ifs
      THEN IF fam \in l.ifs[o].fam THEN l
           ELSE IF l.ifs[o].intra THEN add_all_intra_interface_client_flt_rule(heard, o, fam)
           ELSE heard
      ELSE IF Cardinality(DOMAIN l.ifs) = MaxIface THEN l
      ELSE handle_cached_client_add_event(own, o)

handle_iface_down(l, o) ==
  IF o \notin DOMAIN l.ifs THEN clear_cached_client_add_event(l, o)
  ELSE [handle_down_event(l, o) EXCEPT !.ifs = Restrict(@, DOMAIN @ \ {o})]

handle_wlan_scc_mcc_switch(l, o) ==
  IF o \in DOMAIN l.ifs THEN Iface_handle_wlan_scc_mcc_switch(l, o) ELSE l
=============================================================================
