--------------------------- MODULE IpacmNeighbor ----------------------------
(* IPACM_Neighbor: the kernel announces neighbours on the bridge interface, *)
(* without saying behind which of its ports they are.  The cache remembers  *)
(* for each client the port it was last seen on and its IPv4 address, and   *)
(* turns a neighbour event into one for the interface object of that port.  *)
(*   n.tab   neighbor_client: idx is iface_index, num is ipa_if_num, v4 is 0*)
(*           when there is none                                             *)
(*   n.circ  circular_index, counted from 1                                 *)
(*   n.out   the events posted                                              *)
(* An event has ev ("NEW", "DEL"), i, mac, fam, and a (0 for no address).   *)
EXTENDS Naturals, Sequences, SequencesExt

CONSTANTS
  Virtual,        \* ipa_virtual_iface_name
  LinkLocal,      \* an address of 169.254.0.0/16
  MaxNeighbors    \* IPA_MAX_NUM_NEIGHBOR_CLIENTS

Entry(n, mac) == SelectInSeq(n.tab, LAMBDA c : c.mac = mac)

\* IPA_NEIGH_CLIENT_IP_ADDR_ADD_EVENT, IPA_NEIGH_CLIENT_IP_ADDR_DEL_EVENT.
Announce(n, e, i, fam, a) ==
  [n EXCEPT !.out = Append(@, [ev |-> IF e.ev = "DEL" THEN "GONE" ELSE "CLIENT", i |-> i,
                               mac |-> e.mac, fam |-> fam, a |-> a])]

\* A full table: the entry at circular_index is taken over, without address.
\* Nothing brings circular_index back: past the end the table is unchanged.
Insert(n, e, a) ==
  LET new == [mac |-> e.mac, idx |-> e.i, num |-> e.i, v4 |-> a]
  IN  IF Len(n.tab) < MaxNeighbors THEN [n EXCEPT !.tab = Append(@, new)]
      ELSE [n EXCEPT !.circ = @ + 1,
                     !.tab = IF n.circ \in DOMAIN @
                             THEN [@ EXCEPT ![n.circ] = [new EXCEPT !.v4 = 0]] ELSE @]

Forget(n, k) == [n EXCEPT !.tab = RemoveAt(@, k)]

\* IPA_WLAN_CLIENT_ADD_EVENT_EX.
WlanClient(n, e) ==
  LET k == Entry(n, e.mac)
      seen == [n EXCEPT !.tab[k].idx = e.i]
  IN  IF k = 0 \/ e.i = Virtual THEN n
      ELSE IF n.tab[k].num # e.i \/ n.tab[k].v4 = 0 THEN seen
      ELSE Announce(seen, e, e.i, "v4", n.tab[k].v4)

\* An IPv4 neighbour: one of an interface enters the cache or leaves it, one of the bridge is
\* announced for the interface it was seen on.
Neighbour4Unredirected(n, e) ==
  LET k == Entry(n, e.mac) IN
  IF e.a = LinkLocal THEN n
  ELSE Announce(IF k = 0 THEN n ELSE [n EXCEPT !.tab[k].v4 = e.a], e, e.i, "v4", e.a)

NeighbourOf(n, e, k) ==
  Announce(CASE e.ev = "DEL" /\ k = 0 -> n
             [] e.ev = "DEL" /\ k # 0 -> Forget(n, k)
             [] e.ev # "DEL" /\ k = 0 -> Insert(n, e, e.a)
             [] OTHER -> [n EXCEPT !.tab[k] = [mac |-> e.mac, idx |-> e.i, num |-> e.i, v4 |-> e.a]],
           e, e.i, "v4", e.a)

Neighbour4(n, e) ==
  LET k == Entry(n, e.mac)
  IN  IF e.a = LinkLocal THEN n
      ELSE IF e.i # Virtual THEN NeighbourOf(n, e, k)
      ELSE IF k = 0 THEN n
      ELSE Announce([n EXCEPT !.tab[k].v4 = e.a], e, n.tab[k].idx, "v4", e.a)

\* An IPv6 neighbour.
Neighbour6(n, e) ==
  LET k == Entry(n, e.mac) IN
  IF e.i # Virtual THEN Announce(n, e, e.i, "v6", e.a)
  ELSE IF k = 0 THEN n
  ELSE Announce(n, e, n.tab[k].idx, "v6", e.a)

\* Only a MAC address: a client shows up on a port of the bridge, or leaves it.
NeighbourPort(n, e) ==
  LET k == Entry(n, e.mac)
      seen == IF e.i = Virtual THEN n ELSE [n EXCEPT !.tab[k].idx = e.i]
      told == IF e.i = Virtual \/ n.tab[k].v4 = 0 THEN seen
              ELSE Announce(seen, e, e.i, "v4", n.tab[k].v4)
  IN  IF k # 0 THEN IF e.ev = "DEL" THEN Forget(told, k) ELSE told
      ELSE IF e.ev = "NEW" /\ e.i # Virtual THEN Insert(n, e, 0)
      ELSE n

Neighbour(n, e) ==
  IF e.ev = "ASSOC" THEN WlanClient(n, e)
  ELSE IF e.a = 0 THEN IF e.fam = "v4" THEN n ELSE NeighbourPort(n, e)
  ELSE IF e.fam = "v4" THEN Neighbour4(n, e) ELSE Neighbour6(n, e)
=============================================================================
