-------------------------- MODULE IpacmBus_proofs --------------------------
(***************************************************************************)
(* Proofs about IpacmBus and the objects of IpacmInstances, for every set  *)
(* of interfaces, every scene and every number of happenings: the queue    *)
(* and the walk keep the contract of an event bus (ImplementsContract), no *)
(* freed listener is called (NoFreed), and the three lists of objects      *)
(* agree (OneInstance).                                                    *)
(***************************************************************************)
EXTENDS IpacmBus, NaturalsInduction, WellFoundedInduction, TLAPS

-----------------------------------------------------------------------------
(* Queues.                                                                 *)

IsQueue(q) == q \in Seq(ToSet(q))

\* r is q with some events more.
Grown(q, r) == IsQueue(r) /\ IsPrefix(q, r)

\* A prefix, entry by entry.
LEMMA PrefixIs ==
    ASSUME NEW S, NEW q \in Seq(S), NEW r \in Seq(S), Len(q) <= Len(r),
           \A k \in 1 .. Len(q) : q[k] = r[k]
    PROVE  IsPrefix(q, r)
<1> USE DEF IsPrefix
<1>1. SubSeq(q, 1, Len(q)) = [k \in 1 .. Len(q) |-> q[k]]
  OBVIOUS
<1>2. SubSeq(r, 1, Len(q)) = [k \in 1 .. Len(q) |-> r[k]]
  OBVIOUS
<1>3. QED
  BY <1>1, <1>2

LEMMA QueueIn ==
    ASSUME NEW S, NEW q \in Seq(S)
    PROVE  IsQueue(q)
<1>1. q \in [1 .. Len(q) -> ToSet(q)]
  BY DEF ToSet
<1>2. QED
  BY <1>1 DEF IsQueue

LEMMA GrownSame ==
    ASSUME NEW q, IsQueue(q)
    PROVE  Grown(q, q)
BY PrefixIs DEF Grown, IsQueue

LEMMA GrownAppend ==
    ASSUME NEW q, NEW e, IsQueue(q)
    PROVE  Grown(q, Append(q, e))
<1> DEFINE S == ToSet(q) \cup {e}
<1>1. q \in Seq(S)
  BY DEF IsQueue
<1>2. Append(q, e) \in Seq(S) /\ Len(Append(q, e)) = Len(q) + 1
      /\ \A k \in 1 .. Len(q) : Append(q, e)[k] = q[k]
  BY <1>1
<1>3. Len(q) <= Len(Append(q, e))
  BY <1>1, <1>2
<1> HIDE DEF S
<1>4. IsPrefix(q, Append(q, e))
  BY <1>1, <1>2, <1>3, PrefixIs
<1>5. IsQueue(Append(q, e))
  BY <1>2, QueueIn
<1>6. QED
  BY <1>4, <1>5 DEF Grown

LEMMA QueueTail ==
    ASSUME NEW q, IsQueue(q), q # <<>>
    PROVE  IsQueue(Tail(q))
<1>1. Tail(q) \in Seq(ToSet(q))
  BY DEF IsQueue
<1>2. QED
  BY <1>1, QueueIn

-----------------------------------------------------------------------------
(* Registrations and their places.                                         *)

\* Every place below a bound.
Below(list, b) == b \in Nat /\ \A t \in list : t.n \in Nat /\ t.n <= b

\* The places of a list order it.
Placed(list) ==
    /\ \E b \in Nat : Below(list, b)
    /\ \A t, u \in list : t.n = u.n => t = u

LEMMA Smallest ==
    ASSUME NEW T \in SUBSET Nat, T # {}
    PROVE  \E x \in T : \A y \in T : x <= y
<1>1. PICK x \in T : \A y \in T : <<y, x>> \notin OpToRel(<, Nat)
  BY NatLessThanWellFounded, WFMin
<1>2. \A y \in T : ~(y < x)
  BY <1>1, Zenon DEF OpToRel
<1>3. QED
  BY <1>2

\* The last place of a list is that of its end.
LEMMA EndIs ==
    ASSUME NEW list, NEW b \in Nat, Below(list, b)
    PROVE  Below(list, End(list))
<1> DEFINE P == {0} \cup {t.n : t \in list}
           B == {c \in Nat : \A x \in P : x <= c}
<1>1. P \subseteq Nat /\ 0 \in P /\ b \in B
  BY DEF Below
<1>2. PICK c \in B : \A d \in B : c <= d
  <2> HIDE DEF P
  <2>1. B \in SUBSET Nat /\ B # {}
    BY <1>1
  <2> HIDE DEF B
  <2>2. QED
    BY <2>1, Smallest
<1>3. c \in P
  <2>1. SUFFICES ASSUME c \notin P PROVE FALSE
    OBVIOUS
  <2>2. c \in Nat /\ c > 0 /\ \A x \in P : x <= c /\ x # c
    <3> HIDE DEF P
    <3>1. QED
      BY <1>1, <2>1
  <2>3. c - 1 \in B
    <3> HIDE DEF P
    <3>1. QED
      BY <1>1, <2>2
  <2>4. QED
    BY <1>2, <2>2, <2>3
<1>4. \E x \in P : \A y \in P : x >= y
  <2> HIDE DEF P
  <2>1. QED
    BY <1>1, <1>3
<1>5. Max(P) \in P /\ \A y \in P : Max(P) >= y
  <2> HIDE DEF P
  <2>1. QED
    BY <1>4, Zenon DEF Max
<1>6. End(list) = Max(P)
  BY DEF End
<1>7. \A t \in list : t.n \in P
  OBVIOUS
<1> HIDE DEF P
<1>8. QED
  BY <1>1, <1>5, <1>6, <1>7 DEF Below

\* The first of some registrations.
LEMMA FirstIs ==
    ASSUME NEW list, NEW b \in Nat, Below(list, b), list # {}
    PROVE  First(list) \in list /\ \A u \in list : First(list).n <= u.n
<1> DEFINE P == {t.n : t \in list}
<1>1. P \in SUBSET Nat /\ P # {}
  BY DEF Below
<1>2. PICK x \in P : \A y \in P : x <= y
  <2> HIDE DEF P
  <2>1. QED
    BY <1>1, Smallest
<1>3. PICK t \in list : t.n = x
  OBVIOUS
<1>4. \A u \in list : t.n <= u.n
  BY <1>2, <1>3
<1>5. QED
  BY <1>3, <1>4, Zenon DEF First

\* New registrations come behind those there are.
LEMMA EntriesBehind ==
    ASSUME NEW list, Placed(list), NEW evs, NEW S, evs \in Seq(S), NEW kind, NEW id
    PROVE  LET more == EntriesOf(evs, kind, id, End(list))
           IN /\ Placed(list \cup more)
              /\ \A t \in list, u \in more : t.n < u.n
<1> DEFINE more == EntriesOf(evs, kind, id, End(list))
<1>1. PICK b \in Nat : Below(list, b)
  BY DEF Placed
<1>2. Below(list, End(list))
  BY <1>1, EndIs
<1>3. \A u \in more : \E k \in 1 .. Len(evs) :
        u = [n |-> End(list) + k, ev |-> evs[k], obj |-> id, kind |-> kind]
  BY DEF EntriesOf
<1>4. Len(evs) \in Nat /\ End(list) \in Nat
  BY <1>2 DEF Below
<1> HIDE DEF more
<1>5. \A u \in more : u.n \in Nat /\ u.n > End(list) /\ u.n <= End(list) + Len(evs)
  BY <1>3, <1>4
<1>6. \A t \in list, u \in more : t.n < u.n
  BY <1>2, <1>4, <1>5 DEF Below
<1>7. Below(list \cup more, End(list) + Len(evs))
  BY <1>2, <1>4, <1>5 DEF Below
<1>8. \A t, u \in more : t.n = u.n => t = u
  <2>1. SUFFICES ASSUME NEW t \in more, NEW u \in more, t.n = u.n
                 PROVE  t = u
    OBVIOUS
  <2>2. PICK k \in 1 .. Len(evs) :
          t = [n |-> End(list) + k, ev |-> evs[k], obj |-> id, kind |-> kind]
    BY <1>3
  <2>3. PICK l \in 1 .. Len(evs) :
          u = [n |-> End(list) + l, ev |-> evs[l], obj |-> id, kind |-> kind]
    BY <1>3
  <2>4. k = l
    BY <1>4, <2>1, <2>2, <2>3
  <2>5. QED
    BY <2>2, <2>3, <2>4
<1>9. \A t, u \in list \cup more : t.n = u.n => t = u
  <2>1. \A t, u \in list : t.n = u.n => t = u
    BY DEF Placed
  <2>2. QED
    BY <1>2, <1>5, <1>6, <1>8, <2>1 DEF Below
<1>10. QED
  BY <1>4, <1>6, <1>7, <1>9 DEF Placed, more

-----------------------------------------------------------------------------
(* What the objects are registered for.                                    *)

\* The links of which the manager makes objects, and all that objects listen to.
Links == {"LINK_UP", "WLAN_AP_LINK_UP", "WLAN_STA_LINK_UP", "USB_LINK_UP", "WAN_EMBMS_LINK_UP"}
Common == {"ADDR_ADD", "NEIGH_ADD", "NEIGH_DEL", "SW_ROUTING_ENABLE", "SW_ROUTING_DISABLE",
           "HANDLE_WAN_UP", "HANDLE_WAN_UP_V6", "HANDLE_WAN_DOWN", "HANDLE_WAN_DOWN_V6",
           "CFG_CHANGE", "PRIVATE_SUBNET_CHANGE", "CRADLE_WAN_MODE_SWITCH", "ROUTE_ADD",
           "ROUTE_DEL", "DEFAULT_ADD", "DEFAULT_DEL", "WLAN_CLIENT", "FIREWALL_CHANGE",
           "WAN_XLAT_CONNECT", "WLAN_SWITCH_TO_SCC", "WLAN_SWITCH_TO_MCC"}
Downs == {"LINK_DOWN", "WLAN_LINK_DOWN", "LAN_DELETE_SELF"}
Heard == Common \cup Downs

Tethers == {"lan", "eth", "odu", "wlan"}
Uplinks == {"q6", "ecm", "sta"}
ObjectKinds == Tethers \cup Uplinks \cup {"embms"}

\* The event at which an object deletes itself, with all the others heard before it.
Final(kind) == IF kind \in Tethers THEN "LAN_DELETE_SELF" ELSE "LINK_DOWN"

OnlyLast(s, e) == \A k \in 1 .. Len(s) : s[k] = e => k = Len(s)

LEMMA LastOf ==
    ASSUME NEW S, NEW T, NEW e, e \notin S, NEW s \in Seq(S), NEW t \in Seq(T), OnlyLast(t, e)
    PROVE  s \o t \in Seq(S \cup T) /\ OnlyLast(s \o t, e) /\ Len(s \o t) >= Len(t)
<1>1. s \in Seq(S \cup T) /\ t \in Seq(S \cup T) /\ Len(s) \in Nat /\ Len(t) \in Nat
  OBVIOUS
<1>2. s \o t \in Seq(S \cup T) /\ Len(s \o t) = Len(s) + Len(t)
  BY <1>1
<1>3. \A k \in 1 .. Len(s) + Len(t) :
        (s \o t)[k] = IF k <= Len(s) THEN s[k] ELSE t[k - Len(s)]
  BY <1>1
<1>4. SUFFICES ASSUME NEW k \in 1 .. Len(s \o t), (s \o t)[k] = e
               PROVE  k = Len(s \o t)
  BY <1>1, <1>2 DEF OnlyLast
<1>5. k > Len(s)
  BY <1>2, <1>3, <1>4
<1>6. k - Len(s) \in 1 .. Len(t) /\ t[k - Len(s)] = e
  BY <1>1, <1>2, <1>3, <1>4, <1>5
<1>7. QED
  BY <1>1, <1>2, <1>6 DEF OnlyLast

LEMMA Shared ==
    Routing \in Seq(Common) /\ Wan4And6 \in Seq(Common)
BY DEF Routing, Wan4And6, Common

LEMMA LanHears ==
    LanEvents \in Seq(Heard) /\ Len(LanEvents) > 0 /\ OnlyLast(LanEvents, "LAN_DELETE_SELF")
<1> DEFINE a == <<"ADDR_ADD", "NEIGH_ADD", "NEIGH_DEL">>
           z == <<"CFG_CHANGE", "PRIVATE_SUBNET_CHANGE", "CRADLE_WAN_MODE_SWITCH", "LINK_DOWN",
                  "LAN_DELETE_SELF">>
<1>1. a \in Seq(Common)
  BY DEF Common
<1>2. a \o Routing \o Wan4And6 \in Seq(Common)
  BY <1>1, Shared
<1>3. z \in Seq(Heard) /\ OnlyLast(z, "LAN_DELETE_SELF") /\ Len(z) = 5
  BY DEF OnlyLast, Heard, Common, Downs
<1>4. "LAN_DELETE_SELF" \notin Common /\ Common \cup Heard = Heard
  BY DEF Common, Heard
<1>5. LanEvents = (a \o Routing \o Wan4And6) \o z
  BY DEF LanEvents
<1> HIDE DEF a, z
<1>6. LanEvents \in Seq(Heard) /\ OnlyLast(LanEvents, "LAN_DELETE_SELF")
      /\ Len(LanEvents) >= Len(z)
  BY <1>2, <1>3, <1>4, <1>5, LastOf
<1>7. QED
  BY <1>3, <1>6

LEMMA OduHears ==
    OduEvents \in Seq(Heard) /\ Len(OduEvents) > 0 /\ OnlyLast(OduEvents, "LAN_DELETE_SELF")
<1>1. "LAN_DELETE_SELF" \notin Common /\ Common \cup Heard = Heard
  BY DEF Common, Heard
<1>2. CASE OduRouter
  <2> DEFINE a == <<"ADDR_ADD", "NEIGH_ADD", "NEIGH_DEL">>
             z == <<"CRADLE_WAN_MODE_SWITCH", "LINK_DOWN", "LAN_DELETE_SELF">>
  <2>1. a \in Seq(Common)
    BY DEF Common
  <2>2. a \o Routing \o Wan4And6 \in Seq(Common)
    BY <2>1, Shared
  <2>3. z \in Seq(Heard) /\ OnlyLast(z, "LAN_DELETE_SELF") /\ Len(z) = 3
    BY DEF OnlyLast, Heard, Common, Downs
  <2>4. OduEvents = (a \o Routing \o Wan4And6) \o z
    BY <1>2 DEF OduEvents
  <2> HIDE DEF a, z
  <2>5. OduEvents \in Seq(Heard) /\ OnlyLast(OduEvents, "LAN_DELETE_SELF")
        /\ Len(OduEvents) >= Len(z)
    BY <1>1, <2>2, <2>3, <2>4, LastOf
  <2>6. QED
    BY <2>3, <2>5
<1>3. CASE ~OduRouter
  <2> DEFINE a == <<"ADDR_ADD", "NEIGH_ADD">>
             z == <<"LINK_DOWN", "LAN_DELETE_SELF">>
  <2>1. a \in Seq(Common)
    BY DEF Common
  <2>2. a \o Routing \in Seq(Common)
    BY <2>1, Shared
  <2>3. z \in Seq(Heard) /\ OnlyLast(z, "LAN_DELETE_SELF") /\ Len(z) = 2
    BY DEF OnlyLast, Heard, Common, Downs
  <2>4. OduEvents = (a \o Routing) \o z
    BY <1>3 DEF OduEvents
  <2> HIDE DEF a, z
  <2>5. OduEvents \in Seq(Heard) /\ OnlyLast(OduEvents, "LAN_DELETE_SELF")
        /\ Len(OduEvents) >= Len(z)
    BY <1>1, <2>2, <2>3, <2>4, LastOf
  <2>6. QED
    BY <2>3, <2>5
<1>4. QED
  BY <1>2, <1>3

LEMMA EthHears ==
    EthEvents \in Seq(Heard) /\ Len(EthEvents) > 0 /\ OnlyLast(EthEvents, "LAN_DELETE_SELF")
<1> DEFINE a == <<"ADDR_ADD", "NEIGH_ADD">>
           z == <<"CRADLE_WAN_MODE_SWITCH", "LINK_DOWN", "LAN_DELETE_SELF">>
<1>1. a \in Seq(Common)
  BY DEF Common
<1>2. a \o Routing \o Wan4And6 \in Seq(Common)
  BY <1>1, Shared
<1>3. z \in Seq(Heard) /\ OnlyLast(z, "LAN_DELETE_SELF") /\ Len(z) = 3
  BY DEF OnlyLast, Heard, Common, Downs
<1>4. "LAN_DELETE_SELF" \notin Common /\ Common \cup Heard = Heard
  BY DEF Common, Heard
<1>5. EthEvents = (a \o Routing \o Wan4And6) \o z
  BY DEF EthEvents
<1> HIDE DEF a, z
<1>6. EthEvents \in Seq(Heard) /\ OnlyLast(EthEvents, "LAN_DELETE_SELF")
      /\ Len(EthEvents) >= Len(z)
  BY <1>2, <1>3, <1>4, <1>5, LastOf
<1>7. QED
  BY <1>3, <1>6

LEMMA WlanHears ==
    WlanEventList \in Seq(Heard) /\ Len(WlanEventList) > 0
    /\ OnlyLast(WlanEventList, "LAN_DELETE_SELF")
<1> DEFINE a == <<"ADDR_ADD", "ROUTE_DEL", "DEFAULT_DEL", "WLAN_CLIENT", "NEIGH_ADD">>
           z == <<"PRIVATE_SUBNET_CHANGE", "CFG_CHANGE", "CRADLE_WAN_MODE_SWITCH",
                  "WLAN_LINK_DOWN", "WLAN_SWITCH_TO_SCC", "WLAN_SWITCH_TO_MCC",
                  "LAN_DELETE_SELF">>
<1>1. a \in Seq(Common)
  BY DEF Common
<1>2. a \o Routing \o Wan4And6 \in Seq(Common)
  BY <1>1, Shared
<1>3. z \in Seq(Heard) /\ OnlyLast(z, "LAN_DELETE_SELF") /\ Len(z) = 7
  BY DEF OnlyLast, Heard, Common, Downs
<1>4. "LAN_DELETE_SELF" \notin Common /\ Common \cup Heard = Heard
  BY DEF Common, Heard
<1>5. WlanEventList = (a \o Routing \o Wan4And6) \o z
  BY DEF WlanEventList
<1> HIDE DEF a, z
<1>6. WlanEventList \in Seq(Heard) /\ OnlyLast(WlanEventList, "LAN_DELETE_SELF")
      /\ Len(WlanEventList) >= Len(z)
  BY <1>2, <1>3, <1>4, <1>5, LastOf
<1>7. QED
  BY <1>3, <1>6

\* An uplink hears of one kind of link only.
LEMMA UplinkHears ==
    ASSUME NEW kind \in Uplinks
    PROVE  /\ UplinkEvents(kind) \in Seq(Heard) /\ Len(UplinkEvents(kind)) > 0
           /\ OnlyLast(UplinkEvents(kind), "LINK_DOWN")
           /\ kind # "sta" => \A k \in 1 .. Len(UplinkEvents(kind)) :
                                 UplinkEvents(kind)[k] # "WLAN_LINK_DOWN"
<1> DEFINE a == <<"ADDR_ADD", "ROUTE_ADD", "ROUTE_DEL", "DEFAULT_ADD", "DEFAULT_DEL",
                  "FIREWALL_CHANGE", "NEIGH_ADD">>
           b == <<"CFG_CHANGE", "WAN_XLAT_CONNECT">>
           S == Common \cup {"LINK_DOWN"}
           W == Common \cup {"WLAN_LINK_DOWN"}
           y == <<"WLAN_LINK_DOWN", "WLAN_SWITCH_TO_SCC", "WLAN_SWITCH_TO_MCC">>
           z == <<"LINK_DOWN">>
           c == a \o Routing \o b
<1>1. a \in Seq(Common) /\ b \in Seq(Common)
  BY DEF Common
<1>2. c \in Seq(Common)
  <2> HIDE DEF a, b
  <2>1. QED
    BY <1>1, Shared
<1>3. "LINK_DOWN" \notin Common /\ "WLAN_LINK_DOWN" \notin Common
      /\ "LINK_DOWN" \notin W /\ "WLAN_LINK_DOWN" \notin S
  BY DEF Common
<1>4. S \subseteq Heard /\ W \subseteq Heard /\ Common \cup S = S /\ Common \cup W = W
  BY DEF Heard, Common, Downs
<1>5. z \in Seq(S) /\ OnlyLast(z, "LINK_DOWN") /\ Len(z) = 1
  BY DEF OnlyLast
<1>6. y \in Seq(W) /\ Len(y) = 3
  BY DEF Common
<1>7. UplinkEvents(kind) = c \o (IF kind = "sta" THEN y ELSE z)
  BY DEF UplinkEvents
<1> HIDE DEF a, b, c, S, W, y, z
<1>8. CASE kind = "sta"
  <2>1. c \o y \in Seq(W) /\ Len(c \o y) > 0
    BY <1>2, <1>4, <1>6
  <2>2. \A k \in 1 .. Len(c \o y) : (c \o y)[k] # "LINK_DOWN"
    BY <1>3, <2>1
  <2>3. c \o y \in Seq(Heard)
    BY <1>4, <2>1
  <2>4. QED
    BY <1>7, <1>8, <2>1, <2>2, <2>3 DEF OnlyLast
<1>9. CASE kind # "sta"
  <2>1. c \o z \in Seq(S) /\ OnlyLast(c \o z, "LINK_DOWN")
    BY <1>2, <1>3, <1>4, <1>5, LastOf
  <2>2. Len(c \o z) > 0
    BY <1>2, <1>5
  <2>3. \A k \in 1 .. Len(c \o z) : (c \o z)[k] # "WLAN_LINK_DOWN"
    BY <1>3, <2>1
  <2>4. c \o z \in Seq(Heard)
    BY <1>4, <2>1
  <2>5. QED
    BY <1>7, <1>9, <2>1, <2>2, <2>3, <2>4
<1>10. QED
  BY <1>8, <1>9

\* What an object of any kind is registered for: the event at which it deletes itself
\* last, and never a link that makes objects.
LEMMA Hears ==
    ASSUME NEW kind \in ObjectKinds
    PROVE  /\ Subscriptions(kind) \in Seq(Heard) /\ Len(Subscriptions(kind)) > 0
           /\ OnlyLast(Subscriptions(kind), Final(kind))
           /\ kind \in {"q6", "ecm", "embms"} =>
                \A k \in 1 .. Len(Subscriptions(kind)) : Subscriptions(kind)[k] # "WLAN_LINK_DOWN"
<1>1. CASE kind = "lan"
  BY <1>1, LanHears DEF Subscriptions, Final, Tethers
<1>2. CASE kind = "odu"
  BY <1>2, OduHears DEF Subscriptions, Final, Tethers
<1>7. CASE kind = "eth"
  BY <1>7, EthHears DEF Subscriptions, Final, Tethers
<1>3. CASE kind = "wlan"
  BY <1>3, WlanHears DEF Subscriptions, Final, Tethers
<1>4. CASE kind = "embms"
  <2>1. Subscriptions(kind) = <<"LINK_DOWN">>
    BY <1>4 DEF Subscriptions
  <2>2. Subscriptions(kind) \in Seq(Heard) /\ Len(Subscriptions(kind)) = 1
        /\ \A k \in 1 .. 1 : Subscriptions(kind)[k] = "LINK_DOWN"
    BY <2>1 DEF Heard, Downs
  <2>3. OnlyLast(Subscriptions(kind), Final(kind))
    BY <2>2 DEF OnlyLast
  <2>4. QED
    BY <2>2, <2>3
<1>5. CASE kind \in Uplinks
  <2>1. Subscriptions(kind) = UplinkEvents(kind) /\ Final(kind) = "LINK_DOWN"
        /\ kind # "embms"
    BY <1>5 DEF Subscriptions, Uplinks, Final, Tethers
  <2>2. QED
    BY <1>5, <2>1, UplinkHears
<1>6. QED
  BY <1>1, <1>2, <1>3, <1>4, <1>5, <1>7 DEF ObjectKinds, Tethers

LEMMA Unheard == Links \cap Heard = {}
BY DEF Links, Heard, Common, Downs

-----------------------------------------------------------------------------
(* The handlers.                                                           *)

Fields == {"cat", "known", "objs", "table", "insts", "ap", "made", "stray", "int", "ext",
           "net", "file"}

Heap(objs) == \A id \in DOMAIN objs : "kind" \in DOMAIN objs[id] /\ objs[id].kind \in ObjectKinds

IsState(w) == Fields \subseteq DOMAIN w /\ Heap(w.objs) /\ IsQueue(w.int) /\ IsQueue(w.ext)

\* The same objects, of the same kinds.
SameObjects(w, v) ==
    /\ Heap(v.objs) /\ DOMAIN v.objs = DOMAIN w.objs
    /\ \A id \in DOMAIN w.objs : v.objs[id].kind = w.objs[id].kind

Same(w, v) ==
    /\ Fields \subseteq DOMAIN v /\ SameObjects(w, v)
    /\ v.table = w.table /\ v.insts = w.insts /\ v.made = w.made /\ v.stray = w.stray

\* A handler that neither registers nor removes anything, without posts and with.
Quiet(w, v) == Same(w, v) /\ v.int = w.int /\ v.ext = w.ext
Posts(w, v) == Grown(w.int, v.int) /\ Grown(w.ext, v.ext)
Like(w, v) == Same(w, v) /\ Posts(w, v)

LEMMA QuietTwice ==
    ASSUME NEW w, NEW u, NEW v, Quiet(w, u), Quiet(u, v)
    PROVE  Quiet(w, v)
BY DEF Quiet, Same, SameObjects

LEMMA QuietState ==
    ASSUME NEW w, NEW v, IsState(w), Quiet(w, v)
    PROVE  IsState(v) /\ Like(w, v)
BY GrownSame DEF Quiet, Same, SameObjects, Like, Posts, IsState

LEMMA QuietRefl ==
    ASSUME NEW w, IsState(w)
    PROVE  Quiet(w, w)
BY DEF Quiet, Same, SameObjects, IsState

LEMMA QuietFields ==
    ASSUME NEW w, IsState(w), NEW x
    PROVE  /\ Quiet(w, [w EXCEPT !.cat = x])
           /\ Quiet(w, [w EXCEPT !.known = x])
           /\ Quiet(w, [w EXCEPT !.ap = x])
BY DEF IsState, Quiet, Same, SameObjects, Fields

LEMMA QuietQuery ==
    ASSUME NEW w, IsState(w), NEW e
    PROVE  Quiet(w, Query(w, e))
BY QuietRefl DEF IsState, Quiet, Same, SameObjects, Fields, Query

LEMMA PostsOne ==
    ASSUME NEW w, IsState(w), NEW u, Quiet(w, u), NEW e
    PROVE  Like(w, PostEvt(u, e))
<1>1. IsQueue(u.int) /\ IsQueue(u.ext) /\ u.int = w.int /\ u.ext = w.ext
  BY DEF IsState, Quiet
<1>2. Grown(u.int, Append(u.int, e)) /\ Grown(u.ext, Append(u.ext, e))
      /\ Grown(u.int, u.int) /\ Grown(u.ext, u.ext)
  BY <1>1, GrownAppend, GrownSame
<1>3. CASE e.ev \in Internal
  <2>1. PostEvt(u, e) = [u EXCEPT !.int = Append(u.int, e)]
    BY <1>3 DEF PostEvt
  <2>2. Same(w, PostEvt(u, e))
    BY <2>1 DEF Quiet, Same, SameObjects, Fields
  <2>3. PostEvt(u, e).int = Append(u.int, e) /\ PostEvt(u, e).ext = u.ext
    BY <2>1 DEF Quiet, Same, Fields
  <2>4. QED
    BY <1>1, <1>2, <2>2, <2>3 DEF Like, Posts
<1>4. CASE e.ev \notin Internal
  <2>1. PostEvt(u, e) = [u EXCEPT !.ext = Append(u.ext, e)]
    BY <1>4 DEF PostEvt
  <2>2. Same(w, PostEvt(u, e))
    BY <2>1 DEF Quiet, Same, SameObjects, Fields
  <2>3. PostEvt(u, e).ext = Append(u.ext, e) /\ PostEvt(u, e).int = u.int
    BY <2>1 DEF Quiet, Same, Fields
  <2>4. QED
    BY <1>1, <1>2, <2>2, <2>3 DEF Like, Posts
<1>5. QED
  BY <1>3, <1>4

\* A handler of the manager that makes an object, one that gives up among them.
Makes(w, v, e) ==
    \E kind \in ObjectKinds :
      /\ e.ev \in Links
      /\ Fields \subseteq DOMAIN v /\ Heap(v.objs) /\ Posts(w, v)
      /\ v.table = w.table \cup Entries(kind, w.made + 1, End(w.table))
      /\ v.made = w.made + 1
      /\ \E i : /\ v.insts = w.insts \cup {[i |-> i, obj |-> w.made + 1]}
                /\ \A r \in w.insts : r.i # i
      /\ \/ SameObjects(w, v) /\ \E x \in v.stray : x.what = "object"
         \/ /\ v.stray = w.stray
            /\ DOMAIN v.objs = DOMAIN w.objs \cup {w.made + 1}
            /\ v.objs[w.made + 1].kind = kind
            /\ \A id \in DOMAIN w.objs \ {w.made + 1} : v.objs[id].kind = w.objs[id].kind

\* A handler that deletes its object, and when it may.
MayQuit(kind, ev) ==
    \/ ev = Final(kind)
    \/ ev = "WLAN_LINK_DOWN" /\ kind \notin Tethers
    \/ ev = "CFG_CHANGE" /\ kind = "ecm"
Quits(w, v, id, e) ==
    MayQuit(w.objs[id].kind, e.ev) /\ \E u : Like(w, u) /\ v = Delete(u, id)

LEMMA MakeMakes ==
    ASSUME NEW w, IsState(w), NEW kind \in ObjectKinds, NEW e, e.ev \in Links,
           ~SearchInstance(w, e.i)
    PROVE  Makes(w, Make(w, kind, e), e)
<1> DEFINE id == w.made + 1
           o == [kind |-> kind, i |-> e.i, cate |-> w.cat[e.i], act |-> TRUE,
                 switch |-> FALSE, addr |-> FALSE, def |-> FALSE, xlat |-> FALSE]
           u == [w EXCEPT !.made = id,
                          !.ap = IF kind = "wlan" /\ ~GivesUp(w, kind) THEN @ + 1 ELSE @,
                          !.objs = IF GivesUp(w, kind) THEN @ ELSE Plus(@, id, o),
                          !.stray = IF GivesUp(w, kind) THEN @ \cup {Stray("object", kind, e)}
                                    ELSE @]
           r == Registr(u, kind, e.i, id)
           more == Entries(kind, id, End(w.table))
           v == Make(w, kind, e)
<1>1. v = IF kind # "embms" /\ w.net[e.i].addr /\ w.net[e.i].up
          THEN PostEvt(r, [e EXCEPT !.ev = "ADDR_ADD"]) ELSE r
  BY DEF Make
<1>2. /\ DOMAIN u = DOMAIN w /\ u.table = w.table /\ u.insts = w.insts /\ u.made = id
      /\ u.int = w.int /\ u.ext = w.ext
      /\ u.objs = (IF GivesUp(w, kind) THEN w.objs ELSE Plus(w.objs, id, o))
      /\ u.stray = (IF GivesUp(w, kind) THEN w.stray \cup {Stray("object", kind, e)} ELSE w.stray)
  BY DEF IsState, Fields
<1> HIDE DEF u
<1>3. /\ DOMAIN r = DOMAIN w /\ r.table = w.table \cup more
      /\ r.insts = w.insts \cup {[i |-> e.i, obj |-> id]} /\ r.made = id
      /\ r.int = w.int /\ r.ext = w.ext /\ r.objs = u.objs /\ r.stray = u.stray
  BY <1>2 DEF IsState, Fields, Registr
<1>4. Heap(u.objs)
  <2>1. o.kind = kind /\ "kind" \in DOMAIN o
    OBVIOUS
  <2> HIDE DEF o
  <2>2. QED
    BY <1>2, <2>1 DEF IsState, Heap, Plus
<1>5. ~GivesUp(w, kind) =>
        /\ DOMAIN u.objs = DOMAIN w.objs \cup {id} /\ u.objs[id].kind = kind
        /\ \A x \in DOMAIN w.objs \ {id} : u.objs[x].kind = w.objs[x].kind
  BY <1>2 DEF Plus
<1>6. GivesUp(w, kind) => u.objs = w.objs /\ \E x \in u.stray : x.what = "object"
  <2>1. Stray("object", kind, e).what = "object"
    BY DEF Stray
  <2>2. GivesUp(w, kind) => u.objs = w.objs /\ Stray("object", kind, e) \in u.stray
    BY <1>2
  <2>3. QED
    BY <2>1, <2>2
<1>7. /\ Fields \subseteq DOMAIN v /\ Posts(w, v) /\ v.table = r.table /\ v.insts = r.insts
      /\ v.made = r.made /\ v.objs = r.objs /\ v.stray = r.stray
  <2> HIDE DEF r, v
  <2>1. Grown(w.int, w.int) /\ Grown(w.ext, w.ext)
    BY GrownSame DEF IsState
  <2>2. CASE v = r
    BY <1>3, <2>1, <2>2 DEF IsState, Posts
  <2>3. CASE v = PostEvt(r, [e EXCEPT !.ev = "ADDR_ADD"])
    <3> DEFINE a == [e EXCEPT !.ev = "ADDR_ADD"]
    <3>1. Grown(w.int, Append(w.int, a)) /\ Grown(w.ext, Append(w.ext, a))
      BY GrownAppend DEF IsState
    <3>2. v = [r EXCEPT !.int = Append(r.int, a)] \/ v = [r EXCEPT !.ext = Append(r.ext, a)]
      BY <2>3 DEF PostEvt
    <3> HIDE DEF a
    <3>3. QED
      BY <1>3, <2>1, <3>1, <3>2 DEF IsState, Fields, Posts
  <2>4. QED
    BY <1>1, <2>2, <2>3
<1>8. \A x \in w.insts : x.i # e.i
  BY DEF SearchInstance
<1> HIDE DEF r, v, more, o
<1>9. QED
  <2>1. v.table = w.table \cup Entries(kind, w.made + 1, End(w.table))
    BY <1>3, <1>7 DEF more
  <2>2. v.insts = w.insts \cup {[i |-> e.i, obj |-> w.made + 1]} /\ \A x \in w.insts : x.i # e.i
    BY <1>3, <1>7, <1>8
  <2>3. \/ SameObjects(w, v) /\ \E x \in v.stray : x.what = "object"
        \/ /\ v.stray = w.stray
           /\ DOMAIN v.objs = DOMAIN w.objs \cup {w.made + 1}
           /\ v.objs[w.made + 1].kind = kind
           /\ \A x \in DOMAIN w.objs \ {w.made + 1} : v.objs[x].kind = w.objs[x].kind
    BY <1>2, <1>3, <1>4, <1>5, <1>6, <1>7 DEF SameObjects
  <2>4. QED
    BY <1>3, <1>4, <1>7, <2>1, <2>2, <2>3, Zenon DEF Makes, v

LEMMA CreateMakes ==
    ASSUME NEW w, IsState(w), NEW type \in Uplinks, NEW e, e.ev \in Links
    PROVE  CreateIfaceInstance(w, e, type) = w \/ Makes(w, CreateIfaceInstance(w, e, type), e)
<1>1. CASE SearchInstance(w, e.i)
  BY <1>1 DEF CreateIfaceInstance
<1>2. CASE ~SearchInstance(w, e.i)
  <2>1. \A kind \in ObjectKinds : Makes(w, Make(w, kind, e), e)
    BY <1>2, MakeMakes
  <2>2. {"lan", "eth", "odu", "wlan", "embms", type} \subseteq ObjectKinds
    BY DEF ObjectKinds, Tethers
  <2>3. CreateIfaceInstance(w, e, type) \in
          {w} \cup {Make(w, kind, e) : kind \in {"lan", "eth", "odu", "wlan", "embms", type}}
    BY <1>2 DEF CreateIfaceInstance
  <2>4. QED
    BY <2>1, <2>2, <2>3
<1>3. QED
  BY <1>1, <1>2

\* A quiet step before it makes no difference.
LEMMA MakesAfter ==
    ASSUME NEW w, NEW u, NEW v, NEW e, Quiet(w, u), Makes(u, v, e)
    PROVE  Makes(w, v, e)
<1>1. PICK kind \in ObjectKinds :
      /\ e.ev \in Links
      /\ Fields \subseteq DOMAIN v /\ Heap(v.objs) /\ Posts(u, v)
      /\ v.table = u.table \cup Entries(kind, u.made + 1, End(u.table))
      /\ v.made = u.made + 1
      /\ \E i : /\ v.insts = u.insts \cup {[i |-> i, obj |-> u.made + 1]}
                /\ \A r \in u.insts : r.i # i
      /\ \/ SameObjects(u, v) /\ \E x \in v.stray : x.what = "object"
         \/ /\ v.stray = u.stray
            /\ DOMAIN v.objs = DOMAIN u.objs \cup {u.made + 1}
            /\ v.objs[u.made + 1].kind = kind
            /\ \A id \in DOMAIN u.objs \ {u.made + 1} : v.objs[id].kind = u.objs[id].kind
  BY Zenon DEF Makes
<1>2. /\ w.table = u.table /\ w.insts = u.insts /\ w.made = u.made /\ w.stray = u.stray
      /\ w.int = u.int /\ w.ext = u.ext /\ SameObjects(w, u)
  BY DEF Quiet, Same
<1>3. \/ SameObjects(w, v) /\ \E x \in v.stray : x.what = "object"
      \/ /\ v.stray = w.stray
         /\ DOMAIN v.objs = DOMAIN w.objs \cup {w.made + 1}
         /\ v.objs[w.made + 1].kind = kind
         /\ \A id \in DOMAIN w.objs \ {w.made + 1} : v.objs[id].kind = w.objs[id].kind
  BY <1>1, <1>2 DEF SameObjects
<1>4. /\ e.ev \in Links
      /\ Fields \subseteq DOMAIN v /\ Heap(v.objs) /\ Posts(w, v)
      /\ v.table = w.table \cup Entries(kind, w.made + 1, End(w.table))
      /\ v.made = w.made + 1
      /\ \E i : /\ v.insts = w.insts \cup {[i |-> i, obj |-> w.made + 1]}
                /\ \A r \in w.insts : r.i # i
  BY <1>1, <1>2 DEF Posts
<1>5. QED
  BY <1>3, <1>4, Zenon DEF Makes

LEMMA ManagerWorks ==
    ASSUME NEW w, IsState(w), NEW e
    PROVE  Like(w, ManagerCallback(w, e)) \/ Makes(w, ManagerCallback(w, e), e)
<1> DEFINE v == Query(w, e)
           r == ManagerCallback(w, e)
           To(cat) == [v EXCEPT !.cat[e.i] = cat]
<1>1. Quiet(w, v)
  BY QuietQuery
<1>2. IsState(v)
  BY <1>1, QuietState
<1>3. \A cat : Quiet(v, To(cat))
  BY <1>2 DEF IsState, Quiet, Same, SameObjects, Fields
<1>4. \A cat : Quiet(w, To(cat)) /\ IsState(To(cat))
  BY <1>1, <1>2, <1>3, QuietTwice, QuietState
<1>5. Quiet(w, [w EXCEPT !.cat = w.file, !.known = [i \in DOMAIN w.known |-> 0]])
  BY DEF IsState, Quiet, Same, SameObjects, Fields
<1>6. \/ r \in {v, [w EXCEPT !.cat = w.file, !.known = [i \in DOMAIN w.known |-> 0]]}
      \/ /\ e.ev \in Links
         /\ \E u \in {v, To("wlan"), To("wan"), To("embms")}, type \in Uplinks :
               r = CreateIfaceInstance(u, e, type)
  <2> HIDE DEF v, To
  <2>1. QED
    BY SMTT(30) DEF ManagerCallback, v, To, Links, Uplinks
<1>7. CASE r \in {v, [w EXCEPT !.cat = w.file, !.known = [i \in DOMAIN w.known |-> 0]]}
  <2> HIDE DEF v, r
  <2>1. QED
    BY <1>1, <1>5, <1>7, QuietState DEF r
<1>8. CASE /\ e.ev \in Links
           /\ \E u \in {v, To("wlan"), To("wan"), To("embms")}, type \in Uplinks :
                r = CreateIfaceInstance(u, e, type)
  <2>1. PICK u \in {v, To("wlan"), To("wan"), To("embms")}, type \in Uplinks :
          r = CreateIfaceInstance(u, e, type)
    BY <1>8
  <2> HIDE DEF v, r, To
  <2>2. Quiet(w, u) /\ IsState(u)
    BY <1>1, <1>2, <1>4, <2>1
  <2>3. r = u \/ Makes(u, r, e)
    BY <1>8, <2>1, <2>2, CreateMakes
  <2>4. QED
    BY <2>2, <2>3, QuietState, MakesAfter DEF r
<1>9. QED
  BY <1>6, <1>7, <1>8

\* A handler may change what an object knows, but not what it is.
LEMMA QuietObject ==
    ASSUME NEW w, IsState(w), NEW id, NEW x
    PROVE  /\ Quiet(w, [w EXCEPT !.objs[id].act = x])
           /\ Quiet(w, [w EXCEPT !.objs[id].switch = x])
           /\ Quiet(w, [w EXCEPT !.objs[id].addr = x])
           /\ Quiet(w, [w EXCEPT !.objs[id].def = x])
           /\ Quiet(w, [w EXCEPT !.objs[id].xlat = x])
BY DEF IsState, Quiet, Same, SameObjects, Fields, Heap

LEMMA InactiveLike ==
    ASSUME NEW w, NEW u, NEW id, IsState(w), Quiet(w, u)
    PROVE  Like(w, GoInactive(u, id))
<1>1. IsState(u)
  BY QuietState
<1>2. Quiet(u, [u EXCEPT !.objs[id].act = FALSE])
  BY <1>1, QuietObject
<1>3. Quiet(w, [u EXCEPT !.objs[id].act = FALSE])
  BY <1>2, QuietTwice
<1>4. QED
  BY <1>3, PostsOne DEF GoInactive

LEMMA LanWorks ==
    ASSUME NEW w, IsState(w), NEW id \in DOMAIN w.objs, w.objs[id].kind \in {"lan", "eth", "odu"}, NEW e
    PROVE  Like(w, LanCallback(w, id, e)) \/ Quits(w, LanCallback(w, id, e), id, e)
<1> DEFINE o == w.objs[id]
           v == Query(w, e)
           r == LanCallback(w, id, e)
           s == [w EXCEPT !.objs[id].switch = TRUE]
           u == IF o.switch THEN Relink(w, o.i) ELSE w
<1>1. Quiet(w, w) /\ Quiet(w, v) /\ Quiet(w, s) /\ IsState(v)
  BY QuietRefl, QuietQuery, QuietObject, QuietState
<1>2. Quiet(v, [v EXCEPT !.objs[id].addr = TRUE])
  BY <1>1, QuietObject
<1>3. Quiet(w, [v EXCEPT !.objs[id].addr = TRUE])
  <2> HIDE DEF v
  <2>1. QED
    BY <1>1, <1>2, QuietTwice
<1>4. \/ r \in {w, v, GoInactive(v, id), GoInactive(s, id), [v EXCEPT !.objs[id].addr = TRUE]}
      \/ e.ev = "LAN_DELETE_SELF" /\ r = Delete(u, id)
  <2> HIDE DEF v, s, u
  <2>1. QED
    BY DEF LanCallback, v, s, u
<1>5. Like(w, u)
  <2>1. Like(w, w)
    BY <1>1, QuietState
  <2>2. Like(w, Relink(w, o.i))
    BY <1>1, PostsOne DEF Relink
  <2>3. QED
    BY <2>1, <2>2
<1>6. Like(w, GoInactive(v, id)) /\ Like(w, GoInactive(s, id))
  <2> HIDE DEF v, s
  <2>1. QED
    BY <1>1, InactiveLike
<1>7. Like(w, w) /\ Like(w, v) /\ Like(w, [v EXCEPT !.objs[id].addr = TRUE])
  <2> HIDE DEF v
  <2>1. QED
    BY <1>1, <1>3, QuietState
<1>8. MayQuit(o.kind, "LAN_DELETE_SELF")
  BY DEF MayQuit, Final, Tethers
<1> HIDE DEF v, s, u
<1>9. CASE e.ev = "LAN_DELETE_SELF" /\ r = Delete(u, id)
  BY <1>5, <1>8, <1>9 DEF Quits
<1>10. QED
  BY <1>4, <1>6, <1>7, <1>9

LEMMA WlanWorks ==
    ASSUME NEW w, IsState(w), NEW id \in DOMAIN w.objs, w.objs[id].kind = "wlan", NEW e
    PROVE  Like(w, WlanCallback(w, id, e)) \/ Quits(w, WlanCallback(w, id, e), id, e)
<1> DEFINE o == w.objs[id]
           v == Query(w, e)
           r == WlanCallback(w, id, e)
           g == GoInactive(v, id)
           gone == [g EXCEPT !.cat[o.i] = "unknown"]
           u == [w EXCEPT !.ap = @ - 1]
           told == [v EXCEPT !.objs[id].addr = TRUE]
<1>1. Quiet(w, w) /\ Quiet(w, v) /\ Quiet(w, u) /\ IsState(v)
  BY QuietRefl, QuietQuery, QuietFields, QuietState
<1>2. Quiet(v, told)
  BY <1>1, QuietObject
<1>3. Quiet(w, told) /\ Like(w, g)
  <2> HIDE DEF v, told
  <2>1. QED
    BY <1>1, <1>2, QuietTwice, InactiveLike DEF g
<1>4. Like(w, gone)
  <2> HIDE DEF g
  <2>1. QED
    BY <1>3 DEF Like, Same, SameObjects, Posts, Fields
<1>5. \/ r \in {w, v, gone, told}
      \/ e.ev = "LAN_DELETE_SELF" /\ r = Delete(u, id)
  <2> HIDE DEF v, gone, told, u
  <2>1. QED
    BY DEF WlanCallback, v, gone, g, told, u
<1>6. Like(w, w) /\ Like(w, v) /\ Like(w, told) /\ Like(w, u)
  <2> HIDE DEF v, told, u
  <2>1. QED
    BY <1>1, <1>3, QuietState
<1>7. MayQuit(o.kind, "LAN_DELETE_SELF")
  BY DEF MayQuit, Final, Tethers
<1> HIDE DEF v, gone, told, u
<1>8. CASE e.ev = "LAN_DELETE_SELF" /\ r = Delete(u, id)
  BY <1>6, <1>7, <1>8 DEF Quits
<1>9. QED
  BY <1>4, <1>5, <1>6, <1>8

LEMMA WanWorks ==
    ASSUME NEW w, IsState(w), NEW id \in DOMAIN w.objs, w.objs[id].kind \notin Tethers, NEW e
    PROVE  Like(w, WanCallback(w, id, e)) \/ Quits(w, WanCallback(w, id, e), id, e)
<1> DEFINE o == w.objs[id]
           v == Query(w, e)
           r == WanCallback(w, id, e)
           link == Relink(w, o.i)
           lost == [v EXCEPT !.cat[o.i] = "unknown"]
           addr == [v EXCEPT !.objs[id].addr = TRUE]
           route == [v EXCEPT !.objs[id].def = TRUE]
           none == [v EXCEPT !.objs[id].def = FALSE]
           xlat == [v EXCEPT !.objs[id].xlat = (o.kind = "q6")]
           told == {addr, route, none, xlat}
<1>1. Quiet(w, w) /\ Quiet(w, v) /\ IsState(v)
  BY QuietRefl, QuietQuery, QuietState
<1>2. \A u \in told : Quiet(v, u)
  <2> HIDE DEF v
  <2>1. \A x : /\ Quiet(v, [v EXCEPT !.objs[id].addr = x])
               /\ Quiet(v, [v EXCEPT !.objs[id].def = x])
               /\ Quiet(v, [v EXCEPT !.objs[id].xlat = x])
    BY <1>1, QuietObject
  <2>2. Quiet(v, xlat)
    BY <2>1, Zenon
  <2>3. Quiet(v, addr) /\ Quiet(v, route) /\ Quiet(v, none)
    BY <2>1
  <2> HIDE DEF addr, route, none, xlat
  <2>4. QED
    BY <2>2, <2>3
<1>3. Quiet(v, lost)
  <2> HIDE DEF v
  <2>1. QED
    BY <1>1 DEF IsState, Quiet, Same, SameObjects, Fields
<1>4. /\ Like(w, w) /\ Like(w, v) /\ Like(w, lost) /\ Like(w, link)
      /\ \A u \in told : Like(w, u)
  <2>1. Like(w, link)
    BY <1>1, PostsOne DEF Relink
  <2> HIDE DEF v, lost, told
  <2>2. QED
    BY <1>1, <1>2, <1>3, <2>1, QuietTwice, QuietState
<1>5. \/ r \in {w, v} \cup told
      \/ e.ev = "CFG_CHANGE" /\ o.kind = "ecm" /\ r = Delete(link, id)
      \/ e.ev = "WLAN_LINK_DOWN" /\ r = Delete(lost, id)
      \/ e.ev = "LINK_DOWN" /\ r = Delete(v, id)
  <2> HIDE DEF v, lost, link
  <2>1. QED
    BY DEF WanCallback, v, lost, link
<1>6. /\ MayQuit(o.kind, "WLAN_LINK_DOWN") /\ MayQuit(o.kind, "LINK_DOWN")
      /\ o.kind = "ecm" => MayQuit(o.kind, "CFG_CHANGE")
  BY DEF MayQuit, Final
<1> HIDE DEF v, lost, told, link
<1>7. \A u : Like(w, u) /\ r = Delete(u, id) /\ MayQuit(o.kind, e.ev) => Quits(w, r, id, e)
  BY DEF Quits
<1> HIDE DEF r
<1>8. Like(w, r) \/ Quits(w, r, id, e)
  BY <1>4, <1>5, <1>6, <1>7
<1>9. QED
  BY <1>8 DEF r

\* What a call does: it registers nothing, or makes an object, or deletes the object
\* called, or the object called is gone.
LEMMA CallbackWorks ==
    ASSUME NEW w, IsState(w), NEW t, NEW e
    PROVE  LET v == Callback(w, t, e)
           IN \/ Like(w, v)
              \/ t.obj = Manager /\ Makes(w, v, e)
              \/ t.obj \in DOMAIN w.objs /\ Quits(w, v, t.obj, e)
              \/ /\ t.obj \notin DOMAIN w.objs /\ t.obj # Manager
                 /\ v = [w EXCEPT !.stray = @ \cup {Stray("call", t.kind, e)}]
<1>1. CASE t.obj = Manager
  BY <1>1, ManagerWorks DEF Callback
<1>2. CASE t.obj # Manager /\ t.obj \notin DOMAIN w.objs
  BY <1>2 DEF Callback
<1>3. CASE t.obj # Manager /\ t.obj \in DOMAIN w.objs /\ w.objs[t.obj].kind \in {"lan", "eth", "odu"}
  <2>1. Callback(w, t, e) = LanCallback(w, t.obj, e)
    BY <1>3 DEF Callback
  <2>2. QED
    BY <1>3, <2>1, LanWorks
<1>4. CASE t.obj # Manager /\ t.obj \in DOMAIN w.objs /\ w.objs[t.obj].kind = "wlan"
  <2>1. Callback(w, t, e) = WlanCallback(w, t.obj, e)
    BY <1>4 DEF Callback
  <2>2. QED
    BY <1>4, <2>1, WlanWorks
<1>5. CASE t.obj # Manager /\ t.obj \in DOMAIN w.objs /\ w.objs[t.obj].kind \notin Tethers
  <2>1. Callback(w, t, e) = WanCallback(w, t.obj, e)
    BY <1>5 DEF Callback, Tethers
  <2>2. QED
    BY <1>5, <2>1, WanWorks
<1>6. QED
  BY <1>1, <1>2, <1>3, <1>4, <1>5 DEF Tethers

-----------------------------------------------------------------------------
(* The inductive invariant.                                                *)

\* The walk has before it all that wants the event from some entry on.
RestIs(rest, table, e) ==
    /\ \A t \in rest : t \in table /\ Wants(e, t)
    /\ \A t \in rest, u \in table : Wants(e, u) /\ t.n <= u.n => u \in rest

WalkIs ==
    /\ {"pc", "evt", "rest"} \subseteq DOMAIN worker
    /\ worker.pc \in {"look", "peek", "wait", "woken", "walk"}
    /\ worker.pc # "walk" => worker.evt = <<>> /\ worker.rest = {}
    /\ worker.pc = "walk" =>
         worker.evt = <<worker.evt[1]>> /\ RestIs(worker.rest, mgr.table, worker.evt[1])

QueuesAre == {"int", "ext"} \subseteq DOMAIN queue /\ IsQueue(queue.int) /\ IsQueue(queue.ext)

BusInv == QueuesAre /\ WalkIs /\ Placed(mgr.table) /\ Heap(mgr.objs)

\* An entry of a living object, for something that objects of its kind are registered for.
Living(t, objs) ==
    /\ t.obj \in DOMAIN objs /\ t.kind = objs[t.obj].kind
    /\ \E k \in 1 .. Len(Subscriptions(t.kind)) : t.ev = Subscriptions(t.kind)[k]

\* An object hears last of what makes it delete itself.
FinalLast(table) ==
    \A t, u \in table : t.obj # Manager /\ t.ev = Final(t.kind) /\ u.obj = t.obj => u.n <= t.n

Excused == {Stray("list", "sta", [ev |-> "WLAN_LINK_DOWN"]),
            Stray("list", "ecm", [ev |-> "CFG_CHANGE"])}

ListsAgree(table, insts, objs, made) ==
    /\ made \in Nat /\ DOMAIN objs \subseteq 1 .. made
    /\ \A r, s \in insts : r.i = s.i => r = s
    /\ {r.obj : r \in insts} = DOMAIN objs
    /\ {t.obj : t \in table} = DOMAIN objs \cup {Manager}
    /\ \A t \in table : t.obj = Manager \/ Living(t, objs)
    /\ FinalLast(table)

Agreed == GaveUp \/ (ListsAgree(mgr.table, mgr.insts, mgr.objs, mgr.made) /\ mgr.stray \subseteq Excused)

-----------------------------------------------------------------------------
(* The walk.                                                               *)

\* Entries removed, or added behind the others for other events: either way the walk goes
\* on with what it had before it, less what is gone.
LEMMA WalkOn ==
    ASSUME NEW table, Placed(table), NEW e, NEW rest, RestIs(rest, table, e),
           NEW t \in rest, \A u \in rest : t.n <= u.n,
           NEW new, Placed(new), \A u \in new \ table : ~Wants(e, u)
    PROVE  LET ahead == {u \in table : u.n > t.n}
               on == Onwards(ahead, new, e)
           IN RestIs(on, new, e) /\ on = (rest \ {t}) \cap new
<1> DEFINE ahead == {u \in table : u.n > t.n}
           on == Onwards(ahead, new, e)
<1>1. PICK b \in Nat, c \in Nat : Below(table, b) /\ Below(new, c)
  BY DEF Placed
<1>2. (\A u \in table : u.n \in Nat) /\ (\A u \in new : u.n \in Nat)
  BY <1>1 DEF Below
<1>3. t \in table /\ Wants(e, t)
  BY DEF RestIs
<1>4. \A u : u \in on <=> u \in new /\ Wants(e, u) /\ \E s \in ahead \cap new : s.n <= u.n
  BY DEF Onwards
<1>5. \A u \in on : u \in table
  BY <1>4
<1>6. \A u \in on : u \in rest /\ u # t /\ u \in new
  <2>1. SUFFICES ASSUME NEW u \in on
                 PROVE  u \in rest /\ u # t /\ u \in new
    OBVIOUS
  <2>2. PICK s \in ahead \cap new : s.n <= u.n
    BY <1>4
  <2>3. u \in table /\ u \in new /\ Wants(e, u) /\ s \in table /\ t.n < s.n
    BY <1>4, <1>5
  <2>4. t.n <= u.n /\ t.n # u.n
    BY <1>2, <1>3, <2>2, <2>3
  <2>5. QED
    BY <2>3, <2>4 DEF RestIs
<1>7. \A u \in (rest \ {t}) \cap new : u \in on
  <2>1. SUFFICES ASSUME NEW u \in (rest \ {t}) \cap new
                 PROVE  u \in on
    OBVIOUS
  <2>2. u \in table /\ Wants(e, u) /\ t.n <= u.n
    BY DEF RestIs
  <2>3. u.n # t.n
    BY <1>3, <2>2 DEF Placed
  <2>4. u \in ahead \cap new /\ u.n <= u.n
    BY <1>2, <1>3, <2>2, <2>3
  <2>5. QED
    BY <1>4, <2>2, <2>4
<1>8. RestIs(on, new, e)
  <2>1. \A u \in on, v \in new : Wants(e, v) /\ u.n <= v.n => v \in on
    <3>1. SUFFICES ASSUME NEW u \in on, NEW v \in new, Wants(e, v), u.n <= v.n
                   PROVE  v \in on
      OBVIOUS
    <3>2. PICK s \in ahead \cap new : s.n <= u.n
      BY <1>4
    <3>3. u \in new /\ s \in new
      BY <1>4
    <3>4. s.n <= v.n
      BY <1>2, <3>1, <3>2, <3>3
    <3>5. QED
      BY <1>4, <3>1, <3>2, <3>4
  <2>2. QED
    BY <1>4, <2>1 DEF RestIs
<1> HIDE DEF on
<1>9. on = (rest \ {t}) \cap new
  BY <1>6, <1>7
<1>10. QED
  BY <1>8, <1>9 DEF on

\* What a call does to the list: it may remove entries, or add some behind the others, for
\* other events.
Handled(w, v, e) ==
    /\ Posts(w, v) /\ Heap(v.objs) /\ Placed(v.table)
    /\ \A u \in v.table \ w.table : ~Wants(e, u)
    /\ \A a \in v.table \ w.table, b \in v.table \cap w.table : b.n < a.n

LEMMA CallTable ==
    ASSUME NEW w, IsState(w), Placed(w.table), NEW t \in w.table, NEW e, Wants(e, t)
    PROVE  Handled(w, Callback(w, t, e), e)
<1> SUFFICES ASSUME NEW v, v = Callback(w, t, e)
             PROVE  Handled(w, v, e)
  OBVIOUS
<1>1. CASE Like(w, v)
  BY <1>1 DEF Handled, Like, Same, SameObjects
<1>2. CASE Makes(w, v, e)
  <2>1. PICK kind \in ObjectKinds :
        /\ e.ev \in Links /\ Heap(v.objs) /\ Posts(w, v)
        /\ v.table = w.table \cup Entries(kind, w.made + 1, End(w.table))
    BY <1>2, Zenon DEF Makes
  <2> DEFINE more == Entries(kind, w.made + 1, End(w.table))
  <2>2. Subscriptions(kind) \in Seq(Heard)
    BY Hears
  <2>3. Placed(v.table) /\ \A a \in w.table, u \in more : a.n < u.n
    BY <2>1, <2>2, EntriesBehind DEF Entries
  <2>4. \A u \in more : u.ev \in Heard
    BY <2>2 DEF Entries, EntriesOf
  <2> HIDE DEF more
  <2>5. v.table = w.table \cup more
    BY <2>1 DEF more
  <2>6. \A u \in v.table \ w.table : ~Wants(e, u)
    BY <2>1, <2>4, <2>5, Unheard DEF Wants
  <2>7. QED
    BY <2>1, <2>3, <2>5, <2>6 DEF Handled
<1>3. CASE t.obj \in DOMAIN w.objs /\ Quits(w, v, t.obj, e)
  <2>1. PICK u : Like(w, u) /\ v = Delete(u, t.obj)
    BY <1>3 DEF Quits
  <2>2. /\ v.table = {a \in w.table : a.obj # t.obj}
        /\ v.objs = [o \in DOMAIN u.objs \ {t.obj} |-> u.objs[o]]
        /\ v.int = u.int /\ v.ext = u.ext
    BY <2>1 DEF Delete, Like, Same, Fields
  <2>3. Heap(v.objs) /\ Posts(w, v)
    BY <2>1, <2>2 DEF Like, Same, SameObjects, Heap, Posts
  <2>4. Placed(v.table)
    BY <2>2 DEF Placed, Below
  <2>5. QED
    BY <2>2, <2>3, <2>4 DEF Handled
<1>4. CASE v = [w EXCEPT !.stray = @ \cup {Stray("call", t.kind, e)}]
  <2>1. v.table = w.table /\ v.objs = w.objs /\ v.int = w.int /\ v.ext = w.ext
    BY <1>4 DEF IsState, Fields
  <2>2. Grown(w.int, w.int) /\ Grown(w.ext, w.ext)
    BY GrownSame DEF IsState
  <2>3. QED
    BY <2>1, <2>2 DEF IsState, Posts, Handled
<1>5. QED
  BY <1>1, <1>2, <1>3, <1>4, CallbackWorks

-----------------------------------------------------------------------------
(* The steps, for the invariant and for the contract.                      *)

LEMMA InitHolds == Init => BusInv /\ Contract!Init
<1> SUFFICES ASSUME Init PROVE BusInv /\ Contract!Init
  OBVIOUS
<1>1. queue = [int |-> <<>>, ext |-> <<>>] /\ worker = [pc |-> "look", evt |-> <<>>, rest |-> {}]
      /\ mgr.table = ManagerEntries /\ mgr.objs = <<>>
  BY DEF Init
<1>2. <<>> \in Seq({})
  OBVIOUS
<1>3. QueuesAre
  BY <1>1, <1>2, QueueIn DEF QueuesAre
<1>4. WalkIs
  BY <1>1 DEF WalkIs
<1>5. Placed(mgr.table)
  <2>1. End({}) = 0
    BY DEF End, Max
  <2>2. Placed({})
    <3>1. Below({}, 0)
      BY DEF Below
    <3>2. QED
      BY <3>1 DEF Placed
  <2>3. ManagerEvents \in Seq({ManagerEvents[k] : k \in 1 .. 7})
    BY DEF ManagerEvents
  <2>4. Placed({} \cup EntriesOf(ManagerEvents, "manager", Manager, End({})))
    BY <2>2, <2>3, EntriesBehind
  <2>5. {} \cup EntriesOf(ManagerEvents, "manager", Manager, End({})) = ManagerEntries
    BY <2>1 DEF ManagerEntries
  <2>6. QED
    BY <1>1, <2>4, <2>5
<1>6. Heap(mgr.objs)
  BY <1>1 DEF Heap
<1>7. QED
  BY <1>1, <1>3, <1>4, <1>5, <1>6 DEF BusInv, Contract!Init

\* The kinds of steps the bus can tell apart.
LEMMA Steps ==
    ASSUME [Next]_vars
    PROVE  \/ UNCHANGED <<queue, worker, mgr>>
           \/ UNCHANGED mgr /\ \E e : Enqueue(e)
           \/ Process_lock \/ Process_take \/ ProcessEvt
<1>1. CASE UNCHANGED vars
  BY <1>1 DEF vars
<1>2. CASE Happening
  <2>1. ASSUME NEW i \in Ifaces,
               SetUp(i) \/ Cable(i) \/ Unregister(i) \/ Register(i) \/ Address(i) \/ Edit(i)
        PROVE  UNCHANGED bus
    BY <2>1 DEF SetUp, Cable, Unregister, Register, Address, Edit
  <2>2. ASSUME NEW i, NEW fam, NEW proto, Route(i, fam, proto)
        PROVE  UNCHANGED bus
    BY <2>2 DEF Route
  <2>3. ASSUME NEW i, NEW mode, Wifi(i, mode)
        PROVE  UNCHANGED bus
    BY <2>3 DEF Wifi
  <2>4. ASSUME NEW i, NEW type, Modem(i, type)
        PROVE  UNCHANGED bus
    BY <2>4 DEF Modem
  <2>5. ASSUME NEW t \in Threads, Raise(t)
        PROVE  UNCHANGED <<queue, worker, mgr>>
    BY <2>5 DEF Raise
  <2>6. UNCHANGED bus => UNCHANGED <<queue, worker, mgr>>
    BY DEF bus
  <2>7. QED
    BY <1>2, <2>1, <2>2, <2>3, <2>4, <2>5, <2>6 DEF Happening
<1>3. CASE SigHandler
  BY <1>3 DEF SigHandler
<1>4. ASSUME NEW t \in Readers, Reading(t)
      PROVE  UNCHANGED <<queue, worker, mgr>> \/ (UNCHANGED mgr /\ \E e : Enqueue(e))
  BY <1>4 DEF Reading, Read, PostEvt_lock, PostEvt_enqueue, bus
<1>5. QED
  BY <1>1, <1>2, <1>3, <1>4 DEF Next, Working

LEMMA EnqueueHolds ==
    ASSUME BusInv, NEW e, Enqueue(e), UNCHANGED mgr
    PROVE  BusInv' /\ Contract!Post
<1>1. Grown(queue.int, Append(queue.int, e)) /\ Grown(queue.ext, Append(queue.ext, e))
      /\ Grown(queue.int, queue.int) /\ Grown(queue.ext, queue.ext)
  BY GrownAppend, GrownSame DEF BusInv, QueuesAre
<1>2. {"int", "ext"} \subseteq DOMAIN queue' /\ Grown(queue.int, queue'.int)
      /\ Grown(queue.ext, queue'.ext)
  BY <1>1 DEF Enqueue, BusInv, QueuesAre
<1>3. worker'.evt = worker.evt /\ worker'.rest = worker.rest /\ WalkIs'
  BY DEF Enqueue, BusInv, WalkIs
<1>4. BusInv'
  <2>1. QueuesAre'
    BY <1>2 DEF QueuesAre, Grown
  <2>2. QED
    BY <1>3, <2>1 DEF BusInv
<1>5. Contract!Post
  BY <1>2, <1>3 DEF Grown, IsPrefix, Contract!IsPrefix, Contract!Post, Contract!Grow
<1>6. QED
  BY <1>4, <1>5

LEMMA LockHolds ==
    ASSUME BusInv, Process_lock
    PROVE  BusInv' /\ UNCHANGED Contract!vars
BY DEF Process_lock, BusInv, WalkIs, QueuesAre, Contract!vars

LEMMA TakeHolds ==
    ASSUME BusInv, Process_take
    PROVE  BusInv' /\ (Contract!Take \/ UNCHANGED Contract!vars)
<1>1. mgr' = mgr /\ worker.evt = <<>>
  BY DEF Process_take, BusInv, WalkIs
<1>2. ASSUME NEW q, IsQueue(q), q # <<>>
      PROVE  IsQueue(Tail(q))
  BY <1>2, QueueTail
<1>3. ASSUME NEW e, worker' = Begin(e)
      PROVE  WalkIs' /\ worker'.evt = <<e>> /\ worker'.rest = Contract!For(worker'.evt[1], mgr.table)
  BY <1>1, <1>3 DEF Begin, WalkIs, RestIs, Wants, Contract!For
<1>4. CASE /\ queue.int # <<>> /\ worker' = Begin(Head(queue.int))
           /\ queue' = [queue EXCEPT !.int = Tail(@)]
  <2>1. queue'.int = Tail(queue.int) /\ queue'.ext = queue.ext /\ QueuesAre'
    BY <1>2, <1>4 DEF BusInv, QueuesAre
  <2>2. BusInv'
    BY <1>1, <1>3, <1>4, <2>1 DEF BusInv
  <2>3. Contract!Take
    BY <1>1, <1>3, <1>4, <2>1 DEF Contract!Take
  <2>4. QED
    BY <2>2, <2>3
<1>5. CASE /\ queue.int = <<>> /\ queue.ext # <<>> /\ worker' = Begin(Head(queue.ext))
           /\ queue' = [queue EXCEPT !.ext = Tail(@)]
  <2>1. queue'.ext = Tail(queue.ext) /\ queue'.int = queue.int /\ QueuesAre'
    BY <1>2, <1>5 DEF BusInv, QueuesAre
  <2>2. BusInv'
    BY <1>1, <1>3, <1>5, <2>1 DEF BusInv
  <2>3. Contract!Take
    BY <1>1, <1>3, <1>5, <2>1 DEF Contract!Take
  <2>4. QED
    BY <2>2, <2>3
<1>6. CASE worker' = [worker EXCEPT !.pc = "wait"] /\ queue' = queue
  BY <1>1, <1>6 DEF Process_take, BusInv, WalkIs, QueuesAre, Contract!vars
<1>7. QED
  BY <1>4, <1>5, <1>6 DEF Process_take

LEMMA StateIs ==
    ASSUME BusInv
    PROVE  IsState(State) /\ State.table = mgr.table
BY DEF BusInv, QueuesAre, IsState, State, Fields

\* One call of the walk, with the registration, the event and what the call returns.
Walks(t, e, v) ==
    /\ t \in worker.rest /\ e = worker.evt[1] /\ t = First(worker.rest)
    /\ v = Callback(State, t, e)
    /\ mgr' = [cat |-> v.cat, known |-> v.known, objs |-> v.objs, table |-> v.table,
               insts |-> v.insts, ap |-> v.ap, made |-> v.made,
               stray |-> v.stray \cup
                  {Stray("list", u.kind, e) : u \in Freed(Ahead(t), v.table)}]
    /\ queue' = [int |-> v.int, ext |-> v.ext]
    /\ worker' = [worker EXCEPT !.rest = Onwards(Ahead(t), v.table, e)]

LEMMA WalkSteps ==
    ASSUME ProcessEvt
    PROVE  /\ worker.pc = "walk"
           /\ \/ /\ worker.rest = {} /\ UNCHANGED <<mgr, queue>>
                 /\ worker' = [pc |-> "look", evt |-> <<>>, rest |-> {}]
              \/ \E t, e, v : Walks(t, e, v)
BY DEF ProcessEvt, Walks

\* The registration whose turn it is.
LEMMA TurnIs ==
    ASSUME BusInv, worker.pc = "walk", NEW t, NEW e, NEW v, Walks(t, e, v)
    PROVE  /\ t \in mgr.table /\ Wants(e, t) /\ \A u \in worker.rest : t.n <= u.n
           /\ RestIs(worker.rest, mgr.table, e)
<1>1. RestIs(worker.rest, mgr.table, e)
  BY DEF BusInv, WalkIs, Walks
<1>2. worker.rest \subseteq mgr.table /\ worker.rest # {}
  BY <1>1 DEF RestIs, Walks
<1>3. PICK b \in Nat : Below(mgr.table, b)
  BY DEF BusInv, Placed
<1>4. Below(worker.rest, b)
  BY <1>2, <1>3 DEF Below
<1>5. \A u \in worker.rest : t.n <= u.n
  BY <1>2, <1>4, FirstIs DEF Walks
<1>6. QED
  BY <1>1, <1>5 DEF RestIs, Walks

LEMMA WalkHolds ==
    ASSUME BusInv, worker.pc = "walk", NEW t, NEW e, NEW v, Walks(t, e, v)
    PROVE  BusInv' /\ Contract!Deliver
<1>1. /\ t \in mgr.table /\ Wants(e, t) /\ (\A u \in worker.rest : t.n <= u.n)
      /\ RestIs(worker.rest, mgr.table, e)
  BY TurnIs
<1>2. Handled(State, v, e)
  BY <1>1, StateIs, CallTable DEF BusInv, Walks
<1>3. /\ mgr'.table = v.table /\ mgr'.objs = v.objs
      /\ queue'.int = v.int /\ queue'.ext = v.ext /\ {"int", "ext"} \subseteq DOMAIN queue'
      /\ worker'.rest = Onwards(Ahead(t), v.table, e)
      /\ worker'.evt = worker.evt /\ worker'.pc = worker.pc
      /\ {"pc", "evt", "rest"} \subseteq DOMAIN worker'
  BY DEF Walks, BusInv, WalkIs
<1>4. /\ Grown(queue.int, v.int) /\ Grown(queue.ext, v.ext) /\ Heap(v.objs) /\ Placed(v.table)
      /\ \A u \in v.table \ mgr.table : ~Wants(e, u)
      /\ \A a \in v.table \ mgr.table, b \in v.table \cap mgr.table : b.n < a.n
  BY <1>2, StateIs DEF Handled, Posts, State
<1>5. RestIs(worker'.rest, v.table, e) /\ worker'.rest = (worker.rest \ {t}) \cap v.table
  BY <1>1, <1>3, <1>4, WalkOn DEF BusInv, Walks, Ahead
<1>6. BusInv'
  <2>1. QueuesAre'
    BY <1>3, <1>4 DEF QueuesAre, Grown
  <2>2. WalkIs'
    BY <1>3, <1>5 DEF WalkIs, BusInv, Walks
  <2>3. QED
    BY <1>3, <1>4, <2>1, <2>2 DEF BusInv
<1>7. Contract!Deliver
  <2>1. IsPrefix(queue.int, queue'.int) /\ IsPrefix(queue.ext, queue'.ext)
    BY <1>3, <1>4 DEF Grown
  <2>2. Contract!Ordered(mgr.table, mgr'.table)
    BY <1>3, <1>4 DEF Contract!Ordered, Placed
  <2>3. Contract!For(worker.evt[1], mgr'.table \ mgr.table) = {}
    BY <1>3, <1>4 DEF Contract!For, Wants, Walks
  <2>4. worker'.rest = ((worker.rest \ {t}) \cap mgr'.table)
                         \cup Contract!For(worker.evt[1], mgr'.table \ mgr.table)
    BY <1>3, <1>5, <2>3
  <2>5. t \in worker.rest
    BY DEF Walks
  <2>6. QED
    BY <1>1, <1>3, <2>1, <2>2, <2>4, <2>5
    DEF Contract!Deliver, Contract!Grow, IsPrefix, Contract!IsPrefix
<1>8. QED
  BY <1>6, <1>7

LEMMA ProcessHolds ==
    ASSUME BusInv, ProcessEvt
    PROVE  BusInv' /\ (Contract!Deliver \/ Contract!Finish)
<1>1. CASE /\ worker.pc = "walk" /\ worker.rest = {} /\ UNCHANGED <<mgr, queue>>
           /\ worker' = [pc |-> "look", evt |-> <<>>, rest |-> {}]
  <2>1. BusInv'
    BY <1>1 DEF BusInv, WalkIs, QueuesAre
  <2>2. Contract!Finish
    BY <1>1 DEF BusInv, WalkIs, Contract!Finish
  <2>3. QED
    BY <2>1, <2>2
<1>2. ASSUME worker.pc = "walk", NEW t, NEW e, NEW v, Walks(t, e, v)
      PROVE  BusInv' /\ Contract!Deliver
  BY <1>2, WalkHolds
<1>3. QED
  BY <1>1, <1>2, WalkSteps

LEMMA BusStep ==
    ASSUME BusInv, [Next]_vars
    PROVE  BusInv' /\ [Contract!Next]_Contract!vars
<1>1. CASE UNCHANGED <<queue, worker, mgr>>
  BY <1>1 DEF BusInv, QueuesAre, WalkIs, Contract!vars
<1>2. ASSUME UNCHANGED mgr, NEW e, Enqueue(e)
      PROVE  BusInv' /\ Contract!Post
  BY <1>2, EnqueueHolds
<1>3. CASE Process_lock
  BY <1>3, LockHolds
<1>4. CASE Process_take
  BY <1>4, TakeHolds DEF Contract!Next
<1>5. CASE ProcessEvt
  BY <1>5, ProcessHolds DEF Contract!Next
<1>6. QED
  BY <1>1, <1>2, <1>3, <1>4, <1>5, Steps DEF Contract!Next

\* The inductive invariant: queues are sequences, the places order the list, and the walk
\* has before it all the entries that want its event from some entry on.
THEOREM BusInvariant == Spec => []BusInv
<1>1. Init => BusInv
  BY InitHolds
<1>2. BusInv /\ [Next]_vars => BusInv'
  BY BusStep
<1>3. QED
  BY <1>1, <1>2, PTL DEF Spec

\* The event queue and the walk over the registrations implement BusContract: an event is
\* delivered once to each registration there is for it, the oldest first, whatever the
\* handlers post, register and delete.
THEOREM BusImplementsContract == Spec => ImplementsContract
<1>1. Init => Contract!Init
  BY InitHolds
<1>2. BusInv /\ [Next]_vars => [Contract!Next]_Contract!vars
  BY BusStep
<1>3. QED
  BY <1>1, <1>2, BusInvariant, PTL DEF Spec, ImplementsContract, Contract!Spec

-----------------------------------------------------------------------------
(* The lists of objects, and memory that has been freed.                   *)

\* A call that removes nothing that is ahead leaves nothing freed there.
LEMMA NoneFreed ==
    ASSUME BusInv, NEW t, NEW new, Ahead(t) \subseteq new
    PROVE  Freed(Ahead(t), new) = {}
<1>1. PICK b \in Nat : Below(mgr.table, b)
  BY DEF BusInv, Placed
<1>2. \A u \in Ahead(t) : u.n \in Nat /\ u \in Ahead(t) \cap new
  BY <1>1 DEF Ahead, Below
<1>3. \A u \in Ahead(t) : ~(u.n < u.n)
  BY <1>2
<1>4. QED
  BY <1>2, <1>3 DEF Freed

\* What is read after it was freed was registered for the object that was deleted.
LEMMA FreedOnes ==
    ASSUME BusInv, NEW t, NEW new, new = {u \in mgr.table : u.obj # t.obj},
           NEW u \in Freed(Ahead(t), new)
    PROVE  u \in mgr.table /\ u.obj = t.obj /\ t.n < u.n
<1>1. PICK b \in Nat : Below(mgr.table, b)
  BY DEF BusInv, Placed
<1>2. u \in mgr.table /\ t.n < u.n /\ u.n \in Nat
  BY <1>1 DEF Freed, Ahead, Below
<1>3. u \notin new
  BY <1>2 DEF Freed, Ahead
<1>4. QED
  BY <1>2, <1>3

LEMMA LikeAgrees ==
    ASSUME NEW w, NEW v, Like(w, v), ListsAgree(w.table, w.insts, w.objs, w.made)
    PROVE  ListsAgree(v.table, v.insts, v.objs, v.made)
BY DEF Like, Same, SameObjects, ListsAgree, Living

LEMMA QuitAgrees ==
    ASSUME NEW w, NEW u, NEW id, Like(w, u), id # Manager,
           ListsAgree(w.table, w.insts, w.objs, w.made)
    PROVE  LET v == Delete(u, id) IN ListsAgree(v.table, v.insts, v.objs, v.made)
<1> SUFFICES ASSUME NEW v, v = Delete(u, id)
             PROVE  ListsAgree(v.table, v.insts, v.objs, v.made)
  OBVIOUS
<1>1. ListsAgree(u.table, u.insts, u.objs, u.made)
  BY LikeAgrees
<1>2. /\ v.table = {a \in u.table : a.obj # id} /\ v.insts = {r \in u.insts : r.obj # id}
      /\ v.objs = [o \in DOMAIN u.objs \ {id} |-> u.objs[o]] /\ v.made = u.made
  BY DEF Delete, Like, Same, Fields
<1>3. {r.obj : r \in v.insts} = DOMAIN v.objs
  BY <1>1, <1>2 DEF ListsAgree
<1>4. {t.obj : t \in v.table} = DOMAIN v.objs \cup {Manager}
  BY <1>1, <1>2 DEF ListsAgree
<1>5. \A t \in v.table : t.obj = Manager \/ Living(t, v.objs)
  BY <1>1, <1>2 DEF ListsAgree, Living
<1>6. FinalLast(v.table)
  BY <1>1, <1>2 DEF ListsAgree, FinalLast
<1>7. QED
  BY <1>1, <1>2, <1>3, <1>4, <1>5, <1>6 DEF ListsAgree

LEMMA MakeAgrees ==
    ASSUME NEW w, NEW v, NEW e, Makes(w, v, e), Placed(w.table), ~\E x \in v.stray : x.what = "object",
           ListsAgree(w.table, w.insts, w.objs, w.made)
    PROVE  ListsAgree(v.table, v.insts, v.objs, v.made) /\ v.stray = w.stray
<1> DEFINE id == w.made + 1
           E(kind) == Entries(kind, id, End(w.table))
<1>1. PICK kind \in ObjectKinds :
      /\ v.table = w.table \cup E(kind) /\ v.made = id
      /\ \E i : /\ v.insts = w.insts \cup {[i |-> i, obj |-> id]}
                /\ \A r \in w.insts : r.i # i
      /\ v.stray = w.stray
      /\ DOMAIN v.objs = DOMAIN w.objs \cup {id} /\ v.objs[id].kind = kind
      /\ \A o \in DOMAIN w.objs \ {id} : v.objs[o].kind = w.objs[o].kind
  BY Zenon DEF Makes
<1> DEFINE subs == Subscriptions(kind)
           more == E(kind)
<1>2. subs \in Seq(Heard) /\ Len(subs) > 0 /\ OnlyLast(subs, Final(kind))
  BY Hears
<1>3. PICK b \in Nat : Below(w.table, b)
  BY DEF Placed
<1>4. End(w.table) \in Nat /\ id \in Nat /\ id # Manager /\ id \notin DOMAIN w.objs
  BY <1>3, EndIs DEF Below, ListsAgree, Manager
<1>5. /\ \A t \in more : \E k \in 1 .. Len(subs) :
           t = [n |-> End(w.table) + k, ev |-> subs[k], obj |-> id, kind |-> kind]
      /\ \A k \in 1 .. Len(subs) :
           [n |-> End(w.table) + k, ev |-> subs[k], obj |-> id, kind |-> kind] \in more
  BY <1>2 DEF Entries, EntriesOf
<1> HIDE DEF E, subs, more
<1>6. v.table = w.table \cup more
  BY <1>1 DEF more
<1>7. \A t \in more : t.obj = id /\ t.kind = kind
  BY <1>5
<1>8. \A t \in w.table : t.obj \in DOMAIN w.objs \cup {Manager}
  BY DEF ListsAgree
<1>9. \E t \in more : t.obj = id
  <2>1. 1 \in 1 .. Len(subs)
    BY <1>2
  <2>2. QED
    BY <1>5, <2>1
<1>10. {t.obj : t \in v.table} = DOMAIN v.objs \cup {Manager}
  <2>1. {t.obj : t \in w.table} = DOMAIN w.objs \cup {Manager}
    BY DEF ListsAgree
  <2>2. {t.obj : t \in more} = {id}
    BY <1>7, <1>9
  <2>3. QED
    BY <1>1, <1>6, <2>1, <2>2
<1>11. \A t \in v.table : t.obj = Manager \/ Living(t, v.objs)
  <2>1. ASSUME NEW t \in w.table, t.obj # Manager
        PROVE  Living(t, v.objs)
    BY <1>1, <1>4, <2>1 DEF ListsAgree, Living
  <2>2. ASSUME NEW t \in more
        PROVE  Living(t, v.objs)
    <3>1. PICK k \in 1 .. Len(subs) :
            t = [n |-> End(w.table) + k, ev |-> subs[k], obj |-> id, kind |-> kind]
      BY <1>5
    <3>2. QED
      BY <1>1, <3>1 DEF Living, subs
  <2>3. QED
    BY <1>6, <2>1, <2>2
<1>12. FinalLast(v.table)
  <2>1. SUFFICES ASSUME NEW t \in v.table, NEW u \in v.table, t.obj # Manager,
                        t.ev = Final(t.kind), u.obj = t.obj
                 PROVE  u.n <= t.n
    BY DEF FinalLast
  <2>2. CASE t \in w.table
    BY <1>4, <1>6, <1>7, <1>8, <2>1, <2>2 DEF ListsAgree, FinalLast
  <2>3. CASE t \in more
    <3>1. u \in more
      BY <1>4, <1>6, <1>7, <1>8, <2>1, <2>3
    <3>2. PICK k \in 1 .. Len(subs) :
            t = [n |-> End(w.table) + k, ev |-> subs[k], obj |-> id, kind |-> kind]
      BY <1>5, <2>3
    <3>3. PICK l \in 1 .. Len(subs) :
            u = [n |-> End(w.table) + l, ev |-> subs[l], obj |-> id, kind |-> kind]
      BY <1>5, <3>1
    <3>4. k = Len(subs)
      BY <1>2, <2>1, <3>2 DEF OnlyLast
    <3>5. QED
      BY <1>2, <1>4, <3>2, <3>3, <3>4
  <2>4. QED
    BY <1>6, <2>2, <2>3
<1>13. /\ \A r, s \in v.insts : r.i = s.i => r = s
       /\ {r.obj : r \in v.insts} = DOMAIN v.objs
  <2>1. PICK i : /\ v.insts = w.insts \cup {[i |-> i, obj |-> id]}
                 /\ \A r \in w.insts : r.i # i
    BY <1>1
  <2>2. \A r, s \in v.insts : r.i = s.i => r = s
    BY <2>1 DEF ListsAgree
  <2>3. {r.obj : r \in v.insts} = DOMAIN v.objs
    <3>1. {r.obj : r \in w.insts} = DOMAIN w.objs
      BY DEF ListsAgree
    <3>2. {r.obj : r \in v.insts} = {r.obj : r \in w.insts} \cup {id}
      <4> DEFINE x == [i |-> i, obj |-> id]
      <4>1. x.obj = id /\ v.insts = w.insts \cup {x}
        BY <2>1
      <4> HIDE DEF x
      <4>2. QED
        BY <4>1
    <3>3. QED
      BY <1>1, <3>1, <3>2
  <2>4. QED
    BY <2>2, <2>3
<1>14. v.made \in Nat /\ DOMAIN v.objs \subseteq 1 .. v.made
  BY <1>1 DEF ListsAgree
<1>15. QED
  BY <1>1, <1>10, <1>11, <1>12, <1>13, <1>14 DEF ListsAgree

\* What a registered object may do to itself, it does at the last of its events, or at one
\* of the two that are excused.
LEMMA QuitsWhen ==
    ASSUME NEW t, NEW objs, Heap(objs), Living(t, objs), MayQuit(objs[t.obj].kind, t.ev)
    PROVE  \/ t.ev = Final(t.kind)
           \/ t.kind = "sta" /\ t.ev = "WLAN_LINK_DOWN"
           \/ t.kind = "ecm" /\ t.ev = "CFG_CHANGE"
<1>1. t.kind \in ObjectKinds /\ t.kind = objs[t.obj].kind
  BY DEF Living, Heap
<1>2. CASE t.ev = "WLAN_LINK_DOWN" /\ t.kind \notin Tethers
  <2>1. PICK k \in 1 .. Len(Subscriptions(t.kind)) : t.ev = Subscriptions(t.kind)[k]
    BY DEF Living
  <2>2. t.kind \notin {"q6", "ecm", "embms"}
    BY <1>1, <1>2, <2>1, Hears
  <2>3. QED
    BY <1>1, <1>2, <2>2 DEF ObjectKinds, Uplinks
<1>3. QED
  BY <1>1, <1>2 DEF MayQuit

LEMMA QuitFrees ==
    ASSUME BusInv, ListsAgree(mgr.table, mgr.insts, mgr.objs, mgr.made),
           NEW t \in mgr.table, t.obj # Manager, NEW e, Wants(e, t),
           MayQuit(mgr.objs[t.obj].kind, e.ev),
           NEW new, new = {u \in mgr.table : u.obj # t.obj}
    PROVE  {Stray("list", u.kind, e) : u \in Freed(Ahead(t), new)} \subseteq Excused
<1>1. Living(t, mgr.objs) /\ Heap(mgr.objs) /\ e.ev = t.ev
  BY DEF ListsAgree, BusInv, Wants
<1>2. \/ t.ev = Final(t.kind)
      \/ t.kind = "sta" /\ t.ev = "WLAN_LINK_DOWN"
      \/ t.kind = "ecm" /\ t.ev = "CFG_CHANGE"
  BY <1>1, QuitsWhen
<1>3. SUFFICES ASSUME NEW u \in Freed(Ahead(t), new)
               PROVE  Stray("list", u.kind, e) \in Excused
  OBVIOUS
<1>4. u \in mgr.table /\ u.obj = t.obj /\ t.n < u.n
  BY FreedOnes
<1>5. u.kind = t.kind
  BY <1>4 DEF ListsAgree, Living
<1>6. t.ev # Final(t.kind)
  <2>1. PICK b \in Nat : Below(mgr.table, b)
    BY DEF BusInv, Placed
  <2>2. t.n \in Nat /\ u.n \in Nat
    BY <1>4, <2>1 DEF Below
  <2>3. t.ev = Final(t.kind) => u.n <= t.n
    BY <1>4 DEF ListsAgree, FinalLast
  <2>4. QED
    BY <1>4, <2>2, <2>3
<1>7. QED
  BY <1>1, <1>2, <1>5, <1>6 DEF Stray, Excused

\* Strays are never forgotten.
LEMMA StraysStay ==
    ASSUME NEW w, IsState(w), NEW t, NEW e, NEW v, v = Callback(w, t, e),
           \E s \in w.stray : s.what = "object"
    PROVE  \E s \in v.stray : s.what = "object"
<1>1. CASE Like(w, v)
  BY <1>1 DEF Like, Same
<1>2. CASE Makes(w, v, e)
  BY <1>2, Zenon DEF Makes
<1>3. CASE Quits(w, v, t.obj, e)
  <2>1. PICK u : Like(w, u) /\ v = Delete(u, t.obj)
    BY <1>3 DEF Quits
  <2>2. v.stray = w.stray
    BY <2>1 DEF Like, Same, Delete, Fields
  <2>3. QED
    BY <2>2
<1>4. CASE v = [w EXCEPT !.stray = @ \cup {Stray("call", t.kind, e)}]
  BY <1>4 DEF IsState, Fields
<1>5. QED
  BY <1>1, <1>2, <1>3, <1>4, CallbackWorks

LEMMA WalkAgrees ==
    ASSUME BusInv, Agreed, worker.pc = "walk", NEW t, NEW e, NEW v, Walks(t, e, v)
    PROVE  Agreed'
<1> DEFINE w == State
           freed == {Stray("list", u.kind, e) : u \in Freed(Ahead(t), v.table)}
<1>1. /\ IsState(w) /\ w.table = mgr.table /\ w.objs = mgr.objs /\ w.insts = mgr.insts
      /\ w.made = mgr.made /\ w.stray = mgr.stray
  BY StateIs DEF State
<1>2. t \in mgr.table /\ Wants(e, t)
  BY TurnIs
<1>3. /\ mgr'.table = v.table /\ mgr'.objs = v.objs /\ mgr'.insts = v.insts
      /\ mgr'.made = v.made /\ mgr'.stray = v.stray \cup freed
      /\ v = Callback(w, t, e)
  BY DEF Walks
<1> HIDE DEF w
<1>4. CASE \E s \in v.stray : s.what = "object"
  BY <1>3, <1>4 DEF Agreed, GaveUp
<1>5. CASE ~\E s \in v.stray : s.what = "object"
  <2>1. ListsAgree(w.table, w.insts, w.objs, w.made) /\ w.stray \subseteq Excused
    BY <1>1, <1>3, <1>5, StraysStay DEF Agreed, GaveUp
  <2>2. Ahead(t) \subseteq w.table
    BY <1>1 DEF Ahead
  <2>3. SUFFICES /\ ListsAgree(v.table, v.insts, v.objs, v.made)
                 /\ v.stray \subseteq Excused /\ freed \subseteq Excused
    BY <1>3 DEF Agreed
  <2>4. CASE Like(w, v)
    <3>1. ListsAgree(v.table, v.insts, v.objs, v.made) /\ v.stray = w.stray /\ v.table = w.table
      BY <2>1, <2>4, LikeAgrees DEF Like, Same
    <3>2. freed = {}
      BY <2>2, <3>1, NoneFreed
    <3>3. QED
      BY <2>1, <3>1, <3>2
  <2>5. CASE Makes(w, v, e)
    <3>1. ListsAgree(v.table, v.insts, v.objs, v.made) /\ v.stray = w.stray
      BY <1>1, <1>5, <2>1, <2>5, MakeAgrees DEF BusInv
    <3>2. w.table \subseteq v.table
      BY <2>5, Zenon DEF Makes
    <3>3. freed = {}
      BY <2>2, <3>2, NoneFreed
    <3>4. QED
      BY <2>1, <3>1, <3>3
  <2>6. CASE t.obj \in DOMAIN w.objs /\ Quits(w, v, t.obj, e)
    <3>1. PICK u : Like(w, u) /\ v = Delete(u, t.obj)
      BY <2>6 DEF Quits
    <3>2. t.obj # Manager
      BY <2>1, <2>6 DEF ListsAgree, Manager
    <3>3. v.stray = w.stray /\ v.table = {x \in mgr.table : x.obj # t.obj}
      BY <1>1, <3>1 DEF Like, Same, Delete, Fields
    <3>4. ListsAgree(v.table, v.insts, v.objs, v.made)
      BY <2>1, <3>1, <3>2, QuitAgrees
    <3>5. MayQuit(mgr.objs[t.obj].kind, e.ev)
      BY <1>1, <2>6 DEF Quits
    <3>6. freed \subseteq Excused
      BY <1>1, <1>2, <2>1, <3>2, <3>3, <3>5, QuitFrees
    <3>7. QED
      BY <2>1, <3>3, <3>4, <3>6
  <2>7. CASE t.obj \notin DOMAIN w.objs /\ t.obj # Manager
    BY <1>1, <1>2, <2>1, <2>7 DEF ListsAgree, Living
  <2>8. QED
    BY <1>1, <1>3, <2>4, <2>5, <2>6, <2>7, CallbackWorks
<1>6. QED
  BY <1>4, <1>5

LEMMA InitAgrees == Init => Agreed
<1> SUFFICES ASSUME Init PROVE Agreed
  OBVIOUS
<1>1. /\ mgr.table = ManagerEntries /\ mgr.objs = <<>> /\ mgr.insts = {} /\ mgr.made = 0
      /\ mgr.stray = {}
  BY DEF Init
<1>2. \A t \in mgr.table : t.obj = Manager
  BY <1>1 DEF ManagerEntries, EntriesOf
<1>3. {t.obj : t \in mgr.table} = {Manager}
  <2>1. 1 \in DOMAIN ManagerEvents
    BY DEF ManagerEvents
  <2>2. \E t \in mgr.table : t.obj = Manager
    BY <1>1, <2>1 DEF ManagerEntries, EntriesOf
  <2>3. QED
    BY <1>2, <2>2
<1>4. DOMAIN mgr.objs = {} /\ {r.obj : r \in mgr.insts} = {}
  BY <1>1
<1>5. ListsAgree(mgr.table, mgr.insts, mgr.objs, mgr.made)
  BY <1>1, <1>2, <1>3, <1>4 DEF ListsAgree, FinalLast
<1>6. QED
  BY <1>1, <1>5 DEF Agreed

LEMMA AgreedStep ==
    ASSUME BusInv, Agreed, [Next]_vars
    PROVE  Agreed'
<1>1. CASE mgr' = mgr
  BY <1>1 DEF Agreed, GaveUp
<1>2. ASSUME worker.pc = "walk", NEW t, NEW e, NEW v, Walks(t, e, v)
      PROVE  Agreed'
  BY <1>2, WalkAgrees
<1>3. CASE ProcessEvt
  BY <1>1, <1>2, <1>3, WalkSteps
<1>4. QED
  BY <1>1, <1>3, Steps DEF Process_lock, Process_take

\* The lists of the manager, of the dispatcher and of the heap agree, and what a living
\* object is registered for ends with the event at which it deletes itself.
THEOREM ListsInvariant == Spec => []Agreed
<1>1. Init => Agreed
  BY InitAgrees
<1>2. BusInv /\ Agreed /\ [Next]_vars => Agreed'
  BY AgreedStep
<1>3. QED
  BY <1>1, <1>2, BusInvariant, PTL DEF Spec

\* No listener is called and no registration read after it was freed, except where the
\* code does not keep this (see NoFreed).
THEOREM FreedAreLeft == Spec => []NoFreed
<1>1. Agreed => NoFreed
  BY DEF Agreed, NoFreed, Excused
<1>2. QED
  BY <1>1, ListsInvariant, PTL

\* An interface never has two objects, and the three lists name the same objects, unless
\* the third access point has given up.
THEOREM OneObjectEach == Spec => []OneInstance
<1>1. Agreed => OneInstance
  BY DEF Agreed, OneInstance, ListsAgree
<1>2. QED
  BY <1>1, ListsInvariant, PTL
=============================================================================
