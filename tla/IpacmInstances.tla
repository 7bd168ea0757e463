--------------------------- MODULE IpacmInstances ---------------------------
(* The objects IPACM makes for interfaces, and how they come and go:        *)
(* IPACM_IfaceManager, the registrations of IPACM_EvtDispatcher, and those  *)
(* handlers of IPACM_Lan, IPACM_Wlan and IPACM_Wan that post events or      *)
(* delete their object (the rest of the handlers: IpacmTether, IpacmWan).   *)
(* An operator takes the state w of the event thread and returns the next:  *)
(*   cat, known  category and kernel index of each row of iface_table       *)
(*   objs        the living objects                                         *)
(*   table       the dispatcher's list: entries, each with its place n      *)
(*   insts       the manager's list; ap: num_wlan_ap_iface                  *)
(*   int, ext    the two queues; net, file: the kernel and the cfg file     *)
(*   stray       calls and list reads that met freed memory, and an object  *)
(*               that freed itself before it was registered                 *)
EXTENDS Naturals, Sequences, FiniteSetsExt, TLC

CONSTANTS OduEnable, OduRouter, OduEmbms   \* IPACM_Config

Manager == 0   \* the IPACM_IfaceManager object

Internal == {"LAN_DELETE_SELF"}

PostEvt(w, e) ==
  IF e.ev \in Internal THEN [w EXCEPT !.int = Append(@, e)] ELSE [w EXCEPT !.ext = Append(@, e)]

\* iface_ipa_index_query: the index is looked up by name once and then remembered.
Query(w, e) ==
  IF w.net[e.i].there /\ w.net[e.i].x = e.x THEN [w EXCEPT !.known[e.i] = e.x] ELSE w
Mine(w, e, o) == w.known[e.i] = e.x /\ o.i = e.i

ManagerEvents == <<"CFG_CHANGE", "LINK_UP", "WLAN_AP_LINK_UP", "WLAN_STA_LINK_UP",
                   "BRIDGE_LINK_UP", "USB_LINK_UP", "WAN_EMBMS_LINK_UP">>
Wan4And6 == <<"HANDLE_WAN_UP", "HANDLE_WAN_UP_V6", "HANDLE_WAN_DOWN", "HANDLE_WAN_DOWN_V6">>
Routing == <<"SW_ROUTING_ENABLE", "SW_ROUTING_DISABLE">>

\* Mutant: an object that is deleted has registrations behind LAN_DELETE_SELF.
LanEventsUnordered ==
  <<"LAN_DELETE_SELF", "ADDR_ADD", "NEIGH_ADD", "NEIGH_DEL">> \o Routing \o Wan4And6
  \o <<"CFG_CHANGE", "PRIVATE_SUBNET_CHANGE", "CRADLE_WAN_MODE_SWITCH", "LINK_DOWN">>
\* The order in which an object of each kind is registered for its events.
LanEvents == <<"ADDR_ADD", "NEIGH_ADD", "NEIGH_DEL">> \o Routing \o Wan4And6
             \o <<"CFG_CHANGE", "PRIVATE_SUBNET_CHANGE", "CRADLE_WAN_MODE_SWITCH", "LINK_DOWN",
                  "LAN_DELETE_SELF">>
EthEvents == <<"ADDR_ADD", "NEIGH_ADD">> \o Routing \o Wan4And6
             \o <<"CRADLE_WAN_MODE_SWITCH", "LINK_DOWN", "LAN_DELETE_SELF">>
OduEvents ==
  IF OduRouter
  THEN <<"ADDR_ADD", "NEIGH_ADD", "NEIGH_DEL">> \o Routing \o Wan4And6
       \o <<"CRADLE_WAN_MODE_SWITCH", "LINK_DOWN", "LAN_DELETE_SELF">>
  ELSE <<"ADDR_ADD", "NEIGH_ADD">> \o Routing \o <<"LINK_DOWN", "LAN_DELETE_SELF">>
WlanEventList == <<"ADDR_ADD", "ROUTE_DEL", "DEFAULT_DEL", "WLAN_CLIENT", "NEIGH_ADD">> \o Routing
             \o Wan4And6 \o <<"PRIVATE_SUBNET_CHANGE", "CFG_CHANGE", "CRADLE_WAN_MODE_SWITCH",
                  "WLAN_LINK_DOWN", "WLAN_SWITCH_TO_SCC", "WLAN_SWITCH_TO_MCC", "LAN_DELETE_SELF">>
UplinkEvents(kind) ==
  <<"ADDR_ADD", "ROUTE_ADD", "ROUTE_DEL", "DEFAULT_ADD", "DEFAULT_DEL", "FIREWALL_CHANGE",
    "NEIGH_ADD">> \o Routing \o <<"CFG_CHANGE", "WAN_XLAT_CONNECT">>
  \o (IF kind = "sta" THEN <<"WLAN_LINK_DOWN", "WLAN_SWITCH_TO_SCC", "WLAN_SWITCH_TO_MCC">>
      ELSE <<"LINK_DOWN">>)

Subscriptions(kind) ==
  CASE kind = "lan" -> LanEvents
    [] kind = "eth" -> EthEvents
    [] kind = "odu" -> OduEvents
    [] kind = "wlan" -> WlanEventList
    [] kind = "embms" -> <<"LINK_DOWN">>
    [] OTHER -> UplinkEvents(kind)

\* The entries of an object, appended to a list that ends at place n.
EntriesOf(evs, kind, id, n) ==
  {[n |-> n + k, ev |-> evs[k], obj |-> id, kind |-> kind] : k \in DOMAIN evs}
Entries(kind, id, n) == EntriesOf(Subscriptions(kind), kind, id, n)
ManagerEntries == EntriesOf(ManagerEvents, "manager", Manager, 0)
End(table) == Max({0} \cup {t.n : t \in table})

\* IPACM_EvtDispatcher::registr and IPACM_IfaceManager::registr.
Registr(w, kind, i, id) ==
  [w EXCEPT !.table = @ \cup Entries(kind, id, End(@)), !.insts = @ \cup {[i |-> i, obj |-> id]}]

\* The destructors: both lists forget the object.
Delete(w, id) ==
  [w EXCEPT !.table = {t \in @ : t.obj # id},
            !.insts = {r \in @ : r.obj # id},
            !.objs = [o \in DOMAIN @ \ {id} |-> @[o]]]

Plus(objs, id, o) == [x \in DOMAIN objs \cup {id} |-> IF x = id THEN o ELSE objs[x]]

SearchInstance(w, i) == \E r \in w.insts : r.i = i

Stray(what, kind, e) == [what |-> what, kind |-> kind, ev |-> e.ev]

\* IPACM_Wlan::IPACM_Wlan gives up when two access points exist: it deletes its object.
GivesUp(w, kind) == kind = "wlan" /\ w.ap > 1

\* Mutant: the addresses the interface already has are not asked for.
MakeUntold(w, kind, e) ==
  LET id == w.made + 1
      o == [kind |-> kind, i |-> e.i, cate |-> w.cat[e.i], act |-> TRUE, switch |-> FALSE,
            addr |-> FALSE, def |-> FALSE, xlat |-> FALSE]
  IN Registr([w EXCEPT !.made = id, !.objs = Plus(@, id, o)], kind, e.i, id)

\* One object: made, registered, and told of the addresses the interface already has
\* (iface_addr_query; not for eMBMS).
Make(w, kind, e) ==
  LET id == w.made + 1
      o == [kind |-> kind, i |-> e.i, cate |-> w.cat[e.i], act |-> TRUE, switch |-> FALSE,
            addr |-> FALSE, def |-> FALSE, xlat |-> FALSE]
      v == Registr([w EXCEPT !.made = id,
                             !.ap = IF kind = "wlan" /\ ~GivesUp(w, kind) THEN @ + 1 ELSE @,
                             !.objs = IF GivesUp(w, kind) THEN @ ELSE Plus(@, id, o),
                             !.stray = IF GivesUp(w, kind) THEN @ \cup {Stray("object", kind, e)}
                                       ELSE @],
                   kind, e.i, id)
  IN IF kind # "embms" /\ w.net[e.i].addr /\ w.net[e.i].up
     THEN PostEvt(v, [e EXCEPT !.ev = "ADDR_ADD"]) ELSE v

CreateIfaceInstance(w, e, type) ==
  LET cat == w.cat[e.i]
  IN IF SearchInstance(w, e.i) THEN w
     ELSE CASE cat = "lan" -> Make(w, "lan", e)
            [] cat = "eth" -> Make(w, "eth", e)
            [] cat = "odu" -> Make(w, "odu", e)
            [] cat = "wlan" -> Make(w, "wlan", e)
            [] cat = "wan" /\ (~OduEnable \/ OduRouter) -> Make(w, type, e)
            [] cat = "embms" -> Make(w, "embms", e)
            [] OTHER -> w

\* IPACM_IfaceManager::event_callback.  A new configuration forgets the categories that
\* links have given, and the kernel's indexes.
ManagerCallback(w, e) ==
  LET v == Query(w, e)
      cat == v.cat[e.i]
  IN CASE e.ev = "CFG_CHANGE" ->
            [w EXCEPT !.cat = w.file, !.known = [i \in DOMAIN @ |-> 0]]
       [] v.known[e.i] # e.x -> v
       [] e.ev = "LINK_UP" -> IF cat = "wan" THEN CreateIfaceInstance(v, e, "q6") ELSE v
       [] e.ev = "USB_LINK_UP" ->
            CreateIfaceInstance(v, e, IF cat = "wan" THEN "ecm" ELSE "q6")
       [] e.ev = "WLAN_AP_LINK_UP" ->
            IF cat = "unknown"
            THEN CreateIfaceInstance([v EXCEPT !.cat[e.i] = "wlan"], e, "q6") ELSE v
       [] e.ev = "WLAN_STA_LINK_UP" ->
            IF cat = "unknown"
            THEN CreateIfaceInstance([v EXCEPT !.cat[e.i] = "wan"], e, "sta") ELSE v
       [] e.ev = "WAN_EMBMS_LINK_UP" ->
            IF OduEnable /\ OduEmbms /\ cat = "wan"
            THEN CreateIfaceInstance([v EXCEPT !.cat[e.i] = "embms"], e, "q6") ELSE v
       [] OTHER -> v

\* handle_down_evt of a LAN or WLAN object ends with post_del_self_evt.
GoInactive(w, id) ==
  PostEvt([w EXCEPT !.objs[id].act = FALSE],
          [ev |-> "LAN_DELETE_SELF", i |-> w.objs[id].i, x |-> 0])

\* The index of the interface the object stands for, as it is now; 0 when it has gone.
Relink(w, i) ==
  PostEvt(w, [ev |-> "USB_LINK_UP", i |-> i, x |-> IF w.net[i].there THEN w.net[i].x ELSE 0])

LanCallback(w, id, e) ==
  LET o == w.objs[id]
      v == Query(w, e)
  IN CASE ~o.act /\ e.ev # "LAN_DELETE_SELF" -> w
       [] e.ev = "LINK_DOWN" -> IF Mine(v, e, o) THEN GoInactive(v, id) ELSE v
       [] e.ev = "CFG_CHANGE" ->
            IF w.cat[o.i] # o.cate
            THEN GoInactive([w EXCEPT !.objs[id].switch = TRUE], id) ELSE w
       [] e.ev = "LAN_DELETE_SELF" ->
            IF e.i # o.i THEN w
            ELSE Delete(IF o.switch THEN Relink(w, o.i) ELSE w, id)
       [] e.ev = "ADDR_ADD" -> IF Mine(v, e, o) THEN [v EXCEPT !.objs[id].addr = TRUE] ELSE v
       [] OTHER -> w

WlanCallback(w, id, e) ==
  LET o == w.objs[id]
      v == Query(w, e)
  IN CASE ~o.act /\ e.ev # "LAN_DELETE_SELF" -> w
       [] e.ev = "WLAN_LINK_DOWN" ->
            IF Mine(v, e, o) THEN [GoInactive(v, id) EXCEPT !.cat[o.i] = "unknown"] ELSE v
       [] e.ev = "LAN_DELETE_SELF" ->
            IF e.i = o.i THEN Delete([w EXCEPT !.ap = @ - 1], id) ELSE w
       [] e.ev = "ADDR_ADD" -> IF Mine(v, e, o) THEN [v EXCEPT !.objs[id].addr = TRUE] ELSE v
       [] OTHER -> w

\* An uplink deletes itself in the handler.
WanCallback(w, id, e) ==
  LET o == w.objs[id]
      v == Query(w, e)
  IN CASE e.ev = "CFG_CHANGE" ->
            IF o.kind = "ecm" /\ w.cat[o.i] # o.cate THEN Delete(Relink(w, o.i), id) ELSE w
       [] ~Mine(v, e, o) -> v
       [] e.ev = "WLAN_LINK_DOWN" -> Delete([v EXCEPT !.cat[o.i] = "unknown"], id)
       [] e.ev = "LINK_DOWN" -> Delete(v, id)
       [] e.ev = "ADDR_ADD" -> [v EXCEPT !.objs[id].addr = TRUE]
       [] e.ev = "DEFAULT_ADD" -> [v EXCEPT !.objs[id].def = TRUE]
       [] e.ev = "DEFAULT_DEL" -> [v EXCEPT !.objs[id].def = FALSE]
       [] e.ev = "WAN_XLAT_CONNECT" -> [v EXCEPT !.objs[id].xlat = (o.kind = "q6")]
       [] OTHER -> v

Callback(w, t, e) ==
  IF t.obj = Manager THEN ManagerCallback(w, e)
  ELSE IF t.obj \notin DOMAIN w.objs
       THEN [w EXCEPT !.stray = @ \cup {Stray("call", t.kind, e)}]
  ELSE CASE w.objs[t.obj].kind \in {"lan", "eth", "odu"} -> LanCallback(w, t.obj, e)
         [] w.objs[t.obj].kind = "wlan" -> WlanCallback(w, t.obj, e)
         [] OTHER -> WanCallback(w, t.obj, e)
=============================================================================
