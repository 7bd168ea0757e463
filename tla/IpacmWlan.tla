----------------------------- MODULE IpacmWlan ------------------------------
(* IPACM_Wlan: the interface object of a WLAN access point.  It is an       *)
(* IPACM_Lan with a client table of its own, whose clients may sleep.      *)
(*   w.i.ap     wlan_ap_index                                              *)
(*   w.i.guest  m_is_guest_ap                                              *)
(*   w.cfg.mode the channel mode ("scc" or "mcc": isMCC_Mode)              *)
(*   w.total    total_num_wifi_clients, over all access points             *)
EXTENDS IpacmLan

get_wlan_client_index(i, mac) == get_eth_client_index(i, mac)
delete_default_qos_rtrules(w, n, fam) == delete_eth_rtrules(w, n, fam)

WlanHeader_v4(w) == AddHeader(w, "chdr4")
WlanHeader_v6(w) == AddHeader(w, "chdr6")

\* The entry is filled in only when both headers are there.
NewWlanClient(w, mac, h4, h6) ==
  [w EXCEPT !.i.cl = Append(@, NewClient(mac, h4, h6)), !.total = @ + 1]

\* No look-up: a client that is announced twice gets two entries.
handle_wlan_client_init_ex(w, mac) ==
  LET a == WlanHeader_v4(w)
      b == WlanHeader_v6(a)
  IN  IF Len(w.i.cl) >= MaxClients \/ w.total >= MaxClients THEN [w EXCEPT !.ok = FALSE]
      ELSE IF ~a.ok THEN a
      ELSE IF ~b.ok THEN b
      ELSE NewWlanClient(b, mac, a.new, b.new)

handle_wlan_client_ipaddr(w, n, fam, a) == handle_eth_client_ipaddr(w, n, fam, a)

WlanClientRoutes(w, n, fam) == AddClientRoutes(w, n, fam)

\* A sleeping client gets no routes.
handle_wlan_client_route_rule(w, n, fam) ==
  IF n # 0 /\ ~w.i.cl[n].ps /\ LacksRoute(w.i.cl[n], fam)
  THEN WlanClientRoutes(w, n, fam)
  ELSE [w EXCEPT !.ok = TRUE]

handle_wlan_client_pwrsave(w, n) ==
  IF n = 0 \/ w.i.cl[n].ps THEN w
  ELSE LET c == w.i.cl[n]
           r == delete_default_qos_rtrules(delete_default_qos_rtrules(
                  w, n, "v4"), n, "v6")
       IN  [r EXCEPT !.i.cl[n].ps = TRUE,
                     !.psif = IF c.v4 = 0 THEN @ ELSE @ \cup {c.v4}]

\* IPA_WLAN_CLIENT_RECOVER_EVENT.
WlanClientRecover(w, n) ==
  LET c == w.i.cl[n]
      up == [w EXCEPT !.i.cl[n].ps = FALSE]
      four == IF c.v4 = 0 THEN up
              ELSE [handle_wlan_client_route_rule(up, n, "v4")
                      EXCEPT !.psif = @ \ {c.v4}]
  IN  IF n = 0 \/ ~c.ps THEN w
      ELSE IF c.v6 = <<>> THEN four
      ELSE handle_wlan_client_route_rule(four, n, "v6")

handle_wlan_client_down_evt(w, n) ==
  IF n = 0 THEN [w EXCEPT !.ok = TRUE]
  ELSE [RemoveClient(w, n) EXCEPT !.i.cl = RemoveAt(@, n), !.total = @ - 1]

handle_wlan_client_reset_rt(w, fam) == handle_lan_client_reset_rt(w, fam)

OfClients(w, Moved(_)) == [w EXCEPT !.i.cl = [n \in DOMAIN @ |-> Moved(@[n])]]

\* The routes are moved to the pipe of the new mode.
SwitchRoutes_v4(w) ==
  OfClients(w, LAMBDA c : IF c.ps \/ ~c.r4 THEN c ELSE [c EXCEPT !.m4 = w.cfg.mode])

\* For IPv6 the loop runs over the addresses that have no route yet, of the
\* clients that have none.
SwitchRoutes_v6(w) ==
  OfClients(w, LAMBDA c :
    IF c.ps \/ c.n6 < Len(c.v6) THEN c
    ELSE [c EXCEPT !.m6 = [j \in 1 .. MaxV6 |->
            IF j \in c.n6 + 1 .. Len(c.v6) THEN w.cfg.mode ELSE @[j]]])

\* Mutant: the routes of those that have one are left.
handle_SCC_MCC_switchLacking(w, fam) ==
  IF fam = "v6" THEN SwitchRoutes_v6(w)
  ELSE OfClients(w, LAMBDA c : IF c.ps \/ c.r4 THEN c ELSE [c EXCEPT !.m4 = w.cfg.mode])

handle_SCC_MCC_switch(w, fam) ==
  IF fam = "v4" THEN SwitchRoutes_v4(w) ELSE SwitchRoutes_v6(w)

\* The interface is announced anew to IPACM_LanToLan, with all its clients.
eth_bridge_handle_wlan_mode_switch(w) ==
  [w EXCEPT !.told = (IF HasV4(w.i) THEN {"v4"} ELSE {})
                     \cup (IF HasV6(w.i) THEN {"v6"} ELSE {})
                     \cup {w.i.cl[n].mac : n \in DOMAIN w.i.cl}]

\* The label "fail" of the handler: clients, software routing and the rx pipe, as in IPACM_Lan.
WlanFinish(w) == Finish(w)

\* As in IPACM_Lan, without the ODU and without the dependency of the tx pipe;
\* IPA_WLAN_LINK_DOWN_EVENT then takes the clients off the common count.
WlanDown(w) ==
  LET r == OwnRulesDown(UplinksDown(w))
      x == IF w.i.ip = "null" THEN WlanFinish(w)
           ELSE IF ~r.ok THEN WlanFinish(r)
           ELSE WlanFinish(PeersTold(r))
  IN  [x EXCEPT !.total = @ - Len(w.i.cl)]
=============================================================================
