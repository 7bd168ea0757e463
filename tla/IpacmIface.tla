----------------------------- MODULE IpacmIface -----------------------------
(* IPACM_Iface: what every interface object of IPACM keeps and does.       *)
(* w.i is the object:                                                      *)
(*   ip    the families it has addresses of ("null", "v4", "v6", "max")    *)
(*   v6    its own IPv6 addresses (ipv6_addr, num_dft_rt_v6 of them)       *)
(*   sw    softwarerouting_act                                             *)
(*   h     its handle fields, one per kind of entry                        *)
EXTENDS IpacmTables

HasV4(i) == i.ip \in {"v4", "max"}
HasV6(i) == i.ip \in {"v6", "max"}

config_ip_type(w, fam) ==
  [w EXCEPT !.i.ip = IF @ \in {"null", fam} THEN fam ELSE "max"]

\* Add one entry and keep its handle in the field of that kind.
Filter(w, k) ==
  LET r == AddFilteringRule(w, k)
  IN  [r EXCEPT !.i.h[k] = IF r.ok THEN r.new ELSE @]
Route(w, k) ==
  LET r == AddRoutingRule(w, k)
  IN  [r EXCEPT !.i.h[k] = IF r.ok THEN r.new ELSE @]
Header(w, k) ==
  LET r == AddHeader(w, k)
  IN  [r EXCEPT !.i.h[k] = IF r.ok THEN r.new ELSE @]

\* Delete what the field holds; the field keeps its value.
Unfilter(w, k) == DeleteFilteringHdls(w, w.i.h[k])
Unroute(w, k)  == DeleteRoutingHdl(w, w.i.h[k])

init_fl_rule(w, fam) ==
  Filter(AddRmDepend(w, w.i.rx), IF fam = "v4" THEN "dft4" ELSE "dft6")

\* One rule of each family, whichever the interface has.
SoftwareRules == <<"sw4", "sw6">>

handle_software_routing_enable(w) ==
  IF w.i.sw THEN [w EXCEPT !.ok = TRUE]
  ELSE LET r == UntilFailure(Filter, w, SoftwareRules)
       IN  [r EXCEPT !.i.sw = r.ok]

handle_software_routing_disable(w) ==
  IF ~w.i.sw THEN [w EXCEPT !.ok = TRUE]
  ELSE LET r == UntilFailure(Unfilter, w, SoftwareRules)
       IN  [r EXCEPT !.i.sw = ~r.ok]
============================================================================
