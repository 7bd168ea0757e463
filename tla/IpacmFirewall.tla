---------------------------- MODULE IpacmFirewall ----------------------------
(* The filter rules for what comes down an uplink, as IPACM_Wan and           *)
(* IPACM_Iface write them: the table the modem is given, and the rules of a   *)
(* station in the driver.  A rule has the fields of a packet it looks at,     *)
(* with their values, and where it sends a packet: to Linux ("host"), through *)
(* the destination NAT ("nat"), to the tethered clients ("clients"), over the *)
(* bridge ("bridge") or to the outdoor unit ("odu").  The field mux is the    *)
(* uplink, by the meta data of its receive properties.                        *)
EXTENDS Naturals, Sequences, SequencesExt

CONSTANTS
  Firewalls,    \* name of a configuration -> [enable |-> firewall_enable,
                \* accept |-> rule_action_accept, entries |-> sequence of entries]; an entry
                \* is [fam, proto, port], proto "tcpudp" and port "any" being possible
  AlgPorts      \* alg_table: sequence of [proto, port]

Rule(match, to) == [match |-> match, to |-> to]

\* The first rule that a packet fits decides; without one it goes to Linux.
Fits(rule, p) == \A f \in DOMAIN rule.match : p[f] = rule.match[f]
Verdict(rules, p) ==
  LET hit == SelectInSeq(rules, LAMBDA r : Fits(r, p))
  IN  IF hit = 0 THEN "host" ELSE rules[hit].to

(***************************************************************************)
(* The entries of the firewall.                                            *)
(***************************************************************************)
Entries(fw, fam) ==
  IF Firewalls[fw].enable THEN SelectSeq(Firewalls[fw].entries, LAMBDA e : e.fam = fam) ELSE <<>>

\* An entry for TCP and UDP becomes two rules.
Protocols(e) == IF e.proto = "tcpudp" THEN <<"tcp", "udp">> ELSE <<e.proto>>

EntryRule(e, proto, mux, to) ==
  Rule([proto |-> proto, mux |-> mux] @@ (IF e.port = "any" THEN <<>> ELSE [port |-> e.port]), to)

EntryRules(fw, fam, mux, to) ==
  FoldLeft(LAMBDA rules, e :
             rules \o [k \in DOMAIN Protocols(e) |-> EntryRule(e, Protocols(e)[k], mux, to)],
           <<>>, Entries(fw, fam))

\* What the entries are for, and what goes where they do not apply.
EntryAction(fw, pass)   == IF Firewalls[fw].accept THEN pass ELSE "host"
DefaultAction(fw, pass) == IF Firewalls[fw].enable /\ Firewalls[fw].accept THEN "host" ELSE pass

\* Fragments have no ports: with an IPv6 entry that looks at one they are not offloaded.
check_dft_firewall_rules_attr_mask(fw) ==
  \E k \in DOMAIN Firewalls[fw].entries :
    Firewalls[fw].entries[k].fam = "v6" /\ Firewalls[fw].entries[k].port # "any"

NeedsFragmentRule(fw) == Firewalls[fw].enable /\ check_dft_firewall_rules_attr_mask(fw)

(***************************************************************************)
(* The table of the modem.  The default rules come once for all PDNs, and   *)
(* so have no mux.                                                         *)
(***************************************************************************)
DefaultRules_v4 == <<Rule([dst |-> "multicast"], "host"), Rule([dst |-> "broadcast"], "host")>>

DefaultRules_v6 ==
  << Rule([dst |-> "multicast"], "host"), Rule([dst |-> "linklocal"], "host"),
     Rule([dst |-> "sitelocal"], "host"),
     Rule([flag |-> "fin"], "host"), Rule([flag |-> "syn"], "host"), Rule([flag |-> "rst"], "host") >>

add_dft_filtering_rule(fam) == IF fam = "v4" THEN DefaultRules_v4 ELSE DefaultRules_v6

\* The ports of the ALGs, as the source and as the destination, for all PDNs.
IcmpAlgRules_v4(mux) ==
  LET Alg(p, field) == Rule([proto |-> p.proto] @@ (field :> p.port), "host")
  IN  <<Rule([proto |-> "icmp", mux |-> mux], "host")>>
      \o [k \in DOMAIN AlgPorts |-> Alg(AlgPorts[k], "sport")]
      \o [k \in DOMAIN AlgPorts |-> Alg(AlgPorts[k], "port")]

IcmpAlgRules_v6(mux) == <<Rule([proto |-> "icmp", mux |-> mux], "host")>>

add_icmp_alg_rules(fam, mux) ==
  IF fam = "v4" THEN IcmpAlgRules_v4(mux) ELSE IcmpAlgRules_v6(mux)

ModemFragmentRule(fw, mux) ==
  IF NeedsFragmentRule(fw) THEN <<Rule([frag |-> TRUE, mux |-> mux], "host")>> ELSE <<>>

ModemEntries_v4(fw, mux) == EntryRules(fw, "v4", mux, EntryAction(fw, "nat"))
ModemEntries_v6(fw, mux) == EntryRules(fw, "v6", mux, EntryAction(fw, "clients"))

\* In bridge mode everything goes to Linux, unless the firewall is on.
ModemDefault_v4(fw, mux, bridge) ==
  <<Rule([mux |-> mux], IF bridge /\ ~Firewalls[fw].enable THEN "host"
                        ELSE DefaultAction(fw, "nat"))>>
ModemDefault_v6(fw, mux) == <<Rule([mux |-> mux], DefaultAction(fw, "clients"))>>

\* Mutant: the entries come after the default.
config_dft_firewall_rules_ex_late(fw, fam, mux, bridge) ==
  IF fam = "v4" THEN ModemDefault_v4(fw, mux, bridge) \o ModemEntries_v4(fw, mux)
  ELSE ModemFragmentRule(fw, mux) \o ModemDefault_v6(fw, mux) \o ModemEntries_v6(fw, mux)

config_dft_firewall_rules_ex(fw, fam, mux, bridge) ==
  IF fam = "v4" THEN ModemEntries_v4(fw, mux) \o ModemDefault_v4(fw, mux, bridge)
  ELSE ModemFragmentRule(fw, mux) \o ModemEntries_v6(fw, mux) \o ModemDefault_v6(fw, mux)

\* The rule on top while eMBMS is on has the meta data of whoever installs the table; so
\* has the only rule of software routing.
config_dft_embms_rules(mux) == <<Rule([mux |-> mux], "odu")>>
SoftwareRoutingRule(mux)    == <<Rule([mux |-> mux], "host")>>

(***************************************************************************)
(* The rules of a station, on a pipe of its own.                           *)
(***************************************************************************)
IfaceRules_v4 ==
  << Rule([frag |-> TRUE], "host"), Rule([dst |-> "multicast"], "host"),
     Rule([dst |-> "broadcast"], "host") >>

IfaceRules_v6 ==
  << Rule([dst |-> "multicast"], "host"), Rule([dst |-> "linklocal"], "host"),
     Rule([dst |-> "sitelocal"], "host"),
     Rule([flag |-> "fin"], "host"), Rule([flag |-> "syn"], "host"), Rule([flag |-> "rst"], "host") >>

StationPass_v4(bridge) == IF bridge THEN "bridge" ELSE "nat"

StationEntries_v4(fw, mux, bridge) ==
  EntryRules(fw, "v4", mux, EntryAction(fw, StationPass_v4(bridge)))
StationEntries_v6(fw, mux) == EntryRules(fw, "v6", mux, EntryAction(fw, "clients"))

StationDefault_v4(fw, bridge) == <<Rule(<<>>, DefaultAction(fw, StationPass_v4(bridge)))>>

\* ICMP comes after the entries.
StationDefault_v6(fw) ==
  << Rule([proto |-> "icmp"], "host"), Rule(<<>>, DefaultAction(fw, "clients")) >>

StationRules(fw, fam, mux, bridge) ==
  IF fam = "v4" THEN StationEntries_v4(fw, mux, bridge) \o StationDefault_v4(fw, bridge)
  ELSE StationEntries_v6(fw, mux) \o StationDefault_v6(fw)

OwnAddressRule(a) == <<Rule([addr |-> a], "host")>>
=============================================================================
