------------------------- MODULE ConntrackListener -------------------------
(***************************************************************************)
(* The conntrack listener of the IPA connection manager                    *)
(* (ipacm/src/IPACM_ConntrackListener.cpp) with the NatApp it drives.      *)
(*                                                                         *)
(* The events come one at a time, on the thread of the command queue: the  *)
(* WAN interface going up and down, clients that appear and leave, power   *)
(* save, and connections that the kernel opens and closes.  From the first *)
(* WAN on the thread that asks for the time stamps of the rules runs too;  *)
(* it takes no lock, and drops the entry of a connection the kernel        *)
(* refuses to update.                                                      *)
(***************************************************************************)
EXTENDS NatApp

CONSTANTS MaxSame,       \* bound: times an address is listed in nonNat
          MaxSta         \* MAX_STA_CLNT_IFACES

NatClients == scene.natClients      \* clients of the interfaces that are NATed
DeviceFlows == scene.deviceFlows    \* connections of the device itself
StaTargets == scene.staTargets      \* peers in the subnet of the station interface
MayWanDown == scene.mayWanDown      \* the WAN interface can go down
ThreadStarts == scene.threadStarts  \* what CreateNatThreads can lead to: the time
                                    \* stamp thread runs, or cannot be created

ASSUME ListenerAssumption ==
    /\ MaxSame \in Nat
    /\ MaxSta \in Nat \ {0}
    /\ \A s \in Scenes :
          /\ s.natClients \subseteq s.clients
          /\ s.deviceFlows \subseteq Flows
          /\ s.mayWanDown \in BOOLEAN
          /\ s.threadStarts \in (SUBSET BOOLEAN) \ {{}}

VARIABLES nat,           \* the NatApp
          WanUp, wan_ipaddr, isStaMode,
          natIfs,        \* nat_iface_ipv4_addr
          nonNat,        \* nonnat_iface_ipv4_addr: how often each address is in it
          sta,           \* sta_clnt_ipv4_addr
          saving,        \* WLAN clients with power_save_set
          open,          \* for each connection its private and its public address
          isNatThreadStart,
          udp            \* the time stamp thread

wan == <<WanUp, wan_ipaddr, isStaMode>>
thread == <<isNatThreadStart, udp>>
vars == <<nat, wan, natIfs, nonNat, sta, saving, open, thread, scene>>

Closed == [ip |-> NoIp, pub |-> NoIp]
Idle == [pc |-> "idle", slot |-> 0, hdl |-> 0]
StaClntCnt == Cardinality({k \in 1 .. MaxSta : sta[k] # NoIp})

\* The constructor gives wan_ipaddr and isStaMode no value.
Init ==
    /\ scene \in Scenes
    /\ nat = NatInit
    /\ WanUp = FALSE
    /\ wan_ipaddr \in {NoIp, Junk}
    /\ isStaMode \in BOOLEAN
    /\ natIfs = {}
    /\ nonNat = [c \in Clients |-> 0]
    /\ sta = [k \in 1 .. MaxSta |-> NoIp]
    /\ saving = {}
    /\ open = [f \in Flows |-> Closed]
    /\ isNatThreadStart = FALSE
    /\ udp = Idle

-----------------------------------------------------------------------------
(* The WAN interface.                                                       *)

\* Bound: a table that has outlived its WAN is the last; what the driver makes of a second
\* one is left out.
TriggerWANUp(pub, isSta) ==
    /\ ~WanUp
    /\ nat.pub_ip_addr = NoIp
    /\ WanUp' = TRUE
    /\ wan_ipaddr' = pub
    /\ isStaMode' = isSta
    /\ nat' \in AddTable(nat, pub)
    /\ isNatThreadStart' \in IF isNatThreadStart THEN {TRUE} ELSE ThreadStarts
    /\ UNCHANGED <<natIfs, nonNat, sta, saving, open, udp, scene>>

\* The address comes with the event: it is another one when that of the WAN interface has
\* changed in use.
TriggerWANDown(wan_addr) ==
    /\ MayWanDown
    /\ WanUp
    /\ WanUp' = FALSE
    /\ nat' \in DeleteTable(nat, wan_addr)
    /\ UNCHANGED <<wan_ipaddr, isStaMode, natIfs, nonNat, sta, saving, open, thread, scene>>

-----------------------------------------------------------------------------
(* Clients.                                                                 *)

\* Two methods of n in a row.
Then(ns, Op(_)) == UNION {Op(m) : m \in ns}

HandleNeighIpAddrAddEvt_asleep(c) ==
    /\ c \in NatClients
    /\ natIfs' = natIfs \cup {c}
    /\ nat' \in FlushTempEntries(nat, c, TRUE, FALSE)
    /\ UNCHANGED <<wan, nonNat, sta, saving, open, thread, scene>>

\* The WLAN or LAN interface has an address for one of its clients, perhaps once more.
HandleNeighIpAddrAddEvt(c) ==
    /\ c \in NatClients
    /\ natIfs' = natIfs \cup {c}
    /\ nat' \in Then(ResetPwrSaveIf(nat, c), LAMBDA m : FlushTempEntries(m, c, TRUE, FALSE))
    /\ UNCHANGED <<wan, nonNat, sta, saving, open, thread, scene>>

\* The client is gone.
HandleNeighIpAddrDelEvt(c) ==
    /\ c \in natIfs
    /\ natIfs' = natIfs \ {c}
    /\ saving' = saving \ {c}
    /\ nat' \in Then(FlushTempEntries(nat, c, FALSE, FALSE), LAMBDA m : DelEntriesOnClntDiscon(m, c))
    /\ UNCHANGED <<wan, nonNat, sta, open, thread, scene>>

\* An address of an interface that is not NATed: it may come again, and is
\* then listed again.
HandleNonNatIPAddrAdd(c) ==
    /\ c \in Clients \ NatClients
    /\ ~isStaMode
    /\ nonNat[c] < MaxSame
    /\ nonNat' = [nonNat EXCEPT ![c] = @ + 1]
    /\ nat' \in FlushTempEntries(nat, c, TRUE, TRUE)
    /\ UNCHANGED <<wan, natIfs, sta, saving, open, thread, scene>>

HandleNonNatIPAddrDel(c) ==
    /\ ~isStaMode
    /\ nonNat[c] > 0
    /\ nonNat' = [nonNat EXCEPT ![c] = @ - 1]
    /\ nat' \in Then(FlushTempEntries(nat, c, FALSE, FALSE), LAMBDA m : DelEntriesOnClntDiscon(m, c))
    /\ UNCHANGED <<wan, natIfs, sta, saving, open, thread, scene>>

handle_wlan_client_pwrsave(c) ==
    /\ c \in NatClients \ saving
    /\ saving' = saving \cup {c}
    /\ nat' \in IF c \in natIfs THEN UpdatePwrSaveIf(nat, c) ELSE {nat}
    /\ UNCHANGED <<wan, natIfs, nonNat, sta, open, thread, scene>>

WlanClientRecover(c) ==
    /\ c \in saving
    /\ saving' = saving \ {c}
    /\ nat' \in IF c \in natIfs THEN ResetPwrSaveIf(nat, c) ELSE {nat}
    /\ UNCHANGED <<wan, natIfs, nonNat, sta, open, thread, scene>>

\* The station interface reports each address once; sta keeps its holes.
HandleSTAClientAddEvt(t) ==
    /\ t \in StaTargets
    /\ \A k \in 1 .. MaxSta : sta[k] # t
    /\ IF StaClntCnt = MaxSta THEN UNCHANGED <<sta, nat>>
       ELSE LET k == CHOOSE k \in 1 .. MaxSta :
                         sta[k] = NoIp /\ \A j \in 1 .. (k - 1) : sta[j] # NoIp
            IN /\ sta' = [sta EXCEPT ![k] = t]
               /\ nat' \in FlushTempEntries(nat, t, TRUE, FALSE)
    /\ UNCHANGED <<wan, natIfs, nonNat, saving, open, thread, scene>>

HandleSTAClientDelEvt(t) ==
    /\ t \in StaTargets
    /\ sta' = [k \in 1 .. MaxSta |-> IF sta[k] = t THEN NoIp ELSE sta[k]]
    /\ nat' \in Then(IF sta' = sta THEN {nat} ELSE DelEntriesOnSTAClntDiscon(nat, t),
                     LAMBDA m : FlushTempEntries(m, t, FALSE, FALSE))
    /\ UNCHANGED <<wan, natIfs, nonNat, saving, open, thread, scene>>

-----------------------------------------------------------------------------
(* Connections.                                                             *)

Matches(f, ip, set) == {ip, Target[f]} \cap set # {}
NonNatIfs == {c \in Clients : nonNat[c] > 0}

\* Whether a connection with this private address concerns the NAT at all.
Relevant(f, ip) ==
    \/ ip = wan_ipaddr /\ ~isStaMode
    \/ ip # wan_ipaddr /\ Matches(f, ip, Clients)

EntryIp_kept(f, ip) == ip

\* The private address of its entry: a connection of the device, or of an
\* interface that is not NATed, has a dummy entry.
EntryIp(f, ip) ==
    IF /\ ~Matches(f, ip, natIfs)
       /\ ~isStaMode
       /\ Matches(f, ip, NonNatIfs)
    THEN wan_ipaddr ELSE ip

\* A connection of nobody that is known waits.
AddIface(f, ip) ==
    /\ ip # wan_ipaddr
    /\ ~Matches(f, ip, natIfs)
    /\ isStaMode \/ ~Matches(f, ip, NonNatIfs)

\* So does one to a peer in the subnet of the station interface that is not
\* among its clients.  The subnet is that of the first element of sta, and
\* as many elements are looked at as there are clients.
CheckSTAClient(f) ==
    /\ isStaMode
    /\ sta[1] # NoIp
    /\ Target[f] \in StaTargets
    /\ \A k \in 1 .. StaClntCnt : sta[k] # Target[f]

Entry(f, ip) == [flow |-> f, ip |-> EntryIp(f, ip), public_ip |-> wan_ipaddr]

\* The operation of AddORDeleteNatEntry for a connection that is open.
Established(f, ip) ==
    LET r == Entry(f, ip) IN
    IF ~WanUp THEN CacheEntry(nat, r)
    ELSE IF AddIface(f, ip) \/ CheckSTAClient(f) THEN AddTempEntry(nat, r)
    ELSE AddEntry(nat, r)

Destroyed(f, ip) ==
    LET r == Entry(f, ip) IN Then(DeleteEntry(nat, r), LAMBDA m : DeleteTempEntry(m, r))

\* The kernel has a new connection, or reports one again.
ConnectionUp(f, ip) ==
    /\ IF f \in DeviceFlows THEN WanUp /\ ip = wan_ipaddr ELSE ip \in Clients
    /\ open[f].ip \in {NoIp, ip}
    /\ open' = IF open[f].ip = ip THEN open
               ELSE [open EXCEPT ![f] = [ip |-> ip, pub |-> IF WanUp THEN wan_ipaddr ELSE NoIp]]
    /\ nat' \in IF Relevant(f, ip) THEN Established(f, ip) ELSE {nat}
    /\ UNCHANGED <<wan, natIfs, nonNat, sta, saving, thread, scene>>

ConnectionDown(f) ==
    LET ip == open[f].ip IN
    /\ ip # NoIp
    /\ open' = [open EXCEPT ![f] = Closed]
    /\ nat' \in IF Relevant(f, ip) THEN Destroyed(f, ip) ELSE {nat}
    /\ UNCHANGED <<wan, natIfs, nonNat, sta, saving, thread, scene>>

-----------------------------------------------------------------------------
(* The time stamp thread, when the kernel refuses the update of an entry:   *)
(* DeleteEntry on this thread, interrupted between its steps.               *)

UpdateCTUdpTs(i) ==
    /\ isNatThreadStart
    /\ udp.pc = "idle"
    /\ nat.cache[i].enabled
    /\ nat.cache[i].ip # nat.cache[i].public_ip
    /\ udp' = [pc |-> "rule", slot |-> i, hdl |-> nat.cache[i].hdl]
    /\ UNCHANGED <<nat, wan, natIfs, nonNat, sta, saving, open, isNatThreadStart, scene>>

UdpDeleteRule ==
    /\ udp.pc = "rule"
    /\ udp' = [udp EXCEPT !.pc = "entry"]
    /\ nat' \in DelRule(nat, udp.hdl, nat, nat)
    /\ UNCHANGED <<wan, natIfs, nonNat, sta, saving, open, isNatThreadStart, scene>>

UdpForgetEntry ==
    /\ udp.pc = "entry"
    /\ udp' = Idle
    /\ nat' = [nat EXCEPT !.cache[udp.slot] = Free]
    /\ UNCHANGED <<wan, natIfs, nonNat, sta, saving, open, isNatThreadStart, scene>>

-----------------------------------------------------------------------------
Next ==
    \/ \E pub \in PubIps, isSta \in BOOLEAN : TriggerWANUp(pub, isSta)
    \/ \E pub \in PubIps : TriggerWANDown(pub)
    \/ \E c \in Clients :
          \/ HandleNeighIpAddrAddEvt(c)
          \/ HandleNeighIpAddrDelEvt(c)
          \/ HandleNonNatIPAddrAdd(c)
          \/ HandleNonNatIPAddrDel(c)
          \/ handle_wlan_client_pwrsave(c)
          \/ WlanClientRecover(c)
    \/ \E t \in Targets : HandleSTAClientAddEvt(t) \/ HandleSTAClientDelEvt(t)
    \/ \E f \in Flows :
          \/ \E ip \in Clients \cup PubIps : ConnectionUp(f, ip)
          \/ ConnectionDown(f)
    \/ \E i \in Slots : UpdateCTUdpTs(i)
    \/ UdpDeleteRule
    \/ UdpForgetEntry

Spec == Init /\ [][Next]_vars

-----------------------------------------------------------------------------
(* Properties.                                                              *)

\* Cache and table agree.  The entries marked as enabled and the rules of the
\* hardware table are the same, one to one: no rule is left behind that nobody
\* could delete, and no entry is believed to be in the table that is not.
\* (NatApp changes the two at different places of each of its methods.)  No
\* connection has two entries: DeleteEntry would delete only the first.  No
\* entry of a client in power save is in the table (AddEntry, "Device is Power
\* Save mode: Dont insert into nat table but cache"), unless AddTable put it
\* back after the WAN was down.  The time stamp thread breaks all of it, and so
\* does a driver that refuses to delete a rule, whose handle DeleteEntry then
\* forgets: this is what holds until that thread runs, as long as rules can be
\* deleted.
CacheInStep == ~isNatThreadStart /\ "del" \notin Failing =>
    /\ InStep(nat)
    /\ \A i, j \in Slots :
          nat.cache[i].flow # NoFlow /\ Same(nat.cache[i], nat.cache[j]) => i = j
    /\ ~MayWanDown =>
          \A i \in Slots : nat.cache[i].enabled => nat.cache[i].ip \notin nat.PwrSaveIfs

\* A connection opened while the WAN was up, of a NATed client that is there
\* and awake, has its rule in the hardware table, unless it uses an ALG port:
\* whether the client or the connection came first, and however often the
\* client left or slept in between.  Excepted is a peer in the subnet of the
\* station interface, whose going drops the entry of its connection.  The WAN
\* stays up, the driver accepts, no connection of the device fills the table,
\* the time stamp thread deletes nothing, and no peer is a client: that of an
\* interface that is not NATed would make a dummy of the connection.
Offloaded ==
    /\ ~MayWanDown /\ Failing = {} /\ DeviceFlows = {}
    /\ ~isNatThreadStart
    /\ Targets \cap Clients = {}
    => \A f \in Flows \ AlgFlows :
          /\ Target[f] \notin StaTargets
          /\ open[f].ip \in natIfs \ nat.PwrSaveIfs
          /\ open[f].pub \in PubIps
          /\ WanUp
          => \E h \in Handles : nat.hw[h] = [flow |-> f, ip |-> open[f].ip]

\* AddIface, "on Non Nat iface add dummy rule by copying public ip to private
\* ip": no rule sends packets to a client of an interface that is not NATed;
\* AddTempEntry, "connection using ALG Port. Dont insert into nat cache": nor
\* is there one for a connection that uses an ALG port and was opened while the
\* WAN was up.  Both are lost when the WAN comes back, as AddTable restores
\* whatever was cached meanwhile, and for connections between two clients; the
\* first for peers of the station interface, whose coming flushes the entry that
\* waits as it is; the second when the rule of a closed connection stays behind.
OnlyDummies == ~MayWanDown /\ Targets \cap Clients = {} =>
    /\ StaTargets = {} => \A h \in Handles : nat.hw[h].ip \notin Clients \ NatClients
    /\ ~isNatThreadStart /\ "del" \notin Failing => \A h \in Handles :
          nat.hw[h].flow \in AlgFlows => open[nat.hw[h].flow].pub = NoIp
=============================================================================
