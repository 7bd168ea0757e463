------------------------------- MODULE NatApp -------------------------------
(***************************************************************************)
(* The cache of NAT entries of the IPA connection manager                  *)
(* (ipacm/src/IPACM_Conntrack_NATApp.cpp) and the rules it keeps in the    *)
(* hardware table.                                                         *)
(*                                                                         *)
(* The whole object is one record, and each of its methods is an operator  *)
(* that yields the set of records the method may leave behind: the driver  *)
(* may fail, and chooses the handles.  ConntrackListener makes actions of  *)
(* them.                                                                   *)
(*                                                                         *)
(* A connection is known by its name and by the private address of its     *)
(* entry, which is the public one for the dummy entries of connections     *)
(* that are not offloaded: these two stand for the five fields that are    *)
(* compared everywhere.  Only what is in the table of the driver is        *)
(* modelled of it: `hw` maps each handle to the entry it was given for.    *)
(***************************************************************************)
EXTENDS Naturals, FiniteSets, FiniteSetsExt, Functions

CONSTANTS Flows,         \* connections
          MaxEntries,    \* entries of the cache and of the table
          MaxPwr,        \* entries of PwrSaveIfs that can be used
          Scenes         \* what the network and the driver may be like

VARIABLE scene           \* which of Scenes it is

Clients == scene.clients     \* private addresses
PubIps == scene.pubIps       \* addresses the WAN may have
Target == scene.target       \* peer of each connection
AlgFlows == scene.algFlows   \* connections that use an ALG port
MaxTemp == scene.maxTemp     \* MAX_TEMP_ENTRIES
Failing == scene.failing     \* calls of the driver that may fail

Targets == {Target[f] : f \in Flows}

NoIp == "0.0.0.0"
NoFlow == "no flow"
\* An address that was never given a value may look like any.
Junk == "junk"

ASSUME NatAppAssumption ==
    /\ MaxEntries \in Nat
    /\ MaxPwr \in Nat
    /\ NoFlow \notin Flows
    /\ \A s \in Scenes :
          /\ {NoIp, Junk} \cap (s.clients \cup s.pubIps) = {}
          /\ s.clients \cap s.pubIps = {}
          /\ s.algFlows \subseteq Flows
          /\ DOMAIN s.target = Flows
          /\ s.maxTemp \in Nat
          /\ s.failing \subseteq {"table", "untable", "add", "del"}

WanIps == PubIps \cup {NoIp, Junk}
Addresses == Clients \cup WanIps

\* A zeroed entry.
Free == [flow |-> NoFlow, ip |-> NoIp, public_ip |-> NoIp, enabled |-> FALSE, hdl |-> 0]
NoTemp == [flow |-> NoFlow, ip |-> NoIp, public_ip |-> NoIp]
NoRule == [flow |-> NoFlow, ip |-> NoIp]

Slots == 1 .. MaxEntries
Handles == 1 .. MaxEntries
Waiting == 1 .. MaxTemp

NatInit == [cache |-> [i \in Slots |-> Free],
            temp |-> [k \in Waiting |-> NoTemp],
            pub_ip_addr |-> NoIp,       \* and nat_table_hdl: 0 with NoIp
            pub_ip_addr_pre |-> NoIp,
            PwrSaveIfs |-> {},
            hw |-> [h \in Handles |-> NoRule]]

Same(e, r) == e.flow = r.flow /\ e.ip = r.ip
Rule(e) == [flow |-> e.flow, ip |-> e.ip]

ChkForDup(n, r) == \E i \in Slots : Same(n.cache[i], r)

IsFull(n) == \A i \in Slots : n.cache[i].flow # NoFlow
FirstFree(n) == Min({i \in Slots : n.cache[i].flow = NoFlow})

-----------------------------------------------------------------------------
(* The driver.                                                              *)

Enabled(n, ip) == {i \in Slots : n.cache[i].ip = ip /\ n.cache[i].enabled}
Disabled(n) == [i \in Slots |-> [n.cache[i] EXCEPT !.enabled = FALSE]]

Unused(n) == {h \in Handles : n.hw[h] = NoRule}

\* Put entry e into the table and into slot i of the cache, or fail.
AddRule(n, i, e) ==
    LET failed == n.pub_ip_addr = NoIp \/ Unused(n) = {} \/ "add" \in Failing IN
    {[n EXCEPT !.cache[i] = [e EXCEPT !.enabled = TRUE, !.hdl = h],
               !.hw[h] = Rule(e)] : h \in IF n.pub_ip_addr = NoIp THEN {} ELSE Unused(n)}
    \cup (IF failed THEN {n} ELSE {})

\* Take the rule of handle h out of the table, after which the cache is
\* that of done, or fail.
DelRule(n, h, done, failed) ==
    IF n.pub_ip_addr = NoIp \/ h = 0 THEN {failed}
    ELSE {[done EXCEPT !.hw[h] = NoRule]}
         \cup (IF "del" \in Failing THEN {failed} ELSE {})

\* A loop that puts the entries in slots S into the table, each with a handle of
\* its own.  One that cannot be added, as all handles are taken by those before
\* it, or the driver fails, is dropped.
PutBack(n, S) ==
    LET Fits(A) == "add" \in Failing \/ \A i \in S \ A :
                       Cardinality(Unused(n)) <= Cardinality({j \in A : j < i})
        added == IF n.pub_ip_addr = NoIp THEN {{}} ELSE {A \in SUBSET S : Fits(A)}
        Put(A, g) ==
            [n EXCEPT
               !.cache = [i \in Slots |->
                   IF i \in A THEN [n.cache[i] EXCEPT !.enabled = TRUE, !.hdl = g[i]]
                   ELSE IF i \in S THEN Free ELSE n.cache[i]],
               !.hw = [h \in Handles |->
                   IF \E i \in A : g[i] = h THEN Rule(n.cache[CHOOSE i \in A : g[i] = h])
                   ELSE n.hw[h]]]
    IN UNION {{Put(A, g) : g \in Injection(A, Unused(n))} : A \in added}

\* A loop that takes the entries in slots S out of the table; those that are out
\* become what left says.
TakeOut(n, S, left) ==
    LET can == {i \in S : n.pub_ip_addr # NoIp /\ n.cache[i].hdl # 0}
        Out(gone) ==
            [n EXCEPT !.cache = [i \in Slots |-> IF i \in gone THEN left[i] ELSE n.cache[i]],
                      !.hw = [h \in Handles |-> IF \E i \in gone : n.cache[i].hdl = h
                                                 THEN NoRule ELSE n.hw[h]]]
    IN {Out(gone) : gone \in IF "del" \in Failing THEN SUBSET can ELSE {can}}

-----------------------------------------------------------------------------
(* The table.                                                               *)

\* No rule of the table has been added yet, and the driver keeps one table.
AddTable(n, pub) ==
    LET up == [n EXCEPT !.pub_ip_addr = pub]
    IN (IF pub = n.pub_ip_addr_pre
        THEN PutBack(up, {i \in Slots : n.cache[i].flow # NoFlow}) ELSE {up})
       \cup (IF "table" \in Failing THEN {n} ELSE {})

\* Of another address, or when the driver refuses, the table stays as it is.
DeleteTable(n, pub) ==
    IF n.pub_ip_addr = NoIp \/ n.pub_ip_addr # pub THEN {n}
    ELSE {[n EXCEPT !.pub_ip_addr_pre = pub,
                    !.pub_ip_addr = NoIp,
                    !.cache = Disabled(n),
                    !.hw = [h \in Handles |-> NoRule]]}
         \cup (IF "untable" \in Failing THEN {n} ELSE {})

-----------------------------------------------------------------------------
(* Entries.                                                                 *)

\* When the entry cannot be taken out of the table it is forgotten all the
\* same.
DeleteEntry(n, r) ==
    IF ~ChkForDup(n, r) THEN {n}
    ELSE LET i == Min({i \in Slots : Same(n.cache[i], r)})
             done == [n EXCEPT !.cache[i] = Free]
         IN IF n.cache[i].enabled THEN DelRule(n, n.cache[i].hdl, done, done)
            ELSE {done}

\* The public address of the entry is not kept.
AddEntry(n, r) ==
    IF \/ n.pub_ip_addr = NoIp
       \/ r.flow \in AlgFlows
       \/ r.ip = NoIp
       \/ ChkForDup(n, r)
       \/ IsFull(n)
    THEN {n}
    ELSE LET i == FirstFree(n)
             e == [Free EXCEPT !.flow = r.flow, !.ip = r.ip]
         IN IF {r.ip, Target[r.flow]} \cap n.PwrSaveIfs # {} THEN {[n EXCEPT !.cache[i] = e]}
            ELSE AddRule(n, i, e)

\* An entry that waits for the WAN to come up.
CacheEntry(n, r) ==
    IF r.ip = NoIp \/ ChkForDup(n, r) \/ IsFull(n) THEN {n}
    ELSE {[n EXCEPT !.cache[FirstFree(n)] =
              [Free EXCEPT !.flow = r.flow, !.ip = r.ip, !.public_ip = r.public_ip]]}

-----------------------------------------------------------------------------
(* Entries that wait for their client.                                      *)

AddTempEntry(n, r) ==
    LET holes == {k \in Waiting : n.temp[k].flow = NoFlow} IN
    IF \/ r.flow \in AlgFlows
       \/ ChkForDup(n, r)
       \/ \E k \in Waiting : Same(n.temp[k], r)
       \/ holes = {}
    THEN {n}
    ELSE {[n EXCEPT !.temp[Min(holes)] = r]}

DeleteTempEntry(n, r) ==
    LET found == {k \in Waiting : Same(n.temp[k], r)} IN
    IF found = {} THEN {n} ELSE {[n EXCEPT !.temp[Min(found)] = NoTemp]}

\* One entry: of another public address it is dropped, and when it cannot be
\* added it stays, its private address already replaced if it is to be a dummy.
FlushTempEntry(n, k, ip, isAdd, isDummy) ==
    LET t == n.temp[k]
        r == IF isDummy THEN [t EXCEPT !.ip = t.public_ip] ELSE t
        gone == [n EXCEPT !.temp[k] = NoTemp]
    IN IF t.flow = NoFlow \/ (t.ip # ip /\ Target[t.flow] # ip) THEN {n}
       ELSE IF ~isAdd \/ t.public_ip # n.pub_ip_addr THEN {gone}
       ELSE {IF m = n THEN [n EXCEPT !.temp[k] = r] ELSE [m EXCEPT !.temp[k] = NoTemp] :
             m \in AddEntry(n, r)}

FlushTempEntries(n, ip, isAdd, isDummy) ==
    LET after[k \in 0 .. MaxTemp] ==
            IF k = 0 THEN {n}
            ELSE UNION {FlushTempEntry(m, k, ip, isAdd, isDummy) : m \in after[k - 1]}
    IN after[MaxTemp]

-----------------------------------------------------------------------------
(* Clients.                                                                 *)

\* With all of PwrSaveIfs in use the client is not remembered.
UpdatePwrSaveIf(n, ip) ==
    LET known == IF Cardinality(n.PwrSaveIfs) < MaxPwr THEN n.PwrSaveIfs \cup {ip}
                 ELSE n.PwrSaveIfs
    IN IF ip \in n.PwrSaveIfs THEN {n}
       ELSE TakeOut([n EXCEPT !.PwrSaveIfs = known], Enabled(n, ip),
                    [i \in Slots |-> [n.cache[i] EXCEPT !.enabled = FALSE, !.hdl = 0]])

ResetPwrSaveIf(n, ip) ==
    PutBack([n EXCEPT !.PwrSaveIfs = @ \ {ip}],
            {i \in Slots : n.cache[i].ip = ip /\ ~n.cache[i].enabled})

DelEntriesOnClntDiscon_noted(n, ip) ==
    {[n EXCEPT !.PwrSaveIfs = @ \ {ip},
               !.cache = [i \in Slots |-> IF n.cache[i].ip = ip THEN Disabled(n)[i]
                                          ELSE n.cache[i]]]}

\* The entries stay in the cache.
DelEntriesOnClntDiscon(n, ip) ==
    TakeOut([n EXCEPT !.PwrSaveIfs = @ \ {ip}], Enabled(n, ip), Disabled(n))

DelEntriesOnSTAClntDiscon(n, ip) ==
    LET its == {i \in Slots : n.cache[i].flow # NoFlow /\ Target[n.cache[i].flow] = ip}
        on == {i \in its : n.cache[i].enabled}
        off == [i \in Slots |-> IF i \in its \ on THEN Free ELSE n.cache[i]]
    IN TakeOut([n EXCEPT !.cache = off], on, [i \in Slots |-> Free])

-----------------------------------------------------------------------------
(* What can be said of a NatApp.                                            *)

\* The entries marked as enabled and the rules in the table are the same.
InStep(n) ==
    /\ \A i \in Slots : n.cache[i].enabled =>
          n.cache[i].hdl # 0 /\ n.hw[n.cache[i].hdl] = Rule(n.cache[i])
    /\ \A h \in Handles : n.hw[h] # NoRule =>
          \E i \in Slots : n.cache[i].enabled /\ n.cache[i].hdl = h
    /\ \A i, j \in Slots :
          n.cache[i].enabled /\ n.cache[j].enabled /\ n.cache[i].hdl = n.cache[j].hdl => i = j
=============================================================================
