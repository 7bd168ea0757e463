---------------------- MODULE ConntrackListener_proofs ----------------------
(***************************************************************************)
(* Proofs about ConntrackListener and the NatApp it drives, for every set  *)
(* of connections, clients and addresses, tables of every size, and every  *)
(* driver: the cache of NAT entries and the table of the hardware agree    *)
(* (CacheInStep), what kinds of rules the table never has (OnlyDummies),   *)
(* and which connections have a rule (Offloaded).                          *)
(***************************************************************************)
EXTENDS ConntrackListener, FiniteSetTheorems, TLAPS

Names == Flows \cup {NoFlow}
Entries == [flow : Names, ip : Addresses, public_ip : Addresses, enabled : BOOLEAN,
            hdl : 0 .. MaxEntries]
Temps == [flow : Names, ip : Addresses, public_ip : WanIps]
Rules == [flow : Names, ip : Addresses]
Publics == PubIps \cup {NoIp}

Apps == [cache : [Slots -> Entries], temp : [Waiting -> Temps], pub_ip_addr : Publics,
         pub_ip_addr_pre : Publics, PwrSaveIfs : SUBSET Clients, hw : [Handles -> Rules]]

\* The cache and the table agree.
Tidy(n) ==
    /\ InStep(n)
    /\ \A i, j \in Slots : n.cache[i].flow # NoFlow /\ Same(n.cache[i], n.cache[j]) => i = j
    /\ \A i \in Slots : n.cache[i].flow = NoFlow => n.cache[i] = Free
    /\ n.pub_ip_addr = NoIp => \A i \in Slots : ~n.cache[i].enabled

\* No entry of a client in power save is in the table.
Awake(n) == \A i \in Slots : n.cache[i].enabled => n.cache[i].ip \notin n.PwrSaveIfs

\* A method that adds no entry or rule but those of R.
Gains(n, m, R) ==
    /\ \A i \in Slots : Rule(m.cache[i]) \in {Rule(n.cache[i]), NoRule} \cup R
    /\ \A h \in Handles : m.hw[h] \in {n.hw[h], NoRule} \cup R

-----------------------------------------------------------------------------
(* Entries, rules and the records of them.                                 *)

LEMMA Smallest ==
    ASSUME NEW T \in SUBSET Nat, T # {}
    PROVE  \E x \in T : \A y \in T : x <= y
<1>1. PICK x \in T : \A y \in T : <<y, x>> \notin OpToRel(<, Nat)
  BY NatLessThanWellFounded, WFMin
<1>2. \A y \in T : ~(y < x)
  BY <1>1, Zenon DEF OpToRel
<1>3. QED
  BY <1>2

LEMMA Least ==
    ASSUME NEW T \in SUBSET Nat, T # {}
    PROVE  Min(T) \in T
BY Smallest DEF Min

LEMMA Constants ==
    /\ MaxEntries \in Nat /\ Slots \subseteq Nat /\ Handles = Slots /\ 0 \notin Handles
    /\ Handles \subseteq 0 .. MaxEntries /\ 0 \in 0 .. MaxEntries
    /\ NoFlow \notin Flows
BY NatAppAssumption DEF Slots, Handles

LEMMA Zeroes ==
    /\ Free \in Entries /\ Free.flow = NoFlow /\ Free.ip = NoIp /\ Free.enabled = FALSE
    /\ Rule(Free) = NoRule
    /\ NoTemp \in Temps /\ NoTemp.flow = NoFlow
    /\ NoRule \in Rules /\ NoRule.flow = NoFlow /\ NoRule.ip = NoIp
BY Constants DEF Free, NoTemp, NoRule, Entries, Temps, Rules, Names, Addresses, WanIps, Rule

LEMMA RuleOf ==
    ASSUME NEW e \in Entries
    PROVE  /\ Rule(e) \in Rules /\ Rule(e).flow = e.flow /\ Rule(e).ip = e.ip
           /\ e.flow # NoFlow => Rule(e) # NoRule
           /\ \A d \in Entries : Same(e, d) <=> Rule(e) = Rule(d)
BY DEF Rule, Entries, Rules, NoRule, Same

\* What becomes of an entry whose rule goes into the table or out of it.
On(e, h) == [e EXCEPT !.enabled = TRUE, !.hdl = h]
Off(e) == [e EXCEPT !.enabled = FALSE]
Out(e) == [e EXCEPT !.enabled = FALSE, !.hdl = 0]

LEMMA EntryChanged ==
    ASSUME NEW e \in Entries
    PROVE  /\ \A h \in 0 .. MaxEntries : /\ On(e, h) \in Entries
                                         /\ On(e, h).enabled /\ On(e, h).hdl = h
                                         /\ Rule(On(e, h)) = Rule(e)
           /\ Off(e) \in Entries /\ ~Off(e).enabled /\ Rule(Off(e)) = Rule(e)
           /\ Out(e) \in Entries /\ ~Out(e).enabled /\ Rule(Out(e)) = Rule(e)
BY Constants DEF Entries, Rule, On, Off, Out

\* A NatApp with another cache and another table.
Changed(n, c, w) == [n EXCEPT !.cache = c, !.hw = w]

LEMMA AppChanged ==
    ASSUME NEW n \in Apps, NEW c \in [Slots -> Entries], NEW w \in [Handles -> Rules], NEW m,
           m = Changed(n, c, w)
    PROVE  /\ m \in Apps /\ m.cache = c /\ m.hw = w
           /\ m.temp = n.temp /\ m.pub_ip_addr = n.pub_ip_addr
           /\ m.pub_ip_addr_pre = n.pub_ip_addr_pre /\ m.PwrSaveIfs = n.PwrSaveIfs
BY DEF Apps, Changed

\* The fields that most methods leave alone.
SameWan(n, m) ==
    m.pub_ip_addr = n.pub_ip_addr /\ m.pub_ip_addr_pre = n.pub_ip_addr_pre
SameElse(n, m) == SameWan(n, m) /\ m.temp = n.temp /\ m.PwrSaveIfs = n.PwrSaveIfs

-----------------------------------------------------------------------------
(* The loops over the cache.                                               *)

LEMMA PutBackKeeps ==
    ASSUME NEW n \in Apps, NEW S \in SUBSET Slots, NEW m \in PutBack(n, S)
    PROVE  /\ m \in Apps /\ SameElse(n, m)
           /\ (Tidy(n) /\ (\A i \in S : n.cache[i].flow # NoFlow /\ ~n.cache[i].enabled)) => Tidy(m)
           /\ \A i \in Slots : Rule(m.cache[i]) \in {Rule(n.cache[i]), NoRule}
           /\ \A i \in Slots : m.cache[i].enabled =>
                 /\ n.cache[i].enabled \/ i \in S
                 /\ Rule(m.cache[i]) = Rule(n.cache[i])
           /\ \A h \in Handles : \/ m.hw[h] = n.hw[h]
                                 \/ \E i \in S : m.hw[h] = Rule(n.cache[i])
<1> DEFINE Cache(A, g) == [i \in Slots |->
                   IF i \in A THEN On(n.cache[i], g[i])
                   ELSE IF i \in S THEN Free ELSE n.cache[i]]
           Hw(A, g) == [h \in Handles |->
                   IF \E i \in A : g[i] = h THEN Rule(n.cache[CHOOSE i \in A : g[i] = h])
                   ELSE n.hw[h]]
<1>a. PICK A \in SUBSET S :
          /\ \E g \in Injection(A, Unused(n)) : m = Changed(n, Cache(A, g), Hw(A, g))
          /\ n.pub_ip_addr = NoIp => A = {}
  BY DEF PutBack, On, Changed
<1>1. PICK g \in Injection(A, Unused(n)) : m = Changed(n, Cache(A, g), Hw(A, g))
  BY <1>a
<1>2. /\ g \in [A -> Unused(n)] /\ \A i, j \in A : g[i] = g[j] => i = j
      /\ Unused(n) \subseteq Handles /\ \A h \in Unused(n) : n.hw[h] = NoRule
  BY <1>1 DEF Injection, IsInjective, Unused
<1>3. /\ n.cache \in [Slots -> Entries] /\ n.hw \in [Handles -> Rules]
      /\ \A i \in Slots : n.cache[i] \in Entries
  BY DEF Apps
<1>4. \A i \in A : /\ Cache(A, g)[i] \in Entries /\ Cache(A, g)[i].enabled
                   /\ Cache(A, g)[i].hdl = g[i] /\ Rule(Cache(A, g)[i]) = Rule(n.cache[i])
  <2> SUFFICES ASSUME NEW i \in A
               PROVE  /\ Cache(A, g)[i] \in Entries /\ Cache(A, g)[i].enabled
                      /\ Cache(A, g)[i].hdl = g[i] /\ Rule(Cache(A, g)[i]) = Rule(n.cache[i])
    OBVIOUS
  <2>1. Cache(A, g)[i] = On(n.cache[i], g[i])
    OBVIOUS
  <2>2. n.cache[i] \in Entries /\ g[i] \in 0 .. MaxEntries
    BY <1>2, <1>3, Constants
  <2> HIDE DEF Cache
  <2>3. QED
    BY <2>1, <2>2, EntryChanged
<1>5. /\ \A i \in S \ A : Cache(A, g)[i] = Free
      /\ \A i \in Slots \ S : Cache(A, g)[i] = n.cache[i]
      /\ Cache(A, g) = [i \in Slots |-> Cache(A, g)[i]]
  OBVIOUS
<1>6. \A h \in Handles : (\A i \in A : g[i] # h) => Hw(A, g)[h] = n.hw[h]
  OBVIOUS
<1>7. \A i \in A : Hw(A, g)[g[i]] = Rule(n.cache[i])
  <2> SUFFICES ASSUME NEW i \in A PROVE Hw(A, g)[g[i]] = Rule(n.cache[i])
    OBVIOUS
  <2>1. g[i] \in Handles /\ (CHOOSE j \in A : g[j] = g[i]) = i
    BY <1>2
  <2>2. QED
    BY <2>1
<1>8. Hw(A, g) = [h \in Handles |-> Hw(A, g)[h]]
  OBVIOUS
<1> HIDE DEF Cache, Hw
<1>9. Cache(A, g) \in [Slots -> Entries]
  BY <1>3, <1>4, <1>5, Zeroes
<1>10. \A h \in Handles : Hw(A, g)[h] = n.hw[h] \/ \E i \in A : g[i] = h /\ Hw(A, g)[h] = Rule(n.cache[i])
  BY <1>6, <1>7
<1>11. Hw(A, g) \in [Handles -> Rules]
  BY <1>3, <1>8, <1>10, RuleOf
<1>12. m \in Apps /\ SameElse(n, m) /\ m.cache = Cache(A, g) /\ m.hw = Hw(A, g)
  BY <1>1, <1>9, <1>11, AppChanged DEF SameElse, SameWan
<1>13. \A i \in Slots : Rule(m.cache[i]) \in {Rule(n.cache[i]), NoRule}
  BY <1>4, <1>5, <1>12, Zeroes
<1>14. /\ \A i \in Slots : m.cache[i].enabled =>
                 /\ n.cache[i].enabled \/ i \in S
                 /\ Rule(m.cache[i]) = Rule(n.cache[i])
       /\ \A h \in Handles : m.hw[h] = n.hw[h] \/ \E i \in S : m.hw[h] = Rule(n.cache[i])
  BY <1>4, <1>5, <1>10, <1>12, Zeroes
<1>15. ASSUME Tidy(n), \A i \in S : n.cache[i].flow # NoFlow /\ ~n.cache[i].enabled
       PROVE  Tidy(m)
  <2>1. \A i \in Slots : m.cache[i].flow # NoFlow => Rule(m.cache[i]) = Rule(n.cache[i])
    BY <1>4, <1>5, <1>12, Zeroes
  <2>2. \A i \in Slots : m.cache[i] \in Entries
    BY <1>9, <1>12
  <2>3. \A i, j \in Slots : m.cache[i].flow # NoFlow /\ Same(m.cache[i], m.cache[j]) => i = j
    BY <1>3, <1>15, <2>1, <2>2, RuleOf DEF Tidy, Same
  <2>4. \A i \in Slots : m.cache[i].flow = NoFlow => m.cache[i] = Free
    <3> SUFFICES ASSUME NEW i \in Slots, m.cache[i].flow = NoFlow PROVE m.cache[i] = Free
      OBVIOUS
    <3>1. i \notin A
      BY <1>3, <1>4, <1>12, <1>15, <2>2, RuleOf
    <3>2. QED
      BY <1>5, <1>12, <1>15, <3>1 DEF Tidy
  <2>5. m.pub_ip_addr = NoIp => \A i \in Slots : ~m.cache[i].enabled
    BY <1>a, <1>5, <1>12, <1>15, Zeroes DEF Tidy, SameElse, SameWan
  <2>6. \A i \in Slots : m.cache[i].enabled =>
           \/ i \in A /\ m.cache[i].hdl = g[i]
           \/ i \notin S /\ n.cache[i].enabled /\ m.cache[i] = n.cache[i]
    BY <1>4, <1>5, <1>12, Zeroes
  <2>7. \A i \in Slots : n.cache[i].enabled =>
           /\ n.cache[i].hdl \in Handles /\ n.hw[n.cache[i].hdl] = Rule(n.cache[i])
           /\ n.hw[n.cache[i].hdl] # NoRule /\ n.cache[i].flow # NoFlow
           /\ m.cache[i] = n.cache[i]
           /\ \A j \in A : g[j] # n.cache[i].hdl
    <3> SUFFICES ASSUME NEW i \in Slots, n.cache[i].enabled
                 PROVE  /\ n.cache[i].hdl \in Handles
                        /\ n.hw[n.cache[i].hdl] = Rule(n.cache[i])
                        /\ n.hw[n.cache[i].hdl] # NoRule /\ n.cache[i].flow # NoFlow
                        /\ m.cache[i] = n.cache[i]
                        /\ \A j \in A : g[j] # n.cache[i].hdl
      OBVIOUS
    <3>1. n.cache[i].flow # NoFlow
      BY <1>15, Zeroes DEF Tidy
    <3>2. n.cache[i].hdl # 0 /\ n.hw[n.cache[i].hdl] = Rule(n.cache[i])
      BY <1>15 DEF Tidy, InStep
    <3>3. n.cache[i].hdl \in Handles
      BY <1>3, <3>2, Constants DEF Entries, Handles
    <3>4. n.hw[n.cache[i].hdl] # NoRule
      BY <1>3, <3>1, <3>2, RuleOf
    <3>5. \A j \in A : g[j] # n.cache[i].hdl
      BY <1>2, <3>4
    <3>6. m.cache[i] = n.cache[i]
      BY <1>5, <1>12, <1>15
    <3>7. QED
      BY <3>1, <3>2, <3>3, <3>4, <3>5, <3>6
  <2>8. \A i \in Slots : m.cache[i].enabled =>
           m.cache[i].hdl # 0 /\ m.hw[m.cache[i].hdl] = Rule(m.cache[i])
    <3> SUFFICES ASSUME NEW i \in Slots, m.cache[i].enabled
                 PROVE  m.cache[i].hdl # 0 /\ m.hw[m.cache[i].hdl] = Rule(m.cache[i])
      OBVIOUS
    <3>1. CASE i \in A /\ m.cache[i].hdl = g[i]
      <4>1. g[i] \in Handles /\ g[i] # 0 /\ m.hw[g[i]] = Rule(n.cache[i])
        BY <1>2, <1>7, <1>12, <3>1, Constants
      <4>2. Rule(m.cache[i]) = Rule(n.cache[i])
        BY <1>4, <1>12, <3>1
      <4>3. QED
        BY <3>1, <4>1, <4>2
    <3>2. CASE i \notin S /\ n.cache[i].enabled /\ m.cache[i] = n.cache[i]
      <4> DEFINE h == n.cache[i].hdl
      <4>1. h \in Handles /\ n.hw[h] = Rule(n.cache[i]) /\ \A j \in A : g[j] # h
        BY <2>7, <3>2
      <4>2. m.cache[i].hdl = h /\ m.cache[i] = n.cache[i]
        BY <3>2
      <4> HIDE DEF h
      <4>3. m.hw[h] = n.hw[h] /\ h # 0
        BY <1>6, <1>12, <4>1, Constants
      <4>4. QED
        BY <4>1, <4>2, <4>3
    <3>3. QED
      BY <2>6, <3>1, <3>2
  <2>9. \A h \in Handles : m.hw[h] # NoRule =>
           \E i \in Slots : m.cache[i].enabled /\ m.cache[i].hdl = h
    <3> SUFFICES ASSUME NEW h \in Handles, m.hw[h] # NoRule
                 PROVE  \E i \in Slots : m.cache[i].enabled /\ m.cache[i].hdl = h
      OBVIOUS
    <3>1. CASE \E i \in A : g[i] = h
      BY <1>4, <1>12, <3>1
    <3>2. CASE \A i \in A : g[i] # h
      <4>1. n.hw[h] # NoRule
        BY <1>6, <1>12, <3>2
      <4>2. PICK i \in Slots : n.cache[i].enabled /\ n.cache[i].hdl = h
        BY <1>15, <4>1 DEF Tidy, InStep
      <4>3. QED
        BY <2>7, <4>2
    <3>3. QED
      BY <3>1, <3>2
  <2>10. \A i, j \in Slots : m.cache[i].enabled /\ m.cache[j].enabled
                             /\ m.cache[i].hdl = m.cache[j].hdl => i = j
    <3> SUFFICES ASSUME NEW i \in Slots, NEW j \in Slots, m.cache[i].enabled, m.cache[j].enabled,
                        m.cache[i].hdl = m.cache[j].hdl
                 PROVE  i = j
      OBVIOUS
    <3>1. CASE i \in A /\ j \in A
      BY <1>2, <1>4, <1>12, <3>1
    <3>2. CASE i \in A /\ j \notin A
      BY <1>4, <1>12, <2>6, <2>7, <3>2
    <3>3. CASE i \notin A /\ j \in A
      BY <1>4, <1>12, <2>6, <2>7, <3>3
    <3>4. CASE i \notin A /\ j \notin A
      BY <1>15, <2>6, <3>4 DEF Tidy, InStep
    <3>5. QED
      BY <3>1, <3>2, <3>3, <3>4
  <2>11. QED
    BY <2>3, <2>4, <2>5, <2>8, <2>9, <2>10 DEF Tidy, InStep
<1>16. QED
  BY <1>12, <1>13, <1>14, <1>15
\* What a loop puts in the place of the entries it took out.
Leaves(n, S, left) ==
    /\ left \in [Slots -> Entries]
    /\ \A i \in S : n.cache[i].enabled /\ ~left[i].enabled
    /\ \A i \in S : left[i] = Free \/ Rule(left[i]) = Rule(n.cache[i])

LEMMA TakeOutKeeps ==
    ASSUME NEW n \in Apps, NEW S \in SUBSET Slots, NEW left \in [Slots -> Entries],
           NEW m \in TakeOut(n, S, left)
    PROVE  /\ m \in Apps /\ SameElse(n, m)
           /\ \A i \in Slots : m.cache[i] = n.cache[i] \/ (i \in S /\ m.cache[i] = left[i])
           /\ \A h \in Handles : m.hw[h] = n.hw[h] \/ m.hw[h] = NoRule
           /\ (Tidy(n) /\ "del" \notin Failing /\ Leaves(n, S, left)) =>
                 Tidy(m) /\ \A i \in S : ~m.cache[i].enabled
<1> DEFINE can == {i \in S : n.pub_ip_addr # NoIp /\ n.cache[i].hdl # 0}
           Cache(gone) == [i \in Slots |-> IF i \in gone THEN left[i] ELSE n.cache[i]]
           Hw(gone) == [h \in Handles |-> IF \E i \in gone : n.cache[i].hdl = h
                                          THEN NoRule ELSE n.hw[h]]
<1>1. PICK gone \in SUBSET can :
          /\ m = Changed(n, Cache(gone), Hw(gone))
          /\ "del" \notin Failing => gone = can
  BY DEF TakeOut, Changed
<1>2. n.cache \in [Slots -> Entries] /\ n.hw \in [Handles -> Rules]
  BY DEF Apps
<1>3. gone \subseteq S /\ gone \subseteq Slots
  OBVIOUS
<1>4. Cache(gone) \in [Slots -> Entries] /\ Hw(gone) \in [Handles -> Rules]
  BY <1>2, Zeroes
<1>5. /\ \A i \in gone : Cache(gone)[i] = left[i]
      /\ \A i \in Slots \ gone : Cache(gone)[i] = n.cache[i]
      /\ \A h \in Handles : (\A i \in gone : n.cache[i].hdl # h) => Hw(gone)[h] = n.hw[h]
      /\ \A h \in Handles : (\E i \in gone : n.cache[i].hdl = h) => Hw(gone)[h] = NoRule
  BY <1>3
<1> HIDE DEF Cache, Hw
<1>6. m \in Apps /\ SameElse(n, m) /\ m.cache = Cache(gone) /\ m.hw = Hw(gone)
  BY <1>1, <1>4, AppChanged DEF SameElse, SameWan
<1>7. \A i \in Slots : m.cache[i] = n.cache[i] \/ (i \in S /\ m.cache[i] = left[i])
  BY <1>3, <1>5, <1>6
<1>8. \A h \in Handles : m.hw[h] = n.hw[h] \/ m.hw[h] = NoRule
  BY <1>5, <1>6
<1>9. ASSUME Tidy(n), "del" \notin Failing, Leaves(n, S, left)
      PROVE  Tidy(m) /\ \A i \in S : ~m.cache[i].enabled
  <2>1. gone = S
    <3>1. \A i \in S : n.pub_ip_addr # NoIp /\ n.cache[i].hdl # 0
      BY <1>9 DEF Tidy, InStep, Leaves
    <3>2. QED
      BY <1>1, <1>9, <3>1
  <2>2. /\ \A i \in S : m.cache[i] = left[i] /\ ~m.cache[i].enabled
        /\ \A i \in Slots \ S : m.cache[i] = n.cache[i]
    BY <1>5, <1>6, <1>9, <2>1 DEF Leaves
  <2>3. \A i \in Slots : m.cache[i] \in Entries /\ n.cache[i] \in Entries
    BY <1>2, <1>4, <1>6
  <2>4. \A i \in Slots : m.cache[i] = Free \/ Rule(m.cache[i]) = Rule(n.cache[i])
    BY <1>9, <2>2 DEF Leaves
  <2>5. \A i \in S : n.cache[i].flow # NoFlow
    BY <1>9, Zeroes DEF Leaves, Tidy
  <2>6. \A i, j \in Slots : m.cache[i].flow # NoFlow /\ Same(m.cache[i], m.cache[j]) => i = j
    <3> SUFFICES ASSUME NEW i \in Slots, NEW j \in Slots, m.cache[i].flow # NoFlow,
                        Same(m.cache[i], m.cache[j])
                 PROVE  i = j
      OBVIOUS
    <3>1. Rule(m.cache[i]) = Rule(n.cache[i]) /\ Rule(m.cache[j]) = Rule(n.cache[j])
      BY <2>3, <2>4, Zeroes DEF Same
    <3>2. Same(n.cache[i], n.cache[j]) /\ n.cache[i].flow # NoFlow
      BY <2>3, <3>1, RuleOf
    <3>3. QED
      BY <1>9, <3>2 DEF Tidy
  <2>7. \A i \in Slots : m.cache[i].flow = NoFlow => m.cache[i] = Free
    <3> SUFFICES ASSUME NEW i \in Slots, m.cache[i].flow = NoFlow PROVE m.cache[i] = Free
      OBVIOUS
    <3>1. CASE i \in S
      BY <2>3, <2>4, <2>5, <3>1, RuleOf
    <3>2. CASE i \notin S
      BY <1>9, <2>2, <3>2 DEF Tidy
    <3>3. QED
      BY <3>1, <3>2
  <2>8. m.pub_ip_addr = NoIp => \A i \in Slots : ~m.cache[i].enabled
    BY <1>6, <1>9, <2>2 DEF Tidy, SameElse, SameWan
  <2>9. \A i \in Slots : m.cache[i].enabled =>
           /\ i \notin S /\ n.cache[i].enabled /\ m.cache[i] = n.cache[i]
           /\ n.cache[i].hdl \in Handles /\ n.hw[n.cache[i].hdl] = Rule(n.cache[i])
           /\ \A j \in S : n.cache[j].hdl # n.cache[i].hdl
    <3> SUFFICES ASSUME NEW i \in Slots, m.cache[i].enabled
                 PROVE  /\ i \notin S /\ n.cache[i].enabled /\ m.cache[i] = n.cache[i]
                        /\ n.cache[i].hdl \in Handles /\ n.hw[n.cache[i].hdl] = Rule(n.cache[i])
                        /\ \A j \in S : n.cache[j].hdl # n.cache[i].hdl
      OBVIOUS
    <3>1. i \notin S /\ n.cache[i].enabled /\ m.cache[i] = n.cache[i]
      BY <2>2
    <3>2. n.cache[i].hdl # 0 /\ n.hw[n.cache[i].hdl] = Rule(n.cache[i])
      BY <1>9, <3>1 DEF Tidy, InStep
    <3>3. n.cache[i].hdl \in Handles
      BY <2>3, <3>2, Constants DEF Entries, Handles
    <3>4. \A j \in S : n.cache[j].hdl # n.cache[i].hdl
      BY <1>9, <3>1 DEF Tidy, InStep, Leaves
    <3>5. QED
      BY <3>1, <3>2, <3>3, <3>4
  <2>10. \A i \in Slots : m.cache[i].enabled =>
            m.cache[i].hdl # 0 /\ m.hw[m.cache[i].hdl] = Rule(m.cache[i])
    <3> SUFFICES ASSUME NEW i \in Slots, m.cache[i].enabled
                 PROVE  m.cache[i].hdl # 0 /\ m.hw[m.cache[i].hdl] = Rule(m.cache[i])
      OBVIOUS
    <3> DEFINE h == n.cache[i].hdl
    <3>1. h \in Handles /\ n.hw[h] = Rule(n.cache[i]) /\ \A j \in S : n.cache[j].hdl # h
      BY <2>9
    <3>2. m.cache[i].hdl = h /\ m.cache[i] = n.cache[i]
      BY <2>9
    <3> HIDE DEF h
    <3>3. m.hw[h] = n.hw[h] /\ h # 0
      BY <1>5, <1>6, <2>1, <3>1, Constants
    <3>4. QED
      BY <3>1, <3>2, <3>3
  <2>11. \A h \in Handles : m.hw[h] # NoRule =>
            \E i \in Slots : m.cache[i].enabled /\ m.cache[i].hdl = h
    <3> SUFFICES ASSUME NEW h \in Handles, m.hw[h] # NoRule
                 PROVE  \E i \in Slots : m.cache[i].enabled /\ m.cache[i].hdl = h
      OBVIOUS
    <3>1. n.hw[h] # NoRule /\ \A i \in S : n.cache[i].hdl # h
      BY <1>5, <1>6, <1>8, <2>1
    <3>2. PICK i \in Slots : n.cache[i].enabled /\ n.cache[i].hdl = h
      BY <1>9, <3>1 DEF Tidy, InStep
    <3>3. QED
      BY <2>2, <3>1, <3>2
  <2>12. \A i, j \in Slots : m.cache[i].enabled /\ m.cache[j].enabled
                             /\ m.cache[i].hdl = m.cache[j].hdl => i = j
    BY <1>9, <2>9 DEF Tidy, InStep
  <2>13. QED
    BY <2>2, <2>6, <2>7, <2>8, <2>10, <2>11, <2>12 DEF Tidy, InStep
<1>10. QED
  BY <1>6, <1>7, <1>8, <1>9

-----------------------------------------------------------------------------
(* Single entries.                                                         *)

LEMMA CacheChanged ==
    ASSUME NEW n \in Apps, NEW c \in [Slots -> Entries], NEW m, m = Changed(n, c, n.hw)
    PROVE  m \in Apps /\ SameElse(n, m) /\ m.hw = n.hw /\ m.cache = c
<1> DEFINE w == n.hw
<1>1. w \in [Handles -> Rules] /\ m = Changed(n, c, w)
  BY DEF Apps
<1>2. w = n.hw
  OBVIOUS
<1> HIDE DEF w
<1>3. m \in Apps /\ SameElse(n, m) /\ m.hw = w /\ m.cache = c
  BY <1>1, AppChanged DEF SameElse, SameWan
<1>4. QED
  BY <1>2, <1>3

\* A NatApp with another entry in one slot.
Filled(n, i, e) == [n EXCEPT !.cache[i] = e]

LEMMA SlotSet ==
    ASSUME NEW n \in Apps, NEW i \in Slots, NEW e \in Entries, NEW m,
           m = Filled(n, i, e)
    PROVE  /\ m \in Apps /\ SameElse(n, m) /\ m.hw = n.hw
           /\ m.cache[i] = e /\ \A j \in Slots \ {i} : m.cache[j] = n.cache[j]
<1> DEFINE c == [n.cache EXCEPT ![i] = e]
<1>1. n.cache \in [Slots -> Entries] /\ n.hw \in [Handles -> Rules]
  BY DEF Apps
<1>2. c \in [Slots -> Entries] /\ c[i] = e /\ \A j \in Slots \ {i} : c[j] = n.cache[j]
  BY <1>1
<1>3. m = Changed(n, c, n.hw)
  BY DEF Apps, Changed, Filled
<1> HIDE DEF c
<1>4. m \in Apps /\ SameElse(n, m) /\ m.hw = n.hw /\ m.cache = c
  BY <1>2, <1>3, CacheChanged
<1>5. QED
  BY <1>2, <1>4

LEMMA SlotSetTidy ==
    ASSUME NEW n \in Apps, NEW i \in Slots, NEW e \in Entries, NEW m,
           m = Filled(n, i, e), Tidy(n),
           ~n.cache[i].enabled, ~e.enabled,
           e = Free \/ (e.flow # NoFlow /\ ~ChkForDup(n, e))
    PROVE  Tidy(m)
<1>1. /\ m \in Apps /\ SameElse(n, m) /\ m.hw = n.hw
      /\ m.cache[i] = e /\ \A j \in Slots \ {i} : m.cache[j] = n.cache[j]
  BY SlotSet
<1>2. \A j \in Slots : m.cache[j].enabled => n.cache[j].enabled /\ m.cache[j] = n.cache[j]
  BY <1>1
<1>3. \A j \in Slots : n.cache[j].enabled => m.cache[j] = n.cache[j]
  BY <1>1
<1>4. InStep(m)
  BY <1>1, <1>2, <1>3 DEF Tidy, InStep
<1>5. \A j, k \in Slots : m.cache[j].flow # NoFlow /\ Same(m.cache[j], m.cache[k]) => j = k
  BY <1>1, Zeroes DEF Tidy, ChkForDup, Same
<1>6. \A j \in Slots : m.cache[j].flow = NoFlow => m.cache[j] = Free
  BY <1>1 DEF Tidy
<1>7. m.pub_ip_addr = NoIp => \A j \in Slots : ~m.cache[j].enabled
  BY <1>1 DEF Tidy, SameElse, SameWan
<1>8. QED
  BY <1>4, <1>5, <1>6, <1>7 DEF Tidy

LEMMA AddRuleKeeps ==
    ASSUME NEW n \in Apps, NEW i \in Slots, NEW e \in Entries, NEW m \in AddRule(n, i, e)
    PROVE  /\ m \in Apps /\ SameElse(n, m)
           /\ \/ m = n
              \/ /\ n.pub_ip_addr # NoIp
                 /\ \E h \in Handles :
                       /\ n.hw[h] = NoRule /\ m.hw[h] = Rule(e)
                       /\ \A k \in Handles \ {h} : m.hw[k] = n.hw[k]
                       /\ m.cache[i] = On(e, h)
                       /\ \A j \in Slots \ {i} : m.cache[j] = n.cache[j]
           /\ (Tidy(n) /\ n.cache[i] = Free /\ e.flow # NoFlow /\ ~ChkForDup(n, e)) => Tidy(m)
<1>1. SUFFICES ASSUME m # n
               PROVE  /\ m \in Apps /\ SameElse(n, m)
                      /\ n.pub_ip_addr # NoIp
                      /\ \E h \in Handles :
                            /\ n.hw[h] = NoRule /\ m.hw[h] = Rule(e)
                            /\ \A k \in Handles \ {h} : m.hw[k] = n.hw[k]
                            /\ m.cache[i] = On(e, h)
                            /\ \A j \in Slots \ {i} : m.cache[j] = n.cache[j]
                      /\ (Tidy(n) /\ n.cache[i] = Free /\ e.flow # NoFlow /\ ~ChkForDup(n, e))
                            => Tidy(m)
  BY DEF SameElse, SameWan
<1> DEFINE c(h) == [n.cache EXCEPT ![i] = On(e, h)]
           w(h) == [n.hw EXCEPT ![h] = Rule(e)]
<1>2. n.cache \in [Slots -> Entries] /\ n.hw \in [Handles -> Rules]
  BY DEF Apps
<1>3. PICK h \in Handles : /\ n.pub_ip_addr # NoIp /\ n.hw[h] = NoRule
                           /\ m = Changed(n, c(h), w(h))
  BY <1>1, <1>2 DEF AddRule, Unused, Changed, On, Apps
<1>4. /\ On(e, h) \in Entries /\ On(e, h).enabled /\ On(e, h).hdl = h /\ Rule(On(e, h)) = Rule(e)
      /\ Rule(e) \in Rules
  BY EntryChanged, RuleOf, Constants
<1>5. /\ c(h) \in [Slots -> Entries] /\ c(h)[i] = On(e, h)
      /\ \A j \in Slots \ {i} : c(h)[j] = n.cache[j]
      /\ w(h) \in [Handles -> Rules] /\ w(h)[h] = Rule(e)
      /\ \A k \in Handles \ {h} : w(h)[k] = n.hw[k]
  BY <1>2, <1>4
<1> HIDE DEF c, w
<1>6. /\ m \in Apps /\ SameElse(n, m)
      /\ m.cache[i] = On(e, h) /\ \A j \in Slots \ {i} : m.cache[j] = n.cache[j]
      /\ m.hw[h] = Rule(e) /\ \A k \in Handles \ {h} : m.hw[k] = n.hw[k]
  BY <1>3, <1>5, AppChanged DEF SameElse, SameWan
<1>7. ASSUME Tidy(n), n.cache[i] = Free, e.flow # NoFlow, ~ChkForDup(n, e)
      PROVE  Tidy(m)
  <2>1. m.cache[i].enabled /\ m.cache[i].hdl = h /\ Rule(m.cache[i]) = Rule(e) /\ h # 0
    BY <1>4, <1>6, Constants
  <2>2. \A j \in Slots \ {i} : n.cache[j].enabled =>
           n.cache[j].hdl \in Handles \ {h} /\ n.hw[n.cache[j].hdl] = Rule(n.cache[j])
    <3> SUFFICES ASSUME NEW j \in Slots \ {i}, n.cache[j].enabled
                 PROVE  /\ n.cache[j].hdl \in Handles \ {h}
                        /\ n.hw[n.cache[j].hdl] = Rule(n.cache[j])
      OBVIOUS
    <3>1. n.cache[j] \in Entries /\ n.cache[j].flow # NoFlow
      BY <1>2, <1>7, Zeroes DEF Tidy
    <3>2. n.cache[j].hdl # 0 /\ n.hw[n.cache[j].hdl] = Rule(n.cache[j])
      BY <1>7 DEF Tidy, InStep
    <3>3. Rule(n.cache[j]) # NoRule
      BY <3>1, RuleOf
    <3>4. n.cache[j].hdl \in Handles
      BY <3>1, <3>2, Constants DEF Entries, Handles
    <3>5. QED
      BY <1>3, <3>2, <3>3, <3>4
  <2>3. \A j \in Slots : m.cache[j].enabled => /\ m.cache[j].hdl # 0
                                               /\ m.hw[m.cache[j].hdl] = Rule(m.cache[j])
    <3> SUFFICES ASSUME NEW j \in Slots, m.cache[j].enabled
                 PROVE  m.cache[j].hdl # 0 /\ m.hw[m.cache[j].hdl] = Rule(m.cache[j])
      OBVIOUS
    <3>1. CASE j = i
      BY <1>6, <2>1, <3>1
    <3>2. CASE j # i
      <4> DEFINE k == n.cache[j].hdl
      <4>1. k \in Handles \ {h} /\ n.hw[k] = Rule(n.cache[j]) /\ m.cache[j] = n.cache[j]
        BY <1>6, <2>2, <3>2
      <4>2. m.cache[j].hdl = k
        BY <4>1
      <4> HIDE DEF k
      <4>3. k # 0 /\ m.hw[k] = n.hw[k]
        BY <1>6, <4>1, Constants
      <4>4. QED
        BY <4>1, <4>2, <4>3
    <3>3. QED
      BY <3>1, <3>2
  <2>4. \A k \in Handles : m.hw[k] # NoRule =>
           \E j \in Slots : m.cache[j].enabled /\ m.cache[j].hdl = k
    <3> SUFFICES ASSUME NEW k \in Handles, m.hw[k] # NoRule, k # h
                 PROVE  \E j \in Slots : m.cache[j].enabled /\ m.cache[j].hdl = k
      BY <2>1
    <3>1. PICK j \in Slots : n.cache[j].enabled /\ n.cache[j].hdl = k
      BY <1>6, <1>7 DEF Tidy, InStep
    <3>2. j # i
      BY <1>7, <3>1, Zeroes
    <3>3. QED
      BY <1>6, <3>1, <3>2
  <2>5. \A j, k \in Slots : m.cache[j].enabled /\ m.cache[k].enabled
                            /\ m.cache[j].hdl = m.cache[k].hdl => j = k
    <3> SUFFICES ASSUME NEW j \in Slots, NEW k \in Slots, m.cache[j].enabled, m.cache[k].enabled,
                        m.cache[j].hdl = m.cache[k].hdl
                 PROVE  j = k
      OBVIOUS
    <3>1. CASE j = i \/ k = i
      BY <1>6, <2>1, <2>2, <3>1
    <3>2. CASE j # i /\ k # i
      BY <1>6, <1>7, <3>2 DEF Tidy, InStep
    <3>3. QED
      BY <3>1, <3>2
  <2>6. \A j, k \in Slots : m.cache[j].flow # NoFlow /\ Same(m.cache[j], m.cache[k]) => j = k
    <3>1. m.cache[i].flow = e.flow /\ m.cache[i].ip = e.ip
      BY <1>4, <1>6, RuleOf
    <3>2. QED
      BY <1>6, <1>7, <3>1 DEF Tidy, ChkForDup, Same
  <2>7. \A j \in Slots : m.cache[j].flow = NoFlow => m.cache[j] = Free
    <3>1. m.cache[i].flow # NoFlow
      BY <1>4, <1>6, <1>7, RuleOf
    <3>2. QED
      BY <1>6, <1>7, <3>1 DEF Tidy
  <2>8. m.pub_ip_addr # NoIp
    BY <1>3, <1>6 DEF SameElse, SameWan
  <2>9. QED
    BY <2>3, <2>4, <2>5, <2>6, <2>7, <2>8 DEF Tidy, InStep
<1>8. QED
  BY <1>3, <1>6, <1>7

LEMMA DelRuleKeeps ==
    ASSUME NEW n \in Apps, NEW d \in Apps, NEW h \in 0 .. MaxEntries,
           NEW m \in DelRule(n, h, d, d)
    PROVE  /\ m \in Apps /\ SameElse(d, m) /\ m.cache = d.cache
           /\ \A k \in Handles : m.hw[k] = d.hw[k] \/ (k = h /\ m.hw[k] = NoRule)
           /\ (n.pub_ip_addr # NoIp /\ h # 0 /\ "del" \notin Failing) => m.hw[h] = NoRule
<1>1. CASE m = d
  <2>1. ~(n.pub_ip_addr # NoIp /\ h # 0 /\ "del" \notin Failing) \/ m.hw[h] = NoRule
    <3> SUFFICES ASSUME n.pub_ip_addr # NoIp, h # 0, "del" \notin Failing
                 PROVE  m.hw[h] = NoRule
      OBVIOUS
    <3>1. m = [d EXCEPT !.hw[h] = NoRule] /\ h \in Handles
      BY Constants DEF DelRule, Handles
    <3>2. QED
      BY <3>1 DEF Apps
  <2>2. QED
    BY <1>1, <2>1 DEF SameElse, SameWan
<1>2. CASE m # d
  <2> DEFINE w == [d.hw EXCEPT ![h] = NoRule]
  <2>1. m = [d EXCEPT !.hw[h] = NoRule] /\ h \in Handles
    BY <1>2, Constants DEF DelRule, Handles
  <2>2. d.cache \in [Slots -> Entries] /\ d.hw \in [Handles -> Rules]
    BY DEF Apps
  <2>3. w \in [Handles -> Rules] /\ w[h] = NoRule /\ \A k \in Handles \ {h} : w[k] = d.hw[k]
    BY <2>1, <2>2, Zeroes
  <2>4. m = Changed(d, d.cache, w)
    BY <2>1 DEF Apps, Changed
  <2> HIDE DEF w
  <2>5. QED
    BY <2>2, <2>3, <2>4, AppChanged DEF SameElse, SameWan
<1>3. QED
  BY <1>1, <1>2
-----------------------------------------------------------------------------
(* The methods for entries.                                                *)

LEMMA FreeSlot ==
    ASSUME NEW n, ~IsFull(n)
    PROVE  FirstFree(n) \in Slots /\ n.cache[FirstFree(n)].flow = NoFlow
<1> DEFINE T == {i \in Slots : n.cache[i].flow = NoFlow}
<1>1. T \in SUBSET Nat /\ T # {}
  BY Constants DEF IsFull
<1>2. Min(T) \in T
  BY <1>1, Least
<1>3. QED
  BY <1>2 DEF FirstFree

\* What AddEntry and CacheEntry put into a slot.
New(r) == [Free EXCEPT !.flow = r.flow, !.ip = r.ip]
NewNoted(r) == [Free EXCEPT !.flow = r.flow, !.ip = r.ip, !.public_ip = r.public_ip]

LEMMA NewEntry ==
    ASSUME NEW r \in Temps
    PROVE  /\ New(r) \in Entries /\ ~New(r).enabled /\ New(r).flow = r.flow /\ New(r).ip = r.ip
           /\ Rule(New(r)) = Rule(r)
           /\ NewNoted(r) \in Entries /\ ~NewNoted(r).enabled /\ NewNoted(r).flow = r.flow
           /\ NewNoted(r).ip = r.ip /\ Rule(NewNoted(r)) = Rule(r)
BY Constants, Zeroes DEF New, NewNoted, Free, Entries, Temps, Rule, Names, Addresses, WanIps

\* m is n with a connection in a free slot, its rule not yet in the table.
FilledIn(n, m, r) ==
    /\ m \in Apps /\ SameElse(n, m) /\ m.hw = n.hw /\ Gains(n, m, {Rule(r)})
    /\ \A i \in Slots : m.cache[i].enabled => m.cache[i] = n.cache[i]
    /\ Tidy(n) => Tidy(m)

LEMMA FilledKeeps ==
    ASSUME NEW n \in Apps, NEW r \in Temps, r.flow # NoFlow, ~ChkForDup(n, r), ~IsFull(n),
           NEW e \in {New(r), NewNoted(r)}, NEW m, m = Filled(n, FirstFree(n), e)
    PROVE  FilledIn(n, m, r)
<1> DEFINE i == FirstFree(n)
<1>1. i \in Slots /\ n.cache[i].flow = NoFlow
  BY FreeSlot
<1>2. /\ e \in Entries /\ ~e.enabled /\ e.flow = r.flow /\ e.ip = r.ip /\ Rule(e) = Rule(r)
      /\ m = Filled(n, i, e)
  BY NewEntry
<1> HIDE DEF i
<1>3. /\ m \in Apps /\ SameElse(n, m) /\ m.hw = n.hw
      /\ m.cache[i] = e /\ \A j \in Slots \ {i} : m.cache[j] = n.cache[j]
  BY <1>1, <1>2, SlotSet
<1>4. /\ Gains(n, m, {Rule(r)})
      /\ \A j \in Slots : m.cache[j].enabled => m.cache[j] = n.cache[j]
  BY <1>2, <1>3 DEF Gains
<1>5. ASSUME Tidy(n) PROVE Tidy(m)
  <2>1. ~n.cache[i].enabled /\ e.flow # NoFlow /\ ~ChkForDup(n, e)
    BY <1>1, <1>2, <1>5, Zeroes DEF Tidy, ChkForDup, Same
  <2>2. QED
    BY <1>1, <1>2, <1>5, <2>1, SlotSetTidy
<1>6. QED
  BY <1>2, <1>3, <1>4, <1>5 DEF FilledIn

LEMMA AddEntryKeeps ==
    ASSUME NEW n \in Apps, NEW r \in Temps, r.flow # NoFlow, NEW m \in AddEntry(n, r)
    PROVE  /\ m \in Apps /\ SameElse(n, m) /\ Gains(n, m, {Rule(r)})
           /\ m = n \/ r.flow \notin AlgFlows
           /\ \A i \in Slots : m.cache[i].enabled =>
                 \/ n.cache[i].enabled /\ m.cache[i] = n.cache[i]
                 \/ Rule(m.cache[i]) = Rule(r) /\ m.cache[i].ip \notin n.PwrSaveIfs
           /\ Tidy(n) => Tidy(m)
<1>1. CASE m = n
  BY <1>1 DEF SameElse, SameWan, Gains
<1>2. CASE m # n
  <2> DEFINE i == FirstFree(n)
             e == New(r)
  <2>1. /\ r.flow \notin AlgFlows /\ ~ChkForDup(n, r) /\ ~IsFull(n)
        /\ \/ m = Filled(n, i, e)
           \/ r.ip \notin n.PwrSaveIfs /\ m \in AddRule(n, i, e)
    BY <1>2 DEF AddEntry, Filled, New
  <2>2. CASE m = Filled(n, i, e)
    <3>0. e \in {New(r), NewNoted(r)} /\ m = Filled(n, FirstFree(n), e)
      BY <2>2
    <3> HIDE DEF i, e
    <3>1. ~ChkForDup(n, r) /\ ~IsFull(n)
      BY <2>1
    <3>2. FilledIn(n, m, r)
      BY <3>0, <3>1, FilledKeeps, Zenon
    <3>3. QED
      BY <2>1, <3>2 DEF FilledIn
  <2>3. CASE r.ip \notin n.PwrSaveIfs /\ m \in AddRule(n, i, e)
    <3>1. i \in Slots /\ n.cache[i].flow = NoFlow
      BY <2>1, FreeSlot
    <3>2. e \in Entries /\ e.flow = r.flow /\ e.ip = r.ip /\ Rule(e) = Rule(r)
      BY NewEntry
    <3> HIDE DEF i, e
    <3>3. m \in Apps /\ SameElse(n, m)
      BY <2>3, <3>1, <3>2, AddRuleKeeps
    <3>4. PICK h \in Handles :
             /\ n.hw[h] = NoRule /\ m.hw[h] = Rule(e)
             /\ \A k \in Handles \ {h} : m.hw[k] = n.hw[k]
             /\ m.cache[i] = On(e, h)
             /\ \A j \in Slots \ {i} : m.cache[j] = n.cache[j]
      BY <1>2, <2>3, <3>1, <3>2, AddRuleKeeps
    <3>5. Rule(m.cache[i]) = Rule(r) /\ m.cache[i].ip = r.ip
      BY <3>2, <3>4, EntryChanged, RuleOf, Constants
    <3>6. Gains(n, m, {Rule(r)})
      BY <3>2, <3>4, <3>5 DEF Gains
    <3>7. \A j \in Slots : m.cache[j].enabled =>
             \/ n.cache[j].enabled /\ m.cache[j] = n.cache[j]
             \/ Rule(m.cache[j]) = Rule(r) /\ m.cache[j].ip \notin n.PwrSaveIfs
      BY <2>3, <3>4, <3>5
    <3>8. ASSUME Tidy(n) PROVE Tidy(m)
      <4>1. n.cache[i] = Free /\ e.flow # NoFlow /\ ~ChkForDup(n, e)
        BY <2>1, <3>1, <3>2, <3>8 DEF Tidy, ChkForDup, Same
      <4>2. QED
        BY <2>3, <3>1, <3>2, <3>8, <4>1, AddRuleKeeps
    <3>9. QED
      BY <2>1, <3>3, <3>6, <3>7, <3>8
  <2>4. QED
    BY <2>1, <2>2, <2>3
<1>3. QED
  BY <1>1, <1>2

LEMMA CacheEntryKeeps ==
    ASSUME NEW n \in Apps, NEW r \in Temps, r.flow # NoFlow, NEW m \in CacheEntry(n, r)
    PROVE  /\ m \in Apps /\ SameElse(n, m) /\ m.hw = n.hw /\ Gains(n, m, {Rule(r)})
           /\ \A i \in Slots : m.cache[i].enabled => m.cache[i] = n.cache[i]
           /\ Tidy(n) => Tidy(m)
<1>1. CASE m = n
  BY <1>1 DEF SameElse, SameWan, Gains
<1>2. CASE m # n
  <2>1. ~ChkForDup(n, r) /\ ~IsFull(n) /\ m = Filled(n, FirstFree(n), NewNoted(r))
    BY <1>2 DEF CacheEntry, Filled, NewNoted
  <2>2. FilledIn(n, m, r)
    BY <2>1, FilledKeeps, Zenon
  <2>3. QED
    BY <2>2 DEF FilledIn
<1>3. QED
  BY <1>1, <1>2

LEMMA DeleteEntryKeeps ==
    ASSUME NEW n \in Apps, NEW r \in Temps, r.flow # NoFlow, NEW m \in DeleteEntry(n, r)
    PROVE  /\ m \in Apps /\ SameElse(n, m) /\ Gains(n, m, {})
           /\ \A i \in Slots : m.cache[i] = n.cache[i] \/ m.cache[i] = Free
           /\ (Tidy(n) /\ "del" \notin Failing) => Tidy(m)
           /\ Tidy(n) => ~ChkForDup(m, r)
<1>1. CASE ~ChkForDup(n, r)
  BY <1>1 DEF DeleteEntry, SameElse, SameWan, Gains
<1>2. CASE ChkForDup(n, r)
  <2> DEFINE T == {i \in Slots : Same(n.cache[i], r)}
             i == Min(T)
             d == Filled(n, i, Free)
             h == n.cache[i].hdl
  <2>1. T \in SUBSET Nat /\ T # {}
    BY <1>2, Constants DEF DeleteEntry, ChkForDup
  <2>2. i \in Slots /\ Same(n.cache[i], r)
    BY <2>1, Least
  <2>3. \/ n.cache[i].enabled /\ m \in DelRule(n, h, d, d)
        \/ ~n.cache[i].enabled /\ m = d
    BY <1>2 DEF DeleteEntry, Filled
  <2>4. d = Filled(n, i, Free) /\ h = n.cache[i].hdl
    OBVIOUS
  <2> HIDE DEF T, i, d, h
  <2>5. /\ d \in Apps /\ SameElse(n, d) /\ d.hw = n.hw
        /\ d.cache[i] = Free /\ \A j \in Slots \ {i} : d.cache[j] = n.cache[j]
    BY <2>2, <2>4, SlotSet, Zeroes
  <2>6. n.cache[i] \in Entries /\ h \in 0 .. MaxEntries /\ n.cache \in [Slots -> Entries]
    BY <2>2, <2>4 DEF Apps, Entries
  <2>7. Tidy(n) => ~ChkForDup(m, r)
    <3> SUFFICES ASSUME Tidy(n), NEW j \in Slots, Same(m.cache[j], r) PROVE FALSE
      BY DEF ChkForDup
    <3>1. m.cache[i] = Free /\ \A k \in Slots \ {i} : m.cache[k] = n.cache[k]
      <4>1. CASE m = d
        BY <2>5, <4>1
      <4>2. CASE m \in DelRule(n, h, d, d)
        <5>1. m.cache = d.cache
          BY <2>5, <2>6, <4>2, DelRuleKeeps
        <5>2. QED
          BY <2>5, <5>1
      <4>3. QED
        BY <2>3, <4>1, <4>2
    <3>2. j # i
      BY <3>1, Zeroes DEF Same
    <3>3. Same(n.cache[i], n.cache[j]) /\ n.cache[i].flow # NoFlow
      BY <2>2, <3>1, <3>2 DEF Same
    <3>4. QED
      BY <2>2, <3>2, <3>3 DEF Tidy
  <2>8. CASE ~n.cache[i].enabled /\ m = d
    BY <2>2, <2>4, <2>5, <2>7, <2>8, SlotSetTidy, Zeroes DEF Gains
  <2>9. CASE n.cache[i].enabled /\ m \in DelRule(n, h, d, d)
    <3>1. /\ m \in Apps /\ SameElse(d, m) /\ m.cache = d.cache
          /\ \A k \in Handles : m.hw[k] = d.hw[k] \/ (k = h /\ m.hw[k] = NoRule)
          /\ (n.pub_ip_addr # NoIp /\ h # 0 /\ "del" \notin Failing) => m.hw[h] = NoRule
      BY <2>5, <2>6, <2>9, DelRuleKeeps
    <3>2. /\ SameElse(n, m) /\ m.cache[i] = Free
          /\ \A j \in Slots \ {i} : m.cache[j] = n.cache[j]
          /\ \A k \in Handles : m.hw[k] = n.hw[k] \/ (k = h /\ m.hw[k] = NoRule)
      BY <2>5, <3>1 DEF SameElse, SameWan
    <3>3. Gains(n, m, {})
      BY <3>2, Zeroes DEF Gains
    <3>4. ASSUME Tidy(n), "del" \notin Failing PROVE Tidy(m)
      <4>1. m.hw[h] = NoRule
        BY <2>4, <2>9, <2>2, <3>1, <3>4 DEF Tidy, InStep
      <4>2. \A j \in Slots : m.cache[j].enabled =>
               j # i /\ n.cache[j].enabled /\ m.cache[j] = n.cache[j] /\ n.cache[j].hdl # h
        BY <2>2, <2>4, <2>9, <3>2, <3>4, Zeroes DEF Tidy, InStep
      <4>3. \A j \in Slots : m.cache[j].enabled =>
               m.cache[j].hdl # 0 /\ m.hw[m.cache[j].hdl] = Rule(m.cache[j])
        <5> SUFFICES ASSUME NEW j \in Slots, m.cache[j].enabled
                     PROVE  m.cache[j].hdl # 0 /\ m.hw[m.cache[j].hdl] = Rule(m.cache[j])
          OBVIOUS
        <5>1. n.cache[j].hdl # 0 /\ n.hw[n.cache[j].hdl] = Rule(n.cache[j])
          BY <3>4, <4>2 DEF Tidy, InStep
        <5>2. n.cache[j].hdl \in Handles
          BY <2>6, <5>1, Constants DEF Entries, Handles
        <5>3. m.hw[n.cache[j].hdl] = n.hw[n.cache[j].hdl]
          BY <3>2, <4>2, <5>2
        <5>4. QED
          BY <4>2, <5>1, <5>3
      <4>4. \A k \in Handles : m.hw[k] # NoRule =>
               \E j \in Slots : m.cache[j].enabled /\ m.cache[j].hdl = k
        <5> SUFFICES ASSUME NEW k \in Handles, m.hw[k] # NoRule
                     PROVE  \E j \in Slots : m.cache[j].enabled /\ m.cache[j].hdl = k
          OBVIOUS
        <5>1. k # h /\ n.hw[k] # NoRule
          BY <3>2, <4>1
        <5>2. PICK j \in Slots : n.cache[j].enabled /\ n.cache[j].hdl = k
          BY <3>4, <5>1 DEF Tidy, InStep
        <5>3. j # i
          BY <2>4, <5>1, <5>2
        <5>4. QED
          BY <3>2, <5>2, <5>3
      <4>5. InStep(m)
        BY <3>4, <4>2, <4>3, <4>4 DEF Tidy, InStep
      <4>6. \A j, k \in Slots : m.cache[j].flow # NoFlow /\ Same(m.cache[j], m.cache[k]) => j = k
        BY <3>2, <3>4, Zeroes DEF Tidy, Same
      <4>7. \A j \in Slots : m.cache[j].flow = NoFlow => m.cache[j] = Free
        BY <3>2, <3>4 DEF Tidy
      <4>8. m.pub_ip_addr = NoIp => \A j \in Slots : ~m.cache[j].enabled
        BY <3>2, <3>4, <4>2 DEF Tidy, SameElse, SameWan
      <4>9. QED
        BY <4>5, <4>6, <4>7, <4>8 DEF Tidy
    <3>5. QED
      BY <2>7, <3>1, <3>2, <3>3, <3>4
  <2>10. QED
    BY <2>3, <2>8, <2>9
<1>3. QED
  BY <1>1, <1>2
-----------------------------------------------------------------------------
(* What every method but those for the table keeps.                        *)

Kept(n, m) ==
    /\ m \in Apps /\ SameWan(n, m)
    /\ ("del" \notin Failing /\ Tidy(n)) => Tidy(m)
    /\ ("del" \notin Failing /\ Tidy(n) /\ Awake(n)) => Awake(m)

LEMMA KeptTwice ==
    ASSUME NEW n, NEW m, NEW l, Kept(n, m), Kept(m, l)
    PROVE  Kept(n, l)
BY DEF Kept, SameWan

LEMMA KeptSame ==
    ASSUME NEW n \in Apps
    PROVE  Kept(n, n)
BY DEF Kept, SameWan

\* Cache and table are as they were.
SameCore(n, m) == SameWan(n, m) /\ m.cache = n.cache /\ m.hw = n.hw

LEMMA CoreKept ==
    ASSUME NEW n, NEW m, SameCore(n, m)
    PROVE  (Tidy(n) => Tidy(m)) /\ (m.PwrSaveIfs \subseteq n.PwrSaveIfs /\ Awake(n) => Awake(m))
BY DEF SameCore, SameWan, Tidy, InStep, Awake

\* A NatApp with another entry that waits.
Noted(n, k, t) == [n EXCEPT !.temp[k] = t]

LEMMA NotedKept ==
    ASSUME NEW n \in Apps, NEW k \in Waiting, NEW t \in Temps, NEW m, m = Noted(n, k, t)
    PROVE  /\ m \in Apps /\ SameCore(n, m) /\ m.PwrSaveIfs = n.PwrSaveIfs
           /\ m.temp[k] = t /\ \A j \in Waiting \ {k} : m.temp[j] = n.temp[j]
           /\ Kept(n, m)
<1> DEFINE u == [n.temp EXCEPT ![k] = t]
<1>1. n.temp \in [Waiting -> Temps]
  BY DEF Apps
<1>2. u \in [Waiting -> Temps] /\ u[k] = t /\ \A j \in Waiting \ {k} : u[j] = n.temp[j]
  BY <1>1
<1>3. m = [n EXCEPT !.temp = u]
  BY DEF Apps, Noted
<1> HIDE DEF u
<1>4. m \in Apps /\ SameCore(n, m) /\ m.PwrSaveIfs = n.PwrSaveIfs /\ m.temp = u
  BY <1>2, <1>3 DEF Apps, SameCore, SameWan
<1>5. Kept(n, m)
  BY <1>4, CoreKept DEF Kept, SameCore
<1>6. QED
  BY <1>2, <1>4, <1>5

\* A NatApp with other clients in power save.
Saving(n, P) == [n EXCEPT !.PwrSaveIfs = P]

LEMMA SavingChanged ==
    ASSUME NEW n \in Apps, NEW P \in SUBSET Clients, NEW m, m = Saving(n, P)
    PROVE  /\ m \in Apps /\ SameCore(n, m) /\ m.temp = n.temp /\ m.PwrSaveIfs = P
           /\ Tidy(n) => Tidy(m)
<1>1. m \in Apps /\ SameCore(n, m) /\ m.temp = n.temp /\ m.PwrSaveIfs = P
  BY DEF Apps, SameCore, SameWan, Saving
<1>2. QED
  BY <1>1, CoreKept

-----------------------------------------------------------------------------
(* What every method keeps of the rules that must not be.                  *)

LEMMA SceneFacts ==
    ASSUME scene \in Scenes
    PROVE  /\ NoIp \notin Clients /\ NoIp \notin PubIps /\ Junk \notin Clients
           /\ Junk \notin PubIps /\ Clients \cap PubIps = {} /\ Clients \cap WanIps = {}
           /\ AlgFlows \subseteq Flows /\ NatClients \subseteq Clients
BY NatAppAssumption, ListenerAssumption DEF Clients, PubIps, AlgFlows, NatClients, WanIps

\* A client that is not NATed gets no rule.
Clean(n, m) == \A h \in Handles : m.hw[h].ip \in Clients \ NatClients => m.hw[h] = n.hw[h]

\* A connection that uses an ALG port gets no entry, and no rule but that of a NATed
\* client.
Calm(n, m) == \A i \in Slots : m.cache[i].flow \in AlgFlows =>
    /\ Rule(m.cache[i]) = Rule(n.cache[i])
    /\ m.cache[i].enabled => n.cache[i].enabled \/ n.cache[i].ip \in NatClients

\* No peer is a client of the device or of the station interface.
Plain == Targets \cap Clients = {} /\ StaTargets = {}

Spares(n, m) == Calm(n, m) /\ (Plain => Clean(n, m))

LEMMA SparesSame ==
    ASSUME NEW n, NEW m, m.cache = n.cache, m.hw = n.hw
    PROVE  Spares(n, m)
BY DEF Spares, Calm, Clean

LEMMA SparesTwice ==
    ASSUME NEW n \in Apps, NEW m \in Apps, NEW l \in Apps, Spares(n, m), Spares(m, l)
    PROVE  Spares(n, l)
<1>1. Plain => Clean(n, l)
  BY DEF Spares, Clean
<1>2. ASSUME NEW i \in Slots, l.cache[i].flow \in AlgFlows
      PROVE  /\ Rule(l.cache[i]) = Rule(n.cache[i])
             /\ l.cache[i].enabled => n.cache[i].enabled \/ n.cache[i].ip \in NatClients
  <2>1. n.cache[i] \in Entries /\ m.cache[i] \in Entries /\ l.cache[i] \in Entries
    BY DEF Apps
  <2>2. /\ Rule(l.cache[i]) = Rule(m.cache[i])
        /\ l.cache[i].enabled => m.cache[i].enabled \/ m.cache[i].ip \in NatClients
    BY <1>2 DEF Spares, Calm
  <2>3. m.cache[i].flow = l.cache[i].flow
    BY <2>1, <2>2, RuleOf
  <2>4. /\ Rule(m.cache[i]) = Rule(n.cache[i])
        /\ m.cache[i].enabled => n.cache[i].enabled \/ n.cache[i].ip \in NatClients
    BY <1>2, <2>3 DEF Spares, Calm
  <2>5. m.cache[i].ip = n.cache[i].ip
    BY <2>1, <2>4, RuleOf
  <2>6. QED
    BY <2>2, <2>4, <2>5
<1>3. QED
  BY <1>1, <1>2 DEF Spares, Calm

\* A method that only takes away.
LEMMA SparesLess ==
    ASSUME scene \in Scenes, NEW n \in Apps, NEW m \in Apps,
           \A i \in Slots : \/ m.cache[i] = n.cache[i]
                            \/ /\ ~m.cache[i].enabled
                               /\ Rule(m.cache[i]) = Rule(n.cache[i]) \/ Rule(m.cache[i]) = NoRule,
           \A h \in Handles : m.hw[h] = n.hw[h] \/ m.hw[h] = NoRule
    PROVE  Spares(n, m)
<1>1. Clean(n, m)
  BY Zeroes, SceneFacts DEF Clean
<1>2. ASSUME NEW i \in Slots, m.cache[i].flow \in AlgFlows
      PROVE  /\ Rule(m.cache[i]) = Rule(n.cache[i])
             /\ m.cache[i].enabled => n.cache[i].enabled \/ n.cache[i].ip \in NatClients
  <2>1. m.cache[i] \in Entries /\ m.cache[i].flow # NoFlow
    BY <1>2, SceneFacts, Constants DEF Apps
  <2>2. Rule(m.cache[i]) # NoRule
    BY <2>1, RuleOf
  <2>3. QED
    BY <2>2
<1>3. QED
  BY <1>1, <1>2 DEF Spares, Calm

LEMMA TakeOutSpares ==
    ASSUME scene \in Scenes, NEW n \in Apps, NEW S \in SUBSET Slots,
           NEW left \in [Slots -> Entries], Leaves(n, S, left), NEW m \in TakeOut(n, S, left)
    PROVE  Spares(n, m)
<1>1. m \in Apps
  BY TakeOutKeeps
<1>2. \A i \in Slots : m.cache[i] = n.cache[i] \/ (i \in S /\ m.cache[i] = left[i])
  BY TakeOutKeeps
<1>3. \A h \in Handles : m.hw[h] = n.hw[h] \/ m.hw[h] = NoRule
  BY TakeOutKeeps
<1>4. \A i \in S : /\ ~left[i].enabled
                   /\ Rule(left[i]) = Rule(n.cache[i]) \/ Rule(left[i]) = NoRule
  BY Zeroes DEF Leaves
<1>5. QED
  BY <1>1, <1>2, <1>3, <1>4, SparesLess

LEMMA AddEntrySpares ==
    ASSUME scene \in Scenes, NEW n \in Apps, NEW r \in Temps, r.flow # NoFlow,
           NEW m \in AddEntry(n, r), Plain => r.ip \notin Clients \ NatClients
    PROVE  Spares(n, m)
<1>1. CASE m = n
  BY <1>1, SparesSame
<1>2. CASE m # n
  <2>1. /\ m \in Apps /\ Gains(n, m, {Rule(r)}) /\ r.flow \notin AlgFlows
        /\ \A i \in Slots : m.cache[i].enabled =>
              \/ n.cache[i].enabled /\ m.cache[i] = n.cache[i]
              \/ Rule(m.cache[i]) = Rule(r) /\ m.cache[i].ip \notin n.PwrSaveIfs
    BY <1>2, AddEntryKeeps
  <2>2. Rule(r).flow = r.flow /\ Rule(r).ip = r.ip
    BY DEF Rule
  <2>3. Plain => Clean(n, m)
    BY <2>1, <2>2, Zeroes, SceneFacts DEF Clean, Gains
  <2>4. ASSUME NEW i \in Slots, m.cache[i].flow \in AlgFlows
        PROVE  /\ Rule(m.cache[i]) = Rule(n.cache[i])
               /\ m.cache[i].enabled => n.cache[i].enabled \/ n.cache[i].ip \in NatClients
    <3>1. m.cache[i] \in Entries /\ m.cache[i].flow # NoFlow
      BY <2>1, <2>4, SceneFacts, Constants DEF Apps
    <3>2. Rule(m.cache[i]) # NoRule /\ Rule(m.cache[i]).flow = m.cache[i].flow
      BY <3>1, RuleOf
    <3>3. Rule(m.cache[i]) # Rule(r)
      BY <2>1, <2>2, <2>4, <3>2
    <3>4. QED
      BY <2>1, <3>2, <3>3 DEF Gains
  <2>5. QED
    BY <2>3, <2>4 DEF Spares, Calm
<1>3. QED
  BY <1>1, <1>2

-----------------------------------------------------------------------------
(* The methods for entries and those that wait keep it.                    *)

LEMMA AddEntryKept ==
    ASSUME NEW n \in Apps, NEW r \in Temps, r.flow # NoFlow, NEW m \in AddEntry(n, r)
    PROVE  Kept(n, m)
<1>1. /\ m \in Apps /\ SameElse(n, m)
      /\ \A i \in Slots : m.cache[i].enabled =>
            \/ n.cache[i].enabled /\ m.cache[i] = n.cache[i]
            \/ Rule(m.cache[i]) = Rule(r) /\ m.cache[i].ip \notin n.PwrSaveIfs
      /\ Tidy(n) => Tidy(m)
  BY AddEntryKeeps
<1>2. Awake(n) => Awake(m)
  BY <1>1 DEF Awake, SameElse
<1>3. QED
  BY <1>1, <1>2 DEF Kept, SameElse

LEMMA CacheEntryKept ==
    ASSUME NEW n \in Apps, NEW r \in Temps, r.flow # NoFlow, NEW m \in CacheEntry(n, r)
    PROVE  Kept(n, m)
<1>1. /\ m \in Apps /\ SameElse(n, m)
      /\ \A i \in Slots : m.cache[i].enabled => m.cache[i] = n.cache[i]
      /\ Tidy(n) => Tidy(m)
  BY CacheEntryKeeps
<1>2. Awake(n) => Awake(m)
  BY <1>1 DEF Awake, SameElse
<1>3. QED
  BY <1>1, <1>2 DEF Kept, SameElse

LEMMA DeleteEntryKept ==
    ASSUME NEW n \in Apps, NEW r \in Temps, r.flow # NoFlow, NEW m \in DeleteEntry(n, r)
    PROVE  Kept(n, m)
<1>1. /\ m \in Apps /\ SameElse(n, m)
      /\ \A i \in Slots : m.cache[i] = n.cache[i] \/ m.cache[i] = Free
      /\ (Tidy(n) /\ "del" \notin Failing) => Tidy(m)
  BY DeleteEntryKeeps
<1>2. Awake(n) => Awake(m)
  BY <1>1, Zeroes DEF Awake, SameElse
<1>3. QED
  BY <1>1, <1>2 DEF Kept, SameElse

LEMMA WaitingNumbers == scene \in Scenes => MaxTemp \in Nat /\ Waiting \subseteq Nat
BY NatAppAssumption DEF MaxTemp, Waiting

LEMMA AddTempEntryKept ==
    ASSUME scene \in Scenes, NEW n \in Apps, NEW r \in Temps, NEW m \in AddTempEntry(n, r)
    PROVE  Kept(n, m)
<1> DEFINE holes == {k \in Waiting : n.temp[k].flow = NoFlow}
<1>1. CASE m = n
  BY <1>1, KeptSame
<1>2. CASE m # n
  <2>1. holes # {} /\ m = Noted(n, Min(holes), r)
    BY <1>2 DEF AddTempEntry, Noted
  <2>2. Min(holes) \in Waiting
    BY <2>1, WaitingNumbers, Least
  <2>3. QED
    BY <2>1, <2>2, NotedKept
<1>3. QED
  BY <1>1, <1>2

LEMMA DeleteTempEntryKept ==
    ASSUME scene \in Scenes, NEW n \in Apps, NEW r \in Temps, NEW m \in DeleteTempEntry(n, r)
    PROVE  Kept(n, m)
<1> DEFINE found == {k \in Waiting : Same(n.temp[k], r)}
<1>1. CASE m = n
  BY <1>1, KeptSame
<1>2. CASE m # n
  <2>1. found # {} /\ m = Noted(n, Min(found), NoTemp)
    BY <1>2 DEF DeleteTempEntry, Noted
  <2>2. Min(found) \in Waiting
    BY <2>1, WaitingNumbers, Least
  <2>3. QED
    BY <2>1, <2>2, NotedKept, Zeroes
<1>3. QED
  BY <1>1, <1>2

LEMMA FlushOneKept ==
    ASSUME NEW n \in Apps, NEW k \in Waiting, NEW ip, NEW isAdd, NEW isDummy,
           NEW m \in FlushTempEntry(n, k, ip, isAdd, isDummy)
    PROVE  Kept(n, m)
<1> DEFINE t == n.temp[k]
           r == IF isDummy THEN [t EXCEPT !.ip = t.public_ip] ELSE t
<1>1. t \in Temps /\ r \in Temps /\ r.flow = t.flow
  BY DEF Apps, Temps, Addresses
<1>2. \/ m = n
      \/ m = Noted(n, k, NoTemp)
      \/ /\ t.flow # NoFlow
         /\ \E l \in AddEntry(n, r) : m = Noted(n, k, r) \/ m = Noted(l, k, NoTemp)
  BY DEF FlushTempEntry, Noted
<1> HIDE DEF t, r
<1>3. CASE m = n
  BY <1>3, KeptSame
<1>4. CASE m = Noted(n, k, NoTemp)
  BY <1>4, NotedKept, Zeroes
<1>5. CASE t.flow # NoFlow /\ \E l \in AddEntry(n, r) : m = Noted(n, k, r) \/ m = Noted(l, k, NoTemp)
  <2>1. PICK l \in AddEntry(n, r) : m = Noted(n, k, r) \/ m = Noted(l, k, NoTemp)
    BY <1>5
  <2>2. Kept(n, l)
    BY <1>1, <1>5, AddEntryKept
  <2>3. CASE m = Noted(n, k, r)
    BY <1>1, <2>3, NotedKept
  <2>4. CASE m = Noted(l, k, NoTemp)
    <3>1. l \in Apps
      BY <2>2 DEF Kept
    <3>2. Kept(l, m)
      BY <2>4, <3>1, NotedKept, Zeroes
    <3>3. QED
      BY <2>2, <3>2, KeptTwice
  <2>5. QED
    BY <2>1, <2>3, <2>4
<1>6. QED
  BY <1>2, <1>3, <1>4, <1>5

\* What is flushed so makes no rule for a client that is not NATed.
Harmless(ip, isAdd, isDummy) == (Plain /\ isAdd /\ ~isDummy) => ip \in NatClients

LEMMA FlushOneSpares ==
    ASSUME scene \in Scenes, NEW n \in Apps, NEW k \in Waiting, NEW ip, NEW isAdd, NEW isDummy,
           Harmless(ip, isAdd, isDummy), NEW m \in FlushTempEntry(n, k, ip, isAdd, isDummy)
    PROVE  Spares(n, m)
<1> DEFINE t == n.temp[k]
           r == IF isDummy THEN [t EXCEPT !.ip = t.public_ip] ELSE t
<1>1. t \in Temps /\ r \in Temps /\ r.flow = t.flow /\ r.ip = IF isDummy THEN t.public_ip ELSE t.ip
  BY DEF Apps, Temps, Addresses
<1>2. \/ m = n
      \/ m = Noted(n, k, NoTemp)
      \/ /\ t.flow # NoFlow /\ isAdd /\ (t.ip = ip \/ Target[t.flow] = ip)
         /\ \E l \in AddEntry(n, r) : m = Noted(n, k, r) \/ m = Noted(l, k, NoTemp)
  BY DEF FlushTempEntry, Noted
<1> HIDE DEF t, r
<1>3. CASE m = n
  BY <1>3, SparesSame
<1>4. CASE m = Noted(n, k, NoTemp)
  BY <1>4, NotedKept, SparesSame, Zeroes DEF SameCore
<1>5. CASE /\ t.flow # NoFlow /\ isAdd /\ (t.ip = ip \/ Target[t.flow] = ip)
           /\ \E l \in AddEntry(n, r) : m = Noted(n, k, r) \/ m = Noted(l, k, NoTemp)
  <2>1. PICK l \in AddEntry(n, r) : m = Noted(n, k, r) \/ m = Noted(l, k, NoTemp)
    BY <1>5
  <2>2. ASSUME Plain PROVE r.ip \notin Clients \ NatClients
    <3>1. t.flow \in Flows /\ t.public_ip \notin Clients
      BY <1>1, <1>5, SceneFacts DEF Temps, Names
    <3>2. Target[t.flow] \notin Clients
      BY <2>2, <3>1 DEF Plain, Targets
    <3>3. isDummy \/ ip \in NatClients
      BY <1>5, <2>2 DEF Harmless
    <3>4. CASE isDummy
      BY <1>1, <3>1, <3>4
    <3>5. CASE ~isDummy
      BY <1>1, <1>5, <3>2, <3>3, <3>5, SceneFacts
    <3>6. QED
      BY <3>4, <3>5
  <2>3. Spares(n, l) /\ l \in Apps
    BY <1>1, <1>5, <2>2, AddEntrySpares, AddEntryKept DEF Kept
  <2>4. CASE m = Noted(n, k, r)
    BY <1>1, <2>4, NotedKept, SparesSame DEF SameCore
  <2>5. CASE m = Noted(l, k, NoTemp)
    <3>1. m \in Apps /\ Spares(l, m)
      BY <2>3, <2>5, NotedKept, SparesSame, Zeroes DEF SameCore
    <3>2. QED
      BY <2>3, <3>1, SparesTwice
  <2>6. QED
    BY <2>1, <2>4, <2>5
<1>6. QED
  BY <1>2, <1>3, <1>4, <1>5
-----------------------------------------------------------------------------
(* The loop over the entries that wait.                                    *)

\* What iteration k makes of a set of NatApps.
Round(ns, k, ip, isAdd, isDummy) ==
    UNION {FlushTempEntry(l, k, ip, isAdd, isDummy) : l \in ns}

\* Its iterations up to number `last`, where they are defined.
IsLoop(f, last, n, ip, isAdd, isDummy) ==
    f = [k \in 0 .. last |-> IF k = 0 THEN {n} ELSE Round(f[k - 1], k, ip, isAdd, isDummy)]

LEMMA LoopExists ==
    ASSUME NEW max \in Nat, NEW n, NEW ip, NEW isAdd, NEW isDummy
    PROVE  \E f : IsLoop(f, max, n, ip, isAdd, isDummy)
<1> DEFINE P(k) == \E f : IsLoop(f, k, n, ip, isAdd, isDummy)
           T == {k \in 0 .. max : ~P(k)}
<1>1. P(0)
  <2> DEFINE f == [k \in 0 .. 0 |-> {n}]
  <2>1. f = [k \in 0 .. 0 |-> IF k = 0 THEN {n} ELSE Round(f[k - 1], k, ip, isAdd, isDummy)]
    OBVIOUS
  <2>2. IsLoop(f, 0, n, ip, isAdd, isDummy)
    BY <2>1 DEF IsLoop
  <2>3. QED
    BY <2>2
<1>2. ASSUME NEW k \in Nat, P(k)
      PROVE  P(k + 1)
  <2>1. PICK f : IsLoop(f, k, n, ip, isAdd, isDummy)
    BY <1>2
  <2> DEFINE next == Round(f[k], k + 1, ip, isAdd, isDummy)
             g == [j \in 0 .. k + 1 |-> IF j = k + 1 THEN next ELSE f[j]]
  <2>2. \A j \in 0 .. k : f[j] = IF j = 0 THEN {n} ELSE Round(f[j - 1], j, ip, isAdd, isDummy)
    BY <2>1 DEF IsLoop
  <2>3. \A j \in 0 .. k : g[j] = f[j]
    OBVIOUS
  <2>4. g[k + 1] = next
    OBVIOUS
  <2>5. g = [j \in 0 .. k + 1 |-> g[j]]
    OBVIOUS
  <2>6. next = Round(f[k], k + 1, ip, isAdd, isDummy)
    OBVIOUS
  <2> HIDE DEF g, next
  <2>7. ASSUME NEW j \in 0 .. k + 1
        PROVE  g[j] = IF j = 0 THEN {n} ELSE Round(g[j - 1], j, ip, isAdd, isDummy)
    <3>1. CASE j = k + 1
      <4>1. j # 0 /\ j - 1 = k /\ g[k] = f[k]
        BY <2>3, <3>1
      <4>2. QED
        BY <2>4, <2>6, <3>1, <4>1
    <3>2. CASE j # k + 1
      <4>1. j \in 0 .. k /\ (j # 0 => j - 1 \in 0 .. k)
        BY <3>2
      <4>2. j # 0 => g[j - 1] = f[j - 1]
        BY <2>3, <4>1
      <4>3. QED
        BY <2>2, <2>3, <4>1, <4>2
    <3>3. QED
      BY <3>1, <3>2
  <2>8. IsLoop(g, k + 1, n, ip, isAdd, isDummy)
    BY <2>5, <2>7 DEF IsLoop
  <2>9. QED
    BY <2>8
<1> HIDE DEF P
<1>3. ASSUME T # {} PROVE FALSE
  <2>0. T \in SUBSET Nat
    OBVIOUS
  <2>1. PICK k \in T : \A j \in T : k <= j
    <3> HIDE DEF T
    <3>1. QED
      BY <1>3, <2>0, Smallest
  <2>2. \A j \in T : ~(j < k)
    BY <2>1
  <2>3. k # 0 /\ k - 1 \in 0 .. max /\ k \in 0 .. max /\ ~P(k)
    BY <1>1
  <2>4. P(k - 1)
    BY <2>2, <2>3
  <2>5. P((k - 1) + 1)
    BY <1>2, <2>3, <2>4
  <2>6. QED
    BY <2>3, <2>5
<1>4. QED
  BY <1>3 DEF P

LEMMA FlushKept ==
    ASSUME scene \in Scenes, NEW n \in Apps, NEW ip, NEW isAdd, NEW isDummy,
           NEW m \in FlushTempEntries(n, ip, isAdd, isDummy)
    PROVE  Kept(n, m) /\ (Harmless(ip, isAdd, isDummy) => Spares(n, m))
<1> DEFINE f == CHOOSE f : IsLoop(f, MaxTemp, n, ip, isAdd, isDummy)
<1>1. m \in f[MaxTemp]
  BY DEF FlushTempEntries, IsLoop, Round
<1>2. IsLoop(f, MaxTemp, n, ip, isAdd, isDummy)
  BY LoopExists, WaitingNumbers
<1> HIDE DEF f
<1>3. \A k \in 0 .. MaxTemp : f[k] = IF k = 0 THEN {n} ELSE Round(f[k - 1], k, ip, isAdd, isDummy)
  BY <1>2 DEF IsLoop
<1> DEFINE Good(l) == Kept(n, l) /\ (Harmless(ip, isAdd, isDummy) => Spares(n, l))
           T == {k \in 0 .. MaxTemp : ~\A l \in f[k] : Good(l)}
<1>4. MaxTemp \in Nat /\ T \in SUBSET Nat
  BY WaitingNumbers
<1>5. ASSUME T # {} PROVE FALSE
  <2>1. PICK k \in T : \A j \in T : k <= j
    BY <1>4, <1>5, Smallest
  <2>2. \A j \in T : ~(j < k)
    BY <1>4, <2>1
  <2>3. PICK l \in f[k] : ~Good(l)
    BY <2>1
  <2>4. k # 0
    BY <1>3, <1>4, <2>3, KeptSame, SparesSame
  <2>5. k - 1 \in 0 .. MaxTemp /\ k \in Waiting /\ k \in 0 .. MaxTemp
    BY <1>4, <2>4 DEF Waiting
  <2>6. \A h \in f[k - 1] : Good(h)
    BY <1>4, <2>2, <2>5
  <2>7. PICK h \in f[k - 1] : l \in FlushTempEntry(h, k, ip, isAdd, isDummy)
    <3>1. l \in Round(f[k - 1], k, ip, isAdd, isDummy)
      BY <1>3, <2>3, <2>4, <2>5
    <3>2. QED
      BY <3>1, Zenon DEF Round
  <2>8. Good(h) /\ h \in Apps
    BY <2>6 DEF Kept
  <2>9. Kept(h, l) /\ l \in Apps
    BY <2>5, <2>7, <2>8, FlushOneKept DEF Kept
  <2>10. Harmless(ip, isAdd, isDummy) => Spares(h, l)
    BY <2>5, <2>7, <2>8, FlushOneSpares
  <2>11. QED
    BY <2>3, <2>8, <2>9, <2>10, KeptTwice, SparesTwice
<1>6. MaxTemp \notin T
  BY <1>5
<1>7. QED
  BY <1>1, <1>4, <1>6
-----------------------------------------------------------------------------
(* The methods for clients.                                                *)

LEMMA EnabledLeft ==
    ASSUME NEW n \in Apps, NEW S \in SUBSET Slots, \A i \in S : n.cache[i].enabled, NEW left,
           \/ left = Disabled(n)
           \/ left = [i \in Slots |-> Out(n.cache[i])]
           \/ left = [i \in Slots |-> Free]
    PROVE  left \in [Slots -> Entries] /\ Leaves(n, S, left)
<1>1. \A i \in Slots : n.cache[i] \in Entries
  BY DEF Apps
<1>2. CASE left = Disabled(n)
  <2>1. left = [i \in Slots |-> Off(n.cache[i])]
    BY <1>2 DEF Disabled, Off
  <2>2. QED
    BY <1>1, <2>1, EntryChanged DEF Leaves
<1>3. CASE left = [i \in Slots |-> Out(n.cache[i])]
  BY <1>1, <1>3, EntryChanged DEF Leaves
<1>4. CASE left = [i \in Slots |-> Free]
  BY <1>4, Zeroes DEF Leaves
<1>5. QED
  BY <1>2, <1>3, <1>4

LEMMA UpdatePwrSaveIfKept ==
    ASSUME NEW n \in Apps, NEW ip \in Clients, NEW m \in UpdatePwrSaveIf(n, ip)
    PROVE  Kept(n, m)
<1> DEFINE P == IF Cardinality(n.PwrSaveIfs) < MaxPwr THEN n.PwrSaveIfs \cup {ip}
                ELSE n.PwrSaveIfs
           l == Saving(n, P)
           S == Enabled(n, ip)
           left == [i \in Slots |-> Out(n.cache[i])]
<1>1. CASE m = n
  BY <1>1, KeptSame
<1>2. CASE m # n
  <2>1. m \in TakeOut(l, S, left)
    BY <1>2 DEF UpdatePwrSaveIf, Saving, Out
  <2>2. P \in SUBSET Clients /\ P \subseteq n.PwrSaveIfs \cup {ip}
    BY DEF Apps
  <2>3. S \in SUBSET Slots /\ (\A i \in S : n.cache[i].enabled)
        /\ \A i \in Slots : n.cache[i].enabled /\ i \notin S => n.cache[i].ip # ip
    BY DEF Enabled
  <2>4. left = [i \in Slots |-> Out(n.cache[i])] /\ l = Saving(n, P)
    OBVIOUS
  <2> HIDE DEF P, l, S, left
  <2>5. /\ l \in Apps /\ SameCore(n, l) /\ l.PwrSaveIfs = P
        /\ Tidy(n) => Tidy(l)
    BY <2>2, <2>4, SavingChanged
  <2>6. left \in [Slots -> Entries] /\ Leaves(l, S, left)
    <3>1. left \in [Slots -> Entries] /\ Leaves(n, S, left)
      BY <2>3, <2>4, EnabledLeft
    <3>2. QED
      BY <2>5, <3>1 DEF SameCore, Leaves
  <2>7. /\ m \in Apps /\ SameElse(l, m)
        /\ \A i \in Slots : m.cache[i] = l.cache[i] \/ (i \in S /\ m.cache[i] = left[i])
        /\ (Tidy(l) /\ "del" \notin Failing) => Tidy(m) /\ \A i \in S : ~m.cache[i].enabled
    <3>1. l \in Apps /\ S \in SUBSET Slots /\ left \in [Slots -> Entries] /\ m \in TakeOut(l, S, left)
      BY <2>1, <2>3, <2>5, <2>6
    <3>2. m \in Apps /\ SameElse(l, m)
      BY <2>1, <2>3, <2>5, <2>6, TakeOutKeeps
    <3>3. \A i \in Slots : m.cache[i] = l.cache[i] \/ (i \in S /\ m.cache[i] = left[i])
      BY <3>1, TakeOutKeeps
    <3>4. ASSUME Tidy(l), "del" \notin Failing PROVE Tidy(m)
      BY <3>4, <2>1, <2>3, <2>5, <2>6, TakeOutKeeps
    <3>5. ASSUME Tidy(l), "del" \notin Failing PROVE \A i \in S : ~m.cache[i].enabled
      BY <3>5, <2>1, <2>3, <2>5, <2>6, TakeOutKeeps
    <3>6. QED
      BY <3>2, <3>3, <3>4, <3>5
  <2>8. ASSUME "del" \notin Failing, Tidy(n), Awake(n) PROVE Awake(m)
    <3>1. \A i \in S : ~m.cache[i].enabled
      BY <2>5, <2>7, <2>8
    <3>2. \A i \in Slots : m.cache[i].enabled =>
             i \notin S /\ m.cache[i] = n.cache[i] /\ n.cache[i].enabled
      BY <2>5, <2>7, <3>1 DEF SameCore
    <3>3. QED
      BY <2>2, <2>3, <2>5, <2>7, <2>8, <3>2 DEF Awake, SameElse
  <2>9. QED
    BY <2>5, <2>7, <2>8 DEF Kept, SameElse, SameCore, SameWan
<1>3. QED
  BY <1>1, <1>2

LEMMA ResetPwrSaveIfKept ==
    ASSUME scene \in Scenes, NEW n \in Apps, NEW ip \in Clients, NEW m \in ResetPwrSaveIf(n, ip)
    PROVE  Kept(n, m)
<1> DEFINE l == Saving(n, n.PwrSaveIfs \ {ip})
           S == {i \in Slots : n.cache[i].ip = ip /\ ~n.cache[i].enabled}
<1>1. m \in PutBack(l, S) /\ S \in SUBSET Slots
  BY DEF ResetPwrSaveIf, Saving
<1>2. n.PwrSaveIfs \ {ip} \in SUBSET Clients
  BY DEF Apps
<1>3. \A i \in S : n.cache[i].ip = ip /\ ~n.cache[i].enabled
  OBVIOUS
<1>4. l = Saving(n, n.PwrSaveIfs \ {ip})
  OBVIOUS
<1> HIDE DEF l, S
<1>5. /\ l \in Apps /\ SameCore(n, l) /\ l.PwrSaveIfs = n.PwrSaveIfs \ {ip}
      /\ Tidy(n) => Tidy(l)
  BY <1>2, <1>4, SavingChanged
<1>6. /\ m \in Apps /\ SameElse(l, m)
      /\ (Tidy(l) /\ (\A i \in S : l.cache[i].flow # NoFlow /\ ~l.cache[i].enabled)) => Tidy(m)
      /\ \A i \in Slots : m.cache[i].enabled =>
            /\ l.cache[i].enabled \/ i \in S
            /\ Rule(m.cache[i]) = Rule(l.cache[i])
  BY <1>1, <1>5, PutBackKeeps
<1>7. Tidy(n) => \A i \in S : n.cache[i].flow # NoFlow
  BY <1>1, <1>3, Zeroes, SceneFacts DEF Tidy
<1>8. Tidy(n) => Tidy(m)
  BY <1>3, <1>5, <1>6, <1>7 DEF SameCore
<1>9. ASSUME Awake(n) PROVE Awake(m)
  <2> SUFFICES ASSUME NEW i \in Slots, m.cache[i].enabled
               PROVE  m.cache[i].ip \notin m.PwrSaveIfs
    BY DEF Awake
  <2>1. n.cache[i].enabled \/ i \in S
    BY <1>5, <1>6 DEF SameCore
  <2>2. m.cache[i].ip = n.cache[i].ip
    <3>1. m.cache[i] \in Entries /\ n.cache[i] \in Entries /\ Rule(m.cache[i]) = Rule(n.cache[i])
      BY <1>5, <1>6 DEF SameCore, Apps
    <3>2. QED
      BY <3>1, RuleOf
  <2>3. m.PwrSaveIfs = n.PwrSaveIfs \ {ip}
    BY <1>5, <1>6 DEF SameElse
  <2>4. QED
    BY <1>3, <1>9, <2>1, <2>2, <2>3 DEF Awake
<1>10. QED
  BY <1>5, <1>6, <1>8, <1>9 DEF Kept, SameElse, SameCore, SameWan

LEMMA ClientGoneKept ==
    ASSUME NEW n \in Apps, NEW ip \in Clients, NEW m \in DelEntriesOnClntDiscon(n, ip)
    PROVE  Kept(n, m)
<1> DEFINE l == Saving(n, n.PwrSaveIfs \ {ip})
           S == Enabled(n, ip)
           left == Disabled(n)
<1>1. m \in TakeOut(l, S, left)
  BY DEF DelEntriesOnClntDiscon, Saving
<1>2. n.PwrSaveIfs \ {ip} \in SUBSET Clients
  BY DEF Apps
<1>3. S \in SUBSET Slots /\ \A i \in S : n.cache[i].enabled
  BY DEF Enabled
<1>4. l = Saving(n, n.PwrSaveIfs \ {ip}) /\ left = Disabled(n)
  OBVIOUS
<1> HIDE DEF l, S, left
<1>5. /\ l \in Apps /\ SameCore(n, l) /\ l.PwrSaveIfs = n.PwrSaveIfs \ {ip}
      /\ Tidy(n) => Tidy(l)
  BY <1>2, <1>4, SavingChanged
<1>6. left \in [Slots -> Entries] /\ Leaves(l, S, left)
  <2>1. left \in [Slots -> Entries] /\ Leaves(n, S, left)
    BY <1>3, <1>4, EnabledLeft
  <2>2. QED
    BY <1>5, <2>1 DEF SameCore, Leaves
<1>7. /\ m \in Apps /\ SameElse(l, m)
      /\ \A i \in Slots : m.cache[i] = l.cache[i] \/ (i \in S /\ m.cache[i] = left[i])
      /\ (Tidy(l) /\ "del" \notin Failing) => Tidy(m)
  <2>1. l \in Apps /\ S \in SUBSET Slots /\ left \in [Slots -> Entries] /\ m \in TakeOut(l, S, left)
    BY <1>1, <1>3, <1>5, <1>6
  <2>2. m \in Apps /\ SameElse(l, m)
    BY <1>1, <1>3, <1>5, <1>6, TakeOutKeeps
  <2>3. \A i \in Slots : m.cache[i] = l.cache[i] \/ (i \in S /\ m.cache[i] = left[i])
    BY <2>1, TakeOutKeeps
  <2>4. ASSUME Tidy(l), "del" \notin Failing PROVE Tidy(m)
    BY <2>4, <1>1, <1>3, <1>5, <1>6, TakeOutKeeps
  <2>5. QED
    BY <2>2, <2>3, <2>4
<1>8. Awake(n) => Awake(m)
  BY <1>3, <1>5, <1>6, <1>7 DEF Awake, SameCore, SameElse, Leaves
<1>9. QED
  BY <1>5, <1>7, <1>8 DEF Kept, SameElse, SameCore, SameWan

LEMMA StaClientGoneKept ==
    ASSUME NEW n \in Apps, NEW ip, NEW m \in DelEntriesOnSTAClntDiscon(n, ip)
    PROVE  Kept(n, m)
<1> DEFINE its == {i \in Slots : n.cache[i].flow # NoFlow /\ Target[n.cache[i].flow] = ip}
           on == {i \in its : n.cache[i].enabled}
           off == [i \in Slots |-> IF i \in its \ on THEN Free ELSE n.cache[i]]
           left == [i \in Slots |-> Free]
           l == Changed(n, off, n.hw)
<1>1. m \in TakeOut([n EXCEPT !.cache = off], on, left)
  BY DEF DelEntriesOnSTAClntDiscon
<1>2. [n EXCEPT !.cache = off] = l
  BY DEF Changed, Apps
<1>3. n.cache \in [Slots -> Entries]
  BY DEF Apps
<1>4. /\ off \in [Slots -> Entries]
      /\ \A i \in Slots : off[i] = n.cache[i] \/ (~n.cache[i].enabled /\ off[i] = Free)
      /\ \A i \in on : off[i] = n.cache[i] /\ n.cache[i].enabled
      /\ on \in SUBSET Slots
  BY <1>3, Zeroes
<1>5. left = [i \in Slots |-> Free]
  OBVIOUS
<1>6. m \in TakeOut(l, on, left)
  BY <1>1, <1>2
<1>7. l = Changed(n, off, n.hw)
  OBVIOUS
<1> HIDE DEF its, on, off, left, l
<1>8. l \in Apps /\ SameElse(n, l) /\ l.hw = n.hw /\ l.cache = off
  BY <1>4, <1>7, CacheChanged
<1>9. ASSUME Tidy(n) PROVE Tidy(l)
  <2>1. InStep(l)
    BY <1>4, <1>8, <1>9, Zeroes DEF Tidy, InStep
  <2>2. \A i, j \in Slots : l.cache[i].flow # NoFlow /\ Same(l.cache[i], l.cache[j]) => i = j
    BY <1>4, <1>8, <1>9, Zeroes DEF Tidy, Same
  <2>3. /\ \A i \in Slots : l.cache[i].flow = NoFlow => l.cache[i] = Free
        /\ l.pub_ip_addr = NoIp => \A i \in Slots : ~l.cache[i].enabled
    BY <1>4, <1>8, <1>9, Zeroes DEF Tidy, SameElse, SameWan
  <2>4. QED
    BY <2>1, <2>2, <2>3 DEF Tidy
<1>10. left \in [Slots -> Entries] /\ Leaves(l, on, left)
  BY <1>4, <1>5, <1>8, EnabledLeft
<1>11. /\ m \in Apps /\ SameElse(l, m)
       /\ \A i \in Slots : m.cache[i] = l.cache[i] \/ (i \in on /\ m.cache[i] = left[i])
       /\ (Tidy(l) /\ "del" \notin Failing) => Tidy(m)
  <2>1. l \in Apps /\ on \in SUBSET Slots /\ left \in [Slots -> Entries] /\ m \in TakeOut(l, on, left)
    BY <1>4, <1>6, <1>8, <1>10
  <2>2. m \in Apps /\ SameElse(l, m)
    BY <1>4, <1>6, <1>8, <1>10, TakeOutKeeps
  <2>3. \A i \in Slots : m.cache[i] = l.cache[i] \/ (i \in on /\ m.cache[i] = left[i])
    BY <2>1, TakeOutKeeps
  <2>4. ASSUME Tidy(l), "del" \notin Failing PROVE Tidy(m)
    BY <2>4, <1>4, <1>6, <1>8, <1>10, TakeOutKeeps
  <2>5. QED
    BY <2>2, <2>3, <2>4
<1>12. \A i \in Slots : m.cache[i] = n.cache[i] \/ m.cache[i] = Free
  BY <1>4, <1>5, <1>8, <1>11
<1>13. Awake(n) => Awake(m)
  BY <1>8, <1>11, <1>12, Zeroes DEF Awake, SameElse
<1>14. QED
  BY <1>8, <1>9, <1>11, <1>13 DEF Kept, SameElse, SameWan
-----------------------------------------------------------------------------
(* They spare whom they should.                                            *)

LEMMA DeleteEntrySpares ==
    ASSUME scene \in Scenes, NEW n \in Apps, NEW r \in Temps, r.flow # NoFlow,
           NEW m \in DeleteEntry(n, r)
    PROVE  Spares(n, m)
<1>1. /\ m \in Apps /\ Gains(n, m, {})
      /\ \A i \in Slots : m.cache[i] = n.cache[i] \/ m.cache[i] = Free
  BY DeleteEntryKeeps
<1>2. \A h \in Handles : m.hw[h] = n.hw[h] \/ m.hw[h] = NoRule
  BY <1>1 DEF Gains
<1>3. QED
  BY <1>1, <1>2, Zeroes, SparesLess

LEMMA TempEntrySpares ==
    ASSUME scene \in Scenes, NEW n \in Apps, NEW r \in Temps, NEW m,
           m \in AddTempEntry(n, r) \/ m \in DeleteTempEntry(n, r)
    PROVE  Spares(n, m)
<1> DEFINE holes == {k \in Waiting : n.temp[k].flow = NoFlow}
           found == {k \in Waiting : Same(n.temp[k], r)}
<1>1. CASE m = n
  BY <1>1, SparesSame
<1>2. CASE m # n
  <2>1. \/ holes # {} /\ m = Noted(n, Min(holes), r)
        \/ found # {} /\ m = Noted(n, Min(found), NoTemp)
    BY <1>2 DEF AddTempEntry, DeleteTempEntry, Noted
  <2>2. (holes # {} => Min(holes) \in Waiting) /\ (found # {} => Min(found) \in Waiting)
    BY WaitingNumbers, Least
  <2> HIDE DEF holes, found
  <2>3. SameCore(n, m)
    BY <2>1, <2>2, NotedKept, Zeroes
  <2>4. QED
    BY <2>3, SparesSame DEF SameCore
<1>3. QED
  BY <1>1, <1>2

LEMMA UpdatePwrSaveIfSpares ==
    ASSUME scene \in Scenes, NEW n \in Apps, NEW ip \in Clients, NEW m \in UpdatePwrSaveIf(n, ip)
    PROVE  Spares(n, m)
<1> DEFINE P == IF Cardinality(n.PwrSaveIfs) < MaxPwr THEN n.PwrSaveIfs \cup {ip}
                ELSE n.PwrSaveIfs
           l == Saving(n, P)
           S == Enabled(n, ip)
           left == [i \in Slots |-> Out(n.cache[i])]
<1>1. CASE m = n
  BY <1>1, SparesSame
<1>2. CASE m # n
  <2>1. m \in TakeOut(l, S, left)
    BY <1>2 DEF UpdatePwrSaveIf, Saving, Out
  <2>2. P \in SUBSET Clients
    BY DEF Apps
  <2>3. S \in SUBSET Slots /\ \A i \in S : n.cache[i].enabled
    BY DEF Enabled
  <2>4. left = [i \in Slots |-> Out(n.cache[i])] /\ l = Saving(n, P)
    OBVIOUS
  <2> HIDE DEF P, l, S, left
  <2>5. l \in Apps /\ SameCore(n, l)
    BY <2>2, <2>4, SavingChanged
  <2>6. left \in [Slots -> Entries] /\ Leaves(l, S, left)
    <3>1. left \in [Slots -> Entries] /\ Leaves(n, S, left)
      BY <2>3, <2>4, EnabledLeft
    <3>2. QED
      BY <2>5, <3>1 DEF SameCore, Leaves
  <2>7. m \in Apps /\ Spares(l, m)
    BY <2>1, <2>3, <2>5, <2>6, TakeOutSpares, TakeOutKeeps
  <2>8. QED
    BY <2>5, <2>7, SparesSame, SparesTwice DEF SameCore
<1>3. QED
  BY <1>1, <1>2

LEMMA ResetPwrSaveIfSpares ==
    ASSUME scene \in Scenes, NEW n \in Apps, NEW ip \in NatClients,
           NEW m \in ResetPwrSaveIf(n, ip)
    PROVE  Spares(n, m)
<1> DEFINE l == Saving(n, n.PwrSaveIfs \ {ip})
           S == {i \in Slots : n.cache[i].ip = ip /\ ~n.cache[i].enabled}
<1>1. m \in PutBack(l, S) /\ S \in SUBSET Slots
  BY DEF ResetPwrSaveIf, Saving
<1>2. n.PwrSaveIfs \ {ip} \in SUBSET Clients
  BY DEF Apps
<1>3. \A i \in S : n.cache[i].ip = ip
  OBVIOUS
<1>4. l = Saving(n, n.PwrSaveIfs \ {ip})
  OBVIOUS
<1> HIDE DEF l, S
<1>5. l \in Apps /\ l.cache = n.cache /\ l.hw = n.hw
  BY <1>2, <1>4, SavingChanged DEF SameCore
<1>6. /\ m \in Apps
      /\ \A i \in Slots : Rule(m.cache[i]) \in {Rule(n.cache[i]), NoRule}
      /\ \A i \in Slots : m.cache[i].enabled => n.cache[i].enabled \/ i \in S
      /\ \A h \in Handles : m.hw[h] = n.hw[h] \/ \E i \in S : m.hw[h] = Rule(n.cache[i])
  BY <1>1, <1>5, PutBackKeeps
<1>7. Clean(n, m)
  <2>1. \A i \in S : Rule(n.cache[i]).ip = ip
    BY <1>1, <1>3, RuleOf DEF Apps
  <2>2. QED
    BY <1>6, <2>1 DEF Clean
<1>8. ASSUME NEW i \in Slots, m.cache[i].flow \in AlgFlows
      PROVE  /\ Rule(m.cache[i]) = Rule(n.cache[i])
             /\ m.cache[i].enabled => n.cache[i].enabled \/ n.cache[i].ip \in NatClients
  <2>1. m.cache[i] \in Entries /\ m.cache[i].flow # NoFlow
    BY <1>6, <1>8, SceneFacts, Constants DEF Apps
  <2>2. Rule(m.cache[i]) # NoRule
    BY <2>1, RuleOf
  <2>3. QED
    BY <1>3, <1>6, <2>2
<1>9. QED
  BY <1>7, <1>8 DEF Spares, Calm

LEMMA ClientGoneSpares ==
    ASSUME scene \in Scenes, NEW n \in Apps, NEW ip \in Clients,
           NEW m \in DelEntriesOnClntDiscon(n, ip)
    PROVE  Spares(n, m)
<1> DEFINE l == Saving(n, n.PwrSaveIfs \ {ip})
           S == Enabled(n, ip)
           left == Disabled(n)
<1>1. m \in TakeOut(l, S, left)
  BY DEF DelEntriesOnClntDiscon, Saving
<1>2. n.PwrSaveIfs \ {ip} \in SUBSET Clients
  BY DEF Apps
<1>3. S \in SUBSET Slots /\ \A i \in S : n.cache[i].enabled
  BY DEF Enabled
<1>4. l = Saving(n, n.PwrSaveIfs \ {ip}) /\ left = Disabled(n)
  OBVIOUS
<1> HIDE DEF l, S, left
<1>5. l \in Apps /\ SameCore(n, l)
  BY <1>2, <1>4, SavingChanged
<1>6. left \in [Slots -> Entries] /\ Leaves(l, S, left)
  <2>1. left \in [Slots -> Entries] /\ Leaves(n, S, left)
    BY <1>3, <1>4, EnabledLeft
  <2>2. QED
    BY <1>5, <2>1 DEF SameCore, Leaves
<1>7. m \in Apps /\ Spares(l, m)
  BY <1>1, <1>3, <1>5, <1>6, TakeOutSpares, TakeOutKeeps
<1>8. QED
  BY <1>5, <1>7, SparesSame, SparesTwice DEF SameCore

LEMMA StaClientGoneSpares ==
    ASSUME scene \in Scenes, NEW n \in Apps, NEW ip, NEW m \in DelEntriesOnSTAClntDiscon(n, ip)
    PROVE  Spares(n, m)
<1> DEFINE its == {i \in Slots : n.cache[i].flow # NoFlow /\ Target[n.cache[i].flow] = ip}
           on == {i \in its : n.cache[i].enabled}
           off == [i \in Slots |-> IF i \in its \ on THEN Free ELSE n.cache[i]]
           left == [i \in Slots |-> Free]
           l == Changed(n, off, n.hw)
<1>1. m \in TakeOut([n EXCEPT !.cache = off], on, left)
  BY DEF DelEntriesOnSTAClntDiscon
<1>2. [n EXCEPT !.cache = off] = l
  BY DEF Changed, Apps
<1>3. n.cache \in [Slots -> Entries]
  BY DEF Apps
<1>4. /\ off \in [Slots -> Entries]
      /\ \A i \in Slots : off[i] = n.cache[i] \/ off[i] = Free
      /\ \A i \in on : off[i] = n.cache[i] /\ n.cache[i].enabled
      /\ on \in SUBSET Slots
  BY <1>3, Zeroes
<1>5. left = [i \in Slots |-> Free] /\ l = Changed(n, off, n.hw)
  OBVIOUS
<1>6. m \in TakeOut(l, on, left)
  BY <1>1, <1>2
<1> HIDE DEF its, on, off, left, l
<1>7. l \in Apps /\ l.hw = n.hw /\ l.cache = off
  BY <1>4, <1>5, CacheChanged
<1>8. Spares(n, l)
  BY <1>4, <1>7, Zeroes, SparesLess
<1>9. left \in [Slots -> Entries] /\ Leaves(l, on, left)
  BY <1>4, <1>5, <1>7, EnabledLeft
<1>10. m \in Apps /\ Spares(l, m)
  BY <1>4, <1>6, <1>7, <1>9, TakeOutSpares, TakeOutKeeps
<1>11. QED
  BY <1>7, <1>8, <1>10, SparesTwice

LEMMA AddTableSpares ==
    ASSUME NEW n \in Apps, NEW pub, pub # n.pub_ip_addr_pre, NEW m \in AddTable(n, pub)
    PROVE  m.cache = n.cache /\ m.hw = n.hw
BY DEF AddTable, Apps

-----------------------------------------------------------------------------
(* The methods for the table.                                              *)

\* A NatApp whose table has another public address.
Opened(n, pub) == [n EXCEPT !.pub_ip_addr = pub]

LEMMA AddTableKept ==
    ASSUME scene \in Scenes, NEW n \in Apps, n.pub_ip_addr = NoIp, NEW pub \in PubIps,
           NEW m \in AddTable(n, pub)
    PROVE  /\ m \in Apps /\ m.pub_ip_addr \in {NoIp, pub}
           /\ m.pub_ip_addr_pre = n.pub_ip_addr_pre
           /\ Tidy(n) => Tidy(m)
           /\ (Tidy(n) /\ Awake(n) /\ n.pub_ip_addr_pre = NoIp) => Awake(m)
<1> DEFINE l == Opened(n, pub)
           S == {i \in Slots : n.cache[i].flow # NoFlow}
<1>1. \/ m = n
      \/ m = l /\ pub # n.pub_ip_addr_pre
      \/ m \in PutBack(l, S) /\ pub = n.pub_ip_addr_pre
  BY DEF AddTable, Opened
<1>2. pub # NoIp /\ pub \in Publics
  BY SceneFacts DEF Publics
<1>3. /\ l \in Apps /\ l.cache = n.cache /\ l.hw = n.hw /\ l.PwrSaveIfs = n.PwrSaveIfs
      /\ l.pub_ip_addr = pub /\ l.pub_ip_addr_pre = n.pub_ip_addr_pre
  BY <1>2 DEF Opened, Apps
<1>4. S \in SUBSET Slots /\ \A i \in S : n.cache[i].flow # NoFlow
  OBVIOUS
<1> HIDE DEF l, S
<1>5. Tidy(n) => Tidy(l) /\ \A i \in Slots : ~n.cache[i].enabled
  BY <1>2, <1>3 DEF Tidy, InStep
<1>6. CASE m = n
  BY <1>6
<1>7. CASE m = l /\ pub # n.pub_ip_addr_pre
  BY <1>3, <1>5, <1>7 DEF Awake
<1>8. CASE m \in PutBack(l, S) /\ pub = n.pub_ip_addr_pre
  <2>1. m \in Apps /\ SameElse(l, m)
    BY <1>3, <1>4, <1>8, PutBackKeeps
  <2>2. (Tidy(l) /\ (\A i \in S : l.cache[i].flow # NoFlow /\ ~l.cache[i].enabled)) => Tidy(m)
    BY <1>3, <1>4, <1>8, PutBackKeeps
  <2>3. QED
    BY <1>2, <1>3, <1>4, <1>5, <1>8, <2>1, <2>2 DEF SameElse, SameWan
<1>9. QED
  BY <1>1, <1>6, <1>7, <1>8

LEMMA DeleteTableKept ==
    ASSUME NEW n \in Apps, NEW pub \in PubIps, NEW m \in DeleteTable(n, pub)
    PROVE  /\ m \in Apps /\ m.pub_ip_addr \in {n.pub_ip_addr, NoIp}
           /\ Tidy(n) => Tidy(m)
<1>1. CASE m = n
  BY <1>1
<1>2. CASE m # n
  <2> DEFINE c == Disabled(n)
             w == [h \in Handles |-> NoRule]
  <2>1. m = [n EXCEPT !.pub_ip_addr_pre = pub, !.pub_ip_addr = NoIp, !.cache = c, !.hw = w]
    BY <1>2 DEF DeleteTable
  <2>2. c = [i \in Slots |-> Off(n.cache[i])]
    BY DEF Disabled, Off
  <2>3. \A i \in Slots : n.cache[i] \in Entries
    BY DEF Apps
  <2> HIDE DEF c
  <2>4. /\ c \in [Slots -> Entries]
        /\ \A i \in Slots : ~c[i].enabled /\ Rule(c[i]) = Rule(n.cache[i])
    BY <2>2, <2>3, EntryChanged
  <2>5. w \in [Handles -> Rules] /\ \A h \in Handles : w[h] = NoRule
    BY Zeroes
  <2> HIDE DEF w
  <2>6. m \in Apps /\ m.pub_ip_addr = NoIp /\ m.cache = c /\ m.hw = w
    BY <2>1, <2>4, <2>5 DEF Apps, Publics
  <2>7. ASSUME Tidy(n) PROVE Tidy(m)
    <3>1. InStep(m)
      BY <2>4, <2>5, <2>6 DEF InStep
    <3>2. \A i \in Slots : c[i].flow = n.cache[i].flow /\ c[i].ip = n.cache[i].ip
      BY <2>3, <2>4, RuleOf
    <3>3. \A i, j \in Slots : m.cache[i].flow # NoFlow /\ Same(m.cache[i], m.cache[j]) => i = j
      BY <2>6, <2>7, <3>2 DEF Tidy, Same
    <3>4. \A i \in Slots : m.cache[i].flow = NoFlow => m.cache[i] = Free
      <4> SUFFICES ASSUME NEW i \in Slots, c[i].flow = NoFlow PROVE c[i] = Free
        BY <2>6
      <4>1. n.cache[i] = Free /\ c[i] = Off(n.cache[i])
        BY <2>2, <2>7, <3>2 DEF Tidy
      <4>2. Off(Free) = Free
        BY Zeroes DEF Off, Entries
      <4>3. QED
        BY <4>1, <4>2
    <3>5. QED
      BY <2>4, <2>6, <3>1, <3>3, <3>4 DEF Tidy
  <2>8. QED
    BY <2>6, <2>7
<1>3. QED
  BY <1>1, <1>2
-----------------------------------------------------------------------------
(* The invariant of the listener.                                          *)

TypeOK ==
    /\ scene \in Scenes
    /\ nat \in Apps
    /\ WanUp \in BOOLEAN
    /\ wan_ipaddr \in WanIps
    /\ isStaMode \in BOOLEAN
    /\ natIfs \subseteq NatClients
    /\ nonNat \in [Clients -> Nat]
    /\ saving \subseteq NatClients
    /\ open \in [Flows -> [ip : Addresses, pub : WanIps]]
    /\ isNatThreadStart \in BOOLEAN
    /\ udp \in [pc : {"idle", "rule", "entry"}, slot : 0 .. MaxEntries, hdl : 0 .. MaxEntries]
    /\ udp.pc # "idle" => udp.slot \in Slots

\* The table is that of the WAN interface while it is up. It goes with the WAN only when the
\* event names the address of the table and the driver deletes it.
TableOfWan ==
    /\ WanUp => wan_ipaddr \in PubIps /\ nat.pub_ip_addr \in {NoIp, wan_ipaddr}
    /\ ~MayWanDown => /\ nat.pub_ip_addr_pre = NoIp
                      /\ ~WanUp => nat.pub_ip_addr = NoIp

\* Until the time stamp thread runs cache and table agree.
CacheTidy == ~isNatThreadStart /\ "del" \notin Failing =>
    /\ Tidy(nat)
    /\ ~MayWanDown => Awake(nat)

IInv == TypeOK /\ TableOfWan /\ CacheTidy /\ (~isNatThreadStart => udp = Idle)

LEMMA InitInv == Init => IInv
<1> SUFFICES ASSUME Init PROVE IInv
  OBVIOUS
<1>1. scene \in Scenes /\ nat = NatInit /\ nat.pub_ip_addr = NoIp /\ nat.pub_ip_addr_pre = NoIp
  BY DEF Init, NatInit
<1>2. /\ nat.cache = [i \in Slots |-> Free] /\ nat.hw = [h \in Handles |-> NoRule]
      /\ nat.temp = [k \in Waiting |-> NoTemp] /\ nat.PwrSaveIfs = {}
  BY <1>1 DEF NatInit
<1>3. nat \in Apps
  BY <1>1, <1>2, Zeroes DEF Apps, NatInit, Publics
<1>4. \A i \in Slots : nat.cache[i].flow = NoFlow /\ ~nat.cache[i].enabled /\ nat.cache[i] = Free
  BY <1>2, Zeroes
<1>5. Tidy(nat) /\ Awake(nat)
  BY <1>2, <1>4 DEF Tidy, InStep, Awake
<1>6. udp = Idle /\ udp \in [pc : {"idle", "rule", "entry"}, slot : 0 .. MaxEntries,
                             hdl : 0 .. MaxEntries] /\ udp.pc = "idle"
  BY Constants DEF Init, Idle
<1>7. open \in [Flows -> [ip : Addresses, pub : WanIps]]
  BY DEF Init, Closed, Addresses, WanIps
<1>8. TypeOK
  BY <1>3, <1>6, <1>7 DEF Init, TypeOK, WanIps
<1>9. TableOfWan /\ CacheTidy
  BY <1>1, <1>5 DEF Init, TableOfWan, CacheTidy
<1>10. QED
  BY <1>6, <1>8, <1>9 DEF IInv

\* What the definitions that speak of the scene are after a step.
LEMMA SceneStays ==
    ASSUME scene' = scene
    PROVE  /\ Scenes' = Scenes /\ Apps' = Apps /\ NatClients' = NatClients /\ Clients' = Clients
           /\ PubIps' = PubIps /\ WanIps' = WanIps /\ Addresses' = Addresses
           /\ MayWanDown' = MayWanDown /\ Failing' = Failing
           /\ AlgFlows' = AlgFlows /\ Targets' = Targets /\ StaTargets' = StaTargets
BY DEF Apps, Entries, Temps, Rules, Publics, Names, NatClients, Clients, PubIps, WanIps, Addresses,
       MayWanDown, Failing, AlgFlows, Targets, StaTargets, Target, Waiting, MaxTemp, Slots, Handles

\* A step of a method that leaves the WAN interface and the time stamp thread alone.
LEMMA MethodStep ==
    ASSUME IInv, Kept(nat, nat'), UNCHANGED <<wan, thread, scene>>,
           natIfs' \subseteq NatClients, nonNat' \in [Clients -> Nat], saving' \subseteq NatClients,
           open' \in [Flows -> [ip : Addresses, pub : WanIps]]
    PROVE  IInv'
<1>1. /\ scene' = scene /\ WanUp' = WanUp /\ wan_ipaddr' = wan_ipaddr /\ isStaMode' = isStaMode
      /\ isNatThreadStart' = isNatThreadStart /\ udp' = udp
  BY DEF wan, thread
<1>2. nat' \in Apps /\ nat'.pub_ip_addr = nat.pub_ip_addr
      /\ nat'.pub_ip_addr_pre = nat.pub_ip_addr_pre
  BY DEF Kept, SameWan
<1>3. TypeOK'
  BY <1>1, <1>2, SceneStays DEF IInv, TypeOK
<1>4. TableOfWan'
  BY <1>1, <1>2, SceneStays DEF IInv, TableOfWan
<1>5. ("del" \notin Failing /\ Tidy(nat)) => Tidy(nat')
  BY DEF Kept
<1>6. ("del" \notin Failing /\ Tidy(nat) /\ Awake(nat)) => Awake(nat')
  BY DEF Kept
<1>7. CacheTidy'
  BY <1>1, <1>5, <1>6, SceneStays DEF IInv, CacheTidy
<1>8. QED
  BY <1>1, <1>3, <1>4, <1>7 DEF IInv, Idle
-----------------------------------------------------------------------------
(* Every step keeps the invariant.                                         *)

LEMMA FlushesKept ==
    ASSUME scene \in Scenes, NEW n \in Apps, NEW ip, NEW m,
           \/ m \in FlushTempEntries(n, ip, TRUE, FALSE)
           \/ m \in FlushTempEntries(n, ip, TRUE, TRUE)
           \/ m \in FlushTempEntries(n, ip, FALSE, FALSE)
    PROVE  Kept(n, m)
BY FlushKept, Zenon

LEMMA FlushesSpare ==
    ASSUME scene \in Scenes, NEW n \in Apps, NEW ip, NEW m,
           \/ m \in FlushTempEntries(n, ip, TRUE, FALSE) /\ (Plain => ip \in NatClients)
           \/ m \in FlushTempEntries(n, ip, TRUE, TRUE)
           \/ m \in FlushTempEntries(n, ip, FALSE, FALSE)
    PROVE  Spares(n, m)
<1>1. CASE m \in FlushTempEntries(n, ip, TRUE, FALSE) /\ (Plain => ip \in NatClients)
  <2>1. Harmless(ip, TRUE, FALSE)
    BY <1>1 DEF Harmless
  <2>2. QED
    BY <1>1, <2>1, FlushKept, Zenon
<1>2. CASE m \in FlushTempEntries(n, ip, TRUE, TRUE)
  <2>1. Harmless(ip, TRUE, TRUE)
    BY DEF Harmless
  <2>2. QED
    BY <1>2, <2>1, FlushKept, Zenon
<1>3. CASE m \in FlushTempEntries(n, ip, FALSE, FALSE)
  <2>1. Harmless(ip, FALSE, FALSE)
    BY DEF Harmless
  <2>2. QED
    BY <1>3, <2>1, FlushKept, Zenon
<1>4. QED
  BY <1>1, <1>2, <1>3

LEMMA UpStep ==
    ASSUME IInv, NEW pub \in PubIps, NEW isSta \in BOOLEAN, TriggerWANUp(pub, isSta)
    PROVE  IInv'
<1>1. /\ ~WanUp /\ WanUp' = TRUE /\ wan_ipaddr' = pub /\ isStaMode' = isSta
      /\ nat' \in AddTable(nat, pub) /\ scene' = scene /\ udp' = udp /\ open' = open
      /\ nat.pub_ip_addr = NoIp
      /\ natIfs' = natIfs /\ nonNat' = nonNat /\ saving' = saving
  BY DEF TriggerWANUp
<1>2. /\ scene \in Scenes /\ nat \in Apps
      /\ ~MayWanDown => nat.pub_ip_addr_pre = NoIp
  BY <1>1 DEF IInv, TypeOK, TableOfWan
<1>3. /\ nat' \in Apps /\ nat'.pub_ip_addr \in {NoIp, pub}
      /\ nat'.pub_ip_addr_pre = nat.pub_ip_addr_pre
      /\ Tidy(nat) => Tidy(nat')
      /\ (Tidy(nat) /\ Awake(nat) /\ nat.pub_ip_addr_pre = NoIp) => Awake(nat')
  BY <1>1, <1>2, AddTableKept
<1>4. isNatThreadStart' \in BOOLEAN /\ (~isNatThreadStart' => ~isNatThreadStart)
  BY <1>2, ListenerAssumption DEF TriggerWANUp, ThreadStarts
<1>5. TypeOK'
  BY <1>1, <1>3, <1>4, SceneStays DEF IInv, TypeOK, WanIps
<1>6. TableOfWan'
  BY <1>1, <1>2, <1>3, SceneStays DEF TableOfWan
<1>7. CacheTidy'
  BY <1>1, <1>2, <1>3, <1>4, SceneStays DEF IInv, CacheTidy
<1>8. QED
  BY <1>1, <1>4, <1>5, <1>6, <1>7 DEF IInv, Idle

LEMMA DownStep ==
    ASSUME IInv, NEW pub \in PubIps, TriggerWANDown(pub)
    PROVE  IInv'
<1>1. /\ MayWanDown /\ WanUp /\ WanUp' = FALSE /\ wan_ipaddr' = wan_ipaddr
      /\ isStaMode' = isStaMode /\ nat' \in DeleteTable(nat, pub) /\ scene' = scene
      /\ udp' = udp /\ isNatThreadStart' = isNatThreadStart /\ open' = open
      /\ natIfs' = natIfs /\ nonNat' = nonNat /\ saving' = saving
  BY DEF TriggerWANDown, thread
<1>2. nat \in Apps
  BY DEF IInv, TypeOK
<1>3. nat' \in Apps /\ (Tidy(nat) => Tidy(nat'))
  BY <1>1, <1>2, DeleteTableKept
<1>4. TypeOK'
  BY <1>1, <1>3, SceneStays DEF IInv, TypeOK
<1>5. TableOfWan'
  BY <1>1, <1>3, SceneStays DEF TableOfWan
<1>6. CacheTidy'
  BY <1>1, <1>3, SceneStays DEF IInv, CacheTidy
<1>7. QED
  BY <1>1, <1>4, <1>5, <1>6 DEF IInv, Idle

LEMMA ClientStep ==
    ASSUME IInv, NEW c \in Clients,
           \/ HandleNeighIpAddrAddEvt(c)
           \/ HandleNeighIpAddrDelEvt(c)
           \/ HandleNonNatIPAddrAdd(c)
           \/ HandleNonNatIPAddrDel(c)
           \/ handle_wlan_client_pwrsave(c)
           \/ WlanClientRecover(c)
    PROVE  IInv'
<1>1. /\ scene \in Scenes /\ nat \in Apps /\ natIfs \subseteq NatClients
      /\ saving \subseteq NatClients /\ nonNat \in [Clients -> Nat]
      /\ open \in [Flows -> [ip : Addresses, pub : WanIps]]
  BY DEF IInv, TypeOK
<1>2. CASE HandleNeighIpAddrAddEvt(c)
  <2>1. PICK m \in ResetPwrSaveIf(nat, c) : nat' \in FlushTempEntries(m, c, TRUE, FALSE)
    BY <1>2, Zenon DEF HandleNeighIpAddrAddEvt, Then
  <2>2. Kept(nat, m) /\ m \in Apps
    BY <1>1, ResetPwrSaveIfKept DEF Kept
  <2>3. Kept(m, nat')
    BY <1>1, <2>1, <2>2, FlushesKept
  <2>4. Kept(nat, nat')
    BY <2>2, <2>3, KeptTwice
  <2>5. QED
    BY <1>1, <1>2, <2>4, MethodStep DEF HandleNeighIpAddrAddEvt
<1>3. CASE HandleNeighIpAddrDelEvt(c)
  <2>1. PICK m \in FlushTempEntries(nat, c, FALSE, FALSE) : nat' \in DelEntriesOnClntDiscon(m, c)
    BY <1>3, Zenon DEF HandleNeighIpAddrDelEvt, Then
  <2>2. Kept(nat, m) /\ m \in Apps
    BY <1>1, FlushesKept DEF Kept
  <2>3. Kept(m, nat')
    BY <2>1, <2>2, ClientGoneKept
  <2>4. Kept(nat, nat')
    BY <2>2, <2>3, KeptTwice
  <2>5. QED
    BY <1>1, <1>3, <2>4, MethodStep DEF HandleNeighIpAddrDelEvt
<1>4. CASE HandleNonNatIPAddrAdd(c)
  <2>1. Kept(nat, nat')
    BY <1>1, <1>4, FlushesKept DEF HandleNonNatIPAddrAdd
  <2>2. nonNat' \in [Clients -> Nat]
    BY <1>1, <1>4 DEF HandleNonNatIPAddrAdd
  <2>3. QED
    BY <1>1, <1>4, <2>1, <2>2, MethodStep DEF HandleNonNatIPAddrAdd
<1>5. CASE HandleNonNatIPAddrDel(c)
  <2>1. PICK m \in FlushTempEntries(nat, c, FALSE, FALSE) : nat' \in DelEntriesOnClntDiscon(m, c)
    BY <1>5, Zenon DEF HandleNonNatIPAddrDel, Then
  <2>2. Kept(nat, m) /\ m \in Apps
    BY <1>1, FlushesKept DEF Kept
  <2>3. Kept(m, nat')
    BY <2>1, <2>2, ClientGoneKept
  <2>4. Kept(nat, nat')
    BY <2>2, <2>3, KeptTwice
  <2>5. nonNat' \in [Clients -> Nat]
    BY <1>1, <1>5 DEF HandleNonNatIPAddrDel
  <2>6. QED
    BY <1>1, <1>5, <2>4, <2>5, MethodStep DEF HandleNonNatIPAddrDel
<1>6. CASE handle_wlan_client_pwrsave(c)
  <2>1. Kept(nat, nat')
    BY <1>1, <1>6, UpdatePwrSaveIfKept, KeptSame DEF handle_wlan_client_pwrsave
  <2>2. QED
    BY <1>1, <1>6, <2>1, MethodStep DEF handle_wlan_client_pwrsave
<1>7. CASE WlanClientRecover(c)
  <2>1. Kept(nat, nat')
    BY <1>1, <1>7, ResetPwrSaveIfKept, KeptSame DEF WlanClientRecover
  <2>2. QED
    BY <1>1, <1>7, <2>1, MethodStep DEF WlanClientRecover
<1>8. QED
  BY <1>2, <1>3, <1>4, <1>5, <1>6, <1>7

LEMMA StationStep ==
    ASSUME IInv, NEW t, HandleSTAClientAddEvt(t) \/ HandleSTAClientDelEvt(t)
    PROVE  IInv'
<1>1. /\ scene \in Scenes /\ nat \in Apps /\ natIfs \subseteq NatClients
      /\ saving \subseteq NatClients /\ nonNat \in [Clients -> Nat]
      /\ open \in [Flows -> [ip : Addresses, pub : WanIps]]
  BY DEF IInv, TypeOK
<1>2. UNCHANGED <<wan, natIfs, nonNat, saving, open, thread, scene>>
  BY DEF HandleSTAClientAddEvt, HandleSTAClientDelEvt
<1>3. CASE HandleSTAClientAddEvt(t)
  <2>1. nat' = nat \/ nat' \in FlushTempEntries(nat, t, TRUE, FALSE)
    BY <1>3, Zenon DEF HandleSTAClientAddEvt
  <2>2. Kept(nat, nat')
    BY <1>1, <2>1, FlushesKept, KeptSame
  <2>3. QED
    BY <1>1, <1>2, <2>2, MethodStep
<1>4. CASE HandleSTAClientDelEvt(t)
  <2>1. PICK m : /\ m = nat \/ m \in DelEntriesOnSTAClntDiscon(nat, t)
                 /\ nat' \in FlushTempEntries(m, t, FALSE, FALSE)
    BY <1>4 DEF HandleSTAClientDelEvt, Then
  <2>2. Kept(nat, m) /\ m \in Apps
    BY <1>1, <2>1, StaClientGoneKept, KeptSame DEF Kept
  <2>3. Kept(m, nat')
    BY <1>1, <2>1, <2>2, FlushesKept
  <2>4. Kept(nat, nat')
    BY <2>2, <2>3, KeptTwice
  <2>5. QED
    BY <1>1, <1>2, <2>4, MethodStep
<1>5. QED
  BY <1>3, <1>4
LEMMA EntryOfConnection ==
    ASSUME IInv, NEW f \in Flows, NEW ip \in Addresses
    PROVE  Entry(f, ip) \in Temps /\ Entry(f, ip).flow = f /\ Entry(f, ip).flow # NoFlow
<1>1. EntryIp(f, ip) \in Addresses /\ wan_ipaddr \in WanIps
  BY DEF IInv, TypeOK, EntryIp, Addresses
<1>2. QED
  BY <1>1, Constants DEF Entry, Temps, Names

LEMMA ConnectionStep ==
    ASSUME IInv, NEW f \in Flows,
           (\E ip \in Clients \cup PubIps : ConnectionUp(f, ip)) \/ ConnectionDown(f)
    PROVE  IInv'
<1>1. /\ scene \in Scenes /\ nat \in Apps /\ natIfs \subseteq NatClients
      /\ saving \subseteq NatClients /\ nonNat \in [Clients -> Nat]
      /\ open \in [Flows -> [ip : Addresses, pub : WanIps]] /\ wan_ipaddr \in WanIps
  BY DEF IInv, TypeOK
<1>2. ASSUME NEW ip \in Clients \cup PubIps, ConnectionUp(f, ip) PROVE IInv'
  <2> DEFINE r == Entry(f, ip)
  <2>1. ip \in Addresses
    BY DEF Addresses, WanIps
  <2>2. r \in Temps /\ r.flow # NoFlow
    BY <2>1, EntryOfConnection
  <2>3. nat' = nat \/ nat' \in CacheEntry(nat, r) \/ nat' \in AddTempEntry(nat, r)
        \/ nat' \in AddEntry(nat, r)
    BY <1>2, Zenon DEF ConnectionUp, Established
  <2> HIDE DEF r
  <2>4. Kept(nat, nat')
    BY <1>1, <2>2, <2>3, CacheEntryKept, AddTempEntryKept, AddEntryKept, KeptSame
  <2>5. open' \in [Flows -> [ip : Addresses, pub : WanIps]]
    <3> DEFINE v == [ip |-> ip, pub |-> IF WanUp THEN wan_ipaddr ELSE NoIp]
    <3>1. v \in [ip : Addresses, pub : WanIps]
      BY <1>1, <2>1 DEF WanIps
    <3>2. open' = open \/ open' = [open EXCEPT ![f] = v]
      BY <1>2, Zenon DEF ConnectionUp
    <3> HIDE DEF v
    <3>3. QED
      BY <1>1, <3>1, <3>2
  <2>6. QED
    BY <1>1, <1>2, <2>4, <2>5, MethodStep DEF ConnectionUp
<1>3. ASSUME ConnectionDown(f) PROVE IInv'
  <2> DEFINE r == Entry(f, open[f].ip)
  <2>1. open[f].ip \in Addresses
    BY <1>1
  <2>2. r \in Temps /\ r.flow # NoFlow
    BY <2>1, EntryOfConnection
  <2>3. nat' = nat \/ \E m \in DeleteEntry(nat, r) : nat' \in DeleteTempEntry(m, r)
    BY <1>3, Zenon DEF ConnectionDown, Destroyed, Then
  <2> HIDE DEF r
  <2>4. ASSUME NEW m \in DeleteEntry(nat, r), nat' \in DeleteTempEntry(m, r)
        PROVE  Kept(nat, nat')
    <3>1. Kept(nat, m) /\ m \in Apps
      BY <1>1, <2>2, DeleteEntryKept DEF Kept
    <3>2. Kept(m, nat')
      BY <1>1, <2>2, <2>4, <3>1, DeleteTempEntryKept
    <3>3. QED
      BY <3>1, <3>2, KeptTwice
  <2>5. Kept(nat, nat')
    BY <1>1, <2>3, <2>4, KeptSame
  <2>6. open' \in [Flows -> [ip : Addresses, pub : WanIps]]
    <3>1. Closed \in [ip : Addresses, pub : WanIps] /\ open' = [open EXCEPT ![f] = Closed]
      BY <1>3 DEF ConnectionDown, Closed, Addresses, WanIps
    <3>2. QED
      BY <1>1, <3>1
  <2>7. QED
    BY <1>1, <1>3, <2>5, <2>6, MethodStep DEF ConnectionDown
<1>4. QED
  BY <1>2, <1>3

\* The time stamp thread may leave anything behind but a NatApp of the wrong type.
LEMMA ThreadStep ==
    ASSUME IInv, (\E i \in Slots : UpdateCTUdpTs(i)) \/ UdpDeleteRule \/ UdpForgetEntry
    PROVE  IInv'
<1>1. /\ scene \in Scenes /\ nat \in Apps /\ isNatThreadStart \in BOOLEAN
      /\ udp \in [pc : {"idle", "rule", "entry"}, slot : 0 .. MaxEntries, hdl : 0 .. MaxEntries]
      /\ udp.pc # "idle" => udp.slot \in Slots
      /\ ~isNatThreadStart => udp = Idle
  BY DEF IInv, TypeOK
<1>2. /\ isNatThreadStart /\ isNatThreadStart' = isNatThreadStart /\ scene' = scene
      /\ WanUp' = WanUp /\ wan_ipaddr' = wan_ipaddr /\ isStaMode' = isStaMode
      /\ natIfs' = natIfs /\ nonNat' = nonNat /\ saving' = saving /\ open' = open
  BY <1>1 DEF UpdateCTUdpTs, UdpDeleteRule, UdpForgetEntry, wan, Idle
<1>3. /\ nat' \in Apps /\ SameWan(nat, nat')
      /\ udp' \in [pc : {"idle", "rule", "entry"}, slot : 0 .. MaxEntries, hdl : 0 .. MaxEntries]
      /\ udp'.pc # "idle" => udp'.slot \in Slots
  <2>1. CASE \E i \in Slots : UpdateCTUdpTs(i)
    <3>1. PICK i \in Slots : UpdateCTUdpTs(i)
      BY <2>1
    <3>2. nat.cache[i].hdl \in 0 .. MaxEntries /\ i \in 0 .. MaxEntries
      BY <1>1, Constants DEF Apps, Entries, Handles
    <3>3. nat' = nat /\ udp' = [pc |-> "rule", slot |-> i, hdl |-> nat.cache[i].hdl]
      BY <3>1 DEF UpdateCTUdpTs
    <3>4. QED
      BY <1>1, <3>2, <3>3 DEF SameWan
  <2>2. CASE UdpDeleteRule
    <3>1. /\ nat' \in DelRule(nat, udp.hdl, nat, nat) /\ udp' = [udp EXCEPT !.pc = "entry"]
          /\ udp.pc = "rule"
      BY <2>2 DEF UdpDeleteRule
    <3>2. udp.hdl \in 0 .. MaxEntries
      BY <1>1
    <3>3. nat' \in Apps /\ SameElse(nat, nat')
      BY <1>1, <3>1, <3>2, DelRuleKeeps
    <3>4. QED
      BY <1>1, <3>1, <3>3 DEF SameElse
  <2>3. CASE UdpForgetEntry
    <3>1. nat' = Filled(nat, udp.slot, Free) /\ udp' = Idle /\ udp.slot \in Slots
      BY <1>1, <2>3 DEF UdpForgetEntry, Filled
    <3>2. nat' \in Apps /\ SameElse(nat, nat')
      BY <1>1, <3>1, SlotSet, Zeroes
    <3>3. QED
      BY <1>1, <3>1, <3>2, Constants DEF SameElse, Idle
  <2>4. QED
    BY <2>1, <2>2, <2>3
<1>4. TypeOK'
  BY <1>2, <1>3, SceneStays DEF IInv, TypeOK
<1>5. TableOfWan'
  BY <1>2, <1>3, SceneStays DEF IInv, TableOfWan, SameWan
<1>6. CacheTidy'
  BY <1>2 DEF CacheTidy
<1>7. QED
  BY <1>2, <1>4, <1>5, <1>6 DEF IInv

LEMMA NextInv == IInv /\ [Next]_vars => IInv'
<1> SUFFICES ASSUME IInv, [Next]_vars PROVE IInv'
  OBVIOUS
<1>1. CASE UNCHANGED vars
  <2>1. /\ UNCHANGED <<wan, thread, scene>> /\ nat' = nat /\ natIfs' = natIfs
        /\ nonNat' = nonNat /\ saving' = saving /\ open' = open
    BY <1>1 DEF vars
  <2>2. Kept(nat, nat')
    BY <2>1, KeptSame DEF IInv, TypeOK
  <2>3. QED
    BY <2>1, <2>2, MethodStep DEF IInv, TypeOK
<1>2. CASE \E pub \in PubIps, isSta \in BOOLEAN : TriggerWANUp(pub, isSta)
  BY <1>2, UpStep
<1>3. CASE \E pub \in PubIps : TriggerWANDown(pub)
  BY <1>3, DownStep
<1>4. CASE \E c \in Clients : \/ HandleNeighIpAddrAddEvt(c)
                              \/ HandleNeighIpAddrDelEvt(c)
                              \/ HandleNonNatIPAddrAdd(c)
                              \/ HandleNonNatIPAddrDel(c)
                              \/ handle_wlan_client_pwrsave(c)
                              \/ WlanClientRecover(c)
  BY <1>4, ClientStep
<1>5. CASE \E t \in Targets : HandleSTAClientAddEvt(t) \/ HandleSTAClientDelEvt(t)
  BY <1>5, StationStep
<1>6. CASE \E f \in Flows : \/ \E ip \in Clients \cup PubIps : ConnectionUp(f, ip)
                            \/ ConnectionDown(f)
  BY <1>6, ConnectionStep
<1>7. CASE (\E i \in Slots : UpdateCTUdpTs(i)) \/ UdpDeleteRule \/ UdpForgetEntry
  BY <1>7, ThreadStep
<1>8. QED
  BY <1>1, <1>2, <1>3, <1>4, <1>5, <1>6, <1>7 DEF Next

-----------------------------------------------------------------------------
(* The rules that must not be.                                             *)

\* An interface is NATed or not.
NatOnly == \A c \in NatClients : nonNat[c] = 0

\* What was opened before the WAN came up first has no public address.
NeverUp == ~MayWanDown /\ ~WanUp => \A f \in Flows : open[f].pub = NoIp

NoneToOthers == ~MayWanDown /\ Plain =>
    \A h \in Handles : nat.hw[h].ip \notin Clients \ NatClients

\* A connection on an ALG port is cached while there is no table; its entry stays the
\* one of a connection that is open, or never gets a rule.
AlgCached == ~MayWanDown /\ Targets \cap Clients = {} /\ ~isNatThreadStart /\ "del" \notin Failing =>
    \A i \in Slots : nat.cache[i].flow \in AlgFlows =>
        IF nat.cache[i].ip \in NatClients
        THEN open[nat.cache[i].flow] = [ip |-> nat.cache[i].ip, pub |-> NoIp]
        ELSE ~nat.cache[i].enabled

SparedInv == NatOnly /\ NeverUp /\ NoneToOthers /\ AlgCached

LEMMA InitSpared == Init => SparedInv
<1> SUFFICES ASSUME Init PROVE SparedInv
  OBVIOUS
<1>1. scene \in Scenes /\ nat.cache = [i \in Slots |-> Free] /\ nat.hw = [h \in Handles |-> NoRule]
  BY DEF Init, NatInit
<1>2. NatOnly /\ NeverUp
  BY <1>1, SceneFacts DEF Init, NatOnly, NeverUp, Closed
<1>3. NoneToOthers
  BY <1>1, Zeroes, SceneFacts DEF NoneToOthers
<1>4. AlgCached
  BY <1>1, Zeroes, SceneFacts, Constants DEF AlgCached
<1>5. QED
  BY <1>2, <1>3, <1>4 DEF SparedInv

\* A step that spares whom it should, and opens connections only that were not open.
LEMMA SparedStep ==
    ASSUME IInv, SparedInv, nat' \in Apps, Spares(nat, nat'), scene' = scene,
           \A f \in Flows : open'[f] = open[f] \/ open[f].ip = NoIp,
           NatOnly', NeverUp', ~isNatThreadStart' => ~isNatThreadStart
    PROVE  SparedInv'
<1>1. scene \in Scenes /\ nat \in Apps
  BY DEF IInv, TypeOK
<1>2. ASSUME ~MayWanDown, Plain, NEW h \in Handles
      PROVE  nat'.hw[h].ip \notin Clients \ NatClients
  <2>1. nat.hw[h].ip \notin Clients \ NatClients
    BY <1>2 DEF SparedInv, NoneToOthers
  <2>2. QED
    BY <1>2, <2>1 DEF Spares, Clean
<1>3. NoneToOthers'
  BY <1>2, SceneStays DEF NoneToOthers, Plain
<1>4. ASSUME ~MayWanDown, Targets \cap Clients = {}, ~isNatThreadStart, "del" \notin Failing,
             NEW i \in Slots, nat'.cache[i].flow \in AlgFlows
      PROVE  IF nat'.cache[i].ip \in NatClients
             THEN open'[nat'.cache[i].flow] = [ip |-> nat'.cache[i].ip, pub |-> NoIp]
             ELSE ~nat'.cache[i].enabled
  <2>1. /\ Rule(nat'.cache[i]) = Rule(nat.cache[i])
        /\ nat'.cache[i].enabled => nat.cache[i].enabled \/ nat.cache[i].ip \in NatClients
    BY <1>4 DEF Spares, Calm
  <2>2. nat'.cache[i] \in Entries /\ nat.cache[i] \in Entries
    BY <1>1 DEF Apps
  <2>3. nat'.cache[i].flow = nat.cache[i].flow /\ nat'.cache[i].ip = nat.cache[i].ip
    BY <2>1, <2>2, RuleOf
  <2>4. IF nat.cache[i].ip \in NatClients
        THEN open[nat.cache[i].flow] = [ip |-> nat.cache[i].ip, pub |-> NoIp]
        ELSE ~nat.cache[i].enabled
    BY <1>4, <2>3 DEF SparedInv, AlgCached
  <2>5. CASE nat.cache[i].ip \in NatClients
    <3>1. open[nat.cache[i].flow].ip # NoIp /\ nat.cache[i].flow \in Flows
      BY <1>1, <1>4, <2>3, <2>4, <2>5, SceneFacts
    <3>2. QED
      BY <2>3, <2>4, <2>5, <3>1
  <2>6. CASE nat.cache[i].ip \notin NatClients
    BY <2>1, <2>3, <2>4, <2>6
  <2>7. QED
    BY <2>5, <2>6
<1>5. AlgCached'
  BY <1>4, SceneStays DEF AlgCached
<1>6. QED
  BY <1>3, <1>5 DEF SparedInv

LEMMA WanSpared ==
    ASSUME IInv, SparedInv, IInv',
           \/ \E pub \in PubIps, isSta \in BOOLEAN : TriggerWANUp(pub, isSta)
           \/ \E pub \in PubIps : TriggerWANDown(pub)
    PROVE  SparedInv'
<1>1. scene \in Scenes /\ nat \in Apps /\ nat' \in Apps /\ scene' = scene /\ isNatThreadStart \in BOOLEAN
  BY SceneStays DEF IInv, TypeOK, TriggerWANUp, TriggerWANDown
<1>2. nonNat' = nonNat /\ open' = open
  BY DEF TriggerWANUp, TriggerWANDown
<1>3. NatOnly'
  BY <1>1, <1>2, SceneStays DEF SparedInv, NatOnly
<1>4. CASE \E pub \in PubIps : TriggerWANDown(pub)
  BY <1>1, <1>3, <1>4, SceneStays
     DEF TriggerWANDown, SparedInv, NeverUp, NoneToOthers, AlgCached
<1>5. CASE MayWanDown
  BY <1>1, <1>3, <1>5, SceneStays DEF SparedInv, NeverUp, NoneToOthers, AlgCached
<1>6. ASSUME ~MayWanDown, NEW pub \in PubIps, NEW isSta \in BOOLEAN, TriggerWANUp(pub, isSta)
      PROVE  SparedInv'
  <2>1. pub # nat.pub_ip_addr_pre
    BY <1>1, <1>6, SceneFacts DEF IInv, TableOfWan
  <2>2. nat'.cache = nat.cache /\ nat'.hw = nat.hw
    BY <1>1, <1>6, <2>1, AddTableSpares DEF TriggerWANUp
  <2>3. Spares(nat, nat')
    BY <2>2, SparesSame
  <2>4. NeverUp'
    BY <1>6 DEF NeverUp, TriggerWANUp
  <2>5. ~isNatThreadStart' => ~isNatThreadStart
    BY <1>1, <1>6 DEF TriggerWANUp
  <2>6. QED
    BY <1>1, <1>2, <1>3, <2>3, <2>4, <2>5, SparedStep
<1>7. QED
  BY <1>4, <1>5, <1>6

\* A client or a peer that comes or goes.
LEMMA OthersSpared ==
    ASSUME IInv, SparedInv, Spares(nat, nat'), nat' \in Apps, UNCHANGED <<wan, open, thread, scene>>,
           NatOnly'
    PROVE  SparedInv'
<1>1. scene' = scene /\ open' = open /\ WanUp' = WanUp /\ isNatThreadStart' = isNatThreadStart
  BY DEF wan, thread
<1>2. NeverUp'
  BY <1>1, SceneStays DEF SparedInv, NeverUp
<1>3. QED
  BY <1>1, <1>2, SparedStep

LEMMA ClientSpared ==
    ASSUME IInv, SparedInv, NEW c \in Clients,
           \/ HandleNeighIpAddrAddEvt(c)
           \/ HandleNeighIpAddrDelEvt(c)
           \/ HandleNonNatIPAddrAdd(c)
           \/ HandleNonNatIPAddrDel(c)
           \/ handle_wlan_client_pwrsave(c)
           \/ WlanClientRecover(c)
    PROVE  SparedInv'
<1>1. /\ scene \in Scenes /\ nat \in Apps /\ natIfs \subseteq NatClients
      /\ saving \subseteq NatClients /\ nonNat \in [Clients -> Nat]
  BY DEF IInv, TypeOK
<1>2. CASE HandleNeighIpAddrAddEvt(c)
  <2>1. PICK m \in ResetPwrSaveIf(nat, c) : nat' \in FlushTempEntries(m, c, TRUE, FALSE)
    BY <1>2, Zenon DEF HandleNeighIpAddrAddEvt, Then
  <2>2. c \in NatClients
    BY <1>2 DEF HandleNeighIpAddrAddEvt
  <2>3. m \in Apps /\ Spares(nat, m)
    BY <1>1, <2>2, ResetPwrSaveIfKept, ResetPwrSaveIfSpares DEF Kept
  <2>4. nat' \in Apps /\ Spares(m, nat')
    BY <1>1, <2>1, <2>2, <2>3, FlushesKept, FlushesSpare DEF Kept
  <2>5. Spares(nat, nat')
    BY <1>1, <2>3, <2>4, SparesTwice
  <2>6. NatOnly'
    BY <1>2, SceneStays DEF HandleNeighIpAddrAddEvt, SparedInv, NatOnly
  <2>7. QED
    BY <1>2, <2>4, <2>5, <2>6, OthersSpared DEF HandleNeighIpAddrAddEvt
<1>3. CASE HandleNeighIpAddrDelEvt(c) \/ HandleNonNatIPAddrDel(c)
  <2>1. PICK m \in FlushTempEntries(nat, c, FALSE, FALSE) : nat' \in DelEntriesOnClntDiscon(m, c)
    BY <1>3, Zenon DEF HandleNeighIpAddrDelEvt, HandleNonNatIPAddrDel, Then
  <2>2. m \in Apps /\ Spares(nat, m)
    BY <1>1, FlushesKept, FlushesSpare DEF Kept
  <2>3. nat' \in Apps /\ Spares(m, nat')
    BY <1>1, <2>1, <2>2, ClientGoneKept, ClientGoneSpares DEF Kept
  <2>4. Spares(nat, nat')
    BY <1>1, <2>2, <2>3, SparesTwice
  <2>5. NatOnly'
    <3>1. CASE HandleNeighIpAddrDelEvt(c)
      BY <3>1, SceneStays DEF HandleNeighIpAddrDelEvt, SparedInv, NatOnly
    <3>2. CASE HandleNonNatIPAddrDel(c)
      <4>1. nonNat[c] > 0 /\ nonNat' = [nonNat EXCEPT ![c] = @ - 1] /\ scene' = scene
        BY <3>2 DEF HandleNonNatIPAddrDel
      <4>2. QED
        BY <1>1, <4>1, SceneFacts, SceneStays DEF SparedInv, NatOnly
    <3>3. QED
      BY <1>3, <3>1, <3>2
  <2>6. UNCHANGED <<wan, open, thread, scene>>
    BY <1>3 DEF HandleNeighIpAddrDelEvt, HandleNonNatIPAddrDel
  <2>7. QED
    BY <2>3, <2>4, <2>5, <2>6, OthersSpared
<1>4. CASE HandleNonNatIPAddrAdd(c)
  <2>1. nat' \in Apps /\ Spares(nat, nat')
    BY <1>1, <1>4, FlushesKept, FlushesSpare DEF HandleNonNatIPAddrAdd, Kept
  <2>2. c \notin NatClients /\ nonNat' = [nonNat EXCEPT ![c] = @ + 1] /\ scene' = scene
    BY <1>4 DEF HandleNonNatIPAddrAdd
  <2>3. NatOnly'
    BY <1>1, <2>2, SceneFacts, SceneStays DEF SparedInv, NatOnly
  <2>4. QED
    BY <1>4, <2>1, <2>3, OthersSpared DEF HandleNonNatIPAddrAdd
<1>5. CASE handle_wlan_client_pwrsave(c) \/ WlanClientRecover(c)
  <2>1. c \in NatClients
    BY <1>1, <1>5 DEF handle_wlan_client_pwrsave, WlanClientRecover
  <2>2. nat' = nat \/ nat' \in UpdatePwrSaveIf(nat, c) \/ nat' \in ResetPwrSaveIf(nat, c)
    BY <1>5 DEF handle_wlan_client_pwrsave, WlanClientRecover
  <2>3. nat' \in Apps
    BY <1>1, <2>2, UpdatePwrSaveIfKept, ResetPwrSaveIfKept DEF Kept
  <2>4. Spares(nat, nat')
    BY <1>1, <2>1, <2>2, UpdatePwrSaveIfSpares, ResetPwrSaveIfSpares, SparesSame
  <2>5. NatOnly'
    BY <1>5, SceneStays DEF handle_wlan_client_pwrsave, WlanClientRecover, SparedInv, NatOnly
  <2>6. QED
    BY <1>5, <2>3, <2>4, <2>5, OthersSpared DEF handle_wlan_client_pwrsave, WlanClientRecover
<1>6. QED
  BY <1>2, <1>3, <1>4, <1>5

LEMMA StationSpared ==
    ASSUME IInv, SparedInv, NEW t, HandleSTAClientAddEvt(t) \/ HandleSTAClientDelEvt(t)
    PROVE  SparedInv'
<1>1. scene \in Scenes /\ nat \in Apps
  BY DEF IInv, TypeOK
<1>2. UNCHANGED <<wan, open, thread, scene>> /\ nonNat' = nonNat /\ scene' = scene /\ ~Plain
  BY DEF HandleSTAClientAddEvt, HandleSTAClientDelEvt, Plain
<1>3. NatOnly'
  BY <1>2, SceneStays DEF SparedInv, NatOnly
<1>4. CASE HandleSTAClientAddEvt(t)
  <2>1. nat' = nat \/ nat' \in FlushTempEntries(nat, t, TRUE, FALSE)
    BY <1>4, Zenon DEF HandleSTAClientAddEvt
  <2>2. nat' \in Apps /\ Spares(nat, nat')
    BY <1>1, <1>2, <2>1, FlushesKept, FlushesSpare, SparesSame DEF Kept
  <2>3. QED
    BY <1>2, <1>3, <2>2, OthersSpared
<1>5. CASE HandleSTAClientDelEvt(t)
  <2>1. PICK m : /\ m = nat \/ m \in DelEntriesOnSTAClntDiscon(nat, t)
                 /\ nat' \in FlushTempEntries(m, t, FALSE, FALSE)
    BY <1>5 DEF HandleSTAClientDelEvt, Then
  <2>2. m \in Apps /\ Spares(nat, m)
    BY <1>1, <2>1, StaClientGoneKept, StaClientGoneSpares, SparesSame DEF Kept
  <2>3. nat' \in Apps /\ Spares(m, nat')
    BY <1>1, <2>1, <2>2, FlushesKept, FlushesSpare DEF Kept
  <2>4. Spares(nat, nat')
    BY <1>1, <2>2, <2>3, SparesTwice
  <2>5. QED
    BY <1>2, <1>3, <2>3, <2>4, OthersSpared
<1>6. QED
  BY <1>4, <1>5

\* The kernel's connections: which of them get an entry, and whose address is in it.
LEMMA EstablishedPlain ==
    ASSUME IInv, NEW f \in Flows, NEW ip \in Clients \cup PubIps, Plain, WanUp, ~AddIface(f, ip)
    PROVE  EntryIp(f, ip) \notin Clients \ NatClients
<1>1. /\ scene \in Scenes /\ natIfs \subseteq NatClients /\ wan_ipaddr \in PubIps
      /\ wan_ipaddr \notin Clients
  BY SceneFacts DEF IInv, TypeOK, TableOfWan
<1>2. Target[f] \notin Clients
  BY DEF Plain, Targets
<1>3. Matches(f, ip, natIfs) <=> ip \in natIfs
  BY <1>1, <1>2, SceneFacts DEF Matches
<1>4. QED
  BY <1>1, <1>3 DEF AddIface, EntryIp

LEMMA UpSpared ==
    ASSUME IInv, SparedInv, NEW f \in Flows, NEW ip \in Clients \cup PubIps, ConnectionUp(f, ip)
    PROVE  SparedInv'
<1> DEFINE r == Entry(f, ip)
           v == [ip |-> ip, pub |-> IF WanUp THEN wan_ipaddr ELSE NoIp]
<1>1. /\ scene \in Scenes /\ nat \in Apps /\ open \in [Flows -> [ip : Addresses, pub : WanIps]]
      /\ wan_ipaddr \in WanIps
  BY DEF IInv, TypeOK
<1>2. /\ open[f].ip \in {NoIp, ip} /\ open' = IF open[f].ip = ip THEN open ELSE [open EXCEPT ![f] = v]
      /\ nonNat' = nonNat /\ scene' = scene /\ WanUp' = WanUp
      /\ isNatThreadStart' = isNatThreadStart
  BY DEF ConnectionUp, wan, thread
<1>3. r \in Temps /\ r.flow = f /\ r.flow # NoFlow /\ r.ip = EntryIp(f, ip) /\ ip # NoIp
  BY <1>1, EntryOfConnection, SceneFacts DEF Addresses, WanIps, Entry
<1>4. \A g \in Flows : open'[g] = open[g] \/ (g = f /\ open[g].ip = NoIp)
  BY <1>1, <1>2
<1>5. NatOnly'
  BY <1>2, SceneStays DEF SparedInv, NatOnly
<1>6. ~WanUp => v.pub = NoIp /\ v.ip = ip
  OBVIOUS
<1>7. ~WanUp => open'[f].ip = ip /\ (open'[f] = open[f] \/ open'[f] = v)
  BY <1>1, <1>2
<1>8. NeverUp'
  BY <1>2, <1>4, <1>6, <1>7, SceneStays DEF SparedInv, NeverUp
<1>9. \/ nat' = nat
      \/ ~WanUp /\ nat' \in CacheEntry(nat, r)
      \/ WanUp /\ nat' \in AddTempEntry(nat, r)
      \/ WanUp /\ ~AddIface(f, ip) /\ nat' \in AddEntry(nat, r)
  BY Zenon DEF ConnectionUp, Established
<1> HIDE DEF r, v
<1>10. CASE nat' = nat
  BY <1>1, <1>2, <1>4, <1>5, <1>8, <1>10, SparesSame, SparedStep
<1>11. CASE WanUp /\ nat' \in AddTempEntry(nat, r)
  <2>1. nat' \in Apps /\ Spares(nat, nat')
    BY <1>1, <1>3, <1>11, AddTempEntryKept, TempEntrySpares DEF Kept
  <2>2. QED
    BY <1>2, <1>4, <1>5, <1>8, <2>1, SparedStep
<1>12. CASE WanUp /\ ~AddIface(f, ip) /\ nat' \in AddEntry(nat, r)
  <2>1. Plain => r.ip \notin Clients \ NatClients
    BY <1>3, <1>12, EstablishedPlain
  <2>2. nat' \in Apps /\ Spares(nat, nat')
    BY <1>1, <1>3, <1>12, <2>1, AddEntryKept, AddEntrySpares DEF Kept
  <2>3. QED
    BY <1>2, <1>4, <1>5, <1>8, <2>2, SparedStep
<1>13. CASE ~WanUp /\ nat' \in CacheEntry(nat, r)
  <2>1. /\ nat' \in Apps /\ nat'.hw = nat.hw /\ Gains(nat, nat', {Rule(r)})
        /\ \A i \in Slots : nat'.cache[i].enabled => nat'.cache[i] = nat.cache[i]
    BY <1>1, <1>3, <1>13, CacheEntryKeeps
  <2>2. NoneToOthers'
    BY <1>2, <2>1, SceneStays DEF SparedInv, NoneToOthers, Plain
  <2>3. ASSUME ~MayWanDown, Targets \cap Clients = {}, ~isNatThreadStart, "del" \notin Failing,
               NEW i \in Slots, nat'.cache[i].flow \in AlgFlows
        PROVE  IF nat'.cache[i].ip \in NatClients
               THEN open'[nat'.cache[i].flow] = [ip |-> nat'.cache[i].ip, pub |-> NoIp]
               ELSE ~nat'.cache[i].enabled
    <3>1. nat'.cache[i] \in Entries /\ nat.cache[i] \in Entries /\ nat'.cache[i].flow # NoFlow
      BY <1>1, <2>1, <2>3, SceneFacts, Constants DEF Apps
    <3>2. Rule(nat'.cache[i]) = Rule(nat.cache[i]) \/ Rule(nat'.cache[i]) = Rule(r)
      BY <2>1, <3>1, RuleOf DEF Gains
    <3>3. CASE Rule(nat'.cache[i]) = Rule(nat.cache[i])
      <4>1. nat'.cache[i].flow = nat.cache[i].flow /\ nat'.cache[i].ip = nat.cache[i].ip
        BY <3>1, <3>3, RuleOf
      <4>2. IF nat.cache[i].ip \in NatClients
            THEN open[nat.cache[i].flow] = [ip |-> nat.cache[i].ip, pub |-> NoIp]
            ELSE ~nat.cache[i].enabled
        BY <2>3, <4>1 DEF SparedInv, AlgCached
      <4>3. CASE nat.cache[i].ip \in NatClients
        <5>1. open[nat.cache[i].flow].ip # NoIp /\ nat.cache[i].flow \in Flows
          BY <1>1, <2>3, <4>1, <4>2, <4>3, SceneFacts
        <5>2. QED
          BY <1>4, <4>1, <4>2, <4>3, <5>1
      <4>4. CASE nat.cache[i].ip \notin NatClients
        BY <2>1, <4>1, <4>2, <4>4
      <4>5. QED
        BY <4>3, <4>4
    <3>4. CASE Rule(nat'.cache[i]) = Rule(r) /\ Rule(nat'.cache[i]) # Rule(nat.cache[i])
      <4>1. nat'.cache[i].flow = f /\ nat'.cache[i].ip = EntryIp(f, ip)
        BY <1>3, <3>1, <3>4, RuleOf DEF Rule
      <4>2. ~nat'.cache[i].enabled
        BY <2>1, <3>4
      <4>3. ASSUME EntryIp(f, ip) \in NatClients
            PROVE  open'[f] = [ip |-> ip, pub |-> NoIp] /\ EntryIp(f, ip) = ip
        <5>1. EntryIp(f, ip) = ip
          BY <1>1, <4>3, SceneFacts DEF EntryIp
        <5>2. open[f].pub = NoIp /\ open[f] \in [ip : Addresses, pub : WanIps]
          BY <1>1, <1>13, <2>3 DEF SparedInv, NeverUp
        <5>3. open'[f].ip = ip /\ open'[f].pub = NoIp
              /\ (open'[f] = open[f] \/ open'[f] = v)
          BY <1>6, <1>7, <1>13, <5>2
        <5>4. v = [ip |-> ip, pub |-> NoIp]
          BY <1>13 DEF v
        <5>5. QED
          BY <5>1, <5>2, <5>3, <5>4
      <4>4. QED
        BY <4>1, <4>2, <4>3
    <3>5. QED
      BY <3>2, <3>3, <3>4
  <2>4. AlgCached'
    BY <1>2, <2>3, SceneStays DEF AlgCached
  <2>5. QED
    BY <1>5, <1>8, <2>2, <2>4 DEF SparedInv
<1>14. QED
  BY <1>9, <1>10, <1>11, <1>12, <1>13

LEMMA DownSpared ==
    ASSUME IInv, SparedInv, NEW f \in Flows, ConnectionDown(f)
    PROVE  SparedInv'
<1> DEFINE ip == open[f].ip
           r == Entry(f, ip)
<1>1. /\ scene \in Scenes /\ nat \in Apps /\ open \in [Flows -> [ip : Addresses, pub : WanIps]]
      /\ wan_ipaddr \in WanIps
  BY DEF IInv, TypeOK
<1>2. /\ open' = [open EXCEPT ![f] = Closed] /\ nonNat' = nonNat /\ scene' = scene
      /\ WanUp' = WanUp /\ isNatThreadStart' = isNatThreadStart
  BY DEF ConnectionDown, wan, thread
<1>3. ip \in Addresses /\ r \in Temps /\ r.flow = f /\ r.flow # NoFlow /\ r.ip = EntryIp(f, ip)
  BY <1>1, EntryOfConnection DEF Entry
<1>4. \/ nat' = nat /\ ~Relevant(f, ip)
      \/ \E m \in DeleteEntry(nat, r) : nat' \in DeleteTempEntry(m, r)
  BY Zenon DEF ConnectionDown, Destroyed, Then
<1>5. ip = open[f].ip
  OBVIOUS
<1>6. NatOnly'
  BY <1>2, SceneStays DEF SparedInv, NatOnly
<1>7. NeverUp'
  BY <1>1, <1>2, SceneStays DEF SparedInv, NeverUp, Closed
<1> HIDE DEF ip, r
<1>8. ASSUME NEW m \in DeleteEntry(nat, r), nat' \in DeleteTempEntry(m, r)
      PROVE  /\ nat' \in Apps /\ Spares(nat, nat') /\ nat'.cache = m.cache
             /\ Tidy(nat) => ~ChkForDup(m, r)
  <2>1. m \in Apps /\ Spares(nat, m) /\ (Tidy(nat) => ~ChkForDup(m, r))
    BY <1>1, <1>3, DeleteEntryKept, DeleteEntrySpares, DeleteEntryKeeps DEF Kept
  <2>2. nat' \in Apps /\ Spares(m, nat')
    BY <1>1, <1>3, <1>8, <2>1, DeleteTempEntryKept, TempEntrySpares DEF Kept
  <2>3. nat'.cache = m.cache
    BY <1>8, <2>1 DEF DeleteTempEntry, Apps
  <2>4. QED
    BY <1>1, <2>1, <2>2, <2>3, SparesTwice
<1>9. nat' \in Apps /\ Spares(nat, nat')
  BY <1>1, <1>4, <1>8, SparesSame
<1>10. ASSUME ~MayWanDown, Plain, NEW h \in Handles
       PROVE  nat'.hw[h].ip \notin Clients \ NatClients
  BY <1>9, <1>10 DEF SparedInv, NoneToOthers, Spares, Clean
<1>11. NoneToOthers'
  BY <1>2, <1>10, SceneStays DEF NoneToOthers, Plain
<1>12. ASSUME ~MayWanDown, Targets \cap Clients = {}, ~isNatThreadStart, "del" \notin Failing,
              NEW i \in Slots, nat'.cache[i].flow \in AlgFlows
       PROVE  IF nat'.cache[i].ip \in NatClients
              THEN open'[nat'.cache[i].flow] = [ip |-> nat'.cache[i].ip, pub |-> NoIp]
              ELSE ~nat'.cache[i].enabled
  <2>1. /\ Rule(nat'.cache[i]) = Rule(nat.cache[i])
        /\ nat'.cache[i].enabled => nat.cache[i].enabled \/ nat.cache[i].ip \in NatClients
    BY <1>9, <1>12 DEF Spares, Calm
  <2>2. nat'.cache[i] \in Entries /\ nat.cache[i] \in Entries
    BY <1>1, <1>9 DEF Apps
  <2>3. nat'.cache[i].flow = nat.cache[i].flow /\ nat'.cache[i].ip = nat.cache[i].ip
    BY <2>1, <2>2, RuleOf
  <2>4. IF nat.cache[i].ip \in NatClients
        THEN open[nat.cache[i].flow] = [ip |-> nat.cache[i].ip, pub |-> NoIp]
        ELSE ~nat.cache[i].enabled
    BY <1>12, <2>3 DEF SparedInv, AlgCached
  <2>5. ASSUME nat.cache[i].ip \in NatClients, nat.cache[i].flow = f PROVE FALSE
    <3>1. ip \in NatClients /\ ip = nat.cache[i].ip /\ ip \in Clients
      BY <1>1, <1>5, <2>4, <2>5, SceneFacts
    <3>2. ip # wan_ipaddr /\ ip \notin NonNatIfs
      BY <1>1, <3>1, SceneFacts DEF SparedInv, NatOnly, NonNatIfs
    <3>3. Target[f] \notin Clients /\ NonNatIfs \subseteq Clients
      BY <1>12 DEF Targets, NonNatIfs
    <3>4. Relevant(f, ip) /\ EntryIp(f, ip) = ip
      BY <3>1, <3>2, <3>3 DEF Relevant, EntryIp, Matches
    <3>5. PICK m \in DeleteEntry(nat, r) : nat' \in DeleteTempEntry(m, r)
      BY <1>4, <3>4
    <3>6. ~ChkForDup(m, r) /\ nat'.cache = m.cache
      BY <1>8, <1>12, <3>5 DEF IInv, CacheTidy
    <3>7. Same(nat'.cache[i], r)
      BY <1>3, <2>3, <2>5, <3>1, <3>4 DEF Same
    <3>8. QED
      BY <3>6, <3>7 DEF ChkForDup
  <2>6. CASE nat.cache[i].ip \in NatClients
    <3>1. nat.cache[i].flow # f /\ nat.cache[i].flow \in Flows
      BY <1>1, <1>12, <2>3, <2>5, <2>6, SceneFacts
    <3>2. open'[nat.cache[i].flow] = open[nat.cache[i].flow]
      BY <1>1, <1>2, <3>1
    <3>3. QED
      BY <2>3, <2>4, <2>6, <3>2
  <2>7. CASE nat.cache[i].ip \notin NatClients
    BY <2>1, <2>3, <2>4, <2>7
  <2>8. QED
    BY <2>6, <2>7
<1>13. AlgCached'
  BY <1>2, <1>12, SceneStays DEF AlgCached
<1>14. QED
  BY <1>6, <1>7, <1>11, <1>13 DEF SparedInv

\* The time stamp thread only takes rules and entries away.
LEMMA ThreadSpared ==
    ASSUME IInv, SparedInv, (\E i \in Slots : UpdateCTUdpTs(i)) \/ UdpDeleteRule \/ UdpForgetEntry
    PROVE  SparedInv'
<1>1. /\ scene \in Scenes /\ nat \in Apps
      /\ udp \in [pc : {"idle", "rule", "entry"}, slot : 0 .. MaxEntries, hdl : 0 .. MaxEntries]
      /\ udp.pc # "idle" => udp.slot \in Slots
      /\ ~isNatThreadStart => udp = Idle
  BY DEF IInv, TypeOK
<1>2. /\ isNatThreadStart /\ isNatThreadStart' = isNatThreadStart /\ scene' = scene
      /\ UNCHANGED <<wan, open>> /\ nonNat' = nonNat /\ WanUp' = WanUp /\ open' = open
  BY <1>1 DEF UpdateCTUdpTs, UdpDeleteRule, UdpForgetEntry, wan, Idle
<1>3. nat' \in Apps /\ Spares(nat, nat')
  <2>1. CASE \E i \in Slots : UpdateCTUdpTs(i)
    BY <1>1, <2>1, SparesSame DEF UpdateCTUdpTs
  <2>2. CASE UdpDeleteRule
    <3>1. nat' \in DelRule(nat, udp.hdl, nat, nat) /\ udp.hdl \in 0 .. MaxEntries
      BY <1>1, <2>2 DEF UdpDeleteRule
    <3>2. /\ nat' \in Apps /\ nat'.cache = nat.cache
          /\ \A h \in Handles : nat'.hw[h] = nat.hw[h] \/ nat'.hw[h] = NoRule
      BY <1>1, <3>1, DelRuleKeeps
    <3>3. QED
      BY <1>1, <3>2, SparesLess
  <2>3. CASE UdpForgetEntry
    <3>1. nat' = Filled(nat, udp.slot, Free) /\ udp.slot \in Slots
      BY <1>1, <2>3 DEF UdpForgetEntry, Filled
    <3>2. /\ nat' \in Apps /\ nat'.hw = nat.hw
          /\ \A i \in Slots : nat'.cache[i] = nat.cache[i] \/ nat'.cache[i] = Free
      BY <1>1, <3>1, SlotSet, Zeroes
    <3>3. QED
      BY <1>1, <3>2, SparesLess, Zeroes
  <2>4. QED
    BY <2>1, <2>2, <2>3
<1>4. NatOnly' /\ NeverUp'
  BY <1>2, SceneStays DEF SparedInv, NatOnly, NeverUp
<1>5. QED
  BY <1>2, <1>3, <1>4, SparedStep

LEMMA NextSpared == IInv /\ SparedInv /\ [Next]_vars => SparedInv'
<1> SUFFICES ASSUME IInv, SparedInv, [Next]_vars PROVE SparedInv'
  OBVIOUS
<1>1. CASE UNCHANGED vars
  <2>1. UNCHANGED <<wan, open, thread, scene>> /\ nat' = nat /\ nonNat' = nonNat /\ scene' = scene
    BY <1>1 DEF vars
  <2>2. nat' \in Apps /\ Spares(nat, nat')
    BY <2>1, SparesSame DEF IInv, TypeOK
  <2>3. NatOnly'
    BY <2>1, SceneStays DEF SparedInv, NatOnly
  <2>4. QED
    BY <2>1, <2>2, <2>3, OthersSpared
<1>2. CASE \/ \E pub \in PubIps, isSta \in BOOLEAN : TriggerWANUp(pub, isSta)
           \/ \E pub \in PubIps : TriggerWANDown(pub)
  BY <1>2, UpStep, DownStep, WanSpared
<1>3. CASE \E c \in Clients : \/ HandleNeighIpAddrAddEvt(c)
                              \/ HandleNeighIpAddrDelEvt(c)
                              \/ HandleNonNatIPAddrAdd(c)
                              \/ HandleNonNatIPAddrDel(c)
                              \/ handle_wlan_client_pwrsave(c)
                              \/ WlanClientRecover(c)
  BY <1>3, ClientSpared
<1>4. CASE \E t \in Targets : HandleSTAClientAddEvt(t) \/ HandleSTAClientDelEvt(t)
  BY <1>4, StationSpared
<1>5. CASE \E f \in Flows : \/ \E ip \in Clients \cup PubIps : ConnectionUp(f, ip)
                            \/ ConnectionDown(f)
  BY <1>5, UpSpared, DownSpared
<1>6. CASE (\E i \in Slots : UpdateCTUdpTs(i)) \/ UdpDeleteRule \/ UdpForgetEntry
  BY <1>6, ThreadSpared
<1>7. QED
  BY <1>1, <1>2, <1>3, <1>4, <1>5, <1>6 DEF Next

-----------------------------------------------------------------------------
\* Every variable of the listener has its type, the time stamp thread's included.
THEOREM TypeCorrect == Spec => []TypeOK
<1>1. IInv => TypeOK
  BY DEF IInv
<1>2. QED
  BY <1>1, InitInv, NextInv, PTL DEF Spec

\* Until the time stamp thread runs, and as long as the driver deletes the rules it is
\* told to delete, the entries that are marked as enabled and the rules of the hardware
\* table are the same, one to one, no connection has two entries, and without the WAN
\* going down no client in power save has a rule.
THEOREM CacheAgrees == Spec => []CacheInStep
<1>1. IInv => CacheInStep
  BY DEF IInv, CacheTidy, CacheInStep, Tidy, Awake
<1>2. QED
  BY <1>1, InitInv, NextInv, PTL DEF Spec

\* Without the WAN going down, and with no connection between two clients, no rule sends
\* packets to a client of an interface that is not NATed, unless it is a peer of the
\* station interface; and until the time stamp thread runs, if rules can be deleted, a
\* rule of a connection on an ALG port is that of one opened before the WAN was up.
THEOREM DummiesOnly == Spec => []OnlyDummies
<1>1. IInv /\ SparedInv => OnlyDummies
  <2> SUFFICES ASSUME IInv, SparedInv, ~MayWanDown, Targets \cap Clients = {} PROVE OnlyDummies
    BY DEF OnlyDummies
  <2>1. StaTargets = {} => \A h \in Handles : nat.hw[h].ip \notin Clients \ NatClients
    BY DEF SparedInv, NoneToOthers, Plain
  <2>2. ASSUME ~isNatThreadStart, "del" \notin Failing, NEW h \in Handles,
               nat.hw[h].flow \in AlgFlows
        PROVE  open[nat.hw[h].flow].pub = NoIp
    <3>1. nat.hw[h] # NoRule
      BY <2>2, Zeroes, SceneFacts, Constants DEF IInv, TypeOK
    <3>2. PICK i \in Slots : nat.cache[i].enabled /\ nat.cache[i].hdl = h
      BY <2>2, <3>1 DEF IInv, CacheTidy, Tidy, InStep
    <3>3. nat.hw[h] = Rule(nat.cache[i])
      BY <2>2, <3>2 DEF IInv, CacheTidy, Tidy, InStep
    <3>4. nat.cache[i].flow = nat.hw[h].flow
      BY <3>3, RuleOf DEF IInv, TypeOK, Apps
    <3>5. open[nat.cache[i].flow] = [ip |-> nat.cache[i].ip, pub |-> NoIp]
      BY <2>2, <3>2, <3>4 DEF SparedInv, AlgCached
    <3>6. QED
      BY <3>4, <3>5
  <2>3. QED
    BY <2>1, <2>2 DEF OnlyDummies
<1>2. QED
  BY <1>1, InitInv, NextInv, InitSpared, NextSpared, PTL DEF Spec

-----------------------------------------------------------------------------
(* The connections that are offloaded.                                     *)

\* A connection of client c has an entry, or waits for one.
Has(n, f, c) == \E i \in Slots : n.cache[i].flow = f /\ n.cache[i].ip = c
Waits(n, f, c) == \E k \in Waiting : n.temp[k].flow = f /\ n.temp[k].ip = c

\* What is kept for a NATed client is of a connection of its that is open, and
\* waits once only.
Current(n, op) ==
    /\ \A i \in Slots : n.cache[i].ip \in NatClients => op[n.cache[i].flow].ip = n.cache[i].ip
    /\ \A k \in Waiting : n.temp[k].flow # NoFlow =>
          /\ n.temp[k].public_ip = n.pub_ip_addr /\ n.pub_ip_addr # NoIp
          /\ n.temp[k].flow \notin AlgFlows /\ n.temp[k].ip # NoIp
          /\ n.temp[k].ip \in NatClients => op[n.temp[k].flow].ip = n.temp[k].ip
    /\ \A j, k \in Waiting :
          /\ n.temp[j].flow # NoFlow /\ n.temp[j].ip \in NatClients
          /\ Same(n.temp[j], n.temp[k])
          => j = k

\* A connection that is to be offloaded.
Eligible(op, f) ==
    /\ f \in Flows \ AlgFlows /\ Target[f] \notin StaTargets
    /\ op[f].ip \in NatClients /\ op[f].pub \in PubIps

\* It has an entry, unless its client is not there, for which it may wait.
Served(n, ifs, op) == \A f \in Flows : Eligible(op, f) =>
    Has(n, f, op[f].ip) \/ (op[f].ip \notin ifs /\ Waits(n, f, op[f].ip))

\* The entry of a client that is there and awake is in the table.
Lit(n, ifs, op) == \A i \in Slots :
    /\ n.cache[i].ip \in ifs \ n.PwrSaveIfs
    /\ op[n.cache[i].flow].pub \in PubIps
    => n.cache[i].enabled

Quiet == ~MayWanDown /\ Failing = {} /\ ~isNatThreadStart /\ Targets \cap Clients = {}

OffloadInv == Quiet =>
    /\ WanUp => nat.pub_ip_addr = wan_ipaddr
    /\ Current(nat, open) /\ Served(nat, natIfs, open) /\ Lit(nat, natIfs, open)

\* The cache, the entries that wait and the list of sleepers each have a free
\* place.
Room ==
    /\ ~IsFull(nat)
    /\ \E k \in Waiting : nat.temp[k].flow = NoFlow
    /\ Cardinality(nat.PwrSaveIfs) < MaxPwr

-----------------------------------------------------------------------------
(* A free slot has a free handle, so that nothing is refused for want of   *)
(* one.                                                                    *)

LEMMA HandlesLeft ==
    ASSUME NEW n \in Apps, Tidy(n), NEW S \in SUBSET Slots, \A i \in S : ~n.cache[i].enabled
    PROVE  /\ IsFiniteSet(S) /\ IsFiniteSet(Unused(n))
           /\ Cardinality(S) \in Nat /\ Cardinality(Unused(n)) \in Nat
           /\ Cardinality(S) <= Cardinality(Unused(n))
<1> DEFINE used == Handles \ Unused(n)
           lit == {i \in Slots : n.cache[i].enabled}
           g == [h \in used |-> CHOOSE i \in lit : n.cache[i].hdl = h]
<1>1. \A h \in used : \E i \in lit : n.cache[i].hdl = h
  BY DEF Tidy, InStep, Unused
<1>2. \A h \in used : g[h] \in lit /\ n.cache[g[h]].hdl = h
  BY <1>1
<1>3. g \in Injection(used, lit)
  BY <1>2 DEF Injection, IsInjective
<1>4. IsFiniteSet(Slots) /\ Cardinality(Slots) = MaxEntries /\ Handles = Slots
  BY NatAppAssumption, FS_Interval DEF Slots, Handles
<1>5. Unused(n) \subseteq Handles /\ lit \subseteq Slots /\ S \subseteq Slots \ lit
  BY DEF Unused
<1> HIDE DEF g, lit
<1>6. /\ IsFiniteSet(lit) /\ IsFiniteSet(used) /\ IsFiniteSet(Unused(n)) /\ IsFiniteSet(S)
      /\ IsFiniteSet(Slots \ lit)
  BY <1>4, <1>5, FS_Subset
<1>7. /\ Cardinality(lit) \in Nat /\ Cardinality(used) \in Nat /\ Cardinality(Unused(n)) \in Nat
      /\ Cardinality(S) \in Nat /\ Cardinality(Slots \ lit) \in Nat
  BY <1>6, FS_CardinalityType
<1>8. Cardinality(used) <= Cardinality(lit)
  BY <1>3, <1>6, FS_Injection
<1>9. Cardinality(used) = MaxEntries - Cardinality(Unused(n))
  <2>1. Handles \cap Unused(n) = Unused(n)
    BY <1>5
  <2>2. Cardinality(Handles \ Unused(n)) = Cardinality(Handles) - Cardinality(Handles \cap Unused(n))
    BY <1>4, FS_Difference
  <2>3. QED
    BY <1>4, <2>1, <2>2
<1>10. Cardinality(Slots \ lit) = MaxEntries - Cardinality(lit)
  <2>1. Slots \cap lit = lit
    BY <1>5
  <2>2. Cardinality(Slots \ lit) = Cardinality(Slots) - Cardinality(Slots \cap lit)
    BY <1>4, FS_Difference
  <2>3. QED
    BY <1>4, <2>1, <2>2
<1>11. Cardinality(S) <= Cardinality(Slots \ lit)
  BY <1>5, <1>6, FS_Subset
<1> HIDE DEF used
<1>12. QED
  BY <1>6, <1>7, <1>8, <1>9, <1>10, <1>11, NatAppAssumption

LEMMA AddRuleAccepted ==
    ASSUME NEW n \in Apps, Tidy(n), NEW i \in Slots, ~n.cache[i].enabled, NEW e \in Entries,
           "add" \notin Failing, n.pub_ip_addr # NoIp, NEW m \in AddRule(n, i, e)
    PROVE  /\ m.cache[i].enabled /\ Rule(m.cache[i]) = Rule(e)
           /\ \A j \in Slots \ {i} : m.cache[j] = n.cache[j]
<1>1. Unused(n) # {}
  <2>1. /\ Cardinality({i}) <= Cardinality(Unused(n)) /\ IsFiniteSet(Unused(n))
        /\ IsFiniteSet({i}) /\ Cardinality({i}) \in Nat
    BY HandlesLeft
  <2>2. Cardinality({i}) # 0
    BY <2>1, FS_EmptySet
  <2>3. QED
    BY <2>1, <2>2, FS_EmptySet
<1>2. PICK h \in Unused(n) :
         m = [n EXCEPT !.cache[i] = [e EXCEPT !.enabled = TRUE, !.hdl = h], !.hw[h] = Rule(e)]
  BY <1>1 DEF AddRule
<1>3. m.cache = [n.cache EXCEPT ![i] = On(e, h)]
  BY <1>2 DEF Apps, On
<1>4. h \in 0 .. MaxEntries
  BY Constants DEF Unused
<1>5. /\ m.cache[i] = On(e, h) /\ \A j \in Slots \ {i} : m.cache[j] = n.cache[j]
  BY <1>3 DEF Apps
<1>6. QED
  BY <1>4, <1>5, EntryChanged

\* Nothing but a full cache keeps a connection from being entered.
LEMMA AddEntryServes ==
    ASSUME NEW n \in Apps, Tidy(n), Failing = {}, n.pub_ip_addr # NoIp,
           NEW r \in Temps, r.flow \in Flows \ AlgFlows, r.ip # NoIp, Target[r.flow] \notin Clients,
           NEW m \in AddEntry(n, r)
    PROVE  /\ \A i \in Slots : n.cache[i].flow # NoFlow => m.cache[i] = n.cache[i]
           /\ \A i \in Slots : m.cache[i] # n.cache[i] =>
                 Rule(m.cache[i]) = Rule(r) /\ (m.cache[i].enabled \/ r.ip \in n.PwrSaveIfs)
           /\ Has(m, r.flow, r.ip) \/ IsFull(n)
<1>1. CASE IsFull(n)
  BY <1>1 DEF AddEntry
<1>2. CASE ChkForDup(n, r)
  <2>1. m = n
    BY <1>2 DEF AddEntry
  <2>2. Has(n, r.flow, r.ip)
    BY <1>2 DEF ChkForDup, Same, Has
  <2>3. QED
    BY <2>1, <2>2
<1>3. CASE ~ChkForDup(n, r) /\ ~IsFull(n)
  <2> DEFINE i == FirstFree(n)
             e == New(r)
  <2>1. i \in Slots /\ n.cache[i].flow = NoFlow /\ n.cache[i] = Free /\ ~n.cache[i].enabled
    BY <1>3, FreeSlot, Zeroes DEF Tidy
  <2>2. e \in Entries /\ e.flow = r.flow /\ e.ip = r.ip /\ Rule(e) = Rule(r)
    BY NewEntry
  <2>3. \/ r.ip \in n.PwrSaveIfs /\ m = Filled(n, i, e)
        \/ m \in AddRule(n, i, e)
    BY <1>3 DEF AddEntry, Filled, New, Apps
  <2> HIDE DEF i, e
  <2>4. /\ Rule(m.cache[i]) = Rule(r) /\ (m.cache[i].enabled \/ r.ip \in n.PwrSaveIfs)
        /\ \A j \in Slots \ {i} : m.cache[j] = n.cache[j]
    <3>1. CASE r.ip \in n.PwrSaveIfs /\ m = Filled(n, i, e)
      BY <2>1, <2>2, <3>1, SlotSet
    <3>2. CASE m \in AddRule(n, i, e)
      BY <2>1, <2>2, <3>2, AddRuleAccepted
    <3>3. QED
      BY <2>3, <3>1, <3>2
  <2>5. m.cache[i].flow = r.flow /\ m.cache[i].ip = r.ip
    BY <2>4 DEF Rule
  <2>6. Has(m, r.flow, r.ip)
    BY <2>1, <2>5 DEF Has
  <2>7. QED
    BY <2>1, <2>4, <2>6
<1>4. QED
  BY <1>1, <1>2, <1>3

LEMMA PutBackServes ==
    ASSUME NEW n \in Apps, Tidy(n), NEW S \in SUBSET Slots, \A i \in S : ~n.cache[i].enabled,
           "add" \notin Failing, n.pub_ip_addr # NoIp, NEW m \in PutBack(n, S)
    PROVE  /\ \A i \in S : m.cache[i].enabled /\ Rule(m.cache[i]) = Rule(n.cache[i])
           /\ \A i \in Slots \ S : m.cache[i] = n.cache[i]
<1> DEFINE Cache(A, g) == [i \in Slots |->
                   IF i \in A THEN On(n.cache[i], g[i])
                   ELSE IF i \in S THEN Free ELSE n.cache[i]]
           Hw(A, g) == [h \in Handles |->
                   IF \E i \in A : g[i] = h THEN Rule(n.cache[CHOOSE i \in A : g[i] = h])
                   ELSE n.hw[h]]
<1> DEFINE Fits(A) == "add" \in Failing \/ \A i \in S \ A :
                         Cardinality(Unused(n)) <= Cardinality({j \in A : j < i})
           added == IF n.pub_ip_addr = NoIp THEN {{}} ELSE {A \in SUBSET S : Fits(A)}
<1>0. m \in UNION {{Changed(n, Cache(A, g), Hw(A, g)) : g \in Injection(A, Unused(n))} : A \in added}
  BY DEF PutBack, On, Changed
<1>a. \A A \in added : A \in SUBSET S /\ Fits(A)
  OBVIOUS
<1>b. \A A \in SUBSET S : Fits(A) => \A i \in S \ A :
         Cardinality(Unused(n)) <= Cardinality({j \in A : j < i})
  OBVIOUS
<1> HIDE DEF Fits, added
<1>1. PICK A \in SUBSET S :
          /\ \E g \in Injection(A, Unused(n)) : m = Changed(n, Cache(A, g), Hw(A, g))
          /\ \A i \in S \ A : Cardinality(Unused(n)) <= Cardinality({j \in A : j < i})
  <2> HIDE DEF Cache, Hw
  <2>1. PICK A \in added : \E g \in Injection(A, Unused(n)) : m = Changed(n, Cache(A, g), Hw(A, g))
    BY <1>0
  <2>2. QED
    BY <1>a, <1>b, <2>1
<1>2. PICK g \in Injection(A, Unused(n)) : m = Changed(n, Cache(A, g), Hw(A, g))
  BY <1>1
<1>3. A = S
  <2>1. SUFFICES ASSUME NEW i \in S \ A PROVE FALSE
    OBVIOUS
  <2> DEFINE B == {j \in A : j < i}
  <2>2. B \subseteq S /\ B # S
    OBVIOUS
  <2>3. Cardinality(Unused(n)) <= Cardinality(B)
    BY <1>1
  <2> HIDE DEF B
  <2>4. /\ Cardinality(S) <= Cardinality(Unused(n)) /\ IsFiniteSet(S)
        /\ Cardinality(S) \in Nat /\ Cardinality(Unused(n)) \in Nat
    BY HandlesLeft
  <2>5. Cardinality(B) \in Nat /\ Cardinality(B) <= Cardinality(S) /\ Cardinality(B) # Cardinality(S)
    BY <2>2, <2>4, FS_Subset, FS_CardinalityType
  <2>6. QED
    BY <2>3, <2>4, <2>5
<1>4. m.cache = Cache(A, g)
  BY <1>2 DEF Changed, Apps
<1>5. \A i \in Slots : n.cache[i] \in Entries
  BY DEF Apps
<1>6. \A i \in S : g[i] \in 0 .. MaxEntries
  BY <1>3, Constants DEF Injection, Unused
<1>7. /\ \A i \in S : m.cache[i] = On(n.cache[i], g[i])
      /\ \A i \in Slots \ S : m.cache[i] = n.cache[i]
  BY <1>3, <1>4
<1>8. QED
  BY <1>5, <1>6, <1>7, EntryChanged

-----------------------------------------------------------------------------
(* What the methods do for the connections that are offloaded.             *)

\* The address of the WAN interface is no client's.
LEMMA WanNoClient ==
    ASSUME scene \in Scenes, NEW n \in Apps
    PROVE  /\ n.pub_ip_addr \notin Clients /\ NatClients \subseteq Clients
           /\ NoIp \notin Clients
BY SceneFacts DEF Apps, Publics

\* A method that only takes away leaves what is current.
LEMMA CurrentLess ==
    ASSUME scene \in Scenes, NEW n \in Apps, NEW m \in Apps, NEW op, SameWan(n, m),
           \A i \in Slots : Rule(m.cache[i]) \in {Rule(n.cache[i]), NoRule},
           \A k \in Waiting : m.temp[k] \in {n.temp[k], NoTemp},
           Current(n, op)
    PROVE  Current(m, op)
<1>1. \A i \in Slots : m.cache[i] \in Entries /\ n.cache[i] \in Entries
  BY DEF Apps
<1>2. ASSUME NEW i \in Slots, m.cache[i].ip \in NatClients
      PROVE  op[m.cache[i].flow].ip = m.cache[i].ip
  <2>1. Rule(m.cache[i]) # NoRule
    BY <1>1, <1>2, RuleOf, WanNoClient, Zeroes
  <2>2. m.cache[i].flow = n.cache[i].flow /\ m.cache[i].ip = n.cache[i].ip
    BY <1>1, <2>1, RuleOf
  <2>3. QED
    BY <1>2, <2>2 DEF Current
<1>3. \A k \in Waiting : m.temp[k].flow # NoFlow => m.temp[k] = n.temp[k]
  BY Zeroes
<1>4. \A j, k \in Waiting : /\ m.temp[j].flow # NoFlow /\ m.temp[j].ip \in NatClients
                            /\ Same(m.temp[j], m.temp[k])
                            => j = k
  BY <1>3 DEF Current, Same
<1>5. QED
  BY <1>2, <1>3, <1>4 DEF Current, SameWan

\* Who waits still waits, or has an entry.
Forwards(n, m, ip, isAdd, isDummy) == \A f \in Flows, c \in NatClients :
    /\ Waits(n, f, c)
    /\ (isAdd /\ ~isDummy) \/ (c # ip /\ Target[f] # ip)
    => Has(m, f, c) \/ Waits(m, f, c)

\* The entries of the cache are where they were.
Stays(n, m) == \A i \in Slots : n.cache[i].flow # NoFlow => m.cache[i] = n.cache[i]

\* Nobody waits for the client in place k any more.
Flushed(m, k, ip) ==
    \/ m.temp[k].flow = NoFlow
    \/ m.temp[k].ip # ip
    \/ Has(m, m.temp[k].flow, m.temp[k].ip)

LEMMA FlushOneServes ==
    ASSUME scene \in Scenes, Failing = {}, Targets \cap Clients = {},
           NEW n \in Apps, Tidy(n), NEW k \in Waiting, NEW ip, NEW isAdd, NEW isDummy,
           NEW op, NEW ifs \in SUBSET NatClients, Current(n, op), Lit(n, ifs, op),
           NEW m \in FlushTempEntry(n, k, ip, isAdd, isDummy)
    PROVE  /\ Current(m, op) /\ Lit(m, ifs, op) /\ m.PwrSaveIfs = n.PwrSaveIfs
           /\ Stays(n, m) /\ Forwards(n, m, ip, isAdd, isDummy)
           /\ \A j \in Waiting \ {k} : m.temp[j] = n.temp[j]
           /\ (isAdd /\ ~isDummy) => IsFull(n) \/ Flushed(m, k, ip)
<1> DEFINE t == n.temp[k]
           r == IF isDummy THEN [t EXCEPT !.ip = t.public_ip] ELSE t
<1>1. /\ t \in Temps /\ r \in Temps /\ r.flow = t.flow /\ r.public_ip = t.public_ip
      /\ r.ip = IF isDummy THEN t.public_ip ELSE t.ip
  BY DEF Apps, Temps, Addresses
<1>2. t.flow # NoFlow => /\ t.flow \in Flows \ AlgFlows /\ t.public_ip = n.pub_ip_addr
                         /\ n.pub_ip_addr # NoIp /\ Target[t.flow] \notin Clients /\ t.ip # NoIp
                         /\ t.ip \in NatClients => op[t.flow].ip = t.ip
  BY <1>1 DEF Current, Temps, Names, Targets
<1>3. \/ /\ m = n
         /\ t.flow = NoFlow \/ (t.ip # ip /\ Target[t.flow] # ip)
      \/ /\ m = Noted(n, k, NoTemp) /\ ~isAdd
         /\ t.flow # NoFlow /\ (t.ip = ip \/ Target[t.flow] = ip)
      \/ /\ t.flow # NoFlow /\ (t.ip = ip \/ Target[t.flow] = ip) /\ isAdd
         /\ \E l \in AddEntry(n, r) : IF l = n THEN m = Noted(n, k, r) ELSE m = Noted(l, k, NoTemp)
  BY <1>2 DEF FlushTempEntry, Noted
<1>4. t = n.temp[k]
  OBVIOUS
<1>5. ~isDummy => r = t
  OBVIOUS
<1> HIDE DEF t, r
<1>6. CASE m = n /\ (t.flow = NoFlow \/ (t.ip # ip /\ Target[t.flow] # ip))
  BY <1>4, <1>6 DEF Stays, Forwards, Flushed
<1>7. CASE /\ m = Noted(n, k, NoTemp) /\ ~isAdd
           /\ t.flow # NoFlow /\ (t.ip = ip \/ Target[t.flow] = ip)
  <2>1. /\ m \in Apps /\ SameCore(n, m) /\ m.PwrSaveIfs = n.PwrSaveIfs
        /\ m.temp[k] = NoTemp /\ \A j \in Waiting \ {k} : m.temp[j] = n.temp[j]
    BY <1>7, NotedKept, Zeroes
  <2>2. Current(m, op)
    BY <2>1, CurrentLess DEF SameCore
  <2>3. Lit(m, ifs, op) /\ Stays(n, m)
    BY <2>1 DEF Lit, Stays, SameCore
  <2>4. Forwards(n, m, ip, isAdd, isDummy)
    BY <1>4, <1>7, <2>1 DEF Forwards, Waits
  <2>5. QED
    BY <1>7, <2>1, <2>2, <2>3, <2>4
<1>8. ASSUME t.flow # NoFlow, t.ip = ip \/ Target[t.flow] = ip, isAdd,
             NEW l \in AddEntry(n, r), IF l = n THEN m = Noted(n, k, r) ELSE m = Noted(l, k, NoTemp)
      PROVE  /\ Current(m, op) /\ Lit(m, ifs, op) /\ m.PwrSaveIfs = n.PwrSaveIfs
             /\ Stays(n, m) /\ Forwards(n, m, ip, isAdd, isDummy)
             /\ \A j \in Waiting \ {k} : m.temp[j] = n.temp[j]
             /\ ~isDummy => IsFull(n) \/ Flushed(m, k, ip)
  <2>1. r.flow \in Flows \ AlgFlows /\ Target[r.flow] \notin Clients /\ r.flow # NoFlow
    BY <1>1, <1>2, <1>8
  <2>2. r.ip # NoIp
    BY <1>1, <1>2, <1>8
  <2>3. /\ Stays(n, l)
        /\ Has(l, r.flow, r.ip) \/ IsFull(n)
        /\ \A i \in Slots : l.cache[i] # n.cache[i] =>
              Rule(l.cache[i]) = Rule(r) /\ (l.cache[i].enabled \/ r.ip \in n.PwrSaveIfs)
    BY <1>1, <1>2, <1>8, <2>1, <2>2, AddEntryServes DEF Stays
  <2>4. l \in Apps /\ SameElse(n, l)
    BY <1>1, <1>8, <2>1, AddEntryKeeps
  <2>5. /\ m \in Apps /\ m.cache = l.cache /\ m.PwrSaveIfs = n.PwrSaveIfs
        /\ m.pub_ip_addr = n.pub_ip_addr
        /\ \A j \in Waiting \ {k} : m.temp[j] = n.temp[j]
        /\ IF l = n THEN m.temp[k] = r ELSE m.temp[k] = NoTemp
    <3>1. CASE l = n
      <4>1. m = Noted(n, k, r)
        BY <1>8, <3>1
      <4>2. QED
        BY <1>1, <3>1, <4>1, NotedKept DEF SameCore, SameWan
    <3>2. CASE l # n
      <4>1. m = Noted(l, k, NoTemp)
        BY <1>8, <3>2
      <4>2. QED
        BY <2>4, <3>2, <4>1, NotedKept, Zeroes DEF SameCore, SameWan, SameElse
    <3>3. QED
      BY <3>1, <3>2
  <2>6. \A i \in Slots : \/ m.cache[i] = n.cache[i]
                        \/ /\ m.cache[i].flow = r.flow /\ m.cache[i].ip = r.ip
                           /\ m.cache[i].enabled \/ r.ip \in n.PwrSaveIfs
    BY <2>3, <2>5 DEF Rule
  <2>7. r.ip \in NatClients => r = t /\ op[t.flow].ip = t.ip
    BY <1>1, <1>2, <1>5, <1>8, WanNoClient
  <2>8. Lit(m, ifs, op)
    BY <2>5, <2>6 DEF Lit
  <2>9. Current(m, op)
    <3>1. ASSUME NEW i \in Slots, m.cache[i].ip \in NatClients
          PROVE  op[m.cache[i].flow].ip = m.cache[i].ip
      BY <1>1, <2>6, <2>7, <3>1 DEF Current
    <3>2. \A j \in Waiting : m.temp[j].flow # NoFlow => m.temp[j] = n.temp[j] \/ (j = k /\ m.temp[j] = r)
      BY <2>5, Zeroes
    <3>3. \A j \in Waiting : m.temp[j].flow # NoFlow /\ m.temp[j].ip \in NatClients =>
             m.temp[j] = n.temp[j]
      BY <1>4, <2>7, <3>2
    <3>4. ASSUME NEW j \in Waiting, m.temp[j].flow # NoFlow
          PROVE  /\ m.temp[j].public_ip = m.pub_ip_addr /\ m.pub_ip_addr # NoIp
                 /\ m.temp[j].flow \notin AlgFlows /\ m.temp[j].ip # NoIp
                 /\ m.temp[j].ip \in NatClients => op[m.temp[j].flow].ip = m.temp[j].ip
      <4>1. CASE m.temp[j] = n.temp[j]
        BY <2>5, <3>4, <4>1 DEF Current
      <4>2. CASE m.temp[j] = r
        BY <1>1, <1>2, <1>8, <2>1, <2>2, <2>5, <2>7, <4>2
      <4>3. QED
        BY <3>2, <3>4, <4>1, <4>2
    <3>5. ASSUME NEW i \in Waiting, NEW j \in Waiting, m.temp[i].flow # NoFlow,
                 m.temp[i].ip \in NatClients, Same(m.temp[i], m.temp[j])
          PROVE  i = j
      <4>1. m.temp[j].flow # NoFlow /\ m.temp[j].ip \in NatClients
        BY <3>5 DEF Same
      <4>2. m.temp[i] = n.temp[i] /\ m.temp[j] = n.temp[j]
        BY <3>3, <3>5, <4>1
      <4>3. QED
        BY <3>5, <4>2 DEF Current
    <3>6. QED
      BY <3>1, <3>4, <3>5 DEF Current
  <2>10. Stays(n, m)
    BY <2>3, <2>5 DEF Stays
  <2>11. Forwards(n, m, ip, isAdd, isDummy)
    <3> SUFFICES ASSUME NEW f \in Flows, NEW c \in NatClients, Waits(n, f, c),
                        ~isDummy \/ (c # ip /\ Target[f] # ip)
                 PROVE  Has(m, f, c) \/ Waits(m, f, c)
      BY DEF Forwards
    <3>1. PICK j \in Waiting : n.temp[j].flow = f /\ n.temp[j].ip = c
      BY DEF Waits
    <3>2. CASE j # k
      BY <2>5, <3>1, <3>2 DEF Waits
    <3>3. CASE j = k
      <4>1. t.flow = f /\ t.ip = c /\ ~isDummy /\ r = t
        BY <1>4, <1>5, <1>8, <3>1, <3>3
      <4>2. CASE l = n
        BY <2>5, <4>1, <4>2 DEF Waits
      <4>3. CASE l # n
        <5>1. ~IsFull(n)
          BY <1>8, <4>3 DEF AddEntry
        <5>2. QED
          BY <2>3, <2>5, <4>1, <5>1 DEF Has
      <4>4. QED
        BY <4>2, <4>3
    <3>4. QED
      BY <3>2, <3>3
  <2>12. ASSUME ~isDummy, ~IsFull(n) PROVE Flushed(m, k, ip)
    <3>1. r = t /\ Has(m, t.flow, t.ip)
      BY <1>5, <2>3, <2>5, <2>12 DEF Has
    <3>2. QED
      BY <2>5, <3>1, Zeroes DEF Flushed
  <2>13. QED
    BY <2>5, <2>8, <2>9, <2>10, <2>11, <2>12
<1>9. QED
  BY <1>3, <1>6, <1>7, <1>8

LEMMA StaysTwice ==
    ASSUME NEW n, NEW m, NEW l, Stays(n, m), Stays(m, l)
    PROVE  Stays(n, l)
BY DEF Stays

LEMMA StaysHas ==
    ASSUME NEW n, NEW m, Stays(n, m)
    PROVE  /\ IsFull(n) => IsFull(m)
           /\ \A f, c : f # NoFlow /\ Has(n, f, c) => Has(m, f, c)
BY DEF Stays, IsFull, Has

LEMMA FlushServes ==
    ASSUME scene \in Scenes, Failing = {}, Targets \cap Clients = {},
           NEW n \in Apps, Tidy(n), NEW ip, NEW isAdd, NEW isDummy,
           NEW op, NEW ifs \in SUBSET NatClients, Current(n, op), Lit(n, ifs, op),
           NEW m \in FlushTempEntries(n, ip, isAdd, isDummy)
    PROVE  /\ Current(m, op) /\ Lit(m, ifs, op) /\ m.PwrSaveIfs = n.PwrSaveIfs
           /\ Stays(n, m) /\ Forwards(n, m, ip, isAdd, isDummy)
           /\ (isAdd /\ ~isDummy) => IsFull(m) \/ \A k \in Waiting : Flushed(m, k, ip)
<1> DEFINE f == CHOOSE f : IsLoop(f, MaxTemp, n, ip, isAdd, isDummy)
<1>1. m \in f[MaxTemp]
  BY DEF FlushTempEntries, IsLoop, Round
<1>2. IsLoop(f, MaxTemp, n, ip, isAdd, isDummy)
  BY LoopExists, WaitingNumbers
<1> HIDE DEF f
<1>3. \A k \in 0 .. MaxTemp : f[k] = IF k = 0 THEN {n} ELSE Round(f[k - 1], k, ip, isAdd, isDummy)
  BY <1>2 DEF IsLoop
<1> DEFINE Clear(k, l) == (isAdd /\ ~isDummy) =>
               IsFull(l) \/ \A j \in Waiting : j <= k => Flushed(l, j, ip)
           Good(k, l) == /\ Kept(n, l) /\ Current(l, op) /\ Lit(l, ifs, op)
                         /\ l.PwrSaveIfs = n.PwrSaveIfs
                         /\ Stays(n, l) /\ Forwards(n, l, ip, isAdd, isDummy) /\ Clear(k, l)
           T == {k \in 0 .. MaxTemp : ~\A l \in f[k] : Good(k, l)}
<1>4. MaxTemp \in Nat /\ T \in SUBSET Nat /\ \A j \in Waiting : j \in 1 .. MaxTemp
  BY WaitingNumbers DEF Waiting
<1>5. ASSUME T # {} PROVE FALSE
  <2>1. PICK k \in T : \A j \in T : k <= j
    BY <1>4, <1>5, Smallest
  <2>2. \A j \in T : ~(j < k)
    BY <1>4, <2>1
  <2>3. PICK l \in f[k] : ~Good(k, l)
    BY <2>1
  <2>4. k # 0
    <3>1. Kept(n, n) /\ Stays(n, n) /\ Forwards(n, n, ip, isAdd, isDummy)
      BY KeptSame DEF Stays, Forwards
    <3>2. Clear(0, n)
      BY <1>4
    <3>3. QED
      BY <1>3, <1>4, <2>3, <3>1, <3>2
  <2>5. k - 1 \in 0 .. MaxTemp /\ k \in Waiting /\ k \in 0 .. MaxTemp
    BY <1>4, <2>4 DEF Waiting
  <2>6. \A h \in f[k - 1] : Good(k - 1, h)
    BY <1>4, <2>2, <2>5
  <2>7. PICK h \in f[k - 1] : l \in FlushTempEntry(h, k, ip, isAdd, isDummy)
    <3>1. l \in Round(f[k - 1], k, ip, isAdd, isDummy)
      BY <1>3, <2>3, <2>4, <2>5
    <3>2. QED
      BY <3>1, Zenon DEF Round
  <2>8. Good(k - 1, h)
    BY <2>6
  <2>9. h \in Apps /\ Tidy(h)
    BY <2>8 DEF Kept
  <2>10. Kept(h, l)
    BY <2>5, <2>7, <2>9, FlushOneKept
  <2>11. /\ Current(l, op) /\ Lit(l, ifs, op) /\ l.PwrSaveIfs = h.PwrSaveIfs
         /\ Stays(h, l) /\ Forwards(h, l, ip, isAdd, isDummy)
         /\ \A j \in Waiting \ {k} : l.temp[j] = h.temp[j]
         /\ (isAdd /\ ~isDummy) => IsFull(h) \/ Flushed(l, k, ip)
    BY <2>5, <2>7, <2>8, <2>9, FlushOneServes
  <2>12. Kept(n, l) /\ Stays(n, l)
    BY <2>8, <2>10, <2>11, KeptTwice, StaysTwice
  <2>13. Forwards(n, l, ip, isAdd, isDummy)
    <3>1. \A g \in Flows : \A c : Has(h, g, c) => Has(l, g, c)
      BY <2>11, StaysHas, Constants
    <3>2. QED
      BY <2>8, <2>11, <3>1 DEF Forwards
  <2>14. Clear(k, l)
    <3> SUFFICES ASSUME isAdd, ~isDummy, ~IsFull(l), NEW j \in Waiting, j <= k
                 PROVE  Flushed(l, j, ip)
      OBVIOUS
    <3>1. ~IsFull(h)
      BY <2>11, StaysHas
    <3>2. CASE j = k
      BY <2>11, <3>1, <3>2
    <3>3. CASE j # k
      <4>1. j <= k - 1
        BY <1>4, <2>5, <3>3
      <4>2. Flushed(h, j, ip)
        BY <2>8, <3>1, <4>1
      <4>3. l.temp[j] = h.temp[j]
        BY <2>11, <3>3
      <4>4. QED
        BY <2>11, <4>2, <4>3, StaysHas DEF Flushed
    <3>4. QED
      BY <3>2, <3>3
  <2>15. QED
    BY <2>3, <2>8, <2>11, <2>12, <2>13, <2>14
<1>6. MaxTemp \notin T
  BY <1>5
<1>7. Good(MaxTemp, m)
  BY <1>1, <1>4, <1>6
<1>8. Clear(MaxTemp, m) => ((isAdd /\ ~isDummy) => IsFull(m) \/ \A k \in Waiting : Flushed(m, k, ip))
  BY <1>4
<1>9. QED
  BY <1>7, <1>8

\* Entries that leave the table stay in the cache.
LEMMA TakeOutServes ==
    ASSUME NEW n \in Apps, NEW ip \in Clients, NEW P \in SUBSET Clients,
           NEW left, left = Disabled(n) \/ left = [i \in Slots |-> Out(n.cache[i])],
           NEW m \in TakeOut(Saving(n, P), Enabled(n, ip), left)
    PROVE  /\ m \in Apps /\ SameWan(n, m) /\ m.temp = n.temp /\ m.PwrSaveIfs = P
           /\ \A i \in Slots : /\ Rule(m.cache[i]) = Rule(n.cache[i])
                               /\ m.cache[i].flow = n.cache[i].flow
                               /\ m.cache[i].ip = n.cache[i].ip
                               /\ m.cache[i] = n.cache[i] \/ m.cache[i].ip = ip
<1> DEFINE l == Saving(n, P)
           S == Enabled(n, ip)
<1>1. S \in SUBSET Slots /\ \A i \in S : n.cache[i].enabled /\ n.cache[i].ip = ip
  BY DEF Enabled
<1>2. l \in Apps /\ SameCore(n, l) /\ l.temp = n.temp /\ l.PwrSaveIfs = P
  BY SavingChanged
<1>3. left \in [Slots -> Entries] /\ Leaves(n, S, left)
  BY <1>1, EnabledLeft
<1> HIDE DEF l, S
<1>4. m \in TakeOut(l, S, left)
  BY DEF l, S
<1>5. m \in Apps /\ SameElse(l, m)
  BY <1>1, <1>2, <1>3, <1>4, TakeOutKeeps
<1>6. \A i \in Slots : m.cache[i] = l.cache[i] \/ (i \in S /\ m.cache[i] = left[i])
  BY <1>1, <1>2, <1>3, <1>4, TakeOutKeeps
<1>7. \A i \in Slots : n.cache[i] \in Entries
  BY DEF Apps
<1>8. \A i \in Slots : Rule(left[i]) = Rule(n.cache[i])
  <2>1. CASE left = Disabled(n)
    <3>1. left = [i \in Slots |-> Off(n.cache[i])]
      BY <2>1 DEF Disabled, Off
    <3>2. QED
      BY <1>7, <3>1, EntryChanged
  <2>2. CASE left = [i \in Slots |-> Out(n.cache[i])]
    BY <1>7, <2>2, EntryChanged
  <2>3. QED
    BY <2>1, <2>2
<1>9. \A i \in Slots : Rule(m.cache[i]) = Rule(n.cache[i]) /\ (m.cache[i] = n.cache[i] \/ i \in S)
  BY <1>2, <1>6, <1>8 DEF SameCore
<1>10. \A i \in Slots : m.cache[i].flow = n.cache[i].flow /\ m.cache[i].ip = n.cache[i].ip
  BY <1>9 DEF Rule
<1>11. QED
  BY <1>1, <1>2, <1>5, <1>9, <1>10 DEF SameElse, SameWan, SameCore

\* Every entry is still there, and of the same connection.
SameRules(n, m) == \A i \in Slots :
    /\ Rule(m.cache[i]) = Rule(n.cache[i])
    /\ m.cache[i].flow = n.cache[i].flow /\ m.cache[i].ip = n.cache[i].ip

LEMMA SameRulesHas ==
    ASSUME NEW n, NEW m, SameRules(n, m)
    PROVE  \A f, c : Has(n, f, c) => Has(m, f, c)
BY DEF SameRules, Has

\* A client that falls asleep, and one that leaves.
LEMMA UpdatePwrSaveIfServes ==
    ASSUME scene \in Scenes, NEW n \in Apps, NEW ip \in Clients, Cardinality(n.PwrSaveIfs) < MaxPwr,
           NEW op, NEW ifs, Current(n, op), Lit(n, ifs, op), NEW m \in UpdatePwrSaveIf(n, ip)
    PROVE  Current(m, op) /\ Lit(m, ifs, op) /\ SameRules(n, m) /\ m.temp = n.temp
<1>1. CASE m = n
  BY <1>1 DEF SameRules
<1>2. CASE m # n
  <2> DEFINE P == n.PwrSaveIfs \cup {ip}
             left == [i \in Slots |-> Out(n.cache[i])]
  <2>1. m \in TakeOut(Saving(n, P), Enabled(n, ip), left)
    BY <1>2 DEF UpdatePwrSaveIf, Saving, Out
  <2>2. P \in SUBSET Clients
    BY DEF Apps
  <2>3. left = [i \in Slots |-> Out(n.cache[i])] /\ ip \in P /\ n.PwrSaveIfs \subseteq P
    OBVIOUS
  <2> HIDE DEF P, left
  <2>4. /\ m \in Apps /\ SameWan(n, m) /\ m.temp = n.temp /\ m.PwrSaveIfs = P
        /\ SameRules(n, m)
        /\ \A i \in Slots : m.cache[i] = n.cache[i] \/ m.cache[i].ip = ip
    BY <2>1, <2>2, <2>3, TakeOutServes DEF SameRules
  <2>5. Current(m, op)
    BY <2>4, CurrentLess DEF SameRules
  <2>6. Lit(m, ifs, op)
    BY <2>3, <2>4 DEF Lit
  <2>7. QED
    BY <2>4, <2>5, <2>6
<1>3. QED
  BY <1>1, <1>2

LEMMA ClientGoneServes ==
    ASSUME scene \in Scenes, NEW n \in Apps, NEW ip \in Clients,
           NEW op, NEW ifs, Current(n, op), Lit(n, ifs, op), NEW m \in DelEntriesOnClntDiscon(n, ip)
    PROVE  Current(m, op) /\ Lit(m, ifs \ {ip}, op) /\ SameRules(n, m) /\ m.temp = n.temp
<1> DEFINE P == n.PwrSaveIfs \ {ip}
           left == Disabled(n)
<1>1. m \in TakeOut(Saving(n, P), Enabled(n, ip), left)
  BY DEF DelEntriesOnClntDiscon, Saving
<1>2. P \in SUBSET Clients /\ left = Disabled(n) /\ n.PwrSaveIfs \subseteq P \cup {ip}
  BY DEF Apps
<1> HIDE DEF P, left
<1>3. /\ m \in Apps /\ SameWan(n, m) /\ m.temp = n.temp /\ m.PwrSaveIfs = P
      /\ SameRules(n, m)
      /\ \A i \in Slots : m.cache[i] = n.cache[i] \/ m.cache[i].ip = ip
  BY <1>1, <1>2, TakeOutServes DEF SameRules
<1>4. Current(m, op)
  BY <1>3, CurrentLess DEF SameRules
<1>5. Lit(m, ifs \ {ip}, op)
  BY <1>2, <1>3 DEF Lit
<1>6. QED
  BY <1>3, <1>4, <1>5

\* A client that comes, or wakes up: its entries go back into the table, if there is one.
LEMMA ResetPwrSaveIfServes ==
    ASSUME scene \in Scenes, NEW n \in Apps, Tidy(n), "add" \notin Failing, NEW ip \in Clients,
           NEW op, Current(n, op), NEW m \in ResetPwrSaveIf(n, ip)
    PROVE  /\ Current(m, op) /\ m.temp = n.temp
           /\ n.pub_ip_addr # NoIp =>
                 /\ SameRules(n, m)
                 /\ \A ifs : Lit(n, ifs, op) => Lit(m, ifs \cup {ip}, op)
<1> DEFINE l == Saving(n, n.PwrSaveIfs \ {ip})
           S == {i \in Slots : n.cache[i].ip = ip /\ ~n.cache[i].enabled}
<1>1. m \in PutBack(l, S) /\ S \in SUBSET Slots
  BY DEF ResetPwrSaveIf, Saving
<1>2. n.PwrSaveIfs \ {ip} \in SUBSET Clients
  BY DEF Apps
<1>3. \A i \in Slots : i \in S <=> n.cache[i].ip = ip /\ ~n.cache[i].enabled
  OBVIOUS
<1>4. l = Saving(n, n.PwrSaveIfs \ {ip})
  OBVIOUS
<1> HIDE DEF l, S
<1>5. /\ l \in Apps /\ SameCore(n, l) /\ l.PwrSaveIfs = n.PwrSaveIfs \ {ip} /\ l.temp = n.temp
      /\ Tidy(l)
  BY <1>2, <1>4, SavingChanged
<1>6. /\ m \in Apps /\ SameElse(l, m)
      /\ \A i \in Slots : Rule(m.cache[i]) \in {Rule(l.cache[i]), NoRule}
  BY <1>1, <1>5, PutBackKeeps
<1>7. Current(m, op)
  BY <1>5, <1>6, CurrentLess DEF SameCore, SameElse, SameWan
<1>8. ASSUME n.pub_ip_addr # NoIp
      PROVE  SameRules(n, m) /\ \A ifs : Lit(n, ifs, op) => Lit(m, ifs \cup {ip}, op)
  <2>1. /\ \A i \in S : ~l.cache[i].enabled
        /\ l.pub_ip_addr # NoIp
    BY <1>1, <1>3, <1>5, <1>8 DEF SameCore, SameWan
  <2>2. /\ \A i \in S : m.cache[i].enabled /\ Rule(m.cache[i]) = Rule(n.cache[i])
        /\ \A i \in Slots \ S : m.cache[i] = n.cache[i]
    BY <1>1, <1>5, <2>1, PutBackServes DEF SameCore
  <2>3. SameRules(n, m)
    BY <2>2 DEF SameRules, Rule
  <2>4. ASSUME NEW ifs, Lit(n, ifs, op), NEW i \in Slots,
               m.cache[i].ip \in (ifs \cup {ip}) \ m.PwrSaveIfs, op[m.cache[i].flow].pub \in PubIps
        PROVE  m.cache[i].enabled
    <3>1. m.PwrSaveIfs = n.PwrSaveIfs \ {ip}
      BY <1>5, <1>6 DEF SameElse
    <3>2. CASE i \in S
      BY <2>2, <3>2
    <3>3. CASE i \notin S
      BY <1>3, <2>2, <2>4, <3>1, <3>3 DEF Lit
    <3>4. QED
      BY <3>2, <3>3
  <2>5. QED
    BY <2>3, <2>4 DEF Lit
<1>9. QED
  BY <1>5, <1>6, <1>7, <1>8 DEF SameElse

LEMMA TakeOutCache ==
    ASSUME NEW n \in Apps, NEW S \in SUBSET Slots, NEW left \in [Slots -> Entries],
           NEW m \in TakeOut(n, S, left), NEW i \in Slots
    PROVE  m.cache[i] = n.cache[i] \/ (i \in S /\ m.cache[i] = left[i])
BY TakeOutKeeps

\* A client of the station interface that leaves takes the entries of its connections
\* along.
LEMMA StaClientGoneServes ==
    ASSUME scene \in Scenes, "del" \notin Failing, NEW n \in Apps, NEW ip,
           NEW op, NEW ifs \in SUBSET NatClients, Current(n, op), Lit(n, ifs, op),
           NEW m \in DelEntriesOnSTAClntDiscon(n, ip)
    PROVE  /\ Current(m, op) /\ Lit(m, ifs, op) /\ m.temp = n.temp
           /\ \A f \in Flows : \A c : Has(n, f, c) /\ Target[f] # ip => Has(m, f, c)
<1> DEFINE its == {i \in Slots : n.cache[i].flow # NoFlow /\ Target[n.cache[i].flow] = ip}
           on == {i \in its : n.cache[i].enabled}
           off == [i \in Slots |-> IF i \in its \ on THEN Free ELSE n.cache[i]]
           left == [i \in Slots |-> Free]
           l == Changed(n, off, n.hw)
<1>1. m \in TakeOut(l, on, left)
  BY DEF DelEntriesOnSTAClntDiscon, Changed, Apps
<1>2. \A i \in Slots : n.cache[i] \in Entries
  BY DEF Apps
<1>3. /\ off \in [Slots -> Entries]
      /\ \A i \in Slots : off[i] = n.cache[i] \/ (i \in its /\ off[i] = Free)
      /\ \A i \in on : off[i] = n.cache[i] /\ off[i].enabled
      /\ on \in SUBSET Slots /\ on \subseteq its
      /\ \A i \in its : Target[n.cache[i].flow] = ip
  BY <1>2, Zeroes
<1>4. left = [i \in Slots |-> Free] /\ l = Changed(n, off, n.hw)
  OBVIOUS
<1> HIDE DEF its, on, off, left, l
<1>5. l \in Apps /\ SameElse(n, l) /\ l.cache = off
  BY <1>3, <1>4, CacheChanged
<1>6. left \in [Slots -> Entries]
  BY <1>4, Zeroes
<1>7. m \in Apps /\ SameElse(l, m)
  BY <1>1, <1>3, <1>5, <1>6, TakeOutKeeps
<1>8. \A i \in Slots : m.cache[i] = l.cache[i] \/ (i \in on /\ m.cache[i] = left[i])
  <2>1. l \in Apps /\ on \in SUBSET Slots /\ left \in [Slots -> Entries] /\ m \in TakeOut(l, on, left)
    BY <1>1, <1>3, <1>5, <1>6
  <2>2. QED
    BY <2>1, TakeOutCache
<1>9. \A i \in Slots : m.cache[i] = n.cache[i] \/ (i \in its /\ m.cache[i] = Free)
  BY <1>3, <1>4, <1>5, <1>8
<1>10. m.temp = n.temp /\ SameWan(n, m) /\ m.PwrSaveIfs = n.PwrSaveIfs
  BY <1>5, <1>7 DEF SameElse, SameWan
<1>11. Current(m, op)
  BY <1>7, <1>9, <1>10, CurrentLess, Zeroes
<1>12. Lit(m, ifs, op)
  <2>1. ASSUME NEW i \in Slots, m.cache[i].ip \in ifs \ m.PwrSaveIfs,
               op[m.cache[i].flow].pub \in PubIps
        PROVE  m.cache[i].enabled
    <3>1. CASE m.cache[i] = n.cache[i]
      BY <1>10, <2>1, <3>1 DEF Lit
    <3>2. CASE m.cache[i] = Free
      BY <2>1, <3>2, Zeroes, SceneFacts
    <3>3. QED
      BY <1>9, <3>1, <3>2
  <2>2. QED
    BY <2>1 DEF Lit
<1>13. \A f \in Flows : \A c : Has(n, f, c) /\ Target[f] # ip => Has(m, f, c)
  BY <1>3, <1>9 DEF Has
<1>14. QED
  BY <1>10, <1>11, <1>12, <1>13

LEMMA DeleteEntryServes ==
    ASSUME NEW n \in Apps, Tidy(n), NEW r \in Temps, r.flow # NoFlow, NEW m \in DeleteEntry(n, r)
    PROVE  /\ m.temp = n.temp /\ SameWan(n, m) /\ m.PwrSaveIfs = n.PwrSaveIfs /\ m \in Apps
           /\ ~ChkForDup(m, r)
           /\ \A i \in Slots : \/ m.cache[i] = n.cache[i]
                               \/ m.cache[i] = Free /\ Same(n.cache[i], r)
<1>1. m \in Apps /\ SameElse(n, m) /\ ~ChkForDup(m, r)
  BY DeleteEntryKeeps
<1>2. \A i \in Slots : m.cache[i] = n.cache[i] \/ m.cache[i] = Free
  BY DeleteEntryKeeps
<1>3. ASSUME NEW i \in Slots, ~Same(n.cache[i], r) PROVE m.cache[i] = n.cache[i]
  <2>1. CASE ~ChkForDup(n, r)
    BY <2>1 DEF DeleteEntry
  <2>2. CASE ChkForDup(n, r)
    <3> DEFINE T == {j \in Slots : Same(n.cache[j], r)}
               d == Filled(n, Min(T), Free)
    <3>1. T \in SUBSET Nat /\ T # {}
      BY <2>2, Constants DEF ChkForDup
    <3>2. Min(T) \in T
      BY <3>1, Least
    <3>3. Min(T) \in Slots /\ Min(T) # i
      BY <1>3, <3>2
    <3>4. m = d \/ m \in DelRule(n, n.cache[Min(T)].hdl, d, d)
      BY <2>2 DEF DeleteEntry, Filled
    <3> HIDE DEF T
    <3>5. d \in Apps /\ d.cache[i] = n.cache[i]
      BY <3>3, SlotSet, Zeroes
    <3> HIDE DEF d
    <3>6. n.cache[Min(T)].hdl \in 0 .. MaxEntries
      BY <3>3 DEF Apps, Entries
    <3>7. QED
      BY <3>4, <3>5, <3>6, DelRuleKeeps
  <2>3. QED
    BY <2>1, <2>2
<1>4. QED
  BY <1>1, <1>2, <1>3 DEF SameElse

LEMMA DeleteTempEntryServes ==
    ASSUME scene \in Scenes, NEW n \in Apps, NEW r \in Temps, r.flow # NoFlow,
           NEW op, Current(n, op), NEW m \in DeleteTempEntry(n, r)
    PROVE  /\ m.cache = n.cache /\ SameWan(n, m) /\ m.PwrSaveIfs = n.PwrSaveIfs /\ m \in Apps
           /\ r.ip \in NatClients => \A k \in Waiting : ~Same(m.temp[k], r)
           /\ \A k \in Waiting : \/ m.temp[k] = n.temp[k]
                                 \/ m.temp[k] = NoTemp /\ n.temp[k].flow = r.flow
<1> DEFINE found == {k \in Waiting : Same(n.temp[k], r)}
<1>1. CASE found = {}
  BY <1>1 DEF DeleteTempEntry, SameWan
<1>2. CASE found # {}
  <2> DEFINE k == Min(found)
  <2>1. m = Noted(n, k, NoTemp)
    BY <1>2 DEF DeleteTempEntry, Noted
  <2>2. k \in Waiting /\ Same(n.temp[k], r)
    <3>1. k \in found
      BY <1>2, WaitingNumbers, Least
    <3>2. QED
      BY <3>1
  <2> HIDE DEF k, found
  <2>3. /\ m \in Apps /\ SameCore(n, m) /\ m.PwrSaveIfs = n.PwrSaveIfs
        /\ m.temp[k] = NoTemp /\ \A j \in Waiting \ {k} : m.temp[j] = n.temp[j]
    BY <2>1, <2>2, NotedKept, Zeroes
  <2>4. ASSUME r.ip \in NatClients, NEW j \in Waiting, Same(m.temp[j], r) PROVE FALSE
    <3>1. j # k
      BY <2>3, <2>4, Zeroes DEF Same
    <3>2. /\ n.temp[k].flow # NoFlow /\ n.temp[k].ip \in NatClients
          /\ Same(n.temp[k], n.temp[j])
      BY <2>2, <2>3, <2>4, <3>1 DEF Same
    <3>3. QED
      BY <2>2, <3>1, <3>2 DEF Current
  <2>5. QED
    BY <2>2, <2>3, <2>4 DEF SameCore, Same
<1>3. QED
  BY <1>1, <1>2

LEMMA AddTempEntryServes ==
    ASSUME scene \in Scenes, NEW n \in Apps, NEW r \in Temps, r.flow \in Flows,
           NEW m \in AddTempEntry(n, r)
    PROVE  /\ m.cache = n.cache /\ SameWan(n, m) /\ m.PwrSaveIfs = n.PwrSaveIfs
           /\ \/ m = n
              \/ /\ r.flow \notin AlgFlows /\ \A k \in Waiting : ~Same(n.temp[k], r)
                 /\ \E k \in Waiting : /\ n.temp[k].flow = NoFlow /\ m.temp[k] = r
                                       /\ \A j \in Waiting \ {k} : m.temp[j] = n.temp[j]
           /\ (r.flow \notin AlgFlows /\ \E k \in Waiting : n.temp[k].flow = NoFlow) =>
                 Has(m, r.flow, r.ip) \/ Waits(m, r.flow, r.ip)
<1> DEFINE holes == {k \in Waiting : n.temp[k].flow = NoFlow}
<1>1. CASE \/ r.flow \in AlgFlows
           \/ ChkForDup(n, r)
           \/ \E k \in Waiting : Same(n.temp[k], r)
           \/ holes = {}
  <2>1. m = n
    BY <1>1 DEF AddTempEntry
  <2>2. (r.flow \notin AlgFlows /\ holes # {}) => Has(n, r.flow, r.ip) \/ Waits(n, r.flow, r.ip)
    BY <1>1 DEF ChkForDup, Same, Has, Waits
  <2>3. QED
    BY <2>1, <2>2 DEF SameWan
<1>2. CASE ~(\/ r.flow \in AlgFlows
             \/ ChkForDup(n, r)
             \/ \E k \in Waiting : Same(n.temp[k], r)
             \/ holes = {})
  <2> DEFINE k == Min(holes)
  <2>1. m = Noted(n, k, r)
    BY <1>2 DEF AddTempEntry, Noted
  <2>2. k \in Waiting /\ n.temp[k].flow = NoFlow
    <3>1. k \in holes
      BY <1>2, WaitingNumbers, Least
    <3>2. QED
      BY <3>1
  <2> HIDE DEF k
  <2>3. /\ SameCore(n, m) /\ m.PwrSaveIfs = n.PwrSaveIfs
        /\ m.temp[k] = r /\ \A j \in Waiting \ {k} : m.temp[j] = n.temp[j]
    BY <2>1, <2>2, NotedKept
  <2>4. Waits(m, r.flow, r.ip)
    BY <2>2, <2>3 DEF Waits
  <2>5. QED
    BY <1>2, <2>2, <2>3, <2>4 DEF SameCore
<1>3. QED
  BY <1>1, <1>2

-----------------------------------------------------------------------------
(* Every step keeps what is said of the connections that are offloaded.    *)

LEMMA QuietFacts ==
    ASSUME IInv, SparedInv, OffloadInv, Quiet
    PROVE  /\ scene \in Scenes /\ nat \in Apps /\ Tidy(nat) /\ Failing = {}
           /\ Targets \cap Clients = {} /\ natIfs \in SUBSET NatClients
           /\ open \in [Flows -> [ip : Addresses, pub : WanIps]]
           /\ Current(nat, open) /\ Served(nat, natIfs, open) /\ Lit(nat, natIfs, open)
           /\ WanUp => /\ nat.pub_ip_addr = wan_ipaddr /\ wan_ipaddr \in PubIps
                       /\ nat.pub_ip_addr # NoIp
           /\ ~WanUp => /\ nat.pub_ip_addr = NoIp
                        /\ \A f \in Flows : open[f].pub \notin PubIps
BY SceneFacts
   DEF IInv, TypeOK, TableOfWan, CacheTidy, SparedInv, NeverUp, OffloadInv, Quiet

\* Where no connection has a public address there is nothing to serve.
LEMMA NothingToServe ==
    ASSUME scene \in Scenes, NEW n \in Apps, Tidy(n), NEW ifs \in SUBSET NatClients, NEW op,
           \A f \in Flows : op[f].pub \notin PubIps
    PROVE  Served(n, ifs, op) /\ Lit(n, ifs, op)
<1>1. Served(n, ifs, op)
  BY DEF Served, Eligible
<1>2. ASSUME NEW i \in Slots, n.cache[i].ip \in ifs PROVE n.cache[i].flow \in Flows
  BY <1>2, Zeroes, SceneFacts DEF Tidy, Apps, Entries, Names
<1>3. QED
  BY <1>1, <1>2 DEF Lit

LEMMA OffloadStep ==
    ASSUME scene' = scene,
           Quiet' => /\ WanUp' => nat'.pub_ip_addr = wan_ipaddr'
                     /\ Current(nat', open') /\ Served(nat', natIfs', open')
                     /\ Lit(nat', natIfs', open')
    PROVE  OffloadInv'
<1>1. /\ NatClients' = NatClients /\ PubIps' = PubIps /\ AlgFlows' = AlgFlows
      /\ StaTargets' = StaTargets /\ Waiting' = Waiting /\ Target' = Target
  BY SceneStays DEF Waiting, MaxTemp, Target
<1>2. Current(nat', open') => Current(nat, open)'
  BY <1>1 DEF Current, Same
<1>3. Served(nat', natIfs', open') => Served(nat, natIfs, open)'
  BY <1>1 DEF Served, Eligible, Has, Waits
<1>4. Lit(nat', natIfs', open') => Lit(nat, natIfs, open)'
  BY <1>1 DEF Lit
<1>5. QED
  BY <1>2, <1>3, <1>4 DEF OffloadInv

LEMMA QuietStays ==
    ASSUME IInv, scene' = scene, ~isNatThreadStart' => ~isNatThreadStart, Quiet'
    PROVE  Quiet
BY SceneStays DEF Quiet, IInv, TypeOK

\* A method for a client, a peer or a connection.
LEMMA OffloadMethod ==
    ASSUME IInv, SparedInv, OffloadInv, Kept(nat, nat'), UNCHANGED <<wan, thread, scene>>,
           Quiet => Current(nat', open') /\ Served(nat', natIfs', open') /\ Lit(nat', natIfs', open')
    PROVE  OffloadInv'
<1>1. /\ scene' = scene /\ WanUp' = WanUp /\ wan_ipaddr' = wan_ipaddr
      /\ isNatThreadStart' = isNatThreadStart
  BY DEF wan, thread
<1>2. Quiet' => Quiet
  BY <1>1, QuietStays
<1>3. (Quiet /\ WanUp) => nat'.pub_ip_addr = wan_ipaddr
  BY DEF OffloadInv, Kept, SameWan
<1>4. QED
  BY <1>1, <1>2, <1>3, OffloadStep

LEMMA UpOffload ==
    ASSUME IInv, SparedInv, OffloadInv, IInv', SparedInv',
           NEW pub \in PubIps, NEW isSta \in BOOLEAN, TriggerWANUp(pub, isSta)
    PROVE  OffloadInv'
<1>1. /\ ~WanUp /\ WanUp' = TRUE /\ wan_ipaddr' = pub /\ nat' \in AddTable(nat, pub)
      /\ scene' = scene /\ open' = open /\ natIfs' = natIfs
      /\ isNatThreadStart' \in IF isNatThreadStart THEN {TRUE} ELSE ThreadStarts
  BY DEF TriggerWANUp
<1>2. SUFFICES ASSUME Quiet'
               PROVE  /\ nat'.pub_ip_addr = pub
                      /\ Current(nat', open') /\ Served(nat', natIfs', open')
                      /\ Lit(nat', natIfs', open')
  BY <1>1, OffloadStep
<1>3. Quiet
  BY <1>1, <1>2, QuietStays
<1>4. nat' = [nat EXCEPT !.pub_ip_addr = pub]
  <2>1. pub # nat.pub_ip_addr_pre
    BY <1>3, SceneFacts, QuietFacts DEF IInv, TableOfWan, Quiet
  <2>2. QED
    BY <1>1, <1>3, <2>1 DEF AddTable, Quiet
<1>5. /\ nat'.pub_ip_addr = pub /\ nat'.cache = nat.cache /\ nat'.temp = nat.temp
      /\ nat'.PwrSaveIfs = nat.PwrSaveIfs
  BY <1>3, <1>4, QuietFacts DEF Apps
<1>6. \A k \in Waiting : nat.temp[k].flow = NoFlow
  BY <1>1, <1>3, QuietFacts DEF Current
<1>7. Current(nat', open')
  BY <1>1, <1>3, <1>5, <1>6, QuietFacts DEF Current
<1>8. Served(nat', natIfs', open') /\ Lit(nat', natIfs', open')
  BY <1>1, <1>3, <1>5, QuietFacts DEF Served, Lit, Eligible, Has, Waits
<1>9. QED
  BY <1>5, <1>7, <1>8

\* What is flushed changes nothing for a client whose connections it does not move.
LEMMA FlushMethod ==
    ASSUME scene \in Scenes, Failing = {}, Targets \cap Clients = {},
           NEW n \in Apps, Tidy(n), NEW ip, NEW m,
           \/ m \in FlushTempEntries(n, ip, TRUE, FALSE)
           \/ m \in FlushTempEntries(n, ip, TRUE, TRUE)
           \/ m \in FlushTempEntries(n, ip, FALSE, FALSE),
           NEW op, NEW ifs \in SUBSET NatClients, Current(n, op), Lit(n, ifs, op)
    PROVE  /\ m \in Apps /\ Tidy(m) /\ SameWan(n, m)
           /\ Current(m, op) /\ Lit(m, ifs, op) /\ m.PwrSaveIfs = n.PwrSaveIfs
           /\ Stays(n, m)
           /\ \A f \in Flows, c \in NatClients : /\ Waits(n, f, c)
                                                 /\ c # ip /\ Target[f] # ip
                                                 => Has(m, f, c) \/ Waits(m, f, c)
<1>1. Kept(n, m)
  BY FlushesKept
<1>2. /\ Current(m, op) /\ Lit(m, ifs, op) /\ m.PwrSaveIfs = n.PwrSaveIfs /\ Stays(n, m)
      /\ \/ Forwards(n, m, ip, TRUE, FALSE)
         \/ Forwards(n, m, ip, TRUE, TRUE)
         \/ Forwards(n, m, ip, FALSE, FALSE)
  <2>1. CASE m \in FlushTempEntries(n, ip, TRUE, FALSE)
    <3> DEFINE a == TRUE
               b == FALSE
    <3>1. m \in FlushTempEntries(n, ip, a, b)
      BY <2>1
    <3> HIDE DEF a, b
    <3>2. /\ Current(m, op) /\ Lit(m, ifs, op) /\ m.PwrSaveIfs = n.PwrSaveIfs /\ Stays(n, m)
          /\ Forwards(n, m, ip, a, b)
      BY <3>1, FlushServes
    <3>3. QED
      BY <3>2 DEF a, b
  <2>2. CASE m \in FlushTempEntries(n, ip, TRUE, TRUE)
    <3> DEFINE a == TRUE
               b == TRUE
    <3>1. m \in FlushTempEntries(n, ip, a, b)
      BY <2>2
    <3> HIDE DEF a, b
    <3>2. /\ Current(m, op) /\ Lit(m, ifs, op) /\ m.PwrSaveIfs = n.PwrSaveIfs /\ Stays(n, m)
          /\ Forwards(n, m, ip, a, b)
      BY <3>1, FlushServes
    <3>3. QED
      BY <3>2 DEF a, b
  <2>3. CASE m \in FlushTempEntries(n, ip, FALSE, FALSE)
    <3> DEFINE a == FALSE
               b == FALSE
    <3>1. m \in FlushTempEntries(n, ip, a, b)
      BY <2>3
    <3> HIDE DEF a, b
    <3>2. /\ Current(m, op) /\ Lit(m, ifs, op) /\ m.PwrSaveIfs = n.PwrSaveIfs /\ Stays(n, m)
          /\ Forwards(n, m, ip, a, b)
      BY <3>1, FlushServes
    <3>3. QED
      BY <3>2 DEF a, b
  <2>4. QED
    BY <2>1, <2>2, <2>3
<1>3. QED
  BY <1>1, <1>2 DEF Kept, Forwards

\* A client that comes: what waited for it has an entry now.
LEMMA ArrivalOffload ==
    ASSUME IInv, SparedInv, OffloadInv, ~IsFull(nat'), NEW c \in Clients, HandleNeighIpAddrAddEvt(c)
    PROVE  OffloadInv'
<1>1. /\ c \in NatClients /\ natIfs' = natIfs \cup {c} /\ open' = open
      /\ UNCHANGED <<wan, thread, scene>>
  BY DEF HandleNeighIpAddrAddEvt
<1>2. PICK m \in ResetPwrSaveIf(nat, c) : nat' \in FlushTempEntries(m, c, TRUE, FALSE)
  BY Zenon DEF HandleNeighIpAddrAddEvt, Then
<1>3. scene \in Scenes /\ nat \in Apps
  BY DEF IInv, TypeOK
<1>4. Kept(nat, m) /\ m \in Apps
  BY <1>3, ResetPwrSaveIfKept DEF Kept
<1>5. Kept(nat, nat')
  BY <1>2, <1>3, <1>4, FlushesKept, KeptTwice
<1>6. ASSUME Quiet
      PROVE  Current(nat', open) /\ Served(nat', natIfs', open) /\ Lit(nat', natIfs', open)
  <2>1. /\ Tidy(nat) /\ Failing = {} /\ Targets \cap Clients = {} /\ natIfs \in SUBSET NatClients
        /\ Current(nat, open) /\ Served(nat, natIfs, open) /\ Lit(nat, natIfs, open)
        /\ ~WanUp => /\ nat.pub_ip_addr = NoIp
                     /\ \A f \in Flows : open[f].pub \notin PubIps
        /\ WanUp => nat.pub_ip_addr # NoIp
    BY <1>6, QuietFacts
  <2>2. Tidy(m) /\ Tidy(nat') /\ nat' \in Apps
    BY <1>4, <1>5, <2>1 DEF Kept
  <2>3. Current(m, open) /\ m.temp = nat.temp
    BY <1>2, <1>3, <2>1, ResetPwrSaveIfServes
  <2>4. natIfs' \in SUBSET NatClients
    BY <1>1, <2>1
  <2>5. Lit(m, natIfs', open)
    <3>1. CASE WanUp
      BY <1>1, <1>2, <1>3, <2>1, <3>1, ResetPwrSaveIfServes
    <3>2. CASE ~WanUp
      BY <1>3, <1>4, <2>1, <2>2, <2>4, <3>2, NothingToServe
    <3>3. QED
      BY <3>1, <3>2
  <2>6. /\ Current(nat', open) /\ Lit(nat', natIfs', open)
        /\ Stays(m, nat') /\ Forwards(m, nat', c, TRUE, FALSE)
        /\ IsFull(nat') \/ \A k \in Waiting : Flushed(nat', k, c)
    BY <1>2, <1>3, <1>4, <2>1, <2>2, <2>3, <2>4, <2>5, FlushServes
  <2>7. ASSUME NEW f \in Flows, Eligible(open, f)
        PROVE  \/ Has(nat', f, open[f].ip)
               \/ open[f].ip \notin natIfs' /\ Waits(nat', f, open[f].ip)
    <3> DEFINE ip == open[f].ip
    <3>1. ip \in NatClients /\ WanUp /\ f # NoFlow
      BY <2>1, <2>7, Constants DEF Eligible
    <3>2. SameRules(nat, m)
      BY <1>2, <1>3, <2>1, <2>3, <3>1, ResetPwrSaveIfServes
    <3>3. CASE Has(nat, f, ip)
      <4>1. Has(m, f, ip)
        BY <3>2, <3>3, SameRulesHas
      <4>2. QED
        BY <2>6, <3>1, <4>1, StaysHas
    <3>4. CASE ip \notin natIfs /\ Waits(nat, f, ip)
      <4>1. Waits(m, f, ip)
        BY <2>3, <3>4 DEF Waits
      <4>2. Has(nat', f, ip) \/ Waits(nat', f, ip)
        BY <2>6, <3>1, <4>1 DEF Forwards
      <4>3. ASSUME ip = c, Waits(nat', f, ip) PROVE Has(nat', f, ip)
        <5>1. PICK k \in Waiting : nat'.temp[k].flow = f /\ nat'.temp[k].ip = ip
          BY <1>1, <4>3 DEF Waits
        <5>2. Flushed(nat', k, c)
          BY <2>6
        <5>3. QED
          BY <3>1, <4>3, <5>1, <5>2 DEF Flushed
      <4>4. QED
        BY <1>1, <3>4, <4>2, <4>3
    <3>5. QED
      BY <2>1, <2>7, <3>3, <3>4 DEF Served
  <2>8. Served(nat', natIfs', open)
    BY <2>7 DEF Served
  <2>9. QED
    BY <2>6, <2>8
<1>7. QED
  BY <1>1, <1>5, <1>6, OffloadMethod

\* A client that leaves; nothing waited for it while it was there.
LEMMA LeaveOffload ==
    ASSUME IInv, SparedInv, OffloadInv, NEW c \in Clients,
           HandleNeighIpAddrDelEvt(c) \/ HandleNonNatIPAddrDel(c)
    PROVE  OffloadInv'
<1>1. /\ open' = open /\ UNCHANGED <<wan, thread, scene>>
      /\ \/ c \in natIfs /\ natIfs' = natIfs \ {c}
         \/ nonNat[c] > 0 /\ natIfs' = natIfs
  BY DEF HandleNeighIpAddrDelEvt, HandleNonNatIPAddrDel
<1>2. PICK m \in FlushTempEntries(nat, c, FALSE, FALSE) : nat' \in DelEntriesOnClntDiscon(m, c)
  BY Zenon DEF HandleNeighIpAddrDelEvt, HandleNonNatIPAddrDel, Then
<1>3. scene \in Scenes /\ nat \in Apps /\ NatOnly /\ natIfs \subseteq NatClients
  BY DEF IInv, TypeOK, SparedInv
<1>4. Kept(nat, m) /\ m \in Apps
  BY <1>3, FlushesKept DEF Kept
<1>5. Kept(nat, nat')
  BY <1>2, <1>3, <1>4, ClientGoneKept, KeptTwice
<1>6. c \in NatClients => c \in natIfs /\ natIfs' = natIfs \ {c}
  BY <1>1, <1>3 DEF NatOnly
<1>7. natIfs' = natIfs \ {c}
  BY <1>1, <1>3, <1>6
<1>8. ASSUME Quiet
      PROVE  Current(nat', open) /\ Served(nat', natIfs', open) /\ Lit(nat', natIfs', open)
  <2>1. /\ Tidy(nat) /\ Failing = {} /\ Targets \cap Clients = {} /\ natIfs \in SUBSET NatClients
        /\ Current(nat, open) /\ Served(nat, natIfs, open) /\ Lit(nat, natIfs, open)
    BY <1>8, QuietFacts
  <2>2. /\ Current(m, open) /\ Lit(m, natIfs, open) /\ Stays(nat, m)
        /\ \A f \in Flows, x \in NatClients : /\ Waits(nat, f, x)
                                              /\ x # c /\ Target[f] # c
                                              => Has(m, f, x) \/ Waits(m, f, x)
    BY <1>2, <1>3, <2>1, FlushMethod
  <2>3. /\ Current(nat', open) /\ Lit(nat', natIfs', open)
        /\ SameRules(m, nat') /\ nat'.temp = m.temp
    BY <1>2, <1>3, <1>4, <1>7, <2>2, ClientGoneServes
  <2>4. ASSUME NEW f \in Flows, Eligible(open, f)
        PROVE  \/ Has(nat', f, open[f].ip)
               \/ open[f].ip \notin natIfs' /\ Waits(nat', f, open[f].ip)
    <3> DEFINE ip == open[f].ip
    <3>1. ip \in NatClients /\ f # NoFlow /\ Target[f] # c
      BY <2>1, <2>4, Constants DEF Eligible, Targets
    <3>2. CASE Has(nat, f, ip)
      BY <2>2, <2>3, <3>1, <3>2, StaysHas, SameRulesHas
    <3>3. CASE ip \notin natIfs /\ Waits(nat, f, ip)
      <4>1. ip # c
        BY <1>6, <3>1, <3>3
      <4>2. Has(m, f, ip) \/ Waits(m, f, ip)
        BY <2>2, <3>1, <3>3, <4>1
      <4>3. Has(nat', f, ip) \/ Waits(nat', f, ip)
        BY <2>3, <4>2, SameRulesHas DEF Waits
      <4>4. QED
        BY <1>7, <3>3, <4>3
    <3>4. QED
      BY <2>1, <2>4, <3>2, <3>3 DEF Served
  <2>5. QED
    BY <2>3, <2>4 DEF Served
<1>9. QED
  BY <1>1, <1>5, <1>8, OffloadMethod

\* Clients that are not NATed, and those that sleep or wake up.
LEMMA OthersOffload ==
    ASSUME IInv, SparedInv, OffloadInv, Room, NEW c \in Clients,
           \/ HandleNonNatIPAddrAdd(c)
           \/ handle_wlan_client_pwrsave(c)
           \/ WlanClientRecover(c)
    PROVE  OffloadInv'
<1>1. open' = open /\ natIfs' = natIfs /\ UNCHANGED <<wan, thread, scene>>
  BY DEF HandleNonNatIPAddrAdd, handle_wlan_client_pwrsave, WlanClientRecover
<1>2. scene \in Scenes /\ nat \in Apps
  BY DEF IInv, TypeOK
<1>3. SUFFICES /\ Kept(nat, nat')
               /\ Quiet => /\ Current(nat', open) /\ Served(nat', natIfs, open)
                           /\ Lit(nat', natIfs, open)
  BY <1>1, OffloadMethod
<1>4. CASE nat' = nat
  BY <1>2, <1>4, KeptSame, QuietFacts
<1>5. CASE HandleNonNatIPAddrAdd(c)
  <2>1. c \notin NatClients /\ nat' \in FlushTempEntries(nat, c, TRUE, TRUE)
    BY <1>5 DEF HandleNonNatIPAddrAdd
  <2>2. Kept(nat, nat')
    BY <1>2, <2>1, FlushesKept
  <2>3. ASSUME Quiet
        PROVE  Current(nat', open) /\ Served(nat', natIfs, open) /\ Lit(nat', natIfs, open)
    <3>1. /\ Tidy(nat) /\ Failing = {} /\ Targets \cap Clients = {} /\ natIfs \in SUBSET NatClients
          /\ Current(nat, open) /\ Served(nat, natIfs, open) /\ Lit(nat, natIfs, open)
      BY <2>3, QuietFacts
    <3>2. /\ Current(nat', open) /\ Lit(nat', natIfs, open) /\ Stays(nat, nat')
          /\ \A f \in Flows, x \in NatClients : /\ Waits(nat, f, x)
                                                /\ x # c /\ Target[f] # c
                                                => Has(nat', f, x) \/ Waits(nat', f, x)
      <4> DEFINE n == nat
                 m == nat'
      <4>1. /\ scene \in Scenes /\ Failing = {} /\ Targets \cap Clients = {}
            /\ n \in Apps /\ Tidy(n) /\ natIfs \in SUBSET NatClients
            /\ Current(n, open) /\ Lit(n, natIfs, open)
        BY <1>2, <3>1
      <4>2. \/ m \in FlushTempEntries(n, c, TRUE, FALSE)
            \/ m \in FlushTempEntries(n, c, TRUE, TRUE)
            \/ m \in FlushTempEntries(n, c, FALSE, FALSE)
        BY <2>1
      <4> HIDE DEF n, m
      <4>3. /\ Current(m, open) /\ Lit(m, natIfs, open) /\ Stays(n, m)
            /\ \A f \in Flows, x \in NatClients : /\ Waits(n, f, x)
                                                  /\ x # c /\ Target[f] # c
                                                  => Has(m, f, x) \/ Waits(m, f, x)
        BY <4>1, <4>2, FlushMethod
      <4>4. QED
        BY <4>3 DEF n, m
    <3>3. ASSUME NEW f \in Flows, Eligible(open, f)
          PROVE  \/ Has(nat', f, open[f].ip)
                 \/ open[f].ip \notin natIfs /\ Waits(nat', f, open[f].ip)
      <4>1. /\ open[f].ip \in NatClients /\ f # NoFlow /\ Target[f] # c /\ open[f].ip # c
        <5>1. open[f].ip \in NatClients /\ f # NoFlow
          BY <3>3, Constants DEF Eligible
        <5>2. Target[f] # c
          <6>1. Target[f] \in Targets
            BY DEF Targets
          <6>2. Targets \cap Clients = {}
            BY <3>1
          <6>3. QED
            BY <6>1, <6>2
        <5>3. c \notin NatClients
          BY <2>1
        <5>4. QED
          BY <5>1, <5>2, <5>3
      <4>2. \/ Has(nat, f, open[f].ip)
            \/ open[f].ip \notin natIfs /\ Waits(nat, f, open[f].ip)
        BY <3>1, <3>3 DEF Served
      <4>3. QED
        BY <3>2, <4>1, <4>2, StaysHas
    <3>4. QED
      BY <3>2, <3>3 DEF Served
  <2>4. QED
    BY <2>2, <2>3
<1>6. CASE nat' \in UpdatePwrSaveIf(nat, c)
  <2>1. Kept(nat, nat')
    BY <1>2, <1>6, UpdatePwrSaveIfKept
  <2>2. ASSUME Quiet
        PROVE  Current(nat', open) /\ Served(nat', natIfs, open) /\ Lit(nat', natIfs, open)
    <3>1. Current(nat, open) /\ Served(nat, natIfs, open) /\ Lit(nat, natIfs, open)
      BY <2>2, QuietFacts
    <3>2. /\ Current(nat', open) /\ Lit(nat', natIfs, open) /\ SameRules(nat, nat')
          /\ nat'.temp = nat.temp
      BY <1>2, <1>6, <3>1, UpdatePwrSaveIfServes DEF Room
    <3>3. Served(nat', natIfs, open)
      BY <3>1, <3>2, SameRulesHas DEF Served, Waits
    <3>4. QED
      BY <3>2, <3>3
  <2>3. QED
    BY <2>1, <2>2
<1>7. CASE c \in natIfs /\ nat' \in ResetPwrSaveIf(nat, c)
  <2>1. Kept(nat, nat')
    BY <1>2, <1>7, ResetPwrSaveIfKept
  <2>2. ASSUME Quiet
        PROVE  Current(nat', open) /\ Served(nat', natIfs, open) /\ Lit(nat', natIfs, open)
    <3>1. /\ Tidy(nat) /\ Failing = {} /\ natIfs \in SUBSET NatClients
          /\ Current(nat, open) /\ Served(nat, natIfs, open) /\ Lit(nat, natIfs, open)
          /\ ~WanUp => /\ nat.pub_ip_addr = NoIp
                       /\ \A f \in Flows : open[f].pub \notin PubIps
          /\ WanUp => nat.pub_ip_addr # NoIp
      BY <2>2, QuietFacts
    <3>2. /\ Current(nat', open) /\ nat'.temp = nat.temp
          /\ WanUp => /\ SameRules(nat, nat')
                      /\ Lit(nat', natIfs \cup {c}, open)
      BY <1>2, <1>7, <3>1, ResetPwrSaveIfServes
    <3>3. CASE WanUp
      <4>1. natIfs \cup {c} = natIfs
        BY <1>7
      <4>2. Lit(nat', natIfs, open)
        BY <3>2, <3>3, <4>1
      <4>3. Served(nat', natIfs, open)
        BY <3>1, <3>2, <3>3, SameRulesHas DEF Served, Waits
      <4>4. QED
        BY <3>2, <4>2, <4>3
    <3>4. CASE ~WanUp
      <4>1. nat' \in Apps /\ Tidy(nat')
        BY <2>1, <3>1 DEF Kept
      <4>2. QED
        BY <1>2, <3>1, <3>2, <3>4, <4>1, NothingToServe
    <3>5. QED
      BY <3>3, <3>4
  <2>3. QED
    BY <2>1, <2>2
<1>8. QED
  <2>1. handle_wlan_client_pwrsave(c) => nat' = nat \/ nat' \in UpdatePwrSaveIf(nat, c)
    BY Zenon DEF handle_wlan_client_pwrsave
  <2>2. WlanClientRecover(c) => nat' = nat \/ (c \in natIfs /\ nat' \in ResetPwrSaveIf(nat, c))
    BY Zenon DEF WlanClientRecover
  <2>3. QED
    BY <1>4, <1>5, <1>6, <1>7, <2>1, <2>2

\* A client of the station interface comes or goes.
LEMMA StationOffload ==
    ASSUME IInv, SparedInv, OffloadInv, NEW t \in Targets,
           HandleSTAClientAddEvt(t) \/ HandleSTAClientDelEvt(t)
    PROVE  OffloadInv'
<1>1. /\ open' = open /\ natIfs' = natIfs /\ UNCHANGED <<wan, thread, scene>>
      /\ t \in StaTargets
  BY DEF HandleSTAClientAddEvt, HandleSTAClientDelEvt
<1>2. scene \in Scenes /\ nat \in Apps
  BY DEF IInv, TypeOK
<1>3. PICK m : /\ m = nat \/ m \in DelEntriesOnSTAClntDiscon(nat, t)
               /\ \/ nat' = m
                  \/ nat' \in FlushTempEntries(m, t, TRUE, FALSE)
                  \/ nat' \in FlushTempEntries(m, t, FALSE, FALSE)
  BY Zenon DEF HandleSTAClientAddEvt, HandleSTAClientDelEvt, Then
<1>4. Kept(nat, m) /\ m \in Apps
  BY <1>2, <1>3, StaClientGoneKept, KeptSame DEF Kept
<1>5. Kept(nat, nat')
  BY <1>2, <1>3, <1>4, FlushesKept, KeptTwice
<1>6. ASSUME Quiet
      PROVE  Current(nat', open) /\ Served(nat', natIfs, open) /\ Lit(nat', natIfs, open)
  <2>1. /\ Tidy(nat) /\ Failing = {} /\ Targets \cap Clients = {} /\ natIfs \in SUBSET NatClients
        /\ Current(nat, open) /\ Served(nat, natIfs, open) /\ Lit(nat, natIfs, open)
    BY <1>6, QuietFacts
  <2>2. /\ Current(m, open) /\ Lit(m, natIfs, open) /\ m.temp = nat.temp /\ Tidy(m)
        /\ \A f \in Flows : \A x : Has(nat, f, x) /\ Target[f] # t => Has(m, f, x)
    BY <1>2, <1>3, <1>4, <2>1, StaClientGoneServes DEF Kept
  <2>3. /\ Current(nat', open) /\ Lit(nat', natIfs, open)
        /\ \A f \in Flows \ {NoFlow} : \A x : Has(m, f, x) => Has(nat', f, x)
        /\ \A f \in Flows, x \in NatClients : /\ Waits(m, f, x)
                                              /\ x # t /\ Target[f] # t
                                              => Has(nat', f, x) \/ Waits(nat', f, x)
    <3>1. CASE nat' = m
      BY <2>2, <3>1
    <3>2. CASE nat' # m
      BY <1>2, <1>3, <1>4, <2>1, <2>2, <3>2, FlushMethod, StaysHas
    <3>3. QED
      BY <3>1, <3>2
  <2>4. ASSUME NEW f \in Flows, Eligible(open, f)
        PROVE  \/ Has(nat', f, open[f].ip)
               \/ open[f].ip \notin natIfs /\ Waits(nat', f, open[f].ip)
    <3>1. /\ open[f].ip \in NatClients /\ f # NoFlow /\ Target[f] # t /\ open[f].ip # t
      BY <1>1, <1>2, <2>1, <2>4, Constants, WanNoClient DEF Eligible
    <3>2. \/ Has(nat, f, open[f].ip)
          \/ open[f].ip \notin natIfs /\ Waits(nat, f, open[f].ip)
      BY <2>1, <2>4 DEF Served
    <3>3. Waits(nat, f, open[f].ip) => Waits(m, f, open[f].ip)
      BY <2>2 DEF Waits
    <3>4. QED
      BY <2>2, <2>3, <3>1, <3>2, <3>3
  <2>5. QED
    BY <2>3, <2>4 DEF Served
<1>7. QED
  BY <1>1, <1>5, <1>6, OffloadMethod

-----------------------------------------------------------------------------
(* Connections that are opened and closed.                                  *)

\* The entry of a connection of a NATed client is its own.
LEMMA NatedEntry ==
    ASSUME IInv, SparedInv, Targets \cap Clients = {},
           NEW f \in Flows, NEW ip \in NatClients
    PROVE  /\ Relevant(f, ip) /\ EntryIp(f, ip) = ip
           /\ ip \in natIfs => ~AddIface(f, ip)
<1>1. /\ ip \in Clients /\ ip # wan_ipaddr /\ ip \notin NonNatIfs
      /\ NonNatIfs \subseteq Clients /\ natIfs \subseteq NatClients
  BY SceneFacts DEF IInv, TypeOK, SparedInv, NatOnly, NonNatIfs
<1>2. Target[f] \notin Clients
  BY DEF Targets
<1>3. QED
  BY <1>1, <1>2 DEF Relevant, EntryIp, AddIface, Matches

\* No other entry is of a NATed client.
LEMMA OtherEntry ==
    ASSUME IInv, NEW f \in Flows, NEW ip \in Addresses, EntryIp(f, ip) \in NatClients
    PROVE  EntryIp(f, ip) = ip
BY SceneFacts DEF IInv, TypeOK, EntryIp

\* A connection that is opened, or closed, is not that of another entry.
LEMMA OthersOpen ==
    ASSUME scene \in Scenes, NEW n \in Apps, Tidy(n), NEW ifs \in SUBSET NatClients,
           NEW op, NEW oq, Current(n, op), Lit(n, ifs, op),
           NEW f, \A g \in Flows \ {f} : oq[g] = op[g],
           oq[f] = op[f] \/ op[f].ip = NoIp
    PROVE  Current(n, oq) /\ Lit(n, ifs, oq)
<1>1. \A g \in Flows : op[g].ip \in NatClients => oq[g] = op[g]
  BY WanNoClient
<1>2. ASSUME NEW i \in Slots, n.cache[i].ip \in NatClients
      PROVE  /\ op[n.cache[i].flow].ip = n.cache[i].ip
             /\ oq[n.cache[i].flow] = op[n.cache[i].flow]
  <2>1. n.cache[i].flow \in Flows
    BY <1>2, Zeroes, WanNoClient DEF Tidy, Apps, Entries, Names
  <2>2. op[n.cache[i].flow].ip = n.cache[i].ip
    BY <1>2 DEF Current
  <2>3. QED
    BY <1>1, <1>2, <2>1, <2>2
<1>3. ASSUME NEW k \in Waiting, n.temp[k].flow # NoFlow, n.temp[k].ip \in NatClients
      PROVE  oq[n.temp[k].flow].ip = n.temp[k].ip
  <2>1. n.temp[k].flow \in Flows
    BY <1>3 DEF Apps, Temps, Names
  <2>2. op[n.temp[k].flow].ip = n.temp[k].ip
    BY <1>3 DEF Current
  <2>3. QED
    BY <1>1, <1>3, <2>1, <2>2
<1>4. Current(n, oq)
  BY <1>2, <1>3 DEF Current
<1>5. Lit(n, ifs, oq)
  BY <1>2 DEF Lit
<1>6. QED
  BY <1>4, <1>5

\* The connection r is entered where a place was free.
LEMMA EntryCurrent ==
    ASSUME scene \in Scenes, NEW n \in Apps, NEW m \in Apps, NEW op, Current(n, op),
           SameWan(n, m), m.temp = n.temp,
           NEW r \in Temps, r.ip \in NatClients => op[r.flow].ip = r.ip,
           \A i \in Slots : Rule(m.cache[i]) \in {Rule(n.cache[i]), NoRule, Rule(r)}
    PROVE  Current(m, op)
<1>1. ASSUME NEW i \in Slots, m.cache[i].ip \in NatClients
      PROVE  op[m.cache[i].flow].ip = m.cache[i].ip
  <2>1. m.cache[i] \in Entries /\ n.cache[i] \in Entries
    BY DEF Apps
  <2>2. Rule(m.cache[i]) # NoRule
    BY <1>1, <2>1, RuleOf, WanNoClient, Zeroes
  <2>3. \/ m.cache[i].flow = n.cache[i].flow /\ m.cache[i].ip = n.cache[i].ip
        \/ m.cache[i].flow = r.flow /\ m.cache[i].ip = r.ip
    BY <2>1, <2>2, RuleOf DEF Rule
  <2>4. QED
    BY <1>1, <2>3 DEF Current
<1>2. QED
  BY <1>1 DEF Current, SameWan

LEMMA OpenedOffload ==
    ASSUME IInv, SparedInv, OffloadInv, Room, SparedInv',
           NEW f \in Flows, NEW ip \in Clients \cup PubIps, ConnectionUp(f, ip)
    PROVE  OffloadInv'
<1> DEFINE r == Entry(f, ip)
           v == [ip |-> ip, pub |-> IF WanUp THEN wan_ipaddr ELSE NoIp]
<1>1. /\ scene \in Scenes /\ nat \in Apps /\ open \in [Flows -> [ip : Addresses, pub : WanIps]]
      /\ ip \in Addresses /\ ip # NoIp
  BY SceneFacts DEF IInv, TypeOK, Addresses, WanIps
<1>2. /\ open[f].ip \in {NoIp, ip} /\ open' = IF open[f].ip = ip THEN open ELSE [open EXCEPT ![f] = v]
      /\ UNCHANGED <<wan, natIfs, thread, scene>> /\ natIfs' = natIfs
      /\ scene' = scene /\ WanUp' = WanUp
  BY DEF ConnectionUp, wan
<1>3. /\ \A g \in Flows \ {f} : open'[g] = open[g]
      /\ open'[f] = open[f] \/ open[f].ip = NoIp
      /\ open'[f].ip = ip
  <2>1. v.ip = ip
    OBVIOUS
  <2> HIDE DEF v
  <2>2. QED
    BY <1>1, <1>2, <2>1
<1>4. r \in Temps /\ r.flow = f /\ r.flow # NoFlow /\ r.ip = EntryIp(f, ip) /\ r.public_ip = wan_ipaddr
  BY <1>1, EntryOfConnection DEF Entry
<1>5. \/ nat' = nat /\ ~Relevant(f, ip)
      \/ ~WanUp /\ nat' \in CacheEntry(nat, r)
      \/ WanUp /\ (AddIface(f, ip) \/ CheckSTAClient(f)) /\ nat' \in AddTempEntry(nat, r)
      \/ WanUp /\ ~AddIface(f, ip) /\ nat' \in AddEntry(nat, r)
  BY Zenon DEF ConnectionUp, Established
<1> HIDE DEF r, v
<1>6. Kept(nat, nat')
  BY <1>1, <1>4, <1>5, CacheEntryKept, AddTempEntryKept, AddEntryKept, KeptSame
<1>7. ASSUME Quiet
      PROVE  Current(nat', open') /\ Served(nat', natIfs', open') /\ Lit(nat', natIfs', open')
  <2>1. /\ Tidy(nat) /\ Failing = {} /\ Targets \cap Clients = {} /\ natIfs \in SUBSET NatClients
        /\ Current(nat, open) /\ Served(nat, natIfs, open) /\ Lit(nat, natIfs, open)
        /\ WanUp => /\ nat.pub_ip_addr = wan_ipaddr /\ wan_ipaddr \in PubIps
                    /\ nat.pub_ip_addr # NoIp
    BY <1>7, QuietFacts
  <2>2. Current(nat, open') /\ Lit(nat, natIfs, open')
    BY <1>1, <1>3, <2>1, OthersOpen
  <2>3. nat' \in Apps /\ Tidy(nat')
    BY <1>6, <2>1 DEF Kept
  <2>4. r.ip \in NatClients => open'[r.flow].ip = r.ip
    BY <1>1, <1>3, <1>4, OtherEntry
  <2>5. ~WanUp => \A g \in Flows : open'[g].pub \notin PubIps
    BY <1>1, <1>2, <1>7, SceneStays, SceneFacts DEF SparedInv, NeverUp, Quiet
  <2>6. WanUp => r.ip # NoIp
    BY <1>1, <1>4, <2>1 DEF EntryIp
  <2>7. ASSUME \A g, x : g # NoFlow /\ Has(nat, g, x) => Has(nat', g, x),
               \A g \in Flows : \A x : Waits(nat, g, x) => Waits(nat', g, x),
               Eligible(open', f) => Has(nat', f, ip) \/ (ip \notin natIfs /\ Waits(nat', f, ip))
        PROVE  Served(nat', natIfs', open')
    <3>1. ASSUME NEW g \in Flows, g # f, Eligible(open', g)
          PROVE  Has(nat', g, open'[g].ip) \/ (open'[g].ip \notin natIfs /\ Waits(nat', g, open'[g].ip))
      <4>1. open'[g] = open[g] /\ g # NoFlow /\ Eligible(open, g)
        BY <1>3, <3>1, Constants DEF Eligible
      <4>2. QED
        BY <2>1, <2>7, <4>1 DEF Served
    <3>2. QED
      BY <1>2, <1>3, <2>7, <3>1 DEF Served
  <2>8. Eligible(open', f) =>
           /\ ip \in NatClients /\ WanUp /\ f \notin AlgFlows /\ ~CheckSTAClient(f)
           /\ Relevant(f, ip) /\ r.ip = ip /\ (ip \in natIfs => ~AddIface(f, ip))
    BY <1>3, <1>4, <2>1, <2>5, NatedEntry DEF Eligible, CheckSTAClient
  <2>9. CASE nat' = nat /\ ~Relevant(f, ip)
    BY <1>2, <2>2, <2>7, <2>8, <2>9
  <2>10. CASE ~WanUp /\ nat' \in CacheEntry(nat, r)
    <3>1. /\ SameElse(nat, nat') /\ Gains(nat, nat', {Rule(r)})
      BY <1>1, <1>4, <2>10, CacheEntryKeeps
    <3>2. Current(nat', open')
      BY <1>1, <1>4, <2>2, <2>3, <2>4, <3>1, EntryCurrent DEF SameElse, Gains
    <3>3. QED
      BY <1>1, <1>2, <2>1, <2>3, <2>5, <2>10, <3>2, NothingToServe
  <2>11. CASE WanUp /\ (AddIface(f, ip) \/ CheckSTAClient(f)) /\ nat' \in AddTempEntry(nat, r)
    <3>1. /\ nat'.cache = nat.cache /\ SameWan(nat, nat') /\ nat'.PwrSaveIfs = nat.PwrSaveIfs
          /\ \/ nat' = nat
             \/ /\ r.flow \notin AlgFlows /\ \A k \in Waiting : ~Same(nat.temp[k], r)
                /\ \E k \in Waiting : /\ nat.temp[k].flow = NoFlow /\ nat'.temp[k] = r
                                      /\ \A j \in Waiting \ {k} : nat'.temp[j] = nat.temp[j]
          /\ r.flow \notin AlgFlows => Has(nat', r.flow, r.ip) \/ Waits(nat', r.flow, r.ip)
      BY <1>1, <1>4, <2>11, AddTempEntryServes DEF Room
    <3>2. Current(nat', open')
      <4>1. CASE nat' = nat
        BY <2>2, <4>1
      <4>2. CASE nat' # nat
        <5>1. PICK k \in Waiting : /\ nat.temp[k].flow = NoFlow /\ nat'.temp[k] = r
                                   /\ \A j \in Waiting \ {k} : nat'.temp[j] = nat.temp[j]
          BY <3>1, <4>2
        <5>2. r.flow \notin AlgFlows /\ \A j \in Waiting : ~Same(nat.temp[j], r)
          BY <3>1, <4>2
        <5>3. \A i \in Slots : nat'.cache[i].ip \in NatClients =>
                 open'[nat'.cache[i].flow].ip = nat'.cache[i].ip
          BY <2>2, <3>1 DEF Current
        <5>4. \A j \in Waiting : nat'.temp[j].flow # NoFlow =>
                 /\ nat'.temp[j].public_ip = nat'.pub_ip_addr /\ nat'.pub_ip_addr # NoIp
                 /\ nat'.temp[j].flow \notin AlgFlows /\ nat'.temp[j].ip # NoIp
                 /\ nat'.temp[j].ip \in NatClients => open'[nat'.temp[j].flow].ip = nat'.temp[j].ip
          BY <1>4, <2>1, <2>2, <2>4, <2>6, <2>11, <3>1, <5>1, <5>2 DEF Current, SameWan
        <5>5. \A i, j \in Waiting :
                 /\ nat'.temp[i].flow # NoFlow /\ nat'.temp[i].ip \in NatClients
                 /\ Same(nat'.temp[i], nat'.temp[j])
                 => i = j
          BY <2>2, <5>1, <5>2 DEF Current, Same
        <5>6. QED
          BY <5>3, <5>4, <5>5 DEF Current
      <4>3. QED
        BY <4>1, <4>2
    <3>3. Lit(nat', natIfs', open')
      BY <1>2, <2>2, <3>1 DEF Lit
    <3>4. \A g \in Flows : \A x : Waits(nat, g, x) => Waits(nat', g, x)
      BY <3>1, Constants DEF Waits
    <3>5. \A g, x : g # NoFlow /\ Has(nat, g, x) => Has(nat', g, x)
      BY <3>1 DEF Has
    <3>6. ASSUME Eligible(open', f)
          PROVE  Has(nat', f, ip) \/ (ip \notin natIfs /\ Waits(nat', f, ip))
      BY <1>4, <2>8, <2>11, <3>1, <3>6
    <3>7. QED
      BY <2>7, <3>2, <3>3, <3>4, <3>5, <3>6
  <2>12. CASE WanUp /\ ~AddIface(f, ip) /\ nat' \in AddEntry(nat, r)
    <3>1. SameElse(nat, nat') /\ Gains(nat, nat', {Rule(r)}) /\ (nat' = nat \/ f \notin AlgFlows)
      BY <1>1, <1>4, <2>12, AddEntryKeeps
    <3>2. CASE f \in AlgFlows
      BY <1>2, <2>2, <2>7, <2>8, <3>1, <3>2
    <3>3. CASE f \notin AlgFlows
      <4>1. /\ \A i \in Slots : nat.cache[i].flow # NoFlow => nat'.cache[i] = nat.cache[i]
            /\ \A i \in Slots : nat'.cache[i] # nat.cache[i] =>
                  Rule(nat'.cache[i]) = Rule(r) /\ (nat'.cache[i].enabled \/ r.ip \in nat.PwrSaveIfs)
            /\ Has(nat', f, r.ip)
        BY <1>1, <1>4, <2>1, <2>6, <2>12, <3>3, AddEntryServes DEF Room, Targets
      <4>2. Current(nat', open')
        BY <1>1, <1>4, <2>2, <2>3, <2>4, <3>1, EntryCurrent DEF SameElse, Gains
      <4>3. ASSUME NEW i \in Slots, nat'.cache[i].ip \in natIfs \ nat'.PwrSaveIfs,
                   open'[nat'.cache[i].flow].pub \in PubIps
            PROVE  nat'.cache[i].enabled
        <5>1. CASE nat'.cache[i] = nat.cache[i]
          BY <2>2, <3>1, <4>3, <5>1 DEF Lit, SameElse
        <5>2. CASE nat'.cache[i] # nat.cache[i]
          BY <3>1, <4>1, <4>3, <5>2 DEF Rule, SameElse
        <5>3. QED
          BY <5>1, <5>2
      <4>4. Lit(nat', natIfs', open')
        BY <1>2, <4>3 DEF Lit
      <4>5. \A g, x : g # NoFlow /\ Has(nat, g, x) => Has(nat', g, x)
        BY <4>1 DEF Has
      <4>6. \A g \in Flows : \A x : Waits(nat, g, x) => Waits(nat', g, x)
        BY <3>1 DEF Waits, SameElse
      <4>7. QED
        BY <2>7, <2>8, <4>1, <4>2, <4>4, <4>5, <4>6
    <3>4. QED
      BY <3>2, <3>3
  <2>13. QED
    BY <1>5, <2>9, <2>10, <2>11, <2>12
<1>8. QED
  BY <1>2, <1>6, <1>7, OffloadMethod

LEMMA ClosedOffload ==
    ASSUME IInv, SparedInv, OffloadInv, NEW f \in Flows, ConnectionDown(f)
    PROVE  OffloadInv'
<1> DEFINE ip == open[f].ip
           r == Entry(f, ip)
<1>1. /\ scene \in Scenes /\ nat \in Apps /\ open \in [Flows -> [ip : Addresses, pub : WanIps]]
  BY DEF IInv, TypeOK
<1>2. /\ open' = [open EXCEPT ![f] = Closed] /\ natIfs' = natIfs
      /\ UNCHANGED <<wan, thread, scene>>
  BY DEF ConnectionDown
<1>3. (\A g \in Flows \ {f} : open'[g] = open[g]) /\ open'[f].ip = NoIp
  BY <1>1, <1>2 DEF Closed
<1>4. ip \in Addresses /\ r \in Temps /\ r.flow = f /\ r.flow # NoFlow /\ r.ip = EntryIp(f, ip)
  BY <1>1, EntryOfConnection DEF Entry
<1>5. \/ nat' = nat /\ ~Relevant(f, ip)
      \/ \E m \in DeleteEntry(nat, r) : nat' \in DeleteTempEntry(m, r)
  BY Zenon DEF ConnectionDown, Destroyed, Then
<1>6. ip = open[f].ip
  OBVIOUS
<1> HIDE DEF ip, r
<1>7. ASSUME NEW m \in DeleteEntry(nat, r), nat' \in DeleteTempEntry(m, r)
      PROVE  Kept(nat, nat')
  <2>1. Kept(nat, m) /\ m \in Apps
    BY <1>1, <1>4, DeleteEntryKept DEF Kept
  <2>2. Kept(m, nat')
    BY <1>1, <1>4, <1>7, <2>1, DeleteTempEntryKept
  <2>3. QED
    BY <2>1, <2>2, KeptTwice
<1>8. Kept(nat, nat')
  BY <1>1, <1>5, <1>7, KeptSame
<1>9. ASSUME Quiet
      PROVE  Current(nat', open') /\ Served(nat', natIfs', open') /\ Lit(nat', natIfs', open')
  <2>1. /\ Tidy(nat) /\ Targets \cap Clients = {} /\ natIfs \in SUBSET NatClients
        /\ Current(nat, open) /\ Served(nat, natIfs, open) /\ Lit(nat, natIfs, open)
    BY <1>9, QuietFacts
  <2>2. /\ ip \in NatClients => Relevant(f, ip) /\ r.ip = ip
        /\ NoIp \notin NatClients
    BY <1>1, <1>4, <2>1, NatedEntry, WanNoClient
  <2>3. /\ Current(nat', open) /\ Kept(nat, nat') /\ nat'.PwrSaveIfs = nat.PwrSaveIfs
        /\ \A i \in Slots : \/ nat'.cache[i] = nat.cache[i]
                            \/ nat'.cache[i] = Free /\ nat.cache[i].flow = f
        /\ \A k \in Waiting : \/ nat'.temp[k] = nat.temp[k]
                              \/ nat'.temp[k] = NoTemp /\ nat.temp[k].flow = f
        /\ ip \in NatClients => /\ \A i \in Slots : ~Same(nat'.cache[i], r)
                                /\ \A k \in Waiting : ~Same(nat'.temp[k], r)
    <3>1. CASE nat' = nat /\ ~Relevant(f, ip)
      BY <1>8, <2>1, <2>2, <3>1
    <3>2. ASSUME NEW m \in DeleteEntry(nat, r), nat' \in DeleteTempEntry(m, r)
          PROVE  /\ Current(nat', open) /\ nat'.PwrSaveIfs = nat.PwrSaveIfs
                 /\ \A i \in Slots : \/ nat'.cache[i] = nat.cache[i]
                                     \/ nat'.cache[i] = Free /\ nat.cache[i].flow = f
                 /\ \A k \in Waiting : \/ nat'.temp[k] = nat.temp[k]
                                       \/ nat'.temp[k] = NoTemp /\ nat.temp[k].flow = f
                 /\ ip \in NatClients => /\ \A i \in Slots : ~Same(nat'.cache[i], r)
                                         /\ \A k \in Waiting : ~Same(nat'.temp[k], r)
      <4>1. /\ m.temp = nat.temp /\ SameWan(nat, m) /\ m.PwrSaveIfs = nat.PwrSaveIfs /\ m \in Apps
            /\ ~ChkForDup(m, r)
            /\ \A i \in Slots : \/ m.cache[i] = nat.cache[i]
                                \/ m.cache[i] = Free /\ Same(nat.cache[i], r)
        BY <1>1, <1>4, <2>1, DeleteEntryServes
      <4>2. Current(m, open)
        BY <1>1, <2>1, <4>1, CurrentLess, Zeroes
      <4>3. /\ nat'.cache = m.cache /\ SameWan(m, nat') /\ nat'.PwrSaveIfs = m.PwrSaveIfs
            /\ nat' \in Apps
            /\ r.ip \in NatClients => \A k \in Waiting : ~Same(nat'.temp[k], r)
            /\ \A k \in Waiting : \/ nat'.temp[k] = m.temp[k]
                                  \/ nat'.temp[k] = NoTemp /\ m.temp[k].flow = r.flow
        BY <1>1, <1>4, <3>2, <4>1, <4>2, DeleteTempEntryServes
      <4>4. Current(nat', open)
        BY <1>1, <4>1, <4>2, <4>3, CurrentLess
      <4>5. \A i \in Slots : ~Same(m.cache[i], r)
        BY <4>1 DEF ChkForDup
      <4>6. QED
        BY <1>4, <2>2, <4>1, <4>3, <4>4, <4>5 DEF Same
    <3>3. QED
      BY <1>5, <1>8, <3>1, <3>2
  <2>4. nat' \in Apps /\ Tidy(nat')
    BY <1>8, <1>9, <2>1 DEF Kept, Quiet
  <2>5. ASSUME NEW i \in Slots, nat'.cache[i].ip \in NatClients
        PROVE  /\ open'[nat'.cache[i].flow] = open[nat'.cache[i].flow]
               /\ nat'.cache[i] = nat.cache[i]
    <3>1. nat'.cache[i] # Free /\ nat'.cache[i].flow \in Flows
      BY <2>2, <2>4, <2>5, Zeroes DEF Tidy, Apps, Entries, Names
    <3>2. open[nat'.cache[i].flow].ip = nat'.cache[i].ip
      BY <2>3, <2>5 DEF Current
    <3>3. nat'.cache[i].flow # f
      BY <1>4, <1>6, <2>2, <2>3, <2>5, <3>2 DEF Same
    <3>4. QED
      BY <1>3, <2>3, <3>1, <3>3
  <2>6. ASSUME NEW k \in Waiting, nat'.temp[k].flow # NoFlow, nat'.temp[k].ip \in NatClients
        PROVE  open'[nat'.temp[k].flow] = open[nat'.temp[k].flow]
    <3>1. nat'.temp[k].flow \in Flows
      BY <2>4, <2>6 DEF Apps, Temps, Names
    <3>2. open[nat'.temp[k].flow].ip = nat'.temp[k].ip
      BY <2>3, <2>6 DEF Current
    <3>3. nat'.temp[k].flow # f
      BY <1>4, <1>6, <2>2, <2>3, <2>6, <3>2 DEF Same
    <3>4. QED
      BY <1>3, <3>1, <3>3
  <2>7. Current(nat', open')
    BY <2>3, <2>5, <2>6 DEF Current
  <2>8. Lit(nat', natIfs', open')
    BY <1>2, <2>1, <2>3, <2>5 DEF Lit
  <2>9. ASSUME NEW g \in Flows, Eligible(open', g)
        PROVE  \/ Has(nat', g, open'[g].ip)
               \/ open'[g].ip \notin natIfs' /\ Waits(nat', g, open'[g].ip)
    <3>1. g # f /\ open'[g] = open[g] /\ Eligible(open, g)
      BY <1>3, <2>2, <2>9 DEF Eligible
    <3>2. Has(nat, g, open[g].ip) => Has(nat', g, open[g].ip)
      BY <2>3, <3>1 DEF Has
    <3>3. Waits(nat, g, open[g].ip) => Waits(nat', g, open[g].ip)
      BY <2>3, <3>1 DEF Waits
    <3>4. QED
      BY <1>2, <2>1, <3>1, <3>2, <3>3 DEF Served
  <2>10. QED
    BY <2>7, <2>8, <2>9 DEF Served
<1>10. QED
  BY <1>2, <1>8, <1>9, OffloadMethod

-----------------------------------------------------------------------------
LEMMA InitOffload == Init => OffloadInv
<1> SUFFICES ASSUME Init PROVE OffloadInv
  OBVIOUS
<1>1. /\ scene \in Scenes /\ WanUp = FALSE /\ nat.cache = [i \in Slots |-> Free]
      /\ nat.temp = [k \in Waiting |-> NoTemp] /\ open = [f \in Flows |-> Closed]
      /\ natIfs = {}
  BY DEF Init, NatInit
<1>2. NoIp \notin NatClients
  BY <1>1, SceneFacts
<1>3. Current(nat, open)
  BY <1>1, <1>2, Zeroes DEF Current
<1>4. Served(nat, natIfs, open)
  BY <1>1, <1>2 DEF Served, Eligible, Closed
<1>5. Lit(nat, natIfs, open)
  BY <1>1 DEF Lit
<1>6. QED
  BY <1>1, <1>3, <1>4, <1>5 DEF OffloadInv

\* What is said of a quiet listener needs no word where the WAN goes down or the time
\* stamp thread runs.
LEMMA LoudOffload ==
    ASSUME IInv, \/ \E pub \in PubIps : TriggerWANDown(pub)
                 \/ (\E i \in Slots : UpdateCTUdpTs(i)) \/ UdpDeleteRule \/ UdpForgetEntry
    PROVE  OffloadInv'
<1>1. CASE \E pub \in PubIps : TriggerWANDown(pub)
  BY <1>1, SceneStays DEF TriggerWANDown, OffloadInv, Quiet
<1>2. CASE (\E i \in Slots : UpdateCTUdpTs(i)) \/ UdpDeleteRule \/ UdpForgetEntry
  <2>1. isNatThreadStart /\ isNatThreadStart' = isNatThreadStart
    BY <1>2 DEF UpdateCTUdpTs, UdpDeleteRule, UdpForgetEntry, IInv, Idle
  <2>2. QED
    BY <2>1 DEF OffloadInv, Quiet
<1>3. QED
  BY <1>1, <1>2

LEMMA NextOffload ==
    IInv /\ SparedInv /\ OffloadInv /\ Room /\ Room' /\ [Next]_vars => OffloadInv'
<1> SUFFICES ASSUME IInv, SparedInv, OffloadInv, Room, Room', [Next]_vars PROVE OffloadInv'
  OBVIOUS
<1>1. IInv' /\ SparedInv'
  BY NextInv, NextSpared
<1>2. CASE UNCHANGED vars
  <2>1. /\ UNCHANGED <<wan, thread, scene>> /\ nat' = nat /\ natIfs' = natIfs /\ open' = open
    BY <1>2 DEF vars
  <2>2. Kept(nat, nat')
    BY <2>1, KeptSame DEF IInv, TypeOK
  <2>3. QED
    BY <2>1, <2>2, OffloadMethod, QuietFacts
<1>3. CASE \E pub \in PubIps, isSta \in BOOLEAN : TriggerWANUp(pub, isSta)
  BY <1>1, <1>3, UpOffload
<1>4. CASE \E c \in Clients : \/ HandleNeighIpAddrAddEvt(c)
                              \/ HandleNeighIpAddrDelEvt(c)
                              \/ HandleNonNatIPAddrAdd(c)
                              \/ HandleNonNatIPAddrDel(c)
                              \/ handle_wlan_client_pwrsave(c)
                              \/ WlanClientRecover(c)
  <2>1. ~IsFull(nat')
    BY DEF Room, IsFull, Slots
  <2>2. QED
    BY <1>4, <2>1, ArrivalOffload, LeaveOffload, OthersOffload
<1>5. CASE \E t \in Targets : HandleSTAClientAddEvt(t) \/ HandleSTAClientDelEvt(t)
  BY <1>5, StationOffload
<1>6. CASE \E f \in Flows : \/ \E ip \in Clients \cup PubIps : ConnectionUp(f, ip)
                            \/ ConnectionDown(f)
  BY <1>1, <1>6, OpenedOffload, ClosedOffload
<1>7. CASE \/ \E pub \in PubIps : TriggerWANDown(pub)
           \/ (\E i \in Slots : UpdateCTUdpTs(i)) \/ UdpDeleteRule \/ UdpForgetEntry
  BY <1>7, LoudOffload
<1>8. QED
  BY <1>2, <1>3, <1>4, <1>5, <1>6, <1>7 DEF Next

\* As long as the cache, the entries that wait and the list of clients in power save
\* each keep a free place, a connection of a NATed client that is there and awake,
\* opened while the WAN was up, has its rule in the hardware table: whichever of the
\* two came first, and however often the client left or slept in between.
THEOREM ClientsOffloaded == Spec /\ []Room => []Offloaded
<1>1. IInv /\ SparedInv /\ OffloadInv => Offloaded
  <2> SUFFICES ASSUME IInv, SparedInv, OffloadInv, Quiet, NEW f \in Flows \ AlgFlows,
                      Target[f] \notin StaTargets, open[f].ip \in natIfs \ nat.PwrSaveIfs,
                      open[f].pub \in PubIps
               PROVE  \E h \in Handles : nat.hw[h] = [flow |-> f, ip |-> open[f].ip]
    BY DEF Offloaded, Quiet
  <2>1. /\ nat \in Apps /\ Tidy(nat) /\ natIfs \in SUBSET NatClients
        /\ Served(nat, natIfs, open) /\ Lit(nat, natIfs, open)
    BY QuietFacts
  <2>2. PICK i \in Slots : nat.cache[i].flow = f /\ nat.cache[i].ip = open[f].ip
    BY <2>1 DEF Served, Eligible, Has
  <2>3. nat.cache[i].enabled
    BY <2>1, <2>2 DEF Lit
  <2>4. nat.cache[i].hdl # 0 /\ nat.hw[nat.cache[i].hdl] = Rule(nat.cache[i])
    BY <2>1, <2>3 DEF Tidy, InStep
  <2>5. nat.cache[i].hdl \in Handles
    BY <2>1, <2>4, Constants DEF Apps, Entries, Handles
  <2>6. QED
    BY <2>2, <2>4, <2>5 DEF Rule
<1>2. Init => IInv /\ SparedInv /\ OffloadInv
  BY InitInv, InitSpared, InitOffload
<1>3. /\ IInv /\ SparedInv /\ OffloadInv /\ Room /\ Room' /\ [Next]_vars
      => IInv' /\ SparedInv' /\ OffloadInv'
  BY NextInv, NextSpared, NextOffload
<1>4. QED
  BY <1>1, <1>2, <1>3, PTL DEF Spec
=============================================================================
