--------------------------- MODULE NatTable_proofs ---------------------------
(***************************************************************************)
(* Proofs about NatTable, for tables of every size the library makes and   *)
(* any connections with any hash values.  Whichever requests of the driver *)
(* fail: what the handles lead to, and what the time stamp thread reads.   *)
(* When every link is made (LinksMade): the lists in both tables are sound *)
(* between calls, and at each write of a call the hardware finds all other *)
(* connections (ImplementsContract).                                       *)
(***************************************************************************)
EXTENDS NatTable, FiniteSetTheorems, TLAPS

IsSequence(s) == s \in Seq({s[i] : i \in DOMAIN s})

Handles == All \ {0}
Matched == Flows \cup {Dead, Nothing}

IsEntry(r) ==
    /\ r = [on |-> r.on, flow |-> r.flow, next |-> r.next, prev |-> r.prev, ix |-> r.ix]
    /\ r.on \in BOOLEAN /\ r.flow \in Matched

IsNat(t) == t = [e \in All |-> t[e]] /\ \A e \in All : IsEntry(t[e])

Calls == [kind : {"none", "add", "del", "open", "close"}, flow : Flows \cup {Nothing},
          hdl : All, ok : BOOLEAN]
Tables == [valid : BOOLEAN, ids : BOOLEAN, mapped : BOOLEAN, hw : BOOLEAN]
Queries == [pc : {"idle", "valid", "lock", "parse", "read", "done", "wild"},
            flow : Flows \cup {Nothing}, hdl : All, at : All, got : Matched, stale : BOOLEAN]

\* The links of the lists (next, prev, ix, idx, meta) may hold anything here.
TypeOK ==
    /\ scene \in DOMAIN Scenes
    /\ IsNat(nat)
    /\ ids \in [Handles -> All]
    /\ tbl \in Tables
    /\ lock \in {"free", "owner", "asker"}
    /\ op \in Calls
    /\ IsSequence(todo)
    /\ held \in [Flows -> All]
    /\ up \in BOOLEAN
    /\ q \in Queries

-----------------------------------------------------------------------------
(* The writes still to be done.                                            *)

Elems(s) == {s[i] : i \in DOMAIN s}
Kinds(s) == {w.m : w \in Elems(s)}
Ahead(s, v, w) == \E i, j \in DOMAIN s : i < j /\ s[i] = v /\ s[j] = w
Pending(what) == what \in Kinds(todo)

\* Writes that change no connection, handle or table.
Links == {"next", "prev", "ix", "idx", "idx.entry", "idx.next", "meta"}

\* The entry is written before it is enabled, and the handle is given out last.
AddOrder(v, w) ==
    /\ v.m = "on" => w.m # "nat"
    /\ v.m = "ids" => w.m \notin {"nat", "on", "ids"}

\* A request that can fail comes before every write that is not a link.
DelOrder(v, w) == v.m \notin Links => w.fault = "none"

AddWrite(w, f, h, a) ==
    /\ w.m \in Links \cup {"nat", "on", "ids"}
    /\ w.m = "nat" => w.at = a /\ IsEntry(w.v) /\ w.v.flow = f
    /\ w.m = "on" => w.at = a /\ w.v = TRUE
    /\ w.m = "ids" => w.at = h /\ w.v = a
    /\ w.fault # "none" => IF w.then = "abort" THEN w.m = "on" ELSE w.m \in Links

DelWrite(w, h, e) ==
    /\ w.m \in Links \cup {"on", "flow", "nat", "sweep", "ids"}
    /\ w.m \in {"on", "flow", "nat"} => w.at = e
    /\ w.m = "on" => w.v = FALSE
    /\ w.m = "flow" => w.v = Dead
    /\ w.m = "nat" => w.v = Zero
    /\ w.m = "ids" => w.at = h /\ w.v = 0
    /\ w.fault # "none" => w.then = "abort"

OpenWrite(w) ==
    /\ w.m \in {"tbl", "alloc", "reset"}
    /\ w.m = "tbl" => w.at \in {"valid", "mapped", "hw"} /\ w.v = TRUE
    /\ w.fault # "none" => w.then = "abort"

CloseWrite(w) ==
    /\ w.m \in {"lock", "tbl", "forget"}
    /\ w.m = "tbl" => w.at \in {"mapped", "hw"} /\ w.v = FALSE
    /\ w.m = "lock" => w.at \in {"free", "owner"}
    /\ w.fault = "none"

-----------------------------------------------------------------------------
(* The inductive invariant.                                                *)

\* A handle of which no call is under way leads to an enabled rule of some connection,
\* and no two handles lead to one entry.
HandlesLead ==
    /\ \A h \in Handles :
          ids[h] # 0 /\ ~(op.kind \in {"add", "del"} /\ op.hdl = h)
          => nat[ids[h]].on /\ nat[ids[h]].flow \in Flows
    /\ \A h, k \in Handles : ids[h] = ids[k] /\ ids[h] # 0 => h = k

\* The handle that the caller has of a connection leads to the rule of it.
HeldLead ==
    \A f \in Flows :
        held[f] # 0 /\ op.kind # "close" /\ ~(op.kind = "del" /\ op.flow = f)
        => ids[held[f]] # 0 /\ nat[ids[held[f]]].on /\ nat[ids[held[f]]].flow = f

\* A rule is being put into entry a.
Adding(a) ==
    /\ op.flow \in Flows /\ op.hdl \in Handles /\ held[op.flow] = 0
    /\ \A f \in Flows : held[f] # op.hdl
    /\ \A h \in Handles \ {op.hdl} : ids[h] # a
    /\ \A w \in Elems(todo) : AddWrite(w, op.flow, op.hdl, a)
    /\ \A v, w \in Elems(todo) : Ahead(todo, v, w) => AddOrder(v, w)
    /\ Pending("nat") => Pending("on")
    /\ ids[op.hdl] \in {0, a}
    /\ ids[op.hdl] = a => ~Pending("nat") /\ ~Pending("on") /\ ~Pending("ids")
    /\ ~op.ok => todo = <<>> /\ ids[op.hdl] = 0
    /\ op.ok => /\ ~Pending("nat") => nat[a].flow = op.flow
                /\ ~Pending("nat") /\ ~Pending("on") => nat[a].on
                /\ ~Pending("ids") => ids[op.hdl] = a

\* The rule in entry e is being taken out.
Deleting(e) ==
    /\ op.flow \in Flows /\ op.hdl \in Handles /\ held[op.flow] = op.hdl
    /\ \A f \in Flows \ {op.flow} : held[f] # op.hdl
    /\ \A h \in Handles \ {op.hdl} : ids[h] # e
    /\ \A w \in Elems(todo) : DelWrite(w, op.hdl, e)
    /\ \A v, w \in Elems(todo) : Ahead(todo, v, w) => DelOrder(v, w)
    /\ ids[op.hdl] \in {0, e}
    /\ ~op.ok => todo = <<>>
    /\ ~op.ok \/ (\E w \in Elems(todo) : w.fault # "none")
       => ids[op.hdl] = e /\ nat[e].on /\ nat[e].flow = op.flow
    /\ op.ok /\ ~Pending("ids") => ids[op.hdl] = 0

Opening ==
    /\ ~up
    /\ \A w \in Elems(todo) : OpenWrite(w)
    /\ ~op.ok => todo = <<>>
    /\ op.ok => /\ tbl.valid \/ \E w \in Elems(todo) : w.m = "tbl" /\ w.at = "valid"
                /\ tbl.mapped \/ \E w \in Elems(todo) : w.m = "tbl" /\ w.at = "mapped"
                /\ tbl.ids \/ Pending("alloc")

Closing ==
    /\ up
    /\ \A w \in Elems(todo) : CloseWrite(w)
    /\ ~Pending("forget") => \A h \in Handles : ids[h] = 0

CallInv ==
    /\ op.kind = "none" => op = NoCall /\ todo = <<>>
    /\ op.kind = "add" => up /\ \E a \in Handles : Adding(a)
    /\ op.kind = "del" => up /\ \E e \in Handles : Deleting(e)
    /\ op.kind = "open" => Opening
    /\ op.kind = "close" => Closing

\* Without a table there are no handles; with one all of it is there.
TableInv ==
    /\ ~up => /\ \A f \in Flows : held[f] = 0
              /\ \A h \in Handles : ids[h] = 0
    /\ up /\ op.kind # "close" => tbl.valid /\ tbl.ids /\ tbl.mapped

\* Unless its connection has been deleted meanwhile, the time stamp thread asks with the
\* handle that the caller has, and reads the entry this leads to.
QueryInv ==
    /\ q.pc \in {"valid", "lock", "parse"} => q.hdl # 0
    /\ q.pc \in {"valid", "lock", "parse", "read"} /\ ~q.stale =>
         /\ q.flow \in Flows /\ held[q.flow] = q.hdl /\ q.hdl # 0
         /\ op.kind # "close" /\ ~(op.kind = "del" /\ op.flow = q.flow)
    /\ q.pc = "read" /\ ~q.stale => q.at = ids[q.hdl]
    /\ QuerySafe

IInv == TypeOK /\ HandlesLead /\ HeldLead /\ CallInv /\ TableInv /\ QueryInv

-----------------------------------------------------------------------------
(* Sizes.                                                                  *)

LEMMA Least ==
    ASSUME NEW T \in SUBSET Nat, T # {}
    PROVE  \E x \in T : \A y \in T : x <= y
<1>1. PICK x \in T : \A y \in T : <<y, x>> \notin OpToRel(<, Nat)
  BY NatLessThanWellFounded, WFMin
<1>2. \A y \in T : ~(y < x)
  BY <1>1, Zenon DEF OpToRel
<1>3. QED
  BY <1>2

LEMMA OtherNames == Dead \notin Flows /\ Nothing \notin Flows /\ Dead # Nothing /\ "none" \notin Faults
<1>1. /\ Faults \subseteq {"delete", "open", "link", "enable"}
      /\ Dead # Nothing /\ {Dead, Nothing} \cap Flows = {}
  BY NatTableAssumption
<1>2. QED
  BY <1>1

LEMMA NearestPower ==
    ASSUME NEW n \in Nat, 0 < n, n <= 32768
    PROVE  GetNearest2Power(n) \in Nat /\ GetNearest2Power(n) > 1
<1>1. CASE n = 1
  BY <1>1 DEF GetNearest2Power
<1>2. CASE n # 1
  <2>1. \E p \in Powers : n <= p /\ p < 2 * n
    BY <1>2 DEF Powers
  <2>2. GetNearest2Power(n) \in Powers
    BY <1>2, <2>1 DEF GetNearest2Power
  <2>3. QED
    BY <2>2 DEF Powers
<1>3. QED
  BY <1>1, <1>2

LEMMA Sizes ==
    /\ table_entries \in Nat /\ table_entries > 1
    /\ expn_table_entries \in Nat
    /\ Base \subseteq All /\ Expansion \subseteq All
    /\ 0 \in All /\ IsFiniteSet(Handles)
<1>1. table_entries \in Nat /\ table_entries > 1
  <2> DEFINE n == AtLeast1((Requested * 8) \div 10)
  <2>1. n \in Nat /\ 0 < n /\ n <= 32768
    BY RequestedAssumption DEF AtLeast1
  <2>2. QED
    BY <2>1, NearestPower DEF table_entries
<1>2. expn_table_entries \in Nat
  BY RequestedAssumption DEF expn_table_entries, GetNearestEven
<1>3. IsFiniteSet(Handles)
  <2>1. IsFiniteSet(All)
    BY <1>1, <1>2, FS_Interval DEF All
  <2>2. QED
    BY <2>1, FS_Subset DEF Handles
<1>4. QED
  BY <1>1, <1>2, <1>3 DEF Base, Expansion, All

LEMMA HashIsEntry ==
    ASSUME NEW h \in Nat
    PROVE  Hash(h) \in Handles /\ Hash(h) \in Base
<1>1. h % table_entries \in 0 .. table_entries - 1
  BY Sizes
<1>2. QED
  BY <1>1, Sizes DEF Hash, Handles, All, Base

LEMMA DstIsEntry ==
    ASSUME TypeOK, NEW f \in Flows
    PROVE  Dst(f) \in Handles /\ Src(f) \in Handles
<1>1. Scenes[scene].dst[f] \in Nat /\ Scenes[scene].src[f] \in Nat
  <2>1. Scenes[scene].dst \in [Flows -> Nat] /\ Scenes[scene].src \in [Flows -> Nat]
    BY NatTableAssumption DEF TypeOK
  <2>2. QED
    BY <2>1
<1>2. QED
  BY <1>1, HashIsEntry, Zenon DEF Dst, Src

\* The entry for a new rule is one that is not in use.
LEMMA SlotIsFree ==
    ASSUME NEW used, NEW table, NEW b \in Handles, Slot(used, table, b).at # 0
    PROVE  Slot(used, table, b).at \in Handles /\ ~used[Slot(used, table, b).at]
<1> DEFINE free == {e \in Expansion \ {table_entries} : ~used[e]}
<1>1. CASE ~used[b]
  BY <1>1 DEF Slot
<1>2. CASE used[b]
  <2>1. free # {} /\ Slot(used, table, b).at = Min(free)
    BY <1>2 DEF Slot
  <2>2. free \subseteq Nat
    BY Sizes DEF Expansion
  <2>3. Min(free) \in free
    BY <2>1, <2>2, Least DEF Min
  <2>4. QED
    BY <2>1, <2>3, Sizes DEF Expansion, Handles, All
<1>3. QED
  BY <1>1, <1>2

\* As long as some entry has no handle there is a handle to give out.
LEMMA HandleIsFree ==
    ASSUME TypeOK, \A h, k \in Handles : ids[h] = ids[k] /\ ids[h] # 0 => h = k,
           NEW a \in Handles, \A h \in Handles : ids[h] # a
    PROVE  make_rule_hdl \in Handles /\ ids[make_rule_hdl] = 0
<1>1. \E h \in Handles : ids[h] = 0
  <2> SUFFICES ASSUME \A h \in Handles : ids[h] # 0 PROVE FALSE
    OBVIOUS
  <2>1. ids \in Injection(Handles, Handles)
    BY DEF TypeOK, Injection, IsInjective, Handles
  <2>2. ids \in Surjection(Handles, Handles)
    BY <2>1, Sizes, FS_Injection
  <2>3. QED
    BY <2>2 DEF Surjection
<1> DEFINE free == {h \in Handles : ids[h] = 0}
<1>2. PICK x \in free : \A y \in free : x <= y
  <2>1. free \subseteq Nat /\ free # {}
    BY <1>1, Sizes DEF Handles, All
  <2>2. QED
    BY <2>1, Least
<1>3. \A k \in 1 .. x - 1 : ids[k] # 0
  BY <1>2, Sizes DEF Handles, All
<1>4. DOMAIN ids = Handles
  BY DEF TypeOK
<1>5. QED
  BY <1>2, <1>3, <1>4 DEF make_rule_hdl

-----------------------------------------------------------------------------
(* Lists of writes.                                                        *)

LEMMA SequenceOf ==
    ASSUME NEW S, NEW s \in Seq(S)
    PROVE  IsSequence(s)
BY DEF IsSequence

LEMMA NoWrites == IsSequence(<<>>) /\ Elems(<<>>) = {} /\ \A v, w : ~Ahead(<<>>, v, w)
BY DEF IsSequence, Elems, Ahead

LEMMA OneWrite ==
    ASSUME NEW x
    PROVE  IsSequence(<<x>>) /\ Elems(<<x>>) = {x} /\ \A v, w : ~Ahead(<<x>>, v, w)
BY DEF IsSequence, Elems, Ahead

LEMMA Joined ==
    ASSUME NEW s, IsSequence(s), NEW t, IsSequence(t)
    PROVE  /\ IsSequence(s \o t)
           /\ Elems(s \o t) = Elems(s) \cup Elems(t)
           /\ \A v, w : Ahead(s \o t, v, w) =>
                 Ahead(s, v, w) \/ Ahead(t, v, w) \/ (v \in Elems(s) /\ w \in Elems(t))
<1> DEFINE S == Elems(s) \cup Elems(t)
<1>1. s \in Seq(S) /\ t \in Seq(S) /\ Len(s) \in Nat /\ Len(t) \in Nat
  BY DEF IsSequence, Elems
<1>2. s \o t \in Seq(S)
  BY <1>1
<1>3. IsSequence(s \o t)
  BY <1>2, SequenceOf
<1>4. /\ DOMAIN s = 1 .. Len(s) /\ DOMAIN t = 1 .. Len(t)
      /\ DOMAIN (s \o t) = 1 .. Len(s) + Len(t)
      /\ \A i \in DOMAIN s : (s \o t)[i] = s[i]
      /\ \A i \in DOMAIN t : (s \o t)[i + Len(s)] = t[i]
  BY <1>1, <1>2
<1>5. \A i \in DOMAIN (s \o t) :
         \/ i \in DOMAIN s /\ (s \o t)[i] = s[i]
         \/ i - Len(s) \in DOMAIN t /\ (s \o t)[i] = t[i - Len(s)] /\ i > Len(s)
  <2> SUFFICES ASSUME NEW i \in DOMAIN (s \o t), i \notin DOMAIN s
               PROVE  i - Len(s) \in DOMAIN t /\ (s \o t)[i] = t[i - Len(s)] /\ i > Len(s)
    BY <1>4
  <2>1. i - Len(s) \in DOMAIN t /\ i > Len(s) /\ (i - Len(s)) + Len(s) = i
    BY <1>1, <1>4
  <2>2. QED
    BY <1>4, <2>1
<1>6. Elems(s \o t) = S
  <2>1. ASSUME NEW i \in DOMAIN s PROVE s[i] \in Elems(s \o t)
    BY <1>1, <1>4, <2>1 DEF Elems
  <2>2. ASSUME NEW i \in DOMAIN t PROVE t[i] \in Elems(s \o t)
    <3>1. i + Len(s) \in DOMAIN (s \o t)
      BY <1>1, <1>4, <2>2
    <3>2. QED
      BY <1>4, <3>1 DEF Elems
  <2>3. QED
    BY <1>5, <2>1, <2>2 DEF Elems
<1>7. ASSUME NEW v, NEW w, Ahead(s \o t, v, w)
      PROVE  Ahead(s, v, w) \/ Ahead(t, v, w) \/ (v \in Elems(s) /\ w \in Elems(t))
  <2>1. PICK i, j \in DOMAIN (s \o t) : i < j /\ (s \o t)[i] = v /\ (s \o t)[j] = w
    BY <1>7 DEF Ahead
  <2>2. CASE i \in DOMAIN s /\ j \in DOMAIN s
    BY <1>4, <2>1, <2>2 DEF Ahead
  <2>3. CASE i \in DOMAIN s /\ j \notin DOMAIN s
    BY <1>5, <2>1, <2>3 DEF Elems
  <2>4. CASE i \notin DOMAIN s
    <3>1. i > Len(s) /\ j > Len(s) /\ j \notin DOMAIN s /\ i \in Nat /\ j \in Nat
      BY <1>1, <1>4, <2>1, <2>4
    <3>2. /\ i - Len(s) \in DOMAIN t /\ t[i - Len(s)] = v
          /\ j - Len(s) \in DOMAIN t /\ t[j - Len(s)] = w
          /\ i - Len(s) < j - Len(s)
      BY <1>1, <1>5, <2>1, <2>4, <3>1
    <3>3. QED
      BY <3>2 DEF Ahead
  <2>5. QED
    BY <2>2, <2>3, <2>4
<1>8. QED
  BY <1>3, <1>6, <1>7

LEMMA HeadAndTail ==
    ASSUME NEW s, IsSequence(s), s # <<>>
    PROVE  /\ IsSequence(Tail(s)) /\ Head(s) \in Elems(s)
           /\ Elems(s) = {Head(s)} \cup Elems(Tail(s))
           /\ \A v, w : Ahead(Tail(s), v, w) => Ahead(s, v, w)
           /\ \A w \in Elems(Tail(s)) : Ahead(s, Head(s), w)
<1> DEFINE S == Elems(s)
<1>1. s \in Seq(S) /\ Len(s) \in Nat /\ Len(s) > 0 /\ Head(s) = s[1]
  BY DEF IsSequence, Elems
<1>2. Tail(s) \in Seq(S)
  BY <1>1
<1>3. /\ IsSequence(Tail(s))
      /\ DOMAIN s = 1 .. Len(s) /\ DOMAIN Tail(s) = 1 .. Len(s) - 1
      /\ \A i \in DOMAIN Tail(s) : i + 1 \in DOMAIN s /\ 1 < i + 1 /\ Tail(s)[i] = s[i + 1]
  <2>1. IsSequence(Tail(s))
    BY <1>2, SequenceOf
  <2>2. QED
    BY <1>1, <1>2, <2>1
<1>4. \A i \in DOMAIN s : i = 1 \/ (i - 1 \in DOMAIN Tail(s) /\ Tail(s)[i - 1] = s[i])
  <2> SUFFICES ASSUME NEW i \in DOMAIN s, i # 1
               PROVE  i - 1 \in DOMAIN Tail(s) /\ Tail(s)[i - 1] = s[i]
    OBVIOUS
  <2>1. i - 1 \in DOMAIN Tail(s) /\ (i - 1) + 1 = i
    BY <1>1, <1>3
  <2>2. QED
    BY <1>3, <2>1
<1>5. Elems(s) = {Head(s)} \cup Elems(Tail(s)) /\ Head(s) \in Elems(s)
  <2>1. 1 \in DOMAIN s
    BY <1>1, <1>3
  <2>2. Head(s) \in Elems(s)
    BY <1>1, <2>1 DEF Elems
  <2>3. \A x \in Elems(s) : x \in {Head(s)} \cup Elems(Tail(s))
    BY <1>1, <1>4 DEF Elems
  <2>4. \A x \in Elems(Tail(s)) : x \in Elems(s)
    BY <1>3 DEF Elems
  <2>5. QED
    BY <2>2, <2>3, <2>4
<1>6. ASSUME NEW v, NEW w, Ahead(Tail(s), v, w) PROVE Ahead(s, v, w)
  <2>1. PICK i, j \in DOMAIN Tail(s) : i < j /\ Tail(s)[i] = v /\ Tail(s)[j] = w
    BY <1>6 DEF Ahead
  <2>2. i + 1 < j + 1 /\ i + 1 \in DOMAIN s /\ j + 1 \in DOMAIN s /\ s[i + 1] = v /\ s[j + 1] = w
    BY <1>1, <1>3, <2>1
  <2>3. QED
    BY <2>2 DEF Ahead
<1>7. ASSUME NEW w \in Elems(Tail(s)) PROVE Ahead(s, Head(s), w)
  <2>1. PICK j \in DOMAIN Tail(s) : Tail(s)[j] = w
    BY <1>7 DEF Elems
  <2>2. 1 \in DOMAIN s /\ j + 1 \in DOMAIN s /\ 1 < j + 1 /\ s[j + 1] = w
    BY <1>1, <1>3, <2>1
  <2>3. QED
    BY <1>1, <2>2 DEF Ahead
<1>8. QED
  BY <1>3, <1>5, <1>6, <1>7
-----------------------------------------------------------------------------
(* The lists of the calls.                                                 *)

LEMMA DmaList ==
    ASSUME NEW m, NEW at, NEW v, NEW fault, NEW then, NEW s, s = Dma(m, at, v, fault, then)
    PROVE  /\ IsSequence(s) /\ s # <<>>
           /\ \A w \in Elems(s) : w.m = m /\ w.at = at /\ w.v = v /\ w.fault = fault /\ w.then = then
           /\ \E w \in Elems(s) : w.m = m
           /\ \A x, y : ~Ahead(s, x, y)
<1> DEFINE r == [m |-> m, at |-> at, v |-> v, fault |-> fault, then |-> then]
<1>1. r.m = m /\ r.at = at /\ r.v = v /\ r.fault = fault /\ r.then = then
  OBVIOUS
<1>2. s = <<r>>
  BY DEF Dma
<1> HIDE DEF r
<1>3. QED
  BY <1>1, <1>2, OneWrite

LEMMA CpuList ==
    ASSUME NEW m, NEW at, NEW v, NEW s, s = Cpu(m, at, v)
    PROVE  /\ IsSequence(s) /\ s # <<>>
           /\ \A w \in Elems(s) : w.m = m /\ w.at = at /\ w.v = v /\ w.fault = "none" /\ w.then = "on"
           /\ \E w \in Elems(s) : w.m = m
           /\ \A x, y : ~Ahead(s, x, y)
<1>1. s = Dma(m, at, v, "none", "on")
  BY DEF Cpu, Dma
<1>2. QED
  BY <1>1, DmaList

LEMMA Conditional ==
    ASSUME NEW c, NEW s, IsSequence(s)
    PROVE  IsSequence(Only(c, s)) /\ Elems(Only(c, s)) \subseteq Elems(s)
BY NoWrites DEF Only

\* Putting a rule in: the entry, links, enabling it, the handle.
LEMMA AddList ==
    ASSUME TypeOK, NEW f \in Flows, NEW r, NEW x
    PROVE  LET s == AddWrites(f, r, x)
           IN  /\ IsSequence(s)
               /\ \A w \in Elems(s) : AddWrite(w, f, make_rule_hdl, r.at)
               /\ \A v, w : Ahead(s, v, w) => AddOrder(v, w)
               /\ {"nat", "on", "ids"} \subseteq {w.m : w \in Elems(s)}
<1> DEFINE e == [on |-> FALSE, flow |-> f, next |-> 0, prev |-> r.prev, ix |-> x.at]
           s1 == Only(x.at >= table_entries, Cpu("meta", x.at, x.prev))
           s2 == copy_rule_to_hw(f, r, x)
           s3 == copy_index_rule_to_hw(r, x)
           s4 == Dma("on", r.at, TRUE, "enable", "abort")
           s5 == Cpu("ids", make_rule_hdl, r.at)
           First(s) == /\ IsSequence(s)
                       /\ \A w \in Elems(s) : /\ AddWrite(w, f, make_rule_hdl, r.at)
                                              /\ w.m \notin {"on", "ids"}
<1>1. First(s1)
  <2> DEFINE a == Cpu("meta", x.at, x.prev)
  <2>1. IsSequence(a) /\ \A w \in Elems(a) : w.m = "meta" /\ w.fault = "none"
    BY CpuList
  <2>2. s1 = a \/ s1 = <<>>
    BY DEF Only
  <2> HIDE DEF a, s1
  <2>3. First(a)
    BY <2>1 DEF AddWrite, Links
  <2>4. QED
    BY <2>2, <2>3, NoWrites
<1>2. First(s2) /\ \E w \in Elems(s2) : w.m = "nat"
  <2> DEFINE a == Cpu("nat", r.at, e)
             b == Dma("next", r.prev, r.at, "link", "skip")
  <2>1. IsEntry(e)
    BY DEF IsEntry, Matched
  <2>2. /\ IsSequence(a) /\ \E w \in Elems(a) : w.m = "nat"
        /\ \A w \in Elems(a) : w.m = "nat" /\ w.at = r.at /\ w.v = e /\ w.fault = "none"
    BY CpuList
  <2>3. IsSequence(b) /\ \A w \in Elems(b) : w.m = "next" /\ w.then = "skip"
    BY DmaList
  <2>5. s2 = a \o Only(r.prev # 0, b)
    BY DEF copy_rule_to_hw
  <2>7. e.flow = f
    OBVIOUS
  <2> HIDE DEF a, b, e
  <2>8. First(a)
    BY <2>1, <2>2, <2>7 DEF AddWrite
  <2>9. First(b)
    BY <2>3 DEF AddWrite, Links
  <2>4. First(Only(r.prev # 0, b))
    BY <2>9, Conditional
  <2>6. QED
    BY <2>2, <2>4, <2>5, <2>8, Joined
<1>3. First(s3)
  <2> DEFINE a == Cpu("idx", x.at, [entry |-> r.at, next |-> 0])
             b == Dma("idx.next", x.prev, x.at, "link", "skip")
  <2>1. IsSequence(a) /\ \A w \in Elems(a) : w.m = "idx" /\ w.fault = "none"
    BY CpuList
  <2>2. IsSequence(b) /\ \A w \in Elems(b) : w.m = "idx.next" /\ w.then = "skip"
    BY DmaList
  <2>4. s3 = a \o Only(x.prev # 0, b)
    BY DEF copy_index_rule_to_hw
  <2> HIDE DEF a, b
  <2>6. First(a) /\ First(b)
    BY <2>1, <2>2 DEF AddWrite, Links
  <2>3. First(Only(x.prev # 0, b))
    BY <2>6, Conditional
  <2>5. QED
    BY <2>3, <2>4, <2>6, Joined
<1>4. /\ IsSequence(s4) /\ \A v, w : ~Ahead(s4, v, w)
      /\ \A w \in Elems(s4) : AddWrite(w, f, make_rule_hdl, r.at) /\ w.m = "on"
      /\ \E w \in Elems(s4) : w.m = "on"
  <2>1. /\ IsSequence(s4) /\ \A v, w : ~Ahead(s4, v, w)
        /\ \A w \in Elems(s4) : w.m = "on" /\ w.at = r.at /\ w.v = TRUE /\ w.then = "abort"
        /\ \E w \in Elems(s4) : w.m = "on"
    <3> DEFINE w == [m |-> "on", at |-> r.at, v |-> TRUE, fault |-> "enable", then |-> "abort"]
    <3>1. s4 = <<w>>
      BY DEF Dma
    <3>2. w.m = "on" /\ w.at = r.at /\ w.v = TRUE /\ w.then = "abort"
      OBVIOUS
    <3> HIDE DEF w, s4
    <3>3. QED
      BY <3>1, <3>2, OneWrite
  <2> HIDE DEF s4
  <2>2. QED
    BY <2>1 DEF AddWrite
<1>5. /\ IsSequence(s5) /\ \A v, w : ~Ahead(s5, v, w)
      /\ \A w \in Elems(s5) : AddWrite(w, f, make_rule_hdl, r.at) /\ w.m = "ids"
      /\ \E w \in Elems(s5) : w.m = "ids"
  <2>1. /\ IsSequence(s5) /\ \A v, w : ~Ahead(s5, v, w)
        /\ \A w \in Elems(s5) : /\ w.m = "ids" /\ w.at = make_rule_hdl /\ w.v = r.at
                                /\ w.fault = "none"
        /\ \E w \in Elems(s5) : w.m = "ids"
    BY CpuList
  <2> HIDE DEF s5
  <2>2. QED
    BY <2>1 DEF AddWrite
<1>6. AddWrites(f, r, x) = s1 \o s2 \o s3 \o s4 \o s5
  BY DEF AddWrites
<1> HIDE DEF s1, s2, s3, s4, s5
<1> DEFINE t == s1 \o s2 \o s3
<1>7. First(t) /\ \E w \in Elems(t) : w.m = "nat"
  <2>1. First(s1 \o s2) /\ \E w \in Elems(s1 \o s2) : w.m = "nat"
    BY <1>1, <1>2, Joined
  <2>2. QED
    BY <1>3, <2>1, Joined
<1> HIDE DEF t
<1>8. /\ IsSequence(t \o s4) /\ Elems(t \o s4) = Elems(t) \cup Elems(s4)
      /\ \A v, w : Ahead(t \o s4, v, w) => v \in Elems(t)
  <2>1. \A v, w : Ahead(t, v, w) => v \in Elems(t)
    BY DEF Ahead, Elems
  <2>2. QED
    BY <1>4, <1>7, <2>1, Joined
<1>9. /\ IsSequence(t \o s4 \o s5) /\ Elems(t \o s4 \o s5) = Elems(t) \cup Elems(s4) \cup Elems(s5)
      /\ \A v, w : Ahead(t \o s4 \o s5, v, w) =>
            v \in Elems(t) \/ (v \in Elems(s4) /\ w \in Elems(s5))
  BY <1>5, <1>8, Joined
<1>10. \A v, w : Ahead(t \o s4 \o s5, v, w) => AddOrder(v, w)
  BY <1>4, <1>5, <1>7, <1>9 DEF AddOrder
<1>11. AddWrites(f, r, x) = t \o s4 \o s5
  BY <1>6 DEF t
<1>12. QED
  BY <1>4, <1>5, <1>7, <1>9, <1>10, <1>11
\* Two parts of taking a rule out: links, of which the first may fail, and then writes
\* that cannot fail.
LinkWrites(s) ==
    IsSequence(s) /\ \A w \in Elems(s) : w.m \in Links /\ (w.fault # "none" => w.then = "abort")
SureWrites(s, h, e) ==
    IsSequence(s) /\ \A w \in Elems(s) : DelWrite(w, h, e) /\ w.fault = "none"

LEMMA LinkWrite ==
    ASSUME NEW m \in Links, NEW at, NEW v, NEW fault, NEW then, fault = "none" \/ then = "abort"
    PROVE  LinkWrites(Dma(m, at, v, fault, then))
<1> DEFINE s == Dma(m, at, v, fault, then)
<1>1. IsSequence(s) /\ \A w \in Elems(s) : w.m = m /\ w.fault = fault /\ w.then = then
  BY DmaList
<1> HIDE DEF s
<1>2. LinkWrites(s)
  BY <1>1 DEF LinkWrites
<1>3. QED
  BY <1>2 DEF s

LEMMA LinkWritesJoined ==
    ASSUME NEW s, LinkWrites(s), NEW t, LinkWrites(t)
    PROVE  LinkWrites(s \o t)
BY Joined DEF LinkWrites

LEMMA SureWrite ==
    ASSUME NEW m, NEW at, NEW v, NEW h, NEW e,
           \/ m \in Links \cup {"sweep"}
           \/ m = "flow" /\ at = e /\ v = Dead
           \/ m = "nat" /\ at = e /\ v = Zero
           \/ m = "ids" /\ at = h /\ v = 0
    PROVE  SureWrites(Cpu(m, at, v), h, e)
<1> DEFINE s == Cpu(m, at, v)
<1>1. IsSequence(s) /\ \A w \in Elems(s) : w.m = m /\ w.at = at /\ w.v = v /\ w.fault = "none"
  BY CpuList
<1> HIDE DEF s
<1>2. \A w \in Elems(s) : DelWrite(w, h, e)
  BY <1>1 DEF DelWrite, Links
<1>3. SureWrites(s, h, e)
  BY <1>1, <1>2 DEF SureWrites
<1>4. QED
  BY <1>3 DEF s

LEMMA SureWritesJoined ==
    ASSUME NEW h, NEW e, NEW s, SureWrites(s, h, e), NEW t, SureWrites(t, h, e)
    PROVE  SureWrites(s \o t, h, e)
BY Joined DEF SureWrites

LEMMA SureWritesOnly ==
    ASSUME NEW h, NEW e, NEW c, NEW s, SureWrites(s, h, e)
    PROVE  SureWrites(Only(c, s), h, e)
BY NoWrites DEF SureWrites, Only

Ordered(s, h, e) ==
    /\ IsSequence(s)
    /\ \A w \in Elems(s) : DelWrite(w, h, e)
    /\ \A v, w : Ahead(s, v, w) => DelOrder(v, w)

LEMMA OrderedJoined ==
    ASSUME NEW h, NEW e, NEW s, Ordered(s, h, e), NEW t, SureWrites(t, h, e)
    PROVE  Ordered(s \o t, h, e)
<1>1. \A v, w : Ahead(t, v, w) => w \in Elems(t)
  BY DEF Ahead, Elems
<1>2. QED
  BY <1>1, Joined DEF Ordered, SureWrites, DelOrder

\* Disabling the rule.
LEMMA DisableWrite ==
    ASSUME NEW h, NEW e
    PROVE  SureWrites(Dma("on", e, FALSE, "none", "on"), h, e)
<1> DEFINE w == [m |-> "on", at |-> e, v |-> FALSE, fault |-> "none", then |-> "on"]
           s == Dma("on", e, FALSE, "none", "on")
<1>1. s = <<w>>
  BY DEF Dma
<1>2. w.m = "on" /\ w.at = e /\ w.v = FALSE /\ w.fault = "none"
  OBVIOUS
<1> HIDE DEF w, s
<1>3. DelWrite(w, h, e)
  BY <1>2 DEF DelWrite
<1>4. SureWrites(s, h, e)
  BY <1>1, <1>2, <1>3, OneWrite DEF SureWrites
<1>5. QED
  BY <1>4 DEF s

\* Taking a rule out: links first, then writes that cannot fail, the handle last.
LEMMA DelList ==
    ASSUME NEW e, NEW h
    PROVE  LET s == post_del_dma_cmd(e) \o Cpu("sweep", 0, 0) \o Cpu("ids", h, 0)
           IN  /\ IsSequence(s)
               /\ \A w \in Elems(s) : DelWrite(w, h, e)
               /\ \A v, w : Ahead(s, v, w) => DelOrder(v, w)
               /\ \E w \in Elems(s) : w.m = "ids"
<1> DEFINE x == nat[e].ix
           n == idx[x].next
           nn == idx[n].next
           index == CASE index_rule_pos(x) = "only" -> Dma("idx.entry", x, 0, "delete", "abort")
                      [] index_rule_pos(x) = "head" -> Dma("idx.entry", x, idx[n].entry, "delete", "abort")
                                                       \o Dma("idx.next", x, idx[n].next, "none", "on")
                      [] OTHER -> Dma("idx.next", meta[x], n, "delete", "abort")
           rule == CASE rule_pos(e) = "only" -> Dma("on", e, FALSE, "none", "on")
                     [] rule_pos(e) = "head" -> Dma("flow", e, Dead, "none", "on")
                     [] OTHER -> Dma("next", nat[e].prev, nat[e].next, "none", "on")
           prev == Only(rule_pos(e) = "middle", Cpu("prev", nat[e].next, nat[e].prev))
           zero == Only(rule_pos(e) # "head", Cpu("nat", e, Zero))
           head == Only(nn # 0, Cpu("meta", nn, x)) \o Cpu("idx", n, ZeroIdx)
                   \o Cpu("ix", idx[n].entry, x)
           other == Only(index_rule_pos(x) = "middle", Cpu("meta", n, meta[x]) \o Cpu("meta", x, 0))
                    \o Cpu("idx", x, ZeroIdx)
           sweep == Cpu("sweep", 0, 0)
           last == Cpu("ids", h, 0)
<1>1. LinkWrites(index)
  <2>1. LinkWrites(Dma("idx.entry", x, 0, "delete", "abort"))
    BY LinkWrite DEF Links
  <2>2. LinkWrites(Dma("idx.entry", x, idx[n].entry, "delete", "abort"))
    BY LinkWrite DEF Links
  <2>3. LinkWrites(Dma("idx.next", x, idx[n].next, "none", "on"))
    BY LinkWrite DEF Links
  <2>4. LinkWrites(Dma("idx.next", meta[x], n, "delete", "abort"))
    BY LinkWrite DEF Links
  <2>5. LinkWrites(Dma("idx.entry", x, idx[n].entry, "delete", "abort")
                   \o Dma("idx.next", x, idx[n].next, "none", "on"))
    BY <2>2, <2>3, LinkWritesJoined
  <2>6. QED
    BY <2>1, <2>4, <2>5
<1>2. SureWrites(rule, h, e)
  <2>1. SureWrites(Dma("on", e, FALSE, "none", "on"), h, e)
    BY DisableWrite
  <2>2. SureWrites(Dma("flow", e, Dead, "none", "on"), h, e)
    BY SureWrite DEF Dma, Cpu
  <2>3. SureWrites(Dma("next", nat[e].prev, nat[e].next, "none", "on"), h, e)
    BY SureWrite DEF Dma, Cpu, Links
  <2>4. QED
    BY <2>1, <2>2, <2>3
<1>3. SureWrites(prev, h, e) /\ SureWrites(zero, h, e)
  <2>1. SureWrites(Cpu("prev", nat[e].next, nat[e].prev), h, e)
    BY SureWrite DEF Links
  <2>2. SureWrites(Cpu("nat", e, Zero), h, e)
    BY SureWrite
  <2>3. QED
    BY <2>1, <2>2, SureWritesOnly
<1>4. SureWrites(head, h, e)
  <2>1. SureWrites(Cpu("meta", nn, x), h, e)
    BY SureWrite DEF Links
  <2>2. SureWrites(Cpu("idx", n, ZeroIdx), h, e)
    BY SureWrite DEF Links
  <2>3. SureWrites(Cpu("ix", idx[n].entry, x), h, e)
    BY SureWrite DEF Links
  <2>4. SureWrites(Only(nn # 0, Cpu("meta", nn, x)), h, e)
    BY <2>1, SureWritesOnly
  <2>5. SureWrites(Only(nn # 0, Cpu("meta", nn, x)) \o Cpu("idx", n, ZeroIdx), h, e)
    BY <2>2, <2>4, SureWritesJoined
  <2>6. QED
    BY <2>3, <2>5, SureWritesJoined
<1>5. SureWrites(other, h, e)
  <2>1. SureWrites(Cpu("meta", n, meta[x]), h, e) /\ SureWrites(Cpu("meta", x, 0), h, e)
    BY SureWrite DEF Links
  <2>2. SureWrites(Cpu("idx", x, ZeroIdx), h, e)
    BY SureWrite DEF Links
  <2>3. SureWrites(Cpu("meta", n, meta[x]) \o Cpu("meta", x, 0), h, e)
    BY <2>1, SureWritesJoined
  <2>4. SureWrites(Only(index_rule_pos(x) = "middle",
                        Cpu("meta", n, meta[x]) \o Cpu("meta", x, 0)), h, e)
    BY <2>3, SureWritesOnly
  <2>5. QED
    BY <2>2, <2>4, SureWritesJoined
<1>6. SureWrites(sweep, h, e)
  BY SureWrite
<1>7. SureWrites(last, h, e) /\ \E w \in Elems(last) : w.m = "ids"
  <2>1. SureWrites(last, h, e)
    BY SureWrite
  <2>2. \E w \in Elems(last) : w.m = "ids"
    BY CpuList
  <2>3. QED
    BY <2>1, <2>2
<1>8. DelDma(e) = index \o rule
  BY DEF DelDma
<1>9. DelCpu(e) = prev \o zero \o (IF index_rule_pos(x) = "head" THEN head ELSE other)
  BY DEF DelCpu
<1> HIDE DEF index, rule, prev, zero, head, other, sweep, last
<1>10. SureWrites(DelCpu(e), h, e)
  <2>1. SureWrites(prev \o zero, h, e)
    BY <1>3, SureWritesJoined
  <2>2. SureWrites(prev \o zero \o head, h, e) /\ SureWrites(prev \o zero \o other, h, e)
    BY <1>4, <1>5, <2>1, SureWritesJoined
  <2>3. QED
    BY <1>9, <2>2
<1>11. Ordered(index, h, e)
  <2>1. \A v, w : Ahead(index, v, w) => v \in Elems(index)
    BY DEF Ahead, Elems
  <2>2. QED
    BY <1>1, <2>1 DEF LinkWrites, Ordered, DelWrite, DelOrder, Links
<1>12. Ordered(index \o rule, h, e)
  BY <1>2, <1>11, OrderedJoined
<1>13. Ordered(post_del_dma_cmd(e), h, e)
  BY <1>8, <1>10, <1>12, OrderedJoined DEF post_del_dma_cmd
<1>14. Ordered(post_del_dma_cmd(e) \o sweep, h, e)
  BY <1>6, <1>13, OrderedJoined
<1>15. Ordered(post_del_dma_cmd(e) \o sweep \o last, h, e)
  BY <1>7, <1>14, OrderedJoined
<1>16. \E w \in Elems(post_del_dma_cmd(e) \o sweep \o last) : w.m = "ids"
  BY <1>7, <1>14, Joined DEF Ordered, SureWrites
<1>17. QED
  BY <1>15, <1>16 DEF Ordered, sweep, last
OpenWrites(s) == IsSequence(s) /\ \A w \in Elems(s) : OpenWrite(w)
CloseWrites(s) == IsSequence(s) /\ \A w \in Elems(s) : CloseWrite(w)

LEMMA OpenWritesJoined ==
    ASSUME NEW s, OpenWrites(s), NEW t, OpenWrites(t)
    PROVE  OpenWrites(s \o t) /\ Elems(s \o t) = Elems(s) \cup Elems(t)
BY Joined DEF OpenWrites

LEMMA CloseWritesJoined ==
    ASSUME NEW s, CloseWrites(s), NEW t, CloseWrites(t)
    PROVE  CloseWrites(s \o t) /\ Elems(s \o t) = Elems(s) \cup Elems(t)
BY Joined DEF CloseWrites

LEMMA TableOpened ==
    ASSUME NEW at \in {"valid", "mapped", "hw"}, NEW fault, NEW then, fault = "none" \/ then = "abort"
    PROVE  LET s == Dma("tbl", at, TRUE, fault, then)
           IN  OpenWrites(s) /\ \E w \in Elems(s) : w.m = "tbl" /\ w.at = at
<1> DEFINE w == [m |-> "tbl", at |-> at, v |-> TRUE, fault |-> fault, then |-> then]
           s == Dma("tbl", at, TRUE, fault, then)
<1>1. s = <<w>>
  BY DEF Dma
<1>2. w.m = "tbl" /\ w.at = at /\ w.v = TRUE /\ w.fault = fault /\ w.then = then
  OBVIOUS
<1> HIDE DEF w, s
<1>3. OpenWrite(w)
  BY <1>2 DEF OpenWrite
<1>4. OpenWrites(s) /\ w \in Elems(s)
  BY <1>1, <1>3, OneWrite DEF OpenWrites
<1>5. QED
  BY <1>2, <1>4 DEF s

LEMMA TableClosed ==
    ASSUME NEW at \in {"mapped", "hw"}
    PROVE  CloseWrites(Cpu("tbl", at, FALSE))
<1> DEFINE w == [m |-> "tbl", at |-> at, v |-> FALSE, fault |-> "none", then |-> "on"]
           s == Cpu("tbl", at, FALSE)
<1>1. s = <<w>>
  BY DEF Cpu
<1>2. w.m = "tbl" /\ w.at = at /\ w.v = FALSE /\ w.fault = "none"
  OBVIOUS
<1> HIDE DEF w, s
<1>3. CloseWrite(w)
  BY <1>2 DEF CloseWrite
<1>4. CloseWrites(s)
  BY <1>1, <1>3, OneWrite DEF CloseWrites
<1>5. QED
  BY <1>4 DEF s

\* Opening a table: it is marked valid, gets its arrays and is mapped.
LEMMA OpenList ==
    LET s == Cpu("tbl", "valid", TRUE)
             \o Only(~tbl.ids, Cpu("alloc", 0, 0))
             \o Dma("tbl", "mapped", TRUE, "open", "abort")
             \o Cpu("reset", 0, 0)
             \o Dma("tbl", "hw", TRUE, "open", "abort")
    IN  /\ OpenWrites(s)
        /\ \E w \in Elems(s) : w.m = "tbl" /\ w.at = "valid"
        /\ \E w \in Elems(s) : w.m = "tbl" /\ w.at = "mapped"
        /\ tbl.ids \/ \E w \in Elems(s) : w.m = "alloc"
<1> DEFINE valid == Dma("tbl", "valid", TRUE, "none", "on")
           all == Cpu("alloc", 0, 0)
           arrays == Only(~tbl.ids, all)
           mapped == Dma("tbl", "mapped", TRUE, "open", "abort")
           reset == Cpu("reset", 0, 0)
           hw == Dma("tbl", "hw", TRUE, "open", "abort")
<1>1. OpenWrites(valid) /\ \E w \in Elems(valid) : w.m = "tbl" /\ w.at = "valid"
  BY TableOpened
<1>2. OpenWrites(mapped) /\ \E w \in Elems(mapped) : w.m = "tbl" /\ w.at = "mapped"
  BY TableOpened
<1>3. OpenWrites(hw)
  BY TableOpened
<1>4. OpenWrites(reset)
  <2>1. IsSequence(reset) /\ \A w \in Elems(reset) : w.m = "reset" /\ w.fault = "none"
    BY CpuList
  <2> HIDE DEF reset
  <2>2. QED
    BY <2>1 DEF OpenWrites, OpenWrite
<1>5. OpenWrites(arrays) /\ (tbl.ids \/ \E w \in Elems(arrays) : w.m = "alloc")
  <2>1. /\ IsSequence(all) /\ \A w \in Elems(all) : w.m = "alloc" /\ w.fault = "none"
        /\ \E w \in Elems(all) : w.m = "alloc"
    BY CpuList
  <2>2. IF tbl.ids THEN arrays = <<>> ELSE arrays = all
    BY DEF Only
  <2> HIDE DEF all, arrays
  <2>3. QED
    BY <2>1, <2>2, NoWrites DEF OpenWrites, OpenWrite
<1>6. valid = Cpu("tbl", "valid", TRUE)
  BY DEF Cpu, Dma
<1> HIDE DEF valid, arrays, mapped, reset, hw
<1>7. OpenWrites(valid \o arrays) /\ Elems(valid \o arrays) = Elems(valid) \cup Elems(arrays)
  BY <1>1, <1>5, OpenWritesJoined
<1>8. /\ OpenWrites(valid \o arrays \o mapped)
      /\ Elems(valid \o arrays \o mapped) = Elems(valid) \cup Elems(arrays) \cup Elems(mapped)
  BY <1>2, <1>7, OpenWritesJoined
<1>9. /\ OpenWrites(valid \o arrays \o mapped \o reset)
      /\ Elems(valid) \cup Elems(arrays) \cup Elems(mapped)
         \subseteq Elems(valid \o arrays \o mapped \o reset)
  BY <1>4, <1>8, OpenWritesJoined
<1>10. /\ OpenWrites(valid \o arrays \o mapped \o reset \o hw)
       /\ Elems(valid) \cup Elems(arrays) \cup Elems(mapped)
          \subseteq Elems(valid \o arrays \o mapped \o reset \o hw)
  BY <1>3, <1>9, OpenWritesJoined
<1> DEFINE s == valid \o arrays \o mapped \o reset \o hw
<1>11. /\ OpenWrites(s)
       /\ \E w \in Elems(s) : w.m = "tbl" /\ w.at = "valid"
       /\ \E w \in Elems(s) : w.m = "tbl" /\ w.at = "mapped"
       /\ tbl.ids \/ \E w \in Elems(s) : w.m = "alloc"
  BY <1>1, <1>2, <1>5, <1>10
<1>12. QED
  BY <1>6, <1>11 DEF arrays, mapped, reset, hw

\* Deleting the table: under the mutex, and without failing.
LEMMA CloseList ==
    LET s == Cpu("lock", "owner", 0) \o Cpu("tbl", "mapped", FALSE) \o Cpu("tbl", "hw", FALSE)
             \o Cpu("forget", 0, 0) \o Cpu("lock", "free", 0)
    IN  CloseWrites(s) /\ \E w \in Elems(s) : w.m = "forget"
<1> DEFINE owner == Cpu("lock", "owner", 0)
           mapped == Cpu("tbl", "mapped", FALSE)
           hw == Cpu("tbl", "hw", FALSE)
           forget == Cpu("forget", 0, 0)
           free == Cpu("lock", "free", 0)
<1>1. CloseWrites(owner) /\ CloseWrites(free)
  <2>1. /\ IsSequence(owner) /\ \A w \in Elems(owner) : w.m = "lock" /\ w.at = "owner" /\ w.fault = "none"
    BY CpuList
  <2>2. /\ IsSequence(free) /\ \A w \in Elems(free) : w.m = "lock" /\ w.at = "free" /\ w.fault = "none"
    BY CpuList
  <2> HIDE DEF owner, free
  <2>3. QED
    BY <2>1, <2>2 DEF CloseWrites, CloseWrite
<1>2. CloseWrites(mapped) /\ CloseWrites(hw)
  BY TableClosed
<1>3. CloseWrites(forget) /\ \E w \in Elems(forget) : w.m = "forget"
  <2>1. /\ IsSequence(forget) /\ \A w \in Elems(forget) : w.m = "forget" /\ w.fault = "none"
        /\ \E w \in Elems(forget) : w.m = "forget"
    BY CpuList
  <2> HIDE DEF forget
  <2>2. QED
    BY <2>1 DEF CloseWrites, CloseWrite
<1> HIDE DEF owner, mapped, hw, forget, free
<1>4. CloseWrites(owner \o mapped)
  BY <1>1, <1>2, CloseWritesJoined
<1>5. CloseWrites(owner \o mapped \o hw)
  BY <1>2, <1>4, CloseWritesJoined
<1>6. /\ CloseWrites(owner \o mapped \o hw \o forget)
      /\ Elems(forget) \subseteq Elems(owner \o mapped \o hw \o forget)
  BY <1>3, <1>5, CloseWritesJoined
<1>7. /\ CloseWrites(owner \o mapped \o hw \o forget \o free)
      /\ Elems(forget) \subseteq Elems(owner \o mapped \o hw \o forget \o free)
  BY <1>1, <1>6, CloseWritesJoined
<1> DEFINE s == owner \o mapped \o hw \o forget \o free
<1>8. CloseWrites(s) /\ \E w \in Elems(s) : w.m = "forget"
  BY <1>3, <1>7
<1>9. QED
  BY <1>8 DEF owner, mapped, hw, forget, free
-----------------------------------------------------------------------------
(* What a single write does.                                               *)

LEMMA EntryUpdate ==
    ASSUME NEW r, IsEntry(r), NEW v
    PROVE  /\ IsEntry([r EXCEPT !.next = v]) /\ [r EXCEPT !.next = v].on = r.on
              /\ [r EXCEPT !.next = v].flow = r.flow
           /\ IsEntry([r EXCEPT !.prev = v]) /\ [r EXCEPT !.prev = v].on = r.on
              /\ [r EXCEPT !.prev = v].flow = r.flow
           /\ IsEntry([r EXCEPT !.ix = v]) /\ [r EXCEPT !.ix = v].on = r.on
              /\ [r EXCEPT !.ix = v].flow = r.flow
BY DEF IsEntry

LEMMA EntryEnabled ==
    ASSUME NEW r, IsEntry(r), NEW v \in BOOLEAN
    PROVE  /\ IsEntry([r EXCEPT !.on = v])
           /\ [r EXCEPT !.on = v].on = v /\ [r EXCEPT !.on = v].flow = r.flow
BY DEF IsEntry

LEMMA EntryMatched ==
    ASSUME NEW r, IsEntry(r), NEW v \in Matched
    PROVE  IsEntry([r EXCEPT !.flow = v])
BY DEF IsEntry

LEMMA ZeroIsEntry == IsEntry(Zero) /\ ~Zero.on
BY DEF IsEntry, Zero, Matched

\* A link changes no connection, handle or table.
LEMMA LinkStep ==
    ASSUME TypeOK, NEW w, w.m \in Links, Do(w)
    PROVE  /\ IsNat(nat')
           /\ \A e \in All : nat'[e].on = nat[e].on /\ nat'[e].flow = nat[e].flow
           /\ ids' = ids /\ tbl' = tbl /\ lock' = lock
<1>1. ids' = ids /\ tbl' = tbl /\ lock' = lock
  BY DEF Do, Links
<1>2. IsNat(nat)
  BY DEF TypeOK
<1>3. CASE w.m = "next"
  <2> DEFINE r == [nat[w.at] EXCEPT !.next = w.v]
  <2>1. nat' = [nat EXCEPT ![w.at] = r]
    BY <1>3 DEF Do
  <2>2. w.at \in All => IsEntry(r) /\ r.on = nat[w.at].on /\ r.flow = nat[w.at].flow
    BY <1>2, EntryUpdate DEF IsNat
  <2> HIDE DEF r
  <2>3. QED
    BY <1>1, <1>2, <2>1, <2>2 DEF IsNat
<1>4. CASE w.m = "prev"
  <2> DEFINE r == [nat[w.at] EXCEPT !.prev = w.v]
  <2>1. nat' = [nat EXCEPT ![w.at] = r]
    BY <1>4 DEF Do
  <2>2. w.at \in All => IsEntry(r) /\ r.on = nat[w.at].on /\ r.flow = nat[w.at].flow
    BY <1>2, EntryUpdate DEF IsNat
  <2> HIDE DEF r
  <2>3. QED
    BY <1>1, <1>2, <2>1, <2>2 DEF IsNat
<1>5. CASE w.m = "ix"
  <2> DEFINE r == [nat[w.at] EXCEPT !.ix = w.v]
  <2>1. nat' = [nat EXCEPT ![w.at] = r]
    BY <1>5 DEF Do
  <2>2. w.at \in All => IsEntry(r) /\ r.on = nat[w.at].on /\ r.flow = nat[w.at].flow
    BY <1>2, EntryUpdate DEF IsNat
  <2> HIDE DEF r
  <2>3. QED
    BY <1>1, <1>2, <2>1, <2>2 DEF IsNat
<1>6. CASE w.m \notin {"next", "prev", "ix"}
  <2>1. nat' = nat
    BY <1>6 DEF Do, Links
  <2>2. QED
    BY <1>1, <1>2, <2>1
<1>7. QED
  BY <1>3, <1>4, <1>5, <1>6

\* The other writes to an entry change this one alone.
LEMMA RuleStep ==
    ASSUME TypeOK, NEW w, Do(w), w.at \in All,
           \/ w.m = "nat" /\ IsEntry(w.v)
           \/ w.m = "on" /\ w.v \in BOOLEAN
           \/ w.m = "flow" /\ w.v \in Matched
    PROVE  /\ IsNat(nat')
           /\ \A e \in All \ {w.at} : nat'[e] = nat[e]
           /\ w.m = "nat" => nat'[w.at] = w.v
           /\ w.m = "on" => nat'[w.at].on = w.v /\ nat'[w.at].flow = nat[w.at].flow
           /\ ids' = ids /\ tbl' = tbl /\ lock' = lock
<1>1. ids' = ids /\ tbl' = tbl /\ lock' = lock
  BY DEF Do
<1>2. IsNat(nat)
  BY DEF TypeOK
<1>3. CASE w.m = "nat"
  <2>1. nat' = [nat EXCEPT ![w.at] = w.v] /\ IsEntry(w.v)
    BY <1>3 DEF Do
  <2>2. QED
    BY <1>1, <1>2, <1>3, <2>1 DEF IsNat
<1>4. CASE w.m = "on"
  <2> DEFINE r == [nat[w.at] EXCEPT !.on = w.v]
  <2>1. nat' = [nat EXCEPT ![w.at] = r] /\ w.v \in BOOLEAN
    BY <1>4 DEF Do
  <2>2. IsEntry(r) /\ r.on = w.v /\ r.flow = nat[w.at].flow
    BY <1>2, <2>1, EntryEnabled DEF IsNat
  <2> HIDE DEF r
  <2>3. QED
    BY <1>1, <1>2, <1>4, <2>1, <2>2 DEF IsNat
<1>5. CASE w.m = "flow"
  <2> DEFINE r == [nat[w.at] EXCEPT !.flow = w.v]
  <2>1. nat' = [nat EXCEPT ![w.at] = r] /\ w.v \in Matched
    BY <1>5 DEF Do
  <2>2. IsEntry(r)
    BY <1>2, <2>1, EntryMatched DEF IsNat
  <2> HIDE DEF r
  <2>3. QED
    BY <1>1, <1>2, <1>5, <2>1, <2>2 DEF IsNat
<1>6. QED
  BY <1>3, <1>4, <1>5

\* Sweeping leaves the rules of connections alone.
LEMMA SweepStep ==
    ASSUME TypeOK, NEW w, Do(w), w.m = "sweep"
    PROVE  /\ IsNat(nat')
           /\ \A e \in All : nat[e].flow \in Flows => nat'[e] = nat[e]
           /\ ids' = ids /\ tbl' = tbl /\ lock' = lock
<1>1. ids' = ids /\ tbl' = tbl /\ lock' = lock /\ nat' = del_dead_ipv4_head_nodes
  BY DEF Do
<1>2. Dead \notin Flows
  BY OtherNames
<1>3. IsNat(nat)
  BY DEF TypeOK
<1>4. QED
  BY <1>1, <1>2, <1>3, ZeroIsEntry DEF del_dead_ipv4_head_nodes, IsNat

LEMMA HandleStep ==
    ASSUME TypeOK, NEW w, Do(w), w.m = "ids", w.at \in Handles, w.v \in All
    PROVE  /\ nat' = nat /\ tbl' = tbl /\ lock' = lock
           /\ ids' \in [Handles -> All] /\ ids'[w.at] = w.v
           /\ \A h \in Handles \ {w.at} : ids'[h] = ids[h]
BY DEF Do, TypeOK

\* Opening a table marks it and clears its memory and arrays.
LEMMA OpenStep ==
    ASSUME TypeOK, NEW w, Do(w), OpenWrite(w)
    PROVE  /\ IsNat(nat') /\ tbl' \in Tables /\ lock' = lock
           /\ ids' = ids \/ ids' = [h \in Handles |-> 0]
           /\ tbl.valid \/ (w.m = "tbl" /\ w.at = "valid") => tbl'.valid
           /\ tbl.mapped \/ (w.m = "tbl" /\ w.at = "mapped") => tbl'.mapped
           /\ tbl.ids \/ w.m = "alloc" => tbl'.ids
<1>1. IsNat(nat) /\ tbl \in Tables
  BY DEF TypeOK
<1>2. CASE w.m = "reset"
  <2>1. nat' = [e \in All |-> Zero] /\ ids' = ids /\ tbl' = tbl /\ lock' = lock
    BY <1>2 DEF Do
  <2>2. QED
    BY <1>1, <1>2, <2>1, ZeroIsEntry DEF IsNat
<1>3. CASE w.m = "alloc"
  <2>1. /\ nat' = nat /\ ids' = [h \in Handles |-> 0] /\ lock' = lock
        /\ tbl' = [tbl EXCEPT !.ids = TRUE]
    BY <1>3 DEF Do, Handles
  <2>2. QED
    BY <1>1, <1>3, <2>1 DEF Tables
<1>4. CASE w.m = "tbl"
  <2>1. nat' = nat /\ ids' = ids /\ lock' = lock /\ tbl' = [tbl EXCEPT ![w.at] = TRUE]
    BY <1>4 DEF Do, OpenWrite
  <2>2. CASE w.at = "valid"
    BY <1>1, <1>4, <2>1, <2>2 DEF Tables
  <2>3. CASE w.at = "mapped"
    BY <1>1, <1>4, <2>1, <2>3 DEF Tables
  <2>4. CASE w.at = "hw"
    BY <1>1, <1>4, <2>1, <2>4 DEF Tables
  <2>5. QED
    BY <1>4, <2>2, <2>3, <2>4 DEF OpenWrite
<1>5. QED
  BY <1>2, <1>3, <1>4 DEF OpenWrite

LEMMA CloseStep ==
    ASSUME TypeOK, NEW w, Do(w), CloseWrite(w)
    PROVE  /\ nat' = nat /\ tbl' \in Tables /\ lock' \in {"free", "owner", "asker"}
           /\ IF w.m = "forget" THEN ids' = [h \in Handles |-> 0] ELSE ids' = ids
<1>1. tbl \in Tables /\ lock \in {"free", "owner", "asker"}
  BY DEF TypeOK
<1>2. CASE w.m = "forget"
  <2>1. nat' = nat /\ ids' = [h \in Handles |-> 0] /\ lock' = lock /\ tbl' = NoTable
    BY <1>2 DEF Do, Handles
  <2>2. QED
    BY <1>1, <1>2, <2>1 DEF Tables, NoTable
<1>3. CASE w.m = "lock"
  <2>1. nat' = nat /\ ids' = ids /\ tbl' = tbl /\ lock' = w.at
    BY <1>3 DEF Do
  <2>2. QED
    BY <1>1, <1>3, <2>1 DEF CloseWrite
<1>4. CASE w.m = "tbl"
  <2>1. nat' = nat /\ ids' = ids /\ lock' = lock /\ tbl' = [tbl EXCEPT ![w.at] = FALSE]
    BY <1>4 DEF Do, CloseWrite
  <2>2. CASE w.at = "mapped"
    BY <1>1, <1>4, <2>1, <2>2 DEF Tables
  <2>3. CASE w.at = "hw"
    BY <1>1, <1>4, <2>1, <2>3 DEF Tables
  <2>4. QED
    BY <1>4, <2>2, <2>3 DEF CloseWrite
<1>5. QED
  BY <1>2, <1>3, <1>4 DEF CloseWrite
-----------------------------------------------------------------------------
(* The calls keep the invariant.                                           *)

LEMMA AddKeeps ==
    ASSUME IInv, NEW f \in Flows, AddRule(f)
    PROVE  IInv'
<1> DEFINE r == generate_tbl_rule(f)
           x == generate_index_rule(f)
           h == make_rule_hdl
<1>1. /\ up /\ held[f] = 0 /\ r.at # 0
      /\ op = NoCall /\ op' = [kind |-> "add", flow |-> f, hdl |-> h, ok |-> TRUE]
      /\ todo' = AddWrites(f, r, x)
      /\ scene' = scene /\ nat' = nat /\ ids' = ids /\ tbl' = tbl /\ lock' = lock
      /\ held' = held /\ up' = up /\ q' = q
  BY DEF AddRule, Call, memory
<1>2. TypeOK /\ HandlesLead /\ HeldLead /\ TableInv /\ QueryInv
  BY DEF IInv
<1>3. r.at \in Handles /\ ~nat[r.at].on
  <2> DEFINE used == [e \in All |-> nat[e].on]
  <2>1. r = Slot(used, nat, Dst(f))
    BY DEF generate_tbl_rule
  <2> HIDE DEF used, r
  <2>2. r.at \in Handles /\ ~used[r.at]
    BY <1>1, <1>2, <2>1, DstIsEntry, SlotIsFree
  <2>3. QED
    BY <2>2 DEF used, Handles
<1>4. op.kind = "none"
  BY <1>1 DEF NoCall
<1>5. \A k \in Handles : ids[k] # r.at
  BY <1>3, <1>2, <1>4 DEF HandlesLead, Handles
<1>6. h \in Handles /\ ids[h] = 0
  BY <1>2, <1>3, <1>5, HandleIsFree DEF HandlesLead
<1>7. /\ IsSequence(todo')
      /\ \A w \in Elems(todo') : AddWrite(w, f, h, r.at)
      /\ \A v, w : Ahead(todo', v, w) => AddOrder(v, w)
      /\ {"nat", "on", "ids"} \subseteq {w.m : w \in Elems(todo')}
  <2>1. LET s == AddWrites(f, r, x)
        IN  /\ IsSequence(s)
            /\ \A w \in Elems(s) : AddWrite(w, f, h, r.at)
            /\ \A v, w : Ahead(s, v, w) => AddOrder(v, w)
            /\ {"nat", "on", "ids"} \subseteq {w.m : w \in Elems(s)}
    BY <1>2, AddList
  <2> HIDE DEF r, x, h
  <2>2. QED
    BY <1>1, <2>1
<1> HIDE DEF r, x, h
<1> PICK a \in Handles : a = r.at
  BY <1>3
<1>8. op'.kind = "add" /\ op'.flow = f /\ op'.hdl = h /\ op'.ok = TRUE /\ op' \in Calls
  BY <1>1, <1>6 DEF Calls, Handles
<1>9. TypeOK'
  BY <1>1, <1>2, <1>7, <1>8 DEF TypeOK, IsNat, IsEntry
<1>10. HandlesLead'
  BY <1>1, <1>2, <1>4, <1>8 DEF HandlesLead
<1>11. HeldLead'
  BY <1>1, <1>2, <1>4, <1>8 DEF HeldLead
<1>12. Adding(a)'
  <2>1. \A g \in Flows : held[g] # h
    BY <1>2, <1>4, <1>6, Sizes DEF HeldLead, Handles
  <2>2. Pending("nat")' /\ Pending("on")' /\ Pending("ids")'
    BY <1>7 DEF Pending, Kinds
  <2>3. \A w \in Elems(todo') : AddWrite(w, op'.flow, op'.hdl, a)
    BY <1>7, <1>8
  <2>4. \A v, w \in Elems(todo') : Ahead(todo', v, w) => AddOrder(v, w)
    BY <1>7
  <2>5. QED
    BY <1>1, <1>3, <1>5, <1>6, <1>8, <2>1, <2>2, <2>3, <2>4 DEF Adding
<1>13. CallInv'
  BY <1>1, <1>8, <1>12 DEF CallInv
<1>14. TableInv'
  BY <1>1, <1>2, <1>4, <1>8 DEF TableInv
<1>15. QueryInv'
  BY <1>1, <1>2, <1>8 DEF QueryInv, QuerySafe
<1>16. QED
  BY <1>9, <1>10, <1>11, <1>13, <1>14, <1>15 DEF IInv
LEMMA HandleLeads ==
    ASSUME TypeOK, NEW h \in Handles, tbl.valid
    PROVE  parse_rule_hdl(h) = ids[h]
BY Sizes DEF parse_rule_hdl, Handles, All

LEMMA DelKeeps ==
    ASSUME IInv, NEW f \in Flows, DelRule(f)
    PROVE  IInv'
<1> DEFINE e == parse_rule_hdl(held[f])
           s == post_del_dma_cmd(e) \o Cpu("sweep", 0, 0) \o Cpu("ids", held[f], 0)
<1>1. /\ up /\ held[f] # 0 /\ e # 0 /\ nat[e].on
      /\ op = NoCall /\ op' = [kind |-> "del", flow |-> f, hdl |-> held[f], ok |-> TRUE]
      /\ todo' = s
      /\ scene' = scene /\ nat' = nat /\ ids' = ids /\ tbl' = tbl /\ lock' = lock
      /\ held' = held /\ up' = up /\ q' = [q EXCEPT !.stale = @ \/ q.flow = f]
  BY DEF DelRule, Call, memory
<1>2. TypeOK /\ HandlesLead /\ HeldLead /\ TableInv /\ QueryInv
  BY DEF IInv
<1>3. op.kind = "none"
  BY <1>1 DEF NoCall
<1>4. held[f] \in Handles
  BY <1>1, <1>2 DEF TypeOK, Handles
<1>5. e = ids[held[f]] /\ e \in Handles /\ nat[e].flow = f
  <2>1. tbl.valid
    BY <1>1, <1>2, <1>3 DEF TableInv
  <2>2. e = ids[held[f]]
    BY <1>2, <1>4, <2>1, HandleLeads
  <2>3. QED
    BY <1>1, <1>2, <1>3, <1>4, <2>2 DEF TypeOK, Handles, HeldLead
<1>6. /\ IsSequence(todo')
      /\ \A w \in Elems(todo') : DelWrite(w, held[f], e)
      /\ \A v, w : Ahead(todo', v, w) => DelOrder(v, w)
      /\ \E w \in Elems(todo') : w.m = "ids"
  <2>1. LET t == post_del_dma_cmd(e) \o Cpu("sweep", 0, 0) \o Cpu("ids", held[f], 0)
        IN  /\ IsSequence(t)
            /\ \A w \in Elems(t) : DelWrite(w, held[f], e)
            /\ \A v, w : Ahead(t, v, w) => DelOrder(v, w)
            /\ \E w \in Elems(t) : w.m = "ids"
    BY DelList
  <2> HIDE DEF e
  <2>2. QED
    BY <1>1, <2>1
<1> HIDE DEF e, s
<1> PICK a \in Handles : a = e
  BY <1>5
<1> PICK h \in Handles : h = held[f]
  BY <1>4
<1>7. op'.kind = "del" /\ op'.flow = f /\ op'.hdl = h /\ op'.ok = TRUE /\ op' \in Calls
  BY <1>1 DEF Calls, Handles
<1>8. /\ q'.pc = q.pc /\ q'.flow = q.flow /\ q'.hdl = q.hdl /\ q'.at = q.at /\ q'.got = q.got
      /\ q'.stale = (q.stale \/ q.flow = f) /\ q' \in Queries
  BY <1>1, <1>2 DEF TypeOK, Queries
<1>9. TypeOK'
  BY <1>1, <1>2, <1>6, <1>7, <1>8 DEF TypeOK, IsNat, IsEntry
<1>10. HandlesLead'
  BY <1>1, <1>2, <1>3, <1>7 DEF HandlesLead
<1>11. HeldLead'
  BY <1>1, <1>2, <1>3, <1>7 DEF HeldLead
<1>12. Deleting(a)'
  <2>1. \A g \in Flows \ {f} : held[g] # h
    BY <1>1, <1>2, <1>3 DEF HeldLead
  <2>2. \A k \in Handles \ {h} : ids[k] # a
    BY <1>1, <1>2, <1>5 DEF HandlesLead
  <2>3. Pending("ids")'
    BY <1>6 DEF Pending, Kinds
  <2>4. \A w \in Elems(todo') : DelWrite(w, op'.hdl, a)
    BY <1>6, <1>7
  <2>5. \A v, w \in Elems(todo') : Ahead(todo', v, w) => DelOrder(v, w)
    BY <1>6
  <2>6. QED
    BY <1>1, <1>5, <1>7, <2>1, <2>2, <2>3, <2>4, <2>5 DEF Deleting
<1>13. CallInv'
  BY <1>1, <1>7, <1>12 DEF CallInv
<1>14. TableInv'
  BY <1>1, <1>2, <1>3, <1>7 DEF TableInv
<1>15. QueryInv'
  BY <1>1, <1>2, <1>7, <1>8 DEF QueryInv, QuerySafe
<1>16. QED
  BY <1>9, <1>10, <1>11, <1>13, <1>14, <1>15 DEF IInv

LEMMA OpenKeeps ==
    ASSUME IInv, add_ipv4_tbl
    PROVE  IInv'
<1>1. /\ ~up /\ op = NoCall /\ op' = [kind |-> "open", flow |-> Nothing, hdl |-> 0, ok |-> TRUE]
      /\ scene' = scene /\ nat' = nat /\ ids' = ids /\ tbl' = tbl /\ lock' = lock
      /\ held' = held /\ up' = up /\ q' = q
  BY DEF add_ipv4_tbl, Call, memory
<1>2. /\ OpenWrites(todo')
      /\ \E w \in Elems(todo') : w.m = "tbl" /\ w.at = "valid"
      /\ \E w \in Elems(todo') : w.m = "tbl" /\ w.at = "mapped"
      /\ tbl.ids \/ \E w \in Elems(todo') : w.m = "alloc"
  BY OpenList DEF add_ipv4_tbl, Call
<1>3. TypeOK /\ HandlesLead /\ HeldLead /\ TableInv /\ QueryInv
  BY DEF IInv
<1>4. op.kind = "none"
  BY <1>1 DEF NoCall
<1>5. op'.kind = "open" /\ op'.ok = TRUE /\ op' \in Calls
  BY <1>1, Sizes DEF Calls
<1>6. TypeOK'
  BY <1>1, <1>2, <1>3, <1>5 DEF TypeOK, IsNat, IsEntry, OpenWrites
<1>7. HandlesLead' /\ HeldLead'
  BY <1>1, <1>3, <1>4, <1>5 DEF HandlesLead, HeldLead
<1>8. Opening'
  BY <1>1, <1>2, <1>5 DEF Opening, OpenWrites, Pending, Kinds
<1>9. CallInv'
  BY <1>1, <1>5, <1>8 DEF CallInv
<1>10. TableInv'
  BY <1>1, <1>3, <1>4, <1>5 DEF TableInv
<1>11. QueryInv'
  BY <1>1, <1>3, <1>5 DEF QueryInv, QuerySafe
<1>12. QED
  BY <1>6, <1>7, <1>9, <1>10, <1>11 DEF IInv

LEMMA CloseKeeps ==
    ASSUME IInv, del_ipv4_table
    PROVE  IInv'
<1>1. /\ up /\ op = NoCall /\ op' = [kind |-> "close", flow |-> Nothing, hdl |-> 0, ok |-> TRUE]
      /\ scene' = scene /\ nat' = nat /\ ids' = ids /\ tbl' = tbl /\ lock' = lock
      /\ held' = held /\ up' = up /\ q' = [q EXCEPT !.stale = TRUE]
  BY DEF del_ipv4_table, Call, memory
<1>2. CloseWrites(todo') /\ \E w \in Elems(todo') : w.m = "forget"
  BY CloseList DEF del_ipv4_table, Call
<1>3. TypeOK /\ HandlesLead /\ HeldLead /\ TableInv /\ QueryInv
  BY DEF IInv
<1>4. op.kind = "none"
  BY <1>1 DEF NoCall
<1>5. op'.kind = "close" /\ op'.ok = TRUE /\ op' \in Calls
  BY <1>1, Sizes DEF Calls
<1>6. /\ q'.pc = q.pc /\ q'.hdl = q.hdl /\ q'.stale = TRUE /\ q' \in Queries
  BY <1>1, <1>3 DEF TypeOK, Queries
<1>7. TypeOK'
  BY <1>1, <1>2, <1>3, <1>5, <1>6 DEF TypeOK, IsNat, IsEntry, CloseWrites
<1>8. HandlesLead' /\ HeldLead'
  BY <1>1, <1>3, <1>4, <1>5 DEF HandlesLead, HeldLead
<1>9. Closing'
  BY <1>1, <1>2, <1>5 DEF Closing, CloseWrites, Pending, Kinds
<1>10. CallInv'
  BY <1>1, <1>5, <1>9 DEF CallInv
<1>11. TableInv'
  BY <1>1, <1>3, <1>4, <1>5 DEF TableInv
<1>12. QueryInv'
  BY <1>3, <1>6 DEF QueryInv, QuerySafe
<1>13. QED
  BY <1>7, <1>8, <1>10, <1>11, <1>12 DEF IInv
\* What every write leaves alone.
LEMMA WriteFrame ==
    ASSUME IInv, Write
    PROVE  LET w == Head(todo)
           IN  /\ todo # <<>> /\ Do(w) /\ todo' = Tail(todo)
               /\ scene' = scene /\ op' = op /\ held' = held /\ up' = up /\ q' = q
               /\ IsSequence(todo') /\ w \in Elems(todo)
               /\ Elems(todo) = {w} \cup Elems(todo')
               /\ \A v, u : Ahead(todo', v, u) => Ahead(todo, v, u)
               /\ \A u \in Elems(todo') : Ahead(todo, w, u)
<1>1. IsSequence(todo)
  BY DEF IInv, TypeOK
<1>2. QED
  BY <1>1, HeadAndTail DEF Write

LEMMA WriteAddKeeps ==
    ASSUME IInv, Write, op.kind = "add"
    PROVE  IInv'
<1> PICK w : w = Head(todo)
  OBVIOUS
<1>1. /\ todo # <<>> /\ Do(w)
      /\ scene' = scene /\ op' = op /\ held' = held /\ up' = up /\ q' = q
      /\ IsSequence(todo') /\ w \in Elems(todo)
      /\ Elems(todo) = {w} \cup Elems(todo')
      /\ \A v, u : Ahead(todo', v, u) => Ahead(todo, v, u)
      /\ \A u \in Elems(todo') : Ahead(todo, w, u)
  BY WriteFrame
<1>2. TypeOK /\ HandlesLead /\ HeldLead /\ TableInv /\ QueryInv
  BY DEF IInv
<1>3. PICK a \in Handles : Adding(a)
  BY DEF IInv, CallInv
<1>4. up
  BY DEF IInv, CallInv
<1> PICK h \in Handles : h = op.hdl
  BY <1>3 DEF Adding
<1> PICK f \in Flows : f = op.flow
  BY <1>3 DEF Adding
<1>5. op.ok
  BY <1>1, <1>3 DEF Adding
<1>6. /\ AddWrite(w, f, h, a)
      /\ \A u \in Elems(todo') : AddWrite(u, f, h, a) /\ AddOrder(w, u)
      /\ \A v, u \in Elems(todo') : Ahead(todo', v, u) => AddOrder(v, u)
  BY <1>1, <1>3 DEF Adding
<1>7. \A k \in Handles \ {h} : ids[k] # a
  BY <1>3 DEF Adding
<1>8. a \in All
  BY DEF Handles
\* The memory after the write: entry a and the handle may have changed.
<1>9. /\ IsNat(nat') /\ ids' \in [Handles -> All] /\ tbl' = tbl /\ lock' = lock
      /\ \A e \in All \ {a} : nat'[e].on = nat[e].on /\ nat'[e].flow = nat[e].flow
      /\ \A k \in Handles \ {h} : ids'[k] = ids[k]
      /\ w.m \notin {"nat", "on"} => nat'[a].on = nat[a].on
      /\ w.m # "nat" => nat'[a].flow = nat[a].flow
      /\ w.m = "nat" => nat'[a].flow = f
      /\ w.m = "on" => nat'[a].on
      /\ IF w.m = "ids" THEN ids'[h] = a ELSE ids' = ids
  <2>1. CASE w.m \in Links
    <3>1. w.m \notin {"nat", "on", "ids"}
      BY <2>1 DEF Links
    <3>2. QED
      BY <1>1, <1>2, <1>8, <2>1, <3>1, LinkStep DEF TypeOK
  <2>2. CASE w.m = "nat"
    <3>1. w.at = a /\ IsEntry(w.v) /\ w.v.flow = f
      BY <1>6, <2>2 DEF AddWrite
    <3>2. QED
      BY <1>1, <1>2, <1>8, <2>2, <3>1, RuleStep DEF TypeOK
  <2>3. CASE w.m = "on"
    <3>1. w.at = a /\ w.v = TRUE
      BY <1>6, <2>3 DEF AddWrite
    <3>2. /\ IsNat(nat')
          /\ \A e \in All \ {w.at} : nat'[e] = nat[e]
          /\ nat'[w.at].on = w.v /\ nat'[w.at].flow = nat[w.at].flow
          /\ ids' = ids /\ tbl' = tbl /\ lock' = lock
      BY <1>1, <1>2, <1>8, <2>3, <3>1, RuleStep
    <3>3. QED
      BY <1>2, <2>3, <3>1, <3>2 DEF TypeOK
  <2>4. CASE w.m = "ids"
    <3>1. w.at = h /\ w.v = a
      BY <1>6, <2>4 DEF AddWrite
    <3>2. /\ nat' = nat /\ tbl' = tbl /\ lock' = lock
          /\ ids' \in [Handles -> All] /\ ids'[h] = a
          /\ \A k \in Handles \ {h} : ids'[k] = ids[k]
      BY <1>1, <1>2, <1>8, <2>4, <3>1, HandleStep
    <3>3. QED
      BY <1>2, <2>4, <3>2 DEF TypeOK
  <2>5. QED
    BY <1>6, <2>1, <2>2, <2>3, <2>4 DEF AddWrite
<1>10. TypeOK'
  BY <1>1, <1>2, <1>9 DEF TypeOK
<1>11. HandlesLead'
  <2>1. \A k \in Handles : ids'[k] # 0 /\ k # h => nat'[ids'[k]].on /\ nat'[ids'[k]].flow \in Flows
    <3> SUFFICES ASSUME NEW k \in Handles, ids'[k] # 0, k # h
                 PROVE  nat'[ids'[k]].on /\ nat'[ids'[k]].flow \in Flows
      OBVIOUS
    <3>1. ids'[k] = ids[k] /\ ids[k] # a /\ ids[k] \in All
      BY <1>2, <1>7, <1>9 DEF TypeOK
    <3>2. nat[ids[k]].on /\ nat[ids[k]].flow \in Flows
      BY <1>2, <3>1 DEF HandlesLead
    <3>3. QED
      BY <1>9, <3>1, <3>2
  <2>2. \A k, l \in Handles : ids'[k] = ids'[l] /\ ids'[k] # 0 => k = l
    BY <1>2, <1>7, <1>9 DEF HandlesLead
  <2>3. QED
    BY <1>1, <2>1, <2>2 DEF HandlesLead
<1>12. HeldLead'
  <2> SUFFICES ASSUME NEW g \in Flows, held[g] # 0
               PROVE  ids'[held[g]] # 0 /\ nat'[ids'[held[g]]].on /\ nat'[ids'[held[g]]].flow = g
    BY <1>1 DEF HeldLead
  <2>1. ids[held[g]] # 0 /\ nat[ids[held[g]]].on /\ nat[ids[held[g]]].flow = g
    BY <1>2 DEF HeldLead
  <2>2. held[g] # h /\ held[g] \in Handles
    BY <1>2, <1>3 DEF Adding, TypeOK, Handles
  <2>3. ids'[held[g]] = ids[held[g]] /\ ids[held[g]] # a /\ ids[held[g]] \in All
    BY <1>2, <1>7, <1>9, <2>2 DEF TypeOK
  <2>4. QED
    BY <1>9, <2>1, <2>3
<1>13. Adding(a)'
  <2>1. /\ op'.flow \in Flows /\ op'.hdl \in Handles /\ held'[op'.flow] = 0
        /\ \A g \in Flows : held'[g] # op'.hdl
        /\ \A k \in Handles \ {op'.hdl} : ids'[k] # a
    BY <1>1, <1>3, <1>7, <1>9 DEF Adding
  <2>2. \A u \in Elems(todo') : AddWrite(u, op'.flow, op'.hdl, a)
    BY <1>1, <1>6
  <2>3. \A v, u \in Elems(todo') : Ahead(todo', v, u) => AddOrder(v, u)
    BY <1>6
  <2>4. \A what : Pending(what) <=> w.m = what \/ Pending(what)'
    BY <1>1 DEF Pending, Kinds
  <2>5. Pending("nat")' => Pending("on")'
    <3> SUFFICES ASSUME Pending("nat")' PROVE Pending("on")'
      OBVIOUS
    <3>1. w.m # "on"
      BY <1>6 DEF AddOrder, Pending, Kinds
    <3>2. QED
      BY <1>3, <2>4, <3>1 DEF Adding
  <2>6. w.m = "ids" => ~Pending("nat")' /\ ~Pending("on")' /\ ~Pending("ids")'
    BY <1>6 DEF AddOrder, Pending, Kinds
  <2>7. ids'[op'.hdl] \in {0, a}
    BY <1>1, <1>3, <1>9 DEF Adding
  <2>8. ids'[op'.hdl] = a => ~Pending("nat")' /\ ~Pending("on")' /\ ~Pending("ids")'
    BY <1>1, <1>3, <1>9, <2>4, <2>6 DEF Adding
  <2>9. ~Pending("nat")' => nat'[a].flow = op'.flow
    BY <1>1, <1>3, <1>5, <1>9, <2>4 DEF Adding
  <2>10. ~Pending("nat")' /\ ~Pending("on")' => nat'[a].on
    <3> SUFFICES ASSUME ~Pending("nat")', ~Pending("on")' PROVE nat'[a].on
      OBVIOUS
    <3>1. CASE w.m = "on"
      BY <1>9, <3>1
    <3>2. CASE w.m # "on"
      <4>1. ~Pending("on")
        BY <2>4, <3>2
      <4>2. ~Pending("nat") /\ w.m # "nat"
        BY <1>3, <2>4, <4>1 DEF Adding
      <4>3. QED
        BY <1>3, <1>5, <1>9, <3>2, <4>1, <4>2 DEF Adding
    <3>3. QED
      BY <3>1, <3>2
  <2>11. ~Pending("ids")' => ids'[op'.hdl] = a
    BY <1>1, <1>3, <1>5, <1>9, <2>4 DEF Adding
  <2>12. QED
    BY <1>1, <1>5, <2>1, <2>2, <2>3, <2>5, <2>7, <2>8, <2>9, <2>10, <2>11 DEF Adding
<1>14. CallInv'
  BY <1>1, <1>4, <1>13 DEF CallInv
<1>15. TableInv'
  BY <1>1, <1>2, <1>4, <1>9 DEF TableInv
<1>16. QueryInv'
  <2>1. q.pc = "read" /\ ~q.stale => ids'[q.hdl] = ids[q.hdl]
    <3> SUFFICES ASSUME q.pc = "read", ~q.stale PROVE ids'[q.hdl] = ids[q.hdl]
      OBVIOUS
    <3>1. q.flow \in Flows /\ held[q.flow] = q.hdl /\ q.hdl # 0
      BY <1>2 DEF QueryInv
    <3>2. q.hdl # h /\ q.hdl \in Handles
      BY <1>2, <1>3, <3>1 DEF Adding, TypeOK, Handles
    <3>3. QED
      BY <1>9, <3>2
  <2>2. QED
    BY <1>1, <1>2, <2>1 DEF QueryInv, QuerySafe
<1>17. QED
  BY <1>10, <1>11, <1>12, <1>14, <1>15, <1>16 DEF IInv
LEMMA WriteDelKeeps ==
    ASSUME IInv, Write, op.kind = "del"
    PROVE  IInv'
<1> PICK w : w = Head(todo)
  OBVIOUS
<1>1. /\ todo # <<>> /\ Do(w)
      /\ scene' = scene /\ op' = op /\ held' = held /\ up' = up /\ q' = q
      /\ IsSequence(todo') /\ w \in Elems(todo)
      /\ Elems(todo) = {w} \cup Elems(todo')
      /\ \A v, u : Ahead(todo', v, u) => Ahead(todo, v, u)
      /\ \A u \in Elems(todo') : Ahead(todo, w, u)
  BY WriteFrame
<1>2. TypeOK /\ HandlesLead /\ HeldLead /\ TableInv /\ QueryInv
  BY DEF IInv
<1>3. PICK a \in Handles : Deleting(a)
  BY DEF IInv, CallInv
<1>4. up
  BY DEF IInv, CallInv
<1> PICK h \in Handles : h = op.hdl
  BY <1>3 DEF Deleting
<1> PICK f \in Flows : f = op.flow
  BY <1>3 DEF Deleting
<1>5. op.ok
  BY <1>1, <1>3 DEF Deleting
<1>6. /\ DelWrite(w, h, a)
      /\ \A u \in Elems(todo') : DelWrite(u, h, a) /\ DelOrder(w, u)
      /\ \A v, u \in Elems(todo') : Ahead(todo', v, u) => DelOrder(v, u)
  BY <1>1, <1>3 DEF Deleting
<1>7. \A k \in Handles \ {h} : ids[k] # a
  BY <1>3 DEF Deleting
<1>8. a \in All /\ Dead \in Matched
  BY DEF Handles, Matched
\* The memory after the write: entry a and the handle may have changed, and heads that
\* were dead.
<1>9. /\ IsNat(nat') /\ ids' \in [Handles -> All] /\ tbl' = tbl /\ lock' = lock
      /\ \A e \in All \ {a} : nat[e].flow \in Flows =>
            nat'[e].on = nat[e].on /\ nat'[e].flow = nat[e].flow
      /\ \A k \in Handles \ {h} : ids'[k] = ids[k]
      /\ w.m \in Links => nat'[a].on = nat[a].on /\ nat'[a].flow = nat[a].flow
      /\ IF w.m = "ids" THEN ids'[h] = 0 ELSE ids' = ids
  <2>1. CASE w.m \in Links
    <3>1. w.m # "ids"
      BY <2>1 DEF Links
    <3>2. QED
      BY <1>1, <1>2, <1>8, <2>1, <3>1, LinkStep DEF TypeOK
  <2>2. CASE w.m \in {"nat", "on", "flow"}
    <3>1. /\ w.at = a
          /\ w.m = "nat" => w.v = Zero
          /\ w.m = "on" => w.v \in BOOLEAN
          /\ w.m = "flow" => w.v \in Matched
      BY <1>6, <1>8, <2>2 DEF DelWrite
    <3>2. /\ IsNat(nat')
          /\ \A e \in All \ {w.at} : nat'[e] = nat[e]
          /\ ids' = ids /\ tbl' = tbl /\ lock' = lock
      BY <1>1, <1>2, <1>8, <2>2, <3>1, RuleStep, ZeroIsEntry
    <3>3. w.m \notin Links
      BY <2>2 DEF Links
    <3>4. QED
      BY <1>2, <2>2, <3>1, <3>2, <3>3 DEF TypeOK
  <2>3. CASE w.m = "sweep"
    <3>1. w.m \notin Links
      BY <2>3 DEF Links
    <3>2. QED
      BY <1>1, <1>2, <2>3, <3>1, SweepStep DEF TypeOK
  <2>4. CASE w.m = "ids"
    <3>1. w.at = h /\ w.v = 0 /\ w.m \notin Links
      BY <1>6, <2>4 DEF DelWrite, Links
    <3>2. /\ nat' = nat /\ tbl' = tbl /\ lock' = lock
          /\ ids' \in [Handles -> All] /\ ids'[h] = 0
          /\ \A k \in Handles \ {h} : ids'[k] = ids[k]
      BY <1>1, <1>2, <2>4, <3>1, HandleStep, Sizes
    <3>3. QED
      BY <1>2, <2>4, <3>1, <3>2 DEF TypeOK
  <2>5. QED
    BY <1>6, <2>1, <2>2, <2>3, <2>4 DEF DelWrite
<1>10. TypeOK'
  BY <1>1, <1>2, <1>9 DEF TypeOK
<1>11. HandlesLead'
  <2>1. \A k \in Handles : ids'[k] # 0 /\ k # h => nat'[ids'[k]].on /\ nat'[ids'[k]].flow \in Flows
    <3> SUFFICES ASSUME NEW k \in Handles, ids'[k] # 0, k # h
                 PROVE  nat'[ids'[k]].on /\ nat'[ids'[k]].flow \in Flows
      OBVIOUS
    <3>1. ids'[k] = ids[k] /\ ids[k] # a /\ ids[k] \in All
      BY <1>2, <1>7, <1>9 DEF TypeOK
    <3>2. nat[ids[k]].on /\ nat[ids[k]].flow \in Flows
      BY <1>2, <3>1 DEF HandlesLead
    <3>3. QED
      BY <1>9, <3>1, <3>2
  <2>2. \A k, l \in Handles : ids'[k] = ids'[l] /\ ids'[k] # 0 => k = l
    BY <1>2, <1>7, <1>9 DEF HandlesLead
  <2>3. QED
    BY <1>1, <2>1, <2>2 DEF HandlesLead
<1>12. HeldLead'
  <2> SUFFICES ASSUME NEW g \in Flows, held[g] # 0, g # f
               PROVE  ids'[held[g]] # 0 /\ nat'[ids'[held[g]]].on /\ nat'[ids'[held[g]]].flow = g
    BY <1>1 DEF HeldLead
  <2>1. ids[held[g]] # 0 /\ nat[ids[held[g]]].on /\ nat[ids[held[g]]].flow = g
    BY <1>2 DEF HeldLead
  <2>2. held[g] # h /\ held[g] \in Handles
    BY <1>2, <1>3 DEF Deleting, TypeOK, Handles
  <2>3. ids'[held[g]] = ids[held[g]] /\ ids[held[g]] # a /\ ids[held[g]] \in All
    BY <1>2, <1>7, <1>9, <2>2 DEF TypeOK
  <2>4. QED
    BY <1>9, <2>1, <2>3
<1>13. Deleting(a)'
  <2>1. /\ op'.flow \in Flows /\ op'.hdl \in Handles /\ held'[op'.flow] = op'.hdl
        /\ \A g \in Flows \ {op'.flow} : held'[g] # op'.hdl
        /\ \A k \in Handles \ {op'.hdl} : ids'[k] # a
    BY <1>1, <1>3, <1>7, <1>9 DEF Deleting
  <2>2. \A u \in Elems(todo') : DelWrite(u, op'.hdl, a)
    BY <1>1, <1>6
  <2>3. \A v, u \in Elems(todo') : Ahead(todo', v, u) => DelOrder(v, u)
    BY <1>6
  <2>4. ids'[op'.hdl] \in {0, a}
    BY <1>1, <1>3, <1>9 DEF Deleting
  <2>5. (\E u \in Elems(todo') : u.fault # "none")
        => ids'[op'.hdl] = a /\ nat'[a].on /\ nat'[a].flow = op'.flow
    <3> SUFFICES ASSUME NEW u \in Elems(todo'), u.fault # "none"
                 PROVE  ids'[op'.hdl] = a /\ nat'[a].on /\ nat'[a].flow = op'.flow
      OBVIOUS
    <3>1. w.m \in Links
      BY <1>6 DEF DelOrder
    <3>2. w.m # "ids"
      BY <3>1 DEF Links
    <3>3. ids[op.hdl] = a /\ nat[a].on /\ nat[a].flow = op.flow
      BY <1>1, <1>3 DEF Deleting
    <3>4. QED
      BY <1>1, <1>9, <3>1, <3>2, <3>3
  <2>6. ~Pending("ids")' => ids'[op'.hdl] = 0
    <3>1. Pending("ids") <=> w.m = "ids" \/ Pending("ids")'
      BY <1>1 DEF Pending, Kinds
    <3>2. QED
      BY <1>1, <1>3, <1>5, <1>9, <3>1 DEF Deleting
  <2>7. QED
    BY <1>1, <1>5, <2>1, <2>2, <2>3, <2>4, <2>5, <2>6 DEF Deleting
<1>14. CallInv'
  BY <1>1, <1>4, <1>13 DEF CallInv
<1>15. TableInv'
  BY <1>1, <1>2, <1>4, <1>9 DEF TableInv
<1>16. QueryInv'
  <2>1. q.pc = "read" /\ ~q.stale => ids'[q.hdl] = ids[q.hdl]
    <3> SUFFICES ASSUME q.pc = "read", ~q.stale PROVE ids'[q.hdl] = ids[q.hdl]
      OBVIOUS
    <3>1. q.flow \in Flows /\ held[q.flow] = q.hdl /\ q.hdl # 0 /\ q.flow # f
      BY <1>2 DEF QueryInv
    <3>2. q.hdl # h /\ q.hdl \in Handles
      BY <1>2, <1>3, <3>1 DEF Deleting, TypeOK, Handles
    <3>3. QED
      BY <1>9, <3>2
  <2>2. QED
    BY <1>1, <1>2, <2>1 DEF QueryInv, QuerySafe
<1>17. QED
  BY <1>10, <1>11, <1>12, <1>14, <1>15, <1>16 DEF IInv

LEMMA WriteOpenKeeps ==
    ASSUME IInv, Write, op.kind = "open"
    PROVE  IInv'
<1> PICK w : w = Head(todo)
  OBVIOUS
<1>1. /\ todo # <<>> /\ Do(w)
      /\ scene' = scene /\ op' = op /\ held' = held /\ up' = up /\ q' = q
      /\ IsSequence(todo') /\ w \in Elems(todo)
      /\ Elems(todo) = {w} \cup Elems(todo')
  BY WriteFrame
<1>2. TypeOK /\ TableInv /\ QueryInv /\ Opening
  BY DEF IInv, CallInv
<1>3. /\ ~up /\ (\A f \in Flows : held[f] = 0) /\ (\A h \in Handles : ids[h] = 0)
  BY <1>2 DEF TableInv, Opening
<1>4. OpenWrite(w) /\ op.ok
  BY <1>1, <1>2 DEF Opening
<1>5. /\ IsNat(nat') /\ tbl' \in Tables /\ lock' = lock
      /\ ids' = ids \/ ids' = [h \in Handles |-> 0]
      /\ tbl.valid \/ (w.m = "tbl" /\ w.at = "valid") => tbl'.valid
      /\ tbl.mapped \/ (w.m = "tbl" /\ w.at = "mapped") => tbl'.mapped
      /\ tbl.ids \/ w.m = "alloc" => tbl'.ids
  BY <1>1, <1>2, <1>4, OpenStep
<1>6. ids' \in [Handles -> All] /\ \A h \in Handles : ids'[h] = 0
  BY <1>2, <1>3, <1>5, Sizes DEF TypeOK
<1>7. TypeOK'
  BY <1>1, <1>2, <1>5, <1>6 DEF TypeOK
<1>8. HandlesLead' /\ HeldLead'
  BY <1>1, <1>3, <1>6 DEF HandlesLead, HeldLead
<1>9. Opening'
  BY <1>1, <1>2, <1>4, <1>5 DEF Opening, Pending, Kinds
<1>10. CallInv'
  BY <1>1, <1>9 DEF CallInv
<1>11. TableInv'
  BY <1>1, <1>3, <1>6 DEF TableInv
<1>12. QueryInv'
  BY <1>1, <1>2, <1>3 DEF QueryInv, QuerySafe
<1>13. QED
  BY <1>7, <1>8, <1>10, <1>11, <1>12 DEF IInv

LEMMA WriteCloseKeeps ==
    ASSUME IInv, Write, op.kind = "close"
    PROVE  IInv'
<1> PICK w : w = Head(todo)
  OBVIOUS
<1>1. /\ todo # <<>> /\ Do(w)
      /\ scene' = scene /\ op' = op /\ held' = held /\ up' = up /\ q' = q
      /\ IsSequence(todo') /\ w \in Elems(todo)
      /\ Elems(todo) = {w} \cup Elems(todo')
  BY WriteFrame
<1>2. TypeOK /\ HandlesLead /\ QueryInv /\ Closing
  BY DEF IInv, CallInv
<1>3. CloseWrite(w) /\ up
  BY <1>1, <1>2 DEF Closing
<1>4. /\ nat' = nat /\ tbl' \in Tables /\ lock' \in {"free", "owner", "asker"}
      /\ IF w.m = "forget" THEN ids' = [h \in Handles |-> 0] ELSE ids' = ids
  BY <1>1, <1>2, <1>3, CloseStep
<1>5. /\ ids' \in [Handles -> All]
      /\ ids' = ids \/ \A h \in Handles : ids'[h] = 0
      /\ w.m = "forget" => \A h \in Handles : ids'[h] = 0
  BY <1>2, <1>4, Sizes DEF TypeOK
<1>6. TypeOK'
  BY <1>1, <1>2, <1>4, <1>5 DEF TypeOK, IsNat, IsEntry
<1>7. HandlesLead' /\ HeldLead'
  BY <1>1, <1>2, <1>4, <1>5 DEF HandlesLead, HeldLead
<1>8. Closing'
  BY <1>1, <1>2, <1>3, <1>4, <1>5 DEF Closing, Pending, Kinds
<1>9. CallInv'
  BY <1>1, <1>8 DEF CallInv
<1>10. TableInv'
  BY <1>1, <1>3 DEF TableInv
<1>11. QueryInv'
  BY <1>1, <1>2 DEF QueryInv, QuerySafe
<1>12. QED
  BY <1>6, <1>7, <1>9, <1>10, <1>11 DEF IInv

LEMMA WriteKeeps ==
    ASSUME IInv, Write
    PROVE  IInv'
<1>1. op.kind \in {"none", "add", "del", "open", "close"}
  BY DEF IInv, TypeOK, Calls
<1>2. op.kind # "none"
  BY DEF IInv, CallInv, Write
<1>3. QED
  BY <1>1, <1>2, WriteAddKeeps, WriteDelKeeps, WriteOpenKeeps, WriteCloseKeeps
\* A request that fails ends the call, or is passed over when it was for a link.
LEMMA FailKeeps ==
    ASSUME IInv, Fail
    PROVE  IInv'
<1> PICK w : w = Head(todo)
  OBVIOUS
<1>1. /\ todo # <<>> /\ w.fault # "none"
      /\ todo' = IF w.then = "abort" THEN <<>> ELSE Tail(todo)
      /\ op' = [op EXCEPT !.ok = w.then # "abort"]
      /\ scene' = scene /\ nat' = nat /\ ids' = ids /\ tbl' = tbl /\ lock' = lock
      /\ held' = held /\ up' = up /\ q' = q
  BY OtherNames DEF Fail, memory
<1>2. TypeOK /\ HandlesLead /\ HeldLead /\ TableInv /\ QueryInv /\ CallInv
  BY DEF IInv
<1>3. /\ IsSequence(Tail(todo)) /\ w \in Elems(todo)
      /\ Elems(todo) = {w} \cup Elems(Tail(todo))
      /\ \A v, u : Ahead(Tail(todo), v, u) => Ahead(todo, v, u)
  BY <1>1, <1>2, HeadAndTail DEF TypeOK
<1>4. /\ op'.kind = op.kind /\ op'.flow = op.flow /\ op'.hdl = op.hdl /\ op' \in Calls
      /\ op'.ok = (w.then # "abort")
  BY <1>1, <1>2 DEF TypeOK, Calls
<1>5. IsSequence(todo') /\ (w.then = "abort" => todo' = <<>>)
  BY <1>1, <1>3, NoWrites
<1>6. TypeOK'
  BY <1>1, <1>2, <1>4, <1>5 DEF TypeOK, IsNat, IsEntry
<1>7. HandlesLead' /\ HeldLead'
  BY <1>1, <1>2, <1>4 DEF HandlesLead, HeldLead
<1>8. CallInv'
  <2>1. op.kind \in {"none", "add", "del", "open", "close"}
    BY <1>2 DEF TypeOK, Calls
  <2>2. op.kind # "none"
    BY <1>1, <1>2 DEF CallInv
  <2>3. CASE op.kind = "add"
    <3>1. PICK a \in Handles : Adding(a)
      BY <1>2, <2>3 DEF CallInv
    <3>2. up
      BY <1>2, <2>3 DEF CallInv
    <3>3. /\ op.ok
          /\ IF w.then = "abort" THEN w.m = "on" ELSE w.m \in Links
      BY <1>1, <1>3, <3>1 DEF Adding, AddWrite
    <3>4. CASE w.then = "abort"
      <4>1. todo' = <<>> /\ ~op'.ok
        BY <1>4, <1>5, <3>4
      <4>2. Pending("on")
        BY <1>3, <3>3, <3>4 DEF Pending, Kinds
      <4>3. ids[op.hdl] = 0
        BY <3>1, <4>2 DEF Adding
      <4>4. /\ \A what : ~Pending(what)'
            /\ Elems(todo') = {}
        BY <4>1, NoWrites DEF Pending, Kinds
      <4>5. Adding(a)'
        BY <1>1, <1>4, <3>1, <4>1, <4>3, <4>4 DEF Adding
      <4>6. QED
        BY <1>1, <1>4, <2>3, <3>2, <4>5 DEF CallInv
    <3>5. CASE w.then # "abort"
      <4>1. todo' = Tail(todo) /\ op'.ok
        BY <1>1, <1>4, <3>5
      <4>2. w.m \notin {"nat", "on", "ids"}
        BY <3>3, <3>5 DEF Links
      <4>3. \A what \in {"nat", "on", "ids"} : Pending(what)' <=> Pending(what)
        BY <1>3, <4>1, <4>2 DEF Pending, Kinds
      <4>4. /\ \A u \in Elems(todo') : AddWrite(u, op'.flow, op'.hdl, a)
            /\ \A v, u \in Elems(todo') : Ahead(todo', v, u) => AddOrder(v, u)
        BY <1>3, <1>4, <3>1, <4>1 DEF Adding
      <4>5. Adding(a)'
        BY <1>1, <1>4, <3>1, <3>3, <4>1, <4>3, <4>4 DEF Adding
      <4>6. QED
        BY <1>1, <1>4, <2>3, <3>2, <4>5 DEF CallInv
    <3>6. QED
      BY <3>4, <3>5
  <2>4. CASE op.kind = "del"
    <3>1. PICK e \in Handles : Deleting(e)
      BY <1>2, <2>4 DEF CallInv
    <3>2. up
      BY <1>2, <2>4 DEF CallInv
    <3>3. /\ w.then = "abort"
          /\ ids[op.hdl] = e /\ nat[e].on /\ nat[e].flow = op.flow
      BY <1>1, <1>3, <3>1 DEF Deleting, DelWrite
    <3>4. todo' = <<>> /\ ~op'.ok /\ Elems(todo') = {}
      BY <1>4, <1>5, <3>3, NoWrites
    <3>5. Deleting(e)'
      BY <1>1, <1>4, <3>1, <3>3, <3>4 DEF Deleting
    <3>6. QED
      BY <1>1, <1>4, <2>4, <3>2, <3>5 DEF CallInv
  <2>5. CASE op.kind = "open"
    <3>1. Opening /\ w.then = "abort"
      BY <1>1, <1>2, <1>3, <2>5 DEF CallInv, Opening, OpenWrite
    <3>2. todo' = <<>> /\ ~op'.ok /\ Elems(todo') = {}
      BY <1>4, <1>5, <3>1, NoWrites
    <3>3. Opening'
      BY <1>1, <3>1, <3>2 DEF Opening
    <3>4. QED
      BY <1>4, <2>5, <3>3 DEF CallInv
  <2>6. op.kind # "close"
    BY <1>1, <1>2, <1>3 DEF CallInv, Closing, CloseWrite
  <2>7. QED
    BY <2>1, <2>2, <2>3, <2>4, <2>5, <2>6
<1>9. TableInv' /\ QueryInv'
  BY <1>1, <1>2, <1>4 DEF TableInv, QueryInv, QuerySafe
<1>10. QED
  BY <1>6, <1>7, <1>8, <1>9 DEF IInv

LEMMA ReturnKeeps ==
    ASSUME IInv, Return
    PROVE  IInv'
<1>1. /\ op # NoCall /\ todo = <<>> /\ op' = NoCall
      /\ scene' = scene /\ nat' = nat /\ ids' = ids /\ tbl' = tbl /\ lock' = lock
      /\ todo' = todo /\ q' = q
  BY DEF Return, memory
<1>2. TypeOK /\ HandlesLead /\ HeldLead /\ TableInv /\ QueryInv /\ CallInv
  BY DEF IInv
<1>3. op'.kind = "none" /\ op' \in Calls
  BY <1>1, Sizes DEF NoCall, Calls
<1>4. CallInv'
  BY <1>1, <1>3 DEF CallInv, NoCall
<1>5. Elems(todo) = {} /\ \A what : ~Pending(what)
  BY <1>1, NoWrites DEF Pending, Kinds
<1>6. op.kind \in {"none", "add", "del", "open", "close"} /\ op.kind # "none"
  BY <1>1, <1>2 DEF TypeOK, Calls, CallInv
<1>7. CASE op.kind = "add"
  <2>1. PICK a \in Handles : Adding(a)
    BY <1>2, <1>7 DEF CallInv
  <2>2. up /\ up' = up
    BY <1>2, <1>7 DEF CallInv, Return
  <2>3. CASE op.ok
    <3>1. held' = [held EXCEPT ![op.flow] = op.hdl]
      BY <1>7, <2>3 DEF Return
    <3>2. /\ op.flow \in Flows /\ op.hdl \in Handles /\ held[op.flow] = 0
          /\ ids[op.hdl] = a /\ nat[a].on /\ nat[a].flow = op.flow
      BY <1>5, <2>1, <2>3 DEF Adding
    <3>3. held' \in [Flows -> All] /\ TypeOK'
      BY <1>1, <1>2, <1>3, <2>2, <3>1, <3>2 DEF TypeOK, IsNat, IsEntry, Handles
    <3>4. HandlesLead'
      BY <1>1, <1>2, <1>3, <3>2 DEF HandlesLead
    <3>5. HeldLead'
      BY <1>1, <1>2, <1>3, <1>7, <3>1, <3>2 DEF HeldLead, TypeOK, Handles
    <3>6. TableInv'
      BY <1>1, <1>2, <1>3, <1>7, <2>2 DEF TableInv
    <3>7. QueryInv'
      BY <1>1, <1>2, <1>3, <1>7, <3>1, <3>2 DEF QueryInv, QuerySafe, TypeOK
    <3>8. QED
      BY <1>4, <3>3, <3>4, <3>5, <3>6, <3>7 DEF IInv
  <2>4. CASE ~op.ok
    <3>1. held' = held
      BY <1>7, <2>4 DEF Return
    <3>2. ids[op.hdl] = 0
      BY <2>1, <2>4 DEF Adding
    <3>3. TypeOK'
      BY <1>1, <1>2, <1>3, <2>2, <3>1 DEF TypeOK, IsNat, IsEntry
    <3>4. HandlesLead' /\ HeldLead'
      BY <1>1, <1>2, <1>3, <1>7, <3>1, <3>2 DEF HandlesLead, HeldLead
    <3>5. TableInv' /\ QueryInv'
      BY <1>1, <1>2, <1>3, <1>7, <2>2, <3>1 DEF TableInv, QueryInv, QuerySafe
    <3>6. QED
      BY <1>4, <3>3, <3>4, <3>5 DEF IInv
  <2>5. QED
    BY <2>3, <2>4
<1>8. CASE op.kind = "del"
  <2>1. PICK e \in Handles : Deleting(e)
    BY <1>2, <1>8 DEF CallInv
  <2>2. up /\ up' = up
    BY <1>2, <1>8 DEF CallInv, Return
  <2>3. CASE op.ok
    <3>1. held' = [held EXCEPT ![op.flow] = 0]
      BY <1>8, <2>3 DEF Return
    <3>2. op.flow \in Flows /\ op.hdl \in Handles /\ held[op.flow] = op.hdl /\ ids[op.hdl] = 0
      BY <1>5, <2>1, <2>3 DEF Deleting
    <3>3. held' \in [Flows -> All] /\ TypeOK'
      BY <1>1, <1>2, <1>3, <2>2, <3>1, Sizes DEF TypeOK, IsNat, IsEntry
    <3>4. HandlesLead'
      BY <1>1, <1>2, <1>3, <3>2 DEF HandlesLead
    <3>5. HeldLead'
      BY <1>1, <1>2, <1>3, <1>8, <3>1, <3>2 DEF HeldLead, TypeOK
    <3>6. TableInv'
      BY <1>1, <1>2, <1>3, <1>8, <2>2 DEF TableInv
    <3>7. QueryInv'
      BY <1>1, <1>2, <1>3, <1>8, <3>1, <3>2 DEF QueryInv, QuerySafe, TypeOK
    <3>8. QED
      BY <1>4, <3>3, <3>4, <3>5, <3>6, <3>7 DEF IInv
  <2>4. CASE ~op.ok
    <3>1. held' = held
      BY <1>8, <2>4 DEF Return
    <3>2. /\ op.flow \in Flows /\ op.hdl \in Handles /\ held[op.flow] = op.hdl
          /\ ids[op.hdl] = e /\ nat[e].on /\ nat[e].flow = op.flow
      BY <2>1, <2>4 DEF Deleting
    <3>3. TypeOK'
      BY <1>1, <1>2, <1>3, <2>2, <3>1 DEF TypeOK, IsNat, IsEntry
    <3>4. HandlesLead' /\ HeldLead'
      BY <1>1, <1>2, <1>3, <1>8, <3>1, <3>2 DEF HandlesLead, HeldLead, Handles
    <3>5. TableInv' /\ QueryInv'
      BY <1>1, <1>2, <1>3, <1>8, <2>2, <3>1 DEF TableInv, QueryInv, QuerySafe
    <3>6. QED
      BY <1>4, <3>3, <3>4, <3>5 DEF IInv
  <2>5. QED
    BY <2>3, <2>4
<1>9. CASE op.kind = "open"
  <2>1. held' = held /\ up' = op.ok
    BY <1>9 DEF Return
  <2>2. ~up /\ (op.ok => tbl.valid /\ tbl.mapped /\ tbl.ids)
    BY <1>2, <1>5, <1>9 DEF CallInv, Opening
  <2>3. (\A f \in Flows : held[f] = 0) /\ (\A h \in Handles : ids[h] = 0)
    BY <1>2, <2>2 DEF TableInv
  <2>4. op.ok \in BOOLEAN
    BY <1>2 DEF TypeOK, Calls
  <2>5. TypeOK'
    BY <1>1, <1>2, <1>3, <2>1, <2>4 DEF TypeOK, IsNat, IsEntry
  <2>6. HandlesLead' /\ HeldLead'
    BY <1>1, <2>1, <2>3 DEF HandlesLead, HeldLead
  <2>7. TableInv'
    BY <1>1, <1>3, <2>1, <2>2, <2>3 DEF TableInv
  <2>8. QueryInv'
    BY <1>1, <1>2, <1>3, <1>9, <2>1 DEF QueryInv, QuerySafe
  <2>9. QED
    BY <1>4, <2>5, <2>6, <2>7, <2>8 DEF IInv
<1>10. CASE op.kind = "close"
  <2>1. held' = [f \in Flows |-> 0] /\ up' = FALSE
    BY <1>10 DEF Return
  <2>2. \A h \in Handles : ids[h] = 0
    BY <1>2, <1>5, <1>10 DEF CallInv, Closing
  <2>3. TypeOK'
    BY <1>1, <1>2, <1>3, <2>1, Sizes DEF TypeOK, IsNat, IsEntry
  <2>4. HandlesLead' /\ HeldLead'
    BY <1>1, <2>1, <2>2 DEF HandlesLead, HeldLead
  <2>5. TableInv'
    BY <1>1, <2>1, <2>2 DEF TableInv
  <2>6. QueryInv'
    BY <1>1, <1>2, <1>10 DEF QueryInv, QuerySafe
  <2>7. QED
    BY <1>4, <2>3, <2>4, <2>5, <2>6 DEF IInv
<1>11. QED
  BY <1>6, <1>7, <1>8, <1>9, <1>10
-----------------------------------------------------------------------------
(* The time stamp thread keeps the invariant.                              *)

LEMMA AskerFrame ==
    ASSUME IInv, UNCHANGED <<scene, memory, tbl, op, todo, held, up>>,
           lock' \in {"free", "owner", "asker"}, q' \in Queries, QueryInv'
    PROVE  IInv'
<1>1. /\ scene' = scene /\ nat' = nat /\ ids' = ids /\ tbl' = tbl /\ op' = op /\ todo' = todo
      /\ held' = held /\ up' = up
  BY DEF memory
<1>2. TypeOK'
  BY <1>1 DEF IInv, TypeOK, IsNat, IsEntry
<1>3. HandlesLead' /\ HeldLead' /\ TableInv'
  BY <1>1 DEF IInv, HandlesLead, HeldLead, TableInv
<1>4. CallInv'
  BY <1>1 DEF IInv, CallInv, Adding, Deleting, Opening, Closing, Pending
<1>5. QED
  BY <1>2, <1>3, <1>4 DEF IInv

\* As long as the call is not made stale there is a table, with all its parts, and the
\* handle leads to the rule of the connection.
LEMMA FreshAsker ==
    ASSUME IInv, q.pc \in {"valid", "lock", "parse", "read"}, ~q.stale
    PROVE  /\ q.flow \in Flows /\ q.hdl \in Handles
           /\ tbl.valid /\ tbl.ids /\ tbl.mapped
           /\ ids[q.hdl] # 0 /\ nat[ids[q.hdl]].flow = q.flow
           /\ q.pc = "read" => q.at = ids[q.hdl]
<1>1. /\ q.flow \in Flows /\ held[q.flow] = q.hdl /\ q.hdl # 0
      /\ op.kind # "close" /\ ~(op.kind = "del" /\ op.flow = q.flow)
      /\ q.pc = "read" => q.at = ids[q.hdl]
  BY DEF IInv, QueryInv
<1>2. up
  BY <1>1 DEF IInv, TableInv
<1>3. q.hdl \in Handles
  BY <1>1 DEF IInv, TypeOK, Handles
<1>4. QED
  BY <1>1, <1>2, <1>3 DEF IInv, TableInv, HeldLead

LEMMA AskKeeps ==
    ASSUME IInv, NEW f \in Flows, Ask(f)
    PROVE  IInv'
<1> DEFINE stale == op.kind = "close" \/ (op.kind = "del" /\ op.flow = f)
<1>1. /\ held[f] # 0 /\ lock' = lock
      /\ q' = [NoQuery EXCEPT !.pc = "valid", !.flow = f, !.hdl = held[f], !.stale = stale]
      /\ UNCHANGED <<scene, memory, tbl, op, todo, held, up>>
  BY DEF Ask, Query
<1>2. TypeOK
  BY DEF IInv
<1>3. stale \in BOOLEAN
  OBVIOUS
<1> HIDE DEF stale
<1>4. q' = [pc |-> "valid", flow |-> f, hdl |-> held[f], at |-> 0, got |-> Nothing, stale |-> stale]
  BY <1>1 DEF NoQuery
<1>5. q' \in Queries
  BY <1>2, <1>3, <1>4, Sizes DEF TypeOK, Queries, Matched
<1>6. QueryInv'
  BY <1>1, <1>4 DEF QueryInv, QuerySafe, stale
<1>7. QED
  BY <1>1, <1>2, <1>5, <1>6, AskerFrame DEF TypeOK

LEMMA QueryValidKeeps ==
    ASSUME IInv, QueryValid
    PROVE  IInv'
<1>1. /\ q.pc = "valid" /\ lock' = lock
      /\ q' = [q EXCEPT !.pc = "lock"] \/ q' = NoQuery
      /\ UNCHANGED <<scene, memory, tbl, op, todo, held, up>>
  BY DEF QueryValid, Query
<1>2. TypeOK /\ QueryInv
  BY DEF IInv
<1>3. q' \in Queries
  <2>1. NoQuery \in Queries
    BY Sizes DEF NoQuery, Queries, Matched
  <2>2. [q EXCEPT !.pc = "lock"] \in Queries
    BY <1>2 DEF TypeOK, Queries
  <2>3. QED
    BY <1>1, <2>1, <2>2
<1>4. QueryInv'
  BY <1>1, <1>2 DEF QueryInv, QuerySafe, NoQuery, TypeOK, Queries, memory
<1>5. QED
  BY <1>1, <1>2, <1>3, <1>4, AskerFrame DEF TypeOK

LEMMA QueryLockKeeps ==
    ASSUME IInv, QueryLock
    PROVE  IInv'
<1>1. /\ q.pc = "lock" /\ lock' = "asker"
      /\ q' = [q EXCEPT !.pc = "parse"]
      /\ UNCHANGED <<scene, memory, tbl, op, todo, held, up>>
  BY DEF QueryLock, Query
<1>2. TypeOK /\ QueryInv
  BY DEF IInv
<1>3. q' \in Queries
  BY <1>1, <1>2 DEF TypeOK, Queries
<1>4. QueryInv'
  BY <1>1, <1>2 DEF QueryInv, QuerySafe, TypeOK, Queries, memory
<1>5. QED
  BY <1>1, <1>3, <1>4, AskerFrame

LEMMA QueryParseKeeps ==
    ASSUME IInv, QueryParse
    PROVE  IInv'
<1> DEFINE at == parse_rule_hdl(q.hdl)
<1>1. /\ q.pc = "parse" /\ lock' = lock
      /\ IF tbl.valid /\ ~tbl.ids THEN q' = [q EXCEPT !.pc = "wild"]
         ELSE q' = [q EXCEPT !.at = at, !.pc = "read"]
      /\ UNCHANGED <<scene, memory, tbl, op, todo, held, up>>
  BY DEF QueryParse, Query
<1>2. TypeOK /\ QueryInv
  BY DEF IInv
<1>3. q.hdl \in Handles
  BY <1>1, <1>2 DEF QueryInv, TypeOK, Queries, Handles
<1>4. at \in All
  BY <1>2, <1>3, Sizes DEF parse_rule_hdl, TypeOK
<1>5. ~q.stale => tbl.valid /\ tbl.ids /\ at = ids[q.hdl]
  BY <1>1, <1>2, <1>3, FreshAsker, HandleLeads
<1> HIDE DEF at
<1>6. q \in Queries
  BY <1>2 DEF TypeOK
<1>7. q' \in Queries
  BY <1>1, <1>4, <1>6 DEF Queries
<1>8. held' = held /\ op' = op /\ ids' = ids
  BY <1>1 DEF memory
<1>9. QueryInv'
  <2>1. CASE tbl.valid /\ ~tbl.ids
    BY <1>1, <1>5, <1>6, <2>1 DEF QueryInv, QuerySafe, Queries
  <2>2. CASE ~(tbl.valid /\ ~tbl.ids)
    <3>1. /\ q'.pc = "read" /\ q'.at = at /\ q'.hdl = q.hdl /\ q'.flow = q.flow
          /\ q'.stale = q.stale
      BY <1>1, <1>6, <2>2 DEF Queries
    <3>2. QED
      BY <1>1, <1>2, <1>5, <1>8, <3>1 DEF QueryInv, QuerySafe
  <2>3. QED
    BY <2>1, <2>2
<1>10. QED
  BY <1>1, <1>2, <1>7, <1>9, AskerFrame DEF TypeOK

LEMMA QueryReadKeeps ==
    ASSUME IInv, QueryRead
    PROVE  IInv'
<1> DEFINE pc == IF tbl.valid /\ ~tbl.mapped THEN "wild" ELSE "done"
           got == IF tbl.mapped THEN nat[q.at].flow ELSE Nothing
<1>1. /\ q.pc = "read" /\ lock' = "free"
      /\ q' = [q EXCEPT !.pc = pc, !.got = got]
      /\ UNCHANGED <<scene, memory, tbl, op, todo, held, up>>
  BY DEF QueryRead, Query
<1>2. TypeOK
  BY DEF IInv
<1>3. pc \in {"wild", "done"} /\ got \in Matched
  BY <1>2 DEF TypeOK, Queries, IsNat, IsEntry, Matched
<1>4. ~q.stale => pc = "done" /\ got = q.flow
  BY <1>1, FreshAsker
<1> HIDE DEF pc, got
<1>5. /\ q'.pc = pc /\ q'.got = got /\ q'.flow = q.flow /\ q'.stale = q.stale
      /\ q' \in Queries
  BY <1>1, <1>2, <1>3 DEF TypeOK, Queries
<1>6. QueryInv'
  BY <1>3, <1>4, <1>5 DEF QueryInv, QuerySafe
<1>7. QED
  BY <1>1, <1>5, <1>6, AskerFrame

LEMMA QueryDoneKeeps ==
    ASSUME IInv, QueryDone
    PROVE  IInv'
<1>1. q' = NoQuery /\ lock' = lock /\ UNCHANGED <<scene, memory, tbl, op, todo, held, up>>
  BY DEF QueryDone, Query
<1>2. TypeOK
  BY DEF IInv
<1>3. q' \in Queries /\ QueryInv'
  BY <1>1, Sizes DEF NoQuery, Queries, Matched, QueryInv, QuerySafe
<1>4. QED
  BY <1>1, <1>2, <1>3, AskerFrame DEF TypeOK

-----------------------------------------------------------------------------
(* The theorems.                                                           *)

LEMMA InitInv == Init => IInv
<1> SUFFICES ASSUME Init PROVE IInv
  OBVIOUS
<1>1. /\ op.kind = "none" /\ op = NoCall /\ todo = <<>> /\ q.pc = "idle" /\ up = FALSE
      /\ held = [f \in Flows |-> 0] /\ ids = [h \in Handles |-> 0]
  BY DEF Init, NoCall, NoQuery, Handles
<1>2. TypeOK
  <2>1. IsNat(nat)
    BY ZeroIsEntry DEF Init, IsNat
  <2>2. op \in Calls /\ q \in Queries /\ tbl \in Tables
    BY Sizes DEF Init, NoCall, NoQuery, NoTable, Calls, Queries, Tables, Matched
  <2>3. QED
    BY <1>1, <2>1, <2>2, Sizes, NoWrites DEF Init, TypeOK
<1>3. HandlesLead /\ HeldLead /\ TableInv
  BY <1>1 DEF HandlesLead, HeldLead, TableInv
<1>4. CallInv /\ QueryInv
  BY <1>1 DEF CallInv, QueryInv, QuerySafe
<1>5. QED
  BY <1>2, <1>3, <1>4 DEF IInv

LEMMA NextInv == IInv /\ [Next]_vars => IInv'
<1> SUFFICES ASSUME IInv, [Next]_vars PROVE IInv'
  OBVIOUS
<1>1. CASE Caller
  BY <1>1, AddKeeps, DelKeeps, OpenKeeps, CloseKeeps DEF Caller
<1>2. CASE Write
  BY <1>2, WriteKeeps
<1>3. CASE Fail
  BY <1>3, FailKeeps
<1>4. CASE Return
  BY <1>4, ReturnKeeps
<1>5. CASE Asker
  BY <1>5, AskKeeps, QueryValidKeeps, QueryLockKeeps, QueryParseKeeps, QueryReadKeeps,
     QueryDoneKeeps DEF Asker
<1>6. CASE UNCHANGED vars
  <2>1. /\ UNCHANGED <<scene, memory, tbl, op, todo, held, up>>
        /\ lock' = lock /\ q' = q /\ ids' = ids /\ held' = held /\ op' = op
    BY <1>6 DEF vars, memory
  <2>2. q' \in Queries /\ lock' \in {"free", "owner", "asker"}
    BY <2>1 DEF IInv, TypeOK
  <2>3. QueryInv'
    BY <2>1 DEF IInv, QueryInv, QuerySafe
  <2>4. QED
    BY <2>1, <2>2, <2>3, AskerFrame
<1>7. QED
  BY <1>1, <1>2, <1>3, <1>4, <1>5, <1>6 DEF Next

\* The whole invariant, which the others follow from.
THEOREM InvCorrect == Spec => []IInv
<1>1. QED
  BY InitInv, NextInv, PTL DEF Spec

\* ipa_nati_query_timestamp reads no table that has gone, and reads the entry of the
\* connection it was asked about, unless this was deleted in the meantime: for every size
\* of the tables, every hash of the connections, and whichever requests of the driver fail.
THEOREM QueriesSafe == Spec => []QuerySafe
<1>1. IInv => QuerySafe
  BY DEF IInv, QueryInv
<1>2. QED
  BY <1>1, InvCorrect, PTL

\* Between calls every handle that the caller was given leads to an enabled rule of its own
\* connection, no two connections share one, and a table deleted leaves no handle behind:
\* also after calls that failed half way.
HandlesRight ==
    op = NoCall =>
      /\ \A f \in Flows : held[f] # 0 =>
            up /\ ids[held[f]] # 0 /\ nat[ids[held[f]]].on /\ nat[ids[held[f]]].flow = f
      /\ \A f, g \in Flows : held[f] = held[g] /\ held[f] # 0 => f = g

THEOREM HandlesCorrect == Spec => []HandlesRight
<1>1. IInv => HandlesRight
  <2> SUFFICES ASSUME IInv, op = NoCall
               PROVE  /\ \A f \in Flows : held[f] # 0 =>
                            /\ up /\ ids[held[f]] # 0
                            /\ nat[ids[held[f]]].on /\ nat[ids[held[f]]].flow = f
                      /\ \A f, g \in Flows : held[f] = held[g] /\ held[f] # 0 => f = g
    BY DEF HandlesRight
  <2>1. op.kind = "none"
    BY DEF NoCall
  <2>2. QED
    BY <2>1 DEF IInv, HeldLead, TableInv
<1>2. QED
  BY <1>1, InvCorrect, PTL

-----------------------------------------------------------------------------
(* Chains.  Chain(table, b) is what next leads to from b on, in no more steps *)
(* than there are expansion entries.                                       *)

IsTable(table) == \A e \in All : table[e].next \in All

\* Entry 0 and the first expansion entry are in no list.
Usable == All \ {0, table_entries}

Further(table, set) == UNION {{e, table[e].next} : e \in set}
IsUpto(f, last, table, b) ==
    f = [k \in 0 .. last |-> IF k = 0 THEN {b} ELSE Further(table, f[k - 1])]

LEMMA UptoExists ==
    ASSUME NEW max \in Nat, NEW table, NEW b
    PROVE  \E f : IsUpto(f, max, table, b)
<1> DEFINE P(k) == \E f : IsUpto(f, k, table, b)
           T == {k \in 0 .. max : ~P(k)}
<1>1. P(0)
  <2> DEFINE f == [k \in 0 .. 0 |-> {b}]
  <2>1. f = [k \in 0 .. 0 |-> IF k = 0 THEN {b} ELSE Further(table, f[k - 1])]
    OBVIOUS
  <2>2. IsUpto(f, 0, table, b)
    BY <2>1 DEF IsUpto
  <2>3. QED
    BY <2>2
<1>2. ASSUME NEW k \in Nat, P(k)
      PROVE  P(k + 1)
  <2>1. PICK f : IsUpto(f, k, table, b)
    BY <1>2
  <2> DEFINE next == Further(table, f[k])
             g == [j \in 0 .. k + 1 |-> IF j = k + 1 THEN next ELSE f[j]]
  <2>2. \A j \in 0 .. k : f[j] = IF j = 0 THEN {b} ELSE Further(table, f[j - 1])
    BY <2>1 DEF IsUpto
  <2>3. \A j \in 0 .. k : g[j] = f[j]
    OBVIOUS
  <2>4. g[k + 1] = next
    OBVIOUS
  <2>5. g = [j \in 0 .. k + 1 |-> g[j]]
    OBVIOUS
  <2>6. next = Further(table, f[k])
    OBVIOUS
  <2> HIDE DEF g, next
  <2>7. ASSUME NEW j \in 0 .. k + 1
        PROVE  g[j] = IF j = 0 THEN {b} ELSE Further(table, g[j - 1])
    <3>1. CASE j = k + 1
      <4>1. j # 0 /\ j - 1 = k /\ g[k] = f[k]
        BY <2>3, <3>1
      <4>2. QED
        BY <2>4, <2>6, <3>1, <4>1
    <3>2. CASE j # k + 1
      <4>1. j \in 0 .. k /\ (j # 0 => j - 1 \in 0 .. k)
        BY <3>2
      <4>2. j # 0 => g[j - 1] = f[j - 1]
        BY <2>3, <4>1
      <4>3. QED
        BY <2>2, <2>3, <4>1, <4>2
    <3>3. QED
      BY <3>1, <3>2
  <2>8. IsUpto(g, k + 1, table, b)
    BY <2>5, <2>7 DEF IsUpto
  <2>9. QED
    BY <2>8
<1> HIDE DEF P
<1>3. ASSUME T # {} PROVE FALSE
  <2>0. T \in SUBSET Nat
    OBVIOUS
  <2>1. PICK k \in T : \A j \in T : k <= j
    <3> HIDE DEF T
    <3>1. QED
      BY <1>3, <2>0, Least
  <2>2. \A j \in T : ~(j < k)
    BY <2>1
  <2>3. k # 0 /\ k - 1 \in 0 .. max /\ k \in 0 .. max /\ ~P(k)
    BY <1>1
  <2>4. P(k - 1)
    BY <2>2, <2>3
  <2>5. P((k - 1) + 1)
    BY <1>2, <2>3, <2>4
  <2>6. QED
    BY <2>3, <2>5
<1>4. QED
  BY <1>3 DEF P

\* The sets along the way.
Reaches(f, table, b) ==
    /\ Chain(table, b) = f[expn_table_entries] \ {0}
    /\ f[0] = {b}
    /\ \A k \in 1 .. expn_table_entries : f[k] = Further(table, f[k - 1])

LEMMA ChainSteps ==
    ASSUME NEW table, NEW b
    PROVE  \E f : Reaches(f, table, b)
<1> DEFINE f == CHOOSE f : IsUpto(f, expn_table_entries, table, b)
<1>1. Chain(table, b) = f[expn_table_entries] \ {0}
  BY DEF Chain, IsUpto, Further
<1>2. IsUpto(f, expn_table_entries, table, b)
  BY UptoExists, Sizes
<1> HIDE DEF f
<1>3. \A k \in 0 .. expn_table_entries :
         f[k] = IF k = 0 THEN {b} ELSE Further(table, f[k - 1])
  BY <1>2 DEF IsUpto
<1>4. f[0] = {b} /\ \A k \in 1 .. expn_table_entries : f[k] = Further(table, f[k - 1])
  BY <1>3, Sizes
<1>5. Reaches(f, table, b)
  BY <1>1, <1>4 DEF Reaches
<1>6. QED
  BY <1>5

\* Induction up to n, for a set.
LEMMA UpTo ==
    ASSUME NEW n \in Nat, NEW S, 0 \in S, \A k \in 0 .. n : k \in S /\ k < n => k + 1 \in S
    PROVE  \A k \in 0 .. n : k \in S
<1> DEFINE T == {k \in 0 .. n : k \notin S}
<1>1. SUFFICES ASSUME T # {} PROVE FALSE
  OBVIOUS
<1>2. T \in SUBSET Nat
  OBVIOUS
<1>3. PICK k \in T : \A j \in T : k <= j
  <2> HIDE DEF T
  <2>1. QED
    BY <1>1, <1>2, Least
<1>4. k # 0 /\ k - 1 \in 0 .. n /\ k - 1 < n /\ ~(k <= k - 1)
  OBVIOUS
<1>5. k - 1 \in S
  BY <1>3, <1>4
<1>6. (k - 1) + 1 \in S
  BY <1>4, <1>5
<1>7. QED
  BY <1>6

\* The links of a table lead to entries that lists use, and from entry 0 none leads on.
Linkage(table) ==
    /\ \A e \in All : table[e].next \in {0} \cup (Usable \cap Expansion)
    /\ table[0].next = 0

Closed(table, S) == \A e \in S : table[e].next \in S \cup {0}

\* What can be reached from b is the least set with b that the links do not lead out of.
LEMMA ChainIs ==
    ASSUME NEW table, Linkage(table), NEW b \in Usable \cap Base
    PROVE  /\ b \in Chain(table, b)
           /\ Chain(table, b) \subseteq {b} \cup (Usable \cap Expansion)
           /\ Closed(table, Chain(table, b))
           /\ \A S : b \in S /\ Closed(table, S) => Chain(table, b) \subseteq S
<1> DEFINE N == expn_table_entries
           V == {b, 0} \cup (Usable \cap Expansion)
<1> HIDE DEF N
<1>0. N = expn_table_entries
  BY DEF N
<1>P. PICK f : Reaches(f, table, b)
  BY ChainSteps
<1>1. /\ Chain(table, b) = f[N] \ {0} /\ f[0] = {b}
      /\ \A k \in 1 .. N : f[k] = Further(table, f[k - 1])
  BY <1>0, <1>P DEF Reaches
<1>2. N \in Nat /\ N > 0 /\ table_entries \in Nat /\ table_entries > 1
  BY <1>0, Sizes, RequestedAssumption DEF expn_table_entries, GetNearestEven
<1>3. ASSUME NEW k \in 0 .. N, k < N
      PROVE  k + 1 \in 0 .. N /\ f[k + 1] = Further(table, f[k])
  <2>1. k + 1 \in 1 .. N /\ (k + 1) - 1 = k
    BY <1>2, <1>3
  <2>2. QED
    BY <1>1, <2>1
<1>4. b # 0 /\ b \in All /\ 0 \in All /\ Usable \subseteq All
  BY Sizes DEF Usable
<1>5. \A e \in V : table[e].next \in V
  BY <1>4 DEF Linkage
<1>6. \A k \in 0 .. N : f[k] \subseteq V
  <2> DEFINE S == {k \in 0 .. N : f[k] \subseteq V}
  <2>1. 0 \in S
    BY <1>1, <1>2
  <2>2. \A k \in 0 .. N : k \in S /\ k < N => k + 1 \in S
    BY <1>3, <1>5 DEF Further
  <2> HIDE DEF S
  <2>3. \A k \in 0 .. N : k \in S
    BY <1>2, <2>1, <2>2, UpTo
  <2>4. QED
    BY <2>3 DEF S
<1> DEFINE C(k) == \A e \in f[k] : table[e].next \in f[k]
<1>7. b \in f[N]
  <2> DEFINE S == {k \in 0 .. N : b \in f[k]}
  <2>1. 0 \in S
    BY <1>1, <1>2
  <2>2. \A k \in 0 .. N : k \in S /\ k < N => k + 1 \in S
    BY <1>3 DEF Further
  <2> HIDE DEF S
  <2>3. \A k \in 0 .. N : k \in S
    BY <1>2, <2>1, <2>2, UpTo
  <2>4. QED
    BY <1>2, <2>3 DEF S
<1>8. C(N)
  <2>1. SUFFICES ASSUME ~C(N) PROVE FALSE
    OBVIOUS
  <2>2. \A k \in 0 .. N : ~C(k)
    <3> SUFFICES ASSUME NEW j \in 0 .. N, C(j) PROVE FALSE
      OBVIOUS
    <3> DEFINE S == {k \in 0 .. N : k + j <= N => C(k + j)}
    <3>1. 0 \in S
      BY <1>2
    <3>2. ASSUME NEW k \in 0 .. N, k \in S, k < N
          PROVE  k + 1 \in S
      <4>1. CASE (k + 1) + j <= N
        <5>1. k + j \in 0 .. N /\ k + j < N /\ (k + j) + 1 = (k + 1) + j
          BY <1>2, <4>1
        <5>2. C(k + j)
          BY <1>2, <3>2, <5>1
        <5>3. f[(k + j) + 1] = f[k + j]
          <6> DEFINE i == k + j
          <6> HIDE DEF i
          <6>1. f[i + 1] = Further(table, f[i]) /\ C(i)
            BY <1>3, <5>1, <5>2 DEF i
          <6>2. Further(table, f[i]) = f[i]
            BY <6>1 DEF Further
          <6>3. QED
            BY <6>1, <6>2 DEF i
        <5>4. C((k + 1) + j)
          BY <5>1, <5>2, <5>3
        <5>5. QED
          BY <1>2, <3>2, <5>4
      <4>2. CASE ~((k + 1) + j <= N)
        BY <1>2, <3>2, <4>2
      <4>3. QED
        BY <4>1, <4>2
    <3> HIDE DEF S
    <3>3. \A k \in 0 .. N : k \in S
      BY <1>2, <3>1, <3>2, UpTo
    <3>4. N - j \in S /\ (N - j) + j = N
      BY <1>2, <3>3
    <3>5. C(N)
      <4>1. (N - j) + j <= N => C((N - j) + j)
        BY <3>4 DEF S
      <4>2. QED
        BY <1>2, <3>4, <4>1
    <3>6. QED
      BY <2>1, <3>5
  <2>3. IsFiniteSet(V) /\ Cardinality(V) <= N + 1
    <3> DEFINE E == table_entries + 1 .. table_entries + N - 1
    <3>1. IsFiniteSet(E) /\ Cardinality(E) = N - 1
      <4>1. table_entries + 1 \in Int /\ table_entries + N - 1 \in Int
        BY <1>2
      <4>2. IsFiniteSet(E)
        BY <4>1, FS_Interval
      <4>3. Cardinality(E) = IF table_entries + 1 > table_entries + N - 1 THEN 0
                             ELSE (table_entries + N - 1) - (table_entries + 1) + 1
        BY <4>1, FS_Interval
      <4>4. QED
        BY <1>2, <4>2, <4>3
    <3>2. V = (E \cup {b}) \cup {0}
      BY <1>0, <1>2 DEF Usable, Expansion, All
    <3> HIDE DEF E, V
    <3>3. IsFiniteSet(E \cup {b}) /\ Cardinality(E \cup {b}) <= N
      <4>1. /\ IsFiniteSet(E \cup {b})
            /\ Cardinality(E \cup {b}) = IF b \in E THEN Cardinality(E) ELSE Cardinality(E) + 1
        BY <3>1, FS_AddElement
      <4>2. QED
        BY <1>2, <3>1, <4>1
    <3>4. IsFiniteSet((E \cup {b}) \cup {0}) /\ Cardinality((E \cup {b}) \cup {0}) <= N + 1
      <4> DEFINE F == E \cup {b}
      <4>1. IsFiniteSet(F) /\ Cardinality(F) <= N /\ Cardinality(F) \in Nat
        BY <3>3, FS_CardinalityType
      <4> HIDE DEF F
      <4>2. /\ IsFiniteSet(F \cup {0})
            /\ \/ Cardinality(F \cup {0}) = Cardinality(F) + 1
               \/ Cardinality(F \cup {0}) = Cardinality(F)
        BY <4>1, FS_AddElement
      <4>3. QED
        BY <1>2, <4>1, <4>2 DEF F
    <3>5. QED
      BY <3>2, <3>4
  <2> DEFINE S == {k \in 0 .. N : /\ IsFiniteSet(f[k]) /\ Cardinality(f[k]) \in Nat
                                 /\ k + 1 <= Cardinality(f[k])}
  <2>4. 0 \in S
    <3>1. IsFiniteSet({b}) /\ Cardinality({b}) = 1
      BY FS_Singleton
    <3>2. IsFiniteSet(f[0]) /\ Cardinality(f[0]) = 1
      BY <1>1, <3>1
    <3>3. QED
      BY <1>2, <3>2
  <2>5. ASSUME NEW k \in 0 .. N, k \in S, k < N
        PROVE  k + 1 \in S
    <3>1. k + 1 \in 0 .. N /\ f[k + 1] = Further(table, f[k]) /\ f[k + 1] \subseteq V
      BY <1>3, <1>6, <2>5
    <3>2. f[k] \subseteq f[k + 1] /\ f[k] # f[k + 1]
      BY <2>2, <3>1 DEF Further
    <3> HIDE DEF V
    <3>3. IsFiniteSet(f[k + 1]) /\ Cardinality(f[k + 1]) \in Nat
      BY <2>3, <3>1, FS_Subset, FS_CardinalityType
    <3>4. Cardinality(f[k]) < Cardinality(f[k + 1])
      <4>1. /\ Cardinality(f[k]) <= Cardinality(f[k + 1])
            /\ Cardinality(f[k]) = Cardinality(f[k + 1]) => f[k] = f[k + 1]
        BY <3>2, <3>3, FS_Subset
      <4>2. QED
        BY <2>5, <3>2, <3>3, <4>1
    <3>5. QED
      BY <1>2, <2>5, <3>1, <3>3, <3>4
  <2> HIDE DEF S
  <2>6. N \in S
    BY <1>2, <2>4, <2>5, UpTo
  <2>7. Cardinality(f[N]) \in Nat /\ N + 1 <= Cardinality(f[N])
    BY <2>6 DEF S
  <2>8. f[N] \subseteq V
    BY <1>2, <1>6
  <2> HIDE DEF V
  <2>9. f[N] = V
    <3>1. Cardinality(f[N]) <= Cardinality(V) /\ (Cardinality(V) = Cardinality(f[N]) => V = f[N])
      BY <2>3, <2>8, FS_Subset
    <3>2. Cardinality(V) \in Nat
      BY <2>3, FS_CardinalityType
    <3>3. QED
      BY <1>2, <2>3, <2>7, <3>1, <3>2
  <2>10. QED
    BY <1>5, <2>1, <2>9
<1>9. ASSUME NEW S, b \in S, Closed(table, S)
      PROVE  Chain(table, b) \subseteq S
  <2> DEFINE Q == {k \in 0 .. N : f[k] \subseteq S \cup {0}}
  <2>1. 0 \in Q
    BY <1>1, <1>2, <1>9
  <2>2. \A k \in 0 .. N : k \in Q /\ k < N => k + 1 \in Q
    BY <1>3, <1>9 DEF Further, Closed, Linkage
  <2> HIDE DEF Q
  <2>3. N \in Q
    BY <1>2, <2>1, <2>2, UpTo
  <2>4. QED
    BY <1>1, <2>3 DEF Q
<1>10. QED
  BY <1>1, <1>2, <1>4, <1>6, <1>7, <1>8, <1>9 DEF Closed

LEMMA SameLinks ==
    ASSUME NEW table, NEW new, Linkage(table), NEW b \in Usable \cap Base,
           \A v \in All : new[v].next = table[v].next
    PROVE  Linkage(new) /\ Chain(new, b) = Chain(table, b)
<1>1. Linkage(new)
  BY Sizes DEF Linkage
<1>2. Chain(table, b) \subseteq All /\ Chain(new, b) \subseteq All
  BY <1>1, ChainIs, Sizes DEF Usable
<1>3. Closed(table, Chain(new, b)) /\ Closed(new, Chain(table, b))
  BY <1>1, <1>2, ChainIs DEF Closed
<1>4. b \in Chain(table, b) /\ b \in Chain(new, b)
  BY <1>1, ChainIs
<1>5. Chain(table, b) \subseteq Chain(new, b)
  BY <1>3, <1>4, ChainIs
<1>6. Chain(new, b) \subseteq Chain(table, b)
  BY <1>1, <1>3, <1>4, ChainIs
<1>7. QED
  BY <1>1, <1>5, <1>6

\* The link to u is led around it: only u is no longer found.
LEMMA Detour ==
    ASSUME NEW table, Linkage(table), NEW new, Linkage(new), NEW b \in Usable \cap Base,
           NEW p \in All, NEW u \in All, u # 0, u # b, p # u,
           table[p].next = u, \A v \in All : table[v].next = u => v = p,
           new[p].next = table[u].next, new[u].next \in {0, table[u].next},
           \A v \in All \ {p, u} : new[v].next = table[v].next
    PROVE  Chain(table, b) \ {u} \subseteq Chain(new, b) /\ u \notin Chain(new, b)
<1> DEFINE C == Chain(new, b)
<1>1. b \in All /\ C \subseteq All /\ b \in C /\ Closed(new, C)
  BY ChainIs, Sizes DEF Usable
<1>2. C \subseteq All \ {u}
  <2>1. b \in All \ {u}
    BY <1>1
  <2>2. Closed(new, All \ {u})
    <3> SUFFICES ASSUME NEW v \in All \ {u} PROVE new[v].next \in All \ {u}
      BY DEF Closed
    <3>1. new[v].next \in All
      BY Sizes DEF Linkage, Usable
    <3>2. QED
      BY <3>1
  <2>3. QED
    BY <2>1, <2>2, ChainIs
<1>3. CASE p \in C
  <2>1. Closed(table, C \cup {u})
    BY <1>1, <1>2, <1>3 DEF Closed
  <2>2. Chain(table, b) \subseteq C \cup {u}
    BY <1>1, <2>1, ChainIs
  <2>3. QED
    BY <1>2, <2>2
<1>4. CASE p \notin C
  <2>1. Closed(table, C)
    BY <1>1, <1>2, <1>4 DEF Closed
  <2>2. Chain(table, b) \subseteq C
    BY <1>1, <2>1, ChainIs
  <2>3. QED
    BY <1>2, <2>2
<1>5. QED
  BY <1>3, <1>4

\* A link from the last of a chain to a further entry: all is found, and the entry.
LEMMA Extension ==
    ASSUME NEW table, Linkage(table), NEW new, Linkage(new), NEW b \in Usable \cap Base,
           NEW l \in All, NEW a \in All, a # 0, table[l].next = 0, new[l].next = a,
           \A v \in All \ {l} : new[v].next = table[v].next
    PROVE  /\ Chain(table, b) \subseteq Chain(new, b)
           /\ l \in Chain(table, b) => a \in Chain(new, b)
<1> DEFINE C == Chain(new, b)
<1>1. C \subseteq All /\ b \in C /\ Closed(new, C)
  BY ChainIs, Sizes DEF Usable
<1>2. Closed(table, C)
  BY <1>1 DEF Closed
<1>3. Chain(table, b) \subseteq C
  BY <1>1, <1>2, ChainIs
<1>4. l \in C => a \in C
  BY <1>1 DEF Closed
<1>5. QED
  BY <1>3, <1>4

-----------------------------------------------------------------------------
(* Lists.  used are the entries in some list, home is the base entry whose *)
(* list an entry is in.                                                    *)

Linked(table, prev, used, home) ==
    /\ used \subseteq Usable
    /\ \A u \in All \ used : table[u].next = 0
    /\ \A u \in used : table[u].next # 0 =>
         table[u].next \in used \cap Expansion /\ prev[table[u].next] = u
    /\ \A u \in used \cap Expansion :
         prev[u] \in used /\ table[prev[u]].next = u /\ home[prev[u]] = home[u]
    /\ \A u \in used \cap Base : home[u] = u
    /\ \A u \in used : home[u] \in used \cap Base /\ u \in Chain(table, home[u])

LEMMA LinkedLinks ==
    ASSUME NEW table, NEW prev, NEW used, NEW home, Linked(table, prev, used, home)
    PROVE  /\ Linkage(table) /\ used \subseteq All /\ Usable \subseteq All /\ 0 \notin used
           /\ used \cap Base \subseteq Usable \cap Base
<1>1. 0 \in All /\ 0 \notin Usable /\ used \subseteq Usable /\ Usable \subseteq All
  BY Sizes DEF Linked, Usable
<1>2. \A e \in All : table[e].next \in {0} \cup (Usable \cap Expansion)
  BY <1>1 DEF Linked
<1>3. table[0].next = 0
  BY <1>1 DEF Linked
<1>4. QED
  BY <1>1, <1>2, <1>3 DEF Linkage

LEMMA BaseOrExpansion ==
    /\ \A u \in All : u \in Base \/ u \in Expansion
    /\ \A u \in Base : u \notin Expansion /\ u < table_entries
    /\ \A u \in Expansion : u \notin Base /\ ~(u < table_entries) /\ u # 0
BY Sizes DEF All, Base, Expansion

\* What is found from a base entry on is what is in its list.
LEMMA ChainUsed ==
    ASSUME NEW table, NEW prev, NEW used, NEW home, Linked(table, prev, used, home),
           NEW b \in used \cap Base
    PROVE  Chain(table, b) = {u \in used : home[u] = b}
<1> DEFINE L == {u \in used : home[u] = b}
<1>1. Linkage(table) /\ b \in Usable \cap Base /\ used \subseteq All
  BY LinkedLinks
<1>2. b \in L
  BY DEF Linked
<1>3. Closed(table, L)
  <2> SUFFICES ASSUME NEW u \in L, table[u].next # 0 PROVE table[u].next \in L
    BY DEF Closed
  <2>1. table[u].next \in used \cap Expansion /\ prev[table[u].next] = u
    BY DEF Linked
  <2>2. home[table[u].next] = home[u]
    BY <2>1 DEF Linked
  <2>3. QED
    BY <2>1, <2>2
<1>4. Chain(table, b) \subseteq L
  BY <1>1, <1>2, <1>3, ChainIs
<1>5. \A u \in L : u \in Chain(table, b)
  BY DEF Linked
<1>6. QED
  BY <1>4, <1>5

\* A list has an end.
LEMMA LastExists ==
    ASSUME NEW table, NEW prev, NEW used, NEW home, Linked(table, prev, used, home),
           NEW b \in used \cap Base
    PROVE  \E u \in Chain(table, b) : table[u].next = 0
<1> DEFINE C == Chain(table, b)
           f == [u \in C |-> table[u].next]
<1>1. Linkage(table) /\ b \in Usable \cap Base /\ used \subseteq All
  BY LinkedLinks
<1>2. C \subseteq used /\ b \in C /\ Closed(table, C)
  BY <1>1, ChainUsed, ChainIs
<1>3. SUFFICES ASSUME \A u \in C : table[u].next # 0 PROVE FALSE
  OBVIOUS
<1>4. f \in [C -> C]
  BY <1>2, <1>3 DEF Closed
<1>5. \A u, v \in C : f[u] = f[v] => u = v
  BY <1>2, <1>3 DEF Linked
<1>6. IsFiniteSet(C)
  <2>1. IsFiniteSet(All)
    BY Sizes, FS_Interval DEF All
  <2> HIDE DEF C
  <2>2. QED
    BY <1>1, <1>2, <2>1, FS_Subset
<1>7. \A u \in C : f[u] # b
  <2>1. \A u \in C : f[u] \in Expansion
    BY <1>2, <1>3 DEF Linked
  <2>2. QED
    BY <2>1, BaseOrExpansion
<1> HIDE DEF C, f
<1>8. f \in Injection(C, C)
  BY <1>4, <1>5 DEF Injection, IsInjective
<1>9. f \in Surjection(C, C)
  BY <1>6, <1>8, FS_Injection
<1>10. QED
  BY <1>2, <1>7, <1>9 DEF Surjection

\* A base entry that was free.
NewHead(table, prev, used, home, new, prev2, home2, z) ==
    /\ Linked(table, prev, used, home)
    /\ z \in (Usable \cap Base) \ used
    /\ \A v \in All : new[v].next = table[v].next
    /\ \A u \in used \cap Expansion : prev2[u] = prev[u]
    /\ \A u \in used : home2[u] = home[u]
    /\ home2[z] = z

LEMMA LinkedNew ==
    ASSUME NEW table, NEW prev, NEW used, NEW home, NEW new, NEW prev2, NEW home2, NEW z,
           NewHead(table, prev, used, home, new, prev2, home2, z)
    PROVE  Linked(new, prev2, used \cup {z}, home2)
<1> USE DEF NewHead
<1>1. /\ Linkage(table) /\ used \subseteq All /\ used \cap Base \subseteq Usable \cap Base
      /\ Usable \subseteq All
  BY LinkedLinks
<1>2. \A b \in Usable \cap Base : Chain(new, b) = Chain(table, b) /\ b \in Chain(table, b)
  BY <1>1, SameLinks, ChainIs
<1>3. z \notin Expansion
  BY BaseOrExpansion
<1>4. \A u \in used : home2[u] \in used \cap Base /\ u \in Chain(new, home2[u])
  BY <1>1, <1>2 DEF Linked
<1>5. z \in Chain(new, home2[z])
  BY <1>2
<1>6. /\ used \cup {z} \subseteq Usable
      /\ \A u \in All \ (used \cup {z}) : new[u].next = 0
      /\ \A u \in used \cup {z} : new[u].next # 0 =>
           new[u].next \in (used \cup {z}) \cap Expansion /\ prev2[new[u].next] = u
      /\ \A u \in (used \cup {z}) \cap Expansion :
           /\ prev2[u] \in used \cup {z} /\ new[prev2[u]].next = u
           /\ home2[prev2[u]] = home2[u]
      /\ \A u \in (used \cup {z}) \cap Base : home2[u] = u
  BY <1>1, <1>3 DEF Linked
<1>7. QED
  BY <1>4, <1>5, <1>6 DEF Linked

\* An expansion entry behind the last of a list.
NewTail(table, prev, used, home, new, prev2, home2, a, l) ==
    /\ Linked(table, prev, used, home)
    /\ a \in (Usable \cap Expansion) \ used /\ l \in used
    /\ table[l].next = 0 /\ new[l].next = a
    /\ \A v \in All \ {l} : new[v].next = table[v].next
    /\ (\A u \in used \cap Expansion : prev2[u] = prev[u]) /\ prev2[a] = l
    /\ (\A u \in used : home2[u] = home[u]) /\ home2[a] = home[l]

LEMMA LinkedAppend ==
    ASSUME NEW table, NEW prev, NEW used, NEW home, NEW new, NEW prev2, NEW home2, NEW a, NEW l,
           NewTail(table, prev, used, home, new, prev2, home2, a, l)
    PROVE  Linked(new, prev2, used \cup {a}, home2)
<1> USE DEF NewTail
<1>1. /\ Linkage(table) /\ used \subseteq All /\ used \cap Base \subseteq Usable \cap Base
      /\ Usable \subseteq All /\ 0 \notin used
  BY LinkedLinks
<1>2. Linkage(new)
  <2>1. 0 \in All /\ 0 # l
    BY <1>1, Sizes
  <2>2. \A v \in All : v # l => new[v].next = table[v].next
    OBVIOUS
  <2>3. QED
    BY <1>1, <2>1, <2>2 DEF Linkage
<1>3. a # 0 /\ a \in All /\ l \in All /\ a \notin Base /\ a # l
  BY <1>1, BaseOrExpansion
<1>4. \A b \in Usable \cap Base :
         /\ Chain(table, b) \subseteq Chain(new, b)
         /\ l \in Chain(table, b) => a \in Chain(new, b)
  BY <1>1, <1>2, <1>3, Extension
<1>5. /\ \A u \in used : home2[u] \in used \cap Base /\ u \in Chain(new, home2[u])
      /\ home2[a] \in used \cap Base /\ a \in Chain(new, home2[a])
  BY <1>1, <1>4 DEF Linked
<1>6. \A u \in All \ (used \cup {a}) : new[u].next = 0
  BY DEF Linked
<1>7. \A u \in used \cup {a} : new[u].next # 0 =>
         new[u].next \in (used \cup {a}) \cap Expansion /\ prev2[new[u].next] = u
  BY <1>1, <1>3 DEF Linked
<1>8. \A u \in (used \cup {a}) \cap Expansion :
         /\ prev2[u] \in used \cup {a} /\ new[prev2[u]].next = u
         /\ home2[prev2[u]] = home2[u]
  <2>1. ASSUME NEW u \in used \cap Expansion
        PROVE  /\ prev2[u] \in used /\ new[prev2[u]].next = u
               /\ home2[prev2[u]] = home2[u]
    <3>1. prev[u] \in used /\ table[prev[u]].next = u /\ home[prev[u]] = home[u]
      BY DEF Linked
    <3>2. u # 0 /\ prev[u] # l
      BY <1>1, <3>1
    <3>3. QED
      BY <1>1, <3>1, <3>2
  <2>2. QED
    BY <2>1
<1>9. \A u \in (used \cup {a}) \cap Base : home2[u] = u
  BY <1>3 DEF Linked
<1>10. QED
  BY <1>5, <1>6, <1>7, <1>8, <1>9 DEF Linked

\* Base entries that nothing follows.
Freed(table, prev, used, home, new, prev2, home2, gone) ==
    /\ Linked(table, prev, used, home)
    /\ gone \subseteq used \cap Base
    /\ \A u \in gone : table[u].next = 0
    /\ \A v \in All : new[v].next = table[v].next
    /\ \A u \in (used \ gone) \cap Expansion : prev2[u] = prev[u]
    /\ \A u \in used \ gone : home2[u] = home[u]

LEMMA LinkedFree ==
    ASSUME NEW table, NEW prev, NEW used, NEW home, NEW new, NEW prev2, NEW home2, NEW gone,
           Freed(table, prev, used, home, new, prev2, home2, gone)
    PROVE  Linked(new, prev2, used \ gone, home2)
<1> USE DEF Freed
<1>1. /\ Linkage(table) /\ used \subseteq All /\ used \cap Base \subseteq Usable \cap Base
      /\ 0 \notin used
  BY LinkedLinks
<1>2. \A b \in used \cap Base : Chain(new, b) = Chain(table, b)
  BY <1>1, SameLinks
<1>3. \A u \in gone : u \notin Expansion
  BY BaseOrExpansion
<1>4. ASSUME NEW u \in used \ gone
      PROVE  home2[u] \in (used \ gone) \cap Base /\ u \in Chain(new, home2[u])
  <2>1. home[u] \in used \cap Base /\ u \in Chain(table, home[u])
    BY DEF Linked
  <2>2. home[u] \notin gone
    <3>1. SUFFICES ASSUME home[u] \in gone PROVE FALSE
      OBVIOUS
    <3>2. Closed(table, {home[u]})
      BY <3>1 DEF Closed
    <3>3. Chain(table, home[u]) \subseteq {home[u]}
      BY <1>1, <2>1, <3>2, ChainIs
    <3>4. QED
      BY <2>1, <3>1, <3>3
  <2>3. QED
    BY <1>2, <2>1, <2>2
<1>5. /\ used \ gone \subseteq Usable
      /\ \A u \in All \ (used \ gone) : new[u].next = 0
      /\ \A u \in used \ gone : new[u].next # 0 =>
           new[u].next \in (used \ gone) \cap Expansion /\ prev2[new[u].next] = u
      /\ \A u \in (used \ gone) \cap Base : home2[u] = u
  BY <1>1, <1>3 DEF Linked
<1>6. \A u \in (used \ gone) \cap Expansion :
           /\ prev2[u] \in used \ gone /\ new[prev2[u]].next = u
           /\ home2[prev2[u]] = home2[u]
  BY <1>1 DEF Linked
<1>7. QED
  BY <1>4, <1>5, <1>6 DEF Linked

\* An entry, the one before it and the one behind it are three.
LEMMA LinkedApart ==
    ASSUME NEW table, NEW prev, NEW used, NEW home, Linked(table, prev, used, home),
           NEW u \in used \cap Expansion
    PROVE  /\ prev[u] \in used /\ table[prev[u]].next = u /\ home[prev[u]] = home[u]
           /\ u \notin Base
           /\ table[u].next # 0 =>
                table[u].next \in used \cap Expansion /\ prev[table[u].next] = u
           /\ prev[u] # u /\ table[u].next # u /\ table[u].next # prev[u]
           /\ \A v \in All : table[v].next = u => v = prev[u]
<1> DEFINE p == prev[u]
           n == table[u].next
<1>1. /\ Linkage(table) /\ used \subseteq All /\ used \cap Base \subseteq Usable \cap Base
      /\ 0 \notin used
  BY LinkedLinks
<1>2. p \in used /\ table[p].next = u /\ home[p] = home[u] /\ u \notin Base
  BY BaseOrExpansion DEF Linked
<1>3. n # 0 => n \in used \cap Expansion /\ prev[n] = u
  BY DEF Linked
<1>4. p # u /\ n # u /\ n # p
  <2>1. p # u
    <3>1. SUFFICES ASSUME p = u PROVE FALSE
      OBVIOUS
    <3> DEFINE b == home[u]
    <3>2. b \in used \cap Base /\ u \in Chain(table, b) /\ u # b
      BY <1>2 DEF Linked
    <3>3. Closed(table, used \ {u})
      BY <1>2, <3>1 DEF Linked, Closed
    <3>4. b \in Usable \cap Base
      BY <1>1, <3>2
    <3>5. Chain(table, b) \subseteq used \ {u}
      BY <1>1, <3>2, <3>3, <3>4, ChainIs
    <3>6. QED
      BY <3>2, <3>5
  <2>2. n # u
    BY <1>1, <1>3, <2>1
  <2>3. n # p
    <3>1. SUFFICES ASSUME n = p PROVE FALSE
      OBVIOUS
    <3> DEFINE b == home[u]
    <3>2. b \in used \cap Base /\ u \in Chain(table, b) /\ u # b
      BY <1>2 DEF Linked
    <3>3. p \in Expansion /\ p # b
      BY <1>1, <1>2, <1>3, <3>1, <3>2, BaseOrExpansion
    <3>4. Closed(table, used \ {u, p})
      BY <1>1, <1>2, <1>3, <3>1 DEF Linked, Closed
    <3>5. b \in Usable \cap Base
      BY <1>1, <3>2
    <3>6. Chain(table, b) \subseteq used \ {u, p}
      BY <1>1, <3>2, <3>3, <3>4, <3>5, ChainIs
    <3>7. QED
      BY <3>2, <3>6
  <2>4. QED
    BY <2>1, <2>2, <2>3
<1>5. \A v \in All : table[v].next = u => v = p
  BY <1>1 DEF Linked
<1>6. QED
  BY <1>2, <1>3, <1>4, <1>5

\* Its predecessor is led around an expansion entry: the others are still found.
LedAround(table, prev, used, home, new, u) ==
    /\ Linked(table, prev, used, home) /\ u \in used \cap Expansion
    /\ new[prev[u]].next = table[u].next /\ new[u].next \in {0, table[u].next}
    /\ \A v \in All \ {u, prev[u]} : new[v].next = table[v].next

LEMMA LinkedAround ==
    ASSUME NEW table, NEW prev, NEW used, NEW home, NEW new, NEW u,
           LedAround(table, prev, used, home, new, u)
    PROVE  \A b \in Usable \cap Base : Chain(table, b) \ {u} \subseteq Chain(new, b)
<1> USE DEF LedAround
<1> DEFINE p == prev[u]
           n == table[u].next
<1>1. /\ Linkage(table) /\ used \subseteq All /\ used \cap Base \subseteq Usable \cap Base
      /\ 0 \notin used
  BY LinkedLinks
<1>2. /\ p \in used /\ table[p].next = u /\ u \notin Base
      /\ p # u /\ n # u /\ n # p
      /\ \A v \in All : table[v].next = u => v = p
  BY LinkedApart
<1>3. Linkage(new)
  <2>1. n = 0 \/ n \in Usable \cap Expansion
    BY DEF Linked
  <2>2. 0 \in All /\ 0 # u /\ 0 # p
    BY <1>1, <1>2, Sizes
  <2>3. /\ new[p].next = n /\ new[u].next \in {0, n}
        /\ \A v \in All : v # u /\ v # p => new[v].next = table[v].next
    OBVIOUS
  <2> HIDE DEF p, n
  <2>4. QED
    BY <1>1, <2>1, <2>2, <2>3 DEF Linkage
<1>4. QED
  <2>1. u # 0 /\ u \in All /\ p \in All /\ \A b \in Usable \cap Base : u # b
    BY <1>1, <1>2
  <2>2. QED
    BY <1>1, <1>2, <1>3, <2>1, Detour

\* An expansion entry that its predecessor is led around.
Unlinked(table, prev, used, home, new, prev2, home2, u) ==
    /\ Linked(table, prev, used, home)
    /\ u \in used \cap Expansion
    /\ new[prev[u]].next = table[u].next /\ new[u].next = 0
    /\ \A v \in All \ {u, prev[u]} : new[v].next = table[v].next
    /\ \A v \in (used \cap Expansion) \ {u, table[u].next} : prev2[v] = prev[v]
    /\ table[u].next # 0 => prev2[table[u].next] = prev[u]
    /\ \A v \in used \ {u} : home2[v] = home[v]

LEMMA LinkedUnlink ==
    ASSUME NEW table, NEW prev, NEW used, NEW home, NEW new, NEW prev2, NEW home2, NEW u,
           Unlinked(table, prev, used, home, new, prev2, home2, u)
    PROVE  Linked(new, prev2, used \ {u}, home2)
<1> USE DEF Unlinked
<1> DEFINE p == prev[u]
           n == table[u].next
<1>1. /\ Linkage(table) /\ used \subseteq All /\ used \cap Base \subseteq Usable \cap Base
      /\ 0 \notin used
  BY LinkedLinks
<1>2. p \in used /\ table[p].next = u /\ home[p] = home[u] /\ u \notin Base
  BY LinkedApart
<1>3. n # 0 => n \in used \cap Expansion /\ prev[n] = u
  BY LinkedApart
<1>4. p # u /\ n # u /\ n # p
  BY LinkedApart
<1>5. \A b \in Usable \cap Base : Chain(table, b) \ {u} \subseteq Chain(new, b)
  <2>1. LedAround(table, prev, used, home, new, u)
    BY DEF LedAround
  <2>2. QED
    BY <2>1, LinkedAround
<1>6. \A v \in All : table[v].next = u => v = p
  BY LinkedApart
<1>7. ASSUME NEW v \in used \ {u}
      PROVE  home2[v] \in (used \ {u}) \cap Base /\ v \in Chain(new, home2[v])
  <2>1. home[v] \in used \cap Base /\ v \in Chain(table, home[v]) /\ home2[v] = home[v]
    BY DEF Linked
  <2>2. home[v] # u /\ home[v] \in Usable \cap Base
    BY <1>1, <1>2, <2>1
  <2>3. v \in Chain(new, home[v])
    BY <1>5, <2>1, <2>2
  <2>4. QED
    BY <2>1, <2>2, <2>3
<1>8. /\ used \ {u} \subseteq Usable
      /\ \A v \in (used \ {u}) \cap Base : home2[v] = v
  BY DEF Linked
<1>9. \A v \in All \ (used \ {u}) : new[v].next = 0
  BY <1>2 DEF Linked
<1>10. ASSUME NEW v \in used \ {u}, new[v].next # 0
       PROVE  new[v].next \in (used \ {u}) \cap Expansion /\ prev2[new[v].next] = v
  <2>1. CASE v = p
    BY <1>3, <1>4, <1>10, <2>1
  <2>2. CASE v # p
    <3>1. new[v].next = table[v].next
      BY <1>1, <2>2
    <3>2. table[v].next \in used \cap Expansion /\ prev[table[v].next] = v
      BY <1>10, <3>1 DEF Linked
    <3>3. table[v].next # u /\ table[v].next # n
      <4>1. table[v].next # u
        BY <1>1, <1>6, <2>2
      <4>2. table[v].next # n
        BY <1>3, <1>10, <3>1, <3>2
      <4>3. QED
        BY <4>1, <4>2
    <3>4. QED
      BY <3>1, <3>2, <3>3
  <2>3. QED
    BY <2>1, <2>2
<1>11. ASSUME NEW v \in (used \ {u}) \cap Expansion
       PROVE  /\ prev2[v] \in used \ {u} /\ new[prev2[v]].next = v
              /\ home2[prev2[v]] = home2[v]
  <2>1. prev[v] \in used /\ table[prev[v]].next = v /\ home[prev[v]] = home[v]
    BY DEF Linked
  <2>2. CASE v = n
    <3>1. n # 0 /\ prev2[v] = p /\ prev[v] = u
      BY <1>1, <1>3, <2>2
    <3>2. QED
      BY <1>2, <1>4, <2>1, <2>2, <3>1
  <2>3. CASE v # n
    <3>1. prev2[v] = prev[v] /\ prev[v] # u /\ prev[v] # p
      BY <1>2, <2>1, <2>3
    <3>2. QED
      BY <1>1, <2>1, <3>1
  <2>4. QED
    BY <2>2, <2>3
<1>12. QED
  BY <1>7, <1>8, <1>9, <1>10, <1>11 DEF Linked

-----------------------------------------------------------------------------
(* The two tables.  dst and src are the base entries of the connections.   *)

Entries == [on : BOOLEAN, flow : Matched, next : All, prev : All, ix : All]
Indexes == [entry : All, next : All]
NatTables == [All -> Entries]
IdxTables == [All -> Indexes]
Metas == [Expansion -> All]
Hashes == [Flows -> Usable \cap Base]

Enabled(nt) == {e \in All : nt[e].on}
Ruled(nt) == {e \in All : nt[e].on /\ nt[e].flow \in Flows}
Taken(it) == {x \in All : it[x].entry # 0}

PrevIn(nt) == [e \in All |-> nt[e].prev]
NatHome(nt, dst) == [e \in All |-> IF e \in Base THEN e ELSE dst[nt[e].flow]]
IdxHome(nt, it, src) == [x \in All |-> src[nt[it[x].entry].flow]]

\* An enabled entry holds the rule of a connection or is the head of a list that was
\* deleted; the lists are those of the hash values; what is not enabled is zero.
NatLists(nt, dst) ==
    /\ Linked(nt, PrevIn(nt), Enabled(nt), NatHome(nt, dst))
    /\ \A e \in All \ Enabled(nt) : nt[e] = Zero
    /\ \A e \in Enabled(nt) : \/ nt[e].flow \in Flows /\ (e \in Base => dst[nt[e].flow] = e)
                              \/ nt[e].flow = Dead /\ e \in Base

\* Deleted heads are followed by something.
Swept(nt) == \A e \in All : nt[e].on /\ nt[e].flow = Dead => nt[e].next # 0

\* Index entries and rules are one to one.
IdxLists(nt, it, mt, src) ==
    /\ Linked(it, mt, Taken(it), IdxHome(nt, it, src))
    /\ \A x \in All \ Taken(it) : it[x] = ZeroIdx
    /\ \A x \in Taken(it) : it[x].entry \in Ruled(nt) /\ nt[it[x].entry].ix = x
    /\ \A e \in Ruled(nt) : nt[e].ix \in Taken(it) /\ it[nt[e].ix].entry = e

\* What the hardware finds.
NatFinds(nt, dst, set) == \A e \in set : e \in Chain(nt, dst[nt[e].flow])
IdxFinds(nt, it, src, set) ==
    \A e \in set : \E x \in Chain(it, src[nt[e].flow]) : it[x].entry = e

LEMMA ListsFind ==
    ASSUME NEW dst, NEW src, NEW nt, NEW it, NEW mt
    PROVE  /\ NatLists(nt, dst) => NatFinds(nt, dst, Ruled(nt))
           /\ IdxLists(nt, it, mt, src) => IdxFinds(nt, it, src, Ruled(nt))
<1>1. ASSUME NatLists(nt, dst), NEW e \in Ruled(nt)
      PROVE  e \in Chain(nt, dst[nt[e].flow])
  <2>1. e \in Enabled(nt) /\ e \in All /\ nt[e].flow \in Flows /\ Dead \notin Flows
    BY OtherNames DEF Ruled, Enabled
  <2>2. e \in Chain(nt, NatHome(nt, dst)[e])
    BY <1>1, <2>1 DEF NatLists, Linked
  <2>3. NatHome(nt, dst)[e] = dst[nt[e].flow]
    BY <1>1, <2>1 DEF NatLists, NatHome
  <2>4. QED
    BY <2>2, <2>3
<1>2. ASSUME IdxLists(nt, it, mt, src), NEW e \in Ruled(nt)
      PROVE  \E x \in Chain(it, src[nt[e].flow]) : it[x].entry = e
  <2> DEFINE x == nt[e].ix
  <2>1. x \in Taken(it) /\ it[x].entry = e /\ x \in All
    BY <1>2 DEF IdxLists, Taken
  <2>2. x \in Chain(it, IdxHome(nt, it, src)[x])
    BY <1>2, <2>1 DEF IdxLists, Linked
  <2>3. IdxHome(nt, it, src)[x] = src[nt[e].flow]
    BY <2>1 DEF IdxHome
  <2>4. QED
    BY <2>1, <2>2, <2>3
<1>3. QED
  BY <1>1, <1>2 DEF NatFinds, IdxFinds

\* The place for a new rule is its base entry, if that is free, or a free entry behind
\* the last of the list of that.
LEMMA SlotIs ==
    ASSUME NEW table, NEW prev, NEW U, NEW home, Linked(table, prev, U, home),
           NEW used, \A e \in All : used[e] <=> e \in U,
           NEW b \in Usable \cap Base, NEW s, s = Slot(used, table, b), s.at # 0
    PROVE  \/ s.at = b /\ b \notin U /\ s.prev = 0
           \/ /\ s.at \in (Usable \cap Expansion) \ U
              /\ s.prev \in U /\ table[s.prev].next = 0 /\ home[s.prev] = b /\ s.prev # 0
<1> DEFINE chain == Chain(table, b)
           free == {e \in Expansion \ {table_entries} : ~used[e]}
           last == {e \in chain : table[e].next = 0}
<1>1. b \in All /\ Usable \subseteq All /\ 0 \notin Usable
  BY Sizes DEF Usable
<1>2. CASE ~used[b]
  <2>1. s = [at |-> b, prev |-> 0]
    BY <1>2 DEF Slot
  <2>2. QED
    BY <1>1, <1>2, <2>1
<1>3. CASE used[b]
  <2>1. free # {} /\ s = [at |-> Min(free), prev |-> CHOOSE e \in last : TRUE]
    BY <1>3 DEF Slot
  <2>2. free \subseteq Nat
    BY Sizes DEF Expansion
  <2>3. Min(free) \in free
    BY <2>1, <2>2, Least DEF Min
  <2>4. Min(free) \in (Usable \cap Expansion) \ U
    <3>1. Expansion \ {table_entries} \subseteq Usable \cap Expansion
      BY Sizes, BaseOrExpansion DEF Usable
    <3>2. QED
      BY <1>1, <2>3, <3>1
  <2>5. b \in U \cap Base
    BY <1>1, <1>3
  <2>6. \E e \in chain : table[e].next = 0
    BY <2>5, LastExists
  <2>7. \A e \in chain : e \in U /\ home[e] = b
    BY <2>5, ChainUsed
  <2> DEFINE l == CHOOSE e \in last : TRUE
  <2>8. l \in last
    BY <2>6
  <2>9. s.at = Min(free) /\ s.prev = l
    BY <2>1
  <2> HIDE DEF l
  <2>10. s.prev \in U /\ table[s.prev].next = 0 /\ home[s.prev] = b
    BY <2>7, <2>8, <2>9
  <2>11. s.prev # 0
    BY <1>1, <2>10 DEF Linked
  <2>12. QED
    BY <2>4, <2>9, <2>10, <2>11
<1>4. QED
  BY <1>2, <1>3

-----------------------------------------------------------------------------
(* Putting a rule in, write by write.                                      *)

Slots == [at : Usable, prev : All]

Place(table, U, home, b, s) ==
    \/ s.at = b /\ b \notin U /\ s.prev = 0
    \/ /\ s.at \in (Usable \cap Expansion) \ U
       /\ s.prev \in U /\ table[s.prev].next = 0 /\ home[s.prev] = b /\ s.prev # 0

NewEntry(f, r, x) == [on |-> FALSE, flow |-> f, next |-> 0, prev |-> r.prev, ix |-> x.at]
NatWritten(nt, f, r, x) == [nt EXCEPT ![r.at] = NewEntry(f, r, x)]
NatLinked(nt, f, r, x) ==
    IF r.prev # 0 THEN [NatWritten(nt, f, r, x) EXCEPT ![r.prev].next = r.at]
    ELSE NatWritten(nt, f, r, x)
NatEnabled(nt, f, r, x) == [NatLinked(nt, f, r, x) EXCEPT ![r.at].on = TRUE]

IdxWritten(it, r, x) == [it EXCEPT ![x.at] = [entry |-> r.at, next |-> 0]]
IdxLinked(it, r, x) ==
    IF x.prev # 0 THEN [IdxWritten(it, r, x) EXCEPT ![x.prev].next = x.at]
    ELSE IdxWritten(it, r, x)
MetaSet(mt, x) == IF x.at >= table_entries THEN [mt EXCEPT ![x.at] = x.prev] ELSE mt

LEMMA EntryFields ==
    ASSUME NEW r \in Entries
    PROVE  /\ r.on \in BOOLEAN /\ r.flow \in Matched /\ r.next \in All /\ r.prev \in All /\ r.ix \in All
           /\ \A v \in All : /\ [r EXCEPT !.next = v] \in Entries
                             /\ [r EXCEPT !.next = v].on = r.on
                             /\ [r EXCEPT !.next = v].flow = r.flow
                             /\ [r EXCEPT !.next = v].next = v
                             /\ [r EXCEPT !.next = v].prev = r.prev
                             /\ [r EXCEPT !.next = v].ix = r.ix
           /\ \A v \in All : /\ [r EXCEPT !.prev = v] \in Entries
                             /\ [r EXCEPT !.prev = v].on = r.on
                             /\ [r EXCEPT !.prev = v].flow = r.flow
                             /\ [r EXCEPT !.prev = v].next = r.next
                             /\ [r EXCEPT !.prev = v].prev = v
                             /\ [r EXCEPT !.prev = v].ix = r.ix
           /\ \A v \in All : /\ [r EXCEPT !.ix = v] \in Entries
                             /\ [r EXCEPT !.ix = v].on = r.on
                             /\ [r EXCEPT !.ix = v].flow = r.flow
                             /\ [r EXCEPT !.ix = v].next = r.next
                             /\ [r EXCEPT !.ix = v].prev = r.prev
                             /\ [r EXCEPT !.ix = v].ix = v
           /\ \A v \in Matched : /\ [r EXCEPT !.flow = v] \in Entries
                             /\ [r EXCEPT !.flow = v].on = r.on
                             /\ [r EXCEPT !.flow = v].flow = v
                             /\ [r EXCEPT !.flow = v].next = r.next
                             /\ [r EXCEPT !.flow = v].prev = r.prev
                             /\ [r EXCEPT !.flow = v].ix = r.ix
BY DEF Entries

LEMMA SwitchFields ==
    ASSUME NEW r \in Entries
    PROVE  /\ [r EXCEPT !.on = TRUE] \in Entries
           /\ [r EXCEPT !.on = TRUE].on = TRUE
           /\ [r EXCEPT !.on = TRUE].flow = r.flow
           /\ [r EXCEPT !.on = TRUE].next = r.next
           /\ [r EXCEPT !.on = TRUE].prev = r.prev
           /\ [r EXCEPT !.on = TRUE].ix = r.ix
           /\ [r EXCEPT !.on = FALSE] \in Entries
           /\ [r EXCEPT !.on = FALSE].on = FALSE
           /\ [r EXCEPT !.on = FALSE].flow = r.flow
           /\ [r EXCEPT !.on = FALSE].next = r.next
           /\ [r EXCEPT !.on = FALSE].prev = r.prev
           /\ [r EXCEPT !.on = FALSE].ix = r.ix
BY DEF Entries

LEMMA IndexFields ==
    ASSUME NEW r \in Indexes
    PROVE  /\ r.entry \in All /\ r.next \in All
           /\ \A v \in All : /\ [r EXCEPT !.next = v] \in Indexes
                             /\ [r EXCEPT !.next = v].next = v
                             /\ [r EXCEPT !.next = v].entry = r.entry
           /\ \A v \in All : /\ [r EXCEPT !.entry = v] \in Indexes
                             /\ [r EXCEPT !.entry = v].next = r.next
                             /\ [r EXCEPT !.entry = v].entry = v
BY DEF Indexes

LEMMA ZeroFields ==
    /\ Zero \in Entries /\ Zero.on = FALSE /\ Zero.flow = Nothing /\ Zero.next = 0
    /\ ZeroIdx \in Indexes /\ ZeroIdx.entry = 0 /\ ZeroIdx.next = 0
BY Sizes DEF Zero, ZeroIdx, Entries, Indexes, Matched

LEMMA NewEntryFields ==
    ASSUME NEW f \in Flows, NEW r \in Slots, NEW x \in Slots
    PROVE  /\ NewEntry(f, r, x) \in Entries /\ NewEntry(f, r, x).on = FALSE
           /\ NewEntry(f, r, x).flow = f /\ NewEntry(f, r, x).next = 0
           /\ NewEntry(f, r, x).prev = r.prev /\ NewEntry(f, r, x).ix = x.at
           /\ r.at \in All /\ r.at # 0 /\ r.prev \in All /\ x.at \in All /\ x.prev \in All
           /\ x.at # 0 /\ r.at \in Usable /\ x.at \in Usable
<1>1. /\ r.at \in All /\ r.at # 0 /\ r.prev \in All /\ x.at \in All /\ x.prev \in All
      /\ x.at # 0 /\ r.at \in Usable /\ x.at \in Usable
  BY Sizes DEF Slots, Usable
<1>2. 0 \in All /\ f \in Matched
  BY Sizes DEF Matched
<1>3. QED
  BY <1>1, <1>2 DEF NewEntry, Entries

\* What the writes do to the entries.
Added(nt, f, r, x, n1, n2, n3) ==
    /\ n1 \in NatTables /\ n2 \in NatTables /\ n3 \in NatTables
    /\ \A e \in All \ {r.at} : n1[e] = nt[e]
    /\ n1[r.at] = NewEntry(f, r, x) /\ n2[r.at] = NewEntry(f, r, x)
    /\ \A e \in All \ {r.at, r.prev} : n2[e] = nt[e]
    /\ r.prev = 0 => n2 = n1
    /\ r.prev # 0 => /\ n2[r.prev].next = r.at
                     /\ n2[r.prev].on = nt[r.prev].on
                     /\ n2[r.prev].flow = nt[r.prev].flow
                     /\ n2[r.prev].prev = nt[r.prev].prev
                     /\ n2[r.prev].ix = nt[r.prev].ix
    /\ \A e \in All \ {r.at} : n3[e] = n2[e]
    /\ n3[r.at].on = TRUE /\ n3[r.at].flow = f /\ n3[r.at].next = 0
    /\ n3[r.at].prev = r.prev /\ n3[r.at].ix = x.at

LEMMA AddValues ==
    ASSUME NEW nt \in NatTables, NEW f \in Flows, NEW r \in Slots, NEW x \in Slots, r.prev # r.at,
           NEW n1, n1 = NatWritten(nt, f, r, x),
           NEW n2, n2 = NatLinked(nt, f, r, x),
           NEW n3, n3 = NatEnabled(nt, f, r, x)
    PROVE  Added(nt, f, r, x, n1, n2, n3)
<1> DEFINE new == NewEntry(f, r, x)
<1>1. /\ new \in Entries /\ new.on = FALSE /\ new.flow = f /\ new.next = 0
      /\ new.prev = r.prev /\ new.ix = x.at
      /\ r.at \in All /\ r.at # 0 /\ r.prev \in All
  <2>1. r.at \in All /\ r.at # 0 /\ r.prev \in All
    BY NewEntryFields, Zenon
  <2>2. new \in Entries
    BY NewEntryFields, Zenon
  <2>3. new.on = FALSE /\ new.flow = f /\ new.next = 0 /\ new.prev = r.prev /\ new.ix = x.at
    BY DEF NewEntry
  <2>4. QED
    BY <2>1, <2>2, <2>3
<1> HIDE DEF new
<1>2. n1 = [nt EXCEPT ![r.at] = new]
  BY DEF NatWritten, new
<1>3. n1 \in NatTables /\ n1[r.at] = new /\ \A e \in All \ {r.at} : n1[e] = nt[e]
  BY <1>1, <1>2 DEF NatTables
<1>4. /\ n2 \in NatTables /\ \A e \in All \ {r.prev} : n2[e] = n1[e]
      /\ r.prev = 0 => n2 = n1
      /\ r.prev # 0 => /\ n2[r.prev].next = r.at
                       /\ n2[r.prev].on = n1[r.prev].on
                       /\ n2[r.prev].flow = n1[r.prev].flow
                       /\ n2[r.prev].prev = n1[r.prev].prev
                       /\ n2[r.prev].ix = n1[r.prev].ix
  <2>1. CASE r.prev = 0
    BY <1>3, <2>1 DEF NatLinked
  <2>2. CASE r.prev # 0
    <3> DEFINE p == [n1[r.prev] EXCEPT !.next = r.at]
    <3>1. n2 = [n1 EXCEPT ![r.prev] = p]
      BY <2>2 DEF NatLinked
    <3>2. n1[r.prev] \in Entries
      BY <1>1, <1>3 DEF NatTables
    <3>3. /\ p \in Entries /\ p.next = r.at /\ p.on = n1[r.prev].on /\ p.flow = n1[r.prev].flow
          /\ p.prev = n1[r.prev].prev /\ p.ix = n1[r.prev].ix
      BY <1>1, <3>2, EntryFields
    <3> HIDE DEF p
    <3>4. n2[r.prev] = p /\ n2 \in NatTables /\ \A e \in All \ {r.prev} : n2[e] = n1[e]
      BY <1>1, <1>3, <3>1, <3>3 DEF NatTables
    <3>5. QED
      BY <2>2, <3>3, <3>4
  <2>3. QED
    BY <2>1, <2>2
<1>5. n2[r.at] = new
  BY <1>1, <1>3, <1>4
<1>6. /\ n3 \in NatTables /\ \A e \in All \ {r.at} : n3[e] = n2[e]
      /\ n3[r.at].on = TRUE /\ n3[r.at].flow = f /\ n3[r.at].next = 0
      /\ n3[r.at].prev = r.prev /\ n3[r.at].ix = x.at
  <2> DEFINE t == [n2[r.at] EXCEPT !.on = TRUE]
  <2>1. n3 = [n2 EXCEPT ![r.at] = t]
    BY DEF NatEnabled
  <2>2. /\ t \in Entries /\ t.on = TRUE /\ t.flow = f /\ t.next = 0
        /\ t.prev = r.prev /\ t.ix = x.at
    <3>1. n2[r.at] \in Entries
      BY <1>1, <1>5
    <3>2. /\ t \in Entries /\ t.on = TRUE /\ t.flow = n2[r.at].flow /\ t.next = n2[r.at].next
          /\ t.prev = n2[r.at].prev /\ t.ix = n2[r.at].ix
      BY <3>1, SwitchFields
    <3> HIDE DEF t
    <3>3. QED
      BY <1>1, <1>5, <3>2
  <2> HIDE DEF t
  <2>3. QED
    BY <1>1, <1>4, <2>1, <2>2 DEF NatTables
<1>7. /\ \A e \in All \ {r.at, r.prev} : n2[e] = nt[e]
      /\ r.prev # 0 => n1[r.prev] = nt[r.prev]
  BY <1>1, <1>3, <1>4
<1>8. n1[r.at] = NewEntry(f, r, x) /\ n2[r.at] = NewEntry(f, r, x)
  BY <1>3, <1>5 DEF new
<1>9. QED
  BY <1>3, <1>4, <1>6, <1>7, <1>8 DEF Added

\* The rule is found when it is enabled, not before; the others all the time.
LEMMA AddNat ==
    ASSUME NEW dst \in Hashes, NEW nt \in NatTables, NatLists(nt, dst),
           NEW f \in Flows, NEW r \in Slots, NEW x \in Slots,
           Place(nt, Enabled(nt), NatHome(nt, dst), dst[f], r),
           NEW n1, n1 = NatWritten(nt, f, r, x),
           NEW n2, n2 = NatLinked(nt, f, r, x),
           NEW n3, n3 = NatEnabled(nt, f, r, x)
    PROVE  /\ r.at \notin Enabled(nt)
           /\ NatLists(n3, dst)
           /\ Swept(nt) => Swept(n3)
           /\ NatFinds(n1, dst, Ruled(nt)) /\ NatFinds(n2, dst, Ruled(nt))
<1> DEFINE a == r.at
           l == r.prev
           U == Enabled(nt)
           home == NatHome(nt, dst)
           b == dst[f]
<1>1. /\ Linked(nt, PrevIn(nt), U, home)
      /\ \A e \in All \ U : nt[e] = Zero
      /\ \A e \in U : \/ nt[e].flow \in Flows /\ (e \in Base => dst[nt[e].flow] = e)
                      \/ nt[e].flow = Dead /\ e \in Base
  BY DEF NatLists
<1>2. /\ Linkage(nt) /\ U \subseteq All /\ Usable \subseteq All /\ 0 \notin U
      /\ U \cap Base \subseteq Usable \cap Base
  BY <1>1, LinkedLinks
<1>3. b \in Usable \cap Base /\ a \in Usable /\ a \in All /\ a # 0
  BY <1>2, NewEntryFields DEF Hashes
<1>4. a \notin U /\ l # a
  BY <1>3 DEF Place
<1>5. /\ n1 \in NatTables /\ n2 \in NatTables /\ n3 \in NatTables
      /\ \A e \in All \ {a} : n1[e] = nt[e]
      /\ n1[a] = NewEntry(f, r, x) /\ n2[a] = NewEntry(f, r, x)
      /\ \A e \in All \ {a, l} : n2[e] = nt[e]
      /\ l = 0 => n2 = n1
      /\ l # 0 => /\ n2[l].next = a
                  /\ n2[l].on = nt[l].on
                  /\ n2[l].flow = nt[l].flow
                  /\ n2[l].prev = nt[l].prev
                  /\ n2[l].ix = nt[l].ix
      /\ \A e \in All \ {a} : n3[e] = n2[e]
      /\ n3[a].on = TRUE /\ n3[a].flow = f /\ n3[a].next = 0
      /\ n3[a].prev = l /\ n3[a].ix = x.at
  <2>1. Added(nt, f, r, x, n1, n2, n3)
    BY <1>4, AddValues
  <2>2. QED
    BY <2>1 DEF Added
<1>6. NewEntry(f, r, x).next = 0 /\ nt[a].next = 0
  BY <1>1, <1>3, <1>4, NewEntryFields, ZeroFields
<1> DEFINE home3 == NatHome(n3, dst)
           prev3 == PrevIn(n3)
<1>7. /\ \A e \in All : n2[e].next = n3[e].next
      /\ \A e \in All : n1[e].next = nt[e].next
  BY <1>5, <1>6
<1>8. \A e \in All \ {a} : /\ n3[e].on = nt[e].on /\ n3[e].flow = nt[e].flow
                           /\ n3[e].prev = nt[e].prev
                           /\ e # l => n3[e].next = nt[e].next
  <2> SUFFICES ASSUME NEW e \in All \ {a}
               PROVE  /\ n3[e].on = nt[e].on /\ n3[e].flow = nt[e].flow
                      /\ n3[e].prev = nt[e].prev
                      /\ e # l => n3[e].next = nt[e].next
    OBVIOUS
  <2>1. n3[e] = n2[e]
    BY <1>5
  <2>2. CASE e = l /\ l # 0
    BY <1>5, <2>1, <2>2
  <2>3. CASE e # l
    BY <1>5, <2>1, <2>3
  <2>4. CASE l = 0
    BY <1>5, <2>1, <2>4
  <2>5. QED
    BY <2>2, <2>3, <2>4
<1>9. Enabled(n3) = U \cup {a}
  <2>1. \A e \in All : e \in Enabled(n3) <=> n3[e].on
    BY DEF Enabled
  <2>2. \A e \in All : e \in U <=> nt[e].on
    BY DEF Enabled
  <2>3. a \in Enabled(n3)
    BY <1>3, <1>5, <2>1
  <2>4. \A e \in All \ {a} : e \in Enabled(n3) <=> e \in U
    BY <1>8, <2>1, <2>2
  <2>5. Enabled(n3) \subseteq All
    BY DEF Enabled
  <2> HIDE DEF U
  <2>6. QED
    BY <1>2, <1>3, <2>3, <2>4, <2>5
<1>10. /\ \A e \in U : home3[e] = home[e]
       /\ \A e \in U : prev3[e] = PrevIn(nt)[e]
       /\ home3[a] = (IF a \in Base THEN a ELSE b) /\ prev3[a] = l
  <2>1. \A e \in U : e \in All \ {a}
    BY <1>2, <1>4
  <2>2. \A e \in All : home3[e] = IF e \in Base THEN e ELSE dst[n3[e].flow]
    BY DEF NatHome
  <2>3. \A e \in All : home[e] = IF e \in Base THEN e ELSE dst[nt[e].flow]
    BY DEF NatHome
  <2>4. \A e \in All : prev3[e] = n3[e].prev /\ PrevIn(nt)[e] = nt[e].prev
    BY DEF PrevIn
  <2> HIDE DEF home3, home, prev3, U
  <2>5. QED
    BY <1>3, <1>5, <1>8, <2>1, <2>2, <2>3, <2>4
<1>11. ASSUME a = b, l = 0
       PROVE  Linked(n3, prev3, U \cup {a}, home3)
  <2>1. a \in (Usable \cap Base) \ U /\ home3[a] = a
    BY <1>3, <1>4, <1>10, <1>11
  <2>2. \A e \in All : n3[e].next = nt[e].next
    BY <1>5, <1>6, <1>8, <1>11, <1>2, Sizes
  <2>3. \A e \in U \cap Expansion : prev3[e] = PrevIn(nt)[e]
    BY <1>10
  <2>4. \A e \in U : home3[e] = home[e]
    BY <1>10
  <2>5. Linked(nt, PrevIn(nt), U, home)
    BY <1>1
  <2> HIDE DEF home, home3, prev3, U, a, l
  <2>6. NewHead(nt, PrevIn(nt), U, home, n3, prev3, home3, a)
    BY <2>1, <2>2, <2>3, <2>4, <2>5 DEF NewHead
  <2>7. QED
    BY <2>6, LinkedNew
<1>12. ASSUME ~(a = b /\ l = 0)
       PROVE  Linked(n3, prev3, U \cup {a}, home3)
  <2>1. /\ a \in (Usable \cap Expansion) \ U
        /\ l \in U /\ nt[l].next = 0 /\ home[l] = b /\ l # 0
    BY <1>12 DEF Place
  <2>2. home3[a] = home[l]
    BY <1>10, <2>1, BaseOrExpansion
  <2>3. n3[l].next = a /\ l \in All
    BY <1>2, <1>4, <1>5, <2>1
  <2>4. \A e \in All \ {l} : n3[e].next = nt[e].next
    BY <1>5, <1>6, <1>8
  <2>5. \A e \in U \cap Expansion : prev3[e] = PrevIn(nt)[e]
    BY <1>10
  <2>6. prev3[a] = l /\ \A e \in U : home3[e] = home[e]
    BY <1>10
  <2> HIDE DEF home, home3, prev3, U, a, l
  <2>7. Linked(nt, PrevIn(nt), U, home)
    BY <1>1
  <2>8. NewTail(nt, PrevIn(nt), U, home, n3, prev3, home3, a, l)
    BY <2>1, <2>2, <2>3, <2>4, <2>5, <2>6, <2>7 DEF NewTail
  <2>9. QED
    BY <2>8, LinkedAppend
<1>13. Linked(n3, prev3, Enabled(n3), home3)
  BY <1>9, <1>11, <1>12
<1>14. NatLists(n3, dst)
  <2>1. \A e \in All \ Enabled(n3) : n3[e] = Zero
    <3> SUFFICES ASSUME NEW e \in All \ (U \cup {a}) PROVE n3[e] = Zero
      BY <1>9
    <3>1. l = 0 \/ l \in U
      BY DEF Place
    <3>2. e # l \/ n2 = n1
      BY <1>5, <3>1
    <3>3. QED
      BY <1>1, <1>5, <3>2
  <2>2. ASSUME NEW e \in Enabled(n3)
        PROVE  \/ n3[e].flow \in Flows /\ (e \in Base => dst[n3[e].flow] = e)
               \/ n3[e].flow = Dead /\ e \in Base
    <3>1. CASE e = a
      <4>1. a \in Base => a = b
        BY BaseOrExpansion DEF Place
      <4>2. QED
        BY <1>5, <3>1, <4>1
    <3>2. CASE e # a
      BY <1>1, <1>2, <1>8, <1>9, <3>2
    <3>3. QED
      BY <3>1, <3>2
  <2>3. QED
    BY <1>13, <2>1, <2>2 DEF NatLists
<1>15. Swept(nt) => Swept(n3)
  <2> SUFFICES ASSUME Swept(nt), NEW e \in All, n3[e].on, n3[e].flow = Dead
               PROVE  n3[e].next # 0
    BY DEF Swept
  <2>1. e # a
    BY <1>5, OtherNames
  <2>2. nt[e].on /\ nt[e].flow = Dead
    BY <1>8, <2>1
  <2>3. CASE e = l
    <3>1. l # 0
      BY <1>2, <2>2, <2>3, Sizes DEF Enabled
    <3>2. n3[e].next = a
      BY <1>5, <2>1, <2>3, <3>1
    <3>3. QED
      BY <1>3, <3>2
  <2>4. CASE e # l
    BY <1>8, <2>1, <2>2, <2>4 DEF Swept
  <2>5. QED
    BY <2>3, <2>4
<1>16. \A e \in Ruled(nt) : e \in Chain(nt, dst[nt[e].flow]) /\ dst[nt[e].flow] \in Usable \cap Base
  <2>1. NatFinds(nt, dst, Ruled(nt))
    BY ListsFind
  <2>2. QED
    BY <2>1 DEF NatFinds, Ruled, Hashes
<1>17. \A e \in Ruled(nt) : e \in All \ {a} /\ n1[e].flow = nt[e].flow /\ n2[e].flow = nt[e].flow
  <2>1. \A e \in Ruled(nt) : e \in U /\ e \in All \ {a}
    BY <1>4 DEF Ruled, Enabled
  <2>2. QED
    BY <1>5, <1>8, <2>1
<1>18. NatFinds(n1, dst, Ruled(nt))
  <2>1. \A c \in Usable \cap Base : Chain(n1, c) = Chain(nt, c)
    BY <1>2, <1>7, SameLinks
  <2>2. QED
    BY <1>16, <1>17, <2>1 DEF NatFinds
<1>19. NatFinds(n2, dst, Ruled(nt))
  <2>1. NatFinds(n3, dst, Ruled(n3))
    BY <1>14, ListsFind
  <2>2. Linkage(n3)
    BY <1>13, LinkedLinks
  <2>3. \A c \in Usable \cap Base : Chain(n2, c) = Chain(n3, c)
    BY <1>7, <2>2, SameLinks
  <2>4. \A e \in Ruled(nt) : e \in Ruled(n3) /\ n3[e].flow = nt[e].flow
    BY <1>8, <1>17 DEF Ruled
  <2>5. QED
    BY <1>16, <1>17, <2>1, <2>3, <2>4 DEF NatFinds
<1>20. QED
  BY <1>4, <1>14, <1>15, <1>18, <1>19

\* The enabled rules are those there were and the new one.
LEMMA AddRuled ==
    ASSUME NEW dst \in Hashes, NEW nt \in NatTables, NEW f \in Flows, NEW r \in Slots, NEW x \in Slots,
           r.at \notin Enabled(nt), r.prev = 0 \/ r.prev \in Enabled(nt), 0 \notin Enabled(nt),
           NEW n1, NEW n2, NEW n3, Added(nt, f, r, x, n1, n2, n3)
    PROVE  /\ Ruled(n3) = Ruled(nt) \cup {r.at}
           /\ \A e \in Ruled(nt) : /\ n1[e].flow = nt[e].flow /\ n2[e].flow = nt[e].flow
                                   /\ n3[e].flow = nt[e].flow
                                   /\ n1[e].ix = nt[e].ix /\ n3[e].ix = nt[e].ix
           /\ \A e \in All \ {r.at} : /\ n1[e].on = nt[e].on /\ n1[e].flow = nt[e].flow
                                      /\ n2[e].on = nt[e].on /\ n2[e].flow = nt[e].flow
                                      /\ n3[e].on = nt[e].on /\ n3[e].flow = nt[e].flow
           /\ n3[r.at].flow = f /\ n3[r.at].ix = x.at
           /\ ~n1[r.at].on /\ ~n2[r.at].on
<1> DEFINE a == r.at
           l == r.prev
<1>1. a \in All /\ x.at \in All /\ NewEntry(f, r, x).on = FALSE
  <2>1. a \in All /\ x.at \in All
    BY NewEntryFields, Zenon
  <2>2. NewEntry(f, r, x).on = FALSE
    BY DEF NewEntry
  <2>3. QED
    BY <2>1, <2>2
<1>2. /\ \A e \in All \ {a} : n1[e] = nt[e]
      /\ n1[a] = NewEntry(f, r, x) /\ n2[a] = NewEntry(f, r, x)
      /\ \A e \in All \ {a, l} : n2[e] = nt[e]
      /\ l = 0 => n2 = n1
      /\ l # 0 => n2[l].on = nt[l].on /\ n2[l].flow = nt[l].flow /\ n2[l].ix = nt[l].ix
      /\ \A e \in All \ {a} : n3[e] = n2[e]
      /\ n3[a].on = TRUE /\ n3[a].flow = f /\ n3[a].ix = x.at
  BY DEF Added
<1>3. ASSUME NEW e \in All \ {a}
      PROVE  /\ n1[e].on = nt[e].on /\ n1[e].flow = nt[e].flow /\ n1[e].ix = nt[e].ix
             /\ n2[e].on = nt[e].on /\ n2[e].flow = nt[e].flow /\ n2[e].ix = nt[e].ix
             /\ n3[e].on = nt[e].on /\ n3[e].flow = nt[e].flow /\ n3[e].ix = nt[e].ix
  <2>1. n1[e] = nt[e] /\ n3[e] = n2[e]
    BY <1>2
  <2>2. CASE e = l /\ l # 0
    BY <1>2, <2>1, <2>2
  <2>3. CASE e # l
    BY <1>2, <2>1, <2>3
  <2>4. CASE l = 0
    BY <1>2, <2>1, <2>4
  <2>5. QED
    BY <2>2, <2>3, <2>4
<1>4. Ruled(nt) \subseteq All \ {a}
  BY DEF Ruled, Enabled
<1>5. Ruled(n3) = Ruled(nt) \cup {a}
  <2>1. \A e \in All \ {a} : e \in Ruled(n3) <=> e \in Ruled(nt)
    BY <1>3 DEF Ruled
  <2>2. a \in Ruled(n3)
    BY <1>1, <1>2 DEF Ruled
  <2>3. Ruled(n3) \subseteq All /\ Ruled(nt) \subseteq All
    BY DEF Ruled
  <2> HIDE DEF a
  <2>4. QED
    BY <1>1, <1>4, <2>1, <2>2, <2>3
<1>6. ~n1[a].on /\ ~n2[a].on
  BY <1>1, <1>2
<1>7. QED
  BY <1>2, <1>3, <1>4, <1>5, <1>6

IdxAdded(it, r, x, i1, i2) ==
    /\ i1 \in IdxTables /\ i2 \in IdxTables
    /\ \A e \in All \ {x.at} : i1[e] = it[e]
    /\ i1[x.at] = [entry |-> r.at, next |-> 0] /\ i2[x.at] = [entry |-> r.at, next |-> 0]
    /\ \A e \in All \ {x.at, x.prev} : i2[e] = it[e]
    /\ x.prev = 0 => i2 = i1
    /\ x.prev # 0 => i2[x.prev].next = x.at /\ i2[x.prev].entry = it[x.prev].entry

LEMMA IdxAddValues ==
    ASSUME NEW it \in IdxTables, NEW r \in Slots, NEW x \in Slots, x.prev # x.at,
           NEW i1, i1 = IdxWritten(it, r, x),
           NEW i2, i2 = IdxLinked(it, r, x)
    PROVE  IdxAdded(it, r, x, i1, i2)
<1> DEFINE new == [entry |-> r.at, next |-> 0]
<1>1. x.at \in All /\ x.at # 0 /\ x.prev \in All /\ new \in Indexes
  BY Sizes DEF Slots, Usable, Indexes
<1> HIDE DEF new
<1>2. i1 = [it EXCEPT ![x.at] = new]
  BY DEF IdxWritten, new
<1>3. i1 \in IdxTables /\ i1[x.at] = new /\ \A e \in All \ {x.at} : i1[e] = it[e]
  BY <1>1, <1>2 DEF IdxTables
<1>4. /\ i2 \in IdxTables /\ \A e \in All \ {x.prev} : i2[e] = i1[e]
      /\ x.prev = 0 => i2 = i1
      /\ x.prev # 0 => i2[x.prev].next = x.at /\ i2[x.prev].entry = i1[x.prev].entry
  <2>1. CASE x.prev = 0
    BY <1>3, <2>1 DEF IdxLinked
  <2>2. CASE x.prev # 0
    <3> DEFINE p == [i1[x.prev] EXCEPT !.next = x.at]
    <3>1. i2 = [i1 EXCEPT ![x.prev] = p]
      BY <2>2 DEF IdxLinked
    <3>2. i1[x.prev] \in Indexes
      BY <1>1, <1>3 DEF IdxTables
    <3>3. p \in Indexes /\ p.next = x.at /\ p.entry = i1[x.prev].entry
      BY <1>1, <3>2, IndexFields
    <3> HIDE DEF p
    <3>4. i2[x.prev] = p /\ i2 \in IdxTables /\ \A e \in All \ {x.prev} : i2[e] = i1[e]
      BY <1>1, <1>3, <3>1, <3>3 DEF IdxTables
    <3>5. QED
      BY <2>2, <3>3, <3>4
  <2>3. QED
    BY <2>1, <2>2
<1>5. i2[x.at] = new
  BY <1>1, <1>3, <1>4
<1>6. /\ \A e \in All \ {x.at, x.prev} : i2[e] = it[e]
      /\ x.prev # 0 => i1[x.prev] = it[x.prev]
  BY <1>1, <1>3, <1>4
<1>7. i1[x.at] = [entry |-> r.at, next |-> 0] /\ i2[x.at] = [entry |-> r.at, next |-> 0]
  BY <1>3, <1>5 DEF new
<1>8. QED
  BY <1>3, <1>4, <1>6, <1>7 DEF IdxAdded

LEMMA AddIdx ==
    ASSUME NEW src \in Hashes, NEW nt \in NatTables, NEW it \in IdxTables, NEW mt \in Metas,
           IdxLists(nt, it, mt, src),
           NEW f \in Flows, NEW r \in Slots, NEW x \in Slots,
           Place(it, Taken(it), IdxHome(nt, it, src), src[f], x),
           NEW n3, Ruled(n3) = Ruled(nt) \cup {r.at}, r.at \notin Ruled(nt),
           \A e \in Ruled(nt) : n3[e].flow = nt[e].flow /\ n3[e].ix = nt[e].ix,
           n3[r.at].flow = f, n3[r.at].ix = x.at,
           NEW i1, i1 = IdxWritten(it, r, x),
           NEW i2, i2 = IdxLinked(it, r, x),
           NEW m1, m1 = MetaSet(mt, x)
    PROVE  /\ i1 \in IdxTables /\ i2 \in IdxTables /\ m1 \in Metas
           /\ IdxLists(n3, i2, m1, src)
           /\ IdxFinds(nt, i1, src, Ruled(nt)) /\ IdxFinds(nt, i2, src, Ruled(nt))
<1> DEFINE a == x.at
           l == x.prev
           U == Taken(it)
           home == IdxHome(nt, it, src)
           b == src[f]
           home3 == IdxHome(n3, i2, src)
<1>1. /\ Linked(it, mt, U, home)
      /\ \A y \in All \ U : it[y] = ZeroIdx
      /\ \A y \in U : it[y].entry \in Ruled(nt) /\ nt[it[y].entry].ix = y
      /\ \A e \in Ruled(nt) : nt[e].ix \in U /\ it[nt[e].ix].entry = e
  BY DEF IdxLists
<1>2. /\ Linkage(it) /\ U \subseteq All /\ Usable \subseteq All /\ 0 \notin U
      /\ U \cap Base \subseteq Usable \cap Base
  BY <1>1, LinkedLinks
<1>3. b \in Usable \cap Base /\ a \in Usable /\ a \in All /\ a # 0 /\ r.at # 0 /\ l \in All
  BY <1>2, NewEntryFields DEF Hashes
<1>4. a \notin U /\ l # a
  BY <1>3 DEF Place
<1>5. /\ i1 \in IdxTables /\ i2 \in IdxTables
      /\ \A e \in All \ {a} : i1[e] = it[e]
      /\ i1[a] = [entry |-> r.at, next |-> 0] /\ i2[a] = [entry |-> r.at, next |-> 0]
      /\ \A e \in All \ {a, l} : i2[e] = it[e]
      /\ l = 0 => i2 = i1
      /\ l # 0 => i2[l].next = a /\ i2[l].entry = it[l].entry
  <2>1. IdxAdded(it, r, x, i1, i2)
    BY <1>4, IdxAddValues
  <2>2. QED
    BY <2>1 DEF IdxAdded
<1>6. it[a].next = 0 /\ i2[a].entry = r.at /\ i2[a].next = 0 /\ i1[a].next = 0
  BY <1>1, <1>3, <1>4, <1>5, ZeroFields
<1>7. /\ \A e \in All : i1[e].next = it[e].next
      /\ \A e \in All \ {a, l} : i2[e].next = it[e].next
      /\ l = 0 => \A e \in All : i2[e].next = it[e].next
  BY <1>5, <1>6
<1>8. \A e \in All \ {a} : i2[e].entry = it[e].entry /\ i1[e].entry = it[e].entry
  <2> SUFFICES ASSUME NEW e \in All \ {a} PROVE i2[e].entry = it[e].entry
    BY <1>5
  <2>1. CASE e = l /\ l # 0
    BY <1>5, <2>1
  <2>2. CASE e # l
    BY <1>5, <2>2
  <2>3. CASE l = 0
    BY <1>5, <2>3
  <2>4. QED
    BY <2>1, <2>2, <2>3
<1>9. Taken(i2) = U \cup {a}
  <2>1. \A e \in All : e \in Taken(i2) <=> i2[e].entry # 0
    BY DEF Taken
  <2>2. \A e \in All : e \in U <=> it[e].entry # 0
    BY DEF Taken
  <2>3. a \in Taken(i2)
    BY <1>3, <1>6, <2>1
  <2>4. \A e \in All \ {a} : e \in Taken(i2) <=> e \in U
    BY <1>8, <2>1, <2>2
  <2>5. Taken(i2) \subseteq All
    BY DEF Taken
  <2> HIDE DEF U
  <2>6. QED
    BY <1>2, <1>3, <2>3, <2>4, <2>5
<1>10. m1 \in Metas /\ (\A u \in U \cap Expansion : m1[u] = mt[u]) /\ (a \in Expansion => m1[a] = l)
  <2>1. a \in Expansion <=> a >= table_entries
    BY <1>3, Sizes DEF Expansion, All, Slots
  <2>2. CASE a \in Expansion
    <3>1. m1 = [mt EXCEPT ![a] = l]
      BY <2>1, <2>2 DEF MetaSet
    <3>2. QED
      BY <1>3, <1>4, <2>2, <3>1 DEF Metas
  <2>3. CASE a \notin Expansion
    <3>1. m1 = mt
      BY <2>1, <2>3 DEF MetaSet
    <3>2. QED
      BY <2>3, <3>1
  <2>4. QED
    BY <2>2, <2>3
<1>11. (\A e \in U : home3[e] = home[e]) /\ home3[a] = b
  <2>1. \A e \in All : home3[e] = src[n3[i2[e].entry].flow] /\ home[e] = src[nt[it[e].entry].flow]
    BY DEF IdxHome
  <2>2. \A e \in U : e \in All \ {a} /\ it[e].entry \in Ruled(nt)
    BY <1>1, <1>2, <1>4
  <2> HIDE DEF home3, home, U
  <2>3. QED
    BY <1>3, <1>6, <1>8, <2>1, <2>2
<1>12. ASSUME a = b, l = 0
       PROVE  Linked(i2, m1, U \cup {a}, home3)
  <2>1. a \in (Usable \cap Base) \ U /\ home3[a] = a
    BY <1>3, <1>4, <1>11, <1>12
  <2>2. \A e \in All : i2[e].next = it[e].next
    BY <1>7, <1>12
  <2>3. \A e \in U \cap Expansion : m1[e] = mt[e]
    BY <1>10
  <2>4. \A e \in U : home3[e] = home[e]
    BY <1>11
  <2>5. Linked(it, mt, U, home)
    BY <1>1
  <2> HIDE DEF home, home3, U, a, l
  <2>6. NewHead(it, mt, U, home, i2, m1, home3, a)
    BY <2>1, <2>2, <2>3, <2>4, <2>5 DEF NewHead
  <2>7. QED
    BY <2>6, LinkedNew
<1>13. ASSUME ~(a = b /\ l = 0)
       PROVE  Linked(i2, m1, U \cup {a}, home3)
  <2>1. /\ a \in (Usable \cap Expansion) \ U
        /\ l \in U /\ it[l].next = 0 /\ home[l] = b /\ l # 0
    BY <1>13 DEF Place
  <2>2. home3[a] = home[l] /\ m1[a] = l
    BY <1>10, <1>11, <2>1
  <2>3. i2[l].next = a
    BY <1>5, <2>1
  <2>4. \A e \in All \ {l} : i2[e].next = it[e].next
    BY <1>6, <1>7
  <2>5. \A e \in U \cap Expansion : m1[e] = mt[e]
    BY <1>10
  <2>6. \A e \in U : home3[e] = home[e]
    BY <1>11
  <2>7. Linked(it, mt, U, home)
    BY <1>1
  <2> HIDE DEF home, home3, U, a, l
  <2>8. NewTail(it, mt, U, home, i2, m1, home3, a, l)
    BY <2>1, <2>2, <2>3, <2>4, <2>5, <2>6, <2>7 DEF NewTail
  <2>9. QED
    BY <2>8, LinkedAppend
<1>14. Linked(i2, m1, Taken(i2), home3)
  BY <1>9, <1>12, <1>13
<1>15. IdxLists(n3, i2, m1, src)
  <2>1. \A y \in All \ Taken(i2) : i2[y] = ZeroIdx
    <3> SUFFICES ASSUME NEW y \in All \ (U \cup {a}) PROVE i2[y] = ZeroIdx
      BY <1>9
    <3>1. l = 0 \/ l \in U
      BY DEF Place
    <3>2. y # l \/ i2 = i1
      BY <1>5, <3>1
    <3>3. QED
      BY <1>1, <1>5, <3>2
  <2>2. ASSUME NEW y \in Taken(i2)
        PROVE  i2[y].entry \in Ruled(n3) /\ n3[i2[y].entry].ix = y
    <3>1. CASE y = a
      BY <1>6, <3>1
    <3>2. CASE y # a
      <4>1. y \in U /\ i2[y].entry = it[y].entry
        BY <1>2, <1>8, <1>9, <3>2
      <4>2. QED
        BY <1>1, <4>1
    <3>3. QED
      BY <3>1, <3>2
  <2>3. ASSUME NEW e \in Ruled(n3)
        PROVE  n3[e].ix \in Taken(i2) /\ i2[n3[e].ix].entry = e
    <3>1. CASE e = r.at
      BY <1>6, <1>9, <3>1
    <3>2. CASE e # r.at
      <4>1. e \in Ruled(nt) /\ nt[e].ix \in U /\ it[nt[e].ix].entry = e /\ n3[e].ix = nt[e].ix
        BY <1>1, <3>2
      <4>2. i2[nt[e].ix].entry = e
        BY <1>2, <1>4, <1>8, <4>1
      <4>3. QED
        BY <1>9, <4>1, <4>2
    <3>3. QED
      BY <3>1, <3>2
  <2>4. QED
    BY <1>14, <2>1, <2>2, <2>3 DEF IdxLists
<1>16. \A e \in Ruled(nt) : /\ src[nt[e].flow] \in Usable \cap Base
                            /\ \E y \in Chain(it, src[nt[e].flow]) : it[y].entry = e
  <2>1. IdxFinds(nt, it, src, Ruled(nt))
    BY ListsFind
  <2>2. QED
    BY <2>1 DEF IdxFinds, Ruled, Hashes
<1>17. IdxFinds(nt, i1, src, Ruled(nt))
  <2>1. \A c \in Usable \cap Base : Chain(i1, c) = Chain(it, c)
    BY <1>2, <1>7, SameLinks
  <2>2. \A e \in Ruled(nt) : \A y \in Chain(it, src[nt[e].flow]) : it[y].entry = e => i1[y].entry = e
    <3> SUFFICES ASSUME NEW e \in Ruled(nt), NEW y \in Chain(it, src[nt[e].flow]), it[y].entry = e
                 PROVE  i1[y].entry = e
      OBVIOUS
    <3>1. y \in All /\ e # 0
      <4>1. 0 \notin Ruled(nt)
        <5>1. it[0].entry = 0
          BY <1>2, Sizes DEF Taken
        <5>2. nt[0].ix \in U => it[nt[0].ix].entry # 0
          BY DEF Taken
        <5>3. QED
          BY <1>1, <5>2
      <4>2. QED
        BY <1>2, <1>16, <4>1, ChainIs
    <3>2. y # a
      BY <1>1, <1>3, <1>4, <3>1, ZeroFields
    <3>3. QED
      BY <1>8, <3>1, <3>2
  <2>3. QED
    BY <1>16, <2>1, <2>2 DEF IdxFinds
<1>18. IdxFinds(nt, i2, src, Ruled(nt))
  <2>1. IdxFinds(n3, i2, src, Ruled(n3))
    BY <1>15, ListsFind
  <2>2. QED
    BY <2>1 DEF IdxFinds
<1>19. QED
  BY <1>5, <1>10, <1>15, <1>17, <1>18

-----------------------------------------------------------------------------
(* Taking the rule in entry e out, write by write.                         *)

NatPos(nt, e) == Pos(e, nt[e].next)
RuleCut(nt, e) ==
    CASE NatPos(nt, e) = "only" -> [nt EXCEPT ![e].on = FALSE]
      [] NatPos(nt, e) = "head" -> [nt EXCEPT ![e].flow = Dead]
      [] OTHER -> [nt EXCEPT ![nt[e].prev].next = nt[e].next]
RuleJoined(nt, e) ==
    IF NatPos(nt, e) = "middle" THEN [RuleCut(nt, e) EXCEPT ![nt[e].next].prev = nt[e].prev]
    ELSE RuleCut(nt, e)
RuleGone(nt, e) ==
    IF NatPos(nt, e) # "head" THEN [RuleJoined(nt, e) EXCEPT ![e] = Zero] ELSE RuleJoined(nt, e)

\* What the hardware finds in table d on the way: the other rules.
OthersFound(dst, nt, e, d) ==
    /\ d \in NatTables
    /\ NatFinds(d, dst, Ruled(nt) \ {e})
    /\ \A v \in Ruled(nt) \ {e} : d[v].on /\ d[v].flow = nt[v].flow
    /\ \A v \in All \ Ruled(nt) : ~(d[v].on /\ d[v].flow \in Flows)
    /\ d[e].flow \in Flows => d[e].flow = nt[e].flow

LEMMA RuledFacts ==
    ASSUME NEW dst \in Hashes, NEW nt \in NatTables, NatLists(nt, dst), NEW e \in Ruled(nt)
    PROVE  /\ e \in Enabled(nt) /\ e \in All /\ e # 0 /\ e \in Usable
           /\ nt[e].on /\ nt[e].flow \in Flows /\ nt[e] \in Entries
           /\ nt[e].next \in All /\ nt[e].prev \in All /\ nt[e].ix \in All
           /\ e \in Base <=> NatPos(nt, e) \in {"only", "head"}
           /\ NatPos(nt, e) \in {"only", "last"} <=> nt[e].next = 0
           /\ NatPos(nt, e) \in {"only", "head", "last", "middle"}
<1>1. e \in Enabled(nt) /\ e \in All /\ nt[e].on /\ nt[e].flow \in Flows
  BY DEF Ruled, Enabled
<1>2. e # 0 /\ e \in Usable
  <2>1. Linked(nt, PrevIn(nt), Enabled(nt), NatHome(nt, dst))
    BY DEF NatLists
  <2>2. Enabled(nt) \subseteq Usable /\ 0 \notin Usable
    BY <2>1 DEF Linked, Usable
  <2>3. QED
    BY <1>1, <2>2
<1>3. nt[e] \in Entries
  BY <1>1 DEF NatTables
<1>4. e \in Base <=> e < table_entries
  BY <1>1, Sizes DEF Base, All
<1>5. QED
  BY <1>1, <1>2, <1>3, <1>4, EntryFields DEF NatPos, Pos

\* Chains that lose no more than e.
LEMMA StillFound ==
    ASSUME NEW dst \in Hashes, NEW nt \in NatTables, NatLists(nt, dst), NEW e \in Ruled(nt),
           NEW d \in NatTables,
           \A b \in Usable \cap Base : Chain(nt, b) \ {e} \subseteq Chain(d, b),
           \A v \in All \ {e} : d[v].on = nt[v].on /\ d[v].flow = nt[v].flow,
           d[e].flow \in Flows => d[e].flow = nt[e].flow
    PROVE  OthersFound(dst, nt, e, d)
<1>1. \A v \in Ruled(nt) : /\ v \in All /\ nt[v].on /\ nt[v].flow \in Flows
                           /\ v \in Chain(nt, dst[nt[v].flow]) /\ dst[nt[v].flow] \in Usable \cap Base
  <2>1. NatFinds(nt, dst, Ruled(nt))
    BY ListsFind
  <2>2. QED
    BY <2>1 DEF NatFinds, Ruled, Hashes
<1>2. \A v \in Ruled(nt) \ {e} : d[v].on /\ d[v].flow = nt[v].flow
  BY <1>1
<1>3. \A v \in All \ Ruled(nt) : ~(d[v].on /\ d[v].flow \in Flows)
  <2>1. \A v \in All \ Ruled(nt) : v # e /\ ~(nt[v].on /\ nt[v].flow \in Flows)
    BY DEF Ruled
  <2>2. QED
    BY <2>1
<1>4. NatFinds(d, dst, Ruled(nt) \ {e})
  BY <1>1, <1>2 DEF NatFinds
<1>5. QED
  BY <1>2, <1>3, <1>4 DEF OthersFound

RuleOut(dst, nt, e, d1, d2, d3) ==
    /\ OthersFound(dst, nt, e, d1) /\ OthersFound(dst, nt, e, d2) /\ OthersFound(dst, nt, e, d3)
    /\ NatLists(d3, dst)
    /\ \A v \in All \ {e} : d3[v].ix = nt[v].ix /\ d3[v].on = nt[v].on /\ d3[v].flow = nt[v].flow
    /\ d3[e].flow \notin Flows

\* The only rule of a list.
LEMMA OnlyOut ==
    ASSUME NEW dst \in Hashes, NEW nt \in NatTables, NatLists(nt, dst), NEW e \in Ruled(nt),
           NatPos(nt, e) = "only",
           NEW d1, d1 = RuleCut(nt, e), NEW d2, d2 = RuleJoined(nt, e), NEW d3, d3 = RuleGone(nt, e)
    PROVE  RuleOut(dst, nt, e, d1, d2, d3)
<1> DEFINE U == Enabled(nt)
           home == NatHome(nt, dst)
           home3 == NatHome(d3, dst)
           prev3 == PrevIn(d3)
           t == [nt[e] EXCEPT !.on = FALSE]
<1>1. /\ Linked(nt, PrevIn(nt), U, home)
      /\ \A v \in All \ U : nt[v] = Zero
      /\ \A v \in U : \/ nt[v].flow \in Flows /\ (v \in Base => dst[nt[v].flow] = v)
                      \/ nt[v].flow = Dead /\ v \in Base
  BY DEF NatLists
<1>2. /\ Linkage(nt) /\ U \subseteq All /\ U \cap Base \subseteq Usable \cap Base
  BY <1>1, LinkedLinks
<1>3. e \in U \cap Base /\ e \in All /\ nt[e].next = 0 /\ nt[e] \in Entries
  BY RuledFacts
<1>4. d1 = [nt EXCEPT ![e] = t] /\ d2 = d1 /\ d3 = [d1 EXCEPT ![e] = Zero]
  BY DEF RuleCut, RuleJoined, RuleGone
<1>5. t \in Entries /\ t.on = FALSE /\ t.flow = nt[e].flow /\ t.next = 0
  BY <1>3, SwitchFields
<1> HIDE DEF t
<1>6. /\ d1 \in NatTables /\ d1[e] = t /\ \A v \in All \ {e} : d1[v] = nt[v]
      /\ d3 \in NatTables /\ d3[e] = Zero /\ \A v \in All \ {e} : d3[v] = nt[v]
  BY <1>3, <1>4, <1>5, ZeroFields DEF NatTables
<1>7. \A v \in All : d1[v].next = nt[v].next /\ d3[v].next = nt[v].next
  BY <1>3, <1>5, <1>6, ZeroFields
<1>8. \A b \in Usable \cap Base : Chain(d1, b) = Chain(nt, b) /\ Chain(d3, b) = Chain(nt, b)
  BY <1>2, <1>7, SameLinks
<1>9. d3[e].flow \notin Flows /\ d3[e].on = FALSE
  BY <1>6, ZeroFields, OtherNames
<1>10. OthersFound(dst, nt, e, d1) /\ OthersFound(dst, nt, e, d2) /\ OthersFound(dst, nt, e, d3)
  BY <1>4, <1>5, <1>6, <1>8, <1>9, StillFound
<1>11. Enabled(d3) = U \ {e}
  BY <1>6, <1>9 DEF Enabled
<1>12. Linked(d3, prev3, U \ {e}, home3)
  <2>1. \A v \in U \ {e} : prev3[v] = PrevIn(nt)[v] /\ home3[v] = home[v]
    BY <1>2, <1>6 DEF PrevIn, NatHome
  <2>2. {e} \subseteq U \cap Base /\ \A u \in {e} : nt[u].next = 0
    BY <1>3
  <2> HIDE DEF home, home3, prev3, U
  <2>3. Freed(nt, PrevIn(nt), U, home, d3, prev3, home3, {e})
    BY <1>1, <1>7, <2>1, <2>2 DEF Freed
  <2>4. QED
    BY <2>3, LinkedFree
<1>13. NatLists(d3, dst)
  <2>1. \A v \in All \ Enabled(d3) : d3[v] = Zero
    BY <1>1, <1>6, <1>11
  <2>2. \A v \in Enabled(d3) : \/ d3[v].flow \in Flows /\ (v \in Base => dst[d3[v].flow] = v)
                               \/ d3[v].flow = Dead /\ v \in Base
    BY <1>1, <1>2, <1>6, <1>11
  <2>3. QED
    BY <1>11, <1>12, <2>1, <2>2 DEF NatLists
<1>14. QED
  BY <1>6, <1>9, <1>10, <1>13 DEF RuleOut

\* The head of a list that goes on: it stays and matches nothing.
LEMMA HeadOut ==
    ASSUME NEW dst \in Hashes, NEW nt \in NatTables, NatLists(nt, dst), NEW e \in Ruled(nt),
           NatPos(nt, e) = "head",
           NEW d1, d1 = RuleCut(nt, e), NEW d2, d2 = RuleJoined(nt, e), NEW d3, d3 = RuleGone(nt, e)
    PROVE  RuleOut(dst, nt, e, d1, d2, d3)
<1> DEFINE U == Enabled(nt)
           home == NatHome(nt, dst)
           home3 == NatHome(d3, dst)
           prev3 == PrevIn(d3)
           t == [nt[e] EXCEPT !.flow = Dead]
<1>1. /\ Linked(nt, PrevIn(nt), U, home)
      /\ \A v \in All \ U : nt[v] = Zero
      /\ \A v \in U : \/ nt[v].flow \in Flows /\ (v \in Base => dst[nt[v].flow] = v)
                      \/ nt[v].flow = Dead /\ v \in Base
  BY DEF NatLists
<1>2. /\ Linkage(nt) /\ U \subseteq All /\ U \cap Base \subseteq Usable \cap Base
  BY <1>1, LinkedLinks
<1>3. e \in U \cap Base /\ e \in All /\ nt[e] \in Entries /\ nt[e].on
  BY RuledFacts
<1>4. d1 = [nt EXCEPT ![e] = t] /\ d2 = d1 /\ d3 = d1
  BY DEF RuleCut, RuleJoined, RuleGone
<1>5. /\ t \in Entries /\ t.on = nt[e].on /\ t.flow = Dead /\ t.next = nt[e].next
      /\ t.prev = nt[e].prev
  <2>1. Dead \in Matched
    BY DEF Matched
  <2> DEFINE old == nt[e]
             new == [old EXCEPT !.flow = Dead]
  <2>2. old \in Entries /\ new = t
    BY <1>3
  <2> HIDE DEF old
  <2>3. /\ new \in Entries /\ new.on = old.on /\ new.flow = Dead /\ new.next = old.next
        /\ new.prev = old.prev
    BY <2>1, <2>2, EntryFields
  <2> HIDE DEF new, t
  <2>4. QED
    BY <2>2, <2>3 DEF old
<1> HIDE DEF t
<1>6. d3 \in NatTables /\ d3[e] = t /\ \A v \in All \ {e} : d3[v] = nt[v]
  BY <1>3, <1>4, <1>5 DEF NatTables
<1>7. \A v \in All : d3[v].next = nt[v].next /\ d3[v].prev = nt[v].prev
  BY <1>3, <1>5, <1>6
<1>8. \A b \in Usable \cap Base : Chain(d3, b) = Chain(nt, b)
  BY <1>2, <1>7, SameLinks
<1>9. d3[e].flow \notin Flows /\ d3[e].on
  BY <1>3, <1>5, <1>6, OtherNames
<1>10. OthersFound(dst, nt, e, d1) /\ OthersFound(dst, nt, e, d2) /\ OthersFound(dst, nt, e, d3)
  BY <1>4, <1>6, <1>8, <1>9, StillFound
<1>11. Enabled(d3) = U
  BY <1>3, <1>6, <1>9 DEF Enabled
<1>12. Linked(d3, prev3, U, home3)
  <2>1. \A v \in U : prev3[v] = PrevIn(nt)[v]
    BY <1>2, <1>7 DEF PrevIn
  <2>2. \A v \in U : home3[v] = home[v]
    BY <1>2, <1>3, <1>6 DEF NatHome
  <2>3. U \ {} = U
    OBVIOUS
  <2> HIDE DEF home, home3, prev3, U
  <2>4. Freed(nt, PrevIn(nt), U, home, d3, prev3, home3, {})
    BY <1>1, <1>7, <2>1, <2>2 DEF Freed
  <2>5. QED
    BY <2>3, <2>4, LinkedFree
<1>13. NatLists(d3, dst)
  <2>1. \A v \in All \ Enabled(d3) : d3[v] = Zero
    BY <1>1, <1>3, <1>6, <1>11
  <2>2. ASSUME NEW v \in Enabled(d3)
        PROVE  \/ d3[v].flow \in Flows /\ (v \in Base => dst[d3[v].flow] = v)
               \/ d3[v].flow = Dead /\ v \in Base
    <3>1. CASE v = e
      BY <1>3, <1>5, <1>6, <3>1
    <3>2. CASE v # e
      BY <1>1, <1>2, <1>6, <1>11, <3>2
    <3>3. QED
      BY <3>1, <3>2
  <2>3. QED
    BY <1>11, <1>12, <2>1, <2>2 DEF NatLists
<1>14. QED
  BY <1>6, <1>9, <1>10, <1>13 DEF RuleOut

\* A rule behind others.
LEMMA LaterOut ==
    ASSUME NEW dst \in Hashes, NEW nt \in NatTables, NatLists(nt, dst), NEW e \in Ruled(nt),
           NatPos(nt, e) \in {"last", "middle"},
           NEW d1, d1 = RuleCut(nt, e), NEW d2, d2 = RuleJoined(nt, e), NEW d3, d3 = RuleGone(nt, e)
    PROVE  RuleOut(dst, nt, e, d1, d2, d3)
<1> DEFINE U == Enabled(nt)
           home == NatHome(nt, dst)
           home3 == NatHome(d3, dst)
           prev3 == PrevIn(d3)
           p == nt[e].prev
           n == nt[e].next
           t == [nt[p] EXCEPT !.next = n]
<1>1. /\ Linked(nt, PrevIn(nt), U, home)
      /\ \A v \in All \ U : nt[v] = Zero
      /\ \A v \in U : \/ nt[v].flow \in Flows /\ (v \in Base => dst[nt[v].flow] = v)
                      \/ nt[v].flow = Dead /\ v \in Base
  BY DEF NatLists
<1>2. /\ Linkage(nt) /\ U \subseteq All /\ U \cap Base \subseteq Usable \cap Base
  BY <1>1, LinkedLinks
<1>3. /\ e \in U /\ e \in All /\ e \notin Base /\ n \in All /\ p \in All /\ nt[e] \in Entries
      /\ NatPos(nt, e) = "last" <=> n = 0
  BY RuledFacts
<1>4. e \in U \cap Expansion /\ PrevIn(nt)[e] = p
  BY <1>3, BaseOrExpansion DEF PrevIn
<1>5. /\ p \in U /\ nt[p].next = e /\ p # e /\ n # e /\ n # p
      /\ n # 0 => n \in U \cap Expansion
  BY <1>1, <1>4, LinkedApart
<1>6. /\ t \in Entries /\ t.next = n /\ t.on = nt[p].on /\ t.flow = nt[p].flow
      /\ t.prev = nt[p].prev /\ t.ix = nt[p].ix
  BY <1>3, EntryFields DEF NatTables
<1>7. d1 = [nt EXCEPT ![p] = t] /\ d3 = [d2 EXCEPT ![e] = Zero]
  BY DEF RuleCut, RuleGone
<1>8. d1 \in NatTables /\ d1[p] = t /\ \A v \in All \ {p} : d1[v] = nt[v]
  <2> HIDE DEF t
  <2>1. QED
    BY <1>3, <1>6, <1>7 DEF NatTables
<1>9. /\ d2 \in NatTables /\ \A v \in All \ {n} : d2[v] = d1[v]
      /\ n = 0 => d2 = d1
      /\ n # 0 => /\ d2[n].prev = p /\ d2[n].on = d1[n].on /\ d2[n].flow = d1[n].flow
                  /\ d2[n].next = d1[n].next /\ d2[n].ix = d1[n].ix
  <2>1. CASE n = 0
    BY <1>3, <1>8, <2>1 DEF RuleJoined
  <2>2. CASE n # 0
    <3> DEFINE s == [d1[n] EXCEPT !.prev = p]
    <3>1. d2 = [d1 EXCEPT ![n] = s]
      BY <1>3, <2>2 DEF RuleJoined
    <3>2. /\ s \in Entries /\ s.prev = p /\ s.on = d1[n].on /\ s.flow = d1[n].flow
          /\ s.next = d1[n].next /\ s.ix = d1[n].ix
      BY <1>3, <1>8, EntryFields DEF NatTables
    <3> HIDE DEF s
    <3>3. QED
      BY <1>3, <1>8, <2>2, <3>1, <3>2 DEF NatTables
  <2>3. QED
    BY <2>1, <2>2
<1>10. d3 \in NatTables /\ d3[e] = Zero /\ \A v \in All \ {e} : d3[v] = d2[v]
  BY <1>3, <1>7, <1>9, ZeroFields DEF NatTables
<1> HIDE DEF t
<1>11. \A v \in All : /\ d1[v].on = nt[v].on /\ d1[v].flow = nt[v].flow /\ d1[v].ix = nt[v].ix
                      /\ d1[v].prev = nt[v].prev
                      /\ v # p => d1[v].next = nt[v].next
  BY <1>6, <1>8
<1>12. \A v \in All : /\ d2[v].on = nt[v].on /\ d2[v].flow = nt[v].flow /\ d2[v].ix = nt[v].ix
                      /\ v # n => d2[v].prev = nt[v].prev
                      /\ d2[v].next = d1[v].next
  <2> SUFFICES ASSUME NEW v \in All
               PROVE  /\ d2[v].on = nt[v].on /\ d2[v].flow = nt[v].flow /\ d2[v].ix = nt[v].ix
                      /\ v # n => d2[v].prev = nt[v].prev
                      /\ d2[v].next = d1[v].next
    OBVIOUS
  <2>1. CASE v # n \/ n = 0
    <3>1. d2[v] = d1[v]
      BY <1>9, <2>1
    <3>2. QED
      BY <1>11, <3>1
  <2>2. CASE v = n /\ n # 0
    BY <1>9, <1>11, <2>2
  <2>3. QED
    BY <2>1, <2>2
<1>13. \A v \in All \ {e} : /\ d3[v].on = nt[v].on /\ d3[v].flow = nt[v].flow /\ d3[v].ix = nt[v].ix
                            /\ v # n => d3[v].prev = nt[v].prev
                            /\ v # p => d3[v].next = nt[v].next
  BY <1>10, <1>11, <1>12
<1>14. /\ d1[p].next = n /\ d2[p].next = n /\ d3[p].next = n
       /\ d1[e].next = n /\ d2[e].next = n /\ d3[e].next = 0
       /\ n # 0 => d3[n].prev = p
  BY <1>3, <1>5, <1>6, <1>8, <1>9, <1>10, <1>11, <1>12, ZeroFields
<1>15. ASSUME NEW d \in NatTables, d[p].next = n, d[e].next \in {0, n},
              \A v \in All \ {e, p} : d[v].next = nt[v].next,
              \A v \in All \ {e} : d[v].on = nt[v].on /\ d[v].flow = nt[v].flow,
              d[e].flow \in Flows => d[e].flow = nt[e].flow
       PROVE  OthersFound(dst, nt, e, d)
  <2>1. LedAround(nt, PrevIn(nt), U, home, d, e)
    BY <1>1, <1>4, <1>15 DEF LedAround
  <2>2. \A b \in Usable \cap Base : Chain(nt, b) \ {e} \subseteq Chain(d, b)
    BY <2>1, LinkedAround
  <2>3. QED
    BY <1>15, <2>2, StillFound
<1>16. OthersFound(dst, nt, e, d1)
  BY <1>3, <1>8, <1>11, <1>14, <1>15
<1>17. OthersFound(dst, nt, e, d2)
  BY <1>3, <1>9, <1>11, <1>12, <1>14, <1>15
<1>18. d3[e].flow \notin Flows /\ d3[e].on = FALSE
  BY <1>10, ZeroFields, OtherNames
<1>19. OthersFound(dst, nt, e, d3)
  BY <1>10, <1>13, <1>14, <1>15, <1>18
<1>20. Enabled(d3) = U \ {e}
  <2>1. \A v \in All \ {e} : d3[v].on = nt[v].on
    BY <1>13
  <2>2. QED
    BY <1>18, <2>1 DEF Enabled
<1>21. Linked(d3, prev3, U \ {e}, home3)
  <2>1. \A v \in (U \cap Expansion) \ {e, n} : prev3[v] = PrevIn(nt)[v]
    BY <1>2, <1>13 DEF PrevIn
  <2>2. n # 0 => prev3[n] = p
    BY <1>3, <1>14 DEF PrevIn
  <2>3. \A v \in U \ {e} : home3[v] = home[v]
    BY <1>2, <1>13 DEF NatHome
  <2>4. \A v \in All \ {e, p} : d3[v].next = nt[v].next
    BY <1>13
  <2> HIDE DEF home, home3, prev3, U
  <2>5. Unlinked(nt, PrevIn(nt), U, home, d3, prev3, home3, e)
    BY <1>1, <1>4, <1>14, <2>1, <2>2, <2>3, <2>4 DEF Unlinked
  <2>6. QED
    BY <2>5, LinkedUnlink
<1>22. NatLists(d3, dst)
  <2>1. \A v \in All \ Enabled(d3) : d3[v] = Zero
    <3> SUFFICES ASSUME NEW v \in All \ (U \ {e}), v # e PROVE d3[v] = Zero
      BY <1>10, <1>20
    <3>1. v \notin U /\ nt[v] = Zero
      BY <1>1
    <3>2. v # p /\ (v # n \/ n = 0)
      BY <1>5, <3>1
    <3>3. QED
      BY <1>8, <1>9, <1>10, <3>1, <3>2
  <2>2. \A v \in Enabled(d3) : \/ d3[v].flow \in Flows /\ (v \in Base => dst[d3[v].flow] = v)
                               \/ d3[v].flow = Dead /\ v \in Base
    BY <1>1, <1>2, <1>13, <1>20
  <2>3. QED
    BY <1>20, <1>21, <2>1, <2>2 DEF NatLists
<1>23. QED
  BY <1>13, <1>16, <1>17, <1>18, <1>19, <1>22 DEF RuleOut

LEMMA NatDel ==
    ASSUME NEW dst \in Hashes, NEW nt \in NatTables, NatLists(nt, dst), NEW e \in Ruled(nt),
           NEW d1, d1 = RuleCut(nt, e), NEW d2, d2 = RuleJoined(nt, e), NEW d3, d3 = RuleGone(nt, e)
    PROVE  RuleOut(dst, nt, e, d1, d2, d3)
<1>1. NatPos(nt, e) \in {"only", "head", "last", "middle"}
  BY RuledFacts
<1>2. CASE NatPos(nt, e) = "only"
  BY <1>2, OnlyOut
<1>3. CASE NatPos(nt, e) = "head"
  BY <1>3, HeadOut
<1>4. CASE NatPos(nt, e) \in {"last", "middle"}
  BY <1>4, LaterOut
<1>5. QED
  BY <1>1, <1>2, <1>3, <1>4

\* The same links and the same rules.
LEMMA FoundSame ==
    ASSUME NEW dst \in Hashes, NEW nt \in NatTables, NEW e \in Ruled(nt),
           NEW d, OthersFound(dst, nt, e, d), Linkage(d), NEW d2 \in NatTables,
           \A v \in All : d2[v].next = d[v].next,
           \A v \in All : \/ d2[v].on = d[v].on /\ d2[v].flow = d[v].flow
                          \/ d2[v].flow \notin Flows /\ d[v].flow \notin Flows
    PROVE  OthersFound(dst, nt, e, d2)
<1>1. \A b \in Usable \cap Base : Chain(d2, b) = Chain(d, b)
  BY SameLinks
<1>2. \A v \in Ruled(nt) : v \in All /\ nt[v].flow \in Flows /\ dst[nt[v].flow] \in Usable \cap Base
  BY DEF Ruled, Hashes
<1>3. /\ NatFinds(d, dst, Ruled(nt) \ {e})
      /\ \A v \in Ruled(nt) \ {e} : d[v].on /\ d[v].flow = nt[v].flow
      /\ \A v \in All \ Ruled(nt) : ~(d[v].on /\ d[v].flow \in Flows)
      /\ d[e].flow \in Flows => d[e].flow = nt[e].flow
  BY DEF OthersFound
<1>4. \A v \in Ruled(nt) \ {e} : d2[v].on /\ d2[v].flow = nt[v].flow /\ d2[v].flow = d[v].flow
  BY <1>2, <1>3
<1>5. NatFinds(d2, dst, Ruled(nt) \ {e})
  BY <1>1, <1>2, <1>3, <1>4 DEF NatFinds
<1>6. \A v \in All \ Ruled(nt) : ~(d2[v].on /\ d2[v].flow \in Flows)
  BY <1>3
<1>7. d2[e].flow \in Flows => d2[e].flow = nt[e].flow
  BY <1>2, <1>3
<1>8. QED
  BY <1>4, <1>5, <1>6, <1>7 DEF OthersFound

Indexed(d, a, x) == [d EXCEPT ![a].ix = x]

LEMMA IndexedKeeps ==
    ASSUME NEW dst \in Hashes, NEW nt \in NatTables, NEW e \in Ruled(nt),
           NEW d, OthersFound(dst, nt, e, d), NatLists(d, dst),
           NEW a \in Enabled(d), NEW x \in All, NEW d2, d2 = Indexed(d, a, x)
    PROVE  /\ OthersFound(dst, nt, e, d2) /\ NatLists(d2, dst)
           /\ d2[a].ix = x /\ \A v \in All \ {a} : d2[v].ix = d[v].ix
           /\ \A v \in All : d2[v].on = d[v].on /\ d2[v].flow = d[v].flow
<1> DEFINE t == [d[a] EXCEPT !.ix = x]
           U == Enabled(d)
           home == NatHome(d, dst)
           home2 == NatHome(d2, dst)
<1>1. a \in All /\ d \in NatTables /\ d[a] \in Entries
  BY DEF Enabled, OthersFound, NatTables
<1>2. /\ t \in Entries /\ t.on = d[a].on /\ t.flow = d[a].flow /\ t.next = d[a].next
      /\ t.prev = d[a].prev /\ t.ix = x
  BY <1>1, EntryFields
<1>3. d2 = [d EXCEPT ![a] = t]
  BY DEF Indexed
<1> HIDE DEF t
<1>4. d2 \in NatTables /\ d2[a] = t /\ \A v \in All \ {a} : d2[v] = d[v]
  BY <1>1, <1>2, <1>3 DEF NatTables
<1>5. \A v \in All : /\ d2[v].on = d[v].on /\ d2[v].flow = d[v].flow
                     /\ d2[v].next = d[v].next /\ d2[v].prev = d[v].prev
  BY <1>1, <1>2, <1>4
<1>6. Linked(d, PrevIn(d), U, home) /\ Linkage(d) /\ U \subseteq All
  <2>1. Linked(d, PrevIn(d), U, home)
    BY DEF NatLists
  <2>2. QED
    BY <2>1, LinkedLinks
<1>7. OthersFound(dst, nt, e, d2)
  BY <1>4, <1>5, <1>6, FoundSame
<1>8. Enabled(d2) = U
  BY <1>5 DEF Enabled
<1>9. Linked(d2, PrevIn(d2), U, home2)
  <2>1. \A v \in U : PrevIn(d2)[v] = PrevIn(d)[v]
    BY <1>5, <1>6 DEF PrevIn
  <2>2. \A v \in U : home2[v] = home[v]
    BY <1>5, <1>6 DEF NatHome
  <2>3. U \ {} = U
    OBVIOUS
  <2> HIDE DEF home, home2, U
  <2>4. Freed(d, PrevIn(d), U, home, d2, PrevIn(d2), home2, {})
    BY <1>5, <1>6, <2>1, <2>2 DEF Freed
  <2>5. QED
    BY <2>3, <2>4, LinkedFree
<1>10. NatLists(d2, dst)
  <2>1. \A v \in All \ U : d2[v] = Zero
    BY <1>4 DEF NatLists
  <2>2. \A v \in U : \/ d2[v].flow \in Flows /\ (v \in Base => dst[d2[v].flow] = v)
                     \/ d2[v].flow = Dead /\ v \in Base
    BY <1>5, <1>6 DEF NatLists
  <2>3. QED
    BY <1>8, <1>9, <2>1, <2>2 DEF NatLists
<1>11. QED
  BY <1>2, <1>4, <1>5, <1>7, <1>10

Sweep(d) == [e \in All |-> IF e \in Base /\ d[e].flow = Dead /\ d[e].next = 0 THEN Zero ELSE d[e]]

LEMMA SweepKeepsLists ==
    ASSUME NEW dst \in Hashes, NEW nt \in NatTables, NEW e \in Ruled(nt),
           NEW d, OthersFound(dst, nt, e, d), NatLists(d, dst), NEW d2, d2 = Sweep(d)
    PROVE  /\ OthersFound(dst, nt, e, d2) /\ NatLists(d2, dst) /\ Swept(d2)
           /\ Ruled(d2) = Ruled(d) /\ \A v \in Ruled(d) : d2[v] = d[v]
<1> DEFINE gone == {v \in All : v \in Base /\ d[v].flow = Dead /\ d[v].next = 0}
           U == Enabled(d)
           home == NatHome(d, dst)
           home2 == NatHome(d2, dst)
<1>1. /\ d \in NatTables
      /\ Linked(d, PrevIn(d), U, home)
      /\ \A v \in All \ U : d[v] = Zero
      /\ \A v \in U : \/ d[v].flow \in Flows /\ (v \in Base => dst[d[v].flow] = v)
                      \/ d[v].flow = Dead /\ v \in Base
  BY DEF OthersFound, NatLists
<1>2. Linkage(d) /\ U \subseteq All
  BY <1>1, LinkedLinks
<1>3. /\ d2 \in NatTables
      /\ \A v \in gone : d2[v] = Zero
      /\ \A v \in All \ gone : d2[v] = d[v]
  <2>1. \A v \in All : d2[v] \in Entries
    BY <1>1, ZeroFields DEF Sweep, NatTables
  <2>2. QED
    BY <2>1 DEF Sweep, NatTables
<1>4. \A v \in All : d2[v].next = d[v].next
  BY <1>3, ZeroFields
<1>5. \A v \in gone : v \in U /\ v \in All /\ v \in Base /\ d[v].flow \notin Flows /\ d2[v].flow \notin Flows
  <2>1. \A v \in gone : v \in All /\ v \in Base /\ d[v].flow = Dead /\ d[v] # Zero
    BY ZeroFields, OtherNames
  <2>2. QED
    BY <1>1, <1>3, <2>1, ZeroFields, OtherNames
<1>6. OthersFound(dst, nt, e, d2)
  <2>1. \A v \in All : \/ d2[v].on = d[v].on /\ d2[v].flow = d[v].flow
                       \/ d2[v].flow \notin Flows /\ d[v].flow \notin Flows
    BY <1>3, <1>5
  <2>2. QED
    BY <1>2, <1>3, <1>4, <2>1, FoundSame
<1>7. Enabled(d2) = U \ gone
  <2>1. \A v \in All : v \in Enabled(d2) <=> d2[v].on
    BY DEF Enabled
  <2>2. \A v \in All : v \in U <=> d[v].on
    BY DEF Enabled
  <2>3. Enabled(d2) \subseteq All
    BY DEF Enabled
  <2>4. \A v \in gone : v \notin Enabled(d2)
    BY <1>3, <2>1, ZeroFields
  <2> HIDE DEF gone, U
  <2>5. QED
    BY <1>2, <1>3, <2>1, <2>2, <2>3, <2>4
<1>8. Linked(d2, PrevIn(d2), U \ gone, home2)
  <2>1. \A v \in (U \ gone) : PrevIn(d2)[v] = PrevIn(d)[v]
    BY <1>2, <1>3 DEF PrevIn
  <2>2. \A v \in U \ gone : home2[v] = home[v]
    BY <1>2, <1>3 DEF NatHome
  <2>3. gone \subseteq U \cap Base /\ \A v \in gone : d[v].next = 0
    BY <1>5
  <2> HIDE DEF home, home2, U, gone
  <2>4. Freed(d, PrevIn(d), U, home, d2, PrevIn(d2), home2, gone)
    BY <1>1, <1>4, <2>1, <2>2, <2>3 DEF Freed
  <2>5. QED
    BY <2>4, LinkedFree
<1>9. NatLists(d2, dst)
  <2>1. \A v \in All \ (U \ gone) : d2[v] = Zero
    BY <1>1, <1>3
  <2>2. \A v \in U \ gone : \/ d2[v].flow \in Flows /\ (v \in Base => dst[d2[v].flow] = v)
                            \/ d2[v].flow = Dead /\ v \in Base
    BY <1>1, <1>2, <1>3
  <2>3. QED
    BY <1>7, <1>8, <2>1, <2>2 DEF NatLists
<1>10. Swept(d2)
  <2>1. \A v \in All : d2[v].flow = Dead => v \notin gone
    BY <1>3, ZeroFields, OtherNames
  <2>2. \A v \in U \ gone : d[v].flow = Dead => d[v].next # 0
    <3>1. \A v \in U \ gone : d[v].flow = Dead => v \in Base
      BY <1>1, OtherNames
    <3>2. QED
      BY <1>2, <3>1
  <2>3. \A v \in All : d2[v].on => v \in U \ gone
    BY <1>7 DEF Enabled
  <2>4. QED
    BY <1>2, <1>3, <2>2, <2>3 DEF Swept
<1>11. \A v \in Ruled(d) : v \in All \ gone
  BY <1>5 DEF Ruled
<1>12. \A v \in All : v \in Ruled(d2) <=> v \in Ruled(d)
  <2>1. \A v \in gone : v \notin Ruled(d) /\ v \notin Ruled(d2)
    BY <1>5 DEF Ruled
  <2>2. \A v \in All \ gone : v \in Ruled(d2) <=> v \in Ruled(d)
    BY <1>3 DEF Ruled
  <2>3. QED
    BY <2>1, <2>2
<1>13. Ruled(d2) = Ruled(d)
  <2>1. Ruled(d2) \subseteq All /\ Ruled(d) \subseteq All
    BY DEF Ruled
  <2>2. QED
    BY <1>12, <2>1
<1>14. QED
  BY <1>3, <1>6, <1>9, <1>10, <1>11, <1>13

\* The same for the index entry x of the rule.
IdxPos(it, x) == Pos(x, it[x].next)
IdxCut(it, mt, x) ==
    CASE IdxPos(it, x) = "only" -> [it EXCEPT ![x].entry = 0]
      [] IdxPos(it, x) = "head" -> [it EXCEPT ![x].entry = it[it[x].next].entry]
      [] OTHER -> [it EXCEPT ![mt[x]].next = it[x].next]
IdxJoined(it, mt, x) ==
    IF IdxPos(it, x) = "head" THEN [IdxCut(it, mt, x) EXCEPT ![x].next = it[it[x].next].next]
    ELSE IdxCut(it, mt, x)
IdxGone(it, mt, x) ==
    [IdxJoined(it, mt, x) EXCEPT ![IF IdxPos(it, x) = "head" THEN it[x].next ELSE x] = ZeroIdx]

MetaMoves(it, x) == IdxPos(it, x) = "head" /\ it[it[x].next].next # 0
MetaMoved(it, mt, x) ==
    IF IdxPos(it, x) = "middle" THEN [mt EXCEPT ![it[x].next] = mt[x]]
    ELSE IF MetaMoves(it, x) THEN [mt EXCEPT ![it[it[x].next].next] = x] ELSE mt
MetaGone(it, mt, x) ==
    IF IdxPos(it, x) = "middle" THEN [MetaMoved(it, mt, x) EXCEPT ![x] = 0] ELSE MetaMoved(it, mt, x)

IdxOut(nt, it, mt, src, e, d, i1, i2, i3, m1, m2) ==
    /\ i1 \in IdxTables /\ i2 \in IdxTables /\ i3 \in IdxTables /\ m1 \in Metas /\ m2 \in Metas
    /\ IdxFinds(nt, i1, src, Ruled(nt) \ {e})
    /\ IdxFinds(nt, i2, src, Ruled(nt) \ {e})
    /\ IdxFinds(nt, i3, src, Ruled(nt) \ {e})
    /\ IdxLists(d, i3, m2, src)

\* The rules that are left name their index entries; the successor of a head has moved.
LeftIn(nt, it, e, d) ==
    LET x == nt[e].ix
        n == it[x].next
    IN  /\ Ruled(d) = Ruled(nt) \ {e}
        /\ \A v \in Ruled(d) :
             /\ d[v].flow = nt[v].flow
             /\ d[v].ix = IF IdxPos(it, x) = "head" /\ v = it[n].entry THEN x ELSE nt[v].ix

LEMMA IndexFacts ==
    ASSUME NEW src \in Hashes, NEW nt \in NatTables, NEW it \in IdxTables, NEW mt \in Metas,
           IdxLists(nt, it, mt, src), NEW e \in Ruled(nt), NEW x, x = nt[e].ix
    PROVE  /\ x \in Taken(it) /\ x \in All /\ x # 0 /\ x \in Usable /\ it[x] \in Indexes
           /\ it[x].entry = e /\ e # 0 /\ it[x].next \in All
           /\ IdxHome(nt, it, src)[x] = src[nt[e].flow]
           /\ x \in Base <=> IdxPos(it, x) \in {"only", "head"}
           /\ IdxPos(it, x) \in {"only", "last"} <=> it[x].next = 0
           /\ IdxPos(it, x) \in {"only", "head", "last", "middle"}
           /\ \A v \in Ruled(nt) \ {e} : nt[v].ix \in Taken(it) \ {x} /\ it[nt[v].ix].entry = v
<1>1. x \in Taken(it) /\ x \in All /\ it[x].entry = e /\ e # 0
  BY DEF IdxLists, Taken
<1>2. x # 0 /\ x \in Usable
  <2>1. Linked(it, mt, Taken(it), IdxHome(nt, it, src))
    BY DEF IdxLists
  <2>2. Taken(it) \subseteq Usable /\ 0 \notin Usable
    BY <2>1 DEF Linked, Usable
  <2>3. QED
    BY <1>1, <2>2
<1>3. it[x] \in Indexes /\ it[x].next \in All
  BY <1>1, IndexFields DEF IdxTables
<1>4. x \in Base <=> x < table_entries
  BY <1>1, Sizes DEF Base, All
<1>5. IdxHome(nt, it, src)[x] = src[nt[e].flow]
  BY <1>1 DEF IdxHome
<1>6. \A v \in Ruled(nt) \ {e} : nt[v].ix \in Taken(it) \ {x} /\ it[nt[v].ix].entry = v
  BY <1>1 DEF IdxLists
<1>7. QED
  BY <1>1, <1>2, <1>3, <1>4, <1>5, <1>6 DEF IdxPos, Pos

IndexLed(nt, it, K, i, z) ==
    /\ K \subseteq Ruled(nt)
    /\ \A b \in Usable \cap Base : Chain(it, b) \ {z} \subseteq Chain(i, b)
    /\ \A v \in K : nt[v].ix # z /\ i[nt[v].ix].entry = v

LEMMA StillIndexed ==
    ASSUME NEW src \in Hashes, NEW nt \in NatTables, NEW it \in IdxTables, NEW mt \in Metas,
           IdxLists(nt, it, mt, src), NEW K, NEW i, NEW z, IndexLed(nt, it, K, i, z)
    PROVE  IdxFinds(nt, i, src, K)
<1> USE DEF IndexLed
<1> SUFFICES ASSUME NEW v \in K
             PROVE  \E y \in Chain(i, src[nt[v].flow]) : i[y].entry = v
  BY DEF IdxFinds
<1> DEFINE y == nt[v].ix
<1>1. y \in Taken(it) /\ it[y].entry = v /\ y \in All
  BY DEF IdxLists, Taken
<1>2. y \in Chain(it, IdxHome(nt, it, src)[y])
  BY <1>1 DEF IdxLists, Linked
<1>3. IdxHome(nt, it, src)[y] = src[nt[v].flow]
  BY <1>1 DEF IdxHome
<1>4. src[nt[v].flow] \in Usable \cap Base
  BY DEF Ruled, Hashes
<1>5. QED
  BY <1>2, <1>3, <1>4

LEMMA OnlyIndexOut ==
    ASSUME NEW src \in Hashes, NEW nt \in NatTables, NEW it \in IdxTables, NEW mt \in Metas,
           IdxLists(nt, it, mt, src), NEW e \in Ruled(nt), NEW x, x = nt[e].ix,
           IdxPos(it, x) = "only", NEW d, LeftIn(nt, it, e, d),
           NEW i1, i1 = IdxCut(it, mt, x), NEW i2, i2 = IdxJoined(it, mt, x),
           NEW i3, i3 = IdxGone(it, mt, x),
           NEW m1, m1 = MetaMoved(it, mt, x), NEW m2, m2 = MetaGone(it, mt, x)
    PROVE  IdxOut(nt, it, mt, src, e, d, i1, i2, i3, m1, m2)
<1> DEFINE U == Taken(it)
           K == Ruled(nt) \ {e}
           home == IdxHome(nt, it, src)
           home3 == IdxHome(d, i3, src)
           t == [it[x] EXCEPT !.entry = 0]
<1>1. /\ Linked(it, mt, U, home)
      /\ \A y \in All \ U : it[y] = ZeroIdx
      /\ \A y \in U : it[y].entry \in Ruled(nt) /\ nt[it[y].entry].ix = y
      /\ \A v \in Ruled(nt) : nt[v].ix \in U /\ it[nt[v].ix].entry = v
  BY DEF IdxLists
<1>2. Linkage(it) /\ U \subseteq All
  BY <1>1, LinkedLinks
<1>3. /\ x \in U \cap Base /\ x \in All /\ it[x] \in Indexes /\ it[x].next = 0 /\ it[x].entry = e
      /\ \A v \in K : nt[v].ix \in U \ {x} /\ it[nt[v].ix].entry = v
  BY IndexFacts
<1>4. /\ Ruled(d) = K
      /\ \A v \in K : d[v].flow = nt[v].flow /\ d[v].ix = nt[v].ix
  BY DEF LeftIn
<1>5. /\ i1 = [it EXCEPT ![x] = t] /\ i2 = i1 /\ i3 = [i1 EXCEPT ![x] = ZeroIdx]
      /\ m1 = mt /\ m2 = mt
  BY DEF IdxCut, IdxJoined, IdxGone, MetaMoved, MetaGone, MetaMoves
<1>6. t \in Indexes /\ t.next = 0 /\ t.entry = 0
  BY <1>3, Sizes, IndexFields
<1> HIDE DEF t
<1>7. /\ i1 \in IdxTables /\ i1[x] = t /\ \A v \in All \ {x} : i1[v] = it[v]
      /\ i3 \in IdxTables /\ i3[x] = ZeroIdx /\ \A v \in All \ {x} : i3[v] = it[v]
  BY <1>3, <1>5, <1>6, ZeroFields DEF IdxTables
<1>8. \A v \in All : i1[v].next = it[v].next /\ i3[v].next = it[v].next
  BY <1>3, <1>6, <1>7, ZeroFields
<1>9. \A b \in Usable \cap Base : Chain(i1, b) = Chain(it, b) /\ Chain(i3, b) = Chain(it, b)
  BY <1>2, <1>8, SameLinks
<1>10. \A v \in K : nt[v].ix # x /\ i1[nt[v].ix].entry = v /\ i3[nt[v].ix].entry = v
  BY <1>2, <1>3, <1>7
<1>11. IdxFinds(nt, i1, src, K) /\ IdxFinds(nt, i3, src, K)
  <2>1. K \in SUBSET Ruled(nt)
    OBVIOUS
  <2>2. \A b \in Usable \cap Base : /\ Chain(it, b) \ {x} \subseteq Chain(i1, b)
                                    /\ Chain(it, b) \ {x} \subseteq Chain(i3, b)
    BY <1>9
  <2> HIDE DEF K
  <2>3. IndexLed(nt, it, K, i1, x) /\ IndexLed(nt, it, K, i3, x)
    BY <1>10, <2>1, <2>2 DEF IndexLed
  <2>4. QED
    BY <2>3, StillIndexed
<1>12. Taken(i3) = U \ {x}
  BY <1>7, ZeroFields DEF Taken
<1>13. Linked(i3, m2, U \ {x}, home3)
  <2>1. \A y \in U \ {x} : home3[y] = home[y]
    <3>1. \A y \in U \ {x} : y \in All /\ i3[y] = it[y] /\ it[y].entry \in K
      BY <1>1, <1>2, <1>3, <1>7
    <3>2. \A y \in All : home3[y] = src[d[i3[y].entry].flow] /\ home[y] = src[nt[it[y].entry].flow]
      BY DEF IdxHome
    <3> HIDE DEF K, home, home3, U
    <3>3. QED
      BY <1>4, <3>1, <3>2
  <2>2. {x} \subseteq U \cap Base /\ \A y \in {x} : it[y].next = 0
    BY <1>3
  <2> HIDE DEF home, home3, U
  <2>3. Freed(it, mt, U, home, i3, m2, home3, {x})
    BY <1>1, <1>5, <1>8, <2>1, <2>2 DEF Freed
  <2>4. QED
    BY <2>3, LinkedFree
<1>14. IdxLists(d, i3, m2, src)
  <2>1. \A y \in All \ Taken(i3) : i3[y] = ZeroIdx
    BY <1>1, <1>7, <1>12
  <2>2. \A y \in Taken(i3) : i3[y].entry \in Ruled(d) /\ d[i3[y].entry].ix = y
    BY <1>1, <1>2, <1>3, <1>4, <1>7, <1>12
  <2>3. \A v \in Ruled(d) : d[v].ix \in Taken(i3) /\ i3[d[v].ix].entry = v
    BY <1>2, <1>3, <1>4, <1>7, <1>12
  <2>4. QED
    BY <1>12, <1>13, <2>1, <2>2, <2>3 DEF IdxLists
<1>15. QED
  BY <1>5, <1>7, <1>11, <1>14 DEF IdxOut

LEMMA LaterIndexOut ==
    ASSUME NEW src \in Hashes, NEW nt \in NatTables, NEW it \in IdxTables, NEW mt \in Metas,
           IdxLists(nt, it, mt, src), NEW e \in Ruled(nt), NEW x, x = nt[e].ix,
           IdxPos(it, x) \in {"last", "middle"}, NEW d, LeftIn(nt, it, e, d),
           NEW i1, i1 = IdxCut(it, mt, x), NEW i2, i2 = IdxJoined(it, mt, x),
           NEW i3, i3 = IdxGone(it, mt, x),
           NEW m1, m1 = MetaMoved(it, mt, x), NEW m2, m2 = MetaGone(it, mt, x)
    PROVE  IdxOut(nt, it, mt, src, e, d, i1, i2, i3, m1, m2)
<1> DEFINE U == Taken(it)
           K == Ruled(nt) \ {e}
           home == IdxHome(nt, it, src)
           home3 == IdxHome(d, i3, src)
           p == mt[x]
           n == it[x].next
           t == [it[p] EXCEPT !.next = n]
<1>1. /\ Linked(it, mt, U, home)
      /\ \A y \in All \ U : it[y] = ZeroIdx
      /\ \A y \in U : it[y].entry \in Ruled(nt) /\ nt[it[y].entry].ix = y
      /\ \A v \in Ruled(nt) : nt[v].ix \in U /\ it[nt[v].ix].entry = v
  BY DEF IdxLists
<1>2. Linkage(it) /\ U \subseteq All
  BY <1>1, LinkedLinks
<1>3. /\ x \in U /\ x \notin Base /\ x \in All /\ it[x] \in Indexes /\ it[x].entry = e /\ n \in All
      /\ IdxPos(it, x) = "last" <=> n = 0
      /\ \A v \in K : nt[v].ix \in U \ {x} /\ it[nt[v].ix].entry = v
  BY IndexFacts
<1>4. x \in U \cap Expansion
  BY <1>3, BaseOrExpansion
<1>5. /\ p \in U /\ it[p].next = x /\ p # x /\ n # x /\ n # p
      /\ n # 0 => n \in U \cap Expansion
  BY <1>1, <1>4, LinkedApart
<1>6. /\ Ruled(d) = K
      /\ \A v \in K : d[v].flow = nt[v].flow /\ d[v].ix = nt[v].ix
  BY DEF LeftIn
<1>7. /\ p \in All /\ t \in Indexes /\ t.next = n /\ t.entry = it[p].entry
  BY <1>2, <1>3, <1>5, IndexFields DEF IdxTables
<1>8. i1 = [it EXCEPT ![p] = t] /\ i2 = i1 /\ i3 = [i1 EXCEPT ![x] = ZeroIdx]
  BY DEF IdxCut, IdxJoined, IdxGone
<1> HIDE DEF t
<1>9. /\ i1 \in IdxTables /\ i1[p] = t /\ \A v \in All \ {p} : i1[v] = it[v]
      /\ i3 \in IdxTables /\ i3[x] = ZeroIdx /\ \A v \in All \ {x} : i3[v] = i1[v]
  BY <1>3, <1>7, <1>8, ZeroFields DEF IdxTables
<1>10. /\ \A v \in All : i1[v].entry = it[v].entry
       /\ \A v \in All \ {x} : i3[v].entry = it[v].entry
       /\ i3[x].entry = 0
       /\ \A v \in All \ {x, p} : i1[v].next = it[v].next /\ i3[v].next = it[v].next
       /\ i1[p].next = n /\ i3[p].next = n /\ i1[x].next = n /\ i3[x].next = 0
  BY <1>3, <1>5, <1>7, <1>9, ZeroFields
<1>11. /\ m1 \in Metas /\ m2 \in Metas
       /\ \A v \in (U \cap Expansion) \ {x, n} : m2[v] = mt[v]
       /\ n # 0 => m2[n] = p
  <2>1. CASE n = 0
    BY <1>3, <2>1 DEF MetaMoved, MetaGone, MetaMoves
  <2>2. CASE n # 0
    <3>1. IdxPos(it, x) = "middle"
      BY <1>3, <2>2
    <3>2. m1 = [mt EXCEPT ![n] = p] /\ m2 = [m1 EXCEPT ![x] = 0]
      BY <3>1 DEF MetaMoved, MetaGone
    <3>3. n \in Expansion /\ x \in Expansion /\ n # x /\ p \in All /\ 0 \in All
      BY <1>4, <1>5, <1>7, <2>2, Sizes
    <3> HIDE DEF n, p
    <3>4. QED
      BY <3>2, <3>3 DEF Metas
  <2>3. QED
    BY <2>1, <2>2
<1>12. ASSUME NEW i, LedAround(it, mt, U, home, i, x),
              \A v \in All \ {x} : i[v].entry = it[v].entry
       PROVE  IdxFinds(nt, i, src, K)
  <2>1. \A b \in Usable \cap Base : Chain(it, b) \ {x} \subseteq Chain(i, b)
    BY <1>12, LinkedAround
  <2>2. \A v \in K : nt[v].ix # x /\ i[nt[v].ix].entry = v
    BY <1>2, <1>3, <1>12
  <2>3. K \in SUBSET Ruled(nt)
    OBVIOUS
  <2> HIDE DEF K
  <2>4. IndexLed(nt, it, K, i, x)
    BY <2>1, <2>2, <2>3 DEF IndexLed
  <2>5. QED
    BY <2>4, StillIndexed
<1>13. LedAround(it, mt, U, home, i1, x) /\ LedAround(it, mt, U, home, i3, x)
  <2> HIDE DEF home, U
  <2>1. QED
    BY <1>1, <1>4, <1>10 DEF LedAround
<1>14. IdxFinds(nt, i1, src, K) /\ IdxFinds(nt, i3, src, K)
  BY <1>10, <1>12, <1>13
<1>15. Taken(i3) = U \ {x}
  BY <1>10 DEF Taken
<1>16. Linked(i3, m2, U \ {x}, home3)
  <2>1. \A y \in U \ {x} : home3[y] = home[y]
    <3>1. \A y \in U \ {x} : y \in All /\ i3[y].entry = it[y].entry /\ it[y].entry \in K
      BY <1>1, <1>2, <1>3, <1>10
    <3>2. \A y \in All : home3[y] = src[d[i3[y].entry].flow] /\ home[y] = src[nt[it[y].entry].flow]
      BY DEF IdxHome
    <3> HIDE DEF K, home, home3, U
    <3>3. QED
      BY <1>6, <3>1, <3>2
  <2>2. \A v \in All \ {x, p} : i3[v].next = it[v].next
    BY <1>10
  <2> HIDE DEF home, home3, U
  <2>3. Unlinked(it, mt, U, home, i3, m2, home3, x)
    BY <1>1, <1>4, <1>10, <1>11, <2>1, <2>2 DEF Unlinked
  <2>4. QED
    BY <2>3, LinkedUnlink
<1>17. IdxLists(d, i3, m2, src)
  <2>1. \A y \in All \ Taken(i3) : i3[y] = ZeroIdx
    <3> SUFFICES ASSUME NEW y \in All \ (U \ {x}), y # x PROVE i3[y] = ZeroIdx
      BY <1>9, <1>15
    <3>1. it[y] = ZeroIdx /\ y # p
      BY <1>1, <1>5
    <3>2. QED
      BY <1>9, <3>1
  <2>2. \A y \in Taken(i3) : i3[y].entry \in Ruled(d) /\ d[i3[y].entry].ix = y
    BY <1>1, <1>2, <1>3, <1>6, <1>10, <1>15
  <2>3. \A v \in Ruled(d) : d[v].ix \in Taken(i3) /\ i3[d[v].ix].entry = v
    BY <1>2, <1>3, <1>6, <1>10, <1>15
  <2>4. QED
    BY <1>15, <1>16, <2>1, <2>2, <2>3 DEF IdxLists
<1>18. QED
  BY <1>8, <1>9, <1>11, <1>14, <1>17 DEF IdxOut

\* The head takes over what its successor has, and that one is freed.
LEMMA HeadIndexOut ==
    ASSUME NEW src \in Hashes, NEW nt \in NatTables, NEW it \in IdxTables, NEW mt \in Metas,
           IdxLists(nt, it, mt, src), NEW e \in Ruled(nt), NEW x, x = nt[e].ix,
           IdxPos(it, x) = "head", NEW d, LeftIn(nt, it, e, d),
           NEW i1, i1 = IdxCut(it, mt, x), NEW i2, i2 = IdxJoined(it, mt, x),
           NEW i3, i3 = IdxGone(it, mt, x),
           NEW m1, m1 = MetaMoved(it, mt, x), NEW m2, m2 = MetaGone(it, mt, x)
    PROVE  IdxOut(nt, it, mt, src, e, d, i1, i2, i3, m1, m2)
<1> DEFINE U == Taken(it)
           K == Ruled(nt) \ {e}
           home == IdxHome(nt, it, src)
           home3 == IdxHome(d, i3, src)
           n == it[x].next
           o == it[n].entry
           nn == it[n].next
           t1 == [it[x] EXCEPT !.entry = o]
           t2 == [t1 EXCEPT !.next = nn]
<1>1. /\ Linked(it, mt, U, home)
      /\ \A y \in All \ U : it[y] = ZeroIdx
      /\ \A y \in U : it[y].entry \in Ruled(nt) /\ nt[it[y].entry].ix = y
      /\ \A v \in Ruled(nt) : nt[v].ix \in U /\ it[nt[v].ix].entry = v
  BY DEF IdxLists
<1>2. Linkage(it) /\ U \subseteq All /\ U \cap Base \subseteq Usable \cap Base
  BY <1>1, LinkedLinks
<1>3. /\ x \in U \cap Base /\ x \in All /\ it[x] \in Indexes /\ it[x].entry = e /\ n \in All
      /\ n # 0 /\ home[x] = src[nt[e].flow]
      /\ \A v \in K : nt[v].ix \in U \ {x} /\ it[nt[v].ix].entry = v
  BY IndexFacts
<1>4. n \in U \cap Expansion /\ mt[n] = x /\ home[x] = x /\ x \in Chain(it, x)
  BY <1>1, <1>3 DEF Linked
<1>5. /\ nn # n /\ nn # x /\ n # x /\ home[n] = x
      /\ nn # 0 => nn \in U \cap Expansion
  BY <1>1, <1>4, LinkedApart
<1>6. it[n] \in Indexes /\ o \in All /\ nn \in All
  BY <1>3, IndexFields DEF IdxTables
<1>7. o \in K /\ o # 0 /\ nt[o].ix = n /\ src[nt[o].flow] = x
  <2>1. o \in Ruled(nt) /\ nt[o].ix = n
    BY <1>1, <1>4
  <2>2. o # e
    BY <1>3, <1>5, <2>1, IndexFacts
  <2>3. o # 0
    BY <1>4 DEF Taken
  <2>4. home[n] = src[nt[o].flow]
    BY <1>3 DEF IdxHome
  <2>5. QED
    BY <1>5, <2>1, <2>2, <2>3, <2>4
<1>8. /\ Ruled(d) = K
      /\ \A v \in K : d[v].flow = nt[v].flow
      /\ d[o].ix = x
      /\ \A v \in K \ {o} : d[v].ix = nt[v].ix
  BY <1>7 DEF LeftIn
<1>9. t1 \in Indexes /\ t1.next = n /\ t1.entry = o
  BY <1>3, <1>6, IndexFields
<1>10. i1 = [it EXCEPT ![x] = t1] /\ i3 = [i2 EXCEPT ![n] = ZeroIdx]
  BY DEF IdxCut, IdxGone
<1>11. i1 \in IdxTables /\ i1[x] = t1 /\ \A v \in All \ {x} : i1[v] = it[v]
  <2> HIDE DEF t1
  <2>1. QED
    BY <1>3, <1>9, <1>10 DEF IdxTables
<1>12. t2 \in Indexes /\ t2.next = nn /\ t2.entry = o
  <2> HIDE DEF t1
  <2>1. QED
    BY <1>6, <1>9, IndexFields
<1>13. i2 = [i1 EXCEPT ![x] = t2]
  <2>1. i2 = [i1 EXCEPT ![x].next = nn]
    BY DEF IdxJoined
  <2> HIDE DEF t1, nn
  <2>2. QED
    BY <1>11, <2>1
<1> HIDE DEF t1, t2
<1>14. /\ i2 \in IdxTables /\ i2[x] = t2 /\ \A v \in All \ {x} : i2[v] = it[v]
  BY <1>3, <1>11, <1>12, <1>13 DEF IdxTables
<1>15. i3 \in IdxTables /\ i3[n] = ZeroIdx /\ \A v \in All \ {n} : i3[v] = i2[v]
  BY <1>3, <1>10, <1>14, ZeroFields DEF IdxTables
<1>16. /\ \A v \in All \ {x, n} : i1[v] = it[v] /\ i2[v] = it[v] /\ i3[v] = it[v]
       /\ i1[x].entry = o /\ i2[x].entry = o /\ i3[x].entry = o
       /\ i1[x].next = n /\ i2[x].next = nn /\ i3[x].next = nn
       /\ i1[n].next = nn /\ i2[n].next = nn /\ i3[n].next = 0 /\ i3[n].entry = 0
  <2>1. n \in All /\ x \in All /\ n # x
    BY <1>3, <1>5
  <2>2. it[n].next = nn
    OBVIOUS
  <2> HIDE DEF n, nn, o
  <2>3. i1[x].entry = o /\ i1[x].next = n /\ i1[n].next = nn
    BY <1>9, <1>11, <2>1, <2>2
  <2>4. i2[x].entry = o /\ i2[x].next = nn /\ i2[n].next = nn
    BY <1>12, <1>14, <2>1, <2>2
  <2>5. i3[x].entry = o /\ i3[x].next = nn /\ i3[n].next = 0 /\ i3[n].entry = 0
    BY <1>15, <2>1, <2>4, ZeroFields
  <2>6. \A v \in All \ {x, n} : i1[v] = it[v] /\ i2[v] = it[v] /\ i3[v] = it[v]
    BY <1>11, <1>14, <1>15
  <2>7. QED
    BY <2>3, <2>4, <2>5, <2>6
<1>17. /\ m1 \in Metas /\ m2 \in Metas
       /\ \A v \in (U \cap Expansion) \ {n, nn} : m2[v] = mt[v]
       /\ nn # 0 => m2[nn] = x
  <2>1. m2 = m1
    BY DEF MetaGone
  <2>2. CASE nn = 0
    <3>1. m1 = mt
      BY <2>2 DEF MetaMoved, MetaMoves
    <3>2. QED
      BY <2>1, <2>2, <3>1
  <2>3. CASE nn # 0
    <3>1. m1 = [mt EXCEPT ![nn] = x]
      BY <2>3 DEF MetaMoved, MetaMoves
    <3>2. nn \in Expansion
      BY <1>5, <2>3
    <3> HIDE DEF nn
    <3>3. QED
      BY <1>3, <2>1, <3>1, <3>2 DEF Metas
  <2>4. QED
    BY <2>2, <2>3
<1>18. \A v \in K \ {o} : nt[v].ix \in All \ {x, n} /\ it[nt[v].ix].entry = v
  <2>1. \A v \in K \ {o} : nt[v].ix \in U \ {x} /\ it[nt[v].ix].entry = v
    BY <1>3
  <2>2. QED
    BY <1>2, <2>1
<1>19. \A b \in Usable \cap Base : Chain(i1, b) = Chain(it, b)
  <2>1. \A v \in All : i1[v].next = it[v].next
    BY <1>5, <1>6, <1>16
  <2>2. QED
    BY <1>2, <2>1, SameLinks
<1>20. LedAround(it, mt, U, home, i2, n) /\ LedAround(it, mt, U, home, i3, n)
  <2>1. \A v \in All \ {n, x} : i2[v].next = it[v].next /\ i3[v].next = it[v].next
    BY <1>16
  <2>2. /\ mt[n] = x /\ it[n].next = nn /\ i2[x].next = nn /\ i3[x].next = nn
        /\ i2[n].next = nn /\ i3[n].next = 0
    BY <1>4, <1>16
  <2>3. Linked(it, mt, U, home) /\ n \in U \cap Expansion
    BY <1>1, <1>4
  <2> HIDE DEF home, U, n, nn
  <2>4. i2[mt[n]].next = it[n].next /\ i2[n].next \in {0, it[n].next}
    BY <2>2
  <2>5. i3[mt[n]].next = it[n].next /\ i3[n].next \in {0, it[n].next}
    BY <2>2
  <2>6. \A v \in All \ {n, mt[n]} : i2[v].next = it[v].next /\ i3[v].next = it[v].next
    BY <2>1, <2>2
  <2>7. QED
    BY <2>3, <2>4, <2>5, <2>6 DEF LedAround
<1>21. \A b \in Usable \cap Base : /\ Chain(it, b) \ {n} \subseteq Chain(i2, b)
                                  /\ Chain(it, b) \ {n} \subseteq Chain(i3, b)
  BY <1>20, LinkedAround
<1>22. ASSUME NEW i, NEW z \in {x, n}, i[x].entry = o, x \in Chain(i, x),
              \A b \in Usable \cap Base : Chain(it, b) \ {z} \subseteq Chain(i, b),
              \A v \in All \ {x, n} : i[v] = it[v]
       PROVE  IdxFinds(nt, i, src, K)
  <2>1. IndexLed(nt, it, K \ {o}, i, z)
    <3>1. \A v \in K \ {o} : nt[v].ix # z /\ i[nt[v].ix].entry = v
      BY <1>18, <1>22
    <3>2. K \ {o} \subseteq Ruled(nt)
      OBVIOUS
    <3> HIDE DEF K, o
    <3>3. QED
      BY <1>22, <3>1, <3>2 DEF IndexLed
  <2>2. IdxFinds(nt, i, src, K \ {o})
    BY <2>1, StillIndexed
  <2>3. \E y \in Chain(i, src[nt[o].flow]) : i[y].entry = o
    BY <1>7, <1>22
  <2> HIDE DEF K, o
  <2>4. QED
    BY <2>2, <2>3 DEF IdxFinds
<1>23. IdxFinds(nt, i1, src, K) /\ IdxFinds(nt, i2, src, K) /\ IdxFinds(nt, i3, src, K)
  <2>1. x \in Usable \cap Base
    BY <1>2, <1>3
  <2>2. x \in Chain(i1, x) /\ x \in Chain(i2, x) /\ x \in Chain(i3, x)
    BY <1>4, <1>5, <1>19, <1>21, <2>1
  <2>3. \A b \in Usable \cap Base : Chain(it, b) \ {x} \subseteq Chain(i1, b)
    BY <1>19
  <2> HIDE DEF K, o, n
  <2>4. IdxFinds(nt, i1, src, K)
    BY <1>16, <1>22, <2>2, <2>3
  <2>5. QED
    BY <1>16, <1>21, <1>22, <2>2, <2>4
<1>24. Taken(i3) = U \ {n}
  <2>1. \A y \in All : y \in Taken(i3) <=> i3[y].entry # 0
    BY DEF Taken
  <2>2. \A y \in All : y \in U <=> it[y].entry # 0
    BY DEF Taken
  <2>3. Taken(i3) \subseteq All
    BY DEF Taken
  <2>4. n \notin Taken(i3) /\ x \in Taken(i3) /\ x \in U
    BY <1>3, <1>7, <1>16, <2>1
  <2>5. ASSUME NEW y \in All \ {x, n} PROVE y \in Taken(i3) <=> y \in U
    <3>1. y \in All /\ i3[y] = it[y]
      BY <1>16
    <3> HIDE DEF U, n
    <3>2. QED
      BY <2>1, <2>2, <3>1
  <2> HIDE DEF U, n
  <2>6. QED
    BY <1>2, <1>5, <2>3, <2>4, <2>5
<1>25. Linked(i3, m2, U \ {n}, home3)
  <2>1. \A y \in U \ {n} : home3[y] = home[y]
    <3>1. \A y \in All : home3[y] = src[d[i3[y].entry].flow] /\ home[y] = src[nt[it[y].entry].flow]
      BY DEF IdxHome
    <3>2. home3[x] = home[x]
      <4>1. home3[x] = src[d[o].flow]
        <5>1. home3[x] = src[d[i3[x].entry].flow]
          BY <1>3, <3>1
        <5>2. i3[x].entry = o
          BY <1>16
        <5> HIDE DEF home3, o
        <5>3. QED
          BY <5>1, <5>2
      <4>2. QED
        BY <1>4, <1>7, <1>8, <4>1
    <3>3. ASSUME NEW y \in U \ {n, x}
          PROVE  y \in All /\ i3[y].entry = it[y].entry /\ it[y].entry \in K
      <4>1. y \in All \ {x, n} /\ i3[y] = it[y]
        BY <1>2, <1>16
      <4>2. it[y].entry \in Ruled(nt) /\ nt[it[y].entry].ix = y
        BY <1>1
      <4>3. it[y].entry # e
        BY <4>1, <4>2
      <4>4. QED
        BY <4>1, <4>2, <4>3
    <3> HIDE DEF K, home, home3, U, n, o
    <3>4. QED
      BY <1>8, <3>1, <3>2, <3>3
  <2>2. \A v \in All \ {n, x} : i3[v].next = it[v].next
    BY <1>16
  <2> HIDE DEF home, home3, U
  <2>3. Unlinked(it, mt, U, home, i3, m2, home3, n)
    BY <1>1, <1>4, <1>16, <1>17, <2>1, <2>2 DEF Unlinked
  <2>4. QED
    BY <2>3, LinkedUnlink
<1>26. IdxLists(d, i3, m2, src)
  <2>1. \A y \in All \ Taken(i3) : i3[y] = ZeroIdx
    <3> SUFFICES ASSUME NEW y \in All \ (U \ {n}), y # n PROVE i3[y] = ZeroIdx
      BY <1>15, <1>24
    <3>1. it[y] = ZeroIdx /\ y # x
      BY <1>1, <1>3
    <3>2. QED
      BY <1>16, <3>1
  <2>2. ASSUME NEW y \in Taken(i3)
        PROVE  i3[y].entry \in Ruled(d) /\ d[i3[y].entry].ix = y
    <3>1. CASE y = x
      BY <1>7, <1>8, <1>16, <3>1
    <3>2. CASE y # x
      <4>1. y \in U /\ y \in All \ {x, n} /\ i3[y] = it[y]
        BY <1>2, <1>16, <1>24, <3>2
      <4>2. it[y].entry \in Ruled(nt) /\ nt[it[y].entry].ix = y
        BY <1>1, <4>1
      <4>3. it[y].entry # e /\ it[y].entry # o
        BY <1>7, <4>1, <4>2
      <4>4. QED
        BY <1>8, <4>1, <4>2, <4>3
    <3>3. QED
      BY <3>1, <3>2
  <2>3. ASSUME NEW v \in Ruled(d)
        PROVE  d[v].ix \in Taken(i3) /\ i3[d[v].ix].entry = v
    <3>1. CASE v = o
      BY <1>3, <1>5, <1>8, <1>16, <1>24, <3>1
    <3>2. CASE v # o
      <4>1. v \in K \ {o} /\ d[v].ix = nt[v].ix
        BY <1>8, <3>2
      <4>2. nt[v].ix \in U /\ nt[v].ix \in All \ {x, n} /\ it[nt[v].ix].entry = v
        BY <1>3, <1>18, <4>1
      <4>3. i3[nt[v].ix] = it[nt[v].ix]
        BY <1>16, <4>2
      <4>4. nt[v].ix \in Taken(i3)
        BY <1>24, <4>2
      <4> HIDE DEF K, U, n, o
      <4>5. QED
        BY <4>1, <4>2, <4>3, <4>4
    <3>3. QED
      BY <3>1, <3>2
  <2>4. QED
    BY <1>24, <1>25, <2>1, <2>2, <2>3 DEF IdxLists
<1>27. QED
  BY <1>11, <1>14, <1>15, <1>17, <1>23, <1>26 DEF IdxOut

LEMMA IdxDel ==
    ASSUME NEW src \in Hashes, NEW nt \in NatTables, NEW it \in IdxTables, NEW mt \in Metas,
           IdxLists(nt, it, mt, src), NEW e \in Ruled(nt), NEW x, x = nt[e].ix,
           NEW d, LeftIn(nt, it, e, d),
           NEW i1, i1 = IdxCut(it, mt, x), NEW i2, i2 = IdxJoined(it, mt, x),
           NEW i3, i3 = IdxGone(it, mt, x),
           NEW m1, m1 = MetaMoved(it, mt, x), NEW m2, m2 = MetaGone(it, mt, x)
    PROVE  IdxOut(nt, it, mt, src, e, d, i1, i2, i3, m1, m2)
<1>1. IdxPos(it, x) \in {"only", "head", "last", "middle"}
  BY IndexFacts
<1>2. CASE IdxPos(it, x) = "only"
  BY <1>2, OnlyIndexOut
<1>3. CASE IdxPos(it, x) = "head"
  BY <1>3, HeadIndexOut
<1>4. CASE IdxPos(it, x) \in {"last", "middle"}
  BY <1>4, LaterIndexOut
<1>5. QED
  BY <1>1, <1>2, <1>3, <1>4

-----------------------------------------------------------------------------
(* Lists of writes, first write first.                                     *)

AWrite(m, at, v, fault, then) == [m |-> m, at |-> at, v |-> v, fault |-> fault, then |-> then]
Plain(m, at, v) == AWrite(m, at, v, "none", "on")
Join(s, t) == s \o t
Then(w, s) == <<w>> \o s
If(c, w, s) == IF c THEN Then(w, s) ELSE s

LEMMA Grouped ==
    ASSUME NEW a, IsSequence(a), NEW b, IsSequence(b), NEW c, IsSequence(c)
    PROVE  Join(Join(a, b), c) = Join(a, Join(b, c)) /\ IsSequence(Join(a, b))
<1> DEFINE S == Elems(a) \cup Elems(b) \cup Elems(c)
<1>1. a \in Seq(S) /\ b \in Seq(S) /\ c \in Seq(S)
  BY DEF IsSequence, Elems
<1>2. IsSequence(Join(a, b))
  BY Joined DEF Join
<1> HIDE DEF S
<1>3. (a \o b) \o c = a \o (b \o c)
  BY <1>1
<1>4. QED
  BY <1>2, <1>3 DEF Join

LEMMA FirstWrite ==
    ASSUME NEW w, NEW s, IsSequence(s)
    PROVE  /\ IsSequence(Then(w, s)) /\ Then(w, s) # <<>>
           /\ Head(Then(w, s)) = w /\ Tail(Then(w, s)) = s
           /\ Join(<<w>>, s) = Then(w, s)
<1> DEFINE S == Elems(s) \cup {w}
<1>1. s \in Seq(S) /\ <<w>> \in Seq(S)
  BY DEF IsSequence, Elems
<1>2. IsSequence(<<w>> \o s)
  BY OneWrite, Joined
<1> HIDE DEF S
<1>3. QED
  BY <1>1, <1>2 DEF Then, Join

LEMMA NothingJoined ==
    ASSUME NEW s, IsSequence(s)
    PROVE  Join(<<>>, s) = s /\ Join(s, <<>>) = s
<1>1. s \in Seq(Elems(s))
  BY DEF IsSequence, Elems
<1>2. QED
  BY <1>1 DEF Join

LEMMA OnlyThen ==
    ASSUME NEW c, NEW w, NEW s, IsSequence(s)
    PROVE  /\ Join(Only(c, <<w>>), s) = If(c, w, s)
           /\ IsSequence(If(c, w, s)) /\ IsSequence(Only(c, <<w>>))
<1>1. CASE c
  BY <1>1, FirstWrite, OneWrite DEF Only, If
<1>2. CASE ~c
  BY <1>2, NothingJoined, NoWrites DEF Only, If
<1>3. QED
  BY <1>1, <1>2

Sequences7(a, b, c, d, e, o, g) ==
    /\ IsSequence(a) /\ IsSequence(b) /\ IsSequence(c) /\ IsSequence(d) /\ IsSequence(e)
    /\ IsSequence(o) /\ IsSequence(g)

LEMMA AddGrouped ==
    ASSUME NEW a, NEW b, NEW c, NEW d, NEW e, NEW o, NEW g, Sequences7(a, b, c, d, e, o, g)
    PROVE  Join(Join(Join(Join(a, Join(b, c)), Join(d, e)), o), g)
             = Join(a, Join(b, Join(c, Join(d, Join(e, Join(o, g))))))
<1> USE DEF Sequences7
<1>1. IsSequence(Join(b, c)) /\ IsSequence(Join(d, e)) /\ IsSequence(Join(o, g))
  BY Grouped
<1>2. IsSequence(Join(a, Join(b, c))) /\ IsSequence(Join(Join(d, e), Join(o, g)))
  BY <1>1, Grouped
<1>3. IsSequence(Join(Join(a, Join(b, c)), Join(d, e)))
  BY <1>1, <1>2, Grouped
<1>4. Join(Join(Join(Join(a, Join(b, c)), Join(d, e)), o), g)
        = Join(Join(Join(a, Join(b, c)), Join(d, e)), Join(o, g))
  BY <1>3, Grouped
<1>5. @ = Join(Join(a, Join(b, c)), Join(Join(d, e), Join(o, g)))
  BY <1>1, <1>2, Grouped
<1>6. @ = Join(a, Join(Join(b, c), Join(Join(d, e), Join(o, g))))
  BY <1>1, <1>2, Grouped
<1>7. Join(Join(b, c), Join(Join(d, e), Join(o, g)))
        = Join(b, Join(c, Join(Join(d, e), Join(o, g))))
  BY <1>2, Grouped
<1>8. Join(Join(d, e), Join(o, g)) = Join(d, Join(e, Join(o, g)))
  BY <1>1, Grouped
<1>9. QED
  BY <1>4, <1>5, <1>6, <1>7, <1>8

\* Putting a rule in.
IdsLeft(r, h) == Then(Plain("ids", h, r.at), <<>>)
OnLeft(r, h) == Then(AWrite("on", r.at, TRUE, "enable", "abort"), IdsLeft(r, h))
IdxNextLeft(r, x, h) ==
    If(x.prev # 0, AWrite("idx.next", x.prev, x.at, "link", "skip"), OnLeft(r, h))
IdxLeft(r, x, h) == Then(Plain("idx", x.at, [entry |-> r.at, next |-> 0]), IdxNextLeft(r, x, h))
NextLeft(r, x, h) ==
    If(r.prev # 0, AWrite("next", r.prev, r.at, "link", "skip"), IdxLeft(r, x, h))
NatLeft(f, r, x, h) == Then(Plain("nat", r.at, NewEntry(f, r, x)), NextLeft(r, x, h))
MetaLeft(f, r, x, h) ==
    If(x.at >= table_entries, Plain("meta", x.at, x.prev), NatLeft(f, r, x, h))

LEMMA AddSequences ==
    ASSUME NEW f, NEW r, NEW x, NEW h
    PROVE  /\ IsSequence(IdsLeft(r, h)) /\ IsSequence(OnLeft(r, h))
           /\ IsSequence(IdxNextLeft(r, x, h)) /\ IsSequence(IdxLeft(r, x, h))
           /\ IsSequence(NextLeft(r, x, h)) /\ IsSequence(NatLeft(f, r, x, h))
<1>1. IsSequence(IdsLeft(r, h))
  BY NoWrites, FirstWrite DEF IdsLeft
<1>2. IsSequence(OnLeft(r, h))
  BY <1>1, FirstWrite DEF OnLeft
<1>3. IsSequence(IdxNextLeft(r, x, h))
  BY <1>2, OnlyThen DEF IdxNextLeft
<1>4. IsSequence(IdxLeft(r, x, h))
  BY <1>3, FirstWrite DEF IdxLeft
<1>5. IsSequence(NextLeft(r, x, h))
  BY <1>4, OnlyThen DEF NextLeft
<1>6. IsSequence(NatLeft(f, r, x, h))
  BY <1>5, FirstWrite DEF NatLeft
<1>7. QED
  BY <1>1, <1>2, <1>3, <1>4, <1>5, <1>6

LEMMA AddAsWrites ==
    ASSUME NEW f, NEW r, NEW x
    PROVE  AddWrites(f, r, x) = MetaLeft(f, r, x, make_rule_hdl)
<1> DEFINE h == make_rule_hdl
           a == Only(x.at >= table_entries, <<Plain("meta", x.at, x.prev)>>)
           b == <<Plain("nat", r.at, NewEntry(f, r, x))>>
           c == Only(r.prev # 0, <<AWrite("next", r.prev, r.at, "link", "skip")>>)
           d == <<Plain("idx", x.at, [entry |-> r.at, next |-> 0])>>
           e == Only(x.prev # 0, <<AWrite("idx.next", x.prev, x.at, "link", "skip")>>)
           o == <<AWrite("on", r.at, TRUE, "enable", "abort")>>
           g == <<Plain("ids", h, r.at)>>
<1>1. AddWrites(f, r, x) = Join(Join(Join(Join(a, Join(b, c)), Join(d, e)), o), g)
  BY DEF AddWrites, copy_rule_to_hw, copy_index_rule_to_hw, Cpu, Dma, Plain, AWrite, NewEntry, Join
<1>2. Sequences7(a, b, c, d, e, o, g)
  BY OnlyThen, OneWrite, NoWrites DEF Sequences7
<1>3. AddWrites(f, r, x) = Join(a, Join(b, Join(c, Join(d, Join(e, Join(o, g))))))
  <2> HIDE DEF a, b, c, d, e, o, g
  <2>1. QED
    BY <1>1, <1>2, AddGrouped
<1>4. g = IdsLeft(r, h)
  BY NothingJoined, NoWrites, OneWrite, FirstWrite DEF IdsLeft
<1>5. Join(o, g) = OnLeft(r, h)
  BY <1>4, AddSequences, FirstWrite DEF OnLeft
<1>6. Join(e, OnLeft(r, h)) = IdxNextLeft(r, x, h)
  BY AddSequences, OnlyThen DEF IdxNextLeft
<1>7. Join(d, IdxNextLeft(r, x, h)) = IdxLeft(r, x, h)
  BY AddSequences, FirstWrite DEF IdxLeft
<1>8. Join(c, IdxLeft(r, x, h)) = NextLeft(r, x, h)
  BY AddSequences, OnlyThen DEF NextLeft
<1>9. Join(b, NextLeft(r, x, h)) = NatLeft(f, r, x, h)
  BY AddSequences, FirstWrite DEF NatLeft
<1>10. Join(a, NatLeft(f, r, x, h)) = MetaLeft(f, r, x, h)
  BY AddSequences, OnlyThen DEF MetaLeft
<1> HIDE DEF a, b, c, d, e, o, g, h
<1>11. AddWrites(f, r, x) = MetaLeft(f, r, x, h)
  BY <1>3, <1>5, <1>6, <1>7, <1>8, <1>9, <1>10
<1>12. QED
  BY <1>11 DEF h

\* Taking the rule in entry e out.
IndexAt(nt, e) == nt[e].ix
RuleWrite(nt, e) ==
    CASE NatPos(nt, e) = "only" -> Plain("on", e, FALSE)
      [] NatPos(nt, e) = "head" -> Plain("flow", e, Dead)
      [] OTHER -> Plain("next", nt[e].prev, nt[e].next)
IndexWrite(it, mt, x) ==
    CASE IdxPos(it, x) = "only" -> AWrite("idx.entry", x, 0, "delete", "abort")
      [] IdxPos(it, x) = "head" -> AWrite("idx.entry", x, it[it[x].next].entry, "delete", "abort")
      [] OTHER -> AWrite("idx.next", mt[x], it[x].next, "delete", "abort")
MetaWrite(it, mt, x) ==
    IF IdxPos(it, x) = "middle" THEN Plain("meta", it[x].next, mt[x])
    ELSE Plain("meta", it[it[x].next].next, x)

HdlLeft(h) == Then(Plain("ids", h, 0), <<>>)
SweepLeft(h) == Then(Plain("sweep", 0, 0), HdlLeft(h))
IxLeft(it, x, h) ==
    If(IdxPos(it, x) = "head", Plain("ix", it[it[x].next].entry, x), SweepLeft(h))
ZeroIdxLeft(it, x, h) ==
    Then(Plain("idx", IF IdxPos(it, x) = "head" THEN it[x].next ELSE x, ZeroIdx), IxLeft(it, x, h))
ZeroMetaLeft(it, x, h) ==
    If(IdxPos(it, x) = "middle", Plain("meta", x, 0), ZeroIdxLeft(it, x, h))
MoveMetaLeft(it, mt, x, h) ==
    If(IdxPos(it, x) = "middle" \/ MetaMoves(it, x), MetaWrite(it, mt, x), ZeroMetaLeft(it, x, h))
ZeroNatLeft(nt, it, mt, e, h) ==
    If(NatPos(nt, e) # "head", Plain("nat", e, Zero), MoveMetaLeft(it, mt, nt[e].ix, h))
PrevLeft(nt, it, mt, e, h) ==
    If(NatPos(nt, e) = "middle", Plain("prev", nt[e].next, nt[e].prev), ZeroNatLeft(nt, it, mt, e, h))
RuleLeft(nt, it, mt, e, h) == Then(RuleWrite(nt, e), PrevLeft(nt, it, mt, e, h))
IdxRestLeft(nt, it, mt, e, h) ==
    If(IdxPos(it, nt[e].ix) = "head",
       Plain("idx.next", nt[e].ix, it[it[nt[e].ix].next].next), RuleLeft(nt, it, mt, e, h))
IndexLeft(nt, it, mt, e, h) ==
    Then(IndexWrite(it, mt, nt[e].ix), IdxRestLeft(nt, it, mt, e, h))

LEMMA DelSequences ==
    ASSUME NEW nt, NEW it, NEW mt, NEW e, NEW h, NEW x, x = nt[e].ix
    PROVE  /\ IsSequence(HdlLeft(h)) /\ IsSequence(SweepLeft(h)) /\ IsSequence(IxLeft(it, x, h))
           /\ IsSequence(ZeroIdxLeft(it, x, h)) /\ IsSequence(ZeroMetaLeft(it, x, h))
           /\ IsSequence(MoveMetaLeft(it, mt, x, h)) /\ IsSequence(ZeroNatLeft(nt, it, mt, e, h))
           /\ IsSequence(PrevLeft(nt, it, mt, e, h)) /\ IsSequence(RuleLeft(nt, it, mt, e, h))
           /\ IsSequence(IdxRestLeft(nt, it, mt, e, h))
<1>1. IsSequence(HdlLeft(h))
  BY NoWrites, FirstWrite DEF HdlLeft
<1>2. IsSequence(SweepLeft(h))
  BY <1>1, FirstWrite DEF SweepLeft
<1>3. IsSequence(IxLeft(it, x, h))
  BY <1>2, OnlyThen DEF IxLeft
<1>4. IsSequence(ZeroIdxLeft(it, x, h))
  BY <1>3, FirstWrite DEF ZeroIdxLeft
<1>5. IsSequence(ZeroMetaLeft(it, x, h))
  BY <1>4, OnlyThen DEF ZeroMetaLeft
<1>6. IsSequence(MoveMetaLeft(it, mt, x, h))
  BY <1>5, OnlyThen DEF MoveMetaLeft
<1>7. IsSequence(ZeroNatLeft(nt, it, mt, e, h))
  BY <1>6, OnlyThen DEF ZeroNatLeft
<1>8. IsSequence(PrevLeft(nt, it, mt, e, h))
  BY <1>7, OnlyThen DEF PrevLeft
<1>9. IsSequence(RuleLeft(nt, it, mt, e, h))
  BY <1>8, FirstWrite DEF RuleLeft
<1>10. IsSequence(IdxRestLeft(nt, it, mt, e, h))
  BY <1>9, OnlyThen DEF IdxRestLeft
<1>11. QED
  BY <1>1, <1>2, <1>3, <1>4, <1>5, <1>6, <1>7, <1>8, <1>9, <1>10

Sequences6(a, b, c, d, e, g) ==
    /\ IsSequence(a) /\ IsSequence(b) /\ IsSequence(c) /\ IsSequence(d) /\ IsSequence(e)
    /\ IsSequence(g)

LEMMA DelGrouped ==
    ASSUME NEW a, NEW b, NEW c, NEW d, NEW e, NEW g, Sequences6(a, b, c, d, e, g)
    PROVE  Join(Join(Join(Join(a, b), Join(c, d)), e), g)
             = Join(a, Join(b, Join(c, Join(d, Join(e, g)))))
<1> USE DEF Sequences6
<1>1. IsSequence(Join(a, b)) /\ IsSequence(Join(c, d)) /\ IsSequence(Join(e, g))
  BY Grouped
<1>2. IsSequence(Join(Join(a, b), Join(c, d))) /\ IsSequence(Join(Join(c, d), Join(e, g)))
  BY <1>1, Grouped
<1>3. Join(Join(Join(Join(a, b), Join(c, d)), e), g) = Join(Join(Join(a, b), Join(c, d)), Join(e, g))
  BY <1>2, Grouped
<1>4. @ = Join(Join(a, b), Join(Join(c, d), Join(e, g)))
  BY <1>1, Grouped
<1>5. @ = Join(a, Join(b, Join(Join(c, d), Join(e, g))))
  BY <1>2, Grouped
<1>6. Join(Join(c, d), Join(e, g)) = Join(c, Join(d, Join(e, g)))
  BY <1>1, Grouped
<1>7. QED
  BY <1>3, <1>4, <1>5, <1>6

LEMMA IndexEntryWrites ==
    ASSUME NEW x, NEW n, NEW nn, NEW rest, IsSequence(rest), n = idx[x].next, nn = idx[n].next,
           NEW h, rest = SweepLeft(h)
    PROVE  LET s == IF IdxPos(idx, x) = "head"
                    THEN Only(nn # 0, Cpu("meta", nn, x)) \o Cpu("idx", n, ZeroIdx)
                         \o Cpu("ix", idx[n].entry, x)
                    ELSE Only(IdxPos(idx, x) = "middle", Cpu("meta", n, meta[x]) \o Cpu("meta", x, 0))
                         \o Cpu("idx", x, ZeroIdx)
           IN  IsSequence(s) /\ Join(s, rest) = MoveMetaLeft(idx, meta, x, h)
<1> DEFINE pos == IdxPos(idx, x)
           m1 == Plain("meta", nn, x)
           z1 == Plain("idx", n, ZeroIdx)
           ix == Plain("ix", idx[n].entry, x)
           m2 == Plain("meta", n, meta[x])
           m3 == Plain("meta", x, 0)
           z2 == Plain("idx", x, ZeroIdx)
           s1 == Join(Join(Only(nn # 0, <<m1>>), <<z1>>), <<ix>>)
           s2 == Join(Only(pos = "middle", Join(<<m2>>, <<m3>>)), <<z2>>)
<1>1. CASE pos = "head"
  <2>1. IsSequence(Only(nn # 0, <<m1>>)) /\ IsSequence(<<z1>>) /\ IsSequence(<<ix>>)
    BY OnlyThen, OneWrite, NoWrites
  <2>2. IsSequence(s1) /\ IsSequence(Join(Only(nn # 0, <<m1>>), <<z1>>))
        /\ IsSequence(Join(<<ix>>, rest))
    BY <2>1, Grouped
  <2>3. Join(s1, rest) = Join(Only(nn # 0, <<m1>>), Join(<<z1>>, Join(<<ix>>, rest)))
    <3>1. Join(s1, rest) = Join(Join(Only(nn # 0, <<m1>>), <<z1>>), Join(<<ix>>, rest))
      BY <2>1, <2>2, Grouped
    <3>2. @ = Join(Only(nn # 0, <<m1>>), Join(<<z1>>, Join(<<ix>>, rest)))
      BY <2>1, <2>2, Grouped
    <3>3. QED
      BY <3>1, <3>2
  <2>4. Join(<<ix>>, rest) = IxLeft(idx, x, h)
    BY <1>1, FirstWrite DEF IxLeft, If
  <2>5. Join(<<z1>>, IxLeft(idx, x, h)) = ZeroIdxLeft(idx, x, h)
    BY <1>1, <2>2, <2>4, FirstWrite DEF ZeroIdxLeft
  <2>6. ZeroIdxLeft(idx, x, h) = ZeroMetaLeft(idx, x, h) /\ IsSequence(ZeroIdxLeft(idx, x, h))
    BY <1>1, <2>2, <2>4, FirstWrite DEF ZeroMetaLeft, ZeroIdxLeft, If
  <2>7. Join(Only(nn # 0, <<m1>>), ZeroMetaLeft(idx, x, h)) = MoveMetaLeft(idx, meta, x, h)
    BY <1>1, <2>6, OnlyThen DEF MoveMetaLeft, MetaWrite, MetaMoves
  <2>8. Only(nn # 0, Cpu("meta", nn, x)) \o Cpu("idx", n, ZeroIdx) \o Cpu("ix", idx[n].entry, x) = s1
    BY DEF Join, Cpu, Plain, AWrite
  <2> HIDE DEF s1, m1, z1, ix
  <2>9. QED
    BY <1>1, <2>2, <2>3, <2>4, <2>5, <2>6, <2>7, <2>8
<1>2. CASE pos # "head"
  <2>1. IsSequence(<<m2>>) /\ IsSequence(<<m3>>) /\ IsSequence(<<z2>>)
    BY OneWrite
  <2>2. IsSequence(Join(<<m2>>, <<m3>>)) /\ IsSequence(Only(pos = "middle", Join(<<m2>>, <<m3>>)))
    BY <2>1, Grouped, Conditional
  <2>3. /\ IsSequence(s2)
        /\ Join(s2, rest) = Join(Only(pos = "middle", Join(<<m2>>, <<m3>>)), Join(<<z2>>, rest))
    BY <2>1, <2>2, Grouped
  <2>4. Join(<<z2>>, rest) = ZeroIdxLeft(idx, x, h)
    BY <1>2, FirstWrite DEF ZeroIdxLeft, IxLeft, If
  <2>5. IsSequence(ZeroIdxLeft(idx, x, h))
    BY <2>1, <2>4, Grouped
  <2>6. Join(Only(pos = "middle", Join(<<m2>>, <<m3>>)), ZeroIdxLeft(idx, x, h))
          = MoveMetaLeft(idx, meta, x, h)
    <3>1. CASE pos = "middle"
      <4>1. Join(Join(<<m2>>, <<m3>>), ZeroIdxLeft(idx, x, h))
              = Join(<<m2>>, Join(<<m3>>, ZeroIdxLeft(idx, x, h)))
        BY <2>1, <2>5, Grouped
      <4>2. Join(<<m3>>, ZeroIdxLeft(idx, x, h)) = ZeroMetaLeft(idx, x, h)
            /\ IsSequence(ZeroMetaLeft(idx, x, h))
        BY <3>1, <2>5, FirstWrite DEF ZeroMetaLeft, If
      <4>3. Join(<<m2>>, ZeroMetaLeft(idx, x, h)) = MoveMetaLeft(idx, meta, x, h)
        BY <3>1, <4>2, FirstWrite DEF MoveMetaLeft, MetaWrite, If
      <4>4. QED
        BY <3>1, <4>1, <4>2, <4>3 DEF Only
    <3>2. CASE pos # "middle"
      <4>1. MoveMetaLeft(idx, meta, x, h) = ZeroIdxLeft(idx, x, h)
        BY <1>2, <3>2 DEF MoveMetaLeft, ZeroMetaLeft, MetaMoves, If
      <4>2. QED
        BY <3>2, <4>1, <2>5, NothingJoined DEF Only
    <3>3. QED
      BY <3>1, <3>2
  <2>7. Only(pos = "middle", Cpu("meta", n, meta[x]) \o Cpu("meta", x, 0)) \o Cpu("idx", x, ZeroIdx) = s2
    BY DEF Join, Cpu, Plain, AWrite
  <2> HIDE DEF s2, m2, m3, z2
  <2>8. QED
    BY <1>2, <2>3, <2>4, <2>6, <2>7
<1>3. QED
  BY <1>1, <1>2

LEMMA DelAsWrites ==
    ASSUME NEW e, NEW h
    PROVE  post_del_dma_cmd(e) \o Cpu("sweep", 0, 0) \o Cpu("ids", h, 0) = IndexLeft(nat, idx, meta, e, h)
<1> DEFINE x == nat[e].ix
           n == idx[x].next
           nn == idx[n].next
           a1 == IndexWrite(idx, meta, x)
           a == Join(<<a1>>, Only(IdxPos(idx, x) = "head", <<Plain("idx.next", x, nn)>>))
           b == <<RuleWrite(nat, e)>>
           c1 == Only(NatPos(nat, e) = "middle", <<Plain("prev", nat[e].next, nat[e].prev)>>)
           c2 == Only(NatPos(nat, e) # "head", <<Plain("nat", e, Zero)>>)
           c == Join(c1, c2)
           d == IF IdxPos(idx, x) = "head"
                THEN Only(nn # 0, Cpu("meta", nn, x)) \o Cpu("idx", n, ZeroIdx)
                     \o Cpu("ix", idx[n].entry, x)
                ELSE Only(IdxPos(idx, x) = "middle", Cpu("meta", n, meta[x]) \o Cpu("meta", x, 0))
                     \o Cpu("idx", x, ZeroIdx)
           w == <<Plain("sweep", 0, 0)>>
           g == <<Plain("ids", h, 0)>>
<1>1. IsSequence(SweepLeft(h)) /\ Join(w, g) = SweepLeft(h)
  <2>1. g = HdlLeft(h)
    BY NothingJoined, NoWrites, OneWrite, FirstWrite DEF HdlLeft
  <2>2. QED
    BY <2>1, DelSequences, FirstWrite DEF SweepLeft
<1>2. IsSequence(d) /\ Join(d, SweepLeft(h)) = MoveMetaLeft(idx, meta, x, h)
  BY <1>1, IndexEntryWrites
<1>3. Sequences6(a, b, c, d, w, g)
  <2>1. IsSequence(<<a1>>) /\ IsSequence(b) /\ IsSequence(w) /\ IsSequence(g) /\ IsSequence(<<>>)
    BY OneWrite, NoWrites
  <2>2. /\ IsSequence(c1) /\ IsSequence(c2)
        /\ IsSequence(Only(IdxPos(idx, x) = "head", <<Plain("idx.next", x, nn)>>))
    BY <2>1, OnlyThen
  <2> HIDE DEF a1, b, c1, c2, d, w, g
  <2>3. IsSequence(a) /\ IsSequence(c)
    BY <2>1, <2>2, Grouped
  <2> HIDE DEF a, c
  <2>4. QED
    BY <1>2, <2>1, <2>3 DEF Sequences6
<1>4. DelDma(e) = Join(a, b)
  <2> DEFINE i == CASE index_rule_pos(x) = "only" -> Dma("idx.entry", x, 0, "delete", "abort")
                    [] index_rule_pos(x) = "head" -> Dma("idx.entry", x, idx[n].entry, "delete", "abort")
                                                     \o Dma("idx.next", x, idx[n].next, "none", "on")
                    [] OTHER -> Dma("idx.next", meta[x], n, "delete", "abort")
             k == CASE rule_pos(e) = "only" -> Dma("on", e, FALSE, "none", "on")
                    [] rule_pos(e) = "head" -> Dma("flow", e, Dead, "none", "on")
                    [] OTHER -> Dma("next", nat[e].prev, nat[e].next, "none", "on")
  <2>1. DelDma(e) = i \o k
    BY DEF DelDma
  <2>2. index_rule_pos(x) = IdxPos(idx, x) /\ rule_pos(e) = NatPos(nat, e)
    BY DEF index_rule_pos, rule_pos, IdxPos, NatPos
  <2>3. k = b
    BY <2>2 DEF RuleWrite, Dma, Plain, AWrite
  <2>4. i = a
    <3>1. CASE IdxPos(idx, x) = "head"
      <4>1. a1 = AWrite("idx.entry", x, idx[n].entry, "delete", "abort")
        BY <3>1 DEF IndexWrite
      <4>2. i = Dma("idx.entry", x, idx[n].entry, "delete", "abort") \o Dma("idx.next", x, nn, "none", "on")
        BY <2>2, <3>1
      <4>3. Dma("idx.entry", x, idx[n].entry, "delete", "abort") = <<a1>>
        BY <4>1 DEF Dma, AWrite
      <4>4. Dma("idx.next", x, nn, "none", "on") = <<Plain("idx.next", x, nn)>>
        BY DEF Dma, Plain, AWrite
      <4> HIDE DEF i, a1
      <4>5. QED
        BY <3>1, <4>2, <4>3, <4>4 DEF Join, Only
    <3>2. CASE IdxPos(idx, x) # "head"
      <4>1. i = <<a1>>
        BY <2>2, <3>2 DEF IndexWrite, Dma, AWrite
      <4>2. a = <<a1>>
        BY <3>2, NothingJoined, OneWrite DEF Only
      <4>3. QED
        BY <4>1, <4>2
    <3>3. QED
      BY <3>1, <3>2
  <2> HIDE DEF i, k
  <2>5. QED
    BY <2>1, <2>3, <2>4 DEF Join
<1>5. DelCpu(e) = Join(c, d)
  <2>1. index_rule_pos(x) = IdxPos(idx, x) /\ rule_pos(e) = NatPos(nat, e)
    BY DEF index_rule_pos, rule_pos, IdxPos, NatPos
  <2>2. DelCpu(e) = Only(rule_pos(e) = "middle", Cpu("prev", nat[e].next, nat[e].prev))
                    \o Only(rule_pos(e) # "head", Cpu("nat", e, Zero)) \o d
    BY <2>1 DEF DelCpu
  <2>3. /\ Only(rule_pos(e) = "middle", Cpu("prev", nat[e].next, nat[e].prev)) = c1
        /\ Only(rule_pos(e) # "head", Cpu("nat", e, Zero)) = c2
    BY <2>1 DEF Cpu, Plain, AWrite
  <2> HIDE DEF c1, c2, d
  <2>4. QED
    BY <2>2, <2>3 DEF Join
<1>6. Cpu("sweep", 0, 0) = w /\ Cpu("ids", h, 0) = g
  BY DEF Cpu, Plain, AWrite
<1>7. Join(c, MoveMetaLeft(idx, meta, x, h)) = PrevLeft(nat, idx, meta, e, h)
  <2>1. IsSequence(c1) /\ IsSequence(c2) /\ IsSequence(MoveMetaLeft(idx, meta, x, h))
        /\ Join(c2, MoveMetaLeft(idx, meta, x, h)) = ZeroNatLeft(nat, idx, meta, e, h)
    BY DelSequences, OnlyThen DEF ZeroNatLeft
  <2>2. Join(c1, ZeroNatLeft(nat, idx, meta, e, h)) = PrevLeft(nat, idx, meta, e, h)
    BY DelSequences, OnlyThen DEF PrevLeft
  <2> HIDE DEF c1, c2
  <2>3. QED
    BY <2>1, <2>2, Grouped
<1>8. Join(b, PrevLeft(nat, idx, meta, e, h)) = RuleLeft(nat, idx, meta, e, h)
  BY DelSequences, FirstWrite DEF RuleLeft
<1>9. Join(a, RuleLeft(nat, idx, meta, e, h)) = IndexLeft(nat, idx, meta, e, h)
  <2> DEFINE a2 == Only(IdxPos(idx, x) = "head", <<Plain("idx.next", x, nn)>>)
  <2>1. IsSequence(<<a1>>) /\ IsSequence(a2) /\ IsSequence(RuleLeft(nat, idx, meta, e, h))
        /\ Join(a2, RuleLeft(nat, idx, meta, e, h)) = IdxRestLeft(nat, idx, meta, e, h)
    BY DelSequences, OneWrite, OnlyThen DEF IdxRestLeft
  <2>2. Join(<<a1>>, IdxRestLeft(nat, idx, meta, e, h)) = IndexLeft(nat, idx, meta, e, h)
    BY DelSequences, FirstWrite DEF IndexLeft
  <2> HIDE DEF a1, a2
  <2>3. Join(Join(<<a1>>, a2), RuleLeft(nat, idx, meta, e, h)) = IndexLeft(nat, idx, meta, e, h)
    BY <2>1, <2>2, Grouped
  <2>4. QED
    BY <2>3 DEF a2
<1> HIDE DEF a, b, c, d, w, g
<1>10. post_del_dma_cmd(e) \o Cpu("sweep", 0, 0) \o Cpu("ids", h, 0)
         = Join(Join(Join(Join(a, b), Join(c, d)), w), g)
  BY <1>4, <1>5, <1>6 DEF post_del_dma_cmd, Join
<1>11. @ = Join(a, Join(b, Join(c, Join(d, Join(w, g)))))
  BY <1>3, DelGrouped
<1>12. QED
  BY <1>1, <1>2, <1>7, <1>8, <1>9, <1>10, <1>11

-----------------------------------------------------------------------------
(* The tables between and during the calls.                                *)

Dsts == [f \in Flows |-> Dst(f)]
Srcs == [f \in Flows |-> Src(f)]

\* The lists of tables nt, it and mt.
Sound(nt, it, mt) ==
    /\ nt \in NatTables /\ it \in IdxTables /\ mt \in Metas
    /\ NatLists(nt, Dsts) /\ Swept(nt) /\ IdxLists(nt, it, mt, Srcs)

\* Each rule has a handle that the caller has.
Owned(nt, set) == \A e \in set : held[nt[e].flow] # 0 /\ ids[held[nt[e].flow]] = e

At(list, nt, it, mt) == todo = list /\ nat = nt /\ idx = it /\ meta = mt

\* The rule is put into r.at and its index entry into x.at.
AddStages(nt, it, mt, r, x) ==
    LET f == op.flow
        h == op.hdl
        m == MetaSet(mt, x)
    IN  \/ At(MetaLeft(f, r, x, h), nt, it, mt)
        \/ At(NatLeft(f, r, x, h), nt, it, m)
        \/ At(NextLeft(r, x, h), NatWritten(nt, f, r, x), it, m)
        \/ At(IdxLeft(r, x, h), NatLinked(nt, f, r, x), it, m)
        \/ At(IdxNextLeft(r, x, h), NatLinked(nt, f, r, x), IdxWritten(it, r, x), m)
        \/ At(OnLeft(r, h), NatLinked(nt, f, r, x), IdxLinked(it, r, x), m)
        \/ At(IdsLeft(r, h), NatEnabled(nt, f, r, x), IdxLinked(it, r, x), m)
        \/ At(<<>>, NatEnabled(nt, f, r, x), IdxLinked(it, r, x), m) /\ ids[h] = r.at

AddSnap(nt, it, mt, r, x) ==
    /\ Sound(nt, it, mt) /\ Owned(nt, Ruled(nt))
    /\ r \in Slots /\ x \in Slots
    /\ Place(nt, Enabled(nt), NatHome(nt, Dsts), Dsts[op.flow], r)
    /\ Place(it, Taken(it), IdxHome(nt, it, Srcs), Srcs[op.flow], x)

\* The rule in e is taken out.
RuleLast(nt, it, e) ==
    IF IdxPos(it, nt[e].ix) = "head"
    THEN Indexed(RuleGone(nt, e), it[it[nt[e].ix].next].entry, nt[e].ix)
    ELSE RuleGone(nt, e)

DelStages(nt, it, mt, e) ==
    LET h == op.hdl
        x == nt[e].ix
        i1 == IdxCut(it, mt, x)
        i2 == IdxJoined(it, mt, x)
        i3 == IdxGone(it, mt, x)
        m1 == MetaMoved(it, mt, x)
        m2 == MetaGone(it, mt, x)
        d3 == RuleGone(nt, e)
        d4 == RuleLast(nt, it, e)
    IN  \/ At(IndexLeft(nt, it, mt, e, h), nt, it, mt)
        \/ At(IdxRestLeft(nt, it, mt, e, h), nt, i1, mt)
        \/ At(RuleLeft(nt, it, mt, e, h), nt, i2, mt)
        \/ At(PrevLeft(nt, it, mt, e, h), RuleCut(nt, e), i2, mt)
        \/ At(ZeroNatLeft(nt, it, mt, e, h), RuleJoined(nt, e), i2, mt)
        \/ At(MoveMetaLeft(it, mt, x, h), d3, i2, mt)
        \/ At(ZeroMetaLeft(it, x, h), d3, i2, m1)
        \/ At(ZeroIdxLeft(it, x, h), d3, i2, m2)
        \/ At(IxLeft(it, x, h), d3, i3, m2)
        \/ At(SweepLeft(h), d4, i3, m2)
        \/ At(HdlLeft(h), Sweep(d4), i3, m2)
        \/ At(<<>>, Sweep(d4), i3, m2) /\ ids[h] = 0

DelSnap(nt, it, mt, e) ==
    /\ Sound(nt, it, mt)
    /\ e \in Ruled(nt) /\ nt[e].flow = op.flow
    /\ \A v \in Ruled(nt) \ {e} : nt[v].flow # op.flow
    /\ Owned(nt, Ruled(nt) \ {e})

\* No write is left.
Rested == tbl.hw /\ Sound(nat, idx, meta) /\ Owned(nat, Ruled(nat))

\* The table is put in.
Zeroed == nat = [e \in All |-> Zero] /\ idx = [e \in All |-> ZeroIdx]
UseLeft == Then(AWrite("tbl", "hw", TRUE, "open", "abort"), <<>>)
ResetLeft == Then(Plain("reset", 0, 0), UseLeft)
MapLeft == Then(AWrite("tbl", "mapped", TRUE, "open", "abort"), ResetLeft)
AllocLeft(c) == If(c, Plain("alloc", 0, 0), MapLeft)
ValidLeft(c) == Then(Plain("tbl", "valid", TRUE), AllocLeft(c))

OpenStages ==
    /\ meta \in Metas
    /\ \/ ~tbl.hw /\ \E c \in BOOLEAN : todo = ValidLeft(c) \/ todo = AllocLeft(c)
       \/ ~tbl.hw /\ todo = ResetLeft
       \/ ~tbl.hw /\ todo = UseLeft /\ Zeroed
       \/ ~tbl.hw /\ todo = <<>> /\ ~op.ok
       \/ tbl.hw /\ todo = <<>> /\ op.ok /\ Zeroed

\* The invariant of the memory: while a call is under way, the memory is what the writes
\* done so far have made of sound tables nt, it, mt, and todo is what is left of them.
MemInv ==
    /\ \A f \in Flows : held[f] # 0 => f \in Scenes[scene].flows
    /\ op.kind = "none" /\ up => Rested
    /\ op.kind = "none" /\ ~up => ~tbl.hw /\ meta \in Metas
    /\ op.kind = "add" =>
         /\ tbl.hw /\ op.ok /\ op.flow \in Scenes[scene].flows
         /\ \E nt, it, mt, r, x : AddSnap(nt, it, mt, r, x) /\ AddStages(nt, it, mt, r, x)
    /\ op.kind = "del" =>
         \/ tbl.hw /\ op.ok /\ \E nt, it, mt, e : DelSnap(nt, it, mt, e) /\ DelStages(nt, it, mt, e)
         \/ ~op.ok /\ todo = <<>> /\ Rested
    /\ op.kind = "open" => OpenStages
    /\ op.kind = "close" => meta \in Metas /\ (~Pending("forget") => ~tbl.hw)

-----------------------------------------------------------------------------
(* What the hardware finds.                                                *)

LEMMA HashesKnown ==
    ASSUME TypeOK
    PROVE  /\ Dsts \in Hashes /\ Srcs \in Hashes
           /\ \A f \in Flows : Dsts[f] = Dst(f) /\ Srcs[f] = Src(f)
<1>1. \A f \in Flows : Scenes[scene].dst[f] \in Nat /\ Scenes[scene].src[f] \in Nat
  <2>1. Scenes[scene].dst \in [Flows -> Nat] /\ Scenes[scene].src \in [Flows -> Nat]
    BY NatTableAssumption DEF TypeOK
  <2>2. QED
    BY <2>1
<1>2. \A h \in Nat : Hash(h) \in Usable \cap Base
  <2> SUFFICES ASSUME NEW h \in Nat PROVE Hash(h) \in Usable \cap Base
    OBVIOUS
  <2>1. Hash(h) \in Handles /\ Hash(h) \in Base
    BY HashIsEntry
  <2>2. table_entries \notin Base
    BY Sizes DEF Base
  <2>3. QED
    BY <2>1, <2>2 DEF Usable, Handles
<1>3. \A f \in Flows : Dst(f) \in Usable \cap Base /\ Src(f) \in Usable \cap Base
  BY <1>1, <1>2 DEF Dst, Src
<1>4. QED
  BY <1>3 DEF Dsts, Srcs, Hashes

LEMMA ChainInAll ==
    ASSUME NEW table, IsTable(table), NEW b \in All
    PROVE  Chain(table, b) \subseteq All
<1>1. PICK f : Reaches(f, table, b)
  BY ChainSteps
<1> DEFINE N == expn_table_entries
           S == {k \in 0 .. N : f[k] \subseteq All}
<1>2. N \in Nat
  BY Sizes
<1>3. 0 \in S
  BY <1>1, <1>2 DEF Reaches
<1>4. ASSUME NEW k \in 0 .. N, k \in S, k < N
      PROVE  k + 1 \in S
  <2>1. k + 1 \in 1 .. N /\ (k + 1) - 1 = k
    BY <1>2, <1>4
  <2>2. f[k + 1] = Further(table, f[k])
    BY <1>1, <2>1 DEF Reaches
  <2>3. f[k + 1] \subseteq All
    BY <1>4, <2>2 DEF Further, IsTable
  <2>4. QED
    BY <2>1, <2>3
<1> HIDE DEF S
<1>5. N \in S
  <2>1. \A k \in 0 .. N : k \in S /\ k < N => k + 1 \in S
    BY <1>4
  <2> HIDE DEF N
  <2>2. \A k \in 0 .. N : k \in S
    BY <1>2, <1>3, <2>1, UpTo
  <2>3. QED
    BY <1>2, <2>2
<1>6. QED
  BY <1>1, <1>5 DEF Reaches, S

\* All connections but f: the enabled rules are those the caller has handles of, and the
\* hardware finds them.
Others(f) == {e \in Ruled(nat) : nat[e].flow # f}
Live(f) ==
    /\ nat \in NatTables /\ idx \in IdxTables
    /\ \A e \in Others(f) : held[nat[e].flow] # 0
    /\ NatFinds(nat, Dsts, Others(f)) /\ IdxFinds(nat, idx, Srcs, Others(f))

LEMMA LiveServes ==
    ASSUME IInv, NEW f, Live(f), op.kind # "close", op.kind = "del" => op.flow = f,
           tbl.hw, NEW g \in Flows, g # f
    PROVE  (Inbound(g) <=> held[g] # 0) /\ (Outbound(g) <=> held[g] # 0)
<1>1. TypeOK
  BY DEF IInv
<1>2. Dst(g) = Dsts[g] /\ Src(g) = Srcs[g] /\ Dst(g) \in All /\ Src(g) \in All
  BY <1>1, HashesKnown, Sizes DEF Hashes, Usable
<1>3. IsTable(nat) /\ IsTable(idx)
  BY EntryFields, IndexFields DEF Live, IsTable, NatTables, IdxTables
<1>4. ASSUME NEW e \in All, nat[e].on, nat[e].flow = g
      PROVE  held[g] # 0
  <2>1. e \in Others(f)
    BY <1>4 DEF Others, Ruled
  <2>2. QED
    BY <1>4, <2>1 DEF Live
<1>5. Chain(nat, Dst(g)) \subseteq All /\ Chain(idx, Src(g)) \subseteq All
  BY <1>2, <1>3, ChainInAll
<1>6. Inbound(g) => held[g] # 0
  BY <1>4, <1>5 DEF Inbound
<1>7. Outbound(g) => held[g] # 0
  <2>1. \A x \in All : idx[x].entry \in All
    BY IndexFields DEF Live, IdxTables
  <2>2. QED
    BY <1>4, <1>5, <2>1 DEF Outbound
<1>8. ASSUME held[g] # 0
      PROVE  Inbound(g) /\ Outbound(g)
  <2> DEFINE e == ids[held[g]]
  <2>1. e # 0 /\ nat[e].on /\ nat[e].flow = g
    BY <1>8 DEF IInv, HeldLead
  <2>2. e \in All
    BY <1>1, <1>8 DEF TypeOK, Handles
  <2>3. e \in Others(f)
    BY <2>1, <2>2 DEF Others, Ruled
  <2> HIDE DEF e
  <2>4. e \in Chain(nat, Dst(g))
    BY <1>2, <2>1, <2>3 DEF Live, NatFinds
  <2>5. PICK x \in Chain(idx, Src(g)) : idx[x].entry = e
    BY <1>2, <2>1, <2>3 DEF Live, IdxFinds
  <2>6. QED
    BY <2>1, <2>4, <2>5 DEF Inbound, Outbound
<1>9. QED
  BY <1>6, <1>7, <1>8

FoundIn(nt, K, f, n, i) ==
    /\ n \in NatTables /\ i \in IdxTables
    /\ \A e \in K : n[e].flow = nt[e].flow
    /\ \A e \in All \ K : n[e].on /\ n[e].flow \in Flows => n[e].flow = f
    /\ NatFinds(n, Dsts, K) /\ IdxFinds(nt, i, Srcs, K)

LEMMA LiveFrom ==
    ASSUME NEW nt, NEW K, NEW f, Owned(nt, K), FoundIn(nt, K, f, nat, idx)
    PROVE  Live(f)
<1>1. Others(f) \subseteq K
  BY DEF Others, Ruled, FoundIn
<1>2. \A e \in Others(f) : nat[e].flow = nt[e].flow
  BY <1>1 DEF FoundIn
<1>3. \A e \in Others(f) : held[nat[e].flow] # 0
  BY <1>1, <1>2 DEF Owned
<1>4. NatFinds(nat, Dsts, Others(f))
  BY <1>1 DEF FoundIn, NatFinds
<1>5. IdxFinds(nat, idx, Srcs, Others(f))
  BY <1>1, <1>2 DEF FoundIn, IdxFinds
<1>6. QED
  BY <1>3, <1>4, <1>5 DEF Live, FoundIn

\* All about a rule that is put in.
AddFacts(nt, it, mt, r, x, f, n1, n2, n3, i1, i2, m1) ==
    /\ FoundIn(nt, Ruled(nt), f, nt, it) /\ FoundIn(nt, Ruled(nt), f, n1, it)
    /\ FoundIn(nt, Ruled(nt), f, n2, it) /\ FoundIn(nt, Ruled(nt), f, n2, i1)
    /\ FoundIn(nt, Ruled(nt), f, n2, i2) /\ FoundIn(nt, Ruled(nt), f, n3, i2)
    /\ Sound(n3, i2, m1)
    /\ Ruled(n3) = Ruled(nt) \cup {r.at} /\ r.at \notin Ruled(nt)
    /\ \A e \in Ruled(nt) : n3[e].flow = nt[e].flow
    /\ n3[r.at].flow = f

LEMMA AddFactsHold ==
    ASSUME TypeOK, op.flow \in Flows, NEW nt, NEW it, NEW mt, NEW r, NEW x,
           AddSnap(nt, it, mt, r, x), NEW f, f = op.flow,
           NEW n1, n1 = NatWritten(nt, f, r, x),
           NEW n2, n2 = NatLinked(nt, f, r, x),
           NEW n3, n3 = NatEnabled(nt, f, r, x),
           NEW i1, i1 = IdxWritten(it, r, x),
           NEW i2, i2 = IdxLinked(it, r, x),
           NEW m1, m1 = MetaSet(mt, x)
    PROVE  AddFacts(nt, it, mt, r, x, f, n1, n2, n3, i1, i2, m1)
<1> DEFINE dst == Dsts
           src == Srcs
<1>1. dst \in Hashes /\ src \in Hashes
  BY HashesKnown
<1>2. /\ nt \in NatTables /\ it \in IdxTables /\ mt \in Metas
      /\ NatLists(nt, dst) /\ Swept(nt) /\ IdxLists(nt, it, mt, src)
      /\ r \in Slots /\ x \in Slots
      /\ Place(nt, Enabled(nt), NatHome(nt, dst), dst[f], r)
      /\ Place(it, Taken(it), IdxHome(nt, it, src), src[f], x)
  BY DEF AddSnap, Sound
<1>3. f \in Flows
  OBVIOUS
<1> HIDE DEF dst, src
<1>4. /\ r.at \notin Enabled(nt) /\ NatLists(n3, dst) /\ Swept(n3)
      /\ NatFinds(n1, dst, Ruled(nt)) /\ NatFinds(n2, dst, Ruled(nt))
  BY <1>1, <1>2, <1>3, AddNat
<1>5. r.at \notin Ruled(nt) /\ r.prev # r.at /\ (r.prev = 0 \/ r.prev \in Enabled(nt))
      /\ 0 \notin Enabled(nt)
  <2>1. 0 \notin Enabled(nt) /\ r.at # 0
    BY <1>2, LinkedLinks DEF NatLists, Slots, Usable
  <2>2. r.prev = 0 \/ r.prev \in Enabled(nt)
    BY <1>2 DEF Place
  <2>3. QED
    BY <1>4, <2>1, <2>2 DEF Ruled, Enabled
<1>6. Added(nt, f, r, x, n1, n2, n3)
  BY <1>2, <1>3, <1>5, AddValues
<1>7. /\ Ruled(n3) = Ruled(nt) \cup {r.at}
      /\ \A e \in Ruled(nt) : /\ n1[e].flow = nt[e].flow /\ n2[e].flow = nt[e].flow
                              /\ n3[e].flow = nt[e].flow /\ n3[e].ix = nt[e].ix
      /\ \A e \in All \ {r.at} : /\ n1[e].on = nt[e].on /\ n1[e].flow = nt[e].flow
                                 /\ n2[e].on = nt[e].on /\ n2[e].flow = nt[e].flow
                                 /\ n3[e].on = nt[e].on /\ n3[e].flow = nt[e].flow
      /\ n3[r.at].flow = f /\ n3[r.at].ix = x.at
      /\ ~n1[r.at].on /\ ~n2[r.at].on
  BY <1>1, <1>2, <1>3, <1>4, <1>5, <1>6, AddRuled
<1>8. /\ i1 \in IdxTables /\ i2 \in IdxTables /\ m1 \in Metas
      /\ IdxLists(n3, i2, m1, src)
      /\ IdxFinds(nt, i1, src, Ruled(nt)) /\ IdxFinds(nt, i2, src, Ruled(nt))
  BY <1>1, <1>2, <1>3, <1>5, <1>7, AddIdx
<1>9. n1 \in NatTables /\ n2 \in NatTables /\ n3 \in NatTables
  BY <1>6 DEF Added
<1>10. /\ NatFinds(nt, dst, Ruled(nt)) /\ IdxFinds(nt, it, src, Ruled(nt))
       /\ NatFinds(n3, dst, Ruled(nt))
  <2>1. NatFinds(n3, dst, Ruled(n3))
    BY <1>4, ListsFind
  <2>2. QED
    BY <1>2, <1>7, <2>1, ListsFind DEF NatFinds
<1>11. \A e \in All \ Ruled(nt) : ~(nt[e].on /\ nt[e].flow \in Flows)
  BY DEF Ruled
<1>12. /\ \A e \in All \ Ruled(nt) : n1[e].on /\ n1[e].flow \in Flows => n1[e].flow = f
       /\ \A e \in All \ Ruled(nt) : n2[e].on /\ n2[e].flow \in Flows => n2[e].flow = f
       /\ \A e \in All \ Ruled(nt) : n3[e].on /\ n3[e].flow \in Flows => n3[e].flow = f
  BY <1>7, <1>11
<1>13. /\ FoundIn(nt, Ruled(nt), f, nt, it) /\ FoundIn(nt, Ruled(nt), f, n1, it)
       /\ FoundIn(nt, Ruled(nt), f, n2, it) /\ FoundIn(nt, Ruled(nt), f, n2, i1)
       /\ FoundIn(nt, Ruled(nt), f, n2, i2) /\ FoundIn(nt, Ruled(nt), f, n3, i2)
  BY <1>2, <1>4, <1>7, <1>8, <1>9, <1>10, <1>11, <1>12 DEF FoundIn, dst, src
<1>14. Sound(n3, i2, m1)
  BY <1>4, <1>8, <1>9 DEF Sound, dst, src
<1>15. QED
  BY <1>5, <1>7, <1>13, <1>14 DEF AddFacts

LEMMA AddLive ==
    ASSUME TypeOK, op.flow \in Flows, NEW nt, NEW it, NEW mt, NEW r, NEW x,
           AddSnap(nt, it, mt, r, x), AddStages(nt, it, mt, r, x)
    PROVE  Live(op.flow)
<1> DEFINE f == op.flow
           n1 == NatWritten(nt, f, r, x)
           n2 == NatLinked(nt, f, r, x)
           n3 == NatEnabled(nt, f, r, x)
           i1 == IdxWritten(it, r, x)
           i2 == IdxLinked(it, r, x)
           m1 == MetaSet(mt, x)
<1>1. AddFacts(nt, it, mt, r, x, f, n1, n2, n3, i1, i2, m1)
  BY AddFactsHold
<1>2. Owned(nt, Ruled(nt))
  BY DEF AddSnap
<1>3. \/ nat = nt /\ idx = it
      \/ nat = n1 /\ idx = it
      \/ nat = n2 /\ idx = it
      \/ nat = n2 /\ idx = i1
      \/ nat = n2 /\ idx = i2
      \/ nat = n3 /\ idx = i2
  BY DEF AddStages, At
<1> HIDE DEF f, n1, n2, n3, i1, i2, m1
<1>4. FoundIn(nt, Ruled(nt), f, nat, idx)
  BY <1>1, <1>3 DEF AddFacts
<1>5. Live(f)
  BY <1>2, <1>4, LiveFrom
<1>6. QED
  BY <1>5 DEF f

\* All about a rule that is taken out.
DelFacts(nt, it, mt, e, f, d1, d2, d3, d4, d5, i1, i2, i3, m1, m2) ==
    LET K == Ruled(nt) \ {e}
    IN  /\ FoundIn(nt, K, f, nt, it) /\ FoundIn(nt, K, f, nt, i1) /\ FoundIn(nt, K, f, nt, i2)
        /\ FoundIn(nt, K, f, d1, i2) /\ FoundIn(nt, K, f, d2, i2) /\ FoundIn(nt, K, f, d3, i2)
        /\ FoundIn(nt, K, f, d3, i3) /\ FoundIn(nt, K, f, d4, i3) /\ FoundIn(nt, K, f, d5, i3)
        /\ Sound(d5, i3, m2) /\ m1 \in Metas
        /\ Ruled(d5) = K /\ \A v \in K : d5[v].flow = nt[v].flow

LEMMA FoundWithout ==
    ASSUME NEW nt \in NatTables, NEW e \in Ruled(nt), NEW f, f = nt[e].flow,
           NEW d, OthersFound(Dsts, nt, e, d), NEW i \in IdxTables,
           IdxFinds(nt, i, Srcs, Ruled(nt) \ {e})
    PROVE  FoundIn(nt, Ruled(nt) \ {e}, f, d, i)
BY DEF FoundIn, OthersFound

\* What a head takes over belongs to another rule.
LEMMA TakenOver ==
    ASSUME NEW src \in Hashes, NEW nt \in NatTables, NEW it \in IdxTables, NEW mt \in Metas,
           IdxLists(nt, it, mt, src), NEW e \in Ruled(nt), NEW x, x = nt[e].ix,
           IdxPos(it, x) = "head", NEW o, o = it[it[x].next].entry
    PROVE  o \in Ruled(nt) /\ o # e
<1>1. x \in Taken(it) /\ x \in Base /\ it[x].next # 0
  BY IndexFacts
<1>2. it[x].next \in Taken(it) /\ it[x].next \in Expansion
  BY <1>1 DEF IdxLists, Linked
<1>3. o \in Ruled(nt) /\ nt[o].ix = it[x].next
  BY <1>2 DEF IdxLists
<1>4. QED
  BY <1>1, <1>2, <1>3, BaseOrExpansion

LEMMA DelFactsHold ==
    ASSUME TypeOK, NEW nt, NEW it, NEW mt, NEW e, DelSnap(nt, it, mt, e),
           NEW f, f = op.flow, NEW x, x = nt[e].ix,
           NEW d1, d1 = RuleCut(nt, e), NEW d2, d2 = RuleJoined(nt, e), NEW d3, d3 = RuleGone(nt, e),
           NEW d4, d4 = RuleLast(nt, it, e), NEW d5, d5 = Sweep(d4),
           NEW i1, i1 = IdxCut(it, mt, x), NEW i2, i2 = IdxJoined(it, mt, x),
           NEW i3, i3 = IdxGone(it, mt, x),
           NEW m1, m1 = MetaMoved(it, mt, x), NEW m2, m2 = MetaGone(it, mt, x)
    PROVE  DelFacts(nt, it, mt, e, f, d1, d2, d3, d4, d5, i1, i2, i3, m1, m2)
<1> DEFINE dst == Dsts
           src == Srcs
           K == Ruled(nt) \ {e}
           o == it[it[x].next].entry
<1>1. dst \in Hashes /\ src \in Hashes
  BY HashesKnown
<1>2. /\ nt \in NatTables /\ it \in IdxTables /\ mt \in Metas
      /\ NatLists(nt, dst) /\ Swept(nt) /\ IdxLists(nt, it, mt, src)
      /\ e \in Ruled(nt) /\ nt[e].flow = f
  BY DEF DelSnap, Sound
<1> HIDE DEF dst, src
<1>3. RuleOut(dst, nt, e, d1, d2, d3)
  BY <1>1, <1>2, NatDel
<1>4. /\ OthersFound(dst, nt, e, d1) /\ OthersFound(dst, nt, e, d2) /\ OthersFound(dst, nt, e, d3)
      /\ NatLists(d3, dst)
      /\ \A v \in All \ {e} : d3[v].ix = nt[v].ix /\ d3[v].on = nt[v].on /\ d3[v].flow = nt[v].flow
      /\ d3[e].flow \notin Flows
  BY <1>3 DEF RuleOut
<1>5. /\ OthersFound(dst, nt, e, d4) /\ NatLists(d4, dst)
      /\ \A v \in All : d4[v].on = d3[v].on /\ d4[v].flow = d3[v].flow
      /\ \A v \in K : d4[v].ix = IF IdxPos(it, x) = "head" /\ v = o THEN x ELSE nt[v].ix
  <2>1. K \subseteq All \ {e}
    BY DEF Ruled
  <2>2. CASE IdxPos(it, x) = "head"
    <3>1. o \in Ruled(nt) /\ o # e
      BY <1>1, <1>2, <2>2, TakenOver
    <3>2. o \in Enabled(d3)
      BY <1>4, <3>1 DEF Ruled, Enabled
    <3>3. d4 = Indexed(d3, o, x)
      BY <2>2 DEF RuleLast
    <3>4. x \in All
      BY <1>1, <1>2, IndexFacts
    <3> HIDE DEF o
    <3>5. /\ OthersFound(dst, nt, e, d4) /\ NatLists(d4, dst)
          /\ d4[o].ix = x /\ \A v \in All \ {o} : d4[v].ix = d3[v].ix
          /\ \A v \in All : d4[v].on = d3[v].on /\ d4[v].flow = d3[v].flow
      BY <1>1, <1>2, <1>4, <3>2, <3>3, <3>4, IndexedKeeps
    <3>6. QED
      BY <1>4, <2>1, <2>2, <3>5
  <2>3. CASE IdxPos(it, x) # "head"
    <3>1. d4 = d3
      BY <2>3 DEF RuleLast
    <3>2. QED
      BY <1>4, <2>1, <2>3, <3>1
  <2>4. QED
    BY <2>2, <2>3
<1>6. /\ OthersFound(dst, nt, e, d5) /\ NatLists(d5, dst) /\ Swept(d5)
      /\ Ruled(d5) = Ruled(d4) /\ \A v \in Ruled(d4) : d5[v] = d4[v]
  BY <1>1, <1>2, <1>5, SweepKeepsLists
<1>7. Ruled(d4) = K
  <2>1. \A v \in K : d4[v].on /\ d4[v].flow \in Flows /\ v \in All
    BY <1>5 DEF OthersFound, Ruled
  <2>2. \A v \in All \ Ruled(nt) : ~(d4[v].on /\ d4[v].flow \in Flows)
    BY <1>5 DEF OthersFound
  <2>3. d4[e].flow \notin Flows
    BY <1>2, <1>4, <1>5 DEF Ruled
  <2>4. QED
    BY <2>1, <2>2, <2>3 DEF Ruled
<1>8. \A v \in K : d5[v].flow = nt[v].flow
                   /\ d5[v].ix = IF IdxPos(it, x) = "head" /\ v = o THEN x ELSE nt[v].ix
  BY <1>5, <1>6, <1>7 DEF OthersFound
<1>9. LeftIn(nt, it, e, d5)
  BY <1>6, <1>7, <1>8 DEF LeftIn
<1>10. IdxOut(nt, it, mt, src, e, d5, i1, i2, i3, m1, m2)
  BY <1>1, <1>2, <1>9, IdxDel
<1>11. /\ i1 \in IdxTables /\ i2 \in IdxTables /\ i3 \in IdxTables /\ m1 \in Metas /\ m2 \in Metas
       /\ IdxFinds(nt, i1, src, K) /\ IdxFinds(nt, i2, src, K) /\ IdxFinds(nt, i3, src, K)
       /\ IdxLists(d5, i3, m2, src)
  BY <1>10 DEF IdxOut
<1>12. OthersFound(dst, nt, e, nt) /\ IdxFinds(nt, it, src, K)
  <2>1. NatFinds(nt, dst, Ruled(nt)) /\ IdxFinds(nt, it, src, Ruled(nt))
    BY <1>2, ListsFind
  <2>2. QED
    BY <1>2, <2>1 DEF OthersFound, NatFinds, IdxFinds, Ruled
<1>13. Sound(d5, i3, m2)
  BY <1>6, <1>11 DEF Sound, OthersFound, dst, src
<1>14. /\ FoundIn(nt, K, f, nt, it) /\ FoundIn(nt, K, f, nt, i1) /\ FoundIn(nt, K, f, nt, i2)
       /\ FoundIn(nt, K, f, d1, i2) /\ FoundIn(nt, K, f, d2, i2) /\ FoundIn(nt, K, f, d3, i2)
       /\ FoundIn(nt, K, f, d3, i3) /\ FoundIn(nt, K, f, d4, i3) /\ FoundIn(nt, K, f, d5, i3)
  BY <1>2, <1>4, <1>5, <1>6, <1>11, <1>12, FoundWithout DEF dst, src
<1>15. QED
  BY <1>6, <1>7, <1>8, <1>11, <1>13, <1>14 DEF DelFacts

LEMMA DelLive ==
    ASSUME TypeOK, NEW nt, NEW it, NEW mt, NEW e, DelSnap(nt, it, mt, e), DelStages(nt, it, mt, e)
    PROVE  Live(op.flow)
<1> DEFINE f == op.flow
           x == nt[e].ix
           d1 == RuleCut(nt, e)
           d2 == RuleJoined(nt, e)
           d3 == RuleGone(nt, e)
           d4 == RuleLast(nt, it, e)
           d5 == Sweep(d4)
           i1 == IdxCut(it, mt, x)
           i2 == IdxJoined(it, mt, x)
           i3 == IdxGone(it, mt, x)
           m1 == MetaMoved(it, mt, x)
           m2 == MetaGone(it, mt, x)
<1>1. DelFacts(nt, it, mt, e, f, d1, d2, d3, d4, d5, i1, i2, i3, m1, m2)
  BY DelFactsHold
<1>2. Owned(nt, Ruled(nt) \ {e})
  BY DEF DelSnap
<1>3. \/ nat = nt /\ idx = it
      \/ nat = nt /\ idx = i1
      \/ nat = nt /\ idx = i2
      \/ nat = d1 /\ idx = i2
      \/ nat = d2 /\ idx = i2
      \/ nat = d3 /\ idx = i2
      \/ nat = d3 /\ idx = i3
      \/ nat = d4 /\ idx = i3
      \/ nat = d5 /\ idx = i3
  BY DEF DelStages, At
<1> HIDE DEF f, d1, d2, d3, d4, d5, i1, i2, i3, m1, m2
<1>4. FoundIn(nt, Ruled(nt) \ {e}, f, nat, idx)
  BY <1>1, <1>3 DEF DelFacts
<1>5. Live(f)
  BY <1>2, <1>4, LiveFrom
<1>6. QED
  BY <1>5 DEF f

-----------------------------------------------------------------------------
(* One write.                                                              *)

LEMMA OneStep ==
    ASSUME Write, NEW w, NEW s, IsSequence(s), todo = Then(w, s)
    PROVE  /\ todo' = s /\ Do(w)
           /\ scene' = scene /\ op' = op /\ held' = held /\ up' = up
<1>1. Head(todo) = w /\ Tail(todo) = s
  BY FirstWrite
<1>2. QED
  BY <1>1 DEF Write

LEMMA DoKinds ==
    ASSUME NEW m, NEW at, NEW v, NEW fault, NEW then, Do(AWrite(m, at, v, fault, then))
    PROVE  /\ m = "nat" => nat' = [nat EXCEPT ![at] = v]
           /\ m = "on" => nat' = [nat EXCEPT ![at].on = v]
           /\ m = "flow" => nat' = [nat EXCEPT ![at].flow = v]
           /\ m = "next" => nat' = [nat EXCEPT ![at].next = v]
           /\ m = "prev" => nat' = [nat EXCEPT ![at].prev = v]
           /\ m = "ix" => nat' = [nat EXCEPT ![at].ix = v]
           /\ m = "sweep" => nat' = Sweep(nat)
           /\ m = "reset" => nat' = [e \in All |-> Zero] /\ idx' = [e \in All |-> ZeroIdx]
           /\ m \notin {"nat", "on", "flow", "next", "prev", "ix", "sweep", "reset"} => nat' = nat
           /\ m = "idx" => idx' = [idx EXCEPT ![at] = v]
           /\ m = "idx.entry" => idx' = [idx EXCEPT ![at].entry = v]
           /\ m = "idx.next" => idx' = [idx EXCEPT ![at].next = v]
           /\ m \notin {"idx", "idx.entry", "idx.next", "reset"} => idx' = idx
           /\ m = "meta" => meta' = [meta EXCEPT ![at] = v]
           /\ m \in {"alloc", "forget"} => meta' = [e \in Expansion |-> 0]
           /\ m \notin {"meta", "alloc", "forget"} => meta' = meta
           /\ m = "ids" => ids' = [ids EXCEPT ![at] = v]
           /\ m \notin {"ids", "alloc", "forget"} => ids' = ids
           /\ m = "tbl" => tbl' = [tbl EXCEPT ![at] = v]
           /\ m = "alloc" => tbl' = [tbl EXCEPT !.ids = TRUE]
           /\ m = "forget" => tbl' = NoTable
           /\ m \notin {"tbl", "alloc", "forget"} => tbl' = tbl
<1> DEFINE w == AWrite(m, at, v, fault, then)
<1>1. w.m = m /\ w.at = at /\ w.v = v
  BY DEF AWrite
<1>2. Do(w)
  OBVIOUS
<1> HIDE DEF w
<1>3. QED
  BY <1>1, <1>2 DEF Do, Sweep, del_dead_ipv4_head_nodes

\* A write of a rule that is put in or taken out.
Kept == /\ scene' = scene /\ op' = op /\ held' = held /\ up' = up /\ tbl' = tbl

LEMMA RuleStepIs ==
    ASSUME Write, NEW m, NEW at, NEW v, NEW fault, NEW then, NEW s, IsSequence(s),
           todo = Then(AWrite(m, at, v, fault, then), s)
    PROVE  /\ todo' = s /\ Do(AWrite(m, at, v, fault, then))
           /\ m \notin {"tbl", "alloc", "forget"} => Kept
           /\ m \notin {"ids", "alloc", "forget"} => ids' = ids
<1>1. todo' = s /\ Do(AWrite(m, at, v, fault, then))
      /\ scene' = scene /\ op' = op /\ held' = held /\ up' = up
  BY OneStep
<1>2. QED
  BY <1>1, DoKinds DEF Kept

\* The same, from tables of which all is known.
LEMMA StepFrom ==
    ASSUME Write, NEW nt, NEW it, NEW mt, NEW m, NEW at, NEW v, NEW s, IsSequence(s),
           At(Then(Plain(m, at, v), s), nt, it, mt)
    PROVE  /\ m = "nat" => todo' = s /\ nat' = [nt EXCEPT ![at] = v] /\ idx' = it /\ meta' = mt
                           /\ Kept /\ ids' = ids
           /\ m = "prev" => todo' = s /\ nat' = [nt EXCEPT ![at].prev = v] /\ idx' = it /\ meta' = mt
                            /\ Kept /\ ids' = ids
           /\ m = "ix" => todo' = s /\ nat' = [nt EXCEPT ![at].ix = v] /\ idx' = it /\ meta' = mt
                          /\ Kept /\ ids' = ids
           /\ m = "sweep" => todo' = s /\ nat' = Sweep(nt) /\ idx' = it /\ meta' = mt
                             /\ Kept /\ ids' = ids
           /\ m = "idx" => todo' = s /\ nat' = nt /\ idx' = [it EXCEPT ![at] = v] /\ meta' = mt
                           /\ Kept /\ ids' = ids
           /\ m = "idx.next" => todo' = s /\ nat' = nt /\ idx' = [it EXCEPT ![at].next = v]
                                /\ meta' = mt /\ Kept /\ ids' = ids
           /\ m = "meta" => todo' = s /\ nat' = nt /\ idx' = it /\ meta' = [mt EXCEPT ![at] = v]
                            /\ Kept /\ ids' = ids
           /\ m = "ids" => todo' = s /\ nat' = nt /\ idx' = it /\ meta' = mt
                           /\ Kept /\ ids' = [ids EXCEPT ![at] = v]
<1>1. todo = Then(Plain(m, at, v), s) /\ nat = nt /\ idx = it /\ meta = mt
  BY DEF At
<1>2. /\ todo' = s /\ Do(Plain(m, at, v))
      /\ m \notin {"tbl", "alloc", "forget"} => Kept
      /\ m \notin {"ids", "alloc", "forget"} => ids' = ids
  BY <1>1, RuleStepIs DEF Plain
<1>3. /\ m = "nat" => nat' = [nat EXCEPT ![at] = v]
      /\ m = "prev" => nat' = [nat EXCEPT ![at].prev = v]
      /\ m = "ix" => nat' = [nat EXCEPT ![at].ix = v]
      /\ m = "sweep" => nat' = Sweep(nat)
      /\ m \in {"idx", "idx.next", "meta", "ids"} => nat' = nat
  BY <1>2, DoKinds DEF Plain
<1>4. /\ m = "idx" => idx' = [idx EXCEPT ![at] = v]
      /\ m = "idx.next" => idx' = [idx EXCEPT ![at].next = v]
      /\ m \in {"nat", "prev", "ix", "sweep", "meta", "ids"} => idx' = idx
  BY <1>2, DoKinds DEF Plain
<1>5. /\ m = "meta" => meta' = [meta EXCEPT ![at] = v]
      /\ m \in {"nat", "prev", "ix", "sweep", "idx", "idx.next", "ids"} => meta' = meta
      /\ m = "ids" => ids' = [ids EXCEPT ![at] = v]
  BY <1>2, DoKinds DEF Plain
<1>6. QED
  BY <1>1, <1>2, <1>3, <1>4, <1>5

LEMMA AddStep ==
    ASSUME TypeOK, Write, op.hdl \in Handles, NEW nt, NEW it, NEW mt, NEW r, NEW x,
           AddStages(nt, it, mt, r, x)
    PROVE  /\ AddStages(nt, it, mt, r, x)' /\ Kept
           /\ \A k \in Handles \ {op.hdl} : ids'[k] = ids[k]
<1> DEFINE f == op.flow
           h == op.hdl
           n1 == NatWritten(nt, f, r, x)
           n2 == NatLinked(nt, f, r, x)
           n3 == NatEnabled(nt, f, r, x)
           i1 == IdxWritten(it, r, x)
           i2 == IdxLinked(it, r, x)
           m1 == MetaSet(mt, x)
           Next1(list, n, i, m) == todo' = list /\ nat' = n /\ idx' = i /\ meta' = m /\ Kept
           Same == ids' = ids
<1>0. /\ IsSequence(IdsLeft(r, h)) /\ IsSequence(OnLeft(r, h))
      /\ IsSequence(IdxNextLeft(r, x, h)) /\ IsSequence(IdxLeft(r, x, h))
      /\ IsSequence(NextLeft(r, x, h)) /\ IsSequence(NatLeft(f, r, x, h)) /\ IsSequence(<<>>)
  BY AddSequences, NoWrites
<1>1. ASSUME At(IdsLeft(r, h), n3, i2, m1)
      PROVE  Next1(<<>>, n3, i2, m1) /\ ids' = [ids EXCEPT ![h] = r.at]
  <2>1. At(Then(Plain("ids", h, r.at), <<>>), n3, i2, m1)
    BY <1>1 DEF IdsLeft
  <2> HIDE DEF n3, i2, m1, h
  <2>2. QED
    BY <1>0, <2>1, StepFrom
<1>2. ASSUME At(OnLeft(r, h), n2, i2, m1)
      PROVE  Next1(IdsLeft(r, h), n3, i2, m1) /\ Same
  <2> DEFINE v == TRUE
             w == AWrite("on", r.at, v, "enable", "abort")
  <2>1. OnLeft(r, h) = Then(w, IdsLeft(r, h))
    BY DEF OnLeft
  <2>2. [n2 EXCEPT ![r.at].on = v] = n3
    BY DEF NatEnabled
  <2> HIDE DEF v
  <2>3. todo' = IdsLeft(r, h) /\ Do(w) /\ Kept /\ Same
    BY <1>0, <1>2, <2>1, RuleStepIs DEF At
  <2>4. nat' = [nat EXCEPT ![r.at].on = v] /\ idx' = idx /\ meta' = meta
    BY <2>3, DoKinds
  <2> HIDE DEF n2, n3, i2, m1
  <2>5. QED
    BY <1>2, <2>2, <2>3, <2>4 DEF At
<1>3. ASSUME At(IdxNextLeft(r, x, h), n2, i1, m1)
      PROVE  (Next1(OnLeft(r, h), n2, i2, m1) \/ Next1(IdsLeft(r, h), n3, i2, m1)) /\ Same
  <2>1. CASE x.prev # 0
    <3> DEFINE w == AWrite("idx.next", x.prev, x.at, "link", "skip")
    <3>1. todo = Then(w, OnLeft(r, h)) /\ nat = n2 /\ idx = i1 /\ meta = m1
      BY <1>3, <2>1 DEF At, IdxNextLeft, If
    <3>2. i2 = [i1 EXCEPT ![x.prev].next = x.at]
      BY <2>1 DEF IdxLinked
    <3> HIDE DEF n2, i1, i2, m1, h
    <3>3. todo' = OnLeft(r, h) /\ Do(w) /\ Kept /\ Same
      BY <1>0, <3>1, RuleStepIs
    <3>4. nat' = nat /\ idx' = [idx EXCEPT ![x.prev].next = x.at] /\ meta' = meta
      BY <3>3, DoKinds
    <3> HIDE DEF w
    <3>5. QED
      BY <3>1, <3>2, <3>3, <3>4
  <2>2. CASE x.prev = 0
    BY <1>2, <1>3, <2>2 DEF At, IdxNextLeft, If, IdxLinked
  <2>3. QED
    BY <2>1, <2>2
<1>4. ASSUME At(IdxLeft(r, x, h), n2, it, m1)
      PROVE  Next1(IdxNextLeft(r, x, h), n2, i1, m1) /\ Same
  <2> DEFINE v == [entry |-> r.at, next |-> 0]
  <2>1. At(Then(Plain("idx", x.at, v), IdxNextLeft(r, x, h)), n2, it, m1)
    BY <1>4 DEF IdxLeft
  <2>2. i1 = [it EXCEPT ![x.at] = v]
    BY DEF IdxWritten
  <2> HIDE DEF v, n2, i1, m1, h
  <2>3. QED
    BY <1>0, <2>1, <2>2, StepFrom
<1>5. ASSUME At(NextLeft(r, x, h), n1, it, m1)
      PROVE  (Next1(IdxLeft(r, x, h), n2, it, m1) \/ Next1(IdxNextLeft(r, x, h), n2, i1, m1)) /\ Same
  <2>1. CASE r.prev # 0
    <3> DEFINE w == AWrite("next", r.prev, r.at, "link", "skip")
    <3>1. todo = Then(w, IdxLeft(r, x, h)) /\ nat = n1 /\ idx = it /\ meta = m1
      BY <1>5, <2>1 DEF At, NextLeft, If
    <3>2. n2 = [n1 EXCEPT ![r.prev].next = r.at]
      BY <2>1 DEF NatLinked
    <3> HIDE DEF n1, n2, i1, m1, h
    <3>3. todo' = IdxLeft(r, x, h) /\ Do(w) /\ Kept /\ Same
      BY <1>0, <3>1, RuleStepIs
    <3>4. nat' = [nat EXCEPT ![r.prev].next = r.at] /\ idx' = idx /\ meta' = meta
      BY <3>3, DoKinds
    <3> HIDE DEF w
    <3>5. QED
      BY <3>1, <3>2, <3>3, <3>4
  <2>2. CASE r.prev = 0
    BY <1>4, <1>5, <2>2 DEF At, NextLeft, If, NatLinked
  <2>3. QED
    BY <2>1, <2>2
<1>6. ASSUME At(NatLeft(f, r, x, h), nt, it, m1)
      PROVE  Next1(NextLeft(r, x, h), n1, it, m1) /\ Same
  <2> DEFINE v == NewEntry(f, r, x)
  <2>1. At(Then(Plain("nat", r.at, v), NextLeft(r, x, h)), nt, it, m1)
    BY <1>6 DEF NatLeft
  <2>2. n1 = [nt EXCEPT ![r.at] = v]
    BY DEF NatWritten
  <2> HIDE DEF v, n1, m1, f, h
  <2>3. QED
    BY <1>0, <2>1, <2>2, StepFrom
<1>7. ASSUME At(MetaLeft(f, r, x, h), nt, it, mt)
      PROVE  (Next1(NatLeft(f, r, x, h), nt, it, m1) \/ Next1(NextLeft(r, x, h), n1, it, m1)) /\ Same
  <2>1. CASE x.at >= table_entries
    <3>1. At(Then(Plain("meta", x.at, x.prev), NatLeft(f, r, x, h)), nt, it, mt)
      BY <1>7, <2>1 DEF MetaLeft, If
    <3>2. m1 = [mt EXCEPT ![x.at] = x.prev]
      BY <2>1 DEF MetaSet
    <3> HIDE DEF m1, n1, f, h
    <3>3. QED
      BY <1>0, <3>1, <3>2, StepFrom
  <2>2. CASE ~(x.at >= table_entries)
    BY <1>6, <1>7, <2>2 DEF At, MetaLeft, If, MetaSet
  <2>3. QED
    BY <2>1, <2>2
<1>8. ~At(<<>>, n3, i2, m1)
  BY DEF At, Write
<1>9. \/ At(MetaLeft(f, r, x, h), nt, it, mt)
      \/ At(NatLeft(f, r, x, h), nt, it, m1)
      \/ At(NextLeft(r, x, h), n1, it, m1)
      \/ At(IdxLeft(r, x, h), n2, it, m1)
      \/ At(IdxNextLeft(r, x, h), n2, i1, m1)
      \/ At(OnLeft(r, h), n2, i2, m1)
      \/ At(IdsLeft(r, h), n3, i2, m1)
  BY <1>8 DEF AddStages
<1> HIDE DEF n1, n2, n3, i1, i2, m1, Next1
<1>10. \/ Same /\ Next1(NatLeft(f, r, x, h), nt, it, m1)
       \/ Same /\ Next1(NextLeft(r, x, h), n1, it, m1)
       \/ Same /\ Next1(IdxLeft(r, x, h), n2, it, m1)
       \/ Same /\ Next1(IdxNextLeft(r, x, h), n2, i1, m1)
       \/ Same /\ Next1(OnLeft(r, h), n2, i2, m1)
       \/ Same /\ Next1(IdsLeft(r, h), n3, i2, m1)
       \/ ids' = [ids EXCEPT ![h] = r.at] /\ Next1(<<>>, n3, i2, m1)
  BY <1>1, <1>2, <1>3, <1>4, <1>5, <1>6, <1>7, <1>9
<1>11. Kept
  BY <1>10 DEF Next1
<1>12. ids \in [Handles -> All]
  BY DEF TypeOK
<1>13. \A k \in Handles \ {h} : ids'[k] = ids[k]
  BY <1>10, <1>12
<1>14. ids' = [ids EXCEPT ![h] = r.at] => ids'[h] = r.at
  BY <1>12
<1>15. op'.flow = f /\ op'.hdl = h
  BY <1>11 DEF Kept
<1> HIDE DEF f, h
<1>16. AddStages(nt, it, mt, r, x)'
  BY <1>10, <1>14, <1>15 DEF AddStages, At, Next1, n1, n2, n3, i1, i2, m1
<1>17. QED
  BY <1>11, <1>13, <1>16 DEF h

LEMMA IndexWriteIs ==
    ASSUME NEW it, NEW mt, NEW x, idx = it, Do(IndexWrite(it, mt, x))
    PROVE  idx' = IdxCut(it, mt, x) /\ nat' = nat /\ meta' = meta
<1>1. CASE IdxPos(it, x) = "only"
  BY <1>1, DoKinds DEF IndexWrite, IdxCut
<1>2. CASE IdxPos(it, x) = "head"
  BY <1>2, DoKinds DEF IndexWrite, IdxCut
<1>3. CASE IdxPos(it, x) \notin {"only", "head"}
  BY <1>3, DoKinds DEF IndexWrite, IdxCut
<1>4. QED
  BY <1>1, <1>2, <1>3

LEMMA RuleWriteIs ==
    ASSUME NEW nt, NEW e, nat = nt, Do(RuleWrite(nt, e))
    PROVE  nat' = RuleCut(nt, e) /\ idx' = idx /\ meta' = meta
<1>1. CASE NatPos(nt, e) = "only"
  <2> DEFINE v == FALSE
  <2>1. RuleWrite(nt, e) = Plain("on", e, v) /\ RuleCut(nt, e) = [nt EXCEPT ![e].on = v]
    BY <1>1 DEF RuleWrite, RuleCut
  <2> HIDE DEF v
  <2>2. QED
    BY <2>1, DoKinds DEF Plain
<1>2. CASE NatPos(nt, e) = "head"
  BY <1>2, DoKinds DEF RuleWrite, RuleCut, Plain
<1>3. CASE NatPos(nt, e) \notin {"only", "head"}
  <2>1. /\ RuleWrite(nt, e) = Plain("next", nt[e].prev, nt[e].next)
        /\ RuleCut(nt, e) = [nt EXCEPT ![nt[e].prev].next = nt[e].next]
    BY <1>3 DEF RuleWrite, RuleCut
  <2>2. QED
    BY <2>1, DoKinds DEF Plain
<1>4. QED
  BY <1>1, <1>2, <1>3

\* These writes are none of the whole table.
LEMMA ChoiceKeeps ==
    ASSUME Write, NEW w, NEW s, IsSequence(s), todo = Then(w, s),
           NEW nt, NEW it, NEW mt, NEW e, NEW x,
           w = RuleWrite(nt, e) \/ w = IndexWrite(it, mt, x) \/ w = MetaWrite(it, mt, x)
    PROVE  todo' = s /\ Do(w) /\ Kept /\ ids' = ids
<1>1. /\ todo' = s /\ Do(w)
      /\ scene' = scene /\ op' = op /\ held' = held /\ up' = up
  BY OneStep
<1>2. w.m \in Links \cup {"on", "flow"}
  BY DEF RuleWrite, IndexWrite, MetaWrite, Plain, AWrite, Links
<1>3. tbl' = tbl /\ ids' = ids
  BY <1>1, <1>2 DEF Do, Links
<1>4. QED
  BY <1>1, <1>3 DEF Kept

LEMMA DelStep ==
    ASSUME TypeOK, Write, op.hdl \in Handles, NEW nt, NEW it, NEW mt, NEW e,
           DelStages(nt, it, mt, e)
    PROVE  /\ DelStages(nt, it, mt, e)' /\ Kept
           /\ \A k \in Handles \ {op.hdl} : ids'[k] = ids[k]
<1> DEFINE h == op.hdl
           x == nt[e].ix
           d1 == RuleCut(nt, e)
           d2 == RuleJoined(nt, e)
           d3 == RuleGone(nt, e)
           d4 == RuleLast(nt, it, e)
           d5 == Sweep(d4)
           i1 == IdxCut(it, mt, x)
           i2 == IdxJoined(it, mt, x)
           i3 == IdxGone(it, mt, x)
           m1 == MetaMoved(it, mt, x)
           m2 == MetaGone(it, mt, x)
           Next1(list, n, i, m) == todo' = list /\ nat' = n /\ idx' = i /\ meta' = m /\ Kept
           Same == ids' = ids
           R8 == Next1(SweepLeft(h), d4, i3, m2) \/ Next1(HdlLeft(h), d5, i3, m2)
           R7 == Next1(IxLeft(it, x, h), d3, i3, m2)
           R6 == Next1(ZeroIdxLeft(it, x, h), d3, i2, m2) \/ R7
           R5 == Next1(ZeroMetaLeft(it, x, h), d3, i2, m1) \/ R6
           R4 == Next1(MoveMetaLeft(it, mt, x, h), d3, i2, mt) \/ R5
           R3 == Next1(ZeroNatLeft(nt, it, mt, e, h), d2, i2, mt) \/ R4
           R2 == Next1(PrevLeft(nt, it, mt, e, h), d1, i2, mt)
           R1 == Next1(RuleLeft(nt, it, mt, e, h), nt, i2, mt) \/ R2
           R0 == Next1(IdxRestLeft(nt, it, mt, e, h), nt, i1, mt)
<1>0. /\ IsSequence(HdlLeft(h)) /\ IsSequence(SweepLeft(h)) /\ IsSequence(IxLeft(it, x, h))
      /\ IsSequence(ZeroIdxLeft(it, x, h)) /\ IsSequence(ZeroMetaLeft(it, x, h))
      /\ IsSequence(MoveMetaLeft(it, mt, x, h)) /\ IsSequence(ZeroNatLeft(nt, it, mt, e, h))
      /\ IsSequence(PrevLeft(nt, it, mt, e, h)) /\ IsSequence(RuleLeft(nt, it, mt, e, h))
      /\ IsSequence(IdxRestLeft(nt, it, mt, e, h)) /\ IsSequence(<<>>)
  BY DelSequences, NoWrites
<1>10. ASSUME At(HdlLeft(h), d5, i3, m2)
       PROVE  Next1(<<>>, d5, i3, m2) /\ ids' = [ids EXCEPT ![h] = 0]
  <2>1. At(Then(Plain("ids", h, 0), <<>>), d5, i3, m2)
    BY <1>10 DEF HdlLeft
  <2> HIDE DEF d5, i3, m2, h
  <2>2. QED
    BY <1>0, <2>1, StepFrom
<1>9. ASSUME At(SweepLeft(h), d4, i3, m2)
      PROVE  Next1(HdlLeft(h), d5, i3, m2) /\ Same
  <2>1. At(Then(Plain("sweep", 0, 0), HdlLeft(h)), d4, i3, m2) /\ d5 = Sweep(d4)
    BY <1>9 DEF SweepLeft
  <2> HIDE DEF d4, d5, i3, m2, h
  <2>2. QED
    BY <1>0, <2>1, StepFrom
<1>8. ASSUME At(IxLeft(it, x, h), d3, i3, m2)
      PROVE  R8 /\ Same
  <2>1. CASE IdxPos(it, x) = "head"
    <3> DEFINE o == it[it[x].next].entry
    <3>1. At(Then(Plain("ix", o, x), SweepLeft(h)), d3, i3, m2)
      BY <1>8, <2>1 DEF IxLeft, If
    <3>2. d4 = [d3 EXCEPT ![o].ix = x]
      BY <2>1 DEF RuleLast, Indexed
    <3> HIDE DEF o, x, d3, d4, d5, i3, m2, h
    <3>3. QED
      BY <1>0, <3>1, <3>2, StepFrom
  <2>2. CASE IdxPos(it, x) # "head"
    BY <1>8, <1>9, <2>2 DEF At, IxLeft, If, RuleLast
  <2>3. QED
    BY <2>1, <2>2
<1>7. ASSUME At(ZeroIdxLeft(it, x, h), d3, i2, m2)
      PROVE  R7 /\ Same
  <2> DEFINE u == IF IdxPos(it, x) = "head" THEN it[x].next ELSE x
  <2>1. At(Then(Plain("idx", u, ZeroIdx), IxLeft(it, x, h)), d3, i2, m2)
    BY <1>7 DEF ZeroIdxLeft
  <2>2. i3 = [i2 EXCEPT ![u] = ZeroIdx]
    BY DEF IdxGone
  <2> HIDE DEF u, x, d3, i2, i3, m2, h
  <2>3. QED
    BY <1>0, <2>1, <2>2, StepFrom
<1>6. ASSUME At(ZeroMetaLeft(it, x, h), d3, i2, m1)
      PROVE  R6 /\ Same
  <2>1. CASE IdxPos(it, x) = "middle"
    <3>1. At(Then(Plain("meta", x, 0), ZeroIdxLeft(it, x, h)), d3, i2, m1)
      BY <1>6, <2>1 DEF ZeroMetaLeft, If
    <3>2. m2 = [m1 EXCEPT ![x] = 0]
      BY <2>1 DEF MetaGone
    <3> HIDE DEF x, d3, i2, m1, m2, h, R7
    <3>3. QED
      BY <1>0, <3>1, <3>2, StepFrom
  <2>2. CASE IdxPos(it, x) # "middle"
    BY <1>6, <1>7, <2>2 DEF At, ZeroMetaLeft, If, MetaGone
  <2>3. QED
    BY <2>1, <2>2
<1>5. ASSUME At(MoveMetaLeft(it, mt, x, h), d3, i2, mt)
      PROVE  R5 /\ Same
  <2>1. CASE IdxPos(it, x) = "middle" \/ MetaMoves(it, x)
    <3>1. todo = Then(MetaWrite(it, mt, x), ZeroMetaLeft(it, x, h))
      BY <1>5, <2>1 DEF At, MoveMetaLeft, If
    <3>2. todo' = ZeroMetaLeft(it, x, h) /\ Do(MetaWrite(it, mt, x)) /\ Kept /\ Same
      BY <1>0, <3>1, ChoiceKeeps
    <3>3. nat' = nat /\ idx' = idx /\ meta' = m1
      <4>1. PICK at, v : MetaWrite(it, mt, x) = Plain("meta", at, v) /\ m1 = [mt EXCEPT ![at] = v]
        BY <2>1 DEF MetaWrite, MetaMoved
      <4>2. Do(Plain("meta", at, v)) /\ meta = mt
        BY <1>5, <3>2, <4>1 DEF At
      <4> HIDE DEF x, m1
      <4>3. nat' = nat /\ idx' = idx /\ meta' = [meta EXCEPT ![at] = v]
        BY <4>2, DoKinds DEF Plain
      <4>4. QED
        BY <4>1, <4>2, <4>3
    <3>4. QED
      BY <1>5, <3>2, <3>3 DEF At
  <2>2. CASE ~(IdxPos(it, x) = "middle" \/ MetaMoves(it, x))
    BY <1>5, <1>6, <2>2 DEF At, MoveMetaLeft, If, MetaMoved
  <2>3. QED
    BY <2>1, <2>2
<1>4. ASSUME At(ZeroNatLeft(nt, it, mt, e, h), d2, i2, mt)
      PROVE  R4 /\ Same
  <2>1. CASE NatPos(nt, e) # "head"
    <3>1. At(Then(Plain("nat", e, Zero), MoveMetaLeft(it, mt, x, h)), d2, i2, mt)
      BY <1>4, <2>1 DEF ZeroNatLeft, If
    <3>2. d3 = [d2 EXCEPT ![e] = Zero]
      BY <2>1 DEF RuleGone
    <3> HIDE DEF x, d2, d3, i2, h, R5
    <3>3. QED
      BY <1>0, <3>1, <3>2, StepFrom
  <2>2. CASE NatPos(nt, e) = "head"
    BY <1>4, <1>5, <2>2 DEF At, ZeroNatLeft, If, RuleGone
  <2>3. QED
    BY <2>1, <2>2
<1>3. ASSUME At(PrevLeft(nt, it, mt, e, h), d1, i2, mt)
      PROVE  R3 /\ Same
  <2>1. CASE NatPos(nt, e) = "middle"
    <3> DEFINE s == nt[e].next
               p == nt[e].prev
    <3>1. At(Then(Plain("prev", s, p), ZeroNatLeft(nt, it, mt, e, h)), d1, i2, mt)
      BY <1>3, <2>1 DEF PrevLeft, If
    <3>2. d2 = [d1 EXCEPT ![s].prev = p]
      BY <2>1 DEF RuleJoined
    <3> HIDE DEF s, p, d1, d2, i2, h, R4
    <3>3. QED
      BY <1>0, <3>1, <3>2, StepFrom
  <2>2. CASE NatPos(nt, e) # "middle"
    BY <1>3, <1>4, <2>2 DEF At, PrevLeft, If, RuleJoined
  <2>3. QED
    BY <2>1, <2>2
<1>2. ASSUME At(RuleLeft(nt, it, mt, e, h), nt, i2, mt)
      PROVE  R2 /\ Same
  <2>1. todo' = PrevLeft(nt, it, mt, e, h) /\ Do(RuleWrite(nt, e)) /\ Kept /\ Same
    BY <1>0, <1>2, ChoiceKeeps DEF At, RuleLeft
  <2>2. nat' = d1 /\ idx' = idx /\ meta' = meta
    BY <1>2, <2>1, RuleWriteIs DEF At
  <2>3. QED
    BY <1>2, <2>1, <2>2 DEF At
<1>1. ASSUME At(IdxRestLeft(nt, it, mt, e, h), nt, i1, mt)
      PROVE  R1 /\ Same
  <2>1. CASE IdxPos(it, x) = "head"
    <3> DEFINE nn == it[it[x].next].next
    <3>1. At(Then(Plain("idx.next", x, nn), RuleLeft(nt, it, mt, e, h)), nt, i1, mt)
      BY <1>1, <2>1 DEF IdxRestLeft, If
    <3>2. i2 = [i1 EXCEPT ![x].next = nn]
      BY <2>1 DEF IdxJoined
    <3> HIDE DEF nn, x, i1, i2, h, R2
    <3>3. QED
      BY <1>0, <3>1, <3>2, StepFrom
  <2>2. CASE IdxPos(it, x) # "head"
    BY <1>1, <1>2, <2>2 DEF At, IdxRestLeft, If, IdxJoined
  <2>3. QED
    BY <2>1, <2>2
<1>11. ASSUME At(IndexLeft(nt, it, mt, e, h), nt, it, mt)
       PROVE  R0 /\ Same
  <2>1. /\ todo' = IdxRestLeft(nt, it, mt, e, h) /\ Do(IndexWrite(it, mt, x)) /\ Kept /\ Same
    BY <1>0, <1>11, ChoiceKeeps DEF At, IndexLeft
  <2>2. idx' = i1 /\ nat' = nat /\ meta' = meta
    BY <1>11, <2>1, IndexWriteIs DEF At
  <2>3. QED
    BY <1>11, <2>1, <2>2 DEF At
<1>12. ~At(<<>>, d5, i3, m2)
  BY DEF At, Write
<1>13. \/ At(IndexLeft(nt, it, mt, e, h), nt, it, mt)
       \/ At(IdxRestLeft(nt, it, mt, e, h), nt, i1, mt)
       \/ At(RuleLeft(nt, it, mt, e, h), nt, i2, mt)
       \/ At(PrevLeft(nt, it, mt, e, h), d1, i2, mt)
       \/ At(ZeroNatLeft(nt, it, mt, e, h), d2, i2, mt)
       \/ At(MoveMetaLeft(it, mt, x, h), d3, i2, mt)
       \/ At(ZeroMetaLeft(it, x, h), d3, i2, m1)
       \/ At(ZeroIdxLeft(it, x, h), d3, i2, m2)
       \/ At(IxLeft(it, x, h), d3, i3, m2)
       \/ At(SweepLeft(h), d4, i3, m2)
       \/ At(HdlLeft(h), d5, i3, m2)
  BY <1>12 DEF DelStages
<1> HIDE DEF d1, d2, d3, d4, d5, i1, i2, i3, m1, m2, Next1, Same
<1>14. \/ Same /\ (R0 \/ R1 \/ R2 \/ R3 \/ R4 \/ R5 \/ R6 \/ R7 \/ R8)
       \/ ids' = [ids EXCEPT ![h] = 0] /\ Next1(<<>>, d5, i3, m2)
  BY <1>1, <1>2, <1>3, <1>4, <1>5, <1>6, <1>7, <1>8, <1>9, <1>10, <1>11, <1>13
<1>15. Kept
  BY <1>14 DEF Next1
<1>16. ids \in [Handles -> All]
  BY DEF TypeOK
<1>17. \A k \in Handles \ {h} : ids'[k] = ids[k]
  BY <1>14, <1>16 DEF Same
<1>18. ids' = [ids EXCEPT ![h] = 0] => ids'[h] = 0
  BY <1>16
<1>19. op'.hdl = h
  BY <1>15 DEF Kept
<1> HIDE DEF h
<1>20. DelStages(nt, it, mt, e)'
  BY <1>14, <1>18, <1>19 DEF DelStages, At, Next1, d1, d2, d3, d4, d5, i1, i2, i3, m1, m2
<1>21. QED
  BY <1>15, <1>17, <1>20 DEF h

-----------------------------------------------------------------------------
(* The tables stay sound.                                                  *)

LEMMA SceneKept ==
    ASSUME scene' = scene
    PROVE  Dsts' = Dsts /\ Srcs' = Srcs
BY DEF Dsts, Srcs, Dst, Src

LEMMA SoundKept ==
    ASSUME scene' = scene, NEW nt, NEW it, NEW mt
    PROVE  Sound(nt, it, mt)' <=> Sound(nt, it, mt)
BY SceneKept DEF Sound

LEMMA AddSnapKept ==
    ASSUME scene' = scene, held' = held, op'.flow = op.flow, NEW nt, NEW it, NEW mt, NEW r, NEW x,
           AddSnap(nt, it, mt, r, x), Owned(nt, Ruled(nt))'
    PROVE  AddSnap(nt, it, mt, r, x)'
BY SceneKept, SoundKept DEF AddSnap

LEMMA DelSnapKept ==
    ASSUME scene' = scene, held' = held, op'.flow = op.flow, NEW nt, NEW it, NEW mt, NEW e,
           DelSnap(nt, it, mt, e), Owned(nt, Ruled(nt) \ {e})'
    PROVE  DelSnap(nt, it, mt, e)'
BY SceneKept, SoundKept DEF DelSnap

LEMMA InitMem == Init => MemInv
<1> SUFFICES ASSUME Init PROVE MemInv
  OBVIOUS
<1>1. op.kind = "none" /\ up = FALSE /\ tbl.hw = FALSE /\ held = [f \in Flows |-> 0]
      /\ meta = [e \in Expansion |-> 0]
  BY DEF Init, NoCall, NoTable
<1>2. meta \in Metas
  BY <1>1, Sizes DEF Metas
<1>3. QED
  BY <1>1, <1>2 DEF MemInv

\* The time stamp thread changes nothing here.
LEMMA AskerMem ==
    ASSUME MemInv, UNCHANGED <<scene, memory, tbl, op, todo, held, up>>
    PROVE  MemInv'
<1>1. /\ scene' = scene /\ nat' = nat /\ idx' = idx /\ meta' = meta /\ ids' = ids /\ tbl' = tbl
      /\ op' = op /\ todo' = todo /\ held' = held /\ up' = up
  BY DEF memory
<1>2. Rested' <=> Rested
  BY <1>1, SoundKept DEF Rested, Owned
<1>3. ASSUME NEW nt, NEW it, NEW mt, NEW r, NEW x, AddSnap(nt, it, mt, r, x), AddStages(nt, it, mt, r, x)
      PROVE  AddSnap(nt, it, mt, r, x)' /\ AddStages(nt, it, mt, r, x)'
  <2>1. Owned(nt, Ruled(nt))'
    BY <1>1, <1>3 DEF AddSnap, Owned
  <2>2. AddSnap(nt, it, mt, r, x)'
    BY <1>1, <1>3, <2>1, AddSnapKept
  <2>3. AddStages(nt, it, mt, r, x)'
    BY <1>1, <1>3 DEF AddStages, At
  <2>4. QED
    BY <2>2, <2>3
<1>4. ASSUME NEW nt, NEW it, NEW mt, NEW e, DelSnap(nt, it, mt, e), DelStages(nt, it, mt, e)
      PROVE  DelSnap(nt, it, mt, e)' /\ DelStages(nt, it, mt, e)'
  <2>1. Owned(nt, Ruled(nt) \ {e})'
    BY <1>1, <1>4 DEF DelSnap, Owned
  <2>2. DelSnap(nt, it, mt, e)'
    BY <1>1, <1>4, <2>1, DelSnapKept
  <2>3. DelStages(nt, it, mt, e)'
    BY <1>1, <1>4 DEF DelStages, At
  <2>4. QED
    BY <2>2, <2>3
<1>5. OpenStages' <=> OpenStages
  BY <1>1 DEF OpenStages, Zeroed
<1>6. QED
  BY <1>1, <1>2, <1>3, <1>4, <1>5 DEF MemInv, Pending, Kinds

LEMMA SlotIsSlot ==
    ASSUME NEW used, NEW table, NEW b, NEW s, s = Slot(used, table, b), s.at \in Usable, s.prev \in All
    PROVE  s \in Slots
<1>1. s = [at |-> s.at, prev |-> s.prev]
  BY DEF Slot
<1>2. QED
  BY <1>1 DEF Slots

LEMMA SlotPlaced ==
    ASSUME NEW table, NEW prev, NEW U, NEW home, Linked(table, prev, U, home),
           NEW used, \A e \in All : used[e] <=> e \in U,
           NEW b \in Usable \cap Base, NEW s, s = Slot(used, table, b), s.at # 0
    PROVE  s \in Slots /\ Place(table, U, home, b, s)
<1>1. \/ s.at = b /\ b \notin U /\ s.prev = 0
      \/ /\ s.at \in (Usable \cap Expansion) \ U
         /\ s.prev \in U /\ table[s.prev].next = 0 /\ home[s.prev] = b /\ s.prev # 0
  BY SlotIs
<1>2. U \subseteq All /\ 0 \in All
  BY LinkedLinks, Sizes
<1>3. s \in Slots
  BY <1>1, <1>2, SlotIsSlot
<1>4. QED
  BY <1>1, <1>3 DEF Place

LEMMA AddMem ==
    ASSUME IInv, MemInv, NEW f \in Flows, AddRule(f)
    PROVE  MemInv'
<1> DEFINE r == generate_tbl_rule(f)
           x == generate_index_rule(f)
           h == make_rule_hdl
<1>1. /\ up /\ f \in Scenes[scene].flows /\ held[f] = 0 /\ r.at # 0 /\ x.at # 0
      /\ op = NoCall /\ op' = [kind |-> "add", flow |-> f, hdl |-> h, ok |-> TRUE]
      /\ todo' = AddWrites(f, r, x)
      /\ scene' = scene /\ nat' = nat /\ idx' = idx /\ meta' = meta /\ ids' = ids /\ tbl' = tbl
      /\ held' = held /\ up' = up
  BY DEF AddRule, Call, memory
<1>2. op.kind = "none" /\ op'.kind = "add" /\ op'.flow = f /\ op'.hdl = h /\ op'.ok = TRUE
  BY <1>1 DEF NoCall
<1>3. Rested
  BY <1>1, <1>2 DEF MemInv
<1>4. TypeOK /\ Dsts \in Hashes /\ Srcs \in Hashes /\ Dst(f) = Dsts[f] /\ Src(f) = Srcs[f]
      /\ Dsts[f] \in Usable \cap Base /\ Srcs[f] \in Usable \cap Base
  BY HashesKnown DEF IInv, Hashes
<1>5. r \in Slots /\ Place(nat, Enabled(nat), NatHome(nat, Dsts), Dsts[f], r)
  <2> DEFINE used == [e \in All |-> nat[e].on]
  <2>1. Linked(nat, PrevIn(nat), Enabled(nat), NatHome(nat, Dsts))
    BY <1>3 DEF Rested, Sound, NatLists
  <2>2. r = Slot(used, nat, Dsts[f])
    BY <1>4 DEF generate_tbl_rule
  <2>3. \A e \in All : used[e] <=> e \in Enabled(nat)
    BY DEF Enabled
  <2> HIDE DEF used, r
  <2>4. QED
    BY <1>1, <1>4, <2>1, <2>2, <2>3, SlotPlaced
<1>6. x \in Slots /\ Place(idx, Taken(idx), IdxHome(nat, idx, Srcs), Srcs[f], x)
  <2> DEFINE used == [e \in All |-> idx[e].entry # 0]
  <2>1. Linked(idx, meta, Taken(idx), IdxHome(nat, idx, Srcs))
    BY <1>3 DEF Rested, Sound, IdxLists
  <2>2. x = Slot(used, idx, Srcs[f])
    BY <1>4 DEF generate_index_rule
  <2>3. \A e \in All : used[e] <=> e \in Taken(idx)
    BY DEF Taken
  <2> HIDE DEF used, x
  <2>4. QED
    BY <1>1, <1>4, <2>1, <2>2, <2>3, SlotPlaced
<1> HIDE DEF r, x
<1>7. todo' = MetaLeft(f, r, x, h)
  BY <1>1, AddAsWrites
<1> HIDE DEF h
<1>8. \E nt, it, mt, s, y : AddSnap(nt, it, mt, s, y)' /\ AddStages(nt, it, mt, s, y)'
  <2> PICK nt, it, mt, s, y, k : nt = nat /\ it = idx /\ mt = meta /\ s = r /\ y = x /\ k = h
    OBVIOUS
  <2>1. Sound(nt, it, mt) /\ Owned(nt, Ruled(nt))
    BY <1>3 DEF Rested
  <2>2. Owned(nt, Ruled(nt))'
    BY <1>1, <2>1 DEF Owned
  <2>3. s \in Slots /\ y \in Slots
    BY <1>5, <1>6
  <2>4. Place(nt, Enabled(nt), NatHome(nt, Dsts'), Dsts'[op'.flow], s)
    BY <1>1, <1>2, <1>5, SceneKept
  <2>5. Place(it, Taken(it), IdxHome(nt, it, Srcs'), Srcs'[op'.flow], y)
    BY <1>1, <1>2, <1>6, SceneKept
  <2>6. AddSnap(nt, it, mt, s, y)'
    BY <1>1, <2>1, <2>2, <2>3, <2>4, <2>5, SoundKept DEF AddSnap
  <2>7. todo' = MetaLeft(op'.flow, s, y, op'.hdl)
    BY <1>2, <1>7
  <2>8. AddStages(nt, it, mt, s, y)'
    BY <1>1, <2>7 DEF AddStages, At
  <2>9. QED
    BY <2>6, <2>8
<1>9. QED
  BY <1>1, <1>2, <1>3, <1>8 DEF MemInv, Rested

LEMMA DelMem ==
    ASSUME IInv, MemInv, NEW f \in Flows, DelRule(f)
    PROVE  MemInv'
<1> DEFINE e == parse_rule_hdl(held[f])
<1>1. /\ up /\ held[f] # 0 /\ e # 0 /\ nat[e].on
      /\ op = NoCall /\ op' = [kind |-> "del", flow |-> f, hdl |-> held[f], ok |-> TRUE]
      /\ todo' = post_del_dma_cmd(e) \o Cpu("sweep", 0, 0) \o Cpu("ids", held[f], 0)
      /\ scene' = scene /\ nat' = nat /\ idx' = idx /\ meta' = meta /\ ids' = ids /\ tbl' = tbl
      /\ held' = held /\ up' = up
  BY DEF DelRule, Call, memory
<1>2. /\ op.kind = "none" /\ op'.kind = "del" /\ op'.flow = f /\ op'.hdl = held[f]
      /\ op'.ok = TRUE
  BY <1>1 DEF NoCall
<1>3. Rested
  BY <1>1, <1>2 DEF MemInv
<1>4. e = ids[held[f]] /\ e \in All /\ nat[e].flow = f
  <2>1. e = ids[held[f]]
    BY <1>1 DEF parse_rule_hdl
  <2>2. held[f] \in Handles /\ ids \in [Handles -> All]
    BY <1>1 DEF IInv, TypeOK, Handles
  <2>3. QED
    BY <1>1, <1>2, <2>1, <2>2 DEF IInv, HeldLead
<1> HIDE DEF e
<1>5. e \in Ruled(nat) /\ \A v \in Ruled(nat) \ {e} : nat[v].flow # f
  BY <1>1, <1>3, <1>4 DEF Ruled, Rested, Owned
<1>6. todo' = IndexLeft(nat, idx, meta, e, held[f])
  BY <1>1, DelAsWrites
<1>7. \E nt, it, mt, v : DelSnap(nt, it, mt, v)' /\ DelStages(nt, it, mt, v)'
  <2> PICK nt, it, mt, v : nt = nat /\ it = idx /\ mt = meta /\ v = e
    OBVIOUS
  <2>1. Sound(nt, it, mt) /\ Owned(nt, Ruled(nt) \ {v})
    BY <1>3 DEF Rested, Owned
  <2>2. Owned(nt, Ruled(nt) \ {v})'
    BY <1>1, <2>1 DEF Owned
  <2>3. DelSnap(nt, it, mt, v)'
    BY <1>1, <1>2, <1>4, <1>5, <2>1, <2>2, SoundKept DEF DelSnap
  <2>4. todo' = IndexLeft(nt, it, mt, v, op'.hdl)
    BY <1>2, <1>6
  <2>5. DelStages(nt, it, mt, v)'
    BY <1>1, <2>4 DEF DelStages, At
  <2>6. QED
    BY <2>3, <2>5
<1>8. QED
  BY <1>1, <1>2, <1>3, <1>7 DEF MemInv, Rested

LEMMA OpenAsWrites ==
    Cpu("tbl", "valid", TRUE)
      \o Only(~tbl.ids, Cpu("alloc", 0, 0))
      \o Dma("tbl", "mapped", TRUE, "open", "abort")
      \o Cpu("reset", 0, 0)
      \o Dma("tbl", "hw", TRUE, "open", "abort") = ValidLeft(~tbl.ids)
<1> DEFINE v == TRUE
           w1 == Plain("tbl", "valid", v)
           w2 == Plain("alloc", 0, 0)
           w3 == AWrite("tbl", "mapped", v, "open", "abort")
           w4 == Plain("reset", 0, 0)
           w5 == AWrite("tbl", "hw", v, "open", "abort")
           c == ~tbl.ids
           a == <<w1>>
           b == Only(c, <<w2>>)
           d == <<w3>>
           e == <<w4>>
           g == <<w5>>
<1>1. /\ Cpu("tbl", "valid", TRUE) = a /\ Only(~tbl.ids, Cpu("alloc", 0, 0)) = b
      /\ Dma("tbl", "mapped", TRUE, "open", "abort") = d /\ Cpu("reset", 0, 0) = e
      /\ Dma("tbl", "hw", TRUE, "open", "abort") = g
  BY DEF Cpu, Dma, Plain, AWrite
<1>2. /\ UseLeft = Then(w5, <<>>) /\ ResetLeft = Then(w4, UseLeft) /\ MapLeft = Then(w3, ResetLeft)
      /\ AllocLeft(c) = If(c, w2, MapLeft) /\ ValidLeft(c) = Then(w1, AllocLeft(c))
  BY DEF UseLeft, ResetLeft, MapLeft, AllocLeft, ValidLeft
<1> HIDE DEF v, w1, w2, w3, w4, w5
<1>3. IsSequence(a) /\ IsSequence(d) /\ IsSequence(e) /\ IsSequence(g)
  BY OneWrite
<1>4. g = UseLeft
  <2>1. Join(g, <<>>) = g /\ Join(g, <<>>) = Then(w5, <<>>)
    BY <1>3, NothingJoined, NoWrites, FirstWrite
  <2>2. QED
    BY <1>2, <2>1
<1>5. Join(e, UseLeft) = ResetLeft /\ IsSequence(ResetLeft)
  BY <1>2, <1>3, <1>4, FirstWrite
<1>6. Join(d, ResetLeft) = MapLeft /\ IsSequence(MapLeft)
  BY <1>2, <1>5, FirstWrite
<1>7. Join(b, MapLeft) = AllocLeft(c) /\ IsSequence(AllocLeft(c)) /\ IsSequence(b)
  BY <1>2, <1>6, OnlyThen
<1>8. Join(a, AllocLeft(c)) = ValidLeft(c)
  BY <1>2, <1>7, FirstWrite
<1> HIDE DEF a, b, d, e, g, c
<1>9. IsSequence(Join(a, b)) /\ IsSequence(Join(Join(a, b), d)) /\ IsSequence(Join(e, g))
  BY <1>3, <1>7, Grouped
<1>10. Join(Join(Join(Join(a, b), d), e), g) = Join(Join(Join(a, b), d), Join(e, g))
  BY <1>3, <1>9, Grouped
<1>11. @ = Join(Join(a, b), Join(d, Join(e, g)))
  BY <1>3, <1>9, Grouped
<1>12. @ = Join(a, Join(b, Join(d, Join(e, g))))
  BY <1>3, <1>4, <1>5, <1>6, <1>7, Grouped
<1>13. a \o b \o d \o e \o g = ValidLeft(c)
  BY <1>4, <1>5, <1>6, <1>7, <1>8, <1>10, <1>11, <1>12 DEF Join
<1>14. QED
  BY <1>1, <1>13 DEF c

LEMMA OpenMem ==
    ASSUME IInv, MemInv, add_ipv4_tbl
    PROVE  MemInv'
<1>1. /\ ~up /\ op = NoCall /\ op' = [kind |-> "open", flow |-> Nothing, hdl |-> 0, ok |-> TRUE]
      /\ scene' = scene /\ meta' = meta /\ tbl' = tbl /\ held' = held /\ up' = up
  BY DEF add_ipv4_tbl, Call, memory
<1>2. todo' = ValidLeft(~tbl.ids)
  BY OpenAsWrites DEF add_ipv4_tbl, Call
<1>3. op.kind = "none" /\ op'.kind = "open"
  BY <1>1 DEF NoCall
<1>4. ~tbl.hw /\ meta \in Metas
  BY <1>1, <1>3 DEF MemInv
<1>5. \E c \in BOOLEAN : ValidLeft(~tbl.ids) = ValidLeft(c)
  BY Zenon
<1>6. \E c \in BOOLEAN : todo' = ValidLeft(c) \/ todo' = AllocLeft(c)
  BY <1>2, <1>5
<1>7. OpenStages'
  BY <1>1, <1>4, <1>6 DEF OpenStages, ValidLeft, AllocLeft, MapLeft, ResetLeft, UseLeft
<1>8. QED
  BY <1>1, <1>3, <1>7 DEF MemInv

LEMMA CloseMem ==
    ASSUME IInv, MemInv, del_ipv4_table
    PROVE  MemInv'
<1>1. /\ up /\ op = NoCall /\ op' = [kind |-> "close", flow |-> Nothing, hdl |-> 0, ok |-> TRUE]
      /\ scene' = scene /\ meta' = meta /\ tbl' = tbl /\ held' = held /\ up' = up
  BY DEF del_ipv4_table, Call, memory
<1>2. \E w \in Elems(todo') : w.m = "forget"
  BY CloseList DEF del_ipv4_table, Call
<1>3. op.kind = "none" /\ op'.kind = "close"
  BY <1>1 DEF NoCall
<1>4. meta \in Metas
  BY <1>1, <1>3 DEF MemInv, Rested, Sound
<1>5. Pending("forget")'
  BY <1>2 DEF Pending, Kinds
<1>6. QED
  BY <1>1, <1>3, <1>4, <1>5 DEF MemInv

LEMMA WriteAddMem ==
    ASSUME IInv, MemInv, Write, op.kind = "add"
    PROVE  MemInv'
<1>1. /\ tbl.hw /\ op.ok /\ op.flow \in Scenes[scene].flows
      /\ \E nt, it, mt, r, x : AddSnap(nt, it, mt, r, x) /\ AddStages(nt, it, mt, r, x)
  BY DEF MemInv
<1>2. PICK a \in Handles : Adding(a)
  BY DEF IInv, CallInv
<1>3. TypeOK /\ op.hdl \in Handles /\ \A f \in Flows : held[f] # op.hdl
  BY <1>2 DEF IInv, Adding
<1>4. PICK nt, it, mt, r, x : AddSnap(nt, it, mt, r, x) /\ AddStages(nt, it, mt, r, x)
  BY <1>1
<1>5. /\ AddStages(nt, it, mt, r, x)' /\ Kept
      /\ \A k \in Handles \ {op.hdl} : ids'[k] = ids[k]
  BY <1>3, <1>4, AddStep
<1>6. /\ scene' = scene /\ op' = op /\ held' = held /\ up' = up /\ tbl' = tbl
  BY <1>5 DEF Kept
<1>7. Owned(nt, Ruled(nt))'
  <2> SUFFICES ASSUME NEW e \in Ruled(nt) PROVE held[nt[e].flow] # 0 /\ ids'[held[nt[e].flow]] = e
    BY <1>6 DEF Owned
  <2>1. nt[e].flow \in Flows
    BY DEF Ruled
  <2>2. held[nt[e].flow] # 0 /\ ids[held[nt[e].flow]] = e
    BY <1>4 DEF AddSnap, Owned
  <2>3. held[nt[e].flow] \in Handles \ {op.hdl}
    BY <1>3, <2>1, <2>2 DEF TypeOK, Handles
  <2>4. QED
    BY <1>5, <2>2, <2>3
<1>8. AddSnap(nt, it, mt, r, x)'
  BY <1>4, <1>6, <1>7, AddSnapKept
<1>9. QED
  BY <1>1, <1>5, <1>6, <1>8 DEF MemInv

LEMMA WriteDelMem ==
    ASSUME IInv, MemInv, Write, op.kind = "del"
    PROVE  MemInv'
<1>1. /\ tbl.hw /\ op.ok
      /\ \E nt, it, mt, e : DelSnap(nt, it, mt, e) /\ DelStages(nt, it, mt, e)
  BY DEF MemInv, Write
<1>2. PICK a \in Handles : Deleting(a)
  BY DEF IInv, CallInv
<1>3. /\ TypeOK /\ op.flow \in Flows /\ op.hdl \in Handles
      /\ \A f \in Flows \ {op.flow} : held[f] # op.hdl
  BY <1>2 DEF IInv, Deleting
<1>4. PICK nt, it, mt, e : DelSnap(nt, it, mt, e) /\ DelStages(nt, it, mt, e)
  BY <1>1
<1>5. /\ DelStages(nt, it, mt, e)' /\ Kept
      /\ \A k \in Handles \ {op.hdl} : ids'[k] = ids[k]
  BY <1>3, <1>4, DelStep
<1>6. /\ scene' = scene /\ op' = op /\ held' = held /\ up' = up /\ tbl' = tbl
  BY <1>5 DEF Kept
<1>7. Owned(nt, Ruled(nt) \ {e})'
  <2> SUFFICES ASSUME NEW v \in Ruled(nt) \ {e}
               PROVE  held[nt[v].flow] # 0 /\ ids'[held[nt[v].flow]] = v
    BY <1>6 DEF Owned
  <2>1. nt[v].flow \in Flows /\ nt[v].flow # op.flow
    BY <1>4 DEF Ruled, DelSnap
  <2>2. held[nt[v].flow] # 0 /\ ids[held[nt[v].flow]] = v
    BY <1>4 DEF DelSnap, Owned
  <2>3. held[nt[v].flow] \in Handles \ {op.hdl}
    BY <1>3, <2>1, <2>2 DEF TypeOK, Handles
  <2>4. QED
    BY <1>5, <2>2, <2>3
<1>8. DelSnap(nt, it, mt, e)'
  BY <1>4, <1>6, <1>7, DelSnapKept
<1>9. QED
  BY <1>1, <1>5, <1>6, <1>8 DEF MemInv

LEMMA OpenSequences ==
    /\ IsSequence(UseLeft) /\ IsSequence(ResetLeft) /\ IsSequence(MapLeft)
    /\ \A c \in BOOLEAN :
          /\ IsSequence(AllocLeft(c))
          /\ \/ AllocLeft(c) = MapLeft
             \/ AllocLeft(c) = Then(Plain("alloc", 0, 0), MapLeft)
<1>1. IsSequence(UseLeft)
  BY NoWrites, FirstWrite DEF UseLeft
<1>2. IsSequence(ResetLeft)
  BY <1>1, FirstWrite DEF ResetLeft
<1>3. IsSequence(MapLeft)
  BY <1>2, FirstWrite DEF MapLeft
<1>4. AllocLeft(TRUE) = Then(Plain("alloc", 0, 0), MapLeft) /\ AllocLeft(FALSE) = MapLeft
  BY DEF AllocLeft, If
<1>5. IsSequence(AllocLeft(TRUE)) /\ IsSequence(AllocLeft(FALSE))
  BY <1>3, <1>4, FirstWrite
<1>6. QED
  BY <1>1, <1>2, <1>3, <1>4, <1>5, Zenon

LEMMA WriteOpenMem ==
    ASSUME IInv, MemInv, Write, op.kind = "open"
    PROVE  MemInv'
<1>1. OpenStages /\ todo # <<>> /\ TypeOK /\ tbl \in Tables
  BY DEF MemInv, Write, IInv, TypeOK
<1>2. op.ok
  BY <1>1 DEF IInv, CallInv, Opening
<1>3. ~tbl.hw /\ meta \in Metas
  BY <1>1 DEF OpenStages
<1>4. scene' = scene /\ op' = op /\ held' = held /\ up' = up
  BY DEF Write
<1>5. /\ IsSequence(UseLeft) /\ IsSequence(ResetLeft) /\ IsSequence(MapLeft) /\ IsSequence(<<>>)
      /\ \A c \in BOOLEAN :
            /\ IsSequence(AllocLeft(c))
            /\ \/ AllocLeft(c) = MapLeft
               \/ AllocLeft(c) = Then(Plain("alloc", 0, 0), MapLeft)
  BY OpenSequences, NoWrites
<1>6. \A at \in {"valid", "mapped"} : [tbl EXCEPT ![at] = TRUE].hw = tbl.hw
  BY <1>1 DEF Tables
<1>7. [tbl EXCEPT !["hw"] = TRUE].hw = TRUE /\ [tbl EXCEPT !.ids = TRUE].hw = tbl.hw
  BY <1>1 DEF Tables
<1>8. [e \in Expansion |-> 0] \in Metas
  BY Sizes DEF Metas
<1> DEFINE v == TRUE
<1>9. ASSUME todo = MapLeft
      PROVE  ~tbl'.hw /\ todo' = ResetLeft /\ meta' = meta
  <2> DEFINE w == AWrite("tbl", "mapped", v, "open", "abort")
  <2>1. todo = Then(w, ResetLeft)
    BY <1>9 DEF MapLeft
  <2>2. [tbl EXCEPT !["mapped"] = v].hw = tbl.hw
    BY <1>6
  <2> HIDE DEF v
  <2>3. todo' = ResetLeft /\ Do(w)
    BY <1>5, <2>1, OneStep
  <2>4. tbl' = [tbl EXCEPT !["mapped"] = v] /\ meta' = meta
    BY <2>3, DoKinds
  <2>5. QED
    BY <1>3, <2>2, <2>3, <2>4
<1>10. CASE \E c \in BOOLEAN : todo = ValidLeft(c)
  <2>1. PICK c \in BOOLEAN : todo = ValidLeft(c)
    BY <1>10
  <2> DEFINE w == AWrite("tbl", "valid", v, "none", "on")
  <2>2. todo = Then(w, AllocLeft(c))
    BY <2>1 DEF ValidLeft, Plain
  <2>3. [tbl EXCEPT !["valid"] = v].hw = tbl.hw
    BY <1>6
  <2> HIDE DEF v
  <2>4. todo' = AllocLeft(c) /\ Do(w)
    BY <1>5, <2>2, OneStep
  <2>5. tbl' = [tbl EXCEPT !["valid"] = v] /\ meta' = meta
    BY <2>4, DoKinds
  <2>6. ~tbl'.hw /\ meta' \in Metas
    BY <1>3, <2>3, <2>5
  <2> HIDE DEF w
  <2>7. OpenStages'
    BY <2>4, <2>6 DEF OpenStages, AllocLeft, MapLeft, ResetLeft, UseLeft
  <2>8. QED
    BY <1>4, <2>7 DEF MemInv
<1>11. CASE todo = MapLeft
  <2>1. ~tbl'.hw /\ todo' = ResetLeft /\ meta' \in Metas
    BY <1>3, <1>9, <1>11
  <2>2. OpenStages'
    BY <2>1 DEF OpenStages, ResetLeft, UseLeft
  <2>3. QED
    BY <1>4, <2>2 DEF MemInv
<1>12. CASE todo = Then(Plain("alloc", 0, 0), MapLeft)
  <2>1. todo' = MapLeft /\ Do(Plain("alloc", 0, 0))
    BY <1>5, <1>12, OneStep
  <2>2. tbl' = [tbl EXCEPT !.ids = TRUE] /\ meta' = [e \in Expansion |-> 0]
    BY <2>1, DoKinds DEF Plain
  <2>3. ~tbl'.hw /\ meta' \in Metas
    BY <1>3, <1>7, <1>8, <2>2
  <2>4. todo' = AllocLeft(FALSE)
    BY <2>1 DEF AllocLeft, If
  <2>5. \E c \in BOOLEAN : todo' = ValidLeft(c) \/ todo' = AllocLeft(c)
    BY <2>4
  <2>6. OpenStages'
    BY <2>3, <2>5 DEF OpenStages, ValidLeft, AllocLeft, MapLeft, ResetLeft, UseLeft
  <2>7. QED
    BY <1>4, <2>6 DEF MemInv
<1>13. CASE todo = ResetLeft
  <2>1. todo' = UseLeft /\ Do(Plain("reset", 0, 0))
    BY <1>5, <1>13, OneStep DEF ResetLeft
  <2>2. /\ nat' = [e \in All |-> Zero] /\ idx' = [e \in All |-> ZeroIdx]
        /\ tbl' = tbl /\ meta' = meta
    BY <2>1, DoKinds DEF Plain
  <2>3. ~tbl'.hw /\ meta' \in Metas /\ Zeroed'
    BY <1>3, <2>2 DEF Zeroed
  <2>4. OpenStages'
    BY <2>1, <2>3 DEF OpenStages, UseLeft
  <2>5. QED
    BY <1>4, <2>4 DEF MemInv
<1>14. CASE todo = UseLeft /\ Zeroed
  <2> DEFINE w == AWrite("tbl", "hw", v, "open", "abort")
  <2>1. todo = Then(w, <<>>)
    BY <1>14 DEF UseLeft
  <2>2. [tbl EXCEPT !["hw"] = v].hw
    BY <1>7
  <2> HIDE DEF v
  <2>3. todo' = <<>> /\ Do(w)
    BY <1>5, <2>1, OneStep
  <2>4. tbl' = [tbl EXCEPT !["hw"] = v] /\ nat' = nat /\ idx' = idx /\ meta' = meta
    BY <2>3, DoKinds
  <2>5. tbl'.hw /\ meta' \in Metas /\ Zeroed' /\ op'.ok
    BY <1>2, <1>3, <1>4, <1>14, <2>2, <2>4 DEF Zeroed
  <2>6. OpenStages'
    BY <2>3, <2>5 DEF OpenStages
  <2>7. QED
    BY <1>4, <2>6 DEF MemInv
<1>15. QED
  <2>1. \/ \E c \in BOOLEAN : todo = ValidLeft(c)
        \/ \E c \in BOOLEAN : todo = AllocLeft(c)
        \/ todo = ResetLeft
        \/ todo = UseLeft /\ Zeroed
    BY <1>1, <1>2 DEF OpenStages
  <2>2. (\E c \in BOOLEAN : todo = AllocLeft(c))
        => \/ todo = MapLeft
           \/ todo = Then(Plain("alloc", 0, 0), MapLeft)
    BY <1>5
  <2>3. QED
    BY <1>10, <1>11, <1>12, <1>13, <1>14, <2>1, <2>2

LEMMA WriteCloseMem ==
    ASSUME IInv, MemInv, Write, op.kind = "close"
    PROVE  MemInv'
<1> PICK w : w = Head(todo)
  OBVIOUS
<1>1. /\ Do(w) /\ scene' = scene /\ op' = op /\ held' = held /\ up' = up
      /\ w \in Elems(todo) /\ Elems(todo) = {w} \cup Elems(todo')
  BY WriteFrame
<1>2. CloseWrite(w) /\ tbl \in Tables
  BY <1>1 DEF IInv, CallInv, Closing, TypeOK
<1>3. meta \in Metas /\ (~Pending("forget") => ~tbl.hw)
  BY DEF MemInv
<1>4. CASE w.m = "forget"
  <2>1. tbl' = NoTable /\ meta' = [e \in Expansion |-> 0]
    BY <1>1, <1>4 DEF Do
  <2>2. ~tbl'.hw /\ meta' \in Metas
    BY <2>1, Sizes DEF NoTable, Metas
  <2>3. QED
    BY <1>1, <2>2 DEF MemInv
<1>5. CASE w.m # "forget"
  <2>1. meta' = meta
    BY <1>1, <1>2, <1>5 DEF Do, CloseWrite
  <2>2. tbl' = tbl \/ tbl' = [tbl EXCEPT !.mapped = FALSE] \/ tbl' = [tbl EXCEPT !.hw = FALSE]
    BY <1>1, <1>2, <1>5 DEF Do, CloseWrite
  <2>3. tbl'.hw => tbl.hw
    BY <1>2, <2>2 DEF Tables
  <2>4. Pending("forget") => Pending("forget")'
    BY <1>1, <1>5 DEF Pending, Kinds
  <2>5. QED
    BY <1>1, <1>3, <2>1, <2>3, <2>4 DEF MemInv
<1>6. QED
  BY <1>4, <1>5

LEMMA WriteMem ==
    ASSUME IInv, MemInv, Write
    PROVE  MemInv'
<1>1. op.kind \in {"none", "add", "del", "open", "close"}
  BY DEF IInv, TypeOK, Calls
<1>2. op.kind # "none"
  BY DEF IInv, CallInv, Write
<1>3. QED
  BY <1>1, <1>2, WriteAddMem, WriteDelMem, WriteOpenMem, WriteCloseMem

-----------------------------------------------------------------------------
(* A request fails.                                                        *)

\* Of the requests to the driver those that link or enable a new entry do not fail: after
\* one that does the library reports success, or leaves the entry in the table.
LinksMade == Faults \subseteq {"delete", "open"}

\* The next write is no request that can fail here.
Sure(s) == s # <<>> => Head(s).fault \notin {"delete", "open"}

LEMMA SureFirst ==
    ASSUME NEW m, NEW at, NEW v, NEW fault, NEW then, fault \notin {"delete", "open"},
           NEW s, IsSequence(s)
    PROVE  /\ Sure(Then(AWrite(m, at, v, fault, then), s))
           /\ \A c : Sure(s) => Sure(If(c, AWrite(m, at, v, fault, then), s))
<1> DEFINE w == AWrite(m, at, v, fault, then)
<1>1. w.fault = fault
  BY DEF AWrite
<1> HIDE DEF w
<1>2. Sure(Then(w, s))
  BY <1>1, FirstWrite DEF Sure
<1>3. QED
  BY <1>2 DEF If, w

LEMMA SureDoes ==
    ASSUME LinksMade, Fail, Sure(todo)
    PROVE  FALSE
BY DEF LinksMade, Fail, Sure

LEMMA AddSure ==
    ASSUME NEW f, NEW r, NEW x, NEW h
    PROVE  /\ Sure(<<>>) /\ Sure(IdsLeft(r, h)) /\ Sure(OnLeft(r, h)) /\ Sure(IdxNextLeft(r, x, h))
           /\ Sure(IdxLeft(r, x, h)) /\ Sure(NextLeft(r, x, h)) /\ Sure(NatLeft(f, r, x, h))
           /\ Sure(MetaLeft(f, r, x, h))
<1>0. /\ IsSequence(IdsLeft(r, h)) /\ IsSequence(OnLeft(r, h))
      /\ IsSequence(IdxNextLeft(r, x, h)) /\ IsSequence(IdxLeft(r, x, h))
      /\ IsSequence(NextLeft(r, x, h)) /\ IsSequence(NatLeft(f, r, x, h)) /\ IsSequence(<<>>)
  BY AddSequences, NoWrites
<1>1. Sure(<<>>)
  BY DEF Sure
<1>2. Sure(IdsLeft(r, h))
  BY <1>0, SureFirst DEF IdsLeft, Plain
<1>3. Sure(OnLeft(r, h))
  <2> DEFINE v == TRUE
  <2>1. OnLeft(r, h) = Then(AWrite("on", r.at, v, "enable", "abort"), IdsLeft(r, h))
    BY DEF OnLeft
  <2> HIDE DEF v
  <2>2. QED
    BY <1>0, <2>1, SureFirst
<1>4. Sure(IdxNextLeft(r, x, h))
  BY <1>0, <1>3, SureFirst DEF IdxNextLeft
<1>5. Sure(IdxLeft(r, x, h))
  BY <1>0, SureFirst DEF IdxLeft, Plain
<1>6. Sure(NextLeft(r, x, h))
  BY <1>0, <1>5, SureFirst DEF NextLeft
<1>7. Sure(NatLeft(f, r, x, h))
  BY <1>0, SureFirst DEF NatLeft, Plain
<1>8. Sure(MetaLeft(f, r, x, h))
  BY <1>0, <1>7, SureFirst DEF MetaLeft, Plain
<1>9. QED
  BY <1>1, <1>2, <1>3, <1>4, <1>5, <1>6, <1>7, <1>8

LEMMA DelSure ==
    ASSUME NEW nt, NEW it, NEW mt, NEW e, NEW h, NEW x, x = nt[e].ix
    PROVE  /\ Sure(<<>>) /\ Sure(HdlLeft(h)) /\ Sure(SweepLeft(h)) /\ Sure(IxLeft(it, x, h))
           /\ Sure(ZeroIdxLeft(it, x, h)) /\ Sure(ZeroMetaLeft(it, x, h))
           /\ Sure(MoveMetaLeft(it, mt, x, h)) /\ Sure(ZeroNatLeft(nt, it, mt, e, h))
           /\ Sure(PrevLeft(nt, it, mt, e, h)) /\ Sure(RuleLeft(nt, it, mt, e, h))
           /\ Sure(IdxRestLeft(nt, it, mt, e, h))
<1>0. /\ IsSequence(HdlLeft(h)) /\ IsSequence(SweepLeft(h)) /\ IsSequence(IxLeft(it, x, h))
      /\ IsSequence(ZeroIdxLeft(it, x, h)) /\ IsSequence(ZeroMetaLeft(it, x, h))
      /\ IsSequence(MoveMetaLeft(it, mt, x, h)) /\ IsSequence(ZeroNatLeft(nt, it, mt, e, h))
      /\ IsSequence(PrevLeft(nt, it, mt, e, h)) /\ IsSequence(RuleLeft(nt, it, mt, e, h))
      /\ IsSequence(IdxRestLeft(nt, it, mt, e, h)) /\ IsSequence(<<>>)
  BY DelSequences, NoWrites
<1>1. Sure(<<>>)
  BY DEF Sure
<1>2. Sure(HdlLeft(h))
  BY <1>0, SureFirst DEF HdlLeft, Plain
<1>3. Sure(SweepLeft(h))
  BY <1>0, SureFirst DEF SweepLeft, Plain
<1>4. Sure(IxLeft(it, x, h))
  BY <1>0, <1>3, SureFirst DEF IxLeft, Plain
<1>5. Sure(ZeroIdxLeft(it, x, h))
  BY <1>0, SureFirst DEF ZeroIdxLeft, Plain
<1>6. Sure(ZeroMetaLeft(it, x, h))
  BY <1>0, <1>5, SureFirst DEF ZeroMetaLeft, Plain
<1>7. Sure(MoveMetaLeft(it, mt, x, h))
  BY <1>0, <1>6, SureFirst DEF MoveMetaLeft, MetaWrite, Plain
<1>8. Sure(ZeroNatLeft(nt, it, mt, e, h))
  BY <1>0, <1>7, SureFirst DEF ZeroNatLeft, Plain
<1>9. Sure(PrevLeft(nt, it, mt, e, h))
  BY <1>0, <1>8, SureFirst DEF PrevLeft, Plain
<1>10. Sure(RuleLeft(nt, it, mt, e, h))
  <2>1. RuleWrite(nt, e).fault = "none"
    BY DEF RuleWrite, Plain, AWrite
  <2>2. QED
    BY <1>0, <2>1, FirstWrite DEF RuleLeft, Sure
<1>11. Sure(IdxRestLeft(nt, it, mt, e, h))
  BY <1>0, <1>10, SureFirst DEF IdxRestLeft, Plain
<1>12. QED
  BY <1>1, <1>2, <1>3, <1>4, <1>5, <1>6, <1>7, <1>8, <1>9, <1>10, <1>11

LEMMA FailDelMem ==
    ASSUME LinksMade, IInv, MemInv, Fail, op.kind = "del"
    PROVE  MemInv'
<1>1. /\ tbl.hw /\ op.ok
      /\ \E nt, it, mt, e : DelSnap(nt, it, mt, e) /\ DelStages(nt, it, mt, e)
  BY DEF MemInv, Fail
<1>2. PICK nt, it, mt, e : DelSnap(nt, it, mt, e) /\ DelStages(nt, it, mt, e)
  BY <1>1
<1>3. At(IndexLeft(nt, it, mt, e, op.hdl), nt, it, mt)
  <2> DEFINE h == op.hdl
             x == nt[e].ix
  <2>1. /\ Sure(<<>>) /\ Sure(HdlLeft(h)) /\ Sure(SweepLeft(h)) /\ Sure(IxLeft(it, x, h))
        /\ Sure(ZeroIdxLeft(it, x, h)) /\ Sure(ZeroMetaLeft(it, x, h))
        /\ Sure(MoveMetaLeft(it, mt, x, h)) /\ Sure(ZeroNatLeft(nt, it, mt, e, h))
        /\ Sure(PrevLeft(nt, it, mt, e, h)) /\ Sure(RuleLeft(nt, it, mt, e, h))
        /\ Sure(IdxRestLeft(nt, it, mt, e, h))
    BY DelSure
  <2>2. ~Sure(todo)
    BY SureDoes
  <2>3. QED
    BY <1>2, <2>1, <2>2 DEF DelStages, At
<1> DEFINE w == IndexWrite(it, mt, nt[e].ix)
<1>4. Head(todo) = w /\ w.fault = "delete" /\ w.then = "abort"
  <2>1. IsSequence(IdxRestLeft(nt, it, mt, e, op.hdl))
    BY DelSequences
  <2>2. Head(todo) = w
    BY <1>3, <2>1, FirstWrite DEF At, IndexLeft
  <2>3. w.fault = "delete" /\ w.then = "abort"
    BY DEF IndexWrite, AWrite
  <2>4. QED
    BY <2>2, <2>3
<1> HIDE DEF w
<1>5. /\ todo # <<>> /\ todo' = <<>> /\ op' = [op EXCEPT !.ok = FALSE]
      /\ scene' = scene /\ nat' = nat /\ idx' = idx /\ meta' = meta /\ ids' = ids /\ tbl' = tbl
      /\ held' = held /\ up' = up
  BY <1>4 DEF Fail, memory
<1>6. ~op'.ok /\ op'.kind = "del"
  BY <1>5 DEF IInv, TypeOK, Calls
<1>7. /\ w \in Elems(todo) /\ TypeOK
  BY <1>4, <1>5, HeadAndTail DEF IInv, TypeOK
<1>8. PICK a \in Handles : Deleting(a)
  BY DEF IInv, CallInv
<1>9. /\ op.flow \in Flows /\ held[op.flow] = op.hdl /\ op.hdl # 0
      /\ ids[op.hdl] = a /\ nat[a].on /\ nat[a].flow = op.flow
  BY <1>4, <1>7, <1>8 DEF Deleting, Handles
<1>10. nat = nt /\ idx = it /\ meta = mt
  BY <1>3 DEF At
<1>11. a = e
  BY <1>2, <1>8, <1>9, <1>10 DEF DelSnap, Ruled, Handles
<1>12. Owned(nat, Ruled(nat)) /\ Sound(nat, idx, meta)
  <2>1. Owned(nt, Ruled(nt) \ {e}) /\ nt[e].flow = op.flow /\ Sound(nt, it, mt)
    BY <1>2 DEF DelSnap
  <2>2. QED
    BY <1>9, <1>10, <1>11, <2>1 DEF Owned
<1>13. Rested'
  BY <1>1, <1>5, <1>12, SoundKept DEF Rested, Owned
<1>14. QED
  BY <1>5, <1>6, <1>13 DEF MemInv

LEMMA FailMem ==
    ASSUME LinksMade, IInv, MemInv, Fail
    PROVE  MemInv'
<1>1. op.kind \in {"add", "del", "open", "close"}
  BY DEF IInv, CallInv, TypeOK, Calls, Fail
<1>2. ~Sure(todo)
  BY SureDoes
<1>3. op.kind # "add"
  <2> SUFFICES ASSUME op.kind = "add" PROVE FALSE
    OBVIOUS
  <2>1. PICK nt, it, mt, r, x : AddStages(nt, it, mt, r, x)
    BY DEF MemInv
  <2> DEFINE f == op.flow
             h == op.hdl
  <2>2. /\ Sure(<<>>) /\ Sure(IdsLeft(r, h)) /\ Sure(OnLeft(r, h)) /\ Sure(IdxNextLeft(r, x, h))
        /\ Sure(IdxLeft(r, x, h)) /\ Sure(NextLeft(r, x, h)) /\ Sure(NatLeft(f, r, x, h))
        /\ Sure(MetaLeft(f, r, x, h))
    BY AddSure
  <2>3. QED
    BY <1>2, <2>1, <2>2 DEF AddStages, At
<1>4. /\ todo # <<>> /\ Head(todo) \in Elems(todo) /\ Head(todo).fault # "none"
      /\ op' = [op EXCEPT !.ok = Head(todo).then # "abort"]
      /\ todo' = IF Head(todo).then = "abort" THEN <<>> ELSE Tail(todo)
      /\ scene' = scene /\ meta' = meta /\ tbl' = tbl /\ held' = held /\ up' = up
  <2>1. IsSequence(todo)
    BY DEF IInv, TypeOK
  <2>2. QED
    BY <2>1, OtherNames, HeadAndTail DEF Fail, memory
<1>5. op.kind # "close"
  BY <1>4 DEF IInv, CallInv, Closing, CloseWrite
<1>6. CASE op.kind = "open"
  <2>1. Head(todo).then = "abort"
    BY <1>4, <1>6 DEF IInv, CallInv, Opening, OpenWrite
  <2>2. todo' = <<>> /\ ~op'.ok /\ op'.kind = "open"
    BY <1>4, <1>6, <2>1 DEF IInv, TypeOK, Calls
  <2>3. ~tbl.hw /\ meta \in Metas
    BY <1>4, <1>6 DEF MemInv, OpenStages
  <2>4. OpenStages'
    BY <1>4, <2>2, <2>3 DEF OpenStages
  <2>5. QED
    BY <1>4, <2>2, <2>4 DEF MemInv
<1>7. QED
  BY <1>1, <1>3, <1>5, <1>6, FailDelMem

-----------------------------------------------------------------------------
(* A call returns.                                                         *)

LEMMA SomeLeft ==
    ASSUME NEW w, NEW s, IsSequence(s)
    PROVE  Then(w, s) # <<>> /\ \A c : s # <<>> => If(c, w, s) # <<>>
BY FirstWrite DEF If

LEMMA AddLeft ==
    ASSUME NEW f, NEW r, NEW x, NEW h
    PROVE  /\ IdsLeft(r, h) # <<>> /\ OnLeft(r, h) # <<>> /\ IdxNextLeft(r, x, h) # <<>>
           /\ IdxLeft(r, x, h) # <<>> /\ NextLeft(r, x, h) # <<>> /\ NatLeft(f, r, x, h) # <<>>
           /\ MetaLeft(f, r, x, h) # <<>>
<1>0. /\ IsSequence(IdsLeft(r, h)) /\ IsSequence(OnLeft(r, h))
      /\ IsSequence(IdxNextLeft(r, x, h)) /\ IsSequence(IdxLeft(r, x, h))
      /\ IsSequence(NextLeft(r, x, h)) /\ IsSequence(NatLeft(f, r, x, h)) /\ IsSequence(<<>>)
  BY AddSequences, NoWrites
<1>1. /\ IdsLeft(r, h) # <<>> /\ OnLeft(r, h) # <<>> /\ IdxLeft(r, x, h) # <<>>
      /\ NatLeft(f, r, x, h) # <<>>
  BY <1>0, SomeLeft DEF IdsLeft, OnLeft, IdxLeft, NatLeft
<1>2. IdxNextLeft(r, x, h) # <<>>
  BY <1>0, <1>1, SomeLeft DEF IdxNextLeft
<1>3. NextLeft(r, x, h) # <<>>
  BY <1>0, <1>1, SomeLeft DEF NextLeft
<1>4. MetaLeft(f, r, x, h) # <<>>
  BY <1>0, <1>1, SomeLeft DEF MetaLeft
<1>5. QED
  BY <1>1, <1>2, <1>3, <1>4

LEMMA DelLeft ==
    ASSUME NEW nt, NEW it, NEW mt, NEW e, NEW h, NEW x, x = nt[e].ix
    PROVE  /\ HdlLeft(h) # <<>> /\ SweepLeft(h) # <<>> /\ IxLeft(it, x, h) # <<>>
           /\ ZeroIdxLeft(it, x, h) # <<>> /\ ZeroMetaLeft(it, x, h) # <<>>
           /\ MoveMetaLeft(it, mt, x, h) # <<>> /\ ZeroNatLeft(nt, it, mt, e, h) # <<>>
           /\ PrevLeft(nt, it, mt, e, h) # <<>> /\ RuleLeft(nt, it, mt, e, h) # <<>>
           /\ IdxRestLeft(nt, it, mt, e, h) # <<>> /\ IndexLeft(nt, it, mt, e, h) # <<>>
<1>0. /\ IsSequence(HdlLeft(h)) /\ IsSequence(SweepLeft(h)) /\ IsSequence(IxLeft(it, x, h))
      /\ IsSequence(ZeroIdxLeft(it, x, h)) /\ IsSequence(ZeroMetaLeft(it, x, h))
      /\ IsSequence(MoveMetaLeft(it, mt, x, h)) /\ IsSequence(ZeroNatLeft(nt, it, mt, e, h))
      /\ IsSequence(PrevLeft(nt, it, mt, e, h)) /\ IsSequence(RuleLeft(nt, it, mt, e, h))
      /\ IsSequence(IdxRestLeft(nt, it, mt, e, h)) /\ IsSequence(<<>>)
  BY DelSequences, NoWrites
<1>1. /\ HdlLeft(h) # <<>> /\ SweepLeft(h) # <<>> /\ ZeroIdxLeft(it, x, h) # <<>>
      /\ RuleLeft(nt, it, mt, e, h) # <<>> /\ IndexLeft(nt, it, mt, e, h) # <<>>
  BY <1>0, SomeLeft DEF HdlLeft, SweepLeft, ZeroIdxLeft, RuleLeft, IndexLeft
<1>2. IxLeft(it, x, h) # <<>> /\ ZeroMetaLeft(it, x, h) # <<>>
  BY <1>0, <1>1, SomeLeft DEF IxLeft, ZeroMetaLeft, If
<1>3. MoveMetaLeft(it, mt, x, h) # <<>>
  BY <1>0, <1>2, SomeLeft DEF MoveMetaLeft
<1>4. ZeroNatLeft(nt, it, mt, e, h) # <<>>
  BY <1>0, <1>3, SomeLeft DEF ZeroNatLeft
<1>5. PrevLeft(nt, it, mt, e, h) # <<>>
  BY <1>0, <1>4, SomeLeft DEF PrevLeft, If
<1>6. IdxRestLeft(nt, it, mt, e, h) # <<>>
  BY <1>0, <1>1, SomeLeft DEF IdxRestLeft, If
<1>7. QED
  BY <1>1, <1>2, <1>3, <1>4, <1>5, <1>6

\* All is written.
AddedIs ==
    /\ Sound(nat, idx, meta)
    /\ \E e \in Ruled(nat) : /\ nat[e].flow = op.flow /\ ids[op.hdl] = e
                             /\ Owned(nat, Ruled(nat) \ {e})

LEMMA AddDone ==
    ASSUME IInv, MemInv, op.kind = "add", todo = <<>>
    PROVE  AddedIs
<1>1. TypeOK /\ op.flow \in Flows
  BY DEF IInv, CallInv, Adding
<1>2. PICK nt, it, mt, r, x : AddSnap(nt, it, mt, r, x) /\ AddStages(nt, it, mt, r, x)
  BY DEF MemInv
<1> DEFINE f == op.flow
           h == op.hdl
           n1 == NatWritten(nt, f, r, x)
           n2 == NatLinked(nt, f, r, x)
           n3 == NatEnabled(nt, f, r, x)
           i1 == IdxWritten(it, r, x)
           i2 == IdxLinked(it, r, x)
           m1 == MetaSet(mt, x)
<1>3. AddFacts(nt, it, mt, r, x, f, n1, n2, n3, i1, i2, m1)
  BY <1>1, <1>2, AddFactsHold
<1>4. nat = n3 /\ idx = i2 /\ meta = m1 /\ ids[h] = r.at
  BY <1>2, AddLeft DEF AddStages, At
<1> HIDE DEF f, h, n1, n2, n3, i1, i2, m1
<1>5. /\ Sound(nat, idx, meta) /\ Ruled(nat) = Ruled(nt) \cup {r.at} /\ r.at \notin Ruled(nt)
      /\ \A e \in Ruled(nt) : nat[e].flow = nt[e].flow
      /\ nat[r.at].flow = f
  BY <1>3, <1>4 DEF AddFacts
<1>6. Owned(nt, Ruled(nt)) /\ Ruled(nat) \ {r.at} = Ruled(nt)
  BY <1>2, <1>5 DEF AddSnap
<1>7. Owned(nat, Ruled(nat) \ {r.at})
  BY <1>5, <1>6 DEF Owned
<1>8. QED
  BY <1>4, <1>5, <1>7 DEF AddedIs, Owned, f, h

LEMMA DelDone ==
    ASSUME IInv, MemInv, op.kind = "del", op.ok, todo = <<>>
    PROVE  /\ tbl.hw /\ Sound(nat, idx, meta) /\ Owned(nat, Ruled(nat))
           /\ \A e \in Ruled(nat) : nat[e].flow # op.flow
<1>1. TypeOK
  BY DEF IInv
<1>2. tbl.hw
  BY DEF MemInv
<1>3. PICK nt, it, mt, e : DelSnap(nt, it, mt, e) /\ DelStages(nt, it, mt, e)
  BY DEF MemInv
<1> DEFINE f == op.flow
           x == nt[e].ix
           d1 == RuleCut(nt, e)
           d2 == RuleJoined(nt, e)
           d3 == RuleGone(nt, e)
           d4 == RuleLast(nt, it, e)
           d5 == Sweep(d4)
           i1 == IdxCut(it, mt, x)
           i2 == IdxJoined(it, mt, x)
           i3 == IdxGone(it, mt, x)
           m1 == MetaMoved(it, mt, x)
           m2 == MetaGone(it, mt, x)
<1>4. DelFacts(nt, it, mt, e, f, d1, d2, d3, d4, d5, i1, i2, i3, m1, m2)
  BY <1>1, <1>3, DelFactsHold
<1>5. nat = d5 /\ idx = i3 /\ meta = m2
  BY <1>3, DelLeft DEF DelStages, At
<1> HIDE DEF f, x, d1, d2, d3, d4, d5, i1, i2, i3, m1, m2
<1>6. /\ Sound(nat, idx, meta) /\ Ruled(nat) = Ruled(nt) \ {e}
      /\ \A v \in Ruled(nat) : nat[v].flow = nt[v].flow
  BY <1>4, <1>5 DEF DelFacts
<1>7. Owned(nt, Ruled(nt) \ {e}) /\ \A v \in Ruled(nt) \ {e} : nt[v].flow # op.flow
  BY <1>3 DEF DelSnap
<1>8. QED
  BY <1>2, <1>6, <1>7 DEF Owned

LEMMA ZeroSound ==
    ASSUME TypeOK, Zeroed, meta \in Metas
    PROVE  Sound(nat, idx, meta) /\ Ruled(nat) = {}
<1>1. \A e \in All : nat[e] = Zero /\ idx[e] = ZeroIdx
  BY DEF Zeroed
<1>2. 0 \in All
  BY Sizes
<1>3. nat \in NatTables /\ idx \in IdxTables
  <2>1. Zero \in Entries /\ ZeroIdx \in Indexes
    BY <1>2 DEF Zero, ZeroIdx, Entries, Indexes, Matched
  <2>2. QED
    BY <2>1 DEF Zeroed, NatTables, IdxTables
<1>4. Enabled(nat) = {} /\ Ruled(nat) = {} /\ Taken(idx) = {}
  BY <1>1 DEF Enabled, Ruled, Taken, Zero, ZeroIdx
<1>5. \A e \in All : nat[e].next = 0 /\ idx[e].next = 0 /\ ~nat[e].on
  BY <1>1 DEF Zero, ZeroIdx
<1>6. /\ Linked(nat, PrevIn(nat), Enabled(nat), NatHome(nat, Dsts))
      /\ Linked(idx, meta, Taken(idx), IdxHome(nat, idx, Srcs))
  BY <1>4, <1>5 DEF Linked
<1>7. NatLists(nat, Dsts) /\ Swept(nat) /\ IdxLists(nat, idx, meta, Srcs)
  BY <1>1, <1>4, <1>5, <1>6 DEF NatLists, Swept, IdxLists
<1>8. QED
  BY <1>3, <1>4, <1>7 DEF Sound

LEMMA ReturnMem ==
    ASSUME IInv, MemInv, Return
    PROVE  MemInv'
<1>1. /\ op # NoCall /\ todo = <<>> /\ op' = NoCall
      /\ scene' = scene /\ nat' = nat /\ idx' = idx /\ meta' = meta /\ ids' = ids /\ tbl' = tbl
  BY DEF Return, memory
<1>2. op'.kind = "none" /\ TypeOK
  BY <1>1 DEF NoCall, IInv
<1>3. op.kind \in {"add", "del", "open", "close"}
  BY <1>1 DEF IInv, CallInv, TypeOK, Calls
<1>4. \A f \in Flows : held[f] # 0 => f \in Scenes[scene].flows
  BY DEF MemInv
<1>5. CASE op.kind = "add"
  <2>1. up /\ op.ok /\ tbl.hw /\ op.flow \in Scenes[scene].flows /\ AddedIs
    BY <1>1, <1>5, AddDone DEF IInv, CallInv, MemInv
  <2>2. held' = [held EXCEPT ![op.flow] = op.hdl] /\ up' = up
    BY <1>5, <2>1 DEF Return
  <2>3. op.flow \in Flows /\ op.hdl # 0 /\ held[op.flow] = 0
    BY <1>5 DEF IInv, CallInv, Adding, Handles
  <2>4. /\ held'[op.flow] = op.hdl
        /\ \A f \in Flows \ {op.flow} : held'[f] = held[f]
    BY <1>2, <2>2, <2>3 DEF TypeOK
  <2>5. PICK e \in Ruled(nat) : /\ nat[e].flow = op.flow /\ ids[op.hdl] = e
                                /\ Owned(nat, Ruled(nat) \ {e})
    BY <2>1 DEF AddedIs
  <2>6. \A v \in Ruled(nat) : held'[nat[v].flow] # 0 /\ ids[held'[nat[v].flow]] = v
    <3> SUFFICES ASSUME NEW v \in Ruled(nat), v # e
                 PROVE  held'[nat[v].flow] # 0 /\ ids[held'[nat[v].flow]] = v
      BY <2>3, <2>4, <2>5
    <3>1. held[nat[v].flow] # 0 /\ ids[held[nat[v].flow]] = v /\ nat[v].flow \in Flows
      BY <2>5 DEF Owned, Ruled
    <3>2. QED
      BY <2>3, <2>4, <3>1
  <2>7. Owned(nat, Ruled(nat))'
    BY <1>1, <2>6 DEF Owned
  <2>8. Rested'
    BY <1>1, <2>1, <2>7, SoundKept DEF Rested, AddedIs
  <2>9. \A f \in Flows : held'[f] # 0 => f \in Scenes[scene].flows
    BY <1>4, <2>1, <2>4
  <2>10. QED
    BY <1>1, <1>2, <2>1, <2>2, <2>8, <2>9 DEF MemInv
<1>6. CASE op.kind = "del" /\ op.ok
  <2>1. /\ tbl.hw /\ Sound(nat, idx, meta) /\ Owned(nat, Ruled(nat))
        /\ \A e \in Ruled(nat) : nat[e].flow # op.flow
    BY <1>1, <1>6, DelDone
  <2>2. held' = [held EXCEPT ![op.flow] = 0] /\ up' = up /\ up
    BY <1>6 DEF Return, IInv, CallInv
  <2>3. \A f \in Flows : held'[f] = IF f = op.flow THEN 0 ELSE held[f]
    BY <1>2, <2>2 DEF TypeOK
  <2>4. \A v \in Ruled(nat) : held'[nat[v].flow] = held[nat[v].flow]
    BY <2>1, <2>3 DEF Ruled
  <2>5. Owned(nat, Ruled(nat))'
    BY <1>1, <2>1, <2>4 DEF Owned
  <2>6. Rested'
    BY <1>1, <2>1, <2>5, SoundKept DEF Rested
  <2>7. \A f \in Flows : held'[f] # 0 => f \in Scenes[scene].flows
    BY <1>4, <2>3
  <2>8. QED
    BY <1>1, <1>2, <2>2, <2>6, <2>7 DEF MemInv
<1>7. CASE op.kind = "del" /\ ~op.ok
  <2>1. Rested
    BY <1>7 DEF MemInv
  <2>2. held' = held /\ up' = up /\ up
    BY <1>7 DEF Return, IInv, CallInv
  <2>3. Rested'
    BY <1>1, <2>1, <2>2, SoundKept DEF Rested, Owned
  <2>4. QED
    BY <1>1, <1>2, <1>4, <2>2, <2>3 DEF MemInv
<1>8. CASE op.kind = "open"
  <2>1. held' = held /\ up' = op.ok /\ OpenStages
    BY <1>8 DEF Return, MemInv
  <2>2. /\ op.ok => tbl.hw /\ Zeroed
        /\ ~op.ok => ~tbl.hw
        /\ meta \in Metas
    <3>1. \A c \in BOOLEAN : ValidLeft(c) # <<>> /\ AllocLeft(c) # <<>>
      BY OpenSequences, SomeLeft DEF ValidLeft, MapLeft
    <3>2. ResetLeft # <<>> /\ UseLeft # <<>>
      BY OpenSequences, NoWrites, SomeLeft DEF ResetLeft, UseLeft
    <3>3. QED
      BY <1>1, <2>1, <3>1, <3>2 DEF OpenStages
  <2>3. op.ok => Rested'
    BY <1>1, <1>2, <2>2, ZeroSound, SoundKept DEF Rested, Owned
  <2>4. QED
    BY <1>1, <1>2, <1>4, <2>1, <2>2, <2>3 DEF MemInv
<1>9. CASE op.kind = "close"
  <2>1. up' = FALSE /\ held' = [f \in Flows |-> 0]
    BY <1>9 DEF Return
  <2>2. ~tbl.hw /\ meta \in Metas
    BY <1>1, <1>9, NoWrites DEF MemInv, Pending, Kinds
  <2>3. QED
    BY <1>1, <1>2, <2>1, <2>2 DEF MemInv
<1>10. QED
  BY <1>3, <1>5, <1>6, <1>7, <1>8, <1>9

LEMMA NextMem ==
    ASSUME LinksMade, IInv, MemInv, [Next]_vars
    PROVE  MemInv'
<1>1. ASSUME NEW next, Query(next) PROVE MemInv'
  BY <1>1, AskerMem DEF Query
<1>2. CASE Asker
  BY <1>1, <1>2 DEF Asker, Ask, QueryValid, QueryLock, QueryParse, QueryRead, QueryDone
<1>3. CASE UNCHANGED vars
  BY <1>3, AskerMem DEF vars, memory
<1>4. CASE Caller
  BY <1>4, AddMem, DelMem, OpenMem, CloseMem DEF Caller
<1>5. QED
  BY <1>2, <1>3, <1>4, WriteMem, FailMem, ReturnMem DEF Next

\* The memory is at every moment what some writes of the call under way have made of
\* tables that were sound: whatever the order of the calls and the failures.
THEOREM MemoryCorrect ==
    ASSUME LinksMade
    PROVE  Spec => [](IInv /\ MemInv)
<1>1. Init => IInv /\ MemInv
  BY InitInv, InitMem
<1>2. IInv /\ MemInv /\ [Next]_vars => (IInv /\ MemInv)'
  BY NextInv, NextMem
<1>3. QED
  BY <1>1, <1>2, PTL DEF Spec

LEMMA RestSound ==
    ASSUME IInv, MemInv, Rest
    PROVE  Sound(nat, idx, meta) /\ Owned(nat, Ruled(nat)) /\ op.kind = "none" /\ TypeOK
BY DEF Rest, NoCall, MemInv, Rested, IInv

LEMMA ListsKept ==
    ASSUME IInv, MemInv
    PROVE  ListsSound
<1> SUFFICES ASSUME Rest
             PROVE  /\ \A f \in Flows : held[f] # 0 =>
                          LET e == ids[held[f]] IN
                          /\ nat[e].flow = f /\ nat[e].on
                          /\ e \in Chain(nat, Dst(f))
                          /\ nat[e].ix \in Chain(idx, Src(f)) /\ idx[nat[e].ix].entry = e
                    /\ \A e \in Expansion : nat[e].on => nat[nat[e].prev].next = e
                    /\ \A x \in Expansion : idx[x].entry # 0 => idx[meta[x]].next = x
  BY DEF ListsSound
<1>1. Sound(nat, idx, meta) /\ op.kind = "none" /\ TypeOK
  BY RestSound
<1>2. /\ NatLists(nat, Dsts) /\ IdxLists(nat, idx, meta, Srcs)
      /\ Linked(nat, PrevIn(nat), Enabled(nat), NatHome(nat, Dsts))
      /\ Linked(idx, meta, Taken(idx), IdxHome(nat, idx, Srcs))
  BY <1>1 DEF Sound, NatLists, IdxLists
<1>3. Expansion \subseteq All
  BY Sizes DEF Expansion, All
<1>4. ASSUME NEW f \in Flows, held[f] # 0, NEW e, e = ids[held[f]]
      PROVE  /\ nat[e].flow = f /\ nat[e].on
             /\ e \in Chain(nat, Dst(f))
             /\ nat[e].ix \in Chain(idx, Src(f)) /\ idx[nat[e].ix].entry = e
  <2>1. nat[e].on /\ nat[e].flow = f
    BY <1>1, <1>4 DEF IInv, HeldLead
  <2>2. e \in All
    BY <1>1, <1>4 DEF TypeOK, Handles
  <2>3. e \in Ruled(nat)
    BY <2>1, <2>2 DEF Ruled
  <2>4. Dst(f) = Dsts[f] /\ Src(f) = Srcs[f]
    BY <1>1, HashesKnown
  <2>5. NatFinds(nat, Dsts, Ruled(nat))
    BY <1>2, ListsFind
  <2>6. e \in Chain(nat, Dst(f))
    BY <2>1, <2>3, <2>4, <2>5 DEF NatFinds
  <2>7. nat[e].ix \in Taken(idx) /\ idx[nat[e].ix].entry = e
    BY <1>2, <2>3 DEF IdxLists
  <2>8. IdxHome(nat, idx, Srcs)[nat[e].ix] = Srcs[f]
    BY <2>1, <2>7 DEF IdxHome, Taken
  <2>9. nat[e].ix \in Chain(idx, Src(f))
    BY <1>2, <2>4, <2>7, <2>8 DEF Linked
  <2>10. QED
    BY <2>1, <2>6, <2>7, <2>9
<1>5. ASSUME NEW e \in Expansion, nat[e].on
      PROVE  nat[nat[e].prev].next = e
  <2>1. e \in Enabled(nat) \cap Expansion /\ PrevIn(nat)[e] = nat[e].prev
    BY <1>3, <1>5 DEF Enabled, PrevIn
  <2>2. QED
    BY <1>2, <2>1 DEF Linked
<1>6. ASSUME NEW x \in Expansion, idx[x].entry # 0
      PROVE  idx[meta[x]].next = x
  <2>1. x \in Taken(idx) \cap Expansion
    BY <1>3, <1>6 DEF Taken
  <2>2. QED
    BY <1>2, <2>1 DEF Linked
<1>7. QED
  BY <1>4, <1>5, <1>6

LEMMA EmptyKept ==
    ASSUME IInv, MemInv
    PROVE  EmptyAgain
<1> SUFFICES ASSUME Rest, \A f \in Flows : held[f] = 0
             PROVE  /\ \A e \in All : nat[e] = Zero /\ idx[e] = ZeroIdx
                    /\ \A h \in DOMAIN ids : ids[h] = 0
  BY DEF EmptyAgain
<1>1. Sound(nat, idx, meta) /\ Owned(nat, Ruled(nat)) /\ op.kind = "none" /\ TypeOK
  BY RestSound
<1>2. Ruled(nat) = {}
  BY <1>1 DEF Owned, Ruled
<1>3. Taken(idx) = {}
  BY <1>1, <1>2 DEF Sound, IdxLists
<1>4. Enabled(nat) = {}
  <2> SUFFICES ASSUME NEW e \in Enabled(nat) PROVE FALSE
    OBVIOUS
  <2>1. nat[e].flow = Dead /\ e \in All /\ nat[e].on
    BY <1>1, <1>2 DEF Sound, NatLists, Enabled, Ruled
  <2>2. nat[e].next # 0
    BY <1>1, <2>1 DEF Sound, Swept
  <2>3. nat[e].next \in Enabled(nat) \cap Expansion
    BY <1>1, <2>2 DEF Sound, NatLists, Linked
  <2>4. nat[e].next \notin Base
    BY <2>3, Sizes DEF Base, Expansion
  <2>5. nat[nat[e].next].flow \in Flows
    BY <1>1, <2>3, <2>4 DEF Sound, NatLists
  <2>6. QED
    BY <1>2, <2>3, <2>5 DEF Ruled, Enabled
<1>5. \A e \in All : nat[e] = Zero /\ idx[e] = ZeroIdx
  BY <1>1, <1>3, <1>4 DEF Sound, NatLists, IdxLists
<1>6. \A h \in Handles : ids[h] = 0
  <2> SUFFICES ASSUME NEW h \in Handles, ids[h] # 0 PROVE FALSE
    OBVIOUS
  <2>1. nat[ids[h]].on /\ nat[ids[h]].flow \in Flows /\ ids[h] \in All
    BY <1>1 DEF IInv, HandlesLead, TypeOK
  <2>2. QED
    BY <1>2, <2>1 DEF Ruled
<1>7. QED
  BY <1>1, <1>5, <1>6 DEF TypeOK

\* Between calls a rule in use is on the list of its hash value, so is its index entry on
\* that of its own, each entry names the one before it, each handle leads to the rule of
\* its connection, and nothing is left over when the last rule has gone.
THEOREM TablesCorrect ==
    ASSUME LinksMade
    PROVE  Spec => []TablesSound
<1>1. IInv /\ MemInv => TablesSound
  BY ListsKept, EmptyKept DEF TablesSound
<1>2. QED
  BY <1>1, MemoryCorrect, PTL

-----------------------------------------------------------------------------
(* The contract of the library is kept.                                    *)

In == {f \in Scenes[scene].flows : Inbound(f)}
Out == {f \in Scenes[scene].flows : Outbound(f)}
Known == {f \in Flows : held[f] # 0}
CallNow == IF op = NoCall THEN [kind |-> "none", flow |-> "none"]
           ELSE [kind |-> op.kind, flow |-> op.flow]

LEMMA SceneFlows == TypeOK => Scenes[scene].flows \subseteq Flows
BY NatTableAssumption DEF TypeOK

LEMMA CallIs ==
    ASSUME IInv
    PROVE  /\ op.kind = "none" => CallNow = [kind |-> "none", flow |-> "none"]
           /\ op.kind # "none" => op # NoCall /\ CallNow = [kind |-> op.kind, flow |-> op.flow]
BY DEF IInv, CallInv, CallNow, NoCall

\* What the hardware finds of connections no call is about.
MidServed ==
    \A g \in Flows \ {op.flow} : (Inbound(g) <=> held[g] # 0) /\ (Outbound(g) <=> held[g] # 0)

LEMMA MidServes ==
    IInv /\ MemInv /\ op.kind \in {"add", "del"} /\ op.ok => MidServed
<1> SUFFICES ASSUME IInv, MemInv, op.kind \in {"add", "del"}, op.ok
             PROVE  MidServed
  OBVIOUS
<1>1. tbl.hw /\ TypeOK
  BY DEF MemInv, IInv
<1>2. Live(op.flow)
  <2>1. CASE op.kind = "add"
    <3>1. op.flow \in Flows
      BY <2>1 DEF IInv, CallInv, Adding
    <3>2. \E nt, it, mt, r, x : AddSnap(nt, it, mt, r, x) /\ AddStages(nt, it, mt, r, x)
      BY <2>1 DEF MemInv
    <3>3. QED
      BY <1>1, <3>1, <3>2, AddLive
  <2>2. CASE op.kind = "del"
    <3>1. \E nt, it, mt, e : DelSnap(nt, it, mt, e) /\ DelStages(nt, it, mt, e)
      BY <2>2 DEF MemInv
    <3>2. QED
      BY <1>1, <3>1, DelLive
  <2>3. QED
    BY <2>1, <2>2
<1> DEFINE f == op.flow
<1>3. op.kind # "close" /\ (op.kind = "del" => op.flow = f)
  OBVIOUS
<1> HIDE DEF f
<1>4. Live(f)
  BY <1>2 DEF f
<1>5. QED
  BY <1>1, <1>3, <1>4, LiveServes DEF MidServed, f

LEMMA RestServes ==
    ASSUME TypeOK, Sound(nat, idx, meta), tbl.hw, NEW f \in Flows
    PROVE  /\ (\E e \in Ruled(nat) : nat[e].flow = f) => Inbound(f) /\ Outbound(f)
           /\ (\A e \in Ruled(nat) : nat[e].flow # f) => ~Inbound(f) /\ ~Outbound(f)
<1>1. Dst(f) = Dsts[f] /\ Src(f) = Srcs[f] /\ Dst(f) \in All /\ Src(f) \in All
  BY HashesKnown, Sizes DEF Hashes, Usable
<1>2. IsTable(nat) /\ IsTable(idx)
  BY EntryFields, IndexFields DEF Sound, IsTable, NatTables, IdxTables
<1>3. Chain(nat, Dst(f)) \subseteq All /\ Chain(idx, Src(f)) \subseteq All
  BY <1>1, <1>2, ChainInAll
<1>4. NatFinds(nat, Dsts, Ruled(nat)) /\ IdxFinds(nat, idx, Srcs, Ruled(nat))
  BY ListsFind DEF Sound
<1>5. ASSUME NEW e \in Ruled(nat), nat[e].flow = f
      PROVE  Inbound(f) /\ Outbound(f)
  <2>1. e \in Chain(nat, Dst(f)) /\ \E x \in Chain(idx, Src(f)) : idx[x].entry = e
    BY <1>1, <1>4, <1>5 DEF NatFinds, IdxFinds
  <2>2. nat[e].on
    BY DEF Ruled
  <2>3. QED
    BY <1>5, <2>1, <2>2 DEF Inbound, Outbound
<1>6. ASSUME \A e \in Ruled(nat) : nat[e].flow # f
      PROVE  ~Inbound(f) /\ ~Outbound(f)
  <2>1. \A e \in All : ~(nat[e].on /\ nat[e].flow = f)
    BY <1>6 DEF Ruled
  <2>2. \A x \in All : idx[x].entry \in All
    BY IndexFields DEF Sound, IdxTables
  <2>3. QED
    BY <1>3, <2>1, <2>2 DEF Inbound, Outbound
<1>7. QED
  BY <1>5, <1>6

Off == ~tbl.hw
NoneServed == In = {} /\ Out = {}

LEMMA OffServes == Off => NoneServed
BY DEF Off, NoneServed, In, Out, Inbound, Outbound

LEMMA OpenServes ==
    IInv /\ MemInv /\ op.kind = "open" => NoneServed
<1> SUFFICES ASSUME IInv, MemInv, op.kind = "open", tbl.hw PROVE NoneServed
  BY OffServes DEF Off
<1>1. TypeOK /\ Zeroed /\ meta \in Metas
  BY DEF IInv, MemInv, OpenStages
<1>2. Sound(nat, idx, meta) /\ Ruled(nat) = {}
  BY <1>1, ZeroSound
<1>3. \A f \in Flows : ~Inbound(f) /\ ~Outbound(f)
  BY <1>1, <1>2, RestServes
<1>4. QED
  BY <1>1, <1>3, SceneFlows DEF NoneServed, In, Out

Shared == <<In, Out, Known, CallNow>>

LEMMA SameServed ==
    ASSUME scene' = scene, nat' = nat, idx' = idx, tbl' = tbl
    PROVE  In' = In /\ Out' = Out
BY DEF In, Out, Inbound, Outbound, Dst, Src

LEMMA KnownSame == held' = held => Known' = Known
BY DEF Known

LEMMA BeginStep ==
    ASSUME IInv, IInv', Caller
    PROVE  Contract!Begin
<1> DEFINE Started(kind, f) ==
             /\ op = NoCall /\ op'.kind = kind /\ op'.flow = f
             /\ scene' = scene /\ nat' = nat /\ idx' = idx /\ tbl' = tbl /\ held' = held
<1>1. ASSUME add_ipv4_tbl
      PROVE  Started("open", Nothing) /\ Known = {}
  BY <1>1 DEF add_ipv4_tbl, Call, memory, Known, IInv, TableInv
<1>2. ASSUME del_ipv4_table
      PROVE  Started("close", Nothing)
  BY <1>2 DEF del_ipv4_table, Call, memory
<1>3. ASSUME NEW f \in Flows, AddRule(f)
      PROVE  Started("add", f) /\ f \notin Known
  BY <1>3 DEF AddRule, Call, memory, Known
<1>4. ASSUME NEW f \in Flows, DelRule(f)
      PROVE  Started("del", f) /\ f \in Known
  BY <1>4 DEF DelRule, Call, memory, Known
<1>5. PICK kind, f : /\ Started(kind, f) /\ kind \in {"add", "del", "open", "close"}
                     /\ kind = "add" => f \notin Known
                     /\ kind = "del" => f \in Known
                     /\ kind = "open" => Known = {}
  BY <1>1, <1>2, <1>3, <1>4 DEF Caller
<1>6. In' = In /\ Out' = Out /\ Known' = Known
  BY <1>5, SameServed, KnownSame
<1>7. CallNow = [kind |-> "none", flow |-> "none"] /\ CallNow' = [kind |-> kind, flow |-> f]
  BY <1>5 DEF CallNow, NoCall
<1>8. QED
  BY <1>5, <1>6, <1>7 DEF Contract!Begin, Contract!Idle, In, Out, Known, CallNow

LEMMA AlterStep ==
    ASSUME IInv, IInv', MemInv, MemInv', Write, op.kind \in {"add", "del"}
    PROVE  Contract!Alter
<1>1. scene' = scene /\ op' = op /\ held' = held
  BY DEF Write
<1>2. op.ok
  BY DEF MemInv, Write
<1>3. MidServed
  BY <1>2, MidServes
<1>4. MidServed'
  <2>1. (IInv /\ MemInv /\ op.kind \in {"add", "del"} /\ op.ok)'
    BY <1>1, <1>2
  <2>2. QED
    BY <2>1, MidServes, PTL
<1>5. Scenes[scene].flows \subseteq Flows
  BY SceneFlows DEF IInv
<1>6. In' \ {op.flow} = In \ {op.flow} /\ Out' \ {op.flow} = Out \ {op.flow}
  BY <1>1, <1>3, <1>4, <1>5 DEF MidServed, In, Out
<1>7. CallNow = [kind |-> op.kind, flow |-> op.flow] /\ CallNow' = CallNow
  BY <1>1, CallIs DEF CallNow
<1>8. CallNow.kind = op.kind /\ CallNow.flow = op.flow
  BY <1>7
<1>9. Known' = Known
  BY <1>1, KnownSame
<1>10. QED
  BY <1>6, <1>7, <1>8, <1>9 DEF Contract!Alter, Contract!OnlyIts, In, Out, Known, CallNow

LEMMA EmptyStep ==
    ASSUME IInv, Write, op.kind = "close"
    PROVE  Contract!Empty \/ UNCHANGED Shared
<1> PICK w : w = Head(todo)
  OBVIOUS
<1>1. /\ Do(w) /\ scene' = scene /\ op' = op /\ held' = held
      /\ w \in Elems(todo)
  BY WriteFrame
<1>2. CloseWrite(w) /\ tbl \in Tables
  BY <1>1 DEF IInv, CallInv, Closing, TypeOK
<1>3. nat' = nat /\ idx' = idx
  BY <1>1, <1>2 DEF Do, CloseWrite
<1>4. \/ tbl' = tbl
      \/ tbl' = [tbl EXCEPT !.mapped = FALSE]
      \/ tbl' = [tbl EXCEPT !.hw = FALSE]
      \/ tbl' = NoTable
  BY <1>1, <1>2 DEF Do, CloseWrite
<1>5. tbl'.hw = tbl.hw \/ ~tbl'.hw
  BY <1>2, <1>4 DEF Tables, NoTable
<1>6. Known' = Known /\ CallNow' = CallNow /\ CallNow.kind = "close"
  BY <1>1, KnownSame, CallIs DEF CallNow
<1>7. CASE tbl'.hw = tbl.hw
  <2>1. In' = In /\ Out' = Out
    BY <1>1, <1>3, <1>7 DEF In, Out, Inbound, Outbound, Dst, Src
  <2>2. QED
    BY <1>6, <2>1 DEF Shared
<1>8. CASE ~tbl'.hw
  <2>1. Off'
    BY <1>8 DEF Off
  <2>2. NoneServed'
    BY <2>1, OffServes, PTL
  <2>3. QED
    BY <1>6, <2>2 DEF NoneServed, Contract!Empty, In, Out, Known, CallNow
<1>9. QED
  BY <1>5, <1>7, <1>8

LEMMA OpenWriteStep ==
    ASSUME IInv, IInv', MemInv, MemInv', Write, op.kind = "open"
    PROVE  UNCHANGED Shared
<1>1. op' = op /\ held' = held
  BY DEF Write
<1>2. NoneServed
  BY OpenServes
<1>3. NoneServed'
  <2>1. (IInv /\ MemInv /\ op.kind = "open")'
    BY <1>1
  <2>2. QED
    BY <2>1, OpenServes, PTL
<1>4. Known' = Known /\ CallNow' = CallNow
  BY <1>1, KnownSame DEF CallNow
<1>5. QED
  BY <1>2, <1>3, <1>4 DEF Shared, NoneServed

LEMMA FailStep ==
    ASSUME IInv, IInv', Fail
    PROVE  UNCHANGED Shared
<1>1. /\ scene' = scene /\ nat' = nat /\ idx' = idx /\ tbl' = tbl /\ held' = held
      /\ op' = [op EXCEPT !.ok = Head(todo).then # "abort"] /\ todo # <<>>
  BY DEF Fail, memory
<1>2. op.kind # "none" /\ op'.kind = op.kind /\ op'.flow = op.flow
  BY <1>1 DEF IInv, TypeOK, Calls, CallInv
<1>3. CallNow = [kind |-> op.kind, flow |-> op.flow] /\ CallNow' = CallNow
  BY <1>2, CallIs DEF CallNow, NoCall
<1>4. QED
  BY <1>1, <1>3, SameServed, KnownSame DEF Shared

LEMMA FinishStep ==
    ASSUME IInv, IInv', MemInv, Return
    PROVE  Contract!Finish
<1>1. /\ op # NoCall /\ todo = <<>> /\ op' = NoCall
      /\ scene' = scene /\ nat' = nat /\ idx' = idx /\ tbl' = tbl
  BY DEF Return, memory
<1>2. TypeOK /\ op.kind \in {"add", "del", "open", "close"}
  BY <1>1 DEF IInv, CallInv, TypeOK, Calls
<1>3. /\ CallNow = [kind |-> op.kind, flow |-> op.flow] /\ CallNow.kind = op.kind
      /\ CallNow.flow = op.flow /\ CallNow' = [kind |-> "none", flow |-> "none"]
      /\ CallNow # [kind |-> "none", flow |-> "none"]
  <2>1. CallNow = [kind |-> op.kind, flow |-> op.flow]
    BY <1>2, CallIs
  <2>2. CallNow' = [kind |-> "none", flow |-> "none"]
    BY <1>1 DEF CallNow
  <2>3. QED
    BY <1>2, <2>1, <2>2
<1>4. In' = In /\ Out' = Out
  BY <1>1, SameServed
<1>5. \A f \in Flows : held[f] # 0 => f \in Scenes[scene].flows
  BY DEF MemInv
<1> DEFINE f == op.flow
<1>6. \/ op.kind = "add" /\ f \in In /\ f \in Out /\ Known' = Known \cup {f}
      \/ op.kind = "del" /\ f \notin In /\ f \notin Out /\ Known' = Known \ {f}
      \/ op.kind = "del" /\ f \in In /\ f \in Out /\ Known' = Known
      \/ op.kind \in {"open", "close"} /\ Known' = {} /\ In = {} /\ Out = {}
  <2>1. CASE op.kind = "add"
    <3>1. op.ok /\ tbl.hw /\ f \in Scenes[scene].flows /\ AddedIs
      BY <1>1, <2>1, AddDone DEF MemInv
    <3>2. f \in Flows /\ op.hdl # 0
      BY <2>1 DEF IInv, CallInv, Adding, Handles
    <3>3. Inbound(f) /\ Outbound(f)
      BY <1>2, <3>1, <3>2, RestServes DEF AddedIs
    <3>4. held' = [held EXCEPT ![f] = op.hdl]
      BY <2>1, <3>1 DEF Return
    <3>5. \A g \in Flows : held'[g] = IF g = f THEN op.hdl ELSE held[g]
      BY <1>2, <3>4 DEF TypeOK
    <3>6. Known' = Known \cup {f}
      BY <3>2, <3>5 DEF Known
    <3>7. QED
      BY <2>1, <3>1, <3>3, <3>6 DEF In, Out
  <2>2. CASE op.kind = "del" /\ op.ok
    <3>1. /\ tbl.hw /\ Sound(nat, idx, meta)
          /\ \A e \in Ruled(nat) : nat[e].flow # f
      BY <1>1, <2>2, DelDone
    <3>2. f \in Flows
      BY <2>2 DEF IInv, CallInv, Deleting
    <3>3. ~Inbound(f) /\ ~Outbound(f)
      BY <1>2, <3>1, <3>2, RestServes
    <3>4. held' = [held EXCEPT ![f] = 0]
      BY <2>2 DEF Return
    <3>5. \A g \in Flows : held'[g] = IF g = f THEN 0 ELSE held[g]
      BY <1>2, <3>4 DEF TypeOK
    <3>6. Known' = Known \ {f}
      BY <3>5 DEF Known
    <3>7. QED
      BY <2>2, <3>3, <3>6 DEF In, Out
  <2>3. CASE op.kind = "del" /\ ~op.ok
    <3>1. tbl.hw /\ Sound(nat, idx, meta)
      BY <2>3 DEF MemInv, Rested
    <3>2. PICK e \in Handles : Deleting(e)
      BY <2>3 DEF IInv, CallInv
    <3>3. f \in Flows /\ held[f] # 0 /\ nat[e].on /\ nat[e].flow = f
      BY <2>3, <3>2 DEF Deleting, Handles
    <3>4. \E v \in Ruled(nat) : nat[v].flow = f
      BY <3>2, <3>3 DEF Ruled, Handles
    <3>5. Inbound(f) /\ Outbound(f)
      BY <1>2, <3>1, <3>3, <3>4, RestServes
    <3>6. held' = held
      BY <2>3 DEF Return
    <3>7. QED
      BY <1>5, <2>3, <3>3, <3>5, <3>6, KnownSame DEF In, Out
  <2>4. CASE op.kind = "open"
    <3>1. held' = held /\ Known = {}
      BY <2>4 DEF Return, IInv, CallInv, Opening, TableInv, Known
    <3>2. QED
      BY <2>4, <3>1, OpenServes, KnownSame DEF NoneServed
  <2>5. CASE op.kind = "close"
    <3>1. ~tbl.hw
      BY <1>1, <2>5, NoWrites DEF MemInv, Pending, Kinds
    <3>2. held' = [g \in Flows |-> 0]
      BY <2>5 DEF Return
    <3>3. Known' = {}
      BY <3>2 DEF Known
    <3>4. QED
      BY <2>5, <3>1, <3>3, OffServes DEF Off, NoneServed
  <2>6. QED
    BY <1>2, <2>1, <2>2, <2>3, <2>4, <2>5
<1> HIDE DEF f
<1>7. CallNow.flow = f
  BY <1>3 DEF f
<1>8. QED
  BY <1>3, <1>4, <1>6, <1>7
     DEF Contract!Finish, Contract!Idle, Contract!Translated, Contract!Unknown, In, Out, Known, CallNow

LEMMA ContractStep ==
    ASSUME IInv, IInv', MemInv, MemInv', [Next]_vars
    PROVE  [Contract!Next]_Contract!vars
<1>1. ASSUME UNCHANGED Shared
      PROVE  UNCHANGED Contract!vars
  BY <1>1 DEF Shared, Contract!vars, In, Out, Known, CallNow
<1>2. ASSUME scene' = scene, nat' = nat, idx' = idx, tbl' = tbl, held' = held, op' = op
      PROVE  UNCHANGED Contract!vars
  <2>1. CallNow' = CallNow
    BY <1>2 DEF CallNow
  <2>2. UNCHANGED Shared
    BY <1>2, <2>1, SameServed, KnownSame DEF Shared
  <2>3. QED
    BY <1>1, <2>2
<1>3. CASE Asker
  <2>1. \E next : Query(next)
    BY <1>3 DEF Asker, Ask, QueryValid, QueryLock, QueryParse, QueryRead, QueryDone
  <2>2. QED
    BY <1>2, <2>1 DEF Query, memory
<1>4. CASE UNCHANGED vars
  BY <1>2, <1>4 DEF vars
<1>5. CASE Caller
  BY <1>5, BeginStep DEF Contract!Next
<1>6. CASE Write
  <2>1. op.kind \in {"add", "del", "open", "close"}
    BY <1>6 DEF IInv, CallInv, TypeOK, Calls, Write
  <2>2. CASE op.kind \in {"add", "del"}
    BY <1>6, <2>2, AlterStep DEF Contract!Next
  <2>3. CASE op.kind = "open"
    BY <1>1, <1>6, <2>3, OpenWriteStep
  <2>4. CASE op.kind = "close"
    BY <1>1, <1>6, <2>4, EmptyStep DEF Contract!Next
  <2>5. QED
    BY <2>1, <2>2, <2>3, <2>4
<1>7. CASE Fail
  BY <1>1, <1>7, FailStep
<1>8. CASE Return
  BY <1>8, FinishStep DEF Contract!Next
<1>9. QED
  BY <1>3, <1>4, <1>5, <1>6, <1>7, <1>8 DEF Next

LEMMA ContractInit == Init => Contract!Init
<1> SUFFICES ASSUME Init PROVE Contract!Init
  OBVIOUS
<1>1. ~tbl.hw /\ op = NoCall /\ held = [f \in Flows |-> 0]
  BY DEF Init, NoTable
<1>2. In = {} /\ Out = {} /\ Known = {} /\ CallNow = [kind |-> "none", flow |-> "none"]
  BY <1>1, OffServes DEF Off, NoneServed, Known, CallNow
<1>3. QED
  BY <1>2 DEF Contract!Init, Contract!Idle, In, Out, Known, CallNow

\* Each write of ipa_nati_add_ipv4_rule and ipa_nati_del_ipv4_rule leaves the hardware
\* all other connections, in both directions; the rule of the call is found when it has
\* been added, not when it has been deleted, and still when the driver refused.
THEOREM NatImplementsContract ==
    ASSUME LinksMade
    PROVE  Spec => ImplementsContract
<1>1. Init => Contract!Init
  BY ContractInit
<1>2. IInv /\ IInv' /\ MemInv /\ MemInv' /\ [Next]_vars => [Contract!Next]_Contract!vars
  BY ContractStep
<1>3. QED
  BY <1>1, <1>2, MemoryCorrect, PTL DEF Spec, ImplementsContract, Contract!Spec
=============================================================================
