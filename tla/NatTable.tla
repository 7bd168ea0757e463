------------------------------ MODULE NatTable ------------------------------
(* The IPA NAT library (ipanat/src/ipa_nat_drvi.c): two hash tables in      *)
(* memory that the hardware reads at the same time.  The NAT table finds a  *)
(* rule for a packet from the network (dst_hash), the index table for a     *)
(* packet from a client (src_hash); each has base entries, one for each     *)
(* hash value, and expansion entries for collisions, chained by their next  *)
(* field.  A call is a list of writes, done one by one: by the processor,   *)
(* or by the hardware itself when the driver is asked (IPA_IOC_NAT_DMA).    *)
(* A second thread asks for time stamps (UDPConnTimeoutUpdate).             *)
EXTENDS Naturals, Sequences, FiniteSets, FiniteSetsExt

CONSTANTS
  Flows,       \* connections
  Dead,        \* what a head with protocol 0xFF matches
  Nothing,     \* what an entry matches that is zero
  Scenes,      \* by name: the flows, their hashes; asked: time stamps are asked for,
               \* and (bound) the table is only deleted then
  Requested,   \* number_of_entries
  Faults       \* requests that may fail: "delete", "open"; after a failed "link" or
               \* "enable" the lists are no longer sound

\* Above, the base table would want more than 32768 entries.
ASSUME RequestedAssumption == Requested \in Nat /\ 0 < Requested /\ Requested <= 40960

ASSUME NatTableAssumption ==
  /\ Faults \subseteq {"delete", "open", "link", "enable"}
  /\ Dead # Nothing /\ {Dead, Nothing} \cap Flows = {}
  /\ \A s \in DOMAIN Scenes :
       /\ Scenes[s].flows \subseteq Flows /\ Scenes[s].asked \in BOOLEAN
       /\ Scenes[s].dst \in [Flows -> Nat] /\ Scenes[s].src \in [Flows -> Nat]

-----------------------------------------------------------------------------
(* Sizes.                                                                   *)

Powers == {2, 4, 8, 16, 32, 64, 128, 256, 512, 1024, 2048, 4096, 8192, 16384, 32768, 65536}
GetNearest2Power(num) == IF num = 1 THEN 2 ELSE CHOOSE p \in Powers : num <= p /\ p < 2 * num
GetNearestEven(num) == IF num < 2 THEN 2 ELSE num + (num % 2)

AtLeast1(n) == IF n = 0 THEN 1 ELSE n
table_entries == GetNearest2Power(AtLeast1((Requested * 8) \div 10))
expn_table_entries == GetNearestEven((Requested * 2) \div 10)
All == 0 .. table_entries + expn_table_entries - 1
Base == 0 .. table_entries - 1
Expansion == table_entries .. table_entries + expn_table_entries - 1

\* dst_hash, src_hash: masked by the size of the table, 0 being no entry.
Hash(h) == IF h % table_entries = 0 THEN table_entries - 1 ELSE h % table_entries

VARIABLES
  scene,
  nat,     \* NAT table: on, flow, next, prev, ix (entry of the index table)
  idx,     \* index table: entry (of the NAT table), next
  meta,    \* index_expn_table_meta
  ids,     \* rule_id_array
  tbl,     \* ip4_tbl: valid, ids (rule_id_array is there), mapped, hw (the driver uses it)
  lock,    \* nat_mutex
  op,      \* the call under way: kind, flow, hdl, ok
  todo,    \* its writes still to be done
  held,    \* the caller's handles; 0 for none
  up,      \* the caller has a table
  q        \* the time stamp thread: pc, flow, hdl, at, got, stale

vars == <<scene, nat, idx, meta, ids, tbl, lock, op, todo, held, up, q>>
memory == <<nat, idx, meta, ids>>

Zero == [on |-> FALSE, flow |-> Nothing, next |-> 0, prev |-> 0, ix |-> 0]
ZeroIdx == [entry |-> 0, next |-> 0]
NoTable == [valid |-> FALSE, ids |-> FALSE, mapped |-> FALSE, hw |-> FALSE]
NoCall == [kind |-> "none", flow |-> Nothing, hdl |-> 0, ok |-> TRUE]
NoQuery == [pc |-> "idle", flow |-> Nothing, hdl |-> 0, at |-> 0, got |-> Nothing, stale |-> FALSE]

Dst(f) == Hash(Scenes[scene].dst[f])
Src(f) == Hash(Scenes[scene].src[f])

Init ==
  /\ scene \in DOMAIN Scenes
  /\ nat = [e \in All |-> Zero] /\ idx = [e \in All |-> ZeroIdx]
  /\ meta = [e \in Expansion |-> 0] /\ ids = [h \in All \ {0} |-> 0]
  /\ tbl = NoTable /\ lock = "free" /\ op = NoCall /\ todo = <<>>
  /\ held = [f \in Flows |-> 0] /\ up = FALSE /\ q = NoQuery

-----------------------------------------------------------------------------
(* The writes of a call.                                                    *)

\* By the processor, or by the hardware; the first of a request may fail, and the
\* call with it ("abort") or without a word ("skip").
Cpu(m, at, v) == <<[m |-> m, at |-> at, v |-> v, fault |-> "none", then |-> "on"]>>
Dma(m, at, v, fault, then) == <<[m |-> m, at |-> at, v |-> v, fault |-> fault, then |-> then]>>
Only(cond, writes) == IF cond THEN writes ELSE <<>>

\* The chain from entry b on, in the NAT table or the index table.
Chain(table, b) ==
  LET upto[k \in 0 .. expn_table_entries] ==
        IF k = 0 THEN {b} ELSE UNION {{e, table[e].next} : e \in upto[k - 1]}
  IN  upto[expn_table_entries] \ {0}

\* The entry for a new rule with hash value b, and the one before it; entry 0 when there
\* is no room, or a chain leads to itself.
Slot(used, table, b) ==
  LET chain == Chain(table, b)
      free == {e \in Expansion \ {table_entries} : ~used[e]}
      last == {e \in chain : table[e].next = 0}
      room == free # {} /\ \A e \in chain \ {b} : table[e].next # e
  IN  IF ~used[b] THEN [at |-> b, prev |-> 0]
      ELSE IF ~room THEN [at |-> 0, prev |-> 0]
      ELSE [at |-> Min(free), prev |-> CHOOSE e \in last : TRUE]

generate_tbl_rule(f) == Slot([e \in All |-> nat[e].on], nat, Dst(f))
generate_index_rule(f) == Slot([e \in All |-> idx[e].entry # 0], idx, Src(f))

\* ipa_nati_copy_ipv4_rule_to_hw, ipa_nati_copy_ipv4_index_rule_to_hw.
copy_rule_to_hw(f, r, x) ==
  Cpu("nat", r.at, [on |-> FALSE, flow |-> f, next |-> 0, prev |-> r.prev, ix |-> x.at])
  \o Only(r.prev # 0, Dma("next", r.prev, r.at, "link", "skip"))
copy_index_rule_to_hw(r, x) ==
  Cpu("idx", x.at, [entry |-> r.at, next |-> 0])
  \o Only(x.prev # 0, Dma("idx.next", x.prev, x.at, "link", "skip"))

make_rule_hdl == CHOOSE h \in DOMAIN ids : ids[h] = 0 /\ \A k \in 1 .. h - 1 : ids[k] # 0

AddWrites(f, r, x) ==
  Only(x.at >= table_entries, Cpu("meta", x.at, x.prev))
  \o copy_rule_to_hw(f, r, x) \o copy_index_rule_to_hw(r, x)
  \o Dma("on", r.at, TRUE, "enable", "abort")
  \o Cpu("ids", make_rule_hdl, r.at)

\* ipa_nati_find_rule_pos, ipa_nati_find_index_rule_pos.
Pos(e, next) ==
  IF e < table_entries THEN IF next = 0 THEN "only" ELSE "head"
  ELSE IF next = 0 THEN "last" ELSE "middle"
rule_pos(e) == Pos(e, nat[e].next)
index_rule_pos(x) == Pos(x, idx[x].next)

\* The requests to the hardware: those for the index table first (ReorderCmds), together.
\* The head of an index chain takes over what its successor has.
DelDma(e) ==
  LET x == nat[e].ix
      n == idx[x].next
      index == CASE index_rule_pos(x) = "only" -> Dma("idx.entry", x, 0, "delete", "abort")
                 [] index_rule_pos(x) = "head" -> Dma("idx.entry", x, idx[n].entry, "delete", "abort")
                                                  \o Dma("idx.next", x, idx[n].next, "none", "on")
                 [] OTHER -> Dma("idx.next", meta[x], n, "delete", "abort")
      rule == CASE rule_pos(e) = "only" -> Dma("on", e, FALSE, "none", "on")
                [] rule_pos(e) = "head" -> Dma("flow", e, Dead, "none", "on")
                [] OTHER -> Dma("next", nat[e].prev, nat[e].next, "none", "on")
  IN  index \o rule

DelCpuForgetful(e) ==
  LET x == nat[e].ix
      n == idx[x].next
  IN  Only(rule_pos(e) = "middle", Cpu("prev", nat[e].next, nat[e].prev))
      \o Only(rule_pos(e) # "head", Cpu("nat", e, Zero))
      \o (IF index_rule_pos(x) = "head" THEN Cpu("idx", n, ZeroIdx) \o Cpu("ix", idx[n].entry, x)
          ELSE Cpu("idx", x, ZeroIdx))

\* What the processor then does to the entries.
DelCpu(e) ==
  LET x == nat[e].ix
      n == idx[x].next
      nn == idx[n].next
      rule == Only(rule_pos(e) = "middle", Cpu("prev", nat[e].next, nat[e].prev))
              \o Only(rule_pos(e) # "head", Cpu("nat", e, Zero))
      index == IF index_rule_pos(x) = "head"
               THEN Only(nn # 0, Cpu("meta", nn, x)) \o Cpu("idx", n, ZeroIdx)
                    \o Cpu("ix", idx[n].entry, x)
               ELSE Only(index_rule_pos(x) = "middle", Cpu("meta", n, meta[x]) \o Cpu("meta", x, 0))
                    \o Cpu("idx", x, ZeroIdx)
  IN  rule \o index

post_del_dma_cmdLate(e) == DelCpu(e) \o DelDma(e)
post_del_dma_cmd(e) == DelDma(e) \o DelCpu(e)

\* Deleted heads whose chain has gone.
del_dead_ipv4_head_nodes ==
  [e \in All |-> IF e \in Base /\ nat[e].flow = Dead /\ nat[e].next = 0 THEN Zero ELSE nat[e]]

\* One write.
Do(w) ==
  /\ nat' = CASE w.m = "nat"  -> [nat EXCEPT ![w.at] = w.v]
              [] w.m = "on"   -> [nat EXCEPT ![w.at].on = w.v]
              [] w.m = "flow" -> [nat EXCEPT ![w.at].flow = w.v]
              [] w.m = "next" -> [nat EXCEPT ![w.at].next = w.v]
              [] w.m = "prev" -> [nat EXCEPT ![w.at].prev = w.v]
              [] w.m = "ix"   -> [nat EXCEPT ![w.at].ix = w.v]
              [] w.m = "sweep" -> del_dead_ipv4_head_nodes
              [] w.m = "reset" -> [e \in All |-> Zero]
              [] OTHER -> nat
  /\ idx' = CASE w.m = "idx" -> [idx EXCEPT ![w.at] = w.v]
              [] w.m = "idx.entry" -> [idx EXCEPT ![w.at].entry = w.v]
              [] w.m = "idx.next"  -> [idx EXCEPT ![w.at].next = w.v]
              [] w.m = "reset" -> [e \in All |-> ZeroIdx]
              [] OTHER -> idx
  /\ meta' = CASE w.m = "meta" -> [meta EXCEPT ![w.at] = w.v]
               [] w.m \in {"alloc", "forget"} -> [e \in Expansion |-> 0]
               [] OTHER -> meta
  /\ ids' = CASE w.m = "ids" -> [ids EXCEPT ![w.at] = w.v]
              [] w.m \in {"alloc", "forget"} -> [h \in All \ {0} |-> 0]
              [] OTHER -> ids
  /\ tbl' = CASE w.m = "tbl" -> [tbl EXCEPT ![w.at] = w.v]
              [] w.m = "alloc" -> [tbl EXCEPT !.ids = TRUE]
              [] w.m = "forget" -> NoTable
              [] OTHER -> tbl
  /\ lock' = CASE w.m = "lock" -> w.at [] OTHER -> lock

-----------------------------------------------------------------------------
(* The calls.                                                               *)

Call(kind, f, h, writes) ==
  /\ op = NoCall
  /\ op' = [kind |-> kind, flow |-> f, hdl |-> h, ok |-> TRUE]
  /\ todo' = writes
  /\ UNCHANGED <<scene, memory, tbl, lock, held, up>>

\* A rule the tables have no room for changes nothing.
AddRule(f) ==
  LET r == generate_tbl_rule(f)
      x == generate_index_rule(f)
  IN  /\ up /\ f \in Scenes[scene].flows /\ held[f] = 0
      /\ r.at # 0 /\ x.at # 0
      /\ Call("add", f, make_rule_hdl, AddWrites(f, r, x))
      /\ UNCHANGED q

\* ipa_nati_parse_ipv4_rule_hdl: the entry, or 0.
parse_rule_hdl(h) ==
  IF ~tbl.valid \/ h >= table_entries + expn_table_entries THEN 0 ELSE ids[h]

DelRule(f) ==
  LET e == parse_rule_hdl(held[f]) IN
  /\ up /\ held[f] # 0
  /\ e # 0 /\ nat[e].on
  /\ Call("del", f, held[f], post_del_dma_cmd(e) \o Cpu("sweep", 0, 0) \o Cpu("ids", held[f], 0))
  /\ q' = [q EXCEPT !.stale = @ \/ q.flow = f]

\* valid is set before there is a table; a failed attempt leaves it so.  What the memory
\* holds when it is mapped is what it held before.
add_ipv4_tbl ==
  /\ ~up
  /\ Call("open", Nothing, 0,
          Cpu("tbl", "valid", TRUE)
          \o Only(~tbl.ids, Cpu("alloc", 0, 0))
          \o Dma("tbl", "mapped", TRUE, "open", "abort")
          \o Cpu("reset", 0, 0)
          \o Dma("tbl", "hw", TRUE, "open", "abort"))
  /\ UNCHANGED q

del_ipv4_tableUnlocked ==
  /\ up /\ tbl.valid /\ Scenes[scene].asked
  /\ Call("close", Nothing, 0,
          Cpu("tbl", "mapped", FALSE) \o Cpu("tbl", "hw", FALSE) \o Cpu("forget", 0, 0))
  /\ UNCHANGED q

\* The table of the hardware goes while the mutex is held.
del_ipv4_table ==
  /\ up /\ tbl.valid /\ Scenes[scene].asked
  /\ Call("close", Nothing, 0,
          Cpu("lock", "owner", 0) \o Cpu("tbl", "mapped", FALSE) \o Cpu("tbl", "hw", FALSE)
          \o Cpu("forget", 0, 0) \o Cpu("lock", "free", 0))
  /\ q' = [q EXCEPT !.stale = TRUE]

Write ==
  /\ todo # <<>>
  /\ Head(todo).m = "lock" /\ Head(todo).at = "owner" => lock = "free"
  /\ Do(Head(todo))
  /\ todo' = Tail(todo)
  /\ UNCHANGED <<scene, op, held, up, q>>

Fail ==
  /\ todo # <<>> /\ Head(todo).fault \in Faults
  /\ todo' = IF Head(todo).then = "abort" THEN <<>> ELSE Tail(todo)
  /\ op' = [op EXCEPT !.ok = Head(todo).then # "abort"]
  /\ UNCHANGED <<scene, memory, tbl, lock, held, up, q>>

\* The caller keeps the handle of a rule it could not delete.
Return ==
  /\ op # NoCall /\ todo = <<>>
  /\ op' = NoCall
  /\ held' = CASE op.kind = "add" /\ op.ok -> [held EXCEPT ![op.flow] = op.hdl]
               [] op.kind = "del" /\ op.ok -> [held EXCEPT ![op.flow] = 0]
               [] op.kind = "close" -> [f \in Flows |-> 0]
               [] OTHER -> held
  /\ up' = CASE op.kind = "open" -> op.ok [] op.kind = "close" -> FALSE [] OTHER -> up
  /\ UNCHANGED <<scene, memory, tbl, lock, todo, q>>

-----------------------------------------------------------------------------
(* The time stamp thread, with a handle of its choice.  Only                *)
(* ipa_nati_del_ipv4_table and this thread take the mutex.                  *)

Query(next) == /\ q' = next /\ UNCHANGED <<scene, memory, tbl, op, todo, held, up>>

Ask(f) ==
  /\ Scenes[scene].asked /\ q.pc = "idle" /\ held[f] # 0
  /\ Query([NoQuery EXCEPT !.pc = "valid", !.flow = f, !.hdl = held[f],
                           !.stale = op.kind = "close" \/ (op.kind = "del" /\ op.flow = f)])
  /\ UNCHANGED lock

QueryValid ==
  /\ q.pc = "valid"
  /\ Query(IF tbl.valid THEN [q EXCEPT !.pc = "lock"] ELSE NoQuery)
  /\ UNCHANGED lock

QueryLock ==
  /\ q.pc = "lock" /\ lock = "free"
  /\ lock' = "asker"
  /\ Query([q EXCEPT !.pc = "parse"])

\* A table that is valid and has no rule_id_array yet.
QueryParse ==
  /\ q.pc = "parse"
  /\ Query(IF tbl.valid /\ ~tbl.ids THEN [q EXCEPT !.pc = "wild"]
           ELSE [q EXCEPT !.at = parse_rule_hdl(q.hdl), !.pc = "read"])
  /\ UNCHANGED lock

\* No table at all: nothing is read, and the caller is told it was.
QueryRead ==
  /\ q.pc = "read"
  /\ Query([q EXCEPT !.pc = IF tbl.valid /\ ~tbl.mapped THEN "wild" ELSE "done",
                     !.got = IF tbl.mapped THEN nat[q.at].flow ELSE Nothing])
  /\ lock' = "free"

QueryDone ==
  /\ q.pc \in {"done", "wild"}
  /\ Query(NoQuery)
  /\ UNCHANGED lock

-----------------------------------------------------------------------------
Caller == add_ipv4_tbl \/ del_ipv4_table \/ \E f \in Flows : AddRule(f) \/ DelRule(f)
Asker == QueryValid \/ QueryLock \/ QueryParse \/ QueryRead \/ QueryDone \/ \E f \in Flows : Ask(f)

Next == Caller \/ Write \/ Fail \/ Return \/ Asker
Spec == Init /\ [][Next]_vars

-----------------------------------------------------------------------------
(* Properties.                                                              *)

Rest == op = NoCall /\ up

\* The hardware follows a chain to the rule that matches and is enabled.
Inbound(f) == tbl.hw /\ \E e \in Chain(nat, Dst(f)) : nat[e].on /\ nat[e].flow = f
Outbound(f) == tbl.hw /\ \E x \in Chain(idx, Src(f)) : nat[idx[x].entry].on /\ nat[idx[x].entry].flow = f

Contract == INSTANCE NatContract WITH
  inbound <- {f \in Scenes[scene].flows : Inbound(f)},
  outbound <- {f \in Scenes[scene].flows : Outbound(f)},
  known <- {f \in Flows : held[f] # 0},
  call <- IF op = NoCall THEN [kind |-> "none", flow |-> "none"]
          ELSE [kind |-> op.kind, flow |-> op.flow]

\* At each single write of a call the hardware finds all other connections, in both
\* directions; the call's own is found when it has been added, and not when deleted.
ImplementsContract == Contract!Spec

\* Between calls the lists are sound: a rule in use is on the chain of its hash and its
\* predecessor is the one it names; its index entry names it, and is on the chain of its
\* own hash; each handle leads to the rule of its connection.
ListsSound ==
  Rest => /\ \A f \in Flows : held[f] # 0 =>
               LET e == ids[held[f]] IN
               /\ nat[e].flow = f /\ nat[e].on
               /\ e \in Chain(nat, Dst(f))
               /\ nat[e].ix \in Chain(idx, Src(f)) /\ idx[nat[e].ix].entry = e
          /\ \A e \in Expansion : nat[e].on => nat[nat[e].prev].next = e
          /\ \A x \in Expansion : idx[x].entry # 0 => idx[meta[x]].next = x

\* Nothing is used up: the tables are empty when no rule is left.
EmptyAgain ==
  Rest /\ (\A f \in Flows : held[f] = 0)
    => /\ \A e \in All : nat[e] = Zero /\ idx[e] = ZeroIdx
       /\ \A h \in DOMAIN ids : ids[h] = 0

\* The time stamp thread reads no table that has gone, and reads the time stamp of the
\* connection it asked about, unless that was deleted in the meantime.
QuerySafe ==
  /\ q.pc = "wild" => q.stale
  /\ q.pc = "done" => q.got = q.flow \/ q.stale

\* Between calls the lists are sound, and empty once no rule is left.
TablesSound == ListsSound /\ EmptyAgain
=============================================================================
