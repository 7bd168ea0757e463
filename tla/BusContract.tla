---------------------------- MODULE BusContract -----------------------------
(* What the event bus of IPACM promises to those who post and to those who  *)
(* listen: an event is taken only when the one before it has been delivered *)
(* to all, oldest first, those of IPACM itself before those from outside;   *)
(* it is delivered once to each object that is registered for it when its   *)
(* turn comes, in the order of registration.                                *)
EXTENDS Sequences, SequencesExt

VARIABLES internal, external,  \* events posted
          table,               \* registrations: [n, ev, obj, ...], n the place in the order
          now,                 \* the event under delivery, or <<>>
          due                  \* the set of registrations it has still to be delivered to

vars == <<internal, external, table, now, due>>

For(e, list) == {t \in list : t.ev = e.ev}

Init ==
  /\ internal = <<>> /\ external = <<>>
  /\ now = <<>> /\ due = {}

\* Only additions at the end: one queue may not overtake, lose or repeat.
Grow(q, r) == IsPrefix(q, r)

Post ==
  /\ Grow(internal, internal') /\ Grow(external, external')
  /\ UNCHANGED <<table, now, due>>

Take ==
  /\ now = <<>>
  /\ \/ /\ internal # <<>>
        /\ now' = <<Head(internal)>>
        /\ internal' = Tail(internal) /\ UNCHANGED external
     \/ /\ internal = <<>> /\ external # <<>>
        /\ now' = <<Head(external)>>
        /\ external' = Tail(external) /\ UNCHANGED internal
  /\ due' = For(now'[1], table)
  /\ UNCHANGED table

\* New registrations come behind those there are, and no two have one place.
Ordered(old, new) ==
  /\ \A a \in new \ old, b \in new \cap old : b.n < a.n
  /\ \A a, b \in new : a.n = b.n => a = b

\* To the oldest registration of those due.  Its handler may post, and register and
\* remove objects.
Deliver ==
  /\ \E t \in due :
       /\ \A u \in due : t.n <= u.n
       /\ due' = ((due \ {t}) \cap table') \cup For(now[1], table' \ table)
  /\ Ordered(table, table')
  /\ Grow(internal, internal') /\ Grow(external, external')
  /\ UNCHANGED now

Finish ==
  /\ now # <<>> /\ due = {}
  /\ now' = <<>>
  /\ UNCHANGED <<internal, external, table, due>>

Next == Post \/ Take \/ Deliver \/ Finish

Spec == Init /\ [][Next]_vars
=============================================================================
