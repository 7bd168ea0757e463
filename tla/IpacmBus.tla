------------------------------ MODULE IpacmBus ------------------------------
(* The threads of IPACM around its event queue.  Three threads read the     *)
(* kernel (netlink socket, /dev/ipa, inotify) and post events; the command  *)
(* queue thread takes them and walks the list of registrations; a signal    *)
(* may interrupt any of them to post as well.  The kernel, the file and the *)
(* links change at any time, so a message is decoded, and an event handled, *)
(* in a world that may have moved on.                                       *)
EXTENDS IpacmNetlink, IpacmInstances, SequencesExt

CONSTANTS Ifaces, Nobody,
          Kinds,       \* what each interface is: "modem", "usb", "eth", "odu" or "wlan"
          Scenes,      \* names of the scenes
          Cast,        \* the interfaces of each scene
          Plays,       \* what may happen in each scene
          MaxPlays     \* bound: happenings, for each scene

Readers == {"netlink", "driver", "monitor"}
Threads == Readers \cup {"worker"}

VARIABLES
  net,      \* the kernel: per interface there, x (index), up, runs, addr, def, mode
  file,     \* categories in the configuration file
  inbox,    \* per reader: kernel messages not yet read
  outbox,   \* per reader: events it is about to post
  lock,     \* owner of the queue's mutex
  signal,   \* the thread a signal handler has interrupted
  queue,    \* the two queues: int, ext
  worker,   \* pc, the event and the entries that want it from where the walk is on
  mgr,      \* cat, known, objs, table, insts, ap, made, stray (see IpacmInstances)
  seen      \* scene, count of happenings, their kinds, and what went the odd way

vars == <<net, file, inbox, outbox, lock, signal, queue, worker, mgr, seen>>
bus == <<lock, signal, queue, worker, mgr>>
world == <<net, file, inbox>>

Wired == {"usb", "eth", "odu"}
Category(i) ==
  CASE Kinds[i] = "modem" -> "wan" [] Kinds[i] = "usb" -> "lan"
    [] Kinds[i] = "wlan" -> "unknown" [] OTHER -> Kinds[i]

Init ==
  /\ net = [i \in Ifaces |-> [there |-> TRUE, x |-> 1, up |-> Kinds[i] \in Wired,
                              runs |-> Kinds[i] = "modem", addr |-> FALSE, def |-> "none", mode |-> "off", xlat |-> FALSE]]
  /\ file = [i \in Ifaces |-> Category(i)]
  /\ inbox = [t \in Readers |-> <<>>]
  /\ outbox = [t \in Readers |-> <<>>]
  /\ lock = Nobody /\ signal = Nobody
  /\ queue = [int |-> <<>>, ext |-> <<>>]
  /\ worker = [pc |-> "look", evt |-> <<>>, rest |-> {}]
  /\ mgr = [cat |-> [i \in Ifaces |-> Category(i)], known |-> [i \in Ifaces |-> 0],
            objs |-> <<>>, table |-> ManagerEntries, insts |-> {}, ap |-> 0, made |-> 0,
            stray |-> {}]
  /\ \E s \in Scenes : seen = [scene |-> s, n |-> 0, what |-> {}, odd |-> {}]

-----------------------------------------------------------------------------
(* The world.                                                               *)

\* It is time for one of the happenings of the scene.
May(what) ==
  /\ what \in Plays[seen.scene] /\ seen.n < MaxPlays[seen.scene]
  /\ seen' = [seen EXCEPT !.n = @ + 1, !.what = @ \cup {what}]
On(i, kinds) == i \in Cast[seen.scene] /\ Kinds[i] \in kinds

Ref(i) == [i |-> i, x |-> net[i].x]
Send(t, msgs) == inbox' = [inbox EXCEPT ![t] = @ \o msgs]
Link(i, change, n) ==
  Ref(i) @@ [type |-> "NEWLINK", change |-> change, up |-> n.up,
             lower |-> n.up /\ n.runs, runs |-> n.up /\ n.runs]
\* An interface is set up or down.  One that has a carrier may still be dormant when it is
\* set up: the kernel tells of it again when it runs.
Turned(i, n) ==
  {<<Link(i, TRUE, n)>>} \cup
  (IF n.up /\ n.runs THEN {<<[Link(i, TRUE, n) EXCEPT !.runs = FALSE], Link(i, FALSE, n)>>} ELSE {})

SetUp(i) ==
  /\ May("up") /\ On(i, {"modem"} \cup Wired) /\ net[i].there
  /\ LET n == [net[i] EXCEPT !.up = ~@, !.def = "none", !.xlat = FALSE]
     IN net' = [net EXCEPT ![i] = n] /\ \E msgs \in Turned(i, n) : Send("netlink", msgs)
  /\ UNCHANGED <<file, outbox, bus>>

\* A cable: the kernel's carrier, and for USB the driver's own message.
Cable(i) ==
  /\ May("cable") /\ On(i, Wired) /\ net[i].there /\ net[i].up
  /\ LET n == [net[i] EXCEPT !.runs = ~@]
     IN /\ net' = [net EXCEPT ![i] = n]
        /\ inbox' = [inbox EXCEPT
             !["netlink"] = Append(@, Link(i, FALSE, n)),
             !["driver"] = IF Kinds[i] = "usb"
                           THEN Append(@, Ref(i) @@
                                  [type |-> IF n.runs THEN "ECM_CONNECT" ELSE "ECM_DISCONNECT"])
                           ELSE @]
  /\ UNCHANGED <<file, outbox, bus>>

\* The interface is unregistered, or registered anew under the next index.
Unregister(i) ==
  /\ May("unregister") /\ On(i, {"usb"}) /\ net[i].there
  /\ LET n == [net[i] EXCEPT !.there = FALSE, !.up = FALSE, !.runs = FALSE, !.addr = FALSE]
     IN /\ net' = [net EXCEPT ![i] = n]
        /\ Send("netlink", (IF net[i].up THEN <<Link(i, TRUE, n)>> ELSE <<>>)
                           \o <<Ref(i) @@ [type |-> "DELLINK"]>>)
  /\ UNCHANGED <<file, outbox, bus>>

Register(i) ==
  /\ May("register") /\ On(i, {"usb"}) /\ ~net[i].there
  /\ LET n == [net[i] EXCEPT !.there = TRUE, !.x = @ + 1, !.up = TRUE, !.runs = TRUE]
     IN /\ net' = [net EXCEPT ![i] = n]
        /\ \E msgs \in Turned(i, n) : Send("netlink", [k \in DOMAIN msgs |-> [msgs[k] EXCEPT !.x = n.x]])
  /\ UNCHANGED <<file, outbox, bus>>

Address(i) ==
  /\ May("address") /\ i \in Cast[seen.scene] /\ net[i].there /\ ~net[i].addr
  /\ net' = [net EXCEPT ![i].addr = TRUE, ![i].up = @ \/ Kinds[i] = "wlan"]
  /\ Send("netlink", <<Ref(i) @@ [type |-> "NEWADDR"]>>)
  /\ UNCHANGED <<file, outbox, bus>>

\* The default route of a modem interface, by whoever made it.
Route(i, fam, proto) ==
  /\ May("route") /\ On(i, {"modem"}) /\ net[i].up
  /\ proto = "kernel" => fam = "v6"
  /\ net[i].def \in {"none", proto}
  /\ net' = [net EXCEPT ![i].def = IF @ = "none" THEN proto ELSE "none"]
  /\ Send("netlink", <<Ref(i) @@ [type |-> IF net[i].def = "none" THEN "NEWROUTE" ELSE "DELROUTE",
                                  fam |-> fam, proto |-> proto, dst |-> FALSE, gw |-> TRUE]>>)
  /\ UNCHANGED <<file, outbox, bus>>

Wifi(i, mode) ==
  /\ May("wifi") /\ On(i, {"wlan"}) /\ (net[i].mode = "off" <=> mode # "off")
  /\ net' = [net EXCEPT ![i].mode = mode]
  /\ Send("driver", <<Ref(i) @@ [type |->
       CASE mode = "ap" -> "WLAN_AP_CONNECT" [] mode = "sta" -> "WLAN_STA_CONNECT"
         [] net[i].mode = "ap" -> "WLAN_AP_DISCONNECT" [] OTHER -> "WLAN_STA_DISCONNECT"]>>)
  /\ UNCHANGED <<file, outbox, bus>>

Modem(i, type) ==
  /\ May(type) /\ On(i, {"modem"}) /\ net[i].up
  /\ net' = [net EXCEPT ![i].xlat = @ \/ type = "WAN_XLAT_CONNECT"]
  /\ Send("driver", <<Ref(i) @@ [type |-> type]>>)
  /\ UNCHANGED <<file, outbox, bus>>

\* The configuration file is written: USB changes between LAN and WAN (cradle), or
\* nothing that matters here.
Edit(i) ==
  /\ May("edit") /\ i \in Cast[seen.scene]
  /\ file' = [file EXCEPT ![i] = IF Kinds[i] # "usb" THEN @ ELSE IF @ = "lan" THEN "wan" ELSE "lan"]
  /\ Send("monitor", <<Ref(i)>>)
  /\ UNCHANGED <<net, outbox, bus>>

\* SIGUSR1 or SIGUSR2 on one of the threads.
Raise(t) ==
  /\ May("signal") /\ signal = Nobody
  /\ signal' = t
  /\ UNCHANGED <<world, outbox, lock, queue, worker, mgr>>

-----------------------------------------------------------------------------
(* Posting.  A thread in a signal handler goes on only when that returns.   *)

Runs(t) == signal # t
Odd(what) == [seen EXCEPT !.odd = @ \cup {what}]

\* The device that has gone has no name any more.
Nameless(t, m) ==
  t = "netlink" /\ m.type \in {"NEWLINK", "DELLINK"} /\ ~(net[m.i].there /\ net[m.i].x = m.x)
\* A connection is announced that is no more, or before the news that the last one went.
Late(e) ==
  \/ e.ev \in {"LINK_UP", "USB_LINK_UP", "WAN_EMBMS_LINK_UP"} /\ ~(net[e.i].up /\ net[e.i].runs)
  \/ e.ev = "WAN_XLAT_CONNECT" /\ ~net[e.i].xlat
  \/ e.ev \in {"LINK_UP", "WAN_XLAT_CONNECT"}
     /\ \/ \E m \in ToSet(inbox["netlink"]) : m.type = "NEWLINK" /\ ~m.up
        \/ \E o \in ToSet(outbox["netlink"]) : o.ev = "LINK_DOWN"

\* One round of netlink_start, ipa_driver_msg_notifier or firewall_monitor.
Read(t) ==
  /\ Runs(t) /\ outbox[t] = <<>> /\ inbox[t] # <<>>
  /\ LET m == Head(inbox[t])
     IN outbox' = [outbox EXCEPT ![t] =
          CASE t = "netlink" -> Decode(m, net[m.i].there /\ net[m.i].x = m.x)
            [] t = "driver" -> Notifier(m)
            [] OTHER -> MonitorEvents(m)]
        /\ seen' = IF Nameless(t, m) THEN Odd("nameless")
                   ELSE IF t = "netlink" /\ m.type = "DELROUTE" /\ FromKernel(m) THEN Odd("unheard")
                   ELSE seen
  /\ inbox' = [inbox EXCEPT ![t] = Tail(@)]
  /\ UNCHANGED <<net, file, bus>>

PostEvt_lock(t) ==
  /\ Runs(t) /\ outbox[t] # <<>> /\ lock = Nobody
  /\ lock' = t
  /\ UNCHANGED <<world, outbox, signal, queue, worker, mgr, seen>>

\* Mutants: the worker is not woken; an event overtakes those before it.
EnqueueSilent(e) ==
  /\ queue' = IF e.ev \in Internal THEN [queue EXCEPT !.int = Append(@, e)]
              ELSE [queue EXCEPT !.ext = Append(@, e)]
  /\ UNCHANGED worker
EnqueueFirst(e) ==
  /\ queue' = IF e.ev \in Internal THEN [queue EXCEPT !.int = <<e>> \o @]
              ELSE [queue EXCEPT !.ext = <<e>> \o @]
  /\ worker' = [worker EXCEPT !.pc = IF @ = "wait" THEN "woken" ELSE @]

\* Under the mutex: enqueue by kind of event, and wake the worker.
Enqueue(e) ==
  /\ queue' = IF e.ev \in Internal THEN [queue EXCEPT !.int = Append(@, e)]
              ELSE [queue EXCEPT !.ext = Append(@, e)]
  /\ worker' = [worker EXCEPT !.pc = IF @ = "wait" THEN "woken" ELSE @]

PostEvt_enqueue(t) ==
  /\ Runs(t) /\ lock = t
  /\ Enqueue(Head(outbox[t]))
  /\ outbox' = [outbox EXCEPT ![t] = Tail(@)]
  /\ lock' = Nobody
  /\ seen' = IF t = "driver" /\ Late(Head(outbox[t])) THEN Odd("late") ELSE seen
  /\ UNCHANGED <<world, signal, mgr>>

\* IPACM_Sig_Handler posts from the thread it has interrupted.
SigHandler ==
  /\ signal # Nobody /\ lock = Nobody
  /\ Enqueue([ev |-> "SW_ROUTING_ENABLE", i |-> CHOOSE i \in Ifaces : TRUE, x |-> 0])
  /\ signal' = Nobody
  /\ UNCHANGED <<world, outbox, lock, mgr, seen>>

-----------------------------------------------------------------------------
(* MessageQueue::Process and IPACM_EvtDispatcher::ProcessEvt.               *)

Process_lock ==
  /\ Runs("worker") /\ worker.pc \in {"look", "woken"} /\ lock = Nobody
  /\ lock' = "worker"
  /\ worker' = [worker EXCEPT !.pc = "peek"]
  /\ UNCHANGED <<world, outbox, signal, queue, mgr, seen>>

Wants(e, t) == t.ev = e.ev
Begin(e) == [pc |-> "walk", evt |-> <<e>>, rest |-> {t \in mgr.table : Wants(e, t)}]

\* Internal events go first; with none at all the thread waits.
Process_take ==
  /\ Runs("worker") /\ worker.pc = "peek"
  /\ \/ /\ queue.int # <<>>
        /\ worker' = Begin(Head(queue.int))
        /\ queue' = [queue EXCEPT !.int = Tail(@)]
     \/ /\ queue.int = <<>> /\ queue.ext # <<>>
        /\ worker' = Begin(Head(queue.ext))
        /\ queue' = [queue EXCEPT !.ext = Tail(@)]
     \/ /\ queue.int = <<>> /\ queue.ext = <<>>
        /\ worker' = [worker EXCEPT !.pc = "wait"]
        /\ UNCHANGED queue
  /\ lock' = Nobody
  /\ UNCHANGED <<world, outbox, signal, mgr, seen>>

First(list) == CHOOSE t \in list : \A u \in list : t.n <= u.n

\* The list behind an entry, as it was before the call of that entry's object; what of it
\* the call has freed before the first entry that is still in place; and what the walk
\* has before it from there on.
Ahead(t) == {u \in mgr.table : u.n > t.n}
Freed(ahead, table) == {u \in ahead : \A s \in ahead \cap table : u.n < s.n}
Onwards(ahead, table, e) ==
  {u \in table : Wants(e, u) /\ \E s \in ahead \cap table : s.n <= u.n}

State == [cat |-> mgr.cat, known |-> mgr.known, objs |-> mgr.objs, table |-> mgr.table,
          insts |-> mgr.insts, ap |-> mgr.ap, made |-> mgr.made, stray |-> mgr.stray,
          int |-> queue.int, ext |-> queue.ext, net |-> net, file |-> file]

\* One entry that wants the event.  It was copied, so the walk goes on to the successor it
\* had before the call; an entry freed meanwhile is read all the same, and its memory
\* still leads on.  From the first entry in place the list is read as it is then.
ProcessEvt ==
  /\ Runs("worker") /\ worker.pc = "walk" /\ lock = Nobody
  /\ \/ /\ worker.rest = {}
        /\ worker' = [pc |-> "look", evt |-> <<>>, rest |-> {}]
        /\ UNCHANGED <<mgr, queue, seen>>
     \/ \E t \in worker.rest, e \in {worker.evt[1]} :
          /\ t = First(worker.rest)
          /\ \E v \in {Callback(State, t, e)} :
               /\ mgr' = [cat |-> v.cat, known |-> v.known, objs |-> v.objs, table |-> v.table,
                          insts |-> v.insts, ap |-> v.ap, made |-> v.made,
                          stray |-> v.stray \cup
                             {Stray("list", u.kind, e) : u \in Freed(Ahead(t), v.table)}]
               /\ queue' = [int |-> v.int, ext |-> v.ext]
               /\ worker' = [worker EXCEPT !.rest = Onwards(Ahead(t), v.table, e)]
               /\ seen' = IF \E k \in DOMAIN v.ext \ DOMAIN queue.ext : Late(v.ext[k])
                          THEN Odd("relinked") ELSE seen
  /\ UNCHANGED <<world, outbox, lock, signal>>

Happening ==
  \/ \E i \in Ifaces :
       \/ SetUp(i) \/ Cable(i) \/ Unregister(i) \/ Register(i) \/ Address(i) \/ Edit(i)
       \/ \E fam \in {"v4", "v6"}, proto \in {"ra", "kernel"} : Route(i, fam, proto)
       \/ \E mode \in {"off", "ap", "sta"} : Wifi(i, mode)
       \/ \E type \in {"WAN_XLAT_CONNECT", "WAN_EMBMS_CONNECT"} : Modem(i, type)
  \/ \E t \in Threads : Raise(t)

Reading(t) == Read(t) \/ PostEvt_lock(t) \/ PostEvt_enqueue(t)
Working == Process_lock \/ Process_take \/ ProcessEvt

Next == Happening \/ Working \/ SigHandler \/ \E t \in Readers : Reading(t)

Spec == Init /\ [][Next]_vars
\* Threads run.  The mutex is not handed out fairly, and need not be.
FairSpec == Spec /\ WF_vars(Working) /\ WF_vars(SigHandler)
                 /\ \A t \in Readers : WF_vars(Reading(t))

-----------------------------------------------------------------------------
(* Properties.                                                              *)

Contract == INSTANCE BusContract WITH
              internal <- queue.int, external <- queue.ext, table <- mgr.table,
              now <- worker.evt, due <- worker.rest

\* The thread that would have to give the mutex back sits in a signal handler waiting
\* for it.
SelfDeadlock == signal # Nobody /\ lock = signal

Idle == /\ \A t \in Readers : inbox[t] = <<>> /\ outbox[t] = <<>>
        /\ queue.int = <<>> /\ queue.ext = <<>> /\ worker.pc = "wait" /\ signal = Nobody

Unless(odd) == seen.odd \cap odd # {}
GaveUp == \E s \in mgr.stray : s.what = "object"

\* The event queue and the walk over the registrations do what BusContract says,
\* while handlers post, register objects and delete their own.
ImplementsContract == Contract!Spec

\* No listener is called, and no registration read, after it was freed.  Three times
\* the code does not keep this: a station uplink deletes itself at WLAN_LINK_DOWN, an
\* ECM uplink at CFG_CHANGE, with registrations of their own behind the one in hand;
\* and the third access point deletes itself before it is registered.
NoFreed ==
  \/ GaveUp
  \/ mgr.stray \subseteq {Stray("list", "sta", [ev |-> "WLAN_LINK_DOWN"]),
                          Stray("list", "ecm", [ev |-> "CFG_CHANGE"])}

\* An interface never has two objects, and the manager's list, the dispatcher's list
\* and the heap agree on which objects there are.
OneInstance ==
  \/ GaveUp
  \/ /\ \A r, s \in mgr.insts : r.i = s.i => r = s
     /\ {r.obj : r \in mgr.insts} = DOMAIN mgr.objs
     /\ {t.obj : t \in mgr.table} = DOMAIN mgr.objs \cup {Manager}

\* What the interface needs now.
Wanted(i) ==
  CASE Kinds[i] = "modem" -> IF net[i].up THEN {"q6", "embms"} ELSE {}
    [] Kinds[i] \in Wired ->
         IF ~(net[i].up /\ net[i].runs) THEN {}
         ELSE IF Kinds[i] # "usb" THEN {Kinds[i]}
         ELSE IF file[i] = "lan" THEN {"lan"} ELSE {"ecm"}
    [] OTHER -> CASE net[i].mode = "ap" -> {"wlan"} [] net[i].mode = "sta" -> {"sta"} [] OTHER -> {}
Got(i) == {mgr.objs[o].kind : o \in {o \in DOMAIN mgr.objs : mgr.objs[o].i = i}}

\* When all is quiet there is an object for every interface that is up, of the kind the
\* link and the configuration file ask for, and none for one that is down, however
\* links, cables and files changed while events were under way.  Exceptions: nameless
\* (the device went before the message was decoded), late (the driver's news came after
\* the kernel's), relinked (the object that changed its kind asked for a link that had
\* gone), and the access point that gave up.
Settled ==
  Idle =>
    \/ Unless({"nameless", "late", "relinked"}) \/ GaveUp
    \/ \A i \in Cast[seen.scene] :
         (Got(i) = {}) = (Wanted(i) = {}) /\ Got(i) \subseteq Wanted(i)

\* When all is quiet, every object knows the address, the default route and the XLAT
\* connection its interface has, also those that came before the object did.
\* Exceptions: nameless, late, and unheard (the default route was made by the kernel,
\* whose deletion is not posted).
Informed ==
  Idle =>
    \/ Unless({"nameless", "late", "unheard"})
    \/ \A o \in DOMAIN mgr.objs :
         LET obj == mgr.objs[o]
             n == net[obj.i]
         IN /\ obj.kind # "embms" => obj.addr = n.addr
            /\ obj.def = (n.def # "none") /\ obj.xlat = n.xlat

\* Every message read from the kernel is served in the end, unless a signal handler
\* has interrupted the thread that holds the mutex it needs.
EverServed == ~Idle ~> (Idle \/ SelfDeadlock)

\* However links, cables, messages and files changed while events were under
\* way, the objects are in the end those the links ask for, and informed.
ObjectsRight == OneInstance /\ Settled /\ Informed
=============================================================================
