-------------------------- MODULE LocTimer_proofs --------------------------
(***************************************************************************)
(* Proofs about LocTimer, for every number of clients and starts and every *)
(* time.                                                                   *)
(***************************************************************************)
EXTENDS LocTimer, TLAPS

MaybeDelegates == 0 .. MaxStarts
MaybeClients == Clients \cup {None}
MessageType == [what : {"push", "remove"}, d : Delegates] \cup [what : {"expire"}, d : {NULL}]
MsgType == [at : {"idle", "expire", "stop", "fire", "next", "add", "arm"},
            d : MaybeDelegates, client : MaybeClients, time : Nat]

TypeOK ==
    /\ now \in Nat
    /\ mTimer \in [Clients -> MaybeDelegates]
    /\ dead \subseteq Clients
    /\ starts \in MaybeDelegates
    /\ due \in [Delegates -> Nat]
    /\ mClient \in [Delegates -> MaybeClients]
    /\ owner \in [Delegates -> MaybeClients]
    /\ deleted \subseteq Delegates
    /\ heap \subseteq Delegates
    /\ top \in MaybeDelegates
    /\ msgs \in Seq(MessageType)
    /\ msg \in MsgType
    /\ armed \in Nat
    /\ polled \in BOOLEAN
    /\ poll \in {"wait", "disarm", "remove", "send"}
    /\ fired \in Seq(Delegates)

\* The root of the heap is in it.
TopInHeap == IF heap = {} THEN top = NULL ELSE top \in heap

\* A client and its delegate know each other.
Link(d) ==
    /\ \A c \in Clients : mTimer[c] = d <=> mClient[d] = c
    /\ mClient[d] # None => owner[d] = mClient[d]
    /\ d <= starts => owner[d] \in Clients
    /\ d > starts => mClient[d] = None

\* A delegate is pushed and removed by one message each, in this order.
InOrder(d) ==
    /\ \A i, j \in DOMAIN msgs :
          msgs[i] = Msg("push", d) /\ msgs[j] = Msg("push", d) => i = j
    /\ \A i, j \in DOMAIN msgs :
          msgs[i] = Msg("remove", d) /\ msgs[j] = Msg("remove", d) => i = j
    /\ \A i, j \in DOMAIN msgs :
          msgs[i] = Msg("push", d) /\ msgs[j] = Msg("remove", d) => i < j

Expiring(d) == msg.at \in {"expire", "stop", "fire"} /\ msg.d = d
Fired(d) == \E i \in DOMAIN fired : fired[i] = d

\* A delegate waits for its push, is in the heap, expires, has called back,
\* or none of these; it is deleted at most once, and neither while it expires
\* nor before it has been pushed.
Stage(d) ==
    /\ InQueue("push", d) =>
          d <= starts /\ d \notin heap /\ ~Expiring(d) /\ d \notin deleted /\ ~Fired(d)
    /\ d \in heap => d <= starts /\ ~Expiring(d) /\ d \notin deleted /\ ~Fired(d)
    /\ Expiring(d) => d <= starts /\ d \notin deleted /\ ~Fired(d)
    /\ InQueue("remove", d) => d <= starts /\ d \notin deleted /\ mClient[d] = None
    /\ d \in deleted => d <= starts /\ mClient[d] = None
    /\ Fired(d) => d <= starts /\ mClient[d] = None

\* The message thread expires a delegate on behalf of the client that started
\* it, and calls back once it has taken the delegate from it.
Expirer ==
    /\ msg.at \in {"expire", "stop", "fire"} => msg.d \in Delegates
    /\ msg.at \in {"stop", "fire"} => msg.client \in Clients /\ owner[msg.d] = msg.client
    /\ msg.at = "fire" => mClient[msg.d] = None

FiredOnce == \A i, j \in DOMAIN fired : fired[i] = fired[j] => i = j

IInv ==
    /\ TypeOK
    /\ TopInHeap
    /\ Expirer
    /\ FiredOnce
    /\ \A d \in Delegates : Link(d) /\ InOrder(d) /\ Stage(d)
-----------------------------------------------------------------------------
(* The queue of the message thread.                                        *)

LEMMA SmallTypes ==
    /\ NULL \in MaybeDelegates /\ Delegates \subseteq MaybeDelegates
    /\ None \in MaybeClients /\ Clients \subseteq MaybeClients /\ None \notin Clients
    /\ \A d \in Delegates : d # NULL
    /\ \A d \in MaybeDelegates : d # NULL => d \in Delegates
BY TimerAssumption DEF NULL, None, MaybeDelegates, MaybeClients, Delegates

LEMMA Messages ==
    /\ \A d \in Delegates, w \in {"push", "remove"} : Msg(w, d) \in MessageType
    /\ Msg("expire", NULL) \in MessageType
    /\ \A v, w, d, e : Msg(w, d) = Msg(v, e) <=> w = v /\ d = e
    /\ \A m \in MessageType : /\ m = Msg(m.what, m.d)
                              /\ m.what \in {"push", "remove"} => m.d \in Delegates
BY DEF Msg, MessageType

LEMMA AppendedMessage ==
    ASSUME NEW S, NEW s \in Seq(S), NEW m \in S
    PROVE  /\ Append(s, m) \in Seq(S)
           /\ DOMAIN Append(s, m) = DOMAIN s \cup {Len(s) + 1}
           /\ Len(s) + 1 \notin DOMAIN s
           /\ \A i \in DOMAIN s : i < Len(s) + 1 /\ Append(s, m)[i] = s[i]
           /\ Append(s, m)[Len(s) + 1] = m
OBVIOUS

LEMMA TakenMessage ==
    ASSUME NEW S, NEW s \in Seq(S), s # <<>>
    PROVE  /\ Tail(s) \in Seq(S) /\ Head(s) \in S
           /\ 1 \in DOMAIN s /\ Head(s) = s[1]
           /\ \A i \in DOMAIN s : ~(i < 1)
           /\ \A i \in DOMAIN Tail(s) : i + 1 \in DOMAIN s /\ i + 1 # 1 /\ Tail(s)[i] = s[i + 1]
           /\ \A i \in DOMAIN s : i # 1 => i - 1 \in DOMAIN Tail(s) /\ Tail(s)[i - 1] = s[i]
           /\ \A i, j \in DOMAIN Tail(s) : (i + 1 = j + 1 => i = j) /\ (i + 1 < j + 1 => i < j)
OBVIOUS

\* A message about another delegate is sent.
LEMMA SentOther ==
    ASSUME msgs \in Seq(MessageType), NEW d \in Delegates, InOrder(d),
           NEW m \in MessageType, m # Msg("push", d), m # Msg("remove", d),
           msgs' = Append(msgs, m)
    PROVE  /\ InOrder(d)'
           /\ InQueue("push", d)' <=> InQueue("push", d)
           /\ InQueue("remove", d)' <=> InQueue("remove", d)
<1>1. /\ DOMAIN msgs' = DOMAIN msgs \cup {Len(msgs) + 1}
      /\ \A i \in DOMAIN msgs : msgs'[i] = msgs[i]
      /\ msgs'[Len(msgs) + 1] = m
  BY AppendedMessage
<1>2. InOrder(d)'
  BY <1>1 DEF InOrder
<1>3. /\ InQueue("push", d)' <=> InQueue("push", d)
      /\ InQueue("remove", d)' <=> InQueue("remove", d)
  BY <1>1 DEF InQueue
<1>4. QED
  BY <1>2, <1>3

LEMMA SentNext ==
    ASSUME msgs \in Seq(MessageType), NEW d \in Delegates, InOrder(d),
           NEW e \in Delegates, e # d, NEW w \in {"push", "remove"},
           msgs' = Append(msgs, Msg(w, e))
    PROVE  /\ InOrder(d)'
           /\ InQueue("push", d)' <=> InQueue("push", d)
           /\ InQueue("remove", d)' <=> InQueue("remove", d)
<1>1. Msg(w, e) \in MessageType /\ Msg(w, e) # Msg("push", d) /\ Msg(w, e) # Msg("remove", d)
  BY Messages
<1>2. QED
  BY <1>1, SentOther

LEMMA SentPush ==
    ASSUME msgs \in Seq(MessageType), NEW d \in Delegates,
           ~InQueue("push", d), ~InQueue("remove", d), msgs' = Append(msgs, Msg("push", d))
    PROVE  InOrder(d)' /\ InQueue("push", d)' /\ ~InQueue("remove", d)'
<1>1. Msg("push", d) \in MessageType /\ Msg("push", d) # Msg("remove", d)
  BY Messages
<1>2. /\ DOMAIN msgs' = DOMAIN msgs \cup {Len(msgs) + 1}
      /\ \A i \in DOMAIN msgs : msgs'[i] = msgs[i]
      /\ msgs'[Len(msgs) + 1] = Msg("push", d)
  BY <1>1, AppendedMessage
<1>3. InQueue("push", d)' /\ ~InQueue("remove", d)'
  BY <1>1, <1>2 DEF InQueue
<1>4. InOrder(d)'
  BY <1>1, <1>2 DEF InOrder, InQueue
<1>5. QED
  BY <1>3, <1>4

LEMMA SentRemove ==
    ASSUME msgs \in Seq(MessageType), NEW d \in Delegates, InOrder(d),
           ~InQueue("remove", d), msgs' = Append(msgs, Msg("remove", d))
    PROVE  InOrder(d)' /\ InQueue("remove", d)' /\ (InQueue("push", d)' <=> InQueue("push", d))
<1>1. Msg("remove", d) \in MessageType /\ Msg("push", d) # Msg("remove", d)
  BY Messages
<1>2. /\ DOMAIN msgs' = DOMAIN msgs \cup {Len(msgs) + 1}
      /\ \A i \in DOMAIN msgs : i < Len(msgs) + 1 /\ msgs'[i] = msgs[i]
      /\ msgs'[Len(msgs) + 1] = Msg("remove", d)
  BY <1>1, AppendedMessage
<1>3. InQueue("remove", d)' /\ (InQueue("push", d)' <=> InQueue("push", d))
  BY <1>1, <1>2 DEF InQueue
<1>4. InOrder(d)'
  BY <1>1, <1>2 DEF InOrder, InQueue
<1>5. QED
  BY <1>3, <1>4

\* The first message is taken.
LEMMA Taken ==
    ASSUME msgs \in Seq(MessageType), msgs # <<>>, NEW d \in Delegates, InOrder(d),
           msgs' = Tail(msgs)
    PROVE  /\ InOrder(d)'
           /\ InQueue("push", d)' <=> InQueue("push", d) /\ Head(msgs) # Msg("push", d)
           /\ InQueue("remove", d)' <=> InQueue("remove", d) /\ Head(msgs) # Msg("remove", d)
           /\ Head(msgs) = Msg("remove", d) => ~InQueue("push", d)
           /\ \A w : Head(msgs) = Msg(w, d) => InQueue(w, d)
<1>1. /\ 1 \in DOMAIN msgs /\ Head(msgs) = msgs[1]
      /\ \A i \in DOMAIN msgs : ~(i < 1)
      /\ \A i \in DOMAIN msgs' : i + 1 \in DOMAIN msgs /\ i + 1 # 1 /\ msgs'[i] = msgs[i + 1]
      /\ \A i \in DOMAIN msgs : i # 1 => i - 1 \in DOMAIN msgs' /\ msgs'[i - 1] = msgs[i]
      /\ \A i, j \in DOMAIN msgs' : (i + 1 = j + 1 => i = j) /\ (i + 1 < j + 1 => i < j)
  BY TakenMessage
<1>2. \A i, j \in DOMAIN msgs' : msgs'[i] = Msg("push", d) /\ msgs'[j] = Msg("push", d) => i = j
  BY <1>1 DEF InOrder
<1>3. \A i, j \in DOMAIN msgs' :
         msgs'[i] = Msg("remove", d) /\ msgs'[j] = Msg("remove", d) => i = j
  BY <1>1 DEF InOrder
<1>4. \A i, j \in DOMAIN msgs' :
         msgs'[i] = Msg("push", d) /\ msgs'[j] = Msg("remove", d) => i < j
  BY <1>1 DEF InOrder
<1>5. InQueue("push", d)' <=> InQueue("push", d) /\ Head(msgs) # Msg("push", d)
  <2>1. InQueue("push", d)' => InQueue("push", d)
    BY <1>1 DEF InQueue
  <2>2. InQueue("push", d)' => Head(msgs) # Msg("push", d)
    BY <1>1 DEF InQueue, InOrder
  <2>3. ASSUME InQueue("push", d), Head(msgs) # Msg("push", d) PROVE InQueue("push", d)'
    <3>1. PICK i \in DOMAIN msgs : msgs[i] = Msg("push", d)
      BY <2>3 DEF InQueue
    <3>2. i # 1
      BY <1>1, <2>3, <3>1
    <3>3. i - 1 \in DOMAIN msgs' /\ msgs'[i - 1] = Msg("push", d)
      BY <1>1, <3>1, <3>2
    <3>4. QED
      BY <3>3 DEF InQueue
  <2>4. QED
    BY <2>1, <2>2, <2>3
<1>6. InQueue("remove", d)' <=> InQueue("remove", d) /\ Head(msgs) # Msg("remove", d)
  <2>1. InQueue("remove", d)' => InQueue("remove", d)
    BY <1>1 DEF InQueue
  <2>2. InQueue("remove", d)' => Head(msgs) # Msg("remove", d)
    BY <1>1 DEF InQueue, InOrder
  <2>3. ASSUME InQueue("remove", d), Head(msgs) # Msg("remove", d) PROVE InQueue("remove", d)'
    <3>1. PICK i \in DOMAIN msgs : msgs[i] = Msg("remove", d)
      BY <2>3 DEF InQueue
    <3>2. i # 1
      BY <1>1, <2>3, <3>1
    <3>3. i - 1 \in DOMAIN msgs' /\ msgs'[i - 1] = Msg("remove", d)
      BY <1>1, <3>1, <3>2
    <3>4. QED
      BY <3>3 DEF InQueue
  <2>4. QED
    BY <2>1, <2>2, <2>3
<1>7. Head(msgs) = Msg("remove", d) => ~InQueue("push", d)
  BY <1>1 DEF InQueue, InOrder
<1>8. \A w : Head(msgs) = Msg(w, d) => InQueue(w, d)
  BY <1>1 DEF InQueue
<1>9. QED
  BY <1>2, <1>3, <1>4, <1>5, <1>6, <1>7, <1>8 DEF InOrder

LEMMA SameQueue ==
    ASSUME NEW d \in Delegates, UNCHANGED msgs
    PROVE  /\ InOrder(d) => InOrder(d)'
           /\ InQueue("push", d)' <=> InQueue("push", d)
           /\ InQueue("remove", d)' <=> InQueue("remove", d)
BY DEF InOrder, InQueue

-----------------------------------------------------------------------------
(* What a client and its delegate know of each other.                      *)

LEMMA StartLinks ==
    ASSUME TypeOK, \A d \in Delegates : Link(d) /\ InOrder(d) /\ Stage(d),
           NEW c \in Clients, NEW delay \in Delays, Start(c, delay)
    PROVE  /\ TypeOK'
           /\ \A d \in Delegates : Link(d)' /\ InOrder(d)' /\ Stage(d)'
           /\ \A d \in Delegates : d <= starts =>
                 owner'[d] = owner[d] /\ mClient'[d] = mClient[d] /\ d <= starts'
<1>1. PICK n \in Delegates : n = starts + 1
  <2>1. starts + 1 \in Delegates
    BY TimerAssumption DEF Start, TypeOK, MaybeDelegates, Delegates
  <2>2. QED
    BY <2>1
<1>2. /\ starts' = n /\ n \in MaybeDelegates /\ n # NULL
      /\ mTimer[c] = NULL /\ mTimer' = [mTimer EXCEPT ![c] = n]
      /\ mClient' = [mClient EXCEPT ![n] = c] /\ owner' = [owner EXCEPT ![n] = c]
      /\ msgs' = Append(msgs, Msg("push", n))
      /\ UNCHANGED <<now, dead, deleted, heapVars, msg, kernelVars, poll, fired>>
  BY <1>1, SmallTypes DEF Start
<1>3. due' \in [Delegates -> Nat]
  <2>1. now + delay \in Nat
    BY TimerAssumption DEF TypeOK
  <2>2. QED
    BY <1>1, <2>1 DEF Start, TypeOK
<1>4. TypeOK'
  <2>1. msgs' \in Seq(MessageType)
    BY <1>2, Messages, AppendedMessage DEF TypeOK
  <2>2. QED
    BY <1>2, <1>3, <2>1, SmallTypes DEF TypeOK, heapVars, kernelVars
<1>5. /\ \A d \in Delegates : d <= starts => d # n
      /\ \A d \in Delegates : d # n => (d <= n <=> d <= starts) /\ (d > n => d > starts)
      /\ n <= n /\ ~(n > n) /\ n > starts /\ ~(n <= starts)
  BY <1>1 DEF Delegates, TypeOK, MaybeDelegates
<1>6. /\ mClient'[n] = c /\ owner'[n] = c /\ mTimer'[c] = n
      /\ \A d \in Delegates : d # n => mClient'[d] = mClient[d] /\ owner'[d] = owner[d]
      /\ \A e \in Clients : e # c => mTimer'[e] = mTimer[e]
  BY <1>2 DEF TypeOK
<1>7. \A d \in Delegates : Link(d)'
  <2>1. Link(n)'
    <3>1. mClient[n] = None
      BY <1>5 DEF Link
    <3>2. \A e \in Clients : mTimer[e] # n
      BY <3>1, SmallTypes DEF Link
    <3>3. QED
      BY <1>2, <1>5, <1>6, <3>2 DEF Link
  <2>2. ASSUME NEW d \in Delegates, d # n PROVE Link(d)'
    <3>1. mClient[d] # c
      BY <1>2, SmallTypes DEF Link
    <3>2. QED
      BY <1>2, <1>5, <1>6, <2>2, <3>1 DEF Link
  <2>3. QED
    BY <2>1, <2>2
<1>8. \A d \in Delegates : InOrder(d)' /\ Stage(d)'
  <2>1. /\ ~InQueue("push", n) /\ ~InQueue("remove", n) /\ n \notin heap
        /\ ~Expiring(n) /\ n \notin deleted /\ ~Fired(n)
    BY <1>5 DEF Stage
  <2>2. \A d \in Delegates : /\ Expiring(d)' <=> Expiring(d)
                             /\ Fired(d)' <=> Fired(d)
                             /\ d \in heap' <=> d \in heap
                             /\ d \in deleted' <=> d \in deleted
    BY <1>2 DEF Expiring, Fired, heapVars
  <2>3. InOrder(n)' /\ InQueue("push", n)' /\ ~InQueue("remove", n)'
    BY <1>2, <2>1, SentPush DEF TypeOK
  <2>4. Stage(n)'
    BY <1>2, <1>5, <2>1, <2>2, <2>3 DEF Stage
  <2>5. ASSUME NEW d \in Delegates, d # n PROVE InOrder(d)' /\ Stage(d)'
    <3>1. /\ InOrder(d)'
          /\ InQueue("push", d)' <=> InQueue("push", d)
          /\ InQueue("remove", d)' <=> InQueue("remove", d)
      BY <1>2, <2>5, SentNext DEF TypeOK
    <3>2. QED
      BY <1>2, <1>5, <1>6, <2>2, <2>5, <3>1 DEF Stage
  <2>6. QED
    BY <2>3, <2>4, <2>5
<1>9. QED
  BY <1>2, <1>4, <1>5, <1>6, <1>7, <1>8

LEMMA StopLinks ==
    ASSUME TypeOK, \A d \in Delegates : Link(d) /\ InOrder(d) /\ Stage(d),
           NEW c \in Clients, StopTimer(c), UNCHANGED <<starts, owner>>
    PROVE  /\ mTimer' \in [Clients -> MaybeDelegates]
           /\ mClient' \in [Delegates -> MaybeClients]
           /\ msgs' \in Seq(MessageType)
           /\ \A d \in Delegates :
                 /\ Link(d)' /\ InOrder(d)'
                 /\ InQueue("push", d)' <=> InQueue("push", d)
                 /\ InQueue("remove", d)' =>
                       \/ InQueue("remove", d)
                       \/ d <= starts /\ d \notin deleted /\ mClient'[d] = None
                 /\ mClient'[d] = mClient[d] \/ mClient'[d] = None
                 /\ mClient'[d] # c
<1>1. CASE mTimer[c] = NULL
  <2>1. UNCHANGED <<mClient, msgs>> /\ mTimer' = mTimer
    BY <1>1 DEF StopTimer, TypeOK
  <2>2. \A d \in Delegates : mClient[d] # c
    BY <1>1, SmallTypes DEF Link
  <2>3. \A d \in Delegates : Link(d)'
    BY <2>1 DEF Link
  <2>4. QED
    BY <2>1, <2>2, <2>3, SameQueue DEF TypeOK
<1>2. CASE mTimer[c] # NULL
  <2>1. PICK n \in Delegates : n = mTimer[c]
    BY <1>2, SmallTypes DEF TypeOK
  <2>2. /\ mTimer' = [mTimer EXCEPT ![c] = NULL]
        /\ mClient' = [mClient EXCEPT ![n] = None]
        /\ msgs' = Append(msgs, Msg("remove", n))
    BY <1>2, <2>1 DEF StopTimer
  <2>3. /\ mTimer'[c] = NULL /\ \A e \in Clients : e # c => mTimer'[e] = mTimer[e]
        /\ mClient'[n] = None /\ \A d \in Delegates : d # n => mClient'[d] = mClient[d]
    BY <2>2 DEF TypeOK
  <2>4. mClient[n] = c /\ mClient[n] # None
    BY <2>1, SmallTypes DEF Link
  <2>5. ~InQueue("remove", n) /\ n \notin deleted /\ n <= starts
    <3>1. n <= starts
      BY <2>4 DEF Link, TypeOK, MaybeDelegates, Delegates
    <3>2. QED
      BY <2>4, <3>1 DEF Stage
  <2>6. \A d \in Delegates : Link(d)'
    <3>1. ASSUME NEW d \in Delegates
          PROVE  \A e \in Clients : mTimer'[e] = d <=> mClient'[d] = e
      <4>1. CASE d = n
        BY <2>1, <2>3, <2>4, <4>1, SmallTypes DEF Link
      <4>2. CASE d # n
        BY <2>1, <2>3, <2>4, <4>2, SmallTypes DEF Link
      <4>3. QED
        BY <4>1, <4>2
    <3>2. QED
      BY <2>3, <3>1 DEF Link
  <2>7. /\ mTimer' \in [Clients -> MaybeDelegates] /\ mClient' \in [Delegates -> MaybeClients]
        /\ msgs' \in Seq(MessageType)
    BY <2>2, SmallTypes, Messages, AppendedMessage DEF TypeOK
  <2>8. /\ InOrder(n)' /\ (InQueue("push", n)' <=> InQueue("push", n))
    BY <2>2, <2>5, SentRemove DEF TypeOK
  <2>9. ASSUME NEW d \in Delegates, d # n
        PROVE  /\ InOrder(d)'
               /\ InQueue("push", d)' <=> InQueue("push", d)
               /\ InQueue("remove", d)' <=> InQueue("remove", d)
    BY <2>2, <2>9, SentNext DEF TypeOK
  <2>10. \A d \in Delegates : mClient'[d] # c
    BY <2>1, <2>3, SmallTypes DEF Link
  <2>11. QED
    BY <2>3, <2>5, <2>6, <2>7, <2>8, <2>9, <2>10
<1>3. QED
  BY <1>1, <1>2

-----------------------------------------------------------------------------
(* The heap, and what the message thread is at.                            *)

LEMMA RemoveHeap ==
    ASSUME TypeOK, TopInHeap, NEW d, Remove(d)
    PROVE  TopInHeap' /\ heap' = heap \ {d} /\ heap' \subseteq Delegates /\ top' \in MaybeDelegates
<1>1. heap' = heap \ {d} /\ heap' \subseteq Delegates
  BY DEF Remove, TypeOK
<1>2. CASE heap' = {}
  BY <1>1, <1>2, SmallTypes DEF Remove, TopInHeap
<1>3. CASE heap' # {} /\ top # d
  BY <1>1, <1>3 DEF Remove, TopInHeap, TypeOK
<1>4. CASE heap' # {} /\ top = d
  <2>1. top' \in heap'
    BY <1>4 DEF Remove, Soonest
  <2>2. QED
    BY <1>1, <1>4, <2>1, SmallTypes DEF TopInHeap
<1>5. QED
  BY <1>2, <1>3, <1>4

LEMMA PushHeap ==
    ASSUME TypeOK, TopInHeap, NEW d \in Delegates, Push(d)
    PROVE  TopInHeap' /\ heap' = heap \cup {d} /\ heap' \subseteq Delegates /\ top' \in MaybeDelegates
<1>1. heap' = heap \cup {d} /\ heap' \subseteq Delegates /\ heap' # {} /\ top' \in {d, top}
  BY DEF Push, TypeOK
<1>2. top' \in heap'
  BY <1>1 DEF Push, TopInHeap
<1>3. QED
  BY <1>1, <1>2, SmallTypes DEF TopInHeap

LEMMA UpdateType ==
    ASSUME TypeOK, NEW t \in MaybeDelegates, NEW prior \in MaybeDelegates,
           UpdateSoonestTime(t, prior)
    PROVE  msg' \in MsgType /\ msg'.at \in {"idle", "add"}
<1>1. CASE msg' = Idle
  BY <1>1, SmallTypes DEF Idle, MsgType
<1>2. CASE t # NULL /\ msg' = [Idle EXCEPT !.at = "add", !.time = due[t]]
  <2>1. due[t] \in Nat
    BY <1>2, SmallTypes DEF TypeOK
  <2>2. QED
    BY <1>2, <2>1, SmallTypes DEF Idle, MsgType
<1>3. QED
  BY <1>1, <1>2 DEF UpdateSoonestTime

\* A step that only takes a delegate further keeps its stage.
LEMMA KeptStage ==
    ASSUME NEW d \in Delegates, Stage(d), starts' = starts,
           InQueue("push", d)' => InQueue("push", d),
           InQueue("remove", d)' => InQueue("remove", d),
           d \in heap' => d \in heap, d \in deleted' => d \in deleted,
           Expiring(d)' => Expiring(d), Fired(d)' => Fired(d),
           mClient'[d] = mClient[d] \/ mClient'[d] = None
    PROVE  Stage(d)'
BY DEF Stage

LEMMA SameLinks ==
    ASSUME NEW d \in Delegates, Link(d), UNCHANGED <<mTimer, mClient, owner, starts>>
    PROVE  Link(d)'
BY DEF Link

-----------------------------------------------------------------------------
(* The steps.                                                              *)

LEMMA StartInv ==
    ASSUME IInv, NEW c \in Clients, NEW delay \in Delays, Start(c, delay)
    PROVE  IInv'
<1>1. /\ TypeOK' /\ \A d \in Delegates : Link(d)' /\ InOrder(d)' /\ Stage(d)'
      /\ \A d \in Delegates : d <= starts => owner'[d] = owner[d] /\ mClient'[d] = mClient[d]
  BY StartLinks DEF IInv
<1>2. TopInHeap' /\ FiredOnce'
  BY DEF IInv, TopInHeap, FiredOnce, Start, heapVars
<1>3. Expirer'
  <2>1. msg.at \in {"expire", "stop", "fire"} => msg.d \in Delegates /\ msg.d <= starts
    BY DEF IInv, Expirer, Stage, Expiring
  <2>2. msg' = msg
    BY DEF Start
  <2>3. QED
    BY <1>1, <2>1, <2>2 DEF IInv, Expirer
<1>4. QED
  BY <1>1, <1>2, <1>3 DEF IInv

\* LocTimer::stop and ~LocTimer.
LEMMA StopInv ==
    ASSUME IInv, NEW c \in Clients, StopTimer(c), dead' \subseteq Clients,
           UNCHANGED <<now, starts, due, owner, deleted, heapVars, msg, kernelVars, poll, fired>>
    PROVE  IInv'
<1>1. /\ mTimer' \in [Clients -> MaybeDelegates]
      /\ mClient' \in [Delegates -> MaybeClients]
      /\ msgs' \in Seq(MessageType)
      /\ \A d \in Delegates :
            /\ Link(d)' /\ InOrder(d)'
            /\ InQueue("push", d)' <=> InQueue("push", d)
            /\ InQueue("remove", d)' =>
                  \/ InQueue("remove", d)
                  \/ d <= starts /\ d \notin deleted /\ mClient'[d] = None
            /\ mClient'[d] = mClient[d] \/ mClient'[d] = None
  BY StopLinks DEF IInv
<1>2. TypeOK'
  BY <1>1 DEF IInv, TypeOK, heapVars, kernelVars
<1>3. TopInHeap' /\ FiredOnce' /\ Expirer'
  BY <1>1 DEF IInv, TopInHeap, FiredOnce, Expirer, heapVars
<1>4. \A d \in Delegates : Stage(d)'
  <2>1. \A d \in Delegates : /\ Expiring(d)' <=> Expiring(d)
                             /\ Fired(d)' <=> Fired(d)
    BY DEF Expiring, Fired
  <2>2. QED
    BY <1>1, <2>1 DEF IInv, Stage, heapVars
<1>5. QED
  BY <1>1, <1>2, <1>3, <1>4 DEF IInv

LEMMA PushInv ==
    ASSUME IInv, MsgTimerPush
    PROVE  IInv'
<1>1. /\ msgs \in Seq(MessageType) /\ msgs # <<>> /\ msgs' = Tail(msgs) /\ msgs' \in Seq(MessageType)
      /\ Head(msgs).what = "push" /\ msg.at = "idle"
  BY TakenMessage DEF MsgTimerPush, TakeMsg, IInv, TypeOK
<1>2. PICK n \in Delegates : n = Head(msgs).d /\ Head(msgs) = Msg("push", n)
  BY <1>1, TakenMessage, Messages
<1>3. TopInHeap' /\ heap' = heap \cup {n} /\ heap' \subseteq Delegates /\ top' \in MaybeDelegates
  BY <1>2, PushHeap DEF MsgTimerPush, IInv
<1>4. msg' \in MsgType /\ msg'.at \in {"idle", "add"}
  BY <1>3, UpdateType DEF MsgTimerPush, IInv, TypeOK
<1>5. UNCHANGED <<now, mTimer, dead, starts, due, owner, mClient, deleted, armed, polled, poll, fired>>
  BY DEF MsgTimerPush, clientVars, kernelVars
<1>6. TypeOK'
  BY <1>1, <1>3, <1>4, <1>5 DEF IInv, TypeOK
<1>7. FiredOnce' /\ Expirer'
  BY <1>4, <1>5 DEF IInv, FiredOnce, Expirer
<1>8. ASSUME NEW d \in Delegates PROVE Link(d)' /\ InOrder(d)' /\ Stage(d)'
  <2>1. Link(d)'
    BY <1>5, SameLinks DEF IInv
  <2>2. /\ InOrder(d)'
        /\ InQueue("push", d)' <=> InQueue("push", d) /\ d # n
        /\ InQueue("remove", d)' <=> InQueue("remove", d)
        /\ InQueue("push", n)
    BY <1>1, <1>2, Taken, Messages DEF IInv
  <2>3. ~Expiring(d)' /\ ~Expiring(d) /\ (Fired(d)' <=> Fired(d))
    BY <1>1, <1>4, <1>5 DEF Expiring, Fired
  <2>4. Stage(d)'
    BY <1>3, <1>5, <2>2, <2>3 DEF IInv, Stage
  <2>5. QED
    BY <2>1, <2>2, <2>4
<1>9. QED
  BY <1>3, <1>6, <1>7, <1>8 DEF IInv

LEMMA RemoveInv ==
    ASSUME IInv, MsgTimerRemove
    PROVE  IInv'
<1>1. /\ msgs \in Seq(MessageType) /\ msgs # <<>> /\ msgs' = Tail(msgs) /\ msgs' \in Seq(MessageType)
      /\ Head(msgs).what = "remove" /\ msg.at = "idle"
  BY TakenMessage DEF MsgTimerRemove, TakeMsg, IInv, TypeOK
<1>2. PICK n \in Delegates : n = Head(msgs).d /\ Head(msgs) = Msg("remove", n)
  BY <1>1, TakenMessage, Messages
<1>3. TopInHeap' /\ heap' = heap \ {n} /\ heap' \subseteq Delegates /\ top' \in MaybeDelegates
  BY <1>2, RemoveHeap DEF MsgTimerRemove, IInv
<1>4. msg' \in MsgType /\ msg'.at \in {"idle", "add"}
  <2>1. CASE UpdateSoonestTime(top', NULL)
    BY <1>3, <2>1, UpdateType, SmallTypes DEF IInv
  <2>2. CASE UNCHANGED msg
    BY <1>1, <2>2 DEF IInv, TypeOK
  <2>3. QED
    BY <2>1, <2>2 DEF MsgTimerRemove
<1>5. /\ deleted' = deleted \cup {n}
      /\ UNCHANGED <<now, mTimer, dead, starts, due, owner, mClient, armed, polled, poll, fired>>
  BY <1>2 DEF MsgTimerRemove, clientVars, kernelVars
<1>6. TypeOK'
  BY <1>1, <1>3, <1>4, <1>5 DEF IInv, TypeOK
<1>7. FiredOnce' /\ Expirer'
  BY <1>4, <1>5 DEF IInv, FiredOnce, Expirer
<1>8. ASSUME NEW d \in Delegates PROVE Link(d)' /\ InOrder(d)' /\ Stage(d)'
  <2>1. Link(d)'
    BY <1>5, SameLinks DEF IInv
  <2>2. /\ InOrder(d)'
        /\ InQueue("push", d)' <=> InQueue("push", d)
        /\ InQueue("remove", d)' <=> InQueue("remove", d) /\ d # n
        /\ InQueue("remove", n) /\ ~InQueue("push", n)
    BY <1>1, <1>2, Taken, Messages DEF IInv
  <2>3. ~Expiring(d)' /\ ~Expiring(d) /\ (Fired(d)' <=> Fired(d))
    BY <1>1, <1>4, <1>5 DEF Expiring, Fired
  <2>4. Stage(d)'
    BY <1>3, <1>5, <2>2, <2>3 DEF IInv, Stage
  <2>5. QED
    BY <2>1, <2>2, <2>4
<1>9. QED
  BY <1>3, <1>6, <1>7, <1>8 DEF IInv

\* What MsgTimerExpire and NextExpired pop.
LEMMA PopInv ==
    ASSUME IInv, Remove(top), msg' \in MsgType, top # NULL, msg'.at = "expire", msg'.d = top,
           ~(msg.at \in {"expire", "stop", "fire"}),
           msgs' \in Seq(MessageType),
           \A d \in Delegates : /\ InOrder(d)'
                                /\ InQueue("push", d)' => InQueue("push", d)
                                /\ InQueue("remove", d)' => InQueue("remove", d),
           UNCHANGED <<now, clientVars, mClient, deleted, kernelVars, poll, fired>>
    PROVE  IInv'
<1>1. top \in heap /\ top \in Delegates
  BY DEF IInv, TopInHeap, TypeOK
<1>2. TopInHeap' /\ heap' = heap \ {top} /\ heap' \subseteq Delegates /\ top' \in MaybeDelegates
  BY RemoveHeap DEF IInv
<1>3. TypeOK'
  BY <1>2 DEF IInv, TypeOK, clientVars, kernelVars
<1>4. FiredOnce' /\ Expirer'
  BY <1>1 DEF IInv, FiredOnce, Expirer
<1>5. ASSUME NEW d \in Delegates PROVE Link(d)' /\ Stage(d)'
  <2>1. Link(d)'
    BY SameLinks DEF IInv, clientVars
  <2>2. (Expiring(d)' => d = top) /\ ~Expiring(d) /\ (Fired(d)' <=> Fired(d))
    BY DEF Expiring, Fired
  <2>3. Stage(d)'
    BY <1>1, <1>2, <2>2 DEF IInv, Stage, clientVars
  <2>4. QED
    BY <2>1, <2>3
<1>6. QED
  BY <1>2, <1>3, <1>4, <1>5 DEF IInv

\* The other steps of the message thread that expire nothing.
LEMMA RestInv ==
    ASSUME IInv, TopInHeap', heap' = heap, top' \in MaybeDelegates, msg' \in MsgType,
           ~(msg'.at \in {"expire", "stop", "fire"}),
           msgs' \in Seq(MessageType),
           \A d \in Delegates : /\ InOrder(d)'
                                /\ InQueue("push", d)' => InQueue("push", d)
                                /\ InQueue("remove", d)' => InQueue("remove", d),
           now' \in Nat, armed' \in Nat, polled' \in BOOLEAN,
           poll' \in {"wait", "disarm", "remove", "send"},
           UNCHANGED <<clientVars, mClient, deleted, fired>>
    PROVE  IInv'
<1>1. TypeOK'
  BY DEF IInv, TypeOK, clientVars
<1>2. FiredOnce' /\ Expirer'
  BY DEF IInv, FiredOnce, Expirer
<1>3. ASSUME NEW d \in Delegates PROVE Link(d)' /\ Stage(d)'
  <2>1. Link(d)'
    BY SameLinks DEF IInv, clientVars
  <2>2. ~Expiring(d)' /\ (Fired(d)' <=> Fired(d))
    BY DEF Expiring, Fired
  <2>3. Stage(d)'
    BY <2>2, KeptStage DEF IInv, clientVars
  <2>4. QED
    BY <2>1, <2>3
<1>4. QED
  BY <1>1, <1>2, <1>3 DEF IInv

LEMMA ExpireInv ==
    ASSUME IInv, MsgTimerExpire
    PROVE  IInv'
<1>1. /\ msgs \in Seq(MessageType) /\ msgs # <<>> /\ msgs' = Tail(msgs) /\ msgs' \in Seq(MessageType)
      /\ Head(msgs).what = "expire" /\ msg.at = "idle" /\ Remove(top)
      /\ UNCHANGED <<now, clientVars, mClient, deleted, kernelVars, poll, fired>>
  BY TakenMessage DEF MsgTimerExpire, TakeMsg, IInv, TypeOK
<1>2. Head(msgs) = Msg("expire", Head(msgs).d)
  BY <1>1, TakenMessage, Messages
<1>3. \A d \in Delegates : /\ InOrder(d)'
                           /\ InQueue("push", d)' => InQueue("push", d)
                           /\ InQueue("remove", d)' => InQueue("remove", d)
  BY <1>1, <1>2, Taken DEF IInv
<1>4. CASE top = NULL
  <2>1. msg' = Idle
    BY <1>4 DEF MsgTimerExpire
  <2>2. msg' \in MsgType /\ msg'.at = "idle"
    BY <2>1, SmallTypes DEF Idle, MsgType
  <2>3. heap = {} /\ NULL \notin heap
    BY <1>4, SmallTypes DEF IInv, TopInHeap, TypeOK
  <2>4. heap' = heap /\ TopInHeap' /\ top' \in MaybeDelegates
    BY <1>1, <2>3, RemoveHeap DEF IInv
  <2>5. now' \in Nat /\ armed' \in Nat /\ polled' \in BOOLEAN
        /\ poll' \in {"wait", "disarm", "remove", "send"}
    BY <1>1 DEF IInv, TypeOK, kernelVars
  <2>6. QED
    BY <1>1, <1>3, <2>2, <2>4, <2>5, RestInv
<1>5. CASE top # NULL
  <2>1. msg' = [Idle EXCEPT !.at = "expire", !.d = top, !.time = now]
    BY <1>5 DEF MsgTimerExpire
  <2>2. msg' \in MsgType /\ msg'.at = "expire" /\ msg'.d = top
    BY <2>1, SmallTypes DEF Idle, MsgType, IInv, TypeOK
  <2>3. QED
    BY <1>1, <1>3, <1>5, <2>2, PopInv
<1>6. QED
  BY <1>4, <1>5

\* The client that a delegate is read to have is the one that started it.
LEMMA ReadInv ==
    ASSUME IInv, ReadClient
    PROVE  IInv'
<1>1. /\ msg.at = "expire" /\ msg.d \in Delegates
      /\ UNCHANGED <<now, clientVars, mClient, deleted, heapVars, msgs, kernelVars, poll, fired>>
  BY DEF ReadClient, IInv, Expirer
<1>2. /\ msg' \in MsgType /\ msg'.d = msg.d /\ msg'.client = mClient[msg.d]
      /\ mClient[msg.d] = None => msg'.at = "next"
      /\ mClient[msg.d] # None => msg'.at = "stop"
  BY <1>1 DEF ReadClient, IInv, TypeOK, MsgType
<1>3. TypeOK' /\ TopInHeap' /\ FiredOnce'
  BY <1>1, <1>2 DEF IInv, TypeOK, TopInHeap, FiredOnce, heapVars, clientVars, kernelVars
<1>4. Expirer'
  <2>1. mClient[msg.d] # None =>
           mClient[msg.d] \in Clients /\ owner[msg.d] = mClient[msg.d]
    BY <1>1, SmallTypes DEF IInv, Link, TypeOK, MaybeClients
  <2>2. QED
    BY <1>1, <1>2, <2>1 DEF Expirer, clientVars
<1>5. ASSUME NEW d \in Delegates PROVE Link(d)' /\ InOrder(d)' /\ Stage(d)'
  <2>1. Link(d)'
    BY <1>1, SameLinks DEF IInv, clientVars
  <2>2. (Expiring(d)' => Expiring(d)) /\ (Fired(d)' <=> Fired(d))
    BY <1>1, <1>2 DEF Expiring, Fired
  <2>3. Stage(d)'
    BY <1>1, <2>2, SameQueue, KeptStage DEF IInv, clientVars, heapVars
  <2>4. QED
    BY <1>1, <2>1, <2>3, SameQueue DEF IInv
<1>6. QED
  BY <1>3, <1>4, <1>5 DEF IInv

LEMMA StopClientInv ==
    ASSUME IInv, StopClient
    PROVE  IInv'
<1>1. /\ msg.at = "stop" /\ msg.d \in Delegates /\ msg.client \in Clients
      /\ owner[msg.d] = msg.client /\ StopTimer(msg.client)
      /\ UNCHANGED <<now, dead, starts, due, owner, deleted, heapVars, kernelVars, poll, fired>>
  BY DEF StopClient, IInv, Expirer
<1>2. /\ mTimer' \in [Clients -> MaybeDelegates]
      /\ mClient' \in [Delegates -> MaybeClients]
      /\ msgs' \in Seq(MessageType)
      /\ \A d \in Delegates :
            /\ Link(d)' /\ InOrder(d)'
            /\ InQueue("push", d)' <=> InQueue("push", d)
            /\ InQueue("remove", d)' =>
                  \/ InQueue("remove", d)
                  \/ d <= starts /\ d \notin deleted /\ mClient'[d] = None
            /\ mClient'[d] = mClient[d] \/ mClient'[d] = None
            /\ mClient'[d] # msg.client
  BY <1>1, StopLinks DEF IInv
<1>3. msg' \in MsgType /\ msg'.d = msg.d /\ msg'.client = msg.client /\ msg'.at \in {"next", "fire"}
  BY DEF StopClient, IInv, TypeOK, MsgType
<1>4. TypeOK' /\ TopInHeap' /\ FiredOnce'
  BY <1>1, <1>2, <1>3 DEF IInv, TypeOK, TopInHeap, FiredOnce, heapVars, kernelVars
<1>5. mClient'[msg.d] = None
  <2>1. mClient'[msg.d] # None => owner'[msg.d] = mClient'[msg.d]
    BY <1>1, <1>2 DEF Link
  <2>2. QED
    BY <1>1, <1>2, <2>1
<1>6. Expirer'
  BY <1>1, <1>3, <1>5 DEF Expirer
<1>7. ASSUME NEW d \in Delegates PROVE Stage(d)'
  <2>1. (Expiring(d)' => Expiring(d)) /\ (Fired(d)' <=> Fired(d))
    BY <1>1, <1>3 DEF Expiring, Fired
  <2>2. QED
    BY <1>1, <1>2, <2>1 DEF IInv, Stage, heapVars
<1>8. QED
  BY <1>2, <1>4, <1>6, <1>7 DEF IInv

\* What is called back is no longer anywhere else.
LEMMA FireInv ==
    ASSUME IInv, Fire
    PROVE  IInv'
<1>1. /\ msg.at = "fire" /\ msg.d \in Delegates /\ mClient[msg.d] = None /\ Expiring(msg.d)
      /\ fired \in Seq(Delegates) /\ fired' = Append(fired, msg.d)
      /\ UNCHANGED <<now, clientVars, mClient, deleted, heapVars, msgs, kernelVars, poll>>
  BY DEF Fire, IInv, Expirer, TypeOK, Expiring
<1>2. msg' \in MsgType /\ msg'.at = "next"
  BY DEF Fire, IInv, TypeOK, MsgType
<1>3. /\ fired' \in Seq(Delegates)
      /\ DOMAIN fired' = DOMAIN fired \cup {Len(fired) + 1}
      /\ \A i \in DOMAIN fired : fired'[i] = fired[i]
      /\ fired'[Len(fired) + 1] = msg.d
  BY <1>1, AppendedMessage
<1>4. TypeOK' /\ TopInHeap' /\ Expirer'
  BY <1>1, <1>2, <1>3 DEF IInv, TypeOK, TopInHeap, Expirer, heapVars, clientVars, kernelVars
<1>5. ~Fired(msg.d)
  BY <1>1 DEF IInv, Stage
<1>6. FiredOnce'
  BY <1>3, <1>5 DEF IInv, FiredOnce, Fired
<1>7. ASSUME NEW d \in Delegates PROVE Link(d)' /\ InOrder(d)' /\ Stage(d)'
  <2>1. Link(d)'
    BY <1>1, SameLinks DEF IInv, clientVars
  <2>2. ~Expiring(d)' /\ (Fired(d)' => Fired(d) \/ d = msg.d)
    BY <1>2, <1>3 DEF Expiring, Fired
  <2>3. Stage(d)'
    BY <1>1, <2>2, SameQueue DEF IInv, Stage, clientVars, heapVars
  <2>4. QED
    BY <1>1, <2>1, <2>3, SameQueue DEF IInv
<1>8. QED
  BY <1>4, <1>6, <1>7 DEF IInv

LEMMA NextExpiredInv ==
    ASSUME IInv, NextExpired
    PROVE  IInv'
<1>1. /\ msg.at = "next" /\ top \in MaybeDelegates /\ msgs' = msgs /\ msgs' \in Seq(MessageType)
      /\ UNCHANGED <<now, clientVars, mClient, deleted, kernelVars, poll, fired>>
  BY DEF NextExpired, IInv, TypeOK
<1>2. \A d \in Delegates : /\ InOrder(d)'
                           /\ InQueue("push", d)' => InQueue("push", d)
                           /\ InQueue("remove", d)' => InQueue("remove", d)
  BY <1>1, SameQueue DEF IInv
<1>3. CASE top # NULL /\ due[top] <= msg.time
  <2>1. msg' = [msg EXCEPT !.at = "expire", !.d = top] /\ Remove(top)
    BY <1>3 DEF NextExpired
  <2>2. msg' \in MsgType /\ msg'.at = "expire" /\ msg'.d = top
    BY <1>1, <2>1 DEF IInv, TypeOK, MsgType
  <2>3. QED
    BY <1>1, <1>2, <1>3, <2>1, <2>2, PopInv
<1>4. CASE ~(top # NULL /\ due[top] <= msg.time)
  <2>1. UpdateSoonestTime(top, NULL) /\ UNCHANGED heapVars
    BY <1>4 DEF NextExpired
  <2>2. msg' \in MsgType /\ msg'.at \in {"idle", "add"}
    BY <1>1, <2>1, UpdateType, SmallTypes DEF IInv
  <2>3. TopInHeap' /\ heap' = heap /\ top' \in MaybeDelegates
    BY <1>1, <2>1 DEF IInv, TopInHeap, heapVars
  <2>4. now' \in Nat /\ armed' \in Nat /\ polled' \in BOOLEAN
        /\ poll' \in {"wait", "disarm", "remove", "send"}
    BY <1>1 DEF IInv, TypeOK, kernelVars
  <2>5. QED
    BY <1>1, <1>2, <2>2, <2>3, <2>4, RestInv
<1>5. QED
  BY <1>3, <1>4

\* The kernel timer, the polling thread and the clock do not touch a delegate.
LEMMA KernelInv ==
    ASSUME IInv, AddPoll \/ Arm \/ Wake \/ Disarm \/ RemovePoll \/ SendExpire \/ Tick
                 \/ UNCHANGED vars
    PROVE  IInv'
<1>1. UNCHANGED <<clientVars, mClient, deleted, heapVars, fired>>
  BY DEF AddPoll, Arm, Wake, Disarm, RemovePoll, SendExpire, Tick, vars
<1>2. /\ msgs' \in Seq(MessageType)
      /\ \A d \in Delegates : /\ InOrder(d)'
                              /\ InQueue("push", d)' => InQueue("push", d)
                              /\ InQueue("remove", d)' => InQueue("remove", d)
  <2>1. msgs \in Seq(MessageType) /\ \A d \in Delegates : InOrder(d)
    BY DEF IInv, TypeOK
  <2>2. CASE SendExpire
    <3>1. /\ msgs' = Append(msgs, Msg("expire", NULL)) /\ Msg("expire", NULL) \in MessageType
          /\ \A d : Msg("expire", NULL) # Msg("push", d) /\ Msg("expire", NULL) # Msg("remove", d)
      BY <2>2, Messages DEF SendExpire
    <3>2. msgs' \in Seq(MessageType)
      BY <2>1, <3>1, AppendedMessage
    <3>3. QED
      BY <2>1, <3>1, <3>2, SentOther
  <2>3. CASE UNCHANGED msgs
    BY <2>1, <2>3, SameQueue
  <2>4. QED
    BY <2>2, <2>3 DEF AddPoll, Arm, Wake, Disarm, RemovePoll, Tick, vars
<1>3. now' \in Nat /\ armed' \in Nat /\ polled' \in BOOLEAN
      /\ poll' \in {"wait", "disarm", "remove", "send"}
  <2>1. now \in Nat /\ armed \in Nat /\ msg.time \in Nat /\ polled \in BOOLEAN
        /\ poll \in {"wait", "disarm", "remove", "send"}
    BY DEF IInv, TypeOK, MsgType
  <2>2. now' \in Nat
    BY <2>1 DEF AddPoll, Arm, Wake, Disarm, RemovePoll, SendExpire, Tick, vars
  <2>3. armed' \in Nat
    BY <2>1 DEF AddPoll, Arm, Wake, Disarm, RemovePoll, SendExpire, Tick, vars, kernelVars
  <2>4. polled' \in BOOLEAN
    BY <2>1 DEF AddPoll, Arm, Wake, Disarm, RemovePoll, SendExpire, Tick, vars, kernelVars
  <2>5. poll' \in {"wait", "disarm", "remove", "send"}
    BY <2>1 DEF AddPoll, Arm, Wake, Disarm, RemovePoll, SendExpire, Tick, vars
  <2>6. QED
    BY <2>2, <2>3, <2>4, <2>5
<1>4. CASE AddPoll \/ Arm
  <2>1. msg' \in MsgType /\ ~(msg'.at \in {"expire", "stop", "fire"})
    <3>1. CASE AddPoll
      BY <3>1 DEF AddPoll, IInv, TypeOK, MsgType
    <3>2. CASE Arm
      BY <3>2, SmallTypes DEF Arm, MsgType, Idle
    <3>3. QED
      BY <1>4, <3>1, <3>2
  <2>2. TopInHeap' /\ heap' = heap /\ top' \in MaybeDelegates
    BY <1>1 DEF IInv, TopInHeap, TypeOK, heapVars
  <2>3. QED
    BY <1>1, <1>2, <1>3, <2>1, <2>2, RestInv
<1>5. CASE UNCHANGED msg
  <2>1. TypeOK' /\ TopInHeap' /\ Expirer' /\ FiredOnce'
    BY <1>1, <1>2, <1>3, <1>5
       DEF IInv, TypeOK, TopInHeap, Expirer, FiredOnce, heapVars, clientVars
  <2>2. ASSUME NEW d \in Delegates PROVE Link(d)' /\ Stage(d)'
    <3>1. Link(d)'
      BY <1>1, SameLinks DEF IInv, clientVars
    <3>2. (Expiring(d)' <=> Expiring(d)) /\ (Fired(d)' <=> Fired(d))
      BY <1>1, <1>5 DEF Expiring, Fired
    <3>3. Stage(d)'
      BY <1>1, <1>2, <3>2, KeptStage DEF IInv, clientVars, heapVars
    <3>4. QED
      BY <3>1, <3>3
  <2>3. QED
    BY <1>2, <2>1, <2>2 DEF IInv
<1>6. QED
  BY <1>4, <1>5 DEF Wake, Disarm, RemovePoll, SendExpire, Tick, vars

LEMMA InitInv == Init => IInv
<1> SUFFICES ASSUME Init PROVE IInv
  OBVIOUS
<1>1. TypeOK
  <2>1. msg \in MsgType
    BY SmallTypes DEF Init, Idle, MsgType
  <2>2. msgs \in Seq(MessageType) /\ fired \in Seq(Delegates)
    BY DEF Init
  <2>3. starts \in MaybeDelegates /\ top \in MaybeDelegates
    BY SmallTypes DEF Init, NULL
  <2>4. /\ mTimer \in [Clients -> MaybeDelegates] /\ due \in [Delegates -> Nat]
        /\ mClient \in [Delegates -> MaybeClients] /\ owner \in [Delegates -> MaybeClients]
    BY SmallTypes DEF Init
  <2>5. QED
    BY <2>1, <2>2, <2>3, <2>4 DEF Init, TypeOK
<1>2. TopInHeap /\ Expirer /\ FiredOnce
  BY DEF Init, TopInHeap, Expirer, FiredOnce, Idle
<1>3. ASSUME NEW d \in Delegates PROVE Link(d) /\ InOrder(d) /\ Stage(d)
  <2>1. d # NULL /\ ~(d <= 0) /\ None \notin Clients
    BY SmallTypes DEF Delegates
  <2>2. Link(d)
    BY <2>1 DEF Init, Link
  <2>3. InOrder(d) /\ ~InQueue("push", d) /\ ~InQueue("remove", d)
    BY DEF Init, InOrder, InQueue
  <2>4. d \notin heap /\ ~Expiring(d) /\ d \notin deleted /\ ~Fired(d)
    BY DEF Init, Expiring, Fired, Idle
  <2>5. QED
    BY <2>2, <2>3, <2>4 DEF Stage
<1>4. QED
  BY <1>1, <1>2, <1>3 DEF IInv

LEMMA NextInv == IInv /\ [Next]_vars => IInv'
<1> SUFFICES ASSUME IInv, [Next]_vars PROVE IInv'
  OBVIOUS
<1>1. ASSUME NEW c \in Clients, Stop(c) \/ Destroy(c) PROVE IInv'
  <2>1. /\ StopTimer(c) /\ dead' \subseteq Clients
        /\ UNCHANGED <<now, starts, due, owner, deleted, heapVars, msg, kernelVars, poll, fired>>
    BY <1>1 DEF Stop, Destroy, IInv, TypeOK
  <2>2. QED
    BY <2>1, StopInv
<1>2. QED
  BY <1>1, StartInv, PushInv, RemoveInv, ExpireInv, ReadInv, StopClientInv, FireInv,
     NextExpiredInv, KernelInv DEF Next, MsgThread, PollThread

-----------------------------------------------------------------------------
\* The inductive invariant holds in every reachable state, for every number of
\* timers and starts.
THEOREM InvCorrect == Spec => []IInv
BY InitInv, NextInv, PTL DEF Spec

\* The variables keep their types.
THEOREM TypeCorrect == Spec => []TypeOK
<1>1. IInv => TypeOK
  BY DEF IInv
<1>2. QED
  BY <1>1, InvCorrect, PTL

\* A delegate is deleted by the message thread when nothing refers to it: not
\* the heap, no client, no message that has yet to be handled, and not the
\* expiration under way.  Deletion is put off to the message thread for this.
THEOREM UsedAreAlive == Spec => []UsedIsAlive
<1>1. IInv => UsedIsAlive
  <2> SUFFICES ASSUME IInv, NEW d \in deleted
               PROVE  /\ d \notin heap
                      /\ \A c \in Clients : mTimer[c] # d
                      /\ ~InQueue("push", d) /\ ~InQueue("remove", d)
                      /\ msg.at \in {"expire", "stop"} => msg.d # d
    BY DEF UsedIsAlive
  <2>1. d \in Delegates /\ Stage(d) /\ Link(d)
    BY DEF IInv, TypeOK
  <2>2. \A c \in Clients : mTimer[c] # d
    BY <2>1, SmallTypes DEF Stage, Link
  <2>3. QED
    BY <2>1, <2>2 DEF Stage, Expiring
<1>2. QED
  BY <1>1, InvCorrect, PTL

\* A start is called back at most once, and is over by then: the client may be
\* started again from its callback.
THEOREM OneCallbackEach == Spec => []OneCallback
<1>1. IInv => OneCallback
  <2> SUFFICES ASSUME IInv, NEW i \in DOMAIN fired
               PROVE  /\ \A j \in DOMAIN fired : fired[i] = fired[j] => i = j
                      /\ mTimer[owner[fired[i]]] # fired[i]
    BY DEF OneCallback
  <2>1. fired[i] \in Delegates /\ Fired(fired[i])
    BY DEF IInv, TypeOK, Fired
  <2>2. mClient[fired[i]] = None /\ owner[fired[i]] \in Clients
    BY <2>1 DEF IInv, Stage, Link
  <2>3. mTimer[owner[fired[i]]] # fired[i]
    BY <2>1, <2>2, SmallTypes DEF IInv, Link
  <2>4. QED
    BY <2>3 DEF IInv, FiredOnce
<1>2. QED
  BY <1>1, InvCorrect, PTL

=============================================================================
