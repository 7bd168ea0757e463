---------------------------- MODULE DsNif_proofs ----------------------------
(***************************************************************************)
(* Proofs about DsNif, for every number of handles, retries, messages and  *)
(* restarts and whatever the data service does.                            *)
(***************************************************************************)
EXTENDS DsNif, FiniteSetTheorems, TLAPS

IsSequence(s) == s \in Seq({s[i] : i \in DOMAIN s})

Up == "CONNECTED"
Down == "DISCONNECTED"

TypeOK ==
    /\ state \in {"Released", "Pending", "Acquired", "Releasing"}
    /\ call \in {"down", "starting", "up", "stopping"}
    /\ IsSequence(inbox)
    /\ IsSequence(subs)

\* The news of the end of a call are the last there are of it.
LastNews ==
    \A i, j \in DOMAIN inbox :
        inbox[i].ev = Down /\ i < j => inbox[j].ev \notin {Up, Down}

\* The call, and the news of it that have not been handled.
CallNews ==
    /\ Waiting(Down) => call = "down"
    /\ Waiting(Up) => call \in {"up", "stopping"} \/ Waiting(Down)

\* What the machine may be in with the call as it is.
CallState ==
    /\ state = "Released" => call = "down" /\ ~Waiting(Up) /\ ~Waiting(Down)
    /\ state = "Acquired" => call = "up" \/ Waiting(Down)
    /\ call = "stopping" => state = "Releasing"

\* A machine that asks for calls which always start.
Served == AlwaysStarts => PendingAsked /\ ReleasedEmpty

IInv == TypeOK /\ LastNews /\ CallNews /\ CallState /\ Served

-----------------------------------------------------------------------------
(* Sequences.                                                              *)

LEMMA SequenceOf ==
    ASSUME NEW S, NEW s \in Seq(S)
    PROVE  IsSequence(s)
BY DEF IsSequence

LEMMA AppendSequence ==
    ASSUME NEW s, IsSequence(s), NEW e
    PROVE  /\ IsSequence(Append(s, e))
           /\ DOMAIN Append(s, e) = DOMAIN s \cup {Len(s) + 1}
           /\ \A i \in DOMAIN s : i < Len(s) + 1 /\ Append(s, e)[i] = s[i]
           /\ Append(s, e)[Len(s) + 1] = e
<1> DEFINE S == {s[i] : i \in DOMAIN s}
<1>1. s \in Seq(S) /\ s \in Seq(S \cup {e})
  BY DEF IsSequence
<1>2. Append(s, e) \in Seq(S \cup {e})
  BY <1>1
<1>3. IsSequence(Append(s, e))
  BY <1>2, SequenceOf
<1>4. QED
  BY <1>1, <1>3

LEMMA TailSequence ==
    ASSUME NEW s, IsSequence(s), s # <<>>
    PROVE  /\ IsSequence(Tail(s)) /\ Head(s) = s[1] /\ 1 \in DOMAIN s
           /\ \A i \in DOMAIN Tail(s) : i + 1 \in DOMAIN s /\ 1 < i + 1 /\ Tail(s)[i] = s[i + 1]
           /\ \A i \in DOMAIN s : i # 1 => i - 1 \in DOMAIN Tail(s) /\ Tail(s)[i - 1] = s[i]
           /\ \A i, j \in DOMAIN Tail(s) : i < j => i + 1 < j + 1
<1> DEFINE S == {s[i] : i \in DOMAIN s}
<1>1. s \in Seq(S)
  BY DEF IsSequence
<1>2. Tail(s) \in Seq(S)
  BY <1>1
<1>3. IsSequence(Tail(s))
  BY <1>2, SequenceOf
<1>4. QED
  BY <1>1, <1>2, <1>3

LEMMA JoinedSequences ==
    ASSUME NEW s, IsSequence(s), NEW t, IsSequence(t)
    PROVE  /\ IsSequence(s \o t)
           /\ \A i \in DOMAIN s : i \in DOMAIN (s \o t) /\ (s \o t)[i] = s[i]
           /\ \A i \in DOMAIN (s \o t) :
                 i \notin DOMAIN s => i - Len(s) \in DOMAIN t /\ (s \o t)[i] = t[i - Len(s)]
           /\ \A i, j \in DOMAIN (s \o t) : i < j /\ j \in DOMAIN s => i \in DOMAIN s
<1> DEFINE S == {s[i] : i \in DOMAIN s} \cup {t[i] : i \in DOMAIN t}
<1>1. s \in Seq(S) /\ t \in Seq(S)
  BY DEF IsSequence
<1>2. s \o t \in Seq(S)
  BY <1>1
<1>3. IsSequence(s \o t)
  BY <1>2, SequenceOf
<1>4. QED
  BY <1>1, <1>2, <1>3

\* A function on 1 .. n is a sequence.
LEMMA FunctionSequence ==
    ASSUME NEW n \in Nat, NEW s, DOMAIN s = 1 .. n, s = [i \in DOMAIN s |-> s[i]]
    PROVE  IsSequence(s)
BY DEF IsSequence

\* What the machine makes of its list are lists.
LEMMA ListSequences ==
    ASSUME NEW list, IsSequence(list)
    PROVE  /\ IsSequence(Active(list))
           /\ IsSequence(IdsInOrder(list))
           /\ IsSequence(Latest(list))
           /\ \A e : IsSequence(<<e>> \o list)
           /\ \A h : IsSequence([i \in DOMAIN list |->
                        IF list[i].id = h THEN [list[i] EXCEPT !.inactive = TRUE] ELSE list[i]])
<1>1. Len(list) \in Nat /\ DOMAIN list = 1 .. Len(list)
  BY DEF IsSequence
<1>2. IsSequence(Active(list))
  <2> DEFINE at == {i \in DOMAIN list : ~list[i].inactive}
             nth(k) == CHOOSE i \in at : Cardinality({j \in at : j <= i}) = k
  <2>1. IsFiniteSet(at)
    <3>1. IsFiniteSet(1 .. Len(list)) /\ at \subseteq 1 .. Len(list)
      BY <1>1, FS_Interval
    <3>2. QED
      BY <3>1, FS_Subset
  <2>2. Cardinality(at) \in Nat
    BY <2>1, FS_CardinalityType
  <2>3. Active(list) = [k \in 1 .. Cardinality(at) |-> list[nth(k)]]
    BY DEF Active
  <2>4. /\ DOMAIN Active(list) = 1 .. Cardinality(at)
        /\ Active(list) = [k \in DOMAIN Active(list) |-> Active(list)[k]]
    BY <2>3
  <2>5. QED
    BY <2>2, <2>4, FunctionSequence
<1>3. IsSequence(IdsInOrder(list))
  BY <1>1, FunctionSequence DEF IdsInOrder
<1>4. IsSequence(Latest(list))
  <2>1. IsSequence(<<>>) /\ \A e : IsSequence(<<e>>)
    BY DEF IsSequence
  <2>2. QED
    BY <2>1 DEF Latest
<1>5. ASSUME NEW e PROVE IsSequence(<<e>> \o list)
  <2>1. IsSequence(<<e>>)
    BY DEF IsSequence
  <2>2. QED
    BY <2>1, JoinedSequences
<1>6. ASSUME NEW h
      PROVE  IsSequence([i \in DOMAIN list |->
                IF list[i].id = h THEN [list[i] EXCEPT !.inactive = TRUE] ELSE list[i]])
  BY <1>1, FunctionSequence
<1>7. QED
  BY <1>2, <1>3, <1>4, <1>5, <1>6
-----------------------------------------------------------------------------
(* The news in the inbox.                                                  *)

\* The first message is served, and others that are no news are posted.
LEMMA HeadReplaced ==
    ASSUME IsSequence(inbox), inbox # <<>>, LastNews,
           NEW t, IsSequence(t), \A i \in DOMAIN t : t[i].ev \notin {Up, Down},
           inbox' = Tail(inbox) \o t
    PROVE  /\ IsSequence(inbox)' /\ LastNews'
           /\ \A ev \in {Up, Down} : Waiting(ev)' => Waiting(ev)
           /\ \A ev \in {Up, Down} : Waiting(ev) /\ Head(inbox).ev # ev => Waiting(ev)'
           /\ Head(inbox).ev = Down => ~Waiting(Up)' /\ ~Waiting(Down)'
           /\ Waiting(Head(inbox).ev)
<1>1. /\ IsSequence(Tail(inbox)) /\ Head(inbox) = inbox[1] /\ 1 \in DOMAIN inbox
      /\ \A i \in DOMAIN Tail(inbox) :
            i + 1 \in DOMAIN inbox /\ 1 < i + 1 /\ Tail(inbox)[i] = inbox[i + 1]
      /\ \A i \in DOMAIN inbox :
            i # 1 => i - 1 \in DOMAIN Tail(inbox) /\ Tail(inbox)[i - 1] = inbox[i]
      /\ \A i, j \in DOMAIN Tail(inbox) : i < j => i + 1 < j + 1
  BY TailSequence
<1>2. /\ IsSequence(inbox')
      /\ \A i \in DOMAIN Tail(inbox) : i \in DOMAIN inbox' /\ inbox'[i] = Tail(inbox)[i]
      /\ \A i \in DOMAIN inbox' : i \notin DOMAIN Tail(inbox) => inbox'[i].ev \notin {Up, Down}
      /\ \A i, j \in DOMAIN inbox' : i < j /\ j \in DOMAIN Tail(inbox) => i \in DOMAIN Tail(inbox)
  <2>1. PICK s : s = Tail(inbox)
    OBVIOUS
  <2>2. IsSequence(s) /\ inbox' = s \o t
    BY <1>1, <2>1
  <2>3. /\ IsSequence(inbox')
        /\ \A i \in DOMAIN s : i \in DOMAIN inbox' /\ inbox'[i] = s[i]
        /\ \A i \in DOMAIN inbox' :
              i \notin DOMAIN s => i - Len(s) \in DOMAIN t /\ inbox'[i] = t[i - Len(s)]
        /\ \A i, j \in DOMAIN inbox' : i < j /\ j \in DOMAIN s => i \in DOMAIN s
    <3>1. /\ IsSequence(s \o t)
          /\ \A i \in DOMAIN s : i \in DOMAIN (s \o t) /\ (s \o t)[i] = s[i]
          /\ \A i \in DOMAIN (s \o t) :
                i \notin DOMAIN s => i - Len(s) \in DOMAIN t /\ (s \o t)[i] = t[i - Len(s)]
          /\ \A i, j \in DOMAIN (s \o t) : i < j /\ j \in DOMAIN s => i \in DOMAIN s
      BY <2>2, JoinedSequences
    <3>2. QED
      BY <2>2, <3>1, Zenon
  <2>4. QED
    BY <2>1, <2>3
<1>3. LastNews'
  <2> SUFFICES ASSUME NEW i \in DOMAIN inbox', NEW j \in DOMAIN inbox',
                      inbox'[i].ev = Down, i < j, inbox'[j].ev \in {Up, Down}
               PROVE  FALSE
    BY DEF LastNews
  <2>1. i \in DOMAIN Tail(inbox) /\ j \in DOMAIN Tail(inbox)
    BY <1>2
  <2>2. /\ i + 1 \in DOMAIN inbox /\ j + 1 \in DOMAIN inbox /\ i + 1 < j + 1
        /\ inbox[i + 1].ev = Down /\ inbox[j + 1].ev \in {Up, Down}
    BY <1>1, <1>2, <2>1
  <2>3. QED
    BY <2>2 DEF LastNews
<1>4. ASSUME NEW ev \in {Up, Down}, Waiting(ev)'
      PROVE  \E i \in DOMAIN inbox : i # 1 /\ inbox[i].ev = ev /\ 1 < i
  <2>1. PICK i \in DOMAIN inbox' : inbox'[i].ev = ev
    BY <1>4 DEF Waiting
  <2>2. i \in DOMAIN Tail(inbox)
    BY <1>2, <2>1
  <2>3. i + 1 \in DOMAIN inbox /\ inbox[i + 1].ev = ev /\ 1 < i + 1
    BY <1>1, <1>2, <2>1, <2>2
  <2>4. QED
    BY <2>3
<1>5. ASSUME NEW ev \in {Up, Down}, Waiting(ev), Head(inbox).ev # ev
      PROVE  Waiting(ev)'
  <2>1. PICK i \in DOMAIN inbox : inbox[i].ev = ev
    BY <1>5 DEF Waiting
  <2>2. i - 1 \in DOMAIN Tail(inbox) /\ Tail(inbox)[i - 1] = inbox[i]
    BY <1>1, <1>5, <2>1
  <2>3. QED
    BY <1>2, <2>1, <2>2 DEF Waiting
<1>6. Head(inbox).ev = Down => ~Waiting(Up)' /\ ~Waiting(Down)'
  BY <1>1, <1>4 DEF LastNews
<1>7. \A ev \in {Up, Down} : Waiting(ev)' => Waiting(ev)
  BY <1>4 DEF Waiting
<1>8. Waiting(Head(inbox).ev)
  BY <1>1 DEF Waiting
<1>9. QED
  BY <1>2, <1>3, <1>5, <1>6, <1>7, <1>8

LEMMA HeadServed ==
    ASSUME IsSequence(inbox), inbox # <<>>, LastNews, inbox' = Tail(inbox)
    PROVE  /\ IsSequence(inbox)' /\ LastNews'
           /\ \A ev \in {Up, Down} : Waiting(ev)' => Waiting(ev)
           /\ \A ev \in {Up, Down} : Waiting(ev) /\ Head(inbox).ev # ev => Waiting(ev)'
           /\ Head(inbox).ev = Down => ~Waiting(Up)' /\ ~Waiting(Down)'
           /\ Waiting(Head(inbox).ev)
<1>1. IsSequence(<<>>) /\ DOMAIN <<>> = {}
  BY DEF IsSequence
<1>2. Tail(inbox) \o <<>> = Tail(inbox)
  <2>1. IsSequence(Tail(inbox))
    BY TailSequence
  <2>2. QED
    BY <2>1 DEF IsSequence
<1>3. inbox' = Tail(inbox) \o <<>>
  BY <1>2
<1>4. QED
  BY <1>1, <1>3, HeadReplaced

\* Messages that are no news are posted.
LEMMA Posted ==
    ASSUME IsSequence(inbox), LastNews,
           NEW t, IsSequence(t), \A i \in DOMAIN t : t[i].ev \notin {Up, Down},
           inbox' = inbox \o t
    PROVE  /\ IsSequence(inbox)' /\ LastNews'
           /\ \A ev \in {Up, Down} : Waiting(ev)' <=> Waiting(ev)
<1>1. /\ IsSequence(inbox')
      /\ \A i \in DOMAIN inbox : i \in DOMAIN inbox' /\ inbox'[i] = inbox[i]
      /\ \A i \in DOMAIN inbox' : i \notin DOMAIN inbox => inbox'[i].ev \notin {Up, Down}
      /\ \A i, j \in DOMAIN inbox' : i < j /\ j \in DOMAIN inbox => i \in DOMAIN inbox
  BY JoinedSequences
<1>2. LastNews'
  <2> SUFFICES ASSUME NEW i \in DOMAIN inbox', NEW j \in DOMAIN inbox',
                      inbox'[i].ev = Down, i < j, inbox'[j].ev \in {Up, Down}
               PROVE  FALSE
    BY DEF LastNews
  <2>1. i \in DOMAIN inbox /\ j \in DOMAIN inbox
    BY <1>1
  <2>2. QED
    BY <1>1, <2>1 DEF LastNews
<1>3. \A ev \in {Up, Down} : Waiting(ev)' <=> Waiting(ev)
  BY <1>1 DEF Waiting
<1>4. QED
  BY <1>1, <1>2, <1>3

\* A single message is posted: no news, or news where the end has not been
\* reported yet.
LEMMA PostedOne ==
    ASSUME IsSequence(inbox), LastNews, NEW m, m.ev \in {Up, Down} => ~Waiting(Down),
           inbox' = Append(inbox, m)
    PROVE  /\ IsSequence(inbox)' /\ LastNews'
           /\ \A ev \in {Up, Down} : Waiting(ev)' <=> Waiting(ev) \/ m.ev = ev
<1>1. /\ IsSequence(inbox')
      /\ DOMAIN inbox' = DOMAIN inbox \cup {Len(inbox) + 1}
      /\ \A i \in DOMAIN inbox : i < Len(inbox) + 1 /\ inbox'[i] = inbox[i]
      /\ inbox'[Len(inbox) + 1] = m
  BY AppendSequence
<1>2. \A i \in DOMAIN inbox : i \in Nat /\ Len(inbox) \in Nat
  BY DEF IsSequence
<1>3. LastNews'
  <2> SUFFICES ASSUME NEW i \in DOMAIN inbox', NEW j \in DOMAIN inbox',
                      inbox'[i].ev = Down, i < j, inbox'[j].ev \in {Up, Down}
               PROVE  FALSE
    BY DEF LastNews
  <2>1. CASE i = Len(inbox) + 1
    BY <1>1, <1>2, <2>1
  <2>2. CASE i \in DOMAIN inbox /\ j = Len(inbox) + 1
    BY <1>1, <2>2 DEF Waiting
  <2>3. CASE i \in DOMAIN inbox /\ j \in DOMAIN inbox
    BY <1>1, <2>3 DEF LastNews
  <2>4. QED
    BY <1>1, <2>1, <2>2, <2>3
<1>4. \A ev \in {Up, Down} : Waiting(ev)' <=> Waiting(ev) \/ m.ev = ev
  BY <1>1 DEF Waiting
<1>5. QED
  BY <1>1, <1>3, <1>4

\* Requests that fall back, and retries, are no news.
LEMMA NoNews ==
    ASSUME NEW hs, IsSequence(hs), NEW ev \in {"ATL", "SUPL_ES"}
    PROVE  /\ IsSequence([i \in DOMAIN hs |-> Msg(ev, hs[i])])
           /\ \A i \in DOMAIN [k \in DOMAIN hs |-> Msg(ev, hs[k])] :
                 [k \in DOMAIN hs |-> Msg(ev, hs[k])][i].ev \notin {Up, Down}
<1>1. Len(hs) \in Nat /\ DOMAIN hs = 1 .. Len(hs)
  BY DEF IsSequence
<1>2. IsSequence([i \in DOMAIN hs |-> Msg(ev, hs[i])])
  BY <1>1, FunctionSequence
<1>3. QED
  BY <1>2 DEF Msg, Up, Down

-----------------------------------------------------------------------------
(* The steps.                                                              *)

\* What the services say never changes what the machine was told it may count
\* on.
LEMMA Refusals ==
    ASSUME NEW list, Refused(list)
    PROVE  ~AlwaysStarts
BY DEF Refused, AlwaysStarts

\* A request that is not accepted serves the message and posts no news.
LEMMA RefusedNews ==
    ASSUME IsSequence(inbox), inbox # <<>>, LastNews, NEW list, IsSequence(list), Refused(list)
    PROVE  /\ call' = call /\ IsSequence(inbox)' /\ LastNews'
           /\ \A ev \in {Up, Down} : Waiting(ev)' => Waiting(ev)
           /\ \A ev \in {Up, Down} : Waiting(ev) /\ Head(inbox).ev # ev => Waiting(ev)'
           /\ Head(inbox).ev = Down => ~Waiting(Up)' /\ ~Waiting(Down)'
<1>1. call' = call
  BY DEF Refused
<1>2. CASE inbox' = Tail(inbox)
  BY <1>1, <1>2, HeadServed
<1>3. CASE FallBack(Latest(list))
  <2>1. IsSequence(Latest(list))
    BY ListSequences
  <2>2. inbox' = Tail(inbox) \o [i \in DOMAIN Latest(list) |-> Msg("ATL", Latest(list)[i])]
    BY <1>3 DEF FallBack
  <2>3. QED
    BY <1>1, <2>1, <2>2, NoNews, HeadReplaced
<1>4. QED
  BY <1>2, <1>3 DEF Refused, TryLater

\* A step that changes neither the machine nor the call, and tells no news.
LEMMA Unmoved ==
    ASSUME IInv, UNCHANGED <<state, subs, call, service>>, IsSequence(inbox)', LastNews',
           \A ev \in {Up, Down} : Waiting(ev)' <=> Waiting(ev)
    PROVE  IInv'
BY DEF IInv, TypeOK, CallNews, CallState, Served, AlwaysStarts, PendingAsked, ReleasedEmpty,
       Up, Down

LEMMA RequestInv ==
    ASSUME IInv, RequestSuplEs
    PROVE  IInv'
<1> DEFINE h == Head(inbox).id
<1>1. /\ inbox # <<>> /\ Head(inbox).ev \notin {Up, Down} /\ UNCHANGED service
      /\ IsSequence(inbox) /\ IsSequence(subs) /\ LastNews
  BY DEF RequestSuplEs, IInv, TypeOK, Up, Down
<1>2. IsSequence(AddSubscriber(h))
  BY <1>1, ListSequences DEF AddSubscriber
<1>3. CASE SubscribeReleased(h) /\ Accepted /\ state' = "Pending"
  <2>1. /\ state = "Released" /\ state' = "Pending" /\ call' = "starting"
        /\ subs' = AddSubscriber(h) /\ inbox' = Tail(inbox)
    BY <1>3 DEF SubscribeReleased, Accepted
  <2>2. /\ IsSequence(inbox)' /\ LastNews' /\ ~Waiting(Up)' /\ ~Waiting(Down)'
    BY <1>1, <2>1, HeadServed DEF IInv, CallState
  <2>3. QED
    BY <1>2, <2>1, <2>2
       DEF IInv, TypeOK, CallNews, CallState, Served, PendingAsked, ReleasedEmpty
<1>4. CASE SubscribeReleased(h) /\ Refused(subs') /\ UNCHANGED state
  <2>1. state = "Released" /\ state' = "Released" /\ subs' = AddSubscriber(h)
    BY <1>4 DEF SubscribeReleased
  <2>2. /\ call' = call /\ IsSequence(inbox)' /\ LastNews' /\ ~Waiting(Up)' /\ ~Waiting(Down)'
    BY <1>1, <1>2, <1>4, <2>1, RefusedNews DEF IInv, CallState
  <2>3. ~AlwaysStarts'
    BY <1>1, <1>4, Refusals DEF AlwaysStarts
  <2>4. QED
    BY <1>2, <2>1, <2>2, <2>3 DEF IInv, TypeOK, CallNews, CallState, Served
<1>5. CASE SubscribeWaiting(h) \/ SubscribeAcquired(h)
  <2>1. /\ state # "Released" /\ state' = state /\ call' = call
        /\ subs' = AddSubscriber(h) /\ inbox' = Tail(inbox)
    BY <1>5 DEF SubscribeWaiting, SubscribeAcquired
  <2>2. /\ IsSequence(inbox)' /\ LastNews'
        /\ \A ev \in {Up, Down} : Waiting(ev)' <=> Waiting(ev)
    BY <1>1, <2>1, HeadServed
  <2>3. QED
    BY <1>1, <1>2, <2>1, <2>2
       DEF IInv, TypeOK, CallNews, CallState, Served, AlwaysStarts, PendingAsked, ReleasedEmpty,
           Up, Down
<1>6. QED
  BY <1>3, <1>4, <1>5 DEF RequestSuplEs, SubscribeReleased

LEMMA ReleaseInv ==
    ASSUME IInv, ReleaseAtl
    PROVE  IInv'
<1> DEFINE h == Head(inbox).id
<1>1. /\ inbox # <<>> /\ Head(inbox).ev \notin {Up, Down} /\ UNCHANGED service
      /\ IsSequence(inbox) /\ IsSequence(subs) /\ LastNews /\ inbox' = Tail(inbox)
  BY DEF ReleaseAtl, IInv, TypeOK, Up, Down
<1>2. /\ IsSequence(inbox)' /\ LastNews'
      /\ \A ev \in {Up, Down} : Waiting(ev)' <=> Waiting(ev)
  BY <1>1, HeadServed
<1>3. CASE UNCHANGED <<state, subs, call>>
  BY <1>1, <1>2, <1>3, Unmoved
<1>4. CASE Unsubscribe(h) /\ state # "Released"
  <2>1. subs' = SetInactive(h)
        /\ \/ UNCHANGED <<state, call>>
           \/ state' = "Releasing" /\ StopDataCall
    BY <1>4 DEF Unsubscribe
  <2>2. IsSequence(subs)'
    BY <1>1, <2>1, ListSequences DEF SetInactive
  <2>3. CASE UNCHANGED <<state, call>>
    BY <1>1, <1>2, <1>4, <2>2, <2>3
       DEF IInv, TypeOK, CallNews, CallState, Served, AlwaysStarts, PendingAsked, ReleasedEmpty,
           Up, Down
  <2>4. CASE state' = "Releasing" /\ StopDataCall
    <3>1. /\ call = "down" => call' = "down"
          /\ call \in {"up", "stopping"} => call' = "stopping"
          /\ call' \in {"down", "stopping"}
      BY <2>4 DEF StopDataCall, IInv, TypeOK
    <3>2. TypeOK' /\ LastNews'
      BY <1>2, <2>2, <2>4, <3>1 DEF IInv, TypeOK
    <3>3. CallNews'
      BY <1>2, <3>1 DEF IInv, CallNews
    <3>4. CallState'
      BY <1>2, <1>4, <2>4, <3>1 DEF IInv, TypeOK, CallNews, CallState
    <3>5. Served'
      BY <2>4 DEF Served, PendingAsked, ReleasedEmpty
    <3>6. QED
      BY <3>2, <3>3, <3>4, <3>5 DEF IInv
  <2>5. QED
    BY <2>1, <2>3, <2>4
<1>5. QED
  BY <1>3, <1>4 DEF ReleaseAtl, Unsubscribe

LEMMA GrantedInv ==
    ASSUME IInv, OnGranted
    PROVE  IInv'
<1>1. /\ inbox # <<>> /\ Head(inbox).ev = Up /\ Up # Down /\ UNCHANGED <<service, subs, call>>
      /\ IsSequence(inbox) /\ IsSequence(subs) /\ LastNews /\ inbox' = Tail(inbox)
  BY DEF OnGranted, IInv, TypeOK, Up, Down
<1>2. /\ IsSequence(inbox)' /\ LastNews' /\ Waiting(Up)
      /\ Waiting(Up)' => Waiting(Up)
      /\ Waiting(Down)' <=> Waiting(Down)
  BY <1>1, HeadServed
<1>3. CASE state = "Pending"
  <2>1. state' = "Acquired"
    BY <1>3 DEF OnGranted
  <2>2. call = "up" \/ Waiting(Down)
    BY <1>2, <1>3 DEF IInv, CallNews, CallState
  <2>3. QED
    BY <1>1, <1>2, <1>3, <2>1, <2>2
       DEF IInv, TypeOK, CallNews, CallState, Served, PendingAsked, ReleasedEmpty
<1>4. CASE state # "Pending"
  <2>1. state' = state
    BY <1>4 DEF OnGranted
  <2>2. QED
    BY <1>1, <1>2, <1>4, <2>1
       DEF IInv, TypeOK, CallNews, CallState, Served, AlwaysStarts, PendingAsked, ReleasedEmpty
<1>5. QED
  BY <1>3, <1>4

LEMMA ReleasedInv ==
    ASSUME IInv, OnReleased
    PROVE  IInv'
<1>1. /\ inbox # <<>> /\ Head(inbox).ev = Down /\ UNCHANGED service
      /\ IsSequence(inbox) /\ IsSequence(subs) /\ LastNews
      /\ IsSequence(<<>>)
  BY DEF OnReleased, IInv, TypeOK, Up, Down, IsSequence
<1>2. Waiting(Down) /\ call = "down"
  <2>1. 1 \in DOMAIN inbox /\ Head(inbox) = inbox[1]
    BY <1>1, TailSequence
  <2>2. QED
    BY <1>1, <2>1 DEF Waiting, IInv, CallNews
<1>3. CASE ReleasedInReleased
  <2>1. state = "Released"
    BY <1>3 DEF ReleasedInReleased
  <2>2. QED
    BY <1>2, <2>1 DEF IInv, CallState
<1>4. ASSUME IsSequence(inbox)', LastNews', ~Waiting(Up)', ~Waiting(Down)',
             state' = "Released", subs' = <<>>, call' = call
      PROVE  IInv'
  BY <1>1, <1>2, <1>4
     DEF IInv, TypeOK, CallNews, CallState, Served, PendingAsked, ReleasedEmpty
<1>5. ASSUME inbox' = Tail(inbox)
      PROVE  IsSequence(inbox)' /\ LastNews' /\ ~Waiting(Up)' /\ ~Waiting(Down)'
  BY <1>1, <1>5, HeadServed
<1>6. CASE ReleasedInPending
  <2>1. state' = "Released" /\ subs' = <<>> /\ call' = call /\ FallBack(IdsInOrder(subs))
    BY <1>6 DEF ReleasedInPending
  <2>2. IsSequence(IdsInOrder(subs))
    BY <1>1, ListSequences
  <2>3. inbox' = Tail(inbox) \o
                   [i \in DOMAIN IdsInOrder(subs) |-> Msg("ATL", IdsInOrder(subs)[i])]
    BY <2>1 DEF FallBack
  <2>4. IsSequence(inbox)' /\ LastNews' /\ ~Waiting(Up)' /\ ~Waiting(Down)'
    BY <1>1, <2>2, <2>3, NoNews, HeadReplaced
  <2>5. QED
    BY <1>4, <2>1, <2>4
<1>7. CASE ReleasedInAcquired
  BY <1>4, <1>5, <1>7 DEF ReleasedInAcquired
<1>8. CASE ReleasedInReleasing
  <2>1. subs' = Active(subs) /\ IsSequence(Active(subs))
    BY <1>1, <1>8, ListSequences DEF ReleasedInReleasing
  <2>2. CASE subs' = <<>>
    BY <1>4, <1>5, <1>8, <2>2 DEF ReleasedInReleasing
  <2>3. CASE state' = "Pending" /\ Accepted
    <3>1. call' = "starting" /\ inbox' = Tail(inbox)
      BY <2>3 DEF Accepted
    <3>2. QED
      BY <1>5, <2>1, <2>3, <3>1
         DEF IInv, TypeOK, CallNews, CallState, Served, PendingAsked, ReleasedEmpty
  <2>4. CASE state' = "Pending" /\ Refused(subs')
    <3>1. call' = call /\ IsSequence(inbox)' /\ LastNews' /\ ~Waiting(Up)' /\ ~Waiting(Down)'
      BY <1>1, <2>1, <2>4, RefusedNews
    <3>2. ~AlwaysStarts'
      BY <1>1, <2>4, Refusals DEF AlwaysStarts
    <3>3. QED
      BY <1>2, <2>1, <2>4, <3>1, <3>2 DEF IInv, TypeOK, CallNews, CallState, Served
  <2>5. QED
    BY <1>8, <2>2, <2>3, <2>4 DEF ReleasedInReleasing
<1>9. QED
  BY <1>3, <1>6, <1>7, <1>8 DEF OnReleased

LEMMA PostInv ==
    ASSUME IInv, RetryCallback \/ \E h \in Handles : ModemRequest(h) \/ ModemRelease(h)
    PROVE  IInv'
<1>1. IsSequence(inbox) /\ IsSequence(subs) /\ LastNews
  BY DEF IInv, TypeOK
<1>2. CASE RetryCallback
  <2>1. IsSequence(Latest(subs))
    BY <1>1, ListSequences
  <2>2. inbox' = inbox \o [i \in DOMAIN Latest(subs) |-> Msg("SUPL_ES", Latest(subs)[i])]
        /\ UNCHANGED <<state, subs, call, service>>
    BY <1>2 DEF RetryCallback
  <2>3. QED
    BY <1>1, <2>1, <2>2, NoNews, Posted, Unmoved
<1>3. ASSUME NEW h \in Handles, ModemRequest(h) \/ ModemRelease(h) PROVE IInv'
  <2>1. PICK m : inbox' = Append(inbox, m) /\ m.ev \notin {Up, Down}
    BY <1>3 DEF ModemRequest, ModemRelease, Msg, Up, Down
  <2>2. UNCHANGED <<state, subs, call, service>>
    BY <1>3 DEF ModemRequest, ModemRelease
  <2>3. QED
    BY <1>1, <2>1, <2>2, PostedOne, Unmoved
<1>4. QED
  BY <1>2, <1>3

LEMMA CallInv ==
    ASSUME IInv, CallUp \/ CallDown
    PROVE  IInv'
<1>1. /\ IsSequence(inbox) /\ IsSequence(subs) /\ LastNews /\ call # "down"
      /\ UNCHANGED <<state, subs, service>>
  BY DEF CallUp, CallDown, IInv, TypeOK
<1>2. ~Waiting(Down) /\ state # "Released"
  BY <1>1 DEF IInv, CallNews, CallState
<1>3. CASE CallUp
  <2>1. /\ inbox' = Append(inbox, Event(Up)) /\ call' = "up" /\ Event(Up).ev = Up /\ Up # Down
    BY <1>3 DEF CallUp, Event, Up, Down
  <2>2. IsSequence(inbox)' /\ LastNews' /\ Waiting(Up)' /\ ~Waiting(Down)'
    BY <1>1, <1>2, <2>1, PostedOne
  <2>3. QED
    BY <1>1, <1>2, <2>1, <2>2
       DEF IInv, TypeOK, CallNews, CallState, Served, PendingAsked, ReleasedEmpty, Up, Down
<1>4. CASE CallDown
  <2>1. /\ inbox' = Append(inbox, Event(Down)) /\ call' = "down" /\ Event(Down).ev = Down
    BY <1>4 DEF CallDown, Event, Up, Down
  <2>2. IsSequence(inbox)' /\ LastNews' /\ Waiting(Down)'
    BY <1>1, <1>2, <2>1, PostedOne
  <2>3. QED
    BY <1>1, <1>2, <2>1, <2>2
       DEF IInv, TypeOK, CallNews, CallState, Served, PendingAsked, ReleasedEmpty, Up, Down
<1>5. QED
  BY <1>3, <1>4

LEMMA InitInv == Init => IInv
<1> SUFFICES ASSUME Init PROVE IInv
  OBVIOUS
<1>1. IsSequence(<<>>) /\ DOMAIN <<>> = {}
  BY DEF IsSequence
<1>2. QED
  BY <1>1 DEF Init, IInv, TypeOK, LastNews, CallNews, CallState, Served, PendingAsked,
              ReleasedEmpty, Waiting

LEMMA NextInv == IInv /\ [Next]_vars => IInv'
<1> SUFFICES ASSUME IInv, [Next]_vars PROVE IInv'
  OBVIOUS
<1>1. CASE RequestAtl
  <2>1. /\ IsSequence(inbox) /\ LastNews /\ inbox # <<>> /\ inbox' = Tail(inbox)
        /\ Head(inbox).ev \notin {Up, Down} /\ UNCHANGED <<state, subs, call, service>>
    BY <1>1 DEF RequestAtl, IInv, TypeOK, Up, Down
  <2>2. QED
    BY <2>1, HeadServed, Unmoved
<1>2. ASSUME UNCHANGED <<state, subs, inbox, call, service>> PROVE IInv'
  BY <1>2 DEF IInv, TypeOK, LastNews, CallNews, CallState, Served, AlwaysStarts,
              PendingAsked, ReleasedEmpty, Waiting
<1>3. CASE EngineUp \/ (\E h \in Handles : AtlAnswer(h)) \/ UNCHANGED vars
  BY <1>2, <1>3 DEF EngineUp, AtlAnswer, vars
<1>4. QED
  BY <1>1, <1>3, RequestInv, ReleaseInv, GrantedInv, ReleasedInv, PostInv, CallInv
     DEF Next, Engine

-----------------------------------------------------------------------------
\* The inductive invariant holds in every reachable state.
THEOREM InvCorrect == Spec => []IInv
BY InitInv, NextInv, PTL DEF Spec

\* The machine and the data call agree, whatever the handles, the bounds and
\* the results of the data service: Acquired has a call or the news of its
\* loss, a call is started only where there is none, and when every call can
\* be started, Pending waits for something that comes and Released has nobody
\* on its list.
THEOREM CallsInStep == Spec => []CallInStep
<1>1. IInv => CallInStep
  <2> SUFFICES ASSUME IInv PROVE CallInStep
    OBVIOUS
  <2>1. AcquiredHasCall
    BY DEF IInv, CallState, AcquiredHasCall, Down
  <2>2. CallEndedFirst
    <3>1. ASSUME inbox # <<>>, Head(inbox).ev = Down PROVE Waiting(Down)
      <4>1. 1 \in DOMAIN inbox /\ Head(inbox) = inbox[1]
        BY <3>1, TailSequence DEF IInv, TypeOK
      <4>2. QED
        BY <3>1, <4>1 DEF Waiting
    <3>2. QED
      BY <3>1 DEF IInv, CallNews, CallState, CallEndedFirst, Down
  <2>3. QED
    BY <2>1, <2>2 DEF IInv, Served, CallInStep
<1>2. QED
  BY <1>1, InvCorrect, PTL

=============================================================================
