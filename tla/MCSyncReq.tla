----------------------------- MODULE MCSyncReq -----------------------------
(* A small instance of SyncReq for TLC: two threads that get slots, and a   *)
(* third one that calls while they have taken them all.  The first thread   *)
(* asks for one kind: the threads differ in nothing else.                   *)
EXTENDS SyncReq
CONSTANTS t1, t2, t3, c1, i1, i2

Plain == [client |-> c1, ind |-> i1, buf |-> TRUE]
Other == [client |-> c1, ind |-> i2, buf |-> TRUE]

TwoKinds == {Plain, Other}

May == [t \in Threads |-> IF t = t1 THEN {Plain} ELSE TwoKinds]

MCNext ==
  \/ \E t \in {t1, t2} : (\E c \in May[t] : AllocSlot(t, c)) \/ Progress(t)
  \/ NoSlot(t3, Plain)
  \/ \E t, u \in {t1, t2} : FreeRacesSelect(t, u)
  \/ \E k \in Kinds : ProcessInd(k)

MCSpec == Init /\ [][MCNext]_vars /\ \A t \in {t1, t2} : WF_vars(Progress(t))
=============================================================================
