--------------------------- MODULE SyncReq_proofs ---------------------------
(***************************************************************************)
(* Proofs about SyncReq, for every set of threads, number of slots, set of *)
(* calls and number of retries.                                            *)
(***************************************************************************)
EXTENDS SyncReq, TLAPS

\* The slot of a call under way belongs to that call alone.
ThreadSafe ==
    \A t \in Threads, s \in Slots :
        Holds(t, s) => /\ slotInUse[s]
                       /\ \A u \in Threads \ {t} : ~Holds(u, s)

\* What holds of a thread and its slot until a slot is stolen.
ThreadInv(t) ==
    /\ pc[t] # "idle" /\ freed[t] => pc[t] = "fail"
    /\ pc[t] = "select" => slot[sel[t]] = Cleared /\ ~answered[t]
    /\ pc[t] \in {"send", "check", "lock"} =>
          /\ ~slot[sel[t]].waiting
          /\ answered[t] => slot[sel[t]].arrived
    /\ pc[t] = "asleep" => slot[sel[t]].waiting /\ ~answered[t]
    /\ pc[t] \in {"check", "lock", "asleep"} => status[t] = "SUCCESS"
    /\ pc[t] \in {"woken", "free"} => status[t] # "RETRY"

FreeSlotsAreClear == \A s \in Slots : ~slotInUse[s] => slot[s] = Cleared

Undisturbed ==
    ~stolen => ThreadSafe /\ FreeSlotsAreClear /\ \A t \in Threads : ThreadInv(t)

-----------------------------------------------------------------------------
\* The parts of a call have the types the slots expect.
LEMMA CallParts ==
    ASSUME NEW c \in Calls
    PROVE  /\ c.client \in Clients /\ c.ind \in Inds /\ c.buf \in BOOLEAN
           /\ Kind(c) \in Kinds
BY SyncReqAssumption DEF Clients, Inds, Kinds

\* Whatever a call has in it, what loc_sync_select_ind writes fits a slot.
LEMMA SelectedType ==
    ASSUME NEW t \in Threads, call[t] \in Calls
    PROVE  Selected(t) \in SlotType
BY CallParts DEF Selected, SlotType

LEMMA ClearedType == Cleared \in SlotType
BY DEF Cleared, SlotType

\* A thread inside a call has arguments.
HasCall == \A t \in Threads : pc[t] # "idle" => call[t] \in Calls

TypeInv == TypeOK /\ HasCall

LEMMA Bounds == 0 \in Slots /\ 0 \in 0 .. MaxRetries /\ 0 \in 0 .. MaxInFlight
                /\ MaxRetries \in 0 .. MaxRetries
BY SyncReqAssumption DEF Slots

LEMMA NaturalBounds == MaxRetries \in Nat /\ MaxInFlight \in Nat
BY SyncReqAssumption

\* Changing the two flags of a slot keeps its type.
LEMMA FlagType ==
    ASSUME NEW r \in SlotType, NEW b \in BOOLEAN
    PROVE  /\ [r EXCEPT !.waiting = b] \in SlotType
           /\ [r EXCEPT !.arrived = b] \in SlotType
BY DEF SlotType

LEMMA InitType == Init => TypeInv
<1> SUFFICES ASSUME Init PROVE TypeInv
  OBVIOUS
<1>1. slot \in [Slots -> SlotType]
  BY ClearedType DEF Init
<1>2. pc \in [Threads -> PCs] /\ status \in [Threads -> Statuses]
  BY DEF Init, PCs, Statuses
<1>3. sel \in [Threads -> Slots] /\ retries \in [Threads -> 0 .. MaxRetries]
      /\ inFlight \in [Kinds -> 0 .. MaxInFlight]
  BY Bounds DEF Init
<1>4. HasCall
  BY DEF Init, HasCall
<1>5. QED
  BY <1>1, <1>2, <1>3, <1>4 DEF Init, TypeInv, TypeOK

\* The end of an iteration keeps the types of what it assigns.
LEMMA IterateType ==
    ASSUME TypeInv, NEW t \in Threads, NEW st \in Statuses, Iterate(t, st)
    PROVE  /\ pc' \in [Threads -> PCs] /\ status' \in [Threads -> Statuses]
           /\ retries' \in [Threads -> 0 .. MaxRetries]
           /\ \A u \in Threads \ {t} : pc'[u] = pc[u]
BY SyncReqAssumption DEF TypeInv, TypeOK, Iterate, PCs, Statuses

LEMMA FreeType ==
    ASSUME TypeInv, NEW t \in Threads, FreeSlot(t), AfterWait(t) \/ AfterFail(t)
    PROVE  /\ slotInUse' \in [Slots -> BOOLEAN] /\ inUse' \in BOOLEAN
           /\ freed' \in [Threads -> BOOLEAN] /\ stolen' \in BOOLEAN
           /\ pc' \in [Threads -> PCs] /\ status' \in [Threads -> Statuses]
           /\ retries' \in [Threads -> 0 .. MaxRetries]
           /\ \A u \in Threads \ {t} : pc'[u] = pc[u]
           /\ pc[t] # "idle"
<1>1. /\ slotInUse' \in [Slots -> BOOLEAN] /\ inUse' \in BOOLEAN
      /\ freed' \in [Threads -> BOOLEAN] /\ stolen' \in BOOLEAN
  BY DEF TypeInv, TypeOK, FreeSlot, InUseAfterFree
<1>2. /\ pc' \in [Threads -> PCs] /\ status' \in [Threads -> Statuses]
      /\ retries' \in [Threads -> 0 .. MaxRetries]
      /\ \A u \in Threads \ {t} : pc'[u] = pc[u]
  <2>1. status[t] \in Statuses
    BY DEF TypeInv, TypeOK
  <2>2. CASE AfterWait(t) /\ status[t] # "SUCCESS"
    BY <2>1, <2>2, IterateType DEF AfterWait
  <2>3. CASE AfterWait(t) /\ status[t] = "SUCCESS"
    BY <2>3 DEF AfterWait, TypeInv, TypeOK, PCs
  <2>4. CASE AfterFail(t)
    BY <2>4 DEF AfterFail, TypeInv, TypeOK, PCs
  <2>5. QED
    BY <2>2, <2>3, <2>4
<1>3. pc[t] # "idle"
  BY DEF AfterWait, AfterFail
<1>4. QED
  BY <1>1, <1>2, <1>3

LEMMA NextType == TypeInv /\ [Next]_vars => TypeInv'
<1> SUFFICES ASSUME TypeInv, [Next]_vars PROVE TypeInv'
  OBVIOUS
<1> USE DEF TypeInv
<1>1. ASSUME NEW t \in Threads, NEW c \in Calls, AllocSlot(t, c) PROVE TypeInv'
  <2>1. /\ call' \in [Threads -> Calls \cup {NoCall}]
        /\ retries' \in [Threads -> 0 .. MaxRetries]
        /\ status' \in [Threads -> Statuses]
        /\ buf' \in [Threads -> Kinds \cup {NULL}]
        /\ sent' \in [Threads -> BOOLEAN] /\ freed' \in [Threads -> BOOLEAN]
        /\ answered' \in [Threads -> BOOLEAN]
    BY <1>1, Bounds DEF AllocSlot, StartCall, TypeOK, Statuses
  <2>2. /\ slotInUse' \in [Slots -> BOOLEAN] /\ sel' \in [Threads -> Slots]
        /\ inUse' \in BOOLEAN /\ pc' \in [Threads -> PCs]
    BY <1>1 DEF AllocSlot, TypeOK, PCs
  <2>3. HasCall'
    BY <1>1 DEF AllocSlot, StartCall, TypeOK, HasCall
  <2>4. QED
    BY <1>1, <2>1, <2>2, <2>3 DEF AllocSlot, TypeOK
<1>2. ASSUME NEW t \in Threads, NEW c \in Calls, NoSlot(t, c) PROVE TypeInv'
  BY <1>2, Bounds DEF NoSlot, StartCall, TypeOK, HasCall, Statuses, slotVars
<1>3. ASSUME NEW t \in Threads, SelectInd(t) PROVE TypeInv'
  <2>1. Selected(t) \in SlotType
    BY <1>3, SelectedType DEF SelectInd, HasCall
  <2>2. slot' \in [Slots -> SlotType]
    BY <1>3, <2>1 DEF SelectInd, TypeOK
  <2>3. QED
    BY <1>3, <2>2 DEF SelectInd, TypeOK, HasCall, PCs, history
<1>4. ASSUME NEW t \in Threads, SendFails(t) PROVE TypeInv'
  <2>1. PICK st \in {"RETRY", "FAILURE"} : Iterate(t, st)
    BY <1>4 DEF SendFails
  <2>2. st \in Statuses
    BY DEF Statuses
  <2>3. QED
    BY <1>4, <2>1, <2>2, IterateType
       DEF SendFails, TypeOK, HasCall, slotVars, history
<1>5. ASSUME NEW t \in Threads, SendReq(t) PROVE TypeInv'
  <2>1. Kind(call[t]) \in Kinds
    BY <1>5, CallParts DEF SendReq, HasCall
  <2>2. inFlight' \in [Kinds -> 0 .. MaxInFlight]
    BY <1>5, <2>1, SyncReqAssumption DEF SendReq, TypeOK
  <2>3. QED
    BY <1>5, <2>2 DEF SendReq, TypeOK, HasCall, PCs, Statuses, slotVars
<1>6. ASSUME NEW t \in Threads, CheckSlot(t) PROVE TypeInv'
  <2>1. CASE slotInUse[sel[t]] /\ pc' = [pc EXCEPT ![t] = "lock"]
             /\ UNCHANGED <<retries, status>>
    BY <1>6, <2>1 DEF CheckSlot, TypeOK, HasCall, PCs, slotVars, history
  <2>2. CASE Iterate(t, "RETRY")
    BY <1>6, <2>2, IterateType
       DEF CheckSlot, TypeOK, HasCall, Statuses, slotVars, history
  <2>3. QED
    BY <1>6, <2>1, <2>2 DEF CheckSlot
<1>7. ASSUME NEW t \in Threads, LockSlot(t) PROVE TypeInv'
  <2>1. slot' \in [Slots -> SlotType]
    <3>1. [slot[sel[t]] EXCEPT !.waiting = TRUE] \in SlotType
      BY FlagType DEF TypeOK
    <3>2. QED
      BY <1>7, <3>1 DEF LockSlot, TypeOK
  <2>2. /\ pc' \in [Threads -> PCs] /\ status' \in [Threads -> Statuses]
        /\ HasCall'
    BY <1>7 DEF LockSlot, TypeOK, HasCall, PCs, Statuses
  <2>3. QED
    BY <1>7, <2>1, <2>2 DEF LockSlot, TypeOK, history
<1>8. ASSUME NEW t \in Threads, Timeout(t) PROVE TypeInv'
  BY <1>8 DEF Timeout, TypeOK, HasCall, PCs, Statuses, slotVars,
              history
<1>9. ASSUME NEW t \in Threads, Reacquire(t) PROVE TypeInv'
  <2>1. slot' \in [Slots -> SlotType]
    <3>1. slot \in [Slots -> SlotType] /\ slot' = [slot EXCEPT ![sel[t]].waiting = FALSE]
      BY <1>9 DEF Reacquire, TypeOK
    <3>2. QED
      BY <3>1 DEF SlotType
  <2>2. QED
    BY <1>9, <2>1 DEF Reacquire, TypeOK, HasCall, PCs, history
<1>10. ASSUME NEW t \in Threads, Free(t) PROVE TypeInv'
  <2>1. slot' \in [Slots -> SlotType]
    BY <1>10, ClearedType DEF Free, ClearSlot, TypeOK
  <2>2. QED
    BY <1>10, <2>1, FreeType DEF Free, TypeOK, HasCall
<1>11. ASSUME NEW t \in Threads, NEW u \in Threads, FreeRacesSelect(t, u)
       PROVE  TypeInv'
  <2>1. Selected(u) \in SlotType /\ call[u] \in Calls
    BY <1>11, SelectedType DEF FreeRacesSelect, HasCall
  <2>2. PICK client \in {NULL, call[u].client}, ind \in {NULL, call[u].ind},
             payload \in {NULL, Selected(u).payload} :
             slot' = [slot EXCEPT ![sel[t]] =
                      [Cleared EXCEPT !.client = client, !.ind = ind,
                                      !.payload = payload]]
    BY <1>11 DEF FreeRacesSelect
  <2>3. [Cleared EXCEPT !.client = client, !.ind = ind, !.payload = payload]
            \in SlotType
    BY <2>1, CallParts DEF Cleared, SlotType
  <2>4. slot' \in [Slots -> SlotType]
    BY <2>2, <2>3 DEF TypeOK
  <2>5. QED
    BY <1>11, <2>4, FreeType DEF FreeRacesSelect, TypeOK, HasCall
<1>12. ASSUME NEW k \in Kinds, ProcessInd(k) PROVE TypeInv'
  <2>1. inFlight' \in [Kinds -> 0 .. MaxInFlight] /\ inUse' \in BOOLEAN
    BY <1>12, NaturalBounds DEF ProcessInd, TypeOK
  <2>2. slot' \in [Slots -> SlotType]
    <3>1. \A s \in Slots : /\ slot[s] \in SlotType
                           /\ [slot[s] EXCEPT !.arrived = TRUE] \in SlotType
      BY FlagType DEF TypeOK
    <3>2. QED
      BY <1>12, <3>1 DEF ProcessInd
  <2>3. buf' \in [Threads -> Kinds \cup {NULL}]
    BY <1>12 DEF ProcessInd, TypeOK
  <2>4. answered' \in [Threads -> BOOLEAN]
    BY <1>12 DEF ProcessInd, TypeOK
  <2>5. pc' \in [Threads -> PCs] /\ HasCall'
    BY <1>12 DEF ProcessInd, TypeOK, PCs, HasCall
  <2>6. QED
    BY <1>12, <2>1, <2>2, <2>3, <2>4, <2>5 DEF ProcessInd, TypeOK
<1>13. CASE UNCHANGED vars
  BY <1>13 DEF vars, slotVars, threadVars, history, TypeOK, HasCall
<1>14. QED
  BY <1>1, <1>2, <1>3, <1>4, <1>5, <1>6, <1>7, <1>8, <1>9, <1>10, <1>11,
     <1>12, <1>13 DEF Next, CallStep, Progress

LEMMA TypeInvariant == Spec => []TypeInv
BY InitType, NextType, PTL DEF Spec

\* Every variable keeps the type the declarations of loc_sync_req_data_s_type
\* and loc_sync_req_array_s_type give it.
THEOREM TypeCorrect == Spec => []TypeOK
<1>1. TypeInv => TypeOK
  BY DEF TypeInv
<1>2. QED
  BY TypeInvariant, <1>1, PTL

-----------------------------------------------------------------------------
(* in_use is exact.  Only allocation, free and loc_sync_process_ind touch   *)
(* in_use or slot_in_use.                                                   *)

LEMMA FreeKeepsInUse ==
    ASSUME TypeInv, InUseIsExact, NEW t \in Threads, FreeSlot(t)
    PROVE  InUseIsExact'
<1> USE DEF TypeInv, TypeOK
<1>1. CASE \E r \in Slots \ {sel[t]} : slotInUse[r]
  <2>1. PICK r \in Slots \ {sel[t]} : slotInUse[r]
    BY <1>1
  <2>2. inUse' /\ slotInUse'[r]
    BY <2>1 DEF FreeSlot, InUseAfterFree, InUseIsExact
  <2>3. QED
    BY <2>1, <2>2 DEF InUseIsExact
<1>2. CASE ~ \E r \in Slots \ {sel[t]} : slotInUse[r]
  <2>1. ~inUse'
    BY <1>2 DEF FreeSlot, InUseAfterFree
  <2>2. \A r \in Slots : ~slotInUse'[r]
    BY <1>2 DEF FreeSlot
  <2>3. QED
    BY <2>1, <2>2 DEF InUseIsExact
<1>3. QED
  BY <1>1, <1>2

LEMMA NextInUse == TypeInv /\ InUseIsExact /\ [Next]_vars => InUseIsExact'
<1> SUFFICES ASSUME TypeInv, InUseIsExact, [Next]_vars PROVE InUseIsExact'
  OBVIOUS
<1>1. ASSUME NEW t \in Threads, NEW c \in Calls, AllocSlot(t, c)
      PROVE  InUseIsExact'
  <2>1. PICK s \in Slots : slotInUse' = [slotInUse EXCEPT ![s] = TRUE]
    BY <1>1 DEF AllocSlot
  <2>2. slotInUse'[s] /\ inUse'
    BY <1>1, <2>1 DEF AllocSlot, TypeInv, TypeOK
  <2>3. QED
    BY <2>2 DEF InUseIsExact
<1>2. ASSUME NEW t \in Threads, Free(t) PROVE InUseIsExact'
  BY <1>2, FreeKeepsInUse DEF Free
<1>3. ASSUME NEW t \in Threads, NEW u \in Threads, FreeRacesSelect(t, u)
      PROVE  InUseIsExact'
  BY <1>3, FreeKeepsInUse DEF FreeRacesSelect
<1>4. ASSUME NEW k \in Kinds, ProcessInd(k) PROVE InUseIsExact'
  BY <1>4 DEF ProcessInd, InUseIsExact
<1>5. ASSUME UNCHANGED <<inUse, slotInUse>> PROVE InUseIsExact'
  BY <1>5 DEF InUseIsExact
<1>6. ASSUME NEW t \in Threads, NEW c \in Calls, NoSlot(t, c)
      PROVE  UNCHANGED <<inUse, slotInUse>>
  BY <1>6 DEF NoSlot, slotVars
<1>7. ASSUME NEW t \in Threads,
             SelectInd(t) \/ SendFails(t) \/ SendReq(t) \/ CheckSlot(t)
             \/ LockSlot(t) \/ Timeout(t) \/ Reacquire(t)
      PROVE  UNCHANGED <<inUse, slotInUse>>
  BY <1>7 DEF SelectInd, SendFails, SendReq, CheckSlot, LockSlot, Timeout,
              Reacquire, slotVars
<1>8. CASE UNCHANGED vars
  BY <1>8, <1>5 DEF vars, slotVars
<1>9. QED
  BY <1>1, <1>2, <1>3, <1>4, <1>5, <1>6, <1>7, <1>8
     DEF Next, CallStep, Progress

\* loc_sync_array.in_use is true exactly while a slot is taken, so
\* loc_sync_process_ind drops an indication only when nobody can want it.
THEOREM InUseCorrect == Spec => []InUseIsExact
<1>1. Init => InUseIsExact
  BY DEF Init, InUseIsExact
<1>2. QED
  BY <1>1, NextInUse, TypeInvariant, PTL DEF Spec

-----------------------------------------------------------------------------
(* The payload pointers.  PointerIsLive is inductive given the types: a     *)
(* pointer is written by the select of its thread only, and the thread      *)
(* clears its slot before every return.                                     *)

\* What keeps the pointer property for the threads a step leaves alone.
LEMMA PointerFrame ==
    ASSUME TypeInv, PointerIsLive, NULL \notin Threads,
           UNCHANGED <<sel, call>>,
           \A u \in Threads : pc[u] # "idle" => pc'[u] # "idle",
           \A s \in Slots : slot'[s].payload \in {slot[s].payload, NULL}
    PROVE  PointerIsLive'
BY DEF PointerIsLive, TypeInv, TypeOK

\* A thread that returns has just emptied its slot.
LEMMA FreeKeepsPointers ==
    ASSUME TypeInv, PointerIsLive, NEW t \in Threads,
           UNCHANGED <<sel, call>>,
           \A u \in Threads \ {t} : pc'[u] = pc[u],
           slot'[sel[t]].payload = NULL \/
              \E u \in Threads \ {t} :
                 /\ slot'[sel[t]].payload = u
                 /\ pc[u] # "idle" /\ sel[u] = sel[t] /\ call[u].buf,
           \A s \in Slots \ {sel[t]} : slot'[s] = slot[s]
    PROVE  PointerIsLive'
<1> SUFFICES ASSUME NEW s \in Slots, NEW v \in Threads, slot'[s].payload = v
             PROVE  pc'[v] # "idle" /\ sel'[v] = s /\ call'[v].buf
  BY DEF PointerIsLive
<1>1. v # NULL
  BY SyncReqAssumption
<1>2. CASE s = sel[t]
  BY <1>1, <1>2
<1>3. CASE s # sel[t]
  <2>1. pc[v] # "idle" /\ sel[v] = s /\ call[v].buf
    BY <1>3 DEF PointerIsLive
  <2>2. v # t
    BY <2>1, <1>3
  <2>3. QED
    BY <2>1, <2>2
<1>4. QED
  BY <1>2, <1>3

LEMMA NextPointer == TypeInv /\ PointerIsLive /\ [Next]_vars => PointerIsLive'
<1> SUFFICES ASSUME TypeInv, PointerIsLive, [Next]_vars PROVE PointerIsLive'
  OBVIOUS
<1> USE DEF TypeInv, TypeOK
<1>0. NULL \notin Threads
  BY SyncReqAssumption
<1>1. ASSUME NEW t \in Threads, NEW c \in Calls, AllocSlot(t, c) \/ NoSlot(t, c)
      PROVE  PointerIsLive'
  BY <1>1 DEF AllocSlot, NoSlot, StartCall, slotVars, PointerIsLive
<1>2. ASSUME NEW t \in Threads, SelectInd(t) PROVE PointerIsLive'
  <2>1. \A s \in Slots : slot'[s].payload =
            IF s = sel[t] THEN (IF call[t].buf THEN t ELSE NULL)
                          ELSE slot[s].payload
    BY <1>2 DEF SelectInd, Selected
  <2>2. pc'[t] # "idle" /\ \A u \in Threads \ {t} : pc'[u] = pc[u]
    BY <1>2 DEF SelectInd
  <2>3. sel' = sel /\ call' = call
    BY <1>2 DEF SelectInd
  <2>4. QED
    BY <1>0, <2>1, <2>2, <2>3 DEF PointerIsLive
<1>3. ASSUME NEW t \in Threads,
             SendFails(t) \/ SendReq(t) \/ CheckSlot(t)
             \/ Timeout(t)
      PROVE  PointerIsLive'
  <2>1. UNCHANGED <<sel, call, slot>>
    BY <1>3 DEF SendFails, SendReq, CheckSlot, Timeout, slotVars
  <2>2. \A u \in Threads : pc[u] # "idle" => pc'[u] # "idle"
    BY <1>3 DEF SendFails, SendReq, CheckSlot, Timeout, Iterate
  <2>3. QED
    BY <1>0, <2>1, <2>2, PointerFrame
<1>4. ASSUME NEW t \in Threads, LockSlot(t) \/ Reacquire(t) PROVE PointerIsLive'
  <2>1. UNCHANGED <<sel, call>>
    BY <1>4 DEF LockSlot, Reacquire
  <2>2. \A u \in Threads : pc[u] # "idle" => pc'[u] # "idle"
    BY <1>4 DEF LockSlot, Reacquire
  <2>3. \A s \in Slots : slot'[s].payload = slot[s].payload
    <3>1. CASE LockSlot(t)
      <4>1. \/ slot' = slot
            \/ slot' = [slot EXCEPT ![sel[t]].waiting = TRUE]
        BY <3>1 DEF LockSlot
      <4>2. QED
        BY <4>1 DEF SlotType
    <3>2. CASE Reacquire(t)
      BY <3>2 DEF Reacquire, SlotType
    <3>3. QED
      BY <1>4, <3>1, <3>2
  <2>4. QED
    BY <1>0, <2>1, <2>2, <2>3, PointerFrame
<1>5. ASSUME NEW t \in Threads, Free(t) PROVE PointerIsLive'
  <2>1. \A u \in Threads \ {t} : pc'[u] = pc[u]
    BY <1>5, FreeType DEF Free
  <2>2. slot'[sel[t]].payload = NULL /\ \A s \in Slots \ {sel[t]} : slot'[s] = slot[s]
    BY <1>5 DEF Free, ClearSlot, Cleared
  <2>3. UNCHANGED <<sel, call>>
    BY <1>5 DEF Free
  <2>4. QED
    BY <2>1, <2>2, <2>3, FreeKeepsPointers
<1>6. ASSUME NEW t \in Threads, NEW u \in Threads, FreeRacesSelect(t, u)
      PROVE  PointerIsLive'
  <2>1. \A w \in Threads \ {t} : pc'[w] = pc[w]
    BY <1>6, FreeType DEF FreeRacesSelect
  <2>2. /\ slot'[sel[t]].payload \in {NULL, Selected(u).payload}
        /\ \A s \in Slots \ {sel[t]} : slot'[s] = slot[s]
    BY <1>6 DEF FreeRacesSelect, Cleared
  <2>3. Selected(u).payload = (IF call[u].buf THEN u ELSE NULL)
    BY DEF Selected
  <2>4. UNCHANGED <<sel, call>> /\ u # t /\ pc[u] = "select" /\ sel[u] = sel[t]
    BY <1>6 DEF FreeRacesSelect
  <2>5. QED
    BY <2>1, <2>2, <2>3, <2>4, FreeKeepsPointers
<1>7. ASSUME NEW k \in Kinds, ProcessInd(k) PROVE PointerIsLive'
  <2>1. UNCHANGED <<sel, call>>
    BY <1>7 DEF ProcessInd
  <2>2. \A u \in Threads : pc[u] # "idle" => pc'[u] # "idle"
    BY <1>7 DEF ProcessInd
  <2>3. \A s \in Slots : slot'[s].payload = slot[s].payload
    BY <1>7 DEF ProcessInd, SlotType
  <2>4. QED
    BY <1>0, <2>1, <2>2, <2>3, PointerFrame
<1>8. CASE UNCHANGED vars
  BY <1>8 DEF vars, slotVars, threadVars, PointerIsLive
<1>9. QED
  BY <1>1, <1>2, <1>3, <1>4, <1>5, <1>6, <1>7, <1>8 DEF Next, CallStep, Progress

\* No slot points at the payload buffer of a call that has returned, even
\* when a failing call has freed a slot it no longer owned.
THEOREM PointersLive == Spec => []PointerIsLive
<1>1. Init => PointerIsLive
  BY SyncReqAssumption DEF Init, PointerIsLive, Cleared
<1>2. QED
  BY <1>1, NextPointer, TypeInvariant, PTL DEF Spec

-----------------------------------------------------------------------------
(* What is copied through a pointer.  A slot that points at a thread's      *)
(* buffer names the kind that thread expects, or none: both are written by  *)
(* the same select, and what a racing free leaves of it is NULL.            *)

SlotOfPointer ==
    \A s \in Slots, t \in Threads :
        slot[s].payload = t =>
            /\ slot[s].client \in {NULL, call[t].client}
            /\ slot[s].ind \in {NULL, call[t].ind}

\* A step that keeps what the slots say and the calls of those they point at.
LEMMA SlotFrame ==
    ASSUME SlotOfPointer,
           \A s \in Slots : /\ slot'[s].payload = slot[s].payload
                            /\ slot'[s].client = slot[s].client
                            /\ slot'[s].ind = slot[s].ind,
           \A s \in Slots, t \in Threads : slot[s].payload = t => call'[t] = call[t]
    PROVE  SlotOfPointer'
BY DEF SlotOfPointer

\* A step that writes one slot.
LEMMA OneSlot ==
    ASSUME SlotOfPointer, NEW r \in Slots, UNCHANGED call,
           \A s \in Slots \ {r} : slot'[s] = slot[s],
           \A t \in Threads : slot'[r].payload = t =>
               /\ slot'[r].client \in {NULL, call[t].client}
               /\ slot'[r].ind \in {NULL, call[t].ind}
    PROVE  SlotOfPointer'
BY DEF SlotOfPointer

LEMMA NextSlotOfPointer ==
    TypeInv /\ PointerIsLive /\ SlotOfPointer /\ [Next]_vars => SlotOfPointer'
<1> SUFFICES ASSUME TypeInv, PointerIsLive, SlotOfPointer, [Next]_vars
             PROVE  SlotOfPointer'
  OBVIOUS
<1> USE DEF TypeInv, TypeOK
<1>0. NULL \notin Threads
  BY SyncReqAssumption
<1>1. ASSUME NEW t \in Threads, NEW c \in Calls, AllocSlot(t, c) \/ NoSlot(t, c)
      PROVE  SlotOfPointer'
  <2>1. slot' = slot /\ pc[t] = "idle" /\ \A u \in Threads \ {t} : call'[u] = call[u]
    BY <1>1 DEF AllocSlot, NoSlot, StartCall, slotVars
  <2>2. \A s \in Slots : slot[s].payload # t
    BY <2>1 DEF PointerIsLive
  <2>3. QED
    BY <2>1, <2>2, SlotFrame
<1>2. ASSUME NEW t \in Threads, SelectInd(t) PROVE SlotOfPointer'
  <2>1. sel[t] \in Slots /\ UNCHANGED call
    BY <1>2 DEF SelectInd
  <2>2. slot'[sel[t]] = Selected(t) /\ \A s \in Slots \ {sel[t]} : slot'[s] = slot[s]
    BY <1>2 DEF SelectInd
  <2>3. ASSUME NEW u \in Threads, slot'[sel[t]].payload = u
        PROVE  /\ slot'[sel[t]].client \in {NULL, call[u].client}
               /\ slot'[sel[t]].ind \in {NULL, call[u].ind}
    BY <1>0, <2>2, <2>3 DEF Selected
  <2>4. QED
    BY <2>1, <2>2, <2>3, OneSlot
<1>3. ASSUME NEW t \in Threads, SendFails(t) \/ SendReq(t) \/ CheckSlot(t) \/ Timeout(t)
      PROVE  SlotOfPointer'
  BY <1>3 DEF SendFails, SendReq, CheckSlot, Timeout, slotVars, SlotOfPointer
<1>4. ASSUME NEW t \in Threads, LockSlot(t) \/ Reacquire(t) PROVE SlotOfPointer'
  <2>1. UNCHANGED call
    BY <1>4 DEF LockSlot, Reacquire
  <2>2. \/ slot' = slot
        \/ slot' = [slot EXCEPT ![sel[t]].waiting = TRUE]
        \/ slot' = [slot EXCEPT ![sel[t]].waiting = FALSE]
    BY <1>4 DEF LockSlot, Reacquire
  <2>3. ASSUME NEW s \in Slots
        PROVE  /\ slot'[s].payload = slot[s].payload
               /\ slot'[s].client = slot[s].client
               /\ slot'[s].ind = slot[s].ind
    <3>1. slot[s] \in SlotType
      OBVIOUS
    <3>2. \/ slot'[s] = slot[s]
          \/ slot'[s] = [slot[s] EXCEPT !.waiting = TRUE]
          \/ slot'[s] = [slot[s] EXCEPT !.waiting = FALSE]
      BY <2>2
    <3>3. QED
      BY <3>1, <3>2 DEF SlotType
  <2>4. QED
    BY <2>1, <2>3, SlotFrame
<1>5. ASSUME NEW t \in Threads, Free(t) PROVE SlotOfPointer'
  <2>1. sel[t] \in Slots /\ UNCHANGED call
    BY <1>5 DEF Free
  <2>2. slot'[sel[t]] = Cleared /\ \A s \in Slots \ {sel[t]} : slot'[s] = slot[s]
    BY <1>5 DEF Free, ClearSlot
  <2>3. QED
    BY <1>0, <2>1, <2>2, OneSlot DEF Cleared
<1>6. ASSUME NEW t \in Threads, NEW u \in Threads, FreeRacesSelect(t, u)
      PROVE  SlotOfPointer'
  <2>1. sel[t] \in Slots /\ UNCHANGED call
    BY <1>6 DEF FreeRacesSelect
  <2>2. /\ slot'[sel[t]].payload \in {NULL, Selected(u).payload}
        /\ slot'[sel[t]].client \in {NULL, call[u].client}
        /\ slot'[sel[t]].ind \in {NULL, call[u].ind}
        /\ \A s \in Slots \ {sel[t]} : slot'[s] = slot[s]
    BY <1>6 DEF FreeRacesSelect, Cleared
  <2>3. Selected(u).payload \in {u, NULL}
    BY DEF Selected
  <2>4. QED
    BY <1>0, <2>1, <2>2, <2>3, OneSlot
<1>7. ASSUME NEW k \in Kinds, ProcessInd(k) PROVE SlotOfPointer'
  <2>1. UNCHANGED call
    BY <1>7 DEF ProcessInd
  <2>2. \A s \in Slots : slot'[s] = slot[s] \/ slot'[s] = [slot[s] EXCEPT !.arrived = TRUE]
    BY <1>7 DEF ProcessInd
  <2>3. ASSUME NEW s \in Slots
        PROVE  /\ slot'[s].payload = slot[s].payload
               /\ slot'[s].client = slot[s].client
               /\ slot'[s].ind = slot[s].ind
    <3>1. slot[s] \in SlotType
      OBVIOUS
    <3>2. slot'[s] = slot[s] \/ slot'[s] = [slot[s] EXCEPT !.arrived = TRUE]
      BY <2>2
    <3>3. QED
      BY <3>1, <3>2 DEF SlotType
  <2>4. QED
    BY <2>1, <2>3, SlotFrame
<1>8. CASE UNCHANGED vars
  BY <1>8 DEF vars, slotVars, threadVars, SlotOfPointer
<1>9. QED
  BY <1>1, <1>2, <1>3, <1>4, <1>5, <1>6, <1>7, <1>8 DEF Next, CallStep, Progress

\* One step copies only what is expected.
LEMMA CopiesExpected ==
    ASSUME TypeInv, PointerIsLive, SlotOfPointer, Next, NEW t \in Threads,
           buf'[t] \notin {buf[t], NULL}
    PROVE  pc[t] # "idle" /\ buf'[t] = Kind(call[t])
<1> USE DEF TypeInv, TypeOK
<1>1. PICK k \in Kinds : ProcessInd(k)
  <2>1. ASSUME NEW u \in Threads, NEW c \in Calls, AllocSlot(u, c) \/ NoSlot(u, c) PROVE FALSE
    BY <2>1 DEF AllocSlot, NoSlot, StartCall
  <2>2. ASSUME NEW u \in Threads, Progress(u) PROVE FALSE
    BY <2>2 DEF Progress, SelectInd, SendFails, SendReq, CheckSlot, LockSlot, Timeout,
                Reacquire, Free
  <2>3. ASSUME NEW u \in Threads, NEW v \in Threads, FreeRacesSelect(u, v) PROVE FALSE
    BY <2>3 DEF FreeRacesSelect
  <2>4. QED
    BY <2>1, <2>2, <2>3 DEF Next, CallStep
<1>2. PICK s \in Slots : Matches(s, k) /\ slot[s].payload = t /\ buf'[t] = k
  BY <1>1 DEF ProcessInd, Reached
<1>3. pc[t] # "idle"
  BY <1>2 DEF PointerIsLive
<1>4. PICK c \in Calls : k = <<c.client, c.ind>>
  BY DEF Kinds, Kind
<1>5. k[1] # NULL /\ k[2] # NULL /\ k = <<k[1], k[2]>>
  BY <1>4, SyncReqAssumption, CallParts
<1>6. slot[s].client = k[1] /\ slot[s].ind = k[2]
  BY <1>2 DEF Matches
<1>7. k[1] = call[t].client /\ k[2] = call[t].ind
  BY <1>2, <1>5, <1>6 DEF SlotOfPointer
<1>8. QED
  BY <1>2, <1>3, <1>5, <1>7 DEF Kind

\* loc_sync_process_ind copies an indication only into the buffer of a thread
\* inside a call for that client and indication, whatever the callers before it
\* left in the slot and whoever freed it meanwhile.
THEOREM ExpectedPayloads == Spec => OnlyExpectedPayload
<1>1. Init => PointerIsLive /\ SlotOfPointer
  BY SyncReqAssumption DEF Init, PointerIsLive, SlotOfPointer, Cleared
<1>2. TypeInv /\ PointerIsLive /\ SlotOfPointer /\ [Next]_vars
      => [\A t \in Threads : buf'[t] \notin {buf[t], NULL} =>
             pc[t] # "idle" /\ buf'[t] = Kind(call[t])]_vars
  BY CopiesExpected
<1>3. QED
  BY <1>1, <1>2, NextPointer, NextSlotOfPointer, TypeInvariant, PTL
     DEF Spec, OnlyExpectedPayload

-----------------------------------------------------------------------------
(* Exclusive slots and wakeups, until a failing call frees the slot of      *)
(* another.  Undisturbed is inductive: ThreadSafe alone is not enough for   *)
(* the wakeups, which need to know the flags of the slot at each step.      *)

\* A thread whose own variables and slot do not change keeps its part.
LEMMA ThreadFrame ==
    ASSUME NEW t \in Threads, ThreadInv(t),
           pc'[t] = pc[t], freed'[t] = freed[t], sel'[t] = sel[t],
           status'[t] = status[t], answered'[t] = answered[t],
           pc[t] \notin {"idle", "fail"} => slot'[sel[t]] = slot[sel[t]]
    PROVE  ThreadInv(t)'
BY DEF ThreadInv

\* While nothing was stolen, two threads inside a call and not yet done with
\* their slots have different slots.
LEMMA Distinct ==
    ASSUME ThreadSafe, TypeInv,
           NEW t \in Threads, NEW u \in Threads \ {t},
           pc[t] \notin {"idle", "fail"}, pc[u] \notin {"idle", "fail"},
           ThreadInv(t), ThreadInv(u)
    PROVE  sel[t] # sel[u]
BY DEF ThreadSafe, ThreadInv, Holds, TypeInv, TypeOK

\* A step that moves only thread t, writes at most its slot and leaves the
\* allocation alone keeps everything once it keeps the part of t.
LEMMA LocalStep ==
    ASSUME TypeInv, ThreadSafe, FreeSlotsAreClear,
           \A v \in Threads : ThreadInv(v),
           NEW t \in Threads, pc[t] \notin {"idle", "fail"}, pc'[t] # "idle",
           UNCHANGED <<slotInUse, sel, freed, answered>>,
           \A u \in Threads \ {t} : pc'[u] = pc[u] /\ status'[u] = status[u],
           \A s \in Slots \ {sel[t]} : slot'[s] = slot[s],
           ThreadInv(t)'
    PROVE  /\ ThreadSafe' /\ FreeSlotsAreClear'
           /\ \A u \in Threads : ThreadInv(u)'
<1>1. Holds(t, sel[t]) /\ slotInUse[sel[t]]
  BY DEF ThreadInv, Holds, ThreadSafe, TypeInv, TypeOK
<1>2. ThreadSafe'
  BY DEF ThreadSafe, Holds
<1>3. FreeSlotsAreClear'
  BY <1>1 DEF FreeSlotsAreClear
<1>4. ASSUME NEW u \in Threads PROVE ThreadInv(u)'
  <2>1. CASE u = t
    BY <2>1
  <2>2. CASE u # t /\ pc[u] \in {"idle", "fail"}
    BY <2>2, ThreadFrame
  <2>3. CASE u # t /\ pc[u] \notin {"idle", "fail"}
    <3>1. sel[u] # sel[t] /\ sel[u] \in Slots
      BY <2>3, Distinct DEF TypeInv, TypeOK
    <3>2. QED
      BY <2>3, <3>1, ThreadFrame
  <2>4. QED
    BY <2>1, <2>2, <2>3
<1>5. QED
  BY <1>2, <1>3, <1>4

\* A free that steals nothing.
LEMMA CleanFree ==
    ASSUME TypeInv, ThreadSafe, FreeSlotsAreClear,
           \A v \in Threads : ThreadInv(v),
           NEW t \in Threads, FreeSlot(t), AfterWait(t) \/ AfterFail(t),
           UNCHANGED <<sel, answered>>,
           ~stolen', slot' = [slot EXCEPT ![sel[t]] = Cleared]
    PROVE  /\ ThreadSafe' /\ FreeSlotsAreClear'
           /\ \A u \in Threads : ThreadInv(u)'
<1> USE DEF TypeInv, TypeOK
<1>1. \A u \in Threads \ {t} : ~Holds(u, sel[t])
  BY DEF FreeSlot
<1>2. \A u \in Threads \ {t} : /\ pc'[u] = pc[u] /\ freed'[u] = freed[u]
                               /\ status'[u] = status[u]
  <2>1. \A u \in Threads \ {t} : pc'[u] = pc[u] /\ freed'[u] = freed[u]
    BY FreeType DEF FreeSlot
  <2>2. \A u \in Threads \ {t} : status'[u] = status[u]
    BY DEF AfterWait, AfterFail, Iterate
  <2>3. QED
    BY <2>1, <2>2
<1>3. freed'[t] /\ pc'[t] \in {"idle", "fail"}
  BY DEF FreeSlot, AfterWait, AfterFail, Iterate, ThreadInv, Statuses
<1>4. ASSUME NEW u \in Threads, NEW s \in Slots, Holds(u, s)'
      PROVE  Holds(u, s) /\ u # t /\ s # sel[t]
  BY <1>1, <1>2, <1>3, <1>4 DEF Holds
<1>5. ThreadSafe'
  BY <1>4 DEF ThreadSafe, FreeSlot
<1>6. FreeSlotsAreClear'
  BY DEF FreeSlotsAreClear, FreeSlot
<1>7. ASSUME NEW u \in Threads PROVE ThreadInv(u)'
  <2>1. CASE u = t
    BY <1>3, <2>1 DEF ThreadInv
  <2>2. CASE u # t
    <3>1. pc[u] \notin {"idle", "fail"} => sel[u] # sel[t]
      BY <1>1, <2>2 DEF ThreadInv, Holds
    <3>2. QED
      BY <1>2, <2>2, <3>1, ThreadFrame
  <2>3. QED
    BY <2>1, <2>2
<1>8. QED
  BY <1>5, <1>6, <1>7

LEMMA NextUndisturbed ==
    TypeInv /\ Undisturbed /\ [Next]_vars => Undisturbed'
<1> SUFFICES ASSUME TypeInv, Undisturbed, [Next]_vars, ~stolen'
             PROVE  /\ ThreadSafe' /\ FreeSlotsAreClear'
                    /\ \A t \in Threads : ThreadInv(t)'
  BY DEF Undisturbed
<1>0. /\ ~stolen /\ ThreadSafe /\ FreeSlotsAreClear
      /\ \A t \in Threads : ThreadInv(t)
  <2>1. stolen => stolen'
    BY DEF Next, CallStep, Progress, AllocSlot, NoSlot, SelectInd, SendFails,
           SendReq, CheckSlot, LockSlot, Timeout, Reacquire, Free,
           FreeSlot, FreeRacesSelect, ProcessInd, vars, history
  <2>2. QED
    BY <2>1 DEF Undisturbed
<1> DEFINE Kept == /\ ThreadSafe' /\ FreeSlotsAreClear'
                   /\ \A t \in Threads : ThreadInv(t)'
<1>1. ASSUME NEW t \in Threads, NEW c \in Calls, AllocSlot(t, c) PROVE Kept
  <2>1. PICK s \in Slots : /\ ~slotInUse[s]
                           /\ slotInUse' = [slotInUse EXCEPT ![s] = TRUE]
                           /\ sel' = [sel EXCEPT ![t] = s]
    BY <1>1 DEF AllocSlot, FirstFree
  <2>2. /\ pc[t] = "idle" /\ pc'[t] = "select" /\ sel'[t] = s
        /\ ~freed'[t] /\ ~answered'[t] /\ slot' = slot
        /\ \A u \in Threads \ {t} :
              /\ pc'[u] = pc[u] /\ sel'[u] = sel[u] /\ freed'[u] = freed[u]
              /\ status'[u] = status[u] /\ answered'[u] = answered[u]
    BY <1>1, <2>1 DEF AllocSlot, StartCall, TypeInv, TypeOK
  <2>3. \A u \in Threads : ~Holds(u, s)
    BY <1>0, <2>1 DEF ThreadSafe
  <2>4. ThreadSafe'
    BY <1>0, <2>1, <2>2, <2>3 DEF ThreadSafe, Holds, TypeInv, TypeOK
  <2>5. FreeSlotsAreClear'
    BY <1>0, <2>1, <2>2 DEF FreeSlotsAreClear, TypeInv, TypeOK
  <2>6. slot'[s] = Cleared
    BY <1>0, <2>1, <2>2 DEF FreeSlotsAreClear
  <2>7. ThreadInv(t)'
    BY <2>2, <2>6 DEF ThreadInv
  <2>8. \A u \in Threads \ {t} : ThreadInv(u)'
    BY <1>0, <2>2, ThreadFrame
  <2>9. QED
    BY <2>4, <2>5, <2>7, <2>8
<1>2. ASSUME NEW t \in Threads, NEW c \in Calls, NoSlot(t, c) PROVE Kept
  <2>1. /\ pc[t] = "idle" /\ UNCHANGED <<slot, slotInUse, pc, sel>>
        /\ \A u \in Threads \ {t} :
              /\ freed'[u] = freed[u] /\ status'[u] = status[u]
              /\ answered'[u] = answered[u]
    BY <1>2 DEF NoSlot, StartCall, slotVars, TypeInv, TypeOK
  <2>2. ThreadSafe' /\ FreeSlotsAreClear'
    BY <1>0, <2>1 DEF ThreadSafe, Holds, FreeSlotsAreClear
  <2>3. ThreadInv(t)'
    BY <2>1 DEF ThreadInv
  <2>4. \A u \in Threads \ {t} : ThreadInv(u)'
    BY <1>0, <2>1, ThreadFrame
  <2>5. QED
    BY <2>2, <2>3, <2>4
<1>3. ASSUME NEW t \in Threads, SelectInd(t) PROVE Kept
  <2>1. /\ pc[t] = "select" /\ pc'[t] = "send" /\ slot'[sel[t]] = Selected(t)
        /\ UNCHANGED <<slotInUse, sel, freed, answered, status>>
        /\ \A u \in Threads \ {t} : pc'[u] = pc[u]
        /\ \A s \in Slots \ {sel[t]} : slot'[s] = slot[s]
    BY <1>3 DEF SelectInd, history, TypeInv, TypeOK
  <2>2. ThreadInv(t)'
    BY <1>0, <2>1 DEF ThreadInv, Selected
  <2>3. QED
    BY <1>0, <2>1, <2>2, LocalStep
<1>4. ASSUME NEW t \in Threads, SendFails(t) PROVE Kept
  <2>1. /\ pc[t] = "send" /\ pc'[t] \in {"send", "fail"}
        /\ UNCHANGED <<slot, slotInUse, sel, freed, answered>>
        /\ \A u \in Threads \ {t} : pc'[u] = pc[u] /\ status'[u] = status[u]
    BY <1>4 DEF SendFails, Iterate, slotVars, history, TypeInv, TypeOK
  <2>2. ThreadInv(t)'
    BY <1>0, <2>1 DEF ThreadInv
  <2>3. QED
    BY <1>0, <2>1, <2>2, LocalStep
<1>5. ASSUME NEW t \in Threads, SendReq(t) PROVE Kept
  <2>1. /\ pc[t] = "send" /\ pc'[t] = "check" /\ status'[t] = "SUCCESS"
        /\ UNCHANGED <<slot, slotInUse, sel, freed, answered>>
        /\ \A u \in Threads \ {t} : pc'[u] = pc[u] /\ status'[u] = status[u]
    BY <1>5 DEF SendReq, slotVars, TypeInv, TypeOK
  <2>2. ThreadInv(t)'
    BY <1>0, <2>1 DEF ThreadInv
  <2>3. QED
    BY <1>0, <2>1, <2>2, LocalStep
<1>6. ASSUME NEW t \in Threads, CheckSlot(t) PROVE Kept
  <2>1. pc[t] = "check" /\ slotInUse[sel[t]]
    BY <1>0, <1>6 DEF CheckSlot, ThreadInv, ThreadSafe, Holds, TypeInv, TypeOK
  <2>2. /\ pc'[t] = "lock" /\ status' = status
        /\ UNCHANGED <<slot, slotInUse, sel, freed, answered>>
        /\ \A u \in Threads \ {t} : pc'[u] = pc[u]
    BY <1>6, <2>1 DEF CheckSlot, slotVars, history, TypeInv, TypeOK
  <2>3. ThreadInv(t)'
    BY <1>0, <2>1, <2>2 DEF ThreadInv
  <2>4. QED
    BY <1>0, <2>1, <2>2, <2>3, LocalStep
<1>7. ASSUME NEW t \in Threads, LockSlot(t) PROVE Kept
  <2>1. pc[t] = "lock" /\ ~slot[sel[t]].waiting /\ status[t] = "SUCCESS"
        /\ (answered[t] => slot[sel[t]].arrived) /\ ~freed[t]
    BY <1>0, <1>7 DEF LockSlot, ThreadInv
  <2>2. /\ UNCHANGED <<slotInUse, sel, freed, answered, status>>
        /\ \A u \in Threads \ {t} : pc'[u] = pc[u]
        /\ \A s \in Slots \ {sel[t]} : slot'[s] = slot[s]
    BY <1>7, <2>1 DEF LockSlot, history, TypeInv, TypeOK
  <2>3. \/ pc'[t] = "free"
        \/ pc'[t] = "asleep" /\ slot'[sel[t]].waiting /\ ~slot[sel[t]].arrived
    BY <1>7, <2>1 DEF LockSlot, TypeInv, TypeOK, SlotType
  <2>4. ThreadInv(t)'
    BY <2>1, <2>2, <2>3 DEF ThreadInv
  <2>5. QED
    BY <1>0, <2>1, <2>2, <2>3, <2>4, LocalStep
<1>8. ASSUME NEW t \in Threads, Timeout(t) PROVE Kept
  <2>1. /\ pc[t] = "asleep" /\ pc'[t] = "woken"
        /\ status'[t] \in {"TIMEOUT", status[t]}
        /\ UNCHANGED <<slot, slotInUse, sel, freed, answered>>
        /\ \A u \in Threads \ {t} : pc'[u] = pc[u] /\ status'[u] = status[u]
    BY <1>8 DEF Timeout, slotVars, history, TypeInv, TypeOK
  <2>2. ThreadInv(t)'
    BY <1>0, <2>1 DEF ThreadInv
  <2>3. QED
    BY <1>0, <2>1, <2>2, LocalStep
<1>9. ASSUME NEW t \in Threads, Reacquire(t) PROVE Kept
  <2>1. /\ pc[t] = "woken" /\ pc'[t] = "free"
        /\ UNCHANGED <<slotInUse, sel, freed, answered, status>>
        /\ \A u \in Threads \ {t} : pc'[u] = pc[u]
        /\ \A s \in Slots \ {sel[t]} : slot'[s] = slot[s]
    BY <1>9 DEF Reacquire, history, TypeInv, TypeOK
  <2>2. ThreadInv(t)'
    BY <1>0, <2>1 DEF ThreadInv
  <2>3. QED
    BY <1>0, <2>1, <2>2, LocalStep
<1>10. ASSUME NEW t \in Threads, Free(t) PROVE Kept
  <2>1. /\ FreeSlot(t) /\ (AfterWait(t) \/ AfterFail(t))
        /\ UNCHANGED <<sel, answered>>
        /\ slot' = [slot EXCEPT ![sel[t]] = Cleared]
    BY <1>10 DEF Free, ClearSlot
  <2>2. QED
    BY <1>0, <2>1, CleanFree
<1>11. ASSUME NEW t \in Threads, NEW u \in Threads, FreeRacesSelect(t, u)
       PROVE  Kept
  <2>1. Holds(u, sel[t]) /\ u # t
    BY <1>0, <1>11 DEF FreeRacesSelect, ThreadInv, Holds
  <2>2. stolen'
    BY <1>11, <2>1 DEF FreeRacesSelect, FreeSlot
  <2>3. QED
    BY <2>2
<1>12. ASSUME NEW k \in Kinds, ProcessInd(k) PROVE Kept
  <2> DEFINE hit == IF inUse THEN {s \in Slots : Reached(s, k)} ELSE {}
             signalled == {s \in hit : slot[s].waiting}
  <2>1. /\ UNCHANGED <<slotInUse, sel, status, freed>>
        /\ \A s \in Slots : slot'[s] = IF s \in hit \ signalled
                               THEN [slot[s] EXCEPT !.arrived = TRUE]
                               ELSE slot[s]
        /\ \A t \in Threads :
              answered'[t] = (answered[t] \/ \E s \in hit : Holds(t, s))
    BY <1>12 DEF ProcessInd
  <2>2. PICK woken \in SUBSET {t \in Threads : pc[t] = "asleep" /\ sel[t] \in signalled} :
           /\ \A s \in signalled : Sleepers(s) # {} =>
                 \E t \in Sleepers(s) : woken \cap Sleepers(s) = {t}
           /\ pc' = [t \in Threads |-> IF t \in woken THEN "woken" ELSE pc[t]]
    BY <1>12 DEF ProcessInd
  <2>3. \A s \in hit : slotInUse[s] /\ slot[s] # Cleared /\ s \in Slots
    <3>1. k[1] # NULL
      BY SyncReqAssumption DEF Kinds, Kind, Clients
    <3>2. QED
      BY <3>1 DEF Reached, Matches, Cleared
  <2>4. ThreadSafe'
    BY <1>0, <2>1, <2>2 DEF ThreadSafe, Holds
  <2>5. FreeSlotsAreClear'
    BY <1>0, <2>1, <2>3 DEF FreeSlotsAreClear
  <2>6. ASSUME NEW t \in Threads PROVE ThreadInv(t)'
    <3>1. sel[t] \in Slots /\ slot[sel[t]] \in SlotType
      BY DEF TypeInv, TypeOK
    <3>2. CASE pc[t] \in {"idle", "fail"}
      BY <2>1, <2>2, <3>2 DEF ThreadInv
    <3>3. CASE pc[t] = "select"
      <4>1. sel[t] \notin hit /\ slot[sel[t]] = Cleared /\ ~answered[t]
        BY <1>0, <2>3, <3>3 DEF ThreadInv
      <4>2. slot'[sel[t]] = Cleared /\ ~answered'[t]
        BY <2>1, <3>1, <4>1 DEF Holds
      <4>3. pc'[t] = "select" /\ ~freed'[t]
        BY <1>0, <2>1, <2>2, <3>3 DEF ThreadInv
      <4>4. QED
        BY <2>1, <4>2, <4>3 DEF ThreadInv
    <3>4. CASE pc[t] \in {"send", "check", "lock"}
      <4>1. sel[t] \notin signalled
        BY <1>0, <3>4 DEF ThreadInv
      <4>2. sel[t] \in hit => slot'[sel[t]].arrived
        BY <2>1, <3>1, <4>1 DEF SlotType
      <4>3. slot'[sel[t]].waiting = slot[sel[t]].waiting
            /\ (slot[sel[t]].arrived => slot'[sel[t]].arrived)
        BY <2>1, <3>1 DEF SlotType
      <4>4. pc'[t] = pc[t] /\ (answered'[t] => answered[t] \/ sel[t] \in hit)
        BY <2>1, <2>2, <3>4 DEF Holds
      <4>5. QED
        BY <1>0, <2>1, <3>4, <4>2, <4>3, <4>4 DEF ThreadInv
    <3>5. CASE pc[t] = "asleep"
      <4>1. \A u \in Threads \ {t} : u \notin Sleepers(sel[t])
        BY <1>0, <3>1, <3>5 DEF Sleepers, ThreadInv, ThreadSafe, Holds
      <4>2. sel[t] \in signalled => t \in woken
        BY <2>2, <3>5, <4>1 DEF Sleepers
      <4>3. sel[t] \in hit => sel[t] \in signalled
        BY <1>0, <3>5 DEF ThreadInv
      <4>4. slot'[sel[t]].waiting
        BY <1>0, <2>1, <3>1, <3>5 DEF ThreadInv, SlotType
      <4>5. CASE t \in woken
        BY <1>0, <2>1, <2>2, <3>5, <4>5 DEF ThreadInv
      <4>6. CASE t \notin woken
        <5>1. ~answered'[t]
          <6>1. sel[t] \notin hit /\ ~answered[t]
            BY <1>0, <3>5, <4>2, <4>3, <4>6 DEF ThreadInv
          <6>2. QED
            BY <2>1, <6>1 DEF Holds
        <5>2. QED
          BY <1>0, <2>1, <2>2, <3>5, <4>4, <4>6, <5>1 DEF ThreadInv
      <4>7. QED
        BY <4>5, <4>6
    <3>6. CASE pc[t] \in {"woken", "free"}
      BY <1>0, <2>1, <2>2, <3>6 DEF ThreadInv
    <3>7. QED
      BY <3>2, <3>3, <3>4, <3>5, <3>6 DEF TypeInv, TypeOK, PCs
  <2>7. QED
    BY <2>4, <2>5, <2>6
<1>13. CASE UNCHANGED vars
  BY <1>0, <1>13 DEF vars, slotVars, threadVars, history, ThreadSafe, Holds,
                     FreeSlotsAreClear, ThreadInv
<1>14. QED
  BY <1>1, <1>2, <1>3, <1>4, <1>5, <1>6, <1>7, <1>8, <1>9, <1>10, <1>11,
     <1>12, <1>13 DEF Next, CallStep, Progress

LEMMA UndisturbedInvariant == Spec => []Undisturbed
<1>1. Init => Undisturbed
  BY DEF Init, Undisturbed, ThreadSafe, Holds, FreeSlotsAreClear, ThreadInv
<1>2. QED
  BY <1>1, NextUndisturbed, TypeInvariant, PTL DEF Spec

\* Until a failing call frees a slot that is no longer its own, a slot that a
\* call holds is in use and nobody else holds it, for any number of threads
\* and slots.
THEOREM ExclusiveSlots == Spec => []ExclusiveUntilStolen
<1>1. Undisturbed => ExclusiveUntilStolen
  BY DEF Undisturbed, ExclusiveUntilStolen, ThreadSafe
<1>2. QED
  BY <1>1, UndisturbedInvariant, PTL

\* Until then no wakeup is lost either: loc_sync_wait_for_ind never sleeps on
\* an indication that loc_sync_process_ind has already delivered to it.
THEOREM NoWakeupLost == Spec => []NoLostAnswer
<1>1. Undisturbed => NoLostAnswer
  BY DEF Undisturbed, NoLostAnswer, ThreadInv
<1>2. QED
  BY <1>1, UndisturbedInvariant, PTL
=============================================================================
