------------------------------ MODULE SyncReq ------------------------------
(***************************************************************************)
(* The synchronous request layer of the Loc API v02 client                 *)
(* (gps/loc_api/loc_api_v02/loc_api_sync_req.c).                           *)
(*                                                                         *)
(* A client thread takes one of a few slots, writes into it which          *)
(* indication it expects, sends the request to the modem and sleeps on the *)
(* condition variable of the slot.  The QMI callback thread runs           *)
(* loc_sync_process_ind for every indication, copies the payload through   *)
(* the pointer of the first matching slot and signals its condition        *)
(* variable.  The modem and locClientSendReq are external: a send succeeds *)
(* or fails, and a request that was sent may be answered at any later time *)
(* or never.                                                               *)
(*                                                                         *)
(* The steps follow the lock regions.  loc_sync_process_ind holds          *)
(* loc_sync_call_mutex throughout, so it excludes alloc and free and is    *)
(* one step; select and wait hold only the lock of their slot.             *)
(***************************************************************************)
EXTENDS Naturals, FiniteSets

CONSTANTS
    Threads,          \* client threads
    NSlots,           \* LOC_SYNC_REQ_BUFFER_SIZE
    Calls,            \* what a thread may ask: [client, ind, buf]
    NULL,             \* the null pointer, invalid handle and indication 0
    MaxRetries,       \* sendReqRetryRem
    MaxInFlight,      \* bound: unanswered requests of one kind
    SpuriousWakeups   \* whether pthread_cond_timedwait may wake by itself

Slots == 0 .. NSlots - 1

\* The kind of an indication: whom it is for and which one it is.
Kind(c) == <<c.client, c.ind>>
Kinds == {Kind(c) : c \in Calls}
Clients == {c.client : c \in Calls}
Inds == {c.ind : c \in Calls}

\* ENGINE_BUSY, PHONE_OFFLINE and INTERNAL are treated alike: RETRY.
Statuses == {"SUCCESS", "TIMEOUT", "RETRY", "FAILURE"}

ASSUME SyncReqAssumption ==
    /\ NSlots \in Nat \ {0}
    /\ MaxRetries \in Nat
    /\ MaxInFlight \in Nat \ {0}
    /\ SpuriousWakeups \in BOOLEAN
    /\ NULL \notin Threads \cup Clients \cup Inds
    /\ \A c \in Calls : c = [client |-> c.client, ind |-> c.ind, buf |-> c.buf]
    /\ \A c \in Calls : c.buf \in BOOLEAN

VARIABLES
    inUse,        \* loc_sync_array.in_use
    slotInUse,    \* loc_sync_array.slot_in_use
    slot,         \* loc_sync_array.slots
    pc,           \* where each thread is in loc_sync_send_req
    sel,          \* its select_id
    call,         \* its arguments
    retries,      \* its sendReqRetryRem
    status,       \* its status; the last result when idle
    inFlight,     \* external: answers the modem still owes, by kind
    buf,          \* what was last copied into the payload buffer of a thread
    sent,         \* history: the call handed its request to the modem
    freed,        \* history: the call already gave its slot back
    answered,     \* history: an indication was delivered to the call
    stolen        \* history: a call freed a slot another call was holding

slotVars == <<inUse, slotInUse, slot>>
threadVars == <<pc, sel, call, retries, status>>
history == <<sent, freed, answered, stolen>>
vars == <<slotVars, threadVars, inFlight, buf, history>>

Cleared == [client |-> NULL, ind |-> NULL, waiting |-> FALSE,
            arrived |-> FALSE, payload |-> NULL]

SlotType == [client : Clients \cup {NULL}, ind : Inds \cup {NULL},
             waiting : BOOLEAN, arrived : BOOLEAN,
             payload : Threads \cup {NULL}]

PCs == {"idle", "select", "send", "check", "lock", "asleep", "woken",
        "free", "fail"}

NoCall == [client |-> NULL, ind |-> NULL, buf |-> FALSE]

Init ==
    /\ inUse = FALSE
    /\ slotInUse = [s \in Slots |-> FALSE]
    /\ slot = [s \in Slots |-> Cleared]
    /\ pc = [t \in Threads |-> "idle"]
    /\ sel = [t \in Threads |-> 0]
    /\ call = [t \in Threads |-> NoCall]
    /\ retries = [t \in Threads |-> 0]
    /\ status = [t \in Threads |-> "FAILURE"]
    /\ inFlight = [k \in Kinds |-> 0]
    /\ buf = [t \in Threads |-> NULL]
    /\ sent = [t \in Threads |-> FALSE]
    /\ freed = [t \in Threads |-> FALSE]
    /\ answered = [t \in Threads |-> FALSE]
    /\ stolen = FALSE

\* A thread that took slot s and has not given it back.
Holds(t, s) == pc[t] # "idle" /\ ~freed[t] /\ sel[t] = s

Sleepers(s) == {t \in Threads : pc[t] = "asleep" /\ sel[t] = s}

-----------------------------------------------------------------------------
(* loc_sync_send_req, up to the allocation: loc_alloc_slot takes the first  *)
(* free slot under loc_sync_call_mutex.                                     *)

FirstFree_bug(s) == TRUE
FirstFree(s) == ~slotInUse[s] /\ \A r \in Slots : r < s => slotInUse[r]

StartCall(t, c) ==
    /\ pc[t] = "idle"
    /\ call' = [call EXCEPT ![t] = c]
    /\ retries' = [retries EXCEPT ![t] = MaxRetries]
    /\ status' = [status EXCEPT ![t] = "SUCCESS"]
    /\ buf' = [buf EXCEPT ![t] = NULL]
    /\ sent' = [sent EXCEPT ![t] = FALSE]
    /\ freed' = [freed EXCEPT ![t] = FALSE]
    /\ answered' = [answered EXCEPT ![t] = FALSE]

AllocSlot(t, c) ==
    /\ StartCall(t, c)
    /\ \E s \in Slots :
          /\ FirstFree(s)
          /\ slotInUse' = [slotInUse EXCEPT ![s] = TRUE]
          /\ sel' = [sel EXCEPT ![t] = s]
    /\ inUse' = TRUE
    /\ pc' = [pc EXCEPT ![t] = "select"]
    /\ UNCHANGED <<slot, inFlight, stolen>>

\* loc_sync_select_ind returns -ENOMEM, loc_sync_send_req skips everything
\* else and returns the status it was initialised with.
NoSlot(t, c) ==
    /\ StartCall(t, c)
    /\ \A s \in Slots : slotInUse[s]
    /\ UNCHANGED <<slotVars, pc, sel, inFlight, stolen>>

\* What loc_sync_select_ind writes for thread t.
Selected(t) ==
    [client |-> call[t].client, ind |-> call[t].ind, waiting |-> FALSE,
     arrived |-> FALSE, payload |-> IF call[t].buf THEN t ELSE NULL]

SelectInd(t) ==
    /\ pc[t] = "select"
    /\ slot' = [slot EXCEPT ![sel[t]] = Selected(t)]
    /\ pc' = [pc EXCEPT ![t] = "send"]
    /\ UNCHANGED <<inUse, slotInUse, sel, call, retries, status, inFlight,
                   buf, history>>

-----------------------------------------------------------------------------
(* The do-while loop of loc_sync_send_req.                                  *)

\* The end of an iteration that produced status st.
Iterate_forever(t, st) ==
    /\ status' = [status EXCEPT ![t] = st]
    /\ pc' = [pc EXCEPT ![t] = IF st = "RETRY" THEN "send" ELSE "fail"]
    /\ UNCHANGED retries

Iterate(t, st) ==
    /\ status' = [status EXCEPT ![t] = st]
    /\ \/ /\ st = "RETRY" /\ retries[t] > 0
          /\ retries' = [retries EXCEPT ![t] = @ - 1]
          /\ pc' = [pc EXCEPT ![t] = "send"]
       \/ /\ st = "RETRY" /\ retries[t] = 0
          /\ pc' = [pc EXCEPT ![t] = "fail"]
          /\ UNCHANGED retries
       \/ /\ st \in {"TIMEOUT", "FAILURE"}
          /\ pc' = [pc EXCEPT ![t] = "fail"]
          /\ UNCHANGED retries

\* locClientSendReq (external) fails: the loop retries or gives up.
SendFails(t) ==
    /\ pc[t] = "send"
    /\ \E st \in {"RETRY", "FAILURE"} : Iterate(t, st)
    /\ UNCHANGED <<slotVars, sel, call, inFlight, buf, history>>

\* It succeeds: from now on the modem may answer.
SendReq(t) ==
    /\ pc[t] = "send"
    /\ inFlight[Kind(call[t])] < MaxInFlight
    /\ inFlight' = [inFlight EXCEPT ![Kind(call[t])] = @ + 1]
    /\ status' = [status EXCEPT ![t] = "SUCCESS"]
    /\ sent' = [sent EXCEPT ![t] = TRUE]
    /\ pc' = [pc EXCEPT ![t] = "check"]
    /\ UNCHANGED <<slotVars, sel, call, retries, buf, freed, answered, stolen>>

-----------------------------------------------------------------------------
(* loc_sync_wait_for_ind.                                                   *)

\* The test of slot_in_use is made without a lock.
CheckSlot(t) ==
    /\ pc[t] = "check"
    /\ \/ /\ slotInUse[sel[t]]
          /\ pc' = [pc EXCEPT ![t] = "lock"]
          /\ UNCHANGED <<retries, status>>
       \/ /\ ~slotInUse[sel[t]]
          /\ Iterate(t, "RETRY")
    /\ UNCHANGED <<slotVars, sel, call, inFlight, buf, history>>

LockSlot_bug(t) ==
    /\ pc[t] = "lock"
    /\ slot' = [slot EXCEPT ![sel[t]].waiting = TRUE]
    /\ pc' = [pc EXCEPT ![t] = "asleep"]
    /\ UNCHANGED <<inUse, slotInUse, sel, call, retries, status, inFlight,
                   buf, history>>

LockSlot(t) ==
    /\ pc[t] = "lock"
    /\ LET me == slot[sel[t]] IN
       \/ /\ me.arrived
          /\ pc' = [pc EXCEPT ![t] = "free"]
          /\ UNCHANGED <<slot, status>>
       \/ /\ ~me.arrived /\ me.waiting            \* -EBUSY
          /\ status' = [status EXCEPT ![t] = "RETRY"]
          /\ pc' = [pc EXCEPT ![t] = "free"]
          /\ UNCHANGED slot
       \/ /\ ~me.arrived /\ ~me.waiting
          /\ slot' = [slot EXCEPT ![sel[t]].waiting = TRUE]
          /\ pc' = [pc EXCEPT ![t] = "asleep"]
          /\ UNCHANGED status
    /\ UNCHANGED <<inUse, slotInUse, sel, call, retries, inFlight, buf,
                   history>>

\* pthread_cond_timedwait gives up, or returns although nobody signalled.
Timeout(t) ==
    /\ pc[t] = "asleep"
    /\ \/ status' = [status EXCEPT ![t] = "TIMEOUT"]
       \/ SpuriousWakeups /\ UNCHANGED status
    /\ pc' = [pc EXCEPT ![t] = "woken"]
    /\ UNCHANGED <<slotVars, sel, call, retries, inFlight, buf, history>>

\* It has the lock of the slot again.
Reacquire(t) ==
    /\ pc[t] = "woken"
    /\ slot' = [slot EXCEPT ![sel[t]].waiting = FALSE]
    /\ pc' = [pc EXCEPT ![t] = "free"]
    /\ UNCHANGED <<inUse, slotInUse, sel, call, retries, status, inFlight,
                   buf, history>>

-----------------------------------------------------------------------------
(* loc_free_slot, under loc_sync_call_mutex but without the lock of the     *)
(* slot it clears.                                                          *)

InUseAfterFree(s) == IF \E r \in Slots \ {s} : slotInUse[r] THEN inUse ELSE FALSE

FreeSlot(t) ==
    /\ slotInUse' = [slotInUse EXCEPT ![sel[t]] = FALSE]
    /\ inUse' = InUseAfterFree(sel[t])
    /\ freed' = [freed EXCEPT ![t] = TRUE]
    /\ stolen' = (stolen \/ \E u \in Threads \ {t} : Holds(u, sel[t]))

\* The call at the end of loc_sync_wait_for_ind and what follows it.
AfterWait(t) ==
    /\ pc[t] = "free"
    /\ IF status[t] = "SUCCESS"
       THEN pc' = [pc EXCEPT ![t] = "idle"] /\ UNCHANGED <<retries, status>>
       ELSE Iterate(t, status[t])

\* The call at the end of loc_sync_send_req, on every failure.
AfterFail(t) ==
    /\ pc[t] = "fail"
    /\ pc' = [pc EXCEPT ![t] = "idle"]
    /\ UNCHANGED <<retries, status>>

ClearSlot_bug(s) == [slot EXCEPT ![s].waiting = FALSE]
ClearSlot(s) == [slot EXCEPT ![s] = Cleared]

Free(t) ==
    /\ AfterWait(t) \/ AfterFail(t)
    /\ FreeSlot(t)
    /\ slot' = ClearSlot(sel[t])
    /\ UNCHANGED <<sel, call, inFlight, buf, sent, answered>>

\* The same while u is inside loc_sync_select_ind on that slot.  The two
\* writers share no lock, so each field may keep the value of either.
FreeRacesSelect(t, u) ==
    /\ AfterWait(t) \/ AfterFail(t)
    /\ FreeSlot(t)
    /\ t # u /\ pc[u] = "select" /\ sel[u] = sel[t]
    /\ \E client \in {NULL, call[u].client}, ind \in {NULL, call[u].ind},
          payload \in {NULL, Selected(u).payload} :
          slot' = [slot EXCEPT ![sel[t]] =
                      [Cleared EXCEPT !.client = client, !.ind = ind,
                                      !.payload = payload]]
    /\ UNCHANGED <<sel, call, inFlight, buf, sent, answered>>

-----------------------------------------------------------------------------
(* loc_sync_process_ind.                                                    *)

Matches_bug(s, k) ==
    slotInUse[s] /\ slot[s].client = k[1] /\ ~slot[s].arrived

Matches(s, k) ==
    /\ slotInUse[s]
    /\ slot[s].client = k[1] /\ slot[s].ind = k[2]
    /\ ~slot[s].arrived

\* The scan ends at the first matching slot that has a payload pointer.
Reached(s, k) ==
    /\ Matches(s, k)
    /\ \A r \in Slots : r < s /\ Matches(r, k) => slot[r].payload = NULL

ProcessInd(k) ==
    /\ inFlight[k] > 0
    /\ inFlight' = [inFlight EXCEPT ![k] = @ - 1]
    /\ LET hit == IF inUse THEN {s \in Slots : Reached(s, k)} ELSE {}
           signalled == {s \in hit : slot[s].waiting}
       IN
       /\ slot' = [s \in Slots |->
                     IF s \in hit \ signalled
                     THEN [slot[s] EXCEPT !.arrived = TRUE] ELSE slot[s]]
       /\ buf' = [t \in Threads |->
                     IF \E s \in hit : slot[s].payload = t THEN k ELSE buf[t]]
       /\ answered' = [t \in Threads |->
                     answered[t] \/ \E s \in hit : Holds(t, s)]
       \* pthread_cond_signal wakes one of those who sleep there
       /\ \E woken \in SUBSET {t \in Threads : pc[t] = "asleep" /\ sel[t] \in signalled} :
            /\ \A s \in signalled : Sleepers(s) # {} =>
                  \E t \in Sleepers(s) : woken \cap Sleepers(s) = {t}
            /\ pc' = [t \in Threads |->
                        IF t \in woken THEN "woken" ELSE pc[t]]
    /\ inUse' = (inUse /\ \E s \in Slots : slotInUse[s])
    /\ UNCHANGED <<slotInUse, sel, call, retries, status, sent, freed, stolen>>

-----------------------------------------------------------------------------
CallStep(t) == \E c \in Calls : AllocSlot(t, c) \/ NoSlot(t, c)

\* What the scheduler owes a thread that is inside a call.
Progress(t) ==
    \/ SelectInd(t) \/ SendFails(t) \/ SendReq(t) \/ CheckSlot(t)
    \/ LockSlot(t) \/ Timeout(t) \/ Reacquire(t) \/ Free(t)

Next ==
    \/ \E t \in Threads : CallStep(t) \/ Progress(t)
    \/ \E t, u \in Threads : FreeRacesSelect(t, u)
    \/ \E k \in Kinds : ProcessInd(k)

Spec == Init /\ [][Next]_vars
FairSpec == Spec /\ \A t \in Threads : WF_vars(Progress(t))

-----------------------------------------------------------------------------
TypeOK ==
    /\ inUse \in BOOLEAN
    /\ slotInUse \in [Slots -> BOOLEAN]
    /\ slot \in [Slots -> SlotType]
    /\ pc \in [Threads -> PCs]
    /\ sel \in [Threads -> Slots]
    /\ call \in [Threads -> Calls \cup {NoCall}]
    /\ retries \in [Threads -> 0 .. MaxRetries]
    /\ status \in [Threads -> Statuses]
    /\ inFlight \in [Kinds -> 0 .. MaxInFlight]
    /\ buf \in [Threads -> Kinds \cup {NULL}]
    /\ sent \in [Threads -> BOOLEAN]
    /\ freed \in [Threads -> BOOLEAN]
    /\ answered \in [Threads -> BOOLEAN]
    /\ stolen \in BOOLEAN

\* loc_sync_process_ind drops every indication while in_use is false, so
\* in_use must be true exactly while some slot is taken: a free of one slot
\* must not shut the others off.
InUseIsExact == inUse <=> \E s \in Slots : slotInUse[s]

\* A slot points at the payload buffer of a thread only while that thread is
\* inside loc_sync_send_req with this slot selected: the buffer is usually on
\* the stack of the caller, and memcpy would write into a dead frame.
PointerIsLive ==
    \A s \in Slots, t \in Threads :
        slot[s].payload = t =>
            /\ pc[t] \notin {"idle"}
            /\ sel[t] = s
            /\ call[t].buf

\* loc_sync_process_ind copies an indication only into the buffer of a thread
\* that is inside a call for exactly that client and indication, so the size
\* and type of the payload are those the caller expects.
OnlyExpectedPayload ==
    [][\A t \in Threads :
          buf'[t] \notin {buf[t], NULL} =>
              pc[t] # "idle" /\ buf'[t] = Kind(call[t])]_vars

\* As long as no failing call has freed a slot it had already given back,
\* a slot that a call holds is marked used and is held by that call alone.
ExclusiveUntilStolen ==
    ~stolen => \A t \in Threads, s \in Slots :
        Holds(t, s) => /\ slotInUse[s]
                       /\ \A u \in Threads \ {t} : ~Holds(u, s)

\* Under the same condition no wakeup is lost: a thread never sleeps on an
\* answer that has been delivered to it, whether it came before or during
\* the wait.
NoLostAnswer ==
    ~stolen => \A t \in Threads : pc[t] = "asleep" => ~answered[t]

\* Every synchronous request returns, whatever the modem does: the wait times
\* out and the retries run out.
EveryCallReturns == \A t \in Threads : pc[t] # "idle" ~> pc[t] = "idle"

=============================================================================
