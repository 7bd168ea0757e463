------------------------------- MODULE DsNif -------------------------------
(***************************************************************************)
(* The emergency data call of the location engine (DSStateMachine in       *)
(* gps/loc_api/libloc_api_50001/loc_eng_agps.cpp): the states of the AGPS  *)
(* machine with subscribers that wait for the close to complete, on top of *)
(* the data services client (gps/loc_api/ds_api/ds_client.c through        *)
(* LocApiV02.cpp).  A data call that cannot be started is retried by a     *)
(* timer, or the client falls back to an ordinary connection of agnss_nif  *)
(* (see AgpsNif).                                                          *)
(*                                                                         *)
(* The engine's message thread takes one message to a step; the timer      *)
(* thread and the data services thread only post messages to it.  The      *)
(* modem uses a handle for one connection.                                 *)
(***************************************************************************)
EXTENDS Naturals, Sequences, FiniteSets

CONSTANTS Handles,       \* connection handles of emergency SUPL
          Services,      \* what the data service may be like: the results of
                         \* starting a call, whether the retry timer may fail
          MaxRetries,    \* MAX_START_DATA_CALL_RETRIES
          MaxInbox,      \* bound: messages waiting for the engine
          MaxRestarts    \* bound: modem restarts

ASSUME DsAssumption ==
    /\ Services \subseteq [results : SUBSET {"SUCCESS", "BUSY", "UNSUPPORTED"},
                            timerFails : BOOLEAN]
    /\ MaxRetries \in Nat
    /\ MaxInbox \in Nat
    /\ MaxRestarts \in Nat

VARIABLES
    state,          \* mStatePtr
    subs,           \* mSubscribers: the latest first
    retries,        \* mRetries
    timers,         \* retry timers under way
    inbox,          \* messages to the engine
    call,           \* the data call
    told,           \* what the modem was told last of each handle
    atl,            \* handles that agnss_nif serves
    restarts,
    service         \* which of Services it is

vars == <<state, subs, retries, timers, inbox, call, told, atl, restarts, service>>

Msg(ev, id) == [ev |-> ev, id |-> id]
Event(ev) == [ev |-> ev]

Init ==
    /\ state = "Released"
    /\ subs = <<>>
    /\ retries = 0
    /\ timers = 0
    /\ inbox = <<>>
    /\ call = "down"
    /\ told = [h \in Handles |-> "idle"]
    /\ atl = {}
    /\ restarts = 0
    /\ service \in Services

-----------------------------------------------------------------------------
(* The subscriber list.                                                     *)

Ids(list) == {list[i].id : i \in DOMAIN list}

\* The active subscribers, in their order.
Active(list) ==
    LET at == {i \in DOMAIN list : ~list[i].inactive}
        nth(k) == CHOOSE i \in at : Cardinality({j \in at : j <= i}) = k
    IN [k \in 1 .. Cardinality(at) |-> list[nth(k)]]

\* addSubscriber: at the head, unless the handle is there already.
AddSubscriber(h) ==
    IF h \in Ids(subs) THEN subs
    ELSE <<[id |-> h, inactive |-> FALSE]>> \o subs

SetInactive(h) ==
    [i \in DOMAIN subs |-> IF subs[i].id = h THEN [subs[i] EXCEPT !.inactive = TRUE]
                           ELSE subs[i]]

Tell(H, what) == told' = [h \in Handles |-> IF h \in H THEN what ELSE told[h]]

\* informStatus(RSRC_DENIED) for each handle of the sequence: ask for it at
\* agnss_nif, behind the messages that are waiting.
FallBack(hs) ==
    /\ retries' = IF hs = <<>> THEN retries ELSE 0
    /\ inbox' = Tail(inbox) \o [i \in DOMAIN hs |-> Msg("ATL", hs[i])]

IdsInOrder(list) == [i \in DOMAIN list |-> list[i].id]

-----------------------------------------------------------------------------
(* DSStateMachine::sendRsrcRequest, while the message at the head of the    *)
(* inbox is served.                                                         *)

StartTimer ==
    \/ timers' = timers + 1
    \/ service.timerFails /\ UNCHANGED timers

\* The client whose request falls back is the latest active one.
Latest(list) ==
    IF Active(list) = <<>> THEN <<>> ELSE <<Head(Active(list)).id>>

TryLater(list) ==
    IF retries + 1 > MaxRetries
    THEN FallBack(Latest(list)) /\ UNCHANGED timers
    ELSE StartTimer /\ retries' = retries + 1 /\ inbox' = Tail(inbox)

Refused(list) ==
    /\ UNCHANGED call
    /\ \/ "BUSY" \in service.results /\ TryLater(list)
       \/ "UNSUPPORTED" \in service.results /\ FallBack(Latest(list)) /\ UNCHANGED timers

Accepted ==
    /\ "SUCCESS" \in service.results
    /\ call' = "starting"
    /\ inbox' = Tail(inbox)
    /\ UNCHANGED <<retries, timers>>

StopDataCall ==
    call' = IF call \in {"starting", "up"} THEN "stopping" ELSE call

-----------------------------------------------------------------------------
(* RSRC_SUBSCRIBE in each state, for a request of the modem or of the retry *)
(* timer.                                                                   *)

SubscribeReleased(h) ==
    /\ state = "Released"
    /\ subs' = AddSubscriber(h)
    /\ \/ Accepted /\ state' = "Pending"
       \/ Refused(subs') /\ UNCHANGED state
    /\ UNCHANGED told

SubscribeWaiting(h) ==
    /\ state \in {"Pending", "Releasing"}
    /\ subs' = AddSubscriber(h)
    /\ inbox' = Tail(inbox)
    /\ UNCHANGED <<state, retries, timers, call, told>>

SubscribeAcquired(h) ==
    /\ state = "Acquired"
    /\ subs' = AddSubscriber(h)
    /\ inbox' = Tail(inbox)
    /\ Tell({h}, "open")
    /\ UNCHANGED <<state, retries, timers, call>>

RequestSuplEs ==
    /\ inbox # <<>>
    /\ Head(inbox).ev = "SUPL_ES"
    /\ LET h == Head(inbox).id
       IN SubscribeReleased(h) \/ SubscribeWaiting(h) \/ SubscribeAcquired(h)
    /\ UNCHANGED <<atl, restarts, service>>

\* LocEngRequestATL of a handle that falls back.
RequestAtl ==
    /\ inbox # <<>>
    /\ Head(inbox).ev = "ATL"
    /\ inbox' = Tail(inbox)
    /\ atl' = atl \cup {Head(inbox).id}
    /\ UNCHANGED <<state, subs, retries, timers, call, told, restarts, service>>

-----------------------------------------------------------------------------
(* LocEngReleaseATL: agnss_nif is tried first, then this machine.           *)

Unsubscribe_nowait(h) ==
    \/ state = "Released" /\ UNCHANGED <<state, subs, call>>
    \/ /\ state # "Released"
       /\ subs' = SelectSeq(subs, LAMBDA s : s.id # h)
       /\ IF state # "Releasing" /\ Active(subs') = <<>>
          THEN state' = "Released" /\ StopDataCall
          ELSE UNCHANGED <<state, call>>

Unsubscribe_nostop(h) ==
    \/ state = "Released" /\ UNCHANGED <<state, subs, call>>
    \/ /\ state # "Released"
       /\ subs' = SetInactive(h)
       /\ UNCHANGED <<state, call>>

\* RSRC_UNSUBSCRIBE: in Released nothing but the notification; elsewhere the
\* subscriber stays on the list, inactive, and the call is stopped with the
\* last active one.
Unsubscribe(h) ==
    \/ state = "Released" /\ UNCHANGED <<state, subs, call>>
    \/ /\ state # "Released"
       /\ subs' = SetInactive(h)
       /\ IF state # "Releasing" /\ Active(subs') = <<>>
          THEN state' = "Releasing" /\ StopDataCall
          ELSE UNCHANGED <<state, call>>

ReleaseAtl ==
    /\ inbox # <<>>
    /\ Head(inbox).ev = "RELEASE"
    /\ inbox' = Tail(inbox)
    /\ LET h == Head(inbox).id IN
       /\ Tell({h}, "closed")
       /\ atl' = atl \ {h}
       /\ IF h \notin atl /\ h \in Ids(subs)
          THEN Unsubscribe(h)
          ELSE UNCHANGED <<state, subs, call>>
    /\ UNCHANGED <<retries, timers, restarts, service>>

-----------------------------------------------------------------------------
(* Events of the data call: LocEngSuplEsOpened and LocEngSuplEsClosed.      *)

OnGranted ==
    /\ inbox # <<>>
    /\ Head(inbox).ev = "CONNECTED"
    /\ inbox' = Tail(inbox)
    /\ IF state = "Pending"
       THEN state' = "Acquired" /\ Tell(Ids(Active(subs)), "open")
       ELSE UNCHANGED <<state, told>>
    /\ UNCHANGED <<subs, retries, timers, call, atl, restarts, service>>

\* A state that does not change on RSRC_RELEASED is given RSRC_DENIED; in
\* Released neither has an effect.  In Acquired the call handle is closed
\* and the modem is not told.
ReleasedInReleased ==
    /\ state = "Released"
    /\ inbox' = Tail(inbox)
    /\ UNCHANGED <<state, subs, retries, timers, call>>

ReleasedInPending ==
    /\ state = "Pending"
    /\ state' = "Released"
    /\ subs' = <<>>
    /\ FallBack(IdsInOrder(subs))
    /\ UNCHANGED <<timers, call>>

ReleasedInAcquired ==
    /\ state = "Acquired"
    /\ state' = "Released"
    /\ subs' = <<>>
    /\ inbox' = Tail(inbox)
    /\ UNCHANGED <<retries, timers, call>>

ReleasedInReleasing_forget ==
    /\ state = "Releasing"
    /\ subs' = Active(subs)
    /\ state' = IF subs' = <<>> THEN "Released" ELSE "Pending"
    /\ inbox' = Tail(inbox)
    /\ UNCHANGED <<retries, timers, call>>

\* The inactive subscribers go; for the others the call is requested again,
\* and the state is Pending whatever becomes of that.
ReleasedInReleasing ==
    /\ state = "Releasing"
    /\ subs' = Active(subs)
    /\ IF subs' = <<>>
       THEN /\ state' = "Released"
            /\ inbox' = Tail(inbox)
            /\ UNCHANGED <<retries, timers, call>>
       ELSE state' = "Pending" /\ (Accepted \/ Refused(subs'))

OnReleased ==
    /\ inbox # <<>>
    /\ Head(inbox).ev = "DISCONNECTED"
    /\ \/ ReleasedInReleased
       \/ ReleasedInPending
       \/ ReleasedInAcquired
       \/ ReleasedInReleasing
    /\ UNCHANGED <<told, atl, restarts, service>>

\* loc_eng_handle_engine_up: only the subscribers of agnss_nif are dropped.
EngineUp ==
    /\ restarts < MaxRestarts
    /\ restarts' = restarts + 1
    /\ atl' = {}
    /\ Tell(Handles, "idle")
    /\ UNCHANGED <<state, subs, retries, timers, inbox, call, service>>

-----------------------------------------------------------------------------
\* delay_callback and retryCallback, on the timer thread.
RetryCallback ==
    /\ timers > 0
    /\ timers' = timers - 1
    /\ inbox' = inbox \o [i \in DOMAIN Latest(subs) |-> Msg("SUPL_ES", Latest(subs)[i])]
    /\ UNCHANGED <<state, subs, retries, call, told, atl, restarts, service>>

\* The modem (external) asks for a handle once and then releases it.
ModemRequest(h) ==
    /\ told[h] = "idle"
    /\ Len(inbox) < MaxInbox
    /\ inbox' = Append(inbox, Msg("SUPL_ES", h))
    /\ Tell({h}, "asked")
    /\ UNCHANGED <<state, subs, retries, timers, call, atl, restarts, service>>

ModemRelease(h) ==
    /\ told[h] \in {"asked", "open"}
    /\ Len(inbox) < MaxInbox
    /\ inbox' = Append(inbox, Msg("RELEASE", h))
    /\ Tell({h}, "leaving")
    /\ UNCHANGED <<state, subs, retries, timers, call, atl, restarts, service>>

\* net_ev_cb, on the data services thread: the call comes up (which may be
\* reported twice), fails, is lost, or has been stopped.
CallUp ==
    /\ call \in {"starting", "up"}
    /\ call = "up" => Len(inbox) < MaxInbox
    /\ call' = "up"
    /\ inbox' = Append(inbox, Event("CONNECTED"))
    /\ UNCHANGED <<state, subs, retries, timers, told, atl, restarts, service>>

CallDown ==
    /\ call # "down"
    /\ call = "up" => Len(inbox) < MaxInbox
    /\ call' = "down"
    /\ inbox' = Append(inbox, Event("DISCONNECTED"))
    /\ UNCHANGED <<state, subs, retries, timers, told, atl, restarts, service>>

\* agnss_nif opens, or denies or loses, a handle that fell back to it.
AtlAnswer(h) ==
    /\ h \in atl
    /\ told[h] = "asked"
    /\ \/ Tell({h}, "open") /\ UNCHANGED atl
       \/ Tell({h}, "closed") /\ atl' = atl \ {h}
    /\ UNCHANGED <<state, subs, retries, timers, inbox, call, restarts, service>>

Engine == RequestSuplEs \/ RequestAtl \/ ReleaseAtl \/ OnGranted \/ OnReleased

Settle == call \in {"starting", "stopping"} /\ (CallUp \/ CallDown)

Next ==
    \/ \E h \in Handles : ModemRequest(h) \/ ModemRelease(h) \/ AtlAnswer(h)
    \/ Engine
    \/ EngineUp
    \/ RetryCallback
    \/ CallUp
    \/ CallDown

Spec == Init /\ [][Next]_vars

\* The message thread and the timers run, a call that is being started or
\* stopped comes up or goes down, and agnss_nif answers (AtlContract).
FairSpec ==
    /\ Spec
    /\ WF_vars(Engine) /\ WF_vars(RetryCallback) /\ WF_vars(Settle)
    /\ \A h \in Handles : WF_vars(AtlAnswer(h))

-----------------------------------------------------------------------------
(* Properties.                                                              *)

Waiting(ev) == \E i \in DOMAIN inbox : inbox[i].ev = ev

\* The data service starts every call that it is asked for.
AlwaysStarts == service.results = {"SUCCESS"} /\ ~service.timerFails

\* The machine believes that it has the call only while it has it, or while
\* the news of its loss are on their way.
AcquiredHasCall == state = "Acquired" => call = "up" \/ Waiting("DISCONNECTED")

\* A call is requested only when the one before it has ended: a machine that
\* is about to request one has none (openAndStartDataCall would overwrite
\* the handle of a call that still runs).
CallEndedFirst ==
    \/ state = "Released"
    \/ state = "Releasing" /\ inbox # <<>> /\ Head(inbox).ev = "DISCONNECTED"
    => call = "down"

\* "already requested for NIF resource, do nothing until we get RSRC_GRANTED
\* indication" (AgpsPendingState): a Pending machine has a call starting or
\* its outcome on the way.  A call that could not be started leaves none.
PendingAsked ==
    state = "Pending" =>
        call = "starting" \/ Waiting("CONNECTED") \/ Waiting("DISCONNECTED")

\* "the list should really be empty" (AgpsReleasedState), which a client whose
\* request fell back to agnss_nif contradicts: he stays on it.
ReleasedEmpty == state = "Released" => subs = <<>>

\* The machine and the data call agree: it never thinks it has a call that it
\* has not, never starts a second one over a first, and, if calls can be
\* started, waits for nothing that does not come and keeps no client it has
\* done with.
CallInStep ==
    /\ AcquiredHasCall
    /\ CallEndedFirst
    /\ AlwaysStarts => PendingAsked /\ ReleasedEmpty

\* Every emergency request gets an answer: opened, closed, or given up by
\* the modem itself.  It is about the modem before it restarts: OnEngineUp
\* forgets nobody here, and a handle that the modem uses again while the call
\* is stopped is taken for the subscriber who left, and dropped with him.
EveryRequestAnswered == \A h \in Handles :
    AlwaysStarts /\ told[h] = "asked" /\ restarts = 0 ~> told[h] # "asked"

\* The call comes to an end once every client that asked has left, unless
\* the modem restarts: it does not release what it asked for before, and the
\* call then stays up.  A client who fell back and is still on the list is
\* released at agnss_nif alone, and his call stays up too.
Gone == \A h \in Handles : told[h] \in {"idle", "closed"}
CallGivenBack == AlwaysStarts /\ Gone /\ restarts = 0 ~> call = "down" \/ ~Gone \/ restarts > 0
=============================================================================
