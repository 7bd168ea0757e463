------------------------------ MODULE AgpsNif ------------------------------
(***************************************************************************)
(* The state machine of a data connection (a network interface, NIF) that  *)
(* the modem borrows from the Android framework for assisted GPS:          *)
(* AgpsStateMachine with its states in                                     *)
(* gps/loc_api/libloc_api_50001/loc_eng_agps.cpp, driven by the messages   *)
(* of loc_eng.cpp.  agnss_nif and internet_nif are such machines.          *)
(*                                                                         *)
(* Everything here runs on the engine's message thread, one message to a   *)
(* step; the framework is asked by callback and answers by message.  The   *)
(* order of the subscriber list only orders the notifications of one       *)
(* step, so the list is a set of connection handles.  Subscribers of this  *)
(* machine never wait for a close to complete: they are never inactive     *)
(* and the state Releasing is DsNif's.                                     *)
(***************************************************************************)
EXTENDS Naturals, Sequences

CONSTANTS Handles,       \* connection handles of the modem's clients
          FreedReads,    \* what a freed subscriber's ID may read as
          MaxInFlight,   \* bound: commands and answers under way
          MaxRestarts    \* bound: modem restarts

ASSUME AgpsAssumption ==
    /\ FreedReads \subseteq Handles
    /\ MaxInFlight \in Nat
    /\ MaxRestarts \in Nat

VARIABLES
    state,          \* mStatePtr
    subs,           \* mSubscribers
    told,           \* what each client was told last, or that it asked
    commands,       \* to the framework, in order
    answers,        \* messages from the framework, in order
    nif,            \* the framework's connection is up
    restarts

afwVars == <<commands, answers, nif>>
vars == <<state, subs, told, afwVars, restarts>>

States == {"Released", "Pending", "Acquired"}
Status == {"idle", "asked", "open", "denied", "closed"}

InFlight == Len(commands) + Len(answers)

Init ==
    /\ state = "Released"
    /\ subs = {}
    /\ told = [h \in Handles |-> "idle"]
    /\ commands = <<>>
    /\ answers = <<>>
    /\ nif = FALSE
    /\ restarts = 0

\* Subscriber::notifyRsrcStatus of every subscriber in H.
Tell(H, what) == told' = [h \in Handles |-> IF h \in H THEN what ELSE told[h]]

\* It ends in a message to the modem: the connection is open or cannot be had, which the
\* machine knows, or is closed, whether well or not.
atlOpenStatus(H, is_succ) == Tell(H, IF is_succ THEN "open" ELSE "denied")
atlCloseStatus(H) == Tell(H, "closed")

SendRsrcRequest_bug(action, left) ==
    IF left # {} THEN commands' = Append(commands, action) ELSE UNCHANGED commands

\* sendRsrcRequest: a release is only sent when nobody is left, a request
\* only for somebody.
SendRsrcRequest(action, left) ==
    IF (left = {}) = (action = "RELEASE")
    THEN commands' = Append(commands, action)
    ELSE UNCHANGED commands

-----------------------------------------------------------------------------
(* Clients: LocEngRequestATL and LocEngReleaseATL.                          *)

\* A client asks again only when its handle is neither waiting nor open.
Asks(h) ==
    /\ InFlight < MaxInFlight
    /\ told[h] \notin {"asked", "open"}

SubscribeReleased_late(h) ==
    /\ state = "Released"
    /\ Asks(h)
    /\ SendRsrcRequest("REQUEST", subs)
    /\ subs' = subs \cup {h}
    /\ Tell({h}, "asked")
    /\ state' = "Pending"
    /\ UNCHANGED <<answers, nif, restarts>>

SubscribeReleased(h) ==
    /\ state = "Released"
    /\ Asks(h)
    /\ subs' = subs \cup {h}
    /\ SendRsrcRequest("REQUEST", subs')
    /\ Tell({h}, "asked")
    /\ state' = "Pending"
    /\ UNCHANGED <<answers, nif, restarts>>

SubscribePending(h) ==
    /\ state = "Pending"
    /\ Asks(h)
    /\ subs' = subs \cup {h}
    /\ Tell({h}, "asked")
    /\ UNCHANGED <<state, afwVars, restarts>>

SubscribeAcquired(h) ==
    /\ state = "Acquired"
    /\ Asks(h)
    /\ atlOpenStatus({h}, TRUE)
    /\ subs' = subs \cup {h}
    /\ UNCHANGED <<state, afwVars, restarts>>

\* notifySubscribers for one subscriber: it is told, taken from the list
\* and deleted; the loop then searches again with the deleted subscriber
\* to compare with.
Leavers(h) == {{h}} \cup {{h, g} : g \in FreedReads \cap subs}

UnsubscribeRsrc(h) ==
    /\ InFlight < MaxInFlight
    /\ h \in subs
    /\ state \in {"Pending", "Acquired"}
    /\ \E gone \in Leavers(h) :
         /\ subs' = subs \ gone
         /\ atlCloseStatus(gone)
    /\ IF subs' = {}
       THEN state' = "Released" /\ SendRsrcRequest("RELEASE", subs')
       ELSE UNCHANGED <<state, commands>>
    /\ UNCHANGED <<answers, nif, restarts>>

\* The released handle is unknown, because the network was lost meanwhile
\* or the request denied: atlCloseStatus(mID, 0).
UnsubscribeUnknown(h) ==
    /\ h \notin subs
    /\ told[h] \in {"denied", "closed"}
    /\ atlCloseStatus({h})
    /\ UNCHANGED <<state, subs, afwVars, restarts>>

-----------------------------------------------------------------------------
(* Answers of the framework: LocEngAtlOpenSuccess, LocEngAtlOpenFailed and  *)
(* LocEngAtlClosed.  A state that does not expect one ignores it.           *)

Take(answer) ==
    /\ answers # <<>>
    /\ Head(answers) = answer
    /\ answers' = Tail(answers)
    /\ UNCHANGED <<commands, nif, restarts>>

OnGranted ==
    /\ Take("GRANTED")
    /\ IF state = "Pending"
       THEN state' = "Acquired" /\ atlOpenStatus(subs, TRUE) /\ UNCHANGED subs
       ELSE UNCHANGED <<state, subs, told>>

OnDenied ==
    /\ Take("DENIED")
    /\ IF state = "Pending"
       THEN state' = "Released" /\ atlOpenStatus(subs, FALSE) /\ subs' = {}
       ELSE UNCHANGED <<state, subs, told>>

OnReleased_any ==
    /\ Take("RELEASED")
    /\ state' = "Released"
    /\ atlCloseStatus(subs)
    /\ subs' = {}

OnReleased ==
    /\ Take("RELEASED")
    /\ IF state = "Acquired"
       THEN state' = "Released" /\ atlCloseStatus(subs) /\ subs' = {}
       ELSE UNCHANGED <<state, subs, told>>

-----------------------------------------------------------------------------
\* loc_eng_handle_engine_up: the clients are gone and the subscribers are
\* dropped without a notification; the state stays.
EngineUp ==
    /\ restarts < MaxRestarts
    /\ restarts' = restarts + 1
    /\ subs' = {}
    /\ Tell(Handles, "idle")
    /\ UNCHANGED <<state, afwVars>>

-----------------------------------------------------------------------------
(* The framework (external): it serves the commands in order and answers    *)
(* each once; the network may also go away by itself.                       *)

\* Each answer is one of its calls, which leaves a message.
loc_eng_agps_open        == answers' = Append(answers, "GRANTED")
loc_eng_agps_open_failed == answers' = Append(answers, "DENIED")
loc_eng_agps_closed      == answers' = Append(answers, "RELEASED")

AfwRequest ==
    /\ commands # <<>>
    /\ Head(commands) = "REQUEST"
    /\ commands' = Tail(commands)
    /\ \/ nif' = TRUE /\ loc_eng_agps_open
       \/ ~nif /\ loc_eng_agps_open_failed /\ UNCHANGED nif
    /\ UNCHANGED <<state, subs, told, restarts>>

AfwRelease ==
    /\ commands # <<>>
    /\ Head(commands) = "RELEASE"
    /\ commands' = Tail(commands)
    /\ nif' = FALSE
    /\ loc_eng_agps_closed
    /\ UNCHANGED <<state, subs, told, restarts>>

AfwLose ==
    /\ nif
    /\ InFlight < MaxInFlight
    /\ nif' = FALSE
    /\ loc_eng_agps_closed
    /\ UNCHANGED <<state, subs, told, commands, restarts>>

OnAnswer == OnGranted \/ OnDenied \/ OnReleased
Afw == AfwRequest \/ AfwRelease

Next ==
    \/ \E h \in Handles : \/ SubscribeReleased(h)
                          \/ SubscribePending(h)
                          \/ SubscribeAcquired(h)
                          \/ UnsubscribeRsrc(h)
                          \/ UnsubscribeUnknown(h)
    \/ OnAnswer
    \/ EngineUp
    \/ Afw
    \/ AfwLose

Spec == Init /\ [][Next]_vars

\* The message thread runs, and the framework serves what it is asked.
FairSpec == Spec /\ WF_vars(OnAnswer) /\ WF_vars(Afw)

-----------------------------------------------------------------------------
(* Properties.                                                              *)

TypeOK ==
    /\ state \in States
    /\ subs \subseteq Handles
    /\ told \in [Handles -> Status]
    /\ commands \in Seq({"REQUEST", "RELEASE"})
    /\ answers \in Seq({"GRANTED", "DENIED", "RELEASED"})
    /\ nif \in BOOLEAN
    /\ restarts \in 0 .. MaxRestarts

Has(s, what) == \E i \in 1 .. Len(s) : s[i] = what

\* A machine that waits for the framework really has a request under way
\* whose answer it has not yet used up, so that it cannot wait forever
\* (AgpsPendingState: "already requested for NIF resource, do nothing until
\* we get RSRC_GRANTED indication").
PendingAsked ==
    state = "Pending" =>
        \/ Has(commands, "REQUEST")
        \/ Has(answers, "GRANTED")
        \/ Has(answers, "DENIED")

\* The list and what the clients know agree in every state: the listed
\* handles are the waiting ones while Pending, the open ones while
\* Acquired, and none is listed while Released (AgpsReleasedState: "the
\* list should really be empty").
ListIsWhatClientsKnow ==
    \A h \in Handles :
        /\ (told[h] = "asked") <=> (h \in subs /\ state = "Pending")
        /\ (told[h] = "open") <=> (h \in subs /\ state = "Acquired")
        /\ state = "Released" => h \notin subs

\* What the clients of the machine see is the contract of AtlContract, with
\* every request answered in the end.
Contract == INSTANCE AtlContract
ImplementsContract == Contract!Spec

\* The network is given back: a machine that returns to Released on its own
\* account (its last subscriber leaves) asks the framework to release in
\* that very step, and it never does so while somebody is still subscribed.
ReleaseWithLastLeaver ==
    [][/\ (state # "Released" /\ state' = "Released" /\ answers' = answers)
            => commands' = Append(commands, "RELEASE")
       /\ commands' = Append(commands, "RELEASE") => subs' = {}]_vars

=============================================================================
