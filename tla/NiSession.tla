----------------------------- MODULE NiSession -----------------------------
(***************************************************************************)
(* Network initiated (SUPL) requests of the location engine                *)
(* (gps/loc_api/libloc_api_50001/loc_eng_ni.cpp).                          *)
(*                                                                         *)
(* There are two sessions, one for emergency SUPL and one for the rest.    *)
(* The engine thread opens a session, spawns ni_thread_proc for it and     *)
(* notifies the user; the framework thread answers through                 *)
(* loc_eng_ni_respond; the session thread waits for the answer or a        *)
(* timeout and sends a LocEngInformNiResponse back to the engine thread,   *)
(* which informs the modem and frees the request.  An engine restart drops *)
(* the requests.  tLock protects respRecvd and resp, but the engine and    *)
(* the framework thread read rawRequest and reqID without it.              *)
(*                                                                         *)
(* A request is known by the id it was given; its payload (rawRequest) is  *)
(* called by the same number and 0 is NULL.  A request that finds its      *)
(* session busy changes nothing: the handler frees it.  The state is the   *)
(* one after loc_eng_ni_init.                                              *)
(***************************************************************************)
EXTENDS Naturals, Sequences

CONSTANTS MaxReq,        \* bound: requests accepted
          MaxAnswers,    \* bound: calls of loc_eng_ni_respond
          MaxRestarts    \* bound: engine restarts

ASSUME NiAssumption ==
    MaxReq \in Nat /\ MaxAnswers \in Nat /\ MaxRestarts \in Nat

Requests == 1 .. MaxReq
Sessions == {"es", "normal"}
UserResponses == {"ACCEPT", "DENY"}
Responses == UserResponses \cup {"NORESP", "IGNORE"}

VARIABLES
    session,        \* sessionEs and session
    reqIDCounter,
    thread,         \* the ni_thread_proc of each request
    inbox,          \* LocEngInformNiResponse messages to the engine thread
    engine,         \* where the engine thread is in the handlers of a request and of a restart
    user,           \* where the framework thread is in loc_eng_ni_respond
    answers,        \* how often it was called
    restarts,
    frees,          \* history: how often each payload was freed
    dropped,        \* history: requests freed by a restart
    given,          \* history: what the user answered to each request
    verdict,        \* history: what the modem was told, in order
    raced           \* history: an answer came after its session had ended

userVars == <<user, answers>>
engineVars == <<engine, restarts, dropped>>
vars == <<session, reqIDCounter, thread, inbox, engineVars, userVars, frees,
          given, verdict, raced>>

Idle == [at |-> "idle", sess |-> "es"]
NoUser == [at |-> "idle", sess |-> "es", id |-> 0, resp |-> "DENY"]
NoMsg == [payload |-> 0, resp |-> "NORESP"]

Init ==
    /\ session = [s \in Sessions |->
                    [raw |-> 0, recvd |-> FALSE, reqID |-> 0, resp |-> "NORESP"]]
    /\ reqIDCounter = 0
    /\ thread = [r \in Requests |-> [at |-> "none", sess |-> "es", msg |-> NoMsg]]
    /\ inbox = <<>>
    /\ engine = Idle
    /\ user = NoUser
    /\ answers = 0
    /\ restarts = 0
    /\ frees = [r \in Requests |-> 0]
    /\ dropped = {}
    /\ given = [r \in Requests |-> {}]
    /\ verdict = [r \in Requests |-> <<>>]
    /\ raced = FALSE

-----------------------------------------------------------------------------
(* The engine thread.                                                       *)

\* An ordinary request is also ignored while an emergency one is open.
MayOpen(s) ==
    /\ session[s].raw = 0
    /\ s = "normal" => session["es"].raw = 0

\* loc_eng_ni_request_handler: save the request, then its id, without the lock; spawn its
\* thread and notify the user.
RequestHandler(s) ==
    /\ engine = Idle
    /\ reqIDCounter < MaxReq
    /\ MayOpen(s)
    /\ LET r == reqIDCounter + 1 IN
       /\ reqIDCounter' = r
       /\ session' = [session EXCEPT ![s].raw = r]
    /\ engine' = [at |-> "open", sess |-> s]
    /\ UNCHANGED <<thread, inbox, userVars, restarts, frees, dropped, given, verdict, raced>>

RequestOpen ==
    /\ engine.at = "open"
    /\ session' = [session EXCEPT ![engine.sess].reqID = reqIDCounter]
    /\ thread' = [thread EXCEPT ![reqIDCounter].at = "lock",
                                ![reqIDCounter].sess = engine.sess]
    /\ engine' = Idle
    /\ UNCHANGED <<reqIDCounter, inbox, userVars, restarts, frees, dropped, given,
                   verdict, raced>>

\* What the user said of a request goes to the modem with the request itself, which tells
\* the modem what it is about. (IGNORE is not sent, see SendMsg.)
informNiResponse(userResponse, passThroughData) ==
    verdict' = [verdict EXCEPT ![passThroughData] = Append(@, userResponse)]

\* LocEngInformNiResponse::proc and its destructor.
InformNiResponse ==
    /\ engine = Idle
    /\ inbox # <<>>
    /\ inbox' = Tail(inbox)
    /\ LET m == Head(inbox) IN
       /\ informNiResponse(m.resp, m.payload)
       /\ frees' = [frees EXCEPT ![m.payload] = @ + 1]
    /\ UNCHANGED <<session, reqIDCounter, thread, engineVars, userVars, given, raced>>

\* loc_eng_ni_reset_on_engine_restart does the same to the emergency session
\* and then to the other: test rawRequest, free it, clear it, and only then
\* take the lock to wake the thread.
Restart ==
    /\ engine = Idle
    /\ restarts < MaxRestarts
    /\ restarts' = restarts + 1
    /\ engine' = [at |-> "test", sess |-> "es"]
    /\ UNCHANGED <<session, reqIDCounter, thread, inbox, userVars, frees, dropped,
                   given, verdict, raced>>

NextSession ==
    IF engine.sess = "es" THEN [at |-> "test", sess |-> "normal"] ELSE Idle

ResetTest ==
    /\ engine.at = "test"
    /\ engine' = IF session[engine.sess].raw = 0 THEN NextSession
                 ELSE [engine EXCEPT !.at = "free"]
    /\ UNCHANGED <<session, reqIDCounter, thread, inbox, userVars, restarts,
                   frees, dropped, given, verdict, raced>>

ResetFree ==
    /\ engine.at = "free"
    /\ LET r == session[engine.sess].raw IN
       IF r = 0 THEN UNCHANGED <<frees, dropped>>      \* free(NULL)
       ELSE /\ frees' = [frees EXCEPT ![r] = @ + 1]
            /\ dropped' = dropped \cup {r}
    /\ engine' = [engine EXCEPT !.at = "clear"]
    /\ UNCHANGED <<session, reqIDCounter, thread, inbox, userVars, restarts,
                   given, verdict, raced>>

ResetClear ==
    /\ engine.at = "clear"
    /\ session' = [session EXCEPT ![engine.sess].raw = 0]
    /\ engine' = [engine EXCEPT !.at = "wake"]
    /\ UNCHANGED <<reqIDCounter, thread, inbox, userVars, restarts, frees, dropped,
                   given, verdict, raced>>

Sleepers(s) == {r \in Requests : thread[r].at = "asleep" /\ thread[r].sess = s}

\* pthread_cond_signal(tCond).
Signal(s) ==
    IF Sleepers(s) = {} THEN UNCHANGED thread
    ELSE \E r \in Sleepers(s) : thread' = [thread EXCEPT ![r].at = "woken"]

ResetWake ==
    /\ engine.at = "wake"
    /\ session' = [session EXCEPT ![engine.sess].recvd = TRUE]
    /\ Signal(engine.sess)
    /\ engine' = NextSession
    /\ UNCHANGED <<reqIDCounter, inbox, userVars, restarts, frees, dropped, given,
                   verdict, raced>>

-----------------------------------------------------------------------------
(* The framework thread: loc_eng_ni_respond.                                *)

Respond(id, resp) ==
    /\ user.at = "idle"
    /\ answers < MaxAnswers
    /\ answers' = answers + 1
    /\ id <= reqIDCounter
    /\ LET open == {s \in Sessions :
                      session[s].reqID = id /\ session[s].raw # 0}
       IN /\ open # {}
          /\ user' = [at |-> IF "es" \notin open THEN "answer"
                             ELSE IF resp = "ACCEPT" THEN "accepted" ELSE "answer",
                      sess |-> IF "es" \in open THEN "es" ELSE "normal",
                      id |-> id, resp |-> resp]
    /\ UNCHANGED <<session, reqIDCounter, thread, inbox, engineVars, frees,
                   given, verdict, raced>>

\* An accepted emergency request cancels the other session, if it is open.
TestOther ==
    /\ user.at = "accepted"
    /\ user' = [user EXCEPT !.at =
                   IF session["normal"].raw # 0 THEN "ignore" ELSE "answer"]
    /\ UNCHANGED <<answers, session, reqIDCounter, thread, inbox, engineVars, frees,
                   given, verdict, raced>>

IgnoreOther ==
    /\ user.at = "ignore"
    /\ session' = [session EXCEPT !["normal"].resp = "IGNORE",
                                  !["normal"].recvd = TRUE]
    /\ Signal("normal")
    /\ raced' = (raced \/ session["normal"].raw = 0)
    /\ user' = [user EXCEPT !.at = "answer"]
    /\ UNCHANGED <<answers, reqIDCounter, inbox, engineVars, frees, given, verdict>>

Answer ==
    /\ user.at = "answer"
    /\ session' = [session EXCEPT ![user.sess].resp = user.resp,
                                  ![user.sess].recvd = TRUE]
    /\ Signal(user.sess)
    /\ given' = [given EXCEPT ![user.id] = @ \cup {user.resp}]
    /\ raced' = (raced \/ session[user.sess].raw # user.id)
    /\ user' = NoUser
    /\ UNCHANGED <<answers, reqIDCounter, inbox, engineVars, frees, verdict>>

-----------------------------------------------------------------------------
(* The thread of request r: ni_thread_proc.                                 *)

\* The end of the critical section: answer what is in rawRequest, which need
\* not be r.
TakeRequest_keep(r, resp) ==
    LET s == thread[r].sess
        p == session[s].raw
    IN
    /\ session' = [session EXCEPT ![s].recvd = FALSE, ![s].resp = resp]
    /\ IF p # 0 /\ resp = "IGNORE"
       THEN frees' = [frees EXCEPT ![p] = @ + 1] ELSE UNCHANGED frees
    /\ thread' = [thread EXCEPT
                    ![r].at = "unlocked",
                    ![r].msg = IF p # 0 /\ resp # "IGNORE"
                               THEN [payload |-> p, resp |-> resp] ELSE NoMsg]

TakeRequest_stale(r, resp) ==
    LET s == thread[r].sess
        p == session[s].raw
    IN
    /\ session' = [session EXCEPT ![s].raw = 0, ![s].resp = resp]
    /\ IF p # 0 /\ resp = "IGNORE"
       THEN frees' = [frees EXCEPT ![p] = @ + 1] ELSE UNCHANGED frees
    /\ thread' = [thread EXCEPT
                    ![r].at = "unlocked",
                    ![r].msg = IF p # 0 /\ resp # "IGNORE"
                               THEN [payload |-> p, resp |-> resp] ELSE NoMsg]

TakeRequest_leak(r, resp) ==
    LET s == thread[r].sess
        p == session[s].raw
    IN
    /\ session' = [session EXCEPT ![s] =
                     [@ EXCEPT !.raw = 0, !.recvd = FALSE, !.resp = resp]]
    /\ UNCHANGED frees
    /\ thread' = [thread EXCEPT
                    ![r].at = "unlocked",
                    ![r].msg = IF p # 0 /\ resp # "IGNORE"
                               THEN [payload |-> p, resp |-> resp] ELSE NoMsg]

TakeRequest(r, resp) ==
    LET s == thread[r].sess
        p == session[s].raw
    IN
    /\ session' = [session EXCEPT ![s] =
                     [@ EXCEPT !.raw = 0, !.recvd = FALSE, !.resp = resp]]
    /\ IF p # 0 /\ resp = "IGNORE"
       THEN frees' = [frees EXCEPT ![p] = @ + 1] ELSE UNCHANGED frees
    /\ thread' = [thread EXCEPT
                    ![r].at = "unlocked",
                    ![r].msg = IF p # 0 /\ resp # "IGNORE"
                               THEN [payload |-> p, resp |-> resp] ELSE NoMsg]

\* At the head of the loop, with the lock.
Loop(r) ==
    /\ thread[r].at \in {"lock", "woken"}
    /\ LET me == session[thread[r].sess] IN
       IF me.recvd THEN TakeRequest(r, me.resp)
       ELSE /\ thread' = [thread EXCEPT ![r].at = "asleep"]
            /\ UNCHANGED <<session, frees>>
    /\ UNCHANGED <<reqIDCounter, inbox, engineVars, userVars, given, verdict, raced>>

\* pthread_cond_timedwait gives up; the thread has yet to get the lock back.
Timeout(r) ==
    /\ thread[r].at = "asleep"
    /\ thread' = [thread EXCEPT ![r].at = "expired"]
    /\ UNCHANGED <<session, reqIDCounter, inbox, engineVars, userVars, frees,
                   given, verdict, raced>>

Expired(r) ==
    /\ thread[r].at = "expired"
    /\ TakeRequest(r, "NORESP")
    /\ UNCHANGED <<reqIDCounter, inbox, engineVars, userVars, given, verdict, raced>>

\* After the unlock.
ClearID(r) ==
    /\ thread[r].at = "unlocked"
    /\ session' = [session EXCEPT ![thread[r].sess].reqID = 0]
    /\ thread' = [thread EXCEPT ![r].at = "send"]
    /\ UNCHANGED <<reqIDCounter, inbox, engineVars, userVars, frees, given,
                   verdict, raced>>

SendMsg(r) ==
    /\ thread[r].at = "send"
    /\ inbox' = IF thread[r].msg = NoMsg THEN inbox
                ELSE Append(inbox, thread[r].msg)
    /\ thread' = [thread EXCEPT ![r] = [at |-> "done", sess |-> "es", msg |-> NoMsg]]
    /\ UNCHANGED <<session, reqIDCounter, engineVars, userVars, frees, given,
                   verdict, raced>>

-----------------------------------------------------------------------------
ThreadStep(r) == Loop(r) \/ Timeout(r) \/ Expired(r) \/ ClearID(r) \/ SendMsg(r)
EngineStep == RequestOpen \/ ResetTest \/ ResetFree \/ ResetClear \/ ResetWake \/ InformNiResponse
UserStep == TestOther \/ IgnoreOther \/ Answer

Next ==
    \/ \E s \in Sessions : RequestHandler(s)
    \/ Restart \/ EngineStep
    \/ \E id \in Requests, resp \in UserResponses : Respond(id, resp)
    \/ UserStep
    \/ \E r \in Requests : ThreadStep(r)

Spec == Init /\ [][Next]_vars
FairSpec == Spec /\ WF_vars(EngineStep) /\ WF_vars(UserStep)
                 /\ \A r \in Requests : WF_vars(ThreadStep(r))

-----------------------------------------------------------------------------
Queued(r) == {i \in DOMAIN inbox : inbox[i].payload = r}

\* Where the payload of request r is referred to.
Holders(r) ==
    {<<"session", s>> : s \in {s \in Sessions : session[s].raw = r}}
    \cup {<<"thread", u>> : u \in {u \in Requests : thread[u].msg.payload = r}}
    \cup {<<"inbox", i>> : i \in Queued(r)}

\* Without an engine restart the payload of an accepted request has one
\* owner at any time, session, thread or message, until it is freed, and is
\* freed once: nothing leaks and nothing is freed twice.
PayloadConserved ==
    restarts = 0 =>
        \A r \in 1 .. reqIDCounter :
            \/ frees[r] = 1 /\ Holders(r) = {}
            \/ frees[r] = 0 /\ \E h \in Holders(r) : Holders(r) = {h}

\* The modem is told at most one answer for each request, restarts or not.
\* As long as no answer comes too late and the engine does not restart, it is
\* what the user said to that request, or that the user did not respond.
OwnVerdict ==
    /\ \A r \in Requests : Len(verdict[r]) <= 1
    /\ ~raced /\ restarts = 0 =>
          \A r \in Requests : \A i \in 1 .. Len(verdict[r]) :
              verdict[r][i] \in given[r] \cup {"NORESP"}

\* Every accepted request ends: its payload is freed, through an answer to
\* the modem, an ignore or a restart.
EveryRequestEnds == \A r \in Requests : reqIDCounter >= r ~> frees[r] > 0

=============================================================================
