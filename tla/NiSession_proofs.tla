-------------------------- MODULE NiSession_proofs --------------------------
(***************************************************************************)
(* Proofs about NiSession, for every number of requests, answers and       *)
(* restarts.                                                               *)
(***************************************************************************)
EXTENDS NiSession, TLAPS

Payloads == 0 .. MaxReq
Messages == [payload : Requests, resp : Responses]

Places == {"none", "lock", "asleep", "woken", "expired", "unlocked", "send", "done"}

SessionType == [raw : Payloads, recvd : BOOLEAN, reqID : Payloads, resp : Responses]

ThreadType == [
    at   : Places,
    sess : Sessions,
    msg  : [payload : Payloads, resp : Responses]]

TypeOK ==
    /\ session \in [Sessions -> SessionType]
    /\ reqIDCounter \in Payloads
    /\ thread \in [Requests -> ThreadType]
    /\ inbox \in Seq(Messages)
    /\ engine \in [at : {"idle", "open", "test", "free", "clear", "wake"}, sess : Sessions]
    /\ user \in [at : {"idle", "accepted", "ignore", "answer"}, sess : Sessions,
                 id : Payloads, resp : UserResponses]
    /\ user.at # "idle" => user.id \in Requests
    /\ answers \in Nat /\ restarts \in Nat
    /\ frees \in [Requests -> Nat]
    /\ dropped \subseteq Requests
    /\ given \in [Requests -> SUBSET UserResponses]
    /\ verdict \in [Requests -> Seq(Responses)]
    /\ raced \in BOOLEAN

InSession(r, s) == session[s].raw = r
InThread(r, u)  == thread[u].msg.payload = r
InInbox(r, i)   == i \in DOMAIN inbox /\ inbox[i].payload = r

\* The payload of request r is referred to somewhere.
Held(r) ==
    \/ \E s \in Sessions : InSession(r, s)
    \/ \E u \in Requests : InThread(r, u)
    \/ \E i \in DOMAIN inbox : InInbox(r, i)

\* A payload is referred to in one place only, at the latest until the modem
\* has been told; it was handed out before.
OneHolder ==
    \A r \in Requests :
        /\ \A s, t \in Sessions : InSession(r, s) /\ InSession(r, t) => s = t
        /\ \A u, v \in Requests : InThread(r, u) /\ InThread(r, v) => u = v
        /\ \A i, j \in DOMAIN inbox : InInbox(r, i) /\ InInbox(r, j) => i = j
        /\ \A s \in Sessions, u \in Requests : ~(InSession(r, s) /\ InThread(r, u))
        /\ \A s \in Sessions, i \in DOMAIN inbox : ~(InSession(r, s) /\ InInbox(r, i))
        /\ \A u \in Requests, i \in DOMAIN inbox : ~(InThread(r, u) /\ InInbox(r, i))
        /\ Held(r) => r <= reqIDCounter /\ verdict[r] = <<>>
        /\ r > reqIDCounter => verdict[r] = <<>>

\* A thread has a message between its critical section and the sending only, and
\* a thread that was not spawned does nothing.
OnlyMessages ==
    \A u \in Requests :
        /\ thread[u].msg.payload = 0 => thread[u].msg = NoMsg
        /\ thread[u].at \notin {"unlocked", "send"} => thread[u].msg.payload = 0
        /\ u > reqIDCounter => thread[u].at = "none"

\* A request that is being opened has no thread yet.
Opening ==
    engine.at = "open" => reqIDCounter \in Requests /\ thread[reqIDCounter].at = "none"

\* Before the first restart a payload is freed when nothing refers to it any
\* more.
FreedWhenDone ==
    restarts = 0 =>
        /\ engine.at \in {"idle", "open"}
        /\ \A r \in Requests :
              /\ Held(r) => frees[r] = 0
              /\ ~Held(r) => frees[r] = IF r <= reqIDCounter THEN 1 ELSE 0

\* What goes to the modem for a request is the user's answer to it.
Said(r) == given[r] \cup {"NORESP"}

OwnAnswers ==
    ~raced /\ restarts = 0 =>
        /\ \A s \in Sessions : session[s].recvd =>
              session[s].raw # 0 /\ session[s].resp \in Said(session[s].raw) \cup {"IGNORE"}
        /\ \A u \in Requests : thread[u].msg.payload # 0 =>
              thread[u].msg.resp \in Said(thread[u].msg.payload)
        /\ \A i \in DOMAIN inbox : inbox[i].resp \in Said(inbox[i].payload)
        /\ \A r \in Requests : \A i \in 1 .. Len(verdict[r]) : verdict[r][i] \in Said(r)

OneVerdict == \A r \in Requests : Len(verdict[r]) <= 1

IInv == TypeOK /\ OnlyMessages /\ Opening /\ OneHolder /\ OneVerdict /\ FreedWhenDone /\ OwnAnswers

-----------------------------------------------------------------------------
LEMMA AppendType ==
    ASSUME NEW S, NEW s \in Seq(S), NEW e \in S
    PROVE  Append(s, e) \in Seq(S)
OBVIOUS

LEMMA TailType ==
    ASSUME NEW S, NEW s \in Seq(S), s # <<>>
    PROVE  Tail(s) \in Seq(S) /\ Head(s) \in S
OBVIOUS

\* No message and no user have the types of the variables.
LEMMA SmallTypes ==
    /\ MaxReq \in Nat /\ 0 \in Payloads /\ Requests \subseteq Payloads
    /\ NoMsg \in [payload : Payloads, resp : Responses]
    /\ UserResponses \subseteq Responses
BY NiAssumption DEF Payloads, Requests, NoMsg, Responses, UserResponses

LEMMA InitType == Init => TypeOK
<1> SUFFICES ASSUME Init PROVE TypeOK
  OBVIOUS
<1>1. session \in [Sessions -> SessionType]
  BY SmallTypes DEF Init, SessionType, Responses
<1>2. thread \in [Requests -> ThreadType]
  BY SmallTypes DEF Init, ThreadType, Places, Sessions
<1>3. engine \in [at : {"idle", "open", "test", "free", "clear", "wake"}, sess : Sessions]
  BY DEF Init, Idle, Sessions
<1>4. user \in [at : {"idle", "accepted", "ignore", "answer"}, sess : Sessions,
                id : Payloads, resp : UserResponses] /\ user.at = "idle"
  BY SmallTypes DEF Init, NoUser, Sessions, UserResponses
<1>5. inbox \in Seq(Messages) /\ verdict \in [Requests -> Seq(Responses)]
      /\ given \in [Requests -> SUBSET UserResponses] /\ frees \in [Requests -> Nat]
  BY DEF Init
<1>6. reqIDCounter \in Payloads /\ answers \in Nat /\ restarts \in Nat
      /\ dropped \subseteq Requests /\ raced \in BOOLEAN
  BY SmallTypes DEF Init
<1>7. QED
  BY <1>1, <1>2, <1>3, <1>4, <1>5, <1>6 DEF TypeOK

\* What the steps assign to a session, and to a thread, keeps their types.
LEMMA SessionUpdates ==
    ASSUME NEW f \in [Sessions -> SessionType], NEW s \in Sessions, NEW p \in Payloads,
           NEW b \in BOOLEAN, NEW resp \in Responses
    PROVE  /\ [f EXCEPT ![s].raw = p] \in [Sessions -> SessionType]
           /\ [f EXCEPT ![s].raw = p, ![s].reqID = p] \in [Sessions -> SessionType]
           /\ [f EXCEPT ![s].reqID = p] \in [Sessions -> SessionType]
           /\ [f EXCEPT ![s].recvd = b] \in [Sessions -> SessionType]
           /\ [f EXCEPT ![s].resp = resp, ![s].recvd = b] \in [Sessions -> SessionType]
           /\ [f EXCEPT ![s] = [@ EXCEPT !.raw = p, !.recvd = b, !.resp = resp]]
                \in [Sessions -> SessionType]
BY DEF SessionType

LEMMA ThreadUpdates ==
    ASSUME NEW f \in [Requests -> ThreadType], NEW u \in Requests, NEW a \in Places,
           NEW s \in Sessions, NEW m \in [payload : Payloads, resp : Responses]
    PROVE  /\ [f EXCEPT ![u].at = a] \in [Requests -> ThreadType]
           /\ [f EXCEPT ![u].at = a, ![u].sess = s] \in [Requests -> ThreadType]
           /\ [f EXCEPT ![u].at = a, ![u].msg = m] \in [Requests -> ThreadType]
           /\ [f EXCEPT ![u] = [at |-> a, sess |-> s, msg |-> m]] \in [Requests -> ThreadType]
<1>1. [f EXCEPT ![u].at = a] \in [Requests -> ThreadType]
  BY DEF ThreadType
<1>2. [f EXCEPT ![u].at = a, ![u].sess = s] \in [Requests -> ThreadType]
  BY DEF ThreadType
<1>3. [f EXCEPT ![u].at = a, ![u].msg = m] \in [Requests -> ThreadType]
  BY DEF ThreadType
<1>4. [f EXCEPT ![u] = [at |-> a, sess |-> s, msg |-> m]] \in [Requests -> ThreadType]
  BY DEF ThreadType
<1>5. QED
  BY <1>1, <1>2, <1>3, <1>4

\* A thread that gets to another place, and nothing else.
LEMMA MoveType ==
    ASSUME TypeOK, NEW r \in Requests, NEW a \in {"asleep", "expired", "send"},
           thread' = [thread EXCEPT ![r].at = a]
    PROVE  thread' \in [Requests -> ThreadType]
<1>1. a \in Places
  BY DEF Places
<1>2. thread \in [Requests -> ThreadType]
  BY DEF TypeOK
<1>3. QED
  BY <1>1, <1>2 DEF ThreadType

\* Waking a thread changes where it is, and nothing else of it.
LEMMA SignalType ==
    ASSUME TypeOK, NEW s \in Sessions, Signal(s)
    PROVE  /\ thread' \in [Requests -> ThreadType]
           /\ \A u \in Requests : thread'[u].msg = thread[u].msg
<1>1. CASE UNCHANGED thread
  BY <1>1 DEF TypeOK
<1>2. CASE \E r \in Sleepers(s) : thread' = [thread EXCEPT ![r].at = "woken"]
  <2>1. PICK r \in Requests : thread' = [thread EXCEPT ![r].at = "woken"]
    BY <1>2 DEF Sleepers
  <2>2. "woken" \in Places
    BY DEF Places
  <2>3. thread' \in [Requests -> ThreadType]
    <3>1. thread[r].sess \in Sessions /\ thread[r].msg \in [payload : Payloads, resp : Responses]
      BY DEF TypeOK, ThreadType
    <3>2. QED
      BY <2>1, <2>2, <3>1, ThreadUpdates DEF TypeOK
  <2>4. QED
    BY <2>1, <2>3 DEF TypeOK, ThreadType
<1>3. QED
  BY <1>1, <1>2 DEF Signal

LEMMA TakeType ==
    ASSUME TypeOK, NEW r \in Requests, NEW resp \in Responses, TakeRequest(r, resp)
    PROVE  /\ session' \in [Sessions -> SessionType]
           /\ thread' \in [Requests -> ThreadType]
           /\ frees' \in [Requests -> Nat]
<1>1. thread[r].sess \in Sessions
  BY DEF TypeOK, ThreadType
<1>2. session[thread[r].sess].raw \in Payloads
  BY <1>1 DEF TypeOK, SessionType
<1>3. session' \in [Sessions -> SessionType]
  BY <1>1, SmallTypes, SessionUpdates DEF TypeOK, TakeRequest
<1>4. frees' \in [Requests -> Nat]
  <2>1. frees \in [Requests -> Nat]
    BY DEF TypeOK
  <2>2. frees' = frees \/ \E p : frees' = [frees EXCEPT ![p] = @ + 1]
    BY DEF TakeRequest
  <2>3. QED
    BY <2>1, <2>2
<1>5. thread' \in [Requests -> ThreadType]
  <2>1. PICK m \in [payload : Payloads, resp : Responses] :
           thread' = [thread EXCEPT ![r].at = "unlocked", ![r].msg = m]
    BY <1>2, SmallTypes DEF TakeRequest
  <2>2. "unlocked" \in Places
    BY DEF Places
  <2>3. QED
    BY <1>1, <2>1, <2>2, ThreadUpdates DEF TypeOK
<1>6. QED
  BY <1>3, <1>4, <1>5

LEMMA NextType == TypeOK /\ OnlyMessages /\ Opening /\ [Next]_vars => TypeOK'
<1> SUFFICES ASSUME TypeOK, OnlyMessages, Opening, [Next]_vars PROVE TypeOK'
  OBVIOUS
<1>1. ASSUME NEW s \in Sessions, RequestHandler(s) PROVE TypeOK'
  <2>1. reqIDCounter + 1 \in Requests /\ reqIDCounter' \in Payloads
    BY <1>1, NiAssumption DEF RequestHandler, TypeOK, Payloads, Requests
  <2>2. session' \in [Sessions -> SessionType]
    BY <1>1, <2>1, SmallTypes, SessionUpdates DEF RequestHandler, TypeOK
  <2>3. QED
    BY <1>1, <2>1, <2>2 DEF RequestHandler, TypeOK, userVars
<1>2. ASSUME InformNiResponse PROVE TypeOK'
  <2>1. Head(inbox) \in Messages /\ inbox' \in Seq(Messages)
    BY <1>2, TailType DEF InformNiResponse, TypeOK
  <2>2. Head(inbox).payload \in Requests /\ Head(inbox).resp \in Responses
    BY <2>1 DEF Messages
  <2>3. verdict' \in [Requests -> Seq(Responses)] /\ frees' \in [Requests -> Nat]
    <3>1. Append(verdict[Head(inbox).payload], Head(inbox).resp) \in Seq(Responses)
      BY <2>2, AppendType DEF TypeOK
    <3>2. QED
      BY <1>2, <2>2, <3>1 DEF InformNiResponse, informNiResponse, TypeOK
  <2>4. QED
    BY <1>2, <2>1, <2>3 DEF InformNiResponse, TypeOK, engineVars, userVars
<1>3. ASSUME Restart PROVE TypeOK'
  BY <1>3 DEF Restart, TypeOK, userVars, Sessions
<1>4. ASSUME ResetTest PROVE TypeOK'
  BY <1>4 DEF ResetTest, NextSession, Idle, TypeOK, userVars, Sessions
<1>5. ASSUME ResetFree PROVE TypeOK'
  <2>1. session[engine.sess].raw \in Payloads
    BY DEF TypeOK, SessionType
  <2>2. frees' \in [Requests -> Nat] /\ dropped' \subseteq Requests
    <3>1. frees \in [Requests -> Nat] /\ dropped \subseteq Requests
      BY DEF TypeOK
    <3>2. CASE session[engine.sess].raw = 0
      BY <1>5, <3>1, <3>2 DEF ResetFree
    <3>3. CASE session[engine.sess].raw \in Requests
      <4>1. PICK r \in Requests : r = session[engine.sess].raw
        BY <3>3
      <4>2. r # 0
        BY DEF Requests
      <4>3. frees' = [frees EXCEPT ![r] = @ + 1] /\ dropped' = dropped \cup {r}
        BY <1>5, <4>1, <4>2 DEF ResetFree
      <4>4. frees[r] + 1 \in Nat
        BY <3>1
      <4>5. QED
        BY <3>1, <4>3, <4>4
    <3>4. QED
      BY <2>1, <3>2, <3>3, NiAssumption DEF Payloads, Requests
  <2>3. QED
    BY <1>5, <2>2 DEF ResetFree, TypeOK, userVars
<1>6. ASSUME ResetClear PROVE TypeOK'
  <2>1. engine.sess \in Sessions
    BY DEF TypeOK
  <2>2. session' \in [Sessions -> SessionType]
    BY <1>6, <2>1, SmallTypes, SessionUpdates DEF ResetClear, TypeOK
  <2>3. QED
    BY <1>6, <2>2 DEF ResetClear, TypeOK, userVars
<1>7. ASSUME ResetWake PROVE TypeOK'
  <2>1. engine.sess \in Sessions
    BY DEF TypeOK
  <2>2. session' \in [Sessions -> SessionType]
    <3>1. "NORESP" \in Responses
      BY DEF Responses
    <3>2. QED
      BY <1>7, <2>1, <3>1, SmallTypes, SessionUpdates DEF ResetWake, TypeOK
  <2>3. engine' \in [at : {"idle", "open", "test", "free", "clear", "wake"}, sess : Sessions]
    BY <1>7 DEF ResetWake, NextSession, Idle, Sessions
  <2>4. QED
    BY <1>7, <2>1, <2>2, <2>3, SignalType DEF ResetWake, TypeOK, userVars
<1>8. ASSUME NEW id \in Requests, NEW resp \in UserResponses, Respond(id, resp) PROVE TypeOK'
  BY <1>8, SmallTypes DEF Respond, TypeOK, engineVars, Sessions
<1>9. ASSUME TestOther PROVE TypeOK'
  BY <1>9 DEF TestOther, TypeOK, engineVars
<1>10. ASSUME IgnoreOther PROVE TypeOK'
  <2>1. session' \in [Sessions -> SessionType]
    <3>1. "normal" \in Sessions /\ "IGNORE" \in Responses
      BY DEF Sessions, Responses
    <3>2. QED
      BY <1>10, <3>1, SessionUpdates DEF IgnoreOther, TypeOK
  <2>2. QED
    BY <1>10, <2>1, SignalType DEF IgnoreOther, TypeOK, engineVars, Sessions
<1>11. ASSUME Answer PROVE TypeOK'
  <2>1. user.sess \in Sessions /\ user.resp \in UserResponses /\ user.id \in Requests
    BY <1>11 DEF Answer, TypeOK
  <2>2. session' \in [Sessions -> SessionType]
    BY <1>11, <2>1, SmallTypes, SessionUpdates DEF Answer, TypeOK
  <2>3. given' \in [Requests -> SUBSET UserResponses]
    BY <1>11, <2>1 DEF Answer, TypeOK
  <2>4. user' \in [at : {"idle", "accepted", "ignore", "answer"}, sess : Sessions,
                   id : Payloads, resp : UserResponses] /\ user'.at = "idle"
    BY <1>11, SmallTypes DEF Answer, NoUser, Sessions, UserResponses
  <2>5. QED
    BY <1>11, <2>1, <2>2, <2>3, <2>4, SignalType DEF Answer, TypeOK, engineVars
<1>12. ASSUME NEW r \in Requests, Loop(r) PROVE TypeOK'
  <2>1. session[thread[r].sess].resp \in Responses
    BY DEF TypeOK, SessionType, ThreadType
  <2>2. CASE TakeRequest(r, session[thread[r].sess].resp)
    BY <1>12, <2>1, <2>2, TakeType DEF Loop, TypeOK, engineVars, userVars
  <2>3. CASE thread' = [thread EXCEPT ![r].at = "asleep"] /\ UNCHANGED <<session, frees>>
    BY <1>12, <2>3, MoveType DEF Loop, TypeOK, engineVars, userVars
  <2>4. QED
    BY <1>12, <2>2, <2>3 DEF Loop
<1>13. ASSUME NEW r \in Requests, Timeout(r) PROVE TypeOK'
  BY <1>13, MoveType DEF Timeout, TypeOK, engineVars, userVars
<1>14. ASSUME NEW r \in Requests, Expired(r) PROVE TypeOK'
  <2>1. "NORESP" \in Responses
    BY DEF Responses
  <2>2. QED
    BY <1>14, <2>1, TakeType DEF Expired, TypeOK, engineVars, userVars
<1>15. ASSUME NEW r \in Requests, ClearID(r) PROVE TypeOK'
  <2>1. session' \in [Sessions -> SessionType]
    <3>1. thread[r].sess \in Sessions
      BY DEF TypeOK, ThreadType
    <3>2. QED
      BY <1>15, <3>1, SmallTypes, SessionUpdates DEF ClearID, TypeOK
  <2>2. QED
    BY <1>15, <2>1, MoveType DEF ClearID, TypeOK, engineVars, userVars
<1>16. ASSUME NEW r \in Requests, SendMsg(r) PROVE TypeOK'
  <2>1. inbox' \in Seq(Messages)
    <3>1. CASE thread[r].msg = NoMsg
      BY <1>16, <3>1 DEF SendMsg, TypeOK
    <3>2. CASE thread[r].msg # NoMsg
      <4>1. thread[r].msg \in Messages
        BY <1>16, <3>2, NiAssumption
           DEF OnlyMessages, TypeOK, ThreadType, Messages, Payloads, Requests
      <4>2. QED
        BY <1>16, <3>2, <4>1, AppendType DEF SendMsg, TypeOK
    <3>3. QED
      BY <3>1, <3>2
  <2>2. QED
    <3>1. "done" \in Places /\ "es" \in Sessions
      BY DEF Places, Sessions
    <3>2. thread' \in [Requests -> ThreadType]
      BY <1>16, <3>1, SmallTypes, ThreadUpdates DEF SendMsg, TypeOK
    <3>3. QED
      BY <1>16, <2>1, <3>2 DEF SendMsg, TypeOK, engineVars, userVars
<1>17. ASSUME UNCHANGED vars PROVE TypeOK'
  BY <1>17 DEF vars, TypeOK, engineVars, userVars
<1>18. ASSUME RequestOpen PROVE TypeOK'
  <2>1. reqIDCounter \in Requests /\ engine.sess \in Sessions /\ reqIDCounter \in Payloads
    BY <1>18 DEF RequestOpen, Opening, TypeOK
  <2>2. session' \in [Sessions -> SessionType]
    BY <1>18, <2>1, SessionUpdates, SmallTypes DEF RequestOpen, TypeOK
  <2>3. thread' \in [Requests -> ThreadType]
    <3>1. "lock" \in Places
      BY DEF Places
    <3>2. QED
      BY <1>18, <2>1, <3>1, SmallTypes, ThreadUpdates DEF RequestOpen, TypeOK
  <2>4. engine' \in [at : {"idle", "open", "test", "free", "clear", "wake"}, sess : Sessions]
    BY <1>18 DEF RequestOpen, Idle, Sessions
  <2>5. QED
    BY <1>18, <2>2, <2>3, <2>4 DEF RequestOpen, TypeOK, userVars
<1>19. QED
  BY <1>1, <1>2, <1>3, <1>4, <1>5, <1>6, <1>7, <1>8, <1>9, <1>10, <1>11, <1>12, <1>13,
     <1>14, <1>15, <1>16, <1>17, <1>18 DEF Next, EngineStep, UserStep, ThreadStep

-----------------------------------------------------------------------------
(* The holders of the payloads.                                            *)

\* A step that touches no payload and no verdict.
SamePayloads ==
    /\ \A s \in Sessions : session'[s].raw = session[s].raw
    /\ \A u \in Requests : thread'[u].msg = thread[u].msg
    /\ UNCHANGED <<inbox, verdict, reqIDCounter>>

LEMMA SameHolders ==
    ASSUME OneHolder, OneVerdict, SamePayloads
    PROVE  OneHolder' /\ OneVerdict' /\ \A r \in Requests : Held(r)' <=> Held(r)
BY DEF OneHolder, OneVerdict, SamePayloads, Held, InSession, InThread, InInbox

\* What has been appended is at the end, and nothing else is new.
LEMMA AppendedMessages ==
    ASSUME NEW s \in Seq(Messages), NEW m \in Messages
    PROVE  /\ DOMAIN Append(s, m) = DOMAIN s \cup {Len(s) + 1} /\ Len(s) + 1 \notin DOMAIN s
           /\ \A i \in DOMAIN s : Append(s, m)[i] = s[i]
           /\ Append(s, m)[Len(s) + 1] = m
OBVIOUS

LEMMA RemainingMessages ==
    ASSUME NEW s \in Seq(Messages), s # <<>>
    PROVE  /\ 1 \in DOMAIN s /\ Head(s) = s[1]
           /\ \A i \in DOMAIN Tail(s) : i + 1 \in DOMAIN s /\ i + 1 # 1 /\ Tail(s)[i] = s[i + 1]
           /\ \A i \in DOMAIN s : i # 1 => i - 1 \in DOMAIN Tail(s) /\ Tail(s)[i - 1] = s[i]
           /\ \A i, j \in DOMAIN Tail(s) : i + 1 = j + 1 => i = j
OBVIOUS

LEMMA HandlerHolders ==
    ASSUME TypeOK, OneHolder, OnlyMessages, NEW s \in Sessions, RequestHandler(s)
    PROVE  /\ OneHolder' /\ OnlyMessages'
           /\ \A r \in Requests : Held(r)' <=> (Held(r) \/ r = reqIDCounter + 1)
           /\ ~Held(reqIDCounter + 1)
<1>0. PICK n \in Requests : n = reqIDCounter + 1
  BY NiAssumption DEF RequestHandler, TypeOK, Payloads, Requests
<1>1. /\ reqIDCounter' = n /\ session[s].raw = 0
      /\ session'[s].raw = n /\ \A t \in Sessions : t # s => session'[t].raw = session[t].raw
      /\ UNCHANGED <<thread, inbox, verdict>>
  BY <1>0 DEF RequestHandler, MayOpen, TypeOK, SessionType
<1>2. ~Held(n)
  BY <1>0, <1>1 DEF OneHolder, Requests, TypeOK, Payloads
<1>3. OnlyMessages'
  BY <1>0, <1>1 DEF OnlyMessages, TypeOK, Payloads, Requests
<1>4. \A r \in Requests : Held(r)' <=> (Held(r) \/ r = n)
  <2>1. ASSUME NEW r \in Requests
        PROVE  (\E t \in Sessions : InSession(r, t))' <=>
                 ((\E t \in Sessions : InSession(r, t)) \/ r = n)
    <3>1. r # 0
      BY DEF Requests
    <3>2. QED
      BY <1>1, <3>1 DEF InSession
  <2>2. ASSUME NEW r \in Requests
        PROVE  /\ (\E u \in Requests : InThread(r, u))' <=> \E u \in Requests : InThread(r, u)
               /\ (\E i \in DOMAIN inbox : InInbox(r, i))' <=>
                    \E i \in DOMAIN inbox : InInbox(r, i)
    BY <1>1 DEF InThread, InInbox
  <2>3. QED
    BY <2>1, <2>2 DEF Held
<1>5. OneHolder'
  <2>1. ASSUME NEW r \in Requests, r # n
        PROVE  /\ \A t \in Sessions : InSession(r, t)' => InSession(r, t)
               /\ \A u \in Requests : InThread(r, u)' => InThread(r, u)
               /\ \A i \in DOMAIN inbox' : InInbox(r, i)' => InInbox(r, i)
               /\ DOMAIN inbox' = DOMAIN inbox /\ verdict'[r] = verdict[r]
    BY <1>1, <2>1 DEF InSession, InThread, InInbox
  <2>2. /\ \A t \in Sessions : InSession(n, t)' => t = s
        /\ \A u \in Requests : ~InThread(n, u)'
        /\ \A i \in DOMAIN inbox' : ~InInbox(n, i)'
    BY <1>1, <1>2 DEF Held, InSession, InThread, InInbox
  <2>3. ASSUME NEW r \in Requests
        PROVE  /\ Held(r)' => r <= reqIDCounter' /\ verdict'[r] = <<>>
               /\ r > reqIDCounter' => verdict'[r] = <<>>
    <3>1. r > n => r > reqIDCounter
      BY <1>0 DEF Requests, TypeOK, Payloads
    <3>2. r <= reqIDCounter => r <= n
      BY <1>0 DEF Requests, TypeOK, Payloads
    <3>3. n > reqIDCounter /\ n <= n
      BY <1>0 DEF TypeOK, Payloads
    <3>4. QED
      BY <1>1, <1>4, <3>1, <3>2, <3>3 DEF OneHolder
  <2>4. ASSUME NEW r \in Requests
        PROVE  /\ \A x, t \in Sessions : InSession(r, x)' /\ InSession(r, t)' => x = t
               /\ \A u, v \in Requests : InThread(r, u)' /\ InThread(r, v)' => u = v
               /\ \A i, j \in DOMAIN inbox' : InInbox(r, i)' /\ InInbox(r, j)' => i = j
               /\ \A x \in Sessions, u \in Requests : ~(InSession(r, x)' /\ InThread(r, u)')
               /\ \A x \in Sessions, i \in DOMAIN inbox' : ~(InSession(r, x)' /\ InInbox(r, i)')
               /\ \A u \in Requests, i \in DOMAIN inbox' : ~(InThread(r, u)' /\ InInbox(r, i)')
    <3>1. CASE r = n
      BY <2>2, <3>1
    <3>2. CASE r # n
      BY <2>1, <3>2 DEF OneHolder
    <3>3. QED
      BY <3>1, <3>2
  <2>5. QED
    BY <2>3, <2>4 DEF OneHolder
<1>6. QED
  BY <1>0, <1>2, <1>3, <1>4, <1>5

LEMMA ClearHolders ==
    ASSUME TypeOK, OneHolder, ResetClear
    PROVE  OneHolder'
<1>1. /\ engine.sess \in Sessions /\ session'[engine.sess].raw = 0
      /\ \A t \in Sessions : t # engine.sess => session'[t].raw = session[t].raw
      /\ UNCHANGED <<thread, inbox, verdict, reqIDCounter>>
  BY DEF ResetClear, TypeOK, SessionType
<1>2. \A r \in Requests : r # 0
  BY DEF Requests
<1>3. QED
  BY <1>1, <1>2 DEF OneHolder, Held, InSession, InThread, InInbox

\* What is taken from the session is in the message, or nowhere if it is ignored.
LEMMA TakeHolders ==
    ASSUME TypeOK, OneHolder, OnlyMessages, NEW r \in Requests, NEW resp \in Responses,
           TakeRequest(r, resp), UNCHANGED <<inbox, verdict, reqIDCounter>>,
           thread[r].at \in {"lock", "woken", "expired"}
    PROVE  /\ OneHolder' /\ OnlyMessages'
           /\ \A q \in Requests :
                 Held(q)' <=> (Held(q) /\ ~(q = session[thread[r].sess].raw /\ resp = "IGNORE"))
<1> DEFINE s == thread[r].sess
           p == session[thread[r].sess].raw
<1>1. /\ s \in Sessions /\ p \in Payloads
      /\ session'[s].raw = 0 /\ \A t \in Sessions : t # s => session'[t].raw = session[t].raw
      /\ \A u \in Requests : u # r => thread'[u] = thread[u]
      /\ thread'[r].at = "unlocked"
  BY DEF TakeRequest, TypeOK, SessionType, ThreadType
<1>2. /\ p # 0 /\ resp # "IGNORE" => thread'[r].msg.payload = p
      /\ p = 0 \/ resp = "IGNORE" => thread'[r].msg = NoMsg
  BY DEF TakeRequest, TypeOK, ThreadType
<1>3. thread[r].msg.payload = 0 /\ r <= reqIDCounter
  BY DEF OnlyMessages, Requests, TypeOK, Payloads
<1>4. NoMsg.payload = 0 /\ 0 \notin Requests
  BY DEF NoMsg, Requests
<1>5. OnlyMessages'
  BY <1>1, <1>2, <1>3, <1>4 DEF OnlyMessages
<1>6. \A q \in Requests : Held(q)' <=> (Held(q) /\ ~(q = p /\ resp = "IGNORE"))
  BY <1>1, <1>2, <1>3, <1>4 DEF Held, OneHolder, InSession, InThread, InInbox
<1>7. OneHolder'
  BY <1>1, <1>2, <1>3, <1>4, <1>6 DEF OneHolder, InSession, InThread, InInbox
<1>8. QED
  BY <1>5, <1>6, <1>7

LEMMA SendHolders ==
    ASSUME TypeOK, OneHolder, OnlyMessages, NEW r \in Requests, SendMsg(r)
    PROVE  OneHolder' /\ OnlyMessages' /\ \A q \in Requests : Held(q)' <=> Held(q)
<1>1. /\ \A u \in Requests : u # r => thread'[u] = thread[u]
      /\ thread'[r].at = "done" /\ thread'[r].msg = NoMsg
      /\ UNCHANGED <<session, verdict, reqIDCounter>>
  BY DEF SendMsg, TypeOK
<1>2. NoMsg.payload = 0 /\ 0 \notin Requests /\ ~(r > reqIDCounter)
  BY DEF NoMsg, Requests, SendMsg, OnlyMessages
<1>3. OnlyMessages'
  BY <1>1, <1>2 DEF OnlyMessages
<1>4. CASE thread[r].msg = NoMsg
  <2>1. inbox' = inbox
    BY <1>4 DEF SendMsg
  <2>2. QED
    BY <1>1, <1>2, <1>3, <1>4, <2>1 DEF OneHolder, Held, InSession, InThread, InInbox
<1>5. CASE thread[r].msg # NoMsg
  <2>1. inbox' = Append(inbox, thread[r].msg) /\ thread[r].msg \in Messages
    <3>1. inbox' = Append(inbox, thread[r].msg) /\ thread[r].msg.payload # 0
      BY <1>5 DEF SendMsg, OnlyMessages
    <3>2. thread[r] \in ThreadType
      BY DEF TypeOK
    <3>3. thread[r].msg \in Messages
      BY <3>1, <3>2 DEF ThreadType, Messages, Payloads, Requests
    <3>4. QED
      BY <3>1, <3>3
  <2>2. /\ DOMAIN inbox' = DOMAIN inbox \cup {Len(inbox) + 1} /\ Len(inbox) + 1 \notin DOMAIN inbox
        /\ \A i \in DOMAIN inbox : inbox'[i] = inbox[i]
        /\ inbox'[Len(inbox) + 1] = thread[r].msg
    BY <2>1, AppendedMessages DEF TypeOK
  <2>3. \A q \in Requests : Held(q)' <=> Held(q)
    BY <1>1, <1>2, <2>2 DEF Held, InSession, InThread, InInbox
  <2>4. OneHolder'
    BY <1>1, <1>2, <2>2, <2>3 DEF OneHolder, InSession, InThread, InInbox
  <2>5. QED
    BY <1>3, <2>3, <2>4
<1>6. QED
  BY <1>4, <1>5

\* The message that is taken was the only holder of its payload.
LEMMA InformHolders ==
    ASSUME TypeOK, OneHolder, OneVerdict, InformNiResponse
    PROVE  /\ OneHolder' /\ OneVerdict' /\ Head(inbox).payload \in Requests
           /\ Held(Head(inbox).payload) /\ verdict[Head(inbox).payload] = <<>>
           /\ \A q \in Requests : Held(q)' <=> (Held(q) /\ q # Head(inbox).payload)
<1> DEFINE p == Head(inbox).payload
<1>1. /\ inbox # <<>> /\ inbox' = Tail(inbox) /\ p \in Requests /\ Head(inbox).resp \in Responses
      /\ verdict' = [verdict EXCEPT ![p] = Append(@, Head(inbox).resp)]
      /\ UNCHANGED <<session, thread, reqIDCounter>>
  <2>1. inbox # <<>> /\ inbox \in Seq(Messages)
    BY DEF InformNiResponse, informNiResponse, TypeOK
  <2>2. Head(inbox) \in Messages
    BY <2>1, TailType
  <2>3. p \in Requests /\ Head(inbox).resp \in Responses
    BY <2>2 DEF Messages
  <2>4. QED
    BY <2>1, <2>3 DEF InformNiResponse, informNiResponse
<1>2. /\ 1 \in DOMAIN inbox /\ inbox[1].payload = p
      /\ \A i \in DOMAIN inbox' : i + 1 \in DOMAIN inbox /\ i + 1 # 1 /\ inbox'[i] = inbox[i + 1]
      /\ \A i \in DOMAIN inbox : i # 1 => i - 1 \in DOMAIN inbox' /\ inbox'[i - 1] = inbox[i]
      /\ \A i, j \in DOMAIN inbox' : i + 1 = j + 1 => i = j
  BY <1>1, RemainingMessages DEF TypeOK
<1>3. Held(p) /\ verdict[p] = <<>> /\ p <= reqIDCounter
  BY <1>1, <1>2 DEF Held, InInbox, OneHolder
<1>4. \A q \in Requests : Held(q)' <=> (Held(q) /\ q # p)
  <2>1. ASSUME NEW q \in Requests
        PROVE  (\E i \in DOMAIN inbox : InInbox(q, i))' <=>
                 ((\E i \in DOMAIN inbox : InInbox(q, i)) /\ q # p)
    <3>1. ASSUME NEW i \in DOMAIN inbox', InInbox(q, i)'
          PROVE  (\E j \in DOMAIN inbox : InInbox(q, j)) /\ q # p
      <4>1. InInbox(q, i + 1) /\ i + 1 # 1
        BY <1>2, <3>1 DEF InInbox
      <4>2. q # p
        BY <1>2, <4>1 DEF InInbox, OneHolder
      <4>3. QED
        BY <4>1, <4>2 DEF InInbox
    <3>2. ASSUME NEW i \in DOMAIN inbox, InInbox(q, i), q # p
          PROVE  (\E j \in DOMAIN inbox : InInbox(q, j))'
      <4>1. i # 1
        BY <1>2, <3>2 DEF InInbox
      <4>2. i - 1 \in DOMAIN inbox' /\ inbox'[i - 1].payload = q
        BY <1>2, <3>2, <4>1 DEF InInbox
      <4>3. QED
        BY <4>2 DEF InInbox
    <3>3. QED
      BY <3>1, <3>2
  <2>2. /\ ~\E t \in Sessions : InSession(p, t)
        /\ ~\E u \in Requests : InThread(p, u)
    BY <1>1, <1>2 DEF OneHolder, InInbox
  <2>3. ASSUME NEW q \in Requests
        PROVE  /\ (\E t \in Sessions : InSession(q, t))' <=> \E t \in Sessions : InSession(q, t)
               /\ (\E u \in Requests : InThread(q, u))' <=> \E u \in Requests : InThread(q, u)
    BY <1>1 DEF InSession, InThread
  <2>4. QED
    BY <2>1, <2>2, <2>3 DEF Held
<1>5. /\ \A q \in Requests : q # p => verdict'[q] = verdict[q]
      /\ verdict'[p] = <<Head(inbox).resp>> /\ Len(verdict'[p]) = 1
  <2>1. verdict \in [Requests -> Seq(Responses)]
    BY DEF TypeOK
  <2>2. verdict'[p] = Append(verdict[p], Head(inbox).resp)
    BY <1>1, <2>1
  <2>3. QED
    BY <1>1, <1>3, <2>1, <2>2
<1>6. OneVerdict'
  BY <1>1, <1>5 DEF OneVerdict
<1>7. OneHolder'
  <2>1. ASSUME NEW q \in Requests, NEW i \in DOMAIN inbox', InInbox(q, i)'
        PROVE  i + 1 \in DOMAIN inbox /\ InInbox(q, i + 1)
    BY <1>2, <2>1 DEF InInbox
  <2>2. ASSUME NEW q \in Requests
        PROVE  /\ \A i, j \in DOMAIN inbox' : InInbox(q, i)' /\ InInbox(q, j)' => i = j
               /\ \A s \in Sessions, i \in DOMAIN inbox' : ~(InSession(q, s)' /\ InInbox(q, i)')
               /\ \A u \in Requests, i \in DOMAIN inbox' : ~(InThread(q, u)' /\ InInbox(q, i)')
    <3>1. \A i, j \in DOMAIN inbox' : InInbox(q, i)' /\ InInbox(q, j)' => i + 1 = j + 1
      BY <2>1 DEF OneHolder
    <3>2. QED
      BY <1>1, <1>2, <2>1, <3>1 DEF OneHolder, InSession, InThread
  <2>3. ASSUME NEW q \in Requests
        PROVE  /\ Held(q)' => q <= reqIDCounter' /\ verdict'[q] = <<>>
               /\ q > reqIDCounter' => verdict'[q] = <<>>
    <3>1. q > reqIDCounter => q # p
      BY <1>1, <1>3 DEF Requests, TypeOK, Payloads
    <3>2. QED
      BY <1>1, <1>4, <1>5, <3>1 DEF OneHolder
  <2>4. QED
    BY <1>1, <2>2, <2>3 DEF OneHolder, InSession, InThread
<1>8. QED
  BY <1>1, <1>3, <1>4, <1>6, <1>7
\* A thread that goes on outside its critical section keeps its message.
LEMMA KeptMessages ==
    ASSUME OnlyMessages, reqIDCounter' = reqIDCounter,
           \A u \in Requests :
              /\ thread'[u].msg = thread[u].msg
              /\ thread'[u].at = thread[u].at \/ thread[u].at # "none"
              /\ thread'[u].at \notin {"unlocked", "send"}
                   => thread[u].at \notin {"unlocked", "send"}
    PROVE  OnlyMessages'
BY DEF OnlyMessages

LEMMA SignalMessages ==
    ASSUME TypeOK, OnlyMessages, NEW s \in Sessions, Signal(s), reqIDCounter' = reqIDCounter
    PROVE  OnlyMessages' /\ \A u \in Requests : thread'[u].msg = thread[u].msg
<1>1. CASE UNCHANGED thread
  BY <1>1 DEF OnlyMessages
<1>2. CASE \E r \in Sleepers(s) : thread' = [thread EXCEPT ![r].at = "woken"]
  <2>1. PICK r \in Requests : thread[r].at = "asleep" /\ thread' = [thread EXCEPT ![r].at = "woken"]
    BY <1>2 DEF Sleepers
  <2>2. \A u \in Requests :
           /\ thread'[u].msg = thread[u].msg
           /\ thread'[u].at = thread[u].at \/ (thread[u].at = "asleep" /\ thread'[u].at = "woken")
    BY <2>1 DEF TypeOK, ThreadType
  <2>3. QED
    BY <2>2, KeptMessages
<1>3. QED
  BY <1>1, <1>2 DEF Signal

\* The id is no payload, and the thread that starts has no message yet.
LEMMA OpenHolders ==
    ASSUME TypeOK, OneHolder, OneVerdict, OnlyMessages, Opening, RequestOpen
    PROVE  SamePayloads /\ OnlyMessages'
<1>1. /\ reqIDCounter \in Requests /\ engine.sess \in Sessions
      /\ thread[reqIDCounter].at = "none"
      /\ UNCHANGED <<reqIDCounter, inbox, verdict>>
  BY DEF RequestOpen, Opening, TypeOK
<1>2. \A s \in Sessions : session'[s].raw = session[s].raw
  BY <1>1 DEF RequestOpen, TypeOK, SessionType
<1>3. /\ \A u \in Requests : thread'[u].msg = thread[u].msg
      /\ \A u \in Requests : u # reqIDCounter => thread'[u].at = thread[u].at
      /\ thread'[reqIDCounter].at = "lock"
  BY <1>1 DEF RequestOpen, TypeOK, ThreadType
<1>4. \A u \in Requests : u > reqIDCounter => u # reqIDCounter
  BY DEF TypeOK, Requests, Payloads
<1>5. OnlyMessages'
  BY <1>1, <1>3, <1>4 DEF OnlyMessages
<1>6. QED
  BY <1>1, <1>2, <1>3, <1>5 DEF SamePayloads

\* Nothing but the engine thread starts the thread of a request.
LEMMA NextOpening ==
    ASSUME TypeOK, OnlyMessages, Opening, [Next]_vars
    PROVE  Opening'
<1>1. ASSUME NEW s \in Sessions, RequestHandler(s) PROVE Opening'
  <2>1. PICK n \in Requests : n = reqIDCounter + 1
    BY <1>1, NiAssumption DEF RequestHandler, TypeOK, Payloads, Requests
  <2>2. reqIDCounter' = n /\ thread' = thread /\ n > reqIDCounter
    BY <1>1, <2>1 DEF RequestHandler, TypeOK, Payloads
  <2>3. QED
    BY <2>2 DEF Opening, OnlyMessages
<1>2. ASSUME \/ RequestOpen \/ Restart \/ ResetTest \/ ResetFree \/ ResetClear \/ ResetWake
      PROVE  engine'.at # "open"
  BY <1>2 DEF RequestOpen, Restart, ResetTest, ResetFree, ResetClear, ResetWake, NextSession,
              Idle, TypeOK
<1>3. ASSUME UNCHANGED <<engine, reqIDCounter>>,
             \A u \in Requests : thread[u].at = "none" => thread'[u].at = "none"
      PROVE  Opening'
  BY <1>3 DEF Opening
<1>4. ASSUME \/ InformNiResponse \/ TestOther \/ UNCHANGED vars
             \/ \E id \in Requests, resp \in UserResponses : Respond(id, resp)
      PROVE  Opening'
  BY <1>3, <1>4 DEF InformNiResponse, TestOther, Respond, vars, engineVars
<1>5. ASSUME IgnoreOther \/ Answer PROVE Opening'
  <2>1. UNCHANGED <<engine, reqIDCounter>> /\ \E s : Signal(s)
    BY <1>5 DEF IgnoreOther, Answer, engineVars
  <2>2. \A u \in Requests : thread[u].at = "none" => thread'[u].at = "none"
    BY <2>1 DEF Signal, Sleepers, TypeOK
  <2>3. QED
    BY <1>3, <2>1, <2>2
<1>6. ASSUME NEW r \in Requests, ThreadStep(r) PROVE Opening'
  <2>1. UNCHANGED <<engine, reqIDCounter>> /\ thread[r].at # "none"
    BY <1>6 DEF ThreadStep, Loop, Timeout, Expired, ClearID, SendMsg, engineVars
  <2>2. \A u \in Requests : u # r => thread'[u] = thread[u]
    BY <1>6 DEF ThreadStep, Loop, Timeout, Expired, ClearID, SendMsg, TakeRequest, TypeOK
  <2>3. QED
    BY <1>3, <2>1, <2>2
<1>7. QED
  BY <1>1, <1>2, <1>4, <1>5, <1>6 DEF Next, EngineStep, UserStep, Opening

\* While the engine is being reset, it has been restarted.
LEMMA ResetOnly ==
    ASSUME FreedWhenDone, engine.at \notin {"idle", "open"} PROVE restarts # 0
BY DEF FreedWhenDone

\* Every step keeps the holders of the payloads apart.
LEMMA NextHolders ==
    ASSUME TypeOK, OnlyMessages, Opening, OneHolder, OneVerdict, [Next]_vars
    PROVE  OnlyMessages' /\ OneHolder' /\ OneVerdict'
<1>1. ASSUME NEW s \in Sessions, RequestHandler(s)
      PROVE  OnlyMessages' /\ OneHolder' /\ OneVerdict'
  BY <1>1, HandlerHolders DEF OneVerdict, RequestHandler
<1>2. ASSUME InformNiResponse PROVE OnlyMessages' /\ OneHolder' /\ OneVerdict'
  BY <1>2, InformHolders DEF OnlyMessages, InformNiResponse
<1>3. ASSUME Restart \/ ResetTest \/ ResetFree PROVE OnlyMessages' /\ OneHolder' /\ OneVerdict'
  <2>1. UNCHANGED <<session, thread, inbox, verdict, reqIDCounter>>
    BY <1>3 DEF Restart, ResetTest, ResetFree
  <2>2. QED
    BY <2>1, SameHolders DEF SamePayloads, OnlyMessages
<1>4. ASSUME ResetClear PROVE OnlyMessages' /\ OneHolder' /\ OneVerdict'
  BY <1>4, ClearHolders DEF OnlyMessages, OneVerdict, ResetClear
<1>5. ASSUME ResetWake PROVE OnlyMessages' /\ OneHolder' /\ OneVerdict'
  <2>1. engine.sess \in Sessions
    BY DEF TypeOK
  <2>2. OnlyMessages' /\ \A u \in Requests : thread'[u].msg = thread[u].msg
    BY <1>5, <2>1, SignalMessages DEF ResetWake
  <2>3. SamePayloads
    BY <1>5, <2>2 DEF SamePayloads, ResetWake, TypeOK, SessionType
  <2>4. QED
    BY <2>2, <2>3, SameHolders
<1>6. ASSUME TestOther \/ \E id \in Requests, resp \in UserResponses : Respond(id, resp)
      PROVE  OnlyMessages' /\ OneHolder' /\ OneVerdict'
  <2>1. UNCHANGED <<session, thread, inbox, verdict, reqIDCounter>>
    BY <1>6 DEF Respond, TestOther
  <2>2. QED
    BY <2>1, SameHolders DEF SamePayloads, OnlyMessages
<1>7. ASSUME IgnoreOther \/ Answer PROVE OnlyMessages' /\ OneHolder' /\ OneVerdict'
  <2>1. "normal" \in Sessions /\ user.sess \in Sessions
    BY DEF TypeOK, Sessions
  <2>2. OnlyMessages' /\ \A u \in Requests : thread'[u].msg = thread[u].msg
    BY <1>7, <2>1, SignalMessages DEF IgnoreOther, Answer
  <2>3. \A s \in Sessions : session'[s].raw = session[s].raw
    <3>1. ASSUME NEW t \in Sessions, NEW v \in Responses,
                 session' = [session EXCEPT ![t].resp = v, ![t].recvd = TRUE]
          PROVE  \A s \in Sessions : session'[s].raw = session[s].raw
      BY <3>1 DEF TypeOK, SessionType
    <3>2. "IGNORE" \in Responses /\ user.resp \in Responses
      BY DEF TypeOK, Responses
    <3>3. QED
      BY <1>7, <2>1, <3>1, <3>2 DEF IgnoreOther, Answer
  <2>4. SamePayloads
    BY <1>7, <2>2, <2>3 DEF SamePayloads, IgnoreOther, Answer
  <2>5. QED
    BY <2>2, <2>4, SameHolders
<1>8. ASSUME NEW r \in Requests, Loop(r) PROVE OnlyMessages' /\ OneHolder' /\ OneVerdict'
  <2>1. session[thread[r].sess].resp \in Responses
    BY DEF TypeOK, SessionType, ThreadType
  <2>2. CASE TakeRequest(r, session[thread[r].sess].resp)
    BY <1>8, <2>1, <2>2, TakeHolders DEF Loop, OneVerdict
  <2>3. CASE thread' = [thread EXCEPT ![r].at = "asleep"] /\ UNCHANGED <<session, frees>>
    <3>1. \A u \in Requests :
             /\ thread'[u].msg = thread[u].msg
             /\ u # r => thread'[u] = thread[u]
             /\ thread'[r].at = "asleep" /\ thread[r].at \in {"lock", "woken"}
      BY <1>8, <2>3 DEF Loop, TypeOK, ThreadType
    <3>2. OnlyMessages'
      BY <1>8, <3>1, KeptMessages DEF Loop
    <3>3. SamePayloads
      BY <1>8, <2>3, <3>1 DEF SamePayloads, Loop
    <3>4. QED
      BY <3>2, <3>3, SameHolders
  <2>4. QED
    BY <1>8, <2>2, <2>3 DEF Loop
<1>9. ASSUME NEW r \in Requests, Timeout(r) PROVE OnlyMessages' /\ OneHolder' /\ OneVerdict'
  <2>1. \A u \in Requests :
           /\ thread'[u].msg = thread[u].msg
           /\ u # r => thread'[u] = thread[u]
           /\ thread'[r].at = "expired" /\ thread[r].at = "asleep"
    BY <1>9 DEF Timeout, TypeOK, ThreadType
  <2>2. OnlyMessages'
    BY <1>9, <2>1, KeptMessages DEF Timeout
  <2>3. SamePayloads
    BY <1>9, <2>1 DEF SamePayloads, Timeout
  <2>4. QED
    BY <2>2, <2>3, SameHolders
<1>10. ASSUME NEW r \in Requests, Expired(r) PROVE OnlyMessages' /\ OneHolder' /\ OneVerdict'
  <2>1. "NORESP" \in Responses
    BY DEF Responses
  <2>2. QED
    BY <1>10, <2>1, TakeHolders DEF Expired, OneVerdict
<1>11. ASSUME NEW r \in Requests, ClearID(r) PROVE OnlyMessages' /\ OneHolder' /\ OneVerdict'
  <2>1. \A u \in Requests :
           /\ thread'[u].msg = thread[u].msg
           /\ u # r => thread'[u] = thread[u]
           /\ thread'[r].at = "send" /\ thread[r].at = "unlocked"
    BY <1>11 DEF ClearID, TypeOK, ThreadType
  <2>2. OnlyMessages'
    BY <1>11, <2>1, KeptMessages DEF ClearID
  <2>3. thread[r].sess \in Sessions
    BY DEF TypeOK, ThreadType
  <2>4. SamePayloads
    BY <1>11, <2>1, <2>3 DEF SamePayloads, ClearID, TypeOK, SessionType
  <2>5. QED
    BY <2>2, <2>4, SameHolders
<1>12. ASSUME NEW r \in Requests, SendMsg(r) PROVE OnlyMessages' /\ OneHolder' /\ OneVerdict'
  BY <1>12, SendHolders DEF SendMsg, OneVerdict
<1>13. ASSUME UNCHANGED vars PROVE OnlyMessages' /\ OneHolder' /\ OneVerdict'
  BY <1>13, SameHolders DEF vars, SamePayloads, OnlyMessages
<1>14. ASSUME RequestOpen PROVE OnlyMessages' /\ OneHolder' /\ OneVerdict'
  BY <1>14, OpenHolders, SameHolders
<1>15. QED
  BY <1>1, <1>2, <1>3, <1>4, <1>5, <1>6, <1>7, <1>8, <1>9, <1>10, <1>11, <1>12, <1>13, <1>14
     DEF Next, EngineStep, UserStep, ThreadStep

-----------------------------------------------------------------------------
(* Before the first restart, what is not referred to has been freed once.  *)

LEMMA KeptFreed ==
    ASSUME FreedWhenDone, \A r \in Requests : Held(r)' <=> Held(r),
           UNCHANGED <<frees, reqIDCounter, engine, restarts>>
    PROVE  FreedWhenDone'
BY DEF FreedWhenDone

LEMMA NextFreed ==
    ASSUME TypeOK, OnlyMessages, Opening, OneHolder, OneVerdict, FreedWhenDone, [Next]_vars
    PROVE  FreedWhenDone'
<1>1. ASSUME NEW s \in Sessions, RequestHandler(s) PROVE FreedWhenDone'
  <2>1. /\ \A r \in Requests : Held(r)' <=> (Held(r) \/ r = reqIDCounter + 1)
        /\ ~Held(reqIDCounter + 1)
    BY <1>1, HandlerHolders
  <2>2. reqIDCounter' = reqIDCounter + 1 /\ engine'.at = "open" /\ UNCHANGED <<frees, restarts>>
    BY <1>1 DEF RequestHandler
  <2>3. \A r \in Requests : /\ r # reqIDCounter + 1 => (r <= reqIDCounter + 1 <=> r <= reqIDCounter)
                            /\ r = reqIDCounter + 1 => ~(r <= reqIDCounter)
    BY DEF Requests, TypeOK, Payloads
  <2>4. QED
    BY <2>1, <2>2, <2>3 DEF FreedWhenDone
<1>2. ASSUME InformNiResponse PROVE FreedWhenDone'
  <2>1. PICK p \in Requests :
           /\ Held(p) /\ frees' = [frees EXCEPT ![p] = @ + 1]
           /\ \A q \in Requests : Held(q)' <=> (Held(q) /\ q # p)
    BY <1>2, InformHolders DEF InformNiResponse, informNiResponse
  <2>2. UNCHANGED <<reqIDCounter, engine, restarts>>
    BY <1>2 DEF InformNiResponse, engineVars
  <2>3. p <= reqIDCounter
    BY <2>1 DEF OneHolder
  <2>4. frees'[p] = frees[p] + 1 /\ \A q \in Requests : q # p => frees'[q] = frees[q]
    BY <2>1 DEF TypeOK
  <2>5. QED
    BY <2>1, <2>2, <2>3, <2>4 DEF FreedWhenDone
<1>3. ASSUME Restart PROVE FreedWhenDone'
  BY <1>3 DEF Restart, FreedWhenDone, TypeOK
<1>4. ASSUME ResetTest \/ ResetFree \/ ResetClear \/ ResetWake PROVE FreedWhenDone'
  <2>1. engine.at \notin {"idle", "open"} /\ restarts' = restarts
    BY <1>4 DEF ResetTest, ResetFree, ResetClear, ResetWake
  <2>2. QED
    BY <2>1, ResetOnly DEF FreedWhenDone
<1>5. ASSUME TestOther \/ \E id \in Requests, resp \in UserResponses : Respond(id, resp)
      PROVE  FreedWhenDone'
  <2>1. UNCHANGED <<session, thread, inbox, verdict, reqIDCounter, frees, engine, restarts>>
    BY <1>5 DEF Respond, TestOther, engineVars
  <2>2. QED
    BY <2>1, SameHolders, KeptFreed DEF SamePayloads
<1>6. ASSUME IgnoreOther \/ Answer PROVE FreedWhenDone'
  <2>1. "normal" \in Sessions /\ user.sess \in Sessions
    BY DEF TypeOK, Sessions
  <2>2. \A u \in Requests : thread'[u].msg = thread[u].msg
    BY <1>6, <2>1, SignalMessages DEF IgnoreOther, Answer
  <2>3. \A s \in Sessions : session'[s].raw = session[s].raw
    <3>1. ASSUME NEW t \in Sessions, NEW v \in Responses,
                 session' = [session EXCEPT ![t].resp = v, ![t].recvd = TRUE]
          PROVE  \A s \in Sessions : session'[s].raw = session[s].raw
      BY <3>1 DEF TypeOK, SessionType
    <3>2. "IGNORE" \in Responses /\ user.resp \in Responses
      BY DEF TypeOK, Responses
    <3>3. QED
      BY <1>6, <2>1, <3>1, <3>2 DEF IgnoreOther, Answer
  <2>4. SamePayloads /\ UNCHANGED <<frees, reqIDCounter, engine, restarts>>
    BY <1>6, <2>2, <2>3 DEF SamePayloads, IgnoreOther, Answer, engineVars
  <2>5. QED
    BY <2>4, SameHolders, KeptFreed
<1>7. ASSUME NEW r \in Requests, NEW resp \in Responses, TakeRequest(r, resp),
             UNCHANGED <<inbox, verdict, reqIDCounter, engine, restarts>>,
             thread[r].at \in {"lock", "woken", "expired"}
      PROVE  FreedWhenDone'
  <2> DEFINE p == session[thread[r].sess].raw
  <2>1. \A q \in Requests : Held(q)' <=> (Held(q) /\ ~(q = p /\ resp = "IGNORE"))
    BY <1>7, TakeHolders
  <2>2. thread[r].sess \in Sessions /\ p \in Payloads
    BY DEF TypeOK, ThreadType, SessionType
  <2>3. CASE p # 0 /\ resp = "IGNORE"
    <3>1. p \in Requests /\ Held(p)
      BY <2>2, <2>3 DEF Payloads, Requests, Held, InSession
    <3>2. p <= reqIDCounter
      BY <3>1 DEF OneHolder
    <3>3. frees'[p] = frees[p] + 1 /\ \A q \in Requests : q # p => frees'[q] = frees[q]
      BY <1>7, <2>3, <3>1 DEF TakeRequest, TypeOK
    <3>4. QED
      BY <1>7, <2>1, <2>3, <3>1, <3>2, <3>3 DEF FreedWhenDone
  <2>4. CASE ~(p # 0 /\ resp = "IGNORE")
    <3>1. \A q \in Requests : ~(q = p /\ resp = "IGNORE")
      BY <2>4 DEF Requests
    <3>2. frees' = frees
      BY <1>7, <2>4 DEF TakeRequest
    <3>3. QED
      BY <1>7, <2>1, <3>1, <3>2, KeptFreed
  <2>5. QED
    BY <2>3, <2>4
<1>8. ASSUME NEW r \in Requests, Loop(r) PROVE FreedWhenDone'
  <2>1. session[thread[r].sess].resp \in Responses
    BY DEF TypeOK, SessionType, ThreadType
  <2>2. UNCHANGED <<inbox, verdict, reqIDCounter, engine, restarts>>
        /\ thread[r].at \in {"lock", "woken", "expired"}
    BY <1>8 DEF Loop, engineVars
  <2>3. CASE TakeRequest(r, session[thread[r].sess].resp)
    BY <1>7, <2>1, <2>2, <2>3
  <2>4. CASE thread' = [thread EXCEPT ![r].at = "asleep"] /\ UNCHANGED <<session, frees>>
    <3>1. \A u \in Requests : thread'[u].msg = thread[u].msg
      BY <2>4 DEF TypeOK, ThreadType
    <3>2. QED
      BY <2>2, <2>4, <3>1, SameHolders, KeptFreed DEF SamePayloads
  <2>5. QED
    BY <1>8, <2>3, <2>4 DEF Loop
<1>9. ASSUME NEW r \in Requests, Timeout(r) \/ ClearID(r) PROVE FreedWhenDone'
  <2>1. thread[r].sess \in Sessions
    BY DEF TypeOK, ThreadType
  <2>2. CASE Timeout(r)
    <3>1. \A u \in Requests : thread'[u].msg = thread[u].msg
      BY <2>2 DEF Timeout, TypeOK, ThreadType
    <3>2. SamePayloads /\ UNCHANGED <<frees, reqIDCounter, engine, restarts>>
      BY <2>2, <3>1 DEF SamePayloads, Timeout, engineVars
    <3>3. QED
      BY <3>2, SameHolders, KeptFreed
  <2>3. CASE ClearID(r)
    <3>1. \A u \in Requests : thread'[u].msg = thread[u].msg
      BY <2>3 DEF ClearID, TypeOK, ThreadType
    <3>2. \A s \in Sessions : session'[s].raw = session[s].raw
      BY <2>1, <2>3 DEF ClearID, TypeOK, SessionType
    <3>3. SamePayloads /\ UNCHANGED <<frees, reqIDCounter, engine, restarts>>
      BY <2>3, <3>1, <3>2 DEF SamePayloads, ClearID, engineVars
    <3>4. QED
      BY <3>3, SameHolders, KeptFreed
  <2>4. QED
    BY <1>9, <2>2, <2>3
<1>10. ASSUME NEW r \in Requests, Expired(r) PROVE FreedWhenDone'
  <2>1. "NORESP" \in Responses
    BY DEF Responses
  <2>2. QED
    BY <1>7, <1>10, <2>1 DEF Expired, engineVars
<1>11. ASSUME NEW r \in Requests, SendMsg(r) PROVE FreedWhenDone'
  BY <1>11, SendHolders, KeptFreed DEF SendMsg, engineVars
<1>12. ASSUME UNCHANGED vars PROVE FreedWhenDone'
  BY <1>12, SameHolders, KeptFreed DEF vars, SamePayloads, engineVars
<1>13. ASSUME RequestOpen PROVE FreedWhenDone'
  <2>1. \A r \in Requests : Held(r)' <=> Held(r)
    BY <1>13, OpenHolders, SameHolders
  <2>2. engine'.at = "idle" /\ UNCHANGED <<frees, reqIDCounter, restarts>>
    BY <1>13 DEF RequestOpen, Idle
  <2>3. QED
    BY <2>1, <2>2 DEF FreedWhenDone
<1>14. QED
  BY <1>1, <1>2, <1>3, <1>4, <1>5, <1>6, <1>8, <1>9, <1>10, <1>11, <1>12, <1>13
     DEF Next, EngineStep, UserStep, ThreadStep

-----------------------------------------------------------------------------
(* What goes to the modem is what was said to the request it is about.     *)

\* The three parts of OwnAnswers, and what they are about.
SessionsOwn ==
    \A s \in Sessions : session[s].recvd =>
        session[s].raw # 0 /\ session[s].resp \in Said(session[s].raw) \cup {"IGNORE"}
ThreadsOwn ==
    \A u \in Requests : thread[u].msg.payload # 0 =>
        thread[u].msg.resp \in Said(thread[u].msg.payload)
MessagesOwn ==
    /\ \A i \in DOMAIN inbox : inbox[i].resp \in Said(inbox[i].payload)
    /\ \A r \in Requests : \A i \in 1 .. Len(verdict[r]) : verdict[r][i] \in Said(r)

LEMMA OwnParts ==
    /\ OwnAnswers <=> (~raced /\ restarts = 0 => SessionsOwn /\ ThreadsOwn /\ MessagesOwn)
    /\ OwnAnswers' <=> (~raced' /\ restarts' = 0 => SessionsOwn' /\ ThreadsOwn' /\ MessagesOwn')
BY DEF OwnAnswers, SessionsOwn, ThreadsOwn, MessagesOwn

\* Threads that keep their messages keep to what was said.
LEMMA ThreadsKept ==
    ASSUME ThreadsOwn, UNCHANGED given, \A u \in Requests : thread'[u].msg = thread[u].msg
    PROVE  ThreadsOwn'
BY DEF ThreadsOwn, Said

LEMMA MessagesKept ==
    ASSUME MessagesOwn, UNCHANGED <<given, inbox, verdict>>
    PROVE  MessagesOwn'
BY DEF MessagesOwn, Said

LEMMA TakeOwn ==
    ASSUME TypeOK, SessionsOwn, ThreadsOwn, UNCHANGED given,
           NEW r \in Requests, NEW resp \in Responses, TakeRequest(r, resp),
           resp = "NORESP" \/ (session[thread[r].sess].recvd /\ resp = session[thread[r].sess].resp)
    PROVE  SessionsOwn' /\ ThreadsOwn'
<1> DEFINE s == thread[r].sess
           p == session[thread[r].sess].raw
<1>1. /\ s \in Sessions /\ p \in Payloads
      /\ ~session'[s].recvd /\ \A t \in Sessions : t # s => session'[t] = session[t]
      /\ \A u \in Requests : u # r => thread'[u] = thread[u]
  BY DEF TakeRequest, TypeOK, SessionType, ThreadType
<1>2. /\ p # 0 /\ resp # "IGNORE" => thread'[r].msg = [payload |-> p, resp |-> resp]
      /\ p = 0 \/ resp = "IGNORE" => thread'[r].msg = NoMsg
  BY DEF TakeRequest, TypeOK, ThreadType
<1>3. SessionsOwn'
  BY <1>1 DEF SessionsOwn, Said
<1>4. resp # "IGNORE" => resp \in Said(p)
  BY <1>1 DEF SessionsOwn, Said
<1>5. NoMsg.payload = 0
  BY DEF NoMsg
<1>6. ThreadsOwn'
  <2>1. thread'[r].msg.payload # 0 =>
           thread'[r].msg.resp \in given[thread'[r].msg.payload] \cup {"NORESP"}
    <3>1. CASE p # 0 /\ resp # "IGNORE"
      <4>1. thread'[r].msg.payload = p /\ thread'[r].msg.resp = resp
        BY <1>2, <3>1
      <4>2. QED
        BY <1>4, <3>1, <4>1 DEF Said
    <3>2. CASE p = 0 \/ resp = "IGNORE"
      BY <1>2, <1>5, <3>2
    <3>3. QED
      BY <3>1, <3>2
  <2>2. ASSUME NEW u \in Requests, thread'[u].msg.payload # 0
        PROVE  thread'[u].msg.resp \in given'[thread'[u].msg.payload] \cup {"NORESP"}
    <3>1. CASE u = r
      BY <2>1, <2>2, <3>1
    <3>2. CASE u # r
      BY <1>1, <2>2, <3>2 DEF ThreadsOwn, Said
    <3>3. QED
      BY <3>1, <3>2
  <2>3. QED
    BY <2>2 DEF ThreadsOwn, Said
<1>7. QED
  BY <1>3, <1>6

LEMMA NextOwn ==
    ASSUME TypeOK, TypeOK', OnlyMessages, Opening, OneHolder, OneVerdict, FreedWhenDone, OwnAnswers,
           [Next]_vars
    PROVE  OwnAnswers'
<1> SUFFICES ASSUME ~raced', restarts' = 0
             PROVE  SessionsOwn' /\ ThreadsOwn' /\ MessagesOwn'
  BY OwnParts
<1>1. ~raced /\ restarts = 0 /\ engine.at \in {"idle", "open"}
  <2>1. restarts = 0 /\ ~raced
    <3>1. CASE Restart
      BY <3>1 DEF Restart, TypeOK
    <3>2. CASE IgnoreOther \/ Answer
      <4>1. UNCHANGED restarts
        BY <3>2 DEF IgnoreOther, Answer, engineVars
      <4>2. ~raced
        BY <3>2 DEF IgnoreOther, Answer
      <4>3. QED
        BY <4>1, <4>2
    <3>3. CASE ~(Restart \/ IgnoreOther \/ Answer)
      <4>1. UNCHANGED <<raced, restarts>>
        BY <3>3 DEF Next, EngineStep, UserStep, ThreadStep, RequestHandler, RequestOpen,
             InformNiResponse, ResetTest, ResetFree, ResetClear, ResetWake, Respond, TestOther,
             Loop, Timeout, Expired, ClearID, SendMsg, engineVars, vars
      <4>2. QED
        BY <4>1
    <3>4. QED
      BY <3>1, <3>2, <3>3
  <2>2. QED
    BY <2>1, ResetOnly
<1>2. SessionsOwn /\ ThreadsOwn /\ MessagesOwn
  BY <1>1, OwnParts
<1>3. ASSUME NEW s \in Sessions, RequestHandler(s)
      PROVE  SessionsOwn' /\ ThreadsOwn' /\ MessagesOwn'
  <2>1. /\ \A t \in Sessions : t # s => session'[t] = session[t]
        /\ session'[s].recvd = session[s].recvd /\ session[s].raw = 0
    BY <1>3 DEF RequestHandler, MayOpen, TypeOK, SessionType
  <2>2. UNCHANGED <<given, inbox, verdict>>
    BY <1>3 DEF RequestHandler
  <2>3. \A u \in Requests : thread'[u].msg = thread[u].msg
    BY <1>3 DEF RequestHandler
  <2>4. SessionsOwn'
    BY <1>2, <2>1, <2>2 DEF SessionsOwn, Said
  <2>5. QED
    BY <1>2, <2>2, <2>3, <2>4, ThreadsKept, MessagesKept
<1>4. ASSUME InformNiResponse PROVE SessionsOwn' /\ ThreadsOwn' /\ MessagesOwn'
  <2>1. inbox # <<>> /\ inbox \in Seq(Messages) /\ inbox' = Tail(inbox)
        /\ UNCHANGED <<given, session, thread>>
    BY <1>4 DEF InformNiResponse, informNiResponse, TypeOK
  <2>2. /\ 1 \in DOMAIN inbox /\ Head(inbox) = inbox[1]
        /\ \A i \in DOMAIN inbox' : i + 1 \in DOMAIN inbox /\ inbox'[i] = inbox[i + 1]
    BY <2>1, RemainingMessages
  <2>3. PICK m \in Messages : m = inbox[1]
    BY <2>1, <2>2
  <2>4. m.payload \in Requests /\ m.resp \in Said(m.payload) /\ m.resp \in Responses
    BY <1>2, <2>2, <2>3 DEF MessagesOwn, Messages
  <2>5. /\ verdict'[m.payload] = Append(verdict[m.payload], m.resp)
        /\ \A r \in Requests : r # m.payload => verdict'[r] = verdict[r]
    BY <1>4, <2>2, <2>3, <2>4 DEF InformNiResponse, informNiResponse, TypeOK
  <2>6. \A i \in 1 .. Len(verdict'[m.payload]) : verdict'[m.payload][i] \in Said(m.payload)
    <3>1. verdict[m.payload] \in Seq(Responses)
      BY <2>4 DEF TypeOK
    <3>2. \A i \in 1 .. Len(verdict[m.payload]) : verdict[m.payload][i] \in Said(m.payload)
      BY <1>2, <2>4 DEF MessagesOwn
    <3>3. QED
      BY <2>4, <2>5, <3>1, <3>2
  <2>7. MessagesOwn'
    BY <1>2, <2>1, <2>2, <2>5, <2>6 DEF MessagesOwn, Said
  <2>8. QED
    BY <1>2, <2>1, <2>7 DEF SessionsOwn, ThreadsOwn, Said
<1>5. ASSUME Restart PROVE FALSE
  BY <1>1, <1>5 DEF Restart
<1>6. ASSUME ResetTest \/ ResetFree \/ ResetClear \/ ResetWake PROVE FALSE
  BY <1>1, <1>6 DEF ResetTest, ResetFree, ResetClear, ResetWake
<1>7. ASSUME TestOther \/ \E id \in Requests, resp \in UserResponses : Respond(id, resp)
      PROVE  SessionsOwn' /\ ThreadsOwn' /\ MessagesOwn'
  <2>1. UNCHANGED <<session, thread, inbox, verdict, given>>
    BY <1>7 DEF Respond, TestOther
  <2>2. QED
    BY <1>2, <2>1 DEF SessionsOwn, ThreadsOwn, MessagesOwn, Said
<1>8. ASSUME IgnoreOther PROVE SessionsOwn' /\ ThreadsOwn' /\ MessagesOwn'
  <2>1. "normal" \in Sessions
    BY DEF Sessions
  <2>2. /\ session'["normal"].raw = session["normal"].raw /\ session["normal"].raw # 0
        /\ session'["normal"].resp = "IGNORE"
        /\ \A t \in Sessions : t # "normal" => session'[t] = session[t]
    <3>1. session["normal"].raw # 0
      BY <1>8 DEF IgnoreOther
    <3>2. session' = [session EXCEPT !["normal"].resp = "IGNORE", !["normal"].recvd = TRUE]
      BY <1>8 DEF IgnoreOther
    <3>3. QED
      BY <2>1, <3>1, <3>2 DEF TypeOK, SessionType
  <2>3. UNCHANGED <<given, inbox, verdict>> /\ \A u \in Requests : thread'[u].msg = thread[u].msg
    BY <1>8, <2>1, SignalType DEF IgnoreOther
  <2>4. SessionsOwn'
    BY <1>2, <2>2, <2>3 DEF SessionsOwn, Said
  <2>5. QED
    BY <1>2, <2>3, <2>4, ThreadsKept, MessagesKept
<1>9. ASSUME Answer PROVE SessionsOwn' /\ ThreadsOwn' /\ MessagesOwn'
  <2>1. user.sess \in Sessions /\ user.resp \in UserResponses /\ user.id \in Requests
    BY <1>9 DEF Answer, TypeOK
  <2>2. /\ session'[user.sess].raw = session[user.sess].raw /\ session[user.sess].raw = user.id
        /\ session'[user.sess].resp = user.resp
        /\ \A t \in Sessions : t # user.sess => session'[t] = session[t]
    <3>1. session[user.sess].raw = user.id
      BY <1>9 DEF Answer
    <3>2. session' = [session EXCEPT ![user.sess].resp = user.resp, ![user.sess].recvd = TRUE]
      BY <1>9 DEF Answer
    <3>3. QED
      BY <2>1, <3>1, <3>2 DEF TypeOK, SessionType
  <2>3. UNCHANGED <<inbox, verdict>> /\ \A u \in Requests : thread'[u].msg = thread[u].msg
    BY <1>9, <2>1, SignalType DEF Answer
  <2>4. user.resp \in given'[user.id] /\ user.id # 0
        /\ \A r \in Requests : given[r] \subseteq given'[r]
    BY <1>9, <2>1 DEF Answer, TypeOK, Requests
  <2>5. SessionsOwn'
    <3>1. ASSUME NEW t \in Sessions, session'[t].recvd
          PROVE  /\ session'[t].raw # 0
                 /\ session'[t].resp \in given'[session'[t].raw] \cup {"NORESP", "IGNORE"}
      <4>1. CASE t = user.sess
        BY <2>2, <2>4, <4>1
      <4>2. CASE t # user.sess
        <5>1. /\ session'[t] = session[t] /\ session[t].raw # 0
              /\ session[t].resp \in given[session[t].raw] \cup {"NORESP", "IGNORE"}
          BY <1>2, <2>2, <3>1, <4>2 DEF SessionsOwn, Said
        <5>2. session[t].raw \in Requests
          <6>1. session[t].raw \in 0 .. MaxReq
            BY DEF TypeOK, SessionType, Payloads
          <6>2. QED
            BY <5>1, <6>1 DEF Requests
        <5>3. QED
          BY <2>4, <5>1, <5>2
      <4>3. QED
        BY <4>1, <4>2
    <3>2. QED
      BY <3>1 DEF SessionsOwn, Said
  <2>6. ThreadsOwn'
    <3>1. ASSUME NEW u \in Requests, thread[u].msg.payload # 0
          PROVE  thread[u].msg.payload \in Requests
      BY <3>1 DEF TypeOK, ThreadType, Payloads, Requests
    <3>2. QED
      BY <1>2, <2>3, <2>4, <3>1 DEF ThreadsOwn, Said
  <2>7. MessagesOwn'
    <3>1. \A i \in DOMAIN inbox : inbox[i].payload \in Requests
      <4>1. \A i \in DOMAIN inbox : inbox[i] \in Messages
        BY DEF TypeOK
      <4>2. QED
        BY <4>1 DEF Messages
    <3>2. QED
      BY <1>2, <2>3, <2>4, <3>1 DEF MessagesOwn, Said
  <2>8. QED
    BY <2>5, <2>6, <2>7
<1>10. ASSUME NEW r \in Requests, Loop(r) PROVE SessionsOwn' /\ ThreadsOwn' /\ MessagesOwn'
  <2>1. session[thread[r].sess].resp \in Responses /\ UNCHANGED <<given, inbox, verdict>>
    BY <1>10 DEF Loop, TypeOK, SessionType, ThreadType
  <2>2. CASE session[thread[r].sess].recvd
    BY <1>2, <1>10, <2>1, <2>2, TakeOwn, MessagesKept DEF Loop
  <2>3. CASE ~session[thread[r].sess].recvd
    <3>1. session' = session /\ thread' = [thread EXCEPT ![r].at = "asleep"]
      BY <1>10, <2>3 DEF Loop
    <3>2. \A u \in Requests : thread'[u].msg = thread[u].msg
      BY <3>1 DEF TypeOK, ThreadType
    <3>3. QED
      BY <1>2, <2>1, <3>1, <3>2, ThreadsKept, MessagesKept DEF SessionsOwn, Said
  <2>4. QED
    BY <2>2, <2>3
<1>11. ASSUME NEW r \in Requests, Timeout(r) PROVE SessionsOwn' /\ ThreadsOwn' /\ MessagesOwn'
  <2>1. UNCHANGED <<session, given, inbox, verdict>>
        /\ \A u \in Requests : thread'[u].msg = thread[u].msg
    BY <1>11 DEF Timeout, TypeOK, ThreadType
  <2>2. QED
    BY <1>2, <2>1, ThreadsKept, MessagesKept DEF SessionsOwn, Said
<1>12. ASSUME NEW r \in Requests, Expired(r) PROVE SessionsOwn' /\ ThreadsOwn' /\ MessagesOwn'
  <2>1. "NORESP" \in Responses /\ UNCHANGED <<given, inbox, verdict>>
    BY <1>12 DEF Responses, Expired
  <2>2. QED
    BY <1>2, <1>12, <2>1, TakeOwn, MessagesKept DEF Expired
<1>13. ASSUME NEW r \in Requests, ClearID(r) PROVE SessionsOwn' /\ ThreadsOwn' /\ MessagesOwn'
  <2>1. UNCHANGED <<given, inbox, verdict>>
        /\ \A u \in Requests : thread'[u].msg = thread[u].msg
    BY <1>13 DEF ClearID, TypeOK, ThreadType
  <2>2. thread[r].sess \in Sessions
    BY DEF TypeOK, ThreadType
  <2>3. \A t \in Sessions : /\ session'[t].raw = session[t].raw
                            /\ session'[t].recvd = session[t].recvd
                            /\ session'[t].resp = session[t].resp
    BY <1>13, <2>2 DEF ClearID, TypeOK, SessionType
  <2>4. QED
    BY <1>2, <2>1, <2>3, ThreadsKept, MessagesKept DEF SessionsOwn, Said
<1>14. ASSUME NEW r \in Requests, SendMsg(r) PROVE SessionsOwn' /\ ThreadsOwn' /\ MessagesOwn'
  <2>1. UNCHANGED <<given, session, verdict>>
        /\ thread'[r].msg = NoMsg /\ \A u \in Requests : u # r => thread'[u] = thread[u]
    BY <1>14 DEF SendMsg, TypeOK
  <2>2. ThreadsOwn'
    BY <1>2, <2>1 DEF ThreadsOwn, Said, NoMsg
  <2>3. MessagesOwn'
    <3>1. CASE thread[r].msg = NoMsg
      BY <1>2, <1>14, <2>1, <3>1, MessagesKept DEF SendMsg
    <3>2. CASE thread[r].msg # NoMsg
      <4>1. inbox' = Append(inbox, thread[r].msg) /\ thread[r].msg.payload # 0
        BY <1>14, <3>2 DEF SendMsg, OnlyMessages
      <4>2. thread[r].msg \in Messages
        BY <4>1 DEF TypeOK, ThreadType, Messages, Payloads, Requests
      <4>3. thread[r].msg.resp \in Said(thread[r].msg.payload)
        BY <1>2, <4>1 DEF ThreadsOwn
      <4>4. \A i \in DOMAIN inbox' : inbox'[i].resp \in Said(inbox'[i].payload)
        BY <1>2, <4>1, <4>2, <4>3, AppendedMessages DEF MessagesOwn, TypeOK
      <4>5. QED
        BY <1>2, <2>1, <4>4 DEF MessagesOwn, Said
    <3>3. QED
      BY <3>1, <3>2
  <2>4. QED
    BY <1>2, <2>1, <2>2, <2>3 DEF SessionsOwn, Said
<1>15. ASSUME UNCHANGED vars PROVE SessionsOwn' /\ ThreadsOwn' /\ MessagesOwn'
  BY <1>2, <1>15 DEF vars, SessionsOwn, ThreadsOwn, MessagesOwn, Said
<1>16. ASSUME RequestOpen PROVE SessionsOwn' /\ ThreadsOwn' /\ MessagesOwn'
  <2>1. UNCHANGED <<given, inbox, verdict>> /\ \A u \in Requests : thread'[u].msg = thread[u].msg
    BY <1>16, OpenHolders DEF RequestOpen, SamePayloads
  <2>2. \A t \in Sessions : /\ session'[t].raw = session[t].raw
                            /\ session'[t].recvd = session[t].recvd
                            /\ session'[t].resp = session[t].resp
    BY <1>16 DEF RequestOpen, TypeOK, SessionType
  <2>3. QED
    BY <1>2, <2>1, <2>2, ThreadsKept, MessagesKept DEF SessionsOwn, Said
<1>17. QED
  BY <1>3, <1>4, <1>5, <1>6, <1>7, <1>8, <1>9, <1>10, <1>11, <1>12, <1>13, <1>14, <1>15, <1>16
     DEF Next, EngineStep, UserStep, ThreadStep

-----------------------------------------------------------------------------
LEMMA InitInv == Init => IInv
<1> SUFFICES ASSUME Init PROVE IInv
  OBVIOUS
<1>1. \A r \in Requests : ~Held(r)
  BY DEF Init, Held, InSession, InThread, InInbox, NoMsg, Requests
<1>2. OnlyMessages
  BY DEF Init, OnlyMessages, NoMsg
<1>3. OneHolder
  BY <1>1 DEF OneHolder, Held, Init
<1>4. OneVerdict
  BY DEF OneVerdict, Init
<1>5. FreedWhenDone
  BY <1>1 DEF FreedWhenDone, Init, Requests, Idle
<1>6. OwnAnswers
  BY DEF OwnAnswers, Init, NoMsg
<1>7. QED
  BY <1>2, <1>3, <1>4, <1>5, <1>6, InitType DEF IInv, Opening, Init, Idle

LEMMA NextInv == IInv /\ [Next]_vars => IInv'
BY NextType, NextHolders, NextOpening, NextFreed, NextOwn DEF IInv

\* The inductive invariant holds in every reachable state, whatever the number
\* of requests, answers and restarts.
THEOREM InvCorrect == Spec => []IInv
BY InitInv, NextInv, PTL DEF Spec

\* The variables keep their types.
THEOREM TypeCorrect == Spec => []TypeOK
<1>1. IInv => TypeOK
  BY DEF IInv
<1>2. QED
  BY <1>1, InvCorrect, PTL

\* As long as the engine has not been restarted, the payload of each accepted
\* request is with its session, in its message, in the queue of the engine
\* thread, or has been freed once: ni_thread_proc never frees what a message
\* refers to, and never leaves a payload behind.
THEOREM PayloadsConserved == Spec => []PayloadConserved
<1>1. IInv => PayloadConserved
  <2> SUFFICES ASSUME IInv, restarts = 0, NEW r \in 1 .. reqIDCounter
               PROVE  \/ frees[r] = 1 /\ Holders(r) = {}
                      \/ frees[r] = 0 /\ \E h \in Holders(r) : Holders(r) = {h}
    BY DEF PayloadConserved
  <2>1. r \in Requests /\ r <= reqIDCounter
    BY NiAssumption DEF IInv, TypeOK, Payloads, Requests
  <2>2. CASE ~Held(r)
    BY <2>1, <2>2 DEF IInv, FreedWhenDone, Holders, Queued, Held, InSession, InThread, InInbox
  <2>3. CASE Held(r)
    <3>1. frees[r] = 0
      BY <2>1, <2>3 DEF IInv, FreedWhenDone
    <3>2. \A x, y \in Holders(r) : x = y
      BY <2>1 DEF IInv, OneHolder, Holders, Queued, InSession, InThread, InInbox
    <3>3. \E h : h \in Holders(r)
      BY <2>3 DEF Holders, Queued, Held, InSession, InThread, InInbox
    <3>4. QED
      BY <3>1, <3>2, <3>3
  <2>4. QED
    BY <2>2, <2>3
<1>2. QED
  BY <1>1, InvCorrect, PTL

\* The modem is told at most one answer for each request, and, unless an answer
\* came after its session or the engine was restarted, an answer that the user
\* gave to this request, or that there was none.
THEOREM OwnVerdicts == Spec => []OwnVerdict
<1>1. IInv => OwnVerdict
  BY DEF IInv, OneVerdict, OwnAnswers, OwnVerdict, Said
<1>2. QED
  BY <1>1, InvCorrect, PTL

=============================================================================
