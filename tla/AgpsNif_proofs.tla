--------------------------- MODULE AgpsNif_proofs ---------------------------
(***************************************************************************)
(* Proofs about AgpsNif, for every set of handles, every value a freed     *)
(* subscriber may read as, and every bound.                                *)
(***************************************************************************)
EXTENDS AgpsNif, TLAPS

Commands == {"REQUEST", "RELEASE"}
Answers == {"GRANTED", "DENIED", "RELEASED"}

-----------------------------------------------------------------------------
(* What is under way: appending never takes a message away, and taking the  *)
(* head takes away the head only.                                           *)

LEMMA HasAppend ==
    ASSUME NEW S, NEW s \in Seq(S), NEW e \in S, NEW what
    PROVE  Has(Append(s, e), what) <=> (Has(s, what) \/ e = what)
<1>1. Len(Append(s, e)) = Len(s) + 1 /\ Len(s) \in Nat
      /\ \A i \in 1 .. Len(s) + 1 :
            Append(s, e)[i] = IF i <= Len(s) THEN s[i] ELSE e
  OBVIOUS
<1>2. ASSUME Has(Append(s, e), what) PROVE Has(s, what) \/ e = what
  <2>1. PICK i \in 1 .. Len(s) + 1 : Append(s, e)[i] = what
    BY <1>1, <1>2 DEF Has
  <2>2. CASE i <= Len(s)
    BY <1>1, <2>1, <2>2 DEF Has
  <2>3. CASE ~(i <= Len(s))
    BY <1>1, <2>1, <2>3
  <2>4. QED
    BY <2>2, <2>3
<1>3. ASSUME Has(s, what) PROVE Has(Append(s, e), what)
  <2>1. PICK i \in 1 .. Len(s) : s[i] = what
    BY <1>3 DEF Has
  <2>2. i \in 1 .. Len(s) + 1 /\ Append(s, e)[i] = what
    BY <1>1, <2>1
  <2>3. QED
    BY <1>1, <2>2 DEF Has
<1>4. ASSUME e = what PROVE Has(Append(s, e), what)
  <2>1. Len(s) + 1 \in 1 .. Len(s) + 1 /\ Append(s, e)[Len(s) + 1] = what
    BY <1>1, <1>4
  <2>2. QED
    BY <1>1, <2>1 DEF Has
<1>5. QED
  BY <1>2, <1>3, <1>4

LEMMA HasTail ==
    ASSUME NEW S, NEW s \in Seq(S), s # <<>>, NEW what,
           Has(s, what), Head(s) # what
    PROVE  Has(Tail(s), what)
<1>1. PICK i \in 1 .. Len(s) : s[i] = what
  BY DEF Has
<1>2. i # 1
  BY <1>1
<1>3. i - 1 \in 1 .. Len(Tail(s)) /\ Tail(s)[i - 1] = s[i]
  BY <1>1, <1>2
<1>4. QED
  BY <1>1, <1>3 DEF Has

-----------------------------------------------------------------------------
LEMMA AppendType ==
    ASSUME NEW S, NEW s \in Seq(S), NEW e \in S
    PROVE  Append(s, e) \in Seq(S)
OBVIOUS

LEMMA TailType ==
    ASSUME NEW S, NEW s \in Seq(S), s # <<>>
    PROVE  Tail(s) \in Seq(S)
OBVIOUS

LEMMA MessageTypes ==
    /\ "REQUEST" \in Commands /\ "RELEASE" \in Commands
    /\ "GRANTED" \in Answers /\ "DENIED" \in Answers /\ "RELEASED" \in Answers
BY DEF Commands, Answers

\* The queues keep their types, whatever is sent or taken.
LEMMA QueueTypes ==
    ASSUME TypeOK, [Next]_vars
    PROVE  commands' \in Seq(Commands) /\ answers' \in Seq(Answers)
<1>0. commands \in Seq(Commands) /\ answers \in Seq(Answers)
  BY DEF TypeOK, Commands, Answers
<1>1. \/ commands' = commands
      \/ commands' = Append(commands, "REQUEST")
      \/ commands' = Append(commands, "RELEASE")
      \/ commands # <<>> /\ commands' = Tail(commands)
  <2>1. ASSUME NEW h \in Handles,
               SubscribeReleased(h) \/ SubscribePending(h) \/ SubscribeAcquired(h)
               \/ UnsubscribeRsrc(h) \/ UnsubscribeUnknown(h)
        PROVE  commands' \in {commands, Append(commands, "REQUEST"),
                              Append(commands, "RELEASE")}
    BY <2>1 DEF SubscribeReleased, SubscribePending, SubscribeAcquired,
                UnsubscribeRsrc, UnsubscribeUnknown, SendRsrcRequest, afwVars
  <2>2. ASSUME OnAnswer \/ EngineUp \/ AfwLose \/ UNCHANGED vars
        PROVE  commands' = commands
    BY <2>2 DEF OnAnswer, OnGranted, OnDenied, OnReleased, Take, EngineUp, AfwLose,
        loc_eng_agps_closed,
                afwVars, vars
  <2>3. ASSUME Afw PROVE commands # <<>> /\ commands' = Tail(commands)
    BY <2>3 DEF Afw, AfwRequest, AfwRelease,
        loc_eng_agps_open, loc_eng_agps_open_failed, loc_eng_agps_closed
  <2>4. QED
    BY <2>1, <2>2, <2>3 DEF Next
<1>2. \/ answers' = answers
      \/ \E e \in Answers : answers' = Append(answers, e)
      \/ answers # <<>> /\ answers' = Tail(answers)
  <2>1. ASSUME NEW h \in Handles,
               SubscribeReleased(h) \/ SubscribePending(h) \/ SubscribeAcquired(h)
               \/ UnsubscribeRsrc(h) \/ UnsubscribeUnknown(h)
        PROVE  answers' = answers
    BY <2>1 DEF SubscribeReleased, SubscribePending, SubscribeAcquired,
                UnsubscribeRsrc, UnsubscribeUnknown, afwVars
  <2>2. ASSUME EngineUp \/ UNCHANGED vars PROVE answers' = answers
    BY <2>2 DEF EngineUp, afwVars, vars
  <2>3. ASSUME OnAnswer PROVE answers # <<>> /\ answers' = Tail(answers)
    BY <2>3 DEF OnAnswer, OnGranted, OnDenied, OnReleased, Take
  <2>4. ASSUME Afw \/ AfwLose PROVE \E e \in Answers : answers' = Append(answers, e)
    BY <2>4, MessageTypes DEF Afw, AfwRequest, AfwRelease, AfwLose,
        loc_eng_agps_open, loc_eng_agps_open_failed, loc_eng_agps_closed
  <2>5. QED
    BY <2>1, <2>2, <2>3, <2>4 DEF Next
<1>3. commands' \in Seq(Commands)
  BY <1>0, <1>1, MessageTypes, AppendType, TailType
<1>4. answers' \in Seq(Answers)
  BY <1>0, <1>2, AppendType, TailType
<1>5. QED
  BY <1>3, <1>4

LEMMA InitType == Init => TypeOK
<1> SUFFICES ASSUME Init PROVE TypeOK
  OBVIOUS
<1>1. commands \in Seq({"REQUEST", "RELEASE"})
      /\ answers \in Seq({"GRANTED", "DENIED", "RELEASED"})
  BY DEF Init
<1>2. restarts \in 0 .. MaxRestarts
  BY AgpsAssumption DEF Init
<1>3. QED
  BY <1>1, <1>2 DEF Init, TypeOK, States, Status

LEMMA NextType == TypeOK /\ [Next]_vars => TypeOK'
<1> SUFFICES ASSUME TypeOK, [Next]_vars PROVE TypeOK'
  OBVIOUS
<1>0. commands' \in Seq({"REQUEST", "RELEASE"})
      /\ answers' \in Seq({"GRANTED", "DENIED", "RELEASED"})
  BY QueueTypes DEF Commands, Answers
<1> DEFINE Rest == /\ state' \in States /\ subs' \subseteq Handles
                   /\ told' \in [Handles -> Status] /\ nif' \in BOOLEAN
                   /\ restarts' \in 0 .. MaxRestarts
<1>1. ASSUME NEW h \in Handles, SubscribeReleased(h) PROVE Rest
  BY <1>1 DEF SubscribeReleased, Tell, TypeOK, States, Status
<1>2. ASSUME NEW h \in Handles, SubscribePending(h) PROVE Rest
  BY <1>2 DEF SubscribePending, Tell, TypeOK, Status, afwVars
<1>3. ASSUME NEW h \in Handles, SubscribeAcquired(h) PROVE Rest
  BY <1>3 DEF SubscribeAcquired, atlOpenStatus, Tell, TypeOK, Status, afwVars
<1>4. ASSUME NEW h \in Handles, UnsubscribeRsrc(h) PROVE Rest
  BY <1>4 DEF UnsubscribeRsrc, atlCloseStatus, Tell, TypeOK, States, Status
<1>5. ASSUME NEW h \in Handles, UnsubscribeUnknown(h) PROVE Rest
  BY <1>5 DEF UnsubscribeUnknown, atlCloseStatus, Tell, TypeOK, Status, afwVars
<1>6. ASSUME OnAnswer PROVE Rest
  BY <1>6 DEF OnAnswer, OnGranted, OnDenied, OnReleased, Take, atlOpenStatus, atlCloseStatus,
     Tell, TypeOK, States, Status
<1>7. ASSUME EngineUp PROVE Rest
  <2>1. restarts' \in 0 .. MaxRestarts
    BY <1>7, AgpsAssumption DEF EngineUp, TypeOK
  <2>2. QED
    BY <1>7, <2>1 DEF EngineUp, Tell, TypeOK, Status, afwVars
<1>8. ASSUME Afw \/ AfwLose PROVE Rest
  BY <1>8 DEF Afw, AfwRequest, AfwRelease, AfwLose,
        loc_eng_agps_open, loc_eng_agps_open_failed, loc_eng_agps_closed, TypeOK
<1>9. CASE UNCHANGED vars
  BY <1>9 DEF vars, afwVars, TypeOK
<1>10. Rest
  BY <1>1, <1>2, <1>3, <1>4, <1>5, <1>6, <1>7, <1>8, <1>9 DEF Next, TypeOK, vars, afwVars
<1>11. QED
  BY <1>0, <1>10 DEF TypeOK

\* TypeCorrect: every variable keeps its type.
THEOREM TypeCorrect == Spec => []TypeOK
<1>1. QED
  BY InitType, NextType, PTL DEF Spec

-----------------------------------------------------------------------------
(* A Pending machine has its request under way.                             *)

LEMMA NextPending == TypeOK /\ PendingAsked /\ [Next]_vars => PendingAsked'
<1> SUFFICES ASSUME TypeOK, PendingAsked, [Next]_vars, state' = "Pending"
             PROVE  \/ Has(commands', "REQUEST")
                    \/ Has(answers', "GRANTED")
                    \/ Has(answers', "DENIED")
  BY DEF PendingAsked
<1> DEFINE Asked == Has(commands, "REQUEST") \/ Has(answers, "GRANTED")
                    \/ Has(answers, "DENIED")
<1>0. commands \in Seq(Commands) /\ answers \in Seq(Answers)
  BY DEF TypeOK, Commands, Answers
<1>1. ASSUME NEW h \in Handles, SubscribeReleased(h) PROVE Has(commands', "REQUEST")
  <2>1. commands' = Append(commands, "REQUEST")
    BY <1>1 DEF SubscribeReleased, SendRsrcRequest
  <2>2. QED
    BY <1>0, <2>1, HasAppend DEF Commands
<1>2. ASSUME state = "Pending", UNCHANGED <<commands, answers>>
      PROVE  Has(commands', "REQUEST") \/ Has(answers', "GRANTED") \/ Has(answers', "DENIED")
  BY <1>2 DEF PendingAsked
<1>3. ASSUME NEW h \in Handles,
             SubscribePending(h) \/ SubscribeAcquired(h) \/ UnsubscribeUnknown(h)
      PROVE  state = "Pending" /\ UNCHANGED <<commands, answers>>
  BY <1>3 DEF SubscribePending, SubscribeAcquired, UnsubscribeUnknown, afwVars
<1>4. ASSUME NEW h \in Handles, UnsubscribeRsrc(h)
      PROVE  state = "Pending" /\ UNCHANGED <<commands, answers>>
  BY <1>4 DEF UnsubscribeRsrc
<1>5. ASSUME OnAnswer
      PROVE  Has(commands', "REQUEST") \/ Has(answers', "GRANTED") \/ Has(answers', "DENIED")
  <2>1. state = "Pending" /\ answers # <<>> /\ Head(answers) = "RELEASED"
        /\ answers' = Tail(answers) /\ commands' = commands
    BY <1>5 DEF OnAnswer, OnGranted, OnDenied, OnReleased, Take
  <2>2. Asked
    BY <2>1 DEF PendingAsked
  <2>3. QED
    BY <1>0, <2>1, <2>2, HasTail
<1>6. ASSUME EngineUp PROVE state = "Pending" /\ UNCHANGED <<commands, answers>>
  BY <1>6 DEF EngineUp, afwVars
<1>7. ASSUME AfwRequest PROVE Has(answers', "GRANTED") \/ Has(answers', "DENIED")
  <2>1. answers' = Append(answers, "GRANTED") \/ answers' = Append(answers, "DENIED")
    BY <1>7 DEF AfwRequest, loc_eng_agps_open, loc_eng_agps_open_failed
  <2>2. Has(Append(answers, "GRANTED"), "GRANTED")
    BY <1>0, HasAppend, MessageTypes
  <2>3. Has(Append(answers, "DENIED"), "DENIED")
    BY <1>0, HasAppend, MessageTypes
  <2>4. QED
    BY <2>1, <2>2, <2>3
<1>8. ASSUME AfwRelease
      PROVE  Has(commands', "REQUEST") \/ Has(answers', "GRANTED") \/ Has(answers', "DENIED")
  <2>1. state = "Pending" /\ commands # <<>> /\ Head(commands) = "RELEASE"
        /\ commands' = Tail(commands) /\ answers' = Append(answers, "RELEASED")
    BY <1>8 DEF AfwRelease, loc_eng_agps_closed
  <2>2. Asked
    BY <2>1 DEF PendingAsked
  <2>3. Has(commands, "REQUEST") => Has(commands', "REQUEST")
    BY <1>0, <2>1, HasTail
  <2>4. "RELEASED" \in Answers
    BY DEF Answers
  <2>5. \A what : Has(answers, what) => Has(answers', what)
    BY <1>0, <2>1, <2>4, HasAppend
  <2>6. QED
    BY <2>2, <2>3, <2>5
<1>9. ASSUME AfwLose
      PROVE  Has(commands', "REQUEST") \/ Has(answers', "GRANTED") \/ Has(answers', "DENIED")
  <2>1. state = "Pending" /\ commands' = commands /\ answers' = Append(answers, "RELEASED")
    BY <1>9 DEF AfwLose, loc_eng_agps_closed
  <2>2. Asked
    BY <2>1 DEF PendingAsked
  <2>3. "RELEASED" \in Answers
    BY DEF Answers
  <2>4. \A what : Has(answers, what) => Has(answers', what)
    BY <1>0, <2>1, <2>3, HasAppend
  <2>5. QED
    BY <2>1, <2>2, <2>4
<1>10. CASE UNCHANGED vars
  BY <1>2, <1>10 DEF vars, afwVars
<1>11. QED
  BY <1>1, <1>2, <1>3, <1>4, <1>5, <1>6, <1>7, <1>8, <1>9, <1>10 DEF Next, Afw

\* PendingHasRequest: a machine that waits has a request under way (its
\* state Pending always has a way out).
THEOREM PendingHasRequest == Spec => []PendingAsked
<1>1. Init => PendingAsked
  BY DEF Init, PendingAsked
<1>2. QED
  BY <1>1, NextPending, TypeCorrect, PTL DEF Spec

-----------------------------------------------------------------------------
(* The list is what the clients know.                                       *)

LEMMA NextList ==
    TypeOK /\ ListIsWhatClientsKnow /\ [Next]_vars => ListIsWhatClientsKnow'
<1> SUFFICES ASSUME TypeOK, ListIsWhatClientsKnow, [Next]_vars
             PROVE  ListIsWhatClientsKnow'
  OBVIOUS
<1> USE DEF ListIsWhatClientsKnow
<1>1. ASSUME NEW h \in Handles, SubscribeReleased(h) PROVE ListIsWhatClientsKnow'
  BY <1>1 DEF SubscribeReleased, Tell
<1>2. ASSUME NEW h \in Handles, SubscribePending(h) PROVE ListIsWhatClientsKnow'
  BY <1>2 DEF SubscribePending, Tell
<1>3. ASSUME NEW h \in Handles, SubscribeAcquired(h) PROVE ListIsWhatClientsKnow'
  BY <1>3 DEF SubscribeAcquired, atlOpenStatus, Tell
<1>4. ASSUME NEW h \in Handles, UnsubscribeRsrc(h) PROVE ListIsWhatClientsKnow'
  <2>1. PICK gone \in Leavers(h) :
           /\ subs' = subs \ gone
           /\ told' = [k \in Handles |-> IF k \in gone THEN "closed" ELSE told[k]]
    BY <1>4 DEF UnsubscribeRsrc, atlCloseStatus, Tell
  <2>2. gone \subseteq subs
    BY <1>4, <2>1 DEF UnsubscribeRsrc, Leavers
  <2>3. /\ state \in {"Pending", "Acquired"}
        /\ IF subs' = {} THEN state' = "Released" ELSE state' = state
    BY <1>4 DEF UnsubscribeRsrc
  <2>4. QED
    BY <2>1, <2>2, <2>3
<1>5. ASSUME NEW h \in Handles, UnsubscribeUnknown(h) PROVE ListIsWhatClientsKnow'
  BY <1>5 DEF UnsubscribeUnknown, atlCloseStatus, Tell
<1>6. ASSUME OnGranted PROVE ListIsWhatClientsKnow'
  BY <1>6 DEF OnGranted, atlOpenStatus, Tell, TypeOK
<1>7. ASSUME OnDenied PROVE ListIsWhatClientsKnow'
  BY <1>7 DEF OnDenied, atlOpenStatus, Tell, TypeOK
<1>8. ASSUME OnReleased PROVE ListIsWhatClientsKnow'
  BY <1>8 DEF OnReleased, atlCloseStatus, Tell, TypeOK
<1>9. ASSUME EngineUp PROVE ListIsWhatClientsKnow'
  BY <1>9 DEF EngineUp, Tell
<1>10. ASSUME Afw \/ AfwLose PROVE ListIsWhatClientsKnow'
  BY <1>10 DEF Afw, AfwRequest, AfwRelease, AfwLose,
        loc_eng_agps_open, loc_eng_agps_open_failed, loc_eng_agps_closed
<1>11. CASE UNCHANGED vars
  BY <1>11 DEF vars
<1>12. QED
  BY <1>1, <1>2, <1>3, <1>4, <1>5, <1>6, <1>7, <1>8, <1>9, <1>10, <1>11
     DEF Next, OnAnswer

\* ListCorrect: the listed handles are the waiting ones while Pending, the
\* open ones while Acquired, and the list of a Released machine is empty,
\* even when a freed subscriber is misread.
THEOREM ListCorrect == Spec => []ListIsWhatClientsKnow
<1>1. Init => ListIsWhatClientsKnow
  BY DEF Init, ListIsWhatClientsKnow
<1>2. QED
  BY <1>1, NextList, TypeCorrect, PTL DEF Spec

-----------------------------------------------------------------------------
(* The contract, as long as a freed subscriber is not misread.              *)

LEMMA StepContract ==
    ASSUME FreedReads = {}, TypeOK, ListIsWhatClientsKnow, [Next]_vars
    PROVE  [Contract!Next]_told
<1> USE DEF ListIsWhatClientsKnow, Contract!Next, Contract!Tell, Contract!With
<1>1. ASSUME NEW h \in Handles, SubscribeReleased(h) PROVE Contract!Request(h)
  BY <1>1 DEF SubscribeReleased, Asks, Tell, Contract!Request
<1>2. ASSUME NEW h \in Handles, SubscribePending(h) PROVE Contract!Request(h)
  BY <1>2 DEF SubscribePending, Asks, Tell, Contract!Request
<1>3. ASSUME NEW h \in Handles, SubscribeAcquired(h) PROVE Contract!Request(h)
  BY <1>3 DEF SubscribeAcquired, Asks, atlOpenStatus, Tell, Contract!Request
<1>4. ASSUME NEW h \in Handles, UnsubscribeRsrc(h) PROVE Contract!Release(h)
  BY <1>4 DEF UnsubscribeRsrc, Leavers, atlCloseStatus, Tell, Contract!Release
<1>5. ASSUME NEW h \in Handles, UnsubscribeUnknown(h) PROVE Contract!Release(h)
  BY <1>5 DEF UnsubscribeUnknown, atlCloseStatus, Tell, Contract!Release
<1> DEFINE Asked == {k \in Handles : told[k] = "asked"}
           Open == {k \in Handles : told[k] = "open"}
<1>6. ASSUME state = "Pending" PROVE subs = Asked
  BY <1>6 DEF TypeOK
<1>7. ASSUME state = "Acquired" PROVE subs = Open
  BY <1>7 DEF TypeOK
<1>8. ASSUME NEW what, Tell({}, what) PROVE UNCHANGED told
  BY <1>8 DEF Tell, TypeOK
<1>9. ASSUME NEW what \in {"open", "denied"}, state = "Pending", Tell(subs, what)
      PROVE  Contract!Answer \/ UNCHANGED told
  <2>1. CASE subs = {}
    BY <1>8, <1>9, <2>1
  <2>2. CASE subs # {}
    BY <1>6, <1>9, <2>2 DEF Tell, Contract!Answer
  <2>3. QED
    BY <2>1, <2>2
<1>10. ASSUME state = "Acquired", Tell(subs, "closed")
       PROVE  Contract!Lose \/ UNCHANGED told
  <2>1. CASE subs = {}
    BY <1>8, <1>10, <2>1
  <2>2. CASE subs # {}
    BY <1>7, <1>10, <2>2 DEF Tell, Contract!Lose
  <2>3. QED
    BY <2>1, <2>2
<1>11. ASSUME OnAnswer PROVE Contract!Answer \/ Contract!Lose \/ UNCHANGED told
  BY <1>9, <1>10, <1>11 DEF OnAnswer, OnGranted, OnDenied, OnReleased, atlOpenStatus,
     atlCloseStatus
<1>12. ASSUME EngineUp PROVE Contract!Restart
  BY <1>12 DEF EngineUp, Tell, Contract!Restart
<1>13. ASSUME Afw \/ AfwLose PROVE UNCHANGED told
  BY <1>13 DEF Afw, AfwRequest, AfwRelease, AfwLose,
        loc_eng_agps_open, loc_eng_agps_open_failed, loc_eng_agps_closed
<1>14. CASE UNCHANGED vars
  BY <1>14 DEF vars
<1>15. QED
  BY <1>1, <1>2, <1>3, <1>4, <1>5, <1>11, <1>12, <1>13, <1>14 DEF Next

\* ContractKept: every step of the machine is a step of the contract or
\* changes nothing a client sees.
THEOREM ContractKept ==
    ASSUME FreedReads = {}
    PROVE  Spec => Contract!Init /\ [][Contract!Next]_told
<1>1. Init => Contract!Init
  BY DEF Init, Contract!Init
<1>2. TypeOK /\ ListIsWhatClientsKnow /\ [Next]_vars => [Contract!Next]_told
  BY StepContract
<1>3. QED
  BY <1>1, <1>2, TypeCorrect, ListCorrect, PTL DEF Spec

-----------------------------------------------------------------------------
\* ReleasedWithLastLeaver: the network is handed back in the step in which
\* the last subscriber leaves, and never while one is left.
THEOREM ReleasedWithLastLeaver == Spec => ReleaseWithLastLeaver
<1> DEFINE Step == /\ (state # "Released" /\ state' = "Released" /\ answers' = answers)
                         => commands' = Append(commands, "RELEASE")
                   /\ commands' = Append(commands, "RELEASE") => subs' = {}
<1>1. TypeOK /\ [Next]_vars => [Step]_vars
  <2> SUFFICES ASSUME TypeOK, [Next]_vars, ~UNCHANGED vars PROVE Step
    OBVIOUS
  <2>1. commands # Append(commands, "RELEASE")
    BY DEF TypeOK
  <2>2. commands # <<>> => Tail(commands) # Append(commands, "RELEASE")
    BY DEF TypeOK
  <2>3. ASSUME NEW h \in Handles, SubscribeReleased(h) PROVE Step
    <3>1. commands' = Append(commands, "REQUEST")
      BY <2>3 DEF SubscribeReleased, SendRsrcRequest
    <3>2. Append(commands, "REQUEST") # Append(commands, "RELEASE")
      <4>1. Append(commands, "REQUEST")[Len(commands) + 1] = "REQUEST"
            /\ Append(commands, "RELEASE")[Len(commands) + 1] = "RELEASE"
        BY DEF TypeOK
      <4>2. QED
        BY <4>1
    <3>3. QED
      BY <2>3, <3>1, <3>2 DEF SubscribeReleased
  <2>4. ASSUME NEW h \in Handles,
               SubscribePending(h) \/ SubscribeAcquired(h) \/ UnsubscribeUnknown(h)
        PROVE  Step
    BY <2>1, <2>4 DEF SubscribePending, SubscribeAcquired, UnsubscribeUnknown, afwVars
  <2>5. ASSUME NEW h \in Handles, UnsubscribeRsrc(h) PROVE Step
    BY <2>1, <2>5 DEF UnsubscribeRsrc, SendRsrcRequest
  <2>6. ASSUME OnAnswer PROVE Step
    <3>1. answers' # answers /\ commands' = commands
      <4>1. answers # <<>> /\ answers' = Tail(answers) /\ commands' = commands
        BY <2>6 DEF OnAnswer, OnGranted, OnDenied, OnReleased, Take
      <4>2. answers # <<>> => Tail(answers) # answers
        BY DEF TypeOK
      <4>3. QED
        BY <4>1, <4>2
    <3>2. QED
      BY <2>1, <3>1
  <2>7. ASSUME EngineUp PROVE Step
    BY <2>1, <2>7 DEF EngineUp, afwVars
  <2>8. ASSUME Afw \/ AfwLose PROVE Step
    BY <2>1, <2>2, <2>8 DEF Afw, AfwRequest, AfwRelease, AfwLose,
        loc_eng_agps_open, loc_eng_agps_open_failed, loc_eng_agps_closed
  <2>9. QED
    BY <2>3, <2>4, <2>5, <2>6, <2>7, <2>8 DEF Next
<1>2. QED
  BY <1>1, TypeCorrect, PTL DEF Spec, ReleaseWithLastLeaver
=============================================================================
