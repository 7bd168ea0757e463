------------------------------ MODULE LocTimer ------------------------------
(***************************************************************************)
(* The timer service of the location stack (gps/utils/LocTimer.cpp).       *)
(*                                                                         *)
(* A LocTimer that is started creates a delegate, which lives in a heap    *)
(* until it expires or is stopped.  Only the message thread touches the    *)
(* heap; clients and the polling thread send it Push, Remove and Expire    *)
(* messages.  The kernel timer is armed for the soonest delegate and       *)
(* polled by the polling thread, which disarms it, stops polling it and    *)
(* only then reports the expiration.                                       *)
(*                                                                         *)
(* One container is modelled (the other one, for alarms, is alike).  A     *)
(* delegate is the number of its start and 0 is NULL; the heap (LocHeap)   *)
(* is its contents and its top, which may be any of the soonest ones when  *)
(* the top has gone.  A section under the lock that client and delegate    *)
(* share is one step.                                                      *)
(***************************************************************************)
EXTENDS Naturals, Sequences

CONSTANTS Clients,       \* LocTimer objects
          Delays,        \* times they are started with
          MaxStarts,     \* bound: starts
          MaxTime,       \* bound: the clock
          MayDestroy     \* whether clients are also destroyed

ASSUME TimerAssumption ==
    /\ "none" \notin Clients
    /\ Delays \subseteq Nat \ {0}
    /\ MaxStarts \in Nat
    /\ MaxTime \in Nat
    /\ MayDestroy \in BOOLEAN

NULL == 0
None == "none"
Delegates == 1 .. MaxStarts

VARIABLES
    now,            \* CLOCK_BOOTTIME
    mTimer,         \* delegate of each client
    dead,           \* clients that were destroyed
    starts,
    due,            \* mFutureTime
    mClient,        \* client of each delegate
    owner,          \* history: the client that started it
    deleted,        \* history: delegates that were deleted
    heap,           \* contents of mTree
    top,            \* data of its root node
    msgs,           \* queue of the message thread
    msg,            \* where the message thread is
    armed,          \* time of the kernel timer, 0 when disarmed
    polled,         \* it is polled
    poll,           \* where the polling thread is
    fired           \* history: what each callback was called with

clientVars == <<mTimer, dead, starts, due, owner>>
kernelVars == <<armed, polled>>
heapVars == <<heap, top>>
vars == <<now, clientVars, mClient, deleted, heapVars, msgs, msg, kernelVars, poll, fired>>

Idle == [at |-> "idle", d |-> NULL, client |-> None, time |-> 0]

Init ==
    /\ now = 1
    /\ mTimer = [c \in Clients |-> NULL]
    /\ dead = {}
    /\ starts = 0
    /\ due = [d \in Delegates |-> 0]
    /\ mClient = [d \in Delegates |-> None]
    /\ owner = [d \in Delegates |-> None]
    /\ deleted = {}
    /\ heap = {}
    /\ top = NULL
    /\ msgs = <<>>
    /\ msg = Idle
    /\ armed = 0
    /\ polled = FALSE
    /\ poll = "wait"
    /\ fired = <<>>

Msg(what, d) == [what |-> what, d |-> d]

-----------------------------------------------------------------------------
(* Clients, on any thread.                                                  *)

Start(c, delay) ==
    /\ c \notin dead
    /\ mTimer[c] = NULL
    /\ starts < MaxStarts
    /\ now + delay <= MaxTime
    /\ starts' = starts + 1
    /\ mTimer' = [mTimer EXCEPT ![c] = starts']
    /\ due' = [due EXCEPT ![starts'] = now + delay]
    /\ mClient' = [mClient EXCEPT ![starts'] = c]
    /\ owner' = [owner EXCEPT ![starts'] = c]
    /\ msgs' = Append(msgs, Msg("push", starts'))
    /\ UNCHANGED <<now, dead, deleted, heapVars, msg, kernelVars, poll, fired>>

\* LocTimer::stop with destroyLocked: the delegate forgets its client and is
\* handed over to the message thread for deletion.
StopTimer_keep(c) ==
    LET d == mTimer[c] IN
    /\ UNCHANGED mTimer
    /\ IF d = NULL THEN UNCHANGED <<mClient, msgs>>
       ELSE /\ mClient' = [mClient EXCEPT ![d] = None]
            /\ msgs' = Append(msgs, Msg("remove", d))

StopTimer(c) ==
    LET d == mTimer[c] IN
    /\ mTimer' = [mTimer EXCEPT ![c] = NULL]
    /\ IF d = NULL THEN UNCHANGED <<mClient, msgs>>
       ELSE /\ mClient' = [mClient EXCEPT ![d] = None]
            /\ msgs' = Append(msgs, Msg("remove", d))

Stop(c) ==
    /\ c \notin dead
    /\ mTimer[c] # NULL
    /\ StopTimer(c)
    /\ UNCHANGED <<now, dead, starts, due, owner, deleted, heapVars, msg, kernelVars, poll,
                   fired>>

\* ~LocTimer.
Destroy(c) ==
    /\ MayDestroy
    /\ c \notin dead
    /\ StopTimer(c)
    /\ dead' = dead \cup {c}
    /\ UNCHANGED <<now, starts, due, owner, deleted, heapVars, msg, kernelVars, poll, fired>>

-----------------------------------------------------------------------------
(* The message thread.                                                      *)

Soonest(ds) == {d \in ds : \A e \in ds : due[d] <= due[e]}

\* LocHeap::push: a delegate replaces the top only if it is sooner.
Push(d) ==
    /\ heap' = heap \cup {d}
    /\ top' = IF top = NULL \/ due[d] < due[top] THEN d ELSE top

\* LocHeap::remove and LocHeap::pop.
Remove(d) ==
    /\ heap' = heap \ {d}
    /\ IF heap' = {} THEN top' = NULL
       ELSE IF top # d THEN top' = top
       ELSE top' \in Soonest(heap')

\* updateSoonestTime: when the top is new (prior is NULL) or sooner than
\* the prior one, poll the timer and then arm it.  An empty heap differs
\* from the prior top only when that was not NULL, and the callers that can
\* empty it pass NULL.
UpdateSoonestTime(t, prior) ==
    msg' = IF t # prior /\ t # NULL /\ (prior = NULL \/ due[t] < due[prior])
           THEN [Idle EXCEPT !.at = "add", !.time = due[t]]
           ELSE Idle

TakeMsg(what) ==
    /\ msg.at = "idle"
    /\ msgs # <<>>
    /\ Head(msgs).what = what
    /\ msgs' = Tail(msgs)

MsgTimerPush ==
    /\ TakeMsg("push")
    /\ Push(Head(msgs).d)
    /\ UpdateSoonestTime(top', top)
    /\ UNCHANGED <<now, clientVars, mClient, deleted, kernelVars, poll, fired>>

MsgTimerRemove_keep ==
    /\ TakeMsg("remove")
    /\ deleted' = deleted \cup {Head(msgs).d}
    /\ IF top = Head(msgs).d THEN UpdateSoonestTime(top, NULL) ELSE UNCHANGED msg
    /\ UNCHANGED <<now, clientVars, mClient, heapVars, kernelVars, poll, fired>>

MsgTimerRemove ==
    /\ TakeMsg("remove")
    /\ Remove(Head(msgs).d)
    /\ deleted' = deleted \cup {Head(msgs).d}
    /\ IF top = Head(msgs).d THEN UpdateSoonestTime(top', NULL) ELSE UNCHANGED msg
    /\ UNCHANGED <<now, clientVars, mClient, kernelVars, poll, fired>>

\* The top is popped whatever its time, the others only when their time has
\* come.
MsgTimerExpire ==
    /\ TakeMsg("expire")
    /\ Remove(top)
    /\ msg' = IF top = NULL THEN Idle
              ELSE [Idle EXCEPT !.at = "expire", !.d = top, !.time = now]
    /\ UNCHANGED <<now, clientVars, mClient, deleted, kernelVars, poll, fired>>

\* LocTimerDelegate::expire reads its client without the lock, ...
ReadClient ==
    /\ msg.at = "expire"
    /\ msg' = [msg EXCEPT !.at = IF mClient[msg.d] = None THEN "next" ELSE "stop",
                          !.client = mClient[msg.d]]
    /\ UNCHANGED <<now, clientVars, mClient, deleted, heapVars, msgs, kernelVars, poll, fired>>

\* ... stops it, ...
StopClient ==
    /\ msg.at = "stop"
    /\ StopTimer(msg.client)
    /\ msg' = [msg EXCEPT !.at = IF mTimer[msg.client] = NULL THEN "next" ELSE "fire"]
    /\ UNCHANGED <<now, dead, starts, due, owner, deleted, heapVars, kernelVars, poll, fired>>

\* ... and calls the client back if there was something to stop.
Fire ==
    /\ msg.at = "fire"
    /\ fired' = Append(fired, msg.d)
    /\ msg' = [msg EXCEPT !.at = "next"]
    /\ UNCHANGED <<now, clientVars, mClient, deleted, heapVars, msgs, kernelVars, poll>>

\* The loop of MsgTimerExpire: popIfOutRanks, or the end.
NextExpired_stop ==
    /\ msg.at = "next"
    /\ IF top # NULL /\ due[top] <= msg.time
       THEN /\ msg' = [msg EXCEPT !.at = "expire", !.d = top]
            /\ Remove(top)
       ELSE msg' = Idle /\ UNCHANGED heapVars
    /\ UNCHANGED <<now, clientVars, mClient, deleted, msgs, kernelVars, poll, fired>>

NextExpired ==
    /\ msg.at = "next"
    /\ IF top # NULL /\ due[top] <= msg.time
       THEN /\ msg' = [msg EXCEPT !.at = "expire", !.d = top]
            /\ Remove(top)
       ELSE UpdateSoonestTime(top, NULL) /\ UNCHANGED heapVars
    /\ UNCHANGED <<now, clientVars, mClient, deleted, msgs, kernelVars, poll, fired>>

\* addPoll, and then timerfd_settime.
AddPoll ==
    /\ msg.at = "add"
    /\ polled' = TRUE
    /\ msg' = [msg EXCEPT !.at = "arm"]
    /\ UNCHANGED <<now, clientVars, mClient, deleted, heapVars, msgs, armed, poll, fired>>

Arm ==
    /\ msg.at = "arm"
    /\ armed' = msg.time
    /\ msg' = Idle
    /\ UNCHANGED <<now, clientVars, mClient, deleted, heapVars, msgs, polled, poll, fired>>

-----------------------------------------------------------------------------
(* The polling thread: run, and LocTimerContainer::expire.                  *)

Wake ==
    /\ poll = "wait"
    /\ polled
    /\ armed # 0 /\ armed <= now
    /\ poll' = "disarm"
    /\ UNCHANGED <<now, clientVars, mClient, deleted, heapVars, msgs, msg, kernelVars, fired>>

Disarm ==
    /\ poll = "disarm"
    /\ armed' = 0
    /\ poll' = "remove"
    /\ UNCHANGED <<now, clientVars, mClient, deleted, heapVars, msgs, msg, polled, fired>>

RemovePoll ==
    /\ poll = "remove"
    /\ polled' = FALSE
    /\ poll' = "send"
    /\ UNCHANGED <<now, clientVars, mClient, deleted, heapVars, msgs, msg, armed, fired>>

SendExpire ==
    /\ poll = "send"
    /\ msgs' = Append(msgs, Msg("expire", NULL))
    /\ poll' = "wait"
    /\ UNCHANGED <<now, clientVars, mClient, deleted, heapVars, msg, kernelVars, fired>>

Tick ==
    /\ now < MaxTime
    /\ now' = now + 1
    /\ UNCHANGED <<clientVars, mClient, deleted, heapVars, msgs, msg, kernelVars, poll, fired>>

MsgThread ==
    \/ MsgTimerPush \/ MsgTimerRemove \/ MsgTimerExpire
    \/ ReadClient \/ StopClient \/ Fire \/ NextExpired
    \/ AddPoll \/ Arm

PollThread == Wake \/ Disarm \/ RemovePoll \/ SendExpire

Next ==
    \/ \E c \in Clients : \/ \E delay \in Delays : Start(c, delay)
                          \/ Stop(c)
                          \/ Destroy(c)
    \/ MsgThread
    \/ PollThread
    \/ Tick

Spec == Init /\ [][Next]_vars

\* Time passes, and both threads of the service run.
FairSpec == Spec /\ WF_vars(MsgThread) /\ WF_vars(PollThread) /\ WF_vars(Tick)

-----------------------------------------------------------------------------
(* Properties.                                                              *)

InQueue(what, d) == \E i \in DOMAIN msgs : msgs[i] = Msg(what, d)

\* A delegate in use is not deleted: not one in the heap, not one that a
\* client still holds, not one that waits to be added or is being expired.
UsedIsAlive ==
    \A d \in deleted :
        /\ d \notin heap
        /\ \A c \in Clients : mTimer[c] # d
        /\ ~InQueue("push", d) /\ ~InQueue("remove", d)
        /\ msg.at \in {"expire", "stop"} => msg.d # d

\* A client is called back at most once for a start, and never while that
\* start still counts as running.
OneCallback ==
    \A i \in DOMAIN fired :
        /\ \A j \in DOMAIN fired : fired[i] = fired[j] => i = j
        /\ mTimer[owner[fired[i]]] # fired[i]

\* Every start ends: its timer fires or is stopped.
EveryTimerEnds ==
    \A d \in Delegates :
        (\E c \in Clients : mTimer[c] = d) ~> (\A c \in Clients : mTimer[c] # d)

=============================================================================
