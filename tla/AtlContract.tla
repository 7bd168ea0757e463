---------------------------- MODULE AtlContract ----------------------------
(***************************************************************************)
(* What the clients of a network interface of the location engine see      *)
(* through atlOpenStatus and atlCloseStatus: each connection handle is     *)
(* asked for, opened or denied, and closed.  The interface is shared, so   *)
(* all waiting handles are answered together and a handle never waits      *)
(* while another is open.                                                  *)
(***************************************************************************)
CONSTANT Handles

VARIABLE told      \* what the client of each handle was told last

With(what) == {h \in Handles : told[h] = what}

Tell(H, what) == told' = [h \in Handles |-> IF h \in H THEN what ELSE told[h]]

Init == told = [h \in Handles |-> "idle"]

Request(h) ==
    /\ told[h] \notin {"asked", "open"}
    /\ \/ With("open") = {} /\ Tell({h}, "asked")
       \/ With("asked") = {} /\ Tell({h}, "open")

Answer ==
    /\ With("asked") # {}
    /\ \E what \in {"open", "denied"} : Tell(With("asked"), what)

Release(h) == Tell({h}, "closed")

\* The network went away under the open handles.
Lose == With("open") # {} /\ Tell(With("open"), "closed")

\* The modem, and with it every client, starts again.
Restart == Tell(Handles, "idle")

Next ==
    \/ \E h \in Handles : Request(h) \/ Release(h)
    \/ Answer
    \/ Lose
    \/ Restart

Spec == Init /\ [][Next]_told /\ WF_told(Answer)
=============================================================================
