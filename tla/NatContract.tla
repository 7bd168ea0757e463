---------------------------- MODULE NatContract -----------------------------
(* What the IPA NAT library promises its caller: while one call is made the *)
(* hardware goes on translating every other connection that is installed,   *)
(* in both directions; a connection that was added is translated when the   *)
(* call returns, one that was deleted is not; a call that fails has done    *)
(* nothing.                                                                 *)
VARIABLES inbound, outbound,   \* connections the hardware finds
          known,               \* connections the caller has a handle of
          call                 \* [kind, flow] under way

vars == <<inbound, outbound, known, call>>

Idle == [kind |-> "none", flow |-> "none"]

Init == inbound = {} /\ outbound = {} /\ known = {} /\ call = Idle

Begin ==
  /\ call = Idle /\ call' # Idle
  /\ call'.kind = "add" => call'.flow \notin known
  /\ call'.kind = "del" => call'.flow \in known
  /\ call'.kind = "open" => known = {}
  /\ UNCHANGED <<inbound, outbound, known>>

OnlyIts(set) == set' \ {call.flow} = set \ {call.flow}

Alter ==
  /\ call.kind \in {"add", "del"}
  /\ OnlyIts(inbound) /\ OnlyIts(outbound)
  /\ UNCHANGED <<known, call>>

\* The table goes as a whole.
Empty ==
  /\ call.kind = "close"
  /\ inbound' = {} /\ outbound' = {}
  /\ UNCHANGED <<known, call>>

Translated(f) == f \in inbound /\ f \in outbound
Unknown(f) == f \notin inbound /\ f \notin outbound

Finish ==
  /\ call # Idle /\ call' = Idle
  /\ \/ /\ call.kind = "add"
        /\ \/ Translated(call.flow) /\ known' = known \cup {call.flow}
           \/ Unknown(call.flow) /\ known' = known
     \/ /\ call.kind = "del"
        /\ \/ Unknown(call.flow) /\ known' = known \ {call.flow}
           \/ Translated(call.flow) /\ known' = known
     \/ call.kind \in {"open", "close"} /\ known' = {} /\ inbound = {} /\ outbound = {}
  /\ UNCHANGED <<inbound, outbound>>

Next == Begin \/ Alter \/ Empty \/ Finish
Spec == Init /\ [][Next]_vars
=============================================================================
