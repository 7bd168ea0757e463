---------------------------- MODULE IpacmTables ----------------------------
(* The tables every IPACM interface works on: the rules and headers of the *)
(* IPA driver, behind IPACM_Filtering, IPACM_Routing and IPACM_Header, and *)
(* the shared configuration of IPACM_Config.                               *)
(*                                                                         *)
(* An event handler is an operator on a record w:                          *)
(*   w.d    the handles installed in the driver                            *)
(*   w.cfg  the shared configuration                                       *)
(*   w.bad  the kinds of entry the driver refuses during this event, and   *)
(*          "refused" when it has done so                                  *)
(*   w.new  the handle of the last entry added, w.ok the last result       *)
(* and what the interface keeps.  A handle is a pair <<kind, n>>: entries   *)
(* that the code adds and deletes together (the default filters of one     *)
(* family, the two IPv6 routes of one address) share one handle.           *)
EXTENDS Naturals, FiniteSets, Sequences, SequencesExt

CONSTANTS MaxSubnets      \* IPA_MAX_PRIVATE_SUBNET_ENTRIES

None == <<"none", 0>>     \* a handle field that is zero
Junk == <<"junk", 0>>     \* a handle field the code never initialised

(***************************************************************************)
(* Driver.                                                                 *)
(***************************************************************************)
\* The driver hands out the smallest number that is free.
FreeHandle(d, k) ==
  <<k, CHOOSE n \in 1 .. Cardinality(d) + 1 :
         <<k, n>> \notin d /\ \A m \in 1 .. n - 1 : <<k, m>> \in d>>

AddEntry(w, k) ==
  IF k \in w.bad THEN [w EXCEPT !.ok = FALSE, !.bad = @ \cup {"refused"}]
  ELSE LET x == FreeHandle(w.d, k)
       IN  [w EXCEPT !.ok = TRUE, !.new = x, !.d = @ \cup {x}]

AddFilteringRule(w, k) == AddEntry(w, k)
AddRoutingRule(w, k)   == AddEntry(w, k)
AddHeader(w, k)        == AddEntry(w, k)
AddHeaderProcCtx(w, k) == AddEntry(w, k)

\* A zero handle is skipped; one the driver does not know is an error.
DeleteFilteringHdls(w, x) ==
  [w EXCEPT !.ok = x = None \/ x \in w.d, !.d = @ \ {x}]

\* "goto fail" comes before "res = false": the result is always true.
DeleteRoutingHdl(w, x) == [w EXCEPT !.ok = TRUE, !.d = @ \ {x}]

DeleteHeaderHdl(w, x)     == [w EXCEPT !.ok = x \in w.d, !.d = @ \ {x}]
DeleteHeaderProcCtx(w, x) == [w EXCEPT !.ok = x \in w.d, !.d = @ \ {x}]

ModifyFilteringRule(w, x) == [w EXCEPT !.ok = x \in w.d]
ModifyRoutingRule(w, x)   == [w EXCEPT !.ok = x \in w.d]

\* The steps of a handler, each taken only while the calls succeed.
UntilFailure(Step(_, _), w, seq) ==
  FoldLeft(LAMBDA r, x : IF r.ok THEN Step(r, x) ELSE r,
           [w EXCEPT !.ok = TRUE], seq)

(***************************************************************************)
(* Resource manager: an entry of ipa_rm_tbl has its dependency set while   *)
(* its producer and its consumer are both up.                              *)
(***************************************************************************)
AddRmDepend(w, r) ==
  [w EXCEPT !.cfg.up = @ \cup {r},
            !.cfg.a2 = IF r = "q6_cons" THEN @ + 1 ELSE @]

DelRmDepend(w, r) ==
  LET left == IF r = "q6_cons" THEN w.cfg.a2 - 1 ELSE w.cfg.a2
  IN  [w EXCEPT !.cfg.a2 = left,
                !.cfg.up = IF r = "q6_cons" /\ left = 1 THEN @ ELSE @ \ {r}]

(***************************************************************************)
(* Private subnets: a change is announced to the other interfaces.         *)
(***************************************************************************)
AddPrivateSubnet(w, a, from) ==
  IF a \in ToSet(w.cfg.subs) THEN [w EXCEPT !.ok = TRUE]
  ELSE IF Len(w.cfg.subs) < MaxSubnets
  THEN [w EXCEPT !.ok = TRUE, !.cfg.subs = Append(@, a),
                 !.q = Append(@, [ev |-> "subnet", from |-> from])]
  ELSE [w EXCEPT !.ok = FALSE]

DelPrivateSubnet(w, a, from) ==
  IF a \in ToSet(w.cfg.subs)
  THEN [w EXCEPT !.ok = TRUE, !.cfg.subs = Remove(@, a),
                 !.q = Append(@, [ev |-> "subnet", from |-> from])]
  ELSE [w EXCEPT !.ok = FALSE]

(***************************************************************************)
(* The interfaces NAT serves.                                              *)
(***************************************************************************)
AddNatIfaces(w, dev) == [w EXCEPT !.cfg.nat = @ \cup {dev}]
DelNatIfaces(w, dev) == [w EXCEPT !.cfg.nat = @ \ {dev}]
============================================================================
