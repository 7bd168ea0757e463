------------------------------ MODULE MCDsNif ------------------------------
(* Instances of DsNif for TLC. *)
EXTENDS DsNif

CONSTANTS h1, h2

MCPair == {h1, h2}
\* A data service that starts every call, and one that may refuse while the
\* retry timer may fail too.
MCAccepting == [results |-> {"SUCCESS"}, timerFails |-> FALSE]
MCRefusing == [results |-> {"SUCCESS", "BUSY", "UNSUPPORTED"}, timerFails |-> TRUE]
MCServices == {MCAccepting, MCRefusing}
=============================================================================
