----------------------------- MODULE MCAgpsNif -----------------------------
(* An instance of AgpsNif for TLC. *)
EXTENDS AgpsNif

CONSTANTS h1, h2

MCPair == {h1, h2}
MCNone == {}
=============================================================================
