---------------------------- MODULE MCHandshake ----------------------------
(* One connection between a control center and an agent.                   *)
EXTENDS Handshake

CONSTANTS c1, a1

OneAddress == [c \in Conns |-> a1]
============================================================================
