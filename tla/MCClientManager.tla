-------------------------- MODULE MCClientManager --------------------------
(* Two Connect calls for the same endpoint.                                *)
EXTENDS ClientManager

CONSTANT host

SameEndpoint == [a \in Agents |-> host]
============================================================================
