--------------------------- MODULE MCAgentServer ---------------------------
(* Small instances of AgentServer: all connections come from one address.  *)
EXTENDS AgentServer, TLC

CONSTANT a1

OneAddress == [c \in Conns |-> a1]

Symmetry == Permutations(Conns)
============================================================================
