----------------------------- MODULE MCAgentTurn -----------------------------
(* Small instances of AgentTurn for TLC. *)
EXTENDS AgentTurn

CONSTANTS t1, a, u1, u2, m1, m2

MCKindOf == [i \in Items |-> IF i \in {u1, u2} THEN "user" ELSE "mail"]
==============================================================================
