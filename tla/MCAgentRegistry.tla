--------------------------- MODULE MCAgentRegistry ---------------------------
(* Small instances of AgentRegistry for TLC. *)
EXTENDS AgentRegistry

CONSTANTS s1, s2, s3, work

(* Two agents ask for the same path, the third for none.                   *)
TwoOnOnePath == [s \in Spawns |-> IF s = s3 THEN NoPath ELSE work]
==============================================================================
