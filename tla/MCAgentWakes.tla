---------------------------- MODULE MCAgentWakes ----------------------------
(* Small instances of AgentWakes for TLC. *)
EXTENDS AgentWakes, TLC

CONSTANTS m1, m2, s1, t1, t2, i1

Interchangeable == Permutations(Mails) \cup Permutations(Turns)
=============================================================================
