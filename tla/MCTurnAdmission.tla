--------------------------- MODULE MCTurnAdmission ---------------------------
(* Small instances of TurnAdmission for TLC. *)
EXTENDS TurnAdmission

CONSTANTS t1, t2, s1, r1, c1, p1, p2

(* The goal continuation has a thread of its own.                          *)
TwoThreads == [j \in Jobs |-> IF j = c1 THEN t2 ELSE t1]

==============================================================================
