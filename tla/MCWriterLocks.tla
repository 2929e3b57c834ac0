----------------------------- MODULE MCWriterLocks -----------------------------
(***************************************************************************)
(* The writer locks on small instances: two processes, a request in each,  *)
(* and a compression pass in the second, whose tasks share a Store.        *)
(***************************************************************************)
EXTENDS WriterLocks, TLC

CONSTANTS w1, w2, c1, c2, s1, s2, s3, q1, q2

TwoRequestsAndPass == (w1 :> s1) @@ (w2 :> s2) @@ (c1 :> s3) @@ (c2 :> s3)
RequestAndPass == (w1 :> s1) @@ (c1 :> s3) @@ (c2 :> s3)

Rollouts == (c1 :> 1) @@ (c2 :> 2)
TwoProcesses == (s1 :> q1) @@ (s2 :> q2) @@ (s3 :> q2)
PassProcesses == (s1 :> q1) @@ (s3 :> q2)
TwoThreads == 1..2
===============================================================================
