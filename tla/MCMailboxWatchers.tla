--------------------------- MODULE MCMailboxWatchers ---------------------------
(* Small instances of MailboxWatchers for TLC. *)
EXTENDS MailboxWatchers

CONSTANTS t1, t2, a, b, u1, m1, c1, w1, w2, r1

MCKindOf == [i \in Items |-> IF i = u1 THEN "user" ELSE IF i = m1 THEN "mail" ELSE "context"]
MCWatchKey == [w \in Watchers |-> <<t1, a>>]
MCWatchFor == [w \in Watchers |-> IF w = w1 THEN "user" ELSE "steer"]
MCWaitKey == [w \in Waiters |-> <<t1, a>>]
==============================================================================
