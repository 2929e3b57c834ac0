---------------------------- MODULE WriterOwnership ----------------------------
(***************************************************************************)
(* What the writer locks of the session store promise: a thread has at     *)
(* most one writer, a rollout file is replaced only while its thread has   *)
(* none, and a process that dies keeps neither.                            *)
(***************************************************************************)
CONSTANTS
  Threads,  (* threads of one session root                                 *)
  Writers   (* requests that may own threads, of every process             *)

VARIABLES
  writers,    (* the writers of each thread                                *)
  publishing  (* threads whose rollout file is being replaced              *)

vars == <<writers, publishing>>

Init ==
  /\ writers = [t \in Threads |-> {}]
  /\ publishing = {}

Acquire(w, t) ==
  /\ writers[t] = {} /\ t \notin publishing
  /\ writers' = [writers EXCEPT ![t] = {w}]
  /\ UNCHANGED publishing

Release(w, t) ==
  /\ writers' = [writers EXCEPT ![t] = @ \ {w}]
  /\ UNCHANGED publishing

StartPublication(t) ==
  /\ writers[t] = {}
  /\ publishing' = publishing \cup {t}
  /\ UNCHANGED writers

EndPublication(t) ==
  /\ publishing' = publishing \ {t}
  /\ UNCHANGED writers

(* A process dies: its writers lose their threads and its publications end. *)
Die(dead) ==
  /\ writers' = [t \in Threads |-> writers[t] \ dead]
  /\ publishing' \in SUBSET publishing

Next ==
  \/ \E w \in Writers, t \in Threads : Acquire(w, t) \/ Release(w, t)
  \/ \E t \in Threads : StartPublication(t) \/ EndPublication(t)
  \/ \E dead \in SUBSET Writers : Die(dead)

Spec == Init /\ [][Next]_vars
================================================================================
