----------------------------- MODULE RemoteStream -----------------------------
(***************************************************************************)
(* What the relay's outbound path promises to each remote client stream:   *)
(* the frames the server accepts for the stream reach its peer in order,   *)
(* without gaps and without repetition, and none of them is withheld for   *)
(* ever.  Connections, buffers and acknowledgements do not appear here:    *)
(* RemoteOutbound implements this module over connections that break.      *)
(***************************************************************************)
EXTENDS Naturals, SequencesExt

CONSTANTS
  Streams,   (* remote client streams                                      *)
  Frame      (* wire frames                                                *)

VARIABLES
  accepted,  (* the frames accepted for each stream, in order              *)
  delivered  (* the frames the stream's peer has taken                     *)

streamVars == <<accepted, delivered>>

Init ==
  /\ accepted = [s \in Streams |-> <<>>]
  /\ delivered = [s \in Streams |-> <<>>]

(* A message is accepted as the frames it is cut into; it may be cut into  *)
(* none, when it is too large to be sent at all.                           *)
Accept(s) ==
  /\ IsPrefix(accepted[s], accepted'[s])
  /\ accepted' = [accepted EXCEPT ![s] = accepted'[s]]
  /\ UNCHANGED delivered

Deliver(s) ==
  /\ Len(delivered[s]) < Len(accepted[s])
  /\ delivered' = [delivered EXCEPT
       ![s] = Append(@, accepted[s][Len(@) + 1])]
  /\ UNCHANGED accepted

Next == \E s \in Streams : Accept(s) \/ Deliver(s)

Spec == Init /\ [][Next]_streamVars

FairSpec == Spec /\ \A s \in Streams : WF_streamVars(Deliver(s))

===============================================================================
