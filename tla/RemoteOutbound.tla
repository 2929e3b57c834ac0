---------------------------- MODULE RemoteOutbound ----------------------------
(***************************************************************************)
(* The outbound half of the remote control relay: the server writer of the *)
(* current websocket connection, the buffer of unacknowledged envelopes it *)
(* replays when a connection starts, the sequence numbers it gives each    *)
(* client stream, and the acknowledgements the reader of the same          *)
(* connection applies to the buffer.                                       *)
(*                                                                         *)
(* The websocket, the backend and the remote client behind it are          *)
(* external: a connection carries frames in order until it breaks, the     *)
(* frames in flight are then lost, and the peer of a stream ignores what   *)
(* is not beyond the last frame it took.  Its acknowledgements may be      *)
(* lost, late, repeated and out of order.                                  *)
(***************************************************************************)
EXTENDS Naturals, Sequences, FiniteSets, SequencesExt

CONSTANTS
  Streams,      (* (client, stream) pairs                                  *)
  StreamOrder,  (* the streams in the order their keys sort                *)
  MaxMessages,  (* messages queued per stream                              *)
  MaxSegments,  (* frames the largest sendable message is cut into         *)
  QueueSize,    (* capacity of the serverEvents channel                    *)
  MaxBreaks     (* connections that break                                  *)

ASSUME OutboundAssumption ==
  /\ MaxMessages \in Nat /\ MaxSegments \in Nat \ {0, 1}
  /\ QueueSize \in Nat \ {0} /\ MaxBreaks \in Nat
  /\ StreamOrder \in Seq(Streams) /\ Range(StreamOrder) = Streams
  /\ IsInjective(StreamOrder)

VARIABLES
  queue,     (* serverEvents: [stream, cut], cut = frames it will need      *)
  offered,   (* messages queued so far for each stream                      *)
  nextSeq,   (* Sequencer.nextSeqIDByStream                                 *)
  buffer,    (* OutboundBuffer.bufferByStream                               *)
  writer,    (* RunServerWriter: "off", "starting" or "running"             *)
  pending,   (* frames the writer has rendered and not yet written          *)
  linked,    (* the websocket is up                                         *)
  wire,      (* frames in flight                                            *)
  breaks,    (* connections broken so far                                   *)
  sent,      (* every frame ever buffered for a stream (history)            *)
  taken      (* the frames the peer of a stream took                        *)

state == <<nextSeq, buffer, sent>>
vars == <<queue, offered, nextSeq, buffer, writer, pending, linked, wire,
          breaks, sent, taken>>

(* The segment cursor of an envelope that is not a chunk, and of an        *)
(* acknowledgement without a segment: larger than every segment id.        *)
Whole == MaxSegments

Frame == [stream : Streams, seq : 1 .. MaxMessages, seg : 0 .. Whole]

(* A mutant: the cursor forgets the segment.                               *)
AfterWholeMessage(f, g) == f.seq > g.seq

(* envelopeAckCursor.after                                                 *)
After(f, g) == f.seq > g.seq \/ (f.seq = g.seq /\ f.seg > g.seg)

(* SplitServerEnvelopeForTransport: no frame for a message that cannot be  *)
(* sent, the envelope itself when it fits, a chunk per segment otherwise.  *)
Split(s, seq, cut) ==
  IF cut = 1
  THEN <<[stream |-> s, seq |-> seq, seg |-> Whole]>>
  ELSE [i \in 1 .. cut |-> [stream |-> s, seq |-> seq, seg |-> i - 1]]

(* ServerEnvelopeBuffer.Ack: the frames beyond the cursor, in their order. *)
Unacked(frames, f) ==
  LET kept == {i \in DOMAIN frames : After(frames[i], f)}
      nth(n) == CHOOSE i \in kept : Cardinality({j \in kept : j <= i}) = n
  IN  [n \in 1 .. Cardinality(kept) |-> frames[nth(n)]]

(* ServerEnvelopeBuffer.Envelopes                                          *)
Envelopes == FlattenSeq([i \in DOMAIN StreamOrder |-> buffer[StreamOrder[i]]])

-------------------------------------------------------------------------------

Init ==
  /\ queue = <<>>
  /\ offered = [s \in Streams |-> 0]
  /\ nextSeq = [s \in Streams |-> 1]
  /\ buffer = [s \in Streams |-> <<>>]
  /\ writer = "off"
  /\ pending = <<>>
  /\ linked = FALSE
  /\ wire = <<>>
  /\ breaks = 0
  /\ sent = [s \in Streams |-> <<>>]
  /\ taken = [s \in Streams |-> <<>>]

(* A client's pump, or the answer to a ping, gets an envelope into the     *)
(* bounded channel.                                                        *)
SendServerEnvelope(s) ==
  /\ Len(queue) < QueueSize
  /\ offered[s] < MaxMessages
  /\ \E cut \in 0 .. MaxSegments :
       queue' = Append(queue, [stream |-> s, cut |-> cut])
  /\ offered' = [offered EXCEPT ![s] = @ + 1]
  /\ UNCHANGED <<state, writer, pending, linked, wire, breaks, taken>>

(* runConnection: the workers of the last connection have both returned.   *)
Connect ==
  /\ writer = "off" /\ ~linked
  /\ linked' = TRUE
  /\ writer' = "starting"
  /\ UNCHANGED <<queue, offered, state, pending, wire, breaks, taken>>

(* A mutant: the writer starts without the replay.                         *)
StartWithoutReplay ==
  /\ writer = "starting"
  /\ pending' = <<>>
  /\ writer' = "running"
  /\ UNCHANGED <<queue, offered, state, linked, wire, breaks, taken>>

(* RunServerWriter: stateSnapshotEnvelopes, under the state lock.          *)
Snapshot ==
  /\ writer = "starting"
  /\ pending' = Envelopes
  /\ writer' = "running"
  /\ UNCHANGED <<queue, offered, state, linked, wire, breaks, taken>>

(* A mutant: what is prepared on a lost connection is not buffered.        *)
PrepareForTheWireOnly ==
  /\ writer = "running" /\ pending = <<>> /\ queue # <<>>
  /\ LET s == Head(queue).stream
         frames == Split(s, nextSeq[s], Head(queue).cut) IN
     /\ nextSeq' = [nextSeq EXCEPT ![s] = @ + 1]
     /\ buffer' = IF linked THEN [buffer EXCEPT ![s] = @ \o frames] ELSE buffer
     /\ sent' = [sent EXCEPT ![s] = @ \o frames]
     /\ pending' = frames
  /\ queue' = Tail(queue)
  /\ UNCHANGED <<offered, writer, linked, wire, breaks, taken>>

(* prepareQueuedServerEnvelope: one critical section numbers the message,  *)
(* cuts it and buffers every frame before the first one is written.  The   *)
(* select may choose a queued event although the connection is cancelled.  *)
Prepare ==
  /\ writer = "running" /\ pending = <<>> /\ queue # <<>>
  /\ LET s == Head(queue).stream
         frames == Split(s, nextSeq[s], Head(queue).cut) IN
     /\ nextSeq' = [nextSeq EXCEPT ![s] = @ + 1]
     /\ buffer' = [buffer EXCEPT ![s] = @ \o frames]
     /\ sent' = [sent EXCEPT ![s] = @ \o frames]
     /\ pending' = frames
  /\ queue' = Tail(queue)
  /\ UNCHANGED <<offered, writer, linked, wire, breaks, taken>>

(* writeText returns without an error.  On a connection that is already    *)
(* lost the frame goes nowhere.                                            *)
Write ==
  /\ writer = "running" /\ pending # <<>>
  /\ wire' = IF linked THEN Append(wire, Head(pending)) ELSE wire
  /\ pending' = Tail(pending)
  /\ UNCHANGED <<queue, offered, state, writer, linked, breaks, taken>>

(* The writer returns: a write or a ping failed, or the connection's       *)
(* context ended.  What it had not written stays in the buffer.            *)
WriterReturns ==
  /\ writer # "off" /\ ~linked
  /\ writer' = "off"
  /\ pending' = <<>>
  /\ UNCHANGED <<queue, offered, state, linked, wire, breaks, taken>>

(* RecordClientMessageDelivery of an ack for any frame the peer has taken, *)
(* by the reader of the live connection.                                   *)
Ack(s) ==
  /\ linked /\ writer # "off"
  /\ \E f \in Range(taken[s]) :
       buffer' = [buffer EXCEPT ![s] = Unacked(@, f)]
  /\ UNCHANGED <<queue, offered, nextSeq, writer, pending, linked, wire,
                 breaks, sent, taken>>

-------------------------------------------------------------------------------
(* External: the network and the remote peers.                             *)

Break ==
  /\ linked /\ breaks < MaxBreaks
  /\ linked' = FALSE
  /\ wire' = <<>>
  /\ breaks' = breaks + 1
  /\ UNCHANGED <<queue, offered, state, writer, pending, taken>>

Receive ==
  /\ wire # <<>>
  /\ LET f == Head(wire)
         got == taken[f.stream] IN
     taken' = IF got = <<>> \/ After(f, Last(got))
              THEN [taken EXCEPT ![f.stream] = Append(@, f)]
              ELSE taken
  /\ wire' = Tail(wire)
  /\ UNCHANGED <<queue, offered, state, writer, pending, linked, breaks>>

-------------------------------------------------------------------------------

Writer == Snapshot \/ Prepare \/ Write \/ WriterReturns

Next ==
  \/ Connect
  \/ Writer
  \/ \E s \in Streams : SendServerEnvelope(s) \/ Ack(s)
  \/ Break
  \/ Receive

Spec == Init /\ [][Next]_vars

(* The loop reconnects, the writer goroutine runs, and a connection that   *)
(* stays up carries what is written to it.  Nobody has to acknowledge.     *)
FairSpec ==
  Spec /\ WF_vars(Connect) /\ WF_vars(Writer) /\ WF_vars(Receive)

-------------------------------------------------------------------------------

(* Every component of the state has its type.                              *)
TypeOK ==
  /\ queue \in Seq([stream : Streams, cut : 0 .. MaxSegments])
  /\ Len(queue) <= QueueSize
  /\ offered \in [Streams -> 0 .. MaxMessages]
  /\ nextSeq \in [Streams -> 1 .. MaxMessages + 1]
  /\ buffer \in [Streams -> Seq(Frame)]
  /\ writer \in {"off", "starting", "running"}
  /\ pending \in Seq(Frame)
  /\ linked \in BOOLEAN
  /\ wire \in Seq(Frame)
  /\ breaks \in 0 .. MaxBreaks
  /\ sent \in [Streams -> Seq(Frame)]
  /\ taken \in [Streams -> Seq(Frame)]

(* ServerEnvelopeBuffer.Ack with RunServerWriter: whatever the order of    *)
(* acknowledgements, the buffer of a stream is exactly the tail of what    *)
(* was sent on it, and it holds every frame the peer has not taken, so a   *)
(* replay is never short and never out of order.                           *)
BufferCoversUntaken ==
  \A s \in Streams :
    /\ IsSuffix(buffer[s], sent[s])
    /\ Len(sent[s]) - Len(buffer[s]) <= Len(taken[s])

(* RunServerWriter: while the connection lives, every frame the peer still *)
(* misses is in flight or about to be written on it; after a successful    *)
(* replay nothing waits for another reconnection.                          *)
MissingIsUnderWay ==
  linked /\ writer = "running" =>
    \A s \in Streams :
      \A i \in Len(taken[s]) + 1 .. Len(sent[s]) :
        sent[s][i] \in Range(wire \o pending)

(* RunServerWriter, prepareQueuedServerEnvelope and Ack implement the      *)
(* ordered, gap-free, repetition-free stream of RemoteStream, and under    *)
(* fairness every buffered frame is eventually delivered although          *)
(* connections break.                                                      *)
Promised == INSTANCE RemoteStream WITH accepted <- sent, delivered <- taken
StreamsAsPromised == Promised!FairSpec

===============================================================================
