----------------------------- MODULE RemoteClients -----------------------------
(***************************************************************************)
(* The inbound half of the remote control relay: the websocket reader, the *)
(* client tracker it drives, the pump goroutine of each client, and the    *)
(* app-server transport that consumes the tracker's events.                *)
(*                                                                         *)
(* The reader is one goroutine: it reads the envelope after the last one   *)
(* it recorded, runs the tracker's handler on it, and records it when the  *)
(* handler succeeds.  A handler blocks on the bounded transportEvents      *)
(* channel; a send that fails ends the connection, and the envelope is     *)
(* read again on the next one.  Pumps and the transport run concurrently.  *)
(*                                                                         *)
(* Envelopes carry their stream (legacy clients without one are left out), *)
(* whole messages only; the backend and the clients behind it are          *)
(* external, and so is the work the app server does for a request.         *)
(***************************************************************************)
EXTENDS Naturals, Sequences, FiniteSets, SequencesExt

CONSTANTS
  Keys,          (* envelopeStreamKey: a client's streams                  *)
  MaxEnvelopes,  (* envelopes the backend ever has for this server         *)
  MaxSeq,        (* sequence numbers a client uses on a stream             *)
  EventCap,      (* capacity of transportEvents                            *)
  ClosedCap,     (* capacity of closedClients                              *)
  WriterCap,     (* capacity of a client's writer channel                  *)
  MaxBreaks,     (* websocket connections that break                       *)
  MaxConnections (* connection ids the tracker hands out                   *)

ASSUME ClientsAssumption ==
  /\ MaxEnvelopes \in Nat /\ MaxSeq \in Nat \ {0}
  /\ EventCap \in Nat \ {0} /\ ClosedCap \in Nat \ {0}
  /\ WriterCap \in Nat \ {0} /\ MaxBreaks \in Nat /\ MaxConnections \in Nat

VARIABLES
  unrecorded,   (* the envelope after SubscribeCursor, if it was read       *)
  recorded,     (* how many envelopes SubscribeCursor is past               *)
  reader,       (* [at, todo]: where the reader goroutine stands            *)
  linked,       (* the connection's context is live                         *)
  breaks,       (* connections broken so far                                *)
  clients,      (* ClientTracker.clients: connection id of a key, or None   *)
  lastSeq,      (* lastInboundSeqID of the tracked client of a key          *)
  opened,       (* remoteClientConnectionCounter                            *)
  keyOf,        (* the key each connection id was opened for                *)
  pump,         (* runClientOutbound per id: "running" or "ended"           *)
  disconnect,   (* ids whose disconnect channel is closed                   *)
  outgoing,     (* messages in each id's writer channel                     *)
  closedKeys,   (* the closedClients channel                                *)
  lateCloses,   (* ids whose Closed event a goroutine of its own is sending *)
  events,       (* the transportEvents channel                              *)
  app,          (* connections of the app server: "open" or "closed"        *)
  got,          (* the last sequence number each app connection was handed  *)
  highest,      (* highest seq recorded since a key's initialize (history)  *)
  unreported,   (* ids whose Closed event was given up (history)            *)
  forgotten     (* keys whose closedClients entry was given up (history)    *)

tracker == <<clients, lastSeq, opened, keyOf>>
pumps == <<pump, disconnect, outgoing, closedKeys>>
transport == <<app, got>>
history == <<unreported, forgotten>>
log == <<unrecorded, recorded, highest>>
vars == <<unrecorded, recorded, reader, linked, breaks, clients, lastSeq,
          opened, keyOf, pump, disconnect, outgoing, closedKeys, lateCloses,
          events, app, got, highest, unreported, forgotten>>

None == 0
Ids == 1 .. opened

(* External: what a client may send.  A request may repeat a sequence      *)
(* number it used before; the others carry none that matters.              *)
Envelope ==
  [key : Keys, kind : {"initialize", "message"}, seq : 1 .. MaxSeq]
    \cup [key : Keys, kind : {"closed", "ping"}, seq : {0}]
NoEnvelope == [kind |-> "none"]

(* The reader goroutine outside a handler: not running, at the top of its  *)
(* loop, or waiting for a read or a tick.                                  *)
At(place) == [at |-> place, todo |-> <<>>]

Env == unrecorded
HasRoom == Len(events) < EventCap
(* sendTransportEvent gives up after five seconds on a full channel, or    *)
(* when the connection's context is already over.                          *)
GivesUp == ~HasRoom \/ ~linked

Emit(type, id, seq) ==
  events' = Append(events, [type |-> type, id |-> id, seq |-> seq])

(* RecordClientMessageDelivery of the envelope just handled.               *)
Record ==
  /\ unrecorded' = NoEnvelope
  /\ recorded' = recorded + 1
  /\ highest' =
       IF Env.kind = "initialize" THEN [highest EXCEPT ![Env.key] = Env.seq]
       ELSE IF Env.seq > highest[Env.key]
            THEN [highest EXCEPT ![Env.key] = Env.seq] ELSE highest
Done == Record /\ reader' = At("top")
(* The handler's error ends RunWebsocketReader before anything is recorded.*)
Fail == reader' = At("off") /\ linked' = FALSE /\ UNCHANGED log

(* removeClient and closeOnce(client.disconnect)                           *)
RemoveClient(k) ==
  /\ clients' = [clients EXCEPT ![k] = None]
  /\ lastSeq' = [lastSeq EXCEPT ![k] = 0]
  /\ disconnect' = disconnect \cup {clients[k]}

-------------------------------------------------------------------------------

Init ==
  /\ unrecorded = NoEnvelope
  /\ recorded = 0
  /\ highest = [k \in Keys |-> 0]
  /\ reader = At("off")
  /\ linked = FALSE
  /\ breaks = 0
  /\ clients = [k \in Keys |-> None]
  /\ lastSeq = [k \in Keys |-> 0]
  /\ opened = 0
  /\ keyOf = <<>>
  /\ pump = <<>>
  /\ disconnect = {}
  /\ outgoing = <<>>
  /\ closedKeys = <<>>
  /\ lateCloses = {}
  /\ events = <<>>
  /\ app = <<>>
  /\ got = <<>>
  /\ unreported = {}
  /\ forgotten = {}

(* runConnection: a new websocket, subscribed after the recorded cursor.   *)
Connect ==
  /\ reader = At("off")
  /\ reader' = At("top")
  /\ linked' = TRUE
  /\ UNCHANGED <<log, breaks, tracker, pumps, lateCloses,
                 events, transport, history>>

(* External: the websocket breaks.                                         *)
Break ==
  /\ linked /\ breaks < MaxBreaks
  /\ linked' = FALSE
  /\ breaks' = breaks + 1
  /\ UNCHANGED <<log, reader, tracker, pumps, lateCloses,
                 events, transport, history>>

ReaderStops ==
  /\ reader = At("idle") /\ ~linked
  /\ reader' = At("off")
  /\ UNCHANGED <<log, linked, breaks, tracker, pumps, lateCloses,
                 events, transport, history>>

(* Conn.Read: the envelope after the cursor, again or for the first time.  *)
Read ==
  /\ reader = At("idle")
  /\ IF unrecorded = NoEnvelope
     THEN recorded < MaxEnvelopes /\ unrecorded' \in Envelope
     ELSE UNCHANGED unrecorded
  /\ reader' = At("handle")
  /\ UNCHANGED <<recorded, highest, linked, breaks, tracker, pumps, lateCloses,
                 events, transport, history>>

-------------------------------------------------------------------------------
(* ClientTracker.HandleMessage, under the tracker lock.                    *)

Handling(kind) == reader.at = "handle" /\ Env.kind = kind

(* A message for no client, or one the client already sent, is recorded    *)
(* and otherwise ignored.                                                  *)
IgnoreMessage ==
  /\ Handling("message")
  /\ clients[Env.key] = None \/ lastSeq[Env.key] >= Env.seq
  /\ Done
  /\ UNCHANGED <<linked, breaks, tracker, pumps, lateCloses, events,
                 transport, history>>

(* A mutant: a request is not compared with lastInboundSeqID.              *)
ForwardUnchecked ==
  /\ Handling("message")
  /\ clients[Env.key] # None
  /\ HasRoom
  /\ Emit("incoming", clients[Env.key], Env.seq)
  /\ lastSeq' = [lastSeq EXCEPT ![Env.key] = Env.seq]
  /\ Done
  /\ UNCHANGED <<linked, breaks, clients, opened, keyOf, pumps,
                 lateCloses, transport, history>>

ForwardMessage ==
  /\ Handling("message")
  /\ clients[Env.key] # None /\ lastSeq[Env.key] < Env.seq
  /\ HasRoom
  /\ Emit("incoming", clients[Env.key], Env.seq)
  /\ lastSeq' = [lastSeq EXCEPT ![Env.key] = Env.seq]
  /\ Done
  /\ UNCHANGED <<linked, breaks, clients, opened, keyOf, pumps,
                 lateCloses, transport, history>>

(* A mutant: the delivery is recorded although the handler failed.         *)
FailedButRecorded ==
  /\ Handling("message")
  /\ clients[Env.key] # None /\ lastSeq[Env.key] < Env.seq
  /\ GivesUp
  /\ Done
  /\ UNCHANGED <<linked, breaks, tracker, pumps, lateCloses, events,
                 transport, history>>

ForwardFails ==
  /\ Handling("message")
  /\ clients[Env.key] # None /\ lastSeq[Env.key] < Env.seq
  /\ GivesUp
  /\ Fail
  /\ UNCHANGED <<breaks, tracker, pumps, lateCloses, events,
                 transport, history>>

(* handlePing: the answer goes to the server writer's queue or times out.  *)
HandlePing ==
  /\ Handling("ping")
  /\ \/ Done /\ UNCHANGED linked
     \/ Fail
  /\ UNCHANGED <<breaks, tracker, pumps, lateCloses, events,
                 transport, history>>

(* An initialize on a stream that has a client closes that client first.   *)
CloseForInitialize ==
  /\ Handling("initialize")
  /\ clients[Env.key] # None
  /\ LET id == clients[Env.key] IN
     /\ RemoveClient(Env.key)
     /\ \/ /\ HasRoom
           /\ Emit("closed", id, 0)
           /\ UNCHANGED <<reader, log, linked, unreported>>
        \/ /\ GivesUp
           /\ unreported' = unreported \cup {id}
           /\ Fail
           /\ UNCHANGED events
  /\ UNCHANGED <<breaks, opened, keyOf, pump, outgoing, closedKeys,
                 lateCloses, transport, forgotten>>

(* The Opened event, then the client and its pump.                         *)
OpenConnection ==
  /\ Handling("initialize")
  /\ clients[Env.key] = None
  /\ opened < MaxConnections
  /\ HasRoom
  /\ Emit("opened", opened + 1, 0)
  /\ opened' = opened + 1
  /\ keyOf' = Append(keyOf, Env.key)
  /\ clients' = [clients EXCEPT ![Env.key] = opened + 1]
  /\ lastSeq' = [lastSeq EXCEPT ![Env.key] = 0]
  /\ pump' = Append(pump, "running")
  /\ outgoing' = Append(outgoing, 0)
  /\ app' = Append(app, "closed")
  /\ got' = Append(got, 0)
  /\ reader' = [reader EXCEPT !.at = "greet"]
  /\ UNCHANGED <<log, linked, breaks, disconnect, closedKeys,
                 lateCloses, history>>

OpenFails ==
  /\ Handling("initialize")
  /\ clients[Env.key] = None
  /\ GivesUp
  /\ Fail
  /\ UNCHANGED <<breaks, tracker, pumps, lateCloses, events,
                 transport, history>>

(* The initialize itself is forwarded on the connection it opened.         *)
Greet ==
  /\ reader.at = "greet"
  /\ HasRoom
  /\ Emit("incoming", clients[Env.key], Env.seq)
  /\ lastSeq' = [lastSeq EXCEPT ![Env.key] = Env.seq]
  /\ Done
  /\ UNCHANGED <<linked, breaks, clients, opened, keyOf, pumps,
                 lateCloses, transport, history>>

(* A mutant: the client is undone and nobody reports it.                   *)
GreetFailsSilently ==
  /\ reader.at = "greet"
  /\ GivesUp
  /\ RemoveClient(Env.key)
  /\ Fail
  /\ UNCHANGED <<breaks, opened, keyOf, pump, outgoing, closedKeys,
                 lateCloses, events, transport, unreported, forgotten>>

(* ... and if it cannot be, the client is undone and a goroutine of its    *)
(* own is left to report the connection closed.                            *)
GreetFails ==
  /\ reader.at = "greet"
  /\ GivesUp
  /\ LET id == clients[Env.key] IN
     /\ RemoveClient(Env.key)
     /\ lateCloses' = lateCloses \cup {id}
  /\ Fail
  /\ UNCHANGED <<breaks, opened, keyOf, pump, outgoing, closedKeys,
                 events, transport, unreported, forgotten>>

LateClose(id) ==
  /\ id \in lateCloses
  /\ lateCloses' = lateCloses \ {id}
  /\ \/ HasRoom /\ Emit("closed", id, 0) /\ UNCHANGED unreported
     \/ ~HasRoom /\ unreported' = unreported \cup {id} /\ UNCHANGED events
  /\ UNCHANGED <<log, reader, linked, breaks, tracker, pumps,
                 transport, forgotten>>

(* ClientClosed: CloseClient, then the envelope is recorded.               *)
HandleClosed ==
  /\ Handling("closed")
  /\ IF clients[Env.key] = None
     THEN /\ Done
          /\ UNCHANGED <<linked, clients, lastSeq, disconnect, events,
                         unreported>>
     ELSE LET id == clients[Env.key] IN
          /\ RemoveClient(Env.key)
          /\ \/ /\ HasRoom
                /\ Emit("closed", id, 0)
                /\ Done
                /\ UNCHANGED <<linked, unreported>>
             \/ /\ GivesUp
                /\ unreported' = unreported \cup {id}
                /\ Fail
                /\ UNCHANGED events
  /\ UNCHANGED <<breaks, opened, keyOf, pump, outgoing, closedKeys,
                 lateCloses, transport, forgotten>>

-------------------------------------------------------------------------------
(* The sweeps of the reader's loop.                                        *)

(* drainClosedClients, before every wait: it takes every key the pumps     *)
(* left and closes the client each key names.                              *)
DrainClosedClients ==
  /\ reader = At("top")
  /\ reader' = [At("draining") EXCEPT !.todo = closedKeys]
  /\ closedKeys' = <<>>
  /\ UNCHANGED <<log, linked, breaks, tracker, pump, disconnect,
                 outgoing, lateCloses, events, transport, history>>

(* closeExpiredClients, on a tick: any clients may have been idle for long *)
(* enough, and none has to be.                                             *)
CloseExpiredClients ==
  /\ reader = At("idle")
  /\ \E expired \in SUBSET {k \in Keys : clients[k] # None} :
       /\ \E order \in SetToSeqs(expired) :
            reader' = [At("expiring") EXCEPT !.todo = order]
  /\ UNCHANGED <<log, linked, breaks, tracker, pumps, lateCloses,
                 events, transport, unreported, forgotten>>

(* CloseClient of the next key; an error drops the keys still to do.       *)
Sweep ==
  /\ reader.at \in {"draining", "expiring"}
  /\ IF reader.todo = <<>>
     THEN /\ reader' = At(IF reader.at = "draining" THEN "idle" ELSE "top")
          /\ UNCHANGED <<log, linked, clients, lastSeq, disconnect, events,
                         unreported, forgotten>>
     ELSE LET k == Head(reader.todo)
              id == clients[k] IN
          IF id = None
          THEN /\ reader' = [reader EXCEPT !.todo = Tail(@)]
               /\ UNCHANGED <<log, linked, clients, lastSeq, disconnect,
                              events, unreported, forgotten>>
          ELSE /\ RemoveClient(k)
               /\ \/ /\ HasRoom
                     /\ Emit("closed", id, 0)
                     /\ reader' = [reader EXCEPT !.todo = Tail(@)]
                     /\ UNCHANGED <<log, linked, unreported, forgotten>>
                  \/ /\ GivesUp
                     /\ unreported' = unreported \cup {id}
                     /\ forgotten' = forgotten \cup Range(Tail(reader.todo))
                     /\ Fail
                     /\ UNCHANGED events
  /\ UNCHANGED <<breaks, opened, keyOf, pump, outgoing, closedKeys,
                 lateCloses, transport>>

-------------------------------------------------------------------------------
(* runClientOutbound of one connection.                                    *)

(* A mutant: the pump returns without telling the tracker.                 *)
EndPumpSilently(id) ==
  /\ pump' = [pump EXCEPT ![id] = "ended"]
  /\ UNCHANGED <<closedKeys, forgotten>>

(* The deferred push of the client's key, without waiting for room.        *)
EndPump(id) ==
  /\ pump' = [pump EXCEPT ![id] = "ended"]
  /\ IF Len(closedKeys) < ClosedCap
     THEN /\ closedKeys' = Append(closedKeys, keyOf[id])
          /\ UNCHANGED forgotten
     ELSE forgotten' = forgotten \cup {keyOf[id]} /\ UNCHANGED closedKeys

PumpDisconnected(id) ==
  /\ pump[id] = "running" /\ id \in disconnect
  /\ EndPump(id)
  /\ UNCHANGED <<log, reader, linked, breaks, tracker, disconnect,
                 outgoing, lateCloses, events, transport, unreported>>

(* A message taken from the writer channel is queued for the server writer *)
(* or, after five seconds without room there, ends the pump.               *)
PumpMessage(id) ==
  /\ pump[id] = "running" /\ outgoing[id] > 0
  /\ outgoing' = [outgoing EXCEPT ![id] = @ - 1]
  /\ \/ UNCHANGED <<pump, closedKeys, forgotten>>
     \/ EndPump(id)
  /\ UNCHANGED <<log, reader, linked, breaks, tracker, disconnect,
                 lateCloses, events, transport, unreported>>

-------------------------------------------------------------------------------
(* RemoteControlTransportServer.                                           *)

(* Whether the authentication owner is still the one the connection was    *)
(* opened under, which decides if a request is handled, is left open.      *)
HandleEvent ==
  /\ events # <<>>
  /\ LET e == Head(events) IN
     /\ app' = IF e.type = "opened" THEN [app EXCEPT ![e.id] = "open"]
               ELSE IF e.type = "closed" THEN [app EXCEPT ![e.id] = "closed"]
               ELSE app
     /\ \/ UNCHANGED got
        \/ /\ e.type = "incoming" /\ app[e.id] = "open"
           /\ got' = [got EXCEPT ![e.id] = e.seq]
  /\ events' = Tail(events)
  /\ UNCHANGED <<log, reader, linked, breaks, tracker, pumps,
                 lateCloses, history>>

(* sendValueToConnection: a response or a notification; when the client's  *)
(* writer channel stays full the transport disconnects the client.         *)
SendValue(id) ==
  /\ app[id] = "open"
  /\ IF outgoing[id] < WriterCap
     THEN /\ outgoing' = [outgoing EXCEPT ![id] = @ + 1]
          /\ UNCHANGED <<disconnect, app>>
     ELSE /\ disconnect' = disconnect \cup {id}
          /\ app' = [app EXCEPT ![id] = "closed"]
          /\ UNCHANGED outgoing
  /\ UNCHANGED <<log, reader, linked, breaks, tracker, pump,
                 closedKeys, lateCloses, events, got, unreported, forgotten>>

-------------------------------------------------------------------------------

Handler ==
  \/ IgnoreMessage \/ ForwardMessage \/ ForwardFails \/ HandlePing
  \/ CloseForInitialize \/ OpenConnection \/ OpenFails \/ Greet \/ GreetFails
  \/ HandleClosed

Sweeps == DrainClosedClients \/ CloseExpiredClients \/ Sweep
Reader == Connect \/ ReaderStops \/ Read \/ Handler \/ Sweeps
Pump(id) == PumpDisconnected(id) \/ PumpMessage(id)

Next ==
  \/ Reader \/ Break \/ HandleEvent
  \/ \E id \in Ids : Pump(id) \/ SendValue(id) \/ LateClose(id)

Spec == Init /\ [][Next]_vars

-------------------------------------------------------------------------------

(* Every component of the state has its type.                              *)
TypeOK ==
  /\ unrecorded \in Envelope \cup {NoEnvelope}
  /\ recorded \in 0 .. MaxEnvelopes
  /\ reader \in [at : {"off", "top", "idle", "handle", "greet", "draining",
                       "expiring"},
                 todo : Seq(Keys)]
  /\ linked \in BOOLEAN /\ breaks \in 0 .. MaxBreaks
  /\ opened \in 0 .. MaxConnections /\ keyOf \in [Ids -> Keys]
  /\ clients \in [Keys -> {None} \cup Ids]
  /\ lastSeq \in [Keys -> 0 .. MaxSeq] /\ highest \in [Keys -> 0 .. MaxSeq]
  /\ pump \in [Ids -> {"running", "ended"}]
  /\ outgoing \in [Ids -> 0 .. WriterCap]
  /\ closedKeys \in Seq(Keys) /\ Len(closedKeys) <= ClosedCap
  /\ events \in Seq([type : {"opened", "incoming", "closed"}, id : Ids,
                     seq : 0 .. MaxSeq])
  /\ Len(events) <= EventCap
  /\ app \in [Ids -> {"open", "closed"}] /\ got \in [Ids -> 0 .. MaxSeq]
  /\ disconnect \cup lateCloses \cup unreported \subseteq Ids
  /\ forgotten \subseteq Keys

Tracked(id) == clients[keyOf[id]] = id
Pending(type, id) ==
  \E i \in DOMAIN events : events[i].type = type /\ events[i].id = id

(* CloseClient, handleClientMessage and the transport: an app-server       *)
(* connection that is open, or about to be, belongs to the client tracked  *)
(* for its stream, or else its Closed event is on its way, unless the send *)
(* of that event timed out.  Connections are not left behind otherwise.    *)
OrphansReported ==
  \A id \in Ids :
    (app[id] = "open" \/ Pending("opened", id)) /\ ~Tracked(id) =>
      Pending("closed", id) \/ id \in lateCloses \cup unreported

(* lastInboundSeqID with the replay from SubscribeCursor: an app-server    *)
(* connection is handed the requests of its stream in order and none of    *)
(* them twice, over every connection break, timeout and repetition.        *)
HandedInOrder ==
  [][\A id \in Ids : got'[id] # got[id] => got'[id] > got[id]]_vars

(* RecordClientMessageDelivery after HandleMessage: the cursor never moves *)
(* past a request of a tracked client that was not put on transportEvents, *)
(* so a request whose delivery failed is read again.                       *)
CursorCoversDelivery ==
  \A k \in Keys :
    clients[k] # None /\ reader.at # "greet" => lastSeq[k] = highest[k]

(* runClientOutbound, closedClients and drainClosedClients: a client that  *)
(* is tracked with a dead pump is noticed: its key waits to be drained, or *)
(* is being drained, unless its entry did not fit into closedClients or a  *)
(* failed sweep dropped it.                                                *)
DeadPumpNoticed ==
  \A id \in Ids : pump[id] = "ended" /\ Tracked(id) =>
    keyOf[id] \in Range(closedKeys) \cup Range(reader.todo) \cup forgotten

===============================================================================
