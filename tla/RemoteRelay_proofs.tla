--------------------------- MODULE RemoteRelay_proofs ---------------------------
(***************************************************************************)
(* Proofs about the remote control relay: RemoteClients first, for any     *)
(* streams, channel capacities and numbers of envelopes, connections and   *)
(* breaks; then RemoteSession, for any accounts and any number of request  *)
(* handlers, owner changes and toggles.                                    *)
(***************************************************************************)
EXTENDS RemoteClients, RemoteSession, FiniteSetTheorems, TLAPS

(* The reader sweeps keys only in a sweep, and handles only an envelope.   *)
ReaderKnown ==
  /\ reader.at \notin {"draining", "expiring"} => reader.todo = <<>>
  /\ reader.at \in {"handle", "greet"} => Env \in Envelope
  /\ reader.at = "greet" => Env.kind = "initialize" /\ clients[Env.key] # None
  /\ unrecorded # NoEnvelope => recorded < MaxEnvelopes

(* A client is tracked under the key its connection was opened for.        *)
ClientsKnown == \A k \in Keys : clients[k] # None => keyOf[clients[k]] = k

(* Opened is the first event of a connection, and its requests wait in     *)
(* the order of their sequence numbers.                                    *)
EventsOrdered ==
  \A i, j \in DOMAIN events : i < j /\ events[i].id = events[j].id =>
    /\ events[j].type # "opened"
    /\ events[i].type = "incoming" /\ events[j].type = "incoming" =>
         events[i].seq < events[j].seq

(* A request that waits is beyond those its connection was handed ...      *)
EventsAhead ==
  \A i \in DOMAIN events :
    events[i].type = "incoming" => events[i].seq > got[events[i].id]

(* ... and none is beyond lastInboundSeqID of a tracked client.            *)
LastSeqCovers ==
  \A k \in Keys : clients[k] # None =>
    /\ got[clients[k]] <= lastSeq[k]
    /\ \A i \in DOMAIN events :
         events[i].type = "incoming" /\ events[i].id = clients[k] =>
           events[i].seq <= lastSeq[k]

(* CursorCoversDelivery, but for the client whose initialize is still to   *)
(* be forwarded.                                                           *)
CursorExact ==
  \A k \in Keys : clients[k] # None =>
    IF reader.at = "greet" /\ Env.key = k
    THEN lastSeq[k] = 0 ELSE lastSeq[k] = highest[k]

IInv ==
  /\ TypeOK /\ ReaderKnown /\ ClientsKnown /\ EventsOrdered /\ EventsAhead
  /\ LastSeqCovers /\ CursorExact /\ OrphansReported /\ DeadPumpNoticed

-------------------------------------------------------------------------------
(* What the steps have in common.                                          *)

(* The fields of an envelope.                                              *)
LEMMA EnvelopeFields ==
  ASSUME NEW e \in Envelope
  PROVE  /\ e.key \in Keys /\ e.seq \in 0 .. MaxSeq /\ e # NoEnvelope
         /\ e.kind \in {"initialize", "message"} => e.seq \in 1 .. MaxSeq
         /\ e.kind \in {"closed", "ping"} => e.seq = 0
BY ClientsAssumption DEF Envelope, NoEnvelope

(* The reader outside a sweep.                                             *)
LEMMA AtTyped ==
  ASSUME NEW place \in {"off", "top", "idle", "handle", "greet", "draining", "expiring"}
  PROVE  /\ At(place) \in [at : {"off", "top", "idle", "handle", "greet", "draining", "expiring"},
                           todo : Seq(Keys)]
         /\ At(place).at = place /\ At(place).todo = <<>>
<1>1. <<>> \in Seq(Keys)
  OBVIOUS
<1> QED
  BY <1>1 DEF At

(* The events after one was put on the channel.                            *)
LEMMA EventAppended ==
  ASSUME TypeOK, NEW e, events' = Append(events, e)
  PROVE  /\ Len(events) \in Nat /\ DOMAIN events = 1 .. Len(events)
         /\ DOMAIN events' = 1 .. Len(events) + 1
         /\ events'[Len(events) + 1] = e
         /\ \A i \in 1 .. Len(events) : events'[i] = events[i]
<1>1. /\ Len(events) \in Nat /\ DOMAIN events = 1 .. Len(events)
      /\ events \in Seq([type : {"opened", "incoming", "closed"}, id : Ids, seq : 0 .. MaxSeq])
  BY DEF TypeOK
<1> QED
  BY <1>1

(* The fields of an event that waits.                                      *)
LEMMA EventFields ==
  ASSUME TypeOK, NEW i \in DOMAIN events
  PROVE  /\ events[i].type \in {"opened", "incoming", "closed"}
         /\ events[i].id \in Ids /\ events[i].seq \in 0 .. MaxSeq /\ events[i].seq \in Nat
<1> DEFINE T == [type : {"opened", "incoming", "closed"}, id : Ids, seq : 0 .. MaxSeq]
<1>1. events \in Seq(T)
  BY DEF TypeOK
<1> HIDE DEF T
<1>2. events[i] \in T
  BY <1>1
<1> QED
  BY <1>2 DEF T

(* A Closed event waits for its connection from then on, and nothing else  *)
(* changes for the events that wait.                                       *)
LEMMA PendingAppended ==
  ASSUME TypeOK, NEW type, NEW id, NEW seq, Emit(type, id, seq), NEW t, NEW x
  PROVE  Pending(t, x)' <=> Pending(t, x) \/ (t = type /\ x = id)
<1> DEFINE e == [type |-> type, id |-> id, seq |-> seq]
<1>1. events' = Append(events, e)
  BY DEF Emit
<1>2. e.type = type /\ e.id = id
  OBVIOUS
<1> HIDE DEF e
<1>3. /\ Len(events) \in Nat /\ DOMAIN events = 1 .. Len(events)
      /\ DOMAIN events' = 1 .. Len(events) + 1
      /\ events'[Len(events) + 1] = e
      /\ \A i \in 1 .. Len(events) : events'[i] = events[i]
  BY <1>1, EventAppended
<1> QED
  BY <1>2, <1>3 DEF Pending

(* No client is tracked that was not ...                                   *)
NoneNew == \A k \in Keys : clients'[k] # None => clients'[k] = clients[k]

(* ... and those that still are go on from the same request.               *)
Fewer ==
  /\ NoneNew
  /\ \A k \in Keys : clients'[k] # None => lastSeq'[k] = lastSeq[k]

(* Removing clients and reporting connections closed disturbs no order.    *)
LEMMA FewerClients ==
  ASSUME IInv, Fewer, UNCHANGED <<keyOf, got>>,
         events' = events \/ \E id \in Ids : Emit("closed", id, 0)
  PROVE  ClientsKnown' /\ EventsOrdered' /\ EventsAhead' /\ LastSeqCovers'
<1>1. ClientsKnown'
  BY DEF IInv, ClientsKnown, Fewer, NoneNew
<1>2. CASE events' = events
  BY <1>1, <1>2 DEF IInv, Fewer, NoneNew, EventsOrdered, EventsAhead, LastSeqCovers
<1>3. ASSUME NEW id \in Ids, Emit("closed", id, 0)
      PROVE  EventsOrdered' /\ EventsAhead' /\ LastSeqCovers'
  <2> DEFINE e == [type |-> "closed", id |-> id, seq |-> 0]
  <2>1. events' = Append(events, e) /\ TypeOK
    BY <1>3 DEF Emit, IInv
  <2>2. e.type = "closed"
    OBVIOUS
  <2> HIDE DEF e
  <2>3. /\ Len(events) \in Nat /\ DOMAIN events = 1 .. Len(events)
        /\ DOMAIN events' = 1 .. Len(events) + 1
        /\ events'[Len(events) + 1] = e
        /\ \A i \in 1 .. Len(events) : events'[i] = events[i]
    BY <2>1, EventAppended
  <2>4. \A i \in DOMAIN events' :
          \/ i \in DOMAIN events /\ events'[i] = events[i]
          \/ i = Len(events) + 1 /\ events'[i] = e
    BY <2>3
  <2>5. EventsOrdered'
    <3>1. \A i, j \in DOMAIN events' : i < j => i \in DOMAIN events /\ events'[i] = events[i]
      BY <2>3
    <3> QED
      BY <2>2, <2>4, <3>1 DEF IInv, EventsOrdered
  <2>6. EventsAhead'
    BY <2>2, <2>4 DEF IInv, EventsAhead
  <2>7. LastSeqCovers'
    BY <2>2, <2>4 DEF IInv, LastSeqCovers, Fewer, NoneNew
  <2> QED
    BY <2>5, <2>6, <2>7
<1> QED
  BY <1>1, <1>2, <1>3

(* The Closed event of a connection is on its way, or was given up.        *)
Reported(id) == Pending("closed", id) \/ id \in lateCloses \cup unreported

(* A connection whose client is removed has to be reported.                *)
LEMMA OrphansStay ==
  ASSUME IInv, NoneNew, UNCHANGED <<opened, keyOf>>,
         \A id \in Ids : app'[id] = "open" => app[id] = "open",
         \A id \in Ids : Pending("opened", id)' => Pending("opened", id),
         \A id \in Ids : Reported(id) => Reported(id)',
         \A id \in Ids : Tracked(id) /\ clients'[keyOf[id]] = None => Reported(id)'
  PROVE  OrphansReported'
<1> SUFFICES ASSUME NEW id \in Ids, app'[id] = "open" \/ Pending("opened", id)', ~Tracked(id)'
             PROVE  Reported(id)'
  BY DEF OrphansReported, Reported, Ids
<1>1. app[id] = "open" \/ Pending("opened", id)
  OBVIOUS
<1>2. id # None /\ keyOf[id] \in Keys
  BY DEF Ids, None, IInv, TypeOK
<1>3. CASE Tracked(id)
  <2>1. clients'[keyOf[id]] = None
    BY <1>2, <1>3 DEF Tracked, NoneNew
  <2> QED
    BY <1>3, <2>1
<1>4. CASE ~Tracked(id)
  BY <1>1, <1>4 DEF IInv, OrphansReported, Reported
<1> QED
  BY <1>3, <1>4

(* The tracker has been, or is being, told of the dead pump of a key.      *)
Noticed(k) == k \in Range(closedKeys) \cup Range(reader.todo) \cup forgotten

(* Nobody forgets a dead pump of a client that stays.                      *)
LEMMA NoticedStays ==
  ASSUME IInv, NoneNew, UNCHANGED <<opened, keyOf>>,
         \A id \in Ids : pump'[id] = "ended" =>
           pump[id] = "ended" \/ \A k \in Keys : k = keyOf[id] => Noticed(k)',
         \A k \in Keys : clients'[k] # None /\ Noticed(k) => Noticed(k)'
  PROVE  DeadPumpNoticed'
<1> SUFFICES ASSUME NEW id \in Ids, pump'[id] = "ended", Tracked(id)'
             PROVE  Noticed(keyOf[id])'
  BY DEF DeadPumpNoticed, Noticed, Ids
<1>1. id # None /\ keyOf[id] \in Keys
  BY DEF Ids, None, IInv, TypeOK
<1>2. clients'[keyOf[id]] = id /\ Tracked(id)
  BY <1>1 DEF Tracked, NoneNew
<1>3. pump[id] = "ended" => Noticed(keyOf[id])
  BY <1>2 DEF IInv, DeadPumpNoticed, Noticed
<1> QED
  BY <1>1, <1>2, <1>3

(* A step that touches neither the clients nor the app server's view of    *)
(* them.                                                                   *)
LEMMA TrackerKept ==
  ASSUME IInv, UNCHANGED <<clients, lastSeq, opened, keyOf, got, events, lateCloses, unreported>>,
         \A id \in Ids : app'[id] = "open" => app[id] = "open"
  PROVE  Fewer /\ ClientsKnown' /\ EventsOrdered' /\ EventsAhead' /\ LastSeqCovers' /\ OrphansReported'
<1>1. Fewer
  BY DEF Fewer, NoneNew
<1>2. ClientsKnown' /\ EventsOrdered' /\ EventsAhead' /\ LastSeqCovers'
  BY <1>1, FewerClients
<1>3. OrphansReported'
  <2>1. \A t, id : Pending(t, id)' = Pending(t, id)
    BY DEF Pending
  <2>2. \A id \in Ids : Reported(id)' = Reported(id)
    BY <2>1 DEF Reported
  <2>3. \A id \in Ids : Tracked(id) => clients'[keyOf[id]] # None
    BY DEF Tracked, Ids, None, IInv, TypeOK
  <2> QED
    BY <1>1, <2>1, <2>2, <2>3, OrphansStay DEF Fewer
<1> QED
  BY <1>1, <1>2, <1>3

(* RecordClientMessageDelivery keeps the types of the log.                 *)
LEMMA RecordTyped ==
  ASSUME IInv, reader.at \in {"handle", "greet"}, Record
  PROVE  /\ Env \in Envelope /\ Env.key \in Keys /\ Env.seq \in 0 .. MaxSeq
         /\ unrecorded' = NoEnvelope /\ recorded' \in 0 .. MaxEnvelopes
         /\ highest' \in [Keys -> 0 .. MaxSeq]
         /\ \A k \in Keys \ {Env.key} : highest'[k] = highest[k]
         /\ highest'[Env.key] = IF Env.kind = "initialize" \/ Env.seq > highest[Env.key]
                                THEN Env.seq ELSE highest[Env.key]
<1>1. Env \in Envelope /\ recorded \in 0 .. MaxEnvelopes /\ highest \in [Keys -> 0 .. MaxSeq]
  BY DEF IInv, ReaderKnown, TypeOK
<1>2. Env.key \in Keys /\ Env.seq \in 0 .. MaxSeq /\ Env # NoEnvelope
  BY <1>1, EnvelopeFields
<1>3. recorded < MaxEnvelopes
  BY <1>2 DEF IInv, ReaderKnown, Env
<1>4. recorded' \in 0 .. MaxEnvelopes
  BY <1>1, <1>3, ClientsAssumption DEF Record
<1> QED
  BY <1>1, <1>2, <1>4 DEF Record

(* Recording what changes no client.                                       *)
LEMMA RecordKeepsCursor ==
  ASSUME IInv, reader.at = "handle", Record, Fewer, reader'.at # "greet",
         Env.kind # "initialize",
         clients[Env.key] # None => Env.seq <= lastSeq[Env.key]
  PROVE  CursorExact'
<1>1. /\ Env.key \in Keys /\ Env.seq \in 0 .. MaxSeq
      /\ highest \in [Keys -> 0 .. MaxSeq] /\ lastSeq \in [Keys -> 0 .. MaxSeq]
      /\ \A k \in Keys \ {Env.key} : highest'[k] = highest[k]
      /\ highest'[Env.key] = IF Env.kind = "initialize" \/ Env.seq > highest[Env.key]
                             THEN Env.seq ELSE highest[Env.key]
  BY RecordTyped DEF IInv, TypeOK
<1>2. ASSUME NEW k \in Keys, clients'[k] # None PROVE lastSeq'[k] = highest'[k]
  <2>1. lastSeq'[k] = lastSeq[k] /\ clients[k] # None
    BY <1>2 DEF Fewer, NoneNew
  <2>2. lastSeq[k] = highest[k]
    BY <2>1 DEF IInv, CursorExact
  <2>3. highest[k] \in Int /\ Env.seq \in Int
    BY <1>1
  <2> QED
    BY <1>1, <2>1, <2>2, <2>3
<1> QED
  BY <1>2 DEF CursorExact

(* A step that leaves highest alone and does not reach "greet".            *)
LEMMA CursorStays ==
  ASSUME IInv, Fewer, UNCHANGED highest, reader'.at # "greet",
         reader.at # "greet" \/ clients'[Env.key] = None
  PROVE  CursorExact'
BY DEF IInv, Fewer, NoneNew, CursorExact

-------------------------------------------------------------------------------
(* Steps of the connection.                                                *)

(* The websocket connects, breaks and is read.                             *)
LEMMA ConnectionStep ==
  ASSUME IInv, Connect \/ Break \/ ReaderStops \/ Read
  PROVE  IInv'
<1>1. /\ UNCHANGED <<clients, lastSeq, opened, keyOf, pump, disconnect, outgoing, closedKeys,
                     lateCloses, events, app, got, unreported, forgotten, recorded, highest>>
      /\ reader \in [at : {"off", "top", "idle", "handle", "greet", "draining", "expiring"},
                     todo : Seq(Keys)]
  BY DEF Connect, Break, ReaderStops, Read, log, tracker, pumps, transport, history, IInv, TypeOK
<1>2. /\ reader' \in [at : {"off", "top", "idle", "handle", "greet", "draining", "expiring"},
                      todo : Seq(Keys)]
      /\ linked' \in BOOLEAN /\ breaks' \in 0 .. MaxBreaks
      /\ unrecorded' \in Envelope \cup {NoEnvelope}
      /\ ReaderKnown'
      /\ reader' = reader \/ (reader.todo = <<>> /\ reader.at # "greet" /\ reader'.at # "greet")
      /\ reader'.at = "greet" => reader' = reader /\ unrecorded' = unrecorded
  <2>1. CASE Connect
    BY <1>1, <2>1 DEF Connect, At, log, IInv, TypeOK, ReaderKnown
  <2>2. CASE Break
    <3>1. breaks' = breaks + 1 /\ breaks < MaxBreaks /\ breaks \in 0 .. MaxBreaks
          /\ reader' = reader /\ unrecorded' = unrecorded /\ linked' = FALSE
      BY <2>2 DEF Break, IInv, TypeOK, log
    <3>2. breaks' \in 0 .. MaxBreaks
      BY <3>1, ClientsAssumption
    <3>3. linked' \in BOOLEAN
      BY <3>1
    <3> QED
      BY <1>1, <3>1, <3>2, <3>3 DEF IInv, TypeOK, ReaderKnown, Env
  <2>3. CASE ReaderStops
    BY <1>1, <2>3 DEF ReaderStops, At, log, IInv, TypeOK, ReaderKnown
  <2>4. CASE Read
    <3>1. /\ reader = At("idle") /\ reader' = At("handle")
          /\ UNCHANGED <<linked, breaks>>
          /\ unrecorded' \in Envelope
          /\ recorded < MaxEnvelopes
      BY <2>4 DEF Read, IInv, TypeOK, ReaderKnown
    <3> QED
      BY <1>1, <3>1 DEF At, IInv, TypeOK, ReaderKnown, Env
  <2> QED
    BY <2>1, <2>2, <2>3, <2>4
<1>3. TypeOK'
  BY <1>1, <1>2 DEF IInv, TypeOK, Ids
<1>4. Fewer /\ ClientsKnown' /\ EventsOrdered' /\ EventsAhead' /\ LastSeqCovers' /\ OrphansReported'
  BY <1>1, TrackerKept
<1>5. CursorExact'
  BY <1>1, <1>2 DEF IInv, CursorExact, Env
<1>6. DeadPumpNoticed'
  <2>1. \A k \in Keys : Noticed(k) => Noticed(k)'
    BY <1>1, <1>2 DEF Noticed, Range
  <2> QED
    BY <1>1, <1>4, <2>1, NoticedStays DEF Fewer
<1> QED
  BY <1>2, <1>3, <1>4, <1>5, <1>6 DEF IInv

-------------------------------------------------------------------------------
(* Handlers that change no client.                                         *)

(* HandleMessage when it ignores, answers or fails, and changes no client. *)
LEMMA QuietHandlerStep ==
  ASSUME IInv,
         \/ IgnoreMessage \/ ForwardFails \/ HandlePing \/ OpenFails
         \/ HandleClosed /\ clients[Env.key] = None
  PROVE  IInv'
<1>1. /\ UNCHANGED <<clients, lastSeq, opened, keyOf, pump, disconnect, outgoing, closedKeys,
                     lateCloses, events, app, got, unreported, forgotten, breaks>>
      /\ reader.at = "handle" /\ reader.todo = <<>>
      /\ reader' \in {At("top"), At("off")}
      /\ linked' = linked \/ linked' = FALSE
      /\ \/ /\ Record /\ Env.kind # "initialize"
            /\ Env.kind = "ping" \/ clients[Env.key] = None \/ lastSeq[Env.key] >= Env.seq
         \/ UNCHANGED <<unrecorded, recorded, highest>>
  BY DEF IgnoreMessage, ForwardFails, HandlePing, OpenFails, HandleClosed, Handling, Done, Fail,
         log, tracker, pumps, transport, history, IInv, ReaderKnown
<1>2. Env \in Envelope /\ Env.key \in Keys /\ Env.seq \in 0 .. MaxSeq
      /\ (Env.kind = "ping" => Env.seq = 0)
  <2>1. Env \in Envelope
    BY <1>1 DEF IInv, ReaderKnown
  <2> QED
    BY <2>1, EnvelopeFields
<1>3. Fewer /\ ClientsKnown' /\ EventsOrdered' /\ EventsAhead' /\ LastSeqCovers' /\ OrphansReported'
  BY <1>1, TrackerKept
<1>4. reader'.todo = <<>> /\ reader'.at \in {"top", "off"}
      /\ reader' \in [at : {"off", "top", "idle", "handle", "greet", "draining", "expiring"},
                      todo : Seq(Keys)]
  BY <1>1, AtTyped
<1>5. /\ unrecorded' \in Envelope \cup {NoEnvelope} /\ recorded' \in 0 .. MaxEnvelopes
      /\ highest' \in [Keys -> 0 .. MaxSeq]
      /\ unrecorded' # NoEnvelope => recorded' < MaxEnvelopes
  <2>1. CASE Record
    BY <1>1, <2>1, RecordTyped
  <2>2. CASE UNCHANGED <<unrecorded, recorded, highest>>
    BY <2>2 DEF IInv, TypeOK, ReaderKnown
  <2> QED
    BY <1>1, <2>1, <2>2
<1>6. CursorExact'
  <2>1. CASE UNCHANGED <<unrecorded, recorded, highest>>
    BY <1>1, <1>3, <1>4, <2>1, CursorStays
  <2>2. CASE Record /\ Env.kind # "initialize"
             /\ (Env.kind = "ping" \/ clients[Env.key] = None \/ lastSeq[Env.key] >= Env.seq)
    <3>1. lastSeq[Env.key] \in Nat
      BY <1>2 DEF IInv, TypeOK
    <3>2. clients[Env.key] # None => Env.seq <= lastSeq[Env.key]
      BY <1>2, <2>2, <3>1
    <3> QED
      BY <1>1, <1>3, <1>4, <2>2, <3>2, RecordKeepsCursor
  <2> QED
    BY <1>1, <2>1, <2>2
<1>7. DeadPumpNoticed'
  <2>1. \A k \in Keys : Noticed(k) => Noticed(k)'
    BY <1>1, <1>4 DEF Noticed, Range
  <2> QED
    BY <1>1, <1>3, <2>1, NoticedStays DEF Fewer
<1>8. TypeOK' /\ ReaderKnown'
  <2>1. linked' \in BOOLEAN
    BY <1>1 DEF IInv, TypeOK
  <2>2. TypeOK'
    BY <1>1, <1>4, <1>5, <2>1 DEF IInv, TypeOK, Ids
  <2> QED
    BY <1>4, <1>5, <2>2 DEF ReaderKnown
<1> QED
  BY <1>3, <1>6, <1>7, <1>8 DEF IInv

(* The initial state.                                                      *)
LEMMA InitIInv == ASSUME Init PROVE IInv
<1>1. opened = 0 /\ Ids = {} /\ events = <<>> /\ DOMAIN events = {}
  BY DEF Init, Ids
<1>2. /\ reader \in [at : {"off", "top", "idle", "handle", "greet", "draining", "expiring"},
                     todo : Seq(Keys)]
      /\ reader.at = "off" /\ reader.todo = <<>>
  BY AtTyped DEF Init
<1>3. \A S : <<>> \in [{} -> S] /\ <<>> \in Seq(S)
  OBVIOUS
<1>4. TypeOK
  <2>1. /\ unrecorded \in Envelope \cup {NoEnvelope} /\ recorded \in 0 .. MaxEnvelopes
        /\ breaks \in 0 .. MaxBreaks /\ opened \in 0 .. MaxConnections
    BY ClientsAssumption DEF Init
  <2>2. /\ clients \in [Keys -> {None} \cup Ids] /\ lastSeq \in [Keys -> 0 .. MaxSeq]
        /\ highest \in [Keys -> 0 .. MaxSeq]
    BY ClientsAssumption DEF Init
  <2>3. /\ keyOf \in [Ids -> Keys] /\ pump \in [Ids -> {"running", "ended"}]
        /\ outgoing \in [Ids -> 0 .. WriterCap] /\ app \in [Ids -> {"open", "closed"}]
        /\ got \in [Ids -> 0 .. MaxSeq]
    BY <1>1, <1>3 DEF Init
  <2>4. /\ closedKeys \in Seq(Keys) /\ Len(closedKeys) <= ClosedCap
        /\ events \in Seq([type : {"opened", "incoming", "closed"}, id : Ids, seq : 0 .. MaxSeq])
        /\ Len(events) <= EventCap
    BY <1>3, ClientsAssumption DEF Init
  <2>5. /\ disconnect \cup lateCloses \cup unreported \subseteq Ids /\ forgotten \subseteq Keys
        /\ linked \in BOOLEAN
    BY DEF Init
  <2> QED
    BY <1>2, <2>1, <2>2, <2>3, <2>4, <2>5 DEF TypeOK
<1>5. \A k \in Keys : clients[k] = None
  BY DEF Init
<1>6. ReaderKnown /\ ClientsKnown /\ LastSeqCovers /\ CursorExact
  BY <1>2, <1>5 DEF Init, ReaderKnown, ClientsKnown, LastSeqCovers, CursorExact
<1>7. EventsOrdered /\ EventsAhead /\ OrphansReported /\ DeadPumpNoticed
  BY <1>1 DEF EventsOrdered, EventsAhead, OrphansReported, DeadPumpNoticed
<1> QED
  BY <1>4, <1>6, <1>7 DEF IInv

-------------------------------------------------------------------------------
(* A request is forwarded.                                                 *)

(* Reports stand when an event is put on the channel.                      *)
LEMMA ReportsStand ==
  ASSUME TypeOK, NEW type, NEW id, NEW seq, Emit(type, id, seq),
         lateCloses \subseteq lateCloses', unreported \subseteq unreported'
  PROVE  \A x \in Ids : Reported(x) => Reported(x)'
<1>1. \A t, x : Pending(t, x)' <=> Pending(t, x) \/ (t = type /\ x = id)
  BY PendingAppended
<1> QED
  BY <1>1 DEF Reported

(* A sequence over a set is one over every larger set.                     *)
LEMMA SeqOfMore ==
  ASSUME NEW S, NEW T, S \subseteq T, NEW s \in Seq(S)
  PROVE  s \in Seq(T)
OBVIOUS

(* The type of an event that is put on the channel.                        *)
LEMMA EventTyped ==
  ASSUME TypeOK, HasRoom, NEW type \in {"opened", "incoming", "closed"}, NEW id \in Ids',
         NEW seq \in 0 .. MaxSeq, Emit(type, id, seq), Ids \subseteq Ids'
  PROVE  /\ events' \in Seq([type : {"opened", "incoming", "closed"}, id : Ids', seq : 0 .. MaxSeq])
         /\ Len(events') <= EventCap
<1> DEFINE S == [type : {"opened", "incoming", "closed"}, id : Ids, seq : 0 .. MaxSeq]
           T == [type : {"opened", "incoming", "closed"}, id : Ids', seq : 0 .. MaxSeq]
           e == [type |-> type, id |-> id, seq |-> seq]
<1>1. events' = Append(events, e) /\ e \in T
  BY DEF Emit
<1>2. events \in Seq(S)
  BY DEF TypeOK
<1>3. S \subseteq T
  OBVIOUS
<1> HIDE DEF S, T, e
<1>4. events \in Seq(T) /\ Len(events) \in Nat
  BY <1>2, <1>3, SeqOfMore
<1>5. events' \in Seq(T) /\ Len(events') = Len(events) + 1
  BY <1>1, <1>4
<1>6. Len(events') <= EventCap
  BY <1>4, <1>5, ClientsAssumption DEF HasRoom
<1> QED
  BY <1>5, <1>6 DEF T

(* A request goes to transportEvents and is recorded.                      *)
LEMMA ForwardStep ==
  ASSUME IInv, ForwardMessage \/ Greet
  PROVE  IInv'
<1> DEFINE k == Env.key
<1>1. /\ reader.at \in {"handle", "greet"} /\ reader.todo = <<>> /\ reader' = At("top")
      /\ HasRoom /\ Emit("incoming", clients[k], Env.seq)
      /\ lastSeq' = [lastSeq EXCEPT ![k] = Env.seq]
      /\ Record
      /\ UNCHANGED <<linked, breaks, clients, opened, keyOf, pump, disconnect, outgoing,
                     closedKeys, lateCloses, app, got, unreported, forgotten>>
      /\ Env \in Envelope /\ clients[k] # None
      /\ Env.kind = "message" => reader.at = "handle"
      /\ \/ reader.at = "handle" /\ Env.kind = "message" /\ lastSeq[k] < Env.seq
         \/ reader.at = "greet" /\ Env.kind = "initialize"
  BY DEF ForwardMessage, Greet, Handling, Done, pumps, transport, history, IInv, ReaderKnown
<1>2. k \in Keys /\ Env.seq \in 1 .. MaxSeq /\ Env.seq \in 0 .. MaxSeq /\ clients[k] \in Ids
  <2>1. clients[k] \in {None} \cup Ids
    BY <1>1, EnvelopeFields DEF IInv, TypeOK
  <2> QED
    BY <1>1, <2>1, EnvelopeFields
<1>3. lastSeq[k] < Env.seq /\ lastSeq \in [Keys -> 0 .. MaxSeq] /\ highest \in [Keys -> 0 .. MaxSeq]
      /\ got \in [Ids -> 0 .. MaxSeq]
  <2>1. lastSeq \in [Keys -> 0 .. MaxSeq] /\ highest \in [Keys -> 0 .. MaxSeq]
        /\ got \in [Ids -> 0 .. MaxSeq]
    BY DEF IInv, TypeOK
  <2>2. CASE reader.at = "greet"
    <3>1. lastSeq[k] = 0
      BY <1>1, <1>2, <2>2 DEF IInv, CursorExact
    <3> QED
      BY <1>2, <2>1, <3>1
  <2> QED
    BY <1>1, <2>1, <2>2
<1>4. /\ unrecorded' = NoEnvelope /\ recorded' \in 0 .. MaxEnvelopes
      /\ highest' \in [Keys -> 0 .. MaxSeq]
      /\ \A j \in Keys \ {k} : highest'[j] = highest[j]
      /\ highest'[k] = IF Env.kind = "initialize" \/ Env.seq > highest[k]
                       THEN Env.seq ELSE highest[k]
  BY <1>1, RecordTyped
<1>5. lastSeq' \in [Keys -> 0 .. MaxSeq] /\ lastSeq'[k] = Env.seq
      /\ \A j \in Keys \ {k} : lastSeq'[j] = lastSeq[j]
  BY <1>1, <1>2, <1>3
<1>6. \A j \in Keys \ {k} : clients[j] # None => clients[j] # clients[k]
  BY <1>1, <1>2 DEF IInv, ClientsKnown
<1>7. reader'.todo = <<>> /\ reader'.at = "top"
      /\ reader' \in [at : {"off", "top", "idle", "handle", "greet", "draining", "expiring"},
                      todo : Seq(Keys)]
  BY <1>1, AtTyped
<1>8. TypeOK'
  <2>1. Ids' = Ids /\ clients[k] \in Ids' /\ Ids \subseteq Ids'
    BY <1>1, <1>2 DEF Ids
  <2>2. TypeOK
    BY DEF IInv
  <2>3. /\ events' \in Seq([type : {"opened", "incoming", "closed"}, id : Ids', seq : 0 .. MaxSeq])
        /\ Len(events') <= EventCap
    BY <1>1, <1>2, <2>1, <2>2, EventTyped
  <2> QED
    BY <1>1, <1>4, <1>5, <1>7, <2>1, <2>2, <2>3 DEF TypeOK
<1>9. ReaderKnown' /\ ClientsKnown'
  BY <1>1, <1>4, <1>7 DEF IInv, ReaderKnown, ClientsKnown
<1>10. EventsOrdered' /\ EventsAhead' /\ LastSeqCovers'
  <2> DEFINE e == [type |-> "incoming", id |-> clients[k], seq |-> Env.seq]
  <2>1. events' = Append(events, e) /\ TypeOK
    BY <1>1 DEF Emit, IInv
  <2>2. e.type = "incoming" /\ e.id = clients[k] /\ e.seq = Env.seq
    OBVIOUS
  <2> HIDE DEF e
  <2>3. /\ Len(events) \in Nat /\ DOMAIN events = 1 .. Len(events)
        /\ DOMAIN events' = 1 .. Len(events) + 1
        /\ events'[Len(events) + 1] = e
        /\ \A i \in 1 .. Len(events) : events'[i] = events[i]
    BY <2>1, EventAppended
  <2>4. \A i \in DOMAIN events' :
          \/ i \in DOMAIN events /\ events'[i] = events[i]
          \/ i = Len(events) + 1 /\ events'[i] = e
    BY <2>3
  <2>5. \A i \in DOMAIN events : events[i].seq \in Nat
    BY EventFields DEF IInv
  <2>6. /\ got[clients[k]] <= lastSeq[k]
        /\ \A i \in DOMAIN events :
             events[i].type = "incoming" /\ events[i].id = clients[k] => events[i].seq <= lastSeq[k]
    BY <1>1, <1>2 DEF IInv, LastSeqCovers
  <2>7. \A i \in DOMAIN events :
          events[i].type = "incoming" /\ events[i].id = clients[k] => events[i].seq < Env.seq
    BY <1>2, <1>3, <2>5, <2>6
  <2>8. got[clients[k]] < Env.seq
    BY <1>2, <1>3, <2>6
  <2>9. EventsOrdered'
    <3>1. \A i, j \in DOMAIN events' : i < j => i \in DOMAIN events /\ events'[i] = events[i]
      BY <2>3
    <3> QED
      BY <2>2, <2>4, <2>7, <3>1 DEF IInv, EventsOrdered
  <2>10. EventsAhead'
    <3> SUFFICES ASSUME NEW i \in DOMAIN events', events'[i].type = "incoming"
                 PROVE  events'[i].seq > got[events'[i].id]
      BY <1>1 DEF EventsAhead
    <3>1. CASE i \in DOMAIN events /\ events'[i] = events[i]
      BY <3>1 DEF IInv, EventsAhead
    <3>2. CASE events'[i] = e
      BY <1>2, <1>3, <2>2, <2>8, <3>2
    <3> QED
      BY <2>4, <3>1, <3>2
  <2>11. LastSeqCovers'
    <3> SUFFICES ASSUME NEW j \in Keys, clients[j] # None
                 PROVE  /\ got[clients[j]] <= lastSeq'[j]
                        /\ \A i \in DOMAIN events' :
                             events'[i].type = "incoming" /\ events'[i].id = clients[j] =>
                               events'[i].seq <= lastSeq'[j]
      BY <1>1 DEF LastSeqCovers
    <3>1. CASE j = k
      <4>1. lastSeq'[j] = Env.seq /\ clients[j] = clients[k]
        BY <1>5, <3>1
      <4>2. \A i \in DOMAIN events' :
              events'[i].type = "incoming" /\ events'[i].id = clients[k] => events'[i].seq <= Env.seq
        BY <1>2, <2>2, <2>4, <2>5, <2>7
      <4>3. got[clients[k]] <= Env.seq
        BY <1>2, <1>3, <2>8
      <4> QED
        BY <4>1, <4>2, <4>3
    <3>2. CASE j # k
      <4>1. lastSeq'[j] = lastSeq[j] /\ clients[j] # clients[k]
        BY <1>5, <1>6, <3>2
      <4> QED
        BY <2>2, <2>4, <4>1 DEF IInv, LastSeqCovers
    <3> QED
      BY <3>1, <3>2
  <2> QED
    BY <2>9, <2>10, <2>11
<1>11. CursorExact'
  <2> SUFFICES ASSUME NEW j \in Keys, clients[j] # None
               PROVE  lastSeq'[j] = highest'[j]
    BY <1>1, <1>7 DEF CursorExact
  <2>1. CASE j = k
    <3>1. highest'[k] = Env.seq
      <4>1. CASE reader.at = "handle"
        <5>1. highest[k] = lastSeq[k]
          BY <1>1, <1>2, <4>1 DEF IInv, CursorExact
        <5> QED
          BY <1>2, <1>3, <1>4, <5>1
      <4>2. CASE reader.at = "greet"
        BY <1>1, <1>4, <4>2
      <4> QED
        BY <1>1, <4>1, <4>2
    <3> QED
      BY <1>5, <2>1, <3>1
  <2>2. CASE j # k
    <3>1. lastSeq[j] = highest[j]
      BY <2>2 DEF IInv, CursorExact
    <3> QED
      BY <1>4, <1>5, <2>2, <3>1
  <2> QED
    BY <2>1, <2>2
<1>12. NoneNew
  BY <1>1 DEF NoneNew
<1>13. OrphansReported'
  <2>1. \A t, x : Pending(t, x)' <=> Pending(t, x) \/ (t = "incoming" /\ x = clients[k])
    BY <1>1, PendingAppended DEF IInv
  <2>2. \A x : Pending("opened", x)' => Pending("opened", x)
    BY <2>1
  <2>3. \A x \in Ids : Reported(x) => Reported(x)'
    BY <1>1, ReportsStand DEF IInv
  <2>4. \A id \in Ids : Tracked(id) => clients'[keyOf[id]] # None
    BY <1>1 DEF Tracked, Ids, None, IInv, TypeOK
  <2> QED
    BY <1>1, <1>12, <2>2, <2>3, <2>4, OrphansStay
<1>14. DeadPumpNoticed'
  <2>1. \A j \in Keys : Noticed(j) => Noticed(j)'
    BY <1>1, <1>7 DEF Noticed, Range
  <2> QED
    BY <1>1, <1>12, <2>1, NoticedStays
<1> QED
  BY <1>8, <1>9, <1>10, <1>11, <1>13, <1>14 DEF IInv

-------------------------------------------------------------------------------
(* A client is removed and its connection is reported closed.              *)

(* The Closed event of a connection is put on the channel, is given up, or *)
(* is left to a goroutine of its own.                                      *)
Reporting(id) ==
  \/ HasRoom /\ Emit("closed", id, 0) /\ UNCHANGED <<lateCloses, unreported>>
  \/ unreported' = unreported \cup {id} /\ UNCHANGED <<events, lateCloses>>
  \/ lateCloses' = lateCloses \cup {id} /\ UNCHANGED <<events, unreported>>

(* removeClient and the report, in whatever handler or sweep.              *)
LEMMA RemovalStep ==
  ASSUME IInv, NEW k \in Keys, clients[k] # None, RemoveClient(k), Reporting(clients[k]),
         UNCHANGED <<opened, keyOf, app, got>>
  PROVE  /\ Fewer /\ NoneNew /\ clients'[k] = None
         /\ clients' \in [Keys -> {None} \cup Ids] /\ lastSeq' \in [Keys -> 0 .. MaxSeq]
         /\ disconnect' \cup lateCloses' \cup unreported' \subseteq Ids
         /\ events' \in Seq([type : {"opened", "incoming", "closed"}, id : Ids, seq : 0 .. MaxSeq])
         /\ Len(events') <= EventCap
         /\ ClientsKnown' /\ EventsOrdered' /\ EventsAhead' /\ LastSeqCovers' /\ OrphansReported'
<1>1. TypeOK /\ Ids' = Ids
  BY DEF IInv, Ids
<1>2. clients \in [Keys -> {None} \cup Ids] /\ lastSeq \in [Keys -> 0 .. MaxSeq]
      /\ disconnect \cup lateCloses \cup unreported \subseteq Ids
  BY <1>1 DEF TypeOK
<1>3. clients[k] \in Ids
  BY <1>2
<1>4. /\ clients' \in [Keys -> {None} \cup Ids] /\ lastSeq' \in [Keys -> 0 .. MaxSeq]
      /\ clients'[k] = None
      /\ \A j \in Keys \ {k} : clients'[j] = clients[j] /\ lastSeq'[j] = lastSeq[j]
  BY <1>2, ClientsAssumption DEF RemoveClient
<1>5. disconnect' \cup lateCloses' \cup unreported' \subseteq Ids
  BY <1>2, <1>3 DEF RemoveClient, Reporting
<1>6. Fewer /\ NoneNew
  BY <1>4 DEF Fewer, NoneNew
<1>7. /\ events' \in Seq([type : {"opened", "incoming", "closed"}, id : Ids, seq : 0 .. MaxSeq])
      /\ Len(events') <= EventCap
  <2>1. CASE events' = events
    BY <1>1, <2>1 DEF TypeOK
  <2>2. CASE HasRoom /\ Emit("closed", clients[k], 0)
    <3>1. clients[k] \in Ids' /\ Ids \subseteq Ids' /\ 0 \in 0 .. MaxSeq
      BY <1>1, <1>3, ClientsAssumption
    <3>2. events' \in Seq([type : {"opened", "incoming", "closed"}, id : Ids', seq : 0 .. MaxSeq])
          /\ Len(events') <= EventCap
      BY <1>1, <2>2, <3>1, EventTyped
    <3> QED
      BY <1>1, <3>2
  <2> QED
    BY <2>1, <2>2 DEF Reporting
<1>8. ClientsKnown' /\ EventsOrdered' /\ EventsAhead' /\ LastSeqCovers'
  BY <1>3, <1>6, FewerClients DEF Reporting
<1>9. OrphansReported'
  <2>1. \/ \E x \in Ids : Emit("closed", x, 0)
        \/ events' = events
    BY <1>3 DEF Reporting
  <2>2. \A x \in Ids : Pending("opened", x)' => Pending("opened", x)
    <3>1. CASE events' = events
      BY <3>1 DEF Pending
    <3>2. ASSUME NEW y \in Ids, Emit("closed", y, 0)
          PROVE  \A x \in Ids : Pending("opened", x)' => Pending("opened", x)
      <4>1. \A t, x : Pending(t, x)' <=> Pending(t, x) \/ (t = "closed" /\ x = y)
        BY <1>1, <3>2, PendingAppended
      <4> QED
        BY <4>1
    <3> QED
      BY <2>1, <3>1, <3>2
  <2>3. lateCloses \subseteq lateCloses' /\ unreported \subseteq unreported'
    BY DEF Reporting
  <2>4. \A x \in Ids : Reported(x) => Reported(x)'
    <3>1. CASE events' = events
      BY <2>3, <3>1 DEF Reported, Pending
    <3>2. CASE \E x \in Ids : Emit("closed", x, 0)
      BY <1>1, <2>3, <3>2, ReportsStand
    <3> QED
      BY <2>1, <3>1, <3>2
  <2>5. \A x \in Ids : x = clients[k] => Reported(x)'
    <3>1. CASE Emit("closed", clients[k], 0)
      <4>1. \A t, x : Pending(t, x)' <=> Pending(t, x) \/ (t = "closed" /\ x = clients[k])
        BY <1>1, <3>1, PendingAppended
      <4> QED
        BY <4>1 DEF Reported
    <3>2. CASE clients[k] \in lateCloses' \cup unreported'
      BY <3>2 DEF Reported
    <3> QED
      BY <3>1, <3>2 DEF Reporting
  <2>6. \A x \in Ids : Tracked(x) /\ clients'[keyOf[x]] = None => x = clients[k]
    <3> SUFFICES ASSUME NEW x \in Ids, Tracked(x), clients'[keyOf[x]] = None
                 PROVE  x = clients[k]
      OBVIOUS
    <3>1. keyOf[x] \in Keys /\ clients[keyOf[x]] = x /\ x # None
      BY <1>1 DEF TypeOK, Tracked, Ids, None
    <3> QED
      BY <1>4, <3>1
  <2>7. \A x \in Ids : Tracked(x) /\ clients'[keyOf[x]] = None => Reported(x)'
    BY <2>5, <2>6
  <2> QED
    BY <1>6, <2>2, <2>4, <2>7, OrphansStay
<1> QED
  BY <1>4, <1>5, <1>6, <1>7, <1>8, <1>9

(* The handlers that close a client.                                       *)
LEMMA ClosingStep ==
  ASSUME IInv, CloseForInitialize \/ GreetFails \/ (HandleClosed /\ clients[Env.key] # None)
  PROVE  IInv'
<1> DEFINE k == Env.key
<1>1. /\ reader.at \in {"handle", "greet"} /\ reader.todo = <<>> /\ Env \in Envelope
      /\ clients[k] # None
      /\ reader.at = "greet" => Env.kind = "initialize"
  BY DEF CloseForInitialize, GreetFails, HandleClosed, Handling, IInv, ReaderKnown
<1>2. /\ RemoveClient(k) /\ Reporting(clients[k])
      /\ UNCHANGED <<breaks, opened, keyOf, pump, outgoing, closedKeys, app, got, forgotten>>
      /\ reader' \in {reader, At("top"), At("off")}
      /\ linked' = linked \/ linked' = FALSE
      /\ \/ /\ UNCHANGED <<unrecorded, recorded, highest>>
            /\ reader.at = "greet" => reader' = At("off")
         \/ Record /\ reader' = At("top") /\ reader.at = "handle" /\ Env.kind = "closed"
  BY <1>1 DEF CloseForInitialize, GreetFails, HandleClosed, Handling, Reporting, Done, Fail, log,
              transport
<1>3. k \in Keys /\ (Env.kind = "closed" => Env.seq = 0)
  BY <1>1, EnvelopeFields
<1>4. /\ Fewer /\ NoneNew /\ clients'[k] = None
      /\ clients' \in [Keys -> {None} \cup Ids] /\ lastSeq' \in [Keys -> 0 .. MaxSeq]
      /\ disconnect' \cup lateCloses' \cup unreported' \subseteq Ids
      /\ events' \in Seq([type : {"opened", "incoming", "closed"}, id : Ids, seq : 0 .. MaxSeq])
      /\ Len(events') <= EventCap
      /\ ClientsKnown' /\ EventsOrdered' /\ EventsAhead' /\ LastSeqCovers' /\ OrphansReported'
  BY <1>1, <1>2, <1>3, RemovalStep
<1>5. /\ reader'.todo = <<>> /\ reader'.at \in {"handle", "top", "off"}
      /\ reader' \in [at : {"off", "top", "idle", "handle", "greet", "draining", "expiring"},
                      todo : Seq(Keys)]
  <2>1. CASE reader' = reader
    <3>1. reader.at # "greet"
      BY <1>2, <2>1, AtTyped
    <3> QED
      BY <1>1, <2>1, <3>1 DEF IInv, TypeOK
  <2>2. CASE reader' \in {At("top"), At("off")}
    BY <2>2, AtTyped
  <2> QED
    BY <1>2, <2>1, <2>2
<1>6. /\ unrecorded' \in Envelope \cup {NoEnvelope} /\ recorded' \in 0 .. MaxEnvelopes
      /\ highest' \in [Keys -> 0 .. MaxSeq]
      /\ unrecorded' # NoEnvelope => recorded' < MaxEnvelopes
  <2>1. CASE Record
    BY <1>1, <2>1, RecordTyped
  <2>2. CASE UNCHANGED <<unrecorded, recorded, highest>>
    BY <2>2 DEF IInv, TypeOK, ReaderKnown
  <2> QED
    BY <1>2, <2>1, <2>2
<1>7. CursorExact'
  <2>1. CASE UNCHANGED <<unrecorded, recorded, highest>>
    BY <1>4, <1>5, <2>1, CursorStays
  <2>2. CASE Record /\ reader.at = "handle" /\ Env.kind = "closed"
    <3>1. Env.seq <= lastSeq[Env.key] /\ Env.kind # "initialize"
      <4>1. lastSeq[Env.key] \in Nat
        BY <1>3 DEF IInv, TypeOK
      <4> QED
        BY <1>3, <2>2, <4>1
    <3> QED
      BY <1>4, <1>5, <2>2, <3>1, RecordKeepsCursor
  <2> QED
    BY <1>2, <2>1, <2>2
<1>8. DeadPumpNoticed'
  <2>1. \A j \in Keys : Noticed(j) => Noticed(j)'
    BY <1>1, <1>2, <1>5 DEF Noticed, Range
  <2> QED
    BY <1>2, <1>4, <2>1, NoticedStays
<1>9. ReaderKnown'
  <2>1. reader'.at = "handle" => unrecorded' = Env /\ Env \in Envelope
    <3>1. reader'.at = "handle" => reader' = reader
      BY <1>2, AtTyped
    <3>2. reader' = At("top") => reader'.at = "top"
      BY AtTyped
    <3> QED
      BY <1>1, <1>2, <3>1, <3>2 DEF Env
  <2> QED
    BY <1>5, <1>6, <2>1 DEF ReaderKnown, Env
<1>10. TypeOK'
  <2>1. Ids' = Ids /\ linked' \in BOOLEAN
    BY <1>2 DEF Ids, IInv, TypeOK
  <2> QED
    BY <1>2, <1>4, <1>5, <1>6, <2>1 DEF IInv, TypeOK
<1> QED
  BY <1>4, <1>7, <1>8, <1>9, <1>10 DEF IInv

(* The elements of a sequence are its first and those of the rest.         *)
LEMMA RangeTail ==
  ASSUME NEW S, NEW q \in Seq(S), q # <<>>
  PROVE  /\ Head(q) \in S /\ Tail(q) \in Seq(S)
         /\ Range(q) = {Head(q)} \cup Range(Tail(q))
<1>1. /\ Head(q) \in S /\ Tail(q) \in Seq(S) /\ Head(q) = q[1]
      /\ Len(q) \in Nat \ {0} /\ DOMAIN q = 1 .. Len(q) /\ DOMAIN Tail(q) = 1 .. Len(q) - 1
      /\ \A i \in 1 .. Len(q) - 1 : Tail(q)[i] = q[i + 1]
  OBVIOUS
<1>2. ASSUME NEW x \in Range(q) PROVE x \in {Head(q)} \cup Range(Tail(q))
  <2>1. PICK i \in DOMAIN q : x = q[i]
    BY <1>2 DEF Range
  <2>2. CASE i = 1
    BY <1>1, <2>1, <2>2
  <2>3. CASE i # 1
    <3>1. i - 1 \in DOMAIN Tail(q) /\ Tail(q)[i - 1] = q[(i - 1) + 1] /\ (i - 1) + 1 = i
      BY <1>1, <2>1, <2>3
    <3> QED
      BY <2>1, <3>1 DEF Range
  <2> QED
    BY <2>2, <2>3
<1>3. ASSUME NEW x \in {Head(q)} \cup Range(Tail(q)) PROVE x \in Range(q)
  <2>1. CASE x = Head(q)
    <3>1. 1 \in DOMAIN q /\ x = q[1]
      BY <1>1, <2>1
    <3> QED
      BY <3>1 DEF Range
  <2>2. CASE x \in Range(Tail(q))
    <3>1. PICK i \in DOMAIN Tail(q) : x = Tail(q)[i]
      BY <2>2 DEF Range
    <3>2. i + 1 \in DOMAIN q /\ x = q[i + 1]
      BY <1>1, <3>1
    <3> QED
      BY <3>2 DEF Range
  <2> QED
    BY <1>3, <2>1, <2>2
<1> QED
  BY <1>1, <1>2, <1>3

(* drainClosedClients and closeExpiredClients, one key at a time.          *)
LEMMA SweepStep ==
  ASSUME IInv, Sweep
  PROVE  IInv'
<1>1. /\ TypeOK /\ reader.at \in {"draining", "expiring"} /\ reader.todo \in Seq(Keys)
      /\ UNCHANGED <<breaks, opened, keyOf, pump, outgoing, closedKeys, lateCloses, app, got>>
      /\ Ids' = Ids
  BY DEF Sweep, IInv, TypeOK, transport, Ids
<1>2. CASE reader.todo = <<>>
  <2>1. /\ reader' \in {At("idle"), At("top")}
        /\ UNCHANGED <<unrecorded, recorded, highest, linked, clients, lastSeq, disconnect, events,
                       unreported, forgotten>>
    BY <1>2 DEF Sweep, log
  <2>2. /\ reader'.todo = <<>> /\ reader'.at \in {"idle", "top"}
        /\ reader' \in [at : {"off", "top", "idle", "handle", "greet", "draining", "expiring"},
                        todo : Seq(Keys)]
    BY <2>1, AtTyped
  <2>3. Fewer /\ ClientsKnown' /\ EventsOrdered' /\ EventsAhead' /\ LastSeqCovers' /\ OrphansReported'
    BY <1>1, <2>1, TrackerKept
  <2>4. CursorExact'
    BY <1>1, <2>1, <2>2, <2>3, CursorStays
  <2>5. DeadPumpNoticed'
    <3>1. \A j \in Keys : Noticed(j) => Noticed(j)'
      BY <1>1, <1>2, <2>1, <2>2 DEF Noticed, Range
    <3> QED
      BY <1>1, <2>3, <3>1, NoticedStays DEF Fewer
  <2>6. TypeOK' /\ ReaderKnown'
    BY <1>1, <2>1, <2>2 DEF TypeOK, IInv, ReaderKnown, Ids
  <2> QED
    BY <2>3, <2>4, <2>5, <2>6 DEF IInv
<1>3. CASE reader.todo # <<>>
  <2> DEFINE k == Head(reader.todo)
  <2>1. /\ k \in Keys /\ Tail(reader.todo) \in Seq(Keys)
        /\ Range(reader.todo) = {k} \cup Range(Tail(reader.todo))
    BY <1>1, <1>3, RangeTail
  <2>2. CASE clients[k] = None
    <3>1. /\ reader' = [reader EXCEPT !.todo = Tail(reader.todo)]
          /\ UNCHANGED <<unrecorded, recorded, highest, linked, clients, lastSeq, disconnect,
                         events, unreported, forgotten>>
      BY <1>3, <2>2 DEF Sweep, log
    <3>2. /\ reader'.todo = Tail(reader.todo) /\ reader'.at = reader.at
          /\ reader' \in [at : {"off", "top", "idle", "handle", "greet", "draining", "expiring"},
                          todo : Seq(Keys)]
      BY <1>1, <2>1, <3>1 DEF TypeOK
    <3>3. Fewer /\ ClientsKnown' /\ EventsOrdered' /\ EventsAhead' /\ LastSeqCovers' /\ OrphansReported'
      BY <1>1, <3>1, TrackerKept
    <3>4. CursorExact'
      BY <1>1, <3>1, <3>2, <3>3, CursorStays
    <3>5. DeadPumpNoticed'
      <4>1. \A j \in Keys : clients'[j] # None /\ Noticed(j) => Noticed(j)'
        BY <1>1, <2>1, <2>2, <3>1, <3>2 DEF Noticed
      <4> QED
        BY <1>1, <3>3, <4>1, NoticedStays DEF Fewer
    <3>6. TypeOK' /\ ReaderKnown'
      BY <1>1, <3>1, <3>2 DEF TypeOK, IInv, ReaderKnown, Ids
    <3> QED
      BY <3>3, <3>4, <3>5, <3>6 DEF IInv
  <2>3. CASE clients[k] # None
    <3>1. /\ RemoveClient(k) /\ Reporting(clients[k])
          /\ UNCHANGED <<unrecorded, recorded, highest>>
          /\ linked' = linked \/ linked' = FALSE
          /\ \/ reader' = [reader EXCEPT !.todo = Tail(reader.todo)] /\ forgotten' = forgotten
             \/ reader' = At("off") /\ forgotten' = forgotten \cup Range(Tail(reader.todo))
      BY <1>3, <2>3 DEF Sweep, Reporting, Fail, log
    <3>2. /\ reader' \in [at : {"off", "top", "idle", "handle", "greet", "draining", "expiring"},
                          todo : Seq(Keys)]
          /\ \/ reader'.at = reader.at /\ reader'.todo = Tail(reader.todo) /\ forgotten' = forgotten
             \/ /\ reader'.at = "off" /\ reader'.todo = <<>>
                /\ forgotten' = forgotten \cup Range(Tail(reader.todo))
      <4>1. CASE reader' = [reader EXCEPT !.todo = Tail(reader.todo)] /\ forgotten' = forgotten
        BY <1>1, <2>1, <4>1 DEF TypeOK
      <4>2. CASE reader' = At("off") /\ forgotten' = forgotten \cup Range(Tail(reader.todo))
        BY <4>2, AtTyped
      <4> QED
        BY <3>1, <4>1, <4>2
    <3>3. /\ Fewer /\ NoneNew /\ clients'[k] = None
          /\ clients' \in [Keys -> {None} \cup Ids] /\ lastSeq' \in [Keys -> 0 .. MaxSeq]
          /\ disconnect' \cup lateCloses' \cup unreported' \subseteq Ids
          /\ events' \in Seq([type : {"opened", "incoming", "closed"}, id : Ids, seq : 0 .. MaxSeq])
          /\ Len(events') <= EventCap
          /\ ClientsKnown' /\ EventsOrdered' /\ EventsAhead' /\ LastSeqCovers' /\ OrphansReported'
      BY <1>1, <2>1, <2>3, <3>1, RemovalStep
    <3>4. CursorExact'
      BY <1>1, <3>1, <3>2, <3>3, CursorStays
    <3>5. DeadPumpNoticed'
      <4>1. \A j \in Keys : clients'[j] # None /\ Noticed(j) => Noticed(j)'
        <5>1. ASSUME NEW j \in Keys, j # k, Noticed(j) PROVE Noticed(j)'
          <6>1. j \in Range(closedKeys) \cup Range(Tail(reader.todo)) \cup forgotten
            BY <2>1, <5>1 DEF Noticed
          <6>2. Range(closedKeys)' = Range(closedKeys)
            BY <1>1 DEF Range
          <6>3. \/ reader'.todo = Tail(reader.todo) /\ forgotten' = forgotten
                \/ forgotten' = forgotten \cup Range(Tail(reader.todo))
            BY <3>2
          <6> QED
            BY <6>1, <6>2, <6>3 DEF Noticed
        <5> QED
          BY <3>3, <5>1
      <4> QED
        BY <1>1, <3>3, <4>1, NoticedStays
    <3>6. forgotten' \subseteq Keys /\ linked' \in BOOLEAN
      <4>1. Range(Tail(reader.todo)) \subseteq Keys
        BY <2>1 DEF Range
      <4> QED
        BY <1>1, <3>1, <4>1 DEF TypeOK
    <3>7. TypeOK'
      BY <1>1, <3>1, <3>2, <3>3, <3>6 DEF TypeOK
    <3>8. ReaderKnown'
      BY <1>1, <3>1, <3>2 DEF IInv, ReaderKnown
    <3> QED
      BY <3>3, <3>4, <3>5, <3>7, <3>8 DEF IInv
  <2> QED
    BY <2>2, <2>3
<1> QED
  BY <1>2, <1>3

-------------------------------------------------------------------------------
(* The sweeps start.                                                       *)

(* drainClosedClients takes the keys the pumps left.                       *)
LEMMA DrainStep ==
  ASSUME IInv, DrainClosedClients
  PROVE  IInv'
<1>1. /\ TypeOK /\ reader = At("top") /\ closedKeys \in Seq(Keys) /\ closedKeys' = <<>>
      /\ reader' = [At("draining") EXCEPT !.todo = closedKeys]
      /\ UNCHANGED <<unrecorded, recorded, highest, linked, breaks, clients, lastSeq, opened, keyOf,
                     pump, disconnect, outgoing, lateCloses, events, app, got, unreported, forgotten>>
  BY DEF DrainClosedClients, log, tracker, transport, history, IInv, TypeOK
<1>2. /\ reader.at = "top" /\ reader.todo = <<>>
      /\ reader'.at = "draining" /\ reader'.todo = closedKeys
      /\ reader' \in [at : {"off", "top", "idle", "handle", "greet", "draining", "expiring"},
                      todo : Seq(Keys)]
  BY <1>1 DEF At
<1>3. Fewer /\ ClientsKnown' /\ EventsOrdered' /\ EventsAhead' /\ LastSeqCovers' /\ OrphansReported'
  BY <1>1, TrackerKept
<1>4. CursorExact'
  BY <1>1, <1>2, <1>3, CursorStays
<1>5. DeadPumpNoticed'
  <2>1. \A j \in Keys : Noticed(j) => Noticed(j)'
    BY <1>1, <1>2 DEF Noticed, Range
  <2> QED
    BY <1>1, <1>3, <2>1, NoticedStays DEF Fewer
<1>6. ReaderKnown'
  BY <1>1, <1>2 DEF IInv, ReaderKnown
<1>7. TypeOK'
  <2>1. closedKeys' \in Seq(Keys) /\ Len(closedKeys') <= ClosedCap
    BY <1>1, ClientsAssumption
  <2> QED
    BY <1>1, <1>2, <2>1 DEF TypeOK, Ids
<1> QED
  BY <1>3, <1>4, <1>5, <1>6, <1>7 DEF IInv

(* closeExpiredClients lists the idle clients.                             *)
LEMMA ExpireStep ==
  ASSUME IInv, CloseExpiredClients
  PROVE  IInv'
<1>1. /\ TypeOK /\ reader = At("idle")
      /\ UNCHANGED <<unrecorded, recorded, highest, linked, breaks, clients, lastSeq, opened, keyOf,
                     pump, disconnect, outgoing, closedKeys, lateCloses, events, app, got,
                     unreported, forgotten>>
  BY DEF CloseExpiredClients, log, tracker, pumps, transport, IInv
<1>2. PICK expired \in SUBSET {k \in Keys : clients[k] # None} :
        \E order \in SetToSeqs(expired) : reader' = [At("expiring") EXCEPT !.todo = order]
  BY DEF CloseExpiredClients
<1>3. PICK order \in SetToSeqs(expired) : reader' = [At("expiring") EXCEPT !.todo = order]
  BY <1>2
<1>4. Cardinality(expired) \in Nat
  <2> DEFINE f == [k \in expired |-> clients[k]]
  <2>1. clients \in [Keys -> {None} \cup Ids]
    BY <1>1 DEF TypeOK
  <2>2. f \in [expired -> Ids]
    BY <1>2, <2>1
  <2>3. \A i, j \in expired : f[i] = f[j] => i = j
    BY <1>2 DEF IInv, ClientsKnown
  <2>4. f \in Injection(expired, Ids)
    BY <2>2, <2>3 DEF Injection, IsInjective
  <2>5. IsFiniteSet(Ids)
    <3>1. opened \in Int
      BY <1>1 DEF TypeOK
    <3> QED
      BY <3>1, FS_Interval DEF Ids
  <2> HIDE DEF f
  <2>6. IsFiniteSet(expired)
    BY <2>4, <2>5, FS_Injection
  <2> QED
    BY <2>6, FS_CardinalityType
<1>5. order \in Seq(Keys)
  <2>1. order \in [1 .. Cardinality(expired) -> expired]
    BY <1>3 DEF SetToSeqs
  <2>2. order \in [1 .. Cardinality(expired) -> Keys]
    BY <1>2, <2>1
  <2> QED
    BY <1>4, <2>2
<1>6. /\ reader.at = "idle" /\ reader.todo = <<>>
      /\ reader'.at = "expiring"
      /\ reader' \in [at : {"off", "top", "idle", "handle", "greet", "draining", "expiring"},
                      todo : Seq(Keys)]
  BY <1>1, <1>3, <1>5 DEF At
<1>7. Fewer /\ ClientsKnown' /\ EventsOrdered' /\ EventsAhead' /\ LastSeqCovers' /\ OrphansReported'
  BY <1>1, TrackerKept
<1>8. CursorExact'
  BY <1>1, <1>6, <1>7, CursorStays
<1>9. DeadPumpNoticed'
  <2>1. \A j \in Keys : Noticed(j) => Noticed(j)'
    BY <1>1, <1>6 DEF Noticed, Range
  <2> QED
    BY <1>1, <1>7, <2>1, NoticedStays DEF Fewer
<1>10. TypeOK' /\ ReaderKnown'
  BY <1>1, <1>6 DEF TypeOK, Ids, IInv, ReaderKnown
<1> QED
  BY <1>7, <1>8, <1>9, <1>10 DEF IInv

-------------------------------------------------------------------------------
(* A connection is opened.                                                 *)

(* A sequence of known length, one element longer.                         *)
LEMMA OneMore ==
  ASSUME NEW S, NEW n \in Nat, NEW f \in [1 .. n -> S], NEW x \in S
  PROVE  /\ Append(f, x) \in [1 .. n + 1 -> S] /\ Append(f, x)[n + 1] = x
         /\ \A i \in 1 .. n : Append(f, x)[i] = f[i]
<1>1. f \in Seq(S) /\ Len(f) = n
  OBVIOUS
<1> DEFINE g == Append(f, x)
<1>2. /\ g \in Seq(S) /\ Len(g) = n + 1 /\ g[n + 1] = x
      /\ \A i \in 1 .. n : g[i] = f[i]
  BY <1>1
<1> HIDE DEF g
<1>3. g \in [1 .. n + 1 -> S]
  BY <1>2
<1> QED
  BY <1>2, <1>3 DEF g

(* A new client: its connection, its pump and its Opened event.            *)
LEMMA OpenStep ==
  ASSUME IInv, OpenConnection
  PROVE  IInv'
<1> DEFINE k == Env.key
           n == opened
<1>1. /\ TypeOK /\ reader.at = "handle" /\ Env.kind = "initialize" /\ Env \in Envelope
      /\ clients[k] = None /\ n < MaxConnections /\ HasRoom /\ Emit("opened", n + 1, 0)
      /\ opened' = n + 1 /\ keyOf' = Append(keyOf, k)
      /\ clients' = [clients EXCEPT ![k] = n + 1] /\ lastSeq' = [lastSeq EXCEPT ![k] = 0]
      /\ pump' = Append(pump, "running") /\ outgoing' = Append(outgoing, 0)
      /\ app' = Append(app, "closed") /\ got' = Append(got, 0)
      /\ reader' = [reader EXCEPT !.at = "greet"] /\ reader.todo = <<>>
      /\ UNCHANGED <<unrecorded, recorded, highest, linked, breaks, disconnect, closedKeys,
                     lateCloses, unreported, forgotten>>
  BY DEF OpenConnection, Handling, log, history, IInv, ReaderKnown
<1>2. k \in Keys
  BY <1>1, EnvelopeFields
<1>3. n \in Nat /\ n + 1 \in 0 .. MaxConnections
  <2>1. n \in 0 .. MaxConnections
    BY <1>1 DEF TypeOK
  <2> QED
    BY <1>1, <2>1, ClientsAssumption, SMTT(30)
<1>4. Ids = 1 .. n /\ Ids' = 1 .. n + 1
  BY <1>1 DEF Ids
<1>5. Ids \subseteq Ids' /\ n + 1 \in Ids' /\ n + 1 \notin Ids /\ n + 1 # None
      /\ \A x \in Ids' : x \in Ids \/ x = n + 1
  BY <1>3, <1>4 DEF None
<1>6. /\ keyOf' \in [Ids' -> Keys] /\ keyOf'[n + 1] = k /\ \A x \in Ids : keyOf'[x] = keyOf[x]
      /\ pump' \in [Ids' -> {"running", "ended"}] /\ pump'[n + 1] = "running"
      /\ \A x \in Ids : pump'[x] = pump[x]
      /\ outgoing' \in [Ids' -> 0 .. WriterCap]
      /\ app' \in [Ids' -> {"open", "closed"}] /\ \A x \in Ids : app'[x] = app[x]
      /\ got' \in [Ids' -> 0 .. MaxSeq] /\ got'[n + 1] = 0 /\ \A x \in Ids : got'[x] = got[x]
  <2>1. /\ keyOf \in [1 .. n -> Keys] /\ pump \in [1 .. n -> {"running", "ended"}]
        /\ outgoing \in [1 .. n -> 0 .. WriterCap] /\ app \in [1 .. n -> {"open", "closed"}]
        /\ got \in [1 .. n -> 0 .. MaxSeq]
    BY <1>1, <1>4 DEF TypeOK
  <2>2. /\ 0 \in 0 .. WriterCap /\ 0 \in 0 .. MaxSeq
        /\ "running" \in {"running", "ended"} /\ "closed" \in {"open", "closed"}
    BY ClientsAssumption
  <2>3. keyOf' \in [1 .. n + 1 -> Keys]
    BY ONLY <1>1, <1>2, <1>3, <2>1, <2>2, OneMore
  <2>4. keyOf'[n + 1] = k
    BY ONLY <1>1, <1>2, <1>3, <2>1, <2>2, OneMore
  <2>5. \A x \in 1 .. n : keyOf'[x] = keyOf[x]
    BY ONLY <1>1, <1>2, <1>3, <2>1, <2>2, OneMore
  <2>6. pump' \in [1 .. n + 1 -> {"running", "ended"}]
    BY ONLY <1>1, <1>3, <2>1, <2>2, OneMore
  <2>7. pump'[n + 1] = "running"
    BY ONLY <1>1, <1>3, <2>1, <2>2, OneMore
  <2>8. \A x \in 1 .. n : pump'[x] = pump[x]
    BY ONLY <1>1, <1>3, <2>1, <2>2, OneMore
  <2>9. outgoing' \in [1 .. n + 1 -> 0 .. WriterCap]
    BY ONLY <1>1, <1>3, <2>1, <2>2, OneMore
  <2>10. app' \in [1 .. n + 1 -> {"open", "closed"}]
    BY ONLY <1>1, <1>3, <2>1, <2>2, OneMore
  <2>11. \A x \in 1 .. n : app'[x] = app[x]
    BY ONLY <1>1, <1>3, <2>1, <2>2, OneMore
  <2>12. got' \in [1 .. n + 1 -> 0 .. MaxSeq]
    BY ONLY <1>1, <1>3, <2>1, <2>2, OneMore
  <2>13. got'[n + 1] = 0
    BY ONLY <1>1, <1>3, <2>1, <2>2, OneMore
  <2>14. \A x \in 1 .. n : got'[x] = got[x]
    BY ONLY <1>1, <1>3, <2>1, <2>2, OneMore
  <2> QED
    BY <1>4, <2>3, <2>4, <2>5, <2>6, <2>7, <2>8, <2>9, <2>10, <2>11, <2>12, <2>13, <2>14
<1>7. /\ clients' \in [Keys -> {None} \cup Ids'] /\ clients'[k] = n + 1
      /\ lastSeq' \in [Keys -> 0 .. MaxSeq] /\ lastSeq'[k] = 0
      /\ \A j \in Keys \ {k} : clients'[j] = clients[j] /\ lastSeq'[j] = lastSeq[j]
      /\ clients \in [Keys -> {None} \cup Ids]
  <2>1. clients \in [Keys -> {None} \cup Ids] /\ lastSeq \in [Keys -> 0 .. MaxSeq]
    BY <1>1 DEF TypeOK
  <2>2. clients \in [Keys -> {None} \cup Ids'] /\ 0 \in 0 .. MaxSeq
    BY <1>5, <2>1, ClientsAssumption
  <2>3. clients' \in [Keys -> {None} \cup Ids'] /\ clients'[k] = n + 1
        /\ \A j \in Keys \ {k} : clients'[j] = clients[j]
    BY <1>1, <1>2, <1>5, <2>2
  <2>4. lastSeq' \in [Keys -> 0 .. MaxSeq] /\ lastSeq'[k] = 0
        /\ \A j \in Keys \ {k} : lastSeq'[j] = lastSeq[j]
    BY <1>1, <1>2, <2>1, <2>2
  <2> QED
    BY <2>1, <2>3, <2>4
<1>8. /\ reader'.at = "greet" /\ reader'.todo = <<>>
      /\ reader' \in [at : {"off", "top", "idle", "handle", "greet", "draining", "expiring"},
                      todo : Seq(Keys)]
  BY <1>1 DEF TypeOK
<1>9. /\ events' \in Seq([type : {"opened", "incoming", "closed"}, id : Ids', seq : 0 .. MaxSeq])
      /\ Len(events') <= EventCap
  <2>1. 0 \in 0 .. MaxSeq
    BY ClientsAssumption
  <2> QED
    BY <1>1, <1>5, <2>1, EventTyped
<1>10. TypeOK'
  <2>1. disconnect' \cup lateCloses' \cup unreported' \subseteq Ids'
    BY <1>1, <1>5 DEF TypeOK
  <2>2. opened' \in 0 .. MaxConnections
    BY <1>1, <1>3
  <2> QED
    BY <1>1, <1>6, <1>7, <1>8, <1>9, <2>1, <2>2 DEF TypeOK
<1>11. ReaderKnown'
  BY <1>1, <1>5, <1>7, <1>8 DEF IInv, ReaderKnown, Env
<1>12. ClientsKnown'
  <2> SUFFICES ASSUME NEW j \in Keys, clients'[j] # None
               PROVE  keyOf'[clients'[j]] = j
    BY DEF ClientsKnown
  <2>1. CASE j = k
    BY <1>6, <1>7, <2>1
  <2>2. CASE j # k
    <3>1. clients'[j] = clients[j] /\ clients[j] \in Ids
      BY <1>7, <2>2
    <3> QED
      BY <1>6, <3>1 DEF IInv, ClientsKnown
  <2> QED
    BY <2>1, <2>2
<1>13. EventsOrdered' /\ EventsAhead' /\ LastSeqCovers'
  <2> DEFINE e == [type |-> "opened", id |-> n + 1, seq |-> 0]
  <2>1. events' = Append(events, e)
    BY <1>1 DEF Emit
  <2>2. e.type = "opened" /\ e.id = n + 1
    OBVIOUS
  <2> HIDE DEF e
  <2>3. /\ Len(events) \in Nat /\ DOMAIN events = 1 .. Len(events)
        /\ DOMAIN events' = 1 .. Len(events) + 1
        /\ events'[Len(events) + 1] = e
        /\ \A i \in 1 .. Len(events) : events'[i] = events[i]
    BY <1>1, <2>1, EventAppended
  <2>4. \A i \in DOMAIN events' :
          \/ i \in DOMAIN events /\ events'[i] = events[i]
          \/ i = Len(events) + 1 /\ events'[i] = e
    BY <2>3
  <2>5. \A i \in DOMAIN events : events[i].id \in Ids /\ events[i].id # n + 1
    BY <1>1, <1>5, EventFields
  <2>6. EventsOrdered'
    <3>1. \A i, j \in DOMAIN events' : i < j => i \in DOMAIN events /\ events'[i] = events[i]
      BY <2>3
    <3> QED
      BY <2>2, <2>4, <2>5, <3>1 DEF IInv, EventsOrdered
  <2>7. EventsAhead'
    <3> SUFFICES ASSUME NEW i \in DOMAIN events', events'[i].type = "incoming"
                 PROVE  events'[i].seq > got'[events'[i].id]
      BY DEF EventsAhead
    <3>1. i \in DOMAIN events /\ events'[i] = events[i]
      BY <2>2, <2>4
    <3>2. events[i].id \in Ids
      BY <2>5, <3>1
    <3>3. got'[events[i].id] = got[events[i].id]
      BY <1>6, <3>2
    <3> QED
      BY <3>1, <3>3 DEF IInv, EventsAhead
  <2>8. LastSeqCovers'
    <3> SUFFICES ASSUME NEW j \in Keys, clients'[j] # None
                 PROVE  /\ got'[clients'[j]] <= lastSeq'[j]
                        /\ \A i \in DOMAIN events' :
                             events'[i].type = "incoming" /\ events'[i].id = clients'[j] =>
                               events'[i].seq <= lastSeq'[j]
      BY DEF LastSeqCovers
    <3>1. CASE j = k
      <4>1. got'[clients'[j]] = 0 /\ lastSeq'[j] = 0 /\ clients'[j] = n + 1
        BY <1>6, <1>7, <3>1
      <4> QED
        BY <2>2, <2>4, <2>5, <4>1
    <3>2. CASE j # k
      <4>1. clients'[j] = clients[j] /\ clients[j] \in Ids /\ clients[j] # None
            /\ lastSeq'[j] = lastSeq[j]
        BY <1>7, <3>2
      <4>2. got'[clients'[j]] = got[clients[j]]
        BY <1>6, <4>1
      <4> QED
        BY <2>2, <2>4, <4>1, <4>2 DEF IInv, LastSeqCovers
    <3> QED
      BY <3>1, <3>2
  <2> QED
    BY <2>6, <2>7, <2>8
<1>14. CursorExact'
  <2> SUFFICES ASSUME NEW j \in Keys, clients'[j] # None
               PROVE  IF k = j THEN lastSeq'[j] = 0 ELSE lastSeq'[j] = highest[j]
    BY <1>1, <1>8 DEF CursorExact, Env
  <2>1. CASE j # k
    <3>1. clients[j] # None /\ lastSeq'[j] = lastSeq[j]
      BY <1>7, <2>1
    <3> QED
      BY <1>1, <2>1, <3>1 DEF IInv, CursorExact
  <2> QED
    BY <1>7, <2>1
<1>15. \A x \in Ids : Tracked(x)' => Tracked(x)
  <2> SUFFICES ASSUME NEW x \in Ids, Tracked(x)' PROVE Tracked(x)
    OBVIOUS
  <2>1. keyOf'[x] = keyOf[x] /\ clients'[keyOf[x]] = x /\ x # n + 1
    BY <1>5, <1>6 DEF Tracked
  <2>2. keyOf[x] \in Keys
    BY <1>1 DEF TypeOK
  <2> QED
    BY <1>7, <2>1, <2>2 DEF Tracked
<1>16. \A x \in Ids : Tracked(x) => Tracked(x)'
  <2> SUFFICES ASSUME NEW x \in Ids, Tracked(x) PROVE Tracked(x)'
    OBVIOUS
  <2>1. keyOf'[x] = keyOf[x] /\ clients[keyOf[x]] = x /\ x # None /\ keyOf[x] \in Keys
    BY <1>1, <1>6 DEF Tracked, TypeOK, Ids, None
  <2> QED
    BY <1>1, <1>7, <2>1 DEF Tracked
<1>17. \A x \in Ids' : x = n + 1 => Tracked(x)'
  BY <1>6, <1>7 DEF Tracked
<1>18. OrphansReported'
  <2>1. \A t, x : Pending(t, x)' <=> Pending(t, x) \/ (t = "opened" /\ x = n + 1)
    BY <1>1, PendingAppended
  <2>2. \A x \in Ids : Reported(x) => Reported(x)'
    BY <1>1, ReportsStand
  <2> SUFFICES ASSUME NEW x \in Ids', app'[x] = "open" \/ Pending("opened", x)', ~Tracked(x)'
               PROVE  Reported(x)'
    BY DEF OrphansReported, Reported
  <2>3. x \in Ids
    BY <1>5, <1>17
  <2>4. app[x] = "open" \/ Pending("opened", x)
    BY <1>5, <1>6, <2>1, <2>3
  <2>5. ~Tracked(x)
    BY <1>16, <2>3
  <2> QED
    BY <2>2, <2>3, <2>4, <2>5 DEF IInv, OrphansReported, Reported
<1>19. DeadPumpNoticed'
  <2>1. \A j \in Keys : Noticed(j) => Noticed(j)'
    BY <1>1, <1>8 DEF Noticed, Range
  <2> SUFFICES ASSUME NEW x \in Ids', pump'[x] = "ended", Tracked(x)'
               PROVE  Noticed(keyOf[x])' /\ keyOf'[x] = keyOf[x]
    BY DEF DeadPumpNoticed, Noticed
  <2>2. x \in Ids /\ pump[x] = "ended" /\ keyOf'[x] = keyOf[x] /\ keyOf[x] \in Keys
    BY <1>1, <1>5, <1>6 DEF TypeOK
  <2>3. Noticed(keyOf[x])
    BY <1>15, <2>2 DEF IInv, DeadPumpNoticed, Noticed
  <2> QED
    BY <2>1, <2>2, <2>3
<1> QED
  BY <1>10, <1>11, <1>12, <1>13, <1>14, <1>18, <1>19 DEF IInv

-------------------------------------------------------------------------------
(* The goroutine of a failed initialize, the pumps and the transport.      *)

(* The goroutine of a failed initialize.                                   *)
LEMMA LateCloseStep ==
  ASSUME IInv, NEW id \in Ids, LateClose(id)
  PROVE  IInv'
<1>1. /\ TypeOK /\ lateCloses' = lateCloses \ {id} /\ Ids' = Ids
      /\ \/ HasRoom /\ Emit("closed", id, 0) /\ unreported' = unreported
         \/ unreported' = unreported \cup {id} /\ events' = events
      /\ UNCHANGED <<unrecorded, recorded, highest, reader, linked, breaks, clients, lastSeq, opened,
                     keyOf, pump, disconnect, outgoing, closedKeys, app, got, forgotten>>
  BY DEF LateClose, log, tracker, pumps, transport, IInv, Ids
<1>2. Fewer /\ NoneNew
  BY <1>1 DEF Fewer, NoneNew
<1>3. ClientsKnown' /\ EventsOrdered' /\ EventsAhead' /\ LastSeqCovers'
  BY <1>1, <1>2, FewerClients
<1>4. /\ events' \in Seq([type : {"opened", "incoming", "closed"}, id : Ids, seq : 0 .. MaxSeq])
      /\ Len(events') <= EventCap
  <2>1. CASE events' = events
    BY <1>1, <2>1 DEF TypeOK
  <2>2. CASE HasRoom /\ Emit("closed", id, 0)
    <3>1. id \in Ids' /\ Ids \subseteq Ids' /\ 0 \in 0 .. MaxSeq
      BY <1>1, ClientsAssumption
    <3>2. events' \in Seq([type : {"opened", "incoming", "closed"}, id : Ids', seq : 0 .. MaxSeq])
          /\ Len(events') <= EventCap
      BY <1>1, <2>2, <3>1, EventTyped
    <3> QED
      BY <1>1, <3>2
  <2> QED
    BY <1>1, <2>1, <2>2
<1>5. TypeOK'
  <2>1. disconnect' \cup lateCloses' \cup unreported' \subseteq Ids
    BY <1>1 DEF TypeOK
  <2> QED
    BY <1>1, <1>4, <2>1 DEF TypeOK
<1>6. ReaderKnown' /\ CursorExact'
  BY <1>1 DEF IInv, ReaderKnown, CursorExact, Env
<1>7. DeadPumpNoticed'
  <2>1. \A j \in Keys : Noticed(j) => Noticed(j)'
    BY <1>1 DEF Noticed, Range
  <2> QED
    BY <1>1, <1>2, <2>1, NoticedStays
<1>8. OrphansReported'
  <2>1. CASE events' = events /\ unreported' = unreported \cup {id}
    <3>1. \A t, x : Pending(t, x)' = Pending(t, x)
      BY <2>1 DEF Pending
    <3>2. \A x \in Ids : Reported(x) => Reported(x)'
      BY <1>1, <2>1, <3>1 DEF Reported
    <3>3. \A x \in Ids : Tracked(x) => clients'[keyOf[x]] # None
      BY <1>1 DEF Tracked, Ids, None, TypeOK
    <3> QED
      BY <1>1, <1>2, <3>1, <3>2, <3>3, OrphansStay
  <2>2. CASE Emit("closed", id, 0) /\ unreported' = unreported
    <3>1. \A t, x : Pending(t, x)' <=> Pending(t, x) \/ (t = "closed" /\ x = id)
      BY <1>1, <2>2, PendingAppended
    <3>2. \A x \in Ids : Reported(x) => Reported(x)'
      BY <1>1, <2>2, <3>1 DEF Reported
    <3>3. \A x \in Ids : Tracked(x) => clients'[keyOf[x]] # None
      BY <1>1 DEF Tracked, Ids, None, TypeOK
    <3>4. \A x \in Ids : Pending("opened", x)' => Pending("opened", x)
      BY <3>1
    <3> QED
      BY <1>1, <1>2, <3>2, <3>3, <3>4, OrphansStay
  <2> QED
    BY <1>1, <2>1, <2>2
<1> QED
  BY <1>3, <1>5, <1>6, <1>7, <1>8 DEF IInv

(* What a sequence with one element more ranges over.                      *)
LEMMA RangeAppend ==
  ASSUME NEW S, NEW q \in Seq(S), NEW x \in S
  PROVE  /\ Append(q, x) \in Seq(S) /\ Len(Append(q, x)) = Len(q) + 1
         /\ Range(q) \cup {x} \subseteq Range(Append(q, x))
<1> DEFINE g == Append(q, x)
<1>1. /\ g \in Seq(S) /\ Len(g) = Len(q) + 1 /\ Len(q) \in Nat
      /\ DOMAIN q = 1 .. Len(q) /\ DOMAIN g = 1 .. Len(q) + 1
      /\ g[Len(q) + 1] = x
      /\ \A i \in 1 .. Len(q) : g[i] = q[i]
  OBVIOUS
<1> HIDE DEF g
<1>2. x \in Range(g)
  <2>1. Len(q) + 1 \in DOMAIN g
    BY <1>1
  <2> QED
    BY <1>1, <2>1 DEF Range
<1>3. Range(q) \subseteq Range(g)
  <2>1. \A i \in DOMAIN q : i \in DOMAIN g /\ g[i] = q[i]
    BY <1>1
  <2> QED
    BY <2>1 DEF Range
<1> QED
  BY <1>1, <1>2, <1>3 DEF g

(* runClientOutbound.                                                      *)
LEMMA PumpStep ==
  ASSUME IInv, NEW id \in Ids, Pump(id)
  PROVE  IInv'
<1>1. /\ TypeOK /\ Ids' = Ids
      /\ UNCHANGED <<unrecorded, recorded, highest, reader, linked, breaks, clients, lastSeq, opened,
                     keyOf, disconnect, lateCloses, events, app, got, unreported>>
      /\ \/ outgoing' = outgoing
         \/ outgoing[id] > 0 /\ outgoing' = [outgoing EXCEPT ![id] = outgoing[id] - 1]
      /\ UNCHANGED <<pump, closedKeys, forgotten>> \/ EndPump(id)
  BY DEF Pump, PumpDisconnected, PumpMessage, log, tracker, transport, IInv, Ids
<1>2. /\ pump \in [Ids -> {"running", "ended"}] /\ outgoing \in [Ids -> 0 .. WriterCap]
      /\ closedKeys \in Seq(Keys) /\ Len(closedKeys) <= ClosedCap /\ forgotten \subseteq Keys
      /\ keyOf[id] \in Keys
  BY <1>1 DEF TypeOK
<1>3. outgoing' \in [Ids -> 0 .. WriterCap]
  <2>1. CASE outgoing[id] > 0 /\ outgoing' = [outgoing EXCEPT ![id] = outgoing[id] - 1]
    <3>1. outgoing[id] \in 0 .. WriterCap
      BY <1>2
    <3>2. outgoing[id] - 1 \in 0 .. WriterCap
      BY <2>1, <3>1, ClientsAssumption
    <3> QED
      BY <1>2, <2>1, <3>2
  <2> QED
    BY <1>1, <1>2, <2>1
<1>4. /\ pump' \in [Ids -> {"running", "ended"}]
      /\ \A x \in Ids : pump'[x] = "ended" => pump[x] = "ended" \/ x = id
  <2>1. CASE pump' = [pump EXCEPT ![id] = "ended"]
    BY <1>2, <2>1
  <2> QED
    BY <1>1, <1>2, <2>1 DEF EndPump
<1>5. /\ closedKeys' \in Seq(Keys) /\ Len(closedKeys') <= ClosedCap /\ forgotten' \subseteq Keys
      /\ Range(closedKeys) \cup forgotten \subseteq Range(closedKeys') \cup forgotten'
      /\ pump' = pump \/ keyOf[id] \in Range(closedKeys') \cup forgotten'
  <2>1. CASE UNCHANGED <<pump, closedKeys, forgotten>>
    BY <1>2, <2>1
  <2>2. CASE Len(closedKeys) < ClosedCap /\ closedKeys' = Append(closedKeys, keyOf[id])
             /\ forgotten' = forgotten
    <3>1. /\ closedKeys' \in Seq(Keys) /\ Len(closedKeys') = Len(closedKeys) + 1
          /\ Range(closedKeys) \cup {keyOf[id]} \subseteq Range(closedKeys')
      BY <1>2, <2>2, RangeAppend
    <3>2. Len(closedKeys') <= ClosedCap
      <4>1. Len(closedKeys) \in Nat
        BY <1>2
      <4> QED
        BY <2>2, <3>1, <4>1, ClientsAssumption
    <3> QED
      BY <1>2, <2>2, <3>1, <3>2
  <2>3. CASE forgotten' = forgotten \cup {keyOf[id]} /\ closedKeys' = closedKeys
    BY <1>2, <2>3
  <2> QED
    BY <1>1, <2>1, <2>2, <2>3 DEF EndPump
<1>6. Fewer /\ ClientsKnown' /\ EventsOrdered' /\ EventsAhead' /\ LastSeqCovers' /\ OrphansReported'
  BY <1>1, TrackerKept
<1>7. TypeOK'
  BY <1>1, <1>3, <1>4, <1>5 DEF TypeOK
<1>8. ReaderKnown' /\ CursorExact'
  BY <1>1 DEF IInv, ReaderKnown, CursorExact, Env
<1>9. DeadPumpNoticed'
  <2>1. Range(closedKeys)' = Range(closedKeys') /\ Range(reader.todo)' = Range(reader.todo)
    BY <1>1 DEF Range
  <2>2. \A j \in Keys : Noticed(j) => Noticed(j)'
    BY <1>5, <2>1 DEF Noticed
  <2>3. \A x \in Ids : pump'[x] = "ended" =>
          pump[x] = "ended" \/ \A j \in Keys : j = keyOf[x] => Noticed(j)'
    BY <1>4, <1>5, <2>1 DEF Noticed
  <2> QED
    BY <1>1, <1>6, <2>2, <2>3, NoticedStays DEF Fewer
<1> QED
  BY <1>6, <1>7, <1>8, <1>9 DEF IInv

(* sendValueToConnection.                                                  *)
LEMMA SendStep ==
  ASSUME IInv, NEW id \in Ids, SendValue(id)
  PROVE  IInv'
<1>1. /\ TypeOK /\ Ids' = Ids
      /\ UNCHANGED <<unrecorded, recorded, highest, reader, linked, breaks, clients, lastSeq, opened,
                     keyOf, pump, closedKeys, lateCloses, events, got, unreported, forgotten>>
      /\ \/ /\ outgoing[id] < WriterCap /\ outgoing' = [outgoing EXCEPT ![id] = outgoing[id] + 1]
            /\ UNCHANGED <<disconnect, app>>
         \/ /\ disconnect' = disconnect \cup {id} /\ app' = [app EXCEPT ![id] = "closed"]
            /\ outgoing' = outgoing
  BY DEF SendValue, log, tracker, IInv, Ids
<1>2. app \in [Ids -> {"open", "closed"}] /\ outgoing \in [Ids -> 0 .. WriterCap]
  BY <1>1 DEF TypeOK
<1>3. outgoing' \in [Ids -> 0 .. WriterCap]
  <2>1. CASE outgoing[id] < WriterCap /\ outgoing' = [outgoing EXCEPT ![id] = outgoing[id] + 1]
    <3>1. outgoing[id] \in 0 .. WriterCap
      BY <1>2
    <3>2. outgoing[id] + 1 \in 0 .. WriterCap
      BY <2>1, <3>1, ClientsAssumption
    <3> QED
      BY <1>2, <2>1, <3>2
  <2> QED
    BY <1>1, <1>2, <2>1
<1>4. /\ app' \in [Ids -> {"open", "closed"}]
      /\ \A x \in Ids : app'[x] = "open" => app[x] = "open"
  BY <1>1, <1>2
<1>5. TypeOK'
  <2>1. disconnect' \cup lateCloses' \cup unreported' \subseteq Ids
    BY <1>1 DEF TypeOK
  <2> QED
    BY <1>1, <1>3, <1>4, <2>1 DEF TypeOK
<1>6. Fewer /\ ClientsKnown' /\ EventsOrdered' /\ EventsAhead' /\ LastSeqCovers' /\ OrphansReported'
  BY <1>1, <1>4, TrackerKept
<1>7. ReaderKnown' /\ CursorExact'
  BY <1>1 DEF IInv, ReaderKnown, CursorExact, Env
<1>8. DeadPumpNoticed'
  <2>1. \A j \in Keys : Noticed(j) => Noticed(j)'
    BY <1>1 DEF Noticed, Range
  <2> QED
    BY <1>1, <1>6, <2>1, NoticedStays DEF Fewer
<1> QED
  BY <1>5, <1>6, <1>7, <1>8 DEF IInv

(* What the transport does with the first event.                           *)
LEMMA EventHandled ==
  ASSUME IInv, HandleEvent
  PROVE  /\ TypeOK /\ Ids' = Ids /\ events # <<>> /\ Head(events) = events[1]
         /\ UNCHANGED <<unrecorded, recorded, highest, reader, linked, breaks, clients, lastSeq,
                        opened, keyOf, pump, disconnect, outgoing, closedKeys, lateCloses,
                        unreported, forgotten>>
         /\ events[1].id \in Ids /\ events[1].seq \in 0 .. MaxSeq
         /\ Len(events) \in Nat \ {0} /\ 1 \in DOMAIN events /\ DOMAIN events = 1 .. Len(events)
         /\ events' = Tail(events) /\ Len(events') = Len(events) - 1
         /\ \A i \in DOMAIN events' : events'[i] = events[i + 1] /\ i + 1 \in DOMAIN events /\ 1 < i + 1
         /\ \A x \in Ids : app'[x] =
              IF x = events[1].id /\ events[1].type = "opened" THEN "open"
              ELSE IF x = events[1].id /\ events[1].type = "closed" THEN "closed" ELSE app[x]
         /\ app' \in [Ids -> {"open", "closed"}]
         /\ \/ got' = got
            \/ /\ events[1].type = "incoming"
               /\ got' = [got EXCEPT ![events[1].id] = events[1].seq]
<1>1. /\ TypeOK /\ Ids' = Ids /\ events # <<>> /\ events' = Tail(events)
      /\ UNCHANGED <<unrecorded, recorded, highest, reader, linked, breaks, clients, lastSeq,
                     opened, keyOf, pump, disconnect, outgoing, closedKeys, lateCloses,
                     unreported, forgotten>>
  BY DEF HandleEvent, log, tracker, pumps, history, IInv, Ids
<1>2. /\ Head(events) = events[1] /\ Len(events) \in Nat \ {0} /\ 1 \in DOMAIN events
      /\ DOMAIN events = 1 .. Len(events)
      /\ Len(Tail(events)) = Len(events) - 1 /\ DOMAIN Tail(events) = 1 .. Len(events) - 1
      /\ \A i \in 1 .. Len(events) - 1 : Tail(events)[i] = events[i + 1]
  <2> DEFINE T == [type : {"opened", "incoming", "closed"}, id : Ids, seq : 0 .. MaxSeq]
  <2>1. events \in Seq(T)
    BY <1>1 DEF TypeOK
  <2> HIDE DEF T
  <2> QED
    BY <1>1, <2>1
<1>3. \A i \in DOMAIN events' : events'[i] = events[i + 1] /\ i + 1 \in DOMAIN events /\ 1 < i + 1
  BY <1>1, <1>2
<1>4. events[1].id \in Ids /\ events[1].seq \in 0 .. MaxSeq
  BY <1>1, <1>2, EventFields
<1>5. /\ app' = IF events[1].type = "opened" THEN [app EXCEPT ![events[1].id] = "open"]
                ELSE IF events[1].type = "closed" THEN [app EXCEPT ![events[1].id] = "closed"]
                ELSE app
      /\ \/ got' = got
         \/ /\ events[1].type = "incoming"
            /\ got' = [got EXCEPT ![events[1].id] = events[1].seq]
  BY <1>2 DEF HandleEvent
<1>6. app \in [Ids -> {"open", "closed"}]
  BY <1>1 DEF TypeOK
<1>7. app' \in [Ids -> {"open", "closed"}]
  BY <1>4, <1>5, <1>6
<1>8. \A x \in Ids : app'[x] =
        IF x = events[1].id /\ events[1].type = "opened" THEN "open"
        ELSE IF x = events[1].id /\ events[1].type = "closed" THEN "closed" ELSE app[x]
  BY <1>4, <1>5, <1>6
<1> QED
  BY <1>1, <1>2, <1>3, <1>4, <1>5, <1>7, <1>8

(* The transport takes one event.                                          *)
LEMMA EventStep ==
  ASSUME IInv, HandleEvent
  PROVE  IInv'
<1>1. /\ TypeOK /\ Ids' = Ids
      /\ UNCHANGED <<unrecorded, recorded, highest, reader, linked, breaks, clients, lastSeq,
                     opened, keyOf, pump, disconnect, outgoing, closedKeys, lateCloses,
                     unreported, forgotten>>
      /\ events # <<>> /\ events' = Tail(events)
  BY EventHandled
<1>2. /\ events[1].id \in Ids /\ events[1].seq \in 0 .. MaxSeq
      /\ Len(events) \in Nat \ {0} /\ 1 \in DOMAIN events /\ DOMAIN events = 1 .. Len(events)
      /\ Len(events') = Len(events) - 1
      /\ \A i \in DOMAIN events' : events'[i] = events[i + 1] /\ i + 1 \in DOMAIN events /\ 1 < i + 1
  BY EventHandled
<1>3. /\ \A x \in Ids : app'[x] =
           IF x = events[1].id /\ events[1].type = "opened" THEN "open"
           ELSE IF x = events[1].id /\ events[1].type = "closed" THEN "closed" ELSE app[x]
      /\ app' \in [Ids -> {"open", "closed"}]
  BY EventHandled
<1>4. \/ got' = got
      \/ /\ events[1].type = "incoming"
         /\ got' = [got EXCEPT ![events[1].id] = events[1].seq]
  BY EventHandled
<1>5. got \in [Ids -> 0 .. MaxSeq]
  BY <1>1 DEF TypeOK
<1>6. /\ got' \in [Ids -> 0 .. MaxSeq]
      /\ \A x \in Ids : got'[x] = got[x] \/ (x = events[1].id /\ events[1].type = "incoming"
                                             /\ got'[x] = events[1].seq)
  BY <1>2, <1>4, <1>5
<1>7. /\ events' \in Seq([type : {"opened", "incoming", "closed"}, id : Ids, seq : 0 .. MaxSeq])
      /\ Len(events') <= EventCap
  <2> DEFINE T == [type : {"opened", "incoming", "closed"}, id : Ids, seq : 0 .. MaxSeq]
  <2>1. events \in Seq(T) /\ Len(events) <= EventCap
    BY <1>1 DEF TypeOK
  <2> HIDE DEF T
  <2>2. events' \in Seq(T)
    BY <1>1, <2>1
  <2>3. Len(events') <= EventCap
    BY <1>2, <2>1, ClientsAssumption
  <2> QED
    BY <2>2, <2>3 DEF T
<1>8. TypeOK'
  BY <1>1, <1>3, <1>6, <1>7 DEF TypeOK
<1>9. ReaderKnown' /\ ClientsKnown' /\ CursorExact'
  BY <1>1 DEF IInv, ReaderKnown, ClientsKnown, CursorExact, Env
<1>10. EventsOrdered'
  <2> SUFFICES ASSUME NEW i \in DOMAIN events', NEW j \in DOMAIN events', i < j,
                      events'[i].id = events'[j].id
               PROVE  /\ events'[j].type # "opened"
                      /\ events'[i].type = "incoming" /\ events'[j].type = "incoming" =>
                           events'[i].seq < events'[j].seq
    BY DEF EventsOrdered
  <2>1. /\ events'[i] = events[i + 1] /\ events'[j] = events[j + 1]
        /\ i + 1 \in DOMAIN events /\ j + 1 \in DOMAIN events
    BY <1>2
  <2>2. i + 1 < j + 1
    BY <1>2, <2>1
  <2> QED
    BY <2>1, <2>2 DEF IInv, EventsOrdered
<1>11. EventsAhead'
  <2> SUFFICES ASSUME NEW i \in DOMAIN events', events'[i].type = "incoming"
               PROVE  events'[i].seq > got'[events'[i].id]
    BY DEF EventsAhead
  <2>1. /\ events'[i] = events[i + 1] /\ i + 1 \in DOMAIN events /\ 1 < i + 1
        /\ events[i + 1].type = "incoming"
    BY <1>2
  <2>2. events[i + 1].seq > got[events[i + 1].id]
    BY <2>1 DEF IInv, EventsAhead
  <2>3. events[i + 1].id \in Ids /\ events[i + 1].seq \in Nat /\ events[1].seq \in Nat
    BY <1>1, <1>2, <2>1, EventFields
  <2>4. CASE got'[events[i + 1].id] = got[events[i + 1].id]
    BY <2>1, <2>2, <2>4
  <2>5. CASE events[i + 1].id = events[1].id /\ events[1].type = "incoming"
             /\ got'[events[i + 1].id] = events[1].seq
    <3>1. events[1].seq < events[i + 1].seq
      BY <1>2, <2>1, <2>5 DEF IInv, EventsOrdered
    <3> QED
      BY <2>1, <2>3, <2>5, <3>1
  <2> QED
    BY <1>6, <2>3, <2>4, <2>5
<1>12. LastSeqCovers'
  <2> SUFFICES ASSUME NEW k \in Keys, clients[k] # None
               PROVE  /\ got'[clients[k]] <= lastSeq[k]
                      /\ \A i \in DOMAIN events' :
                           events'[i].type = "incoming" /\ events'[i].id = clients[k] =>
                             events'[i].seq <= lastSeq[k]
    BY <1>1 DEF LastSeqCovers
  <2>1. clients[k] \in Ids
    BY <1>1 DEF TypeOK
  <2>2. /\ got[clients[k]] <= lastSeq[k]
        /\ \A i \in DOMAIN events :
             events[i].type = "incoming" /\ events[i].id = clients[k] => events[i].seq <= lastSeq[k]
    BY DEF IInv, LastSeqCovers
  <2>3. got'[clients[k]] <= lastSeq[k]
    BY <1>2, <1>6, <2>1, <2>2
  <2> QED
    BY <1>2, <2>2, <2>3
<1>13. OrphansReported'
  <2>1. \A t, x : Pending(t, x)' => Pending(t, x)
    BY <1>2 DEF Pending
  <2>2. \A t, x : Pending(t, x) => Pending(t, x)' \/ (events[1].type = t /\ events[1].id = x)
    <3> SUFFICES ASSUME NEW t, NEW x, NEW i \in DOMAIN events, events[i].type = t,
                        events[i].id = x, i # 1
                 PROVE  \E j \in DOMAIN events' : events'[j].type = t /\ events'[j].id = x
      BY DEF Pending
    <3>1. i - 1 \in DOMAIN events'
      <4> DEFINE T == [type : {"opened", "incoming", "closed"}, id : Ids, seq : 0 .. MaxSeq]
      <4>1. events' \in Seq(T)
        BY <1>7
      <4> HIDE DEF T
      <4>2. DOMAIN events' = 1 .. Len(events')
        BY <4>1
      <4> QED
        BY <1>2, <4>2
    <3>2. events'[i - 1] = events[(i - 1) + 1] /\ (i - 1) + 1 = i
      BY <1>2, <3>1
    <3> QED
      BY <3>1, <3>2
  <2> SUFFICES ASSUME NEW x \in Ids, app'[x] = "open" \/ Pending("opened", x)', ~Tracked(x)'
               PROVE  Reported(x)'
    BY <1>1 DEF OrphansReported, Reported
  <2>3. app[x] = "open" \/ Pending("opened", x)
    <3>1. events[1].type = "opened" /\ events[1].id = x => Pending("opened", x)
      BY <1>2 DEF Pending
    <3> QED
      BY <1>3, <2>1, <3>1
  <2>4. ~Tracked(x)
    BY <1>1 DEF Tracked
  <2>5. Reported(x)
    BY <2>3, <2>4 DEF IInv, OrphansReported, Reported
  <2>6. CASE events[1].type = "closed" /\ events[1].id = x
    <3>1. app'[x] # "open"
      BY <1>3, <2>6
    <3>2. PICK j \in DOMAIN events' : events'[j].type = "opened" /\ events'[j].id = x
      BY <3>1 DEF Pending
    <3>3. j + 1 \in DOMAIN events /\ 1 < j + 1 /\ events[j + 1].type = "opened"
          /\ events[j + 1].id = events[1].id
      BY <1>2, <2>6, <3>2
    <3> QED
      BY <1>2, <3>3 DEF IInv, EventsOrdered
  <2>7. CASE ~(events[1].type = "closed" /\ events[1].id = x)
    BY <1>1, <2>2, <2>5, <2>7 DEF Reported
  <2> QED
    BY <2>6, <2>7
<1>14. DeadPumpNoticed'
  <2>1. \A j \in Keys : Noticed(j) => Noticed(j)'
    BY <1>1 DEF Noticed, Range
  <2>2. NoneNew
    BY <1>1 DEF NoneNew
  <2> QED
    BY <1>1, <2>1, <2>2, NoticedStays
<1> QED
  BY <1>8, <1>9, <1>10, <1>11, <1>12, <1>13, <1>14 DEF IInv

-------------------------------------------------------------------------------

(* Every step keeps the invariant.                                         *)
LEMMA NextIInv ==
  ASSUME IInv, [Next]_vars
  PROVE  IInv'
<1>1. CASE UNCHANGED vars
  <2>1. UNCHANGED <<unrecorded, recorded, reader, linked, breaks, clients, lastSeq, opened, keyOf,
                    pump, disconnect, outgoing, closedKeys, lateCloses, events, app, got, highest,
                    unreported, forgotten>>
    BY <1>1 DEF vars
  <2>2. TypeOK'
    BY <2>1 DEF IInv, TypeOK, Ids
  <2>3. ReaderKnown' /\ CursorExact'
    BY <2>1 DEF IInv, ReaderKnown, CursorExact, Env
  <2>4. Fewer /\ ClientsKnown' /\ EventsOrdered' /\ EventsAhead' /\ LastSeqCovers' /\ OrphansReported'
    BY <2>1, TrackerKept
  <2>5. DeadPumpNoticed'
    <3>1. \A j \in Keys : Noticed(j) => Noticed(j)'
      BY <2>1 DEF Noticed, Range
    <3> QED
      BY <2>1, <2>4, <3>1, NoticedStays DEF Fewer
  <2> QED
    BY <2>2, <2>3, <2>4, <2>5 DEF IInv
<1>2. CASE Reader
  <2>1. CASE Handler
    <3>1. HandleClosed => clients[Env.key] = None \/ clients[Env.key] # None
      OBVIOUS
    <3> QED
      BY <2>1, <3>1, QuietHandlerStep, ForwardStep, ClosingStep, OpenStep DEF Handler
  <2>2. CASE Sweeps
    BY <2>2, DrainStep, ExpireStep, SweepStep DEF Sweeps
  <2> QED
    BY <1>2, <2>1, <2>2, ConnectionStep DEF Reader
<1>3. CASE Break \/ HandleEvent
  BY <1>3, ConnectionStep, EventStep
<1>4. CASE \E id \in Ids : Pump(id) \/ SendValue(id) \/ LateClose(id)
  BY <1>4, PumpStep, SendStep, LateCloseStep
<1> QED
  BY <1>1, <1>2, <1>3, <1>4 DEF Next

(* The inductive invariant of the inbound half of the relay.               *)
LEMMA SpecIInv == Spec => []IInv
<1>1. Init => IInv
  BY InitIInv
<1>2. IInv /\ [Next]_vars => IInv'
  BY NextIInv
<1> QED
  BY <1>1, <1>2, PTL DEF Spec

-------------------------------------------------------------------------------
(* The properties.                                                         *)

(* Every component of the state has its type.                              *)
THEOREM TypeCorrect == Spec => []TypeOK
BY SpecIInv, PTL DEF IInv

(* CloseClient, handleClientMessage and the transport: an app-server       *)
(* connection that is open, or about to be, belongs to the client tracked  *)
(* for its stream, or its Closed event is on its way or was given up.      *)
THEOREM OrphansAreReported == Spec => []OrphansReported
BY SpecIInv, PTL DEF IInv

(* RecordClientMessageDelivery after HandleMessage: the cursor is never    *)
(* past a request of a tracked client that was not forwarded.              *)
THEOREM CursorCovers == Spec => []CursorCoversDelivery
<1>1. IInv => CursorCoversDelivery
  BY DEF IInv, CursorExact, CursorCoversDelivery
<1> QED
  BY <1>1, SpecIInv, PTL

(* runClientOutbound, closedClients and drainClosedClients: the tracker is *)
(* told of the dead pump of a client it tracks.                            *)
THEOREM DeadPumpsAreNoticed == Spec => []DeadPumpNoticed
BY SpecIInv, PTL DEF IInv

(* lastInboundSeqID with the replay from SubscribeCursor: every connection *)
(* of the app server is handed its requests in order and none twice.       *)
THEOREM IsHandedInOrder == Spec => HandedInOrder
<1> DEFINE Grows == \A id \in Ids : got'[id] # got[id] => got'[id] > got[id]
<1>1. ASSUME IInv, [Next]_vars PROVE Grows
  <2>1. CASE HandleEvent
    <3>1. \/ got' = got
          \/ /\ events[1].type = "incoming"
             /\ got' = [got EXCEPT ![events[1].id] = events[1].seq]
      BY <1>1, <2>1, EventHandled
    <3>2. 1 \in DOMAIN events /\ events[1].id \in Ids
      BY <1>1, <2>1, EventHandled
    <3>3. events[1].type = "incoming" => events[1].seq > got[events[1].id]
      BY <1>1, <3>2 DEF IInv, EventsAhead
    <3>4. got \in [Ids -> 0 .. MaxSeq]
      BY <1>1 DEF IInv, TypeOK
    <3> QED
      BY <3>1, <3>2, <3>3, <3>4
  <2>2. CASE OpenConnection
    <3>1. got' = Append(got, 0) /\ opened \in Nat /\ got \in [1 .. opened -> 0 .. MaxSeq]
          /\ 0 \in 0 .. MaxSeq
      BY <1>1, <2>2, ClientsAssumption DEF OpenConnection, IInv, TypeOK, Ids
    <3>2. \A x \in 1 .. opened : got'[x] = got[x]
      BY ONLY <3>1, OneMore
    <3> QED
      BY <3>2 DEF Ids
  <2>3. CASE ~HandleEvent /\ ~OpenConnection
    <3>1. got' = got
      BY <1>1, <2>3 DEF Next, Reader, Handler, Sweeps, Pump, Connect, ReaderStops, Read,
         IgnoreMessage, ForwardMessage, ForwardFails, HandlePing, CloseForInitialize, OpenFails,
         Greet, GreetFails, HandleClosed, DrainClosedClients, CloseExpiredClients, Sweep,
         PumpDisconnected, PumpMessage, SendValue, LateClose, Break, transport, vars
    <3> QED
      BY <3>1
  <2> QED
    BY <2>1, <2>2, <2>3
<1>2. IInv /\ [Next]_vars => [Grows]_vars
  BY <1>1
<1> QED
  BY <1>2, SpecIInv, PTL DEF Spec, HandedInOrder

-------------------------------------------------------------------------------
(* RemoteSession.                                                          *)


(* A connect works for an account that signed in since it loaded the       *)
(* credentials, or was signed in then; what is recovered is such a one.    *)
ConnectSteps == {"prepare", "enroll", "dial", "replace", "store", "swap"}

AuthKnown ==
  loop \in ConnectSteps => auth \in signedIn /\ account \in signedIn \cup {NoAccount}

RecoveredKnown == loop \in {"store", "swap"} => recovered \in signedIn

ConnectedKnown ==
  /\ live # NoAccount => loop \in {"opened", "publish", "live"}
  /\ loop \in {"opened", "publish", "live"} => live \in Accounts

(* A preference is enabled for an account.                                 *)
RequestKnown == \A h \in Handlers : HandlerAt(h, "enable") => request[h].acct \in Accounts

(* The loop's baseline is a revision of the past, and known once it has    *)
(* observed one.                                                           *)
BaselineOld ==
  /\ seen <= revision
  /\ seen = 0 => loop \in {"wait", "observe", "stopped"}

SessionIInv ==
  /\ SessionTypeOK /\ AuthKnown /\ RecoveredKnown
  /\ ConnectedKnown /\ RequestKnown /\ BaselineOld

(* The initial state.                                                      *)
LEMMA SessionInitIInv == SessionInit => SessionIInv
<1> SUFFICES ASSUME SessionInit PROVE SessionIInv
  OBVIOUS
<1> USE SessionAssumption DEF SessionInit
<1>1. request \in [Handlers -> [at : RequestSteps, acct : Owners]]
  BY DEF RequestSteps, Owners
<1>2. SessionTypeOK
  <2>1. account \in Owners /\ noted \in Owners /\ enrollment \in Owners
        /\ auth \in Owners /\ recovered \in Owners /\ live \in Owners
    BY DEF Owners
  <2>2. /\ revision \in Nat \ {0} /\ seen \in Nat /\ changes \in Nat /\ toggles \in Nat
        /\ prefs \subseteq Accounts /\ replay \subseteq Accounts /\ signedIn \subseteq Accounts
    OBVIOUS
  <2>3. status \in Statuses /\ loop \in LoopSteps BY DEF Statuses, LoopSteps
  <2>4. shutdown \in BOOLEAN OBVIOUS
  <2> QED BY <1>1, <2>1, <2>2, <2>3, <2>4 DEF SessionTypeOK
<1>3. AuthKnown /\ RecoveredKnown /\ ConnectedKnown /\ BaselineOld
  BY DEF AuthKnown, RecoveredKnown, ConnectSteps, ConnectedKnown, BaselineOld
<1>4. RequestKnown
  BY DEF RequestKnown, HandlerAt
<1> QED BY <1>2, <1>3, <1>4 DEF SessionIInv

-------------------------------------------------------------------------------
(* The loop.                                                               *)

(* Run until it is connected.                                              *)
LEMMA ConnectingStep ==
  ASSUME SessionIInv, Connecting
  PROVE  SessionIInv'
<1> USE SessionAssumption
    DEF SessionIInv, SessionTypeOK, AuthKnown, RecoveredKnown, ConnectSteps, ConnectedKnown,
        RequestKnown, BaselineOld, Owners, Statuses, LoopSteps, HandlerAt, Goto, Enabled, owner,
        credentials, manager, budget, callers
<1>1. CASE WaitUntilEnabled BY <1>1 DEF WaitUntilEnabled
<1>2. CASE ObserveAuthRevision("observe", "announce") BY <1>2 DEF ObserveAuthRevision
<1>3. CASE Publish("announce", "load", "connecting")
  BY <1>3 DEF Publish, PublishConnectionStatus
<1>4. CASE LoadAuth BY <1>4 DEF LoadAuth
<1>5. CASE PrepareEnrollment BY <1>5 DEF PrepareEnrollment
<1>6. CASE EnrollRecovers \/ Enroll
  BY <1>6 DEF EnrollRecovers, Recover, Enroll, ReplaceCurrentEnrollment
<1>7. CASE Dial BY <1>7 DEF Dial
<1>8. CASE EnrollAgain \/ StoreReplacement \/ SwapEnrollment
  <2>1. CASE EnrollAgain BY <2>1 DEF EnrollAgain, Recover
  <2>2. CASE StoreReplacement BY <2>2 DEF StoreReplacement
  <2>3. CASE SwapEnrollment BY <2>3 DEF SwapEnrollment
  <2> QED BY <1>8, <2>1, <2>2, <2>3
<1>9. CASE ConnectFailed BY <1>9 DEF ConnectFailed
<1>10. CASE Publish("error", "mark", "errored")
  BY <1>10 DEF Publish, PublishConnectionStatus
<1>11. CASE MarkRecoveryAuthChange BY <1>11 DEF MarkRecoveryAuthChange
<1>12. CASE WaitForReconnect BY <1>12 DEF WaitForReconnect
<1>13. CASE AuthChangedWhileWaiting BY <1>13 DEF AuthChangedWhileWaiting
<1> QED BY <1>1, <1>2, <1>3, <1>4, <1>5, <1>6, <1>7, <1>8, <1>9, <1>10, <1>11, <1>12,
           <1>13 DEF Connecting

(* Run while it is connected, and the end of a connection.                 *)
LEMMA ConnectedStep ==
  ASSUME SessionIInv, Connected \/ EndConnection \/ WorkerStops
  PROVE  SessionIInv'
<1> USE SessionAssumption
    DEF SessionIInv, SessionTypeOK, AuthKnown, RecoveredKnown, ConnectSteps, ConnectedKnown,
        RequestKnown, BaselineOld, Owners, Statuses, LoopSteps, HandlerAt, Goto, Enabled, owner,
        credentials, manager, budget, callers
<1>1. CASE ObserveAuthRevision("opened", "publish") BY <1>1 DEF ObserveAuthRevision
<1>2. CASE StartConnection BY <1>2 DEF StartConnection, PublishConnectionStatus
<1>3. CASE WorkerEnded BY <1>3 DEF WorkerEnded
<1>4. CASE Publish("reconnect", "mark", "connecting")
  BY <1>4 DEF Publish, PublishConnectionStatus
<1>5. CASE EndConnection BY <1>5 DEF EndConnection, ConnectionPollReason
<1>6. CASE WorkerStops BY <1>6 DEF WorkerStops
<1> QED BY <1>1, <1>2, <1>3, <1>4, <1>5, <1>6 DEF Connected

(* RetireForAuthChange on the loop.                                        *)
LEMMA RetirementStep ==
  ASSUME SessionIInv, Retirement
  PROVE  SessionIInv'
<1> USE SessionAssumption
    DEF SessionIInv, SessionTypeOK, AuthKnown, RecoveredKnown, ConnectSteps, ConnectedKnown,
        RequestKnown, BaselineOld, Owners, Statuses, LoopSteps, HandlerAt, Goto, Enabled, owner,
        credentials, manager, budget, callers
<1>1. CASE LoopRetires BY <1>1 DEF LoopRetires
<1>2. CASE LoopPersists BY <1>2 DEF LoopPersists, PersistDisabled
<1>3. CASE LoopClears BY <1>3 DEF LoopClears, ClearSession
<1>4. CASE ResetSessionState BY <1>4 DEF ResetSessionState
<1> QED BY <1>1, <1>2, <1>3, <1>4 DEF Retirement

-------------------------------------------------------------------------------
(* The handlers.                                                           *)

(* A handler's step moves it to a step of the type, for an account if it   *)
(* is to enable, and leaves the other handlers alone.                      *)
RequestMoves(h, s, a) ==
  request' = [g \in Handlers |-> IF g = h THEN [at |-> s, acct |-> a] ELSE request[g]]

(* A step that keeps the account of the handler.                           *)
LEMMA StepMoves ==
  ASSUME SessionTypeOK, NEW h \in Handlers, NEW s, Step(h, s)
  PROVE  RequestMoves(h, s, request[h].acct)
BY DEF SessionTypeOK, Step, RequestMoves

(* A step that also sets the account of the handler.                       *)
LEMMA StepForMoves ==
  ASSUME SessionTypeOK, NEW h \in Handlers, NEW s, NEW a, StepFor(h, s, a)
  PROVE  RequestMoves(h, s, a)
BY DEF SessionTypeOK, StepFor, RequestMoves

(* A step of the type keeps the type of the handlers.                      *)
LEMMA MovedRequest ==
  ASSUME SessionIInv, NEW h \in Handlers, NEW s \in RequestSteps, NEW a \in Owners,
         RequestMoves(h, s, a), s = "enable" => a \in Accounts
  PROVE  /\ request' \in [Handlers -> [at : RequestSteps, acct : Owners]]
         /\ RequestKnown'
BY DEF SessionIInv, SessionTypeOK, RequestMoves, RequestKnown, HandlerAt

(* What the loop works with does not change while a handler leaves the     *)
(* owner, the loop and its accounts alone.                                 *)
LEMMA LoopKept ==
  ASSUME SessionIInv, UNCHANGED <<owner, session>>
  PROVE  /\ AuthKnown' /\ RecoveredKnown' /\ ConnectedKnown' /\ BaselineOld'
         /\ account' \in Owners /\ noted' \in Owners /\ revision' \in Nat \ {0}
         /\ loop' \in LoopSteps /\ auth' \in Owners /\ recovered' \in Owners /\ seen' \in Nat
         /\ live' \in Owners /\ replay' \subseteq Accounts /\ signedIn' \subseteq Accounts
BY DEF SessionIInv, SessionTypeOK, AuthKnown, RecoveredKnown, ConnectedKnown, BaselineOld, owner,
   session, credentials

(* The request handlers.                                                   *)
LEMMA HandlerStep ==
  ASSUME SessionIInv, NEW h \in Handlers,
         ChangeOwner(h) \/ LoadForToggle(h) \/ RecoverForEnable(h) \/ Handle(h)
  PROVE  SessionIInv'
<1>a. request[h].acct \in Owners /\ NoAccount \in Owners
  BY DEF SessionIInv, SessionTypeOK, Owners
<1>1. CASE ChangeOwner(h)
  <2>1. PICK a \in Owners :
          /\ account' = a
          /\ \E s \in {"note", "noteRetire"} : Step(h, s)
          /\ signedIn' = IF signedIn = {} THEN {} ELSE signedIn \cup ({a} \ {NoAccount})
    BY <1>1 DEF ChangeOwner
  <2>2. PICK s \in {"note", "noteRetire"} : Step(h, s) BY <2>1
  <2>3. /\ request' \in [Handlers -> [at : RequestSteps, acct : Owners]]
        /\ RequestKnown'
    BY <1>a, <2>2, StepMoves, MovedRequest DEF SessionIInv, RequestSteps
  <2>4. UNCHANGED <<noted, revision, manager, session, toggles, shutdown>>
        /\ changes' = changes + 1
    BY <1>1 DEF ChangeOwner
  <2>5. /\ signedIn' \subseteq Accounts
        /\ AuthKnown' /\ RecoveredKnown'
    BY <2>1, <2>4
    DEF SessionIInv, SessionTypeOK, AuthKnown, RecoveredKnown, ConnectSteps, Owners, session,
        credentials
  <2> QED BY <2>1, <2>3, <2>4, <2>5
    DEF SessionIInv, SessionTypeOK, ConnectedKnown, BaselineOld, manager, session, credentials
<1>2. CASE LoadForToggle(h) \/ RecoverForEnable(h)
  <2>1. PICK s \in {"enable", "disable"} : StepFor(h, s, account) /\ account # NoAccount
    BY <1>2 DEF LoadForToggle, RecoverForEnable, Recover
  <2>2. account \in Accounts BY <2>1 DEF SessionIInv, SessionTypeOK, Owners
  <2>3. /\ request' \in [Handlers -> [at : RequestSteps, acct : Owners]]
        /\ RequestKnown'
    BY <2>1, <2>2, StepForMoves, MovedRequest DEF SessionIInv, RequestSteps, Owners
  <2>4. /\ UNCHANGED <<owner, manager, session, changes, shutdown>>
        /\ toggles' \in {toggles, toggles + 1}
    BY <1>2 DEF LoadForToggle, RecoverForEnable, budget
  <2> QED BY <2>3, <2>4, LoopKept DEF SessionIInv, SessionTypeOK, manager
<1>3. CASE NoteAuthChanged(h)
  <2>1. PICK s \in {"idle", "retire"} : Step(h, s) BY <1>3 DEF NoteAuthChanged
  <2>2. /\ request' \in [Handlers -> [at : RequestSteps, acct : Owners]]
        /\ RequestKnown'
    BY <1>a, <2>1, StepMoves, MovedRequest DEF SessionIInv, RequestSteps
  <2> QED BY <1>3, <2>2
    DEF NoteAuthChanged, SessionIInv, SessionTypeOK, AuthKnown, RecoveredKnown, ConnectedKnown,
        BaselineOld, manager, session, credentials, budget
<1>4. CASE HandlerRetires(h)
  <2>1. PICK s \in {"persist", "idle"} : StepFor(h, s, enrollment)
    BY <1>4 DEF HandlerRetires
  <2>2. /\ request' \in [Handlers -> [at : RequestSteps, acct : Owners]]
        /\ RequestKnown'
    BY <2>1, StepForMoves, MovedRequest DEF SessionIInv, SessionTypeOK, RequestSteps
  <2> QED BY <1>4, <2>2, LoopKept
    DEF HandlerRetires, SessionIInv, SessionTypeOK, manager, budget
<1>5. CASE HandlerPersists(h) \/ StorePreference(h)
  <2>1. /\ request' \in [Handlers -> [at : RequestSteps, acct : Owners]]
        /\ RequestKnown'
    <3>1. (\E s \in {"clear", "switchOn", "switchOff"} : Step(h, s)) \/ Return(h)
      BY <1>5 DEF HandlerPersists, StorePreference
    <3>2. CASE Return(h)
      BY <1>a, <3>2, StepForMoves, MovedRequest DEF Return, SessionIInv, RequestSteps
    <3>3. ASSUME NEW s \in {"clear", "switchOn", "switchOff"}, Step(h, s)
          PROVE  RequestMoves(h, s, request[h].acct)
      BY <3>3, StepMoves DEF SessionIInv
    <3> QED BY <1>a, <3>1, <3>2, <3>3, MovedRequest DEF RequestSteps
  <2>2. prefs' \subseteq Accounts /\ UNCHANGED <<status, enrollment>>
    BY <1>5 DEF HandlerPersists, PersistDisabled, StorePreference, SessionIInv, SessionTypeOK,
       RequestKnown
  <2>3. UNCHANGED <<owner, session, budget, shutdown>>
    BY <1>5 DEF HandlerPersists, StorePreference
  <2> QED BY <2>1, <2>2, <2>3, LoopKept DEF SessionIInv, SessionTypeOK, budget
<1>6. CASE HandlerClears(h) \/ SwitchOn(h) \/ SwitchOff(h)
  <2>1. StepFor(h, "idle", NoAccount)
    BY <1>6 DEF HandlerClears, SwitchOn, SwitchOff, Return
  <2>2. /\ request' \in [Handlers -> [at : RequestSteps, acct : Owners]]
        /\ RequestKnown'
    BY <1>a, <2>1, StepForMoves, MovedRequest DEF SessionIInv, RequestSteps
  <2>3. status' \in Statuses /\ enrollment' \in Owners /\ UNCHANGED prefs
    BY <1>6, <1>a DEF HandlerClears, ClearSession, SwitchOn, SwitchOff, SessionIInv, SessionTypeOK,
                Statuses, Owners
  <2>4. UNCHANGED <<owner, session, budget, shutdown>>
    BY <1>6 DEF HandlerClears, SwitchOn, SwitchOff
  <2> QED BY <2>2, <2>3, <2>4, LoopKept DEF SessionIInv, SessionTypeOK, budget
<1> QED BY <1>1, <1>2, <1>3, <1>4, <1>5, <1>6 DEF Handle

(* Every step keeps the invariant.                                         *)
LEMMA SessionNextIInv ==
  ASSUME SessionIInv, [SessionNext]_sessionVars
  PROVE  SessionIInv'
<1>1. CASE CancelRun
  BY <1>1, LoopKept DEF CancelRun, SessionIInv, SessionTypeOK, RequestKnown, HandlerAt, manager,
     budget
<1>2. CASE UNCHANGED sessionVars
  BY <1>2, LoopKept DEF sessionVars, SessionIInv, SessionTypeOK, RequestKnown, HandlerAt, owner,
     session, credentials
<1> QED BY <1>1, <1>2, ConnectingStep, ConnectedStep, RetirementStep, HandlerStep
    DEF SessionNext, Run

(* The inductive invariant of the connection loop.                         *)
LEMMA SessionSpecIInv == SessionSpec => []SessionIInv
<1>1. SessionInit => SessionIInv BY SessionInitIInv
<1>2. SessionIInv /\ [SessionNext]_sessionVars => SessionIInv' BY SessionNextIInv
<1> QED BY <1>1, <1>2, PTL DEF SessionSpec

-------------------------------------------------------------------------------
(* The properties.                                                         *)

(* Every component of the state has its type.                              *)
THEOREM SessionTypeCorrect == SessionSpec => []SessionTypeOK
BY SessionSpecIInv, PTL DEF SessionIInv

(* observeAuthRevision gives every connection of Run a baseline that is    *)
(* not ahead of the owner revision.                                        *)
THEOREM BaselineIsKnown == SessionSpec => []BaselineKnown
<1>1. SessionIInv => BaselineKnown
  BY SessionAssumption DEF SessionIInv, SessionTypeOK, ConnectedKnown, BaselineOld, BaselineKnown
<1> QED BY <1>1, SessionSpecIInv, PTL

(* Unless the user enables remote control, an enrollment passes to another *)
(* account only in the connect made with it, and only to an account that   *)
(* signed in during that connect (replaceWebsocketEnrollmentIfMatches,     *)
(* replaceCurrentEnrollment, prepareWebsocketEnrollment, enableDurable).   *)
THEOREM EnrollmentIsKept == SessionSpec => EnrollmentKeepsOwner
<1> DEFINE Keeps ==
      enrollment # NoAccount /\ enrollment' \notin {NoAccount, enrollment} =>
        \/ \E h \in Handlers : HandlerAt(h, "switchOn") /\ HandlerAt(h, "idle")'
        \/ enrollment = auth /\ enrollment' \in signedIn
<1>1. ASSUME SessionIInv, [SessionNext]_sessionVars PROVE Keeps
  <2>1. CASE SwapEnrollment
    BY <1>1, <2>1 DEF SwapEnrollment, SessionIInv, RecoveredKnown
  <2>2. CASE Connecting /\ ~SwapEnrollment
    BY <2>2 DEF Connecting, WaitUntilEnabled, ObserveAuthRevision, Publish,
       PublishConnectionStatus, LoadAuth, PrepareEnrollment, EnrollRecovers, Enroll,
       ReplaceCurrentEnrollment, Dial, EnrollAgain, StoreReplacement, ConnectFailed,
       MarkRecoveryAuthChange, WaitForReconnect, AuthChangedWhileWaiting, manager
  <2>3. CASE Connected \/ EndConnection \/ WorkerStops \/ Retirement
    BY <2>3 DEF Connected, ObserveAuthRevision, StartConnection, WorkerEnded, Publish,
       PublishConnectionStatus, EndConnection, WorkerStops, Retirement, LoopRetires,
       LoopPersists, PersistDisabled, LoopClears, ClearSession, ResetSessionState, manager
  <2>4. ASSUME NEW h \in Handlers,
               ChangeOwner(h) \/ LoadForToggle(h) \/ RecoverForEnable(h) \/ Handle(h)
        PROVE  Keeps
    <3>1. CASE SwitchOn(h)
      <4>1. RequestMoves(h, "idle", NoAccount)
        BY <1>1, <3>1, StepForMoves DEF SwitchOn, Return, SessionIInv
      <4> QED BY <3>1, <4>1 DEF SwitchOn, RequestMoves, HandlerAt
    <3>2. CASE ~SwitchOn(h)
      BY <2>4, <3>2 DEF ChangeOwner, LoadForToggle, RecoverForEnable, Handle, NoteAuthChanged,
         HandlerRetires, HandlerPersists, PersistDisabled, HandlerClears, ClearSession,
         StorePreference, SwitchOff, manager
    <3> QED BY <3>1, <3>2
  <2>5. CASE CancelRun \/ UNCHANGED sessionVars BY <2>5 DEF CancelRun, sessionVars, manager
  <2> QED BY <1>1, <2>1, <2>2, <2>3, <2>4, <2>5 DEF SessionNext, Run
<1>2. SessionIInv /\ [SessionNext]_sessionVars => [Keeps]_sessionVars BY <1>1
<1> QED BY <1>2, SessionSpecIInv, PTL DEF SessionSpec, EnrollmentKeepsOwner

===============================================================================
