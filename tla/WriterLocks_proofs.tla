--------------------------- MODULE WriterLocks_proofs ---------------------------
(***************************************************************************)
(* Proofs about WriterLocks, for any number of threads, requests, tasks    *)
(* and processes, whichever goroutines share a Store.                      *)
(***************************************************************************)
EXTENDS WriterLocks, TLAPS

USE DEF Actors

(* Who is at a step of the coordination has it, and has it alone, unless   *)
(* it overlaps.                                                            *)
CoordinationHeld ==
  \A a \in Actors \ overlapped : task[a].at \in Coordinated =>
    /\ coordination = StoreOf[a]
    /\ \A b \in Actors : task[b].at \in Coordinated /\ StoreOf[b] = StoreOf[a] => b = a

(* A writer has the lock of the file at the path, not of one that is gone. *)
OwnerNamed == \A t \in Threads, w \in Writers : w \in owners[t] <=> named[t] = w

(* A lock that is held is on a file that is there.                         *)
LockedFileThere == \A t \in Threads : named[t] # NoActor => file[t]

(* The file a Close removes is no writer's.                                *)
RemovedFileFree == \A w \in Writers : At(w, "remove") => named[Thread(w)] \notin Writers

(* Who closes a lock has it.                                               *)
ClosingOwns ==
  \A w \in Writers : task[w].at \in {"close", "unlock"} => w \in owners[Thread(w)]

(* The thread was found idle, and stays idle.                              *)
ProbedIdle ==
  \A p \in Publishers \ overlapped :
    task[p].at \in {"check", "publish"} => owners[Thread(p)] = {}

(* The last three need the coordination of every request.                  *)
IInv ==
  /\ TypeOK /\ CoordinationHeld /\ LockedFileThere /\ ClosingOwns /\ AllOrNothing
  /\ WritersApart => OwnerNamed /\ RemovedFileFree /\ ProbedIdle

-------------------------------------------------------------------------------

(* Of the actors that do not overlap, one at a time has the coordination.  *)
LEMMA OneCoordinated ==
  ASSUME CoordinationHeld, NEW a \in Actors \ overlapped, NEW b \in Actors \ overlapped,
         task[a].at \in Coordinated, task[b].at \in Coordinated
  PROVE  a = b
BY DEF CoordinationHeld

(* What a step of one actor does to the tasks.                             *)
LEMMA GoTask ==
  ASSUME TypeOK, NEW a \in Actors, NEW s, Go(a, s)
  PROVE  /\ task' = [b \in Actors |-> IF b = a
                       THEN [at |-> s, thread |-> task[a].thread, wants |-> task[a].wants]
                       ELSE task[b]]
BY DEF TypeOK, Go

LEMMA GoForTask ==
  ASSUME TypeOK, NEW a \in Actors, NEW s, NEW t, GoFor(a, s, t)
  PROVE  /\ task' = [b \in Actors |-> IF b = a
                       THEN [at |-> s, thread |-> t, wants |-> task[a].wants]
                       ELSE task[b]]
BY DEF TypeOK, GoFor

LEMMA LeaveTask ==
  ASSUME TypeOK, NEW a \in Actors, NEW s, Leave(a, s)
  PROVE  task' = [b \in Actors |-> IF b = a THEN Rest(s) ELSE task[b]]
BY DEF TypeOK, Leave

LEMMA InitIInv == Init => IInv
BY LocksAssumption DEF Init, IInv, TypeOK, CoordinationHeld, OwnerNamed, LockedFileThere,
   RemovedFileFree, ClosingOwns, ProbedIdle, AllOrNothing, Idle, Rest, At, Held, Coordinated,
   WriterSteps, PublisherSteps

(* What a step of a does to the coordination: it keeps, takes or gives it  *)
(* back.                                                                   *)
Keeps(a, r) ==
  /\ UNCHANGED <<coordination, overlapped>>
  /\ r.at \in Coordinated => task[a].at \in Coordinated

Takes(a, r) ==
  /\ coordination \in {NoStore, StoreOf[a]} /\ coordination' = StoreOf[a]
  /\ Overlap(a)
  /\ task[a].at \notin Coordinated /\ r.at \in Coordinated

GivesBack(a, r) ==
  /\ Uncoordinate(a)
  /\ \/ overlapped' = overlapped
     \/ a \in Publishers /\ overlapped' = overlapped \ {a}
  /\ task[a].at \in Coordinated /\ r.at \notin Coordinated

(* In each case the others keep what they have, and only an overlap of     *)
(* their own takes it from them.                                           *)
LEMMA CoordinationKept ==
  ASSUME IInv, NEW a \in Actors, NEW r,
         task' = [b \in Actors |-> IF b = a THEN r ELSE task[b]],
         Keeps(a, r) \/ Takes(a, r) \/ GivesBack(a, r)
  PROVE  /\ CoordinationHeld'
         /\ overlapped' \subseteq Actors
         /\ WritersApart' => WritersApart
         /\ \A b \in Actors \ overlapped' :
              task'[b].at \in Coordinated => b \notin overlapped \/ (b = a /\ Takes(a, r))
<1> USE LocksAssumption DEF IInv, TypeOK
<1>1. CASE Keeps(a, r)
  <2>1. CoordinationHeld'
    <3> SUFFICES ASSUME NEW c \in Actors \ overlapped', task'[c].at \in Coordinated
                 PROVE  /\ coordination' = StoreOf[c]
                        /\ \A b \in Actors : task'[b].at \in Coordinated /\ StoreOf[b] = StoreOf[c]
                                              => b = c
      BY DEF CoordinationHeld
    <3>1. \A b \in Actors : task'[b].at \in Coordinated => task[b].at \in Coordinated
      BY <1>1 DEF Keeps
    <3> QED BY <1>1, <3>1 DEF Keeps, CoordinationHeld
  <2> QED BY <1>1, <2>1 DEF Keeps, WritersApart
<1>2. CASE Takes(a, r)
  <2>1. /\ overlapped \subseteq overlapped' /\ overlapped' \subseteq Actors
        /\ Sharers(a) # {} => a \in overlapped'
        /\ Sharers(a) \subseteq overlapped'
    BY <1>2 DEF Takes, Overlap, Sharers
  <2>2. CoordinationHeld'
    <3> SUFFICES ASSUME NEW c \in Actors \ overlapped', task'[c].at \in Coordinated
                 PROVE  /\ coordination' = StoreOf[c]
                        /\ \A b \in Actors : task'[b].at \in Coordinated /\ StoreOf[b] = StoreOf[c]
                                              => b = c
      BY DEF CoordinationHeld
    <3>1. CASE c = a
      <4>1. Sharers(a) = {} BY <2>1, <3>1
      <4>2. \A b \in Actors \ {a} : task[b].at \in Coordinated => StoreOf[b] # StoreOf[a]
        BY <4>1 DEF Sharers
      <4> QED BY <1>2, <3>1, <4>2 DEF Takes
    <3>2. CASE c # a
      <4>1. c \notin overlapped /\ task[c].at \in Coordinated /\ c \notin Sharers(a)
        BY <2>1, <3>2
      <4>2. coordination = StoreOf[c] /\ StoreOf[c] # StoreOf[a]
        BY <3>2, <4>1 DEF CoordinationHeld, Sharers
      <4>3. StoreOf[c] # NoStore OBVIOUS
      <4> QED BY <1>2, <4>2, <4>3 DEF Takes
    <3> QED BY <3>1, <3>2
  <2> QED BY <1>2, <2>1, <2>2 DEF WritersApart
<1>3. CASE GivesBack(a, r)
  <2>1. /\ overlapped' \subseteq overlapped /\ overlapped \subseteq overlapped' \cup {a}
        /\ overlapped' # overlapped => a \in Publishers
    BY <1>3 DEF GivesBack
  <2>2. \A b \in Actors : task'[b].at \in Coordinated => b # a /\ task[b].at \in Coordinated
    BY <1>3 DEF GivesBack
  <2>3. CoordinationHeld'
    <3> SUFFICES ASSUME NEW c \in Actors \ overlapped', task'[c].at \in Coordinated
                 PROVE  /\ coordination' = StoreOf[c]
                        /\ \A b \in Actors : task'[b].at \in Coordinated /\ StoreOf[b] = StoreOf[c]
                                              => b = c
      BY DEF CoordinationHeld
    <3>1. c # a /\ c \notin overlapped /\ task[c].at \in Coordinated BY <2>1, <2>2
    <3>2. coordination = StoreOf[c] /\ StoreOf[c] # StoreOf[a]
      BY <1>3, <3>1 DEF CoordinationHeld, GivesBack
    <3>3. coordination' = coordination BY <1>3, <3>2 DEF GivesBack, Uncoordinate
    <3> QED BY <2>2, <3>1, <3>2, <3>3 DEF CoordinationHeld
  <2>4. WritersApart' => WritersApart BY <2>1 DEF WritersApart
  <2> QED BY <2>1, <2>2, <2>3, <2>4
<1> QED BY <1>1, <1>2, <1>3

(* A step of one actor that changes no thread lock but by giving it up as  *)
(* leaked, and takes or gives back no more than the coordination lock.     *)
QuietStep(a, r) ==
  /\ task' = [b \in Actors |-> IF b = a THEN r ELSE task[b]]
  /\ r \in [at : WriterSteps \cup PublisherSteps, thread : Threads \cup {NoThread},
            wants : SUBSET Threads]
  /\ r.at \in IF a \in Writers THEN WriterSteps ELSE PublisherSteps
  /\ r.at \notin {"idle", "next", "writing", "release"} => r.thread \in Threads
  /\ UNCHANGED <<named, file, owners, deaths>>
  /\ leaked \subseteq leaked' /\ leaked' \subseteq Writers \X Threads
  /\ Keeps(a, r) \/ Takes(a, r) \/ GivesBack(a, r)
  /\ r.at # "remove"
  /\ r.at \in {"check", "publish"} =>
       task[a].at \in {"check", "publish"} /\ r.thread = task[a].thread
  /\ r.at \in {"close", "unlock"} => a \in owners[r.thread]
  /\ r.at = "idle" /\ a \in Writers => Held(a) = {}

LEMMA QuietIInv ==
  ASSUME IInv, NEW a \in Actors, NEW r, QuietStep(a, r)
  PROVE  IInv'
<1> USE LocksAssumption DEF QuietStep, IInv
<1>1. /\ CoordinationHeld'
      /\ overlapped' \subseteq Actors
      /\ WritersApart' => WritersApart
      /\ \A b \in Actors \ overlapped' :
           task'[b].at \in Coordinated => b \notin overlapped \/ (b = a /\ Takes(a, r))
  BY CoordinationKept
<1>2. TypeOK' BY <1>1 DEF TypeOK, Thread, Keeps, Takes, GivesBack, Uncoordinate
<1>3. ASSUME WritersApart' PROVE OwnerNamed' /\ RemovedFileFree' /\ ProbedIdle'
  <2>1. OwnerNamed' BY <1>1, <1>3 DEF OwnerNamed
  <2>2. RemovedFileFree' BY <1>1, <1>3 DEF RemovedFileFree, At, Thread
  <2>3. ProbedIdle'
    <3> SUFFICES ASSUME NEW p \in Publishers \ overlapped', task'[p].at \in {"check", "publish"}
                 PROVE  owners'[task'[p].thread] = {}
      BY DEF ProbedIdle, Thread
    <3>1. task[p].at \in {"check", "publish"} /\ task'[p].thread = task[p].thread
      OBVIOUS
    <3>2. p \notin overlapped BY <1>1, <3>1 DEF Coordinated, Takes
    <3> QED BY <1>1, <1>3, <3>1, <3>2 DEF ProbedIdle, Thread
  <2> QED BY <2>1, <2>2, <2>3
<1>4. AllOrNothing' BY DEF AllOrNothing, At, Held
<1>5. ClosingOwns' BY DEF ClosingOwns, Thread
<1>6. LockedFileThere' BY DEF LockedFileThere
<1> QED BY <1>1, <1>2, <1>3, <1>4, <1>5, <1>6

(* The record a Go or a GoFor puts in place.                               *)
Stepped(a, s) == [at |-> s, thread |-> task[a].thread, wants |-> task[a].wants]
SteppedFor(a, s, t) == [at |-> s, thread |-> t, wants |-> task[a].wants]

LEMMA CoordinateStep ==
  ASSUME IInv, NEW a \in Actors, Coordinate(a)
  PROVE  IInv'
<1>1. PICK s \in {"lock", "unlock", "probe"} :
        /\ Go(a, s)
        /\ s = "lock" => task[a].at = "open"
        /\ s = "unlock" => task[a].at = "close"
        /\ s = "probe" => task[a].at = "seek"
  BY DEF Coordinate, At
<1>2. Takes(a, Stepped(a, s))
  BY <1>1 DEF Coordinate, Takes, Stepped, Coordinated
<1>3. QuietStep(a, Stepped(a, s))
  BY <1>1, <1>2, GoTask, LocksAssumption
  DEF IInv, TypeOK, Coordinate, QuietStep, Stepped, WriterSteps, PublisherSteps, locks, Thread,
      ClosingOwns
<1> QED BY <1>3, QuietIInv

LEMMA TimeOutStep ==
  ASSUME IInv, NEW a \in Actors,
         \/ a \in Writers /\ (OpenTimesOut(a) \/ CloseTimesOut(a))
         \/ a \in Publishers /\ PublicationTimesOut(a)
  PROVE  IInv'
<1> USE LocksAssumption DEF IInv, TypeOK, QuietStep, Keeps, Coordinated, WriterSteps,
      PublisherSteps, locks, Thread, At, Rest
<1>1. CASE a \in Writers /\ OpenTimesOut(a)
  <2>1. QuietStep(a, Stepped(a, "release"))
    BY <1>1, GoTask DEF OpenTimesOut, Stepped
  <2> QED BY <2>1, QuietIInv
<1>2. CASE a \in Writers /\ CloseTimesOut(a)
  <2>1. QuietStep(a, Stepped(a, "release"))
    BY <1>2, GoTask DEF CloseTimesOut, Stepped
  <2> QED BY <2>1, QuietIInv
<1>3. CASE a \in Publishers /\ PublicationTimesOut(a)
  <2>1. QuietStep(a, Rest("idle"))
    BY <1>3, LeaveTask DEF PublicationTimesOut
  <2> QED BY <2>1, QuietIInv
<1> QED BY <1>1, <1>2, <1>3

(* The steps of a request that leave the thread locks alone.               *)
LEMMA RequestStep ==
  ASSUME IInv, NEW w \in Writers,
         \/ AcquireWriters(w) \/ NextWriter(w) \/ AcquireReturns(w)
         \/ Finish(w) \/ ReleaseNext(w) \/ CloseReturns(w)
  PROVE  IInv'
<1> USE LocksAssumption DEF IInv, TypeOK, QuietStep, Coordinated, WriterSteps,
      PublisherSteps, locks, Thread, At, Rest
<1>1. CASE AcquireWriters(w)
  <2>1. PICK ids \in SUBSET Threads :
          task' = [task EXCEPT ![w] = [at |-> "next", thread |-> NoThread, wants |-> ids]]
    BY <1>1 DEF AcquireWriters
  <2>2. QuietStep(w, [at |-> "next", thread |-> NoThread, wants |-> ids])
    BY <1>1, <2>1 DEF AcquireWriters, Keeps
  <2> QED BY <2>2, QuietIInv
<1>2. CASE NextWriter(w)
  <2>1. CASE Leave(w, "writing")
    <3>1. QuietStep(w, Rest("writing"))
      BY <1>2, <2>1, LeaveTask DEF NextWriter, Keeps
    <3> QED BY <3>1, QuietIInv
  <2>2. CASE \E t \in Threads : GoFor(w, "open", t)
    <3>1. PICK t \in Threads : GoFor(w, "open", t) BY <2>2
    <3>2. QuietStep(w, SteppedFor(w, "open", t))
      BY <1>2, <3>1, GoForTask DEF NextWriter, SteppedFor, Keeps
    <3> QED BY <3>2, QuietIInv
  <2> QED BY <1>2, <2>1, <2>2 DEF NextWriter
<1>3. CASE AcquireReturns(w)
  <2>1. /\ task[w].at \in {"granted", "refused"} /\ Uncoordinate(w)
        /\ UNCHANGED <<locks, deaths, overlapped>>
    BY <1>3 DEF AcquireReturns
  <2>2. CASE GoFor(w, "next", NoThread)
    <3>1. QuietStep(w, SteppedFor(w, "next", NoThread))
      BY <2>1, <2>2, GoForTask DEF SteppedFor, GivesBack
    <3> QED BY <3>1, QuietIInv
  <2>3. CASE Leave(w, "release")
    <3>1. QuietStep(w, Rest("release"))
      BY <2>1, <2>3, LeaveTask DEF GivesBack
    <3> QED BY <3>1, QuietIInv
  <2> QED BY <1>3, <2>2, <2>3 DEF AcquireReturns
<1>4. CASE Finish(w)
  <2>1. QuietStep(w, Rest("release"))
    BY <1>4, LeaveTask DEF Finish, Keeps
  <2> QED BY <2>1, QuietIInv
<1>5. CASE ReleaseNext(w)
  <2>1. CASE Held(w) = {} /\ Leave(w, "idle")
    <3>1. QuietStep(w, Rest("idle")) BY <1>5, <2>1, LeaveTask DEF ReleaseNext, Keeps
    <3> QED BY <3>1, QuietIInv
  <2>2. CASE \E t \in Held(w) : GoFor(w, "close", t)
    <3>1. PICK t \in Held(w) : GoFor(w, "close", t) BY <2>2
    <3>2. QuietStep(w, SteppedFor(w, "close", t))
      BY <1>5, <3>1, GoForTask DEF ReleaseNext, SteppedFor, Held, Keeps
    <3> QED BY <3>2, QuietIInv
  <2> QED BY <1>5, <2>1, <2>2 DEF ReleaseNext, Held
<1>6. CASE CloseReturns(w)
  <2>1. QuietStep(w, Rest("release"))
    BY <1>6, LeaveTask DEF CloseReturns, GivesBack
  <2> QED BY <2>1, QuietIInv
<1> QED BY <1>1, <1>2, <1>3, <1>4, <1>5, <1>6

(* The steps of the compressor that leave the thread locks alone.          *)
LEMMA CompressorStep ==
  ASSUME IInv, NEW p \in Publishers,
         \/ TryAcquireForPublication(p) \/ ProbeRefused(p) \/ CheckRollout(p)
         \/ Publish(p) \/ ReleaseCoordination(p)
  PROVE  IInv'
<1> USE LocksAssumption DEF IInv, TypeOK, QuietStep, Coordinated, WriterSteps,
      PublisherSteps, locks, Thread, At, Rest
<1>1. CASE TryAcquireForPublication(p)
  <2>1. QuietStep(p, SteppedFor(p, "seek", RolloutOf[p]))
    BY <1>1, GoForTask DEF TryAcquireForPublication, SteppedFor, Keeps
  <2> QED BY <2>1, QuietIInv
<1>2. CASE ProbeRefused(p) \/ ReleaseCoordination(p)
  <2>1. QuietStep(p, Rest("idle"))
    BY <1>2, LeaveTask DEF ProbeRefused, ReleaseCoordination, GivesBack
  <2> QED BY <2>1, QuietIInv
<1>3. CASE CheckRollout(p) \/ Publish(p)
  <2>1. PICK s \in {"publish", "published"} : Go(p, s) BY <1>3 DEF CheckRollout, Publish
  <2>2. QuietStep(p, Stepped(p, s))
    BY <1>3, <2>1, GoTask DEF CheckRollout, Publish, Stepped, Keeps
  <2> QED BY <2>2, QuietIInv
<1> QED BY <1>1, <1>2, <1>3

-------------------------------------------------------------------------------
(* The steps that change a thread lock.                                    *)

LEMMA TryLockStep ==
  ASSUME IInv, NEW w \in Writers, TryLock(w)
  PROVE  IInv'
<1> USE LocksAssumption DEF At, Thread
<1> DEFINE t == task[w].thread
<1>1. PICK s \in {"granted", "refused"} :
        /\ Go(w, s)
        /\ s = "granted" => /\ named[t] = NoActor
                            /\ named' = [named EXCEPT ![t] = w]
                            /\ owners' = [owners EXCEPT ![t] = @ \cup {w}]
        /\ s = "refused" => UNCHANGED <<named, owners>>
  BY DEF TryLock
<1>2. /\ task[w].at = "lock" /\ t \in Threads
      /\ file' = [file EXCEPT ![t] = TRUE]
      /\ UNCHANGED <<coordination, leaked, deaths, overlapped>>
  BY DEF TryLock, IInv, TypeOK
<1>3. task' = [b \in Actors |-> IF b = w THEN Stepped(w, s) ELSE task[b]]
  BY <1>1, GoTask DEF IInv, Stepped
<1>4. Keeps(w, Stepped(w, s)) BY <1>2 DEF Keeps, Coordinated
<1>5. CoordinationHeld' BY <1>3, <1>4, CoordinationKept
<1>6. TypeOK'
  BY <1>1, <1>2, <1>3 DEF IInv, TypeOK, Stepped, WriterSteps, PublisherSteps
<1>7. ASSUME WritersApart' PROVE OwnerNamed' /\ RemovedFileFree' /\ ProbedIdle'
  <2>1. WritersApart BY <1>2, <1>7 DEF WritersApart
  <2>2. \A b \in Actors \ overlapped : task[b].at \in Coordinated => b = w
    BY <1>2, <2>1, OneCoordinated DEF IInv, Coordinated, WritersApart
  <2>3. OwnerNamed'
    BY <1>1, <1>2, <2>1 DEF IInv, TypeOK, OwnerNamed
  <2>4. RemovedFileFree'
    BY <1>1, <1>3, <2>1, <2>2 DEF WritersApart, RemovedFileFree, Coordinated, Stepped
  <2>5. ProbedIdle'
    BY <1>2, <1>3, <2>2 DEF ProbedIdle, Coordinated, Stepped
  <2> QED BY <2>3, <2>4, <2>5
<1>8. AllOrNothing'
  BY <1>1, <1>2, <1>3 DEF IInv, TypeOK, AllOrNothing, Held, Stepped
<1>9. ClosingOwns'
  <2>1. \A u \in Threads : owners[u] \subseteq owners'[u]
    BY <1>1, <1>2 DEF IInv, TypeOK
  <2>2. \A v \in Writers : task'[v].at \in {"close", "unlock"} => task'[v] = task[v]
    BY <1>3 DEF Stepped
  <2> QED BY <2>1, <2>2 DEF IInv, TypeOK, ClosingOwns
<1>10. LockedFileThere' BY <1>1, <1>2 DEF IInv, TypeOK, LockedFileThere
<1> QED BY <1>5, <1>6, <1>7, <1>8, <1>9, <1>10 DEF IInv

LEMMA UnlockStep ==
  ASSUME IInv, NEW w \in Writers, Unlock(w)
  PROVE  IInv'
<1> USE LocksAssumption DEF At, Thread
<1> DEFINE t == task[w].thread
<1>1. /\ task[w].at = "unlock" /\ t \in Threads
      /\ owners' = [owners EXCEPT ![t] = @ \ {w}]
      /\ named' = [named EXCEPT ![t] = IF @ = w THEN NoActor ELSE @]
      /\ UNCHANGED <<coordination, file, leaked, deaths, overlapped>>
  BY DEF Unlock, IInv, TypeOK
<1>2. task' = [b \in Actors |-> IF b = w THEN Stepped(w, "remove") ELSE task[b]]
  BY GoTask DEF Unlock, IInv, Stepped
<1>3. Keeps(w, Stepped(w, "remove")) BY <1>1 DEF Keeps, Coordinated
<1>4. CoordinationHeld' BY <1>2, <1>3, CoordinationKept
<1>5. TypeOK'
  BY <1>1, <1>2 DEF IInv, TypeOK, Stepped, WriterSteps, PublisherSteps
<1>6. ASSUME WritersApart' PROVE OwnerNamed' /\ RemovedFileFree' /\ ProbedIdle'
  <2>1. WritersApart BY <1>1, <1>6 DEF WritersApart
  <2>2. \A b \in Actors \ overlapped : task[b].at \in Coordinated => b = w
    BY <1>1, <2>1, OneCoordinated DEF IInv, Coordinated, WritersApart
  <2>3. named'[t] = NoActor
    <3>1. OwnerNamed BY <2>1 DEF IInv
    <3>2. w \in owners[t] BY <1>1 DEF IInv, ClosingOwns
    <3>3. named[t] = w BY <1>1, <3>1, <3>2 DEF OwnerNamed
    <3> QED BY <1>1, <3>3 DEF IInv, TypeOK
  <2>4. OwnerNamed' BY <1>1, <2>1 DEF IInv, TypeOK, OwnerNamed
  <2>5. RemovedFileFree'
    BY <1>2, <2>1, <2>2, <2>3 DEF WritersApart, RemovedFileFree, Coordinated, Stepped
  <2>6. ProbedIdle'
    BY <1>1, <1>2, <2>2 DEF ProbedIdle, Coordinated, Stepped
  <2> QED BY <2>4, <2>5, <2>6
<1>7. AllOrNothing'
  BY <1>1, <1>2 DEF IInv, TypeOK, AllOrNothing, Held, Stepped
<1>8. ClosingOwns'
  BY <1>1, <1>2 DEF IInv, TypeOK, ClosingOwns, Stepped
<1>9. LockedFileThere' BY <1>1 DEF IInv, TypeOK, LockedFileThere
<1> QED BY <1>4, <1>5, <1>6, <1>7, <1>8, <1>9 DEF IInv

LEMMA RemoveStep ==
  ASSUME IInv, NEW w \in Writers, Remove(w)
  PROVE  IInv'
<1> USE LocksAssumption DEF At, Thread
<1> DEFINE t == task[w].thread
<1>1. /\ task[w].at = "remove" /\ t \in Threads
      /\ file' = [file EXCEPT ![t] = FALSE]
      /\ named' = [named EXCEPT ![t] = NoActor]
      /\ UNCHANGED <<coordination, owners, leaked, deaths, overlapped>>
  BY DEF Remove, IInv, TypeOK
<1>2. task' = [b \in Actors |-> IF b = w THEN Stepped(w, "closed") ELSE task[b]]
  BY GoTask DEF Remove, IInv, Stepped
<1>3. Keeps(w, Stepped(w, "closed")) BY <1>1 DEF Keeps, Coordinated
<1>4. CoordinationHeld' BY <1>2, <1>3, CoordinationKept
<1>5. TypeOK'
  BY <1>1, <1>2 DEF IInv, TypeOK, Stepped, WriterSteps, PublisherSteps
<1>6. ASSUME WritersApart' PROVE OwnerNamed' /\ RemovedFileFree' /\ ProbedIdle'
  <2>1. WritersApart BY <1>1, <1>6 DEF WritersApart
  <2>2. named[t] \notin Writers BY <1>1, <2>1 DEF IInv, RemovedFileFree
  <2>3. OwnerNamed' BY <1>1, <2>1, <2>2 DEF IInv, TypeOK, OwnerNamed
  <2>4. RemovedFileFree' BY <1>1, <1>2, <2>1 DEF IInv, TypeOK, RemovedFileFree, Stepped
  <2>5. ProbedIdle' BY <1>1, <1>2, <2>1 DEF IInv, ProbedIdle, Stepped
  <2> QED BY <2>3, <2>4, <2>5
<1>7. ClosingOwns' BY <1>1, <1>2 DEF IInv, ClosingOwns, Stepped
<1>8. AllOrNothing' BY <1>1, <1>2 DEF IInv, AllOrNothing, Held, Stepped
<1>9. LockedFileThere' BY <1>1 DEF IInv, TypeOK, LockedFileThere
<1> QED BY <1>4, <1>5, <1>6, <1>7, <1>8, <1>9 DEF IInv

LEMMA ProbeStep ==
  ASSUME IInv, NEW p \in Publishers, Probe(p)
  PROVE  IInv'
<1> USE LocksAssumption DEF At, Thread
<1> DEFINE t == task[p].thread
<1>1. PICK s \in {"check", "refused"} :
        /\ Go(p, s)
        /\ s = "check" => \/ ~file[t] /\ UNCHANGED named
                          \/ /\ file[t] /\ named[t] = NoActor
                             /\ named' = [named EXCEPT ![t] = p]
        /\ s = "refused" => UNCHANGED named
  BY DEF Probe
<1>2. /\ task[p].at = "probe" /\ t \in Threads
      /\ UNCHANGED <<coordination, file, owners, leaked, deaths, overlapped>>
  BY DEF Probe, IInv, TypeOK
<1>3. task' = [b \in Actors |-> IF b = p THEN Stepped(p, s) ELSE task[b]]
  BY <1>1, GoTask DEF IInv, Stepped
<1>4. Keeps(p, Stepped(p, s)) BY <1>2 DEF Keeps, Coordinated
<1>5. CoordinationHeld' BY <1>3, <1>4, CoordinationKept
<1>6. TypeOK'
  <2>1. named' \in [Threads -> Actors \cup {NoActor}]
    BY <1>1, <1>2 DEF IInv, TypeOK
  <2> QED BY <1>2, <1>3, <2>1 DEF IInv, TypeOK, Stepped, WriterSteps, PublisherSteps
<1>7. ASSUME WritersApart' PROVE OwnerNamed' /\ RemovedFileFree' /\ ProbedIdle'
  <2>1. WritersApart BY <1>2, <1>7 DEF WritersApart
  <2>2. OwnerNamed'
    BY <1>1, <1>2, <2>1 DEF IInv, TypeOK, OwnerNamed
  <2>3. RemovedFileFree'
    BY <1>1, <1>2, <1>3, <2>1 DEF IInv, TypeOK, RemovedFileFree, Stepped
  <2>4. s = "check" => owners[t] = {}
    <3> SUFFICES ASSUME s = "check", NEW v \in owners[t] PROVE FALSE
      OBVIOUS
    <3>1. named[t] = NoActor BY <1>1, <1>2 DEF IInv, LockedFileThere
    <3>2. v \in Writers BY <1>2 DEF IInv, TypeOK
    <3>3. OwnerNamed BY <2>1 DEF IInv
    <3>4. named[t] = v BY <1>2, <3>2, <3>3 DEF OwnerNamed
    <3> QED BY <3>1, <3>2, <3>4
  <2>5. ProbedIdle' BY <1>2, <1>3, <2>1, <2>4 DEF IInv, ProbedIdle, Stepped
  <2> QED BY <2>2, <2>3, <2>5
<1>8. ClosingOwns' BY <1>2, <1>3 DEF IInv, ClosingOwns, Stepped
<1>9. AllOrNothing' BY <1>2, <1>3 DEF IInv, AllOrNothing, Held, Stepped
<1>10. LockedFileThere' BY <1>1, <1>2 DEF IInv, TypeOK, LockedFileThere
<1> QED BY <1>5, <1>6, <1>7, <1>8, <1>9, <1>10 DEF IInv

LEMMA ReleaseProbeStep ==
  ASSUME IInv, NEW p \in Publishers, ReleaseProbe(p)
  PROVE  IInv'
<1> USE LocksAssumption DEF At, Thread
<1> DEFINE t == task[p].thread
<1>1. /\ task[p].at = "published" /\ t \in Threads
      /\ named' = [named EXCEPT ![t] = IF @ = p THEN NoActor ELSE @]
      /\ UNCHANGED <<coordination, file, owners, leaked, deaths, overlapped>>
  BY DEF ReleaseProbe, IInv, TypeOK
<1>2. task' = [b \in Actors |-> IF b = p THEN Stepped(p, "unprobed") ELSE task[b]]
  BY GoTask DEF ReleaseProbe, IInv, Stepped
<1>3. Keeps(p, Stepped(p, "unprobed")) BY <1>1 DEF Keeps, Coordinated
<1>4. CoordinationHeld' BY <1>2, <1>3, CoordinationKept
<1>5. TypeOK'
  BY <1>1, <1>2 DEF IInv, TypeOK, Stepped, WriterSteps, PublisherSteps
<1>6. ASSUME WritersApart' PROVE OwnerNamed' /\ RemovedFileFree' /\ ProbedIdle'
  <2>1. WritersApart BY <1>1, <1>6 DEF WritersApart
  <2>2. OwnerNamed' BY <1>1, <2>1 DEF IInv, TypeOK, OwnerNamed
  <2>3. RemovedFileFree' BY <1>1, <1>2, <2>1 DEF IInv, TypeOK, RemovedFileFree, Stepped
  <2>4. ProbedIdle' BY <1>1, <1>2, <2>1 DEF IInv, ProbedIdle, Stepped
  <2> QED BY <2>2, <2>3, <2>4
<1>7. ClosingOwns' BY <1>1, <1>2 DEF IInv, ClosingOwns, Stepped
<1>8. AllOrNothing' BY <1>1, <1>2 DEF IInv, AllOrNothing, Held, Stepped
<1>9. LockedFileThere' BY <1>1 DEF IInv, TypeOK, LockedFileThere
<1> QED BY <1>4, <1>5, <1>6, <1>7, <1>8, <1>9 DEF IInv

LEMMA DieStep ==
  ASSUME IInv, NEW q \in Processes, Die(q)
  PROVE  IInv'
<1> USE LocksAssumption DEF At, Thread
<1> DEFINE dead == {a \in Actors : ProcessOf[StoreOf[a]] = q}
<1>1. /\ deaths < MaxDeaths /\ deaths' = deaths + 1
      /\ coordination' = IF \E a \in dead : coordination = StoreOf[a]
                         THEN NoStore ELSE coordination
      /\ task' = [a \in Actors |-> IF a \in dead THEN Idle ELSE task[a]]
      /\ named' = [u \in Threads |-> IF named[u] \in dead THEN NoActor ELSE named[u]]
      /\ owners' = [u \in Threads |-> owners[u] \ dead]
      /\ leaked' = {l \in leaked : l[1] \notin dead}
      /\ overlapped' = overlapped \ (dead \cap Publishers)
      /\ file' = file
  BY DEF Die
<1>2. \A a \in dead, b \in Actors \ dead : StoreOf[a] # StoreOf[b]
  OBVIOUS
<1>3. dead \subseteq Actors OBVIOUS
<1> HIDE DEF dead
<1>4. TypeOK'
  BY <1>1, <1>3 DEF IInv, TypeOK, Idle, Rest, WriterSteps, PublisherSteps
<1>5. \A b \in Actors : task'[b].at \in Coordinated => b \notin dead /\ task'[b] = task[b]
  BY <1>1 DEF Idle, Rest, Coordinated
<1>6. CoordinationHeld'
  <2> SUFFICES ASSUME NEW b \in Actors \ overlapped', task'[b].at \in Coordinated
               PROVE  /\ coordination' = StoreOf[b]
                      /\ \A c \in Actors : task'[c].at \in Coordinated /\ StoreOf[c] = StoreOf[b]
                                            => c = b
    BY DEF CoordinationHeld
  <2>1. b \notin dead /\ b \notin overlapped /\ task[b].at \in Coordinated
    BY <1>1, <1>5
  <2>2. /\ coordination = StoreOf[b]
        /\ \A c \in Actors : task[c].at \in Coordinated /\ StoreOf[c] = StoreOf[b] => c = b
    BY <2>1 DEF IInv, CoordinationHeld
  <2>3. \A a \in dead : StoreOf[a] # StoreOf[b] BY <1>2, <2>1
  <2> QED BY <1>1, <1>5, <2>2, <2>3
<1>7. ASSUME WritersApart' PROVE OwnerNamed' /\ RemovedFileFree' /\ ProbedIdle'
  <2>1. WritersApart BY <1>1, <1>7 DEF WritersApart
  <2>2. OwnerNamed' BY <1>1, <1>3, <2>1 DEF IInv, TypeOK, OwnerNamed
  <2>3. RemovedFileFree'
    BY <1>1, <2>1 DEF IInv, TypeOK, RemovedFileFree, Idle, Rest, WriterSteps
  <2>4. ProbedIdle'
    <3> SUFFICES ASSUME NEW p \in Publishers \ overlapped',
                        task'[p].at \in {"check", "publish"}
                 PROVE  owners'[task'[p].thread] = {}
      BY DEF ProbedIdle
    <3>1. p \notin dead /\ p \notin overlapped /\ task'[p] = task[p]
      BY <1>1, <1>5 DEF Coordinated
    <3>2. owners[task[p].thread] = {} /\ task[p].thread \in Threads
      BY <2>1, <3>1 DEF IInv, TypeOK, ProbedIdle
    <3> QED BY <1>1, <3>1, <3>2
  <2> QED BY <2>2, <2>3, <2>4
<1>8. ClosingOwns' BY <1>1, <1>3 DEF IInv, TypeOK, ClosingOwns, Idle, Rest, WriterSteps
<1>9. AllOrNothing'
  <2> SUFFICES ASSUME NEW w \in Writers, task'[w].at = "idle",
                      NEW u \in Threads, w \in owners'[u]
               PROVE  <<w, u>> \in leaked'
    BY DEF AllOrNothing, Held
  <2>1. w \notin dead /\ w \in owners[u] /\ task[w].at = "idle"
    BY <1>1 DEF IInv, TypeOK
  <2>2. <<w, u>> \in leaked BY <2>1 DEF IInv, AllOrNothing, Held
  <2> QED BY <1>1, <2>1, <2>2
<1>10. LockedFileThere' BY <1>1 DEF IInv, TypeOK, LockedFileThere
<1> QED BY <1>4, <1>6, <1>7, <1>8, <1>9, <1>10 DEF IInv

LEMMA StutterStep ==
  ASSUME IInv, UNCHANGED vars
  PROVE  IInv'
BY DEF vars, IInv, TypeOK, CoordinationHeld, OwnerNamed, LockedFileThere, WritersApart,
   RemovedFileFree, ClosingOwns, ProbedIdle, AllOrNothing, Held, At, Thread

LEMMA NextIInv ==
  ASSUME IInv, [Next]_vars
  PROVE  IInv'
<1>1. ASSUME NEW w \in Writers,
             AcquireWriters(w) \/ Acquire(w) \/ Finish(w) \/ Close(w)
      PROVE  IInv'
  BY <1>1, CoordinateStep, TimeOutStep, RequestStep, TryLockStep, UnlockStep, RemoveStep
  DEF Acquire, Close
<1>2. ASSUME NEW p \in Publishers, TryAcquireForPublication(p) \/ Compress(p)
      PROVE  IInv'
  BY <1>2, CoordinateStep, TimeOutStep, CompressorStep, ProbeStep, ReleaseProbeStep
  DEF Compress
<1> QED BY <1>1, <1>2, DieStep, StutterStep DEF Next

LEMMA SpecIInv == Spec => []IInv
<1>1. Init => IInv BY InitIInv
<1>2. IInv /\ [Next]_vars => IInv' BY NextIInv
<1> QED BY <1>1, <1>2, PTL DEF Spec

-------------------------------------------------------------------------------
(* The properties.                                                         *)

(* Every actor is at a step of its own kind and about a thread where it    *)
(* needs one (acquire, Close and tryAcquireForPublication index by it).    *)
THEOREM TypeCorrect == Spec => []TypeOK
BY SpecIInv, PTL DEF IInv

(* AcquireWriter and WriterLock.Close leave a thread one writer, over      *)
(* every process, whichever Stores the actors share, whichever calls time  *)
(* out and whichever process dies: only two requests of one Store that     *)
(* were both let through lockWriterCoordination can break it, tasks of the *)
(* compressor never.                                                       *)
THEOREM SingleWriterHolds == Spec => []SingleWriterKept
<1>1. IInv => SingleWriterKept BY DEF IInv, TypeOK, OwnerNamed, SingleWriter, SingleWriterKept
<1> QED BY <1>1, SpecIInv, PTL

(* TryAcquireForPublication keeps writers out while the compressor         *)
(* replaces the rollout file, in passes of any number of tasks, but for    *)
(* the publication whose coordination another task of the pass took, too.  *)
THEOREM PublicationHolds == Spec => []PublicationKept
<1>1. IInv => PublicationKept
  BY DEF IInv, ProbedIdle, PublicationKept, At
<1> QED BY <1>1, SpecIInv, PTL

(* AcquireWriters leaves nothing behind when it conflicts or times out     *)
(* halfway, but what a Close could not release.                            *)
THEOREM AllOrNothingHolds == Spec => []AllOrNothing
BY SpecIInv, PTL DEF IInv

-------------------------------------------------------------------------------
(* The locks implement WriterOwnership.                                    *)

OwnershipStep == [Ownership!Next]_(Ownership!vars)

(* A publication that counts: under a coordination of its own.             *)
Publishing(p) == p \notin overlapped /\ At(p, "publish")

(* A step that changes neither who owns a thread nor who is publishing.    *)
LEMMA Stutters ==
  ASSUME UNCHANGED owners,
         \A p \in Publishers : /\ Publishing(p)' <=> Publishing(p)
                               /\ Publishing(p) => Thread(p)' = Thread(p)
  PROVE  OwnershipStep
BY DEF OwnershipStep, Ownership!vars, At, Thread, Publishing

(* The step of one actor that neither was nor is publishing.               *)
LEMMA StuttersBy ==
  ASSUME IInv, UNCHANGED owners, NEW a \in Actors, NEW r,
         task' = [b \in Actors |-> IF b = a THEN r ELSE task[b]],
         UNCHANGED overlapped \/ overlapped' = overlapped \ {a},
         task[a].at # "publish" \/ a \in overlapped, r.at # "publish"
  PROVE  OwnershipStep
<1>1. \A p \in Publishers : /\ Publishing(p)' <=> Publishing(p)
                            /\ Publishing(p) => Thread(p)' = Thread(p)
  BY DEF At, Thread, Publishing
<1> QED BY <1>1, Stutters

LEMMA GoStutters ==
  ASSUME IInv, UNCHANGED <<owners, overlapped>>, NEW a \in Actors, NEW s, Go(a, s),
         task[a].at # "publish" \/ a \in overlapped, s # "publish"
  PROVE  OwnershipStep
<1>1. task' = [b \in Actors |-> IF b = a THEN Stepped(a, s) ELSE task[b]]
  BY GoTask DEF IInv, Stepped
<1> QED BY <1>1, StuttersBy DEF Stepped

LEMMA GoForStutters ==
  ASSUME IInv, UNCHANGED <<owners, overlapped>>, NEW a \in Actors, NEW s, NEW t,
         GoFor(a, s, t), task[a].at # "publish", s # "publish"
  PROVE  OwnershipStep
<1>1. task' = [b \in Actors |-> IF b = a THEN SteppedFor(a, s, t) ELSE task[b]]
  BY GoForTask DEF IInv, SteppedFor
<1> QED BY <1>1, StuttersBy DEF SteppedFor

LEMMA LeaveStutters ==
  ASSUME IInv, UNCHANGED owners, NEW a \in Actors, NEW s, Leave(a, s),
         UNCHANGED overlapped \/ overlapped' = overlapped \ {a},
         task[a].at # "publish", s # "publish"
  PROVE  OwnershipStep
<1>1. task' = [b \in Actors |-> IF b = a THEN Rest(s) ELSE task[b]]
  BY LeaveTask DEF IInv
<1>2. Rest(s).at # "publish" BY DEF Rest
<1> QED BY <1>1, <1>2, StuttersBy, Zenon

(* Taking the coordination ends the publication that had it in the same    *)
(* Store: there is at most one that counts.                                *)
LEMMA CoordinateRefines ==
  ASSUME IInv, NEW a \in Actors, Coordinate(a)
  PROVE  OwnershipStep
<1> USE DEF At, Thread, locks
<1>1. PICK s \in {"lock", "unlock", "probe"} : Go(a, s)
  BY DEF Coordinate
<1>2. /\ task[a].at \in {"open", "close", "seek"} /\ UNCHANGED owners
      /\ overlapped \subseteq overlapped'
      /\ overlapped' \subseteq overlapped \cup {a} \cup Sharers(a)
  BY DEF Coordinate, Overlap
<1>3. task' = [b \in Actors |-> IF b = a THEN Stepped(a, s) ELSE task[b]]
  BY <1>1, GoTask DEF IInv, Stepped
<1>4. \A p \in Publishers : /\ task'[p].at = "publish" <=> task[p].at = "publish"
                            /\ task[p].at = "publish" => task'[p].thread = task[p].thread
  BY <1>2, <1>3 DEF Stepped
<1>5. CASE \A p \in Publishers : Publishing(p) => p \notin overlapped'
  <2>1. \A p \in Publishers : /\ Publishing(p)' <=> Publishing(p)
                              /\ Publishing(p) => Thread(p)' = Thread(p)
    BY <1>2, <1>4, <1>5 DEF Publishing
  <2> QED BY <1>2, <2>1, Stutters
<1>6. CASE \E p \in Publishers : Publishing(p) /\ p \in overlapped'
  <2>1. PICK p \in Publishers : Publishing(p) /\ p \in overlapped' BY <1>6
  <2>2. \A b \in Publishers : Publishing(b) => b = p
    BY <2>1, OneCoordinated DEF IInv, Coordinated, Publishing
  <2>3. \A b \in Publishers : ~Publishing(b)'
    BY <1>2, <1>4, <2>1, <2>2 DEF Publishing
  <2>4. PICK u \in Threads : u = task[p].thread BY <2>1 DEF IInv, TypeOK, Publishing
  <2>5. Ownership!EndPublication(u)
    BY <1>2, <2>1, <2>2, <2>3, <2>4 DEF Ownership!EndPublication, Publishing
  <2> QED BY <2>4, <2>5 DEF OwnershipStep, Ownership!Next
<1> QED BY <1>5, <1>6

LEMMA WriterRefines ==
  ASSUME IInv, WritersApart, NEW w \in Writers,
         AcquireWriters(w) \/ Acquire(w) \/ Finish(w) \/ Close(w)
  PROVE  OwnershipStep
<1> USE DEF At, Thread, locks
<1>1. CASE AcquireWriters(w)
  <2>1. PICK ids \in SUBSET Threads :
          task' = [task EXCEPT ![w] = [at |-> "next", thread |-> NoThread, wants |-> ids]]
    BY <1>1 DEF AcquireWriters
  <2>2. task' = [b \in Actors |->
                   IF b = w THEN [at |-> "next", thread |-> NoThread, wants |-> ids]
                   ELSE task[b]]
    BY <2>1 DEF IInv, TypeOK
  <2> DEFINE r == [at |-> "next", thread |-> NoThread, wants |-> ids]
  <2>3. r.at # "publish" OBVIOUS
  <2>4. task[w].at # "publish" /\ UNCHANGED <<owners, overlapped>>
    BY <1>1 DEF AcquireWriters
  <2> HIDE DEF r
  <2>5. task' = [b \in Actors |-> IF b = w THEN r ELSE task[b]] BY <2>2 DEF r
  <2> QED BY <2>3, <2>4, <2>5, StuttersBy
<1>2. CASE Coordinate(w) BY <1>2, CoordinateRefines
<1>3. CASE OpenTimesOut(w) BY <1>3, GoStutters DEF OpenTimesOut
<1>4. CASE NextWriter(w) BY <1>4, GoForStutters, LeaveStutters DEF NextWriter
<1>5. CASE TryLock(w)
  <2> DEFINE t == task[w].thread
  <2>1. CASE Go(w, "refused") /\ UNCHANGED owners
    BY <1>5, <2>1, GoStutters DEF TryLock
  <2>2. CASE /\ named[t] = NoActor /\ Go(w, "granted")
             /\ owners' = [owners EXCEPT ![t] = @ \cup {w}]
    <3>1. task[w].at = "lock" /\ t \in Threads /\ UNCHANGED overlapped
      BY <1>5 DEF TryLock, IInv, TypeOK
    <3>2. owners[t] = {}
      <4> SUFFICES ASSUME NEW v \in owners[t] PROVE FALSE
        OBVIOUS
      <4>1. v \in Writers BY <3>1 DEF IInv, TypeOK
      <4>2. named[t] = v BY <3>1, <4>1 DEF IInv, OwnerNamed
      <4> QED BY <2>2, <4>1, <4>2, LocksAssumption
    <3>3. \A p \in Publishers \ overlapped : task[p].at # "publish"
      BY <3>1, OneCoordinated, LocksAssumption DEF IInv, Coordinated, WritersApart
    <3>4. task' = [b \in Actors |-> IF b = w THEN Stepped(w, "granted") ELSE task[b]]
      BY <2>2, GoTask DEF IInv, Stepped
    <3>5. \A p \in Publishers \ overlapped : task'[p].at # "publish"
      BY <3>3, <3>4 DEF Stepped
    <3>6. Ownership!Acquire(w, t)
      BY <2>2, <3>1, <3>2, <3>3, <3>5 DEF Ownership!Acquire
    <3> QED BY <3>1, <3>6 DEF OwnershipStep, Ownership!Next
  <2> QED BY <1>5, <2>1, <2>2 DEF TryLock
<1>6. CASE AcquireReturns(w) BY <1>6, GoForStutters, LeaveStutters DEF AcquireReturns
<1>7. CASE Finish(w) BY <1>7, LeaveStutters DEF Finish
<1>8. CASE CloseTimesOut(w) BY <1>8, GoStutters DEF CloseTimesOut
<1>9. CASE ReleaseNext(w) BY <1>9, GoForStutters, LeaveStutters DEF ReleaseNext
<1>10. CASE Unlock(w)
  <2> DEFINE t == task[w].thread
  <2>1. /\ task[w].at = "unlock" /\ t \in Threads /\ UNCHANGED overlapped
        /\ owners' = [owners EXCEPT ![t] = @ \ {w}]
    BY <1>10 DEF Unlock, IInv, TypeOK
  <2>2. task' = [b \in Actors |-> IF b = w THEN Stepped(w, "remove") ELSE task[b]]
    BY <1>10, GoTask DEF Unlock, IInv, Stepped
  <2>3. \A p \in Publishers : /\ task'[p].at = "publish" <=> task[p].at = "publish"
                              /\ task[p].at = "publish" => task'[p].thread = task[p].thread
    BY <2>1, <2>2 DEF Stepped
  <2>4. Ownership!Release(w, t)
    BY <2>1, <2>3 DEF Ownership!Release
  <2> QED BY <2>1, <2>4 DEF OwnershipStep, Ownership!Next
<1>11. CASE Remove(w) BY <1>11, GoStutters DEF Remove
<1>12. CASE CloseReturns(w) BY <1>12, LeaveStutters DEF CloseReturns
<1> QED BY <1>1, <1>2, <1>3, <1>4, <1>5, <1>6, <1>7, <1>8, <1>9, <1>10, <1>11, <1>12
        DEF Acquire, Close

LEMMA PublisherRefines ==
  ASSUME IInv, WritersApart, NEW p \in Publishers,
         TryAcquireForPublication(p) \/ Compress(p)
  PROVE  OwnershipStep
<1> USE DEF At, Thread, locks
<1> DEFINE t == task[p].thread
<1>1. CASE TryAcquireForPublication(p)
  BY <1>1, GoForStutters DEF TryAcquireForPublication
<1>2. CASE Coordinate(p) BY <1>2, CoordinateRefines
<1>3. CASE PublicationTimesOut(p) BY <1>3, LeaveStutters DEF PublicationTimesOut
<1>4. CASE Probe(p) BY <1>4, GoStutters DEF Probe
<1>5. CASE ProbeRefused(p) BY <1>5, LeaveStutters DEF ProbeRefused
<1>6. CASE CheckRollout(p)
  <2>1. CASE Go(p, "published")
    BY <1>6, <2>1, GoStutters DEF CheckRollout
  <2>2. CASE Go(p, "publish")
    <3>1. task[p].at = "check" /\ t \in Threads /\ UNCHANGED <<owners, overlapped>>
      BY <1>6 DEF CheckRollout, IInv, TypeOK
    <3>2. task' = [b \in Actors |-> IF b = p THEN Stepped(p, "publish") ELSE task[b]]
      BY <2>2, GoTask DEF IInv, Stepped
    <3>3. CASE p \in overlapped
      <4>1. \A b \in Publishers : /\ Publishing(b)' <=> Publishing(b)
                                  /\ Publishing(b) => Thread(b)' = Thread(b)
        BY <3>1, <3>2, <3>3 DEF Publishing
      <4> QED BY <3>1, <4>1, Stutters
    <3>4. CASE p \notin overlapped
      <4>1. owners[t] = {} BY <3>1, <3>4 DEF IInv, ProbedIdle
      <4>2. PICK u \in Threads : u = t BY <3>1
      <4>3. Ownership!StartPublication(u)
        BY <3>1, <3>2, <3>4, <4>1, <4>2 DEF Ownership!StartPublication, Stepped
      <4> QED BY <4>3 DEF OwnershipStep, Ownership!Next
    <3> QED BY <3>3, <3>4
  <2> QED BY <1>6, <2>1, <2>2 DEF CheckRollout
<1>7. CASE Publish(p)
  <2>1. /\ task[p].at = "publish" /\ t \in Threads /\ Go(p, "published")
        /\ UNCHANGED <<owners, overlapped>>
    BY <1>7 DEF Publish, IInv, TypeOK
  <2>2. CASE p \in overlapped BY <2>1, <2>2, GoStutters
  <2>3. CASE p \notin overlapped
    <3>1. task' = [b \in Actors |-> IF b = p THEN Stepped(p, "published") ELSE task[b]]
      BY <2>1, GoTask DEF IInv, Stepped
    <3>2. \A b \in Publishers \ overlapped : task[b].at = "publish" => b = p
      BY <2>1, <2>3, OneCoordinated DEF IInv, Coordinated
    <3>3. PICK u \in Threads : u = t BY <2>1
    <3>4. Ownership!EndPublication(u)
      BY <2>1, <3>1, <3>2, <3>3 DEF Ownership!EndPublication, Stepped
    <3> QED BY <3>4 DEF OwnershipStep, Ownership!Next
  <2> QED BY <2>2, <2>3
<1>8. CASE ReleaseProbe(p) BY <1>8, GoStutters DEF ReleaseProbe
<1>9. CASE ReleaseCoordination(p) BY <1>9, LeaveStutters DEF ReleaseCoordination
<1> QED BY <1>1, <1>2, <1>3, <1>4, <1>5, <1>6, <1>7, <1>8, <1>9 DEF Compress

LEMMA DieRefines ==
  ASSUME IInv, NEW q \in Processes, Die(q)
  PROVE  OwnershipStep
<1> USE DEF At, Thread
<1> DEFINE dead == {a \in Actors : ProcessOf[StoreOf[a]] = q}
<1>1. /\ task' = [a \in Actors |-> IF a \in dead THEN Idle ELSE task[a]]
      /\ owners' = [u \in Threads |-> owners[u] \ dead]
      /\ overlapped' = overlapped \ (dead \cap Publishers)
  BY DEF Die
<1> HIDE DEF dead
<1>2. owners' = [u \in Threads |-> owners[u] \ (dead \cap Writers)]
  BY <1>1 DEF IInv, TypeOK
<1>3. \A p \in Publishers : task'[p].at = "publish" /\ p \notin overlapped' =>
        /\ task[p].at = "publish" /\ p \notin overlapped
        /\ task'[p].thread = task[p].thread
  BY <1>1 DEF Idle, Rest
<1>4. Ownership!Die(dead \cap Writers)
  BY <1>2, <1>3 DEF Ownership!Die
<1> QED BY <1>4 DEF OwnershipStep, Ownership!Next

(* Every behaviour of the locks is one WriterOwnership allows, until two   *)
(* requests overlap: what AcquireWriters, Close and                        *)
(* TryAcquireForPublication do to the files is the taking and leaving of a *)
(* thread by one writer or one publication.                                *)
THEOREM LocksImplementOwnership == Spec => OwnershipKept
<1> DEFINE Kept == [WritersApart => Ownership!Next]_(Ownership!vars)
<1>1. Init => Ownership!Init
  BY DEF Init, Ownership!Init, At, Idle, Rest
<1>2. IInv /\ [Next]_vars => Kept
  <2>1. CASE UNCHANGED vars
    <3>1. OwnershipStep BY <2>1, Stutters DEF vars, At, Thread, Publishing
    <3> QED BY <3>1 DEF OwnershipStep
  <2>2. ASSUME IInv, Next, WritersApart PROVE OwnershipStep
    BY <2>2, WriterRefines, PublisherRefines, DieRefines DEF Next
  <2> QED BY <2>1, <2>2 DEF OwnershipStep
<1>3. Spec => []IInv BY SpecIInv
<1> QED BY <1>1, <1>2, <1>3, PTL DEF Spec, OwnershipKept
===============================================================================
