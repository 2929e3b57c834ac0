------------------------------ MODULE WriterLocks ------------------------------
(***************************************************************************)
(* The lock files that keep one writer per thread over every process of a  *)
(* session root: AcquireWriters and WriterLock.Close, which opening and    *)
(* closing a live thread come down to, and the publication lock under      *)
(* which the compressor replaces the rollout file of an idle thread.       *)
(*                                                                         *)
(* A Store keeps one coordination flock object for all its goroutines.     *)
(* The lock of a thread is a flock object of its own, on a file that Close *)
(* removes.  An object that holds its lock answers TRUE when it is tried   *)
(* again, and Unlock gives the lock back whoever tried it.  A process that *)
(* dies loses its locks and leaves its files.  flock and the file system   *)
(* are external and do not fail here.                                      *)
(*                                                                         *)
(* An actor is a request, or a task of the compressor, and "at" names the  *)
(* step it takes next.  The requests of one Router share its Store, and    *)
(* the tasks of one compression pass share the pass's.                     *)
(***************************************************************************)
EXTENDS Naturals

CONSTANTS
  Threads,     (* threads, ordered as their ids are                        *)
  Writers,     (* requests and live threads that own threads               *)
  Publishers,  (* tasks of the compressor, each about one rollout file     *)
  RolloutOf,   (* the thread of that file                                  *)
  Stores,      (* Store values, of every process                           *)
  NoThread,
  NoStore,
  NoActor,
  StoreOf,     (* the Store an actor uses                                  *)
  Processes,
  ProcessOf,   (* the process a Store lives in                             *)
  MaxDeaths    (* processes that die                                       *)

Actors == Writers \cup Publishers

ASSUME LocksAssumption ==
  /\ Threads \subseteq Nat
  /\ Writers \cap Publishers = {}
  /\ NoThread \notin Threads /\ NoActor \notin Actors /\ NoStore \notin Stores
  /\ RolloutOf \in [Publishers -> Threads]
  /\ StoreOf \in [Actors -> Stores]
  /\ ProcessOf \in [Stores -> Processes]
  /\ MaxDeaths \in Nat

VARIABLES
  coordination,  (* the Store whose object has the coordination lock       *)
  task,          (* step, thread and wanted threads of each actor          *)
  named,         (* who has the lock of the file at a thread's path        *)
  file,          (* whether that file is there                             *)
  owners,        (* writers with a lock on a file of the thread            *)
  leaked,        (* locks whose Close has given up                         *)
  deaths,        (* processes that died so far                             *)
  overlapped     (* history: requests that ever had the coordination with  *)
                 (* another actor, and tasks that do now                   *)

locks == <<named, file, owners, leaked>>
vars == <<coordination, task, named, file, owners, leaked, deaths, overlapped>>

WriterSteps ==
  {"idle", "next", "open", "lock", "granted", "refused", "writing",
   "release", "close", "unlock", "remove", "closed"}
PublisherSteps ==
  {"idle", "seek", "probe", "refused", "check", "publish", "published",
   "unprobed"}

(* The steps between the taking and the giving back of the coordination.   *)
Coordinated ==
  {"lock", "granted", "refused", "unlock", "remove", "closed",
   "probe", "check", "publish", "published", "unprobed"}

At(a, step) == task[a].at = step
Thread(a) == task[a].thread
Go(a, step) ==
  task' = [task EXCEPT ![a] =
             [at |-> step, thread |-> @.thread, wants |-> @.wants]]
GoFor(a, step, t) ==
  task' = [task EXCEPT ![a] = [at |-> step, thread |-> t, wants |-> @.wants]]

(* ... or about none, with nothing wanted any more.                        *)
Rest(step) == [at |-> step, thread |-> NoThread, wants |-> {}]
Leave(a, step) == task' = [task EXCEPT ![a] = Rest(step)]

Idle == Rest("idle")

(* The locks a still has to close.                                         *)
Held(a) == {t \in Threads : a \in owners[t] /\ <<a, t>> \notin leaked}

Init ==
  /\ coordination = NoStore
  /\ task = [a \in Actors |-> Idle]
  /\ named = [t \in Threads |-> NoActor]
  /\ file = [t \in Threads |-> FALSE]
  /\ owners = [t \in Threads |-> {}]
  /\ leaked = {}
  /\ deaths = 0
  /\ overlapped = {}

-------------------------------------------------------------------------------
(* The coordination lock.                                                  *)

(* Who else uses the lock object of a's Store now.                         *)
Sharers(a) ==
  {b \in Actors \ {a} : StoreOf[b] = StoreOf[a] /\ task[b].at \in Coordinated}

(* a takes the coordination, with its sharers or alone.                    *)
Overlap(a) ==
  overlapped' = overlapped \cup IF Sharers(a) = {} THEN {} ELSE {a} \cup Sharers(a)

(* Mutant: the answer of TryLock is ignored.                               *)
CoordinateAnyway(a) ==
  /\ \/ At(a, "open") /\ Go(a, "lock")
     \/ At(a, "close") /\ Go(a, "unlock")
     \/ At(a, "seek") /\ Go(a, "probe")
  /\ coordination' = StoreOf[a]
  /\ Overlap(a)
  /\ UNCHANGED <<locks, deaths>>

(* lockWriterCoordination: one of the tries succeeds ...                   *)
Coordinate(a) ==
  /\ \/ At(a, "open") /\ Go(a, "lock")
     \/ At(a, "close") /\ Go(a, "unlock")
     \/ At(a, "seek") /\ Go(a, "probe")
  /\ coordination \in {NoStore, StoreOf[a]}
  /\ coordination' = StoreOf[a]
  /\ Overlap(a)
  /\ UNCHANGED <<locks, deaths>>

Busy(a) == coordination \notin {NoStore, StoreOf[a]}

(* ... or the deadline passes.  A request that was acquiring releases what *)
(* it has, Close leaves the lock it was to release for good, and the       *)
(* compressor skips the file.                                              *)
OpenTimesOut(a) ==
  /\ At(a, "open") /\ Busy(a)
  /\ Go(a, "release")
  /\ UNCHANGED <<coordination, locks, deaths, overlapped>>

CloseTimesOut(a) ==
  /\ At(a, "close") /\ Busy(a)
  /\ leaked' = leaked \cup {<<a, Thread(a)>>}
  /\ Go(a, "release")
  /\ UNCHANGED <<coordination, named, file, owners, deaths, overlapped>>

PublicationTimesOut(p) ==
  /\ At(p, "seek") /\ Busy(p)
  /\ Leave(p, "idle")
  /\ UNCHANGED <<coordination, locks, deaths, overlapped>>

(* The object's Unlock, whoever locked it.                                 *)
Uncoordinate(a) ==
  coordination' = IF coordination = StoreOf[a] THEN NoStore ELSE coordination

-------------------------------------------------------------------------------
(* AcquireWriters: the ids are sorted, and one is locked after the other.  *)

AcquireWriters(w) ==
  /\ At(w, "idle")
  /\ \A t \in Threads : <<w, t>> \notin leaked
  /\ \E ids \in SUBSET Threads \ {{}} :
       task' = [task EXCEPT ![w] = [at |-> "next", thread |-> NoThread, wants |-> ids]]
  /\ UNCHANGED <<coordination, locks, deaths, overlapped>>

NextWriter(w) ==
  /\ At(w, "next")
  /\ LET missing == task[w].wants \ Held(w)
     IN  \/ missing = {} /\ Leave(w, "writing")
         \/ \E t \in missing :
              (\A u \in missing : t <= u) /\ GoFor(w, "open", t)
  /\ UNCHANGED <<coordination, locks, deaths, overlapped>>

(* acquire: TryLock creates the file that is not there.                    *)
TryLock(w) ==
  /\ At(w, "lock")
  /\ LET t == Thread(w)
     IN  /\ file' = [file EXCEPT ![t] = TRUE]
         /\ IF named[t] = NoActor
            THEN /\ named' = [named EXCEPT ![t] = w]
                 /\ owners' = [owners EXCEPT ![t] = @ \cup {w}]
                 /\ Go(w, "granted")
            ELSE Go(w, "refused") /\ UNCHANGED <<named, owners>>
  /\ UNCHANGED <<coordination, leaked, deaths, overlapped>>

(* Mutant: a conflict keeps the threads that were acquired before it.      *)
RefusedKeepsOthers(w) ==
  /\ \/ At(w, "granted") /\ GoFor(w, "next", NoThread)
     \/ At(w, "refused") /\ Leave(w, "idle")
  /\ Uncoordinate(w)
  /\ UNCHANGED <<locks, deaths, overlapped>>

(* acquire returns: the next id, or a conflict.                            *)
AcquireReturns(w) ==
  /\ \/ At(w, "granted") /\ GoFor(w, "next", NoThread)
     \/ At(w, "refused") /\ Leave(w, "release")
  /\ Uncoordinate(w)
  /\ UNCHANGED <<locks, deaths, overlapped>>

(* The work is done, or the live thread closed.                            *)
Finish(w) ==
  /\ At(w, "writing")
  /\ Leave(w, "release")
  /\ UNCHANGED <<coordination, locks, deaths, overlapped>>

(* releaseWriterLocks, last lock first.                                    *)
ReleaseNext(w) ==
  /\ At(w, "release")
  /\ \/ Held(w) = {} /\ Leave(w, "idle")
     \/ \E t \in Held(w) : (\A u \in Held(w) : u <= t) /\ GoFor(w, "close", t)
  /\ UNCHANGED <<coordination, locks, deaths, overlapped>>

(* Mutant: the coordination lock is given back with the thread lock.       *)
UnlockEarly(w) ==
  /\ At(w, "unlock")
  /\ LET t == Thread(w)
     IN  /\ owners' = [owners EXCEPT ![t] = @ \ {w}]
         /\ named' = [named EXCEPT ![t] = IF @ = w THEN NoActor ELSE @]
  /\ Uncoordinate(w)
  /\ Go(w, "remove")
  /\ UNCHANGED <<file, leaked, deaths, overlapped>>

(* Close: the lock first, ...                                              *)
Unlock(w) ==
  /\ At(w, "unlock")
  /\ LET t == Thread(w)
     IN  /\ owners' = [owners EXCEPT ![t] = @ \ {w}]
         /\ named' = [named EXCEPT ![t] = IF @ = w THEN NoActor ELSE @]
  /\ Go(w, "remove")
  /\ UNCHANGED <<coordination, file, leaked, deaths, overlapped>>

(* ... then the file, with the lock of whoever has it by now, ...          *)
Remove(w) ==
  /\ At(w, "remove")
  /\ file' = [file EXCEPT ![Thread(w)] = FALSE]
  /\ named' = [named EXCEPT ![Thread(w)] = NoActor]
  /\ Go(w, "closed")
  /\ UNCHANGED <<coordination, owners, leaked, deaths, overlapped>>

(* ... and the coordination lock.                                          *)
CloseReturns(w) ==
  /\ At(w, "closed")
  /\ Leave(w, "release")
  /\ Uncoordinate(w)
  /\ UNCHANGED <<locks, deaths, overlapped>>

-------------------------------------------------------------------------------
(* compressRolloutIfCold.                                                  *)

TryAcquireForPublication(p) ==
  /\ At(p, "idle")
  /\ GoFor(p, "seek", RolloutOf[p])
  /\ UNCHANGED <<coordination, locks, deaths, overlapped>>

(* Mutant: an owned file is taken for an idle thread.                      *)
ProbeIgnoresOwner(p) ==
  /\ At(p, "probe")
  /\ LET t == Thread(p)
     IN  IF file[t] /\ named[t] = NoActor
         THEN named' = [named EXCEPT ![t] = p] /\ Go(p, "check")
         ELSE UNCHANGED named /\ Go(p, "check")
  /\ UNCHANGED <<coordination, file, owners, leaked, deaths, overlapped>>

(* tryAcquireForPublication: a missing file is not created and not locked. *)
Probe(p) ==
  /\ At(p, "probe")
  /\ LET t == Thread(p)
     IN  \/ ~file[t] /\ Go(p, "check") /\ UNCHANGED named
         \/ file[t] /\ named[t] # NoActor /\ Go(p, "refused") /\ UNCHANGED named
         \/ /\ file[t] /\ named[t] = NoActor
            /\ named' = [named EXCEPT ![t] = p]
            /\ Go(p, "check")
  /\ UNCHANGED <<coordination, file, owners, leaked, deaths, overlapped>>

ProbeRefused(p) ==
  /\ At(p, "refused")
  /\ Leave(p, "idle")
  /\ Uncoordinate(p)
  /\ overlapped' = overlapped \ {p}
  /\ UNCHANGED <<locks, deaths>>

(* The final look at the rollout file: it is as it was when it was read,   *)
(* and "publish" begins, or the file is skipped.                           *)
CheckRollout(p) ==
  /\ At(p, "check")
  /\ Go(p, "publish") \/ Go(p, "published")
  /\ UNCHANGED <<coordination, locks, deaths, overlapped>>

(* The compressed file has its name, the plain one is removed.             *)
Publish(p) ==
  /\ At(p, "publish")
  /\ Go(p, "published")
  /\ UNCHANGED <<coordination, locks, deaths, overlapped>>

(* Release: the probe, and then the coordination lock.                     *)
ReleaseProbe(p) ==
  /\ At(p, "published")
  /\ named' = [named EXCEPT ![Thread(p)] = IF @ = p THEN NoActor ELSE @]
  /\ Go(p, "unprobed")
  /\ UNCHANGED <<coordination, file, owners, leaked, deaths, overlapped>>

ReleaseCoordination(p) ==
  /\ At(p, "unprobed")
  /\ Leave(p, "idle")
  /\ Uncoordinate(p)
  /\ overlapped' = overlapped \ {p}
  /\ UNCHANGED <<locks, deaths>>

-------------------------------------------------------------------------------

(* A process dies with all its actors, and is started again.               *)
Die(q) ==
  LET dead == {a \in Actors : ProcessOf[StoreOf[a]] = q}
  IN  /\ deaths < MaxDeaths
      /\ deaths' = deaths + 1
      /\ coordination' = IF \E a \in dead : coordination = StoreOf[a]
                         THEN NoStore ELSE coordination
      /\ task' = [a \in Actors |-> IF a \in dead THEN Idle ELSE task[a]]
      /\ named' = [t \in Threads |-> IF named[t] \in dead THEN NoActor ELSE named[t]]
      /\ owners' = [t \in Threads |-> owners[t] \ dead]
      /\ leaked' = {l \in leaked : l[1] \notin dead}
      /\ overlapped' = overlapped \ (dead \cap Publishers)
      /\ UNCHANGED file

(* Mutant: the wait for the coordination lock has no deadline.             *)
AcquireForever(w) ==
  \/ Coordinate(w)
  \/ NextWriter(w) \/ TryLock(w) \/ AcquireReturns(w)

Acquire(w) ==
  \/ Coordinate(w) \/ OpenTimesOut(w)
  \/ NextWriter(w) \/ TryLock(w) \/ AcquireReturns(w)

Close(w) ==
  CloseTimesOut(w) \/ ReleaseNext(w) \/ Unlock(w) \/ Remove(w) \/ CloseReturns(w)

Compress(p) ==
  \/ Coordinate(p) \/ PublicationTimesOut(p)
  \/ Probe(p) \/ ProbeRefused(p) \/ CheckRollout(p) \/ Publish(p)
  \/ ReleaseProbe(p) \/ ReleaseCoordination(p)

Next ==
  \/ \E w \in Writers : AcquireWriters(w) \/ Acquire(w) \/ Finish(w) \/ Close(w)
  \/ \E p \in Publishers : TryAcquireForPublication(p) \/ Compress(p)
  \/ \E q \in Processes : Die(q)

Spec == Init /\ [][Next]_vars

(* Only the requests are scheduled: a process of the compressor may be     *)
(* suspended with the coordination lock in its hands.                      *)
FairSpec == Spec /\ \A w \in Writers : WF_vars(Acquire(w) \/ Close(w))

-------------------------------------------------------------------------------
(* Properties.                                                             *)

(* No request has had the coordination together with another goroutine of  *)
(* its Store.  The object of a Store lets that happen, and the properties  *)
(* below say what holds until it does, and that nothing else breaks them.  *)
WritersApart == Writers \cap overlapped = {}

(* Every actor is at a step of its own kind, about a thread when the step  *)
(* needs one (acquire, tryAcquireForPublication and Close index by it).    *)
TypeOK ==
  /\ coordination \in Stores \cup {NoStore}
  /\ task \in [Actors -> [at : WriterSteps \cup PublisherSteps,
                          thread : Threads \cup {NoThread},
                          wants : SUBSET Threads]]
  /\ \A w \in Writers : task[w].at \in WriterSteps
  /\ \A p \in Publishers : task[p].at \in PublisherSteps
  /\ \A a \in Actors :
       task[a].at \notin {"idle", "next", "writing", "release"} => Thread(a) \in Threads
  /\ named \in [Threads -> Actors \cup {NoActor}]
  /\ file \in [Threads -> BOOLEAN]
  /\ owners \in [Threads -> SUBSET Writers]
  /\ leaked \subseteq Writers \X Threads
  /\ deaths \in 0..MaxDeaths
  /\ overlapped \subseteq Actors

(* A thread has one writer, over every process, also when a Close removes  *)
(* the file another acquire may have opened, after a Close that timed out  *)
(* and after a process died (AcquireWriter, WriterLock.Close) ...          *)
SingleWriter == \A t \in Threads : \A v, w \in owners[t] : v = w

(* ... whatever Stores the actors share, as long as no two requests of one *)
(* had the coordination together (lockWriterCoordination).                 *)
SingleWriterKept == WritersApart => SingleWriter

(* What the comment on PublicationLock says: no writer starts between the  *)
(* compressor's final look at a rollout file and its removal.              *)
NoWriterDuringPublication ==
  \A p \in Publishers : At(p, "publish") => owners[Thread(p)] = {}

(* That is so for every publication but one whose coordination another     *)
(* task of its pass took, too, before it ended (TryAcquireForPublication). *)
PublicationKept ==
  WritersApart =>
    \A p \in Publishers \ overlapped : At(p, "publish") => owners[Thread(p)] = {}

(* A request that is over owns nothing but what a Close could not release: *)
(* AcquireWriters is all or nothing, also when it conflicts or times out   *)
(* halfway.                                                                *)
AllOrNothing == \A w \in Writers : At(w, "idle") => Held(w) = {}

(* The locks implement what they promise: each thread's writers and the    *)
(* threads that are published under a coordination of one's own change as  *)
(* in WriterOwnership only, until two requests overlap.                    *)
Ownership == INSTANCE WriterOwnership WITH
  writers <- owners,
  publishing <- {t \in Threads : \E p \in Publishers \ overlapped :
                                   At(p, "publish") /\ Thread(p) = t}

OwnershipKept ==
  Ownership!Init /\ [][WritersApart => Ownership!Next]_(Ownership!vars)

(* No request waits forever for the coordination lock, even if the process *)
(* that has it is suspended (lockWriterCoordination).                      *)
CallsReturn ==
  \A w \in Writers : At(w, "open") \/ At(w, "close") ~> ~(At(w, "open") \/ At(w, "close"))
===============================================================================
