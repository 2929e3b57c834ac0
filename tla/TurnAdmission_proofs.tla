------------------------ MODULE TurnAdmission_proofs ------------------------
(***************************************************************************)
(* Proofs about TurnAdmission, for every set of threads, requests,         *)
(* continuations and pausers: the pause is exclusive, the wait group       *)
(* counts every goroutine, and a closed server is quiet.                   *)
(***************************************************************************)
EXTENDS TurnAdmission, FiniteSetTheorems, TLAPS

(* Every permit is held by a request that has not returned.                *)
PermitsCounted == admittedWork = Cardinality(Holding)

PauseHasPauser == paused <=> Pausing # {}

(* A registered turn has a running worker and nobody reports its end.      *)
TurnsRun ==
    /\ \A t \in Threads : active[t] \in Jobs =>
          /\ ThreadOf[active[t]] = t
          /\ worker[active[t]] = "running" /\ publisher[active[t]] = "none"
    /\ \A j \in Jobs :
          /\ handler[j] \in {"idle", "admitted", "reserved", "started"} => worker[j] = "none"
          /\ worker[j] = "none" => publisher[j] = "none"

(* Once shutdown took the turns, nothing is left that could start one.     *)
GateStaysClosed ==
    /\ shutdown # "serving" => closing
    /\ shutdown \in {"waiting", "closed", "timedOut"} =>
          /\ NoTurnActive
          /\ \A j \in Dispatched : handler[j] \in {"idle", "done"}
          /\ \A j \in Publishing : Tracked(j)
    /\ shutdown = "closed" => turnWG = 0

IInv ==
    /\ TypeOK
    /\ PermitsCounted
    /\ PauseHasPauser
    /\ PauseExclusive
    /\ TurnsRun
    /\ WorkersCounted
    /\ GateStaysClosed

----------------------------------------------------------------------------
(* Sets of jobs are finite, so that they can be counted.                   *)

LEMMA JobSets ==
    ASSUME NEW S \in SUBSET Jobs
    PROVE  IsFiniteSet(S) /\ Cardinality(S) \in Nat /\ (Cardinality(S) = 0 <=> S = {})
BY AdmissionAssumption, FS_Subset, FS_CardinalityType, FS_EmptySet

(* The initial state satisfies the invariant: nobody holds, runs or waits. *)
LEMMA InitEstablishes == Init => IInv
<1> SUFFICES ASSUME Init PROVE IInv
  OBVIOUS
<1>1. TypeOK
  BY AdmissionAssumption DEF Init, TypeOK, HandlerPC, WorkerPC, PublisherPC, PauserPC, ShutdownPC, Owners
<1>2. Holding = {} /\ Running = {} /\ Publishing = {} /\ Pausing = {}
  BY DEF Init, Holding, InFlight, Running, Publishing, Pausing, Dispatched, Jobs
<1>3. PermitsCounted /\ WorkersCounted
  <2>1. {j \in Publishing : Tracked(j)} = {}
    BY <1>2
  <2> QED
    BY <1>2, <2>1, FS_EmptySet DEF Init, PermitsCounted, WorkersCounted
<1>4. PauseHasPauser /\ PauseExclusive
  BY <1>2 DEF Init, PauseHasPauser, PauseExclusive
<1>5. TurnsRun /\ GateStaysClosed
  BY AdmissionAssumption DEF Init, TurnsRun, GateStaysClosed
<1> QED
  BY <1>1, <1>3, <1>4, <1>5 DEF IInv

----------------------------------------------------------------------------
(* Permits: a request holds one from its admission to its return.          *)

(* Every step of a handler but the first and the last keeps the permit.    *)
LEMMA HandlerKeepsPermit ==
    ASSUME TypeOK, NEW j \in Jobs, NEW to \in InFlight, HandlerGoes(j, to),
           j \in Dispatched => handler[j] \in InFlight
    PROVE  Holding' = Holding
BY DEF TypeOK, HandlerGoes, Holding, InFlight, Dispatched, Jobs

LEMMA PermitsStep == IInv /\ [Next]_vars => PermitsCounted'
<1> SUFFICES ASSUME IInv, [Next]_vars PROVE PermitsCounted'
  OBVIOUS
<1>a. TypeOK /\ PermitsCounted
  BY DEF IInv
<1>b. Holding \in SUBSET Jobs
  BY DEF Holding, Dispatched, Jobs
<1>1. ASSUME UNCHANGED <<handler, admittedWork>> PROVE PermitsCounted'
  BY <1>a, <1>1 DEF PermitsCounted, Holding
<1>2. ASSUME Holding' = Holding, UNCHANGED admittedWork PROVE PermitsCounted'
  BY <1>a, <1>2 DEF PermitsCounted
<1>3. ASSUME NEW j \in Jobs, AdmitTurnWork(j) PROVE PermitsCounted'
  <2>1. CASE closing \/ paused
    <3>1. Holding' = Holding
      BY <1>a, <1>3, <2>1 DEF AdmitTurnWork, TypeOK, HandlerGoes, Holding, InFlight, Dispatched, Jobs
    <3> QED
      BY <1>2, <1>3, <2>1, <3>1 DEF AdmitTurnWork
  <2>2. CASE ~(closing \/ paused)
    <3>1. Holding' = Holding \cup {j} /\ j \notin Holding
      BY <1>a, <1>3, <2>2 DEF AdmitTurnWork, TypeOK, HandlerGoes, Holding, InFlight, Dispatched, Jobs
    <3> QED
      BY <1>a, <1>b, <1>3, <2>2, <3>1, JobSets, FS_AddElement DEF AdmitTurnWork, PermitsCounted
  <2> QED
    BY <2>1, <2>2
<1>4. ASSUME NEW j \in Jobs, HandlerReturns(j) PROVE PermitsCounted'
  <2>1. CASE j \in Dispatched
    <3>1. Holding' = Holding \ {j} /\ j \in Holding
      BY <1>a, <1>4, <2>1 DEF HandlerReturns, TypeOK, HandlerGoes, Holding, InFlight, Dispatched, Jobs
    <3>2. admittedWork > 0
      BY <1>a, <1>b, <3>1, JobSets DEF PermitsCounted
    <3> QED
      BY <1>a, <1>b, <1>4, <2>1, <3>1, <3>2, JobSets, FS_RemoveElement DEF HandlerReturns, PermitsCounted
  <2>2. CASE j \notin Dispatched
    <3>1. Holding' = Holding
      BY <1>a, <1>4, <2>2 DEF HandlerReturns, TypeOK, HandlerGoes, Holding, InFlight, Dispatched, Jobs
    <3> QED
      BY <1>2, <1>4, <2>2, <3>1 DEF HandlerReturns
  <2> QED
    BY <2>1, <2>2
<1>5. ASSUME NEW j \in Jobs, HandlerStep(j) PROVE PermitsCounted'
  <2>1. ASSUME PreparationFails(j) PROVE PermitsCounted'
    BY <1>a, <1>2, <2>1, HandlerKeepsPermit DEF PreparationFails, gateVars, InFlight
  <2>2. ASSUME ReserveTurn(j) PROVE PermitsCounted'
    BY <1>a, <1>2, <2>2, HandlerKeepsPermit, AdmissionAssumption DEF ReserveTurn, ReadyToReserve, InFlight
  <2>3. ASSUME ReserveFails(j) PROVE PermitsCounted'
    BY <1>a, <1>2, <2>3, HandlerKeepsPermit, AdmissionAssumption DEF ReserveFails, ReadyToReserve, gateVars, InFlight
  <2>4. ASSUME TurnStarts(j) PROVE PermitsCounted'
    BY <1>a, <1>2, <2>4, HandlerKeepsPermit DEF TurnStarts, gateVars, InFlight
  <2>5. ASSUME TurnStartFails(j) PROVE PermitsCounted'
    BY <1>a, <1>2, <2>5, HandlerKeepsPermit DEF TurnStartFails, InFlight
  <2>6. ASSUME RegisterTurn(j) PROVE PermitsCounted'
    BY <1>a, <1>2, <2>6, HandlerKeepsPermit DEF RegisterTurn, ReadyToRegister, InFlight
  <2>7. ASSUME RegisterFails(j) PROVE PermitsCounted'
    BY <1>a, <1>2, <2>7, HandlerKeepsPermit DEF RegisterFails, ReadyToRegister, gateVars, InFlight
  <2> QED
    BY <1>3, <1>4, <1>5, <2>1, <2>2, <2>3, <2>4, <2>5, <2>6, <2>7 DEF HandlerStep
<1>6. ASSUME NEW j \in Jobs, WorkerStep(j) \/ InterruptStep(j) PROVE PermitsCounted'
  BY <1>1, <1>6 DEF WorkerStep, WorkerEnds, TurnWorkerDone, InterruptStep, InterruptTurn, InterruptPublished, gateVars
<1>7. ASSUME NEW p \in Pausers, PauserStep(p) PROVE PermitsCounted'
  BY <1>1, <1>7 DEF PauserStep, BeginPause, PauseDrained, ReleasePause, ReplaceCredentials, gateVars
<1>8. CASE ShutdownStep
  BY <1>1, <1>8 DEF ShutdownStep, BeginDraining, BeginShutdown, WorkersGone, WaitTimesOut, gateVars
<1>9. CASE UNCHANGED vars
  BY <1>1, <1>9 DEF vars, gateVars
<1> QED
  BY <1>5, <1>6, <1>7, <1>8, <1>9 DEF Next

----------------------------------------------------------------------------
(* The pause: nothing a handler does under it takes a permit or a thread.  *)

LEMMA HandlersRespectPause ==
    ASSUME IInv, paused, NEW j \in Jobs, HandlerStep(j)
    PROVE  /\ Holding' \subseteq Holding
           /\ (NoTurnActive => NoTurnActive')
           /\ UNCHANGED <<paused, pauser>>
<1>a. TypeOK
  BY DEF IInv
<1>1. CASE AdmitTurnWork(j)
  BY <1>a, <1>1 DEF AdmitTurnWork, TypeOK, HandlerGoes, Holding, InFlight, Dispatched, Jobs, NoTurnActive
<1>2. CASE PreparationFails(j)
  BY <1>a, <1>2 DEF PreparationFails, TypeOK, HandlerGoes, Holding, InFlight, Dispatched, Jobs, NoTurnActive, gateVars
<1>3. CASE ReserveTurn(j)
  BY <1>3 DEF ReserveTurn, ReserveRejects
<1>4. CASE ReserveFails(j)
  BY <1>a, <1>4, AdmissionAssumption DEF ReserveFails, ReadyToReserve, TypeOK, HandlerGoes, Holding, InFlight,
     Dispatched, Jobs, NoTurnActive, gateVars
<1>5. CASE TurnStarts(j)
  BY <1>a, <1>5 DEF TurnStarts, TypeOK, HandlerGoes, Holding, InFlight, Dispatched, Jobs, NoTurnActive, gateVars
<1>6. CASE TurnStartFails(j)
  BY <1>a, <1>6 DEF TurnStartFails, TypeOK, HandlerGoes, Holding, InFlight, Dispatched, Jobs, NoTurnActive
<1>7. CASE RegisterTurn(j)
  BY <1>7 DEF RegisterTurn, RegisterRejects
<1>8. CASE RegisterFails(j)
  BY <1>a, <1>8 DEF RegisterFails, ReadyToRegister, TypeOK, HandlerGoes, Holding, InFlight, Dispatched, Jobs,
     NoTurnActive, gateVars
<1>9. CASE HandlerReturns(j)
  BY <1>a, <1>9 DEF HandlerReturns, TypeOK, HandlerGoes, Holding, InFlight, Dispatched, Jobs, NoTurnActive
<1> QED
  BY <1>1, <1>2, <1>3, <1>4, <1>5, <1>6, <1>7, <1>8, <1>9 DEF HandlerStep

(* The pause stays with its one pauser, and what it found drained stays    *)
(* drained.                                                                *)
LEMMA PauseStep == IInv /\ [Next]_vars => PauseHasPauser' /\ PauseExclusive'
<1> SUFFICES ASSUME IInv, [Next]_vars PROVE PauseHasPauser' /\ PauseExclusive'
  OBVIOUS
<1>a. TypeOK /\ PermitsCounted /\ PauseHasPauser /\ PauseExclusive
  BY DEF IInv
<1>0. ASSUME UNCHANGED <<paused, pauser>>,
             Pausing # {} => Holding' \subseteq Holding /\ (NoTurnActive => NoTurnActive')
      PROVE  PauseHasPauser' /\ PauseExclusive'
  BY <1>a, <1>0 DEF PauseHasPauser, PauseExclusive, Pausing
<1>1. ASSUME NEW j \in Jobs, HandlerStep(j) PROVE PauseHasPauser' /\ PauseExclusive'
  <2>1. CASE paused
    BY <1>0, <1>1, <2>1, HandlersRespectPause
  <2>2. CASE ~paused
    <3>1. UNCHANGED <<paused, pauser>>
      BY <1>1 DEF HandlerStep, AdmitTurnWork, PreparationFails, ReserveTurn, ReserveFails, TurnStarts,
         TurnStartFails, RegisterTurn, RegisterFails, HandlerReturns, gateVars
    <3> QED
      BY <1>a, <1>0, <2>2, <3>1 DEF PauseHasPauser
  <2> QED
    BY <2>1, <2>2
<1>2. ASSUME NEW j \in Jobs, WorkerStep(j) \/ InterruptStep(j) PROVE PauseHasPauser' /\ PauseExclusive'
  <2>1. UNCHANGED <<paused, pauser, handler>>
    BY <1>2 DEF WorkerStep, WorkerEnds, TurnWorkerDone, InterruptStep, InterruptTurn, InterruptPublished, gateVars
  <2>2. active' = active \/ active' = [active EXCEPT ![ThreadOf[j]] = "idle"]
    BY <1>2 DEF WorkerStep, WorkerEnds, TurnWorkerDone, InterruptStep, InterruptTurn, InterruptPublished, ConsumeTurn
  <2>3. NoTurnActive => NoTurnActive'
    BY <1>a, <2>2 DEF NoTurnActive, TypeOK
  <2> QED
    BY <1>0, <2>1, <2>3 DEF Holding
<1>3. ASSUME NEW p \in Pausers, PauserStep(p) PROVE PauseHasPauser' /\ PauseExclusive'
  <2>a. UNCHANGED <<active, handler, admittedWork>> /\ Holding' = Holding /\ (NoTurnActive <=> NoTurnActive')
    BY <1>3 DEF PauserStep, BeginPause, PauseDrained, ReleasePause, ReplaceCredentials, gateVars, Holding, NoTurnActive
  <2>1. CASE BeginPause(p)
    BY <1>a, <2>a, <2>1 DEF BeginPause, PauserGoes, TypeOK, PauseHasPauser, PauseExclusive, Pausing
  <2>2. CASE PauseDrained(p)
    <3>1. Holding = {}
      <4>1. Holding \in SUBSET Jobs
        BY DEF Holding, Dispatched, Jobs
      <4> QED
        BY <1>a, <2>2, <4>1, JobSets DEF PauseDrained, Drained, PermitsCounted
    <3>2. Pausing' = Pausing /\ p \in Pausing /\ UNCHANGED paused /\ NoTurnActive
      BY <1>a, <2>2 DEF PauseDrained, Drained, PauserGoes, TypeOK, Pausing, gateVars
    <3> QED
      BY <1>a, <2>a, <3>1, <3>2 DEF PauseHasPauser, PauseExclusive
  <2>3. CASE ReleasePause(p)
    <3>1. Pausing' = {} /\ ~paused'
      BY <1>a, <2>3 DEF ReleasePause, PauserGoes, TypeOK, PauseExclusive, Pausing
    <3> QED
      BY <3>1 DEF PauseHasPauser, PauseExclusive
  <2>4. CASE ReplaceCredentials(p)
    <3>1. Pausing' = Pausing /\ p \in Pausing /\ pauser[p] = "held" /\ UNCHANGED paused
      BY <1>a, <2>4 DEF ReplaceCredentials, PauserGoes, TypeOK, Pausing, gateVars
    <3> QED
      BY <1>a, <2>a, <3>1 DEF PauseHasPauser, PauseExclusive
  <2> QED
    BY <1>3, <2>1, <2>2, <2>3, <2>4 DEF PauserStep
<1>4. CASE ShutdownStep
  <2>1. UNCHANGED <<paused, pauser, handler>> /\ (NoTurnActive => NoTurnActive')
    BY <1>4 DEF ShutdownStep, BeginDraining, BeginShutdown, WorkersGone, WaitTimesOut, gateVars, NoTurnActive
  <2> QED
    BY <1>0, <2>1 DEF Holding
<1>5. CASE UNCHANGED vars
  <2>1. UNCHANGED <<paused, pauser, handler, active>>
    BY <1>5 DEF vars, gateVars
  <2> QED
    BY <1>0, <2>1 DEF Holding, NoTurnActive
<1> QED
  BY <1>1, <1>2, <1>3, <1>4, <1>5 DEF Next

----------------------------------------------------------------------------
(* Registered turns have running workers.                                  *)

LEMMA TurnsRunStep == IInv /\ [Next]_vars => TurnsRun'
<1> SUFFICES ASSUME IInv, [Next]_vars PROVE TurnsRun'
  OBVIOUS
<1>a. TypeOK /\ TurnsRun
  BY DEF IInv
<1>b. "idle" \notin Jobs /\ "reserved" \notin Jobs /\ ThreadOf \in [Jobs -> Threads]
  BY AdmissionAssumption
<1>0. ASSUME UNCHANGED <<handler, worker, publisher>>,
             \A t \in Threads : active'[t] \in {active[t], "idle", "reserved"}
      PROVE  TurnsRun'
  BY <1>a, <1>b, <1>0 DEF TurnsRun
<1>1. ASSUME NEW j \in Jobs, HandlerStep(j) PROVE TurnsRun'
  <2>0. ASSUME NEW to \in HandlerPC, HandlerGoes(j, to), UNCHANGED <<worker, publisher>>,
               to \in {"idle", "admitted", "reserved", "started"} =>
                   handler[j] \in {"idle", "admitted", "reserved", "started"},
               \A t \in Threads : active'[t] \in {active[t], "idle", "reserved"}
        PROVE  TurnsRun'
    BY <1>a, <1>b, <2>0 DEF TurnsRun, TypeOK, HandlerGoes
  <2>1. CASE AdmitTurnWork(j)
    BY <2>0, <2>1 DEF AdmitTurnWork, HandlerPC
  <2>2. CASE PreparationFails(j)
    BY <2>0, <2>2 DEF PreparationFails, HandlerPC, gateVars
  <2>3. CASE ReserveTurn(j)
    <3>1. \A t \in Threads : active'[t] \in {active[t], "idle", "reserved"}
      BY <1>a, <2>3 DEF ReserveTurn, TypeOK
    <3> QED
      BY <2>0, <2>3, <3>1 DEF ReserveTurn, ReadyToReserve, HandlerPC
  <2>4. CASE ReserveFails(j)
    BY <2>0, <2>4 DEF ReserveFails, HandlerPC, gateVars
  <2>5. CASE TurnStarts(j)
    BY <2>0, <2>5 DEF TurnStarts, HandlerPC, gateVars
  <2>6. CASE TurnStartFails(j)
    <3>1. \A t \in Threads : active'[t] \in {active[t], "idle", "reserved"}
      BY <1>a, <2>6 DEF TurnStartFails, TypeOK
    <3> QED
      BY <2>0, <2>6, <3>1 DEF TurnStartFails, HandlerPC
  <2>7. CASE RegisterTurn(j)
    <3>1. worker[j] = "none" /\ publisher[j] = "none"
      BY <1>a, <2>7 DEF RegisterTurn, ReadyToRegister, TurnsRun
    <3>2. handler' = [handler EXCEPT ![j] = "returning"] /\ worker' = [worker EXCEPT ![j] = "running"]
          /\ active' = [active EXCEPT ![ThreadOf[j]] = j] /\ UNCHANGED publisher
      BY <2>7 DEF RegisterTurn, HandlerGoes
    <3> QED
      BY <1>a, <1>b, <3>1, <3>2 DEF TurnsRun, TypeOK
  <2>8. CASE RegisterFails(j)
    BY <2>0, <2>8 DEF RegisterFails, HandlerPC, gateVars
  <2>9. CASE HandlerReturns(j)
    BY <2>0, <2>9 DEF HandlerReturns, HandlerPC
  <2> QED
    BY <1>1, <2>1, <2>2, <2>3, <2>4, <2>5, <2>6, <2>7, <2>8, <2>9 DEF HandlerStep
<1>2. ASSUME NEW j \in Jobs, WorkerEnds(j) PROVE TurnsRun'
  <2>1. \A t \in Threads : active'[t] = j => FALSE
    BY <1>a, <1>b, <1>2 DEF WorkerEnds, ConsumeTurn, TurnsRun, TypeOK
  <2>2. \A t \in Threads : active'[t] \in {active[t], "idle"}
    BY <1>a, <1>2 DEF WorkerEnds, ConsumeTurn, TypeOK
  <2> QED
    BY <1>a, <1>b, <1>2, <2>1, <2>2 DEF WorkerEnds, TurnsRun, TypeOK
<1>3. ASSUME NEW j \in Jobs, TurnWorkerDone(j) PROVE TurnsRun'
  BY <1>a, <1>b, <1>3 DEF TurnWorkerDone, TurnsRun, TypeOK
<1>4. ASSUME NEW j \in Jobs, InterruptTurn(j) PROVE TurnsRun'
  <2>1. \A t \in Threads : active'[t] = j => FALSE
    BY <1>a, <1>b, <1>4 DEF InterruptTurn, ConsumeTurn, TurnsRun, TypeOK
  <2>2. \A t \in Threads : active'[t] \in {active[t], "idle"}
    BY <1>a, <1>4 DEF InterruptTurn, ConsumeTurn, TypeOK
  <2>3. worker[j] = "running"
    BY <1>a, <1>b, <1>4 DEF InterruptTurn, ConsumeTurn, TurnsRun
  <2> QED
    BY <1>a, <1>b, <1>4, <2>1, <2>2, <2>3 DEF InterruptTurn, TurnsRun, TypeOK
<1>5. ASSUME NEW j \in Jobs, InterruptPublished(j) PROVE TurnsRun'
  BY <1>a, <1>b, <1>5 DEF InterruptPublished, TurnsRun, TypeOK
<1>6. ASSUME NEW p \in Pausers, PauserStep(p) PROVE TurnsRun'
  BY <1>0, <1>6 DEF PauserStep, BeginPause, PauseDrained, ReleasePause, ReplaceCredentials, gateVars
<1>7. CASE ShutdownStep
  BY <1>0, <1>7 DEF ShutdownStep, BeginDraining, BeginShutdown, WorkersGone, WaitTimesOut, gateVars
<1>8. CASE UNCHANGED vars
  BY <1>0, <1>8 DEF vars, gateVars
<1> QED
  BY <1>1, <1>2, <1>3, <1>4, <1>5, <1>6, <1>7, <1>8 DEF Next, WorkerStep, InterruptStep

----------------------------------------------------------------------------
(* The wait group.                                                         *)

Reporting == {j \in Publishing : Tracked(j)}

(* The wait group follows every goroutine that starts and every one that   *)
(* returns.                                                                *)
LEMMA WorkersStep == IInv /\ [Next]_vars => WorkersCounted'
<1> SUFFICES ASSUME IInv, [Next]_vars PROVE WorkersCounted'
  OBVIOUS
<1>a. TypeOK /\ TurnsRun /\ turnWG = Cardinality(Running) + Cardinality(Reporting)
  BY DEF IInv, WorkersCounted, Reporting
<1>b. Running \in SUBSET Jobs /\ Reporting \in SUBSET Jobs
  BY DEF Running, Reporting, Publishing
<1>c. ThreadOf \in [Jobs -> Threads]
  BY AdmissionAssumption
<1>d. Cardinality(Running) \in Nat /\ Cardinality(Reporting) \in Nat
  BY <1>b, JobSets
<1>e. ASSUME turnWG' = Cardinality(Running') + Cardinality(Reporting') PROVE WorkersCounted'
  BY <1>e DEF WorkersCounted, Reporting
<1>0. ASSUME UNCHANGED turnWG, Running' = Running, Reporting' = Reporting PROVE WorkersCounted'
  BY <1>a, <1>0 DEF WorkersCounted, Reporting
<1>1. ASSUME UNCHANGED <<turnWG, worker, publisher>> PROVE WorkersCounted'
  BY <1>0, <1>1 DEF Running, Reporting, Publishing
<1>2. ASSUME NEW j \in Jobs, RegisterTurn(j) PROVE WorkersCounted'
  <2>1. worker[j] = "none"
    BY <1>a, <1>2 DEF RegisterTurn, ReadyToRegister, TurnsRun
  <2>2. Running' = Running \cup {j} /\ j \notin Running
    BY <1>a, <1>2, <2>1 DEF RegisterTurn, Running, TypeOK
  <2>3. Reporting' = Reporting /\ turnWG' = turnWG + 1
    BY <1>2 DEF RegisterTurn, Reporting, Publishing
  <2>4. Cardinality(Running') = Cardinality(Running) + 1
    BY <1>b, <2>2, JobSets, FS_AddElement
  <2> QED
    BY <1>a, <1>d, <1>e, <2>3, <2>4
<1>3. ASSUME NEW j \in Jobs, HandlerStep(j) PROVE WorkersCounted'
  BY <1>1, <1>2, <1>3 DEF HandlerStep, AdmitTurnWork, PreparationFails, ReserveTurn, ReserveFails, TurnStarts,
     TurnStartFails, RegisterFails, HandlerReturns, gateVars
<1>4. ASSUME NEW j \in Jobs, WorkerEnds(j) PROVE WorkersCounted'
  BY <1>a, <1>0, <1>4 DEF WorkerEnds, Running, Reporting, Publishing, TypeOK
<1>5. ASSUME NEW j \in Jobs, TurnWorkerDone(j) PROVE WorkersCounted'
  <2>1. Running' = Running \ {j} /\ j \in Running
    BY <1>a, <1>5 DEF TurnWorkerDone, Running, TypeOK
  <2>2. Reporting' = Reporting /\ turnWG' = turnWG - 1
    BY <1>5 DEF TurnWorkerDone, Reporting, Publishing
  <2>3. Cardinality(Running') = Cardinality(Running) - 1
    BY <1>b, <2>1, JobSets, FS_RemoveElement
  <2> QED
    BY <1>a, <1>d, <1>e, <2>2, <2>3
<1>6. ASSUME NEW j \in Jobs, InterruptTurn(j) PROVE WorkersCounted'
  <2>1. publisher[j] = "none"
    BY <1>a, <1>c, <1>6 DEF InterruptTurn, ConsumeTurn, TurnsRun
  <2>2. Running' = Running
    BY <1>6 DEF InterruptTurn, Running
  <2>3. CASE Tracked(j)
    <3>1. Reporting' = Reporting \cup {j} /\ j \notin Reporting
      BY <1>a, <1>6, <2>1, <2>3 DEF InterruptTurn, Reporting, Publishing, TypeOK
    <3>2. Cardinality(Reporting') = Cardinality(Reporting) + 1
      BY <1>b, <3>1, JobSets, FS_AddElement
    <3> QED
      BY <1>a, <1>d, <1>e, <1>6, <2>2, <2>3, <3>2 DEF InterruptTurn
  <2>4. CASE ~Tracked(j)
    <3>1. Reporting' = Reporting
      BY <1>a, <1>6, <2>4 DEF InterruptTurn, Reporting, Publishing, TypeOK
    <3> QED
      BY <1>0, <1>6, <2>2, <2>4, <3>1 DEF InterruptTurn
  <2> QED
    BY <2>3, <2>4
<1>7. ASSUME NEW j \in Jobs, InterruptPublished(j) PROVE WorkersCounted'
  <2>2. Running' = Running
    BY <1>7 DEF InterruptPublished, Running
  <2>3. CASE Tracked(j)
    <3>1. Reporting' = Reporting \ {j} /\ j \in Reporting
      BY <1>a, <1>7, <2>3 DEF InterruptPublished, Reporting, Publishing, TypeOK
    <3>2. Cardinality(Reporting') = Cardinality(Reporting) - 1
      BY <1>b, <3>1, JobSets, FS_RemoveElement
    <3> QED
      BY <1>a, <1>d, <1>e, <1>7, <2>2, <2>3, <3>2 DEF InterruptPublished
  <2>4. CASE ~Tracked(j)
    <3>1. Reporting' = Reporting
      BY <1>a, <1>7, <2>4 DEF InterruptPublished, Reporting, Publishing, TypeOK
    <3> QED
      BY <1>0, <1>7, <2>2, <2>4, <3>1 DEF InterruptPublished
  <2> QED
    BY <2>3, <2>4
<1>8. ASSUME NEW p \in Pausers, PauserStep(p) PROVE WorkersCounted'
  BY <1>1, <1>8 DEF PauserStep, BeginPause, PauseDrained, ReleasePause, ReplaceCredentials, gateVars
<1>9. CASE ShutdownStep
  BY <1>1, <1>9 DEF ShutdownStep, BeginDraining, BeginShutdown, WorkersGone, WaitTimesOut, gateVars
<1>10. CASE UNCHANGED vars
  BY <1>1, <1>10 DEF vars, gateVars
<1> QED
  BY <1>3, <1>4, <1>5, <1>6, <1>7, <1>8, <1>9, <1>10 DEF Next, WorkerStep, InterruptStep

----------------------------------------------------------------------------
(* The drain gate and the shutdown.                                        *)

(* The counter at zero is what a quiet server is inferred from.            *)
LEMMA QuietWhenClosed == IInv => ShutdownQuiet
<1> SUFFICES ASSUME IInv, shutdown = "closed" PROVE Running = {} /\ Publishing = {} /\ NoTurnActive
  BY DEF ShutdownQuiet
<1>1. Running \in SUBSET Jobs /\ Reporting \in SUBSET Jobs
  BY DEF Running, Reporting, Publishing
<1>2. turnWG = 0 /\ turnWG = Cardinality(Running) + Cardinality(Reporting)
  BY DEF IInv, GateStaysClosed, WorkersCounted, Reporting
<1>3. Cardinality(Running) = 0 /\ Cardinality(Reporting) = 0
  <2>1. Cardinality(Running) \in Nat /\ Cardinality(Reporting) \in Nat
    BY <1>1, JobSets
  <2> QED
    BY <1>2, <2>1
<1>4. Running = {} /\ Reporting = {}
  BY <1>1, <1>3, JobSets
<1>5. Publishing = Reporting /\ NoTurnActive
  BY DEF IInv, GateStaysClosed, Reporting
<1> QED
  BY <1>4, <1>5

(* Behind the gate a handler can only give up: a request is refused, a     *)
(* continuation finds no reservation, and no turn is registered.           *)
LEMMA HandlersRespectGate ==
    ASSUME IInv, shutdown \in {"waiting", "closed", "timedOut"}, NEW j \in Jobs, HandlerStep(j)
    PROVE  /\ UNCHANGED <<closing, turnWG, publisher, shutdown>>
           /\ NoTurnActive'
           /\ \A d \in Dispatched : handler'[d] \in {"idle", "done"}
<1>a. TypeOK /\ closing /\ NoTurnActive /\ \A d \in Dispatched : handler[d] \in {"idle", "done"}
  BY DEF IInv, GateStaysClosed
<1>b. ThreadOf \in [Jobs -> Threads] /\ Dispatched \subseteq Jobs
  BY AdmissionAssumption DEF Jobs, Dispatched
<1>c. active[ThreadOf[j]] = "idle"
  BY <1>a, <1>b DEF NoTurnActive
<1>0. ASSUME NEW to, HandlerGoes(j, to), j \in Dispatched => to = "done",
             UNCHANGED <<closing, turnWG, publisher, shutdown, active>>
      PROVE  /\ UNCHANGED <<closing, turnWG, publisher, shutdown>>
             /\ NoTurnActive'
             /\ \A d \in Dispatched : handler'[d] \in {"idle", "done"}
  BY <1>a, <1>b, <1>0 DEF HandlerGoes, NoTurnActive, TypeOK
<1>1. CASE AdmitTurnWork(j)
  BY <1>a, <1>0, <1>1 DEF AdmitTurnWork
<1>2. CASE PreparationFails(j)
  BY <1>a, <1>0, <1>2 DEF PreparationFails, gateVars
<1>3. CASE ReserveTurn(j)
  <2>1. j \in Dispatched
    BY <1>a, <1>3 DEF ReserveTurn, ReserveRejects
  <2>2. j \notin Continuations
    BY <2>1, AdmissionAssumption
  <2> QED
    BY <1>a, <1>3, <2>1, <2>2 DEF ReserveTurn, ReadyToReserve
<1>4. CASE ReserveFails(j)
  <2>1. j \notin Dispatched
    <3>1. j \in Starts => j \in Dispatched
      BY DEF Dispatched
    <3> QED
      BY <1>a, <1>4, <3>1, AdmissionAssumption DEF ReserveFails, ReadyToReserve
  <2> QED
    BY <1>0, <1>4, <2>1 DEF ReserveFails, gateVars
<1>5. CASE TurnStarts(j)
  BY <1>a, <1>0, <1>5 DEF TurnStarts, gateVars
<1>6. CASE TurnStartFails(j)
  BY <1>a, <1>c, <1>0, <1>6 DEF TurnStartFails
<1>7. CASE RegisterTurn(j)
  BY <1>a, <1>c, <1>7 DEF RegisterTurn, RegisterRejects, GateRejects
<1>8. CASE RegisterFails(j)
  BY <1>a, <1>0, <1>8 DEF RegisterFails, ReadyToRegister, gateVars
<1>9. CASE HandlerReturns(j)
  BY <1>a, <1>0, <1>9 DEF HandlerReturns
<1> QED
  BY <1>1, <1>2, <1>3, <1>4, <1>5, <1>6, <1>7, <1>8, <1>9 DEF HandlerStep

LEMMA GateStep == IInv /\ [Next]_vars => GateStaysClosed'
<1> SUFFICES ASSUME IInv, [Next]_vars PROVE GateStaysClosed'
  OBVIOUS
<1>a. TypeOK /\ TurnsRun /\ GateStaysClosed /\ ShutdownQuiet
  BY QuietWhenClosed DEF IInv
<1>b. ThreadOf \in [Jobs -> Threads] /\ Dispatched \subseteq Jobs /\ "idle" \notin Jobs
  BY AdmissionAssumption DEF Jobs, Dispatched
<1>0. ASSUME UNCHANGED <<closing, active, handler, publisher, shutdown, turnWG>> PROVE GateStaysClosed'
  BY <1>a, <1>0 DEF GateStaysClosed, NoTurnActive, Publishing
<1>1. ASSUME NEW j \in Jobs, HandlerStep(j) PROVE GateStaysClosed'
  <2>1. UNCHANGED <<closing, shutdown>>
    BY <1>1 DEF HandlerStep, AdmitTurnWork, PreparationFails, ReserveTurn, ReserveFails, TurnStarts,
       TurnStartFails, RegisterTurn, RegisterFails, HandlerReturns, gateVars
  <2>2. CASE shutdown \in {"waiting", "closed", "timedOut"}
    BY <1>a, <1>1, <2>1, <2>2, HandlersRespectGate DEF GateStaysClosed, Publishing
  <2>3. CASE shutdown \notin {"waiting", "closed", "timedOut"}
    BY <1>a, <2>1, <2>3 DEF GateStaysClosed
  <2> QED
    BY <2>2, <2>3
<1>2. ASSUME NEW j \in Jobs, WorkerEnds(j) PROVE GateStaysClosed'
  <2>1. NoTurnActive => NoTurnActive'
    BY <1>a, <1>2 DEF WorkerEnds, ConsumeTurn, NoTurnActive, TypeOK
  <2> QED
    BY <1>a, <1>2, <2>1 DEF WorkerEnds, GateStaysClosed, Publishing
<1>3. ASSUME NEW j \in Jobs, TurnWorkerDone(j) PROVE GateStaysClosed'
  <2>1. shutdown # "closed"
    BY <1>a, <1>3 DEF TurnWorkerDone, ShutdownQuiet, Running
  <2> QED
    BY <1>a, <1>3, <2>1 DEF TurnWorkerDone, GateStaysClosed, NoTurnActive, Publishing
<1>4. ASSUME NEW j \in Jobs, InterruptTurn(j) PROVE GateStaysClosed'
  BY <1>a, <1>4 DEF InterruptTurn, GateStaysClosed
<1>5. ASSUME NEW j \in Jobs, InterruptPublished(j) PROVE GateStaysClosed'
  <2>1. shutdown # "closed"
    BY <1>a, <1>5 DEF InterruptPublished, ShutdownQuiet, Publishing
  <2>2. Publishing' \subseteq Publishing
    BY <1>a, <1>5 DEF InterruptPublished, Publishing, TypeOK
  <2> QED
    BY <1>a, <1>5, <2>1, <2>2 DEF InterruptPublished, GateStaysClosed, NoTurnActive
<1>6. ASSUME NEW p \in Pausers, PauserStep(p) PROVE GateStaysClosed'
  BY <1>0, <1>6 DEF PauserStep, BeginPause, PauseDrained, ReleasePause, ReplaceCredentials, gateVars
<1>7. CASE ShutdownStep
  <2>1. CASE BeginDraining
    BY <2>1 DEF BeginDraining, GateStaysClosed
  <2>2. CASE BeginShutdown
    BY <2>2 DEF BeginShutdown, RequestsReturned, GateStaysClosed, NoTurnActive, Publishing
  <2>3. CASE WorkersGone
    BY <1>a, <2>3 DEF WorkersGone, gateVars, GateStaysClosed, NoTurnActive, Publishing
  <2>4. CASE WaitTimesOut
    BY <1>a, <2>4 DEF WaitTimesOut, gateVars, GateStaysClosed, NoTurnActive, Publishing
  <2> QED
    BY <1>7, <2>1, <2>2, <2>3, <2>4 DEF ShutdownStep
<1>8. CASE UNCHANGED vars
  BY <1>0, <1>8 DEF vars, gateVars
<1> QED
  BY <1>1, <1>2, <1>3, <1>4, <1>5, <1>6, <1>7, <1>8 DEF Next, WorkerStep, InterruptStep

----------------------------------------------------------------------------
(* Types: the two counters never go below zero.                            *)

LEMMA TypeStep == IInv /\ [Next]_vars => TypeOK'
<1> SUFFICES ASSUME IInv, [Next]_vars PROVE TypeOK'
  OBVIOUS
<1>a. TypeOK /\ turnWG = Cardinality(Running) + Cardinality(Reporting)
  BY DEF IInv, WorkersCounted, Reporting
<1>b. ThreadOf \in [Jobs -> Threads] /\ Dispatched \subseteq Jobs
  BY AdmissionAssumption DEF Jobs, Dispatched
<1>c. Running # {} \/ Reporting # {} => turnWG - 1 \in Nat
  <2>1. Running \in SUBSET Jobs /\ Reporting \in SUBSET Jobs
    BY DEF Running, Reporting, Publishing
  <2>2. /\ Cardinality(Running) \in Nat /\ (Running # {} => Cardinality(Running) # 0)
        /\ Cardinality(Reporting) \in Nat /\ (Reporting # {} => Cardinality(Reporting) # 0)
    BY <2>1, JobSets
  <2> QED
    BY <1>a, <2>2
<1>1. ASSUME NEW j \in Jobs, HandlerStep(j) PROVE TypeOK'
  <2>1. CASE AdmitTurnWork(j)
    BY <1>a, <2>1 DEF AdmitTurnWork, HandlerGoes, TypeOK, HandlerPC
  <2>2. CASE PreparationFails(j)
    BY <1>a, <2>2 DEF PreparationFails, HandlerGoes, TypeOK, HandlerPC, gateVars
  <2>3. CASE ReserveTurn(j)
    BY <1>a, <1>b, <2>3 DEF ReserveTurn, HandlerGoes, TypeOK, HandlerPC
  <2>4. CASE ReserveFails(j)
    BY <1>a, <2>4 DEF ReserveFails, HandlerGoes, TypeOK, HandlerPC, gateVars
  <2>5. CASE TurnStarts(j)
    BY <1>a, <2>5 DEF TurnStarts, HandlerGoes, TypeOK, HandlerPC, gateVars
  <2>6. CASE TurnStartFails(j)
    BY <1>a, <1>b, <2>6 DEF TurnStartFails, HandlerGoes, TypeOK, HandlerPC
  <2>7. CASE RegisterTurn(j)
    BY <1>a, <1>b, <2>7 DEF RegisterTurn, HandlerGoes, TypeOK, HandlerPC, WorkerPC
  <2>8. CASE RegisterFails(j)
    BY <1>a, <2>8 DEF RegisterFails, HandlerGoes, TypeOK, HandlerPC, gateVars
  <2>9. CASE HandlerReturns(j)
    BY <1>a, <2>9 DEF HandlerReturns, HandlerGoes, TypeOK, HandlerPC
  <2> QED
    BY <1>1, <2>1, <2>2, <2>3, <2>4, <2>5, <2>6, <2>7, <2>8, <2>9 DEF HandlerStep
<1>2. ASSUME NEW j \in Jobs, WorkerEnds(j) PROVE TypeOK'
  BY <1>a, <1>b, <1>2 DEF WorkerEnds, ConsumeTurn, TypeOK, WorkerPC, Owners
<1>3. ASSUME NEW j \in Jobs, TurnWorkerDone(j) PROVE TypeOK'
  <2>1. turnWG' \in Nat
    BY <1>c, <1>3 DEF TurnWorkerDone, Running
  <2> QED
    BY <1>a, <1>3, <2>1 DEF TurnWorkerDone, TypeOK, WorkerPC
<1>4. ASSUME NEW j \in Jobs, InterruptTurn(j) PROVE TypeOK'
  BY <1>a, <1>b, <1>4 DEF InterruptTurn, ConsumeTurn, TypeOK, PublisherPC, Owners
<1>5. ASSUME NEW j \in Jobs, InterruptPublished(j) PROVE TypeOK'
  <2>1. turnWG' \in Nat
    BY <1>a, <1>c, <1>5 DEF InterruptPublished, Reporting, Publishing, TypeOK
  <2> QED
    BY <1>a, <1>5, <2>1 DEF InterruptPublished, TypeOK, PublisherPC
<1>6. ASSUME NEW p \in Pausers, PauserStep(p) PROVE TypeOK'
  BY <1>a, <1>6 DEF PauserStep, BeginPause, PauseDrained, ReleasePause, ReplaceCredentials, PauserGoes,
     TypeOK, PauserPC, gateVars
<1>7. CASE ShutdownStep
  <2>1. CASE BeginShutdown
    BY <1>a, <2>1 DEF BeginShutdown, TypeOK, ShutdownPC, Owners
  <2>2. CASE BeginDraining \/ WorkersGone \/ WaitTimesOut
    BY <1>a, <2>2 DEF BeginDraining, WorkersGone, WaitTimesOut, TypeOK, ShutdownPC, gateVars
  <2> QED
    BY <1>7, <2>1, <2>2 DEF ShutdownStep
<1>8. CASE UNCHANGED vars
  BY <1>a, <1>8 DEF vars, gateVars, TypeOK
<1> QED
  BY <1>1, <1>2, <1>3, <1>4, <1>5, <1>6, <1>7, <1>8 DEF Next, WorkerStep, InterruptStep

----------------------------------------------------------------------------
(* Every step of the server keeps the invariant, so every state has it.    *)
THEOREM InductiveInvariant == Spec => []IInv
<1>1. IInv /\ [Next]_vars => IInv'
  BY PermitsStep, PauseStep, TurnsRunStep, WorkersStep, GateStep, TypeStep DEF IInv
<1> QED
  BY <1>1, InitEstablishes, PTL DEF Spec

(* Permits and goroutines are natural numbers: neither ReleaseTurnWork nor *)
(* TurnWorkerDone ever takes a counter below zero.                         *)
THEOREM TypeCorrect == Spec => []TypeOK
<1>1. IInv => TypeOK
  BY DEF IInv
<1> QED
  BY <1>1, InductiveInvariant, PTL

(* PauseTurnAdmission: one holder, no turn, no reservation and no request  *)
(* with a permit while the pause is held.                                  *)
THEOREM PauseIsExclusive == Spec => []PauseExclusive
<1>1. IInv => PauseExclusive
  BY DEF IInv
<1> QED
  BY <1>1, InductiveInvariant, PTL

(* turnWG counts the goroutines that run or report a turn.                 *)
THEOREM WorkersAreCounted == Spec => []WorkersCounted
<1>1. IInv => WorkersCounted
  BY DEF IInv
<1> QED
  BY <1>1, InductiveInvariant, PTL

(* WaitTurnWorkers: once it has returned, no turn runs, none is reported   *)
(* and none is registered.                                                 *)
THEOREM ShutdownIsQuiet == Spec => []ShutdownQuiet
BY QuietWhenClosed, InductiveInvariant, PTL

----------------------------------------------------------------------------
(* The end of a turn has one owner.                                        *)

(* A turn that was registered is in `active` exactly while nobody took it. *)
OwnedWhenTaken ==
    \A j \in Jobs :
        /\ worker[j] = "none" => owner[j] = "none"
        /\ worker[j] # "none" => (owner[j] # "none" <=> active[ThreadOf[j]] # j)

OwnerStays == \A j \in Jobs : owner[j] # "none" => owner'[j] = owner[j]

(* Only a step that removes the turn from `active` writes its owner.       *)
LEMMA OwnerStep == IInv /\ OwnedWhenTaken /\ [Next]_vars => OwnedWhenTaken' /\ OwnerStays
<1> SUFFICES ASSUME IInv, OwnedWhenTaken, [Next]_vars PROVE OwnedWhenTaken' /\ OwnerStays
  OBVIOUS
<1>a. TypeOK /\ TurnsRun
  BY DEF IInv
<1>b. "idle" \notin Jobs /\ "reserved" \notin Jobs /\ ThreadOf \in [Jobs -> Threads]
  BY AdmissionAssumption
<1>0. ASSUME UNCHANGED <<owner, worker>>,
             \A t \in Threads : active'[t] = active[t] \/ (active[t] \notin Jobs /\ active'[t] \notin Jobs)
      PROVE  OwnedWhenTaken' /\ OwnerStays
  BY <1>b, <1>0 DEF OwnedWhenTaken, OwnerStays
<1>1. ASSUME NEW j \in Jobs, HandlerStep(j) PROVE OwnedWhenTaken' /\ OwnerStays
  <2>1. CASE ReserveTurn(j)
    <3>1. \A t \in Threads : active'[t] = active[t] \/ (active[t] \notin Jobs /\ active'[t] \notin Jobs)
      BY <1>a, <1>b, <2>1 DEF ReserveTurn, ReserveRejects, TypeOK
    <3> QED
      BY <1>0, <2>1, <3>1 DEF ReserveTurn
  <2>2. CASE TurnStartFails(j)
    <3>1. \A t \in Threads : active'[t] = active[t] \/ (active[t] \notin Jobs /\ active'[t] \notin Jobs)
      BY <1>a, <1>b, <2>2 DEF TurnStartFails, TypeOK
    <3> QED
      BY <1>0, <2>2, <3>1 DEF TurnStartFails
  <2>3. CASE RegisterTurn(j)
    <3>1. worker[j] = "none" /\ owner[j] = "none"
      BY <1>a, <2>3 DEF RegisterTurn, ReadyToRegister, TurnsRun, OwnedWhenTaken
    <3>2. active[ThreadOf[j]] \notin Jobs
      BY <2>3 DEF RegisterTurn, RegisterRejects
    <3>3. active' = [active EXCEPT ![ThreadOf[j]] = j] /\ worker' = [worker EXCEPT ![j] = "running"]
          /\ UNCHANGED owner
      BY <2>3 DEF RegisterTurn
    <3> QED
      BY <1>a, <1>b, <3>1, <3>2, <3>3 DEF OwnedWhenTaken, OwnerStays, TypeOK
  <2>4. CASE ~(ReserveTurn(j) \/ TurnStartFails(j) \/ RegisterTurn(j))
    <3>1. UNCHANGED <<active, owner, worker>>
      BY <1>1, <2>4 DEF HandlerStep, AdmitTurnWork, PreparationFails, ReserveFails, TurnStarts,
         RegisterFails, HandlerReturns, gateVars
    <3> QED
      BY <1>0, <3>1
  <2> QED
    BY <2>1, <2>2, <2>3, <2>4
<1>c. ASSUME NEW j \in Jobs, NEW who \in Owners \ {"none"}, ConsumeTurn(j, who),
             worker[j] = "running", \A k \in Jobs : worker'[k] = "none" <=> worker[k] = "none"
      PROVE  OwnedWhenTaken' /\ OwnerStays
  BY <1>a, <1>b, <1>c DEF ConsumeTurn, OwnedWhenTaken, OwnerStays, TypeOK
<1>2. ASSUME NEW j \in Jobs, WorkerEnds(j) PROVE OwnedWhenTaken' /\ OwnerStays
  <2>1. \A k \in Jobs : worker'[k] = "none" <=> worker[k] = "none"
    BY <1>a, <1>2 DEF WorkerEnds, TypeOK
  <2>2. CASE active[ThreadOf[j]] = j
    BY <1>c, <1>2, <2>1, <2>2 DEF WorkerEnds, Owners
  <2>3. CASE active[ThreadOf[j]] # j
    BY <1>2, <2>1, <2>3 DEF WorkerEnds, OwnedWhenTaken, OwnerStays
  <2> QED
    BY <2>2, <2>3
<1>3. ASSUME NEW j \in Jobs, TurnWorkerDone(j) PROVE OwnedWhenTaken' /\ OwnerStays
  BY <1>a, <1>3 DEF TurnWorkerDone, OwnedWhenTaken, OwnerStays, TypeOK
<1>4. ASSUME NEW j \in Jobs, InterruptTurn(j) PROVE OwnedWhenTaken' /\ OwnerStays
  <2>1. worker[j] = "running"
    BY <1>a, <1>b, <1>4 DEF InterruptTurn, ConsumeTurn, TurnsRun
  <2> QED
    BY <1>c, <1>4, <2>1 DEF InterruptTurn, Owners
<1>5. ASSUME NEW j \in Jobs, InterruptPublished(j) PROVE OwnedWhenTaken' /\ OwnerStays
  BY <1>0, <1>5 DEF InterruptPublished
<1>6. ASSUME NEW p \in Pausers, PauserStep(p) PROVE OwnedWhenTaken' /\ OwnerStays
  BY <1>0, <1>6 DEF PauserStep, BeginPause, PauseDrained, ReleasePause, ReplaceCredentials, gateVars
<1>7. CASE BeginShutdown
  <2>1. \A j \in Jobs : active[ThreadOf[j]] = j => worker[j] = "running" /\ owner[j] = "none"
    BY <1>a, <1>b DEF TurnsRun, OwnedWhenTaken
  <2> QED
    BY <1>b, <1>7, <2>1 DEF BeginShutdown, OwnedWhenTaken, OwnerStays
<1>8. CASE BeginDraining \/ WorkersGone \/ WaitTimesOut
  BY <1>0, <1>8 DEF BeginDraining, WorkersGone, WaitTimesOut, gateVars
<1>9. CASE UNCHANGED vars
  BY <1>0, <1>9 DEF vars, gateVars
<1> QED
  BY <1>1, <1>2, <1>3, <1>4, <1>5, <1>6, <1>7, <1>8, <1>9 DEF Next, WorkerStep, InterruptStep, ShutdownStep

(* ConsumeTurn, Interrupt and BeginShutdown: whoever took a turn out of    *)
(* `active` keeps it, and a worker goes past ConsumeTurn only when its     *)
(* turn has an owner.                                                      *)
THEOREM EndHasOneOwner == Spec => OneOwner
<1>1. Init => OwnedWhenTaken
  BY DEF Init, OwnedWhenTaken
<1>2. IInv /\ OwnedWhenTaken => \A j \in Jobs : worker[j] \in {"ending", "done"} => owner[j] # "none"
  <2> SUFFICES ASSUME IInv, OwnedWhenTaken, NEW j \in Jobs, worker[j] \in {"ending", "done"}
               PROVE  owner[j] # "none"
    OBVIOUS
  <2>1. active[ThreadOf[j]] # j
    BY AdmissionAssumption DEF IInv, TurnsRun
  <2> QED
    BY <2>1 DEF OwnedWhenTaken
<1>3. IInv /\ OwnedWhenTaken /\ [Next]_vars => [OwnerStays]_vars
  BY OwnerStep
<1> QED
  BY <1>1, <1>2, <1>3, OwnerStep, InductiveInvariant, PTL DEF Spec, OneOwner, OwnerStays

----------------------------------------------------------------------------
(* A reservation survives the drain.                                       *)

Keepers == {j \in Jobs : handler[j] \in {"reserved", "started"}}
Unreviewed(t) == \A r \in Reviews : ThreadOf[r] = t => worker[r] = "none"

(* Until shutdown takes the turns, a handler that has reserved its thread  *)
(* and not yet registered is the only one there and the reservation stands *)
(* with its permit, unless a review registered on the thread.              *)
ReservationKept ==
    shutdown \in {"serving", "draining"} =>
        \A j \in Keepers : Unreviewed(ThreadOf[j]) =>
            /\ active[ThreadOf[j]] = "reserved"
            /\ j \in Starts => ThreadOf[j] \in admittedTurns
            /\ \A i \in Keepers : ThreadOf[i] = ThreadOf[j] => i = j

(* No worker goes back to the state it had before its turn registered.     *)
LEMMA ReviewedStays ==
    ASSUME IInv, [Next]_vars, NEW t \in Threads, Unreviewed(t)'
    PROVE  Unreviewed(t)
<1> SUFFICES ASSUME NEW r \in Reviews, worker'[r] = "none" PROVE worker[r] = "none"
  BY DEF Unreviewed
<1>a. TypeOK /\ r \in Jobs
  BY DEF IInv, Jobs
<1>1. ASSUME NEW j \in Jobs, HandlerStep(j) \/ WorkerStep(j) \/ InterruptStep(j)
      PROVE  worker' = worker \/ \E pc \in WorkerPC \ {"none"} : worker' = [worker EXCEPT ![j] = pc]
  <2>1. {"running", "ending", "done"} = WorkerPC \ {"none"}
    BY DEF WorkerPC
  <2>2. CASE HandlerStep(j)
    BY <2>1, <2>2 DEF HandlerStep, AdmitTurnWork, PreparationFails, ReserveTurn, ReserveFails, TurnStarts,
       TurnStartFails, RegisterTurn, RegisterFails, HandlerReturns
  <2>3. CASE WorkerStep(j) \/ InterruptStep(j)
    BY <2>1, <2>3 DEF WorkerStep, WorkerEnds, TurnWorkerDone, InterruptStep, InterruptTurn, InterruptPublished
  <2> QED
    BY <1>1, <2>2, <2>3
<1>2. ASSUME NEW p \in Pausers, PauserStep(p) PROVE worker' = worker
  BY <1>2 DEF PauserStep, BeginPause, PauseDrained, ReleasePause, ReplaceCredentials
<1>3. CASE ShutdownStep
  BY <1>3 DEF ShutdownStep, BeginDraining, BeginShutdown, WorkersGone, WaitTimesOut
<1>4. CASE UNCHANGED vars
  BY <1>4 DEF vars
<1> QED
  BY <1>a, <1>1, <1>2, <1>3, <1>4 DEF Next, TypeOK

(* A handler that leaves the window between reservation and registration,  *)
(* or moves inside it, disturbs no other thread's keeper.                  *)
LEMMA ReservationStep == IInv /\ ReservationKept /\ [Next]_vars => ReservationKept'
<1> SUFFICES ASSUME IInv, ReservationKept, [Next]_vars,
                    (shutdown \in {"serving", "draining"})',
                    NEW j \in Keepers', Unreviewed(ThreadOf[j])'
             PROVE  /\ active'[ThreadOf[j]] = "reserved"
                    /\ j \in Starts => ThreadOf[j] \in admittedTurns'
                    /\ \A i \in Keepers' : ThreadOf[i] = ThreadOf[j] => i = j
  BY DEF ReservationKept, Unreviewed
<1> DEFINE t == ThreadOf[j]
           Goal == /\ active'[t] = "reserved"
                   /\ j \in Starts => t \in admittedTurns'
                   /\ \A i \in Keepers' : ThreadOf[i] = t => i = j
<1>a. TypeOK /\ TurnsRun /\ j \in Jobs /\ t \in Threads
  BY AdmissionAssumption DEF IInv, Keepers
<1>b. Unreviewed(t)
  BY <1>a, ReviewedStays
<1>c. "idle" \notin Jobs /\ "reserved" \notin Jobs
  BY AdmissionAssumption
<1>d. Starts \cup Reviews \cup Continuations = Jobs /\ Starts \subseteq Dispatched
  BY DEF Jobs, Dispatched
<1>s. shutdown \in {"serving", "draining"}
  <2>1. shutdown' = shutdown \/ ShutdownStep
    BY DEF Next, HandlerStep, WorkerStep, InterruptStep, AdmitTurnWork, PreparationFails, ReserveTurn,
       ReserveFails, TurnStarts, TurnStartFails, RegisterTurn, RegisterFails, HandlerReturns, WorkerEnds,
       TurnWorkerDone, InterruptTurn, InterruptPublished, PauserStep, BeginPause, PauseDrained, ReleasePause,
       ReplaceCredentials, vars
  <2> QED
    BY <2>1 DEF ShutdownStep, BeginDraining, BeginShutdown, WorkersGone, WaitTimesOut
(* What is left of the invariant when j was a keeper before the step.      *)
<1>k. ASSUME j \in Keepers
      PROVE  /\ active[t] = "reserved" /\ (j \in Starts => t \in admittedTurns)
             /\ \A i \in Keepers : ThreadOf[i] = t => i = j
  BY <1>b, <1>s, <1>k DEF ReservationKept
<1>0. ASSUME Keepers' \subseteq Keepers, active'[t] = active[t], UNCHANGED admittedTurns PROVE Goal
  BY <1>k, <1>0
<1>1. ASSUME NEW i \in Jobs, HandlerStep(i) PROVE Goal
  <2>0. ASSUME NEW to, HandlerGoes(i, to)
        PROVE  /\ Keepers' \subseteq Keepers \cup {i}
               /\ to \notin {"reserved", "started"} => Keepers' = Keepers \ {i}
    BY <1>a, <2>0 DEF HandlerGoes, Keepers, TypeOK
  <2>1. CASE AdmitTurnWork(i) \/ PreparationFails(i) \/ ReserveFails(i) \/ RegisterFails(i) \/ HandlerReturns(i)
    <3>1. PICK to \in {"done", "admitted", "returning"} : HandlerGoes(i, to)
      BY <2>1 DEF AdmitTurnWork, PreparationFails, ReserveFails, RegisterFails, HandlerReturns
    <3>2. UNCHANGED <<active, admittedTurns>>
      BY <2>1 DEF AdmitTurnWork, PreparationFails, ReserveFails, RegisterFails, HandlerReturns, gateVars
    <3> QED
      BY <1>0, <2>0, <3>1, <3>2
  <2>2. CASE TurnStarts(i)
    <3>1. i \in Keepers /\ HandlerGoes(i, "started") /\ UNCHANGED <<active, admittedTurns>>
      BY <2>2 DEF TurnStarts, Keepers, gateVars
    <3> QED
      BY <1>0, <2>0, <3>1
  <2>3. CASE ReserveTurn(i)
    <3>1. i \notin Keepers /\ HandlerGoes(i, "reserved") /\ active[ThreadOf[i]] = "idle"
      BY <2>3 DEF ReserveTurn, ReserveRejects, ReadyToReserve, Keepers
    <3>2. CASE j = i
      <4>1. \A k \in Keepers : ThreadOf[k] # t
        <5> SUFFICES ASSUME NEW k \in Keepers, ThreadOf[k] = t PROVE FALSE
          OBVIOUS
        <5>1. active[t] = "reserved"
          BY <1>b, <1>s DEF ReservationKept
        <5> QED
          BY <3>1, <3>2, <5>1
      <4>2. active'[t] = "reserved"
        BY <1>a, <2>3, <3>2 DEF ReserveTurn, TypeOK
      <4>3. j \in Starts => t \in admittedTurns'
        BY <1>d, <2>3, <3>2 DEF ReserveTurn
      <4> QED
        BY <2>0, <3>1, <3>2, <4>1, <4>2, <4>3
    <3>3. CASE j # i
      <4>1. j \in Keepers
        BY <2>0, <3>1, <3>3
      <4>2. ThreadOf[i] # t
        BY <1>k, <3>1, <4>1
      <4>3. active'[t] = active[t] /\ (t \in admittedTurns' <=> t \in admittedTurns)
        BY <1>a, <2>3, <4>2 DEF ReserveTurn, TypeOK
      <4> QED
        BY <1>k, <2>0, <3>1, <4>1, <4>2, <4>3
    <3> QED
      BY <3>2, <3>3
  <2>4. CASE TurnStartFails(i)
    <3>1. i \in Keepers /\ HandlerGoes(i, "returning")
      BY <2>4 DEF TurnStartFails, Keepers
    <3>2. Keepers' = Keepers \ {i} /\ ThreadOf[i] # t
      BY <1>k, <2>0, <3>1
    <3>3. active'[t] = active[t] /\ UNCHANGED admittedTurns
      BY <1>a, <2>4, <3>2 DEF TurnStartFails, TypeOK
    <3> QED
      BY <1>0, <3>2, <3>3
  <2>5. CASE RegisterTurn(i)
    <3>1. HandlerGoes(i, "returning") /\ worker'[i] = "running"
      BY <1>a, <2>5 DEF RegisterTurn, TypeOK
    <3>2. Keepers' = Keepers \ {i}
      BY <2>0, <3>1
    <3>3. ThreadOf[i] # t
      <4>1. CASE i \in Reviews
        BY <3>1, <4>1 DEF Unreviewed
      <4>2. CASE i \notin Reviews
        <5>1. i \in Keepers
          BY <2>5, <4>2 DEF RegisterTurn, ReadyToRegister, Keepers
        <5> QED
          BY <1>k, <3>2, <5>1
      <4> QED
        BY <4>1, <4>2
    <3>4. active'[t] = active[t] /\ UNCHANGED admittedTurns
      BY <1>a, <2>5, <3>3 DEF RegisterTurn, TypeOK
    <3> QED
      BY <1>0, <3>2, <3>4
  <2> QED
    BY <1>1, <2>1, <2>2, <2>3, <2>4, <2>5 DEF HandlerStep
<1>2. ASSUME NEW i \in Jobs, WorkerStep(i) \/ InterruptStep(i) PROVE Goal
  <2>1. UNCHANGED <<handler, admittedTurns>>
    BY <1>2 DEF WorkerStep, WorkerEnds, TurnWorkerDone, InterruptStep, InterruptTurn, InterruptPublished
  <2>2. \/ UNCHANGED active
        \/ active[ThreadOf[i]] = i /\ active' = [active EXCEPT ![ThreadOf[i]] = "idle"]
    BY <1>2 DEF WorkerStep, WorkerEnds, TurnWorkerDone, InterruptStep, InterruptTurn, InterruptPublished, ConsumeTurn
  <2>3. Keepers' = Keepers
    BY <2>1 DEF Keepers
  <2>4. active[t] \notin Jobs
    BY <1>c, <1>k, <2>3
  <2>5. active'[t] = active[t]
    BY <1>a, <2>2, <2>4 DEF TypeOK
  <2> QED
    BY <1>0, <2>1, <2>3, <2>5
<1>3. ASSUME NEW p \in Pausers, PauserStep(p) PROVE Goal
  BY <1>0, <1>3 DEF PauserStep, BeginPause, PauseDrained, ReleasePause, ReplaceCredentials, gateVars, Keepers
<1>4. CASE ShutdownStep
  <2>1. BeginDraining
    BY <1>4 DEF ShutdownStep, BeginShutdown, WorkersGone, WaitTimesOut
  <2> QED
    BY <1>0, <2>1 DEF BeginDraining, Keepers
<1>5. CASE UNCHANGED vars
  BY <1>0, <1>5 DEF vars, gateVars, Keepers
<1>6. Goal
  BY <1>1, <1>2, <1>3, <1>4, <1>5 DEF Next
<1> QED
  BY <1>6

(* What RegisterTurnWithTurnID rejects a started turn/start for, before    *)
(* shutdown takes the turns: a pause, or a review on its thread.           *)
RefusedForCause ==
    \A j \in Starts :
        RegisterFails(j) /\ ~paused /\ shutdown # "waiting" =>
            \E r \in Reviews : ThreadOf[r] = ThreadOf[j] /\ worker[r] # "none"

(* A started turn/start still has its reservation and its permit.          *)
LEMMA RefusedStep == IInv /\ ReservationKept => RefusedForCause
<1> SUFFICES ASSUME IInv, ReservationKept, NEW j \in Starts, RegisterFails(j), ~paused,
                    shutdown # "waiting", Unreviewed(ThreadOf[j])
             PROVE  FALSE
  BY DEF RefusedForCause, Unreviewed
<1>1. j \in Dispatched /\ j \in Jobs /\ j \notin Reviews
  BY AdmissionAssumption DEF Dispatched, Jobs
<1>2. handler[j] = "started" /\ j \in Keepers
  BY <1>1 DEF RegisterFails, ReadyToRegister, Keepers
<1>3. shutdown \in {"serving", "draining"}
  BY <1>1, <1>2 DEF IInv, GateStaysClosed, TypeOK, ShutdownPC
<1>4. active[ThreadOf[j]] = "reserved" /\ ThreadOf[j] \in admittedTurns
  BY <1>2, <1>3 DEF ReservationKept
<1> QED
  BY <1>4, AdmissionAssumption DEF RegisterFails, RegisterRejects, GateRejects

(* ReserveTurn, RegisterTurnWithTurnID and BeginDraining: work submitted   *)
(* before the drain keeps its reservation and its permit through it.       *)
THEOREM ReservationSurvives == Spec => ReservationSurvivesDrain
<1>1. Init => ReservationKept
  BY DEF Init, ReservationKept, Keepers
<1>2. IInv /\ ReservationKept /\ [Next]_vars => [RefusedForCause]_vars
  BY RefusedStep
<1> QED
  BY <1>1, <1>2, ReservationStep, InductiveInvariant, PTL DEF Spec, ReservationSurvivesDrain, RefusedForCause
=============================================================================
