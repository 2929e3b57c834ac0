--------------------------- MODULE TurnAdmission ---------------------------
(***************************************************************************)
(* Which turns may start: ThreadManager's reservations, registered turns,  *)
(* admission permits, drain gate and pause, with everyone that uses them:  *)
(*                                                                         *)
(*   turn/start     admit at dispatch, reserve the thread, start, register;*)
(*   review/start   admit at dispatch, register without a reservation;     *)
(*   continuations  reserve and register on the server's own account, so   *)
(*                  without a permit (goals, daemon recovery);             *)
(*   workers        run a registered turn and consume it when it ends;     *)
(*   interrupts     take a turn away from its worker;                      *)
(*   pausers        a workspace switch or a workspace login;               *)
(*   the shutdown   drain, wait for requests, take every turn, wait for    *)
(*                  workers.                                               *)
(*                                                                         *)
(* ThreadManager's methods hold turnsMu throughout, so each is one action. *)
(***************************************************************************)
EXTENDS Naturals, FiniteSets

CONSTANTS
    Threads,
    Starts, Reviews, Continuations,     \* pieces of turn work, each tried once
    ThreadOf,                           \* the thread each works on
    Pausers

Jobs == Starts \cup Reviews \cup Continuations
Dispatched == Starts \cup Reviews       \* admitted by a transport, with a permit

ASSUME AdmissionAssumption ==
    /\ IsFiniteSet(Jobs)
    /\ ThreadOf \in [Jobs -> Threads]
    /\ Starts \cap Reviews = {} /\ Dispatched \cap Continuations = {}
    /\ Jobs \cap {"idle", "reserved"} = {}

VARIABLES
    closing, paused,    \* the drain gate and the pause
    admittedWork,       \* permits taken and not yet released
    active,             \* thread -> "idle", "reserved" (TurnID "") or its turn
    admittedTurns,      \* threads whose reservation keeps a permit
    turnWG,             \* tracked workers
    handler,            \* job -> control state of what starts it
    worker,             \* job -> control state of its turn's goroutine
    publisher,          \* job -> control state of the interrupt that took it
    pauser,             \* pauser -> control state
    shutdown,           \* control state of the server's shutdown
    owner               \* history: who took the registered turn

gateVars == <<closing, paused, admittedWork, active, admittedTurns, turnWG>>
vars == <<gateVars, handler, worker, publisher, pauser, shutdown, owner>>

HandlerPC == {"idle", "admitted", "reserved", "started", "returning", "done"}
WorkerPC == {"none", "running", "ending", "done"}
PublisherPC == {"none", "publishing", "done"}
PauserPC == {"idle", "waiting", "held", "replaced", "done"}
ShutdownPC == {"serving", "draining", "waiting", "closed", "timedOut"}
Owners == {"none", "worker", "interrupt", "shutdown"}

(* Requests between their dispatch and the release of their permit.        *)
InFlight == {"admitted", "reserved", "started", "returning"}
Holding == {j \in Dispatched : handler[j] \in InFlight}

Running == {j \in Jobs : worker[j] \in {"running", "ending"}}
Tracked(j) == j \notin Reviews
Publishing == {j \in Jobs : publisher[j] = "publishing"}

NoTurnActive == \A t \in Threads : active[t] = "idle"

Init ==
    /\ closing = FALSE /\ paused = FALSE /\ admittedWork = 0
    /\ active = [t \in Threads |-> "idle"] /\ admittedTurns = {} /\ turnWG = 0
    /\ handler = [j \in Jobs |-> "idle"]
    /\ worker = [j \in Jobs |-> "none"]
    /\ publisher = [j \in Jobs |-> "none"]
    /\ pauser = [p \in Pausers |-> "idle"]
    /\ shutdown = "serving"
    /\ owner = [j \in Jobs |-> "none"]

HandlerGoes(j, to) == handler' = [handler EXCEPT ![j] = to]

----------------------------------------------------------------------------
(* Requests and continuations.                                             *)

AdmitTurnWork(j) ==
    /\ j \in Dispatched /\ handler[j] = "idle"
    /\ IF closing \/ paused
       THEN HandlerGoes(j, "done") /\ UNCHANGED admittedWork
       ELSE HandlerGoes(j, "admitted") /\ admittedWork' = admittedWork + 1
    /\ UNCHANGED <<closing, paused, active, admittedTurns, turnWG,
                   worker, publisher, pauser, shutdown, owner>>

(* A handler fails while it prepares the work (validation, hooks).         *)
PreparationFails(j) ==
    /\ handler[j] = "admitted"
    /\ HandlerGoes(j, "returning")
    /\ UNCHANGED <<gateVars, worker, publisher, pauser, shutdown, owner>>

(* handleTurnStart holds turnAdmissionMu from its first line to its last.  *)
AdmissionLocked == \E j \in Starts : handler[j] \in {"reserved", "started"}

ReadyToReserve(j) ==
    \/ j \in Starts /\ handler[j] = "admitted" /\ ~AdmissionLocked
    \/ j \in Continuations /\ handler[j] = "idle"

(* Mutant: a reservation is made although admission is paused.             *)
ReserveRejectsIgnoringPause(j) ==
    \/ closing /\ j \notin Dispatched
    \/ active[ThreadOf[j]] # "idle"

ReserveRejects(j) ==
    \/ closing /\ j \notin Dispatched
    \/ paused
    \/ active[ThreadOf[j]] # "idle"

(* Mutant: a reservation does not keep the permit of its request.          *)
ReserveDroppingPermit(j) ==
    /\ ReadyToReserve(j) /\ ~ReserveRejects(j)
    /\ active' = [active EXCEPT ![ThreadOf[j]] = "reserved"]
    /\ HandlerGoes(j, "reserved")
    /\ UNCHANGED <<closing, paused, admittedWork, admittedTurns, turnWG, worker, publisher, pauser, shutdown, owner>>

ReserveTurn(j) ==
    /\ ReadyToReserve(j) /\ ~ReserveRejects(j)
    /\ active' = [active EXCEPT ![ThreadOf[j]] = "reserved"]
    /\ admittedTurns' = IF j \in Dispatched
                        THEN admittedTurns \cup {ThreadOf[j]}
                        ELSE admittedTurns \ {ThreadOf[j]}
    /\ HandlerGoes(j, "reserved")
    /\ UNCHANGED <<closing, paused, admittedWork, turnWG, worker, publisher, pauser, shutdown, owner>>

ReserveFails(j) ==
    /\ ReadyToReserve(j) /\ ReserveRejects(j)
    /\ HandlerGoes(j, "returning")
    /\ UNCHANGED <<gateVars, worker, publisher, pauser, shutdown, owner>>

TurnStarts(j) ==
    /\ handler[j] = "reserved"
    /\ HandlerGoes(j, "started")
    /\ UNCHANGED <<gateVars, worker, publisher, pauser, shutdown, owner>>

(* TurnService.Start failed: whatever reservation the thread has is taken  *)
(* back (clearActiveRuntimeTurn with an empty turn id).                    *)
TurnStartFails(j) ==
    LET t == ThreadOf[j] IN
    /\ handler[j] = "reserved"
    /\ active' = IF active[t] = "reserved" THEN [active EXCEPT ![t] = "idle"] ELSE active
    /\ HandlerGoes(j, "returning")
    /\ UNCHANGED <<closing, paused, admittedWork, admittedTurns, turnWG,
                   worker, publisher, pauser, shutdown, owner>>

ReadyToRegister(j) ==
    \/ j \notin Reviews /\ handler[j] = "started"
    \/ j \in Reviews /\ handler[j] = "admitted"

(* Mutant: a turn whose reservation is gone passes the drain gate.         *)
GateRejectsUnpermitted(j) ==
    LET t == ThreadOf[j] IN closing /\ active[t] # "idle" /\ t \notin admittedTurns

GateRejects(j) ==
    LET t == ThreadOf[j] IN closing /\ (active[t] = "idle" \/ t \notin admittedTurns)

RegisterRejects(j) == GateRejects(j) \/ paused \/ active[ThreadOf[j]] \in Jobs

RegisterTurn(j) ==
    /\ ReadyToRegister(j) /\ ~RegisterRejects(j)
    /\ active' = [active EXCEPT ![ThreadOf[j]] = j]
    /\ turnWG' = turnWG + 1
    /\ worker' = [worker EXCEPT ![j] = "running"]
    /\ HandlerGoes(j, "returning")
    /\ UNCHANGED <<closing, paused, admittedWork, admittedTurns, publisher, pauser, shutdown, owner>>

(* The turn is reported as failed; `active` is left as it is.              *)
RegisterFails(j) ==
    /\ ReadyToRegister(j) /\ RegisterRejects(j)
    /\ HandlerGoes(j, "returning")
    /\ UNCHANGED <<gateVars, worker, publisher, pauser, shutdown, owner>>

(* The transport releases the permit once the handler has returned.        *)
HandlerReturns(j) ==
    /\ handler[j] = "returning"
    /\ HandlerGoes(j, "done")
    /\ admittedWork' = IF j \in Dispatched /\ admittedWork > 0 THEN admittedWork - 1 ELSE admittedWork
    /\ UNCHANGED <<closing, paused, active, admittedTurns, turnWG,
                   worker, publisher, pauser, shutdown, owner>>

----------------------------------------------------------------------------
(* Workers and interrupts: whoever removes the turn from `active` reports  *)
(* its end.                                                                *)

(* Mutant: an interrupt cancels the turn and leaves it registered.         *)
TakeLeavingActive(j, who) ==
    /\ active[ThreadOf[j]] = j
    /\ owner' = [owner EXCEPT ![j] = who]
    /\ UNCHANGED active

(* ConsumeTurn, ConsumeTurnTracked.                                        *)
ConsumeTurn(j, who) ==
    /\ active[ThreadOf[j]] = j
    /\ active' = [active EXCEPT ![ThreadOf[j]] = "idle"]
    /\ owner' = [owner EXCEPT ![j] = who]

(* The worker consumes its turn, or finds that somebody else did; then it  *)
(* records the final batch or just returns.                                *)
WorkerEnds(j) ==
    /\ worker[j] = "running"
    /\ worker' = [worker EXCEPT ![j] = "ending"]
    /\ IF active[ThreadOf[j]] = j THEN ConsumeTurn(j, "worker") ELSE UNCHANGED <<active, owner>>
    /\ UNCHANGED <<closing, paused, admittedWork, admittedTurns, turnWG,
                   handler, publisher, pauser, shutdown>>

(* Mutant: the goroutine returns without telling the wait group.           *)
WorkerReturnsSilently(j) ==
    /\ worker[j] = "ending"
    /\ worker' = [worker EXCEPT ![j] = "done"]
    /\ UNCHANGED <<gateVars, handler, publisher, pauser, shutdown, owner>>

TurnWorkerDone(j) ==
    /\ worker[j] = "ending"
    /\ worker' = [worker EXCEPT ![j] = "done"]
    /\ turnWG' = turnWG - 1
    /\ UNCHANGED <<closing, paused, admittedWork, active, admittedTurns,
                   handler, publisher, pauser, shutdown, owner>>

(* Mutant: the interrupt's goroutine is never counted.                     *)
InterruptTurnUntracked(j) ==
    /\ shutdown \in {"serving", "draining"}
    /\ ConsumeTurn(j, "interrupt")
    /\ publisher' = [publisher EXCEPT ![j] = "publishing"]
    /\ UNCHANGED <<closing, paused, admittedWork, admittedTurns, turnWG, handler, worker, pauser, shutdown>>

(* turn/interrupt: a review's end is published inside the request, every   *)
(* other turn's by a tracked goroutine.                                    *)
InterruptTurn(j) ==
    /\ shutdown \in {"serving", "draining"}
    /\ ConsumeTurn(j, "interrupt")
    /\ publisher' = [publisher EXCEPT ![j] = "publishing"]
    /\ turnWG' = IF Tracked(j) THEN turnWG + 1 ELSE turnWG
    /\ UNCHANGED <<closing, paused, admittedWork, admittedTurns, handler, worker, pauser, shutdown>>

InterruptPublished(j) ==
    /\ publisher[j] = "publishing"
    /\ publisher' = [publisher EXCEPT ![j] = "done"]
    /\ turnWG' = IF Tracked(j) THEN turnWG - 1 ELSE turnWG
    /\ UNCHANGED <<closing, paused, admittedWork, active, admittedTurns,
                   handler, worker, pauser, shutdown, owner>>

----------------------------------------------------------------------------
(* PauseTurnAdmission and what a workspace switch does under it.           *)

PauserGoes(p, to) == pauser' = [pauser EXCEPT ![p] = to]

BeginPause(p) ==
    /\ pauser[p] = "idle"
    /\ IF closing \/ paused
       THEN PauserGoes(p, "done") /\ UNCHANGED paused
       ELSE PauserGoes(p, "waiting") /\ paused' = TRUE
    /\ UNCHANGED <<closing, admittedWork, active, admittedTurns, turnWG,
                   handler, worker, publisher, shutdown, owner>>

Drained == NoTurnActive /\ admittedWork = 0

PauseDrained(p) ==
    /\ pauser[p] = "waiting" /\ Drained
    /\ PauserGoes(p, "held")
    /\ UNCHANGED <<gateVars, handler, worker, publisher, shutdown, owner>>

(* Release: after a timeout or cancellation of the wait, or at the end.    *)
ReleasePause(p) ==
    /\ pauser[p] \in {"waiting", "held", "replaced"}
    /\ PauserGoes(p, "done")
    /\ paused' = FALSE
    /\ UNCHANGED <<closing, admittedWork, active, admittedTurns, turnWG,
                   handler, worker, publisher, shutdown, owner>>

(* unloadForWorkspaceSwitch has found no active turn; SwitchWorkspace      *)
(* replaces the credentials.                                               *)
ReplaceCredentials(p) ==
    /\ pauser[p] = "held" /\ NoTurnActive
    /\ PauserGoes(p, "replaced")
    /\ UNCHANGED <<gateVars, handler, worker, publisher, shutdown, owner>>

----------------------------------------------------------------------------
(* A transport's shutdown and RuntimeRouter.Close.                         *)

BeginDraining ==
    /\ shutdown = "serving"
    /\ shutdown' = "draining" /\ closing' = TRUE
    /\ UNCHANGED <<paused, admittedWork, active, admittedTurns, turnWG,
                   handler, worker, publisher, pauser, owner>>

RequestsReturned ==
    /\ \A j \in Dispatched : handler[j] \in {"idle", "done"}
    /\ \A j \in Publishing : Tracked(j)

(* BeginShutdown takes every turn still registered, and every reservation. *)
BeginShutdown ==
    /\ shutdown = "draining" /\ RequestsReturned
    /\ shutdown' = "waiting" /\ closing' = TRUE
    /\ active' = [t \in Threads |-> "idle"]
    /\ owner' = [j \in Jobs |-> IF active[ThreadOf[j]] = j THEN "shutdown" ELSE owner[j]]
    /\ UNCHANGED <<paused, admittedWork, admittedTurns, turnWG, handler, worker, publisher, pauser>>

WorkersGone ==
    /\ shutdown = "waiting" /\ turnWG = 0
    /\ shutdown' = "closed"
    /\ UNCHANGED <<gateVars, handler, worker, publisher, pauser, owner>>

WaitTimesOut ==
    /\ shutdown = "waiting"
    /\ shutdown' = "timedOut"
    /\ UNCHANGED <<gateVars, handler, worker, publisher, pauser, owner>>

----------------------------------------------------------------------------
HandlerStep(j) ==
    \/ AdmitTurnWork(j) \/ PreparationFails(j)
    \/ ReserveTurn(j) \/ ReserveFails(j)
    \/ TurnStarts(j) \/ TurnStartFails(j)
    \/ RegisterTurn(j) \/ RegisterFails(j)
    \/ HandlerReturns(j)

WorkerStep(j) == WorkerEnds(j) \/ TurnWorkerDone(j)
InterruptStep(j) == InterruptTurn(j) \/ InterruptPublished(j)
PauserStep(p) == BeginPause(p) \/ PauseDrained(p) \/ ReleasePause(p) \/ ReplaceCredentials(p)
ShutdownStep == BeginDraining \/ BeginShutdown \/ WorkersGone \/ WaitTimesOut

Next ==
    \/ \E j \in Jobs : HandlerStep(j) \/ WorkerStep(j) \/ InterruptStep(j)
    \/ \E p \in Pausers : PauserStep(p)
    \/ ShutdownStep

Spec == Init /\ [][Next]_vars

(* Handlers return; a worker whose context is cancelled ends; the goroutine *)
(* of an interrupt publishes; the close sequence goes on.  A running turn   *)
(* may run for ever, nobody has to interrupt it, and the wait for workers   *)
(* may or may not time out.                                                 *)
Fairness ==
    /\ \A j \in Jobs :
          /\ WF_vars(handler[j] # "idle" /\ HandlerStep(j))
          /\ WF_vars(active[ThreadOf[j]] # j /\ WorkerEnds(j))
          /\ WF_vars(TurnWorkerDone(j))
          /\ WF_vars(InterruptPublished(j))
    /\ WF_vars(BeginShutdown) /\ WF_vars(WorkersGone)

FairSpec == Spec /\ Fairness

----------------------------------------------------------------------------
TypeOK ==
    /\ closing \in BOOLEAN /\ paused \in BOOLEAN
    /\ admittedWork \in Nat /\ turnWG \in Nat
    /\ active \in [Threads -> Jobs \cup {"idle", "reserved"}]
    /\ admittedTurns \subseteq Threads
    /\ handler \in [Jobs -> HandlerPC] /\ worker \in [Jobs -> WorkerPC]
    /\ publisher \in [Jobs -> PublisherPC] /\ pauser \in [Pausers -> PauserPC]
    /\ shutdown \in ShutdownPC /\ owner \in [Jobs -> Owners]

(* At most one pauser waits for or holds the pause, and while one holds it *)
(* no dispatched request still has its permit and no thread has a turn or  *)
(* a reservation: nothing a request prepared before the pause can start a  *)
(* turn under it.                                                          *)
Pausing == {p \in Pausers : pauser[p] \in {"waiting", "held", "replaced"}}

PauseExclusive ==
    /\ \A p, q \in Pausing : p = q
    /\ \A p \in Pausing : pauser[p] \in {"held", "replaced"} => NoTurnActive /\ Holding = {}

(* The wait group counts the workers and the interrupts' goroutines, so a  *)
(* wait that returns has seen every one of them.                           *)
WorkersCounted == turnWG = Cardinality(Running) + Cardinality({j \in Publishing : Tracked(j)})

(* "Shutdown either consumes the turn first or observes the worker": once  *)
(* the wait has returned, nobody runs or reports a turn and none starts.   *)
ShutdownQuiet == shutdown = "closed" => Running = {} /\ Publishing = {} /\ NoTurnActive

(* A registered turn is taken exactly once, by its worker, an interrupt or *)
(* the shutdown: the end of a turn has one owner, and a worker goes on     *)
(* only when the turn is out of `active`.                                  *)
OneOwner ==
    /\ [][\A j \in Jobs : owner[j] # "none" => owner'[j] = owner[j]]_vars
    /\ [](\A j \in Jobs : worker[j] \in {"ending", "done"} => owner[j] # "none")

(* "A drain that starts while the request is preparing does not cancel     *)
(* work the client already submitted": before shutdown takes the turns, a  *)
(* turn/start that reserved its thread is refused only for a pause, or     *)
(* because a review, which registers without reserving, used up its        *)
(* reservation.                                                            *)
ReservationSurvivesDrain ==
    [][\A j \in Starts :
          RegisterFails(j) /\ ~paused /\ shutdown # "waiting" =>
              \E r \in Reviews : ThreadOf[r] = ThreadOf[j] /\ worker[r] # "none"]_vars

(* A drain ends: every admitted request returns and the wait for workers   *)
(* is over, one way or the other.                                          *)
DrainEnds == shutdown = "draining" ~> shutdown \in {"closed", "timedOut"}

=============================================================================
