----------------------------- MODULE AgentWakes -----------------------------
(***************************************************************************)
(* Automatic wakes: mail for an idle root thread starts a turn that takes  *)
(* the queued mail as its input.  One root thread whose feature is on, and *)
(* everyone who decides about its turns:                                   *)
(*                                                                         *)
(*   senders     enqueueRuntimeAgentMessage, then the wake;                *)
(*   starts      explicit turn/start requests, which drain the queue;      *)
(*   turns       the worker of each turn: it builds the turn, revalidates  *)
(*               a wake before it starts its task, runs it, and looks for  *)
(*               mail once more when it ends;                              *)
(*   interrupts  turn/interrupt requests;                                  *)
(*   the host    settings updates that enter or leave Plan mode, and the   *)
(*               pauses of a workspace change.                             *)
(*                                                                         *)
(* agentWakeMu and turnAdmissionMu are held across many steps and are      *)
(* modelled; agentMessagesMu, agentWakeStateMu and turnsMu guard one step  *)
(* each.  The queue is a set: the order of mail is left out.               *)
(***************************************************************************)
EXTENDS Naturals, FiniteSets

CONSTANTS
    Mails,          \* pieces of mail, each brought by a sender of its own
    Starts,         \* turn/start requests
    Turns,          \* the turns that can be started
    Interrupts,     \* turn/interrupt requests
    MaxPauses, MaxToggles

Actors == Mails \cup Starts \cup Turns \cup Interrupts

ASSUME WakesAssumption ==
    /\ Mails \cap Starts = {} /\ (Mails \cup Starts) \cap Turns = {}
    /\ (Mails \cup Starts \cup Turns) \cap Interrupts = {}
    /\ Actors \cap {"free", "idle", "reserved", "none"} = {}
    /\ MaxPauses \in Nat /\ MaxToggles \in Nat

VARIABLES
    agentMessages,      \* mail queued for the thread
    agentWakeStopped,   \* an interrupted wake blocks the next ones
    interrupted,        \* the last persisted turn was interrupted
    plan,               \* the thread's settings select Plan mode
    paused,             \* turn admission is paused
    agentWakeMu, turnAdmissionMu,   \* "free" or the actor that holds it
    active,             \* "idle", "reserved" or the registered turn
    record,             \* TurnService.active: "none" or a turn
    automatic,          \* turns with params.AutomaticWake
    taskStarted,        \* turns with TaskStarted
    cancelled,          \* turns whose context is done
    input,              \* turn -> params.AdditionalInputItems
    pc,                 \* actor -> control state
    hand,               \* actor -> the mail it has drained
    turnOf,             \* actor -> the turn it starts or interrupts
    pauses, toggles,    \* bounded by MaxPauses and MaxToggles
    givenBack,          \* history: rejected turns whose mail was requeued
    parked              \* history: mail that waits for an explicit turn

gateVars == <<interrupted, plan, paused, agentWakeStopped>>
lockVars == <<agentWakeMu, turnAdmissionMu>>
turnVars == <<active, record, automatic, taskStarted, cancelled, input>>
hostVars == <<pauses, toggles>>
historyVars == <<givenBack, parked>>
vars == <<agentMessages, gateVars, lockVars, turnVars, pc, hand, turnOf, hostVars, historyVars>>

Sent == {m \in Mails : pc[m] # "idle"}

CallerPC == {"idle", "done", "wake", "eligible", "drain", "submit", "prepare",
             "reserve", "start", "register", "clear", "giveBack", "return"}
WorkerPC == (CallerPC \ {"idle"}) \cup
            {"none", "accepted", "registered", "refused", "build", "revalidate", "mark", "run",
             "reject", "rejectBuild", "requeue", "failed", "persist"}
InterruptPC == CallerPC \cup
            {"stopRecord", "interruptRecord", "reject", "requeue", "stop", "take", "publish"}

Init ==
    /\ agentMessages = {}
    /\ interrupted = FALSE /\ plan = FALSE /\ paused = FALSE /\ agentWakeStopped = FALSE
    /\ agentWakeMu = "free" /\ turnAdmissionMu = "free"
    /\ active = "idle" /\ record = "none"
    /\ automatic = {} /\ taskStarted = {} /\ cancelled = {}
    /\ input = [t \in Turns |-> {}]
    /\ pc = [a \in Actors |-> IF a \in Turns THEN "none" ELSE "idle"]
    /\ hand = [a \in Actors |-> {}]
    /\ turnOf = [a \in Actors |-> "none"]
    /\ pauses = 0 /\ toggles = 0
    /\ givenBack = {} /\ parked = {}

Goes(a, to) == pc' = [pc EXCEPT ![a] = to]

----------------------------------------------------------------------------
(* maybeWakeRootForPendingAgentMessages, called by senders, by the end of  *)
(* every turn, and by the report of a turn that could not register.        *)

(* A sender queues its mail; from then on it is a caller of the wake.      *)
Enqueue(m) ==
    /\ m \in Mails /\ pc[m] = "idle"
    /\ agentMessages' = agentMessages \cup {m}
    /\ Goes(m, "wake")
    /\ UNCHANGED <<gateVars, lockVars, turnVars, hand, turnOf, hostVars, historyVars>>

(* A reservation has no turn id yet and does not count as a running turn.  *)
WakeLocks(a) ==
    /\ pc[a] = "wake" /\ agentWakeMu = "free"
    /\ agentWakeMu' = a
    /\ Goes(a, IF active \in Turns THEN "return" ELSE "eligible")
    /\ UNCHANGED <<agentMessages, gateVars, turnAdmissionMu, turnVars, hand, turnOf,
                   hostVars, historyVars>>

(* runtimeAgentMessageWakeEligible.                                        *)
WakeEligible(a) ==
    LET eligible == ~agentWakeStopped /\ ~interrupted /\ ~plan IN
    /\ pc[a] = "eligible"
    /\ Goes(a, IF eligible THEN "drain" ELSE "return")
    /\ parked' = IF eligible THEN parked ELSE parked \cup agentMessages
    /\ UNCHANGED <<agentMessages, gateVars, lockVars, turnVars, hand, turnOf, hostVars, givenBack>>

Drains(a) ==
    /\ hand' = [hand EXCEPT ![a] = agentMessages]
    /\ agentMessages' = {}

WakeDrains(a) ==
    /\ pc[a] = "drain"
    /\ Drains(a)
    /\ Goes(a, IF agentMessages = {} THEN "return" ELSE "submit")
    /\ UNCHANGED <<gateVars, lockVars, turnVars, turnOf, hostVars, historyVars>>

----------------------------------------------------------------------------
(* handleTurnStart, for an explicit start and for a wake.                  *)

(* turn/start is dispatched with a permit, which a pause refuses.          *)
Dispatch(s) ==
    /\ s \in Starts /\ pc[s] = "idle"
    /\ Goes(s, IF paused THEN "done" ELSE "submit")
    /\ UNCHANGED <<agentMessages, gateVars, lockVars, turnVars, hand, turnOf, hostVars, historyVars>>

LockAdmission(a) ==
    /\ pc[a] = "submit" /\ turnAdmissionMu = "free"
    /\ turnAdmissionMu' = a
    /\ Goes(a, "prepare")
    /\ UNCHANGED <<agentMessages, gateVars, agentWakeMu, turnVars, hand, turnOf, hostVars, historyVars>>

(* An explicit start gives its mail back inside handleTurnStart, a wake    *)
(* once handleTurnStart has returned.                                      *)
StartRefused(a) ==
    /\ Goes(a, "giveBack")
    /\ turnAdmissionMu' = IF a \in Starts THEN turnAdmissionMu ELSE "free"

PreparationFails(a) ==
    /\ pc[a] = "prepare"
    /\ StartRefused(a)
    /\ UNCHANGED <<agentMessages, gateVars, agentWakeMu, turnVars, hand, turnOf, hostVars, historyVars>>

(* An automatic wake already owns its mail.                                *)
Prepared(a) ==
    /\ pc[a] = "prepare"
    /\ IF a \in Starts THEN Drains(a) ELSE UNCHANGED <<hand, agentMessages>>
    /\ Goes(a, "reserve")
    /\ UNCHANGED <<gateVars, lockVars, turnVars, turnOf, hostVars, historyVars>>

Reserve(a) ==
    /\ pc[a] = "reserve" /\ ~paused /\ active = "idle"
    /\ active' = "reserved"
    /\ Goes(a, "start")
    /\ UNCHANGED <<agentMessages, gateVars, lockVars, record, automatic, taskStarted, cancelled,
                   input, hand, turnOf, hostVars, historyVars>>

ReserveFails(a) ==
    /\ pc[a] = "reserve" /\ (paused \/ active # "idle")
    /\ StartRefused(a)
    /\ UNCHANGED <<agentMessages, gateVars, agentWakeMu, turnVars, hand, turnOf, hostVars, historyVars>>

TurnStarts(a, t) ==
    /\ pc[a] = "start" /\ pc[t] = "none"
    /\ record' = t
    /\ turnOf' = [turnOf EXCEPT ![a] = t]
    /\ pc' = [pc EXCEPT ![a] = "register", ![t] = "accepted"]
    /\ UNCHANGED <<agentMessages, gateVars, lockVars, active, automatic, taskStarted, cancelled,
                   input, hand, hostVars, historyVars>>

TurnStartFails(a) ==
    /\ pc[a] = "start"
    /\ active' = IF active = "reserved" THEN "idle" ELSE active
    /\ StartRefused(a)
    /\ UNCHANGED <<agentMessages, gateVars, agentWakeMu, record, automatic, taskStarted, cancelled,
                   input, hand, turnOf, hostVars, historyVars>>

RegisterRejects == paused \/ active \in Turns

(* The parameters, and with them the mail, now belong to the turn.         *)
HandOver(a) ==
    /\ input' = [input EXCEPT ![turnOf[a]] = hand[a]]
    /\ hand' = [hand EXCEPT ![a] = {}]

RegisterTurn(a) ==
    LET t == turnOf[a] IN
    /\ pc[a] = "register" /\ ~RegisterRejects
    /\ HandOver(a)
    /\ active' = t
    /\ automatic' = IF a \in Starts THEN automatic ELSE automatic \cup {t}
    /\ pc' = [pc EXCEPT ![a] = "clear", ![t] = "registered"]
    /\ UNCHANGED <<agentMessages, gateVars, lockVars, record, taskStarted, cancelled, turnOf,
                   hostVars, historyVars>>

ClearRecord(t) == record' = IF record = t THEN "none" ELSE record

(* The turn is reported as failed by the handler itself, which then calls  *)
(* the wake, with every mutex it holds.                                    *)
RegisterFails(a) ==
    LET t == turnOf[a] IN
    /\ pc[a] = "register" /\ RegisterRejects
    /\ HandOver(a)
    /\ interrupted' = FALSE
    /\ ClearRecord(t)
    /\ pc' = [pc EXCEPT ![a] = "wake", ![t] = "refused"]
    /\ turnOf' = [turnOf EXCEPT ![a] = "none"]
    /\ UNCHANGED <<agentMessages, plan, paused, agentWakeStopped, lockVars, active, automatic,
                   taskStarted, cancelled, hostVars, historyVars>>

(* clearRuntimeAgentWakeStopped, and the turn's worker is spawned.         *)
ClearStopped(a) ==
    /\ pc[a] = "clear"
    /\ agentWakeStopped' = FALSE
    /\ pc' = [pc EXCEPT ![a] = "return", ![turnOf[a]] = "build"]
    /\ turnOf' = [turnOf EXCEPT ![a] = "none"]
    /\ UNCHANGED <<agentMessages, interrupted, plan, paused, lockVars, turnVars, hand,
                   hostVars, historyVars>>

(* Mutant: mail is given back the way it is delivered, with a wake.        *)
GiveBackWaking(a) ==
    /\ pc[a] = "giveBack"
    /\ agentMessages' = agentMessages \cup hand[a]
    /\ hand' = [hand EXCEPT ![a] = {}]
    /\ Goes(a, IF hand[a] = {} THEN "return" ELSE "wake")
    /\ UNCHANGED <<gateVars, lockVars, turnVars, turnOf, hostVars, historyVars>>

(* requeueRuntimeAgentMessages: nobody is woken, the queue waits for the   *)
(* next turn.                                                              *)
GiveBack(a) ==
    /\ pc[a] = "giveBack"
    /\ agentMessages' = agentMessages \cup hand[a]
    /\ parked' = IF hand[a] = {} THEN parked ELSE parked \cup agentMessages \cup hand[a]
    /\ hand' = [hand EXCEPT ![a] = {}]
    /\ Goes(a, "return")
    /\ UNCHANGED <<gateVars, lockVars, turnVars, turnOf, hostVars, givenBack>>

(* The deferred unlocks of both functions.                                 *)
Return(a) ==
    /\ pc[a] = "return"
    /\ agentWakeMu' = IF agentWakeMu = a THEN "free" ELSE agentWakeMu
    /\ turnAdmissionMu' = IF turnAdmissionMu = a THEN "free" ELSE turnAdmissionMu
    /\ Goes(a, "done")
    /\ UNCHANGED <<agentMessages, gateVars, turnVars, hand, turnOf, hostVars, historyVars>>

----------------------------------------------------------------------------
(* The worker of a turn.                                                   *)

Built(t) ==
    /\ t \in Turns /\ pc[t] = "build"
    /\ Goes(t, IF t \in automatic THEN "revalidate" ELSE "run")
    /\ UNCHANGED <<agentMessages, gateVars, lockVars, turnVars, hand, turnOf, hostVars, historyVars>>

BuildFails(t) ==
    /\ t \in Turns /\ pc[t] = "build"
    /\ Goes(t, IF t \in automatic THEN "rejectBuild" ELSE "failed")
    /\ UNCHANGED <<agentMessages, gateVars, lockVars, turnVars, hand, turnOf, hostVars, historyVars>>

(* revalidateAutomaticWakeTurn reads the context, the active turn and the  *)
(* settings; a turn that is not active any more is nobody's to reject.     *)
Revalidate(t) ==
    /\ pc[t] = "revalidate"
    /\ Goes(t, IF t \in cancelled THEN "reject"
               ELSE IF active # t THEN "done"
               ELSE IF plan THEN "reject" ELSE "mark")
    /\ UNCHANGED <<agentMessages, gateVars, lockVars, turnVars, hand, turnOf, hostVars, historyVars>>

(* The turn starts its task, if it is still the active one.                *)
MarkStarted(t) ==
    /\ pc[t] = "mark"
    /\ taskStarted' = IF active = t THEN taskStarted \cup {t} ELSE taskStarted
    /\ Goes(t, IF active = t THEN "run" ELSE "done")
    /\ UNCHANGED <<agentMessages, gateVars, lockVars, active, record, automatic, cancelled, input,
                   hand, turnOf, hostVars, historyVars>>

(* consumeCompletedRuntimeTurn of a run that succeeded.                    *)
RunEnds(t) ==
    /\ pc[t] = "run"
    /\ active' = IF active = t THEN "idle" ELSE active
    /\ Goes(t, IF active = t THEN "persist" ELSE "done")
    /\ UNCHANGED <<agentMessages, gateVars, lockVars, record, automatic, taskStarted, cancelled,
                   input, hand, turnOf, hostVars, historyVars>>

(* A build or a run that failed is reported unless the context is done,    *)
(* which it is only after somebody took the turn.                          *)
FailureReported(t) ==
    /\ pc[t] \in {"failed", "run"}
    /\ active' = IF t \notin cancelled /\ active = t THEN "idle" ELSE active
    /\ Goes(t, IF t \in cancelled THEN "done" ELSE "persist")
    /\ UNCHANGED <<agentMessages, gateVars, lockVars, record, automatic, taskStarted, cancelled,
                   input, hand, turnOf, hostVars, historyVars>>

(* Mutant: a turn that ends does not look for mail.                        *)
PersistSilently(t) ==
    /\ pc[t] = "persist"
    /\ interrupted' = FALSE
    /\ ClearRecord(t)
    /\ Goes(t, "done")
    /\ UNCHANGED <<agentMessages, plan, paused, agentWakeStopped, lockVars, active, automatic,
                   taskStarted, cancelled, input, hand, turnOf, hostVars, historyVars>>

(* The end is persisted and reported, and mail is looked for.              *)
PersistEnd(t) ==
    /\ pc[t] = "persist"
    /\ interrupted' = FALSE
    /\ ClearRecord(t)
    /\ Goes(t, "wake")
    /\ UNCHANGED <<agentMessages, plan, paused, agentWakeStopped, lockVars, active, automatic,
                   taskStarted, cancelled, input, hand, turnOf, hostVars, historyVars>>

----------------------------------------------------------------------------
(* rejectAutomaticWakeReservation, by the worker of the wake or by an      *)
(* interrupt.                                                              *)

Target(a) == IF a \in Turns THEN a ELSE turnOf[a]

(* Mutant: whoever decided to reject the reservation takes the turn.       *)
ReservationIgnoringTask(t) == t \in automatic

(* automaticWakeReservation.                                               *)
Reservation(t) == t \in automatic /\ t \notin taskStarted

(* ConsumeTurnIf.                                                          *)
RejectConsumes(a) ==
    LET t == Target(a) IN
    /\ pc[a] \in {"reject", "rejectBuild"} /\ active = t /\ Reservation(t)
    /\ active' = "idle"
    /\ Goes(a, "requeue")
    /\ UNCHANGED <<agentMessages, gateVars, lockVars, record, automatic, taskStarted, cancelled,
                   input, hand, turnOf, hostVars, historyVars>>

(* An interrupt is answered and a revalidation returns; a failed build is  *)
(* then reported like any other.                                           *)
RejectRefused(a) ==
    LET t == Target(a) IN
    /\ pc[a] \in {"reject", "rejectBuild"} /\ ~(active = t /\ Reservation(t))
    /\ Goes(a, IF pc[a] = "rejectBuild" THEN "failed" ELSE "done")
    /\ UNCHANGED <<agentMessages, gateVars, lockVars, turnVars, hand, turnOf, hostVars, historyVars>>

(* active.Cancel, the mail goes back, and the worker releases the record   *)
(* (an interrupt released it before).                                      *)
RejectRequeues(a) ==
    LET t == Target(a) IN
    /\ pc[a] = "requeue"
    /\ cancelled' = cancelled \cup {t}
    /\ agentMessages' = agentMessages \cup input[t]
    /\ givenBack' = givenBack \cup {t}
    /\ parked' = parked \cup agentMessages \cup input[t]
    /\ ClearRecord(t)
    /\ Goes(a, IF a \in Interrupts THEN "stop" ELSE "done")
    /\ UNCHANGED <<gateVars, lockVars, active, automatic, taskStarted, input, hand, turnOf, hostVars>>

(* markRuntimeAgentWakesStopped.                                           *)
MarkStopped(i) ==
    /\ pc[i] = "stop"
    /\ agentWakeStopped' = TRUE
    /\ Goes(i, "done")
    /\ UNCHANGED <<agentMessages, interrupted, plan, paused, lockVars, turnVars, hand, turnOf,
                   hostVars, historyVars>>

----------------------------------------------------------------------------
(* interruptRuntimeTurn for a turn its client saw as active.               *)
InterruptLooks(i, t) ==
    /\ i \in Interrupts /\ pc[i] = "idle" /\ active = t
    /\ turnOf' = [turnOf EXCEPT ![i] = t]
    /\ Goes(i, IF Reservation(t) THEN "stopRecord" ELSE "interruptRecord")
    /\ UNCHANGED <<agentMessages, gateVars, lockVars, turnVars, hand, hostVars, historyVars>>

(* TurnService.Interrupt: an error when the turn's record is gone.         *)
InterruptRecord(i) ==
    /\ pc[i] \in {"stopRecord", "interruptRecord"}
    /\ ClearRecord(turnOf[i])
    /\ Goes(i, IF record # turnOf[i] THEN "done"
               ELSE IF pc[i] = "stopRecord" THEN "reject" ELSE "take")
    /\ UNCHANGED <<agentMessages, gateVars, lockVars, active, automatic, taskStarted, cancelled,
                   input, hand, turnOf, hostVars, historyVars>>

(* cancelActiveRuntimeTurnTracked.                                         *)
InterruptTakes(i) ==
    LET t == turnOf[i] IN
    /\ pc[i] = "take"
    /\ active' = IF active = t THEN "idle" ELSE active
    /\ Goes(i, IF active = t THEN "publish" ELSE "done")
    /\ UNCHANGED <<agentMessages, gateVars, lockVars, record, automatic, taskStarted, cancelled,
                   input, hand, turnOf, hostVars, historyVars>>

(* active.Cancel and finishTurnInterruptedAnalytics.                       *)
InterruptPublishes(i) ==
    /\ pc[i] = "publish"
    /\ cancelled' = cancelled \cup {turnOf[i]}
    /\ interrupted' = TRUE
    /\ turnOf' = [turnOf EXCEPT ![i] = "none"]
    /\ Goes(i, "wake")
    /\ UNCHANGED <<agentMessages, plan, paused, agentWakeStopped, lockVars, active, record,
                   automatic, taskStarted, input, hand, hostVars, historyVars>>

----------------------------------------------------------------------------
(* thread/settings/update, under turnAdmissionMu.                          *)
TogglePlan ==
    /\ turnAdmissionMu = "free" /\ toggles < MaxToggles
    /\ plan' = ~plan
    /\ toggles' = toggles + 1
    /\ UNCHANGED <<agentMessages, interrupted, paused, agentWakeStopped, lockVars, turnVars, pc,
                   hand, turnOf, pauses, historyVars>>

BeginPause ==
    /\ ~paused /\ pauses < MaxPauses
    /\ paused' = TRUE
    /\ pauses' = pauses + 1
    /\ UNCHANGED <<agentMessages, interrupted, plan, agentWakeStopped, lockVars, turnVars, pc,
                   hand, turnOf, toggles, historyVars>>

EndPause ==
    /\ paused
    /\ paused' = FALSE
    /\ UNCHANGED <<agentMessages, interrupted, plan, agentWakeStopped, lockVars, turnVars, pc,
                   hand, turnOf, hostVars, historyVars>>

----------------------------------------------------------------------------
WakeStep(a) ==
    \/ Enqueue(a) \/ WakeLocks(a) \/ WakeEligible(a) \/ WakeDrains(a)

HandlerStep(a) ==
    \/ Dispatch(a) \/ LockAdmission(a) \/ PreparationFails(a) \/ Prepared(a)
    \/ Reserve(a) \/ ReserveFails(a)
    \/ (\E t \in Turns : TurnStarts(a, t)) \/ TurnStartFails(a)
    \/ RegisterTurn(a) \/ RegisterFails(a) \/ ClearStopped(a)
    \/ GiveBack(a) \/ Return(a)

WorkerStep(t) ==
    \/ Built(t) \/ BuildFails(t) \/ Revalidate(t) \/ MarkStarted(t)
    \/ RunEnds(t) \/ FailureReported(t) \/ PersistEnd(t)

RejectStep(a) == RejectConsumes(a) \/ RejectRefused(a) \/ RejectRequeues(a)

InterruptStep(i) ==
    \/ (\E t \in Turns : InterruptLooks(i, t))
    \/ InterruptRecord(i) \/ InterruptTakes(i) \/ InterruptPublishes(i) \/ MarkStopped(i)

HostStep == TogglePlan \/ BeginPause \/ EndPause

Next ==
    \/ \E a \in Actors :
          \/ WakeStep(a) \/ HandlerStep(a) \/ RejectStep(a)
          \/ WorkerStep(a) \/ InterruptStep(a)
    \/ HostStep

Spec == Init /\ [][Next]_vars

----------------------------------------------------------------------------
TypeOK ==
    /\ agentMessages \subseteq Mails /\ parked \subseteq Mails
    /\ interrupted \in BOOLEAN /\ plan \in BOOLEAN
    /\ paused \in BOOLEAN /\ agentWakeStopped \in BOOLEAN
    /\ agentWakeMu \in Actors \cup {"free"} /\ turnAdmissionMu \in Actors \cup {"free"}
    /\ active \in Turns \cup {"idle", "reserved"} /\ record \in Turns \cup {"none"}
    /\ automatic \subseteq Turns /\ taskStarted \subseteq Turns
    /\ cancelled \subseteq Turns /\ givenBack \subseteq Turns
    /\ input \in [Turns -> SUBSET Mails] /\ hand \in [Actors -> SUBSET Mails]
    /\ turnOf \in [Actors -> Turns \cup {"none"}]
    /\ pc \in [Actors -> WorkerPC \cup InterruptPC]
    /\ \A a \in Mails \cup Starts : pc[a] \in CallerPC
    /\ \A t \in Turns : pc[t] \in WorkerPC
    /\ \A i \in Interrupts : pc[i] \in InterruptPC
    /\ pauses \in 0..MaxPauses /\ toggles \in 0..MaxToggles

(* The turns that own their input: a rejected wake gives it up, unless its *)
(* task runs after all.                                                    *)
Owning == Turns \ (givenBack \ taskStarted)

(* Every piece of mail that was sent is in exactly one place (the queue,   *)
(* the hands of one actor, the input of one turn), however wakes, starts,  *)
(* rejections and interrupts compete for it.  In particular the mail of a  *)
(* reserved wake starts with its task or goes back, never both, which is   *)
(* what ConsumeTurnIf is for.                                              *)
MailOnce ==
    \A m \in Mails :
        /\ m \in Sent <=> \/ m \in agentMessages
                         \/ \E a \in Actors : m \in hand[a]
                         \/ \E t \in Owning : m \in input[t]
        /\ \A a \in Actors : m \in hand[a] =>
              /\ m \notin agentMessages
              /\ \A b \in Actors : m \in hand[b] => b = a
              /\ \A t \in Owning : m \notin input[t]
        /\ \A t \in Owning : m \in input[t] =>
              /\ m \notin agentMessages
              /\ \A u \in Owning : m \in input[u] => u = t

(* Mail that was neither given back nor seen by a wake that was refused    *)
(* does not wait alone: while the thread has no registered turn, somebody  *)
(* is on the way to the queue, whatever raced the end of the last turn.    *)
OnTheWay == {"wake", "eligible", "drain", "persist", "publish", "requeue"}

MailHasWaker ==
    active \notin Turns /\ ~(agentMessages \subseteq parked)
    => \E a \in Actors : pc[a] \in OnTheWay

Refused == \E t \in Turns : pc[t] = "refused"

(* As long as no turn was refused at its registration, the two mutexes     *)
(* that span the admission of a turn are always handed on: the holder of   *)
(* turnAdmissionMu waits for no mutex, the holder of agentWakeMu at most   *)
(* for turnAdmissionMu, and nobody has finished with one in its hands.     *)
MutexesHandedOn ==
    ~Refused =>
        /\ turnAdmissionMu \in Actors => pc[turnAdmissionMu] \notin {"idle", "none", "done", "wake", "submit"}
        /\ agentWakeMu \in Actors => pc[agentWakeMu] \notin {"idle", "none", "done", "wake"}

=============================================================================
