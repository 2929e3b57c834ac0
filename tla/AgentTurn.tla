------------------------------ MODULE AgentTurn ------------------------------
(***************************************************************************)
(* One turn of one thread, from its first sampling request to the release  *)
(* of its finishing window, with everything that races it:                 *)
(*                                                                         *)
(*   worker     AgentLoop.Run inside runTurnRuntime: drain, sample, follow *)
(*              up or run tools, then close admission and record the end;  *)
(*   steers     turn/steer requests: accepted by TurnService, then queued; *)
(*   mail       other agents' messages and message-board notices;          *)
(*   cancellers turn/interrupt, and the guardian's conditional interrupt.  *)
(*                                                                         *)
(* The mailbox is SteerMailbox's, and each of its operations is one step;  *)
(* so is each critical section of ThreadManager and TurnService.  Whatever *)
(* the code does between two locks may interleave.                         *)
(***************************************************************************)
EXTENDS SteerMailbox, FiniteSets

CONSTANTS
    TheThread, TheTurn,     \* the turn under study
    Steers, Mails,          \* user messages and agent mail, one sender each
    BoardMails,             \* the mail sent by messageBoardHost.Notify
    Cancellers,             \* subset of {"interrupt", "guardian"}
    DeferPreemption,        \* AgentLoopOptions.DeferMailboxPreemption
    MaxSamples              \* bound on sampling requests (model bound)

ASSUME AgentTurnAssumption ==
    /\ TheThread \in Threads /\ TheTurn \in Turns
    /\ Steers \subseteq {i \in Items : KindOf[i] = "user"}
    /\ Mails \subseteq {i \in Items : KindOf[i] = "mail"}
    /\ BoardMails \subseteq Mails
    /\ Cancellers \subseteq {"interrupt", "guardian"}
    /\ DeferPreemption \in BOOLEAN
    /\ MaxSamples \in Nat

K == <<TheThread, TheTurn>>
Publishers == {"worker"} \cup Cancellers
Statuses == {"completed", "failed", "interrupted"}

(* What later steps read of a response: a final answer defers delivery,    *)
(* reasoning or commentary lets mail preempt, tool calls are dispatched.   *)
Responses == [defers : BOOLEAN, preempts : BOOLEAN, tools : BOOLEAN]
NoResponse == [defers |-> FALSE, preempts |-> FALSE, tools |-> FALSE]

VARIABLES
    pc,             \* worker control state
    again,          \* iteration > 0 in the current AgentLoop.Run
    resp,           \* the response being processed
    samples,        \* sampling requests so far
    transcript,     \* queued input handed to the model, oldest first
    ctxDone,        \* the turn's context was cancelled
    active,         \* ThreadManager.active holds the turn
    record,         \* TurnService.active holds the turn
    steer,          \* steer request -> control state
    mail,           \* mail sender -> control state
    canceller,      \* canceller -> control state
    publish,        \* publisher -> step of its terminal lifecycle, status
    rollout,        \* terminal records appended to the rollout
    notified,       \* turn/completed notifications sent
    persisted,      \* the turn's final batch was appended to the session
    agentMessages,  \* mail kept for the thread's next turn
    sent,           \* history: items in the order they were queued
    raced,          \* history: steers queued between check and phase switch
    answered        \* history: "no", or the kind of final answer standing

turnVars == <<pc, again, resp, samples, transcript, ctxDone>>
hostVars == <<active, record, publish, rollout, notified, persisted>>
clientVars == <<steer, mail, canceller, agentMessages>>
historyVars == <<sent, raced, answered>>
vars == <<mailboxVars, turnVars, hostVars, clientVars, historyVars>>

WorkerPC == {"begin", "drain", "sample", "checkUser", "setPhase", "preempt",
             "compact", "tools", "followUp", "accepts", "drainFinal", "returned",
             "finishCheck", "failed", "failClosing", "failClear", "closing",
             "clear", "persist", "publishing", "release", "done"}
PublishSteps == {"idle", "append", "clear", "complete", "notify", "done"}

Init ==
    /\ MailboxInit
    /\ pc = "begin" /\ again = FALSE /\ resp = NoResponse /\ samples = 0
    /\ transcript = <<>> /\ ctxDone = FALSE
    /\ active = TRUE /\ record = TRUE
    /\ steer = [u \in Steers |-> "idle"]
    /\ mail = [m \in Mails |-> "idle"]
    /\ canceller = [c \in Cancellers |-> "idle"]
    /\ publish = [p \in Publishers |-> [step |-> "idle", status |-> "none"]]
    /\ rollout = <<>> /\ notified = <<>> /\ persisted = FALSE
    /\ agentMessages = <<>>
    /\ sent = <<>> /\ raced = {} /\ answered = "no"

Go(to) == pc' = to

----------------------------------------------------------------------------
(* AgentLoop.Run.                                                          *)

(* A follow-up iteration reopens delivery; the first one leaves the phase. *)
BeginIteration ==
    /\ pc = "begin" /\ Go("drain")
    /\ IF again THEN SetMailboxDeliveryPhase(K, "CurrentTurn") ELSE UNCHANGED mailboxVars
    /\ UNCHANGED <<again, resp, samples, transcript, ctxDone, hostVars, clientVars, historyVars>>

(* Input handed to the model; a user message replaces the standing answer. *)
HandOver ==
    /\ transcript' = transcript \o items[K]
    /\ answered' = IF HasPendingUserInput(K) THEN "no" ELSE answered
    /\ UNCHANGED <<sent, raced>>

(* drainSteerChecked at the top of an iteration.                           *)
DrainAtTop ==
    /\ pc = "drain" /\ Go("sample")
    /\ DrainWithMetadata(K) /\ HandOver
    /\ UNCHANGED <<again, resp, samples, ctxDone, hostVars, clientVars>>

(* A steer the model cannot accept fails the turn after it was drained.    *)
DrainRejected ==
    /\ pc \in {"drain", "drainFinal"} /\ Go("failed")
    /\ HasPendingUserInput(K)
    /\ DrainWithMetadata(K)
    /\ UNCHANGED <<again, resp, samples, transcript, ctxDone, hostVars, clientVars, historyVars>>

Respond ==
    /\ pc = "sample" /\ samples < MaxSamples
    /\ resp' \in Responses
    /\ samples' = samples + 1
    /\ Go("checkUser")
    /\ UNCHANGED <<mailboxVars, again, transcript, ctxDone, hostVars, clientVars, historyVars>>

(* The step's preempt signal fires only for a queued user message.         *)
Preempted ==
    /\ pc = "sample" /\ samples < MaxSamples
    /\ HasPendingUserInput(K)
    /\ samples' = samples + 1
    /\ again' = TRUE /\ Go("begin")
    /\ UNCHANGED <<mailboxVars, resp, transcript, ctxDone, hostVars, clientVars, historyVars>>

(* The request errors or its context was cancelled.                        *)
SampleFails ==
    /\ pc = "sample" /\ Go("failed")
    /\ UNCHANGED <<mailboxVars, again, resp, samples, transcript, ctxDone, hostVars, clientVars, historyVars>>

(* HasPendingUserInput and SetMailboxDeliveryPhase each take the lock.     *)
CheckUserInput ==
    /\ pc = "checkUser"
    /\ Go(IF resp.defers /\ ~HasPendingUserInput(K) THEN "setPhase" ELSE "preempt")
    /\ UNCHANGED <<mailboxVars, again, resp, samples, transcript, ctxDone, hostVars, clientVars, historyVars>>

DeferDelivery ==
    /\ pc = "setPhase" /\ Go("preempt")
    /\ SetMailboxDeliveryPhase(K, "NextTurn")
    /\ answered' = IF resp.preempts THEN "mixed" ELSE "final"
    /\ UNCHANGED <<again, resp, samples, transcript, ctxDone, hostVars, clientVars, sent, raced>>

MailPreempts == ~DeferPreemption /\ resp.preempts /\ HasPendingMailboxItems(K)

PreemptForMail ==
    /\ pc = "preempt" /\ MailPreempts
    /\ again' = TRUE /\ Go("begin")
    /\ UNCHANGED <<mailboxVars, resp, samples, transcript, ctxDone, hostVars, clientVars, historyVars>>

NoMailPreemption ==
    /\ pc = "preempt" /\ ~MailPreempts
    /\ Go(IF resp.tools THEN "compact" ELSE "followUp")
    /\ UNCHANGED <<mailboxVars, again, resp, samples, transcript, ctxDone, hostVars, clientVars, historyVars>>

(* SamplingCompaction before the tools run: compacted, declined or failed. *)
Compact ==
    /\ pc = "compact"
    /\ \/ again' = TRUE /\ Go("begin") /\ answered' = "no"
       \/ Go("tools") /\ UNCHANGED <<again, answered>>
       \/ Go("failed") /\ UNCHANGED <<again, answered>>
    /\ UNCHANGED <<mailboxVars, resp, samples, transcript, ctxDone, hostVars, clientVars, sent, raced>>

RunTools ==
    /\ pc = "tools"
    /\ \/ again' = TRUE /\ Go("begin") /\ answered' = "no"
       \/ Go("failed") /\ UNCHANGED <<again, answered>>
    /\ UNCHANGED <<mailboxVars, resp, samples, transcript, ctxDone, hostVars, clientVars, sent, raced>>

(* SamplingFollowUp after a response without tool calls.                   *)
FollowUp ==
    /\ pc = "followUp"
    /\ \/ again' = TRUE /\ Go("begin") /\ answered' = "no"
       \/ Go("accepts") /\ UNCHANGED <<again, answered>>
    /\ UNCHANGED <<mailboxVars, resp, samples, transcript, ctxDone, hostVars, clientVars, sent, raced>>

(* Mutant: the final drain does not ask whether delivery is deferred.      *)
DrainWithoutAsking ==
    /\ pc = "accepts" /\ Go("drainFinal")
    /\ UNCHANGED <<mailboxVars, again, resp, samples, transcript, ctxDone, hostVars, clientVars, historyVars>>

CheckAccepts ==
    /\ pc = "accepts"
    /\ Go(IF AcceptsDelivery(K) THEN "drainFinal" ELSE "returned")
    /\ UNCHANGED <<mailboxVars, again, resp, samples, transcript, ctxDone, hostVars, clientVars, historyVars>>

DrainFinal ==
    /\ pc = "drainFinal"
    /\ DrainWithMetadata(K) /\ HandOver
    /\ IF items[K] # <<>> THEN again' = TRUE /\ Go("begin") ELSE Go("returned") /\ UNCHANGED again
    /\ UNCHANGED <<resp, samples, ctxDone, hostVars, clientVars>>

----------------------------------------------------------------------------
(* runTurnRuntime after AgentLoop.Run returned.                            *)

(* The loop on `err == nil && ctx.Err() == nil`.                           *)
RunReturned ==
    /\ pc = "returned"
    /\ IF ctxDone
       THEN BeginTurnFinish(K) /\ Go("closing")
       ELSE Go("finishCheck") /\ UNCHANGED mailboxVars
    /\ UNCHANGED <<again, resp, samples, transcript, ctxDone, hostVars, clientVars, historyVars>>

(* Pending input resumes sampling in a fresh Run of the same turn.         *)
FinishResumes ==
    /\ pc = "finishCheck"
    /\ FinishTakes(K) /\ HandOver
    /\ again' = FALSE /\ Go("drain")
    /\ UNCHANGED <<resp, samples, ctxDone, hostVars, clientVars>>

FinishRejects ==
    /\ pc = "finishCheck"
    /\ HasPendingUserInput(K) /\ FinishTakes(K)
    /\ Go("failed")
    /\ UNCHANGED <<again, resp, samples, transcript, ctxDone, hostVars, clientVars, historyVars>>

FinishAdmissionCloses ==
    /\ pc = "finishCheck"
    /\ FinishCloses(K) /\ Go("closing")
    /\ UNCHANGED <<again, resp, samples, transcript, ctxDone, hostVars, clientVars, historyVars>>

(* Mutant: the worker records the turn although a canceller consumed it.   *)
CompleteRegardless ==
    /\ pc = "closing" /\ Go("clear")
    /\ active' = FALSE
    /\ UNCHANGED <<mailboxVars, again, resp, samples, transcript, ctxDone, record, publish,
                   rollout, notified, persisted, clientVars, historyVars>>

(* Mutant: the early return skips the release of the window.               *)
ReturnWithoutRelease ==
    /\ pc = "closing"
    /\ Go(IF active THEN "clear" ELSE "done")
    /\ active' = FALSE
    /\ UNCHANGED <<mailboxVars, again, resp, samples, transcript, ctxDone, record, publish,
                   rollout, notified, persisted, clientVars, historyVars>>

(* consumeCompletedRuntimeTurn: a canceller that got there first reports.  *)
ConsumeCompleted ==
    /\ pc = "closing"
    /\ Go(IF active THEN "clear" ELSE "release")
    /\ active' = FALSE
    /\ UNCHANGED <<mailboxVars, again, resp, samples, transcript, ctxDone, record, publish,
                   rollout, notified, persisted, clientVars, historyVars>>

ClearCompleted ==
    /\ pc = "clear" /\ Go("persist")
    /\ Clear(K)
    /\ UNCHANGED <<again, resp, samples, transcript, ctxDone, hostVars, clientVars, historyVars>>

StartPublishing(p, first, status) ==
    publish' = [publish EXCEPT ![p] = [step |-> first, status |-> status]]

(* The final batch is appended; an append error or an exhausted budget     *)
(* reports the consumed turn as failed.                                    *)
PersistFinalBatch ==
    /\ pc = "persist" /\ Go("publishing")
    /\ \/ persisted' = TRUE /\ StartPublishing("worker", "append", "completed")
       \/ persisted' \in BOOLEAN /\ StartPublishing("worker", "append", "failed")
    /\ UNCHANGED <<mailboxVars, again, resp, samples, transcript, ctxDone, active, record,
                   rollout, notified, clientVars, historyVars>>

FailureClosesAdmission ==
    /\ pc = "failed" /\ Go("failClosing")
    /\ BeginTurnFinish(K)
    /\ UNCHANGED <<again, resp, samples, transcript, ctxDone, hostVars, clientVars, historyVars>>

(* Mutant: every failure is left to a canceller to report.                 *)
FailureNeverPublishes ==
    /\ pc = "failClosing" /\ Go("release")
    /\ active' = FALSE
    /\ UNCHANGED <<mailboxVars, again, resp, samples, transcript, ctxDone, record, publish,
                   rollout, notified, persisted, clientVars, historyVars>>

(* A cancelled turn is reported by its canceller.                          *)
FailureChecksContext ==
    /\ pc = "failClosing"
    /\ IF ctxDone THEN Go("release") /\ active' = FALSE ELSE Go("failClear") /\ UNCHANGED active
    /\ UNCHANGED <<mailboxVars, again, resp, samples, transcript, ctxDone, record, publish,
                   rollout, notified, persisted, clientVars, historyVars>>

(* clearActiveRuntimeTurn does not say whether it consumed the turn.       *)
FailurePublishes ==
    /\ pc = "failClear" /\ Go("publishing")
    /\ active' = FALSE
    /\ StartPublishing("worker", "append", "failed")
    /\ UNCHANGED <<mailboxVars, again, resp, samples, transcript, ctxDone, record,
                   rollout, notified, persisted, clientVars, historyVars>>

PublishingEnds ==
    /\ pc = "publishing" /\ publish["worker"].step = "done"
    /\ Go("release")
    /\ UNCHANGED <<mailboxVars, again, resp, samples, transcript, ctxDone, hostVars, clientVars, historyVars>>

(* The deferred finishTurn of every return path.                           *)
ReleaseWindow ==
    /\ pc = "release" /\ Go("done")
    /\ ReleaseTurnFinish(K)
    /\ UNCHANGED <<again, resp, samples, transcript, ctxDone, hostVars, clientVars, historyVars>>

----------------------------------------------------------------------------
(* The terminal lifecycle (finishTurnWithErrorAnalytics,                   *)
(* finishTurnInterruptedAnalytics and the completed tail), by publisher.   *)
StepTo(p, step) == StartPublishing(p, step, publish[p].status)

AppendTerminal(p) ==
    /\ publish[p].step = "append"
    /\ rollout' = Append(rollout, publish[p].status)
    /\ StepTo(p, IF publish[p].status = "completed" THEN "complete" ELSE "clear")
    /\ UNCHANGED <<mailboxVars, turnVars, active, record, notified, persisted, clientVars, historyVars>>

ClearTerminal(p) ==
    /\ publish[p].step = "clear"
    /\ Clear(K)
    /\ StepTo(p, "complete")
    /\ UNCHANGED <<turnVars, active, record, rollout, notified, persisted, clientVars, historyVars>>

CompleteTurnRecord(p) ==
    /\ publish[p].step = "complete"
    /\ record' = FALSE
    /\ StepTo(p, "notify")
    /\ UNCHANGED <<mailboxVars, turnVars, active, rollout, notified, persisted, clientVars, historyVars>>

(* notifyTurnCompletedOnce: ClaimTerminal admits the first publisher only. *)
NotifyTurnCompletedOnce(p) ==
    /\ publish[p].step = "notify"
    /\ notified' = IF notified = <<>> THEN Append(notified, publish[p].status) ELSE notified
    /\ StepTo(p, "done")
    /\ UNCHANGED <<mailboxVars, turnVars, active, record, rollout, persisted, clientVars, historyVars>>

----------------------------------------------------------------------------
(* turn/steer: accept against TurnService, then queue.                     *)
SteerAccepted(u) ==
    /\ steer[u] = "idle"
    /\ steer' = [steer EXCEPT ![u] = IF record THEN "accepted" ELSE "rejected"]
    /\ UNCHANGED <<mailboxVars, turnVars, hostVars, mail, canceller, agentMessages, historyVars>>

SteerQueued(u) ==
    /\ steer[u] = "accepted"
    /\ steer' = [steer EXCEPT ![u] = "queued"]
    /\ Enqueue(K, <<u>>)
    /\ sent' = Append(sent, u)
    /\ raced' = IF pc = "setPhase" THEN raced \cup {u} ELSE raced
    /\ UNCHANGED <<turnVars, hostVars, mail, canceller, agentMessages, answered>>

(* A sender looks for a running turn; without one, the mail waits for the  *)
(* thread's next turn (enqueueRuntimeAgentMessage).                        *)
MailFindsTurn(m) ==
    /\ mail[m] = "idle"
    /\ mail' = [mail EXCEPT ![m] = IF active THEN "sawActive" ELSE "kept"]
    /\ agentMessages' = IF active THEN agentMessages ELSE Append(agentMessages, m)
    /\ UNCHANGED <<mailboxVars, turnVars, hostVars, steer, canceller, historyVars>>

(* SendMessage, FollowupTask and child completions use plain Enqueue.      *)
AgentMailQueued(m) ==
    /\ mail[m] = "sawActive" /\ m \notin BoardMails
    /\ mail' = [mail EXCEPT ![m] = "queued"]
    /\ Enqueue(K, <<m>>)
    /\ sent' = Append(sent, m)
    /\ UNCHANGED <<turnVars, hostVars, steer, canceller, agentMessages, raced, answered>>

BoardMailQueued(m) ==
    /\ mail[m] = "sawActive" /\ m \in BoardMails
    /\ EnqueueIfAcceptingDelivery(K, <<m>>)
    /\ mail' = [mail EXCEPT ![m] = "queued"]
    /\ sent' = Append(sent, m)
    /\ UNCHANGED <<turnVars, hostVars, steer, canceller, agentMessages, raced, answered>>

BoardMailKept(m) ==
    /\ mail[m] = "sawActive" /\ m \in BoardMails
    /\ ~AcceptsDelivery(K)
    /\ mail' = [mail EXCEPT ![m] = "kept"]
    /\ agentMessages' = Append(agentMessages, m)
    /\ UNCHANGED <<mailboxVars, turnVars, hostVars, steer, canceller, historyVars>>

----------------------------------------------------------------------------
(* Cancellers.  Both first read the active turn.                           *)
CancellerMoves(c, to) ==
    /\ canceller' = [canceller EXCEPT ![c] = to]
    /\ UNCHANGED <<steer, mail, agentMessages>>

CancelFindsTurn(c) ==
    /\ canceller[c] = "idle"
    /\ CancellerMoves(c, IF active THEN "sawActive" ELSE "interruptRecord")
    /\ UNCHANGED <<mailboxVars, turnVars, hostVars, historyVars>>

(* Both leave a finishing turn alone.                                      *)
CancelChecksFinishing(c) ==
    LET next == IF c = "guardian" THEN "checkPending" ELSE "interruptRecord" IN
    /\ canceller[c] = "sawActive"
    /\ CancellerMoves(c, IF IsTurnFinishing(K) THEN "done" ELSE next)
    /\ UNCHANGED <<mailboxVars, turnVars, hostVars, historyVars>>

(* The guardian also leaves a turn with pending input.                     *)
GuardianChecksPending(c) ==
    /\ canceller[c] = "checkPending"
    /\ CancellerMoves(c, IF HasPending(K) THEN "done" ELSE "consume")
    /\ UNCHANGED <<mailboxVars, turnVars, hostVars, historyVars>>

(* TurnService.Interrupt; the guardian stops there when no turn was found. *)
InterruptRecord(c) ==
    /\ canceller[c] = "interruptRecord"
    /\ record' = FALSE
    /\ CancellerMoves(c, IF record /\ c = "interrupt" THEN "consume" ELSE "done")
    /\ UNCHANGED <<mailboxVars, turnVars, active, publish, rollout, notified, persisted, historyVars>>

(* ConsumeTurn(Tracked), then active.Cancel() outside the lock.            *)
CancelConsumes(c) ==
    /\ canceller[c] = "consume"
    /\ active' = FALSE
    /\ CancellerMoves(c, IF active THEN "cancelContext" ELSE "done")
    /\ UNCHANGED <<mailboxVars, turnVars, record, publish, rollout, notified, persisted, historyVars>>

CancelContext(c) ==
    /\ canceller[c] = "cancelContext"
    /\ ctxDone' = TRUE
    /\ StartPublishing(c, "append", "interrupted")
    /\ CancellerMoves(c, "done")
    /\ UNCHANGED <<mailboxVars, pc, again, resp, samples, transcript, active, record,
                   rollout, notified, persisted, historyVars>>

----------------------------------------------------------------------------
LoopStep ==
    \/ BeginIteration \/ DrainAtTop \/ DrainRejected
    \/ Respond \/ Preempted \/ SampleFails
    \/ CheckUserInput \/ DeferDelivery \/ PreemptForMail \/ NoMailPreemption
    \/ Compact \/ RunTools \/ FollowUp \/ CheckAccepts \/ DrainFinal

FinishStep ==
    \/ RunReturned \/ FinishResumes \/ FinishRejects \/ FinishAdmissionCloses
    \/ ConsumeCompleted \/ ClearCompleted \/ PersistFinalBatch
    \/ FailureClosesAdmission \/ FailureChecksContext \/ FailurePublishes
    \/ PublishingEnds \/ ReleaseWindow

PublishStep(p) ==
    AppendTerminal(p) \/ ClearTerminal(p) \/ CompleteTurnRecord(p) \/ NotifyTurnCompletedOnce(p)

SteerStep(u) == SteerAccepted(u) \/ SteerQueued(u)
MailStep(m) == MailFindsTurn(m) \/ AgentMailQueued(m) \/ BoardMailQueued(m) \/ BoardMailKept(m)
CancelStep(c) ==
    \/ CancelFindsTurn(c) \/ CancelChecksFinishing(c) \/ GuardianChecksPending(c)
    \/ InterruptRecord(c) \/ CancelConsumes(c) \/ CancelContext(c)

(* The window is released, and nobody is half way through anything: the    *)
(* only state in which nothing may be left to do.                          *)
Finished ==
    /\ pc = "done"
    /\ \A p \in Publishers : publish[p].step \in {"idle", "done"}
    /\ \A u \in Steers : steer[u] \in {"queued", "rejected"}
    /\ \A m \in Mails : mail[m] \in {"queued", "kept"}
    /\ \A c \in Cancellers : canceller[c] = "done"
    /\ UNCHANGED vars

Next ==
    \/ LoopStep
    \/ FinishStep
    \/ \E p \in Publishers : PublishStep(p)
    \/ \E u \in Steers : SteerStep(u)
    \/ \E m \in Mails : MailStep(m)
    \/ \E c \in Cancellers : CancelStep(c)
    \/ Finished

Spec == Init /\ [][Next]_vars

(* The worker goroutine runs; sampling and tools return (both are bounded  *)
(* by timeouts); whoever began to cancel or to publish goes on.  Nothing   *)
(* makes a client steer, a peer send mail or anyone start to cancel.       *)
FairSpec ==
    /\ Spec
    /\ WF_vars(LoopStep) /\ WF_vars(FinishStep)
    /\ \A p \in Publishers : WF_vars(PublishStep(p))
    /\ \A c \in Cancellers : WF_vars(canceller[c] # "idle" /\ CancelStep(c))

----------------------------------------------------------------------------
TypeOK ==
    /\ MailboxTypeOK
    /\ pc \in WorkerPC /\ again \in BOOLEAN /\ resp \in Responses
    /\ samples \in 0..MaxSamples /\ transcript \in Seq(Items) /\ ctxDone \in BOOLEAN
    /\ active \in BOOLEAN /\ record \in BOOLEAN /\ persisted \in BOOLEAN
    /\ steer \in [Steers -> {"idle", "accepted", "rejected", "queued"}]
    /\ mail \in [Mails -> {"idle", "sawActive", "queued", "kept"}]
    /\ canceller \in [Cancellers -> {"idle", "sawActive", "checkPending", "interruptRecord",
                                     "consume", "cancelContext", "done"}]
    /\ publish \in [Publishers -> [step : PublishSteps, status : Statuses \cup {"none"}]]
    /\ rollout \in Seq(Statuses) /\ notified \in Seq(Statuses)
    /\ agentMessages \in Seq(Mails) /\ sent \in Seq(Items) /\ raced \subseteq Steers
    /\ answered \in {"no", "final", "mixed"}

(* Every two elements of s, and every one of them, occur in t in the order *)
(* they have in s.                                                         *)
InOrderOf(s, t) ==
    \A i, j \in DOMAIN s : i <= j =>
        \E p, q \in DOMAIN t : p <= q /\ t[p] = s[i] /\ t[q] = s[j]

(* Queued input reaches the model at most once and in the order it was     *)
(* queued, however drains, finish checks, resumed runs and clears          *)
(* interleave with the senders.  (Each sender queues its item once.)       *)
DeliveredOnceInOrder ==
    IsInjective(transcript) /\ IsInjective(sent) /\ InOrderOf(transcript, sent)

(* A turn whose end a canceller reports is not also recorded as completed: *)
(* the final batch is appended only by a worker that consumed the turn     *)
(* before every canceller did.                                             *)
InterruptedNotPersisted ==
    persisted => \A c \in Cancellers : publish[c].status # "interrupted"

(* A final answer that nothing else in its response could preempt stands:  *)
(* a worker whose context is live samples again only after a user message, *)
(* a tool result, a compaction or a follow-up, never for agent mail alone. *)
FinalAnswerSticks == pc = "sample" /\ ~ctxDone => answered # "final"

(* "Input accepted before admission closed resumes sampling in the same    *)
(* turn": when the finish check closes admission, every user message in    *)
(* the queue slipped in between the check and the switch of the phase.     *)
SteersTakenBeforeClosing ==
    [][FinishAdmissionCloses =>
          \A i \in ToSet(items[K]) : KindOf[i] = "user" => i \in raced]_vars

(* Whatever races the turn, a turn/completed notification is sent for it.  *)
EveryTurnReported == <>(notified # <<>>)

(* The finishing window reopens on every return path, so later mail for    *)
(* the turn is not refused for ever.                                       *)
FinishingReleased == K \in finishing ~> K \notin finishing

=============================================================================
