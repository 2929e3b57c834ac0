-------------------------- MODULE AgentTurn_proofs --------------------------
(***************************************************************************)
(* Proofs about AgentTurn, for every set of steers, mail and cancellers    *)
(* and any number of samples.                                              *)
(***************************************************************************)
EXTENDS AgentTurn, TLAPS

(* A user message is queued.                                               *)
UserQueued == \E i \in ToSet(items[K]) : KindOf[i] = "user"

(* The turn was taken by canceller c.                                      *)
TakenBy(c) == canceller[c] = "cancelContext" \/ publish[c].status = "interrupted"

(* The turn has one taker: a canceller, or the worker that completes it.   *)
OneTaker ==
    active \/ pc \in {"clear", "persist"} \/ persisted =>
        /\ \A c \in Cancellers : ~TakenBy(c)
        /\ active => pc \notin {"clear", "persist"} /\ ~persisted

(* The finishing window is closed only after AgentLoop.Run has returned.   *)
WindowLate ==
    K \in finishing =>
        pc \in {"closing", "clear", "persist", "publishing", "release",
                "failClosing", "failClear"}

(* A worker publishes at its end, a canceller cancels the context first.   *)
PublishersKnown ==
    /\ publish["worker"].step # "idle" => pc \in {"publishing", "release", "done"}
    /\ \A c \in Cancellers : publish[c].step # "idle" => ctxDone
    /\ \A p \in Publishers : publish[p].step # "idle" => publish[p].status # "none"

(* The phase is deferred only over steers that raced the switch.           *)
SteersOpen ==
    \A i \in ToSet(items[K]) :
        KindOf[i] = "user" => i \in raced \/ (K \notin phases /\ pc # "setPhase")

(* The last drain found delivery open, and the worker alone defers it.     *)
DrainOpen == pc = "drainFinal" => K \notin phases

(* A final answer stands until a user message comes.                       *)
AnswerHeld ==
    /\ answered = "final" /\ ~ctxDone
    /\ pc \in {"begin", "drain", "sample", "checkUser", "setPhase", "preempt", "compact",
               "tools", "followUp", "accepts", "drainFinal", "returned", "finishCheck"}
    => /\ pc \notin {"begin", "drain", "sample", "checkUser", "setPhase"}
       /\ pc = "preempt" => ~resp.preempts
       /\ K \in phases \/ UserQueued

Order ==
    /\ OneTaker /\ WindowLate /\ PublishersKnown
    /\ SteersOpen /\ DrainOpen /\ AnswerHeld

IInv == TypeOK /\ Order

----------------------------------------------------------------------------
(* The mailbox: what its operations do to the types of its fields and what *)
(* appending does to a queue.                                              *)

(* What concatenation does to the predicates on queues.                    *)
LEMMA ToSetConcat ==
    ASSUME NEW S, NEW s \in Seq(S), NEW q \in Seq(S)
    PROVE  ToSet(s \o q) = ToSet(s) \cup ToSet(q)
<1>1. ASSUME NEW x \in ToSet(s \o q) PROVE x \in ToSet(s) \cup ToSet(q)
  BY <1>1 DEF ToSet
<1>2. ASSUME NEW x \in ToSet(s) PROVE x \in ToSet(s \o q)
  BY <1>2 DEF ToSet
<1>3. ASSUME NEW x \in ToSet(q) PROVE x \in ToSet(s \o q)
  <2>1. PICK i \in DOMAIN q : x = q[i]
    BY <1>3 DEF ToSet
  <2>2. Len(s) + i \in DOMAIN (s \o q) /\ (s \o q)[Len(s) + i] = x
    BY <2>1
  <2> QED
    BY <2>2 DEF ToSet
<1> QED
  BY <1>1, <1>2, <1>3

(* One item at the end of a queue.                                         *)
LEMMA ToSetOne ==
    ASSUME NEW S, NEW s \in Seq(S), NEW i \in S
    PROVE  ToSet(s \o <<i>>) = ToSet(s) \cup {i}
<1>1. ToSet(<<i>>) = {i}
  BY DEF ToSet
<1>2. <<i>> \in Seq(S)
  OBVIOUS
<1>3. ToSet(s \o <<i>>) = ToSet(s) \cup ToSet(<<i>>)
  BY <1>2, ToSetConcat, ZenonT(40)
<1> QED
  BY <1>1, <1>3

(* Nothing is in an empty queue.                                           *)
LEMMA ToSetEmpty == ToSet(<<>>) = {}
BY DEF ToSet

(* storeLocked keeps the types of the fields it writes.                    *)
LEMMA StoreTyped ==
    ASSUME MailboxTypeOK, NEW k \in Keys, NEW batch \in Seq(Items), Store(k, batch)
    PROVE  /\ items' \in [Keys -> Seq(Items)]
           /\ items'[k] = items[k] \o batch
           /\ \A j \in Keys \ {k} : items'[j] = items[j]
           /\ changed' = changed + 1
           /\ lastActivity' \in [key : Keys \cup {NoKey}, kind : Activities]
BY DEF MailboxTypeOK, Store, BatchActivity, Activities

(* Enqueue and EnqueueIfAcceptingDelivery keep the types and append.       *)
LEMMA EnqueueTyped ==
    ASSUME MailboxTypeOK, NEW k \in Keys, NEW batch \in Seq(Items),
           Enqueue(k, batch) \/ EnqueueIfAcceptingDelivery(k, batch)
    PROVE  MailboxTypeOK' /\ items'[k] = items[k] \o batch
<1>1. Store(k, batch)
  BY DEF Enqueue, EnqueueIfAcceptingDelivery
<1>2. items[k] \in Seq(Items)
  BY DEF MailboxTypeOK
<1>3. /\ items' \in [Keys -> Seq(Items)] /\ items'[k] = items[k] \o batch
      /\ changed' \in Nat
      /\ lastActivity' \in [key : Keys \cup {NoKey}, kind : Activities]
  BY <1>1, StoreTyped DEF MailboxTypeOK
<1>4. CASE Enqueue(k, batch)
  BY <1>3, <1>4 DEF Enqueue, MailboxTypeOK
<1>5. CASE EnqueueIfAcceptingDelivery(k, batch)
  BY <1>3, <1>5 DEF EnqueueIfAcceptingDelivery, MailboxTypeOK
<1> QED
  BY <1>4, <1>5

(* What empties a queue keeps the types.                                   *)
LEMMA EmptyTyped ==
    ASSUME MailboxTypeOK, NEW k \in Keys,
           DrainWithMetadata(k) \/ Clear(k) \/ FinishTakes(k)
    PROVE  MailboxTypeOK' /\ items'[k] = <<>> /\ UNCHANGED <<phases, finishing>>
<1>1. Empty(k) /\ UNCHANGED <<phases, finishing, changed, lastActivity>>
  BY DEF DrainWithMetadata, Clear, FinishTakes
<1>2. <<>> \in Seq(Items)
  OBVIOUS
<1>3. items' \in [Keys -> Seq(Items)] /\ items'[k] = <<>>
  BY <1>1, <1>2 DEF MailboxTypeOK, Empty
<1> QED
  BY <1>1, <1>3 DEF MailboxTypeOK, Empty

(* Phases and the finishing window.                                        *)
LEMMA WindowTyped ==
    ASSUME MailboxTypeOK, NEW k \in Keys,
           \/ FinishCloses(k) \/ BeginTurnFinish(k) \/ ReleaseTurnFinish(k)
           \/ \E phase \in {"CurrentTurn", "NextTurn"} : SetMailboxDeliveryPhase(k, phase)
    PROVE  MailboxTypeOK' /\ UNCHANGED items
BY DEF MailboxTypeOK, FinishCloses, BeginTurnFinish, ReleaseTurnFinish,
       SetMailboxDeliveryPhase

----------------------------------------------------------------------------
(* The parameters.                                                         *)

LEMMA KeyOfTurn == K \in Keys
BY AgentTurnAssumption DEF K, Keys

LEMMA Senders ==
    /\ \A u \in Steers : u \in Items /\ KindOf[u] = "user"
    /\ \A m \in Mails : m \in Items /\ KindOf[m] = "mail"
    /\ "worker" \in Publishers /\ "worker" \notin Cancellers
    /\ Cancellers \subseteq Publishers
    /\ \A p \in Publishers : p = "worker" \/ p \in Cancellers
BY AgentTurnAssumption DEF Publishers

LEMMA InitIInv == Init => IInv
<1> SUFFICES ASSUME Init PROVE IInv
  OBVIOUS
<1> USE DEF Init, MailboxInit
<1>1. MailboxTypeOK
  BY DEF MailboxTypeOK, Activities
<1>2. TypeOK
  <2>1. pc \in WorkerPC /\ resp \in Responses /\ samples \in 0..MaxSamples
    BY AgentTurnAssumption DEF WorkerPC, NoResponse, Responses
  <2>2. /\ transcript \in Seq(Items) /\ rollout \in Seq(Statuses) /\ notified \in Seq(Statuses)
        /\ agentMessages \in Seq(Mails) /\ sent \in Seq(Items)
    OBVIOUS
  <2>3. publish \in [Publishers -> [step : PublishSteps, status : Statuses \cup {"none"}]]
    BY DEF PublishSteps
  <2> QED
    BY <1>1, <2>1, <2>2, <2>3 DEF TypeOK
<1>3. OneTaker /\ WindowLate /\ PublishersKnown /\ DrainOpen /\ AnswerHeld
  BY Senders DEF OneTaker, TakenBy, WindowLate, PublishersKnown, DrainOpen, AnswerHeld
<1>4. SteersOpen
  BY KeyOfTurn, ToSetEmpty DEF SteersOpen
<1> QED
  BY <1>2, <1>3, <1>4 DEF IInv, Order

----------------------------------------------------------------------------
(* AgentLoop.Run.                                                          *)

(* What a drain hands over.                                                *)
LEMMA HandOverTyped ==
    ASSUME TypeOK, HandOver
    PROVE  /\ transcript' \in Seq(Items) /\ UNCHANGED <<sent, raced>>
           /\ answered' \in {"no", answered}
           /\ UserQueued => answered' = "no"
<1>1. items[K] \in Seq(Items)
  BY KeyOfTurn DEF TypeOK, MailboxTypeOK
<1>2. transcript' \in Seq(Items)
  BY <1>1 DEF TypeOK, HandOver
<1> QED
  BY <1>2 DEF HandOver, UserQueued, HasPendingUserInput, HasKind

(* Steps of the worker that drain the queue.                               *)
LEMMA DrainStep ==
    ASSUME IInv, DrainAtTop \/ DrainRejected \/ DrainFinal \/ FinishResumes \/ FinishRejects
    PROVE  IInv'
<1> USE KeyOfTurn, ToSetEmpty
<1>1. DrainWithMetadata(K) \/ FinishTakes(K)
  BY DEF DrainAtTop, DrainRejected, DrainFinal, FinishResumes, FinishRejects
<1>2. MailboxTypeOK' /\ items'[K] = <<>> /\ UNCHANGED <<phases, finishing>>
  BY <1>1, EmptyTyped DEF IInv, TypeOK
<1>3. CASE DrainAtTop
  <2>1. HandOver BY <1>3 DEF DrainAtTop
  <2>2. TypeOK'
    BY <1>2, <1>3, <2>1, HandOverTyped DEF IInv, TypeOK, DrainAtTop, Go, WorkerPC, hostVars, clientVars
  <2>3. Order'
    BY <1>2, <1>3, <2>1, HandOverTyped
       DEF IInv, Order, OneTaker, TakenBy, WindowLate, PublishersKnown, SteersOpen, DrainOpen,
           AnswerHeld, DrainAtTop, Go, hostVars, clientVars
  <2> QED BY <2>2, <2>3 DEF IInv
<1>4. CASE DrainRejected
  <2>2. TypeOK'
    BY <1>2, <1>4 DEF IInv, TypeOK, DrainRejected, Go, WorkerPC, hostVars, clientVars, historyVars
  <2>3. Order'
    BY <1>2, <1>4
       DEF IInv, Order, OneTaker, TakenBy, WindowLate, PublishersKnown, SteersOpen, DrainOpen,
           AnswerHeld, DrainRejected, Go, hostVars, clientVars, historyVars
  <2> QED BY <2>2, <2>3 DEF IInv
<1>5. CASE DrainFinal
  <2>1. HandOver BY <1>5 DEF DrainFinal
  <2>2. TypeOK'
    BY <1>2, <1>5, <2>1, HandOverTyped DEF IInv, TypeOK, DrainFinal, Go, WorkerPC, hostVars, clientVars
  <2>3. Order'
    BY <1>2, <1>5, <2>1, HandOverTyped
       DEF IInv, Order, OneTaker, TakenBy, WindowLate, PublishersKnown, SteersOpen, DrainOpen,
           AnswerHeld, DrainFinal, Go, hostVars, clientVars
  <2> QED BY <2>2, <2>3 DEF IInv
<1>6. CASE FinishResumes
  <2>1. HandOver /\ K \notin phases
    BY <1>6 DEF FinishResumes, FinishTakes, AcceptsDelivery
  <2>2. TypeOK'
    BY <1>2, <1>6, <2>1, HandOverTyped DEF IInv, TypeOK, FinishResumes, Go, WorkerPC, hostVars, clientVars
  <2>3. Order'
    BY <1>2, <1>6, <2>1, HandOverTyped
       DEF IInv, Order, OneTaker, TakenBy, WindowLate, PublishersKnown, SteersOpen, DrainOpen,
           AnswerHeld, FinishResumes, Go, hostVars, clientVars
  <2> QED BY <2>2, <2>3 DEF IInv
<1>7. CASE FinishRejects
  <2>2. TypeOK'
    BY <1>2, <1>7 DEF IInv, TypeOK, FinishRejects, Go, WorkerPC, hostVars, clientVars, historyVars
  <2>3. Order'
    BY <1>2, <1>7
       DEF IInv, Order, OneTaker, TakenBy, WindowLate, PublishersKnown, SteersOpen, DrainOpen,
           AnswerHeld, FinishRejects, Go, hostVars, clientVars, historyVars
  <2> QED BY <2>2, <2>3 DEF IInv
<1> QED BY <1>3, <1>4, <1>5, <1>6, <1>7

(* Steps of the worker inside Run that look at the queue or not at all.    *)
LEMMA SampleStep ==
    ASSUME IInv,
           \/ Respond \/ Preempted \/ SampleFails \/ CheckUserInput \/ PreemptForMail
           \/ NoMailPreemption \/ Compact \/ RunTools \/ FollowUp \/ CheckAccepts
    PROVE  IInv'
<1> USE KeyOfTurn, AgentTurnAssumption
    DEF IInv, Order, OneTaker, TakenBy, WindowLate, PublishersKnown, SteersOpen, DrainOpen,
        AnswerHeld, UserQueued, TypeOK, MailboxTypeOK, WorkerPC, Go, mailboxVars, hostVars,
        clientVars, historyVars
<1>1. CASE Respond BY <1>1 DEF Respond
<1>2. CASE Preempted BY <1>2 DEF Preempted
<1>3. CASE SampleFails BY <1>3 DEF SampleFails
<1>4. CASE CheckUserInput BY <1>4 DEF CheckUserInput, HasPendingUserInput, HasKind
<1>5. CASE PreemptForMail BY <1>5 DEF PreemptForMail, MailPreempts
<1>6. CASE NoMailPreemption BY <1>6 DEF NoMailPreemption
<1>7. CASE Compact BY <1>7, ZenonT(40) DEF Compact
<1>8. CASE RunTools BY <1>8, ZenonT(40) DEF RunTools
<1>9. CASE FollowUp BY <1>9, ZenonT(40) DEF FollowUp
<1>10. CASE CheckAccepts BY <1>10 DEF CheckAccepts, AcceptsDelivery
<1> QED BY <1>1, <1>2, <1>3, <1>4, <1>5, <1>6, <1>7, <1>8, <1>9, <1>10

(* Steps of the worker that change the phase or the window.                *)
LEMMA WindowStep ==
    ASSUME IInv,
           \/ BeginIteration \/ DeferDelivery \/ RunReturned \/ FinishAdmissionCloses
           \/ FailureClosesAdmission \/ ReleaseWindow
    PROVE  IInv'
<1>1. MailboxTypeOK' /\ UNCHANGED items
  BY KeyOfTurn, WindowTyped
     DEF IInv, TypeOK, MailboxTypeOK, BeginIteration, DeferDelivery, RunReturned,
         FinishAdmissionCloses, FailureClosesAdmission, ReleaseWindow, mailboxVars
<1> USE <1>1
    DEF IInv, Order, OneTaker, TakenBy, WindowLate, PublishersKnown, SteersOpen, DrainOpen,
        AnswerHeld, UserQueued, TypeOK, WorkerPC, Go, mailboxVars, hostVars,
        clientVars, historyVars
<1>2. CASE BeginIteration BY <1>2 DEF BeginIteration, SetMailboxDeliveryPhase
<1>3. CASE DeferDelivery BY <1>3 DEF DeferDelivery, SetMailboxDeliveryPhase
<1>4. CASE RunReturned BY <1>4 DEF RunReturned, BeginTurnFinish
<1>5. CASE FinishAdmissionCloses BY <1>5 DEF FinishAdmissionCloses, FinishCloses
<1>6. CASE FailureClosesAdmission BY <1>6 DEF FailureClosesAdmission, BeginTurnFinish
<1>7. CASE ReleaseWindow BY <1>7 DEF ReleaseWindow, ReleaseTurnFinish
<1> QED BY <1>2, <1>3, <1>4, <1>5, <1>6, <1>7

----------------------------------------------------------------------------
(* The end of the turn.                                                    *)

LEMMA PublishTyped ==
    ASSUME TypeOK, NEW p \in Publishers, NEW step \in PublishSteps,
           NEW status \in Statuses \cup {"none"}, StartPublishing(p, step, status)
    PROVE  /\ publish' \in [Publishers -> [step : PublishSteps, status : Statuses \cup {"none"}]]
           /\ publish'[p] = [step |-> step, status |-> status]
           /\ \A q \in Publishers : q # p => publish'[q] = publish[q]
BY DEF TypeOK, StartPublishing

(* The worker begins to publish a turn it consumed, or a failed one.       *)
LEMMA WorkerPublishes ==
    ASSUME Order, UNCHANGED <<canceller, ctxDone, phases, finishing, items, raced>>,
           pc \in {"persist", "failClear"}, pc' = "publishing", active' = FALSE,
           pc = "failClear" => persisted' = persisted,
           publish'["worker"].status \in {"completed", "failed"},
           \A q \in Publishers : q # "worker" => publish'[q] = publish[q]
    PROVE  Order'
<1>1. \A c \in Cancellers : publish'[c] = publish[c]
  BY Senders
<1>2. OneTaker'
  BY <1>1 DEF Order, OneTaker, TakenBy
<1>3. PublishersKnown'
  BY <1>1, Senders DEF Order, PublishersKnown
<1> QED
  BY <1>2, <1>3 DEF Order, WindowLate, SteersOpen, DrainOpen, AnswerHeld

LEMMA PublicationStep ==
    ASSUME IInv, PersistFinalBatch \/ FailurePublishes
    PROVE  IInv'
<1>1. PICK s \in {"completed", "failed"} : StartPublishing("worker", "append", s)
  BY DEF PersistFinalBatch, FailurePublishes
<1>2. /\ publish' \in [Publishers -> [step : PublishSteps, status : Statuses \cup {"none"}]]
      /\ publish'["worker"] = [step |-> "append", status |-> s]
      /\ \A q \in Publishers : q # "worker" => publish'[q] = publish[q]
  BY <1>1, Senders, PublishTyped DEF IInv, PublishSteps, Statuses
<1>3. publish'["worker"].status \in {"completed", "failed"}
  BY <1>2
<1>4. UNCHANGED mailboxVars /\ persisted' \in BOOLEAN /\ pc' = "publishing"
  BY DEF PersistFinalBatch, FailurePublishes, Go, IInv, TypeOK
<1>5. MailboxTypeOK'
  BY <1>4 DEF mailboxVars, MailboxTypeOK, IInv, TypeOK
<1>6. active' = FALSE
  BY DEF PersistFinalBatch, FailurePublishes, IInv, TypeOK, Order, OneTaker
<1>7. TypeOK'
  BY <1>2, <1>4, <1>5, <1>6
     DEF PersistFinalBatch, FailurePublishes, IInv, TypeOK, clientVars, historyVars, WorkerPC
<1>8. /\ UNCHANGED <<canceller, ctxDone, phases, finishing, items, raced>>
      /\ pc \in {"persist", "failClear"}
      /\ pc = "failClear" => persisted' = persisted
  BY DEF PersistFinalBatch, FailurePublishes, mailboxVars, clientVars, historyVars
<1>9. Order /\ pc' = "publishing"
  BY <1>4 DEF IInv
<1>10. Order'
  BY <1>2, <1>3, <1>6, <1>8, <1>9, WorkerPublishes
<1> QED BY <1>7, <1>10 DEF IInv

(* The other steps after Run has returned.                                 *)
LEMMA CompletionStep ==
    ASSUME IInv, \/ ConsumeCompleted \/ ClearCompleted
                 \/ FailureChecksContext \/ PublishingEnds
    PROVE  IInv'
<1> USE KeyOfTurn, Senders
    DEF IInv, Order, OneTaker, TakenBy, WindowLate, PublishersKnown, SteersOpen, DrainOpen,
        AnswerHeld, TypeOK, WorkerPC, Go, mailboxVars, hostVars, clientVars, historyVars
<1>1. CASE ConsumeCompleted BY <1>1 DEF ConsumeCompleted, MailboxTypeOK
<1>2. CASE ClearCompleted
  <2>1. MailboxTypeOK' /\ items'[K] = <<>> /\ UNCHANGED <<phases, finishing>>
    BY <1>2, EmptyTyped DEF ClearCompleted
  <2> QED BY <1>2, <2>1, ToSetEmpty DEF ClearCompleted
<1>3. CASE FailureChecksContext BY <1>3, ZenonT(40) DEF FailureChecksContext, MailboxTypeOK
<1>4. CASE PublishingEnds BY <1>4 DEF PublishingEnds, MailboxTypeOK
<1> QED BY <1>1, <1>2, <1>3, <1>4

(* The terminal lifecycle.                                                 *)
LEMMA LifecycleStep ==
    ASSUME IInv, NEW p \in Publishers, PublishStep(p)
    PROVE  IInv'
<1>1. PICK step \in PublishSteps \ {"idle"} : StartPublishing(p, step, publish[p].status)
  BY DEF PublishStep, AppendTerminal, ClearTerminal, CompleteTurnRecord,
         NotifyTurnCompletedOnce, StepTo, PublishSteps
<1>2. publish[p].status \in Statuses \cup {"none"} /\ publish[p].step # "idle"
  BY DEF IInv, TypeOK, PublishStep, AppendTerminal, ClearTerminal, CompleteTurnRecord,
         NotifyTurnCompletedOnce
<1>3. /\ publish' \in [Publishers -> [step : PublishSteps, status : Statuses \cup {"none"}]]
      /\ \A q \in Publishers : publish'[q].status = publish[q].status
      /\ \A q \in Publishers : publish'[q].step # "idle" => publish[q].step # "idle"
  <2>1. TypeOK /\ step \in PublishSteps
    BY <1>1 DEF IInv
  <2>2. /\ publish' \in [Publishers -> [step : PublishSteps, status : Statuses \cup {"none"}]]
        /\ publish'[p] = [step |-> step, status |-> publish[p].status]
        /\ \A q \in Publishers : q # p => publish'[q] = publish[q]
    BY <1>1, <1>2, <2>1, PublishTyped
  <2>3. publish'[p].status = publish[p].status
    BY <2>2
  <2> QED
    BY <1>2, <2>2, <2>3
<1>4. /\ UNCHANGED <<pc, again, resp, samples, transcript, ctxDone, active, persisted,
                     steer, mail, canceller, agentMessages, sent, raced, answered>>
      /\ record' \in BOOLEAN
  BY DEF IInv, TypeOK, PublishStep, AppendTerminal, ClearTerminal, CompleteTurnRecord,
         NotifyTurnCompletedOnce, turnVars, clientVars, historyVars
<1>5. MailboxTypeOK' /\ UNCHANGED <<phases, finishing>> /\ items'[K] \in {items[K], <<>>}
  <2>1. CASE ClearTerminal(p)
    BY <2>1, KeyOfTurn, EmptyTyped DEF ClearTerminal, IInv, TypeOK
  <2>2. CASE UNCHANGED mailboxVars
    BY <2>2 DEF mailboxVars, MailboxTypeOK, IInv, TypeOK
  <2> QED
    BY <2>1, <2>2 DEF PublishStep, AppendTerminal, CompleteTurnRecord, NotifyTurnCompletedOnce
<1>6. rollout' \in Seq(Statuses) /\ notified' \in Seq(Statuses)
  <2>1. publish[p].status \in Statuses
    BY <1>2 DEF IInv, Order, PublishersKnown
  <2>2. rollout' \in {rollout, Append(rollout, publish[p].status)}
        /\ notified' \in {notified, Append(notified, publish[p].status)}
    BY DEF PublishStep, AppendTerminal, ClearTerminal, CompleteTurnRecord,
         NotifyTurnCompletedOnce
  <2>3. rollout \in Seq(Statuses) /\ notified \in Seq(Statuses)
    BY DEF IInv, TypeOK
  <2>4. \A q \in Seq(Statuses) : Append(q, publish[p].status) \in Seq(Statuses)
    BY <2>1
  <2> QED
    BY <2>2, <2>3, <2>4
<1>7. TypeOK'
  BY <1>3, <1>4, <1>5, <1>6 DEF IInv, TypeOK
<1>8. ctxDone \/ pc \in {"publishing", "release", "done"}
  BY <1>2, Senders DEF IInv, Order, PublishersKnown
<1>9. Order'
  BY <1>3, <1>4, <1>5, <1>8, KeyOfTurn, Senders, ToSetEmpty
     DEF IInv, Order, OneTaker, TakenBy, WindowLate, PublishersKnown, SteersOpen, DrainOpen,
         AnswerHeld, UserQueued
<1> QED BY <1>7, <1>9 DEF IInv

----------------------------------------------------------------------------
(* Steers, mail and cancellers.                                            *)

(* Who touches neither the queue nor the worker may take the turn once.    *)
LEMMA OrderKept ==
    ASSUME Order, UNCHANGED <<items, phases, finishing, pc, resp, ctxDone, publish, persisted,
                              raced, answered>>,
           active' \in {active, FALSE},
           \A c \in Cancellers : canceller'[c] = "cancelContext" =>
               canceller[c] = "cancelContext" \/ (active /\ ~active')
    PROVE  Order'
<1>1. OneTaker'
  BY DEF Order, OneTaker, TakenBy
<1> QED
  BY <1>1 DEF Order, WindowLate, PublishersKnown, SteersOpen, DrainOpen, AnswerHeld, UserQueued

(* A steer is queued after whatever is there, and reopens delivery.        *)
LEMMA SteerKeeps ==
    ASSUME IInv, NEW u \in Steers, SteerStep(u)
    PROVE  IInv'
<1>1. CASE SteerAccepted(u)
  BY <1>1, KeyOfTurn
     DEF SteerAccepted, IInv, TypeOK, MailboxTypeOK, Order, OneTaker, TakenBy, WindowLate,
         PublishersKnown, SteersOpen, DrainOpen, AnswerHeld, UserQueued,
         mailboxVars, turnVars, hostVars, historyVars
<1>2. CASE SteerQueued(u)
  <2>1. u \in Items /\ KindOf[u] = "user" /\ <<u>> \in Seq(Items)
    BY Senders
  <2>2. MailboxTypeOK' /\ items'[K] = items[K] \o <<u>>
    BY <1>2, <2>1, KeyOfTurn, EnqueueTyped DEF SteerQueued, IInv, TypeOK
  <2>3. ToSet(items[K] \o <<u>>) = ToSet(items[K]) \cup {u}
    <3>1. items[K] \in Seq(Items)
      BY KeyOfTurn DEF IInv, TypeOK, MailboxTypeOK
    <3> QED
      BY <2>1, <3>1, ToSetOne
  <2>4. ToSet(items'[K]) = ToSet(items[K]) \cup {u}
    BY <2>2, <2>3
  <2>5. phases' = phases \ {K} /\ finishing' = finishing
    <3>1. HasKind(<<u>>, "user")
      BY <2>1 DEF HasKind, ToSet
    <3> QED
      BY <1>2, <3>1 DEF SteerQueued, Enqueue
  <2>6. TypeOK'
    <3>1. sent' \in Seq(Items) /\ raced' \subseteq Steers
      BY <1>2, <2>1 DEF SteerQueued, IInv, TypeOK
    <3> QED
      BY <1>2, <2>2, <3>1 DEF SteerQueued, IInv, TypeOK, turnVars, hostVars
  <2>7. /\ UNCHANGED <<pc, resp, ctxDone, active, publish, persisted, canceller, answered>>
        /\ raced' = IF pc = "setPhase" THEN raced \cup {u} ELSE raced
    BY <1>2 DEF SteerQueued, turnVars, hostVars
  <2>8. Order'
    BY <2>1, <2>4, <2>5, <2>7
       DEF IInv, Order, OneTaker, TakenBy, WindowLate, PublishersKnown, SteersOpen, DrainOpen,
           AnswerHeld, UserQueued
  <2> QED BY <2>6, <2>8 DEF IInv
<1> QED BY <1>1, <1>2 DEF SteerStep

(* Mail reopens nothing.                                                   *)
LEMMA MailKeeps ==
    ASSUME IInv, NEW m \in Mails, MailStep(m)
    PROVE  IInv'
<1>1. CASE MailFindsTurn(m) \/ BoardMailKept(m)
  <2>1. agentMessages' \in {agentMessages, Append(agentMessages, m)}
    BY <1>1 DEF MailFindsTurn, BoardMailKept
  <2>2. agentMessages' \in Seq(Mails)
    <3>1. agentMessages \in Seq(Mails)
      BY DEF IInv, TypeOK
    <3>2. Append(agentMessages, m) \in Seq(Mails)
      BY <3>1
    <3> QED BY <2>1, <3>1, <3>2
  <2>3. mail' \in [Mails -> {"idle", "sawActive", "queued", "kept"}]
    BY <1>1 DEF MailFindsTurn, BoardMailKept, IInv, TypeOK
  <2>4. UNCHANGED <<mailboxVars, turnVars, hostVars, steer, canceller, historyVars>>
    BY <1>1 DEF MailFindsTurn, BoardMailKept
  <2>5. TypeOK'
    BY <2>2, <2>3, <2>4
       DEF IInv, TypeOK, MailboxTypeOK, mailboxVars, turnVars, hostVars, historyVars
  <2>6. Order'
    BY <2>4, OrderKept DEF IInv, mailboxVars, turnVars, hostVars, historyVars
  <2> QED BY <2>5, <2>6 DEF IInv
<1>2. CASE AgentMailQueued(m) \/ BoardMailQueued(m)
  <2>1. m \in Items /\ KindOf[m] = "mail" /\ <<m>> \in Seq(Items)
    BY Senders
  <2>2. MailboxTypeOK' /\ items'[K] = items[K] \o <<m>>
    BY <1>2, <2>1, KeyOfTurn, EnqueueTyped DEF AgentMailQueued, BoardMailQueued, IInv, TypeOK
  <2>3. ToSet(items[K] \o <<m>>) = ToSet(items[K]) \cup {m}
    <3>1. items[K] \in Seq(Items)
      BY KeyOfTurn DEF IInv, TypeOK, MailboxTypeOK
    <3> QED
      BY <2>1, <3>1, ToSetOne
  <2>4. ToSet(items'[K]) = ToSet(items[K]) \cup {m}
    BY <2>2, <2>3
  <2>5. UNCHANGED <<phases, finishing>>
    <3>1. ~HasKind(<<m>>, "user")
      BY <2>1 DEF HasKind, ToSet
    <3> QED
      BY <1>2, <3>1
         DEF AgentMailQueued, BoardMailQueued, Enqueue, EnqueueIfAcceptingDelivery
  <2>6. TypeOK'
    <3>1. sent' = Append(sent, m) /\ sent \in Seq(Items)
      BY <1>2 DEF AgentMailQueued, BoardMailQueued, IInv, TypeOK
    <3>2. sent' \in Seq(Items)
      BY <2>1, <3>1
    <3> QED
      BY <1>2, <2>2, <3>2
         DEF AgentMailQueued, BoardMailQueued, IInv, TypeOK, turnVars, hostVars
  <2>7. UNCHANGED <<pc, resp, ctxDone, active, publish, persisted, canceller, raced, answered>>
    BY <1>2 DEF AgentMailQueued, BoardMailQueued, turnVars, hostVars
  <2>8. Order'
    BY <2>1, <2>4, <2>5, <2>7
       DEF IInv, Order, OneTaker, TakenBy, WindowLate, PublishersKnown, SteersOpen, DrainOpen,
           AnswerHeld, UserQueued
  <2> QED BY <2>6, <2>8 DEF IInv
<1> QED BY <1>1, <1>2 DEF MailStep

LEMMA CancelKeeps ==
    ASSUME IInv, NEW c \in Cancellers, CancelStep(c)
    PROVE  IInv'
<1>1. CASE CancelContext(c)
  <2>1. /\ publish' \in [Publishers -> [step : PublishSteps, status : Statuses \cup {"none"}]]
        /\ publish'[c] = [step |-> "append", status |-> "interrupted"]
        /\ \A q \in Publishers : q # c => publish'[q] = publish[q]
    BY <1>1, Senders, PublishTyped DEF CancelContext, IInv, PublishSteps, Statuses
  <2>2. MailboxTypeOK' /\ UNCHANGED <<items, phases, finishing>>
    BY <1>1 DEF CancelContext, IInv, TypeOK, MailboxTypeOK, mailboxVars
  <2>3. TypeOK'
    BY <1>1, <2>1, <2>2
       DEF CancelContext, CancellerMoves, IInv, TypeOK, historyVars
  <2>4. /\ UNCHANGED <<pc, active, persisted, raced, resp, answered>>
        /\ ctxDone' = TRUE /\ canceller[c] = "cancelContext"
        /\ \A d \in Cancellers : d # c => canceller'[d] = canceller[d]
    BY <1>1 DEF CancelContext, CancellerMoves, historyVars, IInv, TypeOK
  <2>5. OneTaker'
    BY <2>1, <2>4, Senders DEF IInv, Order, OneTaker, TakenBy
  <2>6. PublishersKnown'
    BY <2>1, <2>4, Senders DEF IInv, Order, PublishersKnown
  <2>7. Order'
    BY <2>2, <2>4, <2>5, <2>6
       DEF IInv, Order, WindowLate, SteersOpen, DrainOpen, AnswerHeld
  <2> QED BY <2>3, <2>7 DEF IInv
<1>2. CASE \/ CancelFindsTurn(c) \/ CancelChecksFinishing(c) \/ GuardianChecksPending(c)
           \/ InterruptRecord(c) \/ CancelConsumes(c)
  <2>1. PICK to \in {"sawActive", "checkPending", "interruptRecord", "consume", "cancelContext", "done"} :
          /\ CancellerMoves(c, to)
          /\ to = "cancelContext" => active /\ ~active'
    BY <1>2 DEF CancelFindsTurn, CancelChecksFinishing, GuardianChecksPending, InterruptRecord,
                CancelConsumes
  <2>2. /\ canceller' = [canceller EXCEPT ![c] = to]
        /\ UNCHANGED <<steer, mail, agentMessages>>
    BY <2>1 DEF CancellerMoves
  <2>3. /\ UNCHANGED <<mailboxVars, turnVars, historyVars, publish, rollout, notified, persisted>>
        /\ active' \in {active, FALSE} /\ record' \in {record, FALSE}
    BY <1>2 DEF CancelFindsTurn, CancelChecksFinishing, GuardianChecksPending, InterruptRecord,
                CancelConsumes, hostVars
  <2>4. TypeOK'
    <3>1. canceller' \in [Cancellers -> {"idle", "sawActive", "checkPending", "interruptRecord",
                                         "consume", "cancelContext", "done"}]
      BY <2>2 DEF IInv, TypeOK
    <3>2. active' \in BOOLEAN /\ record' \in BOOLEAN
      BY <2>3 DEF IInv, TypeOK
    <3>3. MailboxTypeOK'
      BY <2>3 DEF IInv, TypeOK, MailboxTypeOK, mailboxVars
    <3>4. UNCHANGED <<pc, again, resp, samples, transcript, ctxDone, sent, raced, answered,
                      steer, mail, agentMessages, publish, rollout, notified, persisted>>
      BY <2>2, <2>3 DEF turnVars, historyVars
    <3> QED BY <3>1, <3>2, <3>3, <3>4 DEF IInv, TypeOK
  <2>5. \A d \in Cancellers : canceller'[d] = "cancelContext" =>
          canceller[d] = "cancelContext" \/ (active /\ ~active')
    BY <2>1, <2>2 DEF IInv, TypeOK
  <2>6. Order'
    BY <2>3, <2>5, OrderKept DEF IInv, mailboxVars, turnVars, historyVars
  <2> QED BY <2>4, <2>6 DEF IInv
<1> QED BY <1>1, <1>2 DEF CancelStep

LEMMA StutterKeeps ==
    ASSUME IInv, UNCHANGED vars
    PROVE  IInv'
BY DEF vars, IInv, TypeOK, MailboxTypeOK, Order, OneTaker, TakenBy, WindowLate,
       PublishersKnown, SteersOpen, DrainOpen, AnswerHeld, UserQueued, mailboxVars, turnVars,
       hostVars, clientVars, historyVars

LEMMA NextIInv ==
    ASSUME IInv, [Next]_vars
    PROVE  IInv'
<1>1. CASE LoopStep
  BY <1>1, DrainStep, SampleStep, WindowStep DEF LoopStep
<1>2. CASE FinishStep
  BY <1>2, DrainStep, WindowStep, CompletionStep, PublicationStep DEF FinishStep
<1> QED
  BY <1>1, <1>2, LifecycleStep, SteerKeeps, MailKeeps, CancelKeeps, StutterKeeps
     DEF Next, Finished

(* The inductive invariant holds in every reachable state.                 *)
THEOREM TurnInvariant == Spec => []IInv
BY InitIInv, NextIInv, PTL DEF Spec

(* The worker, its clients and the mailbox keep their types, whatever the  *)
(* order in which drains, senders and publishers take their locks.         *)
THEOREM TypeCorrect == Spec => []TypeOK
BY TurnInvariant, PTL DEF IInv

(* consumeCompletedRuntimeTurn and ConsumeTurn take the turn from each     *)
(* other: a turn whose end a canceller reports is not persisted.           *)
THEOREM InterruptedIsNotPersisted == Spec => []InterruptedNotPersisted
<1>1. IInv => InterruptedNotPersisted
  BY DEF IInv, Order, OneTaker, TakenBy, InterruptedNotPersisted
<1> QED BY <1>1, TurnInvariant, PTL

(* MailboxNextTurn keeps mail from extending a turn that has its answer.   *)
THEOREM FinalAnswerStands == Spec => []FinalAnswerSticks
<1>1. IInv => FinalAnswerSticks
  BY DEF IInv, Order, AnswerHeld, FinalAnswerSticks
<1> QED BY <1>1, TurnInvariant, PTL

(* FinishTurnOrTakePending takes every steer that reopened delivery.       *)
THEOREM SteersAreTaken == Spec => SteersTakenBeforeClosing
<1>1. ASSUME IInv, FinishAdmissionCloses, NEW i \in ToSet(items[K]), KindOf[i] = "user"
      PROVE  i \in raced
  <2>1. SUFFICES ASSUME K \notin phases PROVE FALSE
    BY <1>1 DEF IInv, Order, SteersOpen
  <2>2. K \notin finishing
    BY <1>1 DEF IInv, Order, WindowLate, FinishAdmissionCloses
  <2>3. items[K] # <<>>
    BY <1>1, ToSetEmpty
  <2> QED
    BY <1>1, <2>1, <2>2, <2>3 DEF FinishAdmissionCloses, FinishCloses, AcceptsDelivery
<1>2. IInv => (FinishAdmissionCloses =>
                \A i \in ToSet(items[K]) : KindOf[i] = "user" => i \in raced)
  BY <1>1
<1>3. IInv /\ [Next]_vars =>
        [FinishAdmissionCloses =>
          \A i \in ToSet(items[K]) : KindOf[i] = "user" => i \in raced]_vars
  BY <1>2
<1> QED BY <1>3, TurnInvariant, PTL DEF Spec, SteersTakenBeforeClosing

----------------------------------------------------------------------------
(* What the model sees of the queue.                                       *)

(* What was handed to the model, then what is still queued.                *)
Seen == transcript \o items[K]

(* What was queued and is not dropped keeps its place, and a sender that   *)
(* has not queued its item is nowhere in the history.                      *)
QueuedInOrder ==
    /\ IsInjective(Seen) /\ IsInjective(sent) /\ InOrderOf(Seen, sent)
    /\ \A u \in Steers : steer[u] # "queued" => u \notin ToSet(sent)
    /\ \A m \in Mails : mail[m] # "queued" => m \notin ToSet(sent)

(* What InOrderOf holds of is part of the longer sequence.                 *)
LEMMA InOrderWithin ==
    ASSUME NEW s, NEW t, InOrderOf(s, t),
           DOMAIN s \subseteq Int
    PROVE  ToSet(s) \subseteq ToSet(t)
<1>1. ASSUME NEW i \in DOMAIN s PROVE \E p \in DOMAIN t : t[p] = s[i]
  BY DEF InOrderOf
<1> QED
  BY <1>1 DEF ToSet

(* One more element, new to both.                                          *)
LEMMA InOrderGrows ==
    ASSUME NEW S, NEW s \in Seq(S), NEW t \in Seq(S), NEW x \in S,
           IsInjective(s), IsInjective(t), InOrderOf(s, t), x \notin ToSet(t)
    PROVE  /\ IsInjective(s \o <<x>>) /\ IsInjective(Append(t, x))
           /\ InOrderOf(s \o <<x>>, Append(t, x))
           /\ ToSet(Append(t, x)) = ToSet(t) \cup {x}
<1> DEFINE s2 == s \o <<x>>
           t2 == Append(t, x)
<1>1. ToSet(s) \subseteq ToSet(t)
  BY InOrderWithin
<1>2. /\ DOMAIN s = 1 .. Len(s) /\ DOMAIN t = 1 .. Len(t)
      /\ Len(s) \in Nat /\ Len(t) \in Nat
  OBVIOUS
<1>3. /\ DOMAIN s2 = 1 .. Len(s) + 1 /\ s2[Len(s) + 1] = x
      /\ \A i \in 1 .. Len(s) : s2[i] = s[i]
  OBVIOUS
<1>4. /\ DOMAIN t2 = 1 .. Len(t) + 1 /\ t2[Len(t) + 1] = x
      /\ \A i \in 1 .. Len(t) : t2[i] = t[i]
  OBVIOUS
<1>5. \A i \in 1 .. Len(s) : s[i] # x
  BY <1>1, <1>2 DEF ToSet
<1>6. \A i \in 1 .. Len(t) : t[i] # x
  BY <1>2 DEF ToSet
<1> HIDE DEF s2, t2
<1>7. IsInjective(s2)
  BY <1>2, <1>3, <1>5 DEF IsInjective
<1>8. IsInjective(t2)
  BY <1>2, <1>4, <1>6 DEF IsInjective
<1>9. InOrderOf(s2, t2)
  <2> SUFFICES ASSUME NEW i \in DOMAIN s2, NEW j \in DOMAIN s2, i <= j
               PROVE  \E p, q \in DOMAIN t2 : p <= q /\ t2[p] = s2[i] /\ t2[q] = s2[j]
    BY DEF InOrderOf
  <2>1. CASE j \in 1 .. Len(s)
    <3>1. PICK p, q \in 1 .. Len(t) : p <= q /\ t[p] = s[i] /\ t[q] = s[j]
      BY <1>2, <1>3, <2>1 DEF InOrderOf
    <3> QED
      BY <1>2, <1>3, <1>4, <2>1, <3>1
  <2>2. CASE j = Len(s) + 1 /\ i \in 1 .. Len(s)
    <3>1. PICK p \in 1 .. Len(t) : t[p] = s[i]
      BY <1>2, <2>2 DEF InOrderOf
    <3> QED
      BY <1>2, <1>3, <1>4, <2>2, <3>1
  <2>3. CASE i = Len(s) + 1 /\ j = Len(s) + 1
    BY <1>2, <1>3, <1>4, <2>3
  <2> QED
    BY <1>2, <1>3, <2>1, <2>2, <2>3
<1>10. ToSet(t2) = ToSet(t) \cup {x}
  BY <1>2, <1>4 DEF ToSet
<1> QED
  BY <1>7, <1>8, <1>9, <1>10 DEF s2, t2

(* A beginning of what is in order is in order.                            *)
LEMMA InOrderPrefix ==
    ASSUME NEW S, NEW s \in Seq(S), NEW q \in Seq(S), NEW t \in Seq(S),
           IsInjective(s \o q), InOrderOf(s \o q, t)
    PROVE  IsInjective(s) /\ InOrderOf(s, t)
<1> DEFINE w == s \o q
<1>1. /\ DOMAIN s \subseteq DOMAIN w
      /\ \A i \in DOMAIN s : w[i] = s[i]
  OBVIOUS
<1> HIDE DEF w
<1>2. IsInjective(w) /\ InOrderOf(w, t)
  BY DEF w
<1> QED
  BY <1>1, <1>2, SMTT(30) DEF IsInjective, InOrderOf

LEMMA InitQueued == Init => QueuedInOrder
<1> SUFFICES ASSUME Init PROVE QueuedInOrder
  OBVIOUS
<1>1. Seen = <<>> /\ sent = <<>>
  BY KeyOfTurn DEF Init, MailboxInit, Seen
<1>2. IsInjective(Seen) /\ IsInjective(sent) /\ InOrderOf(Seen, sent)
  BY <1>1 DEF IsInjective, InOrderOf
<1> QED
  BY <1>1, <1>2, ToSetEmpty DEF QueuedInOrder

(* Nobody queues: what was handed over and what waits loses at most its    *)
(* end, and no sender comes to have queued its item.                       *)
LEMMA NothingQueued ==
    ASSUME IInv, IInv', QueuedInOrder, sent' = sent,
           \A u \in Steers : steer'[u] # "queued" => steer[u] # "queued",
           \A m \in Mails : mail'[m] # "queued" => mail[m] # "queued",
           \/ transcript' = transcript \o items[K] /\ items'[K] = <<>>
           \/ transcript' = transcript /\ items'[K] = <<>>
           \/ transcript' = transcript /\ items'[K] = items[K]
    PROVE  QueuedInOrder'
<1>1. /\ transcript \in Seq(Items) /\ items[K] \in Seq(Items) /\ sent \in Seq(Items)
      /\ transcript' \in Seq(Items) /\ items'[K] \in Seq(Items)
  BY KeyOfTurn DEF IInv, TypeOK, MailboxTypeOK
<1>2. IsInjective(Seen) /\ IsInjective(sent) /\ InOrderOf(Seen, sent)
  BY DEF QueuedInOrder
<1>3. Seen' = transcript' \o items'[K]
  BY DEF Seen, K
<1>4. \A q \in Seq(Items) : q \o <<>> = q
  OBVIOUS
<1>5. transcript \o items[K] \in Seq(Items)
  BY <1>1
<1>6. Seen' = Seen \/ Seen' = transcript
  BY <1>1, <1>3, <1>4, <1>5 DEF Seen
<1>7. IsInjective(transcript) /\ InOrderOf(transcript, sent)
  BY <1>1, <1>2, InOrderPrefix DEF Seen
<1>8. IsInjective(Seen') /\ InOrderOf(Seen', sent)
  BY <1>2, <1>6, <1>7
<1> QED
  BY <1>2, <1>8 DEF QueuedInOrder, IsInjective, InOrderOf

(* A sender that had not queued its item queues it.                        *)
LEMMA OneQueued ==
    ASSUME IInv, QueuedInOrder, NEW x \in Items, x \notin ToSet(sent),
           transcript' = transcript, items'[K] = items[K] \o <<x>>,
           sent' = Append(sent, x),
           \A u \in Steers : steer'[u] # "queued" => u # x /\ steer[u] # "queued",
           \A m \in Mails : mail'[m] # "queued" => m # x /\ mail[m] # "queued"
    PROVE  QueuedInOrder'
<1>1. transcript \in Seq(Items) /\ items[K] \in Seq(Items) /\ sent \in Seq(Items)
  BY KeyOfTurn DEF IInv, TypeOK, MailboxTypeOK
<1>2. IsInjective(Seen) /\ IsInjective(sent) /\ InOrderOf(Seen, sent) /\ Seen \in Seq(Items)
  BY <1>1 DEF QueuedInOrder, Seen
<1>3. Seen' = Seen \o <<x>>
  <2>1. Seen' = transcript \o (items[K] \o <<x>>)
    BY DEF Seen, K
  <2>2. \A s, q, r \in Seq(Items) : s \o (q \o r) = (s \o q) \o r
    BY SMTT(30)
  <2>3. <<x>> \in Seq(Items)
    OBVIOUS
  <2> QED
    BY <1>1, <2>1, <2>2, <2>3 DEF Seen
<1>4. /\ IsInjective(Seen') /\ IsInjective(sent') /\ InOrderOf(Seen', sent')
      /\ ToSet(sent') = ToSet(sent) \cup {x}
  BY <1>1, <1>2, <1>3, InOrderGrows
<1>5. /\ \A u \in Steers : steer'[u] # "queued" => u \notin ToSet(sent')
      /\ \A m \in Mails : mail'[m] # "queued" => m \notin ToSet(sent')
  BY <1>4 DEF QueuedInOrder
<1> QED
  BY <1>4, <1>5 DEF QueuedInOrder, IsInjective, InOrderOf

(* Steps of the worker and of whoever publishes.                           *)
LEMMA WorkerQueued ==
    ASSUME IInv, IInv', QueuedInOrder,
           LoopStep \/ FinishStep \/ (\E p \in Publishers : PublishStep(p))
    PROVE  QueuedInOrder'
<1>1. sent' = sent /\ steer' = steer /\ mail' = mail
  BY DEF LoopStep, BeginIteration, DrainAtTop, DrainRejected, Respond, Preempted, SampleFails,
         CheckUserInput, DeferDelivery, PreemptForMail, NoMailPreemption, Compact, RunTools,
         FollowUp, CheckAccepts, DrainFinal, FinishStep, RunReturned, FinishResumes,
         FinishRejects, FinishAdmissionCloses, ConsumeCompleted, ClearCompleted,
         PersistFinalBatch, FailureClosesAdmission, FailureChecksContext, FailurePublishes,
         PublishingEnds, ReleaseWindow, PublishStep, AppendTerminal, ClearTerminal,
         CompleteTurnRecord, NotifyTurnCompletedOnce, HandOver, clientVars, historyVars
<1>2. MailboxTypeOK
  BY DEF IInv, TypeOK
<1>3. CASE DrainAtTop \/ DrainFinal \/ FinishResumes
  <2>1. HandOver /\ (DrainWithMetadata(K) \/ FinishTakes(K))
    BY <1>3 DEF DrainAtTop, DrainFinal, FinishResumes
  <2>2. transcript' = transcript \o items[K] /\ items'[K] = <<>>
    BY <1>2, <2>1, KeyOfTurn, EmptyTyped DEF HandOver
  <2> QED
    BY <1>1, <2>2, NothingQueued
<1>4. CASE \/ DrainRejected \/ FinishRejects \/ ClearCompleted
           \/ \E p \in Publishers : ClearTerminal(p)
  <2>1. DrainWithMetadata(K) \/ FinishTakes(K) \/ Clear(K)
    BY <1>4 DEF DrainRejected, FinishRejects, ClearCompleted, ClearTerminal
  <2>2. transcript' = transcript
    BY <1>4 DEF DrainRejected, FinishRejects, ClearCompleted, ClearTerminal, turnVars
  <2>3. items'[K] = <<>>
    BY <1>2, <2>1, KeyOfTurn, EmptyTyped
  <2> QED
    BY <1>1, <2>2, <2>3, NothingQueued
<1>5. CASE \/ BeginIteration \/ DeferDelivery \/ RunReturned \/ FinishAdmissionCloses
           \/ FailureClosesAdmission \/ ReleaseWindow
  <2>1. items' = items /\ transcript' = transcript
    BY <1>2, <1>5, KeyOfTurn, WindowTyped
       DEF BeginIteration, DeferDelivery, RunReturned, FinishAdmissionCloses,
           FailureClosesAdmission, ReleaseWindow, mailboxVars
  <2> QED
    BY <1>1, <2>1, NothingQueued DEF K
<1>6. CASE /\ UNCHANGED <<items, transcript>>
  BY <1>1, <1>6, NothingQueued DEF K
<1>7. \/ UNCHANGED <<items, transcript>>
      \/ DrainAtTop \/ DrainFinal \/ FinishResumes
      \/ DrainRejected \/ FinishRejects \/ ClearCompleted
      \/ \E p \in Publishers : ClearTerminal(p)
      \/ BeginIteration \/ DeferDelivery \/ RunReturned \/ FinishAdmissionCloses
      \/ FailureClosesAdmission \/ ReleaseWindow
  <2>1. CASE LoopStep
    BY <2>1 DEF LoopStep, Respond, Preempted, SampleFails, CheckUserInput, PreemptForMail,
                NoMailPreemption, Compact, RunTools, FollowUp, CheckAccepts, mailboxVars
  <2>2. CASE FinishStep
    BY <2>2 DEF FinishStep, ConsumeCompleted, PersistFinalBatch, FailureChecksContext,
                FailurePublishes, PublishingEnds, mailboxVars
  <2>3. CASE \E p \in Publishers : PublishStep(p)
    BY <2>3 DEF PublishStep, AppendTerminal, CompleteTurnRecord, NotifyTurnCompletedOnce,
                mailboxVars, turnVars
  <2> QED
    BY <2>1, <2>2, <2>3
<1> QED
  BY <1>3, <1>4, <1>5, <1>6, <1>7

(* Steps of the senders and of whoever cancels.                            *)
LEMMA SenderQueued ==
    ASSUME IInv, IInv', QueuedInOrder,
           \/ \E u \in Steers : SteerStep(u)
           \/ \E m \in Mails : MailStep(m)
           \/ \E c \in Cancellers : CancelStep(c)
           \/ UNCHANGED vars
    PROVE  QueuedInOrder'
<1>1. MailboxTypeOK /\ DOMAIN steer = Steers /\ DOMAIN mail = Mails
  BY DEF IInv, TypeOK
<1>2. ASSUME NEW u \in Steers, SteerQueued(u) PROVE QueuedInOrder'
  <2>1. u \in Items /\ KindOf[u] = "user" /\ <<u>> \in Seq(Items)
    BY Senders
  <2>2. items'[K] = items[K] \o <<u>>
    BY <1>1, <1>2, <2>1, KeyOfTurn, EnqueueTyped DEF SteerQueued
  <2>3. u \notin ToSet(sent)
    BY <1>2 DEF QueuedInOrder, SteerQueued
  <2>4. transcript' = transcript /\ sent' = Append(sent, u) /\ mail' = mail
    BY <1>2 DEF SteerQueued, turnVars
  <2>5. \A v \in Steers : steer'[v] # "queued" => v # u /\ steer[v] # "queued"
    BY <1>1, <1>2 DEF SteerQueued
  <2>6. \A m \in Mails : m # u
    BY <2>1, Senders
  <2> QED
    BY <2>1, <2>2, <2>3, <2>4, <2>5, <2>6, OneQueued
<1>3. ASSUME NEW m \in Mails, AgentMailQueued(m) \/ BoardMailQueued(m) PROVE QueuedInOrder'
  <2>1. m \in Items /\ KindOf[m] = "mail" /\ <<m>> \in Seq(Items)
    BY Senders
  <2>2. items'[K] = items[K] \o <<m>>
    BY <1>1, <1>3, <2>1, KeyOfTurn, EnqueueTyped DEF AgentMailQueued, BoardMailQueued
  <2>3. m \notin ToSet(sent)
    BY <1>3 DEF QueuedInOrder, AgentMailQueued, BoardMailQueued
  <2>4. transcript' = transcript /\ sent' = Append(sent, m) /\ steer' = steer
    BY <1>3 DEF AgentMailQueued, BoardMailQueued, turnVars
  <2>5. \A v \in Mails : mail'[v] # "queued" => v # m /\ mail[v] # "queued"
    BY <1>1, <1>3 DEF AgentMailQueued, BoardMailQueued
  <2>6. \A u \in Steers : u # m
    BY <2>1, Senders
  <2> QED
    BY <2>1, <2>2, <2>3, <2>4, <2>5, <2>6, OneQueued
<1>4. ASSUME NEW u \in Steers, SteerAccepted(u) PROVE QueuedInOrder'
  <2>1. UNCHANGED <<items, transcript, sent, mail>>
    BY <1>4 DEF SteerAccepted, mailboxVars, turnVars, historyVars
  <2>2. \A v \in Steers : steer'[v] # "queued" => steer[v] # "queued"
    BY <1>1, <1>4 DEF SteerAccepted
  <2> QED
    BY <2>1, <2>2, NothingQueued DEF K
<1>5. ASSUME NEW m \in Mails, MailFindsTurn(m) \/ BoardMailKept(m) PROVE QueuedInOrder'
  <2>1. UNCHANGED <<items, transcript, sent, steer>>
    BY <1>5 DEF MailFindsTurn, BoardMailKept, mailboxVars, turnVars, historyVars
  <2>2. \A v \in Mails : mail'[v] # "queued" => mail[v] # "queued"
    BY <1>1, <1>5 DEF MailFindsTurn, BoardMailKept
  <2> QED
    BY <2>1, <2>2, NothingQueued DEF K
<1>6. ASSUME NEW c \in Cancellers, CancelStep(c) PROVE QueuedInOrder'
  <2>1. UNCHANGED <<items, transcript, sent, steer, mail>>
    BY <1>6 DEF CancelStep, CancelFindsTurn, CancelChecksFinishing, GuardianChecksPending,
         InterruptRecord, CancelConsumes, CancelContext, CancellerMoves, mailboxVars, turnVars,
         historyVars
  <2> QED
    BY <2>1, NothingQueued DEF K
<1>7. CASE UNCHANGED vars
  <2>1. UNCHANGED <<items, transcript, sent, steer, mail>>
    BY <1>7 DEF vars, mailboxVars, turnVars, clientVars, historyVars
  <2> QED
    BY <2>1, NothingQueued DEF K
<1> QED
  BY <1>2, <1>3, <1>4, <1>5, <1>6, <1>7 DEF SteerStep, MailStep

(* storeLocked appends, a drain takes the whole queue and hands it over in *)
(* its order: input is delivered at most once and in the order it was      *)
(* queued.                                                                 *)
THEOREM QueueIsDeliveredInOrder == Spec => []DeliveredOnceInOrder
<1>1. IInv /\ IInv' /\ QueuedInOrder /\ [Next]_vars => QueuedInOrder'
  BY WorkerQueued, SenderQueued DEF Next, Finished
<1>2. Spec => []QueuedInOrder
  BY <1>1, InitQueued, TurnInvariant, PTL DEF Spec
<1>3. IInv /\ QueuedInOrder => DeliveredOnceInOrder
  <2> SUFFICES ASSUME IInv, QueuedInOrder PROVE DeliveredOnceInOrder
    OBVIOUS
  <2>1. transcript \in Seq(Items) /\ items[K] \in Seq(Items) /\ sent \in Seq(Items)
    BY KeyOfTurn DEF IInv, TypeOK, MailboxTypeOK
  <2> QED
    BY <2>1, InOrderPrefix DEF QueuedInOrder, Seen, DeliveredOnceInOrder
<1> QED
  BY <1>2, <1>3, TurnInvariant, PTL
=============================================================================
