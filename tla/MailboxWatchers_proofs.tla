----------------------- MODULE MailboxWatchers_proofs -----------------------
(***************************************************************************)
(* Proofs about MailboxWatchers, for every set of threads, turns, items,   *)
(* watchers and waiters: the injection bit is exact and no wake-up is      *)
(* lost.  The inductive invariant adds that nobody sleeps on a generation  *)
(* of the change channel that does not exist yet.                          *)
(***************************************************************************)
EXTENDS MailboxWatchers, TLAPS

(* Every generation a sleeper holds has been handed out.                   *)
GenerationsExist ==
    /\ \A w \in Watchers : watcher[w].gen <= changed
    /\ \A w \in Waiters : waiter[w].gen <= changed

IInv ==
    /\ TypeOK
    /\ InjectionBitExact
    /\ GenerationsExist
    /\ NoLostWakeup
    /\ NoLostWait

----------------------------------------------------------------------------
(* What the predicates on queues make of batches.                          *)

(* What concatenation does to the predicates on queues.                    *)
LEMMA ToSetConcat ==
    ASSUME NEW S, NEW s \in Seq(S), NEW q \in Seq(S)
    PROVE  ToSet(s \o q) = ToSet(s) \cup ToSet(q)
<1>1. ASSUME NEW x \in ToSet(s \o q) PROVE x \in ToSet(s) \cup ToSet(q)
  BY <1>1 DEF ToSet
<1>2. ASSUME NEW x \in ToSet(s) PROVE x \in ToSet(s \o q)
  BY <1>2 DEF ToSet
<1>3. ASSUME NEW x \in ToSet(q) PROVE x \in ToSet(s \o q)
  <2>1. PICK i \in DOMAIN q : x = q[i]
    BY <1>3 DEF ToSet
  <2>2. Len(s) + i \in DOMAIN (s \o q) /\ (s \o q)[Len(s) + i] = x
    BY <2>1
  <2> QED
    BY <2>2 DEF ToSet
<1> QED
  BY <1>1, <1>2, <1>3

(* A batch appended to a queue carries an injection into it or does not.   *)
LEMMA InjectionConcat ==
    ASSUME NEW s \in Seq(Items), NEW q \in Seq(Items)
    PROVE  CarriesInjection(s \o q) <=> CarriesInjection(s) \/ CarriesInjection(q)
BY ToSetConcat DEF CarriesInjection

(* Nothing is queued in an emptied queue.                                  *)
LEMMA EmptyQueue ==
    /\ ~CarriesInjection(<<>>)
    /\ \A kind : ~HasKind(<<>>, kind)
BY DEF CarriesInjection, HasKind, ToSet

(* A batch of the model is a non-empty sequence of items.                  *)
LEMMA BatchType ==
    ASSUME TypeOK, NEW batch \in Batches
    PROVE  batch \in Seq(Items) /\ batch # <<>>
<1>1. PICK m \in 0..MaxBatch : batch \in [1..m -> unsent]
  BY DEF Batches, BoundedSeq, SeqOf
<1>2. m \in Nat /\ unsent \subseteq Items
  BY WatchAssumption DEF TypeOK
<1> QED
  BY <1>1, <1>2 DEF Batches

----------------------------------------------------------------------------
(* What the mailbox operations do to the invariant.                        *)

(* storeLocked keeps the types of the fields it writes.                    *)
LEMMA StoreTyped ==
    ASSUME MailboxTypeOK, NEW k \in Keys, NEW batch \in Seq(Items), Store(k, batch)
    PROVE  /\ items' \in [Keys -> Seq(Items)]
           /\ items'[k] = items[k] \o batch
           /\ \A j \in Keys \ {k} : items'[j] = items[j]
           /\ changed' = changed + 1
           /\ lastActivity' \in [key : Keys \cup {NoKey}, kind : Activities]
BY DEF MailboxTypeOK, Store, BatchActivity, Activities

(* Enqueue keeps the types and sets the injection bit with its items.      *)
LEMMA EnqueueKeeps ==
    ASSUME MailboxTypeOK, InjectionBitExact,
           NEW k \in Keys, NEW batch \in Seq(Items), Enqueue(k, batch)
    PROVE  MailboxTypeOK' /\ InjectionBitExact' /\ changed' = changed + 1
<1>1. Store(k, batch)
  BY DEF Enqueue
<1>2. MailboxTypeOK' /\ changed' = changed + 1
  BY <1>1, StoreTyped DEF Enqueue, MailboxTypeOK
<1>3. ASSUME NEW j \in Keys
      PROVE (j \in pendingInjections <=> CarriesInjection(items[j]))'
  <2>1. CASE j = k
    <3>1. items[k] \in Seq(Items)
      BY DEF MailboxTypeOK
    <3>2. items'[k] = items[k] \o batch
      BY <1>1, StoreTyped
    <3>3. CarriesInjection(items[k] \o batch) <=> CarriesInjection(items[k]) \/ CarriesInjection(batch)
      BY <3>1, InjectionConcat
    <3> QED
      BY <2>1, <3>2, <3>3 DEF InjectionBitExact, Enqueue
  <2>2. CASE j # k
    BY <1>1, <2>2, StoreTyped DEF InjectionBitExact, Enqueue
  <2> QED
    BY <2>1, <2>2
<1> QED
  BY <1>2, <1>3 DEF InjectionBitExact

(* Mail sets no injection bit and is no injection.                         *)
LEMMA DeliveryKeeps ==
    ASSUME MailboxTypeOK, InjectionBitExact,
           NEW k \in Keys, NEW i \in Items, IsMail(i),
           EnqueueIfAcceptingDelivery(k, <<i>>)
    PROVE  MailboxTypeOK' /\ InjectionBitExact' /\ changed' = changed + 1
<1>1. Store(k, <<i>>) /\ <<i>> \in Seq(Items)
  BY DEF EnqueueIfAcceptingDelivery
<1>2. MailboxTypeOK' /\ changed' = changed + 1
  <2>1. /\ items' \in [Keys -> Seq(Items)] /\ changed' = changed + 1
        /\ lastActivity' \in [key : Keys \cup {NoKey}, kind : Activities]
    BY <1>1, StoreTyped
  <2> QED
    BY <2>1 DEF EnqueueIfAcceptingDelivery, MailboxTypeOK
<1>3. ~CarriesInjection(<<i>>)
  BY DEF CarriesInjection, ToSet
<1>4. ASSUME NEW j \in Keys
      PROVE (j \in pendingInjections <=> CarriesInjection(items[j]))'
  <2>1. CASE j = k
    <3>1. items[k] \in Seq(Items)
      BY DEF MailboxTypeOK
    <3>2. items'[k] = items[k] \o <<i>>
      BY <1>1, StoreTyped
    <3>3. CarriesInjection(items[k] \o <<i>>) <=> CarriesInjection(items[k])
      BY <1>1, <1>3, <3>1, InjectionConcat
    <3> QED
      BY <2>1, <3>2, <3>3 DEF InjectionBitExact, EnqueueIfAcceptingDelivery
  <2>2. CASE j # k
    BY <1>1, <2>2, StoreTyped DEF InjectionBitExact, EnqueueIfAcceptingDelivery
  <2> QED
    BY <2>1, <2>2
<1> QED
  BY <1>2, <1>4 DEF InjectionBitExact

(* What the owning turn does shrinks queues and closes no channel: it can  *)
(* only make a watcher's input go away.                                    *)
LEMMA TurnOperationShrinks ==
    ASSUME MailboxTypeOK, NEW k \in Keys, TurnOperation(k)
    PROVE  /\ \/ Empty(k)
              \/ UNCHANGED <<items, pendingInjections>>
           /\ phases' \subseteq Keys /\ finishing' \subseteq Keys
           /\ UNCHANGED <<changed, lastActivity>>
BY DEF MailboxTypeOK, TurnOperation, DrainWithMetadata, Clear, FinishTakes, FinishCloses,
       BeginTurnFinish, ReleaseTurnFinish, SetMailboxDeliveryPhase

(* Drains, clears and finishes empty a queue together with its bit.        *)
LEMMA TurnOperationKeeps ==
    ASSUME MailboxTypeOK, InjectionBitExact, NEW k \in Keys, TurnOperation(k)
    PROVE  MailboxTypeOK' /\ InjectionBitExact' /\ changed' = changed
<1>1. CASE Empty(k)
  <2>1. items' \in [Keys -> Seq(Items)] /\ pendingInjections' \subseteq Keys
    BY <1>1 DEF Empty, MailboxTypeOK
  <2>2. MailboxTypeOK'
    BY <2>1, TurnOperationShrinks DEF MailboxTypeOK
  <2>3. InjectionBitExact'
    BY <1>1, EmptyQueue DEF Empty, InjectionBitExact, MailboxTypeOK
  <2> QED
    BY <2>2, <2>3, TurnOperationShrinks
<1>2. CASE UNCHANGED <<items, pendingInjections>>
  BY <1>2, TurnOperationShrinks DEF MailboxTypeOK, InjectionBitExact
<1> QED
  BY <1>1, <1>2, TurnOperationShrinks

(* No drain, clear or finish makes input appear.                           *)
LEMMA TurnOperationAddsNothing ==
    ASSUME MailboxTypeOK, NEW k \in Keys, TurnOperation(k), NEW j \in Keys
    PROVE  /\ HasPendingUserInput(j)' => HasPendingUserInput(j)
           /\ (PendingActivity(j) # "none")' => PendingActivity(j) # "none"
           /\ (PendingActivity(j) = "steer")' => PendingActivity(j) = "steer"
<1>1. CASE Empty(k) /\ j = k
  <2>1. items'[j] = <<>> /\ j \notin pendingInjections'
    BY <1>1 DEF Empty, MailboxTypeOK
  <2> QED
    BY <2>1, EmptyQueue DEF HasPendingUserInput, PendingActivity
<1>2. CASE (Empty(k) /\ j # k) \/ UNCHANGED <<items, pendingInjections>>
  <2>1. items'[j] = items[j] /\ (j \in pendingInjections' <=> j \in pendingInjections)
    BY <1>2 DEF Empty, MailboxTypeOK
  <2> QED
    BY <2>1 DEF HasPendingUserInput, PendingActivity
<1> QED
  BY <1>1, <1>2, TurnOperationShrinks

----------------------------------------------------------------------------
(* The inductive invariant.                                                *)

(* The invariant holds of an empty mailbox nobody watches.                 *)
LEMMA InitEstablishes == Init => IInv
<1> SUFFICES ASSUME Init PROVE IInv
  OBVIOUS
<1>1. TypeOK
  BY DEF Init, MailboxInit, TypeOK, MailboxTypeOK, Activities, WatcherPC, WaiterPC, Outcomes
<1>2. InjectionBitExact
  BY EmptyQueue DEF Init, MailboxInit, InjectionBitExact
<1>3. GenerationsExist
  BY DEF Init, MailboxInit, GenerationsExist
<1>4. NoLostWakeup /\ NoLostWait
  BY DEF Init, NoLostWakeup, NoLostWait
<1> QED
  BY <1>1, <1>2, <1>3, <1>4 DEF IInv

(* A write closes the channel every sleeper holds, whatever it queued.     *)
LEMMA WriteKeeps ==
    ASSUME IInv, MailboxTypeOK', InjectionBitExact', changed' = changed + 1,
           NEW k \in Keys, NEW batch \in Seq(Items), Wrote(k, batch)
    PROVE  IInv'
<1>1. TypeOK'
  <2>1. BatchActivity(batch) \in Activities
    BY DEF BatchActivity, Activities
  <2>2. written' \in Seq([key : Keys, kind : Activities])
    BY <2>1 DEF IInv, TypeOK, Wrote
  <2> QED
    BY <2>2 DEF IInv, TypeOK, Wrote
<1>2. /\ \A w \in Watchers : watcher'[w].gen < changed'
      /\ \A w \in Waiters : waiter'[w].gen < changed'
  BY DEF IInv, TypeOK, MailboxTypeOK, GenerationsExist, Wrote
<1>3. GenerationsExist'
  BY <1>1, <1>2 DEF GenerationsExist, TypeOK, MailboxTypeOK
<1>4. NoLostWakeup' /\ NoLostWait'
  BY <1>1, <1>2 DEF NoLostWakeup, NoLostWait, ChannelClosed, TypeOK, MailboxTypeOK
<1> QED
  BY <1>1, <1>3, <1>4 DEF IInv

(* What the turn removes can only make a sleeper's input go away.          *)
LEMMA ConsumeKeeps ==
    ASSUME IInv, NEW k \in Keys, Consume(k)
    PROVE  IInv'
<1>1. TurnOperation(k) /\ UNCHANGED watcherVars
  BY DEF Consume
<1>2. MailboxTypeOK' /\ InjectionBitExact' /\ changed' = changed
  BY <1>1, TurnOperationKeeps DEF IInv, TypeOK
<1>3. TypeOK'
  BY <1>1, <1>2 DEF IInv, TypeOK, watcherVars
<1>4. GenerationsExist'
  BY <1>1, <1>2 DEF IInv, GenerationsExist, watcherVars
<1>5. ASSUME NEW j \in Keys
      PROVE  /\ HasPendingUserInput(j)' => HasPendingUserInput(j)
             /\ (PendingActivity(j) # "none")' => PendingActivity(j) # "none"
             /\ (PendingActivity(j) = "steer")' => PendingActivity(j) = "steer"
  BY <1>1, TurnOperationAddsNothing DEF IInv, TypeOK
<1>6. NoLostWakeup'
  <2> SUFFICES ASSUME NEW w \in Watchers, watcher'[w].pc = "sleeping", Matches(w)'
               PROVE  ChannelClosed(watcher[w].gen)'
    BY DEF NoLostWakeup
  <2>1. WatchKey[w] \in Keys
    BY WatchAssumption
  <2>2. Matches(w)
    BY <1>5, <2>1 DEF Matches
  <2> QED
    BY <1>1, <1>2, <2>2 DEF IInv, NoLostWakeup, ChannelClosed, watcherVars
<1>7. NoLostWait'
  <2> SUFFICES ASSUME NEW w \in Waiters, waiter'[w].pc = "sleeping",
                      (PendingActivity(WaitKey[w]) # "none")'
               PROVE  ChannelClosed(waiter[w].gen)'
    BY DEF NoLostWait
  <2>1. WaitKey[w] \in Keys
    BY WatchAssumption
  <2>2. PendingActivity(WaitKey[w]) # "none"
    BY <1>5, <2>1
  <2> QED
    BY <1>1, <1>2, <2>2 DEF IInv, NoLostWait, ChannelClosed, watcherVars
<1> QED
  BY <1>2, <1>3, <1>4, <1>6, <1>7 DEF IInv

(* A sleeper subscribes to the current generation in the critical section  *)
(* of its check, so it goes to sleep only with nothing to wake for.        *)
LEMMA WatcherStepKeeps ==
    ASSUME IInv, NEW w \in Watchers, WatcherStep(w)
    PROVE  IInv'
<1>1. UNCHANGED mailboxVars /\ UNCHANGED <<unsent, waiter, written>>
  BY DEF WatcherStep, StartWatch, WakeWatch, StopWatch
<1>2. /\ \A v \in Watchers \ {w} : watcher'[v] = watcher[v]
      /\ watcher' \in [Watchers -> [pc : WatcherPC, gen : Nat]]
      /\ \/ watcher'[w] = [pc |-> "signalled", gen |-> changed]
         \/ ~Matches(w) /\ watcher'[w] = [pc |-> "sleeping", gen |-> changed]
         \/ watcher'[w] = [pc |-> "off", gen |-> watcher[w].gen]
  <2>1. watcher \in [Watchers -> [pc : WatcherPC, gen : Nat]] /\ changed \in Nat
    BY DEF IInv, TypeOK, MailboxTypeOK
  <2>2. CASE StartWatch(w)
    BY <2>1, <2>2 DEF StartWatch, WatcherPC
  <2>3. CASE WakeWatch(w)
    BY <2>1, <2>3 DEF WakeWatch, WatcherPC
  <2>4. CASE StopWatch(w)
    BY <2>1, <2>4 DEF StopWatch, WatcherPC
  <2> QED
    BY <2>2, <2>3, <2>4 DEF WatcherStep
<1>3. changed \in Nat /\ \A v \in Watchers : (Matches(v) <=> Matches(v)')
  BY <1>1 DEF IInv, TypeOK, MailboxTypeOK, mailboxVars, Matches, HasPendingUserInput, PendingActivity
<1>4. TypeOK'
  BY <1>1, <1>2 DEF IInv, TypeOK, MailboxTypeOK, mailboxVars
<1>5. InjectionBitExact' /\ NoLostWait'
  BY <1>1 DEF IInv, InjectionBitExact, NoLostWait, PendingActivity, ChannelClosed, mailboxVars
<1>6. GenerationsExist'
  <2>1. watcher'[w].gen \in {watcher[w].gen, changed}
    BY <1>2
  <2> QED
    BY <1>1, <1>2, <1>3, <2>1 DEF IInv, GenerationsExist, mailboxVars
<1>7. NoLostWakeup'
  <2> SUFFICES ASSUME NEW v \in Watchers, watcher'[v].pc = "sleeping", Matches(v)'
               PROVE  ChannelClosed(watcher[v].gen)'
    BY DEF NoLostWakeup
  <2>1. CASE v = w
    BY <1>2, <1>3, <2>1
  <2>2. CASE v # w
    BY <1>1, <1>2, <1>3, <2>2 DEF IInv, NoLostWakeup, ChannelClosed, mailboxVars
  <2> QED
    BY <2>1, <2>2
<1> QED
  BY <1>4, <1>5, <1>6, <1>7 DEF IInv

(* A waiter subscribes and checks its named turn in one critical section.  *)
LEMMA WaiterStepKeeps ==
    ASSUME IInv, NEW w \in Waiters, WaiterStep(w)
    PROVE  IInv'
<1>1. UNCHANGED mailboxVars /\ UNCHANGED <<unsent, watcher, written>>
  BY DEF WaiterStep, SubscribeActivity, WakeWait, ReadLastActivity, TimeOut
<1>2. /\ \A v \in Waiters \ {w} : waiter'[v] = waiter[v]
      /\ waiter' \in [Waiters -> [pc : WaiterPC, gen : Nat, outcome : Outcomes]]
      /\ waiter'[w].gen \in {waiter[w].gen, changed}
      /\ waiter'[w].pc = "sleeping" =>
            PendingActivity(WaitKey[w]) = "none" /\ waiter'[w].gen = changed
  <2>1. waiter \in [Waiters -> [pc : WaiterPC, gen : Nat, outcome : Outcomes]] /\ changed \in Nat
    BY DEF IInv, TypeOK, MailboxTypeOK
  <2>2. \A a : OutcomeOf(a) \in Outcomes
    BY DEF OutcomeOf, Outcomes
  <2>3. CASE SubscribeActivity(w)
    BY <2>1, <2>2, <2>3 DEF SubscribeActivity, WaiterPC, Outcomes
  <2>4. CASE WakeWait(w)
    BY <2>1, <2>4 DEF WakeWait, WaiterPC
  <2>5. CASE ReadLastActivity(w)
    BY <2>1, <2>2, <2>5 DEF ReadLastActivity, WaiterPC
  <2>6. CASE TimeOut(w)
    BY <2>1, <2>6 DEF TimeOut, WaiterPC, Outcomes
  <2> QED
    BY <2>3, <2>4, <2>5, <2>6 DEF WaiterStep
<1>3. \A k \in Keys : PendingActivity(k)' = PendingActivity(k)
  BY <1>1 DEF mailboxVars, PendingActivity
<1>4. TypeOK'
  BY <1>1, <1>2 DEF IInv, TypeOK, MailboxTypeOK, mailboxVars
<1>5. InjectionBitExact' /\ NoLostWakeup'
  BY <1>1 DEF IInv, InjectionBitExact, NoLostWakeup, Matches, HasPendingUserInput,
              PendingActivity, ChannelClosed, mailboxVars
<1>6. GenerationsExist'
  <2>1. changed \in Nat /\ changed' = changed /\ watcher' = watcher
    BY <1>1 DEF IInv, TypeOK, MailboxTypeOK, mailboxVars
  <2>2. \A v \in Waiters : waiter'[v].gen <= changed
    BY <1>2, <2>1 DEF IInv, GenerationsExist
  <2> QED
    BY <2>1, <2>2 DEF IInv, GenerationsExist
<1>7. NoLostWait'
  <2> SUFFICES ASSUME NEW v \in Waiters, waiter'[v].pc = "sleeping",
                      (PendingActivity(WaitKey[v]) # "none")'
               PROVE  ChannelClosed(waiter[v].gen)'
    BY DEF NoLostWait
  <2>1. WaitKey[v] \in Keys
    BY WatchAssumption
  <2>2. CASE v = w
    BY <1>2, <1>3, <2>1, <2>2
  <2>3. CASE v # w
    BY <1>1, <1>2, <1>3, <2>1, <2>3 DEF IInv, NoLostWait, ChannelClosed, mailboxVars
  <2> QED
    BY <2>2, <2>3
<1> QED
  BY <1>4, <1>5, <1>6, <1>7 DEF IInv

(* Every step of the mailbox, its writers and its sleepers keeps the       *)
(* invariant.                                                              *)
LEMMA StepKeeps == IInv /\ [Next]_vars => IInv'
<1> SUFFICES ASSUME IInv, [Next]_vars PROVE IInv'
  OBVIOUS
<1>0. MailboxTypeOK /\ TypeOK /\ InjectionBitExact
  BY DEF IInv, TypeOK
<1>1. ASSUME NEW k \in Keys, SendInput(k) PROVE IInv'
  <2>1. PICK batch \in Batches : Enqueue(k, batch) /\ Wrote(k, batch)
    BY <1>1 DEF SendInput
  <2>2. batch \in Seq(Items)
    BY <1>0, BatchType
  <2>3. MailboxTypeOK' /\ InjectionBitExact' /\ changed' = changed + 1
    BY <1>0, <2>1, <2>2, EnqueueKeeps
  <2> QED
    BY <2>1, <2>2, <2>3, WriteKeeps
<1>2. ASSUME NEW k \in Keys, DeliverMail(k) PROVE IInv'
  <2>1. PICK i \in unsent : IsMail(i) /\ EnqueueIfAcceptingDelivery(k, <<i>>) /\ Wrote(k, <<i>>)
    BY <1>2 DEF DeliverMail
  <2>2. i \in Items /\ <<i>> \in Seq(Items)
    BY <1>0 DEF TypeOK
  <2>3. MailboxTypeOK' /\ InjectionBitExact' /\ changed' = changed + 1
    BY <1>0, <2>1, <2>2, DeliveryKeeps
  <2> QED
    BY <2>1, <2>2, <2>3, WriteKeeps
<1>3. ASSUME NEW k \in Keys, Consume(k) PROVE IInv'
  BY <1>3, ConsumeKeeps
<1>4. ASSUME NEW w \in Watchers, WatcherStep(w) PROVE IInv'
  BY <1>4, WatcherStepKeeps
<1>5. ASSUME NEW w \in Waiters, WaiterStep(w) PROVE IInv'
  BY <1>5, WaiterStepKeeps
<1>6. CASE UNCHANGED vars
  <2>1. UNCHANGED mailboxVars /\ UNCHANGED watcherVars
    BY <1>6 DEF vars
  <2>2. TypeOK' /\ InjectionBitExact' /\ GenerationsExist'
    BY <2>1 DEF IInv, TypeOK, MailboxTypeOK, InjectionBitExact, GenerationsExist, mailboxVars, watcherVars
  <2>3. NoLostWakeup' /\ NoLostWait'
    BY <2>1 DEF IInv, NoLostWakeup, NoLostWait, Matches, HasPendingUserInput, PendingActivity,
                ChannelClosed, mailboxVars, watcherVars
  <2> QED
    BY <2>2, <2>3 DEF IInv
<1> QED
  BY <1>1, <1>2, <1>3, <1>4, <1>5, <1>6 DEF Next

----------------------------------------------------------------------------
(* The inductive invariant holds in every reachable state of the mailbox   *)
(* with its watchers and waiters.                                          *)
THEOREM InductiveInvariant == Spec => []IInv
BY InitEstablishes, StepKeeps, PTL DEF Spec

(* Every reachable state is well typed.                                    *)
THEOREM TypeCorrect == Spec => []TypeOK
<1>1. IInv => TypeOK
  BY DEF IInv
<1> QED
  BY <1>1, InductiveInvariant, PTL

(* The injection bit of SteerMailbox is exact: it is set iff a queued item *)
(* is something other than agent mail.                                     *)
THEOREM InjectionBitIsExact == Spec => []InjectionBitExact
<1>1. IInv => InjectionBitExact
  BY DEF IInv
<1> QED
  BY <1>1, InductiveInvariant, PTL

(* No step watcher sleeps on the open change channel while the input it    *)
(* watches for is queued (WatchUserInput, WatchActivity, WatchSteer).      *)
THEOREM WakeupsAreNotLost == Spec => []NoLostWakeup
<1>1. IInv => NoLostWakeup
  BY DEF IInv
<1> QED
  BY <1>1, InductiveInvariant, PTL

(* No input waiter sleeps on the open change channel while its named turn  *)
(* has activity pending (WaitForInputActivity).                            *)
THEOREM WaitsAreNotLost == Spec => []NoLostWait
<1>1. IInv => NoLostWait
  BY DEF IInv
<1> QED
  BY <1>1, InductiveInvariant, PTL

----------------------------------------------------------------------------
(* What a waiter reports was written.                                      *)

(* The published activity is that of some write.                           *)
LastActivityWritten ==
    lastActivity.key # NoKey => \E i \in DOMAIN written : written[i] = lastActivity

(* What is pending for a turn was written to it with that activity.        *)
PendingWritten ==
    \A k \in Keys : PendingActivity(k) # "none" =>
        \E i \in DOMAIN written :
            written[i].key = k /\ OutcomeOf(written[i].kind) = OutcomeOf(PendingActivity(k))

JInv == LastActivityWritten /\ PendingWritten /\ OutcomeJustified

(* What the activity of one batch makes of the turn's pending activity.    *)
LEMMA PendingAfterWrite ==
    ASSUME MailboxTypeOK, NEW k \in Keys, NEW batch \in Seq(Items), batch # <<>>,
           \/ Enqueue(k, batch)
           \/ ~CarriesInjection(batch) /\ EnqueueIfAcceptingDelivery(k, batch),
           NEW j \in Keys, PendingActivity(j)' # "none"
    PROVE  \/ PendingActivity(j) = PendingActivity(j)'
           \/ j = k /\ OutcomeOf(BatchActivity(batch)) = OutcomeOf(PendingActivity(j)')
<1>1. Store(k, batch)
  BY DEF Enqueue, EnqueueIfAcceptingDelivery
<1>2. pendingInjections' = IF CarriesInjection(batch) THEN pendingInjections \cup {k}
                           ELSE pendingInjections
  BY DEF Enqueue, EnqueueIfAcceptingDelivery
<1>3. CASE j # k
  <2>1. items'[j] = items[j] /\ (j \in pendingInjections' <=> j \in pendingInjections)
    BY <1>1, <1>2, <1>3, StoreTyped
  <2> QED
    BY <2>1 DEF PendingActivity
<1>4. CASE j = k /\ CarriesInjection(batch)
  <2>1. PendingActivity(j)' = "steer"
    BY <1>2, <1>4 DEF PendingActivity
  <2> QED
    BY <1>4, <2>1 DEF BatchActivity
<1>5. CASE j = k /\ ~CarriesInjection(batch)
  <2>1. BatchActivity(batch) = "mailbox"
    BY <1>5 DEF BatchActivity
  <2>2. ToSet(items'[j]) = ToSet(items[j]) \cup ToSet(batch)
    <3>1. items[k] \in Seq(Items) /\ items'[k] = items[k] \o batch
      BY <1>1, StoreTyped DEF MailboxTypeOK
    <3>2. ToSet(items[k] \o batch) = ToSet(items[k]) \cup ToSet(batch)
      BY <3>1, ToSetConcat
    <3> QED
      BY <1>5, <3>1, <3>2
  <2>3. \A i \in ToSet(batch) : KindOf[i] = "mail"
    BY <1>5 DEF CarriesInjection, IsMail
  <2>4. PendingActivity(j)' = "steer" => PendingActivity(j) = "steer"
    BY <1>2, <1>5, <2>2, <2>3 DEF PendingActivity, HasKind
  <2>5. PendingActivity(j)' \in {"steer", "mailbox"}
    BY DEF PendingActivity
  <2> QED
    BY <1>5, <2>1, <2>4, <2>5 DEF OutcomeOf
<1> QED
  BY <1>3, <1>4, <1>5

(* The history only grows.                                                 *)
LEMMA WrittenGrows ==
    ASSUME TypeOK, NEW k \in Keys, NEW batch \in Seq(Items), Wrote(k, batch)
    PROVE  /\ \A i \in DOMAIN written : i \in DOMAIN written' /\ written'[i] = written[i]
           /\ \E i \in DOMAIN written' : written'[i] = [key |-> k, kind |-> BatchActivity(batch)]
<1> DEFINE e == [key |-> k, kind |-> BatchActivity(batch)]
<1>1. e \in [key : Keys, kind : Activities]
  BY DEF BatchActivity, Activities
<1>2. written \in Seq([key : Keys, kind : Activities]) /\ written' = Append(written, e)
  BY DEF TypeOK, Wrote
<1>3. /\ Len(written') = Len(written) + 1 /\ DOMAIN written' = 1..Len(written')
      /\ \A i \in 1..Len(written) : written'[i] = written[i]
      /\ written'[Len(written) + 1] = e
  BY <1>1, <1>2
<1>4. DOMAIN written = 1..Len(written) /\ Len(written) \in Nat
  BY <1>2
<1> QED
  BY <1>3, <1>4

(* A write justifies the activity it publishes and what it makes pending.  *)
LEMMA WriteJustifies ==
    ASSUME TypeOK, JInv, NEW k \in Keys, NEW batch \in Seq(Items), batch # <<>>, Wrote(k, batch),
           \/ Enqueue(k, batch)
           \/ ~CarriesInjection(batch) /\ EnqueueIfAcceptingDelivery(k, batch)
    PROVE  JInv'
<1>1. lastActivity' = [key |-> k, kind |-> BatchActivity(batch)]
  BY DEF Enqueue, EnqueueIfAcceptingDelivery, Store
<1>2. LastActivityWritten'
  BY <1>1, WrittenGrows DEF LastActivityWritten
<1>3. PendingWritten'
  <2> SUFFICES ASSUME NEW j \in Keys, PendingActivity(j)' # "none"
               PROVE  \E i \in DOMAIN written' :
                          /\ written'[i].key = j
                          /\ OutcomeOf(written'[i].kind) = OutcomeOf(PendingActivity(j)')
    BY DEF PendingWritten, OutcomeOf
  <2>1. CASE PendingActivity(j) = PendingActivity(j)'
    <3>1. PICK i \in DOMAIN written :
              written[i].key = j /\ OutcomeOf(written[i].kind) = OutcomeOf(PendingActivity(j))
      BY <2>1 DEF JInv, PendingWritten
    <3> QED
      BY <2>1, <3>1, WrittenGrows
  <2>2. CASE j = k /\ OutcomeOf(BatchActivity(batch)) = OutcomeOf(PendingActivity(j)')
    <3>1. PICK i \in DOMAIN written' : written'[i] = [key |-> k, kind |-> BatchActivity(batch)]
      BY WrittenGrows
    <3> QED
      BY <2>2, <3>1
  <2> QED
    BY <2>1, <2>2, PendingAfterWrite DEF TypeOK
<1>4. OutcomeJustified'
  <2>1. waiter' = waiter
    BY DEF Wrote
  <2> QED
    BY <2>1, WrittenGrows DEF JInv, OutcomeJustified, OutcomeOf
<1> QED
  BY <1>2, <1>3, <1>4 DEF JInv

(* A waiter takes its outcome from what is pending for its turn, or from   *)
(* the published activity of its thread.                                   *)
LEMMA WaiterJustifies ==
    ASSUME TypeOK, JInv, NEW w \in Waiters, WaiterStep(w)
    PROVE  JInv'
<1> DEFINE Justified(outcome) ==
      \E i \in DOMAIN written : /\ KeyThread(written[i].key) = KeyThread(WaitKey[w])
                               /\ OutcomeOf(written[i].kind) = outcome
<1>1. UNCHANGED mailboxVars /\ UNCHANGED <<unsent, watcher, written>>
  BY DEF WaiterStep, SubscribeActivity, WakeWait, ReadLastActivity, TimeOut
<1>2. LastActivityWritten' /\ PendingWritten'
  BY <1>1 DEF JInv, LastActivityWritten, PendingWritten, PendingActivity, OutcomeOf, mailboxVars
<1>3. waiter \in [Waiters -> [pc : WaiterPC, gen : Nat, outcome : Outcomes]] /\ WaitKey[w] \in Keys
  BY WatchAssumption DEF TypeOK
<1>4. \A v \in Waiters \ {w} : waiter'[v].outcome = waiter[v].outcome
  BY <1>3 DEF WaiterStep, SubscribeActivity, WakeWait, ReadLastActivity, TimeOut
<1>5. \/ waiter'[w].outcome \in {"pending", "timedOut", waiter[w].outcome}
      \/ Justified(waiter'[w].outcome)
  <2>1. CASE SubscribeActivity(w)
    <3>1. CASE PendingActivity(WaitKey[w]) # "none"
      <4>1. waiter'[w].outcome = OutcomeOf(PendingActivity(WaitKey[w]))
        BY <1>3, <2>1, <3>1 DEF SubscribeActivity
      <4>2. Justified(OutcomeOf(PendingActivity(WaitKey[w])))
        BY <1>3, <3>1 DEF JInv, PendingWritten
      <4> QED
        BY <4>1, <4>2
    <3>2. CASE PendingActivity(WaitKey[w]) = "none"
      BY <1>3, <2>1, <3>2 DEF SubscribeActivity
    <3> QED
      BY <3>1, <3>2
  <2>2. CASE ReadLastActivity(w)
    <3> DEFINE activity == LastActivityFor(KeyThread(WaitKey[w]))
    <3>1. CASE activity # "none"
      <4>1. waiter'[w].outcome = OutcomeOf(activity)
        BY <1>3, <2>2, <3>1 DEF ReadLastActivity
      <4>2. lastActivity.key # NoKey /\ KeyThread(lastActivity.key) = KeyThread(WaitKey[w])
            /\ activity = lastActivity.kind
        BY <3>1 DEF LastActivityFor
      <4>3. Justified(OutcomeOf(activity))
        BY <4>2 DEF JInv, LastActivityWritten
      <4> QED
        BY <4>1, <4>3
    <3>2. CASE activity = "none"
      BY <1>3, <2>2, <3>2 DEF ReadLastActivity
    <3> QED
      BY <3>1, <3>2
  <2>3. CASE WakeWait(w) \/ TimeOut(w)
    BY <1>3, <2>3 DEF WakeWait, TimeOut
  <2> QED
    BY <2>1, <2>2, <2>3 DEF WaiterStep
<1>6. OutcomeJustified'
  BY <1>1, <1>4, <1>5 DEF JInv, OutcomeJustified
<1> QED
  BY <1>2, <1>6 DEF JInv

(* Drains and watchers justify nothing and need nothing justified.         *)
LEMMA JStep == TypeOK /\ JInv /\ [Next]_vars => JInv'
<1> SUFFICES ASSUME TypeOK, JInv, [Next]_vars PROVE JInv'
  OBVIOUS
<1>0. MailboxTypeOK
  BY DEF TypeOK
<1>1. ASSUME NEW k \in Keys, SendInput(k) PROVE JInv'
  <2>1. PICK batch \in Batches : Enqueue(k, batch) /\ Wrote(k, batch)
    BY <1>1 DEF SendInput
  <2> QED
    BY <2>1, BatchType, WriteJustifies
<1>2. ASSUME NEW k \in Keys, DeliverMail(k) PROVE JInv'
  <2>1. PICK i \in unsent : IsMail(i) /\ EnqueueIfAcceptingDelivery(k, <<i>>) /\ Wrote(k, <<i>>)
    BY <1>2 DEF DeliverMail
  <2>2. i \in Items
    BY DEF TypeOK
  <2>3. <<i>> \in Seq(Items) /\ <<i>> # <<>> /\ ~CarriesInjection(<<i>>)
    BY <2>1, <2>2 DEF CarriesInjection, ToSet
  <2> QED
    BY <2>1, <2>3, WriteJustifies
<1>3. ASSUME NEW k \in Keys, Consume(k) PROVE JInv'
  <2>1. TurnOperation(k) /\ UNCHANGED watcherVars
    BY <1>3 DEF Consume
  <2>2. UNCHANGED <<lastActivity, written, waiter>>
    BY <1>0, <2>1, TurnOperationShrinks DEF watcherVars
  <2>3. \A j \in Keys : PendingActivity(j)' # "none" => PendingActivity(j)' = PendingActivity(j)
    <3> SUFFICES ASSUME NEW j \in Keys, PendingActivity(j)' # "none"
                 PROVE  PendingActivity(j)' = PendingActivity(j)
      OBVIOUS
    <3>1. CASE Empty(k) /\ j = k
      <4>1. items'[j] = <<>> /\ j \notin pendingInjections'
        BY <1>0, <3>1 DEF Empty, MailboxTypeOK
      <4> QED
        BY <4>1, EmptyQueue DEF PendingActivity
    <3>2. CASE (Empty(k) /\ j # k) \/ UNCHANGED <<items, pendingInjections>>
      <4>1. items'[j] = items[j] /\ (j \in pendingInjections' <=> j \in pendingInjections)
        BY <1>0, <3>2 DEF Empty, MailboxTypeOK
      <4> QED
        BY <4>1 DEF PendingActivity
    <3> QED
      BY <1>0, <2>1, <3>1, <3>2, TurnOperationShrinks
  <2>4. LastActivityWritten' /\ OutcomeJustified'
    BY <2>2 DEF JInv, LastActivityWritten, OutcomeJustified
  <2>5. PendingWritten'
    <3> SUFFICES ASSUME NEW j \in Keys, PendingActivity(j)' # "none"
                 PROVE  \E i \in DOMAIN written' :
                            /\ written'[i].key = j
                            /\ OutcomeOf(written'[i].kind) = OutcomeOf(PendingActivity(j)')
      BY DEF PendingWritten, OutcomeOf
    <3> QED
      BY <2>2, <2>3 DEF JInv, PendingWritten
  <2> QED
    BY <2>4, <2>5 DEF JInv
<1>4. ASSUME NEW w \in Watchers, WatcherStep(w) PROVE JInv'
  <2>1. UNCHANGED mailboxVars /\ UNCHANGED <<unsent, waiter, written>>
    BY <1>4 DEF WatcherStep, StartWatch, WakeWatch, StopWatch
  <2> QED
    BY <2>1 DEF JInv, LastActivityWritten, PendingWritten, OutcomeJustified, PendingActivity,
       OutcomeOf, mailboxVars
<1>5. ASSUME NEW w \in Waiters, WaiterStep(w) PROVE JInv'
  BY <1>5, WaiterJustifies
<1>6. CASE UNCHANGED vars
  BY <1>6 DEF JInv, LastActivityWritten, PendingWritten, OutcomeJustified, PendingActivity,
     OutcomeOf, vars, mailboxVars, watcherVars
<1> QED
  BY <1>1, <1>2, <1>3, <1>4, <1>5, <1>6 DEF Next

(* WaitForInputActivity with LastActivityFor: no waiter reports activity   *)
(* that nobody wrote to its thread, or activity of the other kind.         *)
THEOREM OutcomesAreJustified == Spec => []OutcomeJustified
<1>1. Init => JInv
  <2> SUFFICES ASSUME Init PROVE JInv
    OBVIOUS
  <2>1. \A k \in Keys : PendingActivity(k) = "none"
    BY EmptyQueue DEF Init, MailboxInit, PendingActivity
  <2> QED
    BY <2>1 DEF Init, MailboxInit, JInv, LastActivityWritten, PendingWritten, OutcomeJustified
<1>2. JInv => OutcomeJustified
  BY DEF JInv
<1> QED
  BY <1>1, <1>2, JStep, TypeCorrect, PTL DEF Spec
=============================================================================
