--------------------------- MODULE MailboxWatchers ---------------------------
(***************************************************************************)
(* The goroutines that sleep on the mailbox's change signal while writers  *)
(* and a drainer use the same queues:                                      *)
(*                                                                         *)
(*   - step watchers (WatchUserInput, WatchActivity, WatchSteer), which    *)
(*     cancel a yield signal once matching input is queued for their turn; *)
(*   - input waiters (WaitForInputActivity), which start from one turn's   *)
(*     queue and then follow a whole thread.                               *)
(*                                                                         *)
(* A sleeper holds the generation of the channel it subscribed to; the     *)
(* channel is closed once `changed` has moved past that generation.        *)
(***************************************************************************)
EXTENDS SteerMailbox, FiniteSets

CONSTANTS
    Watchers,       \* step watchers
    WatchKey,       \* the queue each watcher observes
    WatchFor,       \* "user", "activity" or "steer": the predicate it applies
    Waiters,        \* callers of WaitForInputActivity
    WaitKey,        \* the thread and named turn of each caller
    MaxBatch        \* bound on the items of one enqueue (model bound)

ASSUME WatchAssumption ==
    /\ WatchKey \in [Watchers -> Keys]
    /\ WatchFor \in [Watchers -> {"user", "activity", "steer"}]
    /\ WaitKey \in [Waiters -> Keys]
    /\ MaxBatch \in Nat

VARIABLES
    unsent,     \* items no writer has queued yet
    watcher,    \* watcher -> [pc, gen]
    waiter,     \* waiter -> [pc, gen, outcome]
    written     \* history: the key and activity of every write, oldest first

watcherVars == <<unsent, watcher, waiter, written>>
vars == <<mailboxVars, watcherVars>>

WatcherPC == {"off", "sleeping", "signalled"}
WaiterPC == {"start", "check", "sleeping", "woken", "done"}
Outcomes == {"pending", "timedOut", "mailbox", "steered"}

(* What each watcher looks for, evaluated under the mailbox lock.          *)
Matches(w) ==
    CASE WatchFor[w] = "user" -> HasPendingUserInput(WatchKey[w])
      [] WatchFor[w] = "steer" -> PendingActivity(WatchKey[w]) = "steer"
      [] OTHER -> PendingActivity(WatchKey[w]) # "none"

(* inputWaitOutcomeForActivity; "none" ends no wait.                       *)
OutcomeOf(activity) == IF activity = "mailbox" THEN "mailbox" ELSE "steered"

ChannelClosed(gen) == changed > gen

----------------------------------------------------------------------------
Init ==
    /\ MailboxInit
    /\ unsent = Items
    /\ watcher = [w \in Watchers |-> [pc |-> "off", gen |-> 0]]
    /\ waiter = [w \in Waiters |-> [pc |-> "start", gen |-> 0, outcome |-> "pending"]]
    /\ written = <<>>

(* The writers.  Only inter-agent mail takes the accepting path.           *)
Batches == {q \in BoundedSeq(unsent, MaxBatch) : q # <<>> /\ IsInjective(q)}

Wrote(k, batch) ==
    /\ unsent' = unsent \ ToSet(batch)
    /\ written' = Append(written, [key |-> k, kind |-> BatchActivity(batch)])
    /\ UNCHANGED <<watcher, waiter>>

SendInput(k) == \E batch \in Batches : Enqueue(k, batch) /\ Wrote(k, batch)

DeliverMail(k) ==
    \E i \in unsent :
        /\ IsMail(i)
        /\ EnqueueIfAcceptingDelivery(k, <<i>>)
        /\ Wrote(k, <<i>>)

(* The turn that owns the queue: drains, clears, finishes, changes phase.  *)
TurnOperation(k) ==
    \/ DrainWithMetadata(k)
    \/ Clear(k)
    \/ FinishTakes(k)
    \/ FinishCloses(k)
    \/ BeginTurnFinish(k)
    \/ ReleaseTurnFinish(k)
    \/ \E phase \in {"CurrentTurn", "NextTurn"} : SetMailboxDeliveryPhase(k, phase)

Consume(k) == TurnOperation(k) /\ UNCHANGED watcherVars

(* Subscribe and first check, one critical section.                        *)
StartWatch(w) ==
    /\ watcher[w].pc = "off"
    /\ watcher' = [watcher EXCEPT ![w] =
          IF Matches(w) THEN [pc |-> "signalled", gen |-> changed]
                        ELSE [pc |-> "sleeping", gen |-> changed]]
    /\ UNCHANGED <<mailboxVars, unsent, waiter, written>>

(* Mutant: the goroutine takes the replacement channel without rechecking. *)
WakeWithoutRecheck(w) ==
    /\ watcher[w].pc = "sleeping"
    /\ ChannelClosed(watcher[w].gen)
    /\ watcher' = [watcher EXCEPT ![w].gen = changed]
    /\ UNCHANGED <<mailboxVars, unsent, waiter, written>>

(* The goroutine wakes, rechecks and takes the replacement channel.        *)
WakeWatch(w) ==
    /\ watcher[w].pc = "sleeping"
    /\ ChannelClosed(watcher[w].gen)
    /\ watcher' = [watcher EXCEPT ![w] =
          IF Matches(w) THEN [pc |-> "signalled", gen |-> changed]
                        ELSE [pc |-> "sleeping", gen |-> changed]]
    /\ UNCHANGED <<mailboxVars, unsent, waiter, written>>

(* The returned function stops the watcher when the step ends.             *)
StopWatch(w) ==
    /\ watcher[w].pc # "off"
    /\ watcher' = [watcher EXCEPT ![w].pc = "off"]
    /\ UNCHANGED <<mailboxVars, unsent, waiter, written>>

(* Mutant: the caller sleeps without looking at its turn's queue.          *)
SubscribeUnchecked(w) ==
    /\ waiter[w].pc \in {"start", "check"}
    /\ waiter' = [waiter EXCEPT ![w] = [pc |-> "sleeping", gen |-> changed, outcome |-> "pending"]]
    /\ UNCHANGED <<mailboxVars, unsent, watcher, written>>

(* Top of the wait loop, entered by the call and after an unhelpful wake.  *)
SubscribeActivity(w) ==
    /\ waiter[w].pc \in {"start", "check"}
    /\ waiter' = [waiter EXCEPT ![w] =
          IF PendingActivity(WaitKey[w]) # "none"
          THEN [pc |-> "done", gen |-> changed, outcome |-> OutcomeOf(PendingActivity(WaitKey[w]))]
          ELSE [pc |-> "sleeping", gen |-> changed, outcome |-> "pending"]]
    /\ UNCHANGED <<mailboxVars, unsent, watcher, written>>

WakeWait(w) ==
    /\ waiter[w].pc = "sleeping"
    /\ ChannelClosed(waiter[w].gen)
    /\ waiter' = [waiter EXCEPT ![w].pc = "woken"]
    /\ UNCHANGED <<mailboxVars, unsent, watcher, written>>

(* LastActivityFor takes the lock again: other writers may run in between. *)
ReadLastActivity(w) ==
    LET activity == LastActivityFor(KeyThread(WaitKey[w])) IN
    /\ waiter[w].pc = "woken"
    /\ waiter' = [waiter EXCEPT ![w] =
          IF activity # "none"
          THEN [@ EXCEPT !.pc = "done", !.outcome = OutcomeOf(activity)]
          ELSE [@ EXCEPT !.pc = "check"]]
    /\ UNCHANGED <<mailboxVars, unsent, watcher, written>>

(* The deadline elapses or the context is cancelled.                       *)
TimeOut(w) ==
    /\ waiter[w].pc = "sleeping"
    /\ waiter' = [waiter EXCEPT ![w].pc = "done", ![w].outcome = "timedOut"]
    /\ UNCHANGED <<mailboxVars, unsent, watcher, written>>

WatcherStep(w) == StartWatch(w) \/ WakeWatch(w) \/ StopWatch(w)
WaiterStep(w) == SubscribeActivity(w) \/ WakeWait(w) \/ ReadLastActivity(w) \/ TimeOut(w)

Next ==
    \/ \E k \in Keys : SendInput(k) \/ DeliverMail(k) \/ Consume(k)
    \/ \E w \in Watchers : WatcherStep(w)
    \/ \E w \in Waiters : WaiterStep(w)

Spec == Init /\ [][Next]_vars

(* The Go scheduler runs a goroutine whose channel is closed; nothing      *)
(* makes a writer write, a turn drain or a caller stop its watcher.        *)
WakeFairness ==
    /\ \A w \in Watchers : WF_vars(WakeWatch(w))
    /\ \A w \in Waiters : WF_vars(SubscribeActivity(w)) /\ WF_vars(WakeWait(w)) /\ WF_vars(ReadLastActivity(w))

FairSpec == Spec /\ WakeFairness

----------------------------------------------------------------------------
TypeOK ==
    /\ MailboxTypeOK
    /\ unsent \subseteq Items
    /\ watcher \in [Watchers -> [pc : WatcherPC, gen : Nat]]
    /\ waiter \in [Waiters -> [pc : WaiterPC, gen : Nat, outcome : Outcomes]]
    /\ written \in Seq([key : Keys, kind : Activities])

(* No lost wake-up (watchActivity and WatchUserInput subscribe before the  *)
(* first check): a watcher asleep on the open channel has no matching      *)
(* input queued, so whatever is queued for it has already closed the       *)
(* channel it sleeps on.                                                   *)
NoLostWakeup ==
    \A w \in Watchers :
        watcher[w].pc = "sleeping" /\ Matches(w) => ChannelClosed(watcher[w].gen)

(* The same for the input wait: asleep on the open channel, its named turn *)
(* has nothing queued that should have ended the wait.                     *)
NoLostWait ==
    \A w \in Waiters :
        waiter[w].pc = "sleeping" /\ PendingActivity(WaitKey[w]) # "none"
            => ChannelClosed(waiter[w].gen)

(* The injection bit follows the queue exactly through every enqueue,      *)
(* drain, clear and finish: it is set iff something other than mail is     *)
(* still queued.  WatchSteer relies on it to ignore mail and never to miss *)
(* an injection.                                                           *)
InjectionBitExact ==
    \A k \in Keys : k \in pendingInjections <=> CarriesInjection(items[k])

(* A waiter reports mail only if a batch of nothing but mail was queued    *)
(* for its thread, and steering only if some other input was: neither a    *)
(* write to another thread nor a concurrent drain can forge the outcome.   *)
OutcomeJustified ==
    \A w \in Waiters :
        waiter[w].outcome \in {"mailbox", "steered"} =>
            \E i \in DOMAIN written :
                /\ KeyThread(written[i].key) = KeyThread(WaitKey[w])
                /\ OutcomeOf(written[i].kind) = waiter[w].outcome

(* Liveness of the yield signal: input a sleeping watcher is waiting for   *)
(* ends its sleep, unless the turn drains the queue first.                 *)
WatcherWakes ==
    \A w \in Watchers :
        (watcher[w].pc = "sleeping" /\ Matches(w)) ~> (watcher[w].pc # "sleeping" \/ ~Matches(w))

=============================================================================
