---------------------------- MODULE SteerMailbox ----------------------------
(***************************************************************************)
(* The per-turn queue of input that arrives while a turn runs: user steers *)
(* and other response items (Enqueue), inter-agent mail                    *)
(* (EnqueueIfAcceptingDelivery), the delivery phase, the finishing window  *)
(* and the change signal watchers sleep on.                                *)
(*                                                                         *)
(* Every operation of the Go type holds m.mu from its first read to its    *)
(* last write, so each is one action here.  The module has no processes:   *)
(* MailboxWatchers and AgentTurn EXTEND it and say who calls what, when.   *)
(***************************************************************************)
EXTENDS Naturals, Sequences, SequencesExt

CONSTANTS
    Threads,    \* thread ids
    Turns,      \* turn ids
    Items,      \* the input items that may be queued
    KindOf      \* what the mailbox tells apart about an item

(* A queued item is a user message, inter-agent mail (agent_message or a   *)
(* message-board notice), a function-call output, or passive context.      *)
Kinds == {"user", "mail", "output", "context"}

ASSUME KindOfAssumption == KindOf \in [Items -> Kinds]

(* steerMailboxKey: one queue per (thread, turn).                          *)
Keys == Threads \X Turns
KeyThread(k) == k[1]

Activities == {"none", "mailbox", "steer"}
NoKey == <<>>

VARIABLES
    items,              \* key -> queued items, oldest first
    pendingInjections,  \* keys holding items of a notifying injection
    phases,             \* keys stored with MailboxNextTurn (absence: CurrentTurn)
    finishing,          \* keys whose finishing channel is open
    changed,            \* generation of the change channel; a store closes it
    lastActivity        \* key and kind of the latest notifying write

mailboxVars == <<items, pendingInjections, phases, finishing, changed, lastActivity>>

----------------------------------------------------------------------------
(* Predicates on a queue.                                                  *)

IsMail(i) == KindOf[i] = "mail"
HasKind(q, kind) == \E i \in ToSet(q) : KindOf[i] = kind
CarriesInjection(q) == \E i \in ToSet(q) : ~IsMail(i)

(* steerItemsActivity, with storeLocked's fallback for an empty batch.     *)
BatchActivity(q) == IF q # <<>> /\ ~CarriesInjection(q) THEN "mailbox" ELSE "steer"

PendingActivity(k) ==
    IF \/ k \in pendingInjections
       \/ HasKind(items[k], "user")
       \/ HasKind(items[k], "output")
    THEN "steer"
    ELSE IF HasKind(items[k], "mail") THEN "mailbox" ELSE "none"

HasPending(k) == k \notin phases /\ items[k] # <<>>
HasPendingUserInput(k) == HasKind(items[k], "user")
HasPendingMailboxItems(k) == HasKind(items[k], "mail")
IsTurnFinishing(k) == k \in finishing
AcceptsDelivery(k) == k \notin finishing /\ k \notin phases

(* Mutant: the thread of the last write is not compared.                   *)
LastActivityOfAnyThread(t) == IF lastActivity.key # NoKey THEN lastActivity.kind ELSE "none"

(* The activity a thread's waiter reads after the change signal fired.     *)
LastActivityFor(t) ==
    IF lastActivity.key # NoKey /\ KeyThread(lastActivity.key) = t
    THEN lastActivity.kind
    ELSE "none"

----------------------------------------------------------------------------
MailboxInit ==
    /\ items = [k \in Keys |-> <<>>]
    /\ pendingInjections = {}
    /\ phases = {}
    /\ finishing = {}
    /\ changed = 0
    /\ lastActivity = [key |-> NoKey, kind |-> "none"]

(* Mutant: a store that leaves the change channel open.                    *)
StoreSilently(k, batch) ==
    /\ items' = [items EXCEPT ![k] = @ \o batch]
    /\ lastActivity' = [key |-> k, kind |-> BatchActivity(batch)]
    /\ UNCHANGED changed

(* storeLocked: append, publish the activity, close the change channel.    *)
Store(k, batch) ==
    /\ items' = [items EXCEPT ![k] = @ \o batch]
    /\ lastActivity' = [key |-> k, kind |-> BatchActivity(batch)]
    /\ changed' = changed + 1

(* Mutant: a user message does not reopen the current turn for delivery.   *)
EnqueueKeepingPhase(k, batch) ==
    /\ Store(k, batch)
    /\ pendingInjections' =
          IF CarriesInjection(batch) THEN pendingInjections \cup {k} ELSE pendingInjections
    /\ UNCHANGED <<phases, finishing>>

(* Enqueue has no phase or finishing guard; a user message also reopens    *)
(* the current turn for delivery.                                          *)
Enqueue(k, batch) ==
    /\ Store(k, batch)
    /\ pendingInjections' =
          IF CarriesInjection(batch) THEN pendingInjections \cup {k} ELSE pendingInjections
    /\ phases' = IF HasKind(batch, "user") THEN phases \ {k} ELSE phases
    /\ UNCHANGED finishing

EnqueueIfAcceptingDelivery(k, batch) ==
    /\ AcceptsDelivery(k)
    /\ Store(k, batch)
    /\ UNCHANGED <<pendingInjections, phases, finishing>>

(* Mutant: the injection bit outlives the items that set it.               *)
EmptyKeepingBit(k) == items' = [items EXCEPT ![k] = <<>>] /\ UNCHANGED pendingInjections

(* The queue is emptied together with its injection bit.                   *)
Empty(k) ==
    /\ items' = [items EXCEPT ![k] = <<>>]
    /\ pendingInjections' = pendingInjections \ {k}

(* Mutant: a drain that hands the items out and leaves them queued.        *)
DrainKeepingItems(k) == UNCHANGED mailboxVars

DrainWithMetadata(k) == Empty(k) /\ UNCHANGED <<phases, finishing, changed, lastActivity>>

Clear(k) == Empty(k) /\ UNCHANGED <<phases, finishing, changed, lastActivity>>

(* FinishTurnOrTakePending, first outcome: input accepted before admission *)
(* closed is handed to the caller and admission stays open.                *)
FinishTakes(k) ==
    /\ AcceptsDelivery(k)
    /\ items[k] # <<>>
    /\ Empty(k)
    /\ UNCHANGED <<phases, finishing, changed, lastActivity>>

(* Second outcome: nothing deliverable is queued and admission closes.     *)
FinishCloses(k) ==
    /\ ~(AcceptsDelivery(k) /\ items[k] # <<>>)
    /\ finishing' = finishing \cup {k}
    /\ UNCHANGED <<items, pendingInjections, phases, changed, lastActivity>>

BeginTurnFinish(k) ==
    /\ finishing' = finishing \cup {k}
    /\ UNCHANGED <<items, pendingInjections, phases, changed, lastActivity>>

ReleaseTurnFinish(k) ==
    /\ finishing' = finishing \ {k}
    /\ UNCHANGED <<items, pendingInjections, phases, changed, lastActivity>>

SetMailboxDeliveryPhase(k, phase) ==
    /\ phases' = IF phase = "NextTurn" THEN phases \cup {k} ELSE phases \ {k}
    /\ UNCHANGED <<items, pendingInjections, finishing, changed, lastActivity>>

----------------------------------------------------------------------------
MailboxTypeOK ==
    /\ items \in [Keys -> Seq(Items)]
    /\ pendingInjections \subseteq Keys
    /\ phases \subseteq Keys
    /\ finishing \subseteq Keys
    /\ changed \in Nat
    /\ lastActivity \in [key : Keys \cup {NoKey}, kind : Activities]
=============================================================================
