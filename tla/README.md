# A TLA+ model of the Codex app server

This directory specifies the parts of the repository in which goroutines, connections and processes race:

- what happens to a *turn* of a thread from the moment a request asks for it until its end has been reported, to the
  input that arrives in between, and to the agents that turns spawn;
- the *remote control relay* over which phones and browsers reach the app server: its outbound streams, its inbound
  clients, and its connection loop under changes of the signed-in account;
- the *writer locks* that keep one writer per thread over every process of a session root, and under which old rollout
  files are compressed.

TLC checks the modules on small instances; TLAPS proves the main safety properties, and that the writer locks
implement their abstract specification, for every value of the constants.

## 1. The system

The repository is a Go implementation of the Codex command line, its app server and their tools. Nearly everything a
user sees goes through the app server (`appserver/`), which runs turns for threads:

```
 transports (stdio, websocket)                      other agents, boards, guardian
   |  AdmitTurnWork (permit)                            |            |
   v                                                    v            v
 RuntimeRouter  -- reserve/register --> ThreadManager   |  enqueue   |  interrupt
   |  turn/start, turn/steer, turn/interrupt, review/start           |
   v                                                    v            v
 runTurnRuntime  --- AgentLoop.Run --- SteerMailbox <---+-- ThreadManager.ConsumeTurn
   |   (one goroutine per turn)            ^
   v                                       |  change signal
 session store, rollout, notifications     +--- step watchers, wait_agent
   |
   v
 WriterLock (lock files) <--- rollout compressor, other processes

 remote clients <-- backend <-- websocket --> server writer  <-- serverEvents    <-- pump of each client
                                         --> reader --> ClientTracker --> transportEvents --> app server
                                         <-- connection loop <-- Manager <-- enable, disable, login, logout
```

### Components, their state and operations

| Component | Source | State | Operations | What is hard, and what must hold |
|---|---|---|---|---|
| Steer mailbox | `turn/steer_mailbox.go` | per turn: queued items, injection bit, delivery phase, finishing window; change channel and latest activity | `Enqueue`, `EnqueueIfAcceptingDelivery`, `DrainWithMetadata`, `Clear`, `FinishTurnOrTakePending`, `BeginTurnFinish`, phase changes, watchers, `WaitForInputActivity` | broadcast by closing a channel: no lost wake-up, nothing stale; several operations keep the injection bit beside the queue |
| Agent loop | `turn/agent_loop.go` | iteration, transcript, response in progress | drain, sample, preempt, defer, compact, run tools, follow up, return | checks and mailbox operations are separate critical sections; input is delivered once, in order |
| Turn runtime | `appserver/turn_runtime.go` | context, finishing step, terminal lifecycle | close admission, consume the turn, clear, persist, record, notify | worker, interrupts and guardian compete for the turn; one of them reports it |
| Turn records | `turn/api.go` | in-progress record of each turn | `Steer`, `Interrupt`, `Complete` | its locks are not the runtime's |
| Turn admission | `appserver/thread_manager.go`, `turn_admission.go`, `workspace_switching.go` | active turns and reservations, permits, drain gate, pause, wait group | `AdmitTurnWork`, `ReserveTurn`, `RegisterTurn`, `ConsumeTurn`, `PauseTurnAdmission`, `BeginShutdown`, `WaitForTurnWorkers` | admitted work survives a drain, nothing else passes it; a pause is exclusive; the wait group is exact |
| Request router | `appserver/runtime_router.go`, `stdio.go`, `websocket.go` | connections, services | the turn requests and the close sequence | the order of reserve, start, register, and what is taken back when one fails |
| Inter-agent delivery | `appserver/agent_controller.go`, `message_board.go`, `guardian_reviewer.go` | mail kept for later turns | message, follow-up, completion, board notice, conditional interrupt | look-up and queueing are two steps |
| Agent registry | `agent/registry.go` | path and thread indexes, nicknames, slot counter | reserve slot, nickname, path; commit, cancel, release, register | three resources taken and given back one by one |
| Automatic wakes | `appserver/agent_controller.go`, `runtime_router.go` | mail kept for an idle thread, the stop mark, two mutexes, wake reservations | queue and wake, drain, reserve, register, revalidate, reject (`ConsumeTurnIf`), requeue | senders, starts, the end of a turn, its revalidation and interrupts all move the same mail: none is lost, delivered twice or forgotten |
| Unified exec store | `tool/unified_exec.go` | processes, output buffers, yield deadlines | start, poll, write, kill | output against exit and deadline |
| Remote control: streams | `remotecontrol/websocket_workers.go`, `websocket_state.go`, `segment.go` | sequence numbers, replay buffer, cursor | queue, number, cut, buffer, write, acknowledge, reconnect, replay | connections break with frames in flight; acknowledgements come late, twice and out of order: no gap, no repetition, nothing withheld |
| Remote control: clients | `remotecontrol/client_tracker.go`, `websocket_workers.go`, `appserver/remote_control_transport.go` | clients by stream, pumps, two bounded channels | initialize, forward, ping, close, expire, drain | sends time out, pumps die, initialization half fails: no orphaned connection, requests in order and never skipped |
| Remote control: session | `remotecontrol/websocket_loop.go`, `manager_backend.go`, `remotecontrol.go` | status, enrollment, preferences, owner revision, replay state | connect, back off, retire, enable, disable, log out | the loop and the handlers write the same Manager; no owner is confused with another |
| Writer locks | `session/writer_lock.go`, `rollout/compression.go` | the coordination lock and a lock file per thread | acquire one or several, close, probe for publication, release | several processes, time-outs halfway, deaths: one writer per thread, none while a file is replaced |
| Session store | `session/store.go`, `session/live_thread.go` | rollout files, live threads | append, fork, archive | sequential under its writer locks |
| State database | `state/` | SQL tables | leases, jobs | the logic is in the queries |
| Everything else | see `components` of PROJECT.json | | | sequential, pure I/O, or clients of external services |

The hazards found while reading, each at its line, are listed in PROJECT.json; the properties below are aimed at
them.

## 2. Modules

| Module | What it is |
|---|---|
| `SteerMailbox` | the mailbox: state, predicates and one operator per locked operation. It has no processes of its own |
| `MailboxWatchers` | `EXTENDS SteerMailbox`: writers, the turn that owns a queue, step watchers, input waiters |
| `AgentTurn` | `EXTENDS SteerMailbox`: one turn with its worker, steers, mail senders and cancellers |
| `TurnAdmission` | ThreadManager's admission state with requests, workers, interrupts, pausers and the shutdown |
| `AgentWakes` | one root thread whose mail starts turns: senders, explicit starts, workers, interrupts, Plan mode and pauses |
| `AgentRegistry` | the registry of an agent tree with spawns, closes and resumes |
| `RemoteStream` | abstract: what an outbound stream promises |
| `RemoteOutbound` | the relay's server writer, replay buffer and acknowledgements; implements `RemoteStream` |
| `RemoteClients` | the relay's reader, client tracker and pumps, and the app-server transport that consumes their events |
| `RemoteSession` | the relay's connection loop, the Manager and the request handlers that change it; `SessionInit`, `SessionNext` and `SessionTypeOK` are named apart from those of `RemoteClients`, since `RemoteRelay_proofs` extends both |
| `WriterOwnership` | abstract: what the writer locks promise |
| `WriterLocks` | the lock files, the coordination lock and the compressor; implements `WriterOwnership` |
| `MailboxWatchers_proofs`, `AgentTurn_proofs`, `TurnAdmission_proofs`, `AgentWakes_proofs`, `AgentRegistry_proofs`, `RemoteOutbound_proofs`, `RemoteRelay_proofs`, `WriterLocks_proofs` | theorems and their proofs |
| `MCMailboxWatchers`, `MCAgentTurn`, `MCTurnAdmission`, `MCAgentWakes`, `MCAgentRegistry`, `MCRemoteOutbound`, `MCRemoteClients`, `MCRemoteSession`, `MCWriterLocks` | the model values and functions the `.cfg` files instantiate |

### Correspondence with the code

*Granularity.* An action is one critical section of a lock, together with the goroutine-local code up to the next
one. Where the code takes a lock twice, the model has two actions and a control state in between: that is where the
interesting interleavings are. The mailbox's operations hold `m.mu` throughout, ThreadManager's hold `turnsMu`, and
the registry's `mu` (its slot counter is an atomic on its own, so slots are actions of their own).

*SteerMailbox.* `items`, `pendingInjections`, `phases`, `finishing` are the four maps of the struct (`phases` and
`finishing` as the set of keys present). The change channel is the counter `changed`: `storeLocked` closes the
channel and makes another, so a sleeper that remembers generation `g` is woken once `changed > g`. An item is a model
value whose kind, all the mailbox looks at, is given by `KindOf`. Client metadata travels with a batch and is not told
apart from it.

*MailboxWatchers.* `StartWatch` is the subscription and first check of `watchActivity`/`WatchUserInput` (one critical
section), `WakeWatch` their goroutine's loop, `StopWatch` the returned stop function. `WaitForInputActivity` is
`SubscribeActivity`, `WakeWait`, `ReadLastActivity` (a second critical section), `TimeOut`. Writers enqueue arbitrary
batches; the owner of a queue may call any operation at any time, so the properties hold for every order of
calls. `DeliverMail` queues mail only, as the comment on `EnqueueIfAcceptingDelivery` says and its callers do; a test that
passes it a tool's output is outside the module.

*AgentTurn.* `pc` walks `AgentLoop.Run` and what `runTurnRuntime` does after it: `drain`, `sample`, `checkUser` and
`setPhase` (the two halves of the deferral), `preempt`, `compact`, `tools`, `followUp`, `accepts` and `drainFinal`
(the two halves of the last drain), then `finishCheck`, `closing`, `clear`, `persist` on success and `failed`,
`failClosing`, `failClear` on failure, and `publishing`, `release`. A response is reduced to what later steps read:
does it defer delivery, does it let mail preempt, has it tool calls. `publish` is the terminal lifecycle, run by the
worker or by the canceller that took the turn. `sent`, `raced` and `answered` are history variables no action reads.

*TurnAdmission.* `active` is ThreadManager's map (`"reserved"` is a reservation: an entry without a turn id),
`admittedTurns` the reservations that keep a permit, `turnWG` the wait group. `handler[j]` walks a request from
dispatch to the release of its permit, `worker[j]` its turn's goroutine, `publisher[j]` the goroutine of the
interrupt that took it. The guardian, which takes a turn without being tracked by the wait group, is an actor of `AgentTurn`
and not of this module. `owner` is a history variable. Starts, reviews and continuations differ as in the code:
starts reserve under a permit, reviews register without reserving, continuations reserve without a permit.

*AgentWakes.* Senders, starts, turns and interrupts share one control state `pc`, because they share code: the steps of
`maybeWakeRootForPendingAgentMessages` (`wake`, `eligible`, `drain`) and of `handleTurnStart` (`submit` to `return`) are taken by
a sender, by the worker of a turn that ends, by the goroutine of an interrupt, or by an explicit start. `agentWakeMu` and
`turnAdmissionMu` span several steps and are variables that hold their owner; the other locks guard one step each. `hand[a]` is
the mail a caller has drained, `input[t]` what it has handed to a turn. A turn's worker goes `build`, `revalidate`, `mark`,
`run`, `persist`, and from there into the wake; `reject` and `requeue` are `rejectAutomaticWakeReservation`, run by the worker or
by an interrupt. `plan` is toggled under `turnAdmissionMu` as `thread/settings/update` does; a pause is only the flag, whose
draining `TurnAdmission` models. `givenBack` and `parked` are histories: rejected turns, and mail that was given back or seen by
a wake that was not eligible, which waits for an explicit start by design. The queue is a set, so the order of mail is left out.

*AgentRegistry.* A spawn and the thread it creates share a name. `agentsByPath` holds free, placeholder or agent
entries. A nickname is a pair of a candidate and the ordinal it was formatted with. Failed spawns run
`cleanupProvisionalSpawn` and then the three parts of `Cancel`.

*RemoteOutbound.* `queue` is the `serverEvents` channel, `nextSeq` the sequencer, `buffer` the `OutboundBuffer`. A
frame is a stream, a sequence number and a segment (`Whole` for an envelope that was not cut, which compares as the
code's `ackCursor` does). `Connect` starts the writer, `Snapshot` takes what is to be replayed, `Prepare` takes a
message from the channel, numbers it, cuts it and buffers every frame, and `Write` writes one; the reader's `Ack`
may come at any time with any frame the peer took. `wire` holds frames in flight, which `Break` loses. `sent` and `taken`
are histories: what was buffered for a stream and what its peer took.

*RemoteClients.* The reader is one goroutine (`reader.at`), each client has a pump, and the transport consumes
`events`. The envelope after the last recorded one is read again after a break. A send to a full channel either waits
or `GivesUp`, as `sendTransportEvent` does after its timeout. Connection ids come from a counter; `keyOf` remembers the
stream an id was opened for. Legacy clients without a stream id, inbound chunks and the tracker's shutdown are left out.

*RemoteSession.* `loop` walks `Run`: wait until enabled, observe the owner revision, load the credentials, prepare, enroll,
dial, replace a missing enrollment, connect, poll, back off, retire, reset. A handler walks `handleLogoutAccount` (or a
login) with `retireRemoteControlForAuthChange`, or the enabling and disabling requests. Each read or write of the
Manager is an action, since its lock covers no more. External calls succeed or fail; whether the current app-server
connection is still of the right owner (`connectionAuthCurrent`) is left nondeterministic in `RemoteClients`.
`enrollRemoteControlServerWithRecovery` reads the credentials of the disk again when the backend denies those it was given, and
they may be another account's by then: `EnrollRecovers` moves the connect to that account, `EnrollAgain` keeps it in
`recovered` until `StoreReplacement` and `SwapEnrollment` have put its enrollment in place, `RecoverForEnable` is the same in a
request. A recovery that refreshes credentials through an external provider is an owner change followed by a recovery, and how
many revisions it accounts for is left open (`MarkRecoveryAuthChange`). `signedIn` is a history: who was signed in at any time
since the connect under way loaded its credentials.

*WriterLocks.* `coordination` is the Store whose flock object has the coordination lock, `named[t]` who has the lock of the
file *at the path* of thread `t`, and `owners[t]` the writers that hold a lock on *some* file of the thread: the two differ when
a `Close` removes a file somebody else has locked by then. Actors of one Store share its lock object, which answers TRUE to
each of them and is given back by the first that is done. `overlapped` is a history: the requests that ever had the
coordination together with another actor of their Store, and the tasks of the compressor that have it so now. `AcquireWriters` sorts its ids and takes them one by one
(`NextWriter`, `Coordinate`, `TryLock`, `AcquireReturns`); a conflict or a time-out sends it to `ReleaseNext`, which closes
what it has from the last to the first. `Close` is `Coordinate`, `Unlock`, `Remove`, `CloseReturns`; when the wait times out
its `sync.Once` is spent and the lock is `leaked` until the process ends. `Die` kills a process with all its actors: the
system drops its locks, the files stay. The compressor is `Probe`, `CheckRollout`, `Publish`, `ReleaseProbe`,
`ReleaseCoordination`.

## 3. What the runs check

| Run | Instance | Properties |
|---|---|---|
| `mailbox` | 2 threads, a user message, a mail and a passive context item, 1 steering watcher, 1 waiter, batches up to 2 | `NoLostWakeup`, `InjectionBitExact`, `NoLostWait`, `OutcomeJustified`, liveness `WatcherWakes` |
| `turn_input` | 2 steers, 1 agent message, 1 board notice, up to 3 samples | `DeliveredOnceInOrder`, `FinalAnswerSticks`, `SteersTakenBeforeClosing` |
| `turn_races` | 1 steer, an interrupt and the guardian, up to 2 samples | `InterruptedNotPersisted`, liveness `EveryTurnReported` and `FinishingReleased` |
| `admission` | a start and a review on one thread, a continuation on another, 2 pausers, interrupts, a drain | `PauseExclusive`, `WorkersCounted`, `ShutdownQuiet`, `OneOwner`, `ReservationSurvivesDrain`, liveness `DrainEnds` |
| `wakes` | 2 pieces of mail, 1 explicit start, 2 turns, 1 interrupt, 1 pause, 1 change of Plan mode | `MailOnce`, `MailHasWaker`, `MutexesHandedOn` |
| `registry` | 3 spawns (2 of one path), 1 nickname, 2 slots, 2 resumes | `IdentitiesBijective`, `PlaceholdersHeld`, `SlotsAccounted`, `NamesDistinct`, `TypeOK` |
| `outbound` | 2 streams, 2 messages each, of 0 to 2 frames, a channel of 2, 2 broken connections | `BufferCoversUntaken`, `MissingIsUnderWay`, `StreamsAsPromised` (the refinement of `RemoteStream`, with its liveness) |
| `remote_clients` | 2 streams, 2 envelopes, 2 sequence numbers, channels of 1, 2 connection ids, 1 broken connection | `OrphansReported`, `CursorCoversDelivery`, `DeadPumpNoticed`, `HandedInOrder` |
| `remote_session` | 2 accounts, 1 handler at a time, 2 owner changes, 1 enable or disable | `EnrollmentKeepsOwner`, liveness `OwnerChangeEndsConnection` and `ShutdownEndsRun` |
| `writer_locks` | 2 requests in 2 processes, a pass of 2 tasks with one Store, 2 threads, 1 death | `SingleWriterKept`, `PublicationKept`, `AllOrNothing`, `OwnershipKept` (the refinement of `WriterOwnership`), liveness `CallsReturn` |

Where no run lists the type invariant, the module's `TypeCorrect` (`SessionTypeCorrect`) theorem proves it.
`BaselineKnown` of `RemoteSession` is proved and not run.

Every property has a mutant (an operator named in a comment "Mutant: ...") that breaks it under the same
configuration: `StoreSilently` for lost wake-ups, `ReserveRejectsIgnoringPause` for the pause, and so on. The
mutants are never part of `Next`.

### Bounds

- *Items.* One item per kind the mailbox tells apart reaches every branch of its predicates; batches of two reach
  the mixed batch, whose activity and injection bit differ from a batch of mail.
- *`MaxSamples`.* Three samples are a first answer, a resumed or preempted one, and one after that; a worker that
  has used them up can still fail. Two are enough where only cancellers race.
- *Each request, spawn, pauser and resume is tried once.* Requests have no memory of earlier ones, so repetition
  is covered by having several. In `admission` a start and a review compete for one thread; the continuation, which has no
  permit, has a thread of its own and meets them at the gate, the pause and the wait group.
- *Wakes.* Two turns let a wake race an explicit start, or the wake at the end of a turn race the turn a sender starts; the
  second piece of mail arrives at any moment of either. One interrupt can reject a reservation or take a started turn. One
  pause, which may begin between a reservation and its registration, refuses a turn; one toggle makes a reservation lose Plan
  mode's permission after it was eligible. Mail and turns are interchangeable (symmetry; the run checks safety only).
- *One nickname* makes the second concurrent spawn reset the pool; *two slots* for three spawns make the limit
  refuse one.
- *Two streams, two messages, two frames* are the least with which a replay can drop, repeat or reorder a frame of one
  message among those of another stream; two breaks let a replay itself be cut off. Two sequence numbers and two connection
  ids let a stream be initialized again while the first client of it is still being undone. Channels of one are full at once.
- *Owner changes and toggles.* A logout and the login that follows, with one enable or disable between any two steps of the
  loop; a second toggle would meet a loop in a state the first can leave it in.
- *Two threads* let `AcquireWriters` fail with one lock in hand, and give each task of the pass a rollout of its own, as the
  code does; *one death* takes a request alone, or a request with the pass, in the middle of any step. The requests of the
  instance have Stores of their own: with a third request, or a Router's two, TLC does not finish in minutes. Sharing between
  requests is covered by the proofs, which put no condition on it.
- *Histories* (`written`, `sent`, `taken`) grow only with items and are bounded by them.

### Fairness

- `MailboxWatchers!FairSpec`: a goroutine whose channel is closed runs. Nothing obliges writers, drains or stops.
- `AgentTurn!FairSpec`: the worker goes on (sampling and tools are bounded by timeouts, and a sample may always
  fail), and whoever began to cancel or to publish goes on. No client has to send or cancel anything, and none of
  the properties assumes that.
- `TurnAdmission!FairSpec`: a handler that began goes on, a worker whose turn was taken (its context is cancelled)
  ends, goroutines that have to call `TurnWorkerDone` do, and the close sequence goes on. A running turn may run for
  ever, and the wait for workers may or may not time out: `DrainEnds` counts both ends.

- `AgentWakes`, `AgentRegistry` and `RemoteClients` state no fairness: what their runs check is safety.
- `RemoteOutbound!FairSpec`: the loop reconnects, the writer goroutine runs, and a connection that stays up carries what
  is written. Nobody has to acknowledge or to queue anything.
- `RemoteSession!FairSpec`: the loop runs, external calls return, timers fire, a handler that began finishes. Nothing makes a
  worker of a connection stop, so `OwnerChangeEndsConnection` rests on the poll alone.
- `WriterLocks!FairSpec`: only the requests' own steps. The compressor's process may be suspended for ever with the coordination
  lock in its hands, which is what the comment on `writerLockCoordinationRetry` is about; `CallsReturn` holds because
  waiting itself ends.

### Deadlock

Deadlock is checked in the mailbox and turn runs (`Finished` is the one state of a turn in which nothing is left to
do) and for the writer locks. It is not checked for `TurnAdmission`, `AgentWakes`, `AgentRegistry` and the relay modules: a closed
server stops, requests and spawns are tried once, and a relay with nothing left to send, read or toggle is idle.

## 4. Where the code does not do what it says

Two runs are expected to end in a violation. Each checks one sentence of the code against what the code does:

| Run | Sentence | What happens |
|---|---|---|
| `remote_stale_owner` | the end reasons of `remotecontrol/websocket_loop.go` | the loop takes the revision that moved during connect as its baseline and publishes `connected` over the logout's `disabled`: the old account's connection stays up |
| `writer_shared_store` | `session/writer_lock.go:33-35` "no writer can start between the final file-state check and the publish/remove pair" | the tasks of one compression pass share a Store, whose lock object answers `TryLock` with TRUE when it holds the lock: the first task to finish gives it back under the other's publication |

Other divergences are visible in the modules but are not runs of their own:

- A steer queued between `HasPendingUserInput` and `SetMailboxDeliveryPhase` has its reopening of the phase overwritten, and is
  cleared when the turn completes (`turn/agent_loop.go:854`, against 852-853 and `appserver/turn_runtime.go:2043-2045` "instead of
  being dropped when the turn completes"). This is the exception `raced` in `SteersTakenBeforeClosing`.
- A turn whose registration a pause refuses is reported by its own handler, whose report calls
  `maybeWakeRootForPendingAgentMessages` with the mutexes still held (`appserver/runtime_router.go:21515`,
  `appserver/turn_runtime.go:4974`). A wake's handler waits for the `agentWakeMu` it holds; an explicit start's handler waits for
  its own `turnAdmissionMu` once it finds mail that was queued after its drain. No later turn of any thread can then start. The
  mail the refused turn had drained is lost with it. `MutexesHandedOn` therefore speaks of runs in which no registration
  was refused, and `MailOnce` counts a refused turn's input as delivered to it.
- An interrupt that saw a reservation and found its task started when it tried to reject it answers with success, although the
  turn runs on (`appserver/runtime_router.go:10068`); it has removed the turn's record before.
- The handler of a wake clears the stop mark after it registered the turn. An interrupt may reject the turn in between, and
  its mark, "tracked until the next admitted turn" (`appserver/agent_controller.go:1164-1167`), is erased
  (`appserver/runtime_router.go:21520`).
- `WaitForInputActivity` wakes and then reads the latest activity in a second critical section, so another thread's write
  in between hides it and the waiter sleeps again (`turn/steer_mailbox.go:332`, against 347-349 "later activity is observed
  thread-wide").
- A completed turn clears mail that was deferred to a later turn (`appserver/turn_runtime.go:2126`, against
  `turn/agent_loop.go:921-922` "queued child mail stays for a later turn").
- The guardian's check of the queue and its consumption of the turn are two critical sections
  (`appserver/turn_runtime.go:4300`, against 4288-4290 "pending input leaves the turn running").
- A failing worker does not look whether an interrupt consumed the turn, and both append a terminal record
  (`appserver/turn_runtime.go:2110`, against `runtime_router.go:10071-10075` "its only terminal event is TurnComplete");
  clients still get one notification.
- A registration refused by a pause leaves the reservation behind: the thread stays reserved by nobody
  (`appserver/runtime_router.go:21513`, against `thread_manager.go:523-524`).
- `turn/steer` may queue after the finish step closed admission, since acceptance reads the turn record and not the
  window (`appserver/runtime_router.go:9829`, against `turn_runtime.go:4348-4349`); so may `SendMessage`,
  `FollowupTask` and child completions, which use plain `Enqueue` (`turn_runtime.go:3096`,
  `agent_controller.go:899`, against `turn_runtime.go:4333-4335`).
- A response with both a final answer and commentary is deferred and then extended by mail
  (`turn/agent_loop.go:864` against 851-852), which is why `FinalAnswerSticks` speaks of plain final answers.
- A workspace switch waits for active turns and permits, not for workers; a consumed turn is still being recorded
  when the credentials change (`appserver/workspace_switching.go:391`).
- A review registers without reserving and fills a reservation another request made, so that request's registration
  is refused: the exception in `ReservationSurvivesDrain`.
- `resume_agent` and the reload from disk register agents without taking a slot, while their release gives one back:
  after a resume the counter may fall below the number of agents, and an agent evicted from its path by another
  never gives its slot back. `SlotsAccounted` and `NamesDistinct` therefore speak of trees in which nothing was
  resumed.
- A client that is initialized again is tracked anew while the old one's pump is still to report; when that report comes it
  names the stream only and closes the new client (`remotecontrol/client_tracker.go:323`, against
  `client_tracker_test.go:88`).
- When an owner retires from a request handler, `clearSession` leaves the loop's replay state: the next account's connection may
  start with the former one's cursor and envelopes (`remotecontrol/websocket_loop.go:306`, against 315-318). The tracker's
  clients and the queued `serverEvents` are never reset at all (175-177).
- `RetireForAuthChange` disables the preference of the enrollment it read before the write and clears the one it finds after it
  (`remotecontrol/remotecontrol.go:406`, against 384-388), so that the stored preference of the latter outlives the retirement.
- A login that replaces an account during the dial of its connect lets `replaceWebsocketEnrollmentIfMatches` come back from the
  recovery with the new account. Its enrollment is stored as enabled, if it had no stored preference, and takes the place of the
  old one (`remotecontrol/manager_backend.go:395-409`; only the stale enrollment is compared at 406). Remote control then works
  for an owner who never enabled it, against `remotecontrol/remotecontrol.go:384-388` "the desired state becomes disabled until
  the user enables it again"; and a retirement that follows disables the new owner's preference. A first enrollment that
  recovers goes on with the new account, too (246-250). This is the second case of `EnrollmentKeepsOwner`, which says that
  nothing else lets an enrollment change hands. A stored preference is left alone by the replacement
  (`remotecontrol/persistence.go:168-172`), so a disable in between is not undone.
- The goroutine that reports a half-initialized client may send on `transportEvents` after `Run` closed the channel.
- Goroutines of one process that share a Store, as a Router's requests do, share its coordination lock object, as the
  compressor's tasks do. `ReleaseLiveThreads` forgets its live threads before it closes them, so another goroutine may acquire a
  thread between the `Unlock` and the `Remove` of its `Close`: the locked file is unlinked, and another process locks a new one.
  `SingleWriterKept` and `OwnershipKept` promise nothing once two requests have overlapped like that (`WritersApart`). A `Close` that
  timed out is not tried again (`sync.Once`), and its thread stays owned until the process ends.
- With multi-agent V2 the configured limit counts the root (`config/multi_agent_v2.go:63`), while the registry's
  counter counts spawned agents only, so a tree may have one agent more than the limit.

## 5. What is proved

`MailboxWatchers_proofs` (every set of threads, turns, items, watchers, waiters):
`TypeCorrect`, `InjectionBitIsExact`, `WakeupsAreNotLost`, `WaitsAreNotLost`, `OutcomesAreJustified`. The invariants are not inductive alone:
a sleeper that remembered a generation that does not exist yet would not be woken by the next store. `IInv` therefore
adds `GenerationsExist`: every remembered generation is at most `changed`. A write increments `changed` past all of
them; every other mailbox operation only empties queues, which cannot make a predicate true.

`OutcomesAreJustified` needs to know where an outcome comes from: `LastActivityWritten` says that the activity
the mailbox publishes is that of some write, and `PendingWritten` that what is pending for a turn was written to that turn
with that activity.

Both users of the mailbox begin with lemmas about its operations: what an enqueue, a drain, a clear and the window do to its
types and to the set of queued items.

`AgentTurn_proofs` (every set of steers, mail and cancellers, any number of samples, either setting of
`DeferPreemption`): `TypeCorrect`, `InterruptedIsNotPersisted`, `FinalAnswerStands`, `SteersAreTaken`,
`QueueIsDeliveredInOrder`. The invariant is

- `OneTaker`: while the turn is registered nobody took it, and once the worker consumed it no canceller has. This is what
  makes persisting and reporting an interrupt exclude each other.
- `WindowLate`: the finishing window closes only after `AgentLoop.Run` returned.
- `PublishersKnown`: a canceller publishes only after it cancelled the context, the worker only at its end.
- `SteersOpen`: a queued steer has reopened delivery, unless it raced the phase switch; this gives `SteersAreTaken`, since
  admission is closed over a queue only while delivery is deferred.
- `DrainOpen`: delivery found open for the last drain stays open until the drain, because only the worker defers it.
- `AnswerHeld`: after a plain final answer delivery is deferred or a user message is queued, at every step until the turn
  ends. It speaks of a live context: a canceller clears the phase with the turn, and its worker may then loop once
  more before it notices. `FinalAnswerSticks` says so too.

`QueueIsDeliveredInOrder` has an invariant of its own, `QueuedInOrder`: `Seen`, what was handed to the model followed by what is
still in the queue, is in the order of `sent` and repeats nothing. A drain moves items inside `Seen`, a clear or
a failed turn cuts its end off, and a sender appends one item to both. The order is stated between places of the two sequences,
which carries over to prefixes and to appended items without an induction.

`TurnAdmission_proofs` (every set of threads, requests, continuations, pausers): `TypeCorrect`, `PauseIsExclusive`,
`WorkersAreCounted`, `ShutdownIsQuiet`, `EndHasOneOwner`, `ReservationSurvives`. The invariant adds

- `PermitsCounted`: `admittedWork` is the number of requests between admission and return. The pause polls the
  counter; this is what makes zero mean that nobody is preparing.
- `PauseHasPauser`: the flag is set exactly while somebody waits for or holds the pause.
- `TurnsRun`: a registered turn has a running worker and no reporter, and a request that has not registered has
  neither. A worker and a reporter are therefore each counted once.
- `GateStaysClosed`: once shutdown took the turns, no request is in flight, no thread has a turn, and what is still
  reported is tracked.

`ShutdownIsQuiet` then follows from the wait group being zero. `EndHasOneOwner` uses one more invariant,
`OwnedWhenTaken`: a turn that was registered is out of `active` exactly when it has an owner. `ReservationSurvives` rests on
`ReservationKept`: until shutdown takes the turns, a handler that has reserved and not yet registered is the only one on its
thread, and its reservation stands (a start's with its permit), unless a review registered on that thread.

`AgentWakes_proofs` (every set of mail, starts, turns and interrupts, any number of pauses and toggles): `TypeCorrect`,
`MailIsInOnePlace`, `NoWakeIsLost`, `MutexesAreHandedOn`. The invariant adds

- `LockInv`: whoever prepares a turn holds `turnAdmissionMu`, and an explicit start that enters the wake does so with it.
- `HandInv`: a caller's hands are empty until it drains the queue. With `LockInv`, no start drains over mail it has.
- `TurnInv`: a turn has no input and no thread before its registration, and never the thread again once it was rejected; the
  actor that registers has a turn of its own.
- `RejectInv`: a reservation that `ConsumeTurnIf` took belongs to one actor, and its task has not started and cannot start.
  This is the half of `MailOnce` that a rejection and a revalidation could break.

`AgentRegistry_proofs` (every set of spawns, paths, nickname candidates, resumes, and every limit): `TypeCorrect`,
`IdentitiesStayBijective`, `PlaceholdersAreHeld`, `SlotsAreAccounted`, `NamesStayDistinct`, in three layers.

- `IndexInv` holds always. It adds `KeysKept` (the root's path is never taken, and an agent's own `thread:` key is
  its own or free) to the bijection; without it a release could free the root's entry and not count.
- `SlotInv` holds until the first resume. `ReservationsHold` says that a spawn's placeholder is still there when it
  commits, and `LiveCommitted` that an agent is a committed spawn on the path it asked for. Together they give
  `CommitEvictsNobody`: a commit takes one slot from "under way" to "agent", and loses nobody else's. This is the
  step a resume breaks, since it registers over whatever has the path.
- `NameInv` adds `NicknamesRemembered`: a name of the current round is in `usedNicknames` while somebody has it, and
  names of earlier rounds differ by their ordinal. A reset can therefore forget the whole pool.

The assumptions are those declared in the modules: finite and disjoint sets of requests, functions on the right
domains, and request names different from `"idle"` and `"reserved"`; for the registry, paths that do not collide with
`thread:` keys, and thread names different from the marks of a free and a reserved entry. No bound of the
runs is used, except that `MaxBatch` is a natural number.

`RemoteOutbound_proofs` (any streams, messages, segments, queue size and number of broken connections): `TypeCorrect`,
`BufferCovers`, `MissingUnderWay`, `ImplementsStreams`. `BufferCoversUntaken` and `MissingIsUnderWay` need each other: the peer
takes whatever is beyond its last frame, so that it skips none follows from the missing ones being in flight, and that a replay
is not short follows from acknowledgements naming taken frames only. The invariant adds

- `Counted`: every message offered waits or has a number, which bounds the sequence numbers.
- `Numbered`: what was sent on a stream is ordered by cursor, below the next number.
- `BufferIsTail`: a buffer is what was sent but for its first frames, all of which the peer took.
- `TakenIsPrefix`: the peer has taken the first frames of what was sent.
- `Quiet` and `FlightKnown`: frames fly only on a live connection with a running writer, those of one stream in their order, and
  all of them were sent.

`ImplementsStreams` maps what was sent to what `RemoteStream` accepts and what the peer took to what it delivers: `Prepare` is
`Accept`, `Receive` is `Deliver` (by `ReceivedIsNext`: a frame beyond the peer's last one is exactly the next) or a stutter,
everything else stutters. What `Ack` keeps is `UnackedIsTail`: of a buffer in order it drops the first frames and nothing else.
What a replay holds is `FlattenGathers`, about the library's recursive `FlattenSeq` for any number of buffers. It is an
induction over data, done without the library's induction theorems: `LeastNumber` finds the least element of a set of numbers
through the well-founded order of the subsets of an interval, and `Induction` concludes from it for sets instead of operators.

`RemoteRelay_proofs` has the two other halves of the relay. For `RemoteClients` (any streams, channel capacities, numbers of
envelopes, connections and broken connections): `TypeCorrect`, `OrphansAreReported`, `CursorCovers`, `DeadPumpsAreNoticed`,
`IsHandedInOrder`. The invariant adds

- `ReaderKnown`: the reader sweeps keys only in a sweep and handles an envelope only while it has one; at its greeting that is
  an initialize whose client is tracked already.
- `ClientsKnown`: a client is tracked under the key its connection was opened for, so two keys never share a connection.
- `EventsOrdered`: Opened is the first event of a connection, and its requests wait in order of their numbers. A Closed that
  the transport handles therefore leaves no Opened of its connection behind it, which `OrphansReported` needs.
- `EventsAhead` and `LastSeqCovers`: a waiting request is beyond those handed out, and none is beyond the sequence number the
  tracked client remembers. A forwarded request is then beyond everything that waits; `HandedInOrder` follows.
- `CursorExact`: `CursorCoversDelivery` at every step of the reader, but for the one client whose initialize is tracked and
  still to be forwarded: its cursor is 0. `CursorCoversDelivery` says nothing between these two steps, and is not inductive.

For `RemoteSession` (every set of accounts and handlers, any number of owner changes and toggles): `SessionTypeCorrect`,
`BaselineIsKnown`, `EnrollmentIsKept`. The invariant adds that from `prepare` to `swap` the loop works for an account that was
signed in at some time since the credentials were loaded (`AuthKnown`), that what a recovery returned is such an account, too
(`RecoveredKnown`), that a connection has an owner exactly at the steps of a connection (`ConnectedKnown`), and that the baseline is
an earlier revision (`BaselineOld`). `EnrollmentIsKept` is an action property: each writer of the enrollment is shown to keep
its account, to be the user's enable, or to be the swap of a connect that was made with the enrollment it replaces.

`WriterLocks_proofs` (every number of threads, requests, tasks and processes, and whichever of them share a Store):
`TypeCorrect`, `SingleWriterHolds`, `PublicationHolds`, `AllOrNothingHolds`, `LocksImplementOwnership`. A compression pass of any
number of tasks on its one Store is within all of them: `PublicationHolds` speaks of each publication whose coordination no
other task of the pass took before it was over, and the run `writer_shared_store` shows what happens to the others. Two
requests of a Router are, too, until they have the coordination at once; from then on only `TypeCorrect` and
`AllOrNothingHolds` say anything. The invariant adds

- `CoordinationHeld`: an actor that is not overlapped and is between `Coordinate` and the return has the coordination lock, and
  nobody else of its Store is there.
- `OwnerNamed` and `LockedFileThere`: a writer's lock is on the file at the thread's path, and that file exists. This is what
  removing a lock file could break, and what makes a second process's `TryLock` meet the first one's lock.
- `RemovedFileFree`: the file a `Close` is about to remove is locked by no request, since the coordination lock spans both steps.
- `ProbedIdle`: a thread found idle by the probe has no owner until the publication is over, or another task of the pass takes
  its coordination.

`OwnerNamed`, `RemovedFileFree` and `ProbedIdle` are part of the invariant as long as the requests are apart.

`LocksImplementOwnership` maps owners to owners and the tasks that are at `publish` and not overlapped to publications:
`TryLock` is `Acquire`, `Unlock` is `Release`, `CheckRollout` and `Publish` begin and end a publication, and so does the
`Coordinate` of another task of the pass end it, `Die` is `Die`, and everything else stutters, the leaking
`CloseTimesOut` and the removal of the file included.

The assumptions of these modules say that the sets of actors are disjoint, that marks such as `NoAccount` are not
members, and that `StoreOf`, `ProcessOf` and `RolloutOf` are functions.

Only model-checked: liveness and everything that rests on fairness (out of reach of the provers), the fairness of
`StreamsAsPromised` included; every invariant that a passing run checks is stated by a theorem. `SelectSeq` is opaque to the provers, so `Unacked` and
`DeliveredOnceInOrder` speak of places of a sequence instead.

## 6. What is not modelled, and the plan

Left out on purpose: the contents of prompts, responses and tool results; usage, goals, hooks, analytics; the wire
protocol; persistence below "the batch was appended"; ThreadManager's live threads, subscriptions and retention;
`UpdateLastTaskMessage` and the router-wide registry that mirrors registrations; for wakes, the order of mail, reviews, the drain
gate, queued submissions and other threads that share the two mutexes; in the relay, legacy clients without a stream
id, reassembly of inbound chunks, ephemeral enabling, pairing and client lists; around the writer locks, errors of flock and of
the file system. Components marked `not_modelled` in PROJECT.json are either sequential, pure I/O, or next on the list below.
Most of the repository's lines are front ends, protocol types, parsers and clients of external services, which keep no state that
two actors share; they are out of the scope of these modules.

What remains, in order of value:

1. *UnifiedExec*: output buffers, exit and yield deadlines of background processes.
2. *An abstract turn lifecycle* that `AgentTurn` refines.
3. Proofs of these modules as they are added, and that `AgentTurn` implements the abstract lifecycle.
