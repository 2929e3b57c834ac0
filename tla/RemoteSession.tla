----------------------------- MODULE RemoteSession -----------------------------
(***************************************************************************)
(* The relay's connection loop, the Manager it shares with the request     *)
(* handlers, and the handlers that enable and disable remote control and   *)
(* change the authentication owner under it.                               *)
(*                                                                         *)
(* The loop is one goroutine.  It loads the credentials, prepares the      *)
(* enrollment, dials, and watches the Manager's status and the owner       *)
(* revision while it is connected or backs off.  Each handler runs on a    *)
(* goroutine of its own; the Manager's lock covers one read or one write.  *)
(* A name such as "enroll" is the step an actor takes next.                *)
(*                                                                         *)
(* The store, the network and the backend are external: a call of theirs   *)
(* succeeds or fails.  Ephemeral enabling, pairing and the list of clients *)
(* are left out.                                                           *)
(***************************************************************************)
EXTENDS Naturals, FiniteSets

CONSTANTS
  Accounts,    (* ChatGPT accounts                                         *)
  NoAccount,   (* signed out, no enrollment, or no connection              *)
  Handlers,    (* request handlers that may run at the same time           *)
  MaxChanges,  (* owner changes                                            *)
  MaxToggles   (* enable and disable requests                              *)

ASSUME SessionAssumption ==
  NoAccount \notin Accounts /\ MaxChanges \in Nat /\ MaxToggles \in Nat

VARIABLES
  account,     (* owner of the stored credentials                          *)
  noted,       (* the owner the authChangeTracker noted last               *)
  revision,    (* authOwnerRevision                                        *)
  status,      (* Manager.status                                           *)
  enrollment,  (* account of Manager.enrollment                            *)
  prefs,       (* accounts whose stored preference is "enabled"            *)
  loop,        (* the step of Run                                          *)
  auth,        (* account a connect or RetireForAuthChange of Run works    *)
               (* for, NoAccount when neither is under way                 *)
  recovered,   (* account replaceWebsocketEnrollmentIfMatches enrolls for  *)
  seen,        (* authRevision, 0 while authRevisionKnown is false         *)
  live,        (* owner of the open websocket                              *)
  replay,      (* owners whose cursor or envelopes are in WebsocketState   *)
  request,     (* step and account of each handler                         *)
  changes,     (* owner changes so far                                     *)
  toggles,     (* enable and disable requests so far                       *)
  shutdown,    (* Run's context is cancelled                               *)
  signedIn     (* history: owners since the connect under way loaded auth  *)

owner == <<account, noted, revision, signedIn>>
manager == <<status, enrollment, prefs>>
credentials == <<auth, recovered>>
session == <<loop, credentials, seen, live, replay>>
budget == <<changes, toggles>>
callers == <<request, budget, shutdown>>
sessionVars ==
  <<account, noted, revision, status, enrollment, prefs, loop, auth, recovered,
    seen, live, replay, request, changes, toggles, shutdown, signedIn>>

Owners == Accounts \cup {NoAccount}
Statuses == {"disabled", "connecting", "connected", "errored"}
LoopSteps ==
  {"wait", "observe", "announce", "load", "prepare", "enroll", "dial",
   "replace", "store", "swap", "failed", "error", "mark", "backoff", "changed", "retire",
   "persist", "clear", "reset", "opened", "publish", "live", "ended",
   "reconnect", "stopped"}
RequestSteps ==
  {"idle", "note", "noteRetire", "retire", "persist", "clear", "enable",
   "switchOn", "disable", "switchOff"}

Enabled == status # "disabled"
Goto(step) == loop' = step

-------------------------------------------------------------------------------
(* Manager operations.                                                     *)

(* PublishConnectionStatus overwrites whatever the status is.              *)
PublishConnectionStatus(s) == status' = s /\ UNCHANGED <<enrollment, prefs>>

(* replaceCurrentEnrollment                                                *)
ReplaceCurrentEnrollment(a) ==
  /\ enrollment' = IF enrollment \in {NoAccount, a} THEN a ELSE enrollment
  /\ UNCHANGED <<status, prefs>>

(* The disabled preference is written for the enrollment that was read; a  *)
(* failed write does not stop the retirement.                              *)
PersistDisabled(a) ==
  prefs' \in {prefs, prefs \ {a}} /\ UNCHANGED <<status, enrollment>>

(* AuthRecovery reads the credentials again, whoever they belong to now.   *)
Recover == {account} \ {NoAccount}

(* The last critical section of RetireForAuthChange.                       *)
ClearSession ==
  status' = "disabled" /\ enrollment' = NoAccount /\ UNCHANGED prefs

-------------------------------------------------------------------------------

(* Remote control only: connecting, nothing enrolled.                      *)
SessionInit ==
  /\ account \in Owners
  /\ noted = account
  /\ revision = 1
  /\ status = "connecting"
  /\ enrollment = NoAccount
  /\ prefs = {}
  /\ loop = "wait"
  /\ auth = NoAccount /\ recovered = NoAccount
  /\ seen = 0
  /\ live = NoAccount
  /\ replay = {}
  /\ request = [h \in Handlers |-> [at |-> "idle", acct |-> NoAccount]]
  /\ changes = 0 /\ toggles = 0
  /\ shutdown = FALSE
  /\ signedIn = {}

-------------------------------------------------------------------------------
(* RemoteControlWebsocketLoop.Run                                          *)

WaitUntilEnabled ==
  /\ loop = "wait"
  /\ IF Enabled THEN Goto("observe") ELSE shutdown /\ Goto("stopped")
  /\ UNCHANGED <<owner, manager, credentials, seen, live, replay, callers>>

(* observeAuthRevision before and after connect: the answer is ignored.    *)
ObserveAuthRevision(at, next) ==
  /\ loop = at
  /\ seen' = revision
  /\ Goto(next)
  /\ UNCHANGED <<owner, manager, credentials, live, replay, callers>>

Publish(at, next, s) ==
  /\ loop = at
  /\ PublishConnectionStatus(s)
  /\ Goto(next)
  /\ UNCHANGED <<owner, credentials, seen, live, replay, callers>>

(* prepareWebsocketEnrollment: AuthLoader, which may fail.                 *)
LoadAuth ==
  /\ loop = "load"
  /\ \E a \in {account, NoAccount} :
       /\ auth' = a
       /\ IF a = NoAccount
          THEN enrollment' = NoAccount /\ Goto("failed")
          ELSE UNCHANGED enrollment /\ Goto("prepare")
  /\ signedIn' = {account} \ {NoAccount}
  /\ UNCHANGED <<account, noted, revision, status, prefs, recovered, seen, live, replay,
                 callers>>

(* ... the enrollment of another account is dropped ...                    *)
PrepareEnrollment ==
  /\ loop = "prepare"
  /\ enrollment' = IF enrollment = auth THEN enrollment ELSE NoAccount
  /\ Goto("enroll")
  /\ UNCHANGED <<owner, status, prefs, credentials, seen, live, replay, callers>>

(* ... and this account is enrolled, at first or again when the server is  *)
(* gone: enrollRemoteControlServerWithRecovery goes on with the recovered  *)
(* credentials when the backend denies these ...                           *)
EnrollRecovers ==
  /\ loop = "enroll"
  /\ auth' \in Recover
  /\ UNCHANGED <<owner, manager, loop, recovered, seen, live, replay, callers>>

(* ... or its enrollment is loaded or refreshed, and put back.  A failed   *)
(* refresh puts it back, too.                                              *)
Enroll ==
  /\ loop = "enroll"
  /\ \/ UNCHANGED manager /\ Goto("failed")
     \/ ReplaceCurrentEnrollment(auth) /\ Goto("failed")
     \/ /\ enrollment \in {NoAccount, auth}
        /\ ReplaceCurrentEnrollment(auth)
        /\ Goto("dial")
  /\ UNCHANGED <<owner, credentials, seen, live, replay, callers>>

Dial ==
  /\ loop = "dial"
  /\ \/ /\ ~shutdown /\ Goto("opened")
        /\ live' = auth /\ auth' = NoAccount /\ signedIn' = {}
     \/ Goto("failed") /\ UNCHANGED <<live, auth, signedIn>>
     \/ enrollment = auth /\ Goto("replace") /\ UNCHANGED <<live, auth, signedIn>>
  /\ UNCHANGED <<account, noted, revision, manager, recovered, seen, replay, callers>>

(* replaceWebsocketEnrollmentIfMatches: the app server is missing, so one  *)
(* is enrolled again, for this account or for the recovered one, ...       *)
EnrollAgain ==
  /\ loop = "replace"
  /\ \/ Goto("failed") /\ UNCHANGED recovered
     \/ Goto("store") /\ recovered' \in {auth} \cup Recover
  /\ UNCHANGED <<owner, manager, auth, seen, live, replay, callers>>

(* ... stored, which enables a preference that was not stored before, ...  *)
StoreReplacement ==
  /\ loop = "store"
  /\ \/ Goto("failed") /\ recovered' = NoAccount /\ UNCHANGED prefs
     \/ /\ Goto("swap") /\ UNCHANGED recovered
        /\ prefs' \in {prefs, prefs \cup {recovered}}
  /\ UNCHANGED <<owner, status, enrollment, auth, seen, live, replay, callers>>

(* Mutant: the enrollment is not compared with the stale one again.        *)
SwapAnyEnrollment ==
  /\ loop = "swap"
  /\ enrollment' = recovered
  /\ recovered' = NoAccount
  /\ Goto("failed")
  /\ UNCHANGED <<owner, status, prefs, auth, seen, live, replay, callers>>

(* ... and put in place of the stale one, if that is still there: another  *)
(* one of the same account may be.                                         *)
SwapEnrollment ==
  /\ loop = "swap"
  /\ enrollment' \in {enrollment} \cup IF enrollment = auth THEN {recovered} ELSE {}
  /\ recovered' = NoAccount
  /\ Goto("failed")
  /\ UNCHANGED <<owner, status, prefs, auth, seen, live, replay, callers>>

(* Mutant: a failed connect does not look at the context.                  *)
ConnectFailedRetries ==
  /\ loop = "failed"
  /\ Goto(IF Enabled THEN "error" ELSE "wait")
  /\ auth' = NoAccount /\ signedIn' = {}
  /\ UNCHANGED <<account, noted, revision, manager, recovered, seen, live, replay,
                 callers>>

ConnectFailed ==
  /\ loop = "failed"
  /\ Goto(IF shutdown THEN "stopped" ELSE IF Enabled THEN "error" ELSE "wait")
  /\ auth' = NoAccount /\ signedIn' = {}
  /\ UNCHANGED <<account, noted, revision, manager, recovered, seen, live, replay,
                 callers>>

(* markRecoveryAuthChangeSeenIfNeeded: after a credential recovery one     *)
(* change is taken for the recovery's own.                                 *)
MarkRecoveryAuthChange ==
  /\ loop = "mark"
  /\ seen' \in {seen, IF revision = seen + 1 THEN revision ELSE seen}
  /\ Goto("backoff")
  /\ UNCHANGED <<owner, manager, credentials, live, replay, callers>>

(* waitForReconnect: the context, the timer or a tick.                     *)
WaitForReconnect ==
  /\ loop = "backoff"
  /\ \/ shutdown /\ Goto("stopped") /\ UNCHANGED seen
     \/ Goto("wait") /\ UNCHANGED seen
     \/ Enabled /\ seen # revision /\ Goto("changed") /\ seen' = revision
  /\ UNCHANGED <<owner, manager, credentials, live, replay, callers>>

(* authSessionActive: a session started while signed out is kept.          *)
AuthChangedWhileWaiting ==
  /\ loop = "changed"
  /\ Goto(IF enrollment # NoAccount THEN "retire" ELSE "wait")
  /\ UNCHANGED <<owner, manager, credentials, seen, live, replay, callers>>

(* runConnection: the workers use the WebsocketState as it is.             *)
StartConnection ==
  /\ loop = "publish"
  /\ PublishConnectionStatus("connected")
  /\ replay' = replay \cup {live}
  /\ Goto("live")
  /\ UNCHANGED <<owner, credentials, seen, live, callers>>

(* Mutant: a connection is only polled for being disabled.                 *)
PollForDisabledOnly ==
  \/ shutdown /\ Goto("stopped") /\ UNCHANGED seen
  \/ ~Enabled /\ Goto("wait") /\ UNCHANGED seen

(* The context, or the two answers of connectionPollReason on a tick.      *)
ConnectionPollReason ==
  \/ shutdown /\ Goto("stopped") /\ UNCHANGED seen
  \/ ~Enabled /\ Goto("wait") /\ UNCHANGED seen
  \/ Enabled /\ seen # revision /\ Goto("retire") /\ seen' = revision

EndConnection ==
  /\ loop = "live"
  /\ ConnectionPollReason
  /\ live' = NoAccount
  /\ UNCHANGED <<owner, manager, credentials, replay, callers>>

(* The reader or the writer returns on its own account.                    *)
WorkerStops ==
  /\ loop = "live"
  /\ Goto("ended")
  /\ live' = NoAccount
  /\ UNCHANGED <<owner, manager, credentials, seen, replay, callers>>

WorkerEnded ==
  /\ loop = "ended"
  /\ Goto(IF Enabled THEN "reconnect" ELSE "wait")
  /\ UNCHANGED <<owner, manager, credentials, seen, live, replay, callers>>

(* retireForAuthOwnerChange: RetireForAuthChange, then resetSessionState.  *)
LoopRetires ==
  /\ loop = "retire"
  /\ auth' = enrollment
  /\ Goto(IF Enabled \/ enrollment # NoAccount THEN "persist" ELSE "reset")
  /\ UNCHANGED <<owner, manager, recovered, seen, live, replay, callers>>

LoopPersists ==
  /\ loop = "persist"
  /\ PersistDisabled(auth)
  /\ Goto("clear")
  /\ UNCHANGED <<owner, credentials, seen, live, replay, callers>>

LoopClears ==
  /\ loop = "clear"
  /\ ClearSession
  /\ auth' = NoAccount
  /\ Goto("reset")
  /\ UNCHANGED <<owner, recovered, seen, live, replay, callers>>

ResetSessionState ==
  /\ loop = "reset"
  /\ replay' = {}
  /\ Goto("wait")
  /\ UNCHANGED <<owner, manager, credentials, seen, live, callers>>

Retirement == LoopRetires \/ LoopPersists \/ LoopClears \/ ResetSessionState

Connecting ==
  \/ WaitUntilEnabled
  \/ ObserveAuthRevision("observe", "announce")
  \/ Publish("announce", "load", "connecting")
  \/ LoadAuth \/ PrepareEnrollment \/ EnrollRecovers \/ Enroll \/ Dial
  \/ EnrollAgain \/ StoreReplacement \/ SwapEnrollment
  \/ ConnectFailed
  \/ Publish("error", "mark", "errored")
  \/ MarkRecoveryAuthChange \/ WaitForReconnect \/ AuthChangedWhileWaiting

Connected ==
  \/ ObserveAuthRevision("opened", "publish")
  \/ StartConnection \/ WorkerEnded
  \/ Publish("reconnect", "mark", "connecting")

Run == Connecting \/ Connected \/ EndConnection \/ Retirement

-------------------------------------------------------------------------------
(* Request handlers.                                                       *)

HandlerAt(h, step) == request[h].at = step
Step(h, step) == request' = [request EXCEPT ![h] = [at |-> step, acct |-> @.acct]]
StepFor(h, step, a) == request' = [request EXCEPT ![h] = [at |-> step, acct |-> a]]
Return(h) == StepFor(h, "idle", NoAccount)

(* A login, a logout or a switch: the stored credentials change first.  A  *)
(* login does not retire the session, the others do.                       *)
ChangeOwner(h) ==
  /\ HandlerAt(h, "idle") /\ changes < MaxChanges
  /\ \E a \in Owners \ {account} :
       /\ account' = a
       /\ \/ a # NoAccount /\ Step(h, "note")
          \/ Step(h, "noteRetire")
       /\ signedIn' = IF signedIn = {} THEN {} ELSE signedIn \cup ({a} \ {NoAccount})
  /\ changes' = changes + 1
  /\ UNCHANGED <<noted, revision, manager, session, toggles, shutdown>>

(* noteAuthChanged advances authOwnerRevision when the owner is another.   *)
NoteAuthChanged(h) ==
  /\ HandlerAt(h, "note") \/ HandlerAt(h, "noteRetire")
  /\ noted' = account
  /\ revision' = IF noted = account THEN revision ELSE revision + 1
  /\ Step(h, IF HandlerAt(h, "note") THEN "idle" ELSE "retire")
  /\ UNCHANGED <<account, signedIn, manager, session, budget, shutdown>>

HandlerRetires(h) ==
  /\ HandlerAt(h, "retire")
  /\ StepFor(h, IF Enabled \/ enrollment # NoAccount THEN "persist" ELSE "idle",
             enrollment)
  /\ UNCHANGED <<owner, manager, session, budget, shutdown>>

HandlerPersists(h) ==
  /\ HandlerAt(h, "persist")
  /\ PersistDisabled(request[h].acct)
  /\ Step(h, "clear")
  /\ UNCHANGED <<owner, session, budget, shutdown>>

HandlerClears(h) ==
  /\ HandlerAt(h, "clear")
  /\ ClearSession
  /\ Return(h)
  /\ UNCHANGED <<owner, session, budget, shutdown>>

(* enableDurable and disableDurable: the credentials are loaded, ...       *)
LoadForToggle(h) ==
  /\ HandlerAt(h, "idle") /\ toggles < MaxToggles
  /\ account # NoAccount
  /\ StepFor(h, "enable", account) \/ StepFor(h, "disable", account)
  /\ toggles' = toggles + 1
  /\ UNCHANGED <<owner, manager, session, changes, shutdown>>

(* ... an account that has no enrollment is enrolled, or the account of    *)
(* the recovered credentials when the backend denies these, ...            *)
RecoverForEnable(h) ==
  /\ HandlerAt(h, "enable")
  /\ \E a \in Recover : StepFor(h, "enable", a)
  /\ UNCHANGED <<owner, manager, session, budget, shutdown>>

(* ... the preference is stored for the account, unless that fails, ...    *)
StorePreference(h) ==
  /\ \/ HandlerAt(h, "enable") /\ prefs' = prefs \cup {request[h].acct}
                               /\ Step(h, "switchOn")
     \/ HandlerAt(h, "disable") /\ prefs' = prefs \ {request[h].acct}
                                /\ Step(h, "switchOff")
     \/ /\ HandlerAt(h, "enable") \/ HandlerAt(h, "disable")
        /\ Return(h) /\ UNCHANGED prefs
  /\ UNCHANGED <<owner, status, enrollment, session, budget, shutdown>>

(* ... and the Manager switched.                                           *)
SwitchOn(h) ==
  /\ HandlerAt(h, "switchOn")
  /\ status' = "connecting"
  /\ enrollment' = request[h].acct
  /\ Return(h)
  /\ UNCHANGED <<owner, prefs, session, budget, shutdown>>

SwitchOff(h) ==
  /\ HandlerAt(h, "switchOff")
  /\ status' = "disabled"
  /\ Return(h)
  /\ UNCHANGED <<owner, enrollment, prefs, session, budget, shutdown>>

Handle(h) ==
  \/ NoteAuthChanged(h) \/ HandlerRetires(h) \/ HandlerPersists(h)
  \/ HandlerClears(h) \/ StorePreference(h) \/ SwitchOn(h) \/ SwitchOff(h)

CancelRun ==
  /\ ~shutdown
  /\ shutdown' = TRUE
  /\ UNCHANGED <<owner, manager, session, request, budget>>

-------------------------------------------------------------------------------

SessionNext ==
  \/ Run \/ WorkerStops
  \/ \E h \in Handlers :
       ChangeOwner(h) \/ LoadForToggle(h) \/ RecoverForEnable(h) \/ Handle(h)
  \/ CancelRun

SessionSpec == SessionInit /\ [][SessionNext]_sessionVars

(* The loop's goroutine runs, every external call returns, timers fire and *)
(* the poll ticks, and a handler that started finishes.  Nothing makes a   *)
(* worker of a connection stop.                                            *)
FairSpec ==
  /\ SessionSpec
  /\ WF_sessionVars(Run)
  /\ \A h \in Handlers : WF_sessionVars(Handle(h))

-------------------------------------------------------------------------------

(* Every component of the state has its type.                              *)
SessionTypeOK ==
  /\ account \in Owners /\ noted \in Owners /\ revision \in Nat \ {0}
  /\ status \in Statuses /\ enrollment \in Owners /\ prefs \subseteq Accounts
  /\ loop \in LoopSteps /\ auth \in Owners /\ recovered \in Owners /\ seen \in Nat
  /\ live \in Owners /\ replay \subseteq Accounts
  /\ request \in [Handlers -> [at : RequestSteps, acct : Owners]]
  /\ changes \in Nat /\ toggles \in Nat /\ shutdown \in BOOLEAN
  /\ signedIn \subseteq Accounts

(* observeAuthRevision and connectionPollReason: a connection that is up   *)
(* has an owner, and a baseline against which a change of it is noticed.   *)
BaselineKnown ==
  live # NoAccount =>
    /\ loop \in {"opened", "publish", "live"}
    /\ seen \in 1 .. revision

(* prepareWebsocketEnrollment, replaceWebsocketEnrollmentIfMatches and     *)
(* replaceCurrentEnrollment: unless the user enables remote control, an    *)
(* enrollment passes from one account to another only in a connect that    *)
(* was made with it, and to an account that signed in since that connect   *)
(* loaded its credentials.  So it keeps its account while nobody signs in, *)
(* and a connect overwrites nothing the user enabled for another account.  *)
EnrollmentKeepsOwner ==
  [][enrollment # NoAccount /\ enrollment' \notin {NoAccount, enrollment} =>
       \/ \E h \in Handlers : HandlerAt(h, "switchOn") /\ HandlerAt(h, "idle")'
       \/ enrollment = auth /\ enrollment' \in signedIn]_sessionVars

(* connectionPollReason: a connection ends when the owner revision moved   *)
(* past its baseline, although neither of its workers stops.               *)
OwnerChangeEndsConnection ==
  (loop = "live" /\ seen # revision) ~> live = NoAccount

(* Run: when its context is cancelled the loop returns, wherever it was.   *)
ShutdownEndsRun == shutdown ~> loop = "stopped"

-------------------------------------------------------------------------------
(* What the comments of the repository say and the code does not do.       *)

(* websocket_loop.go on the end reasons: a live relay connection ends when *)
(* its authentication owner changes.  A change that is published before    *)
(* the baseline is taken is never noticed.                                 *)
OtherOwnersConnectionEnds ==
  (live \notin {NoAccount, account}) ~> (live \in {NoAccount, account})

===============================================================================
