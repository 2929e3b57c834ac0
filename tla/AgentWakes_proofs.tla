------------------------- MODULE AgentWakes_proofs -------------------------
(***************************************************************************)
(* Automatic wakes, proved for every set of mail, starts, turns and        *)
(* interrupts and any number of pauses and settings updates.               *)
(*                                                                         *)
(* That mail is in one place rests on who may touch it: whoever prepares   *)
(* a turn holds turnAdmissionMu (LockInv), so a caller's hands are empty   *)
(* when it drains the queue (HandInv); a turn is handed its input once,    *)
(* before it is active (TurnInv); and a reservation that ConsumeTurnIf     *)
(* took belongs to one actor and can never start its task (RejectInv).     *)
(***************************************************************************)
EXTENDS AgentWakes, TLAPS

(* Whoever prepares a turn holds turnAdmissionMu, and an explicit start    *)
(* that calls the wake does so with the mutex in its hands.                *)
LockInv ==
    /\ \A a \in Actors :
          pc[a] \in {"prepare", "reserve", "start", "register", "clear"} => turnAdmissionMu = a
    /\ \A s \in Starts :
          /\ pc[s] \in {"wake", "eligible", "drain", "giveBack"} => turnAdmissionMu = s
          /\ pc[s] = "submit" /\ hand[s] # {} => turnAdmissionMu = s

(* Mail is in hand from the drain to the registration or the way back.     *)
HandInv ==
    \A a \in Actors :
        /\ hand[a] # {} => pc[a] \in {"submit", "prepare", "reserve", "start", "register", "giveBack"}
        /\ a \in Starts /\ pc[a] = "prepare" => hand[a] = {}

(* The turns that went through their registration.                         *)
Begun(t) == t \in Turns /\ pc[t] \notin {"none", "accepted"}

(* A turn has neither input nor the thread before its registration, and    *)
(* never again the thread once its mail was given back.                    *)
TurnInv ==
    /\ \A t \in Turns :
          /\ ~Begun(t) => input[t] = {} /\ active # t /\ t \notin givenBack
          /\ t \in givenBack => active # t /\ t \notin taskStarted
    /\ \A a \in Actors :
          /\ pc[a] = "register" => turnOf[a] \in Turns /\ pc[turnOf[a]] = "accepted"
          /\ pc[a] = "clear" => turnOf[a] \in Turns /\ pc[turnOf[a]] = "registered"
    /\ \A i \in Interrupts :
          pc[i] \in {"stopRecord", "interruptRecord", "reject", "requeue", "take", "publish"}
          => Begun(turnOf[i])

(* A reservation that was taken belongs to one actor, which has not given  *)
(* its mail back yet; its task has not started and cannot start.           *)
RejectInv ==
    \A a \in Actors : pc[a] = "requeue" =>
        /\ Begun(Target(a)) /\ active # Target(a)
        /\ Target(a) \notin givenBack /\ Target(a) \notin taskStarted
        /\ \A b \in Actors : pc[b] = "requeue" /\ Target(b) = Target(a) => b = a

(* Where the holders of the two mutexes are.                               *)
MutexInv ==
    ~Refused =>
        /\ turnAdmissionMu \in Actors => pc[turnAdmissionMu] \in
              {"prepare", "reserve", "start", "register", "clear", "giveBack", "return"}
        /\ agentWakeMu \in Actors => pc[agentWakeMu] \in
              {"eligible", "drain", "submit", "prepare", "reserve", "start", "register",
               "clear", "giveBack", "return"}

IInv == TypeOK /\ LockInv /\ HandInv /\ TurnInv /\ RejectInv /\ MailOnce /\ MailHasWaker /\ MutexInv

----------------------------------------------------------------------------
(* Nothing is queued, held or registered at first.                         *)
LEMMA InitIInv == Init => IInv
<1> SUFFICES ASSUME Init PROVE IInv
    OBVIOUS
<1> USE WakesAssumption DEF Init, Actors
<1>a. interrupted \in BOOLEAN /\ plan \in BOOLEAN /\ paused \in BOOLEAN /\ agentWakeStopped \in BOOLEAN
    BY Zenon
<1>b. /\ pc \in [Actors -> WorkerPC \cup InterruptPC]
      /\ \A c \in Mails \cup Starts : pc[c] \in CallerPC
      /\ \A t \in Turns : pc[t] \in WorkerPC
      /\ \A i \in Interrupts : pc[i] \in InterruptPC
    BY DEF CallerPC, WorkerPC, InterruptPC
<1>1. TypeOK
    BY <1>a, <1>b DEF TypeOK
<1>2. LockInv /\ HandInv
    BY DEF LockInv, HandInv
<1>3. TurnInv /\ RejectInv
    BY DEF TurnInv, RejectInv, Begun, Target
<1>4. MailOnce
    BY DEF MailOnce, Sent, Owning
<1>5. MailHasWaker /\ MutexInv
    BY DEF MailHasWaker, MutexInv
<1>6. QED
    BY <1>1, <1>2, <1>3, <1>4, <1>5 DEF IInv

(* Every step keeps the types; only turns are registered, interrupted and  *)
(* rejected.                                                               *)
LEMMA TypeNext ==
    ASSUME TypeOK, TurnInv, [Next]_vars
    PROVE  TypeOK'
<1> USE WakesAssumption DEF TypeOK, TurnInv, Begun, Target, gateVars, lockVars, turnVars, hostVars, historyVars, Actors, CallerPC, WorkerPC, InterruptPC
<1>1. ASSUME NEW a \in Actors, Enqueue(a) PROVE TypeOK'
    BY <1>1, SMTT(30) DEF Enqueue, Goes
<1>2. ASSUME NEW a \in Actors, WakeLocks(a) PROVE TypeOK'
    BY <1>2, SMTT(30) DEF WakeLocks, Goes
<1>3. ASSUME NEW a \in Actors, WakeEligible(a) PROVE TypeOK'
    BY <1>3, SMTT(30) DEF WakeEligible, Goes
<1>4. ASSUME NEW a \in Actors, WakeDrains(a) PROVE TypeOK'
    BY <1>4, SMTT(30) DEF WakeDrains, Goes, Drains
<1>5. ASSUME NEW a \in Actors, Dispatch(a) PROVE TypeOK'
    BY <1>5, SMTT(30) DEF Dispatch, Goes
<1>6. ASSUME NEW a \in Actors, LockAdmission(a) PROVE TypeOK'
    BY <1>6, SMTT(30) DEF LockAdmission, Goes
<1>7. ASSUME NEW a \in Actors, PreparationFails(a) PROVE TypeOK'
    BY <1>7, SMTT(30) DEF PreparationFails, Goes, StartRefused
<1>8. ASSUME NEW a \in Actors, Prepared(a) PROVE TypeOK'
    BY <1>8, SMTT(30) DEF Prepared, Goes, Drains
<1>9. ASSUME NEW a \in Actors, Reserve(a) PROVE TypeOK'
    BY <1>9, SMTT(30) DEF Reserve, Goes
<1>10. ASSUME NEW a \in Actors, ReserveFails(a) PROVE TypeOK'
    BY <1>10, SMTT(30) DEF ReserveFails, Goes, StartRefused
<1>11. ASSUME NEW a \in Actors, NEW t \in Turns, TurnStarts(a, t) PROVE TypeOK'
    BY <1>11, SMTT(30) DEF TurnStarts, Goes
<1>12. ASSUME NEW a \in Actors, TurnStartFails(a) PROVE TypeOK'
    BY <1>12, SMTT(30) DEF TurnStartFails, Goes, StartRefused
<1>13. ASSUME NEW a \in Actors, RegisterTurn(a) PROVE TypeOK'
    BY <1>13, SMTT(30) DEF RegisterTurn, Goes, HandOver, RegisterRejects
<1>14. ASSUME NEW a \in Actors, RegisterFails(a) PROVE TypeOK'
  <2>1. interrupted' \in BOOLEAN
    BY <1>14, Zenon DEF RegisterFails
  <2>2. QED
    BY <1>14, <2>1, SMTT(30) DEF RegisterFails, Goes, HandOver, ClearRecord, RegisterRejects
<1>15. ASSUME NEW a \in Actors, ClearStopped(a) PROVE TypeOK'
  <2>1. agentWakeStopped' \in BOOLEAN
    BY <1>15, Zenon DEF ClearStopped
  <2>2. QED
    BY <1>15, <2>1, SMTT(30) DEF ClearStopped, Goes
<1>16. ASSUME NEW a \in Actors, GiveBack(a) PROVE TypeOK'
    BY <1>16, SMTT(30) DEF GiveBack, Goes
<1>17. ASSUME NEW a \in Actors, Return(a) PROVE TypeOK'
    BY <1>17, SMTT(30) DEF Return, Goes
<1>18. ASSUME NEW a \in Actors, Built(a) PROVE TypeOK'
    BY <1>18, SMTT(30) DEF Built, Goes
<1>19. ASSUME NEW a \in Actors, BuildFails(a) PROVE TypeOK'
    BY <1>19, SMTT(30) DEF BuildFails, Goes
<1>20. ASSUME NEW a \in Actors, Revalidate(a) PROVE TypeOK'
    BY <1>20, SMTT(30) DEF Revalidate, Goes
<1>21. ASSUME NEW a \in Actors, MarkStarted(a) PROVE TypeOK'
    BY <1>21, SMTT(30) DEF MarkStarted, Goes
<1>22. ASSUME NEW a \in Actors, RunEnds(a) PROVE TypeOK'
    BY <1>22, SMTT(30) DEF RunEnds, Goes
<1>23. ASSUME NEW a \in Actors, FailureReported(a) PROVE TypeOK'
    BY <1>23, SMTT(30) DEF FailureReported, Goes
<1>24. ASSUME NEW a \in Actors, PersistEnd(a) PROVE TypeOK'
  <2>1. interrupted' \in BOOLEAN
    BY <1>24, Zenon DEF PersistEnd
  <2>2. QED
    BY <1>24, <2>1, SMTT(30) DEF PersistEnd, Goes, ClearRecord
<1>25. ASSUME NEW a \in Actors, RejectConsumes(a) PROVE TypeOK'
    BY <1>25, SMTT(30) DEF RejectConsumes, Goes, Reservation
<1>26. ASSUME NEW a \in Actors, RejectRefused(a) PROVE TypeOK'
    BY <1>26, SMTT(30) DEF RejectRefused, Goes, Reservation
<1>27. ASSUME NEW a \in Actors, RejectRequeues(a) PROVE TypeOK'
    BY <1>27, SMTT(30) DEF RejectRequeues, Goes, ClearRecord
<1>28. ASSUME NEW a \in Actors, NEW t \in Turns, InterruptLooks(a, t) PROVE TypeOK'
    BY <1>28, SMTT(30) DEF InterruptLooks, Goes, Reservation
<1>29. ASSUME NEW a \in Actors, InterruptRecord(a) PROVE TypeOK'
    BY <1>29, SMTT(30) DEF InterruptRecord, Goes, ClearRecord
<1>30. ASSUME NEW a \in Actors, InterruptTakes(a) PROVE TypeOK'
    BY <1>30, SMTT(30) DEF InterruptTakes, Goes
<1>31. ASSUME NEW a \in Actors, InterruptPublishes(a) PROVE TypeOK'
    BY <1>31, SMTT(30) DEF InterruptPublishes, Goes
<1>32. ASSUME NEW a \in Actors, MarkStopped(a) PROVE TypeOK'
    BY <1>32, SMTT(30) DEF MarkStopped, Goes
<1>33. CASE TogglePlan
    BY <1>33, SMTT(30) DEF TogglePlan
<1>34. CASE BeginPause
    BY <1>34, SMTT(30) DEF BeginPause
<1>35. CASE EndPause
  <2>1. paused' \in BOOLEAN
    BY <1>35, Zenon DEF EndPause
  <2>2. QED
    BY <1>35, <2>1, SMTT(30) DEF EndPause
<1>36. CASE UNCHANGED vars
    BY <1>36, SMTT(30) DEF vars
<1>37. QED
    BY <1>1, <1>2, <1>3, <1>4, <1>5, <1>6, <1>7, <1>8, <1>9, <1>10, <1>11, <1>12, <1>13, <1>14, <1>15, <1>16, <1>17, <1>18, <1>19, <1>20, <1>21, <1>22, <1>23, <1>24, <1>25, <1>26, <1>27, <1>28, <1>29, <1>30, <1>31, <1>32, <1>33, <1>34, <1>35, <1>36 DEF Next, WakeStep, HandlerStep, WorkerStep, RejectStep, InterruptStep, HostStep

(* turnAdmissionMu is taken when it is free and given back by its holder.  *)
LEMMA LockNext ==
    ASSUME TypeOK, HandInv, LockInv, [Next]_vars
    PROVE  LockInv'
<1> USE WakesAssumption DEF TypeOK, LockInv, HandInv, gateVars, lockVars, turnVars, hostVars, historyVars, Actors, CallerPC, WorkerPC, InterruptPC
<1>1. ASSUME NEW a \in Actors, Enqueue(a) PROVE LockInv'
    BY <1>1, SMTT(30) DEF Enqueue, Goes
<1>2. ASSUME NEW a \in Actors, WakeLocks(a) PROVE LockInv'
    BY <1>2, SMTT(30) DEF WakeLocks, Goes
<1>3. ASSUME NEW a \in Actors, WakeEligible(a) PROVE LockInv'
    BY <1>3, SMTT(30) DEF WakeEligible, Goes
<1>4. ASSUME NEW a \in Actors, WakeDrains(a) PROVE LockInv'
    BY <1>4, SMTT(30) DEF WakeDrains, Goes, Drains
<1>5. ASSUME NEW a \in Actors, Dispatch(a) PROVE LockInv'
    BY <1>5, SMTT(30) DEF Dispatch, Goes
<1>6. ASSUME NEW a \in Actors, LockAdmission(a) PROVE LockInv'
    BY <1>6, SMTT(30) DEF LockAdmission, Goes
<1>7. ASSUME NEW a \in Actors, PreparationFails(a) PROVE LockInv'
    BY <1>7, SMTT(30) DEF PreparationFails, Goes, StartRefused
<1>8. ASSUME NEW a \in Actors, Prepared(a) PROVE LockInv'
    BY <1>8, SMTT(30) DEF Prepared, Goes, Drains
<1>9. ASSUME NEW a \in Actors, Reserve(a) PROVE LockInv'
    BY <1>9, SMTT(30) DEF Reserve, Goes
<1>10. ASSUME NEW a \in Actors, ReserveFails(a) PROVE LockInv'
    BY <1>10, SMTT(30) DEF ReserveFails, Goes, StartRefused
<1>11. ASSUME NEW a \in Actors, NEW t \in Turns, TurnStarts(a, t) PROVE LockInv'
    BY <1>11, SMTT(30) DEF TurnStarts, Goes
<1>12. ASSUME NEW a \in Actors, TurnStartFails(a) PROVE LockInv'
    BY <1>12, SMTT(30) DEF TurnStartFails, Goes, StartRefused
<1>13. ASSUME NEW a \in Actors, RegisterTurn(a) PROVE LockInv'
    BY <1>13, SMTT(30) DEF RegisterTurn, Goes, HandOver, RegisterRejects
<1>14. ASSUME NEW a \in Actors, RegisterFails(a) PROVE LockInv'
    BY <1>14, SMTT(30) DEF RegisterFails, Goes, HandOver, ClearRecord, RegisterRejects
<1>15. ASSUME NEW a \in Actors, ClearStopped(a) PROVE LockInv'
    BY <1>15, SMTT(30) DEF ClearStopped, Goes
<1>16. ASSUME NEW a \in Actors, GiveBack(a) PROVE LockInv'
    BY <1>16, SMTT(30) DEF GiveBack, Goes
<1>17. ASSUME NEW a \in Actors, Return(a) PROVE LockInv'
    BY <1>17, SMTT(30) DEF Return, Goes
<1>18. ASSUME NEW a \in Actors, Built(a) PROVE LockInv'
    BY <1>18, SMTT(30) DEF Built, Goes
<1>19. ASSUME NEW a \in Actors, BuildFails(a) PROVE LockInv'
    BY <1>19, SMTT(30) DEF BuildFails, Goes
<1>20. ASSUME NEW a \in Actors, Revalidate(a) PROVE LockInv'
    BY <1>20, SMTT(30) DEF Revalidate, Goes
<1>21. ASSUME NEW a \in Actors, MarkStarted(a) PROVE LockInv'
    BY <1>21, SMTT(30) DEF MarkStarted, Goes
<1>22. ASSUME NEW a \in Actors, RunEnds(a) PROVE LockInv'
    BY <1>22, SMTT(30) DEF RunEnds, Goes
<1>23. ASSUME NEW a \in Actors, FailureReported(a) PROVE LockInv'
    BY <1>23, SMTT(30) DEF FailureReported, Goes
<1>24. ASSUME NEW a \in Actors, PersistEnd(a) PROVE LockInv'
    BY <1>24, SMTT(30) DEF PersistEnd, Goes, ClearRecord
<1>25. ASSUME NEW a \in Actors, RejectConsumes(a) PROVE LockInv'
    BY <1>25, SMTT(30) DEF RejectConsumes, Goes, Target, Reservation
<1>26. ASSUME NEW a \in Actors, RejectRefused(a) PROVE LockInv'
    BY <1>26, SMTT(30) DEF RejectRefused, Goes, Target, Reservation
<1>27. ASSUME NEW a \in Actors, RejectRequeues(a) PROVE LockInv'
    BY <1>27, SMTT(30) DEF RejectRequeues, Goes, ClearRecord, Target
<1>28. ASSUME NEW a \in Actors, NEW t \in Turns, InterruptLooks(a, t) PROVE LockInv'
    BY <1>28, SMTT(30) DEF InterruptLooks, Goes, Reservation
<1>29. ASSUME NEW a \in Actors, InterruptRecord(a) PROVE LockInv'
    BY <1>29, SMTT(30) DEF InterruptRecord, Goes, ClearRecord
<1>30. ASSUME NEW a \in Actors, InterruptTakes(a) PROVE LockInv'
    BY <1>30, SMTT(30) DEF InterruptTakes, Goes
<1>31. ASSUME NEW a \in Actors, InterruptPublishes(a) PROVE LockInv'
    BY <1>31, SMTT(30) DEF InterruptPublishes, Goes
<1>32. ASSUME NEW a \in Actors, MarkStopped(a) PROVE LockInv'
    BY <1>32, SMTT(30) DEF MarkStopped, Goes
<1>33. CASE TogglePlan
    BY <1>33, SMTT(30) DEF TogglePlan
<1>34. CASE BeginPause
    BY <1>34, SMTT(30) DEF BeginPause
<1>35. CASE EndPause
    BY <1>35, SMTT(30) DEF EndPause
<1>36. CASE UNCHANGED vars
    BY <1>36, SMTT(30) DEF vars
<1>37. QED
    BY <1>1, <1>2, <1>3, <1>4, <1>5, <1>6, <1>7, <1>8, <1>9, <1>10, <1>11, <1>12, <1>13, <1>14, <1>15, <1>16, <1>17, <1>18, <1>19, <1>20, <1>21, <1>22, <1>23, <1>24, <1>25, <1>26, <1>27, <1>28, <1>29, <1>30, <1>31, <1>32, <1>33, <1>34, <1>35, <1>36 DEF Next, WakeStep, HandlerStep, WorkerStep, RejectStep, InterruptStep, HostStep

(* A start that enters handleTurnStart has nothing in its hands yet, since *)
(* one that does holds the mutex it waits for.                             *)
LEMMA HandNext ==
    ASSUME TypeOK, LockInv, HandInv, TurnInv, [Next]_vars
    PROVE  HandInv'
<1> USE WakesAssumption DEF TypeOK, LockInv, HandInv, TurnInv, Begun, gateVars, lockVars, turnVars, hostVars, historyVars, Actors, CallerPC, WorkerPC, InterruptPC
<1>1. ASSUME NEW a \in Actors, Enqueue(a) PROVE HandInv'
    BY <1>1, SMTT(30) DEF Enqueue, Goes
<1>2. ASSUME NEW a \in Actors, WakeLocks(a) PROVE HandInv'
    BY <1>2, SMTT(30) DEF WakeLocks, Goes
<1>3. ASSUME NEW a \in Actors, WakeEligible(a) PROVE HandInv'
    BY <1>3, SMTT(30) DEF WakeEligible, Goes
<1>4. ASSUME NEW a \in Actors, WakeDrains(a) PROVE HandInv'
    BY <1>4, SMTT(30) DEF WakeDrains, Goes, Drains
<1>5. ASSUME NEW a \in Actors, Dispatch(a) PROVE HandInv'
    BY <1>5, SMTT(30) DEF Dispatch, Goes
<1>6. ASSUME NEW a \in Actors, LockAdmission(a) PROVE HandInv'
    BY <1>6, SMTT(30) DEF LockAdmission, Goes
<1>7. ASSUME NEW a \in Actors, PreparationFails(a) PROVE HandInv'
    BY <1>7, SMTT(30) DEF PreparationFails, Goes, StartRefused
<1>8. ASSUME NEW a \in Actors, Prepared(a) PROVE HandInv'
    BY <1>8, SMTT(30) DEF Prepared, Goes, Drains
<1>9. ASSUME NEW a \in Actors, Reserve(a) PROVE HandInv'
    BY <1>9, SMTT(30) DEF Reserve, Goes
<1>10. ASSUME NEW a \in Actors, ReserveFails(a) PROVE HandInv'
    BY <1>10, SMTT(30) DEF ReserveFails, Goes, StartRefused
<1>11. ASSUME NEW a \in Actors, NEW t \in Turns, TurnStarts(a, t) PROVE HandInv'
    BY <1>11, SMTT(30) DEF TurnStarts, Goes
<1>12. ASSUME NEW a \in Actors, TurnStartFails(a) PROVE HandInv'
    BY <1>12, SMTT(30) DEF TurnStartFails, Goes, StartRefused
<1>13. ASSUME NEW a \in Actors, RegisterTurn(a) PROVE HandInv'
    BY <1>13, SMTT(30) DEF RegisterTurn, Goes, HandOver, RegisterRejects
<1>14. ASSUME NEW a \in Actors, RegisterFails(a) PROVE HandInv'
    BY <1>14, SMTT(30) DEF RegisterFails, Goes, HandOver, ClearRecord, RegisterRejects
<1>15. ASSUME NEW a \in Actors, ClearStopped(a) PROVE HandInv'
    BY <1>15, SMTT(30) DEF ClearStopped, Goes
<1>16. ASSUME NEW a \in Actors, GiveBack(a) PROVE HandInv'
    BY <1>16, SMTT(30) DEF GiveBack, Goes
<1>17. ASSUME NEW a \in Actors, Return(a) PROVE HandInv'
    BY <1>17, SMTT(30) DEF Return, Goes
<1>18. ASSUME NEW a \in Actors, Built(a) PROVE HandInv'
    BY <1>18, SMTT(30) DEF Built, Goes
<1>19. ASSUME NEW a \in Actors, BuildFails(a) PROVE HandInv'
    BY <1>19, SMTT(30) DEF BuildFails, Goes
<1>20. ASSUME NEW a \in Actors, Revalidate(a) PROVE HandInv'
    BY <1>20, SMTT(30) DEF Revalidate, Goes
<1>21. ASSUME NEW a \in Actors, MarkStarted(a) PROVE HandInv'
    BY <1>21, SMTT(30) DEF MarkStarted, Goes
<1>22. ASSUME NEW a \in Actors, RunEnds(a) PROVE HandInv'
    BY <1>22, SMTT(30) DEF RunEnds, Goes
<1>23. ASSUME NEW a \in Actors, FailureReported(a) PROVE HandInv'
    BY <1>23, SMTT(30) DEF FailureReported, Goes
<1>24. ASSUME NEW a \in Actors, PersistEnd(a) PROVE HandInv'
    BY <1>24, SMTT(30) DEF PersistEnd, Goes, ClearRecord
<1>25. ASSUME NEW a \in Actors, RejectConsumes(a) PROVE HandInv'
    BY <1>25, SMTT(30) DEF RejectConsumes, Goes, Target, Reservation
<1>26. ASSUME NEW a \in Actors, RejectRefused(a) PROVE HandInv'
    BY <1>26, SMTT(30) DEF RejectRefused, Goes, Target, Reservation
<1>27. ASSUME NEW a \in Actors, RejectRequeues(a) PROVE HandInv'
    BY <1>27, SMTT(30) DEF RejectRequeues, Goes, ClearRecord, Target
<1>28. ASSUME NEW a \in Actors, NEW t \in Turns, InterruptLooks(a, t) PROVE HandInv'
    BY <1>28, SMTT(30) DEF InterruptLooks, Goes, Reservation
<1>29. ASSUME NEW a \in Actors, InterruptRecord(a) PROVE HandInv'
    BY <1>29, SMTT(30) DEF InterruptRecord, Goes, ClearRecord
<1>30. ASSUME NEW a \in Actors, InterruptTakes(a) PROVE HandInv'
    BY <1>30, SMTT(30) DEF InterruptTakes, Goes
<1>31. ASSUME NEW a \in Actors, InterruptPublishes(a) PROVE HandInv'
    BY <1>31, SMTT(30) DEF InterruptPublishes, Goes
<1>32. ASSUME NEW a \in Actors, MarkStopped(a) PROVE HandInv'
    BY <1>32, SMTT(30) DEF MarkStopped, Goes
<1>33. CASE TogglePlan
    BY <1>33, SMTT(30) DEF TogglePlan
<1>34. CASE BeginPause
    BY <1>34, SMTT(30) DEF BeginPause
<1>35. CASE EndPause
    BY <1>35, SMTT(30) DEF EndPause
<1>36. CASE UNCHANGED vars
    BY <1>36, SMTT(30) DEF vars
<1>37. QED
    BY <1>1, <1>2, <1>3, <1>4, <1>5, <1>6, <1>7, <1>8, <1>9, <1>10, <1>11, <1>12, <1>13, <1>14, <1>15, <1>16, <1>17, <1>18, <1>19, <1>20, <1>21, <1>22, <1>23, <1>24, <1>25, <1>26, <1>27, <1>28, <1>29, <1>30, <1>31, <1>32, <1>33, <1>34, <1>35, <1>36 DEF Next, WakeStep, HandlerStep, WorkerStep, RejectStep, InterruptStep, HostStep

(* A turn is registered by the one holder of turnAdmissionMu, is given     *)
(* back by who took it, and starts its task only while it is active.       *)
LEMMA TurnNext ==
    ASSUME TypeOK, LockInv, TurnInv, RejectInv, [Next]_vars
    PROVE  TurnInv'
<1> USE WakesAssumption DEF TypeOK, LockInv, TurnInv, RejectInv, Begun, Target, gateVars, lockVars, turnVars, hostVars, historyVars, Actors, CallerPC, WorkerPC, InterruptPC
<1>1. ASSUME NEW a \in Actors, Enqueue(a) PROVE TurnInv'
    BY <1>1, SMTT(30) DEF Enqueue, Goes
<1>2. ASSUME NEW a \in Actors, WakeLocks(a) PROVE TurnInv'
    BY <1>2, SMTT(30) DEF WakeLocks, Goes
<1>3. ASSUME NEW a \in Actors, WakeEligible(a) PROVE TurnInv'
    BY <1>3, SMTT(30) DEF WakeEligible, Goes
<1>4. ASSUME NEW a \in Actors, WakeDrains(a) PROVE TurnInv'
    BY <1>4, SMTT(30) DEF WakeDrains, Goes, Drains
<1>5. ASSUME NEW a \in Actors, Dispatch(a) PROVE TurnInv'
    BY <1>5, SMTT(30) DEF Dispatch, Goes
<1>6. ASSUME NEW a \in Actors, LockAdmission(a) PROVE TurnInv'
    BY <1>6, SMTT(30) DEF LockAdmission, Goes
<1>7. ASSUME NEW a \in Actors, PreparationFails(a) PROVE TurnInv'
    BY <1>7, SMTT(30) DEF PreparationFails, Goes, StartRefused
<1>8. ASSUME NEW a \in Actors, Prepared(a) PROVE TurnInv'
    BY <1>8, SMTT(30) DEF Prepared, Goes, Drains
<1>9. ASSUME NEW a \in Actors, Reserve(a) PROVE TurnInv'
    BY <1>9, SMTT(30) DEF Reserve, Goes
<1>10. ASSUME NEW a \in Actors, ReserveFails(a) PROVE TurnInv'
    BY <1>10, SMTT(30) DEF ReserveFails, Goes, StartRefused
<1>11. ASSUME NEW a \in Actors, NEW t \in Turns, TurnStarts(a, t) PROVE TurnInv'
    BY <1>11, SMTT(30) DEF TurnStarts, Goes
<1>12. ASSUME NEW a \in Actors, TurnStartFails(a) PROVE TurnInv'
    BY <1>12, SMTT(30) DEF TurnStartFails, Goes, StartRefused
<1>13. ASSUME NEW a \in Actors, RegisterTurn(a) PROVE TurnInv'
    BY <1>13, SMTT(30) DEF RegisterTurn, Goes, HandOver, RegisterRejects
<1>14. ASSUME NEW a \in Actors, RegisterFails(a) PROVE TurnInv'
    BY <1>14, SMTT(30) DEF RegisterFails, Goes, HandOver, ClearRecord, RegisterRejects
<1>15. ASSUME NEW a \in Actors, ClearStopped(a) PROVE TurnInv'
    BY <1>15, SMTT(30) DEF ClearStopped, Goes
<1>16. ASSUME NEW a \in Actors, GiveBack(a) PROVE TurnInv'
    BY <1>16, SMTT(30) DEF GiveBack, Goes
<1>17. ASSUME NEW a \in Actors, Return(a) PROVE TurnInv'
    BY <1>17, SMTT(30) DEF Return, Goes
<1>18. ASSUME NEW a \in Actors, Built(a) PROVE TurnInv'
    BY <1>18, SMTT(30) DEF Built, Goes
<1>19. ASSUME NEW a \in Actors, BuildFails(a) PROVE TurnInv'
    BY <1>19, SMTT(30) DEF BuildFails, Goes
<1>20. ASSUME NEW a \in Actors, Revalidate(a) PROVE TurnInv'
    BY <1>20, SMTT(30) DEF Revalidate, Goes
<1>21. ASSUME NEW a \in Actors, MarkStarted(a) PROVE TurnInv'
    BY <1>21, SMTT(30) DEF MarkStarted, Goes
<1>22. ASSUME NEW a \in Actors, RunEnds(a) PROVE TurnInv'
    BY <1>22, SMTT(30) DEF RunEnds, Goes
<1>23. ASSUME NEW a \in Actors, FailureReported(a) PROVE TurnInv'
    BY <1>23, SMTT(30) DEF FailureReported, Goes
<1>24. ASSUME NEW a \in Actors, PersistEnd(a) PROVE TurnInv'
    BY <1>24, SMTT(30) DEF PersistEnd, Goes, ClearRecord
<1>25. ASSUME NEW a \in Actors, RejectConsumes(a) PROVE TurnInv'
    BY <1>25, SMTT(30) DEF RejectConsumes, Goes, Reservation
<1>26. ASSUME NEW a \in Actors, RejectRefused(a) PROVE TurnInv'
    BY <1>26, SMTT(30) DEF RejectRefused, Goes, Reservation
<1>27. ASSUME NEW a \in Actors, RejectRequeues(a) PROVE TurnInv'
    BY <1>27, SMTT(30) DEF RejectRequeues, Goes, ClearRecord
<1>28. ASSUME NEW a \in Actors, NEW t \in Turns, InterruptLooks(a, t) PROVE TurnInv'
    BY <1>28, SMTT(30) DEF InterruptLooks, Goes, Reservation
<1>29. ASSUME NEW a \in Actors, InterruptRecord(a) PROVE TurnInv'
    BY <1>29, SMTT(30) DEF InterruptRecord, Goes, ClearRecord
<1>30. ASSUME NEW a \in Actors, InterruptTakes(a) PROVE TurnInv'
    BY <1>30, SMTT(30) DEF InterruptTakes, Goes
<1>31. ASSUME NEW a \in Actors, InterruptPublishes(a) PROVE TurnInv'
    BY <1>31, SMTT(30) DEF InterruptPublishes, Goes
<1>32. ASSUME NEW a \in Actors, MarkStopped(a) PROVE TurnInv'
    BY <1>32, SMTT(30) DEF MarkStopped, Goes
<1>33. CASE TogglePlan
    BY <1>33, SMTT(30) DEF TogglePlan
<1>34. CASE BeginPause
    BY <1>34, SMTT(30) DEF BeginPause
<1>35. CASE EndPause
    BY <1>35, SMTT(30) DEF EndPause
<1>36. CASE UNCHANGED vars
    BY <1>36, SMTT(30) DEF vars
<1>37. QED
    BY <1>1, <1>2, <1>3, <1>4, <1>5, <1>6, <1>7, <1>8, <1>9, <1>10, <1>11, <1>12, <1>13, <1>14, <1>15, <1>16, <1>17, <1>18, <1>19, <1>20, <1>21, <1>22, <1>23, <1>24, <1>25, <1>26, <1>27, <1>28, <1>29, <1>30, <1>31, <1>32, <1>33, <1>34, <1>35, <1>36 DEF Next, WakeStep, HandlerStep, WorkerStep, RejectStep, InterruptStep, HostStep

(* ConsumeTurnIf takes a reservation that is active and not started, so    *)
(* nobody else has taken it, and MarkStarted comes too late for it.        *)
LEMMA RejectNext ==
    ASSUME TypeOK, TurnInv, RejectInv, [Next]_vars
    PROVE  RejectInv'
<1> USE WakesAssumption DEF TypeOK, TurnInv, RejectInv, Begun, Target, gateVars, lockVars, turnVars, hostVars, historyVars, Actors, CallerPC, WorkerPC, InterruptPC
<1>1. ASSUME NEW a \in Actors, Enqueue(a) PROVE RejectInv'
    BY <1>1, SMTT(30) DEF Enqueue, Goes
<1>2. ASSUME NEW a \in Actors, WakeLocks(a) PROVE RejectInv'
    BY <1>2, SMTT(30) DEF WakeLocks, Goes
<1>3. ASSUME NEW a \in Actors, WakeEligible(a) PROVE RejectInv'
    BY <1>3, SMTT(30) DEF WakeEligible, Goes
<1>4. ASSUME NEW a \in Actors, WakeDrains(a) PROVE RejectInv'
    BY <1>4, SMTT(30) DEF WakeDrains, Goes, Drains
<1>5. ASSUME NEW a \in Actors, Dispatch(a) PROVE RejectInv'
    BY <1>5, SMTT(30) DEF Dispatch, Goes
<1>6. ASSUME NEW a \in Actors, LockAdmission(a) PROVE RejectInv'
    BY <1>6, SMTT(30) DEF LockAdmission, Goes
<1>7. ASSUME NEW a \in Actors, PreparationFails(a) PROVE RejectInv'
    BY <1>7, SMTT(30) DEF PreparationFails, Goes, StartRefused
<1>8. ASSUME NEW a \in Actors, Prepared(a) PROVE RejectInv'
    BY <1>8, SMTT(30) DEF Prepared, Goes, Drains
<1>9. ASSUME NEW a \in Actors, Reserve(a) PROVE RejectInv'
    BY <1>9, SMTT(30) DEF Reserve, Goes
<1>10. ASSUME NEW a \in Actors, ReserveFails(a) PROVE RejectInv'
    BY <1>10, SMTT(30) DEF ReserveFails, Goes, StartRefused
<1>11. ASSUME NEW a \in Actors, NEW t \in Turns, TurnStarts(a, t) PROVE RejectInv'
    BY <1>11, SMTT(30) DEF TurnStarts, Goes
<1>12. ASSUME NEW a \in Actors, TurnStartFails(a) PROVE RejectInv'
    BY <1>12, SMTT(30) DEF TurnStartFails, Goes, StartRefused
<1>13. ASSUME NEW a \in Actors, RegisterTurn(a) PROVE RejectInv'
    BY <1>13, SMTT(30) DEF RegisterTurn, Goes, HandOver, RegisterRejects
<1>14. ASSUME NEW a \in Actors, RegisterFails(a) PROVE RejectInv'
    BY <1>14, SMTT(30) DEF RegisterFails, Goes, HandOver, ClearRecord, RegisterRejects
<1>15. ASSUME NEW a \in Actors, ClearStopped(a) PROVE RejectInv'
    BY <1>15, SMTT(30) DEF ClearStopped, Goes
<1>16. ASSUME NEW a \in Actors, GiveBack(a) PROVE RejectInv'
    BY <1>16, SMTT(30) DEF GiveBack, Goes
<1>17. ASSUME NEW a \in Actors, Return(a) PROVE RejectInv'
    BY <1>17, SMTT(30) DEF Return, Goes
<1>18. ASSUME NEW a \in Actors, Built(a) PROVE RejectInv'
    BY <1>18, SMTT(30) DEF Built, Goes
<1>19. ASSUME NEW a \in Actors, BuildFails(a) PROVE RejectInv'
    BY <1>19, SMTT(30) DEF BuildFails, Goes
<1>20. ASSUME NEW a \in Actors, Revalidate(a) PROVE RejectInv'
    BY <1>20, SMTT(30) DEF Revalidate, Goes
<1>21. ASSUME NEW a \in Actors, MarkStarted(a) PROVE RejectInv'
    BY <1>21, SMTT(30) DEF MarkStarted, Goes
<1>22. ASSUME NEW a \in Actors, RunEnds(a) PROVE RejectInv'
    BY <1>22, SMTT(30) DEF RunEnds, Goes
<1>23. ASSUME NEW a \in Actors, FailureReported(a) PROVE RejectInv'
    BY <1>23, SMTT(30) DEF FailureReported, Goes
<1>24. ASSUME NEW a \in Actors, PersistEnd(a) PROVE RejectInv'
    BY <1>24, SMTT(30) DEF PersistEnd, Goes, ClearRecord
<1>25. ASSUME NEW a \in Actors, RejectConsumes(a) PROVE RejectInv'
    BY <1>25, SMTT(30) DEF RejectConsumes, Goes, Reservation
<1>26. ASSUME NEW a \in Actors, RejectRefused(a) PROVE RejectInv'
    BY <1>26, SMTT(30) DEF RejectRefused, Goes, Reservation
<1>27. ASSUME NEW a \in Actors, RejectRequeues(a) PROVE RejectInv'
    BY <1>27, SMTT(30) DEF RejectRequeues, Goes, ClearRecord
<1>28. ASSUME NEW a \in Actors, NEW t \in Turns, InterruptLooks(a, t) PROVE RejectInv'
    BY <1>28, SMTT(30) DEF InterruptLooks, Goes, Reservation
<1>29. ASSUME NEW a \in Actors, InterruptRecord(a) PROVE RejectInv'
    BY <1>29, SMTT(30) DEF InterruptRecord, Goes, ClearRecord
<1>30. ASSUME NEW a \in Actors, InterruptTakes(a) PROVE RejectInv'
    BY <1>30, SMTT(30) DEF InterruptTakes, Goes
<1>31. ASSUME NEW a \in Actors, InterruptPublishes(a) PROVE RejectInv'
    BY <1>31, SMTT(30) DEF InterruptPublishes, Goes
<1>32. ASSUME NEW a \in Actors, MarkStopped(a) PROVE RejectInv'
    BY <1>32, SMTT(30) DEF MarkStopped, Goes
<1>33. CASE TogglePlan
    BY <1>33, SMTT(30) DEF TogglePlan
<1>34. CASE BeginPause
    BY <1>34, SMTT(30) DEF BeginPause
<1>35. CASE EndPause
    BY <1>35, SMTT(30) DEF EndPause
<1>36. CASE UNCHANGED vars
    BY <1>36, SMTT(30) DEF vars
<1>37. QED
    BY <1>1, <1>2, <1>3, <1>4, <1>5, <1>6, <1>7, <1>8, <1>9, <1>10, <1>11, <1>12, <1>13, <1>14, <1>15, <1>16, <1>17, <1>18, <1>19, <1>20, <1>21, <1>22, <1>23, <1>24, <1>25, <1>26, <1>27, <1>28, <1>29, <1>30, <1>31, <1>32, <1>33, <1>34, <1>35, <1>36 DEF Next, WakeStep, HandlerStep, WorkerStep, RejectStep, InterruptStep, HostStep

(* Each step moves mail from one place to an empty one, or back to the     *)
(* queue.                                                                  *)
LEMMA MailNext ==
    ASSUME TypeOK, LockInv, HandInv, TurnInv, RejectInv, MailOnce, [Next]_vars
    PROVE  MailOnce'
<1> USE WakesAssumption DEF TypeOK, LockInv, HandInv, TurnInv, RejectInv, Begun, Target, MailOnce, Sent, Owning, gateVars, lockVars, turnVars, hostVars, historyVars, Actors, CallerPC, WorkerPC, InterruptPC
<1>1. ASSUME NEW a \in Actors, Enqueue(a) PROVE MailOnce'
    BY <1>1, SMTT(30) DEF Enqueue, Goes
<1>2. ASSUME NEW a \in Actors, WakeLocks(a) PROVE MailOnce'
    BY <1>2, SMTT(30) DEF WakeLocks, Goes
<1>3. ASSUME NEW a \in Actors, WakeEligible(a) PROVE MailOnce'
    BY <1>3, SMTT(30) DEF WakeEligible, Goes
<1>4. ASSUME NEW a \in Actors, WakeDrains(a) PROVE MailOnce'
    BY <1>4, SMTT(30) DEF WakeDrains, Goes, Drains
<1>5. ASSUME NEW a \in Actors, Dispatch(a) PROVE MailOnce'
    BY <1>5, SMTT(30) DEF Dispatch, Goes
<1>6. ASSUME NEW a \in Actors, LockAdmission(a) PROVE MailOnce'
    BY <1>6, SMTT(30) DEF LockAdmission, Goes
<1>7. ASSUME NEW a \in Actors, PreparationFails(a) PROVE MailOnce'
    BY <1>7, SMTT(30) DEF PreparationFails, Goes, StartRefused
<1>8. ASSUME NEW a \in Actors, Prepared(a) PROVE MailOnce'
    BY <1>8, SMTT(30) DEF Prepared, Goes, Drains
<1>9. ASSUME NEW a \in Actors, Reserve(a) PROVE MailOnce'
    BY <1>9, SMTT(30) DEF Reserve, Goes
<1>10. ASSUME NEW a \in Actors, ReserveFails(a) PROVE MailOnce'
    BY <1>10, SMTT(30) DEF ReserveFails, Goes, StartRefused
<1>11. ASSUME NEW a \in Actors, NEW t \in Turns, TurnStarts(a, t) PROVE MailOnce'
    BY <1>11, SMTT(30) DEF TurnStarts, Goes
<1>12. ASSUME NEW a \in Actors, TurnStartFails(a) PROVE MailOnce'
    BY <1>12, SMTT(30) DEF TurnStartFails, Goes, StartRefused
<1>13. ASSUME NEW a \in Actors, RegisterTurn(a) PROVE MailOnce'
    BY <1>13, SMTT(30) DEF RegisterTurn, Goes, HandOver, RegisterRejects
<1>14. ASSUME NEW a \in Actors, RegisterFails(a) PROVE MailOnce'
    BY <1>14, SMTT(30) DEF RegisterFails, Goes, HandOver, ClearRecord, RegisterRejects
<1>15. ASSUME NEW a \in Actors, ClearStopped(a) PROVE MailOnce'
    BY <1>15, SMTT(30) DEF ClearStopped, Goes
<1>16. ASSUME NEW a \in Actors, GiveBack(a) PROVE MailOnce'
    BY <1>16, SMTT(30) DEF GiveBack, Goes
<1>17. ASSUME NEW a \in Actors, Return(a) PROVE MailOnce'
    BY <1>17, SMTT(30) DEF Return, Goes
<1>18. ASSUME NEW a \in Actors, Built(a) PROVE MailOnce'
    BY <1>18, SMTT(30) DEF Built, Goes
<1>19. ASSUME NEW a \in Actors, BuildFails(a) PROVE MailOnce'
    BY <1>19, SMTT(30) DEF BuildFails, Goes
<1>20. ASSUME NEW a \in Actors, Revalidate(a) PROVE MailOnce'
    BY <1>20, SMTT(30) DEF Revalidate, Goes
<1>21. ASSUME NEW a \in Actors, MarkStarted(a) PROVE MailOnce'
    BY <1>21, SMTT(30) DEF MarkStarted, Goes
<1>22. ASSUME NEW a \in Actors, RunEnds(a) PROVE MailOnce'
    BY <1>22, SMTT(30) DEF RunEnds, Goes
<1>23. ASSUME NEW a \in Actors, FailureReported(a) PROVE MailOnce'
    BY <1>23, SMTT(30) DEF FailureReported, Goes
<1>24. ASSUME NEW a \in Actors, PersistEnd(a) PROVE MailOnce'
    BY <1>24, SMTT(30) DEF PersistEnd, Goes, ClearRecord
<1>25. ASSUME NEW a \in Actors, RejectConsumes(a) PROVE MailOnce'
    BY <1>25, SMTT(30) DEF RejectConsumes, Goes, Reservation
<1>26. ASSUME NEW a \in Actors, RejectRefused(a) PROVE MailOnce'
    BY <1>26, SMTT(30) DEF RejectRefused, Goes, Reservation
<1>27. ASSUME NEW a \in Actors, RejectRequeues(a) PROVE MailOnce'
    BY <1>27, SMTT(30) DEF RejectRequeues, Goes, ClearRecord
<1>28. ASSUME NEW a \in Actors, NEW t \in Turns, InterruptLooks(a, t) PROVE MailOnce'
    BY <1>28, SMTT(30) DEF InterruptLooks, Goes, Reservation
<1>29. ASSUME NEW a \in Actors, InterruptRecord(a) PROVE MailOnce'
    BY <1>29, SMTT(30) DEF InterruptRecord, Goes, ClearRecord
<1>30. ASSUME NEW a \in Actors, InterruptTakes(a) PROVE MailOnce'
    BY <1>30, SMTT(30) DEF InterruptTakes, Goes
<1>31. ASSUME NEW a \in Actors, InterruptPublishes(a) PROVE MailOnce'
    BY <1>31, SMTT(30) DEF InterruptPublishes, Goes
<1>32. ASSUME NEW a \in Actors, MarkStopped(a) PROVE MailOnce'
    BY <1>32, SMTT(30) DEF MarkStopped, Goes
<1>33. CASE TogglePlan
    BY <1>33, SMTT(30) DEF TogglePlan
<1>34. CASE BeginPause
    BY <1>34, SMTT(30) DEF BeginPause
<1>35. CASE EndPause
    BY <1>35, SMTT(30) DEF EndPause
<1>36. CASE UNCHANGED vars
    BY <1>36, SMTT(30) DEF vars
<1>37. QED
    BY <1>1, <1>2, <1>3, <1>4, <1>5, <1>6, <1>7, <1>8, <1>9, <1>10, <1>11, <1>12, <1>13, <1>14, <1>15, <1>16, <1>17, <1>18, <1>19, <1>20, <1>21, <1>22, <1>23, <1>24, <1>25, <1>26, <1>27, <1>28, <1>29, <1>30, <1>31, <1>32, <1>33, <1>34, <1>35, <1>36 DEF Next, WakeStep, HandlerStep, WorkerStep, RejectStep, InterruptStep, HostStep

(* Whoever takes the thread from a turn looks for mail later or parks it,  *)
(* and a caller leaves the wake only with the queue empty, parked or a     *)
(* turn registered.                                                        *)
LEMMA WakerNext ==
    ASSUME TypeOK, TurnInv, MailHasWaker, [Next]_vars
    PROVE  MailHasWaker'
<1> USE WakesAssumption DEF TypeOK, TurnInv, Begun, Target, MailHasWaker, OnTheWay, gateVars, lockVars, turnVars, hostVars, historyVars, Actors
<1>1. ASSUME NEW a \in Actors, Enqueue(a) PROVE MailHasWaker'
    BY <1>1, SMTT(30) DEF Enqueue, Goes
<1>2. ASSUME NEW a \in Actors, WakeLocks(a) PROVE MailHasWaker'
    BY <1>2, SMTT(30) DEF WakeLocks, Goes
<1>3. ASSUME NEW a \in Actors, WakeEligible(a) PROVE MailHasWaker'
    BY <1>3, SMTT(30) DEF WakeEligible, Goes
<1>4. ASSUME NEW a \in Actors, WakeDrains(a) PROVE MailHasWaker'
    BY <1>4, SMTT(30) DEF WakeDrains, Goes, Drains
<1>5. ASSUME NEW a \in Actors, Dispatch(a) PROVE MailHasWaker'
    BY <1>5, SMTT(30) DEF Dispatch, Goes
<1>6. ASSUME NEW a \in Actors, LockAdmission(a) PROVE MailHasWaker'
    BY <1>6, SMTT(30) DEF LockAdmission, Goes
<1>7. ASSUME NEW a \in Actors, PreparationFails(a) PROVE MailHasWaker'
    BY <1>7, SMTT(30) DEF PreparationFails, Goes, StartRefused
<1>8. ASSUME NEW a \in Actors, Prepared(a) PROVE MailHasWaker'
    BY <1>8, SMTT(30) DEF Prepared, Goes, Drains
<1>9. ASSUME NEW a \in Actors, Reserve(a) PROVE MailHasWaker'
    BY <1>9, SMTT(30) DEF Reserve, Goes
<1>10. ASSUME NEW a \in Actors, ReserveFails(a) PROVE MailHasWaker'
    BY <1>10, SMTT(30) DEF ReserveFails, Goes, StartRefused
<1>11. ASSUME NEW a \in Actors, NEW t \in Turns, TurnStarts(a, t) PROVE MailHasWaker'
    BY <1>11, SMTT(30) DEF TurnStarts, Goes
<1>12. ASSUME NEW a \in Actors, TurnStartFails(a) PROVE MailHasWaker'
    BY <1>12, SMTT(30) DEF TurnStartFails, Goes, StartRefused
<1>13. ASSUME NEW a \in Actors, RegisterTurn(a) PROVE MailHasWaker'
    BY <1>13, SMTT(30) DEF RegisterTurn, Goes, HandOver, RegisterRejects
<1>14. ASSUME NEW a \in Actors, RegisterFails(a) PROVE MailHasWaker'
    BY <1>14, SMTT(30) DEF RegisterFails, Goes, HandOver, ClearRecord, RegisterRejects
<1>15. ASSUME NEW a \in Actors, ClearStopped(a) PROVE MailHasWaker'
    BY <1>15, SMTT(30) DEF ClearStopped, Goes
<1>16. ASSUME NEW a \in Actors, GiveBack(a) PROVE MailHasWaker'
    BY <1>16, SMTT(30) DEF GiveBack, Goes
<1>17. ASSUME NEW a \in Actors, Return(a) PROVE MailHasWaker'
    BY <1>17, SMTT(30) DEF Return, Goes
<1>18. ASSUME NEW a \in Actors, Built(a) PROVE MailHasWaker'
    BY <1>18, SMTT(30) DEF Built, Goes
<1>19. ASSUME NEW a \in Actors, BuildFails(a) PROVE MailHasWaker'
    BY <1>19, SMTT(30) DEF BuildFails, Goes
<1>20. ASSUME NEW a \in Actors, Revalidate(a) PROVE MailHasWaker'
    BY <1>20, SMTT(30) DEF Revalidate, Goes
<1>21. ASSUME NEW a \in Actors, MarkStarted(a) PROVE MailHasWaker'
    BY <1>21, SMTT(30) DEF MarkStarted, Goes
<1>22. ASSUME NEW a \in Actors, RunEnds(a) PROVE MailHasWaker'
    BY <1>22, SMTT(30) DEF RunEnds, Goes
<1>23. ASSUME NEW a \in Actors, FailureReported(a) PROVE MailHasWaker'
    BY <1>23, SMTT(30) DEF FailureReported, Goes
<1>24. ASSUME NEW a \in Actors, PersistEnd(a) PROVE MailHasWaker'
    BY <1>24, SMTT(30) DEF PersistEnd, Goes, ClearRecord
<1>25. ASSUME NEW a \in Actors, RejectConsumes(a) PROVE MailHasWaker'
    BY <1>25, SMTT(30) DEF RejectConsumes, Goes, Reservation
<1>26. ASSUME NEW a \in Actors, RejectRefused(a) PROVE MailHasWaker'
    BY <1>26, SMTT(30) DEF RejectRefused, Goes, Reservation
<1>27. ASSUME NEW a \in Actors, RejectRequeues(a) PROVE MailHasWaker'
    BY <1>27, SMTT(30) DEF RejectRequeues, Goes, ClearRecord
<1>28. ASSUME NEW a \in Actors, NEW t \in Turns, InterruptLooks(a, t) PROVE MailHasWaker'
    BY <1>28, SMTT(30) DEF InterruptLooks, Goes, Reservation
<1>29. ASSUME NEW a \in Actors, InterruptRecord(a) PROVE MailHasWaker'
    BY <1>29, SMTT(30) DEF InterruptRecord, Goes, ClearRecord
<1>30. ASSUME NEW a \in Actors, InterruptTakes(a) PROVE MailHasWaker'
    BY <1>30, SMTT(30) DEF InterruptTakes, Goes
<1>31. ASSUME NEW a \in Actors, InterruptPublishes(a) PROVE MailHasWaker'
    BY <1>31, SMTT(30) DEF InterruptPublishes, Goes
<1>32. ASSUME NEW a \in Actors, MarkStopped(a) PROVE MailHasWaker'
    BY <1>32, SMTT(30) DEF MarkStopped, Goes
<1>33. CASE TogglePlan
    BY <1>33, SMTT(30) DEF TogglePlan
<1>34. CASE BeginPause
    BY <1>34, SMTT(30) DEF BeginPause
<1>35. CASE EndPause
    BY <1>35, SMTT(30) DEF EndPause
<1>36. CASE UNCHANGED vars
    BY <1>36, SMTT(30) DEF vars
<1>37. QED
    BY <1>1, <1>2, <1>3, <1>4, <1>5, <1>6, <1>7, <1>8, <1>9, <1>10, <1>11, <1>12, <1>13, <1>14, <1>15, <1>16, <1>17, <1>18, <1>19, <1>20, <1>21, <1>22, <1>23, <1>24, <1>25, <1>26, <1>27, <1>28, <1>29, <1>30, <1>31, <1>32, <1>33, <1>34, <1>35, <1>36 DEF Next, WakeStep, HandlerStep, WorkerStep, RejectStep, InterruptStep, HostStep

(* The holders of the mutexes move on inside their critical sections; only *)
(* the report of a refused registration calls the wake from inside one.    *)
LEMMA MutexNext ==
    ASSUME TypeOK, LockInv, TurnInv, MutexInv, [Next]_vars
    PROVE  MutexInv'
<1> USE WakesAssumption DEF TypeOK, LockInv, TurnInv, Begun, MutexInv, Refused, gateVars, lockVars, turnVars, hostVars, historyVars, Actors, CallerPC, WorkerPC, InterruptPC
<1>1. ASSUME NEW a \in Actors, Enqueue(a) PROVE MutexInv'
    BY <1>1, SMTT(30) DEF Enqueue, Goes
<1>2. ASSUME NEW a \in Actors, WakeLocks(a) PROVE MutexInv'
    BY <1>2, SMTT(30) DEF WakeLocks, Goes
<1>3. ASSUME NEW a \in Actors, WakeEligible(a) PROVE MutexInv'
    BY <1>3, SMTT(30) DEF WakeEligible, Goes
<1>4. ASSUME NEW a \in Actors, WakeDrains(a) PROVE MutexInv'
    BY <1>4, SMTT(30) DEF WakeDrains, Goes, Drains
<1>5. ASSUME NEW a \in Actors, Dispatch(a) PROVE MutexInv'
    BY <1>5, SMTT(30) DEF Dispatch, Goes
<1>6. ASSUME NEW a \in Actors, LockAdmission(a) PROVE MutexInv'
    BY <1>6, SMTT(30) DEF LockAdmission, Goes
<1>7. ASSUME NEW a \in Actors, PreparationFails(a) PROVE MutexInv'
    BY <1>7, SMTT(30) DEF PreparationFails, Goes, StartRefused
<1>8. ASSUME NEW a \in Actors, Prepared(a) PROVE MutexInv'
    BY <1>8, SMTT(30) DEF Prepared, Goes, Drains
<1>9. ASSUME NEW a \in Actors, Reserve(a) PROVE MutexInv'
    BY <1>9, SMTT(30) DEF Reserve, Goes
<1>10. ASSUME NEW a \in Actors, ReserveFails(a) PROVE MutexInv'
    BY <1>10, SMTT(30) DEF ReserveFails, Goes, StartRefused
<1>11. ASSUME NEW a \in Actors, NEW t \in Turns, TurnStarts(a, t) PROVE MutexInv'
    BY <1>11, SMTT(30) DEF TurnStarts, Goes
<1>12. ASSUME NEW a \in Actors, TurnStartFails(a) PROVE MutexInv'
    BY <1>12, SMTT(30) DEF TurnStartFails, Goes, StartRefused
<1>13. ASSUME NEW a \in Actors, RegisterTurn(a) PROVE MutexInv'
    BY <1>13, SMTT(30) DEF RegisterTurn, Goes, HandOver, RegisterRejects
<1>14. ASSUME NEW a \in Actors, RegisterFails(a) PROVE MutexInv'
    BY <1>14, SMTT(30) DEF RegisterFails, Goes, HandOver, ClearRecord, RegisterRejects
<1>15. ASSUME NEW a \in Actors, ClearStopped(a) PROVE MutexInv'
    BY <1>15, SMTT(30) DEF ClearStopped, Goes
<1>16. ASSUME NEW a \in Actors, GiveBack(a) PROVE MutexInv'
    BY <1>16, SMTT(30) DEF GiveBack, Goes
<1>17. ASSUME NEW a \in Actors, Return(a) PROVE MutexInv'
    BY <1>17, SMTT(30) DEF Return, Goes
<1>18. ASSUME NEW a \in Actors, Built(a) PROVE MutexInv'
    BY <1>18, SMTT(30) DEF Built, Goes
<1>19. ASSUME NEW a \in Actors, BuildFails(a) PROVE MutexInv'
    BY <1>19, SMTT(30) DEF BuildFails, Goes
<1>20. ASSUME NEW a \in Actors, Revalidate(a) PROVE MutexInv'
    BY <1>20, SMTT(30) DEF Revalidate, Goes
<1>21. ASSUME NEW a \in Actors, MarkStarted(a) PROVE MutexInv'
    BY <1>21, SMTT(30) DEF MarkStarted, Goes
<1>22. ASSUME NEW a \in Actors, RunEnds(a) PROVE MutexInv'
    BY <1>22, SMTT(30) DEF RunEnds, Goes
<1>23. ASSUME NEW a \in Actors, FailureReported(a) PROVE MutexInv'
    BY <1>23, SMTT(30) DEF FailureReported, Goes
<1>24. ASSUME NEW a \in Actors, PersistEnd(a) PROVE MutexInv'
    BY <1>24, SMTT(30) DEF PersistEnd, Goes, ClearRecord
<1>25. ASSUME NEW a \in Actors, RejectConsumes(a) PROVE MutexInv'
    BY <1>25, SMTT(30) DEF RejectConsumes, Goes, Target, Reservation
<1>26. ASSUME NEW a \in Actors, RejectRefused(a) PROVE MutexInv'
    BY <1>26, SMTT(30) DEF RejectRefused, Goes, Target, Reservation
<1>27. ASSUME NEW a \in Actors, RejectRequeues(a) PROVE MutexInv'
    BY <1>27, SMTT(30) DEF RejectRequeues, Goes, ClearRecord, Target
<1>28. ASSUME NEW a \in Actors, NEW t \in Turns, InterruptLooks(a, t) PROVE MutexInv'
    BY <1>28, SMTT(30) DEF InterruptLooks, Goes, Reservation
<1>29. ASSUME NEW a \in Actors, InterruptRecord(a) PROVE MutexInv'
    BY <1>29, SMTT(30) DEF InterruptRecord, Goes, ClearRecord
<1>30. ASSUME NEW a \in Actors, InterruptTakes(a) PROVE MutexInv'
    BY <1>30, SMTT(30) DEF InterruptTakes, Goes
<1>31. ASSUME NEW a \in Actors, InterruptPublishes(a) PROVE MutexInv'
    BY <1>31, SMTT(30) DEF InterruptPublishes, Goes
<1>32. ASSUME NEW a \in Actors, MarkStopped(a) PROVE MutexInv'
    BY <1>32, SMTT(30) DEF MarkStopped, Goes
<1>33. CASE TogglePlan
    BY <1>33, SMTT(30) DEF TogglePlan
<1>34. CASE BeginPause
    BY <1>34, SMTT(30) DEF BeginPause
<1>35. CASE EndPause
    BY <1>35, SMTT(30) DEF EndPause
<1>36. CASE UNCHANGED vars
    BY <1>36, SMTT(30) DEF vars
<1>37. QED
    BY <1>1, <1>2, <1>3, <1>4, <1>5, <1>6, <1>7, <1>8, <1>9, <1>10, <1>11, <1>12, <1>13, <1>14, <1>15, <1>16, <1>17, <1>18, <1>19, <1>20, <1>21, <1>22, <1>23, <1>24, <1>25, <1>26, <1>27, <1>28, <1>29, <1>30, <1>31, <1>32, <1>33, <1>34, <1>35, <1>36 DEF Next, WakeStep, HandlerStep, WorkerStep, RejectStep, InterruptStep, HostStep

----------------------------------------------------------------------------
(* The inductive invariant holds in every reachable state.                 *)
THEOREM WakesInvariant == Spec => []IInv
<1>1. IInv /\ [Next]_vars => IInv'
    BY TypeNext, LockNext, HandNext, TurnNext, RejectNext, MailNext, WakerNext, MutexNext DEF IInv
<1>2. QED
    BY InitIInv, <1>1, PTL DEF Spec

(* The queue, the turns, the mutexes and the actors keep their types.      *)
THEOREM TypeCorrect == Spec => []TypeOK
<1>1. IInv => TypeOK
    BY DEF IInv
<1>2. QED
    BY WakesInvariant, <1>1, PTL

(* However senders, starts, workers and interrupts compete, every piece of *)
(* mail is in the queue, in one actor's hands or in one turn's input, and  *)
(* a reserved wake's mail is started or given back, never both.            *)
THEOREM MailIsInOnePlace == Spec => []MailOnce
<1>1. IInv => MailOnce
    BY DEF IInv
<1>2. QED
    BY WakesInvariant, <1>1, PTL

(* No wake-up is lost at the end of a turn: mail that nobody gave back or  *)
(* refused has somebody on the way to it while no turn is registered.      *)
THEOREM NoWakeIsLost == Spec => []MailHasWaker
<1>1. IInv => MailHasWaker
    BY DEF IInv
<1>2. QED
    BY WakesInvariant, <1>1, PTL

(* While no registration is refused, agentWakeMu is taken before           *)
(* turnAdmissionMu, never after it, and both are given back.               *)
THEOREM MutexesAreHandedOn == Spec => []MutexesHandedOn
<1>1. IInv => MutexesHandedOn
    BY DEF IInv, MutexInv, MutexesHandedOn
<1>2. QED
    BY WakesInvariant, <1>1, PTL

=============================================================================
