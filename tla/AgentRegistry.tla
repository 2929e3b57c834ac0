----------------------------- MODULE AgentRegistry -----------------------------
(***************************************************************************)
(* The registry of one agent tree: spawn slots, nicknames and paths, with  *)
(* the operations that use it concurrently:                                *)
(*                                                                         *)
(*   spawns    take a slot, a nickname and a path one after the other,     *)
(*             create the child and commit, or give everything back;       *)
(*   closes    release the thread of a known agent;                        *)
(*   resumes   read the record of a known agent and register it again.     *)
(*                                                                         *)
(* Registry's methods hold mu, except for the slot counter, which is an    *)
(* atomic of its own; each critical section is one action.  A spawn and    *)
(* the child thread it creates have the same name here.                    *)
(***************************************************************************)
EXTENDS Integers, FiniteSets

CONSTANTS
    Spawns,             \* spawn requests, and the threads they create
    TaskPaths,          \* agent paths a request may ask for
    PathOf,             \* the path a spawn asks for; NoPath for a V1 agent
    Names,              \* the nickname candidates
    MaxThreads,         \* limit of the tree; 0 means none
    RootThread, RootPath,
    Resumers            \* resume_agent calls, each tried once

NoPath == <<>>
NoNickname == <<>>
ThreadKey(t) == <<t>>               \* the path of an agent without one

ASSUME RegistryAssumption ==
    /\ IsFiniteSet(Spawns) /\ RootThread \notin Spawns
    /\ RootPath \notin TaskPaths
    /\ NoPath \notin TaskPaths \cup {RootPath}
    /\ \A t \in Spawns : ThreadKey(t) \notin TaskPaths \cup {RootPath}
    /\ PathOf \in [Spawns -> TaskPaths \cup {NoPath}]
    /\ MaxThreads \in Nat
    /\ {"free", "reserved"} \cap (Spawns \cup {RootThread}) = {}

Threads == Spawns \cup {RootThread}
Paths == TaskPaths \cup {RootPath} \cup {ThreadKey(t) : t \in Spawns}
Nicknames == Names \X Nat           \* "Ada", "Ada the 2nd", ...

VARIABLES
    agentsByPath,       \* path -> [thread, nick]: free, reserved, or an agent
    pathByThread,       \* thread -> its path or NoPath
    usedNicknames,
    nicknameResetCount,
    totalCount,         \* spawn slots taken
    spawn,              \* spawn -> control state
    nickname,           \* spawn -> the nickname it reserved
    reservedPaths,      \* spawns whose reservation holds a path
    records,            \* children with a thread record
    resumer             \* resume call -> what it has read

registryVars == <<agentsByPath, pathByThread, usedNicknames, nicknameResetCount, totalCount>>
vars == <<registryVars, spawn, nickname, reservedPaths, records, resumer>>

Free == [thread |-> "free", nick |-> NoNickname]
Placeholder == [thread |-> "reserved", nick |-> NoNickname]
Entry == [thread : Threads \cup {"free", "reserved"}, nick : Nicknames \cup {NoNickname}]

SpawnPC == {"idle", "slot", "named", "placed", "created", "committed", "cleanup", "deleting",
            "cancelNickname", "cancelPath", "cancelSlot", "failed"}
ResumerPC == {"idle", "read", "done"}

Init ==
    /\ agentsByPath = [p \in Paths |->
          IF p = RootPath THEN [thread |-> RootThread, nick |-> NoNickname] ELSE Free]
    /\ pathByThread = [t \in Threads |-> IF t = RootThread THEN RootPath ELSE NoPath]
    /\ usedNicknames = {} /\ nicknameResetCount = 0 /\ totalCount = 0
    /\ spawn = [s \in Spawns |-> "idle"]
    /\ nickname = [s \in Spawns |-> NoNickname]
    /\ reservedPaths = {} /\ records = {}
    /\ resumer = [r \in Resumers |-> [pc |-> "idle", thread |-> RootThread]]

SpawnGoes(s, to) == spawn' = [spawn EXCEPT ![s] = to]

----------------------------------------------------------------------------
(* Operations of the registry.                                             *)

(* Mutant: the counter wraps around below zero.                            *)
DecrementedBelowZero == totalCount - 1

(* decrementSpawned stops at zero.                                         *)
Decremented == IF totalCount = 0 THEN 0 ELSE totalCount - 1

(* Mutant: the previous agent of the path keeps its reverse entry.         *)
RegisterKeepingPrevious(t, path, nick) ==
    LET key == IF path = NoPath THEN ThreadKey(t) ELSE path IN
    /\ usedNicknames' = IF nick = NoNickname THEN usedNicknames ELSE usedNicknames \cup {nick}
    /\ agentsByPath' = [p \in Paths |->
          IF p = key THEN [thread |-> t, nick |-> nick]
          ELSE IF p = pathByThread[t] THEN Free ELSE agentsByPath[p]]
    /\ pathByThread' = [pathByThread EXCEPT ![t] = key]
    /\ UNCHANGED <<nicknameResetCount, totalCount>>

(* The agent moves to its path; whoever had the path loses it.  The slot   *)
(* counter is left alone.                                                  *)
RegisterSpawnedThread(t, path, nick) ==
    LET key == IF path = NoPath THEN ThreadKey(t) ELSE path IN
    /\ usedNicknames' = IF nick = NoNickname THEN usedNicknames ELSE usedNicknames \cup {nick}
    /\ agentsByPath' = [p \in Paths |->
          IF p = key THEN [thread |-> t, nick |-> nick]
          ELSE IF p = pathByThread[t] THEN Free ELSE agentsByPath[p]]
    /\ pathByThread' = [u \in Threads |->
          IF u = t THEN key
          ELSE IF u = agentsByPath[key].thread THEN NoPath ELSE pathByThread[u]]
    /\ UNCHANGED <<nicknameResetCount, totalCount>>

(* Mutant: a released agent keeps its slot.                                *)
ReleaseKeepingSlot(t) ==
    LET path == pathByThread[t] IN
    /\ pathByThread' = [pathByThread EXCEPT ![t] = NoPath]
    /\ IF path # NoPath /\ agentsByPath[path].thread = t
       THEN /\ agentsByPath' = [agentsByPath EXCEPT ![path] = Free]
            /\ usedNicknames' = usedNicknames \ {agentsByPath[path].nick}
       ELSE UNCHANGED <<agentsByPath, usedNicknames>>
    /\ UNCHANGED <<nicknameResetCount, totalCount>>

(* A thread that is not registered is nobody's agent: nothing happens.     *)
ReleaseSpawnedThread(t) ==
    LET path == pathByThread[t] IN
    /\ pathByThread' = [pathByThread EXCEPT ![t] = NoPath]
    /\ IF path # NoPath /\ agentsByPath[path].thread = t
       THEN /\ agentsByPath' = [agentsByPath EXCEPT ![path] = Free]
            /\ usedNicknames' = usedNicknames \ {agentsByPath[path].nick}
            /\ totalCount' = IF path # RootPath THEN Decremented ELSE totalCount
       ELSE UNCHANGED <<agentsByPath, usedNicknames, totalCount>>
    /\ UNCHANGED nicknameResetCount

----------------------------------------------------------------------------
(* A spawn.                                                                *)

ReserveSpawnSlot(s) ==
    /\ spawn[s] = "idle"
    /\ IF MaxThreads > 0 /\ totalCount >= MaxThreads
       THEN SpawnGoes(s, "failed") /\ UNCHANGED totalCount
       ELSE SpawnGoes(s, "slot") /\ totalCount' = totalCount + 1
    /\ UNCHANGED <<agentsByPath, pathByThread, usedNicknames, nicknameResetCount,
                   nickname, reservedPaths, records, resumer>>

Unused == {n \in Names : <<n, nicknameResetCount>> \notin usedNicknames}

(* Mutant: an exhausted pool starts over with the same names.              *)
ReserveNicknameWithoutOrdinal(s) ==
    /\ spawn[s] = "slot" /\ SpawnGoes(s, "named")
    /\ \E n \in IF Unused = {} THEN Names ELSE Unused :
          /\ nickname' = [nickname EXCEPT ![s] = <<n, nicknameResetCount>>]
          /\ usedNicknames' = (IF Unused = {} THEN {} ELSE usedNicknames) \cup {<<n, nicknameResetCount>>}
    /\ UNCHANGED <<nicknameResetCount, agentsByPath, pathByThread, totalCount, reservedPaths, records, resumer>>

(* An exhausted pool is forgotten and starts over with the next ordinal.   *)
(* The chooser's round robin is any candidate here.                        *)
ReserveAgentNickname(s) ==
    /\ spawn[s] = "slot" /\ SpawnGoes(s, "named")
    /\ IF Names = {} THEN UNCHANGED <<nickname, usedNicknames, nicknameResetCount>>
       ELSE IF Unused # {}
       THEN /\ UNCHANGED nicknameResetCount
            /\ \E n \in Unused :
                  /\ nickname' = [nickname EXCEPT ![s] = <<n, nicknameResetCount>>]
                  /\ usedNicknames' = usedNicknames \cup {<<n, nicknameResetCount>>}
       ELSE /\ nicknameResetCount' = nicknameResetCount + 1
            /\ \E n \in Names :
                  /\ nickname' = [nickname EXCEPT ![s] = <<n, nicknameResetCount'>>]
                  /\ usedNicknames' = {<<n, nicknameResetCount'>>}
    /\ UNCHANGED <<agentsByPath, pathByThread, totalCount, reservedPaths, records, resumer>>

(* A path somebody has or reserves refuses the spawn.                      *)
ReserveAgentPath(s) ==
    /\ spawn[s] = "named"
    /\ IF PathOf[s] = NoPath
       THEN SpawnGoes(s, "placed") /\ UNCHANGED <<agentsByPath, reservedPaths>>
       ELSE IF agentsByPath[PathOf[s]] # Free
       THEN SpawnGoes(s, "cancelNickname") /\ UNCHANGED <<agentsByPath, reservedPaths>>
       ELSE /\ SpawnGoes(s, "placed")
            /\ agentsByPath' = [agentsByPath EXCEPT ![PathOf[s]] = Placeholder]
            /\ reservedPaths' = reservedPaths \cup {s}
    /\ UNCHANGED <<pathByThread, usedNicknames, nicknameResetCount, totalCount, nickname, records, resumer>>

(* The child's record is created with its path and nickname.               *)
CreateChild(s) ==
    /\ spawn[s] = "placed" /\ SpawnGoes(s, "created")
    /\ records' = records \cup {s}
    /\ UNCHANGED <<registryVars, nickname, reservedPaths, resumer>>

Commit(s) ==
    /\ spawn[s] = "created" /\ SpawnGoes(s, "committed")
    /\ RegisterSpawnedThread(s, PathOf[s], nickname[s])
    /\ reservedPaths' = reservedPaths \ {s}
    /\ UNCHANGED <<nickname, records, resumer>>

(* The spawn edge, the record or the child's first turn fails.             *)
SpawnFails(s) ==
    /\ spawn[s] \in {"placed", "created"} /\ SpawnGoes(s, "cleanup")
    /\ UNCHANGED <<registryVars, nickname, reservedPaths, records, resumer>>

(* cleanupProvisionalSpawn.                                                *)
CleanupReleases(s) ==
    /\ spawn[s] = "cleanup" /\ SpawnGoes(s, "deleting")
    /\ ReleaseSpawnedThread(s)
    /\ UNCHANGED <<nickname, reservedPaths, records, resumer>>

CleanupDeletes(s) ==
    /\ spawn[s] = "deleting" /\ SpawnGoes(s, "cancelNickname")
    /\ records' = records \ {s}
    /\ UNCHANGED <<registryVars, nickname, reservedPaths, resumer>>

(* Cancel gives back nickname, path and slot in three critical sections.   *)
CancelNickname(s) ==
    /\ spawn[s] = "cancelNickname" /\ SpawnGoes(s, "cancelPath")
    /\ usedNicknames' = usedNicknames \ {nickname[s]}
    /\ UNCHANGED <<agentsByPath, pathByThread, nicknameResetCount, totalCount,
                   nickname, reservedPaths, records, resumer>>

(* Mutant: the placeholder stays behind.                                   *)
CancelKeepingPath(s) ==
    /\ spawn[s] = "cancelPath" /\ SpawnGoes(s, "cancelSlot")
    /\ reservedPaths' = reservedPaths \ {s}
    /\ UNCHANGED <<registryVars, nickname, records, resumer>>

CancelPath(s) ==
    /\ spawn[s] = "cancelPath" /\ SpawnGoes(s, "cancelSlot")
    /\ agentsByPath' = IF s \in reservedPaths /\ agentsByPath[PathOf[s]] = Placeholder
                       THEN [agentsByPath EXCEPT ![PathOf[s]] = Free] ELSE agentsByPath
    /\ reservedPaths' = reservedPaths \ {s}
    /\ UNCHANGED <<pathByThread, usedNicknames, nicknameResetCount, totalCount, nickname, records, resumer>>

CancelSlot(s) ==
    /\ spawn[s] = "cancelSlot" /\ SpawnGoes(s, "failed")
    /\ totalCount' = Decremented
    /\ UNCHANGED <<agentsByPath, pathByThread, usedNicknames, nicknameResetCount,
                   nickname, reservedPaths, records, resumer>>

----------------------------------------------------------------------------
(* Closing and resuming known agents.                                      *)

CloseAgentThread(t) ==
    /\ t \in records
    /\ ReleaseSpawnedThread(t)
    /\ UNCHANGED <<spawn, nickname, reservedPaths, records, resumer>>

ResumeReads(r) ==
    /\ resumer[r].pc = "idle"
    /\ \E t \in records : resumer' = [resumer EXCEPT ![r] = [pc |-> "read", thread |-> t]]
    /\ UNCHANGED <<registryVars, spawn, nickname, reservedPaths, records>>

(* No slot is taken for a resumed agent.                                   *)
ResumeRegisters(r) ==
    LET t == resumer[r].thread IN
    /\ resumer[r].pc = "read"
    /\ RegisterSpawnedThread(t, PathOf[t], nickname[t])
    /\ resumer' = [resumer EXCEPT ![r] = [pc |-> "done", thread |-> t]]
    /\ UNCHANGED <<spawn, nickname, reservedPaths, records>>

----------------------------------------------------------------------------
SpawnStep(s) ==
    \/ ReserveSpawnSlot(s) \/ ReserveAgentNickname(s) \/ ReserveAgentPath(s)
    \/ CreateChild(s) \/ Commit(s) \/ SpawnFails(s)
    \/ CleanupReleases(s) \/ CleanupDeletes(s)
    \/ CancelNickname(s) \/ CancelPath(s) \/ CancelSlot(s)

ResumeStep(r) == ResumeReads(r) \/ ResumeRegisters(r)

Next ==
    \/ \E s \in Spawns : SpawnStep(s)
    \/ \E t \in Spawns : CloseAgentThread(t)
    \/ \E r \in Resumers : ResumeStep(r)

Spec == Init /\ [][Next]_vars

----------------------------------------------------------------------------
TypeOK ==
    /\ agentsByPath \in [Paths -> Entry]
    /\ pathByThread \in [Threads -> Paths \cup {NoPath}]
    /\ usedNicknames \subseteq Nicknames
    /\ nicknameResetCount \in Nat /\ totalCount \in Nat
    /\ spawn \in [Spawns -> SpawnPC]
    /\ nickname \in [Spawns -> Nicknames \cup {NoNickname}]
    /\ reservedPaths \subseteq Spawns /\ records \subseteq Spawns
    /\ resumer \in [Resumers -> [pc : ResumerPC, thread : Threads]]

Live == {t \in Spawns : pathByThread[t] # NoPath}
HoldsSlot == {s \in Spawns : spawn[s] \in
    {"slot", "named", "placed", "created", "cleanup", "deleting",
     "cancelNickname", "cancelPath", "cancelSlot"}}
NothingResumed == \A r \in Resumers : resumer[r].pc # "done"

(* TestRegistryIdentityIndexesStayBijective, for every interleaving: a     *)
(* thread's path leads back to the thread, and a path's agent knows its    *)
(* path, through commits, closes and resumes that move or replace agents.  *)
IdentitiesBijective ==
    /\ \A t \in Threads : pathByThread[t] # NoPath => agentsByPath[pathByThread[t]].thread = t
    /\ \A p \in Paths : agentsByPath[p].thread \in Threads => pathByThread[agentsByPath[p].thread] = p

(* A placeholder belongs to a spawn that will commit it or take it back:   *)
(* no interleaving of failures, closes and resumes leaves a path reserved  *)
(* by nobody, which would refuse every later agent of that name.           *)
PlaceholdersHeld ==
    \A p \in Paths : agentsByPath[p] = Placeholder => \E s \in reservedPaths : PathOf[s] = p

(* While nothing was resumed, the slot counter is the number of registered *)
(* agents and of spawns that still hold a slot, however their cancels,     *)
(* commits and closes interleave; so the limit of the tree bounds its      *)
(* agents.                                                                 *)
SlotsAccounted ==
    NothingResumed =>
        /\ totalCount = Cardinality(Live) + Cardinality(HoldsSlot)
        /\ MaxThreads > 0 => Cardinality(Live) <= MaxThreads

(* While nothing was resumed, no two agents or pending spawns have the     *)
(* same nickname or path, across resets of the nickname pool and cancels   *)
(* in three parts.                                                         *)
HoldsNickname == Live \cup {s \in Spawns : spawn[s] \in
    {"named", "placed", "created", "cleanup", "deleting", "cancelNickname"}}

NamesDistinct ==
    NothingResumed =>
        /\ \A s, u \in HoldsNickname :
              s # u /\ nickname[s] # NoNickname => nickname[s] # nickname[u]
        /\ \A s, u \in reservedPaths \cup Live :
              s # u /\ PathOf[s] # NoPath => PathOf[s] # PathOf[u]
=============================================================================
