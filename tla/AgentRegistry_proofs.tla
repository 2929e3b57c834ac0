------------------------- MODULE AgentRegistry_proofs -------------------------
(***************************************************************************)
(* Proofs about AgentRegistry, for every set of spawns, paths, nicknames,  *)
(* resumes and every limit: the two identity indexes stay inverse of each  *)
(* other, no placeholder is orphaned, and until the first resume slots,    *)
(* paths and nicknames are accounted for.                                  *)
(***************************************************************************)
EXTENDS AgentRegistry, FiniteSetTheorems, TLAPS

(* The root keeps its path, and nobody takes an agent's own key.           *)
KeysKept ==
    /\ agentsByPath[RootPath].thread = RootThread
    /\ \A t \in Spawns : agentsByPath[ThreadKey(t)].thread \in {t, "free"}

ResumesKnown == \A r \in Resumers : resumer[r].pc = "read" => resumer[r].thread \in Spawns

IndexInv ==
    /\ TypeOK
    /\ IdentitiesBijective
    /\ KeysKept
    /\ PlaceholdersHeld
    /\ ResumesKnown

(* The key an agent is registered under.                                   *)
Key(t, path) == IF path = NoPath THEN ThreadKey(t) ELSE path

(* A spawn keeps its own placeholder from ReserveAgentPath to Commit.      *)
ReservationsHold ==
    /\ \A s \in reservedPaths : PathOf[s] # NoPath /\ agentsByPath[PathOf[s]] = Placeholder
    /\ \A s, u \in reservedPaths : PathOf[s] = PathOf[u] => s = u
    /\ \A s \in Spawns : spawn[s] \in {"placed", "created"} /\ PathOf[s] # NoPath => s \in reservedPaths

(* An agent is a committed spawn, on the path and with the name it asked.  *)
LiveCommitted ==
    \A s \in Live :
        /\ spawn[s] = "committed"
        /\ pathByThread[s] = Key(s, PathOf[s])
        /\ agentsByPath[pathByThread[s]].nick = nickname[s]

SlotsCounted ==
    /\ totalCount = Cardinality(Live) + Cardinality(HoldsSlot)
    /\ MaxThreads > 0 => totalCount <= MaxThreads

SlotFacts == ReservationsHold /\ LiveCommitted /\ SlotsCounted
SlotInv == NothingResumed => SlotFacts

(* A name of the current round is remembered while somebody has it.        *)
NicknamesRemembered ==
    \A s \in HoldsNickname : nickname[s] # NoNickname =>
        /\ nickname[s][2] <= nicknameResetCount
        /\ nickname[s][2] = nicknameResetCount => nickname[s] \in usedNicknames

NicknamesDistinct ==
    \A s, u \in HoldsNickname : s # u /\ nickname[s] # NoNickname => nickname[s] # nickname[u]

NameFacts == NicknamesRemembered /\ NicknamesDistinct
NameInv == NothingResumed => SlotFacts /\ NameFacts

----------------------------------------------------------------------------
(* Names of paths and threads do not collide.                              *)

LEMMA Keys ==
    /\ NoPath \notin Paths /\ RootPath \in Paths /\ TaskPaths \subseteq Paths
    /\ \A t \in Spawns : ThreadKey(t) \in Paths /\ ThreadKey(t) # RootPath /\ ThreadKey(t) \notin TaskPaths
    /\ \A t, u \in Spawns : ThreadKey(t) = ThreadKey(u) => t = u
    /\ RootPath \notin TaskPaths /\ RootThread \notin Spawns
    /\ "free" \notin Threads /\ "reserved" \notin Threads
<1>1. \A t \in Spawns : ThreadKey(t) # NoPath
  BY DEF ThreadKey, NoPath
<1>2. \A t, u \in Spawns : ThreadKey(t) = ThreadKey(u) => t = u
  BY DEF ThreadKey
<1> QED
  BY <1>1, <1>2, RegistryAssumption DEF Paths, Threads

(* Every spawn registers under a path of its own or one it asked for.      *)
LEMMA KeyOfSpawn ==
    ASSUME NEW t \in Spawns
    PROVE  /\ Key(t, PathOf[t]) \in Paths /\ Key(t, PathOf[t]) # RootPath
           /\ \A u \in Spawns : Key(t, PathOf[t]) = ThreadKey(u) => u = t
           /\ PathOf[t] \in TaskPaths \cup {NoPath}
BY Keys, RegistryAssumption DEF Key

(* Registering, moving and evicting keep the indexes inverse.              *)
LEMMA RegisterKeeps ==
    ASSUME TypeOK, IdentitiesBijective, KeysKept, NEW t \in Spawns,
           NEW nick \in Nicknames \cup {NoNickname}, RegisterSpawnedThread(t, PathOf[t], nick)
    PROVE  /\ agentsByPath' \in [Paths -> Entry]
           /\ pathByThread' \in [Threads -> Paths \cup {NoPath}]
           /\ usedNicknames' \subseteq Nicknames
           /\ IdentitiesBijective' /\ KeysKept'
<1> DEFINE key == Key(t, PathOf[t])
<1>1. key \in Paths /\ key # RootPath /\ key # NoPath /\ \A u \in Spawns : key = ThreadKey(u) => u = t
  BY KeyOfSpawn, Keys
<1>2. /\ agentsByPath' = [p \in Paths |->
            IF p = key THEN [thread |-> t, nick |-> nick]
            ELSE IF p = pathByThread[t] THEN Free ELSE agentsByPath[p]]
      /\ pathByThread' = [u \in Threads |->
            IF u = t THEN key
            ELSE IF u = agentsByPath[key].thread THEN NoPath ELSE pathByThread[u]]
      /\ usedNicknames' = IF nick = NoNickname THEN usedNicknames ELSE usedNicknames \cup {nick}
  BY DEF RegisterSpawnedThread, Key
<1>3. t \in Threads /\ t # RootThread /\ Free \in Entry /\ Free.thread = "free"
      /\ [thread |-> t, nick |-> nick] \in Entry
  BY Keys DEF Threads, Free, Entry
<1> HIDE DEF key
<1>4. /\ agentsByPath' \in [Paths -> Entry]
      /\ pathByThread' \in [Threads -> Paths \cup {NoPath}]
      /\ usedNicknames' \subseteq Nicknames
  BY <1>1, <1>2, <1>3 DEF TypeOK
<1>5. ASSUME NEW u \in Threads, pathByThread'[u] # NoPath PROVE agentsByPath'[pathByThread'[u]].thread = u
  <2>1. CASE u = t
    BY <1>1, <1>2, <1>3, <2>1
  <2>2. CASE u # t
    <3>1. pathByThread'[u] = pathByThread[u] /\ u # agentsByPath[key].thread
      BY <1>2, <1>5, <2>2
    <3>2. pathByThread[u] \in Paths /\ agentsByPath[pathByThread[u]].thread = u
      BY <1>5, <3>1 DEF TypeOK, IdentitiesBijective
    <3>3. pathByThread[u] # key /\ pathByThread[u] # pathByThread[t]
      BY <1>3, <1>5, <2>2, <3>1, <3>2 DEF IdentitiesBijective
    <3> QED
      BY <1>2, <3>1, <3>2, <3>3
  <2> QED
    BY <2>1, <2>2
<1>6. ASSUME NEW p \in Paths, agentsByPath'[p].thread \in Threads PROVE pathByThread'[agentsByPath'[p].thread] = p
  <2>1. CASE p = key
    BY <1>2, <1>3, <2>1
  <2>2. CASE p # key
    <3>1. p # pathByThread[t] /\ agentsByPath'[p] = agentsByPath[p]
      BY <1>2, <1>3, <1>6, <2>2, Keys
    <3>2. pathByThread[agentsByPath[p].thread] = p
      BY <1>6, <3>1 DEF IdentitiesBijective
    <3>3. agentsByPath[p].thread # t
      BY <3>1, <3>2
    <3>4. agentsByPath[p].thread # agentsByPath[key].thread
      <4>1. agentsByPath[key].thread \in Threads => pathByThread[agentsByPath[key].thread] = key
        BY <1>1 DEF IdentitiesBijective
      <4> QED
        BY <1>6, <2>2, <3>1, <3>2, <4>1
    <3> QED
      BY <1>2, <1>6, <3>1, <3>2, <3>3, <3>4
  <2> QED
    BY <2>1, <2>2
<1>7. KeysKept'
  <2>1. pathByThread[t] # RootPath
    BY <1>3, Keys DEF KeysKept, IdentitiesBijective, TypeOK
  <2>2. agentsByPath'[RootPath].thread = RootThread
    BY <1>1, <1>2, <2>1, Keys DEF KeysKept
  <2>3. ASSUME NEW u \in Spawns PROVE agentsByPath'[ThreadKey(u)].thread \in {u, "free"}
    BY <1>1, <1>2, <1>3, Keys DEF KeysKept
  <2> QED
    BY <2>2, <2>3 DEF KeysKept
<1> QED
  BY <1>4, <1>5, <1>6, <1>7 DEF IdentitiesBijective

(* So does releasing an agent, and a release of anything else does nothing. *)
LEMMA ReleaseKeeps ==
    ASSUME TypeOK, IdentitiesBijective, KeysKept, NEW t \in Spawns, ReleaseSpawnedThread(t)
    PROVE  /\ agentsByPath' \in [Paths -> Entry]
           /\ pathByThread' \in [Threads -> Paths \cup {NoPath}]
           /\ usedNicknames' \subseteq Nicknames
           /\ totalCount' \in Nat /\ totalCount' <= totalCount
           /\ IdentitiesBijective' /\ KeysKept'
<1>1. t \in Threads /\ t # RootThread /\ Free \in Entry /\ Free.thread = "free"
  BY Keys DEF Threads, Free, Entry
<1>2. pathByThread' = [pathByThread EXCEPT ![t] = NoPath]
  BY DEF ReleaseSpawnedThread
<1>3. CASE pathByThread[t] = NoPath
  <2>1. UNCHANGED <<agentsByPath, usedNicknames, totalCount>> /\ pathByThread' = pathByThread
    BY <1>1, <1>2, <1>3 DEF ReleaseSpawnedThread, TypeOK
  <2> QED
    BY <2>1 DEF TypeOK, IdentitiesBijective, KeysKept
<1>4. CASE pathByThread[t] # NoPath
  <2> DEFINE p == pathByThread[t]
  <2>1. p \in Paths /\ agentsByPath[p].thread = t /\ p # RootPath
    BY <1>1, <1>4, Keys DEF TypeOK, IdentitiesBijective, KeysKept
  <2>2. /\ agentsByPath' = [agentsByPath EXCEPT ![p] = Free]
        /\ usedNicknames' = usedNicknames \ {agentsByPath[p].nick}
        /\ totalCount' = Decremented
    BY <1>4, <2>1 DEF ReleaseSpawnedThread
  <2>3. totalCount' \in Nat /\ totalCount' <= totalCount
    BY <2>2 DEF Decremented, TypeOK
  <2>4. IdentitiesBijective'
    BY <1>1, <1>2, <2>1, <2>2, Keys DEF TypeOK, IdentitiesBijective
  <2>5. KeysKept'
    BY <1>1, <2>1, <2>2, Keys DEF TypeOK, KeysKept
  <2> QED
    BY <1>1, <1>2, <2>1, <2>2, <2>3, <2>4, <2>5 DEF TypeOK
<1> QED
  BY <1>3, <1>4

----------------------------------------------------------------------------
(* The index invariant holds at first and is kept by every step.           *)

LEMMA InitEstablishes == Init => IndexInv
<1> SUFFICES ASSUME Init PROVE IndexInv
  OBVIOUS
<1>1. /\ Free \in Entry /\ [thread |-> RootThread, nick |-> NoNickname] \in Entry
      /\ RootThread \in Threads /\ Free.thread = "free" /\ Free # Placeholder
  BY DEF Free, Placeholder, Entry, Threads
<1>2. TypeOK
  BY <1>1, Keys DEF Init, TypeOK, SpawnPC, ResumerPC
<1>3. IdentitiesBijective
  BY <1>1, Keys DEF Init, IdentitiesBijective
<1>4. KeysKept /\ PlaceholdersHeld /\ ResumesKnown
  <2>1. \A p \in Paths : agentsByPath[p] # Placeholder
    BY <1>1, Keys DEF Init, Placeholder, Threads
  <2> QED
    BY <1>1, <2>1, Keys DEF Init, KeysKept, PlaceholdersHeld, ResumesKnown
<1> QED
  BY <1>2, <1>3, <1>4 DEF IndexInv

(* A registration or a release writes no placeholder.                      *)
LEMMA RegisterWritesNone ==
    ASSUME TypeOK, NEW t \in Spawns, NEW nick, RegisterSpawnedThread(t, PathOf[t], nick)
    PROVE  \A p \in Paths : agentsByPath'[p] = Placeholder =>
              agentsByPath[p] = Placeholder /\ p # Key(t, PathOf[t])
<1>1. Free # Placeholder /\ [thread |-> t, nick |-> nick] # Placeholder
  BY Keys DEF Free, Placeholder, Threads
<1> QED
  BY <1>1 DEF RegisterSpawnedThread, Key

LEMMA ReleaseWritesNone ==
    ASSUME TypeOK, NEW t \in Spawns, ReleaseSpawnedThread(t)
    PROVE  \A p \in Paths : agentsByPath'[p] = Placeholder => agentsByPath[p] = Placeholder
<1>1. Free # Placeholder
  BY DEF Free, Placeholder
<1> QED
  BY <1>1 DEF ReleaseSpawnedThread, TypeOK

(* A reserved nickname is unused, or the first of the next round.          *)
LEMMA NicknameReserved ==
    ASSUME NEW s \in Spawns, ReserveAgentNickname(s), Names # {}
    PROVE  \E n \in Names :
              /\ nickname' = [nickname EXCEPT ![s] = <<n, nicknameResetCount'>>]
              /\ \/ /\ nicknameResetCount' = nicknameResetCount
                    /\ <<n, nicknameResetCount>> \notin usedNicknames
                    /\ usedNicknames' = usedNicknames \cup {<<n, nicknameResetCount>>}
                 \/ /\ nicknameResetCount' = nicknameResetCount + 1
                    /\ usedNicknames' = {<<n, nicknameResetCount'>>}
BY DEF ReserveAgentNickname, Unused

LEMMA StepKeeps == IndexInv /\ [Next]_vars => IndexInv'
<1> SUFFICES ASSUME IndexInv, [Next]_vars PROVE IndexInv'
  OBVIOUS
<1>a. TypeOK /\ IdentitiesBijective /\ KeysKept /\ PlaceholdersHeld /\ ResumesKnown
  BY DEF IndexInv
<1>b. Spawns \subseteq Threads
  BY DEF Threads
<1>0. ASSUME TypeOK', UNCHANGED <<agentsByPath, pathByThread, reservedPaths>>,
             UNCHANGED resumer
      PROVE  IndexInv'
  BY <1>a, <1>0 DEF IndexInv, IdentitiesBijective, KeysKept, PlaceholdersHeld, ResumesKnown
<1>1. ASSUME NEW s \in Spawns, ReserveSpawnSlot(s) PROVE IndexInv'
  BY <1>a, <1>0, <1>1 DEF ReserveSpawnSlot, SpawnGoes, TypeOK, SpawnPC
<1>2. ASSUME NEW s \in Spawns, ReserveAgentNickname(s) PROVE IndexInv'
  <2>1. CASE Names = {}
    BY <1>a, <1>0, <1>2, <2>1 DEF ReserveAgentNickname, SpawnGoes, TypeOK, SpawnPC
  <2>2. CASE Names # {}
    <3>1. PICK n \in Names, k \in {nicknameResetCount, nicknameResetCount + 1} :
             /\ nickname' = [nickname EXCEPT ![s] = <<n, k>>]
             /\ nicknameResetCount' = k
             /\ usedNicknames' \subseteq usedNicknames \cup {<<n, k>>}
      BY <1>2, <2>2, NicknameReserved
    <3>2. <<n, k>> \in Nicknames /\ k \in Nat
      BY <1>a DEF Nicknames, TypeOK
    <3>3. TypeOK'
      <4> HIDE DEF Nicknames
      <4> QED
        BY <1>a, <1>2, <3>1, <3>2 DEF ReserveAgentNickname, SpawnGoes, TypeOK, SpawnPC
    <3> QED
      BY <1>0, <1>2, <3>3 DEF ReserveAgentNickname
  <2> QED
    BY <2>1, <2>2
<1>3. ASSUME NEW s \in Spawns, ReserveAgentPath(s) PROVE IndexInv'
  <2>1. CASE PathOf[s] = NoPath \/ agentsByPath[PathOf[s]] # Free
    BY <1>a, <1>0, <1>3, <2>1 DEF ReserveAgentPath, SpawnGoes, TypeOK, SpawnPC
  <2>2. CASE PathOf[s] # NoPath /\ agentsByPath[PathOf[s]] = Free
    <3>1. PathOf[s] \in TaskPaths /\ PathOf[s] \in Paths
      BY <2>2, KeyOfSpawn, Keys
    <3>2. Placeholder \in Entry /\ Placeholder.thread \notin Threads /\ Free.thread \notin Threads
      BY Keys DEF Placeholder, Free, Entry
    <3>3. /\ agentsByPath' = [agentsByPath EXCEPT ![PathOf[s]] = Placeholder]
          /\ reservedPaths' = reservedPaths \cup {s}
          /\ spawn' = [spawn EXCEPT ![s] = "placed"]
          /\ UNCHANGED <<pathByThread, usedNicknames, nicknameResetCount, totalCount, nickname, records, resumer>>
      BY <1>3, <2>2 DEF ReserveAgentPath, SpawnGoes
    <3>4. TypeOK'
      BY <1>a, <3>1, <3>2, <3>3 DEF TypeOK, SpawnPC
    <3>5. IdentitiesBijective'
      BY <1>a, <2>2, <3>1, <3>2, <3>3 DEF TypeOK, IdentitiesBijective
    <3>6. KeysKept'
      BY <1>a, <3>1, <3>3, Keys DEF TypeOK, KeysKept
    <3>7. PlaceholdersHeld' /\ ResumesKnown'
      BY <1>a, <3>1, <3>3 DEF TypeOK, PlaceholdersHeld, ResumesKnown
    <3> QED
      BY <3>4, <3>5, <3>6, <3>7 DEF IndexInv
  <2> QED
    BY <2>1, <2>2
<1>4. ASSUME NEW s \in Spawns, CreateChild(s) PROVE IndexInv'
  BY <1>a, <1>0, <1>4 DEF CreateChild, SpawnGoes, TypeOK, SpawnPC, registryVars
<1>5. ASSUME NEW s \in Spawns, Commit(s) PROVE IndexInv'
  <2>1. nickname[s] \in Nicknames \cup {NoNickname} /\ RegisterSpawnedThread(s, PathOf[s], nickname[s])
    BY <1>a, <1>5 DEF Commit, TypeOK
  <2>2. TypeOK'
    BY <1>a, <1>5, <2>1, RegisterKeeps DEF Commit, SpawnGoes, RegisterSpawnedThread, TypeOK, SpawnPC
  <2>3. PlaceholdersHeld'
    <3> SUFFICES ASSUME NEW p \in Paths, agentsByPath'[p] = Placeholder
                 PROVE  \E u \in reservedPaths' : PathOf[u] = p
      BY DEF PlaceholdersHeld
    <3>1. agentsByPath[p] = Placeholder /\ p # Key(s, PathOf[s])
      BY <1>a, <2>1, RegisterWritesNone
    <3>2. PICK u \in reservedPaths : PathOf[u] = p
      BY <1>a, <3>1 DEF PlaceholdersHeld
    <3>3. u # s
      BY <3>1, <3>2, Keys DEF Key
    <3> QED
      BY <1>5, <3>2, <3>3 DEF Commit
  <2>4. ResumesKnown'
    BY <1>a, <1>5 DEF Commit, ResumesKnown
  <2> QED
    BY <1>a, <2>1, <2>2, <2>3, <2>4, RegisterKeeps DEF IndexInv
<1>6. ASSUME NEW s \in Spawns, SpawnFails(s) PROVE IndexInv'
  BY <1>a, <1>0, <1>6 DEF SpawnFails, SpawnGoes, TypeOK, SpawnPC, registryVars
<1>7. ASSUME NEW s \in Spawns, CleanupReleases(s) PROVE IndexInv'
  <2>1. TypeOK'
    BY <1>a, <1>7, ReleaseKeeps DEF CleanupReleases, SpawnGoes, ReleaseSpawnedThread, TypeOK, SpawnPC
  <2>2. PlaceholdersHeld' /\ ResumesKnown'
    BY <1>a, <1>7, ReleaseWritesNone DEF CleanupReleases, PlaceholdersHeld, ResumesKnown
  <2> QED
    BY <1>a, <1>7, <2>1, <2>2, ReleaseKeeps DEF CleanupReleases, IndexInv
<1>8. ASSUME NEW s \in Spawns, CleanupDeletes(s) PROVE IndexInv'
  BY <1>a, <1>0, <1>8 DEF CleanupDeletes, SpawnGoes, TypeOK, SpawnPC, registryVars
<1>9. ASSUME NEW s \in Spawns, CancelNickname(s) PROVE IndexInv'
  BY <1>a, <1>0, <1>9 DEF CancelNickname, SpawnGoes, TypeOK, SpawnPC
<1>10. ASSUME NEW s \in Spawns, CancelPath(s) PROVE IndexInv'
  <2> DEFINE gives == s \in reservedPaths /\ agentsByPath[PathOf[s]] = Placeholder
  <2>1. /\ agentsByPath' = IF gives THEN [agentsByPath EXCEPT ![PathOf[s]] = Free] ELSE agentsByPath
        /\ reservedPaths' = reservedPaths \ {s}
        /\ spawn' = [spawn EXCEPT ![s] = "cancelSlot"]
        /\ UNCHANGED <<pathByThread, usedNicknames, nicknameResetCount, totalCount, nickname, records, resumer>>
    BY <1>10 DEF CancelPath, SpawnGoes
  <2>2. Free \in Entry /\ Free.thread = "free" /\ Placeholder.thread \notin Threads /\ Free # Placeholder
    BY Keys DEF Placeholder, Free, Entry
  <2>3. TypeOK'
    BY <1>a, <2>1, <2>2 DEF TypeOK, SpawnPC
  <2>4. IdentitiesBijective'
    BY <1>a, <2>1, <2>2, Keys DEF TypeOK, IdentitiesBijective
  <2>5. KeysKept'
    BY <1>a, <2>1, <2>2, Keys, KeyOfSpawn DEF TypeOK, KeysKept
  <2>6. PlaceholdersHeld' /\ ResumesKnown'
    BY <1>a, <2>1, <2>2 DEF TypeOK, PlaceholdersHeld, ResumesKnown
  <2> QED
    BY <2>3, <2>4, <2>5, <2>6 DEF IndexInv
<1>11. ASSUME NEW s \in Spawns, CancelSlot(s) PROVE IndexInv'
  BY <1>a, <1>0, <1>11 DEF CancelSlot, SpawnGoes, Decremented, TypeOK, SpawnPC
<1>12. ASSUME NEW t \in Spawns, CloseAgentThread(t) PROVE IndexInv'
  <2>1. TypeOK'
    BY <1>a, <1>12, ReleaseKeeps DEF CloseAgentThread, ReleaseSpawnedThread, TypeOK
  <2>2. PlaceholdersHeld' /\ ResumesKnown'
    BY <1>a, <1>12, ReleaseWritesNone DEF CloseAgentThread, PlaceholdersHeld, ResumesKnown
  <2> QED
    BY <1>a, <1>12, <2>1, <2>2, ReleaseKeeps DEF CloseAgentThread, IndexInv
<1>13. ASSUME NEW r \in Resumers, ResumeReads(r) PROVE IndexInv'
  <2>1. PICK t \in records : resumer' = [resumer EXCEPT ![r] = [pc |-> "read", thread |-> t]]
    BY <1>13 DEF ResumeReads
  <2>2. UNCHANGED <<registryVars, spawn, nickname, reservedPaths, records>> /\ t \in Spawns
    BY <1>a, <1>13, <2>1 DEF ResumeReads, TypeOK
  <2>3. TypeOK' /\ ResumesKnown'
    BY <1>a, <1>b, <2>1, <2>2 DEF TypeOK, ResumesKnown, ResumerPC, registryVars
  <2> QED
    BY <1>a, <2>2, <2>3 DEF IndexInv, IdentitiesBijective, KeysKept, PlaceholdersHeld, registryVars
<1>14. ASSUME NEW r \in Resumers, ResumeRegisters(r) PROVE IndexInv'
  <2> DEFINE t == resumer[r].thread
  <2>1. /\ t \in Spawns /\ nickname[t] \in Nicknames \cup {NoNickname}
        /\ RegisterSpawnedThread(t, PathOf[t], nickname[t])
        /\ resumer' = [resumer EXCEPT ![r] = [pc |-> "done", thread |-> t]]
        /\ UNCHANGED <<spawn, nickname, reservedPaths, records>>
    BY <1>a, <1>14 DEF ResumeRegisters, ResumesKnown, TypeOK
  <2>2. TypeOK'
    BY <1>a, <2>1, RegisterKeeps DEF RegisterSpawnedThread, TypeOK, ResumerPC
  <2>3. PlaceholdersHeld' /\ ResumesKnown'
    BY <1>a, <2>1, RegisterWritesNone DEF TypeOK, PlaceholdersHeld, ResumesKnown
  <2> QED
    BY <1>a, <2>1, <2>2, <2>3, RegisterKeeps DEF IndexInv
<1>15. CASE UNCHANGED vars
  BY <1>a, <1>0, <1>15 DEF vars, registryVars, TypeOK
<1> QED
  BY <1>1, <1>2, <1>3, <1>4, <1>5, <1>6, <1>7, <1>8, <1>9, <1>10, <1>11, <1>12, <1>13, <1>14, <1>15
     DEF Next, SpawnStep, ResumeStep

(* The index invariant holds in every behaviour: every registration,       *)
(* release, reservation, cancel and resume keeps it.                       *)
THEOREM IndexInvariant == Spec => []IndexInv
BY InitEstablishes, StepKeeps, PTL DEF Spec

(* Every operation of the registry leaves its maps, counter and control    *)
(* states well formed.                                                     *)
THEOREM TypeCorrect == Spec => []TypeOK
BY IndexInvariant, PTL DEF IndexInv

(* RegisterSpawnedThread and ReleaseSpawnedThread: agentsByPath and        *)
(* pathByThread stay inverse of each other, whatever is registered over    *)
(* whatever.                                                               *)
THEOREM IdentitiesStayBijective == Spec => []IdentitiesBijective
BY IndexInvariant, PTL DEF IndexInv

(* ReserveAgentPath, Commit and Cancel: a placeholder always has a spawn   *)
(* that will replace it or take it back.                                   *)
THEOREM PlaceholdersAreHeld == Spec => []PlaceholdersHeld
BY IndexInvariant, PTL DEF IndexInv

----------------------------------------------------------------------------
(* Slots: while nothing was resumed, an agent has the slot of its spawn.   *)

LEMMA SpawnSets ==
    ASSUME NEW S \in SUBSET Spawns
    PROVE  IsFiniteSet(S) /\ Cardinality(S) \in Nat /\ (S # {} => Cardinality(S) > 0)
BY RegistryAssumption, FS_Subset, FS_CardinalityType, FS_EmptySet

LEMMA SlotSets == Live \in SUBSET Spawns /\ HoldsSlot \in SUBSET Spawns
BY DEF Live, HoldsSlot

(* Counting one spawn more or less.                                        *)
LEMMA OneMore ==
    ASSUME NEW S \in SUBSET Spawns, NEW s \in Spawns \ S
    PROVE  Cardinality(S \cup {s}) = Cardinality(S) + 1
BY SpawnSets, FS_AddElement

LEMMA OneLess ==
    ASSUME NEW S \in SUBSET Spawns, NEW s \in S
    PROVE  Cardinality(S \ {s}) = Cardinality(S) - 1
BY SpawnSets, FS_RemoveElement

(* Only a resume that registers ends the time before the first one.        *)
LEMMA ResumedStays ==
    ASSUME TypeOK, [Next]_vars, NothingResumed'
    PROVE  NothingResumed /\ \A r \in Resumers : ~ResumeRegisters(r)
<1>1. ASSUME NEW r \in Resumers PROVE ~ResumeRegisters(r)
  BY <1>1 DEF ResumeRegisters, NothingResumed, TypeOK
<1>2. CASE UNCHANGED resumer
  BY <1>1, <1>2 DEF NothingResumed
<1>3. ASSUME NEW r \in Resumers, ResumeReads(r) PROVE NothingResumed
  BY <1>3 DEF ResumeReads, NothingResumed, TypeOK
<1> QED
  BY <1>1, <1>2, <1>3 DEF Next, SpawnStep, ResumeStep, ReserveSpawnSlot, ReserveAgentNickname, ReserveAgentPath,
     CreateChild, Commit, SpawnFails, CleanupReleases, CleanupDeletes, CancelNickname, CancelPath, CancelSlot,
     CloseAgentThread, registryVars, vars

(* A release takes one agent and one slot, or nothing at all.              *)
LEMMA ReleaseFreesSlot ==
    ASSUME IndexInv, SlotFacts, NEW t \in Spawns, ReleaseSpawnedThread(t)
    PROVE  /\ Live' = Live \ {t}
           /\ totalCount' = IF t \in Live THEN totalCount - 1 ELSE totalCount
           /\ \A p \in Paths : agentsByPath[p].thread # t => agentsByPath'[p] = agentsByPath[p]
           /\ \A u \in Spawns \ {t} : pathByThread'[u] = pathByThread[u]
<1>a. TypeOK /\ IdentitiesBijective /\ KeysKept
  BY DEF IndexInv
<1>1. t \in Threads /\ Spawns \subseteq Threads /\ t # RootThread
  BY Keys DEF Threads
<1>2. /\ pathByThread' = [pathByThread EXCEPT ![t] = NoPath]
      /\ Live' = Live \ {t}
  BY <1>a, <1>1 DEF ReleaseSpawnedThread, Live, TypeOK
<1>3. CASE t \notin Live
  BY <1>a, <1>1, <1>2, <1>3 DEF ReleaseSpawnedThread, Live, TypeOK
<1>4. CASE t \in Live
  <2>1. /\ pathByThread[t] \in Paths /\ pathByThread[t] # RootPath /\ pathByThread[t] # NoPath
        /\ agentsByPath[pathByThread[t]].thread = t
    BY <1>a, <1>1, <1>4, Keys DEF Live, TypeOK, IdentitiesBijective, KeysKept
  <2>2. totalCount > 0 /\ totalCount \in Nat
    BY <1>a, <1>4, SlotSets, SpawnSets DEF SlotFacts, SlotsCounted, TypeOK
  <2> QED
    BY <1>a, <1>1, <1>2, <1>4, <2>1, <2>2 DEF ReleaseSpawnedThread, Decremented, TypeOK
<1> QED
  BY <1>3, <1>4

(* Before the first resume nobody has a committing spawn's key but itself. *)
LEMMA CommitEvictsNobody ==
    ASSUME IndexInv, SlotFacts, NEW s \in Spawns, Commit(s)
    PROVE  /\ s \notin Live /\ Live' = Live \cup {s}
           /\ pathByThread' = [pathByThread EXCEPT ![s] = Key(s, PathOf[s])]
           /\ agentsByPath' = [agentsByPath EXCEPT ![Key(s, PathOf[s])] = [thread |-> s, nick |-> nickname[s]]]
           /\ \A u \in Spawns : pathByThread[u] # Key(s, PathOf[s])
<1>a. TypeOK /\ IdentitiesBijective /\ KeysKept
  BY DEF IndexInv
<1> DEFINE key == Key(s, PathOf[s])
<1>1. s \in Threads /\ Spawns \subseteq Threads /\ key \in Paths /\ key # NoPath
  BY Keys, KeyOfSpawn DEF Threads
<1>2. s \notin Live /\ pathByThread[s] = NoPath
  BY <1>a DEF Commit, SlotFacts, LiveCommitted, Live
<1>3. agentsByPath[key].thread \notin Threads
  <2>1. CASE PathOf[s] = NoPath
    <3>1. agentsByPath[key].thread \in {s, "free"}
      BY <1>a, <2>1 DEF KeysKept, Key
    <3>2. agentsByPath[key].thread # s
      BY <1>a, <1>1, <1>2 DEF IdentitiesBijective
    <3> QED
      BY <3>1, <3>2, Keys
  <2>2. CASE PathOf[s] # NoPath
    <3>1. s \in reservedPaths
      BY <2>2 DEF Commit, SlotFacts, ReservationsHold
    <3>2. agentsByPath[key] = Placeholder
      BY <2>2, <3>1 DEF SlotFacts, ReservationsHold, Key
    <3> QED
      BY <3>2, Keys DEF Placeholder
  <2> QED
    BY <2>1, <2>2
<1>4. /\ agentsByPath' = [p \in Paths |->
            IF p = key THEN [thread |-> s, nick |-> nickname[s]]
            ELSE IF p = pathByThread[s] THEN Free ELSE agentsByPath[p]]
      /\ pathByThread' = [u \in Threads |->
            IF u = s THEN key
            ELSE IF u = agentsByPath[key].thread THEN NoPath ELSE pathByThread[u]]
  BY DEF Commit, RegisterSpawnedThread, Key
<1>5. \A u \in Threads : pathByThread[u] # key
  BY <1>a, <1>1, <1>3 DEF IdentitiesBijective
<1> HIDE DEF key
<1>6. pathByThread' = [pathByThread EXCEPT ![s] = key]
  BY <1>a, <1>1, <1>3, <1>4 DEF TypeOK
<1>7. agentsByPath' = [agentsByPath EXCEPT ![key] = [thread |-> s, nick |-> nickname[s]]]
  BY <1>a, <1>1, <1>2, <1>4, Keys DEF TypeOK
<1>8. Live' = Live \cup {s}
  BY <1>a, <1>1, <1>6 DEF Live, TypeOK
<1> QED
  BY <1>1, <1>2, <1>5, <1>6, <1>7, <1>8 DEF key

LEMMA InitSlots == Init => SlotFacts
<1> SUFFICES ASSUME Init PROVE SlotFacts
  OBVIOUS
<1>1. Live = {} /\ HoldsSlot = {}
  BY Keys DEF Init, Live, HoldsSlot, Threads
<1>2. SlotsCounted
  BY <1>1, FS_EmptySet, RegistryAssumption DEF Init, SlotsCounted
<1> QED
  BY <1>1, <1>2 DEF Init, SlotFacts, ReservationsHold, LiveCommitted

(* A step of a spawn that keeps its slot and its reservation, and leaves   *)
(* the indexes alone.                                                      *)
LEMMA SpawnKeepsSlot ==
    ASSUME IndexInv, SlotFacts, NEW s \in Spawns, NEW to \in SpawnPC, SpawnGoes(s, to),
           s \in HoldsSlot, to \notin {"committed", "failed", "idle"},
           to \in {"placed", "created"} => spawn[s] \in {"placed", "created"} \/ PathOf[s] = NoPath,
           UNCHANGED <<agentsByPath, pathByThread, totalCount, reservedPaths>>,
           \A u \in Live : nickname'[u] = nickname[u]
    PROVE  SlotFacts'
<1>a. TypeOK
  BY DEF IndexInv
<1>1. HoldsSlot' = HoldsSlot /\ Live' = Live
  BY <1>a DEF TypeOK, SpawnGoes, HoldsSlot, Live, SpawnPC
<1>2. SlotsCounted'
  BY <1>1 DEF SlotFacts, SlotsCounted
<1>3. ReservationsHold'
  BY <1>a DEF TypeOK, SpawnGoes, SlotFacts, ReservationsHold
<1>4. LiveCommitted'
  <2>1. s \notin Live
    BY DEF SlotFacts, LiveCommitted, HoldsSlot
  <2> QED
    BY <1>a, <1>1, <2>1 DEF TypeOK, SpawnGoes, SlotFacts, LiveCommitted, Live
<1> QED
  BY <1>2, <1>3, <1>4 DEF SlotFacts

(* A release, by cleanup or close, keeps the account.                      *)
LEMMA ReleaseKeepsSlots ==
    ASSUME IndexInv, SlotFacts, NEW t \in Spawns, ReleaseSpawnedThread(t),
           UNCHANGED <<nickname, reservedPaths>>, HoldsSlot' = HoldsSlot,
           \A u \in Spawns : spawn'[u] = spawn[u] \/ (u \notin Live /\ spawn'[u] = "deleting")
    PROVE  SlotFacts'
<1>a. TypeOK /\ IdentitiesBijective
  BY DEF IndexInv
<1>b. /\ Live' = Live \ {t}
      /\ totalCount' = IF t \in Live THEN totalCount - 1 ELSE totalCount
      /\ \A p \in Paths : agentsByPath[p].thread # t => agentsByPath'[p] = agentsByPath[p]
      /\ \A u \in Spawns \ {t} : pathByThread'[u] = pathByThread[u]
  BY ReleaseFreesSlot
<1>1. SlotsCounted'
  <2>1. /\ Cardinality(Live) \in Nat /\ Cardinality(HoldsSlot) \in Nat /\ totalCount \in Nat
        /\ MaxThreads \in Nat
    BY <1>a, SlotSets, SpawnSets, RegistryAssumption DEF TypeOK
  <2>2. CASE t \in Live
    BY <1>b, <2>1, <2>2, SlotSets, OneLess DEF SlotFacts, SlotsCounted
  <2>3. CASE t \notin Live
    <3>1. Live' = Live
      BY <1>b, <2>3
    <3> QED
      BY <1>b, <2>3, <3>1 DEF SlotFacts, SlotsCounted
  <2> QED
    BY <2>2, <2>3
<1>2. ReservationsHold'
  <2>1. ASSUME NEW s \in reservedPaths PROVE agentsByPath'[PathOf[s]] = Placeholder
    <3>1. PathOf[s] # NoPath /\ agentsByPath[PathOf[s]] = Placeholder /\ s \in Spawns
      BY <1>a, <2>1 DEF SlotFacts, ReservationsHold, TypeOK
    <3>2. PathOf[s] \in Paths /\ Placeholder.thread # t
      BY <3>1, Keys, KeyOfSpawn DEF Placeholder, Threads
    <3> QED
      BY <1>b, <3>1, <3>2
  <2> QED
    BY <2>1 DEF SlotFacts, ReservationsHold
<1>3. LiveCommitted'
  <2> SUFFICES ASSUME NEW s \in Live \ {t}
               PROVE  /\ spawn'[s] = "committed"
                      /\ pathByThread'[s] = Key(s, PathOf[s])
                      /\ agentsByPath'[pathByThread'[s]].nick = nickname'[s]
    BY <1>b DEF LiveCommitted
  <2>1. s \in Spawns /\ s \in Threads /\ pathByThread[s] \in Paths /\ agentsByPath[pathByThread[s]].thread = s
    BY <1>a DEF Live, Threads, TypeOK, IdentitiesBijective
  <2>2. pathByThread'[s] = pathByThread[s] /\ agentsByPath'[pathByThread[s]] = agentsByPath[pathByThread[s]]
    BY <1>b, <2>1
  <2> QED
    BY <2>1, <2>2 DEF SlotFacts, LiveCommitted
<1> QED
  BY <1>1, <1>2, <1>3 DEF SlotFacts

LEMMA SlotStep ==
    IndexInv /\ SlotFacts /\ [Next]_vars /\ (\A r \in Resumers : ~ResumeRegisters(r)) => SlotFacts'
<1> SUFFICES ASSUME IndexInv, SlotFacts, [Next]_vars, \A r \in Resumers : ~ResumeRegisters(r)
             PROVE  SlotFacts'
  OBVIOUS
<1>a. TypeOK /\ IdentitiesBijective /\ KeysKept
  BY DEF IndexInv
<1>b. /\ Cardinality(Live) \in Nat /\ Cardinality(HoldsSlot) \in Nat /\ totalCount \in Nat
      /\ MaxThreads \in Nat
  BY <1>a, SlotSets, SpawnSets, RegistryAssumption DEF TypeOK
<1>0. ASSUME UNCHANGED <<agentsByPath, pathByThread, totalCount, reservedPaths, spawn, nickname>> PROVE SlotFacts'
  BY <1>0 DEF SlotFacts, ReservationsHold, LiveCommitted, SlotsCounted, Live, HoldsSlot
<1>1. ASSUME NEW s \in Spawns, ReserveSpawnSlot(s) PROVE SlotFacts'
  <2>1. UNCHANGED <<agentsByPath, pathByThread, reservedPaths, nickname>> /\ Live' = Live /\ s \notin Live
    BY <1>1 DEF ReserveSpawnSlot, Live, SlotFacts, LiveCommitted
  <2>2. ReservationsHold' /\ LiveCommitted'
    BY <1>a, <1>1, <2>1 DEF ReserveSpawnSlot, SpawnGoes, TypeOK, SlotFacts, ReservationsHold, LiveCommitted, Live
  <2>3. CASE MaxThreads > 0 /\ totalCount >= MaxThreads
    <3>1. HoldsSlot' = HoldsSlot
      BY <1>a, <1>1, <2>3 DEF ReserveSpawnSlot, SpawnGoes, TypeOK, HoldsSlot
    <3> QED
      BY <1>1, <2>1, <2>2, <2>3, <3>1 DEF ReserveSpawnSlot, SlotFacts, SlotsCounted
  <2>4. CASE ~(MaxThreads > 0 /\ totalCount >= MaxThreads)
    <3>1. HoldsSlot' = HoldsSlot \cup {s} /\ s \notin HoldsSlot /\ totalCount' = totalCount + 1
      BY <1>a, <1>1, <2>4 DEF ReserveSpawnSlot, SpawnGoes, TypeOK, HoldsSlot
    <3>2. Cardinality(HoldsSlot') = Cardinality(HoldsSlot) + 1
      BY <3>1, SlotSets, OneMore
    <3>3. SlotsCounted'
      BY <1>b, <2>1, <2>4, <3>1, <3>2 DEF SlotFacts, SlotsCounted
    <3> QED
      BY <2>2, <3>3 DEF SlotFacts
  <2> QED
    BY <2>3, <2>4
<1>2. ASSUME NEW s \in Spawns, ReserveAgentNickname(s) PROVE SlotFacts'
  <2>1. s \in HoldsSlot /\ s \notin Live
    BY <1>2 DEF ReserveAgentNickname, HoldsSlot, SlotFacts, LiveCommitted
  <2>2. \A u \in Spawns \ {s} : nickname'[u] = nickname[u]
    <3>1. CASE Names = {}
      BY <1>2, <3>1 DEF ReserveAgentNickname
    <3>2. CASE Names # {}
      BY <1>a, <1>2, <3>2, NicknameReserved DEF TypeOK
    <3> QED
      BY <3>1, <3>2
  <2>3. \A u \in Live : nickname'[u] = nickname[u]
    BY <2>1, <2>2 DEF Live
  <2> QED
    BY <1>2, <2>1, <2>3, SpawnKeepsSlot DEF ReserveAgentNickname, SpawnPC
<1>3. ASSUME NEW s \in Spawns, ReserveAgentPath(s) PROVE SlotFacts'
  <2>a. s \in HoldsSlot /\ s \notin Live
    BY <1>3 DEF ReserveAgentPath, HoldsSlot, SlotFacts, LiveCommitted
  <2>1. CASE PathOf[s] = NoPath \/ agentsByPath[PathOf[s]] # Free
    BY <1>3, <2>a, <2>1, SpawnKeepsSlot DEF ReserveAgentPath, SpawnPC
  <2>2. CASE PathOf[s] # NoPath /\ agentsByPath[PathOf[s]] = Free
    <3>1. PathOf[s] \in Paths /\ Free # Placeholder /\ Free.thread \notin Threads
      BY <2>2, KeyOfSpawn, Keys DEF Free, Placeholder
    <3>2. /\ agentsByPath' = [agentsByPath EXCEPT ![PathOf[s]] = Placeholder]
          /\ reservedPaths' = reservedPaths \cup {s}
          /\ spawn' = [spawn EXCEPT ![s] = "placed"]
          /\ UNCHANGED <<pathByThread, totalCount, nickname>>
      BY <1>3, <2>2 DEF ReserveAgentPath, SpawnGoes
    <3>3. HoldsSlot' = HoldsSlot /\ Live' = Live
      BY <1>a, <2>a, <3>2 DEF TypeOK, HoldsSlot, Live
    <3>4. SlotsCounted'
      BY <3>2, <3>3 DEF SlotFacts, SlotsCounted
    <3>5. ReservationsHold'
      BY <1>a, <2>2, <3>1, <3>2 DEF TypeOK, SlotFacts, ReservationsHold
    <3>6. LiveCommitted'
      <4>1. \A u \in Live : pathByThread[u] # PathOf[s]
        BY <1>a, <2>2, <3>1, Keys DEF IdentitiesBijective, Live, Threads
      <4> QED
        BY <1>a, <2>a, <3>2, <3>3, <4>1 DEF TypeOK, SlotFacts, LiveCommitted, Live
    <3> QED
      BY <3>4, <3>5, <3>6 DEF SlotFacts
  <2> QED
    BY <2>1, <2>2
<1>4. ASSUME NEW s \in Spawns, CreateChild(s) PROVE SlotFacts'
  BY <1>4, SpawnKeepsSlot DEF CreateChild, HoldsSlot, SpawnPC, registryVars
<1>5. ASSUME NEW s \in Spawns, Commit(s) PROVE SlotFacts'
  <2> DEFINE key == Key(s, PathOf[s])
  <2>a. /\ s \notin Live /\ Live' = Live \cup {s}
        /\ pathByThread' = [pathByThread EXCEPT ![s] = key]
        /\ agentsByPath' = [agentsByPath EXCEPT ![key] = [thread |-> s, nick |-> nickname[s]]]
        /\ \A u \in Spawns : pathByThread[u] # key
    BY <1>5, CommitEvictsNobody
  <2>b. /\ spawn[s] = "created" /\ spawn' = [spawn EXCEPT ![s] = "committed"]
        /\ reservedPaths' = reservedPaths \ {s}
        /\ UNCHANGED <<nickname, totalCount>>
    BY <1>5 DEF Commit, SpawnGoes, RegisterSpawnedThread
  <2>c. s \in Threads /\ key \in Paths
    BY KeyOfSpawn DEF Threads
  <2>1. SlotsCounted'
    <3>1. HoldsSlot' = HoldsSlot \ {s} /\ s \in HoldsSlot
      BY <1>a, <2>b DEF TypeOK, HoldsSlot
    <3>2. Cardinality(HoldsSlot') = Cardinality(HoldsSlot) - 1 /\ Cardinality(Live') = Cardinality(Live) + 1
      BY <2>a, <3>1, SlotSets, OneMore, OneLess
    <3> QED
      BY <1>b, <2>b, <3>2 DEF SlotFacts, SlotsCounted
  <2>2. ReservationsHold'
    <3>1. ASSUME NEW u \in reservedPaths \ {s} PROVE PathOf[u] # NoPath /\ agentsByPath'[PathOf[u]] = Placeholder
      <4>1. u \in Spawns /\ PathOf[u] # NoPath /\ agentsByPath[PathOf[u]] = Placeholder
        BY <1>a DEF TypeOK, SlotFacts, ReservationsHold
      <4>2. PathOf[u] \in TaskPaths
        BY <4>1, KeyOfSpawn
      <4>3. PathOf[u] # key
        <5>1. CASE PathOf[s] = NoPath
          BY <4>2, <5>1, Keys DEF Key
        <5>2. CASE PathOf[s] # NoPath
          BY <2>b, <5>2 DEF Key, SlotFacts, ReservationsHold
        <5> QED
          BY <5>1, <5>2
      <4> QED
        BY <1>a, <2>a, <4>1, <4>2, <4>3, Keys DEF TypeOK
    <3> QED
      BY <1>a, <2>b, <3>1 DEF TypeOK, SlotFacts, ReservationsHold
  <2>3. LiveCommitted'
    <3>1. ASSUME NEW u \in Live
          PROVE  /\ spawn'[u] = "committed" /\ pathByThread'[u] = Key(u, PathOf[u])
                 /\ agentsByPath'[pathByThread'[u]].nick = nickname'[u]
      <4>1. u # s /\ u \in Threads /\ u \in Spawns /\ pathByThread[u] # key /\ pathByThread[u] \in Paths
        BY <1>a, <2>a DEF Live, Threads, TypeOK
      <4>2. spawn'[u] = spawn[u] /\ pathByThread'[u] = pathByThread[u]
        BY <1>a, <2>a, <2>b, <4>1 DEF TypeOK
      <4>3. agentsByPath'[pathByThread[u]] = agentsByPath[pathByThread[u]]
        BY <1>a, <2>a, <4>1 DEF TypeOK
      <4> QED
        BY <2>b, <4>2, <4>3 DEF SlotFacts, LiveCommitted
    <3>2. /\ spawn'[s] = "committed" /\ pathByThread'[s] = key
          /\ agentsByPath'[pathByThread'[s]].nick = nickname'[s]
      BY <1>a, <2>a, <2>b, <2>c DEF TypeOK
    <3> QED
      BY <2>a, <3>1, <3>2 DEF LiveCommitted
  <2> QED
    BY <2>1, <2>2, <2>3 DEF SlotFacts
<1>6. ASSUME NEW s \in Spawns, SpawnFails(s) PROVE SlotFacts'
  BY <1>6, SpawnKeepsSlot DEF SpawnFails, HoldsSlot, SpawnPC, registryVars
<1>7. ASSUME NEW s \in Spawns, CleanupReleases(s) PROVE SlotFacts'
  <2>1. HoldsSlot' = HoldsSlot
    BY <1>a, <1>7 DEF CleanupReleases, SpawnGoes, TypeOK, HoldsSlot
  <2>2. s \notin Live /\ (\A u \in Spawns : spawn'[u] = spawn[u] \/ (u \notin Live /\ spawn'[u] = "deleting"))
    BY <1>a, <1>7 DEF CleanupReleases, SpawnGoes, TypeOK, SlotFacts, LiveCommitted
  <2> QED
    BY <1>7, <2>1, <2>2, ReleaseKeepsSlots DEF CleanupReleases
<1>8. ASSUME NEW s \in Spawns, CleanupDeletes(s) PROVE SlotFacts'
  BY <1>8, SpawnKeepsSlot DEF CleanupDeletes, HoldsSlot, SpawnPC, registryVars
<1>9. ASSUME NEW s \in Spawns, CancelNickname(s) PROVE SlotFacts'
  BY <1>9, SpawnKeepsSlot DEF CancelNickname, HoldsSlot, SpawnPC
<1>10. ASSUME NEW s \in Spawns, CancelPath(s) PROVE SlotFacts'
  <2>1. /\ agentsByPath' = IF s \in reservedPaths THEN [agentsByPath EXCEPT ![PathOf[s]] = Free] ELSE agentsByPath
        /\ reservedPaths' = reservedPaths \ {s}
        /\ spawn[s] = "cancelPath" /\ spawn' = [spawn EXCEPT ![s] = "cancelSlot"]
        /\ UNCHANGED <<pathByThread, totalCount, nickname>>
    BY <1>10 DEF CancelPath, SpawnGoes, SlotFacts, ReservationsHold
  <2>2. HoldsSlot' = HoldsSlot /\ Live' = Live /\ s \notin Live
    BY <1>a, <2>1 DEF TypeOK, HoldsSlot, Live, SlotFacts, LiveCommitted
  <2>3. SlotsCounted'
    BY <2>1, <2>2 DEF SlotFacts, SlotsCounted
  <2>4. ReservationsHold'
    BY <1>a, <2>1, Keys, KeyOfSpawn DEF TypeOK, SlotFacts, ReservationsHold
  <2>5. LiveCommitted'
    <3>1. s \in reservedPaths => \A u \in Live : pathByThread[u] # PathOf[s]
      <4>1. Placeholder.thread \notin Threads
        BY Keys DEF Placeholder
      <4> QED
        BY <1>a, <4>1 DEF IdentitiesBijective, Live, Threads, SlotFacts, ReservationsHold
    <3> QED
      BY <1>a, <2>1, <2>2, <3>1 DEF TypeOK, SlotFacts, LiveCommitted, Live
  <2> QED
    BY <2>3, <2>4, <2>5 DEF SlotFacts
<1>11. ASSUME NEW s \in Spawns, CancelSlot(s) PROVE SlotFacts'
  <2>1. HoldsSlot' = HoldsSlot \ {s} /\ s \in HoldsSlot /\ Live' = Live /\ s \notin Live
    BY <1>a, <1>11 DEF CancelSlot, SpawnGoes, TypeOK, HoldsSlot, Live, SlotFacts, LiveCommitted
  <2>2. Cardinality(HoldsSlot') = Cardinality(HoldsSlot) - 1 /\ Cardinality(HoldsSlot) > 0
    BY <2>1, SlotSets, SpawnSets, OneLess
  <2>3. totalCount' = totalCount - 1
    BY <1>b, <1>11, <2>2 DEF CancelSlot, Decremented, SlotFacts, SlotsCounted
  <2>4. SlotsCounted'
    BY <1>b, <2>1, <2>2, <2>3 DEF SlotFacts, SlotsCounted
  <2>5. ReservationsHold' /\ LiveCommitted'
    BY <1>a, <1>11, <2>1 DEF CancelSlot, SpawnGoes, TypeOK, SlotFacts, ReservationsHold, LiveCommitted, Live
  <2> QED
    BY <2>4, <2>5 DEF SlotFacts
<1>12. ASSUME NEW t \in Spawns, CloseAgentThread(t) PROVE SlotFacts'
  BY <1>12, ReleaseKeepsSlots DEF CloseAgentThread, HoldsSlot
<1>13. ASSUME NEW r \in Resumers, ResumeReads(r) PROVE SlotFacts'
  BY <1>0, <1>13 DEF ResumeReads, registryVars
<1>14. CASE UNCHANGED vars
  BY <1>0, <1>14 DEF vars, registryVars
<1> QED
  BY <1>1, <1>2, <1>3, <1>4, <1>5, <1>6, <1>7, <1>8, <1>9, <1>10, <1>11, <1>12, <1>13, <1>14
     DEF Next, SpawnStep, ResumeStep

(* ReserveSpawnSlot, Commit, Cancel and ReleaseSpawnedThread: until the    *)
(* first resume the counter is the number of agents and of spawns under    *)
(* way, and the tree never has more agents than its limit.                 *)
THEOREM SlotsAreAccounted == Spec => []SlotsAccounted
<1>1. Init => SlotInv
  BY InitSlots DEF SlotInv, SlotFacts
<1>2. IndexInv /\ SlotInv /\ [Next]_vars => SlotInv'
  BY ResumedStays, SlotStep DEF IndexInv, SlotInv, SlotFacts
<1>3. IndexInv /\ SlotInv => SlotsAccounted
  BY SlotSets, SpawnSets, RegistryAssumption DEF IndexInv, TypeOK, SlotInv, SlotFacts, SlotsCounted, SlotsAccounted
<1> QED
  BY <1>1, <1>2, <1>3, IndexInvariant, PTL DEF Spec

----------------------------------------------------------------------------
(* Names: a nickname is remembered until the one who has it gives it back. *)

LEMMA NamesKept ==
    ASSUME NameFacts, HoldsNickname' \subseteq HoldsNickname, UNCHANGED <<nickname, nicknameResetCount>>,
           \A u \in HoldsNickname' :
              nickname[u] # NoNickname /\ nickname[u] \in usedNicknames => nickname[u] \in usedNicknames'
    PROVE  NameFacts'
BY DEF NameFacts, NicknamesRemembered, NicknamesDistinct

(* A spawn's step that neither gives it a nickname nor makes it an agent.  *)
LEMMA NamesUntouched ==
    ASSUME IndexInv, NameFacts, NEW s \in Spawns, NEW to, SpawnGoes(s, to),
           to \in {"slot", "failed", "cancelPath", "cancelSlot"} \/ s \in HoldsNickname,
           s \notin Live, to # "named",
           UNCHANGED <<pathByThread, nickname, nicknameResetCount, usedNicknames>>
    PROVE  NameFacts'
<1>1. TypeOK /\ Live' = Live
  BY DEF IndexInv, Live
<1>2. HoldsNickname' \subseteq HoldsNickname
  BY <1>1 DEF TypeOK, SpawnGoes, HoldsNickname
<1> QED
  BY <1>2, NamesKept

LEMMA ReservingIsDistinct ==
    ASSUME IndexInv, SlotFacts, NameFacts, NEW s \in Spawns, ReserveAgentNickname(s)
    PROVE  NameFacts'
<1>a. TypeOK
  BY DEF IndexInv
<1>1. s \notin Live /\ Live' = Live /\ spawn[s] = "slot" /\ spawn' = [spawn EXCEPT ![s] = "named"]
  BY DEF ReserveAgentNickname, SpawnGoes, SlotFacts, LiveCommitted, Live
<1>2. s \notin HoldsNickname /\ HoldsNickname' = HoldsNickname \cup {s} /\ HoldsNickname \in SUBSET Spawns
  BY <1>a, <1>1 DEF TypeOK, HoldsNickname, Live
<1>3. CASE Names = {}
  <2>1. \A u \in Spawns : nickname[u] = NoNickname
    BY <1>a, <1>3 DEF TypeOK, Nicknames
  <2> QED
    BY <1>2, <1>3, <2>1 DEF ReserveAgentNickname, NameFacts, NicknamesRemembered, NicknamesDistinct
<1>4. CASE Names # {}
  <2> DEFINE k == nicknameResetCount'
  <2>1. PICK n \in Names :
           /\ nickname' = [nickname EXCEPT ![s] = <<n, k>>]
           /\ \/ /\ k = nicknameResetCount
                 /\ <<n, nicknameResetCount>> \notin usedNicknames
                 /\ usedNicknames' = usedNicknames \cup {<<n, nicknameResetCount>>}
              \/ /\ k = nicknameResetCount + 1
                 /\ usedNicknames' = {<<n, k>>}
    BY <1>4, NicknameReserved
  <2>2. nicknameResetCount \in Nat /\ k \in Nat
    BY <1>a, <2>1 DEF TypeOK
  <2>3. /\ nickname'[s] = <<n, k>> /\ <<n, k>>[2] = k /\ <<n, k>> \in usedNicknames'
        /\ \A u \in HoldsNickname : nickname'[u] = nickname[u]
    BY <1>a, <1>2, <2>1 DEF TypeOK
  <2>4. ASSUME NEW u \in HoldsNickname, nickname[u] # NoNickname
        PROVE  /\ nickname[u] # <<n, k>> /\ nickname[u][2] \in Nat /\ nickname[u][2] <= k
               /\ nickname[u][2] = k => nickname[u] \in usedNicknames'
    <3>1. nickname[u] \in Names \X Nat
      BY <1>a, <1>2, <2>4 DEF TypeOK, Nicknames
    <3>2. nickname[u][2] \in Nat
      BY <3>1
    <3>3. nickname[u][2] <= nicknameResetCount /\ (nickname[u][2] = nicknameResetCount => nickname[u] \in usedNicknames)
      BY <2>4 DEF NameFacts, NicknamesRemembered
    <3>4. CASE k = nicknameResetCount
      <4>1. nickname[u][2] = k => nickname[u] \in usedNicknames
        BY <3>3, <3>4
      <4>2. <<n, k>> \notin usedNicknames /\ usedNicknames \subseteq usedNicknames'
        BY <2>1, <2>2, <3>4
      <4>3. nickname[u] # <<n, k>>
        BY <2>3, <4>1, <4>2
      <4> QED
        BY <3>2, <3>3, <3>4, <4>1, <4>2, <4>3
    <3>5. CASE k = nicknameResetCount + 1
      <4>1. nickname[u][2] < k
        BY <2>2, <3>2, <3>3, <3>5
      <4> QED
        BY <2>2, <2>3, <3>2, <4>1
    <3> QED
      BY <2>1, <3>4, <3>5
  <2>5. NicknamesRemembered'
    BY <1>2, <2>2, <2>3, <2>4 DEF NicknamesRemembered
  <2>6. NicknamesDistinct'
    <3> SUFFICES ASSUME NEW u \in HoldsNickname \cup {s}, NEW v \in HoldsNickname \cup {s},
                        u # v, nickname'[u] # NoNickname
                 PROVE  nickname'[u] # nickname'[v]
      BY <1>2 DEF NicknamesDistinct
    <3>1. CASE u = s
      <4>1. v \in HoldsNickname /\ nickname'[u] = <<n, k>> /\ nickname'[v] = nickname[v]
        BY <2>3, <3>1
      <4> QED
        BY <2>4, <3>1, <4>1
    <3>2. CASE v = s
      BY <2>3, <2>4, <3>2
    <3>3. CASE u # s /\ v # s
      BY <2>3, <3>3 DEF NameFacts, NicknamesDistinct
    <3> QED
      BY <3>1, <3>2, <3>3
  <2> QED
    BY <2>5, <2>6 DEF NameFacts
<1> QED
  BY <1>3, <1>4

(* A released agent takes only its own nickname out of the pool.           *)
LEMMA ReleaseKeepsNames ==
    ASSUME IndexInv, SlotFacts, NameFacts, NEW t \in Spawns, ReleaseSpawnedThread(t), UNCHANGED nickname,
           \A u \in Spawns : spawn'[u] = spawn[u] \/ (spawn[u] = "cleanup" /\ spawn'[u] = "deleting")
    PROVE  NameFacts'
<1>a. TypeOK /\ Live' = Live \ {t} /\ Live \in SUBSET Spawns
  BY ReleaseFreesSlot, SlotSets DEF IndexInv
<1>1. CASE t \notin Live
  <2>1. HoldsNickname' \subseteq HoldsNickname
    BY <1>a, <1>1 DEF HoldsNickname
  <2>2. UNCHANGED <<usedNicknames, nicknameResetCount>>
    BY <1>1 DEF ReleaseSpawnedThread, Live
  <2> QED
    BY <2>1, <2>2, NamesKept
<1>2. CASE t \in Live
  <2>1. spawn[t] = "committed" /\ agentsByPath[pathByThread[t]].nick = nickname[t]
    BY <1>2 DEF SlotFacts, LiveCommitted
  <2>2. HoldsNickname' \subseteq HoldsNickname \ {t} /\ t \in HoldsNickname
    BY <1>a, <1>2, <2>1 DEF HoldsNickname
  <2>3. usedNicknames \ {nickname[t]} \subseteq usedNicknames' /\ UNCHANGED nicknameResetCount
    BY <2>1 DEF ReleaseSpawnedThread
  <2>4. \A u \in HoldsNickname' : nickname[u] # NoNickname => nickname[u] # nickname[t]
    BY <2>2 DEF NameFacts, NicknamesDistinct
  <2> QED
    BY <2>2, <2>3, <2>4, NamesKept
<1> QED
  BY <1>1, <1>2

LEMMA NameStep ==
    IndexInv /\ SlotFacts /\ NameFacts /\ [Next]_vars /\ (\A r \in Resumers : ~ResumeRegisters(r)) => NameFacts'
<1> SUFFICES ASSUME IndexInv, SlotFacts, NameFacts, [Next]_vars, \A r \in Resumers : ~ResumeRegisters(r)
             PROVE  NameFacts'
  OBVIOUS
<1>a. TypeOK
  BY DEF IndexInv
<1>b. \A s \in Spawns : spawn[s] # "committed" => s \notin Live
  BY DEF SlotFacts, LiveCommitted
<1>0. ASSUME UNCHANGED <<pathByThread, spawn, nickname, nicknameResetCount, usedNicknames>> PROVE NameFacts'
  BY <1>0 DEF NameFacts, NicknamesRemembered, NicknamesDistinct, HoldsNickname, Live
<1>1. ASSUME NEW s \in Spawns, ReserveSpawnSlot(s) PROVE NameFacts'
  BY <1>b, <1>1, NamesUntouched DEF ReserveSpawnSlot
<1>2. ASSUME NEW s \in Spawns, ReserveAgentNickname(s) PROVE NameFacts'
  BY <1>2, ReservingIsDistinct
<1>3. ASSUME NEW s \in Spawns, ReserveAgentPath(s) PROVE NameFacts'
  BY <1>b, <1>3, NamesUntouched DEF ReserveAgentPath, HoldsNickname
<1>4. ASSUME NEW s \in Spawns, CreateChild(s) PROVE NameFacts'
  BY <1>b, <1>4, NamesUntouched DEF CreateChild, HoldsNickname, registryVars
<1>5. ASSUME NEW s \in Spawns, Commit(s) PROVE NameFacts'
  <2>1. Live' = Live \cup {s}
    BY <1>5, CommitEvictsNobody
  <2>2. HoldsNickname' \subseteq HoldsNickname
    BY <1>a, <1>5, <2>1 DEF Commit, SpawnGoes, TypeOK, HoldsNickname
  <2>3. usedNicknames \subseteq usedNicknames' /\ UNCHANGED <<nickname, nicknameResetCount>>
    BY <1>5 DEF Commit, RegisterSpawnedThread
  <2> QED
    BY <2>2, <2>3, NamesKept
<1>6. ASSUME NEW s \in Spawns, SpawnFails(s) PROVE NameFacts'
  BY <1>b, <1>6, NamesUntouched DEF SpawnFails, HoldsNickname, registryVars
<1>7. ASSUME NEW s \in Spawns, CleanupReleases(s) PROVE NameFacts'
  BY <1>a, <1>7, ReleaseKeepsNames DEF CleanupReleases, SpawnGoes, TypeOK
<1>8. ASSUME NEW s \in Spawns, CleanupDeletes(s) PROVE NameFacts'
  BY <1>b, <1>8, NamesUntouched DEF CleanupDeletes, HoldsNickname, registryVars
<1>9. ASSUME NEW s \in Spawns, CancelNickname(s) PROVE NameFacts'
  <2>1. s \in HoldsNickname /\ s \notin Live /\ Live' = Live
    BY <1>b, <1>9 DEF CancelNickname, HoldsNickname, Live
  <2>2. HoldsNickname' \subseteq HoldsNickname \ {s}
    BY <1>a, <1>9, <2>1 DEF CancelNickname, SpawnGoes, TypeOK, HoldsNickname
  <2>3. \A u \in HoldsNickname' : nickname[u] # NoNickname => nickname[u] # nickname[s]
    BY <2>1, <2>2 DEF NameFacts, NicknamesDistinct
  <2> QED
    BY <1>9, <2>2, <2>3, NamesKept DEF CancelNickname
<1>10. ASSUME NEW s \in Spawns, CancelPath(s) PROVE NameFacts'
  BY <1>b, <1>10, NamesUntouched DEF CancelPath
<1>11. ASSUME NEW s \in Spawns, CancelSlot(s) PROVE NameFacts'
  BY <1>b, <1>11, NamesUntouched DEF CancelSlot
<1>12. ASSUME NEW t \in Spawns, CloseAgentThread(t) PROVE NameFacts'
  BY <1>12, ReleaseKeepsNames DEF CloseAgentThread
<1>13. ASSUME NEW r \in Resumers, ResumeReads(r) PROVE NameFacts'
  BY <1>0, <1>13 DEF ResumeReads, registryVars
<1>14. CASE UNCHANGED vars
  BY <1>0, <1>14 DEF vars, registryVars
<1> QED
  BY <1>1, <1>2, <1>3, <1>4, <1>5, <1>6, <1>7, <1>8, <1>9, <1>10, <1>11, <1>12, <1>13, <1>14
     DEF Next, SpawnStep, ResumeStep

(* The path an agent or a reservation has leads back to it alone.          *)
LEMMA PathsDistinct ==
    ASSUME IndexInv, SlotFacts, NEW s \in reservedPaths \cup Live, NEW u \in reservedPaths \cup Live,
           s # u, PathOf[s] # NoPath
    PROVE  PathOf[s] # PathOf[u]
<1>a. TypeOK /\ IdentitiesBijective
  BY DEF IndexInv
<1>1. ASSUME NEW v \in Live, PathOf[v] # NoPath PROVE agentsByPath[PathOf[v]].thread = v
  BY <1>a, <1>1 DEF SlotFacts, LiveCommitted, Key, Live, IdentitiesBijective, Threads
<1>2. ASSUME NEW v \in reservedPaths PROVE agentsByPath[PathOf[v]].thread = "reserved"
  BY <1>2 DEF SlotFacts, ReservationsHold, Placeholder
<1>3. \A v \in Live : v # "reserved"
  BY Keys DEF Live, Threads
<1> QED
  BY <1>1, <1>2, <1>3 DEF SlotFacts, ReservationsHold

(* ReserveAgentNickname, ReserveAgentPath, Commit and Cancel: until the    *)
(* first resume no two agents or spawns under way share a nickname or a    *)
(* path, whatever is cancelled in the middle and however often the pool    *)
(* starts over.                                                            *)
THEOREM NamesStayDistinct == Spec => []NamesDistinct
<1>1. Init => NameInv
  <2>1. Init => HoldsNickname = {}
    BY Keys DEF Init, HoldsNickname, Live, Threads
  <2> QED
    BY <2>1, InitSlots DEF NameInv, NameFacts, NicknamesRemembered, NicknamesDistinct
<1>2. IndexInv /\ NameInv /\ [Next]_vars => NameInv'
  BY ResumedStays, SlotStep, NameStep DEF IndexInv, NameInv
<1>3. IndexInv /\ NameInv => NamesDistinct
  BY PathsDistinct DEF NamesDistinct, NameInv, NameFacts, NicknamesDistinct
<1> QED
  BY <1>1, <1>2, <1>3, IndexInvariant, PTL DEF Spec
=============================================================================
