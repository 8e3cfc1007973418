---------------------------- MODULE UpdateProofs ----------------------------
(***************************************************************************)
(* Proofs about module Update for every number of updaters, installers,     *)
(* releases and inode numbers.                                              *)
(***************************************************************************)
EXTENDS Update, TLAPS

\* The initial state has the right types.
LEMMA TypeInit == Init => TypeOK
<1> SUFFICES ASSUME Init PROVE TypeOK
  OBVIOUS
<1>1. {Unrecognized, 1, NoFile} \cup Versions \subseteq Contents /\ Unrecognized \in Installable
  BY UpdateAssumption
     DEF Contents, Installable, Versions, Unrecognized, NoFile
<1>2. content \in [Files -> Contents]
  BY <1>1 DEF Init
<1>3. inode \in [Files -> Inodes] /\ original \in [Updaters -> Inodes]
  BY DEF Init, Files
<1>4. /\ target \in Files
      /\ temp \subseteq Processes
      /\ lock \in BOOLEAN
      /\ pc \in [Processes -> UpdaterStates \cup InstallerStates]
      /\ exe \in [Updaters -> Files]
      /\ seen \in [Updaters -> Files]
  BY DEF Init, Files, UpdaterStates
<1>5. latest \in Versions
  BY UpdateAssumption DEF Init, Versions
<1>6. goal \in [Processes -> Installable]
  BY <1>1 DEF Init
<1> QED BY <1>2, <1>3, <1>4, <1>5, <1>6 DEF TypeOK

\* Every step keeps the types.
LEMMA TypeNext == TypeOK /\ [Next]_vars => TypeOK'
<1> SUFFICES ASSUME TypeOK, [Next]_vars PROVE TypeOK'
  OBVIOUS
<1> USE DEF TypeOK, GoTo, UpdaterStates, InstallerStates, Contents
<1>1. ASSUME NEW u \in Updaters, Exec(u) PROVE TypeOK'
  BY <1>1 DEF Exec, Processes
<1>2. ASSUME NEW u \in Updaters, CheckLatest(u) PROVE TypeOK'
  BY <1>2 DEF CheckLatest, Processes, Installable
<1>3. ASSUME NEW u \in Updaters, Identify(u) PROVE TypeOK'
  BY <1>3 DEF Identify, Processes
<1>4. ASSUME NEW p \in Processes, NEW state \in {"staged", "copying"},
             goal' \in [Processes -> Installable], CreateTemp(p, state)
      PROVE  TypeOK'
  BY <1>4 DEF CreateTemp, FreeInodes, Files
<1>5. ASSUME NEW u \in Updaters, Stage(u) PROVE TypeOK'
  BY <1>4, <1>5 DEF Stage, Processes
<1>6. ASSUME NEW u \in Updaters,
             \/ StageFails(u) \/ Download(u) \/ Verify(u) \/ PrepareFails(u)
             \/ CheckIdentity(u) \/ RenameFails(u)
      PROVE  TypeOK'
  BY <1>6 DEF StageFails, Download, Verify, PrepareFails, CheckIdentity,
              RenameFails, Processes
<1>7. ASSUME NEW u \in Updaters, Extract(u) PROVE TypeOK'
  BY <1>7 DEF Extract, Processes, Files
<1>8. ASSUME NEW u \in Updaters, AcquireLock(u) \/ ReleaseLock(u)
      PROVE  TypeOK'
  BY <1>8 DEF AcquireLock, ReleaseLock, Processes
<1>9. ASSUME NEW u \in Updaters, Rename(u) \/ Cleanup(u)
      PROVE  TypeOK'
  BY <1>9 DEF Rename, Cleanup, Processes, Files
<1>10. ASSUME NEW i \in Installers, NEW version \in Versions,
              InstallCopy(i, version)
       PROVE  TypeOK'
  BY <1>4, <1>10 DEF InstallCopy, Processes, Installable
<1>11. ASSUME NEW i \in Installers,
              InstallComplete(i) \/ InstallMove(i) \/ InstallFails(i)
       PROVE  TypeOK'
  BY <1>11 DEF InstallComplete, InstallMove, InstallFails, Processes, Files
<1>12. ASSUME NEW p \in Processes, Crash(p) PROVE TypeOK'
  BY <1>12 DEF Crash
<1>13. CASE RecoverLock
  BY <1>13 DEF RecoverLock
<1>14. CASE Publish
  BY <1>14 DEF Publish, Stable
<1>15. CASE UNCHANGED vars
  BY <1>15 DEF vars
<1> HIDE DEF TypeOK
<1> QED BY <1>1, <1>2, <1>3, <1>5, <1>6, <1>7, <1>8, <1>9, <1>10, <1>11,
           <1>12, <1>13, <1>14, <1>15 DEF Next, Step

\* The state of the upgrade keeps its shape for every set of processes.
THEOREM TypeCorrect == Spec => []TypeOK
BY TypeInit, TypeNext, PTL DEF Spec

-----------------------------------------------------------------------------
(***************************************************************************)
(* The lock.  LockDiscipline is inductive given the types: the second       *)
(* conjunct is what makes Mkdir exclude the others, and the first is what   *)
(* makes Remove harmless to them.                                           *)
(***************************************************************************)

\* Steps of updater u outside the critical section leave the others' states
\* and the lock alone.
LEMMA LockFrame ==
    ASSUME TypeOK, LockDiscipline, NEW p \in Processes, lock' = lock,
           NEW state, state \notin Critical, pc' = [pc EXCEPT ![p] = state],
           pc[p] \notin Critical \cup {"crashed"}
    PROVE  LockDiscipline'
BY DEF TypeOK, LockDiscipline, Processes, Critical

\* Every step keeps the lock discipline.
LEMMA LockNext == TypeOK /\ LockDiscipline /\ [Next]_vars => LockDiscipline'
<1> SUFFICES ASSUME TypeOK, LockDiscipline, [Next]_vars
             PROVE  LockDiscipline'
  OBVIOUS
<1>1. ASSUME NEW u \in Updaters,
             \/ Exec(u) \/ CheckLatest(u) \/ Identify(u) \/ Stage(u)
             \/ StageFails(u) \/ Download(u) \/ Verify(u) \/ Extract(u)
             \/ PrepareFails(u) \/ Cleanup(u)
      PROVE  LockDiscipline'
  <2>1. /\ lock' = lock
        /\ pc[u] \notin Critical \cup {"crashed"}
        /\ \E state : state \notin Critical /\ pc' = [pc EXCEPT ![u] = state]
    BY <1>1 DEF Exec, CheckLatest, Identify, Stage, StageFails, Download,
                Verify, Extract, PrepareFails, Cleanup, CreateTemp, GoTo,
                Critical
  <2> QED BY <2>1, LockFrame DEF Processes
<1>2. ASSUME NEW u \in Updaters, AcquireLock(u) PROVE LockDiscipline'
  BY <1>2 DEF AcquireLock, GoTo, TypeOK, LockDiscipline, Processes, Critical
<1>3. ASSUME NEW u \in Updaters,
             CheckIdentity(u) \/ Rename(u) \/ RenameFails(u)
      PROVE  LockDiscipline'
  BY <1>3 DEF CheckIdentity, Rename, RenameFails, GoTo, TypeOK,
              LockDiscipline, Processes, Critical
<1>4. ASSUME NEW u \in Updaters, ReleaseLock(u) PROVE LockDiscipline'
  BY <1>4 DEF ReleaseLock, GoTo, TypeOK, LockDiscipline, Processes, Critical
<1>5. ASSUME NEW i \in Installers,
             \/ \E version \in Versions : InstallCopy(i, version)
             \/ InstallComplete(i) \/ InstallMove(i) \/ InstallFails(i)
      PROVE  LockDiscipline'
  <2>1. /\ lock' = lock
        /\ pc[i] \notin Critical \cup {"crashed"}
        /\ \E state : state \notin Critical /\ pc' = [pc EXCEPT ![i] = state]
    BY <1>5 DEF InstallCopy, InstallComplete, InstallMove, InstallFails,
                CreateTemp, GoTo, Critical
  <2> QED BY <2>1, LockFrame DEF Processes
<1>6. ASSUME NEW p \in Processes, Crash(p) PROVE LockDiscipline'
  BY <1>6 DEF Crash, GoTo, TypeOK, LockDiscipline, Processes, Critical
<1>7. CASE RecoverLock
  BY <1>7 DEF RecoverLock, Running, LockDiscipline, Critical
<1>8. CASE Publish \/ UNCHANGED vars
  BY <1>8 DEF Publish, vars, LockDiscipline
<1> QED BY <1>1, <1>2, <1>3, <1>4, <1>5, <1>6, <1>7, <1>8 DEF Next, Step

\* At most one updater is in the critical section of install, whatever the
\* number of updaters, crashes and documented recoveries.
THEOREM LockExcludes == Spec => []LockDiscipline
<1>1. Init => LockDiscipline
  BY DEF Init, LockDiscipline, Critical, Processes
<1> QED BY <1>1, LockNext, TypeCorrect, PTL DEF Spec

-----------------------------------------------------------------------------
(***************************************************************************)
(* The installed file.  A file must be complete before it can be renamed,   *)
(* and its creator must not write to it once it is installed.               *)
(***************************************************************************)
CompleteInv ==
    /\ InstalledComplete
    /\ \A u \in Updaters :
           pc[u] \in {"ready", "locked", "checked"} => content[u] \in Installable
    /\ \A i \in Installers : pc[i] = "copied" => content[i] \in Installable
    /\ target \in Updaters => pc[target] \in {"unlocking", "cleanup", "done", "crashed"}
    /\ target \in Installers => pc[target] \in {"done", "crashed"}

\* Every step keeps what is installed complete.
LEMMA CompleteNext == TypeOK /\ CompleteInv /\ [Next]_vars => CompleteInv'
<1> SUFFICES ASSUME TypeOK, CompleteInv, [Next]_vars PROVE CompleteInv'
  OBVIOUS
<1> USE UpdateAssumption DEF CompleteInv, InstalledComplete, TypeOK, GoTo, Processes, Files
<1>1. ASSUME NEW u \in Updaters,
             \/ Exec(u) \/ CheckLatest(u) \/ Identify(u)
             \/ StageFails(u) \/ Download(u) \/ Verify(u)
             \/ PrepareFails(u) \/ Cleanup(u)
      PROVE  CompleteInv'
  BY <1>1 DEF Exec, CheckLatest, Identify, StageFails, Download,
              Verify, PrepareFails, Cleanup
<1>2. ASSUME NEW u \in Updaters, Stage(u) PROVE CompleteInv'
  BY <1>2 DEF Stage, CreateTemp
<1>3. ASSUME NEW u \in Updaters, Extract(u) PROVE CompleteInv'
  BY <1>3 DEF Extract
<1>4. ASSUME NEW u \in Updaters,
             AcquireLock(u) \/ CheckIdentity(u) \/ RenameFails(u) \/ ReleaseLock(u)
      PROVE  CompleteInv'
  BY <1>4 DEF AcquireLock, CheckIdentity, RenameFails, ReleaseLock
<1>5. ASSUME NEW u \in Updaters, Rename(u) PROVE CompleteInv'
  BY <1>5 DEF Rename
<1>6. ASSUME NEW i \in Installers, NEW version \in Versions,
             InstallCopy(i, version)
      PROVE  CompleteInv'
  BY <1>6 DEF InstallCopy, CreateTemp
<1>7. ASSUME NEW i \in Installers, InstallComplete(i) PROVE CompleteInv'
  BY <1>7 DEF InstallComplete
<1>8. ASSUME NEW i \in Installers, InstallMove(i) \/ InstallFails(i)
      PROVE  CompleteInv'
  BY <1>8 DEF InstallMove, InstallFails
<1>9. ASSUME NEW p \in Processes, Crash(p) PROVE CompleteInv'
  BY <1>9 DEF Crash
<1>10. CASE RecoverLock \/ Publish \/ UNCHANGED vars
  BY <1>10 DEF RecoverLock, Publish, vars
<1> HIDE DEF CompleteInv
<1> QED BY <1>1, <1>2, <1>3, <1>4, <1>5, <1>6, <1>7, <1>8, <1>9, <1>10
        DEF Next, Step

\* Download, verification and extraction failures, kills and races leave a
\* complete executable at the target path, for any number of processes.
THEOREM InstallationStaysComplete == Spec => []InstalledComplete
<1>1. Init => CompleteInv
  BY UpdateAssumption
     DEF Init, CompleteInv, InstalledComplete, Installable, Versions, Processes,
         Files, Unrecognized
<1>2. CompleteInv => InstalledComplete
  BY DEF CompleteInv
<1> QED BY <1>1, <1>2, CompleteNext, TypeCorrect, PTL DEF Spec

-----------------------------------------------------------------------------
(***************************************************************************)
(* What is left behind.                                                     *)
(***************************************************************************)
Holding == {"staged", "fetched", "corrupt", "extracting", "ready", "locked", "checked",
            "unlocking", "cleanup", "copying", "copied", "crashed"}

\* A staged file belongs to a process that is still to remove or rename it,
\* or was killed.
StagedInv == \A p \in temp : pc[p] \in Holding

\* Every step keeps the owners of staged files.
LEMMA StagedNext == TypeOK /\ StagedInv /\ [Next]_vars => StagedInv'
<1> SUFFICES ASSUME TypeOK, StagedInv, [Next]_vars PROVE StagedInv'
  OBVIOUS
<1> USE DEF StagedInv, TypeOK, GoTo, Processes, Holding
<1>1. ASSUME NEW u \in Updaters,
             \/ Exec(u) \/ CheckLatest(u) \/ Identify(u) \/ StageFails(u)
      PROVE  StagedInv'
  BY <1>1 DEF Exec, CheckLatest, Identify, StageFails
<1>2. ASSUME NEW u \in Updaters,
             \/ Download(u) \/ Verify(u) \/ Extract(u) \/ PrepareFails(u)
             \/ AcquireLock(u) \/ CheckIdentity(u) \/ RenameFails(u) \/ ReleaseLock(u)
      PROVE  StagedInv'
  BY <1>2 DEF Download, Verify, Extract, PrepareFails, AcquireLock, CheckIdentity,
              RenameFails, ReleaseLock
<1>3. ASSUME NEW u \in Updaters, Stage(u) \/ Rename(u) \/ Cleanup(u) PROVE StagedInv'
  BY <1>3 DEF Stage, Rename, Cleanup, CreateTemp
<1>4. ASSUME NEW i \in Installers,
             \/ \E version \in Versions : InstallCopy(i, version)
             \/ InstallComplete(i) \/ InstallMove(i) \/ InstallFails(i)
      PROVE  StagedInv'
  BY <1>4 DEF InstallCopy, InstallComplete, InstallMove, InstallFails, CreateTemp
<1>5. ASSUME NEW p \in Processes, Crash(p) PROVE StagedInv'
  BY <1>5 DEF Crash
<1>6. CASE RecoverLock \/ Publish \/ UNCHANGED vars
  BY <1>6 DEF RecoverLock, Publish, vars
<1> HIDE DEF StagedInv
<1> QED BY <1>1, <1>2, <1>3, <1>4, <1>5, <1>6 DEF Next, Step

\* When all commands have ended and none was killed, no staged file and no
\* lock directory is left beside the executable.
THEOREM EverythingIsCleanedUp == Spec => []NothingLeftBehind
<1>1. Init => StagedInv /\ LockDiscipline
  BY DEF Init, StagedInv, LockDiscipline, Critical, Processes
<1>2. TypeOK /\ StagedInv /\ LockDiscipline => NothingLeftBehind
  BY DEF TypeOK, StagedInv, LockDiscipline, NothingLeftBehind, Holding, Critical, Processes
<1> QED BY <1>1, <1>2, StagedNext, LockNext, TypeCorrect, PTL DEF Spec

-----------------------------------------------------------------------------
(***************************************************************************)
(* Which file an updater replaces, when updaters are alone.                 *)
(***************************************************************************)
Renamed == {"unlocking", "cleanup", "done", "crashed"}
Holds == {"staged", "fetched", "corrupt", "extracting", "ready", "locked", "checked"}
Stages == Holds \cup {"copying", "copied"}
Captured == Holds \cup {"identified"}
Chosen == Captured \cup {"locating"}

\* A file that is or was installed, or that is executed, has an owner that
\* changes neither its content nor its number any more.
Settled(f) == f \in Processes => pc[f] \in Renamed

SettledInv ==
    /\ Settled(target)
    /\ \A u \in Updaters : Settled(exe[u]) /\ Settled(seen[u])
    /\ \A p \in Processes : pc[p] \in Stages => p \in temp
    /\ \A p \in Processes : p \in temp => pc[p] \in Stages \cup Renamed

\* Files in use have different numbers.
DistinctInodes ==
    \A f, g \in Files : InUse(f) /\ InUse(g) /\ inode[f] = inode[g] => f = g

\* What an updater captured and chose stays true until it renames.
CapturedInv ==
    /\ \A u \in Updaters : pc[u] \in Captured => original[u] = inode[seen[u]]
    /\ \A u \in Updaters :
          pc[u] \in Chosen =>
              content[exe[u]] = Unrecognized \/ Newer(goal[u], content[exe[u]])
    /\ \A u \in Updaters : pc[u] \in {"ready", "locked", "checked"} => content[u] = goal[u]
    /\ \A u \in Updaters :
          pc[u] = "checked" /\ seen[u] = exe[u] => target \in Installers \cup {exe[u]}

OwnInv == SettledInv /\ DistinctInodes /\ CapturedInv

\* One process moves, or none does.
Moves ==
    \/ \E u \in Updaters : Exec(u) \/ Step(u)
    \/ \E i \in Installers :
           \/ \E version \in Versions : InstallCopy(i, version)
           \/ InstallComplete(i) \/ InstallMove(i) \/ InstallFails(i)
    \/ \E p \in Processes : Crash(p)
    \/ RecoverLock \/ Publish \/ UNCHANGED vars

LEMMA EveryMove == [Next]_vars => Moves
BY DEF Next, Moves

\* A step of p that moves it on among the states with or without a file.
LEMMA SettledFrame ==
    ASSUME TypeOK, SettledInv, NEW p \in Processes, NEW state,
           target' = target, temp' = temp, exe' = exe, seen' = seen,
           pc' = [pc EXCEPT ![p] = state],
           pc[p] \in Renamed => state \in Renamed,
           state \in Stages => pc[p] \in Stages,
           pc[p] \in Stages => state \in Stages \cup Renamed
    PROVE  SettledInv'
BY UpdateAssumption DEF SettledInv, Settled, TypeOK, Processes, Files

\* Every step keeps installed and executed files settled.
LEMMA SettledNext == TypeOK /\ SettledInv /\ Moves => SettledInv'
<1> SUFFICES ASSUME TypeOK, SettledInv, Moves PROVE SettledInv'
  OBVIOUS
<1>1. ASSUME NEW u \in Updaters,
             \/ CheckLatest(u) \/ StageFails(u) \/ Download(u) \/ Verify(u) \/ Extract(u)
             \/ PrepareFails(u)
      PROVE  SettledInv'
  BY <1>1, SettledFrame DEF CheckLatest, StageFails, Download, Verify, Extract,
         PrepareFails, GoTo, Renamed, Holds, Stages, Processes
<1>2. ASSUME NEW u \in Updaters,
             \/ AcquireLock(u) \/ CheckIdentity(u) \/ RenameFails(u) \/ ReleaseLock(u)
      PROVE  SettledInv'
  BY <1>2, SettledFrame DEF AcquireLock, CheckIdentity, RenameFails, ReleaseLock, GoTo,
         Renamed, Holds, Stages, Processes
<1>3. ASSUME NEW u \in Processes, Crash(u) PROVE SettledInv'
  BY <1>3, SettledFrame DEF Crash, GoTo, Renamed, Holds, Stages
<1> USE UpdateAssumption DEF SettledInv, Settled, TypeOK, GoTo, Processes, Files,
        Renamed, Holds, Stages
<1>4. ASSUME NEW u \in Updaters, Exec(u) PROVE SettledInv'
  BY <1>4 DEF Exec
<1>5. ASSUME NEW u \in Updaters, Identify(u) PROVE SettledInv'
  BY <1>5 DEF Identify
<1>6. ASSUME NEW u \in Updaters, Stage(u) PROVE SettledInv'
  BY <1>6 DEF Stage, CreateTemp
<1>7. ASSUME NEW u \in Updaters, Rename(u) PROVE SettledInv'
  BY <1>7 DEF Rename
<1>8. ASSUME NEW u \in Updaters, Cleanup(u) PROVE SettledInv'
  BY <1>8 DEF Cleanup
<1>9. CASE RecoverLock \/ Publish \/ UNCHANGED vars
  BY <1>9 DEF RecoverLock, Publish, vars
<1>10. ASSUME NEW i \in Installers, NEW version \in Versions, InstallCopy(i, version)
       PROVE  SettledInv'
  BY <1>10 DEF InstallCopy, CreateTemp
<1>11. ASSUME NEW i \in Installers, InstallComplete(i) PROVE SettledInv'
  BY <1>11 DEF InstallComplete
<1>12. ASSUME NEW i \in Installers, InstallMove(i) PROVE SettledInv'
  BY <1>12 DEF InstallMove
<1>13. ASSUME NEW i \in Installers, InstallFails(i) PROVE SettledInv'
  BY <1>13 DEF InstallFails
<1> HIDE DEF SettledInv, Settled, TypeOK, GoTo, Files, Renamed, Holds, Stages
<1> QED BY <1>1, <1>2, <1>3, <1>4, <1>5, <1>6, <1>7, <1>8, <1>9, <1>10, <1>11, <1>12,
          <1>13 DEF Moves, Step

\* Every step keeps the numbers of files in use apart.
LEMMA DistinctNext == TypeOK /\ SettledInv /\ DistinctInodes /\ Moves => DistinctInodes'
<1> SUFFICES ASSUME TypeOK, SettledInv, DistinctInodes, Moves PROVE DistinctInodes'
  OBVIOUS
<1> USE UpdateAssumption DEF TypeOK, Processes, Files
<1>1. ASSUME NEW p \in Processes, NEW state, CreateTemp(p, state),
             pc[p] \in {"idle", "identified"}, p \in Updaters => pc[p] = "identified"
      PROVE  DistinctInodes'
  <2>1. PICK i \in FreeInodes : inode' = [inode EXCEPT ![p] = i]
    BY <1>1 DEF CreateTemp
  <2>2. ~InUse(p)
    BY <1>1 DEF SettledInv, Settled, Renamed, Stages, Holds, InUse, Running
  <2>3. \A f \in Files : InUse(f)' => InUse(f) \/ f = p
    BY <1>1 DEF CreateTemp, GoTo, InUse, Running
  <2>4. \A f \in Files : InUse(f) => inode[f] # i
    BY <2>1 DEF FreeInodes
  <2> QED BY <2>1, <2>2, <2>3, <2>4 DEF DistinctInodes
<1>2. ASSUME inode' = inode, \A f \in Files : InUse(f)' => InUse(f)
      PROVE  DistinctInodes'
  BY <1>2 DEF DistinctInodes
<1>3. ASSUME NEW u \in Updaters,
             \/ Exec(u) \/ CheckLatest(u) \/ Identify(u) \/ StageFails(u)
             \/ Download(u) \/ Verify(u) \/ Extract(u) \/ PrepareFails(u)
      PROVE  DistinctInodes'
  BY <1>2, <1>3 DEF Exec, CheckLatest, Identify, StageFails, Download, Verify, Extract,
                    PrepareFails, GoTo, InUse, Running
<1>4. ASSUME NEW u \in Updaters,
             \/ AcquireLock(u) \/ CheckIdentity(u) \/ RenameFails(u) \/ ReleaseLock(u)
             \/ Cleanup(u)
      PROVE  DistinctInodes'
  BY <1>2, <1>4 DEF AcquireLock, CheckIdentity, RenameFails, ReleaseLock, Cleanup,
                    GoTo, InUse, Running
<1>5. ASSUME NEW u \in Updaters, Rename(u) PROVE DistinctInodes'
  <2>1. u \in temp
    BY <1>5 DEF Rename, SettledInv, Holds, Stages
  <2> QED BY <1>2, <1>5, <2>1 DEF Rename, GoTo, InUse, Running
<1>6. CASE RecoverLock \/ Publish \/ UNCHANGED vars
  BY <1>2, <1>6 DEF RecoverLock, Publish, vars, InUse, Running
<1>7. ASSUME NEW u \in Updaters, Stage(u) PROVE DistinctInodes'
  BY <1>1, <1>7 DEF Stage
<1>8. ASSUME NEW i \in Installers, NEW version \in Versions, InstallCopy(i, version)
      PROVE  DistinctInodes'
  BY <1>1, <1>8 DEF InstallCopy
<1>9. ASSUME NEW i \in Installers, InstallMove(i) PROVE DistinctInodes'
  <2>1. i \in temp
    BY <1>9 DEF InstallMove, SettledInv, Stages
  <2> QED BY <1>2, <1>9, <2>1 DEF InstallMove, GoTo, InUse, Running
<1>10. ASSUME NEW i \in Installers, InstallComplete(i) \/ InstallFails(i)
       PROVE  DistinctInodes'
  BY <1>2, <1>10 DEF InstallComplete, InstallFails, GoTo, InUse, Running
<1>11. ASSUME NEW p \in Processes, Crash(p) PROVE DistinctInodes'
  BY <1>2, <1>11 DEF Crash, GoTo, InUse, Running
<1> HIDE DEF TypeOK, Files
<1> QED BY <1>3, <1>4, <1>5, <1>6, <1>7, <1>8, <1>9, <1>10, <1>11 DEF Moves, Step

\* A step of u that keeps what it captured and chose, or forgets it.
LEMMA CapturedFrame ==
    ASSUME TypeOK, CapturedInv, NEW u \in Processes, NEW state,
           UNCHANGED <<target, content, inode, exe, goal, original, seen>>,
           pc' = [pc EXCEPT ![u] = state],
           state \in Captured => pc[u] \in Captured,
           state \in Chosen => pc[u] \in Chosen,
           state \in {"ready", "locked", "checked"} => pc[u] \in {"ready", "locked", "checked"},
           state = "checked" => pc[u] = "checked"
    PROVE  CapturedInv'
BY UpdateAssumption DEF CapturedInv, TypeOK, Processes

\* Every step keeps what was captured and chosen.
LEMMA CapturedNext ==
    TypeOK /\ LockDiscipline /\ OwnInv /\ Moves => CapturedInv'
<1> SUFFICES ASSUME TypeOK, LockDiscipline, OwnInv, Moves PROVE CapturedInv'
  OBVIOUS
<1> USE UpdateAssumption DEF OwnInv, CapturedInv, TypeOK, GoTo, Processes, Files,
        Captured, Chosen, Holds
<1>1. ASSUME NEW u \in Updaters, Exec(u) PROVE CapturedInv'
  BY <1>1 DEF Exec
<1>2. ASSUME NEW u \in Updaters, CheckLatest(u) PROVE CapturedInv'
  <2>1. CASE pc'[u] = "done"
    BY <1>2, <2>1 DEF CheckLatest
  <2>2. CASE pc' = [pc EXCEPT ![u] = "locating"] /\ goal' = [goal EXCEPT ![u] = latest]
    <3>1. goal'[u] = latest /\ (content[exe[u]] = Unrecognized \/ Newer(latest, content[exe[u]]))
      BY <1>2, <2>2 DEF CheckLatest
    <3>2. UNCHANGED <<target, content, inode, exe, original, seen>>
      BY <1>2 DEF CheckLatest
    <3> QED BY <2>2, <3>1, <3>2
  <2> QED BY <1>2, <2>1, <2>2 DEF CheckLatest
<1>3. ASSUME NEW u \in Updaters, Identify(u) PROVE CapturedInv'
  BY <1>3 DEF Identify
<1>4. ASSUME NEW u \in Updaters, Stage(u) PROVE CapturedInv'
  <2>1. \A v \in Updaters : seen[v] # u /\ exe[v] # u
    BY <1>4 DEF Stage, SettledInv, Settled, Renamed, Stages
  <2> QED BY <1>4, <2>1 DEF Stage, CreateTemp
<1>5. ASSUME NEW u \in Updaters, Extract(u) PROVE CapturedInv'
  <2>1. \A v \in Updaters : exe[v] # u
    BY <1>5 DEF Extract, SettledInv, Settled, Renamed, Stages
  <2> QED BY <1>5, <2>1 DEF Extract
<1>6. ASSUME NEW u \in Updaters,
             \/ StageFails(u) \/ Download(u) \/ Verify(u) \/ PrepareFails(u)
             \/ RenameFails(u) \/ ReleaseLock(u) \/ Cleanup(u) \/ AcquireLock(u)
      PROVE  CapturedInv'
  <2> HIDE DEF OwnInv, CapturedInv, TypeOK
  <2>1. CASE StageFails(u) \/ Download(u) \/ Verify(u) \/ PrepareFails(u)
    BY <2>1, CapturedFrame DEF StageFails, Download, Verify, PrepareFails, OwnInv
  <2>2. CASE RenameFails(u) \/ ReleaseLock(u) \/ Cleanup(u) \/ AcquireLock(u)
    BY <2>2, CapturedFrame DEF RenameFails, ReleaseLock, Cleanup, AcquireLock, OwnInv
  <2> QED BY <1>6, <2>1, <2>2
<1>7. ASSUME NEW u \in Updaters, CheckIdentity(u) PROVE CapturedInv'
  <2>1. ASSUME inode[target] = original[u], seen[u] = exe[u], pc[u] = "locked"
        PROVE  target = exe[u]
    <3>1. InUse(target) /\ InUse(exe[u])
      BY <2>1 DEF InUse, Running
    <3> QED BY <2>1, <3>1 DEF DistinctInodes
  <2> QED BY <1>7, <2>1 DEF CheckIdentity
<1>8. ASSUME NEW u \in Updaters, Rename(u) PROVE CapturedInv'
  <2>1. \A v \in Updaters : pc[v] = "checked" => v = u
    BY <1>8 DEF Rename, LockDiscipline, Critical
  <2> QED BY <1>8, <2>1 DEF Rename
<1>9. CASE RecoverLock \/ Publish \/ UNCHANGED vars
  BY <1>9 DEF RecoverLock, Publish, vars
<1>10. ASSUME NEW i \in Installers, NEW version \in Versions, InstallCopy(i, version)
       PROVE  CapturedInv'
  <2>1. \A v \in Updaters : seen[v] # i /\ exe[v] # i
    <3>1. pc[i] = "idle" /\ i \in Processes
      BY <1>10 DEF InstallCopy
    <3> HIDE DEF CapturedInv, TypeOK, GoTo, Files
    <3> QED BY <3>1 DEF SettledInv, Settled, Renamed
  <2> QED BY <1>10, <2>1 DEF InstallCopy, CreateTemp
<1>11. ASSUME NEW i \in Installers, InstallComplete(i) PROVE CapturedInv'
  <2>1. \A v \in Updaters : exe[v] # i
    BY <1>11 DEF InstallComplete, SettledInv, Settled, Renamed
  <2> QED BY <1>11, <2>1 DEF InstallComplete
<1>12. ASSUME NEW i \in Installers, InstallMove(i) PROVE CapturedInv'
  BY <1>12 DEF InstallMove
<1>13. ASSUME NEW i \in Installers, InstallFails(i) PROVE CapturedInv'
  BY <1>13 DEF InstallFails
<1>14. ASSUME NEW p \in Processes, Crash(p) PROVE CapturedInv'
  BY <1>14, CapturedFrame DEF Crash
<1> HIDE DEF CapturedInv
<1> QED BY <1>1, <1>2, <1>3, <1>4, <1>5, <1>6, <1>7, <1>8, <1>9, <1>10, <1>11, <1>12,
          <1>13, <1>14 DEF Moves, Step

\* Versions are numbered in the order that Newer finds.
NumberedByNewer == \A v, w \in Versions : Newer(v, w) => v > w

\* A rename by an updater that captured the file it executes replaces that very
\* file, with a later version, or one that an installer moved there: inode
\* numbers given again do not deceive SameFile, because the running process
\* keeps its file alive.
THEOREM UpdatersReplaceTheirOwnFile == NumberedByNewer /\ Spec => ReplacesOwnFile
<1>1. Init => OwnInv
  BY UpdateAssumption
     DEF Init, OwnInv, SettledInv, Settled, DistinctInodes, CapturedInv, InUse, Running,
         Processes, Files, Captured, Chosen, Holds, Stages
<1>2. NumberedByNewer => NumberedByNewer'
  BY DEF NumberedByNewer, Newer, Versions, numericGreater, Prefers
<1>3. TypeOK /\ LockDiscipline /\ OwnInv /\ [Next]_vars => OwnInv'
  BY EveryMove, SettledNext, DistinctNext, CapturedNext DEF OwnInv
<1>4. NumberedByNewer /\ TypeOK /\ OwnInv /\ InstalledComplete /\ [Next]_vars
      => [\A u \in Updaters :
             target' = u /\ target # u /\ seen[u] = exe[u]
                 => \/ target \in Installers \ {exe[u]}
                    \/ /\ target = exe[u]
                       /\ \/ content[target] = Unrecognized
                          \/ content[u] > content[target]]_vars
  <2> SUFFICES ASSUME NumberedByNewer, TypeOK, OwnInv, InstalledComplete, Moves,
                      NEW u \in Updaters, target' = u, target # u, seen[u] = exe[u],
                      target \notin Installers \ {exe[u]}
               PROVE  /\ target = exe[u]
                      /\ content[target] = Unrecognized \/ content[u] > content[target]
    BY EveryMove
  <2>1. PICK v \in Updaters : Rename(v)
    BY UpdateAssumption
       DEF Moves, InstallCopy, InstallComplete, InstallMove, InstallFails, Step, Exec,
           CheckLatest, Identify, Stage, StageFails, CreateTemp, Download,
           Verify, Extract, PrepareFails, AcquireLock, CheckIdentity, Rename, RenameFails,
           ReleaseLock, Cleanup, Crash, RecoverLock, Publish, vars
  <2>2. v = u /\ pc[u] = "checked"
    BY <2>1 DEF Rename
  <2>3. target = exe[u]
    BY <2>2 DEF OwnInv, CapturedInv
  <2>4. content[u] = goal[u] /\ goal[u] \in Installable
    BY <2>2 DEF OwnInv, CapturedInv, TypeOK, Processes
  <2>5. content[target] = Unrecognized \/ Newer(content[u], content[target])
    BY <2>2, <2>3, <2>4 DEF OwnInv, CapturedInv, Chosen, Captured, Holds
  <2>6. CASE Newer(content[u], content[target])
    <3>1. content[u] \in Versions
      BY <2>4, <2>6 DEF Newer, Installable
    <3>2. content[target] \in Installable
      BY DEF InstalledComplete
    <3>3. content[target] \in Versions
      BY <2>6, <3>2 DEF Newer, Installable
    <3> QED BY <2>3, <2>6, <3>1, <3>3 DEF NumberedByNewer
  <2> QED BY <2>3, <2>5, <2>6
<1> QED BY <1>1, <1>2, <1>3, <1>4, LockExcludes, InstallationStaysComplete, TypeCorrect,
           PTL DEF Spec, ReplacesOwnFile
=============================================================================
