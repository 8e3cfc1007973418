------------------------------- MODULE Update -------------------------------
(***************************************************************************)
(* In-place upgrades of the installed executable: `sqlc-ydb version         *)
(* --upgrade` (internal/update/update.go) and the shell installer           *)
(* (install.sh) acting on one installation directory.  Several processes    *)
(* may run at once, any of them may be killed, and releases may be          *)
(* published meanwhile.                                                     *)
(*                                                                          *)
(* Every process creates at most one file, so a file is named after its     *)
(* creator.  What the code compares is the file's inode number (os.SameFile *)
(* on Unix), and the file system may give the number of a deleted file to   *)
(* a new one; a number stays taken while the file has a name or is being    *)
(* executed.                                                                *)
(***************************************************************************)
EXTENDS Naturals, FiniteSets, Sequences

CONSTANTS
    Updaters,    \* processes running version --upgrade
    Installers,  \* processes running install.sh
    Inodes,      \* inode numbers of the installation directory's file system
    MaxVersion,  \* versions are numbered 1..MaxVersion, in their order
    Components,  \* major, minor, patch and release candidate of each version
    Original     \* the file installed at the start

Processes == Updaters \cup Installers
Files == Processes \cup {Original}

Unrecognized == 0 \* a source build whose version does not parse
Versions == 1..MaxVersion
Installable == Versions \cup {Unrecognized}

\* Components are strings of digits; a release has no candidate number.
Stable == {v \in Versions : Components[v][4] = <<>>}

ASSUME UpdateAssumption ==
    /\ Updaters \cap Installers = {}
    /\ Original \notin Processes
    /\ MaxVersion \in Nat \ {0}
    /\ Components \in [Versions -> [1..4 -> Seq(0..9)]]
    /\ 1 \in Stable
    /\ Inodes # {}

Incomplete == MaxVersion + 1 \* a file that is still being written
NoFile == MaxVersion + 2     \* not created yet
Contents == Installable \cup {Incomplete, NoFile}

VARIABLES
    target,   \* the file at the path of the executable
    temp,     \* the files that still have a name of their own beside it
    content,  \* what each file holds
    inode,    \* the inode number each file got when it was created
    lock,     \* whether the directory <target>.update-lock exists
    latest,   \* the latest stable release, which /latest redirects to
    pc,       \* where each process is
    exe,      \* the file each process executes
    goal,     \* the release each process installs
    original, \* the inode number each updater captured (info)
    seen      \* history: the file whose number that was

vars == <<target, temp, content, inode, lock, latest, pc, exe, goal,
          original, seen>>

UpdaterStates ==
    {"idle", "checking", "locating", "identified", "staged", "fetched",
     "corrupt", "extracting", "ready", "locked", "checked", "unlocking",
     "cleanup", "done", "crashed"}

InstallerStates == {"idle", "copying", "copied", "done", "crashed"}

Running(p) == pc[p] \notin {"idle", "done", "crashed"}

\* The installer is a shell script: it executes no file of the directory.
InUse(f) ==
    \/ f = target
    \/ f \in temp
    \/ \E p \in Updaters : Running(p) /\ exe[p] = f

FreeInodes == Inodes \ {inode[f] : f \in {g \in Files : InUse(g)}}

GoTo(p, state) == pc' = [pc EXCEPT ![p] = state]

-----------------------------------------------------------------------------
(***************************************************************************)
(* Update, step by step.  Every operation that can fail has an outcome      *)
(* that ends the command; after CreateTemp that is the deferred cleanup.    *)
(***************************************************************************)

\* The process is started: it executes what is installed now.
Exec(u) ==
    /\ pc[u] = "idle"
    /\ exe' = [exe EXCEPT ![u] = target]
    /\ GoTo(u, "checking")
    /\ UNCHANGED <<target, temp, content, inode, lock, latest, goal,
                   original, seen>>

Prefers(a, b) ==
    \E i \in DOMAIN a : a[i] > b[i] /\ \A j \in 1..i - 1 : a[j] = b[j]

\* Fault: strings of digits are compared as strings.
numericGreaterAsText(a, b) ==
    \E i \in DOMAIN a :
        /\ \A j \in 1..i - 1 : j \in DOMAIN b /\ a[j] = b[j]
        /\ i \notin DOMAIN b \/ a[i] > b[i]

numericGreater(a, b) ==
    IF Len(a) # Len(b) THEN Len(a) > Len(b) ELSE Prefers(a, b)

\* The first component that differs decides; a release comes after its
\* candidates, and an unrecognized version is never newer or older.
Newer(newer, older) ==
    LET a == Components[newer]
        b == Components[older]
        same(n) == \A i \in 1..n : a[i] = b[i]
    IN  /\ newer # Unrecognized /\ older # Unrecognized
        /\ \/ \E i \in 1..3 : same(i - 1) /\ a[i] # b[i] /\ numericGreater(a[i], b[i])
           \/ /\ same(3)
              /\ IF a[4] = <<>> \/ b[4] = <<>> THEN a[4] = <<>> /\ b[4] # <<>>
                 ELSE numericGreater(a[4], b[4])

\* Latest, and the comparison with the version built into the running binary.
CheckLatest(u) ==
    LET current == content[exe[u]]
    IN  /\ pc[u] = "checking"
        /\ \/ /\ current = Unrecognized \/ Newer(latest, current)
              /\ goal' = [goal EXCEPT ![u] = latest]
              /\ GoTo(u, "locating")
           \/ GoTo(u, "done") /\ UNCHANGED goal \* up to date, or an error
        /\ UNCHANGED <<target, temp, content, inode, lock, latest, exe,
                       original, seen>>

\* Open, Stat, Close of whatever the path of the executable holds now.
Identify(u) ==
    /\ pc[u] = "locating"
    /\ original' = [original EXCEPT ![u] = inode[target]]
    /\ seen' = [seen EXCEPT ![u] = target]
    /\ GoTo(u, "identified")
    /\ UNCHANGED <<target, temp, content, inode, lock, latest, exe, goal>>

\* A new file beside the executable.
CreateTemp(p, state) ==
    /\ temp' = temp \cup {p}
    /\ content' = [content EXCEPT ![p] = Incomplete]
    /\ \E i \in FreeInodes : inode' = [inode EXCEPT ![p] = i]
    /\ GoTo(p, state)
    /\ UNCHANGED <<target, lock, latest, exe, original, seen>>

Stage(u) ==
    /\ pc[u] = "identified"
    /\ CreateTemp(u, "staged")
    /\ UNCHANGED goal

\* The executable cannot be opened, or the directory is not writable.
StageFails(u) ==
    /\ pc[u] \in {"locating", "identified"}
    /\ GoTo(u, "done")
    /\ UNCHANGED <<target, temp, content, inode, lock, latest, exe, goal,
                   original, seen>>

\* SHA256SUMS and the archive arrive, intact or not.
Download(u) ==
    /\ pc[u] = "staged"
    /\ \E state \in {"fetched", "corrupt"} : GoTo(u, state)
    /\ UNCHANGED <<target, temp, content, inode, lock, latest, exe, goal,
                   original, seen>>

\* Fault: a corrupt archive is downloaded again without a limit.
VerifyRetries(u) ==
    /\ \/ pc[u] = "fetched" /\ GoTo(u, "extracting")
       \/ pc[u] = "corrupt" /\ GoTo(u, "staged")
    /\ UNCHANGED <<target, temp, content, inode, lock, latest, exe, goal,
                   original, seen>>

\* Only an archive that matches its checksum is extracted.
Verify(u) ==
    /\ \/ pc[u] = "fetched" /\ GoTo(u, "extracting")
       \/ pc[u] = "corrupt" /\ GoTo(u, "cleanup")
    /\ UNCHANGED <<target, temp, content, inode, lock, latest, exe, goal,
                   original, seen>>

\* The last byte is written; Chmod, Sync and Close follow.
Extract(u) ==
    /\ pc[u] = "extracting"
    /\ content' = [content EXCEPT ![u] = goal[u]]
    /\ GoTo(u, "ready")
    /\ UNCHANGED <<target, temp, inode, lock, latest, exe, goal, original,
                   seen>>

\* Fault: the error of extract is dropped.
PrepareFailsIgnored(u) ==
    /\ pc[u] \in {"staged", "extracting", "ready"}
    /\ GoTo(u, IF pc[u] = "extracting" THEN "ready" ELSE "cleanup")
    /\ UNCHANGED <<target, temp, content, inode, lock, latest, exe, goal,
                   original, seen>>

\* A download or extraction error, a failed Chmod or Sync, or the deadline.
PrepareFails(u) ==
    /\ pc[u] \in {"staged", "extracting", "ready"}
    /\ GoTo(u, "cleanup")
    /\ UNCHANGED <<target, temp, content, inode, lock, latest, exe, goal,
                   original, seen>>

\* Fault: MkdirAll in place of Mkdir accepts a directory that exists.
AcquireLockShared(u) ==
    /\ pc[u] = "ready"
    /\ lock' = TRUE
    /\ GoTo(u, "locked")
    /\ UNCHANGED <<target, temp, content, inode, latest, exe, goal, original,
                   seen>>

\* install: Mkdir either creates the lock directory or fails.
AcquireLock(u) ==
    /\ pc[u] = "ready"
    /\ \/ ~lock /\ lock' = TRUE /\ GoTo(u, "locked")
       \/ lock /\ GoTo(u, "cleanup") /\ UNCHANGED lock
    /\ UNCHANGED <<target, temp, content, inode, latest, exe, goal, original,
                   seen>>

\* Fault: the identity is not compared.
CheckIdentitySkipped(u) ==
    /\ pc[u] = "locked"
    /\ GoTo(u, "checked")
    /\ UNCHANGED <<target, temp, content, inode, lock, latest, exe, goal,
                   original, seen>>

\* Stat of the path and os.SameFile with the identity captured before.
CheckIdentity(u) ==
    /\ pc[u] = "locked"
    /\ \/ inode[target] = original[u] /\ GoTo(u, "checked")
       \/ inode[target] # original[u] /\ GoTo(u, "unlocking")
    /\ UNCHANGED <<target, temp, content, inode, lock, latest, exe, goal,
                   original, seen>>

\* The staged file takes the place of the target, whatever that is now.
Rename(u) ==
    /\ pc[u] = "checked"
    /\ target' = u
    /\ temp' = temp \ {u}
    /\ GoTo(u, "unlocking")
    /\ UNCHANGED <<content, inode, lock, latest, exe, goal, original, seen>>

\* Fault: a failed rename returns without the deferred Remove of the lock.
RenameFailsLocked(u) ==
    /\ pc[u] = "checked"
    /\ GoTo(u, "cleanup")
    /\ UNCHANGED <<target, temp, content, inode, lock, latest, exe, goal,
                   original, seen>>

RenameFails(u) ==
    /\ pc[u] = "checked"
    /\ GoTo(u, "unlocking")
    /\ UNCHANGED <<target, temp, content, inode, lock, latest, exe, goal,
                   original, seen>>

\* Deferred Remove of the lock directory.
ReleaseLock(u) ==
    /\ pc[u] = "unlocking"
    /\ lock' = FALSE
    /\ GoTo(u, "cleanup")
    /\ UNCHANGED <<target, temp, content, inode, latest, exe, goal, original,
                   seen>>

\* Deferred Remove of the staged name: after the rename there is none.
Cleanup(u) ==
    /\ pc[u] = "cleanup"
    /\ temp' = temp \ {u}
    /\ GoTo(u, "done")
    /\ UNCHANGED <<target, content, inode, lock, latest, exe, goal, original,
                   seen>>

Step(u) ==
    \/ CheckLatest(u) \/ Identify(u) \/ Stage(u) \/ StageFails(u)
    \/ Download(u) \/ Verify(u) \/ Extract(u) \/ PrepareFails(u)
    \/ AcquireLock(u) \/ CheckIdentity(u) \/ Rename(u) \/ RenameFails(u)
    \/ ReleaseLock(u) \/ Cleanup(u)

-----------------------------------------------------------------------------
(***************************************************************************)
(* install.sh: the archive is verified in a directory of its own, then      *)
(* copied beside the target and moved over it.  It takes no lock and, with  *)
(* --version, installs any published release.                               *)
(***************************************************************************)
InstallCopy(i, version) ==
    /\ pc[i] = "idle"
    /\ content[target] # version
    /\ goal' = [goal EXCEPT ![i] = version]
    /\ CreateTemp(i, "copying")

InstallComplete(i) ==
    /\ pc[i] = "copying"
    /\ content' = [content EXCEPT ![i] = goal[i]]
    /\ GoTo(i, "copied")
    /\ UNCHANGED <<target, temp, inode, lock, latest, exe, goal, original,
                   seen>>

InstallMove(i) ==
    /\ pc[i] = "copied"
    /\ target' = i
    /\ temp' = temp \ {i}
    /\ GoTo(i, "done")
    /\ UNCHANGED <<content, inode, lock, latest, exe, goal, original, seen>>

\* A failing command ends the script; its EXIT trap removes the copy.
InstallFails(i) ==
    /\ pc[i] \in {"copying", "copied"}
    /\ temp' = temp \ {i}
    /\ GoTo(i, "done")
    /\ UNCHANGED <<target, content, inode, lock, latest, exe, goal, original,
                   seen>>

-----------------------------------------------------------------------------
\* A process is killed: no deferred call runs.
Crash(p) ==
    /\ Running(p)
    /\ GoTo(p, "crashed")
    /\ UNCHANGED <<target, temp, content, inode, lock, latest, exe, goal,
                   original, seen>>

\* The documented recovery: with no updater running, remove the directory.
RecoverLock ==
    /\ lock
    /\ \A u \in Updaters : ~Running(u)
    /\ lock' = FALSE
    /\ UNCHANGED <<target, temp, content, inode, latest, pc, exe, goal,
                   original, seen>>

Publish ==
    /\ \E version \in Stable : version > latest /\ latest' = version
    /\ UNCHANGED <<target, temp, content, inode, lock, pc, exe, goal,
                   original, seen>>

Init ==
    /\ target = Original
    /\ temp = {}
    /\ \E version \in {Unrecognized, 1} \cup (Versions \ Stable) :
           content = [f \in Files |-> IF f = Original THEN version ELSE NoFile]
    /\ \E i \in Inodes : inode = [f \in Files |-> i]
    /\ lock = FALSE
    /\ latest = 1
    /\ pc = [p \in Processes |-> "idle"]
    /\ exe = [u \in Updaters |-> Original]
    /\ goal = [p \in Processes |-> Unrecognized]
    /\ original = [u \in Updaters |-> inode[Original]]
    /\ seen = [u \in Updaters |-> Original]

Next ==
    \/ \E u \in Updaters : Exec(u) \/ Step(u)
    \/ \E i \in Installers :
           \/ \E version \in Versions : InstallCopy(i, version)
           \/ InstallComplete(i)
           \/ InstallMove(i)
           \/ InstallFails(i)
    \/ \E p \in Processes : Crash(p)
    \/ RecoverLock
    \/ Publish

Spec == Init /\ [][Next]_vars

\* A started command keeps running unless it is killed; downloads end because
\* the context has a five-minute deadline.
Fairness == \A u \in Updaters : WF_vars(Step(u))

-----------------------------------------------------------------------------
(***************************************************************************)
(* Properties.                                                              *)
(***************************************************************************)

\* Every variable has the shape of what it stands for.
TypeOK ==
    /\ target \in Files
    /\ temp \subseteq Processes
    /\ content \in [Files -> Contents]
    /\ inode \in [Files -> Inodes]
    /\ lock \in BOOLEAN
    /\ latest \in Versions
    /\ pc \in [Processes -> UpdaterStates \cup InstallerStates]
    /\ exe \in [Updaters -> Files]
    /\ goal \in [Processes -> Installable]
    /\ original \in [Updaters -> Inodes]
    /\ seen \in [Updaters -> Files]

\* Whatever fails or is killed, and whoever races, the path of the executable
\* holds a complete build: a download that is corrupt or cut short never
\* reaches it.
InstalledComplete == content[target] \in Installable

Critical == {"locked", "checked", "unlocking"}

\* At most one updater is between Mkdir and Remove of the lock directory, the
\* directory exists all that time, and it outlives its owner only if an
\* updater was killed.
LockDiscipline ==
    /\ \A u, v \in Updaters :
           pc[u] \in Critical /\ pc[v] \in Critical => u = v
    /\ \A u \in Updaters : pc[u] \in Critical => lock
    /\ lock => \E u \in Updaters : pc[u] \in Critical \cup {"crashed"}

\* When every command has ended and none was killed, neither a staged file
\* nor the lock directory is left beside the executable.
NothingLeftBehind ==
    (\A p \in Processes : pc[p] \in {"idle", "done"}) => temp = {} /\ ~lock

\* An updater that captured the identity of the file it is executing replaces
\* that very file, with a later version, or a file that an installer, which
\* takes no lock, moved there since: the inode number cannot have been given
\* to another file, because the running process keeps the file alive.
ReplacesOwnFile ==
    [][\A u \in Updaters :
          target' = u /\ target # u /\ seen[u] = exe[u]
              => \/ target \in Installers \ {exe[u]}
                 \/ /\ target = exe[u]
                    /\ \/ content[target] = Unrecognized
                       \/ content[u] > content[target]]_vars

\* The documented promise that the command does not downgrade a recognized
\* newer version, stated of what an updater's rename replaces.
NoDowngrade ==
    [][\A u \in Updaters :
          /\ target' = u /\ target # u
          /\ content[target] # Unrecognized
          => content[target] <= content[u]]_vars

\* A command that was started ends, or is killed.
Finishes == \A u \in Updaters : Running(u) ~> ~Running(u)
=============================================================================
