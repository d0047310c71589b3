----------------------------- MODULE Controller -----------------------------
(***************************************************************************)
(* Commands on the controller: each takes the lock, works on the package   *)
(* store (internal/cli/release.go, upgrade.go, rollback.go) or on          *)
(* something else, and gives the lock back.  A process may be killed and   *)
(* the controller may lose power at any time.                              *)
(***************************************************************************)
EXTENDS PackageStore

CONSTANT LockPath   \* the lock_path in the configuration a command is given

\* The configurations may name the lock file in different ways.
ASSUME OneLock ==
    /\ LockPath \in [Caller -> LockName]
    /\ \A m, n \in LockName : FileOf[m] = FileOf[n]

vars == <<lockVars, storeVars>>

ControllerInit == LockInit /\ StoreInit

\* lockfile.Acquire, and the unlock that every command defers.
Acquire(c) == Enter(c, LockPath[c]) /\ UNCHANGED storeVars

AcquireStep(c) == (Lock(c) \/ GiveUp(c) \/ Leave(c)) /\ UNCHANGED storeVars

Finish(c) ==
    /\ Over(c)
    /\ Unlock(c)
    /\ cmd' = [cmd EXCEPT ![c] = Ready]
    /\ UNCHANGED <<disk, tmp, manifest, lostPower>>

Sync(c) ==
    /\ \/ StartSync(c) \/ Rename(c) \/ Downloaded(c) \/ PublishManifest(c)
       \/ \E f \in File : Get(c, f) \/ Skip(c, f) \/ Unpack(c, f)
       \/ \E a \in Arch : GetArchive(c, a)
    /\ UNCHANGED lockVars

Staging(c) ==
    /\ StartStaging(c) \/ Upload(c) \/ \E f \in File : Verify(c, f)
    /\ UNCHANGED lockVars

Work(c) == Sync(c) \/ Staging(c) \/ (Fail(c) /\ UNCHANGED lockVars)

Killed(P) ==
    /\ Die(P)
    /\ LET C == {c \in Caller : ProcessOf[c] \in P} IN
          /\ Discard(C)
          /\ cmd' = [c \in Caller |-> IF c \in C THEN Ready ELSE cmd[c]]

Kill(p) == Killed({p}) /\ UNCHANGED <<disk, manifest, lostPower>>

\* The manifests a release may have had before the one it has: they list a
\* file of every architecture, as it is stored or, once the power was lost, as
\* it may have been.
Earlier(v) ==
    {m \in Manifest :
        /\ \A a \in Arch : DOMAIN m \cap FilesOf(a) # {}
        /\ lostPower \/ \A f \in DOMAIN m : disk[v][f] = m[f]}

\* Nothing in internal/release is ever forced to the disk, neither the bytes of
\* a file nor the rename that puts it in its place.  A power loss leaves the
\* file, something else, or what the name stood for before: nothing, or an
\* earlier manifest.
PowerLoss ==
    /\ Killed(Process)
    /\ lostPower' = TRUE
    /\ disk' \in [Release -> [File -> Content \cup {None, Torn}]]
    /\ manifest' \in [Release -> Manifest \cup {None, Torn}]
    /\ \A v \in Release :
          /\ \A f \in File :
                \/ disk'[v][f] = disk[v][f]
                \/ disk[v][f] \in Content /\ disk'[v][f] \in {None, Torn}
          /\ \/ manifest'[v] = manifest[v]
             \/ /\ manifest[v] \in Manifest
                /\ manifest'[v] \in Earlier(v) \cup {None, Torn}

\* A command that stages, or is neither a sync nor at the end of one, waits for
\* a device or a git remote that keeps the connection and never answers.  Only
\* the requests of a sync have a timeout (HTTPTimeout).
Hang(c) ==
    /\ Doing(c, "ready") \/ Doing(c, "stage")
    /\ cmd' = [cmd EXCEPT ![c] = [Ready EXCEPT !.step = "hung"]]
    /\ UNCHANGED <<lockVars, disk, tmp, manifest, lostPower>>

Step(c) == AcquireStep(c) \/ Finish(c) \/ Work(c)

Next ==
    \/ \E c \in Caller : Acquire(c) \/ Step(c) \/ Hang(c)
    \/ \E p \in Process : Kill(p)
    \/ PowerLoss

Spec == ControllerInit /\ [][Next]_vars

\* A command that has begun goes on, unless it hangs: the lock is not waited
\* for, and what a sync waits for has a timeout.
FairSpec == Spec /\ \A c \in Caller : WF_vars(Step(c))

(***************************************************************************)
(* Properties.                                                             *)
(***************************************************************************)

TypeOK == LockTypeOK /\ StoreTypeOK

\* A manifest on disk lists only files that are there with the hash it gives,
\* wherever syncs were killed, failed or met a mirror that changed.
ManifestWhole ==
    ~lostPower => \A v \in Release : manifest[v] \in Manifest =>
        \A f \in DOMAIN manifest[v] : disk[v][f] = manifest[v][f]

\* A preflight that has passed is not broken while packages are staged: every
\* file of the manifest it read is and stays on disk.
StagingCanFinish ==
    ~lostPower => \A c \in Caller : Doing(c, "stage") =>
        \A f \in DOMAIN cmd[c].files : disk[cmd[c].release][f] = cmd[c].files[f]

\* No device gets bytes the manifest does not vouch for, not even after a
\* power loss.
UploadsIntact ==
    [][\A c \in Caller : Upload(c) =>
            disk[cmd[c].release][cmd[c].file] = cmd[c].files[cmd[c].file]]_vars

Published == INSTANCE PublishedReleases WITH stored <- disk, published <- manifest

\* Readers of the store see the abstract one, at any time.
ImplementsPublished == Published!Spec

\* The lock comes free: every command that has called Acquire ends, or is one
\* that hangs on a device or a remote, never on another command or a mirror.
CommandsEnd ==
    \A c \in Caller : at[c] # "out" ~> at[c] = "out" \/ cmd[c].step = "hung"
=============================================================================
