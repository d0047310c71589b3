# rosup in TLA+

`rosup` upgrades a fleet of RouterOS 6 routers from one controller host. This
directory holds a model of it, the TLC runs that check the model on small
instances, and the TLAPS proofs that hold for instances of any size.
File references are relative to the repository root.

## 1. The system

| Component | State | Operations | Hard behaviour |
|---|---|---|---|
| Upgrade job (`internal/upgrade/machine.go`) | the `deviceRun` of one device | `Run`/`runDevice`: 12 stages, `--resume`, guarded restore, audit push | killed or timed out at any step; stages saved before they run; the device reboots under it |
| Rollback job (`internal/upgrade/rollback.go`) | the same job file | upload, reboot, version check, audit push | ignored save errors; no baseline, no role check |
| Job file (`internal/state`) | one JSON file per device | `Load`, `Save`, `MarkStarted`, `Advance` | refusal of a complete job; error after the rename |
| Baselines (`internal/validate`) | one JSON file per device and release | `WriteBaseline`, `Check`, `Verify` | torn writes; a baseline taken too late accepts anything |
| Role checks (`internal/validate`: ospf, pppoe, radio, switch, access) | the role facts in the baseline | `CaptureRoleFacts`, `RoleChecks` | lookups by a key that is not unique; flags read by position; a wait that reads again |
| Progress output (`internal/progress`) | the line being drawn | `Start`, `Update`, `OK`, `Fail`, `Skip` | a goroutine that redraws the line, a mutex, a wait for the goroutine |
| Discovery, preflight (`internal/discover`, `internal/preflight`) | facts in the job file | `Probe`, `writeFacts`, `AlreadyOnRelease`, `Check` | facts older than the device |
| Controller lock (`internal/lockfile`) | process table and flock | `Acquire`, release | process death |
| Fleet (`inventory`, `plan`, `status`, `upgrade/rollup.go`) | inventory, all job files | order, `depends_on`, rollup, `next:` | plan, upgrade and status must agree |
| Package store (`internal/release`) | package files, manifest | `Sync`, `Load`, `VerifyLocalFile` | killed syncs, a mirror that changes |
| Ops repository (`opsgit`, `auditgit`, `backupgit`) | checkout and remote | `Commit`, `Pull` | commits that were not pushed, a remote that moves |
| Backups (`internal/backup`) | local files | `ExportAndBackup`, `prune`, `Run`, `Restore` | partial failure, pruning of files a job still names |
| Managed router (external) | installed and staged packages, firmware, role | upload, reboot, firmware upgrade | reboots, power cuts, slow boots and shutdowns |

How they interact: every command that changes anything takes the controller
lock, so commands run one after the other; between two commands everything is on
disk (`status` and `release list` only read and take no lock). `upgrade` and
`rollback` read and write the job file before and after each effect on the
device; `upgrade` reads and writes baselines; both push a record to the ops
repository before they mark the job complete. `discover` and `plan` write the
facts into the job file; `verify` may write a baseline; `status`, the rollup and
`depends_on` only read job files.

The properties that make each part correct:

* **upgrade, rollback** - a job recorded complete on a release says the truth
  about the device; it is complete only after its audit record was pushed; an
  upgrade does not turn green over a role it broke; every command ends, unless
  a device keeps its connection and never answers; retrying gets a device to the
  release (section 3 says under which conditions).
* **job file** - readers see one of the lives `JobLifecycle` allows.
* **baselines** - none is taken from the state an upgrade has already changed.
* **fleet** - dependencies first; the exit status tells the truth; `plan`
  promises what `upgrade` does.
* **role checks** - releases that pass one by one do not lose a service between
  the first and the last; an unchanged device passes.
* **progress** - the last line says what happened; nothing draws over it; no
  call hangs.
* **controller lock** - one command at a time; the lock comes free after every
  command, however it fails or dies, but for one that hangs on a device or a
  git remote.
* **package store** - a manifest names only files that are there and intact;
  what is uploaded is what it vouches for.
* **ops repository** - what was reported as pushed is and stays on the remote,
  whole and with nothing else in its commit; what failed can be pushed again.

## 2. Modules

```
Environment   the router and the fault budget (external)
  JobStore      internal/state
    Baselines     internal/validate: baseline files and the check
      UpgradeJob    internal/upgrade/machine.go
        RollbackJob   internal/upgrade/rollback.go
          Rosup         commands, crashes, deadlines, hangs, Next, Spec, properties
            MCRosup       instances for TLC
            RosupProofs   type correctness
              LifecycleProofs   refinement of JobLifecycle, audit order
                CompletionProofs  baselines, complete jobs and records tell the truth
                  GreenProofs       no green job over a broken role
JobLifecycle  what the job file promises (abstract)
Fleet         the loop over devices, depends_on, rollup, plan, next:
  MCFleet       instances for TLC
  FleetProofs   types, exit status, dependencies, JobLifecycle per device, plan
OpsRepository internal/opsgit and its callers
  MCOps         instances for TLC
  OpsProofs     types, what is pushed stays, whole records, own paths
Lockfile      internal/lockfile
  PackageStore  internal/release
    Controller    commands under the lock, kills, hangs, power loss, Next, Spec
      MCController      instances for TLC
      ControllerProofs  every safety property of the lock and the store
PublishedReleases  what a reader of the store may rely on (abstract)
RoleChecks    internal/validate: what each role compares
Printer       internal/progress
  Validation    internal/validate: Check, with both of the above
    MCValidation      what devices print, for TLC
    ValidationProofs  no drift, an unchanged device passes, the safety of the printer
```

Each module EXTENDS the one above it. The models meet in these places.
`Rosup` and `Fleet` both take `JobLifecycle` by `INSTANCE ... WITH` the fields
of the job file: `Rosup` shows that the job of one device, with all its stages
and faults, is a life of `JobLifecycle`; `Fleet` replaces the job by such a
life and adds what only shows with several devices. In `Rosup` the push of a
record (`PushAudit`) succeeds or fails; `OpsRepository` shows what that means
for the remote. `Rosup` and `Fleet` take for granted that one command runs at a
time and that a package file is what the manifest says; `Controller` shows
both. The role is one bit in `Rosup`; `Validation` shows what the bit stands
for: what a check that passes says about the device, check after check.

### The router (`Environment`)

`installed[p]` is the release each package runs, `staged[p]` the package files
waiting for the next boot. A boot installs, per package, one of its staged
files or nothing, and removes the files. An install that changes a package may
break or repair the role (`RoleAfterInstall`) and change the state of the
RouterBOOT firmware. A reboot goes through `going` if the device still answers
while it shuts down (`ShutdownLag`). `PowerCuts` lets it go down by itself.
`SlowBoot` lets a boot outlast the reconnect budget without that being counted
as a fault. What the code in `src/` distinguishes of the role (routes,
sessions, radio links, ports) is one bit.

Every fault - a crash, an expired `upgrade_timeout`, a failed save, a failed
command, an answer that is lost after the command took effect, a call that never
returns, a failed dependency check, a power cut - costs one of `MaxFaults`. The
budget is the only counter of the model and the only bound on a behaviour; the
proofs hold for any budget.

### The job (`UpgradeJob`, `RollbackJob`)

`pc` is the call the process is in. `loop` is the head of the stage loop
(machine.go:235) at stage `run.at`; `step` is the body of that stage; the other
labels are points between two effects of one body, so that a crash, a deadline
or a reboot can come between them. For every function of machine.go there is
an action of nearly the same name:

| code | actions |
|---|---|
| `runDevice` before the loop | `StartUpgrade`, `BlockedByDependency` (`MayStart`, `Opened`, `StartIndex`) |
| `skipBecauseCurrent`, `skipRouterbootStage`, `Advance` | `SkipStage`, `DecideRouterboot`, `EnterStage` |
| `discover`, `preflight`, `backup`, `stagePackages`, `uploadFiles` | `Discover`, `Preflight`, `Backup`/`AlreadyBackedUp`, `StagePackages`, `UploadFile` |
| `ensureBaseline`, `refuseInvented...`, `snapshotBaseline` | `KeepBaseline`, `InventBaseline`, `NoBaseline`, `FillBaseline` |
| `reboot`, `rebootRouterboot`, `routerbootUpdate` | `RebootDevice`, `UpgradeRouterboot`, `Unconfirmed` (took effect, answer lost) |
| `waitForReconnect` | `Reconnect`, `ReconnectTimeout`, `RestoreReconnect`, `RollbackReconnect` |
| `checkRoleAt` | `ValidationPasses`, `ValidationFails`, `RestoreCheck` |
| `maybeDowngrade`, `downgradeToPrevious`, `copyBaseline` | `Restore...`, `NothingToRestore` |
| `complete` and the COMPLETE error path | `Complete`, `PushAudit`, `Settle`, `Lament`, `CompleteFailure` |
| `markFailed` | `MarkFailed` |

`Save` has three outcomes wherever it is called: saved; refused or failed with
the old file in place; failed (in the last `chmod`) with the new file in place.
Where the code ignores the error, so does the action.

`Hang` is a call that never returns: of a device, wherever the process waits for
one (`AwaitsDevice`), or of the git remote. Only the dial and the handshake of
SSH have a timeout (client.go:59-68; line 88 clears it). `Run` returns with an
answer or at the deadline of its context, which exists only if `upgrade_timeout`
is set (cli/upgrade.go:50-55) and never for `verify` and `discover`;
`NewSession`, `sftp.NewClient`, `Create` and `Remove` do not look at the context
at all. A router that goes down while rosup talks to it is noticed in the end,
because the kernel gives up on a connection whose peer acknowledges nothing. One
that keeps the connection and does not answer is not. Such a process is `hung`,
with the lock, until it is killed (`Crash`) or the operator interrupts it
(`Interrupt`); rosup handles no signal, so both leave the files as they are.

Left out: `attempt`, timestamps, error texts and paths; the wording and order
of progress output; the identity check of each dial (a device that answers with
another identity is one that does not answer); the migration of old job
directories.

History variables: `audit`, the release whose record was pushed since the job
was last started, and `before`, the role the device had when the job was new.
No action reads them.

### The abstract job (`JobLifecycle`)

What `status`, the rollup and `depends_on` may rely on: an incomplete job is
only taken up for its own release; a complete job is only replaced by one for
another release, or by a rollback; a job in progress becomes complete on its
own release only once recorded, or on another release naming the one it gave
up. It has no router, no stages, no process and no faults.

### The fleet (`Fleet`)

`jobs[d]` is the job file of a device, reduced to what others read of it;
`live[d]` the release the device really runs, or none if it is half installed;
`run` the command. `Position` is the inventory order, a constant that need not
agree with `depends_on`: `inventory.Load` does not ask for that.

| code | actions and definitions |
|---|---|
| `Run` (machine.go:82): the loop, and where it stops | `StartUpgrade`, `Turn`, `Visited`, `Break` |
| `runDevice` before the first stage (154-201) | `Skip`, `Refuse`, `Block`, `Begin`, `BeginFails` |
| the stages, as `JobLifecycle` has them | `Install`, `Record`, `Finish`, `Downgrade`, `Restored`, `Fail` |
| `CountRollup`, `Incomplete` and the exit status | `RollupFailed`, `RollupPending`, `ExitOK`, `Rollup` |
| `discover.Run`, `writeFacts` | `Discover`, `Discovered`, `Reached` |
| `plan.Build`, `applyDepends`, `checkPlanDepend` | `Plan`, `PlanOK`, `PlanSkips`, `PlanDependMet` |
| `nextAction` of `status` | `NextLine` |

`Crash` ends any command at any point; it stands for the death of the process
and for the interruption of one that hangs. `promise` remembers a plan without
obstacles until a command other than the upgrade it was for changes something.
The obstacles of a plan that do not depend on other devices (preflight) are
left out: `PlanPromise` is about dependencies.

### The ops repository (`OpsRepository`)

A branch is the sequence of the trees of its commits, so that "fast-forward"
is "prefix". `StartCommit` is a call of `auditgit.Push` or `backupgit.Push`;
`Pull`, `Reset`, `Add`, `Commit` and `Push` are the calls `opsgit.Commit` makes
(commit.go:62-97), in this order; `ForcePull` is `opsgit.Pull`. `Diverged` is a
pull or push that is no fast-forward, `PushUnconfirmed` one whose answer is
lost, `Abort` any other error or the death of the process. The controller lock
keeps other commands of rosup out, not the operator (`OperatorStages`,
`OperatorCommits`) and not other clones (`OthersPush`). An operator who commits
by hand is assumed to commit the inventory and not a file of a record that a
killed command left staged.

The record of a job is pushed again until that succeeds, because the job is not
complete before (machine.go:726-742). The exports of a backup run are pushed
once: if that fails and a forced pull discards the commit, they remain in
`backup_dir` only, as README.md:261 says of unpushed local commits.

A backup run that has exported a device prunes older exports of it
(backup.go:121-145), and with them, after `backup_retention_days`, the one a job
that is not complete still names. The retry reads that file again
(machine.go:748) and fails for good. `exports` is the set of jobs whose export
is there; `Recovers` excepts those that lost it.

### The controller lock and the package store (`Lockfile`, `PackageStore`, `Controller`)

| code | actions and definitions |
|---|---|
| `Acquire`: `LoadOrStore`, flock, the error paths, the unlock function | `Enter`, `Lock`, `GiveUp`, `Unlock`, `Leave` |
| `Sync`: NEWEST and the listing, `downloadAll`, `syncFromProbe`, `syncPackageArchives` | `StartSync`, `Get`, `Skip`, `Downloaded`, `GetArchive`, `Unpack` |
| `storeImmutable`, `writeFile`, `writeManifest` | `Store`, `Rename`, `PublishManifest` |
| `Load`, `IndexByInstalledName`, the packages of preflight | `StartStaging`, `FirstFiles` |
| `VerifyLocalFile`, `uploadFiles` | `Verify`, `Upload` |
| any error | `Fail` |
| a device or a remote that never answers | `Hang` |
| the deferred unlock of every command | `Over`, `Finish` |

`held` are the tables of the processes, `flock` what the kernel knows, `cmd[c]`
what the command of a caller is doing. `LockPath` is the `lock_path` of the
configuration a command was given. Two of them may lead to one file, because
`filepath.Abs` resolves no links. A command that does neither sync nor stage
packages takes the lock and leaves the store alone (`Over` in `ready`).

A package file is written beside its place and renamed (`tmp`, then `disk`); a
manifest is one step, because nothing tells its temporary file from none. A
temporary file left behind by a kill is truncated before it is used again and is
left out. The mirror is external: `Get` may return any content at any time, or
fail. In a listing every architecture must have a file; only a probe must have
found `routeros` of each. A name that is probed for and answered with any other
status is skipped, so that a mirror in trouble may give a smaller manifest;
preflight then refuses devices that have the missing package.

Nothing in `internal/release` is synced to the disk, neither the bytes of a file
nor the rename that gives it its name. `PowerLoss` may therefore tear any file
and any manifest, make it vanish, or bring an earlier manifest back. Which ones
there were is not remembered: `Earlier` has every manifest that lists a file of
each architecture as it is stored, which are all that a sync can have published
and some more. `ManifestWhole` and `StagingCanFinish` are therefore
about controllers that have not lost power; `UploadsIntact` holds always. A file
that a killed sync left and that the mirror then replaces makes every later sync
of that release fail, until somebody removes it: the store never does.

The lock file is on a local file system and is never deleted; a `git` that
outlives a killed command does not inherit the lock (the file is opened
close-on-exec).

### The abstract store (`PublishedReleases`)

Readers see files that never change once stored and manifests that appear whole,
over files stored as they say. It has no lock, no commands and no mirror. A power
loss may tear or lose what is stored and put another manifest in the place of
one; it gives no file other bytes and repairs nothing.

### The validation of a device (`RoleChecks`, `Printer`, `Validation`)

| code | actions and definitions |
|---|---|
| `checkOSPF`, `checkPPPoEServer`, `checkPPPoEAAA`, `checkRadio`, `compareL2`, `checkAccess` | `OSPFKept`, `ServersKept`, `RadioKept`, `SwitchKept`, `AccessKept`; `Kept` |
| the maps of the device's rows, last row wins | `LastOfKey`, `HasRow`, `Found` |
| `parseNamedRows`, `isUpperFlag` | `Named` |
| `Check`: profile, wait, shared checks, role check | `BadProfile`, `BeginWait`, `TickWait`, `EndWait`, `Track`, `SharedFails`, `RoleCheck` |
| `checkPPPoE`: the wait for sessions | `MayRestore`, `RestoreOver` |
| OK or Fail of `Track`, and the baseline of the next upgrade | `Report`, `NextBase` |
| `Start`, `Update`, `OK`/`Fail`, `Skip` | `Invoke`, `LockMu`, then `StartBody`, `UpdateBody`, `FinishBody`, `SkipBody` |
| `stopLocked` | `StopLocked`, `AwaitSpinner` |
| `spin` | `Tick`, `SpinLock`, `Draw`, `End` |

A device prints rows and sets; `Facts(role)` is everything it may print, a
constant, of which `RowsAssumption` says that rows are lists. `base` is the
baseline, `first` that of the first upgrade. After a green check the facts just
read may become the baseline of the next upgrade (`NextBase`): `ensureBaseline`
reads the device again then, and that it prints the same is the assumption about
the environment. `first` and `waited` are history.

The two halves are checked together because `Check` drives the printer: the wait
calls `Update` each second, `checkPPPoE` calls it in the middle of a check, and
a spinner draws meanwhile.

`Service` says what must not be lost, by name, independently of how the checks
look it up. It speaks of neighbors, servers and ports rather than rows, and
leaves out what the code cannot see:

* rows with one key: of two adjacencies with one router (ospf.go:52), or two
  servers of one name (pppoe.go:78), only the last counts. That one is lost
  goes unnoticed, and a device that shows the same two rows, Full and 2-Way,
  before and after never passes (`Uncheckable`);
* a port or session named by up to four capital letters and printed without
  flags is read by the column after its name (parse.go:155). A port without a
  link is then missing and the check red, and of two such ports one may be
  disabled unnoticed. `ValidationAssumption` also excludes that another port is
  named like that column;
* what changed of a PPPoE server's settings during the wait for its sessions:
  everything is read again, only the sessions are compared (pppoe.go:65-71);
* extra routes: the tolerance is granted anew with each release.

With a `neighbor_state_allow` other than Full and 2-Way a neighbor may go from
Full to an allowed lower state and from there to 2-Way, so `NoDrift` is proved
for lists within the default one.

## 3. Runs

The runs of `MCRosup` have two releases and a device with two packages, the
system package and one more: two releases give an old and a new one (and with
both as targets, upgrades back and forth and retries after a restore); two
packages give the half-installed device. The constants choose what the device
and the operator may do.

| run | shows |
|---|---|
| `jobs` | two faults of any kind, all commands, both releases as targets, a device found healthy or broken, installs that break and repair its role, RouterBOOT current, outdated or ahead: `TypeOK`, `RecordTrue`, `CompletedOnRelease`, `NoFalseGreen`, `ImplementsLifecycle`. Symmetric in the releases: both are targets and nothing else tells them apart. |
| `hostile` | power cuts, shutdown lag, slow boots: `AuditBeforeComplete`, `NoInventedBaseline`, and under `FairSpec` `CommandEnds`: every command ends or hangs. Without `verify`, see the run `verify_invents`. |
| `retry` | `RetryConverges` under `RetrySpec`: the device gets to the release and its job to complete on it, for good. RouterBOOT current, upgrades to one release only. |
| `stuck` | the same with RouterBOOT out of date: violated. |
| `verify_invents` | `NoInventedBaseline` with the command `verify`: violated. |
| `fleet` | three devices, one behind another and sorted before it, both releases as targets, all commands that change job files: `TypeOK`, `ExitTellsTruth`, `DependenciesRun`, `EveryJobLives`, `PlanHolds`. |
| `campaign` | the same inventory, upgrades to one release, under `CampaignSpec`: `DependenciesFirst`, `Converges`. If no device is a dead end of its own, the fleet is none. |
| `plan_promise` | `PlanPromise`: violated. |
| `next_line` | `Converges` under `FollowNextSpec`: violated. |
| `ops_repository` | a job that is retried and a backup run, two edits of the inventory by others, two faults: `TypeOK`, `PushedStays`, `WholeRecords`, `OwnPathsOnly`, and under `RetrySpec` `Recovers`. |
| `controller` | two commands, each in a process of its own, one lock file that their configurations name differently, one release with a system package and one more, two contents the mirror may serve: `TypeOK`, `MutualExclusion`, `NoStaleEntry`, `ManifestWhole`, `StagingCanFinish`, `UploadsIntact`, `ImplementsPublished`, and under `FairSpec` `CommandsEnd`. |
| `validation` | a device of each role and one without a role check, on a terminal or not: `TypeOK`, `NoDrift`, `UnchangedPasses`, `ShowsVerdict`, `Quiet`, and under `FairSpec` `CallsReturn`. |

**Bounds.** In `Rosup` every fault costs one of `MaxFaults`; nothing else is
counted. Two faults let a second one hit the recovery from the first; most dead
ends of the code need one or two. `hostile` has one: with power cuts and
shutdown lag, and with liveness, a second one multiplies the states without a
new kind of interleaving (the single-fault space already has the device, the
deadline and the process racing). `Fleet` has no bound: crashes, failures and
commands come without limit over a finite state space. Three devices are a
dependency, what depends on it, and one that has nothing to do with either,
which is what a run that stops early or skips a device can leave out; a longer
chain of dependencies is covered by the proofs. In `OpsRepository` two versions
of a record tell an attempt from the one before, two edits let the remote move
and the checkout have a commit of its own at the same time (`MaxEdits`), and
`MaxFaults` bounds lost answers and crashes, not divergence.
`Controller` and `Validation` have no bound on a behaviour. In `controller` two
contents tell a file from another one of the same name, and two files a package
that comes by download from one that comes from the archive, or is missing;
releases are independent of each other but for the lock. Two callers are what
a lock needs to fail; callers of one process are covered by the proofs. In
`validation` each role has few facts, chosen so that every comparison of its
check decides some pair: rows present, disabled, not running, two with one key,
names that look like flags, settings that were not printed, prefixes beyond the
tolerance. The proofs hold for rows and facts of any number.

`CHECK_DEADLOCK FALSE` stands where the system may stop for good: when the
operator asks for one release only and the device is complete on it, nothing is
left to do.

**Fairness.** `FairSpec` of `Rosup` assumes weak fairness of the running command
only: no step of it waits for another process, a call that never returns is a
step of its own (`Hang`), after which the command owes nothing, and the loops
are bounded (machine.go:802, 235). Nothing is assumed of the device or the
operator. `CommandEnds` then says that nothing else keeps a command from its
end: not a device that is down, refuses or reboots forever, and no error.

`RetrySpec` adds an operator who interrupts what hangs and keeps running
`upgrade` in whatever way the code accepts (weak fairness of `Interrupt` and
`Retry`), and a device that comes back from a reboot (`Restart`). An install in
the model may always fail, so there is strong fairness of the boot that installs
all staged files of a release: an install tried over and over goes through
eventually (`CleanBoot`). Faults are finitely many (`MaxFaults`). What it shows
is limited on purpose. RouterBOOT is current; the run `stuck` refutes it
otherwise. Upgrades are the only commands: `discover` or `plan` between an
interrupted upgrade and its resume replaces the facts that keep `upgrade` from
refusing (discover.go:175), and a `rollback` may ask for another release.
Installs keep the role. And `RetryConverges` excepts a torn baseline file, which
the code refuses to read for good (machine.go:521-524).

`Progress(d)` of `Fleet` is what the runs `hostile` and `retry` show of one
device, taken as an assumption about each device: a job that is begun is left
again, and a device whose turn comes again and again with its dependencies met
is complete on the release, and runs it, from some time on. It holds under the
conditions of `retry` and is false where `stuck` is. So `Converges` does not say
that every device gets to the release. It says that the fleet adds no dead end
to those of its devices: none waits forever for a dependency, behind a failure
that ends the run early, or as a restored host that batches skip. `CampaignSpec`
adds an operator who resumes every device by name again and again (strong
fairness, as other commands come in between); `discover` and `plan` are no
commands of this run. `FollowNextSpec` has an operator who only runs what
`status` prints. Both end the crashes at some time, as `MaxFaults` does
(`CrashesEnd`): an operator whose every command is killed gets nowhere.
`RetrySpec` of `OpsRepository` has weak fairness of `opsgit.Commit`
(`CommitStep`: each call returns) and strong fairness of the two things an
operator does about a failed push: resume, and `rosup pull`.

`FairSpec` of `Controller` has weak fairness of each command that has called
`Acquire`: the flock is not waited for (`LOCK_NB`), and the requests of a sync
have a timeout (`HTTPTimeout`, sync.go:40). A command that stages packages, or
does neither, may `Hang` on a device or a git remote; it then keeps the lock
until `Kill` or `PowerLoss` ends it, which nothing makes happen. `CommandsEnd`
says that only this keeps the lock from coming free. `FairSpec` of `Validation`
has strong fairness where two goroutines want the mutex (Go does not starve a
waiter for ever), and of the end of a spinner whose channel is closed, because a
`select` with two cases ready picks one at random.

**Conditions of `NoFalseGreen`.** `before` is whether the role was healthy, and
no baseline of a broken one was there, when the job was new. A job retried by
name after a restore keeps the baseline of its first attempt
(machine.go:517-520), and a rollback does not look at the role: the property is
about upgrades. A baseline that `rosup verify` took of a broken role in between
accepts it. There are no power cuts: after one in the middle of an upload the
baseline is taken from a half-upgraded device, because the probe before it only
refuses one that is entirely on the target (machine.go:548). **Conditions of
`CompletedOnRelease`.** It speaks of the moment of completion. A restore that
was killed in the middle of its upload leaves files of the previous release on
the device; the next run validates the target and completes, and a reboot nobody
asked for would then install them. With power cuts that can come between the
check and the last save, so the run has none. Both also need a device that does
not answer between the reboot command and its shutdown (`ShutdownLag` is FALSE):
the reconnect loop takes the first answer, and what it validates then is the
device before the reboot.

## 4. Where code and documents disagree

1. **`stuck`** - A RouterBOOT-only run (device already on the release) saves
   the stage ROUTERBOOT_UPDATE before it takes its baseline. Interrupted there,
   `--resume` rewinds to WAIT_FOR_RECONNECT (machine.go:222-224), VALIDATE_ROLE
   finds no baseline, the restore has no previous release, and every retry does
   the same. README.md:265 and machine.go:534-535 say otherwise.
2. **`verify_invents`** - machine.go:531-533 blocks a baseline from the state
   after the upgrade; `rosup verify` (verify.go:51-78) takes it.
3. **`plan_promise`** - README.md:148 says that unmet dependencies show in
   `plan`. `plan` does not look at those of a device that runs the release
   already (plan.go:81), and counts on a dependency that will be upgraded later
   in the run, or skipped by it as a restored host (plan.go:96-105); `upgrade`
   is then blocked. `PlanHolds` shows that there is no other case.
4. **`next_line`** - the `next:` line of `status` is there for hosts of the
   wrong release, too (status.go:63-64), but always names a batch
   (status.go:168-172), and batches skip restored hosts (machine.go:164-167): for
   these, and for what depends on them, it is printed forever and changes
   nothing.

Not asserted, because README.md:229 can be read both ways: after a restore the
run goes on with the devices that do not depend on the restored one, but the
first one that does is marked as failed and ends the run, before later devices
that have nothing to do with it.
Nor is what happens when the reconnect after the RouterBOOT reboot times out:
the previous release is put back on a device that was only slow (machine.go:322,
262-263), while machine_test.go:1393 has a timeout that does not downgrade, of
the reconnect after the packages.

## 5. Proofs

The proofs rest on the assumptions of the modules on their constants
(`EnvironmentAssumption`, `RosupAssumption`, `FleetAssumption`, `OpsAssumption`,
`LockAssumption`, `StoreAssumption`, `OneLock`, `PrinterAssumption`,
`ProfileAssumption`, `ValidationAssumption`, `RowsAssumption`), which TLC
evaluates in every run of theirs, and on nothing else unless the theorem says so:
any releases, packages, budget and device behaviour; any inventory without
cycles, any selections.

* `RosupProofs!TypeCorrect`: `Spec => []TypeOK`. `TypeOK` is not inductive: the
  stage loop adds one to `run.at`, so the type of `run.at` needs that the loop
  is left at COMPLETE; an upload writes `Previous`, so the type of `staged`
  needs that a restore has a previous release; a fill writes `run.captured`.
  `Inv` adds these three facts (`Control`). One lemma per group of actions.
* `LifecycleProofs!JobFileLifecycle`: `Spec => ImplementsLifecycle`. The
  refinement needs `Coherent`: while a command runs, the process's copy and the
  file are both in progress for the release of the run; after the push the
  record is that of the run; in `failing` and `lament` the file is what a failed
  save can have left. `Coherent` is inductive together with `Inv`, and each
  step under it is a step of `JobLifecycle` or a stutter.
* `LifecycleProofs!RecordedBeforeComplete`: `Spec => []AuditBeforeComplete`,
  from `Coherent`: only `Settle`, `RollbackSettle` and `RestoreSave` write a
  complete job, and the first two come after the push.

The next four are about what files and records say of the device. The last three
assume `~PowerCuts` and `~ShutdownLag`, like the run `jobs`: a device that goes
down only when it is told to, and then at once. The conditions in section 3 say
why these properties need it. Crashes, failed saves, lost answers, failed
commands and expired deadlines come in any number.

* `CompletionProofs!NoBaselineInvented`: `Spec => NoInventedBaseline` if
  `"verify"` is no command, with power cuts and shutdown lag; the run
  `verify_invents` shows why `verify` is excepted. `Trail` says that the file is
  the job of the process until something fails, so that the facts the code looks
  at are those on disk, and that a baseline that is filled was truncated before.
* `CompletionProofs!CompletionTruth`: `Spec => CompletedOnRelease`. `Truthful` is
  inductive: an unfinished job whose file is at COMPLETE is of a device that is
  up and runs its release (`FileSettled`), and so is a run that closes its job,
  skips the RouterBOOT stages or is about to record a restore (`RunSettled`).
  A run comes to COMPLETE only after a check of the version, or over stages
  skipped on facts it has read itself, and one that needs no stage does not
  reboot the device (`Needed`).
* `CompletionProofs!RecordTruth`: `Spec => []RecordTrue`. A job that is not
  complete has a record only if its file is at COMPLETE, and every error after
  the push leaves it there (`Pushed`), so that `FileSettled` applies. That a file
  without a release has no record follows from `JobLifecycle` (`FileReleased`).
  `Fleet` takes this for granted in `Record`.
* `GreenProofs!GreenTruth`: `Spec => NoFalseGreen`. If the role was healthy when
  the job was new, a job at a stage is `Sound`: it has a baseline, which is not
  of a broken role, or the device is up, as it was found and healthy. Before
  REBOOT and at COMPLETE the latter holds in any case. It holds of the file, for the
  run that will resume it (`FileSound`), and of the run, with what each point of
  a body or of a restore adds (`RunSound`) and what the loop needs to enter or
  skip the next stage (`Ahead`). `Placed` says which stage the job is in at each
  point; `Rested`, that a device without an open job is up, so that a job that is
  new finds the role it will be judged by.

* `FleetProofs!FleetTypes`, `ExitStatus`, `DependsOnTruth`: `Spec` implies
  `[]TypeOK`, `[]ExitTellsTruth` and `DependenciesRun`. The latter two follow
  from `JobsTellTruth`: a complete job names the release its device runs. That
  is not inductive: the device that is worked on changes under its job, and
  `Busy` says that this job is in progress for the release of the run, and that
  the device stays on it once the record is pushed.
* `FleetProofs!CampaignOrder`: `Spec => []DependenciesFirst`, if there is one
  target and no rollback. A complete job for the only target is not opened
  again, and `Begin` has checked that those of the dependencies are complete.
* `FleetProofs!JobsLive`: `Spec => EveryJobLives`. Each step of the fleet is, on
  every device, a step of `JobLifecycle` or a stutter: `OtherLife` for the
  devices it is not about, one lemma per group of actions for the one it is.
* `FleetProofs!PlanTruth`: `Spec => PlanHolds`: a plan without obstacles fails in
  no way but the three it names. `AsPlanned` holds from the plan to the end of
  the run it was for: what the run is done with has a complete job for the
  release or was restored from it, and each device still to come runs the release
  already or has complete jobs on all dependencies outside of the selection. A
  dependency that blocks is then one of the selection, restored or still to come.

* `OpsProofs!TypeCorrect`, `PushedRemains`, `RecordsWhole`, `OnlyOwnPaths`: all
  safety properties of the ops repository. None is inductive. `History` says of
  both branches that every tree is whole, has nothing newer than the newest
  content, and is never older than one before it; `Staged` that while paths are
  added the index is the last commit plus what was added, which the reset
  establishes; `Arrived` that what was reported is on the remote. A commit then
  extends a history by a tree that is whole and newer, and a fast-forward keeps
  the end of the history at least as new (`PrefixOlder`).
* `ControllerProofs!LockExcludes`, `TablesClean`: `FlockHeld`, whoever is in has
  the flock and whoever has it is in, for each file.
* `ControllerProofs!TypeCorrect`, `ManifestsWhole`, `StagingNotBroken`,
  `UploadsVerified`: by `LockExcludes` one command at a time is not at rest
  (`CmdInv`). What a sync has recorded is on disk, or is the file it renames
  next, whose place is free (`Recorded`); what a staging command has verified is
  on disk (`Staged`). A manifest is published when nothing is left to rename.
* `ControllerProofs!StoreRefinement`: `Spec => ImplementsPublished`. `Rename` is
  `Store`, `PublishManifest` is `Publish`, `PowerLoss` is `LosePower`, the rest
  stutters; the first two need `Recorded`.
* `ValidationProofs!PassingNeverDrifts`: `Spec => []NoDrift`, if `Allow` is
  within `{"full", "2way"}`. One lemma per role: what passes loses nothing
  `Service` says of the baseline. `waited` only takes promises away.
* `ValidationProofs!UnchangedNeverFails`: `Spec => []UnchangedPasses`. The check
  of every role is reflexive (`KeptByItself`) on a baseline that is not
  `Uncheckable`: of the rows with one key one is the last (`LastRow`, by the
  well-foundedness of the natural numbers), and it equals the one asked for.
* `ValidationProofs!TypeCorrect`, `LastLineTrue`, `NothingLeftRunning`: at most
  one spinner has not ended, it is the current one or has been told to stop
  (`Spinners`), and at each point of a check it is known which call may be in
  progress and what the step was started with (`Shows`).

Every safety and action property of a passing run is proved. Only model-checked
is liveness, which is out of the prover's reach: `CommandEnds`,
`RetryConverges`, `Converges`, `Recovers`, `CommandsEnd`, `CallsReturn`. The
hypotheses are not idle: with `verify`, TLC refutes `NoInventedBaseline` (run
`verify_invents`); with power cuts or shutdown lag `CompletedOnRelease` and
`NoFalseGreen` fail for the reasons in section 3.

## 6. Not modelled, and the plan

| next | module | about |
|---|---|---|
| 1 | `Backups` | the files of a backup on the device and on the controller, prune, restore. |
| 2 | routerboot, preflight | comparison of versions and the disk arithmetic as operators, checked against reference definitions. |

Left out for good: redaction, configuration, how RouterOS output is split into
lines and fields, SSH transport and host keys, the texts of the install log:
pure I/O or text.
