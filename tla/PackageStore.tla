---------------------------- MODULE PackageStore ----------------------------
(***************************************************************************)
(* The package store (internal/release): rosup release sync, which fills   *)
(* it from a mirror, and the reading side, which loads a manifest and      *)
(* verifies each package file before it is uploaded to a device.           *)
(*                                                                         *)
(* A file name is a number, in the order names sort; the bytes of a file   *)
(* and their SHA-256 are one value.  The mirror is external and may answer *)
(* anything at any time: other bytes, an error, no such file.  A ".tmp"    *)
(* file that is left behind is left out: it is truncated before it is      *)
(* used again.                                                             *)
(***************************************************************************)
EXTENDS Lockfile, Functions

CONSTANTS
    Release,        \* RouterOS releases
    Files,          \* package file names are 1 .. Files
    ArchOf,         \* the architecture ParseNPKName finds in a name
    PackageOf,      \* and the package
    Probed,         \* the names syncFromProbe tries
    System,         \* the package "routeros"
    Content,        \* what a package file may contain
    None,
    Torn            \* what a power loss may leave of a file

File == 1 .. Files
Arch == Range(ArchOf)
Package == Range(PackageOf)

Manifest == UNION {[F -> Content] : F \in SUBSET File}

ASSUME StoreAssumption ==
    /\ Files \in Nat
    /\ DOMAIN ArchOf = File /\ DOMAIN PackageOf = File
    /\ Probed \subseteq File
    /\ None \notin Content \cup Release \cup File /\ Torn \notin Content
    /\ None # Torn /\ {None, Torn} \cap Manifest = {}

VARIABLES
    disk,       \* per release, the bytes of each package file
    tmp,        \* those of its ".tmp" while it is written
    manifest,   \* per release, the name and hash of each file it lists
    cmd,        \* what each caller's command is doing
    lostPower   \* history: the controller has lost power

storeVars == <<disk, tmp, manifest, cmd, lostPower>>

NoFiles == [f \in {} |-> None]

Ready == [step |-> "ready", release |-> None, listed |-> FALSE, todo |-> {},
          file |-> None, files |-> NoFiles, archs |-> {}]

Command ==
    [step : {"ready", "get", "unpack", "stage", "over", "hung"},
     release : Release \cup {None}, listed : BOOLEAN, todo : SUBSET File,
     file : File \cup {None}, files : Manifest, archs : SUBSET Arch]

StoreTypeOK ==
    /\ disk \in [Release -> [File -> Content \cup {None, Torn}]]
    /\ tmp \in [Release -> [File -> Content \cup {None}]]
    /\ manifest \in [Release -> Manifest \cup {None, Torn}]
    /\ cmd \in [Caller -> Command]
    /\ lostPower \in BOOLEAN
    /\ \A c \in Caller : cmd[c].step \in {"get", "unpack", "stage"} => cmd[c].release # None

FilesOf(a) == {f \in File : ArchOf[f] = a}

Doing(c, step) == at[c] = "in" /\ cmd[c].step = step

Between(c, step) == Doing(c, step) /\ cmd[c].file = None

(***************************************************************************)
(* Sync.                                                                   *)
(***************************************************************************)

\* NEWEST names the release; then the directory listing, or, without one, the
\* names to probe for.  A listing without a file for one of the
\* architectures is refused.
StartSync(c) ==
    /\ Between(c, "ready")
    /\ \E v \in Release, F \in SUBSET File, listed \in BOOLEAN :
          /\ IF listed THEN \A a \in Arch : F \cap FilesOf(a) # {} ELSE F = Probed
          /\ cmd' = [cmd EXCEPT ![c] = [Ready EXCEPT
                        !.step = "get", !.release = v, !.listed = listed,
                        !.todo = F, !.archs = Arch]]
    /\ UNCHANGED <<disk, tmp, manifest, lostPower>>

With(files, f, x) ==
    [g \in DOMAIN files \cup {f} |-> IF g = f THEN x ELSE files[g]]

\* Mutant: a file that is there is not compared.
KeptUnchecked(v, f, x) == disk[v][f] # None

StoredAlready(v, f, x) == disk[v][f] = x

\* Mutant: a file is replaced when the mirror serves another one.
Differs(v, f, x) == disk[v][f] # x

MayWrite(v, f, x) == disk[v][f] = None

\* storeImmutable: a file that is there is kept, and must be the same; one
\* that is not is written beside its place first.
Store(c, f, x) ==
    LET v == cmd[c].release  k == cmd[c] IN
    /\ cmd' = [cmd EXCEPT ![c] = [k EXCEPT
                  !.todo = @ \ {f}, !.files = With(@, f, x),
                  !.file = IF StoredAlready(v, f, x) THEN None ELSE f]]
    /\ \/ StoredAlready(v, f, x) /\ UNCHANGED tmp
       \/ MayWrite(v, f, x) /\ tmp' = [tmp EXCEPT ![v][f] = x]
    /\ UNCHANGED <<disk, manifest, lostPower>>

\* Mutant: a body that is longer than the limit is cut and taken.
CutOrWhole == Content \cup {Torn}

\* Bodies are read whole or refused.
Served == Content

\* One file downloaded.
Get(c, f) ==
    /\ Between(c, "get")
    /\ f \in cmd[c].todo
    /\ \E x \in Served : Store(c, f, x)

\* A file that is probed for and not served is left out, whatever the status.
Skip(c, f) ==
    /\ Between(c, "get")
    /\ f \in cmd[c].todo /\ ~cmd[c].listed
    /\ cmd' = [cmd EXCEPT ![c].todo = @ \ {f}]
    /\ UNCHANGED <<disk, tmp, manifest, lostPower>>

\* The rename that puts a file in its place.
Rename(c) ==
    LET v == cmd[c].release  f == cmd[c].file IN
    /\ Doing(c, "get") \/ Doing(c, "unpack")
    /\ f # None
    /\ tmp[v][f] # None
    /\ disk' = [disk EXCEPT ![v][f] = tmp[v][f]]
    /\ tmp' = [tmp EXCEPT ![v][f] = None]
    /\ cmd' = [cmd EXCEPT ![c].file = None]
    /\ UNCHANGED <<manifest, lostPower>>

Has(files, a, p) == \E f \in DOMAIN files : ArchOf[f] = a /\ PackageOf[f] = p

\* All files are there; a probe must have found the system package of every
\* architecture.
Downloaded(c) ==
    /\ Between(c, "get")
    /\ cmd[c].todo = {}
    /\ cmd[c].listed \/ \A a \in Arch : Has(cmd[c].files, a, System)
    /\ cmd' = [cmd EXCEPT ![c].step = "unpack"]
    /\ UNCHANGED <<disk, tmp, manifest, lostPower>>

\* The archive of all packages of an architecture, or, with none, the 404 that
\* is allowed.
GetArchive(c, a) ==
    /\ Between(c, "unpack")
    /\ cmd[c].todo = {} /\ a \in cmd[c].archs
    /\ \E F \in SUBSET FilesOf(a) :
          LET k == cmd[c] IN
          cmd' = [cmd EXCEPT ![c] = [k EXCEPT !.archs = @ \ {a}, !.todo = F]]
    /\ UNCHANGED <<disk, tmp, manifest, lostPower>>

\* One file of the archive, unless the manifest has its package already.
Unpack(c, f) ==
    /\ Between(c, "unpack")
    /\ f \in cmd[c].todo
    /\ IF Has(cmd[c].files, ArchOf[f], PackageOf[f])
       THEN /\ cmd' = [cmd EXCEPT ![c].todo = @ \ {f}]
            /\ UNCHANGED <<disk, tmp, manifest, lostPower>>
       ELSE \E x \in Served : Store(c, f, x)

AllStored(c) == Between(c, "unpack") /\ cmd[c].todo = {} /\ cmd[c].archs = {}

\* writeManifest, after everything it lists; its rename replaces the manifest
\* of an earlier sync.
PublishManifest(c) ==
    /\ AllStored(c)
    /\ manifest' = [manifest EXCEPT ![cmd[c].release] = cmd[c].files]
    /\ cmd' = [cmd EXCEPT ![c] = [Ready EXCEPT !.step = "over"]]
    /\ UNCHANGED <<disk, tmp, lostPower>>

(***************************************************************************)
(* Staging: upgrade and rollback read the store.                           *)
(***************************************************************************)

\* IndexByInstalledName: the first file of each package, of one architecture.
FirstFiles(man, a, P) ==
    {f \in DOMAIN man :
        /\ ArchOf[f] = a /\ PackageOf[f] \in P
        /\ \A g \in DOMAIN man :
              ArchOf[g] = a /\ PackageOf[g] = PackageOf[f] => f <= g}

\* Load, then preflight: every package of the device has a file.
StartStaging(c) ==
    /\ Between(c, "ready")
    /\ \E v \in Release, a \in Arch, P \in SUBSET Package :
          /\ manifest[v] \in Manifest
          /\ P # {} /\ \A p \in P : Has(manifest[v], a, p)
          /\ cmd' = [cmd EXCEPT ![c] = [Ready EXCEPT
                        !.step = "stage", !.release = v, !.files = manifest[v],
                        !.todo = FirstFiles(manifest[v], a, P)]]
    /\ UNCHANGED <<disk, tmp, manifest, lostPower>>

\* Mutant: a file that exists is taken for the right one.
Exists(c, f) == disk[cmd[c].release][f] # None

Intact(c, f) == disk[cmd[c].release][f] = cmd[c].files[f]

\* VerifyLocalFile.
Verify(c, f) ==
    /\ Between(c, "stage")
    /\ f \in cmd[c].todo
    /\ Intact(c, f)
    /\ cmd' = [cmd EXCEPT ![c].file = f]
    /\ UNCHANGED <<disk, tmp, manifest, lostPower>>

\* The upload opens the file again.
Upload(c) ==
    /\ Doing(c, "stage")
    /\ cmd[c].file # None
    /\ LET k == cmd[c] IN
          cmd' = [cmd EXCEPT ![c] = [k EXCEPT !.todo = @ \ {k.file}, !.file = None]]
    /\ UNCHANGED <<disk, tmp, manifest, lostPower>>

(***************************************************************************)
(* Ends.                                                                   *)
(***************************************************************************)

\* The temporary files of the commands that are given up.
Discard(C) ==
    tmp' = [v \in Release |-> [f \in File |->
               IF \E c \in C : cmd[c].release = v /\ cmd[c].file = f
               THEN None ELSE tmp[v][f]]]

\* Any call of a command fails: other bytes than those on disk, a status, an
\* answer that cannot be read, an I/O error, a file that is not intact.
Fail(c) ==
    /\ \E step \in {"get", "unpack", "stage"} : Doing(c, step)
    /\ Discard({c})
    /\ cmd' = [cmd EXCEPT ![c] = [Ready EXCEPT !.step = "over"]]
    /\ UNCHANGED <<disk, manifest, lostPower>>

\* Mutant: a command that has failed, or written, does not unlock.
OnlyReaders(c) ==
    \/ cmd[c].step = "ready"
    \/ cmd[c].step = "stage" /\ cmd[c].todo = {} /\ cmd[c].file = None

\* The command has returned, whatever its result.
Over(c) ==
    \/ cmd[c].step \in {"ready", "over"}
    \/ cmd[c].step = "stage" /\ cmd[c].todo = {} /\ cmd[c].file = None

StoreInit ==
    /\ disk = [v \in Release |-> [f \in File |-> None]]
    /\ tmp = [v \in Release |-> [f \in File |-> None]]
    /\ manifest = [v \in Release |-> None]
    /\ cmd = [c \in Caller |-> Ready]
    /\ lostPower = FALSE
=============================================================================
